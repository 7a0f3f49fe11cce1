----------------------------- MODULE MCLoopLive -----------------------------
(*****************************************************************************)
(* The event loop and what runs on it under fairness for TLC: its events, a  *)
(* stream and a connection of the HTTP server.                               *)
(*****************************************************************************)
EXTENDS UloopEvents

VARIABLES
    part,  \* the component a behaviour is about
    \* a stream and its peer
    sR, sW, sRsock, sWsock, sPeer, sSent, sGot, sWritten, sArrived, sBlocked,
    sEof, sWerror, sTimer, sInterest, sReady, sFderror, sPc, sEvents, sWr,
    \* a connection of the HTTP server
    hState, hDisp, hHeld, hBuf, hUnseen, hRun, hFull, hReq, hNeed, hBody,
    hClose, hTimer, hProbes, hLeft, hW, hEof, hWerr, hStch, hCount, hDebt,
    hHung, hHurt

Stream == INSTANCE Ustream WITH
    BufLen <- 2, Few <- 1, Writes <- {1, 3}, SndBuf <- 1, MaxSent <- 3,
    MaxWritten <- 4,
    r <- sR, w <- sW, rsock <- sRsock, wsock <- sWsock, peer <- sPeer,
    sent <- sSent, got <- sGot, written <- sWritten, arrived <- sArrived,
    blocked <- sBlocked, eof <- sEof, werror <- sWerror, timer <- sTimer,
    interest <- sInterest, ready <- sReady, fderror <- sFderror, pc <- sPc,
    events <- sEvents, wr <- sWr

StreamVars == <<sR, sW, sRsock, sWsock, sPeer, sSent, sGot, sWritten, sArrived, sBlocked,
    sEof, sWerror, sTimer, sInterest, sReady, sFderror, sPc, sEvents, sWr>>

Http == INSTANCE HttpClient WITH
    MaxIn <- 4, BufLen <- 3, MaxPost <- 1, FileLen <- 2, MaxProbes <- 2,
    state <- hState, disp <- hDisp, held <- hHeld, buf <- hBuf,
    unseen <- hUnseen, run <- hRun, full <- hFull, req <- hReq, need <- hNeed,
    body <- hBody, close <- hClose, timer <- hTimer, probes <- hProbes,
    left <- hLeft, w <- hW, eof <- hEof, werr <- hWerr, stch <- hStch,
    count <- hCount, debt <- hDebt, hung <- hHung, hurt <- hHurt

HttpVars == <<hState, hDisp, hHeld, hBuf, hUnseen, hRun, hFull, hReq, hNeed, hBody,
    hClose, hTimer, hProbes, hLeft, hW, hEof, hWerr, hStch, hCount, hDebt,
    hHung, hHurt>>

\* The assumptions of the instances on their constants.
ASSUME MCLoopLiveAssumption ==
    /\ Stream!UstreamAssumption
    /\ Http!HttpAssumption

(* One component steps in a behaviour, the others rest where they begin. *)

MCInit ==
    /\ part \in {"events", "stream", "http"}
    /\ Init
    /\ Stream!Init
    /\ Http!Init

MCNext ==
    /\ part' = part
    /\ \/ part = "events" /\ Next /\ UNCHANGED <<StreamVars, HttpVars>>
       \/ part = "stream" /\ Stream!Next /\ UNCHANGED <<vars, HttpVars>>
       \/ part = "http" /\ Http!Next /\ UNCHANGED <<vars, StreamVars>>

mcVars == <<part, vars, StreamVars, HttpVars>>

MCSpec == MCInit /\ [][MCNext]_mcVars
-----------------------------------------------------------------------------
\* A descriptor with something to read is called back or deleted, however busy
\* the others are and however small the batch, and a termination signal ends
\* the loop whenever it comes (uloop_run_events, uloop_run).
EventsServed == part = "events" => (Fairness => ReadyServed /\ TermEnds)

\* What the peer sends is handed to the user, what is written reaches a peer
\* that reads, and the end of either is told once everything before it is
\* (ustream-fd.c).
StreamDelivers ==
    part = "stream" => (Stream!Fairness =>
       /\ Stream!ReadDelivered
       /\ Stream!WriteDelivered
       /\ Stream!EndTold)

\* The loop over the bytes of a request ends, and a connection that sends
\* nothing more is freed by its timer (uh_client_read_cb, keepalive_cb).
HttpEnds ==
    part = "http" => (Http!Fairness => Http!LoopEnds /\ Http!IdleFreed)
=============================================================================
