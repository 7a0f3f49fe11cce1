------------------------------- MODULE MCLoop -------------------------------
(*****************************************************************************)
(* The event loop and what runs on it for TLC: its timers, the buffers of a  *)
(* stream, and a connection of the HTTP server.                              *)
(*****************************************************************************)
EXTENDS UloopTimers

CONSTANTS
    \* of the stream
    StreamBuf, Few, Writes, SndBuf, MaxSent, MaxWritten,
    \* of the HTTP connection
    MaxIn, BufLen, MaxPost, FileLen, MaxProbes

VARIABLES
    part,  \* the component a behaviour is about
    \* a stream and its peer
    sR, sW, sRsock, sWsock, sPeer, sSent, sGot, sWritten, sArrived, sBlocked,
    sEof, sWerror, sTimer, sInterest, sReady, sFderror, sPc, sEvents, sWr,
    \* a connection of the HTTP server
    hState, hDisp, hHeld, hBuf, hUnseen, hRun, hFull, hReq, hNeed, hBody,
    hClose, hTimer, hProbes, hLeft, hW, hEof, hWerr, hStch, hCount, hDebt,
    hHung, hHurt

Stream == INSTANCE Ustream WITH
    BufLen <- StreamBuf,
    r <- sR, w <- sW, rsock <- sRsock, wsock <- sWsock, peer <- sPeer,
    sent <- sSent, got <- sGot, written <- sWritten, arrived <- sArrived,
    blocked <- sBlocked, eof <- sEof, werror <- sWerror, timer <- sTimer,
    interest <- sInterest, ready <- sReady, fderror <- sFderror, pc <- sPc,
    events <- sEvents, wr <- sWr

StreamVars == <<sR, sW, sRsock, sWsock, sPeer, sSent, sGot, sWritten, sArrived, sBlocked,
    sEof, sWerror, sTimer, sInterest, sReady, sFderror, sPc, sEvents, sWr>>

Http == INSTANCE HttpClient WITH
    state <- hState, disp <- hDisp, held <- hHeld, buf <- hBuf,
    unseen <- hUnseen, run <- hRun, full <- hFull, req <- hReq, need <- hNeed,
    body <- hBody, close <- hClose, timer <- hTimer, probes <- hProbes,
    left <- hLeft, w <- hW, eof <- hEof, werr <- hWerr, stch <- hStch,
    count <- hCount, debt <- hDebt, hung <- hHung, hurt <- hHurt

HttpVars == <<hState, hDisp, hHeld, hBuf, hUnseen, hRun, hFull, hReq, hNeed, hBody,
    hClose, hTimer, hProbes, hLeft, hW, hEof, hWerr, hStch, hCount, hDebt,
    hHung, hHurt>>

\* The assumptions of the instances on their constants.
ASSUME MCLoopAssumption ==
    /\ Stream!UstreamAssumption
    /\ Http!HttpAssumption

(* One component steps in a behaviour, the others rest where they begin. *)

MCInit ==
    /\ part \in {"timers", "stream", "http"}
    /\ Init
    /\ Stream!Init
    /\ Http!Init

MCNext ==
    /\ part' = part
    /\ \/ part = "timers" /\ Next /\ UNCHANGED <<StreamVars, HttpVars>>
       \/ part = "stream" /\ Stream!Next /\ UNCHANGED <<vars, HttpVars>>
       \/ part = "http" /\ Http!Next /\ UNCHANGED <<vars, StreamVars>>
       \* the bounds of an instance may stop it
       \/ part \in {"stream", "http"} /\ UNCHANGED <<vars, StreamVars, HttpVars>>

mcVars == <<part, vars, StreamVars, HttpVars>>

MCSpec == MCInit /\ [][MCNext]_mcVars
-----------------------------------------------------------------------------
\* Whatever the sizes of reads, writes and buffers, the bytes of a stream
\* reach its user and its peer in order, once and without a gap, and the list
\* of buffers stays usable (ustream.c).
StreamSound == part = "stream" => Stream!StreamSound

\* Any sequence of bytes and of endings of the connection leaves the HTTP
\* client consistent: each request is answered once, memory and timer are held
\* as long as needed, and nothing of a request is left for the next one
\* (client.c).
HttpSound == part = "http" => Http!HttpSound
=============================================================================
