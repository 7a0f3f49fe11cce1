----------------------------- MODULE HttpClient -----------------------------
(***************************************************************************)
(* One connection of the HTTP server, protocol/http/client.c with the file   *)
(* sender of file.c and the CGI relay of uhttpd-cgi.c, on the buffers of     *)
(* lib/libubox (external).                                                   *)
(*                                                                         *)
(* Input is a sequence of tokens: request lines, header lines, the empty     *)
(* line "end", and "b", a byte of a body.  uloop runs one callback at a      *)
(* time; `run` says which loop of the read callback is active, and while it  *)
(* is, nothing else of the connection happens.  What a peer reads of the     *)
(* answers is abstracted to whether output is pending.                       *)
(***************************************************************************)
EXTENDS Integers, Sequences, FiniteSets

CONSTANTS
    MaxIn,    \* bound: tokens a peer sends
    BufLen,   \* r.buffer_len, the size of the read buffer
    MaxPost,  \* UH_POST_MAX_POST_SIZE, the largest body
    FileLen,  \* the size of the files served
    MaxProbes \* UHTTPD_MAX_KEEPALIVE_PROBES

\* What the constants are assumed to be.
HttpAssumption ==
    /\ MaxIn \in Nat /\ BufLen \in Nat \ {0} /\ MaxPost \in Nat
    /\ FileLen \in Nat /\ MaxProbes \in Nat \ {0}

VARIABLES
    state,   \* CLIENT_STATE_*, or "gone" once the client is freed
    disp,    \* whose callbacks cl->dispatch holds
    held,    \* the resources taken for a dispatch and not released
    buf,     \* the unread bytes
    unseen,  \* bytes have arrived that the read callback was not told of
    run,     \* the loop of the read callback that is active
    full,    \* the buffer was full when the callback that runs was called
    req,     \* the request line being served
    need,    \* request.content_length
    body,    \* dispatch.post_len
    close,   \* connection_close
    timer,   \* is the keepalive timer armed
    probes,  \* tcp_keepalive_probes
    left,    \* range.length, what is left to send of a file
    w,       \* output is pending
    eof, werr, stch,  \* eof, write_error and a pending state change of the stream
    count,   \* tokens the peer has sent
    debt,    \* requests begun less answers ended
    hung,    \* a loop of uloop's thread that does not end
    hurt     \* what has gone wrong on the way

conn   == <<state, disp, held>>
input  == <<buf, unseen, count>>
parse  == <<req, need, body, close>>
keep   == <<timer, probes>>
stream == <<eof, werr, stch>>
fate   == <<hung, hurt>>
vars   == <<conn, input, run, full, parse, keep, left, w, stream, debt, fate>>

Requests == {"get", "old", "file", "post", "cgi"}
Headers  == {"len1", "len2", "close", "chunked"}
Tokens   == Requests \cup Headers \cup {"junk", "end", "b"}

Live == state # "gone" /\ ~hung

\* The bytes before the first line end: a line of its own, or the rest of a body
\* glued to the line that follows; 0 if there is none.
LineEnd ==
    IF \E i \in 1 .. Len(buf) : buf[i] # "b"
      THEN CHOOSE i \in 1 .. Len(buf) : buf[i] # "b" /\ \A j \in 1 .. i - 1 : buf[j] = "b"
      ELSE 0

\* What the parser of a request line and that of a header make of a line.
AsRequest == IF LineEnd = 1 THEN buf[1] ELSE "junk"
AsHeader  == IF LineEnd = 1 /\ buf[1] \notin Requests THEN buf[1]
             ELSE IF LineEnd > 1 /\ buf[LineEnd] \in Headers THEN "other" ELSE "junk"

Consume(n) == buf' = SubSeq(buf, n + 1, Len(buf))

Holds(d) == CASE d = "body" -> {"body"} [] d = "file" -> {"fd"}
              [] d = "cgi" -> {"pipes"} [] OTHER -> {}

Init ==
    /\ state = "init" /\ disp = "none" /\ held = {}
    /\ buf = <<>> /\ unseen = FALSE /\ run = "idle" /\ full = FALSE
    /\ req = "none" /\ need = 0 /\ body = 0 /\ close = FALSE
    /\ timer = TRUE /\ probes = 0 /\ left = 0 /\ w = FALSE
    /\ eof = FALSE /\ werr = FALSE /\ stch = FALSE
    /\ count = 0 /\ debt = 0 /\ hung = FALSE /\ hurt = {}

-----------------------------------------------------------------------------
(* Operators shared by the handlers.                                         *)

\* Output: it goes to the socket, or what does not fit stays pending.  Writing
\* arms the keepalive timer.
Output == w' \in {w, TRUE}

\* Fault: the dispatch outlives its request.
DispatchDone_Never(d) == UNCHANGED <<disp, held>>

\* dispatch_done: the dispatch d frees what it holds and is cleared.
DispatchDone(d) ==
    /\ disp' = "none"
    /\ held' = held \ Holds(d)

\* Fault: the length of the old body stays.
RequestDone_KeepsLength(n, d) ==
    /\ DispatchDone(d)
    /\ debt' = debt - n
    /\ body' = 0 /\ timer' = TRUE
    /\ IF close
         THEN /\ state' = "close" /\ eof' = TRUE /\ stch' = TRUE
              /\ UNCHANGED <<req, need>>
         ELSE /\ state' = "init" /\ req' = "none" /\ UNCHANGED <<need, eof, stch>>

\* client_request_done: n answers are complete.  What the dispatch d holds is
\* released, and the connection closes or is ready for the next request.
RequestDone(n, d) ==
    /\ DispatchDone(d)
    /\ debt' = debt - n
    /\ body' = 0 /\ timer' = TRUE
    /\ IF close
         THEN /\ state' = "close" /\ eof' = TRUE /\ stch' = TRUE
              /\ UNCHANGED <<req, need>>
         ELSE /\ state' = "init" /\ req' = "none" /\ need' = 0
              /\ UNCHANGED <<eof, stch>>

\* An answer sent in one go: send_json, send_error, redirect.
Answer == Output /\ RequestDone(1, disp)

\* The RESTful table knows the request: answered, and the probes start afresh.
Command ==
    /\ Answer
    /\ probes' = 0
    /\ UNCHANGED left

\* Any other answer in one go: an error, a redirection, 304, 416.
Refused == Answer /\ UNCHANGED <<probes, left>>

\* file_write_cb, the file sent to its end: the answer is complete.
FileSent ==
    /\ left' = 0
    /\ Output /\ RequestDone(1, "file")

\* file_write_cb, the output full: what is in rest remains, perhaps nothing but to
\* see the end.
FileWaits(rest) ==
    /\ left' \in rest /\ w' = TRUE
    /\ disp' = "file" /\ held' = held \cup {"fd"}
    /\ UNCHANGED <<req, need, body, eof, stch, debt>>

\* uh_file_data: the file becomes the dispatch, whatever that held before, and
\* goes out as fast as the peer takes it.
File ==
    /\ UNCHANGED probes
    /\ \/ FileSent
       \/ FileWaits(0 .. FileLen) /\ state' = "done" /\ timer' = TRUE

\* A CGI request is answered when its pipes are open already, and d is what the
\* dispatch is then.
AnsweredWithPipes(d) ==
    /\ Output
    /\ disp' = d /\ held' = (held \ Holds(disp)) \cup {"pipes"}
    /\ debt' = debt - 1
    /\ body' = 0 /\ timer' = TRUE
    /\ state' = (IF close THEN "close" ELSE "init")
    /\ eof' = (eof \/ close) /\ stch' = (stch \/ close)
    /\ req' = (IF close THEN req ELSE "none") /\ need' = (IF close THEN need ELSE 0)

-----------------------------------------------------------------------------
(* The read callback, uh_client_read_cb.                                     *)

\* uloop tells the connection of the bytes that have arrived.
ReadCb ==
    /\ Live /\ run = "idle" /\ unseen
    /\ unseen' = FALSE
    /\ run' = IF state \in {"init", "header", "data"} /\ buf # <<>> THEN "read" ELSE "idle"
    /\ UNCHANGED <<conn, buf, count, full, parse, keep, left, w, stream, debt, fate>>

\* No complete line: wait for more.
NoLine ==
    /\ run = "read" /\ state \in {"init", "header"} /\ LineEnd = 0
    /\ run' = "check" /\ full' = (Len(buf) = BufLen)
    /\ UNCHANGED <<conn, input, parse, keep, left, w, stream, debt, fate>>

\* A callback has left bytes alone: if it was called with a full buffer and no
\* body is awaited, the request is refused as too large.
Full ==
    /\ run = "check"
    /\ run' = "idle" /\ full' = FALSE
    /\ IF full /\ state # "data"
         THEN Answer /\ hurt' = hurt \cup {"full"}
         ELSE UNCHANGED <<conn, req, need, body, timer, w, eof, stch, debt, hurt>>
    /\ UNCHANGED <<input, close, probes, left, werr, hung>>

\* client_init_cb: an empty line is skipped, a line that is no request refused.
InitCb ==
    /\ run = "read" /\ state = "init" /\ LineEnd > 0
    /\ Consume(LineEnd)
    /\ IF AsRequest = "end"
         THEN UNCHANGED <<conn, req, need, body, close, timer, w, eof, stch, debt>>
         ELSE IF AsRequest \in Requests
         THEN /\ state' = "header" /\ req' = AsRequest
              /\ close' = (close \/ AsRequest = "old")
              /\ debt' = debt + 1
              /\ UNCHANGED <<disp, held, need, body, timer, w, eof, stch>>
         ELSE Output /\ RequestDone(0, disp) /\ UNCHANGED close
    /\ run' = IF Len(buf') > 0 /\ state' \in {"init", "header"} THEN "read" ELSE "idle"
    /\ UNCHANGED <<unseen, count, full, probes, left, werr, fate>>

\* client_parse_header on a line that is not the last.
HeaderCb ==
    /\ run = "read" /\ state = "header" /\ LineEnd > 0
    /\ AsHeader # "end"
    /\ Consume(LineEnd)
    /\ \/ /\ AsHeader \in {"len1", "len2"}
          /\ need' = IF AsHeader = "len1" THEN 1 ELSE 2
          /\ UNCHANGED <<conn, req, body, close, timer, w, eof, stch, debt>>
       \/ /\ AsHeader = "close"
          /\ close' = TRUE
          /\ UNCHANGED <<conn, req, need, body, timer, w, eof, stch, debt>>
       \/ /\ AsHeader = "other"
          /\ UNCHANGED <<conn, parse, timer, w, eof, stch, debt>>
       \/ /\ AsHeader = "junk"
          /\ state' = "done"
          /\ UNCHANGED <<disp, held, parse, timer, w, eof, stch, debt>>
       \/ /\ AsHeader = "chunked"
          /\ Answer
          /\ UNCHANGED close
    /\ run' = IF Len(buf') > 0 /\ state' \in {"init", "header"} THEN "read" ELSE "idle"
    /\ UNCHANGED <<unseen, count, full, probes, left, werr, fate>>

\* The empty line: the timer is cancelled and the request served.  A POST goes on
\* with its body.
HeaderEnd ==
    /\ run = "read" /\ state = "header" /\ LineEnd = 1 /\ buf[1] = "end"
    /\ Consume(1)
    /\ \/ /\ req \in {"get", "old"}
          /\ Command
          /\ UNCHANGED hurt
       \/ /\ req # "cgi"   \* a method that is not served, no file, no memory
          /\ Refused
          /\ UNCHANGED hurt
       \/ /\ req = "file"
          /\ File
          /\ UNCHANGED hurt
       \/ /\ req = "post"
          /\ state' = "data" /\ disp' = "body" /\ held' = held \cup {"body"} /\ body' = 0
          /\ timer' = FALSE
          /\ UNCHANGED <<req, need, probes, left, w, eof, stch, debt, hurt>>
       \/ /\ req = "cgi"   \* a program is started
          /\ state' = "data" /\ disp' = "cgi" /\ held' = held \cup {"pipes"}
          /\ timer' = FALSE
          /\ UNCHANGED <<req, need, body, probes, left, w, eof, stch, debt, hurt>>
       \/ /\ req = "cgi"   \* no such path, no memory, no pipe
          /\ Refused
          /\ UNCHANGED hurt
       \/ /\ req = "cgi"   \* no process: the pipes stay open
          /\ AnsweredWithPipes("none")
          /\ hurt' = hurt \cup {"leak"}
          /\ UNCHANGED <<probes, left>>
       \/ /\ req = "cgi"   \* a directory: redirected, and started all the same
          /\ AnsweredWithPipes("cgi")
          /\ hurt' = hurt \cup {"redirect"}
          /\ UNCHANGED <<probes, left>>
    /\ full' = (state' = "data" /\ Len(buf) = BufLen)
    /\ run' = IF state' = "data" THEN "post"
              ELSE IF Len(buf') > 0 /\ state' = "init" THEN "read" ELSE "idle"
    /\ UNCHANGED <<unseen, count, close, werr, hung>>

\* client_data_cb
DataCb ==
    /\ run = "read" /\ state = "data"
    /\ run' = "post" /\ full' = (Len(buf) = BufLen)
    /\ UNCHANGED <<conn, input, parse, keep, left, w, stream, debt, fate>>

-----------------------------------------------------------------------------
(* The loop of client_poll_post_data.                                        *)

Part == IF need < Len(buf) THEN need ELSE Len(buf)

\* A part of a body is stored, or the body is too large and refused.
PostBody ==
    /\ run = "post" /\ disp = "body" /\ Part > 0
    /\ IF body + Part > MaxPost
         THEN /\ Answer /\ run' = "check"
              /\ UNCHANGED buf
         ELSE /\ body' = body + Part /\ need' = need - Part
              /\ Consume(Part)
              /\ run' = IF need' = 0 THEN "over" ELSE "post"
              /\ UNCHANGED <<conn, req, timer, w, eof, stch, debt>>
    /\ UNCHANGED <<unseen, count, full, close, probes, left, werr, fate>>

\* A part is handed to the CGI program; if that has gone, the loop tries again
\* and again.
PostCgi ==
    /\ run = "post" /\ disp = "cgi" /\ Part > 0
    /\ \/ /\ need' = need - Part /\ Consume(Part)
          /\ run' = IF need' = 0 THEN "over" ELSE "post"
          /\ UNCHANGED fate
       \/ /\ hung' = TRUE /\ hurt' = hurt \cup {"deaf"}
          /\ UNCHANGED <<need, buf, run>>
    /\ UNCHANGED <<conn, unseen, count, full, req, body, close, keep, left, w, stream, debt>>

\* Bytes behind a request that has no body are never taken and never left.
PostSpins ==
    /\ run = "post" /\ disp # "none" /\ need = 0 /\ buf # <<>> /\ ~hung
    /\ hung' = TRUE
    /\ hurt' = hurt \cup {"empty"}
    /\ UNCHANGED <<conn, input, run, full, parse, keep, left, w, stream, debt>>

\* Fault: the loop is not left.
PostBreak_Stays ==
    /\ run = "post" /\ buf = <<>>
    /\ run' = IF need = 0 THEN "over" ELSE "post"
    /\ UNCHANGED <<conn, input, full, parse, keep, left, w, stream, debt, fate>>

\* The buffer is empty: the body is complete, or more is to come.
PostBreak ==
    /\ run = "post" /\ buf = <<>>
    /\ run' = IF need = 0 THEN "over" ELSE "check"
    /\ UNCHANGED <<conn, input, full, parse, keep, left, w, stream, debt, fate>>

\* Fault: a request of the table is answered as not found as well.
PostDone_FallsThrough ==
    /\ run = "over" /\ disp = "body"
    /\ Output /\ RequestDone(2, disp)
    /\ run' = "check"
    /\ UNCHANGED <<input, full, close, probes, left, werr, fate>>

\* post_post_done: the table, a file, whose dispatch takes the place of the
\* body's so that nothing frees the body, or not found.
PostDone ==
    /\ run = "over" /\ disp = "body"
    /\ \/ Command /\ UNCHANGED hurt
       \/ File /\ hurt' = hurt \cup {"leak"}
       \/ Refused /\ UNCHANGED hurt
    /\ run' = "check"
    /\ UNCHANGED <<input, full, close, werr, hung>>

\* uh_cgi_socket_recv_cb: uloop's thread reads the output of the program to its
\* end.  When a read times out, an error answer follows and the request is done twice.
CgiDone ==
    /\ run = "over" /\ disp = "cgi"
    /\ Output
    /\ \/ RequestDone(1, disp) /\ UNCHANGED hurt
       \/ RequestDone(2, disp) /\ hurt' = hurt \cup {"twice"}
    /\ run' = "check"
    /\ UNCHANGED <<input, full, close, probes, left, werr, hung>>

-----------------------------------------------------------------------------
(* The other callbacks of the stream, and the timer.                         *)

\* Pending output is written; the file goes on, and a stream that has ended
\* reports so.
Written ==
    /\ Live /\ run = "idle" /\ w
    /\ IF disp = "file" /\ ~werr
         THEN /\ \/ FileSent
                 \/ FileWaits(0 .. left - 1) /\ UNCHANGED <<state, timer>>
              /\ UNCHANGED <<close, werr>>
         ELSE /\ w' = FALSE
              /\ stch' = (stch \/ eof)
              /\ UNCHANGED <<conn, parse, timer, left, eof, werr, debt>>
    /\ UNCHANGED <<input, run, full, probes, fate>>

\* Fault: only the stream is released.
ClientFree_NoDispatch ==
    /\ state' = "gone" /\ disp' = "none"
    /\ timer' = FALSE
    /\ UNCHANGED held

\* client_free
ClientFree ==
    /\ state' = "gone"
    /\ DispatchDone(disp)
    /\ timer' = FALSE

\* uh_client_notify_state: a stream that has failed, or ended with nothing
\* pending, goes, but not while a body is awaited.
NotifyState ==
    /\ Live /\ run = "idle" /\ stch
    /\ stch' = FALSE
    /\ w' = (w /\ ~werr)
    /\ IF werr \/ (state # "data" /\ eof /\ ~w)
         THEN ClientFree
         ELSE UNCHANGED <<conn, timer>>
    /\ UNCHANGED <<input, run, full, parse, probes, left, eof, werr, debt, fate>>

\* Fault: the timer is not set again.
Keepalive_OneShot ==
    /\ Live /\ run = "idle" /\ timer
    /\ probes' = IF probes < MaxProbes THEN probes + 1 ELSE probes
    /\ timer' = FALSE
    /\ IF probes + 1 >= MaxProbes
         THEN state' = "close" /\ eof' = TRUE /\ stch' = TRUE
         ELSE UNCHANGED <<state, eof, stch>>
    /\ UNCHANGED <<disp, held, input, run, full, parse, left, w, werr, debt, fate>>

\* keepalive_cb: sets itself again; after so many probes the connection closes.
Keepalive ==
    /\ Live /\ run = "idle" /\ timer
    /\ probes' = IF probes < MaxProbes THEN probes + 1 ELSE probes
    /\ IF probes + 1 >= MaxProbes
         THEN state' = "close" /\ eof' = TRUE /\ stch' = TRUE
         ELSE UNCHANGED <<state, eof, stch>>
    /\ UNCHANGED <<disp, held, timer, input, run, full, parse, left, w, werr, debt, fate>>

-----------------------------------------------------------------------------
(* The peer.                                                                 *)

Arrive ==
    /\ Live /\ run = "idle" /\ ~eof /\ count < MaxIn /\ Len(buf) < BufLen
    /\ \E t \in Tokens : buf' = Append(buf, t)
    /\ unseen' = TRUE /\ count' = count + 1
    /\ UNCHANGED <<conn, run, full, parse, keep, left, w, stream, debt, fate>>

\* The peer has closed, and the end of its bytes is read.
PeerEnds ==
    /\ Live /\ run = "idle" /\ ~eof /\ ~unseen
    /\ eof' = TRUE /\ stch' = TRUE
    /\ UNCHANGED <<conn, input, run, full, parse, keep, left, w, werr, debt, fate>>

\* The connection breaks.
Breaks ==
    /\ Live /\ run = "idle" /\ ~werr
    /\ werr' = TRUE /\ stch' = TRUE
    /\ UNCHANGED <<conn, input, run, full, parse, keep, left, w, eof, debt, fate>>

Loop == NoLine \/ Full \/ InitCb \/ HeaderCb \/ HeaderEnd \/ DataCb
          \/ PostBody \/ PostCgi \/ PostSpins \/ PostBreak \/ PostDone \/ CgiDone
Uloop == ReadCb \/ Loop \/ Written \/ NotifyState \/ Keepalive

Next == Uloop \/ Arrive \/ PeerEnds \/ Breaks

\* uloop runs the callbacks and timers that are due; pending output is read by
\* the peer or the connection breaks, at the latest when TCP gives up.
Fairness ==
    /\ WF_vars(ReadCb) /\ WF_vars(Loop) /\ WF_vars(NotifyState) /\ WF_vars(Keepalive)
    /\ WF_vars(Written \/ (w /\ Breaks))

Spec == Init /\ [][Next]_vars /\ Fairness

-----------------------------------------------------------------------------
\* The fields of the client hold values of their types, the content length and
\* the length of a body within their limits (post_post_data).
TypeOK ==
    /\ state \in {"init", "header", "data", "done", "close", "gone"}
    /\ disp \in {"none", "body", "file", "cgi"} /\ held \subseteq {"body", "fd", "pipes"}
    /\ buf \in Seq(Tokens) /\ Len(buf) <= BufLen /\ count \in 0 .. MaxIn
    /\ run \in {"idle", "read", "post", "over", "check"}
    /\ req \in Requests \cup {"none"} /\ need \in 0 .. 2 /\ body \in 0 .. MaxPost
    /\ {unseen, full, close, timer, w, eof, werr, stch, hung} \subseteq BOOLEAN
    /\ probes \in 0 .. MaxProbes /\ left \in 0 .. FileLen /\ debt \in Int
    /\ hurt \subseteq {"full", "redirect", "leak", "deaf", "empty", "twice"}

\* Every request is answered once: between the callbacks an answer is owed
\* exactly while a request is being read or served.  A CGI program that is too
\* slow, a CGI path that is a directory and a line longer than the buffer break it.
AnsweredOnce ==
    (run = "idle" /\ hurt \cap {"full", "redirect", "twice"} = {}) =>
        debt = (IF state \in {"header", "data", "done"} THEN 1
                ELSE IF state = "init" THEN 0 ELSE debt)

\* Descriptors, pipes and bodies are those the dispatch will free: none is left
\* when the client goes.  A redirected CGI request leaves its pipes to the next; a
\* file sent in answer to a POST loses the body, a fork that fails the pipes.
HeldByDispatch == hurt \cap {"redirect", "leak"} = {} => held = Holds(disp)

\* A body is awaited with callbacks that take it, and no other state has a
\* dispatch that takes input.
DataIsDispatched ==
    "redirect" \notin hurt =>
        ((state = "data") <=> (disp \in {"body", "cgi"}))

\* A connection that does not wait for a body has its timer running, so that it
\* cannot stay for ever; one that waits for a body has none.
TimerGuards == timer <=> state \notin {"data", "gone"}

\* A request never sees the length of the one before it.
FreshLength == (state = "init" /\ run = "idle" /\ ~close) => need = 0

\* All of these: whatever bytes come and however the connection ends, a client is
\* consistent between its callbacks (client.c).
HttpSound ==
    /\ TypeOK
    /\ AnsweredOnce
    /\ HeldByDispatch
    /\ DataIsDispatched
    /\ TimerGuards
    /\ FreshLength

\* The loops of the read callback end, but for bytes behind a POST without a body
\* and a CGI program that does not read.
LoopEnds == <>[](run = "idle" \/ hung)

\* A connection the peer does nothing with any more is closed and freed, unless
\* it waits for the rest of a body.
IdleFreed == <>[](state \in {"gone", "data"} \/ hung)
=============================================================================
