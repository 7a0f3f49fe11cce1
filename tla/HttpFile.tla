------------------------------ MODULE HttpFile ------------------------------
(***************************************************************************)
(* The file sender of the HTTP server, protocol/http/file.c: the conditions   *)
(* and ranges of a request, the status and length its answer announces, and   *)
(* the body, which goes out over several callbacks while other programs       *)
(* write the file.                                                           *)
(*                                                                         *)
(* One connection asks for one file after the other.  A byte of a file is its *)
(* position; the read buffer of 8192 bytes is Chunk positions.  Whether fewer  *)
(* than 256 bytes wait in the stream after a write is the peer's doing.        *)
(***************************************************************************)
EXTENDS Integers, Sequences, FiniteSets

CONSTANTS
    Files,    \* the files of the document root
    MaxSize,  \* bound: bytes of a file
    Chunk,    \* sizeof(buf) in file_write_cb
    MaxReqs,  \* bound: requests
    MaxEdits  \* bound: changes of a file's size

\* What the constants are assumed to be.
FileAssumption ==
    /\ Chunk \in Nat \ {0} /\ MaxSize \in Nat /\ MaxReqs \in Nat /\ MaxEdits \in Nat

VARIABLES
    size,      \* how long each file is
    file,      \* the file of the request
    st_size,   \* its length when it was looked up
    range,     \* cl->range, which outlives a request
    first,     \* where the range of the answer begins
    pos,       \* the position of the descriptor
    fds,       \* descriptors open
    free,      \* dispatch.free is uh_file_free
    status,    \* the status of the answer
    announced, \* its Content-Length
    sent,      \* the positions sent as its body, in order
    pc,        \* "idle", "send": in file_write_cb, "wait": until the peer reads
    odd,       \* the request's range has no "-": what is answered is undefined
    cut,       \* the file lost bytes of the range while it was sent, or failed to be read
    reqs, edits

cl   == <<range, free, pc>>
resp == <<status, announced, sent, first>>
vars == <<size, file, st_size, cl, pos, fds, resp, odd, cut, reqs, edits>>

\* What a Range header asks for, behind the "=".
Specs == [form : {"last"}, n : 0 .. MaxSize]              \* bytes=-100
    \cup [form : {"from"}, a : 0 .. MaxSize]              \* bytes=100-
    \cup [form : {"part"}, a : 0 .. MaxSize, b : 0 .. MaxSize]  \* bytes=0-100
    \cup [form : {"none", "nodash", "noequals"}]

Whole(s) == [offset |-> 0, length |-> s]
Refused  == [offset |-> 0, length |-> -1]

\* Fault: the last byte of a range may be the one behind the file.
uh_prase_range_Beyond(x, s) ==
    CASE x.form = "last" /\ x.n + 1 <= s -> {[offset |-> s - (x.n + 1), length |-> x.n + 1]}
      [] x.form = "from" /\ x.a < s -> {[offset |-> x.a, length |-> s - x.a]}
      [] x.form = "part" /\ x.b <= s /\ x.a <= x.b -> {[offset |-> x.a, length |-> x.b - x.a + 1]}
      [] OTHER -> {}

\* The range a specification means in a file of s bytes: none, or one.  The last n
\* bytes are n + 1.
uh_prase_range(x, s) ==
    CASE x.form = "last" /\ x.n + 1 <= s -> {[offset |-> s - (x.n + 1), length |-> x.n + 1]}
      [] x.form = "from" /\ x.a < s -> {[offset |-> x.a, length |-> s - x.a]}
      [] x.form = "part" /\ x.b < s /\ x.a <= x.b -> {[offset |-> x.a, length |-> x.b - x.a + 1]}
      [] OTHER -> {}

\* uh_file_if_range: the ranges that may be answered.  Without a condition that
\* matches the Etag the whole file is.  A range without "-" leaves the result of
\* uh_prase_range undefined: a refusal, or the range of an earlier request.
uh_file_if_range(x, matches, s) ==
    IF x.form = "none" \/ ~matches THEN {Whole(s)}
    ELSE IF x.form = "nodash" THEN {range, Refused}
    ELSE IF uh_prase_range(x, s) = {} THEN {Refused} ELSE uh_prase_range(x, s)

Init ==
    /\ size \in [Files -> 0 .. MaxSize] /\ file \in Files /\ st_size = 0
    /\ range = Whole(0) /\ first = 0 /\ pos = 0 /\ fds = 0 /\ free = FALSE
    /\ status = 0 /\ announced = 0 /\ sent = <<>> /\ pc = "idle"
    /\ odd = FALSE /\ cut = FALSE /\ reqs = 0 /\ edits = 0

-----------------------------------------------------------------------------
\* Fault: the request's own descriptor is left to the dispatch, which has none.
Refuse_KeepsFd(code, length) ==
    /\ status' = code /\ announced' = length /\ sent' = <<>>
    /\ fds' = fds + 1
    /\ UNCHANGED <<free, pc, pos, range, first>>

\* An answer without a body: 304 and 416 close the descriptor themselves.
Refuse(code, length) ==
    /\ status' = code /\ announced' = length /\ sent' = <<>>
    /\ UNCHANGED <<fds, free, pc, pos, range, first>>

\* The header of an answer with the range r, and the first call of file_write_cb,
\* which seeks to the range.
Begin(r) ==
    /\ range' = r /\ first' = r.offset
    /\ status' = IF r.length = st_size' THEN 200 ELSE 206
    /\ announced' = r.length
    /\ sent' = <<>> /\ pos' = r.offset
    /\ fds' = fds + 1 /\ free' = TRUE /\ pc' = "send"

\* uh_file_request for a file that was looked up: it is opened; 304 if the client
\* has it already, 416 if the range is none of the file's, or else its bytes.
uh_file_request(f, x, matches, old) ==
    /\ pc = "idle" /\ reqs < MaxReqs
    /\ reqs' = reqs + 1 /\ file' = f /\ st_size' = size[f]
    /\ odd' = (x.form = "nodash" /\ matches /\ ~old) /\ cut' = FALSE
    /\ IF old THEN Refuse(304, 0)
       ELSE \E r \in uh_file_if_range(x, matches, size[f]) :
              IF r = Refused THEN Refuse(416, size[f]) ELSE Begin(r)
    /\ UNCHANGED <<size, edits>>

\* request_done with a file: uh_file_free closes the descriptor.
Done == pc' = "idle" /\ free' = FALSE /\ fds' = fds - 1

Least(a, b) == IF a < b THEN a ELSE b

\* Fault: the offset stays behind, so the next callback seeks back.
WriteCb_NoOffset ==
    /\ pc = "send"
    /\ LET r == IF pos >= size[file] THEN 0 ELSE Least(Chunk, size[file] - pos)
           n == Least(r, range.length)
       IN IF r = 0 \/ range.length = 0
            THEN Done /\ UNCHANGED <<range, pos, sent>>
            ELSE /\ sent' = sent \o [k \in 1 .. n |-> pos + k - 1]
                 /\ pos' = pos + r
                 /\ range' = [range EXCEPT !.length = @ - n]
                 /\ pc' \in {"send", "wait"} /\ UNCHANGED <<free, fds>>
    /\ UNCHANGED <<size, file, st_size, status, announced, first, odd, cut, reqs, edits>>

\* Fault: only the end of the file ends the loop.
WriteCb_NoEnd ==
    /\ pc = "send"
    /\ LET r == IF pos >= size[file] THEN 0 ELSE Least(Chunk, size[file] - pos)
           n == Least(r, range.length)
       IN IF r = 0
            THEN Done /\ UNCHANGED <<range, pos, sent>>
            ELSE /\ sent' = sent \o [k \in 1 .. n |-> pos + k - 1]
                 /\ pos' = pos + r
                 /\ range' = IF r <= range.length
                               THEN [offset |-> range.offset + r, length |-> range.length - r]
                               ELSE [range EXCEPT !.length = 0]
                 /\ pc' \in {"send", "wait"} /\ UNCHANGED <<free, fds>>
    /\ UNCHANGED <<size, file, st_size, status, announced, first, odd, cut, reqs, edits>>

\* Fault: the loop ends before the part that ends the range.
WriteCb_Early ==
    /\ pc = "send"
    /\ LET r == IF pos >= size[file] THEN 0 ELSE Least(Chunk, size[file] - pos)
       IN IF r = 0 \/ range.length <= r
            THEN Done /\ UNCHANGED <<range, pos, sent>>
            ELSE /\ sent' = sent \o [k \in 1 .. r |-> pos + k - 1]
                 /\ pos' = pos + r
                 /\ range' = [offset |-> range.offset + r, length |-> range.length - r]
                 /\ pc' \in {"send", "wait"} /\ UNCHANGED <<free, fds>>
    /\ UNCHANGED <<size, file, st_size, status, announced, first, odd, cut, reqs, edits>>

\* A turn of the loop of file_write_cb: a read, and as much of it as the range has
\* left is sent; the end of the file or of the range completes the request.  The
\* loop goes on while the peer keeps up.
WriteCb ==
    /\ pc = "send"
    /\ LET r == IF pos >= size[file] THEN 0 ELSE Least(Chunk, size[file] - pos)
           n == Least(r, range.length)
       IN IF r = 0 \/ range.length = 0
            THEN Done /\ UNCHANGED <<range, pos, sent>>
            ELSE /\ sent' = sent \o [k \in 1 .. n |-> pos + k - 1]
                 /\ pos' = pos + r
                 /\ range' = IF r <= range.length
                               THEN [offset |-> range.offset + r, length |-> range.length - r]
                               ELSE [range EXCEPT !.length = 0]
                 /\ pc' \in {"send", "wait"} /\ UNCHANGED <<free, fds>>
    /\ UNCHANGED <<size, file, st_size, status, announced, first, odd, cut, reqs, edits>>

\* A read fails: logged, and the request is completed with what was sent.
ReadFails ==
    /\ pc = "send"
    /\ Done /\ cut' = TRUE
    /\ UNCHANGED <<size, file, st_size, range, pos, resp, odd, reqs, edits>>

\* The peer has read, and the stream calls file_write_cb again: it seeks to what
\* is left of the range.
Drained ==
    /\ pc = "wait"
    /\ pc' = "send" /\ pos' = range.offset
    /\ UNCHANGED <<size, file, st_size, range, free, fds, resp, odd, cut, reqs, edits>>

\* The connection ends between two callbacks, and the next one is new: client_free
\* runs the free of the dispatch.
ClientFree ==
    /\ pc # "send"
    /\ fds' = IF free THEN fds - 1 ELSE fds
    /\ free' = FALSE /\ pc' = "idle"
    /\ range' = Whole(0) /\ status' = 0 /\ announced' = 0 /\ sent' = <<>> /\ first' = 0
    /\ odd' = FALSE /\ cut' = FALSE
    /\ UNCHANGED <<size, file, st_size, pos, reqs, edits>>

\* Another program writes or truncates a file.
Edit ==
    /\ edits < MaxEdits
    /\ \E f \in Files, n \in 0 .. MaxSize :
         /\ size' = [size EXCEPT ![f] = n]
         /\ cut' = (cut \/ (f = file /\ pc # "idle" /\ n < first + announced))
    /\ edits' = edits + 1
    /\ UNCHANGED <<file, st_size, cl, pos, fds, resp, odd, reqs>>

Next ==
    \/ \E f \in Files, x \in Specs, matches, old \in BOOLEAN : uh_file_request(f, x, matches, old)
    \/ WriteCb \/ ReadFails \/ Drained \/ ClientFree \/ Edit

Spec == Init /\ [][Next]_vars

-----------------------------------------------------------------------------
\* The types of the state: the client holds one descriptor at most
\* (cl->dispatch.file.fd), and answers are those of uh_file_data.
TypeOK ==
    /\ size \in [Files -> 0 .. MaxSize] /\ st_size \in 0 .. MaxSize /\ file \in Files
    /\ range.offset \in 0 .. MaxSize /\ range.length \in 0 .. MaxSize
    /\ fds \in 0 .. 1 /\ free \in BOOLEAN /\ pc \in {"idle", "send", "wait"}
    /\ status \in {0, 200, 206, 304, 416} /\ announced \in 0 .. MaxSize

\* However often the body is interrupted, and however the file changes meanwhile,
\* what is sent is the range from its first byte on, each byte once and in order.
BodyIsRange ==
    /\ \A k \in 1 .. Len(sent) : sent[k] = first + k - 1
    /\ Len(sent) <= announced

\* The range that is answered lies in the file that was looked up, and a part is
\* never empty.
RangeInside ==
    status \in {200, 206} /\ ~odd =>
        /\ first + announced <= st_size
        /\ status = 206 => announced > 0

\* The client can tell where the next answer begins: a body that is complete is as
\* long as announced, unless the file was cut short meanwhile or
\* could not be read.
BodyAsAnnounced ==
    pc = "idle" /\ status \in {200, 206} /\ ~odd =>
        Len(sent) = announced \/ cut

\* A descriptor is open only while its file is being sent, and the dispatch owns it.
FdOwned == (fds = 1) = free /\ free = (pc # "idle")

\* An answer is what was announced, whatever the peer and the other programs do
\* meanwhile, and nothing is left open behind it (uh_file_data, file_write_cb).
FileSound == TypeOK /\ BodyIsRange /\ RangeInside /\ BodyAsAnnounced /\ FdOwned

\* A file that keeps growing is sent to the end of the range and no further, and
\* its request completes: every turn of the loop sends a byte of the range, which
\* is bounded, or ends the request.
SendsOn ==
    pc = "send" /\ edits' = edits => pc' = "idle" \/ Len(sent') > Len(sent)
=============================================================================
