----------------------------- MODULE TcpFraming -----------------------------
(***************************************************************************)
(* The receive path of one command connection: the uloop callback that     *)
(* moves bytes from the socket into the ustream read buffer, the loop of    *)
(* tcp_client_read_cb over that buffer (net/net_tcp.c) and the m57 header   *)
(* parser it calls (protocol/m57/m57.c).                                    *)
(*                                                                         *)
(* The peer has put N frames on the wire.  Frame i occupies the byte        *)
(* positions start[i] .. start[i+1]-1 and kind[i] says what its header is.  *)
(* TCP may cut the stream anywhere, so bytes arrive in arbitrary portions.  *)
(* A byte is its position; what the bytes of a payload hold is left out.    *)
(* Bytes in the middle of a frame are taken never to look like a sync word. *)
(***************************************************************************)
EXTENDS Integers, Sequences

CONSTANTS
    N,        \* frames on the wire
    HLen,     \* sizeof(struct m57_header_st)
    RLen,     \* sizeof(header->resv), the part of it a key frame keeps
    BufLen,   \* length of the single ustream read buffer
    BodyMax,  \* MAX_RECEIVE_DATA_LEN, the size of the body buffer
    Kinds,    \* which of AllKinds are on the wire
    Positions \* the byte positions at which a frame may begin or end

\* A command frame, a transparent data frame, a key tool frame, and the three
\* headers that m57_parse_header rejects.
AllKinds == {"cmd", "data", "key", "nosync", "badtype", "badlen"}
BadKinds == {"nosync", "badtype", "badlen"}

ASSUME SizeAssumption ==
    /\ N \in Nat
    /\ HLen \in Nat /\ RLen \in Nat \ {0} /\ RLen < HLen
    /\ BufLen \in Nat /\ BodyMax \in Nat
    /\ Kinds \subseteq AllKinds
    /\ Positions \subseteq Nat

VARIABLES
    kind, start,  \* the wire; it does not change
    rcvd, used,   \* bytes put into and consumed from the read buffer so far
    state,        \* cl->state: "HEADER" or "DATA"
    hdr,          \* where the header of the current request was
    contentLen,   \* cl->request.content_length
    remain,       \* cl->request.remain_length
    from, post,   \* first byte copied to the body and dispatch.post_len
    pc,           \* where the uloop thread is for this client
    log,          \* what reached m57_execute or the FPGA, in order
    gone          \* frames that lost bytes to a header error

wire == <<kind, start>>
req  == <<state, hdr, contentLen, remain, from, post>>
vars == <<wire, rcvd, used, req, pc, log, gone>>

Frames   == 1 .. N
FLen(i)  == start[i + 1] - start[i]
WireEnd  == start[N + 1]
Buffered == rcvd - used

\* Frames follow one another and each is at least a header long.
WellFormed(st) ==
    /\ st[1] = 0
    /\ \A i, j \in 1 .. N + 1 : i < j => st[i] + HLen <= st[j]

Smaller(a, b) == IF a < b THEN a ELSE b

\* The bytes of the header that are consumed before the body begins.
Skip(k) == CASE k = "cmd" -> HLen [] k = "key" -> HLen - RLen [] OTHER -> 0
-----------------------------------------------------------------------------
Init ==
    /\ kind \in [Frames -> Kinds]
    /\ start \in [1 .. N + 1 -> Positions]
    /\ WellFormed(start)
    /\ rcvd = 0 /\ used = 0
    /\ state = "HEADER" /\ hdr = 0 /\ contentLen = 0 /\ remain = 0
    /\ from = 0 /\ post = 0
    /\ pc = "idle"
    /\ log = << >>
    /\ gone = {}

\* Fault: dispatch.post_len survives the end of the request.
RequestDone_KeepsPostLen ==
    /\ state' = "HEADER"
    /\ hdr' = 0 /\ contentLen' = 0 /\ remain' = 0
    /\ from' = 0 /\ UNCHANGED post

\* tcp_client_request_done: back to the header state, the request, the
\* response and the body are dropped.
RequestDone ==
    /\ state' = "HEADER"
    /\ hdr' = 0 /\ contentLen' = 0 /\ remain' = 0
    /\ from' = 0 /\ post' = 0

\* ustream_fd_read_pending: the socket yields n bytes, as many as are there
\* and the buffer has room for, and the read callback starts.
Receive(n) ==
    /\ pc = "idle"
    /\ n \in 1 .. Smaller(WireEnd - rcvd, BufLen - Buffered)
    /\ rcvd' = rcvd + n
    /\ pc' = "loop"
    /\ UNCHANGED <<wire, used, req, log, gone>>

\* tcp_client_read_cb returns when the buffer is empty.
BufferEmpty ==
    /\ pc = "loop"
    /\ Buffered = 0
    /\ pc' = "idle"
    /\ UNCHANGED <<wire, rcvd, used, req, log, gone>>

\* The header m57_parse_header finds at the read position is that of frame i.
HeaderOf(i) ==
    /\ pc = "loop"
    /\ state = "HEADER"
    /\ used = start[i]
    /\ Buffered >= HLen

\* Fault: a frame that is exactly complete is still waited for.
HeaderWait_OffByOne ==
    /\ pc = "loop"
    /\ state = "HEADER"
    /\ Buffered > 0
    /\ \/ Buffered < HLen
       \/ \E i \in Frames : /\ used = start[i]
                            /\ kind[i] \in {"data", "key"}
                            /\ Buffered <= FLen(i)
    /\ RequestDone
    /\ pc' = "idle"
    /\ UNCHANGED <<wire, rcvd, used, log, gone>>

\* Fault: the callback looks at the same bytes again instead of returning.
HeaderWait_Retries ==
    /\ pc = "loop"
    /\ state = "HEADER"
    /\ Buffered \in 1 .. HLen - 1
    /\ RequestDone
    /\ UNCHANGED <<wire, rcvd, used, pc, log, gone>>

\* NET_TCP_DATA_WAIT: less than a header is there, or a data or key frame is
\* not complete.  Nothing is consumed and the callback returns.
HeaderWait ==
    /\ pc = "loop"
    /\ state = "HEADER"
    /\ Buffered > 0
    /\ \/ Buffered < HLen
       \/ \E i \in Frames : /\ used = start[i]
                            /\ kind[i] \in {"data", "key"}
                            /\ Buffered < FLen(i)
    /\ RequestDone
    /\ pc' = "idle"
    /\ UNCHANGED <<wire, rcvd, used, log, gone>>

\* The frames that have a byte in the buffer.
Overlapping == {i \in Frames : start[i] < rcvd /\ used < start[i + 1]}

\* Fault: an incomplete data frame is an error instead of a reason to wait.
HeaderErr_ShortData ==
    /\ pc = "loop"
    /\ state = "HEADER"
    /\ Buffered >= HLen
    /\ \A i \in Frames : used = start[i] =>
          kind[i] \in BadKinds \/ (kind[i] = "data" /\ Buffered < FLen(i))
    /\ used' = rcvd
    /\ gone' = gone \cup Overlapping
    /\ RequestDone
    /\ pc' = "idle"
    /\ UNCHANGED <<wire, rcvd, log>>

\* A wrong sync word, a wrong type or a length below the header's: the whole
\* buffer is consumed, whatever else is in it, and the callback returns.
HeaderErr ==
    /\ pc = "loop"
    /\ state = "HEADER"
    /\ Buffered >= HLen
    /\ \A i \in Frames : used = start[i] => kind[i] \in BadKinds
    /\ used' = rcvd
    /\ gone' = gone \cup Overlapping
    /\ RequestDone
    /\ pc' = "idle"
    /\ UNCHANGED <<wire, rcvd, log>>

\* Fault: the sync word of a command is not checked.
HeaderCmd_NoSyncCheck(i) ==
    /\ HeaderOf(i)
    /\ kind[i] \in {"cmd", "nosync"}
    /\ used' = used + HLen
    /\ state' = "DATA"
    /\ hdr' = used
    /\ contentLen' = FLen(i) - HLen
    /\ UNCHANGED <<wire, rcvd, remain, from, post, pc, log, gone>>

\* A command header: it is consumed and the body is awaited.
HeaderCmd(i) ==
    /\ HeaderOf(i)
    /\ kind[i] = "cmd"
    /\ used' = used + HLen
    /\ state' = "DATA"
    /\ hdr' = used
    /\ contentLen' = FLen(i) - HLen
    /\ UNCHANGED <<wire, rcvd, remain, from, post, pc, log, gone>>

\* Fault: a data frame is forwarded but left in the buffer.
HeaderData_NotConsumed(i) ==
    /\ HeaderOf(i)
    /\ kind[i] = "data"
    /\ Buffered >= FLen(i)
    /\ log' = Append(log, [hdr |-> used, from |-> used, len |-> FLen(i)])
    /\ UNCHANGED <<wire, rcvd, used, req, pc, gone>>

\* Fault: the callback returns after one data frame, whatever is left.
HeaderData_Returns(i) ==
    /\ HeaderOf(i)
    /\ kind[i] = "data"
    /\ Buffered >= FLen(i)
    /\ used' = used + FLen(i)
    /\ log' = Append(log, [hdr |-> used, from |-> used, len |-> FLen(i)])
    /\ pc' = "idle"
    /\ UNCHANGED <<wire, rcvd, req, gone>>

\* A complete data frame is written to the FPGA and consumed.
HeaderData(i) ==
    /\ HeaderOf(i)
    /\ kind[i] = "data"
    /\ Buffered >= FLen(i)
    /\ used' = used + FLen(i)
    /\ log' = Append(log, [hdr |-> used, from |-> used, len |-> FLen(i)])
    /\ UNCHANGED <<wire, rcvd, req, pc, gone>>

\* A complete key tool frame becomes a command whose body starts at the
\* reserved field, where the command code has been put.
HeaderKey(i) ==
    /\ HeaderOf(i)
    /\ kind[i] = "key"
    /\ Buffered >= FLen(i)
    /\ used' = used + (HLen - RLen)
    /\ state' = "DATA"
    /\ hdr' = used
    /\ contentLen' = FLen(i) - (HLen - RLen)
    /\ UNCHANGED <<wire, rcvd, remain, from, post, pc, log, gone>>

\* Fault: the continuation of a body starts from content_length again.
Wanted_IgnoresRemain == contentLen

\* What tcp_client_poll_data still wants, where it copies from, and how much
\* one tcp_load_data call takes.
Wanted   == IF remain > 0 THEN remain ELSE contentLen
BodyFrom == IF post = 0 THEN used ELSE from
Portion  == Smaller(Wanted, Buffered)

\* The body needs more than is buffered: all of it is taken and the rest is
\* remembered in remain_length.
DataPart ==
    /\ pc = "loop"
    /\ state = "DATA"
    /\ Buffered > 0
    /\ Wanted > Buffered
    /\ post + Portion <= BodyMax
    /\ used' = used + Portion
    /\ post' = post + Portion
    /\ from' = BodyFrom
    /\ remain' = Wanted - Portion
    /\ UNCHANGED <<wire, rcvd, state, hdr, contentLen, pc, log, gone>>

\* The body is complete: tcp_post_done executes the command and the request
\* is done.
DataLast ==
    /\ pc = "loop"
    /\ state = "DATA"
    /\ Buffered > 0
    /\ Wanted <= Buffered
    /\ Wanted = 0 \/ post + Portion <= BodyMax
    /\ used' = used + Portion
    /\ log' = Append(log, [hdr |-> hdr, from |-> BodyFrom, len |-> post + Portion])
    /\ RequestDone
    /\ UNCHANGED <<wire, rcvd, pc, gone>>

\* tcp_load_data overruns the body: it answers 413 and reports 0 bytes, so
\* the loop of tcp_client_poll_data never advances again.
DataTooLong ==
    /\ pc = "loop"
    /\ state = "DATA"
    /\ Buffered > 0
    /\ Wanted > 0
    /\ post + Portion > BodyMax
    /\ post' = post + Portion
    /\ from' = BodyFrom
    /\ pc' = "spin"
    /\ UNCHANGED <<wire, rcvd, used, state, hdr, contentLen, remain, log, gone>>

\* The peer has closed, a write failed or keepalive gave up: tcp_free.
Close ==
    /\ pc = "idle"
    /\ pc' = "closed"
    /\ UNCHANGED <<wire, rcvd, used, req, log, gone>>

ReadCb ==
    \/ BufferEmpty
    \/ HeaderWait
    \/ HeaderErr
    \/ \E i \in Frames : HeaderCmd(i) \/ HeaderData(i) \/ HeaderKey(i)
    \/ DataPart
    \/ DataLast
    \/ DataTooLong

Next ==
    \/ \E n \in 1 .. BufLen : Receive(n)
    \/ ReadCb
    \/ Close

Spec == Init /\ [][Next]_vars
-----------------------------------------------------------------------------
(* Properties *)

Records == [hdr : Nat, from : Nat, len : Nat]

\* Every variable has its type, the buffer never holds more than BufLen bytes
\* (ustream_reserve) and nothing is consumed that has not arrived.
TypeOK ==
    /\ kind \in [Frames -> AllKinds]
    /\ start \in [1 .. N + 1 -> Nat]
    /\ WellFormed(start)
    /\ rcvd \in Nat /\ used \in Nat
    /\ used <= rcvd /\ rcvd <= WireEnd /\ Buffered <= BufLen
    /\ state \in {"HEADER", "DATA"}
    /\ hdr \in Nat /\ contentLen \in Nat /\ remain \in Nat
    /\ from \in Nat /\ post \in Nat
    /\ pc \in {"idle", "loop", "spin", "closed"}
    /\ log \in Seq(Records)
    /\ gone \subseteq Frames

\* Frame i as m57_execute or the FPGA must see it.
RecordOf(i) ==
    [hdr |-> start[i], from |-> start[i] + Skip(kind[i]), len |-> FLen(i) - Skip(kind[i])]

\* A command frame that is a header and nothing else.
IsEmptyCmd(i) == kind[i] = "cmd" /\ FLen(i) = HLen

\* However TCP cuts the stream, what is executed or written to the FPGA is
\* exactly one frame: its own header with its own whole body.
WholeFrames ==
    \A k \in 1 .. Len(log) : \E i \in Frames :
        /\ kind[i] \notin BadKinds
        /\ log[k] = RecordOf(i)

\* Frames are handled in the order they were sent and none is handled twice,
\* also after part of the stream was thrown away.
InOrderOnce ==
    \A j, k \in 1 .. Len(log) : j < k => log[j].hdr < log[k].hdr

Handled == {i \in Frames : \E k \in 1 .. Len(log) : log[k].hdr = start[i]}

\* A frame is thrown away only on account of a rejected header that was on the
\* wire before its end: on a clean wire no frame is ever lost.
LossNeedsError ==
    \A i \in gone : \E b \in Frames : b <= i /\ kind[b] \in BadKinds

\* Whenever the callback has returned, every frame that has fully arrived is
\* settled: handled or thrown away.  Nothing complete waits in the buffer for
\* bytes that may never come, except a command that has no body (the loop
\* leaves before tcp_client_poll_data is called for it).
NothingLingers ==
    pc = "idle" =>
        \A i \in Frames : start[i + 1] <= rcvd =>
            \/ i \in Handled \cup gone
            \/ IsEmptyCmd(i) /\ state = "DATA" /\ hdr = start[i]

\* The uloop thread is trapped in tcp_client_poll_data only by a frame whose
\* body is larger than MAX_RECEIVE_DATA_LEN.
SpinNeedsOversize ==
    pc = "spin" => \E i \in Frames : FLen(i) - Skip(kind[i]) > BodyMax

\* When every frame fits the read buffer, a callback that has returned has
\* left room in it, so the connection can go on receiving.
RoomWhenIdle ==
    (HLen <= BufLen /\ \A i \in Frames : FLen(i) <= BufLen)
        => (pc = "idle" => Buffered < BufLen)

\* What m57_execute and the FPGA see of the stream is its frames: whole, in their
\* order, each at most once, and all of them unless a header was rejected.
FramesIntact == WholeFrames /\ InOrderOnce /\ LossNeedsError

\* The read buffer and the callback between two calls: the counters agree, what
\* has arrived completely is settled, there is room for more, and only an
\* oversized body keeps tcp_client_poll_data in its loop.
BufferSound == TypeOK /\ NothingLingers /\ SpinNeedsOversize /\ RoomWhenIdle

\* The uloop thread goes on taking steps of a callback it has begun.
FairSpec == Spec /\ WF_vars(ReadCb)

\* The read callback returns to uloop, whatever has arrived, unless a body
\* is too large.
CallbackReturns ==
    (pc = "loop") ~> (pc \in {"idle", "closed"} \/ \E i \in Frames : FLen(i) - Skip(kind[i]) > BodyMax)
-----------------------------------------------------------------------------
(* The byte-level machine implements the frame service. *)

\* The frame a log record belongs to.
FrameOf(r) == CHOOSE i \in Frames : start[i] = r.hdr

\* The first frame that is neither handled nor thrown away and follows all
\* that are.
FirstUnsettled ==
    CHOOSE n \in 1 .. N + 1 :
        /\ \A i \in Handled \cup gone : i < n
        /\ n = 1 \/ n - 1 \in Handled \cup gone

FS == INSTANCE FrameService WITH
        bad  <- {i \in Frames : kind[i] \in BadKinds},
        next <- FirstUnsettled,
        done <- [k \in 1 .. Len(log) |-> FrameOf(log[k])]

\* Every step on bytes (receiving, waiting, consuming a header, collecting a
\* body) is a step of the frame service or leaves it as it was.
ImplementsFrameService == FS!Spec
=============================================================================
