------------------------------- MODULE Ustream -------------------------------
(***************************************************************************)
(* A buffered stream on a socket (lib/libubox/ustream.c, ustream-fd.c), as    *)
(* the command and the HTTP connections use it.  The socket is polled         *)
(* edge-triggered, reading stops when the single read buffer is full, writing *)
(* goes to a list of buffers when the socket takes no more, and the end of    *)
(* the stream is told to the user by a timer.  Bytes are numbered.            *)
(***************************************************************************)
EXTENDS Integers, Sequences, FiniteSets

CONSTANTS
    BufLen,    \* r.buffer_len, w.buffer_len
    Few,       \* bytes that are worth moving to the front of a buffer (32)
    Writes,    \* lengths of single writes
    SndBuf,    \* what the kernel takes from a write
    MaxSent, MaxWritten \* bounds: bytes in either direction

\* What the constants are assumed to be.
UstreamAssumption ==
    /\ {BufLen, SndBuf} \subseteq Nat \ {0} /\ {Few, MaxSent, MaxWritten} \subseteq Nat
    /\ Writes \subseteq Nat \ {0}

VARIABLES
    r, w,        \* buffer lists: the buffers, data_tail (0 is NULL), buffers, data_bytes
    rsock, wsock,\* bytes in the kernel, in either direction
    peer,        \* the peer's end: "open", "shut" (it sends no more), "reset"
    sent, got,   \* bytes the peer has sent; those the user has taken, in order
    written, arrived, \* bytes the user has written; those the peer has, in order
    blocked,     \* READ_BLOCKED_FULL
    eof, werror, \* eof, write_error
    timer,       \* state_change is pending
    interest,    \* events the descriptor is registered for; {} is not at all
    ready,       \* epoll has it in its list of ready descriptors
    fderror,     \* fd.error
    pc, events, wr \* where the callback is, its events, bytes written in it

socket == <<rsock, wsock, peer, sent, arrived>>
user   == <<got, written>>
poll   == <<interest, ready, fderror>>
state  == <<blocked, eof, werror, timer>>
where  == <<pc, events, wr>>
vars == <<r, w, rsock, wsock, peer, sent, got, written, arrived, blocked, eof, werror, timer,
          interest, ready, fderror, pc, events, wr>>

Smaller(m, n) == IF m < n THEN m ELSE n
Take(s, n)    == SubSeq(s, 1, n)
From(s, n)    == SubSeq(s, n + 1, Len(s))

-----------------------------------------------------------------------------
(* A buffer is the offset of its data and the bytes; room is at its tail.      *)

Fresh     == [off |-> 0, bytes |-> <<>>]
NoBuffers == [bufs |-> <<>>, dt |-> 0, n |-> 0, count |-> 0]
Tail_(b)  == b.off + Len(b.bytes)
Room(b)   == BufLen - Tail_(b)

\* All bytes of a list: those of the first buffer, and so on.
Flat(l) ==
    LET F[i \in 0 .. Len(l.bufs)] == IF i = 0 THEN <<>> ELSE F[i - 1] \o l.bufs[i].bytes
    IN  F[Len(l.bufs)]

\* ustream_init_defaults: one read buffer, any number of write buffers; two are kept.
Limit(side) == IF side = "r" THEN 1 ELSE 0
Keep(side)  == IF side = "r" THEN 1 ELSE 2

\* ustream_can_alloc
CanAlloc(side, l) == Limit(side) = 0 \/ l.n < Limit(side)

\* ustream_alloc_default, ustream_add_buf
AddBuf(l) == [l EXCEPT !.bufs = Append(@, Fresh), !.n = @ + 1,
                       !.dt = IF @ = 0 THEN 1 ELSE @]

\* ustream_free_buf of the first buffer: freed, or emptied and put to the end.
FreeHead(side, l) ==
    LET f == [l EXCEPT !.bufs = Tail(@), !.n = @ - 1,
                       !.dt = IF @ > 1 THEN @ - 1 ELSE Smaller(1, Len(l.bufs) - 1)]
    IN  IF f.n >= Keep(side) THEN f ELSE AddBuf(f)

\* ustream_should_move
ShouldMove(side, l, len) ==
    LET b == l.bufs[l.dt]
    IN  /\ b.off # 0
        /\ \/ b.off > BufLen \div 2
           \/ Len(b.bytes) < Few /\ b.off > BufLen \div 4
           \/ l.dt = Len(l.bufs) /\ ~CanAlloc(side, l) /\ Room(b) < len

Moved(side, l, len) ==
    IF l.dt # 0 /\ ShouldMove(side, l, len) THEN [l EXCEPT !.bufs[l.dt].off = 0] ELSE l

\* Fault: a next buffer is taken before the room of this one is looked at.
Prepared_Next(side, l, len) ==
    LET mv == Moved(side, l, len)
    IN  IF mv.dt # 0 /\ mv.dt < Len(mv.bufs) THEN [ok |-> TRUE, l |-> [mv EXCEPT !.dt = @ + 1]]
        ELSE IF mv.dt # 0 /\ Room(mv.bufs[mv.dt]) # 0 THEN [ok |-> TRUE, l |-> mv]
        ELSE IF CanAlloc(side, mv) THEN [ok |-> TRUE, l |-> [AddBuf(mv) EXCEPT !.dt = Len(mv.bufs) + 1]]
        ELSE [ok |-> FALSE, l |-> mv]

\* ustream_prepare_buf: whether there is room, and the list with data_tail there.
Prepared(side, l, len) ==
    LET mv == Moved(side, l, len)
    IN  IF mv.dt # 0 /\ Room(mv.bufs[mv.dt]) # 0 THEN [ok |-> TRUE, l |-> mv]
        ELSE IF mv.dt # 0 /\ mv.dt < Len(mv.bufs) THEN [ok |-> TRUE, l |-> [mv EXCEPT !.dt = @ + 1]]
        ELSE IF CanAlloc(side, mv) THEN [ok |-> TRUE, l |-> [AddBuf(mv) EXCEPT !.dt = Len(mv.bufs) + 1]]
        ELSE [ok |-> FALSE, l |-> mv]

\* Bytes go into the buffer of data_tail.
Put(l, bytes) == [l EXCEPT !.bufs[l.dt].bytes = @ \o bytes, !.count = @ + Len(bytes)]

\* Fault: the bytes that do not fit into the first buffer are dropped.
Buffered_Once(l, bytes) ==
    LET p == Prepared("w", l, Len(bytes)).l
    IN  Put(p, Take(bytes, Smaller(Len(bytes), Room(p.bufs[p.dt]))))

\* ustream_write_buffered: every turn fills a buffer.
Buffered(l, bytes) ==
    LET Turn[k \in 0 .. Len(bytes)] ==
            IF k = 0 THEN [l |-> l, left |-> bytes]
            ELSE LET b == Turn[k - 1]
                     p == Prepared("w", b.l, Len(b.left)).l
                     m == Smaller(Len(b.left), Room(p.bufs[p.dt]))
                 IN  IF b.left = <<>> THEN b ELSE [l |-> Put(p, Take(b.left, m)), left |-> From(b.left, m)]
    IN  Turn[Len(bytes)].l

\* ustream_vprintf when buffers have something: what fits is printed in place, before
\* the terminating zero, and all that is left is buffered.
Printed(l, bytes) ==
    LET p == Prepared("w", l, 1).l
        m == Smaller(Len(bytes), Room(p.bufs[p.dt]) - 1)
    IN  IF m = Len(bytes) THEN Put(p, bytes) ELSE Buffered(Put(p, Take(bytes, m)), From(bytes, m))

\* Fault: the rest of the buffer goes with what is consumed.
Consumed_All(l, len) == IF len = 0 THEN l ELSE FreeHead("r", [l EXCEPT !.count = 0])

\* ustream_consume: whole buffers are freed, the rest of one is skipped.
Consumed(l, len) ==
    LET b == l.bufs[1]
        t == [l EXCEPT !.count = @ - len]
    IN  IF len = 0 THEN l
        ELSE IF len < Len(b.bytes)
             THEN [t EXCEPT !.bufs[1] = [off |-> b.off + len, bytes |-> From(b.bytes, len)]]
             ELSE FreeHead("r", t)

Init ==
    /\ r = NoBuffers /\ w = NoBuffers /\ rsock = <<>> /\ wsock = <<>> /\ peer = "open"
    /\ sent = 0 /\ got = <<>> /\ written = 0 /\ arrived = <<>>
    /\ blocked = FALSE /\ eof = FALSE /\ werror = FALSE /\ timer = FALSE
    /\ interest = {"r"} /\ ready = FALSE /\ fderror = FALSE
    /\ pc = "idle" /\ events = {} /\ wr = 0

-----------------------------------------------------------------------------
(* epoll and the socket                                                      *)

\* What epoll reports of the socket for the events f, its send queue being ws.
Fired(f, ws) ==
    (IF "r" \in f /\ (rsock # <<>> \/ peer # "open") THEN {"r"} ELSE {})
    \cup (IF "w" \in f /\ (Len(ws) < SndBuf \/ peer = "reset") THEN {"w"} ELSE {})
    \cup (IF peer = "reset" THEN {"error"} ELSE {})

\* Fault: writing is polled for only right after a write.
Flags_Write(bl, e, we, wl, write) == (IF ~bl /\ ~e THEN {"r"} ELSE {}) \cup (IF write THEN {"w"} ELSE {})

\* The events ustream_fd_set_uloop asks for.
Flags(bl, e, we, wl, write) ==
    (IF ~bl /\ ~e THEN {"r"} ELSE {})
    \cup (IF write \/ (wl.bufs # <<>> /\ wl.count > 0 /\ ~we) THEN {"w"} ELSE {})

\* ustream_fd_set_uloop: uloop_fd_add, which looks at the socket again, or delete.
SetUloop(f, ws) ==
    /\ interest' = f
    /\ ready' = (f # {} /\ (ready \/ Fired(f, ws) # {}))
    /\ fderror' = (f = {} /\ fderror)

PeerSends ==
    /\ peer = "open" /\ sent < MaxSent
    /\ sent' = sent + 1 /\ rsock' = Append(rsock, sent + 1)
    /\ ready' = (ready \/ "r" \in interest)
    /\ UNCHANGED <<r, w, wsock, peer, arrived, interest, fderror>> /\ UNCHANGED <<user, state, where>>

PeerShuts ==
    /\ peer = "open" /\ peer' = "shut" /\ ready' = (ready \/ "r" \in interest)
    /\ UNCHANGED <<r, w, rsock, wsock, sent, arrived, interest, fderror>> /\ UNCHANGED <<user, state, where>>

PeerResets ==
    /\ peer # "reset" /\ peer' = "reset" /\ wsock' = <<>> /\ ready' = (ready \/ interest # {})
    /\ UNCHANGED <<r, w, rsock, sent, arrived, interest, fderror>> /\ UNCHANGED <<user, state, where>>

\* Room in a send queue that was full is an event.
PeerReads ==
    /\ wsock # <<>> /\ wsock' = Tail(wsock) /\ arrived' = Append(arrived, Head(wsock))
    /\ ready' = (ready \/ ("w" \in interest /\ Len(wsock) = SndBuf))
    /\ UNCHANGED <<r, w, rsock, peer, sent, interest, fderror>> /\ UNCHANGED <<user, state, where>>

-----------------------------------------------------------------------------
(* ustream_uloop_cb                                                          *)

Event ==
    /\ pc = "idle" /\ ready /\ ready' = FALSE /\ wr' = 0
    /\ LET e == Fired(interest, wsock) IN
       /\ events' = e
       /\ fderror' = (fderror \/ "error" \in e)
       /\ pc' = IF e = {} THEN "idle" ELSE IF "r" \in e THEN "read" ELSE IF "w" \in e THEN "write" ELSE "error"
    /\ UNCHANGED <<r, w, interest>> /\ UNCHANGED <<socket, user, state>>

AfterRead == IF "w" \in events THEN "write" ELSE "error"

\* ustream_fd_read_pending, ustream_reserve: the buffer is full.
ReadFull ==
    /\ pc = "read" /\ (blocked \/ ~Prepared("r", r, 1).ok)
    /\ blocked' = TRUE /\ pc' = AfterRead
    /\ IF blocked THEN UNCHANGED poll ELSE SetUloop(Flags(TRUE, eof, werror, w, FALSE), wsock)
    /\ UNCHANGED <<r, w, eof, werror, timer, events, wr>> /\ UNCHANGED <<socket, user>>

CanRead == pc = "read" /\ ~blocked /\ Prepared("r", r, 1).ok

\* ustream_fill_read
ReadSome ==
    /\ CanRead /\ rsock # <<>>
    /\ LET p == Prepared("r", r, 1).l
           n == Smaller(Len(rsock), Room(p.bufs[p.dt]))
       IN  r' = Put(p, Take(rsock, n)) /\ rsock' = From(rsock, n)
    /\ pc' = "notify"
    /\ UNCHANGED <<w, wsock, peer, sent, arrived, events, wr>> /\ UNCHANGED <<user, poll, state>>

\* EAGAIN
ReadNone ==
    /\ CanRead /\ rsock = <<>> /\ peer = "open"
    /\ r' = Prepared("r", r, 1).l /\ pc' = AfterRead
    /\ UNCHANGED <<w, events, wr>> /\ UNCHANGED <<socket, user, poll, state>>

\* The end of the stream, or an error, which is taken for it.
ReadEnd ==
    /\ CanRead /\ rsock = <<>> /\ peer # "open"
    /\ r' = Prepared("r", r, 1).l /\ pc' = AfterRead
    /\ eof' = TRUE /\ timer' = (timer \/ ~eof)
    /\ SetUloop(Flags(blocked, TRUE, werror, w, FALSE), wsock)
    /\ UNCHANGED <<w, blocked, werror, events, wr>> /\ UNCHANGED <<socket, user>>

\* The user's notify_read takes some of the bytes.
Notify(k) ==
    /\ pc = "notify" /\ pc' = "read"
    /\ got' = got \o Take(Flat(r), k) /\ r' = Consumed(r, k)
    /\ UNCHANGED <<w, written, events, wr>> /\ UNCHANGED <<socket, poll, state>>

\* ustream_write_pending: buffers are written one after the other, ...
WriteNext ==
    /\ pc = "write" /\ ~werror /\ w.bufs # <<>> /\ w.count > 0 /\ peer # "reset"
    /\ LET b == w.bufs[1]
           t == Smaller(Len(b.bytes), SndBuf - Len(wsock))
           q == wsock \o Take(b.bytes, t)
           c == [w EXCEPT !.count = @ - t]
           p == [c EXCEPT !.bufs[1] = [off |-> b.off + t, bytes |-> From(b.bytes, t)]]
       IN  /\ wsock' = q /\ wr' = wr + t
           /\ \/ t = Len(b.bytes) /\ t # 0 /\ w' = FreeHead("w", c) /\ UNCHANGED pc /\ UNCHANGED poll
              \/ (t < Len(b.bytes) \/ t = 0) /\ w' = p /\ pc' = "written"
                 /\ IF b.bytes = <<>> THEN UNCHANGED poll ELSE SetUloop(Flags(blocked, eof, werror, w, TRUE), q)
    /\ UNCHANGED <<r, rsock, peer, sent, arrived, events>> /\ UNCHANGED <<user, state>>

WriteFails ==
    /\ pc = "write" /\ ~werror /\ w.bufs # <<>> /\ w.count > 0 /\ peer = "reset"
    /\ werror' = TRUE /\ timer' = TRUE /\ pc' = "written"
    /\ UNCHANGED <<r, w, blocked, eof, events, wr>> /\ UNCHANGED <<socket, user, poll>>

WriteEnd ==
    /\ pc = "write" /\ (werror \/ w.bufs = <<>> \/ w.count = 0)
    /\ pc' = IF werror THEN "error" ELSE "written"
    /\ UNCHANGED <<r, w, events, wr>> /\ UNCHANGED <<socket, user, poll, state>>

\* Fault: the user is not told again when the last byte is written.
Written_Untold ==
    /\ pc = "written" /\ pc' = "error" /\ UNCHANGED timer
    /\ IF w.count = 0 THEN SetUloop(Flags(blocked, eof, werror, w, FALSE), wsock) ELSE UNCHANGED poll
    /\ UNCHANGED <<r, w, blocked, eof, werror, events, wr>> /\ UNCHANGED <<socket, user>>

\* ... and when all is written after the end of the stream the user is told again.
Written ==
    /\ pc = "written" /\ pc' = "error"
    /\ timer' = (timer \/ (eof /\ wr > 0 /\ w.count = 0))
    /\ IF w.count = 0 THEN SetUloop(Flags(blocked, eof, werror, w, FALSE), wsock) ELSE UNCHANGED poll
    /\ UNCHANGED <<r, w, blocked, eof, werror, events, wr>> /\ UNCHANGED <<socket, user>>

\* The end of __ustream_fd_poll.
Error ==
    /\ pc = "error" /\ pc' = "idle"
    /\ IF fderror /\ ~werror
       THEN werror' = TRUE /\ timer' = TRUE /\ SetUloop(Flags(blocked, eof, TRUE, w, FALSE), wsock)
       ELSE UNCHANGED <<werror, timer>> /\ UNCHANGED poll
    /\ UNCHANGED <<r, w, blocked, eof, events, wr>> /\ UNCHANGED <<socket, user>>

\* ustream_state_change_cb and the user's notify_state, which frees the stream after a
\* write error, or after the end of the stream when nothing is left to write.
StateChange ==
    /\ pc = "idle" /\ timer /\ timer' = FALSE
    /\ w' = IF werror THEN [w EXCEPT !.bufs = <<>>, !.dt = 0] ELSE w
    /\ IF werror \/ (eof /\ w.count = 0)
       THEN pc' = "freed" /\ interest' = {} /\ ready' = FALSE
       ELSE UNCHANGED <<pc, interest, ready>>
    /\ UNCHANGED <<r, blocked, eof, werror, fderror, events, wr>> /\ UNCHANGED <<socket, user>>

-----------------------------------------------------------------------------
(* The user, from other callbacks of the loop                                *)

\* Fault: reading is not taken up again.
Consume_Blocked(k) ==
    /\ pc = "idle" /\ got' = got \o Take(Flat(r), k) /\ r' = Consumed(r, k)
    /\ blocked' = FALSE /\ UNCHANGED poll
    /\ UNCHANGED <<w, written, eof, werror, timer>> /\ UNCHANGED <<socket, where>>

\* ustream_consume
Consume(k) ==
    /\ pc = "idle" /\ got' = got \o Take(Flat(r), k) /\ r' = Consumed(r, k)
    /\ blocked' = FALSE
    /\ IF blocked THEN SetUloop(Flags(FALSE, eof, werror, w, FALSE), wsock) ELSE UNCHANGED poll
    /\ UNCHANGED <<w, written, eof, werror, timer>> /\ UNCHANGED <<socket, where>>

\* ustream_write; the socket is tried first when no buffer has anything.
Write(n) ==
    /\ pc \in {"idle", "notify"} /\ ~werror /\ written + n <= MaxWritten
    /\ LET bytes == [i \in 1 .. n |-> written + i]
           t == IF w.count = 0 THEN Smaller(n, SndBuf - Len(wsock)) ELSE 0
       IN  IF w.count = 0 /\ peer = "reset"
           THEN werror' = TRUE /\ timer' = TRUE /\ UNCHANGED <<w, wsock, written, interest, ready, fderror>>
           ELSE /\ wsock' = wsock \o Take(bytes, t) /\ w' = Buffered(w, From(bytes, t))
                /\ written' = written + n
                /\ IF w.count = 0 /\ t < n
                   THEN SetUloop(Flags(blocked, eof, werror, w, TRUE), wsock \o Take(bytes, t)) ELSE UNCHANGED poll
                /\ UNCHANGED <<werror, timer>>
    /\ UNCHANGED <<r, rsock, peer, sent, arrived, got, blocked, eof>> /\ UNCHANGED where

\* ustream_vprintf; without anything buffered it is ustream_write.
Printf(n) ==
    /\ pc \in {"idle", "notify"} /\ ~werror /\ w.count > 0 /\ written + n <= MaxWritten
    /\ w' = Printed(w, [i \in 1 .. n |-> written + i]) /\ written' = written + n
    /\ UNCHANGED <<r, got>> /\ UNCHANGED <<socket, poll, state, where>>

Peer     == PeerSends \/ PeerShuts \/ PeerResets
Loop     == ReadFull \/ ReadSome \/ ReadNone \/ ReadEnd \/ (\E k \in 0 .. r.count : Notify(k))
            \/ WriteNext \/ WriteFails \/ WriteEnd \/ Written \/ Error
Consumes == \E k \in 1 .. r.count : Consume(k)

Next ==
    \/ Peer \/ PeerReads \/ Event \/ Loop \/ StateChange \/ Consumes
    \/ \E n \in Writes : Write(n) \/ Printf(n)

\* uloop goes on; the user takes what it has got at last, and the peer what is sent.
Fairness ==
    /\ WF_vars(Event) /\ WF_vars(Loop) /\ WF_vars(StateChange)
    /\ WF_vars(Consumes) /\ WF_vars(PeerReads)

Spec == Init /\ [][Next]_vars /\ Fairness

-----------------------------------------------------------------------------
Count(s, n) == s = [i \in 1 .. n |-> i]
BufsOK(l)   == \A i \in 1 .. Len(l.bufs) : l.bufs[i].off >= 0 /\ Tail_(l.bufs[i]) <= BufLen

\* The types; no buffer is overrun, data_tail is a buffer of the list, data_bytes and
\* buffers are exact, and there is one read buffer.
TypeOK ==
    /\ BufsOK(r) /\ BufsOK(w) /\ Len(wsock) <= SndBuf /\ r.n <= 1
    /\ \A l \in {r, w} : pc # "freed" =>
          /\ l.n = Len(l.bufs) /\ l.count = Len(Flat(l))
          /\ l.dt \in 0 .. l.n /\ (l.n > 0 => l.dt # 0)
    /\ peer \in {"open", "shut", "reset"} /\ {blocked, eof, werror, timer, ready, fderror} \subseteq BOOLEAN
    /\ interest \subseteq {"r", "w"}
    /\ pc \in {"idle", "read", "notify", "write", "written", "error", "freed"}

\* The user gets the peer's bytes in their order, none lost and none twice, whatever it
\* takes at a time and wherever reading is stopped and taken up.
ReadInOrder == Count(got \o Flat(r) \o rsock, sent)

\* The peer gets the user's bytes in order, whether they went by the buffers or not.
WriteInOrder == peer # "reset" => Count(arrived \o wsock \o Flat(w), written)

\* When bytes wait to be written the first buffer has some: ustream_write_pending, which
\* stops at an empty one, does not stop before them.
HeadHasData == (w.count > 0 /\ w.bufs # <<>>) => w.bufs[1].bytes # <<>>

\* What goes through a stream comes out in order, in either direction, and the lists
\* of buffers are what their counters say.
StreamSound == TypeOK /\ ReadInOrder /\ WriteInOrder /\ HeadHasData

\* Every byte the peer sends reaches the user, although the socket is reported once and
\* reading stops while the buffer is full, or the stream is over.
ReadDelivered == \A n \in 1 .. MaxSent : (sent >= n) ~> (Len(got) >= n \/ pc = "freed")

\* Every byte the user writes reaches a peer that reads.
WriteDelivered == \A n \in 1 .. MaxWritten : (written >= n) ~> (Len(arrived) >= n \/ peer = "reset")

\* A stream whose peer is gone is freed, after what is left was written.
EndTold == (peer # "open") ~> (pc = "freed")
=============================================================================
