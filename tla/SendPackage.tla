----------------------------- MODULE SendPackage -----------------------------
(***************************************************************************)
(* How a group of frames leaves the device (net/net_thread.c,                *)
(* net/net_tcp.c): the sender thread of a client walks the group frame by    *)
(* frame and sends each with as many calls of send as the socket needs, under *)
(* the lock of the client's table, while uloop may want that lock or wait    *)
(* for the thread to exit.  Without sender threads the reader gives the      *)
(* blocks to one call of sendmsg instead.                                    *)
(*                                                                         *)
(* Memory is a sequence of cells of 8 bytes as in FrameDispatch; a cell is   *)
(* the length of the frame whose header it is, or 0.                         *)
(***************************************************************************)
EXTENDS Integers, Sequences

CONSTANTS
    MaxCells,  \* bound: the cells of a group
    LenMax,    \* HPA_MAXDATA_LEN
    Hdr,       \* HPA_HEADER_LEN
    Search     \* how far __find_next_header_ex__ looks

\* What the constants are assumed to be.
SendAssumption ==
    /\ MaxCells \in Nat \ {0} /\ Hdr \in Nat \ {0} /\ Search \in Nat
    /\ LenMax \in Nat /\ Hdr <= LenMax

VARIABLES
    group,  \* the cells of the vector entry at hand
    pc,     \* where the sender thread is
    p,      \* pdata, the cells behind it
    left,   \* what is left of the frame that is being sent
    sent,   \* sendok_len
    pad,    \* pad_len
    good,   \* added to the statistics of the client for this group: sent,
    bad,    \* and not sent
    dead,   \* the connection is broken
    wire,   \* the cells of the group that went out
    uloop   \* what uloop does about this client

vars == <<group, pc, p, left, sent, pad, good, bad, dead, wire, uloop>>

Cells == 0 .. LenMax
N     == Len(group)

\* The frames of a group as the dispatcher has found them, each the sequence of
\* its cells: the group begins with a header and ends with the end of a frame,
\* and behind a frame the next header is searched.
FramesOf(g) ==
    LET n == Len(g)
        Next(q) == CHOOSE i \in q .. n : /\ i = n \/ g[i + 1] # 0
                                         /\ \A j \in q .. i - 1 : g[j + 1] = 0
        f[q \in 0 .. n] ==
            LET h == Next(q)
            IN  IF h = n \/ h + g[h + 1] > n THEN <<>>
                ELSE <<[i \in 1 .. g[h + 1] |-> h + i]>> \o f[h + g[h + 1]]
    IN  f[0]

\* The groups the dispatcher makes.
IsGroup(g) ==
    LET F == FramesOf(g)
    IN  /\ g[1] # 0 /\ F # <<>>
        /\ LET last == F[Len(F)] IN last[Len(last)] = Len(g)

Groups == {g \in UNION {[1 .. n -> Cells] : n \in 1 .. MaxCells} : IsGroup(g)}

Flat(F) == LET c[k \in 0 .. Len(F)] == IF k = 0 THEN <<>> ELSE c[k - 1] \o F[k] IN c[Len(F)]

Init ==
    /\ group = <<>> /\ pc = "wait" /\ p = 0 /\ left = 0 /\ sent = 0 /\ pad = 0
    /\ good = 0 /\ bad = 0 /\ dead = FALSE /\ wire = <<>> /\ uloop = "idle"

-----------------------------------------------------------------------------
(* The sender thread.                                                        *)

\* client_hash_do_for_each_key: the table of the client has the key of the
\* group, and is read-locked until the group is sent.
Enter ==
    /\ pc = "wait" /\ uloop # "gone" /\ group = <<>>
    /\ group' \in Groups
    /\ pc' = IF Len(group') < Hdr THEN "count" ELSE "turn"
    /\ UNCHANGED <<p, left, sent, pad, good, bad, dead, wire, uloop>>

\* Where the header of the next frame is: here, or up to Search cells on.
Ahead == {i \in 1 .. Search : p + i < N /\ group[p + i + 1] # 0}
First == CHOOSE i \in Ahead : \A j \in Ahead : i <= j

\* Fault: the search looks one cell less far.
Turn_ShortSearch ==
    /\ pc = "turn"
    /\ LET near == Ahead \ {Search}
           skip == IF group[p + 1] # 0 THEN 0 ELSE IF near = {} THEN Search + 1 ELSE First
       IN  IF skip > Search \/ group[p + skip + 1] < Hdr
             THEN pc' = "count" /\ UNCHANGED <<p, left, pad>>
             ELSE /\ p' = p + skip /\ pad' = pad + skip
                  /\ left' = group[p + skip + 1] /\ pc' = "send"
    /\ UNCHANGED <<group, sent, good, bad, dead, wire, uloop>>

\* A turn of _data_send_package_ up to the call of send: no header within reach
\* or a length that no frame has ends the walk.
Turn ==
    /\ pc = "turn"
    /\ LET skip == IF group[p + 1] # 0 THEN 0 ELSE IF Ahead = {} THEN Search + 1 ELSE First
       IN  IF skip > Search
             THEN pc' = "count" /\ UNCHANGED <<p, left, pad>>
             ELSE /\ p' = p + skip /\ pad' = pad + skip
                  /\ IF group[p + skip + 1] < Hdr
                       THEN pc' = "count" /\ UNCHANGED left
                       ELSE pc' = "send" /\ left' = group[p + skip + 1]
    /\ UNCHANGED <<group, sent, good, bad, dead, wire, uloop>>

FrameLen == group[p + 1]

\* The rest of the turn: rv cells of the frame count as sent.
Behind(rv) ==
    LET rest == N - (p + FrameLen)
    IN  /\ p' = p + FrameLen /\ sent' = sent + rv /\ left' = 0
        /\ IF rest < Hdr
             THEN pad' = pad + rest /\ pc' = "count"
             ELSE /\ pc' = IF sent + rv + pad < N THEN "turn" ELSE "count"
                  /\ UNCHANGED pad

\* Fault: the frame is given up when the socket does not take all of it.
Send_Once ==
    /\ pc = "send" /\ ~dead
    /\ \E k \in 1 .. left :
         /\ wire' = wire \o [i \in 1 .. k |-> p + FrameLen - left + i]
         /\ Behind(k)
    /\ UNCHANGED <<group, good, bad, dead, uloop>>

\* tcp_send_data_to_client: the socket takes some of the frame; when it is full
\* send is called again.
Send ==
    /\ pc = "send" /\ ~dead
    /\ \E k \in 1 .. left :
         /\ wire' = wire \o [i \in 1 .. k |-> p + FrameLen - left + i]
         /\ IF k = left THEN Behind(FrameLen)
            ELSE left' = left - k /\ UNCHANGED <<pc, p, sent, pad>>
    /\ UNCHANGED <<group, good, bad, dead, uloop>>

\* send fails for good.  With ENOTCONN what went out before counts, otherwise
\* nothing does.  The frames that follow fail too.
Fail ==
    /\ pc = "send"
    /\ dead' = TRUE
    /\ Behind(FrameLen - left) \/ Behind(0)
    /\ UNCHANGED <<group, good, bad, wire, uloop>>

\* Fault: a walk that was given up counts as sent.
Count_All ==
    /\ pc = "count"
    /\ good' = N /\ bad' = N - sent - pad
    /\ pc' = "wait"
    /\ UNCHANGED <<group, p, left, sent, pad, dead, wire, uloop>>

\* Fault: the walk never ends when the connection is broken.
Count_KeepsLock ==
    /\ pc = "count"
    /\ good' = sent + pad /\ bad' = N - sent - pad
    /\ pc' = IF dead THEN "count" ELSE "wait"
    /\ UNCHANGED <<group, p, left, sent, pad, dead, wire, uloop>>

\* _send_vec_entry after the walk: statistics, and the lock is released.
Count ==
    /\ pc = "count"
    /\ good' = sent + pad /\ bad' = N - sent - pad
    /\ pc' = "wait"
    /\ UNCHANGED <<group, p, left, sent, pad, dead, wire, uloop>>

\* The round ends and the table of the channel is cleared.
Fresh == group' = <<>> /\ wire' = <<>> /\ p' = 0 /\ sent' = 0 /\ pad' = 0 /\ good' = 0 /\ bad' = 0

RoundOver ==
    /\ pc = "wait" /\ group # <<>>
    /\ Fresh
    /\ UNCHANGED <<pc, left, dead, uloop>>

-----------------------------------------------------------------------------
(* uloop.                                                                    *)

\* SUB and UNSUB want the write lock of the table.
Want ==
    /\ uloop = "idle" /\ uloop' = "want"
    /\ UNCHANGED <<group, pc, p, left, sent, pad, good, bad, dead, wire>>

Changed ==
    /\ uloop = "want" /\ pc = "wait" /\ uloop' = "idle"
    /\ UNCHANGED <<group, pc, p, left, sent, pad, good, bad, dead, wire>>

\* tcp_free: the thread is cancelled, and acts on it only when it waits.
Free ==
    /\ uloop = "idle" /\ uloop' = "free"
    /\ UNCHANGED <<group, pc, p, left, sent, pad, good, bad, dead, wire>>

Freed ==
    /\ uloop = "free" /\ pc = "wait" /\ uloop' = "gone"
    /\ UNCHANGED <<group, pc, p, left, sent, pad, good, bad, dead, wire>>

\* The client is gone, and a new connection takes its place.
Reconnect ==
    /\ uloop = "gone" /\ uloop' = "idle" /\ dead' = FALSE
    /\ Fresh
    /\ UNCHANGED <<pc, left>>

Next ==
    \/ Enter \/ Turn \/ Send \/ Fail \/ Count \/ RoundOver
    \/ Want \/ Changed \/ Free \/ Freed \/ Reconnect

\* The peer goes on reading or the kernel gives its connection up, so that a
\* call of send that is repeated ends; the sender thread sleeps between two
\* rounds, so that uloop gets the lock.
Fairness ==
    /\ WF_vars(Turn) /\ WF_vars(Send \/ Fail) /\ WF_vars(Count)
    /\ SF_vars(Changed) /\ SF_vars(Freed)

Spec == Init /\ [][Next]_vars /\ Fairness

-----------------------------------------------------------------------------
(* Without sender threads: tcp_send_vec_data_uplink.                         *)

\* send_vec_data_to_client: one call of sendmsg for the whole batch, here a group
\* in one block or in two; good and bad say what was reported to have gone wrong.
SendVec ==
    /\ group' \in Groups
    /\ \E k \in 0 .. Len(group'), blocks \in 1 .. 2 :
         /\ wire' = [i \in 1 .. k |-> i]
         /\ good' = k
         /\ bad' = IF blocks = 1 /\ k # Len(group') THEN Len(group') - k ELSE 0
    /\ UNCHANGED <<pc, p, left, sent, pad, dead, uloop>>

SpecVec == Init /\ [][SendVec]_vars

-----------------------------------------------------------------------------
\* The frames of the group, one after the other.
Frames == Flat(FramesOf(group))

\* The counters of the walk stay within the group.
TypeOK ==
    /\ group \in Groups \cup {<<>>}
    /\ pc \in {"wait", "turn", "send", "count"} /\ uloop \in {"idle", "want", "free", "gone"}
    /\ p \in 0 .. N /\ left \in 0 .. LenMax /\ dead \in BOOLEAN
    /\ sent \in 0 .. N /\ pad \in 0 .. N /\ good \in 0 .. N /\ bad \in 0 .. N

\* What the peer gets of a group is the frames the dispatcher has found in it, in
\* their order and whole, up to some point: the sender finds the same frames.
Framing ==
    /\ Len(wire) <= Len(Frames) /\ wire = SubSeq(Frames, 1, Len(wire))
    /\ pc # "send" /\ ~dead =>
         \E k \in 0 .. Len(FramesOf(group)) : wire = Flat(SubSeq(FramesOf(group), 1, k))

\* The gap in front of frame k of the group.
Gap(k) == IF k = 1 THEN 0 ELSE FramesOf(group)[k][1] - FramesOf(group)[k - 1][Len(FramesOf(group)[k - 1])] - 1

\* If no frame is too short and no gap too wide, a connection that does not
\* break gets every frame of the group.
AllSent ==
    pc = "wait" /\ ~dead /\
    (\A k \in 1 .. Len(FramesOf(group)) : Len(FramesOf(group)[k]) >= Hdr /\ Gap(k) <= Search)
        => wire = Frames

\* Every byte of a group is counted once, as sent or as not sent, and what went
\* out of a connection that did not break is counted as sent.
Accounted ==
    pc = "wait" => /\ good + bad = N
                   /\ ~dead => Len(wire) <= good

\* The sender finds and sends the dispatcher's frames, all of them if nothing is in the
\* way, and accounts for every byte of a group.
SendSound == TypeOK /\ Framing /\ AllSent /\ Accounted

\* uloop always comes back from the lock and from tcp_free.
UloopReturns == uloop \in {"want", "free"} ~> uloop \in {"idle", "gone"}

\* What the comment says of the counter: bytes that were sent.
GoodIsSent == pc = "wait" /\ ~dead => good = Len(wire)

\* What the message says: a send that does not take everything is an error that
\* is reported.
ShortSendReported == Len(wire) < N => bad > 0
=============================================================================
