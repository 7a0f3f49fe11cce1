----------------------------- MODULE UloopEvents -----------------------------
(***************************************************************************)
(* The descriptors and the signals of the event loop (lib/libubox/uloop.c,   *)
(* uloop-epoll.c).  A turn of the loop fetches up to MaxEvents events into a  *)
(* batch and calls back one of them; the next turns go on with the batch.     *)
(* Between the fetch and its callback a descriptor may be deleted, and its    *)
(* structure used again, by any other callback.  A signal sets a flag and     *)
(* writes to a pipe that the loop polls.                                     *)
(***************************************************************************)
EXTENDS Integers, Sequences, FiniteSets

CONSTANTS
    Fds,        \* structures uloop_fd of the program
    EdgeFds,    \* those with ULOOP_EDGE_TRIGGER and ULOOP_ERROR_CB (ustream)
    MaxEvents,  \* ULOOP_MAX_EVENTS
    MaxOps,     \* bound: additions and deletions
    MaxSignals  \* bound: signals

ASSUME EventsAssumption ==
    /\ EdgeFds \subseteq Fds /\ IsFiniteSet(Fds) /\ {"waker", "none"} \cap Fds = {}
    /\ MaxEvents \in Nat \ {0} /\ {MaxOps, MaxSignals} \subseteq Nat

VARIABLES
    reg,        \* descriptors registered
    gen,        \* how often each structure has been deleted
    data, hup,  \* descriptors with something to read; hung up
    rdl,        \* epoll: the descriptors to report, in order
    batch,      \* cur_fds from cur_fd on: the structure and its gen at the fetch
    pc, cur,    \* where the loop is; the event being called back
    cancelled,  \* uloop_cancelled
    pipe,       \* bytes in the pipe of the waker
    ops, signals

vars == <<reg, gen, data, hup, rdl, batch, pc, cur, cancelled, pipe, ops, signals>>
world == <<data, hup>>

Nobody == [fd |-> "none", gen |-> 0]
InRdl(f) == \E i \in 1 .. Len(rdl) : rdl[i] = f
Queue(f) == IF InRdl(f) THEN rdl ELSE Append(rdl, f)

\* The elements of s at the places in K, in their order: what SelectSeq selects,
\* said without its recursion, of which nothing can be proved.
Picked(s, K) ==
    [j \in 1 .. Cardinality(K) |-> s[CHOOSE i \in K : Cardinality({h \in K : h <= i}) = j]]

Init ==
    /\ reg = {} /\ gen = [f \in Fds |-> 0] /\ data = {} /\ hup = {}
    /\ rdl = <<>> /\ batch = <<>> /\ pc = "start" /\ cur = Nobody
    /\ cancelled = FALSE /\ pipe = FALSE /\ ops = 0 /\ signals = 0

-----------------------------------------------------------------------------
(* The outside: peers and signals, and what epoll makes of them.             *)

Arrives(f) ==
    /\ f \in reg \ data /\ data' = data \cup {f} /\ rdl' = Queue(f)
    /\ UNCHANGED <<reg, gen, hup, batch, pc, cur, cancelled, pipe, ops, signals>>

HangsUp(f) ==
    /\ f \in reg \ hup /\ hup' = hup \cup {f} /\ rdl' = Queue(f)
    /\ UNCHANGED <<reg, gen, data, batch, pc, cur, cancelled, pipe, ops, signals>>

\* Fault: the pipe is not written.
Terminate_Silent ==
    /\ pc # "ended" /\ signals < MaxSignals /\ signals' = signals + 1
    /\ cancelled' = TRUE
    /\ UNCHANGED <<pipe, rdl, reg, gen, data, hup, batch, pc, cur, ops>>

\* uloop_handle_sigint, uloop_signal_wake
Terminate ==
    /\ pc # "ended" /\ signals < MaxSignals /\ signals' = signals + 1
    /\ cancelled' = TRUE /\ pipe' = TRUE /\ rdl' = Queue("waker")
    /\ UNCHANGED <<reg, gen, data, hup, batch, pc, cur, ops>>

\* uloop_sigchld wakes the loop too; the children are collected there.
ChildExits ==
    /\ pc # "ended" /\ signals < MaxSignals /\ signals' = signals + 1
    /\ pipe' = TRUE /\ rdl' = Queue("waker")
    /\ UNCHANGED <<reg, gen, data, hup, batch, pc, cur, cancelled, ops>>

-----------------------------------------------------------------------------
(* What a callback may do; before the loop starts the program does it too.   *)

Calls == pc \in {"start", "timer", "event", "read"} /\ ops < MaxOps /\ ops' = ops + 1

\* uloop_fd_add
Add(f) ==
    /\ Calls /\ f \notin reg
    /\ reg' = reg \cup {f}
    /\ rdl' = IF f \in data THEN Queue(f) ELSE rdl
    /\ UNCHANGED <<gen, batch, pc, cur, cancelled, pipe, signals>> /\ UNCHANGED world

Drop(f) == Picked(rdl, {i \in 1 .. Len(rdl) : rdl[i] # f})

\* Fault: a descriptor that is not registered is not looked for in the batch.
Delete_Registered(f) ==
    /\ Calls /\ (f \in reg \/ \E i \in 1 .. Len(batch) : batch[i].fd = f)
    /\ batch' = [i \in 1 .. Len(batch) |-> IF batch[i].fd = f /\ f \in reg THEN Nobody ELSE batch[i]]
    /\ reg' = reg \ {f} /\ gen' = [gen EXCEPT ![f] = @ + 1]
    /\ rdl' = Drop(f) /\ data' = data \ {f} /\ hup' = hup \ {f}
    /\ UNCHANGED <<pc, cur, cancelled, pipe, signals>>

\* Fault: the descriptor stays in the set that epoll polls.
Delete_Polled(f) ==
    /\ Calls /\ (f \in reg \/ \E i \in 1 .. Len(batch) : batch[i].fd = f)
    /\ batch' = [i \in 1 .. Len(batch) |-> IF batch[i].fd = f THEN Nobody ELSE batch[i]]
    /\ reg' = reg \ {f} /\ gen' = [gen EXCEPT ![f] = @ + 1]
    /\ data' = data \ {f} /\ hup' = hup \ {f}
    /\ UNCHANGED <<rdl, pc, cur, cancelled, pipe, signals>>

\* uloop_fd_delete, and the close that follows it: the structure may be used for
\* another descriptor.  Deleting one that the fetch has unregistered counts too.
Delete(f) ==
    /\ Calls /\ (f \in reg \/ \E i \in 1 .. Len(batch) : batch[i].fd = f)
    /\ batch' = [i \in 1 .. Len(batch) |-> IF batch[i].fd = f THEN Nobody ELSE batch[i]]
    /\ reg' = reg \ {f} /\ gen' = [gen EXCEPT ![f] = @ + 1]
    /\ rdl' = Drop(f) /\ data' = data \ {f} /\ hup' = hup \ {f}
    /\ UNCHANGED <<pc, cur, cancelled, pipe, signals>>

-----------------------------------------------------------------------------
(* uloop_run                                                                 *)

Run ==
    /\ pc = "start" /\ pc' = "top" /\ cancelled' = FALSE
    /\ UNCHANGED <<reg, gen, rdl, batch, cur, pipe, ops, signals>> /\ UNCHANGED world

\* The loop ends when it was cancelled.
Stop ==
    /\ pc \in {"top", "check"} /\ cancelled /\ pc' = "ended"
    /\ UNCHANGED <<reg, gen, rdl, batch, cur, cancelled, pipe, ops, signals>> /\ UNCHANGED world

\* Timers are processed first; one may be called back.
TimerCallback ==
    /\ pc = "top" /\ ~cancelled /\ ops < MaxOps /\ pc' = "timer"
    /\ UNCHANGED <<reg, gen, rdl, batch, cur, cancelled, pipe, ops, signals>> /\ UNCHANGED world

Timers ==
    /\ (pc = "top" /\ ~cancelled) \/ pc = "timer"
    /\ pc' = "check"
    /\ UNCHANGED <<reg, gen, rdl, batch, cur, cancelled, pipe, ops, signals>> /\ UNCHANGED world

Check ==
    /\ pc = "check" /\ ~cancelled /\ pc' = "poll"
    /\ UNCHANGED <<reg, gen, rdl, batch, cur, cancelled, pipe, ops, signals>> /\ UNCHANGED world

\* The sleep ends with a timer; nothing is fetched.
PollTimeout ==
    /\ pc = "poll" /\ batch = <<>> /\ rdl = <<>> /\ pc' = "top"
    /\ UNCHANGED <<reg, gen, rdl, batch, cur, cancelled, pipe, ops, signals>> /\ UNCHANGED world

Smaller(m, n) == IF m < n THEN m ELSE n

\* Fault: every descriptor is edge-triggered.
Kept_None(s) == <<>>

\* What epoll_wait reports: the first of its list.  Level-triggered ones go back to
\* the end of it.
Reported == SubSeq(rdl, 1, Smaller(MaxEvents, Len(rdl)))
Kept(s) == Picked(s, {i \in 1 .. Len(s) : s[i] \notin EdgeFds /\ s[i] \notin hup})

\* uloop_fetch_events: a descriptor that hung up is unregistered unless it asked for
\* the error; its event stays in the batch, which is not counted yet.
Fetch ==
    /\ pc = "poll" /\ batch = <<>> /\ rdl # <<>>
    /\ batch' = [i \in 1 .. Len(Reported) |->
                    [fd |-> Reported[i], gen |-> IF Reported[i] = "waker" THEN 0 ELSE gen[Reported[i]]]]
    /\ rdl' = SubSeq(rdl, Len(Reported) + 1, Len(rdl)) \o Kept(Reported)
    /\ reg' = reg \ {f \in hup \ EdgeFds : \E i \in 1 .. Len(Reported) : Reported[i] = f}
    /\ pc' = "events"
    /\ UNCHANGED <<gen, cur, cancelled, pipe, ops, signals>> /\ UNCHANGED world

\* The batch of an earlier turn is not done.
GoOn ==
    /\ pc = "poll" /\ batch # <<>> /\ pc' = "events"
    /\ UNCHANGED <<reg, gen, rdl, batch, cur, cancelled, pipe, ops, signals>> /\ UNCHANGED world

\* uloop_run_events: events whose descriptor was deleted are passed over, ...
Skip ==
    /\ pc = "events" /\ batch # <<>> /\ batch[1] = Nobody
    /\ batch' = Tail(batch)
    /\ UNCHANGED <<reg, gen, rdl, pc, cur, cancelled, pipe, ops, signals>> /\ UNCHANGED world

BatchDone ==
    /\ pc = "events" /\ batch = <<>> /\ pc' = "top"
    /\ UNCHANGED <<reg, gen, rdl, batch, cur, cancelled, pipe, ops, signals>> /\ UNCHANGED world

\* ... the first other one is called back.
Callback ==
    /\ pc = "events" /\ batch # <<>> /\ batch[1] # Nobody
    /\ cur' = batch[1] /\ batch' = Tail(batch) /\ pc' = "event"
    /\ UNCHANGED <<reg, gen, rdl, cancelled, pipe, ops, signals>> /\ UNCHANGED world

\* The callback reads what is there, until read finds no more; that of a
\* level-triggered descriptor may leave something.  What comes later is a new event.
Reads(f) ==
    /\ pc = "event" /\ cur.fd = f /\ f \in data
    /\ data' = data \ {f} /\ rdl' = IF f \in hup THEN rdl ELSE Drop(f)
    /\ pc' = "read"
    /\ UNCHANGED <<reg, gen, hup, batch, cur, cancelled, pipe, ops, signals>>

\* waker_consume empties the pipe.
Returns ==
    /\ pc = "read" \/ (pc = "event" /\ (cur.fd \in EdgeFds => cur.fd \notin data))
    /\ pc' = "top" /\ cur' = Nobody
    /\ pipe' = IF cur.fd = "waker" THEN FALSE ELSE pipe
    /\ rdl' = IF cur.fd = "waker" THEN Drop("waker") ELSE rdl
    /\ UNCHANGED <<reg, gen, batch, cancelled, ops, signals>> /\ UNCHANGED world

Outside == (\E f \in Fds : Arrives(f) \/ HangsUp(f)) \/ Terminate \/ ChildExits

Loop == Run \/ Stop \/ Timers \/ Check \/ Fetch \/ GoOn \/ Skip \/ BatchDone \/ Callback \/ Returns

Next ==
    \/ Outside \/ Loop \/ TimerCallback \/ PollTimeout
    \/ \E f \in Fds : Add(f) \/ Delete(f) \/ Reads(f)

\* The loop runs on; callbacks return, having read what there is; nothing is assumed
\* of the peers, nor that a timer ends a sleep.
Fairness == WF_vars(Loop) /\ \A f \in Fds : WF_vars(Reads(f))

Spec == Init /\ [][Next]_vars /\ Fairness

-----------------------------------------------------------------------------
\* The types; a batch has no more than MaxEvents.
TypeOK ==
    /\ reg \subseteq Fds /\ data \subseteq Fds /\ hup \subseteq Fds /\ gen \in [Fds -> 0 .. MaxOps]
    /\ rdl \in Seq(Fds \cup {"waker"}) /\ Len(batch) <= MaxEvents
    /\ \A i \in 1 .. Len(batch) : batch[i].fd \in Fds \cup {"waker", "none"}
    /\ pc \in {"start", "top", "timer", "check", "poll", "events", "event", "read", "ended"}
    /\ {cancelled, pipe} \subseteq BOOLEAN

\* An event is never delivered to a structure that was deleted after the fetch, nor to
\* what the structure was used for since.
NoStaleEvent ==
    \A i \in 1 .. Len(batch) : batch[i].fd \in Fds => batch[i].gen = gen[batch[i].fd]

\* An event in the batch is of a registered descriptor, or of one that hung up and was
\* unregistered by the fetch: its owner hears of it once.
BatchLive ==
    \A i \in 1 .. Len(batch) : batch[i].fd \in Fds => batch[i].fd \in reg \/ batch[i].fd \in hup

InBatch(f) == \E i \in 1 .. Len(batch) : batch[i].fd = f

\* No event is lost between epoll, the batch and the callback: a registered descriptor
\* with something to read is in epoll's list, and an edge-triggered one, which epoll
\* reports once, in the list, in the batch or being called back.  And the loop does not
\* go to sleep on a termination signal: the pipe that the handler wrote to is reported.
NothingLost ==
    /\ \A f \in reg \cap data :
          InRdl(f) \/ (f \in EdgeFds /\ (InBatch(f) \/ (pc = "event" /\ cur.fd = f)))
    /\ cancelled /\ pc = "poll" => InRdl("waker")

\* What uloop_run_events works through after a fetch are events of descriptors that
\* still want them, whatever callbacks delete and add in between, and all of those.
EventsSound == TypeOK /\ NoStaleEvent /\ BatchLive /\ NothingLost

\* A descriptor with something to read is called back or deleted, or the loop ends,
\* however busy the others are and however small the batch.
ReadyServed == \A f \in Fds :
    (f \in reg /\ f \in data /\ pc # "start")
        ~> (cur.fd = f \/ f \notin reg \/ f \notin data \/ pc = "ended")

\* A termination signal that reaches the loop ends it, even in a sleep without timers
\* and even when it comes between the look at the flag and the sleep.
TermEnds == (cancelled /\ pc # "start") ~> (pc = "ended")
=============================================================================
