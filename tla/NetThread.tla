------------------------------ MODULE NetThread ------------------------------
(***************************************************************************)
(* The rendezvous between the XDMA reader threads and the sender threads of  *)
(* the clients (net/net_thread.c), with the uloop thread that accepts,       *)
(* registers, subscribes and frees clients (net/net_tcp.c,                   *)
(* protocol/m57/m57.c), in a build with TCP_DATA_SEND_BY_THREADS = 1.        *)
(*                                                                         *)
(* A channel is named by the priority it serves (_get_prio_by_channel is     *)
(* one to one).  In every round its reader publishes one block in its hash   *)
(* table, wakes the sender threads of its clients, waits until they are      *)
(* done or 4 s have passed, clears the table and gives the block back to     *)
(* the DMA ring.  A block is the number of its round; all frames in it have  *)
(* the priority of the channel.  All clients come from one address.          *)
(***************************************************************************)
EXTENDS Integers, Sequences, SequencesExt

CONSTANTS
    Clients,   \* the connections, named by their peer ports
    Prios,     \* 0 .. MAX_PRIO_LEVEL - 1
    Busy,      \* the priorities whose channels carry data in this instance
    MaxRound,  \* bound: rounds per channel
    MaxCmd,    \* bound: commands a connection sends
    MaxConn,   \* bound: connections accepted
    NoClient

ASSUME ThreadAssumption ==
    /\ Clients \subseteq Nat
    /\ 0 \in Prios /\ Prios \subseteq Nat
    /\ Busy \subseteq Prios
    /\ MaxRound \in Nat /\ MaxCmd \in Nat /\ MaxConn \in Nat
    /\ NoClient \notin Clients

VARIABLES
    list,     \* srv->clients, the newest first
    cl,       \* the client and its sender thread
    rd,       \* the reader thread, hash table and con_wait of each priority
    conInit,  \* con_wait[] has been allocated
    accepted, \* connections accepted so far
    freeing,  \* the client tcp_free works on; it holds tcp_client_lock
    faults    \* the disturbances that have happened so far

vars == <<list, cl, rd, conInit, accepted, freeing, faults>>

\* What the bookkeeping of the rounds does not foresee.
\*   "count": a thread is registered before it has run _thread_init, or is
\*            moved to another priority by a second REGISTER, or exits without
\*            ever having been registered;
\*   "round": the 4 s are over before every sender is done, or a sender exits
\*            in the middle of a round, or a client that has subscribed
\*            without REGISTER is woken.
Disturbances == {"count", "round"}

\* Disturbance d happens in this step if P holds.
Disturb(d, P) == faults' = faults \cup (IF P THEN {d} ELSE {})

Connected == {list[k] : k \in 1 .. Len(list)}

NewClient ==
    [ pc |-> "init", prio |-> 0, reg |-> FALSE, subs |-> {},
      wait |-> TRUE, chan |-> 0, cur |-> 0, cmds |-> 0 ]

NewReader ==
    [ pc |-> "read", round |-> 0, hash |-> 0, told |-> {}, num |-> 0,
      count |-> 0, threads |-> 0 ]

Init ==
    /\ list = << >>
    /\ cl = [c \in Clients |-> [NewClient EXCEPT !.pc = "gone"]]
    /\ rd = [p \in Prios |-> NewReader]
    /\ conInit = FALSE
    /\ accepted = 0
    /\ freeing = NoClient
    /\ faults = {}
-----------------------------------------------------------------------------
(* The uloop thread.  It does one thing at a time: while it is in tcp_free   *)
(* it handles no other event.                                                *)

\* tcp_accept_cb with net_thread_create_context: the thread is created and
\* the client is put at the head of the list.
Accept(c) ==
    /\ freeing = NoClient
    /\ accepted < MaxConn
    /\ cl[c].pc = "gone"
    /\ cl' = [cl EXCEPT ![c] = NewClient]
    /\ list' = <<c>> \o list
    /\ accepted' = accepted + 1
    /\ UNCHANGED <<rd, conInit, freeing, faults>>

\* uloop is free to execute a command of client c.
Command(c) ==
    /\ freeing = NoClient
    /\ c \in Connected
    /\ cl[c].cmds < MaxCmd

\* Fault: every REGISTER is counted.
Register_CountsAgain(c, p) ==
    /\ Command(c)
    /\ cl' = [cl EXCEPT ![c].prio = p, ![c].reg = TRUE, ![c].cmds = @ + 1]
    /\ rd' = [rd EXCEPT ![p].threads = @ + 1]
    /\ Disturb("count", (cl[c].reg /\ cl[c].prio # p) \/ cl[c].pc = "init")
    /\ UNCHANGED <<list, conInit, accepted, freeing>>

\* CCT_REGISTER with _net_thread_set_prio: the thread is counted at its
\* priority the first time only; a missing con_wait counts nothing.
Register(c, p) ==
    /\ Command(c)
    /\ cl' = [cl EXCEPT ![c].prio = p, ![c].reg = TRUE, ![c].cmds = @ + 1]
    /\ rd' = IF cl[c].reg \/ ~conInit
             THEN rd ELSE [rd EXCEPT ![p].threads = @ + 1]
    /\ Disturb("count", (cl[c].reg /\ cl[c].prio # p) \/ cl[c].pc = "init")
    /\ UNCHANGED <<list, conInit, accepted, freeing>>

\* tcp_find_prio_client: the first client on the list with priority p, one
\* with a neighbouring port before any other.
FirstOf(P(_)) ==
    LET k == SelectInSeq(list, P) IN IF k = 0 THEN {} ELSE {list[k]}

FindPrioClient(c, p) ==
    LET near == FirstOf(LAMBDA d : cl[d].prio = p /\ c - d \in -1 .. 1)
    IN  IF near # {} THEN near ELSE FirstOf(LAMBDA d : cl[d].prio = p)

\* The client that sends a subscription command and its partner of the other
\* priority.
SubTargets(c) ==
    {c} \cup FindPrioClient(c, IF cl[c].prio = 0 THEN 1 ELSE 0)

\* CCT_DATA_SUB: a key that carries each target's own priority is inserted.
Subscribe(c) ==
    /\ Command(c)
    /\ cl' = [d \in Clients |->
                 [cl[d] EXCEPT !.subs = IF d \in SubTargets(c) THEN @ \cup {cl[d].prio} ELSE @,
                               !.cmds = IF d = c THEN @ + 1 ELSE @]]
    /\ UNCHANGED <<list, rd, conInit, accepted, freeing, faults>>

\* CCT_DATA_UNSUB
Unsubscribe(c) ==
    /\ Command(c)
    /\ cl' = [d \in Clients |->
                 [cl[d] EXCEPT !.subs = IF d \in SubTargets(c) THEN @ \ {cl[d].prio} ELSE @,
                               !.cmds = IF d = c THEN @ + 1 ELSE @]]
    /\ UNCHANGED <<list, rd, conInit, accepted, freeing, faults>>

\* tcp_free up to _net_thread_close: tcp_client_lock is taken and the thread
\* is cancelled; uloop now polls thread_exited.
FreeBegin(c) ==
    /\ freeing = NoClient
    /\ c \in Connected
    /\ freeing' = c
    /\ UNCHANGED <<list, cl, rd, conInit, accepted, faults>>

\* tcp_free from there on: the client is taken off the list.
FreeEnd ==
    /\ freeing # NoClient
    /\ cl[freeing].pc = "exited"
    /\ cl' = [cl EXCEPT ![freeing] = [NewClient EXCEPT !.pc = "gone"]]
    /\ \E k \in 1 .. Len(list) : list[k] = freeing /\ list' = RemoveAt(list, k)
    /\ freeing' = NoClient
    /\ UNCHANGED <<rd, conInit, accepted, faults>>
-----------------------------------------------------------------------------
(* The sender thread of client c.                                            *)

\* _thread_init; the first thread allocates con_wait for every priority.
ThreadInit(c) ==
    /\ cl[c].pc = "init"
    /\ cl' = [cl EXCEPT ![c].pc = "wait", ![c].reg = FALSE]
    /\ conInit' = TRUE
    /\ UNCHANGED <<list, rd, accepted, freeing, faults>>

\* Fault: the wait flag is not set again.
Wake_NotRearmed(c) ==
    /\ cl[c].pc = "wait"
    /\ ~cl[c].wait
    /\ cl' = [cl EXCEPT ![c].pc = "walk", ![c].chan = cl[c].prio]
    /\ UNCHANGED <<list, rd, conInit, accepted, freeing, faults>>

\* _net_thread_wait returns: the flag is armed again and the channel looked up.
Wake(c) ==
    /\ cl[c].pc = "wait"
    /\ ~cl[c].wait
    /\ cl' = [cl EXCEPT ![c].pc = "walk", ![c].wait = TRUE, ![c].chan = cl[c].prio]
    /\ UNCHANGED <<list, rd, conInit, accepted, freeing, faults>>

\* spm_hash_do_for_each takes the block that is in the table now.
WalkBegin(c) ==
    /\ cl[c].pc = "walk"
    /\ cl' = [cl EXCEPT ![c].pc = "send", ![c].cur = rd[cl[c].chan].hash]
    /\ UNCHANGED <<list, rd, conInit, accepted, freeing, faults>>

\* The walk ends: a block whose key the client subscribed has been sent.
WalkEnd(c) ==
    /\ cl[c].pc = "send"
    /\ cl' = [cl EXCEPT ![c].pc = "over"]
    /\ UNCHANGED <<list, rd, conInit, accepted, freeing, faults>>

\* _net_thread_con_over, at the priority the thread has now.
Over(c) ==
    /\ cl[c].pc = "over"
    /\ cl' = [cl EXCEPT ![c].pc = "wait"]
    /\ rd' = [rd EXCEPT ![cl[c].prio].count = @ + 1]
    /\ UNCHANGED <<list, conInit, accepted, freeing, faults>>

ExitFaults(c) ==
    (IF rd[cl[c].prio].pc # "read" THEN {"round"} ELSE {})
        \cup (IF cl[c].reg THEN {} ELSE {"count"})

\* Fault: uloop clears thread_exited after the thread has set it.
ThreadExit_FlagLost(c) ==
    /\ freeing = c
    /\ cl[c].pc \in {"init", "wait"}
    /\ cl' = [cl EXCEPT ![c].pc = "lost"]
    /\ rd' = [rd EXCEPT ![cl[c].prio].threads = IF @ > 0 THEN @ - 1 ELSE 0]
    /\ faults' = faults \cup ExitFaults(c)
    /\ UNCHANGED <<list, conInit, accepted, freeing>>

\* _net_thread_exit: the cancellation is acted upon in _thread_init, in
\* pthread_cond_wait or in pthread_testcancel, never while the thread walks
\* the table.
ThreadExit(c) ==
    /\ freeing = c
    /\ cl[c].pc \in {"init", "wait"}
    /\ cl' = [cl EXCEPT ![c].pc = "exited"]
    /\ rd' = [rd EXCEPT ![cl[c].prio].threads = IF @ > 0 THEN @ - 1 ELSE 0]
    /\ faults' = faults \cup ExitFaults(c)
    /\ UNCHANGED <<list, conInit, accepted, freeing>>
-----------------------------------------------------------------------------
(* The reader thread of priority p.                                          *)

\* read_xdma_data: the next block is published in the hash table.
Read(p) ==
    /\ rd[p].pc = "read"
    /\ p \in Busy
    /\ rd[p].round < MaxRound
    /\ rd' = [rd EXCEPT ![p].pc = "notify", ![p].round = @ + 1, ![p].hash = rd[p].round + 1]
    /\ UNCHANGED <<list, cl, conInit, accepted, freeing, faults>>

Audience(p) == {c \in Connected : cl[c].prio = p /\ cl[c].subs # {}}

\* Fault: clients without any subscription are counted as notified.
Notify_CountsAll(p) ==
    /\ rd[p].pc = "notify"
    /\ freeing = NoClient
    /\ cl' = [c \in Clients |->
                 IF c \in Audience(p) THEN [cl[c] EXCEPT !.wait = FALSE] ELSE cl[c]]
    /\ rd' = [rd EXCEPT ![p].pc = "min", ![p].told = Audience(p),
                ![p].num = Cardinality({c \in Connected : cl[c].prio = p})]
    /\ Disturb("round", \E c \in Audience(p) : ~cl[c].reg)
    /\ UNCHANGED <<list, conInit, accepted, freeing>>

\* tcp_client_do_for_each(_net_thread_con_nofity) under tcp_client_lock, taken
\* as one step.
Notify(p) ==
    /\ rd[p].pc = "notify"
    /\ freeing = NoClient
    /\ cl' = [c \in Clients |->
                 IF c \in Audience(p) THEN [cl[c] EXCEPT !.wait = FALSE] ELSE cl[c]]
    /\ rd' = [rd EXCEPT ![p].pc = "min", ![p].told = Audience(p),
                ![p].num = Cardinality(Audience(p))]
    /\ Disturb("round", \E c \in Audience(p) : ~cl[c].reg)
    /\ UNCHANGED <<list, conInit, accepted, freeing>>

\* notify_num is settled; without con_wait or with nobody to wait for there
\* is no wait.
Settle(p, n) ==
    /\ rd' = [rd EXCEPT ![p].num = n, ![p].pc = IF n > 0 /\ conInit THEN "wait" ELSE "clear"]
    /\ UNCHANGED <<list, cl, conInit, accepted, freeing, faults>>

\* The comparison of min(_net_thread_count_get(prio), notify_num).
CountGet(p) ==
    /\ rd[p].pc = "min"
    /\ IF conInit /\ rd[p].threads < rd[p].num
       THEN /\ rd' = [rd EXCEPT ![p].pc = "again"]
            /\ UNCHANGED <<list, cl, conInit, accepted, freeing, faults>>
       ELSE Settle(p, rd[p].num)

\* min is a macro: its smaller argument, the call, is evaluated once more.
CountGetAgain(p) ==
    /\ rd[p].pc = "again"
    /\ Settle(p, rd[p].threads)

\* Fault: one sender fewer is waited for.
WaitOver_OneShort(p) ==
    /\ rd[p].pc = "wait"
    /\ rd[p].count + 1 >= rd[p].num
    /\ rd' = [rd EXCEPT ![p].pc = "clear", ![p].count = 0, ![p].num = 0]
    /\ UNCHANGED <<list, cl, conInit, accepted, freeing, faults>>

\* Fault: the count of this round is left for the next.
WaitOver_KeepsCount(p) ==
    /\ rd[p].pc = "wait"
    /\ rd[p].count >= rd[p].num
    /\ rd' = [rd EXCEPT ![p].pc = "clear"]
    /\ UNCHANGED <<list, cl, conInit, accepted, freeing, faults>>

\* _net_thread_con_wait_timeout, everybody is done.
WaitOver(p) ==
    /\ rd[p].pc = "wait"
    /\ rd[p].count >= rd[p].num
    /\ rd' = [rd EXCEPT ![p].pc = "clear", ![p].count = 0, ![p].num = 0]
    /\ UNCHANGED <<list, cl, conInit, accepted, freeing, faults>>

\* The same, when pthread_cond_timedwait gives up.
WaitTimeout(p) ==
    /\ rd[p].pc = "wait"
    /\ rd[p].count < rd[p].num
    /\ rd' = [rd EXCEPT ![p].pc = "clear", ![p].count = 0, ![p].num = 0]
    /\ faults' = faults \cup {"round"}
    /\ UNCHANGED <<list, cl, conInit, accepted, freeing>>

\* _net_thread_dispatcher_refresh and read_xdma_over_deal: the table is
\* emptied and the block goes back to the DMA ring.
Clear(p) ==
    /\ rd[p].pc = "clear"
    /\ rd' = [rd EXCEPT ![p].pc = "read", ![p].hash = 0, ![p].told = {}]
    /\ UNCHANGED <<list, cl, conInit, accepted, freeing, faults>>

Uloop(c) ==
    \/ Accept(c)
    \/ \E p \in Prios : Register(c, p)
    \/ Subscribe(c)
    \/ Unsubscribe(c)
    \/ FreeBegin(c)

Sender(c) ==
    \/ ThreadInit(c)
    \/ Wake(c)
    \/ WalkBegin(c)
    \/ WalkEnd(c)
    \/ Over(c)
    \/ ThreadExit(c)

\* A reader that has published a block goes on to the end of the round.
Round(p) ==
    \/ Notify(p)
    \/ CountGet(p)
    \/ CountGetAgain(p)
    \/ WaitOver(p)
    \/ Clear(p)

Next ==
    \/ \E c \in Clients : Uloop(c) \/ Sender(c)
    \/ FreeEnd
    \/ \E p \in Prios : Read(p) \/ Round(p) \/ WaitTimeout(p)

Spec == Init /\ [][Next]_vars
-----------------------------------------------------------------------------
(* Properties *)

ClientPc == {"gone", "init", "wait", "walk", "send", "over", "exited"}
ReaderPc == {"read", "notify", "min", "again", "wait", "clear"}

\* Every variable has its type; in particular thread_count, an unsigned
\* number, never passes below zero, and a client is on the list exactly from
\* tcp_accept_cb to the end of tcp_free.
TypeOK ==
    /\ IsInjective(list)
    /\ Connected = {c \in Clients : cl[c].pc # "gone"}
    /\ \A c \in Clients :
          /\ cl[c].pc \in ClientPc
          /\ cl[c].prio \in Prios /\ cl[c].chan \in Prios
          /\ cl[c].reg \in BOOLEAN /\ cl[c].wait \in BOOLEAN
          /\ cl[c].subs \subseteq Prios
          /\ cl[c].cur \in 0 .. MaxRound
    /\ \A p \in Prios :
          /\ rd[p].pc \in ReaderPc
          /\ rd[p].round \in 0 .. MaxRound /\ rd[p].hash \in 0 .. MaxRound
          /\ rd[p].told \subseteq Clients
          /\ rd[p].num \in Nat /\ rd[p].count \in Nat /\ rd[p].threads \in Nat
    /\ conInit \in BOOLEAN
    /\ accepted \in 0 .. MaxConn
    /\ freeing \in Clients \cup {NoClient}
    /\ faults \subseteq Disturbances

\* thread_count[p] is the number of registered threads of priority p, as long
\* as no thread is registered too early, moved to another priority or closed
\* without having been registered.
CountExact ==
    "count" \notin faults =>
        \A p \in Prios :
            rd[p].threads =
                Cardinality({c \in Connected :
                                cl[c].reg /\ cl[c].prio = p /\ cl[c].pc # "exited"})

Undisturbed == faults = {}

\* In an undisturbed run no sender is still sending from a block that the
\* reader has cleared and given back to the DMA ring.
NoSendAfterRelease ==
    Undisturbed =>
        \A c \in Clients :
            cl[c].pc = "send" /\ cl[c].cur # 0 => rd[cl[c].chan].hash = cl[c].cur

\* In an undisturbed run the reader clears the table only when every client
\* it woke has walked the block of this very round and is asleep again.
AllServedBeforeClear ==
    Undisturbed =>
        \A p \in Prios : rd[p].pc = "clear" =>
            \A c \in rd[p].told :
                cl[c].pc = "wait" /\ cl[c].wait /\ cl[c].chan = p /\ cl[c].cur = rd[p].round

\* thread_count, which the reader waits for, is an unsigned number and the number
\* of threads it has to wait for.
CountSound == TypeOK /\ CountExact

\* Between notify and _net_thread_dispatcher_refresh the block belongs to the
\* senders: it is given back only when all of them are done with this round.
BlockHeld == NoSendAfterRelease /\ AllServedBeforeClear

\* In an undisturbed run no client is sent a block twice, or an older block
\* after a newer one of the same channel.
NoRepeats ==
    [][\A c \in Clients :
          Undisturbed /\ cl[c].pc = "walk" /\ cl'[c].pc = "send" => cl[c].cur < cl'[c].cur]_vars

\* Threads are scheduled, and every send ends, by success or by an error of
\* the socket.  The timeout is not assumed to happen.
Fairness ==
    /\ \A c \in Clients : WF_vars(Sender(c))
    /\ \A p \in Prios : WF_vars(Round(p))
    /\ WF_vars(FreeEnd)

\* The senders alone release the reader: without a disturbance every wait of
\* a round ends, and the 4 s timeout is never needed.
RoundEndsByItself ==
    \A p \in Prios : (rd[p].pc = "wait") ~> (rd[p].pc # "wait" \/ faults # {})

\* tcp_free always returns, although it waits for a thread while it holds
\* tcp_client_lock, which the readers need.
FreeReturns ==
    (freeing # NoClient) ~> (freeing = NoClient)
=============================================================================
