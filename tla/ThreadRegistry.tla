--------------------------- MODULE ThreadRegistry ---------------------------
(***************************************************************************)
(* The table of the threads of the program (utils/thread.c): senders, loaders *)
(* and the threads that store and play back files are created under a name,  *)
(* looked up by name or by id, and cancelled.  A thread runs its callback in  *)
(* a loop and acts on a cancellation only between two calls of it; from      *)
(* inside the callback it may leave by its name.  The table has no lock:     *)
(* uloop changes it, and so does a thread that leaves.                       *)
(***************************************************************************)
EXTENDS Integers, Sequences, FiniteSets

CONSTANTS
    Names,      \* names of threads
    Slots,      \* MAX_TEST_BITS entries, numbered from 0
    MaxThreads  \* bound: threads created

\* What the constants are assumed to be.
RegistryAssumption ==
    /\ Slots \subseteq Nat /\ IsFiniteSet(Slots) /\ MaxThreads \in Nat
    /\ "none" \notin Names

VARIABLES
    tab,      \* tbmp.thread_t
    bmp,      \* thread_bmp
    thread,   \* the threads created: name and state
    refused,  \* the last creation was refused because the name was in use
    stale     \* a thread has left by its name after it was cancelled

vars == <<tab, bmp, thread, refused, stale>>

\* Thread ids are numbers from 1, in the order of creation; 0 is no thread.
Tids  == 1 .. Len(thread)
Empty == [name |-> "none", tid |-> 0]

Alive(t)   == thread[t].state # "ended"
Running(t) == thread[t].state = "runs"

Init ==
    /\ tab = [i \in Slots |-> Empty] /\ bmp = {}
    /\ thread = <<>> /\ refused = "none" /\ stale = FALSE

-----------------------------------------------------------------------------
Lowest(S) == CHOOSE i \in S : \A j \in S : i <= j

\* Fault: the name is not compared.
Create_AnyName(n) ==
    /\ Len(thread) < MaxThreads
    /\ Slots \ bmp # {}
    /\ LET i == Lowest(Slots \ bmp)
       IN  /\ tab' = [tab EXCEPT ![i] = [name |-> n, tid |-> Len(thread) + 1]]
           /\ bmp' = bmp \cup {i}
    /\ thread' = Append(thread, [name |-> n, state |-> "runs"])
    /\ refused' = "none" /\ UNCHANGED stale

\* pthread_create_detach: a name in the table is refused; otherwise the thread
\* gets the first free entry.
Create(n) ==
    /\ Len(thread) < MaxThreads
    /\ Slots \ bmp # {}
    /\ \A i \in Slots : tab[i].name # n
    /\ LET i == Lowest(Slots \ bmp)
       IN  /\ tab' = [tab EXCEPT ![i] = [name |-> n, tid |-> Len(thread) + 1]]
           /\ bmp' = bmp \cup {i}
    /\ thread' = Append(thread, [name |-> n, state |-> "runs"])
    /\ refused' = "none" /\ UNCHANGED stale

Refuse(n) ==
    /\ Slots \ bmp # {}
    /\ \E i \in Slots : tab[i].name = n
    /\ refused' = n
    /\ UNCHANGED <<tab, bmp, thread, stale>>

\* The same, when pthread_create fails: the name is left in the entry.
CreateFails(n) ==
    /\ Slots \ bmp # {}
    /\ \A i \in Slots : tab[i].name # n
    /\ tab' = [tab EXCEPT ![Lowest(Slots \ bmp)].name = n]
    /\ refused' = "none" /\ UNCHANGED <<bmp, thread, stale>>

\* The entry that a search finds first is cleared.
Clear(i) == tab' = [tab EXCEPT ![i] = Empty] /\ bmp' = bmp \ {i}

Named(n) == {i \in Slots : tab[i].name = n /\ tab[i].tid > 0}

\* pthread_cancel_by_name
CancelByName(n) ==
    /\ Named(n) # {}
    /\ LET i == Lowest(Named(n))
       IN  /\ thread' = [thread EXCEPT ![tab[i].tid].state = IF @ = "runs" THEN "cancelled" ELSE @]
           /\ Clear(i)
    /\ refused' = "none" /\ UNCHANGED stale

\* Fault: the entry is not cleared.
CancelByTid_KeepsEntry(t) ==
    /\ t \in Tids /\ Alive(t)
    /\ thread' = [thread EXCEPT ![t].state = "cancelled"]
    /\ refused' = "none" /\ UNCHANGED <<tab, bmp, stale>>

\* pthread_cancel_by_tid: a thread that is not in the table is cancelled too.
CancelByTid(t) ==
    /\ t \in Tids /\ Alive(t)
    /\ thread' = [thread EXCEPT ![t].state = "cancelled"]
    /\ LET E == {i \in Slots : tab[i].tid = t}
       IN  IF E # {} THEN Clear(Lowest(E)) ELSE UNCHANGED <<tab, bmp>>
    /\ refused' = "none" /\ UNCHANGED stale

\* pthread_exit_by_name, called by the thread itself.  The entry of that name may
\* by now be another thread's; without an entry the thread goes on.
ExitByName(t) ==
    /\ t \in Tids /\ Alive(t)
    /\ Named(thread[t].name) # {}
    /\ Clear(Lowest(Named(thread[t].name)))
    /\ thread' = [thread EXCEPT ![t].state = "ended"]
    /\ stale' = (stale \/ thread[t].state = "cancelled")
    /\ refused' = "none"

\* thread_loop_cb, between two calls of the callback.
Ends(t) ==
    /\ t \in Tids /\ thread[t].state = "cancelled"
    /\ thread' = [thread EXCEPT ![t].state = "ended"]
    /\ UNCHANGED <<tab, bmp, refused, stale>>

Next ==
    \/ \E n \in Names : Create(n) \/ Refuse(n) \/ CreateFails(n) \/ CancelByName(n)
    \/ \E t \in Tids : CancelByTid(t) \/ ExitByName(t) \/ Ends(t)

Spec == Init /\ [][Next]_vars

-----------------------------------------------------------------------------
\* The types; no entry without its bit has the id of a thread.
TypeOK ==
    /\ tab \in [Slots -> [name : Names \cup {"none"}, tid : 0 .. MaxThreads]]
    /\ bmp \subseteq Slots /\ refused \in Names \cup {"none"} /\ stale \in BOOLEAN
    /\ \A t \in Tids : thread[t] \in [name : Names, state : {"runs", "cancelled", "ended"}]
    /\ \A i \in Slots \ bmp : tab[i].tid = 0

\* As long as no thread leaves by the name of another, the entries in use are
\* exactly the threads that run: everyone can be found and cancelled, and no
\* entry names a thread that has ended.
Registered ==
    ~stale => /\ \A i \in bmp : /\ tab[i].tid \in Tids /\ Running(tab[i].tid)
                                /\ tab[i].name = thread[tab[i].tid].name
              /\ \A t \in Tids : Running(t) => \E i \in bmp : tab[i].tid = t

\* No two threads of one name run at a time, though a cancelled one may still
\* be in its callback.
OneOfAName ==
    \A t, u \in Tids : ~stale /\ Running(t) /\ Running(u) /\ thread[t].name = thread[u].name => t = u

\* The table holds the threads that run, each under its own name
\* (pthread_create_detach, pthread_cancel_by_name, pthread_cancel_by_tid).
RegistrySound == TypeOK /\ Registered /\ OneOfAName

\* What the message says: a name is refused because its thread is running.
RefusedRuns == refused # "none" => \E t \in Tids : Alive(t) /\ thread[t].name = refused
=============================================================================
