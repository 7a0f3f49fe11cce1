------------------------------ MODULE FileNotify ------------------------------
(***************************************************************************)
(* How the client is told of the files of a recording (fs/fs_notifier.c).    *)
(* The thread that saves cuts the recording into files and keeps a node for  *)
(* the file being written; a finished file's node goes to a list.  A timer of *)
(* uloop reports and frees the nodes of the list, then reports the file being *)
(* written.  The thread takes a lock, the timer takes it only for the node of *)
(* the file being written: the list and its count are changed by both.       *)
(***************************************************************************)
EXTENDS Integers, Sequences

CONSTANTS
    MaxFiles,  \* bound: files of one recording
    WaitTicks, \* rounds of the wait of the exit
    MaxFires   \* bound: expiries of the timer

\* What the constants are assumed to be.
NotifyAssumption == MaxFiles \in Nat \ {0} /\ WaitTicks \in Nat \ {0} /\ MaxFires \in Nat

VARIABLES
    pc,       \* the thread that saves
    fnode,    \* node of the file being written; nodes are numbered, 0 is none
    status,   \* status of each node
    freed,    \* nodes given back
    nx, pv,   \* links of the list; 0 is its head
    num,      \* flist_num
    held,     \* what the thread has read: the first node, the count
    left,     \* rounds left of the wait
    timer,    \* the timer is pending
    up,       \* uloop: where it is in the callback
    cur, rd,  \* node it is at; what it has read: links, count, status
    fires,    \* expiries so far
    sent,     \* reports, in order: node, status and who the node was taken for
    overlap   \* an addition to the list and a callback have met

saver == <<pc, held, left>>
loop  == <<up, cur, rd, fires>>
list  == <<nx, pv, num>>
vars  == <<pc, fnode, status, freed, nx, pv, num, held, left, timer, up, cur, rd, fires, sent, overlap>>

Files == 1 .. MaxFiles
Nodes == 0 .. MaxFiles

Init ==
    /\ pc = "start" /\ fnode = 0 /\ status = [f \in Files |-> "none"] /\ freed = {}
    /\ nx = [f \in Nodes |-> 0] /\ pv = nx /\ num = 0
    /\ held = 0 /\ left = WaitTicks /\ timer = FALSE
    /\ up = "idle" /\ cur = 0 /\ rd = [next |-> 0, prev |-> 0, num |-> 0, status |-> "none"]
    /\ fires = 0 /\ sent = <<>> /\ overlap = FALSE

Send(f, s, as) == sent' = Append(sent, [file |-> f, status |-> s, as |-> as])
Adding == pc \in {"link", "count", "create"}

-----------------------------------------------------------------------------
(* The thread that saves.                                                    *)

\* Fault: the client is not told of a new file.
CreateNode_Silent(f) ==
    /\ status' = [status EXCEPT ![f] = "STORE"]
    /\ fnode' = f /\ UNCHANGED sent

\* fs_notifier_create_node: all of it with the lock held.
CreateNode(f) ==
    /\ status' = [status EXCEPT ![f] = "STORE"]
    /\ fnode' = f /\ Send(f, "NEW", "new")

\* fs_notifier_init: the timer is started before there is a node.
StartTimer ==
    /\ pc = "start" /\ pc' = "init" /\ timer' = TRUE
    /\ UNCHANGED <<fnode, status, freed, held, left, sent, overlap>> /\ UNCHANGED loop /\ UNCHANGED list

FirstNode ==
    /\ pc = "init" /\ pc' = "write" /\ CreateNode(1)
    /\ UNCHANGED <<freed, held, left, timer, overlap>> /\ UNCHANGED loop /\ UNCHANGED list

\* fs_notifier_add_node_to_list, with the lock held: the node is finished, ...
AddNode ==
    /\ pc = "write" /\ fnode < MaxFiles
    /\ status' = [status EXCEPT ![fnode] = "FINISH"]
    /\ held' = nx[0] /\ pc' = "link"
    /\ overlap' = (overlap \/ up # "idle")
    /\ UNCHANGED <<fnode, freed, left, timer, sent>> /\ UNCHANGED loop /\ UNCHANGED list

\* ... put before the node that was first (list_add), ...
Link ==
    /\ pc = "link"
    /\ nx' = [nx EXCEPT ![0] = fnode, ![fnode] = held]
    /\ pv' = [pv EXCEPT ![held] = fnode, ![fnode] = 0]
    /\ held' = num /\ pc' = "count"
    /\ UNCHANGED <<fnode, status, freed, num, left, timer, sent, overlap>> /\ UNCHANGED loop

\* Fault: the node is not counted.
Count_Not ==
    /\ pc = "count" /\ pc' = "create"
    /\ UNCHANGED <<num, fnode, status, freed, nx, pv, held, left, timer, sent, overlap>> /\ UNCHANGED loop

\* ... and counted.
Count ==
    /\ pc = "count" /\ num' = held + 1 /\ pc' = "create"
    /\ UNCHANGED <<fnode, status, freed, nx, pv, held, left, timer, sent, overlap>> /\ UNCHANGED loop

\* Fault: the node of the finished file is used for the next one.
NextNode_SameNode ==
    /\ pc = "create" /\ pc' = "write"
    /\ status' = [status EXCEPT ![fnode] = "STORE"]
    /\ UNCHANGED <<fnode, sent, freed, held, left, timer, overlap>> /\ UNCHANGED loop /\ UNCHANGED list

\* _fs_split_file goes on to the next file: until then fnode is the finished one.
NextNode ==
    /\ pc = "create" /\ pc' = "write" /\ CreateNode(fnode + 1)
    /\ UNCHANGED <<freed, held, left, timer, overlap>> /\ UNCHANGED loop /\ UNCHANGED list

\* fs_notifier_exit: wait until the list is reported.
Leave ==
    /\ pc = "write" /\ pc' = "wait"
    /\ UNCHANGED <<fnode, status, freed, held, left, timer, sent, overlap>> /\ UNCHANGED loop /\ UNCHANGED list

\* Fault: the wait has no end of its own.
WaitTick_Endless ==
    /\ pc = "wait"
    /\ pc' = IF num > 0 THEN "wait" ELSE "cancel"
    /\ UNCHANGED <<left, fnode, status, freed, held, timer, sent, overlap>> /\ UNCHANGED loop /\ UNCHANGED list

WaitTick ==
    /\ pc = "wait" /\ left' = left - 1
    /\ pc' = IF num > 0 /\ left' > 0 THEN "wait" ELSE "cancel"
    /\ UNCHANGED <<fnode, status, freed, held, timer, sent, overlap>> /\ UNCHANGED loop /\ UNCHANGED list

CancelTimer ==
    /\ pc = "cancel" /\ pc' = "over" /\ timer' = FALSE
    /\ UNCHANGED <<fnode, status, freed, held, left, sent, overlap>> /\ UNCHANGED loop /\ UNCHANGED list

\* The last file is over, well or not; its node is freed, fnode still names it.
Over(s) ==
    /\ pc = "over" /\ pc' = "done"
    /\ status' = [status EXCEPT ![fnode] = s] /\ Send(fnode, s, "over")
    /\ freed' = freed \cup {fnode}
    /\ UNCHANGED <<fnode, held, left, timer, overlap>> /\ UNCHANGED loop /\ UNCHANGED list

-----------------------------------------------------------------------------
(* uloop: _fs_notifier_time_out.  What a read of freed memory leads to is not *)
(* followed: the model stops there.                                          *)

\* uloop takes the timer off its list and calls back; the first node is read.
Fire ==
    /\ up = "idle" /\ timer /\ pc # "done" /\ fires < MaxFires
    /\ timer' = FALSE /\ fires' = fires + 1
    /\ cur' = nx[0] /\ up' = "walk"
    /\ overlap' = (overlap \/ Adding)
    /\ UNCHANGED <<fnode, status, freed, rd, sent>> /\ UNCHANGED saver /\ UNCHANGED list

\* The timer was set again behind the exit: its memory is given back.
FireFreed ==
    /\ up = "idle" /\ timer /\ pc = "done" /\ up' = "freed"
    /\ UNCHANGED <<fnode, status, freed, timer, cur, rd, fires, sent, overlap>> /\ UNCHANGED saver /\ UNCHANGED list

\* A node of the list is reported; its links are read, ...
Walk ==
    /\ up = "walk"
    /\ \/ cur = 0 /\ up' = "node" /\ UNCHANGED <<rd, sent>>
       \/ cur \in freed /\ up' = "freed" /\ UNCHANGED <<rd, sent>>
       \/ /\ cur \in Files \ freed /\ up' = "unlink"
          /\ Send(cur, status[cur], "list")
          /\ rd' = [rd EXCEPT !.next = nx[cur], !.prev = pv[cur]]
    /\ UNCHANGED <<fnode, status, freed, timer, cur, fires, overlap>> /\ UNCHANGED saver /\ UNCHANGED list

\* ... joined (list_del), and the count read.
Unlink ==
    /\ up = "unlink" /\ up' = "uncount"
    /\ nx' = [nx EXCEPT ![rd.prev] = rd.next]
    /\ pv' = [pv EXCEPT ![rd.next] = rd.prev]
    /\ rd' = [rd EXCEPT !.num = num]
    /\ UNCHANGED <<fnode, status, freed, num, timer, cur, fires, sent, overlap>> /\ UNCHANGED saver

\* The count is lowered, the node freed, the next one taken.
Uncount ==
    /\ up = "uncount" /\ up' = "walk"
    /\ num' = IF rd.num > 0 THEN rd.num - 1 ELSE num
    /\ freed' = freed \cup {cur} /\ cur' = rd.next
    /\ UNCHANGED <<fnode, status, nx, pv, timer, rd, fires, sent, overlap>> /\ UNCHANGED saver

\* The node of the file being written is copied, with the lock held.
Copy ==
    /\ up = "node" /\ pc \notin {"link", "count"}
    /\ \/ fnode = 0 /\ up' = "arm" /\ UNCHANGED rd
       \/ fnode \in freed /\ up' = "freed" /\ UNCHANGED rd
       \/ /\ fnode \in Files \ freed /\ up' = "send"
          /\ rd' = [rd EXCEPT !.next = fnode, !.status = status[fnode]]
    /\ UNCHANGED <<fnode, status, freed, timer, cur, fires, sent, overlap>> /\ UNCHANGED saver /\ UNCHANGED list

\* The copy is sent after the unlock.
SendCopy ==
    /\ up = "send" /\ up' = "arm"
    /\ Send(rd.next, rd.status, "running")
    /\ UNCHANGED <<fnode, status, freed, timer, cur, rd, fires, overlap>> /\ UNCHANGED saver /\ UNCHANGED list

\* The timer is set again, whatever the thread has done meanwhile.
Arm ==
    /\ up = "arm" /\ up' = "idle" /\ timer' = TRUE
    /\ UNCHANGED <<fnode, status, freed, cur, rd, fires, sent, overlap>> /\ UNCHANGED saver /\ UNCHANGED list

-----------------------------------------------------------------------------
Saver ==
    \/ StartTimer \/ FirstNode \/ AddNode \/ Link \/ Count \/ NextNode
    \/ Leave \/ WaitTick \/ CancelTimer
    \/ \E s \in {"OVER", "UN_OVER"} : Over(s)

Uloop == Fire \/ FireFreed \/ Walk \/ Unlink \/ Uncount \/ Copy \/ SendCopy \/ Arm

Next == Saver \/ Uloop

\* The thread is scheduled; it may record for ever (Leave is its user's choice).
Fairness ==
    /\ WF_vars(WaitTick) /\ WF_vars(CancelTimer)
    /\ WF_vars(\E s \in {"OVER", "UN_OVER"} : Over(s))

Spec == Init /\ [][Next]_vars /\ Fairness

-----------------------------------------------------------------------------
Statuses == {"NEW", "STORE", "FINISH", "OVER", "UN_OVER"}

\* The types of the state.
TypeOK ==
    /\ pc \in {"start", "init", "write", "link", "count", "create", "wait", "cancel", "over", "done"}
    /\ up \in {"idle", "walk", "unlink", "uncount", "node", "send", "arm", "freed"}
    /\ fnode \in Nodes /\ cur \in Nodes /\ freed \subseteq Files /\ held \in Nat
    /\ nx \in [Nodes -> Nodes] /\ pv \in [Nodes -> Nodes] /\ num \in 0 .. MaxFiles
    /\ status \in [Files -> Statuses \cup {"none"}]
    /\ left \in 0 .. WaitTicks /\ timer \in BOOLEAN /\ overlap \in BOOLEAN /\ fires \in 0 .. MaxFires
    /\ \A i \in 1 .. Len(sent) : sent[i].file \in Files /\ sent[i].status \in Statuses

\* The client hears of a file first that it is new, and hears it once, although
\* the timer runs before the first node exists and between two nodes.
NewFirst ==
    \A i \in 1 .. Len(sent) :
        (sent[i].status = "NEW") <=> (\A j \in 1 .. i - 1 : sent[j].file # sent[i].file)

\* No file is reported as being stored after it was reported finished.
FinishedStays ==
    \A i, j \in 1 .. Len(sent) :
        i < j /\ sent[i].file = sent[j].file /\ sent[i].status = "FINISH"
            => sent[j].status = "FINISH"

\* The reports that say a file is finished.
Finishes(f) == {i \in 1 .. Len(sent) : sent[i].file = f /\ sent[i].status = "FINISH"}

\* When no file ends while the timer's callback runs, a recording that ends before
\* its wait runs out has reported each finished file, once.
QuietRecording ==
    ~overlap /\ pc = "done" /\ left > 0 =>
        \A f \in 1 .. (fnode - 1) : \E i \in 1 .. Len(sent) : Finishes(f) = {i}

\* What the client hears of the files of a recording is their story in order: new
\* once and first, never back from finished, and finished once if nothing overlaps.
NotifySound == TypeOK /\ NewFirst /\ FinishedStays /\ QuietRecording

\* A recording that is stopped ends: the wait for the list is bounded.
ExitEnds == (pc = "wait") ~> (pc = "done")

\* What the comment of the second half of the callback says: it sends the file
\* being written.
RunningIsStored ==
    /\ \A i \in 1 .. Len(sent) : sent[i].as = "running" => sent[i].status = "STORE"
    /\ up = "freed" => pc = "done"

\* What the comments of the list say: every finished file is sent.
FinishedSent ==
    pc = "done" /\ left > 0 /\ up = "idle" => \A f \in 1 .. (fnode - 1) : Finishes(f) # {}

\* What the last message of the exit says: the status of the files is over.
OverIsLast == \A i \in 1 .. Len(sent) : sent[i].as = "over" => i = Len(sent)
=============================================================================
