-------------------------- MODULE FileNotifyProofs --------------------------
(***************************************************************************)
(* Proofs about the reports of FileNotify, for any number of files: as     *)
(* long as no addition meets a callback, the list is a run of files a ..   *)
(* b, and those before and behind it have been reported once. And about    *)
(* DeviceStatus, alone and as a part of MCFiles: what the counters and     *)
(* flags a client reads amount to.                                         *)
(***************************************************************************)
EXTENDS MCFiles, TLAPS
-----------------------------------------------------------------------------
(* FileNotify: the reports about the files of a recording, sent by a timer.    *)

\* The files that are finished, and the ends a link may have.
Finished == {f \in Files : status[f] = "FINISH"}
LinkEnds == Finished \cup {0}

\* How many files have been counted so far.
CountCap == IF pc = "create" \/ fnode = 0 THEN fnode ELSE fnode - 1

Report == [file : Files, status : Statuses, as : {"new", "list", "running", "over"}]
ReadT  == [next : Nodes, prev : Nodes, num : Nat, status : Statuses \cup {"none"}]

\* The types of the state, by kind.
PlaceT ==
    /\ pc \in {"start", "init", "write", "link", "count", "create", "wait", "cancel", "over", "done"}
    /\ up \in {"idle", "walk", "unlink", "uncount", "node", "send", "arm", "freed"}
    /\ timer \in BOOLEAN /\ overlap \in BOOLEAN
NumberT ==
    /\ fnode \in Nodes /\ cur \in Nodes /\ held \in Nat /\ num \in Nat
    /\ left \in 0 .. WaitTicks /\ fires \in 0 .. MaxFires
ListT ==
    /\ freed \subseteq Files /\ rd \in ReadT
    /\ nx \in [Nodes -> Nodes] /\ pv \in [Nodes -> Nodes]
TextT == sent \in Seq(Report) /\ status \in [Files -> Statuses \cup {"none"}]

NoteTypes == PlaceT /\ NumberT /\ ListT /\ TextT

\* Where the thread is in its recording.
StageInv ==
    /\ fnode >= 1 <=> pc \notin {"start", "init"}
    /\ Adding => fnode < MaxFiles
    /\ left > 0 \/ pc \in {"cancel", "over", "done"}
    /\ num <= CountCap
    /\ pc = "done" => fnode \in freed
    /\ \A f \in freed : f <= fnode

\* The files before the one being written are finished, those after it not begun.
StatusInv ==
    /\ \A f \in Files : /\ f > fnode => status[f] = "none"
                        /\ f < fnode => status[f] = "FINISH"
    /\ pc \notin {"start", "init"} =>
         status[fnode] \in (IF Adding THEN {"FINISH"}
                            ELSE IF pc = "done" THEN {"OVER", "UN_OVER"} ELSE {"STORE"})

\* What the links and the copies of links and counts lead to, however the thread
\* and the timer have met.
LinkInv ==
    /\ \A n \in Nodes : nx[n] \in LinkEnds
    /\ cur \in LinkEnds
    /\ up \in {"unlink", "uncount"} => rd.next \in LinkEnds /\ cur # 0
    /\ up = "send" => rd.next \in 1 .. fnode /\ rd.status \in {"STORE", "FINISH"}
    /\ up = "uncount" => rd.num <= CountCap
    /\ pc = "link" => held \in LinkEnds
    /\ pc = "count" => held <= fnode - 1

\* The reports so far are about files there are, each of which has one, and say
\* finished of those that are.
ToldInv ==
    /\ NewFirst /\ FinishedStays
    /\ \A i \in 1 .. Len(sent) :
          sent[i].file <= fnode /\ (sent[i].status = "FINISH" => sent[i].file \in Finished)
    /\ \A f \in 1 .. fnode : \E i \in 1 .. Len(sent) : sent[i].file = f
    /\ up = "send" /\ Finishes(rd.next) # {} => rd.status = "FINISH"
    /\ up = "send" /\ rd.status = "FINISH" => rd.next \in Finished

\* The last file that is in the list, or was.
Top == IF pc \in {"count", "create"} \/ fnode = 0 THEN fnode ELSE fnode - 1

Once(f) == \E i \in 1 .. Len(sent) : Finishes(f) = {i}

\* The list is the files a .. b, the last first; those before and behind have been
\* reported once.
LinksOf(a, b) ==
    /\ nx[0] = (IF a <= b THEN b ELSE 0)
    /\ \A n \in a .. b : nx[n] = (IF n = a THEN 0 ELSE n - 1)
    /\ a <= b => pv[b] = 0

ToldOf(a, b) ==
    \A f \in Files :
        IF f < a \/ (b < f /\ f <= Top) \/ (up = "unlink" /\ f = b)
          THEN Once(f) ELSE Finishes(f) = {}

FreedOf(a, b) ==
    /\ \A f \in a .. b : f \notin freed
    /\ pc # "done" => fnode \notin freed

CountOf(a, b) ==
    num = (b - a + 1) + (IF up = "uncount" THEN 1 ELSE 0) - (IF pc = "count" THEN 1 ELSE 0)

WalkOf(a, b) ==
    /\ up \in {"idle", "node", "send", "arm"} => b = Top
    /\ up \in {"node", "send", "arm"} => a = b + 1
    /\ up = "walk" => cur = nx[0]
    /\ up = "unlink" => a <= b /\ cur = b /\ rd.next = nx[b] /\ rd.prev = 0
    /\ up = "uncount" => cur = b + 1 /\ rd.next = nx[0] /\ rd.num = num
    /\ pc \in {"cancel", "over", "done"} /\ left > 0 => a = b + 1 /\ up \notin {"unlink", "uncount"}

Chain(a, b) ==
    /\ 1 <= a /\ a <= b + 1 /\ b <= Top
    /\ LinksOf(a, b) /\ ToldOf(a, b) /\ FreedOf(a, b) /\ CountOf(a, b) /\ WalkOf(a, b)

\* As long as no addition has met a callback, the list is what it should be.
QuietInv ==
    ~overlap =>
        /\ Adding => up = "idle"
        /\ pc = "link" => held = nx[0]
        /\ pc = "count" => held = num
        /\ up = "send" => rd.status # "FINISH"
        /\ up = "freed" => pc = "done"
        /\ up # "freed" => \E a, b \in Nat : Chain(a, b)
        /\ up = "freed" /\ left > 0 => \A f \in 1 .. fnode - 1 : Once(f)

NoteInv == NoteTypes /\ StageInv /\ StatusInv /\ LinkInv /\ ToldInv /\ QuietInv

\* What a report adds.
LEMMA SendFacts ==
    ASSUME NoteTypes, NEW f \in Files, NEW s \in Statuses,
           NEW as \in {"new", "list", "running", "over"}, Send(f, s, as)
    PROVE  /\ sent' \in Seq(Report) /\ Len(sent) \in Nat /\ Len(sent') = Len(sent) + 1
           /\ \A i \in 1 .. Len(sent) : sent'[i] = sent[i]
           /\ sent'[Len(sent) + 1].file = f /\ sent'[Len(sent) + 1].status = s
<1> DEFINE r == [file |-> f, status |-> s, as |-> as]
<1>1. r \in Report /\ r.file = f /\ r.status = s
  BY DEF Report
<1>2. sent \in Seq(Report) /\ sent' = Append(sent, r)
  BY DEF NoteTypes, TextT, Send
<1> HIDE DEF r
<1>3. /\ sent' \in Seq(Report) /\ Len(sent) \in Nat /\ Len(sent') = Len(sent) + 1
      /\ \A i \in 1 .. Len(sent) : sent'[i] = sent[i]
      /\ sent'[Len(sent) + 1] = r
  BY <1>1, <1>2
<1> QED BY <1>1, <1>3

\* Only a report that says finished adds to those that do.
LEMMA FinishesSend ==
    ASSUME NoteTypes, NEW f \in Files, NEW s \in Statuses,
           NEW as \in {"new", "list", "running", "over"}, Send(f, s, as),
           NEW g
    PROVE  /\ Finishes(g) \subseteq 1 .. Len(sent)
           /\ Finishes(g)' = (IF f = g /\ s = "FINISH"
                              THEN Finishes(g) \cup {Len(sent) + 1}
                              ELSE Finishes(g))
<1>1. /\ Len(sent) \in Nat /\ Len(sent') = Len(sent) + 1
      /\ \A i \in 1 .. Len(sent) : sent'[i] = sent[i]
      /\ sent'[Len(sent) + 1].file = f /\ sent'[Len(sent) + 1].status = s
  BY SendFacts
<1>2. Finishes(g) = {i \in 1 .. Len(sent) : sent[i].file = g /\ sent[i].status = "FINISH"}
  BY DEF Finishes
<1>3. Finishes(g)' = {i \in 1 .. Len(sent') : sent'[i].file = g /\ sent'[i].status = "FINISH"}
  BY DEF Finishes
<1>4. 1 .. Len(sent') = (1 .. Len(sent)) \cup {Len(sent) + 1} /\ Len(sent) + 1 \notin 1 .. Len(sent)
  BY <1>1
<1> QED BY <1>1, <1>2, <1>3, <1>4

-----------------------------------------------------------------------------
(* The types, the stage of the thread and the ends of the links.             *)

BaseInv == NoteTypes /\ StageInv /\ StatusInv /\ LinkInv

\* The numbers of files and nodes.
LEMMA NodeFacts ==
    ASSUME NotifyAssumption
    PROVE  /\ MaxFiles \in Nat /\ MaxFiles >= 1 /\ WaitTicks \in Nat /\ WaitTicks >= 1 /\ MaxFires \in Nat
           /\ \A n : n \in Nodes <=> n \in Nat /\ n <= MaxFiles
           /\ \A f : f \in Files <=> f \in Nat /\ 1 <= f /\ f <= MaxFiles
           /\ 0 \in Nodes /\ 0 \notin Files /\ Files \subseteq Nodes
           /\ \A n \in Nodes : n # 0 => n \in Files
BY DEF NotifyAssumption, Files, Nodes

\* The start of a recording.
LEMMA NoteInit == ASSUME NotifyAssumption, Init PROVE NoteInv
<1> USE NodeFacts
<1>1. sent \in Seq(Report) /\ Len(sent) = 0
  BY DEF Init
<1>2. rd \in ReadT
  BY DEF Init, ReadT
<1>3. NoteTypes
  <2>1. PlaceT
    BY DEF Init, PlaceT
  <2>2. NumberT
    BY DEF Init, NumberT
  <2>3. ListT
    BY <1>2 DEF Init, ListT
  <2>4. TextT
    BY <1>1 DEF Init, TextT
  <2> QED BY <2>1, <2>2, <2>3, <2>4 DEF NoteTypes
<1>4. StageInv
  BY DEF Init, StageInv, Adding, CountCap
<1>4a. StatusInv
  BY DEF Init, StatusInv
<1>5. LinkInv
  BY DEF Init, LinkInv, LinkEnds
<1>6. ToldInv
  BY <1>1 DEF Init, ToldInv, NewFirst, FinishedStays
<1>7. Finishes(0) = {} /\ \A f \in Files : Finishes(f) = {}
  BY <1>1 DEF Finishes
<1>8. Chain(1, 0)
  BY <1>7 DEF Init, Chain, LinksOf, ToldOf, FreedOf, CountOf, WalkOf, Top
<1>9. QuietInv
  BY <1>8 DEF Init, QuietInv, Adding
<1> QED BY <1>3, <1>4, <1>4a, <1>5, <1>6, <1>9 DEF NoteInv

\* The next file begins, the first or the one after a finished one.
LEMMA CreateBase ==
    ASSUME NotifyAssumption, BaseInv, NEW f \in Files, f = fnode + 1,
           CreateNode(f), pc \in {"init", "create"}, pc' = "write",
           UNCHANGED <<freed, held, left, timer, overlap, up, cur, rd, fires, nx, pv, num>>
    PROVE  BaseInv'
<1> USE NodeFacts
<1>1. status' = [status EXCEPT ![f] = "STORE"] /\ fnode' = f /\ Send(f, "NEW", "new")
  BY DEF CreateNode
<1>2. sent' \in Seq(Report)
  BY <1>1, SendFacts DEF BaseInv, Statuses
<1>3. fnode \in Nat /\ num \in Nat /\ status \in [Files -> Statuses \cup {"none"}]
  BY DEF BaseInv, NoteTypes, NumberT, TextT
<1>4. status[f] = "none"
  BY <1>3 DEF BaseInv, StatusInv
<1>5. \A g \in Files : status'[g] = IF g = f THEN "STORE" ELSE status[g]
  BY <1>1, <1>3
<1>6. Finished' = Finished /\ LinkEnds' = LinkEnds
  BY <1>4, <1>5 DEF Finished, LinkEnds
<1>7. NoteTypes'
  <2>1. PlaceT'
    BY DEF BaseInv, NoteTypes, PlaceT
  <2>2. NumberT'
    BY <1>1 DEF BaseInv, NoteTypes, NumberT
  <2>3. ListT'
    BY DEF BaseInv, NoteTypes, ListT
  <2>4. TextT'
    BY <1>1, <1>2, <1>3 DEF TextT, Statuses
  <2> QED BY <2>1, <2>2, <2>3, <2>4 DEF NoteTypes
<1>8. StageInv'
  <2>1. \A g \in freed' : g <= fnode'
    <3>1. \A g \in freed : g \in Nat /\ g <= fnode
      BY DEF BaseInv, NoteTypes, ListT, StageInv
    <3> QED BY <1>1, <1>3, <3>1
  <2> QED BY <1>1, <1>3, <2>1 DEF BaseInv, StageInv, Adding, CountCap
<1>9. StatusInv'
  <2>1. ASSUME NEW g \in Files, g < f PROVE status[g] = "FINISH"
    <3>1. g \in Nat /\ (g < fnode \/ g = fnode)
      BY <1>3, <2>1
    <3>2. CASE g = fnode
      BY <1>3, <2>1, <3>2 DEF BaseInv, StatusInv, StageInv, Adding
    <3> QED BY <3>1, <3>2 DEF BaseInv, StatusInv
  <2>2. ASSUME NEW g \in Files, g > f PROVE status[g] = "none"
    BY <1>3, <2>2 DEF BaseInv, StatusInv
  <2> QED BY <1>1, <1>5, <2>1, <2>2 DEF StatusInv, Adding
<1>10. LinkInv'
  <2>1. CountCap' = CountCap /\ fnode' >= fnode
    BY <1>1, <1>3 DEF CountCap, BaseInv, StageInv
  <2> QED BY <1>1, <1>3, <1>6, <2>1 DEF BaseInv, LinkInv
<1> QED BY <1>7, <1>8, <1>9, <1>10 DEF BaseInv

\* A file is finished.
LEMMA AddBase == ASSUME NotifyAssumption, BaseInv, AddNode PROVE BaseInv'
<1> USE NodeFacts
<1>1. /\ pc = "write" /\ fnode < MaxFiles /\ status' = [status EXCEPT ![fnode] = "FINISH"]
      /\ held' = nx[0] /\ pc' = "link"
      /\ UNCHANGED <<fnode, freed, left, timer, sent, up, cur, rd, fires, nx, pv, num>>
  BY DEF AddNode, loop, list
<1>2. overlap' \in BOOLEAN
  BY Zenon DEF AddNode
<1>3. /\ fnode \in Files /\ num \in Nat /\ status \in [Files -> Statuses \cup {"none"}]
      /\ nx \in [Nodes -> Nodes]
  BY <1>1 DEF BaseInv, NoteTypes, NumberT, TextT, ListT, StageInv
<1>4. \A g \in Files : status'[g] = IF g = fnode THEN "FINISH" ELSE status[g]
  BY <1>1, <1>3
<1>5. Finished' = Finished \cup {fnode} /\ LinkEnds \subseteq LinkEnds'
  BY <1>3, <1>4 DEF Finished, LinkEnds
<1>6. NoteTypes'
  <2>1. PlaceT'
    BY <1>1, <1>2 DEF BaseInv, NoteTypes, PlaceT
  <2>2. NumberT'
    BY <1>1, <1>3 DEF BaseInv, NoteTypes, NumberT
  <2>3. ListT'
    BY <1>1 DEF BaseInv, NoteTypes, ListT
  <2>4. TextT'
    BY <1>1, <1>3 DEF BaseInv, NoteTypes, TextT, Statuses
  <2> QED BY <2>1, <2>2, <2>3, <2>4 DEF NoteTypes
<1>7. StageInv'
  BY <1>1, <1>3 DEF BaseInv, StageInv, Adding, CountCap
<1>8. StatusInv'
  BY <1>1, <1>3, <1>4 DEF BaseInv, StatusInv, Adding
<1>9. LinkInv'
  <2>1. CountCap' = CountCap
    BY <1>1 DEF CountCap
  <2>2. nx[0] \in LinkEnds
    BY DEF BaseInv, LinkInv
  <2> QED BY <1>1, <1>3, <1>5, <2>1, <2>2 DEF BaseInv, LinkInv
<1> QED BY <1>6, <1>7, <1>8, <1>9 DEF BaseInv

\* Its node is linked.
LEMMA LinkBase == ASSUME NotifyAssumption, BaseInv, Link PROVE BaseInv'
<1> USE NodeFacts
<1>1. /\ pc = "link" /\ pc' = "count" /\ held' = num
      /\ nx' = [nx EXCEPT ![0] = fnode, ![fnode] = held]
      /\ pv' = [pv EXCEPT ![held] = fnode, ![fnode] = 0]
      /\ UNCHANGED <<fnode, status, freed, num, left, timer, sent, overlap, up, cur, rd, fires>>
  BY DEF Link, loop
<1>2. /\ fnode \in Files /\ num \in Nat /\ nx \in [Nodes -> Nodes]
      /\ pv \in [Nodes -> Nodes] /\ held \in LinkEnds
  BY <1>1 DEF BaseInv, NoteTypes, NumberT, ListT, StageInv, LinkInv
<1>3. held \in Nodes /\ fnode \in LinkEnds
  BY <1>1, <1>2 DEF BaseInv, StatusInv, LinkEnds, Finished, Adding
<1>4. LinkEnds' = LinkEnds
  BY <1>1 DEF LinkEnds, Finished
<1>5. /\ nx' \in [Nodes -> Nodes] /\ pv' \in [Nodes -> Nodes]
      /\ \A n \in Nodes : nx'[n] \in {nx[n], fnode, held}
  BY <1>1, <1>2, <1>3
<1>6. NoteTypes'
  <2>1. PlaceT'
    BY <1>1 DEF BaseInv, NoteTypes, PlaceT
  <2>2. NumberT'
    BY <1>1, <1>2 DEF BaseInv, NoteTypes, NumberT
  <2>3. ListT'
    BY <1>1, <1>5 DEF BaseInv, NoteTypes, ListT
  <2>4. TextT'
    BY <1>1 DEF BaseInv, NoteTypes, TextT
  <2> QED BY <2>1, <2>2, <2>3, <2>4 DEF NoteTypes
<1>7. StageInv'
  BY <1>1, <1>2 DEF BaseInv, StageInv, Adding, CountCap
<1>8. StatusInv'
  BY <1>1 DEF BaseInv, StatusInv, Adding
<1>9. LinkInv'
  <2>1. CountCap' = CountCap /\ num <= fnode - 1
    BY <1>1, <1>2 DEF CountCap, BaseInv, StageInv
  <2>2. \A n \in Nodes : nx'[n] \in LinkEnds'
    BY <1>2, <1>3, <1>4, <1>5 DEF BaseInv, LinkInv
  <2> QED BY <1>1, <1>4, <2>1, <2>2 DEF BaseInv, LinkInv
<1> QED BY <1>6, <1>7, <1>8, <1>9 DEF BaseInv

\* The steps that change neither files nor links.
LEMMA PlainBase ==
    ASSUME NotifyAssumption, BaseInv,
           StartTimer \/ Count \/ Leave \/ WaitTick \/ CancelTimer
    PROVE  BaseInv'
<1> USE NodeFacts
<1>1. /\ UNCHANGED <<fnode, status, freed, held, sent, overlap, up, cur, rd, fires, nx, pv>>
      /\ timer' \in {timer, TRUE, FALSE}
      /\ pc' \in {"init", "create", "wait", "cancel", "over"} /\ (pc \in {"start", "init"} <=> pc' = "init")
      /\ (pc = "count" <=> pc' = "create") /\ (pc # "count" => num' = num) /\ (pc = "count" => num' = held + 1)
      /\ (pc = "wait" => left' = left - 1 /\ (left' > 0 \/ pc' = "cancel")) /\ (pc # "wait" => left' = left)
      /\ pc \in {"start", "count", "write", "wait", "cancel"} /\ (pc = "cancel" => pc' = "over")
  BY DEF StartTimer, Count, Leave, WaitTick, CancelTimer, loop, list
<1>2. fnode \in Nat /\ num \in Nat /\ held \in Nat /\ left \in 0 .. WaitTicks
  BY DEF BaseInv, NoteTypes, NumberT
<1>3. num' \in Nat /\ num' <= CountCap'
  BY <1>1, <1>2 DEF BaseInv, StageInv, LinkInv, CountCap
<1>4. left' \in 0 .. WaitTicks /\ (left' > 0 \/ pc' \in {"cancel", "over", "done"})
  BY <1>1, <1>2 DEF BaseInv, StageInv
<1>5. NoteTypes'
  <2>1. PlaceT'
    BY <1>1 DEF BaseInv, NoteTypes, PlaceT
  <2>2. NumberT'
    BY <1>1, <1>3, <1>4 DEF BaseInv, NoteTypes, NumberT
  <2>3. ListT'
    BY <1>1 DEF BaseInv, NoteTypes, ListT
  <2>4. TextT'
    BY <1>1 DEF BaseInv, NoteTypes, TextT
  <2> QED BY <2>1, <2>2, <2>3, <2>4 DEF NoteTypes
<1>6. StageInv'
  BY <1>1, <1>3, <1>4 DEF BaseInv, StageInv, Adding
<1>7. StatusInv'
  BY <1>1 DEF BaseInv, StatusInv, Adding
<1>8. LinkInv'
  <2>1. LinkEnds' = LinkEnds
    BY <1>1 DEF LinkEnds, Finished
  <2>2. CountCap \in Nat /\ CountCap' \in Nat /\ CountCap <= CountCap'
    BY <1>1, <1>2 DEF CountCap
  <2>3. up = "uncount" => rd.num \in Nat
    BY DEF BaseInv, NoteTypes, ListT, ReadT
  <2> QED BY <1>1, <2>1, <2>2, <2>3 DEF BaseInv, LinkInv
<1> QED BY <1>5, <1>6, <1>7, <1>8 DEF BaseInv

\* The last file is over.
LEMMA OverBase ==
    ASSUME NotifyAssumption, BaseInv, NEW s \in {"OVER", "UN_OVER"}, Over(s)
    PROVE  BaseInv'
<1> USE NodeFacts
<1>1. /\ pc = "over" /\ pc' = "done" /\ status' = [status EXCEPT ![fnode] = s]
      /\ Send(fnode, s, "over") /\ freed' = freed \cup {fnode}
      /\ UNCHANGED <<fnode, held, left, timer, overlap, up, cur, rd, fires, nx, pv, num>>
  BY DEF Over, loop, list
<1>2. /\ fnode \in Files /\ status[fnode] = "STORE"
      /\ status \in [Files -> Statuses \cup {"none"}]
  BY <1>1 DEF BaseInv, NoteTypes, NumberT, TextT, StageInv, StatusInv, Adding
<1>3. sent' \in Seq(Report)
  BY <1>1, <1>2, SendFacts DEF BaseInv, Statuses
<1>4. \A g \in Files : status'[g] = IF g = fnode THEN s ELSE status[g]
  BY <1>1, <1>2
<1>5. Finished' = Finished /\ LinkEnds' = LinkEnds
  BY <1>2, <1>4 DEF Finished, LinkEnds
<1>6. NoteTypes'
  <2>1. PlaceT'
    BY <1>1 DEF BaseInv, NoteTypes, PlaceT
  <2>2. NumberT'
    BY <1>1 DEF BaseInv, NoteTypes, NumberT
  <2>3. ListT'
    BY <1>1, <1>2 DEF BaseInv, NoteTypes, ListT
  <2>4. TextT'
    BY <1>1, <1>2, <1>3 DEF TextT, Statuses
  <2> QED BY <2>1, <2>2, <2>3, <2>4 DEF NoteTypes
<1>7. StageInv'
  <2>1. \A g \in freed' : g <= fnode'
    BY <1>1, <1>2 DEF BaseInv, StageInv
  <2> QED BY <1>1, <2>1 DEF BaseInv, StageInv, Adding, CountCap
<1>8. StatusInv'
  BY <1>1, <1>2, <1>4 DEF BaseInv, StatusInv, Adding
<1>9. LinkInv'
  <2>1. CountCap' = CountCap
    BY <1>1 DEF CountCap
  <2> QED BY <1>1, <1>5, <2>1 DEF BaseInv, LinkInv
<1> QED BY <1>6, <1>7, <1>8, <1>9 DEF BaseInv

\* The steps of the thread.
LEMMA SaverBase == ASSUME NotifyAssumption, BaseInv, Saver PROVE BaseInv'
<1> USE NodeFacts
<1>1. CASE FirstNode
  <2>1. fnode = 0
    BY <1>1 DEF FirstNode, BaseInv, NoteTypes, NumberT, StageInv
  <2> QED BY <1>1, <2>1, CreateBase DEF FirstNode, loop, list
<1>2. CASE NextNode
  <2>1. fnode + 1 \in Files
    BY <1>2 DEF NextNode, BaseInv, NoteTypes, NumberT, StageInv, Adding
  <2> QED BY <1>2, <2>1, CreateBase DEF NextNode, loop, list
<1>3. CASE \E s \in {"OVER", "UN_OVER"} : Over(s)
  BY <1>3, OverBase
<1>4. CASE AddNode \/ Link
  BY <1>4, AddBase, LinkBase
<1>5. CASE StartTimer \/ Count \/ Leave \/ WaitTick \/ CancelTimer
  BY <1>5, PlainBase
<1> QED BY <1>1, <1>2, <1>3, <1>4, <1>5 DEF Saver

\* What a step of the callback has to leave.
LoopLeaves ==
    /\ UNCHANGED <<pc, fnode, status, held, left>>
    /\ up' \in {"idle", "walk", "unlink", "uncount", "node", "send", "arm", "freed"}
    /\ timer' \in BOOLEAN /\ overlap' \in BOOLEAN /\ fires' \in 0 .. MaxFires
    /\ cur' \in LinkEnds /\ num' \in Nat /\ num' <= CountCap
    /\ freed \subseteq freed' /\ freed' \subseteq Files /\ (\A f \in freed' : f <= fnode)
    /\ rd' \in ReadT /\ sent' \in Seq(Report)
    /\ nx' \in [Nodes -> Nodes] /\ pv' \in [Nodes -> Nodes]
    /\ \A n \in Nodes : nx'[n] \in LinkEnds
    /\ up' \in {"unlink", "uncount"} => rd'.next \in LinkEnds /\ cur' # 0
    /\ up' = "send" => rd'.next \in 1 .. fnode /\ rd'.status \in {"STORE", "FINISH"}
    /\ up' = "uncount" => rd'.num <= CountCap

\* Then the types and the ends of the links are as before.
LEMMA LoopBase == ASSUME NotifyAssumption, BaseInv, LoopLeaves PROVE BaseInv'
<1> USE NodeFacts
<1>1. LinkEnds' = LinkEnds /\ CountCap' = CountCap /\ LinkEnds \subseteq Nodes
  BY DEF LoopLeaves, LinkEnds, Finished, CountCap
<1>2. NoteTypes'
  <2>1. PlaceT'
    BY DEF LoopLeaves, BaseInv, NoteTypes, PlaceT
  <2>2. NumberT'
    BY <1>1 DEF LoopLeaves, BaseInv, NoteTypes, NumberT
  <2>3. ListT'
    BY DEF LoopLeaves, ListT
  <2>4. TextT'
    BY DEF LoopLeaves, BaseInv, NoteTypes, TextT
  <2> QED BY <2>1, <2>2, <2>3, <2>4 DEF NoteTypes
<1>3. StageInv'
  BY <1>1 DEF LoopLeaves, BaseInv, StageInv, Adding
<1>4. StatusInv'
  BY DEF LoopLeaves, BaseInv, StatusInv, Adding
<1>5. LinkInv'
  BY <1>1 DEF LoopLeaves, BaseInv, LinkInv
<1> QED BY <1>2, <1>3, <1>4, <1>5 DEF BaseInv

\* What a step of the callback finds.
LEMMA LoopFinds ==
    ASSUME NotifyAssumption, BaseInv
    PROVE  /\ up \in {"idle", "walk", "unlink", "uncount", "node", "send", "arm", "freed"}
           /\ timer \in BOOLEAN /\ overlap \in BOOLEAN /\ fires \in 0 .. MaxFires
           /\ cur \in LinkEnds /\ cur \in Nodes /\ num \in Nat /\ num <= CountCap
           /\ fnode \in Nodes /\ CountCap \in Nat
           /\ freed \subseteq Files /\ (\A f \in freed : f <= fnode) /\ rd \in ReadT /\ sent \in Seq(Report)
           /\ nx \in [Nodes -> Nodes] /\ pv \in [Nodes -> Nodes]
           /\ \A n \in Nodes : nx[n] \in LinkEnds
           /\ up \in {"unlink", "uncount"} => rd.next \in LinkEnds /\ cur # 0
           /\ up = "send" => rd.next \in 1 .. fnode /\ rd.status \in {"STORE", "FINISH"}
           /\ up = "uncount" => rd.num <= CountCap
           /\ rd.next \in Nodes /\ rd.prev \in Nodes /\ rd.num \in Nat
           /\ status \in [Files -> Statuses \cup {"none"}]
<1> USE NodeFacts
<1>1. PlaceT /\ NumberT /\ ListT /\ TextT
  BY DEF BaseInv, NoteTypes
<1>2. CountCap \in Nat
  BY <1>1 DEF CountCap, NumberT
<1>3. rd.next \in Nodes /\ rd.prev \in Nodes /\ rd.num \in Nat
  BY <1>1 DEF ListT, ReadT
<1>4. num <= CountCap /\ \A f \in freed : f <= fnode
  BY DEF BaseInv, StageInv
<1>5. LinkInv
  BY DEF BaseInv
<1> QED BY <1>1, <1>2, <1>3, <1>4, <1>5 DEF PlaceT, NumberT, ListT, TextT, LinkInv

\* The expiry, and the steps that touch no node.
LEMMA FireBase ==
    ASSUME NotifyAssumption, BaseInv, Fire \/ FireFreed \/ Arm
    PROVE  BaseInv'
<1> USE NodeFacts, LoopFinds
<1>1. CASE Fire
  <2>1. overlap' \in BOOLEAN /\ timer' \in BOOLEAN
    BY <1>1, Zenon DEF Fire
  <2>2. fires' \in 0 .. MaxFires
    <3>1. fires \in Nat /\ fires < MaxFires /\ fires' = fires + 1 /\ MaxFires \in Nat
      BY <1>1 DEF Fire
    <3> HIDE NodeFacts, LoopFinds
    <3> QED BY <3>1
  <2>3. cur' \in LinkEnds
    BY <1>1 DEF Fire
  <2> QED BY <1>1, <2>1, <2>2, <2>3, LoopBase DEF Fire, saver, list, LoopLeaves
<1>2. CASE FireFreed
  BY <1>2, LoopBase DEF FireFreed, saver, list, LoopLeaves
<1>3. CASE Arm
  BY <1>3, LoopBase DEF Arm, saver, list, LoopLeaves
<1> QED BY <1>1, <1>2, <1>3

\* A node of the list is reported.
LEMMA WalkBase == ASSUME NotifyAssumption, BaseInv, Walk PROVE BaseInv'
<1> USE NodeFacts, LoopFinds
<1>1. CASE UNCHANGED <<rd, sent>> /\ up' \in {"node", "freed"}
  BY <1>1, LoopBase DEF Walk, saver, list, LoopLeaves
<1>2. CASE /\ cur \in Files \ freed /\ up' = "unlink"
           /\ Send(cur, status[cur], "list")
           /\ rd' = [rd EXCEPT !.next = nx[cur], !.prev = pv[cur]]
  <2>1. status[cur] = "FINISH"
    BY <1>2 DEF LinkEnds, Finished
  <2>2. sent' \in Seq(Report)
    BY <1>2, <2>1, SendFacts DEF BaseInv, Statuses
  <2>3. rd' \in ReadT /\ rd'.next = nx[cur]
    BY <1>2 DEF ReadT
  <2>4. nx[cur] \in LinkEnds /\ cur # 0
    BY <1>2
  <2> QED BY <1>2, <2>2, <2>3, <2>4, LoopBase DEF Walk, saver, list, LoopLeaves
<1> QED BY <1>1, <1>2 DEF Walk

\* It is taken out of the list.
LEMMA UnlinkBase == ASSUME NotifyAssumption, BaseInv, Unlink PROVE BaseInv'
<1> USE NodeFacts, LoopFinds
<1>1. /\ up = "unlink" /\ up' = "uncount"
      /\ nx' = [nx EXCEPT ![rd.prev] = rd.next]
      /\ pv' = [pv EXCEPT ![rd.next] = rd.prev]
      /\ rd' = [rd EXCEPT !.num = num]
      /\ UNCHANGED <<fnode, status, freed, num, timer, cur, fires, sent, overlap, pc, held, left>>
  BY DEF Unlink, saver
<1>2. rd' \in ReadT /\ rd'.next = rd.next /\ rd'.num = num
  BY <1>1 DEF ReadT
<1>3. /\ nx' \in [Nodes -> Nodes] /\ pv' \in [Nodes -> Nodes]
      /\ \A n \in Nodes : nx'[n] \in LinkEnds
  BY <1>1
<1>4. /\ timer \in BOOLEAN /\ overlap \in BOOLEAN /\ fires \in 0 .. MaxFires
      /\ cur \in LinkEnds /\ num \in Nat /\ num <= CountCap /\ sent \in Seq(Report)
      /\ freed \subseteq Files /\ (\A f \in freed : f <= fnode)
      /\ rd.next \in LinkEnds /\ cur # 0
  BY <1>1
<1> HIDE NodeFacts, LoopFinds
<1>5. LoopLeaves
  BY <1>1, <1>2, <1>3, <1>4 DEF LoopLeaves
<1> QED BY <1>5, LoopBase

\* The count is lowered and the node freed.
LEMMA UncountBase == ASSUME NotifyAssumption, BaseInv, Uncount PROVE BaseInv'
<1> USE NodeFacts, LoopFinds
<1>1. num' \in Nat /\ num' <= CountCap
  <2>1. /\ num \in Nat /\ rd.num \in Nat /\ CountCap \in Nat /\ num <= CountCap /\ rd.num <= CountCap
        /\ num' = IF rd.num > 0 THEN rd.num - 1 ELSE num
    BY DEF Uncount
  <2> HIDE NodeFacts, LoopFinds
  <2> QED BY <2>1
<1>2. freed' = freed \cup {cur} /\ cur \in Files /\ cur \in Finished
  BY DEF Uncount, LinkEnds
<1>3. cur <= fnode
  <2>1. status[cur] = "FINISH"
    BY <1>2 DEF Finished
  <2>2. cur > fnode => status[cur] = "none"
    BY <1>2 DEF BaseInv, StatusInv
  <2> QED BY <1>2, <2>1, <2>2
<1> QED BY <1>1, <1>2, <1>3, LoopBase DEF Uncount, saver, LoopLeaves

\* The file being written is copied, and the copy sent.
LEMMA CopyBase ==
    ASSUME NotifyAssumption, BaseInv, Copy \/ SendCopy
    PROVE  BaseInv'
<1> USE NodeFacts, LoopFinds
<1>1. CASE Copy /\ UNCHANGED rd /\ up' \in {"arm", "freed"}
  BY <1>1, LoopBase DEF Copy, saver, list, LoopLeaves
<1>2. CASE /\ Copy /\ fnode \in Files \ freed /\ up' = "send"
           /\ rd' = [rd EXCEPT !.next = fnode, !.status = status[fnode]]
  <2>1. rd' \in ReadT /\ rd'.next = fnode /\ rd'.status = status[fnode]
    BY <1>2 DEF ReadT
  <2>2. status[fnode] \in {"STORE", "FINISH"}
    <3>1. pc \notin {"start", "init"}
      BY <1>2 DEF BaseInv, StageInv
    <3>2. pc # "done"
      BY <1>2 DEF BaseInv, StageInv
    <3> QED BY <3>1, <3>2 DEF BaseInv, StatusInv
  <2>3. rd'.next \in 1 .. fnode
    BY <1>2, <2>1
  <2>4. LoopLeaves
    BY <1>2, <2>1, <2>2, <2>3 DEF Copy, saver, list, LoopLeaves
  <2> HIDE NodeFacts, LoopFinds
  <2> QED BY <2>4, LoopBase
<1>3. CASE SendCopy
  <2>0. rd.next \in 1 .. fnode /\ fnode \in Nat /\ fnode <= MaxFiles /\ rd.status \in {"STORE", "FINISH"}
    BY <1>3 DEF SendCopy
  <2>1. /\ Send(rd.next, rd.status, "running") /\ rd.next \in Files
        /\ rd.status \in Statuses
    <3> HIDE LoopFinds
    <3> QED BY <1>3, <2>0 DEF SendCopy, Statuses
  <2>2. sent' \in Seq(Report)
    BY <2>1, SendFacts DEF BaseInv
  <2> QED BY <1>3, <2>2, LoopBase DEF SendCopy, saver, list, LoopLeaves
<1> QED BY <1>1, <1>2, <1>3 DEF Copy

\* The types, the stage and the ends of the links hold for ever.
LEMMA StepBase == ASSUME NotifyAssumption, BaseInv, Next PROVE BaseInv'
BY SaverBase, FireBase, WalkBase, UnlinkBase, UncountBase, CopyBase DEF Next, Uloop

-----------------------------------------------------------------------------
(* What the client has been told.                                            *)

\* A report that is the first exactly if it says new, and that does not take a
\* finished file back, keeps the order of the reports.
LEMMA TellInOrder ==
    ASSUME NoteTypes, NEW f \in Files, NEW s \in Statuses,
           NEW as \in {"new", "list", "running", "over"}, Send(f, s, as),
           (s = "NEW") <=> (\A j \in 1 .. Len(sent) : sent[j].file # f),
           Finishes(f) # {} => s = "FINISH",
           NewFirst, FinishedStays
    PROVE  NewFirst' /\ FinishedStays'
<1> DEFINE n == Len(sent)
<1>1. /\ n \in Nat /\ Len(sent') = n + 1
      /\ \A i \in 1 .. n : sent'[i] = sent[i]
      /\ sent'[n + 1].file = f /\ sent'[n + 1].status = s
  BY SendFacts
<1>2. \A i \in 1 .. n : sent[i].file = f /\ sent[i].status = "FINISH" => s = "FINISH"
  BY DEF Finishes
<1>3. \A i \in 1 .. n + 1 : i \in 1 .. n \/ i = n + 1
  BY <1>1
<1>4. ASSUME NEW i \in 1 .. n + 1
      PROVE  (sent'[i].status = "NEW") <=> (\A j \in 1 .. i - 1 : sent'[j].file # sent'[i].file)
  <2>1. CASE i = n + 1
    <3>1. 1 .. i - 1 = 1 .. n
      BY <1>1, <2>1
    <3> QED BY <1>1, <2>1, <3>1
  <2>2. CASE i \in 1 .. n
    <3>1. \A j \in 1 .. i - 1 : j \in 1 .. n
      BY <1>1, <2>2
    <3>2. (sent[i].status = "NEW") <=> (\A j \in 1 .. i - 1 : sent[j].file # sent[i].file)
      BY <2>2 DEF NewFirst
    <3> QED BY <1>1, <2>2, <3>1, <3>2
  <2> QED BY <1>3, <2>1, <2>2
<1>5. ASSUME NEW i \in 1 .. n + 1, NEW j \in 1 .. n + 1,
             i < j, sent'[i].file = sent'[j].file, sent'[i].status = "FINISH"
      PROVE  sent'[j].status = "FINISH"
  <2>1. i \in 1 .. n
    BY <1>1, <1>5
  <2>2. CASE j = n + 1
    BY <1>1, <1>2, <1>5, <2>1, <2>2
  <2>3. CASE j \in 1 .. n
    BY <1>1, <1>5, <2>1, <2>3 DEF FinishedStays
  <2> QED BY <1>3, <2>2, <2>3
<1> HIDE DEF n
<1>6. NewFirst'
  BY <1>1, <1>4 DEF NewFirst
<1>7. FinishedStays'
  BY <1>1, <1>5 DEF FinishedStays
<1> QED BY <1>6, <1>7

\* A file that has a report keeps it; the reports of finished files are of those.
LEMMA TellOf ==
    ASSUME NoteTypes, NEW f \in Files, NEW s \in Statuses,
           NEW as \in {"new", "list", "running", "over"}, Send(f, s, as), ToldInv,
           Finished \subseteq Finished', s = "FINISH" => f \in Finished',
           fnode' \in Nat, fnode \in Nat, fnode <= fnode', f <= fnode', \A g \in 1 .. fnode' : g <= fnode \/ g = f
    PROVE  /\ \A i \in 1 .. Len(sent') :
                 sent'[i].file <= fnode' /\ (sent'[i].status = "FINISH" => sent'[i].file \in Finished')
           /\ \A g \in 1 .. fnode' : \E i \in 1 .. Len(sent') : sent'[i].file = g
<1> DEFINE n == Len(sent)
<1>1. /\ n \in Nat /\ Len(sent') = n + 1
      /\ \A i \in 1 .. n : sent'[i] = sent[i]
      /\ sent'[n + 1].file = f /\ sent'[n + 1].status = s
  BY SendFacts
<1>2. \A i \in 1 .. n : sent[i].file \in Nat
  <2>1. sent \in Seq(Report)
    BY DEF NoteTypes, TextT
  <2>2. \A i \in 1 .. n : sent[i] \in Report
    BY <2>1
  <2> QED BY <2>2 DEF Report, Files
<1>3. /\ \A i \in 1 .. n : sent[i].file <= fnode /\ (sent[i].status = "FINISH" => sent[i].file \in Finished)
      /\ \A g \in 1 .. fnode : \E i \in 1 .. n : sent[i].file = g
  BY DEF ToldInv
<1>4. \A i \in 1 .. n + 1 : i \in 1 .. n \/ i = n + 1
  BY <1>1
<1>5. ASSUME NEW i \in 1 .. n + 1
      PROVE  sent'[i].file <= fnode' /\ (sent'[i].status = "FINISH" => sent'[i].file \in Finished')
  BY <1>1, <1>2, <1>3, <1>4
<1>6. ASSUME NEW g \in 1 .. fnode' PROVE \E i \in 1 .. n + 1 : sent'[i].file = g
  <2>1. CASE g = f
    BY <1>1, <2>1
  <2>2. CASE g <= fnode
    <3>1. g \in 1 .. fnode
      BY <2>2
    <3>2. PICK i \in 1 .. n : sent[i].file = g
      BY <1>3, <3>1
    <3> QED BY <1>1, <3>2
  <2> QED BY <2>1, <2>2
<1> HIDE DEF n
<1> QED BY <1>1, <1>5, <1>6

\* The steps that report nothing.
LEMMA SilentTold ==
    ASSUME ToldInv, UNCHANGED <<sent, fnode>>, Finished \subseteq Finished',
           up' = "send" => up = "send" /\ UNCHANGED rd
    PROVE  ToldInv'
<1>1. NewFirst' /\ FinishedStays'
  BY DEF ToldInv, NewFirst, FinishedStays
<1>2. \A g : Finishes(g)' = Finishes(g)
  BY DEF Finishes
<1>3. up' = "send" /\ Finishes(rd.next)' # {} => rd.status' = "FINISH"
  BY <1>2 DEF ToldInv
<1> QED BY <1>1, <1>3 DEF ToldInv

\* The thread reports a new file, and the last one at the end.
LEMMA CreateTold ==
    ASSUME NotifyAssumption, BaseInv, ToldInv, NEW f \in Files, f = fnode + 1,
           CreateNode(f), UNCHANGED <<up, rd>>
    PROVE  ToldInv'
<1> USE NodeFacts
<1>1. status' = [status EXCEPT ![f] = "STORE"] /\ fnode' = f /\ Send(f, "NEW", "new")
  BY DEF CreateNode
<1>2. NoteTypes /\ fnode \in Nat /\ status \in [Files -> Statuses \cup {"none"}]
  BY DEF BaseInv, NoteTypes, NumberT, TextT
<1>3. status[f] = "none"
  BY <1>2 DEF BaseInv, StatusInv
<1>4. Finished \subseteq Finished'
  BY <1>1, <1>2, <1>3 DEF Finished
<1>5. "NEW" \in Statuses
  BY DEF Statuses
<1>6. \A j \in 1 .. Len(sent) : sent[j].file # f
  BY <1>2 DEF ToldInv
<1>7. Finishes(f) = {}
  BY <1>6 DEF Finishes
<1>8. NewFirst' /\ FinishedStays'
  BY <1>1, <1>2, <1>5, <1>6, <1>7, TellInOrder DEF ToldInv
<1>9. fnode' \in Nat /\ fnode <= fnode' /\ f <= fnode' /\ \A g \in 1 .. fnode' : g <= fnode \/ g = f
  BY <1>1, <1>2
<1>10. /\ \A i \in 1 .. Len(sent') :
             sent'[i].file <= fnode' /\ (sent'[i].status = "FINISH" => sent'[i].file \in Finished')
       /\ \A g \in 1 .. fnode' : \E i \in 1 .. Len(sent') : sent'[i].file = g
  BY <1>1, <1>2, <1>4, <1>5, <1>9, TellOf
<1>11. \A g : Finishes(g)' = Finishes(g)
  BY <1>1, <1>2, <1>5, FinishesSend
<1>12. up' = "send" /\ Finishes(rd.next)' # {} => rd.status' = "FINISH"
  BY <1>11 DEF ToldInv
<1> QED BY <1>4, <1>8, <1>10, <1>12 DEF ToldInv

\* The report at the end.
LEMMA OverTold ==
    ASSUME NotifyAssumption, BaseInv, ToldInv, NEW s \in {"OVER", "UN_OVER"}, Over(s)
    PROVE  ToldInv'
<1> USE NodeFacts
<1>1. /\ pc = "over" /\ status' = [status EXCEPT ![fnode] = s] /\ Send(fnode, s, "over")
      /\ UNCHANGED <<fnode, up, rd>>
  BY DEF Over, loop
<1>2. /\ NoteTypes /\ fnode \in Files /\ status[fnode] = "STORE" /\ fnode \in Nat
      /\ status \in [Files -> Statuses \cup {"none"}]
  BY <1>1 DEF BaseInv, NoteTypes, NumberT, TextT, StageInv, StatusInv, Adding
<1>3. Finished \subseteq Finished' /\ fnode \notin Finished
  BY <1>1, <1>2 DEF Finished
<1>4. s \in Statuses /\ s # "NEW" /\ s # "FINISH"
  BY DEF Statuses
<1>5. Finishes(fnode) = {}
  BY <1>3 DEF Finishes, ToldInv
<1>6. \E j \in 1 .. Len(sent) : sent[j].file = fnode
  BY <1>2 DEF ToldInv
<1>7. NewFirst' /\ FinishedStays'
  BY <1>1, <1>2, <1>4, <1>5, <1>6, TellInOrder DEF ToldInv
<1>8. /\ \A i \in 1 .. Len(sent') :
             sent'[i].file <= fnode' /\ (sent'[i].status = "FINISH" => sent'[i].file \in Finished')
      /\ \A g \in 1 .. fnode' : \E i \in 1 .. Len(sent') : sent'[i].file = g
  <2>1. fnode' = fnode /\ fnode' \in Nat /\ fnode <= fnode' /\ \A g \in 1 .. fnode' : g <= fnode \/ g = fnode
    BY <1>1, <1>2
  <2> QED BY <1>1, <1>2, <1>3, <1>4, <2>1, TellOf
<1>9. \A g : Finishes(g)' = Finishes(g)
  BY <1>1, <1>2, <1>4, FinishesSend
<1>10. up' = "send" /\ Finishes(rd.next)' # {} => rd.status' = "FINISH"
  BY <1>1, <1>9 DEF ToldInv
<1> QED BY <1>1, <1>3, <1>7, <1>8, <1>10 DEF ToldInv

\* The other steps of the thread report nothing.
LEMMA SaverTold == ASSUME NotifyAssumption, BaseInv, ToldInv, Saver PROVE ToldInv'
<1> USE NodeFacts
<1>1. CASE FirstNode
  <2>1. fnode = 0
    BY <1>1 DEF FirstNode, BaseInv, NoteTypes, NumberT, StageInv
  <2> QED BY <1>1, <2>1, CreateTold DEF FirstNode, loop
<1>2. CASE NextNode
  <2>1. fnode + 1 \in Files
    BY <1>2 DEF NextNode, BaseInv, NoteTypes, NumberT, StageInv, Adding
  <2> QED BY <1>2, <2>1, CreateTold DEF NextNode, loop
<1>3. CASE \E s \in {"OVER", "UN_OVER"} : Over(s)
  BY <1>3, OverTold
<1>4. CASE AddNode
  <2>1. fnode \in Files /\ status \in [Files -> Statuses \cup {"none"}]
    BY <1>4 DEF AddNode, BaseInv, NoteTypes, NumberT, TextT, StageInv
  <2>2. Finished \subseteq Finished'
    BY <1>4, <2>1 DEF AddNode, Finished
  <2> QED BY <1>4, <2>2, SilentTold DEF AddNode, loop
<1>5. CASE Link \/ StartTimer \/ Count \/ Leave \/ WaitTick \/ CancelTimer
  <2>1. UNCHANGED <<sent, fnode, status, up, rd>>
    BY <1>5 DEF Link, StartTimer, Count, Leave, WaitTick, CancelTimer, loop
  <2>2. Finished' = Finished
    BY <2>1 DEF Finished
  <2> QED BY <2>1, <2>2, SilentTold
<1> QED BY <1>1, <1>2, <1>3, <1>4, <1>5 DEF Saver

\* The callback reports finished files of its list, and what it has copied.
LEMMA LoopTold == ASSUME NotifyAssumption, BaseInv, ToldInv, Uloop PROVE ToldInv'
<1> USE NodeFacts
<1>1. UNCHANGED <<fnode, status>> /\ fnode \in Nat /\ fnode <= MaxFiles /\ NoteTypes
  BY DEF Uloop, Fire, FireFreed, Walk, Unlink, Uncount, Copy,
         SendCopy, Arm, BaseInv, NoteTypes, NumberT
<1>2. Finished' = Finished
  BY <1>1 DEF Finished
<1>3. ASSUME NEW f \in Files, NEW s \in {"STORE", "FINISH"}, NEW as \in {"list", "running"},
             Send(f, s, as), f <= fnode, s = "FINISH" => f \in Finished,
             Finishes(f) # {} => s = "FINISH", up' # "send"
      PROVE  ToldInv'
  <2>1. s \in Statuses /\ s # "NEW" /\ as \in {"new", "list", "running", "over"}
    BY DEF Statuses
  <2>2. \E j \in 1 .. Len(sent) : sent[j].file = f
    BY <1>1, <1>3 DEF ToldInv
  <2>3. NewFirst' /\ FinishedStays'
    <3>1. NoteTypes /\ NewFirst /\ FinishedStays
      BY <1>1 DEF ToldInv
    <3>2. (s = "NEW") <=> (\A j \in 1 .. Len(sent) : sent[j].file # f)
      BY <2>1, <2>2
    <3> QED BY <1>3, <2>1, <3>1, <3>2, TellInOrder
  <2>4. /\ fnode' \in Nat /\ fnode <= fnode' /\ f <= fnode'
        /\ \A g \in 1 .. fnode' : g <= fnode \/ g = f
    BY <1>1, <1>3
  <2>5. /\ \A i \in 1 .. Len(sent') :
              sent'[i].file <= fnode' /\ (sent'[i].status = "FINISH" => sent'[i].file \in Finished')
        /\ \A g \in 1 .. fnode' : \E i \in 1 .. Len(sent') : sent'[i].file = g
    BY <1>1, <1>2, <1>3, <2>1, <2>4, TellOf
  <2> QED BY <1>3, <2>3, <2>5 DEF ToldInv
<1>4. CASE Walk
  <2>1. CASE UNCHANGED sent /\ up' \in {"node", "freed"}
    BY <1>1, <1>2, <2>1, SilentTold
  <2>2. CASE cur \in Files \ freed /\ up' = "unlink" /\ Send(cur, status[cur], "list")
    <3>1. cur \in Finished /\ status[cur] = "FINISH"
      BY <2>2 DEF BaseInv, LinkInv, LinkEnds, Finished
    <3>2. cur <= fnode
      BY <1>1, <2>2, <3>1 DEF BaseInv, StatusInv
    <3> QED BY <1>3, <2>2, <3>1, <3>2
  <2> QED BY <1>4, <2>1, <2>2 DEF Walk
<1>5. CASE SendCopy
  <2>1. /\ Send(rd.next, rd.status, "running") /\ rd.next \in 1 .. fnode
        /\ rd.status \in {"STORE", "FINISH"} /\ up' # "send"
        /\ (Finishes(rd.next) # {} => rd.status = "FINISH")
    BY <1>5 DEF SendCopy, BaseInv, LinkInv, ToldInv
  <2>2. rd.status = "FINISH" => rd.next \in Finished
    BY <1>5 DEF SendCopy, ToldInv
  <2> QED BY <1>1, <1>3, <2>1, <2>2
<1>6. CASE Copy
  <2>1. UNCHANGED <<sent, fnode>>
    BY <1>6 DEF Copy
  <2>2. CASE up' # "send"
    BY <1>2, <2>1, <2>2, SilentTold
  <2>3. CASE up' = "send"
    <3>1. fnode \in Files /\ rd' = [rd EXCEPT !.next = fnode, !.status = status[fnode]]
      BY <1>6, <2>3 DEF Copy
    <3>2. rd'.next = fnode /\ rd'.status = status[fnode]
      BY <3>1 DEF BaseInv, NoteTypes, ListT, ReadT
    <3>3. \A g : Finishes(g)' = Finishes(g)
      BY <2>1 DEF Finishes
    <3>4. Finishes(rd.next)' = Finishes(fnode)
      BY <2>1, <3>2 DEF Finishes
    <3>5. Finishes(fnode) # {} => status[fnode] = "FINISH"
      BY DEF Finishes, ToldInv, Finished
    <3>6. NewFirst' /\ FinishedStays'
      BY <2>1 DEF ToldInv, NewFirst, FinishedStays
    <3>7. status[fnode] = "FINISH" => fnode \in Finished
      BY <3>1 DEF Finished
    <3> QED BY <1>2, <2>1, <3>2, <3>4, <3>5, <3>6, <3>7 DEF ToldInv
  <2> QED BY <2>2, <2>3
<1>7. CASE Fire \/ FireFreed \/ Unlink \/ Uncount \/ Arm
  <2>1. UNCHANGED sent /\ up' # "send"
    BY <1>7 DEF Fire, FireFreed, Unlink, Uncount, Arm
  <2> QED BY <1>1, <1>2, <2>1, SilentTold
<1> QED BY <1>4, <1>5, <1>6, <1>7 DEF Uloop

-----------------------------------------------------------------------------
(* The list, as long as no addition has met a callback.                      *)

\* What the numbers of the list are, for the steps below.
LEMMA QuietFinds ==
    ASSUME NotifyAssumption, BaseInv
    PROVE  /\ fnode \in Nat /\ fnode <= MaxFiles /\ Top \in Nat /\ Top <= fnode
           /\ num \in Nat /\ left \in Nat /\ held \in Nat
           /\ pc \notin {"start", "init"} => fnode >= 1
           /\ pc \in {"start", "init"} => fnode = 0
           /\ pc \notin {"start", "init", "count", "create"} => Top = fnode - 1
           /\ pc \in {"start", "init", "count", "create"} => Top = fnode
<1> USE NodeFacts
<1>1. fnode \in Nat /\ fnode <= MaxFiles /\ num \in Nat /\ left \in Nat /\ held \in Nat
  BY DEF BaseInv, NoteTypes, NumberT
<1>2. fnode >= 1 <=> pc \notin {"start", "init"}
  BY DEF BaseInv, StageInv
<1> QED BY <1>1, <1>2 DEF Top

\* The reports of finished files, when a step adds none.
NoneFinished == \A g : Finishes(g)' = Finishes(g) /\ (Once(g) => Once(g)')

\* A step that reports nothing.
LEMMA SilentNone == ASSUME UNCHANGED sent PROVE NoneFinished
BY DEF NoneFinished, Finishes, Once

\* A step that reports something else.
LEMMA OtherNone ==
    ASSUME NoteTypes, NEW f \in Files, NEW s \in Statuses, s # "FINISH",
           NEW as \in {"new", "list", "running", "over"}, Send(f, s, as)
    PROVE  NoneFinished
<1>1. \A g : Finishes(g)' = Finishes(g)
  BY FinishesSend
<1>2. Len(sent) \in Nat /\ Len(sent') = Len(sent) + 1
  BY SendFacts
<1>3. ASSUME NEW g, Once(g) PROVE Once(g)'
  <2>1. PICK i \in 1 .. Len(sent) : Finishes(g) = {i}
    BY <1>3 DEF Once
  <2>2. i \in 1 .. Len(sent')
    BY <1>2
  <2> QED BY <1>1, <2>1, <2>2 DEF Once
<1> QED BY <1>1, <1>3 DEF NoneFinished

\* The step keeps what has been reported of the list.
LEMMA ToldKept ==
    ASSUME NEW a \in Nat, NEW b \in Nat, ToldOf(a, b), Top' = Top, NoneFinished,
           up' = "unlink" <=> up = "unlink"
    PROVE  ToldOf(a, b)'
BY DEF ToldOf, NoneFinished

\* The step keeps the list.
LEMMA LinksKept ==
    ASSUME NEW a \in Nat, NEW b \in Nat, LinksOf(a, b), UNCHANGED <<nx, pv>>
    PROVE  LinksOf(a, b)'
BY DEF LinksOf

\* The thread goes on without touching a node.
LEMMA PlainQuiet ==
    ASSUME NotifyAssumption, BaseInv, QuietInv,
           StartTimer \/ Leave \/ WaitTick \/ CancelTimer
    PROVE  QuietInv'
<1> SUFFICES ASSUME ~overlap' PROVE QuietInv'
  BY DEF QuietInv
<1>1. /\ UNCHANGED <<fnode, status, freed, held, sent, overlap, up, cur, rd, nx, pv, num>>
      /\ \/ pc = "start" /\ pc' = "init" /\ left' = left
         \/ pc = "write" /\ pc' = "wait" /\ left' = left
         \/ pc = "wait" /\ pc' \in {"wait", "cancel"} /\ (pc' = "cancel" => num <= 0 \/ left' <= 0)
         \/ pc = "cancel" /\ pc' = "over" /\ left' = left
  <2>1. num \in Nat /\ left \in Nat
    BY QuietFinds
  <2> QED BY <2>1 DEF StartTimer, Leave, WaitTick, CancelTimer, loop, list
<1>2. ~overlap /\ up # "freed"
  BY <1>1 DEF QuietInv
<1>3. PICK a \in Nat, b \in Nat : Chain(a, b)
  BY <1>2 DEF QuietInv
<1>4. /\ 1 <= a /\ a <= b + 1 /\ b <= Top /\ LinksOf(a, b) /\ ToldOf(a, b) /\ FreedOf(a, b)
      /\ CountOf(a, b) /\ WalkOf(a, b)
  BY <1>3 DEF Chain
<1>5. Top' = Top
  BY <1>1, QuietFinds DEF Top
<1>6. LinksOf(a, b)' /\ ToldOf(a, b)'
  BY <1>1, <1>4, <1>5, SilentNone, ToldKept, LinksKept
<1>7. FreedOf(a, b)'
  BY <1>1, <1>4 DEF FreedOf
<1>8. CountOf(a, b)'
  BY <1>1, <1>4 DEF CountOf
<1>9. WalkOf(a, b)'
  <2>1. pc' \in {"cancel", "over", "done"} /\ left' > 0 => a = b + 1 /\ up \notin {"unlink", "uncount"}
    <3>1. CASE pc = "wait"
      <4>1. num \in Nat /\ left \in Nat
        BY QuietFinds
      <4>2. CASE pc' = "cancel" /\ left' > 0
        <5>1. left' \in Int
          BY <1>1, <3>1, <4>1 DEF StartTimer, Leave, WaitTick, CancelTimer
        <5>2. num = 0
          BY <1>1, <3>1, <4>1, <4>2, <5>1
        <5>3. a = b + 1 /\ up # "uncount"
          BY <1>4, <3>1, <5>2 DEF CountOf
        <5> QED BY <1>4, <5>3 DEF WalkOf
      <4> QED BY <1>1, <3>1, <4>2
    <3>2. CASE pc # "wait"
      BY <1>1, <1>4, <3>2 DEF WalkOf
    <3> QED BY <3>1, <3>2
  <2> QED BY <1>1, <1>4, <1>5, <2>1 DEF WalkOf
<1>10. Chain(a, b)'
  BY <1>4, <1>5, <1>6, <1>7, <1>8, <1>9 DEF Chain
<1> QED BY <1>1, <1>2, <1>10 DEF QuietInv, Adding

\* A file begins.
LEMMA CreateQuiet ==
    ASSUME NotifyAssumption, BaseInv, QuietInv, FirstNode \/ NextNode
    PROVE  QuietInv'
<1> USE NodeFacts
<1> SUFFICES ASSUME ~overlap' PROVE QuietInv'
  BY DEF QuietInv
<1>1. /\ UNCHANGED <<freed, held, overlap, up, cur, rd, nx, pv, num, left>>
      /\ pc \in {"init", "create"} /\ pc' = "write"
  BY DEF FirstNode, NextNode, loop, list
<1>2. fnode' = fnode + 1 /\ fnode' \in Files /\ Send(fnode + 1, "NEW", "new")
  <2>1. fnode \in Nat /\ (pc = "init" => fnode = 0) /\ (pc = "create" => fnode < MaxFiles)
    BY QuietFinds DEF BaseInv, StageInv, Adding
  <2> QED BY <1>1, <2>1 DEF FirstNode, NextNode, CreateNode
<1>3. ~overlap /\ up # "freed"
  BY <1>1 DEF QuietInv
<1>4. PICK a \in Nat, b \in Nat : Chain(a, b)
  BY <1>3 DEF QuietInv
<1>5. /\ 1 <= a /\ a <= b + 1 /\ b <= Top /\ LinksOf(a, b) /\ ToldOf(a, b) /\ FreedOf(a, b)
      /\ CountOf(a, b) /\ WalkOf(a, b)
  BY <1>4 DEF Chain
<1>6. Top' = Top
  BY <1>1, <1>2, QuietFinds DEF Top
<1>7. NoneFinished
  <2>1. NoteTypes /\ "NEW" \in Statuses
    BY DEF BaseInv, Statuses
  <2> QED BY <1>2, <2>1, OtherNone
<1>8. LinksOf(a, b)' /\ ToldOf(a, b)'
  BY <1>1, <1>5, <1>6, <1>7, ToldKept, LinksKept
<1>9. FreedOf(a, b)'
  <2>1. fnode' \notin freed
    BY <1>2, QuietFinds DEF BaseInv, StageInv
  <2> QED BY <1>1, <1>5, <2>1 DEF FreedOf
<1>10. CountOf(a, b)'
  BY <1>1, <1>5 DEF CountOf
<1>11. WalkOf(a, b)'
  BY <1>1, <1>5, <1>6 DEF WalkOf
<1>12. Chain(a, b)'
  BY <1>5, <1>6, <1>8, <1>9, <1>10, <1>11 DEF Chain
<1> QED BY <1>1, <1>3, <1>12 DEF QuietInv, Adding

\* A file is finished, counted when it is linked.
LEMMA AddQuiet ==
    ASSUME NotifyAssumption, BaseInv, QuietInv, AddNode \/ Count
    PROVE  QuietInv'
<1> SUFFICES ASSUME ~overlap' PROVE QuietInv'
  BY DEF QuietInv
<1>1. /\ UNCHANGED <<fnode, freed, sent, up, cur, rd, nx, pv, left>> /\ ~overlap
      /\ \/ pc = "write" /\ pc' = "link" /\ held' = nx[0] /\ num' = num /\ up = "idle"
         \/ pc = "count" /\ pc' = "create" /\ num' = held + 1
  <2>1. CASE AddNode
    <3>1. ~overlap /\ up = "idle"
      BY <2>1, Zenon DEF AddNode
    <3> QED BY <2>1, <3>1 DEF AddNode, loop, list
  <2>2. CASE Count
    BY <2>2 DEF Count, loop
  <2> QED BY <2>1, <2>2
<1>2. up = "idle" /\ (pc = "count" => held = num)
  BY <1>1 DEF QuietInv, Adding
<1>3. PICK a \in Nat, b \in Nat : Chain(a, b)
  BY <1>1, <1>2 DEF QuietInv
<1>4. /\ 1 <= a /\ a <= b + 1 /\ b <= Top /\ LinksOf(a, b) /\ ToldOf(a, b) /\ FreedOf(a, b)
      /\ CountOf(a, b) /\ WalkOf(a, b)
  BY <1>3 DEF Chain
<1>5. Top' = Top
  BY <1>1, QuietFinds DEF Top
<1>6. LinksOf(a, b)' /\ ToldOf(a, b)'
  BY <1>1, <1>4, <1>5, SilentNone, ToldKept, LinksKept
<1>7. FreedOf(a, b)'
  BY <1>1, <1>4 DEF FreedOf
<1>8. CountOf(a, b)'
  BY <1>1, <1>2, <1>4 DEF CountOf
<1>9. WalkOf(a, b)'
  BY <1>1, <1>2, <1>4, <1>5 DEF WalkOf
<1>10. Chain(a, b)'
  BY <1>4, <1>5, <1>6, <1>7, <1>8, <1>9 DEF Chain
<1> QED BY <1>1, <1>2, <1>10 DEF QuietInv, Adding

\* Its node is put first: the list ends with the file being written.
LEMMA LinkQuiet == ASSUME NotifyAssumption, BaseInv, QuietInv, Link PROVE QuietInv'
<1> USE NodeFacts
<1> SUFFICES ASSUME ~overlap' PROVE QuietInv'
  BY DEF QuietInv
<1>1. /\ UNCHANGED <<fnode, freed, sent, up, cur, rd, num, left, overlap>>
      /\ pc = "link" /\ pc' = "count" /\ held' = num
      /\ nx' = [nx EXCEPT ![0] = fnode, ![fnode] = held]
      /\ pv' = [pv EXCEPT ![held] = fnode, ![fnode] = 0]
  BY DEF Link, loop
<1>2. up = "idle" /\ held = nx[0] /\ ~overlap
  BY <1>1 DEF QuietInv, Adding
<1>3. PICK a \in Nat, b \in Nat : Chain(a, b)
  BY <1>1, <1>2 DEF QuietInv
<1>4. /\ 1 <= a /\ a <= b + 1 /\ b <= Top /\ LinksOf(a, b) /\ ToldOf(a, b) /\ FreedOf(a, b)
      /\ CountOf(a, b) /\ WalkOf(a, b)
  BY <1>3 DEF Chain
<1>5. /\ b = Top /\ fnode = b + 1 /\ fnode \in Nat /\ fnode >= 1 /\ Top' = b + 1
      /\ fnode \in Files /\ fnode \in Nodes
  BY <1>1, <1>2, <1>4, QuietFinds DEF WalkOf, Top
<1>6. nx \in [Nodes -> Nodes] /\ pv \in [Nodes -> Nodes]
  BY DEF BaseInv, NoteTypes, ListT
<1>7. held = (IF a <= b THEN b ELSE 0)
  BY <1>2, <1>4 DEF LinksOf
<1>8. LinksOf(a, b + 1)'
  <2>1. nx'[0] = b + 1 /\ nx'[b + 1] = held
    BY <1>1, <1>5, <1>6
  <2>2. pv'[b + 1] = 0
    BY <1>1, <1>5, <1>6
  <2>3. ASSUME NEW n \in a .. b + 1 PROVE nx'[n] = (IF n = a THEN 0 ELSE n - 1)
    <3>1. CASE n = b + 1
      BY <1>4, <1>7, <2>1, <3>1
    <3>2. CASE n # b + 1
      <4>1. n \in a .. b /\ n \in Nodes /\ n # 0 /\ n # fnode
        BY <1>4, <1>5, <3>2
      <4>2. nx'[n] = nx[n]
        BY <1>1, <1>6, <4>1
      <4> QED BY <1>4, <4>1, <4>2 DEF LinksOf
    <3> QED BY <3>1, <3>2
  <2> QED BY <1>4, <2>1, <2>2, <2>3 DEF LinksOf
<1>9. ToldOf(a, b + 1)'
  <2>1. NoneFinished
    BY <1>1, SilentNone
  <2>2. ASSUME NEW f \in Files
        PROVE  IF f < a \/ (b + 1 < f /\ f <= Top') \/ (up' = "unlink" /\ f = b + 1)
                 THEN Once(f)' ELSE Finishes(f)' = {}
    <3>1. IF f < a THEN Once(f) ELSE Finishes(f) = {}
      BY <1>2, <1>4, <1>5 DEF ToldOf
    <3>2. ~(b + 1 < f /\ f <= Top') /\ up' # "unlink"
      BY <1>1, <1>2, <1>5
    <3> QED BY <2>1, <3>1, <3>2 DEF NoneFinished
  <2> QED BY <2>2 DEF ToldOf
<1>10. FreedOf(a, b + 1)'
  <2>1. fnode \notin freed /\ \A f \in a .. b : f \notin freed
    BY <1>1, <1>4 DEF FreedOf
  <2>2. \A f \in a .. b + 1 : f \in a .. b \/ f = fnode
    BY <1>5
  <2> QED BY <1>1, <2>1, <2>2 DEF FreedOf
<1>11. CountOf(a, b + 1)'
  BY <1>1, <1>2, <1>4 DEF CountOf
<1>12. WalkOf(a, b + 1)'
  BY <1>1, <1>2, <1>5 DEF WalkOf
<1>13. Chain(a, b + 1)'
  BY <1>4, <1>5, <1>8, <1>9, <1>10, <1>11, <1>12 DEF Chain
<1> QED BY <1>1, <1>2, <1>13 DEF QuietInv, Adding

\* The last file is over.
LEMMA OverQuiet ==
    ASSUME NotifyAssumption, BaseInv, QuietInv, NEW s \in {"OVER", "UN_OVER"}, Over(s)
    PROVE  QuietInv'
<1> USE NodeFacts
<1> SUFFICES ASSUME ~overlap' PROVE QuietInv'
  BY DEF QuietInv
<1>1. /\ UNCHANGED <<fnode, held, overlap, up, cur, rd, nx, pv, num, left>>
      /\ pc = "over" /\ pc' = "done" /\ Send(fnode, s, "over") /\ freed' = freed \cup {fnode}
  BY DEF Over, loop, list
<1>2. ~overlap /\ up # "freed"
  BY <1>1 DEF QuietInv
<1>3. PICK a \in Nat, b \in Nat : Chain(a, b)
  BY <1>2 DEF QuietInv
<1>4. /\ 1 <= a /\ a <= b + 1 /\ b <= Top /\ LinksOf(a, b) /\ ToldOf(a, b) /\ FreedOf(a, b)
      /\ CountOf(a, b) /\ WalkOf(a, b)
  BY <1>3 DEF Chain
<1>5. Top' = Top /\ Top = fnode - 1 /\ fnode \in Files
  BY <1>1, QuietFinds DEF Top
<1>6. NoneFinished
  <2>1. NoteTypes /\ s \in Statuses /\ s # "FINISH"
    BY DEF BaseInv, Statuses
  <2> QED BY <1>1, <1>5, <2>1, OtherNone
<1>7. LinksOf(a, b)' /\ ToldOf(a, b)'
  BY <1>1, <1>4, <1>5, <1>6, ToldKept, LinksKept
<1>8. FreedOf(a, b)'
  <2>1. \A f \in a .. b : f # fnode
    BY <1>4, <1>5
  <2> QED BY <1>1, <1>4, <2>1 DEF FreedOf
<1>9. CountOf(a, b)'
  BY <1>1, <1>4 DEF CountOf
<1>10. WalkOf(a, b)'
  BY <1>1, <1>4, <1>5 DEF WalkOf
<1>11. Chain(a, b)'
  BY <1>4, <1>5, <1>7, <1>8, <1>9, <1>10 DEF Chain
<1> QED BY <1>1, <1>2, <1>11 DEF QuietInv, Adding

\* The steps of the thread.
LEMMA SaverQuiet == ASSUME NotifyAssumption, BaseInv, QuietInv, Saver PROVE QuietInv'
BY PlainQuiet, CreateQuiet, AddQuiet, LinkQuiet, OverQuiet DEF Saver

\* The expiry.
LEMMA FireQuiet == ASSUME NotifyAssumption, BaseInv, QuietInv, Fire PROVE QuietInv'
<1> SUFFICES ASSUME ~overlap' PROVE QuietInv'
  BY DEF QuietInv
<1>1. /\ UNCHANGED <<fnode, freed, sent, rd, nx, pv, num, pc, held, left>> /\ ~overlap /\ ~Adding
      /\ up = "idle" /\ up' = "walk" /\ cur' = nx[0]
  BY DEF Fire, saver, list
<1>2. PICK a \in Nat, b \in Nat : Chain(a, b)
  BY <1>1 DEF QuietInv
<1>3. /\ 1 <= a /\ a <= b + 1 /\ b <= Top /\ LinksOf(a, b) /\ ToldOf(a, b) /\ FreedOf(a, b)
      /\ CountOf(a, b) /\ WalkOf(a, b)
  BY <1>2 DEF Chain
<1>4. Top' = Top
  BY <1>1 DEF Top
<1>5. LinksOf(a, b)' /\ ToldOf(a, b)'
  BY <1>1, <1>3, <1>4, SilentNone, ToldKept, LinksKept
<1>6. FreedOf(a, b)' /\ CountOf(a, b)'
  BY <1>1, <1>3 DEF FreedOf, CountOf
<1>7. WalkOf(a, b)'
  BY <1>1, <1>3 DEF WalkOf
<1>8. Chain(a, b)'
  BY <1>3, <1>4, <1>5, <1>6, <1>7 DEF Chain
<1> QED BY <1>1, <1>8 DEF QuietInv, Adding

\* The end of a recording that has been reported in time.
LEMMA AllTold ==
    ASSUME NotifyAssumption, BaseInv, NEW a \in Nat, NEW b \in Nat, ToldOf(a, b),
           a = b + 1, b <= Top, up # "unlink", pc = "done"
    PROVE  \A f \in 1 .. fnode - 1 : Once(f)
<1> USE NodeFacts
<1> SUFFICES ASSUME NEW f \in 1 .. fnode - 1 PROVE Once(f)
  OBVIOUS
<1>1. fnode \in Nat /\ fnode <= MaxFiles /\ Top = fnode - 1
  BY QuietFinds
<1>2. f \in Files /\ f <= Top /\ (f < a \/ b < f)
  BY <1>1
<1> QED BY <1>2 DEF ToldOf

\* The expiry of a timer that has been given back.
LEMMA FireFreedQuiet ==
    ASSUME NotifyAssumption, BaseInv, QuietInv, FireFreed
    PROVE  QuietInv'
<1> SUFFICES ASSUME ~overlap' PROVE QuietInv'
  BY DEF QuietInv
<1>1. /\ UNCHANGED <<fnode, freed, sent, rd, nx, pv, num, pc, held, left, overlap>>
      /\ up = "idle" /\ up' = "freed" /\ pc = "done"
  BY DEF FireFreed, saver, list
<1>2. ~overlap
  BY <1>1
<1>3. PICK a \in Nat, b \in Nat : Chain(a, b)
  BY <1>1, <1>2 DEF QuietInv
<1>4. left > 0 => \A f \in 1 .. fnode - 1 : Once(f)
  <2> HAVE left > 0
  <2>1. a = b + 1 /\ b <= Top /\ ToldOf(a, b)
    BY <1>1, <1>3 DEF Chain, WalkOf
  <2> QED BY <1>1, <2>1, AllTold
<1>5. NoneFinished
  BY <1>1, SilentNone
<1> QED BY <1>1, <1>4, <1>5 DEF QuietInv, Adding, NoneFinished

\* The walk: a node is reported, or the list is empty.
LEMMA WalkQuiet == ASSUME NotifyAssumption, BaseInv, QuietInv, Walk PROVE QuietInv'
<1> USE NodeFacts
<1> SUFFICES ASSUME ~overlap' PROVE QuietInv'
  BY DEF QuietInv
<1>1. /\ UNCHANGED <<fnode, status, freed, cur, nx, pv, num, pc, held, left, overlap>> /\ up = "walk"
  BY DEF Walk, saver, list
<1>2. ~overlap /\ ~Adding
  BY <1>1 DEF QuietInv
<1>3. PICK a \in Nat, b \in Nat : Chain(a, b)
  BY <1>1, <1>2 DEF QuietInv
<1>4. /\ 1 <= a /\ a <= b + 1 /\ b <= Top /\ LinksOf(a, b) /\ ToldOf(a, b) /\ FreedOf(a, b)
      /\ CountOf(a, b) /\ WalkOf(a, b)
  BY <1>3 DEF Chain
<1>5. Top' = Top /\ Top \in Nat /\ Top <= MaxFiles /\ ~Adding'
  BY <1>1, <1>2, QuietFinds DEF Top, Adding
<1>6. cur = (IF a <= b THEN b ELSE 0)
  BY <1>1, <1>4 DEF WalkOf, LinksOf
<1>7. CASE cur = 0 /\ up' = "node" /\ UNCHANGED <<rd, sent>>
  <2>1. a = b + 1 /\ nx[0] = 0
    BY <1>4, <1>6, <1>7 DEF LinksOf
  <2>2. NoneFinished
    BY <1>7, SilentNone
  <2>3. LinksOf(Top + 1, Top)'
    BY <1>1, <1>5, <2>1 DEF LinksOf
  <2>4. ToldOf(Top + 1, Top)'
    <3>1. ASSUME NEW f \in Files
          PROVE  IF f < Top + 1 \/ (Top < f /\ f <= Top') \/ (up' = "unlink" /\ f = Top)
                   THEN Once(f)' ELSE Finishes(f)' = {}
      <4>1. CASE f <= Top
        <5>1. Once(f)
          BY <1>4, <1>5, <2>1, <4>1 DEF ToldOf
        <5> QED BY <1>5, <2>2, <4>1, <5>1 DEF NoneFinished
      <4>2. CASE ~(f <= Top)
        <5>1. Finishes(f) = {}
          <6>1. ~(f < a) /\ ~(b < f /\ f <= Top) /\ up # "unlink"
            BY <1>1, <1>4, <1>5, <2>1, <4>2
          <6> QED BY <1>4, <6>1 DEF ToldOf
        <5>2. ~(f < Top + 1) /\ ~(Top < f /\ f <= Top') /\ up' # "unlink"
          BY <1>5, <1>7, <4>2
        <5> QED BY <2>2, <5>1, <5>2 DEF NoneFinished
      <4> QED BY <4>1, <4>2
    <3> QED BY <1>5, <3>1 DEF ToldOf
  <2>5. FreedOf(Top + 1, Top)'
    <3>1. \A f \in Top + 1 .. Top : FALSE
      BY <1>5
    <3> QED BY <1>1, <1>4, <3>1, <1>5 DEF FreedOf
  <2>6. CountOf(Top + 1, Top)'
    BY <1>1, <1>4, <1>5, <1>7, <2>1 DEF CountOf
  <2>7. WalkOf(Top + 1, Top)'
    BY <1>5, <1>7 DEF WalkOf
  <2>8. Chain(Top + 1, Top)'
    BY <1>5, <2>3, <2>4, <2>5, <2>6, <2>7 DEF Chain
  <2>9. \E c, d \in Nat : Chain(c, d)'
    BY <1>5, <2>8
  <2> QED BY <1>1, <1>2, <1>5, <1>7, <2>9 DEF QuietInv, Adding
<1>8. CASE cur \in freed
  <2>1. cur # 0
    BY <1>8 DEF BaseInv, NoteTypes, ListT
  <2>2. cur \in a .. b
    BY <1>4, <1>6, <2>1
  <2> QED BY <1>4, <1>8, <2>2 DEF FreedOf
<1>9. CASE /\ cur \in Files \ freed /\ up' = "unlink"
           /\ Send(cur, status[cur], "list")
           /\ rd' = [rd EXCEPT !.next = nx[cur], !.prev = pv[cur]]
  <2>1. a <= b /\ cur = b
    BY <1>6, <1>9
  <2>2. status[b] = "FINISH" /\ NoteTypes /\ "FINISH" \in Statuses
    BY <1>9, <2>1 DEF BaseInv, LinkInv, LinkEnds, Finished, Statuses
  <2>3. rd'.next = nx[b] /\ rd'.prev = 0
    BY <1>4, <1>9, <2>1 DEF BaseInv, NoteTypes, ListT, ReadT, LinksOf
  <2>4. LinksOf(a, b)'
    BY <1>1, <1>4, LinksKept
  <2>5. ToldOf(a, b)'
    <3>1. /\ Len(sent) \in Nat /\ Len(sent') = Len(sent) + 1
          /\ \A g : Finishes(g)' = (IF b = g THEN Finishes(g) \cup {Len(sent) + 1} ELSE Finishes(g))
      BY <1>9, <2>1, <2>2, SendFacts, FinishesSend
    <3>2. Finishes(b) = {}
      BY <1>1, <1>4, <1>9, <2>1 DEF ToldOf
    <3>3. Once(b)'
      <4>1. Finishes(b)' = {Len(sent) + 1} /\ Len(sent) + 1 \in 1 .. Len(sent')
        BY <3>1, <3>2
      <4> QED BY <4>1 DEF Once
    <3>4. ASSUME NEW g, g # b, Once(g) PROVE Once(g)'
      <4>1. PICK i \in 1 .. Len(sent) : Finishes(g) = {i}
        BY <3>4 DEF Once
      <4>2. Finishes(g)' = {i} /\ i \in 1 .. Len(sent')
        BY <3>1, <3>4, <4>1
      <4> QED BY <4>2 DEF Once
    <3>5. ASSUME NEW f \in Files
          PROVE  IF f < a \/ (b < f /\ f <= Top') \/ (up' = "unlink" /\ f = b)
                   THEN Once(f)' ELSE Finishes(f)' = {}
      <4>1. CASE f = b
        BY <1>9, <3>3, <4>1
      <4>2. CASE f # b
        <5>1. IF f < a \/ (b < f /\ f <= Top) THEN Once(f) ELSE Finishes(f) = {}
          BY <1>1, <1>4 DEF ToldOf
        <5>2. Finishes(f)' = Finishes(f)
          BY <3>1, <4>2
        <5> QED BY <1>5, <3>4, <4>2, <5>1, <5>2
      <4> QED BY <4>1, <4>2
    <3> QED BY <3>5 DEF ToldOf
  <2>6. FreedOf(a, b)' /\ CountOf(a, b)'
    BY <1>1, <1>4, <1>9 DEF FreedOf, CountOf
  <2>7. WalkOf(a, b)'
    <3>1. ~(pc \in {"cancel", "over", "done"} /\ left > 0)
      BY <1>4, <2>1 DEF WalkOf
    <3> QED BY <1>1, <1>9, <2>1, <2>3, <3>1 DEF WalkOf
  <2>8. Chain(a, b)'
    BY <1>4, <1>5, <2>4, <2>5, <2>6, <2>7 DEF Chain
  <2> QED BY <1>1, <1>5, <1>9, <2>8 DEF QuietInv, Adding
<1> QED BY <1>7, <1>8, <1>9 DEF Walk

\* The node reported is the first of the list: without it the list is one shorter.
LEMMA UnlinkQuiet == ASSUME NotifyAssumption, BaseInv, QuietInv, Unlink PROVE QuietInv'
<1> USE NodeFacts
<1> SUFFICES ASSUME ~overlap' PROVE QuietInv'
  BY DEF QuietInv
<1>1. /\ UNCHANGED <<fnode, freed, cur, sent, num, pc, held, left, overlap>>
      /\ up = "unlink" /\ up' = "uncount"
      /\ nx' = [nx EXCEPT ![rd.prev] = rd.next]
      /\ pv' = [pv EXCEPT ![rd.next] = rd.prev]
      /\ rd' = [rd EXCEPT !.num = num]
  BY DEF Unlink, saver
<1>2. ~overlap /\ ~Adding /\ ~Adding'
  BY <1>1 DEF QuietInv, Adding
<1>3. PICK a \in Nat, b \in Nat : Chain(a, b)
  BY <1>1, <1>2 DEF QuietInv
<1>4. /\ 1 <= a /\ a <= b + 1 /\ b <= Top /\ LinksOf(a, b) /\ ToldOf(a, b) /\ FreedOf(a, b)
      /\ CountOf(a, b) /\ WalkOf(a, b)
  BY <1>3 DEF Chain
<1>5. Top' = Top /\ Top \in Nat /\ Top <= MaxFiles /\ pc # "count"
  BY <1>1, <1>2, QuietFinds DEF Top, Adding
<1>6. /\ a <= b /\ cur = b /\ rd.next = nx[b] /\ rd.prev = 0
      /\ ~(pc \in {"cancel", "over", "done"} /\ left > 0)
  BY <1>1, <1>4 DEF WalkOf
<1>7. /\ nx \in [Nodes -> Nodes] /\ pv \in [Nodes -> Nodes]
      /\ rd'.next = rd.next /\ rd'.num = num
  BY <1>1 DEF BaseInv, NoteTypes, ListT, ReadT
<1>8. nx[b] = (IF b = a THEN 0 ELSE b - 1) /\ b - 1 \in Nat /\ b \in Nodes /\ b - 1 \in Nodes
  BY <1>4, <1>5, <1>6 DEF LinksOf
<1>9. LinksOf(a, b - 1)'
  <2>1. nx'[0] = nx[b]
    BY <1>1, <1>6, <1>7
  <2>2. ASSUME NEW n \in a .. b - 1 PROVE nx'[n] = (IF n = a THEN 0 ELSE n - 1)
    <3>1. n \in a .. b /\ n \in Nodes /\ n # 0
      BY <1>4, <1>5, <1>8
    <3>2. nx'[n] = nx[n]
      BY <1>1, <1>6, <1>7, <3>1
    <3> QED BY <1>4, <3>1, <3>2 DEF LinksOf
  <2>3. a <= b - 1 => pv'[b - 1] = 0
    BY <1>1, <1>6, <1>7, <1>8
  <2> QED BY <1>4, <1>6, <1>8, <2>1, <2>2, <2>3 DEF LinksOf
<1>10. ToldOf(a, b - 1)'
  <2>1. NoneFinished
    BY <1>1, SilentNone
  <2>2. ASSUME NEW f \in Files
        PROVE  IF f < a \/ (b - 1 < f /\ f <= Top') \/ (up' = "unlink" /\ f = b - 1)
                 THEN Once(f)' ELSE Finishes(f)' = {}
    <3>1. IF f < a \/ (b < f /\ f <= Top) \/ f = b THEN Once(f) ELSE Finishes(f) = {}
      BY <1>1, <1>4 DEF ToldOf
    <3>2. (b - 1 < f /\ f <= Top') <=> ((b < f /\ f <= Top) \/ f = b)
      BY <1>4, <1>5
    <3> QED BY <1>1, <2>1, <3>1, <3>2 DEF NoneFinished
  <2> QED BY <2>2 DEF ToldOf
<1>11. FreedOf(a, b - 1)'
  <2>1. \A f \in a .. b - 1 : f \in a .. b
    OBVIOUS
  <2> QED BY <1>1, <1>4, <2>1 DEF FreedOf
<1>12. CountOf(a, b - 1)'
  BY <1>1, <1>4, <1>5 DEF CountOf
<1>13. WalkOf(a, b - 1)'
  <2>1. rd'.next = nx'[0]
    BY <1>1, <1>6, <1>7
  <2> QED BY <1>1, <1>6, <1>7, <2>1 DEF WalkOf
<1>14. Chain(a, b - 1)'
  BY <1>4, <1>5, <1>6, <1>9, <1>10, <1>11, <1>12, <1>13 DEF Chain
<1>15. \E c, d \in Nat : Chain(c, d)'
  BY <1>8, <1>14
<1> QED BY <1>1, <1>2, <1>15 DEF QuietInv, Adding

\* The node taken out is not counted any more, and freed.
LEMMA UncountQuiet == ASSUME NotifyAssumption, BaseInv, QuietInv, Uncount PROVE QuietInv'
<1> USE NodeFacts
<1> SUFFICES ASSUME ~overlap' PROVE QuietInv'
  BY DEF QuietInv
<1>1. /\ UNCHANGED <<fnode, sent, nx, pv, rd, pc, held, left, overlap>>
      /\ up = "uncount" /\ up' = "walk" /\ cur' = rd.next /\ freed' = freed \cup {cur}
      /\ num' = IF rd.num > 0 THEN rd.num - 1 ELSE num
  BY DEF Uncount, saver
<1>2. ~overlap /\ ~Adding /\ ~Adding'
  BY <1>1 DEF QuietInv, Adding
<1>3. PICK a \in Nat, b \in Nat : Chain(a, b)
  BY <1>1, <1>2 DEF QuietInv
<1>4. /\ 1 <= a /\ a <= b + 1 /\ b <= Top /\ LinksOf(a, b) /\ ToldOf(a, b) /\ FreedOf(a, b)
      /\ CountOf(a, b) /\ WalkOf(a, b)
  BY <1>3 DEF Chain
<1>5. Top' = Top /\ pc # "count"
  BY <1>1, <1>2 DEF Top, Adding
<1>6. cur = b + 1 /\ rd.next = nx[0] /\ rd.num = num
      /\ ~(pc \in {"cancel", "over", "done"} /\ left > 0)
  BY <1>1, <1>4 DEF WalkOf
<1>7. LinksOf(a, b)' /\ ToldOf(a, b)'
  BY <1>1, <1>4, <1>5, SilentNone, ToldKept, LinksKept
<1>8. FreedOf(a, b)'
  <2>1. \A f \in a .. b : f # cur
    BY <1>6
  <2>2. pc # "done" => fnode # cur
    <3>1. cur # 0 /\ status[cur] = "FINISH"
      BY <1>1 DEF BaseInv, LinkInv, LinkEnds, Finished
    <3>2. CASE pc \in {"start", "init"}
      BY <3>1, <3>2, QuietFinds
    <3>3. CASE pc \notin {"start", "init"}
      BY <1>2, <3>1, <3>3 DEF BaseInv, StatusInv
    <3> QED BY <3>2, <3>3
  <2> QED BY <1>1, <1>4, <2>1, <2>2 DEF FreedOf
<1>9. CountOf(a, b)'
  <2>1. num = (b - a + 1) + 1
    BY <1>1, <1>4, <1>5 DEF CountOf
  <2> QED BY <1>1, <1>4, <1>5, <1>6, <2>1 DEF CountOf
<1>10. WalkOf(a, b)'
  BY <1>1, <1>6 DEF WalkOf
<1>11. Chain(a, b)'
  BY <1>4, <1>5, <1>7, <1>8, <1>9, <1>10 DEF Chain
<1> QED BY <1>1, <1>2, <1>11 DEF QuietInv, Adding

\* The file being written is copied: it is not finished then.
LEMMA CopyQuiet == ASSUME NotifyAssumption, BaseInv, QuietInv, Copy PROVE QuietInv'
<1> USE NodeFacts
<1> SUFFICES ASSUME ~overlap' PROVE QuietInv'
  BY DEF QuietInv
<1>1. /\ UNCHANGED <<fnode, status, freed, sent, cur, nx, pv, num, pc, held, left, overlap>>
      /\ up = "node" /\ up' \in {"arm", "freed", "send"}
      /\ (up' = "freed" => fnode \in freed)
      /\ (up' = "send" => fnode \in Files /\ rd' = [rd EXCEPT !.next = fnode, !.status = status[fnode]])
  BY DEF Copy, saver, list
<1>2. ~overlap /\ ~Adding /\ ~Adding'
  BY <1>1 DEF QuietInv, Adding
<1>3. PICK a \in Nat, b \in Nat : Chain(a, b)
  BY <1>1, <1>2 DEF QuietInv
<1>4. /\ 1 <= a /\ a <= b + 1 /\ b <= Top /\ LinksOf(a, b) /\ ToldOf(a, b) /\ FreedOf(a, b)
      /\ CountOf(a, b) /\ WalkOf(a, b)
  BY <1>3 DEF Chain
<1>5. Top' = Top /\ b = Top /\ a = b + 1
  BY <1>1, <1>4 DEF Top, WalkOf
<1>6. NoneFinished
  BY <1>1, SilentNone
<1>7. CASE up' = "freed"
  <2>1. pc = "done"
    BY <1>1, <1>4, <1>7 DEF FreedOf
  <2>2. \A f \in 1 .. fnode - 1 : Once(f)
    BY <1>1, <1>4, <1>5, <2>1, AllTold
  <2> QED BY <1>1, <1>2, <1>6, <1>7, <2>1, <2>2 DEF QuietInv, NoneFinished, Adding
<1>8. CASE up' # "freed"
  <2>1. up' = "send" => rd'.status # "FINISH"
    <3> HAVE up' = "send"
    <3>1. rd'.status = status[fnode]
      BY <1>1 DEF BaseInv, NoteTypes, ListT, ReadT
    <3>2. pc \notin {"start", "init"}
      BY <1>1, QuietFinds
    <3> QED BY <1>2, <3>1, <3>2 DEF BaseInv, StatusInv
  <2>2. LinksOf(a, b)' /\ ToldOf(a, b)'
    BY <1>1, <1>4, <1>5, <1>6, ToldKept, LinksKept
  <2>3. FreedOf(a, b)' /\ CountOf(a, b)'
    BY <1>1, <1>4 DEF FreedOf, CountOf
  <2>4. WalkOf(a, b)'
    BY <1>1, <1>5, <1>8 DEF WalkOf
  <2>5. Chain(a, b)'
    BY <1>4, <1>5, <2>2, <2>3, <2>4 DEF Chain
  <2> QED BY <1>1, <1>2, <1>8, <2>1, <2>5 DEF QuietInv, Adding
<1> QED BY <1>7, <1>8

\* The copy is sent, the timer set again.
LEMMA ArmQuiet ==
    ASSUME NotifyAssumption, BaseInv, QuietInv, SendCopy \/ Arm
    PROVE  QuietInv'
<1> USE NodeFacts
<1> SUFFICES ASSUME ~overlap' PROVE QuietInv'
  BY DEF QuietInv
<1>1. /\ UNCHANGED <<fnode, freed, cur, rd, nx, pv, num, pc, held, left, overlap>>
      /\ \/ up = "send" /\ up' = "arm" /\ Send(rd.next, rd.status, "running")
         \/ up = "arm" /\ up' = "idle" /\ UNCHANGED sent
  BY DEF SendCopy, Arm, saver, list
<1>2. ~overlap /\ ~Adding /\ ~Adding' /\ (up = "send" => rd.status # "FINISH")
  BY <1>1 DEF QuietInv, Adding
<1>3. PICK a \in Nat, b \in Nat : Chain(a, b)
  BY <1>1, <1>2 DEF QuietInv
<1>4. /\ 1 <= a /\ a <= b + 1 /\ b <= Top /\ LinksOf(a, b) /\ ToldOf(a, b) /\ FreedOf(a, b)
      /\ CountOf(a, b) /\ WalkOf(a, b)
  BY <1>3 DEF Chain
<1>5. Top' = Top
  BY <1>1 DEF Top
<1>6. NoneFinished
  <2>1. CASE up = "send"
    <3>1. fnode \in Nat /\ fnode <= MaxFiles /\ rd.next \in 1 .. fnode /\ rd.status \in {"STORE", "FINISH"}
      BY <2>1, QuietFinds DEF BaseInv, LinkInv
    <3>2. NoteTypes /\ rd.next \in Files /\ rd.status \in Statuses
      BY <3>1 DEF BaseInv, Statuses
    <3> QED BY <1>1, <1>2, <2>1, <3>2, OtherNone
  <2> QED BY <1>1, <2>1, SilentNone
<1>7. LinksOf(a, b)' /\ ToldOf(a, b)'
  BY <1>1, <1>4, <1>5, <1>6, ToldKept, LinksKept
<1>8. FreedOf(a, b)' /\ CountOf(a, b)'
  BY <1>1, <1>4 DEF FreedOf, CountOf
<1>9. WalkOf(a, b)'
  BY <1>1, <1>4, <1>5 DEF WalkOf
<1>10. Chain(a, b)'
  BY <1>4, <1>5, <1>7, <1>8, <1>9 DEF Chain
<1> QED BY <1>1, <1>2, <1>10 DEF QuietInv, Adding

\* Every step keeps the list in order.
LEMMA StepQuiet == ASSUME NotifyAssumption, BaseInv, QuietInv, Next PROVE QuietInv'
BY SaverQuiet, FireQuiet, FireFreedQuiet, WalkQuiet, UnlinkQuiet, UncountQuiet, CopyQuiet, ArmQuiet
   DEF Next, Uloop

-----------------------------------------------------------------------------
\* The invariant is kept by every step.
LEMMA NoteStep == ASSUME NotifyAssumption, NoteInv, [Next]_vars PROVE NoteInv'
<1>1. CASE Next
  <2>1. BaseInv /\ ToldInv /\ QuietInv
    BY DEF NoteInv, BaseInv
  <2>2. BaseInv' /\ ToldInv' /\ QuietInv'
    BY <1>1, <2>1, StepBase, SaverTold, LoopTold, StepQuiet DEF Next
  <2> QED BY <2>2 DEF NoteInv, BaseInv
<1>2. CASE UNCHANGED vars
  <2>1. UNCHANGED <<pc, fnode, status, freed, nx, pv, num, held, left, timer, up,
                    cur, rd, fires, sent, overlap>>
    BY <1>2 DEF vars
  <2>2. NoteTypes' /\ StageInv' /\ StatusInv' /\ LinkInv'
    BY <2>1 DEF NoteInv, NoteTypes, PlaceT, NumberT, ListT, TextT, StageInv, StatusInv, LinkInv,
                Adding, CountCap, LinkEnds, Finished
  <2>3. ToldInv'
    BY <2>1, SilentTold DEF NoteInv, Finished
  <2>4. QuietInv'
    <3>1. NoneFinished /\ Top' = Top
      BY <2>1, SilentNone DEF Top
    <3>2. \A a, b \in Nat : Chain(a, b) => Chain(a, b)'
      BY <2>1, <3>1, ToldKept, LinksKept DEF Chain, FreedOf, CountOf, WalkOf
    <3> QED BY <2>1, <3>1, <3>2 DEF NoteInv, QuietInv, Adding, NoneFinished
  <2> QED BY <2>2, <2>3, <2>4 DEF NoteInv
<1> QED BY <1>1, <1>2

\* What the invariant says of the reports.
LEMMA NoteMeans == ASSUME NotifyAssumption, NoteInv PROVE NotifySound
<1> USE NodeFacts
<1>1. PlaceT /\ NumberT /\ ListT /\ TextT /\ BaseInv
  BY DEF NoteInv, NoteTypes, BaseInv
<1>2. TypeOK
  <2>1. num \in 0 .. MaxFiles
    BY <1>1 DEF BaseInv, StageInv, CountCap, NumberT
  <2>2. \A i \in 1 .. Len(sent) : sent[i].file \in Files /\ sent[i].status \in Statuses
    <3>1. \A i \in 1 .. Len(sent) : sent[i] \in Report
      BY <1>1 DEF TextT
    <3> QED BY <3>1 DEF Report
  <2> QED BY <1>1, <2>1, <2>2 DEF PlaceT, NumberT, ListT, TextT, TypeOK
<1>3. QuietRecording
  <2> SUFFICES ASSUME ~overlap, pc = "done", left > 0, NEW f \in 1 .. (fnode - 1)
               PROVE  Once(f)
    BY DEF QuietRecording, Once
  <2>1. CASE up = "freed"
    BY <2>1 DEF NoteInv, QuietInv
  <2>2. CASE up # "freed"
    <3>1. PICK a \in Nat, b \in Nat : Chain(a, b)
      BY <2>2 DEF NoteInv, QuietInv
    <3>2. a = b + 1 /\ b <= Top /\ ToldOf(a, b) /\ up # "unlink"
      BY <3>1 DEF Chain, WalkOf
    <3> QED BY <1>1, <3>2, AllTold
  <2> QED BY <2>1, <2>2
<1> QED BY <1>2, <1>3 DEF NoteInv, ToldInv, NotifySound

\* What the client hears of the files of a recording is their story in order, however
\* the thread that saves and the timer meet; and if they do not meet, a recording that
\* ends in time has reported each finished file once (fs_notifier.c).
THEOREM ReportsStaySound == Spec => []NotifySound
<1>1. Init => NoteInv
  BY MCFilesAssumption, NoteInit
<1>2. NoteInv /\ [Next]_vars => NoteInv'
  BY MCFilesAssumption, NoteStep
<1>3. NoteInv => NotifySound
  BY MCFilesAssumption, NoteMeans
<1> QED BY <1>1, <1>2, <1>3, PTL DEF Spec
-----------------------------------------------------------------------------
(* The status, which MCFiles puts beside the reports.                        *)

\* A step of the sum is for the status one of its own steps, or none.
LEMMA StatusPart == ASSUME [MCNext]_mcVars PROVE [Status!Next]_(Status!vars)
<1>1. Status!Next \/ UNCHANGED StatusVars
  BY DEF MCNext, mcVars
<1> QED BY <1>1 DEF StatusVars, Status!vars
-----------------------------------------------------------------------------
(* DeviceStatus: the watcher, uloop and a reader share the status and the      *)
(* counters without a lock.                                                  *)

\* The bytes routed are part of the bytes read and of the block being
\* dispatched, which fit into what is ever read (_ns_uplink_add_route_bytes
\* comes before ns_uplink_add_read_bytes).
RoutedIsRead == sUp.route <= sUp.read + sBlock.len /\ sUp.read + sBlock.len <= MaxBytes

\* Nothing is loaded while the boot check runs, and a watcher that is about to
\* set the status has seen one it may clear, unless uloop has set it since.
WatcherMayClear ==
    /\ sPc = "boot" => ~sLoad /\ sVerdict = "none"
    /\ (sPc = "set" /\ sExcuse = {}) => sVerdict \notin Status!Errors

StatInv == Status!StatusSound /\ RoutedIsRead /\ WatcherMayClear

\* A quotient times its divisor is no more than the dividend (_get_uplink_speed).
LEMMA QuotientFits ==
    ASSUME NEW a \in Nat, NEW s \in Nat \ {0}
    PROVE  (a \div s) \in 0 .. a /\ (a \div s) * s <= a
<1>1. a \div s \in Nat /\ s * (a \div s) <= a
  BY SMTT(30)
<1>2. PICK q \in Nat : q = a \div s
  BY <1>1
<1>3. s * q = q * s /\ q <= s * q
  BY <1>2, SMTT(30)
<1> QED BY <1>1, <1>2, <1>3

\* The first state is sound.
LEMMA StatInit ==
    ASSUME Status!StatusAssumption, Status!Init
    PROVE  StatInv
<1>1. Status!TypeOK
  <2>1. /\ 0 \in 0 .. MaxBytes /\ 0 \in 0 .. MaxTry + 1 /\ 0 \in 0 .. BootRounds /\ 0 \in 0 .. MaxLoad
        /\ 1 \in 1 .. 3
    BY DEF Status!StatusAssumption
  <2> QED BY <2>1, Zenon DEF Status!Init, Status!TypeOK, Status!NoBlock, Status!Codes
<1>2. Status!ErrorKept /\ WatcherMayClear
  BY DEF Status!Init, Status!ErrorKept, WatcherMayClear, Status!Errors
<1>3. Status!SpeedSound /\ RoutedIsRead
  BY DEF Status!StatusAssumption, Status!Init, Status!SpeedSound, RoutedIsRead, Status!NoBlock
<1> QED BY <1>1, <1>2, <1>3 DEF StatInv, Status!StatusSound

\* A round without an answer leaves the count and the status with their types.
LEMMA NoAnswerTyped ==
    ASSUME Status!StatusAssumption, Status!TypeOK, Status!NoAnswer
    PROVE  /\ sTries' \in 0 .. MaxTry + 1 /\ sCode' \in Status!Codes /\ sExcuse' \subseteq {"race", "no_card"}
<1>1. sTries \in 0 .. MaxTry + 1 /\ sCode \in Status!Codes /\ sExcuse \subseteq {"race", "no_card"}
  BY DEF Status!TypeOK
<1>2. sTries' \in 0 .. MaxTry + 1
  BY <1>1 DEF Status!NoAnswer, Status!StatusAssumption
<1>3. sCode' \in Status!Codes /\ sExcuse' \subseteq {"race", "no_card"}
  BY <1>1, Zenon DEF Status!NoAnswer, Status!Codes
<1> QED BY <1>2, <1>3

\* The checker's comparisons and assignments keep it: it overwrites no error
\* that was there when it began to compare (_check_fpga_status).
LEMMA StatChecker ==
    ASSUME Status!StatusAssumption, StatInv, Status!Checker
    PROVE  StatInv'
<1> USE DEF StatInv, Status!StatusSound, Status!loading, Status!uplink
<1>1. Status!TypeOK /\ Status!ErrorKept /\ Status!SpeedSound /\ RoutedIsRead /\ WatcherMayClear
  OBVIOUS
<1>2. CASE Status!BootOk
  <2>1. Status!TypeOK'
    BY <1>1, <1>2 DEF Status!StatusAssumption, Status!TypeOK, Status!BootOk, Status!Codes
  <2>2. Status!ErrorKept' /\ WatcherMayClear'
    BY <1>1, <1>2 DEF Status!BootOk, Status!ErrorKept, WatcherMayClear, Status!Errors
  <2>3. Status!SpeedSound' /\ RoutedIsRead'
    BY <1>1, <1>2 DEF Status!BootOk, Status!SpeedSound, RoutedIsRead
  <2> QED BY <2>1, <2>2, <2>3
<1>3. CASE Status!BootRetry
  <2>1. Status!TypeOK'
    <3>1. /\ sTries' \in 0 .. MaxTry + 1 /\ sCode' \in Status!Codes /\ sExcuse' \subseteq {"race", "no_card"}
      BY <1>1, <1>3, NoAnswerTyped DEF Status!BootRetry
    <3>2. sRounds' \in 0 .. BootRounds
      BY <1>1, <1>3 DEF Status!TypeOK, Status!BootRetry, Status!StatusAssumption
    <3> QED BY <1>1, <1>3, <3>1, <3>2 DEF Status!TypeOK, Status!BootRetry
  <2>2. Status!ErrorKept' /\ WatcherMayClear'
    BY <1>1, <1>3 DEF Status!BootRetry, Status!NoAnswer, Status!ErrorKept, WatcherMayClear, Status!Errors
  <2>3. Status!SpeedSound' /\ RoutedIsRead'
    BY <1>1, <1>3 DEF Status!BootRetry, Status!SpeedSound, RoutedIsRead
  <2> QED BY <2>1, <2>2, <2>3
<1>4. CASE Status!BootFailed
  <2>1. Status!TypeOK'
    BY <1>1, <1>4 DEF Status!StatusAssumption, Status!TypeOK, Status!BootFailed, Status!Codes
  <2>2. Status!ErrorKept' /\ WatcherMayClear'
    BY <1>1, <1>4 DEF Status!BootFailed, Status!ErrorKept, WatcherMayClear, Status!Errors
  <2>3. Status!SpeedSound' /\ RoutedIsRead'
    BY <1>1, <1>4 DEF Status!BootFailed, Status!SpeedSound, RoutedIsRead
  <2> QED BY <2>1, <2>2, <2>3
<1>5. CASE Status!Look
  <2>1. Status!TypeOK'
    <3>1. /\ sTries' \in 0 .. MaxTry + 1 /\ sCode' \in Status!Codes /\ sExcuse' \subseteq {"race", "no_card"}
      BY <1>1, <1>5, NoAnswerTyped DEF Status!Look, Status!TypeOK
    <3> QED BY <1>1, <1>5, <3>1 DEF Status!TypeOK, Status!Look
  <2>2. Status!ErrorKept' /\ WatcherMayClear'
    BY <1>1, <1>5 DEF Status!Look, Status!NoAnswer, Status!ErrorKept, WatcherMayClear, Status!Errors
  <2>3. Status!SpeedSound' /\ RoutedIsRead'
    BY <1>1, <1>5 DEF Status!Look, Status!SpeedSound, RoutedIsRead
  <2> QED BY <2>1, <2>2, <2>3
<1>6. CASE Status!Compare
  <2>0. sCmp \in 1 .. 3 /\ Status!Cleared[sCmp] \in {"check_card", "load_ok", "no_card"}
    BY <1>1 DEF Status!TypeOK, Status!Cleared
  <2>1. Status!TypeOK'
    BY <1>1, <1>6, <2>0 DEF Status!StatusAssumption, Status!TypeOK, Status!Compare
  <2>2. Status!ErrorKept' /\ WatcherMayClear'
    BY <1>1, <1>6, <2>0 DEF Status!Compare, Status!ErrorKept, WatcherMayClear, Status!Errors
  <2>3. Status!SpeedSound' /\ RoutedIsRead'
    BY <1>1, <1>6 DEF Status!Compare, Status!SpeedSound, RoutedIsRead
  <2> QED BY <2>1, <2>2, <2>3
<1>7. CASE Status!SetOk
  <2>1. Status!TypeOK'
    BY <1>1, <1>7 DEF Status!StatusAssumption, Status!TypeOK, Status!SetOk, Status!Codes
  <2>2. Status!ErrorKept' /\ WatcherMayClear'
    BY <1>1, <1>7 DEF Status!SetOk, Status!ErrorKept, WatcherMayClear, Status!Errors
  <2>3. Status!SpeedSound' /\ RoutedIsRead'
    BY <1>1, <1>7 DEF Status!SetOk, Status!SpeedSound, RoutedIsRead
  <2> QED BY <2>1, <2>2, <2>3
<1>8. CASE Status!Wake
  <2> DEFINE s == IF sUp.route > sOld THEN (sUp.route - sOld) \div Seconds ELSE 0
  <2>0. /\ sUp \in [read : 0 .. MaxBytes, route : 0 .. MaxBytes, speed : 0 .. MaxBytes]
        /\ sOld \in 0 .. MaxBytes /\ Seconds \in Nat \ {0} /\ MaxBytes \in Nat
    BY <1>1 DEF Status!TypeOK, Status!StatusAssumption
  <2>1. s \in 0 .. sUp.route /\ s * Seconds <= sUp.route
    <3>1. CASE sUp.route > sOld
      <4>1. PICK a \in Nat : a = sUp.route - sOld
        BY <2>0, <3>1
      <4>2. (a \div Seconds) \in 0 .. a /\ (a \div Seconds) * Seconds <= a
        BY <2>0, QuotientFits
      <4>3. s = a \div Seconds /\ a <= sUp.route
        BY <2>0, <3>1, <4>1
      <4>4. PICK m \in Int : m = (a \div Seconds) * Seconds
        BY <2>0, <4>2
      <4> HIDE DEF s
      <4> QED BY <2>0, <4>1, <4>2, <4>3, <4>4
    <3>2. CASE ~(sUp.route > sOld)
      BY <2>0, <3>2
    <3> QED BY <3>1, <3>2
  <2>2. /\ sUp' = [sUp EXCEPT !.speed = s] /\ sOld' = sUp.route
        /\ sPc' = "look" /\ UNCHANGED <<sCode, sAlive, sCmp, sTries, sRounds, sLoad, sLoads, sVerdict, sBlock, sExcuse>>
    BY <1>8 DEF Status!Wake, Status!Speed, Status!GetReadBytes
  <2> HIDE DEF s
  <2>3. /\ sUp' \in [read : 0 .. MaxBytes, route : 0 .. MaxBytes, speed : 0 .. MaxBytes]
        /\ sUp'.read = sUp.read /\ sUp'.route = sUp.route /\ sUp'.speed = s
    BY <2>0, <2>1, <2>2
  <2>4. Status!TypeOK'
    BY <1>1, <2>0, <2>2, <2>3 DEF Status!TypeOK
  <2>5. Status!ErrorKept' /\ WatcherMayClear'
    BY <1>1, <2>2 DEF Status!ErrorKept, WatcherMayClear, Status!Errors
  <2>6. Status!SpeedSound'
    BY <2>0, <2>1, <2>2, <2>3 DEF Status!SpeedSound
  <2>7. RoutedIsRead'
    BY <1>1, <2>2, <2>3 DEF RoutedIsRead
  <2> QED BY <2>4, <2>5, <2>6, <2>7
<1> QED BY <1>2, <1>3, <1>4, <1>5, <1>6, <1>7, <1>8 DEF Status!Checker

\* uloop's assignments keep it: a status it sets while the watcher compares is
\* the one the watcher may overwrite.
LEMMA StatUloop ==
    ASSUME Status!StatusAssumption, StatInv, Status!Uloop
    PROVE  StatInv'
<1> USE DEF StatInv, Status!StatusSound, Status!watch, Status!uplink
<1>1. Status!TypeOK /\ Status!ErrorKept /\ Status!SpeedSound /\ RoutedIsRead /\ WatcherMayClear
  OBVIOUS
<1>2. CASE Status!Portion
  <2>1. Status!TypeOK'
    BY <1>1, <1>2 DEF Status!StatusAssumption, Status!TypeOK, Status!Portion, Status!Set, Status!Codes
  <2>2. Status!ErrorKept' /\ WatcherMayClear'
    BY <1>1, <1>2 DEF Status!Portion, Status!Set, Status!ErrorKept, WatcherMayClear, Status!Errors
  <2>3. Status!SpeedSound' /\ RoutedIsRead'
    BY <1>1, <1>2 DEF Status!Portion, Status!SpeedSound, RoutedIsRead
  <2> QED BY <2>1, <2>2, <2>3
<1>3. CASE Status!LoadOver
  <2>1. PICK s \in {"load_ok"} \cup Status!Errors : Status!Set(s)
    BY <1>3 DEF Status!LoadOver
  <2>2. Status!TypeOK'
    BY <1>1, <1>3, <2>1 DEF Status!TypeOK, Status!LoadOver, Status!Set, Status!Codes, Status!Errors
  <2>3. Status!ErrorKept' /\ WatcherMayClear'
    BY <1>1, <1>3, <2>1 DEF Status!LoadOver, Status!Set, Status!ErrorKept, WatcherMayClear, Status!Errors
  <2>4. Status!SpeedSound' /\ RoutedIsRead'
    BY <1>1, <1>3 DEF Status!LoadOver, Status!SpeedSound, RoutedIsRead
  <2> QED BY <2>2, <2>3, <2>4
<1> QED BY <1>2, <1>3 DEF Status!Uloop

\* A reader's block keeps it: what is routed is counted as read when the block
\* has been dispatched.
LEMMA StatReader ==
    ASSUME Status!StatusAssumption, StatInv, Status!Reader
    PROVE  StatInv'
<1> USE DEF StatInv, Status!StatusSound, Status!watch, Status!loading
<1>1. Status!TypeOK /\ Status!ErrorKept /\ Status!SpeedSound /\ RoutedIsRead /\ WatcherMayClear
  OBVIOUS
<1>2. /\ sUp \in [read : 0 .. MaxBytes, route : 0 .. MaxBytes, speed : 0 .. MaxBytes]
      /\ sOld \in 0 .. MaxBytes /\ Seconds \in Nat /\ MaxBytes \in Nat
      /\ sBlock \in [len : 0 .. MaxBytes, routed : 0 .. MaxBytes]
  BY <1>1 DEF Status!TypeOK, Status!StatusAssumption
<1>3. PICK m \in Int : m = sUp.speed * Seconds
  BY <1>2
<1>4. m <= sUp.route /\ sOld <= sUp.route
  BY <1>1, <1>3 DEF Status!SpeedSound
<1>5. CASE Status!ReadBlock
  <2>1. sBlock.len = 0
    BY <1>5 DEF Status!ReadBlock, Status!NoBlock
  <2>2. PICK n \in 1 .. MaxBytes - sUp.read : \E k \in 0 .. n :
           sBlock' = [len |-> n, routed |-> k] /\ sUp' = [sUp EXCEPT !.route = @ + k]
    BY <1>5 DEF Status!ReadBlock
  <2>a. PICK r \in 0 .. n :
           sBlock' = [len |-> n, routed |-> r] /\ sUp' = [sUp EXCEPT !.route = @ + r]
    BY <2>2
  <2>3. sUp.route + r <= sUp.read + n /\ sUp.read + n <= MaxBytes /\ r <= n
    BY <1>1, <1>2, <2>1, <2>2, <2>a DEF RoutedIsRead
  <2>4. /\ sUp'.read = sUp.read /\ sUp'.route = sUp.route + r /\ sUp'.speed = sUp.speed
        /\ sUp' \in [read : 0 .. MaxBytes, route : 0 .. MaxBytes, speed : 0 .. MaxBytes]
        /\ sBlock' \in [len : 0 .. MaxBytes, routed : 0 .. MaxBytes] /\ sBlock'.len = n
    BY <1>2, <2>2, <2>a, <2>3
  <2>5. Status!TypeOK'
    BY <1>1, <1>5, <2>4 DEF Status!TypeOK, Status!ReadBlock
  <2>6. Status!ErrorKept' /\ WatcherMayClear'
    BY <1>1, <1>5 DEF Status!ReadBlock, Status!ErrorKept, WatcherMayClear
  <2>7. Status!SpeedSound'
    <3>1. sUp'.speed * Seconds = m /\ sOld' = sOld
      BY <1>3, <1>5, <2>4 DEF Status!ReadBlock
    <3>2. m <= sUp'.route /\ sOld' <= sUp'.route
      BY <1>2, <1>4, <2>2, <2>a, <2>4, <3>1
    <3> QED BY <3>1, <3>2 DEF Status!SpeedSound
  <2>8. RoutedIsRead'
    BY <2>a, <2>3, <2>4 DEF RoutedIsRead
  <2> QED BY <2>5, <2>6, <2>7, <2>8
<1>6. CASE Status!EndBlock
  <2>1. /\ sUp' = [sUp EXCEPT !.read = @ + sBlock.len] /\ sBlock' = [len |-> 0, routed |-> 0]
    BY <1>6 DEF Status!EndBlock, Status!NoBlock
  <2>2. /\ sUp'.read = sUp.read + sBlock.len /\ sUp'.route = sUp.route /\ sUp'.speed = sUp.speed
        /\ sUp' \in [read : 0 .. MaxBytes, route : 0 .. MaxBytes, speed : 0 .. MaxBytes]
        /\ sBlock' \in [len : 0 .. MaxBytes, routed : 0 .. MaxBytes] /\ sBlock'.len = 0
    BY <1>1, <1>2, <2>1 DEF RoutedIsRead
  <2>3. Status!TypeOK'
    BY <1>1, <1>6, <2>2 DEF Status!TypeOK, Status!EndBlock
  <2>4. Status!ErrorKept' /\ WatcherMayClear'
    BY <1>1, <1>6 DEF Status!EndBlock, Status!ErrorKept, WatcherMayClear
  <2>5. Status!SpeedSound'
    BY <1>1, <1>6, <2>2 DEF Status!SpeedSound, Status!EndBlock
  <2>6. RoutedIsRead'
    BY <1>1, <1>2, <2>2 DEF RoutedIsRead
  <2> QED BY <2>3, <2>4, <2>5, <2>6
<1> QED BY <1>5, <1>6 DEF Status!Reader

\* A step of any of them keeps it.
LEMMA StatStep ==
    ASSUME Status!StatusAssumption, StatInv, [Status!Next]_(Status!vars)
    PROVE  StatInv'
<1>1. CASE Status!Cards
  <2> USE DEF StatInv, Status!StatusSound, Status!watch, Status!loading, Status!uplink, Status!Cards
  <2>1. Status!TypeOK'
    BY <1>1 DEF Status!TypeOK
  <2>2. Status!ErrorKept' /\ WatcherMayClear' /\ Status!SpeedSound' /\ RoutedIsRead'
    BY <1>1 DEF Status!ErrorKept, WatcherMayClear, Status!SpeedSound, RoutedIsRead
  <2> QED BY <2>1, <2>2
<1>2. CASE UNCHANGED Status!vars
  BY <1>2 DEF StatInv, Status!StatusSound, Status!vars, Status!TypeOK, Status!ErrorKept, WatcherMayClear,
              Status!SpeedSound, RoutedIsRead
<1> QED BY <1>1, <1>2, StatChecker, StatUloop, StatReader DEF Status!Next

\* For every number of tries, loads and bytes the error of a load stays on show
\* and the speeds account for no more bytes than were routed, although the
\* watcher compares and assigns in separate steps (net_statistics.c).
THEOREM StatusStaysSound == (Status!Spec => []Status!StatusSound) /\ (MCSpec => []StatusSound)
<1>1. Status!Init => StatInv
  BY MCFilesAssumption, StatInit
<1>2. StatInv /\ [Status!Next]_(Status!vars) => StatInv'
  BY MCFilesAssumption, StatStep
<1>3. StatInv => Status!StatusSound /\ StatusSound
  BY DEF StatInv, StatusSound
<1>4. MCInit => Status!Init
  BY DEF MCInit
<1>5. [MCNext]_mcVars => [Status!Next]_(Status!vars)
  BY StatusPart
<1> QED BY <1>1, <1>2, <1>3, <1>4, <1>5, PTL DEF Status!Spec, MCSpec
=============================================================================
