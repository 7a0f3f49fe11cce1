--------------------------- MODULE NetThreadProofs ---------------------------
(***************************************************************************)
(* Proofs about NetThread, for any number of clients, priorities, rounds   *)
(* and commands. The inductive invariant says, for every client, whether   *)
(* it rests or where it is in the round of its channel, and for every      *)
(* channel that con_wait counts exactly those of its round that are done.  *)
(* Then about StreamKey (packing loses nothing of a stream whose fields    *)
(* have their widths, and so the table of a client shows its               *)
(* subscriptions) and about ThreadRegistry, the table all threads of the   *)
(* program are entered in: each alone and as a part of MCChannels.         *)
(***************************************************************************)
EXTENDS MCChannels, FiniteSets, FiniteSetTheorems, SequenceTheorems,
        WellFoundedInduction, TLAPS

ClientType ==
    [ pc : ClientPc, prio : Prios, reg : BOOLEAN, subs : SUBSET Prios,
      wait : BOOLEAN, chan : Prios, cur : 0 .. MaxRound, cmds : Nat ]

ReaderType ==
    [ pc : ReaderPc, round : 0 .. MaxRound, hash : 0 .. MaxRound, told : SUBSET Clients,
      num : Nat, count : Nat, threads : Nat ]

\* The list and the two tables, in full.
TypeInv ==
    /\ list \in Seq(Clients)
    /\ \A i, j \in 1 .. Len(list) : list[i] = list[j] => i = j
    /\ cl \in [Clients -> ClientType]
    /\ rd \in [Prios -> ReaderType]
    /\ Connected = {c \in Clients : cl[c].pc # "gone"}
    /\ IsFiniteSet(Connected)
    /\ conInit \in BOOLEAN
    /\ accepted \in 0 .. MaxConn
    /\ freeing \in Clients \cup {NoClient}
    /\ faults \subseteq Disturbances

\* What tcp_free and con_wait owe to the life of the threads.
LifeInv ==
    /\ freeing # NoClient => freeing \in Connected
    /\ \A c \in Clients :
          /\ cl[c].pc = "exited" => freeing = c
          /\ cl[c].pc \in {"wait", "walk", "send", "over"} => conInit
          /\ "count" \notin faults /\ cl[c].reg => cl[c].pc \notin {"gone", "init"}

\* The threads thread_count[p] stands for.
Registered(p) == {c \in Connected : cl[c].reg /\ cl[c].prio = p /\ cl[c].pc # "exited"}

\* Client c has walked the block of this round of channel p and sleeps again.
Done(c, p) ==
    /\ cl[c].pc = "wait" /\ cl[c].wait
    /\ cl[c].chan = p /\ cl[c].cur = rd[p].round

\* Client c has been woken in this round of channel p.
Serving(c, p) ==
    /\ cl[c].reg /\ cl[c].prio = p
    /\ \/ cl[c].pc = "wait" /\ ~cl[c].wait /\ cl[c].cur < rd[p].round
       \/ cl[c].pc = "walk" /\ cl[c].wait /\ cl[c].chan = p /\ cl[c].cur < rd[p].round
       \/ cl[c].pc \in {"send", "over"} /\ cl[c].wait /\ cl[c].chan = p /\ cl[c].cur = rd[p].round
       \/ Done(c, p)

\* Client c has not: it sleeps, and has seen only earlier blocks.
Resting(c) ==
    /\ cl[c].pc \in {"gone", "init", "wait", "exited"} /\ cl[c].wait
    /\ ~cl[c].reg => cl[c].cur = 0
    /\ cl[c].reg => cl[c].cur <= rd[cl[c].prio].round
    /\ cl[c].reg /\ rd[cl[c].prio].pc = "notify" => cl[c].cur < rd[cl[c].prio].round

\* The round of channel p.
RoundOf(p) ==
    /\ rd[p].pc # "again"
    /\ rd[p].hash = IF rd[p].pc = "read" THEN 0 ELSE rd[p].round
    /\ rd[p].pc # "read" => 0 < rd[p].round
    /\ rd[p].pc \in {"read", "notify"} => rd[p].told = {}
    /\ rd[p].pc \in {"min", "wait"} => rd[p].num = Cardinality(rd[p].told)
    /\ rd[p].pc # "clear" => rd[p].count = Cardinality({c \in rd[p].told : Done(c, p)})
    /\ rd[p].pc = "clear" => rd[p].count = 0 /\ \A c \in rd[p].told : Done(c, p)

RoundInv ==
    Undisturbed =>
        /\ \A p \in Prios : RoundOf(p) /\ \A c \in rd[p].told : Serving(c, p)
        /\ \A c \in Clients : c \notin rd[cl[c].prio].told => Resting(c)
-----------------------------------------------------------------------------
(* Types, and who is on the list.                                            *)

\* The constants, for the arithmetic below.
LEMMA ConstFacts ==
    /\ 0 \in Prios /\ Prios \subseteq Nat /\ MaxRound \in Nat /\ MaxConn \in Nat
    /\ NoClient \notin Clients
BY ThreadAssumption

\* A fresh client and a fresh reader are well typed.
LEMMA NewType ==
    /\ NewClient \in ClientType /\ [NewClient EXCEPT !.pc = "gone"] \in ClientType
    /\ NewReader \in ReaderType
<1>1. 0 \in Prios /\ 0 \in 0 .. MaxRound
  BY ConstFacts
<1>2. NewClient \in ClientType
  BY <1>1 DEF NewClient, ClientType, ClientPc
<1>3. [NewClient EXCEPT !.pc = "gone"] \in ClientType
  BY <1>1 DEF NewClient, ClientType, ClientPc
<1>4. NewReader \in ReaderType
  BY <1>1 DEF NewReader, ReaderType, ReaderPc
<1> QED
  BY <1>2, <1>3, <1>4

\* While the list stays, a step that takes nobody to or from "gone" keeps the
\* clients on it.
LEMMA SameList ==
    ASSUME TypeInv, list' = list, cl' \in [Clients -> ClientType],
           \A c \in Clients : cl'[c].pc = "gone" <=> cl[c].pc = "gone",
           rd' \in [Prios -> ReaderType], conInit' \in BOOLEAN, accepted' \in 0 .. MaxConn,
           freeing' \in Clients \cup {NoClient}, faults' \subseteq Disturbances
    PROVE  TypeInv' /\ Connected' = Connected
<1>1. Connected' = Connected
  BY DEF Connected
<1>2. {c \in Clients : cl'[c].pc # "gone"} = {c \in Clients : cl[c].pc # "gone"}
  OBVIOUS
<1> QED
  BY <1>1, <1>2 DEF TypeInv

\* tcp_accept_cb puts the client at the head of the list.
LEMMA TypeAccept ==
    ASSUME TypeInv, NEW c \in Clients, Accept(c)
    PROVE  TypeInv' /\ Connected' = Connected \cup {c}
<1>1. /\ list \in Seq(Clients) /\ list' = <<c>> \o list /\ c \notin Connected
      /\ cl \in [Clients -> ClientType] /\ cl' = [cl EXCEPT ![c] = NewClient]
      /\ \A i, j \in 1 .. Len(list) : list[i] = list[j] => i = j
      /\ Connected = {d \in Clients : cl[d].pc # "gone"} /\ IsFiniteSet(Connected)
  BY DEF TypeInv, Accept
<1>2. /\ list' \in Seq(Clients) /\ Len(list) \in Nat
      /\ Len(list') = Len(list) + 1 /\ list'[1] = c
      /\ \A i \in 1 .. Len(list) : list'[i + 1] = list[i]
      /\ \A i \in 2 .. Len(list') : list'[i] = list[i - 1]
  BY <1>1
<1>3. Connected' = Connected \cup {c}
  <2>1. ASSUME NEW d, d \in Connected' PROVE d \in Connected \cup {c}
    <3>1. PICK k \in 1 .. Len(list') : list'[k] = d
      BY <2>1 DEF Connected
    <3>2. CASE k = 1
      BY <3>1, <3>2, <1>2
    <3>3. CASE k # 1
      <4>1. k - 1 \in 1 .. Len(list) /\ list[k - 1] = d
        BY <3>1, <3>3, <1>2
      <4> QED
        BY <4>1 DEF Connected
    <3> QED
      BY <3>2, <3>3
  <2>2. ASSUME NEW d, d \in Connected PROVE d \in Connected'
    <3>1. PICK k \in 1 .. Len(list) : list[k] = d
      BY <2>2 DEF Connected
    <3>2. k + 1 \in 1 .. Len(list') /\ list'[k + 1] = d
      BY <3>1, <1>2
    <3> QED
      BY <3>2 DEF Connected
  <2>3. c \in Connected'
    <3>1. 1 \in 1 .. Len(list') /\ list'[1] = c
      BY <1>2
    <3> QED
      BY <3>1 DEF Connected
  <2> QED
    BY <2>1, <2>2, <2>3
<1>4. \A i, j \in 1 .. Len(list') : list'[i] = list'[j] => i = j
  <2> SUFFICES ASSUME NEW i \in 1 .. Len(list'), NEW j \in 1 .. Len(list'), list'[i] = list'[j]
               PROVE  i = j
    OBVIOUS
  <2>1. \A k \in 1 .. Len(list) : list[k] # c
    BY <1>1 DEF Connected
  <2>2. \A k \in 1 .. Len(list') : k # 1 => k - 1 \in 1 .. Len(list) /\ list'[k] = list[k - 1]
    BY <1>2
  <2>3. CASE i = 1
    BY <2>1, <2>2, <2>3, <1>2
  <2>4. CASE j = 1
    BY <2>1, <2>2, <2>4, <1>2
  <2>5. CASE i # 1 /\ j # 1
    <3>1. i - 1 = j - 1
      BY <2>2, <2>5, <1>1, ZenonT(30)
    <3> QED
      BY <3>1
  <2> QED
    BY <2>3, <2>4, <2>5
<1>5. cl' \in [Clients -> ClientType] /\ cl'[c].pc = "init" /\ \A d \in Clients : d # c => cl'[d] = cl[d]
  BY <1>1, NewType DEF NewClient
<1>6. Connected' = {d \in Clients : cl'[d].pc # "gone"}
  BY <1>1, <1>3, <1>5
<1>7. IsFiniteSet(Connected')
  BY <1>1, <1>3, FS_AddElement
<1>8. /\ rd' \in [Prios -> ReaderType] /\ conInit' \in BOOLEAN /\ accepted' \in 0 .. MaxConn
      /\ freeing' \in Clients \cup {NoClient} /\ faults' \subseteq Disturbances
  BY ConstFacts DEF TypeInv, Accept
<1> QED
  BY <1>2, <1>3, <1>4, <1>5, <1>6, <1>7, <1>8 DEF TypeInv

\* tcp_free takes the client off the list.
LEMMA TypeFree ==
    ASSUME TypeInv, FreeEnd
    PROVE  TypeInv' /\ freeing \in Clients /\ Connected' = Connected \ {freeing}
<1>1. /\ list \in Seq(Clients) /\ Len(list) \in Nat /\ freeing \in Clients
      /\ cl \in [Clients -> ClientType] /\ cl' = [cl EXCEPT ![freeing] = [NewClient EXCEPT !.pc = "gone"]]
      /\ \A i, j \in 1 .. Len(list) : list[i] = list[j] => i = j
      /\ Connected = {d \in Clients : cl[d].pc # "gone"} /\ IsFiniteSet(Connected)
  BY DEF TypeInv, FreeEnd
<1>2. PICK k \in 1 .. Len(list) : list[k] = freeing /\ list' = RemoveAt(list, k)
  BY DEF FreeEnd
<1> DEFINE front == SubSeq(list, 1, k - 1)
           back  == SubSeq(list, k + 1, Len(list))
<1>3. list' = front \o back
  BY <1>2 DEF RemoveAt
<1>4. /\ front \in Seq(Clients) /\ Len(front) = k - 1
      /\ \A i \in 1 .. k - 1 : front[i] = list[i]
  BY <1>1
<1>5. /\ back \in Seq(Clients) /\ Len(back) = Len(list) - k
      /\ \A i \in 1 .. Len(list) - k : back[i] = list[k + i]
  BY <1>1
<1> HIDE DEF front, back
<1>6. list' \in Seq(Clients) /\ Len(list') = Len(list) - 1
  BY <1>1, <1>3, <1>4, <1>5
<1> DEFINE Old(i) == IF i < k THEN i ELSE i + 1
<1>7. ASSUME NEW i \in 1 .. Len(list')
      PROVE  Old(i) \in 1 .. Len(list) /\ Old(i) # k /\ list'[i] = list[Old(i)]
  <2>1. CASE i < k
    BY <1>3, <1>4, <1>5, <1>6, <1>1, <2>1
  <2>2. CASE ~(i < k)
    <3>1. i - (k - 1) \in 1 .. Len(list) - k /\ list'[i] = back[i - (k - 1)]
      BY <1>1, <1>3, <1>4, <1>5, <1>6, <2>2, SMTT(30)
    <3>2. k + (i - (k - 1)) = i + 1 /\ i + 1 \in 1 .. Len(list) /\ i + 1 # k /\ Old(i) = i + 1
      BY <1>1, <1>6, <2>2
    <3>3. back[i - (k - 1)] = list[k + (i - (k - 1))]
      BY <3>1, <1>5
    <3>4. list'[i] = list[i + 1]
      BY <3>1, <3>2, <3>3
    <3> HIDE DEF Old
    <3> QED
      BY <3>2, <3>4
  <2> QED
    BY <2>1, <2>2
<1>8. ASSUME NEW j \in 1 .. Len(list), j # k PROVE \E i \in 1 .. Len(list') : list'[i] = list[j]
  <2>1. CASE j < k
    <3>1. j \in 1 .. Len(list') /\ Old(j) = j
      BY <2>1, <1>1, <1>6
    <3> QED
      BY <3>1, <1>7
  <2>2. CASE ~(j < k)
    <3>1. j - 1 \in 1 .. Len(list') /\ Old(j - 1) = j
      BY <2>2, <1>8, <1>1, <1>6
    <3>2. list'[j - 1] = list[Old(j - 1)]
      BY <3>1, <1>7
    <3> HIDE DEF Old
    <3>3. list'[j - 1] = list[j]
      BY <3>1, <3>2
    <3> QED
      BY <3>1, <3>3
  <2> QED
    BY <2>1, <2>2
<1>9. Connected' = Connected \ {freeing}
  <2>1. ASSUME NEW d, d \in Connected' PROVE d \in Connected \ {freeing}
    <3>1. PICK i \in 1 .. Len(list') : list'[i] = d
      BY <2>1 DEF Connected
    <3>2. Old(i) \in 1 .. Len(list) /\ Old(i) # k /\ list[Old(i)] = d
      BY <3>1, <1>7
    <3> HIDE DEF Old
    <3>3. d # freeing
      BY <3>2, <1>1, <1>2
    <3> QED
      BY <3>2, <3>3 DEF Connected
  <2>2. ASSUME NEW d, d \in Connected, d # freeing PROVE d \in Connected'
    <3>1. PICK j \in 1 .. Len(list) : list[j] = d
      BY <2>2 DEF Connected
    <3>2. j # k
      BY <3>1, <2>2, <1>2
    <3>3. \E i \in 1 .. Len(list') : list'[i] = d
      BY <3>1, <3>2, <1>8
    <3> QED
      BY <3>3 DEF Connected
  <2> QED
    BY <2>1, <2>2
<1>10. \A i, j \in 1 .. Len(list') : list'[i] = list'[j] => i = j
  <2> SUFFICES ASSUME NEW i \in 1 .. Len(list'), NEW j \in 1 .. Len(list'), list'[i] = list'[j]
               PROVE  i = j
    OBVIOUS
  <2>1. Old(i) = Old(j)
    BY <1>1, <1>7
  <2> QED
    BY <2>1
<1>11. /\ cl' \in [Clients -> ClientType] /\ cl'[freeing].pc = "gone"
       /\ \A d \in Clients : d # freeing => cl'[d] = cl[d]
  BY <1>1, NewType DEF NewClient
<1>12. Connected' = {d \in Clients : cl'[d].pc # "gone"}
  BY <1>1, <1>9, <1>11
<1>13. IsFiniteSet(Connected')
  BY <1>1, <1>9, FS_RemoveElement
<1>14. /\ rd' \in [Prios -> ReaderType] /\ conInit' \in BOOLEAN /\ accepted' \in 0 .. MaxConn
       /\ freeing' \in Clients \cup {NoClient} /\ faults' \subseteq Disturbances
  BY DEF TypeInv, FreeEnd
<1> QED
  BY <1>1, <1>6, <1>9, <1>10, <1>11, <1>12, <1>13, <1>14 DEF TypeInv

\* A step of uloop that stays with the list keeps the types.
LEMMA TypeUloop ==
    ASSUME TypeInv, NEW c \in Clients,
           (\E p \in Prios : Register(c, p)) \/ Subscribe(c) \/ Unsubscribe(c) \/ FreeBegin(c)
    PROVE  TypeInv' /\ Connected' = Connected
<1>t. /\ cl \in [Clients -> ClientType] /\ rd \in [Prios -> ReaderType] /\ conInit \in BOOLEAN
      /\ accepted \in 0 .. MaxConn /\ freeing \in Clients \cup {NoClient} /\ faults \subseteq Disturbances
  BY DEF TypeInv
<1>1. ASSUME NEW p \in Prios, Register(c, p) PROVE TypeInv' /\ Connected' = Connected
  <2>1. cl' \in [Clients -> ClientType] /\ \A d \in Clients : cl'[d].pc = cl[d].pc
    <3>1. cl[c] \in ClientType /\ cl[c].cmds + 1 \in Nat
      BY <1>t DEF ClientType
    <3>2. /\ cl'[c] = [cl[c] EXCEPT !.prio = p, !.reg = TRUE, !.cmds = @ + 1]
          /\ \A d \in Clients : d # c => cl'[d] = cl[d]
      BY <1>1, <1>t, Zenon DEF Register
    <3>3. [cl[c] EXCEPT !.prio = p, !.reg = TRUE, !.cmds = @ + 1] \in ClientType
      BY <3>1 DEF ClientType
    <3>4. cl' \in [Clients -> ClientType]
      BY <1>1, <1>t, <3>2, <3>3, Zenon DEF Register
    <3>5. cl'[c].pc = cl[c].pc
      BY <3>1, <3>2 DEF ClientType
    <3> QED
      BY <3>2, <3>4, <3>5
  <2>2. rd' \in [Prios -> ReaderType]
    <3>1. rd[p] \in ReaderType /\ [rd[p] EXCEPT !.threads = @ + 1] \in ReaderType
      BY <1>t DEF ReaderType
    <3> QED
      BY <1>1, <1>t, <3>1, Zenon DEF Register
  <2>3. /\ list' = list /\ conInit' = conInit /\ accepted' = accepted /\ freeing' = freeing
        /\ faults' \subseteq Disturbances
    BY <1>1, <1>t, Zenon DEF Register, Disturb, Disturbances
  <2> QED
    BY <2>1, <2>2, <2>3, <1>t, SameList
<1>2. CASE Subscribe(c) \/ Unsubscribe(c)
  <2>1. cl' \in [Clients -> ClientType] /\ \A d \in Clients : cl'[d].pc = cl[d].pc
    <3>1. \A d \in Clients : cl[d] \in ClientType /\ cl[d].cmds + 1 \in Nat /\ cl[d].prio \in Prios
      BY <1>t DEF ClientType
    <3>2. \A d \in Clients : cl'[d] \in ClientType /\ cl'[d].pc = cl[d].pc
      <4>1. CASE Subscribe(c)
        BY <4>1, <3>1, Zenon DEF Subscribe, ClientType
      <4>2. CASE Unsubscribe(c)
        BY <4>2, <3>1, ZenonT(30) DEF Unsubscribe, ClientType
      <4> QED
        BY <1>2, <4>1, <4>2
    <3>3. cl' \in [Clients -> ClientType]
      BY <1>2, <3>2, Zenon DEF Subscribe, Unsubscribe
    <3> QED
      BY <3>2, <3>3
  <2>2. UNCHANGED <<list, rd, conInit, accepted, freeing, faults>>
    BY <1>2, Zenon DEF Subscribe, Unsubscribe
  <2> QED
    BY <2>1, <2>2, <1>t, SameList
<1>3. CASE FreeBegin(c)
  BY <1>3, <1>t, SameList DEF FreeBegin
<1> QED
  BY <1>1, <1>2, <1>3

\* A step of a sender thread keeps the types.
LEMMA TypeSender ==
    ASSUME TypeInv, NEW c \in Clients, Sender(c)
    PROVE  TypeInv' /\ Connected' = Connected
<1>t. /\ cl \in [Clients -> ClientType] /\ rd \in [Prios -> ReaderType] /\ conInit \in BOOLEAN
      /\ accepted \in 0 .. MaxConn /\ freeing \in Clients \cup {NoClient} /\ faults \subseteq Disturbances
  BY DEF TypeInv
<1>1. CASE ThreadInit(c) \/ Wake(c) \/ WalkEnd(c)
  <2>1. cl' \in [Clients -> ClientType] /\ \A d \in Clients : cl'[d].pc = "gone" <=> cl[d].pc = "gone"
    <3>1. cl[c] \in ClientType /\ cl[c].prio \in Prios /\ cl[c].pc # "gone"
      BY <1>1, <1>t DEF ThreadInit, Wake, WalkEnd, ClientType
    <3>2. /\ \/ cl'[c] = [cl[c] EXCEPT !.pc = "wait", !.reg = FALSE]
             \/ cl'[c] = [cl[c] EXCEPT !.pc = "walk", !.wait = TRUE, !.chan = cl[c].prio]
             \/ cl'[c] = [cl[c] EXCEPT !.pc = "over"]
          /\ \A d \in Clients : d # c => cl'[d] = cl[d]
      BY <1>1, <1>t, ZenonT(30) DEF ThreadInit, Wake, WalkEnd
    <3>x. /\ [cl[c] EXCEPT !.pc = "wait", !.reg = FALSE] \in ClientType
          /\ [cl[c] EXCEPT !.pc = "walk", !.wait = TRUE, !.chan = cl[c].prio] \in ClientType
          /\ [cl[c] EXCEPT !.pc = "over"] \in ClientType
      BY <3>1 DEF ClientType, ClientPc
    <3>3. cl'[c] \in ClientType /\ cl'[c].pc # "gone"
      BY <3>1, <3>2, <3>x, ZenonT(30) DEF ClientType
    <3>4. cl' \in [Clients -> ClientType]
      BY <1>1, <1>t, <3>2, <3>3 DEF ThreadInit, Wake, WalkEnd
    <3> QED
      BY <3>1, <3>2, <3>3, <3>4
  <2>2. UNCHANGED <<list, rd, accepted, freeing, faults>> /\ conInit' \in BOOLEAN
    BY <1>1, <1>t DEF ThreadInit, Wake, WalkEnd
  <2> QED
    BY <2>1, <2>2, <1>t, SameList
<1>2. CASE WalkBegin(c)
  <2>1. rd[cl[c].chan].hash \in 0 .. MaxRound
    BY <1>t DEF ClientType, ReaderType
  <2>2. cl' \in [Clients -> ClientType] /\ \A d \in Clients : cl'[d].pc = "gone" <=> cl[d].pc = "gone"
    <3>1. cl[c] \in ClientType /\ cl[c].pc # "gone"
      BY <1>2, <1>t DEF WalkBegin
    <3>2. /\ cl'[c] = [cl[c] EXCEPT !.pc = "send", !.cur = rd[cl[c].chan].hash]
          /\ \A d \in Clients : d # c => cl'[d] = cl[d]
      BY <1>2, <1>t DEF WalkBegin
    <3>3. cl'[c] \in ClientType /\ cl'[c].pc # "gone"
      BY <3>1, <3>2, <2>1, ZenonT(30) DEF ClientType, ClientPc
    <3>4. cl' \in [Clients -> ClientType]
      BY <1>2, <1>t, <3>2, <3>3 DEF WalkBegin
    <3> QED
      BY <3>1, <3>2, <3>3, <3>4
  <2>3. UNCHANGED <<list, rd, conInit, accepted, freeing, faults>>
    BY <1>2 DEF WalkBegin
  <2> QED
    BY <2>2, <2>3, <1>t, SameList
<1>3. CASE Over(c) \/ ThreadExit(c)
  <2>1. cl' \in [Clients -> ClientType] /\ \A d \in Clients : cl'[d].pc = "gone" <=> cl[d].pc = "gone"
    <3>1. cl[c] \in ClientType /\ cl[c].pc # "gone"
      BY <1>3, <1>t DEF Over, ThreadExit
    <3>2. PICK q \in {"wait", "exited"} : cl' = [cl EXCEPT ![c].pc = q]
      BY <1>3 DEF Over, ThreadExit
    <3>3. cl'[c] = [cl[c] EXCEPT !.pc = q] /\ \A d \in Clients : d # c => cl'[d] = cl[d]
      BY <1>t, <3>2
    <3>4. [cl[c] EXCEPT !.pc = q] \in ClientType /\ [cl[c] EXCEPT !.pc = q].pc = q
      BY <3>1 DEF ClientType, ClientPc
    <3>5. cl' \in [Clients -> ClientType]
      BY <1>t, <3>2, <3>3, <3>4
    <3> QED
      BY <3>1, <3>3, <3>4, <3>5
  <2>2. cl[c].prio \in Prios
    BY <1>t DEF ClientType
  <2>3. rd' \in [Prios -> ReaderType]
    <3>0. PICK p \in Prios : p = cl[c].prio
      BY <2>2
    <3>1. rd[p] \in ReaderType /\ rd[p].threads \in Nat /\ rd[p].count \in Nat
      BY <1>t DEF ReaderType
    <3>2. PICK m \in Nat : m = IF rd[p].threads > 0 THEN rd[p].threads - 1 ELSE 0
      BY <3>1
    <3>3. [rd[p] EXCEPT !.threads = m] \in ReaderType /\ [rd[p] EXCEPT !.count = @ + 1] \in ReaderType
      BY <3>1 DEF ReaderType
    <3>4. rd' = [rd EXCEPT ![p].count = @ + 1] \/ rd' = [rd EXCEPT ![p].threads = m]
      BY <1>3, <3>0, <3>2 DEF Over, ThreadExit
    <3> QED
      BY <1>t, <3>3, <3>4
  <2>4. UNCHANGED <<list, conInit, accepted, freeing>> /\ faults' \subseteq Disturbances
    BY <1>3, <1>t DEF Over, ThreadExit, ExitFaults, Disturbances
  <2> QED
    BY <2>1, <2>3, <2>4, <1>t, SameList
<1> QED
  BY <1>1, <1>2, <1>3 DEF Sender

\* The clients a block is for are finitely many.
LEMMA AudienceFinite ==
    ASSUME TypeInv, NEW p \in Prios
    PROVE  /\ Audience(p) \subseteq Clients /\ IsFiniteSet(Audience(p))
           /\ Cardinality(Audience(p)) \in Nat
<1>1. Audience(p) \subseteq Connected /\ Connected \subseteq Clients /\ IsFiniteSet(Connected)
  BY DEF Audience, TypeInv
<1> QED
  BY <1>1, FS_Subset, FS_CardinalityType

\* A step of a reader thread keeps the types.
LEMMA TypeReader ==
    ASSUME TypeInv, NEW p \in Prios, Read(p) \/ Round(p) \/ WaitTimeout(p)
    PROVE  TypeInv' /\ Connected' = Connected
<1>t. /\ cl \in [Clients -> ClientType] /\ rd \in [Prios -> ReaderType] /\ conInit \in BOOLEAN
      /\ accepted \in 0 .. MaxConn /\ freeing \in Clients \cup {NoClient} /\ faults \subseteq Disturbances
  BY DEF TypeInv
<1>1. CASE Notify(p)
  <2>1. cl' \in [Clients -> ClientType] /\ \A d \in Clients : cl'[d].pc = cl[d].pc
    BY <1>1, <1>t, Zenon DEF Notify, ClientType
  <2>2. rd' \in [Prios -> ReaderType]
    <3>1. rd[p] \in ReaderType /\ Audience(p) \subseteq Clients /\ Cardinality(Audience(p)) \in Nat
      BY <1>t, AudienceFinite
    <3>2. [rd[p] EXCEPT !.pc = "min", !.told = Audience(p), !.num = Cardinality(Audience(p))] \in ReaderType
      BY <3>1 DEF ReaderType, ReaderPc
    <3>3. rd' = [rd EXCEPT ![p] = [rd[p] EXCEPT !.pc = "min", !.told = Audience(p),
                                     !.num = Cardinality(Audience(p))]]
      BY <1>1, <1>t DEF Notify
    <3> QED
      BY <1>t, <3>2, <3>3
  <2>3. UNCHANGED <<list, conInit, accepted, freeing>> /\ faults' \subseteq Disturbances
    BY <1>1, <1>t DEF Notify, Disturb, Disturbances
  <2> QED
    BY <2>1, <2>2, <2>3, <1>t, SameList
<1>2. CASE CountGet(p) \/ CountGetAgain(p)
  <2>1. rd' \in [Prios -> ReaderType]
    <3>1. rd[p] \in ReaderType /\ rd[p].num \in Nat /\ rd[p].threads \in Nat
      BY <1>t DEF ReaderType
    <3>2. \A n \in Nat, x \in {"wait", "clear", "again"} :
             [rd[p] EXCEPT !.num = n, !.pc = x] \in ReaderType /\ [rd[p] EXCEPT !.pc = x] \in ReaderType
      BY <3>1, ZenonT(30) DEF ReaderType, ReaderPc
    <3>3. \/ rd' = [rd EXCEPT ![p] = [rd[p] EXCEPT !.pc = "again"]]
          \/ \E n \in Nat, x \in {"wait", "clear"} : rd' = [rd EXCEPT ![p] = [rd[p] EXCEPT !.num = n, !.pc = x]]
      BY <1>2, <1>t, <3>1, ZenonT(30) DEF CountGet, CountGetAgain, Settle
    <3> QED
      BY <1>t, <3>2, <3>3, Zenon
  <2>2. UNCHANGED <<list, cl, conInit, accepted, freeing, faults>>
    BY <1>2 DEF CountGet, CountGetAgain, Settle
  <2> QED
    BY <2>1, <2>2, <1>t, SameList
<1>3. CASE Read(p)
  <2>1. rd[p].round + 1 \in 0 .. MaxRound
    BY <1>3, <1>t, ConstFacts DEF Read, ReaderType
  <2>2. rd' \in [Prios -> ReaderType]
    BY <1>3, <1>t, <2>1 DEF Read, ReaderType, ReaderPc
  <2>3. UNCHANGED <<list, cl, conInit, accepted, freeing, faults>>
    BY <1>3 DEF Read
  <2> QED
    BY <2>2, <2>3, <1>t, SameList
<1>4. CASE WaitOver(p) \/ Clear(p) \/ WaitTimeout(p)
  <2>1. 0 \in 0 .. MaxRound
    BY ConstFacts
  <2>2. rd' \in [Prios -> ReaderType]
    BY <1>4, <1>t, <2>1 DEF WaitOver, WaitTimeout, Clear, ReaderType, ReaderPc
  <2>3. UNCHANGED <<list, cl, conInit, accepted, freeing>> /\ faults' \subseteq Disturbances
    BY <1>4, <1>t DEF WaitOver, WaitTimeout, Clear, Disturbances
  <2> QED
    BY <2>2, <2>3, <1>t, SameList
<1> QED
  BY <1>1, <1>2, <1>3, <1>4 DEF Round

\* The types hold at the start and every step keeps them.
LEMMA TypeAlways == Spec => []TypeInv
<1>1. Init => TypeInv
  <2> SUFFICES ASSUME Init PROVE TypeInv
    OBVIOUS
  <2>1. list = << >> /\ Connected = {}
    BY DEF Init, Connected
  <2>2. \A c \in Clients : cl[c].pc = "gone"
    BY DEF Init, NewClient
  <2>3. cl \in [Clients -> ClientType] /\ rd \in [Prios -> ReaderType]
    BY NewType DEF Init
  <2>4. IsFiniteSet(Connected)
    BY <2>1, FS_EmptySet
  <2>5. list \in Seq(Clients) /\ Len(list) = 0
    BY <2>1
  <2>6. accepted \in 0 .. MaxConn
    BY ConstFacts DEF Init
  <2>7. conInit \in BOOLEAN
    BY Zenon DEF Init
  <2> QED
    BY <2>1, <2>2, <2>3, <2>4, <2>5, <2>6, <2>7 DEF Init, TypeInv
<1>2. TypeInv /\ [Next]_vars => TypeInv'
  <2> SUFFICES ASSUME TypeInv, [Next]_vars PROVE TypeInv'
    OBVIOUS
  <2>1. CASE UNCHANGED vars
    BY <2>1 DEF vars, TypeInv, Connected
  <2> QED
    BY <2>1, TypeAccept, TypeFree, TypeUloop, TypeSender, TypeReader DEF Next, Uloop
<1> QED
  BY <1>1, <1>2, PTL DEF Spec
-----------------------------------------------------------------------------
(* The life of a thread, and thread_count.                                   *)

\* What each step of a sender does to its client, field by field.
LEMMA SenderFacts ==
    ASSUME TypeInv, NEW c \in Clients
    PROVE  /\ ThreadInit(c) =>
                 /\ cl[c].pc = "init" /\ cl'[c] = [cl[c] EXCEPT !.pc = "wait", !.reg = FALSE]
                 /\ conInit' /\ rd' = rd /\ faults' = faults
           /\ Wake(c) =>
                 /\ cl[c].pc = "wait" /\ ~cl[c].wait
                 /\ cl'[c] = [cl[c] EXCEPT !.pc = "walk", !.wait = TRUE, !.chan = cl[c].prio]
                 /\ conInit' = conInit /\ rd' = rd /\ faults' = faults
           /\ WalkBegin(c) =>
                 /\ cl[c].pc = "walk"
                 /\ cl'[c] = [cl[c] EXCEPT !.pc = "send", !.cur = rd[cl[c].chan].hash]
                 /\ conInit' = conInit /\ rd' = rd /\ faults' = faults
           /\ WalkEnd(c) =>
                 /\ cl[c].pc = "send" /\ cl'[c] = [cl[c] EXCEPT !.pc = "over"]
                 /\ conInit' = conInit /\ rd' = rd /\ faults' = faults
           /\ Over(c) =>
                 /\ cl[c].pc = "over" /\ cl'[c] = [cl[c] EXCEPT !.pc = "wait"]
                 /\ rd' = [rd EXCEPT ![cl[c].prio].count = @ + 1]
                 /\ conInit' = conInit /\ faults' = faults
           /\ ThreadExit(c) =>
                 /\ freeing = c /\ cl[c].pc \in {"init", "wait"}
                 /\ cl'[c] = [cl[c] EXCEPT !.pc = "exited"]
                 /\ rd' = [rd EXCEPT ![cl[c].prio].threads = IF @ > 0 THEN @ - 1 ELSE 0]
                 /\ conInit' = conInit /\ faults' = faults \cup ExitFaults(c)
           /\ Sender(c) =>
                 /\ \A d \in Clients : d # c => cl'[d] = cl[d]
                 /\ UNCHANGED <<list, accepted, freeing>>
<1>1. cl \in [Clients -> ClientType]
  BY DEF TypeInv
<1>2. /\ ThreadInit(c) =>
            /\ cl[c].pc = "init" /\ cl'[c] = [cl[c] EXCEPT !.pc = "wait", !.reg = FALSE]
            /\ conInit' /\ rd' = rd /\ faults' = faults
      /\ Wake(c) =>
            /\ cl[c].pc = "wait" /\ ~cl[c].wait
            /\ cl'[c] = [cl[c] EXCEPT !.pc = "walk", !.wait = TRUE, !.chan = cl[c].prio]
            /\ conInit' = conInit /\ rd' = rd /\ faults' = faults
  BY <1>1 DEF ThreadInit, Wake
<1>3. /\ WalkBegin(c) =>
            /\ cl[c].pc = "walk"
            /\ cl'[c] = [cl[c] EXCEPT !.pc = "send", !.cur = rd[cl[c].chan].hash]
            /\ conInit' = conInit /\ rd' = rd /\ faults' = faults
      /\ WalkEnd(c) =>
            /\ cl[c].pc = "send" /\ cl'[c] = [cl[c] EXCEPT !.pc = "over"]
            /\ conInit' = conInit /\ rd' = rd /\ faults' = faults
  BY <1>1 DEF WalkBegin, WalkEnd
<1>4. /\ Over(c) =>
            /\ cl[c].pc = "over" /\ cl'[c] = [cl[c] EXCEPT !.pc = "wait"]
            /\ rd' = [rd EXCEPT ![cl[c].prio].count = @ + 1]
            /\ conInit' = conInit /\ faults' = faults
      /\ ThreadExit(c) =>
            /\ freeing = c /\ cl[c].pc \in {"init", "wait"}
            /\ cl'[c] = [cl[c] EXCEPT !.pc = "exited"]
            /\ rd' = [rd EXCEPT ![cl[c].prio].threads = IF @ > 0 THEN @ - 1 ELSE 0]
            /\ conInit' = conInit /\ faults' = faults \cup ExitFaults(c)
  BY <1>1 DEF Over, ThreadExit
<1>5. Sender(c) => /\ \A d \in Clients : d # c => cl'[d] = cl[d]
                   /\ UNCHANGED <<list, accepted, freeing>>
  BY <1>1 DEF Sender, ThreadInit, Wake, WalkBegin, WalkEnd, Over, ThreadExit
<1> QED
  BY <1>2, <1>3, <1>4, <1>5

\* What a step of uloop on the list's clients does, field by field.
LEMMA UloopFacts ==
    ASSUME TypeInv, NEW c \in Clients
    PROVE  /\ Accept(c) =>
                 /\ cl[c].pc = "gone" /\ freeing = NoClient /\ cl'[c] = NewClient
                 /\ \A d \in Clients : d # c => cl'[d] = cl[d]
                 /\ UNCHANGED <<rd, conInit, freeing, faults>>
           /\ \A p \in Prios : Register(c, p) =>
                 /\ freeing = NoClient /\ c \in Connected
                 /\ cl'[c] = [cl[c] EXCEPT !.prio = p, !.reg = TRUE, !.cmds = @ + 1]
                 /\ \A d \in Clients : d # c => cl'[d] = cl[d]
                 /\ rd' = IF cl[c].reg \/ ~conInit THEN rd ELSE [rd EXCEPT ![p].threads = @ + 1]
                 /\ faults \subseteq faults'
                 /\ "count" \notin faults' => cl[c].pc # "init" /\ (cl[c].reg => cl[c].prio = p)
                 /\ UNCHANGED <<conInit, freeing>>
           /\ Subscribe(c) \/ Unsubscribe(c) =>
                 /\ \A d \in Clients :
                       \E S, n : cl'[d] = [cl[d] EXCEPT !.subs = S, !.cmds = n]
                 /\ UNCHANGED <<rd, conInit, freeing, faults>>
           /\ FreeBegin(c) =>
                 /\ freeing = NoClient /\ c \in Connected /\ freeing' = c
                 /\ UNCHANGED <<cl, rd, conInit, faults>>
<1>1. cl \in [Clients -> ClientType]
  BY DEF TypeInv
<1>2. /\ Accept(c) =>
            /\ cl[c].pc = "gone" /\ freeing = NoClient /\ cl'[c] = NewClient
            /\ \A d \in Clients : d # c => cl'[d] = cl[d]
            /\ UNCHANGED <<rd, conInit, freeing, faults>>
      /\ FreeBegin(c) =>
            /\ freeing = NoClient /\ c \in Connected /\ freeing' = c
            /\ UNCHANGED <<cl, rd, conInit, faults>>
  BY <1>1 DEF Accept, FreeBegin
<1>3. ASSUME NEW p \in Prios, Register(c, p)
      PROVE  /\ freeing = NoClient /\ c \in Connected
             /\ cl'[c] = [cl[c] EXCEPT !.prio = p, !.reg = TRUE, !.cmds = @ + 1]
             /\ \A d \in Clients : d # c => cl'[d] = cl[d]
             /\ rd' = IF cl[c].reg \/ ~conInit THEN rd ELSE [rd EXCEPT ![p].threads = @ + 1]
             /\ faults \subseteq faults'
             /\ "count" \notin faults' => cl[c].pc # "init" /\ (cl[c].reg => cl[c].prio = p)
             /\ UNCHANGED <<conInit, freeing>>
  BY <1>1, <1>3 DEF Register, Command, Disturb
<1>4. ASSUME Subscribe(c) \/ Unsubscribe(c), NEW d \in Clients
      PROVE  \E S, n : cl'[d] = [cl[d] EXCEPT !.subs = S, !.cmds = n]
  <2>1. CASE Subscribe(c)
    BY <2>1, Zenon DEF Subscribe
  <2>2. CASE Unsubscribe(c)
    BY <2>2, Zenon DEF Unsubscribe
  <2> QED
    BY <1>4, <2>1, <2>2, Zenon
<1>5. Subscribe(c) \/ Unsubscribe(c) => UNCHANGED <<rd, conInit, freeing, faults>>
  BY Zenon DEF Subscribe, Unsubscribe
<1> QED
  BY <1>2, <1>3, <1>4, <1>5, Zenon

\* What a step of a reader does to its own record and to the clients.
LEMMA ReaderFacts ==
    ASSUME TypeInv, NEW p \in Prios
    PROVE  /\ Read(p) => /\ rd[p].pc = "read"
                         /\ rd'[p] = [rd[p] EXCEPT !.pc = "notify", !.round = @ + 1, !.hash = rd[p].round + 1]
                         /\ cl' = cl /\ faults' = faults
           /\ Notify(p) =>
                 /\ rd[p].pc = "notify" /\ freeing = NoClient
                 /\ rd'[p] = [rd[p] EXCEPT !.pc = "min", !.told = Audience(p), !.num = Cardinality(Audience(p))]
                 /\ \A d \in Clients :
                       cl'[d] = IF d \in Audience(p) THEN [cl[d] EXCEPT !.wait = FALSE] ELSE cl[d]
                 /\ faults \subseteq faults'
                 /\ "round" \notin faults' => \A d \in Audience(p) : cl[d].reg
                 /\ "count" \in faults' => "count" \in faults
           /\ CountGet(p) =>
                 /\ rd[p].pc = "min" /\ cl' = cl /\ faults' = faults
                 /\ rd'[p] = IF conInit /\ rd[p].threads < rd[p].num THEN [rd[p] EXCEPT !.pc = "again"]
                             ELSE [rd[p] EXCEPT !.num = rd[p].num,
                                                !.pc = IF rd[p].num > 0 /\ conInit THEN "wait" ELSE "clear"]
           /\ CountGetAgain(p) =>
                 /\ rd[p].pc = "again" /\ cl' = cl /\ faults' = faults
                 /\ rd'[p] = [rd[p] EXCEPT !.num = rd[p].threads,
                                           !.pc = IF rd[p].threads > 0 /\ conInit THEN "wait" ELSE "clear"]
           /\ WaitOver(p) => /\ rd[p].pc = "wait" /\ rd[p].count >= rd[p].num
                             /\ rd'[p] = [rd[p] EXCEPT !.pc = "clear", !.count = 0, !.num = 0]
                             /\ cl' = cl /\ faults' = faults
           /\ WaitTimeout(p) => /\ rd'[p] = [rd[p] EXCEPT !.pc = "clear", !.count = 0, !.num = 0]
                                /\ cl' = cl /\ faults' = faults \cup {"round"}
           /\ Clear(p) => /\ rd[p].pc = "clear"
                          /\ rd'[p] = [rd[p] EXCEPT !.pc = "read", !.hash = 0, !.told = {}]
                          /\ cl' = cl /\ faults' = faults
           /\ Read(p) \/ Round(p) \/ WaitTimeout(p) =>
                 /\ \A q \in Prios : q # p => rd'[q] = rd[q]
                 /\ UNCHANGED <<list, conInit, accepted, freeing>>
<1>1. rd \in [Prios -> ReaderType] /\ cl \in [Clients -> ClientType]
  BY DEF TypeInv
<1>2. /\ Read(p) => /\ rd[p].pc = "read"
                    /\ rd'[p] = [rd[p] EXCEPT !.pc = "notify", !.round = @ + 1, !.hash = rd[p].round + 1]
                    /\ cl' = cl /\ faults' = faults
      /\ CountGet(p) =>
            /\ rd[p].pc = "min" /\ cl' = cl /\ faults' = faults
            /\ rd'[p] = IF conInit /\ rd[p].threads < rd[p].num THEN [rd[p] EXCEPT !.pc = "again"]
                        ELSE [rd[p] EXCEPT !.num = rd[p].num,
                                           !.pc = IF rd[p].num > 0 /\ conInit THEN "wait" ELSE "clear"]
      /\ CountGetAgain(p) =>
            /\ rd[p].pc = "again" /\ cl' = cl /\ faults' = faults
            /\ rd'[p] = [rd[p] EXCEPT !.num = rd[p].threads,
                                      !.pc = IF rd[p].threads > 0 /\ conInit THEN "wait" ELSE "clear"]
  BY <1>1, ZenonT(30) DEF Read, CountGet, CountGetAgain, Settle
<1>3. /\ WaitOver(p) => /\ rd[p].pc = "wait" /\ rd[p].count >= rd[p].num
                        /\ rd'[p] = [rd[p] EXCEPT !.pc = "clear", !.count = 0, !.num = 0]
                        /\ cl' = cl /\ faults' = faults
      /\ WaitTimeout(p) => /\ rd'[p] = [rd[p] EXCEPT !.pc = "clear", !.count = 0, !.num = 0]
                           /\ cl' = cl /\ faults' = faults \cup {"round"}
      /\ Clear(p) => /\ rd[p].pc = "clear"
                     /\ rd'[p] = [rd[p] EXCEPT !.pc = "read", !.hash = 0, !.told = {}]
                     /\ cl' = cl /\ faults' = faults
  BY <1>1 DEF WaitOver, WaitTimeout, Clear
<1>4. ASSUME Notify(p)
      PROVE  /\ rd[p].pc = "notify" /\ freeing = NoClient
             /\ rd'[p] = [rd[p] EXCEPT !.pc = "min", !.told = Audience(p), !.num = Cardinality(Audience(p))]
             /\ \A d \in Clients :
                   cl'[d] = IF d \in Audience(p) THEN [cl[d] EXCEPT !.wait = FALSE] ELSE cl[d]
             /\ faults \subseteq faults'
             /\ "round" \notin faults' => \A d \in Audience(p) : cl[d].reg
             /\ "count" \in faults' => "count" \in faults
  BY <1>1, <1>4 DEF Notify, Disturb
<1>5. Read(p) \/ Round(p) \/ WaitTimeout(p) =>
            /\ \A q \in Prios : q # p => rd'[q] = rd[q]
            /\ UNCHANGED <<list, conInit, accepted, freeing>>
  BY <1>1 DEF Read, Round, Notify, CountGet, CountGetAgain, Settle, WaitOver, WaitTimeout, Clear
<1> QED
  BY <1>2, <1>3, <1>4, <1>5

\* A reader changes nothing of a client but its wait flag, and not thread_count.
LEMMA ReaderLeaves ==
    ASSUME TypeInv, NEW p \in Prios, Read(p) \/ Round(p) \/ WaitTimeout(p)
    PROVE  /\ \A d \in Clients : /\ cl'[d].pc = cl[d].pc /\ cl'[d].reg = cl[d].reg
                                 /\ cl'[d].prio = cl[d].prio /\ cl'[d].chan = cl[d].chan
                                 /\ cl'[d].cur = cl[d].cur /\ cl'[d].subs = cl[d].subs
           /\ \A q \in Prios : rd'[q].threads = rd[q].threads
           /\ UNCHANGED <<list, conInit, accepted, freeing>>
           /\ faults \subseteq faults' /\ ("count" \in faults' => "count" \in faults)
<1>t. \A d \in Clients : cl[d] \in ClientType
  BY DEF TypeInv
<1>r. \A q \in Prios : rd[q] \in ReaderType
  BY DEF TypeInv
<1>1. CASE Notify(p)
  <2>1. /\ \A d \in Clients : cl'[d] = IF d \in Audience(p) THEN [cl[d] EXCEPT !.wait = FALSE] ELSE cl[d]
        /\ rd'[p] = [rd[p] EXCEPT !.pc = "min", !.told = Audience(p), !.num = Cardinality(Audience(p))]
        /\ faults \subseteq faults' /\ ("count" \in faults' => "count" \in faults)
    BY <1>1, ReaderFacts, Zenon
  <2>t. rd'[p].threads = rd[p].threads
    BY <1>r, <2>1 DEF ReaderType
  <2>2. \A q \in Prios : q # p => rd'[q] = rd[q]
    BY <1>1, ReaderFacts, Zenon DEF Round
  <2>3. UNCHANGED <<list, conInit, accepted, freeing>>
    BY <1>1 DEF Notify
  <2>4. \A d \in Clients : /\ cl'[d].pc = cl[d].pc /\ cl'[d].reg = cl[d].reg
                           /\ cl'[d].prio = cl[d].prio /\ cl'[d].chan = cl[d].chan
                           /\ cl'[d].cur = cl[d].cur /\ cl'[d].subs = cl[d].subs
    <3> SUFFICES ASSUME NEW d \in Clients
                 PROVE  /\ cl'[d].pc = cl[d].pc /\ cl'[d].reg = cl[d].reg
                        /\ cl'[d].prio = cl[d].prio /\ cl'[d].chan = cl[d].chan
                        /\ cl'[d].cur = cl[d].cur /\ cl'[d].subs = cl[d].subs
      OBVIOUS
    <3>1. cl[d] \in ClientType /\ cl'[d] \in {[cl[d] EXCEPT !.wait = FALSE], cl[d]}
      BY <1>t, <2>1, ZenonT(30)
    <3> QED
      BY <3>1 DEF ClientType
  <2> QED
    BY <2>1, <2>t, <2>2, <2>3, <2>4, Zenon
<1>2. CASE ~Notify(p)
  <2>1. cl' = cl /\ faults \subseteq faults' /\ ("count" \in faults' => "count" \in faults)
    BY <1>2 DEF Read, Round, CountGet, CountGetAgain, Settle, WaitOver, WaitTimeout, Clear
  <2>2. \A q \in Prios : q # p => rd'[q] = rd[q]
    BY ReaderFacts, Zenon
  <2>3. UNCHANGED <<list, conInit, accepted, freeing>>
    BY ReaderFacts, Zenon
  <2>4. rd'[p].threads = rd[p].threads
    BY <1>2, <1>r, ReaderFacts, ZenonT(30) DEF Round, ReaderType
  <2> QED
    BY <2>1, <2>2, <2>3, <2>4
<1> QED
  BY <1>1, <1>2

\* thread_exited, con_wait and the first REGISTER of a thread: every step keeps
\* what LifeInv says of them.
LEMMA LifeNext == TypeInv /\ TypeInv' /\ LifeInv /\ [Next]_vars => LifeInv'
<1> SUFFICES ASSUME TypeInv, TypeInv', LifeInv, [Next]_vars PROVE LifeInv'
  OBVIOUS
<1>t. \A d \in Clients : cl[d] \in ClientType
  BY DEF TypeInv
<1>c. /\ Connected = {d \in Clients : cl[d].pc # "gone"} /\ NoClient \notin Clients
      /\ Connected' = {d \in Clients : cl'[d].pc # "gone"}
  BY ConstFacts DEF TypeInv
<1>l. /\ freeing # NoClient => freeing \in Connected
      /\ \A d \in Clients :
            /\ cl[d].pc = "exited" => freeing = d
            /\ cl[d].pc \in {"wait", "walk", "send", "over"} => conInit
            /\ "count" \notin faults /\ cl[d].reg => cl[d].pc \notin {"gone", "init"}
  BY DEF LifeInv
<1>1. ASSUME NEW c \in Clients, Accept(c) PROVE LifeInv'
  <2>1. /\ freeing' = freeing /\ freeing = NoClient /\ conInit' = conInit /\ faults' = faults
        /\ cl'[c] = NewClient /\ \A d \in Clients : d # c => cl'[d] = cl[d]
    BY <1>1, UloopFacts, Zenon
  <2>2. cl'[c].pc = "init" /\ ~cl'[c].reg
    BY <2>1 DEF NewClient
  <2> QED
    BY <1>l, <2>1, <2>2 DEF LifeInv
<1>2. ASSUME NEW c \in Clients, NEW p \in Prios, Register(c, p) PROVE LifeInv'
  <2>1. /\ freeing' = freeing /\ freeing = NoClient /\ conInit' = conInit /\ faults \subseteq faults'
        /\ "count" \notin faults' => cl[c].pc # "init"
        /\ \A d \in Clients : d # c => cl'[d] = cl[d]
        /\ cl'[c] = [cl[c] EXCEPT !.prio = p, !.reg = TRUE, !.cmds = @ + 1] /\ c \in Connected
    BY <1>2, UloopFacts, Zenon
  <2>2. cl'[c].pc = cl[c].pc /\ cl[c].pc # "gone"
    BY <1>t, <1>c, <2>1 DEF ClientType
  <2> QED
    BY <1>l, <2>1, <2>2, ZenonT(30) DEF LifeInv
<1>3. ASSUME NEW c \in Clients, Subscribe(c) \/ Unsubscribe(c) PROVE LifeInv'
  <2>1. /\ \A d \in Clients : \E S, n : cl'[d] = [cl[d] EXCEPT !.subs = S, !.cmds = n]
        /\ UNCHANGED <<conInit, freeing, faults>>
    BY <1>3, UloopFacts, Zenon
  <2>2. \A d \in Clients : cl'[d].pc = cl[d].pc /\ cl'[d].reg = cl[d].reg
    BY <1>t, <2>1, Zenon DEF ClientType
  <2> QED
    BY <1>l, <1>c, <2>1, <2>2, Zenon DEF LifeInv
<1>4. ASSUME NEW c \in Clients, FreeBegin(c) PROVE LifeInv'
  <2>1. /\ freeing = NoClient /\ freeing' = c /\ c \in Connected
        /\ UNCHANGED <<cl, conInit, faults>>
    BY <1>4, UloopFacts, Zenon
  <2> QED
    BY <1>l, <1>c, <2>1 DEF LifeInv
<1>5. CASE FreeEnd
  <2>1. /\ freeing \in Clients /\ freeing' = NoClient /\ UNCHANGED <<conInit, faults>>
        /\ cl'[freeing] = [NewClient EXCEPT !.pc = "gone"] /\ \A d \in Clients : d # freeing => cl'[d] = cl[d]
    BY <1>5 DEF FreeEnd, TypeInv
  <2>2. cl'[freeing].pc = "gone" /\ ~cl'[freeing].reg
    BY <2>1 DEF NewClient
  <2>3. \A d \in Clients : cl'[d].pc # "exited"
    BY <1>l, <2>1, <2>2
  <2> QED
    BY <1>l, <2>1, <2>2, <2>3 DEF LifeInv
<1>6. ASSUME NEW c \in Clients, Sender(c) PROVE LifeInv'
  <2>1. freeing' = freeing /\ \A d \in Clients : d # c => cl'[d] = cl[d]
    BY <1>6, SenderFacts, Zenon
  <2>2. cl[c] \in ClientType
    BY <1>t
  <2>3. CASE ThreadInit(c)
    <3>1. cl'[c].pc = "wait" /\ ~cl'[c].reg /\ conInit' /\ faults' = faults /\ cl[c].pc = "init"
      BY <2>2, <2>3, SenderFacts, ZenonT(30) DEF ClientType
    <3> QED
      BY <1>l, <1>c, <2>1, <3>1 DEF LifeInv
  <2>4. CASE Wake(c) \/ WalkBegin(c) \/ WalkEnd(c) \/ Over(c)
    <3>1. /\ cl'[c].pc \in {"wait", "walk", "send", "over"} /\ cl[c].pc \in {"wait", "walk", "send", "over"}
          /\ conInit' = conInit /\ faults' = faults
      BY <2>2, <2>4, SenderFacts, Zenon DEF ClientType
    <3> QED
      BY <1>l, <1>c, <2>1, <3>1 DEF LifeInv
  <2>5. CASE ThreadExit(c)
    <3>1. cl'[c].pc = "exited" /\ freeing = c /\ conInit' = conInit /\ faults \subseteq faults'
      BY <2>2, <2>5, SenderFacts, Zenon DEF ClientType
    <3> QED
      BY <1>l, <1>c, <2>1, <3>1 DEF LifeInv
  <2> QED
    BY <1>6, <2>3, <2>4, <2>5 DEF Sender
<1>7. ASSUME NEW p \in Prios, Read(p) \/ Round(p) \/ WaitTimeout(p) PROVE LifeInv'
  <2>1. /\ \A d \in Clients : cl'[d].pc = cl[d].pc /\ cl'[d].reg = cl[d].reg
        /\ UNCHANGED <<list, conInit, freeing>> /\ faults \subseteq faults'
    BY <1>7, ReaderLeaves
  <2> QED
    BY <1>l, <1>c, <2>1 DEF LifeInv
<1>8. CASE UNCHANGED vars
  BY <1>8 DEF vars, LifeInv, Connected
<1> QED
  BY <1>1, <1>2, <1>3, <1>4, <1>5, <1>6, <1>7, <1>8 DEF Next, Uloop

\* While nobody's registration changes thread_count stays right.
LEMMA CountFrame ==
    ASSUME TypeInv, TypeInv', CountExact, "count" \in faults => "count" \in faults',
           \A q \in Prios : rd'[q].threads = rd[q].threads,
           "count" \notin faults' =>
               \A d \in Clients :
                   (d \in Connected' /\ cl'[d].reg /\ cl'[d].pc # "exited")
                     <=> (d \in Connected /\ cl[d].reg /\ cl[d].pc # "exited"),
           \A d \in Clients : d \in Connected /\ cl[d].reg /\ cl[d].pc # "exited" => cl'[d].prio = cl[d].prio
    PROVE  CountExact'
<1> SUFFICES ASSUME "count" \notin faults', NEW p \in Prios
             PROVE  rd'[p].threads = Cardinality(Registered(p)')
  BY DEF CountExact, Registered
<1>1. Connected \subseteq Clients /\ Connected' \subseteq Clients
  BY DEF TypeInv
<1>2. Registered(p)' = Registered(p)
  BY <1>1 DEF Registered
<1>3. rd[p].threads = Cardinality(Registered(p))
  BY DEF CountExact, Registered
<1> QED
  BY <1>2, <1>3

\* Every step keeps thread_count right: the first REGISTER adds the thread and
\* _net_thread_exit takes it away.
LEMMA CountNext ==
    TypeInv /\ TypeInv' /\ LifeInv /\ CountExact /\ [Next]_vars => CountExact'
<1> SUFFICES ASSUME TypeInv, TypeInv', LifeInv, CountExact, [Next]_vars PROVE CountExact'
  OBVIOUS
<1>t. (\A d \in Clients : cl[d] \in ClientType) /\ (\A q \in Prios : rd[q] \in ReaderType)
  BY DEF TypeInv
<1>c. /\ Connected = {d \in Clients : cl[d].pc # "gone"} /\ NoClient \notin Clients
      /\ Connected' = {d \in Clients : cl'[d].pc # "gone"}
  BY ConstFacts DEF TypeInv
<1>l. \A d \in Clients :
         /\ cl[d].pc = "exited" => freeing = d
         /\ cl[d].pc \in {"wait", "walk", "send", "over"} => conInit
         /\ "count" \notin faults /\ cl[d].reg => cl[d].pc \notin {"gone", "init"}
  BY DEF LifeInv
<1>f. \A q \in Prios : Registered(q) \subseteq Connected /\ IsFiniteSet(Registered(q))
  <2>1. IsFiniteSet(Connected)
    BY DEF TypeInv
  <2>2. \A q \in Prios : Registered(q) \subseteq Connected
    BY DEF Registered
  <2> QED
    BY <2>1, <2>2, FS_Subset
<1>g. \A q \in Prios :
         /\ Registered(q) \subseteq Clients /\ Registered(q)' \subseteq Clients
         /\ \A d \in Clients :
               /\ d \in Registered(q) <=>
                     cl[d].pc \notin {"gone", "exited"} /\ cl[d].reg /\ cl[d].prio = q
               /\ d \in Registered(q)' <=>
                     cl'[d].pc \notin {"gone", "exited"} /\ cl'[d].reg /\ cl'[d].prio = q
  BY <1>c DEF Registered
<1>1. ASSUME NEW c \in Clients, Accept(c) PROVE CountExact'
  <2>1. /\ rd' = rd /\ faults' = faults /\ cl[c].pc = "gone" /\ cl'[c] = NewClient
        /\ \A d \in Clients : d # c => cl'[d] = cl[d]
    BY <1>1, UloopFacts, Zenon
  <2>2. cl'[c].pc = "init" /\ ~cl'[c].reg /\ c \notin Connected
    BY <2>1, <1>c DEF NewClient
  <2> QED
    BY <1>c, <2>1, <2>2, CountFrame
<1>2. ASSUME NEW c \in Clients, NEW p \in Prios, Register(c, p) PROVE CountExact'
  <2> SUFFICES ASSUME "count" \notin faults' PROVE CountExact'
    BY DEF CountExact
  <2>1. /\ freeing = NoClient /\ "count" \notin faults /\ c \in Connected
        /\ cl[c].pc # "init" /\ (cl[c].reg => cl[c].prio = p)
        /\ rd' = IF cl[c].reg \/ ~conInit THEN rd ELSE [rd EXCEPT ![p].threads = @ + 1]
        /\ cl'[c] = [cl[c] EXCEPT !.prio = p, !.reg = TRUE, !.cmds = @ + 1]
        /\ \A d \in Clients : d # c => cl'[d] = cl[d]
    BY <1>2, UloopFacts, Zenon
  <2>2. cl'[c].pc = cl[c].pc /\ cl'[c].reg /\ cl'[c].prio = p
    BY <1>t, <2>1 DEF ClientType
  <2>3. cl[c].pc \in {"wait", "walk", "send", "over"} /\ conInit
    BY <1>c, <1>l, <1>t, <2>1 DEF ClientType, ClientPc
  <2>4. CASE cl[c].reg
    BY <1>c, <2>1, <2>2, <2>4, CountFrame, ZenonT(30)
  <2>5. CASE ~cl[c].reg
    <3>1. rd' = [rd EXCEPT ![p].threads = @ + 1] /\ rd \in [Prios -> ReaderType]
      BY <2>1, <2>3, <2>5 DEF TypeInv
    <3>2. /\ rd'[p].threads = rd[p].threads + 1
          /\ \A q \in Prios : q # p => rd'[q].threads = rd[q].threads
      BY <3>1 DEF ReaderType
    <3>3. /\ Registered(p)' = Registered(p) \cup {c} /\ c \notin Registered(p)
          /\ \A q \in Prios : q # p => Registered(q)' = Registered(q)
      <4>0. \A q \in Prios : c \notin Registered(q) /\ (c \in Registered(q)' <=> q = p)
        BY <1>g, <2>2, <2>3, <2>5
      <4>d. \A q \in Prios, d \in Clients : d # c => (d \in Registered(q)' <=> d \in Registered(q))
        BY <1>g, <2>1
      <4>1. Registered(p)' = Registered(p) \cup {c} /\ c \notin Registered(p)
        BY <1>g, <4>0, <4>d
      <4>2. ASSUME NEW q \in Prios, q # p PROVE Registered(q)' = Registered(q)
        <5>1. Registered(q) \subseteq Clients /\ Registered(q)' \subseteq Clients
          BY <1>g
        <5>2. \A d \in Clients : d \in Registered(q)' <=> d \in Registered(q)
          BY <4>0, <4>d, <4>2
        <5> QED
          BY <5>1, <5>2, Zenon
      <4> QED
        BY <4>1, <4>2
    <3>4. Cardinality(Registered(p)') = Cardinality(Registered(p)) + 1
      BY <3>3, <1>f, FS_AddElement, ZenonT(30)
    <3>5. \A q \in Prios : rd[q].threads = Cardinality(Registered(q))
      BY <2>1 DEF CountExact, Registered
    <3>6. \A q \in Prios : rd'[q].threads = Cardinality(Registered(q)')
      BY <3>2, <3>3, <3>4, <3>5
    <3> QED
      BY <3>6 DEF CountExact, Registered
  <2> QED
    BY <2>4, <2>5
<1>3. ASSUME NEW c \in Clients, Subscribe(c) \/ Unsubscribe(c) PROVE CountExact'
  <2>1. /\ \A d \in Clients : \E S, n : cl'[d] = [cl[d] EXCEPT !.subs = S, !.cmds = n]
        /\ UNCHANGED <<rd, faults>>
    BY <1>3, UloopFacts, Zenon
  <2>2. \A d \in Clients : cl'[d].pc = cl[d].pc /\ cl'[d].reg = cl[d].reg /\ cl'[d].prio = cl[d].prio
    BY <1>t, <2>1, ZenonT(30) DEF ClientType
  <2> QED
    BY <1>c, <2>1, <2>2, CountFrame, Zenon
<1>4. ASSUME NEW c \in Clients, FreeBegin(c) PROVE CountExact'
  <2>1. UNCHANGED <<cl, rd, faults>>
    BY <1>4, UloopFacts, Zenon
  <2> QED
    BY <1>c, <2>1, CountFrame
<1>5. CASE FreeEnd
  <2>1. /\ freeing \in Clients /\ UNCHANGED <<rd, faults>> /\ cl[freeing].pc = "exited"
        /\ cl'[freeing] = [NewClient EXCEPT !.pc = "gone"] /\ \A d \in Clients : d # freeing => cl'[d] = cl[d]
    BY <1>5 DEF FreeEnd, TypeInv
  <2>2. cl'[freeing].pc = "gone"
    BY <2>1 DEF NewClient
  <2> QED
    BY <1>c, <2>1, <2>2, CountFrame, ZenonT(30)
<1>6. ASSUME NEW c \in Clients, Sender(c) PROVE CountExact'
  <2>1. \A d \in Clients : d # c => cl'[d] = cl[d]
    BY <1>6, SenderFacts, Zenon
  <2>2. cl[c] \in ClientType
    BY <1>t
  <2>3. CASE ThreadInit(c)
    <3>1. /\ cl'[c].pc = "wait" /\ ~cl'[c].reg /\ cl[c].pc = "init" /\ cl'[c].prio = cl[c].prio
          /\ faults' = faults /\ rd' = rd
      BY <2>2, <2>3, SenderFacts, ZenonT(30) DEF ClientType
    <3> QED
      BY <1>c, <1>l, <2>1, <3>1, CountFrame
  <2>4. CASE Wake(c) \/ WalkBegin(c) \/ WalkEnd(c)
    <3>1. /\ cl'[c].pc \in {"wait", "walk", "send", "over"} /\ cl[c].pc \in {"wait", "walk", "send", "over"}
          /\ cl'[c].reg = cl[c].reg /\ cl'[c].prio = cl[c].prio /\ rd' = rd /\ faults' = faults
      BY <2>2, <2>4, SenderFacts, Zenon DEF ClientType
    <3> QED
      BY <1>c, <2>1, <3>1, CountFrame
  <2>5. CASE Over(c)
    <3>1. /\ cl'[c].pc = "wait" /\ cl[c].pc = "over" /\ cl'[c].reg = cl[c].reg /\ cl'[c].prio = cl[c].prio
          /\ rd' = [rd EXCEPT ![cl[c].prio].count = @ + 1] /\ faults' = faults
      BY <2>2, <2>5, SenderFacts, ZenonT(30) DEF ClientType
    <3>2. \A q \in Prios : rd'[q].threads = rd[q].threads
      BY <1>t, <3>1 DEF TypeInv, ReaderType
    <3> QED
      BY <1>c, <2>1, <3>1, <3>2, CountFrame
  <2>6. CASE ThreadExit(c)
    <3> SUFFICES ASSUME "count" \notin faults' PROVE CountExact'
      BY DEF CountExact
    <3>0. PICK p : p = cl[c].prio
      OBVIOUS
    <3>1. /\ cl'[c].pc = "exited" /\ cl[c].pc \in {"init", "wait"}
          /\ rd' = [rd EXCEPT ![p].threads = IF @ > 0 THEN @ - 1 ELSE 0]
          /\ faults' = faults \cup ExitFaults(c) /\ p \in Prios
      BY <2>2, <2>6, <3>0, SenderFacts, Zenon DEF ClientType
    <3>2. cl[c].reg /\ "count" \notin faults
      BY <3>1 DEF ExitFaults
    <3>3. /\ rd'[p].threads = IF rd[p].threads > 0 THEN rd[p].threads - 1 ELSE 0
          /\ \A q \in Prios : q # p => rd'[q].threads = rd[q].threads
      BY <1>t, <3>1 DEF TypeInv, ReaderType
    <3>4. /\ Registered(p)' = Registered(p) \ {c} /\ c \in Registered(p)
          /\ \A q \in Prios : q # p => Registered(q)' = Registered(q)
      <4>0. \A q \in Prios : c \notin Registered(q)' /\ (c \in Registered(q) <=> q = p)
        BY <1>g, <3>0, <3>1, <3>2
      <4>d. \A q \in Prios, d \in Clients : d # c => (d \in Registered(q)' <=> d \in Registered(q))
        BY <1>g, <2>1
      <4>1. Registered(p)' = Registered(p) \ {c} /\ c \in Registered(p)
        BY <1>g, <3>1, <4>0, <4>d
      <4>2. ASSUME NEW q \in Prios, q # p PROVE Registered(q)' = Registered(q)
        <5>1. Registered(q) \subseteq Clients /\ Registered(q)' \subseteq Clients
          BY <1>g
        <5>2. \A d \in Clients : d \in Registered(q)' <=> d \in Registered(q)
          BY <4>0, <4>d, <4>2
        <5> QED
          BY <5>1, <5>2, Zenon
      <4> QED
        BY <4>1, <4>2
    <3>5. /\ Cardinality(Registered(p)') = Cardinality(Registered(p)) - 1
          /\ Cardinality(Registered(p)) \in Nat /\ Cardinality(Registered(p)) # 0
      BY <3>1, <3>4, <1>f, FS_RemoveElement, FS_CardinalityType, FS_EmptySet
    <3>6. \A q \in Prios : rd[q].threads = Cardinality(Registered(q))
      BY <3>2 DEF CountExact, Registered
    <3>8. rd'[p].threads = Cardinality(Registered(p)')
      BY <3>1, <3>3, <3>5, <3>6
    <3>7. \A q \in Prios : rd'[q].threads = Cardinality(Registered(q)')
      BY <3>3, <3>4, <3>6, <3>8
    <3> QED
      BY <3>7 DEF CountExact, Registered
  <2> QED
    BY <1>6, <2>3, <2>4, <2>5, <2>6 DEF Sender
<1>7. ASSUME NEW p \in Prios, Read(p) \/ Round(p) \/ WaitTimeout(p) PROVE CountExact'
  <2>1. /\ \A d \in Clients : cl'[d].pc = cl[d].pc /\ cl'[d].reg = cl[d].reg /\ cl'[d].prio = cl[d].prio
        /\ \A q \in Prios : rd'[q].threads = rd[q].threads
        /\ faults \subseteq faults'
    BY <1>7, ReaderLeaves
  <2> QED
    BY <1>c, <2>1, CountFrame
<1>8. CASE UNCHANGED vars
  BY <1>8 DEF vars, CountExact, Connected
<1> QED
  BY <1>1, <1>2, <1>3, <1>4, <1>5, <1>6, <1>7, <1>8 DEF Next, Uloop

\* LifeInv and thread_count hold of a fresh server and every step keeps them.
LEMMA CountAlways == Spec => [](LifeInv /\ CountExact)
<1>1. Init => LifeInv /\ CountExact
  <2> SUFFICES ASSUME Init PROVE LifeInv /\ CountExact
    OBVIOUS
  <2>1. Connected = {} /\ freeing = NoClient
    BY DEF Init, Connected
  <2>2. \A c \in Clients : cl[c].pc = "gone" /\ ~cl[c].reg
    BY DEF Init, NewClient
  <2>3. \A p \in Prios : rd[p].threads = 0 /\ Registered(p) = {}
    BY <2>1 DEF Init, NewReader, Registered
  <2>4. LifeInv
    BY <2>1, <2>2 DEF LifeInv
  <2> QED
    BY <2>3, <2>4, FS_EmptySet DEF CountExact, Registered
<1> QED
  BY <1>1, TypeAlways, LifeNext, CountNext, PTL DEF Spec

\* thread_count is exact in every reachable state.
THEOREM CountStaysSound == Spec => []CountSound
<1>1. TypeInv /\ CountExact => CountSound
  <2> SUFFICES ASSUME TypeInv, CountExact PROVE TypeOK
    BY DEF CountSound
  <2>1. IsInjective(list)
    BY DEF TypeInv, IsInjective
  <2>2. /\ \A c \in Clients :
              /\ cl[c].pc \in ClientPc /\ cl[c].prio \in Prios /\ cl[c].chan \in Prios
              /\ cl[c].reg \in BOOLEAN /\ cl[c].wait \in BOOLEAN
              /\ cl[c].subs \subseteq Prios /\ cl[c].cur \in 0 .. MaxRound
        /\ \A p \in Prios :
              /\ rd[p].pc \in ReaderPc
              /\ rd[p].round \in 0 .. MaxRound /\ rd[p].hash \in 0 .. MaxRound
              /\ rd[p].told \subseteq Clients
              /\ rd[p].num \in Nat /\ rd[p].count \in Nat /\ rd[p].threads \in Nat
    BY DEF TypeInv, ClientType, ReaderType
  <2> QED
    BY <2>1, <2>2 DEF TypeInv, TypeOK
<1> QED
  BY <1>1, TypeAlways, CountAlways, PTL
-----------------------------------------------------------------------------
(* The rounds.                                                               *)

\* What the rounds depend on of client c, and of the reader of channel p.
SameClient(c) ==
    /\ cl'[c].pc = cl[c].pc /\ cl'[c].prio = cl[c].prio /\ cl'[c].reg = cl[c].reg
    /\ cl'[c].wait = cl[c].wait /\ cl'[c].chan = cl[c].chan /\ cl'[c].cur = cl[c].cur

SameReader(p) ==
    /\ rd'[p].pc = rd[p].pc /\ rd'[p].round = rd[p].round /\ rd'[p].hash = rd[p].hash
    /\ rd'[p].told = rd[p].told /\ rd'[p].num = rd[p].num /\ rd'[p].count = rd[p].count

\* The two halves of RoundInv, for use one by one.
RoundsOK  == \A p \in Prios : RoundOf(p) /\ \A c \in rd[p].told : Serving(c, p)
RestingOK == \A c \in Clients : c \notin rd[cl[c].prio].told => Resting(c)

\* A client is woken only by the channel of its own priority.
LEMMA ToldByOwn ==
    ASSUME RoundsOK, NEW c \in Clients, NEW p \in Prios, c \in rd[p].told
    PROVE  /\ cl[c].prio = p /\ cl[c].reg
           /\ cl[c].pc \in {"wait", "walk", "send", "over"}
           /\ rd[p].pc \notin {"read", "notify"}
<1>1. Serving(c, p) /\ RoundOf(p)
  BY DEF RoundsOK
<1> QED
  BY <1>1 DEF Serving, Done, RoundOf

\* What does not change for c and for p does not change for the two together.
LEMMA ServingKeep ==
    ASSUME NEW c \in Clients, NEW p \in Prios, SameClient(c), rd'[p].round = rd[p].round
    PROVE  (Serving(c, p)' <=> Serving(c, p)) /\ (Done(c, p)' <=> Done(c, p))
BY DEF SameClient, Serving, Done

\* The same for a client that rests.
LEMMA RestingKeep ==
    ASSUME NEW c \in Clients, SameClient(c), Resting(c),
           rd'[cl[c].prio].round = rd[cl[c].prio].round, rd'[cl[c].prio].pc = rd[cl[c].prio].pc
    PROVE  Resting(c)'
BY DEF SameClient, Resting

\* The same for the round of channel p as a whole.
LEMMA RoundKeep ==
    ASSUME TypeInv, NEW p \in Prios, SameReader(p), RoundOf(p),
           \A c \in rd[p].told : Done(c, p)' <=> Done(c, p)
    PROVE  RoundOf(p)'
<1>1. {c \in rd'[p].told : Done(c, p)'} = {c \in rd[p].told : Done(c, p)}
  BY DEF SameReader
<1> QED
  BY <1>1 DEF SameReader, RoundOf

\* Steps that touch no reader and only clients that no round is waiting for.
LEMMA OutsideRounds ==
    ASSUME TypeInv, TypeInv', RoundsOK, RestingOK, \A p \in Prios : SameReader(p),
           \A c \in Clients : \/ SameClient(c)
                              \/ (\A p \in Prios : c \notin rd[p].told) /\ Resting(c)'
    PROVE  RoundsOK' /\ RestingOK'
<1>t. /\ \A p \in Prios : rd[p].told \subseteq Clients
      /\ \A c \in Clients : cl[c].prio \in Prios /\ cl'[c].prio \in Prios
  BY DEF TypeInv, ClientType, ReaderType
<1>1. ASSUME NEW p \in Prios PROVE RoundOf(p)' /\ \A c \in rd'[p].told : Serving(c, p)'
  <2>1. \A c \in rd[p].told : SameClient(c) /\ c \in Clients
    BY <1>t
  <2>2. RoundOf(p) /\ rd'[p].told = rd[p].told /\ rd'[p].round = rd[p].round
    BY DEF RoundsOK, SameReader
  <2>3. \A c \in rd[p].told : (Serving(c, p)' <=> Serving(c, p)) /\ (Done(c, p)' <=> Done(c, p))
    BY <2>1, <2>2, ServingKeep
  <2>4. RoundOf(p)'
    BY <2>2, <2>3, RoundKeep
  <2>5. \A c \in rd[p].told : Serving(c, p)
    BY DEF RoundsOK
  <2> QED
    BY <2>2, <2>3, <2>4, <2>5
<1>2. ASSUME NEW c \in Clients, c \notin rd'[cl'[c].prio].told PROVE Resting(c)'
  <2>1. CASE SameClient(c)
    <3>1. /\ rd'[cl[c].prio].told = rd[cl[c].prio].told /\ rd'[cl[c].prio].round = rd[cl[c].prio].round
          /\ rd'[cl[c].prio].pc = rd[cl[c].prio].pc /\ cl'[c].prio = cl[c].prio
      BY <1>t, <2>1 DEF SameReader, SameClient
    <3>2. Resting(c)
      BY <1>2, <3>1 DEF RestingOK
    <3> QED
      BY <2>1, <3>1, <3>2, RestingKeep
  <2> QED
    BY <2>1
<1> QED
  BY <1>1, <1>2 DEF RoundsOK, RestingOK

\* uloop does not disturb a round.
LEMMA RoundUloop ==
    ASSUME TypeInv, TypeInv', LifeInv, RoundsOK, RestingOK, Undisturbed, Undisturbed',
           FreeEnd \/ \E c \in Clients : Uloop(c)
    PROVE  RoundsOK' /\ RestingOK'
<1>t. /\ \A d \in Clients : cl[d] \in ClientType
      /\ rd \in [Prios -> ReaderType] /\ \A q \in Prios : rd[q] \in ReaderType
      /\ Connected = {d \in Clients : cl[d].pc # "gone"} /\ 0 \in Prios
  BY ConstFacts DEF TypeInv
<1>p. \A d \in Clients : cl[d].prio \in Prios
  BY <1>t DEF ClientType
<1>l. \A d \in Clients :
         /\ cl[d].pc = "exited" => freeing = d
         /\ cl[d].reg => cl[d].pc \notin {"gone", "init"}
  BY DEF LifeInv, Undisturbed
<1>s. \A d \in Clients : cl'[d] = cl[d] => SameClient(d)
  BY DEF SameClient
<1>r. rd' = rd => \A q \in Prios : SameReader(q)
  BY DEF SameReader
<1>1. ASSUME NEW c \in Clients, Accept(c) PROVE RoundsOK' /\ RestingOK'
  <2>1. /\ cl[c].pc = "gone" /\ cl'[c] = NewClient /\ rd' = rd
        /\ \A d \in Clients : d # c => cl'[d] = cl[d]
    BY <1>1, UloopFacts, Zenon
  <2>2. \A p \in Prios : c \notin rd[p].told
    BY <2>1, ToldByOwn
  <2>3. Resting(c)'
    BY <2>1 DEF Resting, NewClient
  <2> QED
    BY <1>r, <1>s, <2>1, <2>2, <2>3, OutsideRounds
<1>2. ASSUME NEW c \in Clients, NEW p \in Prios, Register(c, p) PROVE RoundsOK' /\ RestingOK'
  <2>1. /\ freeing = NoClient /\ c \in Connected /\ cl[c].pc # "init" /\ (cl[c].reg => cl[c].prio = p)
        /\ cl'[c] = [cl[c] EXCEPT !.prio = p, !.reg = TRUE, !.cmds = @ + 1]
        /\ \A d \in Clients : d # c => cl'[d] = cl[d]
        /\ rd' = IF cl[c].reg \/ ~conInit THEN rd ELSE [rd EXCEPT ![p].threads = @ + 1]
    BY <1>2, UloopFacts, Zenon DEF Undisturbed
  <2>2. \A q \in Prios : SameReader(q)
    BY <1>t, <2>1 DEF SameReader, ReaderType
  <2>3. /\ cl'[c].pc = cl[c].pc /\ cl'[c].prio = p /\ cl'[c].reg /\ cl'[c].wait = cl[c].wait
        /\ cl'[c].chan = cl[c].chan /\ cl'[c].cur = cl[c].cur
    BY <1>t, <2>1 DEF ClientType
  <2>4. CASE cl[c].reg
    <3>1. SameClient(c)
      BY <1>t, <2>1, <2>3, <2>4 DEF SameClient, ClientType
    <3> QED
      BY <1>s, <2>1, <2>2, <3>1, OutsideRounds
  <2>5. CASE ~cl[c].reg
    <3>1. \A q \in Prios : c \notin rd[q].told
      BY <2>5, ToldByOwn
    <3>2. Resting(c)
      BY <1>p, <3>1 DEF RestingOK
    <3>3. /\ rd'[p].pc = rd[p].pc /\ rd'[p].round = rd[p].round /\ rd[p].round \in 0 .. MaxRound
          /\ rd[p].pc = "notify" => 0 < rd[p].round
      BY <1>t, <2>2 DEF SameReader, RoundsOK, RoundOf, ReaderType
    <3>4. Resting(c)'
      BY <2>3, <2>5, <3>2, <3>3 DEF Resting
    <3> QED
      BY <1>s, <2>1, <2>2, <3>1, <3>4, OutsideRounds
  <2> QED
    BY <2>4, <2>5
<1>3. ASSUME NEW c \in Clients, Subscribe(c) \/ Unsubscribe(c) PROVE RoundsOK' /\ RestingOK'
  <2>1. (\A d \in Clients : \E S, n : cl'[d] = [cl[d] EXCEPT !.subs = S, !.cmds = n]) /\ rd' = rd
    BY <1>3, UloopFacts, Zenon
  <2>2. \A d \in Clients : SameClient(d)
    BY <1>t, <2>1, Zenon DEF ClientType, SameClient
  <2> QED
    BY <1>r, <2>1, <2>2, OutsideRounds, Zenon
<1>4. ASSUME NEW c \in Clients, FreeBegin(c) PROVE RoundsOK' /\ RestingOK'
  <2>1. cl' = cl /\ rd' = rd
    BY <1>4, UloopFacts, Zenon
  <2> QED
    BY <1>r, <1>s, <2>1, OutsideRounds
<1>5. CASE FreeEnd
  <2>1. /\ freeing \in Clients /\ rd' = rd /\ cl[freeing].pc = "exited"
        /\ cl'[freeing] = [NewClient EXCEPT !.pc = "gone"] /\ \A d \in Clients : d # freeing => cl'[d] = cl[d]
    BY <1>5 DEF FreeEnd, TypeInv
  <2>2. PICK c \in Clients : c = freeing
    BY <2>1
  <2>3. \A p \in Prios : c \notin rd[p].told
    BY <2>1, <2>2, ToldByOwn
  <2>4. Resting(c)'
    BY <2>1, <2>2 DEF Resting, NewClient
  <2> QED
    BY <1>r, <1>s, <2>1, <2>2, <2>3, <2>4, OutsideRounds
<1> QED
  BY <1>1, <1>2, <1>3, <1>4, <1>5 DEF Uloop

\* One client that the round of channel p waits for takes a step and is not
\* done with it.
LEMMA WithinRound ==
    ASSUME TypeInv, TypeInv', RoundsOK, RestingOK, NEW c \in Clients, NEW p \in Prios,
           c \in rd[p].told, rd' = rd, \A d \in Clients : d # c => cl'[d] = cl[d],
           Serving(c, p)', ~Done(c, p), ~Done(c, p)'
    PROVE  RoundsOK' /\ RestingOK'
<1>t. \A q \in Prios : rd[q].told \subseteq Clients
  BY DEF TypeInv, ReaderType
<1>p. \A d \in Clients : cl[d].prio \in Prios
  BY DEF TypeInv, ClientType
<1>s. \A d \in Clients : d # c => SameClient(d)
  BY DEF SameClient
<1>r. \A q \in Prios : SameReader(q)
  BY DEF SameReader
<1>1. ASSUME NEW q \in Prios PROVE RoundOf(q)' /\ \A d \in rd'[q].told : Serving(d, q)'
  <2>0. RoundOf(q) /\ \A d \in rd[q].told : Serving(d, q)
    BY DEF RoundsOK
  <2>1. c \in rd[q].told => q = p
    BY ToldByOwn
  <2>2. \A d \in rd[q].told : d # c => (Serving(d, q)' <=> Serving(d, q)) /\ (Done(d, q)' <=> Done(d, q))
    BY <1>s, <1>t, ServingKeep
  <2>3. \A d \in rd[q].told : Done(d, q)' <=> Done(d, q)
    BY <2>1, <2>2
  <2>4. RoundOf(q)'
    BY <1>r, <2>0, <2>3, RoundKeep
  <2> QED
    BY <2>0, <2>1, <2>2, <2>4
<1>2. ASSUME NEW d \in Clients, d \notin rd'[cl'[d].prio].told PROVE Resting(d)'
  <2>1. d # c
    BY <1>2 DEF Serving
  <2>2. Resting(d)
    BY <1>2, <2>1 DEF RestingOK
  <2> QED
    BY <1>s, <2>1, <2>2, RestingKeep
<1> QED
  BY <1>1, <1>2 DEF RoundsOK, RestingOK

\* The client goes to sleep again and is counted by _net_thread_con_over.
LEMMA CountedInRound ==
    ASSUME TypeInv, TypeInv', RoundsOK, RestingOK, NEW c \in Clients, NEW p \in Prios,
           c \in rd[p].told, rd' = [rd EXCEPT ![p].count = @ + 1],
           \A d \in Clients : d # c => cl'[d] = cl[d],
           Serving(c, p)', ~Done(c, p), Done(c, p)'
    PROVE  RoundsOK' /\ RestingOK'
<1>t. \A q \in Prios : rd[q].told \subseteq Clients
  BY DEF TypeInv, ReaderType
<1>p. \A d \in Clients : cl[d].prio \in Prios
  BY DEF TypeInv, ClientType
<1>s. \A d \in Clients : d # c => SameClient(d)
  BY DEF SameClient
<1>r. /\ rd'[p].pc = rd[p].pc /\ rd'[p].round = rd[p].round /\ rd'[p].hash = rd[p].hash
      /\ rd'[p].told = rd[p].told /\ rd'[p].num = rd[p].num /\ rd'[p].count = rd[p].count + 1
      /\ \A q \in Prios : q # p => rd'[q] = rd[q]
  BY DEF TypeInv, ReaderType
<1>0. RoundsOK => \A q \in Prios : RoundOf(q) /\ \A d \in rd[q].told : Serving(d, q)
  BY DEF RoundsOK
<1>1. ASSUME NEW q \in Prios, q # p PROVE RoundOf(q)' /\ \A d \in rd'[q].told : Serving(d, q)'
  <2>1. c \notin rd[q].told
    BY <1>1, ToldByOwn
  <2>2. SameReader(q) /\ rd'[q] = rd[q]
    BY <1>1, <1>r DEF SameReader
  <2>3. \A d \in rd[q].told : (Serving(d, q)' <=> Serving(d, q)) /\ (Done(d, q)' <=> Done(d, q))
    BY <1>s, <1>t, <2>1, <2>2, ServingKeep
  <2>4. RoundOf(q)'
    BY <1>0, <2>2, <2>3, RoundKeep
  <2> QED
    BY <1>0, <2>2, <2>3, <2>4
<1>2. RoundOf(p)' /\ \A d \in rd'[p].told : Serving(d, p)'
  <2>1. \A d \in rd[p].told : d # c => (Serving(d, p)' <=> Serving(d, p)) /\ (Done(d, p)' <=> Done(d, p))
    BY <1>s, <1>t, <1>r, ServingKeep
  <2> DEFINE D == {d \in rd[p].told : Done(d, p)}
             E == {d \in rd'[p].told : Done(d, p)'}
  <2>2. E = D \cup {c} /\ c \notin D
    BY <2>1, <1>r
  <2>3. IsFiniteSet(D)
    <3>1. \A d \in rd[p].told : cl[d].pc # "gone"
      BY <1>t, ToldByOwn
    <3>2. D \subseteq Connected /\ IsFiniteSet(Connected)
      BY <1>t, <3>1 DEF TypeInv
    <3> QED
      BY <3>2, FS_Subset
  <2>4. Cardinality(E) = Cardinality(D) + 1
    BY <2>2, <2>3, FS_AddElement
  <2>5. RoundOf(p) /\ rd[p].pc # "clear"
    BY <1>0, ZenonT(30) DEF RoundOf
  <2>6. rd[p].count = Cardinality(D)
    BY <2>5 DEF RoundOf
  <2>7. rd'[p].count = Cardinality(E)
    BY <2>4, <2>6, <1>r
  <2> HIDE DEF D
  <2>8. RoundOf(p)'
    BY <2>5, <2>7, <1>r DEF RoundOf
  <2> QED
    BY <1>0, <1>r, <2>1, <2>8
<1>3. ASSUME NEW d \in Clients, d \notin rd'[cl'[d].prio].told PROVE Resting(d)'
  <2>1. d # c
    BY <1>3, <1>r DEF Serving
  <2>2. /\ cl'[d] = cl[d] /\ rd'[cl[d].prio].told = rd[cl[d].prio].told
        /\ rd'[cl[d].prio].round = rd[cl[d].prio].round /\ rd'[cl[d].prio].pc = rd[cl[d].prio].pc
    BY <1>p, <1>r, <2>1
  <2>3. Resting(d)
    BY <1>3, <2>2 DEF RestingOK
  <2> QED
    BY <1>s, <2>1, <2>2, <2>3, RestingKeep
<1> QED
  BY <1>1, <1>2, <1>3 DEF RoundsOK, RestingOK

\* A sender thread keeps to its round.
LEMMA RoundSender ==
    ASSUME TypeInv, TypeInv', LifeInv, RoundsOK, RestingOK, Undisturbed, Undisturbed',
           NEW c \in Clients, Sender(c)
    PROVE  RoundsOK' /\ RestingOK'
<1>t. /\ cl[c] \in ClientType /\ cl[c].prio \in Prios
      /\ rd \in [Prios -> ReaderType] /\ \A q \in Prios : rd[q] \in ReaderType
  BY DEF TypeInv, ClientType
<1>l. cl[c].reg => cl[c].pc \notin {"gone", "init"}
  BY DEF LifeInv, Undisturbed
<1>d. \A d \in Clients : d # c => cl'[d] = cl[d]
  BY SenderFacts, Zenon
<1>s. \A d \in Clients : d # c => SameClient(d)
  BY <1>d DEF SameClient
<1>r. rd' = rd => \A q \in Prios : SameReader(q)
  BY DEF SameReader
<1>p. PICK p \in Prios : p = cl[c].prio
  BY <1>t
<1>1. CASE ThreadInit(c)
  <2>1. cl[c].pc = "init" /\ cl'[c] = [cl[c] EXCEPT !.pc = "wait", !.reg = FALSE] /\ rd' = rd
    BY <1>1, SenderFacts, Zenon
  <2>2. \A q \in Prios : c \notin rd[q].told
    BY <2>1, ToldByOwn
  <2>3. Resting(c) /\ ~cl[c].reg
    BY <1>l, <1>t, <2>1, <2>2 DEF RestingOK
  <2>4. cl'[c].pc = "wait" /\ ~cl'[c].reg /\ cl'[c].wait = cl[c].wait /\ cl'[c].cur = cl[c].cur
    BY <1>t, <2>1 DEF ClientType
  <2>5. Resting(c)'
    BY <2>3, <2>4 DEF Resting
  <2> QED
    BY <1>r, <1>s, <2>1, <2>2, <2>5, OutsideRounds
<1>2. CASE ThreadExit(c)
  <2>1. /\ cl[c].pc \in {"init", "wait"} /\ cl'[c] = [cl[c] EXCEPT !.pc = "exited"]
        /\ rd' = [rd EXCEPT ![p].threads = IF @ > 0 THEN @ - 1 ELSE 0]
        /\ faults' = faults \cup ExitFaults(c)
    BY <1>2, <1>p, SenderFacts, Zenon
  <2>2. rd[p].pc = "read" /\ cl[c].reg
    BY <1>p, <2>1 DEF ExitFaults, Undisturbed
  <2>3. \A q \in Prios : c \notin rd[q].told
    BY <1>p, <2>2, ToldByOwn
  <2>4. Resting(c)
    BY <1>t, <2>3 DEF RestingOK
  <2>5. \A q \in Prios : SameReader(q)
    BY <1>t, <1>p, <2>1 DEF SameReader, ReaderType
  <2>6. /\ cl'[c].pc = "exited" /\ cl'[c].reg = cl[c].reg /\ cl'[c].wait = cl[c].wait
        /\ cl'[c].cur = cl[c].cur /\ cl'[c].prio = cl[c].prio
    BY <1>t, <2>1 DEF ClientType
  <2>7. rd'[p].pc = rd[p].pc /\ rd'[p].round = rd[p].round
    BY <2>5 DEF SameReader
  <2>8. Resting(c)'
    BY <1>p, <2>2, <2>4, <2>6, <2>7 DEF Resting
  <2> QED
    BY <1>s, <2>3, <2>5, <2>8, OutsideRounds
<1>3. CASE Wake(c) \/ WalkBegin(c) \/ WalkEnd(c) \/ Over(c)
  <2>1. c \in rd[p].told
    <3>1. ~Resting(c)
      BY <1>3, SenderFacts, Zenon DEF Resting
    <3> QED
      BY <1>p, <3>1 DEF RestingOK
  <2>2. Serving(c, p) /\ RoundOf(p) /\ rd[p].pc \notin {"read", "notify"}
    BY <2>1, ToldByOwn DEF RoundsOK
  <2>3. rd[p].hash = rd[p].round
    BY <2>2 DEF RoundOf
  <2>4. CASE Wake(c)
    <3>1. /\ cl[c].pc = "wait" /\ ~cl[c].wait /\ rd' = rd
          /\ cl'[c] = [cl[c] EXCEPT !.pc = "walk", !.wait = TRUE, !.chan = cl[c].prio]
      BY <2>4, SenderFacts, Zenon
    <3>2. /\ cl'[c].pc = "walk" /\ cl'[c].wait /\ cl'[c].chan = p /\ cl'[c].cur = cl[c].cur
          /\ cl'[c].reg = cl[c].reg /\ cl'[c].prio = cl[c].prio
      BY <1>t, <1>p, <3>1 DEF ClientType
    <3>3. Serving(c, p)' /\ ~Done(c, p) /\ ~Done(c, p)'
      BY <2>2, <3>1, <3>2 DEF Serving, Done
    <3> QED
      BY <1>d, <2>1, <3>1, <3>3, WithinRound
  <2>5. CASE WalkBegin(c)
    <3>1. cl[c].pc = "walk" /\ cl'[c] = [cl[c] EXCEPT !.pc = "send", !.cur = rd[cl[c].chan].hash] /\ rd' = rd
      BY <2>5, SenderFacts, Zenon
    <3>2. cl[c].chan = p /\ cl[c].wait
      BY <2>2, <3>1 DEF Serving, Done
    <3>3. /\ cl'[c].pc = "send" /\ cl'[c].wait = cl[c].wait /\ cl'[c].chan = p /\ cl'[c].cur = rd[p].round
          /\ cl'[c].reg = cl[c].reg /\ cl'[c].prio = cl[c].prio
      BY <1>t, <2>3, <3>1, <3>2, ZenonT(30) DEF ClientType
    <3>4. Serving(c, p)' /\ ~Done(c, p) /\ ~Done(c, p)'
      BY <2>2, <3>1, <3>2, <3>3 DEF Serving, Done
    <3> QED
      BY <1>d, <2>1, <3>1, <3>4, WithinRound
  <2>6. CASE WalkEnd(c)
    <3>1. cl[c].pc = "send" /\ cl'[c] = [cl[c] EXCEPT !.pc = "over"] /\ rd' = rd
      BY <2>6, SenderFacts, Zenon
    <3>2. /\ cl'[c].pc = "over" /\ cl'[c].wait = cl[c].wait /\ cl'[c].chan = cl[c].chan
          /\ cl'[c].cur = cl[c].cur /\ cl'[c].reg = cl[c].reg /\ cl'[c].prio = cl[c].prio
      BY <1>t, <3>1 DEF ClientType
    <3>3. Serving(c, p)' /\ ~Done(c, p) /\ ~Done(c, p)'
      BY <2>2, <3>1, <3>2 DEF Serving, Done
    <3> QED
      BY <1>d, <2>1, <3>1, <3>3, WithinRound
  <2>7. CASE Over(c)
    <3>1. cl[c].pc = "over" /\ cl'[c] = [cl[c] EXCEPT !.pc = "wait"] /\ rd' = [rd EXCEPT ![p].count = @ + 1]
      BY <1>p, <2>7, SenderFacts, Zenon
    <3>2. /\ cl'[c].pc = "wait" /\ cl'[c].wait = cl[c].wait /\ cl'[c].chan = cl[c].chan
          /\ cl'[c].cur = cl[c].cur /\ cl'[c].reg = cl[c].reg /\ cl'[c].prio = cl[c].prio
      BY <1>t, <3>1 DEF ClientType
    <3>3. rd'[p].round = rd[p].round
      BY <1>t, <3>1 DEF ReaderType
    <3>4. Serving(c, p)' /\ ~Done(c, p) /\ Done(c, p)'
      BY <2>2, <3>1, <3>2, <3>3 DEF Serving, Done
    <3> QED
      BY <1>d, <2>1, <3>1, <3>4, CountedInRound, Zenon
  <2> QED
    BY <1>3, <2>4, <2>5, <2>6, <2>7
<1> QED
  BY <1>1, <1>2, <1>3 DEF Sender

\* A step of the reader of channel p leaves the other rounds alone.
LEMMA OtherRounds ==
    ASSUME TypeInv, RoundsOK, RestingOK, NEW p \in Prios,
           \A q \in Prios : q # p => rd'[q] = rd[q],
           \A d \in Clients : cl'[d].prio = cl[d].prio /\ (cl[d].prio # p => cl'[d] = cl[d]),
           RoundOf(p)', \A d \in rd'[p].told : Serving(d, p)',
           \A d \in Clients : cl[d].prio = p /\ d \notin rd'[p].told => Resting(d)'
    PROVE  RoundsOK' /\ RestingOK'
<1>t. \A q \in Prios : rd[q].told \subseteq Clients
  BY DEF TypeInv, ReaderType
<1>p. \A d \in Clients : cl[d].prio \in Prios
  BY DEF TypeInv, ClientType
<1>1. ASSUME NEW q \in Prios, q # p PROVE RoundOf(q)' /\ \A d \in rd'[q].told : Serving(d, q)'
  <2>0. RoundOf(q) /\ \A d \in rd[q].told : Serving(d, q)
    BY DEF RoundsOK
  <2>1. \A d \in rd[q].told : SameClient(d)
    BY <1>1, <1>t, ToldByOwn DEF SameClient
  <2>2. SameReader(q) /\ rd'[q] = rd[q]
    BY <1>1 DEF SameReader
  <2>3. \A d \in rd[q].told : (Serving(d, q)' <=> Serving(d, q)) /\ (Done(d, q)' <=> Done(d, q))
    BY <1>t, <2>1, <2>2, ServingKeep
  <2>4. RoundOf(q)'
    BY <2>0, <2>2, <2>3, RoundKeep
  <2> QED
    BY <2>0, <2>2, <2>3, <2>4
<1>2. ASSUME NEW d \in Clients, d \notin rd'[cl'[d].prio].told PROVE Resting(d)'
  <2>1. CASE cl[d].prio = p
    BY <1>2, <2>1
  <2>2. CASE cl[d].prio # p
    <3>1. cl'[d] = cl[d] /\ rd'[cl[d].prio] = rd[cl[d].prio] /\ SameClient(d)
      BY <1>p, <2>2 DEF SameClient
    <3>2. Resting(d)
      BY <1>2, <3>1 DEF RestingOK
    <3> QED
      BY <3>1, <3>2, RestingKeep
  <2> QED
    BY <2>1, <2>2
<1> QED
  BY <1>1, <1>2 DEF RoundsOK, RestingOK

\* Those a channel has woken are among the threads it has counted.
LEMMA ToldCounted ==
    ASSUME TypeInv, LifeInv, CountExact, Undisturbed, RoundsOK, NEW p \in Prios
    PROVE  /\ IsFiniteSet(rd[p].told) /\ Cardinality(rd[p].told) \in Nat
           /\ Cardinality(rd[p].told) <= rd[p].threads
           /\ rd[p].told # {} => conInit
<1>1. rd[p].told \subseteq Clients /\ Connected = {d \in Clients : cl[d].pc # "gone"} /\ IsFiniteSet(Connected)
  BY DEF TypeInv, ReaderType
<1>2. \A d \in rd[p].told : d \in Clients /\ cl[d].prio = p /\ cl[d].reg /\ cl[d].pc \in {"wait", "walk", "send", "over"}
  BY <1>1, ToldByOwn
<1>3. rd[p].told \subseteq Registered(p) /\ Registered(p) \subseteq Connected
  BY <1>1, <1>2 DEF Registered
<1>4. IsFiniteSet(Registered(p)) /\ IsFiniteSet(rd[p].told)
  BY <1>1, <1>3, FS_Subset
<1>5. Cardinality(rd[p].told) <= Cardinality(Registered(p))
  BY <1>3, <1>4, FS_Subset
<1>6. rd[p].threads = Cardinality(Registered(p))
  BY DEF CountExact, Undisturbed, Registered
<1>7. rd[p].told # {} => conInit
  BY <1>1, <1>2 DEF LifeInv
<1> QED
  BY <1>4, <1>5, <1>6, <1>7, FS_CardinalityType

\* A reader opens, closes and counts its own round as it should.
LEMMA RoundReader ==
    ASSUME TypeInv, TypeInv', LifeInv, CountExact, RoundsOK, RestingOK, Undisturbed, Undisturbed',
           NEW p \in Prios, Read(p) \/ Round(p) \/ WaitTimeout(p)
    PROVE  RoundsOK' /\ RestingOK'
<1>t. /\ rd[p] \in ReaderType /\ rd[p].told \subseteq Clients /\ rd[p].round \in Nat
      /\ \A d \in Clients : cl[d] \in ClientType
  <2>1. rd[p] \in ReaderType /\ \A d \in Clients : cl[d] \in ClientType
    BY DEF TypeInv
  <2>2. rd[p].told \subseteq Clients /\ rd[p].round \in 0 .. MaxRound
    BY <2>1 DEF ReaderType
  <2> QED
    BY <2>1, <2>2, ConstFacts
<1>n. ASSUME NEW d \in Clients PROVE cl[d].cur \in Nat
  <2>1. cl[d].cur \in 0 .. MaxRound
    BY <1>t DEF ClientType
  <2> QED
    BY <2>1, ConstFacts
<1>o. /\ \A q \in Prios : q # p => rd'[q] = rd[q]
      /\ \A d \in Clients : cl'[d].prio = cl[d].prio
  BY ReaderFacts, ReaderLeaves, Zenon
<1>0. /\ RoundOf(p) /\ \A d \in rd[p].told : Serving(d, p) /\ d \in Clients
      /\ \A d \in Clients : cl[d].prio = p /\ d \notin rd[p].told => Resting(d)
  BY <1>t DEF RoundsOK, RestingOK
<1>e. {d \in {} : Done(d, p)} = {} /\ {d \in {} : Done(d, p)'} = {} /\ Cardinality({}) = 0
  BY FS_EmptySet
<1>1. CASE Read(p)
  <2>1. /\ rd[p].pc = "read" /\ cl' = cl
        /\ rd'[p] = [rd[p] EXCEPT !.pc = "notify", !.round = @ + 1, !.hash = rd[p].round + 1]
    BY <1>1, ReaderFacts, Zenon
  <2>2. /\ rd'[p].pc = "notify" /\ rd'[p].round = rd[p].round + 1 /\ rd'[p].hash = rd[p].round + 1
        /\ rd'[p].told = rd[p].told /\ rd'[p].count = rd[p].count
    BY <1>t, <2>1 DEF ReaderType
  <2>3. rd[p].told = {}
    BY <1>0, <2>1 DEF RoundOf
  <2>4. rd[p].count = 0
    BY <1>0, <1>e, <2>1, <2>3 DEF RoundOf
  <2>5. RoundOf(p)'
    BY <1>t, <1>e, <2>2, <2>3, <2>4 DEF RoundOf
  <2>6. ASSUME NEW d \in Clients, cl[d].prio = p PROVE Resting(d)'
    <3>1. Resting(d)
      BY <1>0, <2>3, <2>6
    <3>2. cl[d].cur \in Nat
      BY <1>n
    <3>3. (cl[d].reg => cl[d].cur <= rd[p].round) /\ rd'[p].pc = "notify"
      BY <2>2, <2>6, <3>1 DEF Resting
    <3>4. cl[d].reg => cl[d].cur <= rd'[p].round /\ cl[d].cur < rd'[p].round
      BY <1>t, <2>2, <3>2, <3>3
    <3> QED
      BY <2>1, <2>6, <3>1, <3>4 DEF Resting
  <2> QED
    BY <1>o, <2>1, <2>2, <2>3, <2>5, <2>6, OtherRounds
<1>2. CASE Notify(p)
  <2>1. /\ rd[p].pc = "notify" /\ freeing = NoClient
        /\ rd'[p] = [rd[p] EXCEPT !.pc = "min", !.told = Audience(p), !.num = Cardinality(Audience(p))]
        /\ \A d \in Clients : cl'[d] = IF d \in Audience(p) THEN [cl[d] EXCEPT !.wait = FALSE] ELSE cl[d]
        /\ \A d \in Audience(p) : cl[d].reg
    BY <1>2, ReaderFacts, Zenon DEF Undisturbed
  <2>2. /\ rd'[p].pc = "min" /\ rd'[p].round = rd[p].round /\ rd'[p].hash = rd[p].hash
        /\ rd'[p].told = Audience(p) /\ rd'[p].num = Cardinality(Audience(p)) /\ rd'[p].count = rd[p].count
    BY <1>t, <2>1 DEF ReaderType
  <2>3. rd[p].told = {}
    BY <1>0, <2>1 DEF RoundOf
  <2>4. rd[p].count = 0
    BY <1>0, <1>e, <2>1, <2>3 DEF RoundOf
  <2>5. ASSUME NEW d \in Audience(p)
        PROVE  Serving(d, p)' /\ ~Done(d, p)'
    <3>1. d \in Clients /\ cl[d].prio = p /\ cl[d].reg
      BY <2>1, AudienceFinite DEF Audience
    <3>2. Resting(d)
      BY <1>0, <2>3, <3>1
    <3>3. cl[d].pc = "wait" /\ cl[d].cur < rd[p].round
      BY <2>1, <3>1, <3>2, ConstFacts DEF Resting, LifeInv, Undisturbed
    <3>4. /\ cl'[d].pc = "wait" /\ ~cl'[d].wait /\ cl'[d].cur = cl[d].cur /\ cl'[d].reg = cl[d].reg
          /\ cl'[d].prio = p
      BY <1>t, <2>1, <3>1, <3>3, ZenonT(30) DEF ClientType
    <3> QED
      BY <2>2, <3>1, <3>3, <3>4 DEF Serving, Done
  <2>6. {d \in Audience(p) : Done(d, p)'} = {}
    BY <2>5
  <2>7. RoundOf(p)'
    BY <1>0, <1>e, <2>1, <2>2, <2>4, <2>6, ZenonT(30) DEF RoundOf
  <2>8. ASSUME NEW d \in Clients, cl[d].prio = p, d \notin Audience(p) PROVE Resting(d)'
    <3>1. Resting(d) /\ cl'[d] = cl[d]
      BY <1>0, <2>1, <2>3, <2>8
    <3> QED
      BY <2>2, <2>8, <3>1 DEF Resting
  <2>9. \A d \in Clients : cl[d].prio # p => cl'[d] = cl[d]
    BY <2>1 DEF Audience
  <2> QED
    BY <1>o, <2>2, <2>5, <2>7, <2>8, <2>9, OtherRounds
<1>3. CASE CountGet(p)
  <2>1. /\ rd[p].pc = "min" /\ cl' = cl
        /\ rd'[p] = IF conInit /\ rd[p].threads < rd[p].num THEN [rd[p] EXCEPT !.pc = "again"]
                    ELSE [rd[p] EXCEPT !.num = rd[p].num,
                                       !.pc = IF rd[p].num > 0 /\ conInit THEN "wait" ELSE "clear"]
    BY <1>3, ReaderFacts, Zenon
  <2>2. rd[p].num = Cardinality(rd[p].told) /\ rd[p].count = Cardinality({d \in rd[p].told : Done(d, p)})
    BY <1>0, <2>1 DEF RoundOf
  <2>3. ~(rd[p].threads < rd[p].num) /\ rd[p].num \in Nat
    BY <1>t, <2>2, ToldCounted DEF ReaderType
  <2>4. /\ rd'[p].pc = IF rd[p].num > 0 /\ conInit THEN "wait" ELSE "clear"
        /\ rd'[p].round = rd[p].round /\ rd'[p].hash = rd[p].hash
        /\ rd'[p].told = rd[p].told /\ rd'[p].num = rd[p].num /\ rd'[p].count = rd[p].count
    BY <1>t, <2>1, <2>3 DEF ReaderType
  <2>5. rd'[p].pc = "clear" => rd[p].told = {}
    BY <2>2, <2>3, <2>4, ToldCounted, FS_EmptySet
  <2>6. \A d \in rd[p].told : Serving(d, p)' /\ (Done(d, p)' <=> Done(d, p))
    BY <1>0, <2>1, <2>4 DEF Serving, Done
  <2>7. {d \in rd'[p].told : Done(d, p)'} = {d \in rd[p].told : Done(d, p)}
    BY <2>4, <2>6
  <2>8. RoundOf(p)'
    <3>1. CASE rd'[p].pc = "clear"
      <4>1. rd[p].told = {} /\ rd[p].count = 0
        BY <1>e, <2>2, <2>5, <3>1
      <4> QED
        BY <1>0, <2>1, <2>4, <3>1, <4>1 DEF RoundOf
    <3>2. CASE rd'[p].pc = "wait"
      BY <1>0, <2>1, <2>2, <2>4, <2>7, <3>2 DEF RoundOf
    <3> QED
      BY <2>4, <3>1, <3>2
  <2>9. ASSUME NEW d \in Clients, cl[d].prio = p, d \notin rd'[p].told PROVE Resting(d)'
    <3>1. Resting(d)
      BY <1>0, <2>4, <2>9
    <3> QED
      BY <2>1, <2>4, <2>9, <3>1 DEF Resting
  <2> QED
    BY <1>o, <2>1, <2>4, <2>6, <2>8, <2>9, OtherRounds, Zenon
<1>4. CASE CountGetAgain(p)
  BY <1>0, <1>4, ReaderFacts, Zenon DEF RoundOf
<1>5. CASE WaitOver(p)
  <2>1. /\ rd[p].pc = "wait" /\ rd[p].count >= rd[p].num /\ cl' = cl
        /\ rd'[p] = [rd[p] EXCEPT !.pc = "clear", !.count = 0, !.num = 0]
    BY <1>5, ReaderFacts, Zenon
  <2>2. /\ rd'[p].pc = "clear" /\ rd'[p].round = rd[p].round /\ rd'[p].hash = rd[p].hash
        /\ rd'[p].told = rd[p].told /\ rd'[p].count = 0
    BY <1>t, <2>1 DEF ReaderType
  <2> DEFINE D == {d \in rd[p].told : Done(d, p)}
  <2>3. rd[p].num = Cardinality(rd[p].told) /\ rd[p].count = Cardinality(D)
    BY <1>0, <2>1 DEF RoundOf
  <2>4. D \subseteq rd[p].told
    OBVIOUS
  <2>d. \A d \in D : Done(d, p)
    OBVIOUS
  <2> HIDE DEF D
  <2>5. D = rd[p].told
    <3>1. IsFiniteSet(rd[p].told) /\ Cardinality(rd[p].told) \in Nat
      BY ToldCounted
    <3>2. IsFiniteSet(D) /\ Cardinality(D) <= Cardinality(rd[p].told)
          /\ (Cardinality(rd[p].told) = Cardinality(D) => D = rd[p].told)
      BY <2>4, <3>1, FS_Subset
    <3>3. Cardinality(D) \in Nat
      BY <3>2, FS_CardinalityType
    <3> QED
      BY <2>1, <2>3, <3>1, <3>2, <3>3
  <2>6. \A d \in rd[p].told : Serving(d, p)' /\ Done(d, p)'
    BY <1>0, <2>1, <2>2, <2>5, <2>d DEF Serving, Done
  <2>7. RoundOf(p)'
    BY <1>0, <2>1, <2>2, <2>6 DEF RoundOf
  <2>8. ASSUME NEW d \in Clients, cl[d].prio = p, d \notin rd'[p].told PROVE Resting(d)'
    <3>1. Resting(d)
      BY <1>0, <2>2, <2>8
    <3> QED
      BY <2>1, <2>2, <2>8, <3>1, Zenon DEF Resting
  <2> QED
    BY <1>o, <2>1, <2>2, <2>6, <2>7, <2>8, OtherRounds, Zenon
<1>6. CASE WaitTimeout(p)
  BY <1>6, ReaderFacts, Zenon DEF Undisturbed
<1>7. CASE Clear(p)
  <2>1. /\ rd[p].pc = "clear" /\ cl' = cl
        /\ rd'[p] = [rd[p] EXCEPT !.pc = "read", !.hash = 0, !.told = {}]
    BY <1>7, ReaderFacts, Zenon
  <2>2. /\ rd'[p].pc = "read" /\ rd'[p].round = rd[p].round /\ rd'[p].hash = 0
        /\ rd'[p].told = {} /\ rd'[p].count = rd[p].count
    BY <1>t, <2>1 DEF ReaderType
  <2>3. rd[p].count = 0 /\ \A d \in rd[p].told : Done(d, p)
    BY <1>0, <2>1 DEF RoundOf
  <2>4. RoundOf(p)'
    BY <1>e, <2>2, <2>3 DEF RoundOf
  <2>5. ASSUME NEW d \in Clients, cl[d].prio = p PROVE Resting(d)'
    <3>1. CASE d \in rd[p].told
      <4>1. cl[d].reg /\ cl[d].pc = "wait" /\ cl[d].wait /\ cl[d].cur = rd[p].round
        BY <1>0, <2>3, <3>1 DEF Serving, Done
      <4>2. cl[d].cur <= rd'[p].round
        BY <1>t, <2>2, <4>1
      <4> QED
        BY <2>1, <2>2, <2>5, <4>1, <4>2 DEF Resting
    <3>2. CASE d \notin rd[p].told
      <4>1. Resting(d)
        BY <1>0, <2>5, <3>2
      <4> QED
        BY <2>1, <2>2, <2>5, <4>1 DEF Resting
    <3> QED
      BY <3>1, <3>2
  <2> QED
    BY <1>o, <2>1, <2>2, <2>4, <2>5, OtherRounds, Zenon
<1> QED
  BY <1>1, <1>2, <1>3, <1>4, <1>5, <1>6, <1>7 DEF Round

\* Nobody takes a disturbance back.
LEMMA FaultsStay ==
    ASSUME TypeInv, [Next]_vars
    PROVE  faults \subseteq faults'
<1>1. ASSUME NEW c \in Clients, Uloop(c) PROVE faults \subseteq faults'
  BY <1>1, UloopFacts, Zenon DEF Uloop
<1>2. ASSUME NEW c \in Clients, Sender(c) PROVE faults \subseteq faults'
  BY <1>2, SenderFacts, Zenon DEF Sender
<1>3. ASSUME NEW p \in Prios, Read(p) \/ Round(p) \/ WaitTimeout(p) PROVE faults \subseteq faults'
  BY <1>3, ReaderLeaves
<1>4. CASE FreeEnd \/ UNCHANGED vars
  BY <1>4 DEF FreeEnd, vars
<1> QED
  BY <1>1, <1>2, <1>3, <1>4 DEF Next

\* Every step keeps the rounds as they should be.
LEMMA RoundNext ==
    TypeInv /\ TypeInv' /\ LifeInv /\ CountExact /\ RoundInv /\ [Next]_vars => RoundInv'
<1> SUFFICES ASSUME TypeInv, TypeInv', LifeInv, CountExact, RoundInv, [Next]_vars, Undisturbed'
             PROVE  RoundsOK' /\ RestingOK'
  BY DEF RoundInv, RoundsOK, RestingOK
<1>1. Undisturbed
  BY FaultsStay DEF Undisturbed
<1>2. RoundsOK /\ RestingOK
  BY <1>1 DEF RoundInv, RoundsOK, RestingOK
<1>3. CASE FreeEnd \/ \E c \in Clients : Uloop(c)
  BY <1>1, <1>2, <1>3, RoundUloop
<1>4. CASE \E c \in Clients : Sender(c)
  BY <1>1, <1>2, <1>4, RoundSender
<1>5. CASE \E p \in Prios : Read(p) \/ Round(p) \/ WaitTimeout(p)
  BY <1>1, <1>2, <1>5, RoundReader
<1>6. CASE UNCHANGED vars
  <2>1. cl' = cl /\ rd' = rd
    BY <1>6 DEF vars
  <2>2. (\A c \in Clients : SameClient(c)) /\ (\A p \in Prios : SameReader(p))
    BY <2>1 DEF SameClient, SameReader
  <2> QED
    BY <1>2, <2>2, OutsideRounds
<1> QED
  BY <1>3, <1>4, <1>5, <1>6 DEF Next

\* In every state of an undisturbed run, every client rests or is where its
\* round puts it, and con_wait counts exactly those that are done.
THEOREM RoundsStayInStep == Spec => []RoundInv
<1>1. Init => RoundInv
  <2> SUFFICES ASSUME Init PROVE RoundInv
    OBVIOUS
  <2>1. \A c \in Clients : /\ cl[c].pc = "gone" /\ cl[c].wait /\ ~cl[c].reg /\ cl[c].cur = 0
    BY DEF Init, NewClient
  <2>2. \A p \in Prios : rd[p].pc = "read" /\ rd[p].hash = 0 /\ rd[p].told = {} /\ rd[p].count = 0
    BY DEF Init, NewReader
  <2>3. \A c \in Clients : Resting(c)
    BY <2>1 DEF Resting
  <2>4. ASSUME NEW p \in Prios PROVE RoundOf(p)
    <3>1. {c \in rd[p].told : Done(c, p)} = {}
      BY <2>2
    <3> QED
      BY <2>2, <3>1, FS_EmptySet DEF RoundOf
  <2> QED
    BY <2>2, <2>3, <2>4 DEF RoundInv
<1> QED
  BY <1>1, TypeAlways, CountAlways, RoundNext, PTL DEF Spec

\* In an undisturbed run a block goes back to the DMA ring only when every
\* client the reader woke has walked it and sleeps, and nobody still sends it.
THEOREM BlockStaysHeld == Spec => []BlockHeld
<1>1. TypeInv /\ RoundInv => BlockHeld
  <2> SUFFICES ASSUME TypeInv, RoundInv, Undisturbed PROVE NoSendAfterRelease /\ AllServedBeforeClear
    BY DEF BlockHeld, NoSendAfterRelease, AllServedBeforeClear
  <2>0. RoundsOK /\ RestingOK
    BY DEF RoundInv, RoundsOK, RestingOK
  <2>1. ASSUME NEW c \in Clients, cl[c].pc = "send" PROVE rd[cl[c].chan].hash = cl[c].cur
    <3>1. cl[c].prio \in Prios /\ ~Resting(c)
      BY <2>1 DEF TypeInv, ClientType, Resting
    <3>2. PICK p \in Prios : p = cl[c].prio
      BY <3>1
    <3>3. c \in rd[p].told
      BY <2>0, <3>1, <3>2 DEF RestingOK
    <3>4. Serving(c, p) /\ RoundOf(p) /\ rd[p].pc # "read"
      BY <2>0, <3>3, ToldByOwn DEF RoundsOK
    <3> QED
      BY <2>1, <3>4 DEF Serving, Done, RoundOf
  <2>2. ASSUME NEW p \in Prios, rd[p].pc = "clear" PROVE \A c \in rd[p].told : Done(c, p)
    BY <2>0, <2>2 DEF RoundsOK, RoundOf
  <2> QED
    BY <2>1, <2>2 DEF NoSendAfterRelease, AllServedBeforeClear, Done
<1> QED
  BY <1>1, TypeAlways, RoundsStayInStep, PTL

\* In an undisturbed run every walk of a client is of a newer block than its
\* last one.
THEOREM NobodyServedTwice == Spec => NoRepeats
<1>1. TypeInv /\ RoundInv /\ [Next]_vars
        => \A c \in Clients :
              Undisturbed /\ cl[c].pc = "walk" /\ cl'[c].pc = "send" => cl[c].cur < cl'[c].cur
  <2> SUFFICES ASSUME TypeInv, RoundInv, [Next]_vars, Undisturbed,
                      NEW c \in Clients, cl[c].pc = "walk", cl'[c].pc = "send"
               PROVE  cl[c].cur < cl'[c].cur
    OBVIOUS
  <2>t. cl \in [Clients -> ClientType] /\ cl[c] \in ClientType /\ \A d \in Clients : cl[d] \in ClientType
    BY DEF TypeInv
  <2>1. WalkBegin(c)
    <3>1. ASSUME NEW d \in Clients, Uloop(d) PROVE FALSE
      <4>1. CASE Accept(d)
        BY <4>1, UloopFacts, Zenon DEF NewClient
      <4>2. ASSUME NEW p \in Prios, Register(d, p) PROVE FALSE
        <5>1. cl'[d] = [cl[d] EXCEPT !.prio = p, !.reg = TRUE, !.cmds = @ + 1] /\ (d # c => cl'[c] = cl[c])
          BY <4>2, UloopFacts, Zenon
        <5>2. cl'[d].pc = cl[d].pc
          BY <2>t, <5>1 DEF ClientType
        <5> QED
          BY <5>1, <5>2
      <4>3. CASE Subscribe(d) \/ Unsubscribe(d)
        <5>1. \E S, n : cl'[c] = [cl[c] EXCEPT !.subs = S, !.cmds = n]
          BY <4>3, UloopFacts, Zenon
        <5> QED
          BY <2>t, <5>1 DEF ClientType
      <4>4. CASE FreeBegin(d)
        BY <4>4, UloopFacts, Zenon
      <4> QED
        BY <3>1, <4>1, <4>2, <4>3, <4>4 DEF Uloop
    <3>2. CASE FreeEnd
      <4>1. freeing \in Clients /\ cl'[freeing] = [NewClient EXCEPT !.pc = "gone"] /\ (c # freeing => cl'[c] = cl[c])
        BY <3>2 DEF FreeEnd, TypeInv
      <4> QED
        BY <4>1 DEF NewClient
    <3>3. ASSUME NEW p \in Prios, Read(p) \/ Round(p) \/ WaitTimeout(p) PROVE FALSE
      BY <3>3, ReaderLeaves
    <3>4. CASE UNCHANGED vars
      BY <3>4 DEF vars
    <3>5. ASSUME NEW d \in Clients, Sender(d) PROVE WalkBegin(c)
      <4>1. d = c
        BY <3>5, SenderFacts, Zenon
      <4> QED
        BY <3>5, <4>1, SenderFacts, Zenon DEF Sender
    <3> QED
      BY <3>1, <3>2, <3>3, <3>4, <3>5 DEF Next
  <2>2. RoundsOK /\ RestingOK
    BY DEF RoundInv, RoundsOK, RestingOK
  <2>3. PICK p \in Prios : p = cl[c].prio
    BY <2>t DEF ClientType
  <2>4. c \in rd[p].told
    BY <2>2, <2>3 DEF RestingOK, Resting
  <2>5. Serving(c, p) /\ RoundOf(p) /\ rd[p].pc # "read"
    BY <2>2, <2>4, ToldByOwn DEF RoundsOK
  <2>6. cl[c].chan = p /\ cl[c].cur < rd[p].round /\ rd[p].hash = rd[p].round
    BY <2>5 DEF Serving, Done, RoundOf
  <2>7. cl'[c].cur = rd[cl[c].chan].hash
    BY <2>t, <2>1, SenderFacts, Zenon DEF ClientType
  <2> QED
    BY <2>6, <2>7
<1> QED
  BY <1>1, TypeAlways, RoundsStayInStep, PTL DEF Spec, NoRepeats
-----------------------------------------------------------------------------
(* The components that MCChannels puts side by side: each runs as it does    *)
(* alone.                                                                    *)

\* A behaviour of the sum is one of every part.
LEMMA ChannelParts == MCSpec => Key!Spec /\ Registry!Spec
<1>1. MCInit => Key!Init /\ Registry!Init
  BY DEF MCInit
<1>2. [MCNext]_mcVars => [Key!Next]_(Key!vars)
  <2>1. [MCNext]_mcVars => Key!Next \/ UNCHANGED KeyVars
    BY DEF MCNext, mcVars
  <2> QED BY <2>1 DEF KeyVars, Key!vars
<1>3. [MCNext]_mcVars => [Registry!Next]_(Registry!vars)
  <2>1. [MCNext]_mcVars => Registry!Next \/ UNCHANGED RegistryVars
    BY DEF MCNext, mcVars
  <2> QED BY <2>1 DEF RegistryVars, Registry!vars
<1> QED BY <1>1, <1>2, <1>3, PTL DEF MCSpec, Key!Spec, Registry!Spec
-----------------------------------------------------------------------------
(* StreamKey: the key of a stream.                                          *)

\* Packing and unpacking gives back a stream whose fields fit
\* (GET_HASHMAP_ID, GET_*_BY_HASHID).
LEMMA UnpackedIsPacked ==
    ASSUME NEW s \in Key!Streams, Key!Fits(s)
    PROVE  Key!Unpacked(Key!GetHashmapId(s)) = s
<1>0. s.chip \in Nat /\ s.func \in Nat /\ s.prio \in {0, 1} /\ s.port \in Nat
  <2>1. Chips \subseteq Nat /\ Funcs \subseteq Nat /\ Ports \subseteq Nat
    BY MCChannelsAssumption DEF Key!KeyAssumption
  <2> QED BY <2>1 DEF Key!Streams
<1> DEFINE a == s.chip \div 256
           b == s.chip % 256
<1>1. /\ a \in 0 .. 7 /\ b \in 0 .. 3
      /\ s.func \in 0 .. 255 /\ s.prio \in 0 .. 1 /\ s.port \in 0 .. 3
      /\ s.chip = 256 * a + b
  <2>2. a < 8 /\ b < 4 /\ s.func < 256 /\ s.port < 4
    BY DEF Key!Fits, Key!SlotMode, Key!ChipMode, Key!FuncMode, Key!PortMode
  <2>3. a \in Nat /\ b \in Nat /\ s.chip = 256 * a + b
    BY <1>0
  <2> HIDE DEF a, b
  <2> QED BY <1>0, <2>2, <2>3
<1>2. Key!GetHashmapId(s) = a + 8 * b + 32 * s.func + 8192 * s.prio + 16384 * s.port
  BY <1>1 DEF Key!GetHashmapId, Key!SlotMode, Key!ChipMode, Key!FuncMode, Key!PrioMode, Key!PortMode
<1>4. Key!Unpacked(Key!GetHashmapId(s)) = [chip |-> 256 * a + b, func |-> s.func, prio |-> s.prio, port |-> s.port]
  <2> DEFINE k == Key!GetHashmapId(s)
  <2> HIDE DEF a, b, k
  <2>1. k = a + 8 * b + 32 * s.func + 8192 * s.prio + 16384 * s.port
    BY <1>2 DEF k
  <2>2. /\ k % 8 = a /\ (k \div 8) % 4 = b /\ (k \div 32) % 256 = s.func
        /\ (k \div 8192) % 2 = s.prio /\ (k \div 16384) % 4 = s.port
    <3> DEFINE f == s.func  p == s.prio  q == s.port
    <3> HIDE DEF f, p, q
    <3>1. /\ a \in 0 .. 7 /\ b \in 0 .. 3 /\ f \in 0 .. 255 /\ p \in 0 .. 1 /\ q \in 0 .. 3
          /\ k = a + 8 * b + 32 * f + 8192 * p + 16384 * q
      BY <1>1, <2>1 DEF f, p, q
    <3>2. /\ k % 8 = a /\ (k \div 8) % 4 = b /\ (k \div 32) % 256 = f
          /\ (k \div 8192) % 2 = p /\ (k \div 16384) % 4 = q
      <4>1. k % 8 = a /\ k \div 8 = b + 4 * f + 1024 * p + 2048 * q
        BY <3>1
      <4>2. k \div 32 = f + 256 * p + 512 * q
        BY <3>1
      <4>3. k \div 8192 = p + 2 * q
        BY <3>1
      <4>4. k \div 16384 = q
        BY <3>1
      <4> QED BY <3>1, <4>1, <4>2, <4>3, <4>4
    <3> QED BY <3>2 DEF f, p, q
  <2>3. Key!Unpacked(k) = [chip |-> 256 * a + b, func |-> s.func, prio |-> s.prio, port |-> s.port]
    BY <2>2 DEF Key!Unpacked
  <2> QED BY <2>3 DEF k
<1>5. s = [chip |-> s.chip, func |-> s.func, prio |-> s.prio, port |-> s.port]
  BY DEF Key!Streams
<1> QED BY <1>1, <1>4, <1>5

\* The streams of a client stay streams, whatever it does.
LEMMA AskedStreams == Key!Spec => [](kAsked \subseteq Key!Streams)
<1>1. Key!Init => kAsked \subseteq Key!Streams
  BY DEF Key!Init
<1>2. kAsked \subseteq Key!Streams /\ [Key!Next]_(Key!vars) => (kAsked \subseteq Key!Streams)'
  BY DEF Key!Next, Key!Insert, Key!Delete, Key!vars
<1> QED BY <1>1, <1>2, PTL DEF Key!Spec

\* A key has 16 bits, whatever the fields of the stream are.
LEMMA KeyWidth ==
    ASSUME NEW s \in Key!Streams
    PROVE  Key!GetHashmapId(s) \in Nat /\ Key!GetHashmapId(s) < 65536
<1>1. s.chip \in Nat /\ s.func \in Nat /\ s.prio \in {0, 1} /\ s.port \in Nat
  <2>1. Chips \subseteq Nat /\ Funcs \subseteq Nat /\ Ports \subseteq Nat
    BY MCChannelsAssumption DEF Key!KeyAssumption
  <2> QED BY <2>1 DEF Key!Streams
<1> DEFINE a == ((s.chip \div 256) % 256) % 8
           b == (s.chip % 256) % 4
           c == s.func % 256
           d == s.prio % 2
           e == s.port % 4
<1>2. a \in 0 .. 7 /\ b \in 0 .. 3 /\ c \in 0 .. 255 /\ d \in 0 .. 1 /\ e \in 0 .. 3
  BY <1>1
<1>3. Key!GetHashmapId(s) = a + 8 * b + 32 * c + 8192 * d + 16384 * e
  BY DEF Key!GetHashmapId, Key!SlotMode, Key!ChipMode, Key!FuncMode, Key!PrioMode, Key!PortMode
<1> HIDE DEF a, b, c, d, e
<1>4. /\ a + 8 * b + 32 * c + 8192 * d + 16384 * e \in Nat
      /\ a + 8 * b + 32 * c + 8192 * d + 16384 * e < 65536
  BY <1>2
<1> QED BY <1>3, <1>4

\* The types: streams under keys of 16 bits.
THEOREM KeysTyped == Key!Spec => []Key!TypeOK
<1>1. Key!Init => Key!TypeOK
  BY DEF Key!Init, Key!TypeOK
<1>2. Key!TypeOK /\ [Key!Next]_(Key!vars) => Key!TypeOK'
  <2> SUFFICES ASSUME Key!TypeOK, [Key!Next]_(Key!vars) PROVE Key!TypeOK'
    OBVIOUS
  <2>1. ASSUME NEW s \in Key!Streams, Key!Insert(s) PROVE Key!TypeOK'
    <3>1. Key!GetHashmapId(s) \in Nat /\ Key!GetHashmapId(s) < 65536
      BY KeyWidth
    <3>2. \A r \in kTable' : r \in kTable \/ r = [key |-> Key!GetHashmapId(s), sub |-> Key!Unpacked(Key!GetHashmapId(s))]
      BY <2>1 DEF Key!Insert
    <3>3. kAsked' \subseteq Key!Streams
      BY <2>1 DEF Key!Insert, Key!TypeOK
    <3> QED BY <3>1, <3>2, <3>3 DEF Key!TypeOK
  <2>2. ASSUME NEW s \in Key!Streams, Key!Delete(s) PROVE Key!TypeOK'
    BY <2>2 DEF Key!Delete, Key!TypeOK
  <2>3. CASE UNCHANGED Key!vars
    BY <2>3 DEF Key!vars, Key!TypeOK
  <2> QED BY <2>1, <2>2, <2>3 DEF Key!Next
<1> QED BY <1>1, <1>2, PTL DEF Key!Spec

\* For every choice of cards, functions and ports within the widths the table of a
\* client is exactly its subscriptions (client_hash_insert, client_hash_delete_item).
THEOREM TableShowsSubscriptions == Key!Spec => []Key!Shown
<1>1. Key!Init => Key!Shown
  BY DEF Key!Init, Key!Shown
<1>2. kAsked \subseteq Key!Streams /\ Key!Shown /\ [Key!Next]_(Key!vars) => Key!Shown'
  <2> SUFFICES ASSUME kAsked \subseteq Key!Streams, Key!Shown, [Key!Next]_(Key!vars), \A s \in Key!Streams : Key!Fits(s)
               PROVE  kTable' = {[key |-> Key!GetHashmapId(s), sub |-> s] : s \in kAsked'}
    BY DEF Key!Shown
  <2>1. kTable = {[key |-> Key!GetHashmapId(s), sub |-> s] : s \in kAsked}
    BY DEF Key!Shown
  <2>2. ASSUME NEW s \in Key!Streams, NEW t \in Key!Streams, Key!GetHashmapId(s) = Key!GetHashmapId(t)
        PROVE  s = t
    BY <2>2, UnpackedIsPacked
  <2>3. ASSUME NEW s \in Key!Streams, Key!Insert(s)
        PROVE  kTable' = {[key |-> Key!GetHashmapId(t), sub |-> t] : t \in kAsked'}
    <3>1. Key!Unpacked(Key!GetHashmapId(s)) = s
      BY UnpackedIsPacked
    <3>2. (\E r \in kTable : r.key = Key!GetHashmapId(s)) <=> s \in kAsked
      <4>1. ASSUME NEW r \in kTable, r.key = Key!GetHashmapId(s)  PROVE s \in kAsked
        <5>1. PICK t \in kAsked : r = [key |-> Key!GetHashmapId(t), sub |-> t]
          BY <2>1
        <5> QED BY <2>2, <4>1, <5>1
      <4>2. ASSUME s \in kAsked  PROVE \E r \in kTable : r.key = Key!GetHashmapId(s)
        <5>1. [key |-> Key!GetHashmapId(s), sub |-> s] \in kTable
          BY <2>1, <4>2
        <5> QED BY <5>1
      <4> QED BY <4>1, <4>2
    <3>3. kAsked' = kAsked \cup {s}
      BY <2>3 DEF Key!Insert
    <3>4. CASE s \in kAsked
      BY <2>1, <2>3, <3>2, <3>3, <3>4 DEF Key!Insert
    <3>5. CASE s \notin kAsked
      <4>1. kTable' = kTable \cup {[key |-> Key!GetHashmapId(s), sub |-> s]}
        BY <2>3, <3>1, <3>2, <3>5 DEF Key!Insert
      <4> QED BY <2>1, <3>3, <4>1
    <3> QED BY <3>4, <3>5
  <2>4. ASSUME NEW s \in Key!Streams, Key!Delete(s)
        PROVE  kTable' = {[key |-> Key!GetHashmapId(t), sub |-> t] : t \in kAsked'}
    <3>1. kAsked' = kAsked \ {s} /\ kTable' = {r \in kTable : r.key # Key!GetHashmapId(s)}
      BY <2>4 DEF Key!Delete
    <3>2. \A t \in kAsked : Key!GetHashmapId(t) # Key!GetHashmapId(s) <=> t # s
      BY <2>2
    <3> QED BY <2>1, <3>1, <3>2
  <2> QED BY <2>1, <2>3, <2>4 DEF Key!Next, Key!vars
<1> QED BY <1>1, <1>2, AskedStreams, PTL DEF Key!Spec

\* The table of a client holds 16-bit keys and is exactly what it has subscribed to.
THEOREM KeysAreExact == (Key!Spec => []Key!KeysExact) /\ (MCSpec => []KeysExact)
<1>1. Key!TypeOK /\ Key!Shown => Key!KeysExact /\ KeysExact
  BY DEF Key!KeysExact, KeysExact
<1> QED BY <1>1, KeysTyped, TableShowsSubscriptions, ChannelParts, PTL
-----------------------------------------------------------------------------
(* The table the threads are entered in (ThreadRegistry).                    *)

ThreadType == [name : Names, state : {"runs", "cancelled", "ended"}]

\* The types; an entry has the id of a thread that was created, if it has its bit, and
\* no two entries have the same id or the same name.
EntryInv ==
    /\ rTab \in [Slots -> [name : Names \cup {"none"}, tid : Nat]]
    /\ rBmp \subseteq Slots /\ rRefused \in Names \cup {"none"} /\ rStale \in BOOLEAN
    /\ rThread \in Seq(ThreadType) /\ Len(rThread) <= MaxThreads
    /\ \A i \in Slots : rTab[i].tid <= Len(rThread)
    /\ \A i \in Slots \ rBmp : rTab[i].tid = 0
    /\ \A i \in rBmp : rTab[i].tid # 0
    /\ \A i, j \in rBmp : rTab[i].tid = rTab[j].tid => i = j
    /\ \A i, j \in Slots : rTab[i].name = rTab[j].name /\ rTab[i].name \in Names => i = j

\* The entries are the threads that run, under their names.
RunInv ==
    ~rStale => /\ \A i \in rBmp : /\ rThread[rTab[i].tid].state = "runs"
                                  /\ rTab[i].name = rThread[rTab[i].tid].name
               /\ \A t \in 1 .. Len(rThread) : rThread[t].state = "runs" => \E i \in rBmp : rTab[i].tid = t

RegistryInv == EntryInv /\ RunInv

\* A set of natural numbers that is not empty has a least element.
LEMMA LeastNumber ==
    ASSUME NEW T, T \subseteq Nat, T # {}
    PROVE  \E n \in T : \A m \in T : n <= m
  <1>1. \A m, n \in Nat : m < n => <<m, n>> \in OpToRel(<, Nat)
    BY DEF OpToRel
  <1>2. \E R : IsWellFoundedOn(R, Nat) /\ \A m, n \in Nat : m < n => <<m, n>> \in R
    BY <1>1, NatLessThanWellFounded
  <1>3. PICK R : IsWellFoundedOn(R, Nat) /\ \A m, n \in Nat : m < n => <<m, n>> \in R
    BY <1>2
  <1>4. IsWellFoundedOn(R, Nat)
    BY <1>3, Zenon
  <1>5. \E n \in T : \A m \in T : ~(<<m, n>> \in R)
    BY <1>4, WFMin, Zenon
  <1>6. PICK n \in T : \A m \in T : ~(<<m, n>> \in R)
    BY <1>5, Zenon
  <1>7. ASSUME NEW m \in T PROVE n <= m
    <2>1. n \in Nat /\ m \in Nat
      OBVIOUS
    <2>2. ~(m < n)
      BY <2>1, <1>3, <1>6, Zenon
    <2> QED
      BY <2>1, <2>2
  <1> QED
    BY <1>7, Zenon

\* A search through the table finds an entry if there is one.
LEMMA SearchFinds ==
    ASSUME Slots \subseteq Nat, NEW S, S \subseteq Slots, S # {}
    PROVE  Registry!Lowest(S) \in S
  <1>1. \E n \in S : \A m \in S : n <= m
    BY LeastNumber
  <1> QED
    BY <1>1, Zenon DEF Registry!Lowest

\* Nothing is entered at the start.
LEMMA RegistryInit == Registry!RegistryAssumption /\ Registry!Init => RegistryInv
  <1> SUFFICES ASSUME Registry!RegistryAssumption, Registry!Init PROVE RegistryInv
    OBVIOUS
  <1>1. /\ rTab = [i \in Slots |-> [name |-> "none", tid |-> 0]] /\ rBmp = {} /\ rThread = <<>>
        /\ rRefused = "none" /\ rStale = FALSE /\ "none" \notin Names /\ MaxThreads \in Nat
    BY DEF Registry!Init, Registry!Empty, Registry!RegistryAssumption
  <1>2. rThread \in Seq(ThreadType) /\ Len(rThread) = 0
    BY <1>1
  <1>3. rTab \in [Slots -> [name : Names \cup {"none"}, tid : Nat]]
    BY <1>1
  <1>5. EntryInv
    <2>1. \A i \in Slots : rTab[i].name = "none" /\ rTab[i].tid = 0
      BY <1>1
    <2>2. \A i \in Slots : rTab[i].tid <= Len(rThread)
      BY <1>2, <2>1
    <2>3. Len(rThread) <= MaxThreads
      BY <1>1, <1>2
    <2> QED
      BY <1>1, <1>2, <1>3, <2>1, <2>2, <2>3 DEF EntryInv
  <1>4. RunInv
    BY <1>1, <1>2 DEF RunInv
  <1> QED
    BY <1>4, <1>5 DEF RegistryInv

\* The state of thread t becomes s; the rest of the threads stay.
LEMMA StateFacts ==
    ASSUME rThread \in Seq(ThreadType), NEW t \in 1 .. Len(rThread), NEW s \in {"runs", "cancelled", "ended"},
           rThread' = [rThread EXCEPT ![t].state = s]
    PROVE  /\ rThread' \in Seq(ThreadType) /\ Len(rThread') = Len(rThread)
           /\ \A u \in 1 .. Len(rThread) : /\ rThread'[u].name = rThread[u].name
                                           /\ rThread'[u].state = IF u = t THEN s ELSE rThread[u].state
  <1>1. Len(rThread) \in Nat /\ \A u \in 1 .. Len(rThread) : rThread[u] \in ThreadType
    OBVIOUS
  <1>2. rThread' \in Seq(ThreadType) /\ Len(rThread') = Len(rThread)
    <2>1. [rThread[t] EXCEPT !.state = s] \in ThreadType
      BY <1>1 DEF ThreadType
    <2>2. rThread' = [rThread EXCEPT ![t] = [rThread[t] EXCEPT !.state = s]]
      OBVIOUS
    <2> QED
      BY <2>1, <2>2
  <1>3. ASSUME NEW u \in 1 .. Len(rThread)
        PROVE  /\ rThread'[u].name = rThread[u].name
               /\ rThread'[u].state = IF u = t THEN s ELSE rThread[u].state
    BY <1>1 DEF ThreadType
  <1> QED
    BY <1>2, <1>3

\* An entry that is cleared, and the thread that no longer runs if it was entered there.
LEMMA ClearHolds ==
    ASSUME RegistryInv, "none" \notin Names, NEW i \in rBmp, Registry!Clear(i),
           NEW t \in 1 .. Len(rThread), NEW s \in {"cancelled", "ended"},
           rThread' = [rThread EXCEPT ![t].state = s],
           rRefused' = "none", rStale' \in BOOLEAN, ~rStale' => ~rStale /\ t = rTab[i].tid
    PROVE  RegistryInv'
  <1>1. /\ EntryInv /\ RunInv /\ i \in Slots /\ Len(rThread) \in Nat
        /\ rTab' = [rTab EXCEPT ![i] = [name |-> "none", tid |-> 0]] /\ rBmp' = rBmp \ {i}
    BY DEF RegistryInv, EntryInv, Registry!Clear, Registry!Empty
  <1>2. /\ rThread' \in Seq(ThreadType) /\ Len(rThread') = Len(rThread)
        /\ \A u \in 1 .. Len(rThread) : /\ rThread'[u].name = rThread[u].name
                                        /\ rThread'[u].state = IF u = t THEN s ELSE rThread[u].state
    <2>1. rThread \in Seq(ThreadType) /\ s \in {"runs", "cancelled", "ended"}
      BY <1>1 DEF EntryInv
    <2> QED
      BY <2>1, StateFacts
  <1>3. /\ rTab' \in [Slots -> [name : Names \cup {"none"}, tid : Nat]]
        /\ \A j \in Slots : rTab'[j] = IF j = i THEN [name |-> "none", tid |-> 0] ELSE rTab[j]
    <2>1. rTab \in [Slots -> [name : Names \cup {"none"}, tid : Nat]]
      BY <1>1 DEF EntryInv
    <2>2. [name |-> "none", tid |-> 0] \in [name : Names \cup {"none"}, tid : Nat]
      OBVIOUS
    <2> QED
      BY <1>1, <2>1, <2>2
  <1>4. EntryInv'
    <2>1. \A j, k \in Slots : rTab'[j].name = rTab'[k].name /\ rTab'[j].name \in Names => j = k
      BY <1>1, <1>3 DEF EntryInv
    <2> QED
      BY <1>1, <1>2, <1>3, <2>1 DEF EntryInv
  <1>5. RunInv'
    <2> SUFFICES ASSUME ~rStale' PROVE RunInv'
      BY DEF RunInv
    <2>1. ~rStale /\ t = rTab[i].tid
      OBVIOUS
    <2>2. ASSUME NEW j \in rBmp'
          PROVE  rThread'[rTab'[j].tid].state = "runs" /\ rTab'[j].name = rThread'[rTab'[j].tid].name
      <3>1. j \in rBmp /\ j # i /\ rTab'[j] = rTab[j] /\ rTab[j].tid # t /\ rTab[j].tid \in 1 .. Len(rThread)
        BY <1>1, <1>3, <2>1 DEF EntryInv
      <3> QED
        BY <1>1, <1>2, <2>1, <3>1 DEF RunInv
    <2>3. ASSUME NEW u \in 1 .. Len(rThread'), rThread'[u].state = "runs"
          PROVE  \E j \in rBmp' : rTab'[j].tid = u
      <3>1. u \in 1 .. Len(rThread) /\ u # t /\ rThread[u].state = "runs"
        BY <1>2, <2>3
      <3>2. PICK j \in rBmp : rTab[j].tid = u
        BY <1>1, <2>1, <3>1 DEF RunInv
      <3>3. j \in rBmp' /\ rTab'[j] = rTab[j]
        BY <1>1, <1>3, <2>1, <3>1, <3>2 DEF EntryInv
      <3> QED
        BY <3>2, <3>3
    <2> QED
      BY <2>2, <2>3 DEF RunInv
  <1> QED
    BY <1>4, <1>5 DEF RegistryInv
\* A thread that is not entered, or is in doubt, is no longer to run.
LEMMA AloneHolds ==
    ASSUME RegistryInv, NEW t \in 1 .. Len(rThread), NEW s \in {"cancelled", "ended"},
           rThread' = [rThread EXCEPT ![t].state = s], rTab' = rTab, rBmp' = rBmp, rStale' = rStale,
           rRefused' \in {rRefused, "none"}, ~rStale => \A j \in rBmp : rTab[j].tid # t
    PROVE  RegistryInv'
  <1>1. EntryInv /\ RunInv /\ Len(rThread) \in Nat /\ \A j \in rBmp : rTab[j].tid \in 1 .. Len(rThread)
    BY DEF RegistryInv, EntryInv
  <1>2. /\ rThread' \in Seq(ThreadType) /\ Len(rThread') = Len(rThread)
        /\ \A u \in 1 .. Len(rThread) : /\ rThread'[u].name = rThread[u].name
                                        /\ rThread'[u].state = IF u = t THEN s ELSE rThread[u].state
    <2>1. rThread \in Seq(ThreadType) /\ s \in {"runs", "cancelled", "ended"}
      BY <1>1 DEF EntryInv
    <2> QED
      BY <2>1, StateFacts
  <1>3. EntryInv'
    BY <1>1, <1>2 DEF EntryInv
  <1>4. RunInv'
    BY <1>1, <1>2 DEF RunInv
  <1> QED
    BY <1>3, <1>4 DEF RegistryInv

\* pthread_create_detach, done or failed: the entry is free and the name is new.
LEMMA CreateHolds ==
    ASSUME RegistryInv, Registry!RegistryAssumption, NEW n \in Names,
           Registry!Create(n) \/ Registry!CreateFails(n)
    PROVE  RegistryInv'
  <1>1. /\ EntryInv /\ RunInv /\ Slots \subseteq Nat /\ "none" \notin Names /\ MaxThreads \in Nat
        /\ Len(rThread) \in Nat /\ rThread \in Seq(ThreadType)
    BY DEF RegistryInv, EntryInv, Registry!RegistryAssumption
  <1>2. PICK i : i = Registry!Lowest(Slots \ rBmp)
    OBVIOUS
  <1>3. i \in Slots \ rBmp
    <2>1. Slots \ rBmp # {} /\ Slots \ rBmp \subseteq Slots
      BY DEF Registry!Create, Registry!CreateFails
    <2> QED
      BY <2>1, <1>1, <1>2, SearchFinds
  <1>4. (\A j \in Slots : rTab[j].name # n) /\ rRefused' = "none" /\ rStale' = rStale
    BY DEF Registry!Create, Registry!CreateFails
  <1>5. rTab \in [Slots -> [name : Names \cup {"none"}, tid : Nat]] /\ rTab[i].tid = 0
    BY <1>1, <1>3 DEF EntryInv
  <1>6. CASE Registry!Create(n)
    <2>1. /\ rTab' = [rTab EXCEPT ![i] = [name |-> n, tid |-> Len(rThread) + 1]] /\ rBmp' = rBmp \cup {i}
          /\ rThread' = Append(rThread, [name |-> n, state |-> "runs"]) /\ Len(rThread) < MaxThreads
      BY <1>2, <1>6 DEF Registry!Create
    <2>2. [name |-> n, state |-> "runs"] \in ThreadType
      BY DEF ThreadType
    <2>3. /\ rThread' \in Seq(ThreadType) /\ Len(rThread') = Len(rThread) + 1
          /\ \A u \in 1 .. Len(rThread) : rThread'[u] = rThread[u]
          /\ rThread'[Len(rThread) + 1] = [name |-> n, state |-> "runs"]
      BY <1>1, <2>1, <2>2
    <2>4. /\ rTab' \in [Slots -> [name : Names \cup {"none"}, tid : Nat]]
          /\ \A j \in Slots : rTab'[j] = IF j = i THEN [name |-> n, tid |-> Len(rThread) + 1] ELSE rTab[j]
      <3>1. [name |-> n, tid |-> Len(rThread) + 1] \in [name : Names \cup {"none"}, tid : Nat]
        BY <1>1
      <3> QED
        BY <1>5, <2>1, <3>1
    <2>5. EntryInv'
      <3>1. \A j, k \in Slots : rTab'[j].name = rTab'[k].name /\ rTab'[j].name \in Names => j = k
        BY <1>1, <1>4, <2>4 DEF EntryInv
      <3>2. \A j \in Slots : rTab'[j].tid <= Len(rThread')
        <4>1. \A j \in Slots : rTab[j].tid \in Nat /\ rTab[j].tid <= Len(rThread)
          BY <1>1, <1>5 DEF EntryInv
        <4>2. \A j \in Slots : rTab'[j].tid = Len(rThread) + 1 \/ rTab'[j].tid = rTab[j].tid
          BY <2>4
        <4>3. Len(rThread) \in Nat /\ Len(rThread') = Len(rThread) + 1
          BY <1>1, <2>3
        <4>4. ASSUME NEW j \in Slots PROVE rTab'[j].tid <= Len(rThread')
          <5>1. CASE rTab'[j].tid = Len(rThread) + 1
            BY <4>3, <5>1
          <5>2. CASE rTab'[j].tid = rTab[j].tid
            BY <4>1, <4>3, <5>2
          <5> QED
            BY <4>2, <5>1, <5>2
        <4> QED
          BY <4>4
      <3>3. \A j, k \in rBmp' : rTab'[j].tid = rTab'[k].tid => j = k
        <4>1. \A j \in rBmp : j \in Slots /\ j # i /\ rTab'[j] = rTab[j] /\ rTab[j].tid \in Nat /\ rTab[j].tid <= Len(rThread)
          BY <1>1, <1>3, <1>5, <2>4 DEF EntryInv
        <4>2. rTab'[i].tid = Len(rThread) + 1
          BY <1>3, <2>4
        <4> QED
          BY <1>1, <2>1, <4>1, <4>2 DEF EntryInv
      <3>4. rBmp' \subseteq Slots /\ (\A j \in Slots \ rBmp' : rTab'[j].tid = 0) /\ \A j \in rBmp' : rTab'[j].tid # 0
        BY <1>1, <1>3, <2>1, <2>4 DEF EntryInv
      <3>5. Len(rThread') <= MaxThreads
        BY <1>1, <2>1, <2>3
      <3> QED
        BY <1>1, <1>4, <2>3, <2>4, <3>1, <3>2, <3>3, <3>4, <3>5 DEF EntryInv
    <2>6. RunInv'
      <3> SUFFICES ASSUME ~rStale' PROVE RunInv'
        BY DEF RunInv
      <3>1. ASSUME NEW j \in rBmp'
            PROVE  rThread'[rTab'[j].tid].state = "runs" /\ rTab'[j].name = rThread'[rTab'[j].tid].name
        <4>1. CASE j = i
          BY <4>1, <1>3, <2>3, <2>4
        <4>2. CASE j # i
          <5>1. j \in rBmp /\ j \in Slots /\ rTab'[j] = rTab[j] /\ rTab[j].tid \in 1 .. Len(rThread)
            BY <4>2, <1>1, <1>5, <2>1, <2>4 DEF EntryInv
          <5> QED
            BY <5>1, <1>1, <1>4, <2>3 DEF RunInv
        <4> QED
          BY <4>1, <4>2
      <3>2. ASSUME NEW u \in 1 .. Len(rThread'), rThread'[u].state = "runs"
            PROVE  \E j \in rBmp' : rTab'[j].tid = u
        <4>1. CASE u = Len(rThread) + 1
          BY <4>1, <1>3, <2>1, <2>4
        <4>2. CASE u # Len(rThread) + 1
          <5>1. u \in 1 .. Len(rThread) /\ rThread[u].state = "runs"
            BY <4>2, <1>1, <2>3, <3>2
          <5>2. PICK j \in rBmp : rTab[j].tid = u
            BY <5>1, <1>1, <1>4 DEF RunInv
          <5>3. j \in rBmp' /\ rTab'[j] = rTab[j]
            BY <1>1, <1>3, <2>1, <2>4 DEF EntryInv
          <5> QED
            BY <5>2, <5>3
        <4> QED
          BY <4>1, <4>2
      <3> QED
        BY <3>1, <3>2 DEF RunInv
    <2> QED
      BY <2>5, <2>6 DEF RegistryInv
  <1>7. CASE Registry!CreateFails(n)
    <2>1. rTab' = [rTab EXCEPT ![i].name = n] /\ rBmp' = rBmp /\ rThread' = rThread
      BY <1>2, <1>7 DEF Registry!CreateFails
    <2>2. /\ rTab' \in [Slots -> [name : Names \cup {"none"}, tid : Nat]]
          /\ \A j \in Slots : rTab'[j].tid = rTab[j].tid /\ rTab'[j].name = IF j = i THEN n ELSE rTab[j].name
      <3>1. [rTab[i] EXCEPT !.name = n] \in [name : Names \cup {"none"}, tid : Nat]
        BY <1>3, <1>5
      <3> QED
        BY <1>5, <2>1, <3>1
    <2>3. EntryInv'
      <3>1. \A j, k \in Slots : rTab'[j].name = rTab'[k].name /\ rTab'[j].name \in Names => j = k
        BY <1>1, <1>4, <2>2 DEF EntryInv
      <3> QED
        BY <1>1, <1>4, <2>1, <2>2, <3>1 DEF EntryInv
    <2>4. RunInv'
      <3>1. \A j \in rBmp : j \in Slots /\ j # i
        BY <1>1, <1>3 DEF EntryInv
      <3>2. \A j \in rBmp : rTab'[j].tid = rTab[j].tid /\ rTab'[j].name = rTab[j].name
        BY <2>2, <3>1
      <3> QED
        BY <1>1, <1>4, <2>1, <3>2 DEF RunInv
    <2> QED
      BY <2>3, <2>4 DEF RegistryInv
  <1> QED
    BY <1>6, <1>7

\* The three ways out of the table: each clears the entry of the thread it ends, but
\* for a cancelled thread that leaves by a name.
LEMMA LeaveHolds ==
    ASSUME RegistryInv, Registry!RegistryAssumption,
           \/ \E n \in Names : Registry!CancelByName(n)
           \/ \E t \in Registry!Tids : Registry!CancelByTid(t) \/ Registry!ExitByName(t) \/ Registry!Ends(t)
    PROVE  RegistryInv'
  <1>1. /\ EntryInv /\ RunInv /\ Slots \subseteq Nat /\ "none" \notin Names /\ rStale \in BOOLEAN
        /\ Len(rThread) \in Nat /\ rThread \in Seq(ThreadType) /\ rBmp \subseteq Slots
        /\ \A i \in Slots : rTab[i].tid \in Nat
    BY DEF RegistryInv, EntryInv, Registry!RegistryAssumption
  <1>2. ASSUME NEW S, S \subseteq Slots, S # {}, \A i \in S : rTab[i].tid # 0
        PROVE  Registry!Lowest(S) \in S /\ Registry!Lowest(S) \in rBmp
    <2>1. Registry!Lowest(S) \in S
      BY <1>1, <1>2, SearchFinds
    <2> QED
      BY <1>1, <1>2, <2>1 DEF EntryInv
  <1>3. ASSUME NEW i \in rBmp PROVE rTab[i].tid \in 1 .. Len(rThread)
    BY <1>1 DEF EntryInv
  <1>4. ASSUME NEW n \in Names, Registry!CancelByName(n) PROVE RegistryInv'
    <2>1. PICK i : i = Registry!Lowest(Registry!Named(n))
      OBVIOUS
    <2>2. Registry!Named(n) \subseteq Slots /\ Registry!Named(n) # {} /\ \A j \in Registry!Named(n) : rTab[j].tid # 0
      <3>1. Registry!Named(n) # {}
        BY <1>4 DEF Registry!CancelByName
      <3>2. \A j \in Registry!Named(n) : j \in Slots /\ rTab[j].tid > 0
        BY DEF Registry!Named
      <3> QED
        BY <1>1, <3>1, <3>2
    <2>3. i \in rBmp /\ rTab[i].tid \in 1 .. Len(rThread)
      BY <1>2, <1>3, <2>1, <2>2
    <2>4. PICK t : t = rTab[i].tid
      OBVIOUS
    <2>5. /\ rThread' = [rThread EXCEPT ![t].state = IF @ = "runs" THEN "cancelled" ELSE @]
          /\ Registry!Clear(i) /\ rRefused' = "none" /\ rStale' = rStale
      BY <1>4, <2>1, <2>4 DEF Registry!CancelByName
    <2>6. PICK s : s = IF rThread[t].state = "runs" THEN "cancelled" ELSE rThread[t].state
      OBVIOUS
    <2>7. s \in {"cancelled", "ended"}
      <3>1. rThread[t] \in ThreadType
        BY <1>1, <2>3, <2>4
      <3> QED
        BY <2>6, <3>1 DEF ThreadType
    <2>8. rThread' = [rThread EXCEPT ![t].state = s]
      BY <2>5, <2>6
    <2>9. i \in rBmp /\ t \in 1 .. Len(rThread) /\ rStale' \in BOOLEAN /\ (~rStale' => ~rStale /\ t = rTab[i].tid)
      BY <1>1, <2>3, <2>4, <2>5
    <2> QED
      BY <1>1, <2>5, <2>7, <2>8, <2>9, ClearHolds, Zenon
  <1>5. ASSUME NEW t \in 1 .. Len(rThread), Registry!CancelByTid(t) PROVE RegistryInv'
    <2>1. PICK E : E = {i \in Slots : rTab[i].tid = t}
      OBVIOUS
    <2>2. /\ rThread' = [rThread EXCEPT ![t].state = "cancelled"] /\ rRefused' = "none" /\ rStale' = rStale
          /\ IF E # {} THEN Registry!Clear(Registry!Lowest(E)) ELSE rTab' = rTab /\ rBmp' = rBmp
      BY <1>5, <2>1 DEF Registry!CancelByTid
    <2>3. CASE E # {}
      <3>1. PICK i : i = Registry!Lowest(E)
        OBVIOUS
      <3>2. E \subseteq Slots /\ \A j \in E : rTab[j].tid # 0
        BY <1>1, <2>1
      <3>3. i \in E /\ i \in rBmp
        BY <1>2, <2>3, <3>1, <3>2
      <3>4. Registry!Clear(i) /\ rTab[i].tid = t
        BY <2>1, <2>2, <2>3, <3>1, <3>3
      <3> QED
        BY <1>1, <2>2, <3>3, <3>4, ClearHolds
    <2>4. CASE E = {}
      <3>1. \A j \in rBmp : rTab[j].tid # t
        BY <1>1, <2>1, <2>4
      <3>2. rTab' = rTab /\ rBmp' = rBmp
        BY <2>2, <2>4
      <3>3. PICK s : s = "cancelled"
        OBVIOUS
      <3> QED
        BY <1>1, <2>2, <3>1, <3>2, <3>3, AloneHolds
    <2> QED
      BY <2>3, <2>4
  <1>6. ASSUME NEW t \in 1 .. Len(rThread), Registry!ExitByName(t) PROVE RegistryInv'
    <2>1. PICK S : S = Registry!Named(rThread[t].name)
      OBVIOUS
    <2>2. PICK i : i = Registry!Lowest(S)
      OBVIOUS
    <2>3. S \subseteq Slots /\ S # {} /\ \A j \in S : rTab[j].tid # 0 /\ rTab[j].name = rThread[t].name
      BY <1>1, <1>6, <2>1 DEF Registry!ExitByName, Registry!Named
    <2>4. i \in S /\ i \in rBmp
      BY <1>2, <2>2, <2>3
    <2>5. /\ rThread' = [rThread EXCEPT ![t].state = "ended"] /\ rRefused' = "none"
          /\ rStale' = (rStale \/ rThread[t].state = "cancelled") /\ Registry!Clear(i)
          /\ rThread[t].state # "ended"
      BY <1>6, <2>1, <2>2 DEF Registry!ExitByName, Registry!Alive
    <2>6. rThread[t] \in ThreadType
      BY <1>1
    <2>7. ASSUME ~rStale' PROVE ~rStale /\ t = rTab[i].tid
      <3>1. ~rStale /\ rThread[t].state = "runs"
        BY <2>5, <2>6, <2>7 DEF ThreadType
      <3>2. PICK j \in rBmp : rTab[j].tid = t
        BY <1>1, <3>1 DEF RunInv
      <3>3. rTab[j].name = rThread[t].name /\ rThread[t].name \in Names
        BY <1>1, <2>6, <3>1, <3>2 DEF RunInv, ThreadType
      <3>4. i = j
        BY <1>1, <2>3, <2>4, <3>2, <3>3 DEF EntryInv
      <3> QED
        BY <3>1, <3>2, <3>4
    <2>8. rStale' \in BOOLEAN
      BY <2>5
    <2> QED
      BY <1>1, <2>4, <2>5, <2>7, <2>8, ClearHolds
  <1>7. ASSUME NEW t \in 1 .. Len(rThread), Registry!Ends(t) PROVE RegistryInv'
    <2>1. /\ rThread[t].state = "cancelled" /\ rThread' = [rThread EXCEPT ![t].state = "ended"]
          /\ UNCHANGED <<rTab, rBmp, rRefused, rStale>>
      BY <1>7 DEF Registry!Ends
    <2>2. ~rStale => \A j \in rBmp : rTab[j].tid # t
      BY <1>1, <2>1 DEF RunInv
    <2> QED
      BY <1>1, <2>1, <2>2, AloneHolds
  <1> QED
    BY <1>4, <1>5, <1>6, <1>7 DEF Registry!Tids

\* In every run of the table, whatever the order of creating, cancelling and leaving,
\* its entries are distinct and, until a cancelled thread leaves by a name, the threads
\* that run.
THEOREM RegistryStaysInStep == Registry!Spec => []RegistryInv
  <1>0. Registry!RegistryAssumption
    BY MCChannelsAssumption
  <1>1. Registry!Init => RegistryInv
    BY <1>0, RegistryInit
  <1>2. RegistryInv /\ [Registry!Next]_(Registry!vars) => RegistryInv'
    <2> SUFFICES ASSUME RegistryInv, [Registry!Next]_(Registry!vars) PROVE RegistryInv'
      OBVIOUS
    <2>1. CASE UNCHANGED Registry!vars
      BY <2>1 DEF Registry!vars, RegistryInv, EntryInv, RunInv
    <2>2. ASSUME NEW n \in Names, Registry!Refuse(n) PROVE RegistryInv'
      BY <2>2 DEF Registry!Refuse, RegistryInv, EntryInv, RunInv
    <2> QED
      BY <1>0, <2>1, <2>2, CreateHolds, LeaveHolds DEF Registry!Next
  <1> QED
    BY <1>1, <1>2, PTL DEF Registry!Spec

\* Until a thread leaves by the name of another (pthread_exit_by_name after a
\* cancellation), everyone who runs can be found and cancelled, no entry names a thread
\* that has ended, and no two threads of one name run.
THEOREM RegistryStaysSound == (Registry!Spec => []Registry!RegistrySound) /\ (MCSpec => []RegistrySound)
  <1>0. Registry!RegistryAssumption
    BY MCChannelsAssumption
  <1>1. RegistryInv => Registry!RegistrySound
    <2> SUFFICES ASSUME RegistryInv PROVE Registry!TypeOK /\ Registry!Registered /\ Registry!OneOfAName
      BY DEF Registry!RegistrySound
    <2>1. /\ EntryInv /\ RunInv /\ MaxThreads \in Nat /\ Len(rThread) \in Nat
          /\ \A t \in 1 .. Len(rThread) : rThread[t] \in ThreadType
      BY <1>0 DEF RegistryInv, EntryInv, Registry!RegistryAssumption
    <2>2. Registry!TypeOK
      <3>1. \A i \in Slots : rTab[i].tid \in 0 .. MaxThreads /\ rTab[i].name \in Names \cup {"none"}
        BY <2>1 DEF EntryInv
      <3>2. rTab \in [Slots -> [name : Names \cup {"none"}, tid : 0 .. MaxThreads]]
        <4>1. \A i \in Slots : rTab[i] \in [name : Names \cup {"none"}, tid : 0 .. MaxThreads]
          BY <2>1, <3>1 DEF EntryInv
        <4> QED
          BY <2>1, <4>1 DEF EntryInv
      <3> QED
        BY <2>1, <3>2 DEF Registry!TypeOK, EntryInv, Registry!Tids, ThreadType
    <2>3. \A i \in rBmp : rTab[i].tid \in 1 .. Len(rThread)
      BY <2>1 DEF EntryInv
    <2>4. Registry!Registered
      BY <2>1, <2>3 DEF Registry!Registered, Registry!Running, Registry!Tids, RunInv
    <2>5. ASSUME NEW t \in 1 .. Len(rThread), NEW u \in 1 .. Len(rThread), ~rStale,
                 rThread[t].state = "runs", rThread[u].state = "runs", rThread[t].name = rThread[u].name
          PROVE  t = u
      <3>1. PICK i \in rBmp : rTab[i].tid = t
        BY <2>1, <2>5 DEF RunInv
      <3>2. PICK j \in rBmp : rTab[j].tid = u
        BY <2>1, <2>5 DEF RunInv
      <3>3. rTab[i].name = rThread[t].name /\ rTab[j].name = rThread[u].name /\ rThread[t].name \in Names
        BY <2>1, <2>5, <3>1, <3>2 DEF RunInv, ThreadType
      <3>4. i = j
        BY <2>1, <2>5, <3>3 DEF EntryInv
      <3> QED
        BY <3>1, <3>2, <3>4
    <2> QED
      BY <2>2, <2>4, <2>5 DEF Registry!OneOfAName, Registry!Running, Registry!Tids
  <1>2. RegistryInv => RegistrySound
    BY <1>1 DEF RegistrySound
  <1> QED
    BY <1>1, <1>2, RegistryStaysInStep, ChannelParts, PTL
=============================================================================
