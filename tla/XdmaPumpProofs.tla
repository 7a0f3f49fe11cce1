---------------------------- MODULE XdmaPumpProofs ----------------------------
(***************************************************************************)
(* Proofs about XdmaPump, for any number of clients, channels, chips and   *)
(* bits. The inductive invariant joins the type invariant, the exactness   *)
(* of the socket bitmap, and what a sleeping reader and a reader that is   *)
(* cleaning up know about the clients. A second one, the order a walk over *)
(* the list of clients keeps, gives that a batch serves everybody once.    *)
(* Then about the rest of the way of the data: FrameDispatch, the analysis *)
(* of what a reader has read (the block it is in and the groups it has     *)
(* built are in step), Subscriptions (which tables a subscription          *)
(* reaches), and SendPackage (the sender of a group walks the frames the   *)
(* dispatcher has found). Each is proved alone and as a part of MCData.    *)
(***************************************************************************)
EXTENDS MCData, FiniteSets, FiniteSetTheorems, SequenceTheorems, WellFoundedInduction,
    TLAPS

\* While a reader cleans up nobody is counted, unless somebody came since.
AloneInTeardown ==
    "accept" \notin races =>
        \A ch \in Chans : rd[ch].pc \in Teardown => Counted = {}

PumpInv ==
    /\ TypeOK
    /\ BitmapExact
    /\ NoneStranded
    /\ AloneInTeardown

ReaderType ==
    [ pc : ReaderPc, cur : Clients \cup {NoClient}, nxt : Clients \cup {NoClient},
      due : SUBSET Clients, sent : SUBSET Clients, todo : SUBSET Chips ]

-----------------------------------------------------------------------------
(* The records of the readers.                                               *)

\* A reader that has just changed its place in the loop is well typed.
LEMMA FreshReader ==
    ASSUME NEW pc \in ReaderPc
    PROVE  Reader(pc) \in ReaderType /\ Reader(pc).pc = pc
BY DEF Reader, ReaderType

\* The node after a client is a client or the end of the list.
LEMMA NextOfType ==
    ASSUME list \in Seq(Clients), NEW c
    PROVE  NextOf(c) \in Clients \cup {NoClient}
<1> DEFINE K == {k \in 1 .. Len(list) - 1 : list[k] = c}
<1>1. CASE K = {}
  BY <1>1 DEF NextOf
<1>2. CASE K # {}
  <2>1. (CHOOSE k \in K : TRUE) \in K
    BY <1>2
  <2>2. (CHOOSE k \in K : TRUE) + 1 \in 1 .. Len(list)
    BY <2>1
  <2>3. list[(CHOOSE k \in K : TRUE) + 1] \in Clients
    BY <2>2
  <2> QED
    BY <1>2, <2>3 DEF NextOf
<1> QED
  BY <1>1, <1>2

\* Moving to another node changes nothing but the two pointers.
LEMMA AtType ==
    ASSUME list \in Seq(Clients), NEW r \in ReaderType, NEW c \in Clients \cup {NoClient}
    PROVE  At(r, c) \in ReaderType /\ At(r, c).pc = r.pc
BY NextOfType DEF At, ReaderType

\* So does a send, apart from its record of who has been served.
LEMMA SentType ==
    ASSUME list \in Seq(Clients), NEW r \in ReaderType, NEW c \in Clients \cup {NoClient},
           r.cur \in Clients
    PROVE  Sent(r, c) \in ReaderType /\ Sent(r, c).pc = r.pc
<1>1. At(r, c) \in ReaderType /\ At(r, c).pc = r.pc
  BY AtType
<1> QED
  BY <1>1 DEF Sent, ReaderType

\* A signal leaves every field but the program counter alone.
LEMMA SignalledType ==
    ASSUME NEW r \in ReaderType
    PROVE  /\ Signalled(r) \in ReaderType
           /\ Signalled(r).pc = IF r.pc = "asleep" THEN "check" ELSE r.pc
BY DEF Signalled, ReaderType, ReaderPc
-----------------------------------------------------------------------------
(* Type correctness.                                                         *)

\* The types hold at the start.
LEMMA TypeInit == Init => TypeOK
<1> SUFFICES ASSUME Init PROVE TypeOK
  OBVIOUS
<1> USE PumpAssumption
<1>1. Reader("check") \in ReaderType
  BY FreshReader DEF ReaderPc
<1> QED
  BY <1>1 DEF Init, TypeOK, ReaderType, Gone, Connected

\* Every step of uloop and of the readers keeps the types.
LEMMA TypeNext == TypeOK /\ [Next]_vars => TypeOK'
<1> SUFFICES ASSUME TypeOK, [Next]_vars PROVE TypeOK'
  OBVIOUS
<1> USE PumpAssumption
<1>t. /\ list \in Seq(Clients)
      /\ sec \in [Clients -> 0 .. Slots \cup {Gone}]
      /\ bmp \subseteq 0 .. Slots - 1
      /\ reg \subseteq Connected
      /\ holder \in [Chips -> Clients \cup {NoClient}]
      /\ rd \in [Chans -> ReaderType]
      /\ on \subseteq Chans
      /\ races \subseteq Races
  BY DEF TypeOK, ReaderType
<1>g. ASSUME NEW ch \in Chans, NEW pc \in ReaderPc, Goto(ch, pc) PROVE TypeOK'
  <2>1. rd' \in [Chans -> ReaderType]
    BY <1>g, <1>t, FreshReader DEF Goto
  <2> QED
    BY <1>g, <1>t, <2>1 DEF Goto, TypeOK, ReaderType, Connected
<1>1. ASSUME NEW c \in Clients, Accept(c) PROVE TypeOK'
  <2>1. PICK id \in 0 .. Slots :
          /\ id = Slots \/ id \notin bmp
          /\ sec' = [sec EXCEPT ![c] = id]
          /\ bmp' = IF id = Slots THEN bmp ELSE bmp \cup {id}
    BY <1>1 DEF Accept
  <2>2. sec' \in [Clients -> 0 .. Slots \cup {Gone}] /\ bmp' \subseteq 0 .. Slots - 1
    BY <2>1, <1>t
  <2>3. Connected \subseteq Connected'
    BY <2>1, <1>t DEF Connected, Gone
  <2>4. list' \in Seq(Clients)
    BY <1>1, <1>t DEF Accept
  <2>5. races' \subseteq Races
    BY <1>1, <1>t DEF Accept, Races
  <2> QED
    BY <1>1, <1>t, <2>2, <2>3, <2>4, <2>5 DEF Accept, TypeOK, ReaderType
<1>2. ASSUME NEW c \in Clients, Register(c) PROVE TypeOK'
  <2>1. rd' \in [Chans -> ReaderType]
    BY <1>2, <1>t, SignalledType DEF Register
  <2>2. races' \subseteq Races
    BY <1>2, <1>t DEF Register, Races
  <2> QED
    BY <1>2, <1>t, <2>1, <2>2 DEF Register, TypeOK, ReaderType, Connected
<1>3. ASSUME NEW c \in Clients, NEW x \in Chips, Load(c, x) \/ Unload(c, x) PROVE TypeOK'
  BY <1>3, <1>t, ZenonT(30) DEF Load, Unload, TypeOK, ReaderType, Connected
<1>4. ASSUME NEW c \in Clients, Free(c) PROVE TypeOK'
  <2>1. PICK k \in 1 .. Len(list) : list' = RemoveAt(list, k)
    BY <1>4 DEF Free
  <2>2. list' \in Seq(Clients)
    BY <2>1, <1>t DEF RemoveAt
  <2>3. rd' \in [Chans -> ReaderType]
    BY <1>4, <1>t, ZenonT(30) DEF Free, Forget, ReaderType
  <2>4. races' \subseteq Races
    BY <1>4, <1>t DEF Free, Forget, Races
  <2>5. sec' \in [Clients -> 0 .. Slots \cup {Gone}] /\ reg' \subseteq Connected'
    BY <1>4, <1>t DEF Free, Connected, Gone
  <2> QED
    BY <1>4, <1>t, <2>2, <2>3, <2>4, <2>5 DEF Free, TypeOK, ReaderType
<1>5. ASSUME NEW ch \in Chans, Check(ch) PROVE TypeOK'
  <2>1. (IF bmp = {} THEN "park" ELSE "enable") \in ReaderPc
    BY DEF ReaderPc
  <2> QED
    BY <1>5, <1>g, <2>1 DEF Check
<1>6. ASSUME NEW ch \in Chans, Park(ch) PROVE TypeOK'
  BY <1>6, <1>g DEF Park, ReaderPc
<1>7. ASSUME NEW ch \in Chans, WakeSpuriously(ch) PROVE TypeOK'
  BY <1>7, <1>g DEF WakeSpuriously, ReaderPc
<1>8. ASSUME NEW ch \in Chans, Enable(ch) PROVE TypeOK'
  <2>1. rd' \in [Chans -> ReaderType]
    BY <1>8, <1>t, FreshReader DEF Enable, ReaderPc
  <2> QED
    BY <1>8, <1>t, <2>1 DEF Enable, TypeOK, ReaderType, Connected
<1>9. ASSUME NEW ch \in Chans, ReadSome(ch) PROVE TypeOK'
  <2> DEFINE r0 == [Reader("send") EXCEPT !.due = Connected]
             h == IF list = << >> THEN NoClient ELSE Head(list)
  <2>1. r0 \in ReaderType
    BY FreshReader DEF ReaderPc, ReaderType, Connected
  <2>2. h \in Clients \cup {NoClient}
    BY <1>t
  <2>3. At(r0, h) \in ReaderType
    BY <2>1, <2>2, <1>t, AtType
  <2>4. rd' = [rd EXCEPT ![ch] = At(r0, h)]
    BY <1>9 DEF ReadSome
  <2>5. rd' \in [Chans -> ReaderType]
    BY <2>3, <2>4, <1>t
  <2> QED
    BY <1>9, <1>t, <2>5 DEF ReadSome, TypeOK, ReaderType, Connected
<1>10. ASSUME NEW ch \in Chans, ReadNone(ch) PROVE TypeOK'
  BY <1>10, <1>g DEF ReadNone, ReaderPc
<1>11. ASSUME NEW ch \in Chans, Send(ch) PROVE TypeOK'
  <2>1. rd[ch] \in ReaderType /\ rd[ch].nxt \in Clients \cup {NoClient} /\ rd[ch].cur \in Clients
    BY <1>11, <1>t DEF Send, ReaderType
  <2>2. Sent(rd[ch], rd[ch].nxt) \in ReaderType
    BY <2>1, <1>t, SentType
  <2>3. rd' \in [Chans -> ReaderType]
    BY <1>11, <2>2, <1>t DEF Send
  <2> QED
    BY <1>11, <1>t, <2>3 DEF Send, TypeOK, ReaderType, Connected
<1>12. ASSUME NEW ch \in Chans, SendEnd(ch) PROVE TypeOK'
  <2>1. rd' = [rd EXCEPT ![ch] = [rd[ch] EXCEPT !.pc = "over"]]
    BY <1>12 DEF SendEnd
  <2>2. [rd[ch] EXCEPT !.pc = "over"] \in ReaderType
    BY <1>t, ZenonT(30) DEF ReaderType, ReaderPc
  <2>3. rd' \in [Chans -> ReaderType]
    BY <2>1, <2>2, <1>t
  <2> QED
    BY <1>12, <1>t, <2>3 DEF SendEnd, TypeOK, ReaderType, Connected
<1>13. ASSUME NEW ch \in Chans, Over(ch) PROVE TypeOK'
  <2>1. (IF bmp = {} THEN "disable" ELSE "read") \in ReaderPc
    BY DEF ReaderPc
  <2> QED
    BY <1>13, <1>g, <2>1 DEF Over
<1>14. ASSUME NEW ch \in Chans, Disable(ch) PROVE TypeOK'
  <2>1. Reader("unload") \in ReaderType
    BY FreshReader DEF ReaderPc
  <2>2. rd' \in [Chans -> ReaderType]
    BY <1>14, <1>t, <2>1 DEF Disable, ReaderType
  <2> QED
    BY <1>14, <1>t, <2>2 DEF Disable, TypeOK, ReaderType, Connected
<1>15. ASSUME NEW ch \in Chans, UnloadChip(ch) PROVE TypeOK'
  <2>1. PICK x \in rd[ch].todo :
          /\ holder' = [holder EXCEPT ![x] = NoClient]
          /\ rd' = [rd EXCEPT ![ch].todo = @ \ {x}]
    BY <1>15 DEF UnloadChip
  <2>2. rd' \in [Chans -> ReaderType]
    BY <2>1, <1>t, ZenonT(30) DEF ReaderType
  <2>3. holder' \in [Chips -> Clients \cup {NoClient}]
    BY <2>1, <1>t DEF ReaderType
  <2> QED
    BY <1>15, <1>t, <2>2, <2>3 DEF UnloadChip, TypeOK, ReaderType, Connected
<1>16. ASSUME NEW ch \in Chans, UnloadEnd(ch) PROVE TypeOK'
  BY <1>16, <1>g DEF UnloadEnd, ReaderPc
<1>17. CASE UNCHANGED vars
  BY <1>17, <1>t DEF vars, TypeOK, ReaderType, Connected
<1> QED
  BY <1>1, <1>2, <1>3, <1>4, <1>5, <1>6, <1>7, <1>8, <1>9, <1>10, <1>11, <1>12,
     <1>13, <1>14, <1>15, <1>16, <1>17 DEF Next, Uloop, Pump
-----------------------------------------------------------------------------
(* The bitmap, the sleeping readers and the clean-up.                        *)

\* Steps that touch neither the table of connections nor the bitmap keep the
\* bitmap exact.
LEMMA BitmapFrame ==
    BitmapExact /\ UNCHANGED <<sec, bmp>> => BitmapExact'
BY DEF BitmapExact, Counted, Connected

\* With an exact bitmap, weight 0 means that nobody is counted.
LEMMA EmptyBitmap == BitmapExact /\ bmp = {} => Counted = {}
BY DEF BitmapExact

\* tcp_accept_cb hands out a bit nobody has, or none.
LEMMA AcceptBitmap ==
    ASSUME PumpInv, NEW c \in Clients, Accept(c)
    PROVE  BitmapExact'
<1> USE PumpAssumption
<1>t. sec \in [Clients -> 0 .. Slots \cup {Gone}] /\ bmp \subseteq 0 .. Slots - 1
  BY DEF PumpInv, TypeOK
<1>b. /\ bmp = {sec[d] : d \in Counted}
      /\ \A d, e \in Counted : d # e => sec[d] # sec[e]
  BY DEF PumpInv, BitmapExact
<1>1. PICK id \in 0 .. Slots :
        /\ id = Slots \/ id \notin bmp
        /\ sec' = [sec EXCEPT ![c] = id]
        /\ bmp' = IF id = Slots THEN bmp ELSE bmp \cup {id}
  BY DEF Accept
<1>2. c \notin Connected /\ c \notin Counted
  BY DEF Accept, Counted
<1>3. \A d \in Clients \ {c} : sec'[d] = sec[d]
  BY <1>1, <1>t
<1>4. sec'[c] = id
  BY <1>1, <1>t
<1>5. CASE id = Slots
  <2>1. Counted' = Counted
    BY <1>2, <1>3, <1>4, <1>5 DEF Counted, Connected
  <2>2. \A d \in Counted : sec'[d] = sec[d]
    BY <1>2, <1>3 DEF Counted, Connected
  <2> QED
    BY <1>1, <1>5, <1>b, <2>1, <2>2 DEF BitmapExact
<1>6. CASE id # Slots
  <2>1. Counted' = Counted \cup {c}
    BY <1>2, <1>3, <1>4, <1>6, <1>1 DEF Counted, Connected, Gone
  <2>2. \A d \in Counted : sec'[d] = sec[d] /\ sec[d] # id
    BY <1>2, <1>3, <1>1, <1>6, <1>b DEF Counted, Connected
  <2>3. bmp' = {sec'[d] : d \in Counted'}
    BY <1>1, <1>4, <1>6, <1>b, <2>1, <2>2
  <2>4. \A d, e \in Counted' : d # e => sec'[d] # sec'[e]
    BY <1>4, <1>b, <2>1, <2>2
  <2> QED
    BY <2>3, <2>4 DEF BitmapExact
<1> QED
  BY <1>5, <1>6

\* tcp_free clears the bit of the connection that goes and no other.
LEMMA FreeBitmap ==
    ASSUME PumpInv, NEW c \in Clients, Free(c)
    PROVE  BitmapExact' /\ Counted' = Counted \ {c}
<1> USE PumpAssumption
<1>t. sec \in [Clients -> 0 .. Slots \cup {Gone}] /\ bmp \subseteq 0 .. Slots - 1
  BY DEF PumpInv, TypeOK
<1>b. /\ bmp = {sec[d] : d \in Counted}
      /\ \A d, e \in Counted : d # e => sec[d] # sec[e]
  BY DEF PumpInv, BitmapExact
<1>1. c \in Connected /\ sec' = [sec EXCEPT ![c] = Gone] /\ bmp' = bmp \ {sec[c]}
  BY DEF Free
<1>2. \A d \in Clients \ {c} : sec'[d] = sec[d]
  BY <1>1, <1>t
<1>3. Counted' = Counted \ {c}
  BY <1>1, <1>2, <1>t DEF Counted, Connected
<1>4. \A d \in Counted \ {c} : sec'[d] = sec[d]
  BY <1>2 DEF Counted, Connected
<1>5. \A d \in Counted \ {c} : sec[d] # sec[c]
  BY <1>b, <1>1 DEF Counted, Connected
<1>6. bmp' = {sec[d] : d \in Counted \ {c}}
  <2>1. CASE c \in Counted
    BY <2>1, <1>1, <1>b, <1>5
  <2>2. CASE c \notin Counted
    <3>1. sec[c] \notin bmp
      BY <2>2, <1>1, <1>b DEF Counted, Connected
    <3> QED
      BY <2>2, <3>1, <1>1, <1>b
  <2> QED
    BY <2>1, <2>2
<1> QED
  BY <1>3, <1>4, <1>6, <1>b DEF BitmapExact

\* The invariant holds when the readers start.
LEMMA InvInit == Init => PumpInv
<1> SUFFICES ASSUME Init PROVE PumpInv
  OBVIOUS
<1>1. TypeOK
  BY TypeInit
<1>2. Counted = {}
  BY DEF Init, Counted, Connected, Gone
<1>3. BitmapExact
  BY <1>2 DEF Init, BitmapExact
<1>4. NoneStranded /\ AloneInTeardown
  BY <1>2 DEF NoneStranded, AloneInTeardown
<1> QED
  BY <1>1, <1>3, <1>4 DEF PumpInv
\* A step of one reader keeps the invariant if the reader falls asleep or
\* starts to clean up only from an empty bitmap.
LEMMA ReaderStep ==
    ASSUME PumpInv, TypeOK', NEW ch \in Chans,
           UNCHANGED <<sec, bmp, reg, races>>,
           \A d \in Chans \ {ch} : rd'[d].pc = rd[d].pc,
           rd'[ch].pc \in {"park", "asleep"} => rd[ch].pc = "park" \/ bmp = {},
           rd'[ch].pc \in Teardown => rd[ch].pc \in Teardown \/ bmp = {}
    PROVE  PumpInv'
<1>1. BitmapExact'
  BY BitmapFrame DEF PumpInv
<1>2. Counted' = Counted
  BY DEF Counted, Connected
<1>3. bmp = {} => Counted = {}
  BY EmptyBitmap DEF PumpInv
<1>4. NoneStranded'
  BY <1>2, <1>3 DEF PumpInv, NoneStranded
<1>5. AloneInTeardown'
  BY <1>2, <1>3 DEF PumpInv, AloneInTeardown
<1> QED
  BY <1>1, <1>4, <1>5 DEF PumpInv

\* Every step keeps the invariant.
LEMMA InvNext == PumpInv /\ [Next]_vars => PumpInv'
<1> SUFFICES ASSUME PumpInv, [Next]_vars PROVE PumpInv'
  OBVIOUS
<1> USE PumpAssumption
<1>t. TypeOK'
  BY TypeNext DEF PumpInv
<1>r. rd \in [Chans -> ReaderType]
  BY DEF PumpInv, TypeOK, ReaderType
<1>s. sec \in [Clients -> 0 .. Slots \cup {Gone}] /\ reg \subseteq Connected
  BY DEF PumpInv, TypeOK
<1>g. ASSUME NEW ch \in Chans, NEW pc \in ReaderPc, Goto(ch, pc),
             pc \in {"park", "asleep"} => rd[ch].pc = "park" \/ bmp = {},
             pc \in Teardown => bmp = {}
      PROVE  PumpInv'
  <2>1. rd'[ch].pc = pc /\ \A d \in Chans \ {ch} : rd'[d].pc = rd[d].pc
    BY <1>g, <1>r, FreshReader DEF Goto
  <2> QED
    BY <1>g, <1>t, <2>1, ReaderStep DEF Goto
<1>1. ASSUME NEW c \in Clients, Accept(c) PROVE PumpInv'
  <2>1. BitmapExact'
    BY <1>1, AcceptBitmap
  <2>2. /\ reg' = reg /\ rd' = rd /\ races \subseteq races'
        /\ (\E ch \in Chans : rd[ch].pc \in Teardown) => "accept" \in races'
    BY <1>1 DEF Accept
  <2>3. c \notin Connected /\ \A d \in Clients \ {c} : sec'[d] = sec[d]
    BY <1>1, <1>s DEF Accept
  <2>4. reg' \cap Counted' = reg \cap Counted
    BY <2>2, <2>3, <1>s DEF Counted, Connected
  <2>5. NoneStranded'
    BY <2>2, <2>4 DEF PumpInv, NoneStranded
  <2>6. AloneInTeardown'
    BY <2>2 DEF AloneInTeardown
  <2> QED
    BY <1>t, <2>1, <2>5, <2>6 DEF PumpInv
<1>2. ASSUME NEW c \in Clients, Register(c) PROVE PumpInv'
  <2>1. /\ sec' = sec /\ bmp' = bmp /\ races \subseteq races'
        /\ (\E ch \in Chans : rd[ch].pc = "park") => "signal" \in races'
    BY <1>2 DEF Register
  <2>2. \A ch \in Chans : rd'[ch].pc = IF rd[ch].pc = "asleep" THEN "check" ELSE rd[ch].pc
    BY <1>2, <1>r, SignalledType DEF Register
  <2>3. BitmapExact' /\ Counted' = Counted
    BY <2>1, BitmapFrame DEF PumpInv, Counted, Connected
  <2>4. NoneStranded'
    BY <2>1, <2>2 DEF NoneStranded
  <2>5. AloneInTeardown'
    BY <2>1, <2>2, <2>3 DEF PumpInv, AloneInTeardown, Teardown
  <2> QED
    BY <1>t, <2>3, <2>4, <2>5 DEF PumpInv
<1>3. ASSUME NEW c \in Clients, NEW x \in Chips, Load(c, x) \/ Unload(c, x) PROVE PumpInv'
  <2>1. UNCHANGED <<sec, bmp, reg, rd, races>>
    BY <1>3 DEF Load, Unload
  <2> QED
    BY <1>t, <2>1, BitmapFrame
    DEF PumpInv, NoneStranded, AloneInTeardown, Counted, Connected
<1>4. ASSUME NEW c \in Clients, Free(c) PROVE PumpInv'
  <2>1. BitmapExact' /\ Counted' = Counted \ {c}
    BY <1>4, FreeBitmap
  <2>2. reg' \subseteq reg /\ races \subseteq races'
    BY <1>4 DEF Free, Forget
  <2>3. \A ch \in Chans : rd'[ch].pc = rd[ch].pc
    BY <1>4, <1>r DEF Free, Forget, ReaderType
  <2>4. NoneStranded'
    BY <2>1, <2>2, <2>3 DEF PumpInv, NoneStranded
  <2>5. AloneInTeardown'
    BY <2>1, <2>2, <2>3 DEF PumpInv, AloneInTeardown
  <2> QED
    BY <1>t, <2>1, <2>4, <2>5 DEF PumpInv
<1>5. ASSUME NEW ch \in Chans, Check(ch) PROVE PumpInv'
  <2>1. CASE bmp = {}
    BY <1>5, <2>1, <1>g DEF Check, ReaderPc, Teardown
  <2>2. CASE bmp # {}
    BY <1>5, <2>2, <1>g DEF Check, ReaderPc, Teardown
  <2> QED
    BY <2>1, <2>2
<1>6. ASSUME NEW ch \in Chans, Park(ch) PROVE PumpInv'
  BY <1>6, <1>g DEF Park, ReaderPc, Teardown
<1>7. ASSUME NEW ch \in Chans, WakeSpuriously(ch) PROVE PumpInv'
  BY <1>7, <1>g DEF WakeSpuriously, ReaderPc, Teardown
<1>8. ASSUME NEW ch \in Chans, Enable(ch) PROVE PumpInv'
  <2>1. rd'[ch].pc = "read" /\ \A d \in Chans \ {ch} : rd'[d].pc = rd[d].pc
    BY <1>8, <1>r, FreshReader DEF Enable, ReaderPc
  <2> QED
    BY <1>8, <1>t, <2>1, ReaderStep DEF Enable, Teardown
<1>9. ASSUME NEW ch \in Chans, ReadSome(ch) PROVE PumpInv'
  <2> DEFINE r0 == [Reader("send") EXCEPT !.due = Connected]
             h == IF list = << >> THEN NoClient ELSE Head(list)
  <2>1. r0 \in ReaderType /\ r0.pc = "send"
    BY FreshReader DEF ReaderPc, ReaderType, Connected
  <2>2. list \in Seq(Clients) /\ h \in Clients \cup {NoClient}
    BY DEF PumpInv, TypeOK
  <2>3. At(r0, h).pc = "send"
    BY <2>1, <2>2, AtType
  <2>4. rd' = [rd EXCEPT ![ch] = At(r0, h)]
    BY <1>9 DEF ReadSome
  <2>5. rd'[ch].pc = "send" /\ \A d \in Chans \ {ch} : rd'[d].pc = rd[d].pc
    BY <2>3, <2>4, <1>r
  <2> QED
    BY <1>9, <1>t, <2>5, ReaderStep DEF ReadSome, Teardown
<1>10. ASSUME NEW ch \in Chans, ReadNone(ch) PROVE PumpInv'
  BY <1>10, <1>g DEF ReadNone, ReaderPc, Teardown
<1>11. ASSUME NEW ch \in Chans, Send(ch) PROVE PumpInv'
  <2>1. rd[ch] \in ReaderType /\ rd[ch].nxt \in Clients \cup {NoClient} /\ rd[ch].cur \in Clients
    BY <1>11, <1>r DEF Send, ReaderType
  <2>2. Sent(rd[ch], rd[ch].nxt).pc = "send"
    BY <1>11, <2>1, SentType DEF Send, PumpInv, TypeOK
  <2>3. rd'[ch].pc = "send" /\ \A d \in Chans \ {ch} : rd'[d].pc = rd[d].pc
    BY <1>11, <2>2, <1>r DEF Send
  <2> QED
    BY <1>11, <1>t, <2>3, ReaderStep DEF Send, Teardown
<1>12. ASSUME NEW ch \in Chans, SendEnd(ch) PROVE PumpInv'
  <2>1. rd'[ch].pc = "over" /\ \A d \in Chans \ {ch} : rd'[d].pc = rd[d].pc
    BY <1>12, <1>r DEF SendEnd, ReaderType
  <2> QED
    BY <1>12, <1>t, <2>1, ReaderStep DEF SendEnd, Teardown
<1>13. ASSUME NEW ch \in Chans, Over(ch) PROVE PumpInv'
  <2>1. CASE bmp = {}
    BY <1>13, <2>1, <1>g DEF Over, ReaderPc
  <2>2. CASE bmp # {}
    BY <1>13, <2>2, <1>g DEF Over, ReaderPc, Teardown
  <2> QED
    BY <2>1, <2>2
<1>14. ASSUME NEW ch \in Chans, Disable(ch) PROVE PumpInv'
  <2>1. rd'[ch].pc = "unload" /\ \A d \in Chans \ {ch} : rd'[d].pc = rd[d].pc
    BY <1>14, <1>r, FreshReader DEF Disable, ReaderPc, ReaderType
  <2> QED
    BY <1>14, <1>t, <2>1, ReaderStep DEF Disable, Teardown
<1>15. ASSUME NEW ch \in Chans, UnloadChip(ch) PROVE PumpInv'
  <2>1. PICK x \in rd[ch].todo : rd' = [rd EXCEPT ![ch].todo = @ \ {x}]
    BY <1>15 DEF UnloadChip
  <2>2. rd'[ch].pc = "unload" /\ \A d \in Chans \ {ch} : rd'[d].pc = rd[d].pc
    BY <1>15, <2>1, <1>r DEF UnloadChip, ReaderType
  <2> QED
    BY <1>15, <1>t, <2>2, ReaderStep DEF UnloadChip, Teardown
<1>16. ASSUME NEW ch \in Chans, UnloadEnd(ch) PROVE PumpInv'
  BY <1>16, <1>g DEF UnloadEnd, ReaderPc, Teardown
<1>17. CASE UNCHANGED vars
  BY <1>17, <1>t, BitmapFrame
  DEF vars, PumpInv, NoneStranded, AloneInTeardown, Counted, Connected
<1> QED
  BY <1>1, <1>2, <1>3, <1>4, <1>5, <1>6, <1>7, <1>8, <1>9, <1>10, <1>11, <1>12,
     <1>13, <1>14, <1>15, <1>16, <1>17 DEF Next, Uloop, Pump

\* The inductive invariant holds in every reachable state.
THEOREM PumpInvAlways == Spec => []PumpInv
<1>1. Init => PumpInv
  BY InvInit
<1>2. PumpInv /\ [Next]_vars => PumpInv'
  BY InvNext
<1> QED
  BY <1>1, <1>2, PTL DEF Spec
-----------------------------------------------------------------------------
(* The theorems.                                                             *)

\* Type correctness of the pump, its client table and its walks.
THEOREM PumpTypeCorrect == Spec => []TypeOK
<1>1. PumpInv => TypeOK
  BY DEF PumpInv
<1> QED
  BY <1>1, PumpInvAlways, PTL

\* The socket bitmap and the section ids of the connections agree, for every
\* size of the bitmap and every order of accepting and freeing.
THEOREM BitmapAlwaysExact == Spec => []BitmapExact
<1>1. PumpInv => BitmapExact
  BY DEF PumpInv
<1> QED
  BY <1>1, PumpInvAlways, PTL

\* Without a lost signal no reader sleeps while a counted client is registered.
THEOREM NeverStranded == Spec => []NoneStranded
<1>1. PumpInv => NoneStranded
  BY DEF PumpInv
<1> QED
  BY <1>1, PumpInvAlways, PTL

\* A reader's clean-up takes a file away from a counted client only if some
\* client connected while a clean-up was under way.
THEOREM FilesAreKept == Spec => FilesKept
<1> DEFINE Keep == \A x \in Chips :
             holder[x] \in Counted /\ holder'[x] = NoClient /\ rd' # rd => "accept" \in races
<1>1. ASSUME PumpInv, [Next]_vars PROVE [Keep]_vars
  <2> SUFFICES ASSUME Next, NEW x \in Chips, holder[x] \in Counted, holder'[x] = NoClient, rd' # rd
               PROVE  "accept" \in races
    BY <1>1
  <2>1. holder' # holder
    BY PumpAssumption DEF Counted, Connected
  <2>2. PICK ch \in Chans : UnloadChip(ch)
    <3>1. ~ \E c \in Clients : Uloop(c)
      BY <2>1 DEF Uloop, Accept, Register, Load, Unload, Free, Forget
    <3> QED
      BY <2>1, <3>1 DEF Next, Pump, Goto, Check, Park, WakeSpuriously, Enable, ReadSome, ReadNone,
                        Send, SendEnd, Over, Disable, UnloadEnd
  <2>3. rd[ch].pc \in Teardown
    BY <2>2 DEF UnloadChip, Teardown
  <2> QED
    BY <1>1, <2>3 DEF PumpInv, AloneInTeardown
<1> QED
  BY <1>1, PumpInvAlways, PTL DEF Spec, FilesKept

\* The list, the bitmap and the sleep of the readers agree, for any number of
\* connections, channels and bits.
THEOREM ReadersStaySound == Spec => []ReadersSound
<1>1. TypeOK /\ BitmapExact /\ NoneStranded => ReadersSound
  BY DEF ReadersSound
<1> QED
  BY <1>1, PumpTypeCorrect, BitmapAlwaysExact, NeverStranded, PTL
-----------------------------------------------------------------------------
(* The walk of a reader over the list of clients.                            *)

\* srv->clients holds every connection once.
ListInv ==
    /\ \A i, j \in 1 .. Len(list) : list[i] = list[j] => i = j
    /\ \A c \in Clients : c \in Connected <=> \E i \in 1 .. Len(list) : list[i] = c

\* Reader r stands at place k: the node it has saved is the one behind it,
\* everybody on the list who has been served is before it, and so is nobody
\* who is due and has not been served.
WalkAt(r, k) ==
    /\ list[k] = r.cur
    /\ r.nxt = IF k < Len(list) THEN list[k + 1] ELSE NoClient
    /\ \A i \in 1 .. Len(list) :
          /\ list[i] \in r.sent => i < k
          /\ i < k /\ list[i] \in r.due => list[i] \in r.sent

Walking(r) ==
    /\ r.due \subseteq Connected
    /\ IF r.cur = NoClient THEN r.due \subseteq r.sent
       ELSE \E k \in 1 .. Len(list) : WalkAt(r, k)

WalkInv ==
    "dangling" \notin races => \A ch \in Chans : rd[ch].pc = "send" => Walking(rd[ch])

\* list_add shifts every node by one place.
LEMMA PrependFacts ==
    ASSUME list \in Seq(Clients), NEW c \in Clients, list' = <<c>> \o list
    PROVE  /\ Len(list') = Len(list) + 1
           /\ list'[1] = c
           /\ \A i \in 1 .. Len(list) : list'[i + 1] = list[i]
           /\ \A i \in 2 .. Len(list') : list'[i] = list[i - 1]
OBVIOUS

\* list_del closes the gap and leaves the other nodes in their order.
LEMMA RemoveFacts ==
    ASSUME list \in Seq(Clients), NEW k \in 1 .. Len(list), list' = RemoveAt(list, k)
    PROVE  /\ Len(list') = Len(list) - 1
           /\ \A i \in 1 .. Len(list') : list'[i] = IF i < k THEN list[i] ELSE list[i + 1]
           /\ \A i \in 1 .. k - 1 : list'[i] = list[i]
           /\ \A i \in k + 1 .. Len(list) : list'[i - 1] = list[i]
<1> DEFINE front == SubSeq(list, 1, k - 1)
           back  == SubSeq(list, k + 1, Len(list))
<1>1. list' = front \o back
  BY DEF RemoveAt
<1>2. /\ front \in Seq(Clients) /\ Len(front) = k - 1
      /\ \A i \in 1 .. k - 1 : front[i] = list[i]
  OBVIOUS
<1>3. /\ back \in Seq(Clients) /\ Len(back) = Len(list) - k
      /\ \A i \in 1 .. Len(list) - k : back[i] = list[k + i]
  OBVIOUS
<1> HIDE DEF front, back
<1>4. Len(list') = Len(list) - 1
  BY <1>1, <1>2, <1>3
<1>5. ASSUME NEW i \in 1 .. Len(list') PROVE list'[i] = IF i < k THEN list[i] ELSE list[i + 1]
  <2>1. CASE i < k
    BY <1>1, <1>2, <1>3, <1>4, <2>1
  <2>2. CASE ~(i < k)
    <3>1. i - (k - 1) \in 1 .. Len(list) - k /\ list'[i] = back[i - (k - 1)]
      BY <1>1, <1>2, <1>3, <1>4, <2>2
    <3>2. Len(list) \in Nat /\ k + (i - (k - 1)) = i + 1
      OBVIOUS
    <3>3. back[i - (k - 1)] = list[k + (i - (k - 1))]
      BY <3>1, <1>3, Zenon
    <3>4. list'[i] = list[i + 1]
      BY <3>1, <3>2, <3>3, Zenon
    <3> QED
      BY <3>4, <2>2, Zenon
  <2> QED
    BY <2>1, <2>2
<1>6. \A i \in 1 .. k - 1 : list'[i] = list[i]
  BY <1>4, <1>5
<1>7. ASSUME NEW i \in k + 1 .. Len(list) PROVE list'[i - 1] = list[i]
  <2>1. i - 1 \in 1 .. Len(list') /\ ~(i - 1 < k) /\ (i - 1) + 1 = i
    BY <1>4
  <2> QED
    BY <2>1, <1>5
<1> QED
  BY <1>4, <1>5, <1>6, <1>7

\* Every client is on the list exactly from tcp_accept_cb to tcp_free.
LEMMA ListNext == TypeOK /\ ListInv /\ [Next]_vars => ListInv'
<1> SUFFICES ASSUME TypeOK, ListInv, [Next]_vars PROVE ListInv'
  OBVIOUS
<1>t. /\ list \in Seq(Clients) /\ Len(list) \in Nat
      /\ sec \in [Clients -> 0 .. Slots \cup {Gone}]
      /\ Slots \in Nat
  BY PumpAssumption DEF TypeOK
<1>1. ASSUME NEW c \in Clients, Accept(c) PROVE ListInv'
  <2>1. PICK id \in 0 .. Slots : sec' = [sec EXCEPT ![c] = id]
    BY <1>1 DEF Accept
  <2>2. c \notin Connected /\ list' = <<c>> \o list
    BY <1>1 DEF Accept
  <2>3. Connected' = Connected \cup {c}
    BY <2>1, <1>t DEF Connected, Gone
  <2>4. /\ Len(list') = Len(list) + 1
        /\ list'[1] = c
        /\ \A i \in 1 .. Len(list) : list'[i + 1] = list[i]
        /\ \A i \in 2 .. Len(list') : list'[i] = list[i - 1]
    BY <2>2, <1>t, PrependFacts
  <2>5. \A i \in 1 .. Len(list) : list[i] # c
    BY <2>2 DEF ListInv
  <2>6. ASSUME NEW i \in 1 .. Len(list'), NEW j \in 1 .. Len(list'), list'[i] = list'[j] PROVE i = j
    <3>1. CASE i = 1 /\ j = 1
      BY <3>1
    <3>2. CASE i = 1 /\ j # 1
      BY <2>6, <3>2, <2>4, <2>5, <1>t
    <3>3. CASE i # 1 /\ j = 1
      BY <2>6, <3>3, <2>4, <2>5, <1>t
    <3>4. CASE i # 1 /\ j # 1
      <4>1. i - 1 \in 1 .. Len(list) /\ j - 1 \in 1 .. Len(list) /\ list[i - 1] = list[j - 1]
        BY <2>6, <3>4, <2>4, <1>t
      <4> QED
        BY <4>1, <1>t DEF ListInv
    <3> QED
      BY <3>1, <3>2, <3>3, <3>4
  <2>7. ASSUME NEW d \in Clients PROVE d \in Connected' <=> \E i \in 1 .. Len(list') : list'[i] = d
    <3>1. CASE d = c
      BY <3>1, <2>3, <2>4, <1>t
    <3>2. CASE d # c
      <4>1. d \in Connected' <=> \E i \in 1 .. Len(list) : list[i] = d
        BY <3>2, <2>3 DEF ListInv
      <4>2. ASSUME NEW i \in 1 .. Len(list), list[i] = d PROVE \E j \in 1 .. Len(list') : list'[j] = d
        <5>1. i + 1 \in 1 .. Len(list') /\ list'[i + 1] = d
          BY <4>2, <2>4, <1>t
        <5> QED
          BY <5>1
      <4>3. ASSUME NEW i \in 1 .. Len(list'), list'[i] = d PROVE \E j \in 1 .. Len(list) : list[j] = d
        <5>1. i \in 2 .. Len(list')
          BY <4>3, <3>2, <2>4, <1>t
        <5>2. i - 1 \in 1 .. Len(list) /\ list[i - 1] = d
          BY <4>3, <5>1, <2>4, <1>t
        <5> QED
          BY <5>2
      <4> QED
        BY <4>1, <4>2, <4>3
    <3> QED
      BY <3>1, <3>2
  <2> QED
    BY <2>6, <2>7 DEF ListInv
<1>2. ASSUME NEW c \in Clients, Free(c) PROVE ListInv'
  <2>1. PICK k \in 1 .. Len(list) : list[k] = c /\ list' = RemoveAt(list, k)
    BY <1>2 DEF Free
  <2>2. Connected' = Connected \ {c}
    BY <1>2, <1>t DEF Free, Connected, Gone
  <2>3. /\ Len(list') = Len(list) - 1
        /\ \A i \in 1 .. Len(list') : list'[i] = IF i < k THEN list[i] ELSE list[i + 1]
        /\ \A i \in 1 .. k - 1 : list'[i] = list[i]
        /\ \A i \in k + 1 .. Len(list) : list'[i - 1] = list[i]
    BY <2>1, <1>t, RemoveFacts
  <2>4. ASSUME NEW i \in 1 .. Len(list'), NEW j \in 1 .. Len(list'), list'[i] = list'[j] PROVE i = j
    <3> DEFINE up(n) == IF n < k THEN n ELSE n + 1
    <3>1. up(i) \in 1 .. Len(list) /\ up(j) \in 1 .. Len(list) /\ list[up(i)] = list[up(j)]
      BY <2>4, <2>3, <1>t
    <3>2. up(i) = up(j)
      BY <3>1 DEF ListInv
    <3> QED
      BY <3>2
  <2>5. ASSUME NEW d \in Clients PROVE d \in Connected' <=> \E i \in 1 .. Len(list') : list'[i] = d
    <3>1. ASSUME d \in Connected' PROVE \E i \in 1 .. Len(list') : list'[i] = d
      <4>1. PICK i \in 1 .. Len(list) : list[i] = d
        BY <3>1, <2>2 DEF ListInv
      <4>2. i # k
        BY <4>1, <3>1, <2>1, <2>2
      <4>3. CASE i < k
        <5>1. i \in 1 .. Len(list') /\ list'[i] = d
          BY <4>1, <4>3, <2>3, <1>t
        <5> QED
          BY <5>1
      <4>4. CASE i > k
        <5>1. i - 1 \in 1 .. Len(list') /\ list'[i - 1] = d
          BY <4>1, <4>4, <2>3, <1>t
        <5> QED
          BY <5>1
      <4> QED
        BY <4>2, <4>3, <4>4
    <3>2. ASSUME NEW i \in 1 .. Len(list'), list'[i] = d PROVE d \in Connected'
      <4> DEFINE j == IF i < k THEN i ELSE i + 1
      <4>1. j \in 1 .. Len(list) /\ list[j] = d /\ j # k
        BY <3>2, <2>3, <1>t
      <4>2. d \in Connected /\ d # c
        BY <4>1, <2>1 DEF ListInv
      <4> QED
        BY <4>2, <2>2
    <3> QED
      BY <3>1, <3>2
  <2> QED
    BY <2>4, <2>5 DEF ListInv
<1>3. CASE UNCHANGED <<list, sec>>
  BY <1>3 DEF ListInv, Connected
<1>4. (\E ch \in Chans : Pump(ch) \/ WakeSpuriously(ch)) => UNCHANGED <<list, sec>>
  BY DEF Pump, Goto, Check, Park, WakeSpuriously, Enable, ReadSome, ReadNone, Send, SendEnd, Over,
         Disable, UnloadChip, UnloadEnd
<1>5. ASSUME NEW c \in Clients, NEW x \in Chips, Load(c, x) \/ Unload(c, x) PROVE UNCHANGED <<list, sec>>
  BY <1>5 DEF Load, Unload
<1>6. ASSUME NEW c \in Clients, Register(c) PROVE UNCHANGED <<list, sec>>
  BY <1>6 DEF Register
<1> QED
  BY <1>1, <1>2, <1>3, <1>4, <1>5, <1>6 DEF Next, Uloop, vars

\* The node behind place k of the list is the one at place k + 1.
LEMMA NextOfAt ==
    ASSUME list \in Seq(Clients), ListInv, NEW k \in 1 .. Len(list)
    PROVE  NextOf(list[k]) = IF k < Len(list) THEN list[k + 1] ELSE NoClient
<1> DEFINE K == {i \in 1 .. Len(list) - 1 : list[i] = list[k]}
<1>1. \A i \in K : i = k
  BY DEF ListInv
<1>2. CASE k < Len(list)
  <2>1. k \in K
    BY <1>2
  <2>2. K # {} /\ (CHOOSE i \in K : TRUE) = k
    BY <1>1, <2>1
  <2> HIDE DEF K
  <2>3. NextOf(list[k]) = list[(CHOOSE i \in K : TRUE) + 1]
    BY <2>2 DEF NextOf, K
  <2> QED
    BY <2>2, <2>3, <1>2
<1>3. CASE ~(k < Len(list))
  <2>1. K = {}
    BY <1>1, <1>3
  <2> QED
    BY <2>1, <1>3 DEF NextOf
<1> QED
  BY <1>2, <1>3

\* A walk goes on undisturbed while the list stays as it is.
LEMMA WalkFrame ==
    ASSUME UNCHANGED <<list, sec>>, NEW r, Walking(r)
    PROVE  Walking(r)'
BY DEF Walking, WalkAt, Connected

\* A walk begins at the head of the list, with everybody due and nobody served.
LEMMA WalkStarts ==
    ASSUME TypeOK, ListInv, UNCHANGED <<list, sec>>, NEW ch \in Chans, ReadSome(ch)
    PROVE  Walking(rd'[ch])
<1>t. list \in Seq(Clients) /\ rd \in [Chans -> ReaderType] /\ NoClient \notin Clients
  BY PumpAssumption DEF TypeOK, ReaderType
<1> DEFINE h == IF list = << >> THEN NoClient ELSE Head(list)
<1>1. /\ rd'[ch].due = Connected /\ rd'[ch].sent = {}
      /\ rd'[ch].cur = h
      /\ rd'[ch].nxt = IF h = NoClient THEN NoClient ELSE NextOf(h)
  BY <1>t DEF ReadSome, At, Reader
<1>2. CASE list = << >>
  <2>1. Connected = {}
    BY <1>2, <1>t DEF ListInv, Connected
  <2> QED
    BY <1>1, <1>2, <2>1 DEF Walking
<1>3. CASE list # << >>
  <2>1. 1 \in 1 .. Len(list) /\ h = list[1] /\ h \in Clients
    BY <1>3, <1>t
  <2>2. NextOf(list[1]) = IF 1 < Len(list) THEN list[1 + 1] ELSE NoClient
    BY <2>1, <1>t, NextOfAt
  <2>3. WalkAt(rd'[ch], 1)
    BY <1>1, <2>1, <2>2, <1>t DEF WalkAt
  <2> QED
    BY <1>1, <2>1, <2>3, <1>t DEF Walking
<1> QED
  BY <1>2, <1>3

\* A send takes the walk to the next node, or to its end with everybody served.
LEMMA WalkGoesOn ==
    ASSUME TypeOK, ListInv, NEW ch \in Chans, Send(ch), Walking(rd[ch])
    PROVE  Walking(rd'[ch])
<1>t. /\ list \in Seq(Clients) /\ rd \in [Chans -> ReaderType] /\ NoClient \notin Clients
      /\ Len(list) \in Nat
  BY PumpAssumption DEF TypeOK, ReaderType
<1> DEFINE r == rd[ch]
<1>r. r \in ReaderType /\ r.cur \in Clients /\ r.due \subseteq Connected
  BY <1>t DEF Send, ReaderType, Walking
<1>1. PICK k \in 1 .. Len(list) : WalkAt(r, k)
  BY <1>r, <1>t DEF Walking
<1>2. /\ list[k] = r.cur
      /\ r.nxt = IF k < Len(list) THEN list[k + 1] ELSE NoClient
      /\ \A i \in 1 .. Len(list) :
            /\ list[i] \in r.sent => i < k
            /\ i < k /\ list[i] \in r.due => list[i] \in r.sent
  BY <1>1 DEF WalkAt
<1>3. /\ rd'[ch].due = r.due /\ rd'[ch].sent = r.sent \cup {r.cur}
      /\ rd'[ch].cur = r.nxt
      /\ rd'[ch].nxt = IF r.nxt = NoClient THEN NoClient ELSE NextOf(r.nxt)
  BY <1>t, <1>r DEF Send, Sent, At, ReaderType
<1> HIDE DEF r
<1>4. CASE k < Len(list)
  <2>1. k + 1 \in 1 .. Len(list) /\ r.nxt = list[k + 1] /\ list[k + 1] \in Clients
    BY <1>2, <1>4, <1>t
  <2>2. NextOf(list[k + 1]) = IF k + 1 < Len(list) THEN list[(k + 1) + 1] ELSE NoClient
    BY <2>1, <1>t, NextOfAt
  <2>3. ASSUME NEW i \in 1 .. Len(list)
        PROVE  /\ list[i] \in rd'[ch].sent => i < k + 1
               /\ i < k + 1 /\ list[i] \in rd'[ch].due => list[i] \in rd'[ch].sent
    <3>1. list[i] = r.cur => i = k
      BY <1>2 DEF ListInv
    <3>2. i < k + 1 => i < k \/ i = k
      OBVIOUS
    <3> QED
      BY <1>2, <1>3, <3>1, <3>2
  <2>4. WalkAt(rd'[ch], k + 1)
    BY <1>3, <2>1, <2>2, <2>3, <1>t DEF WalkAt
  <2> QED
    BY <1>3, <1>r, <2>1, <2>4, <1>t DEF Walking
<1>5. CASE ~(k < Len(list))
  <2>1. r.nxt = NoClient /\ k = Len(list)
    BY <1>2, <1>5
  <2>2. r.due \subseteq r.sent \cup {r.cur}
    <3> SUFFICES ASSUME NEW c \in r.due PROVE c \in r.sent \cup {r.cur}
      OBVIOUS
    <3>1. c \in Clients /\ c \in Connected
      BY <1>r DEF ReaderType
    <3>2. PICK i \in 1 .. Len(list) : list[i] = c
      BY <3>1 DEF ListInv
    <3>3. i < k \/ i = k
      BY <2>1
    <3> QED
      BY <3>2, <3>3, <1>2
  <2> QED
    BY <1>3, <1>r, <2>1, <2>2 DEF Walking
<1> QED
  BY <1>4, <1>5

\* A new client stands before every walk.
LEMMA WalkAccept ==
    ASSUME TypeOK, ListInv, NEW c \in Clients, Accept(c), NEW r \in ReaderType, Walking(r)
    PROVE  Walking(r)'
<1>t. /\ list \in Seq(Clients) /\ Len(list) \in Nat /\ sec \in [Clients -> 0 .. Slots \cup {Gone}]
      /\ Slots \in Nat /\ NoClient \notin Clients
  BY PumpAssumption DEF TypeOK
<1>1. PICK id \in 0 .. Slots : sec' = [sec EXCEPT ![c] = id]
  BY DEF Accept
<1>2. c \notin Connected /\ Connected \subseteq Connected' /\ list' = <<c>> \o list
  BY <1>1, <1>t DEF Accept, Connected, Gone
<1>3. /\ Len(list') = Len(list) + 1
      /\ list'[1] = c
      /\ \A i \in 1 .. Len(list) : list'[i + 1] = list[i]
      /\ \A i \in 2 .. Len(list') : list'[i] = list[i - 1]
  BY <1>2, <1>t, PrependFacts
<1>4. r.due \subseteq Connected /\ r.due \subseteq Connected'
  BY <1>2 DEF Walking
<1>5. CASE r.cur = NoClient
  BY <1>4, <1>5 DEF Walking
<1>6. CASE r.cur # NoClient
  <2>1. PICK k \in 1 .. Len(list) : WalkAt(r, k)
    BY <1>6 DEF Walking
  <2>2. /\ list[k] = r.cur
        /\ r.nxt = IF k < Len(list) THEN list[k + 1] ELSE NoClient
        /\ \A i \in 1 .. Len(list) :
              /\ list[i] \in r.sent => i < k
              /\ i < k /\ list[i] \in r.due => list[i] \in r.sent
    BY <2>1 DEF WalkAt
  <2>3. k + 1 \in 1 .. Len(list') /\ list'[k + 1] = r.cur
    BY <1>3, <1>t, <2>2
  <2>4. r.nxt = IF k + 1 < Len(list') THEN list'[(k + 1) + 1] ELSE NoClient
    <3>1. CASE k < Len(list)
      <4>1. k + 1 \in 1 .. Len(list) /\ k + 1 < Len(list')
        BY <3>1, <1>3, <1>t
      <4>2. list'[(k + 1) + 1] = list[k + 1]
        BY <4>1, <1>3
      <4> QED
        BY <4>1, <4>2, <3>1, <2>2
    <3>2. CASE ~(k < Len(list))
      BY <3>2, <2>2, <1>3, <1>t
    <3> QED
      BY <3>1, <3>2
  <2>5. ASSUME NEW i \in 1 .. Len(list')
        PROVE  /\ list'[i] \in r.sent => i < k + 1
               /\ i < k + 1 /\ list'[i] \in r.due => list'[i] \in r.sent
    <3>1. CASE i = 1
      <4>1. list'[i] = c /\ c \notin r.due /\ i < k + 1
        BY <3>1, <1>2, <1>3, <1>4
      <4> QED
        BY <4>1
    <3>2. CASE i # 1
      <4>1. i - 1 \in 1 .. Len(list) /\ list'[i] = list[i - 1]
        BY <3>2, <1>3, <1>t
      <4>2. /\ list[i - 1] \in r.sent => i - 1 < k
            /\ i - 1 < k /\ list[i - 1] \in r.due => list[i - 1] \in r.sent
        BY <4>1, <2>2
      <4>3. i - 1 < k <=> i < k + 1
        BY <4>1
      <4> QED
        BY <4>1, <4>2, <4>3
    <3> QED
      BY <3>1, <3>2
  <2>6. WalkAt(r, k + 1)'
    BY <2>3, <2>4, <2>5 DEF WalkAt
  <2> QED
    BY <1>4, <1>6, <2>3, <2>6 DEF Walking
<1> QED
  BY <1>5, <1>6

\* A client that is neither in use nor next may go: the walk keeps its place.
LEMMA WalkFree ==
    ASSUME TypeOK, ListInv, NEW c \in Clients, Free(c), NEW r \in ReaderType, Walking(r),
           c # r.cur, c # r.nxt
    PROVE  Walking([r EXCEPT !.due = @ \ {c}])'
<1>t. /\ list \in Seq(Clients) /\ Len(list) \in Nat /\ sec \in [Clients -> 0 .. Slots \cup {Gone}]
      /\ NoClient \notin Clients
  BY PumpAssumption DEF TypeOK
<1> DEFINE q == [r EXCEPT !.due = @ \ {c}]
<1>1. PICK m \in 1 .. Len(list) : list[m] = c /\ list' = RemoveAt(list, m)
  BY DEF Free
<1>2. Connected' = Connected \ {c}
  BY <1>t DEF Free, Connected, Gone
<1>3. /\ Len(list') = Len(list) - 1
      /\ \A i \in 1 .. Len(list') : list'[i] = IF i < m THEN list[i] ELSE list[i + 1]
      /\ \A i \in 1 .. m - 1 : list'[i] = list[i]
      /\ \A i \in m + 1 .. Len(list) : list'[i - 1] = list[i]
  BY <1>1, <1>t, RemoveFacts
<1>4. q.due = r.due \ {c} /\ q.sent = r.sent /\ q.cur = r.cur /\ q.nxt = r.nxt
  BY DEF ReaderType
<1>5. q.due \subseteq Connected'
  BY <1>2, <1>4 DEF Walking
<1> HIDE DEF q
<1>6. CASE r.cur = NoClient
  <2>1. r.due \subseteq r.sent
    BY <1>6 DEF Walking
  <2> QED
    BY <1>4, <1>5, <1>6, <2>1 DEF Walking, q
<1>7. CASE r.cur # NoClient
  <2>1. PICK k \in 1 .. Len(list) : WalkAt(r, k)
    BY <1>7 DEF Walking
  <2>2. /\ list[k] = r.cur
        /\ r.nxt = IF k < Len(list) THEN list[k + 1] ELSE NoClient
        /\ \A i \in 1 .. Len(list) :
              /\ list[i] \in r.sent => i < k
              /\ i < k /\ list[i] \in r.due => list[i] \in r.sent
    BY <2>1 DEF WalkAt
  <2>3. m # k /\ (k < Len(list) => m # k + 1)
    BY <1>1, <2>2
  <2> DEFINE n == IF k < m THEN k ELSE k - 1
  <2>4. n \in 1 .. Len(list') /\ list'[n] = r.cur
    <3>1. CASE k < m
      BY <3>1, <1>3, <2>2, <1>t
    <3>2. CASE m < k
      <4>1. k \in m + 1 .. Len(list) /\ n = k - 1 /\ n \in 1 .. Len(list')
        BY <3>2, <1>3, <1>t
      <4> QED
        BY <4>1, <1>3, <2>2
    <3> QED
      BY <3>1, <3>2, <2>3
  <2>5. r.nxt = IF n < Len(list') THEN list'[n + 1] ELSE NoClient
    <3>1. CASE k < m
      <4>1. k + 1 \in 1 .. m - 1 /\ k < Len(list) /\ n = k /\ n < Len(list')
        BY <3>1, <2>3, <1>3, <1>t
      <4>2. list'[n + 1] = list[k + 1]
        BY <4>1, <1>3
      <4> QED
        BY <4>1, <4>2, <2>2
    <3>2. CASE m < k /\ k < Len(list)
      <4>1. k + 1 \in m + 1 .. Len(list) /\ n = k - 1 /\ n < Len(list') /\ n + 1 = (k + 1) - 1
        BY <3>2, <1>3, <1>t
      <4>2. list'[(k + 1) - 1] = list[k + 1]
        BY <4>1, <1>3
      <4> QED
        BY <4>1, <4>2, <3>2, <2>2
    <3>3. CASE m < k /\ ~(k < Len(list))
      <4>1. ~(n < Len(list'))
        BY <3>3, <1>3, <1>t
      <4> QED
        BY <4>1, <3>3, <2>2
    <3> QED
      BY <3>1, <3>2, <3>3, <2>3
  <2>6. ASSUME NEW i \in 1 .. Len(list')
        PROVE  /\ list'[i] \in q.sent => i < n
               /\ i < n /\ list'[i] \in q.due => list'[i] \in q.sent
    <3> DEFINE j == IF i < m THEN i ELSE i + 1
    <3>1. j \in 1 .. Len(list) /\ list'[i] = list[j]
      BY <1>3, <1>t
    <3>2. /\ list[j] \in r.sent => j < k
          /\ j < k /\ list[j] \in r.due => list[j] \in r.sent
      BY <3>1, <2>2
    <3>3. j < k <=> i < n
      BY <2>3
    <3> QED
      BY <3>1, <3>2, <3>3, <1>4
  <2>7. WalkAt(q, n)'
    BY <1>4, <2>4, <2>5, <2>6 DEF WalkAt
  <2>8. (\E k2 \in 1 .. Len(list) : WalkAt(q, k2))'
    BY <2>4, <2>7
  <2> QED
    BY <1>4, <1>5, <1>7, <2>8 DEF Walking, q
<1> QED
  BY <1>6, <1>7

\* A reader that is not about to send does not walk; one that is has the
\* record it had or the one ReadSome, Send or a client's leaving gives it.
LEMMA WalkNext == TypeOK /\ ListInv /\ WalkInv /\ [Next]_vars => WalkInv'
<1> SUFFICES ASSUME TypeOK, ListInv, WalkInv, [Next]_vars, "dangling" \notin races',
                    NEW d \in Chans, rd'[d].pc = "send"
             PROVE  Walking(rd[d])'
  BY DEF WalkInv
<1>t. rd \in [Chans -> ReaderType] /\ rd[d] \in ReaderType
  BY DEF TypeOK, ReaderType
<1>n. "dangling" \notin races
  BY DEF Next, vars
<1>1. PICK r : r = rd[d]
  OBVIOUS
<1>2. PICK s : s = rd'[d]
  OBVIOUS
<1>3. r \in ReaderType /\ s.pc = "send"
  BY <1>1, <1>2, <1>t
<1>4. r.pc = "send" => Walking(r)
  <2>1. rd[d].pc = "send" => Walking(rd[d])
    BY <1>n DEF WalkInv
  <2> QED
    BY <2>1, <1>1
<1> SUFFICES Walking(s)'
  BY <1>2 DEF Walking, WalkAt
<1>5. CASE UNCHANGED <<list, sec>> /\ s = r
  BY <1>3, <1>4, <1>5, WalkFrame
<1>6. ASSUME NEW c \in Clients, Accept(c) PROVE Walking(s)'
  <2>1. s = r
    BY <1>6, <1>1, <1>2 DEF Accept
  <2> QED
    BY <2>1, <1>3, <1>4, <1>6, WalkAccept
<1>7. ASSUME NEW c \in Clients, Register(c) PROVE Walking(s)'
  <2>1. s = r /\ UNCHANGED <<list, sec>>
    BY <1>7, <1>1, <1>2, <1>3, <1>t DEF Register, Signalled, ReaderType
  <2> QED
    BY <2>1, <1>5
<1>8. ASSUME NEW c \in Clients, NEW x \in Chips, Load(c, x) \/ Unload(c, x) PROVE Walking(s)'
  <2>1. s = r /\ UNCHANGED <<list, sec>>
    BY <1>8, <1>1, <1>2 DEF Load, Unload
  <2> QED
    BY <2>1, <1>5
<1>9. ASSUME NEW c \in Clients, Free(c) PROVE Walking(s)'
  <2>1. s = [r EXCEPT !.due = @ \ {c}]
    BY <1>9, <1>1, <1>2 DEF Free, Forget
  <2>2. r.pc = "send"
    BY <2>1, <1>3 DEF ReaderType
  <2>3. c # r.cur /\ c # r.nxt
    BY <2>2, <1>9, <1>1 DEF Free, Forget
  <2>4. Walking([r EXCEPT !.due = @ \ {c}])'
    BY <1>3, <1>4, <2>2, <2>3, <1>9, WalkFree
  <2> QED
    BY <2>1, <2>4
<1>10. ASSUME NEW ch \in Chans, ch # d, Pump(ch) \/ WakeSpuriously(ch) PROVE Walking(s)'
  <2>1. s = r /\ UNCHANGED <<list, sec>>
    BY <1>10, <1>1, <1>2, <1>t DEF Pump, WakeSpuriously, Goto, Check, Park, Enable, ReadSome, ReadNone,
          Send, SendEnd, Over, Disable, UnloadChip, UnloadEnd
  <2> QED
    BY <2>1, <1>5
<1>11. CASE ReadSome(d)
  <2>1. UNCHANGED <<list, sec>>
    BY <1>11 DEF ReadSome
  <2>2. Walking(rd'[d])
    BY <1>11, <2>1, WalkStarts
  <2>3. Walking(s)
    BY <2>2, <1>2
  <2> QED
    BY <2>1, <2>3, WalkFrame
<1>12. CASE Send(d)
  <2>1. UNCHANGED <<list, sec>> /\ rd[d].pc = "send"
    BY <1>12 DEF Send
  <2>2. Walking(rd'[d])
    BY <1>12, <2>1, <1>n, WalkGoesOn DEF WalkInv
  <2>3. Walking(s)
    BY <2>2, <1>2
  <2> QED
    BY <2>1, <2>3, WalkFrame
<1>13. CASE \/ Check(d) \/ Park(d) \/ Enable(d) \/ ReadNone(d) \/ SendEnd(d) \/ Over(d) \/ Disable(d)
            \/ UnloadChip(d) \/ UnloadEnd(d) \/ WakeSpuriously(d)
  <2>1. s.pc # "send"
    BY <1>13, <1>2, <1>t DEF WakeSpuriously, Goto, Check, Park, Enable, ReadNone, SendEnd, Over, Disable,
          UnloadChip, UnloadEnd, Reader, ReaderType
  <2> QED
    BY <2>1, <1>3
<1>14. CASE UNCHANGED vars
  BY <1>14, <1>1, <1>2, <1>5 DEF vars
<1> QED
  BY <1>6, <1>7, <1>8, <1>9, <1>10, <1>11, <1>12, <1>13, <1>14 DEF Next, Uloop, Pump

\* The list is exact and every walk in order in every reachable state.
THEOREM WalksStayInOrder == Spec => [](ListInv /\ WalkInv)
<1>1. Init => ListInv /\ WalkInv
  BY DEF Init, ListInv, WalkInv, Connected, Gone, Reader
<1>2. TypeOK /\ ListInv /\ WalkInv /\ [Next]_vars => (ListInv /\ WalkInv)'
  BY ListNext, WalkNext
<1> QED
  BY <1>1, <1>2, PumpTypeCorrect, PTL DEF Spec

\* A batch goes to every connection that stays, and to none twice, for any
\* number of clients that come and go while any number of readers walk.
THEOREM EveryoneServedOnce == Spec => []ServedOnce
<1>1. TypeOK /\ ListInv /\ WalkInv => ServedOnce
  <2> SUFFICES ASSUME TypeOK, ListInv, WalkInv, "dangling" \notin races,
                      NEW ch \in Chans, rd[ch].pc = "send"
               PROVE  /\ rd[ch].cur \notin rd[ch].sent
                      /\ rd[ch].cur = NoClient => rd[ch].due \subseteq rd[ch].sent
    BY DEF ServedOnce
  <2>1. Walking(rd[ch])
    BY DEF WalkInv
  <2>2. rd[ch] \in ReaderType /\ NoClient \notin Clients
    BY PumpAssumption DEF TypeOK, ReaderType
  <2>3. CASE rd[ch].cur = NoClient
    BY <2>1, <2>2, <2>3 DEF Walking, ReaderType
  <2>4. CASE rd[ch].cur # NoClient
    <3>1. PICK k \in 1 .. Len(list) : WalkAt(rd[ch], k)
      BY <2>1, <2>4 DEF Walking
    <3>2. list[k] = rd[ch].cur /\ (list[k] \in rd[ch].sent => k < k)
      BY <3>1 DEF WalkAt
    <3> QED
      BY <3>2, <2>4
  <2> QED
    BY <2>3, <2>4
<1> QED
  BY <1>1, WalksStayInOrder, PumpTypeCorrect, PTL
-----------------------------------------------------------------------------
(* The components that MCData puts side by side: each runs as it does alone. *)

\* A step of the sum is for every part one of its own steps, or none.
LEMMA DataParts ==
    ASSUME [MCNext]_mcVars
    PROVE  [Subs!Next]_(Subs!vars) /\ [Block!Next]_(Block!vars) /\ [Pack!Next]_(Pack!vars)
<1>1. Subs!Next \/ UNCHANGED SubsVars
  BY DEF MCNext, mcVars
<1>2. Block!Next \/ UNCHANGED BlockVars
  BY DEF MCNext, mcVars
<1>3. Pack!Next \/ UNCHANGED PackVars
  BY DEF MCNext, mcVars
<1> QED BY <1>1, <1>2, <1>3 DEF SubsVars, BlockVars, PackVars, Subs!vars, Subs!net, Block!vars, Pack!vars

-----------------------------------------------------------------------------
(* FrameDispatch: what becomes of the frames of a block.                       *)

GroupT == [block : Nat, from : Nat, len : Nat]
FrameT == [block : Nat, at : Nat, stream : BStreams, prio : {0, 1}, len : Nat]

\* The locals of the analysis: a group without a frame has no length, and one
\* with frames has the stream of the first.
ScanInv ==
    /\ bBlock \in Seq(Block!Heads \cup {Block!Data}) /\ Len(bBlock) <= BMaxCells
    /\ bNth \in 0 .. BBlocks /\ bPc \in {"read", "match", "matched", "load"}
    /\ bOffset \in 0 .. Len(bBlock) /\ bSum \in 0 .. Len(bBlock) + BLenMax /\ bPos \in 0 .. BMaxFrames
    /\ bErr \in BOOLEAN /\ bOver \in BOOLEAN /\ bLost \in Nat
    /\ bPc = "read" => bPos = 0
    /\ bPc = "match" => bPos < BMaxFrames /\ ~bErr
    /\ bPos = 0 => bSum = 0 /\ bSub = Block!NoSub
    /\ bPos > 0 => bSub \in Block!Keys
    /\ bPc = "load" /\ bErr => bLost > 0
    /\ bPc = "load" /\ ~bOver => ~bErr /\ bSum < Len(bBlock) - bOffset

\* The frames found: those behind the groups dispatched are of the group at hand,
\* and within it once the analysis has ended well (a frame of length 0 never lets it).
FramesInv ==
    /\ bFrames \subseteq FrameT
    /\ \A f \in bFrames : f.block <= bNth
    /\ \A f \in bFrames : f.block = bNth =>
          f.at < Len(bBlock) /\ Block!IsHead(bBlock[f.at + 1]) /\ bBlock[f.at + 1].stream = f.stream
    /\ bPos > 0 => \E f \in bFrames : f.block = bNth /\ f.at = bOffset
    /\ bPc # "read" => \A f \in bFrames : f.block = bNth /\ f.at >= bOffset =>
           bPos > 0 /\ f.stream = bSub[1] /\ (bErr \/ f.at + f.len <= bOffset + bSum)
    /\ bPc \in {"matched", "load"} /\ ~bErr =>
           \A f \in bFrames : f.block = bNth /\ f.at >= bOffset => f.at < bOffset + bSum
    /\ bSum > Len(bBlock) - bOffset =>
           \E f \in bFrames : f.block = bNth /\ f.at >= bOffset /\ f.at + f.len = bOffset + bSum

\* The table of groups, spm_hash.c.
TableInv ==
    /\ bTable \in [Block!Keys -> Seq(GroupT)]
    /\ bHeld \subseteq Block!Keys /\ IsFiniteSet(bHeld) /\ Cardinality(bHeld) <= BMaxKeys
    /\ \A k \in Block!Keys : Len(bTable[k]) <= BMaxVec
    /\ \A k \in Block!Keys \ bHeld : bTable[k] = <<>>

\* One group: it begins with a frame, holds frames of its stream only, and ends
\* where the analysis goes on.
GroupOK(k, g) ==
    /\ g.block <= bNth
    /\ bPc # "read" /\ g.block = bNth => g.from + g.len <= bOffset
    /\ \E f \in bFrames : f.block = g.block /\ f.at = g.from
    /\ \A f \in bFrames : Block!Holds(g, f) => k[1] = f.stream
    /\ (g.block = bNth /\ g.from + g.len > Len(bBlock)) =>
          /\ g.from > 0
          /\ \E f \in bFrames : Block!Holds(g, f) /\ f.at < Len(bBlock) /\ f.at + f.len = g.from + g.len

GroupsInv == \A k \in Block!Keys : \A i \in 1 .. Len(bTable[k]) : GroupOK(k, bTable[k][i])

\* No two groups share a cell.
Apart(g, h) == g.block = h.block => g.from + g.len <= h.from \/ h.from + h.len <= g.from

ApartInv ==
    \A k, m \in Block!Keys : \A i \in 1 .. Len(bTable[k]) : \A j \in 1 .. Len(bTable[m]) :
        (k # m \/ i # j) => Apart(bTable[k][i], bTable[m][j])

\* A frame behind which the analysis has gone on is in a group.
InGroup(f) ==
    \E p \in {0, 1} : \E i \in 1 .. Len(bTable[<<f.stream, p>>]) : Block!Holds(bTable[<<f.stream, p>>][i], f)

FoundInv ==
    bLost = 0 => \A f \in bFrames :
         (f.block = bNth /\ f.len > 0 /\ (IF bPc = "read" THEN ~Block!Cut ELSE f.at < bOffset)) => InGroup(f)

DispInv == ScanInv /\ FramesInv /\ TableInv /\ GroupsInv /\ ApartInv /\ FoundInv

\* Cardinality means the same in the dispatcher's module and here.
LEMMA CountOfKeys == \A S : Block!Cardinality(S) = Cardinality(S)
  BY DEF Block!Cardinality, Cardinality

\* Nothing is found and nothing dispatched at the beginning.
LEMMA DispInit ==
    ASSUME Block!DispatchAssumption, Block!Init
    PROVE  DispInv
<1> USE DEF Block!Init
<1>1. ScanInv
  <2>1. bBlock \in Seq(Block!Heads \cup {Block!Data}) /\ Len(bBlock) = 0
    OBVIOUS
  <2>2. /\ 0 <= BMaxCells /\ 0 \in 0 .. BBlocks /\ 0 \in 0 .. Len(bBlock) /\ 0 \in 0 .. Len(bBlock) + BLenMax
        /\ 0 \in 0 .. BMaxFrames /\ 0 \in Nat /\ ~(0 > 0)
    BY <2>1 DEF Block!DispatchAssumption
  <2> QED BY <2>1, <2>2, Zenon DEF ScanInv
<1>2. FramesInv /\ FoundInv
  BY DEF FramesInv, FoundInv
<1>3. TableInv
  <2>1. IsFiniteSet(bHeld) /\ Cardinality(bHeld) = 0
    BY FS_EmptySet
  <2>2. bTable \in [Block!Keys -> Seq(GroupT)] /\ \A k \in Block!Keys : bTable[k] = <<>> /\ Len(bTable[k]) = 0
    OBVIOUS
  <2> QED BY <2>1, <2>2 DEF TableInv, Block!DispatchAssumption
<1>4. \A k \in Block!Keys : 1 .. Len(bTable[k]) = {}
  OBVIOUS
<1>5. GroupsInv /\ ApartInv
  BY <1>4 DEF GroupsInv, ApartInv
<1> QED BY <1>1, <1>2, <1>3, <1>5 DEF DispInv

\* The cell at hand, when it is a header.
LEMMA HeaderTyped ==
    ASSUME Block!DispatchAssumption, ScanInv, bSum < Block!Rest, Block!IsHead(Block!At)
    PROVE  /\ Block!At.stream \in BStreams \cup {"bad"} /\ Block!At.prio \in {0, 1} /\ Block!At.len \in Nat
           /\ bOffset + bSum < Len(bBlock)
<1>1. Len(bBlock) \in Nat /\ bOffset \in Nat /\ bSum \in Nat /\ BLenMax \in Nat
  BY DEF ScanInv, Block!DispatchAssumption
<1>2. bOffset + bSum + 1 \in 1 .. Len(bBlock)
  BY <1>1 DEF Block!Rest
<1>3. Block!At \in Block!Heads
  BY <1>2 DEF Block!At, Block!IsHead, ScanInv
<1>4. CASE Block!At \in [stream : BStreams, prio : {0, 1}, len : 0 .. BLenMax]
  BY <1>1, <1>2, <1>4
<1>5. CASE Block!At = [stream |-> "bad", prio |-> 0, len |-> 1]
  BY <1>1, <1>2, <1>5
<1>6. CASE \E s \in BStreams : Block!At = [stream |-> s, prio |-> 0, len |-> BLenMax + 1]
  BY <1>1, <1>2, <1>6
<1> QED BY <1>3, <1>4, <1>5, <1>6 DEF Block!Heads

\* What a step of the analysis leaves alone stays as it is: the groups.
LEMMA ScanKeepsGroups ==
    ASSUME DispInv, bPc # "read", bPc' # "read", bLost' \in Nat, bLost' >= bLost,
           UNCHANGED <<bBlock, bNth, bOffset, bTable, bHeld, bFrames>>
    PROVE  TableInv' /\ GroupsInv' /\ ApartInv' /\ FoundInv'
<1>0. /\ TableInv /\ GroupsInv /\ ApartInv /\ FoundInv /\ bLost \in Nat
      /\ bTable' = bTable /\ bHeld' = bHeld /\ bFrames' = bFrames /\ bNth' = bNth /\ bBlock' = bBlock /\ bOffset' = bOffset
  BY DEF DispInv, ScanInv
<1>1. TableInv'
  BY <1>0 DEF TableInv
<1>2. GroupsInv'
  BY <1>0, SMTT(30) DEF GroupsInv, GroupOK, Block!Holds
<1>3. ApartInv'
  BY <1>0, ZenonT(30) DEF ApartInv, Apart
<1>4. FoundInv'
  <2> SUFFICES ASSUME bLost' = 0, NEW f \in bFrames, f.block = bNth, f.len > 0, f.at < bOffset
               PROVE  InGroup(f)'
    BY <1>0 DEF FoundInv
  <2>1. bLost = 0
    BY <1>0
  <2>2. InGroup(f)
    BY <1>0, <2>1 DEF FoundInv
  <2> QED BY <1>0, <2>2 DEF InGroup, Block!Holds
<1> QED BY <1>1, <1>2, <1>3, <1>4

\* Every nonempty set of numbers has a least.
LEMMA LeastIndex ==
    ASSUME NEW T, T \subseteq Nat, T # {}
    PROVE  \E n \in T : \A m \in T : n <= m
  <1>1. \A m, n \in Nat : m < n => <<m, n>> \in OpToRel(<, Nat)
    BY DEF OpToRel
  <1>2. \E R : IsWellFoundedOn(R, Nat) /\ \A m, n \in Nat : m < n => <<m, n>> \in R
    BY <1>1, NatLessThanWellFounded
  <1>3. PICK R : IsWellFoundedOn(R, Nat) /\ \A m, n \in Nat : m < n => <<m, n>> \in R
    BY <1>2
  <1>4. IsWellFoundedOn(R, Nat)
    BY <1>3, Zenon
  <1>5. \E n \in T : \A m \in T : ~(<<m, n>> \in R)
    BY <1>4, WFMin, Zenon
  <1>6. PICK n \in T : \A m \in T : ~(<<m, n>> \in R)
    BY <1>5, Zenon
  <1>7. ASSUME NEW m \in T PROVE n <= m
    <2>1. n \in Nat /\ m \in Nat
      OBVIOUS
    <2>2. ~(m < n)
      BY <2>1, <1>3, <1>6, Zenon
    <2> QED
      BY <2>1, <2>2
  <1> QED
    BY <1>7, Zenon

\* The next header is one, behind the cell at hand.
LEMMA NextHeaderAhead ==
    ASSUME ScanInv, bSum < Block!Rest, ~Block!IsHead(Block!At), Block!NextHeader # 0
    PROVE  Block!NextHeader \in 2 .. Block!Rest - bSum
<1> DEFINE H == {i \in 1 .. Block!Rest - bSum : Block!IsHead(bBlock[bOffset + bSum + i])}
<1>1. Len(bBlock) \in Nat /\ bOffset \in Nat /\ bSum \in Nat /\ Block!Rest \in Int
  BY DEF ScanInv, Block!Rest
<1>2. Block!NextHeader = IF H = {} THEN 0 ELSE CHOOSE i \in H : \A j \in H : i <= j
  BY DEF Block!NextHeader
<1>3. H # {} /\ H \subseteq Nat
  BY <1>1, <1>2
<1>4. PICK i \in H : \A j \in H : i <= j
  <2> HIDE DEF H
  <2> QED BY <1>3, LeastIndex
<1>5. Block!NextHeader \in H
  <2> HIDE DEF H
  <2> QED BY <1>2, <1>3, <1>4
<1>6. Block!NextHeader # 1
  BY <1>5 DEF Block!At
<1> QED BY <1>1, <1>5, <1>6

\* While the analysis goes on, the frames found end where it has come to.
LEMMA UnderWay ==
    ASSUME ScanInv, FramesInv, bPc = "match"
    PROVE  \A f \in bFrames : /\ f.at \in Nat /\ f.len \in Nat
                              /\ f.block = bNth /\ f.at >= bOffset => f.at + f.len <= bOffset + bSum /\ f.at <= bOffset + bSum
<1>1. \A f \in bFrames : f.at \in Nat /\ f.len \in Nat
  BY DEF FramesInv, FrameT
<1>2. bOffset \in Nat /\ bSum \in Nat /\ ~bErr
  BY DEF ScanInv
<1>3. \A f \in bFrames : f.block = bNth /\ f.at >= bOffset => f.at + f.len <= bOffset + bSum
  BY <1>2 DEF FramesInv
<1> QED BY <1>1, <1>2, <1>3

\* Skipping what is no header.
LEMMA SkipHolds ==
    ASSUME Block!DispatchAssumption, DispInv, Block!Skip
    PROVE  DispInv'
<1>1. /\ bPc = "match" /\ bSum < Block!Rest /\ ~Block!IsHead(Block!At)
      /\ UNCHANGED <<bBlock, bNth, bOffset, bPos, bSub, bErr, bOver, bTable, bHeld, bLost, bFrames>>
  BY DEF Block!Skip
<1>2. ScanInv /\ FramesInv /\ Len(bBlock) \in Nat /\ bOffset \in Nat /\ bSum \in Nat /\ bLost \in Nat
  BY DEF DispInv, ScanInv
<1>3. CASE bPc' = "matched" /\ bSum' = bSum
  <2>1. ScanInv'
    BY <1>1, <1>2, <1>3 DEF ScanInv
  <2>2. FramesInv'
    <3>1. \A f \in bFrames : f.block = bNth /\ f.at >= bOffset => f.at # bOffset + bSum
      BY <1>1, <1>2 DEF FramesInv, Block!At
    <3>2. \A f \in bFrames : f.block = bNth /\ f.at >= bOffset => f.at < bOffset + bSum
      BY <1>1, <1>2, <3>1, UnderWay
    <3> QED BY <1>1, <1>2, <1>3, <3>2 DEF FramesInv
  <2> QED BY <1>1, <1>2, <1>3, <2>1, <2>2, ScanKeepsGroups DEF DispInv
<1>4. CASE bSum # 0 /\ Block!NextHeader # 0 /\ bSum' = bSum + Block!NextHeader - 1 /\ bPc' = bPc
  <2>1. Block!NextHeader \in 2 .. Block!Rest - bSum
    BY <1>1, <1>2, <1>4, NextHeaderAhead
  <2>2. bSum' \in Nat /\ bSum' > bSum /\ bSum' < Len(bBlock) - bOffset
    BY <1>2, <1>4, <2>1 DEF Block!Rest
  <2>3. ScanInv'
    BY <1>1, <1>2, <1>4, <2>2 DEF ScanInv, Block!DispatchAssumption
  <2>4. FramesInv'
    <3>1. \A f \in bFrames : f \in FrameT /\ f.at \in Nat /\ f.len \in Nat
      BY <1>2 DEF FramesInv, FrameT
    <3>2. \A f \in bFrames : f.at + f.len <= bOffset + bSum => f.at + f.len <= bOffset + bSum'
      BY <1>2, <2>2, <3>1
    <3>3. ~(bSum' > Len(bBlock) - bOffset)
      BY <1>2, <2>2
    <3> QED BY <1>1, <1>2, <1>4, <3>2, <3>3 DEF FramesInv
  <2> QED BY <1>1, <1>2, <1>4, <2>3, <2>4, ScanKeepsGroups DEF DispInv
<1> QED BY <1>3, <1>4 DEF Block!Skip

\* An error gives up the rest of the block: the group has at most the frames
\* found, and the error is remembered.
LEMMA BadHolds ==
    ASSUME Block!DispatchAssumption, DispInv, Block!Bad
    PROVE  DispInv'
<1>1. /\ bPc = "match" /\ bSum < Block!Rest /\ Block!IsHead(Block!At) /\ bErr' = TRUE /\ bPc' = "matched"
      /\ UNCHANGED <<bBlock, bNth, bOffset, bSub, bOver, bTable, bHeld, bLost, bFrames>>
      /\ bSum' \in {0, bSum}
  BY DEF Block!Bad, Block!Fail
<1>2. ScanInv /\ FramesInv /\ Len(bBlock) \in Nat /\ bOffset \in Nat /\ bSum \in Nat /\ bLost \in Nat /\ bPos \in Nat
      /\ BMaxFrames \in Nat /\ bPos < BMaxFrames /\ bOffset <= Len(bBlock)
  BY <1>1 DEF DispInv, ScanInv, Block!DispatchAssumption
<1>3. /\ bPos' \in {bPos, bPos + 1} /\ bPos' >= bPos /\ bPos' <= BMaxFrames /\ (bPos = 0 => bPos' = 0)
  <2>1. bPos' = bPos \/ (bPos' = bPos + 1 /\ ~Block!NewStream)
    BY DEF Block!Bad
  <2>2. ~Block!NewStream => bPos # 0
    BY DEF Block!NewStream
  <2> QED BY <1>2, <2>1, <2>2
<1>4. ScanInv'
  <2>1. /\ bSum' \in 0 .. Len(bBlock) + BLenMax /\ bPos' \in 0 .. BMaxFrames
        /\ (bPos' = 0 => bSum' = 0 /\ bSub' = Block!NoSub) /\ (bPos' > 0 => bSub' \in Block!Keys)
    <3>1. /\ bSum \in 0 .. Len(bBlock) + BLenMax /\ (bPos = 0 => bSum = 0 /\ bSub = Block!NoSub)
          /\ (bPos > 0 => bSub \in Block!Keys) /\ BLenMax \in Nat
      BY <1>2 DEF ScanInv, Block!DispatchAssumption
    <3>2. (bPos' = 0 => bPos = 0) /\ (bPos' > 0 => bPos > 0) /\ bSub' = bSub /\ bPos' \in 0 .. BMaxFrames
      BY <1>1, <1>2, <1>3
    <3> QED BY <1>1, <1>2, <3>1, <3>2
  <2> QED BY <1>1, <1>2, <2>1, Zenon DEF ScanInv
<1>5. FramesInv'
  <2>1. bSum' > Len(bBlock) - bOffset => bSum' = bSum
    BY <1>1, <1>2
  <2>2. bPos' > 0 => bPos > 0
    BY <1>2, <1>3
  <2>3. bPos > 0 => bPos' > 0
    BY <1>2, <1>3
  <2> QED BY <1>1, <1>2, <2>1, <2>2, <2>3 DEF FramesInv
<1> QED BY <1>1, <1>2, <1>4, <1>5, ScanKeepsGroups DEF DispInv

\* The end of a group.
LEMMA EndHolds ==
    ASSUME Block!DispatchAssumption, DispInv, Block!OtherStream \/ Block!End
    PROVE  DispInv'
<1>1. /\ bPc = "match" /\ bPc' = "matched"
      /\ UNCHANGED <<bBlock, bNth, bOffset, bSum, bPos, bSub, bErr, bOver, bTable, bHeld, bLost, bFrames>>
  BY DEF Block!OtherStream, Block!End
<1>2. ScanInv /\ FramesInv /\ bLost \in Nat
  BY DEF DispInv, ScanInv
<1>3. ScanInv'
  BY <1>1, <1>2 DEF ScanInv
<1>4. FramesInv'
  <2>1. ASSUME NEW f \in bFrames, f.block = bNth, f.at >= bOffset
        PROVE  f.at < bOffset + bSum
    <3>0. /\ Len(bBlock) \in Nat /\ bOffset \in Nat /\ bSum \in Nat /\ f.at \in Nat /\ f.at <= bOffset + bSum
      BY <1>1, <1>2, <2>1, UnderWay DEF ScanInv
    <3>1. f.at < Len(bBlock) /\ bBlock[f.at + 1].stream = f.stream /\ bPos > 0 /\ f.stream = bSub[1]
      BY <1>1, <1>2, <2>1 DEF FramesInv
    <3>2. CASE Block!End
      BY <3>0, <3>1, <3>2 DEF Block!End, Block!Rest
    <3>3. CASE Block!OtherStream
      <4>1. Block!At.stream # bSub[1]
        BY <1>2, <3>1, <3>3 DEF Block!OtherStream, Block!NewStream
      <4>2. f.at # bOffset + bSum
        BY <3>1, <4>1 DEF Block!At
      <4> QED BY <3>0, <4>2
    <3> QED BY <3>2, <3>3
  <2> QED BY <1>1, <1>2, <2>1 DEF FramesInv
<1> QED BY <1>1, <1>2, <1>3, <1>4, ScanKeepsGroups DEF DispInv

\* After the loop of the analysis.
LEMMA MatchedHolds ==
    ASSUME Block!DispatchAssumption, DispInv, Block!Matched
    PROVE  DispInv'
<1>1. /\ bPc = "matched" /\ bPc' = "load" /\ bLost' = IF bErr THEN bLost + 1 ELSE bLost
      /\ bOver' = (bErr \/ bSum >= Block!Rest)
      /\ UNCHANGED <<bBlock, bNth, bOffset, bSum, bPos, bSub, bErr, bTable, bHeld, bFrames>>
  BY DEF Block!Matched
<1>2. ScanInv /\ FramesInv /\ bLost \in Nat /\ Len(bBlock) \in Nat /\ bOffset \in Nat /\ bSum \in Nat /\ bErr \in BOOLEAN
  BY DEF DispInv, ScanInv
<1>3. bLost' \in Nat /\ bLost' >= bLost /\ (bErr' => bLost' > 0)
  BY <1>1, <1>2
<1>4. bOver' \in BOOLEAN /\ (~bOver' => ~bErr /\ bSum < Len(bBlock) - bOffset)
  <2>1. CASE bSum >= Block!Rest
    <3>1. bOver'
      BY <1>1, <2>1, Zenon
    <3> QED BY <1>1, <3>1
  <2>2. CASE ~(bSum >= Block!Rest)
    <3>1. bOver' = bErr
      BY <1>1, <2>2, <1>2, Zenon
    <3>2. bSum < Len(bBlock) - bOffset
      BY <1>2, <2>2 DEF Block!Rest
    <3> QED BY <1>2, <3>1, <3>2
  <2> QED BY <2>1, <2>2
<1>5. ScanInv'
  BY <1>1, <1>2, <1>3, <1>4 DEF ScanInv
<1>6. FramesInv'
  BY <1>1, <1>2 DEF FramesInv
<1> QED BY <1>1, <1>2, <1>3, <1>5, <1>6, ScanKeepsGroups DEF DispInv

\* A frame of the stream, or the first of a group.
LEMMA TakeHolds ==
    ASSUME Block!DispatchAssumption, DispInv, Block!Take
    PROVE  DispInv'
<1>1. /\ bPc = "match" /\ bSum < Block!Rest /\ Block!IsHead(Block!At)
      /\ ~Block!BadLength /\ ~Block!BadChip /\ (bPos = 0 \/ ~Block!NewStream) /\ ~Block!TooMany
      /\ bSub' = IF bPos = 0 THEN <<Block!At.stream, Block!At.prio>> ELSE bSub
      /\ bPos' = bPos + 1 /\ bSum' = bSum + Block!At.len /\ bFrames' = bFrames \cup {Block!Found}
      /\ UNCHANGED <<bBlock, bNth, bPc, bOffset, bErr, bOver, bTable, bHeld, bLost>>
  BY DEF Block!Take
<1>2. /\ ScanInv /\ FramesInv /\ Len(bBlock) \in Nat /\ bOffset \in Nat /\ bSum \in Nat /\ bLost \in Nat
      /\ bPos \in Nat /\ BMaxFrames \in Nat /\ BLenMax \in Nat /\ bNth \in Nat /\ ~bErr
  BY <1>1 DEF DispInv, ScanInv, Block!DispatchAssumption
<1>3. PICK l \in Nat : l = Block!At.len
  BY <1>1, <1>2, HeaderTyped
<1>4. PICK s : s = Block!At.stream
  OBVIOUS
<1>5. /\ s \in BStreams /\ Block!At.prio \in {0, 1} /\ bOffset + bSum < Len(bBlock) /\ l <= BLenMax
  <2>1. s \in BStreams \cup {"bad"} /\ Block!At.prio \in {0, 1} /\ bOffset + bSum < Len(bBlock)
    BY <1>1, <1>2, <1>4, HeaderTyped
  <2>2. CASE bPos = 0
    BY <1>1, <1>2, <1>3, <1>4, <2>1, <2>2 DEF Block!BadChip, Block!NewStream, Block!BadLength
  <2>3. CASE bPos # 0
    <3>1. s = bSub[1] /\ bSub \in Block!Keys
      BY <1>1, <1>2, <1>4, <2>3 DEF Block!NewStream, ScanInv
    <3>2. s \in BStreams
      BY <3>1 DEF Block!Keys
    <3> QED BY <1>2, <1>1, <1>3, <2>1, <3>2 DEF Block!BadLength
  <2> QED BY <2>2, <2>3
<1>6. bSub' \in Block!Keys /\ bSub'[1] = s /\ (bPos > 0 => bSub' = bSub)
  <2>1. CASE bPos = 0
    BY <1>1, <1>2, <1>4, <1>5, <2>1 DEF Block!Keys
  <2>2. CASE bPos # 0
    BY <1>1, <1>2, <1>4, <2>2 DEF Block!NewStream, ScanInv
  <2> QED BY <2>1, <2>2
<1>7. PICK w : w = Block!Found
  OBVIOUS
<1>8. /\ w \in FrameT /\ w.block = bNth /\ w.at = bOffset + bSum /\ w.stream = s /\ w.len = l
      /\ bFrames' = bFrames \cup {w}
  BY <1>1, <1>2, <1>3, <1>4, <1>5, <1>7 DEF Block!Found, FrameT
<1>9. ScanInv'
  <2>1. bPos' \in 0 .. BMaxFrames /\ bPos' < BMaxFrames /\ bPos' > 0
    BY <1>1, <1>2 DEF Block!TooMany
  <2>2. bSum' \in 0 .. Len(bBlock) + BLenMax
    BY <1>1, <1>2, <1>3, <1>5
  <2> QED BY <1>1, <1>2, <1>6, <2>1, <2>2 DEF ScanInv
<1>10. FramesInv'
  <2>1. bFrames' \subseteq FrameT
    BY <1>2, <1>8 DEF FramesInv
  <2>2. \A f \in bFrames' : f.block <= bNth'
    BY <1>1, <1>2, <1>8 DEF FramesInv
  <2>3. ASSUME NEW f \in bFrames', f.block = bNth'
        PROVE  f.at < Len(bBlock) /\ Block!IsHead(bBlock[f.at + 1]) /\ bBlock[f.at + 1].stream = f.stream
    <3>1. CASE f \in bFrames
      BY <1>1, <1>2, <2>3, <3>1 DEF FramesInv
    <3>2. CASE f = w
      BY <1>1, <1>4, <1>5, <1>8, <3>2 DEF Block!At
    <3> QED BY <1>8, <3>1, <3>2
  <2>4. \E f \in bFrames' : f.block = bNth' /\ f.at = bOffset'
    <3>1. CASE bPos = 0
      <4>1. bSum = 0
        BY <1>2, <3>1 DEF ScanInv
      <4> QED BY <1>1, <1>2, <1>8, <4>1
    <3>2. CASE bPos # 0
      <4>1. bPos > 0
        BY <1>2, <3>2
      <4> QED BY <1>1, <1>2, <1>8, <4>1 DEF FramesInv
    <3> QED BY <3>1, <3>2
  <2>5. ASSUME NEW f \in bFrames', f.block = bNth', f.at >= bOffset'
        PROVE  bPos' > 0 /\ f.stream = bSub'[1] /\ f.at + f.len <= bOffset' + bSum'
    <3>1. CASE f \in bFrames
      <4>1. bPos > 0 /\ f.stream = bSub[1] /\ f.at + f.len <= bOffset + bSum /\ f.at \in Nat /\ f.len \in Nat
        BY <1>1, <1>2, <2>5, <3>1, UnderWay DEF FramesInv
      <4>b. bPos' = bPos + 1 /\ bSum' = bSum + l /\ bOffset' = bOffset
        BY <1>1, <1>3
      <4>2. bPos' > 0 /\ bSub'[1] = bSub[1] /\ bOffset' + bSum' = bOffset + bSum + l
        <5>1. bSub' = bSub
          BY <1>6, <4>1
        <5> QED BY <1>2, <4>b, <5>1
      <4> QED BY <1>2, <4>1, <4>2
    <3>2. CASE f = w
      BY <1>1, <1>2, <1>3, <1>6, <1>8, <3>2, SMTT(30)
    <3> QED BY <1>8, <3>1, <3>2
  <2>6. \E f \in bFrames' : f.block = bNth' /\ f.at >= bOffset' /\ f.at + f.len = bOffset' + bSum'
    BY <1>1, <1>2, <1>3, <1>8, SMTT(30)
  <2> QED BY <1>1, <2>1, <2>2, <2>3, <2>4, <2>5, <2>6 DEF FramesInv
<1>11. TableInv' /\ ApartInv'
  BY <1>1, ZenonT(30) DEF DispInv, TableInv, ApartInv, Apart
<1>12. GroupsInv'
  <2> SUFFICES ASSUME NEW k \in Block!Keys, NEW i \in 1 .. Len(bTable[k])
               PROVE  GroupOK(k, bTable[k][i])'
    BY <1>1 DEF GroupsInv
  <2>1. PICK g : g = bTable[k][i]
    OBVIOUS
  <2>2. GroupOK(k, g) /\ g \in GroupT
    BY <2>1 DEF DispInv, GroupsInv, TableInv
  <2>3. ~Block!Holds(g, w)
    BY <1>1, <1>2, <1>8, <2>2 DEF GroupOK, Block!Holds, GroupT
  <2>4. GroupOK(k, g)'
    BY <1>1, <1>8, <2>2, <2>3 DEF GroupOK, Block!Holds
  <2> QED BY <1>1, <2>1, <2>4 DEF GroupOK, Block!Holds
<1>13. FoundInv'
  <2>1. ~(w.at < bOffset)
    BY <1>2, <1>8
  <2> QED BY <1>1, <1>8, <2>1 DEF DispInv, FoundInv, InGroup, Block!Holds
<1> QED BY <1>9, <1>10, <1>11, <1>12, <1>13 DEF DispInv

\* The table after a group has been added: the vector of the key is longer by it.
LEMMA AppendedGroup ==
    ASSUME NEW K, NEW T, NEW s \in K, NEW g \in T, NEW tab \in [K -> Seq(T)], NEW new,
           new = [tab EXCEPT ![s] = Append(@, g)]
    PROVE  /\ new \in [K -> Seq(T)]
           /\ Len(new[s]) = Len(tab[s]) + 1
           /\ \A k \in K \ {s} : new[k] = tab[k]
           /\ \A i \in 1 .. Len(tab[s]) : new[s][i] = tab[s][i]
           /\ new[s][Len(tab[s]) + 1] = g
<1>1. tab[s] \in Seq(T) /\ Append(tab[s], g) \in Seq(T)
  OBVIOUS
<1>2. new[s] = Append(tab[s], g) /\ \A k \in K \ {s} : new[k] = tab[k]
  OBVIOUS
<1>3. new \in [K -> Seq(T)]
  BY <1>1
<1> QED BY <1>1, <1>2, <1>3

\* What a group that is dispatched is: spm_hash_renew takes it, or counts it as lost.
LEMMA LoadEffect ==
    ASSUME Block!DispatchAssumption, DispInv, Block!Load
    PROVE  /\ \/ /\ bSum > 0 /\ bSum <= Len(bBlock)
                 /\ Len(bTable[bSub]) < BMaxVec /\ (bSub \in bHeld \/ Cardinality(bHeld) < BMaxKeys)
                 /\ bTable' = [bTable EXCEPT ![bSub] = Append(@, [block |-> bNth, from |-> bOffset, len |-> bSum])]
                 /\ bHeld' = bHeld \cup {bSub} /\ bLost' = bLost
              \/ bTable' = bTable /\ bHeld' = bHeld /\ bLost' = bLost + 1
              \/ bTable' = bTable /\ bHeld' = bHeld /\ bLost' = bLost /\ (bSum = 0 \/ bSum > Len(bBlock))
           /\ bPc' = "match" => ~bOver /\ bSum > 0 /\ bSum <= Len(bBlock) - bOffset
           /\ bPc' \in {"read", "match"}
           /\ bOffset' = IF bSum <= Len(bBlock) - bOffset THEN bOffset + bSum ELSE bOffset
           /\ bSum' = 0 /\ bPos' = 0 /\ bSub' = Block!NoSub /\ bErr' = FALSE /\ bOver' = FALSE
           /\ bBlock' = bBlock /\ bNth' = bNth /\ bFrames' = bFrames
<1>1. bSum \in Nat /\ bOffset \in Nat /\ Len(bBlock) \in Nat
  BY DEF DispInv, ScanInv
<1>2. /\ bPc' = "match" => ~bOver /\ bSum > 0 /\ bSum <= Len(bBlock) - bOffset
      /\ bPc' \in {"read", "match"}
  BY <1>1 DEF Block!Load, Block!Rest
<1>3. /\ bOffset' = IF bSum <= Len(bBlock) - bOffset THEN bOffset + bSum ELSE bOffset
      /\ bSum' = 0 /\ bPos' = 0 /\ bSub' = Block!NoSub /\ bErr' = FALSE /\ bOver' = FALSE
      /\ bBlock' = bBlock /\ bNth' = bNth /\ bFrames' = bFrames
  BY DEF Block!Load, Block!Rest
<1>4. CASE bSum > 0 /\ bSum <= Len(bBlock)
  <2>1. Block!Renew(bSub, [block |-> bNth, from |-> bOffset, len |-> bSum])
    BY <1>4 DEF Block!Load
  <2>2. Block!Cardinality(bHeld) = Cardinality(bHeld)
    BY CountOfKeys
  <2> QED BY <1>2, <1>3, <1>4, <2>1, <2>2 DEF Block!Renew
<1>5. CASE ~(bSum > 0 /\ bSum <= Len(bBlock))
  <2>1. UNCHANGED <<bTable, bHeld, bLost>>
    BY <1>5 DEF Block!Load
  <2>2. bSum = 0 \/ bSum > Len(bBlock)
    BY <1>1, <1>5
  <2> QED BY <1>2, <1>3, <2>1, <2>2
<1> QED BY <1>4, <1>5

\* The group is dispatched and the next one begins, or the block ends.
LEMMA LoadHolds ==
    ASSUME Block!DispatchAssumption, DispInv, Block!Load
    PROVE  DispInv'
<1>0. bPc = "load"
  BY DEF Block!Load
<1>1. /\ ScanInv /\ FramesInv /\ TableInv /\ GroupsInv /\ ApartInv /\ FoundInv
      /\ Len(bBlock) \in Nat /\ bOffset \in Nat /\ bSum \in Nat /\ bLost \in Nat /\ bPos \in Nat /\ bNth \in Nat
      /\ bOffset <= Len(bBlock) /\ BLenMax \in Nat /\ BMaxFrames \in Nat \ {0}
  BY DEF DispInv, ScanInv, Block!DispatchAssumption
<1>2. /\ bPc' = "match" => ~bOver /\ bSum > 0 /\ bSum <= Len(bBlock) - bOffset
      /\ bPc' \in {"read", "match"}
      /\ bOffset' = IF bSum <= Len(bBlock) - bOffset THEN bOffset + bSum ELSE bOffset
      /\ bSum' = 0 /\ bPos' = 0 /\ bSub' = Block!NoSub /\ bErr' = FALSE /\ bOver' = FALSE
      /\ bBlock' = bBlock /\ bNth' = bNth /\ bFrames' = bFrames
  BY LoadEffect
<1>3. /\ bLost' \in Nat /\ bLost' >= bLost
  BY <1>1, LoadEffect
<1>4. bOffset' \in Nat /\ bOffset' >= bOffset /\ bOffset' <= Len(bBlock)
  BY <1>1, <1>2
<1>5. \A f \in bFrames : f.at \in Nat /\ f.len \in Nat /\ f.block \in Nat /\ f.stream \in BStreams
  BY <1>1 DEF FramesInv, FrameT
<1>6. ScanInv'
  <2>1. /\ bSum' \in 0 .. Len(bBlock) + BLenMax /\ bPos' \in 0 .. BMaxFrames /\ bOffset' \in 0 .. Len(bBlock)
        /\ bPos' < BMaxFrames /\ ~(bPos' > 0)
    BY <1>1, <1>2, <1>4
  <2> QED BY <1>1, <1>2, <1>3, <2>1, Zenon DEF ScanInv
<1>7. ASSUME NEW f \in bFrames, f.block = bNth, f.at >= bOffset, bLost' = 0
      PROVE  f.at < bOffset + bSum /\ bSum > 0 /\ f.stream = bSub[1] /\ bPos > 0
  <2>1. ~bErr
    <3>1. ~(bLost > 0)
      BY <1>1, <1>3, <1>7
    <3> QED BY <1>0, <1>1, <3>1 DEF ScanInv
  <2>2. f.at < bOffset + bSum /\ f.stream = bSub[1] /\ bPos > 0
    BY <1>0, <1>1, <1>7, <2>1 DEF FramesInv
  <2> QED BY <1>1, <1>5, <1>7, <2>2
<1>8. ASSUME NEW f \in bFrames, f.block = bNth, f.at >= bOffset, bPc' = "match"
      PROVE  f.at < bOffset + bSum
  <2>1. ~bErr
    <3>1. ~bOver
      BY <1>2, <1>8
    <3> QED BY <1>0, <1>1, <3>1 DEF ScanInv
  <2> QED BY <1>0, <1>1, <1>8, <2>1 DEF FramesInv
<1>9. FramesInv'
  <2>1. bPc' # "read" => \A f \in bFrames : ~(f.block = bNth /\ f.at >= bOffset')
    <3> SUFFICES ASSUME bPc' = "match", NEW f \in bFrames, f.block = bNth, f.at >= bOffset' PROVE FALSE
      BY <1>2
    <3>1. bOffset' = bOffset + bSum
      BY <1>2
    <3> QED BY <1>1, <1>4, <1>5, <1>8, <3>1
  <2>2. ~(bSum' > Len(bBlock) - bOffset') /\ ~(bPos' > 0)
    BY <1>1, <1>2, <1>4
  <2> QED BY <1>1, <1>2, <2>1, <2>2 DEF FramesInv
<1>10. CASE bTable' = bTable /\ bHeld' = bHeld /\ (bLost' = bLost + 1 \/ (bLost' = bLost /\ (bSum = 0 \/ bSum > Len(bBlock))))
  <2>1. TableInv'
    BY <1>1, <1>10 DEF TableInv
  <2>a. ApartInv'
    BY <1>1, <1>10, ZenonT(30) DEF ApartInv, Apart
  <2>2. GroupsInv'
    <3> SUFFICES ASSUME NEW k \in Block!Keys, NEW i \in 1 .. Len(bTable[k]) PROVE GroupOK(k, bTable[k][i])'
      BY <1>10 DEF GroupsInv
    <3>1. PICK g : g = bTable[k][i]
      OBVIOUS
    <3>2. GroupOK(k, g) /\ g \in GroupT
      BY <1>1, <3>1 DEF GroupsInv, TableInv
    <3>3. g.block = bNth => g.from + g.len <= bOffset'
      BY <1>0, <1>1, <1>4, <3>2 DEF GroupOK, GroupT
    <3>4. GroupOK(k, g)'
      BY <1>2, <3>2, <3>3 DEF GroupOK, Block!Holds
    <3> QED BY <1>10, <3>1, <3>4 DEF GroupOK, Block!Holds
  <2>3. FoundInv'
    <3> SUFFICES ASSUME bLost' = 0, NEW f \in bFrames, f.block = bNth, f.len > 0,
                        IF bPc' = "read" THEN ~Block!Cut' ELSE f.at < bOffset'
                 PROVE  InGroup(f)'
      BY <1>2 DEF FoundInv
    <3>1. bLost = 0 /\ (bSum = 0 \/ bSum > Len(bBlock))
      BY <1>1, <1>3, <1>10
    <3>2. f.at < bOffset
      <4> SUFFICES ASSUME f.at >= bOffset PROVE FALSE
        BY <1>1, <1>5
      <4>1. bSum > Len(bBlock)
        BY <1>1, <1>7, <3>1
      <4>2. \E e \in bFrames : e.block = bNth /\ e.at >= bOffset /\ e.at + e.len = bOffset + bSum
        BY <1>1, <4>1 DEF FramesInv
      <4>3. Block!Cut'
        BY <1>1, <1>2, <1>5, <4>1, <4>2 DEF Block!Cut
      <4>4. bPc' = "read"
        BY <1>1, <1>2, <4>1
      <4> QED BY <4>3, <4>4
    <3>3. InGroup(f)
      BY <1>0, <1>1, <3>1, <3>2 DEF FoundInv
    <3> QED BY <1>10, <3>3 DEF InGroup, Block!Holds
  <2> QED BY <1>6, <1>9, <2>1, <2>a, <2>2, <2>3 DEF DispInv
<1>11. CASE /\ bSum > 0 /\ bSum <= Len(bBlock) /\ Len(bTable[bSub]) < BMaxVec /\ (bSub \in bHeld \/ Cardinality(bHeld) < BMaxKeys)
            /\ bTable' = [bTable EXCEPT ![bSub] = Append(@, [block |-> bNth, from |-> bOffset, len |-> bSum])]
            /\ bHeld' = bHeld \cup {bSub} /\ bLost' = bLost
  <2>1. PICK g \in GroupT : g = [block |-> bNth, from |-> bOffset, len |-> bSum]
    BY <1>1 DEF GroupT
  <2>2. g.block = bNth /\ g.from = bOffset /\ g.len = bSum
    BY <2>1
  <2>3. bPos > 0 /\ bSub \in Block!Keys
    BY <1>1, <1>11 DEF ScanInv
  <2>4. /\ bTable' \in [Block!Keys -> Seq(GroupT)]
        /\ Len(bTable'[bSub]) = Len(bTable[bSub]) + 1
        /\ \A k \in Block!Keys \ {bSub} : bTable'[k] = bTable[k]
        /\ \A i \in 1 .. Len(bTable[bSub]) : bTable'[bSub][i] = bTable[bSub][i]
        /\ bTable'[bSub][Len(bTable[bSub]) + 1] = g
    <3>1. bTable' = [bTable EXCEPT ![bSub] = Append(@, g)] /\ bTable \in [Block!Keys -> Seq(GroupT)]
      BY <1>1, <1>11, <2>1 DEF TableInv
    <3> QED BY <2>3, <3>1, AppendedGroup
  <2>5. Len(bTable[bSub]) \in Nat
    BY <1>1, <2>3 DEF TableInv
  <2>6. \A k \in Block!Keys : \A i \in 1 .. Len(bTable'[k]) :
           \/ k = bSub /\ i = Len(bTable[bSub]) + 1 /\ bTable'[k][i] = g
           \/ i \in 1 .. Len(bTable[k]) /\ bTable'[k][i] = bTable[k][i]
    <3> SUFFICES ASSUME NEW k \in Block!Keys, NEW i \in 1 .. Len(bTable'[k])
                 PROVE  \/ k = bSub /\ i = Len(bTable[bSub]) + 1 /\ bTable'[k][i] = g
                        \/ i \in 1 .. Len(bTable[k]) /\ bTable'[k][i] = bTable[k][i]
      OBVIOUS
    <3>1. CASE k = bSub
      <4>1. i \in 1 .. Len(bTable[bSub]) \/ i = Len(bTable[bSub]) + 1
        BY <2>4, <2>5, <3>1
      <4> QED BY <2>4, <3>1, <4>1
    <3>2. CASE k # bSub
      BY <2>4, <3>2
    <3> QED BY <3>1, <3>2
  <2>7. TableInv'
    <3>1. IsFiniteSet(bHeld') /\ Cardinality(bHeld') <= BMaxKeys /\ bHeld' \subseteq Block!Keys
      <4>1. IsFiniteSet(bHeld) /\ Cardinality(bHeld) \in Nat /\ Cardinality(bHeld) <= BMaxKeys /\ BMaxKeys \in Nat
        BY <1>1, FS_CardinalityType DEF TableInv, Block!DispatchAssumption
      <4>2. CASE bSub \in bHeld
        <5>1. bHeld' = bHeld
          BY <1>11, <4>2
        <5> QED BY <1>1, <5>1 DEF TableInv
      <4>3. CASE bSub \notin bHeld
        <5>1. IsFiniteSet(bHeld \cup {bSub}) /\ Cardinality(bHeld \cup {bSub}) = Cardinality(bHeld) + 1
          BY <4>1, <4>3, FS_AddElement
        <5>2. Cardinality(bHeld) < BMaxKeys /\ bHeld' = bHeld \cup {bSub}
          BY <1>11, <4>3
        <5> QED BY <1>1, <2>3, <4>1, <5>1, <5>2 DEF TableInv
      <4> QED BY <4>2, <4>3
    <3>2. \A k \in Block!Keys : Len(bTable'[k]) <= BMaxVec
      <4>1. Len(bTable[bSub]) + 1 <= BMaxVec
        BY <1>11, <2>5 DEF Block!DispatchAssumption
      <4> QED BY <1>1, <2>4, <4>1 DEF TableInv
    <3>3. \A k \in Block!Keys \ bHeld' : bTable'[k] = <<>>
      BY <1>1, <1>11, <2>4 DEF TableInv
    <3> QED BY <2>4, <3>1, <3>2, <3>3 DEF TableInv
  <2>8. \A k \in Block!Keys : \A i \in 1 .. Len(bTable[k]) :
           /\ GroupOK(k, bTable[k][i]) /\ bTable[k][i] \in GroupT
           /\ bTable[k][i].block = bNth => bTable[k][i].from + bTable[k][i].len <= bOffset
    BY <1>0, <1>1 DEF GroupsInv, TableInv, GroupOK
  <2>9. GroupsInv'
    <3> SUFFICES ASSUME NEW k \in Block!Keys, NEW i \in 1 .. Len(bTable'[k]) PROVE GroupOK(k, bTable[k][i])'
      BY DEF GroupsInv
    <3>1. PICK h : h = bTable'[k][i]
      OBVIOUS
    <3>2. CASE k = bSub /\ h = g
      <4>1. h.block <= bNth /\ (bPc' # "read" => h.from + h.len <= bOffset')
        BY <1>1, <1>2, <2>2, <3>2
      <4>2. \E f \in bFrames : f.block = h.block /\ f.at = h.from
        BY <1>1, <2>2, <2>3, <3>2 DEF FramesInv
      <4>3. \A f \in bFrames : Block!Holds(h, f) => k[1] = f.stream
        BY <1>0, <1>1, <2>2, <3>2 DEF FramesInv, Block!Holds
      <4>4. ASSUME h.from + h.len > Len(bBlock)
            PROVE  /\ h.from > 0
                   /\ \E f \in bFrames : Block!Holds(h, f) /\ f.at < Len(bBlock) /\ f.at + f.len = h.from + h.len
        <5>1. h.from > 0 /\ bSum > Len(bBlock) - bOffset
          BY <1>1, <1>11, <2>2, <3>2, <4>4
        <5>2. PICK e \in bFrames : e.block = bNth /\ e.at >= bOffset /\ e.at + e.len = bOffset + bSum
          BY <1>1, <5>1 DEF FramesInv
        <5>3. e.at < Len(bBlock)
          BY <1>1, <5>2 DEF FramesInv
        <5>4. Block!Holds(h, e)
          BY <1>1, <1>5, <2>2, <3>2, <5>1, <5>2, <5>3 DEF Block!Holds
        <5> QED BY <2>2, <3>2, <5>1, <5>2, <5>3, <5>4
      <4>5. GroupOK(k, h)'
        BY <1>2, <4>1, <4>2, <4>3, <4>4 DEF GroupOK, Block!Holds
      <4> QED BY <3>1, <4>5 DEF GroupOK, Block!Holds
    <3>3. CASE i \in 1 .. Len(bTable[k]) /\ h = bTable[k][i]
      <4>1. GroupOK(k, h) /\ h \in GroupT /\ (h.block = bNth => h.from + h.len <= bOffset)
        BY <2>8, <3>3
      <4>2. h.block = bNth => h.from + h.len <= bOffset'
        BY <1>1, <1>4, <4>1 DEF GroupT
      <4>3. GroupOK(k, h)'
        BY <1>2, <4>1, <4>2 DEF GroupOK, Block!Holds
      <4> QED BY <3>1, <4>3 DEF GroupOK, Block!Holds
    <3> QED BY <2>6, <3>1, <3>2, <3>3
  <2>10. ApartInv'
    <3> SUFFICES ASSUME NEW k \in Block!Keys, NEW m \in Block!Keys,
                        NEW i \in 1 .. Len(bTable'[k]), NEW j \in 1 .. Len(bTable'[m]), k # m \/ i # j
                 PROVE  Apart(bTable'[k][i], bTable'[m][j])
      BY DEF ApartInv, Apart
    <3>1. CASE i \in 1 .. Len(bTable[k]) /\ bTable'[k][i] = bTable[k][i]
               /\ j \in 1 .. Len(bTable[m]) /\ bTable'[m][j] = bTable[m][j]
      BY <1>1, <3>1 DEF ApartInv
    <3>2. CASE i \in 1 .. Len(bTable[k]) /\ bTable'[k][i] = bTable[k][i] /\ bTable'[m][j] = g
      BY <2>2, <2>8, <3>2 DEF Apart
    <3>3. CASE bTable'[k][i] = g /\ j \in 1 .. Len(bTable[m]) /\ bTable'[m][j] = bTable[m][j]
      BY <2>2, <2>8, <3>3 DEF Apart
    <3> QED BY <2>6, <3>1, <3>2, <3>3
  <2>11. FoundInv'
    <3> SUFFICES ASSUME bLost' = 0, NEW f \in bFrames, f.block = bNth, f.len > 0
                 PROVE  InGroup(f)'
      BY <1>2 DEF FoundInv
    <3>1. CASE f.at < bOffset
      <4>1. InGroup(f)
        BY <1>0, <1>1, <1>11, <3>1 DEF FoundInv
      <4>a. PICK p \in {0, 1} : \E i \in 1 .. Len(bTable[<<f.stream, p>>]) : Block!Holds(bTable[<<f.stream, p>>][i], f)
        BY <4>1 DEF InGroup
      <4>3. PICK k \in Block!Keys : k = <<f.stream, p>>
        BY <1>5 DEF Block!Keys
      <4>2. PICK i \in 1 .. Len(bTable[k]) : Block!Holds(bTable[k][i], f)
        BY <4>a, <4>3
      <4>4. i \in 1 .. Len(bTable'[k]) /\ bTable'[k][i] = bTable[k][i]
        <5>1. CASE k = bSub
          BY <2>4, <2>5, <4>2, <4>3, <5>1
        <5>2. CASE k # bSub
          BY <2>4, <4>2, <4>3, <5>2
        <5> QED BY <5>1, <5>2
      <4> QED BY <4>2, <4>3, <4>4 DEF InGroup, Block!Holds
    <3>2. CASE ~(f.at < bOffset)
      <4>1. f.at >= bOffset /\ f.at < bOffset + bSum /\ f.stream = bSub[1]
        BY <1>1, <1>5, <1>7, <3>2
      <4>2. Block!Holds(g, f)
        BY <2>2, <4>1 DEF Block!Holds
      <4>3. bSub = <<f.stream, bSub[2]>> /\ bSub[2] \in {0, 1}
        BY <2>3, <4>1 DEF Block!Keys
      <4>4. PICK p \in {0, 1} : bSub = <<f.stream, p>>
        BY <4>3
      <4>5. Len(bTable[bSub]) + 1 \in 1 .. Len(bTable'[bSub]) /\ bTable'[bSub][Len(bTable[bSub]) + 1] = g
        BY <2>4, <2>5
      <4> QED BY <4>2, <4>4, <4>5 DEF InGroup, Block!Holds
    <3> QED BY <3>1, <3>2
  <2> QED BY <1>6, <1>9, <2>7, <2>9, <2>10, <2>11 DEF DispInv
<1> QED BY <1>10, <1>11, LoadEffect

\* A new block, or the table cleared after a batch: nothing is left of the block
\* before that could be taken for a part of the new one.
LEMMA ReadHolds ==
    ASSUME Block!DispatchAssumption, DispInv, Block!Read
    PROVE  DispInv'
<1>1. /\ bPc = "read" /\ bNth < BBlocks /\ bNth' = bNth + 1 /\ bPc' = "match" /\ bOffset' = 0
      /\ bSum' = 0 /\ bPos' = 0 /\ bSub' = Block!NoSub /\ bErr' = FALSE /\ bOver' = FALSE
      /\ UNCHANGED <<bTable, bHeld, bLost, bFrames>>
  BY DEF Block!Read
<1>2. /\ ScanInv /\ FramesInv /\ TableInv /\ GroupsInv /\ ApartInv
      /\ bNth \in Nat /\ BBlocks \in Nat /\ BMaxCells \in Nat /\ BLenMax \in Nat /\ BMaxFrames \in Nat \ {0}
  BY DEF DispInv, ScanInv, Block!DispatchAssumption
<1>3. bBlock' \in Seq(Block!Heads \cup {Block!Data}) /\ Len(bBlock') \in Nat /\ Len(bBlock') <= BMaxCells
  <2>1. PICK n \in 1 .. BMaxCells : bBlock' \in [1 .. n -> Block!Heads \cup {Block!Data}]
    BY DEF Block!Read
  <2>2. n \in Nat /\ n <= BMaxCells
    BY <1>2, <2>1
  <2>3. bBlock' \in Seq(Block!Heads \cup {Block!Data}) /\ Len(bBlock') = n
    BY <2>1, <2>2
  <2> QED BY <2>2, <2>3
<1>4. ScanInv'
  <2>1. /\ 0 \in 0 .. Len(bBlock') /\ 0 \in 0 .. Len(bBlock') + BLenMax /\ 0 \in 0 .. BMaxFrames
        /\ bNth' \in 0 .. BBlocks /\ 0 < BMaxFrames /\ ~(0 > 0)
    BY <1>1, <1>2, <1>3
  <2> QED BY <1>1, <1>2, <1>3, <2>1, Zenon DEF ScanInv
<1>5. \A f \in bFrames : f.block \in Nat /\ f.block <= bNth /\ f.block # bNth' /\ f.block <= bNth'
  BY <1>1, <1>2 DEF FramesInv, FrameT
<1>6. FramesInv'
  <2>1. ~(bSum' > Len(bBlock') - bOffset') /\ ~(bPos' > 0)
    BY <1>1, <1>3
  <2> QED BY <1>1, <1>2, <1>5, <2>1 DEF FramesInv
<1>7. TableInv' /\ ApartInv'
  BY <1>1, <1>2 DEF TableInv, ApartInv, Apart
<1>8. GroupsInv'
  <2> SUFFICES ASSUME NEW k \in Block!Keys, NEW i \in 1 .. Len(bTable[k]) PROVE GroupOK(k, bTable[k][i])'
    BY <1>1 DEF GroupsInv
  <2>1. PICK g : g = bTable[k][i]
    OBVIOUS
  <2>2. GroupOK(k, g) /\ g \in GroupT
    BY <1>2, <2>1 DEF GroupsInv, TableInv
  <2>3. g.block <= bNth' /\ g.block # bNth'
    BY <1>1, <1>2, <2>2 DEF GroupOK, GroupT
  <2>4. GroupOK(k, g)'
    BY <1>1, <2>2, <2>3 DEF GroupOK, Block!Holds
  <2> QED BY <1>1, <2>1, <2>4 DEF GroupOK, Block!Holds
<1>9. FoundInv'
  BY <1>1, <1>5 DEF FoundInv
<1> QED BY <1>4, <1>6, <1>7, <1>8, <1>9 DEF DispInv

\* spm_clear_all_hash.
LEMMA ClearHolds ==
    ASSUME Block!DispatchAssumption, DispInv, Block!Clear
    PROVE  DispInv'
<1>1. /\ bPc = "read" /\ bTable' = [k \in Block!Keys |-> <<>>]
      /\ bBlock' = <<>> /\ bNth' = 0 /\ bOffset' = 0 /\ bFrames' = {} /\ bLost' = 0
      /\ UNCHANGED <<bPc, bSum, bPos, bSub, bErr, bOver, bHeld>>
  BY DEF Block!Clear
<1>2. /\ ScanInv /\ TableInv /\ bPos = 0 /\ bSum = 0
      /\ BBlocks \in Nat /\ BMaxCells \in Nat /\ BLenMax \in Nat /\ BMaxFrames \in Nat /\ BMaxVec \in Nat
  BY <1>1 DEF DispInv, ScanInv, Block!DispatchAssumption
<1>3. bBlock' \in Seq(Block!Heads \cup {Block!Data}) /\ Len(bBlock') = 0
  BY <1>1
<1>4. ScanInv'
  <2>1. /\ 0 \in 0 .. Len(bBlock') /\ 0 \in 0 .. Len(bBlock') + BLenMax /\ 0 \in 0 .. BMaxFrames
        /\ 0 \in 0 .. BBlocks /\ 0 \in Nat /\ 0 <= BMaxCells
    BY <1>1, <1>2, <1>3
  <2> QED BY <1>1, <1>2, <1>3, <2>1 DEF ScanInv
<1>5. FramesInv' /\ FoundInv'
  <2>1. ~(bSum' > Len(bBlock') - bOffset') /\ ~(bPos' > 0)
    BY <1>1, <1>2, <1>3
  <2> QED BY <1>1, <2>1 DEF FramesInv, FoundInv
<1>6. \A k \in Block!Keys : bTable'[k] = <<>> /\ Len(bTable'[k]) = 0
  BY <1>1
<1>7. TableInv'
  <2>1. bTable' \in [Block!Keys -> Seq(GroupT)]
    BY <1>1
  <2> QED BY <1>1, <1>2, <1>6, <2>1 DEF TableInv
<1>8. \A k \in Block!Keys : 1 .. Len(bTable'[k]) = {}
  BY <1>6
<1>9. GroupsInv' /\ ApartInv'
  BY <1>8 DEF GroupsInv, ApartInv
<1> QED BY <1>4, <1>5, <1>7, <1>9 DEF DispInv

\* Every step of the dispatcher keeps it.
LEMMA DispStep ==
    ASSUME Block!DispatchAssumption, DispInv, [Block!Next]_(Block!vars)
    PROVE  DispInv'
<1>1. CASE UNCHANGED Block!vars
  <2>1. /\ bBlock' = bBlock /\ bNth' = bNth /\ bPc' = bPc /\ bOffset' = bOffset /\ bSum' = bSum /\ bPos' = bPos
        /\ bSub' = bSub /\ bErr' = bErr /\ bOver' = bOver /\ bTable' = bTable /\ bHeld' = bHeld
        /\ bLost' = bLost /\ bFrames' = bFrames
    BY <1>1 DEF Block!vars
  <2>2. ScanInv' /\ FramesInv' /\ TableInv'
    BY <2>1 DEF DispInv, ScanInv, FramesInv, TableInv
  <2>3. GroupsInv' /\ ApartInv' /\ FoundInv'
    BY <2>1 DEF DispInv, GroupsInv, GroupOK, ApartInv, Apart, FoundInv, InGroup, Block!Holds, Block!Cut
  <2> QED BY <2>2, <2>3 DEF DispInv
<1> QED BY <1>1, ReadHolds, ClearHolds, SkipHolds, BadHolds, EndHolds, TakeHolds, MatchedHolds, LoadHolds
        DEF Block!Next

\* For blocks, frames and tables of every size: the inductive invariant.
THEOREM GroupsStayInStep == (Block!Spec => []DispInv) /\ (MCSpec => []DispInv)
<1>1. Block!Init => DispInv
  BY MCDataAssumption, DispInit
<1>2. DispInv /\ [Block!Next]_(Block!vars) => DispInv'
  BY MCDataAssumption, DispStep
<1>3. MCInit => Block!Init
  BY DEF MCInit
<1>4. [MCNext]_mcVars => [Block!Next]_(Block!vars)
  BY DataParts
<1> QED BY <1>1, <1>2, <1>3, <1>4, PTL DEF Block!Spec, MCSpec

\* For blocks, frames and tables of every size, a frame found valid goes to its own
\* stream and no other, to one group at most and to one unless an error was counted or
\* the block ends within it; no cell goes out twice, and only a last frame that is cut
\* off reaches beyond the block (xdma_data_dispatcher_buffer, spm_hash_renew).
THEOREM FramesReachTheirStreams == (Block!Spec => []Block!BlockSound) /\ (MCSpec => []BlockSound)
<1>0. Block!DispatchAssumption
  BY MCDataAssumption
<1>1. ASSUME DispInv PROVE Block!BlockSound
  <2>1. /\ ScanInv /\ FramesInv /\ TableInv /\ GroupsInv /\ ApartInv /\ FoundInv
        /\ \A k \in Block!Keys : Len(bTable[k]) \in Nat
    BY <1>1 DEF DispInv, TableInv
  <2>2. Block!TypeOK
    <3>1. bSub \in Block!Keys \cup {Block!NoSub}
      <4>1. bPos = 0 \/ bPos > 0
        BY <1>0, <2>1 DEF ScanInv, Block!DispatchAssumption
      <4> QED BY <2>1, <4>1 DEF ScanInv
    <3>2. Block!Cardinality(bHeld) <= BMaxKeys
      BY <1>0, <2>1, CountOfKeys DEF TableInv
    <3>3. \A k \in Block!Keys : Len(bTable[k]) <= BMaxVec /\ (k \notin bHeld => bTable[k] = <<>>)
      BY <2>1 DEF TableInv
    <3> QED BY <2>1, <3>1, <3>2, <3>3, Zenon DEF ScanInv, TableInv, Block!TypeOK
  <2>3. Block!Routed
    <3>1. \A k \in Block!Keys : \A g \in Block!Groups(k) : GroupOK(k, g)
      BY <2>1 DEF GroupsInv, Block!Groups
    <3>2. \A f \in bFrames : \A k \in Block!Keys : \A g \in Block!Groups(k) : Block!Holds(g, f) => k[1] = f.stream
      BY <3>1 DEF GroupOK
    <3>3. \A k \in Block!Keys : \A g \in Block!Groups(k) : \E f \in bFrames : f.block = g.block /\ f.at = g.from
      BY <3>1 DEF GroupOK
    <3>4. ASSUME bPc = "read", bLost = 0, ~Block!Cut, NEW f \in bFrames, f.block = bNth, f.len > 0
          PROVE  \E p \in {0, 1} : \E g \in Block!Groups(<<f.stream, p>>) : Block!Holds(g, f)
      <4>1. InGroup(f)
        BY <2>1, <3>4 DEF FoundInv
      <4> QED BY <4>1 DEF InGroup, Block!Groups
    <3> QED BY <3>2, <3>3, <3>4 DEF Block!Routed
  <2>4. Block!Disjoint
    <3> SUFFICES ASSUME NEW k \in Block!Keys, NEW m \in Block!Keys,
                        NEW i \in 1 .. Len(bTable[k]), NEW j \in 1 .. Len(bTable[m]),
                        <<k, i>> # <<m, j>>, bTable[k][i].block = bTable[m][j].block
                 PROVE  Block!Cells(bTable[k][i]) \cap Block!Cells(bTable[m][j]) = {}
      BY DEF Block!Disjoint
    <3>1. Apart(bTable[k][i], bTable[m][j])
      BY <2>1 DEF ApartInv
    <3>2. bTable[k][i] \in GroupT /\ bTable[m][j] \in GroupT
      BY <2>1 DEF TableInv
    <3>3. PICK a \in Nat, b \in Nat, c \in Nat, d \in Nat :
             a = bTable[k][i].from /\ b = bTable[k][i].len /\ c = bTable[m][j].from /\ d = bTable[m][j].len
      BY <3>2 DEF GroupT
    <3>4. a + b <= c \/ c + d <= a
      BY <3>1, <3>3 DEF Apart
    <3>5. (a + 1 .. a + b) \cap (c + 1 .. c + d) = {}
      BY <3>4
    <3> QED BY <3>3, <3>5 DEF Block!Cells
  <2>5. Block!CutOnly
    <3>1. \A k \in Block!Keys : \A g \in Block!Groups(k) : GroupOK(k, g)
      BY <2>1 DEF GroupsInv, Block!Groups
    <3> QED BY <3>1 DEF GroupOK, Block!CutOnly
  <2> QED BY <2>2, <2>3, <2>4, <2>5 DEF Block!BlockSound
<1>2. DispInv => Block!BlockSound /\ BlockSound
  BY <1>1 DEF BlockSound
<1> QED BY <1>2, GroupsStayInStep, PTL

\* The analysis of a block ends whatever the block holds, frames of length 0 as well:
\* every step takes the place in the block, the stage, the number of frames or the
\* length of the group on, in this order, and all of them are bounded
\* (_xdma_of_match_pkgs).
THEOREM AnalysisGoesOn == (Block!Spec => Block!DispatchEnds) /\ (MCSpec => DispatchEnds)
<1>0. Block!DispatchAssumption
  BY MCDataAssumption
<1>1. ASSUME DispInv, Block!Next
      PROVE  Block!Progress
  <2> SUFFICES ASSUME bPc # "read", bPc' # "read"
               PROVE  \/ bOffset' > bOffset
                      \/ /\ bOffset' = bOffset
                         /\ \/ Block!Stage[bPc'] > Block!Stage[bPc]
                            \/ bPc' = bPc /\ (bPos' > bPos \/ (bPos' = bPos /\ bSum' > bSum))
    BY <1>1 DEF Block!Progress
  <2>1. ScanInv /\ bOffset \in Nat /\ bSum \in Nat /\ bPos \in Nat /\ Len(bBlock) \in Nat
    BY <1>1 DEF DispInv, ScanInv
  <2>2. Block!Stage["match"] = 0 /\ Block!Stage["matched"] = 1 /\ Block!Stage["load"] = 2
    BY DEF Block!Stage
  <2>3. ~Block!Read /\ ~Block!Clear
    BY DEF Block!Read, Block!Clear
  <2>4. CASE Block!Skip
    <3>1. bOffset' = bOffset /\ bPos' = bPos /\ bPc = "match"
      BY <2>4 DEF Block!Skip
    <3>2. CASE bPc' = "matched"
      BY <2>2, <3>1, <3>2
    <3>3. CASE bPc' = bPc /\ bSum' = bSum + Block!NextHeader - 1 /\ Block!NextHeader # 0
      <4>1. Block!NextHeader \in 2 .. Block!Rest - bSum
        BY <1>0, <2>1, <2>4, <3>3, NextHeaderAhead DEF Block!Skip
      <4>2. Block!Rest \in Int
        BY <2>1 DEF Block!Rest
      <4>3. bSum' > bSum
        BY <2>1, <3>3, <4>1, <4>2
      <4> QED BY <3>1, <3>3, <4>3
    <3> QED BY <2>4, <3>2, <3>3 DEF Block!Skip
  <2>5. CASE Block!Bad
    BY <2>2, <2>5 DEF Block!Bad, Block!Fail
  <2>6. CASE Block!OtherStream \/ Block!End
    BY <2>2, <2>6 DEF Block!OtherStream, Block!End
  <2>7. CASE Block!Take
    BY <2>1, <2>7 DEF Block!Take
  <2>8. CASE Block!Matched
    BY <2>2, <2>8 DEF Block!Matched
  <2>9. CASE Block!Load
    <3>1. bSum > 0 /\ bSum <= Len(bBlock) - bOffset /\ bOffset' = IF bSum <= Len(bBlock) - bOffset THEN bOffset + bSum ELSE bOffset
      BY <1>0, <1>1, <2>9, LoadEffect
    <3> QED BY <2>1, <3>1
  <2> QED BY <1>1, <2>3, <2>4, <2>5, <2>6, <2>7, <2>8, <2>9 DEF Block!Next
<1>2. DispInv /\ [Block!Next]_(Block!vars) => [Block!Progress]_(Block!vars)
  BY <1>1
<1>3. DispInv /\ [MCNext]_mcVars => [part = "block" => Block!Progress]_mcVars
  <2>1. ASSUME DispInv, MCNext, part = "block" PROVE Block!Next
    BY <2>1 DEF MCNext
  <2> QED BY <1>1, <2>1
<1> QED BY <1>2, <1>3, GroupsStayInStep, PTL DEF Block!DispatchEnds, Block!Spec, MCSpec, DispatchEnds

-----------------------------------------------------------------------------
(* The tables of the two connections of a host (Subscriptions).              *)

\* srv->clients holds every connection once.
SubListInv ==
    /\ sList \in Seq(SClients)
    /\ \A i, j \in 1 .. Len(sList) : sList[i] = sList[j] => i = j

\* The other variables; the counter of the timer is exact, and whoever is not connected
\* has an empty table.
SubTableInv ==
    /\ sHost \in [SClients -> SHosts] /\ sPrio \in [SClients -> {0, 1}]
    /\ sSubs \in [SClients -> SUBSET (SPresent \X {0, 1})]
    /\ sProbes \in [SClients -> 0 .. SMaxProbes] /\ sDown = sProbes
    /\ sLink \in BOOLEAN /\ sCmds \in 0 .. SMaxCmd
    /\ sWant \in [SHosts -> SUBSET SPresent] /\ sShaken \subseteq SHosts
    /\ \A c \in SClients \ Subs!Connected : sSubs[c] = {}

\* Host h has one connection of each priority.
Pair(h) == \E c, d \in SClients : Subs!Of(h) = {c, d} /\ sPrio[c] = 0 /\ sPrio[d] = 1

\* Host h has subscribed to nothing.
Silent(h) == sWant[h] = {} /\ \A c \in Subs!Of(h) : sSubs[c] = {}

\* Both connections of host h have what it wants.
Served(h) == \A c \in Subs!Of(h), id \in SIds : <<id, sPrio[c]>> \in sSubs[c] <=> id \in sWant[h]

\* A host that was not shaken is silent, or has its two connections and gets on each
\* what it wants; nothing is kept of a host that is gone.
HostOK(h) ==
    /\ Subs!Of(h) = {} => sWant[h] = {} /\ h \notin sShaken
    /\ h \in sShaken \/ Silent(h) \/ (Pair(h) /\ Served(h))

SubsInv == SubListInv /\ SubTableInv /\ \A h \in SHosts : HostOK(h)

\* A set of natural numbers that is not empty has a least element.
LEMMA LeastNumber ==
    ASSUME NEW T, T \subseteq Nat, T # {}
    PROVE  \E n \in T : \A m \in T : n <= m
  <1>1. \A m, n \in Nat : m < n => <<m, n>> \in OpToRel(<, Nat)
    BY DEF OpToRel
  <1>2. \E R : IsWellFoundedOn(R, Nat) /\ \A m, n \in Nat : m < n => <<m, n>> \in R
    BY <1>1, NatLessThanWellFounded
  <1>3. PICK R : IsWellFoundedOn(R, Nat) /\ \A m, n \in Nat : m < n => <<m, n>> \in R
    BY <1>2
  <1>4. IsWellFoundedOn(R, Nat)
    BY <1>3, Zenon
  <1>5. \E n \in T : \A m \in T : ~(<<m, n>> \in R)
    BY <1>4, WFMin, Zenon
  <1>6. PICK n \in T : \A m \in T : ~(<<m, n>> \in R)
    BY <1>5, Zenon
  <1>7. ASSUME NEW m \in T PROVE n <= m
    <2>1. n \in Nat /\ m \in Nat
      OBVIOUS
    <2>2. ~(m < n)
      BY <2>1, <1>3, <1>6, Zenon
    <2> QED
      BY <2>1, <2>2
  <1> QED
    BY <1>7, Zenon

\* Who is connected, now and after the step.
LEMMA ConnectedAre == \A d : d \in Subs!Connected <=> \E k \in 1 .. Len(sList) : sList[k] = d
BY SMT DEF Subs!Connected, Subs!ToSet

\* The same after the step.
LEMMA ConnectedThen == \A d : d \in Subs!Connected' <=> \E k \in 1 .. Len(sList') : sList'[k] = d
<1>1. Subs!Connected' = {sList'[k] : k \in DOMAIN sList'}
  BY DEF Subs!Connected, Subs!ToSet
<1> QED
  BY <1>1, SMT

\* tcp_accept_cb puts the new connection in front of the list.
LEMMA AcceptList ==
    ASSUME SubListInv, NEW c \in SClients, c \notin Subs!Connected, sList' = <<c>> \o sList
    PROVE  SubListInv' /\ Subs!Connected' = Subs!Connected \cup {c}
<1>m. /\ \A d : d \in Subs!Connected <=> \E k \in 1 .. Len(sList) : sList[k] = d
      /\ \A d : d \in Subs!Connected' <=> \E k \in 1 .. Len(sList') : sList'[k] = d
  BY ConnectedAre, ConnectedThen
<1>1. /\ sList \in Seq(SClients) /\ Len(sList) \in Nat
      /\ \A i, j \in 1 .. Len(sList) : sList[i] = sList[j] => i = j
  BY DEF SubListInv
<1>2. /\ sList' \in Seq(SClients) /\ Len(sList) \in Nat
      /\ Len(sList') = Len(sList) + 1 /\ sList'[1] = c
      /\ \A i \in 1 .. Len(sList) : sList'[i + 1] = sList[i]
      /\ \A i \in 2 .. Len(sList') : sList'[i] = sList[i - 1]
  BY <1>1
<1>3. Subs!Connected' = Subs!Connected \cup {c}
  <2>1. ASSUME NEW d, d \in Subs!Connected' PROVE d \in Subs!Connected \cup {c}
    <3>1. PICK k \in 1 .. Len(sList') : sList'[k] = d
      BY <2>1, <1>m
    <3>2. CASE k = 1
      BY <3>1, <3>2, <1>2
    <3>3. CASE k # 1
      <4>1. k - 1 \in 1 .. Len(sList) /\ sList[k - 1] = d
        BY <3>1, <3>3, <1>2
      <4> QED
        BY <4>1, <1>m
    <3> QED
      BY <3>2, <3>3
  <2>2. ASSUME NEW d, d \in Subs!Connected PROVE d \in Subs!Connected'
    <3>1. PICK k \in 1 .. Len(sList) : sList[k] = d
      BY <2>2, <1>m
    <3>2. k + 1 \in 1 .. Len(sList') /\ sList'[k + 1] = d
      BY <3>1, <1>2
    <3> QED
      BY <3>2, <1>m
  <2>3. c \in Subs!Connected'
    <3>1. 1 \in 1 .. Len(sList') /\ sList'[1] = c
      BY <1>2
    <3> QED
      BY <3>1, <1>m
  <2> QED
    BY <2>1, <2>2, <2>3
<1>4. \A i, j \in 1 .. Len(sList') : sList'[i] = sList'[j] => i = j
  <2> SUFFICES ASSUME NEW i \in 1 .. Len(sList'), NEW j \in 1 .. Len(sList'), sList'[i] = sList'[j]
               PROVE  i = j
    OBVIOUS
  <2>1. \A k \in 1 .. Len(sList) : sList[k] # c
    BY <1>1, <1>m
  <2>2. \A k \in 1 .. Len(sList') : k # 1 => k - 1 \in 1 .. Len(sList) /\ sList'[k] = sList[k - 1]
    BY <1>2
  <2>3. CASE i = 1
    BY <2>1, <2>2, <2>3, <1>2
  <2>4. CASE j = 1
    BY <2>1, <2>2, <2>4, <1>2
  <2>5. CASE i # 1 /\ j # 1
    <3>1. i - 1 = j - 1
      BY <2>2, <2>5, <1>1, ZenonT(30)
    <3> QED
      BY <3>1
  <2> QED
    BY <2>3, <2>4, <2>5
<1> QED
  BY <1>2, <1>3, <1>4 DEF SubListInv

\* tcp_free takes the connection off the list.
LEMMA FreeList ==
    ASSUME SubListInv, NEW c \in SClients, \E k \in 1 .. Len(sList) : sList[k] = c /\ sList' = Subs!RemoveAt(sList, k)
    PROVE  SubListInv' /\ Subs!Connected' = Subs!Connected \ {c} /\ c \in Subs!Connected
<1>m. /\ \A d : d \in Subs!Connected <=> \E k \in 1 .. Len(sList) : sList[k] = d
      /\ \A d : d \in Subs!Connected' <=> \E k \in 1 .. Len(sList') : sList'[k] = d
  BY ConnectedAre, ConnectedThen
<1>1. /\ sList \in Seq(SClients) /\ Len(sList) \in Nat
      /\ \A i, j \in 1 .. Len(sList) : sList[i] = sList[j] => i = j
  BY DEF SubListInv
<1>2. PICK k \in 1 .. Len(sList) : sList[k] = c /\ sList' = Subs!RemoveAt(sList, k)
  OBVIOUS
<1> DEFINE front == SubSeq(sList, 1, k - 1)
           back  == SubSeq(sList, k + 1, Len(sList))
<1>3. sList' = front \o back
  BY <1>2 DEF Subs!RemoveAt
<1>4. /\ front \in Seq(SClients) /\ Len(front) = k - 1
      /\ \A i \in 1 .. k - 1 : front[i] = sList[i]
  BY <1>1
<1>5. /\ back \in Seq(SClients) /\ Len(back) = Len(sList) - k
      /\ \A i \in 1 .. Len(sList) - k : back[i] = sList[k + i]
  BY <1>1
<1> HIDE DEF front, back
<1>6. sList' \in Seq(SClients) /\ Len(sList') = Len(sList) - 1
  BY <1>1, <1>3, <1>4, <1>5, SMTT(30)
<1> DEFINE Old(i) == IF i < k THEN i ELSE i + 1
<1>7. ASSUME NEW i \in 1 .. Len(sList')
      PROVE  Old(i) \in 1 .. Len(sList) /\ Old(i) # k /\ sList'[i] = sList[Old(i)]
  <2>1. CASE i < k
    BY <1>3, <1>4, <1>5, <1>6, <1>1, <2>1, SMTT(30)
  <2>2. CASE ~(i < k)
    <3>1. i - (k - 1) \in 1 .. Len(sList) - k /\ sList'[i] = back[i - (k - 1)]
      BY <1>1, <1>3, <1>4, <1>5, <1>6, <2>2
    <3>2. k + (i - (k - 1)) = i + 1 /\ i + 1 \in 1 .. Len(sList) /\ i + 1 # k /\ Old(i) = i + 1
      BY <1>1, <1>6, <2>2
    <3>3. back[i - (k - 1)] = sList[k + (i - (k - 1))]
      BY <3>1, <1>5
    <3>4. sList'[i] = sList[i + 1]
      BY <3>1, <3>2, <3>3
    <3> HIDE DEF Old
    <3> QED
      BY <3>2, <3>4
  <2> QED
    BY <2>1, <2>2
<1>8. ASSUME NEW j \in 1 .. Len(sList), j # k PROVE \E i \in 1 .. Len(sList') : sList'[i] = sList[j]
  <2>1. CASE j < k
    <3>1. j \in 1 .. Len(sList') /\ Old(j) = j
      BY <2>1, <1>1, <1>6
    <3> QED
      BY <3>1, <1>7
  <2>2. CASE ~(j < k)
    <3>1. j - 1 \in 1 .. Len(sList') /\ Old(j - 1) = j
      BY <2>2, <1>8, <1>1, <1>6
    <3>2. sList'[j - 1] = sList[Old(j - 1)]
      BY <3>1, <1>7
    <3> HIDE DEF Old
    <3>3. sList'[j - 1] = sList[j]
      BY <3>1, <3>2
    <3> QED
      BY <3>1, <3>3
  <2> QED
    BY <2>1, <2>2
<1>9. Subs!Connected' = Subs!Connected \ {c}
  <2>1. ASSUME NEW d, d \in Subs!Connected' PROVE d \in Subs!Connected \ {c}
    <3>1. PICK i \in 1 .. Len(sList') : sList'[i] = d
      BY <2>1, <1>m
    <3>2. Old(i) \in 1 .. Len(sList) /\ Old(i) # k /\ sList[Old(i)] = d
      BY <3>1, <1>7
    <3> HIDE DEF Old
    <3>3. d # c
      BY <3>2, <1>1, <1>2
    <3> QED
      BY <3>2, <3>3, <1>m
  <2>2. ASSUME NEW d, d \in Subs!Connected, d # c PROVE d \in Subs!Connected'
    <3>1. PICK j \in 1 .. Len(sList) : sList[j] = d
      BY <2>2, <1>m
    <3>2. j # k
      BY <3>1, <2>2, <1>2
    <3>3. \E i \in 1 .. Len(sList') : sList'[i] = d
      BY <3>1, <3>2, <1>8
    <3> QED
      BY <3>3, <1>m
  <2> QED
    BY <2>1, <2>2
<1>10. \A i, j \in 1 .. Len(sList') : sList'[i] = sList'[j] => i = j
  <2> SUFFICES ASSUME NEW i \in 1 .. Len(sList'), NEW j \in 1 .. Len(sList'), sList'[i] = sList'[j]
               PROVE  i = j
    OBVIOUS
  <2>1. Old(i) = Old(j)
    BY <1>1, <1>7
  <2> QED
    BY <2>1
<1> QED
  BY <1>2, <1>6, <1>9, <1>10, <1>m DEF SubListInv

\* tcp_find_prio_client finds a connection of the other priority of the same host, and
\* the one there is in a pair.
LEMMA OtherFacts ==
    ASSUME SubListInv, SubTableInv, NEW c \in SClients
    PROVE  /\ \A d \in Subs!Other(c) : d \in Subs!Of(sHost[c]) /\ sPrio[d] = 1 - sPrio[c]
           /\ \A d : (Subs!Of(sHost[c]) = {c, d} /\ sPrio[d] = 1 - sPrio[c]) => Subs!Other(c) = {d}
  <1>1. Len(sList) \in Nat /\ \A d : d \in Subs!Connected <=> \E k \in 1 .. Len(sList) : sList[k] = d
    BY DEF SubListInv, Subs!Connected, Subs!ToSet
  <1>2. PICK all : all = {k \in 1 .. Len(sList) : sHost[sList[k]] = sHost[c] /\ sPrio[sList[k]] = 1 - sPrio[c]}
    OBVIOUS
  <1>3. PICK near : near = {k \in all : sList[k] \in c - 1 .. c + 1}
    OBVIOUS
  <1>4. PICK K : K = IF near # {} THEN near ELSE all
    OBVIOUS
  <1>5. Subs!Other(c) = Subs!First(K)
    BY <1>2, <1>3, <1>4 DEF Subs!Other
  <1>6. K \subseteq all /\ (all # {} => K # {})
    BY <1>3, <1>4
  <1>7. \A d : d \in Subs!First(K) <=> \E k \in K : (\A j \in K : k <= j) /\ d = sList[k]
    BY DEF Subs!First
  <1>8. \A k \in all : sList[k] \in Subs!Of(sHost[c]) /\ sPrio[sList[k]] = 1 - sPrio[c]
    BY <1>1, <1>2 DEF Subs!Of
  <1>9. \A d \in Subs!Other(c) : d \in Subs!Of(sHost[c]) /\ sPrio[d] = 1 - sPrio[c]
    BY <1>5, <1>6, <1>7, <1>8
  <1>10. ASSUME NEW d, Subs!Of(sHost[c]) = {c, d}, sPrio[d] = 1 - sPrio[c] PROVE Subs!Other(c) = {d}
    <2>1. sPrio[c] \in {0, 1} /\ d \in Subs!Of(sHost[c])
      BY <1>10 DEF SubTableInv
    <2>2. \A e \in Subs!Other(c) : e = d
      BY <1>9, <1>10, <2>1
    <2>3. PICK k \in 1 .. Len(sList) : sList[k] = d
      BY <1>1, <2>1 DEF Subs!Of
    <2>4. k \in all
      BY <1>2, <1>10, <2>1, <2>3 DEF Subs!Of
    <2>5. K # {} /\ K \subseteq Nat
      BY <1>1, <1>2, <1>6, <2>4
    <2>6. \E n \in K : \A m \in K : n <= m
      BY <2>5, LeastNumber
    <2>7. Subs!Other(c) # {}
      BY <1>5, <1>7, <2>6
    <2> QED
      BY <2>2, <2>7
  <1> QED
    BY <1>9, <1>10

\* A host to which nothing happens stays as it is.
LEMMA HostKept ==
    ASSUME NEW h, HostOK(h), Subs!Of(h)' = Subs!Of(h), sWant'[h] = sWant[h], h \in sShaken' <=> h \in sShaken,
           \A c \in Subs!Of(h) : sSubs'[c] = sSubs[c] /\ sPrio'[c] = sPrio[c]
    PROVE  HostOK(h)'
  <1>1. Silent(h) => Silent(h)'
    BY DEF Silent
  <1>2. Served(h) => Served(h)'
    BY DEF Served
  <1>3. Pair(h) => Pair(h)'
    BY DEF Pair
  <1> QED
    BY <1>1, <1>2, <1>3 DEF HostOK

\* The connections of host h change: it is shaken, or silent before and after.
LEMMA ShakeHolds ==
    ASSUME SubTableInv, NEW h \in SHosts, HostOK(h), Subs!Shake(h), sWant' = sWant, SPresent \subseteq SIds,
           Subs!Of(h)' # {}, \A c \in Subs!Of(h)' : (c \in Subs!Of(h) /\ sSubs'[c] = sSubs[c]) \/ sSubs'[c] = {}
    PROVE  HostOK(h)' /\ sShaken' \subseteq SHosts /\ \A g : g # h => (g \in sShaken' <=> g \in sShaken)
  <1>1. /\ sShaken' = IF \E c \in Subs!Of(h) : sSubs[c] # {} THEN sShaken \cup {h} ELSE sShaken
        /\ sShaken \subseteq SHosts /\ sWant[h] \subseteq SIds
    BY DEF Subs!Shake, SubTableInv
  <1>2. CASE h \in sShaken'
    BY <1>1, <1>2 DEF HostOK
  <1>3. CASE h \notin sShaken'
    <2>1. h \notin sShaken /\ \A c \in Subs!Of(h) : sSubs[c] = {}
      BY <1>1, <1>3
    <2>2. sWant[h] = {}
      <3>1. CASE Subs!Of(h) = {}
        BY <3>1 DEF HostOK
      <3>2. CASE Subs!Of(h) # {}
        <4>1. Silent(h) \/ Served(h)
          BY <2>1 DEF HostOK
        <4> QED
          <5>1. PICK c : c \in Subs!Of(h)
            BY <3>2
          <5>2. sSubs[c] = {}
            BY <2>1, <5>1
          <5>3. Served(h) => \A id \in SIds : id \notin sWant[h]
            BY <5>1, <5>2 DEF Served
          <5> QED
            BY <4>1, <5>3, <1>1 DEF Silent
      <3> QED
        BY <3>1, <3>2
    <2>3. Silent(h)'
      BY <2>1, <2>2 DEF Silent
    <2> QED
      BY <1>1, <1>3, <2>2, <2>3 DEF HostOK
  <1> QED
    BY <1>1, <1>2, <1>3
\* Who has connections of host h, now and after the step.
LEMMA OfAre == /\ \A h, d : d \in Subs!Of(h) <=> d \in Subs!Connected /\ sHost[d] = h
               /\ \A h, d : d \in Subs!Of(h)' <=> d \in Subs!Connected' /\ sHost'[d] = h
BY DEF Subs!Of

\* Only clients are connected.
LEMMA ConnectedIn == SubListInv => Subs!Connected \subseteq SClients
<1> SUFFICES ASSUME SubListInv, NEW d \in Subs!Connected PROVE d \in SClients
  OBVIOUS
<1>1. PICK k \in 1 .. Len(sList) : sList[k] = d
  BY ConnectedAre
<1> QED
  BY <1>1 DEF SubListInv

\* The connections of a host with a pair are the one it has sent a command on and the
\* one tcp_find_prio_client finds.
LEMMA PairOther ==
    ASSUME SubListInv, SubTableInv, NEW c \in Subs!Connected, Pair(sHost[c])
    PROVE  \A d \in Subs!Of(sHost[c]) : d = c \/ d \in Subs!Other(c)
  <1>1. PICK x, y \in SClients : Subs!Of(sHost[c]) = {x, y} /\ sPrio[x] = 0 /\ sPrio[y] = 1
    BY DEF Pair
  <1>2. c \in SClients /\ c \in Subs!Of(sHost[c])
    BY ConnectedIn, OfAre
  <1>3. CASE c = x
    <2>1. Subs!Of(sHost[c]) = {c, y} /\ sPrio[y] = 1 - sPrio[c]
      BY <1>1, <1>3
    <2>2. Subs!Other(c) = {y}
      BY <1>2, <2>1, OtherFacts, Zenon
    <2> QED
      BY <2>1, <2>2
  <1>4. CASE c = y
    <2>1. Subs!Of(sHost[c]) = {c, x} /\ sPrio[x] = 1 - sPrio[c]
      BY <1>1, <1>4
    <2>2. Subs!Other(c) = {x}
      BY <1>2, <2>1, OtherFacts, Zenon
    <2> QED
      BY <2>1, <2>2
  <1> QED
    BY <1>1, <1>2, <1>3, <1>4

\* Sub and Unsub leave the tables of the other hosts and of whoever is not connected.
LEMMA OnlyOwnHost ==
    ASSUME SubListInv, SubTableInv, NEW c \in Subs!Connected, NEW d \in SClients, d = c \/ d \in Subs!Other(c)
    PROVE  d \in Subs!Of(sHost[c])
  <1>1. c \in SClients /\ c \in Subs!Of(sHost[c])
    BY ConnectedIn, OfAre
  <1> QED
    BY <1>1, OtherFacts

\* The tables are empty when the server starts.
LEMMA SubsInitHolds ==
    ASSUME Subs!SubAssumption, Subs!Init
    PROVE  SubsInv
  <1>1. /\ sList = <<>> /\ sPrio = [c \in SClients |-> 0] /\ sSubs = [c \in SClients |-> {}]
        /\ sProbes = [c \in SClients |-> 0] /\ sDown = [c \in SClients |-> 0] /\ sLink = TRUE
        /\ sWant = [h \in SHosts |-> {}] /\ sShaken = {} /\ sCmds = 0
        /\ SMaxCmd \in Nat /\ SMaxProbes \in Nat
    BY DEF Subs!Init, Subs!SubAssumption
  <1>2. sHost \in [SClients -> SHosts]
    BY DEF Subs!Init, Subs!SubAssumption
  <1>3. Subs!Connected = {}
    BY <1>1, ConnectedAre
  <1>4. SubListInv
    BY <1>1, <1>3 DEF SubListInv
  <1>5. SubTableInv
    BY <1>1, <1>2 DEF SubTableInv
  <1>6. \A h \in SHosts : HostOK(h)
    BY <1>1, <1>3, OfAre DEF HostOK, Silent
  <1> QED
    BY <1>4, <1>5, <1>6 DEF SubsInv

\* tcp_accept_cb keeps the tables in step.
LEMMA AcceptHolds ==
    ASSUME Subs!SubAssumption, SubsInv, NEW c \in SClients, NEW h \in SHosts, Subs!Accept(c, h)
    PROVE  SubsInv'
  <1>1. SubListInv /\ SubTableInv /\ \A g \in SHosts : HostOK(g)
    BY DEF SubsInv
  <1>2. /\ c \notin Subs!Connected /\ sList' = <<c>> \o sList /\ Subs!Shake(h)
        /\ sHost' = [sHost EXCEPT ![c] = h]
        /\ sPrio' = sPrio /\ sSubs' = sSubs /\ sWant' = sWant
        /\ sProbes' = sProbes /\ sDown' = sDown /\ sLink' = sLink /\ sCmds' = sCmds /\ SPresent \subseteq SIds
    BY DEF Subs!Accept, Subs!net, Subs!SubAssumption
  <1>3. SubListInv' /\ Subs!Connected' = Subs!Connected \cup {c}
    BY <1>1, <1>2, AcceptList
  <1>4. \A d \in Subs!Connected : d \in SClients /\ d # c
    BY <1>1, <1>2, ConnectedIn
  <1>5. sHost' \in [SClients -> SHosts] /\ sHost'[c] = h /\ \A d \in Subs!Connected : sHost'[d] = sHost[d]
    BY <1>1, <1>2, <1>4 DEF SubTableInv
  <1>6. /\ \A d : d \in Subs!Of(h)' <=> d \in Subs!Of(h) \/ d = c
        /\ \A g : g # h => Subs!Of(g)' = Subs!Of(g)
    BY <1>3, <1>4, <1>5, OfAre
  <1>7. sSubs[c] = {}
    BY <1>1, <1>2 DEF SubTableInv
  <1>8. HostOK(h)' /\ sShaken' \subseteq SHosts /\ \A g : g # h => (g \in sShaken' <=> g \in sShaken)
    <2>1. Subs!Of(h)' # {} /\ \A d \in Subs!Of(h)' : (d \in Subs!Of(h) /\ sSubs'[d] = sSubs[d]) \/ sSubs'[d] = {}
      BY <1>2, <1>6, <1>7
    <2> QED
      BY <1>1, <1>2, <2>1, ShakeHolds, Zenon
  <1>9. ASSUME NEW g \in SHosts, g # h PROVE HostOK(g)'
    <2>1. /\ Subs!Of(g)' = Subs!Of(g) /\ sWant'[g] = sWant[g] /\ (g \in sShaken' <=> g \in sShaken)
          /\ \A d \in Subs!Of(g) : sSubs'[d] = sSubs[d] /\ sPrio'[d] = sPrio[d]
      BY <1>2, <1>6, <1>8, <1>9
    <2> QED
      BY <1>1, <2>1, HostKept, Zenon
  <1>10. SubTableInv'
    BY <1>1, <1>2, <1>3, <1>5, <1>8 DEF SubTableInv
  <1> QED
    BY <1>3, <1>8, <1>9, <1>10 DEF SubsInv

\* tcp_free keeps the tables in step: the host loses a connection, and with its last
\* one everything that was kept of it.
LEMMA FreeHolds ==
    ASSUME Subs!SubAssumption, SubsInv, NEW c \in SClients, Subs!Free(c), sLink' = sLink, sCmds' = sCmds
    PROVE  SubsInv'
  <1>1. SubListInv /\ SubTableInv /\ \A g \in SHosts : HostOK(g)
    BY DEF SubsInv
  <1>h. PICK h : h = sHost[c]
    OBVIOUS
  <1>2. /\ \E k \in 1 .. Len(sList) : sList[k] = c /\ sList' = Subs!RemoveAt(sList, k)
        /\ sPrio' = [sPrio EXCEPT ![c] = 0] /\ sSubs' = [sSubs EXCEPT ![c] = {}]
        /\ sProbes' = [sProbes EXCEPT ![c] = 0] /\ sDown' = [sDown EXCEPT ![c] = 0]
        /\ sHost' = [sHost EXCEPT ![c] = CHOOSE x \in SHosts : TRUE]
        /\ SPresent \subseteq SIds /\ SHosts # {}
    BY DEF Subs!Free, Subs!SubAssumption
  <1>3. \/ Subs!Of(h) = {c} /\ sWant' = [sWant EXCEPT ![h] = {}] /\ sShaken' = sShaken \ {h}
        \/ Subs!Of(h) # {c} /\ Subs!Shake(h) /\ sWant' = sWant
    BY <1>h DEF Subs!Free
  <1>4. SubListInv' /\ Subs!Connected' = Subs!Connected \ {c} /\ c \in Subs!Connected
    BY <1>1, <1>2, FreeList
  <1>5. Subs!Connected \subseteq SClients
    BY <1>1, ConnectedIn
  <1>6. /\ sHost' \in [SClients -> SHosts] /\ sPrio' \in [SClients -> {0, 1}]
        /\ sSubs' \in [SClients -> SUBSET (SPresent \X {0, 1})] /\ sSubs'[c] = {} /\ h \in SHosts
        /\ \A d \in SClients : d # c => sHost'[d] = sHost[d] /\ sPrio'[d] = sPrio[d] /\ sSubs'[d] = sSubs[d]
    BY <1>1, <1>2, <1>h DEF SubTableInv
  <1>7. sProbes' \in [SClients -> 0 .. SMaxProbes] /\ sDown' = sProbes'
    BY <1>1, <1>2 DEF SubTableInv, Subs!SubAssumption
  <1>8. /\ \A d : d \in Subs!Of(h)' <=> d \in Subs!Of(h) /\ d # c
        /\ \A g : g # h => Subs!Of(g)' = Subs!Of(g)
    <2>1. \A d : d \in Subs!Connected' <=> d \in Subs!Connected /\ d # c
      BY <1>4
    <2>2. \A d \in Subs!Connected : d # c => sHost'[d] = sHost[d]
      BY <1>5, <1>6
    <2>3. \A g, d : d \in Subs!Of(g)' <=> d \in Subs!Of(g) /\ d # c
      BY <2>1, <2>2, OfAre
    <2>4. \A g : g # h => c \notin Subs!Of(g)
      BY <1>h, OfAre
    <2>5. \A g : g # h => Subs!Of(g)' = Subs!Of(g)
      BY <2>3, <2>4
    <2> QED
      BY <2>3, <2>5
  <1>9. /\ HostOK(h)' /\ sShaken' \subseteq SHosts /\ sWant' \in [SHosts -> SUBSET SPresent]
        /\ \A g \in SHosts : g # h => (g \in sShaken' <=> g \in sShaken) /\ sWant'[g] = sWant[g]
    <2>1. CASE Subs!Of(h) = {c}
      <3>1. sWant' = [sWant EXCEPT ![h] = {}] /\ sShaken' = sShaken \ {h}
        BY <1>3, <2>1
      <3>2. Subs!Of(h)' = {}
        BY <1>8, <2>1
      <3>3. sWant'[h] = {} /\ h \notin sShaken'
        BY <3>1, <1>1, <1>6 DEF SubTableInv
      <3>4. HostOK(h)'
        BY <3>2, <3>3 DEF HostOK, Silent
      <3>5. /\ sShaken' \subseteq SHosts /\ sWant' \in [SHosts -> SUBSET SPresent]
            /\ \A g \in SHosts : g # h => (g \in sShaken' <=> g \in sShaken) /\ sWant'[g] = sWant[g]
        BY <3>1, <1>1, <1>6 DEF SubTableInv
      <3> QED
        BY <3>4, <3>5
    <2>2. CASE Subs!Of(h) # {c}
      <3>1. Subs!Shake(h) /\ sWant' = sWant
        BY <1>3, <2>2
      <3>2. c \in Subs!Of(h)
        BY <1>4, <1>h, OfAre
      <3>3. Subs!Of(h)' # {}
        BY <1>8, <2>2, <3>2
      <3>4. \A d \in Subs!Of(h)' : (d \in Subs!Of(h) /\ sSubs'[d] = sSubs[d]) \/ sSubs'[d] = {}
        BY <1>5, <1>6, <1>8, OfAre
      <3>5. HostOK(h)' /\ sShaken' \subseteq SHosts /\ \A g : g # h => (g \in sShaken' <=> g \in sShaken)
        BY <1>1, <1>2, <1>6, <3>1, <3>3, <3>4, ShakeHolds, Zenon
      <3> QED
        BY <3>1, <3>5, <1>1 DEF SubTableInv
    <2> QED
      BY <2>1, <2>2
  <1>10. ASSUME NEW g \in SHosts, g # h PROVE HostOK(g)'
    <2>1. \A d \in Subs!Of(g) : d \in SClients /\ d # c
      BY <1>5, <1>10, <1>h, OfAre
    <2>2. /\ Subs!Of(g)' = Subs!Of(g) /\ sWant'[g] = sWant[g] /\ (g \in sShaken' <=> g \in sShaken)
          /\ \A d \in Subs!Of(g) : sSubs'[d] = sSubs[d] /\ sPrio'[d] = sPrio[d]
      BY <1>6, <1>8, <1>9, <1>10, <2>1
    <2> QED
      BY <1>1, <2>2, HostKept, Zenon
  <1>11. \A d \in SClients \ Subs!Connected' : sSubs'[d] = {}
    BY <1>1, <1>4, <1>6 DEF SubTableInv
  <1>12. sLink' \in BOOLEAN /\ sCmds' \in 0 .. SMaxCmd
    BY <1>1 DEF SubTableInv
  <1>13. SubTableInv'
    BY <1>6, <1>7, <1>9, <1>11, <1>12 DEF SubTableInv
  <1> QED
    BY <1>4, <1>9, <1>10, <1>13 DEF SubsInv
\* CCT_REGISTER keeps the tables in step.
LEMMA RegisterHolds ==
    ASSUME Subs!SubAssumption, SubsInv, NEW c \in SClients, NEW p \in {0, 1}, Subs!Register(c, p)
    PROVE  SubsInv'
  <1>1. SubListInv /\ SubTableInv /\ \A g \in SHosts : HostOK(g)
    BY DEF SubsInv
  <1>2. /\ c \in Subs!Connected /\ sCmds < SMaxCmd /\ sCmds' = sCmds + 1
        /\ sPrio' = [sPrio EXCEPT ![c] = p]
        /\ sList' = sList /\ sHost' = sHost /\ sSubs' = sSubs /\ sWant' = sWant
        /\ sProbes' = sProbes /\ sDown' = sDown /\ sLink' = sLink /\ SPresent \subseteq SIds /\ SMaxCmd \in Nat
    BY DEF Subs!Register, Subs!net, Subs!SubAssumption
  <1>h. PICK h \in SHosts : h = sHost[c]
    BY <1>1 DEF SubTableInv
  <1>3. \/ p # sPrio[c] /\ Subs!Shake(h)
        \/ p = sPrio[c] /\ sShaken' = sShaken
    BY <1>h DEF Subs!Register
  <1>4. /\ Subs!Connected' = Subs!Connected /\ Subs!Connected \subseteq SClients /\ SubListInv'
        /\ \A g : Subs!Of(g)' = Subs!Of(g)
    BY <1>1, <1>2, ConnectedIn DEF SubListInv, Subs!Connected, Subs!Of
  <1>5. sPrio' \in [SClients -> {0, 1}] /\ \A d \in SClients : d # c \/ p = sPrio[c] => sPrio'[d] = sPrio[d]
    BY <1>1, <1>2 DEF SubTableInv
  <1>6. sShaken' \subseteq SHosts /\ \A g \in SHosts : HostOK(g)'
    <2>1. CASE p # sPrio[c]
      <3>1. Subs!Shake(h)
        BY <1>3, <2>1
      <3>2. Subs!Of(h)' # {} /\ \A d \in Subs!Of(h)' : (d \in Subs!Of(h) /\ sSubs'[d] = sSubs[d]) \/ sSubs'[d] = {}
        BY <1>2, <1>4, <1>h, OfAre
      <3>3. HostOK(h)' /\ sShaken' \subseteq SHosts /\ \A g : g # h => (g \in sShaken' <=> g \in sShaken)
        BY <1>1, <1>2, <3>1, <3>2, ShakeHolds, Zenon
      <3>4. ASSUME NEW g \in SHosts, g # h PROVE HostOK(g)'
        <4>1. \A d \in Subs!Of(g) : d \in SClients /\ d # c
          BY <1>4, <3>4, <1>h, OfAre
        <4>2. \A d \in Subs!Of(g) : sSubs'[d] = sSubs[d] /\ sPrio'[d] = sPrio[d]
          BY <4>1, <1>2, <1>5
        <4> QED
          BY <1>1, <1>2, <1>4, <3>3, <3>4, <4>2, HostKept, Zenon
      <3> QED
        BY <3>3, <3>4
    <2>2. CASE p = sPrio[c]
      <3>1. sShaken' = sShaken
        BY <1>3, <2>2
      <3>2. \A d \in Subs!Connected : sPrio'[d] = sPrio[d]
        BY <1>4, <1>5, <2>2
      <3>3. ASSUME NEW g \in SHosts PROVE HostOK(g)'
        <4>1. \A d \in Subs!Of(g) : sSubs'[d] = sSubs[d] /\ sPrio'[d] = sPrio[d]
          BY <1>2, <3>2, OfAre
        <4> QED
          BY <1>1, <1>2, <1>4, <3>1, <4>1, HostKept, Zenon
      <3> QED
        BY <1>1, <3>1, <3>3 DEF SubTableInv
    <2> QED
      BY <2>1, <2>2
  <1>7. sCmds' \in 0 .. SMaxCmd
    BY <1>1, <1>2 DEF SubTableInv
  <1>8. SubTableInv'
    BY <1>1, <1>2, <1>4, <1>5, <1>6, <1>7 DEF SubTableInv
  <1> QED
    BY <1>4, <1>6, <1>8 DEF SubsInv

\* A host that has one connection of each priority has a pair.
LEMMA OnePerPrio ==
    ASSUME SubListInv, SubTableInv, NEW h, Subs!HasPair(h)
    PROVE  Pair(h)
  <1>1. Subs!Of(h) \subseteq Subs!Connected /\ Subs!Connected \subseteq SClients
    BY OfAre, ConnectedIn
  <1>2. \A p \in {0, 1} : \E x \in Subs!Of(h) : {d \in Subs!Of(h) : sPrio[d] = p} = {x}
    BY Zenon DEF Subs!HasPair, Subs!Levels
  <1>3. PICK x : {d \in Subs!Of(h) : sPrio[d] = 0} = {x}
    BY <1>2
  <1>4. PICK y : {d \in Subs!Of(h) : sPrio[d] = 1} = {y}
    BY <1>2
  <1>5. x \in Subs!Of(h) /\ sPrio[x] = 0 /\ y \in Subs!Of(h) /\ sPrio[y] = 1
    BY <1>3, <1>4
  <1>6. \A d \in Subs!Of(h) : sPrio[d] = 0 \/ sPrio[d] = 1
    BY <1>1 DEF SubTableInv
  <1>7. Subs!Of(h) = {x, y}
    BY <1>3, <1>4, <1>5, <1>6
  <1> QED
    BY <1>1, <1>5, <1>7 DEF Pair

\* CCT_DATA_SUB keeps the tables in step.
LEMMA SubHolds ==
    ASSUME Subs!SubAssumption, SubsInv, NEW c \in SClients, NEW id \in SIds, Subs!Sub(c, id)
    PROVE  SubsInv'
  <1>1. SubListInv /\ SubTableInv /\ \A g \in SHosts : HostOK(g)
    BY DEF SubsInv
  <1>2. /\ c \in Subs!Connected /\ sCmds < SMaxCmd /\ sCmds' = sCmds + 1
        /\ sList' = sList /\ sHost' = sHost /\ sPrio' = sPrio
        /\ sProbes' = sProbes /\ sDown' = sDown /\ sLink' = sLink /\ SMaxCmd \in Nat
    BY DEF Subs!Sub, Subs!net, Subs!SubAssumption
  <1>h. PICK h \in SHosts : h = sHost[c]
    BY <1>1 DEF SubTableInv
  <1>3. /\ Subs!Connected' = Subs!Connected /\ Subs!Connected \subseteq SClients /\ SubListInv'
        /\ \A g : Subs!Of(g)' = Subs!Of(g)
    BY <1>1, <1>2, ConnectedIn DEF SubListInv, Subs!Connected, Subs!Of
  <1>4. sCmds' \in 0 .. SMaxCmd
    BY <1>1, <1>2 DEF SubTableInv
  <1>5. CASE id \notin SPresent
    <2>1. sSubs' = sSubs /\ sWant' = sWant /\ sShaken' = sShaken
      BY <1>5 DEF Subs!Sub
    <2>2. \A g \in SHosts : HostOK(g)'
      BY <1>1, <1>2, <1>3, <2>1, HostKept
    <2>3. SubTableInv'
      BY <1>1, <1>2, <1>3, <1>4, <2>1 DEF SubTableInv
    <2> QED
      BY <1>3, <2>2, <2>3 DEF SubsInv
  <1>6. CASE id \in SPresent
    <2>1. /\ sSubs' = [d \in SClients |-> IF d = c \/ d \in Subs!Other(c)
                                            THEN sSubs[d] \cup {<<id, sPrio[d]>>} ELSE sSubs[d]]
          /\ sWant' = [sWant EXCEPT ![h] = @ \cup {id}]
          /\ sShaken' = IF Subs!HasPair(h) THEN sShaken ELSE sShaken \cup {h}
      BY <1>6, <1>h DEF Subs!Sub, Subs!Key
    <2>2. \A d \in SClients : d = c \/ d \in Subs!Other(c) => d \in Subs!Of(h)
      BY <1>1, <1>2, <1>h, OnlyOwnHost
    <2>3. /\ \A d \in SClients : d \notin Subs!Of(h) => sSubs'[d] = sSubs[d]
          /\ \A d \in SClients : d = c \/ d \in Subs!Other(c) => sSubs'[d] = sSubs[d] \cup {<<id, sPrio[d]>>}
      BY <2>1, <2>2
    <2>4. sSubs' \in [SClients -> SUBSET (SPresent \X {0, 1})]
      <3>1. \A d \in SClients : sPrio[d] \in {0, 1} /\ sSubs[d] \in SUBSET (SPresent \X {0, 1})
        BY <1>1 DEF SubTableInv
      <3>2. \A d \in SClients : sSubs[d] \cup {<<id, sPrio[d]>>} \in SUBSET (SPresent \X {0, 1})
        BY <3>1, <1>6
      <3> QED
        BY <2>1, <3>1, <3>2
    <2>5. /\ sWant' \in [SHosts -> SUBSET SPresent] /\ sWant'[h] = sWant[h] \cup {id}
          /\ \A g \in SHosts : g # h => sWant'[g] = sWant[g]
          /\ sShaken' \subseteq SHosts /\ \A g : g # h => (g \in sShaken' <=> g \in sShaken)
      BY <1>1, <1>6, <2>1 DEF SubTableInv
    <2>6. \A d \in SClients \ Subs!Connected' : sSubs'[d] = {}
      BY <1>1, <1>3, <2>3, OfAre DEF SubTableInv
    <2>7. SubTableInv'
      BY <1>1, <1>2, <1>4, <2>4, <2>5, <2>6 DEF SubTableInv
    <2>8. ASSUME NEW g \in SHosts, g # h PROVE HostOK(g)'
      <3>1. \A d \in Subs!Of(g) : d \in SClients /\ d \notin Subs!Of(h)
        BY <1>3, <2>8, OfAre
      <3>2. \A d \in Subs!Of(g) : sSubs'[d] = sSubs[d] /\ sPrio'[d] = sPrio[d]
        BY <1>2, <2>3, <3>1
      <3> QED
        BY <1>1, <1>3, <2>5, <2>8, <3>2, HostKept, Zenon
    <2>9. HostOK(h)'
      <3>1. c \in Subs!Of(h) /\ Subs!Of(h)' # {}
        BY <1>2, <1>3, <1>h, OfAre
      <3>2. CASE h \in sShaken'
        BY <3>1, <3>2 DEF HostOK
      <3>3. CASE h \notin sShaken'
        <4>1. h \notin sShaken /\ Subs!HasPair(h)
          BY <2>1, <3>3
        <4>2. Pair(h)
          BY <1>1, <4>1, OnePerPrio
        <4>3. Served(h)
          <5>1. Silent(h) => Served(h)
            BY DEF Silent, Served
          <5> QED
            BY <1>1, <4>1, <5>1 DEF HostOK
        <4>4. \A d \in Subs!Of(h) : d \in SClients /\ (d = c \/ d \in Subs!Other(c))
          BY <1>1, <1>2, <1>3, <1>h, <4>2, PairOther, OfAre
        <4>5. ASSUME NEW d \in Subs!Of(h), NEW i \in SIds
              PROVE  <<i, sPrio'[d]>> \in sSubs'[d] <=> i \in sWant'[h]
          <5>1. sSubs'[d] = sSubs[d] \cup {<<id, sPrio[d]>>} /\ sPrio'[d] = sPrio[d]
            BY <1>2, <2>3, <4>4
          <5>2. <<i, sPrio[d]>> \in sSubs[d] <=> i \in sWant[h]
            BY <4>3 DEF Served
          <5>3. <<i, sPrio[d]>> = <<id, sPrio[d]>> <=> i = id
            OBVIOUS
          <5> QED
            BY <5>1, <5>2, <5>3, <2>5
        <4>6. Served(h)'
          BY <1>3, <4>5 DEF Served
        <4>7. Pair(h)'
          BY <1>2, <1>3, <4>2 DEF Pair
        <4> QED
          BY <3>1, <4>6, <4>7 DEF HostOK
      <3> QED
        BY <3>2, <3>3
    <2> QED
      BY <1>3, <2>7, <2>8, <2>9 DEF SubsInv
  <1> QED
    BY <1>5, <1>6

\* CCT_DATA_UNSUB keeps the tables in step.
LEMMA UnsubHolds ==
    ASSUME Subs!SubAssumption, SubsInv, NEW c \in SClients, NEW id \in SIds, Subs!Unsub(c, id)
    PROVE  SubsInv'
  <1>1. SubListInv /\ SubTableInv /\ \A g \in SHosts : HostOK(g)
    BY DEF SubsInv
  <1>2. /\ c \in Subs!Connected /\ sCmds < SMaxCmd /\ sCmds' = sCmds + 1
        /\ sList' = sList /\ sHost' = sHost /\ sPrio' = sPrio /\ sShaken' = sShaken
        /\ sProbes' = sProbes /\ sDown' = sDown /\ sLink' = sLink /\ SMaxCmd \in Nat
    BY DEF Subs!Unsub, Subs!net, Subs!SubAssumption
  <1>h. PICK h \in SHosts : h = sHost[c]
    BY <1>1 DEF SubTableInv
  <1>3. /\ Subs!Connected' = Subs!Connected /\ Subs!Connected \subseteq SClients /\ SubListInv'
        /\ \A g : Subs!Of(g)' = Subs!Of(g)
    BY <1>1, <1>2, ConnectedIn DEF SubListInv, Subs!Connected, Subs!Of
  <1>4. sCmds' \in 0 .. SMaxCmd
    BY <1>1, <1>2 DEF SubTableInv
  <1>5. /\ sSubs' = [d \in SClients |-> IF d = c \/ d \in Subs!Other(c)
                                          THEN sSubs[d] \ {<<id, sPrio[d]>>} ELSE sSubs[d]]
        /\ sWant' = [sWant EXCEPT ![h] = @ \ {id}]
    BY <1>h DEF Subs!Unsub, Subs!Key
  <1>6. \A d \in SClients : d = c \/ d \in Subs!Other(c) => d \in Subs!Of(h)
    BY <1>1, <1>2, <1>h, OnlyOwnHost
  <1>7. /\ \A d \in SClients : d \notin Subs!Of(h) => sSubs'[d] = sSubs[d]
        /\ \A d \in SClients : d = c \/ d \in Subs!Other(c) => sSubs'[d] = sSubs[d] \ {<<id, sPrio[d]>>}
        /\ \A d \in SClients : sSubs'[d] \subseteq sSubs[d]
    BY <1>5, <1>6
  <1>8. sSubs' \in [SClients -> SUBSET (SPresent \X {0, 1})]
    <2>1. \A d \in SClients : sSubs[d] \in SUBSET (SPresent \X {0, 1})
      BY <1>1 DEF SubTableInv
    <2>2. \A d \in SClients : sSubs[d] \ {<<id, sPrio[d]>>} \in SUBSET (SPresent \X {0, 1})
      BY <2>1
    <2> QED
      BY <1>5, <2>1, <2>2
  <1>9. /\ sWant' \in [SHosts -> SUBSET SPresent] /\ sWant'[h] = sWant[h] \ {id}
        /\ \A g \in SHosts : g # h => sWant'[g] = sWant[g]
    BY <1>1, <1>5 DEF SubTableInv
  <1>10. \A d \in SClients \ Subs!Connected' : sSubs'[d] = {}
    BY <1>1, <1>3, <1>7 DEF SubTableInv
  <1>11. SubTableInv'
    BY <1>1, <1>2, <1>4, <1>8, <1>9, <1>10 DEF SubTableInv
  <1>12. ASSUME NEW g \in SHosts, g # h PROVE HostOK(g)'
    <2>1. \A d \in Subs!Of(g) : d \in SClients /\ d \notin Subs!Of(h)
      BY <1>3, <1>12, OfAre
    <2>2. \A d \in Subs!Of(g) : sSubs'[d] = sSubs[d] /\ sPrio'[d] = sPrio[d]
      BY <1>2, <1>7, <2>1
    <2> QED
      BY <1>1, <1>2, <1>3, <1>9, <1>12, <2>2, HostKept, Zenon
  <1>13. HostOK(h)'
    <2>1. c \in Subs!Of(h) /\ Subs!Of(h)' # {}
      BY <1>2, <1>3, <1>h, OfAre
    <2>2. CASE h \in sShaken
      BY <1>2, <2>1, <2>2 DEF HostOK
    <2>3. CASE Silent(h)
      <3>1. sWant'[h] = {} /\ \A d \in Subs!Of(h) : d \in SClients /\ sSubs[d] = {}
        BY <1>3, <1>9, <2>3, OfAre DEF Silent
      <3>2. Silent(h)'
        BY <1>3, <1>7, <3>1 DEF Silent
      <3> QED
        BY <2>1, <3>2 DEF HostOK
    <2>4. CASE Pair(h) /\ Served(h)
      <3>1. \A d \in Subs!Of(h) : d \in SClients /\ (d = c \/ d \in Subs!Other(c))
        BY <1>1, <1>2, <1>3, <1>h, <2>4, PairOther, OfAre
      <3>2. ASSUME NEW d \in Subs!Of(h), NEW i \in SIds
            PROVE  <<i, sPrio'[d]>> \in sSubs'[d] <=> i \in sWant'[h]
        <4>1. sSubs'[d] = sSubs[d] \ {<<id, sPrio[d]>>} /\ sPrio'[d] = sPrio[d]
          BY <1>2, <1>7, <3>1
        <4>2. <<i, sPrio[d]>> \in sSubs[d] <=> i \in sWant[h]
          BY <2>4 DEF Served
        <4>3. <<i, sPrio[d]>> = <<id, sPrio[d]>> <=> i = id
          OBVIOUS
        <4> QED
          BY <4>1, <4>2, <4>3, <1>9
      <3>3. Served(h)'
        BY <1>3, <3>2 DEF Served
      <3>4. Pair(h)'
        BY <1>2, <1>3, <2>4 DEF Pair
      <3> QED
        BY <2>1, <3>3, <3>4 DEF HostOK
    <2> QED
      BY <1>1, <2>2, <2>3, <2>4 DEF HostOK
  <1> QED
    BY <1>3, <1>11, <1>12, <1>13 DEF SubsInv

\* A step of the timer or of the link leaves the tables alone; the counter it leaves is
\* the number of ticks since the last sign of life.
LEMMA ProbesHold ==
    ASSUME Subs!SubAssumption, SubsInv,
           sList' = sList, sHost' = sHost, sPrio' = sPrio, sSubs' = sSubs, sWant' = sWant, sShaken' = sShaken,
           sProbes' \in [SClients -> 0 .. SMaxProbes], sDown' = sProbes',
           sLink' \in BOOLEAN, sCmds' \in 0 .. SMaxCmd
    PROVE  SubsInv'
  <1>1. SubListInv /\ SubTableInv /\ \A g \in SHosts : HostOK(g)
    BY DEF SubsInv
  <1>2. Subs!Connected' = Subs!Connected /\ SubListInv' /\ \A g : Subs!Of(g)' = Subs!Of(g)
    BY <1>1 DEF SubListInv, Subs!Connected, Subs!Of
  <1>3. \A g \in SHosts : HostOK(g)'
    BY <1>1, <1>2, HostKept
  <1>4. SubTableInv'
    BY <1>1, <1>2 DEF SubTableInv
  <1> QED
    BY <1>2, <1>3, <1>4 DEF SubsInv

\* tcp_keepalive_cb keeps the counter exact and within its bound.
LEMMA KeepaliveHolds ==
    ASSUME Subs!SubAssumption, SubsInv, NEW c \in SClients, Subs!Keepalive(c)
    PROVE  SubsInv'
  <1>1. /\ SubTableInv /\ sProbes \in [SClients -> 0 .. SMaxProbes] /\ sDown = sProbes
        /\ sLink \in BOOLEAN /\ sCmds \in 0 .. SMaxCmd /\ SMaxProbes \in Nat
    BY DEF SubsInv, SubTableInv, Subs!SubAssumption
  <1>2. sLink' = sLink /\ sCmds' = sCmds
    BY DEF Subs!Keepalive
  <1>3. CASE ~sLink /\ sProbes[c] = SMaxProbes
    <2>1. Subs!Free(c)
      BY <1>3 DEF Subs!Keepalive
    <2> QED
      BY <1>2, <2>1, FreeHolds
  <1>4. CASE ~(~sLink /\ sProbes[c] = SMaxProbes)
    <2>1. /\ sProbes' = [sProbes EXCEPT ![c] = IF sLink THEN 0 ELSE @ + 1]
          /\ sDown' = [sDown EXCEPT ![c] = IF sLink THEN 0 ELSE @ + 1]
          /\ sList' = sList /\ sHost' = sHost /\ sPrio' = sPrio /\ sSubs' = sSubs /\ sWant' = sWant /\ sShaken' = sShaken
      BY <1>4 DEF Subs!Keepalive
    <2>2. (IF sLink THEN 0 ELSE sProbes[c] + 1) \in 0 .. SMaxProbes
      BY <1>1, <1>4
    <2>3. sProbes' \in [SClients -> 0 .. SMaxProbes] /\ sDown' = sProbes'
      BY <1>1, <2>1, <2>2
    <2> QED
      BY <1>1, <1>2, <2>1, <2>3, ProbesHold
  <1> QED
    BY <1>3, <1>4

\* Every step of the server keeps the tables in step.
LEMMA SubsStepHolds == Subs!SubAssumption /\ SubsInv /\ [Subs!Next]_(Subs!vars) => SubsInv'
<1> SUFFICES ASSUME Subs!SubAssumption, SubsInv, [Subs!Next]_(Subs!vars) PROVE SubsInv'
  OBVIOUS
<1>t. /\ sProbes \in [SClients -> 0 .. SMaxProbes] /\ sDown = sProbes
      /\ sLink \in BOOLEAN /\ sCmds \in 0 .. SMaxCmd /\ SMaxProbes \in Nat /\ SMaxCmd \in Nat
  BY DEF SubsInv, SubTableInv, Subs!SubAssumption
<1>1. CASE Subs!Link
  <2>1. /\ sLink' = ~sLink
        /\ sList' = sList /\ sHost' = sHost /\ sPrio' = sPrio /\ sSubs' = sSubs /\ sWant' = sWant
        /\ sShaken' = sShaken /\ sProbes' = sProbes /\ sDown' = sDown /\ sCmds' = sCmds
    BY <1>1 DEF Subs!Link
  <2> QED
    BY <1>t, <2>1, ProbesHold
<1>2. ASSUME NEW c \in SClients, NEW h \in SHosts, Subs!Accept(c, h) PROVE SubsInv'
  BY <1>2, AcceptHolds
<1>3. ASSUME NEW c \in SClients, NEW p \in Subs!Levels, Subs!Register(c, p) PROVE SubsInv'
  BY <1>3, RegisterHolds DEF Subs!Levels
<1>4. ASSUME NEW c \in SClients, NEW id \in SIds, Subs!Sub(c, id) PROVE SubsInv'
  BY <1>4, SubHolds
<1>5. ASSUME NEW c \in SClients, NEW id \in SIds, Subs!Unsub(c, id) PROVE SubsInv'
  BY <1>5, UnsubHolds
<1>6. ASSUME NEW c \in SClients, Subs!Closed(c) PROVE SubsInv'
  <2>1. Subs!Free(c) /\ sLink' = sLink /\ sCmds' = sCmds
    BY <1>6 DEF Subs!Closed
  <2> QED
    BY <2>1, FreeHolds
<1>7. ASSUME NEW c \in SClients, Subs!Heartbeat(c) PROVE SubsInv'
  <2>1. /\ sProbes' = [sProbes EXCEPT ![c] = 0] /\ sDown' = [sDown EXCEPT ![c] = 0]
        /\ sCmds < SMaxCmd /\ sCmds' = sCmds + 1 /\ sLink' = sLink
        /\ sList' = sList /\ sHost' = sHost /\ sPrio' = sPrio /\ sSubs' = sSubs /\ sWant' = sWant /\ sShaken' = sShaken
    BY <1>7 DEF Subs!Heartbeat
  <2>2. sProbes' \in [SClients -> 0 .. SMaxProbes] /\ sDown' = sProbes' /\ sCmds' \in 0 .. SMaxCmd
    BY <1>t, <2>1
  <2> QED
    BY <1>t, <2>1, <2>2, ProbesHold
<1>8. ASSUME NEW c \in SClients, Subs!Keepalive(c) PROVE SubsInv'
  BY <1>8, KeepaliveHolds
<1>9. CASE UNCHANGED Subs!vars
  <2>1. /\ sList' = sList /\ sHost' = sHost /\ sPrio' = sPrio /\ sSubs' = sSubs /\ sWant' = sWant
        /\ sShaken' = sShaken /\ sProbes' = sProbes /\ sDown' = sDown /\ sCmds' = sCmds /\ sLink' = sLink
    BY <1>9 DEF Subs!vars, Subs!net
  <2> QED
    BY <1>t, <2>1, ProbesHold
<1> QED
  BY <1>1, <1>2, <1>3, <1>4, <1>5, <1>6, <1>7, <1>8, <1>9, Zenon DEF Subs!Next

\* The tables of the connections stay in step with what their hosts have asked for,
\* whatever connects, registers, subscribes, is freed or times out, and in whatever
\* order: the inductive invariant.
THEOREM TablesStayInStep == (Subs!Spec => []SubsInv) /\ (MCSpec => []SubsInv)
<1>1. Subs!Init => SubsInv
  BY MCDataAssumption, SubsInitHolds
<1>2. SubsInv /\ [Subs!Next]_(Subs!vars) => SubsInv'
  BY MCDataAssumption, SubsStepHolds
<1>3. MCInit => Subs!Init
  BY DEF MCInit
<1>4. [MCNext]_mcVars => [Subs!Next]_(Subs!vars)
  BY DataParts
<1> QED
  BY <1>1, <1>2, <1>3, <1>4, PTL DEF Subs!Spec, MCSpec

\* A host with one connection of each priority gets on both exactly the streams it has
\* subscribed to (CCT_DATA_SUB, CCT_DATA_UNSUB, tcp_find_prio_client), no connection is
\* on the list twice, a table has keys of present cards only, and the keepalive counter
\* is the number of ticks since the last sign of life (tcp_keepalive_cb).
THEOREM BothConnectionsServed ==
    (Subs!Spec => [](Subs!SubsSound /\ Subs!ProbesExact)) /\ (MCSpec => []SubsSound)
<1>1. Subs!SubAssumption /\ SubsInv => Subs!SubsSound /\ Subs!ProbesExact
  <2> SUFFICES ASSUME Subs!SubAssumption, SubsInv PROVE Subs!TypeOK /\ Subs!Paired /\ Subs!ProbesExact
    BY DEF Subs!SubsSound
  <2>1. SubListInv /\ SubTableInv /\ (\A g \in SHosts : HostOK(g)) /\ SMaxProbes \in Nat
    BY DEF SubsInv, Subs!SubAssumption
  <2>2. Subs!IsInjective(sList)
    <3>1. DOMAIN sList = 1 .. Len(sList) /\ \A i, j \in 1 .. Len(sList) : sList[i] = sList[j] => i = j
      BY <2>1 DEF SubListInv
    <3> QED
      BY <3>1 DEF Subs!IsInjective
  <2>3. Subs!TypeOK
    BY <2>1, <2>2 DEF SubListInv, SubTableInv, Subs!TypeOK, Subs!Levels
  <2>4. Subs!Paired
    <3> SUFFICES ASSUME NEW h \in SHosts \ sShaken, NEW c \in Subs!Of(h), NEW id \in SIds
                 PROVE  <<id, sPrio[c]>> \in sSubs[c] <=> id \in sWant[h]
      BY DEF Subs!Paired, Subs!Reaches, Subs!Key
    <3>1. Silent(h) \/ Served(h)
      BY <2>1 DEF HostOK
    <3> QED
      BY <3>1 DEF Silent, Served
  <2>5. Subs!ProbesExact
    BY <2>1 DEF SubTableInv, Subs!ProbesExact
  <2> QED
    BY <2>3, <2>4, <2>5
<1>2. SubsInv => Subs!SubsSound /\ Subs!ProbesExact /\ SubsSound
  BY <1>1, MCDataAssumption DEF SubsSound
<1> QED
  BY <1>2, TablesStayInStep, PTL
-----------------------------------------------------------------------------
(* SendPackage: how a group of frames leaves the device.                     *)

\* Induction, over a set.
LEMMA ByNumbers ==
    ASSUME NEW n \in Nat, NEW T, 0 \in T, \A k \in 0 .. n - 1 : k \in T => k + 1 \in T
    PROVE  \A k \in 0 .. n : k \in T
<1> SUFFICES ASSUME {k \in 0 .. n : k \notin T} # {} PROVE FALSE
  OBVIOUS
<1> DEFINE S == {k \in 0 .. n : k \notin T}
<1>1. S \subseteq Nat /\ S # {}
  OBVIOUS
<1> HIDE DEF S
<1>2. PICK m \in S : \A k \in S : m <= k
  BY <1>1, LeastNumber
<1> USE DEF S
<1>3. m \in 0 .. n /\ m \notin T /\ m # 0
  BY <1>2
<1>4. m - 1 \in 0 .. n - 1 /\ m - 1 \in 0 .. n
  BY <1>3
<1>5. m - 1 \in T
  BY <1>2, <1>3, <1>4
<1> QED BY <1>3, <1>4, <1>5

\* Sequences of bytes.
LEMMA ByteConcat ==
    ASSUME NEW s \in Seq(Nat), NEW t \in Seq(Nat), NEW u \in Seq(Nat)
    PROVE  (s \o t) \o u = s \o (t \o u) /\ s \o t \in Seq(Nat)
<1>1. (s \o t) \o u = s \o (t \o u)
  BY ConcatAssociative, SMTT(30)
<1>2. s \o t \in Seq(Nat)
  BY ConcatProperties, Zenon
<1> QED BY <1>1, <1>2, Zenon

\* How long two sequences of bytes are together.
LEMMA ByteJoin ==
    ASSUME NEW s \in Seq(Nat), NEW t \in Seq(Nat)
    PROVE  /\ s \o t \in Seq(Nat) /\ Len(s) \in Nat /\ Len(t) \in Nat
           /\ Len(s \o t) = Len(s) + Len(t)
           /\ \A i \in 1 .. Len(s) + Len(t) : (s \o t)[i] = IF i <= Len(s) THEN s[i] ELSE t[i - Len(s)]
BY ConcatProperties, LenProperties, Zenon

-----------------------------------------------------------------------------
(* The frames of a group, as a walk over its cells.                          *)

FrameAt(h, m) == [i \in 1 .. m |-> h + i]

\* Where the next header is.
NextAt(g, q) == CHOOSE i \in q .. Len(g) : /\ i = Len(g) \/ g[i + 1] # 0
                                           /\ \A j \in q .. i - 1 : g[j + 1] = 0

WalkStep(g, f, q) ==
    IF NextAt(g, q) = Len(g) \/ NextAt(g, q) + g[NextAt(g, q) + 1] > Len(g) THEN <<>>
    ELSE <<FrameAt(NextAt(g, q), g[NextAt(g, q) + 1])>> \o f[NextAt(g, q) + g[NextAt(g, q) + 1]]

Walk(g) == CHOOSE f : f = [q \in 0 .. Len(g) |-> WalkStep(g, f, q)]

\* The frames are those of the walk from the first cell.
LEMMA FramesIs == ASSUME NEW g PROVE Pack!FramesOf(g) = Walk(g)[0]
BY DEF Pack!FramesOf, Walk, WalkStep, NextAt, FrameAt

\* There is a next header, or the end.
LEMMA NextIs ==
    ASSUME NEW g \in Seq(Nat), NEW q \in 0 .. Len(g)
    PROVE  /\ NextAt(g, q) \in q .. Len(g)
           /\ NextAt(g, q) = Len(g) \/ g[NextAt(g, q) + 1] # 0
           /\ \A j \in q .. NextAt(g, q) - 1 : g[j + 1] = 0
<1> DEFINE n == Len(g)
           S == {i \in q .. n : i = n \/ g[i + 1] # 0}
<1>1. n \in Nat /\ q \in Nat /\ n \in S /\ S \subseteq Nat
  OBVIOUS
<1>2. PICK i \in S : \A j \in S : i <= j
  <2> HIDE DEF S
  <2>1. S # {}
    BY <1>1
  <2> QED BY <1>1, <2>1, LeastNumber
<1>3. i \in q .. n /\ (i = n \/ g[i + 1] # 0) /\ i \in Nat
  BY <1>1, <1>2
<1>4. ASSUME NEW j \in q .. i - 1 PROVE g[j + 1] = 0
  <2>1. j \in q .. n /\ ~(i <= j)
    BY <1>1, <1>3
  <2> QED BY <1>2, <2>1
<1>5. \E k \in q .. Len(g) : (k = Len(g) \/ g[k + 1] # 0) /\ \A j \in q .. k - 1 : g[j + 1] = 0
  BY <1>3, <1>4
<1> QED BY <1>5 DEF NextAt

\* It is the only one.
LEMMA NextOnly ==
    ASSUME NEW g \in Seq(Nat), NEW q \in 0 .. Len(g), NEW h \in q .. Len(g),
           h = Len(g) \/ g[h + 1] # 0, \A j \in q .. h - 1 : g[j + 1] = 0
    PROVE  NextAt(g, q) = h
<1> DEFINE m == NextAt(g, q)
<1>1. m \in q .. Len(g) /\ (m = Len(g) \/ g[m + 1] # 0) /\ \A j \in q .. m - 1 : g[j + 1] = 0
  BY NextIs
<1>2. Len(g) \in Nat
  OBVIOUS
<1> HIDE DEF m
<1>3. ~(m < h)
  <2> SUFFICES ASSUME m < h PROVE FALSE
    OBVIOUS
  <2>1. m \in q .. h - 1 /\ m # Len(g)
    BY <1>1, <1>2
  <2> QED BY <1>1, <2>1
<1>4. ~(h < m)
  <2> SUFFICES ASSUME h < m PROVE FALSE
    OBVIOUS
  <2>1. h \in q .. m - 1 /\ h # Len(g)
    BY <1>1, <1>2
  <2> QED BY <1>1, <2>1
<1> QED BY <1>1, <1>2, <1>3, <1>4 DEF m

\* The walk only looks ahead.
LEMMA WalkAgree ==
    ASSUME NEW g \in Seq(Nat), NEW q \in 0 .. Len(g), NEW F, NEW H, \A i \in q + 1 .. Len(g) : F[i] = H[i]
    PROVE  WalkStep(g, F, q) = WalkStep(g, H, q)
<1> DEFINE h == NextAt(g, q)
           m == g[h + 1]
<1>1. h \in q .. Len(g) /\ (h = Len(g) \/ m # 0) /\ Len(g) \in Nat
  BY NextIs
<1> HIDE DEF h
<1>2. CASE h = Len(g) \/ h + m > Len(g)
  BY <1>2 DEF WalkStep, h
<1>3. CASE ~(h = Len(g) \/ h + m > Len(g))
  <2>1. h + 1 \in 1 .. Len(g)
    BY <1>1, <1>3
  <2>2. m \in Nat /\ m # 0
    BY <1>1, <1>3, <2>1
  <2> HIDE DEF m
  <2>3. h + m \in q + 1 .. Len(g)
    BY <1>1, <1>3, <2>2
  <2>4. F[h + m] = H[h + m]
    BY <2>3
  <2> QED BY <1>3, <2>4 DEF WalkStep, h, m
<1> QED BY <1>2, <1>3
\* There is such a walk.
LEMMA WalkIs ==
    ASSUME NEW g \in Seq(Nat)
    PROVE  \A q \in 0 .. Len(g) : Walk(g)[q] = WalkStep(g, Walk(g), q)
<1> DEFINE n == Len(g)
           Is(G, k) == G = [q \in n - k .. n |-> WalkStep(g, G, q)]
           T == {k \in Nat : \E G : Is(G, k)}
<1>1. n \in Nat
  OBVIOUS
<1>2. 0 \in T
  <2> DEFINE G == [q \in n - 0 .. n |-> WalkStep(g, <<>>, q)]
  <2>1. ASSUME NEW q \in n - 0 .. n PROVE WalkStep(g, <<>>, q) = WalkStep(g, G, q)
    <3>1. q \in 0 .. Len(g) /\ \A i \in q + 1 .. Len(g) : <<>>[i] = G[i]
      BY <1>1
    <3> HIDE DEF G
    <3> QED BY <3>1, WalkAgree
  <2>2. G = [q \in n - 0 .. n |-> WalkStep(g, G, q)]
    BY <2>1
  <2> HIDE DEF G
  <2> QED BY <2>2
<1>3. ASSUME NEW k \in 0 .. n - 1, k \in T PROVE k + 1 \in T
  <2>1. k \in Nat /\ \E G : Is(G, k)
    BY <1>3
  <2>2. PICK G : G = [q \in n - k .. n |-> WalkStep(g, G, q)]
    BY <2>1
  <2> DEFINE e == n - (k + 1)
             H == [q \in e .. n |-> IF q = e THEN WalkStep(g, G, e) ELSE G[q]]
  <2>3. e \in 0 .. n /\ e + 1 = n - k /\ e \in e .. n
    BY <1>1, <2>1
  <2> HIDE DEF e
  <2>4. ASSUME NEW i \in e + 1 .. n PROVE H[i] = G[i] /\ H[i] = WalkStep(g, G, i)
    <3>1. i \in e .. n /\ i # e /\ i \in n - k .. n
      BY <1>1, <2>3
    <3>2. H[i] = G[i]
      BY <3>1
    <3>3. G[i] = WalkStep(g, G, i)
      BY <2>2, <3>1
    <3> QED BY <3>2, <3>3
  <2>5. ASSUME NEW q \in e .. n PROVE H[q] = WalkStep(g, H, q)
    <3>1. q \in 0 .. Len(g) /\ \A i \in q + 1 .. Len(g) : i \in e + 1 .. n
      BY <1>1, <2>3
    <3>2. \A i \in q + 1 .. Len(g) : G[i] = H[i]
      BY <2>4, <3>1, Zenon
    <3>3. H[q] = WalkStep(g, G, q)
      <4>1. CASE q = e
        BY <2>3, <4>1
      <4>2. CASE q # e
        <5>1. q \in e + 1 .. n
          BY <1>1, <2>3, <4>2
        <5> QED BY <2>4, <5>1
      <4> QED BY <4>1, <4>2
    <3> HIDE DEF H
    <3> QED BY <3>1, <3>2, <3>3, WalkAgree
  <2>6. H = [q \in e .. n |-> H[q]]
    OBVIOUS
  <2> HIDE DEF H
  <2>7. H = [q \in e .. n |-> WalkStep(g, H, q)]
    BY <2>5, <2>6
  <2>8. Is(H, k + 1)
    <3>1. H = [q \in n - (k + 1) .. n |-> WalkStep(g, H, q)]
      BY <2>7 DEF e
    <3> QED BY <3>1
  <2>9. k + 1 \in Nat
    BY <2>1
  <2> QED BY <2>8, <2>9
<1> HIDE DEF T, n
<1>4. \A k \in 0 .. n : k \in T
  BY <1>1, <1>2, <1>3, ByNumbers
<1>5. n \in T /\ n - n = 0
  BY <1>1, <1>4
<1>6. \E G : Is(G, n)
  BY <1>5 DEF T
<1>7. \E f : f = [q \in 0 .. Len(g) |-> WalkStep(g, f, q)]
  BY <1>5, <1>6 DEF n
<1>8. Walk(g) = [q \in 0 .. Len(g) |-> WalkStep(g, Walk(g), q)]
  BY <1>7 DEF Walk
<1> QED BY <1>8

\* The cells of a frame.
LEMMA FrameIs ==
    ASSUME NEW h \in Nat, NEW m \in Nat
    PROVE  FrameAt(h, m) \in Seq(Nat) /\ Len(FrameAt(h, m)) = m /\ \A i \in 1 .. m : FrameAt(h, m)[i] = h + i
<1>1. \A i \in 1 .. m : h + i \in Nat
  OBVIOUS
<1> QED BY <1>1 DEF FrameAt

\* A step of the walk: at the end, or a frame and the walk behind it.
LEMMA WalkOn ==
    ASSUME NEW g \in Seq(Nat), NEW q \in 0 .. Len(g)
    PROVE  LET h == NextAt(g, q)
               m == g[h + 1]
           IN  /\ h \in q .. Len(g)
               /\ \/ Walk(g)[q] = <<>>
                  \/ /\ h + 1 \in 1 .. Len(g) /\ m \in Nat \ {0} /\ h + m \in q + 1 .. Len(g)
                     /\ Walk(g)[q] = <<FrameAt(h, m)>> \o Walk(g)[h + m]
<1> DEFINE h == NextAt(g, q)
           m == g[h + 1]
<1>1. h \in q .. Len(g) /\ (h = Len(g) \/ m # 0) /\ Len(g) \in Nat
  BY NextIs
<1>2. Walk(g)[q] = WalkStep(g, Walk(g), q)
  BY WalkIs
<1> HIDE DEF h
<1>3. CASE h = Len(g) \/ h + m > Len(g)
  <2>1. Walk(g)[q] = <<>>
    BY <1>2, <1>3 DEF WalkStep, h
  <2> QED BY <1>1, <2>1 DEF h
<1>4. CASE ~(h = Len(g) \/ h + m > Len(g))
  <2>1. h + 1 \in 1 .. Len(g)
    BY <1>1, <1>4
  <2>2. m \in Nat \ {0}
    BY <1>1, <1>4, <2>1
  <2>3. Walk(g)[q] = <<FrameAt(h, m)>> \o Walk(g)[h + m]
    BY <1>2, <1>4 DEF WalkStep, h
  <2>4. h + m \in q + 1 .. Len(g)
    <3> HIDE DEF m
    <3> QED BY <1>1, <1>4, <2>2
  <2> QED BY <1>1, <2>1, <2>2, <2>3, <2>4 DEF h
<1> QED BY <1>3, <1>4

\* What is walked over are frames.
LEMMA WalkSeq ==
    ASSUME NEW g \in Seq(Nat)
    PROVE  \A q \in 0 .. Len(g) : Walk(g)[q] \in Seq(Seq(Nat))
<1> DEFINE n == Len(g)
           T == {k \in Nat : \A q \in 0 .. n : q >= n - k => Walk(g)[q] \in Seq(Seq(Nat))}
<1>1. n \in Nat
  OBVIOUS
<1>2. ASSUME NEW q \in 0 .. n, \A i \in q + 1 .. n : Walk(g)[i] \in Seq(Seq(Nat))
      PROVE  Walk(g)[q] \in Seq(Seq(Nat))
  <2> DEFINE h == NextAt(g, q)
             m == g[h + 1]
  <2>1. CASE Walk(g)[q] = <<>>
    BY <2>1
  <2>2. CASE /\ h + 1 \in 1 .. Len(g) /\ m \in Nat \ {0} /\ h + m \in q + 1 .. Len(g)
             /\ Walk(g)[q] = <<FrameAt(h, m)>> \o Walk(g)[h + m]
    <3>1. h \in Nat
      BY NextIs
    <3> HIDE DEF h, m
    <3>2. FrameAt(h, m) \in Seq(Nat)
      BY <2>2, <3>1, FrameIs
    <3> DEFINE x == FrameAt(h, m)
               y == Walk(g)[h + m]
    <3>3. x \in Seq(Nat) /\ y \in Seq(Seq(Nat)) /\ Walk(g)[q] = <<x>> \o y
      BY <1>2, <2>2, <3>2
    <3> HIDE DEF x, y
    <3>4. <<x>> \in Seq(Seq(Nat))
      BY <3>3
    <3>5. <<x>> \o y \in Seq(Seq(Nat))
      BY <3>3, <3>4, ConcatProperties, Zenon
    <3> QED BY <3>3, <3>5
  <2> QED BY <2>1, <2>2, WalkOn
<1>3. 0 \in T
  <2>1. ASSUME NEW q \in 0 .. n, q >= n - 0 PROVE Walk(g)[q] \in Seq(Seq(Nat))
    <3>1. \A i \in q + 1 .. n : Walk(g)[i] \in Seq(Seq(Nat))
      BY <1>1, <2>1
    <3> HIDE DEF n
    <3> QED BY <1>2, <3>1
  <2> QED BY <2>1
<1>4. ASSUME NEW k \in 0 .. n - 1, k \in T PROVE k + 1 \in T
  <2>1. ASSUME NEW q \in 0 .. n, q >= n - (k + 1) PROVE Walk(g)[q] \in Seq(Seq(Nat))
    <3>1. ASSUME NEW i \in q + 1 .. n PROVE Walk(g)[i] \in Seq(Seq(Nat))
      <4>1. i \in 0 .. n /\ i >= n - k
        BY <1>1, <2>1
      <4> QED BY <1>4, <4>1
    <3> HIDE DEF n
    <3> QED BY <1>2, <3>1
  <2>2. k + 1 \in Nat
    OBVIOUS
  <2> QED BY <2>1, <2>2
<1> HIDE DEF T, n
<1>5. \A k \in 0 .. n : k \in T
  BY <1>1, <1>3, <1>4, ByNumbers
<1>6. n \in T
  BY <1>1, <1>5
<1>7. \A q \in 0 .. n : q >= n - n
  BY <1>1
<1>8. \A q \in 0 .. n : Walk(g)[q] \in Seq(Seq(Nat))
  BY <1>6, <1>7, Zenon DEF T
<1> QED BY <1>8 DEF n
-----------------------------------------------------------------------------
(* Frames one after the other.                                               *)

\* The cells of the first k frames.
CatTo(F) == CHOOSE c : c = [k \in 0 .. Len(F) |-> IF k = 0 THEN <<>> ELSE c[k - 1] \o F[k]]

\* All of them are those of the last.
LEMMA CatIs == ASSUME NEW F PROVE Pack!Flat(F) = CatTo(F)[Len(F)]
BY DEF Pack!Flat, CatTo

\* There are such sequences.
LEMMA CatStep ==
    ASSUME NEW F \in Seq(Seq(Nat))
    PROVE  CatTo(F)[0] = <<>> /\ \A k \in 1 .. Len(F) : CatTo(F)[k] = CatTo(F)[k - 1] \o F[k]
<1> DEFINE n == Len(F)
           Is(G, k) == G = [i \in 0 .. k |-> IF i = 0 THEN <<>> ELSE G[i - 1] \o F[i]]
           T == {k \in Nat : \E G : Is(G, k)}
<1>1. n \in Nat
  OBVIOUS
<1>2. 0 \in T
  <2> DEFINE G == [i \in 0 .. 0 |-> <<>>]
  <2>1. G = [i \in 0 .. 0 |-> IF i = 0 THEN <<>> ELSE G[i - 1] \o F[i]]
    OBVIOUS
  <2> QED BY <2>1
<1>3. ASSUME NEW k \in 0 .. n - 1, k \in T PROVE k + 1 \in T
  <2>1. k \in Nat /\ \E G : Is(G, k)
    BY <1>3
  <2>2. PICK G : G = [i \in 0 .. k |-> IF i = 0 THEN <<>> ELSE G[i - 1] \o F[i]]
    BY <2>1
  <2> DEFINE H == [i \in 0 .. k + 1 |-> IF i = k + 1 THEN G[k] \o F[k + 1] ELSE G[i]]
  <2>3. ASSUME NEW i \in 0 .. k + 1 PROVE H[i] = IF i = 0 THEN <<>> ELSE H[i - 1] \o F[i]
    <3>1. CASE i = k + 1
      <4>1. k \in 0 .. k + 1 /\ k # k + 1 /\ i # 0 /\ i - 1 = k
        BY <2>1, <3>1
      <4>2. H[k] = G[k] /\ H[i] = G[k] \o F[k + 1]
        BY <3>1, <4>1
      <4> QED BY <3>1, <4>1, <4>2
    <3>2. CASE i # k + 1
      <4>1. i \in 0 .. k
        BY <2>1, <3>2
      <4>2. H[i] = G[i] /\ G[i] = IF i = 0 THEN <<>> ELSE G[i - 1] \o F[i]
        BY <2>2, <3>2, <4>1
      <4>3. i # 0 => H[i - 1] = G[i - 1]
        BY <2>1, <4>1
      <4> QED BY <4>2, <4>3
    <3> QED BY <3>1, <3>2
  <2>4. H = [i \in 0 .. k + 1 |-> H[i]]
    OBVIOUS
  <2> HIDE DEF H
  <2>5. H = [i \in 0 .. k + 1 |-> IF i = 0 THEN <<>> ELSE H[i - 1] \o F[i]]
    BY <2>3, <2>4
  <2>6. Is(H, k + 1)
    BY <2>5, Zenon
  <2>7. k + 1 \in Nat
    BY <2>1
  <2> QED BY <2>6, <2>7, Zenon
<1> HIDE DEF T, n
<1>4. \A k \in 0 .. n : k \in T
  BY <1>1, <1>2, <1>3, ByNumbers
<1>5. n \in T
  BY <1>1, <1>4
<1> USE DEF T, n
<1>6. \E G : G = [i \in 0 .. Len(F) |-> IF i = 0 THEN <<>> ELSE G[i - 1] \o F[i]]
  BY <1>5
<1>7. CatTo(F) = [k \in 0 .. Len(F) |-> IF k = 0 THEN <<>> ELSE CatTo(F)[k - 1] \o F[k]]
  BY <1>6, Zenon DEF CatTo
<1>8. CatTo(F)[0] = <<>>
  <2>1. 0 \in 0 .. Len(F)
    BY <1>1
  <2> QED BY <1>7, <2>1
<1>9. ASSUME NEW k \in 1 .. Len(F) PROVE CatTo(F)[k] = CatTo(F)[k - 1] \o F[k]
  <2>1. k \in 0 .. Len(F) /\ k # 0
    BY <1>1
  <2> QED BY <1>7, <2>1
<1> QED BY <1>8, <1>9

\* They are sequences of cells.
LEMMA CatSeq ==
    ASSUME NEW F \in Seq(Seq(Nat))
    PROVE  \A k \in 0 .. Len(F) : CatTo(F)[k] \in Seq(Nat)
<1> DEFINE n == Len(F)
           T == {k \in Nat : k <= n => CatTo(F)[k] \in Seq(Nat)}
<1>1. n \in Nat
  OBVIOUS
<1>2. 0 \in T
  <2>1. CatTo(F)[0] = <<>>
    BY CatStep
  <2>2. <<>> \in Seq(Nat) /\ 0 \in Nat
    OBVIOUS
  <2> QED BY <2>1, <2>2, Zenon
<1>3. ASSUME NEW k \in 0 .. n - 1, k \in T PROVE k + 1 \in T
  <2>1. k \in Nat /\ k + 1 \in 1 .. Len(F) /\ (k + 1) - 1 = k /\ CatTo(F)[k] \in Seq(Nat)
    BY <1>1, <1>3
  <2>2. F[k + 1] \in Seq(Nat)
    BY <2>1
  <2>3. CatTo(F)[k + 1] = CatTo(F)[k] \o F[k + 1]
    BY <2>1, CatStep
  <2>4. CatTo(F)[k + 1] \in Seq(Nat)
    BY <2>1, <2>2, <2>3
  <2> QED BY <2>1, <2>4
<1> HIDE DEF T, n
<1>4. \A k \in 0 .. n : k \in T
  BY <1>1, <1>2, <1>3, ByNumbers
<1> QED BY <1>1, <1>4 DEF T, n

\* The first k frames have the cells that are there after k.
LEMMA CatTake ==
    ASSUME NEW F \in Seq(Seq(Nat)), NEW k \in 0 .. Len(F)
    PROVE  Pack!Flat(SubSeq(F, 1, k)) = CatTo(F)[k]
<1> DEFINE G == SubSeq(F, 1, k)
           T == {i \in Nat : i <= k => CatTo(G)[i] = CatTo(F)[i]}
<1>1. k \in Nat /\ G \in Seq(Seq(Nat)) /\ Len(G) = k /\ \A i \in 1 .. k : G[i] = F[i]
  OBVIOUS
<1> HIDE DEF G
<1>2. 0 \in T
  BY <1>1, CatStep
<1>3. ASSUME NEW i \in 0 .. k - 1, i \in T PROVE i + 1 \in T
  <2>1. /\ i \in Nat /\ i + 1 \in 1 .. k /\ i + 1 \in 1 .. Len(F) /\ i + 1 \in 1 .. Len(G)
        /\ (i + 1) - 1 = i /\ CatTo(G)[i] = CatTo(F)[i]
    BY <1>1, <1>3
  <2>2. CatTo(F)[i + 1] = CatTo(F)[i] \o F[i + 1]
    BY <2>1, CatStep
  <2>3. CatTo(G)[i + 1] = CatTo(G)[i] \o G[i + 1]
    BY <1>1, <2>1, CatStep
  <2>4. CatTo(G)[i + 1] = CatTo(F)[i + 1]
    BY <1>1, <2>1, <2>2, <2>3
  <2> QED BY <2>1, <2>4
<1> HIDE DEF T
<1>4. \A i \in 0 .. k : i \in T
  BY <1>1, <1>2, <1>3, ByNumbers
<1>5. CatTo(G)[k] = CatTo(F)[k]
  BY <1>1, <1>4 DEF T
<1> QED BY <1>1, <1>5, CatIs DEF G

\* s is the beginning of all cells of F.
Begins(s, F) == \E r \in Seq(Nat) : s \o r = CatTo(F)[Len(F)]

\* The cells of the first frames are.
LEMMA CatBegins ==
    ASSUME NEW F \in Seq(Seq(Nat)), NEW k \in 0 .. Len(F)
    PROVE  Begins(CatTo(F)[k], F)
<1> DEFINE n == Len(F) - k
           s == CatTo(F)[k]
           T == {i \in Nat : i <= n => \E r \in Seq(Nat) : s \o r = CatTo(F)[k + i]}
<1>1. n \in Nat /\ Len(F) \in Nat /\ k + n = Len(F) /\ k \in Nat
  OBVIOUS
<1>2. s \in Seq(Nat)
  BY CatSeq
<1>3. 0 \in T
  <2>1. s \o <<>> = CatTo(F)[k + 0] /\ <<>> \in Seq(Nat)
    <3> HIDE DEF s
    <3>1. s \o <<>> = s /\ k + 0 = k
      BY <1>1, <1>2, ConcatEmptySeq
    <3> QED BY <3>1 DEF s
  <2> QED BY <2>1
<1> HIDE DEF s
<1>4. ASSUME NEW i \in 0 .. n - 1, i \in T PROVE i + 1 \in T
  <2>1. i \in Nat /\ k + (i + 1) \in 1 .. Len(F) /\ (k + (i + 1)) - 1 = k + i /\ i <= n
    BY <1>1, <1>4
  <2>2. PICK r \in Seq(Nat) : s \o r = CatTo(F)[k + i]
    BY <1>4, <2>1
  <2> DEFINE x == F[k + (i + 1)]
  <2>3. x \in Seq(Nat) /\ CatTo(F)[k + (i + 1)] = CatTo(F)[k + i] \o x
    <3> DEFINE j == k + (i + 1)
    <3>1. j \in 1 .. Len(F) /\ j - 1 = k + i
      BY <2>1
    <3> HIDE DEF j
    <3>2. F[j] \in Seq(Nat)
      BY <3>1
    <3>3. CatTo(F)[j] = CatTo(F)[j - 1] \o F[j]
      BY <3>1, CatStep
    <3> QED BY <3>1, <3>2, <3>3 DEF j
  <2> HIDE DEF x
  <2>4. (s \o r) \o x = s \o (r \o x) /\ r \o x \in Seq(Nat)
    BY <1>2, <2>3, ByteConcat
  <2>5. s \o (r \o x) = CatTo(F)[k + (i + 1)]
    BY <2>2, <2>3, <2>4
  <2>6. i + 1 \in Nat
    BY <2>1
  <2> QED BY <2>4, <2>5, <2>6
<1> HIDE DEF T, n
<1>5. \A i \in 0 .. n : i \in T
  BY <1>1, <1>3, <1>4, ByNumbers
<1>6. n \in T
  BY <1>1, <1>5
<1>7. \E r \in Seq(Nat) : s \o r = CatTo(F)[k + n]
  <2>1. n <= n
    BY <1>1
  <2> QED BY <1>6, <2>1, Zenon DEF T
<1> QED BY <1>1, <1>7 DEF Begins, s

\* So is a part of them.
LEMMA BeginsPart ==
    ASSUME NEW F \in Seq(Seq(Nat)), NEW s \in Seq(Nat), NEW t \in Seq(Nat), Begins(s \o t, F)
    PROVE  Begins(s, F)
<1>1. PICK r \in Seq(Nat) : (s \o t) \o r = CatTo(F)[Len(F)]
  BY DEF Begins
<1>2. (s \o t) \o r = s \o (t \o r) /\ t \o r \in Seq(Nat)
  BY ByteConcat, SMTT(30)
<1> QED BY <1>1, <1>2 DEF Begins

\* What a beginning is, in the model's words.
LEMMA BeginsMeans ==
    ASSUME NEW F \in Seq(Seq(Nat)), NEW s \in Seq(Nat), Begins(s, F)
    PROVE  Len(s) <= Len(Pack!Flat(F)) /\ s = SubSeq(Pack!Flat(F), 1, Len(s))
<1> DEFINE a == Pack!Flat(F)
<1>1. PICK r \in Seq(Nat) : s \o r = a
  BY CatIs DEF Begins
<1> HIDE DEF a
<1>2. /\ a \in Seq(Nat) /\ Len(s) \in Nat /\ Len(r) \in Nat /\ Len(a) = Len(s) + Len(r)
      /\ \A i \in 1 .. Len(s) + Len(r) : a[i] = IF i <= Len(s) THEN s[i] ELSE r[i - Len(s)]
  BY <1>1, ByteJoin
<1>3. Len(s) <= Len(a)
  BY <1>2
<1> DEFINE b == SubSeq(a, 1, Len(s))
<1>4. b \in Seq(Nat) /\ Len(b) = Len(s) /\ \A i \in 1 .. Len(s) : b[i] = a[i]
  BY <1>2, <1>3
<1> HIDE DEF b
<1>5. \A i \in 1 .. Len(s) : b[i] = s[i]
  BY <1>2, <1>4
<1>6. b = s
  BY <1>4, <1>5, SeqEqual
<1> QED BY <1>3, <1>6 DEF a, b
-----------------------------------------------------------------------------
(* The walk of the sender over a group.                                      *)

Frs(g) == Walk(g)[0]
GapAt(g, k) == IF k = 1 THEN 0 ELSE Frs(g)[k][1] - Frs(g)[k - 1][Len(Frs(g)[k - 1])] - 1

\* A frame the sender gives up at: it is too short, or too far behind the one before.
Stops(g) == \E k \in 1 .. Len(Frs(g)) : ~(Len(Frs(g)[k]) >= GHdr /\ GapAt(g, k) <= GSearch)

\* The sender is at q, behind frame k.
Behind(g, q, k) ==
    /\ k \in 0 .. Len(Frs(g)) /\ q \in 0 .. Len(g)
    /\ Walk(g)[q] = SubSeq(Frs(g), k + 1, Len(Frs(g)))
    /\ k = 0 => q = 0
    /\ k # 0 => Frs(g)[k][Len(Frs(g)[k])] = q

\* The sender is at q, at the header of frame k + 1.
Before(g, q, k) ==
    /\ k \in 0 .. Len(Frs(g)) - 1 /\ q \in 0 .. Len(g) - 1 /\ q + g[q + 1] <= Len(g) /\ g[q + 1] # 0
    /\ Frs(g)[k + 1] = FrameAt(q, g[q + 1])
    /\ Walk(g)[q + g[q + 1]] = SubSeq(Frs(g), k + 2, Len(Frs(g)))

\* What the constants are.
LEMMA SendConst ==
    ASSUME Pack!SendAssumption
    PROVE  GMaxCells \in Nat \ {0} /\ GHdr \in Nat \ {0} /\ GSearch \in Nat /\ GLenMax \in Nat
BY DEF Pack!SendAssumption

\* A group of the dispatcher.
LEMMA GroupIs ==
    ASSUME Pack!SendAssumption, NEW g \in Pack!Groups
    PROVE  /\ g \in Seq(Nat) /\ Len(g) \in Nat \ {0} /\ \A i \in 1 .. Len(g) : g[i] \in 0 .. GLenMax
           /\ g[1] # 0 /\ Frs(g) \in Seq(Seq(Nat)) /\ Len(Frs(g)) \in Nat \ {0}
           /\ Frs(g)[Len(Frs(g))][Len(Frs(g)[Len(Frs(g))])] = Len(g)
<1>1. PICK n \in 1 .. GMaxCells : g \in [1 .. n -> 0 .. GLenMax]
  BY DEF Pack!Groups, Pack!Cells
<1>2. n \in Nat \ {0} /\ g \in Seq(Nat) /\ Len(g) = n /\ \A i \in 1 .. n : g[i] \in 0 .. GLenMax
  BY <1>1, SendConst
<1>3. Pack!IsGroup(g)
  BY DEF Pack!Groups
<1>4. g[1] # 0 /\ Frs(g) # <<>> /\ Frs(g)[Len(Frs(g))][Len(Frs(g)[Len(Frs(g))])] = Len(g)
  BY <1>3, FramesIs DEF Pack!IsGroup, Frs
<1>5. Frs(g) \in Seq(Seq(Nat))
  <2>1. 0 \in 0 .. Len(g)
    BY <1>2
  <2> QED BY <1>2, <2>1, WalkSeq DEF Frs
<1>6. Len(Frs(g)) \in Nat \ {0}
  <2> DEFINE F == Frs(g)
  <2>1. F \in Seq(Seq(Nat)) /\ F # <<>>
    BY <1>4, <1>5
  <2> HIDE DEF F
  <2>2. Len(F) \in Nat \ {0}
    BY <2>1, EmptySeq, LenProperties
  <2> QED BY <2>2 DEF F
<1> QED BY <1>2, <1>4, <1>5, <1>6

\* The first of the rest of a sequence, and what follows it.
LEMMA RestIs ==
    ASSUME NEW F \in Seq(Seq(Nat)), NEW k \in 0 .. Len(F) - 1, NEW x \in Seq(Nat), NEW y \in Seq(Seq(Nat)),
           SubSeq(F, k + 1, Len(F)) = <<x>> \o y
    PROVE  F[k + 1] = x /\ y = SubSeq(F, k + 2, Len(F))
<1> DEFINE A == SubSeq(F, k + 1, Len(F))
           B == SubSeq(F, k + 2, Len(F))
           C == <<x>> \o y
           m == Len(F) - k
<1>1. Len(F) \in Nat /\ k \in Nat /\ m \in Nat \ {0} /\ k + 1 \in 1 .. Len(F)
  OBVIOUS
<1>2. Len(A) = m /\ \A i \in 1 .. m : A[i] = F[k + i]
  <2>1. Len(A) = m
    BY <1>1
  <2>2. ASSUME NEW i \in 1 .. m PROVE A[i] = F[k + i]
    <3>1. A[i] = F[(k + 1) + i - 1] /\ (k + 1) + i - 1 = k + i
      BY <1>1
    <3> QED BY <3>1
  <2> QED BY <2>1, <2>2, Zenon
<1>3. B \in Seq(Seq(Nat)) /\ Len(B) = m - 1 /\ \A i \in 1 .. m - 1 : B[i] = F[k + (i + 1)]
  <2>1. \A i \in k + 2 .. Len(F) : F[i] \in Seq(Nat)
    BY <1>1
  <2> DEFINE a == k + 2
             e == Len(F)
  <2>2. a \in Int /\ e \in Int /\ \A i \in a .. e : F[i] \in Seq(Nat)
    BY <1>1, <2>1
  <2> HIDE DEF a, e
  <2> DEFINE D == SubSeq(F, a, e)
  <2>3. D \in Seq(Seq(Nat)) /\ Len(D) = (IF a <= e THEN e - a + 1 ELSE 0) /\ \A i \in 1 .. e - a + 1 : D[i] = F[a + i - 1]
    <3> DEFINE S == Seq(Nat)
    <3>1. \A i \in a .. e : F[i] \in S
      BY <2>2
    <3> HIDE DEF S
    <3>2. D \in Seq(S) /\ Len(D) = (IF a <= e THEN e - a + 1 ELSE 0) /\ \A i \in 1 .. e - a + 1 : D[i] = F[a + i - 1]
      BY <2>2, <3>1, SubSeqProperties
    <3> QED BY <3>2 DEF S
  <2>4. B = D
    BY DEF a, e
  <2> HIDE DEF D, B
  <2>5. (IF a <= e THEN e - a + 1 ELSE 0) = m - 1 /\ e - a + 1 = m - 1 /\ \A i \in 1 .. m - 1 : a + i - 1 = k + (i + 1)
    BY <1>1 DEF a, e
  <2>6. \A i \in 1 .. m - 1 : D[i] = F[k + (i + 1)]
    BY <2>3, <2>5, Zenon
  <2> QED BY <2>3, <2>4, <2>5, <2>6, Zenon
<1>4. Len(C) = Len(y) + 1 /\ Len(y) \in Nat /\ C[1] = x /\ \A i \in 1 .. Len(y) : C[i + 1] = y[i]
  <2>1. <<x>> \in Seq(Seq(Nat)) /\ Len(<<x>>) = 1 /\ <<x>>[1] = x
    OBVIOUS
  <2>2. /\ Len(C) = 1 + Len(y) /\ Len(y) \in Nat
        /\ \A i \in 1 .. 1 + Len(y) : C[i] = IF i <= 1 THEN <<x>>[i] ELSE y[i - 1]
    BY <2>1, ConcatProperties, LenProperties
  <2> HIDE DEF C
  <2>3. C[1] = x
    <3>1. 1 \in 1 .. 1 + Len(y) /\ 1 <= 1
      BY <2>2
    <3> QED BY <2>1, <2>2, <3>1, Zenon
  <2>4. ASSUME NEW i \in 1 .. Len(y) PROVE C[i + 1] = y[i]
    <3>1. i + 1 \in 1 .. 1 + Len(y) /\ ~(i + 1 <= 1) /\ (i + 1) - 1 = i
      BY <2>2
    <3> QED BY <2>2, <3>1, SMTT(30)
  <2> QED BY <2>2, <2>3, <2>4
<1>5. A = C
  OBVIOUS
<1> HIDE DEF A, B, C, m
<1>6. F[k + 1] = x
  <2>1. 1 \in 1 .. m
    BY <1>1
  <2> QED BY <1>2, <1>4, <1>5, <2>1, Zenon
<1>7. Len(y) = m - 1
  BY <1>1, <1>2, <1>4, <1>5, SMTT(30)
<1>8. ASSUME NEW i \in 1 .. Len(y) PROVE y[i] = B[i]
  <2>1. i \in 1 .. m - 1 /\ i + 1 \in 1 .. m
    BY <1>1, <1>7
  <2> QED BY <1>2, <1>3, <1>4, <1>5, <2>1
<1>9. y = B
  BY <1>3, <1>7, <1>8, SeqEqual
<1> QED BY <1>6, <1>9 DEF B
\* Behind a frame that is not the last the walk meets the next.
LEMMA AtFrame ==
    ASSUME Pack!SendAssumption, NEW g \in Pack!Groups, NEW q, NEW k, Behind(g, q, k), k < Len(Frs(g))
    PROVE  /\ NextAt(g, q) \in q .. Len(g) - 1 /\ Before(g, NextAt(g, q), k)
           /\ \A j \in q .. NextAt(g, q) - 1 : g[j + 1] = 0
<1> DEFINE F == Frs(g)
           h == NextAt(g, q)
           m == g[h + 1]
           y == Walk(g)[h + m]
<1>1. g \in Seq(Nat) /\ F \in Seq(Seq(Nat)) /\ Len(g) \in Nat /\ Len(F) \in Nat
  BY GroupIs
<1>2. k \in 0 .. Len(F) - 1 /\ q \in 0 .. Len(g) /\ Walk(g)[q] = SubSeq(F, k + 1, Len(F))
  BY <1>1 DEF Behind
<1>3. Walk(g)[q] # <<>>
  <2>1. Len(SubSeq(F, k + 1, Len(F))) # 0
    <3> HIDE DEF F
    <3> QED BY <1>1, <1>2
  <2>2. Len(<<>>) = 0
    OBVIOUS
  <2> HIDE DEF F
  <2> QED BY <1>2, <2>1, <2>2, Zenon
<1>4. h \in q .. Len(g) /\ \A j \in q .. h - 1 : g[j + 1] = 0
  BY <1>1, <1>2, NextIs
<1>5. /\ h + 1 \in 1 .. Len(g) /\ m \in Nat \ {0} /\ h + m \in q + 1 .. Len(g)
      /\ Walk(g)[q] = <<FrameAt(h, m)>> \o y
  BY <1>1, <1>2, <1>3, WalkOn
<1>6. h \in Nat /\ h + m \in 0 .. Len(g)
  BY <1>2, <1>4, <1>5, SMTT(30)
<1>7. FrameAt(h, m) \in Seq(Nat) /\ y \in Seq(Seq(Nat))
  BY <1>1, <1>5, <1>6, FrameIs, WalkSeq
<1>8. F[k + 1] = FrameAt(h, m) /\ y = SubSeq(F, k + 2, Len(F))
  <2> DEFINE x == FrameAt(h, m)
  <2> HIDE DEF F, x, y, h, m
  <2>1. x \in Seq(Nat) /\ SubSeq(F, k + 1, Len(F)) = <<x>> \o y
    BY <1>2, <1>5, <1>7 DEF x
  <2>2. F[k + 1] = x /\ y = SubSeq(F, k + 2, Len(F))
    BY <1>1, <1>2, <1>7, <2>1, RestIs, ZenonT(60)
  <2> QED BY <2>2 DEF x
<1> HIDE DEF h, m
<1>9. h \in q .. Len(g) - 1 /\ h \in 0 .. Len(g) - 1 /\ h + m <= Len(g) /\ m # 0
  BY <1>1, <1>2, <1>4, <1>5
<1>10. Before(g, h, k)
  BY <1>2, <1>8, <1>9 DEF Before, m
<1> QED BY <1>4, <1>9, <1>10 DEF h

\* Before the end of a group there is another frame, because the last one ends there.
LEMMA NotDone ==
    ASSUME Pack!SendAssumption, NEW g \in Pack!Groups, NEW q, NEW k, Behind(g, q, k), q < Len(g)
    PROVE  k < Len(Frs(g))
<1> DEFINE n == Len(Frs(g))
<1>1. n \in Nat \ {0} /\ Len(g) \in Nat /\ Frs(g)[n][Len(Frs(g)[n])] = Len(g)
  BY GroupIs
<1>2. k \in 0 .. n /\ q \in 0 .. Len(g) /\ (k # 0 => Frs(g)[k][Len(Frs(g)[k])] = q)
  BY DEF Behind
<1> HIDE DEF n
<1>3. k # n
  <2> SUFFICES ASSUME k = n PROVE FALSE
    OBVIOUS
  <2>1. Len(g) = q
    BY <1>1, <1>2
  <2> QED BY <1>1, <1>2, <2>1
<1> QED BY <1>1, <1>2, <1>3 DEF n

\* The frame at hand.
LEMMA BeforeIs ==
    ASSUME Pack!SendAssumption, NEW g \in Pack!Groups, NEW q, NEW k, Before(g, q, k)
    PROVE  /\ q \in Nat /\ q < Len(g) /\ Len(g) \in Nat /\ k \in Nat /\ k + 1 \in 1 .. Len(Frs(g))
           /\ g[q + 1] \in 1 .. GLenMax /\ q + g[q + 1] \in 1 .. Len(g)
           /\ Len(Frs(g)[k + 1]) = g[q + 1] /\ Frs(g)[k + 1][1] = q + 1
           /\ Frs(g)[k + 1][g[q + 1]] = q + g[q + 1]
<1> DEFINE n == Len(Frs(g))
           m == g[q + 1]
           x == Frs(g)[k + 1]
<1>1. n \in Nat \ {0} /\ Len(g) \in Nat /\ \A i \in 1 .. Len(g) : g[i] \in 0 .. GLenMax
  BY GroupIs
<1>2. k \in 0 .. n - 1 /\ q \in 0 .. Len(g) - 1 /\ q + m <= Len(g) /\ m # 0 /\ x = FrameAt(q, m)
  BY DEF Before
<1>3. GLenMax \in Nat
  BY SendConst
<1> HIDE DEF n, x
<1>4. q + 1 \in 1 .. Len(g)
  BY <1>1, <1>2
<1>5. m \in 0 .. GLenMax
  BY <1>1, <1>4
<1> HIDE DEF m
<1>6. q \in Nat /\ q < Len(g) /\ k \in Nat /\ k + 1 \in 1 .. n /\ m \in Nat /\ m \in 1 .. GLenMax /\ q + m \in 1 .. Len(g)
  BY <1>1, <1>2, <1>3, <1>5
<1>7. Len(x) = m /\ \A i \in 1 .. m : x[i] = q + i
  BY <1>2, <1>6, FrameIs
<1>8. x[1] = q + 1 /\ x[m] = q + m
  <2>1. 1 \in 1 .. m /\ m \in 1 .. m
    BY <1>6
  <2> QED BY <1>7, <2>1
<1> QED BY <1>1, <1>6, <1>7, <1>8 DEF n, m, x

\* Behind the frame at hand.
LEMMA FrameDone ==
    ASSUME Pack!SendAssumption, NEW g \in Pack!Groups, NEW q, NEW k, Before(g, q, k)
    PROVE  Behind(g, q + g[q + 1], k + 1)
<1> DEFINE n == Len(Frs(g))
           m == g[q + 1]
<1>1. /\ k \in Nat /\ k + 1 \in 1 .. n /\ q + m \in 1 .. Len(g) /\ Len(g) \in Nat
      /\ Len(Frs(g)[k + 1]) = m /\ Frs(g)[k + 1][m] = q + m
  BY BeforeIs
<1>2. n \in Nat
  BY GroupIs
<1>3. Walk(g)[q + m] = SubSeq(Frs(g), k + 2, n)
  BY DEF Before
<1> HIDE DEF n, m
<1>4. k + 1 \in 0 .. n /\ q + m \in 0 .. Len(g) /\ k + 1 # 0 /\ (k + 1) + 1 = k + 2
  BY <1>1, <1>2
<1>5. Frs(g)[k + 1][Len(Frs(g)[k + 1])] = q + m
  BY <1>1
<1> QED BY <1>3, <1>4, <1>5, Zenon DEF Behind, n, m

\* A frame that is too short.
LEMMA ShortFrame ==
    ASSUME Pack!SendAssumption, NEW g \in Pack!Groups, NEW q, NEW k, Before(g, q, k), g[q + 1] < GHdr
    PROVE  Stops(g)
<1>1. k + 1 \in 1 .. Len(Frs(g)) /\ Len(Frs(g)[k + 1]) = g[q + 1] /\ g[q + 1] \in 1 .. GLenMax
  BY BeforeIs
<1>2. GHdr \in Nat /\ GLenMax \in Nat
  BY SendConst
<1> DEFINE m == g[q + 1]
<1>3. m < GHdr /\ m \in 1 .. GLenMax
  BY <1>1
<1> HIDE DEF m
<1>4. ~(m >= GHdr)
  BY <1>2, <1>3
<1> QED BY <1>1, <1>4, Zenon DEF Stops, m

\* A frame that is too far.
LEMMA WideGap ==
    ASSUME Pack!SendAssumption, NEW g \in Pack!Groups, NEW q, NEW k, Behind(g, q, k), q < Len(g),
           NextAt(g, q) - q > GSearch
    PROVE  Stops(g)
<1> DEFINE h == NextAt(g, q)
<1>1. k < Len(Frs(g))
  BY NotDone
<1>2. h \in q .. Len(g) - 1 /\ Before(g, h, k) /\ \A j \in q .. h - 1 : g[j + 1] = 0
  BY <1>1, AtFrame
<1>3. h - q > GSearch
  OBVIOUS
<1> HIDE DEF h
<1>4. k \in Nat /\ k + 1 \in 1 .. Len(Frs(g)) /\ Frs(g)[k + 1][1] = h + 1 /\ Len(g) \in Nat /\ h \in Nat
  BY <1>2, BeforeIs
<1>5. q \in Nat /\ (k = 0 => q = 0) /\ (k # 0 => Frs(g)[k][Len(Frs(g)[k])] = q)
  BY DEF Behind
<1>6. GSearch \in Nat /\ g[1] # 0
  BY SendConst, GroupIs
<1>7. k # 0
  <2> SUFFICES ASSUME k = 0 PROVE FALSE
    OBVIOUS
  <2>1. q = 0 /\ 0 \in q .. h - 1
    BY <1>3, <1>4, <1>5, <1>6
  <2>2. g[0 + 1] = 0
    BY <1>2, <2>1
  <2> QED BY <1>6, <2>2
<1>8. GapAt(g, k + 1) = h - q
  <2>1. k + 1 # 1 /\ (k + 1) - 1 = k
    BY <1>4, <1>7
  <2>2. GapAt(g, k + 1) = (h + 1) - q - 1
    BY <1>4, <1>5, <1>7, <2>1 DEF GapAt
  <2> QED BY <1>4, <1>5, <2>2
<1>9. ~(GapAt(g, k + 1) <= GSearch)
  BY <1>3, <1>4, <1>5, <1>6, <1>8
<1> QED BY <1>4, <1>9, Zenon DEF Stops

\* What is behind the last frame that was sent has no room for a header, or is too short.
LEMMA ShortRest ==
    ASSUME Pack!SendAssumption, NEW g \in Pack!Groups, NEW q, NEW k, Behind(g, q, k), Len(g) - q < GHdr
    PROVE  k = Len(Frs(g)) \/ Stops(g)
<1>1. k \in 0 .. Len(Frs(g)) /\ q \in 0 .. Len(g) /\ Len(Frs(g)) \in Nat /\ Len(g) \in Nat /\ GHdr \in Nat /\ GLenMax \in Nat
  BY GroupIs, SendConst DEF Behind
<1> SUFFICES ASSUME k # Len(Frs(g)) PROVE Stops(g)
  OBVIOUS
<1>2. k < Len(Frs(g))
  BY <1>1
<1> DEFINE h == NextAt(g, q)
           m == g[h + 1]
<1>3. h \in q .. Len(g) - 1 /\ Before(g, h, k)
  BY <1>2, AtFrame
<1>4. m \in 1 .. GLenMax /\ h + m \in 1 .. Len(g)
  BY <1>3, BeforeIs
<1>5. m < GHdr
  <2> HIDE DEF h, m
  <2> QED BY <1>1, <1>3, <1>4
<1> QED BY <1>3, <1>5, ShortFrame
-----------------------------------------------------------------------------
(* The invariant.                                                            *)

PkTypes ==
    /\ gGroup \in Pack!Groups \cup {<<>>} /\ gDead \in BOOLEAN /\ gWire \in Seq(Nat)
    /\ gPc \in {"wait", "turn", "send", "count"} /\ gUloop \in {"idle", "want", "free", "gone"}
    /\ gP \in 0 .. Len(gGroup) /\ gLeft \in 0 .. GLenMax /\ gSent \in Nat /\ gPad \in Nat
    /\ gSent + gPad <= Len(gGroup) /\ gGood \in 0 .. Len(gGroup) /\ gBad \in 0 .. Len(gGroup)

\* Between two rounds nothing is left of the last, and a thread that is gone waits.
PkIdle ==
    /\ gGroup = <<>> => gPc = "wait" /\ gWire = <<>> /\ gP = 0 /\ gSent = 0 /\ gPad = 0 /\ gGood = 0 /\ gBad = 0
    /\ gUloop = "gone" => gPc = "wait"

\* Behind frame k, all of it went out and is counted.
Even(k) == gWire = CatTo(Frs(gGroup))[k] /\ gSent = Len(gWire) /\ gSent + gPad = gP

PkTurn ==
    gPc = "turn" =>
        /\ gP < Len(gGroup) /\ gSent + gPad <= gP
        /\ \E k \in Nat : Behind(gGroup, gP, k) /\ (~gDead => Even(k))

\* Within frame k + 1, what is not left of it went out.
Part(k) ==
    /\ gWire = CatTo(Frs(gGroup))[k] \o FrameAt(gP, gGroup[gP + 1] - gLeft)
    /\ gSent = Len(CatTo(Frs(gGroup))[k]) /\ gSent + gPad = gP

PkSend ==
    gPc = "send" =>
        /\ gSent + gPad <= gP /\ gLeft \in 1 .. gGroup[gP + 1]
        /\ \E k \in Nat : Before(gGroup, gP, k) /\ (~gDead => Part(k))

\* A walk over a connection that did not break ends behind the last frame, or there is a
\* frame the sender gives up at.
Ended(g, s) == \E k \in 0 .. Len(Frs(g)) : s = CatTo(Frs(g))[k] /\ (k = Len(Frs(g)) \/ Stops(g))

PkEnd ==
    /\ (gPc \in {"count", "wait"} /\ ~gDead /\ gGroup # <<>>) => Ended(gGroup, gWire)
    /\ (gPc = "count" /\ ~gDead) => Len(gWire) = gSent
    /\ gPc = "wait" => gGood + gBad = Len(gGroup) /\ (~gDead => Len(gWire) <= gGood)

PkDead == (gDead /\ gGroup # <<>>) => Begins(gWire, Frs(gGroup))

PkInv == PkTypes /\ PkIdle /\ PkTurn /\ PkSend /\ PkEnd /\ PkDead

\* The invariant holds at first.
LEMMA PkInit == ASSUME Pack!SendAssumption, Pack!Init PROVE PkInv
<1>1. /\ gGroup = <<>> /\ gDead \in BOOLEAN /\ gWire = <<>> /\ gPc = "wait" /\ gP = 0 /\ gSent = 0 /\ gPad = 0
      /\ gGood = 0 /\ gBad = 0 /\ gUloop \in {"idle", "want", "free", "gone"} /\ gLeft = 0
  BY DEF Pack!Init
<1>2. Len(<<>>) = 0 /\ <<>> \in Seq(Nat) /\ gLeft \in 0 .. GLenMax
  BY <1>1, SendConst
<1>3. PkTypes
  <2>1. gP \in 0 .. Len(gGroup) /\ gGood \in 0 .. Len(gGroup) /\ gBad \in 0 .. Len(gGroup)
        /\ gSent \in Nat /\ gPad \in Nat /\ gSent + gPad <= Len(gGroup)
    BY <1>1, <1>2
  <2> QED BY <1>1, <1>2, <2>1, Zenon DEF PkTypes
<1>4. PkIdle /\ PkTurn /\ PkSend /\ PkDead
  BY <1>1 DEF PkIdle, PkTurn, PkSend, PkDead
<1>5. PkEnd
  BY <1>1, <1>2 DEF PkEnd
<1> QED BY <1>3, <1>4, <1>5 DEF PkInv

\* A round ends, or a new connection takes the place of this one.
LEMMA FreshHolds == ASSUME Pack!SendAssumption, PkInv, Pack!RoundOver \/ Pack!Reconnect PROVE PkInv'
<1>1. /\ gGroup' = <<>> /\ gWire' = <<>> /\ gP' = 0 /\ gSent' = 0 /\ gPad' = 0 /\ gGood' = 0 /\ gBad' = 0
      /\ gPc' = gPc /\ gLeft' = gLeft /\ (gUloop' = gUloop \/ gUloop' = "idle")
      /\ gDead' = gDead \/ gDead' = FALSE
      /\ gPc = "wait" \/ gUloop = "gone"
  BY DEF Pack!RoundOver, Pack!Reconnect, Pack!Fresh
<1>2. gPc' = "wait"
  BY <1>1 DEF PkInv, PkIdle
<1>3. gDead' \in BOOLEAN
  BY <1>1, Zenon DEF PkInv, PkTypes
<1>4. gLeft' \in 0 .. GLenMax /\ gUloop' \in {"idle", "want", "free", "gone"}
  BY <1>1 DEF PkInv, PkTypes
<1>5. Len(<<>>) = 0 /\ <<>> \in Seq(Nat)
  OBVIOUS
<1>6. PkTypes'
  <2>1. gP' \in 0 .. Len(gGroup') /\ gGood' \in 0 .. Len(gGroup') /\ gBad' \in 0 .. Len(gGroup')
        /\ gSent' \in Nat /\ gPad' \in Nat /\ gSent' + gPad' <= Len(gGroup')
    BY <1>1, <1>5
  <2> QED BY <1>1, <1>2, <1>3, <1>4, <1>5, <2>1, Zenon DEF PkTypes
<1>7. PkIdle' /\ PkTurn' /\ PkSend' /\ PkDead'
  BY <1>1, <1>2 DEF PkIdle, PkTurn, PkSend, PkDead
<1>8. PkEnd'
  BY <1>1, <1>2, <1>5 DEF PkEnd
<1> QED BY <1>6, <1>7, <1>8 DEF PkInv

\* uloop wants the lock or the end of the thread, and gets it while the thread waits.
LEMMA UloopHolds == ASSUME PkInv, Pack!Want \/ Pack!Changed \/ Pack!Free \/ Pack!Freed PROVE PkInv'
<1>1. UNCHANGED <<gGroup, gPc, gP, gLeft, gSent, gPad, gGood, gBad, gDead, gWire>>
  BY DEF Pack!Want, Pack!Changed, Pack!Free, Pack!Freed
<1>2. gUloop' \in {"idle", "want", "free", "gone"} /\ (gUloop' = "gone" => gPc = "wait")
  BY DEF Pack!Want, Pack!Changed, Pack!Free, Pack!Freed
<1>3. PkTypes' /\ PkIdle'
  BY <1>1, <1>2 DEF PkInv, PkTypes, PkIdle
<1>4. PkTurn' /\ PkSend'
  BY <1>1 DEF PkInv, PkTurn, PkSend, Even, Part
<1>5. PkEnd' /\ PkDead'
  BY <1>1 DEF PkInv, PkEnd, PkDead
<1> QED BY <1>3, <1>4, <1>5 DEF PkInv

\* What is the same whenever a group is at hand.
LEMMA PkGroup ==
    ASSUME Pack!SendAssumption, PkInv, gGroup # <<>>
    PROVE  /\ gGroup \in Pack!Groups /\ Len(gGroup) \in Nat \ {0} /\ gGroup \in Seq(Nat)
           /\ Frs(gGroup) \in Seq(Seq(Nat)) /\ Len(Frs(gGroup)) \in Nat \ {0}
<1>1. gGroup \in Pack!Groups
  BY DEF PkInv, PkTypes
<1> QED BY <1>1, GroupIs

\* A group is taken up.
LEMMA EnterHolds == ASSUME Pack!SendAssumption, PkInv, Pack!Enter PROVE PkInv'
<1> DEFINE g == gGroup'
           F == Frs(g)
<1>1. /\ g \in Pack!Groups /\ gGroup = <<>> /\ gPc' = IF Len(g) < GHdr THEN "count" ELSE "turn"
      /\ gUloop # "gone" /\ UNCHANGED <<gP, gLeft, gSent, gPad, gGood, gBad, gDead, gWire, gUloop>>
  BY DEF Pack!Enter
<1>2. gWire = <<>> /\ gP = 0 /\ gSent = 0 /\ gPad = 0 /\ gGood = 0 /\ gBad = 0
  BY <1>1 DEF PkInv, PkIdle
<1>3. /\ gLeft \in 0 .. GLenMax /\ gDead \in BOOLEAN /\ gUloop \in {"idle", "want", "free", "gone"}
  BY DEF PkInv, PkTypes
<1>4. g \in Seq(Nat) /\ Len(g) \in Nat \ {0} /\ F \in Seq(Seq(Nat)) /\ Len(F) \in Nat \ {0} /\ g # <<>>
  BY <1>1, GroupIs
<1>5. CatTo(F)[0] = <<>> /\ Len(<<>>) = 0 /\ <<>> \in Seq(Nat) /\ 0 \in 0 .. Len(F)
  <2>1. CatTo(F)[0] = <<>>
    <3> HIDE DEF F
    <3> QED BY <1>4, CatStep
  <2>2. Len(<<>>) = 0 /\ <<>> \in Seq(Nat)
    OBVIOUS
  <2>3. 0 \in 0 .. Len(F)
    BY <1>4
  <2> QED BY <2>1, <2>2, <2>3
<1>6. Behind(g, 0, 0)
  <2>1. SubSeq(F, 1, Len(F)) = F
    <3> HIDE DEF F
    <3> QED BY <1>4, SubSeqFull
  <2>2. Walk(g)[0] = SubSeq(F, 0 + 1, Len(F))
    BY <2>1 DEF Frs
  <2> QED BY <1>4, <1>5, <2>2 DEF Behind
<1>7. PkTypes' /\ PkIdle'
  <2>1. gPc' \in {"wait", "turn", "send", "count"} /\ gPc' \in {"turn", "count"}
    BY <1>1
  <2> QED BY <1>1, <1>2, <1>3, <1>4, <1>5, <2>1 DEF PkTypes, PkIdle
<1>8. PkTurn'
  <2>1. ~gDead' => Even(0)'
    BY <1>1, <1>2, <1>5 DEF Even
  <2>2. 0 < Len(g)
    BY <1>4
  <2> QED BY <1>1, <1>2, <1>6, <2>1, <2>2 DEF PkTurn
<1>9. PkSend'
  BY <1>1 DEF PkSend
<1>10. PkEnd'
  <2>1. ASSUME gPc' = "count" PROVE Ended(g, <<>>)
    <3>1. Len(g) - 0 < GHdr
      BY <1>1, <1>4, <2>1
    <3>2. 0 = Len(F) \/ Stops(g)
      BY <1>1, <1>6, <3>1, ShortRest
    <3> QED BY <1>5, <3>2 DEF Ended
  <2> QED BY <1>1, <1>2, <1>5, <2>1 DEF PkEnd
<1>11. PkDead'
  <2>1. Begins(<<>>, F)
    BY <1>4, <1>5, CatBegins
  <2> QED BY <1>1, <1>2, <2>1 DEF PkDead
<1> QED BY <1>7, <1>8, <1>9, <1>10, <1>11 DEF PkInv

\* The statistics.
LEMMA CountHolds == ASSUME Pack!SendAssumption, PkInv, Pack!Count PROVE PkInv'
<1>1. /\ gPc = "count" /\ gPc' = "wait" /\ gGood' = gSent + gPad /\ gBad' = Len(gGroup) - gSent - gPad
      /\ UNCHANGED <<gGroup, gP, gLeft, gSent, gPad, gDead, gWire, gUloop>>
  BY DEF Pack!Count, Pack!N
<1>2. gGroup # <<>>
  BY <1>1 DEF PkInv, PkIdle
<1>3. Len(gGroup) \in Nat /\ gSent \in Nat /\ gPad \in Nat /\ gSent + gPad <= Len(gGroup)
  BY <1>2, PkGroup DEF PkInv, PkTypes
<1> DEFINE n == Len(gGroup)
<1>4. gGood' \in 0 .. n /\ gBad' \in 0 .. n /\ gGood' + gBad' = n /\ gSent <= gGood'
  <2>1. n \in Nat /\ gSent + gPad <= n /\ gBad' = n - gSent - gPad
    BY <1>1, <1>3
  <2> HIDE DEF n
  <2> QED BY <1>1, <1>3, <2>1
<1>5. PkTypes' /\ PkIdle'
  BY <1>1, <1>2, <1>4 DEF PkInv, PkTypes, PkIdle
<1>6. PkTurn' /\ PkSend' /\ PkDead'
  BY <1>1 DEF PkInv, PkTurn, PkSend, PkDead
<1>7. PkEnd'
  <2>1. ~gDead => Ended(gGroup, gWire) /\ Len(gWire) = gSent
    BY <1>1, <1>2 DEF PkInv, PkEnd
  <2>2. ~gDead => Len(gWire) <= gGood'
    BY <1>4, <2>1
  <2> QED BY <1>1, <1>4, <2>1, <2>2 DEF PkEnd
<1> QED BY <1>5, <1>6, <1>7 DEF PkInv
\* How far the sender moves on in search of a header.
Skip == IF gGroup[gP + 1] # 0 THEN 0 ELSE IF Pack!Ahead = {} THEN GSearch + 1 ELSE Pack!First

\* It finds the header the dispatcher has found, or that is out of its reach.
LEMMA SkipIs ==
    ASSUME Pack!SendAssumption, PkInv, gGroup # <<>>, gP < Len(gGroup), NEW k \in Nat, Behind(gGroup, gP, k)
    PROVE  /\ Skip \in Nat
           /\ Skip <= GSearch => gP + Skip = NextAt(gGroup, gP)
           /\ Skip > GSearch => NextAt(gGroup, gP) - gP > GSearch
<1> DEFINE g == gGroup
           n == Len(gGroup)
           h == NextAt(g, gP)
<1>1. g \in Pack!Groups /\ n \in Nat /\ g \in Seq(Nat) /\ gP \in 0 .. n /\ gP < n /\ GSearch \in Nat
  BY PkGroup, SendConst DEF PkInv, PkTypes
<1>2. k < Len(Frs(g))
  BY <1>1, NotDone
<1>3. h \in gP .. n - 1 /\ Before(g, h, k) /\ \A j \in gP .. h - 1 : g[j + 1] = 0
  BY <1>1, <1>2, AtFrame
<1>4. g[h + 1] # 0
  BY <1>3 DEF Before
<1> HIDE DEF h
<1>5. CASE g[gP + 1] # 0
  <2>1. ~(gP \in gP .. h - 1)
    BY <1>3, <1>5
  <2>2. h = gP
    BY <1>1, <1>3, <2>1
  <2>3. Skip = 0
    BY <1>5 DEF Skip
  <2> QED BY <1>1, <2>2, <2>3 DEF h
<1>6. CASE g[gP + 1] = 0
  <2>1. h > gP
    <3>1. h # gP
      BY <1>4, <1>6
    <3> QED BY <1>1, <1>3, <3>1
  <2>2. \A i \in 1 .. GSearch : i \in Pack!Ahead <=> (gP + i < n /\ g[(gP + i) + 1] # 0)
    BY DEF Pack!Ahead, Pack!N
  <2>3. \A i \in Pack!Ahead : i \in 1 .. GSearch
    BY DEF Pack!Ahead
  <2>4. ASSUME NEW i \in Pack!Ahead PROVE h - gP <= i
    <3> SUFFICES ASSUME ~(h - gP <= i) PROVE FALSE
      OBVIOUS
    <3>1. i \in 1 .. GSearch
      BY <2>3
    <3>2. gP + i \in gP .. h - 1
      BY <1>1, <1>3, <3>1
    <3>3. g[(gP + i) + 1] = 0
      BY <1>3, <3>2
    <3> QED BY <2>2, <3>1, <3>3
  <2>5. CASE h - gP > GSearch
    <3>1. Pack!Ahead = {}
      <4> SUFFICES ASSUME NEW i \in Pack!Ahead PROVE FALSE
        OBVIOUS
      <4>1. i \in 1 .. GSearch /\ h - gP <= i
        BY <2>3, <2>4
      <4> QED BY <1>1, <1>3, <2>5, <4>1
    <3>2. Skip = GSearch + 1
      BY <1>6, <3>1 DEF Skip
    <3> QED BY <1>1, <2>5, <3>2 DEF h
  <2>6. CASE ~(h - gP > GSearch)
    <3> DEFINE d == h - gP
    <3>1. d \in 1 .. GSearch /\ gP + d = h /\ gP + d < n
      BY <1>1, <1>3, <2>1, <2>6
    <3>2. d \in Pack!Ahead /\ \A j \in Pack!Ahead : d <= j
      <4>1. g[(gP + d) + 1] # 0
        BY <1>4, <3>1
      <4> HIDE DEF d
      <4>2. d \in Pack!Ahead
        BY <2>2, <3>1, <4>1
      <4> QED BY <2>4, <4>2 DEF d
    <3> HIDE DEF d
    <3>3. Pack!First \in Pack!Ahead /\ \A j \in Pack!Ahead : Pack!First <= j
      BY <3>2 DEF Pack!First
    <3>4. Pack!First \in 1 .. GSearch /\ Pack!First <= d /\ d <= Pack!First
      BY <2>3, <3>2, <3>3
    <3>5. Pack!First = d
      BY <1>1, <3>1, <3>4
    <3>6. Skip = d
      BY <1>6, <3>2, <3>5 DEF Skip
    <3> QED BY <1>1, <3>1, <3>6 DEF h
  <2> QED BY <2>5, <2>6
<1> QED BY <1>5, <1>6

\* A turn of _data_send_package_ up to the call of send.
LEMMA TurnHolds == ASSUME Pack!SendAssumption, PkInv, Pack!Turn PROVE PkInv'
<1> DEFINE g == gGroup
           n == Len(gGroup)
           h == NextAt(g, gP)
           m == g[h + 1]
           F == Frs(g)
<1>1. /\ gPc = "turn"
      /\ IF Skip > GSearch THEN gPc' = "count" /\ UNCHANGED <<gP, gLeft, gPad>>
         ELSE /\ gP' = gP + Skip /\ gPad' = gPad + Skip
              /\ IF g[(gP + Skip) + 1] < GHdr THEN gPc' = "count" /\ UNCHANGED gLeft
                 ELSE gPc' = "send" /\ gLeft' = g[(gP + Skip) + 1]
      /\ UNCHANGED <<gGroup, gSent, gGood, gBad, gDead, gWire, gUloop>>
  BY DEF Pack!Turn, Skip
<1>2. g # <<>> /\ gUloop # "gone"
  BY <1>1 DEF PkInv, PkIdle
<1>3. g \in Pack!Groups /\ n \in Nat /\ F \in Seq(Seq(Nat)) /\ Len(F) \in Nat /\ GHdr \in Nat \ {0} /\ GSearch \in Nat /\ GLenMax \in Nat
  BY <1>2, PkGroup, SendConst
<1>4. gP < n /\ gSent + gPad <= gP /\ gP \in 0 .. n /\ gSent \in Nat /\ gPad \in Nat
  BY <1>1 DEF PkInv, PkTurn, PkTypes
<1>5. PICK k \in Nat : Behind(g, gP, k) /\ (~gDead => Even(k))
  BY <1>1 DEF PkInv, PkTurn
<1>6. /\ Skip \in Nat /\ (Skip <= GSearch => gP + Skip = h) /\ (Skip > GSearch => h - gP > GSearch)
  BY <1>2, <1>4, <1>5, SkipIs
<1>7. k < Len(F)
  BY <1>3, <1>4, <1>5, NotDone
<1>8. h \in gP .. n - 1 /\ Before(g, h, k)
  BY <1>3, <1>5, <1>7, AtFrame
<1>9. m \in 1 .. GLenMax /\ h + m <= n /\ k \in 0 .. Len(F)
  BY <1>3, <1>7, <1>8, BeforeIs
<1>10. PkDead'
  BY <1>1 DEF PkInv, PkDead
<1> HIDE DEF h, m
<1>11. CASE Skip > GSearch
  <2>1. gPc' = "count" /\ UNCHANGED <<gGroup, gP, gLeft, gPad, gSent, gGood, gBad, gDead, gWire, gUloop>>
    BY <1>1, <1>11
  <2>2. PkTypes' /\ PkIdle' /\ PkTurn' /\ PkSend'
    BY <1>2, <2>1 DEF PkInv, PkTypes, PkIdle, PkTurn, PkSend
  <2>3. Stops(g)
    BY <1>3, <1>4, <1>5, <1>6, <1>11, WideGap DEF h
  <2>4. ~gDead => Ended(g, gWire) /\ Len(gWire) = gSent
    BY <1>5, <1>9, <2>3 DEF Even, Ended
  <2>5. PkEnd'
    BY <2>1, <2>4 DEF PkEnd
  <2> QED BY <1>10, <2>2, <2>5 DEF PkInv
<1>12. CASE ~(Skip > GSearch)
  <2>1. /\ gP + Skip = h /\ gP' = h /\ gPad' = gPad + Skip
        /\ IF m < GHdr THEN gPc' = "count" /\ UNCHANGED gLeft ELSE gPc' = "send" /\ gLeft' = m
    <3>1. gP + Skip = h
      BY <1>3, <1>6, <1>12
    <3> QED BY <1>1, <1>12, <3>1 DEF m
  <2>2. /\ gPad' \in Nat /\ gSent + gPad' <= h /\ gP' \in 0 .. n /\ gSent + gPad' <= n
        /\ (gSent + gPad = gP => gSent + gPad' = h)
    BY <1>3, <1>4, <1>6, <1>8, <2>1
  <2>3. CASE m < GHdr
    <3>1. gPc' = "count" /\ UNCHANGED <<gGroup, gLeft, gSent, gGood, gBad, gDead, gWire, gUloop>>
      BY <1>1, <2>1, <2>3
    <3>2. PkTypes' /\ PkIdle' /\ PkTurn' /\ PkSend'
      BY <1>2, <2>2, <3>1 DEF PkInv, PkTypes, PkIdle, PkTurn, PkSend
    <3>3. Stops(g)
      BY <1>3, <1>8, <2>3, ShortFrame DEF m
    <3>4. ~gDead => Ended(g, gWire) /\ Len(gWire) = gSent
      BY <1>5, <1>9, <3>3 DEF Even, Ended
    <3>5. PkEnd'
      BY <3>1, <3>4 DEF PkEnd
    <3> QED BY <1>10, <3>2, <3>5 DEF PkInv
  <2>4. CASE ~(m < GHdr)
    <3>1. gPc' = "send" /\ gLeft' = m /\ gP' = h /\ UNCHANGED <<gGroup, gSent, gGood, gBad, gDead, gWire, gUloop>>
      BY <1>1, <2>1, <2>4
    <3>2. gLeft' \in 0 .. GLenMax /\ m - m = 0 /\ m \in 1 .. m
      BY <1>3, <1>9, <3>1
    <3>3. PkTypes' /\ PkIdle'
      BY <1>2, <2>2, <3>1, <3>2 DEF PkInv, PkTypes, PkIdle
    <3>4. PkTurn' /\ PkEnd'
      BY <3>1 DEF PkTurn, PkEnd
    <3>5. ~gDead => Part(k)'
      <4> SUFFICES ASSUME ~gDead PROVE Part(k)'
        OBVIOUS
      <4>1. gWire = CatTo(F)[k] /\ gSent = Len(gWire) /\ gSent + gPad = gP
        BY <1>5 DEF Even
      <4>2. FrameAt(h, 0) = <<>> /\ gWire \in Seq(Nat)
        BY DEF FrameAt, PkInv, PkTypes
      <4>3. gWire \o <<>> = gWire
        BY <4>2, ConcatEmptySeq
      <4>4. gWire' = CatTo(F)[k] \o FrameAt(h, m - m)
        BY <3>1, <3>2, <4>1, <4>2, <4>3
      <4> QED BY <2>2, <3>1, <4>1, <4>4 DEF Part, m
    <3>6. PkSend'
      BY <1>5, <1>8, <2>2, <3>1, <3>2, <3>5 DEF PkSend, m
    <3> QED BY <1>10, <3>3, <3>4, <3>6 DEF PkInv
  <2> QED BY <2>3, <2>4
<1> QED BY <1>11, <1>12
\* The rest of a turn, after all of frame k + 1 went out or the connection broke.
LEMMA BehindHolds ==
    ASSUME Pack!SendAssumption, PkInv, gPc = "send", NEW k \in Nat, Before(gGroup, gP, k),
           NEW rv \in 0 .. gGroup[gP + 1], Pack!Behind(rv),
           UNCHANGED <<gGroup, gGood, gBad, gUloop>>, gDead' \in BOOLEAN, gWire' \in Seq(Nat),
           gDead' => Begins(gWire', Frs(gGroup)),
           ~gDead' => /\ gWire' = CatTo(Frs(gGroup))[k + 1] /\ gSent + rv = Len(gWire')
                      /\ gSent + gPad = gP /\ rv = gGroup[gP + 1]
    PROVE  PkInv'
<1> DEFINE g == gGroup
           n == Len(gGroup)
           m == g[gP + 1]
           e == gP + m
           rest == n - e
           F == Frs(g)
<1>1. /\ gP' = e /\ gSent' = gSent + rv /\ gLeft' = 0
      /\ IF rest < GHdr THEN gPad' = gPad + rest /\ gPc' = "count"
         ELSE gPc' = (IF gSent + rv + gPad < n THEN "turn" ELSE "count") /\ UNCHANGED gPad
  BY DEF Pack!Behind, Pack!FrameLen, Pack!N
<1>2. g # <<>> /\ gUloop # "gone"
  BY DEF PkInv, PkIdle
<1>3. /\ g \in Pack!Groups /\ n \in Nat /\ Len(F) \in Nat
      /\ GHdr \in Nat \ {0} /\ GLenMax \in Nat
  BY <1>2, PkGroup, SendConst
<1>4. /\ gSent + gPad <= gP /\ gP \in Nat /\ gSent \in Nat /\ gPad \in Nat
  BY <1>3 DEF PkInv, PkSend, PkTypes
<1>5. m \in 1 .. GLenMax /\ e \in 1 .. n /\ k + 1 \in 1 .. Len(F)
  BY <1>3, BeforeIs
<1>6. Behind(g, e, k + 1)
  BY <1>3, FrameDone
<1>7. rv \in 0 .. m /\ e = gP + m /\ rest = n - e
  OBVIOUS
<1>8. ~gDead' => gSent + rv + gPad = e
  <2> SUFFICES ASSUME ~gDead' PROVE gSent + rv + gPad = e
    OBVIOUS
  <2>1. gSent + gPad = gP /\ rv = m
    OBVIOUS
  <2>2. m \in Nat
    BY <1>3, <1>5
  <2> HIDE DEF m, e
  <2> QED BY <1>4, <1>7, <2>1, <2>2
<1> HIDE DEF m, e, rest
<1>9. /\ gSent' \in Nat /\ gSent' + gPad <= e /\ rest \in Nat /\ e \in 0 .. n /\ 0 \in 0 .. GLenMax
      /\ gSent' + (gPad + rest) <= n
  BY <1>1, <1>3, <1>4, <1>5, <1>7
<1>10. PkDead'
  BY <1>1 DEF PkDead
<1>11. CASE rest < GHdr
  <2>1. gPad' = gPad + rest /\ gPc' = "count" /\ gP' = e /\ gLeft' = 0
    BY <1>1, <1>11
  <2>2. gPad' \in Nat /\ gSent' + gPad' <= n
    BY <1>4, <1>9, <2>1
  <2>3. PkTypes' /\ PkIdle' /\ PkTurn' /\ PkSend'
    BY <1>2, <1>9, <2>1, <2>2 DEF PkInv, PkTypes, PkIdle, PkTurn, PkSend
  <2>4. k + 1 = Len(F) \/ Stops(g)
    BY <1>3, <1>6, <1>7, <1>11, ShortRest
  <2>5. k + 1 \in 0 .. Len(F)
    BY <1>3, <1>5
  <2>6. ~gDead' => Ended(g, gWire')
    BY <2>4, <2>5 DEF Ended
  <2>7. ~gDead' => Len(gWire') = gSent'
    BY <1>1
  <2>8. PkEnd'
    BY <2>1, <2>6, <2>7 DEF PkEnd
  <2> QED BY <1>10, <2>3, <2>8 DEF PkInv
<1>12. CASE ~(rest < GHdr)
  <2>1. e < n /\ gSent + rv + gPad < n
    BY <1>1, <1>3, <1>4, <1>5, <1>7, <1>9, <1>12
  <2>2. gPc' = "turn" /\ gPad' = gPad /\ gP' = e /\ gLeft' = 0
    BY <1>1, <1>12, <2>1
  <2>3. gSent' + gPad' <= n
    BY <1>1, <1>3, <1>4, <1>9, <1>5, <2>1, <2>2
  <2>4. PkTypes' /\ PkIdle' /\ PkSend' /\ PkEnd'
    BY <1>2, <1>4, <1>9, <2>2, <2>3 DEF PkInv, PkTypes, PkIdle, PkSend, PkEnd
  <2>5. ~gDead' => Even(k + 1)'
    <3> SUFFICES ASSUME ~gDead' PROVE Even(k + 1)'
      OBVIOUS
    <3>1. gSent' + gPad' = gP'
      BY <1>1, <1>4, <1>7, <1>8, <2>2
    <3> QED BY <1>1, <3>1 DEF Even
  <2>6. k + 1 \in Nat /\ gSent' + gPad' <= e
    BY <1>9, <2>2
  <2>7. PkTurn'
    BY <1>6, <2>1, <2>2, <2>5, <2>6 DEF PkTurn
  <2> QED BY <1>10, <2>4, <2>7 DEF PkInv
<1> QED BY <1>11, <1>12

\* A frame in two parts.
FrameCut(h, a, j) == FrameAt(h, a) \o FrameAt(h + a, j) = FrameAt(h, a + j)

\* The next cells of a frame.
LEMMA FrameMore == ASSUME NEW h \in Nat, NEW a \in Nat, NEW j \in Nat PROVE FrameCut(h, a, j)
<1> DEFINE s == FrameAt(h, a)
           t == FrameAt(h + a, j)
           e == FrameAt(h, a + j)
<1>1. s \in Seq(Nat) /\ Len(s) = a /\ \A i \in 1 .. a : s[i] = h + i
  BY FrameIs
<1>2. t \in Seq(Nat) /\ Len(t) = j /\ \A i \in 1 .. j : t[i] = h + a + i
  <2>1. h + a \in Nat
    OBVIOUS
  <2> QED BY <2>1, FrameIs
<1>3. e \in Seq(Nat) /\ Len(e) = a + j /\ \A i \in 1 .. a + j : e[i] = h + i
  <2>1. a + j \in Nat
    OBVIOUS
  <2> QED BY <2>1, FrameIs
<1> HIDE DEF s, t, e
<1>4. /\ s \o t \in Seq(Nat) /\ Len(s \o t) = a + j
      /\ \A i \in 1 .. a + j : (s \o t)[i] = IF i <= a THEN s[i] ELSE t[i - a]
  BY <1>1, <1>2, ByteJoin
<1>5. ASSUME NEW i \in 1 .. a + j PROVE (s \o t)[i] = e[i]
  <2>1. CASE i <= a
    <3>1. i \in 1 .. a
      BY <2>1
    <3> QED BY <1>1, <1>3, <1>4, <2>1, <3>1
  <2>2. CASE ~(i <= a)
    <3>1. i - a \in 1 .. j /\ h + a + (i - a) = h + i
      BY <2>2
    <3>2. (s \o t)[i] = t[i - a] /\ t[i - a] = h + a + (i - a)
      BY <1>2, <1>4, <2>2, <3>1
    <3> QED BY <1>3, <3>1, <3>2
  <2> QED BY <2>1, <2>2
<1>6. s \o t = e
  BY <1>3, <1>4, <1>5, SeqEqual
<1> QED BY <1>6 DEF FrameCut, s, t, e

\* What is on the wire within a frame begins the group.
LEMMA PartBegins ==
    ASSUME Pack!SendAssumption, NEW g \in Pack!Groups, NEW q, NEW k \in Nat, Before(g, q, k), NEW a \in 0 .. g[q + 1]
    PROVE  /\ CatTo(Frs(g))[k] \in Seq(Nat) /\ CatTo(Frs(g))[k] \o FrameAt(q, a) \in Seq(Nat)
           /\ CatTo(Frs(g))[k + 1] = CatTo(Frs(g))[k] \o FrameAt(q, g[q + 1])
           /\ Len(CatTo(Frs(g))[k + 1]) = Len(CatTo(Frs(g))[k]) + g[q + 1]
           /\ Begins(CatTo(Frs(g))[k] \o FrameAt(q, a), Frs(g))
<1> DEFINE F == Frs(g)
           m == g[q + 1]
           c == CatTo(F)[k]
           d == CatTo(F)[k + 1]
<1>1. F \in Seq(Seq(Nat)) /\ Len(F) \in Nat
  BY GroupIs
<1>2. q \in Nat /\ k + 1 \in 1 .. Len(F) /\ m \in 1 .. GLenMax /\ GLenMax \in Nat /\ F[k + 1] = FrameAt(q, m)
  BY BeforeIs, SendConst DEF Before
<1>3. k \in 0 .. Len(F) /\ k + 1 \in 0 .. Len(F) /\ (k + 1) - 1 = k
  BY <1>1, <1>2
<1>3a. a \in 0 .. m
  OBVIOUS
<1> HIDE DEF F, m
<1>4. c \in Seq(Nat) /\ d = c \o FrameAt(q, m) /\ Begins(d, F)
  <2>1. c \in Seq(Nat)
    BY <1>1, <1>3, CatSeq
  <2>2. d = c \o F[k + 1]
    BY <1>1, <1>2, <1>3, CatStep
  <2>3. Begins(d, F)
    BY <1>1, <1>3, CatBegins
  <2> QED BY <1>2, <2>1, <2>2, <2>3
<1> HIDE DEF c, d
<1>5. a \in Nat /\ m - a \in Nat /\ a + (m - a) = m /\ m \in Nat
  BY <1>2, <1>3a
<1> DEFINE x == FrameAt(q, a)
           y == FrameAt(q + a, m - a)
<1>6. x \in Seq(Nat) /\ FrameAt(q, m) \in Seq(Nat) /\ Len(FrameAt(q, m)) = m
  BY <1>2, <1>5, FrameIs
<1>7. y \in Seq(Nat)
  <2>1. q + a \in Nat
    BY <1>2, <1>5
  <2> QED BY <1>5, <2>1, FrameIs
<1>8. x \o y = FrameAt(q, m)
  <2> DEFINE j == m - a
  <2>1. j \in Nat /\ a + j = m
    BY <1>5
  <2> HIDE DEF j
  <2>2. FrameAt(q, a) \o FrameAt(q + a, j) = FrameAt(q, a + j)
    <3>1. FrameCut(q, a, j)
      BY <1>2, <1>5, <2>1, FrameMore
    <3> QED BY <3>1 DEF FrameCut
  <2> QED BY <2>1, <2>2 DEF j
<1> HIDE DEF x, y
<1>9. (c \o x) \o y = d /\ c \o x \in Seq(Nat)
  <2>1. (c \o x) \o y = c \o (x \o y) /\ c \o x \in Seq(Nat)
    BY <1>4, <1>6, <1>7, ByteConcat
  <2> QED BY <1>4, <1>8, <2>1
<1>10. Begins(c \o x, F)
  <2> DEFINE s == c \o x
  <2>1. s \in Seq(Nat) /\ Begins(s \o y, F)
    BY <1>4, <1>9
  <2> HIDE DEF s
  <2>2. Begins(s, F)
    BY <1>1, <1>7, <2>1, BeginsPart
  <2> QED BY <2>2 DEF s
<1>11. Len(d) = Len(c) + m
  BY <1>4, <1>6, ByteJoin
<1> QED BY <1>4, <1>9, <1>10, <1>11 DEF F, m, c, d, x
\* tcp_send_data_to_client: the socket takes some of the frame.
LEMMA SendHolds == ASSUME Pack!SendAssumption, PkInv, Pack!Send PROVE PkInv'
<1> DEFINE g == gGroup
           m == g[gP + 1]
           a == m - gLeft
           F == Frs(g)
<1>1. /\ gPc = "send" /\ ~gDead /\ UNCHANGED <<gGroup, gGood, gBad, gDead, gUloop>>
      /\ \E j \in 1 .. gLeft :
            /\ gWire' = gWire \o FrameAt(gP + m - gLeft, j)
            /\ IF j = gLeft THEN Pack!Behind(m) ELSE gLeft' = gLeft - j /\ UNCHANGED <<gPc, gP, gSent, gPad>>
  BY DEF Pack!Send, Pack!FrameLen, FrameAt
<1>2. PICK j \in 1 .. gLeft :
            /\ gWire' = gWire \o FrameAt(gP + m - gLeft, j)
            /\ IF j = gLeft THEN Pack!Behind(m) ELSE gLeft' = gLeft - j /\ UNCHANGED <<gPc, gP, gSent, gPad>>
  BY <1>1
<1>3. g # <<>> /\ gUloop # "gone"
  BY <1>1 DEF PkInv, PkIdle
<1>4. g \in Pack!Groups /\ GLenMax \in Nat
  BY <1>3, PkGroup, SendConst
<1>5. gLeft \in 1 .. m /\ gSent + gPad <= gP /\ gSent \in Nat /\ gPad \in Nat /\ gLeft \in Nat
  BY <1>1, <1>4 DEF PkInv, PkSend, PkTypes
<1>6. PICK k \in Nat : Before(g, gP, k) /\ Part(k)
  BY <1>1 DEF PkInv, PkSend
<1>7. m \in 1 .. GLenMax /\ gP \in Nat
  BY <1>4, <1>6, BeforeIs
<1> DEFINE c == CatTo(F)[k]
<1>8. gWire = c \o FrameAt(gP, a) /\ gSent = Len(c) /\ gSent + gPad = gP
  BY <1>6 DEF Part
<1> HIDE DEF m
<1>9. a \in 0 .. m /\ a \in Nat /\ j \in Nat /\ a + j \in 0 .. m /\ gP + m - gLeft = gP + a /\ (j = gLeft => a + j = m) /\ gP + a \in Nat
  BY <1>2, <1>4, <1>5, <1>7
<1> HIDE DEF a
<1>10. /\ c \in Seq(Nat) /\ c \o FrameAt(gP, a + j) \in Seq(Nat)
       /\ CatTo(F)[k + 1] = c \o FrameAt(gP, m)
       /\ Len(CatTo(F)[k + 1]) = Len(c) + m
  BY <1>4, <1>6, <1>9, PartBegins DEF m
<1> HIDE DEF c
<1>11. gWire' = c \o FrameAt(gP, a + j)
  <2> DEFINE x == FrameAt(gP, a)
             y == FrameAt(gP + a, j)
  <2>1. x \in Seq(Nat) /\ y \in Seq(Nat)
    BY <1>7, <1>9, FrameIs
  <2>2. gWire' = (c \o x) \o y
    BY <1>2, <1>8, <1>9
  <2>3. x \o y = FrameAt(gP, a + j)
    <3>1. FrameCut(gP, a, j)
      BY <1>7, <1>9, FrameMore
    <3> QED BY <3>1 DEF FrameCut
  <2> HIDE DEF x, y
  <2>4. (c \o x) \o y = c \o (x \o y)
    BY <1>10, <2>1, ByteConcat
  <2> QED BY <2>2, <2>3, <2>4
<1>12. gWire' \in Seq(Nat)
  BY <1>10, <1>11
<1>13. CASE j = gLeft
  <2>1. gWire' = CatTo(F)[k + 1]
    BY <1>9, <1>10, <1>11, <1>13
  <2>2. gSent + m = Len(gWire')
    BY <1>8, <1>10, <2>1
  <2>3. Pack!Behind(m) /\ m \in 0 .. m
    BY <1>2, <1>4, <1>7, <1>13
  <2>4. gDead' \in BOOLEAN /\ ~gDead'
    BY <1>1, Zenon DEF PkInv, PkTypes
  <2> QED BY <1>1, <1>6, <1>8, <1>12, <2>1, <2>2, <2>3, <2>4, BehindHolds DEF m
<1>14. CASE j # gLeft
  <2>1. gLeft' = gLeft - j /\ UNCHANGED <<gPc, gP, gSent, gPad, gGroup, gGood, gBad, gDead, gUloop>>
    BY <1>1, <1>2, <1>14
  <2>2. gLeft' \in 1 .. m /\ gLeft' \in 0 .. GLenMax /\ m - gLeft' = a + j
    BY <1>2, <1>4, <1>5, <1>7, <1>14, <2>1 DEF a
  <2>3. PkTypes' /\ PkIdle'
    BY <1>3, <1>12, <2>1, <2>2 DEF PkInv, PkTypes, PkIdle
  <2>4. PkTurn' /\ PkEnd' /\ PkDead'
    BY <1>1, <2>1 DEF PkTurn, PkEnd, PkDead
  <2>5. Part(k)'
    BY <1>8, <1>11, <2>1, <2>2 DEF Part, m, c
  <2>6. PkSend'
    BY <1>5, <1>6, <2>1, <2>2, <2>5 DEF PkSend, m
  <2> QED BY <2>3, <2>4, <2>6 DEF PkInv
<1> QED BY <1>13, <1>14

\* send fails for good.
LEMMA FailHolds == ASSUME Pack!SendAssumption, PkInv, Pack!Fail PROVE PkInv'
<1> DEFINE g == gGroup
           m == g[gP + 1]
           a == m - gLeft
           F == Frs(g)
<1>1. /\ gPc = "send" /\ gDead' = TRUE /\ UNCHANGED <<gGroup, gGood, gBad, gWire, gUloop>>
      /\ Pack!Behind(a) \/ Pack!Behind(0)
  BY DEF Pack!Fail, Pack!FrameLen
<1>2. g # <<>>
  BY <1>1 DEF PkInv, PkIdle
<1>3. g \in Pack!Groups /\ GLenMax \in Nat
  BY <1>2, PkGroup, SendConst
<1>4. gLeft \in 1 .. m /\ gWire \in Seq(Nat)
  BY <1>1 DEF PkInv, PkSend, PkTypes
<1>5. PICK k \in Nat : Before(g, gP, k) /\ (~gDead => Part(k))
  BY <1>1 DEF PkInv, PkSend
<1>6. m \in 1 .. GLenMax
  BY <1>3, <1>5, BeforeIs
<1>7. a \in 0 .. m /\ 0 \in 0 .. m
  <2> HIDE DEF m
  <2> QED BY <1>3, <1>4, <1>6
<1>8. Begins(gWire, F)
  <2>1. CASE gDead
    BY <1>2, <2>1 DEF PkInv, PkDead
  <2>2. CASE ~gDead
    <3>1. gWire = CatTo(F)[k] \o FrameAt(gP, a)
      BY <1>5, <2>2 DEF Part
    <3>2. Begins(CatTo(F)[k] \o FrameAt(gP, a), F)
      <4> HIDE DEF a
      <4> QED BY <1>3, <1>5, <1>7, PartBegins
    <3> QED BY <3>1, <3>2
  <2> QED BY <2>1, <2>2
<1>9. PICK rv \in 0 .. m : Pack!Behind(rv)
  BY <1>1, <1>7
<1>10. gWire' \in Seq(Nat) /\ gDead' \in BOOLEAN /\ gDead' /\ Begins(gWire', F)
  BY <1>1, <1>4, <1>8
<1> QED BY <1>1, <1>5, <1>9, <1>10, BehindHolds

\* Every step keeps the invariant.
LEMMA PkStep == ASSUME Pack!SendAssumption, PkInv, [Pack!Next]_Pack!vars PROVE PkInv'
<1>1. CASE Pack!Next
  BY <1>1, EnterHolds, TurnHolds, SendHolds, FailHolds, CountHolds, FreshHolds, UloopHolds DEF Pack!Next
<1>2. CASE UNCHANGED Pack!vars
  <2>1. UNCHANGED <<gGroup, gPc, gP, gLeft, gSent, gPad, gGood, gBad, gDead, gWire, gUloop>>
    BY <1>2 DEF Pack!vars
  <2>2. PkTypes' /\ PkIdle'
    BY <2>1 DEF PkInv, PkTypes, PkIdle
  <2>3. PkTurn' /\ PkSend'
    BY <2>1 DEF PkInv, PkTurn, PkSend, Even, Part
  <2>4. PkEnd' /\ PkDead'
    BY <2>1 DEF PkInv, PkEnd, PkDead
  <2> QED BY <2>2, <2>3, <2>4 DEF PkInv
<1> QED BY <1>1, <1>2
\* Of no group there are no frames.
LEMMA NoFrames == Frs(<<>>) = <<>> /\ CatTo(<<>>)[0] = <<>>
<1>1. <<>> \in Seq(Nat) /\ Len(<<>>) = 0 /\ <<>> \in Seq(Seq(Nat)) /\ 0 \in 0 .. Len(<<>>)
  OBVIOUS
<1>2. NextAt(<<>>, 0) \in 0 .. Len(<<>>)
  BY <1>1, NextIs
<1>3. NextAt(<<>>, 0) = Len(<<>>)
  BY <1>1, <1>2
<1>4. Walk(<<>>)[0] = WalkStep(<<>>, Walk(<<>>), 0)
  BY <1>1, WalkIs
<1>5. Walk(<<>>)[0] = <<>>
  BY <1>3, <1>4 DEF WalkStep
<1>6. CatTo(<<>>)[0] = <<>>
  BY <1>1, CatStep
<1> QED BY <1>5, <1>6 DEF Frs

\* What is on the wire begins the frames of the group, and ends with the end of one when
\* none is being sent.
LEMMA WireIs ==
    ASSUME Pack!SendAssumption, PkInv
    PROVE  /\ Frs(gGroup) \in Seq(Seq(Nat)) /\ Begins(gWire, Frs(gGroup))
           /\ gPc # "send" /\ ~gDead => \E k \in 0 .. Len(Frs(gGroup)) : gWire = CatTo(Frs(gGroup))[k]
<1> DEFINE F == Frs(gGroup)
<1>1. CASE gGroup = <<>>
  <2>1. gWire = <<>> /\ F = <<>>
    BY <1>1, NoFrames DEF PkInv, PkIdle
  <2>2. <<>> \in Seq(Seq(Nat)) /\ Len(<<>>) = 0 /\ 0 \in 0 .. Len(<<>>) /\ CatTo(<<>>)[0] = <<>>
    BY NoFrames
  <2>3. Begins(CatTo(<<>>)[0], <<>>)
    BY <2>2, CatBegins
  <2> QED BY <2>1, <2>2, <2>3
<1>2. CASE gGroup # <<>>
  <2>1. gGroup \in Pack!Groups /\ F \in Seq(Seq(Nat)) /\ Len(F) \in Nat
    BY <1>2, PkGroup
  <2>2. ASSUME gPc # "send", ~gDead PROVE \E k \in 0 .. Len(F) : gWire = CatTo(F)[k]
    <3>1. CASE gPc = "turn"
      <4>1. PICK k \in Nat : Behind(gGroup, gP, k) /\ Even(k)
        BY <2>2, <3>1 DEF PkInv, PkTurn
      <4> QED BY <4>1 DEF Behind, Even
    <3>2. CASE gPc \in {"count", "wait"}
      BY <1>2, <2>2, <3>2 DEF PkInv, PkEnd, Ended
    <3> QED BY <2>2, <3>1, <3>2 DEF PkInv, PkTypes
  <2>3. Begins(gWire, F)
    <3>1. CASE gDead
      BY <1>2, <3>1 DEF PkInv, PkDead
    <3>2. CASE ~gDead /\ gPc # "send"
      <4> HIDE DEF F
      <4> QED BY <2>1, <2>2, <3>2, CatBegins
    <3>3. CASE ~gDead /\ gPc = "send"
      <4> DEFINE m == gGroup[gP + 1]
                 a == m - gLeft
      <4>1. PICK k \in Nat : Before(gGroup, gP, k) /\ Part(k)
        BY <3>3 DEF PkInv, PkSend
      <4>2. gLeft \in 1 .. m
        BY <3>3 DEF PkInv, PkSend
      <4>3. m \in 1 .. GLenMax /\ GLenMax \in Nat
        BY <2>1, <4>1, BeforeIs, SendConst
      <4>4. a \in 0 .. m
        <5> HIDE DEF m
        <5> QED BY <4>2, <4>3
      <4>5. gWire = CatTo(F)[k] \o FrameAt(gP, a)
        BY <4>1 DEF Part
      <4> HIDE DEF a
      <4> QED BY <2>1, <4>1, <4>4, <4>5, PartBegins
    <3> QED BY <3>1, <3>2, <3>3
  <2> QED BY <2>1, <2>2, <2>3
<1> QED BY <1>1, <1>2

\* The invariant says what the runs check.
LEMMA PkMeans == ASSUME Pack!SendAssumption, PkInv PROVE Pack!SendSound
<1> DEFINE F == Frs(gGroup)
           n == Len(gGroup)
<1>1. /\ F \in Seq(Seq(Nat)) /\ Begins(gWire, F) /\ gWire \in Seq(Nat)
      /\ gPc # "send" /\ ~gDead => \E k \in 0 .. Len(F) : gWire = CatTo(F)[k]
  BY WireIs DEF PkInv, PkTypes
<1>2. Pack!FramesOf(gGroup) = F
  BY FramesIs DEF Frs
<1>3. n \in Nat
  <2>1. CASE gGroup = <<>>
    BY <2>1
  <2>2. CASE gGroup # <<>>
    BY <2>2, PkGroup
  <2> QED BY <2>1, <2>2
<1>4. Pack!TypeOK
  <2>1. gSent \in 0 .. n /\ gPad \in 0 .. n
    <3>1. gSent \in Nat /\ gPad \in Nat /\ gSent + gPad <= n
      BY DEF PkInv, PkTypes
    <3> HIDE DEF n
    <3> QED BY <1>3, <3>1
  <2> QED BY <2>1 DEF PkInv, PkTypes, Pack!TypeOK, Pack!N
<1>5. Pack!Framing
  <2> HIDE DEF F
  <2>1. Len(gWire) <= Len(Pack!Flat(F)) /\ gWire = SubSeq(Pack!Flat(F), 1, Len(gWire))
    BY <1>1, BeginsMeans
  <2>2. ASSUME gPc # "send", ~gDead PROVE \E k \in 0 .. Len(F) : gWire = Pack!Flat(SubSeq(F, 1, k))
    <3>1. PICK k \in 0 .. Len(F) : gWire = CatTo(F)[k]
      BY <1>1, <2>2
    <3>2. Pack!Flat(SubSeq(F, 1, k)) = CatTo(F)[k]
      BY <1>1, CatTake
    <3> QED BY <3>1, <3>2
  <2> QED BY <1>2, <2>1, <2>2, Zenon DEF Pack!Framing, Pack!Frames
<1>6. Pack!AllSent
  <2> SUFFICES ASSUME gPc = "wait", ~gDead,
                      \A k \in 1 .. Len(F) : Len(F[k]) >= GHdr /\ Pack!Gap(k) <= GSearch
               PROVE  gWire = Pack!Flat(F)
    BY <1>2 DEF Pack!AllSent, Pack!Frames
  <2>1. Pack!Flat(F) = CatTo(F)[Len(F)]
    BY CatIs
  <2>2. CASE gGroup = <<>>
    <3>1. gWire = <<>> /\ F = <<>>
      BY <2>2, NoFrames DEF PkInv, PkIdle
    <3>2. Len(<<>>) = 0
      OBVIOUS
    <3> HIDE DEF F
    <3> QED BY <2>1, <3>1, <3>2, NoFrames
  <2>3. CASE gGroup # <<>>
    <3>1. Ended(gGroup, gWire)
      BY <2>3 DEF PkInv, PkEnd
    <3>2. \A k : Pack!Gap(k) = GapAt(gGroup, k)
      BY <1>2 DEF Pack!Gap, GapAt
    <3>3. ~Stops(gGroup)
      BY <3>2, Zenon DEF Stops
    <3> QED BY <2>1, <3>1, <3>3, Zenon DEF Ended
  <2> QED BY <2>2, <2>3
<1>7. Pack!Accounted
  BY DEF PkInv, PkEnd, Pack!Accounted, Pack!N
<1> QED BY <1>4, <1>5, <1>6, <1>7 DEF Pack!SendSound

\* Whatever the group, the connection and the moment it breaks: what the sender thread
\* puts on the wire is the frames the dispatcher has found, in order and whole up to the
\* one at hand; a connection that holds gets all of them, unless a frame is too short or
\* a gap wider than the search; and the statistics count every byte of the group once
\* (_data_send_package_, tcp_send_data_to_client, _send_vec_entry).
THEOREM SendingStaysSound == (Pack!Spec => []Pack!SendSound) /\ (MCSpec => []SendSound)
<1>1. Pack!Init => PkInv
  BY MCDataAssumption, PkInit
<1>2. PkInv /\ [Pack!Next]_Pack!vars => PkInv'
  BY MCDataAssumption, PkStep
<1>3. PkInv => Pack!SendSound /\ SendSound
  BY MCDataAssumption, PkMeans DEF SendSound
<1>4. MCInit => Pack!Init
  BY DEF MCInit
<1>5. [MCNext]_mcVars => [Pack!Next]_Pack!vars
  BY DataParts
<1> QED BY <1>1, <1>2, <1>3, <1>4, <1>5, PTL DEF Pack!Spec, MCSpec
=============================================================================
