-------------------------- MODULE BitfileLoadProofs --------------------------
(***************************************************************************)
(* Proofs about BitfileLoad, for any number of connections, slots, chips,    *)
(* descriptors, chunks and LOAD commands.  One inductive invariant ties the   *)
(* sections of the connections to the descriptor table, a second one the      *)
(* files to what their connections have sent, a third the states shown to     *)
(* the transfers and the chips.                                               *)
(***************************************************************************)
EXTENDS BitfileLoad, FiniteSetTheorems, SequenceTheorems, TLAPS

FileType == [ use : {"file"}, chip : Chips, pos : Nat, by : Clients ]

SectionType ==
    [ sock : Fds \cup {0}, run : BOOLEAN, ok : BOOLEAN, chip : ChipIds \cup {NoChip},
      fd : Fds \cup {0}, len : 0 .. MaxLen, off : 0 .. 2 * MaxLen, no : 0 .. MaxLoad,
      sent : 0 .. 2 * MaxLen ]

ChipType == [ no : 0 .. MaxLoad, data : Seq(Chunks), good : BOOLEAN ]

SlotType == [ load : {"wait_load", "loading", "load_ok", "load_err"}, count : Nat ]

OutOK ==
    /\ out.dev \in {"same", "loading", "load_ok", "load_err", "link_err"}
    /\ out.link \in {"same", "link_ok", "link_err"}
    /\ out.cmd \in {"none", "load", "transfer", "unload"}

\* The tables in full; a section counts what its file has got, and the section
\* of nobody is fresh.
TypeInv ==
    /\ fdt \in [Fds -> {Free, Sock} \cup FileType]
    /\ file \in [Chips -> Seq(Chunks)]
    /\ cl \in [Clients -> SectionType]
    /\ loads \in 0 .. MaxLoad
    /\ chip \in [Chips -> ChipType]
    /\ slot \in [Slots -> SlotType]
    /\ OutOK
    /\ hurt \subseteq Accidents
    /\ \A c \in Clients :
          /\ cl[c].sent = cl[c].off
          /\ cl[c].run => cl[c].off <= cl[c].len
          /\ cl[c].sock = 0 => cl[c] = Fresh

\* Every connection has a socket of its own, and every open file its connection.
FdInv ==
    Alive =>
        /\ \A c \in Connected : fdt[cl[c].sock] = Sock
        /\ \A c, d \in Connected : cl[c].sock = cl[d].sock => c = d
        /\ "leak" \notin hurt =>
              \A f \in Fds : fdt[f] \notin {Free, Sock} =>
                  fdt[f].by \in Connected /\ cl[fdt[f].by].fd = f

\* The first n chunks sent for LOAD command k.
Sent(k, n) == [i \in 1 .. n |-> <<k, i>>]

\* The file that connection c loads chip x from holds what was sent so far.
FileOf(c) ==
    /\ fdt[cl[c].fd].chip = cl[c].chip
    /\ fdt[cl[c].fd].pos = cl[c].sent
    /\ file[cl[c].chip] = Sent(cl[c].no, cl[c].sent)

Unshared == Alive /\ hurt \cap {"shared", "replay"} = {}

\* No two connections have the same file open, and the file of a transfer and
\* the data of a chip are what one LOAD command announced.
ByteInv ==
    Unshared =>
        /\ \A c, d \in Clients :
              Holds(c) /\ Holds(d) /\ fdt[cl[c].fd].chip = fdt[cl[d].fd].chip => c = d
        /\ \A c \in Clients : Holds(c) /\ cl[c].run /\ cl[c].chip \in Chips => FileOf(c)
        /\ \A x \in Chips : \E n \in Nat : chip[x].data = Sent(chip[x].no, n)

\* Somebody with an open file is loading a chip of slot s.
Busy(s) == \E c \in Clients : Holds(c) /\ cl[c].run /\ SlotOf(cl[c].chip) = s

BusyInv ==
    Alive /\ hurt \cap {"leak", "abandoned", "unverified", "link"} = {} =>
        \A s \in Slots : slot[s].load = "loading" => Busy(s)

\* The chips of slot s that hold a verified file.
Loaded(s) == {x \in Chips : SlotOf(x) = s /\ chip[x].good}

\* A slot counts its loaded chips.
CountInv ==
    Alive /\ hurt \cap {"uneven", "unverified", "link"} = {} =>
        \A s \in Cards :
            /\ IsFiniteSet(Loaded(s))
            /\ slot[s].count = Cardinality(Loaded(s))
            /\ slot[s].load = "load_ok" => Loaded(s) # {}
            /\ slot[s].load = "wait_load" => Loaded(s) = {}
-----------------------------------------------------------------------------
(* The operators.                                                            *)

\* The constants, for the arithmetic below.
LEMMA ConstFacts ==
    /\ 0 \in Slots /\ Slots \subseteq Nat /\ Cards \subseteq Slots
    /\ MaxLen \in Nat /\ MaxLoad \in Nat /\ NFds \in Nat
    /\ 2 * MaxLen \in Nat /\ 0 \notin Fds
BY LoadAssumption DEF Fds

\* A descriptor is free, a socket or a file, and only one of these.
LEMMA UseFacts ==
    /\ Free # Sock
    /\ \A h \in FileType : h # Free /\ h # Sock
<1>1. Free.use = "free" /\ Sock.use = "sock"
  BY DEF Free, Sock
<1>2. \A h \in FileType : h.use = "file"
  BY DEF FileType
<1> QED
  BY <1>1, <1>2

\* Every chip id, of an empty slot or not, names a slot.
LEMMA SlotFacts ==
    /\ \A x \in ChipIds \cup {NoChip} : SlotOf(x) \in Slots
    /\ Chips \subseteq ChipIds
    /\ \A x \in Chips : SlotOf(x) \in Cards
<1>1. \A x \in ChipIds : SlotOf(x) \in Slots
  BY DEF ChipIds, SlotOf
<1>2. SlotOf(NoChip) = 0
  BY DEF NoChip, SlotOf
<1>3. Chips \subseteq ChipIds
  BY ConstFacts DEF Chips, ChipIds
<1>4. \A x \in Chips : SlotOf(x) \in Cards
  BY DEF Chips, SlotOf
<1> QED
  BY <1>1, <1>2, <1>3, <1>4, ConstFacts

\* Sent(k, n) is a sequence of n chunks.
LEMMA SentFacts ==
    ASSUME NEW k, NEW n \in Nat
    PROVE  /\ Len(Sent(k, n)) = n
           /\ \A i \in 1 .. n : Sent(k, n)[i] = <<k, i>>
<1>1. Sent(k, n) \in [1 .. n -> {k} \X Nat]
  BY DEF Sent
<1>2. Sent(k, n) \in Seq({k} \X Nat)
  BY <1>1
<1>3. DOMAIN Sent(k, n) = 1 .. n
  BY DEF Sent
<1> QED
  BY <1>2, <1>3 DEF Sent

\* What is written to a file are chunks.
LEMMA WrittenType ==
    ASSUME NEW s \in Seq(Chunks), NEW p \in Nat, NEW n \in Nat, NEW d,
           \A i \in 1 .. n : d[i] \in Chunks, Len(d) = n
    PROVE  Written(s, p, d) \in Seq(Chunks)
<1> DEFINE m == IF Len(s) > p + Len(d) THEN Len(s) ELSE p + Len(d)
           e(i) == IF p < i /\ i <= p + Len(d) THEN d[i - p]
                   ELSE IF i <= Len(s) THEN s[i] ELSE <<0, 0>>
<1>1. m \in Nat /\ Len(s) \in Nat /\ \A i \in 1 .. Len(s) : s[i] \in Chunks
  OBVIOUS
<1>2. <<0, 0>> \in Chunks
  BY ConstFacts DEF Chunks
<1>3. ASSUME NEW i \in 1 .. m PROVE e(i) \in Chunks
  <2>1. CASE p < i /\ i <= p + Len(d)
    <3>1. i - p \in 1 .. n
      BY <2>1
    <3>2. d[i - p] \in Chunks
      BY <3>1
    <3> QED
      BY <2>1, <3>2
  <2>2. CASE ~(p < i /\ i <= p + Len(d)) /\ i <= Len(s)
    <3>1. i \in 1 .. Len(s)
      BY <2>2, <1>1
    <3> QED
      BY <1>1, <2>2, <3>1
  <2>3. CASE ~(p < i /\ i <= p + Len(d)) /\ ~(i <= Len(s))
    BY <1>2, <2>3
  <2> QED
    BY <2>1, <2>2, <2>3
<1>4. Written(s, p, d) = [i \in 1 .. m |-> e(i)]
  BY DEF Written
<1> HIDE DEF m, e
<1>5. [i \in 1 .. m |-> e(i)] \in [1 .. m -> Chunks]
  BY <1>3
<1>6. [i \in 1 .. m |-> e(i)] \in Seq(Chunks)
  BY <1>1, <1>5
<1> QED
  BY <1>4, <1>6

\* A portion of n chunks behind the first p ones.
LEMMA WrittenBehind ==
    ASSUME NEW k, NEW p \in Nat, NEW n \in Nat
    PROVE  Written(Sent(k, p), p, [i \in 1 .. n |-> <<k, p + i>>]) = Sent(k, p + n)
<1> DEFINE d == [i \in 1 .. n |-> <<k, p + i>>]
           s == Sent(k, p)
<1>1. Len(s) = p /\ \A i \in 1 .. p : s[i] = <<k, i>>
  BY SentFacts
<1>2. Len(d) = n
  <2>1. d \in [1 .. n -> {k} \X Nat]
    OBVIOUS
  <2>2. d \in Seq({k} \X Nat)
    BY <2>1
  <2>3. DOMAIN d = 1 .. n
    OBVIOUS
  <2> HIDE DEF d
  <2> QED
    BY <2>2, <2>3
<1>3. \A i \in 1 .. n : d[i] = <<k, p + i>>
  OBVIOUS
<1> HIDE DEF d, s
<1>4. ASSUME NEW i \in 1 .. p + n
      PROVE  (IF p < i /\ i <= p + Len(d) THEN d[i - p]
              ELSE IF i <= Len(s) THEN s[i] ELSE <<0, 0>>) = <<k, i>>
  <2>1. CASE p < i
    <3>1. i - p \in 1 .. n /\ p + (i - p) = i /\ i <= p + n
      BY <2>1
    <3>2. d[i - p] = <<k, i>>
      BY <1>3, <3>1
    <3> QED
      BY <1>2, <2>1, <3>1, <3>2
  <2>2. CASE ~(p < i)
    <3>1. i \in 1 .. p
      BY <2>2
    <3> QED
      BY <1>1, <2>2, <3>1
  <2> QED
    BY <2>1, <2>2
<1>5. (IF Len(s) > p + Len(d) THEN Len(s) ELSE p + Len(d)) = p + n
  BY <1>1, <1>2
<1>6. Written(s, p, d) =
        [i \in 1 .. p + n |-> IF p < i /\ i <= p + Len(d) THEN d[i - p]
                              ELSE IF i <= Len(s) THEN s[i] ELSE <<0, 0>>]
  BY <1>5 DEF Written
<1>7. Written(s, p, d) = Sent(k, p + n)
  <2> DEFINE e(i) == IF p < i /\ i <= p + Len(d) THEN d[i - p]
                     ELSE IF i <= Len(s) THEN s[i] ELSE <<0, 0>>
  <2>1. \A i \in 1 .. p + n : e(i) = <<k, i>>
    BY <1>4
  <2>2. Written(s, p, d) = [i \in 1 .. p + n |-> e(i)]
    BY <1>6
  <2> HIDE DEF e
  <2>3. [i \in 1 .. p + n |-> e(i)] = [i \in 1 .. p + n |-> <<k, i>>]
    BY <2>1
  <2> QED
    BY <2>2, <2>3 DEF Sent
<1> QED
  BY <1>7 DEF d, s

\* What a slot shows after ns_downlink_set_loadbit_result.
LEMMA SetLoadFacts ==
    ASSUME TypeInv, NEW s \in Slots, NEW st \in {"wait_load", "loading", "load_ok", "load_err"},
           slot' = SetLoad(s, st)
    PROVE  /\ slot' \in [Slots -> SlotType]
           /\ \A t \in Slots : t # s => slot'[t] = slot[t]
           /\ st \in {"loading", "load_err"} => slot'[s].load = st /\ slot'[s].count = slot[s].count
           /\ st = "load_ok" => slot'[s].load = st /\ slot'[s].count = slot[s].count + 1
           /\ st = "wait_load" =>
                 /\ slot'[s].count = IF slot[s].count = 0 THEN 0 ELSE slot[s].count - 1
                 /\ slot'[s].load = IF slot'[s].count = 0 THEN st ELSE slot[s].load
<1>1. slot \in [Slots -> SlotType] /\ slot[s] \in SlotType /\ slot[s].count \in Nat
  BY DEF TypeInv, SlotType
<1>2. PICK n \in Nat : n = IF slot[s].count = 0 THEN 0 ELSE slot[s].count - 1
  BY <1>1
<1>3. /\ [slot[s] EXCEPT !.load = st] \in SlotType
      /\ [slot[s] EXCEPT !.load = st, !.count = slot[s].count + 1] \in SlotType
      /\ [slot[s] EXCEPT !.count = n, !.load = IF n = 0 THEN st ELSE slot[s].load] \in SlotType
  <2> DEFINE SS == {"wait_load", "loading", "load_ok", "load_err"}
  <2>1. slot[s] \in [load : SS, count : Nat] /\ st \in SS
        /\ (IF n = 0 THEN st ELSE slot[s].load) \in SS /\ slot[s].count + 1 \in Nat
    BY <1>1 DEF SlotType
  <2> HIDE DEF SS
  <2>2. /\ [slot[s] EXCEPT !.load = st] \in [load : SS, count : Nat]
        /\ [slot[s] EXCEPT !.load = st, !.count = slot[s].count + 1] \in [load : SS, count : Nat]
        /\ [slot[s] EXCEPT !.count = n, !.load = IF n = 0 THEN st ELSE slot[s].load] \in [load : SS, count : Nat]
    BY <2>1
  <2> QED
    BY <2>2 DEF SlotType, SS
<1>4. CASE st \in {"loading", "load_err"}
  <2>1. slot' = [slot EXCEPT ![s].load = st]
    BY <1>4 DEF SetLoad
  <2> QED
    BY <1>1, <1>3, <1>4, <2>1 DEF SlotType
<1>5. CASE st = "load_ok"
  <2>1. slot' = [slot EXCEPT ![s].load = st, ![s].count = slot[s].count + 1]
    BY <1>5 DEF SetLoad
  <2>2. slot'[s] = [slot[s] EXCEPT !.load = st, !.count = slot[s].count + 1]
    BY <1>1, <2>1
  <2> QED
    BY <1>1, <1>3, <1>5, <2>1, <2>2 DEF SlotType
<1>6. CASE st = "wait_load"
  <2>1. slot' = [slot EXCEPT ![s].count = n, ![s].load = IF n = 0 THEN st ELSE slot[s].load]
    BY <1>2, <1>6 DEF SetLoad
  <2>2. slot'[s] = [slot[s] EXCEPT !.count = n, !.load = IF n = 0 THEN st ELSE slot[s].load]
    BY <1>1, <2>1
  <2>3. slot'[s].count = n /\ slot'[s].load = IF n = 0 THEN st ELSE slot[s].load
    BY <1>1, <2>2 DEF SlotType
  <2> QED
    BY <1>1, <1>2, <1>3, <1>6, <2>1, <2>2, <2>3
<1> QED
  BY <1>4, <1>5, <1>6

\* close, of a number that may be none.
LEMMA ShutFacts ==
    ASSUME TypeInv, NEW f \in Fds \cup {0}
    PROVE  /\ Shut(fdt, f) \in [Fds -> {Free, Sock} \cup FileType]
           /\ \A g \in Fds : g # f => Shut(fdt, f)[g] = fdt[g]
           /\ f # 0 => Shut(fdt, f)[f] = Free
<1>1. fdt \in [Fds -> {Free, Sock} \cup FileType]
  BY DEF TypeInv
<1>2. CASE f = 0
  BY <1>1, <1>2, ConstFacts DEF Shut
<1>3. CASE f # 0
  BY <1>1, <1>3, ConstFacts DEF Shut
<1> QED
  BY <1>2, <1>3

\* The answer and the states of a transfer that has failed.
LEMMA FailedFacts ==
    ASSUME TypeInv, NEW x \in ChipIds \cup {NoChip}, NEW ans, Failed(x, ans)
    PROVE  /\ slot' \in [Slots -> SlotType] /\ chip' = chip /\ OutOK'
           /\ SlotOf(x) \in Slots
           /\ slot'[SlotOf(x)].load = "load_err" /\ slot'[SlotOf(x)].count = slot[SlotOf(x)].count
           /\ \A t \in Slots : t # SlotOf(x) => slot'[t] = slot[t]
<1>1. SlotOf(x) \in Slots /\ slot' = SetLoad(SlotOf(x), "load_err") /\ chip' = chip
  BY SlotFacts DEF Failed
<1>2. OutOK'
  BY DEF Failed, Did, OutOK
<1> QED
  BY <1>1, <1>2, SetLoadFacts

\* What the verdict on contents s, sent by client c for chip x, changes.
Verdict(c, x, s) ==
    /\ \A t \in Slots : t # SlotOf(x) => slot'[t] = slot[t]
    /\ \A y \in Chips : y # x => chip'[y] = chip[y]
    /\ chip'[x] = chip[x] \/ (chip'[x].no = cl[c].no /\ chip'[x].data = s)
    /\ hurt' \cap (Fatal \cup {"unverified", "link"}) = {} =>
          slot'[SlotOf(x)].load \in {"load_ok", "load_err"}
    /\ hurt' \cap (Fatal \cup {"unverified", "link", "uneven"}) = {} =>
          \/ /\ chip'[x].good = chip[x].good
             /\ slot'[SlotOf(x)].load = "load_err"
             /\ slot'[SlotOf(x)].count = slot[SlotOf(x)].count
          \/ /\ ~chip[x].good /\ chip'[x].good
             /\ slot'[SlotOf(x)].load = "load_ok"
             /\ slot'[SlotOf(x)].count = slot[SlotOf(x)].count + 1

\* The FPGA gets the contents of the file, and the verdict is shown.
LEMMA LoadFileFacts ==
    ASSUME TypeInv, NEW c \in Clients, NEW x \in Chips, x = cl[c].chip, NEW s \in Seq(Chunks),
           NEW before \in SUBSET Accidents, LoadFile(c, x, s, before)
    PROVE  /\ slot' \in [Slots -> SlotType] /\ chip' \in [Chips -> ChipType] /\ OutOK'
           /\ hurt' \subseteq Accidents /\ before \subseteq hurt'
           /\ Verdict(c, x, s)
<1>t. /\ SlotOf(x) \in Slots /\ chip \in [Chips -> ChipType] /\ chip[x] \in ChipType
      /\ x \in ChipIds /\ slot \in [Slots -> SlotType] /\ OutOK
  BY SlotFacts, ConstFacts DEF TypeInv
<1>g. cl[c].no \in 0 .. MaxLoad /\ chip[x].good \in BOOLEAN
  BY <1>t DEF TypeInv, SectionType, ChipType
<1> DEFINE h == before \cup Note("uneven", chip[x].good)
<1>h. before \subseteq h /\ h \subseteq Accidents /\ ("uneven" \notin h => ~chip[x].good)
  BY DEF Note, Accidents
<1>i. ASSUME NEW g \in BOOLEAN, IntoFpga(c, s, g)
      PROVE  /\ chip' \in [Chips -> ChipType] /\ \A y \in Chips : y # x => chip'[y] = chip[y]
             /\ chip'[x].no = cl[c].no /\ chip'[x].data = s /\ chip'[x].good = g
  <2>1. [no |-> cl[c].no, data |-> s, good |-> g] \in ChipType
    BY <1>g DEF ChipType
  <2> QED
    BY <1>i, <1>t, <2>1 DEF IntoFpga
<1>1. CASE /\ Failed(x, << Answer("rsp_load", x, -5) >>) /\ hurt' = before
  <2>1. chip' = chip
    BY <1>1, <1>t, FailedFacts
  <2> QED
    BY <1>1, <1>t, <2>1, FailedFacts DEF Verdict
<1>2. CASE hurt' = h \cup {"empty"} /\ UNCHANGED <<chip, slot, out>>
  <2>1. hurt' \subseteq Accidents /\ before \subseteq hurt' /\ "empty" \in hurt' \cap Fatal
    BY <1>2, <1>h DEF Accidents, Fatal
  <2>2. OutOK'
    BY <1>2, <1>t DEF OutOK
  <2> HIDE DEF h
  <2> QED
    BY <1>2, <1>t, <2>1, <2>2 DEF Verdict
<1>3. CASE /\ IntoFpga(c, s, FALSE) /\ Reply(x, 0, "same", "same")
           /\ hurt' = h \cup {"unverified"} /\ UNCHANGED slot
  <2>1. hurt' \subseteq Accidents /\ before \subseteq hurt' /\ "unverified" \in hurt'
    BY <1>3, <1>h DEF Accidents
  <2>2. OutOK'
    BY <1>3 DEF OutOK, Reply, Did
  <2> HIDE DEF h
  <2> QED
    BY <1>3, <1>t, <1>i, <2>1, <2>2 DEF Verdict
<1>4. CASE /\ IntoFpga(c, s, FALSE) /\ slot' = SetLoad(SlotOf(x), "load_err")
           /\ Reply(x, -5, "load_err", "same") /\ hurt' = h
  <2>1. hurt' \subseteq Accidents /\ before \subseteq hurt' /\ ("uneven" \notin hurt' => chip[x].good = FALSE)
    BY <1>4, <1>h, <1>g
  <2>2. OutOK'
    BY <1>4 DEF OutOK, Reply, Did
  <2>3. /\ slot' \in [Slots -> SlotType] /\ \A t \in Slots : t # SlotOf(x) => slot'[t] = slot[t]
        /\ slot'[SlotOf(x)].load = "load_err" /\ slot'[SlotOf(x)].count = slot[SlotOf(x)].count
    BY <1>4, <1>t, SetLoadFacts
  <2>4. /\ chip' \in [Chips -> ChipType] /\ \A y \in Chips : y # x => chip'[y] = chip[y]
        /\ chip'[x].no = cl[c].no /\ chip'[x].data = s /\ chip'[x].good = FALSE
    BY <1>4, <1>i
  <2> HIDE DEF h
  <2> QED
    BY <1>t, <2>1, <2>2, <2>3, <2>4 DEF Verdict
<1>5. CASE /\ IntoFpga(c, s, TRUE) /\ Reply(x, -7, "link_err", "link_err")
           /\ hurt' = h \cup {"link"} /\ UNCHANGED slot
  <2>1. hurt' \subseteq Accidents /\ before \subseteq hurt' /\ "link" \in hurt'
    BY <1>5, <1>h DEF Accidents
  <2>2. OutOK'
    BY <1>5 DEF OutOK, Reply, Did
  <2> HIDE DEF h
  <2> QED
    BY <1>5, <1>t, <1>i, <2>1, <2>2 DEF Verdict
<1>6. CASE /\ IntoFpga(c, s, TRUE) /\ slot' = SetLoad(SlotOf(x), "load_ok")
           /\ Reply(x, 0, "load_ok", IF LinkChecked(x) THEN "link_ok" ELSE "same") /\ hurt' = h
  <2>1. hurt' \subseteq Accidents /\ before \subseteq hurt' /\ ("uneven" \notin hurt' => ~chip[x].good)
    BY <1>6, <1>h
  <2>2. OutOK'
    BY <1>6 DEF OutOK, Reply, Did
  <2>3. /\ slot' \in [Slots -> SlotType] /\ \A t \in Slots : t # SlotOf(x) => slot'[t] = slot[t]
        /\ slot'[SlotOf(x)].load = "load_ok" /\ slot'[SlotOf(x)].count = slot[SlotOf(x)].count + 1
    BY <1>6, <1>t, SetLoadFacts
  <2>4. /\ chip' \in [Chips -> ChipType] /\ \A y \in Chips : y # x => chip'[y] = chip[y]
        /\ chip'[x].no = cl[c].no /\ chip'[x].data = s /\ chip'[x].good = TRUE
    BY <1>6, <1>i
  <2> HIDE DEF h
  <2> QED
    BY <1>t, <2>1, <2>2, <2>3, <2>4 DEF Verdict
<1> QED
  BY <1>1, <1>2, <1>3, <1>4, <1>5, <1>6 DEF LoadFile
-----------------------------------------------------------------------------
(* What each command does to the descriptors and the sections.               *)

\* The sections when only that of client c has changed, to r.
Becomes(c, r) ==
    /\ r \in SectionType /\ cl' \in [Clients -> SectionType] /\ cl'[c] = r
    /\ \A d \in Clients : d # c => cl'[d] = cl[d]

\* A step that makes one section r, and leaves the tables in order.
LEMMA TypeFrame ==
    ASSUME TypeInv, NEW c \in Clients, NEW r, Becomes(c, r),
           r.sent = r.off, r.run => r.off <= r.len, r.sock = 0 => r = Fresh,
           fdt' \in [Fds -> {Free, Sock} \cup FileType], file' \in [Chips -> Seq(Chunks)],
           loads' \in 0 .. MaxLoad, chip' \in [Chips -> ChipType], slot' \in [Slots -> SlotType],
           OutOK', hurt' \subseteq Accidents
    PROVE  TypeInv'
<1>1. \A d \in Clients : /\ cl'[d].sent = cl'[d].off /\ (cl'[d].run => cl'[d].off <= cl'[d].len)
                         /\ (cl'[d].sock = 0 => cl'[d] = Fresh)
  <2> SUFFICES ASSUME NEW d \in Clients
               PROVE  /\ cl'[d].sent = cl'[d].off /\ (cl'[d].run => cl'[d].off <= cl'[d].len)
                      /\ (cl'[d].sock = 0 => cl'[d] = Fresh)
    OBVIOUS
  <2>1. CASE d = c
    BY <2>1 DEF Becomes
  <2>2. CASE d # c
    BY <2>2 DEF Becomes, TypeInv
  <2> QED
    BY <2>1, <2>2
<1> QED
  BY <1>1 DEF TypeInv, Becomes

\* What the type invariant says of one section.
LEMMA SectionFacts ==
    ASSUME TypeInv, NEW c \in Clients
    PROVE  /\ cl[c] \in SectionType /\ cl[c].sock \in Fds \cup {0} /\ cl[c].fd \in Fds \cup {0}
           /\ cl[c].chip \in ChipIds \cup {NoChip} /\ cl[c].run \in BOOLEAN /\ cl[c].ok \in BOOLEAN
           /\ cl[c].len \in 0 .. MaxLen /\ cl[c].off \in 0 .. 2 * MaxLen /\ cl[c].no \in 0 .. MaxLoad
           /\ cl[c].sent = cl[c].off /\ (cl[c].run => cl[c].off <= cl[c].len)
           /\ cl[c].sock = 0 => cl[c] = Fresh
           /\ c \in Connected <=> cl[c].sock # 0
<1>1. cl[c] \in SectionType
  BY DEF TypeInv
<1> QED
  BY <1>1 DEF TypeInv, SectionType, Connected

\* The section of a connection that has not sent anything.
LEMMA FreshFacts ==
    /\ Fresh \in SectionType /\ Fresh.sock = 0 /\ Fresh.fd = 0 /\ ~Fresh.run
    /\ Fresh.sent = Fresh.off /\ Fresh.off = 0
    /\ \A f \in Fds : LET r == [Fresh EXCEPT !.sock = f]
                      IN  /\ r \in SectionType /\ r.sock = f /\ r.fd = 0 /\ ~r.run /\ r.sent = r.off
<1>1. /\ 0 \in 0 .. MaxLen /\ 0 \in 0 .. 2 * MaxLen /\ 0 \in 0 .. MaxLoad
  BY ConstFacts
<1>2. Fresh \in SectionType
  BY <1>1 DEF Fresh, SectionType
<1>3. \A f \in Fds : [Fresh EXCEPT !.sock = f] \in SectionType
  BY <1>1 DEF Fresh, SectionType
<1> QED
  BY <1>2, <1>3 DEF Fresh

\* tcp_accept_cb and tcp_free.
LEMMA ConnFacts ==
    ASSUME TypeInv, NEW c \in Clients, Accept(c) \/ Disconnect(c)
    PROVE  /\ TypeInv'
           /\ Accept(c) => \E f \in Fds :
                 /\ fdt[f] = Free /\ fdt'[f] = Sock /\ (\A g \in Fds : g # f => fdt'[g] = fdt[g])
                 /\ Becomes(c, [Fresh EXCEPT !.sock = f]) /\ hurt' = hurt
           /\ Disconnect(c) =>
                 /\ cl[c].sock \in Fds /\ fdt'[cl[c].sock] = Free
                 /\ (\A g \in Fds : g # cl[c].sock => fdt'[g] = fdt[g])
                 /\ Becomes(c, Fresh) /\ hurt \subseteq hurt' /\ ("leak" \notin hurt' => ~Holds(c))
           /\ UNCHANGED <<file, chip, slot>>
<1>t. /\ cl \in [Clients -> SectionType] /\ fdt \in [Fds -> {Free, Sock} \cup FileType]
      /\ file \in [Chips -> Seq(Chunks)] /\ loads \in 0 .. MaxLoad /\ chip \in [Chips -> ChipType]
      /\ slot \in [Slots -> SlotType] /\ hurt \subseteq Accidents
  BY DEF TypeInv
<1>u. UNCHANGED <<file, loads, chip, slot>>
  BY DEF Accept, Disconnect
<1>o. OutOK'
  BY DEF Accept, Disconnect, Quiet, Did, OutOK
<1>1. CASE Accept(c)
  <2>1. PICK f \in Fds : /\ Lowest(fdt, f) /\ fdt' = [fdt EXCEPT ![f] = Sock]
                         /\ cl' = [cl EXCEPT ![c] = [Fresh EXCEPT !.sock = f]]
    BY <1>1 DEF Accept
  <2>2. PICK r : r = [Fresh EXCEPT !.sock = f]
    OBVIOUS
  <2>3. r \in SectionType /\ r.sock = f /\ ~r.run /\ r.sent = r.off
    BY <2>2, FreshFacts
  <2>4. Becomes(c, r)
    BY <1>t, <2>1, <2>2, <2>3 DEF Becomes
  <2>5. /\ fdt[f] = Free /\ fdt' \in [Fds -> {Free, Sock} \cup FileType]
        /\ fdt'[f] = Sock /\ (\A g \in Fds : g # f => fdt'[g] = fdt[g])
    BY <1>t, <2>1 DEF Lowest
  <2>6. hurt' = hurt
    BY <1>1 DEF Accept
  <2>7. TypeInv'
    BY <1>t, <1>u, <1>o, <2>3, <2>4, <2>5, <2>6, ConstFacts, TypeFrame
  <2>8. ~Disconnect(c)
    BY <1>1 DEF Accept, Disconnect
  <2> QED
    BY <1>u, <2>2, <2>4, <2>5, <2>6, <2>7, <2>8
<1>2. CASE Disconnect(c)
  <2>1. cl[c].sock \in Fds
    BY <1>2, SectionFacts DEF Disconnect
  <2>2. fdt' = Shut(fdt, cl[c].sock) /\ cl' = [cl EXCEPT ![c] = Fresh]
    BY <1>2 DEF Disconnect
  <2>3. Becomes(c, Fresh)
    BY <1>t, <2>2, FreshFacts DEF Becomes
  <2>4. /\ fdt' \in [Fds -> {Free, Sock} \cup FileType] /\ fdt'[cl[c].sock] = Free
        /\ (\A g \in Fds : g # cl[c].sock => fdt'[g] = fdt[g])
    BY <2>1, <2>2, ShutFacts, ConstFacts
  <2>5. hurt \subseteq hurt' /\ hurt' \subseteq Accidents /\ ("leak" \notin hurt' => ~Holds(c))
    BY <1>2, <1>t DEF Disconnect, Note, Accidents
  <2>6. TypeInv'
    BY <1>t, <1>u, <1>o, <2>3, <2>4, <2>5, FreshFacts, TypeFrame
  <2>7. ~Accept(c)
    BY <1>2 DEF Accept, Disconnect
  <2> QED
    BY <1>u, <2>1, <2>3, <2>4, <2>5, <2>6, <2>7
<1> QED
  BY <1>1, <1>2

\* CCT_LOAD announces a transfer.
LEMMA AnnouncedFacts ==
    ASSUME TypeInv, NEW c \in Clients, NEW x \in ChipIds, NEW n \in 0 .. MaxLen, loads < MaxLoad,
           c \in Connected
    PROVE  /\ loads + 1 \in 0 .. MaxLoad
           /\ \A f \in Fds \cup {0} :
                 LET r == [Announced(c, x, n) EXCEPT !.fd = f]
                 IN  /\ r \in SectionType /\ r.sock = cl[c].sock /\ r.fd = f /\ r.run /\ r.chip = x
                     /\ r.off = 0 /\ r.sent = 0 /\ r.len = n /\ r.no = loads + 1
           /\ LET r == Announced(c, x, n)
              IN  /\ r \in SectionType /\ r.sock = cl[c].sock /\ r.fd = cl[c].fd /\ r.run /\ r.chip = x
                  /\ r.off = 0 /\ r.sent = 0 /\ r.len = n /\ r.no = loads + 1
<1>1. loads + 1 \in 0 .. MaxLoad /\ 0 \in 0 .. 2 * MaxLen
  BY ConstFacts DEF TypeInv
<1>2. cl[c] \in SectionType
  BY SectionFacts
<1>3. PICK r : r = Announced(c, x, n)
  OBVIOUS
<1>4. /\ r \in SectionType /\ r.sock = cl[c].sock /\ r.fd = cl[c].fd /\ r.run /\ r.chip = x
      /\ r.off = 0 /\ r.sent = 0 /\ r.len = n /\ r.no = loads + 1
  BY <1>1, <1>2, <1>3 DEF Announced, SectionType
<1>5. ASSUME NEW f \in Fds \cup {0}
      PROVE  LET q == [r EXCEPT !.fd = f]
             IN  /\ q \in SectionType /\ q.sock = cl[c].sock /\ q.fd = f /\ q.run /\ q.chip = x
                 /\ q.off = 0 /\ q.sent = 0 /\ q.len = n /\ q.no = loads + 1
  BY <1>4 DEF SectionType
<1> QED
  BY <1>1, <1>3, <1>4, <1>5

\* CCT_LOAD of a chip in an empty slot.
LEMMA RefusedFacts ==
    ASSUME TypeInv, NEW c \in Clients, NEW x \in ChipIds, NEW n \in 0 .. MaxLen, LoadRefused(c, x, n)
    PROVE  /\ TypeInv' /\ Becomes(c, Announced(c, x, n)) /\ x \notin Chips
           /\ UNCHANGED <<fdt, file, chip, slot>> /\ hurt \subseteq hurt'
           /\ "abandoned" \notin hurt' => ~cl[c].run
<1>t. cl \in [Clients -> SectionType] /\ hurt \subseteq Accidents
  BY DEF TypeInv
<1>1. /\ c \in Connected /\ loads < MaxLoad /\ x \notin Chips
      /\ cl' = [cl EXCEPT ![c] = Announced(c, x, n)] /\ loads' = loads + 1
      /\ UNCHANGED <<fdt, file, chip, slot>>
  BY DEF LoadRefused, BadChips
<1>2. PICK r : r = Announced(c, x, n)
  OBVIOUS
<1>3. /\ r \in SectionType /\ r.sock = cl[c].sock /\ r.off = 0 /\ r.sent = 0 /\ r.len = n
      /\ loads + 1 \in 0 .. MaxLoad
  BY <1>1, <1>2, AnnouncedFacts
<1>4. Becomes(c, r)
  BY <1>t, <1>1, <1>2, <1>3 DEF Becomes
<1>5. /\ hurt \subseteq hurt' /\ hurt' \subseteq Accidents /\ ("abandoned" \notin hurt' => ~cl[c].run)
  BY <1>t DEF LoadRefused, Note, Accidents
<1>6. OutOK'
  BY DEF LoadRefused, Did, OutOK
<1>7. r.sock # 0 /\ r.off <= r.len
  BY <1>1, <1>3, SectionFacts
<1>8. /\ fdt' \in [Fds -> {Free, Sock} \cup FileType] /\ file' \in [Chips -> Seq(Chunks)]
      /\ chip' \in [Chips -> ChipType] /\ slot' \in [Slots -> SlotType] /\ loads' \in 0 .. MaxLoad
  BY <1>1, <1>3 DEF TypeInv
<1>9. TypeInv'
  BY <1>3, <1>4, <1>5, <1>6, <1>7, <1>8, TypeFrame
<1> QED
  BY <1>1, <1>2, <1>4, <1>5, <1>9

\* The file that CCT_LOAD opens for chip x.
Opened(c, x) == [use |-> "file", chip |-> x, pos |-> 0, by |-> c]

\* CCT_LOAD of a chip that is there.
LEMMA LoadFacts ==
    ASSUME TypeInv, NEW c \in Clients, NEW x \in ChipIds, NEW n \in 0 .. MaxLen, Load(c, x, n)
    PROVE  /\ TypeInv' /\ x \in Chips /\ c \in Connected /\ loads < MaxLoad
           /\ UNCHANGED <<chip, slot>> /\ hurt \subseteq hurt'
           /\ Alive' =>
                 /\ \E f \in Fds :
                       /\ Shut(fdt, cl[c].fd)[f] = Free /\ fdt'[f] = Opened(c, x)
                       /\ \A g \in Fds : g # f => fdt'[g] = Shut(fdt, cl[c].fd)[g]
                       /\ Becomes(c, [Announced(c, x, n) EXCEPT !.fd = f])
                 /\ file' = [file EXCEPT ![x] = << >>]
                 /\ ~Alien(c)
                 /\ "abandoned" \notin hurt' => ~cl[c].run
                 /\ "shared" \notin hurt' =>
                       \A d \in Connected : d # c /\ Holds(d) => fdt[cl[d].fd].chip # x
<1>t. /\ cl \in [Clients -> SectionType] /\ hurt \subseteq Accidents
      /\ chip \in [Chips -> ChipType] /\ slot \in [Slots -> SlotType] /\ file \in [Chips -> Seq(Chunks)]
      /\ fdt \in [Fds -> {Free, Sock} \cup FileType]
  BY DEF TypeInv
<1>1. /\ c \in Connected /\ loads < MaxLoad /\ x \in Chips /\ loads' = loads + 1
      /\ UNCHANGED <<chip, slot>>
  BY DEF Load
<1>2. loads' \in 0 .. MaxLoad
  BY <1>1, AnnouncedFacts
<1>3. OutOK'
  BY DEF Load, Did, OutOK
<1>s. cl[c].sock # 0 /\ cl[c].fd \in Fds \cup {0}
  BY <1>1, SectionFacts
<1>4. PICK t : t = Shut(fdt, cl[c].fd)
  OBVIOUS
<1>5. t \in [Fds -> {Free, Sock} \cup FileType]
  BY <1>4, <1>s, ShutFacts
<1> DEFINE Opens(f) ==
             /\ Lowest(t, f)
             /\ fdt' = [t EXCEPT ![f] = [use |-> "file", chip |-> x, pos |-> 0, by |-> c]]
             /\ cl' = [cl EXCEPT ![c] = [Announced(c, x, n) EXCEPT !.fd = f]]
             /\ file' = Truncated(x)
             /\ hurt' = hurt \cup Note("stale", Alien(c)) \cup Note("abandoned", cl[c].run)
                   \cup Note("shared", \E d \in Connected \ {c} :
                                          Holds(d) /\ fdt[cl[d].fd].chip = x)
<1>6. \/ \E f \in Fds : Opens(f)
      \/ /\ \A f \in Fds : t[f] # Free
         /\ cl' = [cl EXCEPT ![c] = Announced(c, x, n)]
         /\ hurt' = hurt \cup {"nofd"}
         /\ UNCHANGED <<fdt, file>>
  BY <1>4 DEF Load, CloseKept
<1>7. ASSUME NEW f \in Fds, Opens(f)
      PROVE  /\ TypeInv' /\ hurt \subseteq hurt'
             /\ t[f] = Free /\ fdt'[f] = Opened(c, x) /\ \A g \in Fds : g # f => fdt'[g] = t[g]
             /\ Becomes(c, [Announced(c, x, n) EXCEPT !.fd = f])
             /\ file' = [file EXCEPT ![x] = << >>]
             /\ Alive' => ~Alien(c)
             /\ "abandoned" \notin hurt' => ~cl[c].run
             /\ "shared" \notin hurt' =>
                       \A d \in Connected : d # c /\ Holds(d) => fdt[cl[d].fd].chip # x
  <2>1. PICK r : r = [Announced(c, x, n) EXCEPT !.fd = f]
    OBVIOUS
  <2>2. /\ r \in SectionType /\ r.sock = cl[c].sock /\ r.off = 0 /\ r.sent = 0 /\ r.len = n
    BY <1>1, <2>1, AnnouncedFacts
  <2>3. Becomes(c, r)
    BY <1>t, <1>7, <2>1, <2>2 DEF Becomes
  <2>4. /\ t[f] = Free /\ fdt'[f] = Opened(c, x) /\ \A g \in Fds : g # f => fdt'[g] = t[g]
    BY <1>5, <1>7 DEF Lowest, Opened
  <2>5. Opened(c, x) \in FileType
    BY <1>1 DEF Opened, FileType
  <2>6. fdt' \in [Fds -> {Free, Sock} \cup FileType]
    BY <1>5, <1>7, <2>5 DEF Opened
  <2>7. file' = [file EXCEPT ![x] = << >>] /\ file' \in [Chips -> Seq(Chunks)]
    <3>1. file' = [file EXCEPT ![x] = << >>]
      BY <1>7 DEF Truncated
    <3>2. << >> \in Seq(Chunks)
      OBVIOUS
    <3> QED
      BY <1>t, <3>1, <3>2, Zenon
  <2>8. /\ hurt \subseteq hurt' /\ hurt' \subseteq Accidents
        /\ "stale" \notin hurt' => ~Alien(c)
        /\ "abandoned" \notin hurt' => ~cl[c].run
        /\ "shared" \notin hurt' => ~\E d \in Connected \ {c} : Holds(d) /\ fdt[cl[d].fd].chip = x
    BY <1>t, <1>7 DEF Note, Accidents, Fatal
  <2>9. r.sock # 0 /\ r.off <= r.len
    BY <1>s, <2>2
  <2>10. TypeInv'
    BY <1>t, <1>1, <1>2, <1>3, <2>2, <2>3, <2>6, <2>7, <2>8, <2>9, TypeFrame
  <2>11. Alive' => "stale" \notin hurt'
    BY DEF Alive, Fatal
  <2> QED
    BY <2>1, <2>3, <2>4, <2>7, <2>8, <2>10, <2>11
<1>8. CASE /\ \A f \in Fds : t[f] # Free
           /\ cl' = [cl EXCEPT ![c] = Announced(c, x, n)]
           /\ hurt' = hurt \cup {"nofd"}
           /\ UNCHANGED <<fdt, file>>
  <2>1. PICK r : r = Announced(c, x, n)
    OBVIOUS
  <2>2. /\ r \in SectionType /\ r.sock = cl[c].sock /\ r.off = 0 /\ r.sent = 0 /\ r.len = n
    BY <1>1, <2>1, AnnouncedFacts
  <2>3. Becomes(c, r)
    BY <1>t, <1>8, <2>1, <2>2 DEF Becomes
  <2>4. hurt \subseteq hurt' /\ hurt' \subseteq Accidents /\ ~Alive'
    BY <1>t, <1>8 DEF Accidents, Fatal, Alive
  <2>5. r.sock # 0 /\ r.off <= r.len
    BY <1>s, <2>2
  <2>6. TypeInv'
    BY <1>t, <1>1, <1>2, <1>3, <1>8, <2>2, <2>3, <2>4, <2>5, TypeFrame
  <2> QED
    BY <1>1, <2>4, <2>6
<1> HIDE DEF Opens
<1> QED
  BY <1>1, <1>4, <1>6, <1>7, <1>8, Zenon

\* A portion of n chunks ends the transfer.
LEMMA EndedFacts ==
    ASSUME TypeInv, NEW c \in Clients, cl[c].run, NEW ok \in BOOLEAN, NEW n \in 0 .. MaxLen,
           Ended(c, ok, n)
    PROVE  \E r : /\ Becomes(c, r) /\ ~r.run /\ r.sock = cl[c].sock /\ r.fd = cl[c].fd /\ r.chip = cl[c].chip
                  /\ r.sent = r.off /\ fdt' = Shut(fdt, cl[c].fd)
                  /\ fdt' \in [Fds -> {Free, Sock} \cup FileType]
<1>1. PICK r : r = [cl[c] EXCEPT !.run = FALSE, !.ok = ok, !.off = @ + n, !.sent = @ + n]
  OBVIOUS
<1>2. cl \in [Clients -> SectionType] /\ cl[c] \in SectionType
  BY DEF TypeInv
<1>3. cl[c].off + n \in 0 .. 2 * MaxLen /\ cl[c].sent + n \in 0 .. 2 * MaxLen /\ cl[c].sent = cl[c].off
  BY SectionFacts, ConstFacts
<1>4. /\ r \in SectionType /\ ~r.run /\ r.sock = cl[c].sock /\ r.fd = cl[c].fd /\ r.chip = cl[c].chip
      /\ r.sent = cl[c].sent + n /\ r.off = cl[c].off + n
  BY <1>1, <1>2, <1>3 DEF SectionType
<1>5. cl'[c] = r /\ \A d \in Clients : d # c => cl'[d] = cl[d]
  BY <1>1, <1>2 DEF Ended
<1>6. cl' \in [Clients -> SectionType]
  BY <1>2, <1>4, <1>5 DEF Ended
<1>7. fdt' = Shut(fdt, cl[c].fd) /\ fdt' \in [Fds -> {Free, Sock} \cup FileType]
  BY SectionFacts, ShutFacts DEF Ended
<1>8. Becomes(c, r)
  BY <1>4, <1>5, <1>6 DEF Becomes
<1> QED
  BY <1>3, <1>4, <1>7, <1>8

\* A portion that is out of order, or that cannot be written.
LEMMA BrokenFacts ==
    ASSUME TypeInv, NEW c \in Clients, TransferBad(c) \/ TransferNoFile(c)
    PROVE  /\ TypeInv' /\ cl[c].run /\ c \in Connected
           /\ \E r : /\ Becomes(c, r) /\ ~r.run
                     /\ r.sock = cl[c].sock /\ r.fd = cl[c].fd /\ r.chip = cl[c].chip
           /\ fdt' = fdt /\ file' = file /\ hurt' = hurt /\ Failed(cl[c].chip, << >>)
<1>t. /\ cl \in [Clients -> SectionType] /\ cl[c] \in SectionType /\ hurt \subseteq Accidents
      /\ fdt \in [Fds -> {Free, Sock} \cup FileType] /\ loads \in 0 .. MaxLoad
      /\ file \in [Chips -> Seq(Chunks)] /\ chip \in [Chips -> ChipType]
  BY DEF TypeInv
<1>1. /\ cl[c].run /\ c \in Connected /\ file' = file /\ hurt' = hurt /\ loads' = loads
      /\ Failed(cl[c].chip, << >>)
  BY DEF TransferBad, TransferNoFile
<1>2. /\ cl[c].sock # 0 /\ cl[c].sent = cl[c].off /\ cl[c].fd \in Fds \cup {0}
      /\ cl[c].chip \in ChipIds \cup {NoChip}
  BY <1>1, SectionFacts
<1>3. fdt' = fdt
        /\ \E r : /\ Becomes(c, r) /\ ~r.run /\ r.sent = r.off
                  /\ r.sock = cl[c].sock /\ r.fd = cl[c].fd /\ r.chip = cl[c].chip
  <2>1. CASE TransferBad(c)
    <3>1. PICK r : r = [cl[c] EXCEPT !.run = FALSE, !.ok = FALSE]
      OBVIOUS
    <3>2. /\ r \in SectionType /\ ~r.run /\ r.sent = cl[c].sent /\ r.off = cl[c].off
          /\ r.sock = cl[c].sock /\ r.fd = cl[c].fd /\ r.chip = cl[c].chip
      BY <1>t, <3>1 DEF SectionType
    <3>3. cl'[c] = r /\ (\A d \in Clients : d # c => cl'[d] = cl[d]) /\ fdt' = fdt
      BY <1>t, <2>1, <3>1 DEF TransferBad
    <3>4. cl' \in [Clients -> SectionType]
      <4>1. cl' = [cl EXCEPT ![c] = r]
        BY <2>1, <3>1 DEF TransferBad
      <4> QED
        BY <1>t, <3>2, <4>1
    <3>5. Becomes(c, r)
      BY <3>2, <3>3, <3>4 DEF Becomes
    <3> QED
      BY <1>2, <3>2, <3>3, <3>5
  <2>2. CASE TransferNoFile(c)
    <3>0. 0 \in 0 .. MaxLen
      BY ConstFacts
    <3>1. Ended(c, FALSE, 0) /\ ~Open(c)
      BY <2>2, Zenon DEF TransferNoFile
    <3>2. PICK r : /\ Becomes(c, r) /\ ~r.run /\ r.sock = cl[c].sock /\ r.fd = cl[c].fd
                   /\ r.chip = cl[c].chip /\ r.sent = r.off /\ fdt' = Shut(fdt, cl[c].fd)
      BY <1>1, <3>0, <3>1, EndedFacts
    <3>3. fdt' = fdt
      <4>1. CASE cl[c].fd = 0
        BY <3>2, <4>1 DEF Shut
      <4>2. CASE cl[c].fd # 0
        <5>1. cl[c].fd \in Fds /\ fdt[cl[c].fd] = Free /\ fdt' = [fdt EXCEPT ![cl[c].fd] = Free]
          BY <1>2, <3>1, <3>2, <4>2 DEF Open, Shut
        <5> QED
          BY <1>t, <5>1
      <4> QED
        BY <4>1, <4>2
    <3> QED
      BY <3>2, <3>3
  <2> QED
    BY <2>1, <2>2
<1>4. PICK r : /\ Becomes(c, r) /\ ~r.run /\ r.sent = r.off
               /\ r.sock = cl[c].sock /\ r.fd = cl[c].fd /\ r.chip = cl[c].chip
  BY <1>3
<1>5. slot' \in [Slots -> SlotType] /\ chip' = chip /\ OutOK'
  BY <1>1, <1>2, FailedFacts
<1>6. TypeInv'
  BY <1>t, <1>1, <1>2, <1>3, <1>4, <1>5, TypeFrame
<1> QED
  BY <1>1, <1>3, <1>4, <1>6

\* The portion that client c sends next, n chunks long.
Portion(c, n) == [i \in 1 .. n |-> <<cl[c].no, cl[c].sent + i>>]

\* The files once that portion has been written.
Stored(c, n) ==
    IF fdt[cl[c].fd] = Sock THEN file
    ELSE [file EXCEPT ![fdt[cl[c].fd].chip] =
             Written(file[fdt[cl[c].fd].chip], fdt[cl[c].fd].pos, Portion(c, n))]

\* The files stay files.
LEMMA StoredType ==
    ASSUME TypeInv, NEW c \in Clients, cl[c].run, Open(c), NEW n \in 0 .. MaxLen
    PROVE  Stored(c, n) \in [Chips -> Seq(Chunks)]
<1>t. /\ fdt \in [Fds -> {Free, Sock} \cup FileType] /\ file \in [Chips -> Seq(Chunks)]
  BY DEF TypeInv
<1>1. /\ cl[c].fd \in Fds /\ cl[c].no \in 0 .. MaxLoad /\ cl[c].sent \in 0 .. MaxLen /\ n \in Nat
  BY SectionFacts, ConstFacts DEF Open
<1>2. PICK h : h = fdt[cl[c].fd]
  OBVIOUS
<1>3. h \in {Free, Sock} \cup FileType /\ h # Free
  BY <1>t, <1>1, <1>2 DEF Open
<1>4. CASE h = Sock
  BY <1>t, <1>2, <1>4 DEF Stored
<1>5. CASE h # Sock
  <2>1. h \in FileType
    BY <1>3, <1>5
  <2>2. h.chip \in Chips /\ h.pos \in Nat
    BY <2>1 DEF FileType
  <2>3. PICK d : d = Portion(c, n)
    OBVIOUS
  <2>4. Len(d) = n /\ \A i \in 1 .. n : d[i] \in Chunks
    <3>1. \A i \in 1 .. n : cl[c].sent + i \in 0 .. 2 * MaxLen
      BY <1>1, ConstFacts
    <3>2. \A i \in 1 .. n : <<cl[c].no, cl[c].sent + i>> \in Chunks
      BY <1>1, <3>1 DEF Chunks
    <3>3. d \in [1 .. n -> Chunks] /\ DOMAIN d = 1 .. n
      BY <2>3, <3>2 DEF Portion
    <3>4. d \in Seq(Chunks)
      BY <1>1, <3>3
    <3> QED
      BY <1>1, <3>3, <3>4
  <2>5. file[h.chip] \in Seq(Chunks)
    BY <1>t, <2>2
  <2>6. Written(file[h.chip], h.pos, d) \in Seq(Chunks)
    BY <1>1, <2>2, <2>4, <2>5, WrittenType
  <2>7. Stored(c, n) = [file EXCEPT ![h.chip] = Written(file[h.chip], h.pos, d)]
    BY <1>2, <1>5, <2>3 DEF Stored
  <2> QED
    BY <1>t, <2>2, <2>6, <2>7
<1> QED
  BY <1>4, <1>5

\* The transfer ends with the portion, well or not.
PartEnds(c, n) ==
    /\ \E r : /\ Becomes(c, r) /\ ~r.run
              /\ r.sock = cl[c].sock /\ r.fd = cl[c].fd /\ r.chip = cl[c].chip
    /\ fdt' = Shut(fdt, cl[c].fd)
    /\ \/ cl[c].chip \in Chips /\ Verdict(c, cl[c].chip, Stored(c, n)[cl[c].chip])
       \/ Failed(cl[c].chip, << >>)

\* The transfer goes on after the portion.
PartGoesOn(c, n) ==
    /\ \E r : /\ Becomes(c, r) /\ r.run
              /\ r.sock = cl[c].sock /\ r.fd = cl[c].fd /\ r.chip = cl[c].chip
              /\ r.no = cl[c].no /\ r.sent = cl[c].sent + n
    /\ fdt' = IF fdt[cl[c].fd] = Sock THEN fdt ELSE [fdt EXCEPT ![cl[c].fd].pos = @ + n]
    /\ chip' = chip /\ slot' = SetLoad(SlotOf(cl[c].chip), "loading")

\* A portion that is written: the transfer ends or goes on.
LEMMA PartFacts ==
    ASSUME TypeInv, NEW c \in Clients, NEW n \in 0 .. MaxLen, NEW last \in BOOLEAN,
           TransferPart(c, n, last)
    PROVE  /\ TypeInv' /\ cl[c].run /\ c \in Connected /\ Open(c)
           /\ file' = Stored(c, n) /\ hurt \subseteq hurt' /\ ("stale" \notin hurt' => Holds(c))
           /\ PartEnds(c, n) \/ PartGoesOn(c, n)
<1>t. /\ cl \in [Clients -> SectionType] /\ cl[c] \in SectionType /\ hurt \subseteq Accidents
      /\ fdt \in [Fds -> {Free, Sock} \cup FileType] /\ loads \in 0 .. MaxLoad
      /\ chip \in [Chips -> ChipType]
  BY DEF TypeInv
<1>1. cl[c].run /\ c \in Connected /\ Open(c) /\ loads' = loads
  BY DEF TransferPart
<1>2. /\ cl[c].sock # 0 /\ cl[c].sent = cl[c].off /\ cl[c].fd \in Fds
      /\ cl[c].chip \in ChipIds \cup {NoChip} /\ cl[c].off <= cl[c].len
      /\ cl[c].len \in 0 .. MaxLen /\ cl[c].off \in 0 .. 2 * MaxLen
  BY <1>1, SectionFacts DEF Open
<1> DEFINE acc == hurt \cup Note("stale", Alien(c))
           off == cl[c].off + n
           x   == cl[c].chip
<1>3. file' = Stored(c, n) /\ file' \in [Chips -> Seq(Chunks)]
  <2>1. file' = Stored(c, n)
    BY DEF TransferPart, Stored, Portion
  <2> QED
    BY <1>1, <2>1, StoredType
<1>4. acc \subseteq Accidents /\ hurt \subseteq acc /\ ("stale" \notin acc => ~Alien(c))
  BY <1>t DEF Note, Accidents, Fatal
<1>5. "stale" \notin acc => Holds(c)
  BY <1>1, <1>4, SMTT(30) DEF Alien
<1>6. \/ \E ok \in BOOLEAN :
            /\ Ended(c, ok, n)
            /\ \/ x \in Chips /\ LoadFile(c, x, Stored(c, n)[x], acc)
               \/ Failed(x, << >>) /\ hurt' = acc
      \/ /\ off < cl[c].len
         /\ fdt' = IF fdt[cl[c].fd] = Sock THEN fdt ELSE [fdt EXCEPT ![cl[c].fd].pos = @ + n]
         /\ cl' = [cl EXCEPT ![c].off = off, ![c].sent = @ + n]
         /\ slot' = SetLoad(SlotOf(x), "loading")
         /\ out' = Did("transfer", << >>, "loading", "same")
         /\ hurt' = acc
         /\ UNCHANGED chip
  BY DEF TransferPart, Stored, Portion
<1>7. ASSUME NEW ok \in BOOLEAN, Ended(c, ok, n),
             \/ x \in Chips /\ LoadFile(c, x, Stored(c, n)[x], acc)
             \/ Failed(x, << >>) /\ hurt' = acc
      PROVE  TypeInv' /\ acc \subseteq hurt' /\ PartEnds(c, n)
  <2>1. PICK r : /\ Becomes(c, r) /\ ~r.run /\ r.sock = cl[c].sock /\ r.fd = cl[c].fd
                 /\ r.chip = cl[c].chip /\ r.sent = r.off /\ fdt' = Shut(fdt, cl[c].fd)
                 /\ fdt' \in [Fds -> {Free, Sock} \cup FileType]
    BY <1>1, <1>7, EndedFacts
  <2> HIDE DEF acc
  <2>2. /\ slot' \in [Slots -> SlotType] /\ chip' \in [Chips -> ChipType] /\ OutOK'
        /\ hurt' \subseteq Accidents /\ acc \subseteq hurt'
        /\ \/ x \in Chips /\ Verdict(c, x, Stored(c, n)[x])
           \/ Failed(x, << >>)
    <3>1. CASE x \in Chips /\ LoadFile(c, x, Stored(c, n)[x], acc)
      <4>1. Stored(c, n)[x] \in Seq(Chunks)
        BY <1>3, <3>1
      <4> QED
        BY <1>4, <3>1, <4>1, LoadFileFacts
    <3>2. CASE Failed(x, << >>) /\ hurt' = acc
      BY <1>2, <1>4, <1>t, <3>2, FailedFacts
    <3> QED
      BY <1>7, <3>1, <3>2
  <2>3. TypeInv'
    BY <1>t, <1>1, <1>2, <1>3, <2>1, <2>2, TypeFrame
  <2>4. PartEnds(c, n)
    BY <2>1, <2>2, Zenon DEF PartEnds
  <2> QED
    BY <2>2, <2>3, <2>4
<1>8. CASE /\ off < cl[c].len
           /\ fdt' = IF fdt[cl[c].fd] = Sock THEN fdt ELSE [fdt EXCEPT ![cl[c].fd].pos = @ + n]
           /\ cl' = [cl EXCEPT ![c].off = off, ![c].sent = @ + n]
           /\ slot' = SetLoad(SlotOf(x), "loading")
           /\ out' = Did("transfer", << >>, "loading", "same")
           /\ hurt' = acc
           /\ UNCHANGED chip
  <2>1. PICK r : r = [cl[c] EXCEPT !.off = off, !.sent = @ + n]
    OBVIOUS
  <2>2. off \in 0 .. 2 * MaxLen /\ cl[c].sent + n \in 0 .. 2 * MaxLen /\ cl[c].sent + n = off
    BY <1>2, ConstFacts
  <2>3. /\ r \in SectionType /\ r.run = cl[c].run /\ r.sock = cl[c].sock /\ r.fd = cl[c].fd /\ r.chip = cl[c].chip
        /\ r.no = cl[c].no /\ r.sent = cl[c].sent + n /\ r.off = off /\ r.len = cl[c].len
    BY <1>t, <2>1, <2>2 DEF SectionType
  <2>4. cl' = [cl EXCEPT ![c] = r]
    BY <1>8, <2>1
  <2>5. Becomes(c, r)
    BY <1>t, <2>3, <2>4 DEF Becomes
  <2>6. fdt' \in [Fds -> {Free, Sock} \cup FileType]
    <3>1. CASE fdt[cl[c].fd] = Sock
      BY <1>8, <1>t, <3>1
    <3>2. CASE fdt[cl[c].fd] # Sock
      <4>1. fdt[cl[c].fd] \in FileType
        BY <1>t, <1>1, <1>2, <3>2 DEF Open
      <4>2. [fdt[cl[c].fd] EXCEPT !.pos = @ + n] \in FileType
        BY <4>1, ConstFacts DEF FileType
      <4>3. fdt' = [fdt EXCEPT ![cl[c].fd] = [fdt[cl[c].fd] EXCEPT !.pos = @ + n]]
        BY <1>8, <3>2
      <4> QED
        BY <1>t, <1>2, <4>2, <4>3
    <3> QED
      BY <3>1, <3>2
  <2>7. slot' \in [Slots -> SlotType]
    BY <1>2, <1>8, SlotFacts, SetLoadFacts
  <2>8. OutOK'
    BY <1>8 DEF Did, OutOK
  <2>9. r.off <= r.len /\ r.sent = r.off
    BY <1>2, <1>8, <2>2, <2>3
  <2> HIDE DEF acc, off
  <2>10. TypeInv'
    BY <1>t, <1>1, <1>2, <1>3, <1>4, <1>8, <2>3, <2>5, <2>6, <2>7, <2>8, <2>9, TypeFrame
  <2>11. PartGoesOn(c, n)
    BY <1>1, <1>8, <2>3, <2>5, Zenon DEF PartGoesOn
  <2> QED
    BY <1>1, <1>3, <1>4, <1>5, <1>8, <2>10, <2>11, Zenon
<1>9. CASE \E ok \in BOOLEAN :
            /\ Ended(c, ok, n)
            /\ \/ x \in Chips /\ LoadFile(c, x, Stored(c, n)[x], acc)
               \/ Failed(x, << >>) /\ hurt' = acc
  <2>1. TypeInv' /\ acc \subseteq hurt' /\ PartEnds(c, n)
    BY <1>7, <1>9
  <2>2. hurt \subseteq hurt' /\ ("stale" \notin hurt' => Holds(c))
    <3> HIDE DEF acc
    <3> QED
      BY <1>4, <1>5, <2>1
  <2> QED
    BY <1>1, <1>3, <1>9, <2>1, <2>2, Zenon
<1> QED
  BY <1>6, <1>8, <1>9, Zenon

\* A portion nobody announced, and CCT_UNLOAD: descriptors, files and sections
\* stay.
LEMMA RestFacts ==
    ASSUME TypeInv, NEW c \in Clients,
           TransferStray(c) \/ \E x \in ChipIds : UnloadRefused(c, x) \/ Unload(c, x)
    PROVE  /\ TypeInv' /\ UNCHANGED <<fdt, file, cl>> /\ hurt \subseteq hurt'
           /\ \/ \E x \in Chips : Verdict(c, x, file[x]) /\ "replay" \in hurt'
              \/ Failed(cl[c].chip, << >>) /\ hurt' = hurt
              \/ \E x \in Chips : UnloadFpga(x)
              \/ UNCHANGED <<chip, slot>>
<1>t. /\ fdt \in [Fds -> {Free, Sock} \cup FileType] /\ file \in [Chips -> Seq(Chunks)]
      /\ cl \in [Clients -> SectionType] /\ loads \in 0 .. MaxLoad
      /\ chip \in [Chips -> ChipType] /\ slot \in [Slots -> SlotType] /\ hurt \subseteq Accidents
      /\ cl[c].chip \in ChipIds \cup {NoChip}
  BY SectionFacts DEF TypeInv
<1>u. UNCHANGED <<fdt, file, cl, loads>>
  BY DEF TransferStray, UnloadRefused, Unload
<1>f. ASSUME slot' \in [Slots -> SlotType], chip' \in [Chips -> ChipType], OutOK', hurt' \subseteq Accidents
      PROVE  TypeInv'
  BY <1>u, <1>t, <1>f DEF TypeInv
<1>1. CASE TransferStray(c)
  <2>1. CASE /\ cl[c].chip \in Chips
             /\ LoadFile(c, cl[c].chip, file[cl[c].chip], hurt \cup {"replay"})
    <3>1. file[cl[c].chip] \in Seq(Chunks) /\ hurt \cup {"replay"} \in SUBSET Accidents
      BY <1>t, <2>1 DEF Accidents
    <3>2. /\ slot' \in [Slots -> SlotType] /\ chip' \in [Chips -> ChipType] /\ OutOK'
          /\ hurt' \subseteq Accidents /\ hurt \cup {"replay"} \subseteq hurt'
          /\ Verdict(c, cl[c].chip, file[cl[c].chip])
      <4>1. PICK x \in Chips, d \in Seq(Chunks), b \in SUBSET Accidents :
                   x = cl[c].chip /\ d = file[cl[c].chip] /\ b = hurt \cup {"replay"}
        BY <2>1, <3>1
      <4>2. LoadFile(c, x, d, b)
        BY <2>1, <4>1
      <4>3. /\ slot' \in [Slots -> SlotType] /\ chip' \in [Chips -> ChipType] /\ OutOK'
            /\ hurt' \subseteq Accidents /\ b \subseteq hurt' /\ Verdict(c, x, d)
        BY <4>1, <4>2, LoadFileFacts
      <4> QED
        BY <4>1, <4>3
    <3>3. TypeInv'
      BY <1>f, <3>2
    <3> QED
      BY <1>u, <2>1, <3>1, <3>2, <3>3
  <2>2. CASE Failed(cl[c].chip, << >>) /\ hurt' = hurt
    <3>1. slot' \in [Slots -> SlotType] /\ chip' = chip /\ OutOK'
      BY <1>t, <2>2, FailedFacts
    <3>2. TypeInv'
      BY <1>f, <1>t, <2>2, <3>1
    <3> QED
      BY <1>u, <2>2, <3>2
  <2> QED
    BY <1>1, <2>1, <2>2, Zenon DEF TransferStray
<1>2. ASSUME NEW x \in ChipIds, UnloadRefused(c, x)
      PROVE  TypeInv' /\ hurt' = hurt /\ UNCHANGED <<chip, slot>>
  <2>1. OutOK'
    BY <1>2 DEF UnloadRefused, Did, OutOK
  <2>2. UNCHANGED <<chip, slot, hurt>>
    BY <1>2 DEF UnloadRefused
  <2> QED
    BY <1>f, <1>t, <2>1, <2>2
<1>3. ASSUME NEW x \in ChipIds, Unload(c, x)
      PROVE  TypeInv' /\ x \in Chips /\ UnloadFpga(x) /\ hurt \subseteq hurt'
  <2>1. OutOK'
    BY <1>3 DEF Unload, Did, OutOK
  <2>2. x \in Chips /\ UnloadFpga(x)
    BY <1>3 DEF Unload
  <2>3. CASE /\ chip' = [chip EXCEPT ![x].good = FALSE] /\ slot' = SetLoad(SlotOf(x), "wait_load")
             /\ hurt' = hurt \cup Note("uneven", ~chip[x].good)
    <3>1. slot' \in [Slots -> SlotType]
      <4>1. SlotOf(x) \in Slots
        BY <2>2, SlotFacts, ConstFacts
      <4> QED
        BY <2>3, <4>1, SetLoadFacts
    <3>2. chip[x] \in ChipType
      BY <1>t, <2>2
    <3>3. [chip[x] EXCEPT !.good = FALSE] \in ChipType
      BY <3>2 DEF ChipType
    <3>4. chip' \in [Chips -> ChipType]
      BY <1>t, <2>2, <2>3, <3>3
    <3>5. hurt' \subseteq Accidents /\ hurt \subseteq hurt'
      BY <1>t, <2>3 DEF Note, Accidents
    <3> QED
      BY <1>f, <2>1, <2>2, <3>1, <3>4, <3>5
  <2>4. CASE UNCHANGED <<chip, slot, hurt>>
    BY <1>f, <1>t, <2>1, <2>2, <2>4
  <2> QED
    BY <2>2, <2>3, <2>4 DEF UnloadFpga
<1> QED
  BY <1>1, <1>2, <1>3, <1>u, Zenon

\* The commands, by what they do to the sections.
Rest(c) == TransferStray(c) \/ \E x \in ChipIds : UnloadRefused(c, x) \/ Unload(c, x)

Broken(c) == TransferBad(c) \/ TransferNoFile(c)

\* Every step is one of these.
LEMMA NextCases ==
    ASSUME Next
    PROVE  \/ \E c \in Clients : Accept(c) \/ Disconnect(c)
           \/ \E c \in Clients, x \in ChipIds, n \in 0 .. MaxLen : LoadRefused(c, x, n)
           \/ \E c \in Clients, x \in ChipIds, n \in 0 .. MaxLen : Load(c, x, n)
           \/ \E c \in Clients : Broken(c)
           \/ \E c \in Clients, n \in 0 .. MaxLen, last \in BOOLEAN : TransferPart(c, n, last)
           \/ \E c \in Clients : Rest(c)
BY Zenon DEF Next, NextOn, Broken, Rest

\* Every step keeps the types, and no accident is undone.
LEMMA TypeNext == TypeInv /\ [Next]_vars => TypeInv' /\ hurt \subseteq hurt'
<1> SUFFICES ASSUME TypeInv, [Next]_vars PROVE TypeInv' /\ hurt \subseteq hurt'
  OBVIOUS
<1>1. ASSUME NEW c \in Clients, Accept(c) \/ Disconnect(c) PROVE TypeInv' /\ hurt \subseteq hurt'
  BY <1>1, ConnFacts
<1>2. ASSUME NEW c \in Clients, NEW x \in ChipIds, NEW n \in 0 .. MaxLen, LoadRefused(c, x, n)
      PROVE  TypeInv' /\ hurt \subseteq hurt'
  BY <1>2, RefusedFacts
<1>3. ASSUME NEW c \in Clients, NEW x \in ChipIds, NEW n \in 0 .. MaxLen, Load(c, x, n)
      PROVE  TypeInv' /\ hurt \subseteq hurt'
  BY <1>3, LoadFacts
<1>4. ASSUME NEW c \in Clients, Broken(c) PROVE TypeInv' /\ hurt \subseteq hurt'
  BY <1>4, BrokenFacts DEF Broken
<1>5. ASSUME NEW c \in Clients, NEW n \in 0 .. MaxLen, NEW last \in BOOLEAN, TransferPart(c, n, last)
      PROVE  TypeInv' /\ hurt \subseteq hurt'
  BY <1>5, PartFacts
<1>6. ASSUME NEW c \in Clients, Rest(c) PROVE TypeInv' /\ hurt \subseteq hurt'
  BY <1>6, RestFacts DEF Rest
<1>7. CASE UNCHANGED vars
  BY <1>7 DEF vars, TypeInv, OutOK
<1> QED
  BY <1>1, <1>2, <1>3, <1>4, <1>5, <1>6, <1>7, NextCases, Zenon

\* Type correctness.
LEMMA TypeAlways == Spec => []TypeInv
<1>1. Init => TypeInv
  <2> SUFFICES ASSUME Init PROVE TypeInv
    OBVIOUS
  <2>1. fdt \in [Fds -> {Free, Sock} \cup FileType]
    BY DEF Init
  <2>2. << >> \in Seq(Chunks) /\ 0 \in 0 .. MaxLoad
    BY ConstFacts
  <2>3. file \in [Chips -> Seq(Chunks)] /\ loads \in 0 .. MaxLoad
    BY <2>2 DEF Init
  <2>4. \A c \in Clients : cl[c] = Fresh
    BY DEF Init
  <2>5. cl \in [Clients -> SectionType]
    BY FreshFacts DEF Init
  <2>6. [no |-> 0, data |-> << >>, good |-> FALSE] \in ChipType
    BY <2>2 DEF ChipType
  <2>7. chip \in [Chips -> ChipType]
    BY <2>6 DEF Init
  <2>8. slot \in [Slots -> SlotType]
    BY DEF Init, SlotType
  <2>9. OutOK /\ hurt \subseteq Accidents
    BY DEF Init, Quiet, Did, OutOK
  <2> QED
    BY <2>1, <2>3, <2>4, <2>5, <2>7, <2>8, <2>9, FreshFacts DEF TypeInv
<1> QED
  BY <1>1, TypeNext, PTL DEF Spec
-----------------------------------------------------------------------------
(* Sockets and files.                                                        *)

\* A step in which no connection comes or goes, no number changes hands, and at
\* the most files are closed or written.
LEMMA FdFrame ==
    ASSUME TypeInv, FdInv, hurt \subseteq hurt',
           \A d \in Clients : cl'[d].sock = cl[d].sock /\ cl'[d].fd = cl[d].fd,
           Alive' => \A g \in Fds :
               /\ fdt[g] = Sock => fdt'[g] = Sock
               /\ fdt'[g] \notin {Free, Sock} => fdt[g] \notin {Free, Sock} /\ fdt'[g].by = fdt[g].by
    PROVE  FdInv'
<1> SUFFICES ASSUME Alive' PROVE FdInv'
  BY DEF FdInv
<1>1. Connected' = Connected /\ Connected \subseteq Clients /\ \A d \in Connected : cl[d].sock \in Fds
  BY SectionFacts DEF Connected
<1>2. Alive
  BY DEF Alive
<1>3. \A c \in Connected : fdt'[cl'[c].sock] = Sock
  BY <1>1, <1>2 DEF FdInv
<1>4. \A c, d \in Connected : cl'[c].sock = cl'[d].sock => c = d
  BY <1>1, <1>2 DEF FdInv
<1>5. ASSUME "leak" \notin hurt', NEW f \in Fds, fdt'[f] \notin {Free, Sock}
      PROVE  fdt'[f].by \in Connected /\ cl'[fdt'[f].by].fd = f
  <2>1. fdt[f] \notin {Free, Sock} /\ fdt'[f].by = fdt[f].by
    BY <1>5
  <2>2. fdt[f].by \in Connected /\ cl[fdt[f].by].fd = f
    BY <1>2, <1>5, <2>1 DEF FdInv
  <2> QED
    BY <1>1, <2>1, <2>2
<1> QED
  BY <1>1, <1>3, <1>4, <1>5 DEF FdInv

\* A file is held by the connection whose number it is.
LEMMA HoldsFacts ==
    ASSUME TypeInv, NEW c \in Clients
    PROVE  /\ Holds(c) <=> /\ cl[c].fd \in Fds /\ fdt[cl[c].fd] \in FileType
                           /\ fdt[cl[c].fd].by = c
           /\ Holds(c) => c \in Connected
           /\ Alien(c) \/ Holds(c) \/ cl[c].fd = 0 \/ fdt[cl[c].fd] = Free
<1>1. cl[c].fd \in Fds \cup {0} /\ (cl[c].sock = 0 => cl[c].fd = 0) /\ (c \in Connected <=> cl[c].sock # 0)
  BY SectionFacts, FreshFacts
<1>2. cl[c].fd \in Fds => fdt[cl[c].fd] \in {Free, Sock} \cup FileType
  BY DEF TypeInv
<1> QED
  BY <1>1, <1>2, UseFacts, ConstFacts DEF Holds, Open, Alien

\* The same after a step.
LEMMA HoldsNext ==
    ASSUME TypeInv', NEW c \in Clients
    PROVE  Holds(c)' <=> /\ cl'[c].fd \in Fds /\ fdt'[cl'[c].fd] \in FileType
                         /\ fdt'[cl'[c].fd].by = c
<1>1. cl'[c].fd \in Fds \cup {0}
  BY DEF TypeInv, SectionType
<1>2. cl'[c].fd \in Fds => fdt'[cl'[c].fd] \in {Free, Sock} \cup FileType
  BY DEF TypeInv
<1> QED
  BY <1>1, <1>2, UseFacts, ConstFacts DEF Holds, Open

\* The files of the other connections stay as they are.
Others(c) ==
    \A d \in Clients : d # c =>
        /\ cl'[d] = cl[d]
        /\ Holds(d)' <=> Holds(d)
        /\ Holds(d) => fdt'[cl[d].fd] = fdt[cl[d].fd]

\* They do if the table keeps the files that client c does not hold.
LEMMA OthersKept ==
    ASSUME TypeInv, TypeInv', NEW c \in Clients, NEW r, Becomes(c, r),
           \A g \in Fds : \/ fdt'[g] = fdt[g]
                          \/ /\ fdt[g] \in FileType => fdt[g].by = c
                             /\ fdt'[g] \in FileType => fdt'[g].by = c
    PROVE  Others(c)
<1> SUFFICES ASSUME NEW d \in Clients, d # c
             PROVE  /\ cl'[d] = cl[d] /\ (Holds(d)' <=> Holds(d))
                    /\ Holds(d) => fdt'[cl[d].fd] = fdt[cl[d].fd]
  BY DEF Others
<1>1. cl'[d] = cl[d]
  BY DEF Becomes
<1>2. Holds(d) <=> cl[d].fd \in Fds /\ fdt[cl[d].fd] \in FileType /\ fdt[cl[d].fd].by = d
  BY HoldsFacts
<1>3. Holds(d)' <=> cl'[d].fd \in Fds /\ fdt'[cl'[d].fd] \in FileType /\ fdt'[cl'[d].fd].by = d
  BY HoldsNext
<1> QED
  BY <1>1, <1>2, <1>3

\* tcp_accept_cb and tcp_free.
LEMMA FdConn ==
    ASSUME TypeInv, FdInv, NEW c \in Clients, Accept(c) \/ Disconnect(c), Alive'
    PROVE  FdInv' /\ Others(c) /\ ~Holds(c)'
<1>0. TypeInv' /\ hurt \subseteq hurt'
  BY ConnFacts
<1>1. Alive /\ ("leak" \notin hurt' => "leak" \notin hurt)
  BY <1>0 DEF Alive
<1>2. /\ \A d \in Connected : fdt[cl[d].sock] = Sock
      /\ \A d, e \in Connected : cl[d].sock = cl[e].sock => d = e
      /\ "leak" \notin hurt =>
            \A f \in Fds : fdt[f] \notin {Free, Sock} =>
                fdt[f].by \in Connected /\ cl[fdt[f].by].fd = f
  BY <1>1 DEF FdInv
<1>3. \A d \in Clients : /\ d \in Connected <=> cl[d].sock # 0
                         /\ d \in Connected' <=> cl'[d].sock # 0
                         /\ cl[d].sock \in Fds \cup {0}
  BY SectionFacts DEF Connected
<1>c. Connected \subseteq Clients /\ Connected' \subseteq Clients
  BY DEF Connected
<1>4. CASE Accept(c)
  <2>1. PICK f \in Fds :
           /\ fdt[f] = Free /\ fdt'[f] = Sock /\ (\A g \in Fds : g # f => fdt'[g] = fdt[g])
           /\ Becomes(c, [Fresh EXCEPT !.sock = f]) /\ hurt' = hurt
    BY <1>4, ConnFacts
  <2>2. cl'[c].sock = f /\ cl'[c].fd = 0 /\ \A d \in Clients : d # c => cl'[d] = cl[d]
    BY <2>1, FreshFacts DEF Becomes
  <2>3. c \notin Connected /\ f # 0
    BY <1>4, ConstFacts DEF Accept
  <2>4. \A d \in Clients : d \in Connected' <=> d \in Connected \/ d = c
    BY <1>3, <2>2, <2>3
  <2>5. \A d \in Connected : cl[d].sock # f /\ cl[d].sock \in Fds
    BY <1>2, <1>3, <1>c, <2>1, UseFacts
  <2>6. \A d \in Connected' : fdt'[cl'[d].sock] = Sock
    BY <1>2, <1>c, <2>1, <2>2, <2>4, <2>5
  <2>7. \A d, e \in Connected' : cl'[d].sock = cl'[e].sock => d = e
    BY <1>2, <1>c, <2>2, <2>4, <2>5
  <2>8. ASSUME "leak" \notin hurt', NEW g \in Fds, fdt'[g] \notin {Free, Sock}
        PROVE  fdt'[g].by \in Connected' /\ cl'[fdt'[g].by].fd = g
    <3>1. fdt'[g] = fdt[g]
      BY <2>1, <2>8
    <3>2. fdt[g].by \in Connected /\ cl[fdt[g].by].fd = g
      BY <1>1, <1>2, <2>8, <3>1
    <3> QED
      BY <1>c, <2>2, <2>3, <2>4, <3>1, <3>2
  <2>9. FdInv'
    BY <2>6, <2>7, <2>8 DEF FdInv
  <2>10. Others(c)
    BY <1>0, <2>1, UseFacts, OthersKept
  <2>11. ~Holds(c)'
    BY <1>0, <2>2, ConstFacts, HoldsNext
  <2> QED
    BY <2>9, <2>10, <2>11
<1>5. CASE Disconnect(c)
  <2>1. /\ cl[c].sock \in Fds /\ fdt'[cl[c].sock] = Free
        /\ (\A g \in Fds : g # cl[c].sock => fdt'[g] = fdt[g])
        /\ Becomes(c, Fresh) /\ ("leak" \notin hurt' => ~Holds(c))
    BY <1>5, ConnFacts
  <2>2. cl'[c].sock = 0 /\ cl'[c].fd = 0 /\ \A d \in Clients : d # c => cl'[d] = cl[d]
    BY <2>1, FreshFacts DEF Becomes
  <2>3. c \in Connected
    BY <1>5 DEF Disconnect
  <2>4. \A d \in Clients : d \in Connected' <=> d \in Connected /\ d # c
    BY <1>3, <2>2
  <2>5. \A d \in Connected' : d \in Connected /\ cl'[d] = cl[d] /\ cl[d].sock \in Fds /\ cl[d].sock # cl[c].sock
    BY <1>2, <1>3, <1>c, <2>2, <2>3, <2>4
  <2>6. \A d \in Connected' : fdt'[cl'[d].sock] = Sock
    BY <1>2, <2>1, <2>5
  <2>7. \A d, e \in Connected' : cl'[d].sock = cl'[e].sock => d = e
    BY <1>2, <2>5
  <2>8. ASSUME "leak" \notin hurt', NEW g \in Fds, fdt'[g] \notin {Free, Sock}
        PROVE  fdt'[g].by \in Connected' /\ cl'[fdt'[g].by].fd = g
    <3>1. fdt'[g] = fdt[g]
      BY <2>1, <2>8
    <3>2. fdt[g].by \in Connected /\ cl[fdt[g].by].fd = g
      BY <1>1, <1>2, <2>8, <3>1
    <3>3. fdt[g] \in FileType
      BY <2>8, <3>1 DEF TypeInv
    <3>4. fdt[g].by # c
      BY <2>1, <2>8, <3>2, <3>3, HoldsFacts
    <3> QED
      BY <1>c, <2>2, <2>4, <3>1, <3>2, <3>4
  <2>9. FdInv'
    BY <2>6, <2>7, <2>8 DEF FdInv
  <2>10. fdt[cl[c].sock] = Sock
    BY <1>2, <2>3
  <2>11. Others(c)
    BY <1>0, <2>1, <2>10, UseFacts, OthersKept
  <2>12. ~Holds(c)'
    BY <1>0, <2>2, ConstFacts, HoldsNext
  <2> QED
    BY <2>9, <2>11, <2>12
<1> QED
  BY <1>4, <1>5

\* CCT_LOAD of a chip that is there.
LEMMA FdLoad ==
    ASSUME TypeInv, FdInv, NEW c \in Clients, NEW x \in ChipIds, NEW n \in 0 .. MaxLen,
           Load(c, x, n), Alive'
    PROVE  /\ FdInv' /\ Others(c) /\ Holds(c)'
           /\ cl'[c].chip = x /\ cl'[c].run /\ cl'[c].sent = 0 /\ fdt'[cl'[c].fd] = Opened(c, x)
<1>0. TypeInv' /\ hurt \subseteq hurt' /\ x \in Chips /\ c \in Connected /\ loads < MaxLoad /\ ~Alien(c)
  BY LoadFacts
<1>1. Alive /\ ("leak" \notin hurt' => "leak" \notin hurt)
  BY <1>0 DEF Alive
<1>2. /\ \A d \in Connected : fdt[cl[d].sock] = Sock
      /\ \A d, e \in Connected : cl[d].sock = cl[e].sock => d = e
      /\ "leak" \notin hurt =>
            \A f \in Fds : fdt[f] \notin {Free, Sock} =>
                fdt[f].by \in Connected /\ cl[fdt[f].by].fd = f
  BY <1>1 DEF FdInv
<1>3. \A d \in Clients : /\ d \in Connected <=> cl[d].sock # 0
                         /\ d \in Connected' <=> cl'[d].sock # 0
                         /\ cl[d].sock \in Fds \cup {0}
  BY SectionFacts DEF Connected
<1>4. PICK f \in Fds :
         /\ Shut(fdt, cl[c].fd)[f] = Free /\ fdt'[f] = Opened(c, x)
         /\ \A g \in Fds : g # f => fdt'[g] = Shut(fdt, cl[c].fd)[g]
         /\ Becomes(c, [Announced(c, x, n) EXCEPT !.fd = f])
  BY LoadFacts
<1>5. /\ cl'[c].sock = cl[c].sock /\ cl'[c].fd = f /\ cl'[c].chip = x /\ cl'[c].run /\ cl'[c].sent = 0
      /\ \A d \in Clients : d # c => cl'[d] = cl[d]
  BY <1>0, <1>4, AnnouncedFacts DEF Becomes
<1>6. /\ cl[c].fd \in Fds \cup {0}
      /\ \A g \in Fds : g # cl[c].fd => Shut(fdt, cl[c].fd)[g] = fdt[g]
      /\ cl[c].fd # 0 => Shut(fdt, cl[c].fd)[cl[c].fd] = Free
  BY SectionFacts, ShutFacts
<1>7. cl[c].fd # 0 => fdt[cl[c].fd] = Free \/ (fdt[cl[c].fd] \in FileType /\ fdt[cl[c].fd].by = c)
  BY <1>0, HoldsFacts
<1>8. /\ Opened(c, x) \in FileType /\ Opened(c, x).by = c
  BY <1>0 DEF Opened, FileType
<1>9. \A g \in Fds : \/ fdt'[g] = fdt[g]
                     \/ /\ fdt[g] \in FileType => fdt[g].by = c
                        /\ fdt'[g] \in FileType => fdt'[g].by = c
  <2> SUFFICES ASSUME NEW g \in Fds, fdt'[g] # fdt[g]
               PROVE  /\ fdt[g] \in FileType => fdt[g].by = c
                      /\ fdt'[g] \in FileType => fdt'[g].by = c
    OBVIOUS
  <2>1. CASE g = f
    BY <1>4, <1>6, <1>7, <1>8, <2>1, UseFacts, ConstFacts
  <2>2. CASE g # f
    <3>1. g = cl[c].fd /\ g # 0 /\ fdt'[g] = Free
      BY <1>4, <1>6, <2>2, ConstFacts
    <3> QED
      BY <1>7, <3>1, UseFacts
  <2> QED
    BY <2>1, <2>2
<1>10. Others(c)
  BY <1>0, <1>4, <1>9, OthersKept
<1>11. \A d \in Clients : cl'[d].sock = cl[d].sock
  BY <1>5
<1>12. Connected' = Connected /\ Connected \subseteq Clients
  BY <1>11 DEF Connected
<1>13. \A d \in Connected : cl[d].sock \in Fds /\ fdt'[cl[d].sock] = Sock
  <2> SUFFICES ASSUME NEW d \in Connected PROVE cl[d].sock \in Fds /\ fdt'[cl[d].sock] = Sock
    OBVIOUS
  <2>1. cl[d].sock \in Fds /\ fdt[cl[d].sock] = Sock
    BY <1>2, <1>3, <1>12
  <2>2. cl[d].sock # cl[c].fd
    BY <1>7, <2>1, UseFacts, ConstFacts
  <2>3. Shut(fdt, cl[c].fd)[cl[d].sock] = Sock
    BY <1>6, <2>1, <2>2
  <2> QED
    BY <1>4, <2>1, <2>3, UseFacts
<1>14. ASSUME "leak" \notin hurt', NEW g \in Fds, fdt'[g] \notin {Free, Sock}
       PROVE  fdt'[g].by \in Connected /\ cl'[fdt'[g].by].fd = g
  <2>1. CASE g = f
    BY <1>0, <1>4, <1>5, <1>8, <2>1
  <2>2. CASE g # f
    <3>1. fdt'[g] = Shut(fdt, cl[c].fd)[g]
      BY <1>4, <2>2
    <3>2. g # cl[c].fd
      BY <1>6, <1>14, <3>1, ConstFacts
    <3>3. fdt'[g] = fdt[g]
      BY <1>6, <3>1, <3>2
    <3>4. fdt[g].by \in Connected /\ cl[fdt[g].by].fd = g
      BY <1>1, <1>2, <1>14, <3>3
    <3>5. fdt[g].by # c
      BY <3>2, <3>4
    <3> QED
      BY <1>5, <1>12, <3>3, <3>4, <3>5
  <2> QED
    BY <2>1, <2>2
<1>15. FdInv'
  BY <1>2, <1>11, <1>12, <1>13, <1>14 DEF FdInv
<1>16. Holds(c)'
  BY <1>0, <1>4, <1>5, <1>8, HoldsNext
<1> QED
  BY <1>4, <1>5, <1>10, <1>15, <1>16

\* A command that leaves the table and the numbers alone.
LEMMA FdSame ==
    ASSUME TypeInv, TypeInv', FdInv, NEW c \in Clients, hurt \subseteq hurt', fdt' = fdt,
           cl'[c].sock = cl[c].sock, cl'[c].fd = cl[c].fd, \A d \in Clients : d # c => cl'[d] = cl[d]
    PROVE  FdInv' /\ Others(c) /\ (Holds(c)' <=> Holds(c))
<1>1. FdInv'
  BY FdFrame
<1>2. Holds(c)' <=> Holds(c)
  BY DEF Holds, Open
<1>3. Others(c)
  BY DEF Others, Holds, Open
<1> QED
  BY <1>1, <1>2, <1>3

\* The connection has closed its file, or goes on writing to it.
FileClosed(c, n) ==
    /\ ~Holds(c)' /\ ~cl'[c].run
    /\ \/ cl[c].chip \in Chips /\ Verdict(c, cl[c].chip, Stored(c, n)[cl[c].chip])
       \/ Failed(cl[c].chip, << >>)

FileGrows(c, n) ==
    /\ Holds(c)' /\ cl'[c].run /\ cl'[c].chip = cl[c].chip /\ cl'[c].no = cl[c].no
    /\ cl'[c].sent = cl[c].sent + n
    /\ fdt'[cl'[c].fd].chip = fdt[cl[c].fd].chip
    /\ fdt'[cl'[c].fd].pos = fdt[cl[c].fd].pos + n
    /\ chip' = chip /\ slot' = SetLoad(SlotOf(cl[c].chip), "loading")

\* A portion is written to the file of its own connection.
LEMMA FdPart ==
    ASSUME TypeInv, FdInv, NEW c \in Clients, NEW n \in 0 .. MaxLen, NEW last \in BOOLEAN,
           TransferPart(c, n, last), Alive'
    PROVE  /\ FdInv' /\ Others(c) /\ Holds(c)
           /\ FileClosed(c, n) \/ FileGrows(c, n)
<1>0. TypeInv' /\ hurt \subseteq hurt' /\ Holds(c)
  BY PartFacts DEF Alive, Fatal
<1>1. cl[c].fd \in Fds /\ fdt[cl[c].fd] \in FileType /\ fdt[cl[c].fd].by = c
  BY <1>0, HoldsFacts
<1>t. fdt \in [Fds -> {Free, Sock} \cup FileType]
  BY DEF TypeInv
<1>2. CASE PartEnds(c, n)
  <2>0. fdt' = Shut(fdt, cl[c].fd)
    BY <1>2 DEF PartEnds
  <2>1. PICK r : /\ Becomes(c, r) /\ ~r.run
                 /\ r.sock = cl[c].sock /\ r.fd = cl[c].fd /\ r.chip = cl[c].chip
    BY <1>2, Zenon DEF PartEnds
  <2>2. cl'[c] = r /\ \A d \in Clients : d # c => cl'[d] = cl[d]
    BY <2>1 DEF Becomes
  <2>3. fdt'[cl[c].fd] = Free /\ \A g \in Fds : g # cl[c].fd => fdt'[g] = fdt[g]
    BY <1>1, <2>0, ConstFacts, ShutFacts
  <2>4. \A g \in Fds : /\ fdt[g] = Sock => fdt'[g] = Sock
                       /\ fdt'[g] \notin {Free, Sock} => fdt[g] \notin {Free, Sock} /\ fdt'[g].by = fdt[g].by
    BY <1>1, <2>3, UseFacts
  <2>5. \A d \in Clients : cl'[d].sock = cl[d].sock /\ cl'[d].fd = cl[d].fd
    BY <2>1, <2>2
  <2>6. FdInv'
    BY <1>0, <2>4, <2>5, FdFrame
  <2>7. Others(c)
    BY <1>0, <1>1, <2>1, <2>3, UseFacts, OthersKept
  <2>8. ~Holds(c)'
    BY <1>0, <2>1, <2>2, <2>3, UseFacts, HoldsNext
  <2>9. FileClosed(c, n)
    BY <1>2, <2>1, <2>2, <2>8, Zenon DEF FileClosed, PartEnds
  <2> QED
    BY <1>0, <2>6, <2>7, <2>9
<1>3. CASE PartGoesOn(c, n)
  <2>1. PICK r : /\ Becomes(c, r) /\ r.run
                 /\ r.sock = cl[c].sock /\ r.fd = cl[c].fd /\ r.chip = cl[c].chip
                 /\ r.no = cl[c].no /\ r.sent = cl[c].sent + n
    BY <1>3, Zenon DEF PartGoesOn
  <2>2. cl'[c] = r /\ \A d \in Clients : d # c => cl'[d] = cl[d]
    BY <2>1 DEF Becomes
  <2>3. fdt' = [fdt EXCEPT ![cl[c].fd].pos = @ + n]
    BY <1>1, <1>3, UseFacts DEF PartGoesOn
  <2>4. /\ fdt'[cl[c].fd] = [fdt[cl[c].fd] EXCEPT !.pos = @ + n]
        /\ \A g \in Fds : g # cl[c].fd => fdt'[g] = fdt[g]
    BY <1>1, <1>t, <2>3
  <2>5. /\ fdt'[cl[c].fd] \in FileType /\ fdt'[cl[c].fd].by = c
        /\ fdt'[cl[c].fd].chip = fdt[cl[c].fd].chip /\ fdt'[cl[c].fd].pos = fdt[cl[c].fd].pos + n
    BY <1>1, <2>4, ConstFacts DEF FileType
  <2>6. \A g \in Fds : /\ fdt[g] = Sock => fdt'[g] = Sock
                       /\ fdt'[g] \notin {Free, Sock} => fdt[g] \notin {Free, Sock} /\ fdt'[g].by = fdt[g].by
    BY <1>1, <2>4, <2>5, UseFacts
  <2>7. \A d \in Clients : cl'[d].sock = cl[d].sock /\ cl'[d].fd = cl[d].fd
    BY <2>1, <2>2
  <2>8. FdInv'
    BY <1>0, <2>6, <2>7, FdFrame
  <2>9. Others(c)
    BY <1>0, <1>1, <2>1, <2>4, <2>5, OthersKept
  <2>10. Holds(c)'
    BY <1>0, <1>1, <2>1, <2>2, <2>5, HoldsNext
  <2>11. chip' = chip /\ slot' = SetLoad(SlotOf(cl[c].chip), "loading")
    BY <1>3 DEF PartGoesOn
  <2>12. FileGrows(c, n)
    BY <2>1, <2>2, <2>5, <2>10, <2>11 DEF FileGrows
  <2> QED
    BY <1>0, <2>8, <2>9, <2>12
<1>4. PartEnds(c, n) \/ PartGoesOn(c, n)
  BY PartFacts
<1> QED
  BY <1>2, <1>3, <1>4

\* Sockets and files stay in order.
LEMMA FdNext == TypeInv /\ FdInv /\ [Next]_vars => FdInv'
<1> SUFFICES ASSUME TypeInv, FdInv, [Next]_vars, Alive' PROVE FdInv'
  BY DEF FdInv
<1>0. TypeInv' /\ hurt \subseteq hurt'
  BY TypeNext
<1>1. ASSUME NEW c \in Clients, Accept(c) \/ Disconnect(c) PROVE FdInv'
  BY <1>1, FdConn
<1>2. ASSUME NEW c \in Clients, NEW x \in ChipIds, NEW n \in 0 .. MaxLen, LoadRefused(c, x, n)
      PROVE  FdInv'
  <2>1. /\ Becomes(c, Announced(c, x, n)) /\ fdt' = fdt /\ c \in Connected /\ loads < MaxLoad
    BY <1>2, RefusedFacts DEF LoadRefused
  <2>2. /\ cl'[c].sock = cl[c].sock /\ cl'[c].fd = cl[c].fd /\ \A d \in Clients : d # c => cl'[d] = cl[d]
    BY <2>1, AnnouncedFacts DEF Becomes
  <2> QED
    BY <1>0, <2>1, <2>2, FdSame
<1>3. ASSUME NEW c \in Clients, NEW x \in ChipIds, NEW n \in 0 .. MaxLen, Load(c, x, n)
      PROVE  FdInv'
  BY <1>3, FdLoad
<1>4. ASSUME NEW c \in Clients, Broken(c) PROVE FdInv'
  <2>1. fdt' = fdt /\ \E r : /\ Becomes(c, r) /\ r.sock = cl[c].sock /\ r.fd = cl[c].fd
    BY <1>4, BrokenFacts DEF Broken
  <2>2. /\ cl'[c].sock = cl[c].sock /\ cl'[c].fd = cl[c].fd /\ \A d \in Clients : d # c => cl'[d] = cl[d]
    BY <2>1 DEF Becomes
  <2> QED
    BY <1>0, <2>1, <2>2, FdSame
<1>5. ASSUME NEW c \in Clients, NEW n \in 0 .. MaxLen, NEW last \in BOOLEAN, TransferPart(c, n, last)
      PROVE  FdInv'
  BY <1>5, FdPart
<1>6. ASSUME NEW c \in Clients, Rest(c) PROVE FdInv'
  <2>1. fdt' = fdt /\ cl' = cl
    BY <1>6, RestFacts DEF Rest
  <2> QED
    BY <1>0, <2>1, FdSame
<1>7. CASE UNCHANGED vars
  BY <1>7 DEF vars, FdInv, Alive, Connected
<1> QED
  BY <1>1, <1>2, <1>3, <1>4, <1>5, <1>6, <1>7, NextCases, Zenon

\* FdInv holds from the start.
LEMMA FdAlways == Spec => []FdInv
<1>1. Init => FdInv
  <2> SUFFICES ASSUME Init PROVE FdInv
    OBVIOUS
  <2>1. (\A c \in Clients : cl[c].sock = 0) /\ \A f \in Fds : fdt[f] = Free
    BY FreshFacts DEF Init
  <2> QED
    BY <2>1 DEF FdInv, Connected
<1> QED
  BY <1>1, TypeAlways, FdNext, PTL DEF Spec

\* Every number is of its type, every open file has its connection and every
\* connection its socket.
THEOREM FdsStaySound == Spec => []FdsSound
<1>1. TypeInv /\ FdInv => FdsSound
  <2> SUFFICES ASSUME TypeInv, FdInv PROVE TypeOK /\ FdsOwned
    BY DEF FdsSound
  <2>1. FdsOwned
    BY DEF FdInv, FdsOwned
  <2>2. \A f \in Fds : \/ fdt[f] \in {Free, Sock}
                       \/ /\ fdt[f].use = "file" /\ fdt[f].chip \in Chips
                          /\ fdt[f].pos \in Nat /\ fdt[f].by \in Clients
    BY DEF TypeInv, FileType
  <2>3. \A x \in Chips : \A i \in 1 .. Len(file[x]) : file[x][i] \in Chunks
    <3> SUFFICES ASSUME NEW x \in Chips, NEW i \in 1 .. Len(file[x]) PROVE file[x][i] \in Chunks
      OBVIOUS
    <3>1. file[x] \in Seq(Chunks)
      BY DEF TypeInv
    <3> QED
      BY <3>1
  <2>4. \A x \in Chips : chip[x].no \in 0 .. MaxLoad /\ chip[x].good \in BOOLEAN
    BY DEF TypeInv, ChipType
  <2> QED
    BY <2>1, <2>2, <2>3, <2>4 DEF TypeInv, TypeOK, SectionType, SlotType, OutOK
<1> QED
  BY <1>1, TypeAlways, FdAlways, PTL
-----------------------------------------------------------------------------
(* The bytes.                                                                *)

\* A step for client c keeps what is in the files and the chips in order if the
\* files of the others stay, and c's is its own.
LEMMA ByteFrame ==
    ASSUME ByteInv, NEW c \in Clients, Others(c), Unshared, TypeInv,
           \A d \in Clients : d # c /\ Holds(d) =>
               file'[fdt[cl[d].fd].chip] = file[fdt[cl[d].fd].chip],
           Holds(c)' => \A d \in Clients : d # c /\ Holds(d) =>
               fdt'[cl'[c].fd].chip # fdt[cl[d].fd].chip,
           Holds(c)' /\ cl'[c].run /\ cl'[c].chip \in Chips => FileOf(c)',
           \A y \in Chips : \E m \in Nat : chip'[y].data = Sent(chip'[y].no, m)
    PROVE  ByteInv'
<1>1. /\ \A d, e \in Clients :
            Holds(d) /\ Holds(e) /\ fdt[cl[d].fd].chip = fdt[cl[e].fd].chip => d = e
      /\ \A d \in Clients : Holds(d) /\ cl[d].run /\ cl[d].chip \in Chips => FileOf(d)
  BY DEF ByteInv
<1>2. \A d \in Clients : d # c /\ Holds(d)' => Holds(d) /\ cl'[d] = cl[d] /\ fdt'[cl'[d].fd] = fdt[cl[d].fd]
  BY DEF Others
<1>3. ASSUME NEW d \in Clients, NEW e \in Clients, Holds(d)', Holds(e)',
             fdt'[cl'[d].fd].chip = fdt'[cl'[e].fd].chip
      PROVE  d = e
  BY <1>1, <1>2, <1>3
<1>4. ASSUME NEW d \in Clients, Holds(d)', cl'[d].run, cl'[d].chip \in Chips
      PROVE  FileOf(d)'
  <2>1. CASE d = c
    BY <1>4, <2>1
  <2>2. CASE d # c
    <3>1. FileOf(d) /\ Holds(d) /\ cl'[d] = cl[d] /\ fdt'[cl'[d].fd] = fdt[cl[d].fd]
      BY <1>1, <1>2, <1>4, <2>2
    <3>2. file'[cl[d].chip] = file[cl[d].chip]
      BY <2>2, <3>1 DEF FileOf
    <3> QED
      BY <3>1, <3>2 DEF FileOf
  <2> QED
    BY <2>1, <2>2
<1> QED
  BY <1>3, <1>4 DEF ByteInv

\* A portion goes behind what its connection has sent.
LEMMA StoredBehind ==
    ASSUME TypeInv, ByteInv, Unshared, NEW c \in Clients, Holds(c), cl[c].run, NEW n \in 0 .. MaxLen
    PROVE  /\ \A y \in Chips : y # fdt[cl[c].fd].chip => Stored(c, n)[y] = file[y]
           /\ cl[c].chip \in Chips => Stored(c, n)[cl[c].chip] = Sent(cl[c].no, cl[c].sent + n)
<1>1. cl[c].fd \in Fds /\ fdt[cl[c].fd] \in FileType
  BY HoldsFacts
<1>2. Stored(c, n) = [file EXCEPT ![fdt[cl[c].fd].chip] =
             Written(file[fdt[cl[c].fd].chip], fdt[cl[c].fd].pos, Portion(c, n))]
  BY <1>1, UseFacts DEF Stored
<1>3. DOMAIN file = Chips
  BY DEF TypeInv
<1>4. \A y \in Chips : y # fdt[cl[c].fd].chip => Stored(c, n)[y] = file[y]
  BY <1>2, <1>3
<1>5. ASSUME cl[c].chip \in Chips
      PROVE  Stored(c, n)[cl[c].chip] = Sent(cl[c].no, cl[c].sent + n)
  <2>1. FileOf(c)
    BY <1>5 DEF ByteInv
  <2>2. Stored(c, n)[cl[c].chip] = Written(file[cl[c].chip], cl[c].sent, Portion(c, n))
    BY <1>2, <1>3, <1>5, <2>1 DEF FileOf
  <2>3. cl[c].sent \in Nat /\ n \in Nat
    BY SectionFacts, ConstFacts
  <2>4. Stored(c, n)[cl[c].chip] = Written(Sent(cl[c].no, cl[c].sent), cl[c].sent, Portion(c, n))
    BY <2>1, <2>2 DEF FileOf
  <2> QED
    BY <2>3, <2>4, WrittenBehind DEF Portion
<1> QED
  BY <1>4, <1>5

\* A portion is written, and the file perhaps loaded.
LEMMA BytePart ==
    ASSUME TypeInv, FdInv, ByteInv, NEW c \in Clients, NEW n \in 0 .. MaxLen, NEW last \in BOOLEAN,
           TransferPart(c, n, last), Unshared'
    PROVE  ByteInv'
<1>0. /\ TypeInv' /\ hurt \subseteq hurt' /\ file' = Stored(c, n) /\ cl[c].run
      /\ Alive' /\ Unshared /\ DOMAIN file = Chips
  <2>1. TypeInv' /\ hurt \subseteq hurt' /\ file' = Stored(c, n) /\ cl[c].run
    BY PartFacts
  <2> QED
    BY <2>1 DEF Unshared, Alive, TypeInv
<1>1. Others(c) /\ Holds(c)
  BY <1>0, FdPart
<1>2. cl[c].fd \in Fds /\ fdt[cl[c].fd] \in FileType
  BY <1>1, HoldsFacts
<1>3. /\ \A y \in Chips : y # fdt[cl[c].fd].chip => file'[y] = file[y]
      /\ cl[c].chip \in Chips => file'[cl[c].chip] = Sent(cl[c].no, cl[c].sent + n)
  BY <1>0, <1>1, StoredBehind
<1>4. \A d \in Clients : d # c /\ Holds(d) => fdt[cl[d].fd].chip # fdt[cl[c].fd].chip
  BY <1>0, <1>1 DEF ByteInv
<1>5. \A d \in Clients : d # c /\ Holds(d) =>
          file'[fdt[cl[d].fd].chip] = file[fdt[cl[d].fd].chip]
  <2> SUFFICES ASSUME NEW d \in Clients, d # c, Holds(d)
               PROVE  file'[fdt[cl[d].fd].chip] = file[fdt[cl[d].fd].chip]
    OBVIOUS
  <2>1. fdt[cl[d].fd].chip \in Chips
    BY HoldsFacts DEF FileType
  <2> QED
    BY <1>3, <1>4, <2>1
<1>6. cl[c].sent \in Nat /\ n \in Nat /\ cl[c].sent + n \in Nat /\ cl[c].chip \in ChipIds \cup {NoChip}
  BY SectionFacts, ConstFacts
<1>7. \A y \in Chips : \E m \in Nat : chip[y].data = Sent(chip[y].no, m)
  BY <1>0 DEF ByteInv
<1>8. CASE FileClosed(c, n)
  <2>0. ~Holds(c)'
    BY <1>8 DEF FileClosed
  <2>1. \A y \in Chips : \E m \in Nat : chip'[y].data = Sent(chip'[y].no, m)
    <3>1. CASE /\ cl[c].chip \in Chips
               /\ Verdict(c, cl[c].chip, Stored(c, n)[cl[c].chip])
      <4>1. \A y \in Chips : y # cl[c].chip => chip'[y] = chip[y]
        BY <3>1 DEF Verdict
      <4>2. \/ chip'[cl[c].chip] = chip[cl[c].chip]
            \/ /\ chip'[cl[c].chip].no = cl[c].no
               /\ chip'[cl[c].chip].data = Sent(cl[c].no, cl[c].sent + n)
        BY <1>0, <1>3, <3>1 DEF Verdict
      <4>3. \E m \in Nat : chip'[cl[c].chip].data = Sent(chip'[cl[c].chip].no, m)
        BY <1>6, <1>7, <3>1, <4>2
      <4> QED
        BY <1>7, <4>1, <4>3
    <3>2. CASE Failed(cl[c].chip, << >>)
      BY <1>6, <1>7, <3>2, FailedFacts
    <3> QED
      BY <1>8, <3>1, <3>2, Zenon DEF FileClosed
  <2> QED
    BY <1>0, <1>1, <1>5, <2>0, <2>1, ByteFrame
<1>9. CASE FileGrows(c, n)
  <2>0. /\ Holds(c)' /\ cl'[c].run /\ cl'[c].chip = cl[c].chip /\ cl'[c].no = cl[c].no
        /\ cl'[c].sent = cl[c].sent + n
        /\ fdt'[cl'[c].fd].chip = fdt[cl[c].fd].chip
        /\ fdt'[cl'[c].fd].pos = fdt[cl[c].fd].pos + n
        /\ chip' = chip
    BY <1>9 DEF FileGrows
  <2>1. ASSUME cl'[c].chip \in Chips PROVE FileOf(c)'
    <3>1. FileOf(c)
      BY <1>0, <1>1, <2>0, <2>1 DEF ByteInv
    <3> QED
      BY <1>3, <2>0, <2>1, <3>1 DEF FileOf
  <2> QED
    BY <1>0, <1>1, <1>4, <1>5, <1>7, <2>0, <2>1, ByteFrame, SMTT(30)
<1> QED
  BY <1>0, <1>8, <1>9, FdPart

\* CCT_LOAD empties the file of a chip that nobody else loads.
LEMMA ByteLoad ==
    ASSUME TypeInv, FdInv, ByteInv, NEW c \in Clients, NEW x \in ChipIds, NEW n \in 0 .. MaxLen,
           Load(c, x, n), Unshared'
    PROVE  ByteInv'
<1>0. /\ TypeInv' /\ hurt \subseteq hurt' /\ Alive' /\ chip' = chip /\ x \in Chips
      /\ "shared" \notin hurt'
  BY LoadFacts DEF Unshared
<1>1. Unshared /\ DOMAIN file = Chips
  BY <1>0 DEF Unshared, Alive, TypeInv
<1>2. /\ Others(c) /\ Holds(c)' /\ cl'[c].chip = x /\ cl'[c].sent = 0
      /\ fdt'[cl'[c].fd] = Opened(c, x)
  BY <1>0, FdLoad
<1>3. /\ file' = [file EXCEPT ![x] = << >>]
      /\ \A d \in Connected : d # c /\ Holds(d) => fdt[cl[d].fd].chip # x
  BY <1>0, LoadFacts
<1>4. \A d \in Clients : d # c /\ Holds(d) => fdt[cl[d].fd].chip # x
  BY <1>3, HoldsFacts
<1>5. \A d \in Clients : d # c /\ Holds(d) =>
          file'[fdt[cl[d].fd].chip] = file[fdt[cl[d].fd].chip]
  BY <1>1, <1>3, <1>4
<1>6. Opened(c, x).chip = x /\ Opened(c, x).pos = 0
  BY DEF Opened
<1>7. file'[x] = << >>
  BY <1>0, <1>1, <1>3
<1>8. Sent(cl'[c].no, 0) = << >>
  BY DEF Sent
<1>9. FileOf(c)'
  BY <1>2, <1>6, <1>7, <1>8 DEF FileOf
<1>10. \A y \in Chips : \E m \in Nat : chip'[y].data = Sent(chip'[y].no, m)
  BY <1>0, <1>1 DEF ByteInv
<1>11. \A d \in Clients : d # c /\ Holds(d) => fdt'[cl'[c].fd].chip # fdt[cl[d].fd].chip
  BY <1>2, <1>4, <1>6
<1> QED
  BY <1>1, <1>2, <1>5, <1>9, <1>10, <1>11, ByteFrame

\* A command that leaves the files alone, and of the section keeps the number.
LEMMA ByteSame ==
    ASSUME TypeInv, TypeInv', FdInv, ByteInv, Unshared, NEW c \in Clients, hurt \subseteq hurt',
           fdt' = fdt, file' = file, cl'[c].sock = cl[c].sock, cl'[c].fd = cl[c].fd,
           \A d \in Clients : d # c => cl'[d] = cl[d],
           cl'[c].run /\ cl'[c].chip \in Chips => cl'[c] = cl[c],
           \A y \in Chips : \E m \in Nat : chip'[y].data = Sent(chip'[y].no, m)
    PROVE  ByteInv'
<1>1. Others(c) /\ (Holds(c)' <=> Holds(c))
  BY FdSame
<1>2. \A d \in Clients : d # c /\ Holds(d) /\ Holds(c) => fdt[cl[c].fd].chip # fdt[cl[d].fd].chip
  BY DEF ByteInv
<1>3. ASSUME Holds(c)', cl'[c].run, cl'[c].chip \in Chips PROVE FileOf(c)'
  <2>1. FileOf(c) /\ cl'[c] = cl[c]
    BY <1>1, <1>3 DEF ByteInv
  <2> QED
    BY <2>1 DEF FileOf
<1> QED
  BY <1>1, <1>2, <1>3, ByteFrame

\* Every step keeps the bytes in order.
LEMMA ByteNext == TypeInv /\ FdInv /\ ByteInv /\ [Next]_vars => ByteInv'
<1> SUFFICES ASSUME TypeInv, FdInv, ByteInv, [Next]_vars, Unshared' PROVE ByteInv'
  BY DEF ByteInv
<1>0. TypeInv' /\ hurt \subseteq hurt'
  BY TypeNext
<1>u. Unshared /\ Alive' /\ "replay" \notin hurt'
  BY <1>0 DEF Unshared, Alive
<1>c. \A y \in Chips : \E m \in Nat : chip[y].data = Sent(chip[y].no, m)
  BY <1>u DEF ByteInv
<1>1. ASSUME NEW c \in Clients, Accept(c) \/ Disconnect(c) PROVE ByteInv'
  <2>1. Others(c) /\ ~Holds(c)'
    BY <1>u, <1>1, FdConn
  <2>2. file' = file /\ chip' = chip
    BY <1>1, ConnFacts
  <2> QED
    BY <1>u, <1>c, <2>1, <2>2, ByteFrame
<1>2. ASSUME NEW c \in Clients, NEW x \in ChipIds, NEW n \in 0 .. MaxLen, LoadRefused(c, x, n)
      PROVE  ByteInv'
  <2>1. /\ Becomes(c, Announced(c, x, n)) /\ fdt' = fdt /\ file' = file /\ chip' = chip
        /\ x \notin Chips /\ c \in Connected /\ loads < MaxLoad
    BY <1>2, RefusedFacts DEF LoadRefused
  <2>2. /\ cl'[c].sock = cl[c].sock /\ cl'[c].fd = cl[c].fd /\ cl'[c].chip = x
        /\ \A d \in Clients : d # c => cl'[d] = cl[d]
    BY <2>1, AnnouncedFacts DEF Becomes
  <2> QED
    BY <1>0, <1>u, <1>c, <2>1, <2>2, ByteSame
<1>3. ASSUME NEW c \in Clients, NEW x \in ChipIds, NEW n \in 0 .. MaxLen, Load(c, x, n)
      PROVE  ByteInv'
  BY <1>3, ByteLoad
<1>4. ASSUME NEW c \in Clients, Broken(c) PROVE ByteInv'
  <2>1. fdt' = fdt /\ file' = file /\ cl[c].chip \in ChipIds \cup {NoChip} /\ Failed(cl[c].chip, << >>)
    BY <1>4, BrokenFacts, SectionFacts DEF Broken
  <2>2. \E r : Becomes(c, r) /\ ~r.run /\ r.sock = cl[c].sock /\ r.fd = cl[c].fd
    BY <1>4, BrokenFacts DEF Broken
  <2>3. /\ cl'[c].sock = cl[c].sock /\ cl'[c].fd = cl[c].fd /\ ~cl'[c].run
        /\ \A d \in Clients : d # c => cl'[d] = cl[d]
    BY <2>2 DEF Becomes
  <2>4. chip' = chip
    BY <2>1, FailedFacts
  <2> QED
    BY <1>0, <1>u, <1>c, <2>1, <2>3, <2>4, ByteSame
<1>5. ASSUME NEW c \in Clients, NEW n \in 0 .. MaxLen, NEW last \in BOOLEAN, TransferPart(c, n, last)
      PROVE  ByteInv'
  BY <1>5, BytePart
<1>6. ASSUME NEW c \in Clients, Rest(c) PROVE ByteInv'
  <2>1. fdt' = fdt /\ cl' = cl /\ file' = file
    BY <1>6, RestFacts DEF Rest
  <2>2. \/ Failed(cl[c].chip, << >>)
        \/ \E x \in Chips : UnloadFpga(x)
        \/ UNCHANGED <<chip, slot>>
    BY <1>u, <1>6, RestFacts DEF Rest
  <2>3. chip \in [Chips -> ChipType] /\ cl[c].chip \in ChipIds \cup {NoChip}
    BY SectionFacts DEF TypeInv
  <2>4. \A y \in Chips : chip'[y].data = chip[y].data /\ chip'[y].no = chip[y].no
    <3>1. CASE Failed(cl[c].chip, << >>)
      BY <2>3, <3>1, FailedFacts
    <3>2. CASE \E x \in Chips : UnloadFpga(x)
      <4>1. PICK x \in Chips : chip' = [chip EXCEPT ![x].good = FALSE] \/ chip' = chip
        BY <3>2 DEF UnloadFpga
      <4> QED
        BY <2>3, <4>1 DEF ChipType
    <3>3. CASE UNCHANGED <<chip, slot>>
      BY <3>3
    <3> QED
      BY <2>2, <3>1, <3>2, <3>3
  <2>5. \A y \in Chips : \E m \in Nat : chip'[y].data = Sent(chip'[y].no, m)
    BY <1>c, <2>4
  <2> QED
    BY <1>0, <1>u, <2>1, <2>5, ByteSame
<1>7. CASE UNCHANGED vars
  BY <1>7 DEF vars, ByteInv, Unshared, Alive, Holds, Open, FileOf
<1> QED
  BY <1>1, <1>2, <1>3, <1>4, <1>5, <1>6, <1>7, NextCases, Zenon

\* ByteInv holds from the start.
LEMMA ByteAlways == Spec => []ByteInv
<1>1. Init => ByteInv
  <2> SUFFICES ASSUME Init PROVE ByteInv
    OBVIOUS
  <2>1. \A c \in Clients : cl[c].fd = 0
    BY DEF Init, Fresh
  <2>2. \A c \in Clients : ~Holds(c)
    BY <2>1 DEF Holds, Open
  <2>3. Sent(0, 0) = << >>
    BY DEF Sent
  <2>4. \A x \in Chips : chip[x].data = << >> /\ chip[x].no = 0
    BY DEF Init
  <2>5. \A x \in Chips : \E n \in Nat : chip[x].data = Sent(chip[x].no, n)
    BY <2>3, <2>4
  <2> QED
    BY <2>2, <2>5 DEF ByteInv
<1> QED
  BY <1>1, TypeAlways, FdAlways, ByteNext, PTL DEF Spec

\* What is written into a chip is the beginning of the file that was sent for
\* one LOAD command, whatever the other connections do meanwhile.
THEOREM ChipsGetOwnBytes == Spec => []OwnBytes
<1>1. ByteInv => OwnBytes
  <2> SUFFICES ASSUME ByteInv, Unshared, NEW x \in Chips, NEW i \in 1 .. Len(chip[x].data)
               PROVE  chip[x].data[i] = <<chip[x].no, i>>
    BY DEF OwnBytes, Unshared
  <2>1. PICK n \in Nat : chip[x].data = Sent(chip[x].no, n)
    BY DEF ByteInv
  <2>2. Len(chip[x].data) = n
    BY <2>1, SentFacts
  <2> QED
    BY <2>1, <2>2, SentFacts
<1> QED
  BY <1>1, ByteAlways, PTL
-----------------------------------------------------------------------------
(* The states shown.                                                         *)

Calm == Alive /\ hurt \cap {"leak", "abandoned", "unverified", "link"} = {}

\* Client c keeps slot s busy.
Keeps(c, s) == Holds(c) /\ cl[c].run /\ SlotOf(cl[c].chip) = s

\* A slot that still shows "loading" is kept busy by another client than c,
\* or by c after the step.
LEMMA BusyFrame ==
    ASSUME BusyInv, Calm, NEW c \in Clients, Others(c),
           \A s \in Slots : slot'[s].load = "loading" =>
               Keeps(c, s)' \/ (slot[s].load = "loading" /\ ~Keeps(c, s))
    PROVE  BusyInv'
<1> SUFFICES ASSUME NEW s \in Slots, slot'[s].load = "loading" PROVE Busy(s)'
  BY DEF BusyInv
<1>1. CASE Keeps(c, s)'
  BY <1>1 DEF Busy, Keeps
<1>2. CASE slot[s].load = "loading" /\ ~Keeps(c, s)
  <2>1. Busy(s)
    BY <1>2 DEF BusyInv, Calm
  <2>2. PICK d \in Clients : Holds(d) /\ cl[d].run /\ SlotOf(cl[d].chip) = s
    BY <2>1 DEF Busy
  <2>3. d # c
    BY <1>2, <2>2 DEF Keeps
  <2>4. Holds(d)' /\ cl'[d] = cl[d]
    BY <2>2, <2>3 DEF Others
  <2> QED
    BY <2>2, <2>4 DEF Busy
<1> QED
  BY <1>1, <1>2

\* The step ends the transfer of c, and its slot shows the outcome.
LEMMA BusyOver ==
    ASSUME BusyInv, Calm, NEW c \in Clients, Others(c),
           slot'[SlotOf(cl[c].chip)].load # "loading",
           \A t \in Slots : t # SlotOf(cl[c].chip) => slot'[t] = slot[t]
    PROVE  BusyInv'
<1>1. ASSUME NEW s \in Slots, slot'[s].load = "loading"
      PROVE  slot[s].load = "loading" /\ ~Keeps(c, s)
  BY <1>1 DEF Keeps
<1> QED
  BY <1>1, BusyFrame

\* Every step keeps "loading" true.
LEMMA BusyNext == TypeInv /\ FdInv /\ BusyInv /\ [Next]_vars => BusyInv'
<1> SUFFICES ASSUME TypeInv, FdInv, BusyInv, [Next]_vars, Calm' PROVE BusyInv'
  BY DEF BusyInv, Calm
<1>0. TypeInv' /\ hurt \subseteq hurt'
  BY TypeNext
<1>u. /\ Calm /\ Alive' /\ hurt' \cap (Fatal \cup {"unverified", "link"}) = {}
      /\ "leak" \notin hurt' /\ "abandoned" \notin hurt'
  BY <1>0 DEF Calm, Alive
<1>s. \A c \in Clients : cl[c].chip \in ChipIds \cup {NoChip} /\ SlotOf(cl[c].chip) \in Slots
  BY SectionFacts, SlotFacts
<1>1. ASSUME NEW c \in Clients, Accept(c) \/ Disconnect(c) PROVE BusyInv'
  <2>1. Others(c) /\ slot' = slot
    BY <1>u, <1>1, FdConn, ConnFacts
  <2>2. ~Holds(c)
    <3>1. CASE Accept(c)
      BY <3>1, HoldsFacts DEF Accept
    <3>2. CASE Disconnect(c)
      BY <1>u, <3>2, ConnFacts
    <3> QED
      BY <1>1, <3>1, <3>2
  <2> QED
    BY <1>u, <2>1, <2>2, BusyFrame DEF Keeps
<1>2. ASSUME NEW c \in Clients, NEW x \in ChipIds, NEW n \in 0 .. MaxLen, LoadRefused(c, x, n)
      PROVE  BusyInv'
  <2>1. /\ Becomes(c, Announced(c, x, n)) /\ fdt' = fdt /\ slot' = slot /\ ~cl[c].run
        /\ c \in Connected /\ loads < MaxLoad
    BY <1>u, <1>2, RefusedFacts DEF LoadRefused
  <2>2. /\ cl'[c].sock = cl[c].sock /\ cl'[c].fd = cl[c].fd
        /\ \A d \in Clients : d # c => cl'[d] = cl[d]
    BY <2>1, AnnouncedFacts DEF Becomes
  <2>3. Others(c)
    BY <1>0, <2>1, <2>2, FdSame
  <2> QED
    BY <1>u, <2>1, <2>3, BusyFrame DEF Keeps
<1>3. ASSUME NEW c \in Clients, NEW x \in ChipIds, NEW n \in 0 .. MaxLen, Load(c, x, n)
      PROVE  BusyInv'
  <2>1. slot' = slot /\ ~cl[c].run
    BY <1>u, <1>3, LoadFacts
  <2>2. Others(c)
    BY <1>u, <1>3, FdLoad
  <2> QED
    BY <1>u, <2>1, <2>2, BusyFrame DEF Keeps
<1>4. ASSUME NEW c \in Clients, Broken(c) PROVE BusyInv'
  <2>1. fdt' = fdt /\ Failed(cl[c].chip, << >>)
    BY <1>4, BrokenFacts DEF Broken
  <2>2. \E r : Becomes(c, r) /\ r.sock = cl[c].sock /\ r.fd = cl[c].fd
    BY <1>4, BrokenFacts DEF Broken
  <2>3. /\ cl'[c].sock = cl[c].sock /\ cl'[c].fd = cl[c].fd
        /\ \A d \in Clients : d # c => cl'[d] = cl[d]
    BY <2>2 DEF Becomes
  <2>4. Others(c)
    BY <1>0, <2>1, <2>3, FdSame
  <2>5. /\ slot'[SlotOf(cl[c].chip)].load = "load_err"
        /\ \A t \in Slots : t # SlotOf(cl[c].chip) => slot'[t] = slot[t]
    BY <1>s, <2>1, FailedFacts
  <2> QED
    BY <1>u, <2>4, <2>5, BusyOver
<1>5. ASSUME NEW c \in Clients, NEW n \in 0 .. MaxLen, NEW last \in BOOLEAN, TransferPart(c, n, last)
      PROVE  BusyInv'
  <2>1. Others(c) /\ (FileClosed(c, n) \/ FileGrows(c, n))
    BY <1>u, <1>5, FdPart
  <2>2. CASE FileClosed(c, n)
    <3>1. /\ slot'[SlotOf(cl[c].chip)].load \in {"load_ok", "load_err"}
          /\ \A t \in Slots : t # SlotOf(cl[c].chip) => slot'[t] = slot[t]
      <4>1. CASE Verdict(c, cl[c].chip, Stored(c, n)[cl[c].chip])
        BY <1>u, <4>1 DEF Verdict
      <4>2. CASE Failed(cl[c].chip, << >>)
        BY <1>s, <4>2, FailedFacts
      <4> QED
        BY <2>2, <4>1, <4>2, Zenon DEF FileClosed
    <3> QED
      BY <1>u, <2>1, <3>1, BusyOver
  <2>3. CASE FileGrows(c, n)
    <3>1. /\ Holds(c)' /\ cl'[c].run /\ cl'[c].chip = cl[c].chip
          /\ slot' = SetLoad(SlotOf(cl[c].chip), "loading")
      BY <2>3 DEF FileGrows
    <3>2. \A t \in Slots : t # SlotOf(cl[c].chip) => slot'[t] = slot[t]
      BY <1>s, <3>1, SetLoadFacts
    <3>3. ASSUME NEW s \in Slots, slot'[s].load = "loading"
          PROVE  Keeps(c, s)' \/ (slot[s].load = "loading" /\ ~Keeps(c, s))
      BY <3>1, <3>2, <3>3 DEF Keeps
    <3> QED
      BY <1>u, <2>1, <3>3, BusyFrame
  <2> QED
    BY <2>1, <2>2, <2>3
<1>6. ASSUME NEW c \in Clients, Rest(c) PROVE BusyInv'
  <2>1. fdt' = fdt /\ cl' = cl
    BY <1>6, RestFacts DEF Rest
  <2>2. \/ \E x \in Chips : Verdict(c, x, file[x])
        \/ Failed(cl[c].chip, << >>)
        \/ \E x \in Chips : UnloadFpga(x)
        \/ slot' = slot
    BY <1>6, RestFacts DEF Rest
  <2>3. ASSUME NEW s \in Slots, slot'[s].load = "loading" PROVE slot[s].load = "loading"
    <3>1. CASE \E x \in Chips : Verdict(c, x, file[x])
      <4>1. PICK x \in Chips : Verdict(c, x, file[x])
        BY <3>1
      <4>2. slot'[SlotOf(x)].load # "loading" /\ \A t \in Slots : t # SlotOf(x) => slot'[t] = slot[t]
        BY <1>u, <4>1 DEF Verdict
      <4> QED
        BY <2>3, <4>2
    <3>2. CASE Failed(cl[c].chip, << >>)
      BY <1>s, <2>3, <3>2, FailedFacts
    <3>3. CASE \E x \in Chips : UnloadFpga(x)
      <4>1. PICK x \in Chips : slot' = SetLoad(SlotOf(x), "wait_load") \/ slot' = slot
        BY <3>3 DEF UnloadFpga
      <4>2. SlotOf(x) \in Slots
        BY SlotFacts
      <4> QED
        BY <2>3, <4>1, <4>2, SetLoadFacts
    <3> QED
      BY <2>2, <2>3, <3>1, <3>2, <3>3
  <2>4. \A s \in Slots : Busy(s) => Busy(s)'
    BY <2>1 DEF Busy, Holds, Open
  <2>5. \A s \in Slots : slot[s].load = "loading" => Busy(s)
    BY <1>u DEF BusyInv, Calm
  <2> QED
    BY <2>3, <2>4, <2>5 DEF BusyInv
<1>7. CASE UNCHANGED vars
  BY <1>7 DEF vars, BusyInv, Busy, Alive, Holds, Open
<1> QED
  BY <1>1, <1>2, <1>3, <1>4, <1>5, <1>6, <1>7, NextCases, Zenon

\* A slot that shows "loading" has a transfer under way.
THEOREM LoadingStaysTrue == Spec => []LoadingIsTrue
<1>1. Init => BusyInv
  <2> SUFFICES ASSUME Init, NEW s \in Slots PROVE slot[s].load # "loading"
    BY DEF BusyInv
  <2> QED
    BY DEF Init
<1>2. Spec => []BusyInv
  BY <1>1, TypeAlways, FdAlways, BusyNext, PTL DEF Spec
<1>3. TypeInv /\ BusyInv => LoadingIsTrue
  <2> SUFFICES ASSUME TypeInv, BusyInv, Calm, NEW s \in Slots, slot[s].load = "loading"
               PROVE  \E c \in Connected : cl[c].run /\ SlotOf(cl[c].chip) = s
    BY DEF LoadingIsTrue, Calm
  <2>1. Busy(s)
    BY DEF BusyInv, Calm
  <2>2. PICK c \in Clients : Holds(c) /\ cl[c].run /\ SlotOf(cl[c].chip) = s
    BY <2>1 DEF Busy
  <2>3. c \in Connected
    BY <2>2, HoldsFacts
  <2> QED
    BY <2>2, <2>3
<1> QED
  BY <1>2, <1>3, TypeAlways, PTL

Even == Alive /\ hurt \cap {"uneven", "unverified", "link"} = {}

\* What CountInv says of one slot.
Counted(s) ==
    /\ IsFiniteSet(Loaded(s))
    /\ slot[s].count = Cardinality(Loaded(s))
    /\ slot[s].load = "load_ok" => Loaded(s) # {}
    /\ slot[s].load = "wait_load" => Loaded(s) = {}

\* The chips stay as they are, and no slot is said to be loaded or unloaded.
LEMMA CountSame ==
    ASSUME NEW s \in Cards, Counted(s), \A y \in Chips : chip'[y].good = chip[y].good,
           slot'[s].count = slot[s].count,
           slot'[s].load \in {slot[s].load, "loading", "load_err"}
    PROVE  Counted(s)'
<1>1. Loaded(s)' = Loaded(s)
  BY DEF Loaded
<1> QED
  BY <1>1 DEF Counted

\* A chip that was not loaded is.
LEMMA CountMore ==
    ASSUME NEW s \in Cards, NEW x \in Chips, SlotOf(x) = s, Counted(s), ~chip[x].good, chip'[x].good,
           \A y \in Chips : y # x => chip'[y] = chip[y],
           slot'[s].count = slot[s].count + 1, slot'[s].load = "load_ok"
    PROVE  Counted(s)'
<1>1. Loaded(s)' = Loaded(s) \cup {x} /\ x \notin Loaded(s)
  BY DEF Loaded
<1>2. IsFiniteSet(Loaded(s)) /\ slot[s].count = Cardinality(Loaded(s))
  BY DEF Counted
<1>3. /\ IsFiniteSet(Loaded(s) \cup {x})
      /\ Cardinality(Loaded(s) \cup {x}) = Cardinality(Loaded(s)) + 1
  BY <1>1, <1>2, FS_AddElement
<1>4. Loaded(s)' # {}
  BY <1>1
<1>5. IsFiniteSet(Loaded(s)') /\ slot'[s].count = Cardinality(Loaded(s)')
  BY <1>1, <1>2, <1>3
<1> QED
  BY <1>4, <1>5 DEF Counted

\* A chip that was loaded is not.
LEMMA CountLess ==
    ASSUME NEW s \in Cards, NEW x \in Chips, SlotOf(x) = s, Counted(s), chip[x].good, ~chip'[x].good,
           \A y \in Chips : y # x => chip'[y] = chip[y],
           slot'[s].count = IF slot[s].count = 0 THEN 0 ELSE slot[s].count - 1,
           slot'[s].load = IF slot'[s].count = 0 THEN "wait_load" ELSE slot[s].load
    PROVE  Counted(s)'
<1>1. Loaded(s)' = Loaded(s) \ {x} /\ x \in Loaded(s)
  BY DEF Loaded
<1>2. /\ IsFiniteSet(Loaded(s)) /\ slot[s].count = Cardinality(Loaded(s))
      /\ slot[s].load # "wait_load"
  BY <1>1 DEF Counted
<1>3. /\ IsFiniteSet(Loaded(s) \ {x})
      /\ Cardinality(Loaded(s) \ {x}) = Cardinality(Loaded(s)) - 1
  BY <1>1, <1>2, FS_RemoveElement
<1>4. Cardinality(Loaded(s)) \in Nat /\ Cardinality(Loaded(s) \ {x}) \in Nat
  BY <1>2, <1>3, FS_CardinalityType
<1>5. slot'[s].count = Cardinality(Loaded(s) \ {x})
  BY <1>2, <1>3, <1>4
<1>6. slot'[s].count = 0 <=> Loaded(s) \ {x} = {}
  BY <1>3, <1>5, FS_EmptySet
<1>7. /\ IsFiniteSet(Loaded(s)') /\ slot'[s].count = Cardinality(Loaded(s)')
      /\ slot'[s].count = 0 <=> Loaded(s)' = {}
  BY <1>1, <1>3, <1>5, <1>6
<1>8. slot'[s].load = "wait_load" => slot'[s].count = 0
  BY <1>2
<1>9. slot'[s].load = "load_ok" => slot'[s].count # 0
  OBVIOUS
<1> QED
  BY <1>7, <1>8, <1>9 DEF Counted

\* A transfer that has failed.
LEMMA CountFailed ==
    ASSUME TypeInv, NEW c \in Clients, Failed(cl[c].chip, << >>), NEW s \in Cards, Counted(s)
    PROVE  Counted(s)'
<1>1. cl[c].chip \in ChipIds \cup {NoChip} /\ s \in Slots
  BY SectionFacts, ConstFacts
<1>2. /\ chip' = chip
      /\ slot'[SlotOf(cl[c].chip)].load = "load_err"
      /\ slot'[SlotOf(cl[c].chip)].count = slot[SlotOf(cl[c].chip)].count
      /\ \A t \in Slots : t # SlotOf(cl[c].chip) => slot'[t] = slot[t]
  BY <1>1, FailedFacts
<1>3. slot'[s].count = slot[s].count /\ slot'[s].load \in {slot[s].load, "loading", "load_err"}
  BY <1>1, <1>2
<1> QED
  BY <1>2, <1>3, CountSame

\* A verdict on chip x.
LEMMA CountVerdict ==
    ASSUME NEW c \in Clients, NEW x \in Chips, NEW z, Verdict(c, x, z),
           hurt' \cap (Fatal \cup {"unverified", "link", "uneven"}) = {}, NEW s \in Cards, Counted(s)
    PROVE  Counted(s)'
<1>0. SlotOf(x) \in Slots /\ s \in Slots
  BY SlotFacts, ConstFacts
<1>1. /\ \A t \in Slots : t # SlotOf(x) => slot'[t] = slot[t]
      /\ \A y \in Chips : y # x => chip'[y] = chip[y]
      /\ \/ /\ chip'[x].good = chip[x].good
            /\ slot'[SlotOf(x)].load = "load_err"
            /\ slot'[SlotOf(x)].count = slot[SlotOf(x)].count
         \/ /\ ~chip[x].good /\ chip'[x].good
            /\ slot'[SlotOf(x)].load = "load_ok"
            /\ slot'[SlotOf(x)].count = slot[SlotOf(x)].count + 1
  BY DEF Verdict
<1>2. CASE s # SlotOf(x)
  <2>1. Loaded(s)' = Loaded(s) /\ slot'[s] = slot[s]
    BY <1>0, <1>1, <1>2 DEF Loaded
  <2> QED
    BY <2>1 DEF Counted
<1>3. CASE s = SlotOf(x) /\ chip'[x].good = chip[x].good /\ slot'[s].load = "load_err"
           /\ slot'[s].count = slot[s].count
  BY <1>1, <1>3, CountSame
<1>4. CASE s = SlotOf(x) /\ ~chip[x].good /\ chip'[x].good /\ slot'[s].load = "load_ok"
           /\ slot'[s].count = slot[s].count + 1
  BY <1>1, <1>4, CountMore
<1> QED
  BY <1>1, <1>2, <1>3, <1>4

\* CCT_UNLOAD of chip x.
LEMMA CountUnload ==
    ASSUME TypeInv, NEW x \in Chips, UnloadFpga(x), "uneven" \notin hurt', NEW s \in Cards, Counted(s)
    PROVE  Counted(s)'
<1>0. SlotOf(x) \in Slots /\ s \in Slots /\ chip \in [Chips -> ChipType]
  BY SlotFacts, ConstFacts DEF TypeInv
<1>1. CASE UNCHANGED <<chip, slot>>
  BY <1>1 DEF Counted, Loaded
<1>2. CASE /\ chip' = [chip EXCEPT ![x].good = FALSE]
           /\ slot' = SetLoad(SlotOf(x), "wait_load")
           /\ hurt' = hurt \cup Note("uneven", ~chip[x].good)
  <2>1. chip[x].good
    BY <1>2 DEF Note
  <2>2. ~chip'[x].good /\ \A y \in Chips : y # x => chip'[y] = chip[y]
    BY <1>0, <1>2 DEF ChipType
  <2>3. /\ \A t \in Slots : t # SlotOf(x) => slot'[t] = slot[t]
        /\ slot'[SlotOf(x)].count = IF slot[SlotOf(x)].count = 0 THEN 0 ELSE slot[SlotOf(x)].count - 1
        /\ slot'[SlotOf(x)].load = IF slot'[SlotOf(x)].count = 0 THEN "wait_load" ELSE slot[SlotOf(x)].load
    BY <1>0, <1>2, SetLoadFacts
  <2>4. CASE s = SlotOf(x)
    BY <2>1, <2>2, <2>3, <2>4, CountLess
  <2>5. CASE s # SlotOf(x)
    <3>1. Loaded(s)' = Loaded(s) /\ slot'[s] = slot[s]
      BY <1>0, <2>2, <2>3, <2>5 DEF Loaded
    <3> QED
      BY <3>1 DEF Counted
  <2> QED
    BY <2>4, <2>5
<1> QED
  BY <1>1, <1>2 DEF UnloadFpga

\* Every step keeps the count.
LEMMA CountNext == TypeInv /\ FdInv /\ CountInv /\ [Next]_vars => CountInv'
<1> SUFFICES ASSUME TypeInv, FdInv, CountInv, [Next]_vars, Even', NEW s \in Cards PROVE Counted(s)'
  BY DEF CountInv, Even, Counted
<1>0. TypeInv' /\ hurt \subseteq hurt'
  BY TypeNext
<1>u. /\ Even /\ Alive' /\ hurt' \cap (Fatal \cup {"unverified", "link", "uneven"}) = {}
      /\ "uneven" \notin hurt'
  BY <1>0 DEF Even, Alive
<1>s. Counted(s) /\ s \in Slots
  BY <1>u, ConstFacts DEF CountInv, Even, Counted
<1>a. ASSUME chip' = chip, slot' = slot PROVE Counted(s)'
  BY <1>a, <1>s DEF Counted, Loaded
<1>1. ASSUME NEW c \in Clients, Accept(c) \/ Disconnect(c) PROVE Counted(s)'
  BY <1>1, <1>a, ConnFacts
<1>2. ASSUME NEW c \in Clients, NEW x \in ChipIds, NEW n \in 0 .. MaxLen, LoadRefused(c, x, n)
      PROVE  Counted(s)'
  BY <1>2, <1>a, RefusedFacts
<1>3. ASSUME NEW c \in Clients, NEW x \in ChipIds, NEW n \in 0 .. MaxLen, Load(c, x, n)
      PROVE  Counted(s)'
  BY <1>3, <1>a, LoadFacts
<1>4. ASSUME NEW c \in Clients, Broken(c) PROVE Counted(s)'
  <2>1. Failed(cl[c].chip, << >>)
    BY <1>4, BrokenFacts DEF Broken
  <2> QED
    BY <1>s, <2>1, CountFailed
<1>5. ASSUME NEW c \in Clients, NEW n \in 0 .. MaxLen, NEW last \in BOOLEAN, TransferPart(c, n, last)
      PROVE  Counted(s)'
  <2>1. FileClosed(c, n) \/ FileGrows(c, n)
    BY <1>u, <1>5, FdPart
  <2>2. CASE FileClosed(c, n)
    <3>1. ASSUME cl[c].chip \in Chips, Verdict(c, cl[c].chip, Stored(c, n)[cl[c].chip])
          PROVE  Counted(s)'
      BY <1>u, <1>s, <3>1, CountVerdict
    <3>2. ASSUME Failed(cl[c].chip, << >>) PROVE Counted(s)'
      BY <1>s, <3>2, CountFailed
    <3> QED
      BY <2>2, <3>1, <3>2, Zenon DEF FileClosed
  <2>3. CASE FileGrows(c, n)
    <3>1. chip' = chip /\ slot' = SetLoad(SlotOf(cl[c].chip), "loading")
      BY <2>3 DEF FileGrows
    <3>2. SlotOf(cl[c].chip) \in Slots
      BY SectionFacts, SlotFacts
    <3>3. slot'[s].count = slot[s].count /\ slot'[s].load \in {slot[s].load, "loading", "load_err"}
      BY <1>s, <3>1, <3>2, SetLoadFacts
    <3> QED
      BY <1>s, <3>1, <3>3, CountSame
  <2> QED
    BY <2>1, <2>2, <2>3
<1>6. ASSUME NEW c \in Clients, Rest(c) PROVE Counted(s)'
  <2>1. \/ \E x \in Chips : Verdict(c, x, file[x])
        \/ Failed(cl[c].chip, << >>)
        \/ \E x \in Chips : UnloadFpga(x)
        \/ chip' = chip /\ slot' = slot
    BY <1>6, RestFacts DEF Rest
  <2>2. ASSUME NEW x \in Chips, Verdict(c, x, file[x]) PROVE Counted(s)'
    BY <1>u, <1>s, <2>2, CountVerdict
  <2>3. ASSUME NEW x \in Chips, UnloadFpga(x) PROVE Counted(s)'
    BY <1>u, <1>s, <2>3, CountUnload
  <2>4. ASSUME Failed(cl[c].chip, << >>) PROVE Counted(s)'
    BY <1>s, <2>4, CountFailed
  <2> QED
    BY <1>a, <2>1, <2>2, <2>3, <2>4, Zenon
<1>7. CASE UNCHANGED vars
  BY <1>7, <1>a DEF vars
<1> QED
  BY <1>1, <1>2, <1>3, <1>4, <1>5, <1>6, <1>7, NextCases, Zenon

\* A slot counts the chips of its card that hold a verified file, and shows
\* "loaded" and "wait for load" accordingly.
THEOREM SlotsShowTheirChips == Spec => []ShownIsLoaded
<1>1. Init => CountInv
  <2> SUFFICES ASSUME Init, NEW s \in Cards PROVE Counted(s)
    BY DEF CountInv, Counted
  <2>1. Loaded(s) = {} /\ s \in Slots
    BY ConstFacts DEF Init, Loaded
  <2>2. slot[s].count = 0 /\ slot[s].load = "wait_load"
    BY <2>1 DEF Init
  <2>3. IsFiniteSet({}) /\ Cardinality({}) = 0
    BY FS_EmptySet
  <2> QED
    BY <2>1, <2>2, <2>3 DEF Counted
<1>2. Spec => []CountInv
  BY <1>1, TypeAlways, FdAlways, CountNext, PTL DEF Spec
<1>3. CountInv => ShownIsLoaded
  BY DEF CountInv, ShownIsLoaded, Loaded
<1> QED
  BY <1>2, <1>3, PTL
=============================================================================
