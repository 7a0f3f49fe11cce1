-------------------------- MODULE UloopEventsProofs --------------------------
(***************************************************************************)
(* Proofs about the descriptors of the event loop (UloopEvents), for every *)
(* set of descriptors and every size of the batch: what the batch holds is *)
(* wanted, and no event gets lost between epoll's list, the batch and the  *)
(* callback.                                                               *)
(***************************************************************************)
EXTENDS UloopEvents, FiniteSetTheorems, SequenceTheorems, NaturalsInduction,
        WellFoundedInduction, TLAPS

Events == [fd : Fds \cup {"waker", "none"}, gen : Nat]
Listed == Fds \cup {"waker"}

\* The types, with the bounds on the deletions that keep gen in its range.
TypeInv ==
    /\ reg \subseteq Fds /\ data \subseteq Fds /\ hup \subseteq Fds
    /\ gen \in [Fds -> Nat] /\ ops \in 0 .. MaxOps /\ \A f \in Fds : gen[f] <= ops
    /\ rdl \in Seq(Listed) /\ batch \in Seq(Events) /\ Len(batch) <= MaxEvents
    /\ pc \in {"start", "top", "timer", "check", "poll", "events", "event", "read", "ended"}
    /\ cancelled \in BOOLEAN /\ pipe \in BOOLEAN /\ cur \in Events

\* epoll reports registered descriptors, or ones that hung up.
RdlLive == \A f \in Fds : InRdl(f) => f \in reg \/ f \in hup

\* What is to be read is on its way to the callback.
ServedInv == \A f \in reg \cap data :
    InRdl(f) \/ (f \in EdgeFds /\ (InBatch(f) \/ (pc = "event" /\ cur.fd = f)))

\* A byte in the pipe is reported, and a cancelled loop that sleeps has one.
WakerInv == (pipe => InRdl("waker")) /\ (cancelled /\ pc = "poll" => pipe)

Inv == TypeInv /\ NoStaleEvent /\ BatchLive /\ RdlLive /\ ServedInv /\ WakerInv
-----------------------------------------------------------------------------
(* What is picked from a sequence.                                           *)

\* The places of K up to n, and how many there are.
Upto(K, n) == {h \in K : h <= n}
Rank(K, n) == Cardinality(Upto(K, n))

\* A set of natural numbers that is not empty has a least element.
LEMMA LeastNumber ==
    ASSUME NEW T, T \subseteq Nat, T # {}
    PROVE  \E n \in T : \A m \in T : n <= m
  <1>1. \A m, n \in Nat : m < n => <<m, n>> \in OpToRel(<, Nat)
    BY DEF OpToRel
  <1>2. \E R : IsWellFoundedOn(R, Nat) /\ \A m, n \in Nat : m < n => <<m, n>> \in R
    BY <1>1, NatLessThanWellFounded, Zenon
  <1>3. PICK R : IsWellFoundedOn(R, Nat) /\ \A m, n \in Nat : m < n => <<m, n>> \in R
    BY <1>2
  <1>4. IsWellFoundedOn(R, Nat)
    BY <1>3, Zenon
  <1>5. \E n \in T : \A m \in T : ~(<<m, n>> \in R)
    BY <1>4, WFMin, Zenon
  <1>6. PICK n \in T : \A m \in T : ~(<<m, n>> \in R)
    BY <1>5, Zenon
  <1>7. ASSUME NEW m \in T PROVE n <= m
    <2>1. n \in Nat /\ m \in Nat
      OBVIOUS
    <2>2. ~(m < n)
      BY <2>1, <1>3, <1>6, Zenon
    <2> QED
      BY <2>1, <2>2
  <1> QED
    BY <1>7, Zenon

\* The rank starts at 0, ends with the number of places, grows by one at each place
\* of K and nowhere else.
LEMMA RankSteps ==
    ASSUME NEW L \in Nat, NEW K \in SUBSET (1 .. L)
    PROVE  /\ IsFiniteSet(K) /\ Cardinality(K) \in Nat
           /\ \A n \in 0 .. L : Rank(K, n) \in 0 .. Cardinality(K)
           /\ Rank(K, 0) = 0 /\ Rank(K, L) = Cardinality(K)
           /\ \A n \in 1 .. L : Rank(K, n) = Rank(K, n - 1) + (IF n \in K THEN 1 ELSE 0)
           /\ \A m, n \in 0 .. L : m <= n => Rank(K, m) <= Rank(K, n)
  <1>1. IsFiniteSet(K) /\ Cardinality(K) \in Nat
    <2>1. IsFiniteSet(1 .. L)
      BY FS_Interval
    <2>2. K \subseteq 1 .. L
      OBVIOUS
    <2>3. IsFiniteSet(K)
      BY <2>1, <2>2, FS_Subset, Zenon
    <2> QED
      BY <2>3, FS_CardinalityType, Zenon
  <1>0. \A h \in K : h \in Nat /\ 1 <= h /\ h <= L
    OBVIOUS
  <1>2. ASSUME NEW n \in 0 .. L
        PROVE  IsFiniteSet(Upto(K, n)) /\ Rank(K, n) \in 0 .. Cardinality(K)
    <2>1. Upto(K, n) \subseteq K
      BY DEF Upto
    <2>2. IsFiniteSet(Upto(K, n)) /\ Cardinality(Upto(K, n)) <= Cardinality(K)
      BY <2>1, <1>1, FS_Subset, Zenon
    <2>3. Cardinality(Upto(K, n)) \in Nat
      BY <2>2, FS_CardinalityType, Zenon
    <2> QED
      BY <1>1, <2>2, <2>3 DEF Rank
  <1>3. Rank(K, 0) = 0
    <2>1. \A h \in K : ~(h <= 0)
      BY <1>0
    <2>2. Upto(K, 0) = {}
      BY <2>1, Zenon DEF Upto
    <2> QED
      BY <2>2, FS_EmptySet DEF Rank
  <1>4. Rank(K, L) = Cardinality(K)
    <2>1. Upto(K, L) = K
      BY <1>0 DEF Upto
    <2> QED
      BY <2>1 DEF Rank
  <1>5. ASSUME NEW n \in 1 .. L
        PROVE  Rank(K, n) = Rank(K, n - 1) + (IF n \in K THEN 1 ELSE 0)
    <2>1. n - 1 \in 0 .. L
      OBVIOUS
    <2>2. IsFiniteSet(Upto(K, n - 1)) /\ Rank(K, n - 1) \in Nat
      BY <1>1, <1>2, <2>1
    <2>3. CASE n \in K
      <3>0. (\A h \in K : h <= n <=> (h <= n - 1 \/ h = n)) /\ ~(n <= n - 1)
        BY <1>0
      <3>1. Upto(K, n) = Upto(K, n - 1) \cup {n} /\ n \notin Upto(K, n - 1)
        BY <2>3, <3>0, Zenon DEF Upto
      <3>2. Cardinality(Upto(K, n - 1) \cup {n}) = Cardinality(Upto(K, n - 1)) + 1
        BY <3>1, <2>2, FS_AddElement
      <3> QED
        BY <3>1, <3>2, <2>3 DEF Rank
    <2>4. CASE n \notin K
      <3>0. \A h \in K : h <= n <=> h <= n - 1
        BY <2>4, <1>0
      <3>1. Upto(K, n) = Upto(K, n - 1)
        BY <3>0, Zenon DEF Upto
      <3> QED
        BY <3>1, <2>4, <2>2 DEF Rank
    <2> QED
      BY <2>3, <2>4
  <1>6. ASSUME NEW m \in 0 .. L, NEW n \in 0 .. L, m <= n PROVE Rank(K, m) <= Rank(K, n)
    <2>0. \A h \in K : h <= m => h <= n
      BY <1>0, <1>6
    <2>1. Upto(K, m) \subseteq Upto(K, n)
      BY <2>0, Zenon DEF Upto
    <2> QED
      BY <2>1, <1>2, FS_Subset DEF Rank
  <1> QED
    BY <1>1, <1>2, <1>3, <1>4, <1>5, <1>6

\* Each number up to that of the places is the rank of exactly one place.
LEMMA RankPlaces ==
    ASSUME NEW L \in Nat, NEW K \in SUBSET (1 .. L)
    PROVE  /\ \A i \in K : Rank(K, i) \in 1 .. Cardinality(K)
           /\ \A j \in 1 .. Cardinality(K) : \E i \in K : Rank(K, i) = j
           /\ \A i, k \in K : Rank(K, i) = Rank(K, k) => i = k
  <1>1. /\ Cardinality(K) \in Nat
        /\ \A n \in 0 .. L : Rank(K, n) \in 0 .. Cardinality(K)
        /\ Rank(K, 0) = 0 /\ Rank(K, L) = Cardinality(K)
        /\ \A n \in 1 .. L : Rank(K, n) = Rank(K, n - 1) + (IF n \in K THEN 1 ELSE 0)
        /\ \A m, n \in 0 .. L : m <= n => Rank(K, m) <= Rank(K, n)
    BY RankSteps
  <1>2. ASSUME NEW i \in K PROVE Rank(K, i) = Rank(K, i - 1) + 1 /\ i \in 1 .. L /\ i - 1 \in 0 .. L
    BY <1>1
  <1>3. ASSUME NEW i \in K PROVE Rank(K, i) \in 1 .. Cardinality(K)
    BY <1>1, <1>2
  <1>4. ASSUME NEW i \in K, NEW k \in K, i < k PROVE Rank(K, i) < Rank(K, k)
    <2>1. Rank(K, k) = Rank(K, k - 1) + 1 /\ i \in 0 .. L /\ k - 1 \in 0 .. L /\ i <= k - 1
      BY <1>2, <1>4
    <2>2. Rank(K, i) <= Rank(K, k - 1) /\ Rank(K, i) \in Nat /\ Rank(K, k - 1) \in Nat
      BY <2>1, <1>1
    <2> QED
      BY <2>1, <2>2
  <1>5. ASSUME NEW i \in K, NEW k \in K, Rank(K, i) = Rank(K, k) PROVE i = k
    <2>1. i \in Nat /\ k \in Nat /\ Rank(K, i) \in Nat /\ Rank(K, k) \in Nat
      BY <1>3, <1>1
    <2>2. ~(i < k) /\ ~(k < i)
      BY <1>4, <1>5, <2>1
    <2> QED
      BY <2>1, <2>2
  <1>6. ASSUME NEW j \in 1 .. Cardinality(K) PROVE \E i \in K : Rank(K, i) = j
    <2> DEFINE T == {n \in 0 .. L : j <= Rank(K, n)}
    <2>1. T \subseteq Nat /\ L \in T
      BY <1>1
    <2>2. PICK n \in T : \A m \in T : n <= m
      BY <2>1, LeastNumber
    <2>3. n \in 1 .. L /\ n - 1 \in 0 .. L /\ n - 1 \notin T
      BY <2>2, <1>1
    <2>4. Rank(K, n - 1) < j /\ j <= Rank(K, n) /\ Rank(K, n - 1) \in Nat /\ Rank(K, n) \in Nat
      BY <2>2, <2>3, <1>1
    <2>5. n \in K /\ Rank(K, n) = j
      BY <2>3, <2>4, <1>1
    <2> QED
      BY <2>5
  <1> QED
    BY <1>3, <1>5, <1>6

\* What Picked returns is a sequence of the elements at the places of K, each of them.
LEMMA PickedFacts ==
    ASSUME NEW S, NEW s \in Seq(S), NEW K \in SUBSET (1 .. Len(s))
    PROVE  /\ Picked(s, K) \in Seq(S)
           /\ \A j \in 1 .. Len(Picked(s, K)) : \E i \in K : Picked(s, K)[j] = s[i]
           /\ \A i \in K : \E j \in 1 .. Len(Picked(s, K)) : Picked(s, K)[j] = s[i]
  <1>1. Len(s) \in Nat /\ \A i \in K : s[i] \in S
    OBVIOUS
  <1>2. Cardinality(K) \in Nat
    BY <1>1, RankSteps
  <1>3. /\ \A i \in K : Rank(K, i) \in 1 .. Cardinality(K)
        /\ \A j \in 1 .. Cardinality(K) : \E i \in K : Rank(K, i) = j
        /\ \A i, k \in K : Rank(K, i) = Rank(K, k) => i = k
    BY <1>1, RankPlaces
  <1>4. Picked(s, K) = [j \in 1 .. Cardinality(K) |-> s[CHOOSE i \in K : Rank(K, i) = j]]
    BY DEF Picked, Rank, Upto
  <1>5. ASSUME NEW i \in K PROVE Picked(s, K)[Rank(K, i)] = s[i]
    <2>1. PICK c : c = CHOOSE k \in K : Rank(K, k) = Rank(K, i)
      OBVIOUS
    <2>2. c \in K /\ Rank(K, c) = Rank(K, i)
      BY <2>1
    <2>3. c = i
      BY <2>2, <1>3
    <2> QED
      BY <2>1, <2>3, <1>3, <1>4, Zenon
  <1>6. ASSUME NEW j \in 1 .. Cardinality(K) PROVE \E i \in K : Picked(s, K)[j] = s[i]
    BY <1>3, <1>5
  <1>7. Picked(s, K) \in Seq(S) /\ Len(Picked(s, K)) = Cardinality(K)
    <2>1. \A j \in 1 .. Cardinality(K) : Picked(s, K)[j] \in S
      BY <1>1, <1>6
    <2>2. Picked(s, K) = [j \in 1 .. Cardinality(K) |-> Picked(s, K)[j]]
      BY <1>4
    <2>3. Picked(s, K) \in [1 .. Cardinality(K) -> S]
      BY <2>1, <2>2
    <2> QED
      BY <2>3, <1>2
  <1> QED
    BY <1>3, <1>5, <1>6, <1>7
-----------------------------------------------------------------------------
(* epoll's list.                                                             *)

On(q, g) == \E i \in 1 .. Len(q) : q[i] = g

\* The constants: the waker and the empty event are no descriptors.
LEMMA ConstFacts ==
    /\ EdgeFds \subseteq Fds /\ "waker" \notin Fds /\ "none" \notin Fds
    /\ MaxEvents \in Nat /\ 1 <= MaxEvents /\ MaxOps \in Nat
  <1>1. {"waker", "none"} \cap Fds = {} /\ {MaxOps, MaxSignals} \subseteq Nat
    BY EventsAssumption
  <1>2. "waker" \notin Fds /\ "none" \notin Fds
    BY <1>1, Zenon
  <1> QED
    BY <1>1, <1>2, EventsAssumption

\* What is queued comes to the list of what was there.
LEMMA QueueFacts ==
    ASSUME rdl \in Seq(Listed), NEW f \in Listed
    PROVE  Queue(f) \in Seq(Listed) /\ \A g : On(Queue(f), g) <=> (On(rdl, g) \/ g = f)
  <1>1. CASE InRdl(f)
    BY <1>1 DEF Queue, InRdl, On
  <1>2. CASE ~InRdl(f)
    <2>1. Queue(f) = Append(rdl, f)
      BY <1>2 DEF Queue
    <2>2. Append(rdl, f) \in Seq(Listed) /\ Len(Append(rdl, f)) = Len(rdl) + 1 /\ Len(rdl) \in Nat
      OBVIOUS
    <2>3. /\ \A i \in 1 .. Len(rdl) : Append(rdl, f)[i] = rdl[i]
          /\ Append(rdl, f)[Len(rdl) + 1] = f
      OBVIOUS
    <2>4. ASSUME NEW g PROVE On(Append(rdl, f), g) <=> (On(rdl, g) \/ g = f)
      <3>1. On(Append(rdl, f), g) <=> \E i \in 1 .. Len(rdl) + 1 : Append(rdl, f)[i] = g
        BY <2>2 DEF On
      <3>2. \A i : i \in 1 .. Len(rdl) + 1 <=> (i \in 1 .. Len(rdl) \/ i = Len(rdl) + 1)
        BY <2>2
      <3> QED
        BY <3>1, <3>2, <2>3, Zenon DEF On
    <2> QED
      BY <2>1, <2>2, <2>4
  <1> QED
    BY <1>1, <1>2

\* What is dropped leaves the list, all else stays.
LEMMA DropFacts ==
    ASSUME rdl \in Seq(Listed), NEW f
    PROVE  Drop(f) \in Seq(Listed) /\ \A g : On(Drop(f), g) <=> (On(rdl, g) /\ g # f)
  <1>1. PICK K : K = {i \in 1 .. Len(rdl) : rdl[i] # f}
    OBVIOUS
  <1>2. K \in SUBSET (1 .. Len(rdl)) /\ Drop(f) = Picked(rdl, K)
    BY <1>1 DEF Drop
  <1>3. /\ Picked(rdl, K) \in Seq(Listed)
        /\ \A j \in 1 .. Len(Picked(rdl, K)) : \E i \in K : Picked(rdl, K)[j] = rdl[i]
        /\ \A i \in K : \E j \in 1 .. Len(Picked(rdl, K)) : Picked(rdl, K)[j] = rdl[i]
    BY <1>2, PickedFacts
  <1>4. ASSUME NEW g PROVE On(Picked(rdl, K), g) <=> (On(rdl, g) /\ g # f)
    <2>1. \A i : i \in K <=> (i \in 1 .. Len(rdl) /\ rdl[i] # f)
      BY <1>1
    <2> QED
      BY <2>1, <1>3, Zenon DEF On
  <1> QED
    BY <1>2, <1>3, <1>4

\* What the list is after a fetch.
Left == SubSeq(rdl, Len(Reported) + 1, Len(rdl)) \o Kept(Reported)

\* A fetch reports no more than the batch has room for, all of it from the list; what
\* it does not report stays, and so does what is level-triggered and has not hung up.
LEMMA FetchFacts ==
    ASSUME rdl \in Seq(Listed)
    PROVE  /\ Reported \in Seq(Listed) /\ Len(Reported) <= MaxEvents /\ Left \in Seq(Listed)
           /\ \A g : (On(Reported, g) \/ On(Left, g)) => On(rdl, g)
           /\ \A g : On(rdl, g) => (On(Reported, g) \/ On(Left, g))
           /\ \A g : (On(rdl, g) /\ g \notin EdgeFds /\ g \notin hup) => On(Left, g)
  <1>1. PICK n : n = Smaller(MaxEvents, Len(rdl))
    OBVIOUS
  <1>2. n \in 0 .. Len(rdl) /\ n <= MaxEvents /\ n \in Nat /\ Len(rdl) \in Nat
    BY <1>1, ConstFacts DEF Smaller
  <1>3. PICK R : R = Reported
    OBVIOUS
  <1>4. R = SubSeq(rdl, 1, n)
    BY <1>1, <1>3 DEF Reported
  <1>5. R \in Seq(Listed) /\ Len(R) = n /\ \A i \in 1 .. n : R[i] = rdl[i]
    BY <1>2, <1>4
  <1>6. PICK T : T = SubSeq(rdl, n + 1, Len(rdl))
    OBVIOUS
  <1>7. T \in Seq(Listed) /\ Len(T) = Len(rdl) - n /\ \A i \in 1 .. Len(rdl) - n : T[i] = rdl[n + i]
    BY <1>2, <1>6
  <1>8. PICK K : K = {i \in 1 .. Len(R) : R[i] \notin EdgeFds /\ R[i] \notin hup}
    OBVIOUS
  <1>9. K \in SUBSET (1 .. Len(R)) /\ Kept(R) = Picked(R, K)
    BY <1>8 DEF Kept
  <1>10. PICK P : P = Picked(R, K)
    OBVIOUS
  <1>11. /\ P \in Seq(Listed)
         /\ \A j \in 1 .. Len(P) : \E i \in K : P[j] = R[i]
         /\ \A i \in K : \E j \in 1 .. Len(P) : P[j] = R[i]
    BY <1>5, <1>9, <1>10, PickedFacts, ZenonT(30)
  <1>12. Left = T \o P
    BY <1>3, <1>5, <1>6, <1>9, <1>10 DEF Left
  <1>13. PICK Q : Q = T \o P
    OBVIOUS
  <1>14. /\ Q \in Seq(Listed) /\ Len(Q) = Len(T) + Len(P) /\ Len(T) \in Nat /\ Len(P) \in Nat
         /\ \A i \in 1 .. Len(T) : Q[i] = T[i]
         /\ \A i \in 1 .. Len(P) : Q[Len(T) + i] = P[i]
    <2>1. T \in Seq(Listed) /\ P \in Seq(Listed)
      BY <1>7, <1>11
    <2>2. Q \in Seq(Listed) /\ Len(Q) = Len(T) + Len(P) /\ Len(T) \in Nat /\ Len(P) \in Nat
      BY <2>1, <1>13
    <2>3. \A i \in 1 .. Len(T) : Q[i] = T[i]
      BY <2>1, <1>13
    <2>4. ASSUME NEW i \in 1 .. Len(P) PROVE Q[Len(T) + i] = P[i]
      BY <2>1, <2>2, <1>13
    <2> QED
      BY <2>2, <2>3, <2>4
  <1>15. ASSUME NEW g PROVE On(Q, g) <=> (On(T, g) \/ On(P, g))
    <2>1. ASSUME On(Q, g) PROVE On(T, g) \/ On(P, g)
      <3>1. PICK i \in 1 .. Len(Q) : Q[i] = g
        BY <2>1 DEF On
      <3>2. CASE i <= Len(T)
        <4>1. i \in 1 .. Len(T) /\ T[i] = g
          BY <3>1, <3>2, <1>14
        <4> QED
          BY <4>1 DEF On
      <3>3. CASE ~(i <= Len(T))
        <4>1. i - Len(T) \in 1 .. Len(P) /\ Len(T) + (i - Len(T)) = i
          BY <3>3, <1>14
        <4>2. P[i - Len(T)] = g
          BY <4>1, <3>1, <1>14
        <4> QED
          BY <4>1, <4>2 DEF On
      <3> QED
        BY <3>2, <3>3
    <2>2. ASSUME On(T, g) PROVE On(Q, g)
      <3>1. PICK i \in 1 .. Len(T) : T[i] = g
        BY <2>2 DEF On
      <3>2. i \in 1 .. Len(Q) /\ Q[i] = g
        BY <3>1, <1>14
      <3> QED
        BY <3>2 DEF On
    <2>3. ASSUME On(P, g) PROVE On(Q, g)
      <3>1. PICK i \in 1 .. Len(P) : P[i] = g
        BY <2>3 DEF On
      <3>2. Len(T) + i \in 1 .. Len(Q) /\ Q[Len(T) + i] = g
        BY <3>1, <1>14
      <3> QED
        BY <3>2 DEF On
    <2> QED
      BY <2>1, <2>2, <2>3
  <1>16. ASSUME NEW g PROVE On(rdl, g) <=> (On(R, g) \/ On(T, g))
    <2>1. ASSUME On(rdl, g) PROVE On(R, g) \/ On(T, g)
      <3>1. PICK i \in 1 .. Len(rdl) : rdl[i] = g
        BY <2>1 DEF On
      <3>2. CASE i <= n
        <4>1. i \in 1 .. Len(R) /\ R[i] = g
          BY <3>1, <3>2, <1>2, <1>5
        <4> QED
          BY <4>1 DEF On
      <3>3. CASE ~(i <= n)
        <4>1. i - n \in 1 .. Len(T) /\ n + (i - n) = i
          BY <3>3, <1>2, <1>7
        <4>2. T[i - n] = g
          BY <4>1, <3>1, <1>7
        <4> QED
          BY <4>1, <4>2 DEF On
      <3> QED
        BY <3>2, <3>3
    <2>2. ASSUME On(R, g) PROVE On(rdl, g)
      <3>1. PICK i \in 1 .. Len(R) : R[i] = g
        BY <2>2 DEF On
      <3>2. i \in 1 .. Len(rdl) /\ rdl[i] = g
        BY <3>1, <1>2, <1>5
      <3> QED
        BY <3>2 DEF On
    <2>3. ASSUME On(T, g) PROVE On(rdl, g)
      <3>1. PICK i \in 1 .. Len(T) : T[i] = g
        BY <2>3 DEF On
      <3>2. n + i \in 1 .. Len(rdl) /\ rdl[n + i] = g
        BY <3>1, <1>2, <1>7
      <3> QED
        BY <3>2 DEF On
    <2> QED
      BY <2>1, <2>2, <2>3
  <1>17. ASSUME NEW g PROVE On(P, g) <=> (On(R, g) /\ g \notin EdgeFds /\ g \notin hup)
    <2>1. \A i : i \in K <=> (i \in 1 .. Len(R) /\ R[i] \notin EdgeFds /\ R[i] \notin hup)
      BY <1>8
    <2> QED
      BY <2>1, <1>11, Zenon DEF On
  <1>18. \A g : On(Left, g) <=> (On(T, g) \/ On(P, g))
    BY <1>12, <1>13, <1>15, Zenon
  <1>19. \A g : On(Reported, g) <=> On(R, g)
    BY <1>3, Zenon
  <1>20. Reported \in Seq(Listed) /\ Len(Reported) <= MaxEvents /\ Left \in Seq(Listed)
    BY <1>2, <1>3, <1>5, <1>12, <1>13, <1>14
  <1> QED
    BY <1>16, <1>17, <1>18, <1>19, <1>20, Zenon
-----------------------------------------------------------------------------
(* The invariant.                                                            *)

\* It holds before the program does anything.
LEMMA InitHolds == Init => Inv
  <1> SUFFICES ASSUME Init PROVE Inv
    OBVIOUS
  <1>1. rdl = <<>> /\ batch = <<>> /\ Len(rdl) = 0 /\ Len(batch) = 0 /\ reg = {} /\ pipe = FALSE
    BY DEF Init
  <1>2. TypeInv
    <2>1. rdl \in Seq(Listed) /\ batch \in Seq(Events) /\ Len(batch) <= MaxEvents
      BY <1>1, ConstFacts
    <2>2. gen \in [Fds -> Nat] /\ ops \in 0 .. MaxOps /\ \A f \in Fds : gen[f] <= ops
      BY ConstFacts DEF Init
    <2>3. cur \in Events
      BY DEF Init, Events, Nobody
    <2> QED
      BY <2>1, <2>2, <2>3 DEF Init, TypeInv
  <1>3. NoStaleEvent /\ BatchLive /\ RdlLive /\ ServedInv
    BY <1>1 DEF NoStaleEvent, BatchLive, RdlLive, ServedInv, InRdl
  <1>4. WakerInv
    BY DEF Init, WakerInv
  <1> QED
    BY <1>2, <1>3, <1>4 DEF Inv

\* A step of the loop that only moves on, or only sets the flag of the end.
LEMMA MovesOn ==
    ASSUME Inv, UNCHANGED <<reg, gen, data, hup, rdl, batch, cur, pipe, ops>>,
           pc # "event" \/ pc' = pc, cancelled' \in BOOLEAN, cancelled' /\ pc' = "poll" => pipe,
           pc' \in {"start", "top", "timer", "check", "poll", "events", "event", "read", "ended"}
    PROVE  Inv'
  <1>1. TypeInv'
    BY DEF Inv, TypeInv
  <1>2. NoStaleEvent' /\ BatchLive' /\ RdlLive'
    BY DEF Inv, NoStaleEvent, BatchLive, RdlLive, InRdl
  <1>3. ServedInv'
    BY DEF Inv, ServedInv, InRdl, InBatch
  <1>4. WakerInv'
    BY DEF Inv, WakerInv, InRdl
  <1> QED
    BY <1>1, <1>2, <1>3, <1>4 DEF Inv

\* Something comes to the list and nothing leaves it: the parts about the batch stay.
LEMMA Comes ==
    ASSUME Inv, NEW f \in Listed, rdl' = Queue(f), UNCHANGED <<gen, batch, pc, cur, ops>>,
           reg' \subseteq Fds, data' \subseteq Fds, hup' \subseteq Fds,
           reg \subseteq reg', hup \subseteq hup', f \in reg' \/ f \in hup' \/ f = "waker",
           \A g \in (reg' \cap data') \ (reg \cap data) : g = f,
           cancelled' \in BOOLEAN, pipe' \in BOOLEAN, pipe' => pipe \/ f = "waker",
           cancelled' /\ pc = "poll" => pipe' 
    PROVE  Inv'
  <1>1. Queue(f) \in Seq(Listed) /\ \A g : On(Queue(f), g) <=> (On(rdl, g) \/ g = f)
    BY QueueFacts DEF Inv, TypeInv
  <1>2. rdl' \in Seq(Listed) /\ \A g : InRdl(g)' <=> (InRdl(g) \/ g = f)
    BY <1>1 DEF InRdl, On
  <1>3. TypeInv'
    BY <1>2 DEF Inv, TypeInv
  <1>4. NoStaleEvent' /\ BatchLive'
    BY DEF Inv, NoStaleEvent, BatchLive
  <1>5. RdlLive'
    BY <1>2, ConstFacts DEF Inv, RdlLive
  <1>6. ServedInv'
    BY <1>2 DEF Inv, ServedInv, InBatch
  <1>7. WakerInv'
    BY <1>2 DEF Inv, WakerInv
  <1> QED
    BY <1>3, <1>4, <1>5, <1>6, <1>7 DEF Inv

\* What the peers and the signals do keeps the invariant.
LEMMA OutsideHolds == ASSUME Inv, Outside PROVE Inv'
  <1>1. TypeInv /\ WakerInv /\ "waker" \in Listed /\ Fds \subseteq Listed
    BY DEF Inv, Listed
  <1>2. ASSUME NEW f \in Fds, Arrives(f) PROVE Inv'
    <2>1. f \in Listed /\ f \in reg
      BY <1>1, <1>2 DEF Arrives
    <2> QED
      BY <1>1, <1>2, <2>1, Comes DEF Arrives, TypeInv, WakerInv
  <1>3. ASSUME NEW f \in Fds, HangsUp(f) PROVE Inv'
    <2>1. f \in Listed /\ f \in reg
      BY <1>1, <1>3 DEF HangsUp
    <2> QED
      BY <1>1, <1>3, <2>1, Comes DEF HangsUp, TypeInv, WakerInv
  <1>4. CASE Terminate
    BY <1>1, <1>4, Comes DEF Terminate, TypeInv, WakerInv
  <1>5. CASE ChildExits
    BY <1>1, <1>5, Comes DEF ChildExits, TypeInv, WakerInv
  <1> QED
    BY <1>2, <1>3, <1>4, <1>5 DEF Outside

\* uloop_fd_add keeps it: what the descriptor has to read is reported again.
LEMMA AddHolds == ASSUME Inv, NEW f \in Fds, Add(f) PROVE Inv'
  <1>1. /\ TypeInv /\ WakerInv /\ f \in Listed /\ ops < MaxOps /\ ops' = ops + 1 /\ reg' = reg \cup {f}
        /\ UNCHANGED <<gen, batch, pc, cur, cancelled, pipe, signals, data, hup>>
    BY DEF Inv, Listed, Add, Calls, world
  <1>0. ops \in Nat /\ MaxOps \in Nat /\ ops + 1 \in 0 .. MaxOps /\ \A g \in Fds : gen[g] <= ops + 1
    BY <1>1, ConstFacts DEF TypeInv
  <1>2. rdl' \in Seq(Listed) /\ \A g : InRdl(g)' <=> (InRdl(g) \/ (g = f /\ f \in data))
    <2>1. CASE f \in data
      <3>1. rdl' = Queue(f)
        BY <2>1 DEF Add
      <3>2. Queue(f) \in Seq(Listed) /\ \A g : On(Queue(f), g) <=> (On(rdl, g) \/ g = f)
        BY <1>1, QueueFacts DEF TypeInv
      <3> QED
        BY <2>1, <3>1, <3>2 DEF InRdl, On
    <2>2. CASE f \notin data
      BY <2>2, <1>1 DEF Add, InRdl, TypeInv
    <2> QED
      BY <2>1, <2>2
  <1>3. TypeInv'
    BY <1>0, <1>1, <1>2 DEF TypeInv
  <1>4. NoStaleEvent' /\ BatchLive'
    BY <1>1 DEF Inv, NoStaleEvent, BatchLive
  <1>5. RdlLive'
    BY <1>1, <1>2 DEF Inv, RdlLive
  <1>6. ServedInv'
    BY <1>1, <1>2 DEF Inv, ServedInv, InBatch
  <1>7. WakerInv'
    BY <1>1, <1>2 DEF Inv, WakerInv
  <1> QED
    BY <1>3, <1>4, <1>5, <1>6, <1>7 DEF Inv
\* uloop_fd_delete keeps it: the structure's events leave the batch and the list.
LEMMA DeleteHolds == ASSUME Inv, NEW f \in Fds, Delete(f) PROVE Inv'
  <1>1. /\ TypeInv /\ WakerInv /\ ops < MaxOps /\ ops' = ops + 1
        /\ reg' = reg \ {f} /\ gen' = [gen EXCEPT ![f] = @ + 1] /\ rdl' = Drop(f)
        /\ data' = data \ {f} /\ hup' = hup \ {f} /\ UNCHANGED <<pc, cur, cancelled, pipe>>
    BY DEF Inv, Delete, Calls
  <1>2. rdl' \in Seq(Listed) /\ \A g : InRdl(g)' <=> (InRdl(g) /\ g # f)
    <2>1. Drop(f) \in Seq(Listed) /\ \A g : On(Drop(f), g) <=> (On(rdl, g) /\ g # f)
      BY <1>1, DropFacts DEF TypeInv
    <2> QED
      BY <1>1, <2>1 DEF InRdl, On
  <1>3. batch' = [i \in 1 .. Len(batch) |-> IF batch[i].fd = f THEN Nobody ELSE batch[i]]
    BY DEF Delete
  <1>4. Len(batch) \in Nat /\ Nobody \in Events /\ \A i \in 1 .. Len(batch) : batch[i] \in Events
    <2>1. batch \in Seq(Events)
      BY <1>1 DEF TypeInv
    <2>2. Nobody \in Events
      BY DEF Nobody, Events
    <2> QED
      BY <2>1, <2>2
  <1>5. /\ batch' \in Seq(Events) /\ Len(batch') = Len(batch)
        /\ \A i \in 1 .. Len(batch) : batch'[i] = IF batch[i].fd = f THEN Nobody ELSE batch[i]
    <2>1. batch' \in [1 .. Len(batch) -> Events]
      BY <1>3, <1>4
    <2> QED
      BY <1>3, <1>4, <2>1
  <1>6. \A i \in 1 .. Len(batch') : batch'[i].fd \in Fds => batch'[i] = batch[i] /\ batch[i].fd # f
    BY <1>5, ConstFacts DEF Nobody
  <1>7. gen' \in [Fds -> Nat] /\ \A g \in Fds : gen'[g] = IF g = f THEN gen[f] + 1 ELSE gen[g]
    BY <1>1 DEF TypeInv
  <1>8. TypeInv'
    <2>1. ops' \in 0 .. MaxOps /\ \A g \in Fds : gen'[g] <= ops'
      BY <1>1, <1>7, ConstFacts DEF TypeInv
    <2> QED
      BY <1>1, <1>2, <1>5, <1>7, <2>1 DEF TypeInv
  <1>9. NoStaleEvent'
    BY <1>5, <1>6, <1>7 DEF Inv, NoStaleEvent
  <1>10. BatchLive'
    <2> SUFFICES ASSUME NEW i \in 1 .. Len(batch'), batch'[i].fd \in Fds
                 PROVE  batch'[i].fd \in reg' \/ batch'[i].fd \in hup'
      BY DEF BatchLive
    <2>1. batch'[i] = batch[i] /\ batch[i].fd # f /\ i \in 1 .. Len(batch) /\ batch[i].fd \in Fds
      BY <1>5, <1>6
    <2>2. batch[i].fd \in reg \/ batch[i].fd \in hup
      BY <2>1 DEF Inv, BatchLive
    <2> QED
      BY <1>1, <2>1, <2>2
  <1>11. RdlLive'
    BY <1>1, <1>2 DEF Inv, RdlLive
  <1>12. ServedInv'
    <2> SUFFICES ASSUME NEW g \in reg' \cap data'
                 PROVE  (InRdl(g) \/ (g \in EdgeFds /\ (InBatch(g) \/ (pc = "event" /\ cur.fd = g))))'
      BY DEF ServedInv
    <2>1. g # f /\ g \in reg \cap data
      BY <1>1
    <2>2. InBatch(g) => InBatch(g)'
      BY <1>5, <2>1 DEF InBatch
    <2>3. InRdl(g) \/ (g \in EdgeFds /\ (InBatch(g) \/ (pc = "event" /\ cur.fd = g)))
      BY <2>1 DEF Inv, ServedInv
    <2> QED
      BY <1>1, <1>2, <2>1, <2>2, <2>3
  <1>13. WakerInv'
    BY <1>1, <1>2, ConstFacts DEF WakerInv
  <1> QED
    BY <1>8, <1>9, <1>10, <1>11, <1>12, <1>13 DEF Inv

\* uloop_fetch_events keeps it: what it takes from the list is in the batch.
LEMMA FetchHolds == ASSUME Inv, Fetch PROVE Inv'
  <1>1. /\ TypeInv /\ WakerInv /\ pc = "poll" /\ batch = <<>> /\ pc' = "events"
        /\ UNCHANGED <<gen, cur, cancelled, pipe, ops, data, hup>>
    BY DEF Inv, Fetch, world
  <1>2. PICK R : R = Reported
    OBVIOUS
  <1>3. /\ R \in Seq(Listed) /\ Len(R) <= MaxEvents /\ Left \in Seq(Listed)
        /\ \A g : (On(R, g) \/ On(Left, g)) => On(rdl, g)
        /\ \A g : On(rdl, g) => (On(R, g) \/ On(Left, g))
        /\ \A g : (On(rdl, g) /\ g \notin EdgeFds /\ g \notin hup) => On(Left, g)
    BY <1>1, <1>2, FetchFacts DEF TypeInv
  <1>4. rdl' = Left
    BY DEF Fetch, Left
  <1>5. \A g : InRdl(g)' <=> On(Left, g)
    BY <1>4 DEF InRdl, On
  <1>6. \A g : InRdl(g) <=> On(rdl, g)
    BY DEF InRdl, On
  <1>7. batch' = [i \in 1 .. Len(R) |->
                     [fd |-> R[i], gen |-> IF R[i] = "waker" THEN 0 ELSE gen[R[i]]]]
    BY <1>2 DEF Fetch
  <1>8. Len(R) \in Nat /\ \A i \in 1 .. Len(R) : R[i] \in Fds \/ R[i] = "waker"
    BY <1>3 DEF Listed
  <1>9. /\ batch' \in Seq(Events) /\ Len(batch') = Len(R)
        /\ \A i \in 1 .. Len(R) : /\ batch'[i].fd = R[i]
                                  /\ R[i] \in Fds => batch'[i].gen = gen[R[i]]
    <2>1. ASSUME NEW i \in 1 .. Len(R)
          PROVE  [fd |-> R[i], gen |-> IF R[i] = "waker" THEN 0 ELSE gen[R[i]]] \in Events
      BY <1>1, <1>8 DEF Events, TypeInv
    <2>2. batch' \in [1 .. Len(R) -> Events]
      BY <1>7, <2>1
    <2> QED
      BY <1>7, <1>8, <2>2, ConstFacts
  <1>10. reg' = reg \ {f \in hup \ EdgeFds : On(R, f)}
    BY <1>2 DEF Fetch, On
  <1>11. TypeInv'
    BY <1>1, <1>3, <1>4, <1>9, <1>10 DEF TypeInv
  <1>12. NoStaleEvent'
    BY <1>1, <1>9 DEF NoStaleEvent
  <1>13. \A f \in Fds : On(rdl, f) => f \in reg' \/ f \in hup'
    BY <1>1, <1>6, <1>10 DEF Inv, RdlLive
  <1>14. BatchLive'
    <2> SUFFICES ASSUME NEW i \in 1 .. Len(R), R[i] \in Fds PROVE R[i] \in reg' \/ R[i] \in hup'
      BY <1>9 DEF BatchLive
    <2>1. On(R, R[i])
      BY DEF On
    <2> QED
      BY <2>1, <1>3, <1>13
  <1>15. RdlLive'
    BY <1>3, <1>5, <1>13 DEF RdlLive
  <1>16. ServedInv'
    <2> SUFFICES ASSUME NEW g \in reg' \cap data'
                 PROVE  InRdl(g)' \/ (g \in EdgeFds /\ InBatch(g)')
      BY DEF ServedInv
    <2>1. ~InBatch(g) /\ pc # "event" /\ g \in reg \cap data
      BY <1>1, <1>10 DEF InBatch
    <2>2. On(rdl, g)
      BY <1>6, <2>1 DEF Inv, ServedInv
    <2>3. On(R, g) => InBatch(g)'
      BY <1>9 DEF On, InBatch
    <2>4. On(R, g) /\ g \notin EdgeFds => g \notin hup
      BY <1>10
    <2> QED
      BY <1>3, <1>5, <2>2, <2>3, <2>4
  <1>17. WakerInv'
    <2>1. "waker" \notin EdgeFds /\ "waker" \notin hup
      BY <1>1, ConstFacts DEF TypeInv
    <2> QED
      BY <1>1, <1>3, <1>5, <1>6, <2>1 DEF WakerInv
  <1> QED
    BY <1>11, <1>12, <1>14, <1>15, <1>16, <1>17 DEF Inv
\* An event is taken from the batch: what is left of it is what came behind.
LEMMA TailFacts ==
    ASSUME TypeInv, batch # <<>>, batch' = Tail(batch)
    PROVE  /\ batch' \in Seq(Events) /\ Len(batch') = Len(batch) - 1 /\ Len(batch) \in Nat
           /\ batch[1] \in Events
           /\ \A i \in 1 .. Len(batch') : i + 1 \in 1 .. Len(batch) /\ batch'[i] = batch[i + 1]
           /\ \A f : InBatch(f) => (InBatch(f)' \/ batch[1].fd = f)
  <1>1. batch \in Seq(Events) /\ Len(batch) \in Nat /\ Len(batch) # 0 /\ batch[1] \in Events
    BY DEF TypeInv
  <1>2. batch' \in Seq(Events) /\ Len(batch') = Len(batch) - 1
    BY <1>1
  <1>3. \A i \in 1 .. Len(batch') : i + 1 \in 1 .. Len(batch) /\ batch'[i] = batch[i + 1]
    BY <1>1
  <1>4. ASSUME NEW f, InBatch(f), batch[1].fd # f PROVE InBatch(f)'
    <2>1. PICK i \in 1 .. Len(batch) : batch[i].fd = f
      BY <1>4 DEF InBatch
    <2>2. i - 1 \in 1 .. Len(batch') /\ (i - 1) + 1 = i
      BY <1>1, <1>2, <1>4, <2>1
    <2>3. batch'[i - 1].fd = f
      BY <1>3, <2>1, <2>2
    <2> QED
      BY <2>2, <2>3 DEF InBatch
  <1> QED
    BY <1>1, <1>2, <1>3, <1>4

\* uloop_run_events keeps it, whether it passes an event over or calls it back.
LEMMA TakesHolds == ASSUME Inv, Skip \/ Callback PROVE Inv'
  <1>1. /\ TypeInv /\ WakerInv /\ pc = "events" /\ batch # <<>> /\ batch' = Tail(batch)
        /\ UNCHANGED <<reg, gen, rdl, cancelled, pipe, ops, data, hup>>
        /\ (pc' = pc /\ cur' = cur /\ batch[1] = Nobody) \/ (pc' = "event" /\ cur' = batch[1])
    BY DEF Inv, Skip, Callback, world
  <1>2. /\ batch' \in Seq(Events) /\ Len(batch') = Len(batch) - 1 /\ Len(batch) \in Nat
        /\ batch[1] \in Events
        /\ \A i \in 1 .. Len(batch') : i + 1 \in 1 .. Len(batch) /\ batch'[i] = batch[i + 1]
        /\ \A f : InBatch(f) => (InBatch(f)' \/ batch[1].fd = f)
    BY <1>1, TailFacts
  <1>3. TypeInv'
    BY <1>1, <1>2, ConstFacts DEF TypeInv
  <1>4. NoStaleEvent' /\ BatchLive'
    BY <1>1, <1>2 DEF Inv, NoStaleEvent, BatchLive
  <1>5. RdlLive' /\ \A f : InRdl(f)' <=> InRdl(f)
    BY <1>1 DEF Inv, RdlLive, InRdl
  <1>6. ServedInv'
    <2> SUFFICES ASSUME NEW g \in reg' \cap data'
                 PROVE  (InRdl(g) \/ (g \in EdgeFds /\ (InBatch(g) \/ (pc = "event" /\ cur.fd = g))))'
      BY DEF ServedInv
    <2>1. g \in reg \cap data /\ g \in Fds
      BY <1>1 DEF TypeInv
    <2>2. InRdl(g) \/ (g \in EdgeFds /\ InBatch(g))
      BY <1>1, <2>1 DEF Inv, ServedInv
    <2>3. batch[1] = Nobody => batch[1].fd # g
      BY <2>1, ConstFacts DEF Nobody
    <2> QED
      BY <1>1, <1>2, <1>5, <2>2, <2>3
  <1>7. WakerInv'
    BY <1>1, <1>5 DEF WakerInv
  <1> QED
    BY <1>3, <1>4, <1>5, <1>6, <1>7 DEF Inv

\* A callback that reads keeps it: it takes no event of another descriptor.
LEMMA ReadsHolds == ASSUME Inv, NEW f \in Fds, Reads(f) PROVE Inv'
  <1>1. /\ TypeInv /\ WakerInv /\ pc = "event" /\ cur.fd = f /\ data' = data \ {f} /\ pc' = "read"
        /\ UNCHANGED <<reg, gen, hup, batch, cur, cancelled, pipe, ops>>
    BY DEF Inv, Reads
  <1>2. /\ rdl' \in Seq(Listed) /\ \A g : InRdl(g)' => InRdl(g)
        /\ \A g : InRdl(g) /\ g # f => InRdl(g)'
    <2>1. Drop(f) \in Seq(Listed) /\ \A g : On(Drop(f), g) <=> (On(rdl, g) /\ g # f)
      BY <1>1, DropFacts DEF TypeInv
    <2>2. rdl' = rdl \/ rdl' = Drop(f)
      BY DEF Reads
    <2> QED
      BY <1>1, <2>1, <2>2, ZenonT(30) DEF InRdl, On, TypeInv
  <1>3. TypeInv'
    BY <1>1, <1>2 DEF TypeInv
  <1>4. NoStaleEvent' /\ BatchLive'
    BY <1>1 DEF Inv, NoStaleEvent, BatchLive
  <1>5. RdlLive'
    BY <1>1, <1>2 DEF Inv, RdlLive
  <1>6. ServedInv'
    BY <1>1, <1>2 DEF Inv, ServedInv, InBatch
  <1>7. WakerInv'
    BY <1>1, <1>2, ConstFacts DEF WakerInv
  <1> QED
    BY <1>3, <1>4, <1>5, <1>6, <1>7 DEF Inv

\* A callback that returns keeps it: an edge-triggered one has left nothing to read.
LEMMA ReturnsHolds == ASSUME Inv, Returns PROVE Inv'
  <1>1. /\ TypeInv /\ WakerInv /\ pc' = "top" /\ cur' = Nobody
        /\ pc = "event" => (cur.fd \in EdgeFds => cur.fd \notin data)
        /\ pipe' = IF cur.fd = "waker" THEN FALSE ELSE pipe
        /\ UNCHANGED <<reg, gen, hup, data, batch, cancelled, ops>>
    BY DEF Inv, Returns, world
  <1>2. /\ rdl' \in Seq(Listed) /\ \A g : InRdl(g)' => InRdl(g)
        /\ \A g : InRdl(g) /\ (g # "waker" \/ cur.fd # "waker") => InRdl(g)'
    <2>1. Drop("waker") \in Seq(Listed) /\ \A g : On(Drop("waker"), g) <=> (On(rdl, g) /\ g # "waker")
      BY <1>1, DropFacts DEF TypeInv
    <2>2. rdl' = IF cur.fd = "waker" THEN Drop("waker") ELSE rdl
      BY DEF Returns
    <2> QED
      BY <1>1, <2>1, <2>2 DEF InRdl, On, TypeInv
  <1>3. TypeInv'
    BY <1>1, <1>2 DEF TypeInv, Nobody, Events
  <1>4. NoStaleEvent' /\ BatchLive'
    BY <1>1 DEF Inv, NoStaleEvent, BatchLive
  <1>5. RdlLive'
    BY <1>1, <1>2 DEF Inv, RdlLive
  <1>6. ServedInv'
    <2> SUFFICES ASSUME NEW g \in reg \cap data PROVE InRdl(g)' \/ (g \in EdgeFds /\ InBatch(g)')
      BY <1>1 DEF ServedInv
    <2>1. InRdl(g) \/ (g \in EdgeFds /\ InBatch(g))
      BY <1>1 DEF Inv, ServedInv
    <2>2. g # "waker" /\ (InBatch(g)' <=> InBatch(g))
      BY <1>1, ConstFacts DEF TypeInv, InBatch
    <2> QED
      BY <1>2, <2>1, <2>2
  <1>7. WakerInv'
    BY <1>1, <1>2 DEF WakerInv
  <1> QED
    BY <1>3, <1>4, <1>5, <1>6, <1>7 DEF Inv

\* Every step keeps the invariant.
LEMMA NextHolds == ASSUME Inv, [Next]_vars PROVE Inv'
  <1>0. TypeInv /\ WakerInv
    BY DEF Inv
  <1>1. CASE UNCHANGED vars
    BY <1>0, <1>1, MovesOn DEF vars, TypeInv, WakerInv
  <1>2. CASE Run \/ Stop \/ TimerCallback \/ Timers
    BY <1>0, <1>2, MovesOn DEF Run, Stop, TimerCallback, Timers, TypeInv, world
  <1>3. CASE Check \/ PollTimeout \/ GoOn \/ BatchDone
    BY <1>0, <1>3, MovesOn DEF Check, PollTimeout, GoOn, BatchDone, TypeInv, world
  <1> QED
    BY <1>1, <1>2, <1>3, OutsideHolds, AddHolds, DeleteHolds, FetchHolds, TakesHolds,
       ReadsHolds, ReturnsHolds DEF Next, Loop

\* In every run of the loop, whatever callbacks delete and add while a batch is worked
\* through and whenever peers and signals come, the places of the list, the batch and
\* the flag of the end fit together.
THEOREM LoopStaysInStep == Spec => []Inv
  <1>1. Init => Inv
    BY InitHolds
  <1>2. Inv /\ [Next]_vars => Inv'
    BY NextHolds
  <1> QED
    BY <1>1, <1>2, PTL DEF Spec

\* An event is delivered only to the structure and the use of it that it was fetched
\* for (uloop_fd_delete clears it from the batch); none is lost between epoll's list,
\* the batch and the callback; and the loop never sleeps on a termination signal.
THEOREM EventsReachTheirOwners == Spec => []EventsSound
  <1>1. Inv => EventsSound
    <2> SUFFICES ASSUME Inv PROVE EventsSound
      OBVIOUS
    <2>1. TypeInv
      BY DEF Inv
    <2>2. gen \in [Fds -> 0 .. MaxOps]
      BY <2>1, ConstFacts DEF TypeInv
    <2>3. \A i \in 1 .. Len(batch) : batch[i].fd \in Fds \cup {"waker", "none"}
      <3>1. batch \in Seq(Events)
        BY <2>1 DEF TypeInv
      <3>2. \A i \in 1 .. Len(batch) : batch[i] \in Events
        BY <3>1
      <3> QED
        BY <3>2 DEF Events
    <2>4. TypeOK
      BY <2>1, <2>2, <2>3 DEF TypeInv, TypeOK, Listed
    <2>5. NothingLost
      BY DEF Inv, ServedInv, WakerInv, NothingLost
    <2> QED
      BY <2>4, <2>5 DEF Inv, EventsSound
  <1> QED
    BY <1>1, LoopStaysInStep, PTL
=============================================================================
