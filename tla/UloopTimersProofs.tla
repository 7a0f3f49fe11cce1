-------------------------- MODULE UloopTimersProofs --------------------------
(***************************************************************************)
(* The timers of the event loop, for any number of timers, any delays and  *)
(* any steps of the clock. The order of the list is inductive only as "no  *)
(* one before me is a millisecond or more later": that is what a           *)
(* comparison that rounds guarantees, and what the head of the list can    *)
(* promise for the rest. Then a connection of the HTTP server              *)
(* (HttpClient), whose callbacks the loop runs, for every length of input, *)
(* buffer, body and file; and the buffered streams (Ustream) those         *)
(* connections read and write through, for every length of buffer, write   *)
(* and socket queue: the bytes come out in order, because buffers before   *)
(* data_tail hold something and those behind it nothing. Each is proved    *)
(* alone and as a part of MCLoop.                                          *)
(***************************************************************************)
EXTENDS MCLoop, FiniteSets, FiniteSetTheorems, SequenceTheorems, NaturalsInduction,
        WellFoundedInduction, TLAPS

\* A second is a million microseconds.
LEMMA SecondIs == Second = 1000000
BY SMT DEF Second

\* A time is a number of microseconds.
LEMMA UsIsInt == ASSUME NEW x \in Timeval PROVE Us(x) \in Int
BY SecondIs, SMT DEF Timeval, Us

\* What tv_diff says of two times, whichever way the parts are rounded.
LEMMA TvDiffFacts ==
    ASSUME NEW a \in Timeval, NEW b \in Timeval
    PROVE  /\ TvDiff(a, b) \in Int
           /\ TvDiff(a, b) <= 0 => Us(a) < Us(b) + 1000
           /\ TvDiff(a, b) > 0 => Us(b) < Us(a)
           /\ 1000 * TvDiff(a, b) < Us(a) - Us(b) + 1000
<1>1. a.sec \in Nat /\ a.usec \in Nat /\ a.usec <= 1000000 /\ b.sec \in Nat /\ b.usec \in Nat /\ b.usec <= 1000000
  BY SecondIs, SMT DEF Timeval
<1>2. CASE a.usec >= b.usec
  <2> DEFINE u == a.usec - b.usec
  <2>1. u \in Nat /\ u <= 1000000 /\ a.usec = b.usec + u
    BY <1>1, <1>2, SMT
  <2>2. PICK q \in Nat : u \div 1000 = q /\ 1000 * q <= u /\ u < 1000 * q + 1000
    BY <2>1, SMT
  <2>3. TvDiff(a, b) = (a.sec - b.sec) * 1000 + q
    BY <1>1, <2>1, <2>2, SMT DEF TvDiff, Quotient
  <2> QED BY <1>1, <2>1, <2>2, <2>3, SecondIs, SMT DEF Us
<1>3. CASE a.usec < b.usec
  <2> DEFINE u == b.usec - a.usec
  <2>1. u \in Nat /\ 0 < u /\ u <= 1000000 /\ b.usec = a.usec + u /\ ~(a.usec - b.usec >= 0) /\ -(a.usec - b.usec) = u
    BY <1>1, <1>3, SMT
  <2>2. PICK q \in Nat : u \div 1000 = q /\ 1000 * q <= u /\ u < 1000 * q + 1000
    BY <2>1, SMT
  <2>3. TvDiff(a, b) = (a.sec - b.sec) * 1000 + (-q)
    BY <1>1, <2>1, <2>2, SMT DEF TvDiff, Quotient
  <2> QED BY <1>1, <2>1, <2>2, <2>3, SecondIs, SMT DEF Us
<1> QED BY <1>1, <1>2, <1>3, SMT

\* A positive difference: later.
LEMMA TvLater ==
    ASSUME NEW a \in Timeval, NEW b \in Timeval, TvDiff(a, b) > 0
    PROVE  Us(b) < Us(a)
BY TvDiffFacts

\* Any other: not a millisecond later.
LEMMA TvNotLater ==
    ASSUME NEW a \in Timeval, NEW b \in Timeval, TvDiff(a, b) <= 0
    PROVE  Us(a) < Us(b) + 1000
BY TvDiffFacts

\* The clock in seconds and microseconds.
LEMMA ClockParts ==
    ASSUME now \in Nat
    PROVE  /\ Clock.sec \in Nat /\ Clock.usec \in Nat /\ Clock.usec < Second
           /\ now = Second * Clock.sec + Clock.usec
<1>1. now \div 1000000 \in Nat /\ now % 1000000 \in Nat /\ now % 1000000 < 1000000
        /\ now = 1000000 * (now \div 1000000) + (now % 1000000)
  BY SMT
<1> QED BY <1>1, SecondIs, SMT DEF Clock

\* The clock is a time, and is itself in microseconds.
LEMMA ClockFacts ==
    ASSUME now \in Nat
    PROVE  Clock \in Timeval /\ Us(Clock) = now
<1>1. Clock \in [sec : Nat, usec : Nat]
  BY ClockParts, SMT DEF Clock
<1> QED BY <1>1, ClockParts, SecondIs, SMT DEF Timeval, Us

\* The time a timer is set to is a time: one carry is enough.
LEMMA DueIsTime ==
    ASSUME now \in Nat, NEW ms \in Nat
    PROVE  Due(ms) \in Timeval
<1>1. ms \div 1000 \in Nat /\ ms % 1000 \in Nat /\ ms % 1000 < 1000
  BY SMT
<1>2. \A m \in Nat : m < 1000 => m * 1000 \in Nat /\ m * 1000 <= 999000
  BY SMT
<1>3. (ms % 1000) * 1000 \in Nat /\ (ms % 1000) * 1000 <= 999000
  BY <1>1, <1>2
<1> DEFINE s == Clock.sec + (ms \div 1000)
           u == Clock.usec + (ms % 1000) * 1000
<1>4. s \in Nat /\ u \in Nat /\ u < 1000000 + 999001
  BY <1>1, <1>3, ClockParts, SecondIs, SMT
<1>5. Due(ms) = IF u > Second THEN [sec |-> s + 1, usec |-> u - Second] ELSE [sec |-> s, usec |-> u]
  BY DEF Due
<1> HIDE DEF s, u
<1> QED BY <1>4, <1>5, SecondIs, SMT DEF Timeval

\* What an insertion leaves where.
LEMMA InsertFacts ==
    ASSUME NEW S, NEW s \in Seq(S), NEW e \in S, NEW k \in 1 .. (Len(s) + 1)
    PROVE  /\ InsertAt(s, k, e) \in Seq(S)
           /\ Len(InsertAt(s, k, e)) = Len(s) + 1
           /\ \A i \in 1 .. (Len(s) + 1) :
                InsertAt(s, k, e)[i] = IF i < k THEN s[i] ELSE IF i = k THEN e ELSE s[i - 1]
BY DEF InsertAt

\* What a removal leaves where.
LEMMA RemoveFacts ==
    ASSUME NEW S, NEW s \in Seq(S), NEW k \in 1 .. Len(s)
    PROVE  /\ RemoveAt(s, k) \in Seq(S)
           /\ Len(RemoveAt(s, k)) = Len(s) - 1
           /\ \A i \in 1 .. (Len(s) - 1) : RemoveAt(s, k)[i] = IF i < k THEN s[i] ELSE s[i + 1]
BY DEF RemoveAt

\* A removal keeps a list without repetitions, in order, and drops its element.
LEMMA RemoveKeeps ==
    ASSUME NEW s \in Seq(Timers), NEW k \in 1 .. Len(s), NEW tm, Distinct(s), InOrder(s, tm)
    PROVE  /\ Distinct(RemoveAt(s, k)) /\ InOrder(RemoveAt(s, k), tm)
           /\ \A i \in 1 .. Len(RemoveAt(s, k)) : RemoveAt(s, k)[i] # s[k]
<1> DEFINE r == RemoveAt(s, k)
           at(i) == IF i < k THEN i ELSE i + 1
<1>1. Len(r) = Len(s) - 1 /\ \A i \in 1 .. Len(r) : r[i] = s[at(i)] /\ at(i) \in 1 .. Len(s) /\ at(i) # k
  <2>1. Len(r) = Len(s) - 1 /\ \A i \in 1 .. (Len(s) - 1) : r[i] = IF i < k THEN s[i] ELSE s[i + 1]
    BY RemoveFacts
  <2>2. Len(s) \in Nat /\ k \in 1 .. Len(s)
    OBVIOUS
  <2> HIDE DEF r
  <2>3. \A i \in 1 .. Len(r) : at(i) \in 1 .. Len(s) /\ at(i) # k
    BY <2>1, <2>2
  <2>4. \A i \in 1 .. Len(r) : r[i] = s[at(i)]
    BY <2>1, <2>2
  <2> QED BY <2>1, <2>3, <2>4
<1>2. \A i, j \in 1 .. Len(r) : (at(i) = at(j) => i = j) /\ (i < j => at(i) < at(j))
  BY <1>1
<1> HIDE DEF r, at
<1>3. Distinct(r)
  BY <1>1, <1>2 DEF Distinct
<1>4. InOrder(r, tm)
  BY <1>1, <1>2 DEF InOrder
<1>5. \A i \in 1 .. Len(r) : r[i] # s[k]
  BY <1>1 DEF Distinct
<1> QED BY <1>3, <1>4, <1>5 DEF r

\* The same for the removal of a timer that may not be there.
LEMMA WithoutKeeps ==
    ASSUME NEW s \in Seq(Timers), NEW t \in Timers, NEW tm, Distinct(s), InOrder(s, tm)
    PROVE  /\ Without(s, t) \in Seq(Timers) /\ Distinct(Without(s, t)) /\ InOrder(Without(s, t), tm)
           /\ \A i \in 1 .. Len(Without(s, t)) : Without(s, t)[i] # t
<1>1. CASE \E i \in 1 .. Len(s) : s[i] = t
  <2> DEFINE k == CHOOSE i \in 1 .. Len(s) : s[i] = t
  <2>1. k \in 1 .. Len(s) /\ s[k] = t
    BY <1>1
  <2>2. Without(s, t) = RemoveAt(s, k)
    BY <1>1 DEF Without
  <2> HIDE DEF k
  <2> QED BY <2>1, <2>2, RemoveFacts, RemoveKeeps
<1>2. CASE ~ \E i \in 1 .. Len(s) : s[i] = t
  BY <1>2 DEF Without
<1> QED BY <1>1, <1>2

\* The argument of the order: whoever is before the place is not a millisecond
\* later; whoever is behind it follows someone who is later, and no one is a
\* millisecond before those it follows.
LEMMA InsertKeeps ==
    ASSUME NEW l \in Seq(Timers), NEW t \in Timers, NEW tm \in [Timers -> Timeval],
           NEW d \in Timeval, NEW k \in 1 .. (Len(l) + 1),
           Distinct(l), InOrder(l, tm), \A i \in 1 .. Len(l) : l[i] # t, IsPlace(l, tm, d, k)
    PROVE  /\ InsertAt(l, k, t) \in Seq(Timers) /\ Distinct(InsertAt(l, k, t))
           /\ InOrder(InsertAt(l, k, t), [tm EXCEPT ![t] = d])
<1> DEFINE r == InsertAt(l, k, t)
           tn == [tm EXCEPT ![t] = d]
<1>1. r \in Seq(Timers) /\ Len(r) = Len(l) + 1
  BY InsertFacts
<1>2. \A i \in 1 .. Len(r) : r[i] = IF i < k THEN l[i] ELSE IF i = k THEN t ELSE l[i - 1]
  BY InsertFacts
<1>3. tn[t] = d /\ \A i \in 1 .. Len(l) : tn[l[i]] = tm[l[i]] /\ tm[l[i]] \in Timeval
  OBVIOUS
<1>u. \A x \in Timeval : Us(x) \in Int
  BY UsIsInt
<1> HIDE DEF r, tn
<1>4. Distinct(r)
  <2> SUFFICES ASSUME NEW i \in 1 .. Len(r), NEW j \in 1 .. Len(r), r[i] = r[j] PROVE i = j
    BY DEF Distinct
  <2>1. CASE i # k /\ j # k
    <3> DEFINE a == IF i < k THEN i ELSE i - 1
               b == IF j < k THEN j ELSE j - 1
    <3>1. a \in 1 .. Len(l) /\ b \in 1 .. Len(l) /\ r[i] = l[a] /\ r[j] = l[b] /\ (a = b => i = j)
      BY <1>1, <1>2, <2>1
    <3> QED BY <3>1 DEF Distinct
  <2>2. CASE i = k /\ j # k
    <3>1. r[i] = t /\ \E b \in 1 .. Len(l) : r[j] = l[b]
      BY <1>1, <1>2, <2>2
    <3> QED BY <3>1
  <2>3. CASE j = k /\ i # k
    <3>1. r[j] = t /\ \E b \in 1 .. Len(l) : r[i] = l[b]
      BY <1>1, <1>2, <2>3
    <3> QED BY <3>1
  <2> QED BY <2>1, <2>2, <2>3
<1>5. ASSUME NEW i \in 1 .. Len(r), NEW j \in 1 .. Len(r), i < j
      PROVE  Us(tn[r[i]]) < Us(tn[r[j]]) + 1000
  <2>1. CASE i # k /\ j # k
    <3> DEFINE a == IF i < k THEN i ELSE i - 1
               b == IF j < k THEN j ELSE j - 1
    <3>1. a \in 1 .. Len(l) /\ b \in 1 .. Len(l) /\ a < b /\ r[i] = l[a] /\ r[j] = l[b]
      BY <1>1, <1>2, <1>5, <2>1
    <3> QED BY <3>1, <1>3 DEF InOrder
  <2>2. CASE j = k
    <3>1. i \in 1 .. (k - 1) /\ i \in 1 .. Len(l) /\ r[i] = l[i] /\ r[j] = t
      BY <1>1, <1>2, <1>5, <2>2
    <3>2. TvDiff(tm[l[i]], d) <= 0
      BY <3>1 DEF IsPlace
    <3>3. Us(tm[l[i]]) < Us(d) + 1000
      BY <3>1, <3>2, <1>3, TvNotLater
    <3> QED BY <3>1, <3>3, <1>3
  <2>3. CASE i = k
    <3>1. k \in 1 .. Len(l) /\ j - 1 \in 1 .. Len(l) /\ k <= j - 1 /\ r[i] = t /\ r[j] = l[j - 1]
      BY <1>1, <1>2, <1>5, <2>3
    <3>2. TvDiff(tm[l[k]], d) > 0
      BY <3>1 DEF IsPlace
    <3>3. Us(d) < Us(tm[l[k]])
      BY <3>1, <3>2, <1>3, TvLater
    <3>4. Us(tm[l[k]]) < Us(tm[l[j - 1]]) + 1000
      <4>1. CASE k = j - 1
        BY <4>1, <3>1, <1>3, <1>u
      <4>2. CASE k < j - 1
        BY <4>2, <3>1 DEF InOrder
      <4> QED BY <3>1, <4>1, <4>2
    <3>5. Us(d) \in Int /\ Us(tm[l[k]]) \in Int /\ Us(tm[l[j - 1]]) \in Int
      BY <3>1, <1>3, <1>u
    <3> QED BY <3>1, <3>3, <3>4, <3>5, <1>3
  <2> QED BY <2>1, <2>2, <2>3
<1>6. InOrder(r, tn)
  BY <1>5 DEF InOrder
<1> QED BY <1>1, <1>4, <1>6 DEF r, tn

Inv == TypeOK /\ Ordered /\ NoneOverdue

\* The loop starts without timers.
LEMMA InitInv == Init => Inv
<1> SUFFICES ASSUME Init PROVE Inv
  OBVIOUS
<1>1. [sec |-> 0, usec |-> 0] \in Timeval
  BY SecondIs, SMT DEF Timeval
<1>2. (CHOOSE t \in Timers : TRUE) \in Timers
  BY TimersAssumption
<1>3. list \in Seq(Timers) /\ Len(list) = 0
  BY DEF Init
<1>4. TypeOK
  BY <1>1, <1>2, <1>3, TimersAssumption DEF Init, TypeOK, Distinct
<1>5. Ordered /\ NoneOverdue
  BY <1>3 DEF Init, Ordered, NoneOverdue, InOrder
<1> QED BY <1>4, <1>5 DEF Inv

\* Every step of the loop, of a callback and of the clock keeps the invariant.
LEMMA StepInv == Inv /\ [Next]_vars => Inv'
<1> SUFFICES ASSUME Inv, [Next]_vars PROVE Inv'
  OBVIOUS
<1> USE DEF Inv
<1>t. now \in Nat /\ list \in Seq(Timers) /\ time \in [Timers -> Timeval] /\ tv \in Timeval /\ Distinct(list)
  BY TimersAssumption DEF TypeOK
<1>c. Clock \in Timeval
  BY <1>t, ClockFacts
<1>u. \A x \in Timeval : Us(x) \in Int
  BY UsIsInt
<1>1. CASE \E d \in Ticks : Advance(d)
  <2>1. now' \in 0 .. MaxNow
    BY <1>1, TimersAssumption DEF Advance, TypeOK
  <2> QED BY <1>1, <2>1 DEF Advance, TypeOK, Ordered, NoneOverdue
<1>2. ASSUME NEW t \in Timers, Cancel(t) PROVE Inv'
  <2>1. list' \in Seq(Timers) /\ Distinct(list') /\ InOrder(list', time)
    BY <1>2, <1>t, WithoutKeeps DEF Cancel, Ordered
  <2> QED BY <1>2, <2>1 DEF Cancel, TypeOK, Ordered, NoneOverdue
<1>3. ASSUME NEW t \in Timers, NEW ms \in Delays, Set(t, ms) PROVE Inv'
  <2> DEFINE l == Without(list, t)
  <2>1. l \in Seq(Timers) /\ Distinct(l) /\ InOrder(l, time) /\ \A i \in 1 .. Len(l) : l[i] # t
    BY <1>t, WithoutKeeps DEF Ordered
  <2>2. Due(ms) \in Timeval
    BY <1>t, DueIsTime, TimersAssumption
  <2>3. PICK k \in 1 .. (Len(l) + 1) : IsPlace(l, time, Due(ms), k) /\ list' = InsertAt(l, k, t)
    BY <1>3 DEF Set
  <2>4. time' = [time EXCEPT ![t] = Due(ms)]
    BY <1>3 DEF Set
  <2> HIDE DEF l
  <2>5. list' \in Seq(Timers) /\ Distinct(list') /\ InOrder(list', time')
    BY <1>t, <2>1, <2>2, <2>3, <2>4, InsertKeeps
  <2>6. time' \in [Timers -> Timeval]
    BY <1>t, <2>2, <2>4
  <2> QED BY <1>3, <2>5, <2>6 DEF Set, TypeOK, Ordered, NoneOverdue
<1>4. CASE Turn
  BY <1>4, <1>c DEF Turn, TypeOK, Ordered, NoneOverdue
<1>5. CASE Expire
  <2>1. 1 \in 1 .. Len(list)
    BY <1>5, <1>t DEF Expire
  <2>2. RemoveAt(list, 1) \in Seq(Timers) /\ Distinct(RemoveAt(list, 1)) /\ InOrder(RemoveAt(list, 1), time)
    BY <1>t, <2>1, RemoveFacts, RemoveKeeps DEF Ordered
  <2>3. list[1] \in Timers
    BY <1>t, <2>1
  <2> QED BY <1>5, <2>2, <2>3 DEF Expire, TypeOK, Ordered, NoneOverdue
<1>6. CASE TimerReturns \/ Wake \/ EventReturns
  BY <1>6 DEF TimerReturns, Wake, EventReturns, TypeOK, Ordered, NoneOverdue
<1>7. CASE Sleep
  <2>1. wait' \in Nat \cup {-1}
    <3>1. CASE list = <<>>
      BY <1>7, <3>1 DEF Sleep, NextTimeout
    <3>2. CASE list # <<>>
      <4>1. time[list[1]] \in Timeval
        BY <1>t, <3>2
      <4>2. TvDiff(time[list[1]], Clock) \in Int
        BY <4>1, <1>c, TvDiffFacts
      <4> QED BY <1>7, <3>2, <4>2 DEF Sleep, NextTimeout
    <3> QED BY <3>1, <3>2
  <2>2. \A i \in 1 .. Len(list) : Us(tv) < Us(time[list[i]]) + 1000
    <3> SUFFICES ASSUME NEW i \in 1 .. Len(list) PROVE Us(tv) < Us(time[list[i]]) + 1000
      OBVIOUS
    <3>1. list # <<>> /\ 1 \in 1 .. Len(list) /\ time[list[1]] \in Timeval /\ time[list[i]] \in Timeval
      BY <1>t
    <3>2. Us(tv) < Us(time[list[1]])
      <4>1. TvDiff(time[list[1]], tv) > 0
        BY <1>7, <3>1 DEF Sleep
      <4> QED BY <4>1, <1>t, <3>1, TvLater
    <3>3. CASE i = 1
      BY <3>1, <3>2, <3>3, <1>t, <1>u
    <3>4. CASE i # 1
      <4>1. Us(time[list[1]]) < Us(time[list[i]]) + 1000
        BY <3>1, <3>4 DEF Ordered, InOrder
      <4>2. Us(tv) \in Int /\ Us(time[list[1]]) \in Int /\ Us(time[list[i]]) \in Int
        BY <3>1, <1>t, <1>u
      <4> QED BY <3>2, <4>1, <4>2
    <3> QED BY <3>3, <3>4
  <2> QED BY <1>7, <2>1, <2>2 DEF Sleep, TypeOK, Ordered, NoneOverdue
<1>8. CASE UNCHANGED vars
  BY <1>8 DEF vars, TypeOK, Ordered, NoneOverdue
<1> QED BY <1>1, <1>2, <1>3, <1>4, <1>5, <1>6, <1>7, <1>8 DEF Next

\* The state keeps its types and no timer is pending twice (uloop_timeout_add and
\* uloop_timeout_cancel).
THEOREM TypeCorrect == Spec => []TypeOK
BY InitInv, StepInv, PTL DEF Spec, Inv

\* The list of uloop_timeout_add is in order up to a millisecond.
THEOREM ListOrdered == Spec => []Ordered
BY InitInv, StepInv, PTL DEF Spec, Inv

\* uloop_process_timeouts stops at the first timer that is not due and has missed
\* none by a millisecond or more.
THEOREM NothingMissed == Spec => []NoneOverdue
BY InitInv, StepInv, PTL DEF Spec, Inv

\* uloop_process_timeouts calls back no timer a millisecond early.
THEOREM NothingEarly == Spec => [][CalledInTime]_vars
<1>1. Inv /\ [Next]_vars => [CalledInTime]_vars
  <2> SUFFICES ASSUME Inv, [Next]_vars, pc' = "timer", pc = "process" PROVE Us(time[fired']) < Us(tv) + 1000
    BY DEF CalledInTime
  <2>1. Expire
    BY DEF Next, vars, Advance, Cancel, Set, Turn, TimerReturns, Sleep, Wake, EventReturns
  <2>2. time[list[1]] \in Timeval /\ tv \in Timeval
    BY <2>1 DEF Inv, TypeOK, Expire
  <2> QED BY <2>1, <2>2, TvNotLater DEF Expire
<1> QED BY <1>1, InitInv, StepInv, PTL DEF Spec

\* uloop_get_next_timeout looks at the first timer only and is in time for all.
THEOREM SleepShort == Spec => [][SleepsInTime]_vars
<1>1. Inv /\ [Next]_vars => [SleepsInTime]_vars
  <2> SUFFICES ASSUME Inv, [Next]_vars, pc' = "sleep", pc = "process", list # <<>>
               PROVE  /\ wait' # -1
                      /\ \A i \in 1 .. Len(list) : wait' = 0 \/ now + 1000 * wait' < Us(time[list[i]]) + 2000
    BY DEF SleepsInTime
  <2>1. Sleep
    BY DEF Next, vars, Advance, Cancel, Set, Turn, TimerReturns, Expire, Wake, EventReturns
  <2>2. now \in Nat /\ 1 \in 1 .. Len(list) /\ \A i \in 1 .. Len(list) : time[list[i]] \in Timeval
    BY TimersAssumption DEF Inv, TypeOK
  <2>3. Clock \in Timeval /\ Us(Clock) = now
    BY <2>2, ClockFacts
  <2> DEFINE w == TvDiff(time[list[1]], Clock)
  <2>4. w \in Int /\ 1000 * w < Us(time[list[1]]) - now + 1000
    BY <2>2, <2>3, TvDiffFacts
  <2>5. wait' = IF w < 0 THEN 0 ELSE w
    BY <2>1 DEF Sleep, NextTimeout
  <2>6. \A x \in Timeval : Us(x) \in Int
    BY UsIsInt
  <2> HIDE DEF w
  <2>7. ASSUME NEW i \in 1 .. Len(list)
        PROVE  wait' = 0 \/ now + 1000 * wait' < Us(time[list[i]]) + 2000
    <3>1. Us(time[list[1]]) <= Us(time[list[i]]) + 1000
      <4>1. CASE i = 1
        BY <4>1, <2>2, <2>6
      <4>2. CASE i # 1
        <5>1. Us(time[list[1]]) < Us(time[list[i]]) + 1000
          BY <2>2, <4>2 DEF Inv, Ordered, InOrder
        <5> QED BY <5>1, <2>2, <2>6
      <4> QED BY <4>1, <4>2
    <3>2. Us(time[list[1]]) \in Int /\ Us(time[list[i]]) \in Int
      BY <2>2, <2>6
    <3> QED BY <2>2, <2>4, <2>5, <3>1, <3>2
  <2> QED BY <2>4, <2>5, <2>7
<1> QED BY <1>1, InitInv, StepInv, PTL DEF Spec

\* The list of the timers is typed and in order and no timer is slept over.
THEOREM TimersAreSound == Spec => []TimersSound
<1>1. TypeOK /\ Ordered /\ NoneOverdue => TimersSound
  BY DEF TimersSound
<1> QED BY <1>1, TypeCorrect, ListOrdered, NothingMissed, PTL

\* No callback comes too early and no sleep is too long, for any number of timers,
\* any delays and any clock.
THEOREM TimersAreInTime == Spec => TimersInTime
<1>1. [CalledInTime]_vars /\ [SleepsInTime]_vars => [CalledInTime /\ SleepsInTime]_vars
  OBVIOUS
<1> QED BY <1>1, NothingEarly, SleepShort, PTL DEF TimersInTime
-----------------------------------------------------------------------------
(* The components that MCLoop puts side by side: each runs as it does alone. *)

\* A step of the sum is for every part one of its own steps, or none.
LEMMA LoopParts ==
    ASSUME [MCNext]_mcVars
    PROVE  [Stream!Next]_(Stream!vars) /\ [Http!Next]_(Http!vars)
<1>1. Stream!Next \/ UNCHANGED StreamVars
  BY DEF MCNext, mcVars
<1>2. Http!Next \/ UNCHANGED HttpVars
  BY DEF MCNext, mcVars
<1>3. UNCHANGED HttpVars => UNCHANGED Http!vars
  BY DEF HttpVars, Http!vars, Http!conn, Http!input, Http!parse, Http!keep, Http!stream, Http!fate
<1>4. UNCHANGED StreamVars => UNCHANGED Stream!vars
  BY DEF StreamVars, Stream!vars
<1> QED BY <1>1, <1>2, <1>3, <1>4

\* A set of natural numbers that is not empty has a least element.
LEMMA LeastNumber ==
    ASSUME NEW T, T \subseteq Nat, T # {}
    PROVE  \E n \in T : \A m \in T : n <= m
  <1>1. \A m, n \in Nat : m < n => <<m, n>> \in OpToRel(<, Nat)
    BY DEF OpToRel
  <1>2. \E R : IsWellFoundedOn(R, Nat) /\ \A m, n \in Nat : m < n => <<m, n>> \in R
    BY <1>1, NatLessThanWellFounded, Zenon
  <1>3. PICK R : IsWellFoundedOn(R, Nat) /\ \A m, n \in Nat : m < n => <<m, n>> \in R
    BY <1>2
  <1>4. IsWellFoundedOn(R, Nat)
    BY <1>3, Zenon
  <1>5. \E n \in T : \A m \in T : ~(<<m, n>> \in R)
    BY <1>4, WFMin, Zenon
  <1>6. PICK n \in T : \A m \in T : ~(<<m, n>> \in R)
    BY <1>5, Zenon
  <1>7. ASSUME NEW m \in T PROVE n <= m
    <2>1. n \in Nat /\ m \in Nat
      OBVIOUS
    <2>2. ~(m < n)
      BY <2>1, <1>3, <1>6, Zenon
    <2> QED
      BY <2>1, <2>2
  <1> QED
    BY <1>7, Zenon
-----------------------------------------------------------------------------
(* HttpClient: a connection of the HTTP server, whose callbacks the loop runs. *)

\* What breaks the count of the answers, and what loses a resource.
Miscounts == {"full", "redirect", "twice"}
Losses    == {"redirect", "leak"}

\* An answer is owed while a request is read or served, and while a file goes out,
\* also in the middle of a callback and after the timer has closed the connection.
OwedInv ==
    hHurt \cap Miscounts = {} =>
        /\ hState \in {"header", "data", "done"} => hDebt = 1
        /\ hState = "init" => hDebt = 0
        /\ hDisp = "file" => hDebt = 1

\* What the dispatch is, from the state of the client and back.
TakenInv ==
    /\ hState = "data" => hDisp \in {"body", "cgi"}
    /\ hDisp = "file" => hState \in {"done", "close"}
    /\ "redirect" \notin hHurt /\ hDisp \in {"body", "cgi"} => hState = "data"

\* The loop over a body runs while one is awaited.
RunInv == hRun \in {"post", "over"} => hState = "data"

\* The length of a body is that of the request, in every loop of the callback.
FreshInv == hState = "init" /\ ~hClose => hNeed = 0

HttpControl == OwedInv /\ Http!HeldByDispatch /\ TakenInv /\ Http!TimerGuards /\ FreshInv

\* The types, by kind.
ClientTypes ==
    /\ hState \in {"init", "header", "data", "done", "close", "gone"}
    /\ hDisp \in {"none", "body", "file", "cgi"} /\ hHeld \subseteq {"body", "fd", "pipes"}
    /\ hRun \in {"idle", "read", "post", "over", "check"}
    /\ hReq \in Http!Requests \cup {"none"}
    /\ hHurt \subseteq {"full", "redirect", "leak", "deaf", "empty", "twice"}
InputTypes ==
    hBuf \in Seq(Http!Tokens) /\ Len(hBuf) <= BufLen /\ hCount \in 0 .. MaxIn
NumberTypes ==
    /\ hNeed \in 0 .. 2 /\ hBody \in 0 .. MaxPost
    /\ hProbes \in 0 .. MaxProbes /\ hLeft \in 0 .. FileLen /\ hDebt \in Int
FlagTypes ==
    /\ hUnseen \in BOOLEAN /\ hFull \in BOOLEAN /\ hClose \in BOOLEAN
    /\ hTimer \in BOOLEAN /\ hW \in BOOLEAN /\ hEof \in BOOLEAN
    /\ hWerr \in BOOLEAN /\ hStch \in BOOLEAN /\ hHung \in BOOLEAN

HttpInv == ClientTypes /\ InputTypes /\ NumberTypes /\ FlagTypes /\ RunInv /\ HttpControl

\* The invariant holds when a connection is accepted.
LEMMA HttpInit == ASSUME Http!HttpAssumption, Http!Init PROVE HttpInv
<1>1. InputTypes
  <2>1. hBuf \in Seq(Http!Tokens) /\ Len(hBuf) = 0
    BY DEF Http!Init
  <2> QED BY <2>1 DEF Http!Init, Http!HttpAssumption, InputTypes
<1>2. ClientTypes
  BY DEF Http!Init, ClientTypes
<1>3. NumberTypes
  BY DEF Http!Init, Http!HttpAssumption, NumberTypes
<1>4. FlagTypes
  BY DEF Http!Init, FlagTypes
<1>5. HttpControl
  BY DEF Http!Init, HttpControl, OwedInv, Http!HeldByDispatch, TakenInv, Http!TimerGuards,
         FreshInv, Http!Holds, Miscounts, Losses
<1> QED BY <1>1, <1>2, <1>3, <1>4, <1>5 DEF HttpInv, RunInv, Http!Init

\* A step that leaves the client, its dispatch, the timer and the count alone.
LEMMA ControlStays ==
    ASSUME HttpControl, UNCHANGED <<hState, hDisp, hHeld, hTimer, hDebt>>,
           hHurt \subseteq hHurt', hClose => hClose',
           hState = "init" => hNeed' = hNeed
    PROVE  HttpControl'
<1>1. OwedInv'
  BY DEF HttpControl, OwedInv
<1>2. Http!HeldByDispatch'
  <2>1. Http!Holds(hDisp') = Http!Holds(hDisp)
    BY DEF Http!Holds
  <2> QED BY <2>1 DEF HttpControl, Http!HeldByDispatch
<1>3. TakenInv'
  BY DEF HttpControl, TakenInv
<1>4. Http!TimerGuards'
  BY Zenon DEF HttpControl, Http!TimerGuards
<1>5. FreshInv'
  BY Zenon DEF HttpControl, FreshInv
<1> QED BY <1>1, <1>2, <1>3, <1>4, <1>5, Zenon DEF HttpControl

\* What client_request_done leaves behind.
LEMMA DoneFacts ==
    ASSUME FlagTypes, NEW n, NEW d, Http!RequestDone(n, d)
    PROVE  /\ hState' \in {"init", "close"} /\ (hState' = "init" /\ ~hClose => hNeed' = 0)
           /\ hNeed' \in {hNeed, 0} /\ hReq' \in {hReq, "none"} /\ hBody' = 0
           /\ hDisp' = "none" /\ hHeld' = hHeld \ Http!Holds(d) /\ hTimer' = TRUE
           /\ hDebt' = hDebt - n /\ hEof' \in BOOLEAN /\ hStch' \in BOOLEAN
<1>1. hEof \in BOOLEAN /\ hStch \in BOOLEAN
  BY DEF FlagTypes
<1>2. CASE hClose
  BY <1>1, <1>2 DEF Http!RequestDone, Http!DispatchDone
<1>3. CASE ~hClose
  BY <1>1, <1>3 DEF Http!RequestDone, Http!DispatchDone
<1> QED BY <1>2, <1>3

\* The end of a request that was owed n answers, or whose count is broken, with the
\* dispatch it had, or one whose resources are lost.
LEMMA ControlDone ==
    ASSUME FlagTypes, NumberTypes, HttpControl, NEW n \in Int, NEW d, Http!RequestDone(n, d),
           hHurt \subseteq hHurt', hClose' = hClose,
           hHurt' \cap Miscounts = {} => hDebt = n,
           hHurt' \cap Losses = {} => Http!Holds(hDisp) \subseteq Http!Holds(d)
    PROVE  HttpControl'
<1>0. /\ hState' \in {"init", "close"} /\ (hState' = "init" /\ ~hClose => hNeed' = 0)
      /\ hDisp' = "none" /\ hHeld' = hHeld \ Http!Holds(d) /\ hTimer'
      /\ hDebt' = hDebt - n
  BY DoneFacts
<1>1. OwedInv'
  <2>1. hHurt' \cap Miscounts = {} => hDebt' = 0
    BY <1>0 DEF NumberTypes
  <2> QED BY <1>0, <2>1 DEF OwedInv
<1>2. Http!HeldByDispatch'
  <2> SUFFICES ASSUME hHurt' \cap Losses = {} PROVE hHeld' = {}
    <3>1. Http!Holds(hDisp') = {}
      BY <1>0 DEF Http!Holds
    <3> QED BY <3>1 DEF Http!HeldByDispatch, Losses
  <2>1. hHeld = Http!Holds(hDisp) /\ Http!Holds(hDisp) \subseteq Http!Holds(d)
    BY DEF HttpControl, Http!HeldByDispatch, Losses
  <2> QED BY <1>0, <2>1
<1>3. TakenInv'
  BY <1>0 DEF TakenInv
<1>4. Http!TimerGuards'
  <2>1. hTimer' /\ hState' \notin {"data", "gone"}
    BY <1>0
  <2> QED BY <2>1, Zenon DEF Http!TimerGuards
<1>5. FreshInv'
  BY <1>0 DEF FreshInv
<1> QED BY <1>1, <1>2, <1>3, <1>4, <1>5, Zenon DEF HttpControl

\* The types of what client_request_done sets.
LEMMA DoneTypes ==
    ASSUME HttpInv, Http!HttpAssumption, NEW n \in Int, NEW d, Http!RequestDone(n, d)
    PROVE  /\ hState' \in {"init", "close"} /\ hDisp' = "none"
           /\ hHeld' \subseteq {"body", "fd", "pipes"} /\ hReq' \in Http!Requests \cup {"none"}
           /\ hNeed' \in 0 .. 2 /\ hBody' \in 0 .. MaxPost /\ hDebt' \in Int
           /\ hTimer' \in BOOLEAN /\ hEof' \in BOOLEAN /\ hStch' \in BOOLEAN
<1>1. /\ hState' \in {"init", "close"} /\ hNeed' \in {hNeed, 0} /\ hReq' \in {hReq, "none"}
      /\ hBody' = 0 /\ hDisp' = "none" /\ hHeld' = hHeld \ Http!Holds(d) /\ hTimer' = TRUE
      /\ hDebt' = hDebt - n /\ hEof' \in BOOLEAN /\ hStch' \in BOOLEAN
  BY DoneFacts DEF HttpInv
<1>2. hNeed' \in 0 .. 2 /\ hBody' \in 0 .. MaxPost /\ hDebt' \in Int
  BY <1>1 DEF HttpInv, NumberTypes, Http!HttpAssumption
<1>3. hHeld' \subseteq {"body", "fd", "pipes"} /\ hReq' \in Http!Requests \cup {"none"}
  BY <1>1 DEF HttpInv, ClientTypes
<1> QED BY <1>1, <1>2, <1>3

\* The rest of a step: its loop, its input, and what nearly every step leaves alone.
Frame ==
    /\ hRun' \in {"idle", "read", "post", "over", "check"} /\ InputTypes'
    /\ hProbes' \in 0 .. MaxProbes /\ hLeft' \in 0 .. FileLen /\ hFull' \in BOOLEAN
    /\ UNCHANGED <<hUnseen, hWerr, hHung>>
    /\ hHurt \subseteq hHurt'
    /\ hHurt' \subseteq {"full", "redirect", "leak", "deaf", "empty", "twice"}

\* A step that completes a request (see ControlDone).
LEMMA DoneHolds ==
    ASSUME HttpInv, Http!HttpAssumption, Frame, NEW n \in Int, NEW d,
           Http!RequestDone(n, d), Http!Output, hClose' = hClose,
           hRun' \notin {"post", "over"},
           hHurt' \cap Miscounts = {} => hDebt = n,
           hHurt' \cap Losses = {} => Http!Holds(hDisp) \subseteq Http!Holds(d)
    PROVE  HttpInv'
<1>1. HttpControl'
  BY ControlDone DEF HttpInv, Frame
<1>2. /\ hState' \in {"init", "close"} /\ hDisp' = "none"
      /\ hHeld' \subseteq {"body", "fd", "pipes"} /\ hReq' \in Http!Requests \cup {"none"}
      /\ hNeed' \in 0 .. 2 /\ hBody' \in 0 .. MaxPost /\ hDebt' \in Int
      /\ hTimer' \in BOOLEAN /\ hEof' \in BOOLEAN /\ hStch' \in BOOLEAN
  BY DoneTypes
<1>3. ClientTypes'
  BY <1>2 DEF Frame, HttpInv, ClientTypes
<1>4. NumberTypes'
  BY <1>2 DEF Frame, HttpInv, NumberTypes
<1>5. FlagTypes'
  BY <1>2 DEF Frame, HttpInv, FlagTypes, Http!Output
<1> QED BY <1>1, <1>3, <1>4, <1>5 DEF HttpInv, Frame, RunInv

\* An answer in one go to the request being served.
LEMMA AnswerHolds ==
    ASSUME HttpInv, Http!HttpAssumption, Frame, Http!Answer, hState \in {"header", "data"},
           hRun' \notin {"post", "over"}, hHurt' = hHurt, hClose' = hClose
    PROVE  HttpInv'
<1>1. Http!RequestDone(1, hDisp) /\ Http!Output
  BY DEF Http!Answer
<1>2. hHurt' \cap Miscounts = {} => hDebt = 1
  BY DEF HttpInv, HttpControl, OwedInv
<1> QED BY <1>1, <1>2, DoneHolds

\* A step that leaves the client, its dispatch, the timer and the output alone.
LEMMA StaysHolds ==
    ASSUME HttpInv, Frame,
           UNCHANGED <<hState, hDisp, hHeld, hTimer, hDebt, hReq, hW, hEof, hStch>>,
           hNeed' \in 0 .. 2, hBody' \in 0 .. MaxPost, hClose' \in BOOLEAN,
           hClose => hClose', hState = "init" => hNeed' = hNeed,
           hRun' \in {"post", "over"} => hState = "data"
    PROVE  HttpInv'
<1>1. HttpControl'
  BY ControlStays DEF HttpInv, Frame
<1>2. ClientTypes'
  BY DEF Frame, HttpInv, ClientTypes
<1>3. NumberTypes'
  BY DEF Frame, HttpInv, NumberTypes
<1>4. FlagTypes'
  BY DEF Frame, HttpInv, FlagTypes
<1> QED BY <1>1, <1>2, <1>3, <1>4 DEF HttpInv, Frame, RunInv

\* The first line end lies in the buffer.
LEMMA LineFacts ==
    ASSUME InputTypes
    PROVE  Http!LineEnd \in 0 .. Len(hBuf)
<1>1. CASE \E i \in 1 .. Len(hBuf) : hBuf[i] # "b"
  <2> DEFINE T == {i \in 1 .. Len(hBuf) : hBuf[i] # "b"}
  <2>1. T \subseteq Nat /\ T # {}
    BY <1>1 DEF InputTypes
  <2> HIDE DEF T
  <2>2. PICK i \in T : \A m \in T : i <= m
    BY <2>1, LeastNumber
  <2> USE DEF T
  <2>3. i \in 1 .. Len(hBuf) /\ hBuf[i] # "b"
    BY <2>2
  <2>4. \A j \in 1 .. i - 1 : hBuf[j] = "b"
    BY <2>2, <2>3 DEF InputTypes
  <2>5. Http!LineEnd = CHOOSE k \in 1 .. Len(hBuf) :
            hBuf[k] # "b" /\ \A j \in 1 .. k - 1 : hBuf[j] = "b"
    BY <1>1 DEF Http!LineEnd
  <2>6. Http!LineEnd \in 1 .. Len(hBuf)
    BY <2>3, <2>4, <2>5, Zenon
  <2> QED BY <2>6 DEF InputTypes
<1>2. CASE ~ \E i \in 1 .. Len(hBuf) : hBuf[i] # "b"
  <2>1. Http!LineEnd = 0
    BY <1>2 DEF Http!LineEnd
  <2> QED BY <2>1 DEF InputTypes
<1> QED BY <1>1, <1>2

\* Consuming a part of the buffer leaves the rest.
LEMMA ConsumeFacts ==
    ASSUME InputTypes, Http!HttpAssumption, NEW n \in 0 .. Len(hBuf), Http!Consume(n), hCount' = hCount
    PROVE  InputTypes'
<1>1. hBuf \in Seq(Http!Tokens) /\ Len(hBuf) \in Nat /\ n + 1 \in 1 .. Len(hBuf) + 1
      /\ Len(hBuf) \in (n + 1) - 1 .. Len(hBuf)
  BY DEF InputTypes
<1>2. hBuf' \in Seq(Http!Tokens) /\ Len(hBuf') = Len(hBuf) - (n + 1) + 1
  BY <1>1, SubSeqProperties DEF Http!Consume
<1>3. Len(hBuf') <= Len(hBuf)
  BY <1>1, <1>2
<1> QED BY <1>1, <1>2, <1>3 DEF InputTypes, Http!HttpAssumption

-----------------------------------------------------------------------------
(* The steps of the read callback.                                           *)

\* What the steps share: they start a loop, or leave one.
LEMMA QuietHolds ==
    ASSUME HttpInv, Http!ReadCb \/ Http!NoLine \/ Http!DataCb \/ Http!PostBreak
    PROVE  HttpInv'
<1>1. /\ UNCHANGED <<hState, hDisp, hHeld, hBuf, hCount, hReq, hNeed, hBody, hClose, hTimer,
                     hProbes, hLeft, hW, hEof, hWerr, hStch, hDebt, hHung, hHurt>>
      /\ hRun' \in {"idle", "read", "post", "over", "check"}
      /\ hRun' \in {"post", "over"} => hState = "data"
  BY DEF HttpInv, RunInv, Http!ReadCb, Http!NoLine, Http!DataCb, Http!PostBreak, Http!conn, Http!input,
         Http!parse, Http!keep, Http!stream, Http!fate
<1>2. hUnseen' \in BOOLEAN /\ hFull' \in BOOLEAN
  BY DEF HttpInv, FlagTypes, Http!ReadCb, Http!NoLine, Http!DataCb, Http!PostBreak, Http!input
<1>3. ClientTypes'
  BY <1>1 DEF HttpInv, ClientTypes
<1>4. InputTypes'
  BY <1>1 DEF HttpInv, InputTypes
<1>5. NumberTypes'
  BY <1>1 DEF HttpInv, NumberTypes
<1>6. FlagTypes'
  BY <1>1, <1>2 DEF HttpInv, FlagTypes
<1>7. HttpControl'
  BY <1>1, ControlStays DEF HttpInv
<1> QED BY <1>1, <1>3, <1>4, <1>5, <1>6, <1>7 DEF HttpInv, RunInv

\* A request too large for the buffer.
LEMMA FullHolds == ASSUME HttpInv, Http!HttpAssumption, Http!Full PROVE HttpInv'
<1>1. /\ UNCHANGED <<hBuf, hUnseen, hCount, hClose, hProbes, hLeft, hWerr, hHung>>
      /\ hRun' = "idle" /\ hFull' = FALSE /\ hHurt' \in {hHurt, hHurt \cup {"full"}}
  BY DEF Http!Full, Http!input
<1>2. InputTypes'
  BY <1>1 DEF HttpInv, InputTypes
<1>3. Frame
  BY <1>1, <1>2 DEF HttpInv, ClientTypes, NumberTypes, Frame
<1>4. CASE hFull /\ hState # "data"
  <2>1. Http!RequestDone(1, hDisp) /\ Http!Output /\ hHurt' = hHurt \cup {"full"}
    BY <1>4 DEF Http!Full, Http!Answer
  <2>2. hHurt' \cap Miscounts # {}
    BY <2>1 DEF Miscounts
  <2> QED BY <1>1, <1>3, <2>1, <2>2, DoneHolds
<1>5. CASE ~(hFull /\ hState # "data")
  <2>1. UNCHANGED <<hState, hDisp, hHeld, hReq, hNeed, hBody, hTimer, hW, hEof, hStch, hDebt>>
    BY <1>5 DEF Http!Full, Http!conn
  <2> QED BY <1>1, <1>3, <2>1, StaysHolds DEF HttpInv, NumberTypes, FlagTypes
<1> QED BY <1>4, <1>5
\* client_init_cb
LEMMA InitCbHolds == ASSUME HttpInv, Http!HttpAssumption, Http!InitCb PROVE HttpInv'
<1>1. /\ UNCHANGED <<hUnseen, hCount, hFull, hProbes, hLeft, hWerr, hHung, hHurt>>
      /\ hRun' \in {"idle", "read"} /\ Http!Consume(Http!LineEnd) /\ hState = "init"
  BY DEF Http!InitCb, Http!fate
<1>2. InputTypes'
  BY <1>1, LineFacts, ConsumeFacts DEF HttpInv
<1>3. Frame
  BY <1>1, <1>2 DEF HttpInv, ClientTypes, NumberTypes, FlagTypes, Frame
<1>4. CASE Http!AsRequest = "end"
  <2>1. UNCHANGED <<hState, hDisp, hHeld, hReq, hNeed, hBody, hClose, hTimer, hW, hEof, hStch, hDebt>>
    BY <1>4 DEF Http!InitCb, Http!conn
  <2> QED BY <1>1, <1>3, <2>1, StaysHolds DEF HttpInv, NumberTypes, FlagTypes
<1>5. CASE Http!AsRequest # "end" /\ Http!AsRequest \in Http!Requests
  <2>1. /\ hState' = "header" /\ hReq' = Http!AsRequest /\ hDebt' = hDebt + 1
        /\ hClose' \in BOOLEAN
        /\ UNCHANGED <<hDisp, hHeld, hNeed, hBody, hTimer, hW, hEof, hStch>>
    BY <1>5, Zenon DEF Http!InitCb, HttpInv, FlagTypes
  <2>2. ClientTypes'
    BY <1>1, <1>5, <2>1 DEF HttpInv, ClientTypes
  <2>3. NumberTypes'
    BY <1>1, <2>1 DEF HttpInv, NumberTypes
  <2>4. FlagTypes'
    BY <1>1, <2>1 DEF HttpInv, FlagTypes
  <2>5. OwedInv'
    BY <1>1, <2>1 DEF HttpInv, HttpControl, OwedInv, TakenInv
  <2>6. Http!Holds(hDisp') = Http!Holds(hDisp)
    BY <2>1 DEF Http!Holds
  <2>7. Http!HeldByDispatch'
    BY <1>1, <2>1, <2>6 DEF HttpInv, HttpControl, Http!HeldByDispatch
  <2>8. TakenInv'
    BY <1>1, <2>1 DEF HttpInv, HttpControl, TakenInv
  <2>9. hTimer'
    BY <1>1, <2>1 DEF HttpInv, HttpControl, Http!TimerGuards
  <2>10. Http!TimerGuards' /\ FreshInv'
    BY <2>1, <2>9 DEF Http!TimerGuards, FreshInv
  <2> QED BY <1>1, <1>2, <2>2, <2>3, <2>4, <2>5, <2>7, <2>8, <2>10 DEF HttpInv, HttpControl, RunInv
<1>6. CASE Http!AsRequest # "end" /\ Http!AsRequest \notin Http!Requests
  <2>1. Http!Output /\ Http!RequestDone(0, hDisp) /\ hClose' = hClose
    BY <1>6 DEF Http!InitCb
  <2>2. hHurt' \cap Miscounts = {} => hDebt = 0
    BY <1>1 DEF HttpInv, HttpControl, OwedInv
  <2> QED BY <1>1, <1>3, <2>1, <2>2, DoneHolds
<1> QED BY <1>4, <1>5, <1>6

\* client_parse_header on a line that is not the last
LEMMA HeaderCbHolds == ASSUME HttpInv, Http!HttpAssumption, Http!HeaderCb PROVE HttpInv'
<1>1. /\ UNCHANGED <<hUnseen, hCount, hFull, hProbes, hLeft, hWerr, hHung, hHurt>>
      /\ hRun' \in {"idle", "read"} /\ Http!Consume(Http!LineEnd) /\ hState = "header"
  BY DEF Http!HeaderCb, Http!fate
<1>2. InputTypes'
  BY <1>1, LineFacts, ConsumeFacts DEF HttpInv
<1>3. Frame
  BY <1>1, <1>2 DEF HttpInv, ClientTypes, NumberTypes, FlagTypes, Frame
<1>4. CASE Http!AsHeader \in {"len1", "len2", "close", "other"}
  <2>1. /\ UNCHANGED <<hState, hDisp, hHeld, hReq, hBody, hTimer, hW, hEof, hStch, hDebt>>
        /\ hNeed' \in {hNeed, 1, 2} /\ hClose' \in {hClose, TRUE}
    BY <1>4 DEF Http!HeaderCb, Http!conn, Http!parse
  <2>2. hNeed' \in 0 .. 2 /\ hBody' \in 0 .. MaxPost
    BY <2>1 DEF HttpInv, NumberTypes
  <2>3. hClose' \in BOOLEAN /\ (hClose => hClose')
    <3>1. hClose \in BOOLEAN
      BY DEF HttpInv, FlagTypes
    <3>2. CASE hClose' = hClose
      BY <3>1, <3>2, Zenon
    <3>3. CASE hClose' = TRUE
      BY <3>3, Zenon
    <3> QED BY <2>1, <3>2, <3>3
  <2> QED BY <1>1, <1>3, <2>1, <2>2, <2>3, StaysHolds
<1>5. CASE Http!AsHeader = "junk"
  <2>1. /\ hState' = "done"
        /\ UNCHANGED <<hDisp, hHeld, hReq, hNeed, hBody, hClose, hTimer, hW, hEof, hStch, hDebt>>
    BY <1>5 DEF Http!HeaderCb, Http!conn, Http!parse
  <2>2. ClientTypes'
    BY <1>1, <2>1 DEF HttpInv, ClientTypes
  <2>3. NumberTypes'
    BY <1>1, <2>1 DEF HttpInv, NumberTypes
  <2>4. FlagTypes'
    BY <1>1, <2>1 DEF HttpInv, FlagTypes
  <2>5. OwedInv'
    BY <1>1, <2>1 DEF HttpInv, HttpControl, OwedInv
  <2>6. Http!Holds(hDisp') = Http!Holds(hDisp)
    BY <2>1 DEF Http!Holds
  <2>7. Http!HeldByDispatch'
    BY <1>1, <2>1, <2>6 DEF HttpInv, HttpControl, Http!HeldByDispatch
  <2>8. TakenInv'
    BY <1>1, <2>1 DEF HttpInv, HttpControl, TakenInv
  <2>9. hTimer'
    BY <1>1, <2>1 DEF HttpInv, HttpControl, Http!TimerGuards
  <2>10. Http!TimerGuards' /\ FreshInv'
    BY <2>1, <2>9 DEF Http!TimerGuards, FreshInv
  <2> QED BY <1>1, <1>2, <2>2, <2>3, <2>4, <2>5, <2>7, <2>8, <2>10 DEF HttpInv, HttpControl, RunInv
<1>6. CASE Http!AsHeader = "chunked"
  <2>1. Http!Answer /\ hClose' = hClose
    BY <1>6 DEF Http!HeaderCb
  <2> QED BY <1>1, <1>3, <2>1, AnswerHolds
<1>7. Http!AsHeader \in {"len1", "len2", "close", "other", "junk", "chunked"}
  BY DEF Http!HeaderCb
<1> QED BY <1>4, <1>5, <1>6, <1>7
\* A request line or header has been read without a dispatch being there, unless a
\* redirection left one.
LEMMA HeaderFree ==
    ASSUME HttpInv, hState \in {"header", "init"}, "redirect" \notin hHurt
    PROVE  hDisp = "none" /\ Http!Holds(hDisp) = {}
<1>1. hDisp = "none"
  BY DEF HttpInv, HttpControl, TakenInv, ClientTypes
<1> QED BY <1>1 DEF Http!Holds

\* A body is awaited for the dispatch d.
LEMMA AwaitHolds ==
    ASSUME HttpInv, Http!HttpAssumption, Frame, hState = "header", hHurt' = hHurt,
           NEW d \in {"body", "cgi"}, hState' = "data", hDisp' = d,
           hHeld' = hHeld \cup Http!Holds(d), hTimer' = FALSE, hBody' \in {0, hBody},
           UNCHANGED <<hReq, hNeed, hClose, hW, hEof, hStch, hDebt>>
    PROVE  HttpInv'
<1>0. Http!Holds(d) \subseteq {"body", "fd", "pipes"}
  BY DEF Http!Holds
<1>1. ClientTypes'
  BY <1>0 DEF HttpInv, ClientTypes, Frame
<1>2. NumberTypes'
  BY DEF HttpInv, NumberTypes, Frame, Http!HttpAssumption
<1>3. FlagTypes'
  BY DEF HttpInv, FlagTypes, Frame
<1>4. OwedInv'
  BY DEF HttpInv, HttpControl, OwedInv
<1>5. Http!HeldByDispatch'
  <2> SUFFICES ASSUME hHurt \cap Losses = {} PROVE hHeld' = Http!Holds(d)
    <3>1. Http!Holds(hDisp') = Http!Holds(d)
      BY DEF Http!Holds
    <3> QED BY <3>1 DEF Http!HeldByDispatch, Losses
  <2>1. "redirect" \notin hHurt
    BY DEF Losses
  <2>2. hHeld = {}
    BY <2>1, HeaderFree DEF HttpInv, HttpControl, Http!HeldByDispatch, Losses
  <2> QED BY <2>2
<1>6. TakenInv' /\ FreshInv' /\ RunInv'
  BY DEF TakenInv, FreshInv, RunInv
<1>7. Http!TimerGuards'
  BY DEF Http!TimerGuards
<1> QED BY <1>1, <1>2, <1>3, <1>4, <1>5, <1>6, <1>7 DEF HttpInv, HttpControl, Frame

\* A file is sent for the request being served.
LEMMA FileHolds ==
    ASSUME HttpInv, Http!HttpAssumption, Frame, Http!File, hState \in {"header", "data"},
           hRun' \notin {"post", "over"}, hClose' = hClose,
           hHurt' \cap Losses = {} => Http!Holds(hDisp) = {}
    PROVE  HttpInv'
<1>1. hHurt' \cap Miscounts = {} => hDebt = 1
  BY DEF HttpInv, HttpControl, OwedInv, Frame
<1>2. CASE Http!FileSent
  <2>1. Http!RequestDone(1, "file") /\ Http!Output
    BY <1>2 DEF Http!FileSent
  <2> QED BY <1>1, <2>1, DoneHolds
<1>3. CASE Http!FileWaits(0 .. FileLen) /\ hState' = "done" /\ hTimer' = TRUE
  <2>1. /\ hState' = "done" /\ hTimer' = TRUE /\ hW' = TRUE /\ hDisp' = "file"
        /\ hHeld' = hHeld \cup {"fd"}
        /\ UNCHANGED <<hReq, hNeed, hBody, hEof, hStch, hDebt>>
    BY <1>3 DEF Http!FileWaits
  <2>2. ClientTypes'
    BY <2>1 DEF HttpInv, ClientTypes, Frame
  <2>3. NumberTypes'
    BY <2>1 DEF HttpInv, NumberTypes, Frame
  <2>4. FlagTypes'
    BY <2>1 DEF HttpInv, FlagTypes, Frame
  <2>5. OwedInv'
    BY <1>1, <2>1 DEF OwedInv
  <2>6. Http!HeldByDispatch'
    <3>1. Http!Holds(hDisp') = {"fd"}
      BY <2>1 DEF Http!Holds
    <3>2. hHurt' \cap Losses = {} => hHeld = {}
      BY DEF HttpInv, HttpControl, Http!HeldByDispatch, Losses, Frame
    <3> QED BY <2>1, <3>1, <3>2 DEF Http!HeldByDispatch, Losses
  <2>7. TakenInv' /\ FreshInv' /\ RunInv'
    BY <2>1 DEF TakenInv, FreshInv, RunInv
  <2>8. Http!TimerGuards'
    BY <2>1 DEF Http!TimerGuards
  <2> QED BY <2>2, <2>3, <2>4, <2>5, <2>6, <2>7, <2>8 DEF HttpInv, HttpControl, Frame
<1> QED BY <1>2, <1>3 DEF Http!File

\* A CGI request answered with its pipes open.
LEMMA PipesHolds ==
    ASSUME HttpInv, Http!HttpAssumption, Frame, NEW d \in {"none", "cgi"},
           Http!AnsweredWithPipes(d), hState = "header",
           hRun' \notin {"post", "over"}, hClose' = hClose,
           hHurt' = hHurt \cup {IF d = "none" THEN "leak" ELSE "redirect"}
    PROVE  HttpInv'
<1>1. /\ hDisp' = d /\ hHeld' \subseteq hHeld \cup {"pipes"} /\ hDebt' = hDebt - 1
      /\ hBody' = 0 /\ hTimer' = TRUE /\ hState' = (IF hClose THEN "close" ELSE "init")
      /\ hReq' \in {hReq, "none"} /\ hNeed' = (IF hClose THEN hNeed ELSE 0)
  BY DEF Http!AnsweredWithPipes
<1>2. hEof' \in BOOLEAN /\ hStch' \in BOOLEAN
  BY Zenon DEF Http!AnsweredWithPipes
<1>3. hW' \in BOOLEAN
  BY DEF Http!AnsweredWithPipes, Http!Output, HttpInv, FlagTypes
<1>4. ClientTypes'
  BY <1>1 DEF HttpInv, ClientTypes, Frame
<1>5. NumberTypes'
  BY <1>1 DEF HttpInv, NumberTypes, Frame, Http!HttpAssumption
<1>6. FlagTypes'
  BY <1>1, <1>2, <1>3 DEF HttpInv, FlagTypes, Frame
<1>7. OwedInv'
  <2>1. hHurt' \cap Miscounts = {} => hDebt' = 0 /\ d = "none"
    BY <1>1 DEF HttpInv, HttpControl, OwedInv, Miscounts, NumberTypes
  <2> QED BY <1>1, <2>1 DEF OwedInv
<1>8. Http!HeldByDispatch'
  BY DEF Http!HeldByDispatch
<1>9. TakenInv'
  BY <1>1 DEF TakenInv
<1>10. FreshInv' /\ RunInv'
  BY <1>1 DEF FreshInv, RunInv
<1>11. Http!TimerGuards'
  BY <1>1 DEF Http!TimerGuards
<1> QED BY <1>4, <1>5, <1>6, <1>7, <1>8, <1>9, <1>10, <1>11 DEF HttpInv, HttpControl, Frame
\* The empty line: uh_handle_request
LEMMA HeaderEndHolds == ASSUME HttpInv, Http!HttpAssumption, Http!HeaderEnd PROVE HttpInv'
<1>1. /\ UNCHANGED <<hUnseen, hCount, hClose, hWerr, hHung>>
      /\ hRun' \in {"idle", "read", "post"} /\ (hRun' = "post" => hState' = "data")
      /\ Http!Consume(1) /\ hState = "header" /\ hFull' \in BOOLEAN /\ Http!LineEnd = 1
  BY DEF Http!HeaderEnd
<1>2. InputTypes'
  <2>1. 1 \in 0 .. Len(hBuf)
    BY <1>1, LineFacts DEF HttpInv
  <2> QED BY <1>1, <2>1, ConsumeFacts DEF HttpInv
<1>3. ASSUME hProbes' \in {0, hProbes}, hLeft' \in 0 .. FileLen,
             hHurt' \in {hHurt, hHurt \cup {"leak"}, hHurt \cup {"redirect"}}
      PROVE  Frame
  BY <1>1, <1>2, <1>3 DEF HttpInv, ClientTypes, NumberTypes, Http!HttpAssumption, Frame
<1>4. hLeft \in 0 .. FileLen
  BY DEF HttpInv, NumberTypes
<1>5. CASE (Http!Command \/ Http!Refused) /\ UNCHANGED hHurt
  <2>1. Http!Answer /\ hProbes' \in {0, hProbes} /\ hLeft' = hLeft
    BY <1>5 DEF Http!Command, Http!Refused
  <2>2. Frame
    BY <1>3, <1>4, <1>5, <2>1
  <2>3. hState' \in {"init", "close"}
    BY <2>1, DoneFacts DEF HttpInv, Http!Answer
  <2>4. hRun' \notin {"post", "over"}
    BY <1>1, <2>3
  <2> QED BY <1>1, <1>5, <2>1, <2>2, <2>4, AnswerHolds
<1>6. CASE Http!File /\ UNCHANGED hHurt
  <2>1. hProbes' = hProbes /\ hLeft' \in 0 .. FileLen
    BY <1>6 DEF Http!File, Http!FileSent, Http!FileWaits, Http!HttpAssumption
  <2>2. Frame
    BY <1>3, <1>6, <2>1
  <2>3. hState' \in {"init", "close", "done"}
    BY <1>6, DoneFacts DEF HttpInv, Http!File, Http!FileSent
  <2>4. hRun' \notin {"post", "over"}
    BY <1>1, <2>3
  <2>5. hHurt' \cap Losses = {} => Http!Holds(hDisp) = {}
    BY <1>1, <1>6, HeaderFree DEF Losses
  <2> QED BY <1>1, <1>6, <2>2, <2>4, <2>5, FileHolds
<1>7. CASE /\ hState' = "data" /\ hDisp' = "body" /\ hHeld' = hHeld \cup {"body"} /\ hBody' = 0
           /\ hTimer' = FALSE
           /\ UNCHANGED <<hReq, hNeed, hProbes, hLeft, hW, hEof, hStch, hDebt, hHurt>>
  <2>1. Frame
    BY <1>3, <1>4, <1>7
  <2>2. Http!Holds("body") = {"body"}
    BY DEF Http!Holds
  <2> QED BY <1>1, <1>7, <2>1, <2>2, AwaitHolds
<1>8. CASE /\ hState' = "data" /\ hDisp' = "cgi" /\ hHeld' = hHeld \cup {"pipes"}
           /\ hTimer' = FALSE
           /\ UNCHANGED <<hReq, hNeed, hBody, hProbes, hLeft, hW, hEof, hStch, hDebt, hHurt>>
  <2>1. Frame
    BY <1>3, <1>4, <1>8
  <2>2. Http!Holds("cgi") = {"pipes"}
    BY DEF Http!Holds
  <2> QED BY <1>1, <1>8, <2>1, <2>2, AwaitHolds
<1>9. CASE \E d \in {"none", "cgi"} :
             /\ Http!AnsweredWithPipes(d) /\ UNCHANGED <<hProbes, hLeft>>
             /\ hHurt' = hHurt \cup {IF d = "none" THEN "leak" ELSE "redirect"}
  <2>1. PICK d \in {"none", "cgi"} :
             /\ Http!AnsweredWithPipes(d) /\ UNCHANGED <<hProbes, hLeft>>
             /\ hHurt' = hHurt \cup {IF d = "none" THEN "leak" ELSE "redirect"}
    BY <1>9
  <2>2. Frame
    BY <1>3, <1>4, <2>1
  <2>3. hState' \in {"init", "close"}
    BY <2>1 DEF Http!AnsweredWithPipes
  <2>4. hRun' \notin {"post", "over"}
    BY <1>1, <2>3
  <2> QED BY <1>1, <2>1, <2>2, <2>4, PipesHolds
<1> QED BY <1>5, <1>6, <1>7, <1>8, <1>9 DEF Http!HeaderEnd

\* post_post_data
LEMMA PostBodyHolds == ASSUME HttpInv, Http!HttpAssumption, Http!PostBody PROVE HttpInv'
<1>0. Http!Part \in 0 .. hNeed /\ Http!Part \in 0 .. Len(hBuf)
  BY DEF Http!Part, HttpInv, InputTypes, NumberTypes
<1>1. /\ UNCHANGED <<hUnseen, hCount, hFull, hClose, hProbes, hLeft, hWerr, hHung, hHurt>>
      /\ hState = "data"
  BY DEF Http!PostBody, Http!fate, HttpInv, RunInv
<1>2. CASE hBody + Http!Part > MaxPost
  <2>1. Http!Answer /\ hRun' = "check" /\ hBuf' = hBuf
    BY <1>2 DEF Http!PostBody
  <2>2. InputTypes'
    BY <1>1, <2>1 DEF HttpInv, InputTypes
  <2>3. Frame
    BY <1>1, <2>1, <2>2 DEF HttpInv, ClientTypes, NumberTypes, FlagTypes, Frame
  <2> QED BY <1>1, <2>1, <2>3, AnswerHolds
<1>3. CASE ~(hBody + Http!Part > MaxPost)
  <2>1. /\ hBody' = hBody + Http!Part /\ hNeed' = hNeed - Http!Part /\ Http!Consume(Http!Part)
        /\ hRun' \in {"over", "post"}
        /\ UNCHANGED <<hState, hDisp, hHeld, hReq, hTimer, hW, hEof, hStch, hDebt>>
    BY <1>3 DEF Http!PostBody, Http!conn
  <2>2. InputTypes'
    BY <1>0, <1>1, <2>1, ConsumeFacts DEF HttpInv
  <2>3. hNeed' \in 0 .. 2 /\ hBody' \in 0 .. MaxPost
    BY <1>0, <1>3, <2>1 DEF HttpInv, NumberTypes, Http!HttpAssumption
  <2>4. Frame
    BY <1>1, <2>1, <2>2 DEF HttpInv, ClientTypes, NumberTypes, FlagTypes, Frame
  <2> QED BY <1>1, <2>1, <2>3, <2>4, StaysHolds DEF HttpInv, FlagTypes
<1> QED BY <1>2, <1>3

\* uh_cgi_socket_send_cb; the loop may never end.
LEMMA PostCgiHolds == ASSUME HttpInv, Http!HttpAssumption, Http!PostCgi \/ Http!PostSpins PROVE HttpInv'
<1>0. Http!Part \in 0 .. hNeed /\ Http!Part \in 0 .. Len(hBuf)
  BY DEF Http!Part, HttpInv, InputTypes, NumberTypes
<1>1. /\ UNCHANGED <<hUnseen, hCount, hFull, hReq, hBody, hClose, hProbes, hLeft, hWerr, hState,
                     hDisp, hHeld, hTimer, hW, hEof, hStch, hDebt>>
      /\ hState = "data" /\ hHung' \in BOOLEAN /\ hRun' \in {"post", "over"}
      /\ hHurt' \in {hHurt, hHurt \cup {"deaf"}, hHurt \cup {"empty"}}
      /\ \/ hNeed' = hNeed - Http!Part /\ Http!Consume(Http!Part)
         \/ hNeed' = hNeed /\ hBuf' = hBuf
  BY DEF Http!PostCgi, Http!PostSpins, Http!fate, Http!conn, Http!stream, Http!keep, Http!input,
         Http!parse, HttpInv, RunInv, FlagTypes
<1>2. InputTypes'
  <2>1. CASE Http!Consume(Http!Part)
    BY <1>0, <1>1, <2>1, ConsumeFacts DEF HttpInv
  <2>2. CASE hBuf' = hBuf
    BY <1>1, <2>2 DEF HttpInv, InputTypes
  <2> QED BY <1>1, <2>1, <2>2
<1>3. hNeed' \in 0 .. 2
  BY <1>0, <1>1 DEF HttpInv, NumberTypes
<1>4. HttpControl'
  BY <1>1, ControlStays DEF HttpInv
<1>5. ClientTypes' /\ RunInv'
  BY <1>1 DEF HttpInv, ClientTypes, RunInv
<1>6. NumberTypes'
  BY <1>1, <1>3 DEF HttpInv, NumberTypes
<1>7. FlagTypes'
  BY <1>1 DEF HttpInv, FlagTypes
<1> QED BY <1>2, <1>4, <1>5, <1>6, <1>7 DEF HttpInv

\* post_post_done
LEMMA PostDoneHolds == ASSUME HttpInv, Http!HttpAssumption, Http!PostDone PROVE HttpInv'
<1>1. /\ UNCHANGED <<hBuf, hUnseen, hCount, hFull, hClose, hWerr, hHung>>
      /\ hState = "data" /\ hRun' = "check" /\ hHurt' \in {hHurt, hHurt \cup {"leak"}}
  BY DEF Http!PostDone, Http!input, HttpInv, RunInv
<1>2. InputTypes'
  BY <1>1 DEF HttpInv, InputTypes
<1>3. ASSUME hProbes' \in {0, hProbes}, hLeft' \in 0 .. FileLen PROVE Frame
  BY <1>1, <1>2, <1>3 DEF HttpInv, ClientTypes, NumberTypes, FlagTypes, Http!HttpAssumption, Frame
<1>4. CASE (Http!Command \/ Http!Refused) /\ UNCHANGED hHurt
  <2>1. Http!Answer /\ hProbes' \in {0, hProbes} /\ hLeft' \in 0 .. FileLen
    BY <1>4 DEF Http!Command, Http!Refused, HttpInv, NumberTypes
  <2>2. Frame
    BY <1>3, <2>1
  <2> QED BY <1>1, <1>4, <2>1, <2>2, AnswerHolds
<1>5. CASE Http!File /\ hHurt' = hHurt \cup {"leak"}
  <2>1. hProbes' = hProbes /\ hLeft' \in 0 .. FileLen
    BY <1>5 DEF Http!File, Http!FileSent, Http!FileWaits, Http!HttpAssumption
  <2>2. Frame
    BY <1>3, <2>1
  <2>3. hHurt' \cap Losses # {}
    BY <1>5 DEF Losses
  <2> QED BY <1>1, <1>5, <2>2, <2>3, FileHolds
<1> QED BY <1>4, <1>5 DEF Http!PostDone

\* uh_cgi_socket_recv_cb
LEMMA CgiDoneHolds == ASSUME HttpInv, Http!HttpAssumption, Http!CgiDone PROVE HttpInv'
<1>1. /\ UNCHANGED <<hBuf, hUnseen, hCount, hFull, hClose, hProbes, hLeft, hWerr, hHung>>
      /\ hState = "data" /\ hRun' = "check" /\ hHurt' \in {hHurt, hHurt \cup {"twice"}}
      /\ Http!Output
  BY DEF Http!CgiDone, Http!input, HttpInv, RunInv
<1>2. InputTypes'
  BY <1>1 DEF HttpInv, InputTypes
<1>3. Frame
  BY <1>1, <1>2 DEF HttpInv, ClientTypes, NumberTypes, FlagTypes, Frame
<1>4. CASE Http!RequestDone(1, hDisp) /\ UNCHANGED hHurt
  <2>1. hHurt' \cap Miscounts = {} => hDebt = 1
    BY <1>1, <1>4 DEF HttpInv, HttpControl, OwedInv
  <2> QED BY <1>1, <1>3, <1>4, <2>1, DoneHolds
<1>5. CASE Http!RequestDone(2, hDisp) /\ hHurt' = hHurt \cup {"twice"}
  <2>1. hHurt' \cap Miscounts # {}
    BY <1>5 DEF Miscounts
  <2> QED BY <1>1, <1>3, <1>5, <2>1, DoneHolds
<1> QED BY <1>4, <1>5 DEF Http!CgiDone
-----------------------------------------------------------------------------
(* The other callbacks, the timer and the peer.                              *)

\* client_ustream_write_cb
LEMMA WrittenHolds == ASSUME HttpInv, Http!HttpAssumption, Http!Written PROVE HttpInv'
<1>1. /\ UNCHANGED <<hBuf, hUnseen, hCount, hRun, hFull, hClose, hProbes, hWerr, hHung, hHurt>>
      /\ hRun = "idle" /\ hW
  BY DEF Http!Written, Http!input, Http!fate, Http!parse
<1>2. InputTypes'
  BY <1>1 DEF HttpInv, InputTypes
<1>3. ASSUME hLeft' \in 0 .. FileLen PROVE Frame
  BY <1>1, <1>2, <1>3 DEF HttpInv, ClientTypes, NumberTypes, FlagTypes, Frame
<1>4. CASE hDisp = "file" /\ ~hWerr /\ Http!FileSent
  <2>1. Http!RequestDone(1, "file") /\ Http!Output /\ hLeft' \in 0 .. FileLen
    BY <1>4 DEF Http!FileSent, Http!HttpAssumption
  <2>2. hHurt' \cap Miscounts = {} => hDebt = 1
    BY <1>1, <1>4 DEF HttpInv, HttpControl, OwedInv
  <2>3. Http!Holds(hDisp) \subseteq Http!Holds("file")
    BY <1>4
  <2>4. Frame
    BY <1>3, <2>1
  <2> QED BY <1>1, <2>1, <2>2, <2>3, <2>4, DoneHolds
<1>5. CASE hDisp = "file" /\ ~hWerr /\ Http!FileWaits(0 .. hLeft - 1) /\ UNCHANGED <<hState, hTimer>>
  <2>1. /\ hDisp' = hDisp /\ hHeld' = hHeld \cup {"fd"} /\ hW' = TRUE /\ hLeft' \in 0 .. FileLen
        /\ UNCHANGED <<hState, hTimer, hReq, hNeed, hBody, hEof, hStch, hDebt>>
    BY <1>5 DEF Http!FileWaits, HttpInv, NumberTypes, Http!HttpAssumption
  <2>2. ClientTypes'
    BY <1>1, <2>1 DEF HttpInv, ClientTypes
  <2>3. NumberTypes'
    BY <1>1, <2>1 DEF HttpInv, NumberTypes
  <2>4. FlagTypes'
    BY <1>1, <2>1 DEF HttpInv, FlagTypes
  <2>5. OwedInv' /\ TakenInv' /\ RunInv'
    BY <1>1, <2>1 DEF HttpInv, HttpControl, OwedInv, TakenInv, RunInv
  <2>6. Http!HeldByDispatch'
    <3>1. Http!Holds(hDisp') = {"fd"} /\ Http!Holds(hDisp) = {"fd"}
      BY <1>5, <2>1 DEF Http!Holds
    <3> QED BY <1>1, <2>1, <3>1 DEF HttpInv, HttpControl, Http!HeldByDispatch
  <2>7. Http!TimerGuards' /\ FreshInv'
    BY <1>1, <2>1, Zenon DEF HttpInv, HttpControl, Http!TimerGuards, FreshInv
  <2> QED BY <1>2, <2>2, <2>3, <2>4, <2>5, <2>6, <2>7 DEF HttpInv, HttpControl
<1>6. CASE ~(hDisp = "file" /\ ~hWerr)
  <2>1. /\ UNCHANGED <<hState, hDisp, hHeld, hReq, hNeed, hBody, hClose, hTimer, hLeft, hEof, hDebt>>
        /\ hW' = FALSE
    BY <1>6 DEF Http!Written, Http!conn, Http!parse
  <2>2. hStch' \in BOOLEAN
    BY <1>6, Zenon DEF Http!Written
  <2>3. ClientTypes' /\ RunInv'
    BY <1>1, <2>1 DEF HttpInv, ClientTypes, RunInv
  <2>4. NumberTypes'
    BY <1>1, <2>1 DEF HttpInv, NumberTypes
  <2>5. FlagTypes'
    BY <1>1, <2>1, <2>2 DEF HttpInv, FlagTypes
  <2>6. HttpControl'
    BY <1>1, <2>1, ControlStays DEF HttpInv
  <2> QED BY <1>2, <2>3, <2>4, <2>5, <2>6 DEF HttpInv
<1> QED BY <1>4, <1>5, <1>6 DEF Http!Written

\* uh_client_notify_state
LEMMA NotifyHolds == ASSUME HttpInv, Http!NotifyState PROVE HttpInv'
<1>1. /\ UNCHANGED <<hBuf, hUnseen, hCount, hRun, hFull, hReq, hNeed, hBody, hClose, hProbes,
                     hLeft, hEof, hWerr, hDebt, hHung, hHurt>>
      /\ hRun = "idle" /\ hStch' = FALSE
  BY DEF Http!NotifyState, Http!input, Http!fate, Http!parse
<1>2. InputTypes' /\ NumberTypes'
  BY <1>1 DEF HttpInv, InputTypes, NumberTypes
<1>3. hW' \in BOOLEAN
  BY Zenon DEF Http!NotifyState
<1>4. CASE UNCHANGED <<Http!conn, hTimer>>
  <2>1. UNCHANGED <<hState, hDisp, hHeld, hTimer>>
    BY <1>4 DEF Http!conn
  <2>2. ClientTypes' /\ RunInv'
    BY <1>1, <2>1 DEF HttpInv, ClientTypes, RunInv
  <2>3. FlagTypes'
    BY <1>1, <1>3, <2>1 DEF HttpInv, FlagTypes
  <2>4. HttpControl'
    BY <1>1, <2>1, ControlStays DEF HttpInv
  <2> QED BY <1>2, <2>2, <2>3, <2>4 DEF HttpInv
<1>5. CASE Http!ClientFree
  <2>1. /\ hState' = "gone" /\ hTimer' = FALSE /\ hDisp' = "none"
        /\ hHeld' = hHeld \ Http!Holds(hDisp)
    BY <1>5 DEF Http!ClientFree, Http!DispatchDone
  <2>2. ClientTypes' /\ RunInv'
    BY <1>1, <2>1 DEF HttpInv, ClientTypes, RunInv
  <2>3. FlagTypes'
    BY <1>1, <1>3, <2>1 DEF HttpInv, FlagTypes
  <2>4. OwedInv' /\ TakenInv' /\ FreshInv'
    BY <2>1 DEF OwedInv, TakenInv, FreshInv
  <2>5. Http!TimerGuards'
    BY <2>1 DEF Http!TimerGuards
  <2>6. Http!HeldByDispatch'
    <3>1. Http!Holds(hDisp') = {}
      BY <2>1 DEF Http!Holds
    <3> QED BY <1>1, <2>1, <3>1 DEF HttpInv, HttpControl, Http!HeldByDispatch
  <2> QED BY <1>2, <2>2, <2>3, <2>4, <2>5, <2>6 DEF HttpInv, HttpControl
<1> QED BY <1>4, <1>5 DEF Http!NotifyState

\* keepalive_cb
LEMMA KeepaliveHolds == ASSUME HttpInv, Http!HttpAssumption, Http!Keepalive PROVE HttpInv'
<1>1. /\ UNCHANGED <<hDisp, hHeld, hTimer, hBuf, hUnseen, hCount, hRun, hFull, hReq, hNeed, hBody,
                     hClose, hLeft, hW, hWerr, hDebt, hHung, hHurt>>
      /\ hRun = "idle" /\ hTimer /\ hState' \in {hState, "close"}
      /\ hEof' \in {hEof, TRUE} /\ hStch' \in {hStch, TRUE}
  BY DEF Http!Keepalive, Http!input, Http!fate, Http!parse
<1>2. hProbes' \in 0 .. MaxProbes
  BY DEF Http!Keepalive, HttpInv, NumberTypes, Http!HttpAssumption
<1>3. InputTypes' /\ NumberTypes'
  BY <1>1, <1>2 DEF HttpInv, InputTypes, NumberTypes
<1>4. ClientTypes' /\ RunInv'
  BY <1>1 DEF HttpInv, ClientTypes, RunInv
<1>5. FlagTypes'
  BY <1>1 DEF HttpInv, FlagTypes
<1>6. hState \notin {"data", "gone"}
  BY <1>1 DEF HttpInv, HttpControl, Http!TimerGuards
<1>7. OwedInv'
  BY <1>1 DEF HttpInv, HttpControl, OwedInv
<1>8. TakenInv'
  BY <1>1, <1>6 DEF HttpInv, HttpControl, TakenInv
<1>9. FreshInv'
  BY <1>1 DEF HttpInv, HttpControl, FreshInv
<1>10. Http!TimerGuards'
  <2>1. hTimer' /\ hState' \notin {"data", "gone"}
    BY <1>1, <1>6
  <2> QED BY <2>1, Zenon DEF Http!TimerGuards
<1>11. Http!HeldByDispatch'
  <2>1. Http!Holds(hDisp') = Http!Holds(hDisp)
    BY <1>1 DEF Http!Holds
  <2> QED BY <1>1, <2>1 DEF HttpInv, HttpControl, Http!HeldByDispatch
<1> QED BY <1>3, <1>4, <1>5, <1>7, <1>8, <1>9, <1>10, <1>11 DEF HttpInv, HttpControl

\* The peer
LEMMA PeerHolds ==
    ASSUME HttpInv, Http!HttpAssumption, Http!Arrive \/ Http!PeerEnds \/ Http!Breaks
    PROVE  HttpInv'
<1>1. /\ UNCHANGED <<hState, hDisp, hHeld, hRun, hFull, hReq, hNeed, hBody, hClose, hTimer,
                     hProbes, hLeft, hW, hDebt, hHung, hHurt>>
      /\ hEof' \in {hEof, TRUE} /\ hStch' \in {hStch, TRUE} /\ hWerr' \in {hWerr, TRUE}
      /\ hUnseen' \in {hUnseen, TRUE}
  BY DEF Http!Arrive, Http!PeerEnds, Http!Breaks, Http!conn, Http!input, Http!fate, Http!parse,
         Http!keep, Http!stream
<1>2. InputTypes'
  <2>1. CASE Http!Arrive
    <3>1. PICK t \in Http!Tokens : hBuf' = Append(hBuf, t)
      BY <2>1 DEF Http!Arrive
    <3>2. hBuf' \in Seq(Http!Tokens) /\ Len(hBuf') = Len(hBuf) + 1
      BY <3>1 DEF HttpInv, InputTypes
    <3> QED BY <2>1, <3>2 DEF Http!Arrive, HttpInv, InputTypes, Http!HttpAssumption
  <2>2. CASE Http!PeerEnds \/ Http!Breaks
    BY <2>2 DEF HttpInv, InputTypes, Http!PeerEnds, Http!Breaks, Http!input
  <2> QED BY <2>1, <2>2
<1>3. ClientTypes' /\ RunInv'
  BY <1>1 DEF HttpInv, ClientTypes, RunInv
<1>4. NumberTypes'
  BY <1>1 DEF HttpInv, NumberTypes
<1>5. FlagTypes'
  BY <1>1 DEF HttpInv, FlagTypes
<1>6. HttpControl'
  BY <1>1, ControlStays DEF HttpInv
<1> QED BY <1>2, <1>3, <1>4, <1>5, <1>6 DEF HttpInv

\* Every step keeps the invariant.
LEMMA HttpStep == ASSUME HttpInv, Http!HttpAssumption, [Http!Next]_(Http!vars) PROVE HttpInv'
<1>1. CASE Http!Next
  BY <1>1, QuietHolds, FullHolds, InitCbHolds, HeaderCbHolds, HeaderEndHolds, PostBodyHolds,
     PostCgiHolds, PostDoneHolds, CgiDoneHolds, WrittenHolds, NotifyHolds, KeepaliveHolds,
     PeerHolds DEF Http!Next, Http!Uloop, Http!Loop
<1>2. CASE UNCHANGED Http!vars
  <2>1. UNCHANGED <<hState, hDisp, hHeld, hBuf, hUnseen, hRun, hFull, hReq, hNeed, hBody,
                    hClose, hTimer, hProbes, hLeft, hW, hEof, hWerr, hStch, hCount, hDebt,
                    hHung, hHurt>>
    BY <1>2 DEF Http!vars, Http!conn, Http!input, Http!parse, Http!keep, Http!stream, Http!fate
  <2>2. InputTypes'
    BY <2>1 DEF HttpInv, InputTypes
  <2>3. Frame
    BY <2>1, <2>2 DEF HttpInv, ClientTypes, NumberTypes, FlagTypes, Frame
  <2> QED BY <2>1, <2>3, StaysHolds DEF HttpInv, NumberTypes, FlagTypes, RunInv
<1> QED BY <1>1, <1>2

\* What the invariant says between the callbacks.
LEMMA HttpMeans == ASSUME HttpInv PROVE Http!HttpSound
<1>1. Http!TypeOK
  BY DEF HttpInv, ClientTypes, InputTypes, NumberTypes, FlagTypes, Http!TypeOK
<1>2. Http!AnsweredOnce
  BY DEF HttpInv, HttpControl, OwedInv, Miscounts, Http!AnsweredOnce
<1>3. Http!HeldByDispatch /\ Http!TimerGuards
  BY DEF HttpInv, HttpControl
<1>4. Http!DataIsDispatched
  BY DEF HttpInv, HttpControl, TakenInv, Http!DataIsDispatched
<1>5. Http!FreshLength
  BY DEF HttpInv, HttpControl, FreshInv, Http!FreshLength
<1> QED BY <1>1, <1>2, <1>3, <1>4, <1>5 DEF Http!HttpSound

\* Whatever bytes arrive, in whatever pieces, and however the connection ends: but
\* for the cases the client's record names, each request is answered once, what a
\* dispatch holds is released, the timer runs whenever no body is awaited, and no
\* request sees the length of another's body (client.c, file.c, uhttpd-cgi.c).
THEOREM ConnectionsStaySound == (Http!Spec => []Http!HttpSound) /\ (MCSpec => []HttpSound)
<1>1. Http!Init => HttpInv
  BY MCLoopAssumption, HttpInit
<1>2. HttpInv /\ [Http!Next]_(Http!vars) => HttpInv'
  BY MCLoopAssumption, HttpStep
<1>3. HttpInv => Http!HttpSound /\ HttpSound
  BY MCLoopAssumption, HttpMeans DEF HttpSound
<1>4. MCInit => Http!Init
  BY DEF MCInit
<1>5. [MCNext]_mcVars => [Http!Next]_(Http!vars)
  BY LoopParts
<1> QED BY <1>1, <1>2, <1>3, <1>4, <1>5, PTL DEF Http!Spec, MCSpec
-----------------------------------------------------------------------------
(* Ustream: the buffered streams.                                            *)

Buffer == [off : Nat, bytes : Seq(Nat)]

\* The bytes of the first i buffers.
Prefixes(B) == CHOOSE F : F = [i \in 0 .. Len(B) |-> IF i = 0 THEN <<>> ELSE F[i - 1] \o B[i].bytes]

LEMMA FlatIs == ASSUME NEW l PROVE Stream!Flat(l) = Prefixes(l.bufs)[Len(l.bufs)]
BY DEF Stream!Flat, Prefixes

\* Induction, over a set.
LEMMA ByNumbers ==
    ASSUME NEW n \in Nat, NEW T, 0 \in T, \A k \in 0 .. n - 1 : k \in T => k + 1 \in T
    PROVE  \A k \in 0 .. n : k \in T
<1> SUFFICES ASSUME {k \in 0 .. n : k \notin T} # {} PROVE FALSE
  OBVIOUS
<1> DEFINE S == {k \in 0 .. n : k \notin T}
<1>1. S \subseteq Nat /\ S # {}
  OBVIOUS
<1> HIDE DEF S
<1>2. PICK m \in S : \A k \in S : m <= k
  BY <1>1, LeastNumber
<1> USE DEF S
<1>3. m \in 0 .. n /\ m \notin T /\ m # 0
  BY <1>2
<1>4. m - 1 \in 0 .. n - 1 /\ m - 1 \in 0 .. n
  BY <1>3
<1>5. m - 1 \in T
  BY <1>2, <1>3, <1>4
<1> QED BY <1>3, <1>4, <1>5

\* There are such prefixes.
LEMMA PrefixesAre ==
    ASSUME NEW B \in Seq(Buffer)
    PROVE  /\ Prefixes(B)[0] = <<>>
           /\ \A i \in 1 .. Len(B) : Prefixes(B)[i] = Prefixes(B)[i - 1] \o B[i].bytes
<1> DEFINE n == Len(B)
           Is(G, k) == G = [i \in 0 .. k |-> IF i = 0 THEN <<>> ELSE G[i - 1] \o B[i].bytes]
           T == {k \in Nat : \E G : Is(G, k)}
<1>1. n \in Nat
  OBVIOUS
<1>2. 0 \in T
  <2> DEFINE G == [i \in 0 .. 0 |-> <<>>]
  <2>1. G = [i \in 0 .. 0 |-> IF i = 0 THEN <<>> ELSE G[i - 1] \o B[i].bytes]
    OBVIOUS
  <2> QED BY <2>1
<1>3. ASSUME NEW k \in 0 .. n - 1, k \in T PROVE k + 1 \in T
  <2>1. k \in Nat /\ \E G : Is(G, k)
    BY <1>3
  <2>2. PICK G : G = [i \in 0 .. k |-> IF i = 0 THEN <<>> ELSE G[i - 1] \o B[i].bytes]
    BY <2>1
  <2> DEFINE H == [i \in 0 .. k + 1 |-> IF i = k + 1 THEN G[k] \o B[k + 1].bytes ELSE G[i]]
  <2>3. ASSUME NEW i \in 0 .. k + 1 PROVE H[i] = IF i = 0 THEN <<>> ELSE H[i - 1] \o B[i].bytes
    <3>1. CASE i = k + 1
      <4>1. k \in 0 .. k + 1 /\ k # k + 1 /\ i # 0 /\ i - 1 = k
        BY <2>1, <3>1
      <4>2. H[k] = G[k] /\ H[i] = G[k] \o B[k + 1].bytes
        BY <3>1, <4>1
      <4> QED BY <3>1, <4>1, <4>2
    <3>2. CASE i # k + 1
      <4>1. i \in 0 .. k
        BY <2>1, <3>2
      <4>2. H[i] = G[i] /\ G[i] = IF i = 0 THEN <<>> ELSE G[i - 1] \o B[i].bytes
        BY <2>2, <3>2, <4>1
      <4>3. i # 0 => H[i - 1] = G[i - 1]
        BY <2>1, <4>1
      <4> QED BY <4>2, <4>3
    <3> QED BY <3>1, <3>2
  <2>4. H = [i \in 0 .. k + 1 |-> H[i]]
    OBVIOUS
  <2> HIDE DEF H
  <2>5. H = [i \in 0 .. k + 1 |-> IF i = 0 THEN <<>> ELSE H[i - 1] \o B[i].bytes]
    BY <2>3, <2>4
  <2> QED BY <2>1, <2>5
<1> HIDE DEF T, n
<1>3a. \A k \in 0 .. n : k \in T
  BY <1>1, <1>2, <1>3, ByNumbers
<1>4. n \in T
  BY <1>1, <1>3a
<1> USE DEF T, n
<1>5. \E G : G = [i \in 0 .. Len(B) |-> IF i = 0 THEN <<>> ELSE G[i - 1] \o B[i].bytes]
  BY <1>4
<1>6. Prefixes(B) = [i \in 0 .. Len(B) |-> IF i = 0 THEN <<>> ELSE Prefixes(B)[i - 1] \o B[i].bytes]
  BY <1>5 DEF Prefixes
<1> QED BY <1>1, <1>6

\* Sequences of bytes.
LEMMA ByteConcat ==
    ASSUME NEW s \in Seq(Nat), NEW t \in Seq(Nat), NEW u \in Seq(Nat)
    PROVE  (s \o t) \o u = s \o (t \o u) /\ s \o t \in Seq(Nat)
<1>1. (s \o t) \o u = s \o (t \o u)
  BY ConcatAssociative, SMTT(30)
<1>2. s \o t \in Seq(Nat)
  BY ConcatProperties, Zenon
<1> QED BY <1>1, <1>2, Zenon

\* How long two sequences of bytes are together.
LEMMA ByteJoin ==
    ASSUME NEW s \in Seq(Nat), NEW t \in Seq(Nat)
    PROVE  /\ s \o t \in Seq(Nat) /\ Len(s) \in Nat /\ Len(t) \in Nat
           /\ Len(s \o t) = Len(s) + Len(t)
           /\ \A i \in 1 .. Len(s) + Len(t) : (s \o t)[i] = IF i <= Len(s) THEN s[i] ELSE t[i - Len(s)]
BY ConcatProperties, LenProperties, Zenon

\* What each buffer holds.
LEMMA BufferIs ==
    ASSUME NEW B \in Seq(Buffer), NEW i \in 1 .. Len(B)
    PROVE  B[i] \in Buffer /\ B[i].bytes \in Seq(Nat) /\ B[i].off \in Nat
<1>1. B[i] \in Buffer
  OBVIOUS
<1> QED BY <1>1 DEF Buffer

\* The prefixes are sequences of bytes.
LEMMA PrefixSeq ==
    ASSUME NEW B \in Seq(Buffer)
    PROVE  \A i \in 0 .. Len(B) : Prefixes(B)[i] \in Seq(Nat)
<1> DEFINE T == {k \in Nat : k <= Len(B) => Prefixes(B)[k] \in Seq(Nat)}
           n == Len(B)
<1>1. n \in Nat
  OBVIOUS
<1>2. 0 \in T
  <2>1. Prefixes(B)[0] = <<>>
    BY PrefixesAre
  <2>2. <<>> \in Seq(Nat) /\ 0 \in Nat
    OBVIOUS
  <2> QED BY <2>1, <2>2, Zenon
<1>3. ASSUME NEW k \in 0 .. n - 1, k \in T PROVE k + 1 \in T
  <2>1. k \in Nat /\ k + 1 \in 1 .. Len(B) /\ (k + 1) - 1 = k /\ Prefixes(B)[k] \in Seq(Nat)
    BY <1>1, <1>3
  <2>2. B[k + 1].bytes \in Seq(Nat)
    BY <2>1, BufferIs
  <2>3. Prefixes(B)[k + 1] = Prefixes(B)[k] \o B[k + 1].bytes
    BY <2>1, PrefixesAre
  <2>4. Prefixes(B)[k + 1] \in Seq(Nat)
    BY <2>1, <2>2, <2>3
  <2> QED BY <2>1, <2>4
<1> HIDE DEF T, n
<1>4. \A k \in 0 .. n : k \in T
  BY <1>1, <1>2, <1>3, ByNumbers
<1> QED BY <1>1, <1>4 DEF T, n

\* Prefixes depend on the bytes before them alone.
LEMMA PrefixAgree ==
    ASSUME NEW B \in Seq(Buffer), NEW C \in Seq(Buffer), NEW n \in Nat, n <= Len(B), n <= Len(C),
           \A i \in 1 .. n : B[i].bytes = C[i].bytes
    PROVE  \A i \in 0 .. n : Prefixes(B)[i] = Prefixes(C)[i]
<1> DEFINE T == {k \in Nat : Prefixes(B)[k] = Prefixes(C)[k]}
<1>1. 0 \in T
  BY PrefixesAre
<1>2. ASSUME NEW k \in 0 .. n - 1, k \in T PROVE k + 1 \in T
  <2>1. /\ k \in Nat /\ k + 1 \in 1 .. Len(B) /\ k + 1 \in 1 .. Len(C) /\ k + 1 \in 1 .. n
        /\ (k + 1) - 1 = k /\ Prefixes(B)[k] = Prefixes(C)[k]
    BY <1>2
  <2>2. Prefixes(B)[k + 1] = Prefixes(B)[k] \o B[k + 1].bytes
    BY <2>1, PrefixesAre
  <2>3. Prefixes(C)[k + 1] = Prefixes(C)[k] \o C[k + 1].bytes
    BY <2>1, PrefixesAre
  <2>4. Prefixes(B)[k + 1] = Prefixes(C)[k + 1]
    BY <2>1, <2>2, <2>3
  <2>5. k + 1 \in Nat
    BY <2>1
  <2> QED BY <2>4, <2>5, Zenon
<1> HIDE DEF T
<1>3. \A k \in 0 .. n : k \in T
  BY <1>1, <1>2, ByNumbers
<1> QED BY <1>3 DEF T

\* Empty buffers at the end add nothing.
LEMMA PrefixEmpty ==
    ASSUME NEW B \in Seq(Buffer), NEW d \in 0 .. Len(B), \A i \in d + 1 .. Len(B) : B[i].bytes = <<>>
    PROVE  Prefixes(B)[Len(B)] = Prefixes(B)[d]
<1> DEFINE n == Len(B) - d
           T == {k \in Nat : Prefixes(B)[d + k] = Prefixes(B)[d]}
<1>1. n \in Nat /\ Len(B) \in Nat /\ d + n = Len(B)
  OBVIOUS
<1>2. 0 \in T
  OBVIOUS
<1>3. ASSUME NEW k \in 0 .. n - 1, k \in T PROVE k + 1 \in T
  <2>1. /\ k \in Nat /\ d + (k + 1) \in 1 .. Len(B) /\ d + (k + 1) \in d + 1 .. Len(B)
        /\ (d + (k + 1)) - 1 = d + k /\ d + k \in 0 .. Len(B)
    BY <1>1, <1>3
  <2>2. Prefixes(B)[d + (k + 1)] = Prefixes(B)[d + k] \o B[d + (k + 1)].bytes
    BY <2>1, PrefixesAre
  <2>3. B[d + (k + 1)].bytes = <<>> /\ Prefixes(B)[d + k] \in Seq(Nat)
    BY <2>1, PrefixSeq
  <2>4. Prefixes(B)[d + (k + 1)] = Prefixes(B)[d + k]
    BY <2>2, <2>3
  <2> QED BY <1>3, <2>1, <2>4
<1> HIDE DEF T, n
<1>4. \A k \in 0 .. n : k \in T
  BY <1>1, <1>2, <1>3, ByNumbers
<1>5. n \in T
  BY <1>1, <1>4
<1> QED BY <1>1, <1>5 DEF T

\* The bytes of the first buffer come first.
LEMMA PrefixTail ==
    ASSUME NEW B \in Seq(Buffer), Len(B) > 0
    PROVE  /\ Tail(B) \in Seq(Buffer) /\ Len(Tail(B)) = Len(B) - 1
           /\ Prefixes(B)[Len(B)] = B[1].bytes \o Prefixes(Tail(B))[Len(B) - 1]
<1> DEFINE C == Tail(B)
           n == Len(B) - 1
           T == {k \in Nat : k <= n => Prefixes(B)[k + 1] = B[1].bytes \o Prefixes(C)[k]}
<1>1. /\ n \in Nat /\ C \in Seq(Buffer) /\ Len(C) = n /\ Len(B) = n + 1 /\ 1 \in 1 .. Len(B)
      /\ \A i \in 1 .. n : C[i] = B[i + 1]
  OBVIOUS
<1>2. B[1].bytes \in Seq(Nat)
  BY <1>1, BufferIs
<1> HIDE DEF C, n
<1>3. 0 \in T
  <2>0. 1 - 1 = 0 /\ 0 + 1 = 1 /\ 0 \in Nat
    OBVIOUS
  <2>1. Prefixes(B)[0] = <<>> /\ Prefixes(C)[0] = <<>> /\ Prefixes(B)[1] = Prefixes(B)[1 - 1] \o B[1].bytes
    BY <1>1, PrefixesAre, Zenon
  <2>2. Prefixes(B)[1] = <<>> \o B[1].bytes
    BY <2>0, <2>1, Zenon
  <2>3. <<>> \o B[1].bytes = B[1].bytes /\ B[1].bytes \o <<>> = B[1].bytes
    BY <1>2
  <2>4. Prefixes(B)[0 + 1] = B[1].bytes \o Prefixes(C)[0]
    BY <2>0, <2>1, <2>2, <2>3, Zenon
  <2> QED BY <2>0, <2>4, Zenon
<1>4. ASSUME NEW k \in 0 .. n - 1, k \in T PROVE k + 1 \in T
  <2>1. /\ k \in Nat /\ k + 1 \in 1 .. n /\ (k + 1) + 1 \in 1 .. Len(B) /\ k + 1 \in 1 .. Len(C)
        /\ ((k + 1) + 1) - 1 = k + 1 /\ (k + 1) - 1 = k /\ k \in 0 .. Len(C)
    BY <1>1, <1>4
  <2>1a. Prefixes(B)[k + 1] = B[1].bytes \o Prefixes(C)[k]
    <3>1. k <= n
      BY <1>1, <1>4
    <3> QED BY <1>4, <3>1, Zenon
  <2>2. Prefixes(B)[(k + 1) + 1] = Prefixes(B)[k + 1] \o B[(k + 1) + 1].bytes
    BY <2>1, PrefixesAre
  <2>3. Prefixes(C)[k + 1] = Prefixes(C)[k] \o C[k + 1].bytes
    BY <1>1, <2>1, PrefixesAre
  <2>4. C[k + 1] = B[(k + 1) + 1] /\ C[k + 1].bytes \in Seq(Nat) /\ Prefixes(C)[k] \in Seq(Nat)
    BY <1>1, <2>1, BufferIs, PrefixSeq
  <2>5. (B[1].bytes \o Prefixes(C)[k]) \o C[k + 1].bytes = B[1].bytes \o (Prefixes(C)[k] \o C[k + 1].bytes)
    BY <1>2, <2>4, ByteConcat
  <2>6. Prefixes(B)[(k + 1) + 1] = B[1].bytes \o Prefixes(C)[k + 1]
    BY <2>1, <2>1a, <2>2, <2>3, <2>4, <2>5
  <2>7. k + 1 \in Nat
    BY <2>1
  <2> QED BY <2>6, <2>7, Zenon
<1> HIDE DEF T
<1>5. \A k \in 0 .. n : k \in T
  BY <1>1, <1>3, <1>4, ByNumbers
<1>6. n \in T
  BY <1>1, <1>5
<1>7. Prefixes(B)[n + 1] = B[1].bytes \o Prefixes(C)[n]
  <2>1. n <= n
    BY <1>1
  <2> QED BY <1>6, <2>1, Zenon DEF T
<1> QED BY <1>1, <1>7 DEF C, n

-----------------------------------------------------------------------------
\* All bytes of a list of buffers.
Whole(B) == Prefixes(B)[Len(B)]

\* They are bytes, and none of no buffers.
LEMMA WholeSeq == ASSUME NEW B \in Seq(Buffer) PROVE Whole(B) \in Seq(Nat) /\ (B = <<>> => Whole(B) = <<>>)
<1>1. Len(B) \in Nat /\ (B = <<>> => Len(B) = 0)
  OBVIOUS
<1>2. Len(B) \in 0 .. Len(B)
  BY <1>1
<1>3. Whole(B) \in Seq(Nat)
  BY <1>2, PrefixSeq DEF Whole
<1>4. Prefixes(B)[0] = <<>>
  BY PrefixesAre
<1> QED BY <1>1, <1>3, <1>4, Zenon DEF Whole

\* A buffer that holds nothing is added.
LEMMA WholeAdd ==
    ASSUME NEW B \in Seq(Buffer), NEW b \in Buffer, b.bytes = <<>>
    PROVE  Append(B, b) \in Seq(Buffer) /\ Whole(Append(B, b)) = Whole(B)
<1> DEFINE C == Append(B, b)
<1>1. /\ C \in Seq(Buffer) /\ Len(C) = Len(B) + 1 /\ Len(B) \in Nat /\ C[Len(B) + 1] = b
      /\ \A i \in 1 .. Len(B) : C[i] = B[i]
  OBVIOUS
<1> HIDE DEF C
<1>2. Prefixes(C)[Len(C)] = Prefixes(C)[Len(B)]
  <2>1. Len(B) \in 0 .. Len(C) /\ \A i \in Len(B) + 1 .. Len(C) : C[i].bytes = <<>>
    BY <1>1
  <2> QED BY <1>1, <2>1, PrefixEmpty
<1>3. Prefixes(C)[Len(B)] = Prefixes(B)[Len(B)]
  <2>1. \A i \in 0 .. Len(B) : Prefixes(B)[i] = Prefixes(C)[i]
    BY <1>1, PrefixAgree
  <2> QED BY <1>1, <2>1
<1> QED BY <1>1, <1>2, <1>3 DEF Whole, C

\* Bytes are put into the last buffer that has some.
LEMMA WholePut ==
    ASSUME NEW B \in Seq(Buffer), NEW d \in 1 .. Len(B), \A i \in d + 1 .. Len(B) : B[i].bytes = <<>>,
           NEW x \in Seq(Nat), NEW C \in Seq(Buffer), Len(C) = Len(B),
           \A i \in 1 .. Len(B) : i # d => C[i].bytes = B[i].bytes,
           C[d].bytes = B[d].bytes \o x
    PROVE  Whole(C) = Whole(B) \o x
<1>1. Len(B) \in Nat /\ d \in Nat /\ d - 1 \in Nat /\ d \in 0 .. Len(B) /\ d \in 1 .. Len(C)
  OBVIOUS
<1>2. Whole(B) = Prefixes(B)[d]
  BY <1>1, PrefixEmpty DEF Whole
<1>3. Whole(C) = Prefixes(C)[d]
  <2>1. \A i \in d + 1 .. Len(C) : C[i].bytes = <<>>
    BY <1>1
  <2> QED BY <1>1, <2>1, PrefixEmpty DEF Whole
<1>4. Prefixes(B)[d - 1] = Prefixes(C)[d - 1]
  <2>1. \A i \in 0 .. d - 1 : Prefixes(B)[i] = Prefixes(C)[i]
    <3>1. d - 1 <= Len(B) /\ d - 1 <= Len(C) /\ \A i \in 1 .. d - 1 : B[i].bytes = C[i].bytes
      BY <1>1
    <3> QED BY <1>1, <3>1, PrefixAgree
  <2> QED BY <1>1, <2>1
<1>5. Prefixes(B)[d] = Prefixes(B)[d - 1] \o B[d].bytes /\ Prefixes(C)[d] = Prefixes(C)[d - 1] \o C[d].bytes
  BY <1>1, PrefixesAre
<1>6. B[d].bytes \in Seq(Nat) /\ Prefixes(B)[d - 1] \in Seq(Nat)
  <2>1. d - 1 \in 0 .. Len(B)
    BY <1>1
  <2> QED BY <2>1, BufferIs, PrefixSeq
<1>7. Prefixes(B)[d - 1] \o (B[d].bytes \o x) = (Prefixes(B)[d - 1] \o B[d].bytes) \o x
  BY <1>6, ByteConcat
<1> QED BY <1>2, <1>3, <1>4, <1>5, <1>7

\* Buffers with the same bytes.
LEMMA WholeSame ==
    ASSUME NEW B \in Seq(Buffer), NEW C \in Seq(Buffer), Len(C) = Len(B),
           \A i \in 1 .. Len(B) : C[i].bytes = B[i].bytes
    PROVE  Whole(C) = Whole(B)
<1>1. Len(B) \in Nat
  OBVIOUS
<1>2. \A i \in 0 .. Len(B) : Prefixes(B)[i] = Prefixes(C)[i]
  BY <1>1, PrefixAgree
<1> QED BY <1>1, <1>2 DEF Whole

\* The first buffer, and the others.
LEMMA WholeHead ==
    ASSUME NEW B \in Seq(Buffer), B # <<>>
    PROVE  /\ Tail(B) \in Seq(Buffer) /\ Len(Tail(B)) = Len(B) - 1
           /\ B[1].bytes \in Seq(Nat) /\ Whole(Tail(B)) \in Seq(Nat)
           /\ Whole(B) = B[1].bytes \o Whole(Tail(B))
<1>1. Len(B) > 0 /\ Len(B) \in Nat /\ 1 \in 1 .. Len(B)
  OBVIOUS
<1>2. /\ Tail(B) \in Seq(Buffer) /\ Len(Tail(B)) = Len(B) - 1
      /\ Prefixes(B)[Len(B)] = B[1].bytes \o Prefixes(Tail(B))[Len(B) - 1]
  BY <1>1, PrefixTail
<1> QED BY <1>1, <1>2, BufferIs, WholeSeq DEF Whole

-----------------------------------------------------------------------------
(* The lists of buffers.                                                     *)

BufferList == [bufs : Seq(Buffer), dt : Nat, n : Nat, count : Nat]

\* Buffers before data_tail hold something, those behind it nothing.
Filled(l) ==
    /\ \A i \in 1 .. Len(l.bufs) :
          /\ l.bufs[i].off + Len(l.bufs[i].bytes) <= StreamBuf
          /\ l.bufs[i].bytes = <<>> => l.bufs[i].off = 0
    /\ \A i \in l.dt + 1 .. Len(l.bufs) : l.bufs[i].bytes = <<>>
    /\ \A i \in 1 .. l.dt - 1 : l.bufs[i].bytes # <<>>

Pointed(l) == l.n = Len(l.bufs) /\ l.dt \in 0 .. l.n /\ (l.n > 0 => l.dt # 0)

\* A list that is what its counters say.
GoodList(l) == l \in BufferList /\ Pointed(l) /\ Filled(l) /\ l.count = Len(Whole(l.bufs))

\* What the constants are.
LEMMA StrConst ==
    ASSUME Stream!UstreamAssumption
    PROVE  /\ StreamBuf \in Nat /\ StreamBuf > 0 /\ SndBuf \in Nat /\ SndBuf > 0
           /\ MaxSent \in Nat /\ MaxWritten \in Nat /\ Writes \subseteq Nat \ {0}
BY DEF Stream!UstreamAssumption

\* The parts of a list.
LEMMA ListParts ==
    ASSUME NEW l \in BufferList
    PROVE  l.bufs \in Seq(Buffer) /\ Len(l.bufs) \in Nat /\ l.dt \in Nat /\ l.n \in Nat /\ l.count \in Nat
<1>1. l.bufs \in Seq(Buffer) /\ l.dt \in Nat /\ l.n \in Nat /\ l.count \in Nat
  BY DEF BufferList
<1> QED BY <1>1

\* The buffer that is new.
LEMMA FreshIs == Stream!Fresh \in Buffer /\ Stream!Fresh.bytes = <<>> /\ Stream!Fresh.off = 0 /\ Len(Stream!Fresh.bytes) = 0
<1>1. Stream!Fresh = [off |-> 0, bytes |-> <<>>] /\ <<>> \in Seq(Nat)
  BY DEF Stream!Fresh
<1> QED BY <1>1 DEF Buffer

\* ustream_add_buf: the buffer is behind data_tail, or is the first.
LEMMA AddBufIs ==
    ASSUME Stream!UstreamAssumption, NEW l, GoodList(l)
    PROVE  LET a == Stream!AddBuf(l) IN
           /\ GoodList(a) /\ Whole(a.bufs) = Whole(l.bufs) /\ a.count = l.count
           /\ a.bufs = Append(l.bufs, Stream!Fresh) /\ a.n = l.n + 1 /\ a.dt = IF l.dt = 0 THEN 1 ELSE l.dt
<1> DEFINE a == Stream!AddBuf(l)
<1> USE StrConst
<1>1. /\ l \in BufferList /\ l.bufs \in Seq(Buffer) /\ Len(l.bufs) \in Nat /\ l.dt \in Nat /\ l.n \in Nat
      /\ l.count \in Nat /\ Pointed(l) /\ Filled(l)
  BY ListParts DEF GoodList
<1>2. /\ a.bufs = Append(l.bufs, Stream!Fresh) /\ a.n = l.n + 1 /\ a.count = l.count
      /\ a.dt = IF l.dt = 0 THEN 1 ELSE l.dt
  BY <1>1 DEF Stream!AddBuf, BufferList
<1>3. a.bufs \in Seq(Buffer) /\ Whole(a.bufs) = Whole(l.bufs)
  BY <1>1, <1>2, FreshIs, WholeAdd
<1>4. /\ Len(a.bufs) = Len(l.bufs) + 1 /\ a.bufs[Len(l.bufs) + 1] = Stream!Fresh
      /\ \A i \in 1 .. Len(l.bufs) : a.bufs[i] = l.bufs[i]
  BY <1>1, <1>2, FreshIs
<1>5. a \in BufferList
  <2>1. a = [l EXCEPT !.bufs = Append(@, Stream!Fresh), !.n = @ + 1, !.dt = IF @ = 0 THEN 1 ELSE @]
    BY DEF Stream!AddBuf
  <2> DEFINE B == a.bufs
             d == a.dt
             n == a.n
  <2>2. B \in Seq(Buffer) /\ d \in Nat /\ n \in Nat
    BY <1>1, <1>2, <1>3
  <2>3. a = [l EXCEPT !.bufs = B, !.n = n, !.dt = d]
    BY <1>1, <1>2, <2>1 DEF BufferList
  <2> HIDE DEF B, d, n, a
  <2> QED BY <1>1, <2>2, <2>3 DEF BufferList
<1> HIDE DEF a
<1>6. Pointed(a)
  BY <1>1, <1>2, <1>4 DEF Pointed
<1>7. Filled(a)
  <2>1. ASSUME NEW i \in 1 .. Len(a.bufs)
        PROVE  a.bufs[i].off + Len(a.bufs[i].bytes) <= StreamBuf /\ (a.bufs[i].bytes = <<>> => a.bufs[i].off = 0)
    <3>1. i \in 1 .. Len(l.bufs) \/ i = Len(l.bufs) + 1
      BY <1>1, <1>4
    <3>2. CASE i \in 1 .. Len(l.bufs)
      BY <1>1, <1>4, <3>2 DEF Filled
    <3>3. CASE i = Len(l.bufs) + 1
      BY <1>4, <3>3, FreshIs
    <3> QED BY <3>1, <3>2, <3>3
  <2>2. ASSUME NEW i \in a.dt + 1 .. Len(a.bufs) PROVE a.bufs[i].bytes = <<>>
    <3>1. i \in l.dt + 1 .. Len(l.bufs) \/ i = Len(l.bufs) + 1
      BY <1>1, <1>2, <1>4
    <3>2. i \in l.dt + 1 .. Len(l.bufs) => i \in 1 .. Len(l.bufs)
      BY <1>1
    <3> QED BY <1>1, <1>4, <3>1, <3>2, FreshIs DEF Filled
  <2>3. ASSUME NEW i \in 1 .. a.dt - 1 PROVE a.bufs[i].bytes # <<>>
    <3>1. i \in 1 .. l.dt - 1 /\ i \in 1 .. Len(l.bufs)
      BY <1>1, <1>2 DEF Pointed
    <3> QED BY <1>1, <1>4, <3>1 DEF Filled
  <2> QED BY <2>1, <2>2, <2>3 DEF Filled
<1>8. GoodList(a)
  BY <1>2, <1>3, <1>5, <1>6, <1>7 DEF GoodList
<1> QED BY <1>2, <1>3, <1>8 DEF a

\* ustream_should_move: the data of a buffer is moved to its front.
LEMMA MovedIs ==
    ASSUME Stream!UstreamAssumption, NEW l, GoodList(l), NEW side, NEW len
    PROVE  LET m == Stream!Moved(side, l, len) IN
           /\ GoodList(m) /\ Whole(m.bufs) = Whole(l.bufs) /\ m.count = l.count /\ m.n = l.n /\ m.dt = l.dt
<1> DEFINE m == Stream!Moved(side, l, len)
<1> USE StrConst
<1>1. CASE m = l
  BY <1>1
<1>2. CASE l.dt # 0 /\ m = [l EXCEPT !.bufs[l.dt].off = 0]
  <2>1. /\ l \in BufferList /\ l.bufs \in Seq(Buffer) /\ Len(l.bufs) \in Nat /\ l.dt \in Nat /\ l.n \in Nat
        /\ l.count \in Nat /\ Pointed(l) /\ Filled(l)
    BY ListParts DEF GoodList
  <2>2. l.dt \in 1 .. Len(l.bufs)
    BY <1>2, <2>1 DEF Pointed
  <2>3. l.bufs[l.dt] \in Buffer /\ l.bufs[l.dt].bytes \in Seq(Nat) /\ l.bufs[l.dt].off \in Nat
    BY <2>1, <2>2, BufferIs
  <2> DEFINE b == [l.bufs[l.dt] EXCEPT !.off = 0]
             B == [l.bufs EXCEPT ![l.dt] = b]
  <2>4. b \in Buffer /\ b.bytes = l.bufs[l.dt].bytes /\ b.off = 0
    BY <2>3 DEF Buffer
  <2>5. m = [l EXCEPT !.bufs = B]
    BY <1>2
  <2> HIDE DEF b
  <2>6. B \in Seq(Buffer) /\ Len(B) = Len(l.bufs) /\ \A i \in 1 .. Len(l.bufs) : B[i] = IF i = l.dt THEN b ELSE l.bufs[i]
    BY <2>1, <2>2, <2>4
  <2> HIDE DEF B, m
  <2>7. m \in BufferList /\ m.bufs = B /\ m.dt = l.dt /\ m.n = l.n /\ m.count = l.count
    BY <2>1, <2>5, <2>6 DEF BufferList
  <2>8. \A i \in 1 .. Len(l.bufs) : m.bufs[i].bytes = l.bufs[i].bytes /\ m.bufs[i].off = IF i = l.dt THEN 0 ELSE l.bufs[i].off
    BY <2>4, <2>6, <2>7
  <2>9. Whole(m.bufs) = Whole(l.bufs)
    BY <2>1, <2>6, <2>7, <2>8, WholeSame
  <2>10. Pointed(m)
    BY <2>1, <2>6, <2>7 DEF Pointed
  <2>11. Filled(m)
    <3>1. ASSUME NEW i \in 1 .. Len(m.bufs)
          PROVE  m.bufs[i].off + Len(m.bufs[i].bytes) <= StreamBuf /\ (m.bufs[i].bytes = <<>> => m.bufs[i].off = 0)
      <4>1. /\ i \in 1 .. Len(l.bufs) /\ l.bufs[i].off + Len(l.bufs[i].bytes) <= StreamBuf
            /\ (l.bufs[i].bytes = <<>> => l.bufs[i].off = 0) /\ l.bufs[i].off \in Nat /\ l.bufs[i].bytes \in Seq(Nat)
        BY <2>1, <2>6, <2>7, BufferIs DEF Filled
      <4>2. Len(l.bufs[i].bytes) \in Nat
        BY <4>1
      <4>3. m.bufs[i].bytes = l.bufs[i].bytes /\ (m.bufs[i].off = 0 \/ m.bufs[i].off = l.bufs[i].off)
        BY <2>8, <4>1
      <4>4. CASE m.bufs[i].off = 0
        <5>1. Len(l.bufs[i].bytes) <= StreamBuf
          BY <4>1, <4>2
        <5> QED BY <4>2, <4>3, <4>4, <5>1
      <4>5. CASE m.bufs[i].off = l.bufs[i].off
        BY <4>1, <4>3, <4>5
      <4> QED BY <4>3, <4>4, <4>5
    <3>2. ASSUME NEW i \in m.dt + 1 .. Len(m.bufs) PROVE m.bufs[i].bytes = <<>>
      <4>1. i \in l.dt + 1 .. Len(l.bufs) /\ i \in 1 .. Len(l.bufs)
        BY <2>1, <2>6, <2>7
      <4> QED BY <2>1, <2>8, <4>1 DEF Filled
    <3>3. ASSUME NEW i \in 1 .. m.dt - 1 PROVE m.bufs[i].bytes # <<>>
      <4>1. i \in 1 .. l.dt - 1 /\ i \in 1 .. Len(l.bufs)
        BY <2>1, <2>2, <2>7
      <4> QED BY <2>1, <2>8, <4>1 DEF Filled
    <3> QED BY <3>1, <3>2, <3>3 DEF Filled
  <2>12. GoodList(m)
    BY <2>7, <2>9, <2>10, <2>11 DEF GoodList
  <2> QED BY <2>7, <2>9, <2>12 DEF m
<1> QED BY <1>1, <1>2 DEF Stream!Moved

\* A buffer that is full holds something: data_tail may go on to the next.
LEMMA RoomOn ==
    ASSUME Stream!UstreamAssumption, NEW l, GoodList(l), l.dt # Len(l.bufs),
           l.dt # 0 => l.bufs[l.dt].bytes # <<>>
    PROVE  LET a == [l EXCEPT !.dt = l.dt + 1] IN
           /\ GoodList(a) /\ a.bufs = l.bufs /\ a.count = l.count /\ a.n = l.n /\ a.dt = l.dt + 1
           /\ a.dt \in 1 .. Len(a.bufs) /\ Stream!Room(a.bufs[a.dt]) = StreamBuf
<1> DEFINE a == [l EXCEPT !.dt = l.dt + 1]
<1> USE StrConst
<1>1. /\ l \in BufferList /\ l.bufs \in Seq(Buffer) /\ Len(l.bufs) \in Nat /\ l.dt \in Nat /\ l.n \in Nat
      /\ l.count \in Nat /\ Pointed(l) /\ Filled(l)
  BY ListParts DEF GoodList
<1>2. a \in BufferList /\ a.bufs = l.bufs /\ a.dt = l.dt + 1 /\ a.n = l.n /\ a.count = l.count
  BY <1>1 DEF BufferList
<1> HIDE DEF a
<1>3. l.dt < Len(l.bufs) /\ a.dt \in 1 .. Len(a.bufs)
  BY <1>1, <1>2 DEF Pointed
<1>4. Pointed(a)
  BY <1>1, <1>2, <1>3 DEF Pointed
<1>5. Filled(a)
  <2>1. \A i \in 1 .. Len(a.bufs) : /\ a.bufs[i].off + Len(a.bufs[i].bytes) <= StreamBuf
                                    /\ a.bufs[i].bytes = <<>> => a.bufs[i].off = 0
    BY <1>1, <1>2 DEF Filled
  <2>2. ASSUME NEW i \in a.dt + 1 .. Len(a.bufs) PROVE a.bufs[i].bytes = <<>>
    <3>1. i \in l.dt + 1 .. Len(l.bufs)
      BY <1>1, <1>2
    <3> QED BY <1>1, <1>2, <3>1 DEF Filled
  <2>3. ASSUME NEW i \in 1 .. a.dt - 1 PROVE a.bufs[i].bytes # <<>>
    <3>1. i \in 1 .. l.dt - 1 \/ (i = l.dt /\ l.dt # 0)
      BY <1>1, <1>2
    <3> QED BY <1>1, <1>2, <3>1 DEF Filled
  <2> QED BY <2>1, <2>2, <2>3 DEF Filled
<1>6. Stream!Room(a.bufs[a.dt]) = StreamBuf
  <2>1. a.dt \in l.dt + 1 .. Len(l.bufs) /\ a.dt \in 1 .. Len(l.bufs)
    BY <1>1, <1>2, <1>3
  <2>2. l.bufs[a.dt].bytes = <<>> /\ l.bufs[a.dt].off = 0
    BY <1>1, <2>1 DEF Filled
  <2>3. Len(l.bufs[a.dt].bytes) = 0
    BY <2>2
  <2> QED BY <1>2, <2>2, <2>3 DEF Stream!Room, Stream!Tail_
<1>7. GoodList(a)
  BY <1>1, <1>2, <1>4, <1>5 DEF GoodList
<1> QED BY <1>2, <1>3, <1>6, <1>7 DEF a

\* ustream_prepare_buf: a list with room behind the last byte.
LEMMA PreparedIs ==
    ASSUME Stream!UstreamAssumption, NEW l, GoodList(l), NEW side \in {"r", "w"}, NEW len
    PROVE  LET p == Stream!Prepared(side, l, len) IN
           /\ side = "w" => p.ok
           /\ p.ok => /\ GoodList(p.l) /\ Whole(p.l.bufs) = Whole(l.bufs) /\ p.l.count = l.count
                      /\ p.l.dt \in 1 .. Len(p.l.bufs) /\ Stream!Room(p.l.bufs[p.l.dt]) \in Nat \ {0}
                      /\ side = "r" /\ l.n <= 1 => p.l.n <= 1
<1> DEFINE p == Stream!Prepared(side, l, len)
           m == Stream!Moved(side, l, len)
<1> USE StrConst
<1>1. /\ GoodList(m) /\ Whole(m.bufs) = Whole(l.bufs) /\ m.count = l.count /\ m.n = l.n
  BY MovedIs
<1>2. p = IF m.dt # 0 /\ Stream!Room(m.bufs[m.dt]) # 0 THEN [ok |-> TRUE, l |-> m]
          ELSE IF m.dt # 0 /\ m.dt < Len(m.bufs) THEN [ok |-> TRUE, l |-> [m EXCEPT !.dt = m.dt + 1]]
          ELSE IF Stream!CanAlloc(side, m) THEN [ok |-> TRUE, l |-> [Stream!AddBuf(m) EXCEPT !.dt = Len(m.bufs) + 1]]
          ELSE [ok |-> FALSE, l |-> m]
  BY DEF Stream!Prepared
<1> HIDE DEF m, p
<1>3. /\ m \in BufferList /\ m.bufs \in Seq(Buffer) /\ Len(m.bufs) \in Nat /\ m.dt \in Nat /\ m.n \in Nat
      /\ m.count \in Nat /\ Pointed(m) /\ Filled(m)
  BY <1>1, ListParts DEF GoodList
<1>4. m.dt # 0 => m.dt \in 1 .. Len(m.bufs) /\ Stream!Room(m.bufs[m.dt]) \in Nat
  <2> HAVE m.dt # 0
  <2>1. m.dt \in 1 .. Len(m.bufs)
    BY <1>3 DEF Pointed
  <2>2. /\ m.bufs[m.dt].off \in Nat /\ m.bufs[m.dt].bytes \in Seq(Nat)
        /\ m.bufs[m.dt].off + Len(m.bufs[m.dt].bytes) <= StreamBuf
    BY <1>3, <2>1, BufferIs DEF Filled
  <2>3. Len(m.bufs[m.dt].bytes) \in Nat
    BY <2>2
  <2> DEFINE o == m.bufs[m.dt].off
             k == Len(m.bufs[m.dt].bytes)
  <2>4. Stream!Room(m.bufs[m.dt]) = StreamBuf - (o + k)
    BY DEF Stream!Room, Stream!Tail_
  <2>5. o \in Nat /\ k \in Nat /\ o + k <= StreamBuf /\ StreamBuf \in Nat
    BY <2>2, <2>3, StrConst
  <2> HIDE DEF o, k
  <2>6. StreamBuf - (o + k) \in Nat
    BY <2>5
  <2> QED BY <2>1, <2>4, <2>6
<1>5. m.dt # 0 /\ Stream!Room(m.bufs[m.dt]) = 0 => m.bufs[m.dt].bytes # <<>>
  <2> SUFFICES ASSUME m.dt # 0, Stream!Room(m.bufs[m.dt]) = 0, m.bufs[m.dt].bytes = <<>> PROVE FALSE
    OBVIOUS
  <2>1. m.bufs[m.dt].off = 0 /\ Len(m.bufs[m.dt].bytes) = 0
    BY <1>3, <1>4 DEF Filled
  <2> QED BY <2>1 DEF Stream!Room, Stream!Tail_
<1>6. CASE m.dt # 0 /\ Stream!Room(m.bufs[m.dt]) # 0
  <2>1. p.ok = TRUE /\ p.l = m
    BY <1>2, <1>6
  <2> QED BY <1>1, <1>4, <1>6, <2>1 DEF p
<1>7. CASE m.dt # 0 /\ Stream!Room(m.bufs[m.dt]) = 0 /\ m.dt < Len(m.bufs)
  <2> DEFINE a == [m EXCEPT !.dt = m.dt + 1]
  <2>1. p.ok = TRUE /\ p.l = a
    BY <1>2, <1>7
  <2>2. /\ GoodList(a) /\ a.bufs = m.bufs /\ a.count = m.count /\ a.n = m.n /\ a.dt = m.dt + 1
        /\ a.dt \in 1 .. Len(a.bufs) /\ Stream!Room(a.bufs[a.dt]) = StreamBuf
    <3>1. m.dt # Len(m.bufs)
      BY <1>3, <1>7
    <3> QED BY <1>1, <1>5, <1>7, <3>1, RoomOn
  <2> HIDE DEF a
  <2> QED BY <1>1, <2>1, <2>2 DEF p
<1>8. CASE ~(m.dt # 0 /\ Stream!Room(m.bufs[m.dt]) # 0) /\ ~(m.dt # 0 /\ m.dt < Len(m.bufs)) /\ Stream!CanAlloc(side, m)
  <2> DEFINE b == Stream!AddBuf(m)
             a == [b EXCEPT !.dt = b.dt + 1]
             c == [b EXCEPT !.dt = Len(m.bufs) + 1]
  <2>1. p.ok = TRUE /\ p.l = c
    BY <1>2, <1>8
  <2>2. /\ GoodList(b) /\ Whole(b.bufs) = Whole(m.bufs) /\ b.count = m.count
        /\ b.bufs = Append(m.bufs, Stream!Fresh) /\ b.n = m.n + 1 /\ b.dt = IF m.dt = 0 THEN 1 ELSE m.dt
    BY <1>1, AddBufIs
  <2>3. m.dt = Len(m.bufs)
    BY <1>3, <1>8 DEF Pointed
  <2>4. side = "r" /\ l.n <= 1 => b.n <= 1
    BY <1>1, <1>3, <1>8, <2>2 DEF Stream!CanAlloc, Stream!Limit
  <2>5. Len(b.bufs) = Len(m.bufs) + 1 /\ b.bufs[Len(m.bufs) + 1] = Stream!Fresh /\ \A i \in 1 .. Len(m.bufs) : b.bufs[i] = m.bufs[i]
    BY <1>3, <2>2, FreshIs
  <2>6. b \in BufferList /\ b.dt \in Nat
    BY <2>2, ListParts DEF GoodList
  <2> HIDE DEF b
  <2>7. CASE m.dt # 0
    <3>1. b.dt = Len(m.bufs) /\ b.dt # Len(b.bufs) /\ b.dt # 0 /\ b.bufs[b.dt].bytes # <<>>
      BY <1>3, <1>4, <1>5, <1>8, <2>2, <2>3, <2>5, <2>7
    <3>2. c = a
      BY <3>1
    <3>3. /\ GoodList(a) /\ a.bufs = b.bufs /\ a.count = b.count /\ a.n = b.n
          /\ a.dt \in 1 .. Len(a.bufs) /\ Stream!Room(a.bufs[a.dt]) = StreamBuf
      BY <2>2, <3>1, RoomOn
    <3> HIDE DEF a, c
    <3> QED BY <1>1, <2>1, <2>2, <2>4, <3>2, <3>3 DEF p
  <2>8. CASE m.dt = 0
    <3>1. b.dt = 1 /\ Len(m.bufs) + 1 = 1 /\ b.dt \in 1 .. Len(b.bufs) /\ b.bufs[1] = Stream!Fresh
      BY <1>3, <2>2, <2>3, <2>5, <2>8
    <3>2. c = b
      <4>1. b = [bufs |-> b.bufs, dt |-> b.dt, n |-> b.n, count |-> b.count]
        BY <2>6 DEF BufferList
      <4>2. c = [b EXCEPT !.dt = b.dt]
        BY <3>1
      <4> QED BY <4>1, <4>2
    <3>3. Stream!Room(b.bufs[b.dt]) = StreamBuf
      BY <3>1, FreshIs DEF Stream!Room, Stream!Tail_
    <3> HIDE DEF a, c
    <3>4. p.ok /\ p.l = b
      BY <2>1, <3>2
    <3>5. /\ GoodList(p.l) /\ Whole(p.l.bufs) = Whole(l.bufs) /\ p.l.count = l.count
          /\ p.l.dt \in 1 .. Len(p.l.bufs) /\ Stream!Room(p.l.bufs[p.l.dt]) = StreamBuf
      BY <1>1, <2>2, <3>1, <3>3, <3>4
    <3>6. Stream!Room(p.l.bufs[p.l.dt]) \in Nat \ {0}
      BY <3>5
    <3> QED BY <2>4, <3>4, <3>5, <3>6 DEF p
  <2> QED BY <2>7, <2>8
<1>9. CASE ~(m.dt # 0 /\ Stream!Room(m.bufs[m.dt]) # 0) /\ ~(m.dt # 0 /\ m.dt < Len(m.bufs)) /\ ~Stream!CanAlloc(side, m)
  <2>1. p.ok = FALSE
    BY <1>2, <1>9
  <2>2. side # "w"
    BY <1>9 DEF Stream!CanAlloc, Stream!Limit
  <2> QED BY <2>1, <2>2 DEF p
<1> QED BY <1>6, <1>7, <1>8, <1>9

\* One buffer of a list is given other contents.
LEMMA Rebuilt ==
    ASSUME NEW l, GoodList(l), NEW d \in 1 .. Len(l.bufs), NEW b \in Buffer, NEW c \in Nat,
           b.off + Len(b.bytes) <= StreamBuf, b.bytes = <<>> => b.off = 0,
           d > l.dt => b.bytes = <<>>, d < l.dt => b.bytes # <<>>,
           NEW a, a = [bufs |-> [l.bufs EXCEPT ![d] = b], dt |-> l.dt, n |-> l.n, count |-> c],
           c = Len(Whole(a.bufs))
    PROVE  GoodList(a)
<1>1. /\ l \in BufferList /\ l.bufs \in Seq(Buffer) /\ Len(l.bufs) \in Nat /\ l.dt \in Nat /\ l.n \in Nat
      /\ l.count \in Nat /\ Pointed(l) /\ Filled(l)
  BY ListParts DEF GoodList
<1>2. a.bufs = [l.bufs EXCEPT ![d] = b] /\ a.dt = l.dt /\ a.n = l.n /\ a.count = c
  OBVIOUS
<1>3. /\ a.bufs \in Seq(Buffer) /\ Len(a.bufs) = Len(l.bufs)
      /\ \A i \in 1 .. Len(l.bufs) : a.bufs[i] = IF i = d THEN b ELSE l.bufs[i]
  BY <1>1, <1>2
<1>4. a \in BufferList
  BY <1>1, <1>2, <1>3 DEF BufferList
<1>5. Pointed(a)
  BY <1>1, <1>2, <1>3 DEF Pointed
<1>6. Filled(a)
  <2>1. ASSUME NEW i \in 1 .. Len(a.bufs)
        PROVE  a.bufs[i].off + Len(a.bufs[i].bytes) <= StreamBuf /\ (a.bufs[i].bytes = <<>> => a.bufs[i].off = 0)
    <3>1. i \in 1 .. Len(l.bufs)
      BY <1>3
    <3>2. CASE i = d
      BY <1>3, <3>1, <3>2
    <3>3. CASE i # d
      BY <1>1, <1>3, <3>1, <3>3 DEF Filled
    <3> QED BY <3>2, <3>3
  <2>2. ASSUME NEW i \in a.dt + 1 .. Len(a.bufs) PROVE a.bufs[i].bytes = <<>>
    <3>1. i \in l.dt + 1 .. Len(l.bufs) /\ i \in 1 .. Len(l.bufs) /\ i > l.dt
      BY <1>1, <1>2, <1>3
    <3>2. CASE i = d
      BY <1>3, <3>1, <3>2
    <3>3. CASE i # d
      BY <1>1, <1>3, <3>1, <3>3 DEF Filled
    <3> QED BY <3>2, <3>3
  <2>3. ASSUME NEW i \in 1 .. a.dt - 1 PROVE a.bufs[i].bytes # <<>>
    <3>1. i \in 1 .. l.dt - 1 /\ i \in 1 .. Len(l.bufs) /\ i < l.dt
      BY <1>1, <1>2, <1>3 DEF Pointed
    <3>2. CASE i = d
      BY <1>3, <3>1, <3>2
    <3>3. CASE i # d
      BY <1>1, <1>3, <3>1, <3>3 DEF Filled
    <3> QED BY <3>2, <3>3
  <2> QED BY <2>1, <2>2, <2>3 DEF Filled
<1> QED BY <1>2, <1>4, <1>5, <1>6 DEF GoodList

\* Bytes are put into the buffer of data_tail.
LEMMA PutIs ==
    ASSUME Stream!UstreamAssumption, NEW l, GoodList(l), l.dt \in 1 .. Len(l.bufs),
           NEW x \in Seq(Nat), Len(x) <= Stream!Room(l.bufs[l.dt])
    PROVE  LET a == Stream!Put(l, x) IN GoodList(a) /\ Whole(a.bufs) = Whole(l.bufs) \o x /\ a.n = l.n
<1> DEFINE a == Stream!Put(l, x)
           d == l.dt
           o == l.bufs[d]
           b == [off |-> o.off, bytes |-> o.bytes \o x]
           c == l.count + Len(x)
<1>1. /\ l \in BufferList /\ l.bufs \in Seq(Buffer) /\ Len(l.bufs) \in Nat /\ l.dt \in Nat /\ l.n \in Nat
      /\ l.count \in Nat /\ Pointed(l) /\ Filled(l) /\ l.count = Len(Whole(l.bufs))
  BY ListParts DEF GoodList
<1>2. o \in Buffer /\ o.bytes \in Seq(Nat) /\ o.off \in Nat /\ (o.bytes = <<>> => o.off = 0)
  BY <1>1, BufferIs DEF Filled
<1>3. b.bytes \in Seq(Nat) /\ Len(b.bytes) = Len(o.bytes) + Len(x) /\ Len(o.bytes) \in Nat /\ Len(x) \in Nat
  BY <1>2
<1>4. b \in Buffer /\ b.off = o.off /\ b.bytes = o.bytes \o x
  BY <1>2, <1>3 DEF Buffer
<1>5. b.off + Len(b.bytes) <= StreamBuf
  <2> DEFINE p == o.off
             q == Len(o.bytes)
             e == Len(x)
  <2>1. e <= StreamBuf - (p + q)
    BY DEF Stream!Room, Stream!Tail_
  <2>2. p \in Nat /\ q \in Nat /\ e \in Nat /\ StreamBuf \in Nat
    BY <1>2, <1>3, StrConst
  <2>3. b.off + Len(b.bytes) = p + (q + e)
    BY <1>3
  <2> HIDE DEF p, q, e, b
  <2> QED BY <2>1, <2>2, <2>3
<1>6. b.bytes = <<>> => b.off = 0
  <2> HAVE b.bytes = <<>>
  <2>1. Len(o.bytes) = 0
    BY <1>3
  <2> QED BY <1>2, <2>1
<1>7. a = [bufs |-> [l.bufs EXCEPT ![d] = b], dt |-> l.dt, n |-> l.n, count |-> c]
  <2>1. l = [bufs |-> l.bufs, dt |-> l.dt, n |-> l.n, count |-> l.count]
    BY <1>1 DEF BufferList
  <2>2. [o EXCEPT !.bytes = o.bytes \o x] = b
    <3>1. o = [off |-> o.off, bytes |-> o.bytes]
      BY <1>2 DEF Buffer
    <3> DEFINE y == o.bytes \o x
    <3> HIDE DEF y, o
    <3>2. [o EXCEPT !.bytes = y] = [off |-> o.off, bytes |-> y]
      BY <3>1
    <3> QED BY <3>2 DEF y
  <2>3. a = [l EXCEPT !.bufs = [l.bufs EXCEPT ![d] = [o EXCEPT !.bytes = o.bytes \o x]], !.count = c]
    BY DEF Stream!Put
  <2> HIDE DEF a, b, c, o, d
  <2> QED BY <2>1, <2>2, <2>3
<1> HIDE DEF a, b
<1>8. /\ a.bufs = [l.bufs EXCEPT ![d] = b] /\ a.n = l.n /\ a.bufs \in Seq(Buffer) /\ Len(a.bufs) = Len(l.bufs)
      /\ \A i \in 1 .. Len(l.bufs) : a.bufs[i] = IF i = d THEN b ELSE l.bufs[i]
  BY <1>1, <1>4, <1>7
<1>9. Whole(a.bufs) = Whole(l.bufs) \o x
  <2>1. \A i \in d + 1 .. Len(l.bufs) : l.bufs[i].bytes = <<>>
    BY <1>1 DEF Filled
  <2>2. \A i \in 1 .. Len(l.bufs) : i # d => a.bufs[i].bytes = l.bufs[i].bytes
    BY <1>8
  <2>3. a.bufs[d].bytes = l.bufs[d].bytes \o x
    <3>1. a.bufs[d] = b
      BY <1>8
    <3> QED BY <1>4, <3>1
  <2>4. d \in 1 .. Len(l.bufs)
    OBVIOUS
  <2> DEFINE B == l.bufs
             C == a.bufs
  <2>5. B \in Seq(Buffer) /\ C \in Seq(Buffer) /\ Len(C) = Len(B) /\ d \in 1 .. Len(B)
    BY <1>1, <1>8, <2>4
  <2>6. /\ \A i \in d + 1 .. Len(B) : B[i].bytes = <<>>
        /\ \A i \in 1 .. Len(B) : i # d => C[i].bytes = B[i].bytes
        /\ C[d].bytes = B[d].bytes \o x
    BY <2>1, <2>2, <2>3
  <2> HIDE DEF d, B, C
  <2>7. Whole(C) = Whole(B) \o x
    BY <2>5, <2>6, WholePut
  <2> QED BY <2>7 DEF B, C
<1>10. c \in Nat /\ c = Len(Whole(a.bufs))
  <2>1. Whole(l.bufs) \in Seq(Nat)
    BY <1>1, WholeSeq
  <2>2. Len(Whole(l.bufs) \o x) = Len(Whole(l.bufs)) + Len(x)
    BY <2>1
  <2> QED BY <1>1, <1>3, <1>9, <2>2
<1>11. GoodList(a)
  <2>1. d \in 1 .. Len(l.bufs) /\ ~(d > l.dt) /\ ~(d < l.dt)
    BY <1>1
  <2>2. d > l.dt => b.bytes = <<>>
    BY <2>1
  <2>3. d < l.dt => b.bytes # <<>>
    BY <2>1
  <2> HIDE DEF c, d, o
  <2> QED BY <1>4, <1>5, <1>6, <1>7, <1>10, <2>1, <2>2, <2>3, Rebuilt
<1> QED BY <1>8, <1>9, <1>11 DEF a

\* A sequence is its beginning and the rest.
LEMMA TakeFrom ==
    ASSUME NEW x \in Seq(Nat), NEW n \in 0 .. Len(x)
    PROVE  /\ Stream!Take(x, n) \in Seq(Nat) /\ Len(Stream!Take(x, n)) = n
           /\ Stream!From(x, n) \in Seq(Nat) /\ Len(Stream!From(x, n)) = Len(x) - n
           /\ Stream!Take(x, n) \o Stream!From(x, n) = x
<1>1. n \in Nat /\ Len(x) \in Nat /\ n <= Len(x)
  OBVIOUS
<1> DEFINE a == SubSeq(x, 1, n)
           b == SubSeq(x, n + 1, Len(x))
<1>2. a \in Seq(Nat) /\ Len(a) = n /\ \A i \in 1 .. n : a[i] = x[i]
  BY <1>1
<1>3. b \in Seq(Nat) /\ Len(b) = Len(x) - n /\ \A i \in 1 .. Len(x) - n : b[i] = x[n + i]
  BY <1>1
<1> HIDE DEF a, b
<1>4. /\ a \o b \in Seq(Nat) /\ Len(a \o b) = Len(x)
      /\ \A i \in 1 .. Len(x) : (a \o b)[i] = IF i <= n THEN a[i] ELSE b[i - n]
  <2>1. n + (Len(x) - n) = Len(x)
    BY <1>1
  <2> QED BY <1>2, <1>3, <2>1, ByteJoin, SMTT(30)
<1>5. ASSUME NEW i \in 1 .. Len(x) PROVE (a \o b)[i] = x[i]
  <2>1. CASE i <= n
    <3>1. i \in 1 .. n /\ i \in 1 .. Len(a)
      BY <1>1, <1>2, <2>1
    <3>2. (a \o b)[i] = a[i]
      BY <1>4, <2>1
    <3> QED BY <1>2, <3>1, <3>2
  <2>2. CASE ~(i <= n)
    <3>1. i - n \in 1 .. Len(x) - n /\ n + (i - n) = i
      BY <1>1, <2>2
    <3>2. (a \o b)[i] = b[i - n]
      BY <1>4, <2>2
    <3> QED BY <1>3, <3>1, <3>2
  <2> QED BY <2>1, <2>2
<1>6. a \o b = x
  BY <1>4, <1>5, SeqEqual
<1> QED BY <1>2, <1>3, <1>6 DEF Stream!Take, Stream!From, a, b

\* A part of the first buffer is skipped.
LEMMA SkippedIs ==
    ASSUME Stream!UstreamAssumption, NEW l, GoodList(l), l.bufs # <<>>,
           NEW t \in Nat, t < Len(l.bufs[1].bytes), NEW a,
           a = [bufs |-> [l.bufs EXCEPT ![1] = [off |-> l.bufs[1].off + t, bytes |-> Stream!From(l.bufs[1].bytes, t)]],
                dt |-> l.dt, n |-> l.n, count |-> l.count - t]
    PROVE  GoodList(a) /\ Stream!Take(l.bufs[1].bytes, t) \o Whole(a.bufs) = Whole(l.bufs)
<1> DEFINE o == l.bufs[1]
           y == Stream!From(o.bytes, t)
           x == Stream!Take(o.bytes, t)
           b == [off |-> o.off + t, bytes |-> y]
<1>1. /\ l \in BufferList /\ l.bufs \in Seq(Buffer) /\ Len(l.bufs) \in Nat /\ l.dt \in Nat /\ l.n \in Nat
      /\ l.count \in Nat /\ Pointed(l) /\ Filled(l) /\ l.count = Len(Whole(l.bufs))
  BY ListParts DEF GoodList
<1>2. Len(l.bufs) > 0 /\ 1 \in 1 .. Len(l.bufs)
  BY <1>1
<1>3. /\ o.bytes \in Seq(Nat) /\ Len(o.bytes) \in Nat /\ o.off \in Nat /\ o.off + Len(o.bytes) <= StreamBuf
      /\ StreamBuf \in Nat
  <2>1. o.bytes \in Seq(Nat) /\ o.off \in Nat
    BY <1>1, <1>2, BufferIs
  <2>2. Len(o.bytes) \in Nat
    BY <2>1
  <2>3. o.off + Len(o.bytes) <= StreamBuf
    BY <1>1, <1>2 DEF Filled
  <2> QED BY <2>1, <2>2, <2>3, StrConst
<1>4. /\ x \in Seq(Nat) /\ Len(x) = t /\ y \in Seq(Nat) /\ Len(y) = Len(o.bytes) - t /\ x \o y = o.bytes
  <2>1. t \in 0 .. Len(o.bytes)
    BY <1>3
  <2> HIDE DEF o
  <2> QED BY <1>3, <2>1, TakeFrom
<1> HIDE DEF x, y
<1>5. b \in Buffer /\ b.off = o.off + t /\ b.bytes = y
  <2> DEFINE e == o.off + t
  <2>1. e \in Nat
    BY <1>3
  <2> HIDE DEF e
  <2>2. [off |-> e, bytes |-> y] \in Buffer
    BY <1>4, <2>1 DEF Buffer
  <2> QED BY <2>2 DEF e
<1>6. b.off + Len(b.bytes) <= StreamBuf /\ b.bytes # <<>>
  <2>1. y # <<>>
    <3>1. Len(y) > 0
      BY <1>3, <1>4
    <3> QED BY <3>1
  <2> DEFINE p == o.off
             q == Len(o.bytes)
  <2>2. p \in Nat /\ q \in Nat /\ p + q <= StreamBuf /\ StreamBuf \in Nat /\ b.off = p + t /\ Len(b.bytes) = q - t
    BY <1>3, <1>4, <1>5
  <2> HIDE DEF b, p, q
  <2>3. b.off + Len(b.bytes) <= StreamBuf
    BY <2>2
  <2> QED BY <1>5, <2>1, <2>3
<1>7. a.bufs = [l.bufs EXCEPT ![1] = b] /\ a.dt = l.dt /\ a.n = l.n /\ a.count = l.count - t
  BY DEF y
<1> HIDE DEF b
<1>8. /\ a.bufs \in Seq(Buffer) /\ Len(a.bufs) = Len(l.bufs) /\ a.bufs[1] = b /\ Tail(a.bufs) = Tail(l.bufs) /\ a.bufs # <<>>
  <2> DEFINE A == [l.bufs EXCEPT ![1] = b]
             B == l.bufs
  <2>1. /\ A \in Seq(Buffer) /\ Len(A) = Len(B) /\ A[1] = b
        /\ \A i \in 1 .. Len(B) : i # 1 => A[i] = B[i]
    BY <1>1, <1>2, <1>5
  <2>2. B \in Seq(Buffer) /\ Len(B) > 0 /\ Len(B) \in Nat
    BY <1>1, <1>2
  <2> HIDE DEF A, B
  <2>3. /\ Tail(A) \in Seq(Buffer) /\ Tail(B) \in Seq(Buffer) /\ Len(Tail(A)) = Len(B) - 1 /\ Len(Tail(B)) = Len(B) - 1
        /\ \A i \in 1 .. Len(B) - 1 : Tail(A)[i] = A[i + 1] /\ Tail(B)[i] = B[i + 1]
    BY <2>1, <2>2
  <2>4. \A i \in 1 .. Len(B) - 1 : i + 1 \in 1 .. Len(B) /\ i + 1 # 1
    BY <2>2
  <2>5. \A i \in 1 .. Len(B) - 1 : Tail(A)[i] = Tail(B)[i]
    BY <2>1, <2>3, <2>4
  <2>6. Tail(A) = Tail(B)
    BY <2>3, <2>5, SeqEqual
  <2>7. A # <<>>
    BY <2>1, <2>2
  <2> QED BY <1>7, <2>1, <2>6, <2>7 DEF A, B
<1>9. /\ Whole(a.bufs) = y \o Whole(Tail(l.bufs)) /\ Whole(l.bufs) = o.bytes \o Whole(Tail(l.bufs))
      /\ Whole(Tail(l.bufs)) \in Seq(Nat)
  BY <1>1, <1>5, <1>8, WholeHead
<1>10. x \o Whole(a.bufs) = Whole(l.bufs)
  <2> DEFINE z == Whole(Tail(l.bufs))
  <2>1. z \in Seq(Nat)
    BY <1>9
  <2> HIDE DEF z
  <2>2. (x \o y) \o z = x \o (y \o z)
    BY <1>4, <2>1, ByteConcat
  <2> QED BY <1>4, <1>9, <2>2 DEF z
<1>11. l.count - t \in Nat /\ l.count - t = Len(Whole(a.bufs))
  <2>1. Whole(a.bufs) \in Seq(Nat)
    BY <1>8, WholeSeq
  <2>2. Len(x \o Whole(a.bufs)) = Len(x) + Len(Whole(a.bufs)) /\ Len(Whole(a.bufs)) \in Nat
    BY <1>4, <2>1, ByteJoin
  <2> DEFINE q == Len(Whole(a.bufs))
  <2>3. q \in Nat /\ l.count = t + q
    BY <1>1, <1>4, <1>10, <2>2
  <2> HIDE DEF q
  <2>4. l.count - t = q
    BY <2>3
  <2> QED BY <2>3, <2>4 DEF q
<1>12. GoodList(a)
  <2> DEFINE c == l.count - t
  <2>1. a = [bufs |-> [l.bufs EXCEPT ![1] = b], dt |-> l.dt, n |-> l.n, count |-> c]
    BY DEF b, y
  <2>2. c \in Nat /\ c = Len(Whole(a.bufs))
    BY <1>11
  <2>3. b.bytes = <<>> => b.off = 0
    BY <1>6
  <2>4. 1 < l.dt => b.bytes # <<>>
    BY <1>6
  <2>5. ~(1 > l.dt)
    BY <1>1, <1>2 DEF Pointed
  <2> HIDE DEF c
  <2> QED BY <1>2, <1>5, <1>6, <2>1, <2>2, <2>3, <2>4, <2>5, Rebuilt
<1> QED BY <1>10, <1>12 DEF x

\* The first buffer leaves the list.
LEMMA HeadGone ==
    ASSUME Stream!UstreamAssumption, NEW g, GoodList(g), g.bufs # <<>>, NEW h,
           h = [bufs |-> Tail(g.bufs), dt |-> IF g.dt > 1 THEN g.dt - 1 ELSE Stream!Smaller(1, Len(g.bufs) - 1),
                n |-> g.n - 1, count |-> g.count - Len(g.bufs[1].bytes)]
    PROVE  GoodList(h)
<1>1. /\ g \in BufferList /\ g.bufs \in Seq(Buffer) /\ Len(g.bufs) \in Nat /\ g.dt \in Nat /\ g.n \in Nat
      /\ g.count \in Nat /\ Pointed(g) /\ Filled(g) /\ g.count = Len(Whole(g.bufs))
  BY ListParts DEF GoodList
<1>2. /\ Tail(g.bufs) \in Seq(Buffer) /\ Len(Tail(g.bufs)) = Len(g.bufs) - 1
      /\ g.bufs[1].bytes \in Seq(Nat) /\ Whole(Tail(g.bufs)) \in Seq(Nat)
      /\ Whole(g.bufs) = g.bufs[1].bytes \o Whole(Tail(g.bufs))
  BY <1>1, WholeHead
<1>3. /\ Len(g.bufs) > 0 /\ \A i \in 1 .. Len(g.bufs) - 1 : Tail(g.bufs)[i] = g.bufs[i + 1]
  BY <1>1
<1>4. /\ h.bufs = Tail(g.bufs) /\ h.n = g.n - 1 /\ h.count = g.count - Len(g.bufs[1].bytes)
      /\ h.dt = IF g.dt > 1 THEN g.dt - 1 ELSE Stream!Smaller(1, Len(g.bufs) - 1)
  OBVIOUS
<1>5. /\ g.n = Len(g.bufs) /\ g.dt \in 1 .. Len(g.bufs) /\ h.n = Len(h.bufs) /\ Len(h.bufs) = Len(g.bufs) - 1
  BY <1>1, <1>2, <1>3, <1>4 DEF Pointed
<1>6. /\ h.dt \in 0 .. h.n /\ (h.n > 0 => h.dt # 0)
      /\ \/ h.dt = g.dt - 1 /\ g.dt > 1
         \/ g.dt = 1 /\ h.dt \in {0, 1}
  <2>1. CASE g.dt > 1
    BY <1>1, <1>4, <1>5, <2>1
  <2>2. CASE ~(g.dt > 1)
    <3>1. g.dt = 1 /\ h.dt = IF 1 < Len(g.bufs) - 1 THEN 1 ELSE Len(g.bufs) - 1
      BY <1>1, <1>4, <1>5, <2>2 DEF Stream!Smaller
    <3> QED BY <1>1, <1>3, <1>5, <3>1
  <2> QED BY <2>1, <2>2
<1>7. h.count \in Nat /\ h.count = Len(Whole(h.bufs))
  <2> DEFINE p == Len(g.bufs[1].bytes)
             q == Len(Whole(Tail(g.bufs)))
  <2>1. p \in Nat /\ q \in Nat /\ g.count = p + q
    BY <1>1, <1>2, ByteJoin
  <2>2. h.count = g.count - p /\ Len(Whole(h.bufs)) = q
    BY <1>4
  <2> DEFINE a == g.count
             b == h.count
  <2>3. p \in Nat /\ q \in Nat /\ a = p + q /\ b = a - p
    BY <2>1, <2>2
  <2> HIDE DEF p, q, a, b
  <2>4. b = q /\ b \in Nat
    BY <2>3
  <2> QED BY <2>2, <2>4 DEF b
<1>8. h \in BufferList
  <2>1. h.bufs \in Seq(Buffer) /\ h.n \in Nat /\ h.dt \in Nat
    BY <1>1, <1>2, <1>3, <1>4, <1>5, <1>6
  <2>2. h = [bufs |-> h.bufs, dt |-> h.dt, n |-> h.n, count |-> h.count]
    BY <1>4
  <2> QED BY <1>7, <2>1, <2>2 DEF BufferList
<1>9. Filled(h)
  <2>0. \A i \in 1 .. Len(h.bufs) : i + 1 \in 1 .. Len(g.bufs) /\ h.bufs[i] = g.bufs[i + 1]
    BY <1>1, <1>3, <1>4, <1>5
  <2>1. ASSUME NEW i \in 1 .. Len(h.bufs)
        PROVE  h.bufs[i].off + Len(h.bufs[i].bytes) <= StreamBuf /\ (h.bufs[i].bytes = <<>> => h.bufs[i].off = 0)
    BY <1>1, <2>0 DEF Filled
  <2>2. ASSUME NEW i \in h.dt + 1 .. Len(h.bufs) PROVE h.bufs[i].bytes = <<>>
    <3>1. i \in 1 .. Len(h.bufs) /\ i + 1 \in g.dt + 1 .. Len(g.bufs)
      BY <1>1, <1>5, <1>6
    <3> QED BY <1>1, <2>0, <3>1 DEF Filled
  <2>3. ASSUME NEW i \in 1 .. h.dt - 1 PROVE h.bufs[i].bytes # <<>>
    <3>1. i \in 1 .. Len(h.bufs) /\ i + 1 \in 1 .. g.dt - 1
      BY <1>1, <1>5, <1>6
    <3> QED BY <1>1, <2>0, <3>1 DEF Filled
  <2> QED BY <2>1, <2>2, <2>3 DEF Filled
<1> QED BY <1>5, <1>6, <1>7, <1>8, <1>9 DEF GoodList, Pointed

\* What ustream_free_buf makes of a list before a buffer comes back.
HeadCut(t) ==
    [t EXCEPT !.bufs = Tail(@), !.n = @ - 1, !.dt = IF @ > 1 THEN @ - 1 ELSE Stream!Smaller(1, Len(t.bufs) - 1)]

\* The list without its first buffer, field by field.
LEMMA HeadExcept ==
    ASSUME NEW B, NEW d, NEW n, NEW c
    PROVE  HeadCut([bufs |-> B, dt |-> d, n |-> n, count |-> c]) =
           [bufs |-> Tail(B), dt |-> IF d > 1 THEN d - 1 ELSE Stream!Smaller(1, Len(B) - 1), n |-> n - 1, count |-> c]
<1> DEFINE t == [bufs |-> B, dt |-> d, n |-> n, count |-> c]
<1>1. t.bufs = B /\ t.dt = d /\ t.n = n
  OBVIOUS
<1>2. [t EXCEPT !.bufs = Tail(@), !.n = @ - 1, !.dt = IF @ > 1 THEN @ - 1 ELSE Stream!Smaller(1, Len(t.bufs) - 1)]
      = [t EXCEPT !.bufs = Tail(t.bufs), !.n = t.n - 1, !.dt = IF t.dt > 1 THEN t.dt - 1 ELSE Stream!Smaller(1, Len(t.bufs) - 1)]
  OBVIOUS
<1> DEFINE T == Tail(B)
           m == n - 1
           e == IF d > 1 THEN d - 1 ELSE Stream!Smaller(1, Len(B) - 1)
<1>3. [t EXCEPT !.bufs = Tail(t.bufs), !.n = t.n - 1, !.dt = IF t.dt > 1 THEN t.dt - 1 ELSE Stream!Smaller(1, Len(t.bufs) - 1)]
      = [t EXCEPT !.bufs = T, !.n = m, !.dt = e]
  BY <1>1
<1> HIDE DEF T, m, e
<1>4. [t EXCEPT !.bufs = T, !.n = m, !.dt = e] = [bufs |-> T, dt |-> e, n |-> m, count |-> c]
  <2> DEFINE u == [bufs |-> T, dt |-> d, n |-> n, count |-> c]
             v == [bufs |-> T, dt |-> d, n |-> m, count |-> c]
             z == [bufs |-> T, dt |-> e, n |-> m, count |-> c]
  <2>1. [t EXCEPT !.bufs = T] = u
    OBVIOUS
  <2>2. [u EXCEPT !.n = m] = v
    OBVIOUS
  <2>3. [v EXCEPT !.dt = e] = z
    OBVIOUS
  <2>4. [t EXCEPT !.bufs = T, !.n = m, !.dt = e] = [[[t EXCEPT !.bufs = T] EXCEPT !.n = m] EXCEPT !.dt = e]
    OBVIOUS
  <2> HIDE DEF u, v, z
  <2>5. [t EXCEPT !.bufs = T, !.n = m, !.dt = e] = z
    BY <2>1, <2>2, <2>3, <2>4
  <2> QED BY <2>5 DEF z
<1> QED BY <1>2, <1>3, <1>4 DEF T, m, e, HeadCut

\* ustream_free_buf: the buffer goes, or comes back empty at the end of the list.
LEMMA FreedIs ==
    ASSUME Stream!UstreamAssumption, NEW g, GoodList(g), g.bufs # <<>>, NEW side \in {"r", "w"}, NEW t,
           t = [g EXCEPT !.count = g.count - Len(g.bufs[1].bytes)]
    PROVE  LET f == Stream!FreeHead(side, t) IN
           /\ GoodList(f) /\ Whole(f.bufs) = Whole(Tail(g.bufs))
           /\ side = "r" /\ g.n <= 1 => f.n <= 1
<1> DEFINE f == Stream!FreeHead(side, t)
           h == [bufs |-> Tail(g.bufs), dt |-> IF g.dt > 1 THEN g.dt - 1 ELSE Stream!Smaller(1, Len(g.bufs) - 1),
                 n |-> g.n - 1, count |-> g.count - Len(g.bufs[1].bytes)]
<1>1. GoodList(h) /\ h.bufs = Tail(g.bufs) /\ h.n = g.n - 1
  BY HeadGone
<1>2. g \in BufferList /\ g.n \in Nat
  BY ListParts DEF GoodList
<1>3. f = IF h.n >= Stream!Keep(side) THEN h ELSE Stream!AddBuf(h)
  <2>1. g = [bufs |-> g.bufs, dt |-> g.dt, n |-> g.n, count |-> g.count]
    BY <1>2 DEF BufferList
  <2>2. /\ t = [bufs |-> g.bufs, dt |-> g.dt, n |-> g.n, count |-> g.count - Len(g.bufs[1].bytes)]
    BY <2>1
  <2>3. h = HeadCut(t)
    <3> DEFINE c == g.count - Len(g.bufs[1].bytes)
               B == g.bufs
               d == g.dt
               n == g.n
    <3>1. /\ h = [bufs |-> Tail(B), dt |-> IF d > 1 THEN d - 1 ELSE Stream!Smaller(1, Len(B) - 1), n |-> n - 1, count |-> c]
          /\ t = [bufs |-> B, dt |-> d, n |-> n, count |-> c]
      BY <2>2
    <3> HIDE DEF h, c, B, d, n
    <3>2. HeadCut(t) = [bufs |-> Tail(B), dt |-> IF d > 1 THEN d - 1 ELSE Stream!Smaller(1, Len(B) - 1), n |-> n - 1, count |-> c]
      <4>1. t = [bufs |-> B, dt |-> d, n |-> n, count |-> c]
        BY <3>1, Zenon
      <4>2. HeadCut(t) = HeadCut([bufs |-> B, dt |-> d, n |-> n, count |-> c])
        BY <4>1, Zenon
      <4>3. HeadCut([bufs |-> B, dt |-> d, n |-> n, count |-> c]) =
            [bufs |-> Tail(B), dt |-> IF d > 1 THEN d - 1 ELSE Stream!Smaller(1, Len(B) - 1), n |-> n - 1, count |-> c]
        BY HeadExcept, Zenon
      <4> QED BY <4>2, <4>3, Zenon
    <3> QED BY <3>1, <3>2, Zenon
  <2> HIDE DEF h
  <2> QED BY <2>3 DEF Stream!FreeHead, HeadCut
<1> HIDE DEF h, f
<1>4. CASE h.n >= Stream!Keep(side)
  <2>1. f = h
    BY <1>3, <1>4
  <2> QED BY <1>1, <1>2, <2>1 DEF f
<1>5. CASE ~(h.n >= Stream!Keep(side))
  <2>1. f = Stream!AddBuf(h)
    BY <1>3, <1>5
  <2>2. GoodList(f) /\ Whole(f.bufs) = Whole(h.bufs) /\ f.n = h.n + 1
    BY <1>1, <2>1, AddBufIs
  <2> QED BY <1>1, <1>2, <2>2 DEF f
<1> QED BY <1>4, <1>5

\* The bytes of one buffer are all there are.
LEMMA OneBuffer ==
    ASSUME NEW l, GoodList(l), l.bufs # <<>>, l.n <= 1
    PROVE  Whole(l.bufs) = l.bufs[1].bytes /\ Tail(l.bufs) = <<>>
<1>1. l.bufs \in Seq(Buffer) /\ Len(l.bufs) \in Nat /\ l.n = Len(l.bufs)
  BY ListParts DEF GoodList, Pointed
<1>2. Len(l.bufs) = 1
  <2> DEFINE k == Len(l.bufs)
  <2>1. k \in Nat /\ k # 0 /\ k <= 1
    BY <1>1
  <2> HIDE DEF k
  <2>2. k = 1
    BY <2>1
  <2> QED BY <2>2 DEF k
<1>3. /\ Tail(l.bufs) \in Seq(Buffer) /\ Len(Tail(l.bufs)) = Len(l.bufs) - 1
      /\ l.bufs[1].bytes \in Seq(Nat) /\ Whole(l.bufs) = l.bufs[1].bytes \o Whole(Tail(l.bufs))
  BY <1>1, WholeHead
<1>4. Tail(l.bufs) = <<>>
  <2> DEFINE T == Tail(l.bufs)
  <2>1. T \in Seq(Buffer) /\ Len(T) = 0
    BY <1>2, <1>3
  <2> HIDE DEF T
  <2>2. T = <<>>
    BY <2>1
  <2> QED BY <2>2 DEF T
<1>5. Whole(Tail(l.bufs)) = <<>>
  BY <1>3, <1>4, WholeSeq
<1>6. l.bufs[1].bytes \o <<>> = l.bufs[1].bytes
  BY <1>3, ConcatEmptySeq
<1> QED BY <1>3, <1>4, <1>5, <1>6

\* ustream_consume of the read buffer: the rest is what was not taken.
LEMMA ConsumedIs ==
    ASSUME Stream!UstreamAssumption, NEW l, GoodList(l), l.n <= 1, NEW k \in 0 .. l.count
    PROVE  LET a == Stream!Consumed(l, k) IN
           GoodList(a) /\ a.n <= 1 /\ Stream!Take(Whole(l.bufs), k) \o Whole(a.bufs) = Whole(l.bufs)
<1> DEFINE a == Stream!Consumed(l, k)
<1>1. /\ l \in BufferList /\ l.bufs \in Seq(Buffer) /\ Len(l.bufs) \in Nat /\ l.dt \in Nat /\ l.n \in Nat
      /\ l.count \in Nat /\ Pointed(l) /\ Filled(l) /\ l.count = Len(Whole(l.bufs))
  BY ListParts DEF GoodList
<1>2. Whole(l.bufs) \in Seq(Nat) /\ k \in Nat /\ k \in 0 .. Len(Whole(l.bufs))
  BY <1>1, WholeSeq
<1>3. CASE k = 0
  <2>1. a = l
    BY <1>3 DEF Stream!Consumed
  <2> DEFINE x == Whole(l.bufs)
  <2>2. Stream!Take(x, 0) \in Seq(Nat) /\ Len(Stream!Take(x, 0)) = 0
    BY <1>2, <1>3, TakeFrom
  <2>3. Stream!Take(x, 0) = <<>>
    BY <2>2
  <2>4. <<>> \o x = x
    BY <1>2, ConcatEmptySeq
  <2> HIDE DEF a, x
  <2>5. Stream!Take(x, k) \o Whole(a.bufs) = x
    BY <1>3, <2>1, <2>3, <2>4 DEF x
  <2> QED BY <2>1, <2>5 DEF a, x
<1>4. CASE k # 0
  <2>1. l.bufs # <<>>
    <3> SUFFICES ASSUME l.bufs = <<>> PROVE FALSE
      OBVIOUS
    <3>1. Whole(l.bufs) = <<>>
      BY <1>1, WholeSeq
    <3>2. Len(Whole(l.bufs)) = 0
      BY <3>1
    <3> QED BY <1>2, <1>4, <3>2
  <2>2. Whole(l.bufs) = l.bufs[1].bytes /\ Tail(l.bufs) = <<>>
    BY <2>1, OneBuffer
  <2>3. l = [bufs |-> l.bufs, dt |-> l.dt, n |-> l.n, count |-> l.count]
    BY <1>1 DEF BufferList
  <2> DEFINE t == [l EXCEPT !.count = l.count - k]
  <2>4. CASE k < Len(l.bufs[1].bytes)
    <3> DEFINE b == [off |-> l.bufs[1].off + k, bytes |-> Stream!From(l.bufs[1].bytes, k)]
               c == l.count - k
    <3>1. a = [t EXCEPT !.bufs[1] = b]
      BY <1>4, <2>4 DEF Stream!Consumed
    <3>2. a = [bufs |-> [l.bufs EXCEPT ![1] = b], dt |-> l.dt, n |-> l.n, count |-> c]
      <4>1. t = [bufs |-> l.bufs, dt |-> l.dt, n |-> l.n, count |-> c]
        BY <2>3
      <4> HIDE DEF b, c, t, a
      <4>2. a = [t EXCEPT !.bufs = [t.bufs EXCEPT ![1] = b]]
        BY <3>1
      <4>3. t.bufs = l.bufs
        BY <4>1
      <4> QED BY <4>1, <4>2, <4>3
    <3> HIDE DEF a
    <3>3. GoodList(a) /\ Stream!Take(l.bufs[1].bytes, k) \o Whole(a.bufs) = Whole(l.bufs)
      BY <1>2, <2>1, <2>4, <3>2, SkippedIs
    <3>4. a.n = l.n
      BY <3>2
    <3> QED BY <2>2, <3>3, <3>4 DEF a
  <2>5. CASE ~(k < Len(l.bufs[1].bytes))
    <3>1. k = Len(l.bufs[1].bytes)
      BY <1>1, <1>2, <2>2, <2>5
    <3>2. a = Stream!FreeHead("r", t) /\ t = [l EXCEPT !.count = l.count - Len(l.bufs[1].bytes)]
      BY <1>4, <2>5, <3>1 DEF Stream!Consumed
    <3> HIDE DEF t, a
    <3>3. GoodList(a) /\ Whole(a.bufs) = Whole(Tail(l.bufs)) /\ a.n <= 1
      BY <2>1, <3>2, FreedIs
    <3>4. Whole(a.bufs) = <<>>
      <4>1. <<>> \in Seq(Buffer)
        OBVIOUS
      <4> QED BY <2>2, <3>3, <4>1, WholeSeq
    <3> DEFINE x == Whole(l.bufs)
    <3>5. Stream!Take(x, k) = x
      <4>1. /\ Stream!Take(x, k) \in Seq(Nat) /\ Stream!From(x, k) \in Seq(Nat) /\ Len(Stream!From(x, k)) = Len(x) - k
            /\ Stream!Take(x, k) \o Stream!From(x, k) = x
        BY <1>2, TakeFrom
      <4>2. Len(x) - k = 0
        BY <1>2, <2>2, <3>1
      <4> DEFINE y == Stream!Take(x, k)
                 z == Stream!From(x, k)
      <4> HIDE DEF x, y, z
      <4>3. z = <<>>
        BY <4>1, <4>2 DEF z
      <4>4. y \o <<>> = y
        BY <4>1, ConcatEmptySeq DEF y
      <4> QED BY <4>1, <4>3, <4>4 DEF y, z
    <3>6. x \o <<>> = x
      BY <1>2, ConcatEmptySeq
    <3> HIDE DEF x
    <3>7. Stream!Take(x, k) \o Whole(a.bufs) = x
      BY <3>4, <3>5, <3>6
    <3> QED BY <3>3, <3>7 DEF a, x
  <2> QED BY <2>4, <2>5
<1> QED BY <1>3, <1>4

-----------------------------------------------------------------------------
(* ustream_write_buffered                                                    *)

\* One turn of its loop.
NextTurn(b) ==
    LET p == Stream!Prepared("w", b.l, Len(b.left)).l
        m == Stream!Smaller(Len(b.left), Stream!Room(p.bufs[p.dt]))
    IN  IF b.left = <<>> THEN b ELSE [l |-> Stream!Put(p, Stream!Take(b.left, m)), left |-> Stream!From(b.left, m)]

Turns(l, bytes) ==
    CHOOSE F : F = [k \in 0 .. Len(bytes) |-> IF k = 0 THEN [l |-> l, left |-> bytes] ELSE NextTurn(F[k - 1])]

\* What is buffered is what the last turn leaves.
LEMMA BufferedTurns == ASSUME NEW l, NEW bytes PROVE Stream!Buffered(l, bytes) = Turns(l, bytes)[Len(bytes)].l
BY DEF Stream!Buffered, Turns, NextTurn

\* There are such turns.
LEMMA TurnsAre ==
    ASSUME NEW l, NEW bytes \in Seq(Nat)
    PROVE  /\ Turns(l, bytes)[0] = [l |-> l, left |-> bytes]
           /\ \A k \in 1 .. Len(bytes) : Turns(l, bytes)[k] = NextTurn(Turns(l, bytes)[k - 1])
<1> DEFINE n == Len(bytes)
           x == [l |-> l, left |-> bytes]
           Is(G, k) == G = [i \in 0 .. k |-> IF i = 0 THEN x ELSE NextTurn(G[i - 1])]
           T == {k \in Nat : \E G : Is(G, k)}
<1>1. n \in Nat
  OBVIOUS
<1> HIDE DEF x
<1>2. 0 \in T
  <2> DEFINE G == [i \in 0 .. 0 |-> x]
  <2>1. G = [i \in 0 .. 0 |-> IF i = 0 THEN x ELSE NextTurn(G[i - 1])]
    OBVIOUS
  <2> QED BY <2>1
<1>3. ASSUME NEW k \in 0 .. n - 1, k \in T PROVE k + 1 \in T
  <2>1. k \in Nat /\ \E G : Is(G, k)
    BY <1>3
  <2>2. PICK G : G = [i \in 0 .. k |-> IF i = 0 THEN x ELSE NextTurn(G[i - 1])]
    BY <2>1
  <2> DEFINE H == [i \in 0 .. k + 1 |-> IF i = k + 1 THEN NextTurn(G[k]) ELSE G[i]]
  <2>3. ASSUME NEW i \in 0 .. k + 1 PROVE H[i] = IF i = 0 THEN x ELSE NextTurn(H[i - 1])
    <3>1. CASE i = k + 1
      <4>1. k \in 0 .. k + 1 /\ k # k + 1 /\ i # 0 /\ i - 1 = k
        BY <2>1, <3>1
      <4>2. H[k] = G[k] /\ H[i] = NextTurn(G[k])
        BY <3>1, <4>1
      <4> QED BY <3>1, <4>1, <4>2
    <3>2. CASE i # k + 1
      <4>1. i \in 0 .. k
        BY <2>1, <3>2
      <4>2. H[i] = G[i] /\ G[i] = IF i = 0 THEN x ELSE NextTurn(G[i - 1])
        BY <2>2, <3>2, <4>1
      <4>3. i # 0 => H[i - 1] = G[i - 1]
        BY <2>1, <4>1
      <4> QED BY <4>2, <4>3
    <3> QED BY <3>1, <3>2
  <2>4. H = [i \in 0 .. k + 1 |-> H[i]]
    OBVIOUS
  <2> HIDE DEF H
  <2>5. H = [i \in 0 .. k + 1 |-> IF i = 0 THEN x ELSE NextTurn(H[i - 1])]
    BY <2>3, <2>4
  <2> QED BY <2>1, <2>5, SMTT(30)
<1> HIDE DEF T, n
<1>4. \A k \in 0 .. n : k \in T
  BY <1>1, <1>2, <1>3, ByNumbers
<1>5. n \in T
  BY <1>1, <1>4
<1>6. \E G : G = [i \in 0 .. Len(bytes) |-> IF i = 0 THEN x ELSE NextTurn(G[i - 1])]
  BY <1>5 DEF T, n
<1>7. Turns(l, bytes) = [i \in 0 .. Len(bytes) |-> IF i = 0 THEN x ELSE NextTurn(Turns(l, bytes)[i - 1])]
  BY <1>6 DEF Turns, x
<1> DEFINE F == Turns(l, bytes)
<1> HIDE DEF F
<1>8. F = [i \in 0 .. n |-> IF i = 0 THEN x ELSE NextTurn(F[i - 1])]
  BY <1>7 DEF F, n
<1>9. F[0] = x /\ \A k \in 1 .. n : F[k] = NextTurn(F[k - 1])
  BY <1>1, <1>8
<1> QED BY <1>9 DEF F, n, x

\* A turn takes at least a byte and keeps the order of all.
LEMMA TurnIs ==
    ASSUME Stream!UstreamAssumption, NEW b, GoodList(b.l), b.left \in Seq(Nat), b.left # <<>>
    PROVE  LET c == NextTurn(b) IN
           /\ GoodList(c.l) /\ c.left \in Seq(Nat) /\ Len(c.left) < Len(b.left)
           /\ Whole(c.l.bufs) \o c.left = Whole(b.l.bufs) \o b.left
<1> DEFINE c == NextTurn(b)
           q == Stream!Prepared("w", b.l, Len(b.left))
           p == q.l
           x == b.left
           room == Stream!Room(p.bufs[p.dt])
           m == Stream!Smaller(Len(x), room)
<1>1. /\ GoodList(p) /\ Whole(p.bufs) = Whole(b.l.bufs) /\ p.dt \in 1 .. Len(p.bufs) /\ room \in Nat \ {0}
  <2>1. q.ok
    BY PreparedIs
  <2> QED BY <2>1, PreparedIs
<1>2. c.l = Stream!Put(p, Stream!Take(x, m)) /\ c.left = Stream!From(x, m)
  BY DEF NextTurn
<1>3. x \in Seq(Nat) /\ Len(x) \in Nat /\ Len(x) > 0
  OBVIOUS
<1> HIDE DEF c, p, q, x
<1>4. m \in 1 .. Len(x) /\ m <= room /\ m \in 0 .. Len(x)
  <2> HIDE DEF room
  <2> QED BY <1>1, <1>3 DEF Stream!Smaller
<1> HIDE DEF m
<1>5. /\ Stream!Take(x, m) \in Seq(Nat) /\ Len(Stream!Take(x, m)) = m
      /\ Stream!From(x, m) \in Seq(Nat) /\ Len(Stream!From(x, m)) = Len(x) - m
      /\ Stream!Take(x, m) \o Stream!From(x, m) = x
  BY <1>3, <1>4, TakeFrom
<1> DEFINE u == Stream!Take(x, m)
           v == Stream!From(x, m)
<1>6. u \in Seq(Nat) /\ v \in Seq(Nat) /\ u \o v = x /\ Len(u) <= room /\ Len(v) = Len(x) - m
  BY <1>4, <1>5
<1>7. c.l = Stream!Put(p, u) /\ c.left = v
  BY <1>2
<1> HIDE DEF u, v
<1>8. GoodList(c.l) /\ Whole(c.l.bufs) = Whole(p.bufs) \o u
  BY <1>1, <1>6, <1>7, PutIs
<1>9. (Whole(p.bufs) \o u) \o v = Whole(p.bufs) \o (u \o v)
  <2>1. Whole(p.bufs) \in Seq(Nat)
    BY <1>1, ListParts, WholeSeq DEF GoodList
  <2> QED BY <1>6, <2>1, ByteConcat
<1>10. Len(v) < Len(x)
  BY <1>3, <1>4, <1>6
<1>11. c.left \in Seq(Nat) /\ Len(c.left) < Len(x) /\ Whole(c.l.bufs) \o c.left = Whole(b.l.bufs) \o x
  BY <1>1, <1>6, <1>7, <1>8, <1>9, <1>10
<1> QED BY <1>8, <1>11 DEF c, x

\* All is buffered in its order.
LEMMA BufferedIs ==
    ASSUME Stream!UstreamAssumption, NEW l, GoodList(l), NEW bytes \in Seq(Nat)
    PROVE  LET a == Stream!Buffered(l, bytes) IN GoodList(a) /\ Whole(a.bufs) = Whole(l.bufs) \o bytes
<1> DEFINE F == Turns(l, bytes)
           n == Len(bytes)
           all == Whole(l.bufs) \o bytes
           Right(b) == GoodList(b.l) /\ b.left \in Seq(Nat) /\ Whole(b.l.bufs) \o b.left = all
           T == {k \in Nat : k <= n => Right(F[k]) /\ Len(F[k].left) <= n - k}
<1>1. n \in Nat /\ F[0] = [l |-> l, left |-> bytes] /\ \A k \in 1 .. n : F[k] = NextTurn(F[k - 1])
  BY TurnsAre
<1> HIDE DEF F, all
<1>2. 0 \in T
  <2>1. F[0].l = l /\ F[0].left = bytes
    BY <1>1
  <2>2. Right(F[0])
    BY <2>1 DEF all
  <2>3. Len(F[0].left) <= n - 0
    BY <1>1, <2>1
  <2> QED BY <2>2, <2>3
<1>3. ASSUME NEW k \in 0 .. n - 1, k \in T PROVE k + 1 \in T
  <2>1. k \in Nat /\ k <= n /\ k + 1 \in 1 .. n /\ (k + 1) - 1 = k /\ k + 1 \in Nat /\ n - (k + 1) \in Nat
    BY <1>1, <1>3
  <2> DEFINE b == F[k]
             c == F[k + 1]
  <2>2. Right(b) /\ Len(b.left) <= n - k /\ c = NextTurn(b)
    BY <1>1, <1>3, <2>1
  <2> HIDE DEF b, c, n
  <2>3. CASE b.left = <<>>
    <3>1. c = b
      BY <2>2, <2>3 DEF NextTurn
    <3>2. Len(c.left) = 0
      BY <2>3, <3>1
    <3>3. Len(c.left) <= n - (k + 1)
      BY <2>1, <3>2
    <3> QED BY <2>1, <2>2, <3>1, <3>3 DEF c
  <2>4. CASE b.left # <<>>
    <3>1. /\ GoodList(c.l) /\ c.left \in Seq(Nat) /\ Len(c.left) < Len(b.left)
          /\ Whole(c.l.bufs) \o c.left = all
      BY <2>2, <2>4, TurnIs
    <3> DEFINE e == Len(c.left)
               f == Len(b.left)
    <3>2. e \in Nat /\ f \in Nat /\ e < f /\ f <= n - k
      BY <2>2, <3>1
    <3> HIDE DEF e, f
    <3>3. e <= n - (k + 1)
      BY <1>1, <2>1, <3>2 DEF n
    <3> QED BY <2>1, <3>1, <3>3 DEF c, e
  <2> QED BY <2>3, <2>4
<1> HIDE DEF T
<1>4. \A k \in 0 .. n : k \in T
  <2> HIDE DEF n
  <2> QED BY <1>1, <1>2, <1>3, ByNumbers
<1>5. Right(F[n]) /\ Len(F[n].left) <= 0
  <2>1. n \in T /\ n <= n /\ n - n = 0
    BY <1>1, <1>4
  <2> HIDE DEF n
  <2> QED BY <2>1 DEF T
<1> DEFINE z == F[n]
<1> HIDE DEF z, n
<1>6. z.left = <<>>
  <2>1. z.left \in Seq(Nat) /\ Len(z.left) <= 0
    BY <1>5 DEF z
  <2> QED BY <2>1
<1>7. Whole(z.l.bufs) \in Seq(Nat)
  BY <1>5, ListParts, WholeSeq DEF GoodList, z
<1>8. Whole(z.l.bufs) = all
  <2>1. Whole(z.l.bufs) \o <<>> = Whole(z.l.bufs)
    BY <1>7, ConcatEmptySeq
  <2> QED BY <1>5, <1>6, <2>1 DEF z
<1>9. Stream!Buffered(l, bytes) = z.l
  BY BufferedTurns DEF z, F, n
<1>10. GoodList(z.l)
  BY <1>5 DEF z
<1> QED BY <1>8, <1>9, <1>10 DEF all

\* ustream_vprintf: what fits in place, and the rest behind it.
LEMMA PrintedIs ==
    ASSUME Stream!UstreamAssumption, NEW l, GoodList(l), NEW x \in Seq(Nat)
    PROVE  LET a == Stream!Printed(l, x) IN GoodList(a) /\ Whole(a.bufs) = Whole(l.bufs) \o x
<1> DEFINE q == Stream!Prepared("w", l, 1)
           p == q.l
           room == Stream!Room(p.bufs[p.dt])
           m == Stream!Smaller(Len(x), room - 1)
           u == Stream!Take(x, m)
           v == Stream!From(x, m)
           a == Stream!Printed(l, x)
<1>1. /\ GoodList(p) /\ Whole(p.bufs) = Whole(l.bufs) /\ p.dt \in 1 .. Len(p.bufs) /\ room \in Nat \ {0}
  <2>1. q.ok
    BY PreparedIs
  <2> QED BY <2>1, PreparedIs
<1>2. a = IF m = Len(x) THEN Stream!Put(p, x) ELSE Stream!Buffered(Stream!Put(p, u), v)
  BY DEF Stream!Printed
<1>3. Len(x) \in Nat
  OBVIOUS
<1> HIDE DEF p, q, a
<1>4. m \in 0 .. Len(x) /\ m <= room
  <2> HIDE DEF room
  <2> QED BY <1>1, <1>3 DEF Stream!Smaller
<1> HIDE DEF m
<1>5. u \in Seq(Nat) /\ Len(u) = m /\ v \in Seq(Nat) /\ u \o v = x
  BY <1>4, TakeFrom
<1> HIDE DEF u, v
<1>6. CASE m = Len(x)
  <2>1. a = Stream!Put(p, x) /\ Len(x) <= room
    BY <1>2, <1>4, <1>6
  <2>2. GoodList(a) /\ Whole(a.bufs) = Whole(p.bufs) \o x
    BY <1>1, <2>1, PutIs
  <2> QED BY <1>1, <2>2 DEF a
<1>7. CASE m # Len(x)
  <2> DEFINE c == Stream!Put(p, u)
  <2>1. a = Stream!Buffered(c, v) /\ Len(u) <= room
    BY <1>2, <1>4, <1>5, <1>7
  <2>2. GoodList(c) /\ Whole(c.bufs) = Whole(p.bufs) \o u
    BY <1>1, <1>5, <2>1, PutIs
  <2> HIDE DEF c
  <2>3. GoodList(a) /\ Whole(a.bufs) = Whole(c.bufs) \o v
    BY <1>5, <2>1, <2>2, BufferedIs
  <2>4. Whole(p.bufs) \in Seq(Nat)
    BY <1>1, ListParts, WholeSeq DEF GoodList
  <2>5. (Whole(p.bufs) \o u) \o v = Whole(p.bufs) \o (u \o v)
    BY <1>5, <2>4, ByteConcat
  <2>6. Whole(a.bufs) = Whole(l.bufs) \o x
    BY <1>1, <1>5, <2>2, <2>3, <2>5
  <2> QED BY <2>3, <2>6 DEF a
<1> QED BY <1>6, <1>7

-----------------------------------------------------------------------------
(* Bytes in their order.                                                     *)

\* The numbers behind the first n.
More(n, j) == [i \in 1 .. j |-> n + i]

\* They are bytes.
LEMMA MoreIs == ASSUME NEW n \in Nat, NEW j \in Nat PROVE More(n, j) \in Seq(Nat) /\ Len(More(n, j)) = j
<1>1. \A i \in 1 .. j : n + i \in Nat
  OBVIOUS
<1> QED BY <1>1 DEF More

\* Counting goes on.
LEMMA CountOn ==
    ASSUME NEW n \in Nat, NEW j \in Nat, NEW s \in Seq(Nat), Stream!Count(s, n)
    PROVE  Stream!Count(s \o More(n, j), n + j)
<1> DEFINE t == More(n, j)
           e == [i \in 1 .. n + j |-> i]
<1>1. s = [i \in 1 .. n |-> i]
  BY DEF Stream!Count
<1>2. Len(s) = n /\ \A i \in 1 .. n : s[i] = i
  BY <1>1
<1>3. t \in Seq(Nat) /\ Len(t) = j /\ \A i \in 1 .. j : t[i] = n + i
  BY MoreIs DEF More
<1>4. /\ s \o t \in Seq(Nat) /\ Len(s \o t) = n + j
      /\ \A i \in 1 .. n + j : (s \o t)[i] = IF i <= n THEN s[i] ELSE t[i - n]
  <2> HIDE DEF t
  <2> QED BY <1>2, <1>3, ByteJoin
<1>5. e \in Seq(Nat) /\ Len(e) = n + j /\ \A i \in 1 .. n + j : e[i] = i
  OBVIOUS
<1> HIDE DEF t, e
<1>6. ASSUME NEW i \in 1 .. n + j PROVE (s \o t)[i] = e[i]
  <2>1. CASE i <= n
    <3>1. i \in 1 .. n
      BY <2>1
    <3> QED BY <1>2, <1>4, <1>5, <2>1, <3>1
  <2>2. CASE ~(i <= n)
    <3>1. i - n \in 1 .. j /\ n + (i - n) = i
      BY <2>2
    <3>2. (s \o t)[i] = t[i - n] /\ t[i - n] = n + (i - n)
      BY <1>3, <1>4, <2>2, <3>1
    <3> QED BY <1>5, <3>1, <3>2
  <2> QED BY <2>1, <2>2
<1>7. s \o t = e
  BY <1>4, <1>5, <1>6, SeqEqual
<1> QED BY <1>7 DEF Stream!Count, e, t

\* The order of pieces does not depend on who holds those in the middle.
Joined3(s, t, u) == s \o (t \o u) = (s \o t) \o u /\ s \o t \in Seq(Nat) /\ (s \o t) \o u \in Seq(Nat)
Joined4(a, b, c, d) ==
    /\ (a \o (b \o c)) \o d = ((a \o b) \o c) \o d
    /\ (a \o b) \o (c \o d) = ((a \o b) \o c) \o d
    /\ ((a \o b) \o c) \o d \in Seq(Nat)

\* Three pieces.
LEMMA ThreePieces == \A s, t, u \in Seq(Nat) : Joined3(s, t, u)
<1> TAKE s, t, u \in Seq(Nat)
<1>1. (s \o t) \o u = s \o (t \o u) /\ s \o t \in Seq(Nat)
  BY ByteConcat
<1> DEFINE e == s \o t
<1>2. e \in Seq(Nat)
  BY <1>1
<1> HIDE DEF e
<1>3. e \o u \in Seq(Nat)
  BY <1>2, ByteJoin
<1> QED BY <1>1, <1>3 DEF e, Joined3

\* Four pieces.
LEMMA FourPieces == \A a, b, c, d \in Seq(Nat) : Joined4(a, b, c, d)
<1> TAKE a, b, c, d \in Seq(Nat)
<1>1. Joined3(a, b, c)
  BY ThreePieces, Zenon
<1> DEFINE e == a \o b
<1>2. e \in Seq(Nat)
  BY <1>1, Zenon DEF Joined3
<1> HIDE DEF e
<1>3. Joined3(e, c, d)
  BY <1>2, ThreePieces, Zenon
<1> QED BY <1>1, <1>3, Zenon DEF Joined3, Joined4, e

-----------------------------------------------------------------------------
(* The invariant: one part for each direction, and one for the descriptor.     *)

\* All bytes of a direction, from the far end to the near one.
InBytes  == (sGot \o Whole(sR.bufs)) \o sRsock
OutBytes == (sArrived \o sWsock) \o Whole(sW.bufs)

ReadSide ==
    /\ GoodList(sR) /\ sR.n <= 1
    /\ sGot \in Seq(Nat) /\ sRsock \in Seq(Nat) /\ sSent \in Nat
    /\ Stream!Count(InBytes, sSent)

\* The write list is given up only by a stream that is freed after an error.
WriteSide ==
    /\ GoodList(sW) \/ (sPc = "freed" /\ sPeer = "reset" /\ sW.bufs = <<>>)
    /\ sArrived \in Seq(Nat) /\ sWsock \in Seq(Nat) /\ Len(sWsock) <= SndBuf /\ sWritten \in Nat
    /\ sPeer # "reset" => Stream!Count(OutBytes, sWritten)

\* An error is reported of a peer that has reset the connection.
PollSide ==
    /\ sPeer \in {"open", "shut", "reset"} /\ sInterest \subseteq {"r", "w"}
    /\ sPc \in {"idle", "read", "notify", "write", "written", "error", "freed"}
    /\ sBlocked \in BOOLEAN /\ sEof \in BOOLEAN /\ sWerror \in BOOLEAN
    /\ sTimer \in BOOLEAN /\ sReady \in BOOLEAN /\ sFderror \in BOOLEAN
    /\ sWerror \/ sFderror => sPeer = "reset"

StrInv == ReadSide /\ WriteSide /\ PollSide

\* The bytes of a list, as the model has them.
LEMMA FlatWhole == ASSUME NEW l PROVE Stream!Flat(l) = Whole(l.bufs)
BY FlatIs DEF Whole

\* The bytes of a good list.
LEMMA GoodBytes == ASSUME NEW l, GoodList(l) PROVE l.bufs \in Seq(Buffer) /\ Whole(l.bufs) \in Seq(Nat) /\ l.count = Len(Whole(l.bufs))
BY ListParts, WholeSeq DEF GoodList

\* No buffers yet.
LEMMA NoBuffersIs ==
    ASSUME Stream!UstreamAssumption
    PROVE  GoodList(Stream!NoBuffers) /\ Stream!NoBuffers.n = 0 /\ Whole(Stream!NoBuffers.bufs) = <<>>
<1> DEFINE l == Stream!NoBuffers
<1>1. l = [bufs |-> <<>>, dt |-> 0, n |-> 0, count |-> 0]
  BY DEF Stream!NoBuffers
<1>2. <<>> \in Seq(Buffer) /\ Len(<<>>) = 0
  OBVIOUS
<1>3. l \in BufferList /\ l.bufs = <<>> /\ l.dt = 0 /\ l.n = 0 /\ l.count = 0
  BY <1>1, <1>2 DEF BufferList
<1>4. Whole(l.bufs) = <<>>
  BY <1>2, <1>3, WholeSeq
<1> HIDE DEF l
<1>5. Pointed(l) /\ Filled(l)
  BY <1>2, <1>3 DEF Pointed, Filled
<1>6. GoodList(l)
  BY <1>2, <1>3, <1>4, <1>5 DEF GoodList
<1> QED BY <1>3, <1>4, <1>6 DEF l

\* The invariant holds of a new stream.
LEMMA StrInit == ASSUME Stream!UstreamAssumption, Stream!Init PROVE StrInv
<1>0. /\ sR = Stream!NoBuffers /\ sW = Stream!NoBuffers /\ sRsock = <<>> /\ sWsock = <<>> /\ sPeer = "open"
      /\ sSent = 0 /\ sGot = <<>> /\ sWritten = 0 /\ sArrived = <<>>
  BY DEF Stream!Init
<1>1. <<>> \in Seq(Nat) /\ Len(<<>>) = 0 /\ (<<>> \o <<>>) \o <<>> = <<>> /\ <<>> = [i \in 1 .. 0 |-> i]
  OBVIOUS
<1>2. Stream!Count((<<>> \o <<>>) \o <<>>, 0)
  BY <1>1 DEF Stream!Count
<1>3. ReadSide
  <2>1. Stream!Count(InBytes, sSent)
    BY <1>0, <1>2, NoBuffersIs DEF InBytes
  <2> QED BY <1>0, <1>1, <2>1, NoBuffersIs DEF ReadSide
<1>4. WriteSide
  <2>1. Stream!Count(OutBytes, sWritten)
    BY <1>0, <1>2, NoBuffersIs DEF OutBytes
  <2> QED BY <1>0, <1>1, <2>1, NoBuffersIs, StrConst DEF WriteSide
<1>5. PollSide
  BY DEF Stream!Init, PollSide
<1> QED BY <1>3, <1>4, <1>5 DEF StrInv

\* The read side after a step that leaves the order of the bytes alone.
LEMMA ReadKept ==
    ASSUME ReadSide, GoodList(sR'), sR'.n <= 1, sGot' \in Seq(Nat), sRsock' \in Seq(Nat), sSent' = sSent,
           InBytes' = InBytes
    PROVE  ReadSide'
BY DEF ReadSide

\* A byte is appended.
LEMMA AppendByte ==
    ASSUME NEW s \in Seq(Nat), NEW x \in Nat
    PROVE  Append(s, x) = s \o <<x>> /\ <<x>> \in Seq(Nat) /\ Append(s, x) \in Seq(Nat)
<1>1. <<x>> \in Seq(Nat)
  OBVIOUS
<1>2. Append(s, x) \in Seq(Nat)
  BY AppendProperties, Zenon
<1> QED BY <1>1, <1>2, AppendIsConcat

\* The peer sends a byte.
LEMMA SendsHolds == ASSUME ReadSide, Stream!PeerSends PROVE ReadSide'
<1> DEFINE W == Whole(sR.bufs)
<1>1. /\ sR' = sR /\ sGot' = sGot /\ sSent' = sSent + 1 /\ sRsock' = Append(sRsock, sSent + 1)
      /\ GoodList(sR) /\ sR.n <= 1 /\ sGot \in Seq(Nat) /\ sRsock \in Seq(Nat) /\ sSent \in Nat
      /\ Stream!Count(InBytes, sSent)
  BY DEF Stream!PeerSends, Stream!user, ReadSide
<1>2. W \in Seq(Nat)
  BY <1>1, GoodBytes
<1>3. sRsock' = sRsock \o More(sSent, 1) /\ More(sSent, 1) \in Seq(Nat) /\ sRsock' \in Seq(Nat) /\ sSent' \in Nat
  <2>1. More(sSent, 1) = <<sSent + 1>>
    BY <1>1 DEF More
  <2> DEFINE x == sSent + 1
  <2>2. x \in Nat
    BY <1>1
  <2> HIDE DEF x
  <2>3. Append(sRsock, x) = sRsock \o <<x>> /\ <<x>> \in Seq(Nat) /\ Append(sRsock, x) \in Seq(Nat)
    BY <1>1, <2>2, AppendByte
  <2> QED BY <1>1, <2>1, <2>2, <2>3 DEF x
<1> HIDE DEF W
<1>4. InBytes' = InBytes \o More(sSent, 1) /\ InBytes \in Seq(Nat)
  <2>1. InBytes = (sGot \o W) \o sRsock /\ InBytes' = (sGot \o W) \o (sRsock \o More(sSent, 1))
    BY <1>1, <1>3 DEF InBytes, W
  <2>2. (sGot \o W) \o (sRsock \o More(sSent, 1)) = ((sGot \o W) \o sRsock) \o More(sSent, 1)
    <3>1. Joined4(sGot, W, sRsock, More(sSent, 1))
      BY <1>1, <1>2, <1>3, FourPieces, Zenon
    <3> QED BY <3>1, Zenon DEF Joined4
  <2>3. (sGot \o W) \o sRsock \in Seq(Nat)
    <3>1. Joined3(sGot, W, sRsock)
      BY <1>1, <1>2, ThreePieces, Zenon
    <3> QED BY <3>1, Zenon DEF Joined3
  <2> QED BY <2>1, <2>2, <2>3
<1>5. Stream!Count(InBytes', sSent')
  <2>1. Stream!Count(InBytes \o More(sSent, 1), sSent + 1)
    BY <1>1, <1>4, CountOn
  <2> QED BY <1>1, <1>4, <2>1
<1> QED BY <1>1, <1>3, <1>5 DEF ReadSide

\* ustream_prepare_buf, of the read side.
LEMMA ReadPrepared ==
    ASSUME Stream!UstreamAssumption, ReadSide, Stream!CanRead, NEW p, p = Stream!Prepared("r", sR, 1).l
    PROVE  /\ GoodList(p) /\ Whole(p.bufs) = Whole(sR.bufs) /\ p.n <= 1
           /\ p.dt \in 1 .. Len(p.bufs) /\ Stream!Room(p.bufs[p.dt]) \in Nat \ {0}
<1>1. GoodList(sR) /\ sR.n <= 1 /\ Stream!Prepared("r", sR, 1).ok
  BY DEF ReadSide, Stream!CanRead
<1> QED BY <1>1, PreparedIs

\* ustream_fill_read
LEMMA ReadSomeHolds == ASSUME Stream!UstreamAssumption, ReadSide, Stream!ReadSome PROVE ReadSide'
<1> DEFINE p == Stream!Prepared("r", sR, 1).l
           room == Stream!Room(p.bufs[p.dt])
           n == Stream!Smaller(Len(sRsock), room)
           u == Stream!Take(sRsock, n)
           v == Stream!From(sRsock, n)
           W == Whole(sR.bufs)
<1>1. /\ sR' = Stream!Put(p, u) /\ sRsock' = v /\ sGot' = sGot /\ sSent' = sSent /\ Stream!CanRead
  BY DEF Stream!ReadSome, Stream!user
<1>2. GoodList(sR) /\ sGot \in Seq(Nat) /\ sRsock \in Seq(Nat) /\ Len(sRsock) \in Nat /\ W \in Seq(Nat)
  BY GoodBytes DEF ReadSide
<1>3. /\ GoodList(p) /\ Whole(p.bufs) = W /\ p.n <= 1 /\ p.dt \in 1 .. Len(p.bufs) /\ room \in Nat \ {0}
  BY <1>1, ReadPrepared
<1> HIDE DEF p, W
<1>4. n \in 0 .. Len(sRsock) /\ n <= room
  <2> HIDE DEF room
  <2> QED BY <1>2, <1>3 DEF Stream!Smaller
<1> HIDE DEF n
<1>5. u \in Seq(Nat) /\ Len(u) = n /\ v \in Seq(Nat) /\ u \o v = sRsock
  BY <1>2, <1>4, TakeFrom
<1> HIDE DEF u, v
<1>6. GoodList(sR') /\ Whole(sR'.bufs) = W \o u /\ sR'.n <= 1
  <2>1. Len(u) <= room
    BY <1>4, <1>5
  <2> QED BY <1>1, <1>3, <1>5, <2>1, PutIs
<1>7. InBytes' = InBytes
  <2>1. InBytes = (sGot \o W) \o (u \o v) /\ InBytes' = (sGot \o (W \o u)) \o v
    BY <1>1, <1>5, <1>6 DEF InBytes, W
  <2>2. (sGot \o W) \o (u \o v) = ((sGot \o W) \o u) \o v /\ (sGot \o (W \o u)) \o v = ((sGot \o W) \o u) \o v
    <3>1. Joined4(sGot, W, u, v)
      BY <1>2, <1>5, FourPieces, Zenon
    <3> QED BY <3>1, Zenon DEF Joined4
  <2> QED BY <2>1, <2>2, Zenon
<1> QED BY <1>1, <1>2, <1>5, <1>6, <1>7, ReadKept

\* EAGAIN, and the end of the stream.
LEMMA ReadNothingHolds ==
    ASSUME Stream!UstreamAssumption, ReadSide, Stream!ReadNone \/ Stream!ReadEnd PROVE ReadSide'
<1>1. /\ sR' = Stream!Prepared("r", sR, 1).l /\ sRsock' = sRsock /\ sGot' = sGot /\ sSent' = sSent /\ Stream!CanRead
  BY DEF Stream!ReadNone, Stream!ReadEnd, Stream!user, Stream!socket
<1>2. GoodList(sR') /\ Whole(sR'.bufs) = Whole(sR.bufs) /\ sR'.n <= 1
  BY <1>1, ReadPrepared
<1>3. InBytes' = InBytes
  BY <1>1, <1>2 DEF InBytes
<1> QED BY <1>1, <1>2, <1>3, ReadKept DEF ReadSide

\* notify_read and ustream_consume: the user takes some of the bytes.
LEMMA TakenHolds ==
    ASSUME Stream!UstreamAssumption, ReadSide, NEW k \in 0 .. sR.count,
           sGot' = sGot \o Stream!Take(Stream!Flat(sR), k), sR' = Stream!Consumed(sR, k), sRsock' = sRsock, sSent' = sSent
    PROVE  ReadSide'
<1> DEFINE W == Whole(sR.bufs)
           u == Stream!Take(W, k)
<1>1. GoodList(sR) /\ sR.n <= 1 /\ sGot \in Seq(Nat) /\ sRsock \in Seq(Nat) /\ W \in Seq(Nat) /\ sR.count = Len(W)
  BY GoodBytes DEF ReadSide
<1>2. GoodList(sR') /\ sR'.n <= 1 /\ u \o Whole(sR'.bufs) = W
  BY <1>1, ConsumedIs
<1>3. u \in Seq(Nat) /\ sGot' = sGot \o u
  BY <1>1, TakeFrom, FlatWhole
<1> DEFINE v == Whole(sR'.bufs)
<1>4. v \in Seq(Nat) /\ u \o v = W
  BY <1>2, GoodBytes
<1> HIDE DEF W, u, v
<1>5. sGot \o (u \o v) = (sGot \o u) \o v /\ sGot \o u \in Seq(Nat)
  <2>1. Joined3(sGot, u, v)
    BY <1>1, <1>3, <1>4, ThreePieces, Zenon
  <2> QED BY <2>1, Zenon DEF Joined3
<1>6. InBytes' = InBytes
  <2>1. InBytes = (sGot \o W) \o sRsock /\ InBytes' = ((sGot \o u) \o v) \o sRsock
    BY <1>3 DEF InBytes, W, v
  <2> QED BY <1>4, <1>5, <2>1
<1> QED BY <1>1, <1>2, <1>3, <1>5, <1>6, ReadKept

\* If anything is buffered the first buffer has some of it.
LEMMA HeadData ==
    ASSUME NEW l, GoodList(l), l.bufs # <<>>, l.count > 0
    PROVE  l.bufs[1].bytes # <<>>
<1> SUFFICES ASSUME l.bufs[1].bytes = <<>> PROVE FALSE
  OBVIOUS
<1>1. /\ l.bufs \in Seq(Buffer) /\ Len(l.bufs) \in Nat /\ l.dt \in Nat /\ l.n \in Nat /\ Pointed(l) /\ Filled(l)
      /\ l.count = Len(Whole(l.bufs))
  BY ListParts DEF GoodList
<1>2. Len(l.bufs) > 0
  BY <1>1
<1>3. l.dt = 1
  <2>1. l.dt >= 1
    BY <1>1, <1>2 DEF Pointed
  <2>2. ~(1 \in 1 .. l.dt - 1)
    BY <1>1 DEF Filled
  <2> QED BY <1>1, <2>1, <2>2
<1>4. \A i \in 0 + 1 .. Len(l.bufs) : l.bufs[i].bytes = <<>>
  <2>1. \A i \in l.dt + 1 .. Len(l.bufs) : l.bufs[i].bytes = <<>>
    BY <1>1 DEF Filled
  <2> TAKE i \in 0 + 1 .. Len(l.bufs)
  <2>2. i = 1 \/ i \in l.dt + 1 .. Len(l.bufs)
    BY <1>1, <1>3
  <2> QED BY <2>1, <2>2
<1>5. 0 \in 0 .. Len(l.bufs)
  BY <1>1
<1>6. Whole(l.bufs) = Prefixes(l.bufs)[0]
  BY <1>1, <1>4, <1>5, PrefixEmpty DEF Whole
<1>7. Whole(l.bufs) = <<>>
  BY <1>1, <1>6, PrefixesAre
<1> QED BY <1>1, <1>7

\* A step that does not write.
LEMMA WriteKept ==
    ASSUME WriteSide, sW' = sW, sArrived' = sArrived, sWsock' = sWsock, sWritten' = sWritten,
           sPc = "freed" => sPc' = "freed", sPeer = "reset" => sPeer' = "reset"
    PROVE  WriteSide'
<1>1. OutBytes' = OutBytes
  BY DEF OutBytes
<1> QED BY <1>1 DEF WriteSide

\* A reset throws away what the kernel has; nobody waits for it any more.
LEMMA ResetsHolds == ASSUME Stream!UstreamAssumption, WriteSide, Stream!PeerResets PROVE WriteSide'
<1>1. /\ sW' = sW /\ sArrived' = sArrived /\ sWsock' = <<>> /\ sWritten' = sWritten /\ sPc' = sPc /\ sPeer' = "reset"
      /\ sPeer # "reset"
  BY DEF Stream!PeerResets, Stream!user, Stream!where
<1>2. <<>> \in Seq(Nat) /\ Len(<<>>) = 0 /\ Len(<<>>) <= SndBuf
  BY StrConst
<1> QED BY <1>1, <1>2 DEF WriteSide

\* The first element and the others.
LEMMA HeadTailByte ==
    ASSUME NEW s \in Seq(Nat), s # <<>>
    PROVE  <<Head(s)>> \o Tail(s) = s /\ Head(s) \in Nat /\ Tail(s) \in Seq(Nat) /\ Len(Tail(s)) <= Len(s)
<1> DEFINE h == <<Head(s)>>
           t == Tail(s)
<1>1. /\ Head(s) \in Nat /\ Head(s) = s[1] /\ t \in Seq(Nat) /\ Len(t) = Len(s) - 1 /\ Len(s) \in Nat /\ Len(s) > 0
      /\ \A i \in 1 .. Len(s) - 1 : t[i] = s[i + 1]
  OBVIOUS
<1>2. h \in Seq(Nat) /\ Len(h) = 1 /\ h[1] = s[1]
  BY <1>1
<1> HIDE DEF h, t
<1>3. 1 + (Len(s) - 1) = Len(s)
  BY <1>1
<1>4. /\ h \o t \in Seq(Nat) /\ Len(h \o t) = Len(s)
      /\ \A i \in 1 .. Len(s) : (h \o t)[i] = IF i <= 1 THEN h[i] ELSE t[i - 1]
  <2>1. /\ h \o t \in Seq(Nat) /\ Len(h \o t) = Len(h) + Len(t)
        /\ \A i \in 1 .. Len(h) + Len(t) : (h \o t)[i] = IF i <= Len(h) THEN h[i] ELSE t[i - Len(h)]
    BY <1>1, <1>2, ByteJoin, Zenon
  <2>2. Len(h) + Len(t) = Len(s) /\ Len(h) = 1
    BY <1>1, <1>2, <1>3
  <2> QED BY <2>1, <2>2
<1>5. ASSUME NEW i \in 1 .. Len(s) PROVE (h \o t)[i] = s[i]
  <2>1. CASE i <= 1
    <3>1. i = 1
      BY <2>1
    <3> QED BY <1>2, <1>4, <2>1, <3>1
  <2>2. CASE ~(i <= 1)
    <3>1. i - 1 \in 1 .. Len(s) - 1 /\ (i - 1) + 1 = i
      BY <1>1, <2>2
    <3> QED BY <1>1, <1>4, <2>2, <3>1
  <2> QED BY <2>1, <2>2
<1>6. h \o t = s
  BY <1>4, <1>5, SeqEqual
<1> QED BY <1>1, <1>6 DEF h, t

\* The peer reads a byte.
LEMMA PeerReadsHolds == ASSUME Stream!UstreamAssumption, WriteSide, Stream!PeerReads PROVE WriteSide'
<1> DEFINE h == <<Head(sWsock)>>
           t == Tail(sWsock)
           W == Whole(sW.bufs)
<1>1. /\ sW' = sW /\ sArrived' = Append(sArrived, Head(sWsock)) /\ sWsock' = t /\ sWritten' = sWritten
      /\ sPc' = sPc /\ sPeer' = sPeer /\ sWsock # <<>>
  BY DEF Stream!PeerReads, Stream!user, Stream!where
<1>2. sArrived \in Seq(Nat) /\ sWsock \in Seq(Nat) /\ Len(sWsock) <= SndBuf
  BY DEF WriteSide
<1>3. h \o t = sWsock /\ Head(sWsock) \in Nat /\ t \in Seq(Nat) /\ Len(t) <= Len(sWsock)
  BY <1>1, <1>2, HeadTailByte
<1>4. sArrived' = sArrived \o h /\ h \in Seq(Nat) /\ sArrived' \in Seq(Nat)
  BY <1>1, <1>2, <1>3, AppendByte
<1>5. sWsock' \in Seq(Nat) /\ Len(sWsock') <= SndBuf
  <2> DEFINE a == Len(t)
             b == Len(sWsock)
  <2>1. a <= b /\ b <= SndBuf /\ a \in Nat /\ b \in Nat /\ SndBuf \in Nat
    BY <1>2, <1>3, StrConst
  <2> HIDE DEF a, b
  <2>2. a <= SndBuf
    BY <2>1
  <2> QED BY <1>1, <1>3, <2>2 DEF a
<1> HIDE DEF h, t
<1>6. sArrived' \o sWsock' = sArrived \o sWsock
  <2>1. Joined3(sArrived, h, t)
    BY <1>2, <1>3, <1>4, ThreePieces, Zenon
  <2>2. sArrived \o (h \o t) = (sArrived \o h) \o t
    BY <2>1, Zenon DEF Joined3
  <2> QED BY <1>1, <1>3, <1>4, <2>2, Zenon
<1>7. OutBytes' = OutBytes
  BY <1>1, <1>6 DEF OutBytes
<1> QED BY <1>1, <1>4, <1>5, <1>7 DEF WriteSide

\* All of a sequence.
LEMMA TakeAll == ASSUME NEW x \in Seq(Nat) PROVE Stream!Take(x, Len(x)) = x /\ Stream!Take(x, 0) = <<>> /\ Stream!From(x, 0) = x
<1>1. Len(x) \in Nat /\ Len(x) \in 0 .. Len(x) /\ 0 \in 0 .. Len(x) /\ Len(x) - Len(x) = 0
  OBVIOUS
<1> DEFINE y == Stream!Take(x, Len(x))
           z == Stream!From(x, Len(x))
           u == Stream!Take(x, 0)
           v == Stream!From(x, 0)
<1>2. y \in Seq(Nat) /\ z \in Seq(Nat) /\ Len(z) = 0 /\ y \o z = x
  BY <1>1, TakeFrom
<1>3. u \in Seq(Nat) /\ Len(u) = 0 /\ v \in Seq(Nat) /\ u \o v = x
  BY <1>1, TakeFrom
<1> HIDE DEF y, z, u, v
<1>4. z = <<>> /\ u = <<>>
  BY <1>2, <1>3
<1>5. y \o <<>> = y /\ <<>> \o v = v
  BY <1>2, <1>3, ConcatEmptySeq
<1> QED BY <1>2, <1>3, <1>4, <1>5 DEF y, u, v

\* The bytes written after a step by which the user wrote x, and the socket took u.
LEMMA WrittenOn ==
    ASSUME Stream!UstreamAssumption, WriteSide, GoodList(sW), GoodList(sW'),
           sArrived' = sArrived, sPeer' = sPeer,
           NEW u \in Seq(Nat), sWsock' = sWsock \o u, Len(sWsock) + Len(u) <= SndBuf,
           NEW j \in Nat, sWritten' = sWritten + j,
           u \o Whole(sW'.bufs) = Whole(sW.bufs) \o More(sWritten, j)
    PROVE  WriteSide'
<1> DEFINE W == Whole(sW.bufs)
           V == Whole(sW'.bufs)
           x == More(sWritten, j)
<1>1. sArrived \in Seq(Nat) /\ sWsock \in Seq(Nat) /\ sWritten \in Nat
  BY DEF WriteSide
<1>2. W \in Seq(Nat) /\ V \in Seq(Nat) /\ x \in Seq(Nat)
  BY <1>1, GoodBytes, MoreIs
<1>3. sWsock' \in Seq(Nat) /\ Len(sWsock') <= SndBuf
  BY <1>1, ByteJoin
<1>4. u \o V = W \o x
  OBVIOUS
<1> HIDE DEF W, V, x
<1>5. Joined4(sArrived, sWsock, u, V) /\ Joined4(sArrived, sWsock, W, x) /\ Joined3(sArrived, sWsock, W)
  BY <1>1, <1>2, FourPieces, ThreePieces, Zenon
<1>6. OutBytes' = (sArrived \o (sWsock \o u)) \o V /\ OutBytes = (sArrived \o sWsock) \o W
  BY DEF OutBytes, V, W
<1>7. OutBytes' = OutBytes \o x /\ OutBytes \in Seq(Nat)
  BY <1>4, <1>5, <1>6, Zenon DEF Joined4, Joined3
<1>8. ASSUME sPeer' # "reset" PROVE Stream!Count(OutBytes', sWritten')
  <2>1. Stream!Count(OutBytes, sWritten)
    BY <1>8 DEF WriteSide
  <2>2. Stream!Count(OutBytes \o x, sWritten + j)
    BY <1>1, <1>7, <2>1, CountOn DEF x
  <2> QED BY <1>7, <2>2
<1>9. sWritten' \in Nat
  BY <1>1
<1> QED BY <1>1, <1>3, <1>8, <1>9 DEF WriteSide

\* Nothing more was written by the user.
LEMMA NoMore == ASSUME NEW n \in Nat PROVE More(n, 0) = <<>>
BY DEF More

\* ustream_write_pending: what the socket takes leaves the first buffer.
LEMMA WriteNextHolds ==
    ASSUME Stream!UstreamAssumption, WriteSide, Stream!WriteNext
    PROVE  WriteSide'
<1> DEFINE b == sW.bufs[1]
           t == Stream!Smaller(Len(b.bytes), SndBuf - Len(sWsock))
           u == Stream!Take(b.bytes, t)
           c == [sW EXCEPT !.count = @ - t]
           p == [c EXCEPT !.bufs[1] = [off |-> b.off + t, bytes |-> Stream!From(b.bytes, t)]]
<1>1. /\ sPc = "write" /\ sPeer' = sPeer /\ sArrived' = sArrived /\ sWritten' = sWritten
      /\ sW.bufs # <<>> /\ sW.count > 0 /\ sWsock' = sWsock \o u
      /\ \/ t = Len(b.bytes) /\ t # 0 /\ sW' = Stream!FreeHead("w", c)
         \/ (t < Len(b.bytes) \/ t = 0) /\ sW' = p
  BY DEF Stream!WriteNext, Stream!user
<1>2. GoodList(sW) /\ sWsock \in Seq(Nat) /\ Len(sWsock) <= SndBuf /\ Len(sWsock) \in Nat /\ sWritten \in Nat /\ SndBuf \in Nat
  BY <1>1, StrConst DEF WriteSide
<1>3. sW \in BufferList /\ sW.bufs \in Seq(Buffer) /\ b.bytes \in Seq(Nat) /\ b.bytes # <<>>
      /\ Whole(sW.bufs) = b.bytes \o Whole(Tail(sW.bufs))
  BY <1>1, <1>2, ListParts, HeadData, WholeHead DEF GoodList
<1>4. Len(b.bytes) \in Nat /\ Len(b.bytes) > 0
  BY <1>3
<1>5. t \in 0 .. Len(b.bytes) /\ t \in Nat /\ Len(sWsock) + t <= SndBuf
  <2> DEFINE n == Len(b.bytes)
             m == Len(sWsock)
  <2>1. n \in Nat /\ m \in Nat /\ m <= SndBuf /\ SndBuf \in Nat /\ t = Stream!Smaller(n, SndBuf - m)
    BY <1>2, <1>4
  <2> HIDE DEF t, n, m
  <2>2. t \in 0 .. n /\ t \in Nat /\ m + t <= SndBuf
    BY <2>1 DEF Stream!Smaller
  <2> QED BY <2>2 DEF n, m
<1>6. u \in Seq(Nat) /\ Len(u) = t
  BY <1>3, <1>5, TakeFrom
<1>7. GoodList(sW') /\ u \o Whole(sW'.bufs) = Whole(sW.bufs)
  <2>0. sW = [bufs |-> sW.bufs, dt |-> sW.dt, n |-> sW.n, count |-> sW.count]
    BY <1>3 DEF BufferList
  <2>1. CASE t = Len(b.bytes) /\ sW' = Stream!FreeHead("w", c)
    <3>1. c = [sW EXCEPT !.count = sW.count - Len(sW.bufs[1].bytes)]
      BY <2>1
    <3> HIDE DEF c, t
    <3>2. GoodList(sW') /\ Whole(sW'.bufs) = Whole(Tail(sW.bufs))
      BY <1>1, <1>2, <2>1, <3>1, FreedIs
    <3>3. u = b.bytes
      BY <1>3, <2>1, TakeAll
    <3> QED BY <1>3, <3>2, <3>3
  <2>2. CASE (t < Len(b.bytes) \/ t = 0) /\ sW' = p
    <3>1. t < Len(b.bytes)
      BY <1>4, <2>2
    <3> DEFINE d == [off |-> b.off + t, bytes |-> Stream!From(b.bytes, t)]
               e == sW.count - t
    <3>2. sW' = [bufs |-> [sW.bufs EXCEPT ![1] = d], dt |-> sW.dt, n |-> sW.n, count |-> e]
      <4>1. c = [bufs |-> sW.bufs, dt |-> sW.dt, n |-> sW.n, count |-> e]
        BY <2>0
      <4>2. sW' = [c EXCEPT !.bufs[1] = d]
        BY <2>2
      <4> HIDE DEF c, d, e
      <4>3. sW' = [c EXCEPT !.bufs = [c.bufs EXCEPT ![1] = d]] /\ c.bufs = sW.bufs
        BY <4>1, <4>2
      <4> QED BY <4>1, <4>3
    <3> DEFINE w == sW'
    <3>3. w = [bufs |-> [sW.bufs EXCEPT ![1] = [off |-> sW.bufs[1].off + t, bytes |-> Stream!From(sW.bufs[1].bytes, t)]],
               dt |-> sW.dt, n |-> sW.n, count |-> sW.count - t]
      BY <3>2
    <3> HIDE DEF t, w
    <3>4. GoodList(w) /\ Stream!Take(sW.bufs[1].bytes, t) \o Whole(w.bufs) = Whole(sW.bufs)
      BY <1>1, <1>2, <1>5, <3>1, <3>3, SkippedIs
    <3> QED BY <3>4 DEF w
  <2> QED BY <1>1, <2>1, <2>2
<1> HIDE DEF u
<1>8. u \o Whole(sW'.bufs) = Whole(sW.bufs) \o More(sWritten, 0)
  <2>1. Whole(sW.bufs) \o <<>> = Whole(sW.bufs)
    BY <1>2, GoodBytes, ConcatEmptySeq
  <2> QED BY <1>2, <1>7, <2>1, NoMore
<1>9. sWritten' = sWritten + 0 /\ Len(sWsock) + Len(u) <= SndBuf
  BY <1>1, <1>2, <1>5, <1>6
<1> QED BY <1>1, <1>2, <1>6, <1>7, <1>8, <1>9, WrittenOn

\* ustream_write: what the socket does not take goes behind the bytes that wait.
LEMMA WriteHolds ==
    ASSUME Stream!UstreamAssumption, WriteSide, NEW n \in Writes, Stream!Write(n)
    PROVE  WriteSide'
<1> DEFINE x == More(sWritten, n)
           t == IF sW.count = 0 THEN Stream!Smaller(n, SndBuf - Len(sWsock)) ELSE 0
           u == Stream!Take(x, t)
           v == Stream!From(x, t)
           W == Whole(sW.bufs)
<1>1. /\ sPc \in {"idle", "notify"} /\ sPeer' = sPeer /\ sArrived' = sArrived /\ sPc' = sPc
      /\ \/ sW' = sW /\ sWsock' = sWsock /\ sWritten' = sWritten
         \/ sWsock' = sWsock \o u /\ sW' = Stream!Buffered(sW, v) /\ sWritten' = sWritten + n
  BY DEF Stream!Write, Stream!where, More
<1>2. CASE sW' = sW /\ sWsock' = sWsock /\ sWritten' = sWritten
  BY <1>1, <1>2, WriteKept
<1>3. CASE sWsock' = sWsock \o u /\ sW' = Stream!Buffered(sW, v) /\ sWritten' = sWritten + n
  <2>1. /\ GoodList(sW) /\ sWsock \in Seq(Nat) /\ Len(sWsock) <= SndBuf /\ Len(sWsock) \in Nat
        /\ sWritten \in Nat /\ SndBuf \in Nat /\ n \in Nat
    BY <1>1, StrConst DEF WriteSide
  <2>2. x \in Seq(Nat) /\ Len(x) = n /\ W \in Seq(Nat) /\ sW.count = Len(W)
    BY <2>1, MoreIs, GoodBytes
  <2>3. t \in 0 .. n /\ Len(sWsock) + t <= SndBuf
    <3> DEFINE m == Len(sWsock)
    <3>1. m \in Nat /\ m <= SndBuf
      BY <2>1
    <3> HIDE DEF m
    <3>2. (IF sW.count = 0 THEN Stream!Smaller(n, SndBuf - m) ELSE 0) \in 0 .. n
      BY <2>1, <3>1 DEF Stream!Smaller
    <3>3. m + (IF sW.count = 0 THEN Stream!Smaller(n, SndBuf - m) ELSE 0) <= SndBuf
      BY <2>1, <3>1 DEF Stream!Smaller
    <3> QED BY <3>2, <3>3 DEF m
  <2>4. sW.count # 0 => t = 0
    OBVIOUS
  <2> HIDE DEF x, t, W
  <2>5. u \in Seq(Nat) /\ Len(u) = t /\ v \in Seq(Nat) /\ u \o v = x
    BY <2>2, <2>3, TakeFrom
  <2>6. W = <<>> \/ u = <<>>
    <3>1. CASE sW.count = 0
      <4>0. W \in Seq(Nat) /\ Len(W) = 0
        BY <2>2, <3>1
      <4>1. W = <<>>
        BY <4>0
      <4> QED BY <4>1
    <3>2. CASE sW.count # 0
      BY <2>2, <2>4, <3>2, TakeAll
    <3> QED BY <3>1, <3>2
  <2> HIDE DEF u, v
  <2>7. GoodList(sW') /\ Whole(sW'.bufs) = W \o v
    BY <1>3, <2>1, <2>5, BufferedIs DEF W
  <2>8. u \o (W \o v) = W \o x
    <3>0. W \o v \in Seq(Nat)
      BY <2>2, <2>5, ByteJoin
    <3>1. CASE W = <<>>
      <4>1. <<>> \o v = v /\ <<>> \o x = x
        BY <2>2, <2>5, ConcatEmptySeq
      <4> QED BY <2>5, <3>1, <4>1
    <3>2. CASE u = <<>>
      <4>1. <<>> \o v = v /\ <<>> \o (W \o v) = W \o v
        BY <2>5, <3>0, ConcatEmptySeq
      <4> QED BY <2>5, <3>2, <4>1
    <3> QED BY <2>6, <3>1, <3>2
  <2>9. u \o Whole(sW'.bufs) = Whole(sW.bufs) \o More(sWritten, n)
    BY <2>7, <2>8 DEF W, x
  <2>10. Len(sWsock) + Len(u) <= SndBuf
    BY <2>3, <2>5
  <2> QED BY <1>1, <1>3, <2>1, <2>5, <2>7, <2>9, <2>10, WrittenOn
<1> QED BY <1>1, <1>2, <1>3

\* ustream_vprintf: all of it goes behind the bytes that wait.
LEMMA PrintfHolds ==
    ASSUME Stream!UstreamAssumption, WriteSide, NEW n \in Writes, Stream!Printf(n)
    PROVE  WriteSide'
<1> DEFINE x == More(sWritten, n)
<1>1. /\ sPc \in {"idle", "notify"} /\ sPeer' = sPeer /\ sArrived' = sArrived /\ sWsock' = sWsock
      /\ sW' = Stream!Printed(sW, x) /\ sWritten' = sWritten + n
  BY DEF Stream!Printf, Stream!socket, More
<1>2. GoodList(sW) /\ sWsock \in Seq(Nat) /\ Len(sWsock) <= SndBuf /\ sWritten \in Nat /\ n \in Nat /\ SndBuf \in Nat
  BY <1>1, StrConst DEF WriteSide
<1>3. x \in Seq(Nat)
  BY <1>2, MoreIs
<1> HIDE DEF x
<1>4. GoodList(sW') /\ Whole(sW'.bufs) = Whole(sW.bufs) \o x
  BY <1>1, <1>2, <1>3, PrintedIs
<1>5. Whole(sW'.bufs) \in Seq(Nat)
  BY <1>4, GoodBytes
<1> DEFINE u == <<>>
           V == Whole(sW'.bufs)
<1>6. u \in Seq(Nat) /\ Len(u) = 0 /\ sWsock \o u = sWsock
  BY <1>2, ConcatEmptySeq
<1>7. <<>> \o V = V
  <2> HIDE DEF V
  <2>1. V \in Seq(Nat)
    BY <1>5 DEF V
  <2> QED BY <2>1, ConcatEmptySeq
<1>8. u \o Whole(sW'.bufs) = Whole(sW.bufs) \o More(sWritten, n)
  BY <1>4, <1>7 DEF x
<1>9. sWsock' = sWsock \o u /\ Len(sWsock) + Len(u) <= SndBuf
  BY <1>1, <1>2, <1>6
<1> HIDE DEF u
<1> QED BY <1>1, <1>2, <1>4, <1>6, <1>8, <1>9, WrittenOn

\* ustream_state_change_cb: the bytes that wait are given up only after a write error.
LEMMA StateChangeHolds ==
    ASSUME WriteSide, PollSide, Stream!StateChange
    PROVE  WriteSide'
<1>1. /\ sPc = "idle" /\ sPeer' = sPeer /\ sArrived' = sArrived /\ sWsock' = sWsock /\ sWritten' = sWritten
      /\ sW' = IF sWerror THEN [sW EXCEPT !.bufs = <<>>, !.dt = 0] ELSE sW
      /\ sWerror => sPc' = "freed"
  BY DEF Stream!StateChange, Stream!socket, Stream!user
<1>2. GoodList(sW)
  BY <1>1 DEF WriteSide
<1>3. CASE ~sWerror
  BY <1>1, <1>3, WriteKept
<1>4. CASE sWerror
  <2>1. sW = [bufs |-> sW.bufs, dt |-> sW.dt, n |-> sW.n, count |-> sW.count]
    BY <1>2 DEF GoodList, BufferList
  <2>2. sW'.bufs = <<>>
    BY <1>1, <1>4, <2>1
  <2>3. sPc' = "freed" /\ sPeer' = "reset"
    BY <1>1, <1>4 DEF PollSide
  <2> QED BY <1>1, <2>2, <2>3 DEF WriteSide
<1> QED BY <1>3, <1>4

-----------------------------------------------------------------------------
(* The descriptor and the callback's place.                                  *)

\* What a step leaves of the descriptor's registration.
Polled ==
    /\ sInterest' \subseteq {"r", "w"} /\ sReady' \in BOOLEAN /\ sFderror' \in BOOLEAN
    /\ sFderror' => sPeer = "reset"

\* The registration is left alone.
LEMMA PollKept == ASSUME PollSide, UNCHANGED Stream!poll PROVE Polled
<1>1. sInterest' = sInterest /\ sReady' = sReady /\ sFderror' = sFderror
  BY DEF Stream!poll
<1> QED BY <1>1, Zenon DEF PollSide, Polled

\* ustream_fd_set_uloop asks for reading and writing, and forgets the error.
LEMMA SetUloopHolds ==
    ASSUME PollSide, NEW bl, NEW e, NEW we, NEW wl, NEW write, NEW ws,
           Stream!SetUloop(Stream!Flags(bl, e, we, wl, write), ws)
    PROVE  Polled
<1> DEFINE f == Stream!Flags(bl, e, we, wl, write)
<1>1. f \subseteq {"r", "w"}
  BY DEF Stream!Flags
<1> HIDE DEF f
<1>2. sInterest' = f /\ sReady' = (f # {} /\ (sReady \/ Stream!Fired(f, ws) # {})) /\ sFderror' = (f = {} /\ sFderror)
  BY DEF Stream!SetUloop, f
<1>3. sReady' \in BOOLEAN /\ sFderror' \in BOOLEAN /\ (sFderror' => sFderror)
  BY <1>2, Zenon
<1>4. sFderror => sPeer = "reset"
  BY DEF PollSide
<1> QED BY <1>1, <1>2, <1>3, <1>4, Zenon DEF Polled

\* The part of the callback and of the connection, for the next state.
LEMMA PollNext ==
    ASSUME PollSide, Polled, sPeer' = sPeer,
           sPc' \in {"idle", "read", "notify", "write", "written", "error", "freed"},
           sBlocked' \in BOOLEAN, sEof' \in BOOLEAN, sWerror' \in BOOLEAN, sTimer' \in BOOLEAN,
           sWerror' => sPeer = "reset"
    PROVE  PollSide'
<1>1. sPeer' \in {"open", "shut", "reset"}
  BY Zenon DEF PollSide
<1> QED BY <1>1, Zenon DEF PollSide, Polled

\* What the poll side says of the flags.
LEMMA PollFlags ==
    ASSUME PollSide
    PROVE  /\ sBlocked \in BOOLEAN /\ sEof \in BOOLEAN /\ sWerror \in BOOLEAN /\ sTimer \in BOOLEAN
           /\ sReady \in BOOLEAN /\ sFderror \in BOOLEAN
           /\ sWerror => sPeer = "reset"
           /\ sPc \in {"idle", "read", "notify", "write", "written", "error", "freed"}
BY Zenon DEF PollSide

\* The peer sends, shuts, resets or reads.
LEMMA PeerPolls ==
    ASSUME PollSide, Stream!Peer \/ Stream!PeerReads
    PROVE  PollSide' /\ sPc' = sPc /\ (sPeer = "reset" => sPeer' = "reset")
<1>1. /\ sPc' = sPc /\ sBlocked' = sBlocked /\ sEof' = sEof /\ sWerror' = sWerror /\ sTimer' = sTimer
      /\ sInterest' = sInterest /\ sFderror' = sFderror
  BY DEF Stream!Peer, Stream!PeerSends, Stream!PeerShuts, Stream!PeerResets, Stream!PeerReads, Stream!state, Stream!where
<1>2. sReady' \in BOOLEAN
  <2>1. \/ sReady' = (sReady \/ "r" \in sInterest) \/ sReady' = (sReady \/ sInterest # {})
        \/ sReady' = (sReady \/ ("w" \in sInterest /\ Len(sWsock) = SndBuf))
    BY DEF Stream!Peer, Stream!PeerSends, Stream!PeerShuts, Stream!PeerResets, Stream!PeerReads
  <2> QED BY <2>1, Zenon
<1>3. (sPeer' = sPeer \/ sPeer' \in {"shut", "reset"}) /\ (sPeer = "reset" => sPeer' = "reset")
  BY DEF Stream!Peer, Stream!PeerSends, Stream!PeerShuts, Stream!PeerResets, Stream!PeerReads
<1>4. sPeer' \in {"open", "shut", "reset"}
  BY <1>3, Zenon DEF PollSide
<1> QED BY <1>1, <1>2, <1>3, <1>4, Zenon DEF PollSide

\* ustream_uloop_cb starts: epoll reports an error of a connection that is reset.
LEMMA EventPolls == ASSUME PollSide, Stream!Event PROVE PollSide' /\ sPeer' = sPeer
<1> DEFINE e == Stream!Fired(sInterest, sWsock)
<1>1. "error" \in e => sPeer = "reset"
  BY DEF Stream!Fired
<1> HIDE DEF e
<1>2. /\ sReady' = FALSE /\ sFderror' = (sFderror \/ "error" \in e) /\ sInterest' = sInterest /\ sPeer' = sPeer
      /\ sPc' = IF e = {} THEN "idle" ELSE IF "r" \in e THEN "read" ELSE IF "w" \in e THEN "write" ELSE "error"
      /\ sBlocked' = sBlocked /\ sEof' = sEof /\ sWerror' = sWerror /\ sTimer' = sTimer
  BY DEF Stream!Event, Stream!socket, Stream!state, e
<1>3. sPc' \in {"idle", "read", "write", "error"}
  BY <1>2
<1>4. Polled
  <2>1. sReady' \in BOOLEAN /\ sFderror' \in BOOLEAN /\ (sFderror' => sFderror \/ "error" \in e)
    BY <1>2, Zenon
  <2> QED BY <1>1, <1>2, <2>1, Zenon DEF PollSide, Polled
<1>5. sPc' \in {"idle", "read", "notify", "write", "written", "error", "freed"}
  BY <1>3
<1> QED BY <1>2, <1>4, <1>5, PollFlags, PollNext

\* The callback reads.
LEMMA ReadPolls ==
    ASSUME PollSide, Stream!ReadFull \/ Stream!ReadSome \/ Stream!ReadNone \/ Stream!ReadEnd
    PROVE  PollSide' /\ sPeer' = sPeer
<1>1. sPeer' = sPeer /\ sWerror' = sWerror
  BY DEF Stream!ReadFull, Stream!ReadSome, Stream!ReadNone, Stream!ReadEnd, Stream!socket, Stream!state
<1>2. sPc' \in {"idle", "read", "notify", "write", "written", "error", "freed"}
  BY DEF Stream!ReadFull, Stream!ReadSome, Stream!ReadNone, Stream!ReadEnd, Stream!AfterRead
<1>3. sBlocked' \in BOOLEAN /\ sEof' \in BOOLEAN /\ sTimer' \in BOOLEAN
  <2>1. sBlocked' = sBlocked \/ sBlocked' = TRUE
    BY DEF Stream!ReadFull, Stream!ReadSome, Stream!ReadNone, Stream!ReadEnd, Stream!state
  <2>2. sEof' = sEof \/ sEof' = TRUE
    BY DEF Stream!ReadFull, Stream!ReadSome, Stream!ReadNone, Stream!ReadEnd, Stream!state
  <2>3. sTimer' = sTimer \/ sTimer' = (sTimer \/ ~sEof)
    BY DEF Stream!ReadFull, Stream!ReadSome, Stream!ReadNone, Stream!ReadEnd, Stream!state
  <2> QED BY <2>1, <2>2, <2>3, PollFlags, Zenon
<1>4. Polled
  <2>1. \/ UNCHANGED Stream!poll
        \/ Stream!SetUloop(Stream!Flags(TRUE, sEof, sWerror, sW, FALSE), sWsock)
        \/ Stream!SetUloop(Stream!Flags(sBlocked, TRUE, sWerror, sW, FALSE), sWsock)
    BY Zenon DEF Stream!ReadFull, Stream!ReadSome, Stream!ReadNone, Stream!ReadEnd
  <2> QED BY <2>1, PollKept, SetUloopHolds
<1> QED BY <1>1, <1>2, <1>3, <1>4, PollFlags, PollNext

\* The callback writes; a write fails on a connection that is reset.
LEMMA WritePolls ==
    ASSUME PollSide, Stream!WriteNext \/ Stream!WriteFails \/ Stream!WriteEnd \/ Stream!Written \/ Stream!Error
    PROVE  PollSide' /\ sPeer' = sPeer
<1>1. sPeer' = sPeer /\ sBlocked' = sBlocked /\ sEof' = sEof
  BY DEF Stream!WriteNext, Stream!WriteFails, Stream!WriteEnd, Stream!Written, Stream!Error, Stream!socket, Stream!state
<1>2. sPc' \in {"idle", "read", "notify", "write", "written", "error", "freed"}
  BY DEF Stream!WriteNext, Stream!WriteFails, Stream!WriteEnd, Stream!Written, Stream!Error, PollSide
<1>3. sTimer' \in BOOLEAN
  <2>1. sTimer' = sTimer \/ sTimer' = TRUE \/ sTimer' = (sTimer \/ (sEof /\ sWr > 0 /\ sW.count = 0))
    BY DEF Stream!WriteNext, Stream!WriteFails, Stream!WriteEnd, Stream!Written, Stream!Error, Stream!state
  <2> QED BY <2>1, PollFlags, Zenon
<1>4. sWerror' \in BOOLEAN /\ (sWerror' => sPeer = "reset")
  <2>1. sWerror' = sWerror \/ (sWerror' = TRUE /\ (sPeer = "reset" \/ sFderror))
    BY Zenon DEF Stream!WriteNext, Stream!WriteFails, Stream!WriteEnd, Stream!Written, Stream!Error, Stream!state
  <2>2. CASE sWerror' = sWerror
    BY <2>2, PollFlags
  <2>3. CASE sWerror' = TRUE /\ (sPeer = "reset" \/ sFderror)
    <3>1. sPeer = "reset"
      BY <2>3, Zenon DEF PollSide
    <3> QED BY <2>3, <3>1
  <2> QED BY <2>1, <2>2, <2>3
<1>5. Polled
  <2>1. CASE UNCHANGED Stream!poll
    BY <2>1, PollKept
  <2>2. CASE \E q : Stream!SetUloop(Stream!Flags(sBlocked, sEof, sWerror, sW, TRUE), q)
    BY <2>2, SetUloopHolds
  <2>3. CASE Stream!SetUloop(Stream!Flags(sBlocked, sEof, sWerror, sW, FALSE), sWsock)
    BY <2>3, SetUloopHolds
  <2>4. CASE Stream!SetUloop(Stream!Flags(sBlocked, sEof, TRUE, sW, FALSE), sWsock)
    BY <2>4, SetUloopHolds
  <2> QED BY <2>1, <2>2, <2>3, <2>4, Zenon DEF Stream!WriteNext, Stream!WriteFails, Stream!WriteEnd, Stream!Written, Stream!Error
<1> QED BY <1>1, <1>2, <1>3, <1>4, <1>5, PollFlags, PollNext

\* ustream_state_change_cb and the user's notify_state.
LEMMA ChangePolls == ASSUME PollSide, Stream!StateChange PROVE PollSide' /\ sPeer' = sPeer
<1>1. /\ sPeer' = sPeer /\ sBlocked' = sBlocked /\ sEof' = sEof /\ sTimer' = FALSE /\ sWerror' = sWerror
      /\ sFderror' = sFderror
      /\ \/ sPc' = "freed" /\ sInterest' = {} /\ sReady' = FALSE
         \/ sPc' = sPc /\ sInterest' = sInterest /\ sReady' = sReady
  BY DEF Stream!StateChange, Stream!socket
<1>2. sPc' \in {"idle", "read", "notify", "write", "written", "error", "freed"}
  BY <1>1, PollFlags
<1>3. Polled
  <2>1. sInterest' \subseteq {"r", "w"} /\ sReady' \in BOOLEAN
    BY <1>1, Zenon DEF PollSide
  <2> QED BY <1>1, <2>1, Zenon DEF PollSide, Polled
<1> QED BY <1>1, <1>2, <1>3, PollFlags, PollNext

\* The user takes bytes.
LEMMA TakePolls ==
    ASSUME PollSide, NEW k, Stream!Notify(k) \/ Stream!Consume(k)
    PROVE  PollSide' /\ sPeer' = sPeer
<1>1. sPeer' = sPeer /\ sEof' = sEof /\ sTimer' = sTimer /\ sWerror' = sWerror /\ (sBlocked' = sBlocked \/ sBlocked' = FALSE)
  BY DEF Stream!Notify, Stream!Consume, Stream!socket, Stream!state
<1>2. sPc' \in {"idle", "read", "notify", "write", "written", "error", "freed"}
  BY DEF Stream!Notify, Stream!Consume, Stream!where
<1>3. Polled
  <2>1. UNCHANGED Stream!poll \/ Stream!SetUloop(Stream!Flags(FALSE, sEof, sWerror, sW, FALSE), sWsock)
    BY Zenon DEF Stream!Notify, Stream!Consume
  <2> QED BY <2>1, PollKept, SetUloopHolds
<1>4. sBlocked' \in BOOLEAN
  BY <1>1, PollFlags, Zenon
<1> QED BY <1>1, <1>2, <1>3, <1>4, PollFlags, PollNext

\* The user writes.
LEMMA UserPolls ==
    ASSUME PollSide, NEW n, Stream!Write(n) \/ Stream!Printf(n)
    PROVE  PollSide' /\ sPeer' = sPeer
<1>1. sPeer' = sPeer /\ sEof' = sEof /\ sBlocked' = sBlocked /\ sPc' = sPc
  BY Zenon DEF Stream!Write, Stream!Printf, Stream!socket, Stream!state, Stream!where
<1>2. \/ sWerror' = sWerror /\ sTimer' = sTimer
      \/ sWerror' = TRUE /\ sTimer' = TRUE /\ sPeer = "reset"
  BY Zenon DEF Stream!Write, Stream!Printf, Stream!state
<1>3. Polled
  <2>1. CASE UNCHANGED Stream!poll
    BY <2>1, PollKept
  <2>2. CASE \E q : Stream!SetUloop(Stream!Flags(sBlocked, sEof, sWerror, sW, TRUE), q)
    BY <2>2, SetUloopHolds
  <2> QED BY <2>1, <2>2, Zenon DEF Stream!Write, Stream!Printf, Stream!poll
<1>4. sWerror' \in BOOLEAN /\ sTimer' \in BOOLEAN /\ (sWerror' => sPeer = "reset")
  <2>1. CASE sWerror' = sWerror /\ sTimer' = sTimer
    BY <2>1, PollFlags
  <2>2. CASE sWerror' = TRUE /\ sTimer' = TRUE /\ sPeer = "reset"
    BY <2>2
  <2> QED BY <1>2, <2>1, <2>2
<1> QED BY <1>1, <1>3, <1>4, PollFlags, PollNext

-----------------------------------------------------------------------------
(* The invariant holds for ever.                                             *)

\* A step that leaves the read side alone.
LEMMA ReadSame ==
    ASSUME ReadSide, sR' = sR, sGot' = sGot, sRsock' = sRsock, sSent' = sSent
    PROVE  ReadSide'
<1>1. InBytes' = InBytes
  BY DEF InBytes
<1> QED BY <1>1 DEF ReadSide

\* The peer's steps.
LEMMA PeerStep == ASSUME Stream!UstreamAssumption, StrInv, Stream!Peer \/ Stream!PeerReads PROVE StrInv'
<1>1. PollSide' /\ sPc' = sPc /\ (sPeer = "reset" => sPeer' = "reset")
  BY PeerPolls DEF StrInv
<1>2. CASE Stream!PeerSends
  <2>1. ReadSide'
    BY <1>2, SendsHolds DEF StrInv
  <2>2. WriteSide'
    BY <1>1, <1>2, WriteKept DEF StrInv, Stream!PeerSends, Stream!user
  <2> QED BY <1>1, <2>1, <2>2 DEF StrInv
<1>3. CASE Stream!PeerShuts
  <2>1. ReadSide'
    BY <1>3, ReadSame DEF StrInv, Stream!PeerShuts, Stream!user
  <2>2. WriteSide'
    BY <1>1, <1>3, WriteKept DEF StrInv, Stream!PeerShuts, Stream!user
  <2> QED BY <1>1, <2>1, <2>2 DEF StrInv
<1>4. CASE Stream!PeerResets
  <2>1. ReadSide'
    BY <1>4, ReadSame DEF StrInv, Stream!PeerResets, Stream!user
  <2> QED BY <1>1, <1>4, <2>1, ResetsHolds DEF StrInv
<1>5. CASE Stream!PeerReads
  <2>1. ReadSide'
    BY <1>5, ReadSame DEF StrInv, Stream!PeerReads, Stream!user
  <2> QED BY <1>1, <1>5, <2>1, PeerReadsHolds DEF StrInv
<1> QED BY <1>2, <1>3, <1>4, <1>5 DEF Stream!Peer

\* Steps of the callback that take or put no bytes.
LEMMA QuietStep ==
    ASSUME StrInv, Stream!Event \/ Stream!ReadFull \/ Stream!WriteFails \/ Stream!WriteEnd \/ Stream!Written \/ Stream!Error
    PROVE  StrInv'
<1>1. PollSide' /\ sPeer' = sPeer
  BY EventPolls, ReadPolls, WritePolls DEF StrInv
<1>2. /\ sR' = sR /\ sW' = sW /\ sGot' = sGot /\ sWritten' = sWritten
      /\ sRsock' = sRsock /\ sWsock' = sWsock /\ sSent' = sSent /\ sArrived' = sArrived
  BY DEF Stream!Event, Stream!ReadFull, Stream!WriteFails, Stream!WriteEnd, Stream!Written, Stream!Error, Stream!socket, Stream!user
<1>3. sPc # "freed"
  BY DEF Stream!Event, Stream!ReadFull, Stream!WriteFails, Stream!WriteEnd, Stream!Written, Stream!Error
<1> QED BY <1>1, <1>2, <1>3, ReadSame, WriteKept DEF StrInv

\* The callback reads, or the user takes bytes.
LEMMA ReadStep ==
    ASSUME Stream!UstreamAssumption, StrInv,
           \/ Stream!ReadSome \/ Stream!ReadNone \/ Stream!ReadEnd
           \/ \E k \in 0 .. sR.count : Stream!Notify(k)
           \/ Stream!Consumes
    PROVE  StrInv'
<1>1. PollSide' /\ sPeer' = sPeer
  BY ReadPolls, TakePolls DEF StrInv, Stream!Consumes
<1>2. ReadSide'
  <2>1. CASE Stream!ReadSome
    BY <2>1, ReadSomeHolds DEF StrInv
  <2>2. CASE Stream!ReadNone \/ Stream!ReadEnd
    BY <2>2, ReadNothingHolds DEF StrInv
  <2>3. ASSUME NEW k \in 0 .. sR.count, Stream!Notify(k) \/ Stream!Consume(k) PROVE ReadSide'
    <3>1. /\ sGot' = sGot \o Stream!Take(Stream!Flat(sR), k) /\ sR' = Stream!Consumed(sR, k)
          /\ sRsock' = sRsock /\ sSent' = sSent
      BY <2>3, Zenon DEF Stream!Notify, Stream!Consume, Stream!socket
    <3> QED BY <3>1, TakenHolds DEF StrInv
  <2>4. CASE Stream!Consumes
    <3>1. PICK k \in 1 .. sR.count : Stream!Consume(k)
      BY <2>4 DEF Stream!Consumes
    <3>2. sR.count \in Nat
      BY ListParts DEF StrInv, ReadSide, GoodList
    <3>3. k \in 0 .. sR.count
      BY <3>2
    <3> QED BY <2>3, <3>1, <3>3
  <2> QED BY <2>1, <2>2, <2>3, <2>4
<1>3. WriteSide'
  <2>1. sW' = sW /\ sArrived' = sArrived /\ sWsock' = sWsock /\ sWritten' = sWritten
    BY Zenon DEF Stream!ReadSome, Stream!ReadNone, Stream!ReadEnd, Stream!Notify, Stream!Consumes, Stream!Consume, Stream!socket, Stream!user
  <2>2. sPc # "freed"
    BY DEF Stream!ReadSome, Stream!ReadNone, Stream!ReadEnd, Stream!CanRead, Stream!Notify, Stream!Consumes, Stream!Consume
  <2> QED BY <1>1, <2>1, <2>2, WriteKept DEF StrInv
<1> QED BY <1>1, <1>2, <1>3 DEF StrInv

\* The callback or the user writes, or the user is told of a change.
LEMMA WriteStep ==
    ASSUME Stream!UstreamAssumption, StrInv,
           Stream!WriteNext \/ Stream!StateChange \/ \E n \in Writes : Stream!Write(n) \/ Stream!Printf(n)
    PROVE  StrInv'
<1>1. PollSide'
  BY WritePolls, ChangePolls, UserPolls DEF StrInv
<1>2. WriteSide'
  BY WriteNextHolds, StateChangeHolds, WriteHolds, PrintfHolds DEF StrInv
<1>3. sR' = sR /\ sGot' = sGot /\ sRsock' = sRsock /\ sSent' = sSent
  BY Zenon DEF Stream!WriteNext, Stream!StateChange, Stream!Write, Stream!Printf, Stream!socket, Stream!user
<1> QED BY <1>1, <1>2, <1>3, ReadSame DEF StrInv

\* Every step keeps the invariant.
LEMMA StrStep == ASSUME Stream!UstreamAssumption, StrInv, [Stream!Next]_Stream!vars PROVE StrInv'
<1>1. CASE Stream!Next
  <2>1. CASE Stream!Peer \/ Stream!PeerReads
    BY <2>1, PeerStep
  <2>2. CASE Stream!Event \/ Stream!ReadFull \/ Stream!WriteFails \/ Stream!WriteEnd \/ Stream!Written \/ Stream!Error
    BY <2>2, QuietStep
  <2>3. CASE \/ Stream!ReadSome \/ Stream!ReadNone \/ Stream!ReadEnd
             \/ \E k \in 0 .. sR.count : Stream!Notify(k)
             \/ Stream!Consumes
    BY <2>3, ReadStep
  <2>4. CASE Stream!WriteNext \/ Stream!StateChange \/ \E n \in Writes : Stream!Write(n) \/ Stream!Printf(n)
    BY <2>4, WriteStep
  <2> QED BY <1>1, <2>1, <2>2, <2>3, <2>4, Zenon DEF Stream!Next, Stream!Loop
<1>2. CASE UNCHANGED Stream!vars
  <2>1. UNCHANGED <<sR, sW, sRsock, sWsock, sPeer, sSent, sGot, sWritten, sArrived>>
    BY <1>2 DEF Stream!vars
  <2>2. UNCHANGED <<sBlocked, sEof, sWerror, sTimer, sInterest, sReady, sFderror, sPc>>
    BY <1>2 DEF Stream!vars
  <2>3. ReadSide' /\ WriteSide'
    BY <2>1, <2>2, ReadSame, WriteKept DEF StrInv
  <2>4. PollSide'
    BY <2>1, <2>2, Zenon DEF StrInv, PollSide
  <2> QED BY <2>3, <2>4 DEF StrInv
<1> QED BY <1>1, <1>2

\* What a good list is, in the model's words.
LEMMA GoodMeans ==
    ASSUME NEW l, GoodList(l)
    PROVE  /\ Stream!BufsOK(l) /\ l.n = Len(l.bufs) /\ l.count = Len(Stream!Flat(l))
           /\ l.dt \in 0 .. l.n /\ (l.n > 0 => l.dt # 0)
<1>1. l.bufs \in Seq(Buffer) /\ Filled(l) /\ Pointed(l) /\ l.count = Len(Whole(l.bufs))
  BY ListParts DEF GoodList
<1>2. ASSUME NEW i \in 1 .. Len(l.bufs) PROVE l.bufs[i].off >= 0 /\ Stream!Tail_(l.bufs[i]) <= StreamBuf
  <2>1. l.bufs[i] \in Buffer
    BY <1>1
  <2>2. l.bufs[i].off \in Nat
    BY <2>1 DEF Buffer
  <2>3. l.bufs[i].off + Len(l.bufs[i].bytes) <= StreamBuf
    BY <1>1 DEF Filled
  <2> QED BY <2>2, <2>3 DEF Stream!Tail_
<1>3. Stream!BufsOK(l)
  BY <1>2 DEF Stream!BufsOK
<1> QED BY <1>1, <1>3, FlatWhole DEF Pointed

\* The invariant says what the runs check.
LEMMA StrMeans == ASSUME StrInv PROVE Stream!StreamSound
<1>1. GoodList(sR) /\ sR.n <= 1 /\ Stream!Count(InBytes, sSent)
  BY DEF StrInv, ReadSide
<1>2. /\ GoodList(sW) \/ (sPc = "freed" /\ sPeer = "reset" /\ sW.bufs = <<>>)
      /\ Len(sWsock) <= SndBuf /\ (sPeer # "reset" => Stream!Count(OutBytes, sWritten))
  BY DEF StrInv, WriteSide
<1>3. Stream!ReadInOrder
  BY <1>1, FlatWhole DEF Stream!ReadInOrder, InBytes
<1>4. Stream!WriteInOrder
  BY <1>2, FlatWhole DEF Stream!WriteInOrder, OutBytes
<1>5. Stream!HeadHasData
  <2>1. CASE GoodList(sW)
    BY <2>1, HeadData DEF Stream!HeadHasData
  <2>2. CASE sW.bufs = <<>>
    BY <2>2 DEF Stream!HeadHasData
  <2> QED BY <1>2, <2>1, <2>2
<1>6. Stream!TypeOK
  <2>1. Stream!BufsOK(sW)
    <3>1. CASE GoodList(sW)
      BY <3>1, GoodMeans
    <3>2. CASE sW.bufs = <<>>
      BY <3>2 DEF Stream!BufsOK
    <3> QED BY <1>2, <3>1, <3>2
  <2>2. \A l \in {sR, sW} : sPc # "freed" =>
           /\ l.n = Len(l.bufs) /\ l.count = Len(Stream!Flat(l))
           /\ l.dt \in 0 .. l.n /\ (l.n > 0 => l.dt # 0)
    <3> TAKE l \in {sR, sW}
    <3> HAVE sPc # "freed"
    <3>1. GoodList(l)
      BY <1>1, <1>2
    <3> QED BY <3>1, GoodMeans
  <2>3. {sBlocked, sEof, sWerror, sTimer, sReady, sFderror} \subseteq BOOLEAN
    BY Zenon DEF StrInv, PollSide
  <2>4. /\ sPeer \in {"open", "shut", "reset"} /\ sInterest \subseteq {"r", "w"}
        /\ sPc \in {"idle", "read", "notify", "write", "written", "error", "freed"}
    BY Zenon DEF StrInv, PollSide
  <2>5. Stream!BufsOK(sR)
    BY <1>1, GoodMeans
  <2> QED BY <1>1, <1>2, <2>1, <2>2, <2>3, <2>4, <2>5, Zenon DEF Stream!TypeOK
<1> QED BY <1>3, <1>4, <1>5, <1>6 DEF Stream!StreamSound

\* What goes through a buffered stream comes out in order, in either direction: none of
\* the peer's bytes is lost, doubled or overtaken on the way to the user, wherever
\* reading was stopped and taken up, nor any of the user's on the way to a peer that has
\* not reset the connection, whether it went to the socket or by the buffers; and the
\* lists of buffers are what their counters say (ustream_prepare_buf, ustream_free_buf,
\* ustream_consume, ustream_write, ustream_write_pending).
THEOREM StreamsStaySound == (Stream!Spec => []Stream!StreamSound) /\ (MCSpec => []StreamSound)
<1>1. Stream!Init => StrInv
  BY MCLoopAssumption, StrInit
<1>2. StrInv /\ [Stream!Next]_Stream!vars => StrInv'
  BY MCLoopAssumption, StrStep
<1>3. StrInv => Stream!StreamSound /\ StreamSound
  BY MCLoopAssumption, StrMeans DEF StreamSound
<1>4. MCInit => Stream!Init
  BY DEF MCInit
<1>5. [MCNext]_mcVars => [Stream!Next]_Stream!vars
  BY LoopParts
<1> QED BY <1>1, <1>2, <1>3, <1>4, <1>5, PTL DEF Stream!Spec, MCSpec
=============================================================================
