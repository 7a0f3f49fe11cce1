-------------------------- MODULE TcpFramingProofs --------------------------
(***************************************************************************)
(* Proofs about TcpFraming, for any number of frames, any frame lengths and  *)
(* any sizes of header, buffer and body: the invariants, and that the bytes  *)
(* implement FrameService.                                                   *)
(***************************************************************************)
EXTENDS TcpFraming, TLAPS, SequenceTheorems, WellFoundedInduction

\* The byte up to which the stream is settled: the header of the request
\* being assembled or else the read position.
Mark == IF state = "DATA" THEN hdr ELSE used

\* A request under assembly belongs to one frame, and what it has copied and
\* what it still wants make up the rest of that frame.
RequestOf(i) ==
    /\ kind[i] \in {"cmd", "key"}
    /\ hdr = start[i]
    /\ contentLen = FLen(i) - Skip(kind[i])
    /\ used + Wanted = start[i + 1]
    /\ BodyFrom = start[i] + Skip(kind[i])
    /\ BodyFrom + post = used
    /\ post > 0 => remain > 0

RequestInv ==
    pc # "spin" =>
        /\ state = "DATA" => \E i \in Frames : RequestOf(i)
        /\ state = "HEADER" => remain = 0 /\ post = 0 /\ contentLen = 0

LogInv == \A k \in 1 .. Len(log) : log[k].hdr < Mark

\* Every frame that begins before the mark is settled.
SettledInv == \A i \in Frames : start[i] < Mark => i \in Handled \cup gone

\* The read position leaves the frame boundaries only behind a bad frame.
InStepInv ==
    (pc # "spin" /\ state = "HEADER") =>
        \/ \E i \in 1 .. N + 1 : used = start[i]
        \/ \E b \in Frames : kind[b] \in BadKinds /\ start[b] < used

\* What the callback leaves behind when it returns.
IdleInv ==
    pc = "idle" =>
        /\ state = "DATA" => Buffered = 0
        /\ state = "HEADER" =>
              \/ Buffered = 0
              \/ Buffered < HLen
              \/ \E i \in Frames : /\ used = start[i]
                                   /\ Buffered < FLen(i)

Inv == /\ TypeOK
       /\ RequestInv
       /\ WholeFrames
       /\ InOrderOnce
       /\ LogInv
       /\ SettledInv
       /\ InStepInv
       /\ LossNeedsError
       /\ IdleInv
       /\ SpinNeedsOversize
-----------------------------------------------------------------------------
\* The sizes and positions of the frames are natural numbers, and a frame is at
\* least a header long.
LEMMA FrameFacts ==
    ASSUME TypeOK
    PROVE  /\ HLen \in Nat /\ 0 < HLen /\ RLen \in Nat /\ 0 < RLen /\ RLen < HLen
           /\ N \in Nat /\ BufLen \in Nat /\ BodyMax \in Nat
           /\ \A i \in Frames :
                 /\ i \in 1 .. N + 1 /\ i + 1 \in 1 .. N + 1
                 /\ start[i] \in Nat /\ start[i + 1] \in Nat
                 /\ FLen(i) \in Nat /\ HLen <= FLen(i)
                 /\ start[i] + FLen(i) = start[i + 1] /\ start[i] < start[i + 1]
                 /\ Skip(kind[i]) \in Nat /\ Skip(kind[i]) <= HLen
           /\ WireEnd \in Nat
           /\ Buffered \in Nat
  <1>1. /\ N \in Nat /\ HLen \in Nat /\ 0 < HLen /\ RLen \in Nat /\ 0 < RLen /\ RLen < HLen
        /\ BufLen \in Nat /\ BodyMax \in Nat
    BY SizeAssumption
  <1>2. start \in [1 .. N + 1 -> Nat] /\ WellFormed(start) /\ rcvd \in Nat /\ used \in Nat /\ used <= rcvd
    BY DEF TypeOK
  <1>3. WireEnd \in Nat /\ Buffered \in Nat
    BY <1>1, <1>2 DEF WireEnd, Buffered
  <1>4. ASSUME NEW i \in Frames
        PROVE  /\ i \in 1 .. N + 1 /\ i + 1 \in 1 .. N + 1
               /\ start[i] \in Nat /\ start[i + 1] \in Nat
               /\ FLen(i) \in Nat /\ HLen <= FLen(i)
               /\ start[i] + FLen(i) = start[i + 1] /\ start[i] < start[i + 1]
               /\ Skip(kind[i]) \in Nat /\ Skip(kind[i]) <= HLen
    <2>1. i \in 1 .. N + 1 /\ i + 1 \in 1 .. N + 1 /\ i < i + 1
      BY <1>1 DEF Frames
    <2>2. start[i] \in Nat /\ start[i + 1] \in Nat /\ start[i] + HLen <= start[i + 1]
      BY <1>1, <1>2, <2>1 DEF WellFormed
    <2>3. Skip(kind[i]) \in Nat /\ Skip(kind[i]) <= HLen
      BY <1>1 DEF Skip
    <2>4. QED
      BY <1>1, <2>1, <2>2, <2>3 DEF FLen
  <1>5. QED
    BY <1>1, <1>3, <1>4

\* Two frames are the same or lie apart.
LEMMA FrameOrder ==
    ASSUME TypeOK, NEW i \in 1 .. N + 1, NEW j \in 1 .. N + 1
    PROVE  /\ i < j => start[i] + HLen <= start[j]
           /\ start[i] < start[j] => i < j
           /\ start[i] = start[j] => i = j
  <1>1. N \in Nat /\ HLen \in Nat /\ 0 < HLen
    BY SizeAssumption
  <1>2. start[i] \in Nat /\ start[j] \in Nat
    BY DEF TypeOK
  <1>3. (i < j => start[i] + HLen <= start[j]) /\ (j < i => start[j] + HLen <= start[i])
    BY DEF TypeOK, WellFormed
  <1>4. QED
    BY <1>1, <1>2, <1>3
-----------------------------------------------------------------------------
\* Type correctness of the receive path: in particular nothing is consumed
\* that has not arrived, and the read buffer is never overfilled.
LEMMA InitTypeOK == Init => TypeOK
  <1> SUFFICES ASSUME Init PROVE TypeOK
    OBVIOUS
  <1>1. N \in Nat /\ BufLen \in Nat /\ HLen \in Nat /\ Positions \subseteq Nat /\ Kinds \subseteq AllKinds
    BY SizeAssumption
  <1>2. start \in [1 .. N + 1 -> Nat] /\ kind \in [Frames -> AllKinds]
    BY <1>1 DEF Init
  <1>3. 0 <= WireEnd /\ Buffered = 0
    BY <1>1, <1>2 DEF Init, WireEnd, Buffered
  <1>4. log \in Seq(Records)
    BY DEF Init
  <1>5. QED
    BY <1>1, <1>2, <1>3, <1>4 DEF Init, TypeOK

\* Every step keeps the types; the buffer is neither overfilled nor underrun.
LEMMA NextTypeOK == TypeOK /\ [Next]_vars => TypeOK'
  <1> SUFFICES ASSUME TypeOK, [Next]_vars PROVE TypeOK'
    OBVIOUS
  <1>0. /\ HLen \in Nat /\ RLen \in Nat /\ 0 < RLen /\ RLen < HLen /\ BufLen \in Nat
        /\ \A i \in Frames : FLen(i) \in Nat /\ HLen <= FLen(i)
        /\ WireEnd \in Nat /\ Buffered \in Nat
    BY FrameFacts
  <1>t. used \in Nat /\ rcvd \in Nat /\ used <= rcvd /\ rcvd - used <= BufLen
    BY DEF TypeOK, Buffered
  <1>1. ASSUME NEW n \in 1 .. BufLen, Receive(n) PROVE TypeOK'
    BY <1>0, <1>1 DEF TypeOK, Receive, wire, req, Smaller, Buffered, WireEnd
  <1>2. CASE BufferEmpty
    BY <1>0, <1>2 DEF TypeOK, BufferEmpty, wire, req, Buffered, WireEnd
  <1>3. CASE HeaderWait
    BY <1>0, <1>3 DEF TypeOK, HeaderWait, RequestDone, wire, Buffered, WireEnd
  <1>4. CASE HeaderErr
    BY <1>0, <1>4 DEF TypeOK, HeaderErr, RequestDone, Overlapping, wire, Buffered, WireEnd
  <1>5. ASSUME NEW i \in Frames, HeaderCmd(i) PROVE TypeOK'
    <2>1. /\ HLen <= rcvd - used /\ used' = used + HLen /\ rcvd' = rcvd
          /\ hdr' = used /\ contentLen' = FLen(i) - HLen
      BY <1>5 DEF HeaderCmd, HeaderOf, Buffered
    <2>2. /\ used' \in Nat /\ used' <= rcvd /\ rcvd' - used' <= BufLen
          /\ contentLen' \in Nat /\ hdr' \in Nat
      BY <1>0, <1>t, <2>1
    <2>3. QED
      BY <1>5, <2>2 DEF TypeOK, HeaderCmd, wire, Buffered, WireEnd
  <1>6. ASSUME NEW i \in Frames, HeaderData(i) PROVE TypeOK'
    <2>1. FLen(i) <= rcvd - used /\ used' = used + FLen(i) /\ rcvd' = rcvd
      BY <1>6 DEF HeaderData, Buffered
    <2>2. used' \in Nat /\ used' <= rcvd /\ rcvd' - used' <= BufLen
      BY <1>0, <1>t, <2>1
    <2>3. log' \in Seq(Records)
      BY <1>0, <1>6 DEF TypeOK, HeaderData, Records
    <2>4. QED
      BY <1>6, <2>2, <2>3 DEF TypeOK, HeaderData, wire, req, Buffered, WireEnd
  <1>7. ASSUME NEW i \in Frames, HeaderKey(i) PROVE TypeOK'
    <2>1. /\ HLen <= rcvd - used /\ used' = used + (HLen - RLen) /\ rcvd' = rcvd
          /\ hdr' = used /\ contentLen' = FLen(i) - (HLen - RLen)
      BY <1>7 DEF HeaderKey, HeaderOf, Buffered
    <2>2. /\ used' \in Nat /\ used' <= rcvd /\ rcvd' - used' <= BufLen
          /\ contentLen' \in Nat /\ hdr' \in Nat
      BY <1>0, <1>t, <2>1
    <2>3. QED
      BY <1>7, <2>2 DEF TypeOK, HeaderKey, wire, Buffered, WireEnd
  <1>8. Wanted \in Nat /\ BodyFrom \in Nat /\ Portion \in Nat /\ Portion <= Buffered /\ Portion <= Wanted
    BY <1>0 DEF TypeOK, Wanted, BodyFrom, Portion, Smaller
  <1>9. CASE DataPart
    BY <1>0, <1>8, <1>9 DEF TypeOK, DataPart, wire, Buffered, WireEnd
  <1>10. CASE DataLast
    <2>1. log' \in Seq(Records)
      BY <1>8, <1>10 DEF TypeOK, DataLast, Records
    <2>2. QED
      BY <1>0, <1>8, <1>10, <2>1 DEF TypeOK, DataLast, RequestDone, wire, Buffered, WireEnd
  <1>11. CASE DataTooLong
    BY <1>0, <1>8, <1>11 DEF TypeOK, DataTooLong, wire, Buffered, WireEnd
  <1>12. CASE Close
    BY <1>12 DEF TypeOK, Close, wire, req, Buffered, WireEnd
  <1>13. CASE UNCHANGED vars
    BY <1>13 DEF TypeOK, vars, wire, req, Buffered, WireEnd
  <1>14. QED
    BY <1>1, <1>2, <1>3, <1>4, <1>5, <1>6, <1>7, <1>9, <1>10, <1>11, <1>12, <1>13 DEF Next, ReadCb

\* Every reachable state of the receive path is type correct: the read
\* buffer is never overfilled and never underrun by a consume.
THEOREM TypeCorrect == Spec => []TypeOK
  BY InitTypeOK, NextTypeOK, PTL DEF Spec
-----------------------------------------------------------------------------
\* The counters of a typed state are natural numbers, for the arithmetic below.
LEMMA VarFacts ==
    ASSUME TypeOK
    PROVE  /\ used \in Nat /\ rcvd \in Nat /\ used <= rcvd /\ Buffered = rcvd - used
           /\ hdr \in Nat /\ contentLen \in Nat /\ remain \in Nat
           /\ from \in Nat /\ post \in Nat
           /\ state \in {"HEADER", "DATA"}
           /\ Mark \in Nat /\ rcvd <= start[N + 1]
           /\ \A i \in 1 .. N + 1 : start[i] \in Nat
  BY DEF TypeOK, Buffered, Mark, WireEnd

\* What is still wanted of a body and where it begins are natural numbers.
LEMMA DataFacts ==
    ASSUME TypeOK
    PROVE  /\ Wanted \in Nat /\ BodyFrom \in Nat /\ Portion \in Nat
           /\ Portion <= Buffered /\ Portion <= Wanted
           /\ Wanted <= Buffered => Portion = Wanted
           /\ Buffered < Wanted => Portion = Buffered
  <1>1. Buffered \in Nat
    BY FrameFacts
  <1>2. QED
    BY <1>1 DEF TypeOK, Wanted, BodyFrom, Portion, Smaller

\* Handling frame i, which begins behind everything handled so far, keeps the
\* log a sequence of whole frames in wire order.
LEMMA LogStep ==
    ASSUME TypeOK, WholeFrames, InOrderOnce, UNCHANGED wire,
           NEW i \in Frames, kind[i] \notin BadKinds,
           log' = Append(log, RecordOf(i)),
           \A k \in 1 .. Len(log) : log[k].hdr < start[i]
    PROVE  /\ WholeFrames' /\ InOrderOnce'
           /\ \A k \in 1 .. Len(log') : log'[k].hdr <= start[i]
           /\ Handled \cup {i} \subseteq Handled'
  <1>1. log \in Seq(Records) /\ start[i] \in Nat
    BY FrameFacts DEF TypeOK
  <1>2. /\ Len(log) \in Nat
        /\ Len(log') = Len(log) + 1
        /\ log'[Len(log) + 1] = RecordOf(i)
        /\ \A k \in 1 .. Len(log) : log'[k] = log[k]
    BY <1>1
  <1>3. start' = start /\ kind' = kind
    BY DEF wire
  <1>4. \A j \in Frames : RecordOf(j)' = RecordOf(j)
    BY <1>3 DEF RecordOf, FLen
  <1>5. RecordOf(i).hdr = start[i]
    BY DEF RecordOf
  <1>6. WholeFrames'
    <2> SUFFICES ASSUME NEW k \in 1 .. Len(log')
                 PROVE  \E j \in Frames : kind'[j] \notin BadKinds /\ log'[k] = RecordOf(j)'
      BY DEF WholeFrames
    <2>1. CASE k = Len(log) + 1
      BY <1>2, <1>3, <1>4, <2>1
    <2>2. CASE k # Len(log) + 1
      <3>1. k \in 1 .. Len(log)
        BY <1>2, <2>2
      <3>2. PICK j \in Frames : kind[j] \notin BadKinds /\ log[k] = RecordOf(j)
        BY <3>1 DEF WholeFrames
      <3>3. QED
        BY <1>2, <1>3, <1>4, <3>1, <3>2
    <2>3. QED
      BY <2>1, <2>2
  <1>7. InOrderOnce'
    <2> SUFFICES ASSUME NEW j \in 1 .. Len(log'), NEW k \in 1 .. Len(log'), j < k
                 PROVE  log'[j].hdr < log'[k].hdr
      BY DEF InOrderOnce
    <2>1. j \in 1 .. Len(log)
      BY <1>2
    <2>2. CASE k = Len(log) + 1
      BY <1>2, <1>5, <2>1, <2>2
    <2>3. CASE k # Len(log) + 1
      BY <1>2, <2>1, <2>3 DEF InOrderOnce
    <2>4. QED
      BY <2>2, <2>3
  <1>8. \A k \in 1 .. Len(log) : log[k].hdr \in Nat
    <2> SUFFICES ASSUME NEW k \in 1 .. Len(log) PROVE log[k].hdr \in Nat
      OBVIOUS
    <2>1. log[k] \in Records
      BY <1>1
    <2>2. QED
      BY <2>1 DEF Records
  <1>9. \A k \in 1 .. Len(log') : log'[k].hdr <= start[i]
    <2> SUFFICES ASSUME NEW k \in 1 .. Len(log') PROVE log'[k].hdr <= start[i]
      OBVIOUS
    <2>1. CASE k = Len(log) + 1
      BY <1>1, <1>2, <1>5, <2>1
    <2>2. CASE k # Len(log) + 1
      <3>1. k \in 1 .. Len(log)
        BY <1>2, <2>2
      <3>2. QED
        BY <1>1, <1>2, <1>8, <3>1
    <2>3. QED
      BY <2>1, <2>2
  <1>10. Handled \cup {i} \subseteq Handled'
    BY <1>2, <1>3, <1>5 DEF Handled
  <1>11. QED
    BY <1>6, <1>7, <1>9, <1>10

\* The invariant holds on a fresh connection.
LEMMA InitInv == Init => Inv
  <1> SUFFICES ASSUME Init PROVE Inv
    OBVIOUS
  <1>1. TypeOK
    BY InitTypeOK
  <1>2. /\ state = "HEADER" /\ hdr = 0 /\ contentLen = 0 /\ remain = 0 /\ post = 0
        /\ used = 0 /\ rcvd = 0 /\ pc = "idle" /\ Len(log) = 0 /\ gone = {} /\ start[1] = 0
    BY DEF Init, WellFormed
  <1>3. RequestInv /\ WholeFrames /\ InOrderOnce /\ LogInv /\ LossNeedsError /\ SpinNeedsOversize
    BY <1>2 DEF RequestInv, WholeFrames, InOrderOnce, LogInv, LossNeedsError, SpinNeedsOversize
  <1>4. SettledInv
    <2>1. \A i \in Frames : start[i] \in Nat
      BY <1>1, FrameFacts
    <2>2. QED
      BY <1>2, <2>1 DEF SettledInv, Mark
  <1>5. InStepInv
    <2>1. 1 \in 1 .. N + 1
      BY SizeAssumption
    <2>2. QED
      BY <1>2, <2>1 DEF InStepInv
  <1>6. IdleInv
    BY <1>2 DEF IdleInv, Buffered
  <1>7. QED
    BY <1>1, <1>3, <1>4, <1>5, <1>6 DEF Inv

\* Steps that only move bytes into the buffer or move the control point.
LEMMA QuietStep ==
    ASSUME Inv, UNCHANGED <<wire, used, req, log, gone>>, pc # "spin", pc' # "spin"
    PROVE  /\ RequestInv' /\ WholeFrames' /\ InOrderOnce' /\ LogInv'
           /\ SettledInv' /\ InStepInv' /\ LossNeedsError' /\ SpinNeedsOversize'
  <1>1. /\ kind' = kind /\ start' = start /\ used' = used /\ log' = log /\ gone' = gone
        /\ state' = state /\ hdr' = hdr /\ contentLen' = contentLen /\ remain' = remain
        /\ from' = from /\ post' = post
    BY DEF wire, req
  <1>2. \A i \in Frames : RequestOf(i)' = RequestOf(i) /\ RecordOf(i)' = RecordOf(i)
    BY <1>1 DEF RequestOf, RecordOf, Wanted, BodyFrom, FLen
  <1>3. Mark' = Mark /\ Handled' = Handled
    BY <1>1 DEF Mark, Handled
  <1>4. RequestInv'
    BY <1>1, <1>2 DEF Inv, RequestInv
  <1>5. WholeFrames' /\ InOrderOnce' /\ LogInv'
    BY <1>1, <1>2, <1>3 DEF Inv, WholeFrames, InOrderOnce, LogInv
  <1>6. SettledInv' /\ LossNeedsError'
    BY <1>1, <1>3 DEF Inv, SettledInv, LossNeedsError
  <1>7. InStepInv'
    BY <1>1 DEF Inv, InStepInv
  <1>8. SpinNeedsOversize'
    BY DEF SpinNeedsOversize
  <1>9. QED
    BY <1>4, <1>5, <1>6, <1>7, <1>8

\* New bytes change nothing that is settled.
LEMMA ReceiveInv ==
    ASSUME Inv, TypeOK', NEW n \in 1 .. BufLen, Receive(n)
    PROVE  Inv'
  <1>1. pc # "spin" /\ pc' # "spin" /\ pc' # "idle" /\ UNCHANGED <<wire, used, req, log, gone>>
    BY DEF Receive
  <1>2. IdleInv'
    BY <1>1 DEF IdleInv
  <1>3. QED
    BY <1>1, <1>2, QuietStep DEF Inv

\* The callback returns with an empty buffer.
LEMMA BufferEmptyInv ==
    ASSUME Inv, TypeOK', BufferEmpty
    PROVE  Inv'
  <1>1. pc # "spin" /\ pc' # "spin" /\ UNCHANGED <<wire, used, req, log, gone>>
    BY DEF BufferEmpty
  <1>2. Buffered' = 0
    BY DEF BufferEmpty, Buffered
  <1>3. IdleInv'
    BY <1>2 DEF IdleInv
  <1>4. QED
    BY <1>1, <1>3, QuietStep DEF Inv

\* A closed connection handles nothing any more.
LEMMA CloseInv ==
    ASSUME Inv, TypeOK', Close
    PROVE  Inv'
  <1>1. pc # "spin" /\ pc' # "spin" /\ pc' # "idle" /\ UNCHANGED <<wire, used, req, log, gone>>
    BY DEF Close
  <1>2. IdleInv'
    BY <1>1 DEF IdleInv
  <1>3. QED
    BY <1>1, <1>2, QuietStep DEF Inv

\* The callback returns because a header, or a data frame, is not complete.
LEMMA HeaderWaitInv ==
    ASSUME Inv, TypeOK', HeaderWait
    PROVE  Inv'
  <1>1. /\ kind' = kind /\ start' = start /\ used' = used /\ rcvd' = rcvd
        /\ log' = log /\ gone' = gone /\ pc' = "idle"
        /\ state = "HEADER" /\ state' = "HEADER"
        /\ remain' = 0 /\ post' = 0 /\ contentLen' = 0
    BY DEF HeaderWait, RequestDone, wire
  <1>2. Mark' = Mark /\ Handled' = Handled /\ Buffered' = Buffered
    BY <1>1 DEF Mark, Handled, Buffered
  <1>3. \A i \in Frames : RecordOf(i)' = RecordOf(i) /\ FLen(i)' = FLen(i)
    BY <1>1 DEF RecordOf, FLen
  <1>4. RequestInv' /\ SpinNeedsOversize'
    BY <1>1 DEF RequestInv, SpinNeedsOversize
  <1>5. WholeFrames' /\ InOrderOnce' /\ LogInv'
    BY <1>1, <1>2, <1>3 DEF Inv, WholeFrames, InOrderOnce, LogInv
  <1>6. SettledInv' /\ LossNeedsError'
    BY <1>1, <1>2 DEF Inv, SettledInv, LossNeedsError
  <1>7. InStepInv'
    <2>1. pc # "spin"
      BY DEF HeaderWait
    <2>2. QED
      BY <1>1, <2>1 DEF Inv, InStepInv
  <1>8. IdleInv'
    BY <1>1, <1>2, <1>3 DEF HeaderWait, IdleInv
  <1>9. QED
    BY <1>4, <1>5, <1>6, <1>7, <1>8 DEF Inv

\* A rejected header throws away what is buffered; the frames it hits are gone.
LEMMA HeaderErrInv ==
    ASSUME Inv, TypeOK', HeaderErr
    PROVE  Inv'
  <1>1. /\ kind' = kind /\ start' = start /\ used' = rcvd /\ rcvd' = rcvd
        /\ log' = log /\ gone' = gone \cup Overlapping /\ pc = "loop" /\ pc' = "idle"
        /\ state = "HEADER" /\ state' = "HEADER"
        /\ remain' = 0 /\ post' = 0 /\ contentLen' = 0
        /\ Buffered >= HLen
        /\ \A i \in Frames : used = start[i] => kind[i] \in BadKinds
    BY DEF HeaderErr, RequestDone, wire
  <1>t. TypeOK
    BY DEF Inv
  <1>2. /\ used \in Nat /\ rcvd \in Nat /\ used < rcvd /\ Mark = used /\ Mark' = rcvd
        /\ rcvd <= start[N + 1] /\ N \in Nat
        /\ \A i \in 1 .. N + 1 : start[i] \in Nat
    BY <1>1, <1>t, VarFacts, FrameFacts DEF Mark
  <1>3. Handled' = Handled
    BY <1>1 DEF Handled
  <1>4. \A i \in Frames : RecordOf(i)' = RecordOf(i)
    BY <1>1 DEF RecordOf, FLen
  <1>5. RequestInv' /\ SpinNeedsOversize'
    BY <1>1 DEF RequestInv, SpinNeedsOversize
  <1>6. WholeFrames' /\ InOrderOnce'
    BY <1>1, <1>4 DEF Inv, WholeFrames, InOrderOnce
  <1>7. LogInv'
    <2> SUFFICES ASSUME NEW k \in 1 .. Len(log) PROVE log[k].hdr < rcvd
      BY <1>1, <1>2 DEF LogInv
    <2>1. log[k].hdr < used
      BY <1>2 DEF Inv, LogInv
    <2>2. log[k] \in Records
      BY <1>t, SMTT(30) DEF TypeOK
    <2>3. log[k].hdr \in Nat
      BY <2>2 DEF Records
    <2>4. QED
      BY <1>2, <2>1, <2>3
  <1>8. SettledInv'
    <2> SUFFICES ASSUME NEW i \in Frames, start[i] < rcvd PROVE i \in Handled \cup gone \cup Overlapping
      BY <1>1, <1>2, <1>3 DEF SettledInv
    <2>1. start[i] \in Nat /\ start[i + 1] \in Nat /\ start[i] < start[i + 1]
      BY <1>t, FrameFacts
    <2>2. CASE start[i] < used
      BY <1>2, <2>2 DEF Inv, SettledInv
    <2>3. CASE ~(start[i] < used)
      BY <1>2, <2>1, <2>3 DEF Overlapping
    <2>4. QED
      BY <2>2, <2>3
  <1>9. \E b \in Frames : kind[b] \in BadKinds /\ start[b] <= used
    <2>1. CASE \E i \in 1 .. N + 1 : used = start[i]
      <3>1. PICK i \in 1 .. N + 1 : used = start[i]
        BY <2>1
      <3>2. i # N + 1
        BY <1>2, <3>1
      <3>3. i \in Frames
        BY <1>2, <3>2 DEF Frames
      <3>4. QED
        BY <1>1, <1>2, <3>1, <3>3
    <2>2. CASE ~\E i \in 1 .. N + 1 : used = start[i]
      <3>1. PICK b \in Frames : kind[b] \in BadKinds /\ start[b] < used
        BY <1>1, <2>2 DEF Inv, InStepInv
      <3>2. start[b] \in Nat
        BY <1>t, FrameFacts
      <3>3. QED
        BY <1>2, <3>1, <3>2
    <2>3. QED
      BY <2>1, <2>2
  <1>10. PICK b \in Frames : kind[b] \in BadKinds /\ start[b] <= used
    BY <1>9
  <1>11. InStepInv'
    <2>1. start[b] \in Nat
      BY <1>t, FrameFacts
    <2>2. start[b] < rcvd
      BY <1>2, <1>10, <2>1
    <2>3. QED
      BY <1>1, <1>10, <2>2 DEF InStepInv
  <1>12. LossNeedsError'
    <2> SUFFICES ASSUME NEW i \in gone \cup Overlapping
                 PROVE  \E c \in Frames : c <= i /\ kind[c] \in BadKinds
      BY <1>1 DEF LossNeedsError
    <2>1. CASE i \in gone
      BY <2>1 DEF Inv, LossNeedsError
    <2>2. CASE i \in Overlapping
      <3>1. i \in Frames /\ used < start[i + 1]
        BY <2>2 DEF Overlapping
      <3>2. i + 1 \in 1 .. N + 1 /\ b \in 1 .. N + 1 /\ start[b] \in Nat /\ start[i + 1] \in Nat
        BY <1>t, <3>1, FrameFacts
      <3>3. start[b] < start[i + 1]
        BY <1>2, <1>10, <3>1, <3>2
      <3>4. b < i + 1
        BY <1>t, <3>2, <3>3, FrameOrder
      <3>5. b <= i
        BY <3>1, <3>4 DEF Frames
      <3>6. QED
        BY <1>10, <3>5
    <2>3. QED
      BY <2>1, <2>2
  <1>13. IdleInv'
    <2>1. Buffered' = 0
      BY <1>1, <1>2 DEF Buffered
    <2>2. QED
      BY <2>1 DEF IdleInv
  <1>14. QED
    BY <1>5, <1>6, <1>7, <1>8, <1>11, <1>12, <1>13 DEF Inv

\* The two headers after which a body is collected.
LEMMA HeaderBodyInv ==
    ASSUME Inv, TypeOK', NEW i \in Frames, HeaderCmd(i) \/ HeaderKey(i)
    PROVE  Inv'
  <1>t. TypeOK
    BY DEF Inv
  <1>1. /\ kind' = kind /\ start' = start /\ rcvd' = rcvd /\ log' = log /\ gone' = gone
        /\ pc = "loop" /\ pc' = "loop" /\ state = "HEADER" /\ state' = "DATA"
        /\ hdr' = used /\ used = start[i] /\ remain' = remain /\ post' = post
        /\ kind[i] \in {"cmd", "key"}
        /\ used' = used + Skip(kind[i]) /\ contentLen' = FLen(i) - Skip(kind[i])
    BY DEF HeaderCmd, HeaderKey, HeaderOf, Skip, wire
  <1>2. remain = 0 /\ post = 0
    BY <1>1 DEF Inv, RequestInv
  <1>3. Mark' = Mark /\ Handled' = Handled
    BY <1>1 DEF Mark, Handled
  <1>4. \A j \in Frames : RecordOf(j)' = RecordOf(j) /\ FLen(j)' = FLen(j)
    BY <1>1 DEF RecordOf, FLen
  <1>5. RequestOf(i)'
    <2>1. /\ FLen(i) \in Nat /\ Skip(kind[i]) \in Nat /\ start[i] \in Nat
          /\ start[i] + FLen(i) = start[i + 1] /\ HLen <= FLen(i) /\ Skip(kind[i]) <= HLen
      BY <1>t, FrameFacts
    <2>2. Wanted' = FLen(i) - Skip(kind[i])
      BY <1>1, <1>2 DEF Wanted
    <2>3. BodyFrom' = start[i] + Skip(kind[i])
      BY <1>1, <1>2 DEF BodyFrom
    <2>4. used' + Wanted' = start[i + 1]
      BY <1>1, <2>1, <2>2
    <2>5. BodyFrom' + post' = used'
      BY <1>1, <1>2, <2>1, <2>3
    <2>6. QED
      BY <1>1, <1>2, <1>4, <2>3, <2>4, <2>5 DEF RequestOf
  <1>6. RequestInv' /\ SpinNeedsOversize' /\ IdleInv' /\ InStepInv'
    BY <1>1, <1>5 DEF RequestInv, SpinNeedsOversize, IdleInv, InStepInv
  <1>7. WholeFrames' /\ InOrderOnce' /\ LogInv'
    BY <1>1, <1>3, <1>4 DEF Inv, WholeFrames, InOrderOnce, LogInv
  <1>8. SettledInv' /\ LossNeedsError'
    BY <1>1, <1>3 DEF Inv, SettledInv, LossNeedsError
  <1>9. QED
    BY <1>6, <1>7, <1>8 DEF Inv

\* Steps that handle frame i and leave the read position behind it.
LEMMA HandleStep ==
    ASSUME Inv, NEW i \in Frames, kind[i] \notin BadKinds, Mark = start[i],
           UNCHANGED wire, gone' = gone, log' = Append(log, RecordOf(i)),
           state' = "HEADER", used' = start[i + 1], pc' = "loop",
           remain' = 0, post' = 0, contentLen' = 0
    PROVE  /\ RequestInv' /\ WholeFrames' /\ InOrderOnce' /\ LogInv' /\ SettledInv'
           /\ InStepInv' /\ LossNeedsError' /\ IdleInv' /\ SpinNeedsOversize'
  <1>t. TypeOK
    BY DEF Inv
  <1>1. kind' = kind /\ start' = start
    BY DEF wire
  <1>2. /\ i \in 1 .. N + 1 /\ i + 1 \in 1 .. N + 1 /\ start[i] \in Nat /\ start[i + 1] \in Nat
        /\ start[i] < start[i + 1] /\ HLen \in Nat /\ 0 < HLen
    BY <1>t, FrameFacts
  <1>3. Mark' = start[i + 1]
    BY DEF Mark
  <1>4. \A k \in 1 .. Len(log) : log[k].hdr < start[i]
    BY DEF Inv, LogInv
  <1>5. /\ WholeFrames' /\ InOrderOnce'
        /\ \A k \in 1 .. Len(log') : log'[k].hdr <= start[i]
        /\ Handled \cup {i} \subseteq Handled'
    BY <1>t, <1>4, LogStep DEF Inv
  <1>6. LogInv'
    <2> SUFFICES ASSUME NEW k \in 1 .. Len(log') PROVE log'[k].hdr < start[i + 1]
      BY <1>3 DEF LogInv
    <2>1. log'[k] = RecordOf(i) \/ (k \in 1 .. Len(log) /\ log'[k] = log[k])
      BY <1>t DEF TypeOK
    <2>2. log'[k].hdr \in Nat
      <3>1. CASE log'[k] = RecordOf(i)
        BY <1>2, <3>1 DEF RecordOf
      <3>2. CASE k \in 1 .. Len(log) /\ log'[k] = log[k]
        <4>1. log[k] \in Records
          BY <1>t, <3>2 DEF TypeOK
        <4>2. QED
          BY <3>2, <4>1 DEF Records
      <3>3. QED
        BY <2>1, <3>1, <3>2
    <2>3. QED
      BY <1>2, <1>5, <2>2
  <1>7. SettledInv'
    <2> SUFFICES ASSUME NEW j \in Frames, start[j] < start[i + 1] PROVE j \in Handled' \cup gone
      BY <1>1, <1>3 DEF SettledInv
    <2>1. j \in 1 .. N + 1 /\ start[j] \in Nat /\ i \in Nat /\ j \in Nat
      BY <1>t, <1>2, FrameFacts DEF Frames
    <2>2. j < i + 1
      BY <1>t, <1>2, <2>1, FrameOrder
    <2>3. CASE j = i
      BY <1>5, <2>3
    <2>4. CASE j < i
      <3>1. start[j] + HLen <= start[i]
        BY <1>t, <1>2, <2>1, <2>4, FrameOrder
      <3>2. start[j] < Mark
        BY <1>2, <2>1, <3>1
      <3>3. QED
        BY <1>5, <3>2 DEF Inv, SettledInv
    <2>5. QED
      BY <2>1, <2>2, <2>3, <2>4
  <1>8. InStepInv'
    BY <1>1, <1>2 DEF InStepInv
  <1>9. RequestInv' /\ LossNeedsError' /\ IdleInv' /\ SpinNeedsOversize'
    BY <1>1 DEF Inv, RequestInv, LossNeedsError, IdleInv, SpinNeedsOversize
  <1>10. QED
    BY <1>5, <1>6, <1>7, <1>8, <1>9

\* A complete data frame is handled at once.
LEMMA HeaderDataInv ==
    ASSUME Inv, TypeOK', NEW i \in Frames, HeaderData(i)
    PROVE  Inv'
  <1>t. TypeOK
    BY DEF Inv
  <1>1. /\ UNCHANGED wire /\ gone' = gone /\ pc = "loop" /\ pc' = "loop"
        /\ state = "HEADER" /\ state' = state /\ used = start[i] /\ kind[i] = "data"
        /\ used' = used + FLen(i) /\ remain' = remain /\ post' = post /\ contentLen' = contentLen
        /\ log' = Append(log, [hdr |-> used, from |-> used, len |-> FLen(i)])
    BY DEF HeaderData, HeaderOf, req
  <1>2. remain = 0 /\ post = 0 /\ contentLen = 0
    BY <1>1 DEF Inv, RequestInv
  <1>3. start[i] \in Nat /\ FLen(i) \in Nat /\ start[i] + FLen(i) = start[i + 1]
    BY <1>t, FrameFacts
  <1>4. Skip(kind[i]) = 0
    BY <1>1 DEF Skip
  <1>5. RecordOf(i) = [hdr |-> used, from |-> used, len |-> FLen(i)]
    BY <1>1, <1>3, <1>4 DEF RecordOf
  <1>6. kind[i] \notin BadKinds /\ Mark = start[i] /\ used' = start[i + 1]
    BY <1>1, <1>3 DEF BadKinds, Mark
  <1>7. QED
    BY <1>1, <1>2, <1>5, <1>6, HandleStep DEF Inv

\* What a request under assembly has and wants adds up to its frame.
LEMMA RequestArith ==
    ASSUME TypeOK, NEW i \in Frames, RequestOf(i)
    PROVE  /\ post + Wanted = FLen(i) - Skip(kind[i])
           /\ start[i] \in Nat /\ FLen(i) \in Nat /\ Skip(kind[i]) \in Nat
           /\ start[i + 1] \in Nat
  <1>1. /\ start[i] \in Nat /\ start[i + 1] \in Nat /\ FLen(i) \in Nat /\ Skip(kind[i]) \in Nat
        /\ start[i] + FLen(i) = start[i + 1]
    BY FrameFacts
  <1>2. Wanted \in Nat /\ BodyFrom \in Nat
    BY DataFacts
  <1>3. post \in Nat /\ used \in Nat
    BY VarFacts
  <1>4. /\ used + Wanted = start[i + 1]
        /\ BodyFrom = start[i] + Skip(kind[i])
        /\ BodyFrom + post = used
    BY DEF RequestOf
  <1>5. QED
    BY <1>1, <1>2, <1>3, <1>4

\* Part of a body has arrived: the request goes on from where it was.
LEMMA DataPartInv ==
    ASSUME Inv, TypeOK', DataPart
    PROVE  Inv'
  <1>t. TypeOK
    BY DEF Inv
  <1>1. /\ kind' = kind /\ start' = start /\ rcvd' = rcvd /\ log' = log /\ gone' = gone
        /\ pc = "loop" /\ pc' = "loop" /\ state = "DATA" /\ state' = "DATA"
        /\ hdr' = hdr /\ contentLen' = contentLen /\ used' = used + Portion
        /\ post' = post + Portion /\ from' = BodyFrom /\ remain' = Wanted - Portion
        /\ Buffered > 0 /\ Wanted > Buffered
    BY DEF DataPart, wire
  <1>2. PICK i \in Frames : RequestOf(i)
    BY <1>1 DEF Inv, RequestInv
  <1>3. /\ Wanted \in Nat /\ BodyFrom \in Nat /\ Portion \in Nat /\ Buffered \in Nat
        /\ Buffered < Wanted => Portion = Buffered
    BY <1>t, DataFacts, FrameFacts
  <1>4. used \in Nat /\ post \in Nat
    BY <1>t, VarFacts
  <1>5. Portion > 0 /\ remain' > 0 /\ post' # 0
    BY <1>1, <1>3, <1>4
  <1>6. Wanted' = Wanted - Portion /\ BodyFrom' = BodyFrom
    BY <1>1, <1>5 DEF Wanted, BodyFrom
  <1>7. Mark' = Mark /\ Handled' = Handled
    BY <1>1 DEF Mark, Handled
  <1>8. \A j \in Frames : RecordOf(j)' = RecordOf(j) /\ FLen(j)' = FLen(j)
    BY <1>1 DEF RecordOf, FLen
  <1>9. RequestOf(i)'
    <2>1. /\ kind[i] \in {"cmd", "key"} /\ hdr = start[i]
          /\ contentLen = FLen(i) - Skip(kind[i])
          /\ used + Wanted = start[i + 1]
          /\ BodyFrom = start[i] + Skip(kind[i])
          /\ BodyFrom + post = used
      BY <1>2 DEF RequestOf
    <2>2. used' + Wanted' = start[i + 1] /\ BodyFrom' + post' = used'
      BY <1>1, <1>3, <1>4, <1>6, <2>1
    <2>3. QED
      BY <1>1, <1>5, <1>6, <1>8, <2>1, <2>2 DEF RequestOf
  <1>10. RequestInv' /\ SpinNeedsOversize' /\ IdleInv' /\ InStepInv'
    BY <1>1, <1>9 DEF RequestInv, SpinNeedsOversize, IdleInv, InStepInv
  <1>11. WholeFrames' /\ InOrderOnce' /\ LogInv'
    BY <1>1, <1>7, <1>8 DEF Inv, WholeFrames, InOrderOnce, LogInv
  <1>12. SettledInv' /\ LossNeedsError'
    BY <1>1, <1>7 DEF Inv, SettledInv, LossNeedsError
  <1>13. QED
    BY <1>10, <1>11, <1>12 DEF Inv

\* The body is complete: the request is handled and its frame settled.
LEMMA DataLastInv ==
    ASSUME Inv, TypeOK', DataLast
    PROVE  Inv'
  <1>t. TypeOK
    BY DEF Inv
  <1>1. /\ UNCHANGED wire /\ gone' = gone /\ pc = "loop" /\ pc' = "loop"
        /\ state = "DATA" /\ state' = "HEADER" /\ remain' = 0 /\ post' = 0 /\ contentLen' = 0
        /\ used' = used + Portion /\ Wanted <= Buffered
        /\ log' = Append(log, [hdr |-> hdr, from |-> BodyFrom, len |-> post + Portion])
    BY DEF DataLast, RequestDone
  <1>2. PICK i \in Frames : RequestOf(i)
    BY <1>1 DEF Inv, RequestInv
  <1>3. Portion = Wanted
    BY <1>t, <1>1, DataFacts
  <1>4. post + Wanted = FLen(i) - Skip(kind[i])
    BY <1>t, <1>2, RequestArith
  <1>5. /\ hdr = start[i] /\ BodyFrom = start[i] + Skip(kind[i])
        /\ used + Wanted = start[i + 1] /\ kind[i] \notin BadKinds
    BY <1>2 DEF RequestOf, BadKinds
  <1>6. RecordOf(i) = [hdr |-> hdr, from |-> BodyFrom, len |-> post + Portion]
    BY <1>3, <1>4, <1>5 DEF RecordOf
  <1>7. Mark = start[i] /\ used' = start[i + 1]
    BY <1>1, <1>3, <1>5 DEF Mark
  <1>8. QED
    BY <1>1, <1>5, <1>6, <1>7, HandleStep DEF Inv

\* A body that does not fit traps the loop.
LEMMA DataTooLongInv ==
    ASSUME Inv, TypeOK', DataTooLong
    PROVE  Inv'
  <1>t. TypeOK
    BY DEF Inv
  <1>1. /\ kind' = kind /\ start' = start /\ used' = used /\ log' = log /\ gone' = gone
        /\ pc = "loop" /\ pc' = "spin" /\ state = "DATA" /\ state' = state /\ hdr' = hdr
        /\ post + Portion > BodyMax
    BY DEF DataTooLong, wire
  <1>2. PICK i \in Frames : RequestOf(i)
    BY <1>1 DEF Inv, RequestInv
  <1>3. Mark' = Mark /\ Handled' = Handled
    BY <1>1 DEF Mark, Handled
  <1>4. \A j \in Frames : RecordOf(j)' = RecordOf(j) /\ FLen(j)' = FLen(j) /\ kind'[j] = kind[j]
    BY <1>1 DEF RecordOf, FLen
  <1>5. FLen(i) - Skip(kind[i]) > BodyMax
    <2>1. post + Wanted = FLen(i) - Skip(kind[i])
      BY <1>t, <1>2, RequestArith
    <2>2. Wanted \in Nat /\ Portion \in Nat /\ Portion <= Wanted /\ post \in Nat /\ BodyMax \in Nat
      BY <1>t, DataFacts, VarFacts, FrameFacts
    <2>3. post + Wanted > BodyMax
      BY <1>1, <2>2
    <2>4. QED
      BY <2>1, <2>3
  <1>6. SpinNeedsOversize'
    BY <1>4, <1>5 DEF SpinNeedsOversize
  <1>7. RequestInv' /\ IdleInv' /\ InStepInv'
    BY <1>1 DEF RequestInv, IdleInv, InStepInv
  <1>8. WholeFrames' /\ InOrderOnce' /\ LogInv'
    BY <1>1, <1>3, <1>4 DEF Inv, WholeFrames, InOrderOnce, LogInv
  <1>9. SettledInv' /\ LossNeedsError'
    BY <1>1, <1>3 DEF Inv, SettledInv, LossNeedsError
  <1>10. QED
    BY <1>6, <1>7, <1>8, <1>9 DEF Inv

\* A step that changes no variable keeps the invariant.
LEMMA StutterInv ==
    ASSUME Inv, TypeOK', UNCHANGED vars
    PROVE  Inv'
  <1>1. /\ kind' = kind /\ start' = start /\ used' = used /\ rcvd' = rcvd /\ log' = log
        /\ gone' = gone /\ pc' = pc /\ state' = state /\ hdr' = hdr /\ from' = from
        /\ contentLen' = contentLen /\ remain' = remain /\ post' = post
    BY DEF vars, wire, req
  <1>2. \A i \in Frames : RequestOf(i)' = RequestOf(i) /\ RecordOf(i)' = RecordOf(i) /\ FLen(i)' = FLen(i)
    BY <1>1 DEF RequestOf, RecordOf, Wanted, BodyFrom, FLen
  <1>3. Mark' = Mark /\ Handled' = Handled /\ Buffered' = Buffered
    BY <1>1 DEF Mark, Handled, Buffered
  <1>4. RequestInv' /\ IdleInv' /\ InStepInv' /\ SpinNeedsOversize'
    BY <1>1, <1>2, <1>3 DEF Inv, RequestInv, IdleInv, InStepInv, SpinNeedsOversize
  <1>5. WholeFrames' /\ InOrderOnce' /\ LogInv' /\ SettledInv' /\ LossNeedsError'
    BY <1>1, <1>2, <1>3 DEF Inv, WholeFrames, InOrderOnce, LogInv, SettledInv, LossNeedsError
  <1>6. QED
    BY <1>4, <1>5 DEF Inv

\* Every step keeps the invariant.
LEMMA NextInv == Inv /\ [Next]_vars => Inv'
  <1> SUFFICES ASSUME Inv, [Next]_vars PROVE Inv'
    OBVIOUS
  <1>1. TypeOK'
    BY NextTypeOK DEF Inv
  <1>2. ASSUME NEW n \in 1 .. BufLen, Receive(n) PROVE Inv'
    BY <1>1, <1>2, ReceiveInv
  <1>3. CASE BufferEmpty
    BY <1>1, <1>3, BufferEmptyInv
  <1>4. CASE HeaderWait
    BY <1>1, <1>4, HeaderWaitInv
  <1>5. CASE HeaderErr
    BY <1>1, <1>5, HeaderErrInv
  <1>6. ASSUME NEW i \in Frames, HeaderCmd(i) \/ HeaderKey(i) PROVE Inv'
    BY <1>1, <1>6, HeaderBodyInv
  <1>7. ASSUME NEW i \in Frames, HeaderData(i) PROVE Inv'
    BY <1>1, <1>7, HeaderDataInv
  <1>8. CASE DataPart
    BY <1>1, <1>8, DataPartInv
  <1>9. CASE DataLast
    BY <1>1, <1>9, DataLastInv
  <1>10. CASE DataTooLong
    BY <1>1, <1>10, DataTooLongInv
  <1>11. CASE Close
    BY <1>1, <1>11, CloseInv
  <1>12. CASE UNCHANGED vars
    BY <1>1, <1>12, StutterInv
  <1>13. QED
    BY <1>2, <1>3, <1>4, <1>5, <1>6, <1>7, <1>8, <1>9, <1>10, <1>11, <1>12 DEF Next, ReadCb

\* Inv is an inductive invariant of the receive path.
LEMMA InvAlways == Spec => []Inv
  BY InitInv, NextInv, PTL DEF Spec
-----------------------------------------------------------------------------
\* However TCP cuts the stream, what is executed or written to the FPGA is one
\* whole frame with its own header and its own body.
THEOREM FramesAreWhole == Spec => []WholeFrames
  <1>1. Inv => WholeFrames
    BY DEF Inv
  <1>2. QED
    BY <1>1, InvAlways, PTL

\* Frames are handled in wire order and never twice.
THEOREM FramesInOrderOnce == Spec => []InOrderOnce
  <1>1. Inv => InOrderOnce
    BY DEF Inv
  <1>2. QED
    BY <1>1, InvAlways, PTL

\* Without a rejected header on the wire the resynchronisation of
\* tcp_client_header_cb never throws a frame away.
THEOREM LossOnlyAfterError == Spec => []LossNeedsError
  <1>1. Inv => LossNeedsError
    BY DEF Inv
  <1>2. QED
    BY <1>1, InvAlways, PTL

\* tcp_client_poll_data is trapped only by a body beyond MAX_RECEIVE_DATA_LEN.
THEOREM SpinOnlyOversize == Spec => []SpinNeedsOversize
  <1>1. Inv => SpinNeedsOversize
    BY DEF Inv
  <1>2. QED
    BY <1>1, InvAlways, PTL

\* If every frame fits the ustream buffer, the read callback never leaves the
\* buffer full: the connection can go on receiving.
THEOREM RoomAlways == Spec => []RoomWhenIdle
  <1>1. Inv => RoomWhenIdle
    <2> SUFFICES ASSUME Inv, HLen <= BufLen, \A i \in Frames : FLen(i) <= BufLen, pc = "idle"
                 PROVE  Buffered < BufLen
      BY DEF RoomWhenIdle
    <2>t. TypeOK
      BY DEF Inv
    <2>1. Buffered \in Nat /\ BufLen \in Nat /\ HLen \in Nat /\ 0 < HLen /\ \A i \in Frames : FLen(i) \in Nat
      BY <2>t, FrameFacts
    <2>2. state \in {"HEADER", "DATA"}
      BY <2>t, VarFacts
    <2>3. \/ Buffered = 0
          \/ Buffered < HLen
          \/ \E i \in Frames : Buffered < FLen(i)
      BY <2>2 DEF Inv, IdleInv
    <2>4. QED
      BY <2>1, <2>3
  <1>2. QED
    BY <1>1, InvAlways, PTL

\* When the callback has returned, every frame that has fully arrived was
\* handled or thrown away; only a command without a body may be pending.
THEOREM NothingCompleteWaits == Spec => []NothingLingers
  <1>1. Inv => NothingLingers
    <2> SUFFICES ASSUME Inv, pc = "idle", NEW i \in Frames, start[i + 1] <= rcvd,
                        i \notin Handled \cup gone
                 PROVE  IsEmptyCmd(i) /\ state = "DATA" /\ hdr = start[i]
      BY DEF NothingLingers
    <2>t. TypeOK
      BY DEF Inv
    <2>1. /\ used \in Nat /\ rcvd \in Nat /\ used <= rcvd /\ Buffered = rcvd - used
          /\ Mark \in Nat /\ hdr \in Nat /\ state \in {"HEADER", "DATA"}
      BY <2>t, VarFacts
    <2>2. /\ i \in 1 .. N + 1 /\ i + 1 \in 1 .. N + 1
          /\ start[i] \in Nat /\ start[i + 1] \in Nat /\ FLen(i) \in Nat
          /\ HLen <= FLen(i) /\ start[i] + FLen(i) = start[i + 1] /\ HLen \in Nat /\ 0 < HLen
      BY <2>t, FrameFacts
    <2>3. Mark <= start[i]
      <3>1. ~(start[i] < Mark)
        BY DEF Inv, SettledInv
      <3>2. QED
        BY <2>1, <2>2, <3>1
    <2>4. CASE state = "DATA"
      <3>1. Buffered = 0 /\ Mark = hdr
        BY <2>4 DEF Inv, IdleInv, Mark
      <3>2. PICK j \in Frames : RequestOf(j)
        BY <2>4 DEF Inv, RequestInv
      <3>3. used = rcvd /\ hdr <= start[i]
        BY <2>1, <2>3, <3>1
      <3>4. /\ hdr = start[j] /\ kind[j] \in {"cmd", "key"} /\ used + Wanted = start[j + 1]
            /\ post > 0 => remain > 0
        BY <3>2 DEF RequestOf
      <3>5. /\ j \in 1 .. N + 1 /\ j + 1 \in 1 .. N + 1 /\ start[j] \in Nat /\ start[j + 1] \in Nat
            /\ FLen(j) \in Nat /\ start[j] + FLen(j) = start[j + 1]
        BY <2>t, FrameFacts
      <3>6. Wanted \in Nat /\ post \in Nat /\ remain \in Nat
        BY <2>t, DataFacts, VarFacts
      <3>7. start[i + 1] <= start[j + 1]
        BY <2>1, <2>2, <3>3, <3>4, <3>5, <3>6
      <3>8. i = j
        <4>1. i \in Nat /\ j \in Nat
          BY <2>2, <3>5
        <4>2. CASE i < j
          <5>1. start[i] + HLen <= start[j]
            BY <2>t, <2>2, <3>5, <4>2, FrameOrder
          <5>2. QED
            BY <2>2, <3>3, <3>4, <3>5, <5>1
        <4>3. CASE j < i
          <5>1. j + 1 < i + 1
            BY <4>1, <4>3
          <5>2. start[j + 1] + HLen <= start[i + 1]
            BY <2>t, <2>2, <3>5, <5>1, FrameOrder
          <5>3. QED
            BY <2>2, <3>5, <3>7, <5>2
        <4>4. QED
          BY <4>1, <4>2, <4>3
      <3>9. Wanted = 0
        BY <2>1, <2>2, <3>3, <3>4, <3>6, <3>8
      <3>10. post = 0
        BY <3>4, <3>6, <3>9 DEF Wanted
      <3>11. FLen(i) = Skip(kind[i])
        <4>1. post + Wanted = FLen(i) - Skip(kind[i]) /\ Skip(kind[i]) \in Nat
          BY <2>t, <3>2, <3>8, RequestArith
        <4>2. QED
          BY <2>2, <3>9, <3>10, <4>1
      <3>12. kind[i] = "cmd" /\ FLen(i) = HLen
        <4>1. CASE kind[i] = "cmd"
          BY <3>11, <4>1 DEF Skip
        <4>2. CASE kind[i] = "key"
          <5>1. FLen(i) = HLen - RLen /\ RLen \in Nat /\ 0 < RLen
            BY <3>11, <4>2, SizeAssumption DEF Skip
          <5>2. QED
            BY <2>2, <5>1
        <4>3. QED
          BY <3>4, <3>8, <4>1, <4>2
      <3>13. QED
        BY <2>4, <3>4, <3>8, <3>12 DEF IsEmptyCmd
    <2>5. CASE state = "HEADER"
      <3>1. Mark = used /\ used <= start[i]
        BY <2>3, <2>5 DEF Mark
      <3>2. FLen(i) <= Buffered
        BY <2>1, <2>2, <3>1
      <3>3. ~(Buffered = 0) /\ ~(Buffered < HLen)
        BY <2>1, <2>2, <3>2
      <3>4. PICK j \in Frames : used = start[j] /\ Buffered < FLen(j)
        BY <2>5, <3>3 DEF Inv, IdleInv
      <3>5. /\ j \in 1 .. N + 1 /\ j + 1 \in 1 .. N + 1 /\ start[j] \in Nat /\ start[j + 1] \in Nat
            /\ FLen(j) \in Nat /\ start[j] + FLen(j) = start[j + 1]
        BY <2>t, FrameFacts
      <3>6. rcvd < start[j + 1]
        BY <2>1, <3>4, <3>5
      <3>7. start[i + 1] < start[j + 1]
        BY <2>1, <2>2, <3>5, <3>6
      <3>8. i + 1 < j + 1
        BY <2>t, <2>2, <3>5, <3>7, FrameOrder
      <3>9. i < j
        BY <2>2, <3>5, <3>8
      <3>10. start[i] + HLen <= start[j]
        BY <2>t, <2>2, <3>5, <3>9, FrameOrder
      <3>11. QED
        BY <2>1, <2>2, <3>1, <3>4, <3>5, <3>10
    <2>6. QED
      BY <2>1, <2>4, <2>5
  <1>2. QED
    BY <1>1, InvAlways, PTL

\* What is executed and written to the FPGA is the frames of the stream, whole, in
\* order and once, and none is missing on a wire without a rejected header.
THEOREM FramesStayIntact == Spec => []FramesIntact
  <1>1. WholeFrames /\ InOrderOnce /\ LossNeedsError => FramesIntact
    BY DEF FramesIntact
  <1>2. QED
    BY <1>1, FramesAreWhole, FramesInOrderOnce, LossOnlyAfterError, PTL

\* The read buffer and the callback are sound for any lengths of frames and any
\* size of the buffer.
THEOREM BufferStaysSound == Spec => []BufferSound
  <1>1. TypeOK /\ NothingLingers /\ SpinNeedsOversize /\ RoomWhenIdle => BufferSound
    BY DEF BufferSound
  <1>2. QED
    BY <1>1, TypeCorrect, NothingCompleteWaits, SpinOnlyOversize, RoomAlways, PTL
-----------------------------------------------------------------------------
(* The byte-level machine implements the frame service.  What the service     *)
(* calls next is the first frame that does not begin before the mark.         *)

\* A frame that was thrown away began before the mark.
GoneInv == \A i \in gone : start[i] < Mark

\* A set of natural numbers that is not empty has a least element.
LEMMA LeastNatural ==
    ASSUME NEW T, T \subseteq Nat, T # {}
    PROVE  \E n \in T : \A m \in T : n <= m
  <1>1. \A m, n \in Nat : m < n => <<m, n>> \in OpToRel(<, Nat)
    BY DEF OpToRel
  <1>2. \E R : IsWellFoundedOn(R, Nat) /\ \A m, n \in Nat : m < n => <<m, n>> \in R
    BY <1>1, NatLessThanWellFounded
  <1>3. PICK R : IsWellFoundedOn(R, Nat) /\ \A m, n \in Nat : m < n => <<m, n>> \in R
    BY <1>2
  <1>4. \A m, n \in Nat : m < n => <<m, n>> \in R
    BY <1>3, Zenon
  <1>w. IsWellFoundedOn(R, Nat)
    BY <1>3, Zenon
  <1>5. \E n \in T : \A m \in T : ~(<<m, n>> \in R)
    BY <1>w, WFMin, Zenon
  <1>6. PICK n \in T : \A m \in T : ~(<<m, n>> \in R)
    BY <1>5, Zenon
  <1>7. ASSUME NEW m \in T PROVE n <= m
    <2>1. n \in Nat /\ m \in Nat
      OBVIOUS
    <2>2. ~(m < n)
      BY <2>1, <1>4, <1>6, Zenon
    <2> QED
      BY <2>1, <2>2
  <1> QED
    BY <1>7, Zenon

\* The frames that begin before a byte m are the first ones of the wire.
LEMMA FramesBefore ==
    ASSUME TypeOK, NEW m \in Nat
    PROVE  \E n \in 1 .. N + 1 : \A i \in Frames : start[i] < m <=> i < n
  <1> DEFINE T == {n \in 1 .. N + 1 : n = N + 1 \/ m <= start[n]}
  <1>1. N \in Nat /\ HLen \in Nat /\ \A i \in 1 .. N + 1 : start[i] \in Nat
    BY FrameFacts, VarFacts
  <1>2. T \subseteq Nat /\ N + 1 \in T
    BY <1>1
  <1>3. PICK n \in T : \A k \in T : n <= k
    BY <1>2, LeastNatural
  <1>4. ASSUME NEW i \in Frames PROVE start[i] < m <=> i < n
    <2>1. i \in 1 .. N + 1 /\ i # N + 1 /\ n \in 1 .. N + 1 /\ start[i] \in Nat /\ start[n] \in Nat
      BY <1>1 DEF Frames
    <2>2. CASE i < n
      <3>1. i \notin T
        BY <1>3, <2>1, <2>2
      <3> QED
        BY <2>1, <2>2, <3>1
    <2>3. CASE ~(i < n)
      <3>1. n # N + 1 /\ m <= start[n]
        BY <2>1, <2>3, <1>1
      <3>2. n < i => start[n] + HLen <= start[i]
        BY <2>1, FrameOrder
      <3>3. n < i \/ n = i
        BY <2>1, <2>3
      <3> QED
        BY <1>1, <2>1, <2>3, <3>1, <3>2, <3>3
    <2> QED
      BY <2>2, <2>3
  <1> QED
    BY <1>3, <1>4

\* The first frame behind a set of first frames is unique.
LEMMA FirstIs ==
    ASSUME N \in Nat, NEW n \in 1 .. N + 1, NEW S, S = {i \in Frames : i < n}
    PROVE  (CHOOSE k \in 1 .. N + 1 : (\A i \in S : i < k) /\ (k = 1 \/ k - 1 \in S)) = n
  <1>1. (\A i \in S : i < n) /\ (n = 1 \/ n - 1 \in S)
    BY DEF Frames
  <1>2. ASSUME NEW k \in 1 .. N + 1, \A i \in S : i < k, k = 1 \/ k - 1 \in S PROVE k = n
    <2>1. CASE k < n
      <3>1. k \in S
        BY <2>1 DEF Frames
      <3> QED
        BY <3>1, <1>2
    <2>2. CASE n < k
      <3>1. k - 1 \in S
        BY <2>2, <1>2
      <3> QED
        BY <3>1, <2>2
    <2> QED
      BY <2>1, <2>2
  <1> QED
    BY <1>1, <1>2

\* The settled frames are exactly those that begin before the mark.
SettledBelow == Handled \cup gone = {i \in Frames : start[i] < Mark}

\* What is handled or thrown away began before the mark, and nothing else did.
LEMMA SettledFacts == Inv /\ GoneInv => SettledBelow
  <1> SUFFICES ASSUME Inv, GoneInv PROVE SettledBelow
    OBVIOUS
  <1>1. gone \subseteq Frames
    BY DEF Inv, TypeOK
  <1>2. \A i \in Frames : start[i] < Mark => i \in Handled \cup gone
    BY DEF Inv, SettledInv
  <1>3. \A i \in Handled : i \in Frames /\ start[i] < Mark
    BY DEF Handled, Inv, LogInv
  <1> QED
    BY <1>1, <1>2, <1>3 DEF GoneInv, SettledBelow

\* The mark never moves back, and the frames a step throws away begin before it.
LEMMA GoneNext == Inv /\ GoneInv /\ [Next]_vars => GoneInv'
  <1> SUFFICES ASSUME Inv, GoneInv, [Next]_vars PROVE GoneInv'
    OBVIOUS
  <1>t. TypeOK
    BY DEF Inv
  <1>1. /\ used \in Nat /\ rcvd \in Nat /\ used <= rcvd /\ Mark \in Nat /\ hdr \in Nat
        /\ \A i \in 1 .. N + 1 : start[i] \in Nat
    BY <1>t, VarFacts
  <1>2. gone \subseteq Frames /\ \A i \in Frames : start[i] \in Nat /\ start[i + 1] \in Nat
    BY <1>t, FrameFacts DEF TypeOK
  <1>3. CASE UNCHANGED <<start, gone>> /\ Mark' \in Nat /\ Mark <= Mark'
    <2> SUFFICES ASSUME NEW i \in gone PROVE start[i] < Mark'
      BY <1>3 DEF GoneInv
    <2>1. start[i] < Mark /\ start[i] \in Nat
      BY <1>2 DEF GoneInv
    <2> QED
      BY <2>1, <1>1, <1>3
  <1>4. CASE HeaderErr
    <2>1. start' = start /\ gone' = gone \cup Overlapping /\ Mark = used /\ Mark' = rcvd
      BY <1>4 DEF HeaderErr, RequestDone, Mark, wire
    <2> SUFFICES ASSUME NEW i \in gone \cup Overlapping PROVE start[i] < rcvd
      BY <2>1 DEF GoneInv
    <2>2. CASE i \in gone
      <3>1. start[i] < used /\ start[i] \in Nat
        BY <2>1, <2>2, <1>2 DEF GoneInv
      <3> QED
        BY <3>1, <1>1
    <2>3. CASE i \in Overlapping
      BY <2>3 DEF Overlapping
    <2> QED
      BY <2>2, <2>3
  <1>5. ASSUME NEW i \in Frames, HeaderData(i) PROVE GoneInv'
    <2>1. UNCHANGED <<start, gone>> /\ Mark = used /\ Mark' = used + FLen(i)
      BY <1>5 DEF HeaderData, HeaderOf, Mark, wire, req
    <2>2. FLen(i) \in Nat
      BY <1>t, FrameFacts
    <2> QED
      BY <1>1, <1>3, <2>1, <2>2
  <1>6. CASE DataLast
    <2>1. UNCHANGED <<start, gone>> /\ Mark = hdr /\ Mark' = used + Portion
      BY <1>6 DEF DataLast, RequestDone, Mark, wire
    <2>2. PICK i \in Frames : RequestOf(i)
      BY <1>6 DEF Inv, RequestInv, DataLast
    <2>3. /\ hdr = start[i] /\ BodyFrom = start[i] + Skip(kind[i]) /\ BodyFrom + post = used
          /\ Skip(kind[i]) \in Nat /\ post \in Nat /\ Portion \in Nat
      BY <2>2, <1>t, FrameFacts, VarFacts, DataFacts DEF RequestOf
    <2>4. hdr <= used
      BY <1>1, <2>3
    <2> QED
      BY <1>1, <1>3, <2>1, <2>3, <2>4
  <1>7. ASSUME NEW i \in Frames, HeaderCmd(i) \/ HeaderKey(i) PROVE GoneInv'
    <2>1. UNCHANGED <<start, gone>> /\ Mark' = Mark
      BY <1>7 DEF HeaderCmd, HeaderKey, HeaderOf, Mark, wire
    <2> QED
      BY <1>1, <1>3, <2>1
  <1>8. CASE \/ BufferEmpty \/ HeaderWait \/ DataPart \/ DataTooLong \/ Close \/ UNCHANGED vars
             \/ \E n \in 1 .. BufLen : Receive(n)
    <2>1. UNCHANGED <<start, gone>> /\ Mark' = Mark
      BY <1>8 DEF BufferEmpty, HeaderWait, RequestDone, DataPart, DataTooLong, Close, Receive, vars,
            wire, req, Mark
    <2> QED
      BY <1>1, <1>3, <2>1
  <1> QED
    BY <1>4, <1>5, <1>6, <1>7, <1>8 DEF Next, ReadCb

\* A log record of a frame leads back to that frame.
LEMMA FrameOfRecord ==
    ASSUME TypeOK, NEW i \in Frames, NEW r, r.hdr = start[i]
    PROVE  FrameOf(r) = i
  <1>1. \A j \in Frames : start[j] = r.hdr => j = i
    <2> SUFFICES ASSUME NEW j \in Frames, start[j] = start[i] PROVE j = i
      OBVIOUS
    <2>1. i \in 1 .. N + 1 /\ j \in 1 .. N + 1
      BY FrameFacts
    <2> QED
      BY <2>1, FrameOrder
  <1> QED
    BY <1>1 DEF FrameOf

\* Steps that neither handle a frame nor throw one away are invisible to the
\* frame service.
LEMMA FrameStutter ==
    ASSUME UNCHANGED <<kind, start, log, gone>>
    PROVE  UNCHANGED FS!vars
  <1>1. Handled' = Handled
    BY DEF Handled
  <1>2. FirstUnsettled' = FirstUnsettled
    BY <1>1 DEF FirstUnsettled
  <1>3. [k \in 1 .. Len(log) |-> FrameOf(log[k])]' = [k \in 1 .. Len(log) |-> FrameOf(log[k])]
    BY DEF FrameOf
  <1>4. {i \in Frames : kind[i] \in BadKinds}' = {i \in Frames : kind[i] \in BadKinds}
    OBVIOUS
  <1> QED
    BY <1>2, <1>3, <1>4 DEF FS!vars

\* Append as a function.
LEMMA AppendIs ==
    ASSUME NEW S, NEW s \in Seq(S), NEW x \in S
    PROVE  Append(s, x) = [k \in 1 .. Len(s) + 1 |-> IF k \in 1 .. Len(s) THEN s[k] ELSE x]
  <1>1. /\ Append(s, x) \in Seq(S) /\ Len(Append(s, x)) = Len(s) + 1
        /\ \A k \in 1 .. Len(s) : Append(s, x)[k] = s[k]
        /\ Append(s, x)[Len(s) + 1] = x /\ Len(s) \in Nat
    BY AppendProperties, LenProperties
  <1>2. PICK a : a = Append(s, x)
    OBVIOUS
  <1>3. a \in [1 .. Len(s) + 1 -> S]
    BY <1>1, <1>2, LenProperties
  <1>4. \A k \in 1 .. Len(s) + 1 : a[k] = IF k \in 1 .. Len(s) THEN s[k] ELSE x
    BY <1>1, <1>2
  <1> QED
    BY <1>2, <1>3, <1>4

\* Handling frame i is the frame service's Handle.
LEMMA FrameHandle ==
    ASSUME TypeOK, WholeFrames, SettledBelow, SettledBelow', NEW i \in Frames, kind[i] \notin BadKinds,
           Mark = start[i], Mark' = start[i + 1],
           UNCHANGED wire, log' = Append(log, RecordOf(i))
    PROVE  FS!Handle
  <1>1. kind' = kind /\ start' = start
    BY DEF wire
  <1>2. /\ N \in Nat /\ HLen \in Nat /\ 0 < HLen /\ i \in 1 .. N + 1 /\ i + 1 \in 1 .. N + 1
        /\ start[i] \in Nat /\ start[i + 1] \in Nat
    BY FrameFacts
  <1>3. \A j \in Frames : (start[j] < start[i] <=> j < i) /\ (start[j] < start[i + 1] <=> j < i + 1)
    <2> SUFFICES ASSUME NEW j \in Frames
                 PROVE  (start[j] < start[i] <=> j < i) /\ (start[j] < start[i + 1] <=> j < i + 1)
      OBVIOUS
    <2>1. j \in 1 .. N + 1 /\ start[j] \in Nat
      BY FrameFacts
    <2>2. /\ j < i => start[j] + HLen <= start[i]
          /\ start[j] < start[i] => j < i
      BY <1>2, <2>1, FrameOrder
    <2>3. /\ j < i + 1 => start[j] + HLen <= start[i + 1]
          /\ start[j] < start[i + 1] => j < i + 1
      BY <1>2, <2>1, FrameOrder
    <2> QED
      BY <1>2, <2>1, <2>2, <2>3
  <1>4. FirstUnsettled = i
    <2>1. Handled \cup gone = {j \in Frames : j < i}
      BY <1>3 DEF SettledBelow
    <2> QED
      BY <2>1, <1>2, FirstIs DEF FirstUnsettled
  <1>5. FirstUnsettled' = i + 1
    <2>1. (Handled \cup gone)' = {j \in Frames : j < i + 1}
      BY <1>1, <1>3 DEF SettledBelow
    <2> QED
      BY <2>1, <1>2, FirstIs DEF FirstUnsettled
  <1> DEFINE done == [k \in 1 .. Len(log) |-> FrameOf(log[k])]
  <1>6. /\ log \in Seq(Records) /\ Len(log) \in Nat /\ Len(log') = Len(log) + 1
        /\ log'[Len(log) + 1] = RecordOf(i)
        /\ \A k \in 1 .. Len(log) : log'[k] = log[k]
    BY DEF TypeOK
  <1>8. FrameOf(RecordOf(i)) = i
    <2>1. RecordOf(i).hdr = start[i]
      BY DEF RecordOf
    <2> QED
      BY <2>1, FrameOfRecord
  <1>9. \A k \in 1 .. Len(log) : FrameOf(log[k]) \in Frames
    <2> SUFFICES ASSUME NEW k \in 1 .. Len(log) PROVE FrameOf(log[k]) \in Frames
      OBVIOUS
    <2>1. PICK j \in Frames : log[k] = RecordOf(j)
      BY DEF WholeFrames
    <2>2. log[k].hdr = start[j]
      BY <2>1 DEF RecordOf
    <2> QED
      BY <2>2, FrameOfRecord
  <1>10. done' = Append(done, i)
    <2>1. done \in Seq(Frames) /\ Len(done) = Len(log)
      BY <1>6, <1>9
    <2>2. done' = [k \in 1 .. Len(log) + 1 |-> FrameOf(log'[k])]
      BY <1>1, <1>6 DEF FrameOf
    <2>3. \A k \in 1 .. Len(log) : FrameOf(log'[k]) = done[k]
      BY <1>6
    <2>4. FrameOf(log'[Len(log) + 1]) = i
      BY <1>6, <1>8
    <2>5. PICK e : e = done'
      OBVIOUS
    <2> HIDE DEF done
    <2>6. e = [k \in 1 .. Len(log) + 1 |-> IF k \in 1 .. Len(log) THEN done[k] ELSE i]
      BY <2>2, <2>3, <2>4, <2>5, <1>6
    <2>7. e = Append(done, i)
      BY <2>1, <2>6, AppendIs
    <2> QED
      BY <2>5, <2>7
  <1> QED
    BY <1>1, <1>4, <1>5, <1>10 DEF FS!Handle, Frames

\* Throwing the buffer away is the frame service's SkipTo, or changes nothing
\* when no new frame begins in what was buffered.
LEMMA FrameSkip ==
    ASSUME Inv, SettledBelow, SettledBelow', HeaderErr
    PROVE  (\E last \in FirstUnsettled .. N : FS!SkipTo(last)) \/ UNCHANGED FS!vars
  <1>t. TypeOK
    BY DEF Inv
  <1>1. /\ kind' = kind /\ start' = start /\ log' = log /\ state = "HEADER"
        /\ pc = "loop" /\ Mark = used /\ Mark' = rcvd /\ Buffered >= HLen
        /\ \A i \in Frames : used = start[i] => kind[i] \in BadKinds
    BY DEF HeaderErr, RequestDone, Mark, wire
  <1>2. /\ used \in Nat /\ rcvd \in Nat /\ used < rcvd /\ rcvd <= start[N + 1] /\ N \in Nat
        /\ \A i \in 1 .. N + 1 : start[i] \in Nat
    BY <1>1, <1>t, VarFacts, FrameFacts
  <1>3. PICK n \in 1 .. N + 1 : \A i \in Frames : start[i] < used <=> i < n
    BY <1>2, <1>t, FramesBefore
  <1>4. PICK m \in 1 .. N + 1 : \A i \in Frames : start[i] < rcvd <=> i < m
    BY <1>2, <1>t, FramesBefore
  <1>5. FirstUnsettled = n
    <2>1. Handled \cup gone = {j \in Frames : j < n}
      BY <1>1, <1>3 DEF SettledBelow
    <2> QED
      BY <2>1, <1>2, FirstIs DEF FirstUnsettled
  <1>6. FirstUnsettled' = m
    <2>1. (Handled \cup gone)' = {j \in Frames : j < m}
      BY <1>1, <1>4 DEF SettledBelow
    <2> QED
      BY <2>1, <1>2, FirstIs DEF FirstUnsettled
  <1>7. n <= m
    <2> SUFFICES ASSUME m < n PROVE FALSE
      BY <1>2
    <2>1. m \in Frames /\ start[m] \in Nat
      BY <1>2 DEF Frames
    <2>2. start[m] < used /\ ~(start[m] < rcvd)
      BY <1>3, <1>4, <2>1
    <2> QED
      BY <1>2, <2>1, <2>2
  <1>8. \E b \in Frames : kind[b] \in BadKinds /\ b <= m - 1
    <2>1. \E b \in Frames : kind[b] \in BadKinds /\ start[b] < rcvd
      <3>1. CASE \E i \in 1 .. N + 1 : used = start[i]
        <4>1. PICK i \in 1 .. N + 1 : used = start[i]
          BY <3>1
        <4>2. i \in Frames
          BY <1>2, <4>1 DEF Frames
        <4> QED
          BY <1>1, <1>2, <4>1, <4>2
      <3>2. CASE ~\E i \in 1 .. N + 1 : used = start[i]
        <4>1. PICK b \in Frames : kind[b] \in BadKinds /\ start[b] < used
          BY <1>1, <3>2 DEF Inv, InStepInv
        <4>2. start[b] \in Nat
          BY <1>t, FrameFacts
        <4> QED
          BY <1>2, <4>1, <4>2
      <3> QED
        BY <3>1, <3>2
    <2>2. PICK b \in Frames : kind[b] \in BadKinds /\ start[b] < rcvd
      BY <2>1
    <2>3. b < m
      BY <1>4, <2>2
    <2>4. b <= m - 1
      BY <2>3 DEF Frames
    <2> QED
      BY <2>2, <2>4
  <1>9. [k \in 1 .. Len(log) |-> FrameOf(log[k])]' = [k \in 1 .. Len(log) |-> FrameOf(log[k])]
    BY <1>1 DEF FrameOf
  <1>10. CASE n = m
    BY <1>1, <1>5, <1>6, <1>9, <1>10 DEF FS!vars
  <1>11. CASE n < m
    <2>1. m - 1 \in n .. N /\ m = (m - 1) + 1
      BY <1>2, <1>11
    <2>2. FS!SkipTo(m - 1)
      BY <1>1, <1>6, <1>8, <1>9, <2>1 DEF FS!SkipTo
    <2> QED
      BY <1>5, <2>1, <2>2
  <1> QED
    BY <1>2, <1>7, <1>10, <1>11

\* Every step of the receive path is a step of the frame service or leaves it
\* as it was.
LEMMA FrameStep ==
    Inv /\ SettledBelow /\ SettledBelow' /\ [Next]_vars => [FS!Next]_FS!vars
  <1> SUFFICES ASSUME Inv, SettledBelow, SettledBelow', [Next]_vars
               PROVE  FS!Next \/ UNCHANGED FS!vars
    OBVIOUS
  <1>t. TypeOK /\ WholeFrames
    BY DEF Inv
  <1>1. CASE HeaderErr
    BY <1>1, FrameSkip DEF FS!Next
  <1>2. ASSUME NEW i \in Frames, HeaderData(i) PROVE FS!Handle
    <2>1. /\ UNCHANGED wire /\ Mark = start[i] /\ Mark' = used + FLen(i) /\ used = start[i]
          /\ kind[i] = "data" /\ log' = Append(log, [hdr |-> used, from |-> used, len |-> FLen(i)])
      BY <1>2 DEF HeaderData, HeaderOf, Mark, req
    <2>2. start[i] \in Nat /\ FLen(i) \in Nat /\ start[i] + FLen(i) = start[i + 1]
      BY <1>t, FrameFacts
    <2>3. RecordOf(i) = [hdr |-> used, from |-> used, len |-> FLen(i)]
      BY <2>1, <2>2 DEF RecordOf, Skip
    <2>4. kind[i] \notin BadKinds /\ Mark' = start[i + 1]
      BY <2>1, <2>2 DEF BadKinds
    <2> QED
      BY <1>t, <2>1, <2>3, <2>4, FrameHandle
  <1>3. CASE DataLast
    <2>1. /\ UNCHANGED wire /\ Mark = hdr /\ Mark' = used + Portion /\ Wanted <= Buffered
          /\ log' = Append(log, [hdr |-> hdr, from |-> BodyFrom, len |-> post + Portion])
      BY <1>3 DEF DataLast, RequestDone, Mark
    <2>2. PICK i \in Frames : RequestOf(i)
      BY <1>3 DEF Inv, RequestInv, DataLast
    <2>3. Portion = Wanted /\ post + Wanted = FLen(i) - Skip(kind[i])
      BY <1>t, <2>1, <2>2, DataFacts, RequestArith
    <2>4. /\ hdr = start[i] /\ BodyFrom = start[i] + Skip(kind[i])
          /\ used + Wanted = start[i + 1] /\ kind[i] \notin BadKinds
      BY <2>2 DEF RequestOf, BadKinds
    <2>5. RecordOf(i) = [hdr |-> hdr, from |-> BodyFrom, len |-> post + Portion]
      BY <2>3, <2>4 DEF RecordOf
    <2>6. Mark = start[i] /\ Mark' = start[i + 1]
      BY <2>1, <2>3, <2>4
    <2>7. FS!Handle
      BY <1>t, <2>1, <2>4, <2>5, <2>6, FrameHandle
    <2> QED
      BY <2>7 DEF FS!Next
  <1>4. CASE \/ BufferEmpty \/ HeaderWait \/ DataPart \/ DataTooLong \/ Close \/ UNCHANGED vars
             \/ (\E n \in 1 .. BufLen : Receive(n))
             \/ (\E i \in Frames : HeaderCmd(i) \/ HeaderKey(i))
    <2>1. UNCHANGED <<kind, start, log, gone>>
      BY <1>4 DEF BufferEmpty, HeaderWait, DataPart, DataTooLong, Close, Receive, HeaderCmd, HeaderKey,
            vars, wire
    <2> QED
      BY <2>1, FrameStutter
  <1> QED
    BY <1>1, <1>2, <1>3, <1>4 DEF Next, ReadCb, FS!Next

\* The receive path implements the frame service: whatever the lengths of the
\* frames and wherever TCP cuts the stream, frames are handled one after the
\* other, and skipping needs a bad frame.
THEOREM FrameServiceImplemented == Spec => ImplementsFrameService
  <1>1. Init => GoneInv
    BY DEF Init, GoneInv
  <1>2. Spec => []SettledBelow
    BY <1>1, InvAlways, GoneNext, SettledFacts, PTL DEF Spec
  <1>3. Init => FS!Init
    <2> SUFFICES ASSUME Init PROVE FS!Init
      OBVIOUS
    <2>1. N \in Nat /\ log = << >> /\ gone = {}
      BY SizeAssumption DEF Init
    <2>2. Handled \cup gone = {i \in Frames : i < 1}
      BY <2>1 DEF Handled, Frames
    <2>3. FirstUnsettled = 1
      BY <2>1, <2>2, FirstIs DEF FirstUnsettled
    <2>4. [k \in 1 .. Len(log) |-> FrameOf(log[k])] = << >>
      BY <2>1
    <2> QED
      BY <2>3, <2>4 DEF FS!Init, Frames
  <1> QED
    BY <1>2, <1>3, InvAlways, FrameStep, PTL DEF Spec, ImplementsFrameService, FS!Spec
=============================================================================
