---------------------------- MODULE FrameService ----------------------------
(***************************************************************************)
(* What a command connection promises, without bytes and buffers: the       *)
(* frames the peer sent are taken one after the other, each is handled once  *)
(* or skipped, and skipping starts only at a frame that is itself bad.       *)
(***************************************************************************)
EXTENDS Integers, Sequences

CONSTANT N         \* frames sent

VARIABLES bad,     \* the frames whose header is rejected; never changes
          next,    \* the next frame to be settled
          done     \* the frames handled, in order

vars == <<bad, next, done>>

Init ==
    /\ bad \in SUBSET (1 .. N)
    /\ next = 1
    /\ done = << >>

Handle ==
    /\ next \in (1 .. N) \ bad
    /\ done' = Append(done, next)
    /\ next' = next + 1
    /\ UNCHANGED bad

\* Frames next .. last are skipped because of a bad one among them or, once
\* the stream is out of step, before them.
SkipTo(last) ==
    /\ \E b \in bad : b <= last
    /\ next' = last + 1
    /\ UNCHANGED <<bad, done>>

Next == Handle \/ \E last \in next .. N : SkipTo(last)

Spec == Init /\ [][Next]_vars
=============================================================================
