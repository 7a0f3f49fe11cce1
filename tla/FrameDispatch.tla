---------------------------- MODULE FrameDispatch ----------------------------
(***************************************************************************)
(* The dispatcher of executor/spm/spm_xdma.c: it cuts a block the FPGA has   *)
(* written into groups of frames of one stream and puts each group, without  *)
(* copying, under the key of that stream into the table of spm_hash.c, where *)
(* the sender threads find it.                                               *)
(*                                                                         *)
(* A block is a sequence of cells of 8 bytes, the step of the search for a   *)
(* header; the first cell of a frame is its header, every other is data.     *)
(* What lies behind the block in the DMA ring is not part of it.             *)
(***************************************************************************)
EXTENDS Integers, Sequences, FiniteSets

CONSTANTS
    MaxCells,  \* bound: the cells of a block
    Streams,   \* streams of cards that are present: chip, function and port
    LenMax,    \* the largest length of a frame, 2048 bytes
    MaxFrames, \* _MAX_PACKAGES_NUM
    MaxVec,    \* MAX_SPM_HASH_DATA
    MaxKeys,   \* MAX_SPM_RANDOM_ENTRIES
    Blocks     \* bound: the blocks read before the table is cleared

\* What the constants are assumed to be.
DispatchAssumption ==
    /\ MaxCells \in Nat \ {0} /\ LenMax \in Nat /\ Blocks \in Nat \ {0}
    /\ MaxFrames \in Nat \ {0} /\ MaxVec \in Nat \ {0} /\ MaxKeys \in Nat
    /\ "none" \notin Streams /\ "bad" \notin Streams

VARIABLES
    block,   \* the cells of the block
    nth,     \* which block of the batch it is
    pc,      \* where the dispatcher is
    offset,  \* what has been dispatched of the block
    sum,     \* sum_len: the length of the group
    pos,     \* the frames of the group
    sub,     \* the stream and the priority of its first frame
    err,     \* err_code
    over,    \* read_over
    table,   \* the groups under each key
    held,    \* the keys that are in the table
    lost,    \* route_err_pkgs
    frames   \* the frames found valid since the table was cleared

vars == <<block, nth, pc, offset, sum, pos, sub, err, over, table, held, lost, frames>>

Data == [stream |-> "none", prio |-> 0, len |-> 0]

\* The headers: streams of the cards present with any priority and length, a
\* card that is not there, and a length that no frame has.
Heads ==
    [stream : Streams, prio : {0, 1}, len : 0 .. LenMax]
      \cup {[stream |-> "bad", prio |-> 0, len |-> 1]}
      \cup {[stream |-> s, prio |-> 0, len |-> LenMax + 1] : s \in Streams}

IsHead(c) == c # Data

Keys == Streams \X {0, 1}

\* What is left of the block behind the groups dispatched.
Rest == Len(block) - offset

\* The cell the analysis has reached.
At == block[offset + sum + 1]

NoSub == <<"none", 0>>

Init ==
    /\ block = <<>> /\ nth = 0 /\ pc = "read"
    /\ offset = 0 /\ sum = 0 /\ pos = 0 /\ sub = NoSub /\ err = FALSE /\ over = FALSE
    /\ table = [k \in Keys |-> <<>>] /\ held = {} /\ lost = 0 /\ frames = {}

-----------------------------------------------------------------------------
\* The driver has filled a block, and its analysis begins.
Read ==
    /\ pc = "read" /\ nth < Blocks
    /\ \E n \in 1 .. MaxCells : \E b \in [1 .. n -> Heads \cup {Data}] : block' = b
    /\ nth' = nth + 1 /\ pc' = "match" /\ offset' = 0
    /\ sum' = 0 /\ pos' = 0 /\ sub' = NoSub /\ err' = FALSE /\ over' = FALSE
    /\ UNCHANGED <<table, held, lost, frames>>

\* The groups of all blocks have been sent: spm_clear_all_hash.  The keys stay.
Clear ==
    /\ pc = "read" /\ nth > 0
    /\ table' = [k \in Keys |-> <<>>]
    /\ block' = <<>> /\ nth' = 0 /\ offset' = 0 /\ frames' = {} /\ lost' = 0
    /\ UNCHANGED <<pc, sum, pos, sub, err, over, held>>

-----------------------------------------------------------------------------
(* _xdma_of_match_pkgs: one step for each turn of its loop.                  *)

\* The analysis ends with an error: the rest of the block is given up.
Fail(n) == sum' = n /\ err' = TRUE /\ pc' = "matched"

\* The first header in what is left of the block; 0 if there is none.
NextHeader ==
    LET H == {i \in 1 .. Rest - sum : IsHead(block[offset + sum + i])}
    IN  IF H = {} THEN 0 ELSE CHOOSE i \in H : \A j \in H : i <= j

\* No header here.  At the beginning of a group that ends the block; behind a
\* frame the next header is searched, and what is skipped belongs to the group.
Skip ==
    /\ pc = "match" /\ sum < Rest /\ ~IsHead(At)
    /\ IF sum = 0 \/ NextHeader = 0
         THEN pc' = "matched" /\ UNCHANGED sum
         ELSE sum' = sum + NextHeader - 1 /\ UNCHANGED pc
    /\ UNCHANGED <<block, nth, offset, pos, sub, err, over, table, held, lost, frames>>

\* A length that no frame has, a card that is not there, and a frame too many.
BadLength == At.len > LenMax
NewStream == pos = 0 \/ At.stream # sub[1]
BadChip   == NewStream /\ At.stream = "bad"
TooMany   == pos + 1 >= MaxFrames

Bad ==
    /\ pc = "match" /\ sum < Rest /\ IsHead(At)
    /\ \/ BadLength /\ Fail(0)
       \/ ~BadLength /\ BadChip /\ Fail(sum)
       \/ ~BadLength /\ ~NewStream /\ TooMany /\ Fail(0)
    /\ pos' = IF ~BadLength /\ ~BadChip THEN pos + 1 ELSE pos
    /\ UNCHANGED <<block, nth, offset, sub, over, table, held, lost, frames>>

\* A frame of another stream ends the group.
OtherStream ==
    /\ pc = "match" /\ sum < Rest /\ IsHead(At)
    /\ ~BadLength /\ ~BadChip /\ pos > 0 /\ NewStream
    /\ pc' = "matched"
    /\ UNCHANGED <<block, nth, offset, sum, pos, sub, err, over, table, held, lost, frames>>

\* The frame at hand.
Found == [block |-> nth, at |-> offset + sum, stream |-> At.stream, prio |-> At.prio, len |-> At.len]

\* Fault: the frames are not counted.
Take_NotCounted ==
    /\ pc = "match" /\ sum < Rest /\ IsHead(At)
    /\ ~BadLength /\ ~BadChip /\ (pos = 0 \/ ~NewStream)
    /\ sub' = IF pos = 0 THEN <<At.stream, At.prio>> ELSE sub
    /\ pos' = 1 /\ sum' = sum + At.len
    /\ frames' = frames \cup {Found}
    /\ UNCHANGED <<block, nth, pc, offset, err, over, table, held, lost>>

\* Fault: the port is not compared, so that every frame is of the same stream.
Take_AnyStream ==
    /\ pc = "match" /\ sum < Rest /\ IsHead(At)
    /\ ~BadLength /\ ~BadChip /\ ~TooMany
    /\ sub' = IF pos = 0 THEN <<At.stream, At.prio>> ELSE sub
    /\ pos' = pos + 1 /\ sum' = sum + At.len
    /\ frames' = frames \cup {Found}
    /\ UNCHANGED <<block, nth, pc, offset, err, over, table, held, lost>>

\* A frame of the stream, or the first: the first decides on the priority.
Take ==
    /\ pc = "match" /\ sum < Rest /\ IsHead(At)
    /\ ~BadLength /\ ~BadChip /\ (pos = 0 \/ ~NewStream) /\ ~TooMany
    /\ sub' = IF pos = 0 THEN <<At.stream, At.prio>> ELSE sub
    /\ pos' = pos + 1 /\ sum' = sum + At.len
    /\ frames' = frames \cup {Found}
    /\ UNCHANGED <<block, nth, pc, offset, err, over, table, held, lost>>

\* The loop has come to the end of the block, or a frame reaches beyond it.
End ==
    /\ pc = "match" /\ sum >= Rest
    /\ pc' = "matched"
    /\ UNCHANGED <<block, nth, offset, sum, pos, sub, err, over, table, held, lost, frames>>

\* After the loop: an error, or nothing left, ends the block.
Matched ==
    /\ pc = "matched"
    /\ over' = (err \/ sum >= Rest)
    /\ lost' = IF err THEN lost + 1 ELSE lost
    /\ pc' = "load"
    /\ UNCHANGED <<block, nth, offset, sum, pos, sub, err, table, held, frames>>

-----------------------------------------------------------------------------
(* The loop of xdma_data_dispatcher_buffer around it.                        *)

\* spm_hash_renew: the group is added under its key; a full vector refuses it, and
\* a full table refuses a new key.  No key is ever taken out of the table.
Renew(k, g) ==
    IF Len(table[k]) < MaxVec /\ (k \in held \/ Cardinality(held) < MaxKeys)
      THEN /\ table' = [table EXCEPT ![k] = Append(@, g)]
           /\ held' = held \cup {k}
           /\ UNCHANGED lost
      ELSE lost' = lost + 1 /\ UNCHANGED <<table, held>>

\* Fault: a group longer than the block is dispatched.
Load_NoLimit ==
    /\ pc = "load"
    /\ IF sum > 0
         THEN Renew(sub, [block |-> nth, from |-> offset, len |-> sum])
         ELSE UNCHANGED <<table, held, lost>>
    /\ pc' = IF over \/ sum = 0 \/ sum > Rest THEN "read" ELSE "match"
    /\ offset' = IF sum <= Rest THEN offset + sum ELSE offset
    /\ sum' = 0 /\ pos' = 0 /\ sub' = NoSub /\ err' = FALSE /\ over' = FALSE
    /\ UNCHANGED <<block, nth, frames>>

\* Fault: the next group begins with the last cell of this one.
Load_Overlaps ==
    /\ pc = "load"
    /\ IF sum > 0 /\ sum <= Len(block)
         THEN Renew(sub, [block |-> nth, from |-> offset, len |-> sum])
         ELSE UNCHANGED <<table, held, lost>>
    /\ pc' = IF over \/ sum = 0 \/ sum > Rest THEN "read" ELSE "match"
    /\ offset' = IF sum <= Rest THEN offset + sum - (IF sum > 1 THEN 1 ELSE 0) ELSE offset
    /\ sum' = 0 /\ pos' = 0 /\ sub' = NoSub /\ err' = FALSE /\ over' = FALSE
    /\ UNCHANGED <<block, nth, frames>>

\* The group is dispatched, and the next one begins behind it unless the block
\* is over.
Load ==
    /\ pc = "load"
    /\ IF sum > 0 /\ sum <= Len(block)
         THEN Renew(sub, [block |-> nth, from |-> offset, len |-> sum])
         ELSE UNCHANGED <<table, held, lost>>
    /\ pc' = IF over \/ sum = 0 \/ sum > Rest THEN "read" ELSE "match"
    /\ offset' = IF sum <= Rest THEN offset + sum ELSE offset
    /\ sum' = 0 /\ pos' = 0 /\ sub' = NoSub /\ err' = FALSE /\ over' = FALSE
    /\ UNCHANGED <<block, nth, frames>>

Next == Read \/ Clear \/ Skip \/ Bad \/ OtherStream \/ Take \/ End \/ Matched \/ Load

Spec == Init /\ [][Next]_vars

-----------------------------------------------------------------------------
\* The cells of a group, and the groups of the current block.
Cells(g)  == g.from + 1 .. g.from + g.len
Groups(k) == {table[k][i] : i \in 1 .. Len(table[k])}
Cut       == \E f \in frames : f.block = nth /\ f.at + f.len > Len(block)
Holds(g, f) == f.block = g.block /\ g.from <= f.at /\ f.at < g.from + g.len

\* The counters of the analysis stay within the block and the vectors within
\* their limit (spm_hash_renew).
TypeOK ==
    /\ block \in Seq(Heads \cup {Data}) /\ Len(block) <= MaxCells
    /\ nth \in 0 .. Blocks /\ pc \in {"read", "match", "matched", "load"}
    /\ offset \in 0 .. Len(block) /\ sum \in 0 .. Len(block) + LenMax /\ pos \in 0 .. MaxFrames
    /\ sub \in Keys \cup {NoSub} /\ err \in BOOLEAN /\ over \in BOOLEAN
    /\ held \subseteq Keys /\ Cardinality(held) <= MaxKeys /\ lost \in Nat
    /\ \A k \in Keys : /\ Len(table[k]) <= MaxVec
                       /\ k \notin held => table[k] = <<>>

\* A frame that was found valid is dispatched to its own stream and no other, in
\* one group at most, and in one unless an error was counted or the block ends
\* within its last frame.  Every group begins with a frame.
Routed ==
    pc = "read" =>
        /\ \A f \in frames : \A k \in Keys : \A g \in Groups(k) : Holds(g, f) => k[1] = f.stream
        /\ (lost = 0 /\ ~Cut) => \A f \in frames : (f.block = nth /\ f.len > 0) =>
               \E p \in {0, 1} : \E g \in Groups(<<f.stream, p>>) : Holds(g, f)
        /\ \A k \in Keys : \A g \in Groups(k) : \E f \in frames : f.block = g.block /\ f.at = g.from

\* No cell of a block is dispatched twice, to one stream or to two.
Disjoint ==
    \A k1, k2 \in Keys : \A i \in 1 .. Len(table[k1]) : \A j \in 1 .. Len(table[k2]) :
        LET g1 == table[k1][i]  g2 == table[k2][j]
        IN  (<<k1, i>> # <<k2, j>> /\ g1.block = g2.block) => Cells(g1) \cap Cells(g2) = {}

\* A group reaches beyond the block only with a last frame that is cut off there,
\* and never if it is the first of the block.
CutOnly ==
    \A k \in Keys : \A g \in Groups(k) :
        (g.block = nth /\ g.from + g.len > Len(block)) =>
            /\ g.from > 0
            /\ \E f \in frames : Holds(g, f) /\ f.at < Len(block) /\ f.at + f.len = g.from + g.len

\* The three at once, and the types: what becomes of a block.
BlockSound == TypeOK /\ Routed /\ Disjoint /\ CutOnly

Stage == [x \in {"match", "matched", "load"} |-> IF x = "match" THEN 0 ELSE IF x = "matched" THEN 1 ELSE 2]

\* The analysis of a block ends, with frames of length 0 as well: every step
\* takes the place in the block, the stage, the number of frames or the length
\* of the group on, in this order, and all of them are bounded.
Progress ==
    pc # "read" /\ pc' # "read" =>
       \/ offset' > offset
       \/ /\ offset' = offset
          /\ \/ Stage[pc'] > Stage[pc]
             \/ pc' = pc /\ (pos' > pos \/ (pos' = pos /\ sum' > sum))

\* The same, of a behaviour.
DispatchEnds == [][Progress]_vars

\* What the comments say: a length that reaches beyond the block is not used.
InsideBlock ==
    \A k \in Keys : \A g \in Groups(k) : g.block = nth => g.from + g.len <= Len(block)

\* What the comments say: the frames of a group have the same subscription, and
\* where they go depends on their priority.
SamePriority ==
    \A k \in Keys : \A g \in Groups(k) : \A f \in frames : Holds(g, f) => k = <<f.stream, f.prio>>

\* What the comments say: after an error the frames analysed before can be used.
AnalysedReturned ==
    (pc = "matched" /\ err) =>
        \A f \in frames : (f.block = nth /\ f.at >= offset) => f.at + f.len <= offset + sum
=============================================================================
