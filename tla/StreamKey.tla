------------------------------ MODULE StreamKey ------------------------------
(***************************************************************************)
(* The key of a stream, GET_HASHMAP_ID and its inverses in                   *)
(* bsp/card10g_57/bsp.h: card slot, chip, function, priority and port are    *)
(* packed into 3 + 2 + 8 + 1 + 2 bits.  The dispatcher files frames under    *)
(* it, SUB enters it into the table of a client together with the fields it  *)
(* unpacks again (net/net_sub.c).  Every field is reduced to its width       *)
(* without a check.                                                          *)
(***************************************************************************)
EXTENDS Integers, FiniteSets

CONSTANTS
    Chips,   \* chip ids of commands and frames, slot * 256 + chip
    Funcs, Ports,
    MaxSubs  \* bound: subscriptions of a client, within MAX_RANDOM_ENTRIES

KeyAssumption ==
    /\ Chips \subseteq Nat /\ Funcs \subseteq Nat /\ Ports \subseteq Nat
    /\ MaxSubs \in Nat /\ MaxSubs <= 8192

VARIABLES
    asked,  \* the streams a client has subscribed to
    table   \* its table: a record for each key

vars == <<asked, table>>

\* The widths, CARD_*_MODE.
SlotMode == 8
ChipMode == 4
FuncMode == 256
PrioMode == 2
PortMode == 4

Streams == [chip : Chips, func : Funcs, prio : {0, 1}, port : Ports]

\* Fault: the function is not moved behind the chip.
GetHashmapId_Overlaps(s) ==
    (((s.chip \div 256) % 256) % SlotMode) + 8 * ((s.chip % 256) % ChipMode)
      + 16 * (s.func % FuncMode) + 8192 * (s.prio % PrioMode) + 16384 * (s.port % PortMode)

\* GET_HASHMAP_ID
GetHashmapId(s) ==
    (((s.chip \div 256) % 256) % SlotMode) + 8 * ((s.chip % 256) % ChipMode)
      + 32 * (s.func % FuncMode) + 8192 * (s.prio % PrioMode) + 16384 * (s.port % PortMode)

\* GET_SLOT_CHIP_ID_BY_HASHID and the other inverses, as client_hash_insert uses them.
Unpacked(k) ==
    [chip |-> 256 * (k % 8) + ((k \div 8) % 4), func |-> (k \div 32) % 256,
     prio |-> (k \div 8192) % 2, port |-> (k \div 16384) % 4]

\* A stream whose fields have their widths.
Fits(s) ==
    /\ s.chip \div 256 < SlotMode /\ s.chip % 256 < ChipMode
    /\ s.func < FuncMode /\ s.prio < PrioMode /\ s.port < PortMode

Init == asked = {} /\ table = {}

\* client_hash_insert: a key that is there already is left alone.  The table
\* takes 8192 entries.
Insert(s) ==
    /\ Cardinality(asked) < MaxSubs
    /\ asked' = asked \cup {s}
    /\ table' = IF \E r \in table : r.key = GetHashmapId(s) THEN table
                ELSE table \cup {[key |-> GetHashmapId(s), sub |-> Unpacked(GetHashmapId(s))]}

\* client_hash_delete_item
Delete(s) ==
    /\ asked' = asked \ {s}
    /\ table' = {r \in table : r.key # GetHashmapId(s)}

Next == \E s \in Streams : Insert(s) \/ Delete(s)

Spec == Init /\ [][Next]_vars
-----------------------------------------------------------------------------
\* If the fields of the streams have their widths, the table shows exactly the
\* streams the client has subscribed to, each under its own key: no stream is
\* served for another and none is lost with another (client_hash_dump).
Shown == (\A s \in Streams : Fits(s)) =>
            table = {[key |-> GetHashmapId(s), sub |-> s] : s \in asked}

\* The key of a subscription is 16 bits wide, MAX_XDMA_DISP_TYPE_NUM.
TypeOK == asked \subseteq Streams /\ \A r \in table : r.key \in Nat /\ r.key < 65536

\* What client_hash_insert and client_hash_delete_item leave in the table are 16-bit
\* keys, and the table is what was subscribed.
KeysExact == TypeOK /\ Shown
=============================================================================
