---------------------------- MODULE DeviceStatus ----------------------------
(***************************************************************************)
(* The device status and the uplink counters of net/net_statistics.[ch].     *)
(*                                                                         *)
(* Three threads share them without a lock: the watcher, which polls the     *)
(* FPGA cards every three seconds; uloop, which sets the status while it     *)
(* loads bit files; and an XDMA reader, which adds to the counters.  The     *)
(* watcher's three comparisons and its assignment are steps of their own.    *)
(* Before uloop starts, platform.c runs the same check once, up to a         *)
(* deadline, with nobody beside it.                                          *)
(***************************************************************************)
EXTENDS Integers

CONSTANTS
    MaxTry,     \* failed rounds the watcher overlooks (10 in the code)
    BootRounds, \* rounds that fit into the deadline of the check at boot
    MaxLoad,    \* bound: loads started
    Seconds,    \* sleep between two rounds, the divisor of the speed
    MaxBytes    \* bound: what an XDMA reader reads

\* What the constants are assumed to be.
StatusAssumption ==
    /\ MaxTry \in Nat /\ BootRounds \in Nat /\ MaxLoad \in Nat
    /\ Seconds \in Nat \ {0} /\ MaxBytes \in Nat

VARIABLES
    code,    \* net_statistics.device_status.code
    alive,   \* does a card answer when its registers are read
    pc,      \* where the checker is
    cmp,     \* the comparison it is at
    tries,   \* its try_count
    rounds,  \* its rounds before the deadline
    load,    \* is uloop in the middle of a load
    loads,   \* loads so far
    up,      \* read_bytes, route_bytes and read_speed_bps of a channel
    old,     \* olddata of _get_uplink_speed
    block,   \* the bytes of the block being dispatched that were not routed, and routed
    verdict, \* the last status uloop has set
    excuse   \* what has happened to the status since then

vars == <<code, alive, pc, cmp, tries, rounds, load, loads, up, old, block, verdict, excuse>>

watch   == <<pc, cmp, tries, rounds>>
loading == <<load, loads, verdict>>
uplink  == <<up, old, block>>

Cleared == <<"check_card", "load_ok", "no_card">>  \* what the watcher turns into ok
Errors  == {"load_err", "link_err"}
Codes   == {"ok", "loading", "check_card", "load_ok", "no_card"} \cup Errors

NoBlock == [len |-> 0, routed |-> 0]

Init ==
    /\ code = "check_card"
    /\ alive \in BOOLEAN
    /\ pc = "boot" /\ cmp = 1 /\ tries = 0 /\ rounds = 0
    /\ load = FALSE /\ loads = 0
    /\ up = [read |-> 0, route |-> 0, speed |-> 0] /\ old = 0 /\ block = NoBlock
    /\ verdict = "none" /\ excuse = {}

-----------------------------------------------------------------------------
(* The checker, _check_fpga_status.                                          *)

\* A round that finds no card: the count goes up, and every so many failures the
\* status says so.  It is not reset by a round that finds one.
NoAnswer ==
    /\ tries' = IF tries > MaxTry THEN 0 ELSE tries + 1
    /\ IF tries > MaxTry
         THEN /\ code' = "no_card"
              /\ excuse' = excuse \cup {"no_card"}
         ELSE UNCHANGED <<code, excuse>>

\* At boot nobody else writes, so a round is one step.
BootOk ==
    /\ pc = "boot" /\ alive
    /\ code' = "ok"
    /\ pc' = "look" /\ tries' = 0
    /\ UNCHANGED <<alive, cmp, rounds, loading, uplink, excuse>>

BootRetry ==
    /\ pc = "boot" /\ ~alive /\ rounds < BootRounds
    /\ rounds' = rounds + 1
    /\ NoAnswer
    /\ UNCHANGED <<alive, pc, cmp, loading, uplink>>

BootFailed ==
    /\ pc = "boot" /\ ~alive /\ rounds = BootRounds
    /\ code' = "no_card"
    /\ pc' = "look" /\ tries' = 0
    /\ UNCHANGED <<alive, cmp, rounds, loading, uplink, excuse>>

Look ==
    /\ pc = "look"
    /\ IF alive
         THEN pc' = "compare" /\ UNCHANGED <<code, tries, excuse>>
         ELSE pc' = "sleep" /\ NoAnswer
    /\ UNCHANGED <<alive, cmp, rounds, loading, uplink>>

\* Fault: an error is cleared too.
Compare_Any ==
    /\ pc = "compare"
    /\ pc' = "set"
    /\ UNCHANGED <<code, alive, cmp, tries, rounds, loading, uplink, excuse>>

\* Fault: the status no_card is never cleared.
Compare_NotBack ==
    /\ pc = "compare"
    /\ pc' = IF cmp = 3 THEN "sleep" ELSE IF code = Cleared[cmp] THEN "set" ELSE pc
    /\ cmp' = IF pc' = pc THEN cmp + 1 ELSE 1
    /\ UNCHANGED <<code, alive, tries, rounds, loading, uplink, excuse>>

\* The comparisons are made one after the other, each with a fresh read.
Compare ==
    /\ pc = "compare"
    /\ pc' = IF code = Cleared[cmp] THEN "set" ELSE IF cmp < 3 THEN pc ELSE "sleep"
    /\ cmp' = IF pc' = pc THEN cmp + 1 ELSE 1
    /\ UNCHANGED <<code, alive, tries, rounds, loading, uplink, excuse>>

SetOk ==
    /\ pc = "set"
    /\ code' = "ok"
    /\ pc' = "sleep"
    /\ UNCHANGED <<alive, cmp, tries, rounds, loading, uplink, excuse>>

\* The counter the speed is made of: ns_uplink_get_read_bytes.
GetReadBytes == up.route

\* Fault: the baseline of the speed stays.
Speed_SameBase(new) ==
    /\ up' = [up EXCEPT !.speed = IF new > old THEN (new - old) \div Seconds ELSE 0]
    /\ UNCHANGED old

\* Fault: the speed is not per second.
Speed_NotDivided(new) ==
    /\ up' = [up EXCEPT !.speed = IF new > old THEN new - old ELSE 0]
    /\ old' = new

Speed(new) ==
    /\ up' = [up EXCEPT !.speed = IF new > old THEN (new - old) \div Seconds ELSE 0]
    /\ old' = new

Wake ==
    /\ pc = "sleep"
    /\ Speed(GetReadBytes)
    /\ pc' = "look"
    /\ UNCHANGED <<code, alive, cmp, tries, rounds, loading, block, excuse>>

-----------------------------------------------------------------------------
(* uloop, which runs once the check at boot is over.                         *)

Set(s) ==
    /\ code' = s
    /\ verdict' = s
    /\ excuse' = IF pc \in {"compare", "set"} THEN {"race"} ELSE {}

\* A portion of a bit file that is not the last.
Portion ==
    /\ pc # "boot"
    /\ loads < MaxLoad
    /\ load' = TRUE /\ loads' = loads + 1
    /\ Set("loading")
    /\ UNCHANGED <<alive, watch, uplink>>

\* The last one: the FPGA's verdict.
LoadOver ==
    /\ load
    /\ load' = FALSE
    /\ \E s \in {"load_ok"} \cup Errors : Set(s)
    /\ UNCHANGED <<alive, watch, loads, uplink>>

-----------------------------------------------------------------------------
(* An XDMA reader dispatches a block: its frames are routed, those of no     *)
(* route are not, and the whole block counts as read at the end.             *)

ReadBlock ==
    /\ pc # "boot" /\ block = NoBlock
    /\ \E n \in 1 .. MaxBytes - up.read : \E r \in 0 .. n :
          /\ block' = [len |-> n, routed |-> r]
          /\ up' = [up EXCEPT !.route = @ + r]
    /\ UNCHANGED <<code, alive, watch, loading, old, excuse>>

EndBlock ==
    /\ block # NoBlock
    /\ up' = [up EXCEPT !.read = @ + block.len]
    /\ block' = NoBlock
    /\ UNCHANGED <<code, alive, watch, loading, old, excuse>>

\* The cards come and go.
Cards ==
    /\ alive' = ~alive
    /\ UNCHANGED <<code, watch, loading, uplink, excuse>>

Checker == BootOk \/ BootRetry \/ BootFailed \/ Look \/ Compare \/ SetOk \/ Wake
Uloop   == Portion \/ LoadOver
Reader  == ReadBlock \/ EndBlock

Next == Checker \/ Uloop \/ Reader \/ Cards

\* The watcher and the reader are threads of their own; uloop and the cards
\* may do nothing for ever.
Fairness == WF_vars(Checker) /\ WF_vars(EndBlock)

Spec == Init /\ [][Next]_vars /\ Fairness

-----------------------------------------------------------------------------
\* net_statistics and the watcher's locals hold values of their types.
TypeOK ==
    /\ code \in Codes
    /\ alive \in BOOLEAN
    /\ pc \in {"boot", "look", "compare", "set", "sleep"} /\ cmp \in 1 .. 3
    /\ tries \in 0 .. MaxTry + 1 /\ rounds \in 0 .. BootRounds
    /\ load \in BOOLEAN /\ loads \in 0 .. MaxLoad
    /\ up \in [read : 0 .. MaxBytes, route : 0 .. MaxBytes, speed : 0 .. MaxBytes]
    /\ old \in 0 .. MaxBytes
    /\ block \in [len : 0 .. MaxBytes, routed : 0 .. MaxBytes]
    /\ verdict \in Codes \cup {"none"}
    /\ excuse \subseteq {"race", "no_card"}

\* The error of a load stays on show (net_statistics.c:107-112 leaves load_err
\* and link_err alone) unless the cards were lost in between, or uloop set it
\* after the watcher had begun to compare.
ErrorKept == (verdict \in Errors /\ excuse = {}) => code = verdict

\* The speed is taken over the bytes since the round before: the bytes that the
\* speeds account for never exceed the bytes there are (_get_uplink_speed).
SpeedSound == old <= up.route /\ up.speed * Seconds <= up.route

\* The three at once: what the threads that share the status and the counters
\* without a lock never spoil (net_statistics.c).
StatusSound == TypeOK /\ ErrorKept /\ SpeedSound

\* The speed falls to zero once nothing is routed any more.
SpeedSettles == []<>(up.speed = 0)

\* When the cards answer and no load is going on, the status ends as ok or as
\* the error of the last load: checking, load ok and no card are passing states.
Settles ==
    <>[](alive /\ ~load) => <>[](code \in {"ok"} \cup Errors)

\* What net_statistics.c:111 says of the assignment that follows: the status it
\* overwrites is checking, load ok or no card.
ClearsOnlyCleared == pc = "set" => \E i \in 1 .. 3 : code = Cleared[i]

\* What "readBytes" shows (parse_json.c:973, net_statistics.h:163) are the bytes
\* read, when no block is being dispatched.
ReadBytesAreRead == block = NoBlock => GetReadBytes = up.read
=============================================================================
