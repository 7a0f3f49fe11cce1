----------------------------- MODULE UloopTimers -----------------------------
(***************************************************************************)
(* The timers of the event loop (lib/libubox/uloop.c).  Pending timers are in *)
(* a list that an insertion keeps in order; every turn of the loop reads the  *)
(* clock, calls back the timers at the head of the list that are due, and     *)
(* sleeps until the first one is.  Times are seconds and microseconds, but    *)
(* are compared in milliseconds, each part rounded by itself.                *)
(***************************************************************************)
EXTENDS Integers, Sequences

CONSTANTS
    Timers,  \* the timers of the program
    Delays,  \* delays timers are set to, in milliseconds
    Starts,  \* times of the clock when the loop starts
    Ticks,   \* what the clock advances by, in microseconds
    MaxNow   \* bound: the last time of the clock

ASSUME TimersAssumption ==
    /\ Timers # {} /\ Delays \subseteq Nat /\ Ticks \subseteq Nat
    /\ MaxNow \in Nat /\ Starts \subseteq 0 .. MaxNow

VARIABLES
    now,   \* CLOCK_MONOTONIC, in microseconds
    time,  \* when each timer is due: a timeval
    list,  \* timeouts, first one first
    pc,    \* where the loop is
    tv,    \* the clock as last read
    wait,  \* how long to sleep, in milliseconds; -1 is until an event
    fired  \* timer of the last callback

vars == <<now, time, list, pc, tv, wait, fired>>

\* A second, in microseconds.
Second == 1000 * 1000

Timeval == {t \in [sec : Nat, usec : Nat] : t.usec <= Second}
Clock   == [sec |-> now \div Second, usec |-> now % Second]

\* A time in microseconds.
Us(t) == Second * t.sec + t.usec

\* Division as in C: towards zero.
Quotient(n, d) == IF n >= 0 THEN n \div d ELSE -((-n) \div d)

\* tv_diff
TvDiff(a, b) == (a.sec - b.sec) * 1000 + Quotient(a.usec - b.usec, 1000)

Pending(t) == \E i \in 1 .. Len(list) : list[i] = t

\* The lists after list_add_tail(e, place) and list_del.
InsertAt(s, k, e) == [i \in 1 .. (Len(s) + 1) |-> IF i < k THEN s[i] ELSE IF i = k THEN e ELSE s[i - 1]]
RemoveAt(s, k)    == [i \in 1 .. (Len(s) - 1) |-> IF i < k THEN s[i] ELSE s[i + 1]]
Without(s, t)     == IF \E i \in 1 .. Len(s) : s[i] = t
                     THEN RemoveAt(s, CHOOSE i \in 1 .. Len(s) : s[i] = t) ELSE s

Init ==
    /\ now \in Starts /\ time = [t \in Timers |-> [sec |-> 0, usec |-> 0]]
    /\ list = <<>> /\ pc = "top" /\ tv = [sec |-> 0, usec |-> 0]
    /\ wait = -1 /\ fired = CHOOSE t \in Timers : TRUE

-----------------------------------------------------------------------------
Advance(d) ==
    /\ now + d <= MaxNow /\ now' = now + d
    /\ UNCHANGED <<time, list, pc, tv, wait, fired>>

\* uloop_timeout_set, first half: the time the timer is due.
Due(ms) ==
    LET s == Clock.sec + (ms \div 1000)
        u == Clock.usec + (ms % 1000) * 1000
    IN  IF u > Second THEN [sec |-> s + 1, usec |-> u - Second] ELSE [sec |-> s, usec |-> u]

\* Fault: the new timer goes to the end of the list.
IsPlace_Last(l, tm, d, k) == k = Len(l) + 1

\* uloop_timeout_add: the place of the first timer that is due later, or the end.
IsPlace(l, tm, d, k) ==
    /\ \A i \in 1 .. (k - 1) : TvDiff(tm[l[i]], d) <= 0
    /\ k <= Len(l) => TvDiff(tm[l[k]], d) > 0

\* uloop_timeout_set, called from a callback: a pending timer is taken out first.
Set(t, ms) ==
    /\ pc \in {"timer", "event"}
    /\ LET l == Without(list, t)
       IN  \E k \in 1 .. (Len(l) + 1) : IsPlace(l, time, Due(ms), k) /\ list' = InsertAt(l, k, t)
    /\ time' = [time EXCEPT ![t] = Due(ms)]
    /\ UNCHANGED <<now, pc, tv, wait, fired>>

\* uloop_timeout_cancel
Cancel(t) ==
    /\ pc \in {"timer", "event"} /\ Pending(t)
    /\ list' = Without(list, t)
    /\ UNCHANGED <<now, time, pc, tv, wait, fired>>

\* uloop_run_timeout: the clock is read once for all the timers of a turn.
Turn ==
    /\ pc = "top" /\ pc' = "process" /\ tv' = Clock
    /\ UNCHANGED <<now, time, list, wait, fired>>

\* Fault: what is due within the next two milliseconds is called back.
Expire_Early ==
    /\ pc = "process" /\ list # <<>> /\ TvDiff(time[list[1]], tv) <= 1
    /\ fired' = list[1] /\ list' = RemoveAt(list, 1) /\ pc' = "timer"
    /\ UNCHANGED <<now, time, tv, wait>>

\* uloop_process_timeouts: the first timer is due; it is taken out and called back.
Expire ==
    /\ pc = "process" /\ list # <<>> /\ TvDiff(time[list[1]], tv) <= 0
    /\ fired' = list[1] /\ list' = RemoveAt(list, 1) /\ pc' = "timer"
    /\ UNCHANGED <<now, time, tv, wait>>

TimerReturns ==
    /\ pc = "timer" /\ pc' = "process"
    /\ UNCHANGED <<now, time, list, tv, wait, fired>>

\* Fault: the list is looked at from its end.
NextTimeout_Last(l, tm, c) ==
    IF l = <<>> THEN -1
    ELSE IF TvDiff(tm[l[Len(l)]], c) < 0 THEN 0 ELSE TvDiff(tm[l[Len(l)]], c)

\* uloop_get_next_timeout
NextTimeout(l, tm, c) ==
    IF l = <<>> THEN -1
    ELSE IF TvDiff(tm[l[1]], c) < 0 THEN 0 ELSE TvDiff(tm[l[1]], c)

\* Fault: the turn ends after the first callback.
Sleep_Unlooked ==
    /\ pc = "process" /\ pc' = "sleep"
    /\ wait' = NextTimeout(list, time, Clock)
    /\ UNCHANGED <<now, time, list, tv, fired>>

\* The first timer is not due: sleep for what is left, by the clock read again.
Sleep ==
    /\ pc = "process" /\ (list # <<>> => TvDiff(time[list[1]], tv) > 0)
    /\ pc' = "sleep" /\ wait' = NextTimeout(list, time, Clock)
    /\ UNCHANGED <<now, time, list, tv, fired>>

\* An event or the end of the sleep, and the callback of an event.
Wake ==
    /\ pc = "sleep" /\ pc' = "event"
    /\ UNCHANGED <<now, time, list, tv, wait, fired>>

EventReturns ==
    /\ pc = "event" /\ pc' = "top"
    /\ UNCHANGED <<now, time, list, tv, wait, fired>>

Next ==
    \/ \E d \in Ticks : Advance(d)
    \/ \E t \in Timers : Cancel(t) \/ \E ms \in Delays : Set(t, ms)
    \/ Turn \/ Expire \/ TimerReturns \/ Sleep \/ Wake \/ EventReturns

Spec == Init /\ [][Next]_vars

-----------------------------------------------------------------------------
Distinct(l)    == \A i, j \in 1 .. Len(l) : l[i] = l[j] => i = j
InOrder(l, tm) == \A i, j \in 1 .. Len(l) : i < j => Us(tm[l[i]]) < Us(tm[l[j]]) + 1000

\* The types; no timer is in the list twice.
TypeOK ==
    /\ now \in 0 .. MaxNow /\ time \in [Timers -> Timeval] /\ list \in Seq(Timers)
    /\ pc \in {"top", "process", "timer", "sleep", "event"}
    /\ tv \in Timeval /\ wait \in Nat \cup {-1} /\ fired \in Timers
    /\ Distinct(list)

\* The list is in the order of the times up to a millisecond, however it came
\* about, although "later" is not transitive when parts are rounded.
Ordered == InOrder(list, time)

\* When the loop goes to sleep no timer was due for a millisecond or more at the
\* time it looked: the first one of the list speaks for all of them.
NoneOverdue ==
    pc = "sleep" => \A i \in 1 .. Len(list) : Us(tv) < Us(time[list[i]]) + 1000

\* The list of the timers and the sleep rest on each other: the list is typed and in
\* order up to a millisecond, so the first timer speaks for all of them.
TimersSound == TypeOK /\ Ordered /\ NoneOverdue

\* No timer is called back a millisecond early, and none that is not due by then
\* according to the clock.
CalledInTime == pc' = "timer" /\ pc = "process" => Us(time[fired']) < Us(tv) + 1000

\* The sleep is short enough for every timer, not only for the first: by the clock
\* at the time of going to sleep it ends less than two milliseconds after any of
\* them is due, or at once.
SleepsInTime ==
    pc' = "sleep" /\ pc = "process" /\ list # <<>> =>
        /\ wait' # -1
        /\ \A i \in 1 .. Len(list) : wait' = 0 \/ now + 1000 * wait' < Us(time[list[i]]) + 2000

\* uloop_process_timeouts calls no timer back too early and uloop_get_next_timeout
\* oversleeps none.
TimersInTime == [][CalledInTime /\ SleepsInTime]_vars
=============================================================================
