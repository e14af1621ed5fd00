---------------------------- MODULE MCTimerList ----------------------------
(***************************************************************************)
(* TimerList with a small clock.  The ratios that matter are kept: a       *)
(* deferral outlasts the spin window, and one period plus the worst        *)
(* interrupt latency stays below half the clock range.                     *)
(***************************************************************************)
EXTENDS TimerList, TLC

CONSTANTS t1, t2

MCTimers == {t1, t2}

(***************************************************************************)
(* States that differ by a shift of all times, or in the fields of a timer *)
(* that is off the list (its owner writes waketime, and sched_add_timer    *)
(* next, before anything reads them), behave alike: every definition reads *)
(* times through Diff and nodes through the list.                          *)
(***************************************************************************)
Relative == [n \in Path(next, timer_list) |-> <<next[n], Diff(waketime[n], now)>>]
Offset(w) == IF w = NULL THEN Word ELSE Diff(w, now)
View     == <<timer_list, last_insert, Relative, kick, pc, shut, fault,
              Offset(alarm), [t \in Timers |-> Offset(want[t])]>>
=============================================================================
