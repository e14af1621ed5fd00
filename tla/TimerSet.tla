----------------------------- MODULE TimerSet -----------------------------
(***************************************************************************)
(* What the scheduler promises the code that owns timers, with no list, no *)
(* placeholder timers and no interrupt in sight: a timer is armed for a    *)
(* wake time, may be disarmed, and runs at most once per arming, in wake   *)
(* time order and never before its time.  A shutdown disarms all of them.  *)
(***************************************************************************)
EXTENDS ClockArith

CONSTANTS Timers,   \* the timers of the drivers
          Off       \* armed[t] of a timer that is not scheduled

VARIABLES armed,    \* [Timers -> Clock \cup {Off}]
          now       \* the tick counter

TypeOK == /\ armed \in [Timers -> Clock \cup {Off}]
          /\ now \in Clock

Init == /\ armed = [t \in Timers |-> Off]
        /\ now \in Clock

Earliest(t) == /\ armed[t] # Off
               /\ \A u \in Timers : armed[u] # Off => ~Before(armed[u], armed[t])

Arm(t) == /\ armed[t] = Off
          /\ armed'[t] \in Clock
          /\ armed' = [armed EXCEPT ![t] = armed'[t]]
          /\ UNCHANGED now

Disarm(t) == /\ armed' = [armed EXCEPT ![t] = Off]
             /\ UNCHANGED now

(***************************************************************************)
(* The callback of t runs: t is re-armed or done, and the callback may     *)
(* have disarmed other timers on its way.                                  *)
(***************************************************************************)
Run(t) == /\ Earliest(t)
          /\ ~Before(now, armed[t])
          /\ armed' \in [Timers -> Clock \cup {Off}]
          /\ \A u \in Timers \ {t} : armed'[u] \in {armed[u], Off}
          /\ UNCHANGED now

DisarmAll == /\ armed' = [t \in Timers |-> Off]
             /\ UNCHANGED now

Tick == /\ now' = Plus(now, 1)
        /\ UNCHANGED armed

Next == \/ \E t \in Timers : Arm(t) \/ Disarm(t) \/ Run(t)
        \/ DisarmAll
        \/ Tick

Spec == Init /\ [][Next]_<<armed, now>>
=============================================================================
