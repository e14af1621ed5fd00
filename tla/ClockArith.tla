---------------------------- MODULE ClockArith ----------------------------
(***************************************************************************)
(* The free running 32-bit tick counter of the micro-controller and the    *)
(* comparison every piece of timing code uses.  Word stands for 2^32 (any  *)
(* even number of clock values keeps the shape of the arithmetic).         *)
(***************************************************************************)
EXTENDS Integers

CONSTANT Word       \* number of clock values, 2^32 in the firmware

ASSUME WordAssumption == Word \in Nat /\ Word > 1 /\ Word % 2 = 0

Half  == Word \div 2
Clock == 0 .. Word - 1

\* uint32_t addition.
Plus(a, b) == (a + b) % Word

\* (int32_t)(a - b)
Diff(a, b) == LET d == (a - b) % Word IN IF d >= Half THEN d - Word ELSE d

\* timer_is_before(time1, time2)
Before(time1, time2) == Diff(time1, time2) < 0
=============================================================================
