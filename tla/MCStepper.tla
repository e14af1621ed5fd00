----------------------------- MODULE MCStepper -----------------------------
(***************************************************************************)
(* Steppers on a small pool.  The axis may run over its whole range and    *)
(* back, so that moves in both directions, of every length, are queued     *)
(* behind each other, and the pool runs dry.                               *)
(***************************************************************************)
EXTENDS Stepper, TLC

CONSTANTS n1, n2, n3, n4

Symmetry == Permutations(Nodes)
=============================================================================
