------------------------------ MODULE MCHoming ------------------------------
(***************************************************************************)
(* One rail with one stepper, on a pool of two moves.                      *)
(***************************************************************************)
EXTENDS Homing, TLC

CONSTANTS x, n1, n2

OneRail == <<{x}>>

Symmetry == Permutations(Nodes)
=============================================================================
