------------------------------ MODULE MCTrsync ------------------------------
(***************************************************************************)
(* Two trsyncs that compete for one signal, and two reasons to fire.       *)
(***************************************************************************)
EXTENDS Trsync
=============================================================================
