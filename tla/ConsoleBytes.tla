---------------------------- MODULE ConsoleBytes ----------------------------
(***************************************************************************)
(* What the two halves of the console, ConsoleTx and ConsoleRx, have in    *)
(* common: the bytes that pass are numbered in their order, modulo Mod, so *)
(* that a byte lost, repeated or out of place can be told.                 *)
(***************************************************************************)
EXTENDS Integers

CONSTANT Mod   \* bound: the numbers of bytes

\* The number of the byte k places behind the byte numbered s.
Num(s, k) == (s + k) % Mod
=============================================================================
