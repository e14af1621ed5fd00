---- MODULE MCConsoleTx ----
(* The transmit buffer scaled down: room for the largest message and one of  *)
(* the smallest.                                                             *)
EXTENDS ConsoleTx

MCSizes == {1, 3}
====
