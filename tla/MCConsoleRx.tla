---- MODULE MCConsoleRx ----
(* Messages of up to two bytes; a byte counts to four, the buffer holds six. *)
EXTENDS ConsoleRx
====
