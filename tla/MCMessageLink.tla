---- MODULE MCMessageLink ----
(* Sequence numbers of two bits; see the cfg files for the bounds. *)
EXTENDS MessageLink
====
