----------------------------- MODULE MCButtons -----------------------------
(***************************************************************************)
(* What becomes of a wake-up: "loop" follows one task through the main     *)
(* loop, "buttons" has the buttons task, which is all wake-ups, with the   *)
(* host at the other end.                                                  *)
(***************************************************************************)
EXTENDS MainLoop, Buttons

VARIABLE conf   \* which of the two is followed

vars == <<conf, loopvars, btnvars>>

Init ==
  /\ conf \in {"loop", "buttons"}
  /\ TasksInit /\ LoopInit /\ ButtonsInit

LoopActs == conf = "loop" /\ LoopNext /\ UNCHANGED btnvars

ButtonsActs ==
  /\ conf = "buttons" /\ (ButtonsNext \/ ButtonsHalt \/ ButtonsClear)
  /\ UNCHANGED <<tasks_status, at, cut>>

Next == (LoopActs \/ ButtonsActs) /\ UNCHANGED conf

Spec == Init /\ [][Next]_vars /\ (conf = "buttons" => ButtonsFairness)

\* A host that has lost count is followed no further.
CountKept == ~early
=============================================================================
