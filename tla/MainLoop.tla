------------------------------ MODULE MainLoop ------------------------------
(***************************************************************************)
(* The main loop (run_tasks in klipper/src/sched.c): sleep until an        *)
(* interrupt asks for tasks, then run every task once.  A task with        *)
(* nothing to do finds its wake flag clear.  The model has the tasks       *)
(* before and after the one it follows as one step each.  Interrupts come  *)
(* between any two steps, as each step reads or writes tasks_status and    *)
(* the wake flag once, or runs with interrupts off.                        *)
(***************************************************************************)
EXTENDS Tasks

VARIABLES
  tasks_status,   \* SchedStatus.tasks_status
  at,             \* where run_tasks is
  cut             \* auxiliary: a shutdown left the current round of the loop

loopvars == <<wake, shut, tasks_status, at, cut>>

LoopTypeOK ==
  /\ tasks_status \in {"idle", "requested", "running"}
  /\ at \in {"poll", "check", "asleep", "start", "before", "task", "after"}
  /\ cut \in BOOLEAN

\* A tasks_status of zero is TS_REQUESTED.
LoopInit == tasks_status = "requested" /\ at = "poll" /\ cut = FALSE

-----------------------------------------------------------------------------
\* An interrupt calls sched_wake_task: sched_wake_tasks, and the flag.
WakeTask == sched_wake_task /\ tasks_status' = "requested"

LoopWake == WakeTask /\ UNCHANGED <<shut, at, cut>>

\* periodic_event, and the receive interrupt of the console: sched_wake_tasks.
sched_wake_tasks ==
  /\ tasks_status' = "requested"
  /\ UNCHANGED <<wake, shut, at, cut>>

\* The longjmp of sched_shutdown back to sched_main, which enters run_tasks anew.
LoopShutdown ==
  /\ sched_shutdown
  /\ at' = "poll" /\ cut' = TRUE
  /\ UNCHANGED tasks_status

\* command_clear_shutdown runs in the console task.
LoopClear ==
  /\ at = "before" /\ sched_clear_shutdown
  /\ UNCHANGED <<wake, tasks_status, at, cut>>

-----------------------------------------------------------------------------
Goto(from, to) == at = from /\ at' = to /\ UNCHANGED <<wake, shut>>

Poll ==
  /\ Goto("poll", IF tasks_status = "requested" THEN "start" ELSE "check")
  /\ UNCHANGED <<tasks_status, cut>>

\* Faulty: tasks_status is not looked at again with interrupts off.
CheckOnce == Goto("check", "asleep") /\ tasks_status' = "idle" /\ UNCHANGED cut

\* With interrupts off: look again, and go to sleep.
Check ==
  /\ IF tasks_status = "requested"
     THEN Goto("check", "start") /\ UNCHANGED tasks_status
     ELSE Goto("check", "asleep") /\ tasks_status' = "idle"
  /\ UNCHANGED cut

\* irq_wait returns after an interrupt.
Awake ==
  /\ tasks_status = "requested" /\ Goto("asleep", "start")
  /\ UNCHANGED <<tasks_status, cut>>

\* From here on a new request is one for the next round.
Start == Goto("start", "before") /\ tasks_status' = "running" /\ cut' = FALSE

OthersBefore == Goto("before", "task") /\ UNCHANGED <<tasks_status, cut>>

\* The task itself: if (!sched_check_wake(...)) return; ...
RunTask ==
  /\ at = "task" /\ at' = "after"
  /\ IF wake THEN sched_check_wake ELSE UNCHANGED wake
  /\ UNCHANGED <<shut, tasks_status, cut>>

OthersAfter == Goto("after", "poll") /\ UNCHANGED <<tasks_status, cut>>

LoopStep ==
  \/ Poll \/ Check \/ Awake \/ Start
  \/ OthersBefore \/ RunTask \/ OthersAfter

LoopNext == LoopStep \/ LoopWake \/ sched_wake_tasks \/ LoopShutdown \/ LoopClear

LoopSpec == TasksInit /\ LoopInit /\ [][LoopNext]_loopvars

-----------------------------------------------------------------------------
\* The loop never sleeps on a task that was woken, wherever between its looks at
\* tasks_status the interrupt came; but a shutdown leaves the round by longjmp
\* with tasks_status already "running", and what was woken then waits for the
\* next periodic_event.
AsleepNothingWoken ==
  (at = "asleep" /\ tasks_status # "requested" /\ ~cut) => ~wake
=============================================================================
