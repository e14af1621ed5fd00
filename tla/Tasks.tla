------------------------------- MODULE Tasks -------------------------------
(***************************************************************************)
(* What the scheduler (klipper/src/sched.c) is to a driver: a timer event  *)
(* or another interrupt wakes the driver's task; the main loop runs it     *)
(* later, and runs commands only between tasks; sched_shutdown empties the *)
(* timer list, leaves whatever the main loop was doing by longjmp, and     *)
(* from then on commands are refused.  MainLoop shows how the loop keeps   *)
(* the first part of this.                                                 *)
(***************************************************************************)
VARIABLES
  wake,   \* the struct task_wake of the driver's task
  shut    \* SchedStatus.shutdown_status # 0

TasksTypeOK == wake \in BOOLEAN /\ shut \in BOOLEAN

TasksInit == wake = FALSE /\ shut = FALSE

\* sched_wake_task
sched_wake_task == wake' = TRUE

\* sched_check_wake, when it answers yes
sched_check_wake == wake /\ wake' = FALSE

\* command_clear_shutdown
sched_clear_shutdown == shut /\ shut' = FALSE

\* sched_shutdown; what is left of the flag of the interrupted task is not touched.
sched_shutdown == ~shut /\ shut' = TRUE /\ UNCHANGED wake
=============================================================================
