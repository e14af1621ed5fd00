----------------------------- MODULE TimerList -----------------------------
(***************************************************************************)
(* The timer list of klipper/src/sched.c at the level of its next pointers,*)
(* with the interrupt that runs it (klipper/src/generic/armcm_timer.c).    *)
(*                                                                         *)
(* Every operation of sched.c on the list runs with interrupts off, so it  *)
(* is one action.  The SysTick interrupt is not: timer_dispatch_many runs  *)
(* timers in a loop, reading the clock after each; the clock moves between *)
(* the two, and while a callback runs that may delete other timers.        *)
(***************************************************************************)
EXTENDS ClockArith

CONSTANTS
  Timers,                       \* timers of the drivers
  Periodic, Sentinel, Deleted,  \* periodic_timer, sentinel_timer, deleted_timer
  NULL,
  PeriodicTicks,                \* timer_from_us(100000)
  MinTryTicks,                  \* TIMER_MIN_TRY_TICKS
  DeferTicks,                   \* TIMER_DEFER_REPEAT_TICKS
  PastTicks,                    \* timer_from_us(1000)
  MaxLate,                      \* bound: how late an interrupt may be served
  MaxAhead                      \* bound: how far ahead a timer is scheduled

ASSUME TickAssumption ==
  /\ {PeriodicTicks, MinTryTicks, DeferTicks, PastTicks, MaxLate, MaxAhead}
       \subseteq Nat
  /\ MinTryTicks < DeferTicks
  /\ PeriodicTicks + MaxLate < Half
  /\ MaxAhead + MaxLate < Half /\ MaxAhead + PeriodicTicks <= Half
  /\ DeferTicks <= PeriodicTicks

ASSUME NodeAssumption ==
  /\ Periodic # Sentinel /\ Periodic # Deleted /\ Sentinel # Deleted
  /\ Periodic \notin Timers /\ Sentinel \notin Timers /\ Deleted \notin Timers
  /\ NULL \notin Timers \cup {Periodic, Sentinel, Deleted}
  /\ NULL \notin Clock

Special == {Periodic, Sentinel, Deleted}
Node    == Timers \cup Special

VARIABLES
  timer_list,   \* SchedStatus.timer_list, the head of the list
  last_insert,  \* SchedStatus.last_insert, where the next search may begin
  next,         \* [Node -> Node \cup {NULL}], struct timer's next
  waketime,     \* [Node -> Clock], struct timer's waketime
  now,          \* DWT->CYCCNT
  alarm,        \* the time SysTick is programmed for, or NULL when it is not
  kick,         \* SCB_ICSR_PENDSTSET: SysTick made pending by timer_kick
  pc,           \* "task": outside SysTick; inside its loop, "run": the callback
                \* of the head runs; "check", "spin": it has returned
  shut,         \* SchedStatus.shutdown_status # 0
  fault,        \* a list walk dereferenced NULL or never ended
  want          \* auxiliary: what the owner of each timer last asked for, the
                \* wake time of a scheduled timer, NULL for one that is not

list  == <<timer_list, last_insert, next, waketime>>
vars  == <<timer_list, last_insert, next, waketime, now, alarm, kick, pc,
           shut, fault, want>>

TypeOK ==
  /\ timer_list \in Node
  /\ last_insert \in Node
  /\ next \in [Node -> Node \cup {NULL}]
  /\ waketime \in [Node -> Clock]
  /\ now \in Clock /\ alarm \in Clock \cup {NULL}
  /\ kick \in BOOLEAN /\ shut \in BOOLEAN /\ fault \in BOOLEAN
  /\ pc \in {"task", "run", "check", "spin"}
  /\ want \in [Timers -> Clock \cup {NULL}]

(***************************************************************************)
(* Following next pointers.  Path(nx, p) is what a walk from p comes to:   *)
(* the least set with p in it that next does not lead out of.              *)
(***************************************************************************)
Closed(nx, S) == \A n \in S : nx[n] = NULL \/ nx[n] \in S

Path(nx, p) ==
  LET closed == {S \in SUBSET Node : p \in S /\ Closed(nx, S)}
  IN  {n \in Node : \A S \in closed : n \in S}

OnList(t) == t \in Path(next, timer_list)

(***************************************************************************)
(* insert_timer(pos, t, waketime): the node after which t goes, the first  *)
(* from pos on whose successor wakes later than w; NULL when the walk      *)
(* would run past the end of the list.                                     *)
(***************************************************************************)
StopsAt(nx, wk, w, n) == nx[n] # NULL /\ Before(w, wk[nx[n]])

\* The next pointers of a walk that goes no further than where it stops.
Until(nx, wk, w) ==
  [n \in Node |-> IF StopsAt(nx, wk, w, n) THEN NULL ELSE nx[n]]

insert_after(nx, wk, pos, w) ==
  LET stops == {n \in Path(Until(nx, wk, w), pos) : StopsAt(nx, wk, w, n)}
  IN  IF stops = {} THEN NULL ELSE CHOOSE n \in stops : TRUE

Link(nx, prev, t) == [nx EXCEPT ![t] = nx[prev], ![prev] = t]

-----------------------------------------------------------------------------
Init ==
  /\ timer_list = Periodic
  /\ last_insert = Periodic
  /\ next = [n \in Node |-> IF n = Periodic THEN Sentinel ELSE NULL]
  /\ waketime = [n \in Node |-> IF n = Sentinel THEN Half ELSE 0]
  /\ now = 0 /\ alarm = NULL
  /\ kick = TRUE                \* timer_init ends in timer_kick
  /\ pc = "task" /\ shut = FALSE /\ fault = FALSE
  /\ want = [t \in Timers |-> NULL]

\* Faulty variant of timer_kick: the interrupt is not made pending.
NoKick == UNCHANGED <<kick, alarm>>

\* timer_kick: stop the counter (LOAD = 0) and make SysTick pending.
timer_kick == kick' = TRUE /\ alarm' = NULL

\* sched_timer_reset, part of run_shutdown: all user timers are dropped.
sched_timer_reset ==
  /\ timer_list' = Deleted
  /\ last_insert' = Periodic
  /\ waketime' = [waketime EXCEPT ![Deleted] = waketime[Periodic]]
  /\ next' = [next EXCEPT ![Deleted] = Periodic, ![Periodic] = Sentinel]
  /\ timer_kick

\* sched_shutdown: longjmp out of wherever the program is into run_shutdown.
Shutdown ==
  /\ sched_timer_reset
  /\ shut' = TRUE
  /\ pc' = "task"
  /\ want' = [t \in Timers |-> NULL]
  /\ UNCHANGED <<now, fault>>

\* shutdown() in a task, a command or the callback of a driver's timer.
CallShutdown ==
  /\ pc = "task" \/ (pc = "run" /\ timer_list \in Timers)
  /\ Shutdown

\* sched_clear_shutdown
ClearShutdown ==
  /\ pc = "task" /\ shut
  /\ shut' = FALSE
  /\ UNCHANGED <<list, now, alarm, kick, pc, fault, want>>

\* Faulty variant of LinkFront: the placeholder already at the head is kept
\* as the successor of the new timer.
LinkFrontKeep(add) == [next EXCEPT ![add] = timer_list, ![Deleted] = add]

\* A timer that wakes before all others goes in front, behind the placeholder
\* (one that is already there is used again).
LinkFront(add) ==
  [next EXCEPT ![add] = IF timer_list = Deleted THEN next[Deleted] ELSE timer_list,
               ![Deleted] = add]

(***************************************************************************)
(* sched_add_timer(add) with add->waketime = w.  Callers own the timer and *)
(* never add one that is scheduled.  A wake time from the host may already *)
(* have passed, which shuts the machine down; the host keeps it within     *)
(* MaxAhead of the present (docs/Code_Overview.md: "no event is ever more  *)
(* than 2^31 clock ticks in the future or past").  While the machine is    *)
(* shut down only shutdown handlers add timers, for a time still to come.  *)
(***************************************************************************)
sched_add_timer(add, w) ==
  /\ pc = "task"
  /\ want[add] = NULL
  /\ shut => ~Before(w, now)
  /\ IF Before(w, waketime[timer_list])
     THEN IF Before(w, now)
          THEN Shutdown                               \* Timer too close
          ELSE /\ next' = LinkFront(add)
               /\ waketime' = [waketime EXCEPT ![add] = w, ![Deleted] = w]
               /\ timer_list' = Deleted
               /\ timer_kick
               /\ want' = [want EXCEPT ![add] = w]
               /\ UNCHANGED <<last_insert, now, pc, shut, fault>>
     ELSE LET prev == insert_after(next, waketime, timer_list, w)
          IN  /\ waketime' = [waketime EXCEPT ![add] = w]
              /\ want' = [want EXCEPT ![add] = w]
              /\ IF prev = NULL
                 THEN fault' = TRUE /\ UNCHANGED next
                 ELSE next' = Link(next, prev, add) /\ UNCHANGED fault
              /\ UNCHANGED <<timer_list, last_insert, now, alarm, kick, pc, shut>>

\* The for loop of sched_del_timer: del, not the head, is unlinked if some node
\* of the list leads to it.
Unlink(nx, del) ==
  LET prev == {p \in Path(nx, timer_list) : nx[p] = del}
  IN  IF prev = {} THEN nx
      ELSE [nx EXCEPT ![CHOOSE p \in prev : TRUE] = nx[del]]

\* Faulty variant of DelHead: the placeholder goes in front of the head.
DelHeadStays(del) ==
  /\ waketime' = [waketime EXCEPT ![Deleted] = waketime[del]]
  /\ next' = [next EXCEPT ![Deleted] = del]
  /\ timer_list' = Deleted

\* Deleting the head: deleted_timer takes its place and its wake time.
DelHead(del) ==
  /\ waketime' = [waketime EXCEPT ![Deleted] = waketime[del]]
  /\ next' = [next EXCEPT ![Deleted] = next[del]]
  /\ timer_list' = Deleted

\* last_insert after del was deleted.
HintAfterDel(del) == IF last_insert = del THEN Periodic ELSE last_insert

\* sched_del_timer(del), called by a task or a command, or by the callback of
\* another timer (trsync_do_trigger stops steppers).
sched_del_timer(del) ==
  /\ \/ pc = "task"
     \/ pc = "run" /\ timer_list \in Timers \ {del}
  /\ IF timer_list = del
     THEN DelHead(del)
     ELSE next' = Unlink(next, del) /\ UNCHANGED <<timer_list, waketime>>
  /\ last_insert' = HintAfterDel(del)
  /\ want' = [want EXCEPT ![del] = NULL]
  /\ UNCHANGED <<now, alarm, kick, pc, shut, fault>>

-----------------------------------------------------------------------------
(***************************************************************************)
(* sched_timer_dispatch.  SysTick fires, or its loop goes round, and the   *)
(* callback of the head is called; it returns SF_DONE, or SF_RESCHEDULE    *)
(* with a new wake time in wk.                                             *)
(***************************************************************************)
Expired    == alarm # NULL /\ ~Before(now, alarm)
SysTickDue == \/ pc = "task" /\ (kick \/ Expired)
              \/ pc = "spin" /\ ~Before(now, waketime[timer_list])

sched_timer_dispatch ==
  /\ SysTickDue
  /\ kick' = FALSE /\ alarm' = NULL      \* the counter is one shot
  /\ pc' = "run"
  /\ UNCHANGED <<list, now, shut, fault, want>>

Return ==
  /\ pc = "run"
  /\ pc' = "check"
  /\ UNCHANGED <<now, alarm, kick, shut>>

FinishDone(t) ==
  /\ timer_list' = next[t]
  /\ last_insert' = IF last_insert = t THEN next[t] ELSE last_insert
  /\ UNCHANGED <<next, waketime, fault>>

\* Where the search for t's new place begins.
SearchFrom(wk, t) == IF Before(wk[t], wk[last_insert]) THEN next[t] ELSE last_insert

FinishReschedule(t, wk) ==
  /\ waketime' = wk
  /\ IF Before(wk[t], wk[next[t]])
     THEN UNCHANGED <<timer_list, last_insert, next, fault>>
     ELSE LET prev == insert_after(next, wk, SearchFrom(wk, t), wk[t])
          IN  /\ timer_list' = next[t]
              /\ last_insert' = t
              /\ IF prev = NULL
                 THEN fault' = TRUE /\ UNCHANGED next
                 ELSE next' = Link(next, prev, t) /\ UNCHANGED fault

\* The callback of a driver's timer is done, or reschedules it s ticks later.
UserDone(t) ==
  /\ timer_list = t /\ Return
  /\ FinishDone(t)
  /\ want' = [want EXCEPT ![t] = NULL]

UserAgain(t, s) ==
  LET w == Plus(waketime[t], s)
  IN  /\ timer_list = t /\ Return
      /\ FinishReschedule(t, [waketime EXCEPT ![t] = w])
      /\ want' = [want EXCEPT ![t] = w]

\* periodic_event moves itself and, half a clock range later, the sentinel.
PeriodicWake ==
  LET w == Plus(waketime[Periodic], PeriodicTicks)
  IN  [waketime EXCEPT ![Periodic] = w, ![Sentinel] = Plus(w, Half)]

\* periodic_event
PeriodicEvent ==
  /\ timer_list = Periodic /\ Return
  /\ FinishReschedule(Periodic, PeriodicWake)
  /\ UNCHANGED want

\* deleted_event
DeletedEvent ==
  /\ timer_list = Deleted /\ Return
  /\ FinishDone(Deleted)
  /\ UNCHANGED want

(***************************************************************************)
(* timer_dispatch_many after a callback: program SysTick for the next      *)
(* timer, or stay in the loop for one that is close.  timer_repeat_until   *)
(* is abstracted to a choice: once it has passed, the loop may give way to *)
(* tasks for DeferTicks, and a timer too far in the past shuts down.       *)
(***************************************************************************)
SetAlarm ==
  /\ pc = "check"
  /\ LET diff == Diff(waketime[timer_list], now)
     IN  \/ /\ diff > MinTryTicks
            /\ alarm' = waketime[timer_list] /\ pc' = "task"
         \/ /\ diff <= MinTryTicks
            /\ alarm' = Plus(now, DeferTicks) /\ pc' = "task"
         \/ /\ diff <= MinTryTicks
            /\ pc' = "spin" /\ UNCHANGED alarm
  /\ UNCHANGED <<list, now, kick, shut, fault, want>>

\* try_shutdown("Rescheduled timer in the past")
PastShutdown ==
  /\ pc = "check" /\ ~shut
  /\ Diff(waketime[timer_list], now) < -PastTicks
  /\ Shutdown

\* The clock moves on; MaxLate bounds how long an interrupt that is due waits.
Tick ==
  /\ Diff(now, waketime[timer_list]) < MaxLate
  /\ now' = Plus(now, 1)
  /\ UNCHANGED <<list, alarm, kick, pc, shut, fault, want>>

Next ==
  \/ \E t \in Timers, d \in -MaxAhead .. MaxAhead : sched_add_timer(t, Plus(now, d))
  \/ \E t \in Timers : sched_del_timer(t)
  \/ sched_timer_dispatch
  \/ \E t \in Timers : UserDone(t) \/ \E s \in 0 .. MaxAhead : UserAgain(t, s)
  \/ PeriodicEvent
  \/ DeletedEvent
  \/ SetAlarm
  \/ PastShutdown
  \/ CallShutdown
  \/ ClearShutdown
  \/ Tick

Spec == Init /\ [][Next]_vars

-----------------------------------------------------------------------------
\* What the list promises.

\* The list holds periodic_timer and ends in sentinel_timer, which never
\* reaches the head (sentinel_event would shut the machine down); the
\* deleted_timer placeholder is only ever the head; and the last_insert hint is a
\* node of the list, so that the search sched_timer_dispatch starts there can only
\* miss nodes that are earlier.  No walk of insert_timer runs off the end or loops.
ListShape ==
  LET path == Path(next, timer_list)
  IN  /\ ~fault
      /\ {Periodic, Sentinel} \subseteq path
      /\ timer_list # Sentinel
      /\ next[Sentinel] = NULL
      /\ Deleted \in path => timer_list = Deleted
      /\ last_insert \in path \ {Sentinel, Deleted}

\* Neighbours are in wake time order whatever mix of insertions, deletions,
\* reschedules and shutdowns built the list, and across the wrap of the clock;
\* the last one is before the sentinel, half a clock range after the period.
Sorted ==
  \A n \in Path(next, timer_list) \ {Sentinel} :
    IF next[n] = Sentinel THEN Before(waketime[n], waketime[Sentinel])
                          ELSE ~Before(waketime[next[n]], waketime[n])

\* The list is one, whole and in order.
ListSound == TypeOK /\ ListShape /\ Sorted

\* SysTick runs the head of the list without looking at its wake time: whenever
\* it may run, the head is due, or is the deleted_timer that sched_add_timer,
\* sched_del_timer and sched_timer_reset leave for an interrupt to consume.  And
\* no wake up is lost: outside the interrupt SysTick is pending or programmed
\* no later than the head of the list, except for the short deferral of
\* timer_dispatch_many; and never further ahead than one period, which is what
\* keeps the 24 bit SysTick counter from overflowing.
AlarmExact ==
  /\ SysTickDue => timer_list = Deleted \/ ~Before(now, waketime[timer_list])
  /\ pc = "task" /\ ~kick =>
       /\ alarm # NULL
       /\ ~Before(waketime[timer_list], alarm) \/ Diff(alarm, now) <= DeferTicks
       /\ Diff(alarm, now) <= PeriodicTicks

-----------------------------------------------------------------------------
(***************************************************************************)
(* Refinement: the list implements TimerSet.                               *)
(***************************************************************************)
Abstract == INSTANCE TimerSet WITH armed <- want, Off <- NULL

\* Driver timers run in wake time order, never early and once per arming,
\* through every interleaving of tasks, the interrupt and shutdowns.  The list
\* holds exactly the timers their owners scheduled, each for its time: none is
\* lost when neighbours come and go, and none that was deleted or dropped by a
\* shutdown comes back.
ImplementsTimerSet ==
  /\ [](\A t \in Timers : want[t] = IF OnList(t) THEN waketime[t] ELSE NULL)
  /\ Abstract!Spec
=============================================================================
