------------------------------- MODULE Trsync -------------------------------
(***************************************************************************)
(* Synchronised triggers (klipper/src/trsync.c).  A trsync session is      *)
(* started by the host and fires once: because an endstop hit, because the *)
(* host's timeout ran out, or on the host's command.  Firing calls the     *)
(* registered signals (steppers stop), and the outcome is reported by a    *)
(* task, again and again, as a report that finds no room in the transmit   *)
(* buffer is dropped.                                                      *)
(*                                                                         *)
(* Interrupt handlers are actions of their own and may come between any    *)
(* two steps of task context: commands, and the three steps of             *)
(* trsync_task for each oid.  Times are left out: a scheduled timer may    *)
(* fire at any moment, and an attempt to schedule one may come too late.   *)
(***************************************************************************)
EXTENDS Integers, Sequences, FiniteSets

CONSTANTS
  NumTrsync,   \* oids 1 .. NumTrsync are trsyncs
  Signals,     \* struct trsync_signal, one in each stepper
  Reasons,     \* trigger reasons of the host
  NoReason     \* reason 0

ASSUME TrsyncAssumption == NumTrsync \in Nat /\ NoReason \notin Reasons

VARIABLES
  ts,      \* [Oids -> Trsync]
  func,    \* [Signals -> BOOLEAN]: tss->func is set
  wake,    \* trsync_wake
  task,    \* where trsync_task is, and the report it is about to send
  shut,    \* SchedStatus.shutdown_status # 0
  told,    \* auxiliary: the last report of the session that got out
  readd    \* auxiliary: sched_add_timer was called for a scheduled timer

vars == <<ts, func, wake, task, shut, told, readd>>

Oids == 1 .. NumTrsync

TrsyncRecord ==
  [ can            : BOOLEAN,                 \* TSF_CAN_TRIGGER
    report         : BOOLEAN,                 \* TSF_REPORT
    trigger_reason : Reasons \cup {NoReason},
    expire_reason  : Reasons \cup {NoReason},
    signals        : Seq(Signals),            \* the list, newest first
    report_time    : BOOLEAN,                 \* the timer is scheduled
    expire_time    : BOOLEAN ]

\* trsync_state without its clock: "can_trigger=%c trigger_reason=%c".
Report == [can : BOOLEAN, trigger_reason : Reasons \cup {NoReason}]

\* trsync_task: oid 0 when it is not running; to_send holds the report copied
\* with interrupts off and not sent yet.
Idle == [oid |-> 0, to_send |-> {}]

TypeOK ==
  /\ ts \in [Oids -> TrsyncRecord]
  /\ func \in [Signals -> BOOLEAN]
  /\ wake \in BOOLEAN /\ shut \in BOOLEAN /\ readd \in BOOLEAN
  /\ task \in [oid : 0 .. NumTrsync, to_send : SUBSET Report]
  /\ told \in [Oids -> {"nothing", "armed", "fired"}]

OnSignals(o) == {ts[o].signals[i] : i \in 1 .. Len(ts[o].signals)}

\* command_config_trsync: oid_alloc zeroes the struct.
ConfigTrsync ==
  [ can |-> FALSE, report |-> FALSE, trigger_reason |-> NoReason,
    expire_reason |-> NoReason, signals |-> <<>>, report_time |-> FALSE,
    expire_time |-> FALSE ]

Init ==
  /\ ts = [o \in Oids |-> ConfigTrsync]
  /\ func = [g \in Signals |-> FALSE]
  /\ wake = FALSE /\ task = Idle /\ shut = FALSE
  /\ told = [o \in Oids |-> "nothing"]
  /\ readd = FALSE

\* trsync_clear: timers deleted, signals unregistered, flags and reasons zero.
trsync_clear(r) ==
  [r EXCEPT !.can = FALSE, !.report = FALSE, !.trigger_reason = NoReason,
            !.expire_reason = NoReason, !.signals = <<>>,
            !.report_time = FALSE, !.expire_time = FALSE]

-----------------------------------------------------------------------------
\* Faulty: TSF_CAN_TRIGGER is not looked at, a later trigger overwrites the reason.
FiredAgain(r, reason) ==
  [r EXCEPT !.can = FALSE, !.report = TRUE, !.trigger_reason = reason,
            !.signals = IF r.can THEN <<>> ELSE @]

(***************************************************************************)
(* trsync_do_trigger: the struct it leaves behind, and the signals whose   *)
(* func it calls.  A session that already fired ignores it.                *)
(***************************************************************************)
Fired(r, reason) ==
  IF r.can
  THEN [r EXCEPT !.can = FALSE, !.report = TRUE, !.trigger_reason = reason,
                 !.signals = <<>>]
  ELSE r

Called(o) == IF ts[o].can THEN OnSignals(o) ELSE {}

\* The rest of trsync_do_trigger: called signals are free to be added again.
Dispatch(o) ==
  /\ func' = [g \in Signals |-> IF g \in Called(o) THEN FALSE ELSE func[g]]
  /\ wake' = (wake \/ ts[o].can)

\* trsync_shutdown; the longjmp also ends a task or command in progress.
Shutdown ==
  /\ ts' = [o \in Oids |-> trsync_clear(ts[o])]
  /\ func' = [g \in Signals |-> IF \E o \in Oids : g \in OnSignals(o)
                                THEN FALSE ELSE func[g]]
  /\ task' = Idle
  /\ shut' = TRUE
  /\ told' = [o \in Oids |-> "nothing"]
  /\ UNCHANGED <<wake, readd>>

ClearShutdown ==
  /\ shut /\ task = Idle
  /\ shut' = FALSE
  /\ UNCHANGED <<ts, func, wake, task, told, readd>>

-----------------------------------------------------------------------------
\* Commands run in task context, one at a time.
Command == ~shut /\ task = Idle

\* command_trsync_start; report_ticks = 0 asks for no periodic report.
command_trsync_start(o, ticks, expire_reason) ==
  LET r == trsync_clear(ts[o])
  IN  /\ Command
      /\ \/ /\ ts' = [ts EXCEPT ![o] = [r EXCEPT !.can = TRUE,
                              !.report_time = r.report_time \/ ticks,
                              !.expire_reason = expire_reason]]
            /\ func' = [g \in Signals |-> IF g \in OnSignals(o) THEN FALSE ELSE func[g]]
            /\ told' = [told EXCEPT ![o] = "nothing"]
            /\ readd' = (readd \/ (r.report_time /\ ticks))
            /\ UNCHANGED <<wake, task, shut>>
         \/ ticks /\ Shutdown                             \* Timer too close

\* Faulty: the timeout that is running is left on the list.
TimeoutKept(r) == r

\* command_trsync_set_timeout first takes expire_time off the list.
CancelTimeout(r) == [r EXCEPT !.expire_time = FALSE]

\* command_trsync_set_timeout
command_trsync_set_timeout(o) ==
  LET r == CancelTimeout(ts[o])
  IN  /\ Command
      /\ \/ /\ ts[o].can
            /\ ts' = [ts EXCEPT ![o] = [r EXCEPT !.expire_time = TRUE]]
            /\ readd' = (readd \/ r.expire_time)
            /\ UNCHANGED <<func, wake, task, shut, told>>
         \/ ts[o].can /\ Shutdown                         \* Timer too close
         \/ ~ts[o].can /\ UNCHANGED vars

\* command_stepper_stop_on_trigger: trsync_add_signal
trsync_add_signal(o, g) ==
  /\ Command
  /\ IF func[g]
     THEN Shutdown                       \* Can't add signal that is already active
     ELSE /\ ts' = [ts EXCEPT ![o].signals = <<g>> \o @]
          /\ func' = [func EXCEPT ![g] = TRUE]
          /\ UNCHANGED <<wake, task, shut, told, readd>>

\* What a report tells the host: can_trigger.
Outcome(r) == IF r.can THEN "armed" ELSE "fired"

\* command_trsync_trigger ends the session and reports, if the report gets out.
command_trsync_trigger(o, reason) ==
  /\ Command
  /\ ts' = [ts EXCEPT ![o] = [Fired(@, reason) EXCEPT !.can = FALSE, !.report = FALSE,
                                !.report_time = FALSE, !.expire_time = FALSE]]
  /\ Dispatch(o)
  /\ told' \in {told, [told EXCEPT ![o] = "fired"]}
  /\ UNCHANGED <<task, shut, readd>>

-----------------------------------------------------------------------------
\* Interrupts.

\* A trigger from an endstop's timer.
EndstopTrigger(o, reason) ==
  /\ ~shut
  /\ ts' = [ts EXCEPT ![o] = Fired(@, reason)]
  /\ Dispatch(o)
  /\ UNCHANGED <<task, shut, told, readd>>

trsync_expire_event(o) ==
  /\ ts[o].expire_time
  /\ ts' = [ts EXCEPT ![o] = [Fired(@, ts[o].expire_reason) EXCEPT !.expire_time = FALSE]]
  /\ Dispatch(o)
  /\ UNCHANGED <<task, shut, told, readd>>

\* Faulty: the task is not woken.
ReportEventNoWake(o) ==
  /\ ts[o].report_time
  /\ ts' = [ts EXCEPT ![o].report = TRUE]
  /\ UNCHANGED <<func, wake, task, shut, told, readd>>

trsync_report_event(o) ==
  /\ ts[o].report_time
  /\ ts' = [ts EXCEPT ![o].report = TRUE]
  /\ wake' = TRUE
  /\ UNCHANGED <<func, task, shut, told, readd>>

-----------------------------------------------------------------------------
\* trsync_task, interrupts on but for the copy.

\* foreach_oid: the next trsync, if there is one.
Advance(o) == IF o < NumTrsync THEN [oid |-> o + 1, to_send |-> {}] ELSE Idle

\* sched_check_wake, and on to the first oid.
TaskWake ==
  /\ task = Idle /\ wake
  /\ wake' = FALSE
  /\ task' = Advance(0)
  /\ UNCHANGED <<ts, func, shut, told, readd>>

\* An oid with nothing to report is passed over.
TaskSkip ==
  /\ task.oid # 0 /\ task.to_send = {} /\ ~ts[task.oid].report
  /\ task' = Advance(task.oid)
  /\ UNCHANGED <<ts, func, wake, shut, told, readd>>

\* Faulty: the flags are copied after TSF_CAN_TRIGGER was masked out.
TaskCopyMasked ==
  /\ task.oid # 0 /\ task.to_send = {} /\ ts[task.oid].report
  /\ task' = [task EXCEPT !.to_send =
                {[can |-> FALSE, trigger_reason |-> ts[task.oid].trigger_reason]}]
  /\ ts' = [ts EXCEPT ![task.oid].report = FALSE]
  /\ UNCHANGED <<func, wake, shut, told, readd>>

\* With interrupts off: copy the flags and the reason, clear TSF_REPORT.
TaskCopy ==
  LET r == ts[task.oid]
  IN  /\ task.oid # 0 /\ task.to_send = {} /\ r.report
      /\ task' = [task EXCEPT !.to_send =
                    {[can |-> r.can, trigger_reason |-> r.trigger_reason]}]
      /\ ts' = [ts EXCEPT ![task.oid].report = FALSE]
      /\ UNCHANGED <<func, wake, shut, told, readd>>

\* The report goes out, or there is no room for it in the transmit buffer.
TaskSend ==
  \E p \in task.to_send :
    /\ told' = [told EXCEPT ![task.oid] = Outcome(p)]
    /\ task' = Advance(task.oid)
    /\ UNCHANGED <<ts, func, wake, shut, readd>>

TaskSendDropped ==
  /\ task.to_send # {}
  /\ task' = Advance(task.oid)
  /\ UNCHANGED <<ts, func, wake, shut, told, readd>>

Task == TaskWake \/ TaskSkip \/ TaskCopy \/ TaskSend \/ TaskSendDropped

Next ==
  \/ \E o \in Oids, ticks \in BOOLEAN, p \in Reasons \cup {NoReason} :
       command_trsync_start(o, ticks, p)
  \/ \E o \in Oids : command_trsync_set_timeout(o)
  \/ \E o \in Oids, g \in Signals : trsync_add_signal(o, g)
  \/ \E o \in Oids, p \in Reasons : command_trsync_trigger(o, p)
  \/ \E o \in Oids, p \in Reasons : EndstopTrigger(o, p)
  \/ \E o \in Oids : trsync_expire_event(o) \/ trsync_report_event(o)
  \/ Task
  \/ Shutdown
  \/ ClearShutdown

Spec == Init /\ [][Next]_vars

(***************************************************************************)
(* The main loop runs trsync_task again and again, SysTick runs a          *)
(* scheduled report timer, and the host keeps draining the transmit        *)
(* buffer: not every report of a trsync finds it full.                     *)
(***************************************************************************)
Fairness ==
  /\ WF_vars(TaskWake \/ TaskSkip \/ TaskCopy)
  /\ WF_vars(TaskSend \/ TaskSendDropped)
  /\ \A o \in Oids : /\ SF_vars(task.oid = o /\ TaskSend)
                     /\ WF_vars(trsync_report_event(o))

FairSpec == Spec /\ Fairness

-----------------------------------------------------------------------------
\* What trsync promises.

\* tss->func is set exactly while the signal is on the list of one trsync, in
\* one place: trsync_add_signal's check then never refuses a free signal, and
\* no list is corrupted by a signal linked into a second one.
SignalsExact ==
  /\ \A g \in Signals : func[g] <=> \E o \in Oids : g \in OnSignals(o)
  /\ \A o, q \in Oids :
       \A i \in 1 .. Len(ts[o].signals), j \in 1 .. Len(ts[q].signals) :
         ts[o].signals[i] = ts[q].signals[j] => o = q /\ i = j

\* A report that says the session has fired is true when it is sent, although the
\* flags were copied earlier: it carries the reason the session fired for.  Once
\* the host was told that a session fired it is never told the contrary, although
\* reports come from a task and from trsync_trigger.
ReportTrue ==
  /\ [](\A p \in task.to_send :
          ~p.can => /\ ~ts[task.oid].can
                    /\ p.trigger_reason = ts[task.oid].trigger_reason)
  /\ [][\A o \in Oids : told[o] = "fired" => told'[o] # "armed"]_vars

\* The first trigger decides: the reason of a session is never replaced, however
\* an endstop, a timeout and the host's trsync_trigger (or a retry of it) race.
FirstReasonWins ==
  [][\A o \in Oids : ts[o].trigger_reason # NoReason =>
       ts'[o].trigger_reason \in {ts[o].trigger_reason, NoReason}]_vars

\* No timer is added to the timer list while it is on it.
NoTimerTwice == ~readd

\* A session that fired is reported to the host in the end, even when reports
\* are dropped, as long as the session and its periodic report go on.
FiredIsTold ==
  \A o \in Oids : (~ts[o].can /\ ts[o].report_time)
                    ~> (told[o] = "fired" \/ ~ts[o].report_time \/ ts[o].can)

\* No list is corrupted: neither that of the signals nor, by adding a timer that is
\* on it, that of the timers.
ListsIntact == SignalsExact /\ NoTimerTwice
=============================================================================
