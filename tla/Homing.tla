------------------------------- MODULE Homing -------------------------------
(***************************************************************************)
(* A homing move: steppers, trsyncs and endstops of the firmware working   *)
(* together, driven by the host's homing sequence (MCU_trsync,             *)
(* TriggerDispatch and MCU_endstop of klipper/klippy/mcu.py and            *)
(* note_homing_end of klipper/klippy/stepper.py).                          *)
(*                                                                         *)
(* Rail o is endstop o, trsync o and the steppers Rail[o].  Each rail has  *)
(* its own sequence of host commands; the commands of one rail arrive in   *)
(* order, those of different rails in any order.  The host's queue_step    *)
(* commands travel in another queue and arrive in between.  The three      *)
(* firmware components share the shutdown flag and take its step together. *)
(***************************************************************************)
EXTENDS Integers, Sequences, FiniteSets

CONSTANTS
  Steppers, SingleSched, Nodes, NoNode, Bias, MaxCount, Travel,
  NumTrsync, Probes, MaxSamples, NoTs, NoReason,
  Rail,                                    \* [1 .. NumTrsync -> SUBSET Steppers]
  Hit, HostRequest, PastEnd, CommsTimeout  \* the host's trigger reasons

VARIABLES
  st, free, cmd, twice,                    \* Stepper
  ts, func, wake, task, told, readd,       \* Trsync
  es, eddy, port, active, run,                  \* Endstop
  shut,
  host,   \* [1 .. NumTrsync -> HostState]: the host's homing sequence
  hit     \* auxiliary: the endstop triggered the live session of the rail

stepperVars == <<st, free, cmd, twice>>
trsyncVars == <<ts, func, wake, task, told, readd>>
endstopVars == <<es, eddy, port, active, run>>
hostVars == <<host, hit>>
vars == <<stepperVars, trsyncVars, endstopVars, shut, hostVars>>

Rails == 1 .. NumTrsync
Reasons == {Hit, HostRequest, PastEnd, CommsTimeout}

\* The axes and the words of Stepper, the counts of Endstop; steppers of rails that
\* may home at the same time belong to one of them.
ASSUME HomingAssumption ==
  /\ SingleSched \subseteq Steppers /\ NoNode \notin Nodes
  /\ Bias \in Nat /\ MaxCount \in Nat /\ Travel \in Nat /\ Travel + MaxCount < Bias
  /\ NumTrsync \in Nat /\ MaxSamples \in 1 .. 255
  /\ NoTs \notin Rails /\ NoReason \notin Reasons
  /\ Hit \notin {HostRequest, PastEnd, CommsTimeout}
  /\ Rail \in [Rails -> SUBSET Steppers]
  /\ \A o, q \in Rails : o # q => Rail[o] \cap Rail[q] = {}

S == INSTANCE Stepper
T == INSTANCE Trsync WITH Signals <- Steppers
E == INSTANCE Endstop WITH Endstops <- Rails, Trsyncs <- Rails

\* Where the host is, the steppers it still has to deal with there (at rest: those an
\* abandoned session left without their reset), and the reason read at the end of the
\* session.
HostState ==
  [ at     : {"rest", "register", "set_timeout", "endstop_home", "homing",
              "past_end", "endstop_off", "trigger", "reset",
              "restart_reset", "restart_endstop", "restart_trsync"},
    todo   : SUBSET Steppers,
    reason : Reasons \cup {NoReason} ]

Resting == [at |-> "rest", todo |-> {}, reason |-> NoReason]

TypeOK ==
  /\ S!TypeOK /\ T!TypeOK /\ E!TypeOK
  /\ host \in [Rails -> HostState]
  /\ hit \in [Rails -> BOOLEAN]

Init ==
  /\ S!Init /\ T!Init /\ E!Init
  /\ host = [o \in Rails |-> Resting]
  /\ hit = [o \in Rails |-> FALSE]

-----------------------------------------------------------------------------
\* What the other components do in a step of one of them: nothing, unless the
\* step shut the machine down.  The host then has to start over.
Stops == shut' /\ ~shut

\* Faulty: a component without its part in the shutdown.
StepperStays == UNCHANGED stepperVars

StepperFollows == IF Stops THEN S!Shutdown(st) ELSE UNCHANGED stepperVars
TrsyncFollows == IF Stops THEN T!Shutdown ELSE UNCHANGED trsyncVars
EndstopFollows ==
  IF Stops THEN E!Shutdown(es) /\ UNCHANGED <<eddy, port, active, run>>
           ELSE UNCHANGED endstopVars

Restarting == [o \in Rails |-> [Resting EXCEPT !.at = "restart_reset", !.todo = Rail[o]]]

HostFollows(h) ==
  /\ host' = IF Stops THEN Restarting ELSE h
  /\ UNCHANGED hit

\* Task context runs one command at a time, and none while trsync_task runs.
Between == cmd = S!NoCmd /\ task = T!Idle

At(o, where) == host[o].at = where
Goes(o, where, todo) == [host EXCEPT ![o].at = where, ![o].todo = todo]

\* The host's next place when one of the steppers it has to deal with is done.
NextOf(o, s, where) ==
  LET todo == host[o].todo \ {s}
  IN  IF todo = {} THEN Goes(o, where, {}) ELSE Goes(o, host[o].at, todo)

-----------------------------------------------------------------------------
(***************************************************************************)
(* MCU_trsync.start: trsync_start, stepper_stop_on_trigger for each        *)
(* stepper, trsync_set_timeout; then MCU_endstop.home_start arms the       *)
(* endstop.                                                                *)
(***************************************************************************)
HostStart(o) ==
  /\ At(o, "rest") /\ Between
  /\ T!command_trsync_start(o, TRUE, CommsTimeout)
  /\ StepperFollows /\ EndstopFollows
  /\ host' = IF Stops THEN Restarting ELSE Goes(o, "register", Rail[o])
  /\ hit' = [hit EXCEPT ![o] = FALSE]

HostRegister(o, s) ==
  /\ At(o, "register") /\ s \in host[o].todo /\ Between
  /\ T!trsync_add_signal(o, s)
  /\ StepperFollows /\ EndstopFollows
  /\ HostFollows(NextOf(o, s, "set_timeout"))

HostSetTimeout(o) ==
  /\ At(o, "set_timeout") /\ Between
  /\ T!command_trsync_set_timeout(o)
  /\ StepperFollows /\ EndstopFollows
  /\ HostFollows(Goes(o, "endstop_home", {}))

\* A triggered endstop reads 0, as the virtual one does.
HostEndstopHome(o) ==
  /\ At(o, "endstop_home") /\ Between
  /\ E!command_endstop_home(o, MaxSamples, FALSE, o, Hit)
  /\ StepperFollows /\ TrsyncFollows
  /\ HostFollows(Goes(o, "homing", {}))

\* From trdispatch_start to trdispatch_stop the serial thread extends the timeout
\* when a report says the session can trigger, and passes on one that has fired.
Dispatching(o) ==
  host[o].at \in {"endstop_home", "homing", "past_end", "endstop_off"}

DispatchTimeout(o) ==
  /\ Dispatching(o) /\ told[o] = "armed" /\ Between
  /\ T!command_trsync_set_timeout(o)
  /\ StepperFollows /\ EndstopFollows
  /\ HostFollows(host)

\* A trsync_trigger command, with the steppers it stops.
TrsyncTrigger(o, reason) ==
  /\ Between
  /\ T!command_trsync_trigger(o, reason)
  /\ S!StopSteppers(T!Called(o))
  /\ UNCHANGED <<cmd, endstopVars>>

DispatchTrigger(o) ==
  /\ Dispatching(o) /\ told[o] = "fired"
  /\ TrsyncTrigger(o, HostRequest)
  /\ HostFollows(host)

\* MCU_trsync._handle_trsync_state: still no trigger after the end of the move.
\* The host asks for one, once.
HostPastEnd(o) ==
  /\ At(o, "homing") /\ told[o] = "armed"
  /\ TrsyncTrigger(o, PastEnd)
  /\ HostFollows(Goes(o, "past_end", {}))

\* MCU_endstop.home_wait: the completion comes with a report that it fired.
HostWaitEnd(o) ==
  /\ At(o, "homing") \/ At(o, "past_end")
  /\ told[o] = "fired"
  /\ host' = Goes(o, "endstop_off", {})
  /\ UNCHANGED <<stepperVars, trsyncVars, endstopVars, shut, hit>>

\* Faulty: the endstop is left on.
HostEndstopStays(o) ==
  /\ At(o, "endstop_off")
  /\ host' = Goes(o, "trigger", {})
  /\ UNCHANGED <<stepperVars, trsyncVars, endstopVars, shut, hit>>

HostEndstopOff(o) ==
  /\ At(o, "endstop_off") /\ Between
  /\ E!HomeOff(o)
  /\ StepperFollows /\ TrsyncFollows
  /\ HostFollows(Goes(o, "trigger", {}))

\* MCU_trsync.stop: trsync_trigger is sent again while its answers are lost.  After
\* some tries the query raises, note_homing_end is skipped for the whole rail and
\* homing_move, which only notes the error, carries on.
HostStop(o) ==
  /\ At(o, "trigger")
  /\ TrsyncTrigger(o, HostRequest)
  /\ \/ HostFollows(host)
     \/ HostFollows(Goes(o, "rest", Rail[o]))
     \/ /\ told'[o] = "fired"
        /\ HostFollows([Goes(o, "reset", Rail[o])
                          EXCEPT ![o].reason = ts'[o].trigger_reason])

\* note_homing_end: reset_step_clock, after which the position is asked for.  When
\* that query raises, the steppers that were to follow are skipped.
HostReset(o, s) ==
  /\ At(o, "reset") /\ s \in host[o].todo /\ Between
  /\ S!ResetStepClock(s)
  /\ TrsyncFollows /\ EndstopFollows
  /\ \/ HostFollows(NextOf(o, s, "rest"))
     \/ HostFollows(Goes(o, "rest", host[o].todo \ {s}))

-----------------------------------------------------------------------------
(***************************************************************************)
(* The host process is started anew, at any moment, and finds the          *)
(* firmware configured: it sends the commands marked on_restart.  By then  *)
(* the timeouts of the old sessions have run out.                          *)
(***************************************************************************)
HostCrash ==
  /\ ~shut /\ \A o \in Rails : ~ts[o].expire_time
  /\ UNCHANGED <<stepperVars, trsyncVars, endstopVars, shut, hit>>
  /\ host' = Restarting

RestartReset(o, s) ==
  /\ At(o, "restart_reset") /\ s \in host[o].todo /\ Between
  /\ S!ResetStepClock(s)
  /\ TrsyncFollows /\ EndstopFollows
  /\ HostFollows(NextOf(o, s, "restart_endstop"))

RestartEndstop(o) ==
  /\ At(o, "restart_endstop") /\ Between
  /\ E!HomeOff(o)
  /\ StepperFollows /\ TrsyncFollows
  /\ HostFollows(Goes(o, "restart_trsync", {}))

RestartTrsync(o) ==
  /\ At(o, "restart_trsync") /\ Between
  /\ T!command_trsync_start(o, FALSE, NoReason)
  /\ StepperFollows /\ EndstopFollows
  /\ HostFollows(Goes(o, "rest", {}))

\* The stepper's own command queue: moves go on arriving during and after the
\* trigger, up to the reset_step_clock sent behind them.
Moves(s) ==
  \A o \in Rails : s \in Rail[o] =>
    \/ At(o, "reset") /\ s \in host[o].todo
    \/ host[o].at \in {"rest", "register", "set_timeout", "endstop_home",
                       "homing", "past_end", "endstop_off", "trigger"}

HostMove ==
  /\ task = T!Idle
  /\ \E s \in Steppers :
       /\ Moves(s)
       /\ \/ \E c \in 1 .. MaxCount : S!QueueStepAlloc(s, c)
          \/ \E d \in {0, 1} : S!SetNextStepDir(s, d)
  /\ TrsyncFollows /\ EndstopFollows /\ HostFollows(host)

MovePush ==
  /\ S!QueueStepPush
  /\ TrsyncFollows /\ EndstopFollows /\ HostFollows(host)

-----------------------------------------------------------------------------
\* Interrupts and trsync_task.

StepperTimer ==
  /\ \E s \in Steppers : S!StepperEvent(s)
  /\ TrsyncFollows /\ EndstopFollows /\ HostFollows(host)

\* Faulty: the trigger is recorded but the steppers are not told.
EndstopFiresAlone(o) ==
  /\ E!SampleTriggers(o)
  /\ T!EndstopTrigger(es[o].ts, es[o].trigger_reason)
  /\ hit' = [hit EXCEPT ![o] = @ \/ ts[o].can]
  /\ UNCHANGED <<stepperVars, host>>

\* The sample that completes the count calls trsync_do_trigger, which calls
\* stepper_stop for every stepper registered with the session.
EndstopFires(o) ==
  /\ E!SampleTriggers(o)
  /\ T!EndstopTrigger(es[o].ts, es[o].trigger_reason)
  /\ S!StopSteppers(T!Called(es[o].ts))
  /\ hit' = [hit EXCEPT ![o] = @ \/ ts[o].can]
  /\ UNCHANGED <<cmd, host>>

EndstopSamples ==
  /\ \/ \E o \in Rails : E!SampleMismatch(o) \/ E!SampleMatch(o)
     \/ E!PinChange
  /\ UNCHANGED <<stepperVars, trsyncVars, hostVars>>

TrsyncExpires(o) ==
  /\ T!trsync_expire_event(o)
  /\ S!StopSteppers(T!Called(o))
  /\ UNCHANGED <<cmd, endstopVars, hostVars>>

TrsyncReports ==
  /\ \/ \E o \in Rails : T!trsync_report_event(o)
     \/ cmd = S!NoCmd /\ T!Task
  /\ UNCHANGED <<stepperVars, endstopVars, hostVars>>

\* Anything else that shuts the machine down, and the clear_shutdown command.
Shutdown ==
  /\ S!Shutdown(st) /\ T!Shutdown
  /\ E!Shutdown(es) /\ UNCHANGED <<eddy, port, active, run>>
  /\ host' = Restarting /\ UNCHANGED hit

ClearShutdown ==
  /\ S!ClearShutdown /\ T!ClearShutdown /\ E!ClearShutdown
  /\ UNCHANGED hostVars

Next ==
  \/ \E o \in Rails :
       \/ HostStart(o) \/ HostSetTimeout(o) \/ HostEndstopHome(o)
       \/ DispatchTimeout(o) \/ DispatchTrigger(o)
       \/ HostPastEnd(o) \/ HostWaitEnd(o) \/ HostEndstopOff(o) \/ HostStop(o)
       \/ RestartEndstop(o) \/ RestartTrsync(o)
       \/ EndstopFires(o) \/ TrsyncExpires(o)
       \/ \E s \in Rail[o] : HostRegister(o, s) \/ HostReset(o, s) \/ RestartReset(o, s)
  \/ HostCrash
  \/ HostMove \/ MovePush
  \/ StepperTimer \/ EndstopSamples \/ TrsyncReports
  \/ Shutdown \/ ClearShutdown

Spec == Init /\ [][Next]_vars

-----------------------------------------------------------------------------
\* What homing promises.

\* When a session fires, for whatever reason, every stepper registered with it
\* is stopped in the same step: its timer is off the list and its queue empty.  And
\* none is registered with a session that can no longer fire, although
\* trsync_add_signal does not check: it would run through its endstop.
FiringStops ==
  /\ [](\A o \in Rails : ts[o].signals # <<>> => ts[o].can)
  /\ [][\A o \in Rails : ts[o].can /\ ~ts'[o].can =>
          \A s \in T!OnSignals(o) : ~st'[s].sched /\ st'[s].mq = <<>>]_vars

\* The firmware never answers the host's sequence with a shutdown: no stepper is
\* already registered ("Can't add signal that is already active") and none still
\* moves when its clock is reset ("Can't reset time when stepper active").  The
\* position read behind reset_step_clock is final: nothing queued before the
\* trigger is left to run.
SequenceAccepted ==
  \A o \in Rails :
    /\ \A s \in host[o].todo :
         /\ At(o, "register") => ~func[s]
         /\ At(o, "reset") => st[s].count = 0 /\ st[s].need_reset
    /\ \A s \in Rail[o] \ host[o].todo :
         At(o, "reset") => st[s].count = 0 /\ st[s].mq = <<>>

\* The host reads ENDSTOP_HIT exactly when the endstop fired this session, before
\* its timeout and before the host's own trsync_trigger.
HomingResult == \A o \in Rails : At(o, "reset") => (host[o].reason = Hit <=> hit[o])

\* Nothing of a session stays behind on a rail at rest, however the session ended:
\* its endstop is off and no stepper is registered, so nothing is left that would stop a
\* move; and the steppers that drop their moves, waiting for a reset, are exactly those
\* the host skipped when it gave up on an answer.
RestIsReady ==
  \A o \in Rails : At(o, "rest") =>
    /\ ~es[o].time
    /\ \A s \in Rail[o] : ~func[s] /\ (st[s].need_reset <=> s \in host[o].todo)

\* The composition takes no step its parts do not take, shutdowns included: what
\* is proved of the steppers alone holds while they home.
ImplementsParts == S!Spec /\ T!Spec /\ E!Spec
=============================================================================
