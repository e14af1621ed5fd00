---------------------------- MODULE HomingProofs ----------------------------
(***************************************************************************)
(* Proofs about module Homing for any number of rails and steppers: the    *)
(* composition implements its parts, so that what is proved of each part   *)
(* alone holds while it homes, and what homing itself promises.            *)
(*                                                                         *)
(* The parts simulate in turn: a step of the composition is a step of the  *)
(* endstops; their invariant names the trsync an endstop fires, which      *)
(* makes it a step of the trsyncs; their invariant says which steppers a   *)
(* trsync stops and when, which makes it a step of the steppers.           *)
(***************************************************************************)
EXTENDS Homing, TLAPS

\* What is proved of the parts, for the sets that a homing connects.
SP == INSTANCE StepperProofs
TP == INSTANCE TrsyncProofs WITH Signals <- Steppers
EP == INSTANCE EndstopProofs WITH Endstops <- Rails, Trsyncs <- Rails

-----------------------------------------------------------------------------
\* The proofs of a part are about the part.

\* Endstop as EndstopProofs sees it.
LEMMA SameEndstop ==
  /\ EP!Init <=> E!Init
  /\ EP!Next <=> E!Next
  /\ EP!vars = E!vars
<1>1. EP!Init <=> E!Init
  BY DEF E!Init, EP!Init, E!ConfigEndstop, EP!ConfigEndstop
<1>2. EP!Next <=> E!Next
  BY DEF E!Next, EP!Next, E!HomeOff, EP!HomeOff,
     E!command_endstop_home, EP!command_endstop_home, E!HomeStruct, EP!HomeStruct,
     E!command_endstop_query_state, EP!command_endstop_query_state,
     E!command_endstop_recover_state, EP!command_endstop_recover_state,
     E!Recovered, EP!Recovered, E!SampleMismatch, EP!SampleMismatch,
     E!SampleMatch, EP!SampleMatch, E!SampleTriggers, EP!SampleTriggers,
     E!Match, EP!Match, E!gpio_in_read, EP!gpio_in_read, E!Mismatch, EP!Mismatch,
     E!CountDown, EP!CountDown, E!EddyChange, EP!EddyChange,
     E!PortChange, EP!PortChange, E!PinChange, EP!PinChange,
     E!ShutdownStep, EP!ShutdownStep, E!Shutdown, EP!Shutdown,
     E!ClearShutdown, EP!ClearShutdown
<1>3. EP!vars = E!vars
  BY DEF EP!vars, E!vars
<1> QED BY <1>1, <1>2, <1>3

\* Trsync as TrsyncProofs sees it.
LEMMA SameTrsync ==
  /\ TP!Init <=> T!Init
  /\ TP!Next <=> T!Next
  /\ TP!vars = T!vars
<1>1. TP!Init <=> T!Init
  BY DEF T!Init, TP!Init, T!ConfigTrsync, TP!ConfigTrsync, T!Oids, TP!Oids, T!Idle, TP!Idle
<1>2. TP!Next <=> T!Next
  BY DEF T!Next, TP!Next, T!Oids, TP!Oids, T!Idle, TP!Idle, T!vars, TP!vars,
     T!command_trsync_start, TP!command_trsync_start, T!Command, TP!Command,
     T!trsync_clear, TP!trsync_clear, T!OnSignals, TP!OnSignals,
     T!command_trsync_set_timeout, TP!command_trsync_set_timeout,
     T!CancelTimeout, TP!CancelTimeout, T!trsync_add_signal, TP!trsync_add_signal,
     T!command_trsync_trigger, TP!command_trsync_trigger, T!Fired, TP!Fired,
     T!Dispatch, TP!Dispatch, T!Called, TP!Called,
     T!EndstopTrigger, TP!EndstopTrigger, T!trsync_expire_event, TP!trsync_expire_event,
     T!trsync_report_event, TP!trsync_report_event, T!Task, TP!Task,
     T!TaskWake, TP!TaskWake, T!TaskSkip, TP!TaskSkip, T!TaskCopy, TP!TaskCopy,
     T!TaskSend, TP!TaskSend, T!TaskSendDropped, TP!TaskSendDropped,
     T!Advance, TP!Advance, T!Outcome, TP!Outcome,
     T!Shutdown, TP!Shutdown, T!ClearShutdown, TP!ClearShutdown
<1>3. TP!vars = T!vars
  BY DEF TP!vars, T!vars
<1> QED BY <1>1, <1>2, <1>3

\* Stepper as StepperProofs sees it.
LEMMA SameStepper ==
  /\ SP!Init <=> S!Init
  /\ SP!Next <=> S!Next
  /\ SP!vars = S!vars
  /\ SP!QueueStepPush <=> S!QueueStepPush
  /\ \A s : SP!StepperEvent(s) <=> S!StepperEvent(s)
  /\ \A s, c : SP!QueueStepAlloc(s, c) <=> S!QueueStepAlloc(s, c)
  /\ \A s, d : SP!SetNextStepDir(s, d) <=> S!SetNextStepDir(s, d)
  /\ SP!NoCmd = S!NoCmd
<1>1. SP!Init <=> S!Init
  BY DEF S!Init, SP!Init, S!ConfigStepper, SP!ConfigStepper, S!NoCmd, SP!NoCmd
<1>2. /\ SP!Next <=> S!Next
      /\ SP!QueueStepPush <=> S!QueueStepPush
      /\ \A s : SP!StepperEvent(s) <=> S!StepperEvent(s)
      /\ \A s, c : SP!QueueStepAlloc(s, c) <=> S!QueueStepAlloc(s, c)
      /\ \A s, d : SP!SetNextStepDir(s, d) <=> S!SetNextStepDir(s, d)
  <2>1. \A F : SP!Shutdown(F) <=> S!Shutdown(F)
    BY DEF S!Shutdown, SP!Shutdown, S!stepper_stop, SP!stepper_stop,
       S!move_queue_clear, SP!move_queue_clear, S!QueuedNodes, SP!QueuedNodes,
       S!Signed, SP!Signed, S!stepper_get_position, SP!stepper_get_position,
       S!StepsLeft, SP!StepsLeft, S!NoCmd, SP!NoCmd
  <2>2. \A s, r : SP!stepper_load_next(s, r) = S!stepper_load_next(s, r)
    BY DEF S!stepper_load_next, SP!stepper_load_next, S!LoadPosition, SP!LoadPosition,
       S!Signed, SP!Signed, S!Xor, SP!Xor
  <2>3. \A s, c : SP!QueueStepAlloc(s, c) <=> S!QueueStepAlloc(s, c)
    BY <2>1 DEF S!QueueStepAlloc, SP!QueueStepAlloc, S!NoCmd, SP!NoCmd,
       S!Target, SP!Target, S!Planned, SP!Planned, S!AxisRange, SP!AxisRange,
       S!QueueStepRefused, SP!QueueStepRefused
  <2>4. SP!QueueStepPush <=> S!QueueStepPush
    <3>1. \A r : SP!Pushed(r) = S!Pushed(r)
      BY DEF S!Pushed, SP!Pushed, S!Xor, SP!Xor, S!Target, SP!Target, S!Planned, SP!Planned
    <3> QED BY <2>1, <2>2, <3>1
         DEF S!QueueStepPush, SP!QueueStepPush, S!NoCmd, SP!NoCmd, S!StaleMove, SP!StaleMove
  <2>5. \A s, d : SP!SetNextStepDir(s, d) <=> S!SetNextStepDir(s, d)
    BY DEF S!SetNextStepDir, SP!SetNextStepDir, S!NoCmd, SP!NoCmd
  <2>6. \A s : SP!ResetStepClock(s) <=> S!ResetStepClock(s)
    BY <2>1 DEF S!ResetStepClock, SP!ResetStepClock, S!NoCmd, SP!NoCmd
  <2>7. \A s : SP!StepperEvent(s) <=> S!StepperEvent(s)
    <3>1. \A s, r : /\ SP!TogglePin(s, r) = S!TogglePin(s, r)
                    /\ SP!stepper_idle(r) = S!stepper_idle(r)
      BY DEF S!TogglePin, SP!TogglePin, S!stepper_idle, SP!stepper_idle
    <3> QED BY <2>1, <2>2, <3>1, ZenonT(60) DEF S!StepperEvent, SP!StepperEvent
  <2>8. \A F : SP!Trigger(F) <=> S!Trigger(F)
    BY DEF S!Trigger, SP!Trigger, S!StopSteppers, SP!StopSteppers,
       S!stepper_stop, SP!stepper_stop, S!QueuedNodes, SP!QueuedNodes,
       S!Signed, SP!Signed, S!stepper_get_position, SP!stepper_get_position,
       S!StepsLeft, SP!StepsLeft
  <2>9. SP!ClearShutdown <=> S!ClearShutdown
    BY DEF S!ClearShutdown, SP!ClearShutdown
  <2> QED BY <2>1, <2>3, <2>4, <2>5, <2>6, <2>7, <2>8, <2>9 DEF S!Next, SP!Next, S!Bit, SP!Bit
<1>3. SP!vars = S!vars /\ SP!NoCmd = S!NoCmd
  BY DEF SP!vars, S!vars, SP!NoCmd, S!NoCmd
<1> QED BY <1>1, <1>2, <1>3

-----------------------------------------------------------------------------
\* Shutdowns.  A step of one part leaves the flag or sets it, and then the others
\* take their part of the shutdown.

\* An endstop only follows.
LEMMA EndstopFollowing ==
  ASSUME EndstopFollows, shut' = shut \/ Stops
  PROVE  [E!Next]_(E!vars)
BY DEF EndstopFollows, Stops, endstopVars, E!vars, E!Next, E!ShutdownStep

\* A trsync only follows.
LEMMA TrsyncFollowing ==
  ASSUME TrsyncFollows, shut' = shut \/ Stops
  PROVE  [T!Next]_(T!vars)
BY DEF TrsyncFollows, Stops, trsyncVars, T!vars, T!Next

\* A stepper only follows.
LEMMA StepperFollowing ==
  ASSUME StepperFollows, shut' = shut \/ Stops
  PROVE  [S!Next]_(S!vars)
BY DEF StepperFollows, Stops, stepperVars, S!vars, S!Next

\* The commands of a trsync set the flag only by their shutdown.
LEMMA TrsyncFlag ==
  ASSUME NEW o, NEW b, NEW p, NEW s,
         \/ T!command_trsync_start(o, b, p) \/ T!command_trsync_set_timeout(o)
         \/ T!trsync_add_signal(o, s)
  PROVE  shut' = shut \/ Stops
BY DEF T!command_trsync_start, T!command_trsync_set_timeout, T!trsync_add_signal,
       T!Command, T!Shutdown, T!vars, Stops

\* The same of an endstop.
LEMMA EndstopFlag ==
  ASSUME NEW o, NEW n, NEW b, NEW q, NEW p,
         E!HomeOff(o) \/ E!command_endstop_home(o, n, b, q, p)
  PROVE  shut' = shut \/ Stops
BY DEF E!HomeOff, E!command_endstop_home, E!Shutdown, Stops

\* The same of a stepper, its timer included.
LEMMA StepperFlag ==
  ASSUME shut \in BOOLEAN, NEW s, NEW c,
         \/ S!QueueStepAlloc(s, c) \/ S!SetNextStepDir(s, c) \/ S!QueueStepPush
         \/ S!ResetStepClock(s) \/ S!StepperEvent(s)
  PROVE  shut' = shut \/ Stops
<1>1. ASSUME NEW F, S!Shutdown(F)
      PROVE  shut' = shut \/ Stops
  BY <1>1 DEF S!Shutdown, Stops
<1>2. shut' = shut \/ \E F : S!Shutdown(F)
  BY DEF S!QueueStepAlloc, S!SetNextStepDir, S!QueueStepPush, S!ResetStepClock, S!StepperEvent
<1> QED BY <1>1, <1>2

\* A trigger, for whatever reason it comes, leaves the flag alone.
LEMMA TriggerFlag ==
  ASSUME NEW o, NEW p,
         \/ T!command_trsync_trigger(o, p) \/ T!EndstopTrigger(o, p)
         \/ T!trsync_expire_event(o) \/ T!trsync_report_event(o) \/ T!Task
  PROVE  shut' = shut
BY DEF T!command_trsync_trigger, T!EndstopTrigger, T!trsync_expire_event,
       T!trsync_report_event, T!Task, T!TaskWake, T!TaskSkip, T!TaskCopy,
       T!TaskSend, T!TaskSendDropped

-----------------------------------------------------------------------------
\* The actions of a homing move, grouped by the part that acts.

\* Commands for a trsync: the other two parts follow.
TrsyncActs(o) ==
  \/ HostStart(o) \/ HostSetTimeout(o) \/ DispatchTimeout(o) \/ RestartTrsync(o)
  \/ \E s \in Rail[o] : HostRegister(o, s)

\* Commands for an endstop.
EndstopActs(o) == HostEndstopHome(o) \/ HostEndstopOff(o) \/ RestartEndstop(o)

\* Commands for a stepper, and its timer.
StepperActs ==
  \/ HostMove \/ MovePush \/ StepperTimer
  \/ \E o \in Rails : \E s \in Rail[o] : HostReset(o, s) \/ RestartReset(o, s)

\* The trsync_trigger command.
TriggerActs(o) == DispatchTrigger(o) \/ HostPastEnd(o) \/ HostStop(o)

\* The host alone.
HostActs == HostCrash \/ \E o \in Rails : HostWaitEnd(o)

\* Every step is one of these.
LEMMA NextByPart ==
  ASSUME [Next]_vars
  PROVE  \/ \E o \in Rails : \/ TrsyncActs(o) \/ EndstopActs(o) \/ TriggerActs(o)
                            \/ EndstopFires(o) \/ TrsyncExpires(o)
         \/ StepperActs \/ HostActs \/ EndstopSamples \/ TrsyncReports
         \/ Shutdown \/ ClearShutdown \/ UNCHANGED vars
BY DEF Next, TrsyncActs, EndstopActs, StepperActs, TriggerActs, HostActs

\* What TrsyncActs(o) is to the parts.
LEMMA TrsyncActsParts ==
  ASSUME NEW o \in Rails, TrsyncActs(o)
  PROVE  /\ \/ T!command_trsync_start(o, TRUE, CommsTimeout)
            \/ T!command_trsync_start(o, FALSE, NoReason)
            \/ T!command_trsync_set_timeout(o)
            \/ \E s \in Rail[o] : T!trsync_add_signal(o, s)
         /\ StepperFollows /\ EndstopFollows
BY DEF TrsyncActs, HostStart, HostSetTimeout, DispatchTimeout, RestartTrsync, HostRegister

\* What EndstopActs(o) is to the parts.
LEMMA EndstopActsParts ==
  ASSUME NEW o \in Rails, EndstopActs(o)
  PROVE  /\ E!HomeOff(o) \/ E!command_endstop_home(o, MaxSamples, FALSE, o, Hit)
         /\ StepperFollows /\ TrsyncFollows
BY DEF EndstopActs, HostEndstopHome, HostEndstopOff, RestartEndstop

\* What StepperActs is to the parts.
LEMMA StepperActsParts ==
  ASSUME StepperActs
  PROVE  /\ \/ S!QueueStepPush
            \/ \E s \in Steppers :
                 \/ \E c \in 1 .. MaxCount : S!QueueStepAlloc(s, c)
                 \/ \E d \in {0, 1} : S!SetNextStepDir(s, d)
                 \/ S!StepperEvent(s) \/ S!ResetStepClock(s)
         /\ TrsyncFollows /\ EndstopFollows
<1>1. \A o \in Rails : Rail[o] \subseteq Steppers
  BY HomingAssumption
<1> QED BY <1>1 DEF StepperActs, HostMove, MovePush, StepperTimer, HostReset, RestartReset

\* What TriggerActs(o) is to the parts.
LEMMA TriggerActsParts ==
  ASSUME NEW o \in Rails, TriggerActs(o)
  PROVE  /\ \E p \in Reasons : T!command_trsync_trigger(o, p)
         /\ S!StopSteppers(T!Called(o)) /\ UNCHANGED <<cmd, endstopVars>>
BY DEF TriggerActs, DispatchTrigger, HostPastEnd, HostStop, TrsyncTrigger, Reasons

-----------------------------------------------------------------------------
\* Each step of the composition is a step of each part, or none.

\* The endstops.
LEMMA EndstopStep ==
  ASSUME shut \in BOOLEAN, [Next]_vars
  PROVE  [E!Next]_(E!vars)
<1>0. Hit \in Reasons /\ MaxSamples \in 1 .. MaxSamples
  BY HomingAssumption DEF Reasons
<1>1. ASSUME NEW o \in Rails, TrsyncActs(o)
      PROVE  [E!Next]_(E!vars)
  <2>1. EndstopFollows /\ (shut' = shut \/ Stops)
    BY <1>1, TrsyncActsParts, TrsyncFlag
  <2> QED BY <2>1, EndstopFollowing
<1>2. ASSUME NEW o \in Rails, EndstopActs(o)
      PROVE  [E!Next]_(E!vars)
  BY <1>0, <1>2, EndstopActsParts DEF E!Next
<1>3. ASSUME NEW o \in Rails, TriggerActs(o)
      PROVE  [E!Next]_(E!vars)
  <2>1. UNCHANGED endstopVars /\ shut' = shut
    BY <1>3, TriggerActsParts, TriggerFlag
  <2> QED BY <2>1 DEF endstopVars, E!vars
<1>4. ASSUME NEW o \in Rails, EndstopFires(o)
      PROVE  [E!Next]_(E!vars)
  BY <1>4 DEF EndstopFires, E!Next
<1>5. ASSUME NEW o \in Rails, TrsyncExpires(o)
      PROVE  [E!Next]_(E!vars)
  <2>1. UNCHANGED endstopVars /\ shut' = shut
    BY <1>5, TriggerFlag DEF TrsyncExpires
  <2> QED BY <2>1 DEF endstopVars, E!vars
<1>6. CASE StepperActs
  <2>1. EndstopFollows /\ (shut' = shut \/ Stops)
    BY <1>6, StepperActsParts, StepperFlag
  <2> QED BY <2>1, EndstopFollowing
<1>7. CASE HostActs \/ UNCHANGED vars
  BY <1>7 DEF HostActs, HostCrash, HostWaitEnd, vars, endstopVars, E!vars
<1>8. CASE EndstopSamples
  BY <1>8 DEF EndstopSamples, E!Next
<1>9. CASE TrsyncReports
  <2>1. UNCHANGED endstopVars /\ shut' = shut
    BY <1>9, TriggerFlag DEF TrsyncReports
  <2> QED BY <2>1 DEF endstopVars, E!vars
<1>10. CASE Shutdown \/ ClearShutdown
  BY <1>10 DEF Shutdown, ClearShutdown, E!Next, E!ShutdownStep
<1> QED BY NextByPart, <1>1, <1>2, <1>3, <1>4, <1>5, <1>6, <1>7, <1>8, <1>9, <1>10

\* The trsyncs: an endstop fires a trsync that exists, for a reason of the host's.
LEMMA TrsyncStep ==
  ASSUME EP!Inv, [Next]_vars
  PROVE  [T!Next]_(T!vars)
<1>0. /\ {CommsTimeout, NoReason} \subseteq Reasons \cup {NoReason}
      /\ \A o \in Rails : Rail[o] \subseteq Steppers
      /\ T!Oids = Rails /\ shut \in BOOLEAN
  BY HomingAssumption DEF Reasons, T!Oids, Rails, EP!Inv, EP!TypeOK
<1>1. ASSUME NEW o \in Rails, TrsyncActs(o)
      PROVE  [T!Next]_(T!vars)
  BY <1>0, <1>1, TrsyncActsParts DEF T!Next
<1>2. ASSUME NEW o \in Rails, EndstopActs(o)
      PROVE  [T!Next]_(T!vars)
  <2>1. TrsyncFollows /\ (shut' = shut \/ Stops)
    BY <1>2, EndstopActsParts, EndstopFlag
  <2> QED BY <2>1, TrsyncFollowing
<1>3. ASSUME NEW o \in Rails, TriggerActs(o)
      PROVE  [T!Next]_(T!vars)
  BY <1>0, <1>3, TriggerActsParts DEF T!Next
<1>4. ASSUME NEW o \in Rails, EndstopFires(o)
      PROVE  [T!Next]_(T!vars)
  <2>1. es[o].ts \in Rails /\ es[o].trigger_reason \in Reasons
    BY <1>4 DEF EndstopFires, E!SampleTriggers, EP!Inv, EP!EndstopInv
  <2> QED BY <1>0, <1>4, <2>1 DEF EndstopFires, T!Next
<1>5. ASSUME NEW o \in Rails, TrsyncExpires(o)
      PROVE  [T!Next]_(T!vars)
  BY <1>0, <1>5 DEF TrsyncExpires, T!Next
<1>6. CASE StepperActs
  <2>1. TrsyncFollows /\ (shut' = shut \/ Stops)
    BY <1>0, <1>6, StepperActsParts, StepperFlag
  <2> QED BY <2>1, TrsyncFollowing
<1>7. CASE HostActs \/ UNCHANGED vars
  BY <1>7 DEF HostActs, HostCrash, HostWaitEnd, vars, trsyncVars, T!vars
<1>8. CASE EndstopSamples
  <2>1. UNCHANGED <<trsyncVars, shut>>
    BY <1>8 DEF EndstopSamples, E!SampleMismatch, E!SampleMatch, E!PinChange,
                E!EddyChange, E!PortChange
  <2> QED BY <2>1 DEF trsyncVars, T!vars
<1>9. CASE TrsyncReports
  BY <1>0, <1>9 DEF TrsyncReports, T!Next
<1>10. CASE Shutdown \/ ClearShutdown
  BY <1>10 DEF Shutdown, ClearShutdown, T!Next
<1> QED BY NextByPart, <1>1, <1>2, <1>3, <1>4, <1>5, <1>6, <1>7, <1>8, <1>9, <1>10

\* A trsync stops steppers that exist, and never while the firmware is shut down.
LEMMA StopsSteppers ==
  ASSUME TP!Inv, NEW o \in Rails, ~shut, shut' = shut,
         S!StopSteppers(T!Called(o)), UNCHANGED cmd
  PROVE  S!Next
<1>1. ts[o].signals \in Seq(Steppers)
  BY DEF TP!Inv, TP!TypeOK, TP!TrsyncRecord, TP!Oids, Rails
<1>2. T!Called(o) \in SUBSET Steppers
  BY <1>1 DEF T!Called, T!OnSignals
<1> QED BY <1>2 DEF S!Next, S!Trigger

\* The steppers.
LEMMA StepperStep ==
  ASSUME EP!Inv, TP!Inv, TP!TimersOff, [Next]_vars
  PROVE  [S!Next]_(S!vars)
<1>0. TP!Oids = Rails /\ shut \in BOOLEAN
  BY DEF TP!Oids, Rails, TP!Inv, TP!TypeOK
<1>1. ASSUME NEW o \in Rails, TrsyncActs(o)
      PROVE  [S!Next]_(S!vars)
  <2>1. StepperFollows /\ (shut' = shut \/ Stops)
    BY <1>1, TrsyncActsParts, TrsyncFlag
  <2> QED BY <2>1, StepperFollowing
<1>2. ASSUME NEW o \in Rails, EndstopActs(o)
      PROVE  [S!Next]_(S!vars)
  <2>1. StepperFollows /\ (shut' = shut \/ Stops)
    BY <1>2, EndstopActsParts, EndstopFlag
  <2> QED BY <2>1, StepperFollowing
<1>3. ASSUME NEW o \in Rails, TriggerActs(o)
      PROVE  [S!Next]_(S!vars)
  <2>1. PICK p \in Reasons : T!command_trsync_trigger(o, p)
    BY <1>3, TriggerActsParts
  <2>2. ~shut /\ shut' = shut
    BY <2>1 DEF T!command_trsync_trigger, T!Command
  <2> QED BY <1>3, <2>2, TriggerActsParts, StopsSteppers
<1>4. ASSUME NEW o \in Rails, EndstopFires(o)
      PROVE  [S!Next]_(S!vars)
  <2>1. es[o].ts \in Rails
    BY <1>4 DEF EndstopFires, E!SampleTriggers, EP!Inv, EP!EndstopInv
  <2>2. ~shut /\ shut' = shut
    BY <1>4 DEF EndstopFires, T!EndstopTrigger
  <2> QED BY <1>4, <2>1, <2>2, StopsSteppers DEF EndstopFires
<1>5. ASSUME NEW o \in Rails, TrsyncExpires(o)
      PROVE  [S!Next]_(S!vars)
  <2>1. ~shut /\ shut' = shut
    BY <1>0, <1>5 DEF TrsyncExpires, T!trsync_expire_event, TP!TimersOff
  <2> QED BY <1>5, <2>1, StopsSteppers DEF TrsyncExpires
<1>6. CASE StepperActs
  <2>1. \A c \in 1 .. MaxCount : c \in 0 .. MaxCount
    BY HomingAssumption
  <2> QED BY <1>6, <2>1, StepperActsParts DEF S!Next, S!Bit
<1>7. CASE HostActs \/ UNCHANGED vars
  BY <1>7 DEF HostActs, HostCrash, HostWaitEnd, vars, stepperVars, S!vars
<1>8. CASE EndstopSamples
  <2>1. UNCHANGED <<stepperVars, shut>>
    BY <1>8 DEF EndstopSamples, E!SampleMismatch, E!SampleMatch, E!PinChange,
                E!EddyChange, E!PortChange
  <2> QED BY <2>1 DEF stepperVars, S!vars
<1>9. CASE TrsyncReports
  <2>1. UNCHANGED <<stepperVars, shut>>
    BY <1>9, TriggerFlag DEF TrsyncReports
  <2> QED BY <2>1 DEF stepperVars, S!vars
<1>10. CASE Shutdown \/ ClearShutdown
  BY <1>10 DEF Shutdown, ClearShutdown, S!Next
<1> QED BY NextByPart, <1>1, <1>2, <1>3, <1>4, <1>5, <1>6, <1>7, <1>8, <1>9, <1>10

-----------------------------------------------------------------------------
\* The invariants of the parts, in the composition.
PartsInv == EP!Inv /\ TP!Inv /\ TP!TimersOff /\ SP!AllInv /\ SP!MotorsOff

\* They hold at the start.
LEMMA PartsInit == Init => PartsInv
<1> SUFFICES ASSUME Init PROVE PartsInv
  OBVIOUS
<1>1. EP!Inv
  <2>1. EP!ConstantsOK /\ EP!Init
    BY HomingAssumption, SameEndstop DEF EP!ConstantsOK, Init
  <2> QED BY <2>1, EP!InitInv
<1>2. TP!Inv /\ TP!TimersOff
  <2>1. TP!Init /\ shut = FALSE
    BY SameTrsync DEF Init, S!Init
  <2> QED BY <2>1, TP!InitInv, HomingAssumption DEF TP!TimersOff
<1>3. SP!AllInv /\ SP!MotorsOff
  <2>1. SP!Init /\ shut = FALSE
    BY SameStepper DEF Init, S!Init
  <2> QED BY <2>1, SP!InitInv, HomingAssumption DEF SP!MotorsOff
<1> QED BY <1>1, <1>2, <1>3 DEF PartsInv

\* A step of the composition keeps them, being a step of each part.
LEMMA PartsNext ==
  ASSUME PartsInv, [Next]_vars
  PROVE  /\ PartsInv'
         /\ [E!Next]_(E!vars) /\ [T!Next]_(T!vars) /\ [S!Next]_(S!vars)
<1>1. /\ EP!Inv /\ TP!Inv /\ TP!TimersOff /\ SP!AllInv /\ SP!MotorsOff
      /\ shut \in BOOLEAN
  BY DEF PartsInv, EP!Inv, EP!TypeOK
<1>2. [E!Next]_(E!vars) /\ [T!Next]_(T!vars) /\ [S!Next]_(S!vars)
  BY <1>1, EndstopStep, TrsyncStep, StepperStep
<1>3. [EP!Next]_(EP!vars) /\ [TP!Next]_(TP!vars) /\ [SP!Next]_(SP!vars)
  <2>1. EP!vars' = E!vars' /\ TP!vars' = T!vars' /\ SP!vars' = S!vars'
    BY DEF EP!vars, E!vars, TP!vars, T!vars, SP!vars, S!vars
  <2> QED BY <1>2, <2>1, SameEndstop, SameTrsync, SameStepper
<1>4. EP!Inv'
  <2>1. EP!ConstantsOK
    BY HomingAssumption DEF EP!ConstantsOK
  <2> QED BY <1>1, <1>3, <2>1, EP!NextInv
<1>5. TP!Inv' /\ TP!TimersOff'
  BY <1>1, <1>3, TP!NextInv, TP!TimersOffNext, HomingAssumption
<1>6. SP!AllInv' /\ SP!MotorsOff'
  BY <1>1, <1>3, SP!NextInv, SP!MotorsOffNext, HomingAssumption
<1> QED BY <1>2, <1>4, <1>5, <1>6 DEF PartsInv

\* The composition takes no step its parts do not take: it implements the steppers,
\* the trsyncs and the endstops, shutdowns and host restarts included.
THEOREM HomingImplementsParts == Spec => ImplementsParts
<1>1. Init => PartsInv /\ S!Init /\ T!Init /\ E!Init
  BY PartsInit DEF Init
<1>2. PartsInv /\ [Next]_vars =>
        PartsInv' /\ [E!Next]_(E!vars) /\ [T!Next]_(T!vars) /\ [S!Next]_(S!vars)
  BY PartsNext
<1> QED BY <1>1, <1>2, PTL DEF Spec, ImplementsParts, S!Spec, T!Spec, E!Spec

-----------------------------------------------------------------------------
(***************************************************************************)
(* What homing adds to its parts, rail by rail: where the host is in its   *)
(* sequence against what the firmware has been told and did.               *)
(***************************************************************************)

\* From trsync_start to the trsync_trigger that ends the session.
Session(o) ==
  host[o].at \in {"register", "set_timeout", "endstop_home", "homing", "past_end",
                  "endstop_off", "trigger"}

\* A new host, or one that saw a shutdown, before it is at rest.
Restart(o) == host[o].at \in {"restart_reset", "restart_endstop", "restart_trsync"}

\* The steppers still to be dealt with, or abandoned, are of the rail.
HostInv(o) ==
  /\ host[o] \in HostState /\ hit[o] \in BOOLEAN
  /\ host[o].todo \subseteq Rail[o]
  /\ host[o].todo # {} => host[o].at \in {"register", "reset", "restart_reset", "rest"}

\* Steppers are registered with the session of their rail while it can fire, one after
\* the other, and with none while the rail is at rest.
SignalInv(o) ==
  /\ T!OnSignals(o) \subseteq Rail[o]
  /\ ts[o].signals # <<>> => ts[o].can
  /\ Session(o) /\ ts[o].can => T!OnSignals(o) = Rail[o] \ host[o].todo
  /\ host[o].at \in {"rest", "reset"} => ts[o].signals = <<>>

\* What may fire the session: nothing while steppers are registered, the timeout and
\* the endstop after that, and nothing again once a new host has taken over.
FireInv(o) ==
  /\ es[o].time => /\ es[o].ts = o /\ es[o].trigger_reason = Hit
                   /\ host[o].at \in {"homing", "past_end", "endstop_off",
                                      "restart_reset", "restart_endstop"}
  /\ host[o].at \in {"register", "set_timeout"} => ts[o].can /\ ~ts[o].expire_time
  /\ host[o].at \in {"endstop_home", "homing", "past_end", "endstop_off", "trigger"}
       => (ts[o].can => ts[o].expire_time)
  /\ Restart(o) => ~ts[o].expire_time /\ (es[o].time => ~ts[o].can)

\* The reason of the session is Hit exactly when the endstop fired it.
ReasonInv(o) ==
  /\ Session(o) => /\ ts[o].expire_reason = CommsTimeout
                   /\ hit[o] <=> ts[o].trigger_reason = Hit
  /\ host[o].at = "reset" => (hit[o] <=> host[o].reason = Hit)

\* A session that fired has stopped all steppers of the rail, and they stay stopped
\* until the host resets them, one by one, or gives up on them; those it has reset run
\* again only when the rail is at rest.
MotorInv(o) ==
  /\ Session(o) /\ ~ts[o].can => \A s \in Rail[o] : st[s].need_reset
  /\ host[o].at \in {"rest", "reset"} \/ Restart(o) =>
       \A s \in Rail[o] \ host[o].todo : ~st[s].need_reset
  /\ host[o].at \in {"rest", "reset"} => \A s \in host[o].todo : st[s].need_reset
  /\ host[o].at = "reset" =>
       \A s \in Rail[o] \ host[o].todo : st[s].count = 0 /\ (cmd = S!NoCmd \/ cmd.oid # s)

\* All that is known of a rail.
RailInv(o) == HostInv(o) /\ SignalInv(o) /\ FireInv(o) /\ ReasonInv(o) /\ MotorInv(o)

\* The inductive invariant: that of each part, and what connects them.
HomingInv ==
  /\ PartsInv
  /\ host \in [Rails -> HostState] /\ hit \in [Rails -> BOOLEAN]
  /\ \A o \in Rails : RailInv(o)

\* The types of the parts, in the terms of the composition.
LEMMA Types ==
  ASSUME HomingInv
  PROVE  /\ ts \in [Rails -> TP!TrsyncRecord] /\ func \in [Steppers -> BOOLEAN]
         /\ es \in [Rails -> EP!EndstopRecord]
         /\ st \in [Steppers -> SP!StepperRecord]
         /\ shut \in BOOLEAN
         /\ T!Oids = Rails /\ \A o \in Rails : Rail[o] \subseteq Steppers
<1>1. EP!TypeOK /\ TP!TypeOK /\ SP!TypeOK
  BY DEF HomingInv, PartsInv, EP!Inv, TP!Inv, SP!AllInv
<1> QED BY <1>1, HomingAssumption
     DEF EP!TypeOK, TP!TypeOK, SP!TypeOK, TP!Oids, T!Oids, Rails

\* What RailInv(o) looks at in the trsync of the rail.
TrsyncSame(o) ==
  /\ ts'[o].can = ts[o].can /\ ts'[o].signals = ts[o].signals
  /\ ts'[o].expire_time = ts[o].expire_time
  /\ ts'[o].expire_reason = ts[o].expire_reason
  /\ ts'[o].trigger_reason = ts[o].trigger_reason

\* An endstop that is not armed stays so, one that is keeps its trsync and reason.
EndstopSame(o) ==
  es'[o].time => /\ es[o].time /\ es'[o].ts = es[o].ts
                 /\ es'[o].trigger_reason = es[o].trigger_reason

\* No stepper of the rail is stopped or reset, and those that wait for the last of
\* note_homing_end get no move.
MotorSame(o) ==
  /\ \A s \in Rail[o] : st'[s].need_reset = st[s].need_reset
  /\ host[o].at = "reset" =>
       \A s \in Rail[o] \ host[o].todo :
         st'[s].count = st[s].count /\ (cmd' = S!NoCmd \/ cmd'.oid # s)

\* A rail none of this happens to.
LEMMA RailFrame ==
  ASSUME NEW o \in Rails, RailInv(o), host'[o] = host[o], hit'[o] = hit[o],
         TrsyncSame(o), EndstopSame(o), MotorSame(o)
  PROVE  RailInv(o)'
<1> USE DEF TrsyncSame
<1>1. HostInv(o)'
  BY DEF RailInv, HostInv
<1>2. SignalInv(o)'
  <2>1. T!OnSignals(o)' = T!OnSignals(o)
    BY DEF T!OnSignals
  <2> QED BY <2>1 DEF RailInv, SignalInv, Session
<1>3. FireInv(o)'
  BY DEF RailInv, FireInv, Restart, EndstopSame
<1>4. ReasonInv(o)'
  BY DEF RailInv, ReasonInv, Session
<1>5. MotorInv(o)'
  BY DEF RailInv, MotorInv, MotorSame, Session, Restart, HostInv
<1> QED BY <1>1, <1>2, <1>3, <1>4, <1>5 DEF RailInv

\* Steppers whose structs and whose command do not change.
LEMMA MotorsUnchanged ==
  ASSUME NEW o \in Rails, RailInv(o), cmd' = cmd, \A s \in Rail[o] : st'[s] = st[s]
  PROVE  MotorSame(o)
BY DEF MotorSame, RailInv, MotorInv

\* The auxiliary variable keeps its type.
LEMMA HitType ==
  ASSUME HomingInv, [Next]_vars
  PROVE  hit' \in [Rails -> BOOLEAN]
<1>1. \/ hit' = hit
      \/ \E o \in Rails : hit' = [hit EXCEPT ![o] = FALSE]
      \/ \E o \in Rails : hit' = [hit EXCEPT ![o] = @ \/ ts[o].can]
  BY DEF Next, HostStart, HostSetTimeout, HostEndstopHome, DispatchTimeout, DispatchTrigger,
     HostPastEnd, HostWaitEnd, HostEndstopOff, HostStop, RestartEndstop, RestartTrsync,
     EndstopFires, TrsyncExpires, HostRegister, HostReset, RestartReset, HostCrash,
     HostMove, MovePush, StepperTimer, EndstopSamples, TrsyncReports, Shutdown,
     ClearShutdown, HostFollows, hostVars, vars
<1>2. \A o \in Rails : ts[o].can \in BOOLEAN
  BY Types DEF TP!TrsyncRecord
<1> QED BY <1>1, <1>2 DEF HomingInv

\* A shutdown leaves every rail to a host that starts over.
LEMMA RestartRails ==
  ASSUME HomingInv, [Next]_vars, host' = Restarting, T!Shutdown, \E F : E!Shutdown(F)
  PROVE  \A o \in Rails : RailInv(o)'
<1>1. ASSUME NEW o \in Rails
      PROVE  RailInv(o)'
  <2>1. /\ ts'[o].signals = <<>> /\ ~ts'[o].expire_time /\ ~ts'[o].can
    <3>1. ts[o] \in TP!TrsyncRecord /\ ts'[o] = T!trsync_clear(ts[o])
      BY Types DEF T!Shutdown
    <3> QED BY <3>1 DEF T!trsync_clear, TP!TrsyncRecord
  <2>2. ~es'[o].time
    <3>1. es' \in [Rails -> EP!EndstopRecord]
      BY PartsNext DEF HomingInv, PartsInv, EP!Inv, EP!TypeOK
    <3>2. PICK F : es'[o] = [F[o] EXCEPT !.time = FALSE]
      BY DEF E!Shutdown
    <3>3. es'[o] \in EP!EndstopRecord
      BY <3>1
    <3> QED BY <3>2, <3>3 DEF EP!EndstopRecord
  <2>3. host'[o] = [at |-> "restart_reset", todo |-> Rail[o], reason |-> NoReason]
    BY DEF Restarting, Resting
  <2>4. HostInv(o)'
    BY <2>3, HitType, HomingAssumption DEF HostInv, HostState
  <2>5. T!OnSignals(o)' = {}
    BY <2>1 DEF T!OnSignals
  <2>6. SignalInv(o)' /\ FireInv(o)' /\ ReasonInv(o)' /\ MotorInv(o)'
    BY <2>1, <2>2, <2>3, <2>5
       DEF SignalInv, FireInv, ReasonInv, MotorInv, Session, Restart
  <2> QED BY <2>4, <2>6 DEF RailInv
<1> QED BY <1>1

\* The flag is only set by a shutdown of all parts.
LEMMA StopsRails ==
  ASSUME HomingInv, [Next]_vars, Stops
  PROVE  \A o \in Rails : RailInv(o)'
<1>0. ~shut /\ shut' /\ shut' # shut
  BY Types DEF Stops
<1>1. /\ host' = Restarting
      /\ T!Shutdown
      /\ \E F : E!Shutdown(F)
  <2> USE <1>0
  <2>1. ASSUME NEW o \in Rails, TrsyncActs(o)
        PROVE  host' = Restarting /\ T!Shutdown /\ E!Shutdown(es)
    <3>1. T!Shutdown
      BY <2>1, TrsyncActsParts DEF T!command_trsync_start, T!command_trsync_set_timeout,
           T!trsync_add_signal, T!vars
    <3>2. host' = Restarting
      BY <2>1 DEF Stops, TrsyncActs, HostStart, HostSetTimeout, DispatchTimeout,
                  RestartTrsync, HostRegister, HostFollows
    <3> QED BY <2>1, <3>1, <3>2, TrsyncActsParts DEF EndstopFollows, Stops
  <2>2. ASSUME NEW o \in Rails, EndstopActs(o)
        PROVE  host' = Restarting /\ T!Shutdown /\ \E F : E!Shutdown(F)
    <3>1. \E F : E!Shutdown(F)
      BY <2>2, EndstopActsParts DEF E!HomeOff, E!command_endstop_home
    <3>2. host' = Restarting
      BY <2>2 DEF Stops, EndstopActs, HostEndstopHome, HostEndstopOff, RestartEndstop,
                  HostFollows
    <3> QED BY <2>2, <3>1, <3>2, EndstopActsParts DEF TrsyncFollows, Stops
  <2>3. ASSUME NEW o \in Rails, TriggerActs(o) \/ EndstopFires(o) \/ TrsyncExpires(o)
        PROVE  FALSE
    BY <2>3, TriggerActsParts, TriggerFlag DEF EndstopFires, TrsyncExpires
  <2>4. ASSUME StepperActs
        PROVE  host' = Restarting /\ T!Shutdown /\ E!Shutdown(es)
    <3>1. host' = Restarting
      BY <2>4 DEF Stops, StepperActs, HostMove, MovePush, StepperTimer, HostReset,
                  RestartReset, HostFollows
    <3> QED BY <2>4, <3>1, StepperActsParts DEF TrsyncFollows, EndstopFollows, Stops
  <2>5. ASSUME \/ HostActs \/ EndstopSamples \/ TrsyncReports \/ UNCHANGED vars
               \/ ClearShutdown
        PROVE  FALSE
    <3>1. CASE HostActs \/ UNCHANGED vars \/ ClearShutdown
      BY <3>1 DEF HostActs, HostCrash, HostWaitEnd, vars, ClearShutdown, S!ClearShutdown
    <3>2. CASE EndstopSamples
      BY <3>2 DEF EndstopSamples, E!SampleMismatch, E!SampleMatch, E!PinChange,
                  E!EddyChange, E!PortChange
    <3>3. CASE TrsyncReports
      BY <3>3, TriggerFlag DEF TrsyncReports
    <3> QED BY <2>5, <3>1, <3>2, <3>3
  <2>6. ASSUME Shutdown
        PROVE  host' = Restarting /\ T!Shutdown /\ E!Shutdown(es)
    BY <2>6 DEF Shutdown
  <2> QED BY NextByPart, <2>1, <2>2, <2>3, <2>4, <2>5, <2>6
<1> QED BY <1>1, RestartRails

-----------------------------------------------------------------------------
\* What the commands of a trsync do to the structs, unless they end in a shutdown.

\* trsync_start opens a session that can fire, with nothing registered and no timeout.
LEMMA StartEffect ==
  ASSUME HomingInv, NEW o \in Rails, NEW b \in BOOLEAN, NEW p \in Reasons \cup {NoReason},
         T!command_trsync_start(o, b, p), ~Stops
  PROVE  /\ \A q \in Rails \ {o} : ts'[q] = ts[q]
         /\ ts'[o].can /\ ts'[o].signals = <<>> /\ ~ts'[o].expire_time
         /\ ts'[o].expire_reason = p /\ ts'[o].trigger_reason = NoReason
<1>1. ts \in [Rails -> TP!TrsyncRecord] /\ ts[o] \in TP!TrsyncRecord
  BY Types
<1> DEFINE r == T!trsync_clear(ts[o])
           n == [r EXCEPT !.can = TRUE, !.report_time = r.report_time \/ b,
                          !.expire_reason = p]
<1>2. ts' = [ts EXCEPT ![o] = n]
  BY DEF T!command_trsync_start, T!Command, T!Shutdown, Stops
<1>3. /\ r \in TP!TrsyncRecord
      /\ r.signals = <<>> /\ ~r.expire_time /\ r.trigger_reason = NoReason
  <2>1. <<>> \in Seq(Steppers)
    OBVIOUS
  <2>2. r \in TP!TrsyncRecord
    BY <1>1, <2>1 DEF T!trsync_clear, TP!TrsyncRecord
  <2> QED BY <1>1, <2>2 DEF T!trsync_clear, TP!TrsyncRecord
<1> HIDE DEF r
<1>4. /\ n.can /\ n.signals = <<>> /\ ~n.expire_time
      /\ n.expire_reason = p /\ n.trigger_reason = NoReason
  BY <1>3 DEF TP!TrsyncRecord
<1> HIDE DEF n
<1> QED BY <1>1, <1>2, <1>4

\* trsync_set_timeout sets the timeout of a session that can fire.
LEMMA TimeoutEffect ==
  ASSUME HomingInv, NEW o \in Rails, T!command_trsync_set_timeout(o), ~Stops
  PROVE  /\ \A q \in Rails \ {o} : ts'[q] = ts[q]
         /\ ts'[o].can = ts[o].can /\ ts'[o].signals = ts[o].signals
         /\ ts'[o].expire_reason = ts[o].expire_reason
         /\ ts'[o].trigger_reason = ts[o].trigger_reason
         /\ ts[o].can => ts'[o].expire_time
         /\ ~ts[o].can => ts'[o].expire_time = ts[o].expire_time
<1>1. ts \in [Rails -> TP!TrsyncRecord] /\ ts[o] \in TP!TrsyncRecord
  BY Types
<1>2. CASE ~ts[o].can
  BY <1>2 DEF T!command_trsync_set_timeout, T!vars
<1>3. CASE ts[o].can
  <2> DEFINE n == [[ts[o] EXCEPT !.expire_time = FALSE] EXCEPT !.expire_time = TRUE]
  <2>1. ts' = [ts EXCEPT ![o] = n]
    BY <1>3 DEF T!command_trsync_set_timeout, T!Command, T!Shutdown, T!CancelTimeout, Stops
  <2>2. /\ n.can = ts[o].can /\ n.signals = ts[o].signals /\ n.expire_time
        /\ n.expire_reason = ts[o].expire_reason /\ n.trigger_reason = ts[o].trigger_reason
    BY <1>1 DEF TP!TrsyncRecord
  <2> HIDE DEF n
  <2> QED BY <1>1, <1>3, <2>1, <2>2
<1> QED BY <1>2, <1>3

\* stepper_stop_on_trigger registers one stepper more.
LEMMA RegisterEffect ==
  ASSUME HomingInv, NEW o \in Rails, NEW s \in Steppers, T!trsync_add_signal(o, s), ~Stops
  PROVE  /\ \A q \in Rails \ {o} : ts'[q] = ts[q]
         /\ ts'[o].can = ts[o].can /\ T!OnSignals(o)' = T!OnSignals(o) \cup {s}
         /\ ts'[o].expire_time = ts[o].expire_time
         /\ ts'[o].expire_reason = ts[o].expire_reason
         /\ ts'[o].trigger_reason = ts[o].trigger_reason
<1>1. ts \in [Rails -> TP!TrsyncRecord] /\ ts[o] \in TP!TrsyncRecord
  BY Types
<1> DEFINE n == [ts[o] EXCEPT !.signals = <<s>> \o @]
<1>2. ts' = [ts EXCEPT ![o] = n]
  BY DEF T!trsync_add_signal, T!Command, T!Shutdown, Stops
<1>3. /\ n.can = ts[o].can /\ n.signals = <<s>> \o ts[o].signals
      /\ n.expire_time = ts[o].expire_time
      /\ n.expire_reason = ts[o].expire_reason /\ n.trigger_reason = ts[o].trigger_reason
  BY <1>1 DEF TP!TrsyncRecord
<1> HIDE DEF n
<1>4. ts'[o] = n /\ \A q \in Rails \ {o} : ts'[q] = ts[q]
  BY <1>1, <1>2
<1>5. T!OnSignals(o)' = T!OnSignals(o) \cup {s}
  <2> DEFINE old == ts[o].signals
             new == ts'[o].signals
  <2>1. old \in Seq(Steppers) /\ new = <<s>> \o old
    BY <1>1, <1>3, <1>4 DEF TP!TrsyncRecord
  <2>2. /\ Len(old) \in Nat /\ Len(new) = Len(old) + 1 /\ new[1] = s
        /\ \A i \in 2 .. Len(new) : new[i] = old[i - 1]
    BY <2>1
  <2>3. T!OnSignals(o) = {old[i] : i \in 1 .. Len(old)}
        /\ T!OnSignals(o)' = {new[i] : i \in 1 .. Len(new)}
    BY DEF T!OnSignals
  <2> HIDE DEF old, new
  <2>4. ASSUME NEW i \in 1 .. Len(new)
        PROVE  new[i] \in {old[j] : j \in 1 .. Len(old)} \cup {s}
    <3>1. CASE i = 1
      BY <3>1, <2>2
    <3>2. CASE i # 1
      <4>1. i \in 2 .. Len(new) /\ i - 1 \in 1 .. Len(old)
        BY <3>2, <2>2
      <4> QED BY <4>1, <2>2
    <3> QED BY <3>1, <3>2
  <2>5. ASSUME NEW j \in 1 .. Len(old)
        PROVE  old[j] \in {new[i] : i \in 1 .. Len(new)}
    <3>1. j + 1 \in 2 .. Len(new) /\ j + 1 \in 1 .. Len(new) /\ (j + 1) - 1 = j
      BY <2>2
    <3> QED BY <3>1, <2>2
  <2>6. s \in {new[i] : i \in 1 .. Len(new)}
    <3>1. 1 \in 1 .. Len(new)
      BY <2>2
    <3> QED BY <3>1, <2>2
  <2> QED BY <2>3, <2>4, <2>5, <2>6
<1> QED BY <1>3, <1>4, <1>5

\* Firing, with the reason p the caller gives: a session fires once.
FiredFor(o, p) ==
  /\ \A q \in Rails \ {o} : ts'[q] = ts[q]
  /\ ~ts'[o].can /\ ts'[o].signals = <<>>
  /\ ts'[o].expire_reason = ts[o].expire_reason
  /\ ts'[o].expire_time => ts[o].expire_time
  /\ ts'[o].trigger_reason = IF ts[o].can THEN p ELSE ts[o].trigger_reason

\* trsync_do_trigger, called from a command, an endstop or the timeout.
LEMMA FireEffect ==
  ASSUME HomingInv, NEW o \in Rails, NEW p,
         \/ T!command_trsync_trigger(o, p) \/ T!EndstopTrigger(o, p)
         \/ T!trsync_expire_event(o) /\ p = ts[o].expire_reason
  PROVE  FiredFor(o, p)
<1>1. /\ ts \in [Rails -> TP!TrsyncRecord] /\ ts[o] \in TP!TrsyncRecord
      /\ ts[o].signals # <<>> => ts[o].can
  BY Types DEF HomingInv, RailInv, SignalInv
<1> DEFINE f == T!Fired(ts[o], p)
<1>2. \E n : /\ ts' = [ts EXCEPT ![o] = n]
            /\ \/ n = [f EXCEPT !.can = FALSE, !.report = FALSE,
                                !.report_time = FALSE, !.expire_time = FALSE]
               \/ n = f \/ n = [f EXCEPT !.expire_time = FALSE]
  BY DEF T!command_trsync_trigger, T!EndstopTrigger, T!trsync_expire_event
<1>3. /\ ~f.can /\ f.signals = <<>> /\ f.expire_reason = ts[o].expire_reason
      /\ f.expire_time = ts[o].expire_time
      /\ f.trigger_reason = IF ts[o].can THEN p ELSE ts[o].trigger_reason
      /\ DOMAIN f = DOMAIN ts[o]
  <2>1. CASE ts[o].can
    BY <2>1, <1>1 DEF T!Fired, TP!TrsyncRecord
  <2>2. CASE ~ts[o].can
    BY <2>2, <1>1 DEF T!Fired, TP!TrsyncRecord
  <2> QED BY <2>1, <2>2
<1> HIDE DEF f
<1>4. DOMAIN ts[o] = {"can", "report", "trigger_reason", "expire_reason", "signals",
                      "report_time", "expire_time"}
  BY <1>1 DEF TP!TrsyncRecord
<1>5. PICK n : /\ ts' = [ts EXCEPT ![o] = n]
               /\ \/ n = [f EXCEPT !.can = FALSE, !.report = FALSE,
                                   !.report_time = FALSE, !.expire_time = FALSE]
                  \/ n = f \/ n = [f EXCEPT !.expire_time = FALSE]
  BY <1>2
<1>6. /\ ~n.can /\ n.signals = <<>> /\ n.expire_reason = f.expire_reason
      /\ n.expire_time => f.expire_time
      /\ n.trigger_reason = f.trigger_reason
  BY <1>3, <1>4, <1>5
<1> QED BY <1>1, <1>3, <1>5, <1>6 DEF FiredFor

\* The steppers of a session that fires are those of its rail, all of them once they
\* are registered; no others are touched.
LEMMA StopEffect ==
  ASSUME HomingInv, NEW o \in Rails, S!StopSteppers(T!Called(o))
  PROVE  /\ \A s \in T!Called(o) : /\ s \in Steppers
                                  /\ st'[s].need_reset /\ ~st'[s].sched
                                  /\ st'[s].count = 0 /\ st'[s].mq = <<>>
         /\ \A q \in Rails \ {o} : \A s \in Rail[q] : st'[s] = st[s]
         /\ \A s \in Rail[o] \ T!Called(o) : st'[s] = st[s]
<1>1. T!Called(o) \subseteq Rail[o] /\ Rail[o] \subseteq Steppers
  BY Types DEF T!Called, HomingInv, RailInv, SignalInv
<1>2. ASSUME NEW s \in T!Called(o)
      PROVE  /\ s \in Steppers /\ st'[s].need_reset /\ ~st'[s].sched
             /\ st'[s].count = 0 /\ st'[s].mq = <<>>
  <2>1. s \in Steppers /\ st[s] \in SP!StepperRecord /\ st'[s] = S!stepper_stop(s, st[s])
    BY <1>1, Types DEF S!StopSteppers
  <2> QED BY <2>1 DEF S!stepper_stop, SP!StepperRecord
<1>3. \A s \in Steppers \ T!Called(o) : st'[s] = st[s]
  BY DEF S!StopSteppers
<1>4. \A q \in Rails \ {o} : \A s \in Rail[q] : s \in Steppers /\ s \notin Rail[o]
  BY HomingAssumption, Types
<1> QED BY <1>1, <1>2, <1>3, <1>4

\* A session that fires stops its rail: then every stepper waits for a reset, and a
\* rail that is not in a session keeps its steppers as they are.
LEMMA FireStopsRail ==
  ASSUME HomingInv, NEW o \in Rails, S!StopSteppers(T!Called(o)),
         host[o].at \notin {"register", "set_timeout"},
         Restart(o) => ~ts[o].can
  PROVE  /\ Session(o) => \A s \in Rail[o] : st'[s].need_reset
         /\ ~Session(o) => \A s \in Rail[o] : st'[s] = st[s]
<1>0. HostInv(o) /\ SignalInv(o) /\ FireInv(o) /\ MotorInv(o)
  BY DEF HomingInv, RailInv
<1>1. CASE Session(o)
  <2>1. host[o].todo = {}
    BY <1>0, <1>1 DEF HostInv, Session
  <2>2. CASE ts[o].can
    <3>1. T!Called(o) = Rail[o]
      BY <1>0, <1>1, <2>1, <2>2 DEF T!Called, SignalInv
    <3> QED BY <1>1, <3>1, StopEffect
  <2>3. CASE ~ts[o].can
    <3>1. T!Called(o) = {} /\ \A s \in Rail[o] : st[s].need_reset
      BY <1>0, <1>1, <2>3 DEF T!Called, MotorInv
    <3> QED BY <1>1, <3>1, StopEffect
  <2> QED BY <2>2, <2>3
<1>2. CASE ~Session(o)
  <2>1. host[o].at \in {"rest", "reset"} \/ Restart(o)
    BY <1>0, <1>2 DEF HostInv, HostState, Session, Restart
  <2>2. CASE host[o].at \in {"rest", "reset"}
    <3>1. T!OnSignals(o) = {}
      BY <1>0, <2>2 DEF SignalInv, T!OnSignals
    <3>2. T!Called(o) = {}
      BY <3>1 DEF T!Called
    <3> QED BY <1>2, <3>2, StopEffect
  <2>3. CASE Restart(o)
    <3>1. T!Called(o) = {}
      BY <2>3 DEF T!Called
    <3> QED BY <1>2, <3>1, StopEffect
  <2> QED BY <2>1, <2>2, <2>3
<1> QED BY <1>1, <1>2

\* The other rails when the session of rail o fires.
LEMMA FireOthers ==
  ASSUME HomingInv, NEW o \in Rails, NEW p, FiredFor(o, p), S!StopSteppers(T!Called(o)),
         cmd' = cmd, NEW q \in Rails \ {o},
         host'[q] = host[q], hit'[q] = hit[q], EndstopSame(q)
  PROVE  RailInv(q)'
<1>1. RailInv(q) /\ TrsyncSame(q)
  BY DEF HomingInv, FiredFor, TrsyncSame
<1>2. MotorSame(q)
  BY <1>1, StopEffect, MotorsUnchanged
<1> QED BY <1>1, <1>2, RailFrame

\* The timeout.
LEMMA ExpiresRails ==
  ASSUME HomingInv, NEW o \in Rails, TrsyncExpires(o)
  PROVE  \A q \in Rails : RailInv(q)'
<1> DEFINE p == ts[o].expire_reason
<1>0. /\ T!trsync_expire_event(o) /\ S!StopSteppers(T!Called(o)) /\ cmd' = cmd
      /\ es' = es /\ host' = host /\ hit' = hit
  BY DEF TrsyncExpires, endstopVars, hostVars
<1>1. FiredFor(o, p) /\ ts[o].expire_time /\ ~ts'[o].expire_time
  <2>1. ts[o].expire_time /\ ts[o] \in TP!TrsyncRecord /\ ts \in [Rails -> TP!TrsyncRecord]
    BY <1>0, Types DEF T!trsync_expire_event
  <2>2. ts'[o] = [T!Fired(ts[o], p) EXCEPT !.expire_time = FALSE]
    BY <1>0, <2>1 DEF T!trsync_expire_event
  <2>3. "expire_time" \in DOMAIN T!Fired(ts[o], p)
    BY <2>1 DEF T!Fired, TP!TrsyncRecord
  <2> QED BY <1>0, <2>1, <2>2, <2>3, FireEffect
<1>2. ASSUME NEW q \in Rails \ {o}
      PROVE  RailInv(q)'
  BY <1>0, <1>1, FireOthers DEF EndstopSame
<1>3. RailInv(o)'
  <2>0. HostInv(o) /\ SignalInv(o) /\ FireInv(o) /\ ReasonInv(o) /\ MotorInv(o)
    BY DEF HomingInv, RailInv
  <2>1. host[o].at \notin {"register", "set_timeout"} /\ ~Restart(o)
    BY <1>1, <2>0 DEF FireInv
  <2>2. /\ Session(o) => \A s \in Rail[o] : st'[s].need_reset
        /\ ~Session(o) => \A s \in Rail[o] : st'[s] = st[s]
    BY <1>0, <2>1, FireStopsRail
  <2>3. T!OnSignals(o)' = {}
    BY <1>1 DEF T!OnSignals, FiredFor
  <2>4. ts[o].can => ts[o].trigger_reason = NoReason
    BY Types DEF HomingInv, PartsInv, TP!Inv, TP!SessionInv, TP!Oids, T!Oids
  <2>5. HostInv(o)' /\ SignalInv(o)'
    BY <1>0, <1>1, <2>0, <2>3 DEF HostInv, SignalInv, FiredFor
  <2>6. FireInv(o)'
    BY <1>0, <1>1, <2>0, <2>1 DEF FireInv, Restart, FiredFor
  <2>7. ReasonInv(o)'
    BY <1>0, <1>1, <2>0, <2>4, HomingAssumption DEF ReasonInv, Session, FiredFor, Reasons
  <2>8. MotorInv(o)'
    BY <1>0, <2>0, <2>2 DEF MotorInv, Session, Restart, HostInv
  <2> QED BY <2>5, <2>6, <2>7, <2>8 DEF RailInv
<1> QED BY <1>2, <1>3

\* The endstop: only this gives a session the reason Hit.
LEMMA FiresRails ==
  ASSUME HomingInv, NEW o \in Rails, EndstopFires(o)
  PROVE  \A q \in Rails : RailInv(q)'
<1>0. HostInv(o) /\ SignalInv(o) /\ FireInv(o) /\ ReasonInv(o) /\ MotorInv(o)
  BY DEF HomingInv, RailInv
<1>1. es[o].time /\ es[o].ts = o /\ es[o].trigger_reason = Hit
  BY <1>0 DEF EndstopFires, E!SampleTriggers, FireInv
<1>2. /\ T!EndstopTrigger(o, Hit) /\ S!StopSteppers(T!Called(o)) /\ cmd' = cmd
      /\ host' = host /\ hit' = [hit EXCEPT ![o] = @ \/ ts[o].can]
  BY <1>1 DEF EndstopFires
<1>3. FiredFor(o, Hit)
  BY <1>2, FireEffect
<1>4. ~es'[o].time /\ \A q \in Rails \ {o} : es'[q] = es[q]
  BY Types DEF EndstopFires, E!SampleTriggers, EP!EndstopRecord
<1>5. hit'[o] = (hit[o] \/ ts[o].can) /\ \A q \in Rails \ {o} : hit'[q] = hit[q]
  BY <1>2 DEF HomingInv
<1>6. ASSUME NEW q \in Rails \ {o}
      PROVE  RailInv(q)'
  BY <1>2, <1>3, <1>4, <1>5, FireOthers DEF EndstopSame
<1>7. RailInv(o)'
  <2>1. /\ host[o].at \notin {"register", "set_timeout", "reset"}
        /\ Restart(o) => ~ts[o].can
    BY <1>0, <1>1 DEF FireInv
  <2>2. /\ Session(o) => \A s \in Rail[o] : st'[s].need_reset
        /\ ~Session(o) => \A s \in Rail[o] : st'[s] = st[s]
    BY <1>2, <2>1, FireStopsRail
  <2>3. T!OnSignals(o)' = {}
    BY <1>3 DEF T!OnSignals, FiredFor
  <2>4. ts[o].can \in BOOLEAN /\ hit[o] \in BOOLEAN
    BY Types DEF TP!TrsyncRecord, HomingInv
  <2>5. HostInv(o)'
    BY <1>0, <1>2, <1>5, <2>4 DEF HostInv
  <2>6. SignalInv(o)'
    BY <1>0, <1>2, <1>3, <2>3 DEF SignalInv, FiredFor
  <2>7. FireInv(o)'
    BY <1>0, <1>2, <1>3, <1>4, <2>1 DEF FireInv, Restart, FiredFor
  <2>8. ReasonInv(o)'
    BY <1>0, <1>2, <1>3, <1>5, <2>1, <2>4 DEF ReasonInv, Session, FiredFor
  <2>9. MotorInv(o)'
    BY <1>0, <1>2, <2>1, <2>2 DEF MotorInv, Session, Restart, HostInv
  <2> QED BY <2>5, <2>6, <2>7, <2>8, <2>9 DEF RailInv
<1> QED BY <1>6, <1>7

-----------------------------------------------------------------------------
\* The host's sequence.

\* The host of rail o is now at where, with todo to deal with.
Gone(o, where, todo) ==
  /\ \A q \in Rails \ {o} : host'[q] = host[q]
  /\ host'[o].at = where /\ host'[o].todo = todo /\ host'[o].reason = host[o].reason
  /\ host'[o] = [at |-> where, todo |-> todo, reason |-> host[o].reason]

\* The host goes on to another place.
LEMMA GoesEffect ==
  ASSUME HomingInv, NEW o \in Rails, NEW where, NEW todo, host' = Goes(o, where, todo)
  PROVE  Gone(o, where, todo)
<1>1. host \in [Rails -> HostState] /\ host[o] \in HostState
  BY DEF HomingInv
<1>2. host'[o] = [host[o] EXCEPT !.at = where, !.todo = todo]
  BY <1>1 DEF Goes
<1>3. \A q \in Rails \ {o} : host'[q] = host[q]
  BY <1>1 DEF Goes
<1> QED BY <1>1, <1>2, <1>3 DEF HostState, Gone

\* It has dealt with one more stepper.
LEMMA NextOfEffect ==
  ASSUME HomingInv, NEW o \in Rails, NEW s, NEW where, host' = NextOf(o, s, where)
  PROVE  Gone(o, IF host[o].todo \ {s} = {} THEN where ELSE host[o].at, host[o].todo \ {s})
<1>1. CASE host[o].todo \ {s} = {}
  <2>1. Gone(o, where, {})
    BY <1>1, GoesEffect DEF NextOf
  <2> QED BY <1>1, <2>1
<1>2. CASE host[o].todo \ {s} # {}
  <2>1. Gone(o, host[o].at, host[o].todo \ {s})
    BY <1>2, GoesEffect DEF NextOf
  <2> QED BY <1>2, <2>1
<1> QED BY <1>1, <1>2

\* Wherever it goes, it deals with steppers of its rail.
LEMMA HostGoes ==
  ASSUME NEW o \in Rails, HostInv(o), hit'[o] \in BOOLEAN,
         NEW where \in {"rest", "register", "set_timeout", "endstop_home", "homing",
                        "past_end", "endstop_off", "trigger", "reset",
                        "restart_reset", "restart_endstop", "restart_trsync"},
         NEW todo \in SUBSET Rail[o], Gone(o, where, todo),
         todo # {} => where \in {"register", "reset", "restart_reset", "rest"}
  PROVE  HostInv(o)'
<1>1. todo \in SUBSET Steppers
  BY HomingAssumption
<1>2. host[o].reason \in Reasons \cup {NoReason}
  BY DEF HostInv, HostState
<1> QED BY <1>1, <1>2 DEF HostInv, HostState, Gone

\* The commands for a trsync.
LEMMA TrsyncActsRails ==
  ASSUME HomingInv, NEW o \in Rails, TrsyncActs(o), ~Stops
  PROVE  \A q \in Rails : RailInv(q)'
<1>0. /\ HostInv(o) /\ SignalInv(o) /\ FireInv(o) /\ ReasonInv(o) /\ MotorInv(o)
      /\ host[o].reason \in Reasons \cup {NoReason}
  BY DEF HomingInv, RailInv, HostInv, HostState
<1>1. st' = st /\ cmd' = cmd /\ es' = es
  BY TrsyncActsParts DEF StepperFollows, EndstopFollows, stepperVars, endstopVars
<1>2. Rail[o] \subseteq Steppers /\ {CommsTimeout, NoReason} \subseteq Reasons \cup {NoReason}
  BY Types DEF Reasons
<1>3. ASSUME NEW q \in Rails \ {o}, ts'[q] = ts[q], host'[q] = host[q], hit'[q] = hit[q]
      PROVE  RailInv(q)'
  BY <1>1, <1>3, RailFrame, MotorsUnchanged DEF HomingInv, TrsyncSame, EndstopSame
<1>4. CASE HostStart(o)
  <2>1. /\ \A q \in Rails \ {o} : ts'[q] = ts[q]
        /\ ts'[o].can /\ ts'[o].signals = <<>> /\ ~ts'[o].expire_time
        /\ ts'[o].expire_reason = CommsTimeout /\ ts'[o].trigger_reason = NoReason
    BY <1>2, <1>4, StartEffect DEF HostStart
  <2>2. host[o].at = "rest" /\ host' = Goes(o, "register", Rail[o])
    BY <1>4 DEF HostStart, At
  <2>3. hit'[o] = FALSE /\ \A q \in Rails \ {o} : hit'[q] = hit[q]
    BY <1>4 DEF HostStart, HomingInv
  <2>4. /\ \A q \in Rails \ {o} : host'[q] = host[q]
        /\ host'[o].at = "register" /\ host'[o].todo = Rail[o]
    BY <2>2, GoesEffect DEF Gone
  <2>5. HostInv(o)'
    <3>1. Gone(o, "register", Rail[o]) /\ hit'[o] \in BOOLEAN
      BY <2>2, <2>3, GoesEffect
    <3> QED BY <1>0, <3>1, HostGoes
  <2>6. SignalInv(o)'
    <3>1. T!OnSignals(o)' = {}
      BY <2>1 DEF T!OnSignals
    <3> QED BY <2>1, <2>4, <3>1 DEF SignalInv
  <2>7. FireInv(o)'
    BY <1>0, <1>1, <2>1, <2>2, <2>4 DEF FireInv, Restart
  <2>8. ReasonInv(o)'
    BY <2>1, <2>3, <2>4, HomingAssumption DEF ReasonInv, Reasons
  <2>9. MotorInv(o)'
    BY <2>1, <2>4 DEF MotorInv, Restart
  <2> QED BY <1>3, <2>1, <2>3, <2>4, <2>5, <2>6, <2>7, <2>8, <2>9 DEF RailInv
<1>5. ASSUME NEW s \in Rail[o], HostRegister(o, s)
      PROVE  \A q \in Rails : RailInv(q)'
  <2>1. /\ \A q \in Rails \ {o} : ts'[q] = ts[q]
        /\ ts'[o].can = ts[o].can /\ T!OnSignals(o)' = T!OnSignals(o) \cup {s}
        /\ ts'[o].expire_time = ts[o].expire_time
        /\ ts'[o].expire_reason = ts[o].expire_reason
        /\ ts'[o].trigger_reason = ts[o].trigger_reason
    BY <1>2, <1>5, RegisterEffect DEF HostRegister
  <2>2. /\ host[o].at = "register" /\ s \in host[o].todo
        /\ host' = NextOf(o, s, "set_timeout") /\ hit' = hit
    BY <1>5 DEF HostRegister, At, HostFollows
  <2>3. /\ \A q \in Rails \ {o} : host'[q] = host[q]
        /\ host'[o].at \in {"register", "set_timeout"}
        /\ host'[o].todo = host[o].todo \ {s} /\ host'[o].reason = host[o].reason
        /\ host'[o].at = "set_timeout" => host'[o].todo = {}
        /\ Gone(o, host'[o].at, host'[o].todo)
    BY <2>2, NextOfEffect DEF Gone
  <2>4. HostInv(o)'
    <3>1. host'[o].todo \in SUBSET Rail[o] /\ hit'[o] \in BOOLEAN
      BY <1>0, <2>2, <2>3 DEF HostInv
    <3> QED BY <1>0, <2>3, <3>1, HostGoes
  <2>5. SignalInv(o)'
    BY <1>0, <2>1, <2>2, <2>3 DEF SignalInv, FireInv, Session, HostInv
  <2>6. FireInv(o)'
    BY <1>0, <1>1, <2>1, <2>2, <2>3 DEF FireInv, Restart
  <2>7. ReasonInv(o)'
    BY <1>0, <2>1, <2>2, <2>3 DEF ReasonInv, Session
  <2>8. MotorInv(o)'
    BY <1>0, <2>1, <2>2, <2>3 DEF MotorInv, FireInv, Restart
  <2> QED BY <1>3, <2>1, <2>2, <2>3, <2>4, <2>5, <2>6, <2>7, <2>8 DEF RailInv
<1>6. CASE HostSetTimeout(o) \/ DispatchTimeout(o)
  <2>1. /\ \A q \in Rails \ {o} : ts'[q] = ts[q]
        /\ ts'[o].can = ts[o].can /\ ts'[o].signals = ts[o].signals
        /\ ts'[o].expire_reason = ts[o].expire_reason
        /\ ts'[o].trigger_reason = ts[o].trigger_reason
        /\ ts[o].can => ts'[o].expire_time
        /\ ~ts[o].can => ts'[o].expire_time = ts[o].expire_time
    BY <1>6, TimeoutEffect DEF HostSetTimeout, DispatchTimeout
  <2>2. /\ \/ host[o].at = "set_timeout" /\ host' = Goes(o, "endstop_home", {})
           \/ /\ host[o].at \in {"endstop_home", "homing", "past_end", "endstop_off"}
              /\ host' = host
        /\ hit' = hit
    BY <1>6 DEF HostSetTimeout, DispatchTimeout, At, HostFollows, Dispatching
  <2>3. /\ \A q \in Rails \ {o} : host'[q] = host[q]
        /\ host'[o].at \in {"endstop_home", "homing", "past_end", "endstop_off"}
        /\ host'[o].todo = {} /\ host'[o].reason = host[o].reason
        /\ host[o].at = "set_timeout" \/ host'[o].at = host[o].at
        /\ host[o].at \in {"set_timeout", "endstop_home", "homing", "past_end", "endstop_off"}
        /\ host[o].todo = {}
    <3>1. host[o].todo = {}
      BY <1>0, <2>2 DEF HostInv
    <3>2. host' = Goes(o, "endstop_home", {}) => Gone(o, "endstop_home", {})
      BY GoesEffect
    <3> QED BY <2>2, <3>1, <3>2 DEF Gone
  <2>4. HostInv(o)'
    <3>1. CASE host' = host
      BY <1>0, <2>2, <3>1 DEF HostInv
    <3>2. CASE host' = Goes(o, "endstop_home", {})
      <4>1. Gone(o, "endstop_home", {}) /\ hit'[o] \in BOOLEAN
        BY <1>0, <2>2, <3>2, GoesEffect DEF HostInv
      <4> QED BY <1>0, <4>1, HostGoes
    <3> QED BY <2>2, <3>1, <3>2
  <2>5. SignalInv(o)'
    <3>1. T!OnSignals(o)' = T!OnSignals(o)
      BY <2>1 DEF T!OnSignals
    <3> QED BY <1>0, <2>1, <2>3, <3>1 DEF SignalInv, Session
  <2>6. FireInv(o)'
    BY <1>0, <1>1, <2>1, <2>3 DEF FireInv, Restart
  <2>7. ReasonInv(o)'
    BY <1>0, <2>1, <2>2, <2>3 DEF ReasonInv, Session
  <2>8. MotorInv(o)'
    BY <1>0, <1>1, <2>1, <2>3 DEF MotorInv, Session, Restart
  <2> QED BY <1>3, <2>1, <2>2, <2>3, <2>4, <2>5, <2>6, <2>7, <2>8 DEF RailInv
<1>7. CASE RestartTrsync(o)
  <2>1. /\ \A q \in Rails \ {o} : ts'[q] = ts[q]
        /\ ts'[o].can /\ ts'[o].signals = <<>> /\ ~ts'[o].expire_time
    BY <1>2, <1>7, StartEffect DEF RestartTrsync
  <2>2. /\ host[o].at = "restart_trsync" /\ host' = Goes(o, "rest", {}) /\ hit' = hit
        /\ host[o].todo = {}
    BY <1>0, <1>7 DEF RestartTrsync, At, HostFollows, HostInv
  <2>3. /\ \A q \in Rails \ {o} : host'[q] = host[q]
        /\ host'[o].at = "rest" /\ host'[o].todo = {}
    BY <2>2, GoesEffect DEF Gone
  <2>4. HostInv(o)'
    <3>1. Gone(o, "rest", {}) /\ hit'[o] \in BOOLEAN
      BY <1>0, <2>2, GoesEffect DEF HostInv
    <3> QED BY <1>0, <3>1, HostGoes
  <2>5. SignalInv(o)'
    <3>1. T!OnSignals(o)' = {}
      BY <2>1 DEF T!OnSignals
    <3> QED BY <2>1, <2>3, <3>1 DEF SignalInv, Session
  <2>6. FireInv(o)'
    BY <1>0, <1>1, <2>1, <2>2, <2>3 DEF FireInv, Restart
  <2>7. ReasonInv(o)' /\ MotorInv(o)'
    BY <1>0, <1>1, <2>2, <2>3 DEF ReasonInv, MotorInv, Session, Restart
  <2> QED BY <1>3, <2>1, <2>2, <2>3, <2>4, <2>5, <2>6, <2>7 DEF RailInv
<1> QED BY <1>4, <1>5, <1>6, <1>7 DEF TrsyncActs

\* The commands for an endstop.
LEMMA EndstopActsRails ==
  ASSUME HomingInv, NEW o \in Rails, EndstopActs(o), ~Stops
  PROVE  \A q \in Rails : RailInv(q)'
<1>0. HostInv(o) /\ SignalInv(o) /\ FireInv(o) /\ ReasonInv(o) /\ MotorInv(o)
  BY DEF HomingInv, RailInv
<1>1. st' = st /\ cmd' = cmd /\ ts' = ts
  BY EndstopActsParts DEF StepperFollows, TrsyncFollows, stepperVars, trsyncVars
<1>2. T!OnSignals(o)' = T!OnSignals(o)
  BY <1>1 DEF T!OnSignals
<1>3. ASSUME NEW q \in Rails \ {o}, es'[q] = es[q], host'[q] = host[q], hit'[q] = hit[q]
      PROVE  RailInv(q)'
  BY <1>1, <1>3, RailFrame, MotorsUnchanged DEF HomingInv, TrsyncSame, EndstopSame
<1>4. CASE HostEndstopHome(o)
  <2>1. /\ es'[o].ts = o /\ es'[o].trigger_reason = Hit
        /\ \A q \in Rails \ {o} : es'[q] = es[q]
    <3>1. es' = [es EXCEPT ![o] = E!HomeStruct(@, MaxSamples, FALSE, o, Hit)]
      BY <1>4 DEF HostEndstopHome, E!command_endstop_home, E!Shutdown, Stops
    <3> QED BY <3>1, Types DEF E!HomeStruct, EP!EndstopRecord
  <2>2. /\ host[o].at = "endstop_home" /\ Gone(o, "homing", {}) /\ hit' = hit
        /\ host[o].todo = {}
    BY <1>0, <1>4, GoesEffect DEF HostEndstopHome, At, HostFollows, HostInv
  <2>3. HostInv(o)'
    <3>1. hit'[o] \in BOOLEAN
      BY <1>0, <2>2 DEF HostInv
    <3> QED BY <1>0, <2>2, <3>1, HostGoes
  <2>4. SignalInv(o)' /\ FireInv(o)' /\ ReasonInv(o)' /\ MotorInv(o)'
    BY <1>0, <1>1, <1>2, <2>1, <2>2
       DEF SignalInv, FireInv, ReasonInv, MotorInv, Session, Restart, Gone
  <2> QED BY <1>3, <2>1, <2>2, <2>3, <2>4 DEF RailInv, Gone
<1>5. CASE HostEndstopOff(o) \/ RestartEndstop(o)
  <2>1. ~es'[o].time /\ \A q \in Rails \ {o} : es'[q] = es[q]
    <3>1. E!HomeOff(o)
      BY <1>5 DEF HostEndstopOff, RestartEndstop
    <3> QED BY <3>1, Types DEF E!HomeOff, EP!EndstopRecord
  <2>2. /\ \/ host[o].at = "endstop_off" /\ Gone(o, "trigger", {})
           \/ host[o].at = "restart_endstop" /\ Gone(o, "restart_trsync", {})
        /\ hit' = hit /\ host[o].todo = {}
    BY <1>0, <1>5, GoesEffect DEF HostEndstopOff, RestartEndstop, At, HostFollows, HostInv
  <2>3. HostInv(o)'
    <3>1. hit'[o] \in BOOLEAN
      BY <1>0, <2>2 DEF HostInv
    <3> QED BY <1>0, <2>2, <3>1, HostGoes
  <2>4. SignalInv(o)' /\ FireInv(o)' /\ ReasonInv(o)' /\ MotorInv(o)'
    BY <1>0, <1>1, <1>2, <2>1, <2>2
       DEF SignalInv, FireInv, ReasonInv, MotorInv, Session, Restart, Gone
  <2> QED BY <1>3, <2>1, <2>2, <2>3, <2>4 DEF RailInv, Gone
<1> QED BY <1>4, <1>5 DEF EndstopActs

\* The host's trsync_trigger: the reason it reads at the end of the session is that of
\* the trigger that came first.
LEMMA TriggerActsRails ==
  ASSUME HomingInv, NEW o \in Rails, TriggerActs(o), ~Stops
  PROVE  \A q \in Rails : RailInv(q)'
<1>0. HostInv(o) /\ SignalInv(o) /\ FireInv(o) /\ ReasonInv(o) /\ MotorInv(o)
  BY DEF HomingInv, RailInv
<1>1. PICK p \in {HostRequest, PastEnd} : T!command_trsync_trigger(o, p)
  BY DEF TriggerActs, DispatchTrigger, HostPastEnd, HostStop, TrsyncTrigger
<1>2. S!StopSteppers(T!Called(o)) /\ cmd' = cmd /\ es' = es /\ hit' = hit
  BY TriggerActsParts
     DEF endstopVars, TriggerActs, DispatchTrigger, HostPastEnd, HostStop, HostFollows
<1>3. FiredFor(o, p)
  BY <1>1, FireEffect
<1>4. /\ host[o].at \in {"endstop_home", "homing", "past_end", "endstop_off", "trigger"}
      /\ \/ host' = host
         \/ host[o].at = "homing" /\ Gone(o, "past_end", {})
         \/ host[o].at = "trigger" /\ Gone(o, "rest", Rail[o])
         \/ /\ host[o].at = "trigger"
            /\ host' = [Goes(o, "reset", Rail[o])
                          EXCEPT ![o].reason = ts'[o].trigger_reason]
  BY GoesEffect DEF TriggerActs, DispatchTrigger, HostPastEnd, HostStop, HostFollows, At,
                    Dispatching
<1>5. /\ \A q \in Rails \ {o} : host'[q] = host[q]
      /\ \/ host'[o] = host[o]
         \/ host[o].at = "homing" /\ Gone(o, "past_end", {})
         \/ host[o].at = "trigger" /\ Gone(o, "rest", Rail[o])
         \/ /\ host[o].at = "trigger"
            /\ host'[o] = [at |-> "reset", todo |-> Rail[o], reason |-> ts'[o].trigger_reason]
  <2>1. CASE host' = [Goes(o, "reset", Rail[o])
                        EXCEPT ![o].reason = ts'[o].trigger_reason]
    <3>1. host \in [Rails -> HostState] /\ host[o] \in HostState
      BY DEF HomingInv
    <3> DEFINE g == Goes(o, "reset", Rail[o])
               h == [host[o] EXCEPT !.at = "reset", !.todo = Rail[o]]
    <3>2. g[o] = h /\ DOMAIN g = Rails /\ \A q \in Rails \ {o} : g[q] = host[q]
      BY <3>1 DEF Goes
    <3>3. /\ h.at = "reset" /\ h.todo = Rail[o]
          /\ h = [at |-> h.at, todo |-> h.todo, reason |-> h.reason]
      <4>1. h \in HostState
        BY <3>1, Types DEF HostState
      <4>2. h.at = "reset" /\ h.todo = Rail[o]
        BY <3>1 DEF HostState
      <4> HIDE DEF h
      <4> QED BY <4>1, <4>2 DEF HostState
    <3> HIDE DEF g, h
    <3>4. host' = [g EXCEPT ![o].reason = ts'[o].trigger_reason]
      BY <2>1 DEF g
    <3>5. host'[o] = [h EXCEPT !.reason = ts'[o].trigger_reason]
          /\ \A q \in Rails \ {o} : host'[q] = host[q]
      BY <3>2, <3>4
    <3>6. host'[o] = [at |-> "reset", todo |-> Rail[o], reason |-> ts'[o].trigger_reason]
      BY <3>3, <3>5
    <3> QED BY <1>4, <2>1, <3>5, <3>6 DEF Gone
  <2> QED BY <1>4, <2>1 DEF Gone
<1>6. ASSUME NEW q \in Rails \ {o}
      PROVE  RailInv(q)'
  BY <1>2, <1>3, <1>5, FireOthers DEF EndstopSame
<1>7. RailInv(o)'
  <2>1. /\ Session(o) /\ host[o].todo = {} /\ ~Restart(o)
        /\ host[o].at \notin {"register", "set_timeout"}
    BY <1>0, <1>4 DEF Session, Restart, HostInv
  <2>2. \A s \in Rail[o] : st'[s].need_reset
    BY <1>2, <2>1, FireStopsRail
  <2>3. T!OnSignals(o)' = {}
    BY <1>3 DEF T!OnSignals, FiredFor
  <2>4. /\ ts[o].can => ts[o].trigger_reason = NoReason
        /\ ts[o].trigger_reason \in Reasons \cup {NoReason}
    BY Types DEF HomingInv, PartsInv, TP!Inv, TP!SessionInv, TP!Oids, T!Oids, TP!TrsyncRecord
  <2>5. HostInv(o)'
    <3>1. hit'[o] \in BOOLEAN
      BY <1>0, <1>2 DEF HostInv
    <3>2. CASE host'[o] = host[o]
      BY <1>0, <1>2, <3>2 DEF HostInv
    <3>3. CASE Gone(o, "past_end", {}) \/ Gone(o, "rest", Rail[o])
      BY <1>0, <3>1, <3>3, HostGoes
    <3>4. CASE host'[o] = [at |-> "reset", todo |-> Rail[o], reason |-> ts'[o].trigger_reason]
      <4>1. ts'[o].trigger_reason \in Reasons \cup {NoReason}
        BY <1>3, <2>4 DEF FiredFor, Reasons
      <4> QED BY <3>1, <3>4, <4>1, Types DEF HostInv, HostState
    <3> QED BY <1>5, <3>2, <3>3, <3>4
  <2>6. SignalInv(o)'
    BY <1>3, <2>3 DEF SignalInv, FiredFor
  <2>7. FireInv(o)'
    <3>1. es[o].time => host[o].at # "trigger"
      BY <1>0 DEF FireInv
    <3> QED BY <1>0, <1>2, <1>3, <1>4, <1>5, <3>1 DEF FireInv, Restart, FiredFor, Gone
  <2>8. hit[o] <=> ts'[o].trigger_reason = Hit
    BY <1>0, <1>3, <2>1, <2>4, HomingAssumption DEF ReasonInv, FiredFor, Reasons
  <2>9. ReasonInv(o)'
    BY <1>0, <1>2, <1>3, <1>5, <2>1, <2>8 DEF ReasonInv, Session, FiredFor, Gone
  <2>10. MotorInv(o)'
    BY <1>4, <1>5, <2>1, <2>2 DEF MotorInv, Session, Restart, Gone
  <2> QED BY <2>5, <2>6, <2>7, <2>9, <2>10 DEF RailInv
<1> QED BY <1>6, <1>7

-----------------------------------------------------------------------------
\* Steppers.

\* What a move, or a timer, leaves of the steppers of a rail.
LEMMA RunRails ==
  ASSUME HomingInv, ~shut', NEW o \in Rails, ts' = ts, es' = es, host' = host, hit' = hit,
         \/ S!QueueStepPush
         \/ \E s \in Steppers : S!StepperEvent(s)
         \/ \E s \in Steppers : Moves(s) /\ \/ \E c \in 1 .. MaxCount : S!QueueStepAlloc(s, c)
                                            \/ \E d \in {0, 1} : S!SetNextStepDir(s, d)
  PROVE  RailInv(o)'
<1>1. \A t \in Rail[o] : t \in Steppers
  BY Types
<1>2. \A c \in 1 .. MaxCount : c \in 0 .. MaxCount
  BY HomingAssumption
<1>3. \A t \in Rail[o] :
        /\ st'[t].need_reset = st[t].need_reset
        /\ st[t].count = 0 /\ (cmd = S!NoCmd \/ cmd.oid # t) => st'[t].count = 0
  <2>1. \/ SP!QueueStepPush
        \/ \E s \in Steppers : \/ SP!StepperEvent(s)
                               \/ \E c \in 0 .. MaxCount : SP!QueueStepAlloc(s, c)
                               \/ \E d \in SP!Bit : SP!SetNextStepDir(s, d)
    BY <1>2, SameStepper DEF SP!Bit
  <2>2. SP!AllInv /\ SP!NoCmd = S!NoCmd
    BY SameStepper DEF HomingInv, PartsInv
  <2> QED BY <1>1, <2>1, <2>2, SP!RunKeeps, HomingAssumption
<1>4. host[o].at = "reset" => \A t \in Rail[o] \ host[o].todo : cmd' = S!NoCmd \/ cmd'.oid # t
  <2>1. ASSUME host[o].at = "reset", NEW t \in Rail[o] \ host[o].todo
        PROVE  cmd' = S!NoCmd \/ cmd'.oid # t
    <3>1. cmd = S!NoCmd \/ cmd.oid # t
      BY <2>1 DEF HomingInv, RailInv, MotorInv
    <3>2. S!Shutdown(st) => FALSE
      BY DEF S!Shutdown
    <3>3. CASE S!QueueStepPush
      BY <3>3 DEF S!QueueStepPush, S!Shutdown
    <3>4. ASSUME NEW s \in Steppers, S!StepperEvent(s)
          PROVE  cmd' = cmd
      BY <3>4 DEF S!StepperEvent, S!Shutdown
    <3>5. ASSUME NEW s \in Steppers, NEW d \in {0, 1}, S!SetNextStepDir(s, d)
          PROVE  cmd' = cmd
      BY <3>5 DEF S!SetNextStepDir
    <3>6. ASSUME NEW s \in Steppers, Moves(s), NEW c \in 1 .. MaxCount, S!QueueStepAlloc(s, c)
          PROVE  cmd'.oid # t
      <4>1. s # t
        BY <2>1, <3>6 DEF Moves, At
      <4> QED BY <3>2, <3>6, <4>1 DEF S!QueueStepAlloc
    <3> QED BY <3>1, <3>3, <3>4, <3>5, <3>6
  <2> QED BY <2>1
<1>5. MotorSame(o)
  BY <1>3, <1>4 DEF MotorSame, HomingInv, RailInv, MotorInv
<1> QED BY <1>5, RailFrame DEF HomingInv, TrsyncSame, EndstopSame

\* reset_step_clock: the stepper takes moves again.
LEMMA ResetRails ==
  ASSUME HomingInv, NEW o \in Rails, NEW s \in Rail[o], HostReset(o, s) \/ RestartReset(o, s),
         ~Stops
  PROVE  \A q \in Rails : RailInv(q)'
<1>0. HostInv(o) /\ SignalInv(o) /\ FireInv(o) /\ ReasonInv(o) /\ MotorInv(o)
  BY DEF HomingInv, RailInv
<1>1. ts' = ts /\ es' = es
  BY DEF HostReset, RestartReset, TrsyncFollows, EndstopFollows, trsyncVars, endstopVars
<1>2. s \in Steppers /\ st \in [Steppers -> SP!StepperRecord]
  BY Types
<1>3. /\ st' = [st EXCEPT ![s].need_reset = FALSE]
      /\ st[s].count = 0 /\ cmd = S!NoCmd /\ cmd' = cmd
  BY DEF HostReset, RestartReset, S!ResetStepClock, S!Shutdown, Stops
<1>4. /\ \A t \in Steppers \ {s} : st'[t] = st[t]
      /\ ~st'[s].need_reset /\ st'[s].count = st[s].count
  BY <1>2, <1>3 DEF SP!StepperRecord
<1>5. /\ s \in host[o].todo /\ hit' = hit
      /\ \/ /\ host[o].at = "reset"
            /\ host' = NextOf(o, s, "rest") \/ host' = Goes(o, "rest", host[o].todo \ {s})
         \/ host[o].at = "restart_reset" /\ host' = NextOf(o, s, "restart_endstop")
  BY DEF HostReset, RestartReset, At, HostFollows
<1>6. /\ \A q \in Rails \ {o} : host'[q] = host[q]
      /\ host'[o].todo = host[o].todo \ {s} /\ host'[o].reason = host[o].reason
      /\ \/ host[o].at = "reset" /\ host'[o].at \in {"reset", "rest"}
         \/ host[o].at = "restart_reset" /\ host'[o].at \in {"restart_reset", "restart_endstop"}
      /\ host'[o].at = "restart_endstop" => host'[o].todo = {}
      /\ Gone(o, host'[o].at, host'[o].todo)
  <2>1. CASE host[o].at = "reset" /\ host' = NextOf(o, s, "rest")
    BY <1>5, <2>1, NextOfEffect DEF Gone
  <2>2. CASE host[o].at = "restart_reset" /\ host' = NextOf(o, s, "restart_endstop")
    BY <1>5, <2>2, NextOfEffect DEF Gone
  <2>3. CASE host[o].at = "reset" /\ host' = Goes(o, "rest", host[o].todo \ {s})
    <3>1. Gone(o, "rest", host[o].todo \ {s})
      BY <2>3, GoesEffect
    <3> QED BY <2>3, <3>1 DEF Gone
  <2> QED BY <1>5, <2>1, <2>2, <2>3
<1>7. ASSUME NEW q \in Rails \ {o}
      PROVE  RailInv(q)'
  <2>1. \A t \in Rail[q] : t \in Steppers \ {s}
    BY HomingAssumption
  <2>2. MotorSame(q)
    BY <1>3, <1>4, <2>1, MotorsUnchanged DEF HomingInv
  <2> QED BY <1>1, <1>5, <1>6, <2>2, RailFrame DEF HomingInv, TrsyncSame, EndstopSame
<1>8. RailInv(o)'
  <2>1. HostInv(o)'
    <3>1. host'[o].todo \in SUBSET Rail[o] /\ hit'[o] \in BOOLEAN
      BY <1>0, <1>5, <1>6 DEF HostInv
    <3> QED BY <1>0, <1>6, <3>1, HostGoes
  <2>2. T!OnSignals(o)' = T!OnSignals(o)
    BY <1>1 DEF T!OnSignals
  <2>3. SignalInv(o)' /\ FireInv(o)' /\ ReasonInv(o)'
    BY <1>0, <1>1, <1>5, <1>6, <2>2 DEF SignalInv, FireInv, ReasonInv, Session, Restart
  <2>4. \A t \in Rail[o] : t \in Steppers
    BY Types
  <2>5. MotorInv(o)'
    BY <1>0, <1>3, <1>4, <1>6, <2>4 DEF MotorInv, Session, Restart
  <2> QED BY <2>1, <2>3, <2>5 DEF RailInv
<1> QED BY <1>7, <1>8

\* The commands for a stepper, and its timer.
LEMMA StepperActsRails ==
  ASSUME HomingInv, StepperActs, ~Stops
  PROVE  \A q \in Rails : RailInv(q)'
<1>1. ASSUME NEW o \in Rails, NEW s \in Rail[o], HostReset(o, s) \/ RestartReset(o, s)
      PROVE  \A q \in Rails : RailInv(q)'
  BY <1>1, ResetRails
<1>2. ASSUME HostMove \/ MovePush \/ StepperTimer
      PROVE  \A q \in Rails : RailInv(q)'
  <2>1. ts' = ts /\ es' = es /\ host' = host /\ hit' = hit
    BY <1>2 DEF HostMove, MovePush, StepperTimer, TrsyncFollows, EndstopFollows, HostFollows,
                trsyncVars, endstopVars
  <2>2. \/ S!QueueStepPush
        \/ \E s \in Steppers : S!StepperEvent(s)
        \/ \E s \in Steppers : Moves(s) /\ \/ \E c \in 1 .. MaxCount : S!QueueStepAlloc(s, c)
                                           \/ \E d \in {0, 1} : S!SetNextStepDir(s, d)
    BY <1>2 DEF HostMove, MovePush, StepperTimer
  <2>3. ~shut
    BY <2>2, SameStepper DEF S!QueueStepPush, S!StepperEvent, S!QueueStepAlloc,
         S!SetNextStepDir, HomingInv, PartsInv, SP!MotorsOff
  <2>4. ~shut'
    BY <2>3 DEF Stops
  <2> QED BY <2>1, <2>2, <2>4, RunRails
<1> QED BY <1>1, <1>2 DEF StepperActs

-----------------------------------------------------------------------------
\* The rest of the steps.

\* A new host takes over when the old timeouts have run out: then no endstop that is
\* still armed can fire a session.
LEMMA HostActsRails ==
  ASSUME HomingInv, HostActs
  PROVE  \A q \in Rails : RailInv(q)'
<1>1. ts' = ts /\ es' = es /\ st' = st /\ cmd' = cmd /\ hit' = hit
  BY DEF HostActs, HostCrash, HostWaitEnd, stepperVars, trsyncVars, endstopVars
<1>2. ASSUME HostCrash, NEW o \in Rails
      PROVE  RailInv(o)'
  <2>0. HostInv(o) /\ SignalInv(o) /\ FireInv(o) /\ ReasonInv(o) /\ MotorInv(o)
    BY DEF HomingInv, RailInv
  <2>1. ~ts[o].expire_time
    BY <1>2 DEF HostCrash
  <2>2. host'[o] = [at |-> "restart_reset", todo |-> Rail[o], reason |-> NoReason]
    BY <1>2 DEF HostCrash, Restarting, Resting
  <2>3. HostInv(o)'
    BY <1>1, <2>0, <2>2, Types DEF HostInv, HostState
  <2>4. T!OnSignals(o)' = T!OnSignals(o)
    BY <1>1 DEF T!OnSignals
  <2>5. SignalInv(o)' /\ FireInv(o)' /\ ReasonInv(o)' /\ MotorInv(o)'
    BY <1>1, <2>0, <2>1, <2>2, <2>4
       DEF SignalInv, FireInv, ReasonInv, MotorInv, Session, Restart
  <2> QED BY <2>3, <2>5 DEF RailInv
<1>3. ASSUME NEW o \in Rails, HostWaitEnd(o)
      PROVE  \A q \in Rails : RailInv(q)'
  <2>0. HostInv(o) /\ SignalInv(o) /\ FireInv(o) /\ ReasonInv(o) /\ MotorInv(o)
    BY DEF HomingInv, RailInv
  <2>1. host[o].at \in {"homing", "past_end"} /\ host[o].todo = {} /\ Gone(o, "endstop_off", {})
    BY <1>3, <2>0, GoesEffect DEF HostWaitEnd, At, HostInv
  <2>2. HostInv(o)'
    <3>1. hit'[o] \in BOOLEAN
      BY <1>1, <2>0 DEF HostInv
    <3> QED BY <2>0, <2>1, <3>1, HostGoes
  <2>3. T!OnSignals(o)' = T!OnSignals(o)
    BY <1>1 DEF T!OnSignals
  <2>4. SignalInv(o)' /\ FireInv(o)' /\ ReasonInv(o)' /\ MotorInv(o)'
    BY <1>1, <2>0, <2>1, <2>3
       DEF SignalInv, FireInv, ReasonInv, MotorInv, Session, Restart, Gone
  <2>5. ASSUME NEW q \in Rails \ {o}
        PROVE  RailInv(q)'
    BY <1>1, <2>1, RailFrame, MotorsUnchanged DEF HomingInv, TrsyncSame, EndstopSame, Gone
  <2> QED BY <2>2, <2>4, <2>5 DEF RailInv
<1> QED BY <1>2, <1>3 DEF HostActs

\* Samples that fire nothing, reports, clear_shutdown.
LEMMA QuietRails ==
  ASSUME HomingInv, \/ EndstopSamples \/ TrsyncReports \/ ClearShutdown \/ UNCHANGED vars
  PROVE  \A q \in Rails : RailInv(q)'
<1>1. st' = st /\ cmd' = cmd /\ host' = host /\ hit' = hit
  BY DEF EndstopSamples, TrsyncReports, ClearShutdown, vars, stepperVars, hostVars,
         S!ClearShutdown
<1>2. \A q \in Rails : MotorSame(q)
  BY <1>1, MotorsUnchanged DEF HomingInv
<1>3. CASE EndstopSamples
  <2>1. ts' = ts
    BY <1>3 DEF EndstopSamples, trsyncVars
  <2>2. \A q \in Rails : EndstopSame(q)
    <3>1. CASE E!PinChange
      BY <3>1 DEF E!PinChange, E!EddyChange, E!PortChange, EndstopSame
    <3>2. ASSUME NEW o \in Rails, E!SampleMismatch(o)
          PROVE  \A q \in Rails : EndstopSame(q)
      BY <3>2, Types DEF E!SampleMismatch, E!Mismatch, EndstopSame, EP!EndstopRecord
    <3>3. ASSUME NEW o \in Rails, E!SampleMatch(o)
          PROVE  \A q \in Rails : EndstopSame(q)
      BY <3>3, Types DEF E!SampleMatch, EndstopSame, EP!EndstopRecord
    <3> QED BY <1>3, <3>1, <3>2, <3>3 DEF EndstopSamples
  <2> QED BY <1>1, <1>2, <2>1, <2>2, RailFrame DEF HomingInv, TrsyncSame
<1>4. CASE TrsyncReports
  <2>1. es' = es
    BY <1>4 DEF TrsyncReports, endstopVars
  <2>2. \A q \in Rails : TrsyncSame(q)
    <3>1. \/ ts' = ts
          \/ \E o \in Rails : ts' = [ts EXCEPT ![o].report = TRUE]
          \/ \E o \in Rails : ts' = [ts EXCEPT ![o].report = FALSE]
      <4>1. task.oid # 0 => task.oid \in Rails
        BY Types DEF HomingInv, PartsInv, TP!Inv, TP!TypeOK, Rails
      <4> QED BY <1>4, <4>1 DEF TrsyncReports, T!trsync_report_event, T!Task, T!TaskWake,
            T!TaskSkip, T!TaskCopy, T!TaskSend, T!TaskSendDropped
    <3>2. ASSUME NEW o \in Rails, NEW b \in BOOLEAN, ts' = [ts EXCEPT ![o].report = b],
                 NEW q \in Rails
          PROVE  TrsyncSame(q)
      <4>1. ts[q] \in TP!TrsyncRecord /\ ts \in [Rails -> TP!TrsyncRecord]
        BY Types
      <4>2. ts'[q] = ts[q] \/ ts'[q] = [ts[q] EXCEPT !.report = b]
        BY <3>2, <4>1
      <4> QED BY <4>1, <4>2 DEF TrsyncSame, TP!TrsyncRecord
    <3> QED BY <3>1, <3>2 DEF TrsyncSame
  <2> QED BY <1>1, <1>2, <2>1, <2>2, RailFrame DEF HomingInv, EndstopSame
<1>5. CASE ClearShutdown \/ UNCHANGED vars
  <2>1. ts' = ts /\ es' = es
    BY <1>5 DEF ClearShutdown, vars, T!ClearShutdown, E!ClearShutdown, trsyncVars, endstopVars
  <2> QED BY <1>1, <1>2, <2>1, RailFrame DEF HomingInv, TrsyncSame, EndstopSame
<1> QED BY <1>3, <1>4, <1>5

\* Every step keeps the invariant.
LEMMA HomingNext ==
  ASSUME HomingInv, [Next]_vars
  PROVE  HomingInv'
<1>1. PartsInv' /\ hit' \in [Rails -> BOOLEAN]
  BY PartsNext, HitType DEF HomingInv
<1>2. \A o \in Rails : RailInv(o)'
  <2>1. Shutdown => \A o \in Rails : RailInv(o)'
    BY RestartRails DEF Shutdown
  <2> QED BY NextByPart, StopsRails, TrsyncActsRails, EndstopActsRails, TriggerActsRails,
             FiresRails, ExpiresRails, StepperActsRails, HostActsRails, QuietRails, <2>1
<1>3. host' \in [Rails -> HostState]
  <2>1. \A o \in Rails : host'[o] \in HostState
    BY <1>2 DEF RailInv, HostInv
  <2>2. \/ host' = host \/ host' = Restarting
        \/ \E o \in Rails : \E w, y : host' = Goes(o, w, y)
        \/ \E o \in Rails : \E w, y, r : host' = [Goes(o, w, y) EXCEPT ![o].reason = r]
    BY DEF Next, HostStart, HostSetTimeout, HostEndstopHome, DispatchTimeout, DispatchTrigger,
       HostPastEnd, HostWaitEnd, HostEndstopOff, HostStop, RestartEndstop, RestartTrsync,
       EndstopFires, TrsyncExpires, HostRegister, HostReset, RestartReset, HostCrash,
       HostMove, MovePush, StepperTimer, EndstopSamples, TrsyncReports, Shutdown,
       ClearShutdown, HostFollows, hostVars, vars, NextOf
  <2>3. DOMAIN host' = Rails /\ host' = [o \in DOMAIN host' |-> host'[o]]
    BY <2>2 DEF Goes, Restarting, HomingInv
  <2> QED BY <2>1, <2>3
<1> QED BY <1>1, <1>2, <1>3 DEF HomingInv

\* The invariant holds at the start.
LEMMA HomingInit == Init => HomingInv
<1> SUFFICES ASSUME Init PROVE HomingInv
  OBVIOUS
<1>1. PartsInv
  BY PartsInit
<1>2. host \in [Rails -> HostState] /\ hit \in [Rails -> BOOLEAN]
  BY DEF Init, Resting, HostState
<1>3. ASSUME NEW o \in Rails
      PROVE  RailInv(o)
  <2>1. /\ host[o].at = "rest" /\ host[o].todo = {} /\ hit[o] = FALSE
    BY DEF Init, Resting
  <2>2. /\ ts[o].signals = <<>> /\ ~ts[o].expire_time /\ ~es[o].time
    BY DEF Init, T!Init, T!ConfigTrsync, T!Oids, Rails, E!Init, E!ConfigEndstop
  <2>3. T!OnSignals(o) = {}
    BY <2>2 DEF T!OnSignals
  <2>4. \A s \in Rail[o] : ~st[s].need_reset
    BY HomingAssumption DEF Init, S!Init, S!ConfigStepper
  <2>5. HostInv(o)
    BY <1>2, <2>1 DEF HostInv
  <2>6. SignalInv(o) /\ FireInv(o) /\ ReasonInv(o) /\ MotorInv(o)
    BY <2>1, <2>2, <2>3, <2>4
       DEF SignalInv, FireInv, ReasonInv, MotorInv, Session, Restart
  <2> QED BY <2>5, <2>6 DEF RailInv
<1> QED BY <1>1, <1>2, <1>3 DEF HomingInv

-----------------------------------------------------------------------------
\* The results.

\* Every reachable state satisfies the invariant.
THEOREM HomingInvariance == Spec => []HomingInv
<1>1. HomingInv /\ [Next]_vars => HomingInv'
  BY HomingNext
<1> QED BY HomingInit, <1>1, PTL DEF Spec

\* Every variable of the composition keeps its type: whatever the interleaving, the host
\* is at one of its places with steppers of its own to deal with.
THEOREM HomingTypeCorrect == Spec => []TypeOK
<1>1. HomingInv => TypeOK
  <2> SUFFICES ASSUME HomingInv PROVE TypeOK
    OBVIOUS
  <2>1. SP!TypeOK /\ TP!TypeOK /\ EP!TypeOK
    BY DEF HomingInv, PartsInv, SP!AllInv, TP!Inv, EP!Inv
  <2>2. S!TypeOK
    BY <2>1 DEF SP!TypeOK, S!TypeOK, SP!StepperRecord, S!StepperRecord, SP!Word32, S!Word32,
       SP!Bit, S!Bit, SP!Move, S!Move, SP!AxisRange, S!AxisRange, SP!NoCmd, S!NoCmd
  <2>3. T!TypeOK
    BY <2>1 DEF TP!TypeOK, T!TypeOK, TP!TrsyncRecord, T!TrsyncRecord, TP!Report, T!Report,
       TP!Oids, T!Oids
  <2>4. E!TypeOK
    BY <2>1 DEF EP!TypeOK, E!TypeOK, EP!EndstopRecord, E!EndstopRecord
  <2> QED BY <2>2, <2>3, <2>4 DEF TypeOK, HomingInv
<1> QED BY HomingInvariance, <1>1, PTL

\* Only the session of its own rail has a stepper registered.
LEMMA Registered ==
  ASSUME HomingInv, NEW o \in Rails, NEW s \in Rail[o], s \notin T!OnSignals(o)
  PROVE  ~func[s]
<1>1. \A q \in Rails : T!OnSignals(q) \subseteq Rail[q]
  BY DEF HomingInv, RailInv, SignalInv
<1>2. \A q \in Rails : s \notin T!OnSignals(q)
  BY <1>1, HomingAssumption
<1>3. s \in Steppers /\ T!Oids = Rails
  BY Types
<1>4. func[s] <=> \E q \in TP!Oids : s \in TP!OnSignals(q)
  BY <1>3 DEF HomingInv, PartsInv, TP!Inv, TP!SignalsExact
<1> QED BY <1>2, <1>3, <1>4 DEF TP!Oids, T!Oids, TP!OnSignals, T!OnSignals

\* A stepper that waits for a reset has nothing to do, and one with nothing to do has
\* no timer running and an empty queue.
LEMMA AtRest ==
  ASSUME HomingInv, NEW s \in Steppers
  PROVE  /\ st[s].need_reset => st[s].count = 0
         /\ st[s].count = 0 => st[s].mq = <<>>
         /\ ~st[s].sched <=> st[s].count = 0
BY DEF HomingInv, PartsInv, SP!AllInv, SP!StepperInv, SP!RestInv

\* The firmware takes every command of the host's sequence, however the endstops, the
\* timeouts, the steppers and the other rails interleave with it.
THEOREM SequenceIsAccepted == Spec => []SequenceAccepted
<1>1. HomingInv => SequenceAccepted
  <2> SUFFICES ASSUME HomingInv, NEW o \in Rails
               PROVE  /\ \A s \in host[o].todo :
                           /\ At(o, "register") => ~func[s]
                           /\ At(o, "reset") => st[s].count = 0 /\ st[s].need_reset
                      /\ \A s \in Rail[o] \ host[o].todo :
                           At(o, "reset") => st[s].count = 0 /\ st[s].mq = <<>>
    BY DEF SequenceAccepted
  <2>1. /\ HostInv(o) /\ SignalInv(o) /\ FireInv(o) /\ MotorInv(o)
        /\ Rail[o] \subseteq Steppers /\ host[o].todo \subseteq Rail[o]
    BY Types DEF HomingInv, RailInv, HostInv
  <2>2. ASSUME NEW s \in host[o].todo, host[o].at = "register"
        PROVE  ~func[s]
    <3>1. s \notin T!OnSignals(o)
      BY <2>1, <2>2 DEF SignalInv, FireInv, Session
    <3> QED BY <2>1, <3>1, Registered
  <2>3. host[o].at = "reset" =>
          /\ \A s \in host[o].todo : st[s].count = 0 /\ st[s].need_reset
          /\ \A s \in Rail[o] \ host[o].todo : st[s].count = 0 /\ st[s].mq = <<>>
    BY <2>1, AtRest DEF MotorInv
  <2> QED BY <2>2, <2>3 DEF At
<1> QED BY HomingInvariance, <1>1, PTL

\* The host reads ENDSTOP_HIT exactly when the endstop fired the session it started.
THEOREM ResultIsTrue == Spec => []HomingResult
<1>1. HomingInv => HomingResult
  BY DEF HomingInv, RailInv, ReasonInv, HomingResult, At
<1> QED BY HomingInvariance, <1>1, PTL

\* Nothing of a finished or abandoned session is left to stop the moves of a rail at rest,
\* and the steppers that drop theirs are those the host gave up on.
THEOREM RestingIsReady == Spec => []RestIsReady
<1>1. HomingInv => RestIsReady
  <2> SUFFICES ASSUME HomingInv, NEW o \in Rails, host[o].at = "rest"
               PROVE  /\ ~es[o].time
                      /\ \A s \in Rail[o] : ~func[s] /\ (st[s].need_reset <=> s \in host[o].todo)
    BY DEF RestIsReady, At
  <2>1. HostInv(o) /\ SignalInv(o) /\ FireInv(o) /\ MotorInv(o)
    BY DEF HomingInv, RailInv
  <2>2. T!OnSignals(o) = {}
    BY <2>1 DEF SignalInv, T!OnSignals
  <2>3. \A s \in Rail[o] : st[s].need_reset <=> s \in host[o].todo
    BY <2>1 DEF MotorInv
  <2> QED BY <2>1, <2>2, <2>3, Registered DEF FireInv
<1> QED BY HomingInvariance, <1>1, PTL

\* A session that can fire loses that only by firing, or in a shutdown.
LEMMA OnlyFiringEnds ==
  ASSUME HomingInv, [Next]_vars, ~shut', NEW o \in Rails, ts[o].can, ~ts'[o].can
  PROVE  S!StopSteppers(T!Called(o))
<1>0. ~Stops /\ ~Shutdown
  BY DEF Stops, Shutdown, T!Shutdown
<1>1. ASSUME NEW q \in Rails, TrsyncActs(q)
      PROVE  FALSE
  <2>1. Rail[q] \subseteq Steppers /\ {CommsTimeout, NoReason} \subseteq Reasons \cup {NoReason}
    BY Types DEF Reasons
  <2>2. ts'[q].can \/ ts'[q].can = ts[q].can
    BY <1>0, <1>1, <2>1, TrsyncActsParts, StartEffect, TimeoutEffect, RegisterEffect
  <2>3. \A r \in Rails \ {q} : ts'[r] = ts[r]
    BY <1>0, <1>1, <2>1, TrsyncActsParts, StartEffect, TimeoutEffect, RegisterEffect
  <2> QED BY <2>2, <2>3
<1>2. ASSUME NEW q \in Rails, EndstopActs(q)
      PROVE  FALSE
  BY <1>0, <1>2, EndstopActsParts DEF TrsyncFollows, trsyncVars
<1>3. ASSUME NEW q \in Rails, TriggerActs(q) \/ EndstopFires(q) \/ TrsyncExpires(q)
      PROVE  S!StopSteppers(T!Called(o))
  <2>1. \E p : FiredFor(q, p) /\ S!StopSteppers(T!Called(q))
    <3>1. CASE TriggerActs(q)
      BY <3>1, TriggerActsParts, FireEffect
    <3>2. CASE EndstopFires(q)
      <4>1. es[q].ts = q
        BY <3>2 DEF EndstopFires, E!SampleTriggers, HomingInv, RailInv, FireInv
      <4> QED BY <3>2, <4>1, FireEffect DEF EndstopFires
    <3>3. CASE TrsyncExpires(q)
      BY <3>3, FireEffect DEF TrsyncExpires
    <3> QED BY <1>3, <3>1, <3>2, <3>3
  <2>2. q = o
    BY <2>1 DEF FiredFor
  <2> QED BY <2>1, <2>2
<1>4. CASE StepperActs \/ HostActs \/ EndstopSamples
  <2>1. ts' = ts
    BY <1>0, <1>4, StepperActsParts
       DEF TrsyncFollows, trsyncVars, HostActs, HostCrash, HostWaitEnd, EndstopSamples
  <2> QED BY <2>1
<1>5. CASE TrsyncReports \/ ClearShutdown \/ UNCHANGED vars
  <2>1. \/ ts' = ts
        \/ \E q \in Rails : ts' = [ts EXCEPT ![q].report = TRUE]
        \/ \E q \in Rails : ts' = [ts EXCEPT ![q].report = FALSE]
    <3>1. task.oid # 0 => task.oid \in Rails
      BY DEF HomingInv, PartsInv, TP!Inv, TP!TypeOK, Rails
    <3> QED BY <1>5, <3>1 DEF TrsyncReports, T!trsync_report_event, T!Task, T!TaskWake,
          T!TaskSkip, T!TaskCopy, T!TaskSend, T!TaskSendDropped, ClearShutdown,
          T!ClearShutdown, vars, trsyncVars
  <2>2. ts'[o].can = ts[o].can
    BY <2>1, Types DEF TP!TrsyncRecord
  <2> QED BY <2>2
<1> QED BY NextByPart, <1>0, <1>1, <1>2, <1>3, <1>4, <1>5

\* A session stops every stepper registered with it in the step in which it fires, and
\* no stepper is registered with one that cannot fire.
THEOREM FiringStopsAll == Spec => FiringStops
<1>1. HomingInv => \A o \in Rails : ts[o].signals # <<>> => ts[o].can
  BY DEF HomingInv, RailInv, SignalInv
<1>2. HomingInv /\ HomingInv' /\ [Next]_vars =>
        \A o \in Rails : ts[o].can /\ ~ts'[o].can =>
          \A s \in T!OnSignals(o) : ~st'[s].sched /\ st'[s].mq = <<>>
  <2> SUFFICES ASSUME HomingInv, HomingInv', [Next]_vars, NEW o \in Rails,
                      ts[o].can, ~ts'[o].can, NEW s \in T!OnSignals(o)
               PROVE  ~st'[s].sched /\ st'[s].mq = <<>>
    OBVIOUS
  <2>1. s \in T!Called(o) /\ s \in Steppers
    BY Types DEF T!Called, HomingInv, RailInv, SignalInv
  <2>2. CASE shut'
    <3>1. ~st'[s].sched
      BY <2>1, <2>2 DEF HomingInv, PartsInv, SP!MotorsOff
    <3>2. st'[s].sched <=> st'[s].count # 0
      BY <2>1 DEF HomingInv, PartsInv, SP!AllInv, SP!StepperInv, SP!RestInv
    <3>3. st'[s].count = 0 => st'[s].mq = <<>>
      BY <2>1 DEF HomingInv, PartsInv, SP!AllInv, SP!StepperInv, SP!RestInv
    <3> QED BY <3>1, <3>2, <3>3
  <2>3. CASE ~shut'
    BY <2>1, <2>3, OnlyFiringEnds, StopEffect
  <2> QED BY <2>2, <2>3
<1> QED BY HomingInvariance, <1>1, <1>2, PTL DEF Spec, FiringStops

\* What is proved of the steppers alone holds while they home: the position reported
\* after a trigger is where the motor is, and no move of the pool is lost or freed twice.
THEOREM ExactWhileHoming == Spec => [](S!PositionExact /\ S!PoolExact)
<1>1. Init => SP!Init
  BY SameStepper DEF Init
<1>2. PartsInv /\ [Next]_vars => [SP!Next]_(SP!vars)
  <2>1. SP!vars' = S!vars'
    BY DEF SP!vars, S!vars
  <2> QED BY <2>1, PartsNext, SameStepper
<1>3. PartsInv /\ [Next]_vars => PartsInv'
  BY PartsNext
<1>4. Spec => SP!Spec
  BY PartsInit, <1>1, <1>2, <1>3, PTL DEF Spec, SP!Spec
<1>5. SP!PositionExact => S!PositionExact
  BY DEF SP!PositionExact, S!PositionExact, SP!ReportedPosition, S!ReportedPosition,
     SP!stepper_get_position, S!stepper_get_position, SP!Signed, S!Signed,
     SP!StepsLeft, S!StepsLeft
<1>6. SP!PoolExact => S!PoolExact
  <2>1. SP!NoCmd = S!NoCmd /\ \A r : SP!QueuedNodes(r) = S!QueuedNodes(r)
    BY DEF SP!QueuedNodes, S!QueuedNodes, SP!NoCmd, S!NoCmd
  <2> QED BY <2>1, ZenonT(60) DEF SP!PoolExact, S!PoolExact
<1>7. SP!Spec => []SP!PositionExact /\ []SP!PoolExact
  BY SP!PositionCorrect, SP!PoolCorrect, HomingAssumption
<1> QED BY <1>4, <1>5, <1>6, <1>7, PTL
=============================================================================
