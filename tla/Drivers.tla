------------------------------ MODULE Drivers ------------------------------
(***************************************************************************)
(* The drivers of the firmware that share the scheduler and the shutdown.  *)
(* One driver is configured at a time: they do not touch each other's      *)
(* state, so that what they do side by side shows in their own steps.  The *)
(* endstops and the bed probe do meet, in the level of the virtual pin and *)
(* in the commands that reset the detector, and are composed: "endstop"    *)
(* has several endstops and a detector that may do anything, "probe" has   *)
(* the endstop of the bed probe with the detector itself.                  *)
(***************************************************************************)
EXTENDS Outputs, TmcUart, AnalogIn, EddyProbe

CONSTANTS
  Endstops, Probes, Trsyncs, NoTs, Reasons, NoReason, MaxSamples,   \* Endstop
  NowMs          \* bound: what ff_eddy_now_ms returns

ASSUME DriversAssumption ==
  /\ Probes \subseteq Endstops /\ NoTs \notin Trsyncs /\ NoReason \notin Reasons
  /\ MaxSamples \in 1 .. 255
  /\ NowMs \subseteq Clock
  /\ \A n \in {RingSize, DriftCount, HardCount, TrigCount, UntrigCount, QuietMs} :
       n \in Nat \ {0}

VARIABLES
  conf,                    \* the driver that is configured
  es, port, active, run    \* Endstop

E == INSTANCE Endstop

estvars == <<es, port, active, run>>
vars == <<conf, wake, shut, outvars, tmcvars, adcvars, eddyvars, estvars>>

DriversTypeOK ==
  /\ TasksTypeOK
  /\ OutputsTypeOK /\ TmcTypeOK /\ AnalogTypeOK /\ EddyTypeOK /\ E!TypeOK

\* The pins of a driver that is not configured are at some fixed level.
Init ==
  /\ conf \in {"digital", "pwm", "tmcuart", "analog", "endstop", "probe"}
  /\ TasksInit
  /\ OutputsInit /\ TmcInit /\ AnalogInit /\ EddyInit /\ E!Init
  /\ conf # "digital" => dig.max_duration = 0 /\ ~dig.on /\ ~dig.default_on
  /\ conf # "pwm" => pwm.max_duration = 0 /\ pwm.pin = 0 /\ pwm.default_value = 0
  /\ conf # "endstop" => \A e \in Endstops \ Probes : port[e]

-----------------------------------------------------------------------------
DigitalStep == conf = "digital" /\ DigitalNext /\ UNCHANGED <<tmcvars, adcvars, eddyvars, estvars>>
PwmStep == conf = "pwm" /\ PwmNext /\ UNCHANGED <<tmcvars, adcvars, eddyvars, estvars>>
TmcStep == conf = "tmcuart" /\ TmcNext /\ UNCHANGED <<outvars, adcvars, eddyvars, estvars>>
AnalogStep == conf = "analog" /\ AnalogNext /\ UNCHANGED <<outvars, tmcvars, eddyvars, estvars>>

\* The commands and the timer of endstop e.
EndstopHome(e) ==
  \E n \in 1 .. MaxSamples, high \in BOOLEAN, o \in Trsyncs, r \in Reasons :
    E!command_endstop_home(e, n, high, o, r)
EndstopQuery(e) == E!command_endstop_query_state(e)
EndstopTimer(e) == E!SampleMismatch(e) \/ E!SampleMatch(e) \/ E!SampleTriggers(e)

EndstopStep ==
  /\ conf = "endstop"
  /\ \/ \E e \in Endstops : E!HomeOff(e)
     \/ \E e \in Endstops : EndstopHome(e)
     \/ \E e \in Endstops : EndstopQuery(e)
     \/ \E e \in Endstops : E!command_endstop_recover_state(e)
     \/ \E e \in Endstops : EndstopTimer(e)
     \/ E!PinChange
  /\ UNCHANGED <<probe, check, past, gross, touch, wake, outvars, tmcvars, adcvars>>

\* Commands run between two tasks; a command that homes resets the detector too, and
\* a shutdown it ends in drops the detector's timer with the others.
ProbeEndstop(e) ==
  \/ E!HomeOff(e) /\ EddyRelease
  \/ EndstopHome(e) /\ ff_eddy_home_reset(shut' # shut)
  \/ E!command_endstop_recover_state(e) /\ ff_eddy_home_reset(FALSE)
  \/ EndstopQuery(e) /\ check = "none" /\ UNCHANGED <<eddyvars, wake>>
  \/ EndstopTimer(e) /\ UNCHANGED <<eddyvars, wake>>

Detector ==
  \/ DMA1_Channel1_IRQHandler
  \/ \E dev \in {"quiet", "touch", "gross"}, noisy \in BOOLEAN, now \in NowMs :
       ff_eddy_timer_event(dev, noisy, now)
  \/ CheckTrigger
  \/ ff_eddy_rebaseline

ProbeStep ==
  /\ conf = "probe"
  /\ \/ \E e \in Probes : ProbeEndstop(e)
     \/ Detector /\ UNCHANGED estvars
  /\ UNCHANGED <<outvars, tmcvars, adcvars>>

-----------------------------------------------------------------------------
\* sched_shutdown from anywhere else, and the shutdown handler of the driver.
DigitalHalt == digital_out_shutdown /\ UNCHANGED <<pwm, clock, tmcvars, adcvars, eddyvars, estvars>>
PwmHalt == pwm_shutdown /\ UNCHANGED <<dig, clock, tmcvars, adcvars, eddyvars, estvars>>

Shutdown ==
  /\ sched_shutdown
  /\ CASE conf = "digital" -> DigitalHalt /\ age' = 0
       [] conf = "pwm" -> PwmHalt /\ age' = 0
       [] conf = "tmcuart" -> tmcuart_shutdown /\ UNCHANGED <<outvars, adcvars, eddyvars, estvars>>
       [] conf = "analog" -> /\ analog_in_shutdown(adc)
                             /\ UNCHANGED <<outvars, tmcvars, eddyvars, estvars>>
       [] conf \in {"endstop", "probe"} ->
            /\ E!Shutdown(es) /\ EddyShutdown
            /\ UNCHANGED <<port, active, run, outvars, tmcvars, adcvars>>

\* command_clear_shutdown, between two tasks.
ClearShutdown ==
  /\ sched_clear_shutdown
  /\ ~pwm.adding /\ check = "none"
  /\ UNCHANGED <<wake, outvars, tmcvars, adcvars, eddyvars, estvars>>

Next ==
  /\ \/ DigitalStep \/ PwmStep \/ TmcStep \/ AnalogStep
     \/ EndstopStep \/ ProbeStep
     \/ Shutdown \/ ClearShutdown
  /\ UNCHANGED conf

Spec == Init /\ [][Next]_vars

-----------------------------------------------------------------------------
\* An endstop whose timer runs has a trsync to trigger and a count that reaches zero,
\* and its count and the matching samples in a row add up to what the host asked for;
\* whatever the commands, the samples and the shutdowns before (see Endstop).
EndstopsReady == E!ArmedIsReady /\ E!SamplesInARow

\* The bed probe reads triggered only for a reason seen since its detector was last
\* reset: TrigCount readings past the threshold in a row, or a run of HardCount gross
\* excursions that ended since, though the timer may force a trigger at any moment
\* and the task may run late.  Every homing resets the detector, all but outrange_count:
\* a run of gross excursions that began before the homing may still end it.
ProbeTouched == (conf = "probe" /\ ~eddy) => touch
=============================================================================
