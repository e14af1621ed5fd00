--------------------------- MODULE DriversProofs ---------------------------
(***************************************************************************)
(* Proofs about module Drivers: what the endstops, the bed probe, the TMC  *)
(* UART, the analog inputs and the output pins promise holds for every     *)
(* width of the clock, every length of the runs and of the queues and      *)
(* every number of endstops, though they share the scheduler and the       *)
(* shutdown.  At the end, what all of them rely on and one more driver:    *)
(* the main loop that runs their tasks, and the buttons with their host.   *)
(***************************************************************************)
EXTENDS Drivers, MainLoop, Buttons, SequenceTheorems, TLAPS

\* What is proved of the endstops holds of those the drivers instantiate.
EP == INSTANCE EndstopProofs

-----------------------------------------------------------------------------
\* Endstops.

\* Endstop as EndstopProofs sees it.
LEMMA SameEndstops ==
  /\ EP!Init <=> E!Init
  /\ EP!Next <=> E!Next
  /\ EP!vars = E!vars
  /\ E!ArmedIsReady <=> EP!ArmedIsReady
  /\ E!SamplesInARow <=> EP!SamplesInARow
<1>1. EP!Init <=> E!Init
  BY DEF E!Init, EP!Init, E!ConfigEndstop, EP!ConfigEndstop
<1>2. EP!Next <=> E!Next
  BY DEF E!Next, EP!Next, E!HomeOff, EP!HomeOff,
     E!command_endstop_home, EP!command_endstop_home, E!HomeStruct, EP!HomeStruct,
     E!command_endstop_query_state, EP!command_endstop_query_state,
     E!command_endstop_recover_state, EP!command_endstop_recover_state,
     E!Recovered, EP!Recovered, E!SampleMismatch, EP!SampleMismatch,
     E!SampleMatch, EP!SampleMatch, E!SampleTriggers, EP!SampleTriggers,
     E!Match, EP!Match, E!gpio_in_read, EP!gpio_in_read, E!Mismatch, EP!Mismatch,
     E!CountDown, EP!CountDown, E!EddyChange, EP!EddyChange,
     E!PortChange, EP!PortChange, E!PinChange, EP!PinChange,
     E!ShutdownStep, EP!ShutdownStep, E!Shutdown, EP!Shutdown,
     E!ClearShutdown, EP!ClearShutdown
<1>3. EP!vars = E!vars
  BY DEF EP!vars, E!vars
<1>4. /\ E!ArmedIsReady <=> EP!ArmedIsReady
      /\ E!SamplesInARow <=> EP!SamplesInARow
  BY DEF E!ArmedIsReady, EP!ArmedIsReady, E!SamplesInARow, EP!SamplesInARow
<1> QED BY <1>1, <1>2, <1>3, <1>4

\* Every driver's step leaves the flags Boolean.
LEMMA SharedFlags ==
  ASSUME shut \in BOOLEAN, Next
  PROVE  shut' \in BOOLEAN
<1>1. sched_shutdown => shut' \in BOOLEAN
  BY DEF sched_shutdown
<1>2. DigitalStep \/ PwmStep => shut' \in BOOLEAN
  <2>1. (DigitalStop \/ PwmStop) => shut' \in BOOLEAN
    BY <1>1 DEF DigitalStop, PwmStop
  <2>2. ASSUME NEW unsafe, Tick(unsafe)
        PROVE  shut' \in BOOLEAN
    BY <2>2 DEF Tick
  <2>3. DigitalTick \/ PwmTick \/ digital_toggle_event => shut' \in BOOLEAN
    BY <2>2 DEF DigitalTick, PwmTick, digital_toggle_event
  <2>4. digital_load_event => shut' \in BOOLEAN
    BY <2>1 DEF digital_load_event
  <2>5. ASSUME NEW n, command_set_digital_out_pwm_cycle(n) \/ command_update_digital_out(n)
        PROVE  shut' \in BOOLEAN
    BY <2>1, <2>5 DEF command_set_digital_out_pwm_cycle, command_update_digital_out
  <2>6. ASSUME NEW t, NEW n, command_queue_digital_out(t, n) \/ command_queue_pwm_out(t, n)
        PROVE  shut' \in BOOLEAN
    BY <2>1, <2>6 DEF command_queue_digital_out, command_queue_pwm_out
  <2>7. pwm_event \/ pwm_end_event \/ PwmAddTimer => shut' \in BOOLEAN
    BY <2>1 DEF pwm_event, pwm_end_event, PwmAddTimer
  <2> QED BY <2>3, <2>4, <2>5, <2>6, <2>7 DEF DigitalStep, PwmStep, DigitalNext, PwmNext
<1>3. TmcStep => shut' \in BOOLEAN
  <2>1. TmcStep => shut' = shut
    BY DEF TmcStep, TmcNext, command_tmcuart_send, tmcuart_send_sync_event, tmcuart_send_event,
       tmcuart_send_finish_event, tmcuart_read_event, tmcuart_task, set_register, Resend,
       ResponseTimeout, handle_callback
  <2> QED BY <2>1
<1>4. AnalogStep => shut' \in BOOLEAN
  <2>1. ASSUME NEW r, analog_in_event(r)
        PROVE  shut' \in BOOLEAN
    BY <1>1, <2>1 DEF analog_in_event
  <2>2. ASSUME NEW n, NEW c, command_query_analog_in(n, c) \/ analog_in_task
        PROVE  shut' \in BOOLEAN
    BY <2>2 DEF command_query_analog_in, analog_in_task
  <2> QED BY <2>1, <2>2 DEF AnalogStep, AnalogNext
<1>5. Detector => shut' \in BOOLEAN
  BY DEF Detector, DMA1_Channel1_IRQHandler, ff_eddy_timer_event, CheckTrigger, CheckRead,
     CheckBad, CheckHard, CheckAbove, CheckBelow, CheckBand, ff_eddy_rebaseline
<1>6. ASSUME NEW e,
             \/ E!HomeOff(e) \/ EndstopHome(e) \/ EndstopQuery(e) \/ EndstopTimer(e)
             \/ E!command_endstop_recover_state(e)
      PROVE  shut' \in BOOLEAN
  BY <1>6 DEF E!HomeOff, EndstopHome, EndstopQuery, EndstopTimer, E!command_endstop_home,
     E!Shutdown, E!command_endstop_query_state, E!command_endstop_recover_state,
     E!SampleMismatch, E!SampleMatch, E!SampleTriggers
<1>7. E!PinChange => shut' \in BOOLEAN
  BY DEF E!PinChange, E!EddyChange, E!PortChange
<1>8. EndstopStep => shut' \in BOOLEAN
  BY <1>6, <1>7 DEF EndstopStep
<1>9. ProbeStep => shut' \in BOOLEAN
  BY <1>5, <1>6 DEF ProbeStep, ProbeEndstop
<1>10. Shutdown \/ ClearShutdown => shut' \in BOOLEAN
  BY <1>1 DEF Shutdown, ClearShutdown, sched_clear_shutdown
<1> QED BY <1>2, <1>3, <1>4, <1>8, <1>9, <1>10 DEF Next

\* One of the drivers is configured, and its steps do not change which.
Confs == {"digital", "pwm", "tmcuart", "analog", "endstop", "probe"}

\* The flag of the driver's task is Boolean too.
LEMMA TaskFlag ==
  ASSUME wake \in BOOLEAN, conf \in Confs, [Next]_vars
  PROVE  wake' \in BOOLEAN
<1>1. CASE DigitalStep \/ PwmStep
  <2>1. (DigitalStop \/ PwmStop) => wake' = wake
    BY DEF DigitalStop, PwmStop, sched_shutdown
  <2>2. ASSUME NEW unsafe, Tick(unsafe)
        PROVE  wake' = wake
    BY <2>2 DEF Tick
  <2>3. DigitalTick \/ PwmTick \/ digital_toggle_event => wake' = wake
    BY <2>2 DEF DigitalTick, PwmTick, digital_toggle_event
  <2>4. digital_load_event => wake' = wake
    BY <2>1 DEF digital_load_event
  <2>5. ASSUME NEW n, command_set_digital_out_pwm_cycle(n) \/ command_update_digital_out(n)
        PROVE  wake' = wake
    BY <2>1, <2>5 DEF command_set_digital_out_pwm_cycle, command_update_digital_out
  <2>6. ASSUME NEW t, NEW n, command_queue_digital_out(t, n) \/ command_queue_pwm_out(t, n)
        PROVE  wake' = wake
    BY <2>1, <2>6 DEF command_queue_digital_out, command_queue_pwm_out
  <2>7. pwm_event \/ pwm_end_event \/ PwmAddTimer => wake' = wake
    BY <2>1 DEF pwm_event, pwm_end_event, PwmAddTimer
  <2>8. wake' = wake
    BY <1>1, <2>3, <2>4, <2>5, <2>6, <2>7 DEF DigitalStep, PwmStep, DigitalNext, PwmNext
  <2> QED BY <2>8
<1>2. CASE TmcStep
  <2>1. ASSUME NEW data, tmcuart_finalize(data)
        PROVE  wake' \in BOOLEAN
    BY <2>1 DEF tmcuart_finalize, sched_wake_task
  <2>2. tmcuart_send_finish_event \/ tmcuart_read_event => wake' \in BOOLEAN
    BY <2>1 DEF tmcuart_send_finish_event, tmcuart_read_event
  <2>3. tmcuart_task => wake' \in BOOLEAN
    BY DEF tmcuart_task, sched_check_wake
  <2>4. (\/ command_tmcuart_send \/ tmcuart_send_sync_event \/ tmcuart_send_event
         \/ set_register \/ Resend \/ ResponseTimeout \/ handle_callback) => wake' = wake
    BY DEF command_tmcuart_send, tmcuart_send_sync_event, tmcuart_send_event,
       set_register, Resend, ResponseTimeout, handle_callback
  <2> QED BY <1>2, <2>2, <2>3, <2>4 DEF TmcStep, TmcNext
<1>3. CASE AnalogStep
  <2>1. ASSUME NEW r, analog_in_event(r)
        PROVE  wake' \in BOOLEAN
    BY <2>1 DEF analog_in_event, sched_shutdown, sched_wake_task
  <2>2. ASSUME NEW n, NEW c, command_query_analog_in(n, c) \/ analog_in_task
        PROVE  wake' \in BOOLEAN
    BY <2>2 DEF command_query_analog_in, analog_in_task, sched_check_wake
  <2> QED BY <1>3, <2>1, <2>2 DEF AnalogStep, AnalogNext
<1>4. CASE EndstopStep
  BY <1>4 DEF EndstopStep
<1>5. CASE ProbeStep
  <2>1. Detector => wake' \in BOOLEAN
    BY DEF Detector, DMA1_Channel1_IRQHandler, ff_eddy_timer_event, CheckTrigger, CheckRead,
       CheckBad, CheckHard, CheckAbove, CheckBelow, CheckBand, ff_eddy_rebaseline,
       sched_wake_task, sched_check_wake
  <2>2. ASSUME NEW stops, EddyRelease \/ ff_eddy_home_reset(stops)
        PROVE  wake' = wake
    BY <2>2 DEF EddyRelease, ff_eddy_home_reset
  <2>3. ASSUME NEW e, ProbeEndstop(e)
        PROVE  wake' = wake
    BY <2>2, <2>3 DEF ProbeEndstop
  <2> QED BY <1>5, <2>1, <2>3 DEF ProbeStep
<1>6. CASE Shutdown \/ ClearShutdown \/ UNCHANGED vars
  BY <1>6 DEF Shutdown, sched_shutdown, ClearShutdown, vars
<1> QED BY <1>1, <1>2, <1>3, <1>4, <1>5, <1>6 DEF Next

\* A step of the drivers is a step of the endstops, or leaves them alone.
LEMMA EndstopsStep ==
  ASSUME shut \in BOOLEAN, eddy \in BOOLEAN, conf \in Confs, [Next]_vars
  PROVE  \/ [E!Next]_(E!vars)
         \/ UNCHANGED estvars /\ eddy' \in BOOLEAN /\ shut' \in BOOLEAN
<1>1. CASE DigitalStep \/ PwmStep \/ TmcStep \/ AnalogStep
  <2>1. UNCHANGED <<eddyvars, estvars>>
    BY <1>1 DEF DigitalStep, PwmStep, TmcStep, AnalogStep
  <2> QED BY <2>1, SharedFlags DEF eddyvars, vars
<1>2. CASE EndstopStep
  BY <1>2 DEF EndstopStep, E!Next, EndstopHome, EndstopQuery, EndstopTimer
<1>3. CASE ProbeStep
  <2>1. ASSUME NEW e \in Probes, ProbeEndstop(e)
        PROVE  E!Next
    <3>1. e \in Endstops
      BY DriversAssumption
    <3> QED BY <2>1, <3>1 DEF ProbeEndstop, E!Next, EndstopHome, EndstopQuery, EndstopTimer
  <2>2. Detector => eddy' \in BOOLEAN
    BY DEF Detector, DMA1_Channel1_IRQHandler, ff_eddy_timer_event, CheckTrigger, CheckRead,
       CheckBad, CheckHard, CheckAbove, CheckBelow, CheckBand, ff_eddy_rebaseline
  <2> QED BY <1>3, <2>1, <2>2, SharedFlags DEF ProbeStep, vars
<1>4. CASE Shutdown
  <2>1. CASE conf \in {"endstop", "probe"}
    <3>1. E!Shutdown(es) /\ EddyShutdown /\ UNCHANGED <<port, active, run>>
      BY <1>4, <2>1 DEF Shutdown
    <3> QED BY <3>1 DEF EddyShutdown, E!Next, E!ShutdownStep
  <2>2. CASE conf \notin {"endstop", "probe"}
    <3>1. conf \in {"digital", "pwm", "tmcuart", "analog"}
      BY <2>2 DEF Confs
    <3>2. UNCHANGED <<eddyvars, estvars>>
      BY <1>4, <3>1 DEF Shutdown, DigitalHalt, PwmHalt
    <3> QED BY <1>4, <3>2, SharedFlags DEF eddyvars, vars
  <2> QED BY <2>1, <2>2
<1>5. CASE ClearShutdown
  BY <1>5 DEF ClearShutdown, sched_clear_shutdown, eddyvars
<1>6. CASE UNCHANGED vars
  BY <1>6 DEF vars, eddyvars
<1> QED BY <1>1, <1>2, <1>3, <1>4, <1>5, <1>6 DEF Next

\* Whatever the drivers do, the endstops keep their invariant.
LEMMA EndstopsNext ==
  ASSUME conf \in Confs, EP!Inv, [Next]_vars
  PROVE  conf' \in Confs /\ EP!Inv'
<1>1. EP!ConstantsOK
  BY DriversAssumption DEF EP!ConstantsOK
<1>2. /\ shut \in BOOLEAN /\ eddy \in BOOLEAN
      /\ port \in [Endstops \ Probes -> BOOLEAN]
  BY DEF EP!Inv, EP!TypeOK
<1>3. conf' \in Confs
  BY DEF Next, vars
<1>4. CASE [E!Next]_(E!vars)
  <2>1. [EP!Next]_(EP!vars)
    BY <1>4, SameEndstops DEF EP!vars, E!vars
  <2> QED BY <1>1, <1>3, <2>1, EP!NextInv
<1>5. CASE UNCHANGED estvars /\ eddy' \in BOOLEAN /\ shut' \in BOOLEAN
  <2>1. /\ UNCHANGED <<es, active, run>> /\ port' \in [Endstops \ Probes -> BOOLEAN]
    BY <1>2, <1>5 DEF estvars
  <2> QED BY <1>3, <1>5, <2>1, EP!RestChanged
<1> QED BY <1>2, <1>4, <1>5, EndstopsStep

-----------------------------------------------------------------------------
\* The bed probe.

\* struct of the probe: every counter stays below the limit that acts on it.
ProbeRecord ==
  [ timer : BOOLEAN, sample_ready : BOOLEAN, armed : BOOLEAN,
    calibrated : BOOLEAN, hard_trigger : BOOLEAN, have_filter : BOOLEAN,
    inrange_count : 0 .. DriftCount - 1, outrange_count : 0 .. HardCount - 1,
    ring_count : 0 .. RingSize, quiet_start_ms : 0 .. Word - 1,
    trig_count : 0 .. TrigCount, untrig_count : 0 .. UntrigCount ]

\* The probe, its task and the history of the readings.
EddyTypes ==
  /\ probe \in ProbeRecord /\ eddy \in BOOLEAN /\ touch \in BOOLEAN
  /\ check \in {"none", "hard", "soft"}
  /\ past \in 0 .. TrigCount /\ gross \in 0 .. HardCount

\* Every way in which the level may fall, now or later, has its touch behind it: a
\* forced trigger that waits, the one the task has taken, and the counts, which never
\* run ahead of the readings in a row that were seen.
TouchInv ==
  /\ (~eddy \/ probe.hard_trigger \/ check = "hard") => touch
  /\ probe.trig_count <= past \/ touch
  /\ probe.outrange_count <= gross

\* What holds of the probe.
ProbeInv == EddyTypes /\ (conf = "probe" => TouchInv)

\* The struct of the probe stays one.
LEMMA ProbeTypes ==
  ASSUME NEW p \in ProbeRecord
  PROVE  /\ \A b \in BOOLEAN : /\ [p EXCEPT !.timer = b] \in ProbeRecord
                              /\ [p EXCEPT !.sample_ready = b] \in ProbeRecord
                              /\ [p EXCEPT !.armed = b] \in ProbeRecord
                              /\ [p EXCEPT !.hard_trigger = b] \in ProbeRecord
         /\ \A n \in 0 .. TrigCount, m \in 0 .. UntrigCount :
              [p EXCEPT !.trig_count = n, !.untrig_count = m] \in ProbeRecord
BY Zenon DEF ProbeRecord

\* ff_eddy_update counts a gross excursion, or forgets those before.
LEMMA ClassifiedProbe ==
  ASSUME NEW p \in ProbeRecord, NEW dev \in {"quiet", "touch", "gross"}
  PROVE  LET q == Classified(p, dev)
         IN  /\ q \in ProbeRecord
             /\ q.trig_count = p.trig_count
             /\ IF p.armed /\ dev = "gross"
                THEN /\ q.outrange_count <= p.outrange_count + 1
                     /\ q.hard_trigger => \/ p.hard_trigger
                                          \/ p.outrange_count + 1 = HardCount
                ELSE q.hard_trigger = p.hard_trigger /\ q.outrange_count = 0
<1>1. /\ DriftCount \in Nat \ {0} /\ HardCount \in Nat \ {0}
      /\ 0 \in 0 .. DriftCount - 1 /\ 0 \in 0 .. HardCount - 1
  BY DriversAssumption
<1>2. /\ p.inrange_count \in 0 .. DriftCount - 1 /\ p.outrange_count \in 0 .. HardCount - 1
      /\ p.armed \in BOOLEAN /\ p.hard_trigger \in BOOLEAN
  BY DEF ProbeRecord
<1>3. /\ (p.inrange_count + 1) % DriftCount \in 0 .. DriftCount - 1
      /\ (p.outrange_count + 1) % HardCount \in 0 .. HardCount - 1
      /\ (p.outrange_count + 1) % HardCount <= p.outrange_count + 1
  BY <1>1, <1>2
<1>4. CASE ~p.armed \/ dev = "quiet"
  <2>1. Classified(p, dev) = [p EXCEPT !.inrange_count = 0, !.outrange_count = 0]
    BY <1>4 DEF Classified
  <2>2. Classified(p, dev) \in ProbeRecord
    BY <1>1, <2>1, Zenon DEF ProbeRecord
  <2> QED BY <1>4, <2>1, <2>2 DEF ProbeRecord
<1>5. CASE p.armed /\ dev = "touch"
  <2>1. Classified(p, dev) = [p EXCEPT !.inrange_count = (p.inrange_count + 1) % DriftCount,
                                       !.outrange_count = 0]
    BY <1>5 DEF Classified
  <2>2. Classified(p, dev) \in ProbeRecord
    BY <1>1, <1>3, <2>1, Zenon DEF ProbeRecord
  <2> QED BY <1>5, <2>1, <2>2 DEF ProbeRecord
<1>6. CASE p.armed /\ dev = "gross"
  <2> DEFINE n == (p.outrange_count + 1) % HardCount
             b == p.hard_trigger \/ p.outrange_count + 1 = HardCount
  <2>1. Classified(p, dev) = [p EXCEPT !.outrange_count = n, !.hard_trigger = b]
    BY <1>6 DEF Classified
  <2>2. n \in 0 .. HardCount - 1 /\ b \in BOOLEAN /\ n <= p.outrange_count + 1
    BY <1>2, <1>3
  <2>3. b => (p.hard_trigger \/ p.outrange_count + 1 = HardCount)
    OBVIOUS
  <2> HIDE DEF n, b
  <2>4. Classified(p, dev) \in ProbeRecord
    BY <2>1, <2>2, Zenon DEF ProbeRecord
  <2> QED BY <1>6, <2>1, <2>2, <2>3, <2>4 DEF ProbeRecord
<1> QED BY <1>2, <1>4, <1>5, <1>6

\* The rest of ff_eddy_update leaves the counts the task and the touch are about.
LEMMA MeasuredProbe ==
  ASSUME NEW p \in ProbeRecord, NEW noisy \in BOOLEAN, NEW now \in Clock
  PROVE  LET q == Measured(p, noisy, now)
         IN  /\ q \in ProbeRecord
             /\ q.trig_count = p.trig_count /\ q.hard_trigger = p.hard_trigger
             /\ q.outrange_count \in {0, p.outrange_count}
<1> DEFINE ring == IF p.ring_count < RingSize THEN p.ring_count + 1 ELSE RingSize
           q == [p EXCEPT !.sample_ready = FALSE, !.ring_count = ring]
           start == IF p.quiet_start_ms = 0 THEN now ELSE p.quiet_start_ms
<1>1. /\ 0 \in 0 .. DriftCount - 1 /\ 0 \in 0 .. HardCount - 1 /\ 0 \in 0 .. RingSize
      /\ 0 \in 0 .. Word - 1 /\ now \in 0 .. Word - 1
  BY DriversAssumption, WordAssumption DEF Clock
<1>2. ring \in 0 .. RingSize /\ start \in 0 .. Word - 1
  BY <1>1, DriversAssumption DEF ProbeRecord
<1>3. Measured(p, noisy, now) \in {[q EXCEPT !.have_filter = TRUE, !.quiet_start_ms = now], q,
        [q EXCEPT !.quiet_start_ms = 0], Recalibrated(q), [q EXCEPT !.quiet_start_ms = start]}
  BY DEF Measured
<1> HIDE DEF ring, start
<1>4. q \in ProbeRecord
  BY <1>2, Zenon DEF ProbeRecord
<1>5. /\ q.trig_count = p.trig_count /\ q.hard_trigger = p.hard_trigger
      /\ q.outrange_count = p.outrange_count
  BY DEF ProbeRecord
<1> HIDE DEF q
<1>6. \A n \in 0 .. Word - 1 :
        /\ [q EXCEPT !.have_filter = TRUE, !.quiet_start_ms = n] \in ProbeRecord
        /\ [q EXCEPT !.quiet_start_ms = n] \in ProbeRecord
  BY <1>4, Zenon DEF ProbeRecord
<1>7. Recalibrated(q) \in ProbeRecord
  BY <1>1, <1>4, ZenonT(60) DEF ProbeRecord, Recalibrated
<1>8. Measured(p, noisy, now) \in ProbeRecord
  BY <1>1, <1>2, <1>3, <1>4, <1>6, <1>7, ZenonT(60)
<1> QED BY <1>3, <1>4, <1>5, <1>8 DEF Recalibrated, ProbeRecord

\* The interrupt, the timer and the task of the detector keep what is behind a touch.
LEMMA DetectorTouch ==
  ASSUME ProbeInv, conf = "probe", Detector
  PROVE  EddyTypes' /\ TouchInv'
<1>1. /\ probe \in ProbeRecord /\ eddy \in BOOLEAN /\ touch \in BOOLEAN
      /\ check \in {"none", "hard", "soft"}
      /\ past \in 0 .. TrigCount /\ gross \in 0 .. HardCount
      /\ TouchInv
  BY DEF ProbeInv, EddyTypes
<1>2. /\ TrigCount \in Nat \ {0} /\ UntrigCount \in Nat \ {0} /\ HardCount \in Nat \ {0}
  BY DriversAssumption
<1>3. /\ probe.trig_count \in 0 .. TrigCount /\ probe.untrig_count \in 0 .. UntrigCount
      /\ probe.outrange_count \in 0 .. HardCount - 1
      /\ probe.armed \in BOOLEAN /\ probe.hard_trigger \in BOOLEAN
  BY <1>1 DEF ProbeRecord
<1>4. CASE DMA1_Channel1_IRQHandler
  <2>1. probe' \in ProbeRecord
    BY <1>1, <1>4, ProbeTypes, Zenon DEF DMA1_Channel1_IRQHandler
  <2>2. UNCHANGED <<eddy, check, past, gross, touch>>
    BY <1>4 DEF DMA1_Channel1_IRQHandler
  <2>3. /\ probe'.hard_trigger = probe.hard_trigger /\ probe'.trig_count = probe.trig_count
        /\ probe'.outrange_count = probe.outrange_count
    BY <1>1, <1>4 DEF DMA1_Channel1_IRQHandler, ProbeRecord
  <2> QED BY <1>1, <2>1, <2>2, <2>3 DEF EddyTypes, TouchInv
<1>5. ASSUME NEW dev \in {"quiet", "touch", "gross"}, NEW noisy \in BOOLEAN, NEW now \in NowMs,
             ff_eddy_timer_event(dev, noisy, now)
      PROVE  EddyTypes' /\ TouchInv'
  <2> DEFINE c == Classified(probe, dev)
             p == IF probe.sample_ready THEN Measured(c, noisy, now) ELSE probe
             r == IF dev # "gross" \/ ~probe.armed THEN 0
                  ELSE IF gross = HardCount THEN gross ELSE gross + 1
  <2>1. /\ probe' = [p EXCEPT !.armed = p.armed \/ p.calibrated]
        /\ gross' = IF probe.sample_ready THEN r ELSE gross
        /\ touch' = (touch \/ gross' = HardCount)
        /\ UNCHANGED <<eddy, check, past>>
    BY <1>5 DEF ff_eddy_timer_event
  <2>2. now \in Clock
    BY DriversAssumption
  <2>3. /\ c \in ProbeRecord /\ c.trig_count = probe.trig_count
        /\ IF probe.armed /\ dev = "gross"
           THEN /\ c.outrange_count <= probe.outrange_count + 1
                /\ c.hard_trigger => \/ probe.hard_trigger
                                     \/ probe.outrange_count + 1 = HardCount
           ELSE c.hard_trigger = probe.hard_trigger /\ c.outrange_count = 0
    BY <1>1, ClassifiedProbe
  <2>4. /\ c.outrange_count \in 0 .. HardCount - 1 /\ c.hard_trigger \in BOOLEAN
    BY <2>3 DEF ProbeRecord
  <2> HIDE DEF c
  <2>5. /\ Measured(c, noisy, now) \in ProbeRecord
        /\ Measured(c, noisy, now).trig_count = c.trig_count
        /\ Measured(c, noisy, now).hard_trigger = c.hard_trigger
        /\ Measured(c, noisy, now).outrange_count \in {0, c.outrange_count}
    BY <2>2, <2>3, MeasuredProbe
  <2>6. /\ p \in ProbeRecord /\ p.trig_count = probe.trig_count
        /\ IF probe.sample_ready
           THEN p.hard_trigger = c.hard_trigger /\ p.outrange_count \in {0, c.outrange_count}
           ELSE p = probe
    BY <1>1, <2>3, <2>5
  <2> HIDE DEF p
  <2>7. /\ probe' \in ProbeRecord /\ probe'.trig_count = p.trig_count
        /\ probe'.hard_trigger = p.hard_trigger /\ probe'.outrange_count = p.outrange_count
    <3>1. (p.armed \/ p.calibrated) \in BOOLEAN
      BY <2>6 DEF ProbeRecord
    <3>2. probe' \in ProbeRecord
      BY <2>1, <2>6, <3>1, ProbeTypes, Zenon
    <3> QED BY <2>1, <2>6, <3>2 DEF ProbeRecord
  <2>8. gross' \in 0 .. HardCount /\ probe'.outrange_count <= gross'
        /\ (probe'.hard_trigger => probe.hard_trigger \/ gross' = HardCount)
    <3>1. CASE ~probe.sample_ready
      BY <1>1, <1>3, <2>1, <2>6, <2>7, <3>1 DEF TouchInv
    <3>2. CASE probe.sample_ready /\ probe.armed /\ dev = "gross"
      BY <1>1, <1>2, <1>3, <2>1, <2>3, <2>4, <2>6, <2>7, <3>2 DEF TouchInv
    <3>3. CASE probe.sample_ready /\ ~(probe.armed /\ dev = "gross")
      BY <1>1, <1>2, <1>3, <2>1, <2>3, <2>4, <2>6, <2>7, <3>3 DEF TouchInv
    <3> QED BY <3>1, <3>2, <3>3
  <2>9. touch' \in BOOLEAN /\ (touch => touch') /\ (gross' = HardCount => touch')
    BY <1>1, <2>1
  <2>10. EddyTypes'
    BY <1>1, <2>1, <2>7, <2>8, <2>9 DEF EddyTypes
  <2> QED BY <1>1, <1>3, <2>1, <2>6, <2>7, <2>8, <2>9, <2>10 DEF TouchInv
<1>6. CASE CheckRead
  <2>1. /\ probe' = [probe EXCEPT !.hard_trigger = FALSE]
        /\ UNCHANGED <<eddy, past, gross, touch>>
        /\ check' = IF probe.hard_trigger THEN "hard" ELSE "soft"
    BY <1>6 DEF CheckRead
  <2>2. probe' \in ProbeRecord
    BY <1>1, <2>1, ProbeTypes, Zenon
  <2>3. /\ ~probe'.hard_trigger /\ probe'.trig_count = probe.trig_count
        /\ probe'.outrange_count = probe.outrange_count
    BY <1>1, <2>1 DEF ProbeRecord
  <2> QED BY <1>1, <2>1, <2>2, <2>3 DEF EddyTypes, TouchInv
<1>7. CASE CheckBad
  BY <1>1, <1>7 DEF CheckBad, EddyTypes, TouchInv
<1>8. CASE CheckHard
  <2>1. probe' \in ProbeRecord
    <3>1. /\ 0 \in 0 .. TrigCount /\ 0 \in 0 .. UntrigCount
          /\ probe' = [probe EXCEPT !.trig_count = 0, !.untrig_count = 0]
      BY <1>2, <1>8 DEF CheckHard
    <3> QED BY <1>1, <3>1, ProbeTypes, Zenon
  <2>2. /\ probe'.hard_trigger = probe.hard_trigger /\ probe'.trig_count = 0
        /\ probe'.outrange_count = probe.outrange_count
    BY <1>1, <1>8 DEF ProbeRecord, CheckHard
  <2> QED BY <1>1, <1>8, <2>1, <2>2 DEF CheckHard, EddyTypes, TouchInv
<1>9. CASE CheckAbove
  <2> DEFINE trips == probe.trig_count + 1 >= TrigCount
             n == IF trips THEN TrigCount ELSE probe.trig_count + 1
  <2>1. /\ probe' = [probe EXCEPT !.trig_count = n, !.untrig_count = 0]
        /\ eddy' = (eddy /\ ~trips) /\ check' = "none"
        /\ past' = IF past = TrigCount THEN past ELSE past + 1
        /\ touch' = (touch \/ past' = TrigCount)
        /\ UNCHANGED gross
    BY <1>9 DEF CheckAbove
  <2>2. n \in 0 .. TrigCount /\ 0 \in 0 .. UntrigCount /\ past' \in 0 .. TrigCount
    BY <1>1, <1>2, <1>3, <2>1
  <2>3. probe' \in ProbeRecord
    BY <1>1, <2>1, <2>2, ProbeTypes
  <2>4. /\ probe'.hard_trigger = probe.hard_trigger /\ probe'.trig_count = n
        /\ probe'.outrange_count = probe.outrange_count
    BY <1>1, <2>1 DEF ProbeRecord
  <2>5. touch' \in BOOLEAN /\ (touch => touch') /\ (past' = TrigCount => touch')
    BY <1>1, <2>1
  <2>6. trips => touch'
    BY <1>1, <1>2, <1>3, <2>1, <2>5 DEF TouchInv
  <2>7. n <= past' \/ touch'
    BY <1>1, <1>2, <1>3, <2>1, <2>5 DEF TouchInv
  <2>8. EddyTypes'
    BY <1>1, <2>1, <2>2, <2>3, <2>5 DEF EddyTypes
  <2> HIDE DEF n, trips
  <2> QED BY <1>1, <2>1, <2>4, <2>5, <2>6, <2>7, <2>8 DEF TouchInv
<1>10. CASE CheckBelow
  <2> DEFINE n == IF probe.untrig_count + 1 >= UntrigCount THEN UntrigCount
                  ELSE probe.untrig_count + 1
  <2>1. /\ probe' = [probe EXCEPT !.trig_count = 0, !.untrig_count = n]
        /\ eddy' = (eddy \/ probe.untrig_count + 1 >= UntrigCount) /\ check' = "none"
        /\ past' = 0 /\ UNCHANGED <<gross, touch>>
    BY <1>10 DEF CheckBelow
  <2>2. n \in 0 .. UntrigCount /\ 0 \in 0 .. TrigCount
    BY <1>2, <1>3
  <2> HIDE DEF n
  <2>3. probe' \in ProbeRecord
    BY <1>1, <2>1, <2>2, ProbeTypes
  <2>4. /\ probe'.hard_trigger = probe.hard_trigger /\ probe'.trig_count = 0
        /\ probe'.outrange_count = probe.outrange_count
    BY <1>1, <2>1 DEF ProbeRecord
  <2>5. eddy' \in BOOLEAN /\ (eddy => eddy')
    BY <1>1, <2>1
  <2> QED BY <1>1, <2>1, <2>2, <2>3, <2>4, <2>5 DEF EddyTypes, TouchInv
<1>11. CASE CheckBand
  <2>1. /\ probe' = IF eddy THEN [probe EXCEPT !.trig_count = 0]
                            ELSE [probe EXCEPT !.untrig_count = 0]
        /\ check' = "none" /\ past' = 0 /\ UNCHANGED <<eddy, gross, touch>>
    BY <1>11 DEF CheckBand, Band
  <2>2. /\ [probe EXCEPT !.trig_count = 0] \in ProbeRecord
        /\ [probe EXCEPT !.untrig_count = 0] \in ProbeRecord
    <3>1. 0 \in 0 .. UntrigCount /\ 0 \in 0 .. TrigCount
      BY <1>2
    <3> QED BY <1>1, <3>1, Zenon DEF ProbeRecord
  <2>3. probe' \in ProbeRecord
    BY <2>1, <2>2
  <2>4. /\ probe'.hard_trigger = probe.hard_trigger /\ (eddy => probe'.trig_count = 0)
        /\ probe'.outrange_count = probe.outrange_count
    BY <1>1, <2>1 DEF ProbeRecord
  <2> QED BY <1>1, <1>2, <2>1, <2>3, <2>4 DEF EddyTypes, TouchInv
<1>12. CASE ff_eddy_rebaseline
  <2> DEFINE r == Reset(probe)
  <2>1. r \in ProbeRecord /\ r.hard_trigger = FALSE /\ r.trig_count = 0
    <3>1. 0 \in 0 .. UntrigCount /\ 0 \in 0 .. TrigCount
      BY <1>2
    <3>2. r \in ProbeRecord
      BY <1>1, <3>1, ZenonT(60) DEF ProbeRecord, Reset
    <3> QED BY <1>1, <3>2 DEF ProbeRecord, Reset
  <2> HIDE DEF r
  <2>2. probe' = [r EXCEPT !.ring_count = 0, !.have_filter = TRUE, !.quiet_start_ms = 0,
                           !.inrange_count = 0, !.outrange_count = 0, !.calibrated = TRUE]
    BY <1>12 DEF ff_eddy_rebaseline, r
  <2>3. probe' \in ProbeRecord
    <3>1. /\ 0 \in 0 .. DriftCount - 1 /\ 0 \in 0 .. HardCount - 1 /\ 0 \in 0 .. RingSize
          /\ 0 \in 0 .. Word - 1
      BY DriversAssumption, WordAssumption
    <3> QED BY <2>1, <2>2, <3>1, ZenonT(60) DEF ProbeRecord
  <2>4. ~probe'.hard_trigger /\ probe'.trig_count = 0 /\ probe'.outrange_count = 0
    BY <2>1, <2>2 DEF ProbeRecord
  <2>5. eddy' = TRUE /\ check' = "none" /\ past' = 0 /\ touch' = FALSE /\ gross' = gross
    BY <1>12 DEF ff_eddy_rebaseline
  <2>6. EddyTypes'
    <3>1. past' \in 0 .. TrigCount /\ gross' \in 0 .. HardCount
      BY <1>1, <1>2, <2>5
    <3>2. eddy' \in BOOLEAN /\ touch' \in BOOLEAN /\ check' \in {"none", "hard", "soft"}
      BY <2>5
    <3> QED BY <2>3, <3>1, <3>2 DEF EddyTypes
  <2> QED BY <1>1, <2>4, <2>5, <2>6 DEF TouchInv
<1> QED BY <1>4, <1>5, <1>6, <1>7, <1>8, <1>9, <1>10, <1>11, <1>12 DEF Detector, CheckTrigger

\* So do the commands of the probe's endstop, which let go of the level and, with the
\* counts and the forced trigger, of the touch behind them.
LEMMA ResetTouch ==
  ASSUME ProbeInv, conf = "probe",
         EddyRelease \/ \E stops \in BOOLEAN : ff_eddy_home_reset(stops)
  PROVE  EddyTypes' /\ TouchInv'
<1>1. /\ probe \in ProbeRecord /\ touch \in BOOLEAN
      /\ check \in {"none", "hard", "soft"}
      /\ past \in 0 .. TrigCount /\ gross \in 0 .. HardCount
      /\ TouchInv
  BY DEF ProbeInv, EddyTypes
<1>2. CASE EddyRelease
  BY <1>1, <1>2 DEF EddyRelease, EddyTypes, TouchInv
<1>3. ASSUME NEW stops \in BOOLEAN, ff_eddy_home_reset(stops)
      PROVE  EddyTypes' /\ TouchInv'
  <2> DEFINE r == Reset(probe)
  <2>1. 0 \in 0 .. UntrigCount /\ 0 \in 0 .. TrigCount
    BY DriversAssumption
  <2>2. r \in ProbeRecord
    BY <1>1, <2>1, ZenonT(60) DEF ProbeRecord, Reset
  <2>3. ~r.hard_trigger /\ r.trig_count = 0 /\ r.outrange_count = probe.outrange_count
    BY <1>1 DEF ProbeRecord, Reset
  <2> HIDE DEF r
  <2>4. probe' = [r EXCEPT !.timer = r.timer /\ ~stops]
    BY <1>3 DEF ff_eddy_home_reset, Halted, r
  <2>5. (r.timer /\ ~stops) \in BOOLEAN
    OBVIOUS
  <2>6. probe' \in ProbeRecord
    BY <2>2, <2>4, <2>5, ProbeTypes, Zenon
  <2>7. /\ ~probe'.hard_trigger /\ probe'.trig_count = 0
        /\ probe'.outrange_count = probe.outrange_count
    BY <2>2, <2>3, <2>4 DEF ProbeRecord
  <2>8. eddy' = TRUE /\ check = "none" /\ check' = "none" /\ past' = 0 /\ touch' = FALSE
        /\ gross' = gross
    BY <1>3 DEF ff_eddy_home_reset
  <2>9. EddyTypes'
    BY <1>1, <2>1, <2>6, <2>8 DEF EddyTypes
  <2> QED BY <1>1, <2>7, <2>8, <2>9 DEF TouchInv
<1> QED BY <1>2, <1>3

\* Every step of the drivers keeps the invariant of the probe.
LEMMA ProbeNext ==
  ASSUME ProbeInv, conf \in Confs, shut \in BOOLEAN, [Next]_vars
  PROVE  ProbeInv'
<1>1. ASSUME UNCHANGED <<probe, check, past, gross, touch>>, eddy' \in BOOLEAN,
             conf' = conf, conf = "probe" => eddy' = eddy
      PROVE  ProbeInv'
  BY <1>1 DEF ProbeInv, EddyTypes, TouchInv
<1>2. conf' = conf
  BY DEF Next, vars
<1>3. eddy \in BOOLEAN
  BY DEF ProbeInv, EddyTypes
<1>4. CASE UNCHANGED eddyvars
  BY <1>1, <1>2, <1>3, <1>4 DEF eddyvars
<1>5. CASE DigitalStep \/ PwmStep \/ TmcStep \/ AnalogStep
  BY <1>4, <1>5 DEF DigitalStep, PwmStep, TmcStep, AnalogStep
<1>6. CASE EndstopStep
  <2>1. conf = "endstop" /\ UNCHANGED <<probe, check, past, gross, touch>>
    BY <1>6 DEF EndstopStep
  <2>2. ASSUME NEW e \in Endstops,
               \/ E!HomeOff(e) \/ EndstopHome(e) \/ EndstopQuery(e) \/ EndstopTimer(e)
               \/ E!command_endstop_recover_state(e)
        PROVE  eddy' \in BOOLEAN
    BY <1>3, <2>2 DEF E!HomeOff, EndstopHome, EndstopQuery, EndstopTimer,
       E!command_endstop_home, E!command_endstop_query_state,
       E!command_endstop_recover_state, E!SampleMismatch, E!SampleMatch, E!SampleTriggers
  <2>3. E!PinChange => eddy' \in BOOLEAN
    BY <1>3 DEF E!PinChange, E!EddyChange, E!PortChange
  <2>4. eddy' \in BOOLEAN
    BY <1>6, <2>2, <2>3 DEF EndstopStep
  <2> QED BY <1>1, <1>2, <2>1, <2>4
<1>7. CASE ProbeStep
  <2>1. conf = "probe"
    BY <1>7 DEF ProbeStep
  <2>2. ASSUME NEW e \in Probes, ProbeEndstop(e)
        PROVE  ProbeInv'
    <3>1. \/ EddyRelease \/ (\E stops \in BOOLEAN : ff_eddy_home_reset(stops))
          \/ UNCHANGED eddyvars
      <4>1. (shut' # shut) \in BOOLEAN /\ FALSE \in BOOLEAN
        OBVIOUS
      <4> QED BY <2>2, <4>1, Zenon DEF ProbeEndstop
    <3> QED BY <1>2, <1>4, <2>1, <3>1, ResetTouch DEF ProbeInv
  <2>3. Detector => ProbeInv'
    BY <1>2, <2>1, DetectorTouch DEF ProbeInv
  <2> QED BY <1>7, <2>2, <2>3 DEF ProbeStep
<1>8. CASE Shutdown
  <2>1. CASE conf \in {"endstop", "probe"}
    <3>1. probe' = [probe EXCEPT !.timer = probe.timer /\ ~TRUE] /\ check' = "none"
          /\ UNCHANGED <<eddy, past, gross, touch>>
      BY <1>8, <2>1 DEF Shutdown, EddyShutdown, Halted
    <3>2. probe \in ProbeRecord
      BY DEF ProbeInv, EddyTypes
    <3>3. (probe.timer /\ ~TRUE) \in BOOLEAN
      OBVIOUS
    <3>4. probe' \in ProbeRecord
      BY <3>1, <3>2, <3>3, ProbeTypes, Zenon
    <3>5. /\ probe'.hard_trigger = probe.hard_trigger /\ probe'.trig_count = probe.trig_count
          /\ probe'.outrange_count = probe.outrange_count
      BY <3>1, <3>2 DEF ProbeRecord
    <3>6. EddyTypes'
      BY <3>1, <3>4 DEF ProbeInv, EddyTypes
    <3> QED BY <1>2, <3>1, <3>5, <3>6 DEF ProbeInv, TouchInv
  <2>2. CASE conf \notin {"endstop", "probe"}
    <3>1. conf \in {"digital", "pwm", "tmcuart", "analog"}
      BY <2>2 DEF Confs
    <3> QED BY <1>4, <1>8, <3>1 DEF Shutdown, DigitalHalt, PwmHalt
  <2> QED BY <2>1, <2>2
<1>9. CASE ClearShutdown \/ UNCHANGED vars
  BY <1>4, <1>9 DEF ClearShutdown, vars
<1> QED BY <1>5, <1>6, <1>7, <1>8, <1>9 DEF Next

-----------------------------------------------------------------------------
\* The analog inputs.

\* struct analog_in.
AnalogRecord ==
  [ timer : BOOLEAN, value : Nat, state : Nat, sample_count : SampleCounts \cup {0},
    range_check_count : RangeCounts \cup {0}, invalid_count : 0 .. MaxInvalid ]

\* state tells how much of a round value holds: below sample_count a part of one, at
\* sample_count all of it, above it nothing that is still to be reported.
RoundInv(a, r) ==
  /\ a.state \in 1 .. a.sample_count + 1
  /\ a.state <= a.sample_count => r = [n |-> a.state, sum |-> a.value]
  /\ a.state = a.sample_count + 1 => r.n \in {0, a.sample_count}
  /\ r.n = 0 => r.sum = 0

\* The firmware's own count of bad rounds is never behind, and the checks are on
\* while it samples.
CheckInv(a) ==
  /\ a.timer => a.sample_count # 0
  /\ a.sample_count # 0 => a.range_check_count # 0
  /\ bad <= a.invalid_count
  /\ (~shut /\ a.timer) => bad < a.range_check_count
  /\ (shut \/ conf # "analog") => bad = 0

\* What holds of the analog input.
AnalogInv ==
  /\ adc \in AnalogRecord /\ round \in [n : Nat, sum : Nat] /\ bad \in Nat
  /\ seen = TRUE
  /\ RoundInv(adc, round) /\ CheckInv(adc)

\* What the assumptions say of the fields that count.
LEMMA AnalogCounts ==
  ASSUME NEW a \in AnalogRecord
  PROVE  /\ a.sample_count \in Nat /\ a.range_check_count \in Nat /\ a.state \in Nat
         /\ a.value \in Nat /\ a.invalid_count \in 0 .. MaxInvalid /\ a.timer \in BOOLEAN
         /\ a.range_check_count # 0 => a.range_check_count >= 1
         /\ MaxInvalid \in Nat
<1>1. /\ \A n \in SampleCounts \cup {0} : n \in Nat
      /\ \A n \in RangeCounts \cup {0} : n \in Nat
      /\ MaxInvalid \in Nat
  BY AnalogAssumption
<1>2. /\ a.sample_count \in SampleCounts \cup {0} /\ a.range_check_count \in RangeCounts \cup {0}
      /\ a.state \in Nat /\ a.value \in Nat /\ a.timer \in BOOLEAN
      /\ a.invalid_count \in 0 .. MaxInvalid
  BY DEF AnalogRecord
<1>3. a.sample_count \in Nat /\ a.range_check_count \in Nat
  BY <1>1, <1>2, Zenon
<1> QED BY <1>1, <1>2, <1>3

\* A shutdown, the driver's own or another's, starts a new round and forgets the bad
\* ones; sampling goes on if it was on.
LEMMA AnalogShut ==
  ASSUME NEW a \in AnalogRecord, analog_in_shutdown(a), shut' = TRUE,
         a.state \in 1 .. a.sample_count + 1, seen = TRUE,
         a.sample_count # 0 => a.range_check_count # 0
  PROVE  AnalogInv'
<1>1. a.sample_count \in Nat /\ a.state \in Nat
  BY AnalogCounts
<1>2. /\ round' = [n |-> 0, sum |-> 0] /\ bad' = 0 /\ seen' = TRUE
  BY DEF analog_in_shutdown
<1>3. CASE a.sample_count = 0
  <2>1. adc' = [a EXCEPT !.timer = FALSE]
    BY <1>3 DEF analog_in_shutdown
  <2>2. adc' \in AnalogRecord
    BY <2>1, Zenon DEF AnalogRecord
  <2>3. /\ ~adc'.timer /\ adc'.sample_count = 0 /\ adc'.state = a.state
        /\ adc'.invalid_count = a.invalid_count
    BY <1>3, <2>1 DEF AnalogRecord
  <2>4. RoundInv(adc', round')
    BY <1>1, <1>2, <1>3, <2>3 DEF RoundInv
  <2>5. CheckInv(adc)'
    BY <1>2, <2>2, <2>3, AnalogCounts DEF CheckInv
  <2> QED BY <1>2, <2>2, <2>4, <2>5 DEF AnalogInv, RoundInv
<1>4. CASE a.sample_count # 0
  <2>1. adc' = [a EXCEPT !.timer = TRUE, !.state = a.sample_count + 1]
    BY <1>4 DEF analog_in_shutdown
  <2>2. adc' \in AnalogRecord
    <3>1. a.sample_count + 1 \in Nat
      BY <1>1
    <3> QED BY <2>1, <3>1, Zenon DEF AnalogRecord
  <2>3. /\ adc'.sample_count = a.sample_count /\ adc'.state = a.sample_count + 1
        /\ adc'.invalid_count = a.invalid_count
        /\ adc'.range_check_count = a.range_check_count
    BY <2>1 DEF AnalogRecord
  <2>4. RoundInv(adc', round')
    BY <1>1, <1>2, <2>3 DEF RoundInv
  <2>5. CheckInv(adc)'
    BY <1>2, <1>4, <2>2, <2>3, AnalogCounts DEF CheckInv
  <2> QED BY <1>2, <2>2, <2>4, <2>5 DEF AnalogInv, RoundInv
<1> QED BY <1>3, <1>4

\* A reading: the driver's sum and the round agree on what was read, and on whether it
\* is full.
LEMMA AnalogEvent ==
  ASSUME AnalogInv, conf = "analog", conf' = conf, shut \in BOOLEAN,
         NEW reading \in Readings, analog_in_event(reading)
  PROVE  AnalogInv'
<1> DEFINE sc == adc.sample_count
           first == RoundOver(adc)
           v == IF first THEN reading ELSE adc.value + reading
           k == IF first THEN 1 ELSE adc.state + 1
           sampled == [adc EXCEPT !.value = v, !.state = k]
           full == k >= sc
           good == InRange(v)
           trips == full /\ ~good /\ InvalidCount(adc) >= adc.range_check_count
           start == round.n = sc
           count == [n |-> IF start THEN 1 ELSE round.n + 1,
                     sum |-> IF start THEN reading ELSE round.sum + reading]
<1>1. /\ adc \in AnalogRecord /\ round \in [n : Nat, sum : Nat] /\ bad \in Nat /\ seen = TRUE
      /\ RoundInv(adc, round) /\ CheckInv(adc)
      /\ round.n \in Nat /\ round.sum \in Nat /\ reading \in Nat
  BY AnalogAssumption DEF AnalogInv
<1>2. /\ sc \in Nat /\ adc.range_check_count \in Nat /\ adc.state \in Nat /\ adc.value \in Nat
      /\ adc.invalid_count \in 0 .. MaxInvalid /\ adc.timer \in BOOLEAN
      /\ MaxInvalid \in Nat
  BY <1>1, AnalogCounts
<1>3. v \in Nat /\ k \in Nat
  BY <1>1, <1>2
<1>4. sampled \in AnalogRecord
  BY <1>1, <1>3, Zenon DEF AnalogRecord
<1>5. /\ sampled.value = v /\ sampled.state = k /\ sampled.sample_count = sc
      /\ sampled.timer = adc.timer /\ sampled.invalid_count = adc.invalid_count
      /\ sampled.range_check_count = adc.range_check_count
  BY <1>1 DEF AnalogRecord
<1>6. /\ adc.timer /\ sc # 0 /\ adc.range_check_count # 0
  BY <1>1 DEF analog_in_event, CheckInv
<1>7. /\ count.n = k /\ count.sum = v /\ k \in 1 .. sc
  <2>1. CASE adc.state < sc
    BY <1>1, <1>2, <2>1 DEF RoundInv, RoundOver
  <2>2. CASE adc.state = sc
    BY <1>1, <1>2, <1>6, <2>2 DEF RoundInv, RoundOver
  <2>3. CASE adc.state = sc + 1
    BY <1>1, <1>2, <1>6, <2>3 DEF RoundInv, RoundOver
  <2> QED BY <1>1, <1>2, <2>1, <2>2, <2>3 DEF RoundInv
<1>8. IF trips /\ ~shut
      THEN /\ sched_shutdown
           /\ analog_in_shutdown([sampled EXCEPT !.invalid_count = InvalidCount(adc)])
      ELSE /\ adc' = [sampled EXCEPT !.invalid_count =
                        CASE ~full -> sampled.invalid_count [] full /\ (good \/ trips) -> 0
                          [] OTHER -> InvalidCount(adc)]
           /\ round' = count
           /\ bad' = CASE count.n < sc \/ shut -> bad
                       [] InRange(count.sum) -> 0
                       [] OTHER -> bad + 1
           /\ UNCHANGED <<shut, seen>>
  BY <1>5 DEF analog_in_event
<1>9. (full /\ ~good) => InvalidCount(adc) <= MaxInvalid
  BY <1>5 DEF analog_in_event
<1>10. InvalidCount(adc) = adc.invalid_count + 1
  BY DEF InvalidCount
<1>11. CASE trips /\ ~shut
  <2> DEFINE a == [sampled EXCEPT !.invalid_count = InvalidCount(adc)]
  <2>1. InvalidCount(adc) \in 0 .. MaxInvalid
    BY <1>2, <1>9, <1>10, <1>11
  <2> HIDE DEF sampled
  <2>2. a \in AnalogRecord
    BY <1>4, <2>1, Zenon DEF AnalogRecord
  <2>3. a.state = k /\ a.sample_count = sc /\ a.range_check_count = adc.range_check_count
    BY <1>4, <1>5 DEF AnalogRecord
  <2>4. analog_in_shutdown(a) /\ shut' = TRUE
    BY <1>8, <1>11 DEF sched_shutdown
  <2> HIDE DEF a
  <2>5. a.state \in 1 .. a.sample_count + 1 /\ a.range_check_count # 0
    BY <1>2, <1>6, <1>7, <2>3
  <2> QED BY <1>1, <2>2, <2>4, <2>5, AnalogShut
<1>12. CASE ~(trips /\ ~shut)
  <2> DEFINE inv == CASE ~full -> sampled.invalid_count [] full /\ (good \/ trips) -> 0
                      [] OTHER -> InvalidCount(adc)
  <2>1. /\ adc' = [sampled EXCEPT !.invalid_count = inv]
        /\ round' = count /\ shut' = shut /\ seen' = TRUE
        /\ bad' = CASE count.n < sc \/ shut -> bad
                    [] InRange(count.sum) -> 0
                    [] OTHER -> bad + 1
    BY <1>1, <1>8, <1>12
  <2> HIDE DEF sampled, count, v
  <2>2. /\ inv \in 0 .. MaxInvalid /\ bad' \in Nat /\ bad' <= inv
        /\ shut => bad' = 0
        /\ ~shut => bad' < adc.range_check_count
    <3>1. bad <= adc.invalid_count /\ (shut => bad = 0) /\ (~shut => bad < adc.range_check_count)
      BY <1>1, <1>6 DEF CheckInv
    <3>2. CASE ~full
      BY <1>1, <1>2, <1>3, <1>5, <1>7, <2>1, <3>1, <3>2
    <3>3. CASE full /\ good
      BY <1>1, <1>2, <1>3, <1>5, <1>6, <1>7, <2>1, <3>1, <3>3
    <3>4. CASE full /\ ~good /\ trips
      BY <1>1, <1>2, <1>3, <1>5, <1>7, <1>12, <2>1, <3>1, <3>4
    <3>5. CASE full /\ ~good /\ ~trips
      BY <1>1, <1>2, <1>3, <1>5, <1>7, <1>9, <1>10, <2>1, <3>1, <3>5
    <3> QED BY <3>2, <3>3, <3>4, <3>5
  <2> HIDE DEF inv
  <2>3. adc' \in AnalogRecord
    BY <1>4, <2>1, <2>2, Zenon DEF AnalogRecord
  <2>4. /\ adc'.state = k /\ adc'.sample_count = sc /\ adc'.value = v /\ adc'.timer
        /\ adc'.range_check_count = adc.range_check_count /\ adc'.invalid_count = inv
    BY <1>4, <1>5, <1>6, <2>1 DEF AnalogRecord
  <2>5. round' = [n |-> k, sum |-> v] /\ round' \in [n : Nat, sum : Nat]
    BY <1>3, <1>7, <2>1 DEF count
  <2> HIDE DEF k, sc
  <2>6. RoundInv(adc', round')
    BY <1>2, <1>3, <1>7, <2>4, <2>5 DEF RoundInv
  <2>7. CheckInv(adc)'
    BY <1>2, <1>6, <2>1, <2>2, <2>4 DEF CheckInv, sc
  <2> QED BY <2>1, <2>2, <2>3, <2>5, <2>6, <2>7 DEF AnalogInv, RoundInv
<1> QED BY <1>11, <1>12

\* Every step of the drivers keeps the invariant of the analog input.
LEMMA AnalogStepInv ==
  ASSUME AnalogInv, conf \in Confs, shut \in BOOLEAN, [Next]_vars
  PROVE  AnalogInv'
<1>1. conf' = conf
  BY DEF Next, vars
<1>2. /\ adc \in AnalogRecord /\ round \in [n : Nat, sum : Nat] /\ bad \in Nat /\ seen = TRUE
      /\ RoundInv(adc, round) /\ CheckInv(adc)
  BY DEF AnalogInv
<1>3. /\ adc.sample_count \in Nat /\ adc.range_check_count \in Nat /\ adc.state \in Nat
      /\ adc.value \in Nat /\ adc.invalid_count \in 0 .. MaxInvalid /\ adc.timer \in BOOLEAN
      /\ MaxInvalid \in Nat /\ (adc.range_check_count # 0 => adc.range_check_count >= 1)
  BY <1>2, AnalogCounts
\* Where the input is left alone, a shutdown may be declared or cleared.
<1>4. ASSUME UNCHANGED adcvars, shut' \in BOOLEAN,
             shut' = shut \/ conf # "analog" \/ ~shut'
      PROVE  AnalogInv'
  <2>1. /\ adc' = adc /\ round' = round /\ bad' = bad /\ seen' = seen
    BY <1>4 DEF adcvars
  <2>2. CheckInv(adc)'
    BY <1>1, <1>2, <1>3, <1>4, <2>1 DEF CheckInv
  <2> QED BY <1>2, <2>1, <2>2 DEF AnalogInv, RoundInv
<1>5. CASE DigitalStep \/ PwmStep \/ TmcStep
  <2>1. UNCHANGED adcvars /\ conf # "analog"
    BY <1>5 DEF DigitalStep, PwmStep, TmcStep
  <2>2. shut' \in BOOLEAN
    BY SharedFlags DEF vars
  <2> QED BY <1>4, <2>1, <2>2
<1>6. CASE EndstopStep \/ ProbeStep
  <2>1. UNCHANGED adcvars /\ conf # "analog"
    BY <1>6 DEF EndstopStep, ProbeStep
  <2>2. shut' \in BOOLEAN
    BY SharedFlags DEF vars
  <2> QED BY <1>4, <2>1, <2>2
<1>7. ASSUME NEW n \in SampleCounts, NEW c \in RangeCounts, conf = "analog",
             command_query_analog_in(n, c)
      PROVE  AnalogInv'
  <2>1. n \in Nat /\ n + 1 \in Nat /\ c \in Nat /\ c # 0 /\ c >= 1 /\ (n # 0) \in BOOLEAN
    BY AnalogAssumption
  <2>2. /\ adc' = [adc EXCEPT !.timer = n # 0, !.sample_count = n, !.state = n + 1,
                              !.range_check_count = c]
        /\ round' = [n |-> 0, sum |-> 0] /\ bad' = 0 /\ seen' = TRUE /\ shut' = shut
    BY <1>2, <1>7 DEF command_query_analog_in
  <2>3. adc' \in AnalogRecord
    BY <1>2, <2>1, <2>2, ZenonT(60) DEF AnalogRecord
  <2>4. /\ adc'.sample_count = n /\ adc'.state = n + 1
        /\ adc'.range_check_count = c /\ adc'.invalid_count = adc.invalid_count
    BY <1>2, <2>2 DEF AnalogRecord
  <2>7. adc'.timer => n # 0
    BY <1>2, <2>2 DEF AnalogRecord
  <2>5. RoundInv(adc', round')
    BY <2>1, <2>2, <2>4 DEF RoundInv
  <2>6. CheckInv(adc)'
    BY <1>1, <1>3, <1>7, <2>1, <2>2, <2>4, <2>7 DEF CheckInv
  <2> QED BY <2>2, <2>3, <2>5, <2>6 DEF AnalogInv, RoundInv
<1>8. CASE conf = "analog" /\ analog_in_task
  <2>1. /\ round' = round /\ bad' = bad /\ shut' = shut
    BY <1>8 DEF analog_in_task
  <2>2. CASE adc.state = adc.sample_count
    <3>1. /\ adc' = [adc EXCEPT !.state = adc.state + 1]
          /\ seen' = (round = [n |-> adc.sample_count, sum |-> adc.value])
      BY <1>8, <2>2 DEF analog_in_task
    <3>2. adc' \in AnalogRecord
      <4>1. adc.state + 1 \in Nat
        BY <1>3
      <4> QED BY <1>2, <3>1, <4>1, Zenon DEF AnalogRecord
    <3>3. /\ adc'.timer = adc.timer /\ adc'.sample_count = adc.sample_count
          /\ adc'.state = adc.state + 1 /\ adc'.invalid_count = adc.invalid_count
          /\ adc'.range_check_count = adc.range_check_count
      BY <1>2, <3>1 DEF AnalogRecord
    <3>4. round = [n |-> adc.sample_count, sum |-> adc.value]
      BY <1>2, <1>3, <2>2 DEF RoundInv
    <3>5. seen' = TRUE /\ round.n = adc.sample_count
      BY <3>1, <3>4
    <3>6. RoundInv(adc', round')
      BY <1>2, <1>3, <2>1, <2>2, <3>3, <3>5 DEF RoundInv
    <3>7. CheckInv(adc)'
      BY <1>1, <1>2, <2>1, <3>3 DEF CheckInv
    <3> QED BY <1>2, <2>1, <3>2, <3>5, <3>6, <3>7 DEF AnalogInv, RoundInv
  <2>3. CASE adc.state # adc.sample_count
    BY <1>4, <1>8, <2>1, <2>3 DEF analog_in_task, adcvars
  <2> QED BY <2>2, <2>3
<1>9. CASE AnalogStep
  BY <1>1, <1>7, <1>8, <1>9, AnalogEvent DEF AnalogStep, AnalogNext
<1>10. CASE Shutdown
  <2>1. shut' = TRUE
    BY <1>10 DEF Shutdown, sched_shutdown
  <2>2. CASE conf = "analog"
    <3>1. analog_in_shutdown(adc)
      BY <1>10, <2>2 DEF Shutdown
    <3> QED BY <1>2, <2>1, <3>1, AnalogShut DEF RoundInv, CheckInv
  <2>3. CASE conf # "analog"
    <3>1. UNCHANGED adcvars
      BY <1>10, <2>3 DEF Shutdown, Confs, DigitalHalt, PwmHalt
    <3> QED BY <1>4, <2>1, <2>3, <3>1
  <2> QED BY <2>2, <2>3
<1>11. CASE ClearShutdown
  BY <1>4, <1>11 DEF ClearShutdown, sched_clear_shutdown
<1>12. CASE UNCHANGED vars
  BY <1>4, <1>12 DEF vars
<1> QED BY <1>5, <1>6, <1>9, <1>10, <1>11, <1>12 DEF Next

-----------------------------------------------------------------------------
\* The UART of the stepper drivers.

\* The two requests of the host, and the bits of their frames.
Kinds == {"read", "write"}
FrameLen(kind) == IF kind = "read" THEN 9 ELSE 10

\* The frames, bit by bit: they begin with the sync nibble.
LEMMA FrameFacts ==
  ASSUME NEW kind \in Kinds
  PROVE  /\ Frame(kind) \in Seq({0, 1}) /\ Len(Frame(kind)) = FrameLen(kind)
         /\ \A i \in 1 .. FrameLen(kind) : Frame(kind)[i] \in {0, 1}
         /\ /\ Frame(kind)[1] = 0 /\ Frame(kind)[2] = 1 /\ Frame(kind)[3] = 0
            /\ Frame(kind)[4] = 1 /\ Frame(kind)[5] = 0 /\ Frame(kind)[6] = 1
<1> DEFINE head == <<0, 1, 0, 1, 0, 1>>
           tail == IF kind = "read" THEN <<1, 0, 1>> ELSE <<0, 0, 1, 1>>
<1>1. head \in Seq({0, 1}) /\ Len(head) = 6
  OBVIOUS
<1>2. tail \in Seq({0, 1}) /\ Len(tail) = FrameLen(kind) - 6 /\ FrameLen(kind) \in {9, 10}
  <2>1. CASE kind = "read"
    BY <2>1 DEF FrameLen
  <2>2. CASE kind = "write"
    BY <2>2 DEF FrameLen
  <2> QED BY <2>1, <2>2 DEF Kinds
<1>3. Frame(kind) = head \o tail
  BY DEF Frame
<1>4. head[1] = 0 /\ head[2] = 1 /\ head[3] = 0 /\ head[4] = 1 /\ head[5] = 0 /\ head[6] = 1
  OBVIOUS
<1> HIDE DEF head, tail
<1>5. Frame(kind) \in Seq({0, 1}) /\ Len(Frame(kind)) = FrameLen(kind)
  <2>1. head \o tail \in Seq({0, 1}) /\ Len(head \o tail) = Len(head) + Len(tail)
    BY <1>1, <1>2, ConcatProperties
  <2> QED BY <1>1, <1>2, <1>3, <2>1
<1>6. \A i \in 1 .. 6 : Frame(kind)[i] = head[i]
  <2>1. \A i \in 1 .. Len(head) + Len(tail) :
          (head \o tail)[i] = IF i <= Len(head) THEN head[i] ELSE tail[i - Len(head)]
    BY <1>1, <1>2, ConcatProperties
  <2>2. \A i \in 1 .. 6 : i \in 1 .. Len(head) + Len(tail) /\ i <= Len(head)
    BY <1>1, <1>2
  <2>3. \A i \in 1 .. 6 : (head \o tail)[i] = head[i]
    BY ONLY <2>1, <2>2
  <2> QED BY ONLY <1>3, <2>3
<1>7. \A i \in 1 .. FrameLen(kind) : Frame(kind)[i] \in {0, 1}
  BY <1>2, <1>5
<1> QED BY <1>4, <1>5, <1>6, <1>7

\* There is a next bit that differs, or an end of the frame, and a first such.
LEMMA FirstOf ==
  ASSUME NEW w \in {9, 10}, NEW a \in 6 .. w, NEW X \in SUBSET Int, w \in X
  PROVE  \E p \in a .. w : p \in X /\ \A q \in a .. p - 1 : q \notin X
<1>1. CASE a \in X
  BY <1>1
<1>2. CASE a \notin X /\ a + 1 \in X
  BY <1>2
<1>3. CASE a \notin X /\ a + 1 \notin X /\ a + 2 \in X
  BY <1>3
<1>4. CASE a \notin X /\ a + 1 \notin X /\ a + 2 \notin X /\ a + 3 \in X
  BY <1>4
<1>5. CASE a \notin X /\ a + 1 \notin X /\ a + 2 \notin X /\ a + 3 \notin X
  BY <1>5
<1> QED BY <1>1, <1>2, <1>3, <1>4, <1>5

\* The line holds a level for n bits.
LEMMA HeldLine ==
  ASSUME NEW w \in Seq({0, 1}), NEW level \in {0, 1}, NEW n \in Nat
  PROVE  /\ w \o Held(level, n) \in Seq({0, 1})
         /\ Len(w \o Held(level, n)) = Len(w) + n
         /\ \A i \in 1 .. Len(w) + n :
              (w \o Held(level, n))[i] = IF i <= Len(w) THEN w[i] ELSE level
<1>1. Held(level, n) \in Seq({0, 1}) /\ Len(Held(level, n)) = n
  BY DEF Held
<1>2. \A i \in 1 .. n : Held(level, n)[i] = level
  BY DEF Held
<1>3. Len(w) \in Nat
  OBVIOUS
<1>4. /\ w \o Held(level, n) \in Seq({0, 1})
      /\ Len(w \o Held(level, n)) = Len(w) + Len(Held(level, n))
      /\ \A i \in 1 .. Len(w) + Len(Held(level, n)) : (w \o Held(level, n))[i] =
           IF i <= Len(w) THEN w[i] ELSE Held(level, n)[i - Len(w)]
  BY <1>1, ConcatProperties
<1>5. \A i \in 1 .. Len(w) + n : i <= Len(w) \/ i - Len(w) \in 1 .. n
  BY <1>3
<1> QED BY <1>1, <1>2, <1>4, <1>5

\* struct tmcuart_s.
TmcRecord ==
  [ timer : BOOLEAN, func : {"sync", "send", "finish", "read"},
    active : BOOLEAN, report : BOOLEAN, line : {0, 1}, pos : 0 .. 10,
    kind : Kinds, call : 0 .. Calls - 1,
    data : {NoValue, Garbled} \cup 0 .. Count - 1 ]

\* A call of set_register in the host.
RegRecord ==
  [ op : {"idle", "first", "write", "check"}, call : 0 .. Calls - 1, ifcnt : Int,
    old : Int, tries : Int, reads : Int, acked : BOOLEAN, left : Int, ok : BOOLEAN,
    lost : BOOLEAN ]

\* What the host asks tmcuart_send to do.
Requests == [kind : Kinds, call : 0 .. Calls - 1, first : BOOLEAN]

\* The bit-banged line, the chip at its end and the host.
TmcTypes ==
  /\ tmc \in TmcRecord /\ reg \in RegRecord
  /\ chip \in [ifcnt : 0 .. Count - 1, last : 0 .. Calls - 1]
  /\ wire \in Seq({0, 1}) /\ Len(wire) \in 0 .. 10
  /\ tdown \in Seq(Requests) /\ tup \in Seq(Int)

\* A request under way: the wire has the frame up to pos, which is the next bit to
\* send, and that bit is not the level of the line, so that toggling the line sends it.
SendingInv(t, w) ==
  /\ Len(w) <= FrameLen(t.kind)
  /\ \A i \in 1 .. Len(w) : w[i] = Frame(t.kind)[i]
  /\ t.func = "sync" => /\ Len(w) = t.pos /\ t.pos \in 0 .. 4
                        /\ t.line = IF t.pos \in {0, 2, 4} THEN 1 ELSE 0
  /\ t.func = "send" => /\ Len(w) = t.pos /\ t.pos \in 5 .. FrameLen(t.kind) - 1
                        /\ Frame(t.kind)[t.pos + 1] = 1 - t.line
  /\ t.func \in {"finish", "read"} => Len(w) = FrameLen(t.kind)

\* What holds of the line: the timer runs only for a request under way, and an idle line
\* is high.
LineInv ==
  /\ TmcTypes
  /\ tmc.timer => tmc.active
  /\ IF tmc.active THEN SendingInv(tmc, wire) ELSE tmc.line = 1

\* The invariant says what is on the line.
LEMMA LineInvFrame ==
  ASSUME LineInv
  PROVE  LineIsFrame
<1>1. tmc \in TmcRecord /\ wire \in Seq({0, 1})
  BY DEF LineInv, TmcTypes
<1>2. tmc.kind \in Kinds /\ tmc.active \in BOOLEAN
  BY <1>1 DEF TmcRecord
<1>3. ASSUME tmc.active
      PROVE  wire = SubSeq(Frame(tmc.kind), 1, Len(wire))
  <2> DEFINE f == Frame(tmc.kind)
             n == Len(wire)
  <2>1. /\ n <= Len(f) /\ \A i \in 1 .. n : wire[i] = f[i]
    BY <1>2, <1>3, FrameFacts DEF LineInv, SendingInv
  <2>2. f \in Seq({0, 1}) /\ n \in Nat
    BY <1>1, <1>2, FrameFacts
  <2> HIDE DEF f
  <2>3. /\ SubSeq(f, 1, n) \in Seq({0, 1}) /\ Len(SubSeq(f, 1, n)) = n
        /\ \A i \in 1 .. n : SubSeq(f, 1, n)[i] = f[i]
    BY <2>1, <2>2
  <2>4. wire = SubSeq(f, 1, n)
    BY <1>1, <2>1, <2>2, <2>3
  <2> QED BY <2>4 DEF f
<1> QED BY <1>2, <1>3 DEF LineInv, LineIsFrame

\* The next toggle of the sync nibble.
LEMMA SyncLine ==
  ASSUME LineInv, tmcuart_send_sync_event
  PROVE  LineInv'
<1> DEFINE l == 1 - tmc.line
           f == IF SyncDone(tmc.pos + 1) THEN "send" ELSE "sync"
<1>1. /\ tmc \in TmcRecord /\ wire \in Seq({0, 1}) /\ tmc.active /\ tmc.func = "sync"
      /\ SendingInv(tmc, wire)
  BY DEF LineInv, TmcTypes, tmcuart_send_sync_event
<1>2. /\ tmc.kind \in Kinds /\ tmc.line \in {0, 1} /\ tmc.active \in BOOLEAN
  BY <1>1 DEF TmcRecord
<1>3. /\ Len(wire) = tmc.pos /\ tmc.pos \in 0 .. 4
      /\ tmc.line = IF tmc.pos \in {0, 2, 4} THEN 1 ELSE 0
  BY <1>1 DEF SendingInv
<1>4. l \in {0, 1} /\ tmc.pos + 1 \in 0 .. 10 /\ f \in {"sync", "send", "finish", "read"}
      /\ (tmc.pos = 4 => f = "send") /\ (tmc.pos # 4 => f = "sync")
  <2>1. l \in {0, 1} /\ tmc.pos + 1 \in 0 .. 10
    BY <1>2, <1>3
  <2>2. CASE tmc.pos = 4
    BY <2>1, <2>2 DEF SyncDone
  <2>3. CASE tmc.pos # 4
    BY <1>3, <2>1, <2>3 DEF SyncDone
  <2> QED BY <2>2, <2>3
<1>5. /\ tmc' = [tmc EXCEPT !.line = l, !.pos = tmc.pos + 1, !.func = f]
      /\ wire' = wire \o Held(l, 1)
      /\ UNCHANGED <<chip, tdown, tup, reg>>
  BY DEF tmcuart_send_sync_event
<1> HIDE DEF l, f
<1>6. tmc' \in TmcRecord
  BY <1>1, <1>4, <1>5, ZenonT(60) DEF TmcRecord
<1>7. /\ tmc'.line = l /\ tmc'.pos = tmc.pos + 1 /\ tmc'.func = f /\ tmc'.kind = tmc.kind
      /\ tmc'.active /\ tmc'.timer = tmc.timer
  BY <1>1, <1>5 DEF TmcRecord
<1>8. /\ wire' \in Seq({0, 1}) /\ Len(wire') = tmc.pos + 1
      /\ \A i \in 1 .. tmc.pos + 1 : wire'[i] = IF i <= tmc.pos THEN wire[i] ELSE l
  <2> DEFINE k == 1
  <2>1. k \in Nat /\ tmc.pos + k = tmc.pos + 1 /\ l \in {0, 1} /\ wire \in Seq({0, 1})
        /\ wire' = wire \o Held(l, k)
    BY <1>1, <1>4, <1>5
  <2> HIDE DEF k
  <2>2. /\ wire \o Held(l, k) \in Seq({0, 1})
        /\ Len(wire \o Held(l, k)) = Len(wire) + k
        /\ \A i \in 1 .. Len(wire) + k :
             (wire \o Held(l, k))[i] = IF i <= Len(wire) THEN wire[i] ELSE l
    BY <2>1, HeldLine, ZenonT(60)
  <2> QED BY <1>3, <2>1, <2>2
<1>9. /\ FrameLen(tmc.kind) \in {9, 10} /\ Frame(tmc.kind)[tmc.pos + 1] = l
      /\ (tmc.pos = 4 => Frame(tmc.kind)[6] = 1 /\ l = 0)
  BY <1>2, <1>3, FrameFacts DEF l, FrameLen
<1>10. \A i \in 1 .. tmc.pos + 1 : wire'[i] = Frame(tmc.kind)[i]
  <2>1. \A i \in 1 .. tmc.pos : wire[i] = Frame(tmc.kind)[i]
    BY <1>1, <1>3 DEF SendingInv
  <2> QED BY <1>3, <1>8, <1>9, <2>1
<1>11. TmcTypes'
  <2>1. Len(wire') \in 0 .. 10
    BY <1>3, <1>8
  <2> QED BY <1>5, <1>6, <1>8, <2>1 DEF LineInv, TmcTypes
<1>12. SendingInv(tmc', wire')
  <2>1. CASE tmc.pos = 4
    BY <1>4, <1>7, <1>8, <1>9, <1>10, <2>1 DEF SendingInv
  <2>2. CASE tmc.pos # 4
    <3>1. l = IF tmc.pos + 1 \in {0, 2, 4} THEN 1 ELSE 0
      BY <1>3 DEF l
    <3> QED BY <1>3, <1>4, <1>7, <1>8, <1>9, <1>10, <2>2, <3>1 DEF SendingInv
  <2> QED BY <2>1, <2>2
<1> QED BY <1>2, <1>7, <1>11, <1>12 DEF LineInv

\* The next run of equal bits after it, the last one to the end of the frame.
LEMMA SendLine ==
  ASSUME LineInv, tmcuart_send_event
  PROVE  LineInv'
<1> DEFINE l == 1 - tmc.line
           len == FrameLen(tmc.kind)
           X == {p \in 1 .. 10 : p = len \/ Frame(tmc.kind)[p + 1] # l}
           next == CHOOSE p \in tmc.pos + 1 .. WriteCount :
                     /\ p = WriteCount \/ Bit(p) # l
                     /\ \A q \in tmc.pos + 1 .. p - 1 : Bit(q) = l
           f == IF next = WriteCount THEN "finish" ELSE "send"
           n == IF next = WriteCount THEN tmc.pos ELSE next
<1>1. /\ tmc \in TmcRecord /\ wire \in Seq({0, 1}) /\ tmc.active /\ tmc.func = "send"
      /\ SendingInv(tmc, wire)
  BY DEF LineInv, TmcTypes, tmcuart_send_event
<1>2. /\ tmc.kind \in Kinds /\ tmc.line \in {0, 1} /\ l \in {0, 1}
      /\ len \in {9, 10} /\ WriteCount = len
  <2>1. tmc.kind \in Kinds /\ tmc.line \in {0, 1}
    BY <1>1 DEF TmcRecord
  <2>2. WriteCount = len
    BY <2>1, FrameFacts DEF WriteCount
  <2> QED BY <2>1, <2>2 DEF FrameLen
<1>3. /\ Len(wire) = tmc.pos /\ tmc.pos \in 5 .. len - 1
      /\ Frame(tmc.kind)[tmc.pos + 1] = l
      /\ \A i \in 1 .. tmc.pos : wire[i] = Frame(tmc.kind)[i]
  BY <1>1 DEF SendingInv
<1>4. \E p \in tmc.pos + 1 .. WriteCount :
        /\ p = WriteCount \/ Bit(p) # l
        /\ \A q \in tmc.pos + 1 .. p - 1 : Bit(q) = l
  <2>1. X \in SUBSET Int /\ len \in X
    BY <1>2
  <2>2. PICK p \in tmc.pos + 1 .. len : p \in X /\ \A q \in tmc.pos + 1 .. p - 1 : q \notin X
    <3>1. tmc.pos + 1 \in 6 .. len
      BY <1>2, <1>3
    <3> HIDE DEF X, len
    <3> QED BY <1>2, <2>1, <3>1, FirstOf
  <2>3. p = len \/ Frame(tmc.kind)[p + 1] # l
    BY <2>2
  <2>4. ASSUME NEW q \in tmc.pos + 1 .. p - 1
        PROVE  Frame(tmc.kind)[q + 1] = l
    <3>1. q \in 1 .. 10
      BY <1>2, <1>3, <2>2
    <3> QED BY <2>2, <2>4, <3>1
  <2> QED BY <1>2, <2>2, <2>3, <2>4 DEF Bit
<1>5. /\ next \in tmc.pos + 1 .. len
      /\ next = len \/ Frame(tmc.kind)[next + 1] # l
      /\ \A q \in tmc.pos + 1 .. next - 1 : Frame(tmc.kind)[q + 1] = l
  BY <1>2, <1>4 DEF Bit
<1>6. /\ tmc' = [tmc EXCEPT !.line = l, !.pos = n, !.func = f]
      /\ wire' = wire \o Held(l, next - tmc.pos)
      /\ UNCHANGED <<chip, tdown, tup, reg>>
  BY DEF tmcuart_send_event
<1> HIDE DEF next, l
<1>7. /\ n \in 0 .. 10 /\ f \in {"sync", "send", "finish", "read"}
      /\ (next = len => f = "finish" /\ n = tmc.pos) /\ (next # len => f = "send" /\ n = next)
  BY <1>2, <1>3, <1>5
<1> HIDE DEF f, n
<1>8. tmc' \in TmcRecord
  BY <1>1, <1>2, <1>6, <1>7, ZenonT(60) DEF TmcRecord
<1>9. /\ tmc'.line = l /\ tmc'.pos = n /\ tmc'.func = f /\ tmc'.kind = tmc.kind
      /\ tmc'.active /\ tmc'.timer = tmc.timer
  BY <1>1, <1>6 DEF TmcRecord
<1>10. /\ wire' \in Seq({0, 1}) /\ Len(wire') = next
       /\ \A i \in 1 .. next : wire'[i] = IF i <= tmc.pos THEN wire[i] ELSE l
  <2> DEFINE k == next - tmc.pos
  <2>1. k \in Nat /\ tmc.pos + k = next
    BY <1>2, <1>3, <1>5
  <2>2. wire' = wire \o Held(l, k)
    BY <1>6
  <2>4. l \in {0, 1} /\ wire \in Seq({0, 1})
    BY <1>1, <1>2
  <2> HIDE DEF k
  <2>3. /\ wire \o Held(l, k) \in Seq({0, 1})
        /\ Len(wire \o Held(l, k)) = Len(wire) + k
        /\ \A i \in 1 .. Len(wire) + k :
             (wire \o Held(l, k))[i] = IF i <= Len(wire) THEN wire[i] ELSE l
    BY <2>1, <2>4, HeldLine, ZenonT(60)
  <2> QED BY <1>3, <2>1, <2>2, <2>3
<1>11. \A i \in 1 .. next : wire'[i] = Frame(tmc.kind)[i]
  <2> SUFFICES ASSUME NEW i \in 1 .. next PROVE wire'[i] = Frame(tmc.kind)[i]
    OBVIOUS
  <2>1. CASE i <= tmc.pos
    BY <1>3, <1>10, <2>1
  <2>2. CASE i = tmc.pos + 1
    BY <1>3, <1>10, <2>2
  <2>3. CASE i > tmc.pos + 1
    <3>1. i - 1 \in tmc.pos + 1 .. next - 1 /\ (i - 1) + 1 = i
      BY <1>2, <1>3, <1>5, <2>3
    <3>2. Frame(tmc.kind)[(i - 1) + 1] = l
      BY <1>5, <3>1
    <3> QED BY <1>3, <1>10, <2>3, <3>1, <3>2
  <2> QED BY <1>2, <1>3, <1>5, <2>1, <2>2, <2>3
<1>12. TmcTypes'
  <2>1. Len(wire') \in 0 .. 10
    BY <1>2, <1>3, <1>5, <1>10
  <2> QED BY <1>6, <1>8, <1>10, <2>1 DEF LineInv, TmcTypes
<1>13. SendingInv(tmc', wire')
  <2>1. CASE next = len
    BY <1>2, <1>7, <1>9, <1>10, <1>11, <2>1 DEF SendingInv
  <2>2. CASE next # len
    <3>1. Frame(tmc.kind)[next + 1] = 1 - l
      <4>1. next + 1 \in 1 .. len
        BY <1>2, <1>3, <1>5, <2>2
      <4>2. Frame(tmc.kind)[next + 1] \in {0, 1}
        BY <1>2, <4>1, FrameFacts
      <4> QED BY <1>2, <1>5, <2>2, <4>2
    <3>2. next \in 5 .. len - 1
      BY <1>2, <1>3, <1>5, <2>2
    <3> QED BY <1>2, <1>7, <1>9, <1>10, <1>11, <2>2, <3>1, <3>2 DEF SendingInv
  <2> QED BY <2>1, <2>2
<1> QED BY <1>1, <1>9, <1>12, <1>13 DEF LineInv

\* The request of the host: a line that rests begins a frame at its first bit, a line
\* that is busy drops it, and so does a board that is shut down.
LEMMA CommandLine ==
  ASSUME LineInv, command_tmcuart_send
  PROVE  LineInv'
<1> DEFINE c == Head(tdown)
<1>1. TmcTypes /\ tdown # <<>>
  BY DEF LineInv, command_tmcuart_send
<1>2. c \in Requests /\ tdown' \in Seq(Requests)
  BY <1>1 DEF TmcTypes, command_tmcuart_send
<1>3. tup' \in Seq(Int)
  <2>1. Ack \in Int /\ tup \in Seq(Int)
    BY <1>1 DEF Ack, TmcTypes
  <2>2. Append(tup, Ack) \in Seq(Int)
    BY <2>1
  <2> QED BY <2>1, <2>2 DEF command_tmcuart_send
<1>4. UNCHANGED <<chip, reg>>
  BY DEF command_tmcuart_send
<1>5. CASE shut \/ tmc.active
  <2>1. UNCHANGED <<tmc, wire>>
    BY <1>5 DEF command_tmcuart_send
  <2> QED BY <1>1, <1>2, <1>3, <1>4, <2>1 DEF LineInv, TmcTypes, SendingInv
<1>6. CASE ~(shut \/ tmc.active)
  <2>1. /\ tmc' = [tmc EXCEPT !.kind = c.kind, !.call = c.call, !.pos = 0,
                     !.active = TRUE, !.report = FALSE, !.func = "sync",
                     !.timer = TRUE, !.data = NoValue]
        /\ wire' = <<>>
    BY <1>6 DEF command_tmcuart_send
  <2>2. c.kind \in Kinds /\ c.call \in 0 .. Calls - 1 /\ 0 \in 0 .. 10 /\ tmc \in TmcRecord
    BY <1>1, <1>2 DEF Requests, TmcTypes
  <2> HIDE DEF c
  <2>3. tmc' \in TmcRecord
    BY <2>1, <2>2, ZenonT(60) DEF TmcRecord
  <2>4. /\ tmc'.kind = c.kind /\ tmc'.pos = 0 /\ tmc'.active /\ tmc'.func = "sync"
        /\ tmc'.line = tmc.line
    BY <2>1, <2>2 DEF TmcRecord
  <2>5. tmc.line = 1
    BY <1>6 DEF LineInv
  <2>6. wire' \in Seq({0, 1}) /\ Len(wire') = 0 /\ FrameLen(c.kind) \in {9, 10}
    BY <2>1 DEF FrameLen
  <2>7. TmcTypes'
    BY <1>1, <1>2, <1>3, <1>4, <2>3, <2>6 DEF TmcTypes
  <2>8. SendingInv(tmc', wire')
    BY <2>4, <2>5, <2>6 DEF SendingInv
  <2> QED BY <2>4, <2>7, <2>8 DEF LineInv
<1> QED BY <1>5, <1>6

\* The last bit is on the line: a write is over, a read waits for its answer; either
\* way the line is let go of, as a shutdown lets go of it.
LEMMA FinishLine ==
  ASSUME LineInv,
         tmcuart_send_finish_event \/ tmcuart_read_event \/ tmcuart_task \/ tmcuart_shutdown
  PROVE  LineInv'
<1>1. TmcTypes /\ tmc \in TmcRecord
  BY DEF LineInv, TmcTypes
<1>2. UNCHANGED <<wire, tdown, reg>>
  BY DEF tmcuart_send_finish_event, tmcuart_read_event, tmcuart_task, tmcuart_shutdown
<1>3. chip' \in [ifcnt : 0 .. Count - 1, last : 0 .. Calls - 1]
  <2>1. CASE tmcuart_send_finish_event
    <3>1. /\ chip.ifcnt \in 0 .. Count - 1 /\ tmc.call \in 0 .. Calls - 1 /\ Count \in Nat \ {0}
      BY <1>1, TmcAssumption DEF TmcTypes, TmcRecord
    <3>2. (chip.ifcnt + 1) % Count \in 0 .. Count - 1
      BY <3>1
    <3>3. \/ chip' = chip
          \/ chip' = [ifcnt |-> (chip.ifcnt + 1) % Count, last |-> tmc.call]
      BY <2>1 DEF tmcuart_send_finish_event
    <3> QED BY <1>1, <3>1, <3>2, <3>3 DEF TmcTypes
  <2>2. CASE tmcuart_read_event \/ tmcuart_task \/ tmcuart_shutdown
    BY <1>1, <2>2 DEF TmcTypes, tmcuart_read_event, tmcuart_task, tmcuart_shutdown
  <2> QED BY <2>1, <2>2
<1>4. tup' \in Seq(Int)
  <2>1. tup \in Seq(Int) /\ tmc.data \in Int
    <3>1. Count \in Nat
      BY TmcAssumption
    <3> QED BY <1>1, <3>1 DEF TmcTypes, TmcRecord, NoValue, Garbled
  <2>2. Append(tup, tmc.data) \in Seq(Int)
    BY <2>1
  <2> QED BY <2>1, <2>2
          DEF tmcuart_send_finish_event, tmcuart_read_event, tmcuart_task, tmcuart_shutdown
\* The line is at rest.
<1>5. ASSUME tmc' \in TmcRecord, ~tmc'.timer, ~tmc'.active, tmc'.line = 1
      PROVE  LineInv'
  BY <1>1, <1>2, <1>3, <1>4, <1>5 DEF LineInv, TmcTypes
<1>6. ASSUME NEW data \in {NoValue, Garbled} \cup 0 .. Count - 1, tmcuart_finalize(data)
      PROVE  LineInv'
  <2>1. tmc' = [ResetLine(tmc) EXCEPT !.report = TRUE, !.timer = FALSE, !.data = data]
    BY <1>6 DEF tmcuart_finalize
  <2>2. ResetLine(tmc) \in TmcRecord
    BY <1>1, Zenon DEF ResetLine, TmcRecord
  <2>3. ResetLine(tmc).line = 1 /\ ~ResetLine(tmc).active
    BY <1>1 DEF ResetLine, TmcRecord
  <2>4. tmc' \in TmcRecord
    BY <2>1, <2>2, <1>6, Zenon DEF TmcRecord
  <2>5. ~tmc'.timer /\ ~tmc'.active /\ tmc'.line = 1
    BY <2>1, <2>2, <2>3 DEF TmcRecord
  <2> QED BY <1>5, <2>4, <2>5
<1>7. CASE tmcuart_send_finish_event
  <2>1. CASE tmc.kind = "write"
    <3>1. tmcuart_finalize(NoValue)
      BY <1>7, <2>1 DEF tmcuart_send_finish_event
    <3> QED BY <1>6, <3>1
  <2>2. CASE tmc.kind # "write"
    <3>1. tmc' = [tmc EXCEPT !.func = "read"] /\ tmc.timer /\ tmc.func = "finish"
      BY <1>7, <2>2 DEF tmcuart_send_finish_event
    <3>2. tmc' \in TmcRecord
      BY <1>1, <3>1, Zenon DEF TmcRecord
    <3>3. /\ tmc'.func = "read" /\ tmc'.kind = tmc.kind /\ tmc'.active = tmc.active
          /\ tmc'.line = tmc.line /\ tmc'.pos = tmc.pos
      BY <1>1, <3>1 DEF TmcRecord
    <3>4. tmc.active /\ SendingInv(tmc, wire)
      BY <3>1 DEF LineInv
    <3>5. SendingInv(tmc', wire')
      BY <1>2, <3>1, <3>3, <3>4 DEF SendingInv
    <3>6. TmcTypes'
      BY <1>1, <1>2, <1>3, <1>4, <3>2 DEF TmcTypes
    <3> QED BY <3>3, <3>4, <3>5, <3>6 DEF LineInv
  <2> QED BY <2>1, <2>2
<1>8. CASE tmcuart_read_event
  <2>1. chip.ifcnt \in 0 .. Count - 1
    BY <1>1 DEF TmcTypes
  <2>2. \E data \in {NoValue, Garbled} \cup 0 .. Count - 1 : tmcuart_finalize(data)
    BY <1>8, <2>1, Zenon DEF tmcuart_read_event
  <2> QED BY <1>6, <2>2
<1>9. CASE tmcuart_task
  <2>1. tmc' = [tmc EXCEPT !.report = FALSE]
    BY <1>9 DEF tmcuart_task
  <2>2. tmc' \in TmcRecord
    BY <1>1, <2>1, Zenon DEF TmcRecord
  <2>3. /\ tmc'.func = tmc.func /\ tmc'.kind = tmc.kind /\ tmc'.active = tmc.active
        /\ tmc'.line = tmc.line /\ tmc'.pos = tmc.pos /\ tmc'.timer = tmc.timer
    BY <1>1, <2>1 DEF TmcRecord
  <2>4. TmcTypes'
    BY <1>1, <1>2, <1>3, <1>4, <2>2 DEF TmcTypes
  <2> QED BY <1>2, <2>3, <2>4 DEF LineInv, SendingInv
<1>10. CASE tmcuart_shutdown
  <2>1. tmc' = [ResetLine(tmc) EXCEPT !.timer = FALSE]
    BY <1>10 DEF tmcuart_shutdown
  <2>2. ResetLine(tmc) \in TmcRecord
    BY <1>1, Zenon DEF ResetLine, TmcRecord
  <2>3. ResetLine(tmc).line = 1 /\ ~ResetLine(tmc).active
    BY <1>1 DEF ResetLine, TmcRecord
  <2>4. tmc' \in TmcRecord
    BY <2>1, <2>2, Zenon DEF TmcRecord
  <2>5. ~tmc'.timer /\ ~tmc'.active /\ tmc'.line = 1
    BY <2>1, <2>2, <2>3 DEF TmcRecord
  <2> QED BY <1>5, <2>4, <2>5
<1> QED BY <1>7, <1>8, <1>9, <1>10

\* A request of set_register is one the board knows.
LEMMA HostStep ==
  ASSUME NEW r \in RegRecord, tdown \in Seq(Requests), Step(r)
  PROVE  reg' \in RegRecord /\ tdown' \in Seq(Requests)
<1>1. reg' \in RegRecord
  BY DEF Step
<1>2. Request(Kind(r.op), r.call, TRUE) \in Requests
  BY DEF Request, Kind, Requests, Kinds, RegRecord
<1>3. tdown' = tdown \/ tdown' = Append(tdown, Request(Kind(r.op), r.call, TRUE))
  BY DEF Step, SendFirst
<1>4. Append(tdown, Request(Kind(r.op), r.call, TRUE)) \in Seq(Requests)
  BY <1>2, AppendProperties
<1> QED BY <1>1, <1>3, <1>4

\* The host only asks: what it does leaves the line alone.
LEMMA HostLine ==
  ASSUME LineInv, set_register \/ Resend \/ ResponseTimeout \/ handle_callback
  PROVE  LineInv'
<1>1. /\ reg \in RegRecord /\ tdown \in Seq(Requests) /\ tup \in Seq(Int)
      /\ Resends \in Int /\ Tries \in Int /\ Calls \in Nat \ {0} /\ TmcTypes
  BY TmcAssumption DEF LineInv, TmcTypes
<1>2. /\ reg.call \in 0 .. Calls - 1 /\ reg.ifcnt \in Int /\ reg.old \in Int
      /\ reg.tries \in Int /\ reg.reads \in Int /\ reg.left \in Int
      /\ reg.op \in {"idle", "first", "write", "check"}
  BY <1>1 DEF RegRecord
<1>3. UNCHANGED <<tmc, wire, chip>>
  BY DEF set_register, Resend, ResponseTimeout, handle_callback
<1>4. ASSUME reg' \in RegRecord, tdown' \in Seq(Requests), tup' \in Seq(Int)
      PROVE  LineInv'
  BY <1>1, <1>3, <1>4 DEF LineInv, TmcTypes, SendingInv
<1>5. ASSUME NEW r \in RegRecord, NEW op \in {"idle", "first", "write", "check"}
      PROVE  Ask(r, op) \in RegRecord /\ GiveUp(r) \in RegRecord
  BY <1>1, <1>5, ZenonT(60) DEF Ask, GiveUp, RegRecord
<1>6. CASE set_register
  <2> DEFINE c == (reg.call + 1) % Calls
             o == IF reg.ifcnt = NoValue THEN 0 ELSE reg.ifcnt
             r == [reg EXCEPT !.call = c, !.tries = Tries, !.reads = Tries,
                              !.ok = FALSE, !.old = o]
             op == IF reg.ifcnt = NoValue THEN "first" ELSE "write"
  <2>1. c \in 0 .. Calls - 1 /\ o \in Int /\ op \in {"idle", "first", "write", "check"}
    <3>1. c \in 0 .. Calls - 1
      <4>1. reg.call \in Int /\ Calls \in Nat \ {0}
        BY <1>1, <1>2
      <4> QED BY <4>1
    <3>2. o \in Int
      BY <1>2
    <3>3. op \in {"idle", "first", "write", "check"}
      OBVIOUS
    <3> QED BY <3>1, <3>2, <3>3
  <2>2. Step(Ask(r, op)) /\ tup' = tup
    BY <1>6 DEF set_register
  <2> HIDE DEF c, o, op
  <2>3. r \in RegRecord
    BY <1>1, <2>1, ZenonT(60) DEF RegRecord
  <2> HIDE DEF r
  <2>4. Ask(r, op) \in RegRecord
    BY <1>5, <2>1, <2>3
  <2>5. reg' \in RegRecord /\ tdown' \in Seq(Requests)
    BY <1>1, <2>2, <2>4, HostStep
  <2> QED BY <1>1, <1>4, <2>2, <2>5
<1>7. CASE Resend
  <2>1. /\ reg' = [reg EXCEPT !.left = reg.left - 1] /\ tup' = tup
        /\ tdown' = Append(tdown, Request(Kind(reg.op), reg.call, FALSE))
    BY <1>7 DEF Resend
  <2>2. reg' \in RegRecord
    <3>1. reg.left - 1 \in Int
      BY <1>2
    <3> QED BY <1>1, <2>1, <3>1, Zenon DEF RegRecord
  <2>3. Request(Kind(reg.op), reg.call, FALSE) \in Requests
    BY <1>2 DEF Request, Kind, Requests, Kinds
  <2>4. tdown' \in Seq(Requests)
    BY <1>1, <2>1, <2>3, AppendProperties
  <2> QED BY <1>1, <1>4, <2>1, <2>2, <2>4
<1>8. CASE ResponseTimeout
  <2>1. reg' = GiveUp(reg) /\ UNCHANGED <<tdown, tup>>
    BY <1>8 DEF ResponseTimeout
  <2>2. GiveUp(reg) \in RegRecord
    BY <1>1, <1>5
  <2> QED BY <1>1, <1>4, <2>1, <2>2
<1>9. CASE handle_callback
  <2> DEFINE m == Head(tup)
  <2>1. m \in Int /\ tup' \in Seq(Int)
    BY <1>1, <1>9 DEF handle_callback
  <2>2. \/ reg' = [reg EXCEPT !.acked = reg.op # "idle"] /\ UNCHANGED tdown
        \/ UNCHANGED <<reg, tdown>>
        \/ Step(Ask([reg EXCEPT !.reads = Tries], "check"))
        \/ Step(GotCount(m))
        \/ Step(BadRead)
    BY <1>9 DEF handle_callback
  <2> HIDE DEF m
  <2>3. [reg EXCEPT !.acked = reg.op # "idle"] \in RegRecord
    <3>1. (reg.op # "idle") \in BOOLEAN
      OBVIOUS
    <3> QED BY <1>1, <3>1, Zenon DEF RegRecord
  <2>4. Ask([reg EXCEPT !.reads = Tries], "check") \in RegRecord
    <3>1. [reg EXCEPT !.reads = Tries] \in RegRecord
      BY <1>1, Zenon DEF RegRecord
    <3> QED BY <1>5, <3>1
  <2>5. GotCount(m) \in RegRecord
    <3> DEFINE r == [reg EXCEPT !.ifcnt = m]
               t == reg.tries - 1
    <3>1. r \in RegRecord
      BY <1>1, <2>1, Zenon DEF RegRecord
    <3>2. t \in Int /\ r.tries = reg.tries
      BY <1>1, <1>2 DEF RegRecord
    <3>3. GotCount(m) \in {Ask([r EXCEPT !.old = m], "write"),
                           [r EXCEPT !.op = "idle", !.ok = TRUE],
                           [r EXCEPT !.op = "idle"],
                           Ask([r EXCEPT !.tries = r.tries - 1, !.old = m], "write")}
      BY DEF GotCount
    <3> HIDE DEF r, t
    <3>4. /\ [r EXCEPT !.old = m] \in RegRecord /\ [r EXCEPT !.op = "idle"] \in RegRecord
          /\ [r EXCEPT !.op = "idle", !.ok = TRUE] \in RegRecord
          /\ [r EXCEPT !.tries = t, !.old = m] \in RegRecord
      BY <2>1, <3>1, <3>2, ZenonT(60) DEF RegRecord
    <3>5. /\ Ask([r EXCEPT !.old = m], "write") \in RegRecord
          /\ Ask([r EXCEPT !.tries = t, !.old = m], "write") \in RegRecord
      BY <1>5, <3>4
    <3> QED BY <3>2, <3>3, <3>4, <3>5, Zenon DEF t
  <2>6. BadRead \in RegRecord
    <3> DEFINE n == reg.reads - 1
    <3>1. n \in Int
      BY <1>2
    <3>2. BadRead = GiveUp(reg) \/ BadRead = Ask([reg EXCEPT !.reads = n], reg.op)
      BY DEF BadRead
    <3> HIDE DEF n
    <3>3. [reg EXCEPT !.reads = n] \in RegRecord
      BY <1>1, <3>1, Zenon DEF RegRecord
    <3>4. Ask([reg EXCEPT !.reads = n], reg.op) \in RegRecord /\ GiveUp(reg) \in RegRecord
      BY <1>1, <1>2, <1>5, <3>3
    <3> QED BY <3>2, <3>4
  <2>7. reg' \in RegRecord /\ tdown' \in Seq(Requests)
    BY <1>1, <2>2, <2>3, <2>4, <2>5, <2>6, HostStep
  <2> QED BY <1>4, <2>1, <2>7
<1> QED BY <1>6, <1>7, <1>8, <1>9

\* Every step of the drivers keeps the invariant of the line.
LEMMA LineStepInv ==
  ASSUME LineInv, conf \in Confs, [Next]_vars
  PROVE  LineInv'
<1>1. CASE UNCHANGED tmcvars
  BY <1>1 DEF tmcvars, LineInv, TmcTypes, SendingInv
<1>2. CASE TmcStep
  BY <1>2, CommandLine, SyncLine, SendLine, FinishLine, HostLine DEF TmcStep, TmcNext
<1>3. CASE DigitalStep \/ PwmStep \/ AnalogStep \/ EndstopStep \/ ProbeStep \/ ClearShutdown
  BY <1>1, <1>3
     DEF DigitalStep, PwmStep, AnalogStep, EndstopStep, ProbeStep, ClearShutdown
<1>4. CASE Shutdown
  <2>1. CASE conf = "tmcuart"
    BY <1>4, <2>1, FinishLine DEF Shutdown
  <2>2. CASE conf # "tmcuart"
    <3>1. UNCHANGED tmcvars
      BY <1>4, <2>2 DEF Shutdown, Confs, DigitalHalt, PwmHalt
    <3> QED BY <1>1, <3>1
  <2> QED BY <2>1, <2>2
<1>5. CASE UNCHANGED vars
  BY <1>1, <1>5 DEF vars
<1> QED BY <1>2, <1>3, <1>4, <1>5 DEF Next

-----------------------------------------------------------------------------
\* What the host believes written.

\* The board has the first of the requests that the host waits for.
Arrived == reg.acked \/ \E j \in 1 .. Len(tup) : tup[j] = Ack

\* The host will have its acknowledgement when it comes to message i.
Taken(i) == reg.acked \/ \E j \in 1 .. i - 1 : tup[j] = Ack

\* A write is on its way to the chip.
Writing == tmc.active /\ tmc.kind = "write"

\* There is one first request or one acknowledgement of it, and no other request is
\* sent before it has come back.
RequestInv ==
  /\ \A i \in 1 .. Len(tdown) : tdown[i].first =>
       i = Len(tdown) /\ reg.op # "idle" /\ ~Arrived
  /\ \A i \in 1 .. Len(tup) : tup[i] = Ack =>
       /\ reg.op # "idle" /\ ~reg.acked
       /\ \A j \in 1 .. Len(tup) : tup[j] = Ack => i = j

\* Writes that have not reached the chip are of this call, and behind the request for
\* the count there is none.
PendingInv ==
  /\ \A i \in 1 .. Len(tdown) : tdown[i].kind = "write" =>
       /\ reg.op \in {"write", "check"} /\ tdown[i].call = reg.call
       /\ reg.op = "check" => ~Arrived
  /\ Writing => reg.op \in {"write", "check"} /\ tmc.call = reg.call

\* A count that the host will take for the answer to its request for the count is the
\* one the chip has, and no write is on its way that could change it.
AnswerInv ==
  reg.op \in {"first", "check"} =>
    /\ \A i \in 1 .. Len(tup) : Taken(i) /\ tup[i] >= 0 => tup[i] = chip.ifcnt /\ ~Writing
    /\ Arrived /\ tmc.report /\ tmc.data >= 0 => tmc.data = chip.ifcnt

\* Between calls the host has the chip's count; within one the count has changed only
\* by writes of this call.
CountInv ==
  /\ reg.op = "idle" => /\ reg.ifcnt \in {NoValue, chip.ifcnt}
                        /\ reg.ok => chip.last = reg.call
  /\ reg.op # "idle" => ~reg.ok
  /\ reg.op \in {"write", "check"} => chip.ifcnt = reg.old \/ chip.last = reg.call

Believed == RequestInv /\ PendingInv /\ AnswerInv /\ CountInv

\* A board that is shut down sends nothing and has nothing to report.
ShutInv == conf = "tmcuart" /\ shut => ~tmc.timer /\ ~tmc.report

\* What holds of the writes, up to a call that gave up.
WriteInv == (tmc.active => ~tmc.report) /\ (reg.lost \/ Believed)

\* The types of what the host and the board hand each other.
LEMMA WriteTypes ==
  ASSUME LineInv
  PROVE  /\ tdown \in Seq(Requests) /\ Len(tdown) \in Nat
         /\ tup \in Seq(Int) /\ Len(tup) \in Nat /\ \A i \in 1 .. Len(tup) : tup[i] \in Int
         /\ reg \in RegRecord /\ tmc \in TmcRecord
         /\ chip.ifcnt \in 0 .. Count - 1 /\ Count \in Nat /\ Count > 1
BY TmcAssumption DEF LineInv, TmcTypes

\* A sequence without its head.
LEMMA TailEntries ==
  ASSUME NEW T, NEW s \in Seq(T), s # <<>>
  PROVE  /\ Len(s) \in Nat \ {0} /\ Len(Tail(s)) = Len(s) - 1 /\ Head(s) = s[1]
         /\ \A i \in 1 .. Len(s) - 1 : Tail(s)[i] = s[i + 1]
OBVIOUS

\* A sequence with one more entry.
LEMMA AppendEntries ==
  ASSUME NEW T, NEW s \in Seq(T), NEW x \in T
  PROVE  /\ Len(s) \in Nat /\ Len(Append(s, x)) = Len(s) + 1
         /\ \A i \in 1 .. Len(s) : Append(s, x)[i] = s[i]
         /\ Append(s, x)[Len(s) + 1] = x
BY AppendProperties

\* command_tmcuart_send: a request is taken or dropped, and its acknowledgement sent.
LEMMA CommandWrite ==
  ASSUME LineInv, WriteInv, shut => ~tmc.report, command_tmcuart_send
  PROVE  WriteInv'
<1> DEFINE c == tdown[1]
<1>1. /\ tdown # <<>> /\ Head(tdown) = c /\ tdown' = Tail(tdown)
      /\ UNCHANGED <<chip, reg>>
      /\ tup' = IF c.first THEN Append(tup, Ack) ELSE tup
  BY WriteTypes, TailEntries DEF command_tmcuart_send
<1>2. /\ Len(tdown) \in Nat \ {0} /\ Len(tdown') = Len(tdown) - 1
      /\ \A i \in 1 .. Len(tdown') : i + 1 \in 1 .. Len(tdown) /\ tdown'[i] = tdown[i + 1]
  BY <1>1, WriteTypes, TailEntries
<1>3. \/ (shut \/ tmc.active) /\ tmc' = tmc
      \/ /\ ~tmc.active /\ tmc'.active /\ ~tmc'.report
         /\ tmc'.kind = c.kind /\ tmc'.call = c.call
  <2>1. \/ (shut \/ tmc.active) /\ tmc' = tmc
        \/ /\ ~tmc.active
           /\ tmc' = [tmc EXCEPT !.kind = c.kind, !.call = c.call, !.pos = 0,
                        !.active = TRUE, !.report = FALSE, !.func = "sync",
                        !.timer = TRUE, !.data = NoValue]
    BY <1>1 DEF command_tmcuart_send
  <2>2. tmc \in TmcRecord
    BY WriteTypes
  <2> HIDE DEF c
  <2> QED BY <2>1, <2>2 DEF TmcRecord
<1>4. tmc'.active => ~tmc'.report
  BY <1>3 DEF WriteInv
<1>5. SUFFICES ASSUME Believed PROVE Believed'
  BY <1>1, <1>4 DEF WriteInv
<1>6. CountInv'
  BY <1>1, <1>5 DEF Believed, CountInv
<1>7. /\ c.kind = "write" => /\ reg.op \in {"write", "check"} /\ c.call = reg.call
                             /\ reg.op = "check" => ~Arrived
      /\ c.first => Len(tdown) = 1 /\ reg.op # "idle" /\ ~Arrived
  BY <1>2, <1>5 DEF Believed, PendingInv, RequestInv
<1>8. Writing' => reg'.op \in {"write", "check"} /\ tmc'.call = reg'.call
  BY <1>1, <1>3, <1>5, <1>7 DEF Believed, PendingInv, Writing
<1>9. CASE c.first
  <2>1. /\ tup' = Append(tup, Ack) /\ Len(tup') = Len(tup) + 1 /\ tup'[Len(tup) + 1] = Ack
        /\ \A i \in 1 .. Len(tup) : tup'[i] = tup[i]
        /\ Len(tup) \in Nat
    BY <1>1, <1>9, WriteTypes, AppendEntries DEF Ack
  <2>2. ~reg.acked /\ \A i \in 1 .. Len(tup) : tup[i] # Ack
    BY <1>7, <1>9 DEF Arrived
  <2>3. Len(tdown') = 0
    <3>1. Len(tdown) = 1
      BY <1>7, <1>9
    <3>2. Len(tdown') = Len(tdown) - 1
      BY <1>2
    <3> QED BY <3>1, <3>2
  <2>4. \A i \in 1 .. Len(tup') : tup'[i] = Ack => i = Len(tup) + 1
    BY <2>1, <2>2
  <2>5. RequestInv'
    <3>1. ~(\E i \in 1 .. Len(tdown') : TRUE)
      BY <2>3
    <3>2. reg'.op # "idle" /\ ~reg'.acked
      BY <1>1, <1>7, <1>9, <2>2
    <3>3. \A i, j \in 1 .. Len(tup') : tup'[i] = Ack /\ tup'[j] = Ack => i = j
      BY <2>4
    <3> QED BY <3>1, <3>2, <3>3 DEF RequestInv
  <2>6. PendingInv'
    BY <1>8, <2>3 DEF PendingInv
  <2>7. \A i \in 1 .. Len(tup') : ~Taken(i)'
    BY <1>1, <2>1, <2>2 DEF Taken
  <2>8. AnswerInv'
    <3>1. ~tmc'.report
      BY <1>3, <1>4
    <3> QED BY <2>7, <3>1 DEF AnswerInv
  <2> QED BY <1>6, <2>5, <2>6, <2>8 DEF Believed
<1>10. CASE ~c.first
  <2>1. tup' = tup /\ (Arrived' <=> Arrived) /\ \A i \in 1 .. Len(tup) : Taken(i)' <=> Taken(i)
    BY <1>1, <1>10 DEF Arrived, Taken
  <2>2. RequestInv'
    <3>1. \A i \in 1 .. Len(tdown') : i + 1 = Len(tdown) => i = Len(tdown')
      BY <1>2
    <3>2. \A i \in 1 .. Len(tdown') : tdown'[i].first =>
            i + 1 = Len(tdown) /\ reg.op # "idle" /\ ~Arrived
      BY <1>2, <1>5 DEF Believed, RequestInv
    <3>3. \A i \in 1 .. Len(tup) : tup[i] = Ack =>
            /\ reg.op # "idle" /\ ~reg.acked
            /\ \A j \in 1 .. Len(tup) : tup[j] = Ack => i = j
      BY <1>5 DEF Believed, RequestInv
    <3> QED BY <1>1, <2>1, <3>1, <3>2, <3>3 DEF RequestInv
  <2>3. PendingInv'
    BY <1>1, <1>2, <1>5, <1>8, <2>1 DEF Believed, PendingInv
  <2>4. AnswerInv'
    <3> SUFFICES ASSUME reg.op \in {"first", "check"} PROVE AnswerInv'
      BY <1>1 DEF AnswerInv
    <3>1. ASSUME NEW i \in 1 .. Len(tup), Taken(i), tup[i] >= 0
          PROVE  tup[i] = chip.ifcnt /\ ~Writing'
      <4>1. tup[i] = chip.ifcnt /\ ~Writing
        BY <1>5, <3>1 DEF Believed, AnswerInv
      <4>2. Arrived
        <5>1. Len(tup) \in Nat /\ \A j \in 1 .. i - 1 : j \in 1 .. Len(tup)
          BY WriteTypes
        <5> QED BY <3>1, <5>1 DEF Taken, Arrived
      <4>3. c.kind # "write"
        BY <1>7, <4>2
      <4> QED BY <1>3, <4>1, <4>3 DEF Writing
    <3>2. ~tmc'.report
      BY <1>3, <1>4
    <3> QED BY <1>1, <2>1, <3>1, <3>2 DEF AnswerInv
  <2> QED BY <1>6, <2>2, <2>3, <2>4 DEF Believed
<1> QED BY <1>9, <1>10

\* A step of the board's timer or task that leaves the chip and the queues alone: the
\* request goes on or ends, with the chip's count, another answer or none.
LEMMA BoardWrite ==
  ASSUME LineInv, WriteInv, UNCHANGED <<chip, tdown, tup, reg>>,
         Writing' => Writing /\ tmc'.call = tmc.call,
         tmc'.active => ~tmc'.report,
         tmc'.report /\ tmc'.data >= 0 =>
           tmc'.data = chip.ifcnt \/ (tmc.report /\ tmc'.data = tmc.data)
  PROVE  WriteInv'
<1> SUFFICES ASSUME Believed PROVE Believed'
  BY DEF WriteInv
<1>1. /\ Arrived' <=> Arrived
      /\ \A i \in 1 .. Len(tup) : Taken(i)' <=> Taken(i)
  BY DEF Arrived, Taken
<1>2. RequestInv' /\ CountInv'
  BY <1>1 DEF Believed, RequestInv, CountInv
<1>3. PendingInv'
  BY <1>1 DEF Believed, PendingInv
<1>4. AnswerInv'
  BY <1>1 DEF Believed, AnswerInv
<1> QED BY <1>2, <1>3, <1>4 DEF Believed

\* tmcuart_send_sync_event, tmcuart_send_event: bits of the frame.
LEMMA BitWrite ==
  ASSUME LineInv, WriteInv, tmcuart_send_sync_event \/ tmcuart_send_event
  PROVE  WriteInv'
<1>1. tmc \in TmcRecord
  BY WriteTypes
<1>2. UNCHANGED <<chip, tdown, tup, reg>>
  BY DEF tmcuart_send_sync_event, tmcuart_send_event
<1>3. /\ tmc'.active = tmc.active /\ tmc'.report = tmc.report /\ tmc'.kind = tmc.kind
      /\ tmc'.call = tmc.call /\ tmc'.data = tmc.data
  <2>1. ASSUME NEW l, NEW p, NEW f,
               tmc' = [tmc EXCEPT !.line = l, !.pos = p, !.func = f]
        PROVE  /\ tmc'.active = tmc.active /\ tmc'.report = tmc.report
               /\ tmc'.kind = tmc.kind /\ tmc'.call = tmc.call /\ tmc'.data = tmc.data
    BY <1>1, <2>1 DEF TmcRecord
  <2>2. CASE tmcuart_send_sync_event
    BY <2>1, <2>2, Zenon DEF tmcuart_send_sync_event
  <2>3. CASE tmcuart_send_event
    BY <2>1, <2>3, Zenon DEF tmcuart_send_event
  <2> QED BY <2>2, <2>3
<1> QED BY <1>2, <1>3, BoardWrite DEF Writing, WriteInv

\* tmcuart_send_finish_event: the chip may take the write, or a read waits for its answer.
LEMMA FinishWrite ==
  ASSUME LineInv, WriteInv, tmcuart_send_finish_event
  PROVE  WriteInv'
<1>1. tmc \in TmcRecord /\ tmc.active /\ UNCHANGED <<tdown, tup, reg>>
  BY WriteTypes DEF tmcuart_send_finish_event, LineInv
<1>2. CASE tmc.kind # "write"
  <2>1. tmc' = [tmc EXCEPT !.func = "read"] /\ UNCHANGED chip
    BY <1>2 DEF tmcuart_send_finish_event
  <2>2. /\ tmc'.active = tmc.active /\ tmc'.report = tmc.report /\ tmc'.kind = tmc.kind
        /\ tmc'.call = tmc.call /\ tmc'.data = tmc.data
    BY <1>1, <2>1 DEF TmcRecord
  <2> QED BY <1>1, <2>1, <2>2, BoardWrite DEF Writing, WriteInv
<1>3. CASE tmc.kind = "write"
  <2>1. Writing /\ ~tmc.report
    BY <1>1, <1>3 DEF Writing, WriteInv
  <2>2. ~tmc'.active /\ tmc'.data = NoValue
    <3>1. tmc' = [ResetLine(tmc) EXCEPT !.report = TRUE, !.timer = FALSE, !.data = NoValue]
      BY <1>3 DEF tmcuart_send_finish_event, tmcuart_finalize
    <3> QED BY <1>1, <3>1 DEF ResetLine, TmcRecord
  <2>3. chip' = chip \/ chip'.last = tmc.call
    BY <1>3 DEF tmcuart_send_finish_event
  <2> SUFFICES ASSUME Believed PROVE Believed'
    BY <1>1, <2>2 DEF WriteInv
  <2>4. reg.op \in {"write", "check"} /\ tmc.call = reg.call
    BY <2>1 DEF Believed, PendingInv
  <2>5. /\ Arrived' <=> Arrived
        /\ \A i \in 1 .. Len(tup) : Taken(i)' <=> Taken(i)
    BY <1>1 DEF Arrived, Taken
  <2>6. RequestInv' /\ PendingInv'
    BY <1>1, <2>2, <2>5 DEF Believed, RequestInv, PendingInv, Writing
  <2>7. CountInv'
    BY <1>1, <2>3, <2>4 DEF Believed, CountInv
  <2>8. AnswerInv'
    <3>1. ~(NoValue >= 0)
      BY DEF NoValue
    <3>2. \A i \in 1 .. Len(tup) : reg.op = "check" => ~(Taken(i) /\ tup[i] >= 0)
      BY <2>1 DEF Believed, AnswerInv
    <3> QED BY <1>1, <2>2, <2>4, <2>5, <3>1, <3>2 DEF AnswerInv
  <2> QED BY <2>6, <2>7, <2>8 DEF Believed
<1> QED BY <1>2, <1>3

\* tmcuart_read_event: the chip's count as it is now, or no answer.
LEMMA ReadWrite ==
  ASSUME LineInv, WriteInv, tmcuart_read_event
  PROVE  WriteInv'
<1>1. tmc \in TmcRecord /\ UNCHANGED <<chip, tdown, tup, reg>>
  BY WriteTypes DEF tmcuart_read_event
<1>2. PICK data \in {Garbled, NoValue} \cup {chip.ifcnt} : tmcuart_finalize(data)
  BY DEF tmcuart_read_event
<1>3. tmc' = [ResetLine(tmc) EXCEPT !.report = TRUE, !.timer = FALSE, !.data = data]
  BY <1>2 DEF tmcuart_finalize
<1>4. ~tmc'.active /\ tmc'.data = data
  BY <1>1, <1>3 DEF ResetLine, TmcRecord
<1>5. data >= 0 => data = chip.ifcnt
  BY DEF NoValue, Garbled
<1> QED BY <1>1, <1>4, <1>5, BoardWrite DEF Writing

\* tmcuart_shutdown: the request is forgotten.
LEMMA ShutdownWrite ==
  ASSUME LineInv, WriteInv, tmcuart_shutdown
  PROVE  WriteInv'
<1>1. /\ tmc \in TmcRecord /\ UNCHANGED <<chip, tdown, tup, reg>>
      /\ tmc' = [ResetLine(tmc) EXCEPT !.timer = FALSE]
  BY WriteTypes DEF tmcuart_shutdown
<1>2. ~tmc'.active /\ ~tmc'.report
  BY <1>1 DEF ResetLine, TmcRecord
<1> QED BY <1>1, <1>2, BoardWrite DEF Writing

\* tmcuart_task: the answer is sent, behind the acknowledgement if that was sent before.
LEMMA TaskWrite ==
  ASSUME LineInv, WriteInv, tmcuart_task
  PROVE  WriteInv'
<1>1. /\ tmc \in TmcRecord /\ UNCHANGED <<chip, tdown, reg>>
      /\ tmc' = [tmc EXCEPT !.report = FALSE]
      /\ tup' = tup \/ (tmc.report /\ tup' = Append(tup, tmc.data))
  BY WriteTypes DEF tmcuart_task
<1>2. /\ ~tmc'.report /\ tmc'.active = tmc.active /\ tmc'.kind = tmc.kind
      /\ tmc'.call = tmc.call
  BY <1>1 DEF TmcRecord
<1>3. CASE tup' = tup
  BY <1>1, <1>2, <1>3, BoardWrite DEF Writing
<1>4. CASE tmc.report /\ tup' = Append(tup, tmc.data)
  <2>1. tmc.data \in Int /\ tmc.data # Ack
    <3>1. tmc.data \in {NoValue, Garbled} \cup 0 .. Count - 1 /\ Count \in Nat
      BY WriteTypes DEF TmcRecord
    <3> QED BY <3>1 DEF NoValue, Garbled, Ack
  <2>2. /\ Len(tup) \in Nat /\ Len(tup') = Len(tup) + 1
        /\ tup'[Len(tup) + 1] = tmc.data /\ \A i \in 1 .. Len(tup) : tup'[i] = tup[i]
    BY <1>4, <2>1, WriteTypes, AppendEntries
  <2> SUFFICES ASSUME Believed PROVE Believed'
    BY <1>1, <1>2 DEF WriteInv
  <2>3. Arrived' <=> Arrived
    BY <1>1, <2>1, <2>2 DEF Arrived
  <2>4. \A i \in 1 .. Len(tup) : Taken(i)' <=> Taken(i)
    <3> SUFFICES ASSUME NEW i \in 1 .. Len(tup) PROVE Taken(i)' <=> Taken(i)
      OBVIOUS
    <3>1. \A j \in 1 .. i - 1 : tup'[j] = tup[j]
      BY <2>2
    <3> QED BY <1>1, <3>1 DEF Taken
  <2>5. ASSUME NEW i, i = Len(tup) + 1 PROVE Taken(i)' <=> Arrived
    <3>1. i - 1 = Len(tup)
      BY <2>2, <2>5
    <3>2. Taken(i)' <=> (reg.acked \/ \E j \in 1 .. Len(tup) : tup'[j] = Ack)
      BY <1>1, <3>1 DEF Taken
    <3> QED BY <2>2, <3>2 DEF Arrived
  <2>6. RequestInv'
    <3>1. \A i \in 1 .. Len(tup') : tup'[i] = Ack => i \in 1 .. Len(tup) /\ tup[i] = Ack
      BY <2>1, <2>2
    <3> QED BY <1>1, <2>3, <3>1 DEF Believed, RequestInv
  <2>7. PendingInv' /\ CountInv'
    BY <1>1, <1>2, <2>3 DEF Believed, PendingInv, CountInv, Writing
  <2>8. AnswerInv'
    <3> SUFFICES ASSUME reg.op \in {"first", "check"}, NEW i \in 1 .. Len(tup'),
                        Taken(i)', tup'[i] >= 0
                 PROVE  tup'[i] = chip.ifcnt /\ ~Writing
      BY <1>1, <1>2 DEF AnswerInv, Writing
    <3>1. CASE i \in 1 .. Len(tup)
      BY <2>2, <2>4, <3>1 DEF Believed, AnswerInv
    <3>2. CASE i = Len(tup) + 1
      <4>1. tmc.data = chip.ifcnt
        BY <1>4, <2>2, <2>5, <3>2 DEF Believed, AnswerInv
      <4>2. ~tmc.active
        BY <1>4 DEF WriteInv
      <4> QED BY <2>2, <3>2, <4>1, <4>2 DEF Writing
    <3> QED BY <2>2, <3>1, <3>2
  <2> QED BY <2>6, <2>7, <2>8 DEF Believed
<1> QED BY <1>1, <1>3, <1>4

\* A new RetryAsyncCommand: nothing that is on its way counts as an answer to it.
LEMMA NewRequest ==
  ASSUME LineInv,
         \A i \in 1 .. Len(tdown) : ~tdown[i].first,
         \A i \in 1 .. Len(tup) : tup[i] # Ack,
         UNCHANGED <<tmc, chip>>, tup' = tup \/ (tup # <<>> /\ tup' = Tail(tup)),
         Request(Kind(reg'.op), reg'.call, TRUE) \in Requests,
         tdown' = Append(tdown, Request(Kind(reg'.op), reg'.call, TRUE)),
         reg'.op \in {"first", "write", "check"}, ~reg'.acked, ~reg'.ok,
         \A i \in 1 .. Len(tdown) : tdown[i].kind = "write" =>
           reg'.op \in {"write", "check"} /\ tdown[i].call = reg'.call,
         Writing => reg'.op \in {"write", "check"} /\ tmc.call = reg'.call,
         reg'.op \in {"write", "check"} => chip.ifcnt = reg'.old \/ chip.last = reg'.call
  PROVE  Believed'
<1> DEFINE q == Request(Kind(reg'.op), reg'.call, TRUE)
<1>1. /\ q.first /\ q.call = reg'.call /\ q.kind = Kind(reg'.op)
  BY DEF Request
<1>2. /\ Len(tdown) \in Nat /\ Len(tdown') = Len(tdown) + 1 /\ tdown'[Len(tdown) + 1] = q
      /\ \A i \in 1 .. Len(tdown) : tdown'[i] = tdown[i]
  <2>1. q \in Requests /\ tdown' = Append(tdown, q) /\ tdown \in Seq(Requests)
    BY WriteTypes
  <2> HIDE DEF q
  <2> QED BY ONLY <2>1, AppendEntries
<1> HIDE DEF q
<1>3. \A i \in 1 .. Len(tup') : tup'[i] # Ack
  <2>1. CASE tup' = tup
    BY <2>1
  <2>2. CASE tup # <<>> /\ tup' = Tail(tup)
    <3>1. /\ Len(tup) \in Nat \ {0} /\ Len(tup') = Len(tup) - 1
          /\ \A i \in 1 .. Len(tup) - 1 : tup'[i] = tup[i + 1]
      BY <2>2, WriteTypes, TailEntries
    <3>2. \A i \in 1 .. Len(tup') : i + 1 \in 1 .. Len(tup) /\ tup'[i] = tup[i + 1]
      BY <3>1
    <3> QED BY <3>2
  <2> QED BY <2>1, <2>2
<1>4. ~Arrived'
  BY <1>3 DEF Arrived
<1>5. \A i \in 1 .. Len(tdown') : i \in 1 .. Len(tdown) \/ i = Len(tdown')
  BY <1>2
<1>6. RequestInv'
  <2>1. \A i \in 1 .. Len(tdown') : tdown'[i].first => i = Len(tdown')
    BY <1>2, <1>5
  <2> QED BY <1>3, <1>4, <2>1 DEF RequestInv
<1>7. PendingInv'
  <2>1. q.kind = "write" => reg'.op = "write"
    BY <1>1 DEF Kind
  <2>2. \A i \in 1 .. Len(tdown') : tdown'[i].kind = "write" =>
          reg'.op \in {"write", "check"} /\ tdown'[i].call = reg'.call
    <3> SUFFICES ASSUME NEW i \in 1 .. Len(tdown'), tdown'[i].kind = "write"
                 PROVE  reg'.op \in {"write", "check"} /\ tdown'[i].call = reg'.call
      OBVIOUS
    <3>1. CASE i \in 1 .. Len(tdown)
      <4>1. tdown[i].kind = "write"
        BY <1>2, <3>1
      <4> QED BY <1>2, <3>1, <4>1
    <3>2. CASE i = Len(tdown')
      <4>1. tdown'[i] = q
        BY <1>2, <3>2
      <4> QED BY <1>1, <2>1, <4>1
    <3> QED BY <1>5, <3>1, <3>2
  <2> QED BY <1>4, <2>2 DEF PendingInv, Writing
<1>8. AnswerInv'
  <2>1. ASSUME NEW i \in 1 .. Len(tup') PROVE ~Taken(i)'
    <3>1. \A j \in 1 .. i - 1 : j \in 1 .. Len(tup')
      <4>1. Len(tup') \in Nat
        BY WriteTypes, TailEntries
      <4> QED BY <4>1
    <3> QED BY <1>3, <3>1 DEF Taken
  <2> QED BY <1>4, <2>1 DEF AnswerInv
<1>9. CountInv'
  BY DEF CountInv
<1> QED BY <1>6, <1>7, <1>8, <1>9 DEF Believed

\* set_register: between calls nothing of the last call is left that could change the
\* count.
LEMMA CallWrite ==
  ASSUME LineInv, WriteInv, set_register
  PROVE  WriteInv'
<1>1. reg \in RegRecord /\ chip.ifcnt \in Nat /\ reg.op = "idle"
  BY WriteTypes DEF set_register
<1> DEFINE c == (reg.call + 1) % Calls
           o == IF reg.ifcnt = NoValue THEN 0 ELSE reg.ifcnt
           r == [reg EXCEPT !.call = c, !.tries = Tries, !.reads = Tries,
                            !.ok = FALSE, !.old = o]
           op == IF reg.ifcnt = NoValue THEN "first" ELSE "write"
<1>2. Step(Ask(r, op)) /\ UNCHANGED <<tmc, chip, tup>>
  BY DEF set_register
<1>3. /\ Ask(r, op).op = op /\ Ask(r, op).call = c /\ Ask(r, op).old = o
      /\ Ask(r, op).acked = FALSE /\ Ask(r, op).ok = FALSE /\ Ask(r, op).lost = reg.lost
  <2> HIDE DEF c, o, op
  <2> QED BY <1>1 DEF Ask, RegRecord
<1>4. /\ reg'.op = op /\ reg'.call = c /\ reg'.old = o
      /\ ~reg'.acked /\ ~reg'.ok /\ reg'.lost = reg.lost
      /\ tdown' = Append(tdown, Request(Kind(op), c, TRUE))
  BY <1>2, <1>3 DEF Step, SendFirst
<1>5. SUFFICES ASSUME Believed PROVE Believed'
  BY <1>2, <1>4 DEF WriteInv
<1>6. /\ \A i \in 1 .. Len(tdown) : ~tdown[i].first /\ tdown[i].kind # "write"
      /\ \A i \in 1 .. Len(tup) : tup[i] # Ack
      /\ ~Writing
  BY <1>1, <1>5 DEF Believed, RequestInv, PendingInv
<1>7. op = "write" => chip.ifcnt = o
  BY <1>1, <1>5 DEF Believed, CountInv, NoValue
<1>8. Request(Kind(op), c, TRUE) \in Requests
  <2>1. c \in 0 .. Calls - 1
    <3>1. reg.call \in Int /\ Calls \in Nat \ {0}
      BY <1>1, TmcAssumption DEF RegRecord
    <3> QED BY <3>1
  <2> HIDE DEF c
  <2> QED BY <2>1 DEF Request, Kind, Requests, Kinds
<1>9. op \in {"first", "write"}
  OBVIOUS
<1> HIDE DEF c, o, op, r
<1> QED BY <1>2, <1>4, <1>6, <1>7, <1>8, <1>9, NewRequest

\* Resend, ResponseTimeout: the request again, once its acknowledgement was there.
LEMMA ResendWrite ==
  ASSUME LineInv, WriteInv, Resend \/ ResponseTimeout
  PROVE  WriteInv'
<1>1. reg \in RegRecord /\ UNCHANGED <<tmc, chip, tup>>
  BY WriteTypes DEF Resend, ResponseTimeout
<1>2. CASE ResponseTimeout
  <2>1. reg'.lost
    BY <1>1, <1>2 DEF ResponseTimeout, GiveUp, RegRecord
  <2> QED BY <1>1, <2>1 DEF WriteInv
<1>3. CASE Resend
  <2> DEFINE q == Request(Kind(reg.op), reg.call, FALSE)
  <2>1. reg.op # "idle" /\ reg.acked /\ tdown' = Append(tdown, q)
    BY <1>3 DEF Resend
  <2>2. /\ reg'.op = reg.op /\ reg'.call = reg.call /\ reg'.acked = reg.acked
        /\ reg'.ok = reg.ok /\ reg'.lost = reg.lost /\ reg'.old = reg.old
        /\ reg'.ifcnt = reg.ifcnt
    BY <1>1, <1>3 DEF Resend, RegRecord
  <2>3. SUFFICES ASSUME Believed PROVE Believed'
    BY <1>1, <2>2 DEF WriteInv
  <2>4. q \in Requests /\ ~q.first /\ q.call = reg.call
        /\ (q.kind = "write" => reg.op = "write")
    BY <1>1, <2>1 DEF Request, Kind, Requests, Kinds, RegRecord
  <2> HIDE DEF q
  <2>5. /\ Len(tdown) \in Nat /\ Len(tdown') = Len(tdown) + 1
        /\ tdown'[Len(tdown) + 1] = q /\ \A i \in 1 .. Len(tdown) : tdown'[i] = tdown[i]
    BY <2>1, <2>4, WriteTypes, AppendEntries
  <2>6. \A i \in 1 .. Len(tdown') : i \in 1 .. Len(tdown) \/ i = Len(tdown) + 1
    BY <2>5
  <2>7. Arrived /\ Arrived' /\ \A i \in 1 .. Len(tup) : Taken(i)' <=> Taken(i)
    BY <1>1, <2>1, <2>2 DEF Arrived, Taken
  <2>8. RequestInv'
    <3>1. \A i \in 1 .. Len(tdown') : ~tdown'[i].first
      BY <2>3, <2>4, <2>5, <2>6, <2>7 DEF Believed, RequestInv
    <3>2. \A i \in 1 .. Len(tup) : tup[i] # Ack
      BY <2>1, <2>3 DEF Believed, RequestInv
    <3> QED BY <1>1, <3>1, <3>2 DEF RequestInv
  <2>9. PendingInv'
    <3>1. \A i \in 1 .. Len(tdown') : tdown'[i].kind = "write" =>
            reg.op = "write" /\ tdown'[i].call = reg.call
      BY <2>3, <2>4, <2>5, <2>6, <2>7 DEF Believed, PendingInv
    <3> QED BY <1>1, <2>2, <2>3, <3>1 DEF Believed, PendingInv, Writing
  <2>10. AnswerInv' /\ CountInv'
    BY <1>1, <2>2, <2>3, <2>7 DEF Believed, AnswerInv, CountInv, Writing
  <2> QED BY <2>8, <2>9, <2>10 DEF Believed
<1> QED BY <1>2, <1>3

\* handle_callback: an answer is taken once the acknowledgement was there, and a count
\* that is taken is the chip's.
LEMMA AnswerWrite ==
  ASSUME LineInv, WriteInv, handle_callback
  PROVE  WriteInv'
<1> DEFINE m == tup[1]
<1>1. /\ reg \in RegRecord /\ tup # <<>> /\ tup' = Tail(tup) /\ Head(tup) = m
      /\ UNCHANGED <<tmc, chip>>
  BY WriteTypes, TailEntries DEF handle_callback
<1>2. /\ Len(tup) \in Nat \ {0} /\ Len(tup') = Len(tup) - 1 /\ m \in Int
      /\ \A i \in 1 .. Len(tup') : i + 1 \in 1 .. Len(tup) /\ tup'[i] = tup[i + 1]
  BY <1>1, WriteTypes, TailEntries
<1>3. \/ m = Ack /\ reg' = [reg EXCEPT !.acked = reg.op # "idle"] /\ UNCHANGED tdown
      \/ m # Ack /\ UNCHANGED <<reg, tdown>>
      \/ /\ m # Ack /\ reg.op = "write" /\ reg.acked
         /\ Step(Ask([reg EXCEPT !.reads = Tries], "check"))
      \/ /\ m # Ack /\ reg.op \in {"first", "check"} /\ reg.acked /\ m >= 0
         /\ Step(GotCount(m))
      \/ m # Ack /\ reg.op \in {"first", "check"} /\ reg.acked /\ Step(BadRead)
  BY <1>1 DEF handle_callback, Takes, RegRecord
<1> HIDE DEF m
<1>4. ASSUME ~reg.lost => Believed', reg'.lost = reg.lost \/ reg'.lost
      PROVE  WriteInv'
  BY <1>1, <1>4 DEF WriteInv
<1>5. ~reg.lost => Believed
  BY DEF WriteInv
\* The acknowledgement.
<1>6. CASE m = Ack /\ reg' = [reg EXCEPT !.acked = reg.op # "idle"] /\ UNCHANGED tdown
  <2>1. /\ reg'.op = reg.op /\ reg'.call = reg.call /\ reg'.acked = (reg.op # "idle")
        /\ reg'.ok = reg.ok /\ reg'.lost = reg.lost /\ reg'.old = reg.old
        /\ reg'.ifcnt = reg.ifcnt
    BY <1>1, <1>6 DEF RegRecord
  <2>2. SUFFICES ASSUME Believed PROVE Believed'
    BY <1>4, <1>5, <2>1
  <2>3. reg.op # "idle" /\ \A i \in 1 .. Len(tup) : tup[i] = Ack => i = 1
    BY <1>2, <1>6, <2>2 DEF Believed, RequestInv, m
  <2>4. Arrived /\ Arrived' /\ \A i \in 1 .. Len(tup') : tup'[i] # Ack
    <3>1. \A i \in 1 .. Len(tup') : i + 1 # 1
      OBVIOUS
    <3>2. 1 \in 1 .. Len(tup)
      BY <1>2
    <3> QED BY <1>2, <1>6, <2>1, <2>3, <3>1, <3>2 DEF Arrived, m
  <2>5. \A i \in 1 .. Len(tup') : Taken(i + 1)
    <3>1. \A i \in 1 .. Len(tup') : 1 \in 1 .. (i + 1) - 1
      BY <1>2
    <3> QED BY <1>6, <3>1 DEF Taken, m
  <2>6. RequestInv'
    BY <1>6, <2>2, <2>4 DEF Believed, RequestInv
  <2>7. PendingInv' /\ CountInv'
    BY <1>1, <1>6, <2>1, <2>2, <2>4 DEF Believed, PendingInv, CountInv, Writing
  <2>8. AnswerInv'
    BY <1>1, <1>2, <2>1, <2>2, <2>4, <2>5 DEF Believed, AnswerInv, Writing
  <2> QED BY <2>6, <2>7, <2>8 DEF Believed
\* A message that nobody waits for.
<1>7. CASE m # Ack /\ UNCHANGED <<reg, tdown>>
  <2>1. SUFFICES ASSUME Believed PROVE Believed'
    BY <1>4, <1>5, <1>7
  <2>2. \A i \in 1 .. Len(tup) : tup[i] = Ack => i - 1 \in 1 .. Len(tup') /\ tup'[i - 1] = Ack
    <3>1. \A i \in 1 .. Len(tup) : tup[i] = Ack => i # 1
      BY <1>7 DEF m
    <3>2. \A i \in 1 .. Len(tup) : i # 1 => i - 1 \in 1 .. Len(tup') /\ (i - 1) + 1 = i
      BY <1>2
    <3> QED BY <1>2, <3>1, <3>2
  <2>3. Arrived' <=> Arrived
    BY <1>2, <1>7, <2>2 DEF Arrived
  <2>4. ASSUME NEW i \in 1 .. Len(tup'), Taken(i)' PROVE Taken(i + 1)
    <3>1. CASE reg.acked
      BY <3>1 DEF Taken
    <3>2. CASE ~reg.acked
      <4>1. PICK j \in 1 .. i - 1 : tup'[j] = Ack
        BY <1>7, <2>4, <3>2 DEF Taken
      <4>2. j \in 1 .. Len(tup') /\ j + 1 \in 1 .. (i + 1) - 1
        BY <1>2
      <4> QED BY <1>2, <4>1, <4>2 DEF Taken
    <3> QED BY <3>1, <3>2
  <2>5. RequestInv'
    <3>1. \A i, j \in 1 .. Len(tup') : i + 1 = j + 1 => i = j
      BY <1>2
    <3> QED BY <1>2, <1>7, <2>1, <2>3, <3>1 DEF Believed, RequestInv
  <2>6. PendingInv' /\ CountInv'
    BY <1>1, <1>7, <2>1, <2>3 DEF Believed, PendingInv, CountInv, Writing
  <2>7. AnswerInv'
    BY <1>1, <1>2, <1>7, <2>1, <2>3, <2>4 DEF Believed, AnswerInv, Writing
  <2> QED BY <2>5, <2>6, <2>7 DEF Believed
\* With an answer taken, everything asked before has run its course.
<1>8. ASSUME reg.acked, reg.op # "idle", Believed
      PROVE  /\ \A i \in 1 .. Len(tdown) : ~tdown[i].first
             /\ \A i \in 1 .. Len(tup) : tup[i] # Ack
             /\ reg.op # "write" => \A i \in 1 .. Len(tdown) : tdown[i].kind # "write"
  BY <1>8 DEF Believed, RequestInv, PendingInv, Arrived
<1>9. ASSUME NEW r \in RegRecord, Step(r)
      PROVE  /\ reg' = r
             /\ IF r.op = "idle" THEN tdown' = tdown
                ELSE /\ tdown' = Append(tdown, Request(Kind(r.op), r.call, TRUE))
                     /\ Request(Kind(r.op), r.call, TRUE) \in Requests
  BY <1>9 DEF Step, SendFirst, Request, Kind, Requests, Kinds, RegRecord
\* The answer to the write, whatever it is: the count is asked for.
<1>10. CASE /\ reg.op = "write" /\ reg.acked
            /\ Step(Ask([reg EXCEPT !.reads = Tries], "check"))
  <2> DEFINE r == Ask([reg EXCEPT !.reads = Tries], "check")
  <2>1. /\ r \in RegRecord /\ r.op = "check" /\ r.call = reg.call /\ r.old = reg.old
        /\ ~r.acked /\ r.ok = reg.ok /\ r.lost = reg.lost
    <3>1. Resends \in Int /\ Tries \in Int
      BY TmcAssumption
    <3> QED BY <1>1, <3>1 DEF Ask, RegRecord
  <2>2. Step(r)
    BY <1>10
  <2> HIDE DEF r
  <2>3. /\ reg' = r /\ tdown' = Append(tdown, Request(Kind(r.op), r.call, TRUE))
        /\ Request(Kind(r.op), r.call, TRUE) \in Requests
    BY <1>9, <2>1, <2>2
  <2>4. SUFFICES ASSUME Believed PROVE Believed'
    BY <1>4, <1>5, <2>1, <2>3
  <2>5. /\ \A i \in 1 .. Len(tdown) : ~tdown[i].first
        /\ \A i \in 1 .. Len(tup) : tup[i] # Ack
    BY <1>8, <1>10, <2>4
  <2>6. /\ ~reg.ok /\ (chip.ifcnt = reg.old \/ chip.last = reg.call)
        /\ \A i \in 1 .. Len(tdown) : tdown[i].kind = "write" => tdown[i].call = reg.call
        /\ Writing => tmc.call = reg.call
    BY <1>10, <2>4 DEF Believed, PendingInv, CountInv
  <2> QED BY <1>1, <2>1, <2>3, <2>5, <2>6, NewRequest
\* A count.
<1>11. CASE /\ reg.op \in {"first", "check"} /\ reg.acked /\ m >= 0 /\ m # Ack
            /\ Step(GotCount(m))
  <2> DEFINE r == GotCount(m)
             n == reg.tries - 1
  <2>1. n \in Int /\ reg.tries \in Int
    BY <1>1 DEF RegRecord
  <2>2. /\ r \in RegRecord /\ r.call = reg.call /\ r.lost = reg.lost
        /\ \/ /\ r.op = "write" /\ r.old = m /\ ~r.acked /\ r.ok = reg.ok
           \/ /\ reg.op = "check" /\ r.op = "idle" /\ r.ifcnt = m
              /\ r.ok = reg.ok \/ CountedOne(reg.old, m)
    <3> DEFINE x == [reg EXCEPT !.ifcnt = m]
    <3>1. \/ r = Ask([x EXCEPT !.old = m], "write")
          \/ reg.op = "check" /\ r = [x EXCEPT !.op = "idle", !.ok = TRUE] /\ CountedOne(reg.old, m)
          \/ reg.op = "check" /\ r = [x EXCEPT !.op = "idle"]
          \/ r = Ask([x EXCEPT !.tries = n, !.old = m], "write")
      <4>1. x.tries = reg.tries
        BY <1>1 DEF RegRecord
      <4> QED BY <1>11, <4>1 DEF GotCount
    <3>2. x \in RegRecord /\ x.ifcnt = m /\ x.call = reg.call /\ x.lost = reg.lost /\ x.ok = reg.ok
      BY <1>1, <1>2 DEF RegRecord
    <3> HIDE DEF x, n, r
    <3>3. Resends \in Int
      BY TmcAssumption
    <3> QED BY <1>2, <2>1, <3>1, <3>2, <3>3 DEF Ask, RegRecord
  <2>3. Step(r)
    BY <1>11
  <2> HIDE DEF r, n
  <2>4. reg' = r
    BY <1>9, <2>2, <2>3
  <2>5. SUFFICES ASSUME Believed PROVE Believed'
    BY <1>4, <1>5, <2>2, <2>4
  <2>6. /\ \A i \in 1 .. Len(tdown) : ~tdown[i].first /\ tdown[i].kind # "write"
        /\ \A i \in 1 .. Len(tup) : tup[i] # Ack
        /\ ~reg.ok
    BY <1>8, <1>11, <2>5 DEF Believed, CountInv
  <2>7. m = chip.ifcnt /\ ~Writing
    <3>1. Taken(1) /\ 1 \in 1 .. Len(tup)
      BY <1>2, <1>11 DEF Taken
    <3> QED BY <1>11, <2>5, <3>1 DEF Believed, AnswerInv, m
  <2>8. CASE r.op = "write" /\ r.old = m /\ ~r.acked /\ r.ok = reg.ok
    <3>1. /\ tdown' = Append(tdown, Request(Kind(r.op), r.call, TRUE))
          /\ Request(Kind(r.op), r.call, TRUE) \in Requests
      BY <1>9, <2>2, <2>3, <2>8
    <3> QED BY <1>1, <2>4, <2>6, <2>7, <2>8, <3>1, NewRequest
  <2>9. CASE /\ reg.op = "check" /\ r.op = "idle" /\ r.ifcnt = m
             /\ r.ok = reg.ok \/ CountedOne(reg.old, m)
    <3>1. tdown' = tdown
      BY <1>9, <2>2, <2>3, <2>9
    <3>2. \A i \in 1 .. Len(tup') : tup'[i] # Ack
      BY <1>2, <2>6
    <3>3. r.ok => chip.last = reg.call
      <4>1. CASE r.ok = reg.ok
        BY <2>6, <4>1
      <4>2. CASE CountedOne(reg.old, m)
        <5>1. chip.ifcnt = (reg.old + 1) % Count
          BY <2>7, <4>2 DEF CountedOne
        <5>2. chip.ifcnt # reg.old
          <6>1. SUFFICES ASSUME chip.ifcnt = reg.old PROVE FALSE
            OBVIOUS
          <6> DEFINE k == reg.old
          <6>2. k \in 0 .. Count - 1 /\ Count \in Nat /\ Count > 1 /\ k = (k + 1) % Count
            BY <5>1, <6>1, WriteTypes
          <6> HIDE DEF k
          <6>3. k + 1 < Count => (k + 1) % Count = k + 1
            BY <6>2
          <6>4. k + 1 = Count => (k + 1) % Count = 0
            BY <6>2
          <6> QED BY <6>2, <6>3, <6>4
        <5> QED BY <2>5, <2>9, <5>2 DEF Believed, CountInv
      <4> QED BY <2>9, <4>1, <4>2
    <3>4. RequestInv' /\ PendingInv'
      BY <1>1, <2>6, <2>7, <3>1, <3>2 DEF RequestInv, PendingInv, Writing
    <3>5. AnswerInv' /\ CountInv'
      BY <1>1, <2>2, <2>4, <2>7, <2>9, <3>3 DEF AnswerInv, CountInv
    <3> QED BY <3>4, <3>5 DEF Believed
  <2> QED BY <2>2, <2>8, <2>9
\* An answer without a count: the count is asked for again, or the call gives up.
<1>12. CASE reg.op \in {"first", "check"} /\ reg.acked /\ Step(BadRead)
  <2> DEFINE r == BadRead
             n == reg.reads - 1
  <2>1. /\ r \in RegRecord
        /\ \/ r.lost
           \/ /\ r.op = reg.op /\ r.call = reg.call /\ r.old = reg.old
              /\ ~r.acked /\ r.ok = reg.ok /\ r.lost = reg.lost
    <3>1. n \in Int /\ Resends \in Int
      BY <1>1, TmcAssumption DEF RegRecord
    <3>2. r = GiveUp(reg) \/ r = Ask([reg EXCEPT !.reads = n], reg.op)
      BY DEF BadRead
    <3> HIDE DEF r, n
    <3> QED BY <1>1, <3>1, <3>2 DEF Ask, GiveUp, RegRecord
  <2>2. Step(r)
    BY <1>12
  <2> HIDE DEF r, n
  <2>3. reg' = r
    BY <1>9, <2>1, <2>2
  <2>4. CASE r.lost
    BY <1>1, <2>3, <2>4 DEF WriteInv
  <2>5. CASE /\ r.op = reg.op /\ r.call = reg.call /\ r.old = reg.old
             /\ ~r.acked /\ r.ok = reg.ok /\ r.lost = reg.lost
    <3>1. /\ tdown' = Append(tdown, Request(Kind(r.op), r.call, TRUE))
          /\ Request(Kind(r.op), r.call, TRUE) \in Requests
      BY <1>9, <1>12, <2>1, <2>2, <2>5
    <3>2. SUFFICES ASSUME Believed PROVE Believed'
      BY <1>4, <1>5, <2>3, <2>5
    <3>3. /\ \A i \in 1 .. Len(tdown) : ~tdown[i].first /\ tdown[i].kind # "write"
          /\ \A i \in 1 .. Len(tup) : tup[i] # Ack
      BY <1>8, <1>12, <3>2
    <3>4. /\ ~reg.ok /\ (reg.op = "check" => chip.ifcnt = reg.old \/ chip.last = reg.call)
          /\ Writing => reg.op = "check" /\ tmc.call = reg.call
      BY <1>12, <3>2 DEF Believed, PendingInv, CountInv
    <3> QED BY <1>1, <1>12, <2>3, <2>5, <3>1, <3>3, <3>4, NewRequest
  <2> QED BY <2>1, <2>4, <2>5
<1> QED BY <1>3, <1>6, <1>7, <1>10, <1>11, <1>12

\* A shutdown drops the timer and the report, and until it is cleared no request begins.
LEMMA ShutStepInv ==
  ASSUME LineInv, ShutInv, conf \in Confs, [Next]_vars
  PROVE  ShutInv'
<1>1. SUFFICES ASSUME conf' = "tmcuart", shut' PROVE ~tmc'.timer /\ ~tmc'.report
  BY DEF ShutInv
<1>2. conf = "tmcuart" BY <1>1 DEF Next, vars
<1>3. CASE TmcStep
  <2>1. shut' = shut
    BY <1>3 DEF TmcStep, TmcNext, command_tmcuart_send, tmcuart_send_sync_event,
       tmcuart_send_event, tmcuart_send_finish_event, tmcuart_read_event, tmcuart_task,
       set_register, Resend, ResponseTimeout, handle_callback
  <2>2. shut /\ ~tmc.timer /\ ~tmc.report BY <1>1, <1>2, <2>1 DEF ShutInv
  <2>3. command_tmcuart_send \/ set_register \/ Resend \/ ResponseTimeout \/ handle_callback
    BY <1>3, <2>2 DEF TmcStep, TmcNext, tmcuart_send_sync_event, tmcuart_send_event,
       tmcuart_send_finish_event, tmcuart_read_event, tmcuart_task
  <2>4. tmc' = tmc
    BY <2>2, <2>3 DEF command_tmcuart_send, set_register, Resend, ResponseTimeout,
       handle_callback
  <2> QED BY <2>2, <2>4
<1>4. CASE Shutdown
  <2>1. tmc' = [ResetLine(tmc) EXCEPT !.timer = FALSE]
    BY <1>2, <1>4 DEF Shutdown, tmcuart_shutdown
  <2>2. tmc \in TmcRecord BY DEF LineInv, TmcTypes
  <2> QED BY <2>1, <2>2 DEF ResetLine, TmcRecord
<1>5. CASE ClearShutdown
  BY <1>1, <1>5 DEF ClearShutdown, sched_clear_shutdown
<1>6. CASE UNCHANGED vars
  <2>1. shut' = shut /\ tmc' = tmc BY <1>6 DEF vars, tmcvars
  <2> QED BY <1>1, <1>2, <2>1 DEF ShutInv
<1>7. ~(DigitalStep \/ PwmStep \/ AnalogStep \/ EndstopStep \/ ProbeStep)
  BY <1>2 DEF DigitalStep, PwmStep, AnalogStep, EndstopStep, ProbeStep
<1> QED BY <1>3, <1>4, <1>5, <1>6, <1>7 DEF Next

\* Every step of the drivers keeps it.
LEMMA WriteStepInv ==
  ASSUME LineInv, ShutInv, WriteInv, conf \in Confs, [Next]_vars
  PROVE  WriteInv'
<1>1. CASE UNCHANGED tmcvars
  BY <1>1 DEF tmcvars, WriteInv, Believed, RequestInv, PendingInv, AnswerInv, CountInv,
              Arrived, Taken, Writing
<1>2. CASE TmcStep
  <2>1. shut => ~tmc.report
    BY <1>2 DEF ShutInv, TmcStep
  <2> QED BY <1>2, <2>1, CommandWrite, BitWrite, FinishWrite, ReadWrite, TaskWrite, CallWrite,
             ResendWrite, AnswerWrite DEF TmcStep, TmcNext
<1>3. CASE DigitalStep \/ PwmStep \/ AnalogStep \/ EndstopStep \/ ProbeStep \/ ClearShutdown
  BY <1>1, <1>3
     DEF DigitalStep, PwmStep, AnalogStep, EndstopStep, ProbeStep, ClearShutdown
<1>4. CASE Shutdown
  <2>1. CASE conf = "tmcuart"
    BY <1>4, <2>1, ShutdownWrite DEF Shutdown
  <2>2. CASE conf # "tmcuart"
    <3>1. UNCHANGED tmcvars
      BY <1>4, <2>2 DEF Shutdown, Confs, DigitalHalt, PwmHalt
    <3> QED BY <1>1, <3>1
  <2> QED BY <2>1, <2>2
<1>5. CASE UNCHANGED vars
  BY <1>1, <1>5 DEF vars
<1> QED BY <1>2, <1>3, <1>4, <1>5 DEF Next

-----------------------------------------------------------------------------
\* The output pins.

\* How far ahead of c the time t is; half the range and more is late.
Lead(c, t) == (t - c) % Word

\* The clock has as many values ahead of a time as behind it.
LEMMA HalfWord ==
  Half \in Nat \ {0} /\ Word = 2 * Half /\ 0 \in Clock
<1>1. Word \in Nat /\ Word > 1 /\ Word % 2 = 0
  BY WordAssumption
<1> QED BY <1>1 DEF Half, Clock

\* What the word-sized operations return.
LEMMA WordCases ==
  /\ \A c, t \in Clock : Lead(c, t) = IF t >= c THEN t - c ELSE t - c + Word
  /\ \A a, b \in Clock : Before(a, b) <=> Lead(b, a) >= Half
  /\ \A a \in Clock : \A n \in -1 .. Word - 1 :
       Plus(a, n) = IF a + n >= Word THEN a + n - Word
                    ELSE IF a + n < 0 THEN a + n + Word ELSE a + n
<1>1. Word \in Nat \ {0} /\ Half \in Nat \ {0} /\ Half < Word
  BY HalfWord
<1>2. /\ \A x \in 0 .. Word - 1 : x % Word = x
      /\ \A x \in Word .. 2 * Word - 1 : x % Word = x - Word
      /\ \A x \in 1 - Word .. -1 : x % Word = x + Word
  BY <1>1
<1>3. \A c, t \in Clock : Lead(c, t) = IF t >= c THEN t - c ELSE t - c + Word
  <2> SUFFICES ASSUME NEW c \in Clock, NEW t \in Clock
               PROVE  (t - c) % Word = IF t >= c THEN t - c ELSE t - c + Word
    BY DEF Lead
  <2>1. CASE t >= c
    <3>1. t - c \in 0 .. Word - 1
      BY <1>1, <2>1 DEF Clock
    <3> QED BY <1>2, <2>1, <3>1
  <2>2. CASE ~(t >= c)
    <3>1. t - c \in 1 - Word .. -1
      BY <1>1, <2>2 DEF Clock
    <3> QED BY <1>2, <2>2, <3>1
  <2> QED BY <2>1, <2>2
<1>4. \A a, b \in Clock : Before(a, b) <=> Lead(b, a) >= Half
  <2> SUFFICES ASSUME NEW a \in Clock, NEW b \in Clock
               PROVE  Before(a, b) <=> Lead(b, a) >= Half
    OBVIOUS
  <2>1. Lead(b, a) \in 0 .. Word - 1
    <3>1. Lead(b, a) = IF a >= b THEN a - b ELSE a - b + Word
      BY <1>3, Zenon
    <3> QED BY <1>1, <3>1 DEF Clock
  <2>2. Before(a, b) <=> (IF Lead(b, a) >= Half THEN Lead(b, a) - Word ELSE Lead(b, a)) < 0
    BY DEF Before, Diff, Lead
  <2> QED BY <1>1, <2>1, <2>2
<1>5. \A a \in Clock : \A n \in -1 .. Word - 1 :
        Plus(a, n) = IF a + n >= Word THEN a + n - Word
                     ELSE IF a + n < 0 THEN a + n + Word ELSE a + n
  <2> SUFFICES ASSUME NEW a \in Clock, NEW n \in -1 .. Word - 1
               PROVE  (a + n) % Word = IF a + n >= Word THEN a + n - Word
                                       ELSE IF a + n < 0 THEN a + n + Word ELSE a + n
    BY DEF Plus
  <2>1. CASE a + n >= Word
    <3>1. a + n \in Word .. 2 * Word - 1
      BY <1>1, <2>1 DEF Clock
    <3>2. (a + n) % Word = (a + n) - Word
      BY <1>2, <3>1, Zenon
    <3> QED BY <1>1, <2>1, <3>2 DEF Clock
  <2>2. CASE a + n < 0
    <3>1. a + n = -1
      BY <1>1, <2>2 DEF Clock
    <3>2. a + n \in 1 - Word .. -1 /\ ~(a + n >= Word)
      BY <1>1, <3>1
    <3>3. (a + n) % Word = (a + n) + Word
      BY <1>2, <3>2, Zenon
    <3> QED BY <2>2, <3>2, <3>3
  <2>3. CASE ~(a + n >= Word) /\ ~(a + n < 0)
    <3>1. a + n \in 0 .. Word - 1
      BY <1>1, <2>3 DEF Clock
    <3> QED BY <1>2, <2>3, <3>1
  <2> QED BY <2>1, <2>2, <2>3
<1> QED BY <1>3, <1>4, <1>5

\* Times that are not late are in the order of their leads.
LEMMA LeadOrder ==
  ASSUME NEW c \in Clock, NEW a \in Clock, NEW b \in Clock,
         Lead(c, a) < Half, Lead(c, b) < Half
  PROVE  Before(a, b) <=> Lead(c, a) < Lead(c, b)
<1>1. Half \in Nat \ {0} /\ Word = 2 * Half
  BY HalfWord
<1>2. /\ Lead(c, a) = IF a >= c THEN a - c ELSE a - c + Word
      /\ Lead(c, b) = IF b >= c THEN b - c ELSE b - c + Word
      /\ Lead(b, a) = IF a >= b THEN a - b ELSE a - b + Word
      /\ Before(a, b) <=> Lead(b, a) >= Half
  BY WordCases
<1> QED BY <1>1, <1>2 DEF Clock

\* What a lead says of a time: nothing is late by Half, the timer of a time that is not
\* late is due at that time only, and a tick brings the others nearer.
LEMMA LeadFacts ==
  ASSUME NEW c \in Clock, NEW t \in Clock
  PROVE  /\ Lead(c, t) \in 0 .. Word - 1
         /\ Lead(c, t) = 0 <=> t = c
         /\ Before(t, c) <=> Lead(c, t) >= Half
         /\ Lead(c, t) < Half => (Before(c, t) <=> Lead(c, t) > 0)
         /\ Plus(c, 1) \in Clock
         /\ Lead(c, t) > 0 => Lead(Plus(c, 1), t) = Lead(c, t) - 1
         /\ \A n \in 0 .. Half - 1 : /\ Plus(c, n) \in Clock
                                     /\ Lead(c, Plus(c, n)) = n
<1>1. Half \in Nat \ {0} /\ Word = 2 * Half /\ 1 \in -1 .. Word - 1
  BY HalfWord
<1>2. /\ Lead(c, t) = IF t >= c THEN t - c ELSE t - c + Word
      /\ Before(t, c) <=> Lead(c, t) >= Half
      /\ Lead(t, c) = IF c >= t THEN c - t ELSE c - t + Word
      /\ Before(c, t) <=> Lead(t, c) >= Half
  BY WordCases
<1>3. Plus(c, 1) = IF c + 1 >= Word THEN c + 1 - Word
                   ELSE IF c + 1 < 0 THEN c + 1 + Word ELSE c + 1
  BY <1>1, WordCases
<1>4. Plus(c, 1) \in Clock
  BY <1>1, <1>3 DEF Clock
<1>5. Lead(Plus(c, 1), t) = IF t >= Plus(c, 1) THEN t - Plus(c, 1) ELSE t - Plus(c, 1) + Word
  BY <1>4, WordCases
<1>6. Lead(c, t) > 0 => Lead(Plus(c, 1), t) = Lead(c, t) - 1
  BY <1>1, <1>2, <1>3, <1>5 DEF Clock
<1>7. ASSUME NEW n \in 0 .. Half - 1
      PROVE  Plus(c, n) \in Clock /\ Lead(c, Plus(c, n)) = n
  <2>1. n \in -1 .. Word - 1
    BY <1>1
  <2>2. Plus(c, n) = IF c + n >= Word THEN c + n - Word
                     ELSE IF c + n < 0 THEN c + n + Word ELSE c + n
    BY <2>1, WordCases
  <2>3. Plus(c, n) \in Clock
    BY <1>1, <2>1, <2>2 DEF Clock
  <2>4. Lead(c, Plus(c, n)) = IF Plus(c, n) >= c THEN Plus(c, n) - c ELSE Plus(c, n) - c + Word
    BY <2>3, WordCases
  <2> QED BY <1>1, <2>2, <2>3, <2>4 DEF Clock
<1>8. /\ Lead(c, t) \in 0 .. Word - 1
      /\ Lead(c, t) = 0 <=> t = c
      /\ Lead(c, t) < Half => (Before(c, t) <=> Lead(c, t) > 0)
  BY <1>1, <1>2 DEF Clock
<1> QED BY <1>2, <1>4, <1>6, <1>7, <1>8

\* A time one tick too late is before every time that is not late, and a time that is
\* soon enough is not before it.
LEMMA LateOrder ==
  ASSUME NEW c \in Clock, NEW a \in Clock, NEW t \in Clock, t = Plus(c, -1),
         Lead(c, a) < Half
  PROVE  /\ Before(t, a)
         /\ Lead(c, a) + 1 < Half => ~Before(a, t)
         /\ Before(t, c)
<1>1. Half \in Nat \ {0} /\ Word = 2 * Half /\ -1 \in -1 .. Word - 1
  BY HalfWord
<1>2. /\ Lead(c, a) = IF a >= c THEN a - c ELSE a - c + Word
      /\ Lead(c, t) = IF t >= c THEN t - c ELSE t - c + Word
      /\ Lead(t, a) = IF a >= t THEN a - t ELSE a - t + Word
      /\ Lead(a, t) = IF t >= a THEN t - a ELSE t - a + Word
      /\ Before(t, a) <=> Lead(a, t) >= Half
      /\ Before(a, t) <=> Lead(t, a) >= Half
      /\ Before(t, c) <=> Lead(c, t) >= Half
  BY WordCases
<1>3. Plus(c, -1) = IF c + -1 >= Word THEN c + -1 - Word
                    ELSE IF c + -1 < 0 THEN c + -1 + Word ELSE c + -1
  BY <1>1, WordCases
<1>4. t = IF c = 0 THEN Word - 1 ELSE c - 1
  BY <1>1, <1>3 DEF Clock
<1> QED BY <1>1, <1>2, <1>4 DEF Clock

\* A due timer that is not late is due right now.
LEMMA DueNow ==
  ASSUME NEW c \in Clock, NEW t \in Clock, Lead(c, t) < Half
  PROVE  ~Before(c, t) <=> t = c
<1>1. /\ Lead(c, t) \in 0 .. Word - 1 /\ (Lead(c, t) = 0 <=> t = c)
      /\ Before(c, t) <=> Lead(c, t) > 0
  BY LeadFacts
<1> QED BY <1>1, HalfWord

\* A time less than half the range from now.
LEMMA LeadPlus ==
  ASSUME NEW c \in Clock, NEW n \in 0 .. Half - 1
  PROVE  Plus(c, n) \in Clock /\ Lead(c, Plus(c, n)) = n
BY LeadFacts, Zenon

\* A queue is a sequence of no more updates than the pool has nodes.
LEMMA QueueSeq ==
  ASSUME NEW q
  PROVE  q \in Queue <=> (q \in Seq(Update) /\ Len(q) <= MoveCount)
<1>1. MoveCount \in Nat
  BY OutputsAssumption
<1>2. ASSUME q \in Queue
      PROVE  q \in Seq(Update) /\ Len(q) <= MoveCount
  <2>1. PICK k \in 0 .. MoveCount : q \in [1 .. k -> Update]
    BY <1>2 DEF Queue
  <2>2. k \in Nat /\ k <= MoveCount
    BY <1>1
  <2>3. q \in Seq(Update)
    BY <2>1, <2>2, SeqDef
  <2>4. Len(q) = k
    BY <2>1, <2>2, <2>3
  <2> QED BY <2>2, <2>3, <2>4
<1>3. ASSUME q \in Seq(Update), Len(q) <= MoveCount
      PROVE  q \in Queue
  <2>1. q \in [1 .. Len(q) -> Update] /\ Len(q) \in 0 .. MoveCount
    BY <1>1, <1>3
  <2> QED BY <2>1, Zenon DEF Queue
<1> QED BY <1>2, <1>3

\* The updates are due one after the other, and none is late.
InOrder(q, c) ==
  /\ \A i \in 1 .. Len(q) : Lead(c, q[i].waketime) < Half
  /\ \A i, j \in 1 .. Len(q) :
       i <= j => Lead(c, q[i].waketime) <= Lead(c, q[j].waketime)

\* The empty queue.
LEMMA EmptyQueue ==
  /\ <<>> \in Queue
  /\ \A c \in Clock : InOrder(<<>>, c)
<1>1. <<>> \in Seq(Update) /\ Len(<<>>) <= MoveCount
  BY OutputsAssumption
<1>2. <<>> \in Queue
  BY <1>1, QueueSeq, Zenon
<1>3. \A c \in Clock : InOrder(<<>>, c)
  BY DEF InOrder
<1> QED BY <1>2, <1>3

\* What UpdateTime and a queue that is in order say of the next time.
LEMMA NextTime ==
  ASSUME NEW q \in Queue, NEW c \in Clock, NEW t \in Clock, InOrder(q, c), q # <<>>,
         \E k \in -1 .. Ahead : t = Plus(c, k), ~Before(t, q[Len(q)].waketime)
  PROVE  /\ Lead(c, t) < Half
         /\ \A i \in 1 .. Len(q) : Lead(c, q[i].waketime) <= Lead(c, t)
<1>1. /\ q \in Seq(Update) /\ Len(q) \in Nat \ {0} /\ Ahead \in Nat /\ Ahead < Half
      /\ Half \in Nat \ {0}
  <2>1. q \in Seq(Update)
    BY QueueSeq
  <2>2. Len(q) \in Nat \ {0}
    BY <2>1
  <2>3. Ahead \in Nat /\ Ahead < Half
    BY OutputsAssumption
  <2> QED BY <2>1, <2>2, <2>3, HalfWord
<1>2. ASSUME NEW i \in 1 .. Len(q)
      PROVE  q[i].waketime \in Clock
  <2>1. q[i] \in Update
    BY <1>1
  <2> QED BY <2>1 DEF Update
<1>3. Len(q) \in 1 .. Len(q)
  BY <1>1
<1>4. Lead(c, q[Len(q)].waketime) < Half /\ q[Len(q)].waketime \in Clock
  BY <1>2, <1>3, Zenon DEF InOrder
<1>5. t # Plus(c, -1)
  BY <1>4, LateOrder
<1>6. Lead(c, t) < Half
  <2>1. PICK k \in -1 .. Ahead : t = Plus(c, k)
    OBVIOUS
  <2>2. k \in 0 .. Half - 1
    BY <1>1, <1>5, <2>1
  <2>3. Lead(c, t) = k
    BY <2>1, <2>2, LeadPlus
  <2> QED BY <1>1, <2>2, <2>3
<1>7. ~(Lead(c, t) < Lead(c, q[Len(q)].waketime))
  BY <1>4, <1>6, LeadOrder
<1>8. ASSUME NEW i \in 1 .. Len(q)
      PROVE  Lead(c, q[i].waketime) <= Lead(c, t)
  <2>1. Lead(c, q[i].waketime) <= Lead(c, q[Len(q)].waketime)
    <3>1. i <= Len(q)
      BY <1>1
    <3> QED BY <1>3, <3>1, Zenon DEF InOrder
  <2>2. /\ Lead(c, q[i].waketime) \in 0 .. Word - 1 /\ Lead(c, t) \in 0 .. Word - 1
        /\ Lead(c, q[Len(q)].waketime) \in 0 .. Word - 1
    BY <1>2, <1>4, LeadFacts
  <2> QED BY <1>7, <2>1, <2>2
<1> QED BY <1>6, <1>8

\* move_queue_push leaves a queue in order if the update is not before the others.
LEMMA PushQueue ==
  ASSUME NEW q \in Queue, NEW c \in Clock, InOrder(q, c), NEW t \in Clock, NEW n \in OnTicks,
         Len(q) < MoveCount, Lead(c, t) < Half,
         \A i \in 1 .. Len(q) : Lead(c, q[i].waketime) <= Lead(c, t)
  PROVE  LET r == Append(q, [waketime |-> t, on |-> n])
         IN  /\ r \in Queue /\ r # <<>> /\ InOrder(r, c) /\ Len(r) = Len(q) + 1
             /\ r[1].waketime = IF q = <<>> THEN t ELSE q[1].waketime
<1>1. /\ q \in Seq(Update) /\ Len(q) \in Nat /\ Len(q) <= MoveCount /\ MoveCount \in Nat \ {0}
  BY QueueSeq, OutputsAssumption
<1> DEFINE m == [waketime |-> t, on |-> n]
           r == Append(q, m)
<1>2. m \in Update /\ m.waketime = t
  BY DEF Update
<1> HIDE DEF m
<1>3. /\ r \in Seq(Update) /\ Len(r) = Len(q) + 1 /\ r[Len(q) + 1] = m
      /\ \A i \in 1 .. Len(q) : r[i] = q[i]
  BY <1>1, <1>2, AppendProperties
<1> HIDE DEF r
<1>4. r \in Queue
  <2>1. Len(r) <= MoveCount
    BY <1>1, <1>3
  <2> QED BY <1>3, <2>1, QueueSeq
<1>5. r # <<>>
  BY <1>1, <1>3
<1>6. r[1] = IF q = <<>> THEN m ELSE q[1]
  BY <1>1, <1>3
<1>7. \A i \in 1 .. Len(r) : i \in 1 .. Len(q) \/ (i = Len(q) + 1 /\ r[i].waketime = t)
  BY <1>1, <1>2, <1>3
<1>8. \A i \in 1 .. Len(r) : Lead(c, r[i].waketime) < Half
  BY <1>3, <1>7, Zenon DEF InOrder
<1>9. ASSUME NEW i \in 1 .. Len(r), NEW j \in 1 .. Len(r), i <= j
      PROVE  Lead(c, r[i].waketime) <= Lead(c, r[j].waketime)
  <2>1. CASE j \in 1 .. Len(q)
    <3>1. i \in 1 .. Len(q)
      BY <1>1, <1>3, <1>9, <2>1
    <3> QED BY <1>3, <1>9, <2>1, <3>1, Zenon DEF InOrder
  <2>2. CASE j \notin 1 .. Len(q)
    <3>1. r[j].waketime = t
      BY <1>7, <2>2
    <3>2. CASE i \in 1 .. Len(q)
      BY <1>3, <3>1, <3>2, Zenon
    <3>3. CASE i \notin 1 .. Len(q)
      <4>1. r[i].waketime = t
        BY <1>7, <3>3
      <4>2. Lead(c, t) \in 0 .. Word - 1
        BY LeadFacts
      <4> QED BY <3>1, <4>1, <4>2
    <3> QED BY <3>2, <3>3
  <2> QED BY <2>1, <2>2
<1>10. InOrder(r, c)
  BY <1>8, <1>9, Zenon DEF InOrder
<1>11. r[1].waketime = IF q = <<>> THEN t ELSE q[1].waketime
  BY <1>2, <1>6
<1> QED BY <1>3, <1>4, <1>5, <1>10, <1>11 DEF m, r

\* move_queue_pop does.
LEMMA PopQueue ==
  ASSUME NEW q \in Queue, NEW c \in Clock, InOrder(q, c), q # <<>>
  PROVE  /\ Tail(q) \in Queue /\ InOrder(Tail(q), c)
         /\ Head(q) \in Update /\ Head(q) = q[1]
         /\ Tail(q) # <<>> => /\ Head(Tail(q)) = Tail(q)[1] /\ Tail(q)[1] = q[2]
                              /\ Lead(c, q[2].waketime) < Half /\ q[2] \in Update
<1>1. /\ q \in Seq(Update) /\ Len(q) \in Nat /\ Len(q) <= MoveCount /\ MoveCount \in Nat \ {0}
  BY QueueSeq, OutputsAssumption
<1> DEFINE r == Tail(q)
<1>2. /\ Head(q) \in Update /\ Head(q) = q[1]
      /\ r \in Seq(Update) /\ Len(r) = Len(q) - 1 /\ Len(q) >= 1
      /\ \A i \in 1 .. Len(r) : r[i] = q[i + 1]
  BY <1>1, HeadTailProperties
<1> HIDE DEF r
<1>3. r \in Queue
  <2>1. Len(r) <= MoveCount
    BY <1>1, <1>2
  <2> QED BY <1>2, <2>1, QueueSeq
<1>4. \A i \in 1 .. Len(r) : i + 1 \in 1 .. Len(q)
  BY <1>1, <1>2
<1>5. \A i \in 1 .. Len(r) : Lead(c, r[i].waketime) < Half
  BY <1>2, <1>4, Zenon DEF InOrder
<1>6. \A i, j \in 1 .. Len(r) : i <= j => i + 1 <= j + 1
  BY <1>1, <1>2
<1>7. \A i, j \in 1 .. Len(r) : i <= j => Lead(c, r[i].waketime) <= Lead(c, r[j].waketime)
  BY <1>2, <1>4, <1>6, Zenon DEF InOrder
<1>8. InOrder(r, c)
  BY <1>5, <1>7, Zenon DEF InOrder
<1>9. ASSUME r # <<>>
      PROVE  /\ Head(r) = r[1] /\ r[1] = q[2] /\ Lead(c, q[2].waketime) < Half
             /\ q[2] \in Update
  <2>1. 1 \in 1 .. Len(r) /\ 2 = 1 + 1 /\ Head(r) = r[1]
    BY <1>2, <1>9
  <2>2. r[1] = q[2] /\ r[1] \in Update
    BY <1>2, <2>1
  <2> QED BY <1>5, <2>1, <2>2
<1> QED BY <1>2, <1>3, <1>8, <1>9 DEF r

\* A tick, when the first update is not due yet.
LEMMA OrderTicks ==
  ASSUME NEW q \in Queue, NEW c \in Clock, InOrder(q, c),
         q # <<>> => Lead(c, q[1].waketime) > 0
  PROVE  InOrder(q, Plus(c, 1))
<1> DEFINE k == Plus(c, 1)
<1>1. q \in Seq(Update) /\ Half \in Nat \ {0} /\ Word = 2 * Half
  BY QueueSeq, HalfWord
<1>2. ASSUME NEW i \in 1 .. Len(q)
      PROVE  /\ Lead(c, q[i].waketime) \in 0 .. Word - 1
             /\ Lead(k, q[i].waketime) = Lead(c, q[i].waketime) - 1
             /\ Lead(c, q[i].waketime) < Half
  <2>1. 1 \in 1 .. Len(q) /\ 1 <= i /\ q # <<>> /\ q[1] \in Update /\ q[i] \in Update
    BY <1>1
  <2>2. q[1].waketime \in Clock /\ q[i].waketime \in Clock
    BY <2>1 DEF Update
  <2>3. Lead(c, q[1].waketime) <= Lead(c, q[i].waketime) /\ Lead(c, q[i].waketime) < Half
    BY <2>1, Zenon DEF InOrder
  <2>4. Lead(c, q[1].waketime) \in 0 .. Word - 1 /\ Lead(c, q[i].waketime) \in 0 .. Word - 1
    BY <2>2, LeadFacts
  <2>5. Lead(c, q[i].waketime) > 0
    BY <2>1, <2>3, <2>4
  <2> QED BY <2>2, <2>3, <2>4, <2>5, LeadFacts
<1> HIDE DEF k
<1>3. \A i \in 1 .. Len(q) : Lead(k, q[i].waketime) < Half
  BY <1>1, <1>2
<1>4. ASSUME NEW i \in 1 .. Len(q), NEW j \in 1 .. Len(q), i <= j
      PROVE  Lead(k, q[i].waketime) <= Lead(k, q[j].waketime)
  <2>1. Lead(c, q[i].waketime) <= Lead(c, q[j].waketime)
    BY <1>4, Zenon DEF InOrder
  <2> QED BY <1>2, <2>1
<1>5. InOrder(q, k)
  BY <1>3, <1>4, Zenon DEF InOrder
<1> QED BY <1>5 DEF k

\* The timer of a digital output serves the next toggle or the time up to which the
\* setting lasts, whichever is first; the latter is that of the next update if there is
\* one, and a limit if there must be one.
DigitalOK(d, c, a, s) ==
  /\ d.pin = d.on
  /\ s => ~d.timer /\ ~DigitalUnsafe(d)
  /\ d.mq # <<>> => d.check_end /\ d.end_time = d.mq[1].waketime
  /\ InOrder(d.mq, c)
  /\ d.check_end => d.timer /\ Lead(c, d.end_time) < Half
  /\ d.toggling => d.timer
  /\ (d.timer /\ d.func = "load") => d.check_end /\ d.waketime = d.end_time
  /\ (d.timer /\ d.func = "toggle") =>
       /\ d.toggling /\ Lead(c, d.waketime) + 1 < Half
       /\ d.check_end => Lead(c, d.waketime) < Lead(c, d.end_time)
       /\ d.on_duration \in 1 .. Half - 2 /\ d.off_duration \in 1 .. Half - 2
  /\ (d.max_duration # 0 /\ DigitalUnsafe(d)) =>
       d.check_end /\ a + Lead(c, d.end_time) <= d.max_duration

\* What the assumptions say of the fields of struct digital_out_s.
LEMMA DigitalFields ==
  ASSUME NEW d \in DigitalRecord
  PROVE  /\ d.timer \in BOOLEAN /\ d.on \in BOOLEAN /\ d.toggling \in BOOLEAN
         /\ d.check_end \in BOOLEAN /\ d.default_on \in BOOLEAN /\ d.pin \in BOOLEAN
         /\ d.waketime \in Clock /\ d.end_time \in Clock /\ d.mq \in Queue
         /\ d.func \in {"load", "toggle"}
         /\ d.max_duration \in MaxDurations /\ d.max_duration \in 0 .. Half - 1
         /\ d.cycle_time \in 0 .. Half - 1
         /\ d.on_duration \in Nat /\ d.off_duration \in Nat
<1>1. /\ \A n \in MaxDurations : n \in Nat /\ n < Half
      /\ \A n \in Cycles \cup {0} : n \in Nat /\ n < Half
      /\ Half \in Nat
  BY OutputsAssumption, HalfWord
<1>2. d.max_duration \in MaxDurations /\ d.cycle_time \in Cycles \cup {0}
  BY DEF DigitalRecord
<1>3. d.max_duration \in 0 .. Half - 1 /\ d.cycle_time \in 0 .. Half - 1
  <2>1. /\ d.max_duration \in Nat /\ d.max_duration < Half
        /\ d.cycle_time \in Nat /\ d.cycle_time < Half
    BY <1>1, <1>2, Zenon
  <2> QED BY <1>1, <2>1
<1> QED BY <1>2, <1>3 DEF DigitalRecord

\* digital_out_shutdown.
LEMMA DigitalShut ==
  ASSUME NEW d \in DigitalRecord, NEW c \in Clock, NEW s \in BOOLEAN, NEW e,
         e = [d EXCEPT !.timer = FALSE, !.pin = d.default_on, !.on = d.default_on,
                       !.toggling = FALSE, !.check_end = FALSE, !.mq = <<>>]
  PROVE  e \in DigitalRecord /\ DigitalOK(e, c, 0, s)
<1>1. d.default_on \in BOOLEAN /\ d.mq \in Queue
  BY DigitalFields
<1>2. <<>> \in Queue /\ InOrder(<<>>, c)
  BY EmptyQueue
<1>3. e \in DigitalRecord
  BY <1>1, <1>2, ZenonT(60) DEF DigitalRecord
<1>4. /\ e.timer = FALSE /\ e.pin = d.default_on /\ e.on = d.default_on /\ e.toggling = FALSE
      /\ e.check_end = FALSE /\ e.mq = <<>> /\ e.default_on = d.default_on
  BY DEF DigitalRecord
<1> QED BY <1>2, <1>3, <1>4 DEF DigitalOK, DigitalUnsafe

\* shutdown(...) of a function of gpiocmds.c.
LEMMA DigitalStopped ==
  ASSUME dig \in DigitalRecord, clock \in Clock, DigitalStop
  PROVE  dig' \in DigitalRecord /\ DigitalOK(dig', clock, age', shut') /\ age' = 0
<1>1. shut' \in BOOLEAN /\ age' = 0 /\ digital_out_shutdown
  BY DEF DigitalStop, sched_shutdown
<1>2. dig' \in DigitalRecord /\ DigitalOK(dig', clock, 0, shut')
  BY <1>1, DigitalShut DEF digital_out_shutdown
<1> QED BY <1>1, <1>2

\* digital_toggle_event.
LEMMA DigitalToggle ==
  ASSUME dig \in DigitalRecord, clock \in Clock, age \in 0 .. Half, shut \in BOOLEAN,
         DigitalOK(dig, clock, age, shut), digital_toggle_event
  PROVE  /\ dig' \in DigitalRecord /\ DigitalOK(dig', clock, age, shut)
         /\ UNCHANGED <<pwm, clock, age, shut>>
<1> DEFINE n == IF ~dig.on THEN dig.on_duration ELSE dig.off_duration
           next == Plus(dig.waketime, n)
           ends == dig.check_end /\ ~Before(next, dig.end_time)
           e == [dig EXCEPT !.pin = ~dig.pin, !.on = ~dig.on,
                            !.func = IF ends THEN "load" ELSE "toggle",
                            !.waketime = IF ends THEN dig.end_time ELSE next]
<1>0. /\ dig.timer /\ ~Before(clock, dig.waketime) /\ dig.func = "toggle" /\ dig' = e
      /\ UNCHANGED <<pwm, clock, age, shut>>
  BY DEF digital_toggle_event, Due
<1>1. /\ dig.pin \in BOOLEAN /\ dig.on \in BOOLEAN /\ dig.waketime \in Clock
      /\ dig.end_time \in Clock /\ Half \in Nat \ {0} /\ Word = 2 * Half
  BY DigitalFields, HalfWord
<1>2. /\ dig.pin = dig.on /\ ~shut /\ dig.toggling
      /\ dig.on_duration \in 1 .. Half - 2 /\ dig.off_duration \in 1 .. Half - 2
      /\ Lead(clock, dig.waketime) + 1 < Half
      /\ dig.check_end => Lead(clock, dig.end_time) < Half
  BY <1>0 DEF DigitalOK
<1>3. n \in 1 .. Half - 2
  BY <1>2
<1>4. dig.waketime = clock
  <2>1. Lead(clock, dig.waketime) \in 0 .. Word - 1
    BY <1>1, LeadFacts
  <2>2. Lead(clock, dig.waketime) < Half
    BY <1>1, <1>2, <2>1
  <2> QED BY <1>0, <1>1, <2>2, DueNow
<1>5. next \in Clock /\ Lead(clock, next) = n
  <2>1. n \in 0 .. Half - 1 /\ next = Plus(clock, n)
    BY <1>1, <1>3, <1>4
  <2> HIDE DEF n
  <2> QED BY <2>1, LeadPlus
<1>6. /\ Lead(clock, next) + 1 < Half
      /\ ~ends => (dig.check_end => Lead(clock, next) < Lead(clock, dig.end_time))
  <2>1. Lead(clock, next) < Half /\ Lead(clock, next) + 1 < Half
    BY <1>1, <1>3, <1>5
  <2>2. ASSUME ~ends, dig.check_end
        PROVE  Lead(clock, next) < Lead(clock, dig.end_time)
    BY <1>1, <1>2, <1>5, <2>1, <2>2, LeadOrder
  <2> QED BY <2>1, <2>2
<1> HIDE DEF n
<1>7. e \in DigitalRecord
  <2>1. /\ (IF ends THEN "load" ELSE "toggle") \in {"load", "toggle"}
        /\ (IF ends THEN dig.end_time ELSE next) \in Clock
        /\ (~dig.pin) \in BOOLEAN /\ (~dig.on) \in BOOLEAN
    BY <1>1, <1>5
  <2> QED BY <2>1, ZenonT(60) DEF DigitalRecord
<1>8. /\ e.pin = ~dig.pin /\ e.on = ~dig.on /\ e.func = (IF ends THEN "load" ELSE "toggle")
      /\ e.waketime = (IF ends THEN dig.end_time ELSE next)
      /\ e.timer = dig.timer /\ e.mq = dig.mq /\ e.check_end = dig.check_end
      /\ e.end_time = dig.end_time /\ e.toggling = dig.toggling
      /\ e.on_duration = dig.on_duration /\ e.off_duration = dig.off_duration
      /\ e.max_duration = dig.max_duration /\ e.default_on = dig.default_on
  BY DEF DigitalRecord
<1>9. dig.max_duration # 0 =>
        dig.check_end /\ age + Lead(clock, dig.end_time) <= dig.max_duration
  BY <1>2 DEF DigitalOK, DigitalUnsafe
<1>10. /\ dig.mq # <<>> => dig.check_end /\ dig.end_time = dig.mq[1].waketime
       /\ InOrder(dig.mq, clock) /\ (ends => dig.check_end)
  BY DEF DigitalOK
<1> HIDE DEF e, ends, next
<1>11. DigitalOK(e, clock, age, shut)
  BY <1>0, <1>2, <1>6, <1>8, <1>9, <1>10 DEF DigitalOK
<1> QED BY <1>0, <1>7, <1>11

\* digital_load_event.
LEMMA DigitalLoad ==
  ASSUME dig \in DigitalRecord, clock \in Clock, age \in 0 .. Half, shut \in BOOLEAN,
         DigitalOK(dig, clock, age, shut), digital_load_event
  PROVE  /\ dig' \in DigitalRecord /\ DigitalOK(dig', clock, age', shut')
         /\ age' = 0 /\ UNCHANGED <<pwm, clock>>
<1> DEFINE m == Head(dig.mq)
           rest == Tail(dig.mq)
           on == m.on > 0
           steady == ~on \/ m.on >= dig.cycle_time
           limited == Limited(dig, on, steady)
           limit == Plus(dig.waketime, dig.max_duration)
           check_end == limited \/ rest # <<>>
           end_time == IF rest # <<>> THEN Head(rest).waketime
                       ELSE IF limited THEN limit ELSE 0
           next == Plus(dig.waketime, m.on)
           toggles == ~steady /\ (check_end => Before(next, end_time))
           func == IF toggles THEN "toggle" ELSE "load"
           waketime == IF toggles THEN next ELSE IF check_end THEN end_time ELSE dig.waketime
           on_duration == IF toggles THEN m.on ELSE dig.on_duration
           off_duration == IF toggles THEN dig.cycle_time - m.on ELSE dig.off_duration
           stops == dig.mq = <<>> \/ (rest # <<>> /\ limited /\ Before(limit, Head(rest).waketime))
<1>1. /\ dig.timer /\ ~Before(clock, dig.waketime) /\ dig.func = "load"
      /\ UNCHANGED <<pwm, clock>>
      /\ stops => DigitalStop
      /\ ~stops =>
           /\ dig' = [dig EXCEPT !.mq = rest, !.pin = on, !.on = on, !.toggling = ~steady,
                        !.check_end = check_end, !.end_time = end_time,
                        !.timer = ~steady \/ check_end, !.func = func,
                        !.waketime = waketime, !.on_duration = on_duration,
                        !.off_duration = off_duration]
           /\ age' = 0 /\ shut' = shut
  <2>1. digital_load_event =>
          /\ Due(dig) /\ dig.func = "load"
          /\ IF stops THEN DigitalStop
             ELSE /\ dig' = [dig EXCEPT !.mq = rest, !.pin = on, !.on = on,
                               !.toggling = ~steady, !.check_end = check_end,
                               !.end_time = end_time, !.timer = ~steady \/ check_end,
                               !.func = func, !.waketime = waketime,
                               !.on_duration = on_duration, !.off_duration = off_duration]
                  /\ age' = 0 /\ UNCHANGED <<wake, shut>>
          /\ UNCHANGED <<pwm, clock>>
    BY DEF digital_load_event
  <2> HIDE DEF stops, m, rest, on, steady, check_end, end_time, func, waketime,
               on_duration, off_duration
  <2> QED BY <2>1 DEF Due
<1>2. CASE stops
  <2> HIDE DEF stops
  <2> QED BY <1>1, <1>2, DigitalStopped
<1>3. CASE ~stops
  <2>1. /\ dig.waketime \in Clock /\ dig.end_time \in Clock /\ dig.mq \in Queue
        /\ dig.max_duration \in 0 .. Half - 1 /\ dig.cycle_time \in 0 .. Half - 1
        /\ dig.on_duration \in Nat /\ dig.off_duration \in Nat
        /\ Half \in Nat \ {0} /\ Word = 2 * Half
    BY DigitalFields, HalfWord
  <2>2. /\ dig.waketime = dig.end_time /\ Lead(clock, dig.end_time) < Half
        /\ ~shut /\ InOrder(dig.mq, clock) /\ dig.mq # <<>>
    BY <1>1, <1>3 DEF DigitalOK
  <2>3. dig.waketime = clock
    BY <1>1, <2>1, <2>2, DueNow
  <2>4. /\ rest \in Queue /\ InOrder(rest, clock) /\ m \in Update
        /\ rest # <<>> => /\ Head(rest) = rest[1] /\ rest[1] \in Update
                          /\ Lead(clock, rest[1].waketime) < Half
    BY <2>1, <2>2, PopQueue
  <2>5. m.on \in Nat /\ (rest # <<>> => rest[1].waketime \in Clock)
    <3>1. m.on \in OnTicks /\ \A n \in OnTicks : n \in Nat
      BY <2>4, OutputsAssumption DEF Update
    <3>2. rest # <<>> => rest[1].waketime \in Clock
      BY <2>4 DEF Update
    <3> QED BY <3>1, <3>2
  <2> HIDE DEF m, rest
  <2>6. limit \in Clock /\ Lead(clock, limit) = dig.max_duration
    BY <2>1, <2>3, LeadPlus
  <2>7. ASSUME ~steady
        PROVE  /\ m.on \in 1 .. Half - 2 /\ dig.cycle_time - m.on \in 1 .. Half - 2
               /\ next \in Clock /\ Lead(clock, next) = m.on
               /\ Lead(clock, next) + 1 < Half /\ Lead(clock, next) < Half
    <3>1. m.on \in 1 .. Half - 2 /\ dig.cycle_time - m.on \in 1 .. Half - 2
      BY <2>1, <2>5, <2>7
    <3>2. m.on \in 0 .. Half - 1
      BY <2>1, <3>1
    <3>3. next \in Clock /\ Lead(clock, next) = m.on
      BY <2>3, <3>2, LeadPlus
    <3> QED BY <2>1, <3>1, <3>3
  <2>8. /\ check_end <=> (limited \/ rest # <<>>)
        /\ rest # <<>> => check_end /\ end_time = rest[1].waketime
        /\ rest = <<>> /\ limited => end_time = limit
        /\ rest = <<>> /\ ~limited => end_time = 0
        /\ rest # <<>> /\ limited => ~Before(limit, rest[1].waketime)
    BY <1>3, <2>4 DEF rest
  <2>9. /\ toggles => ~steady
        /\ toggles /\ check_end => Before(next, end_time)
        /\ ~steady /\ ~toggles => check_end
    OBVIOUS
  <2>10. /\ limited \in BOOLEAN /\ steady \in BOOLEAN /\ check_end \in BOOLEAN /\ on \in BOOLEAN
         /\ (~steady) \in BOOLEAN /\ (~steady \/ check_end) \in BOOLEAN
    BY DEF Limited
  <2>11. /\ func \in {"load", "toggle"}
         /\ toggles => /\ func = "toggle" /\ waketime = next /\ on_duration = m.on
                       /\ off_duration = dig.cycle_time - m.on
         /\ ~toggles => /\ func = "load" /\ on_duration = dig.on_duration
                        /\ off_duration = dig.off_duration
                        /\ check_end => waketime = end_time
                        /\ ~check_end => waketime = dig.waketime
    OBVIOUS
  <2>12. (dig.max_duration # 0 /\ (~steady \/ on # dig.default_on)) <=> limited
    BY DEF Limited
  <2> HIDE DEF limited, limit, check_end, end_time, next, toggles, steady, on, stops,
               func, waketime, on_duration, off_duration
  <2>13. /\ end_time \in Clock
         /\ check_end => Lead(clock, end_time) < Half
         /\ limited => Lead(clock, end_time) <= dig.max_duration
    <3>1. CASE rest # <<>>
      <4>1. end_time = rest[1].waketime /\ end_time \in Clock /\ Lead(clock, end_time) < Half
        BY <2>4, <2>5, <2>8, <3>1
      <4>2. ASSUME limited
            PROVE  Lead(clock, end_time) <= dig.max_duration
        <5>1. ~Before(limit, end_time)
          BY <2>8, <3>1, <4>1, <4>2
        <5>2. Lead(clock, limit) < Half
          BY <2>1, <2>6
        <5>3. ~(Lead(clock, limit) < Lead(clock, end_time))
          BY <2>6, <4>1, <5>1, <5>2, LeadOrder
        <5>4. Lead(clock, end_time) \in 0 .. Word - 1
          BY <4>1, LeadFacts
        <5> QED BY <2>1, <2>6, <5>3, <5>4
      <4> QED BY <4>1, <4>2
    <3>2. CASE rest = <<>> /\ limited
      BY <2>1, <2>6, <2>8, <3>2
    <3>3. CASE rest = <<>> /\ ~limited
      BY <2>8, <3>3, HalfWord
    <3> QED BY <3>1, <3>2, <3>3
  <2>14. toggles /\ check_end => Lead(clock, next) < Lead(clock, end_time)
    BY <2>7, <2>9, <2>13, LeadOrder
  <2>15. waketime \in Clock /\ on_duration \in Nat /\ off_duration \in Nat
    <3>1. CASE toggles
      BY <2>1, <2>5, <2>7, <2>9, <2>11, <3>1
    <3>2. CASE ~toggles
      BY <2>1, <2>11, <2>13, <3>2
    <3> QED BY <3>1, <3>2
  <2> DEFINE e == [dig EXCEPT !.mq = rest, !.pin = on, !.on = on, !.toggling = ~steady,
                     !.check_end = check_end, !.end_time = end_time,
                     !.timer = ~steady \/ check_end, !.func = func,
                     !.waketime = waketime, !.on_duration = on_duration,
                     !.off_duration = off_duration]
  <2>16. e \in DigitalRecord
    BY <2>4, <2>10, <2>11, <2>13, <2>15, ZenonT(60) DEF DigitalRecord
  <2>17. /\ e.mq = rest /\ e.pin = on /\ e.on = on /\ e.toggling = ~steady
         /\ e.check_end = check_end /\ e.end_time = end_time
         /\ e.timer = (~steady \/ check_end) /\ e.func = func /\ e.waketime = waketime
         /\ e.on_duration = on_duration /\ e.off_duration = off_duration
         /\ e.max_duration = dig.max_duration /\ e.default_on = dig.default_on
    BY DEF DigitalRecord
  <2> HIDE DEF e
  <2>18. (e.timer /\ e.func = "load") => e.check_end /\ e.waketime = e.end_time
    BY <2>9, <2>10, <2>11, <2>17
  <2>19. (e.timer /\ e.func = "toggle") =>
           /\ e.toggling /\ Lead(clock, e.waketime) + 1 < Half
           /\ e.check_end => Lead(clock, e.waketime) < Lead(clock, e.end_time)
           /\ e.on_duration \in 1 .. Half - 2 /\ e.off_duration \in 1 .. Half - 2
    BY <2>7, <2>9, <2>10, <2>11, <2>14, <2>17
  <2>20. (e.max_duration # 0 /\ DigitalUnsafe(e)) =>
           e.check_end /\ 0 + Lead(clock, e.end_time) <= e.max_duration
    <3>1. (e.max_duration # 0 /\ DigitalUnsafe(e)) => limited
      BY <2>10, <2>12, <2>17 DEF DigitalUnsafe
    <3>2. limited => check_end /\ 0 + Lead(clock, end_time) <= dig.max_duration
      <4>1. Lead(clock, end_time) \in 0 .. Word - 1
        BY <2>13, LeadFacts
      <4> QED BY <2>8, <2>13, <4>1
    <3> QED BY <2>10, <2>17, <3>1, <3>2
  <2>21. /\ e.mq # <<>> => e.check_end /\ e.end_time = e.mq[1].waketime
         /\ e.check_end => e.timer /\ Lead(clock, e.end_time) < Half
         /\ e.toggling => e.timer
         /\ e.pin = e.on /\ InOrder(e.mq, clock)
    BY <2>4, <2>8, <2>10, <2>13, <2>17
  <2>22. DigitalOK(e, clock, 0, FALSE)
    BY <2>18, <2>19, <2>20, <2>21 DEF DigitalOK
  <2>23. dig' = e /\ age' = 0 /\ shut' = FALSE
    BY <1>1, <1>3, <2>2 DEF e
  <2> QED BY <1>1, <2>16, <2>22, <2>23
<1> QED BY <1>2, <1>3

\* The clock goes on: every time comes a tick nearer, and none is passed, as the timer
\* is at the first of them and is not due.
LEMMA DigitalTicks ==
  ASSUME NEW d \in DigitalRecord, NEW c \in Clock, NEW a \in 0 .. Half, NEW s \in BOOLEAN,
         DigitalOK(d, c, a, s), ~(d.timer /\ ~Before(c, d.waketime)), NEW b \in 0 .. Half,
         (d.max_duration # 0 /\ DigitalUnsafe(d)) => b <= a + 1
  PROVE  DigitalOK(d, Plus(c, 1), b, s)
<1> DEFINE k == Plus(c, 1)
<1>1. /\ d.waketime \in Clock /\ d.end_time \in Clock /\ d.mq \in Queue
      /\ d.max_duration \in 0 .. Half - 1
      /\ Half \in Nat \ {0} /\ Word = 2 * Half /\ k \in Clock
  BY DigitalFields, HalfWord, LeadFacts
<1>2. \A t \in Clock : /\ Lead(c, t) \in 0 .. Word - 1
                       /\ Lead(c, t) > 0 => Lead(k, t) = Lead(c, t) - 1
                       /\ Lead(c, t) < Half => (Before(c, t) <=> Lead(c, t) > 0)
  BY LeadFacts
<1> HIDE DEF k
<1>3. d.timer => Lead(c, d.waketime) < Half
  BY <1>1, <1>2, DigitalFields DEF DigitalOK
<1>4. d.timer => Lead(c, d.waketime) > 0
  BY <1>1, <1>2, <1>3
<1>5. d.check_end => Lead(c, d.end_time) > 0 /\ Lead(c, d.end_time) < Half /\ d.timer
  <2> SUFFICES ASSUME d.check_end
               PROVE  Lead(c, d.end_time) > 0 /\ Lead(c, d.end_time) < Half /\ d.timer
    OBVIOUS
  <2>1. Lead(c, d.end_time) < Half /\ d.timer
    BY DEF DigitalOK
  <2>2. CASE d.func = "load"
    BY <1>4, <2>1, <2>2 DEF DigitalOK
  <2>3. CASE d.func = "toggle"
    <3>1. Lead(c, d.waketime) < Lead(c, d.end_time)
      BY <2>1, <2>3 DEF DigitalOK
    <3>2. Lead(c, d.waketime) \in Int /\ Lead(c, d.end_time) \in Int
      BY <1>1, <1>2
    <3> QED BY <1>4, <2>1, <3>1, <3>2
  <2> QED BY <2>1, <2>2, <2>3, DigitalFields
<1>6. InOrder(d.mq, k)
  <2>1. d.mq # <<>> => Lead(c, d.mq[1].waketime) > 0
    BY <1>5 DEF DigitalOK
  <2>2. InOrder(d.mq, c)
    BY DEF DigitalOK
  <2> QED BY <1>1, <2>1, <2>2, OrderTicks DEF k
<1>7. ASSUME d.check_end
      PROVE  Lead(k, d.end_time) = Lead(c, d.end_time) - 1
  BY <1>1, <1>2, <1>5, <1>7
<1>8. ASSUME d.timer
      PROVE  Lead(k, d.waketime) = Lead(c, d.waketime) - 1
  BY <1>1, <1>2, <1>4, <1>8
<1>9. Lead(c, d.waketime) \in Int /\ Lead(c, d.end_time) \in Int
  BY <1>1, <1>2
<1>10. d.check_end => d.timer /\ Lead(k, d.end_time) < Half
  BY <1>1, <1>5, <1>7, <1>9
<1>11. (d.timer /\ d.func = "toggle") =>
         /\ d.toggling /\ Lead(k, d.waketime) + 1 < Half
         /\ d.check_end => Lead(k, d.waketime) < Lead(k, d.end_time)
         /\ d.on_duration \in 1 .. Half - 2 /\ d.off_duration \in 1 .. Half - 2
  <2> SUFFICES ASSUME d.timer, d.func = "toggle"
               PROVE  /\ d.toggling /\ Lead(k, d.waketime) + 1 < Half
                      /\ d.check_end => Lead(k, d.waketime) < Lead(k, d.end_time)
                      /\ d.on_duration \in 1 .. Half - 2 /\ d.off_duration \in 1 .. Half - 2
    OBVIOUS
  <2>1. /\ d.toggling /\ Lead(c, d.waketime) + 1 < Half
        /\ d.check_end => Lead(c, d.waketime) < Lead(c, d.end_time)
        /\ d.on_duration \in 1 .. Half - 2 /\ d.off_duration \in 1 .. Half - 2
    BY DEF DigitalOK
  <2> QED BY <1>1, <1>7, <1>8, <1>9, <2>1
<1>12. (d.max_duration # 0 /\ DigitalUnsafe(d)) =>
         d.check_end /\ b + Lead(k, d.end_time) <= d.max_duration
  <2> SUFFICES ASSUME d.max_duration # 0, DigitalUnsafe(d)
               PROVE  d.check_end /\ b + Lead(k, d.end_time) <= d.max_duration
    OBVIOUS
  <2>1. d.check_end /\ a + Lead(c, d.end_time) <= d.max_duration
    BY DEF DigitalOK
  <2> QED BY <1>1, <1>7, <1>9, <2>1
<1>13. DigitalOK(d, k, b, s)
  BY <1>6, <1>10, <1>11, <1>12 DEF DigitalOK
<1> QED BY <1>13 DEF k

\* command_queue_digital_out.
LEMMA DigitalQueue ==
  ASSUME dig \in DigitalRecord, clock \in Clock, age \in 0 .. Half, shut \in BOOLEAN,
         DigitalOK(dig, clock, age, shut), NEW time \in Clock, NEW on \in OnTicks,
         command_queue_digital_out(time, on)
  PROVE  /\ dig' \in DigitalRecord /\ DigitalOK(dig', clock, age', shut')
         /\ age' \in {0, age} /\ UNCHANGED <<pwm, clock>>
<1> DEFINE m == [waketime |-> time, on |-> on]
           q == Append(dig.mq, m)
           queued == [dig EXCEPT !.mq = q]
           first == [queued EXCEPT !.end_time = time, !.check_end = TRUE]
           stops == \/ dig.check_end /\ Before(dig.end_time, time)
                    \/ ~WaitsForToggle(time) /\ Before(time, clock)
<1>1. /\ ~shut /\ UNCHANGED <<pwm, clock>>
      /\ \E k \in -1 .. Ahead : time = Plus(clock, k)
      /\ dig.mq # <<>> => ~Before(time, dig.mq[Len(dig.mq)].waketime)
  BY DEF command_queue_digital_out, UpdateTime
<1>2. \/ DigitalStop
      \/ Len(dig.mq) \in 1 .. MoveCount - 1 /\ dig' = queued /\ UNCHANGED <<age, wake, shut>>
      \/ /\ dig.mq = <<>> /\ ~stops
         /\ dig' = IF WaitsForToggle(time) THEN first
                   ELSE [first EXCEPT !.timer = TRUE, !.waketime = time, !.func = "load"]
         /\ UNCHANGED <<age, wake, shut>>
  BY DEF command_queue_digital_out
<1>3. /\ dig.waketime \in Clock /\ dig.end_time \in Clock /\ dig.mq \in Queue
      /\ dig.max_duration \in 0 .. Half - 1 /\ dig.timer \in BOOLEAN
      /\ dig.func \in {"load", "toggle"} /\ dig.check_end \in BOOLEAN
      /\ Half \in Nat \ {0} /\ Word = 2 * Half /\ InOrder(dig.mq, clock)
      /\ dig.mq \in Seq(Update)
  BY DigitalFields, HalfWord, QueueSeq DEF DigitalOK
<1>4. \A t \in Clock : Lead(clock, t) \in 0 .. Word - 1
  BY LeadFacts
<1>5. CASE DigitalStop
  BY <1>1, <1>5, DigitalStopped
<1>6. CASE Len(dig.mq) \in 1 .. MoveCount - 1 /\ dig' = queued /\ UNCHANGED <<age, wake, shut>>
  <2>1. dig.mq # <<>> /\ Len(dig.mq) < MoveCount
    BY <1>3, <1>6, OutputsAssumption
  <2>2. /\ Lead(clock, time) < Half
        /\ \A i \in 1 .. Len(dig.mq) :
             Lead(clock, dig.mq[i].waketime) <= Lead(clock, time)
    BY <1>1, <1>3, <2>1, NextTime
  <2>3. q \in Queue /\ q # <<>> /\ InOrder(q, clock) /\ q[1].waketime = dig.mq[1].waketime
    BY <1>3, <2>1, <2>2, PushQueue
  <2> HIDE DEF q
  <2>4. queued \in DigitalRecord
    BY <2>3, ZenonT(60) DEF DigitalRecord
  <2>5. /\ queued.mq = q /\ queued.pin = dig.pin /\ queued.on = dig.on
        /\ queued.toggling = dig.toggling /\ queued.check_end = dig.check_end
        /\ queued.end_time = dig.end_time /\ queued.timer = dig.timer
        /\ queued.func = dig.func /\ queued.waketime = dig.waketime
        /\ queued.on_duration = dig.on_duration /\ queued.off_duration = dig.off_duration
        /\ queued.max_duration = dig.max_duration /\ queued.default_on = dig.default_on
    BY DEF DigitalRecord
  <2> HIDE DEF queued
  <2>6. DigitalOK(queued, clock, age, shut)
    BY <1>1, <2>1, <2>3, <2>5 DEF DigitalOK, DigitalUnsafe
  <2> QED BY <1>1, <1>6, <2>4, <2>6
<1>7. CASE /\ dig.mq = <<>> /\ ~stops
           /\ dig' = IF WaitsForToggle(time) THEN first
                     ELSE [first EXCEPT !.timer = TRUE, !.waketime = time, !.func = "load"]
           /\ UNCHANGED <<age, wake, shut>>
  <2>1. dig.check_end => Lead(clock, dig.end_time) < Half
    BY DEF DigitalOK
  <2>2. ASSUME WaitsForToggle(time)
        PROVE  /\ dig.timer /\ dig.func = "toggle" /\ dig.toggling
               /\ Lead(clock, dig.waketime) + 1 < Half /\ Before(dig.waketime, time)
    <3>1. dig.toggling /\ Before(dig.waketime, time)
      BY <2>2 DEF WaitsForToggle
    <3>2. dig.timer
      BY <3>1 DEF DigitalOK
    <3>3. dig.func # "load"
      BY <1>7, <3>1, <3>2 DEF DigitalOK
    <3> QED BY <1>3, <3>1, <3>2, <3>3 DEF DigitalOK
  <2>3. time # Plus(clock, -1)
    <3> SUFFICES ASSUME time = Plus(clock, -1) PROVE FALSE
      OBVIOUS
    <3>1. Lead(clock, clock) = 0
      BY LeadFacts
    <3>2. Before(time, clock)
      BY <1>3, <3>1, LateOrder
    <3>3. WaitsForToggle(time)
      BY <1>7, <3>2
    <3>4. Lead(clock, dig.waketime) < Half
      BY <1>3, <1>4, <2>2, <3>3
    <3> QED BY <1>3, <2>2, <3>3, <3>4, LateOrder
  <2>4. Lead(clock, time) < Half
    <3>1. PICK k \in -1 .. Ahead : time = Plus(clock, k)
      BY <1>1
    <3>2. Ahead \in Nat /\ Ahead < Half
      BY OutputsAssumption
    <3>3. k \in 0 .. Half - 1
      BY <1>3, <2>3, <3>1, <3>2
    <3>4. Lead(clock, time) = k
      BY <3>1, <3>3, LeadPlus
    <3> QED BY <1>3, <3>3, <3>4
  <2>5. WaitsForToggle(time) => Lead(clock, dig.waketime) < Lead(clock, time)
    <3>1. WaitsForToggle(time) => Lead(clock, dig.waketime) < Half
      BY <1>3, <1>4, <2>2
    <3> QED BY <1>3, <2>2, <2>4, <3>1, LeadOrder
  <2>6. dig.check_end => Lead(clock, time) <= Lead(clock, dig.end_time)
    <3>1. dig.check_end => ~(Lead(clock, dig.end_time) < Lead(clock, time))
      BY <1>3, <1>7, <2>1, <2>4, LeadOrder
    <3> QED BY <1>3, <1>4, <3>1
  <2>7. q \in Queue /\ q # <<>> /\ InOrder(q, clock) /\ q[1].waketime = time
    <3>1. /\ Len(dig.mq) < MoveCount
          /\ \A i \in 1 .. Len(dig.mq) : Lead(clock, dig.mq[i].waketime) <= Lead(clock, time)
      BY <1>7, OutputsAssumption
    <3>2. /\ q \in Queue /\ q # <<>> /\ InOrder(q, clock)
          /\ q[1].waketime = IF dig.mq = <<>> THEN time ELSE dig.mq[1].waketime
      BY <1>3, <2>4, <3>1, PushQueue
    <3> HIDE DEF q
    <3> QED BY <1>7, <3>2
  <2> HIDE DEF q, stops
  <2>8. first \in DigitalRecord /\ TRUE \in BOOLEAN /\ "load" \in {"load", "toggle"}
    <3>1. queued \in DigitalRecord /\ TRUE \in BOOLEAN
      BY <2>7, ZenonT(60) DEF DigitalRecord
    <3> HIDE DEF queued
    <3> QED BY <3>1, ZenonT(60) DEF DigitalRecord
  <2>9. /\ first.mq = q /\ first.pin = dig.pin /\ first.on = dig.on
        /\ first.toggling = dig.toggling /\ first.check_end = TRUE
        /\ first.end_time = time /\ first.timer = dig.timer
        /\ first.func = dig.func /\ first.waketime = dig.waketime
        /\ first.on_duration = dig.on_duration /\ first.off_duration = dig.off_duration
        /\ first.max_duration = dig.max_duration /\ first.default_on = dig.default_on
    BY DEF DigitalRecord
  <2>10. dig.pin = dig.on
    BY DEF DigitalOK
  <2>11. (dig.max_duration # 0 /\ DigitalUnsafe(dig)) =>
           age + Lead(clock, time) <= dig.max_duration
    <3>1. (dig.max_duration # 0 /\ DigitalUnsafe(dig)) =>
            dig.check_end /\ age + Lead(clock, dig.end_time) <= dig.max_duration
      BY DEF DigitalOK
    <3> QED BY <1>3, <1>4, <2>6, <3>1
  <2> HIDE DEF first
  <2>12. CASE WaitsForToggle(time)
    <3>1. dig' = first
      BY <1>7, <2>12
    <3>2. DigitalOK(first, clock, age, FALSE)
      <4>1. dig.on_duration \in 1 .. Half - 2 /\ dig.off_duration \in 1 .. Half - 2
        BY <2>2, <2>12 DEF DigitalOK
      <4>2. (first.max_duration # 0 /\ DigitalUnsafe(first)) =>
              age + Lead(clock, first.end_time) <= first.max_duration
        BY <2>9, <2>11 DEF DigitalUnsafe
      <4> QED BY <2>2, <2>4, <2>5, <2>7, <2>9, <2>10, <2>12, <4>1, <4>2 DEF DigitalOK
    <3> QED BY <1>1, <1>7, <2>8, <3>1, <3>2
  <2>13. CASE ~WaitsForToggle(time)
    <3> DEFINE l == [first EXCEPT !.timer = TRUE, !.waketime = time, !.func = "load"]
    <3>1. dig' = l
      BY <1>7, <2>13
    <3>2. l \in DigitalRecord
      BY <2>8, ZenonT(60) DEF DigitalRecord
    <3>3. /\ l.mq = q /\ l.pin = dig.pin /\ l.on = dig.on
          /\ l.toggling = dig.toggling /\ l.check_end = TRUE
          /\ l.end_time = time /\ l.timer = TRUE /\ l.func = "load" /\ l.waketime = time
          /\ l.max_duration = dig.max_duration /\ l.default_on = dig.default_on
      BY <2>8, <2>9 DEF DigitalRecord
    <3> HIDE DEF l
    <3>4. (l.max_duration # 0 /\ DigitalUnsafe(l)) =>
            age + Lead(clock, l.end_time) <= l.max_duration
      BY <2>11, <3>3 DEF DigitalUnsafe
    <3>5. DigitalOK(l, clock, age, FALSE)
      BY <2>4, <2>7, <2>10, <3>3, <3>4 DEF DigitalOK
    <3> QED BY <1>1, <1>7, <3>1, <3>2, <3>5
  <2> QED BY <2>12, <2>13
<1> QED BY <1>2, <1>5, <1>6, <1>7

\* command_update_digital_out and command_set_digital_out_pwm_cycle.
LEMMA DigitalUpdate ==
  ASSUME dig \in DigitalRecord, clock \in Clock, age \in 0 .. Half, shut \in BOOLEAN,
         DigitalOK(dig, clock, age, shut),
         \/ \E on \in BOOLEAN : command_update_digital_out(on)
         \/ \E ticks \in Cycles : command_set_digital_out_pwm_cycle(ticks)
  PROVE  /\ dig' \in DigitalRecord /\ DigitalOK(dig', clock, age', shut')
         /\ age' \in {0, age} /\ UNCHANGED <<pwm, clock>>
<1>1. /\ dig.waketime \in Clock /\ dig.end_time \in Clock /\ dig.func \in {"load", "toggle"}
      /\ dig.max_duration \in 0 .. Half - 1 /\ Half \in Nat \ {0}
      /\ dig.default_on \in BOOLEAN /\ dig.mq \in Queue
  BY DigitalFields, HalfWord
<1>2. CASE DigitalStop /\ UNCHANGED <<pwm, clock>>
  BY <1>2, DigitalStopped
<1>3. ASSUME NEW ticks \in Cycles, command_set_digital_out_pwm_cycle(ticks)
      PROVE  /\ dig' \in DigitalRecord /\ DigitalOK(dig', clock, age', shut')
             /\ age' \in {0, age} /\ UNCHANGED <<pwm, clock>>
  <2>1. CASE dig.mq # <<>>
    BY <1>2, <1>3, <2>1 DEF command_set_digital_out_pwm_cycle
  <2>2. CASE dig.mq = <<>>
    <3>1. /\ dig' = [dig EXCEPT !.cycle_time = ticks] /\ UNCHANGED <<age, wake, shut>>
          /\ UNCHANGED <<pwm, clock>>
      BY <1>3, <2>2 DEF command_set_digital_out_pwm_cycle
    <3>2. dig' \in DigitalRecord
      <4>1. ticks \in Cycles \cup {0}
        OBVIOUS
      <4> QED BY <3>1, <4>1, ZenonT(60) DEF DigitalRecord
    <3>3. /\ dig'.mq = dig.mq /\ dig'.pin = dig.pin /\ dig'.on = dig.on
          /\ dig'.toggling = dig.toggling /\ dig'.check_end = dig.check_end
          /\ dig'.end_time = dig.end_time /\ dig'.timer = dig.timer
          /\ dig'.func = dig.func /\ dig'.waketime = dig.waketime
          /\ dig'.on_duration = dig.on_duration /\ dig'.off_duration = dig.off_duration
          /\ dig'.max_duration = dig.max_duration /\ dig'.default_on = dig.default_on
      BY <3>1 DEF DigitalRecord
    <3>4. DigitalOK(dig', clock, age, shut)
      BY <3>3 DEF DigitalOK, DigitalUnsafe
    <3> QED BY <3>1, <3>2, <3>4
  <2> QED BY <2>1, <2>2
<1>4. ASSUME NEW on \in BOOLEAN, command_update_digital_out(on)
      PROVE  /\ dig' \in DigitalRecord /\ DigitalOK(dig', clock, age', shut')
             /\ age' \in {0, age} /\ UNCHANGED <<pwm, clock>>
  <2> DEFINE limited == Limited(dig, on, TRUE)
             limit == Plus(clock, dig.max_duration)
             end_time == IF limited THEN limit ELSE dig.end_time
             waketime == IF limited THEN limit ELSE dig.waketime
             func == IF limited THEN "load" ELSE dig.func
             e == [dig EXCEPT !.pin = on, !.on = on, !.toggling = FALSE,
                     !.check_end = limited, !.timer = limited, !.end_time = end_time,
                     !.waketime = waketime, !.func = func]
  <2>1. CASE dig.mq # <<>>
    BY <1>2, <1>4, <2>1 DEF command_update_digital_out
  <2>2. CASE dig.mq = <<>>
    <3>1. dig' = e /\ age' = 0 /\ UNCHANGED shut /\ UNCHANGED <<pwm, clock>> /\ ~shut
      BY <1>4, <2>2 DEF command_update_digital_out
    <3>2. limit \in Clock /\ Lead(clock, limit) = dig.max_duration
      BY <1>1, LeadPlus
    <3>3. /\ limited \in BOOLEAN /\ end_time \in Clock /\ waketime \in Clock
          /\ func \in {"load", "toggle"}
          /\ limited => end_time = limit /\ waketime = limit /\ func = "load"
      BY <1>1, <3>2 DEF Limited
    <3>4. (dig.max_duration # 0 /\ on # dig.default_on) => limited
      BY DEF Limited
    <3> HIDE DEF limited, limit, end_time, waketime, func
    <3>5. e \in DigitalRecord
      BY <3>3, ZenonT(60) DEF DigitalRecord
    <3>6. /\ e.mq = dig.mq /\ e.pin = on /\ e.on = on /\ e.toggling = FALSE
          /\ e.check_end = limited /\ e.end_time = end_time /\ e.timer = limited
          /\ e.func = func /\ e.waketime = waketime
          /\ e.max_duration = dig.max_duration /\ e.default_on = dig.default_on
      BY DEF DigitalRecord
    <3> HIDE DEF e
    <3>7. InOrder(e.mq, clock) /\ e.mq = <<>>
      BY <2>2, <3>6, EmptyQueue
    <3>8. e.check_end => Lead(clock, e.end_time) = dig.max_duration
      BY <3>2, <3>3, <3>6
    <3>9. e.check_end => e.timer /\ Lead(clock, e.end_time) < Half
      BY <1>1, <3>3, <3>6, <3>8
    <3>10. (e.max_duration # 0 /\ DigitalUnsafe(e)) =>
             e.check_end /\ 0 + Lead(clock, e.end_time) <= e.max_duration
      BY <1>1, <3>3, <3>4, <3>6, <3>8 DEF DigitalUnsafe
    <3>11. e.timer => e.check_end /\ e.func = "load" /\ e.waketime = e.end_time
      BY <3>3, <3>6
    <3>12. DigitalOK(e, clock, 0, FALSE)
      BY <3>6, <3>7, <3>9, <3>10, <3>11 DEF DigitalOK
    <3>13. dig' \in DigitalRecord /\ DigitalOK(dig', clock, age', shut')
      BY <3>1, <3>5, <3>12
    <3> QED BY <3>1, <3>13
  <2> QED BY <2>1, <2>2
<1> QED BY <1>3, <1>4

\* Every step of a digital output.
LEMMA DigitalStepInv ==
  ASSUME dig \in DigitalRecord, clock \in Clock, age \in 0 .. Half, shut \in BOOLEAN,
         DigitalOK(dig, clock, age, shut), DigitalNext
  PROVE  /\ dig' \in DigitalRecord /\ clock' \in Clock /\ age' \in 0 .. Half /\ pwm' = pwm
         /\ DigitalOK(dig', clock', age', shut')
<1>1. Half \in Nat \ {0}
  BY HalfWord
<1>2. CASE digital_toggle_event
  BY <1>2, DigitalToggle
<1>3. CASE digital_load_event
  <2>1. 0 \in 0 .. Half
    BY <1>1
  <2> QED BY <1>3, <2>1, DigitalLoad
<1>4. CASE \/ \E on \in BOOLEAN : command_update_digital_out(on)
           \/ \E ticks \in Cycles : command_set_digital_out_pwm_cycle(ticks)
  <2>1. /\ dig' \in DigitalRecord /\ DigitalOK(dig', clock, age', shut')
        /\ age' \in {0, age} /\ UNCHANGED <<pwm, clock>>
    BY <1>4, DigitalUpdate
  <2> QED BY <1>1, <2>1
<1>5. ASSUME NEW time \in Clock, NEW on \in OnTicks, command_queue_digital_out(time, on)
      PROVE  /\ dig' \in DigitalRecord /\ clock' \in Clock /\ age' \in 0 .. Half
             /\ pwm' = pwm /\ DigitalOK(dig', clock', age', shut')
  <2>1. /\ dig' \in DigitalRecord /\ DigitalOK(dig', clock, age', shut')
        /\ age' \in {0, age} /\ UNCHANGED <<pwm, clock>>
    BY <1>5, DigitalQueue
  <2> QED BY <1>1, <2>1
<1>6. CASE DigitalTick
  <2>1. /\ ~(dig.timer /\ ~Before(clock, dig.waketime)) /\ UNCHANGED <<dig, pwm, shut>>
        /\ clock' = Plus(clock, 1)
        /\ age' = CASE ~(dig.max_duration # 0 /\ DigitalUnsafe(dig)) -> 0
                    [] (dig.max_duration # 0 /\ DigitalUnsafe(dig)) /\ age = Half -> age
                    [] OTHER -> age + 1
    BY <1>6 DEF DigitalTick, Due, Tick
  <2>2. /\ age' \in 0 .. Half
        /\ (dig.max_duration # 0 /\ DigitalUnsafe(dig)) => age' <= age + 1
    BY <1>1, <2>1
  <2>3. clock' \in Clock
    BY <2>1, LeadFacts
  <2>4. DigitalOK(dig, Plus(clock, 1), age', shut)
    BY <2>1, <2>2, DigitalTicks
  <2> QED BY <2>1, <2>2, <2>3, <2>4
<1> QED BY <1>2, <1>3, <1>4, <1>5, <1>6 DEF DigitalNext

\* The timer of a hardware PWM output serves the next update or the limit.  Between the
\* two halves of command_queue_pwm_out there is one update, and perhaps a limit.
PwmOK(p, c, a, s) ==
  /\ s => ~p.timer /\ ~PwmUnsafe(p) /\ ~p.adding
  /\ p.func = "end" => p.timer
  /\ p.timer => Lead(c, p.waketime) < Half
  /\ p.adding => Len(p.mq) = 1 /\ (p.timer => p.func = "end")
  /\ ~p.adding => InOrder(p.mq, c)
  /\ (~p.adding /\ p.mq # <<>>) =>
       p.timer /\ p.func = "event" /\ p.waketime = p.mq[1].waketime
  /\ (p.timer /\ p.func = "event") => p.mq # <<>> /\ ~p.adding
  /\ (p.max_duration # 0 /\ PwmUnsafe(p)) =>
       p.timer /\ a + Lead(c, p.waketime) <= p.max_duration

\* What the assumptions say of the fields of struct pwm_out_s.
LEMMA PwmFields ==
  ASSUME NEW p \in PwmRecord
  PROVE  /\ p.timer \in BOOLEAN /\ p.adding \in BOOLEAN /\ p.waketime \in Clock
         /\ p.func \in {"event", "end"} /\ p.mq \in Queue /\ p.pin \in OnTicks
         /\ p.default_value \in OnTicks /\ p.max_duration \in 0 .. Half - 1
<1>1. \A n \in MaxDurations : n \in Nat /\ n < Half
  BY OutputsAssumption
<1>2. p.max_duration \in MaxDurations
  BY DEF PwmRecord
<1>3. p.max_duration \in Nat /\ p.max_duration < Half
  BY <1>1, <1>2, Zenon
<1>4. p.max_duration \in 0 .. Half - 1
  BY <1>3, HalfWord
<1> QED BY <1>4 DEF PwmRecord

\* pwm_shutdown.
LEMMA PwmShut ==
  ASSUME NEW p \in PwmRecord, NEW c \in Clock, NEW s \in BOOLEAN, NEW e,
         e = [p EXCEPT !.timer = FALSE, !.pin = p.default_value, !.func = "event",
                       !.mq = <<>>, !.adding = FALSE]
  PROVE  e \in PwmRecord /\ PwmOK(e, c, 0, s)
<1>1. p.default_value \in OnTicks /\ <<>> \in Queue /\ InOrder(<<>>, c)
  BY PwmFields, EmptyQueue
<1>2. e \in PwmRecord
  BY <1>1, ZenonT(60) DEF PwmRecord
<1>3. /\ e.timer = FALSE /\ e.pin = p.default_value /\ e.func = "event" /\ e.mq = <<>>
      /\ e.adding = FALSE /\ e.default_value = p.default_value
  BY DEF PwmRecord
<1> QED BY <1>1, <1>2, <1>3 DEF PwmOK, PwmUnsafe

\* shutdown(...) of a function of pwmcmds.c.
LEMMA PwmStopped ==
  ASSUME pwm \in PwmRecord, clock \in Clock, PwmStop
  PROVE  pwm' \in PwmRecord /\ PwmOK(pwm', clock, age', shut') /\ age' = 0
<1>1. shut' \in BOOLEAN /\ age' = 0 /\ pwm_shutdown
  BY DEF PwmStop, sched_shutdown
<1>2. pwm' \in PwmRecord /\ PwmOK(pwm', clock, 0, shut')
  BY <1>1, PwmShut DEF pwm_shutdown
<1> QED BY <1>1, <1>2

\* pwm_event.
LEMMA PwmEvent ==
  ASSUME pwm \in PwmRecord, clock \in Clock, age \in 0 .. Half, shut \in BOOLEAN,
         PwmOK(pwm, clock, age, shut), pwm_event
  PROVE  /\ pwm' \in PwmRecord /\ PwmOK(pwm', clock, age', shut')
         /\ age' = 0 /\ UNCHANGED <<dig, clock>>
<1> DEFINE m == Head(pwm.mq)
           rest == Tail(pwm.mq)
           limited == m.on # pwm.default_value /\ pwm.max_duration # 0
           limit == Plus(pwm.waketime, pwm.max_duration)
           timer == rest # <<>> \/ limited
           func == IF rest = <<>> /\ limited THEN "end" ELSE pwm.func
           waketime == IF rest # <<>> THEN Head(rest).waketime
                       ELSE IF limited THEN limit ELSE pwm.waketime
           stops == rest # <<>> /\ limited /\ Before(limit, Head(rest).waketime)
           e == [pwm EXCEPT !.mq = rest, !.pin = m.on, !.timer = timer, !.func = func,
                            !.waketime = waketime]
<1>1. /\ pwm.timer /\ ~Before(clock, pwm.waketime) /\ pwm.func = "event"
      /\ UNCHANGED <<dig, clock>>
      /\ stops => PwmStop
      /\ ~stops => pwm' = e /\ age' = 0 /\ shut' = shut
  <2>1. pwm_event =>
          /\ Due(pwm) /\ pwm.func = "event"
          /\ IF stops THEN PwmStop ELSE pwm' = e /\ age' = 0 /\ UNCHANGED <<wake, shut>>
          /\ UNCHANGED <<dig, clock>>
    BY DEF pwm_event
  <2> HIDE DEF stops, e
  <2> QED BY <2>1 DEF Due
<1>2. CASE stops
  <2> HIDE DEF stops
  <2> QED BY <1>1, <1>2, PwmStopped
<1>3. CASE ~stops
  <2>1. /\ pwm.waketime \in Clock /\ pwm.mq \in Queue /\ pwm.max_duration \in 0 .. Half - 1
        /\ pwm.func \in {"event", "end"} /\ Half \in Nat \ {0} /\ Word = 2 * Half
    BY PwmFields, HalfWord
  <2>2. /\ pwm.mq # <<>> /\ ~pwm.adding /\ InOrder(pwm.mq, clock) /\ ~shut
        /\ Lead(clock, pwm.waketime) < Half
    BY <1>1 DEF PwmOK
  <2>3. pwm.waketime = clock
    BY <1>1, <2>1, <2>2, DueNow
  <2>4. /\ rest \in Queue /\ InOrder(rest, clock) /\ m \in Update
        /\ rest # <<>> => /\ Head(rest) = rest[1] /\ rest[1] \in Update
                          /\ Lead(clock, rest[1].waketime) < Half
    BY <2>1, <2>2, PopQueue
  <2>5. m.on \in OnTicks /\ (rest # <<>> => rest[1].waketime \in Clock)
    BY <2>4 DEF Update
  <2> HIDE DEF m, rest
  <2>6. limit \in Clock /\ Lead(clock, limit) = pwm.max_duration
    BY <2>1, <2>3, LeadPlus
  <2>7. /\ timer <=> (limited \/ rest # <<>>)
        /\ rest # <<>> => waketime = rest[1].waketime /\ func = "event"
        /\ rest = <<>> /\ limited => waketime = limit /\ func = "end"
        /\ rest = <<>> /\ ~limited => waketime = pwm.waketime /\ func = "event"
        /\ rest # <<>> /\ limited => ~Before(limit, rest[1].waketime)
        /\ timer \in BOOLEAN /\ limited \in BOOLEAN
    BY <1>1, <1>3, <2>4
  <2>8. limited <=> (m.on # pwm.default_value /\ pwm.max_duration # 0)
    OBVIOUS
  <2> HIDE DEF limited, limit, timer, func, waketime, stops
  <2>9. /\ waketime \in Clock /\ func \in {"event", "end"}
        /\ timer => Lead(clock, waketime) < Half
        /\ limited => Lead(clock, waketime) <= pwm.max_duration
    <3>1. CASE rest # <<>>
      <4>1. waketime = rest[1].waketime /\ waketime \in Clock /\ Lead(clock, waketime) < Half
        BY <2>4, <2>5, <2>7, <3>1
      <4>2. ASSUME limited
            PROVE  Lead(clock, waketime) <= pwm.max_duration
        <5>1. ~Before(limit, waketime)
          BY <2>7, <3>1, <4>1, <4>2
        <5>2. Lead(clock, limit) < Half
          BY <2>1, <2>6
        <5>3. ~(Lead(clock, limit) < Lead(clock, waketime))
          BY <2>6, <4>1, <5>1, <5>2, LeadOrder
        <5>4. Lead(clock, waketime) \in 0 .. Word - 1
          BY <4>1, LeadFacts
        <5> QED BY <2>1, <2>6, <5>3, <5>4
      <4> QED BY <2>7, <3>1, <4>1, <4>2
    <3>2. CASE rest = <<>> /\ limited
      BY <2>1, <2>6, <2>7, <3>2
    <3>3. CASE rest = <<>> /\ ~limited
      BY <2>1, <2>7, <3>3
    <3> QED BY <3>1, <3>2, <3>3
  <2>10. e \in PwmRecord
    BY <2>4, <2>5, <2>7, <2>9, ZenonT(60) DEF PwmRecord
  <2>11. /\ e.mq = rest /\ e.pin = m.on /\ e.timer = timer /\ e.func = func
         /\ e.waketime = waketime /\ e.adding = pwm.adding
         /\ e.max_duration = pwm.max_duration /\ e.default_value = pwm.default_value
    BY DEF PwmRecord
  <2> HIDE DEF e
  <2>12. (e.max_duration # 0 /\ PwmUnsafe(e)) =>
           e.timer /\ 0 + Lead(clock, e.waketime) <= e.max_duration
    <3>1. Lead(clock, waketime) \in 0 .. Word - 1
      BY <2>9, LeadFacts
    <3>2. (e.max_duration # 0 /\ PwmUnsafe(e)) => limited
      BY <2>8, <2>11 DEF PwmUnsafe
    <3> QED BY <2>7, <2>9, <2>11, <3>1, <3>2
  <2>13. PwmOK(e, clock, 0, FALSE)
    BY <2>2, <2>4, <2>7, <2>9, <2>11, <2>12 DEF PwmOK
  <2> QED BY <1>1, <1>3, <2>2, <2>10, <2>13
<1> QED BY <1>2, <1>3

\* command_queue_pwm_out, to the irq_enable.
LEMMA PwmQueue ==
  ASSUME pwm \in PwmRecord, clock \in Clock, age \in 0 .. Half, shut \in BOOLEAN,
         PwmOK(pwm, clock, age, shut), NEW time \in Clock, NEW value \in OnTicks,
         command_queue_pwm_out(time, value)
  PROVE  /\ pwm' \in PwmRecord /\ PwmOK(pwm', clock, age', shut')
         /\ age' \in {0, age} /\ UNCHANGED <<dig, clock>>
<1> DEFINE q == Append(pwm.mq, [waketime |-> time, on |-> value])
           adding == pwm.mq = <<>>
           e == [pwm EXCEPT !.mq = q, !.adding = adding]
<1>1. /\ ~shut /\ ~pwm.adding /\ UNCHANGED <<dig, clock>>
      /\ \E k \in -1 .. Ahead : time = Plus(clock, k)
      /\ pwm.mq # <<>> => ~Before(time, pwm.mq[Len(pwm.mq)].waketime)
  BY DEF command_queue_pwm_out, UpdateTime
<1>2. \/ PwmStop
      \/ Len(pwm.mq) # MoveCount /\ pwm' = e /\ UNCHANGED <<age, wake, shut>>
  BY DEF command_queue_pwm_out
<1>3. /\ pwm.mq \in Queue /\ pwm.mq \in Seq(Update) /\ pwm.timer \in BOOLEAN
      /\ pwm.func \in {"event", "end"} /\ InOrder(pwm.mq, clock)
  BY <1>1, PwmFields, QueueSeq DEF PwmOK
<1>4. CASE PwmStop
  BY <1>1, <1>4, PwmStopped
<1>5. CASE Len(pwm.mq) # MoveCount /\ pwm' = e /\ UNCHANGED <<age, wake, shut>>
  <2>1. Len(pwm.mq) < MoveCount /\ Len(pwm.mq) \in Nat /\ MoveCount \in Nat \ {0}
    <3>1. Len(pwm.mq) <= MoveCount /\ Len(pwm.mq) \in Nat
      BY <1>3, QueueSeq
    <3> QED BY <1>5, <3>1, OutputsAssumption
  <2>2. q \in Queue /\ q # <<>> /\ Len(q) = Len(pwm.mq) + 1
    <3> DEFINE m == [waketime |-> time, on |-> value]
    <3>1. m \in Update
      BY DEF Update
    <3> HIDE DEF m
    <3>2. Append(pwm.mq, m) \in Seq(Update) /\ Len(Append(pwm.mq, m)) = Len(pwm.mq) + 1
      BY <1>3, <3>1, AppendProperties
    <3>3. Len(Append(pwm.mq, m)) <= MoveCount /\ Append(pwm.mq, m) # <<>>
      BY <2>1, <3>2
    <3>4. Append(pwm.mq, m) \in Queue
      BY <3>2, <3>3, QueueSeq
    <3> QED BY <3>2, <3>3, <3>4 DEF m
  <2>3. ASSUME pwm.mq # <<>>
        PROVE  InOrder(q, clock) /\ q[1].waketime = pwm.mq[1].waketime
    <3>1. /\ Lead(clock, time) < Half
          /\ \A i \in 1 .. Len(pwm.mq) :
               Lead(clock, pwm.mq[i].waketime) <= Lead(clock, time)
      BY <1>1, <1>3, <2>3, NextTime
    <3> QED BY <1>3, <2>1, <2>3, <3>1, PushQueue
  <2>4. /\ adding \in BOOLEAN /\ (adding => pwm.mq = <<>> /\ Len(pwm.mq) = 0)
        /\ ~adding => pwm.mq # <<>>
    OBVIOUS
  <2> HIDE DEF q, adding
  <2>5. e \in PwmRecord
    BY <2>2, <2>4, ZenonT(60) DEF PwmRecord
  <2>6. /\ e.mq = q /\ e.adding = adding /\ e.timer = pwm.timer /\ e.func = pwm.func
        /\ e.waketime = pwm.waketime /\ e.pin = pwm.pin
        /\ e.max_duration = pwm.max_duration /\ e.default_value = pwm.default_value
    BY DEF PwmRecord
  <2> HIDE DEF e
  <2>7. e.adding => Len(e.mq) = 1 /\ (e.timer => e.func = "end")
    <3>1. (pwm.timer /\ pwm.func = "event") => pwm.mq # <<>>
      BY DEF PwmOK
    <3>2. adding => Len(q) = 1
      BY <2>1, <2>2, <2>4
    <3> QED BY <1>3, <2>4, <2>6, <3>1, <3>2
  <2>8. ~e.adding => /\ InOrder(e.mq, clock) /\ e.timer /\ e.func = "event"
                     /\ e.waketime = e.mq[1].waketime
    BY <1>1, <2>3, <2>4, <2>6 DEF PwmOK
  <2>9. (e.timer /\ e.func = "event") => e.mq # <<>> /\ ~e.adding
    BY <2>2, <2>6, <2>7
  <2>10. PwmOK(e, clock, age, shut)
    BY <1>1, <2>6, <2>7, <2>8, <2>9 DEF PwmOK, PwmUnsafe
  <2> QED BY <1>1, <1>5, <2>5, <2>10
<1> QED BY <1>2, <1>4, <1>5

\* The rest of command_queue_pwm_out: a limit that is still running is not put off.
LEMMA PwmAdd ==
  ASSUME pwm \in PwmRecord, clock \in Clock, age \in 0 .. Half, shut \in BOOLEAN,
         PwmOK(pwm, clock, age, shut), PwmAddTimer
  PROVE  /\ pwm' \in PwmRecord /\ PwmOK(pwm', clock, age', shut')
         /\ age' \in {0, age} /\ UNCHANGED <<dig, clock>>
<1> DEFINE time == Head(pwm.mq).waketime
           e == [pwm EXCEPT !.timer = TRUE, !.waketime = time, !.func = "event",
                            !.adding = FALSE]
           stops == (pwm.func = "end" /\ Before(pwm.waketime, time)) \/ Before(time, clock)
<1>1. /\ pwm.adding /\ UNCHANGED <<dig, clock>>
      /\ PwmStop \/ (~stops /\ pwm' = e /\ UNCHANGED <<age, wake, shut>>)
  BY DEF PwmAddTimer
<1>2. CASE PwmStop
  BY <1>1, <1>2, PwmStopped
<1>3. CASE ~stops /\ pwm' = e /\ UNCHANGED <<age, wake, shut>>
  <2>1. /\ pwm.mq \in Queue /\ pwm.mq \in Seq(Update) /\ pwm.waketime \in Clock
        /\ pwm.max_duration \in 0 .. Half - 1 /\ Half \in Nat \ {0} /\ Word = 2 * Half
    BY PwmFields, QueueSeq, HalfWord
  <2>2. Len(pwm.mq) = 1 /\ ~shut /\ (pwm.timer => pwm.func = "end")
    BY <1>1 DEF PwmOK
  <2>3. /\ time = pwm.mq[1].waketime /\ pwm.mq # <<>> /\ pwm.mq[1] \in Update
    <3>1. ASSUME NEW r \in Seq(Update), Len(r) = 1
          PROVE  r # <<>> /\ Head(r) = r[1] /\ r[1] \in Update
      <4>1. r # <<>>
        BY <3>1
      <4>2. Head(r) = r[1] /\ Head(r) \in Update
        BY <4>1, HeadTailProperties
      <4> QED BY <4>1, <4>2
    <3> QED BY <2>1, <2>2, <3>1
  <2>4. time \in Clock
    BY <2>3 DEF Update
  <2>5. Lead(clock, time) < Half
    <3>1. Lead(clock, time) \in 0 .. Word - 1 /\ (Before(time, clock) <=> Lead(clock, time) >= Half)
      BY <2>4, LeadFacts
    <3> QED BY <1>3, <2>1, <3>1
  <2>6. pwm.timer => Lead(clock, time) <= Lead(clock, pwm.waketime)
    <3> SUFFICES ASSUME pwm.timer PROVE Lead(clock, time) <= Lead(clock, pwm.waketime)
      OBVIOUS
    <3>1. Lead(clock, pwm.waketime) < Half
      BY DEF PwmOK
    <3>2. ~Before(pwm.waketime, time)
      BY <1>3, <2>2
    <3>3. ~(Lead(clock, pwm.waketime) < Lead(clock, time))
      BY <2>1, <2>4, <2>5, <3>1, <3>2, LeadOrder
    <3>4. Lead(clock, pwm.waketime) \in 0 .. Word - 1 /\ Lead(clock, time) \in 0 .. Word - 1
      BY <2>1, <2>4, LeadFacts
    <3> QED BY <3>3, <3>4
  <2>7. InOrder(pwm.mq, clock)
    <3>1. \A i \in 1 .. Len(pwm.mq) : i = 1
      BY <2>2
    <3>2. Lead(clock, pwm.mq[1].waketime) <= Lead(clock, pwm.mq[1].waketime)
      <4>1. Lead(clock, time) \in 0 .. Word - 1
        BY <2>4, LeadFacts
      <4> QED BY <2>3, <4>1
    <3> QED BY <2>3, <2>5, <3>1, <3>2, Zenon DEF InOrder
  <2> HIDE DEF time
  <2>8. e \in PwmRecord
    <3>1. TRUE \in BOOLEAN /\ FALSE \in BOOLEAN /\ "event" \in {"event", "end"}
      OBVIOUS
    <3> QED BY <2>4, <3>1, ZenonT(60) DEF PwmRecord
  <2>9. /\ e.mq = pwm.mq /\ e.adding = FALSE /\ e.timer = TRUE /\ e.func = "event"
        /\ e.waketime = time /\ e.pin = pwm.pin
        /\ e.max_duration = pwm.max_duration /\ e.default_value = pwm.default_value
    BY DEF PwmRecord
  <2> HIDE DEF e
  <2>10. (e.max_duration # 0 /\ PwmUnsafe(e)) => age + Lead(clock, e.waketime) <= e.max_duration
    <3>1. (pwm.max_duration # 0 /\ PwmUnsafe(pwm)) =>
            pwm.timer /\ age + Lead(clock, pwm.waketime) <= pwm.max_duration
      BY DEF PwmOK
    <3>2. Lead(clock, pwm.waketime) \in 0 .. Word - 1 /\ Lead(clock, time) \in 0 .. Word - 1
      BY <2>1, <2>4, LeadFacts
    <3>3. (pwm.max_duration # 0 /\ PwmUnsafe(pwm)) => age + Lead(clock, time) <= pwm.max_duration
      BY <2>1, <2>6, <3>1, <3>2
    <3> QED BY <2>9, <3>3 DEF PwmUnsafe
  <2>11. PwmOK(e, clock, age, FALSE)
    BY <2>3, <2>5, <2>7, <2>9, <2>10 DEF PwmOK
  <2>12. shut = FALSE
    BY <2>2
  <2> QED BY <1>1, <1>3, <2>8, <2>11, <2>12
<1> QED BY <1>1, <1>2, <1>3

\* The clock goes on.
LEMMA PwmTicks ==
  ASSUME NEW p \in PwmRecord, NEW c \in Clock, NEW a \in 0 .. Half, NEW s \in BOOLEAN,
         PwmOK(p, c, a, s), ~(p.timer /\ ~Before(c, p.waketime)), NEW b \in 0 .. Half,
         (p.max_duration # 0 /\ PwmUnsafe(p)) => b <= a + 1
  PROVE  PwmOK(p, Plus(c, 1), b, s)
<1> DEFINE k == Plus(c, 1)
<1>1. /\ p.waketime \in Clock /\ p.mq \in Queue /\ p.max_duration \in 0 .. Half - 1
      /\ Half \in Nat \ {0} /\ Word = 2 * Half /\ k \in Clock
  BY PwmFields, HalfWord, LeadFacts
<1>2. /\ Lead(c, p.waketime) \in 0 .. Word - 1
      /\ Lead(c, p.waketime) > 0 => Lead(k, p.waketime) = Lead(c, p.waketime) - 1
      /\ Lead(c, p.waketime) < Half => (Before(c, p.waketime) <=> Lead(c, p.waketime) > 0)
  BY <1>1, LeadFacts
<1>3. p.timer => Lead(c, p.waketime) < Half /\ Lead(c, p.waketime) > 0
  BY <1>2 DEF PwmOK
<1>4. ~p.adding => InOrder(p.mq, k)
  <2> SUFFICES ASSUME ~p.adding PROVE InOrder(p.mq, k)
    OBVIOUS
  <2>1. InOrder(p.mq, c) /\ (p.mq # <<>> => Lead(c, p.mq[1].waketime) > 0)
    BY <1>3 DEF PwmOK
  <2> QED BY <1>1, <2>1, OrderTicks
<1> HIDE DEF k
<1>5. p.timer => Lead(k, p.waketime) < Half
  BY <1>1, <1>2, <1>3
<1>6. (p.max_duration # 0 /\ PwmUnsafe(p)) =>
        p.timer /\ b + Lead(k, p.waketime) <= p.max_duration
  <2> SUFFICES ASSUME p.max_duration # 0, PwmUnsafe(p)
               PROVE  p.timer /\ b + Lead(k, p.waketime) <= p.max_duration
    OBVIOUS
  <2>1. p.timer /\ a + Lead(c, p.waketime) <= p.max_duration
    BY DEF PwmOK
  <2> QED BY <1>1, <1>2, <1>3, <2>1
<1>7. PwmOK(p, k, b, s)
  BY <1>4, <1>5, <1>6 DEF PwmOK
<1> QED BY <1>7 DEF k

\* Every step of a hardware PWM output.
LEMMA PwmStepInv ==
  ASSUME pwm \in PwmRecord, clock \in Clock, age \in 0 .. Half, shut \in BOOLEAN,
         PwmOK(pwm, clock, age, shut), PwmNext
  PROVE  /\ pwm' \in PwmRecord /\ clock' \in Clock /\ age' \in 0 .. Half /\ dig' = dig
         /\ PwmOK(pwm', clock', age', shut')
<1>1. Half \in Nat \ {0} /\ 0 \in 0 .. Half
  BY HalfWord
<1>2. CASE pwm_event
  BY <1>1, <1>2, PwmEvent
<1>3. CASE pwm_end_event
  <2>1. PwmStop /\ UNCHANGED <<dig, clock>>
    BY <1>3 DEF pwm_end_event
  <2> QED BY <1>1, <2>1, PwmStopped
<1>4. ASSUME NEW time \in Clock, NEW value \in OnTicks, command_queue_pwm_out(time, value)
      PROVE  /\ pwm' \in PwmRecord /\ clock' \in Clock /\ age' \in 0 .. Half /\ dig' = dig
             /\ PwmOK(pwm', clock', age', shut')
  <2>1. /\ pwm' \in PwmRecord /\ PwmOK(pwm', clock, age', shut')
        /\ age' \in {0, age} /\ UNCHANGED <<dig, clock>>
    BY <1>4, PwmQueue
  <2> QED BY <1>1, <2>1
<1>5. CASE PwmAddTimer
  <2>1. /\ pwm' \in PwmRecord /\ PwmOK(pwm', clock, age', shut')
        /\ age' \in {0, age} /\ UNCHANGED <<dig, clock>>
    BY <1>5, PwmAdd
  <2> QED BY <1>1, <2>1
<1>6. CASE PwmTick
  <2>1. /\ ~(pwm.timer /\ ~Before(clock, pwm.waketime)) /\ UNCHANGED <<dig, pwm, shut>>
        /\ clock' = Plus(clock, 1)
        /\ age' = CASE ~(pwm.max_duration # 0 /\ PwmUnsafe(pwm)) -> 0
                    [] (pwm.max_duration # 0 /\ PwmUnsafe(pwm)) /\ age = Half -> age
                    [] OTHER -> age + 1
    BY <1>6 DEF PwmTick, Due, Tick
  <2>2. /\ age' \in 0 .. Half
        /\ (pwm.max_duration # 0 /\ PwmUnsafe(pwm)) => age' <= age + 1
    BY <1>1, <2>1
  <2>3. clock' \in Clock
    BY <2>1, LeadFacts
  <2>4. PwmOK(pwm, Plus(clock, 1), age', shut)
    BY <2>1, <2>2, PwmTicks
  <2> QED BY <2>1, <2>2, <2>3, <2>4
<1> QED BY <1>2, <1>3, <1>4, <1>5, <1>6 DEF PwmNext

\* An output that is not configured is off.
DigitalOff ==
  /\ dig.mq = <<>> /\ ~dig.on /\ ~dig.pin /\ ~dig.default_on /\ ~dig.toggling
  /\ dig.max_duration = 0
PwmOff ==
  pwm.mq = <<>> /\ pwm.pin = pwm.default_value /\ ~pwm.adding /\ pwm.max_duration = 0

\* What holds of the outputs.
OutputInv ==
  /\ OutputsTypeOK
  /\ IF conf = "digital" THEN DigitalOK(dig, clock, age, shut) ELSE DigitalOff
  /\ IF conf = "pwm" THEN PwmOK(pwm, clock, age, shut) ELSE PwmOff

\* The outputs as they are configured.
LEMMA OutputInit ==
  ASSUME Init
  PROVE  OutputInv
<1>1. /\ OutputsInit /\ clock = 0 /\ age = 0
      /\ conf # "digital" => dig.max_duration = 0 /\ ~dig.on /\ ~dig.default_on
      /\ conf # "pwm" => pwm.max_duration = 0 /\ pwm.pin = 0 /\ pwm.default_value = 0
  BY DEF Init, OutputsInit
<1>2. clock \in Clock /\ age \in 0 .. Half
  BY <1>1, HalfWord
<1>3. <<>> \in Queue /\ InOrder(<<>>, clock) /\ 0 \in Clock
  BY <1>2, EmptyQueue, HalfWord
<1>4. /\ dig \in DigitalRecord /\ dig.mq = <<>> /\ ~dig.toggling /\ dig.pin = dig.on
      /\ ~dig.timer /\ ~dig.check_end
      /\ dig.max_duration # 0 => dig.on = dig.default_on
  <2>1. PICK on, default_on \in BOOLEAN, max \in MaxDurations :
          /\ max # 0 => on = default_on
          /\ dig = [ timer |-> FALSE, waketime |-> 0, func |-> "load", on_duration |-> 0,
                     off_duration |-> 0, end_time |-> 0, max_duration |-> max,
                     cycle_time |-> 0, mq |-> <<>>, on |-> on, toggling |-> FALSE,
                     check_end |-> FALSE, default_on |-> default_on, pin |-> on ]
    BY <1>1 DEF OutputsInit, DigitalInit
  <2>2. dig \in DigitalRecord
    <3>1. 0 \in Nat /\ 0 \in Cycles \cup {0} /\ "load" \in {"load", "toggle"}
      OBVIOUS
    <3> QED BY <1>3, <2>1, <3>1 DEF DigitalRecord
  <2> QED BY <2>1, <2>2
<1>5. /\ pwm \in PwmRecord /\ pwm.mq = <<>> /\ ~pwm.adding /\ ~pwm.timer /\ pwm.func = "event"
      /\ pwm.max_duration # 0 => pwm.pin = pwm.default_value
  <2>1. PICK value, default_value \in OnTicks, max \in MaxDurations :
          /\ max # 0 => value = default_value
          /\ pwm = [ timer |-> FALSE, waketime |-> 0, func |-> "event",
                     max_duration |-> max, default_value |-> default_value,
                     mq |-> <<>>, pin |-> value, adding |-> FALSE ]
    BY <1>1 DEF OutputsInit, PwmInit
  <2>2. pwm \in PwmRecord
    BY <1>3, <2>1 DEF PwmRecord
  <2> QED BY <2>1, <2>2
<1>6. shut = FALSE
  BY DEF Init, TasksInit
<1>7. conf = "digital" => DigitalOK(dig, clock, age, shut)
  BY <1>3, <1>4, <1>6 DEF DigitalOK, DigitalUnsafe
<1>8. conf # "digital" => DigitalOff
  BY <1>1, <1>4 DEF DigitalOff
<1>9. conf = "pwm" => PwmOK(pwm, clock, age, shut)
  BY <1>3, <1>5, <1>6 DEF PwmOK, PwmUnsafe
<1>10. conf # "pwm" => PwmOff
  BY <1>1, <1>5 DEF PwmOff
<1> QED BY <1>2, <1>4, <1>5, <1>7, <1>8, <1>9, <1>10 DEF OutputInv, OutputsTypeOK

\* Every step of the drivers keeps the invariant of the outputs.
LEMMA OutputNext ==
  ASSUME OutputInv, conf \in Confs, shut \in BOOLEAN, [Next]_vars
  PROVE  OutputInv'
<1>1. /\ dig \in DigitalRecord /\ pwm \in PwmRecord /\ clock \in Clock /\ age \in 0 .. Half
      /\ IF conf = "digital" THEN DigitalOK(dig, clock, age, shut) ELSE DigitalOff
      /\ IF conf = "pwm" THEN PwmOK(pwm, clock, age, shut) ELSE PwmOff
  BY DEF OutputInv, OutputsTypeOK
<1>2. conf' = conf /\ 0 \in 0 .. Half
  BY HalfWord DEF Next, vars
<1>3. ASSUME conf \notin {"digital", "pwm"}, UNCHANGED outvars
      PROVE  OutputInv'
  BY <1>1, <1>2, <1>3 DEF OutputInv, OutputsTypeOK, DigitalOff, PwmOff, outvars
<1>4. ASSUME conf = "digital", pwm' = pwm, dig' \in DigitalRecord, clock' \in Clock,
             age' \in 0 .. Half, DigitalOK(dig', clock', age', shut')
      PROVE  OutputInv'
  BY <1>1, <1>2, <1>4 DEF OutputInv, OutputsTypeOK, PwmOff
<1>5. ASSUME conf = "pwm", dig' = dig, pwm' \in PwmRecord, clock' \in Clock,
             age' \in 0 .. Half, PwmOK(pwm', clock', age', shut')
      PROVE  OutputInv'
  BY <1>1, <1>2, <1>5 DEF OutputInv, OutputsTypeOK, DigitalOff
<1>6. CASE DigitalStep
  BY <1>1, <1>4, <1>6, DigitalStepInv DEF DigitalStep
<1>7. CASE PwmStep
  BY <1>1, <1>5, <1>7, PwmStepInv DEF PwmStep
<1>8. CASE TmcStep \/ AnalogStep \/ EndstopStep \/ ProbeStep
  BY <1>3, <1>8 DEF TmcStep, AnalogStep, EndstopStep, ProbeStep
<1>9. CASE Shutdown
  <2>1. CASE conf = "digital"
    <3>1. digital_out_shutdown /\ UNCHANGED <<pwm, clock>> /\ age' = 0 /\ shut' = TRUE
      BY <1>9, <2>1 DEF Shutdown, DigitalHalt, sched_shutdown
    <3>2. dig' \in DigitalRecord /\ DigitalOK(dig', clock, 0, TRUE)
      BY <1>1, <3>1, DigitalShut DEF digital_out_shutdown
    <3> QED BY <1>1, <1>2, <1>4, <2>1, <3>1, <3>2
  <2>2. CASE conf = "pwm"
    <3>1. pwm_shutdown /\ UNCHANGED <<dig, clock>> /\ age' = 0 /\ shut' = TRUE
      BY <1>9, <2>2 DEF Shutdown, PwmHalt, sched_shutdown
    <3>2. pwm' \in PwmRecord /\ PwmOK(pwm', clock, 0, TRUE)
      BY <1>1, <3>1, PwmShut DEF pwm_shutdown
    <3> QED BY <1>1, <1>2, <1>5, <2>2, <3>1, <3>2
  <2>3. CASE conf \in {"tmcuart", "analog", "endstop", "probe"}
    BY <1>3, <1>9, <2>3 DEF Shutdown
  <2> QED BY <2>1, <2>2, <2>3 DEF Confs
<1>10. ASSUME UNCHANGED outvars, shut' \in {shut, FALSE}
       PROVE  OutputInv'
  <2>1. CASE conf = "digital"
    <3>1. DigitalOK(dig, clock, age, FALSE)
      BY <1>1, <2>1 DEF DigitalOK
    <3> QED BY <1>1, <1>4, <1>10, <2>1, <3>1 DEF outvars
  <2>2. CASE conf = "pwm"
    <3>1. PwmOK(pwm, clock, age, FALSE)
      BY <1>1, <2>2 DEF PwmOK
    <3> QED BY <1>1, <1>5, <1>10, <2>2, <3>1 DEF outvars
  <2> QED BY <1>3, <1>10, <2>1, <2>2
<1>11. CASE ClearShutdown
  BY <1>10, <1>11 DEF ClearShutdown, sched_clear_shutdown
<1>12. CASE UNCHANGED vars
  BY <1>10, <1>12 DEF vars
<1> QED BY <1>6, <1>7, <1>8, <1>9, <1>11, <1>12 DEF Next

\* The invariant of the outputs and the properties.
LEMMA OutputsHold ==
  ASSUME OutputInv, shut \in BOOLEAN
  PROVE  OutputsSafe /\ UpdatesOnTime
<1>1. /\ dig \in DigitalRecord /\ pwm \in PwmRecord /\ clock \in Clock /\ age \in 0 .. Half
      /\ IF conf = "digital" THEN DigitalOK(dig, clock, age, shut) ELSE DigitalOff
      /\ IF conf = "pwm" THEN PwmOK(pwm, clock, age, shut) ELSE PwmOff
  BY DEF OutputInv, OutputsTypeOK
<1>2. /\ dig.max_duration \in 0 .. Half - 1 /\ dig.end_time \in Clock /\ dig.waketime \in Clock
      /\ pwm.max_duration \in 0 .. Half - 1 /\ pwm.waketime \in Clock
      /\ dig.mq \in Seq(Update) /\ pwm.mq \in Seq(Update)
      /\ dig.func \in {"load", "toggle"} /\ Half \in Nat \ {0}
  BY <1>1, DigitalFields, PwmFields, QueueSeq, HalfWord
<1>3. \A t \in Clock : Lead(clock, t) \in 0 .. Word - 1
  BY <1>1, LeadFacts
<1>4. /\ (dig.max_duration # 0 /\ DigitalUnsafe(dig)) => age <= dig.max_duration
      /\ dig.pin = dig.on /\ (shut => ~DigitalUnsafe(dig))
  <2>1. CASE conf = "digital"
    <3>1. (dig.max_duration # 0 /\ DigitalUnsafe(dig)) =>
            age + Lead(clock, dig.end_time) <= dig.max_duration
      BY <1>1, <2>1 DEF DigitalOK
    <3>2. dig.pin = dig.on /\ (shut => ~DigitalUnsafe(dig))
      BY <1>1, <2>1 DEF DigitalOK
    <3> QED BY <1>1, <1>2, <1>3, <3>1, <3>2
  <2>2. CASE conf # "digital"
    <3>1. dig.on \in BOOLEAN /\ dig.pin \in BOOLEAN /\ dig.default_on \in BOOLEAN
      BY <1>1, DigitalFields
    <3> QED BY <1>1, <2>2, <3>1 DEF DigitalOff, DigitalUnsafe
  <2> QED BY <2>1, <2>2
<1>5. /\ (pwm.max_duration # 0 /\ PwmUnsafe(pwm)) => age <= pwm.max_duration
      /\ shut => ~PwmUnsafe(pwm)
  <2>1. CASE conf = "pwm"
    <3>1. /\ (pwm.max_duration # 0 /\ PwmUnsafe(pwm)) =>
               age + Lead(clock, pwm.waketime) <= pwm.max_duration
          /\ shut => ~PwmUnsafe(pwm)
      BY <1>1, <2>1 DEF PwmOK
    <3> QED BY <1>1, <1>2, <1>3, <3>1
  <2>2. CASE conf # "pwm"
    BY <1>1, <2>2 DEF PwmOff, PwmUnsafe
  <2> QED BY <2>1, <2>2
<1>6. ASSUME NEW q \in Seq(Update), InOrder(q, clock), q # <<>>
      PROVE  /\ Head(q) = q[1] /\ q[1].waketime \in Clock
             /\ Lead(clock, q[1].waketime) < Half /\ ~Before(q[1].waketime, clock)
  <2>1. Head(q) = q[1] /\ q[1] \in Update /\ 1 \in 1 .. Len(q)
    BY <1>6
  <2>2. q[1].waketime \in Clock
    BY <2>1 DEF Update
  <2>3. Lead(clock, q[1].waketime) < Half
    BY <1>6, <2>1, Zenon DEF InOrder
  <2>4. Before(q[1].waketime, clock) <=> Lead(clock, q[1].waketime) >= Half
    BY <1>1, <2>2, LeadFacts
  <2> QED BY <1>2, <1>3, <2>1, <2>2, <2>3, <2>4
<1>7. OnTime(dig, dig.func = "load")
  <2> SUFFICES ASSUME dig.mq # <<>>
               PROVE  /\ ~Before(Head(dig.mq).waketime, clock)
                      /\ (Due(dig) /\ dig.func = "load") => Head(dig.mq).waketime = clock
    BY DEF OnTime
  <2>1. conf = "digital"
    BY <1>1 DEF DigitalOff
  <2>2. InOrder(dig.mq, clock) /\ dig.end_time = dig.mq[1].waketime
    BY <1>1, <2>1 DEF DigitalOK
  <2>3. /\ Head(dig.mq) = dig.mq[1] /\ Lead(clock, dig.mq[1].waketime) < Half
        /\ ~Before(dig.mq[1].waketime, clock)
    BY <1>2, <1>6, <2>2
  <2>4. ASSUME Due(dig), dig.func = "load"
        PROVE  dig.mq[1].waketime = clock
    <3>1. dig.waketime = dig.end_time /\ ~Before(clock, dig.waketime)
      BY <1>1, <2>1, <2>4 DEF DigitalOK, Due
    <3> QED BY <1>1, <1>2, <2>2, <2>3, <3>1, DueNow
  <2> QED BY <2>3, <2>4
<1>8. pwm.adding \/ OnTime(pwm, pwm.func = "event")
  <2> SUFFICES ASSUME ~pwm.adding, pwm.mq # <<>>
               PROVE  /\ ~Before(Head(pwm.mq).waketime, clock)
                      /\ (Due(pwm) /\ pwm.func = "event") => Head(pwm.mq).waketime = clock
    BY DEF OnTime
  <2>1. conf = "pwm"
    BY <1>1 DEF PwmOff
  <2>2. InOrder(pwm.mq, clock) /\ pwm.waketime = pwm.mq[1].waketime
    BY <1>1, <2>1 DEF PwmOK
  <2>3. /\ Head(pwm.mq) = pwm.mq[1] /\ Lead(clock, pwm.mq[1].waketime) < Half
        /\ ~Before(pwm.mq[1].waketime, clock)
    BY <1>2, <1>6, <2>2
  <2>4. Due(pwm) => ~Before(clock, pwm.waketime)
    BY DEF Due
  <2> QED BY <1>1, <1>2, <2>2, <2>3, <2>4, DueNow
<1> QED BY <1>4, <1>5, <1>7, <1>8 DEF OutputsSafe, UpdatesOnTime

-----------------------------------------------------------------------------
\* The drivers side by side.

\* The inductive invariant, one part for each driver.
DriversInv ==
  /\ conf \in Confs /\ wake \in BOOLEAN
  /\ EP!Inv /\ ProbeInv /\ AnalogInv /\ LineInv /\ OutputInv

\* The invariants of the drivers hold when they are configured.
LEMMA DriversInit ==
  ASSUME Init
  PROVE  DriversInv
<1>1. conf \in Confs /\ EP!Inv
  <2>1. EP!ConstantsOK
    BY DriversAssumption DEF EP!ConstantsOK
  <2>2. conf \in Confs /\ EP!Init
    BY SameEndstops DEF Init, Confs
  <2> QED BY <2>1, <2>2, EP!InitInv
<1>2. ProbeInv
  <2>1. EddyTypes
    <3>1. /\ \A n \in {DriftCount, HardCount, Word} : 0 \in 0 .. n - 1
          /\ \A n \in {RingSize, TrigCount, UntrigCount, HardCount} : 0 \in 0 .. n
      BY DriversAssumption, WordAssumption
    <3>2. probe \in ProbeRecord
      BY <3>1 DEF Init, EddyInit, ProbeRecord
    <3> QED BY <3>1, <3>2 DEF Init, EddyInit, EddyTypes
  <2>2. TouchInv
    BY DEF Init, EddyInit, TouchInv
  <2> QED BY <2>1, <2>2 DEF ProbeInv
<1>3. AnalogInv
  <2>1. /\ adc = [ timer |-> FALSE, value |-> 0, state |-> 1, sample_count |-> 0,
                   range_check_count |-> 0, invalid_count |-> 0 ]
        /\ round = [n |-> 0, sum |-> 0] /\ bad = 0 /\ seen = TRUE /\ shut = FALSE
    BY DEF Init, AnalogInit, TasksInit
  <2>2. adc \in AnalogRecord
    <3>1. 0 \in 0 .. MaxInvalid
      BY AnalogAssumption
    <3> QED BY <2>1, <3>1 DEF AnalogRecord
  <2> QED BY <2>1, <2>2 DEF AnalogInv, RoundInv, CheckInv
<1>4. LineInv
  <2>1. 0 \in 0 .. Calls - 1 /\ 0 \in 0 .. Count - 1
    BY TmcAssumption
  <2>2. tmc \in TmcRecord /\ ~tmc.timer /\ ~tmc.active /\ tmc.line = 1
    BY <2>1 DEF Init, TmcInit, TmcRecord, Kinds
  <2>3. chip \in [ifcnt : 0 .. Count - 1, last : 0 .. Calls - 1]
    BY <2>1 DEF Init, TmcInit
  <2>4. reg \in RegRecord
    BY <2>1 DEF Init, TmcInit, RegRecord, NoValue
  <2>5. wire = <<>> /\ tdown = <<>> /\ tup = <<>>
    BY DEF Init, TmcInit
  <2> QED BY <2>2, <2>3, <2>4, <2>5 DEF LineInv, TmcTypes
<1>5. wake \in BOOLEAN
  BY DEF Init, TasksInit
<1> QED BY <1>1, <1>2, <1>3, <1>4, <1>5, OutputInit DEF DriversInv

\* Each driver keeps its own invariant, and no step of another, or of the scheduler
\* they share, disturbs it.
THEOREM DriversInvariance == Spec => []DriversInv
<1>1. Init => DriversInv
  BY DriversInit
<1>2. DriversInv /\ [Next]_vars => DriversInv'
  <2> SUFFICES ASSUME DriversInv, [Next]_vars PROVE DriversInv'
    OBVIOUS
  <2>1. shut \in BOOLEAN
    BY DEF DriversInv, EP!Inv, EP!TypeOK
  <2>2. conf' \in Confs /\ EP!Inv' /\ wake' \in BOOLEAN
    BY EndstopsNext, TaskFlag DEF DriversInv
  <2>3. ProbeInv' /\ AnalogInv'
    BY <2>1, ProbeNext, AnalogStepInv DEF DriversInv
  <2>4. LineInv' /\ OutputInv'
    BY <2>1, LineStepInv, OutputNext DEF DriversInv
  <2> QED BY <2>2, <2>3, <2>4 DEF DriversInv
<1> QED BY <1>1, <1>2, PTL DEF Spec

\* A running endstop has a trsync to trigger and counts the samples the host asked for,
\* in a row: endstop_oversample_event never follows a NULL and never wraps its count,
\* whatever the commands, the samples and the shutdowns before.
THEOREM EndstopsAreReady == Spec => []EndstopsReady
<1>1. DriversInv => EndstopsReady
  <2>1. EP!ConstantsOK
    BY DriversAssumption DEF EP!ConstantsOK
  <2> QED BY <2>1, SameEndstops, EP!InvReady DEF DriversInv, EndstopsReady
<1> QED BY <1>1, DriversInvariance, PTL

\* The level of the bed probe falls only for a touch seen since its detector was last
\* reset, for any lengths of the runs that count as one: what ff_eddy_home_reset
\* forgets, which is all but outrange_count, cannot end the homing after it.
THEOREM ProbeIsTouched == Spec => []ProbeTouched
<1>1. DriversInv => ProbeTouched
  BY DEF DriversInv, ProbeInv, TouchInv, ProbeTouched
<1> QED BY <1>1, DriversInvariance, PTL

\* What analog_in_task reports is a whole round, and bad rounds in a row never reach
\* range_check_count unless the firmware shuts down, for any sample counts, readings
\* and limits.
THEOREM AnalogRoundsAreWhole == Spec => []AnalogRounds
<1>1. DriversInv => AnalogRounds
  BY DEF DriversInv, AnalogInv, CheckInv, AnalogRounds
<1> QED BY <1>1, DriversInvariance, PTL

\* The bits that tmcuart_send_sync_event and tmcuart_send_event put on the line are the
\* frame, and the line is high whenever no request is under way.
THEOREM LineIsTheFrame == Spec => []LineIsFrame
<1>1. DriversInv => LineIsFrame
  BY LineInvFrame DEF DriversInv
<1> QED BY <1>1, DriversInvariance, PTL

\* set_register over RetryAsyncCommand, command_tmcuart_send and the chip: when a call
\* returns the chip took a write of this call and none since, for every number of resends,
\* retries and messages on their way, as long as no call before it gave up.
THEOREM WritesAreTrue == Spec => []WrittenIsTrue
<1>1. Init => WriteInv /\ ShutInv
  BY DEF Init, TasksInit, TmcInit, WriteInv, Believed, RequestInv, PendingInv, AnswerInv,
         CountInv, Writing, NoValue, ShutInv
<1>2. DriversInv /\ WriteInv /\ ShutInv /\ [Next]_vars => WriteInv' /\ ShutInv'
  BY WriteStepInv, ShutStepInv DEF DriversInv
<1>3. WriteInv => WrittenIsTrue
  BY DEF WriteInv, Believed, CountInv, WrittenIsTrue
<1> QED BY <1>1, <1>2, <1>3, DriversInvariance, PTL DEF Spec

\* Each driver's struct has its type, whatever the host asks and whenever the timers run:
\* every counter stays below the limit that acts on it, every queue within the pool and
\* every time within the word.
THEOREM DriversTypeCorrect == Spec => []DriversTypeOK
<1>1. DriversInv => DriversTypeOK
  <2> SUFFICES ASSUME DriversInv PROVE DriversTypeOK
    OBVIOUS
  <2>1. TasksTypeOK /\ E!TypeOK
    BY DEF DriversInv, EP!Inv, EP!TypeOK, EP!EndstopRecord, E!TypeOK, E!EndstopRecord,
       TasksTypeOK
  <2>2. OutputsTypeOK
    BY DEF DriversInv, OutputInv
  <2>3. EddyTypeOK
    BY DEF DriversInv, ProbeInv, EddyTypes, ProbeRecord, EddyTypeOK
  <2>4. AnalogTypeOK
    BY DEF DriversInv, AnalogInv, AnalogRecord, AnalogTypeOK
  <2>5. TmcTypeOK
    <3>1. TmcTypes
      BY DEF DriversInv, LineInv
    <3>2. reg.op \in {"idle", "first", "write", "check"} /\ Len(wire) <= 10
      <4>1. reg \in RegRecord /\ Len(wire) \in 0 .. 10
        BY <3>1 DEF TmcTypes
      <4>2. reg.op \in {"idle", "first", "write", "check"}
        BY <4>1 DEF RegRecord
      <4>3. \A n \in 0 .. 10 : n <= 10
        OBVIOUS
      <4> QED BY <4>1, <4>2, <4>3, Zenon
    <3> QED BY <3>1, <3>2 DEF TmcTypes, TmcRecord, Kinds, TmcTypeOK
  <2> QED BY <2>1, <2>2, <2>3, <2>4, <2>5 DEF DriversTypeOK
<1> QED BY <1>1, DriversInvariance, PTL

\* A pin with a max_duration is never away from its default for longer than that after
\* its last setting, for every duration, cycle and length of the queue and for every
\* width of the clock, which wraps: an update is applied in time or digital_load_event,
\* pwm_end_event or one of the commands shuts down.
THEOREM OutputsAreSafe == Spec => []OutputsSafe
<1>1. DriversInv => OutputsSafe
  BY OutputsHold DEF DriversInv, EP!Inv, EP!TypeOK
<1> QED BY <1>1, DriversInvariance, PTL

\* Every queued update is applied at its own time, though the one timer of the output
\* serves its toggles and its limit too.
THEOREM UpdatesAreOnTime == Spec => []UpdatesOnTime
<1>1. DriversInv => UpdatesOnTime
  BY OutputsHold DEF DriversInv, EP!Inv, EP!TypeOK
<1> QED BY <1>1, DriversInvariance, PTL

-----------------------------------------------------------------------------
(* The main loop.                                                          *)

\* A task that was woken in this round is one that the loop still comes to, or there
\* is a request for another round.
LoopInv ==
  /\ TasksTypeOK /\ LoopTypeOK
  /\ (wake /\ ~cut /\ at \in {"poll", "check", "asleep", "after"}) =>
       tasks_status = "requested"

\* LoopInv is inductive.
LEMMA LoopInductive ==
  LoopInv /\ [LoopNext]_loopvars => LoopInv'
<1> SUFFICES ASSUME LoopInv, [LoopNext]_loopvars PROVE LoopInv'
  OBVIOUS
<1> USE DEF LoopInv, TasksTypeOK, LoopTypeOK
<1>1. CASE Poll BY <1>1 DEF Poll, Goto
<1>2. CASE Check BY <1>2 DEF Check, Goto
<1>3. CASE Awake BY <1>3 DEF Awake, Goto
<1>4. CASE Start BY <1>4 DEF Start, Goto
<1>5. CASE OthersBefore BY <1>5 DEF OthersBefore, Goto
<1>6. CASE RunTask BY <1>6 DEF RunTask, sched_check_wake
<1>7. CASE OthersAfter BY <1>7 DEF OthersAfter, Goto
<1>8. CASE LoopWake BY <1>8 DEF LoopWake, WakeTask, sched_wake_task
<1>9. CASE sched_wake_tasks BY <1>9 DEF sched_wake_tasks
<1>10. CASE LoopShutdown BY <1>10 DEF LoopShutdown, sched_shutdown
<1>11. CASE LoopClear BY <1>11 DEF LoopClear, sched_clear_shutdown
<1>12. CASE UNCHANGED loopvars BY <1>12 DEF loopvars
<1> QED
  BY <1>1, <1>2, <1>3, <1>4, <1>5, <1>6, <1>7, <1>8, <1>9, <1>10, <1>11, <1>12
     DEF LoopNext, LoopStep

\* The main loop never sleeps on a task that was woken, whatever the moment the
\* interrupt came at, unless a shutdown has cut the round short (AsleepNothingWoken).
THEOREM AsleepMeansIdle == LoopSpec => []AsleepNothingWoken
<1>1. TasksInit /\ LoopInit => LoopInv
  BY DEF TasksInit, LoopInit, LoopInv, TasksTypeOK, LoopTypeOK
<1>2. LoopInv => AsleepNothingWoken
  BY DEF LoopInv, AsleepNothingWoken
<1> QED BY <1>1, <1>2, LoopInductive, PTL DEF LoopSpec

-----------------------------------------------------------------------------
(* Buttons: the counts, which are bytes.                                   *)

\* Reduction of a number that is less than two turns away.
LEMMA ByteCases ==
  ASSUME NEW x \in Int, 0 - Byte <= x, x < 3 * Byte
  PROVE  x % Byte = IF x < 0 THEN x + Byte
                    ELSE IF x < Byte THEN x
                    ELSE IF x < 2 * Byte THEN x - Byte ELSE x - 2 * Byte
BY ButtonsAssumption

\* How far the count a is behind the count h.
Gap(h, a) == (h - a) % Byte

\* A gap is less than a turn, and is what it is of two numbers.
LEMMA GapCases ==
  ASSUME NEW h \in 0 .. Byte - 1, NEW a \in 0 .. Byte - 1
  PROVE  /\ Gap(h, a) \in 0 .. Byte - 1
         /\ Gap(h, a) = IF h < a THEN h - a + Byte ELSE h - a
<1>1. h - a \in Int /\ 0 - Byte <= h - a /\ h - a < Byte /\ Byte \in Nat
  BY ButtonsAssumption
<1>2. (h - a) % Byte = IF h - a < 0 THEN h - a + Byte ELSE h - a
  BY <1>1, ByteCases
<1>3. (h - a) % Byte \in 0 .. Byte - 1
  BY <1>1, <1>2
<1> QED BY <1>1, <1>2, <1>3 DEF Gap

\* A gap is a number.
LEMMA GapType ==
  ASSUME NEW h \in 0 .. Byte - 1, NEW a \in 0 .. Byte - 1
  PROVE  Gap(h, a) \in Nat /\ Gap(h, a) < Byte
BY GapCases, ButtonsAssumption

\* The firmware counts on: the gap closes.
LEMMA GapCloses ==
  ASSUME NEW h \in 0 .. Byte - 1, NEW a \in 0 .. Byte - 1, NEW c \in Nat,
         c <= Gap(h, a)
  PROVE  /\ (a + c) % Byte \in 0 .. Byte - 1
         /\ Gap(h, (a + c) % Byte) = Gap(h, a) - c
<1> DEFINE x == (a + c) % Byte
<1>1. Gap(h, a) \in 0 .. Byte - 1 /\ Gap(h, a) = IF h < a THEN h - a + Byte ELSE h - a
  BY GapCases
<1>2. a + c \in Int /\ 0 - Byte <= a + c /\ a + c < 2 * Byte
  BY <1>1, ButtonsAssumption
<1>3. x = IF a + c < Byte THEN a + c ELSE a + c - Byte
  BY <1>2, ByteCases, ButtonsAssumption
<1>4. x \in 0 .. Byte - 1
  BY <1>1, <1>2, <1>3, ButtonsAssumption
<1> HIDE DEF x
<1>5. Gap(h, x) = IF h < x THEN h - x + Byte ELSE h - x
  BY <1>4, GapCases
<1>6. Gap(h, x) = Gap(h, a) - c
  BY <1>1, <1>3, <1>4, <1>5, ButtonsAssumption
<1> QED BY <1>4, <1>6 DEF x

\* The host counts on: the gap opens.
LEMMA GapOpens ==
  ASSUME NEW h \in 0 .. Byte - 1, NEW a \in 0 .. Byte - 1, NEW c \in Nat,
         Gap(h, a) + c < Byte
  PROVE  /\ (h + c) % Byte \in 0 .. Byte - 1
         /\ Gap((h + c) % Byte, a) = Gap(h, a) + c
<1> DEFINE x == (h + c) % Byte
<1>1. Gap(h, a) \in 0 .. Byte - 1 /\ Gap(h, a) = IF h < a THEN h - a + Byte ELSE h - a
  BY GapCases
<1>2. h + c \in Int /\ 0 - Byte <= h + c /\ h + c < 2 * Byte
  BY <1>1, ButtonsAssumption
<1>3. x = IF h + c < Byte THEN h + c ELSE h + c - Byte
  BY <1>2, ByteCases, ButtonsAssumption
<1>4. x \in 0 .. Byte - 1
  BY <1>1, <1>2, <1>3, ButtonsAssumption
<1> HIDE DEF x
<1>5. Gap(x, a) = IF x < a THEN x - a + Byte ELSE x - a
  BY <1>4, GapCases
<1>6. Gap(x, a) = Gap(h, a) + c
  BY <1>1, <1>3, <1>4, <1>5, ButtonsAssumption
<1> QED BY <1>4, <1>6 DEF x

\* What is behind the gap is numbered on from the host's count.
LEMMA NumberBehind ==
  ASSUME NEW h \in 0 .. Byte - 1, NEW a \in 0 .. Byte - 1, NEW k \in 0 .. Byte - 1
  PROVE  (a + Gap(h, a) + k) % Byte = (h + k) % Byte
<1>1. a + Gap(h, a) = h \/ a + Gap(h, a) = h + Byte
  <2>1. Gap(h, a) = IF h < a THEN h - a + Byte ELSE h - a
    BY GapCases
  <2> QED BY <2>1, ButtonsAssumption
<1>2. (h + k) % Byte = IF h + k < Byte THEN h + k ELSE h + k - Byte
  BY ByteCases, ButtonsAssumption
<1>3. (h + Byte + k) % Byte = IF h + k < Byte THEN h + k ELSE h + k - Byte
  BY ByteCases, ButtonsAssumption
<1> QED BY <1>1, <1>2, <1>3

\* Counts add up.
LEMMA NumberOn ==
  ASSUME NEW a \in 0 .. Byte - 1, NEW c \in 0 .. Byte - 1, NEW k \in 0 .. Byte - 1
  PROVE  (((a + c) % Byte) + k) % Byte = (a + c + k) % Byte
<1>1. (a + c) % Byte = IF a + c < Byte THEN a + c ELSE a + c - Byte
  BY ByteCases, ButtonsAssumption
<1>2. (a + c + k) % Byte = IF a + c + k < Byte THEN a + c + k
                           ELSE IF a + c + k < 2 * Byte THEN a + c + k - Byte
                           ELSE a + c + k - 2 * Byte
  BY ByteCases, ButtonsAssumption
<1>3. CASE a + c < Byte
  BY <1>1, <1>3
<1>4. CASE a + c >= Byte
  <2>1. (a + c - Byte + k) % Byte = IF a + c + k < 2 * Byte THEN a + c + k - Byte
                                    ELSE a + c + k - 2 * Byte
    BY <1>4, ByteCases, ButtonsAssumption
  <2> QED BY <1>1, <1>2, <1>4, <2>1, ButtonsAssumption
<1> QED BY <1>3, <1>4, ButtonsAssumption

-----------------------------------------------------------------------------
(* Acknowledgements on their way.                                          *)

\* The acknowledgements in d add up to n.  The witness has what is still to come from
\* each of them on.
Owes(d, n) ==
  \E f \in [1 .. Len(d) + 1 -> Nat] :
    /\ f[1] = n /\ f[Len(d) + 1] = 0
    /\ \A k \in 1 .. Len(d) : d[k] > 0 /\ f[k] = d[k] + f[k + 1]

\* None are on their way.
LEMMA OwesNothing == Owes(<<>>, 0)
<1> DEFINE f == [k \in 1 .. 1 |-> 0]
<1>1. Len(<<>>) = 0
  OBVIOUS
<1>2. f \in [1 .. 1 -> Nat] /\ f[1] = 0
  OBVIOUS
<1> HIDE DEF f
<1>3. \E g \in [1 .. 0 + 1 -> Nat] : g[1] = 0 /\ g[0 + 1] = 0
  BY <1>2
<1> QED BY <1>1, <1>3 DEF Owes

\* The host sends one more.
LEMMA OwesMore ==
  ASSUME NEW d \in Seq(Nat), NEW n \in Nat, Owes(d, n), NEW c \in Nat, c > 0
  PROVE  Owes(Append(d, c), n + c)
<1>1. PICK f \in [1 .. Len(d) + 1 -> Nat] :
        /\ f[1] = n /\ f[Len(d) + 1] = 0
        /\ \A k \in 1 .. Len(d) : d[k] > 0 /\ f[k] = d[k] + f[k + 1]
  BY DEF Owes
<1> DEFINE e == Append(d, c)
           g == [k \in 1 .. Len(e) + 1 |-> IF k <= Len(d) + 1 THEN f[k] + c ELSE 0]
<1>2. Len(e) = Len(d) + 1 /\ Len(d) \in Nat /\ e[Len(d) + 1] = c
  OBVIOUS
<1>3. \A k \in 1 .. Len(d) : e[k] = d[k] /\ d[k] \in Nat
  OBVIOUS
<1>4. g \in [1 .. Len(e) + 1 -> Nat]
  BY <1>1, <1>2
<1>5. g[1] = n + c /\ g[Len(e) + 1] = 0
  BY <1>1, <1>2
<1>6. \A k \in 1 .. Len(e) : e[k] > 0 /\ g[k] = e[k] + g[k + 1]
  <2> TAKE k \in 1 .. Len(e)
  <2>1. CASE k \in 1 .. Len(d)
    <3>1. g[k] = f[k] + c /\ g[k + 1] = f[k + 1] + c
      BY <1>2, <2>1
    <3>2. k + 1 \in 1 .. Len(d) + 1 /\ k \in 1 .. Len(d) + 1
      BY <1>2, <2>1
    <3>3. f[k + 1] \in Nat /\ d[k] > 0 /\ f[k] = d[k] + f[k + 1]
      <4> HIDE DEF e, g
      <4> QED BY <1>1, <2>1, <3>2
    <3>4. e[k] = d[k] /\ d[k] \in Nat
      BY <1>3, <2>1
    <3> HIDE DEF e, g
    <3> QED BY <3>1, <3>3, <3>4
  <2>2. CASE k = Len(d) + 1
    <3>1. g[k] = c /\ g[k + 1] = 0
      BY <1>1, <1>2, <2>2
    <3> QED BY <1>2, <2>2, <3>1
  <2> QED BY <1>2, <2>1, <2>2
<1> HIDE DEF e, g
<1>7. Owes(e, n + c)
  BY <1>4, <1>5, <1>6 DEF Owes
<1> QED BY <1>7 DEF e

\* The firmware takes the first.
LEMMA OwesLess ==
  ASSUME NEW d \in Seq(Nat), NEW n \in Nat, Owes(d, n), d # <<>>
  PROVE  /\ Head(d) \in Nat /\ Head(d) > 0 /\ Head(d) <= n
         /\ Tail(d) \in Seq(Nat) /\ Owes(Tail(d), n - Head(d))
<1>1. PICK f \in [1 .. Len(d) + 1 -> Nat] :
        /\ f[1] = n /\ f[Len(d) + 1] = 0
        /\ \A k \in 1 .. Len(d) : d[k] > 0 /\ f[k] = d[k] + f[k + 1]
  BY DEF Owes
<1> DEFINE e == Tail(d)
           g == [k \in 1 .. Len(e) + 1 |-> f[k + 1]]
<1>2. /\ e \in Seq(Nat) /\ Len(e) = Len(d) - 1 /\ Len(d) \in Nat /\ Len(d) >= 1
      /\ Head(d) = d[1] /\ d[1] \in Nat
  OBVIOUS
<1>3. \A k \in 1 .. Len(e) : e[k] = d[k + 1]
  OBVIOUS
<1>4. g \in [1 .. Len(e) + 1 -> Nat]
  BY <1>1, <1>2
<1>5. d[1] > 0 /\ n = d[1] + f[2] /\ f[2] \in Nat
  BY <1>1, <1>2
<1>6. g[1] = n - Head(d) /\ g[Len(e) + 1] = 0
  BY <1>1, <1>2, <1>5
<1>7. \A k \in 1 .. Len(e) : e[k] > 0 /\ g[k] = e[k] + g[k + 1]
  <2> TAKE k \in 1 .. Len(e)
  <2>1. k + 1 \in 1 .. Len(d) /\ k + 1 \in 1 .. Len(e) + 1
    BY <1>2
  <2>2. d[k + 1] > 0 /\ f[k + 1] = d[k + 1] + f[k + 1 + 1]
    BY <1>1, <2>1
  <2>3. g[k] = f[k + 1] /\ g[k + 1] = f[k + 1 + 1]
    BY <1>2, <2>1
  <2> HIDE DEF e, g
  <2> QED BY <1>3, <2>2, <2>3
<1> HIDE DEF e, g
<1>8. Owes(e, n - Head(d))
  BY <1>4, <1>6, <1>7 DEF Owes
<1> QED BY <1>2, <1>5, <1>8 DEF e
-----------------------------------------------------------------------------
(* What the host makes of the reports.                                     *)

\* A message on its way to the host.
MessageRecord == [ack_count : 0 .. Byte - 1, fresh : BOOLEAN, state : Seq(ReportRecord)]

\* The structs of the firmware and of the host.
BtnRecord ==
  [ time : BOOLEAN, pressed : SUBSET Pins, last_pressed : SUBSET Pins,
    reports : Seq(ReportRecord),
    ack_count : 0 .. Byte - 1, retransmit_state : 0 .. Byte - 1 ]
HostRecord == [ack_count : 0 .. Byte - 1, last_button : SUBSET Pins]

\* Messages, none of them empty.
UpOK(u) ==
  u \in Seq(MessageRecord) /\ \A i \in 1 .. Len(u) : Len(u[i].state) \in 1 .. MaxReports

\* What is in the variables.
ButtonsTypes ==
  /\ btn \in BtnRecord
  /\ sending \in Nat /\ sending <= Len(btn.reports) /\ Len(btn.reports) <= MaxReports
  /\ UpOK(up) /\ down \in Seq(Nat) /\ hbtn \in HostRecord
  /\ made \in 0 .. Byte - 1 /\ missed \in BOOLEAN /\ early \in BOOLEAN
  /\ session \in {"none", "config", "asked", "queried"}

\* A message of this session as the host h finds it: its ack_count is behind the host's
\* by no more than a buffer of reports, nothing in it is newer than what the firmware
\* b has made, and what is in the buffer still is there with the same number.
MessageOK(m, b, h) ==
  LET lag == Gap(h.ack_count, m.ack_count)
      lead == Gap(h.ack_count, b.ack_count)
  IN  /\ lead <= lag /\ lag <= MaxReports
      /\ Len(m.state) - lag <= Len(b.reports) - lead
      /\ \A j \in 1 .. Len(m.state) : m.state[j].n = (m.ack_count + j - 1) % Byte
      /\ \A j \in 1 .. Len(m.state) :
           j > lag - lead => m.state[j] = b.reports[j - (lag - lead)]

\* Messages of the session are read in the order of their counts.
InSequence(u, h) ==
  \A i, j \in 1 .. Len(u) :
    (i < j /\ u[i].fresh /\ u[j].fresh) =>
      Gap(h.ack_count, u[j].ack_count) <= Gap(h.ack_count, u[i].ack_count)

\* The host's count leads the firmware's by the acknowledgements on their way; the
\* buffer is numbered from the firmware's count on.
CountsAgree(b, d, h, m) ==
  /\ Gap(h.ack_count, b.ack_count) <= Len(b.reports)
  /\ Owes(d, Gap(h.ack_count, b.ack_count))
  /\ \A i \in 1 .. Len(b.reports) : b.reports[i].n = (b.ack_count + i - 1) % Byte
  /\ m = (b.ack_count + Len(b.reports)) % Byte

\* The host's idea of the buttons is the last report it has read; the last report made
\* is the state of the buttons, unless it found no room.
StatesAgree(b, h, x) ==
  LET lead == Gap(h.ack_count, b.ack_count)
  IN  /\ lead > 0 => h.last_button = b.reports[lead].pressed
      /\ ~x => b.pressed = IF b.reports = <<>> THEN h.last_button
                           ELSE b.reports[Len(b.reports)].pressed

\* What the host and the firmware know of each other once the query has run.
Heard(b, u, d, h, m, x) ==
  /\ CountsAgree(b, d, h, m)
  /\ \A i \in 1 .. Len(u) : u[i].fresh => MessageOK(u[i], b, h)
  /\ InSequence(u, h)
  /\ StatesAgree(b, h, x)

\* Before the query has run no message is one of the session; a host that has not lost
\* count has then heard of nothing.
Waiting ==
  /\ session = "none" => /\ ~btn.time /\ btn.reports = <<>>
                         /\ up = <<>> /\ down = <<>>
  /\ session # "queried" => \A i \in 1 .. Len(up) : ~up[i].fresh
  /\ (session \in {"config", "asked"} /\ ~early) =>
       /\ hbtn = [ack_count |-> 0, last_button |-> Invert]
       /\ down = IF session = "config" THEN <<>> ELSE <<Query>>

\* The inductive invariant.
ButtonsInv ==
  /\ ButtonsTypes /\ Waiting
  /\ (session = "queried" /\ ~early) => Heard(btn, up, down, hbtn, made, missed)

\* The firmware sends the first n reports of its buffer.
LEMMA HeardSend ==
  ASSUME NEW b \in BtnRecord, Len(b.reports) <= MaxReports,
         NEW u, UpOK(u), NEW d, NEW h \in HostRecord, NEW m, NEW x,
         Heard(b, u, d, h, m, x), NEW n \in 1 .. Len(b.reports), NEW f \in BOOLEAN
  PROVE  LET msg == [ack_count |-> b.ack_count, fresh |-> f,
                     state |-> SubSeq(b.reports, 1, n)]
         IN  UpOK(Append(u, msg)) /\ Heard(b, Append(u, msg), d, h, m, x)
<1> DEFINE msg == [ack_count |-> b.ack_count, fresh |-> f,
                   state |-> SubSeq(b.reports, 1, n)]
           v == Append(u, msg)
<1>1. /\ b.reports \in Seq(ReportRecord) /\ b.ack_count \in 0 .. Byte - 1
      /\ h.ack_count \in 0 .. Byte - 1 /\ u \in Seq(MessageRecord)
  BY DEF BtnRecord, HostRecord, UpOK
<1>2. Len(b.reports) \in Nat /\ Len(u) \in Nat /\ Byte \in Nat /\ MaxReports \in Nat
  BY <1>1, ButtonsAssumption
<1>3. /\ msg.state \in Seq(ReportRecord) /\ Len(msg.state) = n
      /\ \A j \in 1 .. n : msg.state[j] = b.reports[j]
  BY <1>1
<1>4. msg \in MessageRecord /\ msg.ack_count = b.ack_count
  BY <1>1, <1>3 DEF MessageRecord
<1> HIDE DEF msg
<1>5. /\ v \in Seq(MessageRecord) /\ v[Len(u) + 1] = msg
      /\ \A i \in 1 .. Len(u) : v[i] = u[i]
  BY <1>1, <1>4
<1>6. Len(v) = Len(u) + 1
  BY <1>1, <1>4
<1> HIDE DEF v
<1>7. \A i \in 1 .. Len(v) : i \in 1 .. Len(u) \/ i = Len(u) + 1
  BY <1>2, <1>6
<1>8. UpOK(v)
  <2>1. n \in 1 .. MaxReports
    BY <1>2
  <2> QED BY <1>3, <1>5, <1>7, <2>1 DEF UpOK
<1>9. Gap(h.ack_count, b.ack_count) \in Nat
  BY <1>1, GapType
<1>10. MessageOK(msg, b, h)
  <2> DEFINE lead == Gap(h.ack_count, b.ack_count)
  <2>1. lead <= MaxReports /\ n - lead <= Len(b.reports) - lead /\ lead <= lead
    <3>1. lead <= Len(b.reports)
      BY DEF Heard, CountsAgree
    <3> HIDE DEF lead
    <3> QED BY <1>2, <1>9, <3>1 DEF lead
  <2>2. \A j \in 1 .. n : j \in 1 .. Len(b.reports) /\ j - (lead - lead) = j
    BY <1>2, <1>9
  <2>3. \A j \in 1 .. n : msg.state[j].n = (b.ack_count + j - 1) % Byte
    BY <1>3, <2>2 DEF Heard, CountsAgree
  <2>4. \A j \in 1 .. n : msg.state[j] = b.reports[j - (lead - lead)]
    BY <1>3, <2>2
  <2> QED BY <1>3, <1>4, <2>1, <2>3, <2>4 DEF MessageOK
<1>11. \A i \in 1 .. Len(v) : v[i].fresh => MessageOK(v[i], b, h)
  BY <1>5, <1>10, <1>7 DEF Heard
<1>12. InSequence(v, h)
  <2> SUFFICES ASSUME NEW i \in 1 .. Len(v), NEW j \in 1 .. Len(v), i < j,
                      v[i].fresh, v[j].fresh
               PROVE  Gap(h.ack_count, v[j].ack_count) <= Gap(h.ack_count, v[i].ack_count)
    BY DEF InSequence
  <2>1. i \in 1 .. Len(u)
    BY <1>2, <1>6
  <2>2. i \in 1 .. Len(u) /\ v[i] = u[i]
    BY <1>5, <2>1
  <2>3. CASE j \in 1 .. Len(u)
    BY <1>5, <2>2, <2>3 DEF Heard, InSequence
  <2>4. CASE j = Len(u) + 1
    <3>1. MessageOK(u[i], b, h)
      BY <2>2 DEF Heard
    <3> QED BY <1>4, <1>5, <2>2, <2>4, <3>1 DEF MessageOK
  <2> QED BY <1>7, <2>3, <2>4
<1>13. Heard(b, v, d, h, m, x)
  BY <1>11, <1>12 DEF Heard
<1> QED BY <1>8, <1>13 DEF v, msg

\* The firmware makes a report, for which there is room.
LEMMA HeardReport ==
  ASSUME NEW b \in BtnRecord, NEW c \in BtnRecord, Len(b.reports) < MaxReports,
         NEW u, UpOK(u), NEW d, NEW h \in HostRecord, NEW m \in 0 .. Byte - 1, NEW x,
         Heard(b, u, d, h, m, x),
         c.ack_count = b.ack_count,
         Len(c.reports) = Len(b.reports) + 1, c.reports # <<>>,
         c.reports[Len(b.reports) + 1] = [n |-> m, pressed |-> c.pressed],
         \A i \in 1 .. Len(b.reports) : c.reports[i] = b.reports[i]
  PROVE  Heard(c, u, d, h, (m + 1) % Byte, FALSE)
<1>1. /\ b.reports \in Seq(ReportRecord) /\ b.ack_count \in 0 .. Byte - 1
      /\ h.ack_count \in 0 .. Byte - 1 /\ u \in Seq(MessageRecord)
      /\ c.pressed \in SUBSET Pins
  BY DEF BtnRecord, HostRecord, UpOK
<1> DEFINE r == [n |-> m, pressed |-> c.pressed]
           k == Len(b.reports)
           lead == Gap(h.ack_count, b.ack_count)
<1>2. r \in ReportRecord /\ r.n = m /\ r.pressed = c.pressed
  BY <1>1 DEF ReportRecord
<1> HIDE DEF r
<1>3. c.reports[k + 1] = r /\ \A i \in 1 .. k : c.reports[i] = b.reports[i]
  BY DEF r
<1>4. Len(c.reports) = k + 1
  OBVIOUS
<1>5. k \in Nat /\ k < MaxReports /\ MaxReports \in Nat /\ Byte \in Nat
  BY <1>1, ButtonsAssumption
<1> HIDE DEF k
<1>6. lead \in Nat /\ lead <= k
  <2>1. lead \in Nat
    BY <1>1, GapType
  <2> QED BY <2>1 DEF Heard, CountsAgree, k
<1> HIDE DEF lead
<1>7. b.ack_count \in Nat
  BY <1>1, <1>5
<1>8. CountsAgree(c, d, h, (m + 1) % Byte)
  <2>1. m = (b.ack_count + k) % Byte
    BY DEF Heard, CountsAgree, k
  <2>2. (m + 1) % Byte = (b.ack_count + k + 1) % Byte
    <3>1. k \in 0 .. Byte - 1 /\ 1 \in 0 .. Byte - 1
      BY <1>5, ButtonsAssumption
    <3>2. (((b.ack_count + k) % Byte) + 1) % Byte = (b.ack_count + k + 1) % Byte
      BY <1>1, <3>1, NumberOn
    <3> QED BY <2>1, <3>2
  <2>3. \A i \in 1 .. Len(c.reports) : c.reports[i].n = (b.ack_count + i - 1) % Byte
    <3> TAKE i \in 1 .. Len(c.reports)
    <3>1. CASE i \in 1 .. k
      BY <1>3, <3>1 DEF Heard, CountsAgree, k
    <3>2. CASE i = k + 1
      <4>1. b.ack_count + (k + 1) - 1 = b.ack_count + k
        BY <1>5, <1>7
      <4> QED BY <1>2, <1>3, <2>1, <3>2, <4>1
    <3> QED BY <1>5, <1>4, <3>1, <3>2
  <2>4. (b.ack_count + k + 1) % Byte = (c.ack_count + Len(c.reports)) % Byte
    <3>1. b.ack_count + k + 1 = c.ack_count + Len(c.reports)
      BY ONLY <1>5, <1>4, <1>7, c.ack_count = b.ack_count
    <3> QED BY <3>1
  <2>5. Gap(h.ack_count, c.ack_count) <= Len(c.reports) /\ Owes(d, Gap(h.ack_count, c.ack_count))
    BY <1>5, <1>4, <1>6 DEF Heard, CountsAgree, lead
  <2> QED BY <2>2, <2>3, <2>4, <2>5 DEF CountsAgree
<1>9. \A i \in 1 .. Len(u) : u[i].fresh => MessageOK(u[i], c, h)
  <2> SUFFICES ASSUME NEW i \in 1 .. Len(u), u[i].fresh
               PROVE  MessageOK(u[i], c, h)
    OBVIOUS
  <2> DEFINE w == u[i]
             lag == Gap(h.ack_count, w.ack_count)
  <2>1. w.state \in Seq(ReportRecord) /\ Len(w.state) \in Nat /\ w.ack_count \in 0 .. Byte - 1
    <3>1. w \in MessageRecord
      BY <1>1
    <3> HIDE DEF w
    <3> QED BY <3>1 DEF MessageRecord
  <2>2. MessageOK(w, b, h)
    BY DEF Heard
  <2>3. lag \in Nat
    BY <1>1, <2>1, GapType
  <2>4. Len(w.state) - lag <= k - lead /\ Len(w.state) \in Nat
    BY <2>1, <2>2 DEF MessageOK, k, lead
  <2> HIDE DEF w, lag
  <2>5. \A j \in 1 .. Len(w.state) :
          j > lag - lead => w.state[j] = c.reports[j - (lag - lead)]
    <3> TAKE j \in 1 .. Len(w.state)
    <3> HAVE j > lag - lead
    <3>1. j - (lag - lead) \in 1 .. k
      BY ONLY <1>5, <1>6, <2>4, <2>3, j \in 1 .. Len(w.state), j > lag - lead
    <3>2. w.state[j] = b.reports[j - (lag - lead)]
      BY <2>2 DEF MessageOK, lag, lead
    <3> QED BY <1>3, <3>1, <3>2
  <2>6. Len(w.state) - lag <= Len(c.reports) - lead
    BY ONLY <1>5, <1>4, <1>6, <2>4, <2>3
  <2>7. MessageOK(w, c, h)
    BY <2>2, <2>5, <2>6 DEF MessageOK, lag, lead
  <2> QED BY <2>7 DEF w
<1>10. StatesAgree(c, h, FALSE)
  <2>1. lead > 0 => h.last_button = c.reports[lead].pressed
    <3> HAVE lead > 0
    <3>1. lead \in 1 .. k
      BY <1>5, <1>6
    <3>2. h.last_button = b.reports[lead].pressed
      BY DEF Heard, StatesAgree, lead
    <3> QED BY <1>3, <3>1, <3>2
  <2> QED BY <1>2, <1>3, <1>4, <2>1 DEF StatesAgree, lead
<1> QED BY <1>8, <1>9, <1>10 DEF Heard

\* The firmware takes the first acknowledgement, which drops the reports it counts.
LEMMA HeardAck ==
  ASSUME NEW b \in BtnRecord, NEW c \in BtnRecord, Len(b.reports) <= MaxReports,
         NEW u, UpOK(u), NEW d, NEW e, NEW h \in HostRecord,
         NEW m, NEW x, Heard(b, u, d, h, m, x),
         NEW q \in Nat, q > 0, q <= Gap(h.ack_count, b.ack_count),
         Owes(e, Gap(h.ack_count, b.ack_count) - q),
         c.ack_count = (b.ack_count + q) % Byte, c.pressed = b.pressed,
         Len(c.reports) = Len(b.reports) - q,
         \A i \in 1 .. Len(b.reports) - q : c.reports[i] = b.reports[i + q]
  PROVE  Heard(c, u, e, h, m, x)
<1> DEFINE lead == Gap(h.ack_count, b.ack_count)
           k == Len(b.reports)
<1>1. /\ b.reports \in Seq(ReportRecord) /\ b.ack_count \in 0 .. Byte - 1
      /\ h.ack_count \in 0 .. Byte - 1 /\ u \in Seq(MessageRecord)
      /\ c.reports \in Seq(ReportRecord)
  BY DEF BtnRecord, HostRecord, UpOK
<1>2. /\ k \in Nat /\ k <= MaxReports /\ MaxReports \in Nat /\ Byte \in Nat
      /\ MaxReports < Byte /\ k - q = Len(c.reports)
  <2>1. k \in Nat /\ k <= MaxReports /\ k - q = Len(c.reports)
    BY <1>1
  <2>2. MaxReports < Byte
    BY ONLY ButtonsAssumption
  <2> QED BY <2>1, <2>2, ButtonsAssumption
<1>3. b.ack_count \in Nat /\ q \in Nat /\ q > 0
  BY <1>1, <1>2
<1>4. lead \in Nat /\ lead <= k /\ lead < Byte
  <2>1. lead \in Nat /\ lead < Byte
    BY <1>1, GapType
  <2> QED BY <2>1 DEF Heard, CountsAgree
<1>5. q <= lead /\ Owes(e, lead - q)
  OBVIOUS
<1>6. Gap(h.ack_count, c.ack_count) = lead - q
  BY <1>1, <1>5, GapCloses
<1>7. \A i \in 1 .. k - q : c.reports[i] = b.reports[i + q]
  OBVIOUS
<1>8. k - q \in Nat /\ lead - q \in Nat
  BY ONLY <1>2, <1>3, <1>4, <1>5
<1> HIDE DEF k, lead
<1>9. CountsAgree(c, e, h, m)
  <2>1. q \in 0 .. Byte - 1
    BY ONLY <1>2, <1>3, <1>4, <1>5
  <2>2. \A i \in 1 .. Len(c.reports) : c.reports[i].n = (c.ack_count + i - 1) % Byte
    <3> SUFFICES ASSUME NEW i \in 1 .. k - q
                 PROVE  c.reports[i].n = (c.ack_count + i - 1) % Byte
      BY <1>2
    <3>1. i + q \in 1 .. k /\ i - 1 \in 0 .. Byte - 1
      BY ONLY <1>2, <1>3, <1>8, i \in 1 .. k - q
    <3>2. c.reports[i].n = (b.ack_count + (i + q) - 1) % Byte
      BY <1>7, <3>1 DEF Heard, CountsAgree, k
    <3>3. (((b.ack_count + q) % Byte) + (i - 1)) % Byte = (b.ack_count + q + (i - 1)) % Byte
      BY <1>1, <2>1, <3>1, NumberOn
    <3>4. c.ack_count \in Nat
      BY <1>2 DEF BtnRecord
    <3>5. c.ack_count + i - 1 = c.ack_count + (i - 1)
      BY ONLY <1>2, <1>3, <3>4, i \in 1 .. k - q
    <3>6. b.ack_count + (i + q) - 1 = b.ack_count + q + (i - 1)
      BY ONLY <1>2, <1>3, i \in 1 .. k - q
    <3> QED BY <3>2, <3>3, <3>5, <3>6
  <2>3. m = (c.ack_count + Len(c.reports)) % Byte
    <3>1. m = (b.ack_count + k) % Byte
      BY DEF Heard, CountsAgree, k
    <3>2. k - q \in 0 .. Byte - 1 /\ b.ack_count + q + (k - q) = b.ack_count + k
      BY ONLY <1>2, <1>3, <1>8
    <3>3. (((b.ack_count + q) % Byte) + (k - q)) % Byte = (b.ack_count + q + (k - q)) % Byte
      BY <1>1, <2>1, <3>2, NumberOn
    <3> QED BY <1>2, <3>1, <3>2, <3>3
  <2>4. lead - q <= k - q
    BY ONLY <1>2, <1>3, <1>4
  <2> QED BY <1>2, <1>5, <1>6, <2>2, <2>3, <2>4 DEF CountsAgree
<1>10. \A i \in 1 .. Len(u) : u[i].fresh => MessageOK(u[i], c, h)
  <2> SUFFICES ASSUME NEW w \in MessageRecord, MessageOK(w, b, h)
               PROVE  MessageOK(w, c, h)
    BY <1>1 DEF Heard
  <2> DEFINE lag == Gap(h.ack_count, w.ack_count)
             l == Len(w.state)
  <2>1. w.state \in Seq(ReportRecord) /\ w.ack_count \in 0 .. Byte - 1
    BY DEF MessageRecord
  <2>2. lag \in Nat
    BY <1>1, <2>1, GapType
  <2>3. l \in Nat
    BY <2>1
  <2>4. lag \in Nat /\ l \in Nat
    BY ONLY <2>2, <2>3
  <2>5. lead <= lag /\ l - lag <= k - lead
    BY DEF MessageOK, lead, k
  <2> HIDE DEF lag, l
  <2>6. \A j \in 1 .. l :
          j > lag - (lead - q) => w.state[j] = c.reports[j - (lag - (lead - q))]
    <3> SUFFICES ASSUME NEW j \in 1 .. l, j > lag - (lead - q)
                 PROVE  w.state[j] = c.reports[j - (lag - (lead - q))]
      OBVIOUS
    <3> DEFINE p == j - (lag - (lead - q))
    <3>1. p \in 1 .. k - q /\ j > lag - lead /\ p + q = j - (lag - lead)
      BY ONLY <1>2, <1>3, <1>4, <1>5, <2>4, <2>5, j \in 1 .. l, j > lag - (lead - q)
    <3>2. w.state[j] = b.reports[j - (lag - lead)]
      BY <3>1 DEF MessageOK, lag, lead, l
    <3> HIDE DEF p
    <3>3. w.state[j] = c.reports[p]
      BY <1>7, <3>1, <3>2
    <3> QED BY <3>3 DEF p
  <2>7. l - lag <= (k - q) - (lead - q) /\ lead - q <= lag
    BY ONLY <1>2, <1>3, <1>4, <1>5, <2>4, <2>5
  <2>8. \A j \in 1 .. l : w.state[j].n = (w.ack_count + j - 1) % Byte
    BY DEF MessageOK, l
  <2>9. lag <= MaxReports
    BY DEF MessageOK, lag
  <2> QED BY <1>2, <1>6, <2>6, <2>7, <2>8, <2>9 DEF MessageOK, lag, l
<1>11. StatesAgree(c, h, x)
  <2>1. lead - q > 0 => h.last_button = c.reports[lead - q].pressed
    <3> HAVE lead - q > 0
    <3>1. lead - q \in 1 .. k - q /\ lead - q + q = lead /\ lead > 0
      BY ONLY <1>2, <1>3, <1>4, <1>5, lead - q > 0
    <3>2. h.last_button = b.reports[lead].pressed
      BY <3>1 DEF Heard, StatesAgree, lead
    <3> QED BY <1>7, <3>1, <3>2
  <2>2. ~x => b.pressed = b.reports[k].pressed
    <3>1. k > 0
      BY ONLY <1>2, <1>3, <1>4, <1>5
    <3>2. b.reports # <<>>
      BY <3>1 DEF k
    <3> QED BY <3>2 DEF Heard, StatesAgree, k
  <2>3. CASE c.reports = <<>>
    <3>1. k - q = 0
      BY <1>2, <2>3
    <3>2. lead = k /\ lead > 0
      BY ONLY <1>2, <1>3, <1>4, <1>5, <3>1
    <3>3. h.last_button = b.reports[k].pressed
      BY <3>2 DEF Heard, StatesAgree, lead
    <3> QED BY <1>6, <2>1, <2>2, <2>3, <3>3 DEF StatesAgree
  <2>4. CASE c.reports # <<>>
    <3>1. k - q # 0
      BY <1>1, <1>2, <2>4
    <3>2. k - q \in 1 .. k - q /\ k - q + q = k
      BY ONLY <1>2, <1>3, <1>8, <3>1
    <3>3. c.reports[Len(c.reports)] = b.reports[k]
      BY <1>2, <1>7, <3>2
    <3> QED BY <1>6, <2>1, <2>2, <2>4, <3>3 DEF StatesAgree
  <2> QED BY <2>3, <2>4
<1> QED BY <1>9, <1>10, <1>11 DEF Heard

\* A message is read without effect.
LEMMA HeardSkip ==
  ASSUME NEW b, NEW u, UpOK(u), u # <<>>, NEW d, NEW h, NEW m, NEW x,
         Heard(b, u, d, h, m, x)
  PROVE  UpOK(Tail(u)) /\ Heard(b, Tail(u), d, h, m, x)
<1> DEFINE v == Tail(u)
<1>1. u \in Seq(MessageRecord) /\ \A i \in 1 .. Len(u) : Len(u[i].state) \in 1 .. MaxReports
  BY DEF UpOK
<1>2. v \in Seq(MessageRecord) /\ \A i \in 1 .. Len(v) : v[i] = u[i + 1]
  BY <1>1
<1>3. Len(v) = Len(u) - 1 /\ Len(u) \in Nat
  BY <1>1
<1> HIDE DEF v
<1>4. \A i \in 1 .. Len(v) : i + 1 \in 1 .. Len(u)
  BY <1>3
<1>5. UpOK(v)
  BY <1>1, <1>2, <1>4 DEF UpOK
<1>6. \A i \in 1 .. Len(v) : v[i].fresh => MessageOK(v[i], b, h)
  BY <1>2, <1>4 DEF Heard
<1>7. InSequence(v, h)
  <2> SUFFICES ASSUME NEW i \in 1 .. Len(v), NEW j \in 1 .. Len(v), i < j,
                      v[i].fresh, v[j].fresh
               PROVE  Gap(h.ack_count, v[j].ack_count) <= Gap(h.ack_count, v[i].ack_count)
    BY DEF InSequence
  <2>1. i + 1 < j + 1 /\ i + 1 \in 1 .. Len(u) /\ j + 1 \in 1 .. Len(u)
    BY <1>3
  <2>2. v[i] = u[i + 1] /\ v[j] = u[j + 1]
    BY <1>2
  <2> QED BY <2>1, <2>2 DEF Heard, InSequence
<1>8. Heard(b, v, d, h, m, x)
  BY <1>6, <1>7 DEF Heard
<1> QED BY <1>5, <1>8 DEF v

\* The host h takes the q new reports of the message w, which is ahead of those in v.
LEMMA HeardTake ==
  ASSUME NEW b \in BtnRecord, Len(b.reports) <= MaxReports,
         NEW v, UpOK(v), NEW d \in Seq(Nat), NEW h \in HostRecord, NEW g \in HostRecord,
         NEW m, NEW x \in BOOLEAN, Heard(b, v, d, h, m, x),
         NEW w \in MessageRecord, MessageOK(w, b, h), Len(w.state) <= MaxReports,
         \A i \in 1 .. Len(v) : v[i].fresh =>
           Gap(h.ack_count, v[i].ack_count) <= Gap(h.ack_count, w.ack_count),
         NEW q \in Nat, q > 0, q = Len(w.state) - Gap(h.ack_count, w.ack_count),
         g.ack_count = (h.ack_count + q) % Byte,
         g.last_button = w.state[Len(w.state)].pressed
  PROVE  Heard(b, v, Append(d, q), g, m, x)
<1> DEFINE lead == Gap(h.ack_count, b.ack_count)
           lag == Gap(h.ack_count, w.ack_count)
           k == Len(b.reports)
           l == Len(w.state)
<1>1. /\ b.reports \in Seq(ReportRecord) /\ b.ack_count \in 0 .. Byte - 1
      /\ h.ack_count \in 0 .. Byte - 1 /\ v \in Seq(MessageRecord)
      /\ w.state \in Seq(ReportRecord) /\ w.ack_count \in 0 .. Byte - 1
  BY DEF BtnRecord, HostRecord, MessageRecord, UpOK
<1>2. k \in Nat /\ l \in Nat /\ k <= MaxReports /\ l <= MaxReports
  <2>1. k \in Nat
    BY <1>1
  <2>2. l \in Nat
    BY <1>1
  <2> QED BY <2>1, <2>2
<1>3. MaxReports \in Nat /\ MaxReports <= Byte /\ Byte \in Nat /\ Byte > 0
  BY ONLY ButtonsAssumption
<1>4. lead \in Nat
  BY <1>1, GapType
<1>5. lag \in Nat
  BY <1>1, GapType
<1>6. lead <= k /\ Owes(d, lead) /\ lead <= lag /\ l - lag <= k - lead
  BY DEF Heard, CountsAgree, MessageOK
<1>7. q = l - lag /\ q \in Nat /\ q > 0
  OBVIOUS
<1>8. \A i \in 1 .. Len(v) : v[i] \in MessageRecord
  BY <1>1
<1> HIDE DEF lead, lag, k, l
<1>9. lead + q \in 1 .. k /\ lead + q < Byte /\ lag + q = l /\ lag + q < Byte
  <2>1. l < Byte
    BY ONLY <1>2, <1>3, <1>5, <1>7, ButtonsAssumption
  <2> QED BY ONLY <1>2, <1>3, <1>4, <1>5, <1>6, <1>7, <2>1
<1>10. \A a \in 0 .. Byte - 1 : Gap(h.ack_count, a) <= lag =>
        Gap(g.ack_count, a) = Gap(h.ack_count, a) + q
  <2> SUFFICES ASSUME NEW a \in 0 .. Byte - 1, Gap(h.ack_count, a) <= lag
               PROVE  Gap(g.ack_count, a) = Gap(h.ack_count, a) + q
    OBVIOUS
  <2> DEFINE p == Gap(h.ack_count, a)
  <2>1. p \in Nat /\ p <= lag
    BY <1>1, GapType
  <2> HIDE DEF p
  <2>2. p + q < Byte
    BY ONLY <1>2, <1>3, <1>9, <1>5, <1>7, <2>1
  <2> QED BY <1>1, <2>2, GapOpens DEF p
<1>11. Gap(g.ack_count, b.ack_count) = lead + q
  BY <1>1, <1>10, <1>6 DEF lead
<1>12. CountsAgree(b, Append(d, q), g, m)
  <2>1. Owes(Append(d, q), lead + q)
    BY <1>4, <1>6, <1>7, OwesMore
  <2>2. lead + q <= k
    BY ONLY <1>9, <1>2
  <2> QED BY <1>11, <2>1, <2>2 DEF Heard, CountsAgree, k
<1>13. \A i \in 1 .. Len(v) : v[i].fresh => MessageOK(v[i], b, g)
  <2> SUFFICES ASSUME NEW y \in MessageRecord, MessageOK(y, b, h),
                      Gap(h.ack_count, y.ack_count) <= lag
               PROVE  MessageOK(y, b, g)
    BY <1>1 DEF Heard, lag
  <2> DEFINE r == Gap(h.ack_count, y.ack_count)
             n == Len(y.state)
  <2>1. y.ack_count \in 0 .. Byte - 1 /\ y.state \in Seq(ReportRecord)
    BY DEF MessageRecord
  <2>2. r \in Nat
    BY <1>1, <2>1, GapType
  <2>3. n \in Nat
    BY <2>1
  <2>4. Gap(g.ack_count, y.ack_count) = r + q
    BY <1>10, <2>1
  <2>5. lead <= r /\ n - r <= k - lead /\ r <= lag
    BY DEF MessageOK, lead, k
  <2>6. \A j \in 1 .. n : y.state[j].n = (y.ack_count + j - 1) % Byte
    BY DEF MessageOK
  <2>7. \A j \in 1 .. n : j > r - lead => y.state[j] = b.reports[j - (r - lead)]
    BY DEF MessageOK, lead
  <2> HIDE DEF r, n
  <2>8. lead + q <= r + q /\ r + q <= MaxReports /\ n - (r + q) <= k - (lead + q)
    BY ONLY <1>2, <1>3, <1>9, <1>4, <1>5, <1>7, <2>2, <2>3, <2>5
  <2>9. (r + q) - (lead + q) = r - lead
    BY ONLY <1>4, <1>7, <2>2
  <2> QED BY <1>11, <2>4, <2>6, <2>7, <2>8, <2>9 DEF MessageOK, n, k
<1>14. InSequence(v, g)
  <2> SUFFICES ASSUME NEW i \in 1 .. Len(v), NEW j \in 1 .. Len(v), i < j,
                      v[i].fresh, v[j].fresh
               PROVE  Gap(g.ack_count, v[j].ack_count) <= Gap(g.ack_count, v[i].ack_count)
    BY DEF InSequence
  <2>1. v[i].ack_count \in 0 .. Byte - 1 /\ v[j].ack_count \in 0 .. Byte - 1
    <3>1. v[i] \in MessageRecord /\ v[j] \in MessageRecord
      BY <1>8
    <3> QED BY <3>1 DEF MessageRecord
  <2> DEFINE p == Gap(h.ack_count, v[i].ack_count)
             r == Gap(h.ack_count, v[j].ack_count)
  <2>2. p \in Nat
    BY <1>1, <2>1, GapType
  <2>3. r \in Nat
    BY <1>1, <2>1, GapType
  <2>4. r <= p /\ p <= lag /\ r <= lag
    BY DEF Heard, InSequence, lag
  <2>5. Gap(g.ack_count, v[i].ack_count) = p + q
    BY <1>10, <2>1, <2>4
  <2>6. Gap(g.ack_count, v[j].ack_count) = r + q
    BY <1>10, <2>1, <2>4
  <2> HIDE DEF p, r
  <2>7. r + q <= p + q
    BY ONLY <1>7, <2>2, <2>3, <2>4
  <2> QED BY <2>5, <2>6, <2>7
<1>15. StatesAgree(b, g, x)
  <2>1. l \in 1 .. l /\ l > lag - lead /\ l - (lag - lead) = lead + q
    BY ONLY <1>2, <1>9, <1>4, <1>5, <1>6, <1>7
  <2>2. w.state[l] = b.reports[lead + q]
    <3>1. w.state[l] = b.reports[l - (lag - lead)]
      BY <2>1 DEF MessageOK, l, lag, lead
    <3> QED BY <2>1, <3>1
  <2>3. g.last_button = b.reports[lead + q].pressed
    BY <2>2 DEF l
  <2>4. k # 0
    BY ONLY <1>2, <1>9
  <2>5. b.reports # <<>>
    BY <2>4 DEF k
  <2> QED BY <1>11, <2>3, <2>5 DEF Heard, StatesAgree
<1> QED BY <1>12, <1>13, <1>14, <1>15 DEF Heard

\* How the host expands the count of a message that is not too far behind.
LEMMA NewCountIs ==
  ASSUME NEW w, w.ack_count \in 0 .. Byte - 1, hbtn.ack_count \in 0 .. Byte - 1,
         Len(w.state) \in Nat, Gap(hbtn.ack_count, w.ack_count) <= MaxReports
  PROVE  NewCount(w) = Len(w.state) - Gap(hbtn.ack_count, w.ack_count)
<1> DEFINE h == hbtn.ack_count
           a == w.ack_count
           diff == (a - h) % Byte
           l == Len(w.state)
           lag == Gap(h, a)
<1>1. lag = IF h < a THEN h - a + Byte ELSE h - a
  BY GapCases
<1>2. diff = IF a < h THEN a - h + Byte ELSE a - h
  <2>1. diff = Gap(a, h)
    BY DEF Gap
  <2>2. Gap(a, h) = IF a < h THEN a - h + Byte ELSE a - h
    BY GapCases
  <2> QED BY <2>1, <2>2
<1>3. h \in 0 .. Byte - 1 /\ a \in 0 .. Byte - 1 /\ l \in Nat /\ lag <= MaxReports
  OBVIOUS
<1>4. NewCount(w) = (IF 2 * diff >= Byte THEN diff - Byte ELSE diff) + l
  BY DEF NewCount
<1> HIDE DEF h, a, diff, l, lag
<1>5. NewCount(w) = l - lag
  BY ONLY <1>1, <1>2, <1>3, <1>4, ButtonsAssumption
<1> QED BY <1>5 DEF h, a, l, lag

\* The new reports are the last of the message.
LEMMA NewButtonsAre ==
  ASSUME NEW w \in MessageRecord, Len(w.state) \in Nat \ {0},
         NewCount(w) \in Int, NewCount(w) > 0
  PROVE  LET new == NewButtons(w)
             skip == IF NewCount(w) >= Len(w.state) THEN 0 ELSE Len(w.state) - NewCount(w)
         IN  /\ new \in Seq(ReportRecord) /\ Len(new) = Len(w.state) - skip
             /\ Len(new) > 0
             /\ \A j \in 1 .. Len(new) : new[j] = w.state[skip + j]
             /\ new[Len(new)] = w.state[Len(w.state)]
<1> DEFINE new == NewButtons(w)
           l == Len(w.state)
           skip == IF NewCount(w) >= Len(w.state) THEN 0 ELSE Len(w.state) - NewCount(w)
<1>1. w.state \in Seq(ReportRecord)
  BY DEF MessageRecord
<1>2. skip \in Nat /\ l \in Nat /\ skip < l
  OBVIOUS
<1>3. new = SubSeq(w.state, skip + 1, l)
  <2>1. CASE NewCount(w) >= Len(w.state)
    <3>1. skip + 1 = 1
      BY <2>1
    <3>2. new = SubSeq(w.state, 1, l)
      BY <2>1 DEF NewButtons
    <3> QED BY <3>1, <3>2
  <2>2. CASE ~(NewCount(w) >= Len(w.state))
    <3>1. skip + 1 = l - NewCount(w) + 1
      BY <2>2
    <3>2. new = SubSeq(w.state, l - NewCount(w) + 1, l)
      <4>1. ~(NewCount(w) <= 0)
        OBVIOUS
      <4> HIDE DEF skip
      <4> QED BY <2>2, <4>1, Zenon DEF NewButtons
    <3> QED BY <3>1, <3>2
  <2> QED BY <2>1, <2>2
<1>4. /\ SubSeq(w.state, skip + 1, l) \in Seq(ReportRecord)
      /\ Len(SubSeq(w.state, skip + 1, l)) = l - (skip + 1) + 1
      /\ \A j \in 1 .. l - (skip + 1) + 1 :
           SubSeq(w.state, skip + 1, l)[j] = w.state[skip + 1 + j - 1]
  <2> HIDE DEF skip
  <2> QED BY <1>1, <1>2
<1>5. l - (skip + 1) + 1 = l - skip /\ l - skip \in 1 .. l - skip /\ skip + (l - skip) = l
  BY ONLY <1>2
<1>6. \A j \in 1 .. l - skip : skip + 1 + j - 1 = skip + j
  BY ONLY <1>2
<1> HIDE DEF new, l, skip
<1>7. new \in Seq(ReportRecord) /\ Len(new) = l - skip
  BY <1>3, <1>4, <1>5
<1>8. \A j \in 1 .. l - skip : new[j] = w.state[skip + j]
  BY <1>3, <1>4, <1>5, <1>6
<1>9. new[l - skip] = w.state[l] /\ l - skip > 0
  BY <1>2, <1>5, <1>8
<1> QED BY <1>7, <1>8, <1>9 DEF new, l, skip

\* The reports of the struct are numbers and sets of pins.
LEMMA BtnFields ==
  ASSUME NEW b \in BtnRecord
  PROVE  /\ b.time \in BOOLEAN /\ b.pressed \in SUBSET Pins /\ b.last_pressed \in SUBSET Pins
         /\ b.reports \in Seq(ReportRecord) /\ b.ack_count \in 0 .. Byte - 1
         /\ b.retransmit_state \in 0 .. Byte - 1
         /\ Len(b.reports) \in Nat
BY DEF BtnRecord

\* Nothing is known, and nothing is on its way.
LEMMA ButtonsStart ==
  ASSUME ButtonsInit
  PROVE  ButtonsInv
<1>1. 0 \in 0 .. Byte - 1 /\ <<>> \in Seq(ReportRecord) /\ Invert \in SUBSET Pins
  BY ButtonsAssumption
<1>2. btn \in BtnRecord /\ btn.reports = <<>> /\ hbtn \in HostRecord
  BY <1>1 DEF ButtonsInit, BtnRecord, HostRecord
<1>3. ButtonsTypes
  <2>1. Len(btn.reports) = 0 /\ UpOK(up) /\ down \in Seq(Nat)
    BY <1>2 DEF ButtonsInit, UpOK
  <2>2. Len(btn.reports) <= MaxReports /\ sending \in Nat /\ sending <= Len(btn.reports)
    BY <2>1, ButtonsAssumption DEF ButtonsInit
  <2> QED BY <1>1, <1>2, <2>1, <2>2 DEF ButtonsInit, ButtonsTypes
<1> QED BY <1>3 DEF ButtonsInit, ButtonsInv, Waiting

\* A new host.
LEMMA ConfigKeeps ==
  ASSUME ButtonsInv, build_config
  PROVE  ButtonsInv'
<1>1. up \in Seq(MessageRecord) /\ \A i \in 1 .. Len(up) : Len(up[i].state) \in 1 .. MaxReports
  BY DEF ButtonsInv, ButtonsTypes, UpOK
<1>2. up' = [i \in 1 .. Len(up) |-> [up[i] EXCEPT !.fresh = FALSE]]
  BY <1>1 DEF build_config
<1>3. \A i \in 1 .. Len(up) : /\ [up[i] EXCEPT !.fresh = FALSE] \in MessageRecord
                              /\ [up[i] EXCEPT !.fresh = FALSE].state = up[i].state
                              /\ ~[up[i] EXCEPT !.fresh = FALSE].fresh
  <2> SUFFICES ASSUME NEW w \in MessageRecord
               PROVE  /\ [w EXCEPT !.fresh = FALSE] \in MessageRecord
                      /\ [w EXCEPT !.fresh = FALSE].state = w.state
                      /\ ~[w EXCEPT !.fresh = FALSE].fresh
    BY <1>1
  <2> QED BY DEF MessageRecord
<1>4. up' \in Seq(MessageRecord) /\ Len(up') = Len(up)
  BY <1>1, <1>2, <1>3
<1>5. \A i \in 1 .. Len(up) : up'[i].state = up[i].state /\ ~up'[i].fresh
  BY <1>2, <1>3
<1>6. UpOK(up)'
  BY <1>1, <1>4, <1>5 DEF UpOK
<1>7. hbtn' \in HostRecord
  BY ButtonsAssumption DEF build_config, HostRecord
<1>8. ButtonsTypes'
  <2>1. down' \in Seq(Nat)
    BY DEF build_config
  <2> QED BY <1>6, <1>7, <2>1 DEF ButtonsInv, ButtonsTypes, build_config
<1> QED BY <1>4, <1>5, <1>8 DEF ButtonsInv, Waiting, build_config

\* The query is sent.
LEMMA SendQueryKeeps ==
  ASSUME ButtonsInv, SendQuery
  PROVE  ButtonsInv'
<1>1. down \in Seq(Nat) /\ down' = Append(down, 0)
  BY DEF ButtonsInv, ButtonsTypes, SendQuery, Query
<1>2. Append(<<>>, 0) = <<0>>
  OBVIOUS
<1>3. down' \in Seq(Nat) /\ (down = <<>> => down' = <<Query>>)
  <2>1. down' \in Seq(Nat)
    BY ONLY <1>1
  <2>2. down = <<>> => down' = <<Query>>
    BY ONLY <1>1, <1>2, Zenon DEF Query
  <2> QED BY ONLY <2>1, <2>2
<1>4. ButtonsTypes'
  BY <1>3 DEF ButtonsInv, ButtonsTypes, SendQuery
<1>5. Waiting'
  <2>1. /\ session = "config" /\ session' = "asked"
        /\ UNCHANGED <<up, hbtn, early>>
    BY DEF SendQuery
  <2>2. \A i \in 1 .. Len(up) : ~up[i].fresh
    BY <2>1 DEF ButtonsInv, Waiting
  <2>3. ~early => /\ hbtn = [ack_count |-> 0, last_button |-> Invert]
                  /\ down = <<>>
    BY <2>1 DEF ButtonsInv, Waiting
  <2> QED BY <1>3, <2>1, <2>2, <2>3 DEF Waiting
<1> QED BY <1>4, <1>5 DEF ButtonsInv, SendQuery

\* The query runs: both counts are zero, and the host has nothing on its way.
LEMMA QueryKeeps ==
  ASSUME ButtonsInv, command_buttons_query
  PROVE  ButtonsInv'
<1>1. down \in Seq(Nat) /\ down # <<>> /\ Head(down) = Query
  BY DEF ButtonsInv, ButtonsTypes, command_buttons_query
<1>2. down' \in Seq(Nat) /\ down' = Tail(down)
  BY <1>1 DEF command_buttons_query
<1>3. Byte \in Nat /\ Byte > 0 /\ Invert \in SUBSET Pins /\ MaxReports \in Nat
  BY ButtonsAssumption
<1>4. /\ btn' \in BtnRecord /\ btn'.reports = <<>> /\ btn'.ack_count = 0
      /\ btn'.pressed = Invert
  <2>1. BF_ACKED \in 0 .. Byte - 1
    BY ButtonsAssumption DEF BF_ACKED
  <2> QED BY <1>3, <2>1 DEF command_buttons_query, BtnRecord
<1>5. ButtonsTypes'
  <2>1. Len(btn'.reports) = 0 /\ sending' = 0
    BY <1>4 DEF command_buttons_query, Command
  <2>2. /\ Len(btn'.reports) <= MaxReports /\ sending' \in Nat
        /\ sending' <= Len(btn'.reports) /\ 0 \in 0 .. Byte - 1
    BY ONLY <1>3, <2>1
  <2> QED BY <1>2, <1>4, <2>2 DEF ButtonsInv, ButtonsTypes, command_buttons_query
<1>6. ASSUME ~early, session = "queried"
      PROVE  FALSE
  <2>1. hbtn.ack_count \in 0 .. Byte - 1 /\ btn.ack_count \in 0 .. Byte - 1
    BY DEF ButtonsInv, ButtonsTypes, HostRecord, BtnRecord
  <2>2. Gap(hbtn.ack_count, btn.ack_count) \in Nat
    BY <2>1, GapType
  <2>3. Owes(down, Gap(hbtn.ack_count, btn.ack_count))
    BY <1>6 DEF ButtonsInv, Heard, CountsAgree
  <2>4. Head(down) > 0
    BY <1>1, <2>2, <2>3, OwesLess
  <2> QED BY <1>1, <2>4 DEF Query
<1>7. ASSUME ~early
      PROVE  Heard(btn, up, down, hbtn, made, missed)'
  <2>1. session = "asked"
    BY <1>1, <1>6, <1>7 DEF ButtonsInv, Waiting, ButtonsTypes
  <2>2. /\ hbtn'.ack_count = 0 /\ hbtn'.last_button = Invert /\ down = <<Query>>
        /\ \A i \in 1 .. Len(up') : ~up'[i].fresh
    BY <1>7, <2>1 DEF ButtonsInv, Waiting, command_buttons_query
  <2>3. down' = <<>>
    BY <1>2, <2>2
  <2>4. Gap(0, 0) = 0 /\ (0 + 0) % Byte = 0
    BY <1>3, GapCases
  <2>5. Len(btn'.reports) = 0 /\ made' = 0
    BY <1>4 DEF command_buttons_query
  <2>6. CountsAgree(btn, down, hbtn, made)'
    BY <1>4, <2>2, <2>3, <2>4, <2>5, OwesNothing DEF CountsAgree
  <2>7. StatesAgree(btn, hbtn, missed)'
    BY <1>4, <2>2, <2>4 DEF StatesAgree
  <2>8. InSequence(up, hbtn)'
    BY <2>2 DEF InSequence
  <2> QED BY <2>2, <2>6, <2>7, <2>8 DEF Heard
<1>8. Waiting'
  BY DEF Waiting, command_buttons_query
<1> QED BY <1>5, <1>7, <1>8 DEF ButtonsInv, command_buttons_query

\* Nothing of what the two know of each other depends on the timer, on the pins or on
\* the retransmit state; a change that finds no room is missed.
LEMMA HeardPress ==
  ASSUME NEW b, NEW c, NEW u, NEW d, NEW h, NEW m, NEW x, NEW y,
         Heard(b, u, d, h, m, x),
         c.ack_count = b.ack_count, c.reports = b.reports,
         ~y => (c.pressed = b.pressed /\ ~x)
  PROVE  Heard(c, u, d, h, m, y)
<1>1. CountsAgree(c, d, h, m)
  BY DEF Heard, CountsAgree
<1>2. ASSUME NEW w, MessageOK(w, b, h)
      PROVE  MessageOK(w, c, h)
  BY <1>2 DEF MessageOK
<1>3. StatesAgree(c, h, y)
  BY DEF Heard, StatesAgree
<1> QED BY <1>1, <1>2, <1>3 DEF Heard

\* A step of the firmware that keeps the reports and the counts.
LEMMA FirmwareKeeps ==
  ASSUME ButtonsInv, btn' \in BtnRecord,
         btn'.ack_count = btn.ack_count, btn'.reports = btn.reports,
         session = "none" => ~btn'.time,
         sending' \in Nat, sending' <= Len(btn.reports), missed' \in BOOLEAN,
         ~missed' => (btn'.pressed = btn.pressed /\ ~missed),
         UNCHANGED <<up, down, hbtn, made, session, early>>
  PROVE  ButtonsInv'
<1>1. ButtonsTypes'
  BY DEF ButtonsInv, ButtonsTypes
<1>2. Waiting'
  BY DEF ButtonsInv, Waiting
<1>3. ASSUME session = "queried", ~early
      PROVE  Heard(btn', up, down, hbtn, made, missed')
  <2>1. Heard(btn, up, down, hbtn, made, missed)
    BY <1>3 DEF ButtonsInv
  <2> QED BY <2>1, HeardPress
<1> QED BY <1>1, <1>2, <1>3 DEF ButtonsInv

\* The timeout is a byte.
LEMMA CountDownByte ==
  ASSUME NEW s \in 0 .. Byte - 1
  PROVE  CountDown(s) \in 0 .. Byte - 1
<1>1. s - 1 \in Int /\ 0 - Byte <= s - 1 /\ s - 1 < Byte
  BY ButtonsAssumption
<1>2. (s - 1) % Byte = IF s - 1 < 0 THEN s - 1 + Byte ELSE s - 1
  BY <1>1, ByteCases, ButtonsAssumption
<1>3. (s - 1) % Byte \in 0 .. Byte - 1
  BY <1>1, <1>2, ButtonsAssumption
<1> QED BY <1>3 DEF CountDown

\* A sample of the pins.
LEMMA EventKeeps ==
  ASSUME ButtonsInv, NEW status \in SUBSET Pins, buttons_event(status)
  PROVE  ButtonsInv'
<1> DEFINE debounced == Debounced(status, btn.last_pressed)
           changed == SymDiff(status, btn.pressed) \cap debounced # {}
           pressed == IF changed THEN (btn.pressed \ debounced) \cup (status \cap debounced)
                                 ELSE btn.pressed
           room == changed /\ Len(btn.reports) < MaxReports
           before == IF room THEN BF_PENDING ELSE btn.retransmit_state
           r == [n |-> made, pressed |-> pressed]
           reports == IF room THEN Append(btn.reports, r) ELSE btn.reports
<1>1. /\ btn.time
      /\ btn' = [btn EXCEPT !.pressed = pressed, !.last_pressed = status,
                   !.retransmit_state = CountDown(before), !.reports = reports]
      /\ made' = IF room THEN (made + 1) % Byte ELSE made
      /\ missed' = IF changed THEN ~room ELSE missed
      /\ UNCHANGED <<sending, up, down, hbtn, session, early>>
  BY DEF buttons_event
<1>2. btn \in BtnRecord /\ made \in 0 .. Byte - 1 /\ missed \in BOOLEAN
  BY DEF ButtonsInv, ButtonsTypes
<1>3. pressed \in SUBSET Pins
  BY <1>2, BtnFields
<1>4. CountDown(before) \in 0 .. Byte - 1
  <2>1. BF_PENDING \in 0 .. Byte - 1
    BY ButtonsAssumption DEF BF_PENDING
  <2>2. before \in 0 .. Byte - 1
    BY <1>2, <2>1, BtnFields
  <2> HIDE DEF before
  <2> QED BY <2>2, CountDownByte
<1>5. r \in ReportRecord
  BY <1>2, <1>3 DEF ReportRecord
<1>6. btn.reports \in Seq(ReportRecord) /\ Len(btn.reports) \in Nat
  BY <1>2, BtnFields
<1> HIDE DEF pressed, before, r
<1>7. reports \in Seq(ReportRecord)
  BY <1>5, <1>6
<1> HIDE DEF reports
<1>8. /\ btn' \in BtnRecord /\ btn'.reports = reports /\ btn'.pressed = pressed
      /\ btn'.ack_count = btn.ack_count /\ btn'.time
  BY <1>1, <1>2, <1>3, <1>4, <1>7 DEF BtnRecord
<1>9. CASE room
  <2>1. /\ Len(reports) = Len(btn.reports) + 1 /\ reports # <<>>
        /\ reports[Len(btn.reports) + 1] = r
        /\ \A i \in 1 .. Len(btn.reports) : reports[i] = btn.reports[i]
    BY <1>5, <1>6, <1>9 DEF reports
  <2>2. (made + 1) % Byte \in 0 .. Byte - 1
    <3>1. made + 1 \in Int /\ Byte \in Nat /\ Byte > 0
      BY <1>2, ButtonsAssumption
    <3> QED BY ONLY <3>1
  <2>3. Len(reports) <= MaxReports /\ sending' <= Len(reports)
    <3>1. /\ sending \in Nat /\ sending <= Len(btn.reports) /\ sending' = sending
          /\ Len(btn.reports) < MaxReports
      BY <1>1, <1>9 DEF ButtonsInv, ButtonsTypes
    <3> QED BY ONLY <1>6, <2>1, <3>1, ButtonsAssumption
  <2>4. made' = (made + 1) % Byte /\ missed' = FALSE
    BY <1>1, <1>9
  <2>5. ButtonsTypes'
    BY <1>1, <1>8, <2>2, <2>3, <2>4 DEF ButtonsInv, ButtonsTypes
  <2>6. session # "none"
    BY <1>1 DEF ButtonsInv, Waiting
  <2>7. Waiting'
    BY <1>1, <2>6 DEF ButtonsInv, Waiting
  <2>8. ASSUME session = "queried", ~early
        PROVE  Heard(btn', up, down, hbtn, (made + 1) % Byte, FALSE)
    <3>1. Heard(btn, up, down, hbtn, made, missed) /\ UpOK(up) /\ hbtn \in HostRecord
      BY <2>8 DEF ButtonsInv, ButtonsTypes
    <3>2. Len(btn.reports) < MaxReports
      BY <1>9
    <3>3. btn'.reports[Len(btn.reports) + 1] = [n |-> made, pressed |-> btn'.pressed]
      BY <1>8, <2>1 DEF r
    <3> HIDE DEF room
    <3> QED BY <1>2, <1>8, <2>1, <3>1, <3>2, <3>3, HeardReport
  <2> QED BY <1>1, <2>4, <2>5, <2>7, <2>8 DEF ButtonsInv
<1>10. CASE ~room
  <2>1. btn'.reports = btn.reports /\ made' = made
    BY <1>1, <1>8, <1>10 DEF reports
  <2>2. missed' \in BOOLEAN /\ (~missed' => btn'.pressed = btn.pressed /\ ~missed)
    BY <1>1, <1>2, <1>8, <1>10 DEF pressed
  <2>3. session # "none"
    BY <1>1 DEF ButtonsInv, Waiting
  <2>4. sending' \in Nat /\ sending' <= Len(btn.reports)
    BY <1>1 DEF ButtonsInv, ButtonsTypes
  <2> HIDE DEF room, changed
  <2> QED BY <1>1, <1>8, <2>1, <2>2, <2>3, <2>4, FirmwareKeeps
<1> QED BY <1>9, <1>10

\* An acknowledgement.
LEMMA AckKeeps ==
  ASSUME ButtonsInv, command_buttons_ack
  PROVE  ButtonsInv'
<1> DEFINE q == Head(down)
           k == Len(btn.reports)
           rest == SubSeq(btn.reports, q + 1, k)
<1>1. /\ down # <<>> /\ down' = Tail(down) /\ sending = 0
      /\ btn' = [btn EXCEPT !.ack_count = (btn.ack_count + q) % Byte, !.reports = rest,
                   !.retransmit_state = IF q >= k THEN BF_ACKED ELSE btn.retransmit_state]
      /\ UNCHANGED <<sending, up, hbtn, made, missed, session, early>>
  BY DEF command_buttons_ack, Command, Unacked
<1>2. /\ btn \in BtnRecord /\ hbtn \in HostRecord /\ UpOK(up) /\ down \in Seq(Nat)
      /\ k <= MaxReports /\ made \in 0 .. Byte - 1 /\ missed \in BOOLEAN
  BY DEF ButtonsInv, ButtonsTypes
<1>3. q \in Nat /\ Tail(down) \in Seq(Nat)
  BY <1>1, <1>2
<1>4. btn.reports \in Seq(ReportRecord) /\ k \in Nat
  BY <1>2, BtnFields
<1>5. btn.ack_count \in 0 .. Byte - 1 /\ hbtn.ack_count \in 0 .. Byte - 1
  BY <1>2 DEF BtnRecord, HostRecord
<1>6. (btn.ack_count + q) % Byte \in 0 .. Byte - 1
  <2>1. btn.ack_count + q \in Int /\ Byte \in Nat /\ Byte > 0
    BY <1>3, <1>5, ButtonsAssumption
  <2> QED BY ONLY <2>1
<1>7. /\ rest \in Seq(ReportRecord)
      /\ Len(rest) = IF q + 1 <= k THEN k - (q + 1) + 1 ELSE 0
      /\ \A i \in 1 .. k - (q + 1) + 1 : rest[i] = btn.reports[q + 1 + i - 1]
  <2> HIDE DEF q
  <2>1. q + 1 \in Nat /\ q + 1 >= 1
    BY <1>3
  <2>2. rest \in Seq(ReportRecord)
    BY <1>3, <1>4, <2>1
  <2>3. Len(rest) = IF q + 1 <= k THEN k - (q + 1) + 1 ELSE 0
    BY <1>3, <1>4, <2>1
  <2>4. \A i \in 1 .. k - (q + 1) + 1 : rest[i] = btn.reports[q + 1 + i - 1]
    BY <1>3, <1>4, <2>1
  <2> QED BY ONLY <2>2, <2>3, <2>4
<1> HIDE DEF q, k, rest
<1>8. Len(rest) \in Nat /\ Len(rest) <= MaxReports /\ 0 <= Len(rest)
  BY ONLY <1>2, <1>3, <1>4, <1>7, ButtonsAssumption
<1>9. (IF q >= k THEN BF_ACKED ELSE btn.retransmit_state) \in 0 .. Byte - 1
  <2>1. BF_ACKED \in 0 .. Byte - 1
    BY ButtonsAssumption DEF BF_ACKED
  <2> QED BY <1>2, <2>1, BtnFields
<1>10. /\ btn' \in BtnRecord /\ btn'.reports = rest /\ btn'.pressed = btn.pressed
       /\ btn'.ack_count = (btn.ack_count + q) % Byte /\ btn'.time = btn.time
  BY <1>1, <1>2, <1>6, <1>7, <1>9 DEF BtnRecord
<1>11. ButtonsTypes'
  BY <1>1, <1>3, <1>8, <1>10 DEF ButtonsInv, ButtonsTypes
<1>12. Waiting'
  <2>1. session # "none" /\ (session = "config" => early)
    BY <1>1 DEF ButtonsInv, Waiting
  <2>2. session = "asked" => early
    <3> SUFFICES ASSUME session = "asked", ~early PROVE FALSE
      OBVIOUS
    <3>1. down = <<Query>>
      BY DEF ButtonsInv, Waiting
    <3>2. Head(down) = Query
      BY <3>1
    <3> QED BY <3>2 DEF command_buttons_ack
  <2> QED BY <1>1, <2>1, <2>2 DEF ButtonsInv, Waiting
<1>13. ASSUME session = "queried", ~early
       PROVE  Heard(btn', up, Tail(down), hbtn, made, missed)
  <2> DEFINE lead == Gap(hbtn.ack_count, btn.ack_count)
  <2>1. Heard(btn, up, down, hbtn, made, missed)
    BY <1>13 DEF ButtonsInv
  <2>2. lead \in Nat
    BY <1>5, GapType
  <2>3. lead <= k /\ Owes(down, lead)
    BY <2>1 DEF Heard, CountsAgree, k
  <2>4. q > 0 /\ q <= lead /\ Owes(Tail(down), lead - q)
    BY <1>1, <1>2, <2>2, <2>3, OwesLess DEF q
  <2> HIDE DEF lead
  <2>5. Len(rest) = k - q
    BY ONLY <1>3, <1>4, <1>7, <2>2, <2>3, <2>4
  <2>6. \A i \in 1 .. k - q : rest[i] = btn.reports[i + q]
    <3> SUFFICES ASSUME NEW i \in 1 .. k - q PROVE rest[i] = btn.reports[i + q]
      OBVIOUS
    <3>1. i \in 1 .. k - (q + 1) + 1 /\ q + 1 + i - 1 = i + q
      BY ONLY <1>3, <1>4, i \in 1 .. k - q
    <3> QED BY <1>7, <3>1
  <2>7. /\ Len(btn'.reports) = Len(btn.reports) - q /\ Len(btn.reports) <= MaxReports
        /\ \A i \in 1 .. Len(btn.reports) - q : btn'.reports[i] = btn.reports[i + q]
    BY <1>2, <1>10, <2>5, <2>6 DEF k
  <2>8. /\ q > 0 /\ q <= Gap(hbtn.ack_count, btn.ack_count)
        /\ Owes(Tail(down), Gap(hbtn.ack_count, btn.ack_count) - q)
    BY <2>4 DEF lead
  <2>9. PICK c \in BtnRecord : c = btn'
    BY <1>10
  <2>10. Heard(c, up, Tail(down), hbtn, made, missed)
    BY <1>2, <1>3, <1>10, <2>1, <2>7, <2>8, <2>9, HeardAck
  <2> QED BY <2>9, <2>10
<1> QED BY <1>1, <1>11, <1>12, <1>13 DEF ButtonsInv

\* The task copies the length of the buffer.
LEMMA TaskKeeps ==
  ASSUME ButtonsInv, ButtonsTask
  PROVE  ButtonsInv'
<1>1. btn \in BtnRecord /\ missed \in BOOLEAN
      /\ sending \in Nat /\ sending <= Len(btn.reports)
  BY DEF ButtonsInv, ButtonsTypes
<1>2. UNCHANGED <<up, down, hbtn, made, missed, session, early>>
  BY DEF ButtonsTask
<1>3. /\ btn' \in BtnRecord /\ btn'.ack_count = btn.ack_count
      /\ btn'.reports = btn.reports /\ btn'.pressed = btn.pressed /\ btn'.time = btn.time
  <2>1. CASE btn' = [btn EXCEPT !.retransmit_state = Retransmit]
    <3>1. Retransmit \in 0 .. Byte - 1
      BY ButtonsAssumption
    <3> QED BY <1>1, <2>1, <3>1 DEF BtnRecord
  <2>2. CASE btn' = btn
    BY <1>1, <2>2
  <2> QED BY <2>1, <2>2 DEF ButtonsTask
<1>4. sending' \in Nat /\ sending' <= Len(btn.reports)
  <2>1. Len(btn.reports) \in Nat
    BY <1>1, BtnFields
  <2> QED BY <1>1, <2>1 DEF ButtonsTask
<1>5. session = "none" => ~btn'.time
  BY <1>3 DEF ButtonsInv, Waiting
<1> QED BY <1>1, <1>2, <1>3, <1>4, <1>5, FirmwareKeeps

\* The message is dropped.
LEMMA DroppedKeeps ==
  ASSUME ButtonsInv, ButtonsSendDropped
  PROVE  ButtonsInv'
<1>1. btn' = btn /\ sending' = 0 /\ UNCHANGED <<up, down, hbtn, made, missed, session, early>>
  BY DEF ButtonsSendDropped
<1>2. btn \in BtnRecord /\ missed \in BOOLEAN /\ Len(btn.reports) \in Nat
  BY BtnFields DEF ButtonsInv, ButtonsTypes
<1>3. sending' \in Nat /\ sending' <= Len(btn.reports)
  BY <1>1, <1>2
<1>4. session = "none" => ~btn.time
  BY DEF ButtonsInv, Waiting
<1> QED BY <1>1, <1>2, <1>3, <1>4, FirmwareKeeps

\* The message is sent.
LEMMA SendKeeps ==
  ASSUME ButtonsInv, ButtonsSend
  PROVE  ButtonsInv'
<1> DEFINE f == session = "queried"
           msg == [ack_count |-> btn.ack_count, fresh |-> f,
                   state |-> SubSeq(btn.reports, 1, sending)]
           v == Append(up, msg)
<1>1. /\ sending > 0 /\ up' = v /\ sending' = 0
      /\ UNCHANGED <<btn, down, hbtn, made, missed, session, early>>
  BY DEF ButtonsSend
<1>2. /\ btn \in BtnRecord /\ hbtn \in HostRecord /\ UpOK(up)
      /\ sending \in Nat /\ sending <= Len(btn.reports) /\ Len(btn.reports) <= MaxReports
  BY DEF ButtonsInv, ButtonsTypes
<1>3. btn.reports \in Seq(ReportRecord) /\ Len(btn.reports) \in Nat
  BY <1>2, BtnFields
<1>4. sending \in 1 .. Len(btn.reports) /\ sending \in 1 .. MaxReports
  BY <1>1, <1>2, <1>3, ButtonsAssumption
<1>5. /\ SubSeq(btn.reports, 1, sending) \in Seq(ReportRecord)
      /\ Len(SubSeq(btn.reports, 1, sending)) = sending
  BY <1>2, <1>3, <1>4
<1>6. msg \in MessageRecord /\ Len(msg.state) \in 1 .. MaxReports /\ (f <=> msg.fresh)
  BY <1>2, <1>4, <1>5, BtnFields DEF MessageRecord
<1> HIDE DEF msg
<1>7. /\ v \in Seq(MessageRecord) /\ v[Len(up) + 1] = msg
      /\ \A i \in 1 .. Len(up) : v[i] = up[i]
  BY <1>2, <1>6 DEF UpOK
<1>8. Len(v) = Len(up) + 1 /\ Len(up) \in Nat
  BY <1>2, <1>6 DEF UpOK
<1> HIDE DEF v
<1>9. \A i \in 1 .. Len(v) : i \in 1 .. Len(up) \/ i = Len(up) + 1
  BY ONLY <1>8
<1>10. UpOK(v)
  BY <1>2, <1>6, <1>7, <1>9 DEF UpOK
<1>11. ButtonsTypes'
  <2>1. sending' \in Nat /\ sending' <= Len(btn'.reports)
    BY <1>1, <1>3
  <2> QED BY <1>1, <1>10, <2>1 DEF ButtonsInv, ButtonsTypes
<1>12. Waiting'
  <2>1. session # "none"
    <3>1. btn.reports # <<>>
      BY <1>3, <1>4
    <3> QED BY <3>1 DEF ButtonsInv, Waiting
  <2>2. session # "queried" => \A i \in 1 .. Len(v) : ~v[i].fresh
    BY <1>6, <1>7, <1>9 DEF ButtonsInv, Waiting
  <2> QED BY <1>1, <2>1, <2>2 DEF ButtonsInv, Waiting
<1>13. ASSUME session = "queried", ~early
       PROVE  Heard(btn, v, down, hbtn, made, missed)
  <2>1. Heard(btn, up, down, hbtn, made, missed)
    BY <1>13 DEF ButtonsInv
  <2>2. f \in BOOLEAN
    OBVIOUS
  <2> HIDE DEF f
  <2> QED BY <1>2, <1>4, <2>1, <2>2, HeardSend DEF v, msg
<1> QED BY <1>1, <1>11, <1>12, <1>13 DEF ButtonsInv

\* What the host makes of a message is a number of new reports.
LEMMA NewCountInt ==
  ASSUME NEW w \in MessageRecord, hbtn \in HostRecord
  PROVE  NewCount(w) \in Int
<1>1. /\ w.ack_count \in 0 .. Byte - 1 /\ hbtn.ack_count \in 0 .. Byte - 1
      /\ w.state \in Seq(ReportRecord)
  BY DEF MessageRecord, HostRecord
<1> DEFINE diff == (w.ack_count - hbtn.ack_count) % Byte
<1>2. diff \in Nat /\ Byte \in Nat
  BY <1>1, GapType, ButtonsAssumption DEF Gap
<1>3. Len(w.state) \in Nat
  BY <1>1
<1>4. NewCount(w) = (IF 2 * diff >= Byte THEN diff - Byte ELSE diff) + Len(w.state)
  BY DEF NewCount
<1> HIDE DEF diff
<1> QED BY ONLY <1>2, <1>3, <1>4

\* The host reads a message.
LEMMA HandleKeeps ==
  ASSUME ButtonsInv, handle_buttons_state
  PROVE  ButtonsInv'
<1> DEFINE w == Head(up)
           q == NewCount(w)
           new == NewButtons(w)
<1>1. /\ btn \in BtnRecord /\ hbtn \in HostRecord /\ UpOK(up) /\ down \in Seq(Nat)
      /\ Len(btn.reports) <= MaxReports /\ missed \in BOOLEAN /\ early \in BOOLEAN
      /\ up \in Seq(MessageRecord)
  BY DEF ButtonsInv, ButtonsTypes, UpOK
<1>2. /\ up # <<>> /\ up' = Tail(up)
      /\ UNCHANGED <<btn, sending, made, missed, session>>
  BY DEF handle_buttons_state
<1>3. w \in MessageRecord /\ w = up[1] /\ 1 \in 1 .. Len(up)
  BY <1>1, <1>2
<1>4. Len(w.state) \in 1 .. MaxReports /\ w.state \in Seq(ReportRecord)
  BY <1>1, <1>3 DEF UpOK, MessageRecord
<1>5. q \in Int
  BY <1>1, <1>3, NewCountInt
<1>6. session # "none"
  BY <1>2 DEF ButtonsInv, Waiting
<1>7. UpOK(Tail(up)) /\ (session # "queried" => \A i \in 1 .. Len(Tail(up)) : ~Tail(up)[i].fresh)
  <2>1. /\ Tail(up) \in Seq(MessageRecord) /\ Len(Tail(up)) = Len(up) - 1 /\ Len(up) \in Nat
        /\ \A i \in 1 .. Len(Tail(up)) : Tail(up)[i] = up[i + 1]
    BY <1>1, <1>2
  <2> DEFINE v == Tail(up)
  <2> HIDE DEF v
  <2>2. \A i \in 1 .. Len(v) : i + 1 \in 1 .. Len(up)
    BY <2>1 DEF v
  <2>3. v \in Seq(MessageRecord) /\ \A i \in 1 .. Len(v) : v[i] = up[i + 1]
    BY <2>1 DEF v
  <2>4. UpOK(v) /\ (session # "queried" => \A i \in 1 .. Len(v) : ~v[i].fresh)
    BY <1>1, <2>2, <2>3 DEF UpOK, ButtonsInv, Waiting
  <2> QED BY <2>4 DEF v
<1>8. CASE q <= 0
  <2>1. UNCHANGED <<down, hbtn, early>>
    BY <1>8 DEF handle_buttons_state
  <2>2. ButtonsTypes'
    BY <1>2, <1>7, <2>1 DEF ButtonsInv, ButtonsTypes
  <2>3. Waiting'
    BY <1>2, <1>6, <1>7, <2>1 DEF ButtonsInv, Waiting
  <2>4. ASSUME session = "queried", ~early
        PROVE  Heard(btn, Tail(up), down, hbtn, made, missed)
    <3>1. Heard(btn, up, down, hbtn, made, missed)
      BY <2>4 DEF ButtonsInv
    <3> QED BY <1>1, <1>2, <3>1, HeardSkip
  <2> QED BY <1>2, <2>1, <2>2, <2>3, <2>4 DEF ButtonsInv
<1>9. CASE q > 0
  <2>1. /\ down' = Append(down, q) /\ early' = (early \/ ~w.fresh)
        /\ hbtn' = [ ack_count |-> (hbtn.ack_count + q) % Byte,
                     last_button |-> new[Len(new)].pressed ]
    <3>1. ~(q <= 0)
      BY <1>5, <1>9
    <3> QED BY <3>1 DEF handle_buttons_state
  <2>2. Len(w.state) \in Nat \ {0}
    BY <1>4, ButtonsAssumption
  <2>3. new[Len(new)] = w.state[Len(w.state)]
    BY <1>3, <1>5, <1>9, <2>2, NewButtonsAre
  <2>4. w.state[Len(w.state)] \in ReportRecord
    BY <1>4, <2>2
  <2>5. hbtn' \in HostRecord
    <3>1. hbtn.ack_count \in Nat /\ Byte \in Nat /\ Byte > 0
      BY <1>1, ButtonsAssumption DEF HostRecord
    <3>2. (hbtn.ack_count + q) % Byte \in 0 .. Byte - 1
      BY ONLY <1>5, <3>1
    <3>3. w.state[Len(w.state)].pressed \in SUBSET Pins
      BY <2>4 DEF ReportRecord
    <3> QED BY <2>1, <2>3, <3>2, <3>3 DEF HostRecord
  <2>6. /\ hbtn'.ack_count = (hbtn.ack_count + q) % Byte
        /\ hbtn'.last_button = w.state[Len(w.state)].pressed
    BY <2>1, <2>3
  <2>7. q \in Nat /\ down' \in Seq(Nat)
    BY <1>1, <1>5, <1>9, <2>1
  <2>8. ButtonsTypes'
    <3>1. early' \in BOOLEAN
      BY <2>1
    <3> QED BY <1>2, <1>7, <2>5, <2>7, <3>1 DEF ButtonsInv, ButtonsTypes
  <2>9. session # "queried" => early'
    BY <1>3, <2>1 DEF ButtonsInv, Waiting
  <2>10. Waiting'
    BY <1>2, <1>6, <1>7, <2>9 DEF Waiting
  <2>11. ASSUME session = "queried", ~early'
         PROVE  Heard(btn, Tail(up), Append(down, q), hbtn', made, missed)
    <3>1. w.fresh /\ ~early
      BY <2>1, <2>11
    <3>2. Heard(btn, up, down, hbtn, made, missed)
      BY <2>11, <3>1 DEF ButtonsInv
    <3>3. MessageOK(w, btn, hbtn)
      BY <1>3, <3>1, <3>2 DEF Heard
    <3>4. UpOK(Tail(up)) /\ Heard(btn, Tail(up), down, hbtn, made, missed)
      BY <1>1, <1>2, <3>2, HeardSkip
    <3>5. q = Len(w.state) - Gap(hbtn.ack_count, w.ack_count)
      <4>1. /\ w.ack_count \in 0 .. Byte - 1 /\ hbtn.ack_count \in 0 .. Byte - 1
            /\ Gap(hbtn.ack_count, w.ack_count) <= MaxReports
        BY <1>1, <1>3, <3>3 DEF MessageRecord, HostRecord, MessageOK
      <4> QED BY <2>2, <4>1, NewCountIs
    <3>6. \A i \in 1 .. Len(Tail(up)) : Tail(up)[i].fresh =>
            Gap(hbtn.ack_count, Tail(up)[i].ack_count) <= Gap(hbtn.ack_count, w.ack_count)
      <4> DEFINE v == Tail(up)
      <4>1. Len(v) = Len(up) - 1 /\ Len(up) \in Nat
        BY <1>1, <1>2
      <4>2. \A i \in 1 .. Len(v) : v[i] = up[i + 1]
        BY <1>1, <1>2
      <4> HIDE DEF v
      <4>3. \A i \in 1 .. Len(v) : 1 < i + 1 /\ i + 1 \in 1 .. Len(up)
        BY ONLY <4>1
      <4>4. \A i \in 1 .. Len(v) : v[i].fresh =>
              Gap(hbtn.ack_count, v[i].ack_count) <= Gap(hbtn.ack_count, w.ack_count)
        BY <1>3, <3>1, <3>2, <4>2, <4>3 DEF Heard, InSequence
      <4> QED BY <4>4 DEF v
    <3>7. Len(w.state) <= MaxReports
      BY <1>4, ButtonsAssumption
    <3> HIDE DEF w, q
    <3> QED BY <1>1, <1>3, <1>9, <2>5, <2>6, <2>7, <3>3, <3>4, <3>5, <3>6, <3>7, HeardTake
  <2> QED BY <1>2, <2>1, <2>8, <2>10, <2>11 DEF ButtonsInv
<1> QED BY <1>5, <1>8, <1>9

\* The inductive step.
LEMMA ButtonsInductive ==
  ButtonsInv /\ [ButtonsNext \/ ButtonsHalt \/ ButtonsClear]_<<wake, shut, btnvars>>
    => ButtonsInv'
<1> SUFFICES ASSUME ButtonsInv,
                    [ButtonsNext \/ ButtonsHalt \/ ButtonsClear]_<<wake, shut, btnvars>>
             PROVE  ButtonsInv'
  OBVIOUS
<1>1. CASE ButtonsHalt
  <2>1. /\ btn' = [btn EXCEPT !.time = FALSE] /\ sending' = 0
        /\ UNCHANGED <<up, down, hbtn, made, missed, session, early>>
    BY <1>1 DEF ButtonsHalt, ButtonsShutdown
  <2>2. btn \in BtnRecord /\ missed \in BOOLEAN /\ Len(btn.reports) \in Nat
    BY BtnFields DEF ButtonsInv, ButtonsTypes
  <2>3. /\ btn' \in BtnRecord /\ btn'.ack_count = btn.ack_count /\ ~btn'.time
        /\ btn'.reports = btn.reports /\ btn'.pressed = btn.pressed
    BY <2>1, <2>2 DEF BtnRecord
  <2>4. sending' \in Nat /\ sending' <= Len(btn.reports)
    BY <2>1, <2>2
  <2> QED BY <2>1, <2>2, <2>3, <2>4, FirmwareKeeps
<1>2. CASE UNCHANGED btnvars
  BY <1>2 DEF btnvars, ButtonsInv, ButtonsTypes, Waiting
<1>3. CASE ButtonsNext
  BY <1>3, ConfigKeeps, SendQueryKeeps, QueryKeeps, AckKeeps, EventKeeps, TaskKeeps,
     SendKeeps, DroppedKeeps, HandleKeeps DEF ButtonsNext, ButtonsEvent
<1> QED BY <1>1, <1>2, <1>3 DEF ButtonsClear

\* What the host takes for new of the message it reads next is what it has not seen.
LEMMA HeardIsNew ==
  ASSUME ButtonsInv
  PROVE  ButtonsHeard
<1> SUFFICES ASSUME session = "queried", ~early
             PROVE  /\ (up # <<>> /\ up[1].fresh) =>
                         LET new == NewButtons(up[1])
                         IN  \A j \in 1 .. Len(new) :
                               new[j].n = (hbtn.ack_count + j - 1) % Byte
                    /\ (btn.reports = <<>> /\ ~missed) => hbtn.last_button = btn.pressed
  BY DEF ButtonsHeard
<1>1. Heard(btn, up, down, hbtn, made, missed)
  BY DEF ButtonsInv
<1>2. (btn.reports = <<>> /\ ~missed) => hbtn.last_button = btn.pressed
  BY <1>1 DEF Heard, StatesAgree
<1>3. ASSUME up # <<>>, up[1].fresh, NEW j \in 1 .. Len(NewButtons(up[1]))
      PROVE  NewButtons(up[1])[j].n = (hbtn.ack_count + j - 1) % Byte
  <2> DEFINE w == up[1]
             l == Len(w.state)
             h == hbtn.ack_count
             a == w.ack_count
             lag == Gap(h, a)
             q == NewCount(w)
             new == NewButtons(w)
  <2>1. w \in MessageRecord /\ 1 \in 1 .. Len(up) /\ UpOK(up) /\ hbtn \in HostRecord
    BY <1>3 DEF ButtonsInv, ButtonsTypes, UpOK
  <2>2. MessageOK(w, btn, hbtn)
    BY <1>1, <1>3, <2>1 DEF Heard
  <2>3. h \in 0 .. Byte - 1 /\ a \in 0 .. Byte - 1
    BY <2>1 DEF MessageRecord, HostRecord
  <2>4. lag \in Nat
    BY <2>3, GapType
  <2>5. l \in 1 .. MaxReports
    BY <2>1 DEF UpOK
  <2>6. lag <= MaxReports /\ \A i \in 1 .. l : w.state[i].n = (a + i - 1) % Byte
    BY <2>2 DEF MessageOK
  <2>7. l \in Nat \ {0}
    BY <2>5, ButtonsAssumption
  <2>8. q = l - lag
    BY <2>3, <2>6, <2>7, NewCountIs
  <2>9. q \in Int
    BY <2>1, NewCountInt
  <2>10. q > 0
    <3>1. SUFFICES ASSUME q <= 0 PROVE FALSE
      BY <2>9
    <3>2. new = <<>>
      BY <3>1 DEF NewButtons
    <3> QED BY <1>3, <3>2
  <2> DEFINE skip == IF q >= l THEN 0 ELSE l - q
  <2>11. Len(new) = l - skip /\ \A i \in 1 .. Len(new) : new[i] = w.state[skip + i]
    BY <2>1, <2>7, <2>9, <2>10, NewButtonsAre
  <2>12. j \in 1 .. Len(new)
    BY <1>3
  <2> HIDE DEF w, l, h, a, lag, q, new
  <2>13. skip = lag
    BY ONLY <2>4, <2>7, <2>8, <2>9, <2>10
  <2> HIDE DEF skip
  <2>14. lag + j \in 1 .. l /\ j \in Nat /\ j >= 1
    BY ONLY <2>4, <2>7, <2>11, <2>12, <2>13
  <2>15. j - 1 \in 0 .. Byte - 1
    BY ONLY <2>4, <2>5, <2>7, <2>14, ButtonsAssumption
  <2>16. new[j].n = (a + (lag + j) - 1) % Byte
    BY <2>6, <2>11, <2>12, <2>13, <2>14
  <2>17. (a + lag + (j - 1)) % Byte = (h + (j - 1)) % Byte
    BY <2>3, <2>15, NumberBehind DEF lag
  <2>18. a + (lag + j) - 1 = a + lag + (j - 1) /\ h + j - 1 = h + (j - 1)
    <3>1. Byte \in Nat
      BY ButtonsAssumption
    <3> QED BY ONLY <2>3, <2>4, <2>14, <3>1
  <2>19. new[j].n = (h + j - 1) % Byte
    BY ONLY <2>16, <2>17, <2>18
  <2> QED BY <2>19 DEF new, w, h
<1> QED BY <1>2, <1>3

\* The host makes of every message exactly the reports it has not seen, in order, and
\* knows the buttons once all is acknowledged (ButtonsHeard): for every number of
\* buttons and of messages on their way, and every buffer at most half the byte that
\* counts it.
THEOREM EveryPressIsHeard == ButtonsSpec => []ButtonsHeard
<1>1. TasksInit /\ ButtonsInit => ButtonsInv
  BY ButtonsStart
<1>2. ButtonsInv => ButtonsHeard
  BY HeardIsNew
<1> QED BY <1>1, <1>2, ButtonsInductive, PTL DEF ButtonsSpec
=============================================================================
