----------------------------- MODULE EddyProbe -----------------------------
(***************************************************************************)
(* The eddy current bed probe of the levelBoard (klipper/src/ff_eddy.c):   *)
(* an interrupt captures readings, a timer (sched.c) classifies one every  *)
(* 500us and recalibrates when the signal has been quiet, and a task woken *)
(* by the captures debounces them into the level of a virtual endstop pin. *)
(*                                                                         *)
(* Of a reading the model keeps what the code branches on: how far it is   *)
(* from the reference, whether the noise of the ring is within the limit,  *)
(* where the filtered deviation lies to the threshold and whether the      *)
(* reading is one at all; what moves the reference or the threshold        *)
(* changes these, which may take any value at every sample.                *)
(***************************************************************************)
EXTENDS Tasks, ClockArith

CONSTANTS
  RingSize,      \* FF_EDDY_NSAMP
  DriftCount,    \* FF_EDDY_DRIFT_COUNT
  HardCount,     \* FF_EDDY_HARD_COUNT
  TrigCount,     \* FF_EDDY_TRIG_COUNT
  UntrigCount,   \* FF_EDDY_UNTRIG_COUNT
  QuietMs        \* FF_EDDY_QUIET_MS

VARIABLES
  eddy,    \* ff_eddy_pin_state: TRUE when not triggered
  probe,   \* the rest of the ff_eddy_ variables
  check,   \* ff_eddy_check_trigger: what it took with interrupts off
  past,    \* auxiliary: readings past the threshold in a row, since the reset
  gross,   \* auxiliary: gross excursions in a row
  touch    \* auxiliary: a run of either has been seen since the reset

eddyvars == <<eddy, probe, check, past, gross, touch>>

EddyTypeOK ==
  /\ eddy \in BOOLEAN /\ touch \in BOOLEAN
  /\ probe \in [ timer : BOOLEAN, sample_ready : BOOLEAN, armed : BOOLEAN,
                 calibrated : BOOLEAN, hard_trigger : BOOLEAN, have_filter : BOOLEAN,
                 inrange_count : 0 .. DriftCount - 1, outrange_count : 0 .. HardCount - 1,
                 ring_count : 0 .. RingSize, quiet_start_ms : 0 .. Word - 1,
                 trig_count : 0 .. TrigCount, untrig_count : 0 .. UntrigCount ]
  /\ check \in {"none", "hard", "soft"}
  /\ past \in 0 .. TrigCount /\ gross \in 0 .. HardCount

\* ff_eddy_timer_init has added the timer.
EddyInit ==
  /\ eddy = TRUE /\ check = "none" /\ past = 0 /\ gross = 0 /\ touch = FALSE
  /\ probe = [ timer |-> TRUE, sample_ready |-> FALSE, armed |-> FALSE,
               calibrated |-> FALSE, hard_trigger |-> FALSE, have_filter |-> FALSE,
               inrange_count |-> 0, outrange_count |-> 0, ring_count |-> 0,
               quiet_start_ms |-> 0, trig_count |-> 0, untrig_count |-> 0 ]

-----------------------------------------------------------------------------
\* An interrupt has a reading.
DMA1_Channel1_IRQHandler ==
  /\ probe' = [probe EXCEPT !.sample_ready = TRUE]
  /\ sched_wake_task
  /\ UNCHANGED <<eddy, check, past, gross, touch, shut>>

\* ff_eddy_update: the counts, by the deviation of the reading from sample_ref.
Classified(p, dev) ==
  CASE ~p.armed \/ dev = "quiet" -> [p EXCEPT !.inrange_count = 0, !.outrange_count = 0]
    [] p.armed /\ dev = "touch" ->
         [p EXCEPT !.inrange_count = (@ + 1) % DriftCount, !.outrange_count = 0]
    [] p.armed /\ dev = "gross" ->
         [p EXCEPT !.outrange_count = (@ + 1) % HardCount,
                   !.hard_trigger = @ \/ p.outrange_count + 1 = HardCount]

\* ff_eddy_update, the end of it.
Recalibrated(p) ==
  [p EXCEPT !.have_filter = FALSE, !.calibrated = TRUE, !.ring_count = 0,
            !.quiet_start_ms = 0, !.inrange_count = 0, !.outrange_count = 0]

\* The time of quiet is over: now - ff_eddy_quiet_start_ms, in 32 bits.
QuietLongEnough(start, now) == (now - start) % Word >= QuietMs

\* ff_eddy_update, the common tail: the ring, the filter and the noise of the ring.
Measured(p, noisy, now) ==
  LET ring == IF p.ring_count < RingSize THEN p.ring_count + 1 ELSE RingSize
      q == [p EXCEPT !.sample_ready = FALSE, !.ring_count = ring]
      start == IF p.quiet_start_ms = 0 THEN now ELSE p.quiet_start_ms
  IN  IF ~p.have_filter
      THEN IF ring = RingSize THEN [q EXCEPT !.have_filter = TRUE, !.quiet_start_ms = now]
                              ELSE q
      ELSE IF noisy THEN [q EXCEPT !.quiet_start_ms = 0]
      ELSE IF QuietLongEnough(start, now) THEN Recalibrated(q)
      ELSE [q EXCEPT !.quiet_start_ms = start]

\* ff_eddy_timer_event: ff_eddy_update, then the first calibration arms the probe.
ff_eddy_timer_event(dev, noisy, now) ==
  LET p == IF probe.sample_ready THEN Measured(Classified(probe, dev), noisy, now) ELSE probe
      run == IF dev # "gross" \/ ~probe.armed THEN 0
             ELSE IF gross = HardCount THEN gross ELSE gross + 1
  IN  /\ probe.timer
      /\ probe' = [p EXCEPT !.armed = @ \/ p.calibrated]
      /\ gross' = IF probe.sample_ready THEN run ELSE gross
      /\ touch' = (touch \/ gross' = HardCount)
      /\ UNCHANGED <<eddy, check, past, wake, shut>>

-----------------------------------------------------------------------------
\* ff_eddy_check_trigger, to the irq_enable.
CheckRead ==
  /\ check = "none" /\ sched_check_wake
  /\ check' = IF probe.hard_trigger THEN "hard" ELSE "soft"
  /\ probe' = [probe EXCEPT !.hard_trigger = FALSE]
  /\ UNCHANGED <<eddy, past, gross, touch, shut>>

\* It returns at once when the reading is bad.
CheckBad ==
  /\ check # "none" /\ check' = "none"
  /\ UNCHANGED <<eddy, probe, past, gross, touch, wake, shut>>

CheckHard ==
  /\ check = "hard" /\ check' = "none"
  /\ eddy' = FALSE
  /\ probe' = [probe EXCEPT !.trig_count = 0, !.untrig_count = 0]
  /\ UNCHANGED <<past, gross, touch, wake, shut>>

\* thr <= filtered
CheckAbove ==
  LET trips == probe.trig_count + 1 >= TrigCount
  IN  /\ check = "soft" /\ check' = "none"
      /\ eddy' = (eddy /\ ~trips)
      /\ probe' = [probe EXCEPT !.untrig_count = 0,
                                !.trig_count = IF trips THEN TrigCount ELSE @ + 1]
      /\ past' = IF past = TrigCount THEN past ELSE past + 1
      /\ touch' = (touch \/ past' = TrigCount)
      /\ UNCHANGED <<gross, wake, shut>>

\* thr - FF_EDDY_HYSTERESIS > filtered
CheckBelow ==
  LET releases == probe.untrig_count + 1 >= UntrigCount
  IN  /\ check = "soft" /\ check' = "none"
      /\ eddy' = (eddy \/ releases)
      /\ probe' = [probe EXCEPT !.trig_count = 0,
                                !.untrig_count = IF releases THEN UntrigCount ELSE @ + 1]
      /\ past' = 0
      /\ UNCHANGED <<gross, touch, wake, shut>>

\* Inside the hysteresis band the count that would change the level starts over.
Band(p, released) ==
  IF released THEN [p EXCEPT !.trig_count = 0] ELSE [p EXCEPT !.untrig_count = 0]

CheckBand ==
  /\ check = "soft" /\ check' = "none"
  /\ probe' = Band(probe, eddy)
  /\ past' = 0
  /\ UNCHANGED <<eddy, gross, touch, wake, shut>>

-----------------------------------------------------------------------------
\* Commands run between two tasks.

\* Faulty: a gross excursion from before is left to trip the pin.
ResetKeepsHard(p) == [p EXCEPT !.trig_count = 0, !.untrig_count = 0]

\* The counts and the forced trigger are forgotten.
Reset(p) == [p EXCEPT !.trig_count = 0, !.untrig_count = 0, !.hard_trigger = FALSE]

\* What sched_timer_reset and the longjmp of a shutdown do to p: the timer is gone from
\* the list, where only sched_main adds it.
Halted(p, stops) == [p EXCEPT !.timer = @ /\ ~stops]

\* ff_eddy_home_reset, in a command that may end in a shutdown.
ff_eddy_home_reset(stops) ==
  /\ check = "none"
  /\ eddy' = TRUE /\ probe' = Halted(Reset(probe), stops)
  /\ past' = 0 /\ touch' = FALSE
  /\ UNCHANGED <<check, gross, wake>>

\* ff_eddy_pin_state = true, alone.
EddyRelease ==
  /\ check = "none"
  /\ eddy' = TRUE
  /\ UNCHANGED <<probe, check, past, gross, touch, wake>>

\* command_get_basic_param: ff_eddy_rebaseline.
ff_eddy_rebaseline ==
  /\ ~shut /\ check = "none"
  /\ eddy' = TRUE
  /\ probe' = [Reset(probe) EXCEPT !.ring_count = 0, !.have_filter = TRUE,
                 !.quiet_start_ms = 0, !.inrange_count = 0, !.outrange_count = 0,
                 !.calibrated = TRUE]
  /\ past' = 0 /\ touch' = FALSE
  /\ UNCHANGED <<check, gross, wake, shut>>

EddyShutdown ==
  /\ probe' = Halted(probe, TRUE) /\ check' = "none"
  /\ UNCHANGED <<eddy, past, gross, touch>>

CheckTrigger ==
  CheckRead \/ CheckBad \/ CheckHard \/ CheckAbove \/ CheckBelow \/ CheckBand
=============================================================================
