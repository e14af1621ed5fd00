------------------------------ MODULE AnalogIn ------------------------------
(***************************************************************************)
(* Analog inputs (klipper/src/adccmds.c): the temperature sensors.  A      *)
(* timer sums sample_count readings into a round; the task reports it, and *)
(* range_check_count rounds out of range, one after the other, shut the    *)
(* firmware down.  Sampling goes on after a shutdown.  A converter that is *)
(* busy only delays the event, which may come at any moment anyway.        *)
(***************************************************************************)
EXTENDS Tasks, Integers

CONSTANTS
  Readings,       \* what gpio_adc_read may return
  SampleCounts,   \* sample_count; 0 turns the input off
  RangeCounts,    \* range_check_count
  MinReading,     \* min_value and max_value, for one sample
  MaxReading,
  MaxInvalid      \* bound: invalid_count, a byte, which a shutdown leaves as it is

ASSUME AnalogAssumption ==
  /\ \A n \in Readings \cup {MinReading, MaxReading} : n \in Nat
  /\ SampleCounts \subseteq 0 .. 254       \* state, a byte, holds sample_count + 1
  /\ RangeCounts \subseteq 1 .. 255
  /\ MaxInvalid \in 1 .. 255 /\ \A c \in RangeCounts : c <= MaxInvalid
  /\ \A n \in SampleCounts, r \in Readings : n * r < 2 ^ 16

VARIABLES
  adc,     \* struct analog_in
  round,   \* auxiliary: readings and their sum since the last round ended
  bad,     \* auxiliary: rounds out of range in a row, while not shut down
  seen     \* auxiliary: was what the task reported a round?

adcvars == <<adc, round, bad, seen>>

AnalogTypeOK ==
  /\ adc \in [ timer : BOOLEAN, value : Nat, state : Nat, sample_count : SampleCounts \cup {0},
               range_check_count : RangeCounts \cup {0}, invalid_count : 0 .. MaxInvalid ]
  /\ bad \in Nat /\ seen \in BOOLEAN

\* command_config_analog_in
AnalogInit ==
  /\ adc = [ timer |-> FALSE, value |-> 0, state |-> 1, sample_count |-> 0,
             range_check_count |-> 0, invalid_count |-> 0 ]
  /\ round = [n |-> 0, sum |-> 0] /\ bad = 0 /\ seen = TRUE

-----------------------------------------------------------------------------
command_query_analog_in(samples, checks) ==
  /\ ~shut
  /\ adc' = [adc EXCEPT !.timer = samples # 0, !.sample_count = samples,
                        !.state = samples + 1, !.range_check_count = checks]
  /\ round' = [n |-> 0, sum |-> 0] /\ bad' = 0
  /\ UNCHANGED <<seen, wake, shut>>

\* analog_in_shutdown, after sched_timer_reset.
analog_in_shutdown(a) ==
  /\ adc' = IF a.sample_count = 0 THEN [a EXCEPT !.timer = FALSE]
            ELSE [a EXCEPT !.timer = TRUE, !.state = a.sample_count + 1]
  /\ round' = [n |-> 0, sum |-> 0] /\ bad' = 0
  /\ UNCHANGED seen

InRange(sum) ==
  sum \in adc.sample_count * MinReading .. adc.sample_count * MaxReading

\* Faulty: the round that was reported is gone on with.
RoundOverLate(a) == a.state > a.sample_count

\* The last round is over, and the next reading is the first of a new one.
RoundOver(a) == a.state >= a.sample_count

InvalidCount(a) == a.invalid_count + 1

analog_in_event(reading) ==
  LET first == RoundOver(adc)
      sampled == [adc EXCEPT !.value = IF first THEN reading ELSE @ + reading,
                             !.state = IF first THEN 1 ELSE @ + 1]
      full == sampled.state >= adc.sample_count
      good == InRange(sampled.value)
      trips == full /\ ~good /\ InvalidCount(adc) >= adc.range_check_count
      start == round.n = adc.sample_count
      count == [n |-> IF start THEN 1 ELSE round.n + 1,
                sum |-> IF start THEN reading ELSE round.sum + reading]
  IN  /\ adc.timer /\ (full /\ ~good => InvalidCount(adc) <= MaxInvalid)
      /\ IF trips /\ ~shut
         THEN /\ sched_shutdown
              /\ analog_in_shutdown([sampled EXCEPT !.invalid_count = InvalidCount(adc)])
         ELSE /\ adc' = [sampled EXCEPT !.invalid_count =
                           CASE ~full -> @ [] full /\ (good \/ trips) -> 0
                             [] OTHER -> InvalidCount(adc)]
              /\ round' = count
              /\ bad' = CASE count.n < adc.sample_count \/ shut -> bad
                          [] InRange(count.sum) -> 0
                          [] OTHER -> bad + 1
              /\ IF full THEN sched_wake_task ELSE UNCHANGED wake
              /\ UNCHANGED <<shut, seen>>

\* analog_in_task: with interrupts off, a round that is complete and not reported yet.
analog_in_task ==
  /\ sched_check_wake
  /\ IF adc.state = adc.sample_count
     THEN /\ adc' = [adc EXCEPT !.state = @ + 1]
          /\ seen' = (round = [n |-> adc.sample_count, sum |-> adc.value])
     ELSE UNCHANGED <<adc, seen>>
  /\ UNCHANGED <<round, bad, shut>>

AnalogNext ==
  \/ \E n \in SampleCounts, c \in RangeCounts : command_query_analog_in(n, c)
  \/ \E r \in Readings : analog_in_event(r)
  \/ analog_in_task

-----------------------------------------------------------------------------
\* What is reported is a whole round, no reading missing, doubled or of the round
\* before, though the task runs late or not at all between rounds; and rounds out of
\* range are never tolerated as often, one after the other, as the host asked to
\* shut down for.
AnalogRounds ==
  /\ seen
  /\ (~shut /\ adc.timer) => bad < adc.range_check_count
=============================================================================
