----------------------------- MODULE EddyQuiet -----------------------------
(***************************************************************************)
(* When the bed probe recalibrates: ff_eddy_update with the clock it       *)
(* reads.  ff_eddy_now_ms divides the cycle counter by its ticks per       *)
(* millisecond, and so wraps with the counter, every 2^32 ticks.           *)
(***************************************************************************)
EXTENDS EddyProbe

CONSTANT TicksPerMs   \* CONFIG_CLOCK_FREQ / 1000

VARIABLES
  clock,   \* timer_read_time()
  calm,    \* auxiliary: ticks since the ring was last found noisy or was emptied
  soon     \* auxiliary: a recalibration came before the time of quiet was over

vars == <<wake, shut, eddyvars, clock, calm, soon>>

ff_eddy_now_ms == clock \div TicksPerMs

Init == TasksInit /\ EddyInit /\ clock = 0 /\ calm = 0 /\ soon = FALSE

EddyTimer(dev, noisy) ==
  LET measured == probe.sample_ready /\ probe.have_filter
      recalibrates == measured /\ ~probe'.have_filter
  IN  /\ ff_eddy_timer_event(dev, noisy, ff_eddy_now_ms)
      /\ calm' = IF recalibrates \/ (measured /\ noisy) THEN 0 ELSE calm
      /\ soon' = (soon \/ (recalibrates /\ calm <= (QuietMs - 1) * TicksPerMs))
      /\ UNCHANGED clock

Tick ==
  /\ clock' = (clock + 1) % Word
  /\ calm' = IF calm < Word THEN calm + 1 ELSE calm
  /\ UNCHANGED <<wake, shut, eddyvars, soon>>

Next ==
  \/ \E dev \in {"quiet", "touch", "gross"}, noisy \in BOOLEAN : EddyTimer(dev, noisy)
  \/ DMA1_Channel1_IRQHandler /\ UNCHANGED <<clock, calm, soon>>
  \/ CheckTrigger /\ UNCHANGED <<clock, calm, soon>>
  \/ Tick

Spec == Init /\ [][Next]_vars

-----------------------------------------------------------------------------
\* The comment on FF_EDDY_QUIET_MS: "The signal must stay this quiet before a
\* recalibration is accepted."  The code counts whole milliseconds, so that one less
\* is taken for long enough here.
QuietBeforeRecalibration == ~soon
=============================================================================
