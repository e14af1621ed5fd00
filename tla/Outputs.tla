------------------------------ MODULE Outputs ------------------------------
(***************************************************************************)
(* Output pins: digital outputs with software PWM (klipper/src/gpiocmds.c) *)
(* and hardware PWM outputs (klipper/src/pwmcmds.c).  Updates are queued   *)
(* with the time at which to apply them; a pin that is not at its default  *)
(* is given max_duration, after which the firmware shuts down.  Times are  *)
(* points of the wrapping clock; a timer that is due runs before the clock *)
(* goes on, as SysTick preempts everything else.                           *)
(***************************************************************************)
EXTENDS Tasks, ClockArith, Sequences

CONSTANTS
  MaxDurations,   \* max_duration as configured: 0 for none
  OnTicks,        \* on_ticks, or the value of a hardware PWM update
  Cycles,         \* cycle_ticks
  MoveCount,      \* the nodes of the shared move pool
  Ahead           \* bound: how far ahead of its time an update is queued

ASSUME OutputsAssumption ==
  /\ \A n \in MaxDurations \cup OnTicks \cup Cycles : n \in Nat
  /\ MoveCount \in Nat \ {0} /\ Ahead \in Nat   \* alloc_chunks finds room for one
  /\ \A d \in MaxDurations \cup Cycles \cup {Ahead} : d < Half   \* as klippy/mcu.py asks

VARIABLES
  dig,      \* struct digital_out_s and its pin
  pwm,      \* struct pwm_out_s and its pin
  clock,    \* timer_read_time()
  age       \* auxiliary: how long the last setting that is not the default lasts

outvars == <<dig, pwm, clock, age>>

Update == [waketime : Clock, on : OnTicks]
Queue == UNION {[1 .. k -> Update] : k \in 0 .. MoveCount}

DigitalRecord ==
  [ timer : BOOLEAN, waketime : Clock, func : {"load", "toggle"},
    on_duration : Nat, off_duration : Nat, end_time : Clock,
    max_duration : MaxDurations, cycle_time : Cycles \cup {0}, mq : Queue,
    on : BOOLEAN, toggling : BOOLEAN, check_end : BOOLEAN,   \* flags
    default_on : BOOLEAN, pin : BOOLEAN ]

PwmRecord ==
  [ timer : BOOLEAN, waketime : Clock, func : {"event", "end"},
    max_duration : MaxDurations, default_value : OnTicks, mq : Queue,
    pin : OnTicks, adding : BOOLEAN ]   \* adding: between push and sched_del_timer

OutputsTypeOK ==
  /\ dig \in DigitalRecord /\ pwm \in PwmRecord
  /\ clock \in Clock /\ age \in 0 .. Half

\* As configured: a pin with a max_duration starts at its default (klippy/mcu.py).
DigitalInit ==
  \E on, default_on \in BOOLEAN, max \in MaxDurations :
    /\ max # 0 => on = default_on
    /\ dig = [ timer |-> FALSE, waketime |-> 0, func |-> "load", on_duration |-> 0,
               off_duration |-> 0, end_time |-> 0, max_duration |-> max,
               cycle_time |-> 0, mq |-> <<>>, on |-> on, toggling |-> FALSE,
               check_end |-> FALSE, default_on |-> default_on, pin |-> on ]

PwmInit ==
  \E value, default_value \in OnTicks, max \in MaxDurations :
    /\ max # 0 => value = default_value
    /\ pwm = [ timer |-> FALSE, waketime |-> 0, func |-> "event",
               max_duration |-> max, default_value |-> default_value,
               mq |-> <<>>, pin |-> value, adding |-> FALSE ]

OutputsInit == DigitalInit /\ PwmInit /\ clock = 0 /\ age = 0

\* A scheduled timer whose time has come.
Due(o) == o.timer /\ ~Before(clock, o.waketime)

\* The times the host gives an update: in order, and perhaps one tick too late.
UpdateTime(o, t) ==
  /\ \E k \in -1 .. Ahead : t = Plus(clock, k)
  /\ o.mq # <<>> => ~Before(t, o.mq[Len(o.mq)].waketime)

-----------------------------------------------------------------------------
\* The pin is, or will be in a moment, not at its default.
DigitalUnsafe(d) == d.toggling \/ d.on # d.default_on

\* digital_out_shutdown, after sched_timer_reset.
digital_out_shutdown ==
  dig' = [dig EXCEPT !.timer = FALSE, !.pin = dig.default_on, !.on = dig.default_on,
                     !.toggling = FALSE, !.check_end = FALSE, !.mq = <<>>]

\* shutdown(...) of one of this module's functions.
DigitalStop == sched_shutdown /\ digital_out_shutdown /\ age' = 0

digital_toggle_event ==
  LET on == ~dig.on
      next == Plus(dig.waketime, IF on THEN dig.on_duration ELSE dig.off_duration)
      ends == dig.check_end /\ ~Before(next, dig.end_time)
  IN  /\ Due(dig) /\ dig.func = "toggle"
      /\ dig' = [dig EXCEPT !.pin = ~@, !.on = on,
                   !.func = IF ends THEN "load" ELSE "toggle",
                   !.waketime = IF ends THEN dig.end_time ELSE next]
      /\ UNCHANGED <<pwm, clock, age, wake, shut>>

\* Faulty: a pin that toggles is not limited.
LimitedSteady(d, on, steady) == d.max_duration # 0 /\ steady /\ on # d.default_on

\* Does max_duration apply to a setting?
Limited(d, on, steady) == d.max_duration # 0 /\ (~steady \/ on # d.default_on)

digital_load_event ==
  LET m == Head(dig.mq)
      rest == Tail(dig.mq)
      on == m.on > 0
      steady == ~on \/ m.on >= dig.cycle_time
      limited == Limited(dig, on, steady)
      limit == Plus(dig.waketime, dig.max_duration)
      check_end == limited \/ rest # <<>>
      end_time == IF rest # <<>> THEN Head(rest).waketime
                  ELSE IF limited THEN limit ELSE 0
      next == Plus(dig.waketime, m.on)
      toggles == ~steady /\ (check_end => Before(next, end_time))
  IN  /\ Due(dig) /\ dig.func = "load"
      /\ IF dig.mq = <<>>
              \/ (rest # <<>> /\ limited /\ Before(limit, Head(rest).waketime))
         THEN DigitalStop
         ELSE /\ dig' = [dig EXCEPT !.mq = rest, !.pin = on, !.on = on,
                           !.toggling = ~steady, !.check_end = check_end,
                           !.end_time = end_time,
                           !.timer = ~steady \/ check_end,
                           !.func = IF toggles THEN "toggle" ELSE "load",
                           !.waketime = IF toggles THEN next
                                        ELSE IF check_end THEN end_time ELSE @,
                           !.on_duration = IF toggles THEN m.on ELSE @,
                           !.off_duration = IF toggles THEN dig.cycle_time - m.on ELSE @]
              /\ age' = 0 /\ UNCHANGED <<wake, shut>>
      /\ UNCHANGED <<pwm, clock>>

command_set_digital_out_pwm_cycle(ticks) ==
  /\ ~shut
  /\ IF dig.mq # <<>> THEN DigitalStop
     ELSE dig' = [dig EXCEPT !.cycle_time = ticks] /\ UNCHANGED <<age, wake, shut>>
  /\ UNCHANGED <<pwm, clock>>

\* Faulty: a toggling pin is left to its toggle timer, wherever that is.
WaitsForToggleAlways(time) == dig.toggling

\* digital_toggle_event will schedule the load event when ready.
WaitsForToggle(time) == dig.toggling /\ Before(dig.waketime, time)

command_queue_digital_out(time, on) ==
  LET queued == [dig EXCEPT !.mq = Append(@, [waketime |-> time, on |-> on])]
      first == [queued EXCEPT !.end_time = time, !.check_end = TRUE]
  IN  /\ ~shut /\ UpdateTime(dig, time)
      /\ \/ /\ Len(dig.mq) = MoveCount /\ DigitalStop            \* Move queue overflow
         \/ /\ Len(dig.mq) \in 1 .. MoveCount - 1
            /\ dig' = queued /\ UNCHANGED <<age, wake, shut>>
         \/ /\ dig.mq = <<>>
            /\ IF \/ dig.check_end /\ Before(dig.end_time, time)
                  \/ ~WaitsForToggle(time) /\ Before(time, clock)  \* Timer too close
               THEN DigitalStop
               ELSE /\ dig' = IF WaitsForToggle(time) THEN first
                              ELSE [first EXCEPT !.timer = TRUE, !.waketime = time,
                                                 !.func = "load"]
                    /\ UNCHANGED <<age, wake, shut>>
      /\ UNCHANGED <<pwm, clock>>

command_update_digital_out(on) ==
  LET limited == Limited(dig, on, TRUE)
      limit == Plus(clock, dig.max_duration)
  IN  /\ ~shut
      /\ IF dig.mq # <<>> THEN DigitalStop
         ELSE /\ dig' = [dig EXCEPT !.pin = on, !.on = on, !.toggling = FALSE,
                           !.check_end = limited, !.timer = limited,
                           !.end_time = IF limited THEN limit ELSE @,
                           !.waketime = IF limited THEN limit ELSE @,
                           !.func = IF limited THEN "load" ELSE @]
              /\ age' = 0 /\ UNCHANGED <<wake, shut>>
      /\ UNCHANGED <<pwm, clock>>

-----------------------------------------------------------------------------
PwmUnsafe(p) == p.pin # p.default_value

\* pwm_shutdown, after sched_timer_reset.
pwm_shutdown ==
  pwm' = [pwm EXCEPT !.timer = FALSE, !.pin = pwm.default_value, !.func = "event",
                     !.mq = <<>>, !.adding = FALSE]

PwmStop == sched_shutdown /\ pwm_shutdown /\ age' = 0

pwm_end_event ==
  /\ Due(pwm) /\ pwm.func = "end"
  /\ PwmStop
  /\ UNCHANGED <<dig, clock>>

pwm_event ==
  LET m == Head(pwm.mq)
      rest == Tail(pwm.mq)
      limited == m.on # pwm.default_value /\ pwm.max_duration # 0
      limit == Plus(pwm.waketime, pwm.max_duration)
  IN  /\ Due(pwm) /\ pwm.func = "event"
      /\ IF rest # <<>> /\ limited /\ Before(limit, Head(rest).waketime)
         THEN PwmStop
         ELSE /\ pwm' = [pwm EXCEPT !.mq = rest, !.pin = m.on,
                           !.timer = rest # <<>> \/ limited,
                           !.func = IF rest = <<>> /\ limited THEN "end" ELSE @,
                           !.waketime = IF rest # <<>> THEN Head(rest).waketime
                                        ELSE IF limited THEN limit ELSE @]
              /\ age' = 0 /\ UNCHANGED <<wake, shut>>
      /\ UNCHANGED <<dig, clock>>

\* command_queue_pwm_out, to the irq_enable.
command_queue_pwm_out(time, value) ==
  /\ ~shut /\ ~pwm.adding /\ UpdateTime(pwm, time)
  /\ IF Len(pwm.mq) = MoveCount THEN PwmStop
     ELSE /\ pwm' = [pwm EXCEPT !.mq = Append(@, [waketime |-> time, on |-> value]),
                                !.adding = pwm.mq = <<>>]
          /\ UNCHANGED <<age, wake, shut>>
  /\ UNCHANGED <<dig, clock>>

\* The rest of it, for a queue that was empty; interrupts come in between.
PwmAddTimer ==
  LET time == Head(pwm.mq).waketime
  IN  /\ pwm.adding
      /\ IF \/ pwm.func = "end" /\ Before(pwm.waketime, time)
            \/ Before(time, clock)                               \* Timer too close
         THEN PwmStop
         ELSE /\ pwm' = [pwm EXCEPT !.timer = TRUE, !.waketime = time,
                                    !.func = "event", !.adding = FALSE]
              /\ UNCHANGED <<age, wake, shut>>
      /\ UNCHANGED <<dig, clock>>

-----------------------------------------------------------------------------
Tick(unsafe) ==
  /\ clock' = Plus(clock, 1)
  /\ age' = CASE ~unsafe -> 0 [] unsafe /\ age = Half -> age [] OTHER -> age + 1
  /\ UNCHANGED <<wake, shut>>

DigitalTick ==
  /\ ~Due(dig) /\ Tick(dig.max_duration # 0 /\ DigitalUnsafe(dig))
  /\ UNCHANGED <<dig, pwm>>

PwmTick ==
  /\ ~Due(pwm) /\ Tick(pwm.max_duration # 0 /\ PwmUnsafe(pwm))
  /\ UNCHANGED <<dig, pwm>>

DigitalNext ==
  \/ digital_toggle_event \/ digital_load_event
  \/ \E ticks \in Cycles : command_set_digital_out_pwm_cycle(ticks)
  \/ \E time \in Clock, on \in OnTicks : command_queue_digital_out(time, on)
  \/ \E on \in BOOLEAN : command_update_digital_out(on)
  \/ DigitalTick

PwmNext ==
  \/ pwm_event \/ pwm_end_event
  \/ \E time \in Clock, value \in OnTicks : command_queue_pwm_out(time, value)
  \/ PwmAddTimer
  \/ PwmTick

-----------------------------------------------------------------------------
\* A pin with a max_duration is never away from its default, toggling or not, for
\* longer than that after the last setting: an update comes in time or the firmware
\* shuts down, and then the pin is at its default.
OutputsSafe ==
  /\ (dig.max_duration # 0 /\ DigitalUnsafe(dig)) => age <= dig.max_duration
  /\ (pwm.max_duration # 0 /\ PwmUnsafe(pwm)) => age <= pwm.max_duration
  /\ dig.pin = dig.on
  /\ shut => ~DigitalUnsafe(dig) /\ ~PwmUnsafe(pwm)

\* Every queued update is applied at its own time, not before and not after, though
\* toggles, safety timeouts and further updates reschedule the one timer.
OnTime(o, loads) ==
  o.mq # <<>> =>
    /\ ~Before(Head(o.mq).waketime, clock)
    /\ (Due(o) /\ loads) => Head(o.mq).waketime = clock
UpdatesOnTime ==
  /\ OnTime(dig, dig.func = "load")
  /\ pwm.adding \/ OnTime(pwm, pwm.func = "event")
=============================================================================
