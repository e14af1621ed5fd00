# Verification of the Klipper firmware of the FlashForge boards

This directory holds TLA+ models of the motion control firmware in
`klipper/src` (as built for the FlashForge Creator 5 levelBoard: an N32G45x,
`armcm_timer.c`, a serial link) and of the parts of the host that its protocols
need: homing, the serial queue, buttons and the registers of the stepper
drivers. TLC checks them on small instances; TLAPS proves their safety
properties for every value of the constants.

## 1. The system and its parts

The firmware has one thread of control (`sched_main` -> `run_tasks`) and
interrupts. Tasks and command handlers run with interrupts on and turn them off
around what they share; timer callbacks run in the SysTick interrupt with
interrupts off. A `shutdown()` anywhere is a `longjmp` back to `sched_main`,
which drops all timers, calls every `DECL_SHUTDOWN` handler and goes on in a
state in which only a few commands are accepted.

| Part | State | Operations | Interacts with | Hard to get right |
|---|---|---|---|---|
| Timer list, `sched.c` | linked list of `struct timer`, head `timer_list`, hint `last_insert`, three special nodes | `sched_add_timer`, `sched_del_timer`, `sched_timer_dispatch`, `sched_timer_reset`, `periodic_event` | every driver that owns a timer; SysTick | wrap of the 32 bit clock, deleting the head while SysTick is armed for it, the stale hint, a callback that deletes other timers |
| SysTick, `generic/armcm_timer.c` | the alarm, pending bit, `timer_repeat_until` | `timer_kick`, `timer_dispatch_many`, `SysTick_Handler`, `timer_task` | timer list | a lost wake-up; running a timer early; starving tasks |
| Tasks, `sched.c` | `tasks_status`, `task_wake` flags | `sched_wake_task`, `sched_check_wake`, `run_tasks` | interrupts wake tasks | a wake between the check and the sleep instruction |
| Shutdown, `sched.c` | `shutdown_status`, reason | `sched_shutdown`, `run_shutdown`, `sched_clear_shutdown` | everything | handlers run on half updated state |
| Move queue and oids, `basecmd.c` | `move_free_list`, `struct move_queue_head`, `oids` | `move_alloc`, `move_free`, push, pop, clear, `move_reset`, `oid_alloc`, `finalize_config` | steppers, digital and pwm outputs | a node freed twice or lost across a stop or a shutdown |
| Steppers, `stepper.c` | `struct stepper`, its queue, step and dir pins | `queue_step`, `set_next_step_dir`, `reset_step_clock`, `stepper_get_position`, `stepper_event`, `stepper_stop`, `stepper_shutdown` | timer list, move queue, trsync signals | position word that encodes target and direction, moves that arrive after a stop, adding a timer twice |
| Trsync, `trsync.c` | flags, reasons, signal list, two timers | `trsync_start`, `set_timeout`, `trigger`, `add_signal`, expire and report events, `trsync_task` | endstops, steppers, host | three ways to fire that race, reports copied and sent later, dropped reports |
| Endstops, `endstop.c` | timer, counters, flags, the trsync to fire | `endstop_home`, `query_state`, `recover_state`, sampling events | pins, eddy detector, trsync | counter that must not wrap, NULL trsync, an endstop left armed |
| Eddy current probe, `ff_eddy.c` | ring of 11 samples, baseline, thresholds, debounce counters, virtual pin | `ff_eddy_update` (timer), `ff_eddy_check_trigger` (task), `DMA1_Channel1_IRQHandler`, `ff_eddy_rebaseline`, `ff_eddy_home_reset` | endstops read its pin; its timer is on the timer list | timer dropped by a shutdown and never added again; counters shared by a timer and a task; wrap of the millisecond clock |
| Command link, `command.c`, `generic/serial_irq.c` | receive and transmit buffers, 4 bit sequence number, sync flags | `console_task`, `console_sendf`, `command_find_block`, `command_dispatch`, UART interrupts | all commands and responses; host `serialqueue.c` | buffer compaction racing the receive interrupt, replies dropped when the buffer is full, retransmission |
| Outputs, `gpiocmds.c`, `pwmcmds.c` | a queue of timed updates, one timer for toggles, loads and the safety timeout | `queue_digital_out`, `update_digital_out`, `queue_pwm_out`, their events and shutdown handlers | timer list, move queue | rescheduling a timer that serves three purposes, times that wrap, a pin left on |
| Analog inputs, `adccmds.c` | sum and count of a round, invalid rounds | `query_analog_in`, `analog_in_event`, `analog_in_task` | timer list, tasks, shutdown | a round counted in the interrupt and taken by the task |
| Buttons, `buttons.c`, `extras/buttons.py` | debounced state, eight reports, `ack_count`, retransmit state | `buttons_query`, `buttons_ack`, `buttons_event`, `buttons_task`, `handle_buttons_state` | tasks, host | reports lost, repeated and acknowledged late, told apart by eight bits |
| TMC UART, `tmcuart.c`, `extras/tmc_uart.py` | the frame being sent, `ifcnt` of the host | `tmcuart_send`, its events and task, `set_register` | timer list, driver chip, host | a request dropped while busy, late answers, retries of a write |
| Host homing: `klippy/mcu.py`, `klippy/stepper.py`, `chelper/trdispatch.c` | the homing sequence, the dispatch state | `MCU_trsync.start/stop`, `MCU_endstop.home_start/home_wait`, `note_homing_end`, `handle_trsync_state` | firmware through the link | order of commands in several queues, lost answers and retries, restart of the host mid homing; several boards that must stop together |

What makes each part correct: the timer list runs each armed timer once, in
order, never early, and never loses one; the move queue neither loses nor
duplicates a node; a stepper's reported position is the steps made, a stopped
stepper stays still until the host resets it, and a stepper at rest is where
its moves add up to; a trsync fires once, for the first reason, stops all its
steppers at once, and the host hears of it; an endstop triggers after the asked
for number of samples in a row; homing ends with the axis still, its position
known, and nothing left that could stop or move it later; the console sends and
hands on every byte once and in order; the link runs every block once and in
order and tells the sender when it is done; the main loop never sleeps on a task
that was woken; a pin with a safety timeout never outlasts it and updates are
applied at their time; a reported temperature is one whole round; every press of
a button is heard once; a register the host believes written was written; the
bed probe trips for a reason seen since the homing began; boards that home
together stop together.

## 2. Modules

| Module | Models | Uses |
|---|---|---|
| `ClockArith` | 32 bit clock arithmetic, `timer_is_before` | |
| `TimerSet` | abstract promise of the scheduler to the owners of timers | `ClockArith` |
| `TimerList` | `sched.c` timers and `armcm_timer.c` at the level of `next` pointers and the SysTick alarm | refines `TimerSet` |
| `Stepper` | `stepper.c` and the move queue of `basecmd.c` | |
| `StepperProofs` | theorems about `Stepper` | `Stepper`, TLAPS |
| `Trsync` | `trsync.c` | |
| `TrsyncProofs` | theorems about `Trsync` | `Trsync`, TLAPS |
| `Endstop` | `endstop.c`, `gpio_in_read` | |
| `EndstopProofs` | theorems about `Endstop` next to an environment | `Endstop`, TLAPS |
| `Tasks` | what a driver sees of `sched.c`: its wake flag and the shutdown | |
| `MainLoop` | `run_tasks`, with the sleep and the longjmp | `Tasks` |
| `Buttons` | `buttons.c` and the host's `MCU_buttons` | `Tasks` |
| `Outputs` | `gpiocmds.c` and `pwmcmds.c` | `Tasks`, `ClockArith` |
| `TmcUart` | `tmcuart.c`, `set_register` and `RetryAsyncCommand` of the host | `Tasks` |
| `AnalogIn` | `adccmds.c` | `Tasks` |
| `EddyProbe` | `ff_eddy.c` and its timer in `sched.c` | `Tasks`, `ClockArith` |
| `EddyQuiet` | the detector with the clock it reads | `EddyProbe` |
| `Drivers` | the drivers with the scheduler and the shutdown; endstop and probe together | `Outputs`, `TmcUart`, `AnalogIn`, `EddyProbe`, INSTANCEs `Endstop` |
| `DriversProofs` | theorems about `Drivers`, `MainLoop` and `Buttons` | those, instances of `EndstopProofs` |
| `Trdispatch` | homing over several boards: `TriggerDispatch`, `trdispatch.c`, the retries of `serialhdl.py` | |
| `TrdispatchProofs` | theorems about `Trdispatch` | `Trdispatch`, TLAPS |
| `Homing` | the three together, and the host's homing sequence | INSTANCEs `Stepper`, `Trsync`, `Endstop`, refines each |
| `HomingProofs` | theorems about `Homing` | `Homing`, instances of the proofs about its parts |
| `ConsoleBytes` | byte numbers modulo `Mod`, runs of them in a buffer | |
| `ConsoleTx` | the transmit half of `serial_irq.c`, store by store | `ConsoleBytes` |
| `ConsoleRx` | the receive half of `serial_irq.c`, with the wake-up of the main loop | `ConsoleBytes` |
| `InterruptProofs` | theorems about what tasks share with interrupts: both halves of the console, and the timer list | `ConsoleTx`, `ConsoleRx`, `TimerList`, TLAPS |
| `MessageLink` | `command_find_block`, the dispatch of blocks, and the host's `serialqueue.c` | |
| `MessageLinkProofs` | theorems about `MessageLink` | `MessageLink`, TLAPS |
| `MCButtons` | the main loop and the buttons task under one scheduler | `MainLoop`, `Buttons` |
| other `MC*` | instances for TLC | |

### How state and actions correspond to the code

**TimerList.** `timer_list`, `last_insert`, `next` and `waketime` are the C
fields; `alarm`, `kick` and `pc` are SysTick. Functions of `sched.c` keep their
names. Each is atomic since it runs with interrupts off; the interrupt is split
where a callback is called (`sched_timer_dispatch`, `pc = "run"`), where it
returns (`UserDone`, `UserAgain`, `PeriodicEvent`, `DeletedEvent`, each with the
rest of `sched_timer_dispatch`), and behind that, where `timer_dispatch_many`
reads the clock and interrupts can be served (`SetAlarm`, `PastShutdown`). While a
driver's callback runs it may delete other timers (`sched_del_timer`, as
`trsync_do_trigger` does through `stepper_stop`) or shut the machine down. What a
walk along `next` comes to is the least set closed under `next` (`Path`).
`timer_repeat_until` is abstracted to the choice it makes between spinning and
deferring. `want` is auxiliary: what the owner asked for.

**Stepper.** One record per `struct stepper` with the pins it drives. Flags keep
their names in lower case (`need_reset` is `SF_NEED_RESET`). `queue_step` is two
actions, `QueueStepAlloc` and `QueueStepPush`, because `move_alloc` runs before
`irq_disable` and interrupts may come in between; every other command is one
action. Step times are left out: a scheduled timer may fire at any moment, and
any attempt to schedule one may find it too late and shut down, which covers
every timing. `Shutdown` is the composition of `move_reset` and
`stepper_shutdown`. `net` and `goal` are auxiliary: the steps the motor made, and
where the host's moves add up to. Words wrap at 32 bits (`Signed`), with
`POSITION_BIAS` as the constant `Bias`.

**Trsync.** Interrupt handlers may come between any two of the steps of
`trsync_task` (`TaskWake`, `TaskSkip`, `TaskCopy`, `TaskSend`). A report may be
dropped (`TaskSendDropped`, and the choice in `command_trsync_trigger`) since
`console_sendf` drops a message that finds no room. `told` is auxiliary: the
last report of the session that got out. `readd` records an attempt to schedule
a timer that is on the list, which would corrupt it.

**Endstop.** `endstop_event` and `endstop_oversample_event` are split by what the
sample shows: `SampleMismatch`, `SampleMatch`, `SampleTriggers`. The bed probe
(`Probes`) reads `eddy`, the virtual pin; others read a port. The reply of
`endstop_recover_state`, which the source itself marks as a bug (it goes through
a NULL encoder), is left out. In `Drivers` it is composed twice: with a detector
that may change the pin at any moment (`EndstopStep`), and with `EddyProbe`
itself (`ProbeStep`), where a command that homes also resets the detector.

**Homing.** Each rail has an endstop, a trsync and its steppers. `host[o].at` is
the next command of `MCU_trsync.start`, `home_start`, `home_wait`, `stop` and
`note_homing_end`; commands of one rail arrive in order, as they share a command
queue, and `queue_step` commands, which use another, arrive in between up to the
`reset_step_clock` sent behind them. The trdispatch thread extends timeouts and
passes on triggers meanwhile. The answer to `trsync_trigger` may be lost, and the
query is then sent again; after some tries it raises, `stop` is left before
`note_homing_end`, and `homing_move` goes on with the next endstop. The query of
the position inside `note_homing_end` may be given up too, and then the steppers
that were to follow are not reset. `host[o].todo` of a rail at rest is the set of
steppers left like this. The host may be restarted at any moment and then sends
its `on_restart` commands. A shutdown of any component is a shutdown of all.

**Tasks, MainLoop.** `wake` is the driver's `task_wake`, `shut` the shutdown
status. `MainLoop` follows one task through `run_tasks`, with the tasks before
and after it as one step each; every look at `tasks_status` is a step of its own
and interrupts come in between. A shutdown returns to the head of the loop with
`tasks_status` as it was: what was woken then waits for `periodic_event`
(auxiliary `cut`).

**Outputs.** One record per `struct digital_out_s` and `struct pwm_out_s`, pin
included. Times are clock values compared as the code compares them
(`ClockArith`); a timer that is due runs before the clock goes on, as it runs in
an interrupt. `command_queue_digital_out` runs with interrupts off as a whole;
`command_queue_pwm_out` does not and is split where it turns them on
(`PwmAddTimer`). `age` is auxiliary: the time since the last setting.

**AnalogIn.** `analog_in_event` with the reading as its input, `analog_in_task`
for the part with interrupts off. `round`, `bad` and `seen` are auxiliary: the
readings since the last round ended, and what became of them.

**Buttons.** `buttons_task` is split at its `irq_enable`: the length is copied
before it, `ack_count` and the reports are read behind it. Commands run between
two tasks, so that an acknowledgement cannot come in between, but an interrupt
can. Reports carry their number, which only the properties read.

**TmcUart.** The line is the sequence of bits the chip has seen. The frame is cut
down to its sync nibble and a few bits with repeated and single levels, so that
`tmcuart_send_event` finds runs of every kind. Reading the answer is one step:
the chip's count, garbled bits, or nothing. The chip is external: it takes a
whole frame or finds it damaged. A request that arrives while the board is shut
down is acknowledged and passed over. `RetryAsyncCommand` takes the first answer
behind the acknowledgement of its first request; retries are not waited for. The
code is not quite as strict: up to the acknowledgement `handle_callback` takes an
answer whose `#sent_time` is not before the creation of the request, which needs
a block sent since then to have been acknowledged first, and `get_response` goes
on with it when `raw_send_wait_ack` returns. That answer is left out.

**EddyProbe.** The interrupt only makes a reading ready and wakes the task. Of a
reading the model keeps the branch it selects (`dev`, `noisy`, and one action per
arm of `ff_eddy_check_trigger`); since the reference, the noise and the filter
are arithmetic on readings that may be anything, every combination is allowed.
The task is split at its `irq_enable` (`CheckRead`). `past`, `gross` and `touch`
are auxiliary. `EddyQuiet` adds the cycle counter and counts the quiet time.

**Trdispatch.** Each board's trsync is reduced to what the host sees; each
direction of each link is a queue that keeps its order, with answers and reports
lost at will. One clock stands for all, as the host converts between them;
the host's reader threads and its homing thread interleave message by message.
`host.k` is the board `start` or `stop` is at. A new session may begin while
reports of the last are on their way. `trsync_set_timeout` with a time already
past shuts a board down ("Timer too close"); here the timeout expires at once.
The board stops either way.

**ConsoleTx.** `console_sendf` takes no lock, so each of its accesses to
`transmit_pos`, `transmit_max` and the interrupt enable bit is an action, and
the transmit interrupt (`TxByte`, `TxDone`) or a shutdown may come between any
two. What it does to the part of the buffer the interrupt cannot see (`memmove`
while `transmit_max` is 0, the encoding behind `transmit_max`) is part of one of
them. Bytes are numbered as they are accepted (`gen`) and sent (`sent`).

**ConsoleRx.** `serial_rx_byte` may come between any two steps of `console_task`
and `console_pop_input`. The parser is abstracted to what it may ask to remove
(`PopCounts`): up to a SYNC, or everything it sees when there is none. `readb`
is modulo `Byte`; `Window` is the number of bytes the host lets wait. `wild`
records a `memmove` of negative length. A shutdown, in `command_dispatch` or in
an interrupt, leaves all this at any step and inside the `memmove` at any byte
(`RxShutdown`), and enters `run_tasks` anew with `tasks_status` as it was. Two
auxiliaries say what this leaves behind: `torn` counts the slots at the front of
the buffer that were moved although `receive_pos` was not stored, and `cut` marks
the sleep behind the round that was left, as in `MainLoop`.

**MessageLink.** `down` holds the blocks on the line and in the receive buffer;
the one being dispatched stays at its head, as it does in `receive_buf`. Blocks
and messages carry their full number, of which the other end only uses
`Wire(n)`, so that a confusion of two numbers is visible. The line loses and
damages data and keeps its order; `tcflush` before a retransmission is such a
loss. A message that finds no room in the transmit buffer is lost on its way.
The retransmit timer may run out at any moment. All blocks count as
`MESSAGE_MAX` bytes. The connection starts with an empty line and a firmware
that waits for any number. `wake_seq` is a `uint64_t`: for a response with number
1 it wraps, to `MaxSeq + 1` in the model, and every sender that waits is told;
only block 1 can have been sent by then.

## 3. Runs

| Run | Instance | Shows |
|---|---|---|
| `timer_list` | 2 driver timers, clock of 16 values | the list stays sorted, complete and well formed across the wrap, no walk runs off its end, nothing runs early, no wake-up is lost, and the list implements `TimerSet` |
| `stepper` | 2 steppers (one of each scheduling kind), 3 nodes, moves of up to 2 steps in both directions | exact positions and goals, exact pool, timer on the list exactly while there are steps to make, nothing moves between a stop and its reset |
| `trsync` | 2 trsyncs that compete for a signal, 2 reasons | signals and timers on their lists exactly once, first reason wins, reports are true and never contradicted, a session that fired is told to the host in the end |
| `homing` | 1 rail, 1 stepper, 2 nodes | the firmware accepts every command of the sequence, which fires, stops and reports rightly, leaves nothing behind that would stop the rail, and steppers without their reset only where the host gave up, and takes only steps of its parts; a stepper registered for a session that can fire is stopped by it |
| `console_tx` | 4 bytes, messages of 1 and 3 | bytes leave once and in order; nothing is lost; accepted bytes are sent in the end, those left behind by a shutdown included |
| `console_rx` | 6 bytes, a byte counts to 4, at most 4 wait | bytes are kept in order but for those a cut `memmove` left shifted; the loop sleeps on an unseen message only behind a round that a shutdown left |
| `console_rx_window` | the same, 6 may wait | violation: see Findings |
| `message_link` | 4 sequence numbers, 3 pending, 6 blocks, 2 losses | blocks are run once and in order, answers are not misread, senders of the blocks after the first are told in time, the receive window is kept, and every block is acknowledged in the end |
| `buttons` | the loop with one task; 1 button, 2 reports, a byte of 4 values, 2 starts of the host | no task sleeps through its wake-up; the host hears every reported change once and in order, and every report is acknowledged in the end |
| `trdispatch` | 2 boards, timeout of 2 ticks, 1 retry, any number of sessions | when one board has fired the other is stopped within the timeout; a result is true and all boards have stopped when it is given; every attempt ends |
| `drivers` | one driver at a time; clock of 8 values, queues of 2; 2 calls of `set_register`; up to 3 samples; 2 endstops | pins are safe and updates on time; a register believed written was; the line carries the frame; rounds are whole and bad ones counted; armed endstops can trigger after the asked for samples; the probe trips only for a reason since its reset |
| `eddy_quiet` | counter of 16 ticks, 2 to a millisecond, 3 ms of quiet | violation: see Findings |

In `homing` one stepper stands for the rail; that a rail with several resets them
one by one, and may give up in between, is covered by the proof.

**Bounds.** `MaxCount`, `Travel`, `MaxSamples`, `MaxAhead`, `MaxLate`, `MaxUp`,
`MaxTmcUp`, `MaxHosts`, `MaxLine`, `Calls` and the number of nodes are bounds of
the models. Queues of three moves with reversals
exercise every combination of direction flag, sign and pending move; the pool
runs dry with two or three nodes; a clock of 16 values wraps several times in
every behaviour, with half ranges, periods and latencies in the order they have
in the firmware; three samples distinguish first, middle and last. `TimerList`
uses a VIEW that identifies states that differ by a shift of all times. The
buffers of the console hold a largest and a smallest message, as the real ones
do, so that every call may find room behind, after a move, or not at all; the
moduli of the byte numbers exceed the buffers. `MessageLink` keeps one pending
block fewer than there are sequence numbers (the code keeps 12 of 16), and its
six blocks wrap the sequence numbers within the run.
`Ahead` and `MaxDurations` stay below half the clock of `Outputs`, as the times
of the host do. A byte of four values in `Buttons` is twice the buffer and more
than twice the retransmit count, the relations the real 256 has to 8 and 50; the
CONSTRAINT `CountKept` stops at a host that has lost count, of which the
properties do not speak. `MaxInvalid` bounds the count of bad rounds that a
shutdown leaves behind (a byte in the code), `NowMs` the values of the
millisecond clock in `Drivers`; the quiet time only decides when a recalibration
may come, which is at any quiet reading there. In `Trdispatch` a trsync that is
armed reports up to `MaxReport`, so that time ends after every timeout has run
out; sessions repeat without a bound. The drivers do not share state with each
other, so that `drivers` has one configured at a time.

**Fairness.** `Trsync!FairSpec`: the main loop runs `trsync_task` again and
again, SysTick runs a scheduled report timer, and since the host keeps draining
the transmit buffer not every report of a trsync finds it full (strong fairness
of the send). `ConsoleTx!TxFairSpec`: the main loop finishes a call it began, an
enabled interrupt is served, and the host queries the clock again and again, so
that acknowledgements go on being sent. `MessageLink!FairSpec`: the host reads
what arrives, its retransmit timer runs out, and the firmware goes on reading
blocks; losses are bounded by `MaxLoss`. `Buttons!ButtonsFairness`: SysTick runs
the timer, the main loop the task and the commands, the host reads and
acknowledges, and of the messages that are sent again and again not all are lost.
`Trdispatch!Fairness`: the same for the trsyncs and both host threads, time
passes, and of the periodic reports of a board some get through. No other run
assumes fairness.

**Deadlock** is checked in every run.

## 4. Proofs

TLAPS proves the following for every value of the constants that the named
assumption of the module admits. Each module of proofs first states an inductive
invariant, proves it action by action, and draws the properties from it.

| Module | Theorem | States |
|---|---|---|
| `StepperProofs` | `StepperInvariant` | the inductive invariant `TypeOK /\ StepperInv` |
| | `StepperTypeCorrect` | `TypeOK`; in particular no position word leaves its range |
| | `PositionCorrect`, `GoalCorrect` | `PositionExact`, `GoalReached` |
| | `TimerCorrect`, `PulseCorrect` | `TimerMatchesMove`, `PulseEnds` |
| | `StillCorrect` | the action property `StillUntilReset` |
| | `PoolCorrect` | `PoolExact` |
| `TrsyncProofs` | `Invariance`, `TypeCorrect` | `Inv`, `TypeOK` |
| | `ListsStayIntact` | `ListsIntact` |
| | `FirstReasonDecides`, `ReportsAreTrue` | the action properties `FirstReasonWins`, `ReportTrue` |
| `EndstopProofs` | `Invariance` | an armed endstop has a trsync and the counts add up |
| `HomingProofs` | `HomingImplementsParts` | `ImplementsParts`: every step is a step or a stutter of the endstops, of the trsyncs and of the steppers |
| | `HomingInvariance`, `HomingTypeCorrect` | `HomingInv`, `TypeOK` |
| | `SequenceIsAccepted`, `ResultIsTrue`, `RestingIsReady` | `SequenceAccepted`, `HomingResult`, `RestIsReady` |
| | `FiringStopsAll` | the action property `FiringStops` |
| | `ExactWhileHoming` | positions and pool are exact while rails home |
| `DriversProofs` | `DriversInvariance`, `DriversTypeCorrect` | `DriversInv`, `DriversTypeOK` |
| | `EndstopsAreReady`, `ProbeIsTouched` | `EndstopsReady`, `ProbeTouched` |
| | `AnalogRoundsAreWhole`, `LineIsTheFrame`, `WritesAreTrue` | `AnalogRounds`, `LineIsFrame`, `WrittenIsTrue` |
| | `OutputsAreSafe`, `UpdatesAreOnTime` | `OutputsSafe`, `UpdatesOnTime` |
| | `AsleepMeansIdle` | `AsleepNothingWoken`, of `LoopSpec` |
| | `EveryPressIsHeard` | `ButtonsHeard`, of `ButtonsSpec` |
| `InterruptProofs` | `TimerListSound`, `TimerAlarmExact` | `ListSound`, `AlarmExact` |
| | `TimerListImplements` | `ImplementsTimerSet`: `TimerList` refines `TimerSet` |
| | `TransmitInvariance`, `WireIsExact` | `TxInv`, `WireExact` |
| | `ReceiveInvariance`, `ReceivedIsInOrder`, `AsleepParserHasSeen` | `RxInv`, `ReceivedInOrder`, `AsleepHasSeen` |
| `MessageLinkProofs` | `LinkInvariance` | `LinkInv` |
| | `NumbersAreRight`, `SendersToldWhenDone`, `WindowIsKept` | `NumbersRight`, `ToldWhenDone`, `WindowKept` |
| `TrdispatchProofs` | `DispatchInvariance` | `DispatchInv` |
| | `BoardsStopTogether`, `HitsAreTrue` | `StopTogether`, `HitIsTrue` |

### The arguments

**Stepper.** None of the properties is inductive alone. `PositionExact` decodes a
word that holds the end of the current move and, in its sign, the direction: it
needs the sign to agree with the dir pin and the magnitude with the move's goal
(`PositionInv`), which in turn needs that each queued move's flip bit and goal
continue the move before it (`MoveFollows` along the queue, `CoreInv`), that a
stopped stepper has nothing queued (`RestInv`), and that the move of a command
in progress still fits when it is pushed (`CmdInv`). `PoolExact` is inductive
with `TypeOK` and is proved on its own.

**Trsync.** `Inv` adds to the types that each signal is on the list of the trsync
it points to and on no other, that no timer was added twice, that a session has a
reason, and the host was told of one, only after it fired (`SessionInv`), and that
a copy `trsync_task` holds which says "fired" is still true when it is sent, and
does not say "armed" once the host was told otherwise (`ReportInv`).

**Endstop.** `Inv` says of an armed endstop that it has a trsync, a count left,
and that this count and the matching samples in a row add up to what was asked
for. It is proved for the endstops next to any environment that moves their
pins, so that `Drivers` (twice) and `Homing` take it from an instance.

**Homing.** First the refinement, which needs only the invariants of the parts
(`PartsInv`): endstops read nothing of the others, trsyncs are fired by
endstops, and steppers are stopped by trsyncs, so the parts simulate in this
order, and a shutdown of one is a shutdown of each. Then `RailInv` ties each
place in the host's sequence to the state of the rail: what the host has sent and
heard (`HostInv`), which steppers are registered with the trsync (`SignalInv`),
what can still fire it (`FireInv`), that the reason the host took is the
trsync's (`ReasonInv`), and that the steppers wait for their reset or take moves
(`MotorInv`): at the reset and at rest the steppers in `todo` wait for it, those
still to be reset or those the host gave up on. Rails share no stepper.

**Drivers.** `DriversInv` is a conjunction over drivers that share only the
shutdown and the clock. `TouchInv`: every counter of the probe that is not zero
has a reading behind it since the reset. `RoundInv` and `CheckInv`: the sum is of
the readings of this round, and a round is handed to the task only when it is
whole. `SendingInv` and `LineInv`: where in the frame `tmcuart_send_event` is,
and that the bits on the line are the frame up to there. `WriteInv`, up to a call
that gave up: behind the request for the count no write is left, so that a count
taken for its answer is the chip's, and within a call the count has changed only
by writes of this call; a board that is shut down has nothing to report
(`ShutInv`). `OutputInv`: with all times
taken relative to the clock, the queue of a pin is in order and ahead, the one
timer is set for the first of the next toggle, the next load and the end of the
setting, and the time since the last setting plus the time to its end is at most
`max_duration`; as a timer that is due runs before the clock goes on, no time
is ever passed, and the comparisons of words are comparisons of times.

**Main loop.** `LoopInv` says at each look at `tasks_status` what has been seen of
a wake-up that has come before.

**Buttons.** The host's count leads the firmware's by the acknowledgements on
their way (`Owes`), each message is behind the host by at most a buffer, and its
reports are those of the same numbers in the buffer, so that a byte that counts
to twice the buffer tells new reports from old ones. Before its query a host hears no message
of its own (`CountKept` excludes the host of §5 that has lost count).

**Timer list.** A linked list calls for induction along it, which the prover does
not have; closed sets take its place. `Path(nx, p)` is the least set with `p` in
it that `nx` does not lead out of, so a fact about every node behind `p` is shown
by giving a set it holds on, closed under `nx`. In this way: a walk that comes to
the sentinel never comes back to a node it has left, each node has one
predecessor, linking a node in or taking one out changes `Path` by that node,
neighbours in order mean all in order, and the walk of `insert_timer` stops
between a node that is not later and one that is. Times are compared through
their offsets from the present, the ranks: all nodes but the sentinel are in a
window of less than half the clock range (`InWindow`), in which `timer_is_before`
is the order of the ranks. `GoodList` says this of one list, and each operation
has a lemma that it keeps a list good. `TimerInv` is inductive: the list is good
and the hint on it (`ListPart`); it holds what the owners asked for (`OwnerPart`);
the head is due whenever SysTick is pending or a callback runs, and otherwise the
alarm is at the head or deferred past it for a short time (`AlarmPart`). The
refinement takes from it that the head that runs is the earliest timer armed, and
due: SysTick itself looks at neither.

**Console.** `TxInv` and `RxInv` say for each store of `console_sendf` and
`console_pop_input` which bytes of the buffer hold which numbers. In the receive
half this is said of the slots from `torn` on: `RxShutdown` raises `torn` to the
bytes moved so far, behind which nothing was touched, and each pop lowers it by
what it removes. It is proved under `Window < Byte`: fewer bytes wait than
`readb` can count.
§5 is about the bytes beyond.

**MessageLink.** `SeqInv` bounds the number the firmware waits for between the
host's `receive_seq` and `send_seq`, `UpInv` and `DownInv` the numbers of what is
on the line in both directions, each in order, so that four bits stand for one
number only. `ToldInv` says of which blocks the host may be told; where
`wake_seq` wraps, `receive_seq` is 1 and the host has sent no block but 1
(`SeqInv`), so that no sender of a later block is told. `WindowInv` says how many
blocks are under way. `WindowKept` needs a window of two blocks, since
`check_send_command` looks at the window only once a block is pending.

**Trdispatch.** While no board has fired, each timeout that is set or on its way
is at most `ExpireTicks` ahead of the last report of every other board
(`BoundInv`); from the moment one has fired it reports the same time for good
(`First`), so that no timeout passes that by more. `StopInv` says which of the
boards have been asked and have answered, `TruthInv` that a hit comes from a
board that fired with it.

### Assumptions

They are named `ASSUME`s of the modules, and TLC evaluates them on the instances.
Bounds of the models may have any value. What the proofs rest on: a position
that stays below `Bias` (`Travel + MaxCount < Bias`); trsync, reason and node
constants that differ; rails that share no stepper; sample counts that fit a
byte and sums that fit 16 bits, as `adccmds.c` and `mcu.py` have them; an `IFCNT`
of more than one value; an even clock,
with safety timeouts, cycles and look-ahead below half of it, as `klippy/mcu.py`
asks; a pool of at least one node, as `alloc_chunks` finds it; a byte that counts
at least twice the reports and more than twice the retransmit count of the buttons
(256, 8, 50); a transmit buffer with room for the largest and the smallest
message; placeholder timers that differ from each other and from the drivers';
wake times of less than half the clock range less the latency, and of no more
than half of it less one period, ahead or past (an older one compared with a head
that is a period ahead would pass for one to come); a period that, with the
latency, is less than half the range; a deferral of more than the spin window and
no more than a period; fewer pending blocks than sequence numbers and a window of
two.
`LoopSpec` and `ButtonsSpec` are the two halves of the run `buttons`.

### Only model-checked

Liveness (under the fairness of `Trsync`, `ConsoleTx`, `MessageLink`, `Buttons`
and `Trdispatch`): out of the prover's reach. That every attempt over several
boards ends is checked for two boards; a single board is in §5.

## 5. Findings

`console_rx_window`: the firmware announces a receive window of 384 bytes, but
`console_pop_input` reads the 16 bit `receive_pos` with `readb`. With 256 or more
bytes waiting it removes 256 bytes more than it was asked to ("Remove from the
receive buffer the given number of bytes"); and when the count passes 256 between
two rounds of its loop, the length it passes to `memmove` is negative. A comment
above the buffer notes the `readb`, not what follows from it. `console_rx` shows
that the code is right as long as at most 255 bytes wait.

`eddy_quiet`: "The signal must stay this quiet before a recalibration is
accepted" (`FF_EDDY_QUIET_MS`), but `ff_eddy_now_ms` is the cycle counter divided
by its ticks per millisecond. It wraps to 0 after 33554 ms, and the difference to
`ff_eddy_quiet_start_ms` is taken modulo 2^32: when the counter wraps during a
time of quiet, the probe recalibrates with the next reading, whatever the time.
With the difference taken modulo the range of `ff_eddy_now_ms` the property holds
on the same instance.

Seen while modelling and stated by no run: `endstop_query_state` clears
`ff_endstop_active` ("an endstop is being queried or homed") while the endstop is
homing. `ff_eddy_rebaseline` sets `have_filter` with an empty ring, so that the
next reading takes its median over slots from before, although a comment in
`ff_eddy_update` says that "every slot is overwritten before it is read again".
After `clear_shutdown` nothing adds the detector's timer again. A host that
restarts and takes a report of its predecessor's for new loses count of the
button reports. A `set_register` that gave up may leave `ifcnt` one behind, and
the next call is then sure of a write too early. With a single board, a lost
answer to `trsync_trigger` with `REASON_PAST_END_TIME` leaves the host waiting.
When `stop` gives up on the answer to `trsync_trigger`, or `note_homing_end` on
the position, the homing fails but the steppers keep `SF_NEED_RESET`, and their
moves are dropped without a word until the next homing (`RestIsReady` says which
steppers). A shutdown between the `memmove` of `console_pop_input` and its store
to `receive_pos` leaves bytes shifted and repeated at the front of the buffer,
which the checksum and the sequence numbers make good; one in
`command_dispatch` leaves complete messages for the next `periodic_event`. The
wrap of `wake_seq` tells the sender of block 1 before that has run
(`ToldWhenDone` speaks of the blocks after it); the host asks again.

## 6. Not modelled, and the plan

Next: a host that reconnects while messages of its predecessor are on the line;
the encoding of integers in `command.c`; a rail with two steppers in the runs,
where that instance is too large for now.

Left out: register level drivers, boot code and clock set-up (no protocol state),
sensor drivers and displays that the boards do not use, pulse counters (the
pattern `AnalogIn` has in full), vendored libraries, the planner and kinematics
of the host (numerical), the registers of the converter, the statistics and the
oid table, and the recovery tooling in `tools/` and `mcu/`, which works on
images. The functions under `mcu/mainBoardGD/recovered` are rewritten from an
image one by one to compare their bytes; there is no build of them, and so no
program to model.
