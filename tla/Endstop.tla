------------------------------ MODULE Endstop ------------------------------
(***************************************************************************)
(* Endstops (klipper/src/endstop.c): a timer samples the pin while the     *)
(* axis homes and fires the trsync after enough matching samples in a row. *)
(* The bed probe is the virtual endstop of the eddy current sensor: its    *)
(* pin reads a level the detector changes at any time and homing resets.   *)
(* Sample times are left out: a scheduled timer may fire at any moment.    *)
(***************************************************************************)
EXTENDS Integers

CONSTANTS
  Endstops,      \* oids of the configured endstops
  Probes,        \* those on PD0, the virtual pin of the bed probe
  Trsyncs,       \* oids of the trsyncs
  NoTs,          \* e->ts = NULL
  Reasons,       \* trigger reasons
  NoReason,      \* reason 0
  MaxSamples     \* bound: largest sample_count

VARIABLES
  es,       \* [Endstops -> struct endstop]
  eddy,     \* ff_eddy_pin_state: TRUE when released
  port,     \* [Endstops \ Probes -> BOOLEAN]: the level of the port pin
  active,   \* ff_endstop_active
  shut,     \* SchedStatus.shutdown_status # 0
  run       \* auxiliary: matching samples in a row since the last mismatch

vars == <<es, eddy, port, active, shut, run>>

EndstopRecord ==
  [ time           : BOOLEAN,              \* its timer is scheduled
    oversample     : BOOLEAN,              \* time.func is endstop_oversample_event
    ts             : Trsyncs \cup {NoTs},
    pin_high       : BOOLEAN,              \* ESF_PIN_HIGH
    homing         : BOOLEAN,              \* ESF_HOMING
    sample_count   : 0 .. MaxSamples,
    trigger_count  : 0 .. 255,
    trigger_reason : Reasons \cup {NoReason} ]

TypeOK ==
  /\ es \in [Endstops -> EndstopRecord]
  /\ eddy \in BOOLEAN /\ port \in [Endstops \ Probes -> BOOLEAN]
  /\ active \in BOOLEAN /\ shut \in BOOLEAN
  /\ run \in [Endstops -> 0 .. MaxSamples]

\* command_config_endstop: oid_alloc zeroes the struct.
ConfigEndstop ==
  [ time |-> FALSE, oversample |-> FALSE, ts |-> NoTs, pin_high |-> FALSE,
    homing |-> FALSE, sample_count |-> 0, trigger_count |-> 0,
    trigger_reason |-> NoReason ]

Init ==
  /\ es = [e \in Endstops |-> ConfigEndstop]
  /\ eddy = TRUE /\ port \in [Endstops \ Probes -> BOOLEAN]
  /\ active = FALSE /\ shut = FALSE
  /\ run = [e \in Endstops |-> 0]

-----------------------------------------------------------------------------
\* Endstops have no shutdown handler: the timer list is emptied, the structs E
\* stay as they are.
Shutdown(E) ==
  /\ es' = [e \in Endstops |-> [E[e] EXCEPT !.time = FALSE]]
  /\ shut' = TRUE

ClearShutdown == shut /\ shut' = FALSE /\ UNCHANGED <<es, eddy, port, active, run>>

\* command_endstop_home with sample_count = 0: stop looking at the pin.
HomeOff(e) ==
  /\ ~shut
  /\ es' = [es EXCEPT ![e] = [@ EXCEPT !.time = FALSE, !.sample_count = 0, !.ts = NoTs,
                                       !.homing = FALSE, !.pin_high = FALSE]]
  /\ active' = FALSE
  /\ eddy' = TRUE
  /\ UNCHANGED <<port, shut, run>>

\* Faulty: one sample more than the host asked for.
HomeOneMore(r, n, high, o, reason) ==
  [r EXCEPT !.time = TRUE, !.oversample = FALSE, !.sample_count = n + 1,
            !.trigger_count = n + 1, !.homing = TRUE, !.pin_high = high,
            !.ts = o, !.trigger_reason = reason]

\* What command_endstop_home writes before it adds the timer.
HomeStruct(r, n, high, o, reason) ==
  [r EXCEPT !.time = TRUE, !.oversample = FALSE, !.sample_count = n,
            !.trigger_count = n, !.homing = TRUE, !.pin_high = high,
            !.ts = o, !.trigger_reason = reason]

\* command_endstop_home; ff_eddy_home_reset releases the virtual endstop.
command_endstop_home(e, n, high, o, reason) ==
  LET E == [es EXCEPT ![e] = HomeStruct(@, n, high, o, reason)]
  IN  /\ ~shut
      /\ eddy' = TRUE
      /\ active' = TRUE
      /\ UNCHANGED port
      /\ run' = [run EXCEPT ![e] = 0]
      /\ \/ es' = E /\ UNCHANGED shut
         \/ Shutdown(E)                                   \* Timer too close

\* command_endstop_query_state raises ff_endstop_active and drops it again.
command_endstop_query_state(e) ==
  /\ ~shut
  /\ active' = FALSE
  /\ UNCHANGED <<es, eddy, port, shut, run>>

\* The struct after command_endstop_recover_state.
Recovered(r) ==
  [r EXCEPT !.time = FALSE, !.trigger_count = r.sample_count, !.ts = NoTs,
            !.homing = FALSE, !.pin_high = FALSE]

command_endstop_recover_state(e) ==
  /\ ~shut
  /\ es' = [es EXCEPT ![e] = Recovered(@)]
  /\ active' = FALSE
  /\ eddy' = TRUE                                         \* ff_eddy_home_reset
  /\ UNCHANGED <<port, shut, run>>

-----------------------------------------------------------------------------
\* The timer of e: endstop_event, which goes on into endstop_oversample_event
\* when the pin matches, or endstop_oversample_event itself.

\* gpio_in_read: the bed probe has no port pin of its own.
gpio_in_read(e) == IF e \in Probes THEN eddy ELSE port[e]

Match(e) == gpio_in_read(e) = es[e].pin_high

\* Faulty: trigger_count is not loaded again after a mismatch.
MismatchKeepsCount(r) == [r EXCEPT !.oversample = FALSE]

\* The pin does not match: start over.
Mismatch(r) ==
  [r EXCEPT !.oversample = FALSE,
            !.trigger_count = IF r.oversample THEN r.sample_count ELSE @]

SampleMismatch(e) ==
  /\ es[e].time /\ ~Match(e)
  /\ es' = [es EXCEPT ![e] = Mismatch(@)]
  /\ run' = [run EXCEPT ![e] = 0]
  /\ UNCHANGED <<eddy, port, active, shut>>

\* trigger_count - 1 in an uint8_t.
CountDown(r) == (r.trigger_count - 1) % 256

SampleMatch(e) ==
  /\ es[e].time /\ Match(e) /\ CountDown(es[e]) # 0
  /\ es' = [es EXCEPT ![e].oversample = TRUE, ![e].trigger_count = CountDown(es[e])]
  /\ run' = [run EXCEPT ![e] = @ + 1]
  /\ UNCHANGED <<eddy, port, active, shut>>

\* The last sample: trsync_do_trigger(e->ts, e->trigger_reason), and SF_DONE.
SampleTriggers(e) ==
  /\ es[e].time /\ Match(e) /\ CountDown(es[e]) = 0
  /\ es' = [es EXCEPT ![e].oversample = TRUE, ![e].time = FALSE]
  /\ run' = [run EXCEPT ![e] = @ + 1]
  /\ UNCHANGED <<eddy, port, active, shut>>

\* The eddy current detector (ff_eddy.c) changes its level, or a switch does.
EddyChange == eddy' = ~eddy /\ UNCHANGED <<es, port, active, shut, run>>

PortChange(e) ==
  /\ port' = [port EXCEPT ![e] = ~@]
  /\ UNCHANGED <<es, eddy, active, shut, run>>

PinChange == EddyChange \/ \E e \in Endstops \ Probes : PortChange(e)

ShutdownStep == Shutdown(es) /\ UNCHANGED <<eddy, port, active, run>>

Next ==
  \/ \E e \in Endstops : HomeOff(e)
  \/ \E e \in Endstops, n \in 1 .. MaxSamples, high \in BOOLEAN, o \in Trsyncs, p \in Reasons :
       command_endstop_home(e, n, high, o, p)
  \/ \E e \in Endstops : command_endstop_query_state(e)
  \/ \E e \in Endstops : command_endstop_recover_state(e)
  \/ \E e \in Endstops : SampleMismatch(e) \/ SampleMatch(e) \/ SampleTriggers(e)
  \/ PinChange
  \/ ShutdownStep
  \/ ClearShutdown

Spec == Init /\ [][Next]_vars

-----------------------------------------------------------------------------
\* What an endstop promises.

\* An endstop whose timer runs has a trsync to trigger (e->ts is dereferenced
\* without a check) and a count that reaches zero: it cannot wrap to 255.
ArmedIsReady ==
  \A e \in Endstops :
    es[e].time => /\ es[e].ts # NoTs
                  /\ es[e].trigger_count \in 1 .. es[e].sample_count

\* The count left and the matching samples in a row always add up to what the
\* host asked for, so that a trigger takes that many with no mismatch between,
\* whatever was sampled before, in this homing or in earlier ones.
SamplesInARow ==
  \A e \in Endstops :
    es[e].time => run[e] + es[e].trigger_count = es[e].sample_count
=============================================================================
