----------------------------- MODULE Trdispatch -----------------------------
(***************************************************************************)
(* Homing over several micro-controllers (class TriggerDispatch in         *)
(* klippy/mcu.py, klippy/chelper/trdispatch.c): each board has a trsync    *)
(* that stops its own steppers, and reports to the host.  The host answers *)
(* the reports of the others by extending a board's timeout, and tells all *)
(* when one has fired.  Reports may be lost and everything may be late;    *)
(* each direction of each link keeps its order.  The trsyncs are those of  *)
(* module Trsync, reduced to what the host sees; the clocks of the boards, *)
(* which the host converts into each other, are one clock, counted from    *)
(* the start of the homing move.                                           *)
(***************************************************************************)
EXTENDS Integers, Sequences, FiniteSetsExt

CONSTANTS
  N,             \* number of boards; the endstop is on board 1
  ExpireTicks,   \* expire_ticks: TRSYNC_TIMEOUT
  MinExtend,     \* min_extend_ticks
  HomeEnd,       \* the end of the move
  Retries,       \* retries of SerialRetryCommand
  MaxReport,     \* bound: the last time an armed trsync reports
  MaxLine        \* bound: reports on their way from a board

ASSUME TrdispatchAssumption ==
  /\ N \in Nat \ {0} /\ ExpireTicks \in Nat \ {0} /\ MinExtend \in Nat \ {0}
  /\ HomeEnd \in Nat /\ Retries \in Nat /\ MaxReport \in Nat /\ MaxLine \in Nat

Mcus == 1 .. N
MaxTime == MaxReport + ExpireTicks + 1   \* bound

REASON_NONE == 0
REASON_ENDSTOP_HIT == 1
REASON_HOST_REQUEST == 2
REASON_PAST_END_TIME == 3
REASON_COMMS_TIMEOUT == 4
Reasons == 0 .. 4
NoParams == -1

VARIABLES
  clock,   \* ticks since the start of the move
  ts,      \* [Mcus -> the trsync of the board]
  down,    \* [Mcus -> commands on their way to the board]
  up,      \* [Mcus -> messages on their way from it]
  td,      \* struct trdispatch
  tdm,     \* [Mcus -> struct trdispatch_mcu]
  host,    \* TriggerDispatch: what the homing thread is doing
  fired    \* auxiliary: when the first trsync of the session fired, or -1

vars == <<clock, ts, down, up, td, tdm, host, fired>>

\* The clock of a report matters while the trsync is armed.
State(r, time) == [ type |-> "state", can |-> r.can, reason |-> r.reason,
                    clock |-> IF r.can THEN time ELSE 0 ]
Ack == [type |-> "ack"]
Trigger(reason) == [cmd |-> "trigger", arg |-> reason]
Query == [cmd |-> "query", arg |-> REASON_HOST_REQUEST]   \* trsync_trigger of stop
SetTimeout(time) == [cmd |-> "set_timeout", arg |-> time]

TypeOK ==
  /\ clock \in 0 .. MaxTime
  /\ ts \in [Mcus -> [can : BOOLEAN, reason : Reasons, expire : -1 .. MaxTime,
                      report : BOOLEAN, endstop : BOOLEAN]]
  /\ td \in [is_active : BOOLEAN, can_trigger : BOOLEAN]
  /\ tdm \in [Mcus -> [status : 0 .. MaxTime, expire : 0 .. MaxTime]]
  /\ host.phase \in {"idle", "starting", "homing", "stopping"}
  /\ fired \in -1 .. MaxTime

Idle(result) ==
  [ phase |-> "idle", k |-> 1, done |-> FALSE, home_end |-> FALSE,
    params |-> NoParams, left |-> 0, res |-> <<>>, result |-> result ]

Init ==
  /\ clock = 0
  /\ ts = [m \in Mcus |-> [can |-> FALSE, reason |-> REASON_NONE, expire |-> -1,
                           report |-> FALSE, endstop |-> FALSE]]
  /\ down = [m \in Mcus |-> <<>>] /\ up = [m \in Mcus |-> <<>>]
  /\ td = [is_active |-> FALSE, can_trigger |-> FALSE]
  /\ tdm = [m \in Mcus |-> [status |-> 0, expire |-> 0]]
  /\ host = Idle(REASON_NONE)
  /\ fired = -1

-----------------------------------------------------------------------------
(* The boards. *)

\* trsync_start is on its way to the board.
StartPending(m) == \E i \in DOMAIN down[m] : down[m][i].cmd = "start"

\* The board has been started for this session.
InSession(m) == ~StartPending(m) /\ (host.phase = "starting" => m < host.k)

\* trsync_do_trigger
Fire(m, reason, r) ==
  IF ts[m].can
  THEN /\ ts' = [ts EXCEPT ![m] = [r EXCEPT !.can = FALSE, !.reason = reason]]
       /\ fired' = IF fired = -1 /\ InSession(m) THEN clock ELSE fired
  ELSE ts' = [ts EXCEPT ![m] = r] /\ UNCHANGED fired

\* The endstop reads the level it waits for often enough.
EndstopHit ==
  /\ ts[1].endstop /\ ts[1].can
  /\ Fire(1, REASON_ENDSTOP_HIT, [ts[1] EXCEPT !.endstop = FALSE])
  /\ UNCHANGED <<clock, down, up, td, tdm, host>>

Expired(m) == ts[m].expire # -1 /\ ts[m].expire <= clock

trsync_expire_event(m) ==
  /\ Expired(m)
  /\ Fire(m, REASON_COMMS_TIMEOUT, [ts[m] EXCEPT !.expire = -1])
  /\ UNCHANGED <<clock, down, up, td, tdm, host>>

\* trsync_report_event and trsync_task; a report that is lost is one not sent.
trsync_report(m) ==
  /\ ts[m].report /\ Len(up[m]) < MaxLine
  /\ ts[m].can => clock <= MaxReport
  /\ up' = [up EXCEPT ![m] = Append(@, State(ts[m], clock))]
  /\ UNCHANGED <<clock, ts, down, td, tdm, host, fired>>

\* A command arrives: trsync_start, trsync_set_timeout, trsync_trigger, endstop_home.
\* The answer to trsync_trigger may be lost, the acknowledgement, which only stop
\* waits for, comes through.  A timeout already past expires; in the code sched_add_timer
\* then shuts the board down ("Timer too close"), which stops it as well.
Deliver(m) ==
  LET c == Head(down[m])
  IN  /\ down[m] # <<>>
      /\ down' = [down EXCEPT ![m] = Tail(@)]
      /\ CASE c.cmd = "start" ->
                /\ ts' = [ts EXCEPT ![m] = [@ EXCEPT !.can = TRUE, !.expire = -1,
                            !.reason = REASON_NONE, !.report = TRUE]]
                /\ UNCHANGED <<up, fired>>
           [] c.cmd = "set_timeout" ->
                /\ ts' = [ts EXCEPT ![m].expire = IF ts[m].can THEN c.arg ELSE @]
                /\ UNCHANGED <<up, fired>>
           [] c.cmd = "endstop_home" ->
                /\ ts' = [ts EXCEPT ![m].endstop = c.arg = REASON_ENDSTOP_HIT]
                /\ UNCHANGED <<up, fired>>
           [] c.cmd \in {"trigger", "query"} ->
                LET off == [ts[m] EXCEPT !.expire = -1, !.report = FALSE]
                    answer == [can |-> FALSE,
                               reason |-> IF ts[m].can THEN c.arg ELSE ts[m].reason]
                IN  /\ Fire(m, c.arg, off)
                    /\ \E sent \in {<<>>, <<State(answer, 0)>>} :
                         up' = [up EXCEPT ![m] =
                                  @ \o sent \o (IF c = Query THEN <<Ack>> ELSE <<>>)]
      /\ UNCHANGED <<clock, td, tdm, host>>

Starting(m) == StartPending(m) \/ (ts[m].can /\ ts[m].expire = -1)

\* Time passes, which matters while a trsync is armed; one that is due expires
\* first.  What the host sends to start the session arrives before the move begins.
Tick ==
  /\ clock < MaxTime /\ \E m \in Mcus : ts[m].can
  /\ \A m \in Mcus : ~Expired(m) /\ ~Starting(m)
  /\ host.phase # "starting"
  /\ clock' = clock + 1
  /\ UNCHANGED <<ts, down, up, td, tdm, host, fired>>

-----------------------------------------------------------------------------
(* The host: the homing thread. *)

\* TriggerDispatch.start begins, long after the last session; the reports that are
\* on their way are older than this one.
BeginHoming ==
  /\ host.phase = "idle" /\ \A m \in Mcus : down[m] = <<>> /\ Len(up[m]) <= MaxLine
  /\ clock' = 0
  /\ up' = [m \in Mcus |-> [i \in DOMAIN up[m] |->
              IF up[m][i].type = "state" THEN [up[m][i] EXCEPT !.clock = 0]
                                         ELSE up[m][i]]]
  /\ ts' = [m \in Mcus |-> [ts[m] EXCEPT !.expire = IF @ = -1 THEN @ ELSE 0]]
  /\ fired' = -1
  /\ host' = [Idle(REASON_NONE) EXCEPT !.phase = "starting"]
  /\ UNCHANGED <<down, td, tdm>>

\* MCU_trsync.start of board k, with trdispatch_mcu_setup.
StartMcu ==
  LET k == host.k
  IN  /\ host.phase = "starting" /\ k <= N
      /\ tdm' = [tdm EXCEPT ![k] = [status |-> 0, expire |-> ExpireTicks]]
      /\ down' = [down EXCEPT ![k] = @ \o <<[cmd |-> "start"], SetTimeout(ExpireTicks)>>]
      /\ host' = [host EXCEPT !.k = k + 1]
      /\ UNCHANGED <<clock, ts, up, td, fired>>

\* trdispatch_start, endstop_home, set_home_end_time.
StartDispatch ==
  /\ host.phase = "starting" /\ host.k = N + 1
  /\ td' = [is_active |-> TRUE, can_trigger |-> TRUE]
  /\ down' = [down EXCEPT ![1] =
                Append(@, [cmd |-> "endstop_home", arg |-> REASON_ENDSTOP_HIT])]
  /\ host' = [host EXCEPT !.phase = "homing", !.home_end = TRUE]
  /\ UNCHANGED <<clock, ts, up, tdm, fired>>

\* The completion wakes home_wait: the endstop is disarmed, trdispatch_stop, and
\* the first trsync is asked.
HomeWait ==
  /\ host.phase = "homing" /\ host.done
  /\ td' = [td EXCEPT !.is_active = FALSE]
  /\ down' = [down EXCEPT ![1] = @ \o <<[cmd |-> "endstop_home", arg |-> REASON_NONE],
                                        Query>>]
  /\ host' = [host EXCEPT !.phase = "stopping", !.k = 1, !.left = Retries,
                          !.params = NoParams]
  /\ UNCHANGED <<clock, ts, up, tdm, fired>>

-----------------------------------------------------------------------------
(* The host: what arrives. *)

\* Faulty: a board is extended by its own reports.
OwnStatus(s, m) == s[m]

\* The time up to which all other boards are known to be well; a single board has
\* only itself.
OthersStatus(s, m) == IF N = 1 THEN s[m] ELSE Min({s[o] : o \in Mcus \ {m}})

\* min_extend_ticks is unsigned, so the difference it is compared with is taken as
\* unsigned too: an earlier time looks far ahead.
FarEnough(ticks) == ticks < 0 \/ ticks >= MinExtend

\* handle_trsync_state of trdispatch.c, on a report of board m: the new td, tdm, and
\* what is sent to each board.
Dispatched(m, x) ==
  LET s == [[o \in Mcus |-> tdm[o].status] EXCEPT ![m] = x.clock]
      expire == [o \in Mcus |-> OthersStatus(s, o) + ExpireTicks]
      extended == {o \in Mcus : FarEnough(expire[o] - tdm[o].expire)}
  IN  IF ~(td.is_active /\ td.can_trigger)
      THEN [td |-> td, tdm |-> tdm, send |-> [o \in Mcus |-> <<>>]]
      ELSE IF ~x.can
      THEN [td |-> [td EXCEPT !.can_trigger = FALSE], tdm |-> tdm,
            send |-> [o \in Mcus |-> <<Trigger(REASON_HOST_REQUEST)>>]]
      ELSE [td |-> td,
            tdm |-> [o \in Mcus |->
                       [status |-> s[o],
                        expire |-> IF o \in extended THEN expire[o] ELSE tdm[o].expire]],
            send |-> [o \in Mcus |-> IF o \in extended THEN <<SetTimeout(expire[o])>>
                                                       ELSE <<>>]]

\* _handle_trsync_state of mcu.py is registered between start and stop.
Registered(m) ==
  \/ host.phase = "starting" /\ m < host.k
  \/ host.phase = "homing"
  \/ host.phase = "stopping" /\ m > host.k

PastEnd(m, x) == m = 1 /\ x.can /\ host.home_end /\ x.clock >= HomeEnd

HandleState(m) ==
  LET x == Head(up[m])
      d == Dispatched(m, x)
      late == Registered(m) /\ PastEnd(m, x)
  IN  /\ up[m] # <<>> /\ x.type = "state"
      /\ up' = [up EXCEPT ![m] = Tail(@)]
      /\ td' = d.td /\ tdm' = d.tdm
      /\ down' = [o \in Mcus |-> down[o] \o d.send[o] \o
                    (IF late /\ o = 1 THEN <<Trigger(REASON_PAST_END_TIME)>> ELSE <<>>)]
      /\ host' = [host EXCEPT !.done = @ \/ (Registered(m) /\ ~x.can),
                    !.home_end = @ /\ ~late,
                    !.params = IF host.phase = "stopping" /\ m = host.k
                               THEN x.reason ELSE @]
      /\ UNCHANGED <<clock, ts, fired>>

\* What TriggerDispatch.stop makes of the answers.
Result(res) ==
  LET bad == {i \in DOMAIN res : res[i] >= REASON_COMMS_TIMEOUT}
  IN  IF bad = {} THEN res[1] ELSE res[Min(bad)]

\* Faulty: the answer of the first board is taken for all.
FirstIsEnough(m) == FALSE

\* [trsync.stop() for trsync in self._trsyncs]
MoreToStop(m) == m < N

\* Faulty: the retries are not counted.
LeftKept(n) == n

\* retries -= 1
LeftAfter(n) == n - 1

\* raw_send_wait_ack returns; MCU_trsync.stop goes on, with a retry if no answer was
\* seen, or gives up with an error.
HandleAck(m) ==
  LET res == Append(host.res, host.params)
      resend == host.params = NoParams /\ host.left > 0
      next == host.params # NoParams /\ MoreToStop(m)
  IN  /\ up[m] # <<>> /\ Head(up[m]).type = "ack"
      /\ up' = [up EXCEPT ![m] = Tail(@)]
      /\ down' = CASE resend -> [down EXCEPT ![m] = Append(@, Query)]
                   [] next -> [down EXCEPT ![m + 1] = Append(@, Query)]
                   [] OTHER -> down
      /\ host' = CASE resend -> [host EXCEPT !.left = LeftAfter(@)]
                   [] next -> [host EXCEPT !.k = m + 1, !.res = res, !.left = Retries,
                                           !.params = NoParams]
                   [] OTHER -> IF host.params = NoParams THEN Idle(REASON_NONE)
                                                         ELSE Idle(Result(res))
      /\ UNCHANGED <<clock, ts, td, tdm, fired>>

Handle(m) == HandleState(m) \/ HandleAck(m)

Next ==
  \/ EndstopHit \/ Tick
  \/ \E m \in Mcus : trsync_expire_event(m) \/ trsync_report(m) \/ Deliver(m) \/ Handle(m)
  \/ BeginHoming \/ StartMcu \/ StartDispatch \/ HomeWait

\* Time passes, what was sent is delivered and read, the homing thread runs, and of
\* the periodic reports of a board some get through.
Fairness ==
  /\ WF_vars(Tick) /\ WF_vars(StartMcu) /\ WF_vars(StartDispatch) /\ WF_vars(HomeWait)
  /\ \A m \in Mcus : /\ WF_vars(trsync_expire_event(m)) /\ WF_vars(Deliver(m))
                     /\ WF_vars(Handle(m)) /\ SF_vars(trsync_report(m))

Spec == Init /\ [][Next]_vars /\ Fairness

-----------------------------------------------------------------------------
\* Once one board's trsync has fired, whatever the reason and whatever is lost or
\* late, every other one fires within expire_ticks: no board is extended beyond what
\* all others are known to have reached.
StopTogether ==
  (fired # -1 /\ clock > fired + ExpireTicks) => \A m \in Mcus : ~ts[m].can

\* When the host takes the endstop for hit it was hit in this session, and when
\* TriggerDispatch.stop returns an answer every board has stopped: no answer or
\* report of an earlier session or of another request is mistaken for it.
HitIsTrue ==
  (host.phase = "idle" /\ host.result # REASON_NONE) =>
    /\ \A m \in Mcus : ~ts[m].can /\ down[m] = <<>>
    /\ host.result = REASON_ENDSTOP_HIT => ts[1].reason = REASON_ENDSTOP_HIT

\* Every homing attempt ends: the host is told, though the one answer of a trsync
\* that was triggered by command, and any of the reports, may be lost.
HomingEnds == (host.phase = "homing") ~> (host.phase = "idle")
=============================================================================
