------------------------------ MODULE Stepper ------------------------------
(***************************************************************************)
(* Stepper motors (klipper/src/stepper.c) and the pool of queued moves     *)
(* they share (the move queue of klipper/src/basecmd.c).                   *)
(*                                                                         *)
(* A stepper's timer interrupt makes steps and loads queued moves; the     *)
(* queue_step command fills the queue from task context, taking a node of  *)
(* the pool with interrupts on in between; a trigger or a shutdown stops   *)
(* everything at any point.  Step times are left out: a scheduled timer    *)
(* may fire at any moment, and any attempt to schedule one may come too    *)
(* late.                                                                   *)
(*                                                                         *)
(* Integers are the firmware's signed 32-bit words, with POSITION_BIAS =   *)
(* Bias = 2^30, hence 2^31 = 2 * Bias.  The fields net, goal and dir are   *)
(* auxiliary: what the motor really did and what the host asked for.       *)
(***************************************************************************)
EXTENDS Integers, Sequences

CONSTANTS
  Steppers,      \* oids of the configured steppers
  SingleSched,   \* those with SF_SINGLE_SCHED: every pin edge is a step
  Nodes,         \* the nodes of move_list
  NoNode,
  Bias,          \* POSITION_BIAS
  MaxCount,      \* bound: most steps in one queue_step
  Travel         \* bound: the host keeps the axis within this many steps of 0

ASSUME StepperAssumption ==
  /\ SingleSched \subseteq Steppers
  /\ NoNode \notin Nodes
  /\ Bias \in Nat /\ MaxCount \in Nat /\ Travel \in Nat
  /\ Travel + MaxCount < Bias

VARIABLES
  st,     \* [Steppers -> Stepper], struct stepper and the pins it drives
  free,   \* move_free_list: the nodes on it
  cmd,    \* the queue_step command between move_alloc and irq_disable
  shut,   \* SchedStatus.shutdown_status # 0
  twice   \* a node was put on the free list that was already there

vars == <<st, free, cmd, shut, twice>>

Word32 == -(2 * Bias) .. 2 * Bias - 1

\* Two's complement: x as a signed word, for the sum or difference of two words.
Signed(x) == IF x >= 2 * Bias THEN x - 4 * Bias
             ELSE IF x < -(2 * Bias) THEN x + 4 * Bias
             ELSE x

AxisRange == -Travel .. Travel

Bit == {0, 1}
Xor(a, b) == IF a = b THEN 0 ELSE 1

\* struct stepper_move: flip is MF_DIR.
Move == [node : Nodes, count : 1 .. MaxCount, flip : Bit,
         dir : Bit,          \* aux: the direction the host asked for
         goal : AxisRange]       \* aux: where the axis is to be after this move

StepperRecord ==
  [ count      : 0 .. 2 * MaxCount,   \* timer events left in this move
    position   : Word32,
    last_dir   : Bit,                 \* SF_LAST_DIR
    next_dir   : Bit,                 \* SF_NEXT_DIR
    need_reset : BOOLEAN,             \* SF_NEED_RESET
    sched      : BOOLEAN,             \* its timer is scheduled
    mq         : Seq(Move),
    dir_pin    : Bit,
    step_pin   : Bit,                 \* 1 at the active level of the pin
    net        : Int,                 \* aux: steps forward minus steps back
    goal       : Int ]                \* aux: net at the end of the current move

NoCmd == [oid |-> NoNode, node |-> NoNode, count |-> 0]

TypeOK ==
  /\ st \in [Steppers -> StepperRecord]
  /\ free \in SUBSET Nodes
  /\ cmd \in [oid : Steppers, node : Nodes, count : 1 .. MaxCount] \cup {NoCmd}
  /\ shut \in BOOLEAN
  /\ twice \in BOOLEAN

-----------------------------------------------------------------------------
\* command_config_stepper, once finalize_config has built the pool.
ConfigStepper ==
  [ count |-> 0, position |-> -Bias, last_dir |-> 0, next_dir |-> 0,
    need_reset |-> FALSE, sched |-> FALSE, mq |-> <<>>, dir_pin |-> 0,
    step_pin |-> 0, net |-> 0, goal |-> 0 ]

Init ==
  /\ st = [s \in Steppers |-> ConfigStepper]
  /\ free = Nodes
  /\ cmd = NoCmd
  /\ shut = FALSE
  /\ twice = FALSE

-----------------------------------------------------------------------------
\* Operations on one struct stepper r, that of stepper s.

\* Steps of the current move still to be made.
StepsLeft(s, r) == IF s \in SingleSched THEN r.count ELSE r.count \div 2

\* Faulty: the steps of the current move still to come are not taken off.
PositionOfMoveEnd(s, r) == IF r.position < 0 THEN Signed(-r.position) ELSE r.position

\* stepper_get_position: the sign of the difference is the direction flag.
stepper_get_position(s, r) ==
  LET position == Signed(r.position - StepsLeft(s, r))
  IN  IF position < 0 THEN Signed(-position) ELSE position

\* command_stepper_get_position: the position sent to the host.
ReportedPosition(s, r) == Signed(stepper_get_position(s, r) - Bias)

\* The position after loading a move, with the direction flag in its sign.
LoadPosition(r, m) ==
  IF m.flip = 1 THEN Signed(Signed(-r.position) + m.count)
                ELSE Signed(r.position + m.count)

\* stepper_load_next, with at least one move queued; its node is freed.
stepper_load_next(s, r) ==
  LET m == Head(r.mq)
  IN  [r EXCEPT !.mq = Tail(@),
                !.count = IF s \in SingleSched THEN m.count ELSE 2 * m.count,
                !.position = LoadPosition(r, m),
                !.dir_pin = Xor(@, m.flip),
                !.goal = m.goal]

\* SF_DONE: there is no next move and the timer leaves the list.
stepper_idle(r) == [r EXCEPT !.count = 0, !.sched = FALSE]

\* Toggling the step pin.  The driver steps on every edge, or on the edge to the
\* active level, in the direction of the dir pin.
TogglePin(s, r) ==
  [r EXCEPT !.step_pin = 1 - @,
            !.net = IF s \in SingleSched \/ r.step_pin = 0
                    THEN IF r.dir_pin = 1 THEN @ + 1 ELSE @ - 1
                    ELSE @]

\* Faulty: the timer is left on the list.
StopKeepsTimer(s, r) ==
  [r EXCEPT !.position = Signed(-stepper_get_position(s, r)), !.count = 0,
            !.last_dir = 0, !.next_dir = 0, !.need_reset = TRUE, !.dir_pin = 0,
            !.step_pin = IF s \in SingleSched THEN @ ELSE 0,
            !.mq = <<>>, !.goal = r.net]

\* Faulty: moves that are still on their way are not refused.
StopNoReset(s, r) ==
  [r EXCEPT !.sched = FALSE, !.position = Signed(-stepper_get_position(s, r)),
            !.count = 0, !.last_dir = 0, !.next_dir = 0, !.dir_pin = 0,
            !.step_pin = IF s \in SingleSched THEN @ ELSE 0,
            !.mq = <<>>, !.goal = r.net]

\* stepper_stop, leaving the queue to the caller.
stepper_stop(s, r) ==
  [r EXCEPT !.sched = FALSE,
            !.position = Signed(-stepper_get_position(s, r)),
            !.count = 0,
            !.last_dir = 0, !.next_dir = 0, !.need_reset = TRUE,
            !.dir_pin = 0,
            !.step_pin = IF s \in SingleSched THEN @ ELSE 0,
            !.mq = <<>>,
            !.goal = r.net]

QueuedNodes(r) == {r.mq[i].node : i \in 1 .. Len(r.mq)}

-----------------------------------------------------------------------------
(***************************************************************************)
(* Shutdown handlers, run on the state S the longjmp left: move_reset puts *)
(* every node on the free list, stepper_shutdown forgets the queues before *)
(* it stops the steppers, so that stepper_stop frees no node a second      *)
(* time.  A command in progress is abandoned.                              *)
(***************************************************************************)
\* Faulty: stepper_shutdown does not forget the queue.
QueueKept(r) == r

\* move_queue_clear: the queue is forgotten, none of its nodes is freed.
move_queue_clear(r) == [r EXCEPT !.mq = <<>>]

Shutdown(S) ==
  /\ st' = [s \in Steppers |-> stepper_stop(s, move_queue_clear(S[s]))]
  /\ free' = Nodes
  /\ twice' = (twice \/ \E s \in Steppers : QueuedNodes(move_queue_clear(S[s])) # {})
  /\ cmd' = NoCmd
  /\ shut' = TRUE

ClearShutdown ==
  /\ shut
  /\ shut' = FALSE
  /\ UNCHANGED <<st, free, cmd, twice>>

\* The host's plan: where the axis is to be after everything queued so far.
Planned(r) == IF r.mq = <<>> THEN r.goal ELSE r.mq[Len(r.mq)].goal
Target(r, dir, count) == IF dir = 1 THEN Planned(r) + count
                         ELSE Planned(r) - count

\* The parameters move_alloc and command_queue_step refuse with a shutdown: Move
\* queue overflow, Invalid count parameter.  Faulty: the count is not looked at.
OverflowOnly(count) == free = {}
QueueStepRefused(count) == free = {} \/ count = 0

\* command_queue_step up to irq_disable: move_alloc, and the check of count.
QueueStepAlloc(s, count) ==
  /\ ~shut /\ cmd = NoCmd
  /\ Target(st[s], st[s].next_dir, count) \in AxisRange
  /\ IF QueueStepRefused(count)
     THEN Shutdown(st)
     ELSE \E n \in free :
            /\ free' = free \ {n}
            /\ cmd' = [oid |-> s, node |-> n, count |-> count]
            /\ UNCHANGED <<st, shut, twice>>

\* Faulty: SF_LAST_DIR is not updated.
PushedOldDir(r) ==
  [r EXCEPT !.mq = Append(@, [node |-> cmd.node, count |-> cmd.count,
                              flip |-> Xor(r.last_dir, r.next_dir),
                              dir  |-> r.next_dir,
                              goal |-> Target(r, r.next_dir, cmd.count)])]

\* The stepper with the move of cmd on its queue.
Pushed(r) ==
  LET m == [node |-> cmd.node, count |-> cmd.count,
            flip |-> Xor(r.last_dir, r.next_dir),
            dir  |-> r.next_dir,
            goal |-> Target(r, r.next_dir, cmd.count)]
  IN  [r EXCEPT !.mq = Append(@, m), !.last_dir = r.next_dir]

\* A move that arrives after a stop is dropped.  Faulty: it is run.
NeverStale(r) == FALSE
StaleMove(r) == r.need_reset

\* command_queue_step from irq_disable on.
QueueStepPush ==
  LET s == cmd.oid
      r == st[s]
  IN  /\ cmd # NoCmd
      /\ \/ /\ r.count # 0
            /\ st' = [st EXCEPT ![s] = Pushed(r)]
            /\ cmd' = NoCmd
            /\ UNCHANGED <<free, shut, twice>>
         \/ /\ r.count = 0 /\ StaleMove(r)
            /\ free' = free \cup {cmd.node}
            /\ twice' = (twice \/ cmd.node \in free)
            /\ cmd' = NoCmd
            /\ UNCHANGED <<st, shut>>
         \/ /\ r.count = 0 /\ ~StaleMove(r)
            /\ LET p == stepper_load_next(s, Pushed(r))
               IN  \/ /\ st' = [st EXCEPT ![s] = [p EXCEPT !.sched = TRUE]]
                      /\ free' = free \cup {cmd.node}
                      /\ twice' = (twice \/ cmd.node \in free)
                      /\ cmd' = NoCmd
                      /\ UNCHANGED shut
                   \/ Shutdown([st EXCEPT ![s] = p])     \* Timer too close

\* command_set_next_step_dir
SetNextStepDir(s, dir) ==
  /\ ~shut /\ cmd = NoCmd
  /\ st' = [st EXCEPT ![s].next_dir = dir]
  /\ UNCHANGED <<free, cmd, shut, twice>>

\* command_reset_step_clock
ResetStepClock(s) ==
  /\ ~shut /\ cmd = NoCmd
  /\ IF st[s].count # 0
     THEN Shutdown(st)           \* Can't reset time when stepper active
     ELSE /\ st' = [st EXCEPT ![s].need_reset = FALSE]
          /\ UNCHANGED <<free, cmd, shut, twice>>

-----------------------------------------------------------------------------
\* The timer interrupt of a stepper: stepper_event_edge or stepper_event_full.
\* The last event of a move loads the next one, which for event_full may lie
\* too far in the past.
StepperEvent(s) ==
  LET r == [TogglePin(s, st[s]) EXCEPT !.count = @ - 1]
  IN  /\ st[s].sched
      /\ \/ /\ r.count # 0
            /\ st' = [st EXCEPT ![s] = r]
            /\ UNCHANGED <<free, cmd, shut, twice>>
         \/ /\ r.count = 0 /\ r.mq = <<>>
            /\ st' = [st EXCEPT ![s] = stepper_idle(r)]
            /\ UNCHANGED <<free, cmd, shut, twice>>
         \/ /\ r.count = 0 /\ r.mq # <<>>
            /\ st' = [st EXCEPT ![s] = stepper_load_next(s, r)]
            /\ free' = free \cup {Head(r.mq).node}
            /\ twice' = (twice \/ Head(r.mq).node \in free)
            /\ UNCHANGED <<cmd, shut>>
         \/ /\ s \notin SingleSched
            /\ r.count = 0 /\ r.mq # <<>>
            /\ Shutdown([st EXCEPT ![s] = stepper_load_next(s, r)])

\* stepper_stop called by a trigger for the steppers in S: queues are freed.
StopSteppers(S) ==
  /\ st' = [s \in Steppers |-> IF s \in S THEN stepper_stop(s, st[s]) ELSE st[s]]
  /\ free' = free \cup UNION {QueuedNodes(st[s]) : s \in S}
  /\ twice' = (twice \/ \E s \in S : QueuedNodes(st[s]) \cap free # {})

Trigger(S) == ~shut /\ StopSteppers(S) /\ UNCHANGED <<cmd, shut>>

Next ==
  \/ \E s \in Steppers, c \in 0 .. MaxCount : QueueStepAlloc(s, c)
  \/ QueueStepPush
  \/ \E s \in Steppers, d \in Bit : SetNextStepDir(s, d)
  \/ \E s \in Steppers : ResetStepClock(s)
  \/ \E s \in Steppers : StepperEvent(s)
  \/ \E S \in SUBSET Steppers : Trigger(S)
  \/ Shutdown(st)
  \/ ClearShutdown

Spec == Init /\ [][Next]_vars

-----------------------------------------------------------------------------
\* What the steppers promise.

\* The position reported to the host, decoded from a word that holds the
\* target of the move in progress and a direction flag in its sign, is the number
\* of steps the motor made, at every moment: mid move, mid pulse, after any
\* number of reversals, and across stops and shutdowns.
PositionExact == \A s \in Steppers : ReportedPosition(s, st[s]) = st[s].net

\* A motor comes to rest where the host's moves add up to, each taken in the
\* direction set_next_step_dir had when it was queued: no step is lost or made
\* in the wrong direction between the direction flags, MF_DIR and the dir pin.
GoalReached == \A s \in Steppers : st[s].count = 0 => st[s].net = st[s].goal

\* The nodes of the move pool: each is free, held by the command that allocated
\* it, or on one queue, in one place only, and none is freed twice.
PoolExact ==
  /\ ~twice
  /\ \A n \in Nodes :
       \/ n \in free
       \/ cmd # NoCmd /\ cmd.node = n
       \/ \E s \in Steppers : n \in QueuedNodes(st[s])
  /\ cmd # NoCmd => cmd.node \notin free
  /\ \A s \in Steppers : \A i \in 1 .. Len(st[s].mq) :
       LET n == st[s].mq[i].node
       IN  /\ n \notin free
           /\ cmd # NoCmd => cmd.node # n
           /\ \A t \in Steppers : \A j \in 1 .. Len(st[t].mq) :
                st[t].mq[j].node = n => t = s /\ j = i

\* A stepper's timer is on the timer list exactly while it has steps to make, so
\* queue_step never adds a timer that is already on the list; and a stepper
\* with no steps to make has an empty queue (no queued move is stranded).
TimerMatchesMove ==
  \A s \in Steppers : /\ st[s].sched <=> st[s].count # 0
                      /\ st[s].count = 0 => st[s].mq = <<>>

\* After a stop every motor stays still, whatever the host still has in flight,
\* until it is sent reset_step_clock.
StillUntilReset ==
  [][\A s \in Steppers : st[s].need_reset => st'[s].net = st[s].net]_vars

(***************************************************************************)
(* The inductive invariant behind these properties, for one stepper: the   *)
(* sign of position is the level of the dir pin and its magnitude the goal *)
(* of the current move; each queued move continues the one before it.      *)
(***************************************************************************)
MoveFollows(m, dir, goal) ==
  /\ m.flip = Xor(dir, m.dir)
  /\ m.goal = IF m.dir = 1 THEN goal + m.count ELSE goal - m.count

PositionInv(s, r) ==
  /\ r.goal \in AxisRange /\ r.net \in AxisRange
  /\ r.position = IF r.dir_pin = 1 THEN Bias + r.goal ELSE -(Bias + r.goal)
  /\ r.goal = IF r.dir_pin = 1 THEN r.net + StepsLeft(s, r)
                              ELSE r.net - StepsLeft(s, r)

CoreInv(s, r) ==
  /\ PositionInv(s, r)
  /\ s \notin SingleSched => r.step_pin = r.count % 2
  /\ r.last_dir = IF r.mq = <<>> THEN r.dir_pin ELSE r.mq[Len(r.mq)].dir
  /\ r.mq # <<>> => MoveFollows(r.mq[1], r.dir_pin, r.goal)
  /\ \A i \in 2 .. Len(r.mq) :
       MoveFollows(r.mq[i], r.mq[i - 1].dir, r.mq[i - 1].goal)

RestInv(r) ==
  /\ r.sched <=> r.count # 0
  /\ r.count = 0 => r.mq = <<>>
  /\ r.need_reset => r.count = 0

\* The move of a command in progress keeps the axis in range, or is dropped.
CmdInv ==
  cmd # NoCmd =>
    LET r == st[cmd.oid]
    IN  r.need_reset \/ Target(r, r.next_dir, cmd.count) \in AxisRange

\* The inductive invariant: every word and flag of every stepper agrees with
\* what the motor did and what the host asked for.
StepperInv ==
  /\ \A s \in Steppers : CoreInv(s, st[s]) /\ RestInv(st[s])
  /\ CmdInv

\* A double scheduled stepper never rests on the active level of its step pin.
PulseEnds ==
  \A s \in Steppers \ SingleSched : st[s].step_pin = st[s].count % 2
=============================================================================
