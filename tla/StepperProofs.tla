--------------------------- MODULE StepperProofs ---------------------------
(***************************************************************************)
(* Proofs about module Stepper for any number of steppers, any pool and    *)
(* any word size.                                                          *)
(***************************************************************************)
EXTENDS Stepper, TLAPS

\* A sum that fits a word is not changed by the wrap.
LEMMA SignedFits ==
  ASSUME NEW x \in Int, -(2 * Bias) <= x, x < 2 * Bias
  PROVE  Signed(x) = x
BY StepperAssumption DEF Signed

\* Popping the first of a queue leaves its last element last.
LEMMA TailKeepsLast ==
  ASSUME NEW T, NEW q \in Seq(T), q # <<>>
  PROVE  /\ Tail(q) \in Seq(T)
         /\ Len(Tail(q)) = Len(q) - 1
         /\ \A i \in 1 .. Len(q) - 1 : Tail(q)[i] = q[i + 1]
         /\ Tail(q) = <<>> => Len(q) = 1
         /\ Tail(q) # <<>> => /\ Tail(q)[Len(Tail(q))] = q[Len(q)]
                              /\ Tail(q)[1] = q[2]
                              /\ Len(q) >= 2
<1>1. /\ Tail(q) \in Seq(T) /\ Len(q) \in Nat /\ Len(q) > 0
      /\ Len(Tail(q)) = Len(q) - 1
      /\ \A i \in 1 .. Len(q) - 1 : Tail(q)[i] = q[i + 1]
  OBVIOUS
<1>2. Tail(q) = <<>> => Len(q) = 1
  BY <1>1
<1>3. Tail(q) # <<>> => Len(q) >= 2
  BY <1>1
<1>4. ASSUME Len(q) >= 2
      PROVE  Tail(q)[Len(Tail(q))] = q[Len(q)] /\ Tail(q)[1] = q[2]
  <2>1. Len(q) - 1 \in 1 .. Len(q) - 1 /\ 1 \in 1 .. Len(q) - 1
    BY <1>1, <1>4
  <2>2. Tail(q)[Len(q) - 1] = q[(Len(q) - 1) + 1] /\ Tail(q)[1] = q[1 + 1]
    BY <2>1, <1>1
  <2>3. (Len(q) - 1) + 1 = Len(q) /\ 1 + 1 = 2 /\ Len(Tail(q)) = Len(q) - 1
    BY <1>1
  <2> QED BY <2>2, <2>3
<1> QED BY <1>1, <1>2, <1>3, <1>4

\* Facts about the records of one stepper, with the operations of stepper.c.

\* stepper_stop, of a trigger or a shutdown: the words of a stopped stepper
\* still tell the position the motor has.
LEMMA StopCore ==
  ASSUME NEW s \in Steppers, NEW r \in StepperRecord, PositionInv(s, r)
  PROVE  LET q == stepper_stop(s, r)
         IN  q \in StepperRecord /\ CoreInv(s, q) /\ RestInv(q) /\ q.mq = <<>>
<1> DEFINE q == stepper_stop(s, r)
<1>0. /\ r.position \in Int /\ r.net \in Int /\ r.goal \in Int
      /\ StepsLeft(s, r) \in Int /\ Bias \in Nat /\ Travel \in Nat
      /\ Travel < Bias
      /\ r.net <= Travel /\ -Travel <= r.net
  BY StepperAssumption DEF StepperRecord, StepsLeft, PositionInv, AxisRange, Word32
<1>1. stepper_get_position(s, r) = Bias + r.net
  <2>1. r.position - StepsLeft(s, r)
          = IF r.dir_pin = 1 THEN Bias + r.net ELSE -(Bias + r.net)
    BY <1>0 DEF PositionInv
  <2> QED BY <2>1, <1>0 DEF stepper_get_position, Signed
<1>2. Signed(-stepper_get_position(s, r)) = -(Bias + r.net)
  BY <1>0, <1>1 DEF Signed
<1>3. q \in StepperRecord
  <2>1. -(Bias + r.net) \in Word32
    BY <1>0 DEF Word32
  <2>2. <<>> \in Seq(Move)
    OBVIOUS
  <2>3. 0 \in 0 .. 2 * MaxCount
    BY StepperAssumption
  <2> QED BY <1>0, <1>2, <2>1, <2>2, <2>3 DEF stepper_stop, StepperRecord, Bit
<1>4. CoreInv(s, q)
  BY <1>2, StepperAssumption
     DEF stepper_stop, StepperRecord, CoreInv, PositionInv, AxisRange, StepsLeft, Bit
<1>5. RestInv(q) /\ q.mq = <<>>
  BY DEF RestInv, stepper_stop, StepperRecord
<1> QED BY <1>3, <1>4, <1>5

\* stepper_load_next: a move loaded by a stepper at rest turns the dir pin, and
\* the sign of position with it, exactly when the host asked for it.
LEMMA LoadCore ==
  ASSUME NEW s \in Steppers, NEW r \in StepperRecord, CoreInv(s, r),
         r.count = 0, r.mq # <<>>
  PROVE  LET q == stepper_load_next(s, r)
         IN  /\ q \in StepperRecord /\ CoreInv(s, q) /\ q.count # 0
             /\ q.sched = r.sched /\ q.need_reset = r.need_reset
             /\ q.next_dir = r.next_dir /\ Planned(q) = Planned(r)
             /\ q.mq = Tail(r.mq)
<1> DEFINE m == Head(r.mq)
           q == stepper_load_next(s, r)
<1>0. r.mq \in Seq(Move)
  BY DEF StepperRecord
<1>1. /\ m \in Move /\ m = r.mq[1] /\ Len(r.mq) \in Nat /\ Len(r.mq) > 0
      /\ Tail(r.mq) \in Seq(Move)
      /\ Len(Tail(r.mq)) = Len(r.mq) - 1
      /\ \A i \in 1 .. Len(r.mq) - 1 : Tail(r.mq)[i] = r.mq[i + 1]
      /\ Tail(r.mq) = <<>> => Len(r.mq) = 1
      /\ Tail(r.mq) # <<>> => /\ Tail(r.mq)[Len(Tail(r.mq))] = r.mq[Len(r.mq)]
                              /\ Tail(r.mq)[1] = r.mq[2]
                              /\ Len(r.mq) >= 2
  BY <1>0, TailKeepsLast
<1>2. /\ m.count \in 1 .. MaxCount /\ m.goal \in AxisRange /\ m.dir \in Bit
      /\ m.flip \in Bit /\ r.dir_pin \in Bit /\ r.goal \in Int /\ r.net \in Int
      /\ MaxCount \in Nat /\ Bias \in Nat /\ Travel \in Nat
      /\ Travel + MaxCount < Bias
  BY <1>1, StepperAssumption DEF Move, StepperRecord
<1> HIDE DEF m
<1>3. MoveFollows(m, r.dir_pin, r.goal)
  BY <1>1 DEF CoreInv, PositionInv
<1>4. r.net = r.goal
  BY <1>2 DEF CoreInv, PositionInv, StepsLeft
<1>5. Xor(r.dir_pin, m.flip) = m.dir
  BY <1>2, <1>3 DEF MoveFollows, Xor, Bit
<1>6. LoadPosition(r, m) = IF m.dir = 1 THEN Bias + m.goal ELSE -(Bias + m.goal)
  <2>1. /\ r.goal \in Int /\ m.goal \in Int /\ m.count \in Int
        /\ -Travel <= r.goal /\ r.goal <= Travel
        /\ -Travel <= m.goal /\ m.goal <= Travel
    BY <1>2 DEF CoreInv, PositionInv, AxisRange
  <2>2. /\ m.goal = IF m.dir = 1 THEN r.goal + m.count ELSE r.goal - m.count
        /\ r.position = IF r.dir_pin = 1 THEN Bias + r.goal ELSE -(Bias + r.goal)
    BY <1>3 DEF MoveFollows, CoreInv, PositionInv
  <2>3. CASE m.flip = 1
    <3>1. m.dir = 1 - r.dir_pin
      BY <2>3, <1>2, <1>5 DEF Xor, Bit
    <3>2. Signed(-r.position) = -r.position
      BY <2>1, <2>2, <1>2, SignedFits
    <3>3. -r.position + m.count = IF m.dir = 1 THEN Bias + m.goal ELSE -(Bias + m.goal)
      <4>1. CASE r.dir_pin = 1
        <5>1. m.dir = 0 /\ m.goal = r.goal - m.count /\ r.position = Bias + r.goal
          BY <4>1, <3>1, <2>2
        <5> QED BY <5>1, <2>1, <1>2
      <4>2. CASE r.dir_pin = 0
        <5>1. m.dir = 1 /\ m.goal = r.goal + m.count /\ r.position = -(Bias + r.goal)
          BY <4>2, <3>1, <2>2
        <5> QED BY <5>1, <2>1, <1>2
      <4> QED BY <4>1, <4>2, <1>2 DEF Bit
    <3>4. Signed(-r.position + m.count) = -r.position + m.count
      BY <2>1, <3>3, <1>2, SignedFits
    <3> QED BY <2>1, <2>2, <2>3, <3>2, <3>3, <3>4 DEF LoadPosition
  <2>4. CASE m.flip = 0
    <3>1. m.dir = r.dir_pin
      BY <2>4, <1>2, <1>5 DEF Xor, Bit
    <3>2. r.position + m.count = IF m.dir = 1 THEN Bias + m.goal ELSE -(Bias + m.goal)
      <4>1. CASE r.dir_pin = 1
        <5>1. m.dir = 1 /\ m.goal = r.goal + m.count /\ r.position = Bias + r.goal
          BY <4>1, <3>1, <2>2
        <5> QED BY <5>1, <2>1, <1>2
      <4>2. CASE r.dir_pin = 0
        <5>1. m.dir = 0 /\ m.goal = r.goal - m.count /\ r.position = -(Bias + r.goal)
          BY <4>2, <3>1, <2>2
        <5> QED BY <5>1, <2>1, <1>2
      <4> QED BY <4>1, <4>2, <1>2 DEF Bit
    <3>3. Signed(r.position + m.count) = r.position + m.count
      BY <2>1, <3>2, <1>2, SignedFits
    <3> QED BY <2>4, <3>2, <3>3 DEF LoadPosition
  <2> QED BY <2>3, <2>4, <1>2 DEF Bit
<1>7. /\ q.mq = Tail(r.mq) /\ q.goal = m.goal /\ q.dir_pin = m.dir
      /\ q.position = LoadPosition(r, m) /\ q.net = r.net
      /\ q.sched = r.sched /\ q.need_reset = r.need_reset
      /\ q.next_dir = r.next_dir /\ q.last_dir = r.last_dir
      /\ q.step_pin = r.step_pin
      /\ q.count = IF s \in SingleSched THEN m.count ELSE 2 * m.count
  BY <1>5 DEF stepper_load_next, StepperRecord, m
<1>8. q.count \in 1 .. 2 * MaxCount /\ StepsLeft(s, q) = m.count
  BY <1>2, <1>7 DEF StepsLeft
<1>9. q \in StepperRecord
  <2>1. LoadPosition(r, m) \in Word32
    BY <1>2, <1>6 DEF Word32, AxisRange
  <2>2. m.goal \in Int
    BY <1>2 DEF AxisRange
  <2>3. q.count \in 0 .. 2 * MaxCount
    BY <1>8, <1>2
  <2>4. Xor(r.dir_pin, m.flip) \in Bit
    BY <1>5, <1>2
  <2> QED BY <1>1, <1>7, <2>1, <2>2, <2>3, <2>4 DEF stepper_load_next, StepperRecord, m
<1> HIDE DEF q
<1>10. CoreInv(s, q)
  <2>1. q.goal \in AxisRange /\ q.net \in AxisRange
    BY <1>2, <1>7 DEF CoreInv, PositionInv
  <2>2. q.position = IF q.dir_pin = 1 THEN Bias + q.goal ELSE -(Bias + q.goal)
    BY <1>6, <1>7
  <2>3. q.goal = IF q.dir_pin = 1 THEN q.net + StepsLeft(s, q)
                                  ELSE q.net - StepsLeft(s, q)
    BY <1>3, <1>4, <1>7, <1>8 DEF MoveFollows
  <2>4. s \notin SingleSched => q.step_pin = q.count % 2
    BY <1>2, <1>7 DEF CoreInv, PositionInv
  <2>5. q.last_dir = IF q.mq = <<>> THEN q.dir_pin ELSE q.mq[Len(q.mq)].dir
    <3>1. r.mq[Len(r.mq)].dir = IF q.mq = <<>> THEN q.dir_pin
                                              ELSE q.mq[Len(q.mq)].dir
      BY <1>1, <1>7
    <3> QED BY <3>1, <1>7 DEF CoreInv, PositionInv
  <2>6. q.mq # <<>> => MoveFollows(q.mq[1], q.dir_pin, q.goal)
    <3>1. q.mq # <<>> => q.mq[1] = r.mq[2] /\ 2 \in 2 .. Len(r.mq)
      BY <1>1, <1>7
    <3>2. q.mq # <<>> => MoveFollows(r.mq[2], r.mq[1].dir, r.mq[1].goal)
      BY <3>1 DEF CoreInv, PositionInv
    <3> QED BY <3>1, <3>2, <1>1, <1>7
  <2>7. ASSUME NEW i \in 2 .. Len(q.mq)
        PROVE  MoveFollows(q.mq[i], q.mq[i - 1].dir, q.mq[i - 1].goal)
    <3>1. /\ i + 1 \in 2 .. Len(r.mq) /\ q.mq[i] = r.mq[i + 1]
          /\ q.mq[i - 1] = r.mq[i] /\ (i + 1) - 1 = i
      BY <1>1, <1>7
    <3>2. MoveFollows(r.mq[i + 1], r.mq[(i + 1) - 1].dir, r.mq[(i + 1) - 1].goal)
      BY <3>1 DEF CoreInv, PositionInv
    <3> QED BY <3>1, <3>2
  <2> QED BY <2>1, <2>2, <2>3, <2>4, <2>5, <2>6, <2>7 DEF CoreInv, PositionInv
<1>11. Planned(q) = Planned(r)
  <2>1. r.mq[Len(r.mq)].goal = IF q.mq = <<>> THEN q.goal ELSE q.mq[Len(q.mq)].goal
    BY <1>1, <1>7
  <2> QED BY <2>1 DEF Planned
<1> QED BY <1>2, <1>7, <1>8, <1>9, <1>10, <1>11 DEF q
\* The step or unstep event of stepper_event_edge and stepper_event_full.
LEMMA EventCore ==
  ASSUME NEW s \in Steppers, NEW r \in StepperRecord, CoreInv(s, r), r.count # 0
  PROVE  LET q == [TogglePin(s, r) EXCEPT !.count = @ - 1]
         IN  /\ q \in StepperRecord /\ CoreInv(s, q)
             /\ q.sched = r.sched /\ q.need_reset = r.need_reset
             /\ q.next_dir = r.next_dir /\ q.mq = r.mq /\ q.goal = r.goal
             /\ q.count = r.count - 1
<1> DEFINE q == [TogglePin(s, r) EXCEPT !.count = @ - 1]
<1>1. /\ q.sched = r.sched /\ q.need_reset = r.need_reset
      /\ q.next_dir = r.next_dir /\ q.last_dir = r.last_dir
      /\ q.mq = r.mq /\ q.goal = r.goal /\ q.position = r.position
      /\ q.dir_pin = r.dir_pin /\ q.count = r.count - 1
      /\ q.step_pin = 1 - r.step_pin
      /\ q.net = IF s \in SingleSched \/ r.step_pin = 0
                 THEN IF r.dir_pin = 1 THEN r.net + 1 ELSE r.net - 1
                 ELSE r.net
  BY DEF TogglePin, StepperRecord
<1>2. /\ r.count \in Int /\ r.count > 0 /\ r.step_pin \in Bit /\ r.dir_pin \in Bit
      /\ r.net \in Int /\ r.goal \in Int /\ Travel \in Nat
      /\ -Travel <= r.net /\ r.net <= Travel
      /\ -Travel <= r.goal /\ r.goal <= Travel
  BY StepperAssumption DEF StepperRecord, CoreInv, PositionInv, AxisRange
<1>3. q \in StepperRecord
  <2>1. q.count \in 0 .. 2 * MaxCount
    BY <1>1, <1>2, StepperAssumption DEF StepperRecord
  <2>2. q.step_pin \in Bit /\ q.net \in Int
    BY <1>1, <1>2 DEF Bit
  <2> QED BY <1>1, <2>1, <2>2 DEF TogglePin, StepperRecord
<1> HIDE DEF q
<1>4. s \notin SingleSched => q.step_pin = q.count % 2
  BY <1>1, <1>2 DEF CoreInv, PositionInv, Bit
<1>5. StepsLeft(s, q) = IF s \in SingleSched \/ r.step_pin = 0
                        THEN StepsLeft(s, r) - 1 ELSE StepsLeft(s, r)
  <2>1. CASE s \in SingleSched
    BY <2>1, <1>1, <1>2 DEF StepsLeft
  <2>2. CASE s \notin SingleSched
    <3>1. r.step_pin = r.count % 2
      BY <2>2 DEF CoreInv, PositionInv
    <3>2. (r.count - 1) \div 2 = IF r.count % 2 = 0 THEN (r.count \div 2) - 1
                                                    ELSE r.count \div 2
      BY <1>2
    <3> QED BY <2>2, <3>1, <3>2, <1>1 DEF StepsLeft
  <2> QED BY <2>1, <2>2
<1>6. StepsLeft(s, r) \in Int /\ StepsLeft(s, r) >= 0
      /\ (s \in SingleSched \/ r.step_pin = 0 => StepsLeft(s, r) >= 1)
  BY <1>2 DEF StepsLeft, CoreInv, PositionInv, Bit
<1>7. r.goal = IF r.dir_pin = 1 THEN r.net + StepsLeft(s, r)
                                ELSE r.net - StepsLeft(s, r)
  BY DEF CoreInv, PositionInv
<1>8. /\ q.goal = IF q.dir_pin = 1 THEN q.net + StepsLeft(s, q)
                                   ELSE q.net - StepsLeft(s, q)
      /\ q.net \in AxisRange
  BY <1>1, <1>2, <1>5, <1>6, <1>7 DEF AxisRange
<1>9. CoreInv(s, q)
  BY <1>1, <1>4, <1>8 DEF CoreInv, PositionInv
<1> QED BY <1>1, <1>3, <1>9 DEF q

\* move_queue_push in queue_step: the new move continues the last one queued.
LEMMA PushCore ==
  ASSUME NEW s \in Steppers, NEW r \in StepperRecord, CoreInv(s, r),
         cmd \in [oid : Steppers, node : Nodes, count : 1 .. MaxCount],
         Target(r, r.next_dir, cmd.count) \in AxisRange
  PROVE  LET q == Pushed(r)
         IN  /\ q \in StepperRecord /\ CoreInv(s, q) /\ q.mq # <<>>
             /\ q.sched = r.sched /\ q.need_reset = r.need_reset
             /\ q.next_dir = r.next_dir /\ q.count = r.count
             /\ Len(q.mq) = Len(r.mq) + 1
             /\ q.mq[Len(r.mq) + 1].node = cmd.node
             /\ \A i \in 1 .. Len(r.mq) : q.mq[i] = r.mq[i]
<1> DEFINE m == [node |-> cmd.node, count |-> cmd.count,
                 flip |-> Xor(r.last_dir, r.next_dir),
                 dir  |-> r.next_dir,
                 goal |-> Target(r, r.next_dir, cmd.count)]
           q == Pushed(r)
<1>1. m \in Move
  BY DEF Move, Xor, Bit, StepperRecord
<1>2. /\ m.node = cmd.node /\ m.flip = Xor(r.last_dir, m.dir)
      /\ m.dir = r.next_dir /\ m.count = cmd.count
      /\ m.goal = IF m.dir = 1 THEN Planned(r) + m.count ELSE Planned(r) - m.count
  BY DEF Target
<1>3. r.mq \in Seq(Move) /\ Len(r.mq) \in Nat /\ r.next_dir \in Bit
  BY DEF StepperRecord
<1>4. /\ q.mq = Append(r.mq, m) /\ q.last_dir = r.next_dir
      /\ q.sched = r.sched /\ q.need_reset = r.need_reset
      /\ q.next_dir = r.next_dir /\ q.count = r.count /\ q.goal = r.goal
      /\ q.position = r.position /\ q.dir_pin = r.dir_pin /\ q.net = r.net
      /\ q.step_pin = r.step_pin
  BY DEF Pushed, StepperRecord
<1> HIDE DEF m
<1>5. /\ Append(r.mq, m) \in Seq(Move) /\ Append(r.mq, m) # <<>>
      /\ Len(Append(r.mq, m)) = Len(r.mq) + 1
      /\ Append(r.mq, m)[Len(r.mq) + 1] = m
      /\ \A i \in 1 .. Len(r.mq) : Append(r.mq, m)[i] = r.mq[i]
  BY <1>1, <1>3
<1>6. q \in StepperRecord
  BY <1>3, <1>5 DEF Pushed, StepperRecord, m
<1> HIDE DEF q
<1>7. q.last_dir = q.mq[Len(q.mq)].dir
  BY <1>2, <1>4, <1>5
<1>8. StepsLeft(s, q) = StepsLeft(s, r)
  BY <1>4 DEF StepsLeft
<1>9. /\ MoveFollows(q.mq[1], q.dir_pin, q.goal)
      /\ \A i \in 2 .. Len(q.mq) :
           MoveFollows(q.mq[i], q.mq[i - 1].dir, q.mq[i - 1].goal)
  <2>1. CASE r.mq = <<>>
    <3>1. Len(q.mq) = 1 /\ q.mq[1] = m
      BY <2>1, <1>4, <1>5
    <3>2. Planned(r) = r.goal /\ r.last_dir = r.dir_pin
      BY <2>1 DEF Planned, CoreInv, PositionInv
    <3> QED BY <3>1, <3>2, <1>2, <1>4 DEF MoveFollows
  <2>2. CASE r.mq # <<>>
    <3>1. Len(r.mq) >= 1 /\ 1 \in 1 .. Len(r.mq) /\ Len(r.mq) \in 1 .. Len(r.mq)
      BY <2>2, <1>3
    <3>2. /\ r.last_dir = r.mq[Len(r.mq)].dir
          /\ Planned(r) = r.mq[Len(r.mq)].goal
          /\ MoveFollows(r.mq[1], r.dir_pin, r.goal)
      BY <2>2 DEF Planned, CoreInv, PositionInv
    <3>3. MoveFollows(q.mq[1], q.dir_pin, q.goal)
      BY <3>1, <3>2, <1>4, <1>5
    <3>4. ASSUME NEW i \in 2 .. Len(q.mq)
          PROVE  MoveFollows(q.mq[i], q.mq[i - 1].dir, q.mq[i - 1].goal)
      <4>1. CASE i = Len(r.mq) + 1
        <5>1. q.mq[i] = m /\ i - 1 = Len(r.mq) /\ q.mq[Len(r.mq)] = r.mq[Len(r.mq)]
          BY <4>1, <3>1, <1>3, <1>4, <1>5
        <5> QED BY <5>1, <3>2, <1>2 DEF MoveFollows
      <4>2. CASE i # Len(r.mq) + 1
        <5>1. /\ i \in 2 .. Len(r.mq) /\ i \in 1 .. Len(r.mq)
              /\ i - 1 \in 1 .. Len(r.mq)
          BY <4>2, <1>3, <1>4, <1>5
        <5>2. MoveFollows(r.mq[i], r.mq[i - 1].dir, r.mq[i - 1].goal)
          BY <5>1 DEF CoreInv, PositionInv
        <5> QED BY <5>1, <5>2, <1>4, <1>5
      <4> QED BY <4>1, <4>2
    <3> QED BY <3>3, <3>4
  <2> QED BY <2>1, <2>2
<1>10. CoreInv(s, q)
  BY <1>4, <1>5, <1>7, <1>8, <1>9 DEF CoreInv, PositionInv
<1> QED BY <1>2, <1>4, <1>5, <1>6, <1>10 DEF q

-----------------------------------------------------------------------------
\* The inductive step, one action at a time.

\* The inductive invariant.
AllInv == TypeOK /\ StepperInv

\* Replacing the record of one stepper by a good one.
LEMMA OneStepper ==
  ASSUME AllInv, NEW s \in Steppers, NEW q \in StepperRecord,
         CoreInv(s, q), RestInv(q), st' = [st EXCEPT ![s] = q]
  PROVE  /\ st' \in [Steppers -> StepperRecord]
         /\ st'[s] = q /\ \A t \in Steppers \ {s} : st'[t] = st[t]
         /\ \A t \in Steppers : CoreInv(t, st'[t]) /\ RestInv(st'[t])
<1>1. st \in [Steppers -> StepperRecord]
  BY DEF AllInv, TypeOK
<1>2. st'[s] = q /\ \A t \in Steppers \ {s} : st'[t] = st[t]
  BY <1>1
<1>3. ASSUME NEW t \in Steppers
      PROVE  CoreInv(t, st'[t]) /\ RestInv(st'[t])
  BY <1>2 DEF AllInv, StepperInv
<1> QED BY <1>1, <1>2, <1>3

\* A shutdown, from any state of the steppers whose words are right.
LEMMA ShutdownInv ==
  ASSUME NEW S \in [Steppers -> StepperRecord], twice \in BOOLEAN,
         \A s \in Steppers : PositionInv(s, S[s]), Shutdown(S)
  PROVE  AllInv'
<1>1. ASSUME NEW s \in Steppers
      PROVE  /\ st'[s] \in StepperRecord /\ CoreInv(s, st'[s]) /\ RestInv(st'[s])
             /\ st'[s].mq = <<>>
  <2> DEFINE c == move_queue_clear(S[s])
  <2>1. c \in StepperRecord
    <3>1. <<>> \in Seq(Move)
      OBVIOUS
    <3> QED BY <3>1 DEF move_queue_clear, StepperRecord
  <2>2. /\ c.goal = S[s].goal /\ c.net = S[s].net /\ c.position = S[s].position
        /\ c.dir_pin = S[s].dir_pin /\ c.count = S[s].count
    BY DEF move_queue_clear, StepperRecord
  <2>3. PositionInv(s, c)
    BY <2>2 DEF PositionInv, StepsLeft
  <2>4. st'[s] = stepper_stop(s, c)
    BY DEF Shutdown
  <2> HIDE DEF c
  <2> QED BY <2>1, <2>3, <2>4, StopCore
<1>2. st' \in [Steppers -> StepperRecord]
  BY <1>1 DEF Shutdown
<1>3. TypeOK'
  BY <1>2 DEF TypeOK, Shutdown
<1>4. StepperInv'
  BY <1>1 DEF StepperInv, CmdInv, Shutdown
<1> QED BY <1>3, <1>4 DEF AllInv

\* config_stepper leaves every motor at rest.
LEMMA InitInv == Init => AllInv
<1> SUFFICES ASSUME Init PROVE AllInv
  OBVIOUS
<1>1. ConfigStepper \in StepperRecord
  <2>1. <<>> \in Seq(Move) /\ -Bias \in Word32 /\ 0 \in 0 .. 2 * MaxCount
    BY StepperAssumption DEF Word32
  <2> QED BY <2>1 DEF ConfigStepper, StepperRecord, Bit
<1>2. ASSUME NEW s \in Steppers
      PROVE  CoreInv(s, ConfigStepper) /\ RestInv(ConfigStepper)
  BY StepperAssumption
     DEF ConfigStepper, CoreInv, PositionInv, RestInv, StepsLeft, AxisRange
<1>3. TypeOK
  BY <1>1 DEF Init, TypeOK
<1>4. StepperInv
  BY <1>2 DEF Init, StepperInv, CmdInv
<1> QED BY <1>3, <1>4 DEF AllInv

\* command_queue_step takes a move from the pool, or shuts the firmware down.
LEMMA AllocInv ==
  ASSUME AllInv, NEW s \in Steppers, NEW c \in 0 .. MaxCount, QueueStepAlloc(s, c)
  PROVE  AllInv'
<1>1. CASE free = {} \/ c = 0
  <2>1. Shutdown(st)
    BY <1>1 DEF QueueStepAlloc, QueueStepRefused
  <2>2. \A t \in Steppers : PositionInv(t, st[t])
    BY DEF AllInv, StepperInv, CoreInv
  <2> QED BY <2>1, <2>2, ShutdownInv DEF AllInv, TypeOK
<1>2. CASE ~(free = {} \/ c = 0)
  <2>1. PICK n \in free :
          /\ free' = free \ {n}
          /\ cmd' = [oid |-> s, node |-> n, count |-> c]
          /\ UNCHANGED <<st, shut, twice>>
    BY <1>2 DEF QueueStepAlloc, QueueStepRefused
  <2>2. cmd' \in [oid : Steppers, node : Nodes, count : 1 .. MaxCount]
    BY <1>2, <2>1, StepperAssumption DEF AllInv, TypeOK
  <2>3. TypeOK'
    BY <2>1, <2>2 DEF AllInv, TypeOK
  <2>4. CmdInv'
    BY <2>1 DEF QueueStepAlloc, QueueStepRefused, CmdInv, Target, Planned
  <2>5. StepperInv'
    BY <2>1, <2>4 DEF AllInv, StepperInv
  <2> QED BY <2>3, <2>5 DEF AllInv
<1> QED BY <1>1, <1>2

\* command_queue_step puts the move into the queue, behind those that wait.
LEMMA PushInv ==
  ASSUME AllInv, QueueStepPush
  PROVE  AllInv'
<1> DEFINE s == cmd.oid
           r == st[s]
<1>1. /\ cmd \in [oid : Steppers, node : Nodes, count : 1 .. MaxCount]
      /\ s \in Steppers /\ r \in StepperRecord
      /\ CoreInv(s, r) /\ RestInv(r) /\ cmd # NoCmd
  BY DEF QueueStepPush, StaleMove, AllInv, TypeOK, StepperInv
<1>2. r.need_reset \/ Target(r, r.next_dir, cmd.count) \in AxisRange
  BY <1>1 DEF AllInv, StepperInv, CmdInv
<1>3. CASE /\ r.count # 0
           /\ st' = [st EXCEPT ![s] = Pushed(r)]
           /\ cmd' = NoCmd
           /\ UNCHANGED <<free, shut, twice>>
  <2>1. Pushed(r) \in StepperRecord /\ CoreInv(s, Pushed(r)) /\ RestInv(Pushed(r))
    BY <1>1, <1>2, <1>3, PushCore DEF RestInv
  <2>2. /\ st' \in [Steppers -> StepperRecord]
        /\ \A t \in Steppers : CoreInv(t, st'[t]) /\ RestInv(st'[t])
    BY <1>1, <1>3, <2>1, OneStepper
  <2> QED BY <1>3, <2>2 DEF AllInv, TypeOK, StepperInv, CmdInv
<1>4. CASE /\ r.count = 0 /\ r.need_reset
           /\ free' = free \cup {cmd.node}
           /\ twice' = (twice \/ cmd.node \in free)
           /\ cmd' = NoCmd
           /\ UNCHANGED <<st, shut>>
  BY <1>1, <1>4 DEF AllInv, TypeOK, StepperInv, CmdInv
<1>5. ASSUME r.count = 0, ~r.need_reset
      PROVE  LET p == stepper_load_next(s, Pushed(r))
             IN  p \in StepperRecord /\ CoreInv(s, p) /\ p.count # 0 /\ ~p.need_reset
  <2> DEFINE q == Pushed(r)
  <2>1. /\ q \in StepperRecord /\ CoreInv(s, q) /\ q.mq # <<>> /\ q.count = 0
        /\ ~q.need_reset
    BY <1>1, <1>2, <1>5, PushCore
  <2> HIDE DEF q, r, s
  <2>2. s \in Steppers
    BY <1>1
  <2>3. LET p == stepper_load_next(s, q)
        IN  p \in StepperRecord /\ CoreInv(s, p) /\ p.count # 0 /\ ~p.need_reset
    BY <2>1, <2>2, LoadCore
  <2> QED BY <2>3 DEF q
<1> DEFINE p == stepper_load_next(s, Pushed(r))
<1>6. CASE /\ r.count = 0 /\ ~r.need_reset
           /\ st' = [st EXCEPT ![s] = [p EXCEPT !.sched = TRUE]]
           /\ free' = free \cup {cmd.node}
           /\ twice' = (twice \/ cmd.node \in free)
           /\ cmd' = NoCmd
           /\ UNCHANGED shut
  <2>1. p \in StepperRecord /\ CoreInv(s, p) /\ p.count # 0 /\ ~p.need_reset
    BY <1>5, <1>6
  <2> HIDE DEF p
  <2> DEFINE z == [p EXCEPT !.sched = TRUE]
  <2>2. /\ z \in StepperRecord /\ z.sched = TRUE
        /\ z.count = p.count /\ z.goal = p.goal /\ z.net = p.net
        /\ z.position = p.position /\ z.dir_pin = p.dir_pin /\ z.mq = p.mq
        /\ z.last_dir = p.last_dir /\ z.step_pin = p.step_pin
        /\ z.need_reset = p.need_reset
    BY <2>1 DEF StepperRecord
  <2>3. st' = [st EXCEPT ![s] = z]
    BY <1>6
  <2> HIDE DEF z
  <2>4. CoreInv(s, z) /\ RestInv(z)
    BY <2>1, <2>2 DEF CoreInv, PositionInv, RestInv, StepsLeft
  <2>5. /\ st' \in [Steppers -> StepperRecord]
        /\ \A t \in Steppers : CoreInv(t, st'[t]) /\ RestInv(st'[t])
    BY <1>1, <2>2, <2>3, <2>4, OneStepper
  <2> QED BY <1>1, <1>6, <2>5 DEF AllInv, TypeOK, StepperInv, CmdInv
<1>7. CASE r.count = 0 /\ ~r.need_reset /\ Shutdown([st EXCEPT ![s] = p])
  <2>1. p \in StepperRecord /\ CoreInv(s, p)
    BY <1>5, <1>7
  <2> HIDE DEF p
  <2>2. [st EXCEPT ![s] = p] \in [Steppers -> StepperRecord]
    BY <1>1, <2>1 DEF AllInv, TypeOK
  <2>3. \A t \in Steppers : PositionInv(t, [st EXCEPT ![s] = p][t])
    BY <1>1, <2>1 DEF AllInv, TypeOK, StepperInv, CoreInv
  <2> QED BY <1>7, <2>2, <2>3, ShutdownInv DEF AllInv, TypeOK
<1> QED BY <1>3, <1>4, <1>6, <1>7 DEF QueueStepPush, StaleMove

\* stepper_event steps, loads the next move or ends.
LEMMA EventInv ==
  ASSUME AllInv, NEW s \in Steppers, StepperEvent(s)
  PROVE  AllInv'
<1> DEFINE r == [TogglePin(s, st[s]) EXCEPT !.count = @ - 1]
<1>1. st[s] \in StepperRecord /\ CoreInv(s, st[s]) /\ RestInv(st[s])
  BY DEF AllInv, TypeOK, StepperInv
<1>2. st[s].sched /\ st[s].count # 0 /\ ~st[s].need_reset
  BY <1>1 DEF StepperEvent, RestInv
<1>3. /\ r \in StepperRecord /\ CoreInv(s, r)
      /\ r.sched = st[s].sched /\ r.need_reset = st[s].need_reset
      /\ r.next_dir = st[s].next_dir /\ r.mq = st[s].mq /\ r.goal = st[s].goal
      /\ r.count = st[s].count - 1
  BY <1>1, <1>2, EventCore
<1> DEFINE l == stepper_load_next(s, r)
<1>4. ASSUME r.count = 0, r.mq # <<>>
      PROVE  /\ l \in StepperRecord /\ CoreInv(s, l) /\ l.count # 0
             /\ l.sched /\ ~l.need_reset
             /\ l.next_dir = st[s].next_dir /\ Planned(l) = Planned(st[s])
  <2> HIDE DEF r
  <2>1. /\ l \in StepperRecord /\ CoreInv(s, l) /\ l.count # 0
        /\ l.sched = r.sched /\ l.need_reset = r.need_reset
        /\ l.next_dir = r.next_dir /\ Planned(l) = Planned(r)
    BY <1>3, <1>4, LoadCore
  <2>2. Planned(r) = Planned(st[s])
    BY <1>3 DEF Planned
  <2> QED BY <1>2, <1>3, <2>1, <2>2
<1>5. ASSUME NEW q \in StepperRecord, CoreInv(s, q), RestInv(q),
             st' = [st EXCEPT ![s] = q],
             ~q.need_reset, q.next_dir = st[s].next_dir, Planned(q) = Planned(st[s]),
             free' \in SUBSET Nodes, twice' \in BOOLEAN, UNCHANGED <<cmd, shut>>
      PROVE  AllInv'
  <2>1. /\ st' \in [Steppers -> StepperRecord] /\ st'[s] = q
        /\ \A t \in Steppers \ {s} : st'[t] = st[t]
        /\ \A t \in Steppers : CoreInv(t, st'[t]) /\ RestInv(st'[t])
    BY <1>5, OneStepper
  <2>2. CmdInv'
    <3> SUFFICES ASSUME cmd' # NoCmd
                 PROVE  st'[cmd.oid].need_reset
                          \/ Target(st'[cmd.oid], st'[cmd.oid].next_dir, cmd.count)
                               \in AxisRange
      BY <1>5 DEF CmdInv, Target, Planned
    <3>1. cmd.oid \in Steppers /\ cmd # NoCmd
      BY <1>5 DEF AllInv, TypeOK
    <3>2. st[cmd.oid].need_reset
            \/ Target(st[cmd.oid], st[cmd.oid].next_dir, cmd.count) \in AxisRange
      BY <3>1 DEF AllInv, StepperInv, CmdInv
    <3>3. CASE cmd.oid = s
      BY <3>2, <3>3, <2>1, <1>2, <1>5 DEF Target
    <3>4. CASE cmd.oid # s
      BY <3>1, <3>2, <3>4, <2>1
    <3> QED BY <3>3, <3>4
  <2> QED BY <1>5, <2>1, <2>2 DEF AllInv, TypeOK, StepperInv
<1>6. CASE r.count # 0 /\ st' = [st EXCEPT ![s] = r]
           /\ UNCHANGED <<free, cmd, shut, twice>>
  <2> HIDE DEF r
  <2>1. Planned(r) = Planned(st[s])
    BY <1>3 DEF Planned
  <2>2. RestInv(r)
    BY <1>2, <1>3, <1>6 DEF RestInv
  <2>3. free' \in SUBSET Nodes /\ twice' \in BOOLEAN
    BY <1>6 DEF AllInv, TypeOK
  <2> QED BY <1>2, <1>3, <1>5, <1>6, <2>1, <2>2, <2>3
<1>7. CASE r.count = 0 /\ r.mq = <<>> /\ st' = [st EXCEPT ![s] = stepper_idle(r)]
           /\ UNCHANGED <<free, cmd, shut, twice>>
  <2> HIDE DEF r
  <2> DEFINE q == stepper_idle(r)
  <2>1. /\ q \in StepperRecord /\ q.count = r.count /\ ~q.sched
        /\ q.goal = r.goal /\ q.net = r.net /\ q.position = r.position
        /\ q.dir_pin = r.dir_pin /\ q.mq = r.mq /\ q.last_dir = r.last_dir
        /\ q.step_pin = r.step_pin /\ q.need_reset = r.need_reset
        /\ q.next_dir = r.next_dir
    <3>1. 0 \in 0 .. 2 * MaxCount
      BY StepperAssumption
    <3> QED BY <1>3, <1>7, <3>1 DEF stepper_idle, StepperRecord
  <2>2. st' = [st EXCEPT ![s] = q]
    BY <1>7
  <2> HIDE DEF q
  <2>3. CoreInv(s, q) /\ RestInv(q)
    BY <1>3, <1>7, <2>1 DEF CoreInv, PositionInv, RestInv, StepsLeft
  <2>4. Planned(q) = Planned(st[s])
    BY <1>3, <1>7, <2>1 DEF Planned
  <2>5. free' \in SUBSET Nodes /\ twice' \in BOOLEAN
    BY <1>7 DEF AllInv, TypeOK
  <2> QED BY <1>2, <1>3, <1>5, <1>7, <2>1, <2>2, <2>3, <2>4, <2>5
<1>8. CASE /\ r.count = 0 /\ r.mq # <<>>
           /\ st' = [st EXCEPT ![s] = l]
           /\ free' = free \cup {Head(r.mq).node}
           /\ twice' = (twice \/ Head(r.mq).node \in free)
           /\ UNCHANGED <<cmd, shut>>
  <2> HIDE DEF r
  <2>1. Head(r.mq).node \in Nodes
    <3>1. r.mq \in Seq(Move)
      BY <1>3 DEF StepperRecord
    <3>2. Head(r.mq) \in Move
      BY <1>8, <3>1
    <3> QED BY <3>2 DEF Move
  <2>2. free' \in SUBSET Nodes /\ twice' \in BOOLEAN
    BY <1>8, <2>1 DEF AllInv, TypeOK
  <2>3. RestInv(l)
    BY <1>4, <1>8 DEF RestInv
  <2> HIDE DEF l
  <2> QED BY <1>4, <1>5, <1>8, <2>2, <2>3
<1>9. CASE r.count = 0 /\ r.mq # <<>> /\ Shutdown([st EXCEPT ![s] = l])
  <2>1. l \in StepperRecord /\ CoreInv(s, l)
    BY <1>4, <1>9
  <2> HIDE DEF l
  <2>2. [st EXCEPT ![s] = l] \in [Steppers -> StepperRecord]
    BY <2>1 DEF AllInv, TypeOK
  <2>3. \A t \in Steppers : PositionInv(t, [st EXCEPT ![s] = l][t])
    BY <2>1 DEF AllInv, TypeOK, StepperInv, CoreInv
  <2> QED BY <1>9, <2>2, <2>3, ShutdownInv DEF AllInv, TypeOK
<1> QED BY <1>6, <1>7, <1>8, <1>9 DEF StepperEvent

\* stepper_stop, called for the steppers of a trsync that fires.
LEMMA StopInv ==
  ASSUME AllInv, NEW S \in SUBSET Steppers, Trigger(S)
  PROVE  AllInv'
<1>1. ASSUME NEW s \in Steppers
      PROVE  /\ st'[s] \in StepperRecord /\ CoreInv(s, st'[s]) /\ RestInv(st'[s])
             /\ s \in S => st'[s].need_reset
             /\ s \notin S => st'[s] = st[s]
  <2>1. st[s] \in StepperRecord /\ CoreInv(s, st[s]) /\ RestInv(st[s])
    BY DEF AllInv, TypeOK, StepperInv
  <2>2. CASE s \in S
    <3>1. st'[s] = stepper_stop(s, st[s])
      BY <2>2 DEF Trigger, StopSteppers
    <3>2. st'[s].need_reset
      BY <2>1, <3>1 DEF stepper_stop, StepperRecord
    <3>3. PositionInv(s, st[s])
      BY <2>1 DEF CoreInv
    <3>4. st'[s] \in StepperRecord /\ CoreInv(s, st'[s]) /\ RestInv(st'[s])
      BY <2>1, <3>1, <3>3, StopCore
    <3> QED BY <2>2, <3>2, <3>4
  <2>3. CASE s \notin S
    <3>1. st'[s] = st[s]
      BY <2>3 DEF Trigger, StopSteppers
    <3> QED BY <2>1, <2>3, <3>1
  <2> QED BY <2>2, <2>3
<1>2. st' \in [Steppers -> StepperRecord]
  <2>1. st' = [s \in Steppers |-> st'[s]]
    BY DEF Trigger, StopSteppers
  <2> QED BY <1>1, <2>1
<1>3. ASSUME NEW s \in Steppers PROVE QueuedNodes(st[s]) \subseteq Nodes
  <2>1. st[s].mq \in Seq(Move)
    BY DEF AllInv, TypeOK, StepperRecord
  <2>2. \A i \in 1 .. Len(st[s].mq) : st[s].mq[i] \in Move
    BY <2>1
  <2> QED BY <2>2 DEF QueuedNodes, Move
<1>4. TypeOK'
  <2>1. free' \in SUBSET Nodes
    BY <1>3 DEF Trigger, StopSteppers, AllInv, TypeOK
  <2>2. twice' \in BOOLEAN
    BY DEF Trigger, StopSteppers
  <2> QED BY <1>2, <2>1, <2>2 DEF Trigger, AllInv, TypeOK
<1>5. CmdInv'
  <2> SUFFICES ASSUME cmd # NoCmd
               PROVE  st'[cmd.oid].need_reset
                        \/ Target(st'[cmd.oid], st'[cmd.oid].next_dir, cmd.count)
                             \in AxisRange
    BY DEF Trigger, CmdInv, Target, Planned
  <2>1. cmd.oid \in Steppers
    BY DEF AllInv, TypeOK
  <2>2. st[cmd.oid].need_reset
          \/ Target(st[cmd.oid], st[cmd.oid].next_dir, cmd.count) \in AxisRange
    BY DEF AllInv, StepperInv, CmdInv
  <2> QED BY <1>1, <2>1, <2>2
<1> QED BY <1>1, <1>4, <1>5 DEF AllInv, StepperInv

\* command_set_next_step_dir changes what the next move is queued with.
LEMMA SetNextStepDirInv ==
  ASSUME AllInv, NEW s \in Steppers, NEW d \in Bit, SetNextStepDir(s, d)
  PROVE  AllInv'
<1> DEFINE q == [st[s] EXCEPT !.next_dir = d]
<1>1. st[s] \in StepperRecord /\ CoreInv(s, st[s]) /\ RestInv(st[s])
  BY DEF AllInv, TypeOK, StepperInv
<1>2. /\ q \in StepperRecord /\ q.count = st[s].count /\ q.sched = st[s].sched
      /\ q.goal = st[s].goal /\ q.net = st[s].net /\ q.position = st[s].position
      /\ q.dir_pin = st[s].dir_pin /\ q.mq = st[s].mq
      /\ q.last_dir = st[s].last_dir /\ q.step_pin = st[s].step_pin
      /\ q.need_reset = st[s].need_reset
  BY <1>1 DEF StepperRecord
<1>3. st' = [st EXCEPT ![s] = q]
  BY DEF SetNextStepDir, AllInv, TypeOK
<1> HIDE DEF q
<1>4. CoreInv(s, q) /\ RestInv(q)
  BY <1>1, <1>2 DEF CoreInv, PositionInv, RestInv, StepsLeft
<1>5. /\ st' \in [Steppers -> StepperRecord]
      /\ \A t \in Steppers : CoreInv(t, st'[t]) /\ RestInv(st'[t])
  BY <1>2, <1>3, <1>4, OneStepper
<1>6. cmd' = NoCmd /\ UNCHANGED <<free, shut, twice>>
  BY DEF SetNextStepDir
<1> QED BY <1>5, <1>6 DEF AllInv, TypeOK, StepperInv, CmdInv

\* command_reset_step_clock lets a stopped stepper move again.
LEMMA ResetStepClockInv ==
  ASSUME AllInv, NEW s \in Steppers, ResetStepClock(s)
  PROVE  AllInv'
<1> DEFINE q == [st[s] EXCEPT !.need_reset = FALSE]
<1>1. st[s] \in StepperRecord /\ CoreInv(s, st[s]) /\ RestInv(st[s])
  BY DEF AllInv, TypeOK, StepperInv
<1>2. CASE st[s].count # 0
  <2>1. Shutdown(st)
    BY <1>2 DEF ResetStepClock
  <2>2. \A t \in Steppers : PositionInv(t, st[t])
    BY DEF AllInv, StepperInv, CoreInv
  <2> QED BY <2>1, <2>2, ShutdownInv DEF AllInv, TypeOK
<1>3. CASE st[s].count = 0
  <2>1. /\ q \in StepperRecord /\ q.count = st[s].count /\ q.sched = st[s].sched
        /\ q.goal = st[s].goal /\ q.net = st[s].net /\ q.position = st[s].position
        /\ q.dir_pin = st[s].dir_pin /\ q.mq = st[s].mq
        /\ q.last_dir = st[s].last_dir /\ q.step_pin = st[s].step_pin
        /\ q.need_reset = FALSE
    BY <1>1 DEF StepperRecord
  <2>2. st' = [st EXCEPT ![s] = q]
    BY <1>3 DEF ResetStepClock, AllInv, TypeOK
  <2> HIDE DEF q
  <2>3. CoreInv(s, q) /\ RestInv(q)
    BY <1>1, <2>1 DEF CoreInv, PositionInv, RestInv, StepsLeft
  <2>4. /\ st' \in [Steppers -> StepperRecord]
        /\ \A t \in Steppers : CoreInv(t, st'[t]) /\ RestInv(st'[t])
    BY <2>1, <2>2, <2>3, OneStepper
  <2>5. cmd' = NoCmd /\ UNCHANGED <<free, shut, twice>>
    BY <1>3 DEF ResetStepClock
  <2> QED BY <2>4, <2>5 DEF AllInv, TypeOK, StepperInv, CmdInv
<1> QED BY <1>2, <1>3

\* Every step preserves the invariant.
LEMMA NextInv == AllInv /\ [Next]_vars => AllInv'
<1> SUFFICES ASSUME AllInv, [Next]_vars PROVE AllInv'
  OBVIOUS
<1>1. ASSUME NEW s \in Steppers, NEW c \in 0 .. MaxCount, QueueStepAlloc(s, c)
      PROVE  AllInv'
  BY <1>1, AllocInv
<1>2. CASE QueueStepPush
  BY <1>2, PushInv
<1>3. ASSUME NEW s \in Steppers, NEW d \in Bit, SetNextStepDir(s, d)
      PROVE  AllInv'
  BY <1>3, SetNextStepDirInv
<1>4. ASSUME NEW s \in Steppers, ResetStepClock(s) PROVE AllInv'
  BY <1>4, ResetStepClockInv
<1>5. ASSUME NEW s \in Steppers, StepperEvent(s) PROVE AllInv'
  BY <1>5, EventInv
<1>6. ASSUME NEW S \in SUBSET Steppers, Trigger(S) PROVE AllInv'
  BY <1>6, StopInv
<1>7. CASE Shutdown(st)
  <2>1. \A t \in Steppers : PositionInv(t, st[t])
    BY DEF AllInv, StepperInv, CoreInv
  <2> QED BY <1>7, <2>1, ShutdownInv DEF AllInv, TypeOK
<1>8. CASE ClearShutdown
  <2>1. UNCHANGED <<st, free, cmd, twice>> /\ shut' = FALSE
    BY <1>8 DEF ClearShutdown
  <2> QED BY <2>1 DEF AllInv, TypeOK, StepperInv, CmdInv, Target, Planned
<1>9. CASE UNCHANGED vars
  BY <1>9 DEF vars, AllInv, TypeOK, StepperInv, CmdInv, Target, Planned
<1> QED BY <1>1, <1>2, <1>3, <1>4, <1>5, <1>6, <1>7, <1>8, <1>9 DEF Next

\* While the firmware is shut down no timer of a stepper runs and no queue_step is in
\* progress: neither the timer handlers nor queue_step behind irq_disable checks.
MotorsOff == shut => cmd = NoCmd /\ \A s \in Steppers : ~st[s].sched

\* The handlers of a shutdown see to it, and nothing but clear_shutdown runs after them.
LEMMA MotorsOffNext ==
  ASSUME AllInv, MotorsOff, [Next]_vars
  PROVE  MotorsOff'
<1>1. ASSUME NEW F \in [Steppers -> StepperRecord], Shutdown(F)
      PROVE  MotorsOff'
  <2>1. \A s \in Steppers : /\ F[s] \in StepperRecord
                            /\ st'[s] = stepper_stop(s, move_queue_clear(F[s]))
    BY <1>1 DEF Shutdown
  <2>2. \A r \in StepperRecord : move_queue_clear(r) \in StepperRecord
    <3>1. <<>> \in Seq(Move)
      OBVIOUS
    <3> QED BY <3>1 DEF move_queue_clear, StepperRecord
  <2>3. \A s \in Steppers : \A r \in StepperRecord : ~stepper_stop(s, r).sched
    BY DEF stepper_stop, StepperRecord
  <2>4. \A s \in Steppers : ~st'[s].sched
    BY <2>1, <2>2, <2>3
  <2> QED BY <1>1, <2>4 DEF Shutdown, MotorsOff
<1>2. CASE ~shut'
  BY <1>2 DEF MotorsOff
<1>3. st \in [Steppers -> StepperRecord] /\ shut \in BOOLEAN
  BY DEF AllInv, TypeOK
<1>4. ASSUME NEW s \in Steppers, NEW c \in 0 .. MaxCount, QueueStepAlloc(s, c)
      PROVE  MotorsOff'
  <2>1. Shutdown(st) \/ ~shut'
    BY <1>3, <1>4 DEF QueueStepAlloc
  <2> QED BY <1>1, <1>2, <1>3, <2>1
<1>5. ASSUME QueueStepPush
      PROVE  MotorsOff'
  <2> DEFINE s == cmd.oid
             p == stepper_load_next(s, Pushed(st[s]))
  <2>1. ~shut /\ s \in Steppers /\ st[s] \in StepperRecord /\ CoreInv(s, st[s])
        /\ cmd \in [oid : Steppers, node : Nodes, count : 1 .. MaxCount]
    BY <1>5 DEF QueueStepPush, MotorsOff, AllInv, TypeOK, StepperInv
  <2>2. ~shut' \/ /\ st[s].count = 0 /\ ~st[s].need_reset
                  /\ Shutdown([st EXCEPT ![s] = p])
    BY <1>3, <1>5, <2>1 DEF QueueStepPush, StaleMove
  <2>3. CASE st[s].count = 0 /\ ~st[s].need_reset /\ Shutdown([st EXCEPT ![s] = p])
    <3>1. Target(st[s], st[s].next_dir, cmd.count) \in AxisRange
      BY <1>5, <2>3 DEF QueueStepPush, AllInv, StepperInv, CmdInv
    <3>2. /\ Pushed(st[s]) \in StepperRecord /\ CoreInv(s, Pushed(st[s]))
          /\ Pushed(st[s]).mq # <<>> /\ Pushed(st[s]).count = 0
      BY <2>1, <2>3, <3>1, PushCore
    <3>3. p \in StepperRecord
      BY <2>1, <3>2, LoadCore
    <3>4. [st EXCEPT ![s] = p] \in [Steppers -> StepperRecord]
      BY <1>3, <2>1, <3>3
    <3> QED BY <1>1, <2>3, <3>4
  <2> QED BY <1>2, <2>2, <2>3
<1>6. ASSUME NEW s \in Steppers, StepperEvent(s)
      PROVE  MotorsOff'
  <2> DEFINE r == [TogglePin(s, st[s]) EXCEPT !.count = @ - 1]
             p == stepper_load_next(s, r)
  <2>1. /\ ~shut /\ st[s] \in StepperRecord /\ CoreInv(s, st[s]) /\ st[s].count # 0
    BY <1>3, <1>6 DEF StepperEvent, MotorsOff, AllInv, StepperInv, RestInv
  <2>2. ~shut' \/ (r.count = 0 /\ r.mq # <<>> /\ Shutdown([st EXCEPT ![s] = p]))
    BY <1>3, <1>6, <2>1 DEF StepperEvent
  <2>3. CASE r.count = 0 /\ r.mq # <<>> /\ Shutdown([st EXCEPT ![s] = p])
    <3>1. r \in StepperRecord /\ CoreInv(s, r)
      BY <2>1, EventCore
    <3>2. p \in StepperRecord
      BY <2>3, <3>1, LoadCore
    <3>3. [st EXCEPT ![s] = p] \in [Steppers -> StepperRecord]
      BY <1>3, <3>2
    <3> QED BY <1>1, <2>3, <3>3
  <2> QED BY <1>2, <2>2, <2>3
<1>7. ASSUME NEW s \in Steppers, ResetStepClock(s)
      PROVE  MotorsOff'
  <2>1. Shutdown(st) \/ ~shut'
    BY <1>3, <1>7 DEF ResetStepClock
  <2> QED BY <1>1, <1>2, <1>3, <2>1
<1>8. ASSUME NEW s \in Steppers, NEW d \in Bit, SetNextStepDir(s, d)
      PROVE  ~shut'
  BY <1>3, <1>8 DEF SetNextStepDir
<1>9. ASSUME NEW S \in SUBSET Steppers, Trigger(S)
      PROVE  ~shut'
  BY <1>3, <1>9 DEF Trigger
<1>10. ClearShutdown => ~shut'
  BY DEF ClearShutdown
<1>11. UNCHANGED vars => MotorsOff'
  BY DEF vars, MotorsOff
<1> QED BY <1>1, <1>2, <1>3, <1>4, <1>5, <1>6, <1>7, <1>8, <1>9, <1>10, <1>11 DEF Next

\* A stepper that waits for a reset goes on waiting, and one with nothing to do stays
\* so unless a queue_step for it is in progress.
LEMMA RunKeeps ==
  ASSUME AllInv, ~shut', NEW t \in Steppers,
         \/ QueueStepPush
         \/ \E s \in Steppers :
              \/ StepperEvent(s)
              \/ \E c \in 0 .. MaxCount : QueueStepAlloc(s, c)
              \/ \E d \in Bit : SetNextStepDir(s, d)
  PROVE  /\ st'[t].need_reset = st[t].need_reset
         /\ st[t].count = 0 /\ (cmd = NoCmd \/ cmd.oid # t) => st'[t].count = 0
<1>0. st \in [Steppers -> StepperRecord] /\ \A F : ~Shutdown(F)
  BY DEF AllInv, TypeOK, Shutdown
<1>1. ASSUME QueueStepPush
      PROVE  /\ st'[t].need_reset = st[t].need_reset
             /\ st[t].count = 0 /\ (cmd = NoCmd \/ cmd.oid # t) => st'[t].count = 0
  <2> DEFINE s == cmd.oid
             r == Pushed(st[s])
             p == stepper_load_next(s, r)
  <2>1. /\ s \in Steppers /\ st[s] \in StepperRecord /\ CoreInv(s, st[s]) /\ cmd # NoCmd
        /\ cmd \in [oid : Steppers, node : Nodes, count : 1 .. MaxCount]
    BY <1>0, <1>1 DEF QueueStepPush, AllInv, TypeOK, StepperInv
  <2>2. \A u \in Steppers \ {s} : st'[u] = st[u]
    BY <1>0, <1>1, <2>1 DEF QueueStepPush
  <2>3. st'[s].need_reset = st[s].need_reset
    <3>1. \/ st'[s] = r
          \/ st' = st
          \/ /\ st[s].count = 0 /\ ~st[s].need_reset
             /\ st'[s] = [p EXCEPT !.sched = TRUE]
      BY <1>0, <1>1, <2>1 DEF QueueStepPush, StaleMove
    <3>2. r.need_reset = st[s].need_reset
      BY <2>1 DEF Pushed, StepperRecord
    <3>3. CASE st[s].count = 0 /\ ~st[s].need_reset /\ st'[s] = [p EXCEPT !.sched = TRUE]
      <4>1. Target(st[s], st[s].next_dir, cmd.count) \in AxisRange
        BY <2>1, <3>3 DEF AllInv, StepperInv, CmdInv
      <4>2. r \in StepperRecord /\ CoreInv(s, r) /\ r.mq # <<>> /\ r.count = 0
        BY <2>1, <3>3, <4>1, PushCore
      <4>3. p \in StepperRecord /\ p.need_reset = r.need_reset
        BY <2>1, <4>2, LoadCore
      <4> HIDE DEF p
      <4> QED BY <3>2, <3>3, <4>3 DEF StepperRecord
    <3> QED BY <3>1, <3>2, <3>3
  <2> QED BY <2>1, <2>2, <2>3
<1>2. ASSUME NEW s \in Steppers, StepperEvent(s)
      PROVE  /\ st'[t].need_reset = st[t].need_reset
             /\ st[t].count = 0 => st'[t].count = 0
  <2> DEFINE r == [TogglePin(s, st[s]) EXCEPT !.count = @ - 1]
             p == stepper_load_next(s, r)
  <2>1. st[s] \in StepperRecord /\ CoreInv(s, st[s]) /\ st[s].count # 0
    BY <1>0, <1>2 DEF StepperEvent, AllInv, StepperInv, RestInv
  <2>2. r \in StepperRecord /\ CoreInv(s, r) /\ r.need_reset = st[s].need_reset
    BY <2>1, EventCore
  <2>3. /\ \A u \in Steppers \ {s} : st'[u] = st[u]
        /\ \/ st'[s] = r \/ st'[s] = stepper_idle(r)
           \/ r.count = 0 /\ r.mq # <<>> /\ st'[s] = p
    BY <1>0, <1>2 DEF StepperEvent
  <2>4. stepper_idle(r).need_reset = r.need_reset
    BY <2>2 DEF stepper_idle, StepperRecord
  <2>5. r.count = 0 /\ r.mq # <<>> => p.need_reset = r.need_reset
    BY <2>2, LoadCore
  <2> HIDE DEF r, p
  <2> QED BY <2>1, <2>2, <2>3, <2>4, <2>5
<1>3. ASSUME NEW s \in Steppers, NEW c \in 0 .. MaxCount, QueueStepAlloc(s, c)
      PROVE  st' = st
  BY <1>0, <1>3 DEF QueueStepAlloc
<1>4. ASSUME NEW s \in Steppers, NEW d \in Bit, SetNextStepDir(s, d)
      PROVE  st'[t].need_reset = st[t].need_reset /\ st'[t].count = st[t].count
  BY <1>0, <1>4 DEF SetNextStepDir, StepperRecord
<1> QED BY <1>1, <1>2, <1>3, <1>4

\* Every reachable state satisfies the invariant.
THEOREM StepperInvariant == Spec => []AllInv
BY InitInv, NextInv, PTL DEF Spec

\* The records, the pool and the command keep their types: in particular every
\* position stays a 32-bit word, and a move never counts below zero.
THEOREM StepperTypeCorrect == Spec => []TypeOK
<1>1. AllInv => TypeOK
  BY DEF AllInv
<1> QED BY <1>1, StepperInvariant, PTL

\* The position a stepper reports is where its motor is, at every moment.
THEOREM PositionCorrect == Spec => []PositionExact
<1>1. AllInv => PositionExact
  <2> SUFFICES ASSUME AllInv, NEW s \in Steppers
               PROVE  ReportedPosition(s, st[s]) = st[s].net
    BY DEF PositionExact
  <2> DEFINE r == st[s]
  <2>1. r \in StepperRecord /\ PositionInv(s, r)
    BY DEF AllInv, TypeOK, StepperInv, CoreInv
  <2> HIDE DEF r
  <2>2. /\ r.position \in Int /\ r.net \in Int /\ r.goal \in Int
        /\ StepsLeft(s, r) \in Int /\ Bias \in Nat /\ Travel \in Nat
        /\ Travel < Bias
        /\ r.net <= Travel /\ -Travel <= r.net
    BY <2>1, StepperAssumption
       DEF StepperRecord, StepsLeft, PositionInv, AxisRange, Word32
  <2>3. r.position - StepsLeft(s, r)
          = IF r.dir_pin = 1 THEN Bias + r.net ELSE -(Bias + r.net)
    BY <2>1, <2>2 DEF PositionInv
  <2>4. stepper_get_position(s, r) = Bias + r.net
    BY <2>2, <2>3 DEF stepper_get_position, Signed
  <2>5. ReportedPosition(s, r) = r.net
    BY <2>2, <2>4 DEF ReportedPosition, Signed
  <2> QED BY <2>5 DEF r
<1> QED BY <1>1, StepperInvariant, PTL

\* A motor at rest is where the moves it was sent add up to.
THEOREM GoalCorrect == Spec => []GoalReached
<1>1. AllInv => GoalReached
  <2> SUFFICES ASSUME AllInv, NEW s \in Steppers, st[s].count = 0
               PROVE  st[s].net = st[s].goal
    BY DEF GoalReached
  <2>1. st[s] \in StepperRecord /\ PositionInv(s, st[s])
    BY DEF AllInv, TypeOK, StepperInv, CoreInv
  <2>2. StepsLeft(s, st[s]) = 0
    BY DEF StepsLeft
  <2> QED BY <2>1, <2>2 DEF PositionInv, StepperRecord
<1> QED BY <1>1, StepperInvariant, PTL

\* A timer is scheduled exactly while its stepper has steps to make.
THEOREM TimerCorrect == Spec => []TimerMatchesMove
<1>1. AllInv => TimerMatchesMove
  BY DEF AllInv, StepperInv, RestInv, TimerMatchesMove
<1> QED BY <1>1, StepperInvariant, PTL

\* A stopped motor makes no step before reset_step_clock, whatever is sent to it.
THEOREM StillCorrect == Spec => StillUntilReset
<1>1. AllInv /\ AllInv' /\ [Next]_vars
        => [\A s \in Steppers : st[s].need_reset => st'[s].net = st[s].net]_vars
  <2> SUFFICES ASSUME AllInv, Next, NEW s \in Steppers, st[s].need_reset
               PROVE  st'[s].net = st[s].net
    OBVIOUS
  <2>0. st \in [Steppers -> StepperRecord] /\ ~st[s].sched /\ st[s].count = 0
    BY DEF AllInv, TypeOK, StepperInv, RestInv
  <2>1. ASSUME NEW S \in [Steppers -> StepperRecord], Shutdown(S)
        PROVE  st'[s].net = S[s].net
    <3>1. st'[s] = stepper_stop(s, move_queue_clear(S[s]))
      BY <2>1 DEF Shutdown
    <3> QED BY <2>1, <3>1 DEF stepper_stop, move_queue_clear, StepperRecord
  <2>2. Shutdown(st) => st'[s].net = st[s].net
    BY <2>0, <2>1
  <2>3. ASSUME NEW t \in Steppers, NEW q, t # s
        PROVE  [st EXCEPT ![t] = q][s] = st[s]
    BY <2>0, <2>3
  <2>4. ASSUME NEW t \in Steppers, NEW c \in 0 .. MaxCount, QueueStepAlloc(t, c)
        PROVE  st'[s].net = st[s].net
    BY <2>2, <2>4 DEF QueueStepAlloc, QueueStepRefused
  <2>5. ASSUME QueueStepPush PROVE st'[s].net = st[s].net
    <3> DEFINE t == cmd.oid
               p == stepper_load_next(t, Pushed(st[t]))
    <3>1. t \in Steppers
      BY <2>5 DEF QueueStepPush, StaleMove, AllInv, TypeOK
    <3>2. CASE t = s
      <4>1. UNCHANGED st
        BY <2>0, <2>5, <3>2 DEF QueueStepPush, StaleMove
      <4> QED BY <4>1
    <3>3. CASE t # s /\ Shutdown([st EXCEPT ![t] = p])
      <4>1. [st EXCEPT ![t] = p][s] = st[s]
        BY <2>3, <3>1, <3>3
      <4>2. st'[s] = stepper_stop(s, move_queue_clear([st EXCEPT ![t] = p][s]))
        BY <3>3 DEF Shutdown
      <4>3. st'[s] = stepper_stop(s, move_queue_clear(st[s]))
        BY <4>1, <4>2
      <4> QED BY <2>0, <4>3 DEF stepper_stop, move_queue_clear, StepperRecord
    <3>4. CASE t # s /\ ~Shutdown([st EXCEPT ![t] = p])
      <4>1. st' = st \/ \E q : st' = [st EXCEPT ![t] = q]
        BY <2>5, <3>4 DEF QueueStepPush, StaleMove
      <4> QED BY <2>3, <3>1, <3>4, <4>1
    <3> QED BY <3>2, <3>3, <3>4
  <2>6. ASSUME NEW t \in Steppers, NEW d \in Bit, SetNextStepDir(t, d)
        PROVE  st'[s].net = st[s].net
    BY <2>0, <2>6 DEF SetNextStepDir, StepperRecord
  <2>7. ASSUME NEW t \in Steppers, ResetStepClock(t)
        PROVE  st'[s].net = st[s].net
    <3>1. CASE st[t].count # 0
      BY <2>2, <2>7, <3>1 DEF ResetStepClock
    <3>2. CASE st[t].count = 0
      <4>1. st' = [st EXCEPT ![t].need_reset = FALSE]
        BY <2>7, <3>2 DEF ResetStepClock
      <4> QED BY <2>0, <4>1 DEF StepperRecord
    <3> QED BY <3>1, <3>2
  <2>8. ASSUME NEW t \in Steppers, StepperEvent(t)
        PROVE  st'[s].net = st[s].net
    <3> DEFINE r == [TogglePin(t, st[t]) EXCEPT !.count = @ - 1]
               p == stepper_load_next(t, r)
    <3>1. t # s
      BY <2>0, <2>8 DEF StepperEvent
    <3>2. CASE Shutdown([st EXCEPT ![t] = p])
      <4>1. [st EXCEPT ![t] = p][s] = st[s]
        BY <2>3, <3>1
      <4>2. st'[s] = stepper_stop(s, move_queue_clear([st EXCEPT ![t] = p][s]))
        BY <3>2 DEF Shutdown
      <4>3. st'[s] = stepper_stop(s, move_queue_clear(st[s]))
        BY <4>1, <4>2
      <4> QED BY <2>0, <4>3 DEF stepper_stop, move_queue_clear, StepperRecord
    <3>3. CASE ~Shutdown([st EXCEPT ![t] = p])
      <4>1. \E q : st' = [st EXCEPT ![t] = q]
        BY <2>8, <3>3 DEF StepperEvent
      <4> QED BY <2>3, <3>1, <4>1
    <3> QED BY <3>2, <3>3
  <2>9. ASSUME NEW S \in SUBSET Steppers, Trigger(S)
        PROVE  st'[s].net = st[s].net
    <3>1. st'[s] = st[s] \/ st'[s] = stepper_stop(s, st[s])
      BY <2>9 DEF Trigger, StopSteppers
    <3>2. st[s] \in StepperRecord
      BY <2>0
    <3>3. stepper_stop(s, st[s]).net = st[s].net
      BY <3>2 DEF stepper_stop, StepperRecord
    <3> QED BY <3>1, <3>3
  <2>10. ClearShutdown => st'[s].net = st[s].net
    BY DEF ClearShutdown
  <2> QED BY <2>2, <2>4, <2>5, <2>6, <2>7, <2>8, <2>9, <2>10 DEF Next
<1> QED BY <1>1, StepperInvariant, NextInv, PTL DEF Spec, StillUntilReset

\* The step pulse of a double scheduled stepper is never left half made.
THEOREM PulseCorrect == Spec => []PulseEnds
<1>1. AllInv => PulseEnds
  BY DEF AllInv, StepperInv, CoreInv, PulseEnds
<1> QED BY <1>1, StepperInvariant, PTL

-----------------------------------------------------------------------------
\* The move pool.  PoolExact only looks at the queues, the free list and the
\* command, so each step is one of four: nothing, alloc, push, pop, or stop.

\* A step that leaves the queues, the free list and the command alone.
LEMMA PoolSame ==
  ASSUME PoolExact, \A s \in Steppers : st'[s].mq = st[s].mq,
         UNCHANGED <<free, cmd, twice>>
  PROVE  PoolExact'
<1>1. \A s \in Steppers : QueuedNodes(st'[s]) = QueuedNodes(st[s])
  BY DEF QueuedNodes
<1>2. ~twice' /\ (cmd' # NoCmd => cmd'.node \notin free')
  BY DEF PoolExact
<1>3. \A n \in Nodes :
        \/ n \in free'
        \/ cmd' # NoCmd /\ cmd'.node = n
        \/ \E s \in Steppers : n \in QueuedNodes(st'[s])
  BY <1>1 DEF PoolExact
<1>4. ASSUME NEW s \in Steppers, NEW i \in 1 .. Len(st'[s].mq)
      PROVE  /\ st'[s].mq[i].node \notin free'
             /\ cmd' # NoCmd => cmd'.node # st'[s].mq[i].node
             /\ \A t \in Steppers : \A j \in 1 .. Len(st'[t].mq) :
                  st'[t].mq[j].node = st'[s].mq[i].node => t = s /\ j = i
  <2>1. st'[s].mq = st[s].mq /\ i \in 1 .. Len(st[s].mq) /\ cmd' = cmd /\ free' = free
    BY <1>4
  <2>2. /\ st[s].mq[i].node \notin free
        /\ cmd # NoCmd => cmd.node # st[s].mq[i].node
        /\ \A t \in Steppers : \A j \in 1 .. Len(st[t].mq) :
             st[t].mq[j].node = st[s].mq[i].node => t = s /\ j = i
    BY <2>1 DEF PoolExact
  <2> QED BY <2>1, <2>2
<1> QED BY <1>2, <1>3, <1>4 DEF PoolExact

\* A shutdown gives every move back.
LEMMA PoolShutdown ==
  ASSUME PoolExact, NEW S, S \in [Steppers -> StepperRecord], Shutdown(S)
  PROVE  PoolExact'
<1>1. ASSUME NEW s \in Steppers
      PROVE  st'[s].mq = <<>> /\ QueuedNodes(move_queue_clear(S[s])) = {}
  <2> DEFINE r == S[s]
             q == move_queue_clear(r)
  <2>0. r \in StepperRecord
    OBVIOUS
  <2> HIDE DEF r
  <2>1. q.mq = <<>> /\ q = [r EXCEPT !.mq = <<>>]
    BY <2>0 DEF move_queue_clear, StepperRecord
  <2>2. q \in StepperRecord
    <3>1. <<>> \in Seq(Move)
      OBVIOUS
    <3> QED BY <2>0, <2>1, <3>1 DEF StepperRecord
  <2>3. QueuedNodes(q) = {}
    BY <2>1 DEF QueuedNodes
  <2>4. st'[s] = stepper_stop(s, q)
    BY DEF Shutdown, r
  <2> HIDE DEF q
  <2>5. stepper_stop(s, q).mq = <<>>
    BY <2>2 DEF stepper_stop, StepperRecord
  <2>6. QueuedNodes(move_queue_clear(S[s])) = {}
    BY <2>3 DEF q, r
  <2> QED BY <2>4, <2>5, <2>6
<1>2. ~twice'
  BY <1>1 DEF Shutdown, PoolExact
<1>3. \A s \in Steppers : 1 .. Len(st'[s].mq) = {}
  BY <1>1
<1> QED BY <1>2, <1>3 DEF PoolExact, Shutdown

\* move_queue_push of the node the command holds.
LEMMA PoolPush ==
  ASSUME PoolExact, st \in [Steppers -> StepperRecord],
         NEW s \in Steppers, NEW m, m.node = cmd.node, cmd # NoCmd,
         st' \in [Steppers -> StepperRecord],
         st'[s].mq = Append(st[s].mq, m),
         \A t \in Steppers \ {s} : st'[t].mq = st[t].mq,
         cmd' = NoCmd, UNCHANGED <<free, twice>>
  PROVE  PoolExact'
<1>0. \A t \in Steppers : st[t].mq \in Seq(Move) /\ st'[t].mq \in Seq(Move)
  BY DEF StepperRecord
<1> DEFINE L == Len(st[s].mq)
<1>1. /\ L \in Nat /\ Len(st'[s].mq) = L + 1
      /\ st'[s].mq[L + 1] = m
      /\ \A i \in 1 .. L : st'[s].mq[i] = st[s].mq[i]
  BY <1>0
<1>2. \A t \in Steppers : t # s => st'[t].mq = st[t].mq
  OBVIOUS
<1> HIDE DEF L
<1>3. ASSUME NEW n \in Nodes
      PROVE  n \in free' \/ \E t \in Steppers : n \in QueuedNodes(st'[t])
  <2>1. CASE n \in free
    BY <2>1
  <2>2. CASE cmd.node = n
    <3>1. L + 1 \in 1 .. Len(st'[s].mq) /\ st'[s].mq[L + 1].node = n
      BY <1>1, <2>2
    <3> QED BY <3>1 DEF QueuedNodes
  <2>3. ASSUME NEW t \in Steppers, n \in QueuedNodes(st[t])
        PROVE  n \in QueuedNodes(st'[t])
    <3>1. PICK i \in 1 .. Len(st[t].mq) : st[t].mq[i].node = n
      BY <2>3 DEF QueuedNodes
    <3>2. i \in 1 .. Len(st'[t].mq) /\ st'[t].mq[i].node = n
      BY <1>1, <1>2, <3>1 DEF L
    <3> QED BY <3>2 DEF QueuedNodes
  <2> QED BY <2>1, <2>2, <2>3 DEF PoolExact
<1>4. ASSUME NEW t \in Steppers, NEW i \in 1 .. Len(st'[t].mq)
      PROVE  \/ t = s /\ i = L + 1 /\ st'[t].mq[i].node = cmd.node
             \/ i \in 1 .. Len(st[t].mq) /\ st'[t].mq[i].node = st[t].mq[i].node
  BY <1>1, <1>2 DEF L
<1>5. ASSUME NEW t \in Steppers, NEW i \in 1 .. Len(st'[t].mq)
      PROVE  st'[t].mq[i].node \notin free
  BY <1>4, <1>5 DEF PoolExact
<1>6. ASSUME NEW t \in Steppers, NEW i \in 1 .. Len(st'[t].mq),
             NEW u \in Steppers, NEW j \in 1 .. Len(st'[u].mq),
             st'[u].mq[j].node = st'[t].mq[i].node
      PROVE  u = t /\ j = i
  BY <1>4, <1>6 DEF PoolExact
<1> QED BY <1>3, <1>5, <1>6 DEF PoolExact

\* move_queue_pop and move_free of the oldest move of stepper s.
LEMMA PoolPop ==
  ASSUME PoolExact, st \in [Steppers -> StepperRecord],
         NEW s \in Steppers, st[s].mq # <<>>,
         st'[s].mq = Tail(st[s].mq),
         \A t \in Steppers \ {s} : st'[t].mq = st[t].mq,
         free' = free \cup {Head(st[s].mq).node},
         twice' = (twice \/ Head(st[s].mq).node \in free), cmd' = cmd
  PROVE  PoolExact'
<1>0. st[s].mq \in Seq(Move)
  BY DEF StepperRecord
<1> DEFINE L == Len(st[s].mq)
           h == st[s].mq[1].node
<1>1. /\ L \in Nat /\ L > 0 /\ Len(st'[s].mq) = L - 1
      /\ Head(st[s].mq).node = h
      /\ \A i \in 1 .. L - 1 : st'[s].mq[i] = st[s].mq[i + 1]
  BY <1>0, TailKeepsLast
<1>2. \A t \in Steppers : t # s => st'[t].mq = st[t].mq
  OBVIOUS
<1>3. 1 \in 1 .. Len(st[s].mq)
  BY <1>1
<1>4. h \notin free /\ (cmd # NoCmd => cmd.node # h)
  BY <1>3 DEF PoolExact
<1>5. free' = free \cup {h} /\ ~twice'
  BY <1>1, <1>4 DEF PoolExact
<1>6. ASSUME NEW t \in Steppers, NEW i \in 1 .. Len(st[t].mq)
      PROVE  \/ st[t].mq[i].node = h
             \/ st[t].mq[i].node \in QueuedNodes(st'[t])
  <2>1. CASE t # s
    <3>1. st'[t].mq = st[t].mq
      BY <1>2, <2>1
    <3> QED BY <3>1 DEF QueuedNodes
  <2>2. CASE t = s /\ i = 1
    BY <2>2
  <2>3. CASE t = s /\ i # 1
    <3>1. i - 1 \in 1 .. L - 1
      BY <2>3, <1>1
    <3>2. st'[s].mq[i - 1] = st[s].mq[i]
      BY <3>1, <1>1
    <3>3. i - 1 \in 1 .. Len(st'[s].mq)
      BY <3>1, <1>1
    <3> QED BY <2>3, <3>2, <3>3 DEF QueuedNodes
  <2> QED BY <2>1, <2>2, <2>3
<1>7. ASSUME NEW t \in Steppers, NEW i \in 1 .. Len(st'[t].mq)
      PROVE  LET k == IF t = s THEN i + 1 ELSE i
             IN  /\ k \in 1 .. Len(st[t].mq) /\ st'[t].mq[i].node = st[t].mq[k].node
                 /\ ~(t = s /\ k = 1)
  <2>1. CASE t # s
    BY <1>2, <2>1
  <2>2. CASE t = s
    <3>1. i \in 1 .. L - 1
      BY <1>1, <2>2
    <3>2. i + 1 \in 1 .. Len(st[s].mq) /\ i + 1 # 1
      BY <1>1, <3>1
    <3>3. st'[s].mq[i] = st[s].mq[i + 1]
      BY <1>1, <3>1
    <3> QED BY <2>2, <3>2, <3>3
  <2> QED BY <2>1, <2>2
<1> HIDE DEF L, h
<1>8. ASSUME NEW n \in Nodes
      PROVE  \/ n \in free'
             \/ cmd # NoCmd /\ cmd.node = n
             \/ \E t \in Steppers : n \in QueuedNodes(st'[t])
  <2>1. ASSUME NEW t \in Steppers, n \in QueuedNodes(st[t])
        PROVE  n \in free' \/ n \in QueuedNodes(st'[t])
    <3>1. PICK i \in 1 .. Len(st[t].mq) : st[t].mq[i].node = n
      BY <2>1 DEF QueuedNodes
    <3> QED BY <1>5, <1>6, <3>1
  <2> QED BY <1>5, <2>1 DEF PoolExact
<1>9. ASSUME NEW t \in Steppers, NEW i \in 1 .. Len(st'[t].mq)
      PROVE  /\ st'[t].mq[i].node \notin free'
             /\ cmd # NoCmd => cmd.node # st'[t].mq[i].node
  <2>1. PICK k \in 1 .. Len(st[t].mq) :
          st'[t].mq[i].node = st[t].mq[k].node /\ ~(t = s /\ k = 1)
    BY <1>7, <1>9
  <2>2. st[t].mq[k].node # h
    BY <1>3, <2>1 DEF PoolExact, h
  <2> QED BY <1>5, <2>1, <2>2 DEF PoolExact
<1>10. ASSUME NEW t \in Steppers, NEW i \in 1 .. Len(st'[t].mq),
              NEW u \in Steppers, NEW j \in 1 .. Len(st'[u].mq),
              st'[u].mq[j].node = st'[t].mq[i].node
       PROVE  u = t /\ j = i
  <2> DEFINE ki == IF t = s THEN i + 1 ELSE i
             kj == IF u = s THEN j + 1 ELSE j
  <2>1. /\ ki \in 1 .. Len(st[t].mq) /\ st'[t].mq[i].node = st[t].mq[ki].node
        /\ kj \in 1 .. Len(st[u].mq) /\ st'[u].mq[j].node = st[u].mq[kj].node
    BY <1>7, <1>10
  <2>2. u = t /\ kj = ki
    BY <1>10, <2>1 DEF PoolExact
  <2> QED BY <2>2
<1> QED BY <1>4, <1>5, <1>8, <1>9, <1>10 DEF PoolExact

\* stepper_stop by a trigger: the queues of the steppers in S are freed.
LEMMA PoolStop ==
  ASSUME PoolExact, st \in [Steppers -> StepperRecord],
         NEW S \in SUBSET Steppers, Trigger(S)
  PROVE  PoolExact'
<1> DEFINE Q == UNION {QueuedNodes(st[s]) : s \in S}
<1>1. free' = free \cup Q /\ cmd' = cmd
  BY DEF Trigger, StopSteppers
<1>2. \A s \in S : st'[s].mq = <<>>
  <2> SUFFICES ASSUME NEW s \in S PROVE st'[s].mq = <<>>
    OBVIOUS
  <2>1. st'[s] = stepper_stop(s, st[s]) /\ st[s] \in StepperRecord
    BY DEF Trigger, StopSteppers
  <2> QED BY <2>1 DEF stepper_stop, StepperRecord
<1>3. \A t \in Steppers : t \notin S => st'[t] = st[t]
  BY DEF Trigger, StopSteppers
<1>4. ASSUME NEW s \in Steppers, NEW n \in QueuedNodes(st[s])
      PROVE  n \notin free /\ (cmd # NoCmd => cmd.node # n)
  BY <1>4 DEF QueuedNodes, PoolExact
<1>5. ~twice'
  <2>1. twice' = (twice \/ \E s \in S : QueuedNodes(st[s]) \cap free # {})
    BY DEF Trigger, StopSteppers
  <2> QED BY <1>4, <2>1 DEF PoolExact
<1>6. cmd' # NoCmd => cmd'.node \notin free'
  BY <1>1, <1>4 DEF PoolExact
<1>7. ASSUME NEW n \in Nodes
      PROVE  \/ n \in free'
             \/ cmd' # NoCmd /\ cmd'.node = n
             \/ \E t \in Steppers : n \in QueuedNodes(st'[t])
  <2>1. ASSUME NEW t \in Steppers, n \in QueuedNodes(st[t])
        PROVE  n \in free' \/ n \in QueuedNodes(st'[t])
    <3>1. CASE t \in S
      BY <1>1, <2>1, <3>1
    <3>2. CASE t \notin S
      BY <1>3, <2>1, <3>2
    <3> QED BY <3>1, <3>2
  <2> QED BY <1>1, <2>1 DEF PoolExact
<1>8. ASSUME NEW t \in Steppers, NEW i \in 1 .. Len(st'[t].mq)
      PROVE  /\ st'[t] = st[t] /\ i \in 1 .. Len(st[t].mq)
             /\ st[t].mq[i].node \notin free'
             /\ cmd' # NoCmd => cmd'.node # st[t].mq[i].node
  <2>1. t \notin S /\ st'[t] = st[t]
    BY <1>2, <1>3, <1>8
  <2>2. i \in 1 .. Len(st[t].mq)
    BY <1>8, <2>1
  <2>3. ASSUME NEW s \in S PROVE st[t].mq[i].node \notin QueuedNodes(st[s])
    BY <2>1, <2>2 DEF QueuedNodes, PoolExact
  <2>4. st[t].mq[i].node \notin free /\ (cmd # NoCmd => cmd.node # st[t].mq[i].node)
    BY <2>2 DEF PoolExact
  <2> QED BY <1>1, <2>1, <2>2, <2>3, <2>4
<1>9. ASSUME NEW t \in Steppers, NEW i \in 1 .. Len(st'[t].mq),
             NEW u \in Steppers, NEW j \in 1 .. Len(st'[u].mq),
             st'[u].mq[j].node = st'[t].mq[i].node
      PROVE  u = t /\ j = i
  <2>1. /\ st'[t] = st[t] /\ i \in 1 .. Len(st[t].mq)
        /\ st'[u] = st[u] /\ j \in 1 .. Len(st[u].mq)
    BY <1>8, <1>9
  <2> QED BY <1>9, <2>1 DEF PoolExact
<1> QED BY <1>5, <1>6, <1>7, <1>8, <1>9 DEF PoolExact

\* Every step keeps each move in one place.
LEMMA PoolNext == AllInv /\ AllInv' /\ PoolExact /\ [Next]_vars => PoolExact'
<1> SUFFICES ASSUME AllInv, AllInv', PoolExact, [Next]_vars PROVE PoolExact'
  OBVIOUS
<1>0. /\ st \in [Steppers -> StepperRecord] /\ st' \in [Steppers -> StepperRecord]
      /\ cmd # NoCmd => cmd.oid \in Steppers /\ cmd.node \in Nodes
  BY DEF AllInv, TypeOK
<1>1. Shutdown(st) => PoolExact'
  BY <1>0, PoolShutdown
<1>2. ASSUME NEW s \in Steppers, NEW c \in 0 .. MaxCount, QueueStepAlloc(s, c)
      PROVE  PoolExact'
  <2>1. CASE ~Shutdown(st)
    <3>1. PICK n \in free :
            /\ free' = free \ {n}
            /\ cmd' = [oid |-> s, node |-> n, count |-> c]
            /\ UNCHANGED <<st, shut, twice>>
      BY <1>2, <2>1 DEF QueueStepAlloc, QueueStepRefused
    <3>2. cmd'.node = n /\ cmd = NoCmd /\ n # NoNode
      BY <1>2, <3>1, StepperAssumption DEF QueueStepAlloc, QueueStepRefused, AllInv, TypeOK
    <3>3. cmd' # NoCmd
      BY <3>2 DEF NoCmd
    <3>4. ~twice' /\ cmd'.node \notin free'
      BY <3>1, <3>2 DEF PoolExact
    <3>5. \A k \in Nodes : \/ k \in free' \/ cmd'.node = k
            \/ \E t \in Steppers : k \in QueuedNodes(st'[t])
      BY <3>1, <3>2 DEF PoolExact
    <3>6. ASSUME NEW t \in Steppers, NEW i \in 1 .. Len(st'[t].mq)
          PROVE  /\ st'[t].mq[i].node \notin free'
                 /\ cmd'.node # st'[t].mq[i].node
                 /\ \A u \in Steppers : \A j \in 1 .. Len(st'[u].mq) :
                      st'[u].mq[j].node = st'[t].mq[i].node => u = t /\ j = i
      BY <3>1, <3>2, <3>6 DEF PoolExact
    <3> QED BY <3>3, <3>4, <3>5, <3>6 DEF PoolExact
  <2> QED BY <1>1, <2>1
<1>3. CASE QueueStepPush
  <2> DEFINE s == cmd.oid
             r == st[s]
             p == stepper_load_next(s, Pushed(r))
             m == [node |-> cmd.node, count |-> cmd.count,
                   flip |-> Xor(r.last_dir, r.next_dir), dir |-> r.next_dir,
                   goal |-> Target(r, r.next_dir, cmd.count)]
  <2>1. /\ s \in Steppers /\ r \in StepperRecord /\ cmd # NoCmd
        /\ cmd.node \notin free /\ m.node = cmd.node
        /\ RestInv(r)
    BY <1>0, <1>3 DEF QueueStepPush, StaleMove, PoolExact, AllInv, StepperInv
  <2>2. Pushed(r).mq = Append(r.mq, m)
    BY <2>1 DEF Pushed, StepperRecord
  <2> HIDE DEF m
  <2>3. CASE st' = [st EXCEPT ![s] = Pushed(r)] /\ cmd' = NoCmd
             /\ UNCHANGED <<free, shut, twice>>
    <3>1. st'[s].mq = Append(st[s].mq, m)
          /\ \A t \in Steppers \ {s} : st'[t].mq = st[t].mq
      BY <1>0, <2>1, <2>2, <2>3
    <3> HIDE DEF s
    <3> QED BY <1>0, <2>1, <2>3, <3>1, PoolPush
  <2>4. ASSUME \A t \in Steppers : st'[t].mq = st[t].mq,
               free' = free \cup {cmd.node}, twice' = (twice \/ cmd.node \in free),
               cmd' = NoCmd
        PROVE  PoolExact'
    <3>1. \A t \in Steppers : QueuedNodes(st'[t]) = QueuedNodes(st[t])
      BY <2>4 DEF QueuedNodes
    <3>2. ~twice'
      BY <2>1, <2>4 DEF PoolExact
    <3>3. \A n \in Nodes : n \in free' \/ \E t \in Steppers : n \in QueuedNodes(st'[t])
      BY <2>4, <3>1 DEF PoolExact
    <3>4. ASSUME NEW t \in Steppers, NEW i \in 1 .. Len(st'[t].mq)
          PROVE  /\ st'[t].mq[i].node \notin free'
                 /\ \A u \in Steppers : \A j \in 1 .. Len(st'[u].mq) :
                      st'[u].mq[j].node = st'[t].mq[i].node => u = t /\ j = i
      <4>1. st'[t].mq = st[t].mq /\ i \in 1 .. Len(st[t].mq)
        BY <2>4, <3>4
      <4>2. /\ st[t].mq[i].node \notin free /\ cmd.node # st[t].mq[i].node
            /\ \A u \in Steppers : \A j \in 1 .. Len(st[u].mq) :
                 st[u].mq[j].node = st[t].mq[i].node => u = t /\ j = i
        BY <2>1, <4>1 DEF PoolExact
      <4> QED BY <2>4, <4>1, <4>2
    <3> QED BY <2>4, <3>2, <3>3, <3>4 DEF PoolExact
  <2>5. CASE UNCHANGED <<st, shut>> /\ free' = free \cup {cmd.node}
             /\ twice' = (twice \/ cmd.node \in free) /\ cmd' = NoCmd
    BY <2>4, <2>5
  <2>6. CASE /\ r.count = 0
             /\ st' = [st EXCEPT ![s] = [p EXCEPT !.sched = TRUE]]
             /\ free' = free \cup {cmd.node}
             /\ twice' = (twice \/ cmd.node \in free)
             /\ cmd' = NoCmd
    <3>1. r.mq = <<>>
      BY <2>1, <2>6 DEF RestInv
    <3>2. p.mq = <<>>
      BY <2>1, <2>2, <3>1 DEF stepper_load_next, Pushed, StepperRecord
    <3>3. st'[s] = [p EXCEPT !.sched = TRUE]
      BY <1>0, <2>1, <2>6
    <3>4. [p EXCEPT !.sched = TRUE].mq = p.mq
      BY <2>1 DEF stepper_load_next, Pushed, StepperRecord
    <3>5. \A t \in Steppers : st'[t].mq = st[t].mq
      BY <1>0, <2>1, <2>6, <3>1, <3>2, <3>3, <3>4
    <3> QED BY <2>4, <2>6, <3>5
  <2>7. CASE r.count = 0 /\ ~r.need_reset /\ Shutdown([st EXCEPT ![s] = p])
    <3>1. p \in StepperRecord
      <4>1. CoreInv(s, r) /\ Target(r, r.next_dir, cmd.count) \in AxisRange
        BY <2>1, <2>7 DEF AllInv, StepperInv, CmdInv
      <4>2. cmd \in [oid : Steppers, node : Nodes, count : 1 .. MaxCount]
        BY <2>1 DEF AllInv, TypeOK
      <4> DEFINE q == Pushed(r)
      <4>3. q \in StepperRecord /\ CoreInv(s, q) /\ q.mq # <<>> /\ q.count = 0
        BY <2>1, <2>7, <4>1, <4>2, PushCore
      <4> HIDE DEF q, r, s
      <4>4. stepper_load_next(s, q) \in StepperRecord
        BY <2>1, <4>3, LoadCore
      <4> QED BY <4>4 DEF q
    <3> HIDE DEF p
    <3>2. [st EXCEPT ![s] = p] \in [Steppers -> StepperRecord]
      BY <1>0, <2>1, <3>1
    <3> QED BY <2>7, <3>2, PoolShutdown
  <2> QED BY <1>3, <2>3, <2>5, <2>6, <2>7 DEF QueueStepPush, StaleMove
<1>4. ASSUME NEW s \in Steppers, NEW d \in Bit, SetNextStepDir(s, d)
      PROVE  PoolExact'
  <2>1. \A t \in Steppers : st'[t].mq = st[t].mq
    BY <1>0, <1>4 DEF SetNextStepDir, StepperRecord
  <2> QED BY <1>4, <2>1, PoolSame DEF SetNextStepDir
<1>5. ASSUME NEW s \in Steppers, ResetStepClock(s) PROVE PoolExact'
  <2>1. CASE st[s].count = 0
    <3>1. st' = [st EXCEPT ![s].need_reset = FALSE] /\ UNCHANGED <<free, cmd, twice>>
      BY <1>5, <2>1 DEF ResetStepClock
    <3>2. \A t \in Steppers : st'[t].mq = st[t].mq
      BY <1>0, <3>1 DEF StepperRecord
    <3> QED BY <3>1, <3>2, PoolSame
  <2> QED BY <1>1, <1>5, <2>1 DEF ResetStepClock
<1>6. ASSUME NEW s \in Steppers, StepperEvent(s) PROVE PoolExact'
  <2> DEFINE r == [TogglePin(s, st[s]) EXCEPT !.count = @ - 1]
             l == stepper_load_next(s, r)
  <2>1. /\ st[s] \in StepperRecord /\ CoreInv(s, st[s]) /\ st[s].count # 0
    BY <1>6 DEF StepperEvent, AllInv, TypeOK, StepperInv, RestInv
  <2>2. r \in StepperRecord /\ CoreInv(s, r) /\ r.mq = st[s].mq
    BY <2>1, EventCore
  <2>3. ASSUME NEW q, q.mq = st[s].mq, st' = [st EXCEPT ![s] = q],
               UNCHANGED <<free, cmd, twice>>
        PROVE  PoolExact'
    <3>1. \A t \in Steppers : st'[t].mq = st[t].mq
      BY <1>0, <2>3
    <3> QED BY <2>3, <3>1, PoolSame
  <2>4. ASSUME r.count = 0, r.mq # <<>>
        PROVE  l \in StepperRecord /\ l.mq = Tail(r.mq)
    <3> HIDE DEF r
    <3> QED BY <2>2, <2>4, LoadCore
  <2>5. stepper_idle(r).mq = r.mq
    <3> HIDE DEF r
    <3> QED BY <2>2 DEF stepper_idle, StepperRecord
  <2> HIDE DEF r
  <2>6. CASE st' = [st EXCEPT ![s] = r] /\ UNCHANGED <<free, cmd, shut, twice>>
    BY <2>2, <2>3, <2>6
  <2>7. CASE st' = [st EXCEPT ![s] = stepper_idle(r)]
             /\ UNCHANGED <<free, cmd, shut, twice>>
    BY <2>2, <2>3, <2>5, <2>7
  <2>8. CASE /\ r.count = 0 /\ r.mq # <<>>
             /\ st' = [st EXCEPT ![s] = l]
             /\ free' = free \cup {Head(r.mq).node}
             /\ twice' = (twice \/ Head(r.mq).node \in free)
             /\ UNCHANGED <<cmd, shut>>
    <3>1. l.mq = Tail(st[s].mq)
      BY <2>2, <2>4, <2>8
    <3> HIDE DEF l
    <3>2. st'[s].mq = Tail(st[s].mq) /\ \A t \in Steppers \ {s} : st'[t].mq = st[t].mq
      BY <1>0, <2>8, <3>1
    <3> QED BY <1>0, <2>2, <2>8, <3>2, PoolPop
  <2>9. CASE r.count = 0 /\ r.mq # <<>> /\ Shutdown([st EXCEPT ![s] = l])
    <3>1. l \in StepperRecord
      BY <2>4, <2>9
    <3> HIDE DEF l
    <3>2. [st EXCEPT ![s] = l] \in [Steppers -> StepperRecord]
      BY <1>0, <3>1
    <3> QED BY <2>9, <3>2, PoolShutdown
  <2> QED BY <1>6, <2>6, <2>7, <2>8, <2>9 DEF StepperEvent, r
<1>7. ASSUME NEW S \in SUBSET Steppers, Trigger(S) PROVE PoolExact'
  BY <1>0, <1>7, PoolStop
<1>8. CASE ClearShutdown \/ UNCHANGED vars
  <2>1. UNCHANGED <<st, free, cmd, twice>>
    BY <1>8 DEF ClearShutdown, vars
  <2> QED BY <2>1, PoolSame
<1> QED BY <1>1, <1>2, <1>3, <1>4, <1>5, <1>6, <1>7, <1>8 DEF Next

\* No node of the move pool is lost, on two lists at once, or freed twice,
\* whatever triggers and shutdowns hit a queue_step between alloc and push.
THEOREM PoolCorrect == Spec => []PoolExact
<1>1. Init => PoolExact
  BY DEF Init, PoolExact, ConfigStepper, QueuedNodes
<1> QED BY <1>1, PoolNext, StepperInvariant, PTL DEF Spec
=============================================================================
