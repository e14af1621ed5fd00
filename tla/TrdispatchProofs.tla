-------------------------- MODULE TrdispatchProofs --------------------------
(***************************************************************************)
(* Proofs about homing over several micro-controllers: for every number of *)
(* boards, every timeout and every number of retries the boards stop       *)
(* together, and the host is not deceived about the endstop.               *)
(***************************************************************************)
EXTENDS Trdispatch, SequenceTheorems, WellFoundedInduction, TLAPS

-----------------------------------------------------------------------------
(* Types.                                                                  *)

\* The trsync of a board.
TrsyncRecord == [can : BOOLEAN, reason : Reasons, expire : Int, report : BOOLEAN,
                 endstop : BOOLEAN]

\* struct trdispatch_mcu.
StatusRecord == [status : Nat, expire : Nat]

\* What travels down: the argument of a timeout is a time, that of the others a
\* reason.
Command ==
  [cmd : {"start"}] \cup [cmd : {"set_timeout"}, arg : Nat]
  \cup [cmd : {"trigger", "query", "endstop_home"}, arg : Reasons]

\* What travels up.
Message ==
  [type : {"ack"}] \cup [type : {"state"}, can : BOOLEAN, reason : Reasons, clock : Nat]

\* Where the host is in home_start and home_wait.
Phases == {"idle", "starting", "homing", "stopping"}

\* The state of the homing thread.
HostRecord ==
  [phase : Phases, k : 1 .. N + 1, done : BOOLEAN, home_end : BOOLEAN, params : -1 .. 4,
   left : Int, res : Seq(0 .. 4), result : 0 .. 4]

\* Types of the boards, the lines, the dispatcher and the host.
Types ==
  /\ clock \in Nat /\ fired \in Int /\ fired >= -1
  /\ ts \in [Mcus -> TrsyncRecord]
  /\ down \in [Mcus -> Seq(Command)] /\ up \in [Mcus -> Seq(Message)]
  /\ td \in [is_active : BOOLEAN, can_trigger : BOOLEAN]
  /\ tdm \in [Mcus -> StatusRecord]
  /\ host \in HostRecord

-----------------------------------------------------------------------------
(* The session: the clock stands still until every board has been started. *)

\* Boards are started before time matters, and the dispatcher works only while homing.
SessionInv ==
  /\ host.phase = "starting" => clock = 0
  /\ td.is_active => host.phase = "homing"
  /\ \A m \in Mcus : StartPending(m) => clock = 0

-----------------------------------------------------------------------------
(* Stopping together.                                                      *)

\* No timeout on its way is later than b.
TimeoutsBelow(q, b) == \A c \in Range(q) : c.cmd = "set_timeout" => c.arg <= b

\* No report on its way says the board was still armed after time b.
ReportsBelow(q, b) ==
  \A x \in Range(q) : (x.type = "state" /\ x.can) => x.clock <= b

\* trdispatch_mcu_setup has run for the board.
Known(m) == host.phase = "starting" => m < host.k

\* The host thinks no board alive, and no board is to wait, longer than the time.
Extends(m, time) ==
  ts[m].expire <= time + ExpireTicks /\ TimeoutsBelow(down[m], time + ExpireTicks)

\* Nor has the host a word of the board later than the time.
Alive(m, time) ==
  ReportsBelow(up[m], time) /\ (Known(m) => tdm[m].status <= time)

\* Board b fired first, and the host can have heard of it alive until then only.
First(b) ==
  /\ ~ts[b].can /\ InSession(b) /\ Alive(b, fired)
  /\ \A m \in Mcus \ {b} : Extends(m, fired)

\* Until a board fires, no timeout is far ahead of the clock; then none is far ahead of
\* the first to fire.
BoundInv ==
  /\ fired = -1 => \A m \in Mcus : Extends(m, clock) /\ Alive(m, clock)
  /\ fired # -1 => fired <= clock /\ \E b \in Mcus : First(b)
  /\ StopTogether

-----------------------------------------------------------------------------
(* The answers.                                                            *)

\* A start is among the commands q.
StartIn(q) == \E c \in Range(q) : c.cmd = "start"
\* MCU_trsync.stop asks for the state once.
HasQuery(q) == \E c \in Range(q) : c.cmd = "query"
\* The acknowledgement that answers it.
HasAck(q) == \E x \in Range(q) : x.type = "ack"

\* The one request of MCU_trsync.stop is on its way to board m, behind all other
\* commands.
Asked(m) ==
  /\ \E before \in Seq(Command) : down[m] = Append(before, Query) /\ ~HasQuery(before)
  /\ ~HasAck(up[m])

\* Board m has carried it out, and the acknowledgement is the last it sent.
Answered(m) ==
  /\ down[m] = <<>> /\ ~ts[m].can /\ ~ts[m].report
  /\ \E before \in Seq(Message) : up[m] = Append(before, Ack) /\ ~HasAck(before)

\* MCU_trsync.stop goes through the boards one after the other.
StopInv ==
  /\ host.phase = "stopping" =>
       /\ host.k \in Mcus
       /\ Asked(host.k) \/ Answered(host.k)
       /\ \A m \in Mcus : m < host.k => down[m] = <<>> /\ ~ts[m].can
       /\ host.k > 1 => host.res # <<>> /\ up[1] = <<>> /\ ~ts[1].report
  /\ \A m \in Mcus : ~(host.phase = "stopping" /\ m = host.k) =>
       ~HasQuery(down[m]) /\ ~HasAck(up[m])
  /\ host.phase # "stopping" => host.res = <<>>

\* The reason that board 1 gave, and still gives: nothing it can say is old.
Given(reason) == reason > 0 => ~ts[1].can /\ ts[1].reason = reason

\* Board 1 has not been started for the next session.
NotStarted == host.phase = "idle" \/ (host.phase = "starting" /\ host.k = 1)

\* What the host learns of board 1, the one with the endstop, is and stays true.
TruthInv ==
  /\ NotStarted => down[1] = <<>>
  /\ StartPending(1) => ~StartIn(Tail(down[1]))
  /\ (NotStarted \/ StartPending(1)) => up[1] = <<>> /\ ~ts[1].report
  /\ (host.phase = "stopping" /\ StartPending(1)) => host.params = NoParams
  /\ \A x \in Range(up[1]) : x.type = "state" => Given(x.reason)
  /\ host.phase = "stopping" =>
       /\ host.k = 1 => Given(host.params) /\ host.res = <<>>
       /\ host.k > 1 => Given(host.res[1])
  /\ ts[1].can => ts[1].reason = REASON_NONE
  /\ HitIsTrue

\* The inductive invariant.
DispatchInv == Types /\ SessionInv /\ BoundInv /\ StopInv /\ TruthInv

-----------------------------------------------------------------------------
(* Sequences and minima.                                                   *)

\* A sequence holds nothing but elements of its set.
LEMMA RangeOf ==
  ASSUME NEW S, NEW s \in Seq(S)
  PROVE  Range(s) \subseteq S
BY LenProperties DEF Range

\* What short sequences hold.
LEMMA RangeShort ==
  /\ Range(<<>>) = {}
  /\ \A a : Range(<<a>>) = {a}
  /\ \A a, b : Range(<<a, b>>) = {a, b}
BY DEF Range

\* What two sequences hold together.
LEMMA RangeConcat ==
  ASSUME NEW S, NEW s \in Seq(S), NEW t \in Seq(S)
  PROVE  s \o t \in Seq(S) /\ Range(s \o t) = Range(s) \cup Range(t)
<1>1. /\ s \o t \in Seq(S) /\ DOMAIN (s \o t) = 1 .. Len(s) + Len(t)
      /\ DOMAIN s = 1 .. Len(s) /\ DOMAIN t = 1 .. Len(t)
      /\ Len(s) \in Nat /\ Len(t) \in Nat
  BY ConcatProperties, LenProperties
<1>2. \A i \in 1 .. Len(s) + Len(t) :
        (s \o t)[i] = IF i <= Len(s) THEN s[i] ELSE t[i - Len(s)]
  BY ConcatProperties
<1>3. \A i \in 1 .. Len(s) : s[i] \in Range(s \o t)
  BY <1>1, <1>2 DEF Range
<1>4. \A i \in 1 .. Len(t) : t[i] \in Range(s \o t)
  <2> SUFFICES ASSUME NEW i \in 1 .. Len(t) PROVE t[i] \in Range(s \o t)
    OBVIOUS
  <2>1. Len(s) + i \in 1 .. Len(s) + Len(t) /\ ~(Len(s) + i <= Len(s))
        /\ (Len(s) + i) - Len(s) = i
    BY <1>1
  <2>2. (s \o t)[Len(s) + i] = t[i]
    BY <1>2, <2>1
  <2> QED BY <1>1, <2>1, <2>2 DEF Range
<1>5. \A i \in 1 .. Len(s) + Len(t) : (s \o t)[i] \in Range(s) \cup Range(t)
  <2> SUFFICES ASSUME NEW i \in 1 .. Len(s) + Len(t)
               PROVE  (s \o t)[i] \in Range(s) \cup Range(t)
    OBVIOUS
  <2>1. CASE i <= Len(s)
    <3>1. i \in 1 .. Len(s) BY <1>1, <2>1
    <3> QED BY <1>1, <1>2, <2>1, <3>1 DEF Range
  <2>2. CASE ~(i <= Len(s))
    <3>1. i - Len(s) \in 1 .. Len(t) BY <1>1, <2>2
    <3> QED BY <1>1, <1>2, <2>2, <3>1 DEF Range
  <2> QED BY <2>1, <2>2
<1> QED BY <1>1, <1>3, <1>4, <1>5 DEF Range

\* What a sequence holds after a message was added.
LEMMA RangeAppend ==
  ASSUME NEW S, NEW s \in Seq(S), NEW e \in S
  PROVE  Append(s, e) \in Seq(S) /\ Range(Append(s, e)) = Range(s) \cup {e}
<1>1. <<e>> \in Seq(S) /\ Append(s, e) = s \o <<e>> OBVIOUS
<1>2. s \o <<e>> \in Seq(S) /\ Range(s \o <<e>>) = Range(s) \cup Range(<<e>>)
  BY <1>1, RangeConcat
<1>3. Range(<<e>>) = {e} BY RangeShort
<1> QED BY <1>1, <1>2, <1>3

\* What it holds after one was taken.
LEMMA RangeTail ==
  ASSUME NEW S, NEW s \in Seq(S), s # <<>>
  PROVE  /\ Tail(s) \in Seq(S) /\ Range(Tail(s)) \subseteq Range(s)
         /\ Head(s) \in Range(s) /\ Head(s) \in S
<1>1. /\ Tail(s) \in Seq(S) /\ Head(s) \in S /\ Len(Tail(s)) = Len(s) - 1
      /\ \A i \in 1 .. Len(Tail(s)) : Tail(s)[i] = s[i + 1]
      /\ Len(s) \in Nat \ {0} /\ DOMAIN s = 1 .. Len(s)
      /\ DOMAIN Tail(s) = 1 .. Len(Tail(s))
  BY HeadTailProperties, EmptySeq, LenProperties
<1>2. Head(s) = s[1] OBVIOUS
<1>3. 1 \in DOMAIN s BY <1>1
<1>4. \A i \in DOMAIN Tail(s) : i + 1 \in DOMAIN s BY <1>1
<1> QED BY <1>1, <1>2, <1>3, <1>4 DEF Range

\* The first of a sequence that has something behind.
LEMMA TailAppend ==
  ASSUME NEW S, NEW s \in Seq(S), NEW e \in S
  PROVE  /\ Append(s, e) # <<>>
         /\ s = <<>> => Head(Append(s, e)) = e /\ Tail(Append(s, e)) = <<>>
         /\ s # <<>> => /\ Head(Append(s, e)) = Head(s)
                        /\ Tail(Append(s, e)) = Append(Tail(s), e)
<1>1. Append(s, e) # <<>> BY AppendProperties, EmptySeq
<1>2. ASSUME s = <<>>
      PROVE  Head(Append(s, e)) = e /\ Tail(Append(s, e)) = <<>>
  BY <1>2
<1>3. ASSUME s # <<>>
      PROVE  /\ Head(Append(s, e)) = Head(s)
             /\ Tail(Append(s, e)) = Append(Tail(s), e)
  BY <1>3
<1> QED BY <1>1, <1>2, <1>3

\* What is behind the first is not changed by what is added.
LEMMA TailConcat ==
  ASSUME NEW S, NEW s \in Seq(S), NEW t \in Seq(S), s # <<>>
  PROVE  Tail(s \o t) = Tail(s) \o t
OBVIOUS

\* A nonempty set of natural numbers has a least one, and Min picks it.
LEMMA MinIsLeast ==
  ASSUME NEW S, S \subseteq Nat, S # {}
  PROVE  Min(S) \in S /\ \A y \in S : Min(S) <= y
<1>1. \E x \in S : \A y \in S : ~(<<y, x>> \in OpToRel(<, Nat))
  BY NatLessThanWellFounded, WFMin
<1>2. \A x, y \in S : ~(<<y, x>> \in OpToRel(<, Nat)) => x <= y
  BY DEF OpToRel
<1>3. \E x \in S : \A y \in S : x <= y
  BY <1>1, <1>2
<1> QED BY <1>3 DEF Min

-----------------------------------------------------------------------------
(* The operators of the model.                                             *)

\* A board waits no longer than all others are known to be well.
LEMMA OthersLeast ==
  ASSUME NEW s \in [Mcus -> Nat], NEW m \in Mcus
  PROVE  /\ OthersStatus(s, m) \in Nat
         /\ \A o \in Mcus \ {m} : OthersStatus(s, m) <= s[o]
         /\ \E o \in Mcus : OthersStatus(s, m) = s[o]
<1>1. CASE N = 1
  <2>1. Mcus \ {m} = {} BY <1>1 DEF Mcus
  <2> QED BY <1>1, <2>1 DEF OthersStatus
<1>2. CASE N # 1
  <2> DEFINE S == {s[o] : o \in Mcus \ {m}}
  <2>1. S \subseteq Nat OBVIOUS
  <2>2. S # {}
    <3>1. \E o \in Mcus : o # m
      <4>1. 1 \in Mcus /\ 2 \in Mcus BY <1>2, TrdispatchAssumption DEF Mcus
      <4> QED BY <4>1
    <3> QED BY <3>1
  <2>3. OthersStatus(s, m) = Min(S) BY <1>2 DEF OthersStatus
  <2>4. Min(S) \in S /\ \A y \in S : Min(S) <= y
    <3> HIDE DEF S
    <3> QED BY <2>1, <2>2, MinIsLeast
  <2> QED BY <2>1, <2>3, <2>4
<1> QED BY <1>1, <1>2

\* The first error, or the answer of the board with the endstop.
LEMMA ResultIs ==
  ASSUME NEW res \in Seq(0 .. 4), res # <<>>
  PROVE  /\ Result(res) \in 0 .. 4
         /\ Result(res) = REASON_ENDSTOP_HIT => res[1] = REASON_ENDSTOP_HIT
<1> DEFINE bad == {i \in DOMAIN res : res[i] >= REASON_COMMS_TIMEOUT}
<1>1. /\ DOMAIN res = 1 .. Len(res) /\ Len(res) \in Nat \ {0}
      /\ \A i \in 1 .. Len(res) : res[i] \in 0 .. 4
  BY LenProperties, EmptySeq, ElementOfSeq
<1>2. Result(res) = IF bad = {} THEN res[1] ELSE res[Min(bad)]
  BY DEF Result
<1>3. CASE bad = {}
  BY <1>1, <1>2, <1>3
<1>4. CASE bad # {}
  <2>1. bad \subseteq Nat BY <1>1
  <2>2. Min(bad) \in bad
    <3> HIDE DEF bad
    <3> QED BY <1>4, <2>1, MinIsLeast
  <2> QED BY <1>1, <1>2, <1>4, <2>2 DEF REASON_COMMS_TIMEOUT, REASON_ENDSTOP_HIT
<1> QED BY <1>3, <1>4

\* trsync_do_trigger on board m, which leaves the structure r but for the firing.
LEMMA FireIs ==
  ASSUME Types, NEW m \in Mcus, NEW reason \in Reasons, NEW r \in TrsyncRecord,
         r.can = ts[m].can, r.reason = ts[m].reason, Fire(m, reason, r)
  PROVE  /\ ts' \in [Mcus -> TrsyncRecord]
         /\ \A o \in Mcus : o # m => ts'[o] = ts[o]
         /\ ~ts'[m].can /\ ts'[m].expire = r.expire /\ ts'[m].report = r.report
         /\ ts'[m].reason = IF ts[m].can THEN reason ELSE ts[m].reason
         /\ fired' = IF ts[m].can /\ fired = -1 /\ InSession(m) THEN clock ELSE fired
<1>0. ts \in [Mcus -> TrsyncRecord] BY DEF Types
<1>1. CASE ts[m].can
  <2> DEFINE new == [r EXCEPT !.can = FALSE, !.reason = reason]
  <2>1. new \in TrsyncRecord
    BY ZenonT(60) DEF TrsyncRecord
  <2>2. ~new.can /\ new.reason = reason /\ new.expire = r.expire /\ new.report = r.report
    BY DEF TrsyncRecord
  <2>3. /\ ts' = [ts EXCEPT ![m] = new]
        /\ fired' = IF fired = -1 /\ InSession(m) THEN clock ELSE fired
    BY <1>1 DEF Fire
  <2> HIDE DEF new
  <2>4. ts' \in [Mcus -> TrsyncRecord] /\ ts'[m] = new
        /\ \A o \in Mcus : o # m => ts'[o] = ts[o]
    BY <1>0, <2>1, <2>3
  <2> QED BY <1>1, <2>2, <2>3, <2>4
<1>2. CASE ~ts[m].can
  <2>1. ts' = [ts EXCEPT ![m] = r] /\ fired' = fired
    BY <1>2 DEF Fire
  <2>2. ts' \in [Mcus -> TrsyncRecord] /\ ts'[m] = r
        /\ \A o \in Mcus : o # m => ts'[o] = ts[o]
    BY <1>0, <2>1
  <2> QED BY <1>2, <2>1, <2>2
<1> QED BY <1>1, <1>2

\* What handle_trsync_state makes of a report x of board m: nothing unless it is
\* active, and otherwise no board may wait longer than the others are known to be well.
Handled(m, x, d) ==
  /\ d.td \in [is_active : BOOLEAN, can_trigger : BOOLEAN]
  /\ d.td.is_active = td.is_active
  /\ d.tdm \in [Mcus -> StatusRecord]
  /\ d.send \in [Mcus -> Seq(Command)]
  /\ ~td.is_active => d.tdm = tdm /\ \A o \in Mcus : d.send[o] = <<>>
  /\ \A o \in Mcus : \/ d.tdm[o].status = tdm[o].status
                     \/ o = m /\ x.can /\ d.tdm[o].status = x.clock
  /\ \A o \in Mcus : \A c \in Range(d.send[o]) :
       \/ c = Trigger(REASON_HOST_REQUEST)
       \/ \E e \in Nat :
            /\ c = SetTimeout(e)
            /\ \A p \in Mcus \ {o} : e <= d.tdm[p].status + ExpireTicks
            /\ \E p \in Mcus : e = d.tdm[p].status + ExpireTicks

\* The operator of the model does that.
LEMMA DispatchedIs ==
  ASSUME Types, NEW m \in Mcus, NEW x \in Message, x.type = "state",
         NEW d, d = Dispatched(m, x)
  PROVE  Handled(m, x, d)
<1> SUFFICES /\ d.td \in [is_active : BOOLEAN, can_trigger : BOOLEAN]
             /\ d.td.is_active = td.is_active
             /\ d.tdm \in [Mcus -> StatusRecord]
             /\ d.send \in [Mcus -> Seq(Command)]
             /\ ~td.is_active => d.tdm = tdm /\ \A o \in Mcus : d.send[o] = <<>>
             /\ \A o \in Mcus : \/ d.tdm[o].status = tdm[o].status
                                \/ o = m /\ x.can /\ d.tdm[o].status = x.clock
             /\ \A o \in Mcus : \A c \in Range(d.send[o]) :
                  \/ c = Trigger(REASON_HOST_REQUEST)
                  \/ \E e \in Nat :
                       /\ c = SetTimeout(e)
                       /\ \A p \in Mcus \ {o} : e <= d.tdm[p].status + ExpireTicks
                       /\ \E p \in Mcus : e = d.tdm[p].status + ExpireTicks
  BY DEF Handled
<1> DEFINE s == [[o \in Mcus |-> tdm[o].status] EXCEPT ![m] = x.clock]
           expire == [o \in Mcus |-> OthersStatus(s, o) + ExpireTicks]
           extended == {o \in Mcus : FarEnough(expire[o] - tdm[o].expire)}
           new == [o \in Mcus |->
                    [status |-> s[o],
                     expire |-> IF o \in extended THEN expire[o] ELSE tdm[o].expire]]
           send == [o \in Mcus |-> IF o \in extended THEN <<SetTimeout(expire[o])>>
                                                     ELSE <<>>]
<1>0. /\ tdm \in [Mcus -> StatusRecord] /\ td \in [is_active : BOOLEAN, can_trigger : BOOLEAN]
      /\ ExpireTicks \in Nat
  BY TrdispatchAssumption DEF Types
<1>1. x.clock \in Nat BY DEF Message
<1>2. s \in [Mcus -> Nat] /\ s[m] = x.clock /\ \A o \in Mcus : o # m => s[o] = tdm[o].status
  BY <1>0, <1>1 DEF StatusRecord
<1>3. ASSUME NEW o \in Mcus PROVE expire[o] \in Nat
  <2>1. OthersStatus(s, o) \in Nat BY <1>2, OthersLeast
  <2>2. expire[o] = OthersStatus(s, o) + ExpireTicks OBVIOUS
  <2> HIDE DEF s, expire
  <2> QED BY <1>0, <2>1, <2>2
<1>4. CASE ~(td.is_active /\ td.can_trigger)
  <2>1. d = [td |-> td, tdm |-> tdm, send |-> [o \in Mcus |-> <<>>]]
    BY <1>4 DEF Dispatched
  <2>2. d.td = td /\ d.tdm = tdm /\ d.send = [o \in Mcus |-> <<>>]
    BY <2>1
  <2>3. <<>> \in Seq(Command) /\ Range(<<>>) = {}
    BY RangeShort
  <2> QED BY <1>0, <2>2, <2>3
<1>5. CASE td.is_active /\ td.can_trigger /\ ~x.can
  <2> DEFINE t == Trigger(REASON_HOST_REQUEST)
  <2>1. d = [td |-> [td EXCEPT !.can_trigger = FALSE], tdm |-> tdm,
             send |-> [o \in Mcus |-> <<t>>]]
    BY <1>5 DEF Dispatched
  <2>2. t \in Command
    BY DEF Trigger, Command, REASON_HOST_REQUEST, Reasons
  <2> HIDE DEF t
  <2>3. d.td = [td EXCEPT !.can_trigger = FALSE] /\ d.tdm = tdm
        /\ d.send = [o \in Mcus |-> <<t>>]
    BY <2>1
  <2>4. d.td \in [is_active : BOOLEAN, can_trigger : BOOLEAN] /\ d.td.is_active = td.is_active
    BY <1>0, <2>3
  <2>5. <<t>> \in Seq(Command) /\ Range(<<t>>) = {t}
    BY <2>2, RangeShort
  <2>6. d.send \in [Mcus -> Seq(Command)] /\ \A o \in Mcus : Range(d.send[o]) = {t}
    BY <2>3, <2>5
  <2>7. \A o \in Mcus : \A c \in Range(d.send[o]) : c = Trigger(REASON_HOST_REQUEST)
    BY <2>6 DEF t
  <2>8. td.is_active BY <1>5
  <2>9. d.tdm \in [Mcus -> StatusRecord] /\ \A o \in Mcus : d.tdm[o].status = tdm[o].status
    BY <1>0, <2>3
  <2> QED BY <2>4, <2>6, <2>7, <2>8, <2>9, Zenon
<1>6. CASE td.is_active /\ td.can_trigger /\ x.can
  <2>1. d = [td |-> td, tdm |-> new, send |-> send]
    BY <1>6 DEF Dispatched
  <2>2. d.td = td /\ d.tdm = new /\ d.send = send
    BY <2>1
  <2>3. new \in [Mcus -> StatusRecord] /\ \A o \in Mcus : new[o].status = s[o]
    <3> SUFFICES ASSUME NEW o \in Mcus
                 PROVE  new[o] \in StatusRecord /\ new[o].status = s[o]
      OBVIOUS
    <3>1. s[o] \in Nat /\ expire[o] \in Nat /\ tdm[o].expire \in Nat
      BY <1>0, <1>2, <1>3 DEF StatusRecord
    <3> HIDE DEF s, expire, extended
    <3> QED BY <3>1 DEF StatusRecord
  <2>4. \A o \in Mcus : \/ new[o].status = tdm[o].status
                        \/ o = m /\ x.can /\ new[o].status = x.clock
    BY <1>2, <1>6, <2>3
  <2>5. ASSUME NEW o \in Mcus
        PROVE  /\ send[o] \in Seq(Command)
               /\ Range(send[o]) \subseteq {SetTimeout(expire[o])}
    <3> DEFINE t == SetTimeout(expire[o])
    <3>1. t \in Command
      <4>1. expire[o] \in Nat BY <1>3
      <4> HIDE DEF expire
      <4> QED BY <4>1 DEF SetTimeout, Command
    <3>2. send[o] = <<t>> \/ send[o] = <<>>
      OBVIOUS
    <3> HIDE DEF t, send
    <3>3. <<t>> \in Seq(Command) /\ <<>> \in Seq(Command) BY <3>1
    <3>4. Range(<<t>>) = {t} /\ Range(<<>>) = {} BY RangeShort
    <3>5. send[o] \in Seq(Command) /\ Range(send[o]) \subseteq {t}
      BY <3>2, <3>3, <3>4
    <3> QED BY <3>5 DEF t
  <2>6. ASSUME NEW o \in Mcus
        PROVE  /\ \A p \in Mcus \ {o} : expire[o] <= new[p].status + ExpireTicks
               /\ \E p \in Mcus : expire[o] = new[p].status + ExpireTicks
    <3>1. /\ OthersStatus(s, o) \in Nat
          /\ \A p \in Mcus \ {o} : OthersStatus(s, o) <= s[p]
          /\ \E p \in Mcus : OthersStatus(s, o) = s[p]
      BY <1>2, OthersLeast
    <3>2. expire[o] = OthersStatus(s, o) + ExpireTicks OBVIOUS
    <3>3. \A p \in Mcus : s[p] \in Nat BY <1>2
    <3> HIDE DEF s, expire, new
    <3> QED BY <1>0, <2>3, <3>1, <3>2, <3>3
  <2>7. send \in [Mcus -> Seq(Command)] BY <2>5
  <2> HIDE DEF s, expire, extended, new, send
  <2>8. ASSUME NEW o \in Mcus, NEW c \in Range(d.send[o])
        PROVE  \E e \in Nat :
                 /\ c = SetTimeout(e)
                 /\ \A p \in Mcus \ {o} : e <= d.tdm[p].status + ExpireTicks
                 /\ \E p \in Mcus : e = d.tdm[p].status + ExpireTicks
    <3>1. c = SetTimeout(expire[o]) BY <2>2, <2>5
    <3>2. expire[o] \in Nat BY <1>3
    <3>3. /\ \A p \in Mcus \ {o} : expire[o] <= d.tdm[p].status + ExpireTicks
          /\ \E p \in Mcus : expire[o] = d.tdm[p].status + ExpireTicks
      BY <2>2, <2>6
    <3> QED BY <3>1, <3>2, <3>3, Zenon
  <2>9. /\ d.td \in [is_active : BOOLEAN, can_trigger : BOOLEAN]
        /\ d.td.is_active = td.is_active /\ td.is_active
    BY <1>0, <1>6, <2>2
  <2>10. d.tdm \in [Mcus -> StatusRecord] /\ d.send \in [Mcus -> Seq(Command)]
    BY <2>2, <2>3, <2>7
  <2>11. \A o \in Mcus : \/ d.tdm[o].status = tdm[o].status
                         \/ o = m /\ x.can /\ d.tdm[o].status = x.clock
    BY <2>2, <2>4
  <2>12. \A o \in Mcus : \A c \in Range(d.send[o]) :
           \/ c = Trigger(REASON_HOST_REQUEST)
           \/ \E e \in Nat :
                /\ c = SetTimeout(e)
                /\ \A p \in Mcus \ {o} : e <= d.tdm[p].status + ExpireTicks
                /\ \E p \in Mcus : e = d.tdm[p].status + ExpireTicks
    BY <2>8, Zenon
  <2>13. ~td.is_active => d.tdm = tdm /\ \A o \in Mcus : d.send[o] = <<>>
    BY <2>9
  <2> QED BY <2>9, <2>10, <2>11, <2>12, <2>13, Zenon
<1> QED BY <1>0, <1>4, <1>5, <1>6

-----------------------------------------------------------------------------
(* What the steps of the boards, and those of the host, do to the bounds.  *)

\* The two ways to say that trsync_start is on its way to the board.
LEMMA StartRange ==
  ASSUME NEW m \in Mcus
  PROVE  /\ StartPending(m) <=> StartIn(down[m])
         /\ StartPending(m)' <=> StartIn(down'[m])
BY DEF StartPending, StartIn, Range

\* A board takes a command, fires, is started or reports that it is armed.
LEMMA BoardBound ==
  ASSUME Types, Types', SessionInv, BoundInv,
         UNCHANGED <<clock, tdm, host>>,
         \A o \in Mcus : Range(down'[o]) \subseteq Range(down[o]),
         \A o \in Mcus : \A x \in Range(up'[o]) :
           \/ x \in Range(up[o])
           \/ (x.type = "state" /\ x.can) => (ts[o].can /\ x.clock <= clock),
         \A o \in Mcus :
           \/ ts'[o].expire = ts[o].expire \/ ts'[o].expire = -1
           \/ \E c \in Range(down[o]) : c.cmd = "set_timeout" /\ ts'[o].expire = c.arg,
         \A o \in Mcus : ts'[o].can => (ts[o].can \/ StartPending(o)),
         \/ fired' = fired
         \/ /\ fired = -1 /\ fired' = clock
            /\ \E m \in Mcus : InSession(m) /\ ~ts'[m].can
  PROVE  BoundInv'
<1>0. /\ clock \in Nat /\ fired \in Int /\ fired >= -1 /\ ExpireTicks \in Nat
      /\ clock' = clock
  BY TrdispatchAssumption DEF Types
<1>1. ASSUME NEW o \in Mcus, NEW t \in Nat, Extends(o, t)
      PROVE  ts'[o].expire <= t + ExpireTicks /\ TimeoutsBelow(down'[o], t + ExpireTicks)
  <2>1. \A c \in Range(down[o]) : c.cmd = "set_timeout" => c.arg <= t + ExpireTicks
    BY <1>1 DEF Extends, TimeoutsBelow
  <2>2. ts[o].expire <= t + ExpireTicks /\ -1 <= t + ExpireTicks
    BY <1>0, <1>1 DEF Extends
  <2> QED BY <2>1, <2>2 DEF TimeoutsBelow
<1>2. ASSUME NEW o \in Mcus, NEW t \in Nat, Alive(o, t), ts[o].can => t = clock
      PROVE  ReportsBelow(up'[o], t) /\ (Known(o)' => tdm'[o].status <= t)
  BY <1>2 DEF Alive, ReportsBelow, Known
<1>3. ASSUME NEW o \in Mcus, InSession(o) PROVE InSession(o)'
  <2>1. StartPending(o)' => StartPending(o)
    BY StartRange DEF StartIn
  <2> QED BY <1>3, <2>1 DEF InSession
<1>4. CASE fired = -1 /\ fired' = fired
  <2>1. \A m \in Mcus : Extends(m, clock) /\ Alive(m, clock)
    BY <1>4 DEF BoundInv
  <2>2. \A m \in Mcus : Extends(m, clock)' /\ Alive(m, clock)'
    BY <1>0, <1>1, <1>2, <2>1 DEF Extends, Alive
  <2> QED BY <1>4, <2>2 DEF BoundInv, StopTogether
<1>5. CASE fired = -1 /\ fired' = clock
  <2>1. \A m \in Mcus : Extends(m, clock) /\ Alive(m, clock)
    BY <1>5 DEF BoundInv
  <2>2. PICK b \in Mcus : InSession(b) /\ ~ts'[b].can
    BY <1>0, <1>5
  <2>3. \A m \in Mcus : /\ ts'[m].expire <= clock + ExpireTicks
                        /\ TimeoutsBelow(down'[m], clock + ExpireTicks)
    BY <1>0, <1>1, <2>1
  <2>4. ReportsBelow(up'[b], clock) /\ (Known(b)' => tdm'[b].status <= clock)
    BY <1>0, <1>2, <2>1
  <2>5. First(b)'
    BY <1>3, <1>5, <2>2, <2>3, <2>4 DEF First, Alive, Extends
  <2>6. StopTogether' BY <1>0, <1>5 DEF StopTogether
  <2> QED BY <1>0, <1>5, <2>5, <2>6 DEF BoundInv
<1>6. CASE fired # -1 /\ fired' = fired
  <2>1. fired <= clock /\ StopTogether /\ \E b \in Mcus : First(b)
    BY <1>6 DEF BoundInv
  <2>2. PICK b \in Mcus : First(b) BY <2>1
  <2>3. ~ts[b].can /\ InSession(b) /\ ~StartPending(b)
    BY <2>2 DEF First, InSession
  <2>4. fired \in Nat BY <1>0, <1>6
  <2>5. \A m \in Mcus \ {b} : /\ ts'[m].expire <= fired + ExpireTicks
                              /\ TimeoutsBelow(down'[m], fired + ExpireTicks)
    BY <1>1, <2>2, <2>4 DEF First
  <2>6. ReportsBelow(up'[b], fired) /\ (Known(b)' => tdm'[b].status <= fired)
    BY <1>2, <2>2, <2>3, <2>4 DEF First
  <2>7. ~ts'[b].can /\ InSession(b)'
    BY <1>3, <2>3
  <2>8. First(b)'
    BY <1>6, <2>5, <2>6, <2>7 DEF First, Alive, Extends
  <2>9. StopTogether'
    <3> SUFFICES ASSUME clock > fired + ExpireTicks, NEW o \in Mcus
                 PROVE  ~ts'[o].can
      BY <1>0, <1>6 DEF StopTogether
    <3>1. ~ts[o].can BY <1>6, <2>1 DEF StopTogether
    <3>2. ~StartPending(o) BY <1>0, <2>4 DEF SessionInv
    <3> QED BY <3>1, <3>2
  <2> QED BY <1>0, <1>6, <2>1, <2>8, <2>9 DEF BoundInv
<1> QED BY <1>0, <1>4, <1>5, <1>6

\* The host reads a message or sends a command, and the session goes on.
LEMMA HostBound ==
  ASSUME Types, Types', BoundInv,
         UNCHANGED <<clock, ts, fired>>,
         \A o \in Mcus : Range(up'[o]) \subseteq Range(up[o]),
         \A o \in Mcus : Known(o)' <=> Known(o),
         \A o \in Mcus : StartPending(o)' => StartPending(o),
         \A o \in Mcus :
           \/ tdm'[o].status = tdm[o].status
           \/ \E x \in Range(up[o]) :
                x.type = "state" /\ x.can /\ tdm'[o].status = x.clock,
         \A o \in Mcus : \A c \in Range(down'[o]) : c.cmd = "set_timeout" =>
           \/ c \in Range(down[o])
           \/ /\ \A p \in Mcus : Known(p)
              /\ \A p \in Mcus \ {o} : c.arg <= tdm'[p].status + ExpireTicks
              /\ \E p \in Mcus : c.arg = tdm'[p].status + ExpireTicks
  PROVE  BoundInv'
<1>0. /\ clock \in Nat /\ fired \in Int /\ fired >= -1 /\ ExpireTicks \in Nat
      /\ clock' = clock /\ fired' = fired /\ ts' = ts
      /\ \A o \in Mcus : tdm'[o].status \in Nat
      /\ \A o \in Mcus : \A c \in Range(down'[o]) : c.cmd = "set_timeout" => c.arg \in Nat
  <2>1. \A o \in Mcus : tdm'[o].status \in Nat BY DEF Types, StatusRecord
  <2>2. \A o \in Mcus : \A c \in Range(down'[o]) : c.cmd = "set_timeout" => c.arg \in Nat
    <3> SUFFICES ASSUME NEW o \in Mcus, NEW c \in Range(down'[o]), c.cmd = "set_timeout"
                 PROVE  c.arg \in Nat
      OBVIOUS
    <3>1. down'[o] \in Seq(Command) BY DEF Types
    <3>2. c \in Command BY <3>1, RangeOf
    <3> QED BY <3>2 DEF Command
  <2> QED BY <2>1, <2>2, TrdispatchAssumption DEF Types
<1>1. ASSUME NEW o \in Mcus, NEW t \in Nat, Alive(o, t)
      PROVE  ReportsBelow(up'[o], t) /\ (Known(o)' => tdm'[o].status <= t)
  BY <1>1 DEF Alive, ReportsBelow
<1>2. CASE fired = -1
  <2>1. \A m \in Mcus : Extends(m, clock) /\ Alive(m, clock)
    BY <1>2 DEF BoundInv
  <2>2. \A m \in Mcus : ReportsBelow(up'[m], clock) /\ (Known(m)' => tdm'[m].status <= clock)
    BY <1>0, <1>1, <2>1
  <2>3. ASSUME NEW m \in Mcus PROVE TimeoutsBelow(down'[m], clock + ExpireTicks)
    <3> SUFFICES ASSUME NEW c \in Range(down'[m]), c.cmd = "set_timeout"
                 PROVE  c.arg <= clock + ExpireTicks
      BY DEF TimeoutsBelow
    <3>1. CASE c \in Range(down[m])
      BY <2>1, <3>1 DEF Extends, TimeoutsBelow
    <3>2. CASE c \notin Range(down[m])
      <4>1. PICK p \in Mcus : Known(p) /\ c.arg = tdm'[p].status + ExpireTicks
        BY <3>2
      <4>2. tdm'[p].status <= clock BY <2>2, <4>1
      <4> QED BY <1>0, <4>1, <4>2
    <3> QED BY <3>1, <3>2
  <2>4. \A m \in Mcus : Extends(m, clock)' /\ Alive(m, clock)'
    BY <1>0, <2>1, <2>2, <2>3 DEF Extends, Alive
  <2> QED BY <1>0, <1>2, <2>4 DEF BoundInv, StopTogether
<1>3. CASE fired # -1
  <2>1. fired <= clock /\ StopTogether /\ \E b \in Mcus : First(b)
    BY <1>3 DEF BoundInv
  <2>2. PICK b \in Mcus : First(b) BY <2>1
  <2>3. fired \in Nat BY <1>0, <1>3
  <2>4. ReportsBelow(up'[b], fired) /\ (Known(b)' => tdm'[b].status <= fired)
    BY <1>1, <2>2, <2>3 DEF First
  <2>5. InSession(b)'
    BY <2>2 DEF First, InSession, Known
  <2>6. ASSUME NEW m \in Mcus \ {b} PROVE TimeoutsBelow(down'[m], fired + ExpireTicks)
    <3> SUFFICES ASSUME NEW c \in Range(down'[m]), c.cmd = "set_timeout"
                 PROVE  c.arg <= fired + ExpireTicks
      BY DEF TimeoutsBelow
    <3>1. CASE c \in Range(down[m])
      BY <2>2, <3>1 DEF First, Extends, TimeoutsBelow
    <3>2. CASE c \notin Range(down[m])
      <4>1. Known(b) /\ c.arg <= tdm'[b].status + ExpireTicks
        BY <3>2
      <4>2. tdm'[b].status <= fired BY <2>4, <4>1
      <4> QED BY <1>0, <4>1, <4>2
    <3> QED BY <3>1, <3>2
  <2>7. First(b)'
    BY <1>0, <2>2, <2>4, <2>5, <2>6 DEF First, Alive, Extends
  <2>8. StopTogether' BY <1>0, <2>1 DEF StopTogether
  <2> QED BY <1>0, <1>3, <2>1, <2>7, <2>8 DEF BoundInv
<1> QED BY <1>2, <1>3

-----------------------------------------------------------------------------
(* The boards.                                                             *)

\* A report says what the structure says.
LEMMA StateIs ==
  ASSUME NEW r, r.can \in BOOLEAN, r.reason \in Reasons, NEW time \in Nat
  PROVE  /\ State(r, time) \in Message /\ State(r, time).type = "state"
         /\ State(r, time).can = r.can /\ State(r, time).reason = r.reason
         /\ State(r, time).clock = IF r.can THEN time ELSE 0
BY DEF State, Message

\* The request of MCU_trsync.stop and its acknowledgement.
LEMMA AckQuery ==
  /\ Ack \in Message /\ Ack.type = "ack"
  /\ Query \in Command /\ Query.cmd = "query"
BY DEF Ack, Message, Query, Command, Reasons, REASON_HOST_REQUEST

\* A trsync fires on the board, and nothing else happens.
LEMMA FireInv ==
  ASSUME DispatchInv, NEW m \in Mcus, NEW reason \in Reasons, NEW r \in TrsyncRecord,
         r.can = ts[m].can, r.reason = ts[m].reason, r.report = ts[m].report,
         r.expire = ts[m].expire \/ r.expire = -1,
         Fire(m, reason, r), UNCHANGED <<clock, down, up, td, tdm, host>>
  PROVE  DispatchInv'
<1>0. Types /\ SessionInv /\ BoundInv /\ StopInv /\ TruthInv BY DEF DispatchInv
<1>1. /\ ts' \in [Mcus -> TrsyncRecord]
      /\ \A o \in Mcus : o # m => ts'[o] = ts[o]
      /\ ~ts'[m].can /\ ts'[m].expire = r.expire /\ ts'[m].report = r.report
      /\ ts'[m].reason = IF ts[m].can THEN reason ELSE ts[m].reason
      /\ fired' = IF ts[m].can /\ fired = -1 /\ InSession(m) THEN clock ELSE fired
  BY <1>0, FireIs
<1>2. 1 \in Mcus BY TrdispatchAssumption DEF Mcus
<1>3. Types'
  <2>1. fired' \in Int /\ fired' >= -1 BY <1>0, <1>1 DEF Types
  <2> QED BY <1>0, <1>1, <2>1 DEF Types
<1>4. SessionInv' BY <1>0 DEF SessionInv, StartPending
<1>5. BoundInv'
  <2>1. \A o \in Mcus : ts'[o].expire = ts[o].expire \/ ts'[o].expire = -1
    BY <1>1
  <2>2. \A o \in Mcus : ts'[o].can => ts[o].can
    BY <1>1
  <2>3. \/ fired' = fired
        \/ fired = -1 /\ fired' = clock /\ \E o \in Mcus : InSession(o) /\ ~ts'[o].can
    BY <1>1
  <2> QED BY <1>0, <1>3, <2>1, <2>2, <2>3, BoardBound
<1>6. StopInv'
  <2>1. \A o \in Mcus : (~ts[o].can => ~ts'[o].can) /\ ts'[o].report = ts[o].report
    BY <1>1
  <2>2. \A o \in Mcus : (Asked(o) => Asked(o)') /\ (Answered(o) => Answered(o)')
    BY <2>1 DEF Asked, Answered
  <2> QED BY <1>0, <1>2, <2>1, <2>2 DEF StopInv
<1>7. TruthInv'
  <2>1. \A v : Given(v) => Given(v)' BY <1>1, <1>2 DEF Given
  <2>2. ts'[1].report = ts[1].report /\ (ts'[1].can => ts'[1].reason = REASON_NONE)
    BY <1>0, <1>1, <1>2 DEF TruthInv
  <2>3. HitIsTrue'
    BY <1>0, <1>1, <1>2 DEF TruthInv, HitIsTrue
  <2> QED BY <1>0, <2>1, <2>2, <2>3 DEF TruthInv, NotStarted, StartPending
<1> QED BY <1>3, <1>4, <1>5, <1>6, <1>7 DEF DispatchInv

\* The endstop is hit.
LEMMA EndstopHitInv ==
  ASSUME DispatchInv, EndstopHit
  PROVE  DispatchInv'
<1>1. 1 \in Mcus BY TrdispatchAssumption DEF Mcus
<1>2. ts[1] \in TrsyncRecord BY <1>1 DEF DispatchInv, Types
<1> DEFINE r == [ts[1] EXCEPT !.endstop = FALSE]
<1>3. r \in TrsyncRecord BY <1>2, ZenonT(60) DEF TrsyncRecord
<1>4. r.can = ts[1].can /\ r.reason = ts[1].reason /\ r.report = ts[1].report
      /\ r.expire = ts[1].expire
  BY <1>2 DEF TrsyncRecord
<1>5. Fire(1, REASON_ENDSTOP_HIT, r) /\ UNCHANGED <<clock, down, up, td, tdm, host>>
  BY DEF EndstopHit
<1>6. REASON_ENDSTOP_HIT \in Reasons BY DEF REASON_ENDSTOP_HIT, Reasons
<1> HIDE DEF r
<1> QED BY <1>1, <1>3, <1>4, <1>5, <1>6, FireInv

\* The timeout of a board expires.
LEMMA ExpireInv ==
  ASSUME DispatchInv, NEW m \in Mcus, trsync_expire_event(m)
  PROVE  DispatchInv'
<1>2. ts[m] \in TrsyncRecord BY DEF DispatchInv, Types
<1> DEFINE r == [ts[m] EXCEPT !.expire = -1]
<1>3. r \in TrsyncRecord
  <2>1. -1 \in Int OBVIOUS
  <2> QED BY <1>2, <2>1, ZenonT(60) DEF TrsyncRecord
<1>4. r.can = ts[m].can /\ r.reason = ts[m].reason /\ r.report = ts[m].report
      /\ r.expire = -1
  BY <1>2 DEF TrsyncRecord
<1>5. Fire(m, REASON_COMMS_TIMEOUT, r) /\ UNCHANGED <<clock, down, up, td, tdm, host>>
  BY DEF trsync_expire_event
<1>6. REASON_COMMS_TIMEOUT \in Reasons BY DEF REASON_COMMS_TIMEOUT, Reasons
<1> HIDE DEF r
<1> QED BY <1>3, <1>4, <1>5, <1>6, FireInv

\* A board reports.
LEMMA ReportInv ==
  ASSUME DispatchInv, NEW m \in Mcus, trsync_report(m)
  PROVE  DispatchInv'
<1>0. Types /\ SessionInv /\ BoundInv /\ StopInv /\ TruthInv BY DEF DispatchInv
<1>1. 1 \in Mcus BY TrdispatchAssumption DEF Mcus
<1>2. ts[m] \in TrsyncRecord /\ clock \in Nat /\ up[m] \in Seq(Message)
      /\ up \in [Mcus -> Seq(Message)]
  BY <1>0 DEF Types
<1> DEFINE x == State(ts[m], clock)
<1>3. /\ x \in Message /\ x.type = "state" /\ x.can = ts[m].can
      /\ x.reason = ts[m].reason /\ x.clock = IF ts[m].can THEN clock ELSE 0
  BY <1>2, StateIs DEF TrsyncRecord
<1>4. /\ up' = [up EXCEPT ![m] = Append(@, x)] /\ ts[m].report
      /\ UNCHANGED <<clock, ts, down, td, tdm, host, fired>>
  BY DEF trsync_report
<1> HIDE DEF x
<1>5. Append(up[m], x) \in Seq(Message) /\ Range(Append(up[m], x)) = Range(up[m]) \cup {x}
  BY <1>2, <1>3, RangeAppend
<1>6. /\ up' \in [Mcus -> Seq(Message)] /\ up'[m] = Append(up[m], x)
      /\ \A o \in Mcus : o # m => up'[o] = up[o]
      /\ \A o \in Mcus : Range(up'[o]) = IF o = m THEN Range(up[o]) \cup {x} ELSE Range(up[o])
  BY <1>2, <1>4, <1>5
<1>7. Types' BY <1>0, <1>4, <1>6 DEF Types
<1>8. SessionInv' BY <1>0, <1>4 DEF SessionInv, StartPending
<1>9. BoundInv'
  <2>1. \A o \in Mcus : \A y \in Range(up'[o]) :
          \/ y \in Range(up[o])
          \/ (y.type = "state" /\ y.can) => (ts[o].can /\ y.clock <= clock)
    <3> SUFFICES ASSUME NEW o \in Mcus, NEW y \in Range(up'[o]), y \notin Range(up[o]),
                        y.can
                 PROVE  ts[o].can /\ y.clock <= clock
      OBVIOUS
    <3>1. o = m /\ y = x BY <1>6
    <3> QED BY <1>2, <1>3, <3>1
  <2> QED BY <1>0, <1>4, <1>7, <2>1, BoardBound
<1>10. StopInv'
  <2>1. \A o \in Mcus : HasAck(up'[o]) <=> HasAck(up[o])
    BY <1>3, <1>6 DEF HasAck
  <2>2. \A o \in Mcus : Asked(o) => Asked(o)'
    BY <1>4, <2>1 DEF Asked
  <2>3. \A o \in Mcus : Answered(o) => Answered(o)'
    BY <1>4, <1>6 DEF Answered
  <2>4. host.phase = "stopping" /\ host.k > 1 => up'[1] = <<>>
    BY <1>0, <1>1, <1>4, <1>6 DEF StopInv
  <2> QED BY <1>0, <1>4, <2>1, <2>2, <2>3, <2>4 DEF StopInv
<1>11. TruthInv'
  <2>1. \A v : Given(v) => Given(v)' BY <1>4 DEF Given
  <2>2. \A y \in Range(up'[1]) : y.type = "state" => Given(y.reason)
    <3>1. m = 1 => Given(x.reason)
      BY <1>0, <1>3 DEF TruthInv, Given, REASON_NONE
    <3> QED BY <1>0, <1>1, <1>6, <3>1 DEF TruthInv
  <2>3. (NotStarted \/ StartPending(1)) => up'[1] = <<>> /\ ~ts[1].report
    BY <1>0, <1>1, <1>4, <1>6 DEF TruthInv
  <2> QED BY <1>0, <1>4, <2>1, <2>2, <2>3 DEF TruthInv, NotStarted, StartPending, HitIsTrue
<1> QED BY <1>7, <1>8, <1>9, <1>10, <1>11 DEF DispatchInv

\* What a command that a board takes leaves on its way.
LEMMA Taken ==
  ASSUME DispatchInv, NEW m \in Mcus, down[m] # <<>>,
         down' = [down EXCEPT ![m] = Tail(@)]
  PROVE  /\ down' \in [Mcus -> Seq(Command)] /\ down'[m] = Tail(down[m])
         /\ \A o \in Mcus : o # m => down'[o] = down[o]
         /\ \A o \in Mcus : Range(down'[o]) \subseteq Range(down[o])
         /\ Head(down[m]) \in Command /\ Head(down[m]) \in Range(down[m])
         /\ \A o \in Mcus : StartPending(o)' => StartPending(o)
         /\ m = 1 => ~NotStarted /\ ~StartPending(1)'
         /\ host.phase = "stopping" => /\ ~(m < host.k) /\ ~Answered(m)
                                       /\ host.k > 1 => m # 1
         /\ ~(host.phase = "idle" /\ host.result # REASON_NONE)
<1>0. Types /\ SessionInv /\ BoundInv /\ StopInv /\ TruthInv BY DEF DispatchInv
<1>1. 1 \in Mcus BY TrdispatchAssumption DEF Mcus
<1>2. down \in [Mcus -> Seq(Command)] /\ down[m] \in Seq(Command) BY <1>0 DEF Types
<1>3. /\ Tail(down[m]) \in Seq(Command) /\ Range(Tail(down[m])) \subseteq Range(down[m])
      /\ Head(down[m]) \in Range(down[m]) /\ Head(down[m]) \in Command
  BY <1>2, RangeTail
<1>4. /\ down' \in [Mcus -> Seq(Command)] /\ down'[m] = Tail(down[m])
      /\ \A o \in Mcus : o # m => down'[o] = down[o]
      /\ \A o \in Mcus : Range(down'[o]) \subseteq Range(down[o])
  BY <1>2, <1>3
<1>5. \A o \in Mcus : StartPending(o)' => StartPending(o)
  BY <1>4, StartRange DEF StartIn
<1>6. m = 1 => ~NotStarted /\ ~StartPending(1)'
  <2> SUFFICES ASSUME m = 1 PROVE ~NotStarted /\ ~StartPending(1)'
    OBVIOUS
  <2>1. ~NotStarted BY <1>0 DEF TruthInv
  <2>2. StartPending(1)' => StartIn(Tail(down[1])) BY <1>1, <1>4, StartRange
  <2> QED BY <1>0, <1>1, <1>5, <2>1, <2>2 DEF TruthInv
<1>7. host.phase = "stopping" => /\ ~(m < host.k) /\ ~Answered(m)
                                 /\ host.k > 1 => m # 1
  <2>1. host.phase = "stopping" => ~(m < host.k) BY <1>0 DEF StopInv
  <2>2. ~Answered(m) BY DEF Answered
  <2> QED BY <2>1, <2>2
<1>8. ~(host.phase = "idle" /\ host.result # REASON_NONE)
  BY <1>0 DEF TruthInv, HitIsTrue
<1> QED BY <1>3, <1>4, <1>5, <1>6, <1>7, <1>8

\* The request stays the last command until it is the only one.
LEMMA AskedTaken ==
  ASSUME DispatchInv, NEW m \in Mcus, Asked(m)
  PROVE  /\ Head(down[m]).cmd # "query" =>
              \E before \in Seq(Command) :
                Tail(down[m]) = Append(before, Query) /\ ~HasQuery(before)
         /\ Head(down[m]).cmd = "query" => Tail(down[m]) = <<>> /\ Head(down[m]) = Query
<1>1. PICK before \in Seq(Command) : down[m] = Append(before, Query) /\ ~HasQuery(before)
  BY DEF Asked
<1>2. CASE before = <<>>
  <2>1. Head(down[m]) = Query /\ Tail(down[m]) = <<>>
    BY <1>1, <1>2, AckQuery, TailAppend
  <2> QED BY <2>1, AckQuery
<1>3. CASE before # <<>>
  <2>1. Head(down[m]) = Head(before) /\ Tail(down[m]) = Append(Tail(before), Query)
    BY <1>1, <1>3, AckQuery, TailAppend
  <2>2. /\ Tail(before) \in Seq(Command) /\ Range(Tail(before)) \subseteq Range(before)
        /\ Head(before) \in Range(before)
    BY <1>3, RangeTail
  <2> QED BY <1>1, <2>1, <2>2 DEF HasQuery
<1> QED BY <1>2, <1>3

\* A command that is not answered: it arms the trsync, or leaves what it reports.
LEMMA QuietInv ==
  ASSUME DispatchInv, NEW m \in Mcus, down[m] # <<>>,
         down' = [down EXCEPT ![m] = Tail(@)],
         Head(down[m]).cmd # "query",
         UNCHANGED <<clock, up, td, tdm, host, fired>>,
         ts' \in [Mcus -> TrsyncRecord],
         \A o \in Mcus : o # m => ts'[o] = ts[o],
         \/ ts'[m].expire = ts[m].expire \/ ts'[m].expire = -1
         \/ Head(down[m]).cmd = "set_timeout" /\ ts'[m].expire = Head(down[m]).arg,
         \/ /\ ts'[m].can = ts[m].can /\ ts'[m].reason = ts[m].reason
            /\ ts'[m].report = ts[m].report
         \/ Head(down[m]).cmd = "start" /\ ts'[m].reason = REASON_NONE
  PROVE  DispatchInv'
<1>0. Types /\ SessionInv /\ BoundInv /\ StopInv /\ TruthInv BY DEF DispatchInv
<1>1. 1 \in Mcus BY TrdispatchAssumption DEF Mcus
<1>2. /\ down' \in [Mcus -> Seq(Command)] /\ down'[m] = Tail(down[m])
      /\ \A o \in Mcus : o # m => down'[o] = down[o]
      /\ \A o \in Mcus : Range(down'[o]) \subseteq Range(down[o])
      /\ Head(down[m]) \in Command /\ Head(down[m]) \in Range(down[m])
      /\ \A o \in Mcus : StartPending(o)' => StartPending(o)
      /\ m = 1 => ~NotStarted /\ ~StartPending(1)'
      /\ host.phase = "stopping" => /\ ~(m < host.k) /\ ~Answered(m)
                                    /\ host.k > 1 => m # 1
      /\ ~(host.phase = "idle" /\ host.result # REASON_NONE)
  BY Taken, Zenon
<1>3. Head(down[m]).cmd = "start" => StartPending(m)
  BY <1>2, StartRange DEF StartIn
<1>4. Types' BY <1>0, <1>2 DEF Types
<1>5. SessionInv' BY <1>0, <1>2 DEF SessionInv
<1>6. BoundInv'
  <2>1. \A o \in Mcus :
          \/ ts'[o].expire = ts[o].expire \/ ts'[o].expire = -1
          \/ \E c \in Range(down[o]) : c.cmd = "set_timeout" /\ ts'[o].expire = c.arg
    BY <1>2
  <2>2. \A o \in Mcus : ts'[o].can => (ts[o].can \/ StartPending(o))
    BY <1>3
  <2> QED BY <1>0, <1>2, <1>4, <2>1, <2>2, BoardBound
<1>7. StopInv'
  <2>1. \A o \in Mcus : Asked(o) => Asked(o)'
    <3> SUFFICES ASSUME NEW o \in Mcus, Asked(o) PROVE Asked(o)'
      OBVIOUS
    <3>1. \E before \in Seq(Command) : down'[o] = Append(before, Query) /\ ~HasQuery(before)
      <4>1. CASE o = m BY <1>2, <4>1, AskedTaken
      <4>2. CASE o # m BY <1>2, <4>2 DEF Asked
      <4> QED BY <4>1, <4>2
    <3> QED BY <3>1 DEF Asked
  <2>2. host.phase = "stopping" => \A o \in Mcus : Answered(o) => Answered(o)'
    BY <1>2 DEF Answered
  <2>3. host.phase = "stopping" =>
          \A o \in Mcus : o < host.k => down'[o] = <<>> /\ ~ts'[o].can
    BY <1>0, <1>2 DEF StopInv
  <2>4. host.phase = "stopping" /\ host.k > 1 => up[1] = <<>> /\ ~ts'[1].report
    BY <1>0, <1>1, <1>2 DEF StopInv
  <2>5. \A o \in Mcus : ~HasQuery(down[o]) => ~HasQuery(down'[o])
    BY <1>2 DEF HasQuery
  <2> QED BY <1>0, <2>1, <2>2, <2>3, <2>4, <2>5 DEF StopInv
<1>8. TruthInv'
  <2>1. NotStarted => down'[1] = <<>> BY <1>0, <1>1, <1>2 DEF TruthInv
  <2>2. StartPending(1)' => ~StartIn(Tail(down'[1]))
    BY <1>0, <1>1, <1>2 DEF TruthInv
  <2>3. (NotStarted \/ StartPending(1)') => up[1] = <<>> /\ ~ts'[1].report
    BY <1>0, <1>1, <1>2 DEF TruthInv
  <2>4. (host.phase = "stopping" /\ StartPending(1)') => host.params = NoParams
    BY <1>0, <1>1, <1>2 DEF TruthInv
  <2>5. CASE m = 1 /\ Head(down[m]).cmd = "start"
    <3>1. up[1] = <<>> /\ StartPending(1) BY <1>0, <1>3, <2>5 DEF TruthInv
    <3>2. host.phase = "stopping" => host.k = 1 /\ host.params = NoParams
      <4>1. host.phase = "stopping" => host.k \in Mcus BY <1>0 DEF StopInv
      <4> QED BY <1>0, <1>2, <2>5, <3>1, <4>1 DEF TruthInv, Mcus
    <3>3. Range(up'[1]) = {} BY <3>1, RangeShort
    <3>4. host.phase = "stopping" =>
            Given(host.params)' /\ host.res = <<>> /\ host.k = 1
      BY <1>0, <3>2 DEF TruthInv, Given, NoParams
    <3>5. ts'[1].can => ts'[1].reason = REASON_NONE
      BY <1>0, <2>5 DEF TruthInv
    <3>6. HitIsTrue' BY <1>2 DEF HitIsTrue
    <3> QED BY <2>1, <2>2, <2>3, <2>4, <3>3, <3>4, <3>5, <3>6 DEF TruthInv, NotStarted
  <2>6. CASE ~(m = 1 /\ Head(down[m]).cmd = "start")
    <3>1. ts'[1].can = ts[1].can /\ ts'[1].reason = ts[1].reason
      BY <1>1, <2>6
    <3>2. \A v : Given(v) => Given(v)' BY <3>1 DEF Given
    <3>3. HitIsTrue' BY <1>2 DEF HitIsTrue
    <3> QED BY <1>0, <2>1, <2>2, <2>3, <2>4, <3>1, <3>2, <3>3 DEF TruthInv, NotStarted
  <2> QED BY <2>5, <2>6
<1> QED BY <1>4, <1>5, <1>6, <1>7, <1>8 DEF DispatchInv

\* trsync_trigger: the board fires, and answers if the answer is not lost.
LEMMA TriggerInv ==
  ASSUME DispatchInv, NEW m \in Mcus, Deliver(m),
         Head(down[m]).cmd \in {"trigger", "query"}
  PROVE  DispatchInv'
<1> DEFINE c == Head(down[m])
           off == [ts[m] EXCEPT !.expire = -1, !.report = FALSE]
           answer == [can |-> FALSE, reason |-> IF ts[m].can THEN c.arg ELSE ts[m].reason]
           ack == IF c = Query THEN <<Ack>> ELSE <<>>
<1>0. Types /\ SessionInv /\ BoundInv /\ StopInv /\ TruthInv BY DEF DispatchInv
<1>1. 1 \in Mcus BY TrdispatchAssumption DEF Mcus
<1>2. /\ down[m] # <<>> /\ down' = [down EXCEPT ![m] = Tail(@)]
      /\ Fire(m, c.arg, off) /\ UNCHANGED <<clock, td, tdm, host>>
      /\ \E sent \in {<<>>, <<State(answer, 0)>>} :
           up' = [up EXCEPT ![m] = @ \o sent \o ack]
  BY DEF Deliver
<1>3. /\ down' \in [Mcus -> Seq(Command)] /\ down'[m] = Tail(down[m])
      /\ \A o \in Mcus : o # m => down'[o] = down[o]
      /\ \A o \in Mcus : Range(down'[o]) \subseteq Range(down[o])
      /\ c \in Command /\ c \in Range(down[m])
      /\ \A o \in Mcus : StartPending(o)' => StartPending(o)
      /\ m = 1 => ~NotStarted /\ ~StartPending(1)'
      /\ host.phase = "stopping" => /\ ~(m < host.k) /\ ~Answered(m)
                                    /\ host.k > 1 => m # 1
      /\ ~(host.phase = "idle" /\ host.result # REASON_NONE)
  BY <1>2, Taken, Zenon
<1>4. /\ ts[m] \in TrsyncRecord /\ clock \in Nat /\ up \in [Mcus -> Seq(Message)]
      /\ up[m] \in Seq(Message) /\ fired \in Int /\ fired >= -1
  BY <1>0 DEF Types
<1>5. off \in TrsyncRecord
  <2>1. -1 \in Int /\ FALSE \in BOOLEAN OBVIOUS
  <2> QED BY <1>4, <2>1, ZenonT(60) DEF TrsyncRecord
<1>6. /\ off.can = ts[m].can /\ off.reason = ts[m].reason /\ off.expire = -1
      /\ off.report = FALSE
  BY <1>4 DEF TrsyncRecord
<1>7. c.arg \in Reasons /\ c.cmd \in {"trigger", "query"}
  BY <1>3 DEF Command
<1>8. /\ ts' \in [Mcus -> TrsyncRecord]
      /\ \A o \in Mcus : o # m => ts'[o] = ts[o]
      /\ ~ts'[m].can /\ ts'[m].expire = -1 /\ ~ts'[m].report
      /\ ts'[m].reason = IF ts[m].can THEN c.arg ELSE ts[m].reason
      /\ fired' = IF ts[m].can /\ fired = -1 /\ InSession(m) THEN clock ELSE fired
  <2> HIDE DEF off, c
  <2> QED BY <1>0, <1>2, <1>5, <1>6, <1>7, FireIs
<1>9. PICK sent \in {<<>>, <<State(answer, 0)>>} :
         up' = [up EXCEPT ![m] = @ \o sent \o ack]
  BY <1>2
<1>10. /\ sent \in Seq(Message)
       /\ \A x \in Range(sent) : x.type = "state" /\ x.can = FALSE /\ x.reason = ts'[m].reason
  <2>1. CASE sent = <<>>
    <3>1. Range(sent) = {} BY <2>1, RangeShort
    <3> QED BY <2>1, <3>1
  <2>2. CASE sent = <<State(answer, 0)>>
    <3>1. answer.can = FALSE /\ answer.reason = ts'[m].reason BY <1>8
    <3>2. answer.reason \in Reasons BY <1>4, <1>7 DEF TrsyncRecord
    <3> HIDE DEF answer
    <3>3. answer.can \in BOOLEAN /\ 0 \in Nat BY <3>1
    <3>4. /\ State(answer, 0) \in Message /\ State(answer, 0).type = "state"
          /\ State(answer, 0).can = answer.can /\ State(answer, 0).reason = answer.reason
      BY <3>2, <3>3, StateIs
    <3>5. Range(sent) = {State(answer, 0)} BY <2>2, RangeShort
    <3> HIDE DEF answer
    <3> QED BY <2>2, <3>1, <3>4, <3>5
  <2> QED BY <1>9, <2>1, <2>2
<1>11. /\ ack \in Seq(Message) /\ (c.cmd # "query" => ack = <<>>)
       /\ (c = Query => ack = <<Ack>>)
       /\ \A x \in Range(ack) : x = Ack
  <2>1. Range(<<>>) = {} /\ Range(<<Ack>>) = {Ack} BY RangeShort
  <2> QED BY <2>1, AckQuery
<1> HIDE DEF ack, off, answer, c
<1>12. /\ up[m] \o sent \in Seq(Message)
       /\ Range(up[m] \o sent) = Range(up[m]) \cup Range(sent)
  BY <1>4, <1>10, RangeConcat
<1>13. /\ up[m] \o sent \o ack \in Seq(Message)
       /\ Range(up[m] \o sent \o ack) = Range(up[m]) \cup Range(sent) \cup Range(ack)
  <2>1. \A q \in Seq(Message) : /\ q \o ack \in Seq(Message)
                                /\ Range(q \o ack) = Range(q) \cup Range(ack)
    BY <1>11, RangeConcat
  <2> QED BY <1>12, <2>1, Zenon
<1>14. /\ up' \in [Mcus -> Seq(Message)] /\ up'[m] = up[m] \o sent \o ack
       /\ \A o \in Mcus : o # m => up'[o] = up[o]
       /\ Range(up'[m]) = Range(up[m]) \cup Range(sent) \cup Range(ack)
  BY <1>4, <1>9, <1>13
<1>15. Types'
  <2>1. fired' \in Int /\ fired' >= -1 BY <1>4, <1>8
  <2> QED BY <1>0, <1>2, <1>3, <1>8, <1>14, <2>1 DEF Types
<1>16. SessionInv' BY <1>0, <1>2, <1>3 DEF SessionInv
<1>17. BoundInv'
  <2>1. ASSUME NEW o \in Mcus, NEW x \in Range(up'[o]), x \notin Range(up[o])
        PROVE  ~(x.type = "state" /\ x.can)
    <3>1. o = m /\ (x \in Range(sent) \/ x = Ack) BY <1>11, <1>14, <2>1
    <3> QED BY <1>10, <3>1, AckQuery
  <2>2. \A o \in Mcus : ts'[o].expire = ts[o].expire \/ ts'[o].expire = -1
    BY <1>8
  <2>3. \A o \in Mcus : ts'[o].can => ts[o].can BY <1>8
  <2>4. \/ fired' = fired
        \/ fired = -1 /\ fired' = clock /\ \E o \in Mcus : InSession(o) /\ ~ts'[o].can
    BY <1>8
  <2> QED BY <1>0, <1>2, <1>3, <1>15, <2>1, <2>2, <2>3, <2>4, BoardBound
<1>18. \A o \in Mcus : (~ts[o].can => ~ts'[o].can) /\ (~ts[o].report => ~ts'[o].report)
  BY <1>8
<1>19. StopInv'
  <2>1. host.phase = "stopping" =>
          \A o \in Mcus : o < host.k => down'[o] = <<>> /\ ~ts'[o].can
    BY <1>0, <1>3, <1>18 DEF StopInv
  <2>2. host.phase = "stopping" /\ host.k > 1 => up'[1] = <<>> /\ ~ts'[1].report
    BY <1>0, <1>1, <1>3, <1>14, <1>18 DEF StopInv
  <2>3. ASSUME NEW o \in Mcus, o # m
        PROVE  (Asked(o) => Asked(o)') /\ (Answered(o) => Answered(o)')
    BY <1>3, <1>14, <1>18, <2>3 DEF Asked, Answered
  <2>4. CASE c.cmd = "query"
    <3>1. host.phase = "stopping" /\ m = host.k /\ Asked(m)
      <4>1. HasQuery(down[m]) BY <1>3, <2>4 DEF HasQuery
      <4> QED BY <1>0, <1>3, <4>1 DEF StopInv
    <3>2. down'[m] = <<>> /\ c = Query BY <1>3, <2>4, <3>1, AskedTaken DEF c
    <3>3. up'[m] = Append(up[m] \o sent, Ack)
      <4>1. up'[m] = (up[m] \o sent) \o <<Ack>> BY <1>11, <1>14, <3>2
      <4>2. \A q \in Seq(Message) : q \o <<Ack>> = Append(q, Ack) BY AckQuery
      <4> QED BY <1>12, <4>1, <4>2
    <3>4. ~HasAck(up[m] \o sent)
      <4>1. ~HasAck(up[m]) BY <3>1 DEF Asked
      <4> QED BY <1>10, <1>12, <4>1 DEF HasAck
    <3>5. Answered(m)' BY <1>8, <1>12, <3>2, <3>3, <3>4 DEF Answered
    <3>6. \A o \in Mcus : o # m => ~HasQuery(down'[o]) /\ ~HasAck(up'[o])
      BY <1>0, <1>3, <1>14, <3>1 DEF StopInv
    <3> QED BY <1>0, <1>2, <2>1, <2>2, <3>1, <3>5, <3>6 DEF StopInv
  <2>5. CASE c.cmd # "query"
    <3>1. ack = <<>> BY <1>11, <2>5
    <3>2. Range(ack) = {} BY <3>1, RangeShort
    <3>3. \A o \in Mcus : ~HasAck(up[o]) => ~HasAck(up'[o])
      BY <1>10, <1>14, <3>2 DEF HasAck
    <3>4. \A o \in Mcus : ~HasQuery(down[o]) => ~HasQuery(down'[o])
      BY <1>3 DEF HasQuery
    <3>5. Asked(m) => Asked(m)'
      <4> SUFFICES ASSUME Asked(m) PROVE Asked(m)'
        OBVIOUS
      <4>1. \E before \in Seq(Command) : down'[m] = Append(before, Query) /\ ~HasQuery(before)
        BY <1>3, <2>5, AskedTaken DEF c
      <4>2. ~HasAck(up'[m]) BY <3>3 DEF Asked
      <4> QED BY <4>1, <4>2 DEF Asked
    <3>6. host.phase = "stopping" =>
            \A o \in Mcus : Asked(o) \/ Answered(o) => Asked(o)' \/ Answered(o)'
      BY <1>3, <2>3, <3>5
    <3> QED BY <1>0, <1>2, <2>1, <2>2, <3>3, <3>4, <3>6 DEF StopInv
  <2> QED BY <2>4, <2>5
<1>20. TruthInv'
  <2>1. NotStarted => down'[1] = <<>> BY <1>0, <1>1, <1>3 DEF TruthInv
  <2>2. StartPending(1)' => ~StartIn(Tail(down'[1]))
    BY <1>0, <1>1, <1>3 DEF TruthInv
  <2>3. (NotStarted \/ StartPending(1)') => up'[1] = <<>> /\ ~ts'[1].report
    BY <1>0, <1>1, <1>3, <1>14, <1>18 DEF TruthInv
  <2>4. (host.phase = "stopping" /\ StartPending(1)') => host.params = NoParams
    BY <1>0, <1>1, <1>3 DEF TruthInv
  <2>5. \A v : Given(v) => Given(v)' BY <1>1, <1>8 DEF Given
  <2>6. ASSUME NEW x \in Range(up'[1]), x.type = "state" PROVE Given(x.reason)'
    <3>1. CASE x \in Range(up[1]) BY <1>0, <2>5, <2>6, <3>1 DEF TruthInv
    <3>2. CASE x \notin Range(up[1])
      <4>1. m = 1 /\ x \in Range(sent)
        BY <1>1, <1>11, <1>14, <2>6, <3>2, AckQuery
      <4> QED BY <1>8, <1>10, <4>1 DEF Given
    <3> QED BY <3>1, <3>2
  <2>7. ts'[1].can => ts'[1].reason = REASON_NONE
    BY <1>0, <1>1, <1>8 DEF TruthInv
  <2>8. HitIsTrue' BY <1>2, <1>3 DEF HitIsTrue
  <2> QED BY <1>0, <1>2, <2>1, <2>2, <2>3, <2>4, <2>5, <2>6, <2>7, <2>8
          DEF TruthInv, NotStarted
<1> QED BY <1>15, <1>16, <1>17, <1>19, <1>20 DEF DispatchInv

\* A command arrives.
LEMMA DeliverInv ==
  ASSUME DispatchInv, NEW m \in Mcus, Deliver(m)
  PROVE  DispatchInv'
<1> DEFINE c == Head(down[m])
<1>0. Types BY DEF DispatchInv
<1>1. /\ down[m] # <<>> /\ down' = [down EXCEPT ![m] = Tail(@)]
      /\ UNCHANGED <<clock, td, tdm, host>>
  BY DEF Deliver
<1>2. c \in Command BY <1>1, Taken
<1>3. ts \in [Mcus -> TrsyncRecord] /\ ts[m] \in TrsyncRecord BY <1>0 DEF Types
<1>4. CASE c.cmd = "start"
  <2> DEFINE new == [ts[m] EXCEPT !.can = TRUE, !.expire = -1,
                       !.reason = REASON_NONE, !.report = TRUE]
  <2>1. ts' = [ts EXCEPT ![m] = new] /\ UNCHANGED <<up, fired>>
    BY <1>4 DEF Deliver
  <2>2. new \in TrsyncRecord
    <3>1. -1 \in Int /\ TRUE \in BOOLEAN /\ REASON_NONE \in Reasons
      BY DEF REASON_NONE, Reasons
    <3> QED BY <1>3, <3>1, ZenonT(60) DEF TrsyncRecord
  <2>3. new.expire = -1 /\ new.reason = REASON_NONE BY <1>3 DEF TrsyncRecord
  <2> HIDE DEF new, c
  <2>4. /\ ts' \in [Mcus -> TrsyncRecord] /\ ts'[m] = new
        /\ \A o \in Mcus : o # m => ts'[o] = ts[o]
    BY <1>3, <2>1, <2>2
  <2> QED BY <1>1, <1>4, <2>1, <2>3, <2>4, QuietInv DEF c
<1>5. CASE c.cmd = "set_timeout"
  <2> DEFINE new == [ts[m] EXCEPT !.expire = IF ts[m].can THEN c.arg ELSE @]
  <2>1. ts' = [ts EXCEPT ![m].expire = IF ts[m].can THEN c.arg ELSE @]
        /\ UNCHANGED <<up, fired>>
    BY <1>5 DEF Deliver
  <2>2. c.arg \in Int BY <1>2, <1>5 DEF Command
  <2>3. /\ new \in TrsyncRecord /\ new.can = ts[m].can /\ new.reason = ts[m].reason
        /\ new.report = ts[m].report
        /\ new.expire = ts[m].expire \/ new.expire = c.arg
    BY <1>3, <2>2 DEF TrsyncRecord
  <2>4. ts' = [ts EXCEPT ![m] = new] BY <1>3, <2>1
  <2> HIDE DEF new, c
  <2>5. /\ ts' \in [Mcus -> TrsyncRecord] /\ ts'[m] = new
        /\ \A o \in Mcus : o # m => ts'[o] = ts[o]
    BY <1>3, <2>3, <2>4
  <2> QED BY <1>1, <1>5, <2>1, <2>3, <2>5, QuietInv DEF c
<1>6. CASE c.cmd = "endstop_home"
  <2> DEFINE new == [ts[m] EXCEPT !.endstop = c.arg = REASON_ENDSTOP_HIT]
  <2>1. ts' = [ts EXCEPT ![m].endstop = c.arg = REASON_ENDSTOP_HIT]
        /\ UNCHANGED <<up, fired>>
    BY <1>6 DEF Deliver
  <2>2. (c.arg = REASON_ENDSTOP_HIT) \in BOOLEAN OBVIOUS
  <2>3. new \in TrsyncRecord BY <1>3, <2>2, ZenonT(60) DEF TrsyncRecord
  <2>4. /\ new.can = ts[m].can /\ new.reason = ts[m].reason
        /\ new.report = ts[m].report /\ new.expire = ts[m].expire
    BY <1>3 DEF TrsyncRecord
  <2>5. ts' = [ts EXCEPT ![m] = new] BY <1>3, <2>1, Zenon
  <2> HIDE DEF new, c
  <2>6. /\ ts' \in [Mcus -> TrsyncRecord] /\ ts'[m] = new
        /\ \A o \in Mcus : o # m => ts'[o] = ts[o]
    BY <1>3, <2>3, <2>5
  <2> QED BY <1>1, <1>6, <2>1, <2>4, <2>6, QuietInv DEF c
<1>7. CASE c.cmd \in {"trigger", "query"}
  BY <1>7, TriggerInv
<1> QED BY <1>2, <1>4, <1>5, <1>6, <1>7 DEF Command

\* Time passes.  A board that is still armed has a timeout, which the clock has not
\* reached and which the first board to fire does not let go further.
LEMMA TickInv ==
  ASSUME DispatchInv, Tick
  PROVE  DispatchInv'
<1>0. Types /\ SessionInv /\ BoundInv /\ StopInv /\ TruthInv BY DEF DispatchInv
<1>1. /\ clock' = clock + 1 /\ UNCHANGED <<ts, down, up, td, tdm, host, fired>>
      /\ \A m \in Mcus : ~Expired(m) /\ ~Starting(m)
      /\ host.phase # "starting"
  BY DEF Tick
<1>2. clock \in Nat /\ ExpireTicks \in Nat /\ fired \in Int /\ fired >= -1
  BY <1>0, TrdispatchAssumption DEF Types
<1>3. \A m \in Mcus : ts[m].expire \in Int BY <1>0 DEF Types, TrsyncRecord
<1>4. Types' BY <1>0, <1>1, <1>2 DEF Types
<1>5. SessionInv' BY <1>0, <1>1 DEF SessionInv, StartPending, Starting
<1>6. BoundInv'
  <2>1. CASE fired = -1
    <3>1. \A m \in Mcus : Extends(m, clock) /\ Alive(m, clock)
      BY <1>0, <2>1 DEF BoundInv
    <3>2. ASSUME NEW m \in Mcus PROVE Extends(m, clock)'
      <4>1. \A c \in Range(down[m]) : c.cmd = "set_timeout" => c.arg \in Nat
        <5>1. down[m] \in Seq(Command) BY <1>0 DEF Types
        <5>2. \A c \in Range(down[m]) : c \in Command BY <5>1, RangeOf
        <5> QED BY <5>2 DEF Command
      <4>2. ts[m].expire <= (clock + 1) + ExpireTicks
        BY <1>2, <1>3, <3>1 DEF Extends
      <4>3. TimeoutsBelow(down[m], (clock + 1) + ExpireTicks)
        BY <1>2, <3>1, <4>1 DEF Extends, TimeoutsBelow
      <4> QED BY <1>1, <4>2, <4>3 DEF Extends
    <3>3. ASSUME NEW m \in Mcus PROVE Alive(m, clock)'
      <4>1. \A x \in Range(up[m]) : x.type = "state" => x.clock \in Nat
        <5>1. up[m] \in Seq(Message) BY <1>0 DEF Types
        <5>2. \A x \in Range(up[m]) : x \in Message BY <5>1, RangeOf
        <5> QED BY <5>2 DEF Message
      <4>2. tdm[m].status \in Nat BY <1>0 DEF Types, StatusRecord
      <4>3. ReportsBelow(up[m], clock + 1)
        BY <1>2, <3>1, <4>1 DEF Alive, ReportsBelow
      <4>4. Known(m) => tdm[m].status <= clock + 1
        BY <1>2, <3>1, <4>2 DEF Alive
      <4> QED BY <1>1, <4>3, <4>4 DEF Alive, Known
    <3> QED BY <1>1, <2>1, <3>2, <3>3 DEF BoundInv, StopTogether
  <2>2. CASE fired # -1
    <3>1. fired <= clock /\ StopTogether /\ \E b \in Mcus : First(b)
      BY <1>0, <2>2 DEF BoundInv
    <3>2. PICK b \in Mcus : First(b) BY <3>1
    <3>3. First(b)'
      BY <1>1, <3>2 DEF First, Alive, Extends, InSession, StartPending, Known
    <3>4. fired' <= clock' BY <1>1, <1>2, <3>1
    <3>5. StopTogether'
      <4> SUFFICES ASSUME clock + 1 > fired + ExpireTicks, NEW m \in Mcus, ts[m].can
                   PROVE  FALSE
        BY <1>1 DEF StopTogether
      <4>1. ~(clock > fired + ExpireTicks) BY <2>2, <3>1 DEF StopTogether
      <4>2. m # b BY <3>2 DEF First
      <4>3. ts[m].expire <= fired + ExpireTicks BY <3>2, <4>2 DEF First, Extends
      <4>4. ts[m].expire # -1 /\ ~(ts[m].expire <= clock)
        BY <1>1 DEF Starting, Expired
      <4> QED BY <1>2, <1>3, <4>1, <4>3, <4>4
    <3> QED BY <1>1, <2>2, <3>3, <3>4, <3>5 DEF BoundInv
  <2> QED BY <2>1, <2>2
<1>7. StopInv' BY <1>0, <1>1 DEF StopInv, Asked, Answered
<1>8. TruthInv'
  BY <1>0, <1>1 DEF TruthInv, NotStarted, StartPending, Given, HitIsTrue
<1> QED BY <1>4, <1>5, <1>6, <1>7, <1>8 DEF DispatchInv

-----------------------------------------------------------------------------
(* The homing thread of the host.                                          *)

\* What the host record holds when nothing goes on.
LEMMA IdleIs ==
  ASSUME NEW result \in 0 .. 4
  PROVE  /\ Idle(result) \in HostRecord
         /\ Idle(result).phase = "idle" /\ Idle(result).k = 1
         /\ Idle(result).res = <<>> /\ Idle(result).result = result
BY TrdispatchAssumption DEF Idle, HostRecord, Phases, NoParams

\* The next session begins: no board has fired in it, and no report is of it.
LEMMA BeginHomingInv ==
  ASSUME DispatchInv, BeginHoming
  PROVE  DispatchInv'
<1> DEFINE new(m) == [i \in DOMAIN up[m] |->
                        IF up[m][i].type = "state" THEN [up[m][i] EXCEPT !.clock = 0]
                                                   ELSE up[m][i]]
           old(m) == [ts[m] EXCEPT !.expire = IF @ = -1 THEN @ ELSE 0]
           h == [Idle(REASON_NONE) EXCEPT !.phase = "starting"]
<1>0. Types /\ SessionInv /\ BoundInv /\ StopInv /\ TruthInv BY DEF DispatchInv
<1>1. /\ host.phase = "idle" /\ clock' = 0 /\ fired' = -1 /\ host' = h
      /\ up' = [m \in Mcus |-> new(m)] /\ ts' = [m \in Mcus |-> old(m)]
      /\ UNCHANGED <<down, td, tdm>> /\ \A m \in Mcus : down[m] = <<>>
  BY DEF BeginHoming
<1>2. 1 \in Mcus /\ ExpireTicks \in Nat BY TrdispatchAssumption DEF Mcus
<1>3. ASSUME NEW m \in Mcus
      PROVE  /\ new(m) \in Seq(Message) /\ (up[m] = <<>> => new(m) = <<>>)
             /\ \A x \in Range(new(m)) :
                  (x.type = "ack" => HasAck(up[m])) /\ (x.type = "state" => x.clock = 0)
  <2>1. up[m] \in Seq(Message) BY <1>0 DEF Types
  <2>2. /\ DOMAIN up[m] = 1 .. Len(up[m]) /\ Len(up[m]) \in Nat
        /\ \A i \in 1 .. Len(up[m]) : up[m][i] \in Message
    BY <2>1, LenProperties, ElementOfSeq
  <2>3. ASSUME NEW i \in 1 .. Len(up[m])
        PROVE  /\ new(m)[i] \in Message
               /\ new(m)[i].type = up[m][i].type
               /\ new(m)[i].type = "state" => new(m)[i].clock = 0
    BY <2>2 DEF Message
  <2>4. DOMAIN new(m) = 1 .. Len(up[m]) BY <2>2
  <2>5. new(m) \in Seq(Message)
    <3> DEFINE f == new(m)
    <3>1. f = [i \in 1 .. Len(up[m]) |-> f[i]] BY <2>2
    <3> HIDE DEF f
    <3>2. \A i \in 1 .. Len(up[m]) : f[i] \in Message BY <2>3 DEF f
    <3>3. f \in [1 .. Len(up[m]) -> Message] BY <3>1, <3>2
    <3> QED BY <2>2, <3>3, SeqDef DEF f
  <2>6. up[m] = <<>> => new(m) = <<>>
    <3> SUFFICES ASSUME up[m] = <<>> PROVE new(m) = <<>>
      OBVIOUS
    <3>1. Len(up[m]) = 0 OBVIOUS
    <3>2. DOMAIN new(m) = 1 .. 0 BY <2>4, <3>1
    <3> DEFINE f == new(m)
    <3>3. f \in Seq(Message) /\ DOMAIN f = 1 .. 0 BY <2>5, <3>2
    <3> HIDE DEF f
    <3>4. f = <<>> BY <3>3, LenProperties, EmptySeq
    <3> QED BY <3>4 DEF f
  <2>7. \A x \in Range(new(m)) :
          (x.type = "ack" => HasAck(up[m])) /\ (x.type = "state" => x.clock = 0)
    BY <2>2, <2>3, <2>4 DEF Range, HasAck
  <2> QED BY <2>5, <2>6, <2>7
<1>4. ASSUME NEW m \in Mcus
      PROVE  /\ old(m) \in TrsyncRecord /\ old(m).can = ts[m].can
             /\ old(m).reason = ts[m].reason /\ old(m).report = ts[m].report
             /\ old(m).expire <= 0
  <2>1. ts[m] \in TrsyncRecord BY <1>0 DEF Types
  <2> QED BY <2>1 DEF TrsyncRecord
<1>5. h \in HostRecord /\ h.phase = "starting" /\ h.k = 1 /\ h.res = <<>>
  <2>1. REASON_NONE \in 0 .. 4 BY DEF REASON_NONE
  <2>2. /\ Idle(REASON_NONE) \in HostRecord /\ Idle(REASON_NONE).k = 1
        /\ Idle(REASON_NONE).res = <<>>
    BY <2>1, IdleIs
  <2> DEFINE g == Idle(REASON_NONE)
  <2>3. h = [g EXCEPT !.phase = "starting"] /\ g \in HostRecord /\ g.k = 1 /\ g.res = <<>>
    BY <2>2
  <2> HIDE DEF g, h
  <2>4. "starting" \in Phases BY DEF Phases
  <2>5. h \in HostRecord BY <2>3, <2>4, ZenonT(60) DEF HostRecord
  <2>6. h.phase = "starting" /\ h.k = 1 /\ h.res = <<>>
    BY <2>3, ZenonT(60) DEF HostRecord
  <2> QED BY <2>5, <2>6
<1> HIDE DEF new, old, h
<1>6. /\ up' \in [Mcus -> Seq(Message)] /\ \A m \in Mcus : up'[m] = new(m)
      /\ ts' \in [Mcus -> TrsyncRecord] /\ \A m \in Mcus : ts'[m] = old(m)
  BY <1>1, <1>3, <1>4
<1>7. \A m \in Mcus : Range(down'[m]) = {} /\ down'[m] = <<>>
  BY <1>1, RangeShort
<1>8. Types' BY <1>0, <1>1, <1>5, <1>6 DEF Types
<1>9. \A m \in Mcus : ~StartPending(m)' BY <1>7, StartRange DEF StartIn
<1>10. SessionInv' BY <1>0, <1>1, <1>9 DEF SessionInv
<1>11. BoundInv'
  <2>1. \A m \in Mcus : Extends(m, clock)'
    <3>1. \A m \in Mcus : ts'[m].expire <= 0 /\ ts'[m].expire \in Int
      BY <1>4, <1>6 DEF TrsyncRecord
    <3>2. \A e \in Int : e <= 0 => e <= 0 + ExpireTicks BY <1>2
    <3>3. \A m \in Mcus : ts'[m].expire <= clock' + ExpireTicks
      BY <1>1, <3>1, <3>2, Zenon
    <3>4. \A m \in Mcus : TimeoutsBelow(down'[m], clock' + ExpireTicks)
      BY <1>7 DEF TimeoutsBelow
    <3> QED BY <3>3, <3>4 DEF Extends
  <2>2. \A m \in Mcus : Alive(m, clock)'
    <3>1. \A m \in Mcus : ~Known(m)' BY <1>1, <1>5 DEF Known, Mcus
    <3> QED BY <1>1, <1>3, <1>6, <3>1 DEF Alive, ReportsBelow
  <2> QED BY <1>1, <2>1, <2>2 DEF BoundInv, StopTogether
<1>12. StopInv'
  <2>1. \A m \in Mcus : ~HasQuery(down'[m]) BY <1>7 DEF HasQuery
  <2>2. \A m \in Mcus : ~HasAck(up'[m])
    <3>1. \A m \in Mcus : ~HasAck(up[m]) BY <1>0, <1>1 DEF StopInv
    <3> QED BY <1>3, <1>6, <3>1 DEF HasAck
  <2> QED BY <1>1, <1>5, <2>1, <2>2 DEF StopInv
<1>13. TruthInv'
  <2>1. up[1] = <<>> /\ ~ts[1].report BY <1>0, <1>1 DEF TruthInv, NotStarted
  <2>2. up'[1] = <<>> /\ ~ts'[1].report BY <1>2, <1>3, <1>4, <1>6, <2>1
  <2>3. Range(up'[1]) = {} BY <2>2, RangeShort
  <2>4. ts'[1].can => ts'[1].reason = REASON_NONE
    BY <1>0, <1>2, <1>4, <1>6 DEF TruthInv
  <2>5. host'.phase = "starting" BY <1>1, <1>5
  <2> QED BY <1>2, <1>7, <1>9, <2>2, <2>3, <2>4, <2>5 DEF TruthInv, HitIsTrue
<1> QED BY <1>8, <1>10, <1>11, <1>12, <1>13 DEF DispatchInv

\* The next board is started, while the clock stands at the start of the move.
LEMMA StartMcuInv ==
  ASSUME DispatchInv, StartMcu
  PROVE  DispatchInv'
<1> DEFINE k == host.k
           start == [cmd |-> "start"]
           t == SetTimeout(ExpireTicks)
           new == [status |-> 0, expire |-> ExpireTicks]
<1>0. Types /\ SessionInv /\ BoundInv /\ StopInv /\ TruthInv BY DEF DispatchInv
<1>1. /\ host.phase = "starting" /\ k <= N /\ tdm' = [tdm EXCEPT ![k] = new]
      /\ down' = [down EXCEPT ![k] = @ \o <<start, t>>]
      /\ host' = [host EXCEPT !.k = k + 1]
      /\ UNCHANGED <<clock, ts, up, td, fired>>
  BY DEF StartMcu
<1>2. /\ 1 \in Mcus /\ N \in Nat /\ ExpireTicks \in Nat
      /\ \A m \in Mcus : m \in Nat /\ m >= 1 /\ m <= N
  BY TrdispatchAssumption DEF Mcus
<1>3. /\ host \in HostRecord /\ k \in 1 .. N + 1 /\ k \in Mcus /\ clock = 0
      /\ down \in [Mcus -> Seq(Command)] /\ tdm \in [Mcus -> StatusRecord]
      /\ fired \in Int /\ fired >= -1
  BY <1>0, <1>1, <1>2 DEF Types, HostRecord, SessionInv, Mcus
<1>4. /\ start \in Command /\ start.cmd = "start" /\ t \in Command
      /\ t.cmd = "set_timeout" /\ t.arg = ExpireTicks
      /\ new \in StatusRecord /\ new.status = 0
  BY <1>2 DEF SetTimeout, Command, StatusRecord
<1> HIDE DEF start, t, new
<1>5. <<start, t>> \in Seq(Command) /\ Range(<<start, t>>) = {start, t}
  <2>1. Range(<<start, t>>) = {start, t} BY RangeShort
  <2> QED BY <1>4, <2>1
<1>6. down[k] \o <<start, t>> \in Seq(Command)
      /\ Range(down[k] \o <<start, t>>) = Range(down[k]) \cup {start, t}
  <2>1. \A q \in Seq(Command) : /\ down[k] \o q \in Seq(Command)
                                /\ Range(down[k] \o q) = Range(down[k]) \cup Range(q)
    BY <1>3, RangeConcat
  <2> QED BY <1>5, <2>1, Zenon
<1>7. /\ down' \in [Mcus -> Seq(Command)]
      /\ down'[k] = down[k] \o <<start, t>> /\ Range(down'[k]) = Range(down[k]) \cup {start, t}
      /\ \A m \in Mcus : m # k => down'[m] = down[m]
      /\ tdm' \in [Mcus -> StatusRecord] /\ tdm'[k].status = 0
      /\ \A m \in Mcus : m # k => tdm'[m] = tdm[m]
  <2> HIDE DEF k
  <2> QED BY <1>1, <1>3, <1>4, <1>6
<1>8. /\ host' \in HostRecord /\ host'.phase = "starting" /\ host'.k = k + 1
      /\ host'.res = host.res
  <2>1. k + 1 \in 1 .. N + 1 BY <1>1, <1>2, <1>3
  <2> HIDE DEF k
  <2>2. host' \in HostRecord BY <1>1, <1>3, <2>1, ZenonT(60) DEF HostRecord
  <2>3. host'.k = k + 1 /\ host'.res = host.res /\ host'.phase = host.phase
    BY <1>1, <1>3, ZenonT(60) DEF HostRecord
  <2> QED BY <1>1, <2>2, <2>3
<1> HIDE DEF k
<1>9. Types' BY <1>0, <1>1, <1>7, <1>8 DEF Types
<1>10. SessionInv' BY <1>0, <1>1, <1>3, <1>8 DEF SessionInv
<1>11. \A m \in Mcus : Known(m)' <=> (m = k \/ Known(m))
  BY <1>1, <1>2, <1>3, <1>8 DEF Known, k
<1>12. ASSUME NEW m \in Mcus, Extends(m, 0) PROVE Extends(m, 0)'
  <2>1. \A c \in Range(down'[m]) : c \in Range(down[m]) \/ c = start \/ c = t
    BY <1>7
  <2>2. ExpireTicks <= 0 + ExpireTicks BY <1>2
  <2>3. TimeoutsBelow(down'[m], 0 + ExpireTicks)
    BY <1>4, <1>12, <2>1, <2>2 DEF Extends, TimeoutsBelow
  <2> QED BY <1>1, <1>12, <2>3 DEF Extends
<1>13. ASSUME NEW m \in Mcus, Alive(m, 0) PROVE Alive(m, 0)'
  BY <1>1, <1>7, <1>11, <1>13 DEF Alive
<1>14. BoundInv'
  <2>1. CASE fired = -1
    <3>1. \A m \in Mcus : Extends(m, 0) /\ Alive(m, 0)
      BY <1>0, <1>3, <2>1 DEF BoundInv
    <3>2. \A m \in Mcus : Extends(m, 0)' /\ Alive(m, 0)'
      BY <1>12, <1>13, <3>1
    <3>3. \A m \in Mcus : Extends(m, clock)' /\ Alive(m, clock)'
      BY <1>1, <1>3, <3>2 DEF Extends, Alive
    <3> QED BY <1>1, <2>1, <3>3 DEF BoundInv, StopTogether
  <2>2. CASE fired # -1
    <3>1. fired = 0 /\ \E b \in Mcus : First(b)
      BY <1>0, <1>3, <2>2 DEF BoundInv
    <3>2. PICK b \in Mcus : First(b) BY <3>1
    <3>3. ~ts[b].can /\ InSession(b) /\ Alive(b, 0) /\ \A m \in Mcus \ {b} : Extends(m, 0)
      BY <3>1, <3>2 DEF First
    <3>4. b < k /\ b # k /\ ~StartPending(b)
      BY <1>1, <1>2, <1>3, <3>3 DEF InSession, k
    <3>5. ~StartPending(b)' BY <1>7, <3>4 DEF StartPending
    <3>6. b < k + 1 BY <1>2, <1>3, <3>4
    <3>7. InSession(b)' BY <1>8, <3>5, <3>6 DEF InSession
    <3>8. Alive(b, 0)' /\ \A m \in Mcus \ {b} : Extends(m, 0)'
      BY <1>12, <1>13, <3>3
    <3>9. First(b)'
      BY <1>1, <3>1, <3>3, <3>7, <3>8 DEF First, Alive, Extends
    <3>10. StopTogether'
      <4>1. ~(0 > 0 + ExpireTicks) BY <1>2
      <4> QED BY <1>1, <1>3, <3>1, <4>1 DEF StopTogether
    <3> QED BY <1>1, <1>3, <2>2, <3>1, <3>9, <3>10 DEF BoundInv
  <2> QED BY <2>1, <2>2
<1>15. StopInv'
  <2>1. \A m \in Mcus : ~HasQuery(down[m]) /\ ~HasAck(up[m])
    BY <1>0, <1>1 DEF StopInv
  <2>2. \A m \in Mcus : ~HasQuery(down'[m])
    BY <1>4, <1>7, <2>1 DEF HasQuery
  <2>3. host.res = <<>> BY <1>0, <1>1 DEF StopInv
  <2> QED BY <1>1, <1>8, <2>1, <2>2, <2>3 DEF StopInv
<1>16. TruthInv'
  <2>1. ~NotStarted'
    <3>1. k + 1 # 1 BY <1>3, <1>2
    <3> QED BY <1>8, <3>1 DEF NotStarted
  <2>2. StartPending(1)' => up[1] = <<>> /\ ~ts[1].report /\ ~StartIn(Tail(down'[1]))
    <3>1. CASE k = 1
      <4>1. NotStarted BY <1>1, <3>1 DEF NotStarted, k
      <4>2. down[1] = <<>> /\ up[1] = <<>> /\ ~ts[1].report
        BY <1>0, <4>1 DEF TruthInv
      <4>3. Tail(down'[1]) = <<t>>
        <5>1. down'[1] = <<>> \o <<start, t>> BY <1>7, <3>1, <4>2
        <5>2. <<>> \o <<start, t>> = <<start, t>> OBVIOUS
        <5>3. Tail(<<start, t>>) = <<t>> OBVIOUS
        <5> QED BY <5>1, <5>2, <5>3
      <4>4. Range(<<t>>) = {t} BY RangeShort
      <4> QED BY <1>4, <4>2, <4>3, <4>4 DEF StartIn
    <3>2. CASE k # 1
      <4>1. down'[1] = down[1] BY <1>2, <1>7, <3>2
      <4>2. StartPending(1)' => StartPending(1) BY <4>1 DEF StartPending
      <4> QED BY <1>0, <4>1, <4>2 DEF TruthInv
    <3> QED BY <3>1, <3>2
  <2>3. \A v : Given(v) => Given(v)' BY <1>1 DEF Given
  <2>4. HitIsTrue' BY <1>8 DEF HitIsTrue
  <2> QED BY <1>0, <1>1, <1>8, <2>1, <2>2, <2>3, <2>4 DEF TruthInv
<1> QED BY <1>9, <1>10, <1>14, <1>15, <1>16 DEF DispatchInv

\* What the host sends to boards that have been started.
LEMMA Sent ==
  ASSUME DispatchInv, NEW q \in [Mcus -> Seq(Command)], \A o \in Mcus : ~StartIn(q[o]),
         down' = [o \in Mcus |-> down[o] \o q[o]]
  PROVE  /\ down' \in [Mcus -> Seq(Command)]
         /\ \A o \in Mcus : /\ down'[o] = down[o] \o q[o]
                            /\ Range(down'[o]) = Range(down[o]) \cup Range(q[o])
                            /\ StartPending(o)' <=> StartPending(o)
         /\ StartPending(1)' => ~StartIn(Tail(down'[1]))
<1>0. Types /\ TruthInv BY DEF DispatchInv
<1>1. 1 \in Mcus BY TrdispatchAssumption DEF Mcus
<1>2. down \in [Mcus -> Seq(Command)] BY <1>0 DEF Types
<1>3. \A o \in Mcus : /\ down[o] \o q[o] \in Seq(Command)
                      /\ Range(down[o] \o q[o]) = Range(down[o]) \cup Range(q[o])
  BY <1>2, RangeConcat
<1>4. \A o \in Mcus : down'[o] = down[o] \o q[o] OBVIOUS
<1>5. \A o \in Mcus : Range(down'[o]) = Range(down[o]) \cup Range(q[o])
  BY <1>3, <1>4
<1>6. \A o \in Mcus : StartPending(o)' <=> StartPending(o)
  BY <1>5, StartRange DEF StartIn
<1>7. ASSUME StartPending(1)' PROVE ~StartIn(Tail(down'[1]))
  <2>1. StartPending(1) /\ ~StartIn(Tail(down[1]))
    BY <1>0, <1>1, <1>6, <1>7 DEF TruthInv
  <2>2. down[1] # <<>>
    <3>1. down[1] = <<>> => Range(down[1]) = {} BY RangeShort
    <3> QED BY <1>1, <2>1, <3>1, StartRange DEF StartIn
  <2>3. down[1] \in Seq(Command) /\ q[1] \in Seq(Command) BY <1>1, <1>2
  <2>4. Tail(down[1] \o q[1]) = Tail(down[1]) \o q[1] BY <2>2, <2>3, TailConcat
  <2>5. Tail(down[1]) \in Seq(Command) BY <2>2, <2>3, RangeTail
  <2>6. Range(Tail(down[1]) \o q[1]) = Range(Tail(down[1])) \cup Range(q[1])
    BY <2>3, <2>5, RangeConcat
  <2> QED BY <1>1, <1>4, <2>1, <2>4, <2>6 DEF StartIn
<1>8. down' \in [Mcus -> Seq(Command)] BY <1>3
<1> QED BY <1>4, <1>5, <1>6, <1>7, <1>8

\* The same for one board.
LEMMA SentOne ==
  ASSUME DispatchInv, NEW m \in Mcus, NEW q \in Seq(Command), ~StartIn(q),
         down' = [down EXCEPT ![m] = @ \o q]
  PROVE  /\ down' \in [Mcus -> Seq(Command)]
         /\ down'[m] = down[m] \o q /\ Range(down'[m]) = Range(down[m]) \cup Range(q)
         /\ \A o \in Mcus : o # m => down'[o] = down[o]
         /\ \A o \in Mcus : StartPending(o)' <=> StartPending(o)
         /\ StartPending(1)' => ~StartIn(Tail(down'[1]))
<1> DEFINE all == [o \in Mcus |-> IF o = m THEN q ELSE <<>>]
<1>1. down \in [Mcus -> Seq(Command)] BY DEF DispatchInv, Types
<1>2. <<>> \in Seq(Command) /\ ~StartIn(<<>>)
  <2>1. Range(<<>>) = {} BY RangeShort
  <2> QED BY <2>1 DEF StartIn
<1>3. /\ all \in [Mcus -> Seq(Command)] /\ \A o \in Mcus : ~StartIn(all[o])
      /\ all[m] = q /\ \A o \in Mcus : o # m => all[o] = <<>>
  BY <1>2
<1> HIDE DEF all
<1>4. \A o \in Mcus : down[o] \o <<>> = down[o] BY <1>1
<1>5. \A o \in Mcus : down'[o] = down[o] \o all[o]
  BY <1>1, <1>3, <1>4
<1>6. down' = [o \in Mcus |-> down[o] \o all[o]]
  <2>1. down' = [o \in Mcus |-> down'[o]] BY <1>1
  <2> QED BY <1>5, <2>1
<1>7. /\ down' \in [Mcus -> Seq(Command)]
      /\ \A o \in Mcus : /\ down'[o] = down[o] \o all[o]
                         /\ Range(down'[o]) = Range(down[o]) \cup Range(all[o])
                         /\ StartPending(o)' <=> StartPending(o)
      /\ StartPending(1)' => ~StartIn(Tail(down'[1]))
  BY <1>3, <1>6, Sent
<1>8. \A o \in Mcus : o # m => down'[o] = down[o] BY <1>3, <1>4, <1>7
<1> QED BY <1>3, <1>7, <1>8

\* All boards are started: the dispatcher is switched on, and the endstop armed.
LEMMA StartDispatchInv ==
  ASSUME DispatchInv, StartDispatch
  PROVE  DispatchInv'
<1> DEFINE e == [cmd |-> "endstop_home", arg |-> REASON_ENDSTOP_HIT]
<1>0. Types /\ SessionInv /\ BoundInv /\ StopInv /\ TruthInv BY DEF DispatchInv
<1>1. /\ host.phase = "starting" /\ host.k = N + 1
      /\ td' = [is_active |-> TRUE, can_trigger |-> TRUE]
      /\ down' = [down EXCEPT ![1] = Append(@, e)]
      /\ host' = [host EXCEPT !.phase = "homing", !.home_end = TRUE]
      /\ UNCHANGED <<clock, ts, up, tdm, fired>>
  BY DEF StartDispatch
<1>2. 1 \in Mcus /\ N \in Nat /\ \A m \in Mcus : m \in Nat /\ m <= N
  BY TrdispatchAssumption DEF Mcus
<1>3. e \in Command /\ e.cmd = "endstop_home"
  BY DEF Command, Reasons, REASON_ENDSTOP_HIT
<1> HIDE DEF e
<1>4. <<e>> \in Seq(Command) /\ Range(<<e>>) = {e} /\ ~StartIn(<<e>>)
  <2>1. Range(<<e>>) = {e} BY RangeShort
  <2> QED BY <1>3, <2>1 DEF StartIn
<1>5. down' = [down EXCEPT ![1] = @ \o <<e>>]
  <2>1. down[1] \in Seq(Command) BY <1>0, <1>2 DEF Types
  <2>2. Append(down[1], e) = down[1] \o <<e>> BY <1>3, <2>1
  <2> QED BY <1>1, <2>2
<1>6. /\ down' \in [Mcus -> Seq(Command)]
      /\ Range(down'[1]) = Range(down[1]) \cup {e}
      /\ \A o \in Mcus : o # 1 => down'[o] = down[o]
      /\ \A o \in Mcus : StartPending(o)' <=> StartPending(o)
      /\ StartPending(1)' => ~StartIn(Tail(down'[1]))
  BY <1>2, <1>4, <1>5, SentOne
<1>7. host' \in HostRecord /\ host'.phase = "homing" /\ host'.res = host.res
  <2>1. host \in HostRecord /\ "homing" \in Phases BY <1>0 DEF Types, Phases
  <2>2. host' \in HostRecord BY <1>1, <2>1, ZenonT(60) DEF HostRecord
  <2>3. host'.phase = "homing" /\ host'.res = host.res
    BY <1>1, <2>1, ZenonT(60) DEF HostRecord
  <2> QED BY <2>2, <2>3
<1>8. td' \in [is_active : BOOLEAN, can_trigger : BOOLEAN] BY <1>1
<1>9. Types' BY <1>0, <1>1, <1>6, <1>7, <1>8 DEF Types
<1>10. SessionInv' BY <1>0, <1>1, <1>6, <1>7 DEF SessionInv
<1>11. \A o \in Mcus : Known(o)' <=> Known(o)
  BY <1>1, <1>2, <1>7 DEF Known
<1>12. \A o \in Mcus : \A c \in Range(down'[o]) :
         c.cmd = "set_timeout" => c \in Range(down[o])
  BY <1>3, <1>6
<1>13. BoundInv'
  BY <1>0, <1>1, <1>6, <1>9, <1>11, <1>12, HostBound
<1>14. StopInv'
  <2>1. \A m \in Mcus : ~HasQuery(down[m]) /\ ~HasAck(up[m])
    BY <1>0, <1>1 DEF StopInv
  <2>2. \A m \in Mcus : ~HasQuery(down'[m])
    BY <1>3, <1>6, <2>1 DEF HasQuery
  <2>3. host.res = <<>> BY <1>0, <1>1 DEF StopInv
  <2> QED BY <1>1, <1>7, <2>1, <2>2, <2>3 DEF StopInv
<1>15. TruthInv'
  <2>1. \A v : Given(v) => Given(v)' BY <1>1 DEF Given
  <2> QED BY <1>0, <1>1, <1>2, <1>6, <1>7, <2>1 DEF TruthInv, NotStarted, HitIsTrue
<1> QED BY <1>9, <1>10, <1>13, <1>14, <1>15 DEF DispatchInv

\* home_wait: the dispatcher is switched off, and the first board asked.
LEMMA HomeWaitInv ==
  ASSUME DispatchInv, HomeWait
  PROVE  DispatchInv'
<1> DEFINE e == [cmd |-> "endstop_home", arg |-> REASON_NONE]
<1>0. Types /\ SessionInv /\ BoundInv /\ StopInv /\ TruthInv BY DEF DispatchInv
<1>1. /\ host.phase = "homing" /\ td' = [td EXCEPT !.is_active = FALSE]
      /\ down' = [down EXCEPT ![1] = @ \o <<e, Query>>]
      /\ host' = [host EXCEPT !.phase = "stopping", !.k = 1, !.left = Retries,
                              !.params = NoParams]
      /\ UNCHANGED <<clock, ts, up, tdm, fired>>
  BY DEF HomeWait
<1>2. 1 \in Mcus /\ N \in Nat /\ Retries \in Nat /\ 1 \in 1 .. N + 1
      /\ \A m \in Mcus : ~(m < 1)
  BY TrdispatchAssumption DEF Mcus
<1>3. e \in Command /\ e.cmd = "endstop_home"
  BY DEF Command, Reasons, REASON_NONE
<1> HIDE DEF e
<1>4. <<e, Query>> \in Seq(Command) /\ Range(<<e, Query>>) = {e, Query}
      /\ ~StartIn(<<e, Query>>)
  <2>1. Range(<<e, Query>>) = {e, Query} BY RangeShort
  <2> QED BY <1>3, <2>1, AckQuery DEF StartIn
<1>5. /\ down' \in [Mcus -> Seq(Command)]
      /\ down'[1] = down[1] \o <<e, Query>>
      /\ Range(down'[1]) = Range(down[1]) \cup {e, Query}
      /\ \A o \in Mcus : o # 1 => down'[o] = down[o]
      /\ \A o \in Mcus : StartPending(o)' <=> StartPending(o)
      /\ StartPending(1)' => ~StartIn(Tail(down'[1]))
  <2> DEFINE q == <<e, Query>>
  <2>1. q \in Seq(Command) /\ ~StartIn(q) /\ down' = [down EXCEPT ![1] = @ \o q]
        /\ Range(q) = {e, Query}
    BY <1>1, <1>4
  <2> HIDE DEF q
  <2>2. /\ down' \in [Mcus -> Seq(Command)]
        /\ down'[1] = down[1] \o q /\ Range(down'[1]) = Range(down[1]) \cup Range(q)
        /\ \A o \in Mcus : o # 1 => down'[o] = down[o]
        /\ \A o \in Mcus : StartPending(o)' <=> StartPending(o)
        /\ StartPending(1)' => ~StartIn(Tail(down'[1]))
    BY <1>2, <2>1, SentOne
  <2> QED BY <2>1, <2>2, Zenon DEF q
<1>6. /\ host' \in HostRecord /\ host'.phase = "stopping" /\ host'.k = 1
      /\ host'.params = NoParams /\ host'.res = host.res
  <2>1. host \in HostRecord /\ "stopping" \in Phases /\ NoParams \in -1 .. 4 /\ Retries \in Int
    BY <1>0, <1>2 DEF Types, Phases, NoParams
  <2>2. host' \in HostRecord BY <1>1, <1>2, <2>1, ZenonT(60) DEF HostRecord
  <2>3. /\ host'.phase = "stopping" /\ host'.k = 1 /\ host'.params = NoParams
        /\ host'.res = host.res
    BY <1>1, <2>1, ZenonT(60) DEF HostRecord
  <2> QED BY <2>2, <2>3
<1>7. td' \in [is_active : BOOLEAN, can_trigger : BOOLEAN] /\ ~td'.is_active
  BY <1>0, <1>1 DEF Types
<1>8. Types' BY <1>0, <1>1, <1>5, <1>6, <1>7 DEF Types
<1>9. SessionInv' BY <1>0, <1>1, <1>5, <1>6, <1>7 DEF SessionInv
<1>10. \A o \in Mcus : Known(o)' <=> Known(o)
  BY <1>1, <1>6 DEF Known
<1>11. \A o \in Mcus : \A c \in Range(down'[o]) :
         c.cmd = "set_timeout" => c \in Range(down[o])
  BY <1>3, <1>5, AckQuery
<1>12. BoundInv'
  BY <1>0, <1>1, <1>5, <1>8, <1>10, <1>11, HostBound
<1>13. StopInv'
  <2>1. \A m \in Mcus : ~HasQuery(down[m]) /\ ~HasAck(up[m])
    BY <1>0, <1>1 DEF StopInv
  <2>2. Asked(1)'
    <3>1. down[1] \in Seq(Command) BY <1>0, <1>2 DEF Types
    <3>2. Append(down[1], e) \in Seq(Command)
          /\ Range(Append(down[1], e)) = Range(down[1]) \cup {e}
      BY <1>3, <3>1, RangeAppend
    <3>3. ~HasQuery(Append(down[1], e)) BY <1>2, <1>3, <2>1, <3>2 DEF HasQuery
    <3>4. down[1] \o <<e, Query>> = Append(Append(down[1], e), Query)
      BY <1>3, <3>1, AckQuery
    <3>5. down'[1] = Append(Append(down[1], e), Query) BY <1>5, <3>4
    <3> QED BY <1>1, <1>2, <2>1, <3>2, <3>3, <3>5 DEF Asked
  <2>3. \A m \in Mcus : m # 1 => ~HasQuery(down'[m]) BY <1>5, <2>1
  <2> QED BY <1>1, <1>2, <1>6, <2>1, <2>2, <2>3 DEF StopInv
<1>14. TruthInv'
  <2>1. \A v : Given(v) => Given(v)' BY <1>1 DEF Given
  <2>2. Given(NoParams)' BY DEF Given, NoParams
  <2>3. host.res = <<>> BY <1>0, <1>1 DEF StopInv
  <2> QED BY <1>0, <1>1, <1>2, <1>5, <1>6, <2>1, <2>2, <2>3
          DEF TruthInv, NotStarted, HitIsTrue
<1> QED BY <1>8, <1>9, <1>12, <1>13, <1>14 DEF DispatchInv

-----------------------------------------------------------------------------
(* What arrives at the host.                                               *)

\* A report: what the host sends on account of it bounds no board less.
LEMMA HandleStateInv ==
  ASSUME DispatchInv, NEW m \in Mcus, HandleState(m)
  PROVE  DispatchInv'
<1> DEFINE x == Head(up[m])
           d == Dispatched(m, x)
           late == Registered(m) /\ PastEnd(m, x)
           trigger == Trigger(REASON_PAST_END_TIME)
           extra(o) == IF late /\ o = 1 THEN <<trigger>> ELSE <<>>
           q == [o \in Mcus |-> d.send[o] \o extra(o)]
<1>0. Types /\ SessionInv /\ BoundInv /\ StopInv /\ TruthInv BY DEF DispatchInv
<1>1. /\ up[m] # <<>> /\ x.type = "state" /\ up' = [up EXCEPT ![m] = Tail(@)]
      /\ td' = d.td /\ tdm' = d.tdm
      /\ down' = [o \in Mcus |-> down[o] \o d.send[o] \o extra(o)]
      /\ host' = [host EXCEPT !.done = @ \/ (Registered(m) /\ ~x.can),
                    !.home_end = @ /\ ~late,
                    !.params = IF host.phase = "stopping" /\ m = host.k
                               THEN x.reason ELSE @]
      /\ UNCHANGED <<clock, ts, fired>>
  BY DEF HandleState
<1>2. 1 \in Mcus /\ N \in Nat /\ \A o \in Mcus : o \in Nat /\ o >= 1
  BY TrdispatchAssumption DEF Mcus
<1>3. /\ up \in [Mcus -> Seq(Message)] /\ up[m] \in Seq(Message)
      /\ down \in [Mcus -> Seq(Command)] /\ host \in HostRecord
  BY <1>0 DEF Types
<1>4. /\ Tail(up[m]) \in Seq(Message) /\ Range(Tail(up[m])) \subseteq Range(up[m])
      /\ x \in Range(up[m]) /\ x \in Message
  BY <1>1, <1>3, RangeTail
<1>5. /\ d.td \in [is_active : BOOLEAN, can_trigger : BOOLEAN]
      /\ d.td.is_active = td.is_active
      /\ d.tdm \in [Mcus -> StatusRecord]
      /\ d.send \in [Mcus -> Seq(Command)]
      /\ ~td.is_active => d.tdm = tdm /\ \A o \in Mcus : d.send[o] = <<>>
      /\ \A o \in Mcus : \/ d.tdm[o].status = tdm[o].status
                         \/ o = m /\ x.can /\ d.tdm[o].status = x.clock
      /\ \A o \in Mcus : \A c \in Range(d.send[o]) :
           \/ c = Trigger(REASON_HOST_REQUEST)
           \/ \E e \in Nat :
                /\ c = SetTimeout(e)
                /\ \A p \in Mcus \ {o} : e <= d.tdm[p].status + ExpireTicks
                /\ \E p \in Mcus : e = d.tdm[p].status + ExpireTicks
  <2> HIDE DEF x, d
  <2>1. d = Dispatched(m, x) BY DEF d
  <2>2. Handled(m, x, d) BY <1>0, <1>1, <1>4, <2>1, DispatchedIs
  <2> QED BY <2>2, Zenon DEF Handled
<1>6. /\ trigger \in Command /\ trigger.cmd = "trigger"
      /\ Trigger(REASON_HOST_REQUEST).cmd = "trigger"
      /\ \A e : SetTimeout(e).cmd = "set_timeout" /\ SetTimeout(e).arg = e
  BY DEF Trigger, SetTimeout, Command, Reasons, REASON_PAST_END_TIME
<1>7. late => host.phase \notin {"idle", "stopping"} /\ ~NotStarted
  <2>1. late => m = 1 BY DEF PastEnd
  <2>2. host.phase = "stopping" => host.k \in Mcus BY <1>0 DEF StopInv
  <2>3. host.k \in Int BY <1>3 DEF HostRecord
  <2> QED BY <1>2, <2>1, <2>2, <2>3 DEF Registered, NotStarted
<1> HIDE DEF x, d, late, trigger
<1>8. \A o \in Mcus : /\ extra(o) \in Seq(Command) /\ \A c \in Range(extra(o)) : c = trigger
                      /\ ~late => extra(o) = <<>>
  <2>1. Range(<<>>) = {} /\ Range(<<trigger>>) = {trigger} BY RangeShort
  <2> QED BY <1>6, <2>1
<1> HIDE DEF extra
<1>9. \A o \in Mcus : /\ d.send[o] \o extra(o) \in Seq(Command)
                      /\ Range(d.send[o] \o extra(o)) = Range(d.send[o]) \cup Range(extra(o))
  BY <1>5, <1>8, RangeConcat
<1>10. /\ q \in [Mcus -> Seq(Command)]
       /\ \A o \in Mcus : Range(q[o]) = Range(d.send[o]) \cup Range(extra(o))
       /\ \A o \in Mcus : q[o] = d.send[o] \o extra(o)
  BY <1>9
<1> HIDE DEF q
<1>11. ASSUME NEW o \in Mcus, NEW c \in Range(q[o])
       PROVE  \/ c.cmd = "trigger"
              \/ /\ c.cmd = "set_timeout" /\ td.is_active
                 /\ \A p \in Mcus \ {o} : c.arg <= d.tdm[p].status + ExpireTicks
                 /\ \E p \in Mcus : c.arg = d.tdm[p].status + ExpireTicks
  <2>1. CASE c \in Range(extra(o)) BY <1>6, <1>8, <2>1
  <2>2. CASE c \in Range(d.send[o])
    <3>1. td.is_active
      <4>1. Range(<<>>) = {} BY RangeShort
      <4> QED BY <1>5, <2>2, <4>1
    <3>2. CASE c = Trigger(REASON_HOST_REQUEST) BY <1>6, <3>2
    <3>3. CASE c # Trigger(REASON_HOST_REQUEST)
      <4>1. PICK e \in Nat :
               /\ c = SetTimeout(e)
               /\ \A p \in Mcus \ {o} : e <= d.tdm[p].status + ExpireTicks
               /\ \E p \in Mcus : e = d.tdm[p].status + ExpireTicks
        BY <1>5, <2>2, <3>3
      <4>2. c.cmd = "set_timeout" /\ c.arg = e BY <1>6, <4>1
      <4> QED BY <3>1, <4>1, <4>2
    <3> QED BY <3>2, <3>3
  <2> QED BY <1>10, <1>11, <2>1, <2>2
<1>12. \A o \in Mcus : ~StartIn(q[o]) BY <1>11 DEF StartIn
<1>13. down' = [o \in Mcus |-> down[o] \o q[o]]
  <2>1. ASSUME NEW o \in Mcus PROVE down[o] \o d.send[o] \o extra(o) = down[o] \o q[o]
    <3>1. /\ down[o] \in Seq(Command) /\ d.send[o] \in Seq(Command)
          /\ extra(o) \in Seq(Command)
      BY <1>3, <1>5, <1>8
    <3>2. \A a, b, c \in Seq(Command) : (a \o b) \o c = a \o (b \o c) OBVIOUS
    <3>3. (down[o] \o d.send[o]) \o extra(o) = down[o] \o (d.send[o] \o extra(o))
      BY <3>1, <3>2
    <3> QED BY <1>10, <3>3
  <2> QED BY <1>1, <2>1
<1>14. /\ down' \in [Mcus -> Seq(Command)]
       /\ \A o \in Mcus : /\ down'[o] = down[o] \o q[o]
                          /\ Range(down'[o]) = Range(down[o]) \cup Range(q[o])
                          /\ StartPending(o)' <=> StartPending(o)
       /\ StartPending(1)' => ~StartIn(Tail(down'[1]))
  BY <1>10, <1>12, <1>13, Sent
<1>15. host.phase \in {"idle", "stopping"} \/ NotStarted =>
         \A o \in Mcus : down'[o] = down[o]
  <2> SUFFICES ASSUME host.phase \in {"idle", "stopping"} \/ NotStarted, NEW o \in Mcus
               PROVE  down'[o] = down[o]
    OBVIOUS
  <2>1. ~td.is_active BY <1>0 DEF SessionInv, NotStarted
  <2>2. d.send[o] = <<>> /\ extra(o) = <<>> BY <1>5, <1>7, <1>8, <2>1
  <2>3. q[o] = <<>> BY <1>10, <2>2
  <2>4. down[o] \o <<>> = down[o] BY <1>3
  <2> QED BY <1>14, <2>3, <2>4
<1>16. /\ up' \in [Mcus -> Seq(Message)] /\ up'[m] = Tail(up[m])
       /\ \A o \in Mcus : o # m => up'[o] = up[o]
       /\ \A o \in Mcus : Range(up'[o]) \subseteq Range(up[o])
  BY <1>1, <1>3, <1>4
<1>17. /\ host' \in HostRecord /\ host'.phase = host.phase /\ host'.k = host.k
       /\ host'.res = host.res /\ host'.result = host.result
       /\ host'.params = IF host.phase = "stopping" /\ m = host.k
                         THEN x.reason ELSE host.params
  <2> DEFINE a == host.done \/ (Registered(m) /\ ~x.can)
             b == host.home_end /\ ~late
             p == IF host.phase = "stopping" /\ m = host.k THEN x.reason ELSE host.params
  <2>1. host' = [host EXCEPT !.done = a, !.home_end = b, !.params = p]
    BY <1>1, <1>3 DEF HostRecord
  <2>2. a \in BOOLEAN /\ b \in BOOLEAN OBVIOUS
  <2>3. p \in -1 .. 4
    <3>1. x.reason \in Reasons BY <1>1, <1>4 DEF Message
    <3>2. x.reason \in -1 .. 4 BY <3>1 DEF Reasons
    <3>3. host.params \in -1 .. 4 BY <1>3 DEF HostRecord
    <3> QED BY <3>2, <3>3
  <2> HIDE DEF a, b, p
  <2>4. host' \in HostRecord BY <1>3, <2>1, <2>2, <2>3, ZenonT(60) DEF HostRecord
  <2>5. /\ host'.phase = host.phase /\ host'.k = host.k
        /\ host'.res = host.res /\ host'.result = host.result /\ host'.params = p
    BY <1>3, <2>1, ZenonT(60) DEF HostRecord
  <2> QED BY <2>4, <2>5 DEF p
<1>18. Types' BY <1>0, <1>1, <1>5, <1>14, <1>16, <1>17 DEF Types
<1>19. SessionInv' BY <1>0, <1>1, <1>5, <1>14, <1>17 DEF SessionInv
<1>20. BoundInv'
  <2>1. \A o \in Mcus : Known(o)' <=> Known(o) BY <1>17 DEF Known
  <2>2. td.is_active => \A o \in Mcus : Known(o) BY <1>0 DEF SessionInv, Known
  <2>3. \A o \in Mcus :
          \/ tdm'[o].status = tdm[o].status
          \/ \E y \in Range(up[o]) :
               y.type = "state" /\ y.can /\ tdm'[o].status = y.clock
    BY <1>1, <1>4, <1>5
  <2>4. \A o \in Mcus : \A c \in Range(down'[o]) : c.cmd = "set_timeout" =>
          \/ c \in Range(down[o])
          \/ /\ \A p \in Mcus : Known(p)
             /\ \A p \in Mcus \ {o} : c.arg <= tdm'[p].status + ExpireTicks
             /\ \E p \in Mcus : c.arg = tdm'[p].status + ExpireTicks
    <3> SUFFICES ASSUME NEW o \in Mcus, NEW c \in Range(down'[o]),
                        c.cmd = "set_timeout", c \notin Range(down[o])
                 PROVE  /\ \A p \in Mcus : Known(p)
                        /\ \A p \in Mcus \ {o} : c.arg <= tdm'[p].status + ExpireTicks
                        /\ \E p \in Mcus : c.arg = tdm'[p].status + ExpireTicks
      OBVIOUS
    <3>1. c \in Range(q[o]) BY <1>14
    <3> QED BY <1>1, <1>11, <2>2, <3>1, Zenon
  <2>5. \A o \in Mcus : StartPending(o)' => StartPending(o) BY <1>14
  <2> QED BY <1>0, <1>1, <1>16, <1>18, <2>1, <2>3, <2>4, <2>5, HostBound
<1>21. StopInv'
  <2>1. \A o \in Mcus : ~HasAck(up[o]) => ~HasAck(up'[o])
    BY <1>16 DEF HasAck
  <2>2. \A o \in Mcus : ~HasQuery(down[o]) => ~HasQuery(down'[o])
    BY <1>11, <1>14 DEF HasQuery
  <2>3. host.phase = "stopping" => \A o \in Mcus : down'[o] = down[o] BY <1>15
  <2>4. host.phase = "stopping" => \A o \in Mcus : Asked(o) => Asked(o)'
    BY <2>1, <2>3 DEF Asked
  <2>5. ASSUME host.phase = "stopping", NEW o \in Mcus, Answered(o) PROVE Answered(o)'
    <3>1. PICK before \in Seq(Message) : up[o] = Append(before, Ack) /\ ~HasAck(before)
      BY <2>5 DEF Answered
    <3>2. \E rest \in Seq(Message) : up'[o] = Append(rest, Ack) /\ ~HasAck(rest)
      <4>1. CASE o # m BY <1>16, <3>1, <4>1
      <4>2. CASE o = m
        <5>1. before # <<>>
          <6>1. before = <<>> => Head(up[o]) = Ack BY <3>1, AckQuery, TailAppend
          <6>2. Head(up[o]) = x BY <4>2 DEF x
          <6> QED BY <1>1, <6>1, <6>2, AckQuery
        <5>2. Tail(up[o]) = Append(Tail(before), Ack) BY <3>1, <5>1, AckQuery, TailAppend
        <5>3. Tail(before) \in Seq(Message) /\ Range(Tail(before)) \subseteq Range(before)
          BY <5>1, RangeTail
        <5> QED BY <1>16, <3>1, <4>2, <5>2, <5>3 DEF HasAck
      <4> QED BY <4>1, <4>2
    <3> QED BY <1>1, <2>3, <2>5, <3>2 DEF Answered
  <2>6. host.phase = "stopping" /\ host.k > 1 => up'[1] = <<>>
    <3>1. host.phase = "stopping" /\ host.k > 1 => up[1] = <<>> /\ m # 1
      BY <1>0, <1>1 DEF StopInv
    <3> QED BY <1>2, <1>16, <3>1
  <2> QED BY <1>0, <1>1, <1>17, <2>1, <2>2, <2>3, <2>4, <2>5, <2>6 DEF StopInv
<1>22. TruthInv'
  <2>1. NotStarted' <=> NotStarted BY <1>17 DEF NotStarted
  <2>2. NotStarted => down'[1] = <<>> BY <1>0, <1>2, <1>15 DEF TruthInv
  <2>3. (NotStarted \/ StartPending(1)) => up'[1] = <<>> /\ ~ts[1].report
    <3>1. (NotStarted \/ StartPending(1)) => up[1] = <<>> /\ ~ts[1].report /\ m # 1
      BY <1>0, <1>1 DEF TruthInv
    <3> QED BY <1>2, <1>16, <3>1
  <2>4. host.phase = "stopping" /\ StartPending(1) => host'.params = NoParams
    <3> SUFFICES ASSUME host.phase = "stopping", StartPending(1)
                 PROVE  host'.params = NoParams
      OBVIOUS
    <3>1. host.params = NoParams /\ m # 1 BY <1>0, <1>1 DEF TruthInv
    <3>2. host.k = 1
      <4>1. down[1] # <<>>
        <5>1. down[1] = <<>> => Range(down[1]) = {} BY RangeShort
        <5> QED BY <1>2, <5>1, StartRange DEF StartIn
      <4>2. host.k \in Mcus /\ ~(1 < host.k) BY <1>0, <1>2, <4>1 DEF StopInv
      <4> QED BY <1>2, <4>2
    <3> QED BY <1>17, <3>1, <3>2
  <2>5. \A v : Given(v) => Given(v)' BY <1>1 DEF Given
  <2>6. \A y \in Range(up'[1]) : y.type = "state" => Given(y.reason)'
    BY <1>0, <1>2, <1>16, <2>5 DEF TruthInv
  <2>7. host.phase = "stopping" /\ host.k = 1 => Given(host.params)'
    <3>1. m = 1 => Given(x.reason) BY <1>0, <1>1, <1>4 DEF TruthInv
    <3>2. host.phase = "stopping" /\ host.k = 1 => Given(host.params)
      BY <1>0 DEF TruthInv
    <3>3. host.phase = "stopping" /\ host.k = 1 =>
            host'.params = IF m = 1 THEN x.reason ELSE host.params
      BY <1>17
    <3> QED BY <1>1, <3>1, <3>2, <3>3 DEF Given
  <2>8. HitIsTrue' BY <1>0, <1>1, <1>15, <1>17 DEF TruthInv, HitIsTrue
  <2> QED BY <1>0, <1>1, <1>2, <1>14, <1>17, <2>1, <2>2, <2>3, <2>4, <2>5, <2>6, <2>7, <2>8
          DEF TruthInv
<1> QED BY <1>18, <1>19, <1>20, <1>21, <1>22 DEF DispatchInv

\* The acknowledgement is the last that the board it was asked of has sent.
LEMMA AckIsLast ==
  ASSUME DispatchInv, NEW m \in Mcus, up[m] # <<>>, Head(up[m]).type = "ack"
  PROVE  /\ host.phase = "stopping" /\ m = host.k /\ Tail(up[m]) = <<>>
         /\ down[m] = <<>> /\ ~ts[m].can /\ ~ts[m].report
<1>0. Types /\ StopInv BY DEF DispatchInv
<1>1. up[m] \in Seq(Message) BY <1>0 DEF Types
<1>2. Head(up[m]) \in Range(up[m]) BY <1>1, RangeTail
<1>3. HasAck(up[m]) BY <1>2 DEF HasAck
<1>4. host.phase = "stopping" /\ m = host.k BY <1>0, <1>3 DEF StopInv
<1>5. Answered(m) BY <1>0, <1>3, <1>4 DEF StopInv, Asked
<1>6. PICK before \in Seq(Message) : up[m] = Append(before, Ack) /\ ~HasAck(before)
  BY <1>5 DEF Answered
<1>7. before = <<>>
  <2> SUFFICES ASSUME before # <<>> PROVE FALSE
    OBVIOUS
  <2>1. Head(up[m]) = Head(before) BY <1>6, AckQuery, TailAppend
  <2>2. Head(before) \in Range(before) BY RangeTail
  <2> QED BY <1>6, <2>1, <2>2 DEF HasAck
<1>8. Tail(up[m]) = <<>> BY <1>6, <1>7, AckQuery, TailAppend
<1> QED BY <1>4, <1>5, <1>8 DEF Answered

\* One request, alone on its way.
LEMMA QuerySent ==
  /\ <<Query>> \in Seq(Command) /\ Range(<<Query>>) = {Query}
  /\ ~StartIn(<<Query>>)
<1>1. Range(<<Query>>) = {Query} BY RangeShort
<1> QED BY <1>1, AckQuery DEF StartIn

\* An acknowledgement: the same board is asked again, or the next, or all is known.
LEMMA HandleAckInv ==
  ASSUME DispatchInv, NEW m \in Mcus, HandleAck(m)
  PROVE  DispatchInv'
<1> DEFINE res == Append(host.res, host.params)
           resend == host.params = NoParams /\ host.left > 0
           next == host.params # NoParams /\ MoreToStop(m)
<1>0. Types /\ SessionInv /\ BoundInv /\ StopInv /\ TruthInv BY DEF DispatchInv
<1>1. /\ up[m] # <<>> /\ Head(up[m]).type = "ack" /\ up' = [up EXCEPT ![m] = Tail(@)]
      /\ UNCHANGED <<clock, ts, td, tdm, fired>>
  BY DEF HandleAck
<1>2. /\ 1 \in Mcus /\ N \in Nat /\ Retries \in Nat
      /\ \A o \in Mcus : o \in Nat /\ o >= 1 /\ o <= N
  BY TrdispatchAssumption DEF Mcus
<1>3. /\ host.phase = "stopping" /\ m = host.k /\ Tail(up[m]) = <<>>
      /\ down[m] = <<>> /\ ~ts[m].can /\ ~ts[m].report
  BY <1>1, AckIsLast
<1>4. /\ up \in [Mcus -> Seq(Message)] /\ down \in [Mcus -> Seq(Command)]
      /\ host \in HostRecord /\ <<>> \in Seq(Message)
  BY <1>0 DEF Types
<1>5. /\ up' \in [Mcus -> Seq(Message)] /\ up'[m] = <<>> /\ Range(up'[m]) = {}
      /\ \A o \in Mcus : o # m => up'[o] = up[o]
      /\ \A o \in Mcus : Range(up'[o]) \subseteq Range(up[o])
  <2>1. Range(<<>>) = {} BY RangeShort
  <2>2. up'[m] = <<>> /\ \A o \in Mcus : o # m => up'[o] = up[o] BY <1>1, <1>3, <1>4
  <2>3. up' \in [Mcus -> Seq(Message)] BY <1>1, <1>3, <1>4
  <2>4. \A o \in Mcus : Range(up'[o]) \subseteq Range(up[o]) BY <2>1, <2>2
  <2> QED BY <2>1, <2>2, <2>3, <2>4
<1>6. /\ \A o \in Mcus : o < m => down[o] = <<>> /\ ~ts[o].can
      /\ m > 1 => host.res # <<>> /\ up[1] = <<>> /\ ~ts[1].report
      /\ \A o \in Mcus : o # m => ~HasQuery(down[o]) /\ ~HasAck(up[o])
  BY <1>0, <1>3 DEF StopInv
<1>7. /\ down[1] = <<>> /\ up'[1] = <<>> /\ ~ts[1].report /\ ~StartPending(1)
      /\ Range(up'[1]) = {}
  <2>1. m = 1 \/ 1 < m BY <1>2
  <2>2. down[1] = <<>> /\ up'[1] = <<>> /\ ~ts[1].report
    BY <1>2, <1>3, <1>5, <1>6, <2>1
  <2>3. Range(<<>>) = {} BY RangeShort
  <2> QED BY <1>2, <2>2, <2>3, StartRange DEF StartIn
<1>8. \A o \in Mcus : ~HasAck(up'[o]) BY <1>5, <1>6 DEF HasAck
<1>9. \A v : Given(v) => Given(v)' BY <1>1 DEF Given
<1>10. host.params # NoParams => res \in Seq(0 .. 4) /\ res # <<>> /\ Given(res[1])
  <2> SUFFICES ASSUME host.params # NoParams
               PROVE  res \in Seq(0 .. 4) /\ res # <<>> /\ Given(res[1])
    OBVIOUS
  <2>1. host.params \in 0 .. 4 /\ host.res \in Seq(0 .. 4)
    BY <1>4 DEF HostRecord, NoParams
  <2>2. res \in Seq(0 .. 4) /\ res # <<>> BY <2>1
  <2>3. CASE m = 1
    <3>1. Given(host.params) /\ host.res = <<>> BY <1>0, <1>3, <2>3 DEF TruthInv
    <3>2. res[1] = host.params BY <2>1, <3>1
    <3> QED BY <2>2, <3>1, <3>2
  <2>4. CASE m # 1
    <3>1. m > 1 BY <1>2, <2>4
    <3>2. host.res # <<>> /\ Given(host.res[1]) BY <1>0, <1>3, <1>6, <3>1 DEF TruthInv
    <3>3. res[1] = host.res[1]
      <4>1. Len(host.res) \in Nat \ {0} BY <2>1, <3>2, EmptySeq, LenProperties
      <4>2. 1 \in 1 .. Len(host.res) BY <4>1
      <4> QED BY <2>1, <4>2, AppendProperties
    <3> QED BY <2>2, <3>2, <3>3
  <2> QED BY <2>3, <2>4
<1>11. ASSUME NEW k \in Mcus, k = m \/ (k = m + 1 /\ next),
              down' = [down EXCEPT ![k] = Append(@, Query)],
              host' \in HostRecord, host'.phase = "stopping", host'.k = k,
              k = m => host'.params = host.params /\ host'.res = host.res,
              k = m + 1 => host'.res = res
       PROVE  DispatchInv'
  <2> HIDE DEF res, next, resend
  <2>1. ~HasQuery(down[k]) /\ down[k] \in Seq(Command)
    <3>1. Range(<<>>) = {} BY RangeShort
    <3>2. ~HasQuery(down[m]) BY <1>3, <3>1 DEF HasQuery
    <3>3. k = m \/ k # m OBVIOUS
    <3> QED BY <1>4, <1>6, <3>2
  <2>2. down' = [down EXCEPT ![k] = @ \o <<Query>>]
    <3>1. Append(down[k], Query) = down[k] \o <<Query>> BY <2>1, AckQuery
    <3> QED BY <1>11, <3>1
  <2>3. /\ down' \in [Mcus -> Seq(Command)]
        /\ Range(down'[k]) = Range(down[k]) \cup {Query}
        /\ \A o \in Mcus : o # k => down'[o] = down[o]
        /\ \A o \in Mcus : StartPending(o)' <=> StartPending(o)
        /\ StartPending(1)' => ~StartIn(Tail(down'[1]))
    BY <2>2, QuerySent, SentOne
  <2>4. down'[k] = Append(down[k], Query) BY <1>4, <1>11
  <2>5. Types' BY <1>0, <1>1, <1>5, <1>11, <2>3 DEF Types
  <2>6. SessionInv' BY <1>0, <1>1, <1>3, <1>11, <2>3 DEF SessionInv
  <2>7. BoundInv'
    <3>1. \A o \in Mcus : Known(o)' <=> Known(o) BY <1>3, <1>11 DEF Known
    <3>2. \A o \in Mcus : \A c \in Range(down'[o]) :
            c.cmd = "set_timeout" => c \in Range(down[o])
      BY <2>3, AckQuery
    <3>3. \A o \in Mcus : StartPending(o)' => StartPending(o) BY <2>3
    <3> QED BY <1>0, <1>1, <1>5, <2>5, <3>1, <3>2, <3>3, HostBound
  <2>8. StopInv'
    <3>1. Asked(k)' BY <1>8, <2>1, <2>4 DEF Asked
    <3>2. \A o \in Mcus : o < k => down'[o] = <<>> /\ ~ts[o].can
      <4>1. \A o \in Mcus : o < k => o # k /\ (o = m \/ o < m) BY <1>2, <1>11
      <4> QED BY <1>3, <1>6, <2>3, <4>1
    <3>3. k > 1 => host'.res # <<>>
      <4>1. k = m => host'.res = host.res BY <1>11
      <4>2. k # m => host'.res # <<>> BY <1>10, <1>11 DEF next
      <4> QED BY <1>6, <4>1, <4>2
    <3>4. \A o \in Mcus : o # k => ~HasQuery(down'[o])
      <4>1. Range(<<>>) = {} BY RangeShort
      <4>2. ~HasQuery(down[m]) BY <1>3, <4>1 DEF HasQuery
      <4> QED BY <1>6, <2>3, <4>2
    <3> QED BY <1>1, <1>7, <1>8, <1>11, <3>1, <3>2, <3>3, <3>4 DEF StopInv
  <2>9. TruthInv'
    <3>1. ~NotStarted' BY <1>11 DEF NotStarted
    <3>2. ~StartPending(1)' BY <1>2, <1>7, <2>3
    <3>3. k = 1 => Given(host.params)' /\ host'.res = <<>>
      <4>1. k = 1 => m = 1 /\ host'.params = host.params /\ host'.res = host.res
        <5>1. m + 1 # 1 BY <1>2
        <5> QED BY <1>11, <5>1
      <4> QED BY <1>0, <1>1, <1>3, <4>1 DEF TruthInv, Given
    <3>4. k > 1 => Given(host.res[1])'
      <4>1. k > 1 => Given(host'.res[1])
        <5>1. CASE k = m BY <1>0, <1>3, <1>11, <5>1 DEF TruthInv
        <5>2. CASE k # m BY <1>10, <1>11, <5>2 DEF next
        <5> QED BY <5>1, <5>2
      <4> QED BY <1>1, <4>1 DEF Given
    <3>5. HitIsTrue' BY <1>11 DEF HitIsTrue
    <3> QED BY <1>0, <1>1, <1>7, <1>11, <3>1, <3>2, <3>3, <3>4, <3>5 DEF TruthInv
  <2> QED BY <2>5, <2>6, <2>7, <2>8, <2>9 DEF DispatchInv
<1>12. CASE resend
  <2>1. /\ down' = [down EXCEPT ![m] = Append(@, Query)]
        /\ host' = [host EXCEPT !.left = LeftAfter(@)]
    BY <1>12 DEF HandleAck
  <2>2. LeftAfter(host.left) \in Int BY <1>4 DEF HostRecord, LeftAfter
  <2>3. host' \in HostRecord BY <1>4, <2>1, <2>2, ZenonT(60) DEF HostRecord
  <2>4. /\ host'.phase = host.phase /\ host'.k = host.k /\ host'.params = host.params
        /\ host'.res = host.res
    BY <1>4, <2>1, ZenonT(60) DEF HostRecord
  <2>5. m # m + 1 BY <1>2
  <2> QED BY <1>3, <1>11, <2>1, <2>3, <2>4, <2>5
<1>13. CASE ~resend /\ next
  <2>1. /\ down' = [down EXCEPT ![m + 1] = Append(@, Query)]
        /\ host' = [host EXCEPT !.k = m + 1, !.res = res, !.left = Retries,
                                !.params = NoParams]
    BY <1>13 DEF HandleAck
  <2>2. m + 1 \in Mcus /\ m + 1 # m /\ m + 1 \in 1 .. N + 1
    BY <1>2, <1>13 DEF MoreToStop, Mcus
  <2>3. res \in Seq(0 .. 4) /\ NoParams \in -1 .. 4 /\ Retries \in Int
    BY <1>2, <1>10, <1>13 DEF NoParams
  <2> HIDE DEF res
  <2>4. host' \in HostRecord BY <1>4, <2>1, <2>2, <2>3, ZenonT(60) DEF HostRecord
  <2>5. host'.phase = host.phase /\ host'.k = m + 1 /\ host'.res = res
    BY <1>4, <2>1, ZenonT(60) DEF HostRecord
  <2> QED BY <1>3, <1>11, <1>13, <2>1, <2>2, <2>4, <2>5
<1>14. CASE ~resend /\ ~next
  <2> DEFINE result == IF host.params = NoParams THEN REASON_NONE ELSE Result(res)
  <2>1. down' = down /\ host' = Idle(result)
    BY <1>14 DEF HandleAck
  <2>2. /\ result \in 0 .. 4
        /\ host.params # NoParams /\ result = REASON_ENDSTOP_HIT => res[1] = REASON_ENDSTOP_HIT
        /\ host.params = NoParams => result = REASON_NONE
    <3> HIDE DEF res
    <3>1. host.params # NoParams => /\ Result(res) \in 0 .. 4
                                    /\ Result(res) = REASON_ENDSTOP_HIT => res[1] = REASON_ENDSTOP_HIT
      BY <1>10, ResultIs
    <3>2. REASON_NONE \in 0 .. 4 BY DEF REASON_NONE
    <3> QED BY <3>1, <3>2
  <2> HIDE DEF result
  <2>3. /\ host' \in HostRecord /\ host'.phase = "idle" /\ host'.k = 1
        /\ host'.res = <<>> /\ host'.result = result
    BY <2>1, <2>2, IdleIs
  <2>4. Types' BY <1>0, <1>1, <1>5, <2>1, <2>3 DEF Types
  <2>5. \A o \in Mcus : StartPending(o)' <=> StartPending(o) BY <2>1 DEF StartPending
  <2>6. SessionInv' BY <1>0, <1>1, <1>3, <2>3, <2>5 DEF SessionInv
  <2>7. BoundInv'
    <3>1. \A o \in Mcus : Known(o)' <=> Known(o) BY <1>3, <2>3 DEF Known
    <3>2. \A o \in Mcus : StartPending(o)' => StartPending(o) BY <2>5
    <3> QED BY <1>0, <1>1, <1>5, <2>1, <2>4, <3>1, <3>2, HostBound
  <2>8. StopInv'
    <3>1. Range(<<>>) = {} BY RangeShort
    <3>2. ~HasQuery(down[m]) BY <1>3, <3>1 DEF HasQuery
    <3> QED BY <1>6, <1>8, <2>1, <2>3, <3>2 DEF StopInv
  <2>9. HitIsTrue'
    <3> SUFFICES ASSUME result # REASON_NONE
                 PROVE  /\ \A o \in Mcus : ~ts[o].can /\ down[o] = <<>>
                        /\ result = REASON_ENDSTOP_HIT => ts[1].reason = REASON_ENDSTOP_HIT
      BY <1>1, <2>1, <2>3 DEF HitIsTrue
    <3>1. host.params # NoParams /\ ~(m < N)
      BY <1>14, <2>2 DEF MoreToStop
    <3>2. \A o \in Mcus : o = m \/ o < m BY <1>2, <3>1
    <3>3. result = REASON_ENDSTOP_HIT => res[1] = 1 /\ Given(res[1])
      BY <1>10, <2>2, <3>1 DEF REASON_ENDSTOP_HIT
    <3>4. result = REASON_ENDSTOP_HIT => ts[1].reason = REASON_ENDSTOP_HIT
      <4> HIDE DEF res
      <4>1. 1 > 0 OBVIOUS
      <4> QED BY <3>3, <4>1 DEF Given, REASON_ENDSTOP_HIT
    <3> QED BY <1>3, <1>6, <3>2, <3>4
  <2>10. TruthInv'
    <3>1. ~StartPending(1)' BY <1>2, <1>7, <2>5
    <3> QED BY <1>0, <1>1, <1>7, <2>1, <2>3, <2>9, <3>1 DEF TruthInv
  <2> QED BY <2>4, <2>6, <2>7, <2>8, <2>10 DEF DispatchInv
<1> QED BY <1>12, <1>13, <1>14

-----------------------------------------------------------------------------
(* The theorems.                                                           *)

\* Before the first session.
LEMMA DispatchInit ==
  ASSUME Init
  PROVE  DispatchInv
<1> DEFINE r == [can |-> FALSE, reason |-> REASON_NONE, expire |-> -1, report |-> FALSE,
                 endstop |-> FALSE]
           z == [status |-> 0, expire |-> 0]
<1>1. /\ clock = 0 /\ fired = -1 /\ ts = [m \in Mcus |-> r]
      /\ down = [m \in Mcus |-> <<>>] /\ up = [m \in Mcus |-> <<>>]
      /\ td = [is_active |-> FALSE, can_trigger |-> FALSE]
      /\ tdm = [m \in Mcus |-> z] /\ host = Idle(REASON_NONE)
  BY DEF Init
<1>2. 1 \in Mcus /\ ExpireTicks \in Nat BY TrdispatchAssumption DEF Mcus
<1>3. /\ r \in TrsyncRecord /\ ~r.can /\ ~r.report /\ r.expire = -1
      /\ r.reason = REASON_NONE
  BY DEF TrsyncRecord, Reasons, REASON_NONE
<1>4. z \in StatusRecord /\ z.status = 0 BY DEF StatusRecord
<1>5. /\ host \in HostRecord /\ host.phase = "idle" /\ host.res = <<>>
      /\ host.result = REASON_NONE
  <2>1. REASON_NONE \in 0 .. 4 BY DEF REASON_NONE
  <2> QED BY <1>1, <2>1, IdleIs
<1> HIDE DEF r, z
<1>6. \A m \in Mcus : /\ down[m] = <<>> /\ up[m] = <<>> /\ ts[m] = r /\ tdm[m] = z
                      /\ Range(down[m]) = {} /\ Range(up[m]) = {}
  <2>1. Range(<<>>) = {} BY RangeShort
  <2> QED BY <1>1, <2>1
<1>7. ~td.is_active /\ td \in [is_active : BOOLEAN, can_trigger : BOOLEAN] BY <1>1
<1>8. Types
  <2>1. <<>> \in Seq(Command) /\ <<>> \in Seq(Message) OBVIOUS
  <2>2. /\ ts \in [Mcus -> TrsyncRecord] /\ tdm \in [Mcus -> StatusRecord]
        /\ down \in [Mcus -> Seq(Command)] /\ up \in [Mcus -> Seq(Message)]
    BY <1>1, <1>3, <1>4, <2>1
  <2>3. clock \in Nat /\ fired \in Int /\ fired >= -1 BY <1>1
  <2> QED BY <1>5, <1>7, <2>2, <2>3 DEF Types
<1>9. \A m \in Mcus : ~StartPending(m) BY <1>6, StartRange DEF StartIn
<1>10. SessionInv BY <1>1, <1>7, <1>9 DEF SessionInv
<1>11. BoundInv
  <2>1. -1 <= 0 + ExpireTicks BY <1>2
  <2>2. \A m \in Mcus : Extends(m, clock)
    BY <1>1, <1>3, <1>6, <2>1 DEF Extends, TimeoutsBelow
  <2>3. \A m \in Mcus : Alive(m, clock)
    BY <1>1, <1>4, <1>6 DEF Alive, ReportsBelow
  <2> QED BY <1>1, <2>2, <2>3 DEF BoundInv, StopTogether
<1>12. StopInv BY <1>5, <1>6 DEF StopInv, HasQuery, HasAck
<1>13. TruthInv BY <1>2, <1>3, <1>5, <1>6, <1>9 DEF TruthInv, HitIsTrue
<1> QED BY <1>8, <1>10, <1>11, <1>12, <1>13 DEF DispatchInv

\* Every step keeps it.
LEMMA DispatchNext ==
  ASSUME DispatchInv, [Next]_vars
  PROVE  DispatchInv'
<1>1. CASE EndstopHit BY <1>1, EndstopHitInv
<1>2. CASE Tick BY <1>2, TickInv
<1>3. ASSUME NEW m \in Mcus, trsync_expire_event(m) PROVE DispatchInv'
  BY <1>3, ExpireInv
<1>4. ASSUME NEW m \in Mcus, trsync_report(m) PROVE DispatchInv'
  BY <1>4, ReportInv
<1>5. ASSUME NEW m \in Mcus, Deliver(m) PROVE DispatchInv'
  BY <1>5, DeliverInv
<1>6. ASSUME NEW m \in Mcus, Handle(m) PROVE DispatchInv'
  <2>1. CASE HandleState(m) BY <2>1, HandleStateInv
  <2>2. CASE HandleAck(m) BY <2>2, HandleAckInv
  <2> QED BY <1>6, <2>1, <2>2 DEF Handle
<1>7. CASE BeginHoming BY <1>7, BeginHomingInv
<1>8. CASE StartMcu BY <1>8, StartMcuInv
<1>9. CASE StartDispatch BY <1>9, StartDispatchInv
<1>10. CASE HomeWait BY <1>10, HomeWaitInv
<1>11. CASE UNCHANGED vars
  <2>1. Types' /\ SessionInv'
    BY <1>11 DEF vars, DispatchInv, Types, SessionInv, StartPending
  <2>2. BoundInv'
    BY <1>11 DEF vars, DispatchInv, BoundInv, Extends, Alive, First, InSession,
                 StartPending, Known, StopTogether
  <2>3. StopInv' BY <1>11 DEF vars, DispatchInv, StopInv, Asked, Answered
  <2>4. TruthInv'
    BY <1>11 DEF vars, DispatchInv, TruthInv, NotStarted, StartPending, Given, HitIsTrue
  <2> QED BY <2>1, <2>2, <2>3, <2>4 DEF DispatchInv
<1> QED BY <1>1, <1>2, <1>3, <1>4, <1>5, <1>6, <1>7, <1>8, <1>9, <1>10, <1>11 DEF Next

\* The invariant holds of homing over any number of boards.
THEOREM DispatchInvariance == Spec => []DispatchInv
BY DispatchInit, DispatchNext, PTL DEF Spec

\* The bound of trsync timeouts (trdispatch.c, handle_trsync_state): once one board
\* has fired, all others have fired when expire_ticks have passed, whatever the
\* number of boards, and whatever is lost or late.
THEOREM BoardsStopTogether == Spec => []StopTogether
<1>1. DispatchInv => StopTogether BY DEF DispatchInv, BoundInv
<1> QED BY <1>1, DispatchInvariance, PTL

\* TriggerDispatch.stop is not deceived: with an answer all boards have stopped and
\* no command is on its way, and an endstop hit is one of this session.
THEOREM HitsAreTrue == Spec => []HitIsTrue
<1>1. DispatchInv => HitIsTrue BY DEF DispatchInv, TruthInv
<1> QED BY <1>1, DispatchInvariance, PTL
=============================================================================
