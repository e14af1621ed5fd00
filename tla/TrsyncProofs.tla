---------------------------- MODULE TrsyncProofs ----------------------------
(***************************************************************************)
(* Proofs about module Trsync for any number of trsyncs, signals and       *)
(* reasons.                                                                *)
(***************************************************************************)
EXTENDS Trsync, TLAPS

\* What is known of one session besides its type: it has a reason only once it
\* fired, and the host was told so only then.
SessionInv(o) ==
  /\ ts[o].can => ts[o].trigger_reason = NoReason
  /\ told[o] = "fired" => ~ts[o].can

\* What is known of the report trsync_task holds between copying and sending it.
ReportInv ==
  \A p \in task.to_send :
    /\ task.oid # 0
    /\ ~p.can => /\ ~ts[task.oid].can
                 /\ p.trigger_reason = ts[task.oid].trigger_reason
    /\ told[task.oid] = "fired" => ~p.can

\* The inductive invariant.
Inv ==
  /\ TypeOK
  /\ SignalsExact
  /\ NoTimerTwice
  /\ \A o \in Oids : SessionInv(o)
  /\ ReportInv

-----------------------------------------------------------------------------
\* The structs the operations of trsync.c leave behind.

\* trsync_clear leaves nothing of a session behind, and no timer scheduled.
LEMMA ClearType ==
  ASSUME NEW r \in TrsyncRecord
  PROVE  /\ trsync_clear(r) \in TrsyncRecord
         /\ trsync_clear(r).signals = <<>>
         /\ trsync_clear(r).trigger_reason = NoReason
         /\ ~trsync_clear(r).can
         /\ ~trsync_clear(r).report_time
<1>1. <<>> \in Seq(Signals)
  OBVIOUS
<1> QED BY <1>1 DEF trsync_clear, TrsyncRecord

\* trsync_do_trigger on a struct.
LEMMA FiredType ==
  ASSUME NEW r \in TrsyncRecord, NEW reason \in Reasons \cup {NoReason}
  PROVE  /\ Fired(r, reason) \in TrsyncRecord
         /\ ~Fired(r, reason).can
         /\ Fired(r, reason).signals = IF r.can THEN <<>> ELSE r.signals
         /\ Fired(r, reason).trigger_reason = IF r.can THEN reason ELSE r.trigger_reason
<1>1. <<>> \in Seq(Signals)
  OBVIOUS
<1>2. CASE r.can
  BY <1>1, <1>2 DEF Fired, TrsyncRecord
<1>3. CASE ~r.can
  BY <1>3 DEF Fired, TrsyncRecord
<1> QED BY <1>2, <1>3

\* A step that touches no signal keeps the lists as they are.
LEMMA SignalsFrame ==
  ASSUME SignalsExact, func' = func,
         \A o \in Oids : ts'[o].signals = ts[o].signals
  PROVE  SignalsExact'
<1>1. \A o \in Oids : OnSignals(o)' = OnSignals(o)
  BY DEF OnSignals
<1> QED BY <1>1, SMTT(40) DEF SignalsExact

\* Emptying the list of one trsync and freeing its signals keeps the others
\* exactly on the list they are on.
LEMMA SignalsEmptied ==
  ASSUME SignalsExact, TypeOK, NEW o \in Oids,
         ts'[o].signals = <<>>,
         \A q \in Oids \ {o} : ts'[q].signals = ts[q].signals,
         func' = [g \in Signals |-> IF g \in OnSignals(o) THEN FALSE ELSE func[g]]
  PROVE  SignalsExact'
<1>1. ASSUME NEW g \in Signals
      PROVE  func'[g] <=> \E q \in Oids : g \in OnSignals(q)'
  <2>1. ~(g \in OnSignals(o)')
    BY DEF OnSignals
  <2>2. \A q \in Oids \ {o} : g \in OnSignals(q)' <=> g \in OnSignals(q)
    BY DEF OnSignals
  <2>3. CASE g \in OnSignals(o)
    <3>1. \A q \in Oids \ {o} : g \notin OnSignals(q)
      BY <2>3 DEF OnSignals, SignalsExact
    <3> QED BY <2>1, <2>2, <2>3, <3>1
  <2>4. CASE g \notin OnSignals(o)
    <3>1. func'[g] = func[g]
      BY <2>4
    <3> QED BY <2>1, <2>2, <2>4, <3>1 DEF SignalsExact
  <2> QED BY <2>3, <2>4
<1>2. ASSUME NEW p \in Oids, NEW q \in Oids,
             NEW i \in 1 .. Len(ts'[p].signals), NEW j \in 1 .. Len(ts'[q].signals),
             ts'[p].signals[i] = ts'[q].signals[j]
      PROVE  p = q /\ i = j
  <2>1. p # o /\ q # o
    BY <1>2
  <2> QED BY <1>2, <2>1 DEF SignalsExact
<1> QED BY <1>1, <1>2 DEF SignalsExact

\* Linking a free signal at the head of a list keeps every signal in one place.
LEMMA SignalLinked ==
  ASSUME SignalsExact, TypeOK, NEW o \in Oids, NEW g \in Signals, ~func[g],
         ts'[o].signals = <<g>> \o ts[o].signals,
         \A q \in Oids \ {o} : ts'[q].signals = ts[q].signals,
         func' = [func EXCEPT ![g] = TRUE]
  PROVE  SignalsExact'
<1> DEFINE old == ts[o].signals
           new == ts'[o].signals
<1>1. old \in Seq(Signals) /\ new = <<g>> \o old
  BY DEF TypeOK, TrsyncRecord
<1>2. /\ Len(old) \in Nat /\ Len(new) = Len(old) + 1
      /\ new[1] = g
      /\ \A i \in 2 .. Len(new) : new[i] = old[i - 1]
  BY <1>1
<1>3. \A i \in 1 .. Len(old) : old[i] = new[i + 1]
  BY <1>2
<1>4. \A q \in Oids : g \notin OnSignals(q)
  BY DEF SignalsExact
<1>5. \A q \in Oids \ {o} : OnSignals(q)' = OnSignals(q)
  BY DEF OnSignals
<1>6. \A h \in Signals : h \in OnSignals(o)' <=> h = g \/ h \in OnSignals(o)
  <2> SUFFICES ASSUME NEW h \in Signals
               PROVE  h \in OnSignals(o)' <=> h = g \/ h \in OnSignals(o)
    OBVIOUS
  <2> HIDE DEF old, new
  <2>1. OnSignals(o) = {old[i] : i \in 1 .. Len(old)}
        /\ OnSignals(o)' = {new[i] : i \in 1 .. Len(new)}
    BY DEF OnSignals, old, new
  <2>2. ASSUME NEW i \in 1 .. Len(new), h = new[i], h # g
        PROVE  h \in OnSignals(o)
    <3>1. i \in 2 .. Len(new) /\ i - 1 \in 1 .. Len(old)
      BY <2>2, <1>2
    <3> QED BY <3>1, <2>1, <2>2, <1>2
  <2>3. ASSUME NEW i \in 1 .. Len(old), h = old[i]
        PROVE  h \in OnSignals(o)'
    <3>1. i + 1 \in 1 .. Len(new)
      BY <1>2
    <3> QED BY <3>1, <2>1, <2>3, <1>3
  <2>4. 1 \in 1 .. Len(new)
    BY <1>2
  <2> QED BY <2>1, <2>2, <2>3, <2>4, <1>2
<1>7. \A h \in Signals : func'[h] <=> \E q \in Oids : h \in OnSignals(q)'
  <2> SUFFICES ASSUME NEW h \in Signals
               PROVE  func'[h] <=> \E q \in Oids : h \in OnSignals(q)'
    OBVIOUS
  <2>1. func'[h] <=> h = g \/ func[h]
    BY DEF TypeOK
  <2>2. func[h] <=> \E q \in Oids : h \in OnSignals(q)
    BY DEF SignalsExact
  <2> QED BY <2>1, <2>2, <1>5, <1>6
<1>8. ASSUME NEW p \in Oids, NEW q \in Oids,
             NEW i \in 1 .. Len(ts'[p].signals), NEW j \in 1 .. Len(ts'[q].signals),
             ts'[p].signals[i] = ts'[q].signals[j]
      PROVE  p = q /\ i = j
  <2>1. ASSUME NEW r \in Oids, NEW k \in 1 .. Len(ts'[r].signals)
        PROVE  \/ r = o /\ k = 1 /\ ts'[r].signals[k] = g
               \/ /\ r = o /\ k - 1 \in 1 .. Len(ts[o].signals)
                  /\ ts'[r].signals[k] = ts[o].signals[k - 1]
                  /\ ts'[r].signals[k] # g
               \/ /\ r # o /\ k \in 1 .. Len(ts[r].signals)
                  /\ ts'[r].signals[k] = ts[r].signals[k]
                  /\ ts'[r].signals[k] # g
    <3>1. CASE r = o /\ k = 1
      BY <3>1, <1>2
    <3>2. CASE r = o /\ k # 1
      <4>1. k \in 2 .. Len(new) /\ k - 1 \in 1 .. Len(old)
        BY <3>2, <1>2
      <4> QED BY <4>1, <3>2, <1>2, <1>4 DEF OnSignals
    <3>3. CASE r # o
      BY <3>3, <1>4 DEF OnSignals
    <3> QED BY <3>1, <3>2, <3>3
  <2>2. \A a \in 1 .. Len(ts[p].signals), b \in 1 .. Len(ts[q].signals) :
          ts[p].signals[a] = ts[q].signals[b] => p = q /\ a = b
    BY DEF SignalsExact
  <2>3. i \in Int /\ j \in Int
    OBVIOUS
  <2>4. CASE ts'[p].signals[i] = g
    <3>1. p = o /\ i = 1
      BY <2>1, <2>4
    <3>2. q = o /\ j = 1
      BY <1>8, <2>1, <2>4
    <3> QED BY <3>1, <3>2
  <2>5. CASE ts'[p].signals[i] # g
    <3> DEFINE a == IF p = o THEN i - 1 ELSE i
               b == IF q = o THEN j - 1 ELSE j
    <3>1. a \in 1 .. Len(ts[p].signals) /\ ts'[p].signals[i] = ts[p].signals[a]
      BY <2>1, <2>5
    <3>2. b \in 1 .. Len(ts[q].signals) /\ ts'[q].signals[j] = ts[q].signals[b]
      BY <1>8, <2>1, <2>5
    <3>3. p = q /\ a = b
      BY <1>8, <2>2, <3>1, <3>2
    <3> QED BY <2>3, <3>3
  <2> QED BY <2>4, <2>5
<1> QED BY <1>7, <1>8 DEF SignalsExact

-----------------------------------------------------------------------------
\* Every action keeps the invariant.

\* The configured, idle firmware.
LEMMA InitInv == Init => Inv
<1> SUFFICES ASSUME Init PROVE Inv
  OBVIOUS
<1>1. <<>> \in Seq(Signals)
  OBVIOUS
<1>2. ConfigTrsync \in TrsyncRecord /\ ConfigTrsync.signals = <<>> /\ ~ConfigTrsync.can
  BY <1>1 DEF ConfigTrsync, TrsyncRecord
<1>3. \A o \in Oids : ts[o] = ConfigTrsync
  BY DEF Init
<1>4. TypeOK
  <2>1. task \in [oid : 0 .. NumTrsync, to_send : SUBSET Report]
    BY TrsyncAssumption DEF Init, Idle
  <2>2. ts \in [Oids -> TrsyncRecord]
    BY <1>2 DEF Init
  <2> QED BY <2>1, <2>2 DEF Init, TypeOK
<1>5. SignalsExact
  BY <1>2, <1>3 DEF Init, SignalsExact, OnSignals
<1>6. NoTimerTwice /\ ReportInv /\ \A o \in Oids : SessionInv(o)
  BY <1>2, <1>3 DEF Init, NoTimerTwice, ReportInv, SessionInv, Idle
<1> QED BY <1>4, <1>5, <1>6 DEF Inv

\* trsync_shutdown, and the shutdown a command ends in.
LEMMA ShutdownInv == Inv /\ Shutdown => Inv'
<1> SUFFICES ASSUME Inv, Shutdown PROVE Inv'
  OBVIOUS
<1> USE DEF Inv
<1>1. \A o \in Oids : /\ ts'[o] = trsync_clear(ts[o]) /\ ts[o] \in TrsyncRecord
                     /\ ts'[o] \in TrsyncRecord /\ ts'[o].signals = <<>>
                     /\ ~ts'[o].can
  BY ClearType DEF Shutdown, TypeOK
<1>2. TypeOK'
  <2>1. ts' \in [Oids -> TrsyncRecord]
    BY <1>1 DEF Shutdown
  <2>2. func' \in [Signals -> BOOLEAN] /\ told' \in [Oids -> {"nothing", "armed", "fired"}]
    BY DEF Shutdown, TypeOK
  <2>3. task' \in [oid : 0 .. NumTrsync, to_send : SUBSET Report]
    BY TrsyncAssumption DEF Shutdown, Idle
  <2> QED BY <2>1, <2>2, <2>3 DEF Shutdown, TypeOK
<1>3. SignalsExact'
  <2>1. \A g \in Signals : ~func'[g]
    BY DEF Shutdown, SignalsExact
  <2> QED BY <1>1, <2>1 DEF SignalsExact, OnSignals
<1>4. NoTimerTwice' /\ ReportInv' /\ \A o \in Oids : SessionInv(o)'
  BY <1>1 DEF Shutdown, NoTimerTwice, ReportInv, SessionInv, Idle
<1> QED BY <1>2, <1>3, <1>4

\* command_trsync_start
LEMMA StartInv ==
  ASSUME Inv, NEW o \in Oids, NEW ticks \in BOOLEAN, NEW p \in Reasons \cup {NoReason},
         command_trsync_start(o, ticks, p)
  PROVE  Inv'
<1> USE DEF Inv
<1> DEFINE r == trsync_clear(ts[o])
           n == [r EXCEPT !.can = TRUE, !.report_time = r.report_time \/ ticks,
                          !.expire_reason = p]
<1>1. CASE Shutdown
  BY <1>1, ShutdownInv
<1>2. CASE ~Shutdown
  <2>1. /\ ts' = [ts EXCEPT ![o] = n]
        /\ func' = [g \in Signals |-> IF g \in OnSignals(o) THEN FALSE ELSE func[g]]
        /\ told' = [told EXCEPT ![o] = "nothing"]
        /\ readd' = (readd \/ (r.report_time /\ ticks))
        /\ UNCHANGED <<wake, task, shut>> /\ task = Idle
    BY <1>2 DEF command_trsync_start, Command
  <2>2. ts[o] \in TrsyncRecord
    BY DEF TypeOK
  <2>3. /\ r \in TrsyncRecord /\ ~r.report_time
        /\ r.signals = <<>> /\ r.trigger_reason = NoReason
    BY <2>2, ClearType
  <2> HIDE DEF r
  <2>4. n \in TrsyncRecord /\ n.signals = <<>> /\ n.trigger_reason = NoReason
    BY <2>3 DEF TrsyncRecord
  <2> HIDE DEF n
  <2>5. ts'[o] = n /\ \A q \in Oids \ {o} : ts'[q] = ts[q]
    BY <2>1 DEF TypeOK
  <2>6. SignalsExact'
    BY <2>1, <2>4, <2>5, SignalsEmptied
  <2>7. TypeOK'
    BY <2>1, <2>3, <2>4 DEF TypeOK
  <2>8. ~readd'
    BY <2>1, <2>3 DEF NoTimerTwice
  <2>9. ReportInv' /\ NoTimerTwice'
    BY <2>1, <2>8 DEF ReportInv, Idle, NoTimerTwice
  <2>10. \A q \in Oids : SessionInv(q)'
    BY <2>1, <2>4, <2>5 DEF SessionInv, TypeOK
  <2> QED BY <2>6, <2>7, <2>9, <2>10
<1> QED BY <1>1, <1>2

\* command_trsync_set_timeout: the timer is off the list when it is added.
LEMMA TimeoutInv ==
  ASSUME Inv, NEW o \in Oids, command_trsync_set_timeout(o)
  PROVE  Inv'
<1> USE DEF Inv
<1> DEFINE r == CancelTimeout(ts[o])
           n == [r EXCEPT !.expire_time = TRUE]
<1>1. CASE Shutdown
  BY <1>1, ShutdownInv
<1>2. CASE UNCHANGED vars
  BY <1>2 DEF vars, TypeOK, SignalsExact, OnSignals, NoTimerTwice, SessionInv, ReportInv
<1>3. CASE /\ ts' = [ts EXCEPT ![o] = n]
           /\ readd' = (readd \/ r.expire_time)
           /\ UNCHANGED <<func, wake, task, shut, told>>
  <2>1. ts[o] \in TrsyncRecord
    BY DEF TypeOK
  <2>2. /\ n \in TrsyncRecord /\ ~r.expire_time
        /\ n.can = ts[o].can /\ n.trigger_reason = ts[o].trigger_reason
        /\ n.signals = ts[o].signals
    BY <2>1 DEF TrsyncRecord, CancelTimeout
  <2> HIDE DEF r, n
  <2>3. ts'[o] = n /\ \A q \in Oids \ {o} : ts'[q] = ts[q]
    BY <1>3 DEF TypeOK
  <2>4. \A q \in Oids : /\ ts'[q].can = ts[q].can /\ ts'[q].signals = ts[q].signals
                        /\ ts'[q].trigger_reason = ts[q].trigger_reason
    BY <2>2, <2>3
  <2>5. SignalsExact'
    BY <1>3, <2>4, SignalsFrame
  <2>6. readd' = FALSE
    BY <1>3, <2>2 DEF NoTimerTwice
  <2>7. TypeOK'
    BY <1>3, <2>2, <2>6 DEF TypeOK
  <2>8. NoTimerTwice' /\ \A q \in Oids : SessionInv(q)'
    BY <1>3, <2>4, <2>6 DEF NoTimerTwice, SessionInv
  <2>9. ReportInv'
    BY <1>3, <2>4 DEF ReportInv, TypeOK, Oids
  <2> QED BY <2>5, <2>7, <2>8, <2>9
<1> QED BY <1>1, <1>2, <1>3 DEF command_trsync_set_timeout

\* trsync_add_signal
LEMMA AddSignalInv ==
  ASSUME Inv, NEW o \in Oids, NEW g \in Signals, trsync_add_signal(o, g)
  PROVE  Inv'
<1> USE DEF Inv
<1> DEFINE n == [ts[o] EXCEPT !.signals = <<g>> \o @]
<1>1. CASE func[g]
  BY <1>1, ShutdownInv DEF trsync_add_signal
<1>2. CASE ~func[g]
  <2>1. /\ ts' = [ts EXCEPT ![o] = n]
        /\ func' = [func EXCEPT ![g] = TRUE]
        /\ UNCHANGED <<wake, task, shut, told, readd>> /\ task = Idle
    BY <1>2 DEF trsync_add_signal, Command
  <2>2. ts[o] \in TrsyncRecord
    BY DEF TypeOK
  <2>3. ts[o].signals \in Seq(Signals) /\ <<g>> \in Seq(Signals)
    BY <2>2 DEF TrsyncRecord
  <2>4. <<g>> \o ts[o].signals \in Seq(Signals)
    BY <2>3
  <2>5. /\ n \in TrsyncRecord /\ n.signals = <<g>> \o ts[o].signals
        /\ n.can = ts[o].can /\ n.trigger_reason = ts[o].trigger_reason
    BY <2>2, <2>4 DEF TrsyncRecord
  <2> HIDE DEF n
  <2>6. ts'[o] = n /\ \A q \in Oids \ {o} : ts'[q] = ts[q]
    BY <2>1 DEF TypeOK
  <2>7. SignalsExact'
    BY <1>2, <2>1, <2>5, <2>6, SignalLinked
  <2>8. TypeOK'
    BY <2>1, <2>5 DEF TypeOK
  <2>9. ReportInv' /\ NoTimerTwice'
    BY <2>1 DEF ReportInv, Idle, NoTimerTwice
  <2>10. \A q \in Oids : SessionInv(q)'
    BY <2>1, <2>5, <2>6 DEF SessionInv
  <2> QED BY <2>7, <2>8, <2>9, <2>10
<1> QED BY <1>1, <1>2

\* Whatever makes trsync_do_trigger run, in an interrupt or in a command: n is the
\* struct the caller leaves, with the fields that trsync_do_trigger decides on.
LEMMA TriggerInv ==
  ASSUME Inv, NEW o \in Oids, NEW p \in Reasons \cup {NoReason},
         NEW n \in TrsyncRecord,
         ~n.can, n.trigger_reason = Fired(ts[o], p).trigger_reason,
         n.signals = Fired(ts[o], p).signals,
         ts' = [ts EXCEPT ![o] = n], Dispatch(o),
         UNCHANGED <<task, shut, readd>>,
         told' \in {told, [told EXCEPT ![o] = "fired"]},
         told' = told \/ task = Idle
  PROVE  Inv'
<1> USE DEF Inv
<1>1. /\ ts[o] \in TrsyncRecord
      /\ n.signals = IF ts[o].can THEN <<>> ELSE ts[o].signals
      /\ ~ts[o].can => n.trigger_reason = ts[o].trigger_reason
  BY FiredType DEF TypeOK
<1>2. ts'[o] = n /\ \A q \in Oids \ {o} : ts'[q] = ts[q]
  BY DEF TypeOK
<1>3. SignalsExact'
  <2>1. CASE ts[o].can
    BY <2>1, <1>1, <1>2, SignalsEmptied DEF Dispatch, Called
  <2>2. CASE ~ts[o].can
    <3>1. func' = func
      BY <2>2 DEF Dispatch, Called, TypeOK
    <3> QED BY <2>2, <3>1, <1>1, <1>2, SignalsFrame
  <2> QED BY <2>1, <2>2
<1>4. TypeOK'
  <2>1. func' \in [Signals -> BOOLEAN]
    BY DEF Dispatch, TypeOK
  <2>2. wake' \in BOOLEAN
    BY <1>1 DEF Dispatch, TypeOK, TrsyncRecord
  <2>3. told' \in [Oids -> {"nothing", "armed", "fired"}]
    BY DEF TypeOK
  <2> QED BY <2>1, <2>2, <2>3 DEF TypeOK
<1>5. \A q \in Oids : SessionInv(q)'
  BY <1>2 DEF SessionInv, TypeOK
<1>6. ReportInv'
  <2>1. CASE task = Idle
    BY <2>1 DEF ReportInv, Idle
  <2>2. CASE told' = told
    BY <2>2, <1>1, <1>2 DEF ReportInv, TypeOK, Oids
  <2> QED BY <2>1, <2>2
<1> QED BY <1>3, <1>4, <1>5, <1>6 DEF NoTimerTwice

\* command_trsync_trigger
LEMMA HostTriggerInv ==
  ASSUME Inv, NEW o \in Oids, NEW p \in Reasons, command_trsync_trigger(o, p)
  PROVE  Inv'
<1> DEFINE f == Fired(ts[o], p)
           n == [f EXCEPT !.can = FALSE, !.report = FALSE,
                          !.report_time = FALSE, !.expire_time = FALSE]
<1>1. f \in TrsyncRecord
  BY FiredType DEF Inv, TypeOK
<1> HIDE DEF f
<1>2. n \in TrsyncRecord /\ ~n.can /\ n.trigger_reason = f.trigger_reason
      /\ n.signals = f.signals
  BY <1>1 DEF TrsyncRecord
<1> HIDE DEF n
<1>3. /\ ts' = [ts EXCEPT ![o] = n] /\ Dispatch(o)
      /\ UNCHANGED <<task, shut, readd>> /\ task = Idle
      /\ told' \in {told, [told EXCEPT ![o] = "fired"]}
  BY DEF command_trsync_trigger, Command, n, f
<1> QED BY <1>2, <1>3, TriggerInv DEF f

\* trsync_do_trigger called by an endstop.
LEMMA EndstopTriggerInv ==
  ASSUME Inv, NEW o \in Oids, NEW p \in Reasons, EndstopTrigger(o, p)
  PROVE  Inv'
<1> DEFINE n == Fired(ts[o], p)
<1>1. n \in TrsyncRecord /\ ~n.can
  BY FiredType DEF Inv, TypeOK
<1>2. /\ ts' = [ts EXCEPT ![o] = n] /\ Dispatch(o) /\ told' = told
      /\ UNCHANGED <<task, shut, readd>>
  BY DEF EndstopTrigger
<1> HIDE DEF n
<1> QED BY <1>1, <1>2, TriggerInv DEF n

\* trsync_expire_event
LEMMA ExpireInv ==
  ASSUME Inv, NEW o \in Oids, trsync_expire_event(o)
  PROVE  Inv'
<1> DEFINE p == ts[o].expire_reason
           f == Fired(ts[o], p)
           n == [f EXCEPT !.expire_time = FALSE]
<1>1. ts[o] \in TrsyncRecord /\ p \in Reasons \cup {NoReason}
  BY DEF Inv, TypeOK, TrsyncRecord
<1> HIDE DEF p
<1>2. f \in TrsyncRecord /\ ~f.can
  BY <1>1, FiredType
<1> HIDE DEF f
<1>3. n \in TrsyncRecord /\ ~n.can /\ n.trigger_reason = f.trigger_reason
      /\ n.signals = f.signals
  BY <1>2 DEF TrsyncRecord
<1> HIDE DEF n
<1>4. /\ ts' = [ts EXCEPT ![o] = n] /\ Dispatch(o) /\ told' = told
      /\ UNCHANGED <<task, shut, readd>>
  BY DEF trsync_expire_event, n, f, p
<1> QED BY <1>1, <1>3, <1>4, TriggerInv DEF f

\* trsync_report_event and the copy of trsync_task: only the flag TSF_REPORT changes.
LEMMA ReportFlag ==
  ASSUME Inv, NEW o \in Oids, NEW b \in BOOLEAN, ts' = [ts EXCEPT ![o].report = b]
  PROVE  /\ ts' \in [Oids -> TrsyncRecord]
         /\ \A q \in Oids : /\ ts'[q].can = ts[q].can
                             /\ ts'[q].signals = ts[q].signals
                             /\ ts'[q].trigger_reason = ts[q].trigger_reason
BY DEF Inv, TypeOK, TrsyncRecord

\* trsync_report_event
LEMMA ReportEventInv ==
  ASSUME Inv, NEW o \in Oids, trsync_report_event(o)
  PROVE  Inv'
<1> USE DEF Inv, trsync_report_event
<1>1. /\ ts' \in [Oids -> TrsyncRecord]
      /\ \A q \in Oids : /\ ts'[q].can = ts[q].can
                          /\ ts'[q].signals = ts[q].signals
                          /\ ts'[q].trigger_reason = ts[q].trigger_reason
  BY ReportFlag
<1>2. SignalsExact'
  BY <1>1, SignalsFrame
<1>3. TypeOK'
  BY <1>1 DEF TypeOK
<1>4. NoTimerTwice' /\ \A q \in Oids : SessionInv(q)'
  BY <1>1 DEF NoTimerTwice, SessionInv
<1>5. ReportInv'
  BY <1>1 DEF ReportInv, TypeOK, Oids
<1> QED BY <1>2, <1>3, <1>4, <1>5

\* foreach_oid stays among the trsyncs and starts without a report.
LEMMA AdvanceType ==
  ASSUME NEW o \in 0 .. NumTrsync
  PROVE  /\ Advance(o) \in [oid : 0 .. NumTrsync, to_send : SUBSET Report]
         /\ Advance(o).to_send = {}
BY TrsyncAssumption DEF Advance, Idle

\* The steps of trsync_task.
LEMMA TaskInv ==
  ASSUME Inv, Task
  PROVE  Inv'
<1> USE DEF Inv
<1>1. task \in [oid : 0 .. NumTrsync, to_send : SUBSET Report] /\ 0 \in 0 .. NumTrsync
  BY TrsyncAssumption DEF TypeOK
<1>2. CASE TaskCopy
  <2> USE <1>2 DEF TaskCopy
  <2> DEFINE o == task.oid
             p == [can |-> ts[o].can, trigger_reason |-> ts[o].trigger_reason]
  <2>1. o \in Oids
    BY <1>1 DEF Oids
  <2>2. /\ ts' = [ts EXCEPT ![o].report = FALSE]
        /\ task' = [task EXCEPT !.to_send = {p}]
        /\ UNCHANGED <<func, wake, shut, told, readd>>
    OBVIOUS
  <2>3. /\ ts' \in [Oids -> TrsyncRecord]
        /\ \A q \in Oids : /\ ts'[q].can = ts[q].can
                            /\ ts'[q].signals = ts[q].signals
                            /\ ts'[q].trigger_reason = ts[q].trigger_reason
    BY <2>1, <2>2, ReportFlag
  <2>4. SignalsExact'
    BY <2>2, <2>3, SignalsFrame
  <2>5. p \in Report
    BY <2>1 DEF TypeOK, TrsyncRecord, Report
  <2>6. task' \in [oid : 0 .. NumTrsync, to_send : SUBSET Report]
        /\ task'.oid = o /\ task'.to_send = {p}
    <3> HIDE DEF p
    <3> QED BY <1>1, <2>2, <2>5
  <2>7. TypeOK'
    BY <2>2, <2>3, <2>6 DEF TypeOK
  <2>8. NoTimerTwice' /\ \A q \in Oids : SessionInv(q)'
    BY <2>2, <2>3 DEF NoTimerTwice, SessionInv
  <2>9. ReportInv'
    BY <2>1, <2>2, <2>3, <2>6 DEF ReportInv, SessionInv, Oids
  <2> QED BY <2>4, <2>7, <2>8, <2>9
<1>3. CASE TaskSend
  <2>1. PICK p \in task.to_send :
          /\ told' = [told EXCEPT ![task.oid] = Outcome(p)]
          /\ task' = Advance(task.oid)
          /\ UNCHANGED <<ts, func, wake, shut, readd>>
    BY <1>3 DEF TaskSend
  <2>2. task.oid \in Oids /\ p \in Report /\ (~p.can => ~ts[task.oid].can)
    BY <1>1 DEF ReportInv, Oids
  <2>3. Outcome(p) \in {"nothing", "armed", "fired"} /\ (Outcome(p) = "fired" => ~p.can)
    BY <2>2 DEF Outcome, Report
  <2>4. TypeOK' /\ ReportInv'
    BY <1>1, <2>1, <2>3, AdvanceType DEF TypeOK, ReportInv
  <2>5. NoTimerTwice' /\ SignalsExact'
    BY <2>1 DEF NoTimerTwice, SignalsExact, OnSignals
  <2>6. \A q \in Oids : SessionInv(q)'
    BY <2>1, <2>2, <2>3 DEF SessionInv, TypeOK
  <2> QED BY <2>4, <2>5, <2>6
<1>4. CASE TaskWake \/ TaskSkip \/ TaskSendDropped
  <2>1. /\ task' = Advance(0) \/ task' = Advance(task.oid)
        /\ UNCHANGED <<ts, func, shut, told, readd>> /\ wake' \in BOOLEAN
    BY <1>4 DEF TaskWake, TaskSkip, TaskSendDropped, TypeOK
  <2>2. TypeOK' /\ ReportInv'
    BY <1>1, <2>1, AdvanceType DEF TypeOK, ReportInv
  <2>3. NoTimerTwice' /\ SignalsExact'
    BY <2>1 DEF NoTimerTwice, SignalsExact, OnSignals
  <2>4. \A q \in Oids : SessionInv(q)'
    BY <2>1 DEF SessionInv
  <2> QED BY <2>2, <2>3, <2>4
<1> QED BY <1>2, <1>3, <1>4 DEF Task

\* Every step keeps the invariant.
LEMMA NextInv == Inv /\ [Next]_vars => Inv'
<1> SUFFICES ASSUME Inv, [Next]_vars PROVE Inv'
  OBVIOUS
<1>1. ASSUME NEW o \in Oids, NEW ticks \in BOOLEAN, NEW p \in Reasons \cup {NoReason},
             command_trsync_start(o, ticks, p)
      PROVE  Inv'
  BY <1>1, StartInv
<1>2. ASSUME NEW o \in Oids, command_trsync_set_timeout(o)
      PROVE  Inv'
  BY <1>2, TimeoutInv
<1>3. ASSUME NEW o \in Oids, NEW g \in Signals, trsync_add_signal(o, g)
      PROVE  Inv'
  BY <1>3, AddSignalInv
<1>4. ASSUME NEW o \in Oids, NEW p \in Reasons, command_trsync_trigger(o, p)
      PROVE  Inv'
  BY <1>4, HostTriggerInv
<1>5. ASSUME NEW o \in Oids, NEW p \in Reasons, EndstopTrigger(o, p)
      PROVE  Inv'
  BY <1>5, EndstopTriggerInv
<1>6. ASSUME NEW o \in Oids, trsync_expire_event(o)
      PROVE  Inv'
  BY <1>6, ExpireInv
<1>7. ASSUME NEW o \in Oids, trsync_report_event(o)
      PROVE  Inv'
  BY <1>7, ReportEventInv
<1>8. CASE Task
  BY <1>8, TaskInv
<1>9. CASE Shutdown
  BY <1>9, ShutdownInv
<1>10. CASE ClearShutdown
  <2>1. /\ UNCHANGED <<ts, func, wake, task, told, readd>> /\ shut' \in BOOLEAN
    BY <1>10 DEF ClearShutdown
  <2>2. TypeOK'
    BY <2>1 DEF Inv, TypeOK
  <2>3. SignalsExact' /\ NoTimerTwice' /\ ReportInv' /\ \A o \in Oids : SessionInv(o)'
    BY <2>1 DEF Inv, SignalsExact, OnSignals, NoTimerTwice, SessionInv, ReportInv
  <2> QED BY <2>2, <2>3 DEF Inv
<1>11. CASE UNCHANGED vars
  BY <1>11 DEF vars, Inv, TypeOK, SignalsExact, OnSignals, NoTimerTwice,
               SessionInv, ReportInv
<1> QED BY <1>1, <1>2, <1>3, <1>4, <1>5, <1>6, <1>7, <1>8, <1>9, <1>10, <1>11 DEF Next

\* No timer of a trsync runs while the firmware is shut down, so that none of its
\* interrupts fires then: trsync_expire_event does not check.
TimersOff == shut => \A o \in Oids : ~ts[o].expire_time /\ ~ts[o].report_time

\* Only a shutdown sets the flag, and it takes the timers off.
LEMMA TimersOffNext ==
  ASSUME Inv, TimersOff, [Next]_vars
  PROVE  TimersOff'
<1>1. ts \in [Oids -> TrsyncRecord] /\ shut \in BOOLEAN
  BY DEF Inv, TypeOK
<1>2. CASE Shutdown
  <2>1. \A o \in Oids : ts'[o] = trsync_clear(ts[o]) /\ ts[o] \in TrsyncRecord
    BY <1>1, <1>2 DEF Shutdown
  <2>2. \A o \in Oids : ~ts'[o].expire_time /\ ~ts'[o].report_time
    BY <2>1 DEF trsync_clear, TrsyncRecord
  <2> QED BY <2>2 DEF TimersOff
<1>3. CASE ~shut'
  BY <1>3 DEF TimersOff
<1>4. CASE TaskCopy
  <2>1. task.oid \in Oids
    BY <1>4 DEF TaskCopy, Inv, TypeOK, Oids
  <2>2. \A o \in Oids : /\ ts'[o].expire_time = ts[o].expire_time
                        /\ ts'[o].report_time = ts[o].report_time
    BY <1>1, <1>4, <2>1 DEF TaskCopy, TrsyncRecord
  <2> QED BY <1>4, <2>2 DEF TaskCopy, TimersOff
<1>5. CASE UNCHANGED <<ts, shut>>
  BY <1>5 DEF TimersOff
<1>6. ASSUME NEW o \in Oids, trsync_expire_event(o) \/ trsync_report_event(o)
      PROVE  TimersOff'
  BY <1>6 DEF trsync_expire_event, trsync_report_event, TimersOff
<1>7. ASSUME NEW o \in Oids, NEW ticks \in BOOLEAN, NEW p \in Reasons \cup {NoReason},
             command_trsync_start(o, ticks, p)
      PROVE  Shutdown \/ ~shut'
  BY <1>1, <1>7 DEF command_trsync_start, Command
<1>8. ASSUME NEW o \in Oids, command_trsync_set_timeout(o)
      PROVE  Shutdown \/ ~shut'
  BY <1>1, <1>8 DEF command_trsync_set_timeout, Command, vars
<1>9. ASSUME NEW o \in Oids, NEW g \in Signals, trsync_add_signal(o, g)
      PROVE  Shutdown \/ ~shut'
  BY <1>1, <1>9 DEF trsync_add_signal, Command
<1>10. ASSUME NEW o \in Oids, NEW p \in Reasons,
              command_trsync_trigger(o, p) \/ EndstopTrigger(o, p)
       PROVE  ~shut'
  BY <1>1, <1>10 DEF command_trsync_trigger, EndstopTrigger, Command
<1>11. Task => TaskCopy \/ UNCHANGED <<ts, shut>>
  BY DEF Task, TaskWake, TaskSkip, TaskSend, TaskSendDropped
<1>12. ClearShutdown => ~shut'
  BY DEF ClearShutdown
<1> QED BY <1>2, <1>3, <1>4, <1>5, <1>6, <1>7, <1>8, <1>9, <1>10, <1>11, <1>12
     DEF Next, vars

-----------------------------------------------------------------------------
\* The results.

\* Every reachable state satisfies the invariant.
THEOREM Invariance == Spec => []Inv
BY InitInv, NextInv, PTL DEF Spec

\* The structs, the task and what the host was told keep their types.
THEOREM TypeCorrect == Spec => []TypeOK
BY Invariance, PTL DEF Inv

\* However commands, interrupts and shutdowns interleave, a signal is on the list
\* of one trsync in one place exactly while its func is set, and no timer is added
\* while it is on the timer list.
THEOREM ListsStayIntact == Spec => []ListsIntact
<1>1. Inv => ListsIntact
  BY DEF Inv, ListsIntact
<1> QED BY <1>1, Invariance, PTL

\* A step of any kind gives a session that has a reason no other.
LEMMA StepKeepsReason ==
  ASSUME Inv, [Next]_vars, NEW o \in Oids, ts[o].trigger_reason # NoReason
  PROVE  ts'[o].trigger_reason \in {ts[o].trigger_reason, NoReason}
<1> DEFINE Goal == ts'[o].trigger_reason \in {ts[o].trigger_reason, NoReason}
<1>1. /\ ts \in [Oids -> TrsyncRecord] /\ ~ts[o].can
  BY DEF Inv, TypeOK, SessionInv
<1>2. CASE Shutdown
  BY <1>2, <1>1, ClearType DEF Shutdown
<1>3. ASSUME NEW q \in Oids, NEW ticks \in BOOLEAN, NEW p \in Reasons \cup {NoReason},
             command_trsync_start(q, ticks, p)
      PROVE  Goal
  <2>1. CASE Shutdown
    BY <1>2, <2>1
  <2>2. CASE ~Shutdown
    <3> DEFINE c == trsync_clear(ts[q])
               n == [c EXCEPT !.can = TRUE, !.report_time = c.report_time \/ ticks,
                              !.expire_reason = p]
    <3>1. ts' = [ts EXCEPT ![q] = n]
      BY <1>3, <2>2 DEF command_trsync_start
    <3>2. c \in TrsyncRecord /\ c.trigger_reason = NoReason
      BY <1>1, ClearType
    <3> HIDE DEF c
    <3>3. n.trigger_reason = NoReason
      BY <3>2 DEF TrsyncRecord
    <3> HIDE DEF n
    <3> QED BY <1>1, <3>1, <3>3
  <2> QED BY <2>1, <2>2
<1>4. ASSUME NEW q \in Oids, command_trsync_set_timeout(q)
      PROVE  Goal
  <2>1. CASE ts' = [ts EXCEPT ![q] = [CancelTimeout(ts[q]) EXCEPT !.expire_time = TRUE]]
    BY <2>1, <1>1 DEF CancelTimeout, TrsyncRecord
  <2>2. CASE ts' = ts
    BY <2>2
  <2> QED BY <1>2, <1>4, <2>1, <2>2 DEF command_trsync_set_timeout, vars
<1>5. ASSUME NEW q \in Oids, NEW g \in Signals, trsync_add_signal(q, g)
      PROVE  Goal
  <2>1. CASE ts' = [ts EXCEPT ![q].signals = <<g>> \o @]
    BY <2>1, <1>1 DEF TrsyncRecord
  <2> QED BY <1>2, <1>5, <2>1 DEF trsync_add_signal
<1>6. ASSUME NEW q \in Oids, NEW p \in Reasons \cup {NoReason}, NEW n,
             ts' = [ts EXCEPT ![q] = n],
             n.trigger_reason = Fired(ts[q], p).trigger_reason
      PROVE  Goal
  <2>1. CASE q = o
    BY <2>1, <1>1, <1>6, FiredType
  <2>2. CASE q # o
    BY <2>2, <1>1, <1>6
  <2> QED BY <2>1, <2>2
<1>7. ASSUME NEW q \in Oids, NEW p \in Reasons, command_trsync_trigger(q, p)
      PROVE  Goal
  <2> DEFINE f == Fired(ts[q], p)
             n == [f EXCEPT !.can = FALSE, !.report = FALSE,
                            !.report_time = FALSE, !.expire_time = FALSE]
  <2>1. f \in TrsyncRecord
    BY <1>1, FiredType
  <2> HIDE DEF f
  <2>2. n.trigger_reason = f.trigger_reason
    BY <2>1 DEF TrsyncRecord
  <2> HIDE DEF n
  <2>3. ts' = [ts EXCEPT ![q] = n]
    BY <1>7 DEF command_trsync_trigger, n, f
  <2> QED BY <1>6, <2>2, <2>3 DEF f
<1>8. ASSUME NEW q \in Oids, NEW p \in Reasons, EndstopTrigger(q, p)
      PROVE  Goal
  BY <1>6, <1>8 DEF EndstopTrigger
<1>9. ASSUME NEW q \in Oids, trsync_expire_event(q)
      PROVE  Goal
  <2> DEFINE p == ts[q].expire_reason
             f == Fired(ts[q], p)
             n == [f EXCEPT !.expire_time = FALSE]
  <2>1. p \in Reasons \cup {NoReason}
    BY <1>1 DEF TrsyncRecord
  <2>2. ts' = [ts EXCEPT ![q] = n]
    BY <1>9 DEF trsync_expire_event
  <2> HIDE DEF p
  <2>3. f \in TrsyncRecord
    BY <1>1, <2>1, FiredType
  <2> HIDE DEF f
  <2>4. n.trigger_reason = f.trigger_reason
    BY <2>3 DEF TrsyncRecord
  <2> HIDE DEF n
  <2> QED BY <1>6, <2>1, <2>2, <2>4 DEF f
<1>10. ASSUME NEW q \in Oids, trsync_report_event(q)
       PROVE  Goal
  BY <1>10, ReportFlag DEF trsync_report_event
<1>11. CASE Task
  <2>1. CASE TaskCopy
    <3>1. task.oid \in Oids
      BY <2>1 DEF TaskCopy, Inv, TypeOK, Oids
    <3> QED BY <2>1, <3>1, ReportFlag DEF TaskCopy
  <2>2. CASE ts' = ts
    BY <2>2
  <2> QED BY <1>11, <2>1, <2>2 DEF Task, TaskWake, TaskSkip, TaskSend, TaskSendDropped
<1>12. CASE ClearShutdown \/ UNCHANGED vars
  BY <1>12 DEF ClearShutdown, vars
<1> QED BY <1>2, <1>3, <1>4, <1>5, <1>7, <1>8, <1>9, <1>10, <1>11, <1>12 DEF Next

\* The reason of a session is never replaced, however an endstop, the timeout and
\* the host's trsync_trigger race.
THEOREM FirstReasonDecides == Spec => FirstReasonWins
<1>1. Inv /\ [Next]_vars => [\A o \in Oids : ts[o].trigger_reason # NoReason =>
        ts'[o].trigger_reason \in {ts[o].trigger_reason, NoReason}]_vars
  BY StepKeepsReason
<1> QED BY <1>1, Invariance, PTL DEF Spec, FirstReasonWins

\* No step tells the host that a session it knows to have fired is still armed.
LEMMA StepKeepsTold ==
  ASSUME Inv, [Next]_vars, NEW o \in Oids, told[o] = "fired"
  PROVE  told'[o] # "armed"
<1>1. told \in [Oids -> {"nothing", "armed", "fired"}]
  BY DEF Inv, TypeOK
<1>2. CASE Shutdown
  BY <1>2 DEF Shutdown
<1>3. CASE TaskSend
  <2>1. PICK p \in task.to_send : told' = [told EXCEPT ![task.oid] = Outcome(p)]
    BY <1>3 DEF TaskSend
  <2>2. task.oid = o => Outcome(p) = "fired"
    BY DEF Inv, ReportInv, Outcome
  <2> QED BY <1>1, <2>1, <2>2
<1>4. CASE \E q \in Oids, p \in Reasons : command_trsync_trigger(q, p)
  BY <1>1, <1>4 DEF command_trsync_trigger
<1>5. CASE \E q \in Oids, ticks \in BOOLEAN, p \in Reasons \cup {NoReason} :
             command_trsync_start(q, ticks, p)
  BY <1>1, <1>2, <1>5 DEF command_trsync_start
<1>6. CASE told' = told
  BY <1>6
<1> QED BY <1>2, <1>3, <1>4, <1>5, <1>6
     DEF Next, vars, Task, TaskWake, TaskSkip, TaskCopy, TaskSendDropped, ClearShutdown,
         command_trsync_set_timeout, trsync_add_signal, EndstopTrigger,
         trsync_expire_event, trsync_report_event

\* A report that says fired is true, reason included, when it is sent, and the host
\* is never told the contrary afterwards.
THEOREM ReportsAreTrue == Spec => ReportTrue
<1>1. Inv => \A p \in task.to_send :
               ~p.can => /\ ~ts[task.oid].can
                         /\ p.trigger_reason = ts[task.oid].trigger_reason
  BY DEF Inv, ReportInv
<1>2. Inv /\ [Next]_vars => [\A o \in Oids : told[o] = "fired" => told'[o] # "armed"]_vars
  BY StepKeepsTold
<1> QED BY <1>1, <1>2, Invariance, PTL DEF Spec, ReportTrue
=============================================================================
