------------------------------ MODULE Buttons ------------------------------
(***************************************************************************)
(* Buttons: the firmware (klipper/src/buttons.c) samples the pins,         *)
(* debounces them and reports every change; a report stays in a short      *)
(* buffer and is sent again and again until the host                       *)
(* (klippy/extras/buttons.py) acknowledges it.  Reports may be dropped for *)
(* want of room; commands are delivered in order.  ack_count, a byte,      *)
(* tells the host which reports of a message it has seen already.  A host  *)
(* that restarts finds the firmware configured and still sending what the  *)
(* last one did not acknowledge.                                           *)
(***************************************************************************)
EXTENDS Tasks, Integers, Sequences

CONSTANTS
  Pins,         \* the buttons of the one configured oid
  Invert,       \* MCU_buttons.invert: the pins that are high when not pressed
  MaxReports,   \* sizeof(b->reports)
  Byte,         \* 256: the values of an uint8_t
  Retransmit,   \* retransmit_count
  MaxUp,        \* bound: messages on their way to the host
  MaxHosts      \* bound: how often the host starts

ASSUME ButtonsAssumption ==
  /\ Invert \subseteq Pins
  /\ MaxReports \in Nat \ {0} /\ Retransmit \in Nat /\ MaxUp \in Nat /\ MaxHosts \in Nat
  /\ Byte \in Nat /\ Byte > 2 * Retransmit /\ Byte >= 2 * MaxReports

VARIABLES
  btn,      \* struct buttons
  sending,  \* buttons_task: report_count as copied with interrupts off
  up,       \* buttons_state messages on their way
  down,     \* commands on their way: the count of a buttons_ack, or Query
  hbtn,     \* the host's MCU_buttons: ack_count, last_button
  made,     \* auxiliary: how many reports were made, modulo Byte
  missed,   \* auxiliary: the last change found the buffer full
  hosts,    \* auxiliary: how often the host has started
  session,  \* auxiliary: what has become of this host's buttons_query
  early     \* auxiliary: this host took reports older than its query for new

btnvars == <<btn, sending, up, down, hbtn, made, missed, hosts, session, early>>

Query == 0
BF_PENDING == Byte - 1
BF_ACKED == Byte - 2
\* state & BF_NO_RETRANSMIT, the top bit of the byte
NoRetransmit(s) == 2 * s >= Byte

\* A report with its number, which only the properties read.
ReportRecord == [n : 0 .. Byte - 1, pressed : SUBSET Pins]

ButtonsTypeOK ==
  /\ btn \in [ time : BOOLEAN, pressed : SUBSET Pins, last_pressed : SUBSET Pins,
               reports : UNION {[1 .. k -> ReportRecord] : k \in 0 .. MaxReports},
               ack_count : 0 .. Byte - 1, retransmit_state : 0 .. Byte - 1 ]
  /\ sending \in 0 .. MaxReports
  /\ Len(up) <= MaxUp
  /\ hbtn \in [ack_count : 0 .. Byte - 1, last_button : SUBSET Pins]
  /\ made \in 0 .. Byte - 1 /\ missed \in BOOLEAN
  /\ hosts \in 0 .. MaxHosts
  /\ session \in {"none", "config", "asked", "queried"} /\ early \in BOOLEAN

ButtonsInit ==
  /\ btn = [ time |-> FALSE, pressed |-> {}, last_pressed |-> {}, reports |-> <<>>,
             ack_count |-> 0, retransmit_state |-> 0 ]
  /\ sending = 0 /\ up = <<>> /\ down = <<>>
  /\ hbtn = [ack_count |-> 0, last_button |-> Invert]
  /\ made = 0 /\ missed = FALSE /\ hosts = 0 /\ session = "none" /\ early = FALSE

-----------------------------------------------------------------------------
\* MCU_buttons.build_config of a new host: handle_buttons_state is registered; what
\* the last one had on its way down is lost with its connection.
build_config ==
  /\ ~shut /\ hosts < MaxHosts
  /\ hosts' = hosts + 1
  /\ hbtn' = [ack_count |-> 0, last_button |-> Invert]
  /\ down' = <<>> /\ session' = "config" /\ early' = FALSE
  /\ up' = [i \in DOMAIN up |-> [up[i] EXCEPT !.fresh = FALSE]]
  /\ UNCHANGED <<btn, sending, made, missed, wake, shut>>

\* _send_config goes on: the init commands are sent when all is built.
SendQuery ==
  /\ session = "config"
  /\ session' = "asked"
  /\ down' = Append(down, Query)
  /\ UNCHANGED <<btn, sending, up, hbtn, made, missed, early, hosts, wake, shut>>

\* Commands run between two tasks.
Command == ~shut /\ sending = 0

command_buttons_query ==
  /\ Command /\ down # <<>> /\ Head(down) = Query
  /\ btn' = [ time |-> TRUE, pressed |-> Invert, last_pressed |-> Invert,
              reports |-> <<>>, ack_count |-> 0, retransmit_state |-> BF_ACKED ]
  /\ down' = Tail(down) /\ session' = "queried"
  /\ made' = 0 /\ missed' = FALSE
  /\ UNCHANGED <<sending, up, hbtn, early, hosts, wake, shut>>

\* There is no shutdown handler: the timer is gone from the list, no more.
ButtonsShutdown ==
  /\ btn' = [btn EXCEPT !.time = FALSE]
  /\ sending' = 0
  /\ UNCHANGED <<up, down, hbtn, made, missed, hosts, session, early>>

SymDiff(S, T) == (S \ T) \cup (T \ S)

\* ~(status ^ b->last_pressed)
Debounced(status, last) == Pins \ SymDiff(status, last)

\* Faulty: the timeout stops one short of BF_PENDING.
CountDownStops(s) == IF NoRetransmit(s) \/ s = 0 THEN s ELSE s - 1

\* The retransmit timeout, counted down through zero to BF_PENDING.
CountDown(s) == IF NoRetransmit(s) THEN s ELSE (s - 1) % Byte

\* buttons_event with the pins reading status.
buttons_event(status) ==
  LET debounced == Debounced(status, btn.last_pressed)
      changed == SymDiff(status, btn.pressed) \cap debounced # {}
      pressed == IF changed THEN (btn.pressed \ debounced) \cup (status \cap debounced)
                            ELSE btn.pressed
      room == changed /\ Len(btn.reports) < MaxReports
      before == IF room THEN BF_PENDING ELSE btn.retransmit_state
  IN  /\ btn.time
      /\ btn' = [btn EXCEPT !.pressed = pressed, !.last_pressed = status,
                   !.retransmit_state = CountDown(before),
                   !.reports = IF room THEN Append(@, [n |-> made, pressed |-> pressed])
                                       ELSE @]
      /\ IF room \/ NoRetransmit(CountDown(before)) # NoRetransmit(before)
         THEN sched_wake_task ELSE UNCHANGED wake
      /\ made' = IF room THEN (made + 1) % Byte ELSE made
      /\ missed' = IF changed THEN ~room ELSE missed
      /\ UNCHANGED <<sending, up, down, hbtn, hosts, session, early, shut>>

\* What stays in the buffer: everything behind the count acknowledged reports.
Unacked(count) == SubSeq(btn.reports, count + 1, Len(btn.reports))

command_buttons_ack ==
  /\ Command /\ down # <<>> /\ Head(down) # Query
  /\ LET count == Head(down)
     IN  btn' = [btn EXCEPT !.ack_count = (@ + count) % Byte,
                   !.reports = Unacked(count),
                   !.retransmit_state =
                      IF count >= Len(btn.reports) THEN BF_ACKED ELSE @]
  /\ down' = Tail(down)
  /\ UNCHANGED <<sending, up, hbtn, made, missed, session, early, hosts, wake, shut>>

\* buttons_task, to the end of the part with interrupts off.
ButtonsTask ==
  /\ sending = 0 /\ sched_check_wake
  /\ IF btn.retransmit_state = BF_PENDING /\ btn.reports # <<>>
     THEN /\ btn' = [btn EXCEPT !.retransmit_state = Retransmit]
          /\ sending' = Len(btn.reports)
     ELSE UNCHANGED <<btn, sending>>
  /\ UNCHANGED <<up, down, hbtn, made, missed, hosts, session, early, shut>>

\* Its sendf.
ButtonsSend ==
  /\ sending > 0 /\ Len(up) < MaxUp
  /\ up' = Append(up, [ack_count |-> btn.ack_count, fresh |-> session = "queried",
                       state |-> SubSeq(btn.reports, 1, sending)])
  /\ sending' = 0
  /\ UNCHANGED <<btn, down, hbtn, made, missed, hosts, session, early, wake, shut>>

\* There is no room for the message, or it is damaged on the line.
ButtonsSendDropped ==
  /\ sending > 0
  /\ sending' = 0
  /\ UNCHANGED <<btn, up, down, hbtn, made, missed, hosts, session, early, wake, shut>>

-----------------------------------------------------------------------------
\* Faulty: ack_count is not expanded, every report of the message is new.
NewCountAll(m) == Len(m.state)

\* handle_buttons_state: ack_count expanded from a byte relative to the host's own.
NewCount(m) ==
  LET diff == (m.ack_count - hbtn.ack_count) % Byte
  IN  (IF 2 * diff >= Byte THEN diff - Byte ELSE diff) + Len(m.state)

\* buttons[-new_count:]
NewButtons(m) ==
  IF NewCount(m) <= 0 THEN <<>>
  ELSE SubSeq(m.state, IF NewCount(m) >= Len(m.state) THEN 1
                       ELSE Len(m.state) - NewCount(m) + 1, Len(m.state))

handle_buttons_state ==
  /\ up # <<>>
  /\ LET m == Head(up)
         new == NewButtons(m)
     IN  IF NewCount(m) <= 0 THEN UNCHANGED <<down, hbtn, early>>
         ELSE /\ down' = Append(down, NewCount(m))
              /\ hbtn' = [ ack_count |-> (hbtn.ack_count + NewCount(m)) % Byte,
                           last_button |-> new[Len(new)].pressed ]
              /\ early' = (early \/ ~m.fresh)
  /\ up' = Tail(up)
  /\ UNCHANGED <<btn, sending, made, missed, session, hosts, wake, shut>>

ButtonsEvent == \E S \in SUBSET Pins : buttons_event(S)

ButtonsNext ==
  \/ build_config \/ SendQuery
  \/ command_buttons_query \/ command_buttons_ack
  \/ ButtonsEvent
  \/ ButtonsTask \/ ButtonsSend \/ ButtonsSendDropped
  \/ handle_buttons_state

\* A shutdown from anywhere else, and command_clear_shutdown between two tasks.
ButtonsHalt == sched_shutdown /\ ButtonsShutdown
ButtonsClear == sched_clear_shutdown /\ sending = 0 /\ UNCHANGED <<wake, btnvars>>

ButtonsSpec ==
  /\ TasksInit /\ ButtonsInit
  /\ [][ButtonsNext \/ ButtonsHalt \/ ButtonsClear]_<<wake, shut, btnvars>>

\* SysTick runs the timer, the main loop runs the task and the commands, the host
\* reads and acknowledges, and not every message is lost.
ButtonsFairness ==
  /\ WF_btnvars(ButtonsEvent)
  /\ WF_<<wake, btnvars>>(ButtonsTask)
  /\ SF_btnvars(command_buttons_ack)
  /\ SF_btnvars(ButtonsSend)
  /\ WF_btnvars(ButtonsSend \/ ButtonsSendDropped)
  /\ WF_btnvars(handle_buttons_state)

-----------------------------------------------------------------------------
\* What the host makes of a message is exactly the reports it has not seen, in
\* their order, however often and with whatever old ack_count they are sent; and
\* when all reports are acknowledged it knows the state of the buttons, unless
\* the last change found the buffer full.  A host that took a report made before
\* its own buttons_query for a new one has lost count, and is not spoken of.
ButtonsHeard ==
  (btn.time /\ session = "queried" /\ ~early) =>
    /\ (up # <<>> /\ up[1].fresh) =>
         LET new == NewButtons(up[1])
         IN  \A j \in 1 .. Len(new) : new[j].n = (hbtn.ack_count + j - 1) % Byte
    /\ (btn.reports = <<>> /\ ~missed) => hbtn.last_button = btn.pressed

\* A report that was made is acknowledged in the end, though messages are lost:
\* no path of the retransmit state leaves a report behind.
ReportsGetThrough ==
  \A k \in 0 .. Byte - 1 :
    LET Waiting == /\ btn.time /\ session = "queried" /\ ~early
                   /\ \E i \in 1 .. Len(btn.reports) : btn.reports[i].n = k
    IN  Waiting ~> ~Waiting
=============================================================================
