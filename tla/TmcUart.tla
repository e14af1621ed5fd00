------------------------------ MODULE TmcUart ------------------------------
(***************************************************************************)
(* The bit-banged UART of the TMC stepper drivers (klipper/src/tmcuart.c)  *)
(* and the host's use of it to write registers (klippy/extras/tmc_uart.py  *)
(* over RetryAsyncCommand of klippy/mcu.py).  A request is sent bit by bit *)
(* from a timer; a request that comes while one is under way is dropped.   *)
(* The driver chip counts the writes it takes (IFCNT), and the host reads  *)
(* the count to learn whether its write got through.  Responses may be     *)
(* lost or late, and the host then sends the request again.                *)
(***************************************************************************)
EXTENDS Tasks, Integers, Sequences

CONSTANTS
  Count,     \* 256: the values of IFCNT
  Calls,     \* bound: numbers of set_register calls, used in turn
  Tries,     \* range(5) of set_register and of _do_get_register
  Resends,   \* how often RetryAsyncCommand sends again before it gives up
  MaxTmcUp   \* bound: messages on their way to the host

ASSUME TmcAssumption ==
  /\ \A n \in {Count, Calls, Tries, Resends, MaxTmcUp} : n \in Nat \ {0}
  /\ Count > 1

VARIABLES
  tmc,     \* struct tmcuart_s
  wire,    \* the line as the chip has seen it, bit by bit
  chip,    \* the driver chip: IFCNT, and the call of the last write it took
  tdown,   \* requests on their way to the board
  tup,     \* messages on their way to the host
  reg      \* the host: set_register, and the RetryAsyncCommand it waits for

tmcvars == <<tmc, wire, chip, tdown, tup, reg>>

NoValue == -1
Ack == -2
Garbled == -3

\* A frame on the wire: the sync nibble with its start bit, and a few bits more.
Frame(kind) == <<0, 1, 0, 1, 0, 1>> \o
               (IF kind = "read" THEN <<1, 0, 1>> ELSE <<0, 0, 1, 1>>)

Request(kind, call, first) == [kind |-> kind, call |-> call, first |-> first]

TmcTypeOK ==
  /\ tmc \in [ timer : BOOLEAN, func : {"sync", "send", "finish", "read"},
               active : BOOLEAN, report : BOOLEAN, line : {0, 1}, pos : 0 .. 10,
               kind : {"read", "write"}, call : 0 .. Calls - 1,
               data : {NoValue, Garbled} \cup 0 .. Count - 1 ]
  /\ chip \in [ifcnt : 0 .. Count - 1, last : 0 .. Calls - 1]
  /\ reg.op \in {"idle", "first", "write", "check"}
  /\ Len(wire) <= 10

TmcInit ==
  /\ tmc = [ timer |-> FALSE, func |-> "sync", active |-> FALSE, report |-> FALSE,
             line |-> 1, pos |-> 0, kind |-> "read", call |-> 0, data |-> NoValue ]
  /\ wire = <<>> /\ tdown = <<>> /\ tup = <<>>
  /\ chip = [ifcnt |-> 0, last |-> 0]
  /\ reg = [ op |-> "idle", call |-> 0, ifcnt |-> NoValue, old |-> 0, tries |-> 0,
             reads |-> 0, acked |-> FALSE, left |-> 0, ok |-> FALSE, lost |-> FALSE ]

-----------------------------------------------------------------------------
(* The board. *)

\* command_tmcuart_send; the acknowledgement of the first of the requests, which the
\* host waits for, goes back behind it.  While the board is shut down command_dispatch
\* passes over the request.  The host's frames always fit, so the shutdown for "data too
\* large" does not happen.
command_tmcuart_send ==
  LET c == Head(tdown)
  IN  /\ tdown # <<>>
      /\ c.first => Len(tup) < MaxTmcUp
      /\ tdown' = Tail(tdown)
      /\ tup' = IF c.first THEN Append(tup, Ack) ELSE tup
      /\ IF shut \/ tmc.active THEN UNCHANGED <<tmc, wire>>
         ELSE /\ tmc' = [tmc EXCEPT !.kind = c.kind, !.call = c.call, !.pos = 0,
                           !.active = TRUE, !.report = FALSE, !.func = "sync",
                           !.timer = TRUE, !.data = NoValue]
              /\ wire' = <<>>
      /\ UNCHANGED <<chip, reg, wake, shut>>

Bit(pos) == Frame(tmc.kind)[pos + 1]
WriteCount == Len(Frame(tmc.kind))
Held(level, n) == [i \in 1 .. n |-> level]

\* Faulty: the sync nibble is one toggle longer.
SyncDoneLate(pos) == pos >= 6

SyncDone(pos) == pos >= 5

tmcuart_send_sync_event ==
  LET line == 1 - tmc.line
  IN  /\ tmc.timer /\ tmc.func = "sync"
      /\ tmc' = [tmc EXCEPT !.line = line, !.pos = @ + 1,
                   !.func = IF SyncDone(tmc.pos + 1) THEN "send" ELSE "sync"]
      /\ wire' = wire \o Held(line, 1)
      /\ UNCHANGED <<chip, tdown, tup, reg, wake, shut>>

\* The line holds its level up to the next bit that differs.
tmcuart_send_event ==
  LET line == 1 - tmc.line
      next == CHOOSE p \in tmc.pos + 1 .. WriteCount :
                /\ p = WriteCount \/ Bit(p) # line
                /\ \A q \in tmc.pos + 1 .. p - 1 : Bit(q) = line
  IN  /\ tmc.timer /\ tmc.func = "send"
      /\ tmc' = [tmc EXCEPT !.line = line,
                   !.pos = IF next = WriteCount THEN @ ELSE next,
                   !.func = IF next = WriteCount THEN "finish" ELSE "send"]
      /\ wire' = wire \o Held(line, next - tmc.pos)
      /\ UNCHANGED <<chip, tdown, tup, reg, wake, shut>>

\* tmcuart_reset_line
ResetLine(t) == [t EXCEPT !.line = 1, !.active = FALSE, !.report = FALSE]

tmcuart_finalize(data) ==
  /\ tmc' = [ResetLine(tmc) EXCEPT !.report = TRUE, !.timer = FALSE, !.data = data]
  /\ sched_wake_task

\* tmcuart_send_finish_event; the chip takes a write it could read, or finds its
\* checksum wrong.
tmcuart_send_finish_event ==
  /\ tmc.timer /\ tmc.func = "finish"
  /\ IF tmc.kind = "write"
     THEN /\ tmcuart_finalize(NoValue)
          /\ chip' \in {chip} \cup
               {c \in {[ifcnt |-> (chip.ifcnt + 1) % Count, last |-> tmc.call]} :
                  wire = Frame("write")}
     ELSE /\ tmc' = [tmc EXCEPT !.func = "read"]
          /\ UNCHANGED <<chip, wake>>
  /\ UNCHANGED <<wire, tdown, tup, reg, shut>>

\* tmcuart_read_sync_event and tmcuart_read_event to their end: the chip's answer, its
\* bits disturbed, or no start bit in time.
tmcuart_read_event ==
  /\ tmc.timer /\ tmc.func = "read"
  /\ \E data \in {Garbled, NoValue} \cup (IF wire = Frame("read") THEN {chip.ifcnt} ELSE {}) :
       tmcuart_finalize(data)
  /\ UNCHANGED <<wire, chip, tdown, tup, reg, shut>>

\* The response may be lost.
tmcuart_task ==
  /\ ~shut /\ sched_check_wake
  /\ tmc' = [tmc EXCEPT !.report = FALSE]
  /\ \/ tup' = tup
     \/ tmc.report /\ Len(tup) < MaxTmcUp /\ tup' = Append(tup, tmc.data)
  /\ UNCHANGED <<wire, chip, tdown, reg, shut>>

\* The timer is gone from the list.
tmcuart_shutdown ==
  /\ tmc' = [ResetLine(tmc) EXCEPT !.timer = FALSE]
  /\ UNCHANGED <<wire, chip, tdown, tup, reg>>

-----------------------------------------------------------------------------
(* The host. *)

\* A new RetryAsyncCommand for the next request of set_register.
Ask(r, op) == [r EXCEPT !.op = op, !.acked = FALSE, !.left = Resends]
Kind(op) == IF op = "write" THEN "write" ELSE "read"
SendFirst(r) == tdown' = Append(tdown, Request(Kind(r.op), r.call, TRUE))

Step(r) ==
  /\ reg' = r
  /\ IF r.op = "idle" THEN UNCHANGED tdown ELSE SendFirst(r)

\* A command error leaves set_register, and self.ifcnt as it was.
GiveUp(r) == [r EXCEPT !.op = "idle", !.lost = TRUE]

set_register ==
  LET r == [reg EXCEPT !.call = (@ + 1) % Calls, !.tries = Tries, !.reads = Tries,
                       !.ok = FALSE, !.old = IF reg.ifcnt = NoValue THEN 0 ELSE reg.ifcnt]
  IN  /\ reg.op = "idle" /\ ~shut
      /\ Step(Ask(r, IF reg.ifcnt = NoValue THEN "first" ELSE "write"))
      /\ UNCHANGED <<tmc, wire, chip, tup, wake, shut>>

\* get_response: no answer within RETRY_TIME.
Resend ==
  /\ reg.op # "idle" /\ reg.acked /\ reg.left > 0
  /\ reg' = [reg EXCEPT !.left = @ - 1]
  /\ tdown' = Append(tdown, Request(Kind(reg.op), reg.call, FALSE))
  /\ UNCHANGED <<tmc, wire, chip, tup, wake, shut>>

ResponseTimeout ==
  /\ reg.op # "idle" /\ reg.acked /\ reg.left = 0
  /\ reg' = GiveUp(reg)
  /\ UNCHANGED <<tmc, wire, chip, tdown, tup, wake, shut>>

\* Faulty: the answer to the write is the proof of it.
CountAny(old, ifcnt) == TRUE

\* self.ifcnt == (ifcnt + 1) & 0xff
CountedOne(old, ifcnt) == ifcnt = (old + 1) % Count

\* What set_register does with the value of IFCNT.
GotCount(value) ==
  LET r == [reg EXCEPT !.ifcnt = value]
  IN  IF reg.op = "first" THEN Ask([r EXCEPT !.old = value], "write")
      ELSE IF CountedOne(reg.old, value) THEN [r EXCEPT !.op = "idle", !.ok = TRUE]
      ELSE IF reg.tries = 1 THEN [r EXCEPT !.op = "idle"]
      ELSE Ask([r EXCEPT !.tries = @ - 1, !.old = value], "write")

\* _decode_read found no valid frame.
BadRead ==
  IF reg.reads = 1 THEN GiveUp(reg)
                   ELSE Ask([reg EXCEPT !.reads = @ - 1], reg.op)

\* handle_callback: need_response, and #sent_time not before min_query_time, which is
\* the creation of the request up to its acknowledgement and 0 after it.  The model
\* takes no response before the acknowledgement; the code takes one there when a block
\* sent since the creation was acknowledged before it, and goes on with it only when
\* raw_send_wait_ack returns.
Takes == reg.op # "idle" /\ reg.acked

handle_callback ==
  LET m == Head(tup)
  IN  /\ tup # <<>>
      /\ tup' = Tail(tup)
      /\ IF m = Ack THEN reg' = [reg EXCEPT !.acked = reg.op # "idle"] /\ UNCHANGED tdown
         ELSE IF ~Takes THEN UNCHANGED <<reg, tdown>>
         ELSE IF reg.op = "write" THEN Step(Ask([reg EXCEPT !.reads = Tries], "check"))
         ELSE IF m >= 0 THEN Step(GotCount(m))
         ELSE Step(BadRead)
      /\ UNCHANGED <<tmc, wire, chip, wake, shut>>

TmcNext ==
  \/ command_tmcuart_send \/ tmcuart_send_sync_event \/ tmcuart_send_event
  \/ tmcuart_send_finish_event \/ tmcuart_read_event \/ tmcuart_task
  \/ set_register \/ Resend \/ ResponseTimeout \/ handle_callback

-----------------------------------------------------------------------------
\* When set_register returns, the chip has taken this very write, and none since,
\* though responses were lost, requests were sent again, dropped while the UART was
\* busy, and late responses taken for the answers to other requests.  After a call
\* that gave up the host's count may be wrong, and is not spoken of.
WrittenIsTrue == (reg.ok /\ ~reg.lost) => chip.last = reg.call

\* What is on the line is the request, bit for bit, and between requests the line is
\* high, after a shutdown in the middle of one too.
LineIsFrame ==
  /\ ~tmc.active => tmc.line = 1
  /\ tmc.active => wire = SubSeq(Frame(tmc.kind), 1, Len(wire))
=============================================================================
