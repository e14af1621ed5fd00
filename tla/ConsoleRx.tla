----------------------------- MODULE ConsoleRx -----------------------------
(***************************************************************************)
(* The receive half of the console (klipper/src/generic/serial_irq.c): the *)
(* UART interrupt appends bytes to receive_buf; console_task hands the     *)
(* front of it to command_find_block and then moves the rest to the front, *)
(* with interrupts on, starting again when a byte came in meanwhile.       *)
(* receive_pos has 16 bits, and console_task and console_pop_input read    *)
(* its low byte (readb).  A shutdown leaves any of this by longjmp, the    *)
(* memmove included, and enters run_tasks anew.                            *)
(***************************************************************************)
EXTENDS ConsoleBytes

CONSTANTS
  RxSize,      \* RX_BUFFER_SIZE
  Byte,        \* 256: readb reads modulo Byte
  MaxMsg,      \* MESSAGE_MAX
  Window       \* assumed: the host never lets more bytes wait for an answer

ASSUME ConsoleRxAssumption ==
  /\ MaxMsg \in Nat \ {0} /\ Byte \in Nat /\ Byte > MaxMsg
  /\ RxSize \in Nat /\ RxSize >= MaxMsg
  /\ Window \in Nat \ {0} /\ Mod \in Nat /\ Mod > RxSize

VARIABLES
  receive_buf,   \* [0 .. RxSize - 1 -> [num, sync]]
  receive_pos,
  woken,         \* tasks_status = TS_REQUESTED
  rx_pc,            \* "sleep", "find", or a step of console_pop_input
  rpos, len, needcopy, copied,   \* local variables
  wild,          \* memmove was called with a length below zero
  stored,        \* auxiliary: number of the next byte to be stored
  first,         \* auxiliary: number of the first byte not removed
  seen,          \* auxiliary: how much of the buffer the parser has looked at
  torn,          \* auxiliary: how far a pop that a shutdown cut short had moved bytes
  cut           \* auxiliary: a shutdown left the current round of the loop

rxvars == <<receive_buf, receive_pos, woken, rx_pc, rpos, len, needcopy, copied, wild,
          stored, first, seen, torn, cut>>

Slots == [num : 0 .. Mod - 1, sync : BOOLEAN]

RxTypeOK ==
  /\ receive_buf \in [0 .. RxSize - 1 -> Slots]
  /\ receive_pos \in 0 .. RxSize
  /\ woken \in BOOLEAN /\ wild \in BOOLEAN
  /\ rx_pc \in {"sleep", "find", "pop", "commit"}
  /\ rpos \in 0 .. Byte - 1 /\ len \in 0 .. Byte - 1
  /\ copied \in 0 .. Byte - 1 /\ needcopy \in 0 .. Byte - 1
  /\ stored \in 0 .. Mod - 1 /\ first \in 0 .. Mod - 1
  /\ seen \in 0 .. Byte - 1 /\ torn \in 0 .. RxSize /\ cut \in BOOLEAN

RxInit ==
  /\ receive_buf = [i \in 0 .. RxSize - 1 |-> [num |-> 0, sync |-> FALSE]]
  /\ receive_pos = 0 /\ woken = FALSE /\ rx_pc = "sleep"
  /\ rpos = 0 /\ len = 0 /\ needcopy = 0 /\ copied = 0 /\ wild = FALSE
  /\ stored = 0 /\ first = 0 /\ seen = 0
  /\ torn = 0 /\ cut = FALSE

readb(pos) == pos % Byte

-----------------------------------------------------------------------------
\* serial_rx_byte, in the UART interrupt.  A full buffer drops the byte.
serial_rx_byte(sync) ==
  /\ receive_pos < Window
  /\ woken' = (woken \/ sync)
  /\ IF receive_pos >= RxSize
       THEN UNCHANGED <<receive_buf, receive_pos, stored>>
       ELSE /\ receive_pos' = receive_pos + 1
            /\ receive_buf' = [receive_buf EXCEPT ![receive_pos] =
                                 [num |-> stored, sync |-> sync]]
            /\ stored' = Num(stored, 1)
  /\ UNCHANGED <<rx_pc, rpos, len, needcopy, copied, wild, first, seen, torn, cut>>

\* Something else wakes the tasks.
OtherWake ==
  /\ ~woken /\ woken' = TRUE
  /\ UNCHANGED <<receive_buf, receive_pos, rx_pc, rpos, len, needcopy, copied, wild,
                 stored, first, seen, torn, cut>>

\* run_tasks marks the tasks as running before it runs them.
RunTasks ==
  /\ rx_pc = "sleep" /\ woken
  /\ woken' = FALSE /\ rx_pc' = "find" /\ cut' = FALSE
  /\ UNCHANGED <<receive_buf, receive_pos, rpos, len, needcopy, copied, wild,
                 stored, first, seen, torn>>

\* How much command_find_block asks to remove when it sees the first n bytes: up
\* to a SYNC (a block, or what precedes one), or all of them when it is looking
\* for a SYNC and there is none.
PopCounts(n) ==
  {k \in 1 .. n : receive_buf[k - 1].sync}
  \cup IF \E k \in 0 .. n - 1 : receive_buf[k].sync THEN {} ELSE {n} \ {0}

\* console_task: need_more_data, possible only below a whole message.
FindNothing ==
  /\ rx_pc = "find"
  /\ readb(receive_pos) < MaxMsg
  /\ rpos' = readb(receive_pos) /\ seen' = rpos'
  /\ rx_pc' = "sleep"
  /\ UNCHANGED <<receive_buf, receive_pos, woken, len, needcopy, copied, wild, stored, first,
                 torn, cut>>

\* console_task: a block to dispatch or bytes to discard.
FindBlock ==
  /\ rx_pc = "find"
  /\ rpos' = readb(receive_pos)
  /\ len' \in PopCounts(rpos')
  /\ seen' = 0
  /\ copied' = 0 /\ rx_pc' = "pop"
  /\ UNCHANGED <<receive_buf, receive_pos, woken, needcopy, wild, stored, first, torn, cut>>

pop_memmove(to, from, n) ==
  [i \in 0 .. RxSize - 1 |-> IF i \in to .. to + n - 1 THEN receive_buf[from + i - to]
                                                       ELSE receive_buf[i]]

\* Faulty: the rest of the buffer waits for another wake-up.
PopMoveAsleep ==
  /\ rx_pc = "pop"
  /\ rpos' = readb(receive_pos) /\ needcopy' = rpos' - len
  /\ receive_buf' = pop_memmove(copied, copied + len, needcopy' - copied)
  /\ copied' = needcopy' /\ UNCHANGED wild
  /\ rx_pc' = "commit"
  /\ UNCHANGED <<receive_pos, woken, len, stored, first, seen, torn, cut>>

\* Faulty: every round moves the whole rest of the buffer again.
PopMoveAgain ==
  /\ rx_pc = "pop"
  /\ rpos' = readb(receive_pos) /\ needcopy' = rpos' - len
  /\ receive_buf' = pop_memmove(0, len, needcopy') /\ copied' = needcopy'
  /\ woken' = (woken \/ needcopy' # 0) /\ UNCHANGED wild
  /\ rx_pc' = "commit"
  /\ UNCHANGED <<receive_pos, len, stored, first, seen, torn, cut>>

\* console_pop_input: one round of the loop up to irq_save.  A negative length,
\* taken as unsigned, would overwrite all memory.
PopMove ==
  /\ rx_pc = "pop"
  /\ rpos' = readb(receive_pos) /\ needcopy' = rpos' - len
  /\ IF needcopy' >= copied
       THEN /\ receive_buf' = pop_memmove(copied, copied + len, needcopy' - copied)
            /\ copied' = needcopy' /\ UNCHANGED wild
       ELSE wild' = (wild \/ needcopy' # 0) /\ UNCHANGED <<receive_buf, copied>>
  /\ woken' = (woken \/ needcopy' # 0)
  /\ rx_pc' = "commit"
  /\ UNCHANGED <<receive_pos, len, stored, first, seen, torn, cut>>

PopRetry ==
  /\ rx_pc = "commit" /\ ~wild
  /\ rpos # readb(receive_pos)
  /\ rx_pc' = "pop"
  /\ UNCHANGED <<receive_buf, receive_pos, woken, rpos, len, needcopy, copied, wild,
                 stored, first, seen, torn, cut>>

\* receive_pos = needcopy, with interrupts off.
PopDone ==
  /\ rx_pc = "commit" /\ ~wild
  /\ rpos = readb(receive_pos)
  /\ receive_pos' = needcopy /\ rx_pc' = "sleep"
  /\ first' = Num(first, len) /\ torn' = IF torn > len THEN torn - len ELSE 0
  /\ UNCHANGED <<receive_buf, woken, rpos, len, needcopy, copied, wild, stored, seen, cut>>

\* sched_shutdown, in command_dispatch or in an interrupt: run_tasks is entered anew
\* with tasks_status as it is.  In console_pop_input it may come with k more bytes
\* moved by the memmove, and in any case before receive_pos is stored.
RxShutdown ==
  /\ rx_pc # "sleep" /\ ~wild
  /\ \E k \in 0 .. RxSize :
       /\ k > 0 => rx_pc = "pop" /\ copied + len + k <= readb(receive_pos)
       /\ receive_buf' = pop_memmove(copied, copied + len, k)
       /\ torn' = IF rx_pc # "find" /\ copied + k > torn THEN copied + k ELSE torn
  /\ rx_pc' = "sleep" /\ cut' = TRUE
  /\ UNCHANGED <<receive_pos, woken, rpos, len, needcopy, copied, wild, stored, first, seen>>

RxNext ==
  \/ \E sync \in BOOLEAN : serial_rx_byte(sync)
  \/ OtherWake \/ RunTasks
  \/ FindNothing \/ FindBlock
  \/ PopMove \/ PopRetry \/ PopDone
  \/ RxShutdown

RxSpec == RxInit /\ [][RxNext]_rxvars

-----------------------------------------------------------------------------
\* console_pop_input against the receive interrupt and shutdowns: outside of it the
\* buffer holds exactly the bytes stored and not yet removed, in order.  It removes
\* what the parser asked for and nothing else, and never moves a negative number of
\* bytes, whatever arrives between its reads of receive_pos.  A shutdown before
\* receive_pos is stored leaves the bytes moved so far shifted at the front, and no
\* others: they are gone once as many bytes have been removed.
ReceivedInOrder ==
  /\ ~wild
  /\ rx_pc \in {"sleep", "find"} =>
       /\ receive_pos = (stored - first) % Mod
       /\ \A i \in torn .. receive_pos - 1 : receive_buf[i].num = (first + i) % Mod

\* While the main loop sleeps, the parser has seen every SYNC in the buffer and
\* wants more: no complete message waits for the next one.  Only the sleep behind a
\* round that a shutdown left, with its request already taken, may have one wait, for
\* periodic_event.
AsleepHasSeen ==
  (rx_pc = "sleep" /\ ~woken /\ ~cut) =>
    \A i \in seen .. receive_pos - 1 : ~receive_buf[i].sync
=============================================================================
