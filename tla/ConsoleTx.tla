----------------------------- MODULE ConsoleTx -----------------------------
(***************************************************************************)
(* The transmit half of the console: console_sendf                         *)
(* (klipper/src/generic/serial_irq.c), called from command_sendf           *)
(* (klipper/src/command.c), appends messages to a buffer that the UART     *)
(* interrupt drains.  No lock is taken: the order of single byte stores to *)
(* transmit_pos and transmit_max keeps the interrupt off.  Each shared     *)
(* access of console_sendf is an action; the interrupt and a shutdown      *)
(* (a longjmp out of a timer interrupt) may come between any two.          *)
(***************************************************************************)
EXTENDS ConsoleBytes

CONSTANTS
  Size,       \* sizeof(transmit_buf)
  Sizes,      \* the max_size of the encoders
  MinSize     \* max_size of encode_acknak, the smallest message

ASSUME ConsoleTxAssumption ==
  /\ Size \in 1 .. 255 /\ MinSize \in Sizes /\ Sizes \subseteq 1 .. Size
  /\ \A n \in Sizes : MinSize <= n /\ n + MinSize <= Size
  /\ Mod \in Nat /\ Mod > Size

VARIABLES
  transmit_buf, transmit_pos, transmit_max,
  txirq,      \* the TXDE interrupt is enabled
  in_sendf,
  tx_pc,      \* the next step of console_sendf
  tpos, tmax, \* its local variables
  max_size,   \* of the encoder it was called with
  tx_shut,    \* SchedStatus.shutdown_status # 0
  gen,        \* auxiliary: number of the next byte to be accepted
  sent        \* auxiliary: number of the next byte due on the wire

txvars == <<transmit_buf, transmit_pos, transmit_max, txirq, in_sendf, tx_pc, tpos,
            tmax, max_size, tx_shut, gen, sent>>

Steps == {"idle", "read_max", "clear_max", "clear_pos", "room", "read_pos",
          "move_pos", "move_max", "move_irq", "encode", "publish", "publish_irq"}

TxTypeOK ==
  /\ transmit_buf \in [0 .. Size - 1 -> 0 .. Mod - 1]
  /\ transmit_pos \in 0 .. Size /\ transmit_max \in 0 .. Size
  /\ tpos \in 0 .. Size /\ tmax \in 0 .. Size
  /\ txirq \in BOOLEAN /\ in_sendf \in BOOLEAN /\ tx_shut \in BOOLEAN
  /\ tx_pc \in Steps /\ max_size \in MinSize .. Size
  /\ gen \in 0 .. Mod - 1 /\ sent \in 0 .. Mod - 1

TxInit ==
  /\ transmit_buf = [i \in 0 .. Size - 1 |-> 0]
  /\ transmit_pos = 0 /\ transmit_max = 0 /\ txirq = FALSE
  /\ in_sendf = FALSE /\ tx_pc = "idle" /\ tx_shut = FALSE
  /\ tpos = 0 /\ tmax = 0 /\ max_size = MinSize
  /\ gen = 0 /\ sent = 0

buffer == <<transmit_buf, transmit_pos, transmit_max>>
locals == <<tpos, tmax, max_size>>
bytes == <<gen, sent>>

Step(from, to) == tx_pc = from /\ tx_pc' = to /\ UNCHANGED <<in_sendf, tx_shut>>

-----------------------------------------------------------------------------
\* command_sendf, and the read of transmit_pos.  A call from an interrupt that
\* finds in_sendf set returns at once and changes nothing.
command_sendf(n) ==
  /\ tx_pc = "idle" /\ ~in_sendf
  /\ in_sendf' = TRUE /\ max_size' = n /\ tpos' = transmit_pos
  /\ tx_pc' = "read_max"
  /\ UNCHANGED <<buffer, txirq, tmax, tx_shut, bytes>>

ReadMax ==
  /\ tmax' = transmit_max
  /\ Step("read_max", IF tpos >= transmit_max THEN "clear_max" ELSE "room")
  /\ UNCHANGED <<buffer, txirq, tpos, max_size, bytes>>

\* Faulty: transmit_pos is reset before transmit_max.
ClearPosFirst ==
  /\ transmit_pos' = 0 /\ tpos' = 0 /\ tmax' = 0
  /\ Step("clear_max", "clear_pos")
  /\ UNCHANGED <<transmit_buf, transmit_max, txirq, max_size, bytes>>

\* Everything was sent: restart at the front, transmit_max first.
ClearMax ==
  /\ transmit_max' = 0 /\ tpos' = 0 /\ tmax' = 0
  /\ Step("clear_max", "clear_pos")
  /\ UNCHANGED <<transmit_buf, transmit_pos, txirq, max_size, bytes>>

ClearPos ==
  /\ transmit_pos' = 0
  /\ Step("clear_pos", "room")
  /\ UNCHANGED <<transmit_buf, transmit_max, txirq, locals, bytes>>

\* The message fits behind tmax, or after the buffer has been moved.
FitsBehind == tmax + max_size <= Size
FitsMoved == tmax + max_size - tpos <= Size

Drop ==
  /\ ~FitsBehind /\ ~FitsMoved
  /\ tx_pc = "room" /\ tx_pc' = "idle" /\ in_sendf' = FALSE
  /\ UNCHANGED <<buffer, txirq, locals, tx_shut, bytes>>

Fits ==
  /\ FitsBehind
  /\ Step("room", "encode")
  /\ UNCHANGED <<buffer, txirq, locals, bytes>>

\* Disable the interrupt, in effect, with transmit_max = 0.
HoldTx ==
  /\ ~FitsBehind /\ FitsMoved
  /\ transmit_max' = 0
  /\ Step("room", "read_pos")
  /\ UNCHANGED <<transmit_buf, transmit_pos, txirq, locals, bytes>>

memmove(from, n) ==
  [i \in 0 .. Size - 1 |-> IF i < n THEN transmit_buf[from + i] ELSE transmit_buf[i]]

\* The interrupt may have sent more bytes since the call began.
MoveBuffer ==
  /\ tpos' = transmit_pos /\ tmax' = tmax - transmit_pos
  /\ transmit_buf' = memmove(transmit_pos, tmax')
  /\ Step("read_pos", "move_pos")
  /\ UNCHANGED <<transmit_pos, transmit_max, txirq, max_size, bytes>>

MovePos ==
  /\ transmit_pos' = 0
  /\ Step("move_pos", "move_max")
  /\ UNCHANGED <<transmit_buf, transmit_max, txirq, locals, bytes>>

MoveMax ==
  /\ transmit_max' = tmax
  /\ Step("move_max", "move_irq")
  /\ UNCHANGED <<transmit_buf, transmit_pos, txirq, locals, bytes>>

MoveIrq ==
  /\ txirq' = TRUE
  /\ Step("move_irq", "encode")
  /\ UNCHANGED <<buffer, locals, bytes>>

\* command_encode_and_frame writes at most max_size bytes behind tmax; max_size
\* becomes the length of the message.
Encode ==
  /\ \E msglen \in MinSize .. max_size :
       /\ max_size' = msglen
       /\ transmit_buf' = [i \in 0 .. Size - 1 |->
            IF i \in tmax .. tmax + msglen - 1 THEN (gen + i - tmax) % Mod
                                               ELSE transmit_buf[i]]
  /\ Step("encode", "publish")
  /\ UNCHANGED <<transmit_pos, transmit_max, txirq, tpos, tmax, bytes>>

Publish ==
  /\ transmit_max' = tmax + max_size /\ gen' = Num(gen, max_size)
  /\ Step("publish", "publish_irq")
  /\ UNCHANGED <<transmit_buf, transmit_pos, txirq, locals, sent>>

\* Faulty: the interrupt is enabled only when the buffer was empty.
PublishIrqIfEmpty ==
  /\ txirq' = (txirq \/ tmax = 0)
  /\ tx_pc = "publish_irq" /\ tx_pc' = "idle" /\ in_sendf' = FALSE
  /\ UNCHANGED <<buffer, locals, tx_shut, bytes>>

PublishIrq ==
  /\ txirq' = TRUE
  /\ tx_pc = "publish_irq" /\ tx_pc' = "idle" /\ in_sendf' = FALSE
  /\ UNCHANGED <<buffer, locals, tx_shut, bytes>>

-----------------------------------------------------------------------------
\* USARTx_IRQHandler: serial_get_tx_byte hands out a byte, or the interrupt is
\* turned off.
TxByte ==
  /\ txirq /\ transmit_pos < transmit_max
  /\ transmit_pos' = transmit_pos + 1 /\ sent' = Num(sent, 1)
  /\ UNCHANGED <<transmit_buf, transmit_max, txirq, in_sendf, tx_pc, locals, tx_shut,
                 gen>>

TxDone ==
  /\ txirq /\ transmit_pos >= transmit_max
  /\ txirq' = FALSE
  /\ UNCHANGED <<buffer, in_sendf, tx_pc, locals, tx_shut, bytes>>

sendf_shutdown == in_sendf' = FALSE

\* A shutdown leaves console_sendf where it is.  Bytes hidden by transmit_max = 0
\* are not seen again: the next call finds transmit_pos >= transmit_max.
TxShutdown ==
  /\ ~tx_shut /\ tx_shut' = TRUE
  /\ tx_pc' = "idle" /\ sendf_shutdown
  /\ sent' = IF tx_pc \in {"read_pos", "move_pos", "move_max"} THEN gen ELSE sent
  /\ UNCHANGED <<buffer, txirq, locals, gen>>

\* The host clears a shutdown only after it has read the configuration of the
\* firmware, that is after the transmit path has worked again.
TxClearShutdown ==
  /\ tx_shut /\ tx_shut' = FALSE
  /\ tx_pc = "idle" /\ transmit_pos >= transmit_max
  /\ UNCHANGED <<buffer, txirq, in_sendf, tx_pc, locals, bytes>>

Sendf ==
  \/ ReadMax \/ ClearMax \/ ClearPos \/ Drop \/ Fits \/ HoldTx \/ MoveBuffer
  \/ MovePos \/ MoveMax \/ MoveIrq \/ Encode \/ Publish \/ PublishIrq

TxNext ==
  \/ \E n \in Sizes : command_sendf(n)
  \/ Sendf
  \/ TxByte \/ TxDone
  \/ TxShutdown \/ TxClearShutdown

TxSpec == TxInit /\ [][TxNext]_txvars

\* The main loop finishes a call it began; the UART serves an enabled interrupt;
\* the host queries the clock again and again (serialqueue.c, IDLE_QUERY_TIME)
\* and each query is acknowledged with the smallest message.
TxFairSpec ==
  /\ TxSpec
  /\ WF_txvars(Sendf) /\ WF_txvars(TxByte \/ TxDone)
  /\ SF_txvars(command_sendf(MinSize))

-----------------------------------------------------------------------------
\* Bytes accepted and neither sent nor lost to a shutdown.
Pending == (gen - sent) % Mod

\* console_sendf against the transmit interrupt: whatever the interrupt can read
\* at any moment is the next bytes of the accepted messages, in order, so no byte
\* is sent twice, skipped, or sent before it is written.
WireInOrder ==
  \A i \in transmit_pos .. transmit_max - 1 :
    transmit_buf[i] = (sent + i - transmit_pos) % Mod

\* Between calls every accepted byte that was not sent is in the buffer:
\* resetting and moving the buffer loses nothing.
NothingLost ==
  tx_pc = "idle" => Pending = IF transmit_pos < transmit_max
                              THEN transmit_max - transmit_pos ELSE 0

\* With finitely many shutdowns, bytes that wait do not wait for ever.  A shutdown
\* may leave console_sendf between the store to transmit_max and
\* serial_enable_tx_irq, with the interrupt off and the buffer almost full; an
\* acknowledgement still fits then, and its call turns the interrupt on.
BytesLeave ==
  <>[][~TxShutdown]_txvars =>
    \A k \in 0 .. Mod - 1 : (sent = k /\ Pending > 0) ~> (sent # k)

\* What leaves is what was written, in its order, and all of it.
WireExact == WireInOrder /\ NothingLost
=============================================================================
