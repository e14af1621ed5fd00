---------------------------- MODULE MessageLink ----------------------------
(***************************************************************************)
(* The link that carries commands to the firmware in numbered blocks:      *)
(* command_find_block and command_dispatch (klipper/src/command.c) with    *)
(* console_task (generic/serial_irq.c) at one end, the serialqueue of the  *)
(* host (klipper/klippy/chelper/serialqueue.c) at the other, and a serial  *)
(* line between them that may lose and damage data but not reorder it.     *)
(* Sequence numbers on the line have a few bits; blocks and messages carry *)
(* the full number here, and only Wire of it is visible to the other end.   *)
(***************************************************************************)
EXTENDS Integers, Sequences, FiniteSetsExt, SequencesExt

CONSTANTS
  SeqNumbers,       \* MESSAGE_SEQ_MASK + 1
  MaxPending,   \* MAX_PENDING_BLOCKS
  Window,       \* receive_window, in blocks of MESSAGE_MAX bytes
  MaxSeq,       \* bound: the last block the host sends
  MaxDown,      \* bound: blocks on their way to the firmware
  MaxUp,        \* bound: messages on their way to the host
  MaxLoss       \* bound: blocks and messages lost or damaged

ASSUME MessageLinkAssumption ==
  /\ SeqNumbers \in Nat /\ MaxPending \in 1 .. SeqNumbers - 1
  /\ Window \in Nat /\ Window >= 2   \* one block, and the one whose acknowledgement is due
  /\ MaxSeq \in Nat /\ MaxSeq >= SeqNumbers /\ MaxDown > MaxPending /\ MaxUp > 0 /\ MaxLoss \in Nat

VARIABLES
  send_seq, receive_seq, last_ack_seq, ignore_nak_seq, retransmit_seq,
  timer,        \* SQPT_RETRANSMIT: "never", "set", or "now" after a nak
  notified,     \* the last block whose sender was told that it is done
  down,         \* blocks on the line and in receive_buf; 0 is a damaged one
  up,           \* messages on their way to the host
  next,         \* next_sequence
  need_valid,   \* CF_NEED_VALID
  dispatching,  \* command_dispatch runs the block at the head of down
  losses

host == <<send_seq, receive_seq, last_ack_seq, ignore_nak_seq, retransmit_seq, timer,
          notified>>
mcu == <<next, need_valid, dispatching>>
vars == <<host, down, up, mcu, losses>>

Wire(n) == n % SeqNumbers
Bad == 0

TypeOK ==
  /\ send_seq \in 1 .. MaxSeq + 1 /\ receive_seq \in 1 .. send_seq
  /\ {last_ack_seq, ignore_nak_seq, retransmit_seq, notified} \subseteq 0 .. MaxSeq + 1
  /\ timer \in {"never", "set", "now"}
  /\ (\A i \in DOMAIN down : down[i] \in Bad .. MaxSeq) /\ Len(down) <= MaxDown
  /\ \A i \in DOMAIN up : up[i] \in [seq : 1 .. MaxSeq + 1, data : BOOLEAN]
  /\ Len(up) <= MaxUp
  /\ next \in 1 .. MaxSeq + 1
  /\ need_valid \in BOOLEAN /\ dispatching \in BOOLEAN /\ losses \in 0 .. MaxLoss

\* A host connects to a firmware that may have run for any time: the host starts
\* with 1, the firmware waits for any of the sequence numbers.
Init ==
  /\ send_seq = 1 /\ receive_seq = 1 /\ last_ack_seq = 0 /\ ignore_nak_seq = 0
  /\ retransmit_seq = 0 /\ timer = "never" /\ notified = 0
  /\ down = <<>> /\ up = <<>>
  /\ next \in 1 .. SeqNumbers /\ need_valid = FALSE /\ dispatching = FALSE
  /\ losses = 0

SentEmpty == send_seq = receive_seq
sent_queue == [i \in 1 .. send_seq - receive_seq |-> receive_seq + i - 1]

-----------------------------------------------------------------------------
(* The host *)

\* Faulty: the block whose acknowledgement is still due is not counted.
CanSendNoAckDue ==
  /\ send_seq - receive_seq < MaxPending
  /\ SentEmpty \/ send_seq - receive_seq + 1 <= Window
  /\ receive_seq = 1 => SentEmpty

\* check_send_command.  A block whose number was learnt from a response still
\* occupies the receive buffer until its own acknowledgement comes (last_ack_bytes,
\* which a response that begins a connection leaves at 0: one block less is counted
\* then).  While the host identifies the firmware it sends one command at a time.
CanSend ==
  /\ send_seq - receive_seq < MaxPending
  /\ SentEmpty \/ send_seq - receive_seq + 1
                    + (IF last_ack_seq < receive_seq THEN 1 ELSE 0) <= Window
  /\ receive_seq = 1 => SentEmpty

\* build_and_send_command
SendBlock ==
  /\ CanSend /\ send_seq <= MaxSeq /\ Len(down) < MaxDown
  /\ down' = Append(down, send_seq)
  /\ timer' = IF SentEmpty THEN "set" ELSE timer
  /\ send_seq' = send_seq + 1
  /\ UNCHANGED <<receive_seq, last_ack_seq, ignore_nak_seq, retransmit_seq, notified,
                 up, mcu, losses>>

\* retransmit_event, after a nak or when the timer runs out.
retransmit_event ==
  /\ timer # "never"
  /\ Len(down) + Len(sent_queue) <= MaxDown
  /\ down' = down \o sent_queue
  /\ ignore_nak_seq' = IF timer # "now" THEN send_seq
                       ELSE IF receive_seq < retransmit_seq THEN retransmit_seq
                       ELSE receive_seq
  /\ retransmit_seq' = send_seq
  /\ timer' = "set"
  /\ UNCHANGED <<send_seq, receive_seq, last_ack_seq, notified, up, mcu, losses>>

\* Faulty: the bits replace those of the last number, without a carry.
RseqNoCarry(m) == receive_seq - Wire(receive_seq) + Wire(m.seq)

\* The number a message stands for, from the bits it carries.
Rseq(m) == receive_seq + ((Wire(m.seq) - receive_seq) % SeqNumbers)

\* update_receive_seq: an answer to more than was sent begins a connection.
SendSeqAfter(rseq) == IF rseq > send_seq THEN rseq ELSE send_seq

\* Faulty: the timer is stopped whenever an answer arrives.
TimerStopped(rseq) == "never"

\* update_receive_seq arms the timer for the oldest block that is left.
TimerAfter(rseq) == IF rseq >= send_seq THEN "never" ELSE "set"

\* Faulty: a response counts as an acknowledgement.
WakeSeqAll(m, rseq) == rseq - 1

\* A response of a block is sent before the block is done.  wake_seq is a uint64_t: for
\* a response with number 1 it wraps to one past all numbers.
WakeSeq(m, rseq) ==
  LET wake_seq == rseq - 1 - (IF m.data THEN 1 ELSE 0)
  IN  IF wake_seq < 0 THEN MaxSeq + 1 ELSE wake_seq

\* handle_message
handle_message ==
  LET m == Head(up)
      rseq == Rseq(m)
      advanced == rseq # receive_seq
      nak == ~m.data /\ last_ack_seq >= rseq /\ rseq > ignore_nak_seq /\ rseq < send_seq
  IN  /\ up # <<>> /\ up' = Tail(up)
      /\ IF advanced /\ rseq > send_seq /\ receive_seq # 1
         THEN UNCHANGED host
         ELSE /\ receive_seq' = rseq
              /\ send_seq' = IF advanced THEN SendSeqAfter(rseq) ELSE send_seq
              /\ timer' = IF nak THEN "now"
                          ELSE IF advanced THEN TimerAfter(rseq) ELSE timer
              /\ notified' = Max({notified, Min({WakeSeq(m, rseq), send_seq' - 1})})
              /\ last_ack_seq' = IF m.data THEN last_ack_seq ELSE Max({last_ack_seq, rseq})
              /\ UNCHANGED <<ignore_nak_seq, retransmit_seq>>
      /\ UNCHANGED <<down, mcu, losses>>

-----------------------------------------------------------------------------
(* The firmware *)

\* command_sendf stamps every message with next_sequence.
Send(n, isData) ==
  Len(up) < MaxUp /\ up' = Append(up, [seq |-> n, data |-> isData])

\* command_find_block: damaged data is answered once until a block is valid.
FindBad ==
  /\ ~dispatching /\ down # <<>> /\ Head(down) = Bad
  /\ down' = Tail(down)
  /\ need_valid' = TRUE
  /\ IF need_valid THEN UNCHANGED up ELSE Send(next, FALSE)
  /\ UNCHANGED <<host, next, dispatching, losses>>

\* The sequence number is compared in the few bits the line carries.
Expected(n) == Wire(n) = Wire(next)

\* command_find_block: a block was lost, or this one was run already.
FindOther ==
  /\ ~dispatching /\ down # <<>> /\ Head(down) # Bad /\ ~Expected(Head(down))
  /\ down' = Tail(down)
  /\ need_valid' = FALSE
  /\ Send(next, FALSE)
  /\ UNCHANGED <<host, next, dispatching, losses>>

\* command_find_block advances next_sequence before the block is run; the block
\* stays in receive_buf meanwhile.
FindNext ==
  /\ ~dispatching /\ down # <<>> /\ Head(down) # Bad /\ Expected(Head(down))
  /\ next <= MaxSeq /\ next' = next + 1
  /\ need_valid' = FALSE /\ dispatching' = TRUE
  /\ UNCHANGED <<host, down, up, losses>>

\* A command, a task or a timer sends a response.
Respond ==
  /\ Send(next, TRUE)
  /\ UNCHANGED <<host, down, mcu, losses>>

\* console_task removes the block and acknowledges it.
DispatchDone ==
  /\ dispatching /\ dispatching' = FALSE
  /\ down' = Tail(down)
  /\ Send(next, FALSE)
  /\ UNCHANGED <<host, next, need_valid, losses>>

\* A shutdown leaves command_dispatch; the block is still in receive_buf and
\* will be found out of sequence.
DispatchShutdown ==
  /\ dispatching /\ dispatching' = FALSE
  /\ UNCHANGED <<host, down, up, next, need_valid, losses>>

-----------------------------------------------------------------------------
(* The line *)

\* Blocks that may still be hit: not the one being run.
OnLine == {i \in DOMAIN down : ~(dispatching /\ i = 1)}

\* Data is lost whole (an overrun, or tcflush before a retransmission) or damaged.
LoseDown ==
  /\ losses < MaxLoss /\ losses' = losses + 1
  /\ \E i \in OnLine : down' = RemoveAt(down, i)
  /\ UNCHANGED <<host, up, mcu>>

DamageDown ==
  /\ losses < MaxLoss /\ losses' = losses + 1
  /\ \E i \in OnLine : down[i] # Bad /\ down' = [down EXCEPT ![i] = Bad]
  /\ UNCHANGED <<host, up, mcu>>

\* console_sendf found no room, or the line damaged the message.
LoseUp ==
  /\ losses < MaxLoss /\ losses' = losses + 1
  /\ \E i \in DOMAIN up : up' = RemoveAt(up, i)
  /\ UNCHANGED <<host, down, mcu>>

Next ==
  \/ SendBlock \/ retransmit_event \/ handle_message
  \/ FindBad \/ FindOther \/ FindNext \/ Respond \/ DispatchDone \/ DispatchShutdown
  \/ LoseDown \/ DamageDown \/ LoseUp

Spec == Init /\ [][Next]_vars

\* The host reads what arrives and its timer runs out in the end; the firmware
\* goes on reading blocks and finishes those it runs, as the line to the host is
\* drained.
FairSpec ==
  /\ Spec
  /\ WF_vars(handle_message) /\ SF_vars(retransmit_event)
  /\ SF_vars(FindBad) /\ SF_vars(FindOther) /\ SF_vars(FindNext)
  /\ SF_vars(DispatchDone)

-----------------------------------------------------------------------------
\* command_find_block: the block being run is the one after the last that was
\* run, although only a few bits of its number were compared and copies of
\* blocks already run may still arrive.  Every block is run once, in order, but the
\* first: a host that connects to a firmware which waits for another number learns it
\* from the answer and never sends block 1 again.
RunInOrder == dispatching => Head(down) = next - 1

\* handle_message: the host takes every message for what it says, although only a
\* few bits of the number arrive, and never for an acknowledgement of a block
\* that was not run.
AnswersDecode == up # <<>> => Rseq(Head(up)) = Head(up).seq

\* handle_message: who waits for an acknowledgement (raw_send_wait_ack) is told
\* only when the block is done, so all its responses have come before.  This is not so
\* of block 1, which only makes the two ends meet: a response sent before it arrives
\* has its sender told, by the wrap of wake_seq, and so has a firmware that waits for
\* another number; but the wrap never has the sender of a later block told.
ToldWhenDone == notified > 1 => notified < IF dispatching THEN next - 1 ELSE next

\* check_send_command: until something is sent again, the blocks on the line and
\* in the receive buffer fit the receive window.
WindowKept == retransmit_seq = 0 => Len(down) <= Window

\* Every block that is sent is acknowledged in the end, whatever was lost: again
\* and again nothing is pending, or the oldest pending block is acknowledged.
BlocksArrive == []<>SentEmpty \/ []<><<receive_seq' # receive_seq>>_vars

\* Blocks and answers are what they are taken for: every block runs once and in order,
\* and an answer is expanded to the number it was made from.
NumbersRight == RunInOrder /\ AnswersDecode
=============================================================================
