-------------------------- MODULE InterruptProofs --------------------------
(***************************************************************************)
(* Proofs about what tasks share with interrupt handlers: the buffers of   *)
(* the console with the UART's, the timer list with SysTick's.             *)
(*                                                                         *)
(* The console.  Bytes are numbered modulo Mod, and a buffer never holds   *)
(* Mod of them, so a number stands for one byte of the buffer.  The        *)
(* transmit half: for every buffer size and every set of message sizes,    *)
(* what the interrupt can read is the next bytes due.  The receive half:   *)
(* for every buffer, as long as the host lets fewer bytes wait than readb  *)
(* can count, the task removes what was parsed and nothing else.           *)
(*                                                                         *)
(* The timer list.  For every set of timers and every even clock range the *)
(* list is one, whole and in order, SysTick runs no timer early and misses *)
(* no wake-up, and list and interrupt together implement TimerSet.         *)
(***************************************************************************)
EXTENDS ConsoleTx, ConsoleRx, TimerList, TLAPS

-----------------------------------------------------------------------------
(* Numbers modulo Mod.                                                     *)

\* A number is a number.
LEMMA NumType ==
  ASSUME Mod \in Nat, NEW s \in 0 .. Mod - 1, NEW k \in 0 .. Mod - 1
  PROVE  Num(s, k) \in 0 .. Mod - 1
BY DEF Num

\* Nothing behind a byte is the byte itself.
LEMMA NumZero ==
  ASSUME Mod \in Nat, NEW s \in 0 .. Mod - 1
  PROVE  Num(s, 0) = s
BY DEF Num

\* Places add up, as far as a buffer reaches.
LEMMA NumAdd ==
  ASSUME Mod \in Nat, NEW s \in 0 .. Mod - 1,
         NEW a \in 0 .. Mod - 1, NEW b \in 0 .. Mod - 1, a + b < Mod
  PROVE  Num(Num(s, a), b) = Num(s, a + b)
<1>1. CASE s + a < Mod
  BY <1>1 DEF Num
<1>2. CASE s + a >= Mod
  <2>1. Num(s, a) = s + a - Mod
    BY <1>2 DEF Num
  <2>2. Num(s, a + b) = s + a + b - Mod
    BY <1>2 DEF Num
  <2>3. Num(s + a - Mod, b) = s + a - Mod + b
    BY <1>2 DEF Num
  <2> QED BY <2>1, <2>2, <2>3
<1> QED BY <1>1, <1>2

\* The distance of two numbers is how many places they are apart.
LEMMA NumDistance ==
  ASSUME Mod \in Nat, NEW s \in 0 .. Mod - 1, NEW k \in 0 .. Mod - 1
  PROVE  (Num(s, k) - s) % Mod = k
<1>1. CASE s + k < Mod
  BY <1>1 DEF Num
<1>2. CASE s + k >= Mod
  <2>1. Num(s, k) = s + k - Mod
    BY <1>2 DEF Num
  <2>2. (k - Mod) % Mod = k
    OBVIOUS
  <2> QED BY <2>1, <2>2
<1> QED BY <1>1, <1>2

-----------------------------------------------------------------------------
(* The transmit half.                                                      *)

\* The buffer holds the bytes numbered sent onwards from slot lo up to slot hi, and
\* they are all that is left of the accepted ones.
Holds(lo, hi) ==
  /\ lo <= hi /\ gen = Num(sent, hi - lo)
  /\ \A i \in lo .. hi - 1 : transmit_buf[i] = Num(sent, i - lo)

\* Everything was sent.
Drained == transmit_pos >= transmit_max /\ gen = sent

\* Where console_sendf stands in its stores to transmit_pos and transmit_max, and
\* what its local variables say of the buffer.
StepInv ==
  /\ tx_pc = "idle" => (Holds(transmit_pos, transmit_max) \/ Drained)
  /\ tx_pc = "read_max" =>
       /\ (Holds(transmit_pos, transmit_max) \/ Drained)
       /\ tpos <= transmit_pos
       /\ tpos < transmit_max => transmit_pos <= transmit_max
  /\ tx_pc = "clear_max" => Drained
  /\ tx_pc = "clear_pos" => Drained /\ transmit_max = 0 /\ tpos = 0 /\ tmax = 0
  /\ tx_pc = "room" =>
       Holds(transmit_pos, transmit_max) /\ tmax = transmit_max /\ tpos <= transmit_pos
  /\ tx_pc = "read_pos" =>
       /\ transmit_max = 0 /\ Holds(transmit_pos, tmax)
       /\ tpos <= transmit_pos /\ FitsMoved
  /\ tx_pc = "move_pos" => transmit_max = 0 /\ Holds(0, tmax) /\ FitsBehind
  /\ tx_pc = "move_max" =>
       transmit_pos = 0 /\ transmit_max = 0 /\ Holds(0, tmax) /\ FitsBehind
  /\ tx_pc \in {"move_irq", "encode", "publish"} =>
       Holds(transmit_pos, transmit_max) /\ tmax = transmit_max /\ FitsBehind
  /\ tx_pc = "publish" =>
       \A i \in tmax .. tmax + max_size - 1 : transmit_buf[i] = Num(gen, i - tmax)
  /\ tx_pc = "publish_irq" => Holds(transmit_pos, transmit_max)

\* The inductive invariant of the transmit half.
TxInv == TxTypeOK /\ StepInv

\* A drained buffer holds nothing: the state after a reset.
LEMMA DrainedHolds ==
  ASSUME TxTypeOK, gen = sent, NEW p \in 0 .. Size
  PROVE  Holds(p, p)
BY NumZero, ConsoleTxAssumption DEF TxTypeOK, Holds

\* The initial buffer is empty.
LEMMA TxInvInit == TxInit => TxInv
<1> SUFFICES ASSUME TxInit PROVE TxInv OBVIOUS
<1>0. Size \in 1 .. 255 /\ MinSize \in 1 .. Size /\ 0 \in 0 .. Mod - 1
  BY ConsoleTxAssumption
<1>1. TxTypeOK
  <2>1. transmit_buf \in [0 .. Size - 1 -> 0 .. Mod - 1]
    BY <1>0 DEF TxInit
  <2>2. tx_pc \in Steps BY DEF TxInit, Steps
  <2>3. 0 \in 0 .. Size /\ MinSize \in MinSize .. Size BY <1>0
  <2> QED BY <1>0, <2>1, <2>2, <2>3 DEF TxInit, TxTypeOK
<1>2. Drained BY <1>1 DEF TxInit, Drained
<1> QED BY <1>1, <1>2 DEF TxInit, TxInv, StepInv

-----------------------------------------------------------------------------
(* One lemma per action.                                                   *)

\* A call begins.
LEMMA SendfInv ==
  ASSUME TxInv, NEW n \in Sizes, command_sendf(n)
  PROVE  TxInv'
<1>1. n \in MinSize .. Size BY ConsoleTxAssumption
<1>2. TxTypeOK'
  BY <1>1 DEF TxInv, TxTypeOK, command_sendf, buffer, bytes, Steps
<1>3. StepInv'
  BY DEF TxInv, TxTypeOK, StepInv, command_sendf, buffer, bytes, Holds, Drained
<1> QED BY <1>2, <1>3 DEF TxInv

\* The call looks whether everything was sent.
LEMMA ReadMaxInv ==
  ASSUME TxInv, ReadMax
  PROVE  TxInv'
<1>2. TxTypeOK'
  BY DEF TxInv, TxTypeOK, ReadMax, Step, buffer, bytes, Steps
<1>3. CASE tpos >= transmit_max
  <2>1. transmit_pos >= transmit_max
    BY <1>3 DEF TxInv, TxTypeOK, StepInv, ReadMax, Step
  <2>2. gen = sent
    <3>1. CASE Drained BY <3>1 DEF Drained
    <3>2. CASE Holds(transmit_pos, transmit_max)
      <4>1. transmit_max - transmit_pos = 0
        BY <2>1, <3>2 DEF Holds, TxInv, TxTypeOK
      <4> QED BY <3>2, <4>1, NumZero, ConsoleTxAssumption DEF Holds, TxInv, TxTypeOK
    <3> QED BY <3>1, <3>2 DEF TxInv, StepInv, ReadMax, Step
  <2>3. Drained' BY <2>1, <2>2 DEF Drained, ReadMax, buffer, bytes
  <2>4. tx_pc' = "clear_max" BY <1>3 DEF ReadMax, Step
  <2>5. StepInv' BY <2>3, <2>4 DEF StepInv
  <2> QED BY <1>2, <2>5 DEF TxInv
<1>4. CASE ~(tpos >= transmit_max)
  <2>1. tpos < transmit_max /\ transmit_pos <= transmit_max /\ tpos <= transmit_pos
    BY <1>4 DEF TxInv, TxTypeOK, StepInv, ReadMax, Step
  <2>2. Holds(transmit_pos, transmit_max)
    <3>1. CASE Drained
      <4>1. transmit_pos = transmit_max
        BY <2>1, <3>1 DEF Drained, TxInv, TxTypeOK
      <4> QED BY <3>1, <4>1, DrainedHolds DEF Drained, TxInv, TxTypeOK
    <3> QED BY <3>1 DEF TxInv, StepInv, ReadMax, Step
  <2>3. tx_pc' = "room" BY <1>4 DEF ReadMax, Step
  <2>4. Holds(transmit_pos, transmit_max)'
    BY <2>2 DEF Holds, ReadMax, buffer, bytes
  <2>5. tmax' = transmit_max' /\ tpos' <= transmit_pos'
    BY <2>1 DEF ReadMax, buffer
  <2>6. StepInv' BY <2>3, <2>4, <2>5 DEF StepInv
  <2> QED BY <1>2, <2>6 DEF TxInv
<1> QED BY <1>3, <1>4

\* A drained buffer restarts at the front, transmit_max first.
LEMMA ClearInv ==
  ASSUME TxInv, ClearMax \/ ClearPos
  PROVE  TxInv'
<1>1. CASE ClearMax
  <2>1. TxTypeOK'
    BY <1>1, ConsoleTxAssumption DEF TxInv, TxTypeOK, ClearMax, Step, bytes, Steps
  <2>2. Drained /\ tx_pc' = "clear_pos"
    BY <1>1 DEF TxInv, StepInv, ClearMax, Step
  <2>3. Drained' /\ transmit_max' = 0 /\ tpos' = 0 /\ tmax' = 0
    BY <1>1, <2>2 DEF Drained, ClearMax, bytes, TxInv, TxTypeOK
  <2>4. StepInv' BY <2>2, <2>3 DEF StepInv
  <2> QED BY <2>1, <2>4 DEF TxInv
<1>2. CASE ClearPos
  <2>1. TxTypeOK'
    BY <1>2, ConsoleTxAssumption DEF TxInv, TxTypeOK, ClearPos, Step, locals, bytes, Steps
  <2>2. tx_pc' = "room" /\ gen' = sent' /\ transmit_pos' = 0 /\ transmit_max' = 0
        /\ tpos' = 0 /\ tmax' = 0
    BY <1>2 DEF TxInv, StepInv, ClearPos, Step, locals, bytes, Drained
  <2>3. Holds(0, 0)'
    BY <2>1, <2>2, NumZero, ConsoleTxAssumption DEF Holds, TxTypeOK
  <2>4. Holds(transmit_pos, transmit_max)'
    BY <2>2, <2>3 DEF Holds
  <2>5. StepInv' BY <2>2, <2>4 DEF StepInv
  <2> QED BY <2>1, <2>5 DEF TxInv
<1> QED BY <1>1, <1>2

\* The call looks for room, and hides the buffer when it must be moved.
LEMMA RoomInv ==
  ASSUME TxInv, Drop \/ Fits \/ HoldTx
  PROVE  TxInv'
<1>0. tx_pc = "room" /\ Holds(transmit_pos, transmit_max) /\ tmax = transmit_max
      /\ tpos <= transmit_pos
  BY DEF TxInv, StepInv, Drop, Fits, HoldTx, Step
<1>1. CASE Drop
  <2>1. TxTypeOK'
    BY <1>1 DEF TxInv, TxTypeOK, Drop, buffer, locals, bytes, Steps
  <2>2. Holds(transmit_pos, transmit_max)' /\ tx_pc' = "idle"
    BY <1>0, <1>1 DEF Holds, Drop, buffer, bytes
  <2>3. StepInv' BY <2>2 DEF StepInv
  <2> QED BY <2>1, <2>3 DEF TxInv
<1>2. CASE Fits
  <2>1. TxTypeOK'
    BY <1>2 DEF TxInv, TxTypeOK, Fits, Step, buffer, locals, bytes, Steps
  <2>2. Holds(transmit_pos, transmit_max)' /\ tx_pc' = "encode"
        /\ tmax' = transmit_max' /\ FitsBehind'
    BY <1>0, <1>2 DEF Holds, Fits, FitsBehind, Step, buffer, locals, bytes
  <2>3. StepInv' BY <2>2 DEF StepInv
  <2> QED BY <2>1, <2>3 DEF TxInv
<1>3. CASE HoldTx
  <2>1. TxTypeOK'
    BY <1>3, ConsoleTxAssumption DEF TxInv, TxTypeOK, HoldTx, Step, locals, bytes, Steps
  <2>2. Holds(transmit_pos, tmax)
    BY <1>0
  <2>3. Holds(transmit_pos, tmax)' /\ tx_pc' = "read_pos"
        /\ transmit_max' = 0 /\ tpos' <= transmit_pos' /\ FitsMoved'
    BY <1>0, <1>3, <2>2 DEF Holds, HoldTx, FitsMoved, Step, locals, bytes
  <2>4. StepInv' BY <2>3 DEF StepInv
  <2> QED BY <2>1, <2>4 DEF TxInv
<1> QED BY <1>1, <1>2, <1>3

\* The bytes that are left move to the front.
LEMMA MoveBufferInv ==
  ASSUME TxInv, MoveBuffer
  PROVE  TxInv'
<1>0. /\ transmit_max = 0 /\ Holds(transmit_pos, tmax)
      /\ tpos <= transmit_pos /\ FitsMoved /\ tx_pc' = "move_pos"
  BY DEF TxInv, StepInv, MoveBuffer, Step
<1>1. /\ transmit_pos \in 0 .. Size /\ tmax \in 0 .. Size /\ max_size \in MinSize .. Size
      /\ tpos \in 0 .. Size /\ MinSize \in 1 .. Size /\ Size \in 1 .. 255
      /\ transmit_buf \in [0 .. Size - 1 -> 0 .. Mod - 1]
  BY ConsoleTxAssumption DEF TxInv, TxTypeOK
<1>2. transmit_pos <= tmax BY <1>0 DEF Holds
<1>3. /\ tmax' = tmax - transmit_pos /\ tmax' \in 0 .. Size
      /\ transmit_buf' = [i \in 0 .. Size - 1 |->
                            IF i < tmax' THEN transmit_buf[transmit_pos + i]
                                         ELSE transmit_buf[i]]
  BY <1>1, <1>2 DEF MoveBuffer, memmove
<1>4. transmit_buf' \in [0 .. Size - 1 -> 0 .. Mod - 1]
  BY <1>1, <1>3
<1>5. TxTypeOK'
  BY <1>1, <1>3, <1>4 DEF TxInv, TxTypeOK, MoveBuffer, Step, bytes, Steps
<1>6. Holds(0, tmax)'
  <2>1. gen' = Num(sent', tmax' - 0)
    BY <1>0, <1>1, <1>3 DEF Holds, MoveBuffer, bytes
  <2>2. ASSUME NEW i \in 0 .. tmax' - 1
        PROVE  transmit_buf'[i] = Num(sent', i - 0)
    <3>1. /\ transmit_pos + i \in transmit_pos .. tmax - 1
          /\ (transmit_pos + i) - transmit_pos = i - 0
      BY <1>1, <1>3
    <3>2. transmit_buf[transmit_pos + i] = Num(sent, (transmit_pos + i) - transmit_pos)
      <4>1. \A j \in transmit_pos .. tmax - 1 : transmit_buf[j] = Num(sent, j - transmit_pos)
        BY <1>0 DEF Holds
      <4>2. transmit_pos + i \in transmit_pos .. tmax - 1 BY <3>1
      <4> QED BY <4>1, <4>2, Zenon
    <3>3. transmit_buf'[i] = transmit_buf[transmit_pos + i]
      BY <1>1, <1>3
    <3> QED BY <3>1, <3>2, <3>3 DEF MoveBuffer, bytes
  <2> QED BY <1>3, <2>1, <2>2 DEF Holds
<1>7. transmit_max' = 0 /\ FitsBehind'
  BY <1>0, <1>1, <1>3 DEF MoveBuffer, FitsMoved, FitsBehind
<1>8. StepInv' BY <1>0, <1>6, <1>7 DEF StepInv
<1> QED BY <1>5, <1>8 DEF TxInv

\* The moved bytes are shown to the interrupt again, transmit_max last.
LEMMA MoveRestInv ==
  ASSUME TxInv, MovePos \/ MoveMax \/ MoveIrq
  PROVE  TxInv'
<1>1. CASE MovePos
  <2>1. TxTypeOK'
    BY <1>1, ConsoleTxAssumption DEF TxInv, TxTypeOK, MovePos, Step, locals, bytes, Steps
  <2>2. tx_pc' = "move_max" /\ transmit_pos' = 0 /\ transmit_max' = 0
        /\ Holds(0, tmax)' /\ FitsBehind'
    BY <1>1 DEF TxInv, StepInv, MovePos, Step, Holds, FitsBehind, locals, bytes
  <2>3. StepInv' BY <2>2 DEF StepInv
  <2> QED BY <2>1, <2>3 DEF TxInv
<1>2. CASE MoveMax
  <2>1. TxTypeOK'
    BY <1>2 DEF TxInv, TxTypeOK, MoveMax, Step, locals, bytes, Steps
  <2>2. tx_pc' = "move_irq" /\ tmax' = transmit_max'
        /\ Holds(transmit_pos, transmit_max)' /\ FitsBehind'
    BY <1>2 DEF TxInv, StepInv, MoveMax, Step, Holds, FitsBehind, locals, bytes
  <2>3. StepInv' BY <2>2 DEF StepInv
  <2> QED BY <2>1, <2>3 DEF TxInv
<1>3. CASE MoveIrq
  <2>1. TxTypeOK'
    BY <1>3 DEF TxInv, TxTypeOK, MoveIrq, Step, buffer, locals, bytes, Steps
  <2>2. tx_pc' = "encode" /\ tmax' = transmit_max'
        /\ Holds(transmit_pos, transmit_max)' /\ FitsBehind'
    BY <1>3 DEF TxInv, StepInv, MoveIrq, Step, Holds, FitsBehind, buffer, locals, bytes
  <2>3. StepInv' BY <2>2 DEF StepInv
  <2> QED BY <2>1, <2>3 DEF TxInv
<1> QED BY <1>1, <1>2, <1>3

\* The message is written behind the bytes that wait.
LEMMA EncodeInv ==
  ASSUME TxInv, Encode
  PROVE  TxInv'
<1>0. /\ Holds(transmit_pos, transmit_max) /\ tmax = transmit_max /\ FitsBehind
      /\ tx_pc' = "publish"
  BY DEF TxInv, StepInv, Encode, Step
<1>1. PICK msglen \in MinSize .. max_size :
        /\ max_size' = msglen
        /\ transmit_buf' = [i \in 0 .. Size - 1 |->
             IF i \in tmax .. tmax + msglen - 1 THEN (gen + i - tmax) % Mod
                                                ELSE transmit_buf[i]]
  BY DEF Encode
<1>2. /\ transmit_pos \in 0 .. Size /\ tmax \in 0 .. Size /\ max_size \in MinSize .. Size
      /\ MinSize \in 1 .. Size /\ Size \in 1 .. 255 /\ gen \in 0 .. Mod - 1
      /\ transmit_buf \in [0 .. Size - 1 -> 0 .. Mod - 1] /\ Mod \in Nat /\ Mod > 0
  BY ConsoleTxAssumption DEF TxInv, TxTypeOK
<1>3. \A i \in 0 .. Size - 1 : (gen + i - tmax) % Mod \in 0 .. Mod - 1
  BY <1>2
<1>4. transmit_buf' \in [0 .. Size - 1 -> 0 .. Mod - 1]
  BY <1>1, <1>2, <1>3
<1>5. max_size' \in MinSize .. Size /\ tmax + max_size' <= Size
  BY <1>0, <1>1, <1>2 DEF FitsBehind
<1>6. TxTypeOK'
  BY <1>4, <1>5 DEF TxInv, TxTypeOK, Encode, Step, bytes, Steps
<1>7. UNCHANGED <<transmit_pos, transmit_max, tmax, gen, sent>>
  BY DEF Encode, bytes
<1>8. Holds(transmit_pos, transmit_max)'
  <2>1. ASSUME NEW i \in transmit_pos .. transmit_max - 1
        PROVE  transmit_buf'[i] = transmit_buf[i]
    <3>1. i \in 0 .. Size - 1 /\ ~(i \in tmax .. tmax + msglen - 1)
      BY <1>0, <1>2
    <3> QED BY <1>1, <3>1
  <2> QED BY <1>0, <1>7, <2>1 DEF Holds
<1>9. \A i \in tmax .. tmax + max_size' - 1 : transmit_buf'[i] = Num(gen, i - tmax)
  <2> SUFFICES ASSUME NEW i \in tmax .. tmax + max_size' - 1
               PROVE  transmit_buf'[i] = Num(gen, i - tmax)
    OBVIOUS
  <2>1. i \in tmax .. tmax + msglen - 1 BY <1>1
  <2>2. tmax + msglen <= Size /\ msglen \in Int BY <1>1, <1>2, <1>5
  <2>3. i \in 0 .. Size - 1 BY <1>2, <2>1, <2>2
  <2> QED BY <1>1, <2>1, <2>3 DEF Num
<1>10. tmax' = transmit_max' /\ FitsBehind'
  BY <1>0, <1>5, <1>7 DEF FitsBehind
<1>11. StepInv'
  BY <1>0, <1>7, <1>8, <1>9, <1>10 DEF StepInv
<1> QED BY <1>6, <1>11 DEF TxInv

\* The store to transmit_max shows the whole message.
LEMMA PublishInv ==
  ASSUME TxInv, Publish
  PROVE  TxInv'
<1>0. /\ Holds(transmit_pos, transmit_max) /\ tmax = transmit_max /\ FitsBehind
      /\ \A i \in tmax .. tmax + max_size - 1 : transmit_buf[i] = Num(gen, i - tmax)
      /\ tx_pc' = "publish_irq"
  BY DEF TxInv, StepInv, Publish, Step
<1>1. /\ transmit_pos \in 0 .. Size /\ tmax \in 0 .. Size /\ max_size \in MinSize .. Size
      /\ MinSize \in 1 .. Size /\ Size \in 1 .. 255 /\ gen \in 0 .. Mod - 1
      /\ sent \in 0 .. Mod - 1 /\ transmit_pos <= tmax /\ tmax + max_size <= Size
      /\ gen = Num(sent, tmax - transmit_pos)
  BY <1>0, ConsoleTxAssumption DEF TxInv, TxTypeOK, FitsBehind, Holds
<1>2. /\ transmit_max' = tmax + max_size /\ gen' = Num(gen, max_size)
      /\ UNCHANGED <<transmit_buf, transmit_pos, sent>>
  BY DEF Publish, Num
<1>3. gen' \in 0 .. Mod - 1
  <2>1. max_size \in 0 .. Mod - 1 BY <1>1, ConsoleTxAssumption
  <2> QED BY <1>1, <1>2, <2>1, NumType, ConsoleTxAssumption
<1>4. TxTypeOK'
  BY <1>1, <1>2, <1>3 DEF TxInv, TxTypeOK, Publish, Step, locals, Steps
<1>5. gen' = Num(sent, transmit_max' - transmit_pos)
  <2>1. /\ tmax - transmit_pos \in 0 .. Size /\ max_size \in 0 .. Size
        /\ tmax - transmit_pos + max_size <= Size
        /\ tmax - transmit_pos + max_size = transmit_max' - transmit_pos
    BY <1>1, <1>2
  <2> QED BY <1>1, <1>2, <2>1, NumAdd, ConsoleTxAssumption
<1>6. ASSUME NEW i \in transmit_pos .. transmit_max' - 1
      PROVE  transmit_buf[i] = Num(sent, i - transmit_pos)
  <2>1. CASE i < tmax
    <3>1. i \in transmit_pos .. transmit_max - 1
      BY <1>0, <1>1, <1>2, <2>1
    <3> QED BY <1>0, <3>1 DEF Holds
  <2>2. CASE i >= tmax
    <3>1. i \in tmax .. tmax + max_size - 1
      BY <1>1, <1>2, <2>2
    <3>2. transmit_buf[i] = Num(gen, i - tmax)
      BY <1>0, <3>1
    <3>3. /\ tmax - transmit_pos \in 0 .. Size /\ i - tmax \in 0 .. Size
          /\ tmax - transmit_pos + (i - tmax) <= Size
          /\ tmax - transmit_pos + (i - tmax) = i - transmit_pos
      BY <1>1, <3>1
    <3> QED BY <1>1, <3>2, <3>3, NumAdd, ConsoleTxAssumption
  <2> QED BY <1>1, <1>2, <2>1, <2>2
<1>7. transmit_pos <= transmit_max'
  BY <1>1, <1>2
<1>8. Holds(transmit_pos, transmit_max)'
  BY <1>2, <1>5, <1>6, <1>7 DEF Holds
<1>9. StepInv' BY <1>0, <1>8 DEF StepInv
<1> QED BY <1>4, <1>9 DEF TxInv

\* The interrupt is on and the call returns.
LEMMA PublishIrqInv ==
  ASSUME TxInv, PublishIrq
  PROVE  TxInv'
<1>1. TxTypeOK'
  BY DEF TxInv, TxTypeOK, PublishIrq, buffer, locals, bytes, Steps
<1>2. Holds(transmit_pos, transmit_max)' /\ tx_pc' = "idle"
  BY DEF TxInv, StepInv, PublishIrq, Holds, buffer, bytes
<1>3. StepInv' BY <1>2 DEF StepInv
<1> QED BY <1>1, <1>3 DEF TxInv

\* One byte leaves a buffer that holds what is due.
LEMMA HoldsTx ==
  ASSUME TxTypeOK, TxByte, NEW hi \in 0 .. Size,
         Holds(transmit_pos, hi), transmit_pos < hi
  PROVE  /\ transmit_pos' <= hi /\ gen' = Num(sent', hi - transmit_pos')
         /\ \A i \in transmit_pos' .. hi - 1 : transmit_buf'[i] = Num(sent', i - transmit_pos')
<1>1. /\ transmit_pos' = transmit_pos + 1 /\ sent' = Num(sent, 1)
      /\ UNCHANGED <<gen, transmit_buf>>
  BY DEF TxByte, Num
<1>2. transmit_pos \in 0 .. Size /\ Size \in 1 .. 255 /\ sent \in 0 .. Mod - 1
  BY ConsoleTxAssumption DEF TxTypeOK
<1>3. ASSUME NEW i \in transmit_pos + 1 .. hi
      PROVE  Num(sent, i - transmit_pos) = Num(sent', i - transmit_pos')
  <2>1. /\ i - transmit_pos' \in 0 .. Size /\ 1 \in 0 .. Size
        /\ 1 + (i - transmit_pos') <= Size
        /\ 1 + (i - transmit_pos') = i - transmit_pos
    BY <1>1, <1>2
  <2> QED BY <1>1, <1>2, <2>1, NumAdd, ConsoleTxAssumption
<1>4. transmit_pos' <= hi
  BY <1>1, <1>2
<1>5. gen' = Num(sent', hi - transmit_pos')
  <2>1. hi \in transmit_pos + 1 .. hi BY <1>2
  <2>2. gen = Num(sent, hi - transmit_pos) BY DEF Holds
  <2> QED BY <1>1, <1>3, <2>1, <2>2
<1>6. ASSUME NEW i \in transmit_pos' .. hi - 1
      PROVE  transmit_buf'[i] = Num(sent', i - transmit_pos')
  <2>1. i \in transmit_pos + 1 .. hi /\ i \in transmit_pos .. hi - 1
    BY <1>1, <1>2
  <2>2. transmit_buf[i] = Num(sent, i - transmit_pos)
    BY <2>1 DEF Holds
  <2> QED BY <1>1, <1>3, <2>1, <2>2
<1> QED BY <1>4, <1>5, <1>6

\* The interrupt hands out a byte: never while the buffer is hidden or reset.
LEMMA TxByteInv ==
  ASSUME TxInv, TxByte
  PROVE  TxInv'
<1>1. /\ transmit_pos \in 0 .. Size /\ transmit_max \in 0 .. Size /\ Size \in 1 .. 255
      /\ tmax \in 0 .. Size /\ tpos \in 0 .. Size /\ sent \in 0 .. Mod - 1
      /\ transmit_pos < transmit_max
  BY ConsoleTxAssumption DEF TxInv, TxTypeOK, TxByte
<1>2. sent' \in 0 .. Mod - 1
  <2>1. 1 \in 0 .. Size BY <1>1
  <2> QED BY <1>1, <2>1, NumType, ConsoleTxAssumption DEF TxByte, Num
<1>3. transmit_pos' \in 0 .. Size
  BY <1>1 DEF TxByte
<1>4. TxTypeOK'
  BY <1>2, <1>3 DEF TxInv, TxTypeOK, TxByte, locals, Steps
<1>5. tx_pc \in {"idle", "read_max", "room", "move_irq", "encode", "publish", "publish_irq"}
  BY <1>1 DEF TxInv, TxTypeOK, StepInv, Steps, Drained
<1>6. Holds(transmit_pos, transmit_max)
  BY <1>1, <1>5 DEF TxInv, StepInv, Drained
<1>7. Holds(transmit_pos, transmit_max)'
  <2>1. TxTypeOK BY DEF TxInv
  <2>2. /\ transmit_pos' <= transmit_max /\ gen' = Num(sent', transmit_max - transmit_pos')
        /\ \A i \in transmit_pos' .. transmit_max - 1 :
             transmit_buf'[i] = Num(sent', i - transmit_pos')
    BY <1>1, <1>6, <2>1, HoldsTx
  <2>3. transmit_max' = transmit_max BY DEF TxByte
  <2> QED BY <2>2, <2>3 DEF Holds
<1>8. /\ UNCHANGED <<tx_pc, transmit_max, transmit_buf, tpos, tmax, max_size, gen>>
      /\ transmit_pos' = transmit_pos + 1
  BY DEF TxByte, locals
<1>9. tx_pc \in {"read_max", "room"} => tpos <= transmit_pos
  BY DEF TxInv, StepInv
<1>10. tpos <= transmit_pos => tpos' <= transmit_pos'
  BY <1>1, <1>8
<1>11. transmit_pos' <= transmit_max'
  BY <1>7 DEF Holds
<1>12. tx_pc \in {"room", "move_irq", "encode", "publish"} => tmax' = transmit_max'
  BY <1>8 DEF TxInv, StepInv
<1>13. tx_pc \in {"move_irq", "encode", "publish"} => FitsBehind'
  BY <1>8 DEF TxInv, StepInv, FitsBehind
<1>14. tx_pc = "publish" =>
         \A i \in tmax' .. tmax' + max_size' - 1 : transmit_buf'[i] = Num(gen', i - tmax')
  BY <1>8 DEF TxInv, StepInv
<1>15. StepInv'
  BY <1>5, <1>7, <1>8, <1>9, <1>10, <1>11, <1>12, <1>13, <1>14 DEF StepInv
<1> QED BY <1>4, <1>15 DEF TxInv

\* The interrupt turns itself off, or the host clears a shutdown.
LEMMA QuietInv ==
  ASSUME TxInv, TxDone \/ TxClearShutdown
  PROVE  TxInv'
<1>1. TxTypeOK'
  BY DEF TxInv, TxTypeOK, TxDone, TxClearShutdown, buffer, locals, bytes, Steps
<1>2. UNCHANGED <<transmit_buf, transmit_pos, transmit_max, tpos, tmax, max_size, gen, sent, tx_pc>>
  BY DEF TxDone, TxClearShutdown, buffer, locals, bytes
<1>3. StepInv'
  BY <1>2 DEF TxInv, StepInv, Holds, Drained, FitsBehind, FitsMoved
<1> QED BY <1>1, <1>3 DEF TxInv

\* A shutdown leaves the call at any step.
LEMMA ShutdownInv ==
  ASSUME TxInv, TxShutdown
  PROVE  TxInv'
<1>1. TxTypeOK'
  BY DEF TxInv, TxTypeOK, TxShutdown, sendf_shutdown, buffer, locals, Steps
<1>2. UNCHANGED <<transmit_buf, transmit_pos, transmit_max, gen>> /\ tx_pc' = "idle"
  BY DEF TxShutdown, buffer
<1>3. CASE tx_pc \in {"read_pos", "move_pos", "move_max"}
  <2>1. transmit_max = 0 /\ sent' = gen
    BY <1>3 DEF TxInv, StepInv, TxShutdown
  <2>2. Drained' BY <1>2, <2>1 DEF Drained, TxInv, TxTypeOK
  <2>3. StepInv' BY <1>2, <2>2 DEF StepInv
  <2> QED BY <1>1, <2>3 DEF TxInv
<1>4. CASE ~(tx_pc \in {"read_pos", "move_pos", "move_max"})
  <2>1. sent' = sent BY <1>4 DEF TxShutdown
  <2>2. Holds(transmit_pos, transmit_max) \/ Drained
    BY <1>4 DEF TxInv, TxTypeOK, StepInv, Steps
  <2>3. Holds(transmit_pos, transmit_max)' \/ Drained'
    BY <1>2, <2>1, <2>2 DEF Holds, Drained
  <2>4. StepInv' BY <1>2, <2>3 DEF StepInv
  <2> QED BY <1>1, <2>4 DEF TxInv
<1> QED BY <1>3, <1>4

\* Every step keeps the invariant.
LEMMA TxInvNext == TxInv /\ [TxNext]_txvars => TxInv'
<1> SUFFICES ASSUME TxInv, [TxNext]_txvars PROVE TxInv' OBVIOUS
<1>1. ASSUME NEW n \in Sizes, command_sendf(n) PROVE TxInv'
  BY <1>1, SendfInv
<1>2. CASE Sendf
  BY <1>2, ReadMaxInv, ClearInv, RoomInv, MoveBufferInv, MoveRestInv, EncodeInv,
     PublishInv, PublishIrqInv DEF Sendf
<1>3. CASE TxByte \/ TxDone
  BY <1>3, TxByteInv, QuietInv
<1>4. CASE TxShutdown \/ TxClearShutdown
  BY <1>4, ShutdownInv, QuietInv
<1>5. CASE UNCHANGED txvars
  <2>1. TxTypeOK' BY <1>5 DEF txvars, TxInv, TxTypeOK
  <2>2. StepInv'
    BY <1>5 DEF txvars, TxInv, StepInv, Holds, Drained, FitsBehind, FitsMoved
  <2> QED BY <2>1, <2>2 DEF TxInv
<1> QED BY <1>1, <1>2, <1>3, <1>4, <1>5 DEF TxNext

\* serial_irq.c, console_sendf and serial_get_tx_byte: at every step of a call
\* TxInv says which bytes of the buffer are valid, whatever the interrupt or a
\* shutdown did in between.
THEOREM TransmitInvariance == TxSpec => []TxInv
<1>1. TxInit => TxInv BY TxInvInit
<1>2. TxInv /\ [TxNext]_txvars => TxInv' BY TxInvNext
<1> QED BY <1>1, <1>2, PTL DEF TxSpec

\* console_sendf against the transmit interrupt, without a lock: the bytes the
\* interrupt may read are the next ones due, and between calls no accepted byte
\* is missing from the buffer; for every buffer size and every set of messages.
THEOREM WireIsExact == TxSpec => []WireExact
<1>1. TxInv => WireExact
  <2> SUFFICES ASSUME TxInv PROVE WireExact OBVIOUS
  <2>1. /\ transmit_pos \in 0 .. Size /\ transmit_max \in 0 .. Size /\ Size \in 1 .. 255
        /\ gen \in 0 .. Mod - 1 /\ sent \in 0 .. Mod - 1 /\ Mod \in Nat
    BY ConsoleTxAssumption DEF TxInv, TxTypeOK
  <2>2. transmit_pos < transmit_max => Holds(transmit_pos, transmit_max)
    BY <2>1 DEF TxInv, TxTypeOK, StepInv, Steps, Drained
  <2>3. WireInOrder
    <3> SUFFICES ASSUME NEW i \in transmit_pos .. transmit_max - 1
                 PROVE  transmit_buf[i] = (sent + i - transmit_pos) % Mod
      BY DEF WireInOrder
    <3>1. transmit_buf[i] = Num(sent, i - transmit_pos)
      BY <2>1, <2>2 DEF Holds
    <3>2. sent + (i - transmit_pos) = sent + i - transmit_pos
      BY <2>1
    <3> QED BY <3>1, <3>2 DEF Num
  <2>4. NothingLost
    <3> SUFFICES ASSUME tx_pc = "idle"
                 PROVE  Pending = IF transmit_pos < transmit_max
                                  THEN transmit_max - transmit_pos ELSE 0
      BY DEF NothingLost
    <3>1. CASE Holds(transmit_pos, transmit_max)
      <4>1. transmit_max - transmit_pos \in 0 .. Size
            /\ gen = Num(sent, transmit_max - transmit_pos)
        BY <2>1, <3>1 DEF Holds
      <4>2. Pending = transmit_max - transmit_pos
        BY <2>1, <4>1, NumDistance, ConsoleTxAssumption DEF Pending
      <4> QED BY <2>1, <4>1, <4>2
    <3>2. CASE Drained
      <4>1. (gen - sent) % Mod = 0
        <5>1. gen = Num(sent, 0) /\ 0 \in 0 .. Size
          BY <2>1, <3>2, NumZero, ConsoleTxAssumption DEF Drained
        <5> QED BY <2>1, <5>1, NumDistance, ConsoleTxAssumption
      <4> QED BY <2>1, <3>2, <4>1 DEF Drained, Pending
    <3> QED BY <3>1, <3>2 DEF TxInv, StepInv
  <2> QED BY <2>3, <2>4 DEF WireExact
<1> QED BY <1>1, TransmitInvariance, PTL

-----------------------------------------------------------------------------
(* The receive half.                                                       *)

\* What readb asks of the host: fewer than Byte bytes ever wait.  (MCConsoleRxWindow
\* shows what happens otherwise.)
ReceiveOK == Window < Byte

\* The types, and that the byte read is the whole of receive_pos.
RxTypes ==
  /\ receive_buf \in [0 .. RxSize - 1 -> Slots]
  /\ receive_pos \in 0 .. RxSize /\ receive_pos <= Window
  /\ woken \in BOOLEAN /\ wild = FALSE
  /\ rx_pc \in {"sleep", "find", "pop", "commit"}
  /\ rpos \in Nat /\ len \in Nat /\ needcopy \in Int /\ copied \in Nat /\ seen \in Nat
  /\ torn \in Nat /\ cut \in BOOLEAN
  /\ stored \in 0 .. Mod - 1 /\ first \in 0 .. Mod - 1
  /\ stored = Num(first, receive_pos)

\* The bytes from slot lo up to slot hi are those that many places behind first, but
\* for the bytes a shutdown left out of place.
Slot(lo, hi, shift) ==
  \A i \in lo .. hi - 1 : shift + i >= torn => receive_buf[i].num = Num(first, shift + i)

\* While console_pop_input runs, the front of the buffer is the moved part and
\* what lies behind it is as it was.
PopInv ==
  /\ rx_pc \in {"sleep", "find"} => Slot(0, receive_pos, 0)
  /\ rx_pc \in {"pop", "commit"} =>
       /\ copied + len <= receive_pos
       /\ Slot(0, copied, len) /\ Slot(copied, receive_pos, 0)
  /\ rx_pc = "commit" => copied = needcopy /\ needcopy = rpos - len /\ rpos <= receive_pos

\* A task that goes to sleep with bytes left has asked to be woken.
SleepInv ==
  /\ AsleepHasSeen
  /\ rx_pc = "commit" /\ ~woken => needcopy = 0

\* The inductive invariant of the receive half.
RxInv == RxTypes /\ PopInv /\ SleepInv

\* readb reads all of receive_pos.
LEMMA ReadbExact ==
  ASSUME ReceiveOK, RxTypes
  PROVE  readb(receive_pos) = receive_pos
BY ConsoleRxAssumption DEF ReceiveOK, RxTypes, readb

\* The initial buffer is empty.
LEMMA ReceiveInit ==
  ASSUME ReceiveOK, RxInit
  PROVE  RxInv
<1>1. RxTypes
  <2>1. 0 \in 0 .. Mod - 1 /\ RxSize \in Nat /\ Mod \in Nat /\ Window \in Nat
    BY ConsoleRxAssumption DEF ReceiveOK
  <2>2. [num |-> 0, sync |-> FALSE] \in Slots
    BY <2>1 DEF Slots
  <2>3. receive_buf \in [0 .. RxSize - 1 -> Slots]
    BY <2>2 DEF RxInit
  <2>4. stored = Num(first, receive_pos)
    BY <2>1, NumZero DEF RxInit
  <2>5. woken \in BOOLEAN /\ cut \in BOOLEAN /\ wild = FALSE /\ rx_pc \in {"sleep", "find", "pop", "commit"}
    BY Zenon DEF RxInit
  <2>6. /\ receive_pos \in 0 .. RxSize /\ receive_pos <= Window
        /\ rpos \in Nat /\ len \in Nat /\ needcopy \in Int /\ copied \in Nat /\ seen \in Nat
        /\ torn \in Nat /\ stored \in 0 .. Mod - 1 /\ first \in 0 .. Mod - 1
    BY <2>1 DEF RxInit
  <2> QED BY <2>3, <2>4, <2>5, <2>6 DEF RxTypes
<1>2. PopInv
  BY DEF RxInit, PopInv, Slot
<1>3. SleepInv
  BY DEF RxInit, SleepInv, AsleepHasSeen
<1> QED BY <1>1, <1>2, <1>3 DEF RxInv

\* A byte comes in, at any step of the task.
LEMMA RxByteInv ==
  ASSUME ReceiveOK, RxInv, NEW sync \in BOOLEAN, serial_rx_byte(sync)
  PROVE  RxInv'
<1>0. /\ Mod \in Nat /\ RxSize \in Nat /\ RxSize < Mod /\ Window \in Nat
      /\ receive_pos \in 0 .. RxSize /\ receive_pos < Window
      /\ first \in 0 .. Mod - 1 /\ stored \in 0 .. Mod - 1 /\ stored = Num(first, receive_pos)
      /\ receive_buf \in [0 .. RxSize - 1 -> Slots]
      /\ copied \in Nat /\ len \in Nat /\ seen \in Nat /\ torn \in Nat
  BY ConsoleRxAssumption DEF ReceiveOK, RxInv, RxTypes, serial_rx_byte
<1>1. UNCHANGED <<rx_pc, rpos, len, needcopy, copied, wild, first, seen, torn, cut>>
  BY DEF serial_rx_byte
<1>2. woken' = (woken \/ sync) /\ woken' \in BOOLEAN
  BY DEF serial_rx_byte, RxInv, RxTypes
<1>3. CASE receive_pos >= RxSize
  <2>1. UNCHANGED <<receive_buf, receive_pos, stored>>
    BY <1>3 DEF serial_rx_byte
  <2>2. RxTypes' BY <1>1, <1>2, <2>1 DEF RxInv, RxTypes
  <2>3. PopInv' BY <1>1, <2>1 DEF RxInv, PopInv, Slot
  <2>4. SleepInv'
    BY <1>1, <1>2, <2>1 DEF RxInv, SleepInv, AsleepHasSeen
  <2> QED BY <2>2, <2>3, <2>4 DEF RxInv
<1>4. CASE ~(receive_pos >= RxSize)
  <2> DEFINE slot == [num |-> stored, sync |-> sync]
  <2>1. /\ receive_pos' = receive_pos + 1
        /\ receive_buf' = [receive_buf EXCEPT ![receive_pos] = slot]
        /\ stored' = Num(stored, 1)
    BY <1>4 DEF serial_rx_byte, Num
  <2>2. slot \in Slots /\ slot.num = stored /\ slot.sync = sync
    BY <1>0 DEF Slots
  <2> HIDE DEF slot
  <2>3. receive_pos \in 0 .. RxSize - 1 /\ receive_pos' \in 0 .. RxSize
        /\ receive_pos' <= Window
    BY <1>0, <1>4, <2>1
  <2>4. receive_buf' \in [0 .. RxSize - 1 -> Slots]
    BY <1>0, <2>1, <2>2, <2>3
  <2>5. receive_buf'[receive_pos] = slot
        /\ \A i \in 0 .. RxSize - 1 : i # receive_pos => receive_buf'[i] = receive_buf[i]
    BY <1>0, <2>1, <2>3
  <2>6. stored' = Num(first, receive_pos') /\ stored' \in 0 .. Mod - 1
    <3>1. /\ receive_pos \in 0 .. Mod - 1 /\ 1 \in 0 .. Mod - 1 /\ receive_pos + 1 < Mod
      BY <1>0, <2>3
    <3> QED BY <1>0, <2>1, <3>1, NumAdd, NumType
  <2>7. RxTypes'
    BY <1>1, <1>2, <2>3, <2>4, <2>6 DEF RxInv, RxTypes
  <2>8. ASSUME NEW lo \in Nat, Slot(lo, receive_pos, 0)
        PROVE  Slot(lo, receive_pos, 0)'
    <3> SUFFICES ASSUME NEW i \in lo .. receive_pos' - 1, 0 + i >= torn
                 PROVE  receive_buf'[i].num = Num(first, 0 + i)
      BY <1>1 DEF Slot
    <3>1. CASE i = receive_pos
      BY <1>0, <2>2, <2>5, <3>1
    <3>2. CASE i # receive_pos
      <4>1. i \in lo .. receive_pos - 1 /\ i \in 0 .. RxSize - 1
        BY <1>0, <2>1, <2>3, <3>2
      <4> QED BY <2>5, <2>8, <3>2, <4>1 DEF Slot
    <3> QED BY <3>1, <3>2
  <2>9. PopInv'
    <3>1. CASE rx_pc \in {"sleep", "find"}
      BY <1>1, <2>8, <3>1 DEF RxInv, PopInv
    <3>2. CASE rx_pc \in {"pop", "commit"}
      <4>1. copied + len <= receive_pos /\ copied \in Nat
            /\ Slot(0, copied, len) /\ Slot(copied, receive_pos, 0)
        BY <1>0, <3>2 DEF RxInv, PopInv
      <4>2. Slot(copied, receive_pos, 0)'
        BY <1>1, <2>8, <4>1
      <4>3. Slot(0, copied, len)'
        <5> SUFFICES ASSUME NEW i \in 0 .. copied - 1, len + i >= torn
                     PROVE  receive_buf'[i].num = Num(first, len + i)
          BY <1>1 DEF Slot
        <5>1. i \in 0 .. RxSize - 1 /\ i # receive_pos
          BY <1>0, <2>3, <4>1
        <5> QED BY <2>5, <4>1, <5>1 DEF Slot
      <4>4. copied' + len' <= receive_pos'
        BY <1>0, <1>1, <2>1, <4>1
      <4>5. rx_pc = "commit" =>
              copied' = needcopy' /\ needcopy' = rpos' - len' /\ rpos' <= receive_pos'
        BY <1>0, <1>1, <2>1 DEF RxInv, RxTypes, PopInv
      <4> QED BY <1>1, <3>2, <4>2, <4>3, <4>4, <4>5 DEF PopInv
    <3> QED BY <3>1, <3>2 DEF RxInv, RxTypes
  <2>10. SleepInv'
    <3>1. AsleepHasSeen'
      <4> SUFFICES ASSUME rx_pc' = "sleep", ~woken', ~cut', NEW i \in seen' .. receive_pos' - 1
                   PROVE  ~receive_buf'[i].sync
        BY DEF AsleepHasSeen
      <4>1. CASE i = receive_pos
        BY <1>2, <2>2, <2>5, <4>1
      <4>2. CASE i # receive_pos
        <5>1. i \in seen .. receive_pos - 1 /\ i \in 0 .. RxSize - 1
          BY <1>0, <1>1, <2>1, <2>3, <4>2
        <5>2. ~receive_buf[i].sync
          BY <1>1, <1>2, <5>1 DEF RxInv, SleepInv, AsleepHasSeen
        <5> QED BY <2>5, <4>2, <5>1, <5>2
      <4> QED BY <4>1, <4>2
    <3>2. rx_pc' = "commit" /\ ~woken' => needcopy' = 0
      BY <1>1, <1>2 DEF RxInv, SleepInv
    <3> QED BY <3>1, <3>2 DEF SleepInv
  <2> QED BY <2>7, <2>9, <2>10 DEF RxInv
<1> QED BY <1>3, <1>4

\* The tasks are woken, or begin to run.
LEMMA WakeInv ==
  ASSUME RxInv, OtherWake \/ RunTasks
  PROVE  RxInv'
<1>1. UNCHANGED <<receive_buf, receive_pos, rpos, len, needcopy, copied, wild,
                  stored, first, seen, torn>>
  BY DEF OtherWake, RunTasks
<1>2. CASE OtherWake
  <2>1. woken' = TRUE /\ rx_pc' = rx_pc /\ cut' = cut BY <1>2 DEF OtherWake
  <2>2. RxTypes' BY <1>1, <2>1 DEF RxInv, RxTypes
  <2>3. PopInv' BY <1>1, <2>1 DEF RxInv, PopInv, Slot
  <2>4. SleepInv' BY <2>1 DEF SleepInv, AsleepHasSeen
  <2> QED BY <2>2, <2>3, <2>4 DEF RxInv
<1>3. CASE RunTasks
  <2>1. woken' = FALSE /\ rx_pc = "sleep" /\ rx_pc' = "find" /\ cut' = FALSE
    BY <1>3 DEF RunTasks
  <2>2. RxTypes' BY <1>1, <2>1 DEF RxInv, RxTypes
  <2>3. PopInv' BY <1>1, <2>1 DEF RxInv, PopInv, Slot
  <2>4. SleepInv' BY <2>1 DEF SleepInv, AsleepHasSeen
  <2> QED BY <2>2, <2>3, <2>4 DEF RxInv
<1> QED BY <1>2, <1>3

\* With nothing copied yet, the part to remove lies inside the buffer.
LEMMA FrontBound ==
  ASSUME NEW p \in Int, NEW l \in 1 .. p, NEW c, c = 0
  PROVE  c + l \in Nat /\ c + l <= p
OBVIOUS

\* console_task looks at the front of the buffer.
LEMMA FindInv ==
  ASSUME ReceiveOK, RxInv, FindNothing \/ FindBlock
  PROVE  RxInv'
<1>0. RxTypes /\ PopInv /\ rx_pc = "find" /\ readb(receive_pos) = receive_pos
  BY ReadbExact DEF RxInv, FindNothing, FindBlock
<1>1. UNCHANGED <<receive_buf, receive_pos, woken, needcopy, wild, stored, first, torn, cut>>
  BY DEF FindNothing, FindBlock
<1>2. receive_pos \in 0 .. RxSize /\ RxSize \in Nat
  BY <1>0, ConsoleRxAssumption DEF RxTypes, ReceiveOK
<1>3. Slot(0, receive_pos, 0) BY <1>0 DEF PopInv
<1>4. CASE FindNothing
  <2>1. rpos' = receive_pos /\ seen' = receive_pos /\ rx_pc' = "sleep"
        /\ UNCHANGED <<len, copied>>
    BY <1>0, <1>4 DEF FindNothing
  <2>2. RxTypes' BY <1>0, <1>1, <1>2, <2>1 DEF RxTypes
  <2>3. PopInv' BY <1>1, <1>3, <2>1 DEF PopInv, Slot
  <2>4. SleepInv' BY <1>1, <1>2, <2>1 DEF SleepInv, AsleepHasSeen
  <2> QED BY <2>2, <2>3, <2>4 DEF RxInv
<1>5. CASE FindBlock
  <2>1. rpos' = receive_pos /\ seen' = 0 /\ copied' = 0 /\ rx_pc' = "pop"
    BY <1>0, <1>5 DEF FindBlock
  <2>2. len' \in 1 .. receive_pos
    <3>1. len' \in PopCounts(receive_pos) BY <1>0, <1>5 DEF FindBlock
    <3> QED BY <1>2, <3>1 DEF PopCounts
  <2>3. RxTypes' BY <1>0, <1>1, <1>2, <2>1, <2>2 DEF RxTypes
  <2>4. Slot(0, copied, len)' BY <2>1 DEF Slot
  <2>5. /\ copied' = 0 /\ copied' + len' <= receive_pos'
        /\ receive_pos' = receive_pos /\ receive_pos \in Int
    <3>1. receive_pos \in Int /\ receive_pos' = receive_pos BY <1>1, <1>2
    <3>2. copied' + len' \in Nat /\ copied' + len' <= receive_pos
      BY <2>1, <2>2, <3>1, FrontBound, Zenon
    <3> QED BY <2>1, <3>1, <3>2, Zenon
  <2>6. Slot(copied, receive_pos, 0)' BY <1>1, <1>3, <2>5 DEF Slot
  <2>7. copied' + len' <= receive_pos' BY <2>5
  <2>8. PopInv' BY <2>1, <2>4, <2>6, <2>7 DEF PopInv
  <2>9. SleepInv' BY <2>1 DEF SleepInv, AsleepHasSeen
  <2> QED BY <2>3, <2>8, <2>9 DEF RxInv
<1> QED BY <1>4, <1>5

\* Slots behind those that were moved.
LEMMA Beyond ==
  ASSUME NEW a \in Nat, NEW c \in Nat, NEW p \in Nat, NEW n \in Nat,
         a <= c, p <= n, NEW i \in c .. p - 1
  PROVE  i \in 0 .. n - 1 /\ i \in a .. p - 1 /\ ~(i \in a .. c - 1)
OBVIOUS

\* One round of console_pop_input moves the bytes that came in since the last.
LEMMA PopMoveInv ==
  ASSUME ReceiveOK, RxInv, PopMove
  PROVE  RxInv'
<1>0. RxTypes /\ PopInv /\ rx_pc = "pop" /\ readb(receive_pos) = receive_pos
  BY ReadbExact DEF RxInv, PopMove
<1>1. /\ receive_pos \in 0 .. RxSize /\ RxSize \in Nat /\ len \in Nat /\ copied \in Nat
      /\ copied + len <= receive_pos /\ Slot(0, copied, len)
      /\ Slot(copied, receive_pos, 0) /\ torn \in Nat
      /\ receive_buf \in [0 .. RxSize - 1 -> Slots]
  BY <1>0, ConsoleRxAssumption DEF RxTypes, PopInv, ReceiveOK
<1>2. rpos' = receive_pos /\ needcopy' = receive_pos - len /\ rx_pc' = "commit"
      /\ woken' = (woken \/ needcopy' # 0)
      /\ UNCHANGED <<receive_pos, len, stored, first, seen, torn, cut>>
  BY <1>0 DEF PopMove
<1>3. needcopy' >= copied /\ needcopy' \in Nat
  BY <1>1, <1>2
<1>4. /\ receive_buf' = pop_memmove(copied, copied + len, needcopy' - copied)
      /\ copied' = needcopy' /\ wild' = wild
  BY <1>3 DEF PopMove
<1>5. ASSUME NEW i \in 0 .. RxSize - 1
      PROVE  receive_buf'[i] = IF i \in copied .. needcopy' - 1
                               THEN receive_buf[i + len] ELSE receive_buf[i]
  <2>1. copied + (needcopy' - copied) - 1 = needcopy' - 1
        /\ copied + len + i - copied = i + len
    BY <1>1, <1>3
  <2>2. receive_buf'[i] = IF i \in copied .. copied + (needcopy' - copied) - 1
                          THEN receive_buf[copied + len + i - copied] ELSE receive_buf[i]
    BY <1>4 DEF pop_memmove
  <2> QED BY <2>1, <2>2
<1>6. receive_buf' \in [0 .. RxSize - 1 -> Slots]
  <2>1. ASSUME NEW i \in 0 .. RxSize - 1
        PROVE  receive_buf'[i] \in Slots
    <3>1. i \in copied .. needcopy' - 1 => i + len \in 0 .. RxSize - 1
      BY <1>1, <1>2
    <3> QED BY <1>1, <1>5, <3>1
  <2> QED BY <1>4, <2>1 DEF pop_memmove
<1>7. woken' \in BOOLEAN BY <1>2
<1>8. RxTypes'
  BY <1>0, <1>1, <1>2, <1>3, <1>4, <1>6, <1>7 DEF RxTypes
<1>9. Slot(0, copied, len)'
  <2> SUFFICES ASSUME NEW i \in 0 .. copied' - 1, len + i >= torn
               PROVE  receive_buf'[i].num = Num(first, len + i)
    BY <1>2 DEF Slot
  <2>1. i \in 0 .. RxSize - 1 BY <1>1, <1>2, <1>4
  <2>2. CASE i < copied
    <3>1. i \in 0 .. copied - 1 /\ ~(i \in copied .. needcopy' - 1) BY <1>1, <2>2
    <3> QED BY <1>1, <1>5, <2>1, <3>1 DEF Slot
  <2>3. CASE i >= copied
    <3>1. i \in copied .. needcopy' - 1 /\ i + len \in copied .. receive_pos - 1
          /\ 0 + (i + len) = len + i
      BY <1>1, <1>2, <1>4, <2>3
    <3>2. receive_buf[i + len].num = Num(first, 0 + (i + len))
      BY <1>1, <3>1 DEF Slot
    <3> QED BY <1>5, <2>1, <3>1, <3>2
  <2> QED BY <1>1, <2>1, <2>2, <2>3
<1>10. copied' + len' = receive_pos' /\ copied' + len' <= receive_pos' BY <1>1, <1>2, <1>4
<1>11. Slot(copied, receive_pos, 0)'
  <2> SUFFICES ASSUME NEW i \in copied' .. receive_pos - 1, 0 + i >= torn
               PROVE  receive_buf'[i].num = Num(first, 0 + i)
    BY <1>2 DEF Slot
  <2>1. /\ copied \in Nat /\ needcopy' \in Nat /\ copied <= needcopy'
        /\ receive_pos \in Nat /\ receive_pos <= RxSize /\ RxSize \in Nat
    BY <1>1, <1>3
  <2>2. i \in needcopy' .. receive_pos - 1 BY <1>4
  <2>3. /\ i \in 0 .. RxSize - 1 /\ i \in copied .. receive_pos - 1
        /\ ~(i \in copied .. needcopy' - 1)
    BY <2>1, <2>2, Beyond
  <2> QED BY <1>1, <1>5, <2>3 DEF Slot
<1>12. PopInv'
  BY <1>1, <1>2, <1>4, <1>9, <1>10, <1>11 DEF PopInv
<1>13. SleepInv'
  BY <1>2 DEF SleepInv, AsleepHasSeen
<1> QED BY <1>8, <1>12, <1>13 DEF RxInv

\* console_pop_input starts again, or removes what was parsed.
LEMMA PopEndInv ==
  ASSUME ReceiveOK, RxInv, PopRetry \/ PopDone
  PROVE  RxInv'
<1>0. RxTypes /\ PopInv /\ rx_pc = "commit" /\ readb(receive_pos) = receive_pos
  BY ReadbExact DEF RxInv, PopRetry, PopDone
<1>1. UNCHANGED <<receive_buf, woken, rpos, len, needcopy, copied, wild, stored, seen, cut>>
  BY DEF PopRetry, PopDone
<1>2. CASE PopRetry
  <2>1. rx_pc' = "pop" /\ UNCHANGED <<receive_pos, first, torn>> BY <1>2 DEF PopRetry
  <2>2. RxTypes' BY <1>0, <1>1, <2>1 DEF RxTypes
  <2>3. PopInv' BY <1>0, <1>1, <2>1 DEF PopInv, Slot
  <2>4. SleepInv' BY <2>1 DEF SleepInv, AsleepHasSeen
  <2> QED BY <2>2, <2>3, <2>4 DEF RxInv
<1>3. CASE PopDone
  <2>1. rpos = receive_pos /\ receive_pos' = needcopy /\ first' = Num(first, len)
        /\ rx_pc' = "sleep" /\ torn' = IF torn > len THEN torn - len ELSE 0
    BY <1>0, <1>3 DEF PopDone, Num
  <2>2. /\ receive_pos \in 0 .. RxSize /\ RxSize \in Nat /\ RxSize < Mod /\ Mod \in Nat
        /\ receive_pos <= Window /\ Window \in Nat
        /\ len \in Nat /\ copied \in Nat /\ copied = needcopy /\ first \in 0 .. Mod - 1
        /\ stored = Num(first, receive_pos) /\ Slot(0, copied, len) /\ torn \in Nat
    BY <1>0, ConsoleRxAssumption DEF RxTypes, PopInv, ReceiveOK
  <2>3. needcopy + len = receive_pos
    BY <1>0, <2>1, <2>2 DEF PopInv, RxTypes
  <2>4. receive_pos' \in 0 .. RxSize /\ receive_pos' <= Window /\ len \in 0 .. Mod - 1
        /\ torn' \in Nat
    BY <2>1, <2>2, <2>3
  <2>5. ASSUME NEW k \in 0 .. receive_pos'
        PROVE  Num(first', k) = Num(first, len + k)
    <3>1. k \in 0 .. Mod - 1 /\ len + k < Mod
      BY <2>1, <2>2, <2>3
    <3> QED BY <2>1, <2>2, <2>4, <3>1, NumAdd
  <2>6. first' \in 0 .. Mod - 1
    BY <2>1, <2>2, <2>4, NumType
  <2>7. stored' = Num(first', receive_pos')
    <3>1. receive_pos' \in 0 .. receive_pos' /\ len + receive_pos' = receive_pos
      BY <2>1, <2>2, <2>3
    <3> QED BY <1>1, <2>2, <2>5, <3>1
  <2>8. RxTypes'
    BY <1>0, <1>1, <2>1, <2>4, <2>6, <2>7 DEF RxTypes
  <2>9. Slot(0, receive_pos, 0)'
    <3> SUFFICES ASSUME NEW i \in 0 .. receive_pos' - 1, 0 + i >= torn'
                 PROVE  receive_buf'[i].num = Num(first', 0 + i)
      BY DEF Slot
    <3>1. i \in 0 .. copied - 1 /\ i \in 0 .. receive_pos' /\ 0 + i = i /\ len + i >= torn
      BY <2>1, <2>2
    <3>2. receive_buf[i].num = Num(first, len + i)
      BY <2>2, <3>1 DEF Slot
    <3> QED BY <1>1, <2>5, <3>1, <3>2
  <2>10. PopInv' BY <2>1, <2>9 DEF PopInv
  <2>11. SleepInv'
    <3>1. ~woken' => receive_pos' = 0
      BY <1>0, <1>1, <2>1 DEF RxInv, SleepInv
    <3>2. seen' \in Nat BY <1>0, <1>1 DEF RxTypes
    <3> QED BY <2>1, <3>1, <3>2 DEF SleepInv, AsleepHasSeen
  <2> QED BY <2>8, <2>10, <2>11 DEF RxInv
<1> QED BY <1>2, <1>3

\* A shutdown leaves the bytes moved so far at the front, and all others in place.
LEMMA RxShutdownInv ==
  ASSUME ReceiveOK, RxInv, RxShutdown
  PROVE  RxInv'
<1>0. RxTypes /\ PopInv /\ readb(receive_pos) = receive_pos /\ rx_pc # "sleep"
  BY ReadbExact DEF RxInv, RxShutdown
<1>1. /\ receive_pos \in 0 .. RxSize /\ RxSize \in Nat /\ len \in Nat /\ copied \in Nat
      /\ receive_buf \in [0 .. RxSize - 1 -> Slots] /\ torn \in Nat
  BY <1>0, ConsoleRxAssumption DEF RxTypes, ReceiveOK
<1>2. /\ rx_pc' = "sleep" /\ cut' = TRUE
      /\ UNCHANGED <<receive_pos, woken, rpos, len, needcopy, copied, wild, stored, first, seen>>
  BY DEF RxShutdown
<1>3. PICK k \in 0 .. RxSize :
        /\ k > 0 => rx_pc = "pop" /\ copied + len + k <= receive_pos
        /\ receive_buf' = pop_memmove(copied, copied + len, k)
        /\ torn' = IF rx_pc # "find" /\ copied + k > torn THEN copied + k ELSE torn
  BY <1>0 DEF RxShutdown
<1>4. torn' \in Nat /\ torn' >= torn /\ (rx_pc # "find" => torn' >= copied + k)
  BY <1>1, <1>3
<1>5. ASSUME NEW i \in 0 .. RxSize - 1
      PROVE  /\ receive_buf'[i] \in Slots
             /\ rx_pc = "find" \/ i >= copied + k => receive_buf'[i] = receive_buf[i]
  <2>1. receive_buf'[i] = IF i \in copied .. copied + k - 1
                          THEN receive_buf[copied + len + i - copied] ELSE receive_buf[i]
    BY <1>3 DEF pop_memmove
  <2>2. i \in copied .. copied + k - 1 =>
          copied + len + i - copied \in 0 .. RxSize - 1 /\ rx_pc = "pop" /\ ~(i >= copied + k)
    BY <1>1, <1>3
  <2> QED BY <1>1, <2>1, <2>2
<1>6. receive_buf' \in [0 .. RxSize - 1 -> Slots]
  BY <1>3, <1>5 DEF pop_memmove
<1>7. RxTypes'
  BY <1>0, <1>2, <1>4, <1>6 DEF RxTypes
<1>8. Slot(0, receive_pos, 0)'
  <2> SUFFICES ASSUME NEW i \in 0 .. receive_pos - 1, 0 + i >= torn'
               PROVE  receive_buf'[i].num = Num(first, 0 + i)
    BY <1>2 DEF Slot
  <2>1. i \in 0 .. RxSize - 1 /\ 0 + i >= torn
    BY <1>1, <1>4
  <2>2. CASE rx_pc = "find"
    BY <1>0, <1>5, <2>1, <2>2 DEF PopInv, Slot
  <2>3. CASE rx_pc # "find"
    <3>1. i >= copied + k /\ i \in copied .. receive_pos - 1
      BY <1>1, <1>4, <2>3
    <3>2. Slot(copied, receive_pos, 0)
      BY <1>0, <2>3 DEF PopInv, RxTypes
    <3> QED BY <1>5, <2>1, <3>1, <3>2 DEF Slot
  <2> QED BY <2>2, <2>3
<1>9. PopInv' BY <1>2, <1>8 DEF PopInv
<1>10. SleepInv' BY <1>2 DEF SleepInv, AsleepHasSeen
<1> QED BY <1>7, <1>9, <1>10 DEF RxInv

\* Every step keeps the invariant.
LEMMA ReceiveNext == ReceiveOK /\ RxInv /\ [RxNext]_rxvars => RxInv'
<1> SUFFICES ASSUME ReceiveOK, RxInv, [RxNext]_rxvars PROVE RxInv' OBVIOUS
<1>1. ASSUME NEW sync \in BOOLEAN, serial_rx_byte(sync) PROVE RxInv'
  BY <1>1, RxByteInv
<1>2. CASE OtherWake \/ RunTasks BY <1>2, WakeInv
<1>3. CASE FindNothing \/ FindBlock BY <1>3, FindInv
<1>4. CASE PopMove BY <1>4, PopMoveInv
<1>5. CASE PopRetry \/ PopDone BY <1>5, PopEndInv
<1>6. CASE RxShutdown BY <1>6, RxShutdownInv
<1>7. CASE UNCHANGED rxvars
  <2>1. RxTypes' BY <1>7 DEF rxvars, RxInv, RxTypes
  <2>2. PopInv' BY <1>7 DEF rxvars, RxInv, PopInv, Slot
  <2>3. SleepInv' BY <1>7 DEF rxvars, RxInv, SleepInv, AsleepHasSeen
  <2> QED BY <2>1, <2>2, <2>3 DEF RxInv
<1> QED BY <1>1, <1>2, <1>3, <1>4, <1>5, <1>6, <1>7 DEF RxNext

\* serial_irq.c, console_task and console_pop_input against serial_rx_byte: at
\* every step RxInv says which bytes of the buffer are in place.
THEOREM ReceiveInvariance ==
  ASSUME ReceiveOK
  PROVE  RxSpec => []RxInv
<1>1. RxInit => RxInv BY ReceiveInit
<1>2. RxInv /\ [RxNext]_rxvars => RxInv' BY ReceiveNext
<1> QED BY <1>1, <1>2, PTL DEF RxSpec

\* console_pop_input: outside of it the buffer holds exactly the bytes stored and
\* not removed, in order behind those a shutdown left shifted, and no move has a
\* negative length; for every buffer, as long as fewer bytes wait than readb can count.
THEOREM ReceivedIsInOrder ==
  ASSUME ReceiveOK
  PROVE  RxSpec => [](ReceivedInOrder)
<1>1. RxInv => ReceivedInOrder
  <2> SUFFICES ASSUME RxInv PROVE ReceivedInOrder OBVIOUS
  <2>1. ~wild BY DEF RxInv, RxTypes
  <2>2. receive_pos = (stored - first) % Mod
    <3>1. /\ Mod \in Nat /\ first \in 0 .. Mod - 1 /\ receive_pos \in 0 .. Mod - 1
          /\ stored = Num(first, receive_pos)
      BY ConsoleRxAssumption DEF RxInv, RxTypes, ReceiveOK
    <3> QED BY <3>1, NumDistance
  <2>3. ASSUME rx_pc \in {"sleep", "find"}, NEW i \in torn .. receive_pos - 1
        PROVE  receive_buf[i].num = (first + i) % Mod
    <3>0. torn \in Nat /\ receive_pos \in Nat
      BY ConsoleRxAssumption DEF RxInv, RxTypes, ReceiveOK
    <3>1. i \in 0 .. receive_pos - 1 /\ 0 + i >= torn /\ 0 + i = i
      BY <3>0
    <3>2. receive_buf[i].num = Num(first, 0 + i)
      BY <2>3, <3>1 DEF RxInv, PopInv, Slot
    <3> QED BY <3>1, <3>2 DEF Num
  <2> QED BY <2>1, <2>2, <2>3 DEF ReceivedInOrder
<1> QED BY <1>1, ReceiveInvariance, PTL

\* console_task against serial_rx_byte: while the main loop sleeps, the parser has
\* looked at every SYNC in the buffer, so that no complete message waits for the
\* next one to arrive, unless a shutdown left the round before.
THEOREM AsleepParserHasSeen ==
  ASSUME ReceiveOK
  PROVE  RxSpec => [](AsleepHasSeen)
<1>1. RxInv => AsleepHasSeen BY DEF RxInv, SleepInv
<1> QED BY <1>1, ReceiveInvariance, PTL

-----------------------------------------------------------------------------
(* Following next pointers.  No induction over the list is needed: a fact  *)
(* about all of Path(nx, p) is shown with a set that has p in it and that  *)
(* next does not lead out of.                                              *)

\* struct timer's next, for every node.
Pointers == [Node -> Node \cup {NULL}]

\* The placeholder timers are nodes, distinct and no driver's.
LEMMA SpecialNodes ==
  /\ Periodic \in Node /\ Sentinel \in Node /\ Deleted \in Node
  /\ Timers \subseteq Node /\ NULL \notin Node
  /\ Periodic # Sentinel /\ Periodic # Deleted /\ Sentinel # Deleted
  /\ Periodic \notin Timers /\ Sentinel \notin Timers /\ Deleted \notin Timers
BY NodeAssumption DEF Node, Special

\* A walk visits where it starts, and only nodes.
LEMMA PathStart ==
  ASSUME NEW nx, NEW p \in Node
  PROVE  p \in Path(nx, p) /\ Path(nx, p) \subseteq Node
BY DEF Path

\* A walk stays in any set that it starts in and that next does not lead out of.
LEMMA PathLeast ==
  ASSUME NEW nx, NEW p, NEW S \in SUBSET Node, p \in S, Closed(nx, S)
  PROVE  Path(nx, p) \subseteq S
BY DEF Path

\* A walk goes on to the successor of a node it visits.
LEMMA PathClosed ==
  ASSUME NEW nx \in Pointers, NEW p, NEW n \in Path(nx, p), nx[n] # NULL
  PROVE  nx[n] \in Path(nx, p) /\ nx[n] \in Node
<1>1. n \in Node BY DEF Path
<1>2. nx[n] \in Node BY <1>1 DEF Pointers
<1>3. ASSUME NEW S \in SUBSET Node, p \in S, Closed(nx, S)
      PROVE  nx[n] \in S
  <2>1. n \in S BY <1>3 DEF Path
  <2>2. QED BY <2>1, <1>3 DEF Closed
<1>4. QED BY <1>2, <1>3 DEF Path

\* A walk from a node that a walk visits visits nothing else.
LEMMA PathFrom ==
  ASSUME NEW nx \in Pointers, NEW p, NEW q \in Path(nx, p)
  PROVE  Path(nx, q) \subseteq Path(nx, p)
<1>1. Path(nx, p) \in SUBSET Node BY DEF Path
<1>2. Closed(nx, Path(nx, p)) BY PathClosed DEF Closed
<1>3. QED BY <1>1, <1>2, PathLeast

\* A walk from p visits p and then what a walk from its successor visits.
LEMMA PathStep ==
  ASSUME NEW nx \in Pointers, NEW p \in Node
  PROVE  /\ nx[p] = NULL => Path(nx, p) = {p}
         /\ nx[p] # NULL => Path(nx, p) = {p} \cup Path(nx, nx[p])
<1>1. CASE nx[p] = NULL
  <2>1. Closed(nx, {p}) BY <1>1 DEF Closed
  <2>2. Path(nx, p) \subseteq {p} BY <2>1, PathLeast
  <2>3. QED BY <2>2, PathStart, <1>1
<1>2. CASE nx[p] # NULL
  <2>0. nx[p] \in Node BY <1>2 DEF Pointers
  <2> DEFINE S == {p} \cup Path(nx, nx[p])
  <2>1. S \in SUBSET Node BY PathStart, <2>0
  <2>2. Closed(nx, S)
    <3>1. SUFFICES ASSUME NEW n \in S, nx[n] # NULL PROVE nx[n] \in S
      BY DEF Closed
    <3>2. CASE n = p BY <3>2, PathStart, <2>0
    <3>3. CASE n \in Path(nx, nx[p]) BY <3>3, <3>1, PathClosed
    <3>4. QED BY <3>2, <3>3
  <2>3. Path(nx, p) \subseteq S BY <2>1, <2>2, PathLeast
  <2>4. p \in Path(nx, p) BY PathStart
  <2>5. Path(nx, nx[p]) \subseteq Path(nx, p) BY <2>4, <1>2, PathClosed, PathFrom
  <2>6. QED BY <2>3, <2>4, <2>5, <1>2
<1>3. QED BY <1>1, <1>2

\* Of two nodes of a walk one comes after the other.
LEMMA PathTotal ==
  ASSUME NEW nx \in Pointers, NEW p \in Node,
         NEW x \in Path(nx, p), NEW y \in Path(nx, p)
  PROVE  x \in Path(nx, y) \/ y \in Path(nx, x)
<1> DEFINE W == Path(nx, p)
           S == {q \in W : \A r \in W : q \in Path(nx, r) \/ r \in Path(nx, q)}
<1>0. W \subseteq Node BY PathStart
<1>1. p \in S BY PathStart
<1>2. Closed(nx, S)
  <2>1. SUFFICES ASSUME NEW q \in S, nx[q] # NULL PROVE nx[q] \in S
    BY DEF Closed
  <2>2. nx[q] \in W BY <2>1, PathClosed
  <2>3. ASSUME NEW r \in W
        PROVE  nx[q] \in Path(nx, r) \/ r \in Path(nx, nx[q])
    <3>1. CASE q \in Path(nx, r) BY <3>1, <2>1, PathClosed
    <3>2. CASE r \in Path(nx, q)
      <4>1. r = q \/ r \in Path(nx, nx[q]) BY <3>2, <2>1, <1>0, PathStep
      <4>2. CASE r = q
        <5>1. q \in Path(nx, q) BY PathStart, <1>0
        <5>2. QED BY <5>1, <4>2, <2>1, PathClosed
      <4>3. QED BY <4>1, <4>2
    <3>3. QED BY <3>1, <3>2, <2>1
  <2>4. QED BY <2>2, <2>3
<1>3. S \in SUBSET Node BY <1>0
<1>4. W \subseteq S BY <1>1, <1>2, <1>3, PathLeast
<1>5. QED BY <1>4

\* The nodes a walk visits, other than its first, have a predecessor on it.
LEMMA PathBefore ==
  ASSUME NEW nx \in Pointers, NEW p \in Node, NEW q \in Path(nx, p), q # p
  PROVE  \E r \in Path(nx, p) : nx[r] = q
<1> DEFINE S == Path(nx, p) \ {q}
<1>1. SUFFICES ASSUME ~ \E r \in Path(nx, p) : nx[r] = q PROVE FALSE
  OBVIOUS
<1>2. Closed(nx, S) BY <1>1, PathClosed DEF Closed
<1>3. p \in S /\ S \in SUBSET Node BY PathStart
<1>4. QED BY <1>2, <1>3, PathLeast

\* Pointers off a walk do not matter to it.
LEMMA PathSame ==
  ASSUME NEW nx \in Pointers, NEW ny \in Pointers, NEW p \in Node,
         \A n \in Path(nx, p) : ny[n] = nx[n]
  PROVE  Path(ny, p) = Path(nx, p)
<1>1. Path(ny, p) \subseteq Path(nx, p)
  <2>1. Closed(ny, Path(nx, p)) BY PathClosed DEF Closed
  <2>2. QED BY <2>1, PathStart, PathLeast
<1>2. Path(nx, p) \subseteq Path(ny, p)
  <2> DEFINE S == Path(nx, p) \cap Path(ny, p)
  <2>1. Closed(nx, S) BY PathClosed DEF Closed
  <2>2. p \in S /\ S \in SUBSET Node BY PathStart
  <2>3. QED BY <2>1, <2>2, PathLeast
<1>3. QED BY <1>1, <1>2

-----------------------------------------------------------------------------
(* A list: a walk from its head comes to the sentinel, which ends it.      *)

\* nx has a list that begins at h.
IsList(nx, h) ==
  /\ nx \in Pointers /\ h \in Node
  /\ nx[Sentinel] = NULL /\ Sentinel \in Path(nx, h)

\* From every node of a list a walk comes to the sentinel, and next is never NULL
\* before it.
LEMMA ListEnd ==
  ASSUME NEW nx, NEW h, IsList(nx, h), NEW x \in Path(nx, h)
  PROVE  /\ x \in Node /\ Sentinel \in Path(nx, x) /\ IsList(nx, x)
         /\ x # Sentinel => nx[x] \in Path(nx, h) /\ nx[x] \in Node /\ nx[x] # NULL
<1> DEFINE S == {y \in Path(nx, h) : Sentinel \in Path(nx, y)}
<1>0. nx \in Pointers /\ h \in Node /\ nx[Sentinel] = NULL /\ Sentinel \in Path(nx, h)
  BY DEF IsList
<1>1. Path(nx, h) \subseteq Node /\ h \in Path(nx, h) BY <1>0, PathStart
<1>2. Closed(nx, S)
  <2>1. SUFFICES ASSUME NEW y \in S, nx[y] # NULL PROVE nx[y] \in S
    BY DEF Closed
  <2>2. nx[y] \in Path(nx, h) BY <2>1, <1>0, PathClosed
  <2>3. Path(nx, y) = {y} \cup Path(nx, nx[y]) BY <2>1, <1>0, <1>1, PathStep
  <2>4. y # Sentinel BY <2>1, <1>0
  <2>5. QED BY <2>2, <2>3, <2>4
<1>3. h \in S /\ S \in SUBSET Node BY <1>0, <1>1
<1>4. Sentinel \in Path(nx, x) BY <1>2, <1>3, PathLeast
<1>5. x \in Node /\ IsList(nx, x) BY <1>4, <1>0, <1>1 DEF IsList
<1>6. ASSUME x # Sentinel PROVE nx[x] # NULL
  BY <1>6, <1>4, <1>5, <1>0, PathStep
<1>7. QED BY <1>4, <1>5, <1>6, <1>0, PathClosed

\* A list does not come back to a node it has left.
LEMMA ListAcyclic ==
  ASSUME NEW nx, NEW h, IsList(nx, h), NEW q \in Path(nx, h), nx[q] # NULL
  PROVE  q \notin Path(nx, nx[q])
<1>0. nx \in Pointers /\ q \in Node /\ Sentinel \in Path(nx, q) /\ nx[Sentinel] = NULL
  BY ListEnd DEF IsList
<1>1. SUFFICES ASSUME q \in Path(nx, nx[q]) PROVE FALSE
  OBVIOUS
<1> DEFINE S == {x \in Path(nx, q) : q \in Path(nx, x)}
<1>2. Path(nx, q) \subseteq Node /\ q \in S BY <1>0, PathStart
<1>3. Closed(nx, S)
  <2>1. SUFFICES ASSUME NEW x \in S, nx[x] # NULL PROVE nx[x] \in S
    BY DEF Closed
  <2>2. nx[x] \in Path(nx, q) BY <2>1, <1>0, PathClosed
  <2>3. Path(nx, x) = {x} \cup Path(nx, nx[x]) BY <2>1, <1>0, <1>2, PathStep
  <2>4. QED BY <2>2, <2>3, <1>1
<1>4. Sentinel \in S BY <1>0, <1>2, <1>3, PathLeast
<1>5. Path(nx, Sentinel) = {Sentinel} BY <1>0, SpecialNodes, PathStep
<1>6. QED BY <1>4, <1>5, <1>0

\* Each node of a list has one predecessor at most, and the head has none.
LEMMA ListPred ==
  ASSUME NEW nx, NEW h, IsList(nx, h),
         NEW a \in Path(nx, h), nx[a] # NULL
  PROVE  /\ nx[a] # h
         /\ \A b \in Path(nx, h) : nx[b] = nx[a] => b = a
<1>0. nx \in Pointers /\ h \in Node /\ Path(nx, h) \subseteq Node
  BY PathStart DEF IsList
<1>1. nx[a] # h BY ListAcyclic
<1>2. ASSUME NEW c \in Path(nx, h), NEW d \in Path(nx, h), nx[c] = nx[d],
             nx[d] # NULL, c \in Path(nx, d)
      PROVE  c = d
  <2>1. Path(nx, d) = {d} \cup Path(nx, nx[d]) BY <1>0, <1>2, PathStep
  <2>2. c \notin Path(nx, nx[c]) BY <1>2, ListAcyclic
  <2>3. QED BY <2>1, <2>2, <1>2
<1>3. ASSUME NEW b \in Path(nx, h), nx[b] = nx[a] PROVE b = a
  <2>1. b \in Path(nx, a) \/ a \in Path(nx, b) BY <1>0, PathTotal
  <2>2. QED BY <2>1, <1>2, <1>3
<1>4. QED BY <1>1, <1>3

\* Linking a node into a list adds it and leaves the rest.
LEMMA LinkPath ==
  ASSUME NEW nx, NEW h, IsList(nx, h), NEW t \in Node, t \notin Path(nx, h),
         NEW prev \in Path(nx, h), prev # Sentinel
  PROVE  /\ Link(nx, prev, t) \in Pointers
         /\ Path(Link(nx, prev, t), h) = Path(nx, h) \cup {t}
         /\ IsList(Link(nx, prev, t), h)
<1> DEFINE L == Path(nx, h)
           ny == Link(nx, prev, t)
           K == Path(ny, h)
<1>0. /\ nx \in Pointers /\ h \in Node /\ L \subseteq Node /\ h \in L
      /\ nx[Sentinel] = NULL /\ Sentinel \in L /\ prev \in Node
      /\ nx[prev] \in L /\ nx[prev] # NULL /\ nx[prev] \in Node
  BY PathStart, ListEnd DEF IsList
<1>1. /\ ny \in Pointers /\ ny[t] = nx[prev] /\ ny[prev] = t
      /\ \A n \in Node \ {t, prev} : ny[n] = nx[n]
  BY <1>0 DEF Link, Pointers
<1> HIDE DEF ny
<1>2. K \subseteq L \cup {t}
  <2> DEFINE S == L \cup {t}
  <2>1. Closed(ny, S)
    <3>1. SUFFICES ASSUME NEW n \in S, ny[n] # NULL PROVE ny[n] \in S
      BY DEF Closed
    <3>2. CASE n = t BY <3>2, <1>0, <1>1
    <3>3. CASE n = prev BY <3>3, <1>0, <1>1
    <3>4. CASE n \in L \ {t, prev} BY <3>4, <3>1, <1>0, <1>1, PathClosed
    <3>5. QED BY <3>2, <3>3, <3>4
  <2>2. QED BY <2>1, <1>0, PathLeast
<1>3. h \in K /\ K \subseteq Node BY <1>0, PathStart
<1>4. L \subseteq K
  <2> DEFINE S == L \cap K
  <2>1. Closed(nx, S)
    <3>1. SUFFICES ASSUME NEW n \in S, nx[n] # NULL PROVE nx[n] \in S
      BY DEF Closed
    <3>2. nx[n] \in L BY <3>1, <1>0, PathClosed
    <3>3. CASE n = prev
      <4>1. t \in K BY <3>3, <1>0, <1>1, PathClosed, SpecialNodes
      <4>2. nx[prev] \in K BY <4>1, <1>0, <1>1, PathClosed
      <4>3. QED BY <4>2, <3>2, <3>3
    <3>4. CASE n # prev
      <4>1. ny[n] = nx[n] BY <3>4, <1>0, <1>1
      <4>2. QED BY <4>1, <3>1, <3>2, <1>1, PathClosed
    <3>5. QED BY <3>3, <3>4
  <2>2. QED BY <2>1, <1>0, <1>3, PathLeast
<1>5. t \in K BY <1>4, <1>0, <1>1, PathClosed, SpecialNodes
<1>6. K = L \cup {t} BY <1>2, <1>4, <1>5
<1>7. ny[Sentinel] = NULL
  <2>1. Sentinel # t BY <1>0
  <2>2. QED BY <2>1, <1>0, <1>1, SpecialNodes
<1>8. IsList(ny, h) BY <1>6, <1>7, <1>0, <1>1 DEF IsList
<1>9. QED BY <1>1, <1>6, <1>8 DEF ny

\* Unlinking a node other than the head takes it away and leaves the rest.
LEMMA UnlinkPath ==
  ASSUME NEW nx, NEW h, IsList(nx, h), NEW p \in Path(nx, h),
         nx[p] # NULL, nx[nx[p]] # NULL
  PROVE  LET ny == [nx EXCEPT ![p] = nx[nx[p]]]
         IN  /\ ny \in Pointers
             /\ Path(ny, h) = Path(nx, h) \ {nx[p]}
             /\ IsList(ny, h)
<1> DEFINE L == Path(nx, h)
           d == nx[p]
           ny == [nx EXCEPT ![p] = nx[d]]
           K == Path(ny, h)
<1>0. /\ nx \in Pointers /\ h \in Node /\ L \subseteq Node /\ h \in L
      /\ nx[Sentinel] = NULL /\ Sentinel \in L /\ p \in Node
      /\ d \in L /\ d \in Node
  BY PathStart, PathClosed DEF IsList
<1>1. d # h /\ \A b \in L : nx[b] = d => b = p
  BY ListPred
<1>2. d \notin Path(nx, nx[d]) /\ p \notin Path(nx, d)
  BY ListAcyclic, <1>0
<1>3. nx[d] \in L /\ nx[d] \in Node /\ nx[d] # d /\ p # d
  <2>1. nx[d] \in L /\ nx[d] \in Node BY <1>0, PathClosed
  <2>2. nx[d] \in Path(nx, nx[d]) /\ d \in Path(nx, d) BY <1>0, <2>1, PathStart
  <2>3. QED BY <2>1, <2>2, <1>2
<1>4. ny \in Pointers /\ ny[p] = nx[d] /\ \A n \in Node \ {p} : ny[n] = nx[n]
  BY <1>0, <1>3 DEF Pointers
<1> HIDE DEF ny
<1>5. h \in K /\ K \subseteq Node BY <1>0, PathStart
<1>6. K \subseteq L \ {d}
  <2> DEFINE S == L \ {d}
  <2>1. Closed(ny, S)
    <3>1. SUFFICES ASSUME NEW n \in S, ny[n] # NULL PROVE ny[n] \in S
      BY DEF Closed
    <3>2. CASE n = p BY <3>2, <1>3, <1>4
    <3>3. CASE n # p
      <4>1. ny[n] = nx[n] BY <3>3, <1>0, <1>4
      <4>2. nx[n] \in L BY <4>1, <3>1, <1>0, PathClosed
      <4>3. QED BY <4>1, <4>2, <3>3, <1>1
    <3>4. QED BY <3>2, <3>3
  <2>2. QED BY <2>1, <1>0, <1>1, PathLeast
<1>7. L \ {d} \subseteq K
  <2> DEFINE S == {x \in L : IF x = d THEN nx[d] \in K ELSE x \in K}
  <2>1. Closed(nx, S)
    <3>1. SUFFICES ASSUME NEW n \in S, nx[n] # NULL PROVE nx[n] \in S
      BY DEF Closed
    <3>2. nx[n] \in L BY <3>1, <1>0, PathClosed
    <3>3. CASE n = d BY <3>1, <3>3, <3>2, <1>3
    <3>4. CASE n = p
      <4>1. nx[d] \in K BY <3>1, <3>4, <1>3, <1>4, PathClosed
      <4>2. QED BY <4>1, <3>2, <3>4
    <3>5. CASE n # d /\ n # p
      <4>1. ny[n] = nx[n] /\ nx[n] # d BY <3>5, <1>0, <1>1, <1>4
      <4>2. nx[n] \in K BY <4>1, <3>1, <3>5, <1>4, PathClosed
      <4>3. QED BY <4>1, <4>2, <3>2
    <3>6. QED BY <3>3, <3>4, <3>5
  <2>2. h \in S /\ S \in SUBSET Node BY <1>0, <1>1, <1>5
  <2>3. L \subseteq S BY <2>1, <2>2, PathLeast
  <2>4. QED BY <2>3
<1>8. K = L \ {d} BY <1>6, <1>7
<1>9. ny[Sentinel] = NULL /\ Sentinel # d BY <1>0, <1>4, SpecialNodes
<1>10. IsList(ny, h) BY <1>0, <1>4, <1>8, <1>9 DEF IsList
<1>11. QED BY <1>4, <1>8, <1>10 DEF ny

\* A new head in front of a list.
LEMMA ConsPath ==
  ASSUME NEW nx, NEW h, IsList(nx, h), NEW ny \in Pointers, NEW p \in Node,
         p \notin Path(nx, h), ny[p] = h, \A n \in Path(nx, h) : ny[n] = nx[n]
  PROVE  /\ Path(ny, p) = {p} \cup Path(nx, h)
         /\ IsList(ny, p) /\ IsList(ny, h) /\ Path(ny, h) = Path(nx, h)
<1>0. nx \in Pointers /\ h \in Node /\ nx[Sentinel] = NULL /\ Sentinel \in Path(nx, h)
  BY DEF IsList
<1>1. Path(ny, h) = Path(nx, h) BY <1>0, PathSame
<1>2. ny[p] # NULL BY <1>0, SpecialNodes
<1>3. Path(ny, p) = {p} \cup Path(ny, h) BY <1>2, PathStep
<1>4. QED BY <1>0, <1>1, <1>3 DEF IsList
-----------------------------------------------------------------------------
(* The clock.  Times are compared through their offsets from the present.  *)

\* The clock range is even and has a half.
LEMMA HalfRange == Half \in Nat /\ Half > 0 /\ Word = 2 * Half /\ 0 \in Clock /\ Half \in Clock
<1>1. Word \in Nat /\ Word > 1 /\ Word % 2 = 0
  BY WordAssumption
<1> QED BY <1>1 DEF Half, Clock

\* Wrapping around once, up or down.
LEMMA ModWord ==
  /\ \A x \in 0 .. Word - 1 : x % Word = x
  /\ \A x \in Word .. 2 * Word - 1 : x % Word = x - Word
  /\ \A x \in -Word .. -1 : x % Word = x + Word
BY HalfRange

\* (int32_t)(a - b) is the difference that fits.
LEMMA DiffCases ==
  ASSUME NEW a \in Clock, NEW b \in Clock
  PROVE  /\ Diff(a, b) = IF a - b >= Half THEN a - b - Word
                         ELSE IF a - b < -Half THEN a - b + Word ELSE a - b
         /\ Diff(a, b) \in -Half .. Half - 1
<1>0. Word \in Nat /\ Half \in Nat /\ Word = 2 * Half /\ a \in 0 .. Word - 1 /\ b \in 0 .. Word - 1
  BY HalfRange DEF Clock
<1> DEFINE d == (a - b) % Word
<1>1. d = IF a - b < 0 THEN a - b + Word ELSE a - b
  <2>1. CASE a - b < 0
    <3>1. a - b \in -Word .. -1 BY <1>0, <2>1
    <3>2. QED BY <3>1, <2>1, ModWord
  <2>2. CASE ~(a - b < 0)
    <3>1. a - b \in 0 .. Word - 1 BY <1>0, <2>2
    <3>2. QED BY <3>1, <2>2, ModWord
  <2>3. QED BY <2>1, <2>2
<1>2. Diff(a, b) = IF d >= Half THEN d - Word ELSE d BY DEF Diff
<1>3. QED BY <1>0, <1>1, <1>2

\* A sum wraps once at most.
LEMMA PlusCases ==
  ASSUME NEW a \in Clock, NEW n \in -Half .. Half
  PROVE  /\ Plus(a, n) = IF a + n >= Word THEN a + n - Word
                         ELSE IF a + n < 0 THEN a + n + Word ELSE a + n
         /\ Plus(a, n) \in Clock
<1>0. Word \in Nat /\ Half \in Nat /\ Half > 0 /\ Word = 2 * Half /\ a \in 0 .. Word - 1
  BY HalfRange DEF Clock
<1>1. CASE a + n >= Word
  <2>1. a + n \in Word .. 2 * Word - 1 BY <1>0, <1>1
  <2>2. (a + n) % Word = (a + n) - Word BY <2>1, ModWord
  <2>3. QED BY <1>0, <1>1, <2>2 DEF Plus, Clock
<1>2. CASE a + n < 0
  <2>1. a + n \in -Word .. -1 BY <1>0, <1>2
  <2>2. (a + n) % Word = (a + n) + Word BY <2>1, ModWord
  <2>3. QED BY <1>0, <1>2, <2>2 DEF Plus, Clock
<1>3. CASE ~(a + n >= Word) /\ ~(a + n < 0)
  <2>1. a + n \in 0 .. Word - 1 BY <1>0, <1>3
  <2>2. (a + n) % Word = a + n BY <2>1, ModWord
  <2>3. QED BY <1>0, <1>3, <2>2 DEF Plus, Clock
<1>4. QED BY <1>1, <1>2, <1>3

\* Times less than half the range apart are in the order of their offsets.
LEMMA OffsetOrder ==
  ASSUME NEW a \in Clock, NEW b \in Clock, NEW c \in Clock,
         Diff(a, c) - Diff(b, c) >= -Half, Diff(a, c) - Diff(b, c) < Half
  PROVE  /\ Diff(a, b) = Diff(a, c) - Diff(b, c)
         /\ Before(a, b) <=> Diff(a, c) < Diff(b, c)
<1>0. /\ Word \in Nat /\ Half \in Nat /\ Half > 0 /\ Word = 2 * Half
      /\ a \in 0 .. Word - 1 /\ b \in 0 .. Word - 1 /\ c \in 0 .. Word - 1
  BY HalfRange DEF Clock
<1>1. /\ Diff(a, b) = IF a - b >= Half THEN a - b - Word
                      ELSE IF a - b < -Half THEN a - b + Word ELSE a - b
      /\ Diff(a, c) = IF a - c >= Half THEN a - c - Word
                      ELSE IF a - c < -Half THEN a - c + Word ELSE a - c
      /\ Diff(b, c) = IF b - c >= Half THEN b - c - Word
                      ELSE IF b - c < -Half THEN b - c + Word ELSE b - c
  BY DiffCases
<1>2. Diff(a, b) = Diff(a, c) - Diff(b, c) BY <1>0, <1>1
<1>3. Diff(a, c) \in Int /\ Diff(b, c) \in Int BY <1>0, <1>1
<1>4. QED BY <1>2, <1>3 DEF Before

\* Seen from the other side an offset has the other sign.
LEMMA OffsetBack ==
  ASSUME NEW a \in Clock, NEW b \in Clock, Diff(a, b) > -Half
  PROVE  Diff(b, a) = -Diff(a, b)
<1>0. /\ Word \in Nat /\ Half \in Nat /\ Half > 0 /\ Word = 2 * Half
      /\ a \in 0 .. Word - 1 /\ b \in 0 .. Word - 1
  BY HalfRange DEF Clock
<1>1. /\ Diff(a, b) = IF a - b >= Half THEN a - b - Word
                      ELSE IF a - b < -Half THEN a - b + Word ELSE a - b
      /\ Diff(b, a) = IF b - a >= Half THEN b - a - Word
                      ELSE IF b - a < -Half THEN b - a + Word ELSE b - a
  BY DiffCases
<1>2. QED BY <1>0, <1>1

\* n ticks later is n further from the present, as long as that is in range.
LEMMA OffsetPlus ==
  ASSUME NEW a \in Clock, NEW c \in Clock, NEW n \in -Half .. Half,
         Diff(a, c) + n >= -Half, Diff(a, c) + n < Half
  PROVE  Plus(a, n) \in Clock /\ Diff(Plus(a, n), c) = Diff(a, c) + n
<1>0. /\ Word \in Nat /\ Half \in Nat /\ Half > 0 /\ Word = 2 * Half
      /\ a \in 0 .. Word - 1 /\ c \in 0 .. Word - 1
  BY HalfRange DEF Clock
<1> DEFINE b == Plus(a, n)
<1>1. /\ b = IF a + n >= Word THEN a + n - Word
                      ELSE IF a + n < 0 THEN a + n + Word ELSE a + n
      /\ b \in Clock
  BY PlusCases
<1> HIDE DEF b
<1>2. /\ Diff(a, c) = IF a - c >= Half THEN a - c - Word
                      ELSE IF a - c < -Half THEN a - c + Word ELSE a - c
      /\ Diff(b, c) = IF b - c >= Half THEN b - c - Word
                      ELSE IF b - c < -Half THEN b - c + Word ELSE b - c
  BY DiffCases, <1>1
<1>3. Diff(b, c) = Diff(a, c) + n BY <1>0, <1>1, <1>2
<1>4. QED BY <1>1, <1>3 DEF b

\* The present itself has offset 0.
LEMMA OffsetNow ==
  ASSUME NEW c \in Clock
  PROVE  Diff(c, c) = 0
<1>0. Half \in Nat /\ Half > 0 /\ c \in Int BY HalfRange DEF Clock
<1>1. QED BY <1>0, DiffCases

\* A tick brings every time one closer.
LEMMA OffsetTick ==
  ASSUME NEW a \in Clock, NEW c \in Clock, Diff(a, c) > -Half
  PROVE  Plus(c, 1) \in Clock /\ Diff(a, Plus(c, 1)) = Diff(a, c) - 1
<1>0. /\ Word \in Nat /\ Half \in Nat /\ Half > 0 /\ Word = 2 * Half
      /\ a \in 0 .. Word - 1 /\ c \in 0 .. Word - 1 /\ 1 \in -Half .. Half
  BY HalfRange DEF Clock
<1> DEFINE b == Plus(c, 1)
<1>1. /\ b = IF c + 1 >= Word THEN c + 1 - Word
                      ELSE IF c + 1 < 0 THEN c + 1 + Word ELSE c + 1
      /\ b \in Clock
  BY PlusCases, <1>0
<1> HIDE DEF b
<1>2. /\ Diff(a, c) = IF a - c >= Half THEN a - c - Word
                      ELSE IF a - c < -Half THEN a - c + Word ELSE a - c
      /\ Diff(a, b) = IF a - b >= Half THEN a - b - Word
                      ELSE IF a - b < -Half THEN a - b + Word ELSE a - b
  BY DiffCases, <1>1
<1>3. Diff(a, b) = Diff(a, c) - 1 BY <1>0, <1>1, <1>2
<1>4. QED BY <1>1, <1>3 DEF b

\* The sentinel, half a range after the period p, is later than what p is not later than.
LEMMA BeforeSentinel ==
  ASSUME NEW w \in Clock, NEW p \in Clock, NEW c \in Clock,
         Diff(w, c) - Diff(p, c) >= -Half, Diff(w, c) - Diff(p, c) < Half
  PROVE  Plus(p, Half) \in Clock /\ (Before(w, Plus(p, Half)) <=> Diff(p, c) <= Diff(w, c))
<1>0. /\ Word \in Nat /\ Half \in Nat /\ Half > 0 /\ Word = 2 * Half /\ Half \in -Half .. Half
      /\ w \in 0 .. Word - 1 /\ p \in 0 .. Word - 1
  BY HalfRange DEF Clock
<1> DEFINE s == Plus(p, Half)
<1>1. /\ s = IF p + Half >= Word THEN p + Half - Word
                      ELSE IF p + Half < 0 THEN p + Half + Word ELSE p + Half
      /\ s \in Clock
  BY PlusCases, <1>0
<1> HIDE DEF s
<1>2. /\ Diff(w, p) = IF w - p >= Half THEN w - p - Word
                      ELSE IF w - p < -Half THEN w - p + Word ELSE w - p
      /\ Diff(w, s) = IF w - s >= Half THEN w - s - Word
                      ELSE IF w - s < -Half THEN w - s + Word ELSE w - s
  BY DiffCases, <1>1
<1>3. Diff(w, s) < 0 <=> Diff(w, p) >= 0 BY <1>0, <1>1, <1>2
<1>4. Diff(w, p) = Diff(w, c) - Diff(p, c) BY OffsetOrder
<1>5. Diff(w, c) \in Int /\ Diff(p, c) \in Int BY DiffCases
<1>6. QED BY <1>1, <1>3, <1>4, <1>5 DEF s, Before

-----------------------------------------------------------------------------
(* Lists in order.  r[n], the rank of a node, is the offset of its time.   *)

Ordered(nx, h, r) ==
  \A n \in Path(nx, h) \ {Sentinel} : nx[n] # Sentinel => r[n] <= r[nx[n]]

\* Neighbours in order, so all in order.
LEMMA OrderedAll ==
  ASSUME NEW nx, NEW h, IsList(nx, h), NEW r \in [Node -> Int], Ordered(nx, h, r),
         NEW x \in Path(nx, h) \ {Sentinel}, NEW y \in Path(nx, x) \ {Sentinel}
  PROVE  r[x] <= r[y]
<1> DEFINE S == {z \in Path(nx, x) : z = Sentinel \/ r[x] <= r[z]}
<1>0. nx \in Pointers /\ h \in Node /\ x \in Node /\ nx[Sentinel] = NULL
  BY ListEnd DEF IsList
<1>1. Path(nx, x) \subseteq Path(nx, h) /\ Path(nx, x) \subseteq Node /\ x \in Path(nx, x)
  BY <1>0, PathStart, PathFrom
<1>2. x \in S BY <1>0, <1>1
<1>3. Closed(nx, S)
  <2>1. SUFFICES ASSUME NEW z \in S, nx[z] # NULL PROVE nx[z] \in S
    BY DEF Closed
  <2>2. nx[z] \in Path(nx, x) /\ nx[z] \in Node /\ z \in Node BY <2>1, <1>0, <1>1, PathClosed
  <2>3. CASE nx[z] = Sentinel BY <2>2, <2>3
  <2>4. CASE nx[z] # Sentinel
    <3>1. z # Sentinel BY <2>1, <1>0
    <3>2. r[z] <= r[nx[z]] BY <3>1, <2>4, <1>1 DEF Ordered
    <3>3. r[x] <= r[z] BY <3>1
    <3>4. r[x] \in Int /\ r[z] \in Int /\ r[nx[z]] \in Int BY <1>0, <2>2
    <3>5. r[x] <= r[nx[z]] BY <3>2, <3>3, <3>4
    <3>6. QED BY <3>5, <2>2
  <2>5. QED BY <2>3, <2>4
<1>4. Path(nx, x) \subseteq S BY <1>1, <1>2, <1>3, PathLeast
<1>5. QED BY <1>4

\* The head is the earliest.
LEMMA OrderedHead ==
  ASSUME NEW nx, NEW h, IsList(nx, h), NEW r \in [Node -> Int], Ordered(nx, h, r),
         h # Sentinel, NEW y \in Path(nx, h) \ {Sentinel}
  PROVE  r[h] <= r[y]
<1>1. h \in Path(nx, h) BY PathStart DEF IsList
<1>2. QED BY <1>1, OrderedAll

\* insert_timer's walk from pos, a node that is not later than w, ends between a
\* node that is not later than w and one that is.  v is the rank of w.
LEMMA InsertPlace ==
  ASSUME NEW nx, NEW wk, NEW pos, NEW w, IsList(nx, pos), pos # Sentinel,
         NEW r \in [Node -> Int], NEW v \in Int,
         \A n \in Path(nx, pos) \ {Sentinel} : Before(w, wk[n]) <=> v < r[n],
         Before(w, wk[Sentinel]) <=> r[Periodic] <= v,
         r[pos] <= v,
         v < r[Periodic] => Periodic \in Path(nx, pos),
         NEW prev, prev = insert_after(nx, wk, pos, w)
  PROVE  /\ prev # NULL /\ prev \in Path(nx, pos) \ {Sentinel}
         /\ r[prev] <= v
         /\ StopsAt(nx, wk, w, prev)
         /\ IF nx[prev] = Sentinel THEN r[Periodic] <= v ELSE v < r[nx[prev]]
<1> DEFINE upto == Until(nx, wk, w)
           W == Path(upto, pos)
           stops == {n \in W : StopsAt(nx, wk, w, n)}
<1>0. nx \in Pointers /\ pos \in Node /\ nx[Sentinel] = NULL /\ Sentinel \in Path(nx, pos)
  BY DEF IsList
<1>1. /\ upto \in Pointers
      /\ \A n \in Node : upto[n] = IF StopsAt(nx, wk, w, n) THEN NULL ELSE nx[n]
  BY <1>0 DEF Until, Pointers
<1> HIDE DEF upto
<1>2. W \subseteq Node /\ pos \in W /\ Path(nx, pos) \subseteq Node /\ pos \in Path(nx, pos)
  BY <1>0, PathStart
<1>3. W \subseteq Path(nx, pos)
  <2>1. Closed(upto, Path(nx, pos)) BY <1>0, <1>1, <1>2, PathClosed DEF Closed
  <2>2. QED BY <2>1, <1>2, PathLeast
<1>4. \E q \in Path(nx, pos) : StopsAt(nx, wk, w, q)
  <2>1. CASE r[Periodic] <= v
    <3>1. PICK q \in Path(nx, pos) : nx[q] = Sentinel BY <1>0, PathBefore
    <3>2. StopsAt(nx, wk, w, q) BY <3>1, <2>1, SpecialNodes DEF StopsAt
    <3>3. QED BY <3>2
  <2>2. CASE ~(r[Periodic] <= v)
    <3>1. r[Periodic] \in Int BY SpecialNodes
    <3>2. v < r[Periodic] /\ Periodic \in Path(nx, pos) BY <2>2, <3>1
    <3>3. Periodic # pos BY <2>2
    <3>4. PICK q \in Path(nx, pos) : nx[q] = Periodic BY <3>2, <3>3, <1>0, PathBefore
    <3>5. Before(w, wk[Periodic]) BY <3>2, SpecialNodes
    <3>6. StopsAt(nx, wk, w, q) BY <3>4, <3>5, SpecialNodes DEF StopsAt
    <3>7. QED BY <3>6
  <2>3. QED BY <2>1, <2>2
<1>5. stops # {}
  <2>1. SUFFICES ASSUME stops = {} PROVE FALSE
    OBVIOUS
  <2>2. Closed(nx, W) BY <2>1, <1>1, <1>2, PathClosed DEF Closed
  <2>3. Path(nx, pos) \subseteq W BY <2>2, <1>2, PathLeast
  <2>4. QED BY <2>1, <2>3, <1>4
<1>6. prev \in stops BY <1>5 DEF insert_after, upto
<1>7. prev \in Path(nx, pos) /\ prev \in Node /\ StopsAt(nx, wk, w, prev) BY <1>6, <1>3, <1>2
<1>8. nx[prev] # NULL /\ Before(w, wk[nx[prev]]) BY <1>7 DEF StopsAt
<1>9. prev # Sentinel /\ prev # NULL BY <1>7, <1>8, <1>0, SpecialNodes
<1>10. r[prev] <= v
  <2>1. CASE prev = pos BY <2>1
  <2>2. CASE prev # pos
    <3>1. PICK q \in W : upto[q] = prev BY <2>2, <1>0, <1>1, <1>6, PathBefore
    <3>2. ~StopsAt(nx, wk, w, q) /\ nx[q] = prev BY <3>1, <1>1, <1>2, <1>9
    <3>3. ~Before(w, wk[prev]) BY <3>2, <1>9 DEF StopsAt
    <3>4. ~(v < r[prev]) BY <3>3, <1>7, <1>9
    <3>5. r[prev] \in Int BY <1>7
    <3>6. QED BY <3>4, <3>5
  <2>3. QED BY <2>1, <2>2
<1>11. nx[prev] \in Path(nx, pos) BY <1>7, <1>8, <1>0, PathClosed
<1>12. IF nx[prev] = Sentinel THEN r[Periodic] <= v ELSE v < r[nx[prev]]
  BY <1>8, <1>11
<1>13. QED BY <1>7, <1>9, <1>10, <1>12

\* A node linked in between keeps the order.
LEMMA LinkOrdered ==
  ASSUME NEW nx, NEW h, IsList(nx, h), NEW r \in [Node -> Int], Ordered(nx, h, r),
         NEW t \in Node, t \notin Path(nx, h),
         NEW prev \in Path(nx, h), prev # Sentinel,
         r[prev] <= r[t], nx[prev] # Sentinel => r[t] <= r[nx[prev]]
  PROVE  Ordered(Link(nx, prev, t), h, r)
<1> DEFINE ny == Link(nx, prev, t)
<1>0. /\ nx \in Pointers /\ h \in Node /\ Path(nx, h) \subseteq Node
      /\ Path(ny, h) = Path(nx, h) \cup {t} /\ prev # t
  BY LinkPath, PathStart DEF IsList
<1>1. /\ ny[t] = nx[prev] /\ ny[prev] = t
      /\ \A n \in Node \ {t, prev} : ny[n] = nx[n]
  BY <1>0 DEF Link, Pointers
<1> HIDE DEF ny
<1>2. SUFFICES ASSUME NEW n \in Path(ny, h) \ {Sentinel}, ny[n] # Sentinel
               PROVE  r[n] <= r[ny[n]]
  BY DEF Ordered, ny
<1>3. CASE n = t BY <1>3, <1>1, <1>2
<1>4. CASE n = prev BY <1>4, <1>1
<1>5. CASE n # t /\ n # prev
  <2>1. n \in Path(nx, h) \ {Sentinel} /\ ny[n] = nx[n] BY <1>5, <1>0, <1>1, <1>2
  <2>2. QED BY <2>1, <1>2 DEF Ordered
<1>6. QED BY <1>3, <1>4, <1>5

\* So does taking a node out.
LEMMA UnlinkOrdered ==
  ASSUME NEW nx, NEW h, IsList(nx, h), NEW r \in [Node -> Int], Ordered(nx, h, r),
         NEW p \in Path(nx, h), nx[p] # NULL, nx[nx[p]] # NULL
  PROVE  Ordered([nx EXCEPT ![p] = nx[nx[p]]], h, r)
<1> DEFINE ny == [nx EXCEPT ![p] = nx[nx[p]]]
<1>0. /\ nx \in Pointers /\ h \in Node /\ Path(nx, h) \subseteq Node
      /\ Path(ny, h) = Path(nx, h) \ {nx[p]}
  BY UnlinkPath, PathStart DEF IsList
<1>1. ny[p] = nx[nx[p]] /\ \A n \in Node \ {p} : ny[n] = nx[n]
  BY <1>0 DEF Pointers
<1> HIDE DEF ny
<1>2. SUFFICES ASSUME NEW n \in Path(ny, h) \ {Sentinel}, ny[n] # Sentinel
               PROVE  r[n] <= r[ny[n]]
  BY DEF Ordered, ny
<1>3. CASE n # p
  BY <1>3, <1>0, <1>1, <1>2 DEF Ordered
<1>4. CASE n = p
  <2> DEFINE d == nx[p]
  <2>1. d \in Path(nx, h) /\ d \in Node BY <1>0, PathClosed
  <2>2. nx[d] \in Path(nx, h) /\ nx[d] \in Node BY <1>0, <2>1, PathClosed
  <2>3. d # Sentinel BY DEF IsList
  <2>4. p \in Node /\ p # Sentinel BY <1>0 DEF IsList
  <2>5. r[p] <= r[d] BY <2>3, <2>4 DEF Ordered
  <2>6. nx[d] # Sentinel BY <1>1, <1>2, <1>4
  <2>7. r[d] <= r[nx[d]] BY <2>1, <2>3, <2>6 DEF Ordered
  <2>8. r[p] \in Int /\ r[d] \in Int /\ r[nx[d]] \in Int BY <2>1, <2>2, <2>4
  <2>9. r[p] <= r[nx[d]] BY <2>5, <2>7, <2>8
  <2>10. QED BY <2>9, <1>1, <1>4
<1>5. QED BY <1>3, <1>4
-----------------------------------------------------------------------------
(* The timer list: what every operation keeps, as a predicate of the list  *)
(* and the present c.                                                      *)

\* How far from the present a scheduled timer may be.
InWindow(d) == d >= -MaxLate /\ (d <= MaxAhead \/ d <= PeriodicTicks)

\* Wake times as offsets from the present.
Rank(wk, c) == [n \in Node |-> Diff(wk[n], c)]

\* The list that begins at h: periodic_timer is on it and no more than a period ahead,
\* the sentinel half a range behind it, the placeholder at most at its head; every
\* timer is in the window and neighbours are in order.
GoodList(nx, h, wk, c) ==
  /\ IsList(nx, h) /\ wk \in [Node -> Clock] /\ c \in Clock
  /\ Periodic \in Path(nx, h) /\ h # Sentinel
  /\ Deleted \in Path(nx, h) => h = Deleted
  /\ wk[Sentinel] = Plus(wk[Periodic], Half)
  /\ Rank(wk, c)[Periodic] <= PeriodicTicks
  /\ \A n \in Path(nx, h) \ {Sentinel} : InWindow(Rank(wk, c)[n])
  /\ Ordered(nx, h, Rank(wk, c))

\* The tick constants, each by itself.
LEMMA TickFacts ==
  /\ PeriodicTicks \in Nat /\ MinTryTicks \in Nat /\ DeferTicks \in Nat
  /\ PastTicks \in Nat /\ MaxLate \in Nat /\ MaxAhead \in Nat
  /\ MinTryTicks < DeferTicks /\ DeferTicks <= PeriodicTicks
  /\ PeriodicTicks + MaxLate < Half /\ MaxAhead + MaxLate < Half
  /\ MaxAhead + PeriodicTicks <= Half /\ Half \in Nat
  /\ MaxLate < Half /\ PeriodicTicks < Half /\ MaxAhead < Half
<1>1. /\ PeriodicTicks \in Nat /\ MinTryTicks \in Nat /\ DeferTicks \in Nat
      /\ PastTicks \in Nat /\ MaxLate \in Nat /\ MaxAhead \in Nat
      /\ MinTryTicks < DeferTicks /\ DeferTicks <= PeriodicTicks
      /\ PeriodicTicks + MaxLate < Half /\ MaxAhead + MaxLate < Half
      /\ MaxAhead + PeriodicTicks <= Half
  BY TickAssumption
<1>2. QED BY <1>1, HalfRange

\* Two times of the window are less than half a range apart.
LEMMA WindowSpread ==
  ASSUME NEW a \in Int, NEW b \in Int, InWindow(a), InWindow(b)
  PROVE  a - b >= -Half /\ a - b < Half /\ a > -Half /\ a < Half
BY TickFacts DEF InWindow

\* Ranks are integers.
LEMMA RankType ==
  ASSUME NEW wk \in [Node -> Clock], NEW c \in Clock
  PROVE  /\ Rank(wk, c) \in [Node -> Int]
         /\ \A n \in Node : Rank(wk, c)[n] = Diff(wk[n], c) /\ Rank(wk, c)[n] \in -Half .. Half - 1
<1>1. \A n \in Node : Diff(wk[n], c) \in -Half .. Half - 1 BY DiffCases
<1>2. -Half .. Half - 1 \subseteq Int OBVIOUS
<1>3. QED BY <1>1, <1>2 DEF Rank

\* What is used of a good list: its head is the earliest, and no more than one
\* period ahead.
LEMMA GoodFacts ==
  ASSUME NEW nx, NEW h, NEW wk, NEW c, GoodList(nx, h, wk, c)
  PROVE  /\ nx \in Pointers /\ h \in Node /\ nx[Sentinel] = NULL
         /\ Sentinel \in Path(nx, h) /\ h \in Path(nx, h) /\ Path(nx, h) \subseteq Node
         /\ Rank(wk, c) \in [Node -> Int]
         /\ \A n \in Path(nx, h) \ {Sentinel} : Rank(wk, c)[h] <= Rank(wk, c)[n]
         /\ Rank(wk, c)[h] <= PeriodicTicks /\ Rank(wk, c)[h] >= -MaxLate
         /\ \A n \in Path(nx, h) \ {Sentinel} :
              nx[n] \in Path(nx, h) /\ nx[n] \in Node /\ nx[n] # NULL
<1>1. /\ nx \in Pointers /\ h \in Node /\ nx[Sentinel] = NULL
      /\ Sentinel \in Path(nx, h) /\ h \in Path(nx, h) /\ Path(nx, h) \subseteq Node
      /\ Rank(wk, c) \in [Node -> Int]
  BY PathStart, RankType DEF GoodList, IsList
<1>2. \A n \in Path(nx, h) \ {Sentinel} : Rank(wk, c)[h] <= Rank(wk, c)[n]
  BY <1>1, OrderedHead DEF GoodList
<1>3. Rank(wk, c)[h] >= -MaxLate
  BY <1>1 DEF GoodList, InWindow
<1>4. Rank(wk, c)[h] <= PeriodicTicks
  <2>1. /\ Rank(wk, c)[h] <= Rank(wk, c)[Periodic]
        /\ Rank(wk, c)[Periodic] <= PeriodicTicks
    BY <1>2, SpecialNodes DEF GoodList
  <2>2. /\ Rank(wk, c)[h] \in Int /\ Rank(wk, c)[Periodic] \in Int /\ PeriodicTicks \in Int
    BY <1>1, SpecialNodes, TickFacts
  <2>3. QED BY <2>1, <2>2
<1>5. \A n \in Path(nx, h) \ {Sentinel} :
        nx[n] \in Path(nx, h) /\ nx[n] \in Node /\ nx[n] # NULL
  BY ListEnd DEF GoodList
<1>6. QED BY <1>1, <1>2, <1>3, <1>4, <1>5

\* timer_is_before on wake times of the list and a time w in the window is the
\* order of the ranks, and the sentinel is later than the period and what follows it.
LEMMA RankOrder ==
  ASSUME NEW wk \in [Node -> Clock], NEW c \in Clock, NEW w \in Clock,
         InWindow(Diff(w, c)), NEW n \in Node, InWindow(Rank(wk, c)[n])
  PROVE  /\ Before(w, wk[n]) <=> Diff(w, c) < Rank(wk, c)[n]
         /\ Before(wk[n], w) <=> Rank(wk, c)[n] < Diff(w, c)
         /\ wk[Sentinel] = Plus(wk[n], Half) =>
              (Before(w, wk[Sentinel]) <=> Rank(wk, c)[n] <= Diff(w, c))
<1>1. Rank(wk, c)[n] = Diff(wk[n], c) BY RankType
<1>2. Diff(w, c) \in Int /\ Diff(wk[n], c) \in Int /\ wk[n] \in Clock BY DiffCases
<1>3. /\ Diff(w, c) - Diff(wk[n], c) >= -Half /\ Diff(w, c) - Diff(wk[n], c) < Half
      /\ Diff(wk[n], c) - Diff(w, c) >= -Half /\ Diff(wk[n], c) - Diff(w, c) < Half
  BY <1>1, <1>2, WindowSpread
<1>4. QED BY <1>1, <1>2, <1>3, OffsetOrder, BeforeSentinel

\* The list is sorted, the last node before the sentinel.
LEMMA GoodSorted ==
  ASSUME NEW nx, NEW h, NEW wk, NEW c, GoodList(nx, h, wk, c),
         NEW n \in Path(nx, h) \ {Sentinel}
  PROVE  IF nx[n] = Sentinel THEN Before(wk[n], wk[Sentinel])
                             ELSE ~Before(wk[nx[n]], wk[n])
<1> DEFINE r == Rank(wk, c)
<1>0. /\ IsList(nx, h) /\ nx \in Pointers /\ h \in Node /\ Path(nx, h) \subseteq Node
      /\ nx[n] \in Path(nx, h) /\ wk \in [Node -> Clock] /\ c \in Clock
      /\ r \in [Node -> Int] /\ \A m \in Node : r[m] = Diff(wk[m], c)
      /\ wk[n] \in Clock /\ r[n] \in Int /\ Ordered(nx, h, r)
  BY GoodFacts, RankType DEF GoodList
<1>1. \A m \in Path(nx, h) \ {Sentinel} : InWindow(r[m]) BY DEF GoodList
<1> HIDE DEF r
<1>2. InWindow(Diff(wk[n], c)) BY <1>0, <1>1
<1>3. CASE nx[n] = Sentinel
  <2>1. Periodic \in Path(nx, h) \ {Sentinel} /\ wk[Sentinel] = Plus(wk[Periodic], Half)
    BY SpecialNodes DEF GoodList
  <2>2. r[Periodic] <= r[n]
    <3>1. n \in Path(nx, Periodic) \/ Periodic \in Path(nx, n) BY <2>1, <1>0, PathTotal
    <3>2. CASE n \in Path(nx, Periodic)
      BY <3>2, <2>1, <1>0, OrderedAll
    <3>3. CASE Periodic \in Path(nx, n)
      <4>1. Path(nx, n) = {n} \cup Path(nx, Sentinel) BY <1>0, <1>3, PathStep, SpecialNodes
      <4>2. Path(nx, Sentinel) = {Sentinel} BY PathStep, SpecialNodes, <1>0 DEF IsList
      <4>3. Periodic = n BY <4>1, <4>2, <3>3, SpecialNodes
      <4>4. QED BY <4>3, <1>0
    <3>4. QED BY <3>1, <3>2, <3>3
  <2>3. InWindow(Rank(wk, c)[Periodic]) /\ Periodic \in Node BY <1>1, <2>1, SpecialNodes DEF r
  <2>4. Before(wk[n], wk[Sentinel]) <=> Rank(wk, c)[Periodic] <= Diff(wk[n], c)
    BY <2>1, <2>3, <1>0, <1>2, RankOrder
  <2>5. Before(wk[n], wk[Sentinel]) BY <2>2, <2>4, <1>0 DEF r
  <2>6. QED BY <2>5, <1>3
<1>4. CASE nx[n] # Sentinel
  <2>1. r[n] <= r[nx[n]] BY <1>4, <1>0 DEF Ordered
  <2>2. nx[n] \in Node /\ InWindow(Rank(wk, c)[nx[n]]) BY <1>0, <1>1, <1>4 DEF r
  <2>3. Before(wk[nx[n]], wk[n]) <=> Rank(wk, c)[nx[n]] < Diff(wk[n], c)
    BY <2>2, <1>0, <1>2, RankOrder
  <2>4. r[nx[n]] \in Int BY <1>0, <2>2
  <2>5. ~(Rank(wk, c)[nx[n]] < Diff(wk[n], c)) BY <2>1, <2>4, <1>0 DEF r
  <2>6. QED BY <2>3, <2>5, <1>4
<1>5. QED BY <1>3, <1>4

\* Changing wake times off the list changes nothing.
LEMMA RankSame ==
  ASSUME NEW nx, NEW h, IsList(nx, h), NEW c \in Clock,
         NEW wk \in [Node -> Clock], NEW wy \in [Node -> Clock],
         \A n \in Path(nx, h) \ {Sentinel} : wy[n] = wk[n],
         Ordered(nx, h, Rank(wk, c))
  PROVE  /\ \A n \in Path(nx, h) \ {Sentinel} : Rank(wy, c)[n] = Rank(wk, c)[n]
         /\ Ordered(nx, h, Rank(wy, c))
<1>1. Path(nx, h) \subseteq Node BY PathStart DEF IsList
<1>2. \A n \in Path(nx, h) \ {Sentinel} : Rank(wy, c)[n] = Rank(wk, c)[n]
  BY <1>1, RankType
<1>3. ASSUME NEW n \in Path(nx, h) \ {Sentinel}, nx[n] # Sentinel
      PROVE  Rank(wy, c)[n] <= Rank(wy, c)[nx[n]]
  <2>1. nx[n] \in Path(nx, h) \ {Sentinel} BY <1>3, ListEnd
  <2>2. Rank(wk, c)[n] <= Rank(wk, c)[nx[n]] BY <1>3 DEF Ordered
  <2>3. QED BY <2>1, <2>2, <1>2
<1>4. QED BY <1>2, <1>3 DEF Ordered
-----------------------------------------------------------------------------
(* Each operation on the list keeps it good, and does to the nodes on it   *)
(* what it is meant to do.                                                 *)

\* The clock moves on while the head is less than MaxLate late.
LEMMA TickList ==
  ASSUME NEW nx, NEW h, NEW wk, NEW c, GoodList(nx, h, wk, c),
         Diff(c, wk[h]) < MaxLate, NEW e, e = Plus(c, 1)
  PROVE  /\ GoodList(nx, h, wk, e)
         /\ Rank(wk, e)[h] = Rank(wk, c)[h] - 1
<1> DEFINE L == Path(nx, h) \ {Sentinel}
           r == Rank(wk, c)
           s == Rank(wk, e)
<1>0. /\ IsList(nx, h) /\ wk \in [Node -> Clock] /\ c \in Clock /\ L \subseteq Node
      /\ h \in L /\ h \in Node /\ Periodic \in L /\ r \in [Node -> Int]
      /\ Ordered(nx, h, r)
      /\ \A n \in L : r[h] <= r[n] /\ InWindow(r[n])
      /\ r[Periodic] <= PeriodicTicks
      /\ \A n \in Node : r[n] = Diff(wk[n], c)
  BY GoodFacts, RankType, SpecialNodes DEF GoodList
<1>1. \A n \in L : r[n] \in Int /\ r[n] > -Half
  BY <1>0, WindowSpread
<1>2. e \in Clock BY <1>0, <1>1, OffsetTick
<1>3. s \in [Node -> Int] /\ \A n \in Node : s[n] = Diff(wk[n], e)
  BY <1>0, <1>2, RankType
<1>4. \A n \in L : s[n] = r[n] - 1
  <2>1. SUFFICES ASSUME NEW n \in L PROVE s[n] = r[n] - 1
    OBVIOUS
  <2>2. wk[n] \in Clock /\ Diff(wk[n], c) > -Half BY <1>0, <1>1
  <2>3. Diff(wk[n], e) = Diff(wk[n], c) - 1 BY <2>2, <1>0, OffsetTick
  <2>4. QED BY <2>3, <1>0, <1>3
<1>5. r[h] > -MaxLate
  <2>1. wk[h] \in Clock /\ Diff(wk[h], c) > -Half /\ Diff(wk[h], c) = r[h] /\ r[h] \in Int
    BY <1>0, <1>1
  <2>2. Diff(c, wk[h]) = -r[h] BY <2>1, <1>0, OffsetBack
  <2>3. QED BY <2>1, <2>2, TickFacts
<1>6. \A n \in L : InWindow(s[n])
  <2>1. SUFFICES ASSUME NEW n \in L PROVE InWindow(s[n])
    OBVIOUS
  <2>2. r[h] \in Int /\ r[n] \in Int /\ r[h] <= r[n] /\ s[n] = r[n] - 1 /\ InWindow(r[n])
    BY <1>0, <1>1, <1>4
  <2>3. QED BY <2>2, <1>5, TickFacts DEF InWindow
<1>7. Ordered(nx, h, s)
  <2>1. SUFFICES ASSUME NEW n \in L, nx[n] # Sentinel PROVE s[n] <= s[nx[n]]
    BY DEF Ordered
  <2>2. nx[n] \in L /\ r[n] <= r[nx[n]] BY <2>1, <1>0, ListEnd DEF Ordered
  <2>3. r[n] \in Int /\ r[nx[n]] \in Int /\ s[n] = r[n] - 1 /\ s[nx[n]] = r[nx[n]] - 1
    BY <2>2, <1>1, <1>4
  <2>4. QED BY <2>2, <2>3
<1>8. s[Periodic] <= PeriodicTicks
  <2>1. s[Periodic] = r[Periodic] - 1 /\ r[Periodic] \in Int BY <1>0, <1>1, <1>4
  <2>2. QED BY <2>1, <1>0, TickFacts
<1>9. QED BY <1>0, <1>2, <1>4, <1>6, <1>7, <1>8 DEF GoodList

\* A timer is inserted where insert_timer finds its place, searching from pos, a
\* node that is not later than the timer.
LEMMA PlaceList ==
  ASSUME NEW nx, NEW h, NEW wk, NEW c, GoodList(nx, h, wk, c),
         NEW t \in Node, t \notin Path(nx, h), t # Deleted,
         NEW prev \in Path(nx, h), prev # Sentinel,
         NEW w \in Clock, InWindow(Diff(w, c)),
         Rank(wk, c)[prev] <= Diff(w, c),
         nx[prev] # Sentinel => Diff(w, c) <= Rank(wk, c)[nx[prev]]
  PROVE  GoodList(Link(nx, prev, t), h, [wk EXCEPT ![t] = w], c)
<1> DEFINE L == Path(nx, h)
           wy == [wk EXCEPT ![t] = w]
           ny == Link(nx, prev, t)
           r == Rank(wk, c)
           s == Rank(wy, c)
<1>0. /\ IsList(nx, h) /\ nx \in Pointers /\ L \subseteq Node /\ h \in L
      /\ wk \in [Node -> Clock] /\ c \in Clock
      /\ Periodic \in L /\ Sentinel \in L /\ h # Sentinel /\ Ordered(nx, h, r)
      /\ \A n \in L \ {Sentinel} : InWindow(r[n])
      /\ nx[prev] \in L
  BY GoodFacts DEF GoodList
<1>1. wy \in [Node -> Clock] /\ wy[t] = w /\ \A n \in Node \ {t} : wy[n] = wk[n]
  BY <1>0
<1> HIDE DEF wy
<1>2. \A n \in L \ {Sentinel} : s[n] = r[n] BY <1>0, <1>1, RankSame
<1>3. s[t] = Diff(w, c) /\ s \in [Node -> Int] BY <1>0, <1>1, RankType
<1>4. Ordered(nx, h, s) BY <1>0, <1>1, RankSame
<1>5. ny \in Pointers /\ Path(ny, h) = L \cup {t} /\ IsList(ny, h)
  BY <1>0, LinkPath
<1>6. Ordered(ny, h, s)
  <2>1. s[prev] <= s[t] BY <1>2, <1>3
  <2>2. nx[prev] # Sentinel => s[t] <= s[nx[prev]] BY <1>0, <1>2, <1>3
  <2>3. QED BY <2>1, <2>2, <1>0, <1>3, <1>4, LinkOrdered
<1>7. \A n \in Path(ny, h) \ {Sentinel} : InWindow(s[n])
  BY <1>5, <1>0, <1>2, <1>3
<1>8. s[Periodic] <= PeriodicTicks BY <1>0, <1>2, SpecialNodes DEF GoodList
<1>9. wy[Sentinel] = Plus(wy[Periodic], Half)
  <2>1. Sentinel # t /\ Periodic # t BY <1>0
  <2>2. QED BY <2>1, <1>1, SpecialNodes DEF GoodList
<1>10. Deleted \in Path(ny, h) => h = Deleted BY <1>5 DEF GoodList
<1>11. GoodList(ny, h, wy, c)
  BY <1>0, <1>1, <1>5, <1>6, <1>7, <1>8, <1>9, <1>10 DEF GoodList
<1>12. QED BY <1>5, <1>11 DEF wy

\* sched_add_timer of a timer that does not wake before the head.
LEMMA AddList ==
  ASSUME NEW nx, NEW h, NEW wk, NEW c, GoodList(nx, h, wk, c),
         NEW t \in Timers, t \notin Path(nx, h),
         NEW w \in Clock, Diff(w, c) \in -MaxAhead .. MaxAhead,
         ~Before(w, wk[h]),
         NEW prev, prev = insert_after(nx, wk, h, w),
         NEW wy, wy = [wk EXCEPT ![t] = w]
  PROVE  /\ prev # NULL /\ prev \in Path(nx, h) \ {Sentinel}
         /\ GoodList(Link(nx, prev, t), h, wy, c)
<1> DEFINE L == Path(nx, h)
           r == Rank(wk, c)
           v == Diff(w, c)
<1>0. /\ IsList(nx, h) /\ nx \in Pointers /\ L \subseteq Node /\ h \in L /\ h \in Node
      /\ wk \in [Node -> Clock] /\ c \in Clock /\ wk[h] \in Clock
      /\ Periodic \in L /\ Sentinel \in L /\ h # Sentinel
      /\ \A n \in L \ {Sentinel} : InWindow(r[n])
      /\ r[h] <= PeriodicTicks /\ r[h] >= -MaxLate /\ r \in [Node -> Int]
      /\ \A n \in Node : r[n] = Diff(wk[n], c)
      /\ wk[Sentinel] = Plus(wk[Periodic], Half)
  BY GoodFacts, RankType DEF GoodList
<1>1. r[h] \in Int /\ v \in Int BY <1>0
<1>2. r[h] <= v
  <2>1. v - r[h] >= -Half /\ v - r[h] < Half BY <1>0, <1>1, TickFacts
  <2>2. Before(w, wk[h]) <=> v < r[h] BY <2>1, <1>0, OffsetOrder
  <2>3. QED BY <2>2, <1>1
<1>3. InWindow(v) BY <1>0, <1>1, <1>2, TickFacts DEF InWindow
<1>4. \A n \in L \ {Sentinel} : Before(w, wk[n]) <=> v < r[n]
  BY <1>0, <1>3, RankOrder
<1>5. Before(w, wk[Sentinel]) <=> r[Periodic] <= v
  BY <1>0, <1>3, RankOrder, SpecialNodes
<1> HIDE DEF r, v
<1>6. /\ prev # NULL /\ prev \in L \ {Sentinel} /\ r[prev] <= v
      /\ IF nx[prev] = Sentinel THEN r[Periodic] <= v ELSE v < r[nx[prev]]
  BY <1>0, <1>1, <1>2, <1>4, <1>5, InsertPlace
<1>7. nx[prev] # Sentinel => v <= r[nx[prev]]
  <2>1. SUFFICES ASSUME nx[prev] # Sentinel PROVE v <= r[nx[prev]]
    OBVIOUS
  <2>2. nx[prev] \in Node BY <1>6, GoodFacts
  <2>3. r[nx[prev]] \in Int BY <2>2, <1>0
  <2>4. QED BY <2>1, <2>3, <1>1, <1>6
<1>8. t \in Node /\ t # Deleted BY SpecialNodes
<1>9. GoodList(Link(nx, prev, t), h, [wk EXCEPT ![t] = w], c)
  BY <1>3, <1>6, <1>7, <1>8, PlaceList DEF r, v
<1>10. QED BY <1>6, <1>9

\* Taking a node other than the head and the two fixed ones out of the list.
LEMMA RemoveList ==
  ASSUME NEW nx, NEW h, NEW wk, NEW c, GoodList(nx, h, wk, c),
         NEW p \in Path(nx, h), nx[p] \in Timers
  PROVE  /\ GoodList([nx EXCEPT ![p] = nx[nx[p]]], h, wk, c)
         /\ Path([nx EXCEPT ![p] = nx[nx[p]]], h) = Path(nx, h) \ {nx[p]}
<1> DEFINE ny == [nx EXCEPT ![p] = nx[nx[p]]]
           r == Rank(wk, c)
<1>0. /\ IsList(nx, h) /\ nx \in Pointers /\ r \in [Node -> Int] /\ Ordered(nx, h, r)
      /\ nx[p] # NULL /\ nx[p] # Sentinel /\ nx[p] # Periodic
  BY GoodFacts, SpecialNodes DEF GoodList
<1>1. nx[p] \in Path(nx, h) BY <1>0, PathClosed
<1>2. nx[nx[p]] # NULL BY <1>0, <1>1, GoodFacts
<1>3. ny \in Pointers /\ Path(ny, h) = Path(nx, h) \ {nx[p]} /\ IsList(ny, h)
  BY <1>0, <1>2, UnlinkPath
<1>4. Ordered(ny, h, r) BY <1>0, <1>2, UnlinkOrdered
<1> HIDE DEF ny, r
<1>5. GoodList(ny, h, wk, c) BY <1>0, <1>3, <1>4 DEF GoodList, r
<1>6. QED BY <1>3, <1>5 DEF ny

\* The list without its head.
LEMMA TailList ==
  ASSUME NEW nx, NEW h, NEW wk, NEW c, GoodList(nx, h, wk, c), h # Periodic
  PROVE  /\ GoodList(nx, nx[h], wk, c)
         /\ Path(nx, nx[h]) = Path(nx, h) \ {h}
         /\ nx[h] # Deleted
<1> DEFINE r == Rank(wk, c)
<1>0. /\ IsList(nx, h) /\ nx \in Pointers /\ h \in Node /\ nx[h] \in Path(nx, h)
      /\ nx[h] # NULL /\ h \in Path(nx, h) /\ nx[h] \in Node
      /\ Ordered(nx, h, r) /\ Periodic \in Path(nx, h)
      /\ Deleted \in Path(nx, h) => h = Deleted
  BY GoodFacts DEF GoodList
<1>1. h \notin Path(nx, nx[h]) BY <1>0, ListAcyclic
<1>2. Path(nx, nx[h]) = Path(nx, h) \ {h} BY <1>0, <1>1, PathStep
<1>3. IsList(nx, nx[h]) BY <1>0, ListEnd
<1>4. Ordered(nx, nx[h], r) BY <1>0, <1>2 DEF Ordered
<1>5. nx[h] # Sentinel
  <2>1. SUFFICES ASSUME nx[h] = Sentinel PROVE FALSE
    OBVIOUS
  <2>2. Path(nx, Sentinel) = {Sentinel} BY <1>0, PathStep, SpecialNodes DEF IsList
  <2>3. Periodic \in Path(nx, Sentinel) BY <1>0, <1>2, <2>1
  <2>4. QED BY <2>2, <2>3, SpecialNodes
<1>6. Deleted \notin Path(nx, nx[h]) BY <1>0, <1>2
<1>7. nx[h] # Deleted BY <1>0, <1>6, PathStart
<1>8. GoodList(nx, nx[h], wk, c)
  BY <1>0, <1>2, <1>3, <1>4, <1>5, <1>6 DEF GoodList, r
<1>9. QED BY <1>2, <1>7, <1>8

\* A walk from a node in front of a list visits it and the list.
LEMMA FrontPath ==
  ASSUME NEW nx, NEW h, IsList(nx, h), NEW t \in Node, t \notin Path(nx, h),
         NEW ny, ny = [nx EXCEPT ![t] = h]
  PROVE  Path(ny, t) = {t} \cup Path(nx, h)
<1>1. nx \in Pointers /\ h \in Node /\ Path(nx, h) \subseteq Node
  BY PathStart DEF IsList
<1>2. ny \in Pointers /\ ny[t] = h /\ \A n \in Path(nx, h) : ny[n] = nx[n]
  BY <1>1 DEF Pointers
<1>3. QED BY ONLY <1>2, IsList(nx, h), t \in Node, t \notin Path(nx, h), ConsPath

\* A timer, or the placeholder, in front of a list without one, no later than its head.
LEMMA FrontList ==
  ASSUME NEW nx, NEW h, NEW wk, NEW c, GoodList(nx, h, wk, c),
         Deleted \notin Path(nx, h), NEW t \in Timers \cup {Deleted}, t \notin Path(nx, h),
         NEW w \in Clock, InWindow(Diff(w, c)), Diff(w, c) <= Rank(wk, c)[h],
         NEW ny, ny = [nx EXCEPT ![t] = h], NEW wy, wy = [wk EXCEPT ![t] = w]
  PROVE  GoodList(ny, t, wy, c)
<1> DEFINE L == Path(nx, h)
           r == Rank(wk, c)
           s == Rank(wy, c)
<1>0. /\ IsList(nx, h) /\ nx \in Pointers /\ L \subseteq Node /\ h \in L /\ h \in Node
      /\ wk \in [Node -> Clock] /\ c \in Clock
      /\ Periodic \in L /\ Sentinel \in L /\ h # Sentinel /\ Ordered(nx, h, r)
      /\ \A n \in L \ {Sentinel} : InWindow(r[n])
      /\ t \in Node /\ t # Sentinel /\ t # Periodic
  BY GoodFacts, SpecialNodes DEF GoodList
<1>1. wy \in [Node -> Clock] /\ wy[t] = w /\ \A n \in Node \ {t} : wy[n] = wk[n]
  BY <1>0
<1>2. ny \in Pointers /\ ny[t] = h /\ \A n \in Node \ {t} : ny[n] = nx[n]
  BY <1>0 DEF Pointers
<1>3. \A n \in L \ {Sentinel} : s[n] = r[n] BY ONLY <1>0, <1>1, t \notin L, RankSame
<1>4. s[t] = Diff(w, c) /\ Ordered(nx, h, s)
  <2>1. s[t] = Diff(w, c) BY ONLY <1>0, <1>1, RankType
  <2>2. Ordered(nx, h, s) BY ONLY <1>0, <1>1, t \notin L, RankSame
  <2>3. QED BY <2>1, <2>2
<1>5. Path(ny, t) = {t} \cup L /\ IsList(ny, t)
  BY ONLY <1>0, <1>2, t \notin L, ConsPath
<1>6. Ordered(ny, t, s)
  <2>1. SUFFICES ASSUME NEW n \in Path(ny, t) \ {Sentinel}, ny[n] # Sentinel
                 PROVE  s[n] <= s[ny[n]]
    BY DEF Ordered
  <2>2. CASE n = t
    <3>1. s[h] = r[h] BY <1>0, <1>3
    <3>2. QED BY <2>2, <3>1, <1>2, <1>4
  <2>3. CASE n # t
    <3>1. n \in L \ {Sentinel} /\ ny[n] = nx[n] BY <2>3, <1>0, <1>2, <1>5
    <3>2. QED BY <3>1, <2>1, <1>4 DEF Ordered
  <2>4. QED BY <2>2, <2>3
<1>7. \A n \in Path(ny, t) \ {Sentinel} : InWindow(s[n])
  BY <1>5, <1>0, <1>3, <1>4
<1>8. s[Periodic] <= PeriodicTicks BY <1>0, <1>3, SpecialNodes DEF GoodList
<1>9. wy[Sentinel] = Plus(wy[Periodic], Half) BY <1>0, <1>1, SpecialNodes DEF GoodList
<1>10. GoodList(ny, t, wy, c)
  BY <1>0, <1>1, <1>5, <1>6, <1>7, <1>8, <1>9, SpecialNodes DEF GoodList
<1>11. QED BY <1>5, <1>10

\* sched_timer_dispatch, SF_RESCHEDULE: the head h has a new wake time, no earlier
\* than the window; it stays, or goes where a search from the hint li or from its
\* successor finds its place.
LEMMA AgainList ==
  ASSUME NEW nx, NEW h, NEW wk, NEW c, GoodList(nx, h, wk, c), h # Deleted,
         NEW li \in Path(nx, h) \ {Sentinel},
         NEW wy \in [Node -> Clock],
         \A n \in Path(nx, h) \ {h, Sentinel} : wy[n] = wk[n],
         InWindow(Rank(wy, c)[h]), Rank(wy, c)[Periodic] <= PeriodicTicks,
         wy[Sentinel] = Plus(wy[Periodic], Half),
         NEW pos, pos = IF Before(wy[h], wy[li]) THEN nx[h] ELSE li,
         NEW prev, prev = insert_after(nx, wy, pos, wy[h])
  PROVE  /\ Before(wy[h], wy[nx[h]]) => GoodList(nx, h, wy, c)
         /\ ~Before(wy[h], wy[nx[h]]) =>
              /\ prev # NULL
              /\ GoodList(Link(nx, prev, h), nx[h], wy, c)
              /\ Path(Link(nx, prev, h), nx[h]) = Path(nx, h)
              /\ nx[h] # Deleted /\ nx[h] # Sentinel
<1> DEFINE L == Path(nx, h)
           K == Path(nx, nx[h])
           r == Rank(wk, c)
           s == Rank(wy, c)
           v == s[h]
<1>0. /\ IsList(nx, h) /\ nx \in Pointers /\ h \in Node /\ L \subseteq Node /\ h \in L
      /\ h # Sentinel /\ nx[h] \in L /\ nx[h] \in Node /\ nx[h] # NULL
      /\ Periodic \in L /\ Sentinel \in L /\ Deleted \notin L
      /\ wk \in [Node -> Clock] /\ c \in Clock /\ Ordered(nx, h, r)
      /\ \A n \in L \ {Sentinel} : InWindow(r[n])
  BY GoodFacts DEF GoodList
<1>1. /\ h \notin K /\ K = L \ {h} /\ IsList(nx, nx[h])
  <2>1. h \notin K BY <1>0, ListAcyclic
  <2>2. QED BY <2>1, <1>0, PathStep, ListEnd
<1>2. /\ r \in [Node -> Int] /\ s \in [Node -> Int]
      /\ \A n \in Node : r[n] = Diff(wk[n], c) /\ s[n] = Diff(wy[n], c)
  BY <1>0, RankType
<1>3. \A n \in K \ {Sentinel} : s[n] = r[n] BY <1>0, <1>1, <1>2
<1>4. \A n \in L \ {Sentinel} : InWindow(s[n]) BY <1>0, <1>1, <1>3
<1>5. /\ \A n \in L \ {Sentinel} : Before(wy[h], wy[n]) <=> v < s[n]
      /\ Before(wy[h], wy[Sentinel]) <=> s[Periodic] <= v
  <2>1. wy[h] \in Clock /\ InWindow(Diff(wy[h], c)) /\ Diff(wy[h], c) = v BY <1>0, <1>2
  <2>2. ASSUME NEW n \in L \ {Sentinel} PROVE Before(wy[h], wy[n]) <=> v < s[n]
    <3>1. n \in Node /\ InWindow(s[n]) BY <1>0, <1>4
    <3>2. QED BY <3>1, <2>1, <1>0, RankOrder
  <2>3. Before(wy[h], wy[Sentinel]) <=> s[Periodic] <= v
    <3>1. Periodic \in Node /\ InWindow(s[Periodic]) BY <1>0, <1>4, SpecialNodes
    <3>2. QED BY <3>1, <2>1, <1>0, RankOrder
  <2>4. QED BY <2>2, <2>3
<1>6. Ordered(nx, nx[h], s)
  <2>1. SUFFICES ASSUME NEW n \in K \ {Sentinel}, nx[n] # Sentinel PROVE s[n] <= s[nx[n]]
    BY DEF Ordered
  <2>2. nx[n] \in K BY <2>1, <1>1, ListEnd
  <2>3. r[n] <= r[nx[n]] BY <2>1, <1>0, <1>1 DEF Ordered
  <2>4. QED BY <2>1, <2>2, <2>3, <1>3
<1>7. v \in Int /\ \A n \in L : s[n] \in Int BY <1>0, <1>2
<1> HIDE DEF r, s
<1>8. ASSUME Before(wy[h], wy[nx[h]]) PROVE GoodList(nx, h, wy, c)
  <2>1. Ordered(nx, h, s)
    <3>1. SUFFICES ASSUME NEW n \in L \ {Sentinel}, nx[n] # Sentinel PROVE s[n] <= s[nx[n]]
      BY DEF Ordered
    <3>2. CASE n = h
      <4>1. nx[h] \in L \ {Sentinel} BY <3>1, <3>2, <1>0
      <4>2. v < s[nx[h]] /\ s[nx[h]] \in Int BY <4>1, <1>5, <1>7, <1>8
      <4>3. QED BY <4>2, <3>2, <1>7
    <3>3. CASE n # h BY <3>1, <3>3, <1>1, <1>6 DEF Ordered
    <3>4. QED BY <3>2, <3>3
  <2>2. QED BY <2>1, <1>0, <1>4 DEF GoodList, s
<1>9. ASSUME ~Before(wy[h], wy[nx[h]])
      PROVE  /\ prev # NULL
             /\ GoodList(Link(nx, prev, h), nx[h], wy, c)
             /\ Path(Link(nx, prev, h), nx[h]) = Path(nx, h)
             /\ nx[h] # Deleted /\ nx[h] # Sentinel
  <2>1. nx[h] # Sentinel
    <3>1. SUFFICES ASSUME nx[h] = Sentinel PROVE FALSE
      OBVIOUS
    <3>2. K = {Sentinel} BY <3>1, <1>0, PathStep, SpecialNodes DEF IsList
    <3>3. h = Periodic BY <3>2, <1>0, <1>1, SpecialNodes
    <3>4. s[Periodic] <= v BY <3>3, <1>7
    <3>5. QED BY <3>4, <3>1, <1>5, <1>9
  <2>2. /\ pos \in L \ {Sentinel} /\ s[pos] <= v
    <3>1. CASE Before(wy[h], wy[li])
      <4>1. pos = nx[h] BY <3>1
      <4>2. ~(v < s[nx[h]]) /\ s[nx[h]] \in Int BY <2>1, <1>0, <1>5, <1>7, <1>9
      <4>3. QED BY <4>1, <4>2, <2>1, <1>0, <1>7
    <3>2. CASE ~Before(wy[h], wy[li])
      <4>1. pos = li BY <3>2
      <4>2. ~(v < s[li]) /\ s[li] \in Int BY <3>2, <1>5, <1>7
      <4>3. QED BY <4>1, <4>2, <1>7
    <3>3. QED BY <3>1, <3>2
  <2>3. IsList(nx, pos) /\ Path(nx, pos) \subseteq L /\ pos \in Node
    BY <2>2, <1>0, ListEnd, PathFrom
  <2>4. v < s[Periodic] => Periodic \in Path(nx, pos)
    <3>1. SUFFICES ASSUME v < s[Periodic], Periodic \notin Path(nx, pos) PROVE FALSE
      OBVIOUS
    <3>2. pos \in Path(nx, Periodic) BY <3>1, <2>2, <1>0, PathTotal
    <3>3. pos # h BY <3>1, <1>0
    <3>4. Periodic # h BY <3>1, <1>7
    <3>5. Periodic \in K \ {Sentinel} BY <3>4, <1>0, <1>1, SpecialNodes
    <3>6. s[Periodic] <= s[pos] BY <3>2, <3>5, <2>2, <1>1, <1>2, <1>6, OrderedAll
    <3>7. s[Periodic] \in Int /\ s[pos] \in Int BY <2>2, <1>0, <1>7
    <3>8. QED BY <3>1, <3>6, <3>7, <2>2, <1>7
  <2>5. \A n \in Path(nx, pos) \ {Sentinel} : Before(wy[h], wy[n]) <=> v < s[n]
    BY <2>3, <1>5
  <2>6. /\ prev # NULL /\ prev \in Path(nx, pos) \ {Sentinel} /\ s[prev] <= v
        /\ StopsAt(nx, wy, wy[h], prev)
        /\ IF nx[prev] = Sentinel THEN s[Periodic] <= v ELSE v < s[nx[prev]]
    BY <2>2, <2>3, <2>4, <2>5, <1>2, <1>5, <1>7, InsertPlace
  <2>7. prev # h BY <2>6, <1>9 DEF StopsAt
  <2>8. prev \in K BY <2>3, <2>6, <2>7, <1>1
  <2>9. nx[prev] # Sentinel => v <= s[nx[prev]]
    <3>1. SUFFICES ASSUME nx[prev] # Sentinel PROVE v <= s[nx[prev]]
      OBVIOUS
    <3>2. nx[prev] \in K BY <2>6, <2>8, <1>1, ListEnd
    <3>3. s[nx[prev]] \in Int BY <3>2, <1>1, <1>7
    <3>4. QED BY <3>1, <3>3, <2>6, <1>7
  <2> DEFINE ny == Link(nx, prev, h)
  <2>10. IsList(ny, nx[h]) /\ Path(ny, nx[h]) = L
    <3>1. prev # Sentinel BY <2>6
    <3>2. IsList(ny, nx[h]) /\ Path(ny, nx[h]) = K \cup {h}
      BY <3>1, <2>8, <1>0, <1>1, LinkPath
    <3>3. QED BY <3>2, <1>0, <1>1
  <2>11. Ordered(ny, nx[h], s)
    BY <2>6, <2>8, <2>9, <1>0, <1>1, <1>2, <1>6, LinkOrdered
  <2> HIDE DEF ny
  <2>12. nx[h] # Deleted BY <1>0
  <2>13. GoodList(ny, nx[h], wy, c)
    BY <2>1, <2>10, <2>11, <1>0, <1>4 DEF GoodList, s
  <2>14. QED BY <2>1, <2>6, <2>10, <2>12, <2>13 DEF ny
<1>10. QED BY <1>8, <1>9

\* sched_timer_reset: the placeholder, the period and the sentinel are left.
LEMMA ResetList ==
  ASSUME NEW nx, NEW h, NEW wk, NEW c, GoodList(nx, h, wk, c), NEW ny, NEW wy,
         ny = [nx EXCEPT ![Deleted] = Periodic, ![Periodic] = Sentinel],
         wy = [wk EXCEPT ![Deleted] = wk[Periodic]]
  PROVE  /\ GoodList(ny, Deleted, wy, c)
         /\ Path(ny, Deleted) = Special
<1> DEFINE s == Rank(wy, c)
<1>0. /\ nx \in Pointers /\ nx[Sentinel] = NULL /\ wk \in [Node -> Clock] /\ c \in Clock
      /\ Periodic \in Node /\ Sentinel \in Node /\ Deleted \in Node
      /\ InWindow(Rank(wk, c)[Periodic]) /\ Rank(wk, c)[Periodic] <= PeriodicTicks
      /\ wk[Sentinel] = Plus(wk[Periodic], Half)
  BY GoodFacts, SpecialNodes DEF GoodList
<1>1. /\ ny \in Pointers /\ ny[Deleted] = Periodic /\ ny[Periodic] = Sentinel
      /\ ny[Sentinel] = NULL
  BY <1>0, SpecialNodes DEF Pointers
<1>2. Path(ny, Sentinel) = {Sentinel} BY <1>0, <1>1, PathStep
<1>3. Path(ny, Periodic) = {Periodic, Sentinel}
  <2>1. ny[Periodic] # NULL BY <1>0, <1>1, SpecialNodes
  <2>2. Path(ny, Periodic) = {Periodic} \cup Path(ny, Sentinel)
    BY ONLY <2>1, <1>0, <1>1, PathStep
  <2>3. QED BY <2>2, <1>2
<1>4. Path(ny, Deleted) = {Deleted, Periodic, Sentinel}
  <2>1. ny[Deleted] # NULL BY <1>0, <1>1, SpecialNodes
  <2>2. Path(ny, Deleted) = {Deleted} \cup Path(ny, Periodic)
    BY ONLY <2>1, <1>0, <1>1, PathStep
  <2>3. QED BY <2>2, <1>3
<1>5. /\ wy \in [Node -> Clock] /\ wy[Deleted] = wk[Periodic]
      /\ \A n \in Node \ {Deleted} : wy[n] = wk[n]
  BY <1>0
<1>6. s[Deleted] = Rank(wk, c)[Periodic] /\ s[Periodic] = Rank(wk, c)[Periodic]
  <2>1. /\ s[Deleted] = Diff(wy[Deleted], c) /\ s[Periodic] = Diff(wy[Periodic], c)
        /\ Rank(wk, c)[Periodic] = Diff(wk[Periodic], c)
    BY ONLY <1>0, <1>5, RankType
  <2>2. QED BY <2>1, <1>0, <1>5, SpecialNodes
<1>7. s[Periodic] \in Int BY ONLY <1>0, <1>5, RankType
<1> HIDE DEF s
<1>8. Ordered(ny, Deleted, s)
  <2>1. SUFFICES ASSUME NEW n \in {Deleted, Periodic}, ny[n] # Sentinel PROVE s[n] <= s[ny[n]]
    BY <1>4 DEF Ordered
  <2>2. n = Deleted BY <2>1, <1>1
  <2>3. QED BY <2>2, <1>1, <1>6, <1>7
<1>9. IsList(ny, Deleted) BY <1>0, <1>1, <1>4 DEF IsList
<1>10. GoodList(ny, Deleted, wy, c)
  <2>1. \A n \in Path(ny, Deleted) \ {Sentinel} : InWindow(s[n]) BY <1>0, <1>4, <1>6
  <2>2. wy[Sentinel] = Plus(wy[Periodic], Half) BY <1>0, <1>5, SpecialNodes
  <2>3. QED BY <2>1, <2>2, <1>0, <1>4, <1>5, <1>6, <1>8, <1>9, SpecialNodes DEF GoodList, s
<1>11. QED BY <1>4, <1>10 DEF Special
-----------------------------------------------------------------------------
(* The inductive invariant.                                                *)

\* The nodes on the list.
Listed == Path(next, timer_list)
\* SysTick may run the head now.
HeadDue == timer_list = Deleted \/ Rank(waketime, now)[timer_list] <= 0

\* The list is good, and so is the hint; no walk has failed.
ListPart ==
  /\ GoodList(next, timer_list, waketime, now) /\ fault = FALSE
  /\ last_insert \in Listed \ {Sentinel, Deleted}

\* The list holds what the owners of the timers asked for.
OwnerPart ==
  want = [t \in Timers |-> IF t \in Listed THEN waketime[t] ELSE NULL]

\* SysTick is programmed for the head, or deferred past it for a short time.
AlarmSet ==
  /\ alarm \in Clock
  /\ Rank(waketime, now)[timer_list] <= Diff(alarm, now)
  /\ Diff(alarm, now) <= PeriodicTicks
  /\ \/ Rank(waketime, now)[timer_list] = Diff(alarm, now)
     \/ Diff(alarm, now) <= DeferTicks

\* When SysTick is pending or its loop runs, the head is due; when neither, it is
\* programmed for the head.
AlarmPart ==
  /\ alarm \in Clock \cup {NULL} /\ kick \in BOOLEAN /\ shut \in BOOLEAN
  /\ pc \in {"task", "run", "check", "spin"}
  /\ kick \/ pc = "run" => HeadDue
  /\ pc # "task" => ~kick
  /\ pc = "task" /\ ~kick => AlarmSet

\* The inductive invariant.
TimerInv == ListPart /\ OwnerPart /\ AlarmPart

\* The list as the firmware starts with it.
LEMMA InitTimer == Init => TimerInv
<1> SUFFICES ASSUME Init PROVE TimerInv
  OBVIOUS
<1> USE DEF Init
<1>0. /\ next \in Pointers /\ next[Periodic] = Sentinel /\ next[Sentinel] = NULL
      /\ waketime \in [Node -> Clock] /\ now \in Clock
      /\ waketime[Periodic] = 0 /\ waketime[Sentinel] = Half
  BY SpecialNodes, HalfRange DEF Pointers
<1>1. Path(next, Sentinel) = {Sentinel} BY <1>0, PathStep, SpecialNodes
<1>2. Path(next, Periodic) = {Periodic, Sentinel}
  <2>1. next[Periodic] # NULL BY <1>0, SpecialNodes
  <2>2. Path(next, Periodic) = {Periodic} \cup Path(next, Sentinel)
    BY ONLY <2>1, <1>0, PathStep, SpecialNodes
  <2>3. QED BY <2>2, <1>1
<1>3. Listed = {Periodic, Sentinel} BY <1>2 DEF Listed
<1>4. Rank(waketime, now)[Periodic] = 0
  <2>1. Rank(waketime, now)[Periodic] = Diff(0, 0) BY <1>0, RankType, SpecialNodes
  <2>2. QED BY <2>1, HalfRange, OffsetNow
<1>5. IsList(next, timer_list) BY <1>0, <1>2, SpecialNodes DEF IsList
<1>6. Ordered(next, timer_list, Rank(waketime, now))
  BY <1>0, <1>2, SpecialNodes DEF Ordered
<1>7. waketime[Sentinel] = Plus(waketime[Periodic], Half)
  <2>1. Half \in Nat /\ Half > 0 /\ Word = 2 * Half /\ 0 \in Clock BY HalfRange
  <2>2. Plus(0, Half) = Half BY <2>1, PlusCases
  <2>3. QED BY <2>2, <1>0
<1>8. InWindow(0) /\ 0 <= PeriodicTicks BY TickFacts DEF InWindow
<1>9. GoodList(next, timer_list, waketime, now)
  BY <1>0, <1>2, <1>4, <1>5, <1>6, <1>7, <1>8, SpecialNodes DEF GoodList
<1>10. ListPart BY <1>9, <1>3, SpecialNodes DEF ListPart
<1>11. OwnerPart
  <2>1. \A t \in Timers : t \notin Listed BY <1>3, SpecialNodes
  <2>2. QED BY <2>1 DEF OwnerPart
<1>12. AlarmPart
  <2>1. HeadDue BY <1>4 DEF HeadDue
  <2>2. QED BY <2>1 DEF AlarmPart
<1>13. QED BY <1>10, <1>11, <1>12 DEF TimerInv

\* A shutdown, from wherever the program is.
LEMMA ShutdownTimer ==
  ASSUME TimerInv, Shutdown
  PROVE  TimerInv'
<1>0. /\ GoodList(next, timer_list, waketime, now) /\ fault = FALSE
  BY DEF TimerInv, ListPart
<1>1. /\ timer_list' = Deleted /\ last_insert' = Periodic /\ now' = now /\ fault' = fault
      /\ waketime' = [waketime EXCEPT ![Deleted] = waketime[Periodic]]
      /\ next' = [next EXCEPT ![Deleted] = Periodic, ![Periodic] = Sentinel]
      /\ kick' = TRUE /\ alarm' = NULL /\ shut' = TRUE /\ pc' = "task"
      /\ want' = [t \in Timers |-> NULL]
  BY DEF Shutdown, sched_timer_reset, timer_kick
<1>2. GoodList(next', Deleted, waketime', now) /\ Path(next', Deleted) = Special
  BY <1>0, <1>1, ResetList
<1>3. Listed' = Special BY <1>1, <1>2 DEF Listed
<1>4. ListPart' BY <1>0, <1>1, <1>2, <1>3, SpecialNodes DEF ListPart, Special
<1>5. OwnerPart'
  <2>1. \A t \in Timers : t \notin Listed' BY <1>3, SpecialNodes DEF Special
  <2>2. QED BY <2>1, <1>1 DEF OwnerPart
<1>6. AlarmPart' BY <1>1 DEF AlarmPart, HeadDue
<1>7. QED BY <1>4, <1>5, <1>6 DEF TimerInv

\* What is known before every operation on the list.
LEMMA TimerFacts ==
  ASSUME TimerInv
  PROVE  /\ GoodList(next, timer_list, waketime, now) /\ fault = FALSE
         /\ last_insert \in Listed \ {Sentinel, Deleted}
         /\ next \in Pointers /\ timer_list \in Node /\ timer_list \in Listed
         /\ timer_list # Sentinel /\ Listed \subseteq Node
         /\ waketime \in [Node -> Clock] /\ now \in Clock
         /\ Periodic \in Listed /\ Sentinel \in Listed
         /\ Deleted \in Listed => timer_list = Deleted
         /\ \A t \in Timers : want[t] = IF t \in Listed THEN waketime[t] ELSE NULL
         /\ \A t \in Timers : t \in Listed <=> want[t] # NULL
         /\ want \in [Timers -> Clock \cup {NULL}]
<1>1. GoodList(next, timer_list, waketime, now) /\ fault = FALSE
      /\ last_insert \in Listed \ {Sentinel, Deleted}
  BY DEF TimerInv, ListPart
<1>2. /\ next \in Pointers /\ timer_list \in Node /\ timer_list \in Listed
      /\ timer_list # Sentinel /\ Listed \subseteq Node
      /\ waketime \in [Node -> Clock] /\ now \in Clock
      /\ Periodic \in Listed /\ Sentinel \in Listed
      /\ Deleted \in Listed => timer_list = Deleted
  BY <1>1, GoodFacts DEF GoodList, Listed
<1>3. \A t \in Timers : want[t] = IF t \in Listed THEN waketime[t] ELSE NULL
  BY DEF TimerInv, OwnerPart
<1>4. \A t \in Timers : waketime[t] \in Clock /\ waketime[t] # NULL
  BY <1>2, SpecialNodes, NodeAssumption
<1>5. want \in [Timers -> Clock \cup {NULL}]
  BY <1>4 DEF TimerInv, OwnerPart
<1>6. QED BY <1>1, <1>2, <1>3, <1>4, <1>5

\* sched_clear_shutdown does not touch the list.
LEMMA ClearTimer ==
  ASSUME TimerInv, ClearShutdown
  PROVE  TimerInv'
<1>1. ListPart' BY DEF TimerInv, ListPart, Listed, ClearShutdown, list
<1>2. OwnerPart' BY DEF TimerInv, OwnerPart, Listed, ClearShutdown, list
<1>3. AlarmPart' BY DEF TimerInv, AlarmPart, AlarmSet, HeadDue, ClearShutdown, list
<1>4. QED BY <1>1, <1>2, <1>3 DEF TimerInv

\* The clock moves on: no rank falls out of the window, since the head is not late.
LEMMA TickTimer ==
  ASSUME TimerInv, Tick
  PROVE  TimerInv'
<1> DEFINE r == Rank(waketime, now)[timer_list]
           s == Rank(waketime, now')[timer_list]
<1>0. /\ GoodList(next, timer_list, waketime, now) /\ fault = FALSE
      /\ waketime \in [Node -> Clock] /\ now \in Clock /\ timer_list \in Node
  BY TimerFacts
<1>1. /\ Diff(now, waketime[timer_list]) < MaxLate /\ now' = Plus(now, 1)
      /\ timer_list' = timer_list /\ last_insert' = last_insert /\ next' = next
      /\ waketime' = waketime /\ alarm' = alarm /\ kick' = kick /\ pc' = pc
      /\ shut' = shut /\ fault' = fault /\ want' = want
  BY DEF Tick, list
<1>2. GoodList(next, timer_list, waketime, now') /\ s = r - 1
  BY <1>0, <1>1, TickList
<1>3. ListPart' BY <1>1, <1>2 DEF ListPart, Listed, TimerInv
<1>4. OwnerPart' BY <1>1 DEF OwnerPart, Listed, TimerInv
<1>5. r \in Int /\ r >= -MaxLate /\ r > -Half
  <2>1. r \in Int /\ r >= -MaxLate BY <1>0, GoodFacts
  <2>2. QED BY <2>1, TickFacts
<1>6. HeadDue => HeadDue'
  <2>1. r <= 0 => s <= 0 BY <1>2, <1>5
  <2>2. QED BY <2>1, <1>1 DEF HeadDue
<1>7. AlarmSet => AlarmSet'
  <2>1. SUFFICES ASSUME AlarmSet PROVE AlarmSet'
    OBVIOUS
  <2> DEFINE a == Diff(alarm, now)
             b == Diff(alarm, now')
  <2>2. /\ alarm \in Clock /\ r <= a /\ a <= PeriodicTicks /\ (r = a \/ a <= DeferTicks)
    BY <2>1 DEF AlarmSet
  <2>3. a \in Int BY <2>2, <1>0, DiffCases
  <2>4. a > -Half BY <2>2, <2>3, <1>5, TickFacts
  <2>5. b = a - 1 BY <2>2, <2>4, <1>0, <1>1, OffsetTick
  <2>6. s <= b /\ b <= PeriodicTicks /\ (s = b \/ b <= DeferTicks)
    BY <2>2, <2>3, <2>5, <1>2, <1>5, TickFacts
  <2>7. QED BY <2>2, <2>6, <1>1 DEF AlarmSet
<1>8. AlarmPart'
  <2>1. AlarmPart BY DEF TimerInv
  <2>2. QED BY <2>1, <1>1, <1>6, <1>7 DEF AlarmPart
<1>9. QED BY <1>3, <1>4, <1>8 DEF TimerInv

\* The head that SysTick is about to run is due.
LEMMA DispatchDue ==
  ASSUME TimerInv, SysTickDue
  PROVE  HeadDue
<1>0. /\ GoodList(next, timer_list, waketime, now)
      /\ waketime \in [Node -> Clock] /\ now \in Clock /\ timer_list \in Node
  BY TimerFacts
<1> DEFINE r == Rank(waketime, now)[timer_list]
<1>1. r \in Int /\ r >= -MaxLate /\ r > -Half /\ r = Diff(waketime[timer_list], now)
  <2>1. r \in Int /\ r >= -MaxLate BY <1>0, GoodFacts
  <2>2. QED BY <2>1, <1>0, RankType, TickFacts
<1>2. CASE kick BY <1>2 DEF TimerInv, AlarmPart
<1>3. CASE pc = "task" /\ ~kick
  <2>1. Expired /\ AlarmSet BY <1>3 DEF SysTickDue, TimerInv, AlarmPart
  <2>2. alarm \in Clock /\ r <= Diff(alarm, now) BY <2>1 DEF AlarmSet
  <2>3. Diff(alarm, now) \in Int BY <2>2, <1>0, DiffCases
  <2>4. Diff(alarm, now) > -Half BY <2>2, <2>3, <1>1, HalfRange
  <2>5. Diff(now, alarm) = -Diff(alarm, now) BY <2>2, <2>4, <1>0, OffsetBack
  <2>6. ~(Diff(now, alarm) < 0) BY <2>1 DEF Expired, Before
  <2>7. r <= 0 BY <2>2, <2>3, <2>5, <2>6, <1>1
  <2>8. QED BY <2>7 DEF HeadDue
<1>4. CASE pc = "spin" /\ ~Before(now, waketime[timer_list])
  <2>1. Diff(now, waketime[timer_list]) = -r BY <1>0, <1>1, OffsetBack
  <2>2. r <= 0 BY <2>1, <1>1, <1>4 DEF Before
  <2>3. QED BY <2>2 DEF HeadDue
<1>5. QED BY <1>2, <1>3, <1>4 DEF SysTickDue

\* SysTick begins to run the head, which is due.
LEMMA DispatchTimer ==
  ASSUME TimerInv, sched_timer_dispatch
  PROVE  TimerInv'
<1>1. /\ timer_list' = timer_list /\ last_insert' = last_insert /\ next' = next
      /\ waketime' = waketime /\ alarm' = NULL /\ kick' = FALSE /\ pc' = "run"
      /\ shut' = shut /\ fault' = fault /\ want' = want /\ now' = now
  BY DEF sched_timer_dispatch, list
<1>2. HeadDue' BY <1>1, DispatchDue DEF HeadDue, sched_timer_dispatch
<1>3. ListPart' BY <1>1 DEF ListPart, Listed, TimerInv
<1>4. OwnerPart' BY <1>1 DEF OwnerPart, Listed, TimerInv
<1>5. AlarmPart' BY <1>1, <1>2 DEF AlarmPart, TimerInv
<1>6. QED BY <1>3, <1>4, <1>5 DEF TimerInv

\* timer_dispatch_many sets an alarm for the head, or defers it.
LEMMA SetAlarmTimer ==
  ASSUME TimerInv, SetAlarm
  PROVE  TimerInv'
<1> DEFINE r == Rank(waketime, now)[timer_list]
<1>0. /\ GoodList(next, timer_list, waketime, now)
      /\ waketime \in [Node -> Clock] /\ now \in Clock /\ timer_list \in Node
  BY TimerFacts
<1>1. /\ timer_list' = timer_list /\ last_insert' = last_insert /\ next' = next
      /\ waketime' = waketime /\ kick' = kick /\ pc = "check"
      /\ shut' = shut /\ fault' = fault /\ want' = want /\ now' = now
  BY DEF SetAlarm, list
<1>2. r \in Int /\ r <= PeriodicTicks /\ r = Diff(waketime[timer_list], now)
  BY <1>0, GoodFacts, RankType
<1>3. ListPart' BY <1>1 DEF ListPart, Listed, TimerInv
<1>4. OwnerPart' BY <1>1 DEF OwnerPart, Listed, TimerInv
<1>5. AlarmPart /\ kick = FALSE
  <2>1. AlarmPart BY DEF TimerInv
  <2>2. QED BY <2>1, <1>1 DEF AlarmPart
<1>6. AlarmPart'
  <2>1. CASE r > MinTryTicks /\ alarm' = waketime[timer_list] /\ pc' = "task"
    <3>1. alarm' \in Clock /\ Diff(alarm', now) = r BY <2>1, <1>0, <1>2
    <3>2. AlarmSet' BY <3>1, <1>1, <1>2 DEF AlarmSet
    <3>3. QED BY <3>1, <3>2, <2>1, <1>1, <1>5 DEF AlarmPart
  <2>2. CASE r <= MinTryTicks /\ alarm' = Plus(now, DeferTicks) /\ pc' = "task"
    <3>1. Diff(now, now) = 0 BY <1>0, OffsetNow
    <3>2. DeferTicks \in -Half .. Half /\ 0 + DeferTicks >= -Half /\ 0 + DeferTicks < Half
      BY TickFacts
    <3>3. alarm' \in Clock /\ Diff(alarm', now) = DeferTicks
      <4>1. Plus(now, DeferTicks) \in Clock /\ Diff(Plus(now, DeferTicks), now) = 0 + DeferTicks
        BY <3>1, <3>2, <1>0, OffsetPlus
      <4>2. QED BY <4>1, <2>2, TickFacts
    <3>4. r <= DeferTicks /\ DeferTicks <= PeriodicTicks BY <2>2, <1>2, TickFacts
    <3>5. AlarmSet' BY <3>3, <3>4, <1>1, TickFacts DEF AlarmSet
    <3>6. QED BY <3>3, <3>5, <2>2, <1>1, <1>5 DEF AlarmPart
  <2>3. CASE pc' = "spin" /\ alarm' = alarm
    BY <2>3, <1>1, <1>5 DEF AlarmPart
  <2>4. QED BY <2>1, <2>2, <2>3, <1>2 DEF SetAlarm
<1>7. QED BY <1>3, <1>4, <1>6 DEF TimerInv

\* The wake time that sched_add_timer is given, d ticks from the present.
LEMMA AddTime ==
  ASSUME now \in Clock, NEW d \in -MaxAhead .. MaxAhead
  PROVE  Plus(now, d) \in Clock /\ Diff(Plus(now, d), now) = d
<1>1. d \in -Half .. Half /\ 0 + d >= -Half /\ 0 + d < Half /\ 0 + d = d BY TickFacts
<1>2. Diff(now, now) = 0 BY OffsetNow
<1>3. QED BY <1>1, <1>2, OffsetPlus

\* The list behind the placeholder.
LEMMA BehindHold ==
  ASSUME TimerInv
  PROVE  LET tail == IF timer_list = Deleted THEN next[Deleted] ELSE timer_list
         IN  /\ GoodList(next, tail, waketime, now)
             /\ Path(next, tail) = Listed \ {Deleted}
             /\ Rank(waketime, now)[timer_list] <= Rank(waketime, now)[tail]
<1>0. /\ GoodList(next, timer_list, waketime, now) /\ Listed = Path(next, timer_list)
      /\ timer_list \in Listed /\ timer_list # Sentinel
      /\ Deleted \in Listed => timer_list = Deleted
  BY TimerFacts DEF Listed
<1>1. CASE timer_list # Deleted
  <2>1. Rank(waketime, now)[timer_list] <= Rank(waketime, now)[timer_list]
    BY <1>0, GoodFacts
  <2>2. QED BY <2>1, <1>0, <1>1
<1>2. CASE timer_list = Deleted
  <2>1. timer_list # Periodic BY <1>2, SpecialNodes
  <2>2. GoodList(next, next[timer_list], waketime, now)
        /\ Path(next, next[timer_list]) = Listed \ {timer_list}
    BY <2>1, <1>0, TailList
  <2>3. next[timer_list] \in Listed \ {Sentinel}
    <3>1. next[timer_list] # Sentinel BY <2>2 DEF GoodList
    <3>2. QED BY <3>1, <1>0, GoodFacts
  <2>4. Rank(waketime, now)[timer_list] <= Rank(waketime, now)[next[timer_list]]
    BY <2>3, <1>0, GoodFacts
  <2>5. QED BY <2>2, <2>4, <1>2
<1>3. QED BY <1>1, <1>2

\* sched_add_timer in front of the list.
LEMMA AddFrontTimer ==
  ASSUME TimerInv, NEW t \in Timers, NEW w \in Clock, t \notin Listed,
         Diff(w, now) \in -MaxAhead .. MaxAhead,
         Before(w, waketime[timer_list]), ~Before(w, now),
         next' = LinkFront(t),
         waketime' = [waketime EXCEPT ![t] = w, ![Deleted] = w],
         timer_list' = Deleted, timer_kick,
         want' = [want EXCEPT ![t] = w],
         UNCHANGED <<last_insert, now, pc, shut, fault>>, pc = "task"
  PROVE  TimerInv'
<1> DEFINE tail == IF timer_list = Deleted THEN next[Deleted] ELSE timer_list
           r == Rank(waketime, now)
           d == Diff(w, now)
           ny == [next EXCEPT ![t] = tail]
           wy == [waketime EXCEPT ![t] = w]
<1>0. /\ GoodList(next, timer_list, waketime, now) /\ fault = FALSE
      /\ last_insert \in Listed \ {Sentinel, Deleted}
      /\ next \in Pointers /\ timer_list \in Node
      /\ waketime \in [Node -> Clock] /\ now \in Clock /\ Listed \subseteq Node
      /\ want \in [Timers -> Clock \cup {NULL}]
      /\ \A u \in Timers : want[u] = IF u \in Listed THEN waketime[u] ELSE NULL
  BY TimerFacts
<1>1. /\ GoodList(next, tail, waketime, now) /\ Path(next, tail) = Listed \ {Deleted}
      /\ r[timer_list] <= r[tail]
  BY BehindHold
<1>2. /\ r[timer_list] \in Int /\ r[timer_list] >= -MaxLate /\ r[timer_list] <= PeriodicTicks
      /\ r[timer_list] = Diff(waketime[timer_list], now) /\ waketime[timer_list] \in Clock
      /\ r[tail] \in Int
  BY <1>0, <1>1, GoodFacts, RankType
<1>3. d \in Int /\ d >= 0 /\ InWindow(d)
  <2>1. d \in Int /\ d >= -MaxAhead /\ d <= MaxAhead OBVIOUS
  <2>2. d >= 0 BY <2>1 DEF Before
  <2>3. QED BY <2>1, <2>2, TickFacts DEF InWindow
<1>4. d <= r[tail]
  <2>1. d - r[timer_list] >= -Half /\ d - r[timer_list] < Half BY <1>2, <1>3, TickFacts
  <2>2. d < r[timer_list] BY <2>1, <1>0, <1>2, OffsetOrder
  <2>3. QED BY <2>2, <1>1, <1>2, <1>3
<1>5. /\ t \in Node /\ t # Deleted /\ t # Sentinel /\ Deleted \in Node BY SpecialNodes
<1> HIDE DEF tail
<1>6. GoodList(ny, t, wy, now) /\ Path(ny, t) = {t} \cup (Listed \ {Deleted})
  <2>0. ny = [next EXCEPT ![t] = tail] /\ wy = [waketime EXCEPT ![t] = w] OBVIOUS
  <2> HIDE DEF ny, wy
  <2>1. /\ Deleted \notin Path(next, tail) /\ t \notin Path(next, tail)
        /\ t \in Timers \cup {Deleted} /\ w \in Clock
        /\ GoodList(next, tail, waketime, now)
        /\ InWindow(Diff(w, now)) /\ Diff(w, now) <= Rank(waketime, now)[tail]
    BY <1>1, <1>3, <1>4
  <2>2. GoodList(ny, t, wy, now) BY ONLY <2>0, <2>1, FrontList
  <2>3. Path(ny, t) = {t} \cup Path(next, tail)
    BY ONLY <2>0, <2>1, <1>5, FrontPath DEF GoodList
  <2>4. QED BY <2>2, <2>3, <1>1
<1>7. Rank(wy, now)[t] = d
  <2>1. wy \in [Node -> Clock] /\ wy[t] = w BY <1>0, <1>5
  <2>2. QED BY <2>1, <1>0, <1>5, RankType
<1>8. next' = [ny EXCEPT ![Deleted] = t] /\ waketime' = [wy EXCEPT ![Deleted] = w]
  BY <1>0, <1>5 DEF LinkFront, Pointers, tail
<1> HIDE DEF ny, wy
<1>9. d <= Rank(wy, now)[t] BY <1>3, <1>7
<1>10. Deleted \notin Path(ny, t) BY <1>5, <1>6
<1>11. /\ GoodList(next', Deleted, waketime', now)
       /\ Path(next', Deleted) = {Deleted} \cup Path(ny, t)
  <2>1. Deleted \in Timers \cup {Deleted} /\ w \in Clock OBVIOUS
  <2>2. GoodList(next', Deleted, waketime', now)
    BY ONLY <2>1, <1>3, <1>6, <1>8, <1>9, <1>10, FrontList
  <2>3. IsList(ny, t) BY <1>6 DEF GoodList
  <2>4. Path(next', Deleted) = {Deleted} \cup Path(ny, t)
    BY ONLY <2>3, <1>5, <1>8, <1>10, FrontPath
  <2>5. QED BY <2>2, <2>4
<1>12. Listed' = {Deleted, t} \cup Listed BY <1>6, <1>11 DEF Listed
<1>13. ListPart' BY <1>0, <1>11, <1>12 DEF ListPart
<1>14. OwnerPart'
  <2>1. ASSUME NEW u \in Timers
        PROVE  want'[u] = IF u \in Listed' THEN waketime'[u] ELSE NULL
    <3>1. u \in Node /\ u # Deleted BY SpecialNodes
    <3>2. CASE u = t BY <3>1, <3>2, <1>0, <1>12
    <3>3. CASE u # t BY <3>1, <3>3, <1>0, <1>12
    <3>4. QED BY <3>2, <3>3
  <2>2. want' = [u \in Timers |-> want'[u]] BY <1>0
  <2>3. QED BY <2>1, <2>2 DEF OwnerPart
<1>15. AlarmPart'
  <2>1. kick' = TRUE /\ alarm' = NULL BY DEF timer_kick
  <2>2. shut' \in BOOLEAN BY DEF TimerInv, AlarmPart
  <2>3. HeadDue' BY DEF HeadDue
  <2>4. QED BY <2>1, <2>2, <2>3 DEF AlarmPart
<1>16. QED BY <1>13, <1>14, <1>15 DEF TimerInv

\* What the alarm promises holds as long as the head keeps its rank.
LEMMA AlarmKept ==
  ASSUME TimerInv, UNCHANGED <<now, alarm, kick, pc, shut>>,
         Rank(waketime, now)'[timer_list'] = Rank(waketime, now)[timer_list],
         timer_list = Deleted => timer_list' = Deleted
  PROVE  AlarmPart'
<1>1. AlarmPart BY DEF TimerInv
<1>2. HeadDue => HeadDue' BY DEF HeadDue
<1>3. AlarmSet => AlarmSet' BY DEF AlarmSet
<1>4. QED BY <1>1, <1>2, <1>3 DEF AlarmPart

\* sched_add_timer, in front, further back, or too late.
LEMMA AddTimer ==
  ASSUME TimerInv, NEW t \in Timers, NEW d \in -MaxAhead .. MaxAhead,
         sched_add_timer(t, Plus(now, d))
  PROVE  TimerInv'
<1> DEFINE w == Plus(now, d)
           prev == insert_after(next, waketime, timer_list, w)
<1>0. /\ GoodList(next, timer_list, waketime, now) /\ fault = FALSE
      /\ last_insert \in Listed \ {Sentinel, Deleted}
      /\ timer_list \in Listed /\ timer_list \in Node
      /\ waketime \in [Node -> Clock] /\ now \in Clock
      /\ want \in [Timers -> Clock \cup {NULL}]
      /\ \A u \in Timers : want[u] = IF u \in Listed THEN waketime[u] ELSE NULL
      /\ \A u \in Timers : u \in Listed <=> want[u] # NULL
      /\ Listed = Path(next, timer_list)
  BY TimerFacts DEF Listed
<1>1. w \in Clock /\ Diff(w, now) \in -MaxAhead .. MaxAhead BY <1>0, AddTime
<1>2. want[t] = NULL /\ pc = "task" /\ t \notin Listed BY <1>0 DEF sched_add_timer
<1>3. t \in Node /\ t # timer_list BY <1>0, <1>2, SpecialNodes
<1>4. CASE Before(w, waketime[timer_list]) /\ Before(w, now)
  <2>1. Shutdown BY <1>4 DEF sched_add_timer
  <2>2. QED BY <2>1, ShutdownTimer
<1>5. CASE Before(w, waketime[timer_list]) /\ ~Before(w, now)
  <2>1. /\ next' = LinkFront(t)
        /\ waketime' = [waketime EXCEPT ![t] = w, ![Deleted] = w]
        /\ timer_list' = Deleted /\ timer_kick
        /\ want' = [want EXCEPT ![t] = w]
        /\ UNCHANGED <<last_insert, now, pc, shut, fault>>
    BY <1>5 DEF sched_add_timer
  <2> HIDE DEF w
  <2>2. QED BY <2>1, <1>1, <1>2, <1>5, AddFrontTimer
<1>6. CASE ~Before(w, waketime[timer_list])
  <2>1. /\ waketime' = [waketime EXCEPT ![t] = w]
        /\ want' = [want EXCEPT ![t] = w]
        /\ IF prev = NULL THEN fault' = TRUE /\ UNCHANGED next
                          ELSE next' = Link(next, prev, t) /\ UNCHANGED fault
        /\ UNCHANGED <<timer_list, last_insert, now, alarm, kick, pc, shut>>
    BY <1>6 DEF sched_add_timer
  <2> HIDE DEF w, prev
  <2>2. /\ prev # NULL
        /\ GoodList(Link(next, prev, t), timer_list, waketime', now)
        /\ Path(Link(next, prev, t), timer_list) = Listed \cup {t}
    <3>1. t \in Timers /\ prev = insert_after(next, waketime, timer_list, w) BY DEF prev
    <3>2. /\ prev # NULL /\ prev \in Listed /\ prev # Sentinel
          /\ GoodList(Link(next, prev, t), timer_list, waketime', now)
      BY ONLY <3>1, <2>1, <1>0, <1>1, <1>2, <1>6, AddList
    <3>3. IsList(next, timer_list) BY <1>0 DEF GoodList
    <3>4. Path(Link(next, prev, t), timer_list) = Listed \cup {t}
      BY ONLY <3>2, <3>3, <1>0, <1>2, <1>3, LinkPath
    <3>5. QED BY <3>2, <3>4
  <2>3. next' = Link(next, prev, t) /\ fault' = FALSE BY <2>1, <2>2, <1>0
  <2>4. Listed' = Listed \cup {t} BY <2>1, <2>2, <2>3 DEF Listed
  <2>5. ListPart' BY <2>1, <2>2, <2>3, <2>4, <1>0 DEF ListPart
  <2>6. OwnerPart'
    <3>1. ASSUME NEW u \in Timers
          PROVE  want'[u] = IF u \in Listed' THEN waketime'[u] ELSE NULL
      <4>1. u \in Node BY SpecialNodes
      <4>2. CASE u = t BY <4>1, <4>2, <2>1, <2>4, <1>0
      <4>3. CASE u # t BY <4>1, <4>3, <2>1, <2>4, <1>0
      <4>4. QED BY <4>2, <4>3
    <3>2. want' = [u \in Timers |-> want'[u]] BY <2>1, <1>0
    <3>3. QED BY <3>1, <3>2 DEF OwnerPart
  <2>7. Rank(waketime, now)'[timer_list'] = Rank(waketime, now)[timer_list]
    <3>1. waketime'[timer_list] = waketime[timer_list] /\ waketime' \in [Node -> Clock]
      BY <2>1, <1>0, <1>1, <1>3
    <3>2. QED BY <3>1, <2>1, <1>0 DEF Rank
  <2>8. AlarmPart' BY <2>1, <2>7, AlarmKept
  <2>9. QED BY <2>5, <2>6, <2>8 DEF TimerInv
<1>7. QED BY <1>4, <1>5, <1>6

\* A timer deleted: its owner wants nothing of it, and the others are as they were.
LEMMA OwnerDrop ==
  ASSUME TimerInv, NEW t \in Timers, want' = [want EXCEPT ![t] = NULL],
         \A u \in Timers : u \in Listed' <=> u \in Listed /\ u # t,
         \A u \in Timers : waketime'[u] = waketime[u]
  PROVE  OwnerPart'
<1>0. /\ want \in [Timers -> Clock \cup {NULL}]
      /\ \A u \in Timers : want[u] = IF u \in Listed THEN waketime[u] ELSE NULL
  BY TimerFacts
<1>1. ASSUME NEW u \in Timers
      PROVE  want'[u] = IF u \in Listed' THEN waketime'[u] ELSE NULL
  BY <1>0
<1>2. want' = [u \in Timers |-> want'[u]] BY <1>0
<1>3. QED BY <1>1, <1>2 DEF OwnerPart

\* The list without a timer that is not its head.
LEMMA UnlinkTimer ==
  ASSUME TimerInv, NEW del \in Timers, del # timer_list
  PROVE  /\ GoodList(Unlink(next, del), timer_list, waketime, now)
         /\ Path(Unlink(next, del), timer_list) = Listed \ {del}
<1> DEFINE prev == {p \in Path(next, timer_list) : next[p] = del}
<1>0. /\ GoodList(next, timer_list, waketime, now) /\ next \in Pointers
      /\ timer_list \in Node /\ Listed = Path(next, timer_list)
  BY TimerFacts DEF Listed
<1>1. CASE prev = {}
  <2>1. Unlink(next, del) = next BY <1>1 DEF Unlink
  <2>2. del \notin Listed BY <1>0, <1>1, PathBefore
  <2>3. QED BY <2>1, <2>2, <1>0
<1>2. CASE prev # {}
  <2> DEFINE p == CHOOSE q \in prev : TRUE
  <2>1. p \in prev BY <1>2
  <2>2. Unlink(next, del) = [next EXCEPT ![p] = next[del]] BY <1>2 DEF Unlink
  <2> HIDE DEF p
  <2>3. p \in Path(next, timer_list) /\ next[p] = del BY <2>1
  <2>4. next[p] \in Timers /\ Unlink(next, del) = [next EXCEPT ![p] = next[next[p]]]
    BY <2>2, <2>3
  <2>5. /\ GoodList([next EXCEPT ![p] = next[next[p]]], timer_list, waketime, now)
        /\ Path([next EXCEPT ![p] = next[next[p]]], timer_list) = Listed \ {next[p]}
    BY ONLY <2>3, <2>4, <1>0, RemoveList
  <2>6. QED BY <2>3, <2>4, <2>5
<1>3. QED BY <1>1, <1>2

\* sched_del_timer, of the head, of another timer, or of one not scheduled.
LEMMA DelTimer ==
  ASSUME TimerInv, NEW del \in Timers, sched_del_timer(del)
  PROVE  TimerInv'
<1> DEFINE r == Rank(waketime, now)
<1>0. /\ GoodList(next, timer_list, waketime, now) /\ fault = FALSE
      /\ last_insert \in Listed \ {Sentinel, Deleted}
      /\ next \in Pointers /\ timer_list \in Node /\ timer_list \in Listed
      /\ waketime \in [Node -> Clock] /\ now \in Clock /\ Listed \subseteq Node
      /\ Periodic \in Listed /\ Listed = Path(next, timer_list)
      /\ Deleted \in Listed => timer_list = Deleted
  BY TimerFacts DEF Listed
<1>1. /\ last_insert' = HintAfterDel(del) /\ want' = [want EXCEPT ![del] = NULL]
      /\ now' = now /\ alarm' = alarm /\ kick' = kick /\ pc' = pc /\ shut' = shut
      /\ fault' = fault
  BY DEF sched_del_timer
<1>2. del \in Node /\ del # Periodic /\ del # Sentinel /\ del # Deleted BY SpecialNodes
<1>3. last_insert' \in (Listed \ {del}) \ {Sentinel, Deleted}
  BY <1>0, <1>1, <1>2, SpecialNodes DEF HintAfterDel
<1>4. CASE timer_list = del
  <2>1. /\ waketime' = [waketime EXCEPT ![Deleted] = waketime[del]]
        /\ next' = [next EXCEPT ![Deleted] = next[del]]
        /\ timer_list' = Deleted
    BY <1>4 DEF sched_del_timer, DelHead
  <2>2. /\ GoodList(next, next[del], waketime, now)
        /\ Path(next, next[del]) = Listed \ {del}
    BY <1>0, <1>2, <1>4, TailList
  <2>3. next[del] \in Listed \ {Sentinel}
    <3>1. next[del] # Sentinel BY <2>2 DEF GoodList
    <3>2. QED BY <3>1, <1>0, <1>2, <1>4, GoodFacts
  <2>4. r[del] <= r[next[del]] BY <2>3, <1>0, <1>4, GoodFacts
  <2>5. waketime[del] \in Clock /\ Diff(waketime[del], now) = r[del] /\ InWindow(r[del])
    BY <1>0, <1>2, <1>4, RankType DEF GoodList
  <2>6. Deleted \notin Listed \ {del} BY <1>0, <1>2, <1>4
  <2>7. /\ GoodList(next', Deleted, waketime', now)
        /\ Path(next', Deleted) = {Deleted} \cup (Listed \ {del})
    <3>1. Deleted \in Timers \cup {Deleted} OBVIOUS
    <3>2. GoodList(next', Deleted, waketime', now)
      BY ONLY <3>1, <2>1, <2>2, <2>4, <2>5, <2>6, FrontList
    <3>3. IsList(next, next[del]) /\ Deleted \in Node BY <2>2, SpecialNodes DEF GoodList
    <3>4. Path(next', Deleted) = {Deleted} \cup Path(next, next[del])
      BY ONLY <3>3, <2>1, <2>2, <2>6, FrontPath
    <3>5. QED BY <3>2, <3>4, <2>2
  <2>8. Listed' = {Deleted} \cup (Listed \ {del}) BY <2>1, <2>7 DEF Listed
  <2>9. ListPart' BY <2>1, <2>7, <2>8, <1>0, <1>1, <1>3 DEF ListPart
  <2>10. OwnerPart'
    <3>1. \A u \in Timers : u \in Listed' <=> u \in Listed /\ u # del
      BY <2>8, SpecialNodes
    <3>2. \A u \in Timers : waketime'[u] = waketime[u] BY <2>1, <1>0, SpecialNodes
    <3>3. QED BY <3>1, <3>2, <1>1, OwnerDrop
  <2>11. Rank(waketime, now)'[timer_list'] = Rank(waketime, now)[timer_list]
    <3>1. waketime'[Deleted] = waketime[del] BY <2>1, <1>0, SpecialNodes
    <3>2. QED BY <3>1, <2>1, <1>0, <1>1, <1>4, SpecialNodes DEF Rank
  <2>12. AlarmPart' BY <2>1, <2>11, <1>1, AlarmKept
  <2>13. QED BY <2>9, <2>10, <2>12 DEF TimerInv
<1>5. CASE timer_list # del
  <2>1. next' = Unlink(next, del) /\ timer_list' = timer_list /\ waketime' = waketime
    BY <1>5 DEF sched_del_timer
  <2>2. /\ GoodList(next', timer_list, waketime, now)
        /\ Path(next', timer_list) = Listed \ {del}
    BY <2>1, <1>5, UnlinkTimer
  <2>3. Listed' = Listed \ {del} BY <2>1, <2>2 DEF Listed
  <2>4. ListPart' BY <2>1, <2>2, <2>3, <1>0, <1>1, <1>3 DEF ListPart
  <2>5. OwnerPart' BY <2>1, <2>3, <1>1, OwnerDrop
  <2>6. AlarmPart' BY <2>1, <1>1, AlarmKept
  <2>7. QED BY <2>4, <2>5, <2>6 DEF TimerInv
<1>6. QED BY <1>4, <1>5

\* A callback returned: SysTick looks at the list before it sets an alarm.
LEMMA ReturnTimer ==
  ASSUME TimerInv, Return
  PROVE  AlarmPart'
<1>1. AlarmPart BY DEF TimerInv
<1>2. QED BY <1>1 DEF AlarmPart, Return

\* SF_DONE: the head leaves the list, and the hint with it.
LEMMA DoneList ==
  ASSUME TimerInv, timer_list # Periodic, FinishDone(timer_list), now' = now
  PROVE  ListPart' /\ Listed' = Listed \ {timer_list} /\ waketime' = waketime
<1>0. /\ GoodList(next, timer_list, waketime, now) /\ fault = FALSE
      /\ last_insert \in Listed \ {Sentinel, Deleted}
      /\ Listed = Path(next, timer_list)
  BY TimerFacts DEF Listed
<1>1. /\ timer_list' = next[timer_list] /\ next' = next /\ waketime' = waketime
      /\ fault' = fault
      /\ last_insert' = IF last_insert = timer_list THEN next[timer_list] ELSE last_insert
  BY DEF FinishDone
<1>2. /\ GoodList(next, next[timer_list], waketime, now)
      /\ Path(next, next[timer_list]) = Listed \ {timer_list}
      /\ next[timer_list] # Deleted
  BY <1>0, TailList
<1>3. Listed' = Listed \ {timer_list} BY <1>1, <1>2 DEF Listed
<1>4. next[timer_list] # Sentinel /\ next[timer_list] \in Listed'
  <2>1. next[timer_list] # Sentinel BY <1>2 DEF GoodList
  <2>2. next[timer_list] \in Path(next, next[timer_list]) BY <1>2, GoodFacts
  <2>3. QED BY <2>1, <2>2, <1>2, <1>3
<1>5. last_insert' \in Listed' \ {Sentinel, Deleted} BY <1>0, <1>1, <1>2, <1>3, <1>4
<1>6. ListPart' BY <1>0, <1>1, <1>2, <1>5 DEF ListPart
<1>7. QED BY <1>1, <1>3, <1>6

\* SF_RESCHEDULE: the head stays on the list, at its new place.
LEMMA AgainTimer ==
  ASSUME TimerInv, timer_list # Deleted, NEW wk \in [Node -> Clock],
         \A n \in Listed \ {timer_list, Sentinel} : wk[n] = waketime[n],
         InWindow(Rank(wk, now)[timer_list]), Rank(wk, now)[Periodic] <= PeriodicTicks,
         wk[Sentinel] = Plus(wk[Periodic], Half),
         FinishReschedule(timer_list, wk), now' = now
  PROVE  ListPart' /\ Listed' = Listed /\ waketime' = wk
<1> DEFINE h == timer_list
           pos == IF Before(wk[h], wk[last_insert]) THEN next[h] ELSE last_insert
           prev == insert_after(next, wk, pos, wk[h])
<1>0. /\ GoodList(next, timer_list, waketime, now) /\ fault = FALSE
      /\ last_insert \in Listed \ {Sentinel, Deleted}
      /\ Listed = Path(next, timer_list) /\ h \in Listed /\ h # Sentinel
  BY TimerFacts DEF Listed
<1>1. /\ waketime' = wk
      /\ IF Before(wk[h], wk[next[h]])
         THEN UNCHANGED <<timer_list, last_insert, next, fault>>
         ELSE /\ timer_list' = next[h] /\ last_insert' = h
              /\ IF prev = NULL
                 THEN fault' = TRUE /\ UNCHANGED next
                 ELSE next' = Link(next, prev, h) /\ UNCHANGED fault
  BY DEF FinishReschedule, SearchFrom
<1>2. /\ last_insert \in Path(next, timer_list) \ {Sentinel}
      /\ \A n \in Path(next, timer_list) \ {timer_list, Sentinel} : wk[n] = waketime[n]
  BY <1>0
<1>3. /\ Before(wk[h], wk[next[h]]) => GoodList(next, h, wk, now)
      /\ ~Before(wk[h], wk[next[h]]) =>
           /\ prev # NULL
           /\ GoodList(Link(next, prev, h), next[h], wk, now)
           /\ Path(Link(next, prev, h), next[h]) = Path(next, h)
           /\ next[h] # Deleted /\ next[h] # Sentinel
  <2>1. /\ pos = IF Before(wk[h], wk[last_insert]) THEN next[h] ELSE last_insert
        /\ prev = insert_after(next, wk, pos, wk[h])
    OBVIOUS
  <2> HIDE DEF pos, prev
  <2>2. QED BY <2>1, <1>0, <1>2, AgainList
<1> HIDE DEF prev
<1>4. CASE Before(wk[h], wk[next[h]])
  <2>1. Listed' = Listed BY <1>1, <1>4 DEF Listed
  <2>2. ListPart' BY <2>1, <1>0, <1>1, <1>3, <1>4 DEF ListPart
  <2>3. QED BY <2>1, <2>2, <1>1
<1>5. CASE ~Before(wk[h], wk[next[h]])
  <2>1. /\ timer_list' = next[h] /\ last_insert' = h /\ next' = Link(next, prev, h)
        /\ fault' = fault /\ waketime' = wk
    BY <1>1, <1>3, <1>5
  <2>2. Listed' = Listed BY <2>1, <1>0, <1>3, <1>5 DEF Listed
  <2>3. ListPart' BY <2>1, <2>2, <1>0, <1>3, <1>5 DEF ListPart
  <2>4. QED BY <2>1, <2>2, <2>3
<1>6. QED BY <1>4, <1>5

\* SF_DONE from the callback of a driver's timer.
LEMMA UserDoneTimer ==
  ASSUME TimerInv, NEW t \in Timers, UserDone(t)
  PROVE  TimerInv'
<1>1. timer_list = t /\ Return /\ FinishDone(timer_list) /\ want' = [want EXCEPT ![t] = NULL]
  BY DEF UserDone
<1>2. now' = now /\ t # Periodic BY <1>1, SpecialNodes DEF Return
<1>3. ListPart' /\ Listed' = Listed \ {t} /\ waketime' = waketime BY <1>1, <1>2, DoneList
<1>4. OwnerPart' BY <1>1, <1>3, OwnerDrop
<1>5. AlarmPart' BY <1>1, ReturnTimer
<1>6. QED BY <1>3, <1>4, <1>5 DEF TimerInv

\* deleted_event: the placeholder is consumed.
LEMMA DeletedTimer ==
  ASSUME TimerInv, DeletedEvent
  PROVE  TimerInv'
<1>1. timer_list = Deleted /\ Return /\ FinishDone(timer_list) /\ want' = want
  BY DEF DeletedEvent
<1>2. now' = now /\ Deleted # Periodic BY <1>1, SpecialNodes DEF Return
<1>3. ListPart' /\ Listed' = Listed \ {Deleted} /\ waketime' = waketime
  BY <1>1, <1>2, DoneList
<1>4. OwnerPart'
  <2>1. \A t \in Timers : t \in Listed' <=> t \in Listed BY <1>3, SpecialNodes
  <2>2. OwnerPart BY DEF TimerInv
  <2>3. QED BY <2>1, <2>2, <1>1, <1>3 DEF OwnerPart
<1>5. AlarmPart' BY <1>1, ReturnTimer
<1>6. QED BY <1>3, <1>4, <1>5 DEF TimerInv

\* The offset of the head when its callback runs, and after it adds s ticks.
LEMMA AgainTime ==
  ASSUME TimerInv, pc = "run", timer_list # Deleted,
         NEW s \in Nat, s <= MaxAhead \/ s <= PeriodicTicks
  PROVE  /\ Plus(waketime[timer_list], s) \in Clock
         /\ InWindow(Diff(Plus(waketime[timer_list], s), now))
         /\ s <= PeriodicTicks =>
              Diff(Plus(waketime[timer_list], s), now) <= PeriodicTicks
<1> DEFINE r == Rank(waketime, now)[timer_list]
<1>0. /\ GoodList(next, timer_list, waketime, now) /\ timer_list \in Node
      /\ waketime \in [Node -> Clock] /\ now \in Clock /\ waketime[timer_list] \in Clock
  BY TimerFacts
<1>1. r \in Int /\ r >= -MaxLate /\ r = Diff(waketime[timer_list], now)
  BY <1>0, GoodFacts, RankType
<1>2. r <= 0 BY DEF TimerInv, AlarmPart, HeadDue
<1>3. s \in -Half .. Half /\ r + s >= -Half /\ r + s < Half BY <1>1, <1>2, TickFacts
<1>4. /\ Plus(waketime[timer_list], s) \in Clock
      /\ Diff(Plus(waketime[timer_list], s), now) = r + s
  BY <1>0, <1>1, <1>3, OffsetPlus
<1>5. InWindow(r + s) /\ (s <= PeriodicTicks => r + s <= PeriodicTicks)
  BY <1>1, <1>2, TickFacts DEF InWindow
<1>6. QED BY <1>4, <1>5

\* SF_RESCHEDULE from the callback of a driver's timer.
LEMMA UserAgainTimer ==
  ASSUME TimerInv, NEW t \in Timers, NEW s \in 0 .. MaxAhead, UserAgain(t, s)
  PROVE  TimerInv'
<1> DEFINE w == Plus(waketime[t], s)
           wk == [waketime EXCEPT ![t] = w]
<1>0. /\ GoodList(next, timer_list, waketime, now) /\ Listed \subseteq Node
      /\ waketime \in [Node -> Clock] /\ now \in Clock /\ Listed = Path(next, timer_list)
      /\ want \in [Timers -> Clock \cup {NULL}] /\ timer_list \in Listed
      /\ \A u \in Timers : want[u] = IF u \in Listed THEN waketime[u] ELSE NULL
  BY TimerFacts DEF Listed
<1>1. /\ timer_list = t /\ Return /\ FinishReschedule(timer_list, wk)
      /\ want' = [want EXCEPT ![t] = w]
  BY DEF UserAgain
<1>2. /\ now' = now /\ pc = "run" /\ t \in Node /\ t # Deleted /\ t # Periodic /\ t # Sentinel
      /\ s \in Nat /\ s <= MaxAhead /\ Periodic \in Node /\ Sentinel \in Node
  BY <1>1, SpecialNodes, TickFacts DEF Return
<1>3. w \in Clock /\ InWindow(Diff(w, now)) BY <1>1, <1>2, AgainTime
<1>4. /\ wk \in [Node -> Clock] /\ wk[t] = w /\ \A n \in Node \ {t} : wk[n] = waketime[n]
  BY <1>0, <1>2, <1>3
<1> HIDE DEF wk, w
<1>5. InWindow(Rank(wk, now)[timer_list])
  <2>1. Rank(wk, now)[t] = Diff(w, now) BY ONLY <1>0, <1>2, <1>4, RankType
  <2>2. QED BY <2>1, <1>1, <1>3
<1>6. Rank(wk, now)[Periodic] <= PeriodicTicks
  <2>1. Rank(wk, now)[Periodic] = Rank(waketime, now)[Periodic]
    <3>1. /\ Rank(wk, now)[Periodic] = Diff(wk[Periodic], now)
          /\ Rank(waketime, now)[Periodic] = Diff(waketime[Periodic], now)
      BY ONLY <1>0, <1>2, <1>4, RankType
    <3>2. QED BY <3>1, <1>2, <1>4
  <2>2. QED BY <2>1, <1>0 DEF GoodList
<1>7. wk[Sentinel] = Plus(wk[Periodic], Half) BY <1>0, <1>2, <1>4 DEF GoodList
<1>8. \A n \in Listed \ {timer_list, Sentinel} : wk[n] = waketime[n] BY <1>0, <1>1, <1>4
<1>9. ListPart' /\ Listed' = Listed /\ waketime' = wk
  BY <1>1, <1>2, <1>4, <1>5, <1>6, <1>7, <1>8, AgainTimer
<1>10. OwnerPart'
  <2>1. ASSUME NEW u \in Timers
        PROVE  want'[u] = IF u \in Listed' THEN waketime'[u] ELSE NULL
    <3>1. u \in Node BY SpecialNodes
    <3>2. CASE u = t BY <3>2, <1>0, <1>1, <1>4, <1>9
    <3>3. CASE u # t BY <3>1, <3>3, <1>0, <1>1, <1>4, <1>9
    <3>4. QED BY <3>2, <3>3
  <2>2. want' = [u \in Timers |-> want'[u]] BY <1>0, <1>1
  <2>3. QED BY <2>1, <2>2 DEF OwnerPart
<1>11. AlarmPart' BY <1>1, ReturnTimer
<1>12. QED BY <1>9, <1>10, <1>11 DEF TimerInv

\* periodic_event moves the period and the sentinel together.
LEMMA PeriodicTimer ==
  ASSUME TimerInv, PeriodicEvent
  PROVE  TimerInv'
<1> DEFINE w == Plus(waketime[Periodic], PeriodicTicks)
           wk == PeriodicWake
<1>0. /\ Listed \subseteq Node /\ waketime \in [Node -> Clock] /\ now \in Clock
  BY TimerFacts
<1>1. timer_list = Periodic /\ Return /\ FinishReschedule(timer_list, wk) /\ want' = want
  BY DEF PeriodicEvent
<1>2. /\ now' = now /\ pc = "run" /\ Periodic # Deleted /\ Periodic # Sentinel
      /\ Periodic \in Node /\ Sentinel \in Node /\ PeriodicTicks \in Nat
      /\ Periodic \notin Timers /\ Sentinel \notin Timers /\ Timers \subseteq Node
      /\ PeriodicTicks <= PeriodicTicks
  BY <1>1, SpecialNodes, TickFacts DEF Return
<1>3. w \in Clock /\ InWindow(Diff(w, now)) /\ Diff(w, now) <= PeriodicTicks
  BY <1>1, <1>2, AgainTime
<1>4. Plus(w, Half) \in Clock
  <2>1. Half \in -Half .. Half BY HalfRange
  <2>2. QED BY <2>1, <1>3, PlusCases
<1>5. wk = [waketime EXCEPT ![Periodic] = w, ![Sentinel] = Plus(w, Half)]
  BY DEF PeriodicWake
<1> HIDE DEF wk, w
<1>6. /\ wk \in [Node -> Clock] /\ wk[Periodic] = w /\ wk[Sentinel] = Plus(w, Half)
      /\ \A n \in Node \ {Periodic, Sentinel} : wk[n] = waketime[n]
  BY <1>0, <1>2, <1>3, <1>4, <1>5
<1>7. Rank(wk, now)[Periodic] = Diff(w, now)
  <2>1. Rank(wk, now)[Periodic] = Diff(wk[Periodic], now) BY ONLY <1>0, <1>2, <1>6, RankType
  <2>2. QED BY <2>1, <1>6
<1>8. /\ InWindow(Rank(wk, now)[timer_list]) /\ Rank(wk, now)[Periodic] <= PeriodicTicks
      /\ wk[Sentinel] = Plus(wk[Periodic], Half)
      /\ \A n \in Listed \ {timer_list, Sentinel} : wk[n] = waketime[n]
  BY <1>0, <1>1, <1>3, <1>6, <1>7
<1>9. ListPart' /\ Listed' = Listed /\ waketime' = wk
  BY <1>1, <1>2, <1>6, <1>8, AgainTimer
<1>10. OwnerPart'
  <2>1. \A t \in Timers : waketime'[t] = waketime[t] BY <1>2, <1>6, <1>9
  <2>2. OwnerPart BY DEF TimerInv
  <2>3. QED BY <2>1, <2>2, <1>1, <1>9 DEF OwnerPart
<1>11. AlarmPart' BY <1>1, ReturnTimer
<1>12. QED BY <1>9, <1>10, <1>11 DEF TimerInv

\* Every step keeps the invariant.
LEMMA NextTimer == TimerInv /\ [Next]_vars => TimerInv'
<1> SUFFICES ASSUME TimerInv, [Next]_vars PROVE TimerInv'
  OBVIOUS
<1>1. CASE UNCHANGED vars
  <2>1. ListPart' BY <1>1 DEF TimerInv, ListPart, Listed, vars
  <2>2. OwnerPart' BY <1>1 DEF TimerInv, OwnerPart, Listed, vars
  <2>3. AlarmPart' BY <1>1 DEF TimerInv, AlarmPart, AlarmSet, HeadDue, vars
  <2>4. QED BY <2>1, <2>2, <2>3 DEF TimerInv
<1>2. ASSUME NEW t \in Timers, NEW d \in -MaxAhead .. MaxAhead, sched_add_timer(t, Plus(now, d))
      PROVE  TimerInv'
  BY <1>2, AddTimer
<1>3. ASSUME NEW t \in Timers, sched_del_timer(t) PROVE TimerInv'
  BY <1>3, DelTimer
<1>4. CASE sched_timer_dispatch BY <1>4, DispatchTimer
<1>5. ASSUME NEW t \in Timers, UserDone(t) PROVE TimerInv'
  BY <1>5, UserDoneTimer
<1>6. ASSUME NEW t \in Timers, NEW s \in 0 .. MaxAhead, UserAgain(t, s) PROVE TimerInv'
  BY <1>6, UserAgainTimer
<1>7. CASE PeriodicEvent BY <1>7, PeriodicTimer
<1>8. CASE DeletedEvent BY <1>8, DeletedTimer
<1>9. CASE SetAlarm BY <1>9, SetAlarmTimer
<1>10. CASE PastShutdown BY <1>10, ShutdownTimer DEF PastShutdown
<1>11. CASE CallShutdown BY <1>11, ShutdownTimer DEF CallShutdown
<1>12. CASE ClearShutdown BY <1>12, ClearTimer
<1>13. CASE Tick BY <1>13, TickTimer
<1>14. QED
  BY <1>1, <1>2, <1>3, <1>4, <1>5, <1>6, <1>7, <1>8, <1>9, <1>10, <1>11, <1>12, <1>13
  DEF Next

-----------------------------------------------------------------------------
(* The theorems.                                                           *)

\* So it always holds.
LEMMA TimerAlways == Spec => []TimerInv
<1>1. QED BY InitTimer, NextTimer, PTL DEF Spec

\* The invariant implies that the list is one, whole and in order.
LEMMA TimerSound == TimerInv => ListSound
<1> SUFFICES ASSUME TimerInv PROVE ListSound
  OBVIOUS
<1>0. /\ GoodList(next, timer_list, waketime, now) /\ fault = FALSE
      /\ last_insert \in Listed \ {Sentinel, Deleted}
      /\ next \in Pointers /\ timer_list \in Node
      /\ timer_list # Sentinel /\ Listed \subseteq Node
      /\ waketime \in [Node -> Clock] /\ now \in Clock
      /\ Periodic \in Listed /\ Sentinel \in Listed
      /\ Deleted \in Listed => timer_list = Deleted
      /\ want \in [Timers -> Clock \cup {NULL}]
  BY TimerFacts
<1>1. TypeOK
  <2>1. AlarmPart BY DEF TimerInv
  <2>2. QED BY <2>1, <1>0 DEF AlarmPart, TypeOK, Pointers
<1>2. ListShape
  <2>1. next[Sentinel] = NULL BY <1>0, GoodFacts
  <2>2. QED BY <2>1, <1>0 DEF ListShape, Listed
<1>3. Sorted BY <1>0, GoodSorted DEF Sorted
<1>4. QED BY <1>1, <1>2, <1>3 DEF ListSound

\* sched_add_timer, sched_del_timer, sched_timer_dispatch and sched_timer_reset keep
\* the list whole and in wake time order across the wrap of the clock, with the hint
\* on it, for any number of timers: ListSound is an invariant.
THEOREM TimerListSound == Spec => []ListSound
<1>1. QED BY TimerAlways, TimerSound, PTL

\* The invariant implies that no timer is run early and no wake up lost.
LEMMA TimerExact == TimerInv => AlarmExact
<1> SUFFICES ASSUME TimerInv PROVE AlarmExact
  OBVIOUS
<1> DEFINE r == Rank(waketime, now)[timer_list]
<1>0. /\ GoodList(next, timer_list, waketime, now) /\ timer_list \in Node
      /\ waketime \in [Node -> Clock] /\ now \in Clock /\ waketime[timer_list] \in Clock
  BY TimerFacts
<1>1. r \in Int /\ r >= -MaxLate /\ r = Diff(waketime[timer_list], now) /\ r > -Half
  <2>1. r \in Int /\ r >= -MaxLate BY <1>0, GoodFacts
  <2>2. QED BY <2>1, <1>0, RankType, TickFacts
<1>2. ASSUME SysTickDue PROVE timer_list = Deleted \/ ~Before(now, waketime[timer_list])
  <2>1. timer_list = Deleted \/ r <= 0 BY <1>2, DispatchDue DEF HeadDue
  <2>2. Diff(now, waketime[timer_list]) = -r BY <1>0, <1>1, OffsetBack
  <2>3. r <= 0 => ~Before(now, waketime[timer_list]) BY <2>2, <1>1 DEF Before
  <2>4. QED BY <2>1, <2>3
<1>3. ASSUME pc = "task", ~kick
      PROVE  /\ alarm # NULL
             /\ ~Before(waketime[timer_list], alarm) \/ Diff(alarm, now) <= DeferTicks
             /\ Diff(alarm, now) <= PeriodicTicks
  <2>1. AlarmSet BY <1>3 DEF TimerInv, AlarmPart
  <2>2. alarm \in Clock /\ alarm # NULL BY <2>1, NodeAssumption DEF AlarmSet
  <2>3. ASSUME r = Diff(alarm, now) PROVE ~Before(waketime[timer_list], alarm)
    <3>1. r - Diff(alarm, now) >= -Half /\ r - Diff(alarm, now) < Half
      BY <2>3, <1>1, HalfRange
    <3>2. Before(waketime[timer_list], alarm) <=> r < Diff(alarm, now)
      BY <3>1, <2>2, <1>0, <1>1, OffsetOrder
    <3>3. QED BY <3>2, <2>3, <1>1
  <2>4. QED BY <2>1, <2>2, <2>3 DEF AlarmSet
<1>4. QED BY <1>2, <1>3 DEF AlarmExact

\* SysTick never runs a timer early and no wake up is lost, whatever the order of
\* tasks, callbacks and interrupts: AlarmExact is an invariant.
THEOREM TimerAlarmExact == Spec => []AlarmExact
<1>1. QED BY TimerAlways, TimerExact, PTL

-----------------------------------------------------------------------------
(* The list implements TimerSet.                                           *)

\* The clock of TimerSet is the clock of the list.
LEMMA SameClock ==
  /\ Abstract!Clock = Clock
  /\ \A a, b : Abstract!Before(a, b) <=> Before(a, b)
  /\ \A a, b : Abstract!Plus(a, b) = Plus(a, b)
BY DEF Abstract!Clock, Clock, Abstract!Before, Before, Abstract!Diff, Diff,
       Abstract!Half, Half, Abstract!Plus, Plus

\* The timer whose callback runs is the earliest its owner asked for, and due.
LEMMA HeadEarliest ==
  ASSUME TimerInv, pc = "run", NEW t \in Timers, timer_list = t
  PROVE  Abstract!Earliest(t) /\ ~Before(now, want[t])
<1> DEFINE r == Rank(waketime, now)
<1>0. /\ GoodList(next, timer_list, waketime, now) /\ Listed = Path(next, timer_list)
      /\ waketime \in [Node -> Clock] /\ now \in Clock /\ t \in Listed /\ t \in Node
      /\ \A u \in Timers : want[u] = IF u \in Listed THEN waketime[u] ELSE NULL
      /\ \A u \in Timers : u \in Listed <=> want[u] # NULL
      /\ Timers \subseteq Node /\ Sentinel \notin Timers /\ t # Deleted /\ waketime[t] \in Clock
  BY TimerFacts, SpecialNodes DEF Listed
<1>1. /\ r[t] \in Int /\ r[t] >= -MaxLate /\ r[t] > -Half /\ r[t] = Diff(waketime[t], now)
      /\ InWindow(r[t])
  <2>1. r[t] \in Int /\ r[t] >= -MaxLate BY <1>0, GoodFacts
  <2>2. InWindow(r[t]) BY <1>0 DEF GoodList
  <2>3. QED BY <2>1, <2>2, <1>0, RankType, TickFacts
<1>2. r[t] <= 0 BY <1>0 DEF TimerInv, AlarmPart, HeadDue
<1>3. ~Before(now, want[t])
  <2>1. Diff(now, waketime[t]) = -r[t] BY <1>0, <1>1, OffsetBack
  <2>2. ~Before(now, waketime[t]) BY <2>1, <1>1, <1>2 DEF Before
  <2>3. QED BY <2>2, <1>0
<1>4. ASSUME NEW u \in Timers, want[u] # NULL PROVE ~Before(want[u], want[t])
  <2>1. u \in Listed \ {Sentinel} /\ u \in Node /\ want[u] = waketime[u] /\ want[t] = waketime[t]
    BY <1>0, <1>4
  <2>2. r[t] <= r[u] /\ InWindow(r[u]) BY <2>1, <1>0, GoodFacts DEF GoodList
  <2>3. Before(waketime[u], waketime[t]) <=> r[u] < r[t]
    BY <2>1, <2>2, <1>0, <1>1, RankOrder
  <2>4. r[u] \in Int BY <2>1, <1>0, RankType
  <2>5. QED BY <2>1, <2>2, <2>3, <2>4, <1>1
<1>5. want[t] # NULL BY <1>0
<1>6. QED BY <1>3, <1>4, <1>5, SameClock DEF Abstract!Earliest

\* At the start no timer is armed.
LEMMA TimerSetInit == Init => Abstract!Init
BY SameClock, HalfRange DEF Init, Abstract!Init

\* Every step of the list is a step of TimerSet, or changes nothing it shows.
LEMMA TimerSetNext ==
  TimerInv /\ TimerInv' /\ [Next]_vars => [Abstract!Next]_<<want, now>>
<1> SUFFICES ASSUME TimerInv, TimerInv', [Next]_vars
             PROVE  Abstract!Next \/ (want' = want /\ now' = now)
  OBVIOUS
<1>0. /\ want \in [Timers -> Clock \cup {NULL}] /\ now \in Clock
  BY TimerFacts
<1>a. \A t \in Timers : Abstract!Arm(t) \/ Abstract!Disarm(t) \/ Abstract!Run(t) => Abstract!Next
  BY DEF Abstract!Next
<1>b. ASSUME Shutdown PROVE Abstract!Next
  <2>1. Abstract!DisarmAll BY <1>b DEF Shutdown, Abstract!DisarmAll
  <2>2. QED BY <2>1 DEF Abstract!Next
<1>c. ASSUME NEW t \in Timers, NEW w \in Clock \cup {NULL}, timer_list = t, Return,
             want' = [want EXCEPT ![t] = w]
      PROVE  Abstract!Next
  <2>1. pc = "run" /\ now' = now BY <1>c DEF Return
  <2>2. Abstract!Earliest(t) /\ ~Before(now, want[t]) BY <2>1, <1>c, HeadEarliest
  <2>3. /\ want' \in [Timers -> Clock \cup {NULL}]
        /\ \A u \in Timers \ {t} : want'[u] = want[u]
    BY <1>0, <1>c
  <2>4. Abstract!Run(t) BY <2>1, <2>2, <2>3, SameClock DEF Abstract!Run
  <2>5. QED BY <2>4, <1>a
<1>1. CASE UNCHANGED vars BY <1>1 DEF vars
<1>2. ASSUME NEW t \in Timers, NEW d \in -MaxAhead .. MaxAhead, sched_add_timer(t, Plus(now, d))
      PROVE  Abstract!Next
  <2> DEFINE w == Plus(now, d)
  <2>1. w \in Clock BY <1>0, AddTime
  <2>2. want[t] = NULL /\ (Shutdown \/ (want' = [want EXCEPT ![t] = w] /\ now' = now))
    BY <1>2 DEF sched_add_timer
  <2> HIDE DEF w
  <2>3. CASE Shutdown BY <2>3, <1>b
  <2>4. CASE want' = [want EXCEPT ![t] = w] /\ now' = now
    <3>1. want'[t] = w BY <2>4, <1>0
    <3>2. want'[t] \in Abstract!Clock BY <2>1, <3>1, SameClock
    <3>3. want' = [want EXCEPT ![t] = want'[t]] BY <2>4, <3>1
    <3>4. Abstract!Arm(t) BY <2>2, <2>4, <3>2, <3>3 DEF Abstract!Arm
    <3>5. QED BY <3>4, <1>a
  <2>5. QED BY <2>2, <2>3, <2>4
<1>3. ASSUME NEW t \in Timers, sched_del_timer(t) PROVE Abstract!Next
  <2>1. Abstract!Disarm(t) BY <1>3 DEF sched_del_timer, Abstract!Disarm
  <2>2. QED BY <2>1, <1>a
<1>4. CASE sched_timer_dispatch BY <1>4 DEF sched_timer_dispatch
<1>5. ASSUME NEW t \in Timers, UserDone(t) PROVE Abstract!Next
  BY <1>5, <1>c DEF UserDone
<1>6. ASSUME NEW t \in Timers, NEW s \in 0 .. MaxAhead, UserAgain(t, s) PROVE Abstract!Next
  <2> DEFINE w == Plus(waketime[t], s)
  <2>1. timer_list = t /\ Return /\ want' = [want EXCEPT ![t] = w] BY <1>6 DEF UserAgain
  <2>2. w \in Clock
    <3>1. pc = "run" /\ timer_list # Deleted /\ s \in Nat /\ s <= MaxAhead
      BY <2>1, SpecialNodes, TickFacts DEF Return
    <3>2. QED BY <3>1, <2>1, AgainTime
  <2> HIDE DEF w
  <2>3. QED BY <2>1, <2>2, <1>c
<1>7. CASE PeriodicEvent BY <1>7 DEF PeriodicEvent, Return
<1>8. CASE DeletedEvent BY <1>8 DEF DeletedEvent, Return
<1>9. CASE SetAlarm BY <1>9 DEF SetAlarm
<1>10. CASE PastShutdown BY <1>10, <1>b DEF PastShutdown
<1>11. CASE CallShutdown BY <1>11, <1>b DEF CallShutdown
<1>12. CASE ClearShutdown BY <1>12 DEF ClearShutdown
<1>13. CASE Tick
  <2>1. Abstract!Tick BY <1>13, SameClock DEF Tick, Abstract!Tick
  <2>2. QED BY <2>1 DEF Abstract!Next
<1>14. QED
  BY <1>1, <1>2, <1>3, <1>4, <1>5, <1>6, <1>7, <1>8, <1>9, <1>10, <1>11, <1>12, <1>13
  DEF Next

\* Driver timers run in wake time order, never early and once per arming, and the
\* list holds exactly the timers their owners scheduled: the list, the hint, the
\* placeholder and the interrupt implement TimerSet.
THEOREM TimerListImplements == Spec => ImplementsTimerSet
<1> DEFINE Owned == \A t \in Timers : want[t] = IF OnList(t) THEN waketime[t] ELSE NULL
<1>1. TimerInv => Owned BY TimerFacts DEF OnList, Listed
<1>2. Spec => []Owned BY <1>1, TimerAlways, PTL
<1>3. Spec => Abstract!Spec
  BY TimerAlways, TimerSetInit, TimerSetNext, PTL DEF Spec, Abstract!Spec
<1>4. QED BY <1>2, <1>3, PTL DEF ImplementsTimerSet
=============================================================================
