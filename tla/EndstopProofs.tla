--------------------------- MODULE EndstopProofs ---------------------------
(***************************************************************************)
(* Proofs about module Endstop for any number of endstops, trsyncs and     *)
(* reasons.  The module is only used as a part of others, so that what     *)
(* its constants are is a hypothesis here.                                 *)
(***************************************************************************)
EXTENDS Endstop, TLAPS

\* sample_count is a byte of the message, and NULL is no trsync.
ConstantsOK == MaxSamples \in 1 .. 255 /\ NoTs \notin Trsyncs

\* What is known of a running endstop: ArmedIsReady, SamplesInARow, the trsync and the
\* reason it will trigger with, and that the count is full between two series of
\* samples, which endstop_event relies on when it does not load it.
EndstopInv(e) ==
  es[e].time =>
    /\ es[e].ts \in Trsyncs /\ es[e].trigger_reason \in Reasons
    /\ es[e].trigger_count \in 1 .. es[e].sample_count
    /\ run[e] + es[e].trigger_count = es[e].sample_count
    /\ ~es[e].oversample => es[e].trigger_count = es[e].sample_count

\* The inductive invariant.
Inv == TypeOK /\ \A e \in Endstops : EndstopInv(e)

\* The configured endstops are off.
LEMMA InitInv ==
  ASSUME ConstantsOK, Init
  PROVE  Inv
<1>1. ConfigEndstop \in EndstopRecord /\ ~ConfigEndstop.time
  BY DEF ConfigEndstop, EndstopRecord, ConstantsOK
<1>2. \A e \in Endstops : es[e] = ConfigEndstop
  BY DEF Init
<1>3. TypeOK
  <2>1. es \in [Endstops -> EndstopRecord]
    BY <1>1 DEF Init
  <2>2. run \in [Endstops -> 0 .. MaxSamples]
    BY DEF Init, ConstantsOK
  <2> QED BY <2>1, <2>2 DEF Init, TypeOK
<1> QED BY <1>1, <1>2, <1>3 DEF Inv, EndstopInv

\* A step that changes the struct of one endstop, and perhaps its run of samples.
LEMMA StructChanged ==
  ASSUME Inv, NEW e \in Endstops, NEW r \in EndstopRecord, NEW k \in 0 .. MaxSamples,
         es' = [es EXCEPT ![e] = r], run' = [run EXCEPT ![e] = k],
         eddy' \in BOOLEAN, port' = port, active' \in BOOLEAN, shut' \in BOOLEAN,
         r.time => /\ r.ts \in Trsyncs /\ r.trigger_reason \in Reasons
                   /\ r.trigger_count \in 1 .. r.sample_count
                   /\ k + r.trigger_count = r.sample_count
                   /\ ~r.oversample => r.trigger_count = r.sample_count
  PROVE  Inv'
<1>1. /\ es \in [Endstops -> EndstopRecord] /\ run \in [Endstops -> 0 .. MaxSamples]
  BY DEF Inv, TypeOK
<1>2. es'[e] = r /\ run'[e] = k
  BY <1>1
<1>3. \A q \in Endstops \ {e} : es'[q] = es[q] /\ run'[q] = run[q]
  BY <1>1
<1>4. TypeOK'
  BY <1>1 DEF Inv, TypeOK
<1>5. \A q \in Endstops : EndstopInv(q)'
  <2>1. EndstopInv(e)'
    BY <1>2 DEF EndstopInv
  <2>2. \A q \in Endstops \ {e} : EndstopInv(q)'
    BY <1>3 DEF EndstopInv, Inv
  <2> QED BY <2>1, <2>2
<1> QED BY <1>4, <1>5 DEF Inv

\* A step of the rest of the firmware: the detector may move the level of the virtual
\* pin and a shutdown may be declared, the endstops are as they were.
LEMMA RestChanged ==
  ASSUME Inv, UNCHANGED <<es, active, run>>, eddy' \in BOOLEAN, shut' \in BOOLEAN,
         port' \in [Endstops \ Probes -> BOOLEAN]
  PROVE  Inv'
<1>1. TypeOK'
  BY DEF Inv, TypeOK
<1>2. \A e \in Endstops : EndstopInv(e)'
  BY DEF Inv, EndstopInv
<1> QED BY <1>1, <1>2 DEF Inv

\* The timer list is emptied under structs that are as they should be.
LEMMA TimersGone ==
  ASSUME NEW F \in [Endstops -> EndstopRecord], Inv,
         Shutdown(F), run' \in [Endstops -> 0 .. MaxSamples],
         eddy' \in BOOLEAN, port' = port, active' \in BOOLEAN
  PROVE  Inv'
<1>1. \A e \in Endstops : es'[e] = [F[e] EXCEPT !.time = FALSE]
  BY DEF Shutdown
<1>2. \A e \in Endstops : es'[e] \in EndstopRecord /\ ~es'[e].time
  <2> SUFFICES ASSUME NEW e \in Endstops
               PROVE  es'[e] \in EndstopRecord /\ ~es'[e].time
    OBVIOUS
  <2>1. F[e] \in EndstopRecord /\ es'[e] = [F[e] EXCEPT !.time = FALSE]
    BY <1>1
  <2> QED BY <2>1 DEF EndstopRecord
<1>3. es' \in [Endstops -> EndstopRecord]
  BY <1>2 DEF Shutdown
<1>4. TypeOK'
  BY <1>3 DEF Inv, TypeOK, Shutdown
<1> QED BY <1>2, <1>4 DEF Inv, EndstopInv

-----------------------------------------------------------------------------
\* Every action keeps the invariant.

\* endstop_home with sample_count = 0, and endstop_recover_state.
LEMMA OffInv ==
  ASSUME Inv, NEW e \in Endstops, HomeOff(e) \/ command_endstop_recover_state(e),
         ConstantsOK
  PROVE  Inv'
<1> DEFINE off == [es[e] EXCEPT !.time = FALSE, !.sample_count = 0, !.ts = NoTs,
                                !.homing = FALSE, !.pin_high = FALSE]
           rec == Recovered(es[e])
<1>1. es[e] \in EndstopRecord /\ run[e] \in 0 .. MaxSamples /\ run' = [run EXCEPT ![e] = run[e]]
  BY DEF Inv, TypeOK, HomeOff, command_endstop_recover_state
<1>2. off \in EndstopRecord /\ ~off.time /\ rec \in EndstopRecord /\ ~rec.time
  <2>1. /\ 0 \in 0 .. MaxSamples /\ MaxSamples \in Int
        /\ \A n \in 0 .. MaxSamples : n \in 0 .. 255
    BY DEF ConstantsOK
  <2>2. off \in EndstopRecord
    BY <1>1, <2>1, ZenonT(60) DEF EndstopRecord
  <2>3. es[e].sample_count \in 0 .. 255
    BY <1>1, <2>1 DEF EndstopRecord
  <2>4. rec \in EndstopRecord
    BY <1>1, <2>3, ZenonT(60) DEF EndstopRecord, Recovered
  <2>5. ~off.time /\ ~rec.time
    BY <1>1 DEF EndstopRecord, Recovered
  <2> QED BY <2>2, <2>4, <2>5
<1> HIDE DEF off, rec
<1>3. /\ \E r \in {off, rec} : es' = [es EXCEPT ![e] = r]
      /\ eddy' \in BOOLEAN /\ port' = port /\ active' \in BOOLEAN /\ shut' \in BOOLEAN
  BY DEF HomeOff, command_endstop_recover_state, off, rec, Inv, TypeOK
<1> QED BY <1>1, <1>2, <1>3, StructChanged

\* endstop_home
LEMMA HomeInv ==
  ASSUME Inv, ConstantsOK,
         NEW e \in Endstops, NEW n \in 1 .. MaxSamples, NEW high \in BOOLEAN,
         NEW o \in Trsyncs, NEW p \in Reasons, command_endstop_home(e, n, high, o, p)
  PROVE  Inv'
<1> DEFINE r == HomeStruct(es[e], n, high, o, p)
           F == [es EXCEPT ![e] = r]
<1>1. es[e] \in EndstopRecord /\ 0 \in 0 .. MaxSamples
  BY DEF Inv, TypeOK, ConstantsOK
<1>2. /\ r \in EndstopRecord
      /\ r.ts = o /\ r.trigger_reason = p
      /\ r.trigger_count = n /\ r.sample_count = n
  <2>1. n \in 0 .. MaxSamples /\ n \in 0 .. 255 /\ MaxSamples \in Int
    BY DEF ConstantsOK
  <2>2. r \in EndstopRecord
    BY <1>1, <2>1, ZenonT(60) DEF HomeStruct, EndstopRecord
  <2>3. /\ r.ts = o /\ r.trigger_reason = p
        /\ r.trigger_count = n /\ r.sample_count = n
    BY <1>1 DEF HomeStruct, EndstopRecord
  <2> QED BY <2>2, <2>3
<1> HIDE DEF r
<1>3. /\ run' = [run EXCEPT ![e] = 0] /\ eddy' \in BOOLEAN /\ port' = port
      /\ active' \in BOOLEAN
      /\ (es' = F /\ shut' = shut) \/ Shutdown(F)
  BY DEF command_endstop_home, r
<1>4. CASE es' = F /\ shut' = shut
  <2>1. shut' \in BOOLEAN /\ n \in 1 .. n /\ 0 + n = n
    BY <1>4 DEF Inv, TypeOK, ConstantsOK
  <2> QED BY <1>1, <1>2, <1>3, <1>4, <2>1, StructChanged
<1>5. CASE Shutdown(F)
  <2>1. F \in [Endstops -> EndstopRecord] /\ run' \in [Endstops -> 0 .. MaxSamples]
    BY <1>1, <1>2, <1>3 DEF Inv, TypeOK
  <2> HIDE DEF F
  <2> QED BY <1>3, <1>5, <2>1, TimersGone
<1> QED BY <1>3, <1>4, <1>5

\* The timer of an endstop: endstop_event and endstop_oversample_event.
LEMMA SampleInv ==
  ASSUME Inv, ConstantsOK, NEW e \in Endstops,
         SampleMismatch(e) \/ SampleMatch(e) \/ SampleTriggers(e)
  PROVE  Inv'
<1> DEFINE r == es[e]
<1>1. /\ r \in EndstopRecord /\ run[e] \in 0 .. MaxSamples /\ r.time
      /\ eddy' \in BOOLEAN /\ port' = port /\ active' \in BOOLEAN /\ shut' \in BOOLEAN
  BY DEF Inv, TypeOK, SampleMismatch, SampleMatch, SampleTriggers
<1>2. /\ r.ts \in Trsyncs /\ r.trigger_reason \in Reasons
      /\ r.trigger_count \in 1 .. r.sample_count
      /\ run[e] + r.trigger_count = r.sample_count
      /\ ~r.oversample => r.trigger_count = r.sample_count
  BY <1>1 DEF Inv, EndstopInv
<1>3. r.sample_count \in 0 .. MaxSamples /\ MaxSamples \in 1 .. 255
  BY <1>1 DEF EndstopRecord, ConstantsOK
<1> HIDE DEF r
<1>4. CASE SampleMismatch(e)
  <2> DEFINE n == Mismatch(r)
  <2>1. es' = [es EXCEPT ![e] = n] /\ run' = [run EXCEPT ![e] = 0]
    BY <1>4 DEF SampleMismatch, r
  <2>2. /\ n \in EndstopRecord /\ n.ts = r.ts /\ n.trigger_reason = r.trigger_reason
        /\ n.sample_count = r.sample_count /\ n.trigger_count = r.sample_count
    <3>1. r.sample_count \in 0 .. 255
      BY <1>3
    <3>2. CASE r.oversample
      BY <1>1, <3>1, <3>2 DEF Mismatch, EndstopRecord
    <3>3. CASE ~r.oversample
      BY <1>1, <1>2, <3>3 DEF Mismatch, EndstopRecord
    <3> QED BY <3>2, <3>3
  <2> HIDE DEF n
  <2>3. 0 \in 0 .. MaxSamples /\ r.sample_count \in 1 .. r.sample_count
        /\ 0 + r.sample_count = r.sample_count
    BY <1>2, <1>3
  <2> QED BY <1>1, <1>2, <2>1, <2>2, <2>3, StructChanged
<1>5. r.trigger_count \in 1 .. 255 /\ CountDown(r) = r.trigger_count - 1
  BY <1>2, <1>3 DEF CountDown
<1>6. CASE SampleMatch(e)
  <2> DEFINE c == r.trigger_count - 1
             n == [r EXCEPT !.oversample = TRUE, !.trigger_count = c]
             k == run[e] + 1
  <2>1. c # 0 /\ run' = [run EXCEPT ![e] = k]
    BY <1>5, <1>6 DEF SampleMatch, r
  <2>2. es' = [es EXCEPT ![e] = n]
    <3>1. es' = [es EXCEPT ![e].oversample = TRUE, ![e].trigger_count = c]
      BY <1>5, <1>6 DEF SampleMatch, r
    <3> QED BY <3>1 DEF r, Inv, TypeOK, EndstopRecord
  <2>3. /\ c \in 0 .. 255 /\ c \in 1 .. r.sample_count
        /\ k \in 0 .. MaxSamples /\ k + c = r.sample_count
    BY <1>1, <1>2, <1>3, <1>5, <2>1
  <2> HIDE DEF c, k
  <2>4. /\ n \in EndstopRecord /\ n.ts = r.ts /\ n.trigger_reason = r.trigger_reason
        /\ n.sample_count = r.sample_count /\ n.trigger_count = c /\ n.oversample
    BY <1>1, <2>3 DEF EndstopRecord
  <2> HIDE DEF n
  <2> QED BY <1>1, <1>2, <2>1, <2>2, <2>3, <2>4, StructChanged
<1>7. CASE SampleTriggers(e)
  <2> DEFINE n == [r EXCEPT !.oversample = TRUE, !.time = FALSE]
             k == run[e] + 1
  <2>1. es' = [es EXCEPT ![e] = n] /\ run' = [run EXCEPT ![e] = k]
    BY <1>7 DEF SampleTriggers, r
  <2>2. k \in 0 .. MaxSamples
    BY <1>1, <1>2, <1>3, <1>5
  <2>3. n \in EndstopRecord
    BY <1>1 DEF EndstopRecord
  <2>4. ~n.time
    BY <1>1 DEF EndstopRecord
  <2> HIDE DEF n, k
  <2> QED BY <1>1, <2>1, <2>2, <2>3, <2>4, StructChanged
<1> QED BY <1>4, <1>6, <1>7

\* The detector or a switch changes a level.
LEMMA PinInv ==
  ASSUME Inv, PinChange
  PROVE  Inv'
<1>1. /\ UNCHANGED <<es, active, run>> /\ eddy' \in BOOLEAN /\ shut' \in BOOLEAN
      /\ port' \in [Endstops \ Probes -> BOOLEAN]
  BY DEF PinChange, EddyChange, PortChange, Inv, TypeOK
<1> QED BY <1>1, RestChanged

\* Every step keeps the invariant.
LEMMA NextInv ==
  ASSUME ConstantsOK, Inv, [Next]_vars
  PROVE  Inv'
<1>1. ASSUME NEW e \in Endstops, HomeOff(e) \/ command_endstop_recover_state(e)
      PROVE  Inv'
  BY <1>1, OffInv
<1>2. ASSUME NEW e \in Endstops, NEW n \in 1 .. MaxSamples, NEW high \in BOOLEAN,
             NEW o \in Trsyncs, NEW p \in Reasons, command_endstop_home(e, n, high, o, p)
      PROVE  Inv'
  BY <1>2, HomeInv
<1>3. ASSUME NEW e \in Endstops, command_endstop_query_state(e)
      PROVE  Inv'
  <2>1. UNCHANGED <<es, run, eddy, port, shut>> /\ active' \in BOOLEAN
    BY <1>3 DEF command_endstop_query_state
  <2> QED BY <2>1 DEF Inv, TypeOK, EndstopInv
<1>4. ASSUME NEW e \in Endstops, SampleMismatch(e) \/ SampleMatch(e) \/ SampleTriggers(e)
      PROVE  Inv'
  BY <1>4, SampleInv
<1>5. CASE PinChange
  BY <1>5, PinInv
<1>6. CASE ShutdownStep
  BY <1>6, TimersGone DEF ShutdownStep, Inv, TypeOK
<1>7. CASE ClearShutdown
  BY <1>7, RestChanged DEF ClearShutdown, Inv, TypeOK
<1>8. CASE UNCHANGED vars
  BY <1>8, RestChanged DEF vars, Inv, TypeOK
<1> QED BY <1>1, <1>2, <1>3, <1>4, <1>5, <1>6, <1>7, <1>8 DEF Next

\* Every reachable state satisfies the invariant.
THEOREM Invariance ==
  ASSUME ConstantsOK
  PROVE  Spec => []Inv
BY InitInv, NextInv, PTL DEF Spec

\* The invariant gives what an endstop promises: it never triggers through NULL or
\* with a count that wraps, and takes as many matching samples in a row as asked for.
LEMMA InvReady ==
  ASSUME ConstantsOK, Inv
  PROVE  ArmedIsReady /\ SamplesInARow
BY DEF Inv, EndstopInv, ArmedIsReady, SamplesInARow, ConstantsOK
=============================================================================
