------------------------- MODULE MessageLinkProofs -------------------------
(***************************************************************************)
(* Proofs about the link that carries the commands: for every number of    *)
(* bits in a sequence number, every limit of pending blocks below their    *)
(* range and every receive window, whatever is lost or damaged, every      *)
(* block is run once and in order, no answer is mistaken for another, no   *)
(* sender of a block after the first is told too early, and the receive    *)
(* window is kept.                                                         *)
(***************************************************************************)
EXTENDS MessageLink, SequenceTheorems, TLAPS

-----------------------------------------------------------------------------
(* The inductive invariant.                                                *)

\* What command_sendf puts on the line to the host.
Message == [seq : Nat, data : BOOLEAN]

\* Types, without the bounds that only limit the model.
LinkTypes ==
  /\ send_seq \in Nat /\ receive_seq \in Nat /\ next \in Nat
  /\ receive_seq >= 1
  /\ last_ack_seq \in Int /\ notified \in Int /\ retransmit_seq \in Nat
  /\ down \in Seq(Nat) /\ up \in Seq(Message)
  /\ dispatching \in BOOLEAN

\* The host has heard which block the firmware waits for, or guessed it.
Met == next <= send_seq

\* The number that the firmware waits for is one of those the bits of receive_seq
\* can tell apart, and before the two have met nothing but it was ever said.  Until an
\* answer has told the host more, it has sent block 1 and no other.
SeqInv ==
  /\ receive_seq <= next /\ receive_seq <= send_seq
  /\ send_seq <= receive_seq + MaxPending
  /\ last_ack_seq <= receive_seq
  /\ receive_seq = 1 => send_seq <= 2
  /\ ~Met => /\ receive_seq = 1 /\ send_seq <= 2 /\ next <= SeqNumbers
             /\ \A i \in 1 .. Len(up) : up[i].seq = next

\* Messages on their way to the host are in order.
UpInv ==
  /\ \A i \in 1 .. Len(up) : receive_seq <= up[i].seq /\ up[i].seq <= next
  /\ \A i, j \in 1 .. Len(up) : i <= j => up[i].seq <= up[j].seq

\* Block i on the line is not damaged.
Whole(i) == down[i] # Bad

\* The blocks on the line are not too old for the firmware, nor too far behind those
\* that will arrive before them: a block is sent again only while it is pending.
DownInv ==
  /\ \A i \in 1 .. Len(down) :
       Whole(i) => down[i] < send_seq /\ next < down[i] + SeqNumbers
  /\ \A i, j \in 1 .. Len(down) :
       (i < j /\ Whole(i) /\ Whole(j)) => down[i] < down[j] + MaxPending
  /\ dispatching => down # <<>> /\ down[1] # Bad /\ down[1] + 1 = next

\* The blocks before this one are done.
Done == IF dispatching THEN next - 1 ELSE next

\* No acknowledgement on its way says more than n.
Acks(n) == \A i \in 1 .. Len(up) : ~up[i].data => up[i].seq <= n

\* No acknowledgement on its way is ahead of the firmware, and neither is what the
\* senders of the blocks after the first were told.
ToldInv == (notified > 1 => notified < Done) /\ Acks(Done)

\* While nothing was sent again, every block on the line has a number of its own; one
\* that the firmware has passed is there only as long as its acknowledgement is due.
WindowInv ==
  retransmit_seq = 0 =>
    /\ Len(down) <= Window
    /\ \A i \in 1 .. Len(down) : Whole(i) => down[i] + ((Len(down) - i) + 1) <= send_seq
    /\ Met => /\ Len(down) + next <= send_seq + 1
              /\ Len(down) + next = send_seq + 1 => last_ack_seq < next /\ Acks(next - 1)
    /\ ~Met => /\ Len(down) + 1 <= send_seq
               /\ Len(down) + 1 = send_seq => Acks(0)

\* The inductive invariant.
LinkInv == LinkTypes /\ SeqInv /\ UpInv /\ DownInv /\ ToldInv /\ WindowInv

-----------------------------------------------------------------------------
(* Numbers and sequences.                                                  *)

\* What the bound on pending blocks says.
LEMMA LinkConstants ==
  /\ SeqNumbers \in Nat /\ SeqNumbers >= 2 /\ MaxPending \in Nat
  /\ MaxPending >= 1 /\ MaxPending < SeqNumbers /\ Window \in Nat /\ Window >= 2
BY MessageLinkAssumption

\* A multiple of n that is closer to zero than n is zero.
LEMMA NoMultiple ==
  ASSUME NEW n \in Nat \ {0}, NEW q \in Int, n * q < n, -n < n * q
  PROVE  q = 0
<1>1. CASE q >= 1 BY <1>1
<1>2. CASE q <= -1 BY <1>2
<1> QED BY <1>1, <1>2

\* Two numbers with the same bits that are closer than the range of the bits are one.
LEMMA SameBits ==
  ASSUME NEW a \in Int, NEW b \in Int, NEW n \in Nat \ {0},
         a % n = b % n, a < b + n, b < a + n
  PROVE  a = b
<1>1. /\ a = n * (a \div n) + (a % n) /\ b = n * (b \div n) + (b % n)
      /\ a \div n \in Int /\ b \div n \in Int /\ a % n \in Int
  OBVIOUS
<1> DEFINE q == (a \div n) - (b \div n)
<1>2. q \in Int /\ a - b = n * q BY <1>1
<1> HIDE DEF q
<1>3. n * q < n /\ -n < n * q BY <1>2
<1>4. q = 0 BY <1>2, <1>3, NoMultiple
<1> QED BY <1>2, <1>4

\* The bits of a number and another below it, not by the range, tell the number.
LEMMA BitsDecode ==
  ASSUME NEW a \in Int, NEW r \in Int, NEW n \in Nat \ {0}, r <= a, a < r + n
  PROVE  r + (((a % n) - r) % n) = a
<1> DEFINE x == (a % n) - r
           k == x % n
<1>1. /\ a = n * (a \div n) + (a % n) /\ a \div n \in Int /\ a % n \in Int /\ x \in Int
  OBVIOUS
<1>2. x = n * (x \div n) + k /\ x \div n \in Int /\ k \in 0 .. n - 1
  <2> HIDE DEF x
  <2> QED BY <1>1
<1> DEFINE q == (a \div n) + (x \div n)
<1> HIDE DEF k
<1>3. q \in Int /\ (a - r) - k = n * q BY <1>1, <1>2
<1> HIDE DEF q, x
<1>4. n * q < n /\ -n < n * q BY <1>2, <1>3
<1>5. q = 0 BY <1>3, <1>4, NoMultiple
<1>6. (a - r) - k = 0 BY <1>3, <1>5
<1>7. r + k = a BY <1>2, <1>6
<1> QED BY <1>7 DEF k, x

\* The larger of two numbers is one of them.
LEMMA MaxOfTwo ==
  ASSUME NEW a \in Int, NEW b \in Int
  PROVE  Max({a, b}) \in {a, b}
<1>1. \E x \in {a, b} : \A y \in {a, b} : x >= y
  <2>1. CASE a >= b BY <2>1
  <2>2. CASE b >= a BY <2>2
  <2> QED BY <2>1, <2>2
<1> QED BY <1>1 DEF Max

\* So is the smaller, and it is no larger than either.
LEMMA MinOfTwo ==
  ASSUME NEW a \in Int, NEW b \in Int
  PROVE  Min({a, b}) \in Int /\ Min({a, b}) <= a /\ Min({a, b}) <= b
<1>1. \E x \in {a, b} : \A y \in {a, b} : x <= y
  <2>1. CASE a <= b BY <2>1
  <2>2. CASE b <= a BY <2>2
  <2> QED BY <2>1, <2>2
<1>2. Min({a, b}) \in {a, b} /\ \A y \in {a, b} : Min({a, b}) <= y
  BY <1>1 DEF Min
<1> QED BY <1>2

\* t is s without its element i.
Cut(s, t, i) ==
  /\ Len(t) + 1 = Len(s)
  /\ \A j \in 1 .. Len(t) : t[j] = IF j < i THEN s[j] ELSE s[j + 1]

\* Taking the first.
LEMMA TailCut ==
  ASSUME NEW S, NEW s \in Seq(S), s # <<>>
  PROVE  /\ Tail(s) \in Seq(S) /\ Cut(s, Tail(s), 1)
         /\ Head(s) = s[1] /\ 1 \in 1 .. Len(s) /\ Len(s) \in Nat
<1>1. /\ Tail(s) \in Seq(S) /\ Len(Tail(s)) = Len(s) - 1
      /\ \A i \in 1 .. Len(Tail(s)) : Tail(s)[i] = s[i + 1]
      /\ Len(s) \in Nat \ {0}
  BY HeadTailProperties, EmptySeq, LenProperties
<1>2. Head(s) = s[1] OBVIOUS
<1>3. Len(Tail(s)) + 1 = Len(s) /\ 1 \in 1 .. Len(s) BY <1>1
<1>4. \A j \in 1 .. Len(Tail(s)) : ~(j < 1) OBVIOUS
<1> QED BY <1>1, <1>2, <1>3, <1>4 DEF Cut

\* Losing one.
LEMMA RemoveAtCut ==
  ASSUME NEW S, NEW s \in Seq(S), NEW i \in 1 .. Len(s)
  PROVE  RemoveAt(s, i) \in Seq(S) /\ Cut(s, RemoveAt(s, i), i)
<1> DEFINE a == SubSeq(s, 1, i - 1)
           b == SubSeq(s, i + 1, Len(s))
<1>0. Len(s) \in Nat /\ \A j \in 1 .. Len(s) : s[j] \in S BY LenProperties, ElementOfSeq
<1>1. /\ a \in Seq(S) /\ Len(a) = i - 1 /\ \A j \in 1 .. i - 1 : a[j] = s[j]
  BY <1>0, SubSeqProperties
<1>2. /\ b \in Seq(S) /\ Len(b) = Len(s) - i /\ \A j \in 1 .. Len(s) - i : b[j] = s[i + j]
  <2>1. /\ b \in Seq(S)
        /\ Len(b) = IF i + 1 <= Len(s) THEN Len(s) - (i + 1) + 1 ELSE 0
        /\ \A j \in 1 .. Len(s) - (i + 1) + 1 : b[j] = s[(i + 1) + j - 1]
    BY <1>0, SubSeqProperties
  <2> HIDE DEF b
  <2>2. i \in Int /\ Len(s) \in Int /\ i <= Len(s) BY <1>0
  <2>3. Len(s) - (i + 1) + 1 = Len(s) - i BY <2>2
  <2>4. Len(b) = Len(s) - i BY <2>1, <2>2
  <2>5. ASSUME NEW j \in 1 .. Len(s) - i PROVE b[j] = s[i + j]
    <3>1. j \in 1 .. Len(s) - (i + 1) + 1 BY <2>3
    <3>2. b[j] = s[(i + 1) + j - 1] BY <2>1, <3>1
    <3>3. (i + 1) + j - 1 = i + j BY <2>2
    <3> QED BY <3>2, <3>3
  <2> QED BY <2>1, <2>4, <2>5
<1> HIDE DEF a, b
<1>3. /\ a \o b \in Seq(S) /\ Len(a \o b) = (i - 1) + (Len(s) - i)
      /\ \A j \in 1 .. Len(a) + Len(b) : (a \o b)[j] = IF j <= Len(a) THEN a[j]
                                                    ELSE b[j - Len(a)]
  <2>1. /\ a \o b \in Seq(S) /\ Len(a \o b) = Len(a) + Len(b)
        /\ \A j \in 1 .. Len(a) + Len(b) : (a \o b)[j] = IF j <= Len(a) THEN a[j]
                                                      ELSE b[j - Len(a)]
    BY <1>1, <1>2, ConcatProperties
  <2> QED BY <1>1, <1>2, <2>1, Zenon
<1>4. Len(a \o b) + 1 = Len(s) BY <1>0, <1>3
<1>5. ASSUME NEW j \in 1 .. Len(a \o b)
      PROVE  (a \o b)[j] = IF j < i THEN s[j] ELSE s[j + 1]
  <2>1. j \in 1 .. Len(a) + Len(b) BY <1>0, <1>1, <1>2, <1>3
  <2>2. CASE j < i
    <3>1. j <= Len(a) /\ j \in 1 .. i - 1 BY <1>1, <2>2
    <3> QED BY <1>1, <1>3, <2>1, <2>2, <3>1
  <2>3. CASE ~(j < i)
    <3>1. /\ ~(j <= Len(a)) /\ j - Len(a) = (j - i) + 1 /\ (j - i) + 1 \in 1 .. Len(s) - i
          /\ i + ((j - i) + 1) = j + 1
      BY <1>0, <1>1, <1>3, <2>3
    <3> QED BY <1>2, <1>3, <2>1, <2>3, <3>1
  <2> QED BY <2>2, <2>3
<1> QED BY <1>3, <1>4, <1>5 DEF Cut, RemoveAt, a, b

-----------------------------------------------------------------------------
(* What the few bits tell.                                                 *)

\* The firmware waits for a block that is not further from receive_seq than the bits
\* can tell.
LEMMA NextNear ==
  ASSUME LinkInv
  PROVE  receive_seq <= next /\ next < receive_seq + SeqNumbers
<1>1. LinkTypes /\ SeqInv BY DEF LinkInv
<1>2. /\ receive_seq <= next /\ send_seq <= receive_seq + MaxPending
      /\ next <= send_seq \/ (receive_seq = 1 /\ next <= SeqNumbers)
  BY <1>1 DEF SeqInv, Met
<1>3. receive_seq \in Nat /\ send_seq \in Nat /\ next \in Nat BY <1>1 DEF LinkTypes
<1> QED BY <1>2, <1>3, LinkConstants

\* A block that has the bits of the one the firmware waits for is that one.
LEMMA ExpectedIs ==
  ASSUME LinkInv, down # <<>>, Head(down) # Bad, Expected(Head(down))
  PROVE  /\ Head(down) = next /\ down[1] = next /\ next < send_seq
<1>1. LinkTypes /\ SeqInv /\ DownInv BY DEF LinkInv
<1>2. receive_seq \in Nat /\ send_seq \in Nat /\ next \in Nat /\ down \in Seq(Nat)
  BY <1>1 DEF LinkTypes
<1>3. Head(down) = down[1] /\ 1 \in 1 .. Len(down) BY <1>2, TailCut
<1>4. down[1] < send_seq /\ next < down[1] + SeqNumbers /\ down[1] \in Nat
  BY <1>1, <1>2, <1>3, ElementOfSeq DEF DownInv, Whole
<1>5. /\ receive_seq <= next /\ send_seq <= receive_seq + MaxPending
  BY <1>1 DEF SeqInv
<1>6. down[1] < next + SeqNumbers BY <1>2, <1>4, <1>5, LinkConstants
<1>7. down[1] % SeqNumbers = next % SeqNumbers BY <1>3 DEF Expected, Wire
<1>8. SeqNumbers \in Nat \ {0} BY LinkConstants
<1>9. \A a, b \in Int : \A n \in Nat \ {0} :
        (a % n = b % n /\ a < b + n /\ b < a + n) => a = b
  BY SameBits
<1>10. down[1] \in Int /\ next \in Int BY <1>2, <1>4
<1>11. down[1] = next BY <1>4, <1>6, <1>7, <1>8, <1>9, <1>10, Zenon
<1> QED BY <1>3, <1>4, <1>11

\* The host expands the bits of a message to the number it was made from.
LEMMA DecodeIs ==
  ASSUME LinkInv, up # <<>>
  PROVE  /\ Rseq(Head(up)) = Head(up).seq /\ Head(up) = up[1] /\ 1 \in 1 .. Len(up)
         /\ up[1] \in Message
<1>1. LinkTypes /\ UpInv BY DEF LinkInv
<1>2. receive_seq \in Nat /\ next \in Nat /\ up \in Seq(Message) BY <1>1 DEF LinkTypes
<1>3. Head(up) = up[1] /\ 1 \in 1 .. Len(up) BY <1>2, TailCut
<1>4. up[1] \in Message BY <1>2, <1>3, ElementOfSeq
<1>5. up[1].seq \in Nat BY <1>4 DEF Message
<1>6. receive_seq <= up[1].seq /\ up[1].seq <= next BY <1>1, <1>3 DEF UpInv
<1>7. next < receive_seq + SeqNumbers BY NextNear
<1>8. SeqNumbers \in Nat \ {0} BY LinkConstants
<1>9. up[1].seq < receive_seq + SeqNumbers BY <1>2, <1>5, <1>6, <1>7, <1>8
<1>10. receive_seq + (((up[1].seq % SeqNumbers) - receive_seq) % SeqNumbers) = up[1].seq
  <2>1. \A a, r \in Int : \A n \in Nat \ {0} :
          (r <= a /\ a < r + n) => r + (((a % n) - r) % n) = a
    BY BitsDecode
  <2>2. receive_seq \in Int /\ up[1].seq \in Int BY <1>2, <1>5
  <2> QED BY <1>6, <1>8, <1>9, <2>1, <2>2, Zenon
<1> QED BY <1>3, <1>4, <1>10 DEF Rseq, Wire

-----------------------------------------------------------------------------
(* What the steps do to the line.                                          *)

\* The firmware sends a message.
LEMMA SendIs ==
  ASSUME LinkInv, NEW isData \in BOOLEAN, Send(next, isData),
         UNCHANGED <<receive_seq, next>>
  PROVE  /\ up' \in Seq(Message) /\ Len(up') = Len(up) + 1 /\ Len(up) \in Nat
         /\ \A i \in 1 .. Len(up) : up'[i] = up[i]
         /\ up'[Len(up) + 1].seq = next /\ up'[Len(up) + 1].data = isData
         /\ \A i \in 1 .. Len(up') : i \in 1 .. Len(up) \/ i = Len(up) + 1
         /\ UpInv'
<1> DEFINE m == [seq |-> next, data |-> isData]
<1>0. LinkTypes /\ SeqInv /\ UpInv BY DEF LinkInv
<1>1. up \in Seq(Message) /\ next \in Nat /\ receive_seq \in Nat BY <1>0 DEF LinkTypes
<1>2. m \in Message /\ m.seq = next /\ m.data = isData BY <1>1 DEF Message
<1>3. up' = Append(up, m) BY DEF Send
<1> HIDE DEF m
<1>4. /\ up' \in Seq(Message) /\ Len(up') = Len(up) + 1 /\ Len(up) \in Nat
      /\ \A i \in 1 .. Len(up) : up'[i] = up[i]
      /\ up'[Len(up) + 1] = m
  BY <1>1, <1>2, <1>3, AppendProperties, LenProperties
<1>5. \A i \in 1 .. Len(up') : i \in 1 .. Len(up) \/ i = Len(up) + 1 BY <1>4
<1>6. \A i \in 1 .. Len(up) : up[i].seq \in Nat
  <2>1. \A i \in 1 .. Len(up) : up[i] \in Message BY <1>1, ElementOfSeq
  <2> QED BY <2>1 DEF Message
<1>7. receive_seq <= next BY NextNear
<1>8. \A i \in 1 .. Len(up') : receive_seq <= up'[i].seq /\ up'[i].seq <= next
  BY <1>0, <1>1, <1>2, <1>4, <1>5, <1>7 DEF UpInv
<1>9. \A i, j \in 1 .. Len(up') : i <= j => up'[i].seq <= up'[j].seq
  <2> SUFFICES ASSUME NEW i \in 1 .. Len(up'), NEW j \in 1 .. Len(up'), i <= j
               PROVE  up'[i].seq <= up'[j].seq
    OBVIOUS
  <2>1. CASE j = Len(up) + 1 BY <1>2, <1>4, <1>8, <2>1
  <2>2. CASE j # Len(up) + 1
    <3>1. i \in 1 .. Len(up) /\ j \in 1 .. Len(up) BY <1>4, <1>5, <2>2
    <3> QED BY <1>0, <1>4, <3>1 DEF UpInv
  <2> QED BY <2>1, <2>2
<1> QED BY <1>2, <1>4, <1>5, <1>8, <1>9 DEF UpInv

\* A block leaves the line.
LEMMA CutDown ==
  ASSUME LinkInv, NEW i \in 1 .. Len(down), down' \in Seq(Nat), Cut(down, down', i),
         UNCHANGED <<send_seq, next, retransmit_seq>>,
         dispatching' => dispatching /\ i # 1
  PROVE  DownInv' /\ WindowInv'
<1>0. LinkTypes /\ DownInv /\ WindowInv /\ SeqInv BY DEF LinkInv
<1>1. /\ Len(down) \in Nat /\ Len(down') \in Nat /\ send_seq \in Nat /\ next \in Nat
      /\ \A j \in 1 .. Len(down) : down[j] \in Nat
  BY <1>0, LenProperties, ElementOfSeq DEF LinkTypes
<1>2. /\ Len(down') + 1 = Len(down)
      /\ \A j \in 1 .. Len(down') : down'[j] = IF j < i THEN down[j] ELSE down[j + 1]
  BY DEF Cut
<1>3. \A j \in 1 .. Len(down') : j \in 1 .. Len(down) /\ j + 1 \in 1 .. Len(down)
  BY <1>1, <1>2
<1>4. DownInv'
  <2>1. \A j \in 1 .. Len(down') :
          down'[j] # Bad => down'[j] < send_seq /\ next < down'[j] + SeqNumbers
    BY <1>0, <1>2, <1>3 DEF DownInv, Whole
  <2>2. ASSUME NEW j \in 1 .. Len(down'), NEW k \in 1 .. Len(down'), j < k,
               down'[j] # Bad, down'[k] # Bad
        PROVE  down'[j] < down'[k] + MaxPending
    <3> DEFINE a == IF j < i THEN j ELSE j + 1
               b == IF k < i THEN k ELSE k + 1
    <3>1. a \in 1 .. Len(down) /\ b \in 1 .. Len(down) /\ a < b
      BY <1>1, <1>3, <2>2
    <3>2. down'[j] = down[a] /\ down'[k] = down[b] BY <1>2
    <3> HIDE DEF a, b
    <3> QED BY <1>0, <2>2, <3>1, <3>2 DEF DownInv, Whole
  <2>3. dispatching' => down' # <<>> /\ down'[1] # Bad /\ down'[1] + 1 = next
    <3> SUFFICES ASSUME dispatching' PROVE down' # <<>> /\ down'[1] # Bad /\ down'[1] + 1 = next
      OBVIOUS
    <3>1. 1 < i /\ 1 \in 1 .. Len(down') BY <1>1, <1>2
    <3>2. down'[1] = down[1] BY <1>2, <3>1
    <3>3. down' # <<>> BY <3>1
    <3> QED BY <1>0, <3>2, <3>3 DEF DownInv
  <2> QED BY <2>1, <2>2, <2>3 DEF DownInv, Whole
<1>5. WindowInv'
  <2> SUFFICES ASSUME retransmit_seq = 0
               PROVE  /\ Len(down') <= Window
                      /\ \A j \in 1 .. Len(down') :
                           down'[j] # Bad => down'[j] + ((Len(down') - j) + 1) <= send_seq
                      /\ Met => Len(down') + next < send_seq + 1
                      /\ ~Met => Len(down') + 1 < send_seq
    <3>1. Len(down') + next < send_seq + 1 => Len(down') + next <= send_seq + 1
                                               /\ Len(down') + next # send_seq + 1
      BY <1>1
    <3>2. Len(down') + 1 < send_seq => Len(down') + 1 <= send_seq /\ Len(down') + 1 # send_seq
      BY <1>1
    <3> QED BY <3>1, <3>2 DEF WindowInv, Met, Whole
  <2>1. Len(down') <= Window BY <1>0, <1>1, <1>2, LinkConstants DEF WindowInv
  <2>2. ASSUME NEW j \in 1 .. Len(down'), down'[j] # Bad
        PROVE  down'[j] + ((Len(down') - j) + 1) <= send_seq
    <3> DEFINE a == IF j < i THEN j ELSE j + 1
    <3>1. a \in 1 .. Len(down) /\ a >= j /\ a <= j + 1 BY <1>1, <1>3
    <3>2. down'[j] = down[a] BY <1>2
    <3> HIDE DEF a
    <3>3. down[a] + ((Len(down) - a) + 1) <= send_seq /\ down[a] \in Nat
      BY <1>0, <1>1, <2>2, <3>1, <3>2 DEF WindowInv, Whole
    <3> QED BY <1>1, <1>2, <3>1, <3>2, <3>3
  <2>3. Met => Len(down) + next <= send_seq + 1 BY <1>0 DEF WindowInv
  <2>4. ~Met => Len(down) + 1 <= send_seq BY <1>0 DEF WindowInv
  <2> QED BY <1>1, <1>2, <2>1, <2>2, <2>3, <2>4
<1> QED BY <1>4, <1>5

\* The state in numbers.
LEMMA Plain ==
  ASSUME LinkInv
  PROVE  /\ send_seq \in Nat /\ receive_seq \in Nat /\ next \in Nat /\ retransmit_seq \in Nat
         /\ last_ack_seq \in Int /\ notified \in Int /\ dispatching \in BOOLEAN
         /\ down \in Seq(Nat) /\ Len(down) \in Nat
         /\ \A i \in 1 .. Len(down) : down[i] \in Nat
         /\ up \in Seq(Message) /\ Len(up) \in Nat
         /\ \A i \in 1 .. Len(up) : up[i].seq \in Nat /\ up[i].data \in BOOLEAN
         /\ SeqNumbers \in Nat /\ MaxPending \in Nat
<1>1. LinkTypes BY DEF LinkInv
<1>2. \A i \in 1 .. Len(up) : up[i] \in Message BY <1>1, ElementOfSeq DEF LinkTypes
<1>3. \A i \in 1 .. Len(up) : up[i].seq \in Nat /\ up[i].data \in BOOLEAN
  BY <1>2 DEF Message
<1>4. \A i \in 1 .. Len(down) : down[i] \in Nat BY <1>1, ElementOfSeq DEF LinkTypes
<1>5. Len(down) \in Nat /\ Len(up) \in Nat BY <1>1, LenProperties DEF LinkTypes
<1> QED BY <1>1, <1>3, <1>4, <1>5, LinkConstants DEF LinkTypes

\* A message leaves the line, to the host or lost: the others stay in order.
LEMMA CutUp ==
  ASSUME LinkInv, NEW i \in 1 .. Len(up), up' \in Seq(Message), Cut(up, up', i)
  PROVE  /\ \A j \in 1 .. Len(up') : \E k \in 1 .. Len(up) : up'[j] = up[k]
         /\ \A j, k \in 1 .. Len(up') : j <= k => up'[j].seq <= up'[k].seq
<1>1. /\ Len(up') + 1 = Len(up) /\ Len(up) \in Nat /\ Len(up') \in Nat
      /\ \A j \in 1 .. Len(up') : up'[j] = IF j < i THEN up[j] ELSE up[j + 1]
  BY Plain, LenProperties DEF Cut
<1>2. \A j \in 1 .. Len(up') : j \in 1 .. Len(up) /\ j + 1 \in 1 .. Len(up) BY <1>1
<1>3. \A j \in 1 .. Len(up') : \E k \in 1 .. Len(up) : up'[j] = up[k] BY <1>1, <1>2
<1>4. ASSUME NEW j \in 1 .. Len(up'), NEW k \in 1 .. Len(up'), j <= k
      PROVE  up'[j].seq <= up'[k].seq
  <2> DEFINE a == IF j < i THEN j ELSE j + 1
             b == IF k < i THEN k ELSE k + 1
  <2>1. a \in 1 .. Len(up) /\ b \in 1 .. Len(up) /\ a <= b BY <1>1, <1>2, <1>4
  <2>2. up'[j] = up[a] /\ up'[k] = up[b] BY <1>1
  <2> HIDE DEF a, b
  <2>3. UpInv BY DEF LinkInv
  <2> QED BY <2>1, <2>2, <2>3 DEF UpInv
<1> QED BY <1>3, <1>4

\* A message of the firmware says no more than is true.
LEMMA MessageSent ==
  ASSUME LinkInv, NEW isData \in BOOLEAN, Send(next, isData),
         UNCHANGED <<send_seq, receive_seq, last_ack_seq, notified, next>>,
         dispatching' \in BOOLEAN, dispatching' => dispatching /\ isData
  PROVE  up' \in Seq(Message) /\ SeqInv' /\ UpInv' /\ ToldInv'
<1>1. /\ up' \in Seq(Message) /\ Len(up') = Len(up) + 1 /\ Len(up) \in Nat
      /\ \A i \in 1 .. Len(up) : up'[i] = up[i]
      /\ up'[Len(up) + 1].seq = next /\ up'[Len(up) + 1].data = isData
      /\ \A i \in 1 .. Len(up') : i \in 1 .. Len(up) \/ i = Len(up) + 1
      /\ UpInv'
  BY SendIs
<1>2. SeqInv /\ ToldInv BY DEF LinkInv
<1>3. SeqInv'
  <2>1. ~Met => \A i \in 1 .. Len(up') : up'[i].seq = next BY <1>1, <1>2 DEF SeqInv
  <2> QED BY <1>2, <2>1 DEF SeqInv, Met
<1>4. ToldInv'
  <2> DEFINE d == IF dispatching THEN next - 1 ELSE next
             e == IF dispatching' THEN next - 1 ELSE next
  <2>1. /\ notified > 1 => notified < d
        /\ \A i \in 1 .. Len(up) : ~up[i].data => up[i].seq <= d
    BY <1>2 DEF ToldInv, Done, Acks
  <2>2. d \in Int /\ e \in Int /\ d <= e /\ (~isData => e = next) BY Plain
  <2> HIDE DEF d, e
  <2>3. notified > 1 => notified < e BY <2>1, <2>2, Plain
  <2>4. ASSUME NEW i \in 1 .. Len(up'), ~up'[i].data PROVE up'[i].seq <= e
    <3>1. CASE i \in 1 .. Len(up)
      <4>1. up[i].seq <= d /\ up[i].seq \in Nat /\ up'[i].seq = up[i].seq
        BY <1>1, <2>1, <2>4, <3>1, Plain
      <4> QED BY <2>2, <4>1
    <3>2. CASE i = Len(up) + 1 BY <1>1, <2>2, <2>4, <3>2, Plain
    <3> QED BY <1>1, <3>1, <3>2
  <2>5. e = IF dispatching' THEN next - 1 ELSE next BY DEF e
  <2> QED BY <2>3, <2>4, <2>5 DEF ToldInv, Done, Acks
<1> QED BY <1>1, <1>3, <1>4

\* Nothing is said.
LEMMA NothingSaid ==
  ASSUME LinkInv, UNCHANGED <<send_seq, receive_seq, last_ack_seq, notified, next, up>>,
         dispatching' \in BOOLEAN, dispatching' => dispatching
  PROVE  up' \in Seq(Message) /\ SeqInv' /\ UpInv' /\ ToldInv'
<1>1. SeqInv /\ UpInv /\ ToldInv BY DEF LinkInv
<1>2. SeqInv' /\ UpInv' BY <1>1 DEF SeqInv, UpInv, Met
<1>3. ToldInv'
  <2>1. CASE dispatching' = dispatching BY <1>1, <2>1 DEF ToldInv, Done, Acks
  <2>2. CASE dispatching /\ ~dispatching'
    <3>1. /\ notified > 1 => notified < next - 1
          /\ \A i \in 1 .. Len(up) : ~up[i].data => up[i].seq <= next - 1
      BY <1>1, <2>2 DEF ToldInv, Done, Acks
    <3>2. notified > 1 => notified < next BY <3>1, Plain
    <3>3. \A i \in 1 .. Len(up) : ~up[i].data => up[i].seq <= next BY <3>1, Plain
    <3> QED BY <2>2, <3>2, <3>3 DEF ToldInv, Done, Acks
  <2> QED BY <2>1, <2>2, Plain
<1> QED BY <1>2, <1>3, Plain

-----------------------------------------------------------------------------
(* The steps of the firmware.                                              *)

\* The block at the head is dropped or done.
LEMMA HeadGone ==
  ASSUME LinkInv, down # <<>>, down' = Tail(down), UNCHANGED host, UNCHANGED next,
         ~dispatching', up' \in Seq(Message), SeqInv', UpInv', ToldInv',
         dispatching' \in BOOLEAN
  PROVE  LinkInv'
<1>1. /\ Tail(down) \in Seq(Nat) /\ Cut(down, Tail(down), 1) /\ 1 \in 1 .. Len(down)
  BY Plain, TailCut
<1>2. UNCHANGED <<send_seq, next, retransmit_seq>> BY DEF host
<1>3. down' \in Seq(Nat) /\ Cut(down, down', 1) BY <1>1
<1>4. DownInv' /\ WindowInv' BY <1>1, <1>2, <1>3, CutDown
<1>5. LinkTypes' BY <1>3 DEF LinkTypes, LinkInv, host
<1> QED BY <1>4, <1>5 DEF LinkInv

\* Damaged data is dropped.
LEMMA FindBadLink == ASSUME LinkInv, FindBad PROVE LinkInv'
<1>1. /\ ~dispatching /\ down # <<>> /\ down' = Tail(down) /\ UNCHANGED host
      /\ UNCHANGED next /\ dispatching' = dispatching
      /\ UNCHANGED up \/ Send(next, FALSE)
  BY DEF FindBad
<1>2. dispatching' \in BOOLEAN /\ ~dispatching' BY <1>1, Plain
<1>3. UNCHANGED <<send_seq, receive_seq, last_ack_seq, notified, next>> BY <1>1 DEF host
<1>4. up' \in Seq(Message) /\ SeqInv' /\ UpInv' /\ ToldInv'
  BY <1>1, <1>2, <1>3, NothingSaid, MessageSent
<1> QED BY <1>1, <1>2, <1>4, HeadGone

\* A block out of order is dropped.
LEMMA FindOtherLink == ASSUME LinkInv, FindOther PROVE LinkInv'
<1>1. /\ ~dispatching /\ down # <<>> /\ down' = Tail(down) /\ UNCHANGED host
      /\ UNCHANGED next /\ dispatching' = dispatching /\ Send(next, FALSE)
  BY DEF FindOther
<1>2. dispatching' \in BOOLEAN /\ ~dispatching' BY <1>1, Plain
<1>3. UNCHANGED <<send_seq, receive_seq, last_ack_seq, notified, next>> BY <1>1 DEF host
<1>4. up' \in Seq(Message) /\ SeqInv' /\ UpInv' /\ ToldInv'
  BY <1>1, <1>2, <1>3, MessageSent
<1> QED BY <1>1, <1>2, <1>4, HeadGone

\* A block is done.
LEMMA DispatchDoneLink == ASSUME LinkInv, DispatchDone PROVE LinkInv'
<1>1. /\ dispatching /\ dispatching' = FALSE /\ down' = Tail(down) /\ UNCHANGED host
      /\ UNCHANGED next /\ Send(next, FALSE)
  BY DEF DispatchDone
<1>2. dispatching' \in BOOLEAN /\ ~dispatching' BY <1>1
<1>3. UNCHANGED <<send_seq, receive_seq, last_ack_seq, notified, next>> BY <1>1 DEF host
<1>4. up' \in Seq(Message) /\ SeqInv' /\ UpInv' /\ ToldInv'
  BY <1>1, <1>2, <1>3, MessageSent
<1>5. down # <<>> BY <1>1 DEF LinkInv, DownInv
<1> QED BY <1>1, <1>2, <1>4, <1>5, HeadGone

\* A shutdown ends the running of a block.
LEMMA DispatchShutdownLink == ASSUME LinkInv, DispatchShutdown PROVE LinkInv'
<1>1. /\ dispatching' = FALSE /\ UNCHANGED <<host, down, up, next>>
  BY DEF DispatchShutdown
<1>2. UNCHANGED <<send_seq, receive_seq, last_ack_seq, notified, next, up>>
  BY <1>1 DEF host
<1>3. up' \in Seq(Message) /\ SeqInv' /\ UpInv' /\ ToldInv' BY <1>1, <1>2, NothingSaid
<1>4. DownInv' BY <1>1, <1>2 DEF LinkInv, DownInv, Whole, host
<1>5. WindowInv' BY <1>1, <1>2 DEF LinkInv, WindowInv, Whole, Acks, Met, host
<1>6. LinkTypes' BY <1>1 DEF LinkInv, LinkTypes, host
<1> QED BY <1>3, <1>4, <1>5, <1>6 DEF LinkInv

\* A response is sent.
LEMMA RespondLink == ASSUME LinkInv, Respond PROVE LinkInv'
<1>1. Send(next, TRUE) /\ UNCHANGED <<host, down, mcu>> BY DEF Respond
<1>2. /\ UNCHANGED <<send_seq, receive_seq, last_ack_seq, notified, next>>
      /\ dispatching' = dispatching
  BY <1>1 DEF host, mcu
<1>3. dispatching' \in BOOLEAN BY <1>2, Plain
<1>4. up' \in Seq(Message) /\ SeqInv' /\ UpInv' /\ ToldInv' BY <1>1, <1>2, <1>3, MessageSent
<1>5. DownInv' BY <1>1, <1>2 DEF LinkInv, DownInv, Whole
<1>6. LinkTypes' BY <1>1, <1>2, <1>4 DEF LinkInv, LinkTypes, host
<1>7. /\ Len(up') = Len(up) + 1 /\ Len(up) \in Nat
      /\ \A i \in 1 .. Len(up) : up'[i] = up[i]
      /\ up'[Len(up) + 1].data = TRUE
      /\ \A i \in 1 .. Len(up') : i \in 1 .. Len(up) \/ i = Len(up) + 1
  BY <1>1, <1>2, SendIs
<1>8. \A n : Acks(n) => \A i \in 1 .. Len(up') : ~up'[i].data => up'[i].seq <= n
  BY <1>7 DEF Acks
<1>9. WindowInv' BY <1>1, <1>2, <1>8 DEF LinkInv, WindowInv, Whole, Acks, Met, host
<1> QED BY <1>4, <1>5, <1>6, <1>9 DEF LinkInv

\* The block the firmware waits for begins to run.
LEMMA FindNextLink == ASSUME LinkInv, FindNext PROVE LinkInv'
<1>1. /\ ~dispatching /\ down # <<>> /\ Head(down) # Bad /\ Expected(Head(down))
      /\ next' = next + 1 /\ dispatching' = TRUE /\ UNCHANGED <<host, down, up>>
  BY DEF FindNext
<1>2. UNCHANGED <<send_seq, receive_seq, last_ack_seq, notified, retransmit_seq, down, up>>
  BY <1>1 DEF host
<1>3. Head(down) = next /\ down[1] = next /\ next < send_seq BY <1>1, ExpectedIs
<1>4. 1 \in 1 .. Len(down) BY <1>1, Plain, TailCut
<1>5. SeqInv /\ UpInv /\ DownInv /\ ToldInv /\ WindowInv BY DEF LinkInv
<1>6. receive_seq <= next BY <1>5 DEF SeqInv
<1>7. LinkTypes' BY <1>1, <1>2 DEF LinkInv, LinkTypes
<1>8. SeqInv'
  <2>1. receive_seq <= next + 1 /\ next + 1 <= send_seq BY <1>3, <1>6, Plain
  <2> QED BY <1>1, <1>2, <1>5, <2>1 DEF SeqInv, Met
<1>9. UpInv'
  <2>1. \A i \in 1 .. Len(up) : receive_seq <= up[i].seq /\ up[i].seq <= next + 1
    BY <1>5, Plain DEF UpInv
  <2> QED BY <1>1, <1>2, <1>5, <2>1 DEF UpInv
<1>10. DownInv'
  <2>1. ASSUME NEW i \in 1 .. Len(down), down[i] # Bad
        PROVE  down[i] < send_seq /\ next + 1 < down[i] + SeqNumbers
    <3>1. down[i] < send_seq BY <1>5, <2>1 DEF DownInv, Whole
    <3>2. CASE i = 1 BY <1>3, <3>1, <3>2, Plain, LinkConstants
    <3>3. CASE i # 1
      <4>1. 1 < i BY <3>3, Plain
      <4>2. down[1] < down[i] + MaxPending
        BY <1>1, <1>3, <1>4, <1>5, <2>1, <4>1 DEF DownInv, Whole
      <4> QED BY <1>3, <3>1, <4>2, Plain, LinkConstants
    <3> QED BY <3>2, <3>3
  <2>2. down # <<>> /\ down[1] # Bad /\ down[1] + 1 = next + 1 BY <1>1, <1>3
  <2> QED BY <1>1, <1>2, <1>5, <2>1, <2>2 DEF DownInv, Whole
<1>11. ToldInv'
  <2>1. /\ notified > 1 => notified < next
        /\ \A i \in 1 .. Len(up) : ~up[i].data => up[i].seq <= next
    BY <1>1, <1>5 DEF ToldInv, Done, Acks
  <2>2. (next + 1) - 1 = next BY Plain
  <2> QED BY <1>1, <1>2, <2>1, <2>2 DEF ToldInv, Done, Acks
<1>12. WindowInv'
  <2> SUFFICES ASSUME retransmit_seq = 0 PROVE WindowInv'
    BY <1>2 DEF WindowInv
  <2>1. /\ Len(down) <= Window
        /\ \A i \in 1 .. Len(down) : down[i] # Bad => down[i] + ((Len(down) - i) + 1) <= send_seq
    BY <1>5 DEF WindowInv, Whole
  <2>2. next + ((Len(down) - 1) + 1) <= send_seq BY <1>1, <1>3, <1>4, <2>1
  <2>3. Len(down) + (next + 1) <= send_seq + 1 BY <2>2, Plain
  <2>4. last_ack_seq < next + 1
    <3>1. last_ack_seq <= receive_seq BY <1>5 DEF SeqInv
    <3> QED BY <1>6, <3>1, Plain
  <2>5. \A i \in 1 .. Len(up) : ~up[i].data => up[i].seq <= (next + 1) - 1
    BY <1>5, Plain DEF UpInv
  <2>6. next + 1 <= send_seq BY <1>3, Plain
  <2> QED BY <1>1, <1>2, <2>1, <2>3, <2>4, <2>5, <2>6 DEF WindowInv, Whole, Acks, Met
<1> QED BY <1>7, <1>8, <1>9, <1>10, <1>11, <1>12 DEF LinkInv

-----------------------------------------------------------------------------
(* The line.                                                               *)

\* A block is lost.
LEMMA LoseDownLink == ASSUME LinkInv, LoseDown PROVE LinkInv'
<1>1. PICK i \in OnLine : down' = RemoveAt(down, i) BY DEF LoseDown
<1>2. UNCHANGED <<host, up, mcu>> BY DEF LoseDown
<1>3. /\ UNCHANGED <<send_seq, receive_seq, last_ack_seq, notified, next, up>>
      /\ UNCHANGED <<send_seq, next, retransmit_seq>> /\ dispatching' = dispatching
  BY <1>2 DEF host, mcu
<1>4. i \in 1 .. Len(down) /\ ~(dispatching /\ i = 1) BY Plain DEF OnLine
<1>5. down' \in Seq(Nat) /\ Cut(down, down', i) BY <1>1, <1>4, Plain, RemoveAtCut
<1>6. dispatching' => dispatching /\ i # 1 BY <1>3, <1>4
<1>7. DownInv' /\ WindowInv' BY <1>3, <1>4, <1>5, <1>6, CutDown
<1>8. dispatching' \in BOOLEAN BY <1>3, Plain
<1>9. up' \in Seq(Message) /\ SeqInv' /\ UpInv' /\ ToldInv' BY <1>3, <1>8, NothingSaid
<1>10. LinkTypes' BY <1>3, <1>5 DEF LinkInv, LinkTypes
<1> QED BY <1>7, <1>9, <1>10 DEF LinkInv

\* A block is damaged.
LEMMA DamageDownLink == ASSUME LinkInv, DamageDown PROVE LinkInv'
<1>1. PICK i \in OnLine : down' = [down EXCEPT ![i] = Bad] BY DEF DamageDown
<1>2. UNCHANGED <<host, up, mcu>> BY DEF DamageDown
<1>3. /\ UNCHANGED <<send_seq, receive_seq, last_ack_seq, notified, next, up>>
      /\ UNCHANGED retransmit_seq /\ dispatching' = dispatching
  BY <1>2 DEF host, mcu
<1>4. i \in 1 .. Len(down) /\ ~(dispatching /\ i = 1) BY Plain DEF OnLine
<1>5. /\ down' \in Seq(Nat) /\ Len(down') = Len(down)
      /\ \A j \in 1 .. Len(down) : down'[j] = IF j = i THEN Bad ELSE down[j]
  <2>1. \A q \in Seq(Nat) : \A k \in 1 .. Len(q) : \A e \in Nat : \A t :
          t = [q EXCEPT ![k] = e] =>
            /\ t \in Seq(Nat) /\ Len(t) = Len(q)
            /\ \A j \in 1 .. Len(q) : t[j] = IF j = k THEN e ELSE q[j]
    BY ExceptSeq
  <2>2. down \in Seq(Nat) /\ Bad \in Nat BY Plain DEF Bad
  <2> HIDE DEF Bad
  <2> QED BY <1>1, <1>4, <2>1, <2>2
<1>6. \A j \in 1 .. Len(down) : down'[j] # Bad => down'[j] = down[j] /\ down[j] # Bad BY <1>5
<1>7. DownInv /\ WindowInv BY DEF LinkInv
<1>8. DownInv'
  <2>1. dispatching => down' # <<>> /\ down'[1] = down[1]
    <3> SUFFICES ASSUME dispatching PROVE down' # <<>> /\ down'[1] = down[1] OBVIOUS
    <3>1. 1 \in 1 .. Len(down) BY <1>7, Plain, TailCut DEF DownInv
    <3>2. down'[1] = down[1] BY <1>4, <1>5, <3>1
    <3>3. Len(down') # 0 BY <1>5, <3>1, Plain
    <3> QED BY <3>2, <3>3
  <2> QED BY <1>3, <1>5, <1>6, <1>7, <2>1 DEF DownInv, Whole
<1>9. WindowInv' BY <1>3, <1>5, <1>6, <1>7 DEF WindowInv, Whole, Acks, Met
<1>10. dispatching' \in BOOLEAN BY <1>3, Plain
<1>11. up' \in Seq(Message) /\ SeqInv' /\ UpInv' /\ ToldInv' BY <1>3, <1>10, NothingSaid
<1>12. LinkTypes' BY <1>3, <1>5 DEF LinkInv, LinkTypes
<1> QED BY <1>8, <1>9, <1>11, <1>12 DEF LinkInv

\* A message is lost, or the host does not take it.
LEMMA MessageGone ==
  ASSUME LinkInv, NEW i \in 1 .. Len(up), up' \in Seq(Message), Cut(up, up', i),
         UNCHANGED <<host, down, mcu>>
  PROVE  LinkInv'
<1>1. /\ \A j \in 1 .. Len(up') : \E k \in 1 .. Len(up) : up'[j] = up[k]
      /\ \A j, k \in 1 .. Len(up') : j <= k => up'[j].seq <= up'[k].seq
  BY CutUp
<1>2. UNCHANGED <<send_seq, receive_seq, last_ack_seq, notified, retransmit_seq, next, down,
                  dispatching>>
  BY DEF host, mcu
<1>3. LinkTypes /\ SeqInv /\ UpInv /\ DownInv /\ ToldInv /\ WindowInv BY DEF LinkInv
<1>4. LinkTypes' BY <1>2, <1>3 DEF LinkTypes
<1>5. SeqInv'
  <2>1. ~Met => \A j \in 1 .. Len(up') : up'[j].seq = next BY <1>1, <1>3 DEF SeqInv
  <2> QED BY <1>2, <1>3, <2>1 DEF SeqInv, Met
<1>6. UpInv'
  <2>1. \A j \in 1 .. Len(up') : receive_seq <= up'[j].seq /\ up'[j].seq <= next
    BY <1>1, <1>3 DEF UpInv
  <2> QED BY <1>1, <1>2, <2>1 DEF UpInv
<1>7. DownInv' BY <1>2, <1>3 DEF DownInv, Whole
<1>8. \A n : Acks(n) => \A j \in 1 .. Len(up') : ~up'[j].data => up'[j].seq <= n
  BY <1>1 DEF Acks
<1>9. ToldInv' BY <1>2, <1>3, <1>8 DEF ToldInv, Done, Acks
<1>10. WindowInv' BY <1>2, <1>3, <1>8 DEF WindowInv, Whole, Acks, Met
<1> QED BY <1>4, <1>5, <1>6, <1>7, <1>9, <1>10 DEF LinkInv

\* The line loses a message.
LEMMA LoseUpLink == ASSUME LinkInv, LoseUp PROVE LinkInv'
<1>1. PICK i \in DOMAIN up : up' = RemoveAt(up, i) BY DEF LoseUp
<1>2. i \in 1 .. Len(up) BY Plain
<1>3. up' \in Seq(Message) /\ Cut(up, up', i) BY <1>1, <1>2, Plain, RemoveAtCut
<1>4. UNCHANGED <<host, down, mcu>> BY DEF LoseUp
<1> QED BY <1>2, <1>3, <1>4, MessageGone

-----------------------------------------------------------------------------
(* The host.                                                               *)

\* A block is sent: its number is new, and there is room for it in the window.
LEMMA SendBlockLink == ASSUME LinkInv, SendBlock PROVE LinkInv'
<1>1. /\ CanSend /\ down' = Append(down, send_seq) /\ send_seq' = send_seq + 1
      /\ UNCHANGED <<receive_seq, last_ack_seq, retransmit_seq, notified, up, mcu>>
  BY DEF SendBlock
<1>2. UNCHANGED <<receive_seq, last_ack_seq, retransmit_seq, notified, up, next, dispatching>>
  BY <1>1 DEF mcu
<1>3. LinkTypes /\ SeqInv /\ UpInv /\ DownInv /\ ToldInv /\ WindowInv BY DEF LinkInv
<1>4. /\ down' \in Seq(Nat) /\ Len(down') = Len(down) + 1
      /\ \A i \in 1 .. Len(down) : down'[i] = down[i]
      /\ down'[Len(down) + 1] = send_seq
  BY <1>1, Plain, AppendProperties
<1>5. \A i \in 1 .. Len(down') : i \in 1 .. Len(down) \/ i = Len(down) + 1
  BY <1>4, Plain
<1>6. /\ receive_seq <= next /\ receive_seq <= send_seq /\ receive_seq >= 1
      /\ send_seq - receive_seq < MaxPending /\ last_ack_seq <= receive_seq
      /\ send_seq = receive_seq
         \/ (send_seq - receive_seq + 1 <= Window
             /\ (last_ack_seq < receive_seq => send_seq - receive_seq + 1 + 1 <= Window))
      /\ receive_seq = 1 => send_seq = 1
      /\ ~Met => receive_seq = 1 /\ next <= SeqNumbers
                 /\ \A i \in 1 .. Len(up) : up[i].seq = next
  <2>1. send_seq = receive_seq
        \/ send_seq - receive_seq + 1 + (IF last_ack_seq < receive_seq THEN 1 ELSE 0) <= Window
    BY <1>1 DEF CanSend, SentEmpty
  <2>2. send_seq = receive_seq
        \/ (send_seq - receive_seq + 1 <= Window
            /\ (last_ack_seq < receive_seq => send_seq - receive_seq + 1 + 1 <= Window))
    BY <2>1, Plain, LinkConstants
  <2>3. send_seq - receive_seq < MaxPending /\ (receive_seq = 1 => send_seq = 1)
    BY <1>1 DEF CanSend, SentEmpty
  <2> QED BY <1>3, <2>2, <2>3 DEF SeqInv, LinkTypes
<1>7. LinkTypes' BY <1>1, <1>2, <1>3, <1>4 DEF LinkTypes
<1>8. SeqInv'
  <2>1. receive_seq <= send_seq + 1 /\ send_seq + 1 <= receive_seq + MaxPending
    BY <1>6, Plain
  <2>2. ~(next <= send_seq + 1) => ~Met /\ send_seq + 1 <= 2 BY <1>6, Plain DEF Met
  <2>3. receive_seq = 1 => send_seq + 1 <= 2 BY <1>6
  <2> QED BY <1>1, <1>2, <1>6, <2>1, <2>2, <2>3 DEF SeqInv, Met
<1>9. UpInv' BY <1>2, <1>3 DEF UpInv
<1>10. DownInv'
  <2>1. ASSUME NEW i \in 1 .. Len(down'), down'[i] # Bad
        PROVE  down'[i] < send_seq + 1 /\ next < down'[i] + SeqNumbers
    <3>1. CASE i \in 1 .. Len(down)
      <4>1. down'[i] = down[i] /\ down[i] < send_seq /\ next < down[i] + SeqNumbers
            /\ down[i] \in Nat
        BY <1>3, <1>4, <2>1, <3>1, Plain DEF DownInv, Whole
      <4> QED BY <4>1, Plain
    <3>2. CASE i = Len(down) + 1
      <4>1. next < receive_seq + SeqNumbers BY NextNear
      <4> QED BY <1>4, <1>6, <3>2, <4>1, Plain
    <3> QED BY <1>5, <3>1, <3>2
  <2>2. ASSUME NEW i \in 1 .. Len(down'), NEW j \in 1 .. Len(down'), i < j,
               down'[i] # Bad, down'[j] # Bad
        PROVE  down'[i] < down'[j] + MaxPending
    <3>1. i \in 1 .. Len(down) BY <1>5, <1>4, <2>2, Plain
    <3>2. down'[i] = down[i] /\ down[i] < send_seq /\ down[i] \in Nat
      BY <1>3, <1>4, <2>2, <3>1, Plain DEF DownInv, Whole
    <3>3. CASE j \in 1 .. Len(down)
      BY <1>3, <1>4, <2>2, <3>1, <3>3 DEF DownInv, Whole
    <3>4. CASE j = Len(down) + 1 BY <1>4, <3>2, <3>4, Plain
    <3> QED BY <1>5, <3>3, <3>4
  <2>3. dispatching => down' # <<>> /\ down'[1] # Bad /\ down'[1] + 1 = next
    <3> SUFFICES ASSUME dispatching
                 PROVE  down' # <<>> /\ down'[1] # Bad /\ down'[1] + 1 = next
      OBVIOUS
    <3>1. down # <<>> /\ down[1] # Bad /\ down[1] + 1 = next BY <1>3 DEF DownInv
    <3>2. 1 \in 1 .. Len(down) BY <3>1, Plain, TailCut
    <3>3. down'[1] = down[1] BY <1>4, <3>2
    <3>4. Len(down') # 0 BY <1>4, Plain
    <3> QED BY <3>1, <3>3, <3>4
  <2> QED BY <1>1, <1>2, <2>1, <2>2, <2>3 DEF DownInv, Whole
<1>11. ToldInv' BY <1>2, <1>3 DEF ToldInv, Done, Acks
<1>12. WindowInv'
  <2> SUFFICES ASSUME retransmit_seq = 0 PROVE WindowInv' BY <1>2 DEF WindowInv
  <2>1. /\ \A i \in 1 .. Len(down) : down[i] # Bad => down[i] + ((Len(down) - i) + 1) <= send_seq
        /\ Met => /\ Len(down) + next <= send_seq + 1
                  /\ Len(down) + next = send_seq + 1 => last_ack_seq < next /\ Acks(next - 1)
        /\ ~Met => /\ Len(down) + 1 <= send_seq
                   /\ Len(down) + 1 = send_seq => Acks(0)
    BY <1>3 DEF WindowInv, Whole
  <2>2. Len(down) + 1 <= Window
    <3>1. CASE Met
      <4>1. Len(down) + next <= send_seq + 1 /\ next <= send_seq
            /\ (Len(down) + next = send_seq + 1 => last_ack_seq < next)
        BY <2>1, <3>1 DEF Met
      <4>2. CASE send_seq = receive_seq BY <1>6, <4>1, <4>2, Plain, LinkConstants
      <4>3. CASE send_seq # receive_seq /\ next = receive_seq
        <5>1. /\ send_seq - receive_seq + 1 <= Window
              /\ last_ack_seq < receive_seq => send_seq - receive_seq + 1 + 1 <= Window
          BY <1>6, <4>3, Zenon
        <5>2. CASE Len(down) + next = send_seq + 1
          <6>1. last_ack_seq < receive_seq BY <4>1, <4>3, <5>2
          <6> QED BY <4>3, <5>1, <5>2, <6>1, Plain, LinkConstants
        <5>3. CASE Len(down) + next # send_seq + 1
          <6>1. Len(down) + next <= send_seq BY <4>1, <5>3, Plain
          <6> QED BY <4>3, <5>1, <6>1, Plain, LinkConstants
        <5> QED BY <5>2, <5>3
      <4>4. CASE send_seq # receive_seq /\ next # receive_seq
        BY <1>6, <4>1, <4>4, Plain, LinkConstants
      <4> QED BY <4>2, <4>3, <4>4
    <3>2. CASE ~Met BY <1>6, <2>1, <3>2, Plain, LinkConstants
    <3> QED BY <3>1, <3>2
  <2>3. ASSUME NEW i \in 1 .. Len(down'), down'[i] # Bad
        PROVE  down'[i] + ((Len(down') - i) + 1) <= send_seq + 1
    <3>1. CASE i \in 1 .. Len(down)
      <4>1. down'[i] = down[i] /\ down[i] + ((Len(down) - i) + 1) <= send_seq
            /\ down[i] \in Nat
        BY <1>4, <2>1, <2>3, <3>1, Plain
      <4>2. \A d \in Nat, n \in Nat : d + ((n - i) + 1) <= send_seq
                                   => d + (((n + 1) - i) + 1) <= send_seq + 1
        BY Plain
      <4>3. down[i] + (((Len(down) + 1) - i) + 1) <= send_seq + 1 BY <4>1, <4>2, Plain, Zenon
      <4> QED BY <1>4, <4>1, <4>3
    <3>2. CASE i = Len(down) + 1
      <4>1. send_seq + (((Len(down) + 1) - (Len(down) + 1)) + 1) <= send_seq + 1 BY Plain
      <4> QED BY <1>4, <3>2, <4>1
    <3> QED BY <1>5, <3>1, <3>2
  <2>4. next <= send_seq + 1 =>
          /\ (Len(down) + 1) + next <= (send_seq + 1) + 1
          /\ (Len(down) + 1) + next = (send_seq + 1) + 1 =>
               last_ack_seq < next
               /\ \A i \in 1 .. Len(up) : ~up[i].data => up[i].seq <= next - 1
    <3>1. CASE Met
      <4>1. Len(down) + next <= send_seq + 1
            /\ (Len(down) + next = send_seq + 1 =>
                  last_ack_seq < next
                  /\ \A i \in 1 .. Len(up) : ~up[i].data => up[i].seq <= next - 1)
        BY <2>1, <3>1 DEF Acks
      <4>2. (Len(down) + 1) + next <= (send_seq + 1) + 1 BY <4>1, Plain
      <4>3. (Len(down) + 1) + next = (send_seq + 1) + 1 => Len(down) + next = send_seq + 1
        BY Plain
      <4> QED BY <4>1, <4>2, <4>3
    <3>2. CASE ~Met
      <4> SUFFICES ASSUME next <= send_seq + 1
                   PROVE  /\ (Len(down) + 1) + next <= (send_seq + 1) + 1
                          /\ last_ack_seq < next
                          /\ \A i \in 1 .. Len(up) : ~up[i].data => up[i].seq <= next - 1
        OBVIOUS
      <4>1. receive_seq = 1 /\ send_seq = 1 /\ next = 2 /\ Len(down) = 0
        BY <1>6, <2>1, <3>2, Plain DEF Met
      <4>2. \A i \in 1 .. Len(up) : ~up[i].data => up[i].seq <= 0
        BY <2>1, <3>2, <4>1 DEF Acks
      <4> QED BY <1>6, <4>1, <4>2, Plain
    <3> QED BY <3>1, <3>2
  <2>5. ~(next <= send_seq + 1) =>
          /\ (Len(down) + 1) + 1 <= send_seq + 1
          /\ \A i \in 1 .. Len(up) : (Len(down) + 1) + 1 = send_seq + 1 =>
                                       (~up[i].data => up[i].seq <= 0)
    <3> SUFFICES ASSUME ~(next <= send_seq + 1)
                 PROVE  /\ (Len(down) + 1) + 1 <= send_seq + 1
                        /\ \A i \in 1 .. Len(up) : (Len(down) + 1) + 1 = send_seq + 1 =>
                                                     (~up[i].data => up[i].seq <= 0)
      OBVIOUS
    <3>1. ~Met BY Plain DEF Met
    <3>2. Len(down) + 1 <= send_seq /\ (Len(down) + 1 = send_seq => Acks(0))
      BY <2>1, <3>1
    <3>3. (Len(down) + 1) + 1 <= send_seq + 1 BY <3>2, Plain
    <3>4. (Len(down) + 1) + 1 = send_seq + 1 => Len(down) + 1 = send_seq BY Plain
    <3> QED BY <3>2, <3>3, <3>4 DEF Acks
  <2> QED BY <1>1, <1>2, <1>4, <2>2, <2>3, <2>4, <2>5 DEF WindowInv, Whole, Acks, Met
<1> QED BY <1>7, <1>8, <1>9, <1>10, <1>11, <1>12 DEF LinkInv

\* All pending blocks are sent again.
LEMMA RetransmitLink == ASSUME LinkInv, retransmit_event PROVE LinkInv'
<1>1. /\ down' = down \o sent_queue /\ retransmit_seq' = send_seq
      /\ UNCHANGED <<send_seq, receive_seq, last_ack_seq, notified, up, mcu>>
  BY DEF retransmit_event
<1>2. UNCHANGED <<send_seq, receive_seq, last_ack_seq, notified, next, up, dispatching>>
  BY <1>1 DEF mcu
<1>3. LinkTypes /\ SeqInv /\ DownInv BY DEF LinkInv
<1>4. /\ receive_seq <= send_seq /\ send_seq <= receive_seq + MaxPending /\ receive_seq >= 1
      /\ next < receive_seq + SeqNumbers
  BY <1>3, NextNear DEF SeqInv, LinkTypes
<1> DEFINE n == send_seq - receive_seq
<1>5. n \in Nat BY <1>4, Plain
<1>6. /\ sent_queue \in Seq(Nat) /\ Len(sent_queue) = n
      /\ \A i \in 1 .. n : sent_queue[i] = receive_seq + i - 1
  <2>1. \A i \in 1 .. n : receive_seq + i - 1 \in Nat BY <1>4, <1>5, Plain
  <2>2. sent_queue = [i \in 1 .. n |-> receive_seq + i - 1] BY DEF sent_queue
  <2> HIDE DEF n
  <2>3. sent_queue \in [1 .. n -> Nat] /\ DOMAIN sent_queue = 1 .. n BY <2>1, <2>2
  <2>4. sent_queue \in Seq(Nat) /\ Len(sent_queue) = n BY <1>5, <2>3
  <2> QED BY <2>2, <2>4
<1> HIDE DEF n
<1> DEFINE L == Len(down)
<1>7. /\ down' \in Seq(Nat) /\ Len(down') = L + n
      /\ \A i \in 1 .. L + n : down'[i] = IF i <= L THEN down[i] ELSE sent_queue[i - L]
  <2>1. \A q, r \in Seq(Nat) :
          /\ q \o r \in Seq(Nat) /\ Len(q \o r) = Len(q) + Len(r)
          /\ \A i \in 1 .. Len(q) + Len(r) : (q \o r)[i] = IF i <= Len(q) THEN q[i]
                                                         ELSE r[i - Len(q)]
    BY ConcatProperties
  <2>2. down \in Seq(Nat) /\ sent_queue \in Seq(Nat) BY <1>6, Plain
  <2> QED BY <1>1, <1>6, <2>1, <2>2, Zenon
<1>8. L \in Nat BY Plain
<1>9. \A i \in 1 .. L + n :
        \/ i \in 1 .. L /\ down'[i] = down[i]
        \/ /\ i - L \in 1 .. n /\ down'[i] = receive_seq + (i - L) - 1 /\ i > L
           /\ down'[i] >= receive_seq /\ down'[i] < send_seq /\ down'[i] \in Nat
  <2> SUFFICES ASSUME NEW i \in 1 .. L + n
               PROVE  \/ i \in 1 .. L /\ down'[i] = down[i]
                      \/ /\ i - L \in 1 .. n /\ down'[i] = receive_seq + (i - L) - 1 /\ i > L
                         /\ down'[i] >= receive_seq /\ down'[i] < send_seq /\ down'[i] \in Nat
    OBVIOUS
  <2> HIDE DEF L
  <2>1. CASE i <= L
    <3>1. i \in 1 .. L BY <1>8, <2>1
    <3> QED BY <1>7, <2>1, <3>1
  <2>2. CASE ~(i <= L)
    <3>1. i - L \in 1 .. n /\ i > L BY <1>5, <1>8, <2>2
    <3>2. down'[i] = receive_seq + (i - L) - 1 BY <1>6, <1>7, <2>2, <3>1
    <3>3. \A k \in 1 .. n : receive_seq + k - 1 >= receive_seq /\ receive_seq + k - 1 < send_seq
                           /\ receive_seq + k - 1 \in Nat
      BY <1>4, <1>5, Plain DEF n
    <3> QED BY <3>1, <3>2, <3>3
  <2> QED BY <2>1, <2>2
<1>10. DownInv'
  <2>1. ASSUME NEW i \in 1 .. Len(down'), down'[i] # Bad
        PROVE  down'[i] < send_seq /\ next < down'[i] + SeqNumbers
    <3>1. CASE i \in 1 .. L /\ down'[i] = down[i] BY <1>3, <2>1, <3>1 DEF DownInv, Whole
    <3>2. CASE down'[i] >= receive_seq /\ down'[i] < send_seq /\ down'[i] \in Nat
      <4>1. \A d \in Nat : d >= receive_seq => next < d + SeqNumbers BY <1>4, Plain
      <4> QED BY <3>2, <4>1
    <3> QED BY <1>7, <1>9, <3>1, <3>2
  <2>2. ASSUME NEW i \in 1 .. Len(down'), NEW j \in 1 .. Len(down'), i < j,
               down'[i] # Bad, down'[j] # Bad
        PROVE  down'[i] < down'[j] + MaxPending
    <3>0. i \in 1 .. L + n /\ j \in 1 .. L + n BY <1>7
    <3>1. CASE j \in 1 .. L /\ down'[j] = down[j]
      <4>1. i \in 1 .. L /\ ~(i > L) BY <1>8, <2>2, <3>1
      <4>2. down'[i] = down[i] BY <1>9, <3>0, <4>1
      <4> QED BY <1>3, <2>2, <3>1, <4>1, <4>2 DEF DownInv, Whole
    <3>2. CASE down'[j] >= receive_seq /\ down'[j] \in Nat
      <4>1. down'[i] < send_seq BY <2>1, <2>2
      <4>2. down'[i] \in Nat BY <1>7, <3>0, ElementOfSeq
      <4>3. \A d, e \in Nat : (e >= receive_seq /\ d < send_seq) => d < e + MaxPending
        BY <1>4, Plain
      <4> QED BY <3>2, <4>1, <4>2, <4>3, Zenon
    <3> QED BY <1>9, <3>0, <3>1, <3>2
  <2>3. dispatching => down' # <<>> /\ down'[1] # Bad /\ down'[1] + 1 = next
    <3> SUFFICES ASSUME dispatching
                 PROVE  down' # <<>> /\ down'[1] # Bad /\ down'[1] + 1 = next
      OBVIOUS
    <3>1. down # <<>> /\ down[1] # Bad /\ down[1] + 1 = next BY <1>3 DEF DownInv
    <3>2. 1 \in 1 .. L BY <3>1, Plain, TailCut
    <3>3. 1 \in 1 .. L + n /\ ~(1 > L) BY <1>5, <1>8, <3>2
    <3>4. down'[1] = down[1] BY <1>9, <3>3
    <3>5. Len(down') # 0 BY <1>5, <1>7, <1>8, <3>2
    <3> QED BY <3>1, <3>4, <3>5
  <2> QED BY <1>2, <2>1, <2>2, <2>3 DEF DownInv, Whole
<1>11. dispatching' \in BOOLEAN BY <1>2, Plain
<1>12. up' \in Seq(Message) /\ SeqInv' /\ UpInv' /\ ToldInv' BY <1>2, <1>11, NothingSaid
<1>13. retransmit_seq' # 0 /\ retransmit_seq' \in Nat BY <1>1, <1>4, Plain
<1>14. WindowInv' BY <1>13 DEF WindowInv
<1>15. LinkTypes' BY <1>2, <1>3, <1>7, <1>13 DEF LinkTypes
<1> QED BY <1>10, <1>12, <1>14, <1>15 DEF LinkInv

\* The host takes a message: the number it learns is one that the firmware said.
LEMMA HandleLink == ASSUME LinkInv, handle_message PROVE LinkInv'
<1> DEFINE m == up[1]
           s == m.seq
<1>1. up # <<>> /\ up' = Tail(up) /\ UNCHANGED <<down, mcu>> BY DEF handle_message
<1>2. /\ Rseq(Head(up)) = s /\ Head(up) = m /\ 1 \in 1 .. Len(up) BY <1>1, DecodeIs
<1>3. /\ up' \in Seq(Message) /\ Cut(up, up', 1) BY <1>1, Plain, TailCut
<1>4. CASE UNCHANGED host BY <1>1, <1>2, <1>3, <1>4, MessageGone
<1>5. ASSUME /\ receive_seq' = s
             /\ send_seq' = IF s # receive_seq THEN SendSeqAfter(s) ELSE send_seq
             /\ notified' = Max({notified, Min({WakeSeq(m, s), send_seq' - 1})})
             /\ last_ack_seq' = IF m.data THEN last_ack_seq ELSE Max({last_ack_seq, s})
             /\ UNCHANGED retransmit_seq
      PROVE  LinkInv'
  <2>1. UNCHANGED <<down, next, dispatching, retransmit_seq>> BY <1>1, <1>5 DEF mcu
  <2>2. LinkTypes /\ SeqInv /\ UpInv /\ DownInv /\ ToldInv /\ WindowInv BY DEF LinkInv
  <2>3. s \in Nat /\ m.data \in BOOLEAN /\ receive_seq <= s /\ s <= next
    BY <1>2, <2>2, Plain DEF UpInv
  <2>4. /\ \A j \in 1 .. Len(up') : \E k \in 1 .. Len(up) : up'[j] = up[k]
        /\ \A j, k \in 1 .. Len(up') : j <= k => up'[j].seq <= up'[k].seq
    BY <1>2, <1>3, CutUp
  <2>5. ~Met => s = next /\ receive_seq = 1 /\ send_seq <= 2 BY <1>2, <2>2 DEF SeqInv
  <2>6. ~m.data => s <= Done BY <1>2, <2>2 DEF ToldInv, Acks
  <2>7. /\ receive_seq <= next /\ receive_seq <= send_seq /\ receive_seq >= 1
        /\ send_seq <= receive_seq + MaxPending /\ last_ack_seq <= receive_seq
        /\ receive_seq = 1 => send_seq <= 2
    BY <2>2 DEF SeqInv, LinkTypes
  <2> HIDE DEF s, m
  <2>8. /\ send_seq' \in Nat /\ send_seq <= send_seq' /\ s <= send_seq'
        /\ send_seq' <= s + MaxPending /\ next <= send_seq'
        /\ (Met => send_seq' = send_seq) /\ (~Met => send_seq' = next)
    <3>1. CASE s = receive_seq
      <4>1. send_seq' = send_seq BY <1>5, <3>1
      <4>2. Met BY <2>5, <2>7, <3>1, Plain DEF Met
      <4>3. next <= send_seq BY <4>2 DEF Met
      <4> QED BY <2>3, <2>7, <3>1, <4>1, <4>2, <4>3, Plain
    <3>2. CASE s # receive_seq /\ s > send_seq
      <4>1. send_seq' = s BY <1>5, <3>2 DEF SendSeqAfter
      <4>2. ~Met BY <2>3, <3>2, Plain DEF Met
      <4> QED BY <2>3, <2>5, <3>2, <4>1, <4>2, Plain
    <3>3. CASE s # receive_seq /\ ~(s > send_seq)
      <4>1. send_seq' = send_seq BY <1>5, <3>3 DEF SendSeqAfter
      <4>2. Met BY <2>5, <3>3, Plain DEF Met
      <4>3. next <= send_seq BY <4>2 DEF Met
      <4> QED BY <2>3, <2>7, <3>3, <4>1, <4>2, <4>3, Plain
    <3> QED BY <3>1, <3>2, <3>3
  <2>9. /\ last_ack_seq' \in Int /\ last_ack_seq' <= s
        /\ last_ack_seq' = last_ack_seq \/ (~m.data /\ last_ack_seq' = s)
    <3>1. CASE m.data BY <1>5, <2>3, <2>7, <3>1, Plain
    <3>2. CASE ~m.data
      <4>1. last_ack_seq' \in {last_ack_seq, s} BY <1>5, <2>3, <3>2, MaxOfTwo, Plain
      <4> QED BY <2>3, <2>7, <3>2, <4>1, Plain
    <3> QED BY <3>1, <3>2
  <2>10. s = 1 => send_seq' <= 2
    <3> SUFFICES ASSUME s = 1 PROVE send_seq' <= 2 OBVIOUS
    <3>1. receive_seq = 1 /\ s = receive_seq BY <2>3, <2>7, Plain
    <3>2. send_seq' = send_seq BY <1>5, <3>1
    <3> QED BY <2>7, <3>1, <3>2
  <2>11. notified' \in Int /\ (notified' > 1 => notified' < Done)
    <3> DEFINE w == WakeSeq(m, s)
               v == Min({w, send_seq' - 1})
               d == Done
    <3>1. /\ d \in Int /\ d >= next - 1 /\ (notified > 1 => notified < d)
          /\ ~m.data => s <= d
      BY <2>2, <2>6, Plain DEF Done, ToldInv
    <3>2. MaxSeq \in Nat /\ s >= 1 BY <2>3, <2>7, Plain, MessageLinkAssumption
    <3>3. w \in Int /\ (w < d \/ s = 1)
      <4> HIDE DEF d
      <4>1. CASE m.data /\ s = 1
        <5>1. w = MaxSeq + 1 BY <4>1, <3>2 DEF WakeSeq
        <5> QED BY <3>2, <4>1, <5>1
      <4>2. CASE m.data /\ s # 1
        <5>1. w = s - 2 BY <2>3, <3>2, <4>2 DEF WakeSeq
        <5> QED BY <2>3, <3>1, <5>1, Plain
      <4>3. CASE ~m.data
        <5>1. w = s - 1 BY <2>3, <3>2, <4>3 DEF WakeSeq
        <5> QED BY <2>3, <3>1, <4>3, <5>1, Plain
      <4> QED BY <2>3, <4>1, <4>2, <4>3
    <3> HIDE DEF d, w
    <3>4. send_seq' - 1 \in Int /\ (s = 1 => send_seq' - 1 <= 1)
      <4>1. send_seq' \in Nat BY <2>8
      <4>2. send_seq' - 1 \in Int BY <4>1
      <4>3. ASSUME s = 1 PROVE send_seq' - 1 <= 1
        <5>1. send_seq' <= 2 BY <2>10, <4>3
        <5>2. \A n \in Nat : n <= 2 => n - 1 <= 1 OBVIOUS
        <5> QED BY <4>1, <5>1, <5>2
      <4> QED BY <4>2, <4>3
    <3>5. v \in Int /\ v <= w /\ v <= send_seq' - 1 BY <3>3, <3>4, MinOfTwo
    <3>6. notified' = Max({notified, v}) BY <1>5 DEF v, w
    <3> HIDE DEF v
    <3>7. notified' \in {notified, v} BY <3>5, <3>6, MaxOfTwo, Plain
    <3>8. v > 1 => v < d BY <3>1, <3>3, <3>4, <3>5
    <3>9. notified' \in Int /\ (notified' > 1 => notified' < d)
      BY <3>1, <3>5, <3>7, <3>8, Plain
    <3> QED BY <3>9 DEF d
  <2>12. LinkTypes'
    <3>1. receive_seq' \in Nat /\ receive_seq' >= 1 BY <1>5, <2>3, <2>7, Plain
    <3> QED BY <1>3, <2>1, <2>2, <2>8, <2>9, <2>11, <3>1 DEF LinkTypes
  <2>13. SeqInv' BY <1>5, <2>1, <2>3, <2>8, <2>9, <2>10 DEF SeqInv, Met
  <2>14. UpInv'
    <3>1. \A j \in 1 .. Len(up') : s <= up'[j].seq /\ up'[j].seq <= next
      <4>1. \A k \in 1 .. Len(up) : s <= up[k].seq /\ up[k].seq <= next
        <5> SUFFICES ASSUME NEW k \in 1 .. Len(up) PROVE s <= up[k].seq /\ up[k].seq <= next
          OBVIOUS
        <5>1. 1 <= k BY Plain
        <5> QED BY <1>2, <2>2, <5>1 DEF UpInv, s, m
      <4> QED BY <2>4, <4>1
    <3> QED BY <1>5, <2>1, <2>4, <3>1 DEF UpInv
  <2>15. DownInv'
    <3>1. \A d \in Nat : d < send_seq => d < send_seq' BY <2>8, Plain
    <3>2. \A i \in 1 .. Len(down) : down[i] # Bad => down[i] < send_seq'
      BY <2>2, <3>1, Plain DEF DownInv, Whole
    <3> QED BY <2>1, <2>2, <3>2 DEF DownInv, Whole
  <2>16. \A n : Acks(n) => \A j \in 1 .. Len(up') : ~up'[j].data => up'[j].seq <= n
    BY <2>4 DEF Acks
  <2>17. ToldInv' BY <2>1, <2>2, <2>11, <2>16 DEF ToldInv, Done, Acks
  <2>18. WindowInv'
    <3> SUFFICES ASSUME retransmit_seq = 0 PROVE WindowInv' BY <2>1 DEF WindowInv
    <3>1. /\ Len(down) <= Window
          /\ \A i \in 1 .. Len(down) : down[i] # Bad => down[i] + ((Len(down) - i) + 1) <= send_seq
          /\ Met => /\ Len(down) + next <= send_seq + 1
                    /\ Len(down) + next = send_seq + 1 => last_ack_seq < next /\ Acks(next - 1)
          /\ ~Met => /\ Len(down) + 1 <= send_seq
                     /\ Len(down) + 1 = send_seq => Acks(0)
      BY <2>2 DEF WindowInv, Whole
    <3>2. \A i \in 1 .. Len(down) : down[i] # Bad => down[i] + ((Len(down) - i) + 1) <= send_seq'
      <4>1. \A e \in Int : e <= send_seq => e <= send_seq' BY <2>8, Plain
      <4>2. \A i \in 1 .. Len(down) : down[i] + ((Len(down) - i) + 1) \in Int BY Plain
      <4> QED BY <3>1, <4>1, <4>2
    <3>3. /\ Len(down) + next <= send_seq' + 1
          /\ Len(down) + next = send_seq' + 1 =>
               /\ last_ack_seq' < next
               /\ \A j \in 1 .. Len(up') : ~up'[j].data => up'[j].seq <= next - 1
      <4>1. CASE Met
        <5>1. send_seq' = send_seq BY <2>8, <4>1
        <5>2. Len(down) + next <= send_seq + 1 BY <3>1, <4>1
        <5>3. ASSUME Len(down) + next = send_seq + 1
              PROVE  /\ last_ack_seq' < next
                     /\ \A j \in 1 .. Len(up') : ~up'[j].data => up'[j].seq <= next - 1
          <6>1. last_ack_seq < next /\ Acks(next - 1) BY <3>1, <4>1, <5>3
          <6>2. ~m.data => s <= next - 1 BY <1>2, <6>1 DEF Acks, m, s
          <6>3. ~m.data => s < next BY <2>3, <6>2, Plain
          <6>4. last_ack_seq' < next BY <2>9, <6>1, <6>3
          <6> QED BY <2>16, <6>1, <6>4
        <5> QED BY <5>1, <5>2, <5>3
      <4>2. CASE ~Met
        <5>1. send_seq' = next BY <2>8, <4>2
        <5>2. Len(down) + 1 <= send_seq /\ s = next /\ receive_seq = 1 /\ send_seq <= 2
          BY <2>5, <3>1, <4>2
        <5>3. Len(down) + next <= next + 1 BY <5>2, Plain
        <5>4. next > send_seq BY <4>2, Plain DEF Met
        <5>5. ASSUME Len(down) + next = next + 1
              PROVE  /\ last_ack_seq' < next
                     /\ \A j \in 1 .. Len(up') : ~up'[j].data => up'[j].seq <= next - 1
          <6>1. Len(down) + 1 = send_seq BY <5>2, <5>5, Plain
          <6>2. Acks(0) BY <3>1, <4>2, <6>1
          <6>3. ~m.data => s <= 0 BY <1>2, <6>2 DEF Acks, m, s
          <6>4. m.data BY <2>3, <2>7, <5>2, <5>4, <6>3, Plain
          <6>5. last_ack_seq' = last_ack_seq BY <2>9, <6>4
          <6>6. last_ack_seq < next BY <2>7, <5>4, Plain
          <6>7. Acks(next - 1)
            <7>1. \A e \in Nat : e <= 0 => e <= next - 1 BY <2>7, Plain
            <7> QED BY <6>2, <7>1, Plain DEF Acks
          <6> QED BY <2>16, <6>5, <6>6, <6>7
        <5> QED BY <5>1, <5>3, <5>5
      <4> QED BY <4>1, <4>2
    <3> QED BY <2>1, <2>8, <3>1, <3>2, <3>3 DEF WindowInv, Whole, Acks, Met
  <2> QED BY <2>12, <2>13, <2>14, <2>15, <2>17, <2>18 DEF LinkInv
<1> QED
  <2> HIDE DEF s, m
  <2> QED BY <1>2, <1>4, <1>5 DEF handle_message

-----------------------------------------------------------------------------
(* The theorems.                                                           *)

\* A host that connects, and a firmware that waits for any number.
LEMMA LinkInit == Init => LinkInv
<1> SUFFICES ASSUME Init PROVE LinkInv OBVIOUS
<1>1. /\ send_seq = 1 /\ receive_seq = 1 /\ last_ack_seq = 0 /\ retransmit_seq = 0
      /\ notified = 0 /\ down = <<>> /\ up = <<>> /\ next \in 1 .. SeqNumbers
      /\ dispatching = FALSE
  BY DEF Init
<1>2. Len(down) = 0 /\ Len(up) = 0 /\ down \in Seq(Nat) /\ up \in Seq(Message) BY <1>1
<1>3. next \in Nat /\ 1 <= next /\ next <= SeqNumbers BY <1>1, LinkConstants
<1>4. 1 .. Len(down) = {} /\ 1 .. Len(up) = {} BY <1>2
<1>5. LinkTypes
  <2>1. /\ send_seq \in Nat /\ receive_seq \in Nat /\ receive_seq >= 1
        /\ last_ack_seq \in Int /\ notified \in Int /\ retransmit_seq \in Nat
    BY <1>1
  <2>2. dispatching \in BOOLEAN BY <1>1, Zenon
  <2> QED BY <1>2, <1>3, <2>1, <2>2, Zenon DEF LinkTypes
<1>6. SeqInv BY <1>1, <1>3, <1>4, LinkConstants DEF SeqInv, Met
<1>7. UpInv /\ DownInv BY <1>1, <1>4 DEF UpInv, DownInv
<1>8. ToldInv BY <1>1, <1>3, <1>4 DEF ToldInv, Done, Acks
<1>9. WindowInv BY <1>1, <1>2, <1>3, <1>4, LinkConstants DEF WindowInv, Met, Acks
<1> QED BY <1>5, <1>6, <1>7, <1>8, <1>9 DEF LinkInv

\* Every step preserves the invariant.
LEMMA LinkNext == LinkInv /\ [Next]_vars => LinkInv'
<1> SUFFICES ASSUME LinkInv, [Next]_vars PROVE LinkInv' OBVIOUS
<1>1. CASE SendBlock BY <1>1, SendBlockLink
<1>2. CASE retransmit_event BY <1>2, RetransmitLink
<1>3. CASE handle_message BY <1>3, HandleLink
<1>4. CASE FindBad BY <1>4, FindBadLink
<1>5. CASE FindOther BY <1>5, FindOtherLink
<1>6. CASE FindNext BY <1>6, FindNextLink
<1>7. CASE Respond BY <1>7, RespondLink
<1>8. CASE DispatchDone BY <1>8, DispatchDoneLink
<1>9. CASE DispatchShutdown BY <1>9, DispatchShutdownLink
<1>10. CASE LoseDown BY <1>10, LoseDownLink
<1>11. CASE DamageDown BY <1>11, DamageDownLink
<1>12. CASE LoseUp BY <1>12, LoseUpLink
<1>13. CASE UNCHANGED vars
  <2>1. UNCHANGED <<send_seq, receive_seq, last_ack_seq, notified, retransmit_seq, next,
                    dispatching, down, up>>
    BY <1>13 DEF vars, host, mcu
  <2> QED BY <2>1 DEF LinkInv, LinkTypes, SeqInv, UpInv, DownInv, ToldInv, WindowInv, Met,
                      Whole, Done, Acks
<1> QED BY <1>1, <1>2, <1>3, <1>4, <1>5, <1>6, <1>7, <1>8, <1>9, <1>10, <1>11, <1>12,
           <1>13 DEF Next

\* The inductive invariant holds whatever the line loses or damages: the firmware waits for
\* a number that the host can tell from its few bits, and a block on the line is never
\* older than the bits can tell (command_find_block, handle_message, check_send_command).
\* Where the wake_seq of handle_message wraps, block 1 is the only one sent.
THEOREM LinkInvariance == Spec => []LinkInv
BY LinkInit, LinkNext, PTL DEF Spec

\* command_find_block runs every block once and in order, and handle_message takes every
\* answer for the number it was made from, although the line carries only a few bits of
\* each, for every limit of pending blocks below the range of those bits.
THEOREM NumbersAreRight == Spec => []NumbersRight
<1>1. LinkInv => NumbersRight
  <2> SUFFICES ASSUME LinkInv PROVE NumbersRight OBVIOUS
  <2>1. RunInOrder
    <3> SUFFICES ASSUME dispatching PROVE Head(down) = next - 1 BY DEF RunInOrder
    <3>1. down # <<>> /\ down[1] + 1 = next BY DEF LinkInv, DownInv
    <3>2. Head(down) = down[1] /\ 1 \in 1 .. Len(down) BY <3>1, Plain, TailCut
    <3>3. down[1] \in Nat BY <3>2, Plain
    <3> QED BY <3>1, <3>2, <3>3
  <2>2. AnswersDecode
    <3>1. up # <<>> => Rseq(Head(up)) = Head(up).seq BY DecodeIs, Zenon
    <3> QED BY <3>1, Zenon DEF AnswersDecode
  <2> QED BY <2>1, <2>2 DEF NumbersRight
<1> QED BY <1>1, LinkInvariance, PTL

\* handle_message wakes who waits for a block after the first (raw_send_wait_ack) only when
\* the firmware is done with it, although responses carry the number of the next block
\* before that, and although wake_seq wraps for a response with number 1.
THEOREM SendersToldWhenDone == Spec => []ToldWhenDone
<1>1. LinkInv => ToldWhenDone BY DEF LinkInv, ToldInv, Done, ToldWhenDone
<1> QED BY <1>1, LinkInvariance, PTL

\* check_send_command never overruns the receive buffer of the firmware: as long as nothing
\* had to be sent again, the blocks on the line and in receive_buf fit the receive window,
\* for every window of at least two blocks.
THEOREM WindowIsKept == Spec => []WindowKept
<1>1. LinkInv => WindowKept BY DEF LinkInv, WindowInv, WindowKept
<1> QED BY <1>1, LinkInvariance, PTL
=============================================================================
