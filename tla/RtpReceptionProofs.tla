------------------------- MODULE RtpReceptionProofs -------------------------
(***************************************************************************)
(* The account of the sequence numbers, for every width of the sequence    *)
(* number and of the counters, every first sequence number, every number   *)
(* of packets and everything the network may do to them.                   *)
(***************************************************************************)
EXTENDS RtpReception, GeneralLemmas

(***************************************************************************)
(* The account, in numbers.                                               *)
(***************************************************************************)

\* A sum of four multiples of S is one.
LEMMA SumOfFour ==
  ASSUME NEW S \in Nat \ {0}, NEW u \in Int, NEW v \in Int, NEW w \in Int, NEW a \in Int,
         u % S = 0, v % S = 0, w % S = 0, a % S = 0
  PROVE  ((v + w) + (u + a)) % S = 0
  <1>1. (v + w) % S = 0 /\ (u + a) % S = 0
    BY ModOfSum
  <1>2. v + w \in Int /\ u + a \in Int
    OBVIOUS
  <1>3. PICK b \in Int, c \in Int : b = v + w /\ c = u + a
    BY <1>2
  <1>4. (b + c) % S = 0
    <2>1. b % S = 0 /\ c % S = 0
      BY <1>1, <1>3
    <2> QED
      BY <2>1, ModOfSum
  <1> QED
    BY <1>3, <1>4

\* Where the change of the account comes from: the gap g, the received counter r
\* and the lost counter l, each against its unwrapped value, and the account
\* before the packet.
LEMMA AccountArithmetic ==
  ASSUME NEW received \in Int, NEW lost \in Int,
         NEW first \in Int, NEW last \in Int, NEW s \in Int,
         NEW g \in Int, NEW r \in Int, NEW l \in Int
  PROVE  r + l - (s - first + 1)
           = ((r - (received + 1)) + (l - (lost + g)))
               + ((g - (s - (last + 1))) + (received + lost - (last - first + 1)))
  OBVIOUS

\* One more packet, in numbers: if the account closes before, it closes after.
LEMMA AccountStep ==
  ASSUME NEW S \in Nat \ {0},
         NEW received \in Int, NEW lost \in Int,
         NEW first \in Int, NEW last \in Int, NEW s \in Int,
         NEW g \in Int, NEW r \in Int, NEW l \in Int,
         (received + lost - (last - first + 1)) % S = 0,
         (g - (s - (last + 1))) % S = 0,
         (r - (received + 1)) % S = 0,
         (l - (lost + g)) % S = 0
  PROVE  (r + l - (s - first + 1)) % S = 0
  <1> DEFINE u == g - (s - (last + 1))
             v == r - (received + 1)
             w == l - (lost + g)
             a == received + lost - (last - first + 1)
  <1>1. u \in Int /\ v \in Int /\ w \in Int /\ a \in Int
    OBVIOUS
  <1>2. u % S = 0 /\ v % S = 0 /\ w % S = 0 /\ a % S = 0
    OBVIOUS
  <1>3. r + l - (s - first + 1) = (v + w) + (u + a)
    BY AccountArithmetic
  <1> HIDE DEF u, v, w, a
  <1>4. ((v + w) + (u + a)) % S = 0
    BY <1>1, <1>2, SumOfFour
  <1> QED
    BY <1>3, <1>4

\* The first packet opens an account that closes.
LEMMA AccountStart ==
  ASSUME NEW S \in Nat \ {0}, NEW C \in Nat \ {0}, C % S = 0,
         NEW s \in Int, NEW r \in Int, r = 1 % C
  PROVE  (r + 0 - (s - s + 1)) % S = 0
  <1>1. (r - 1) % S = 0
    BY ReductionIsMultiple
  <1>2. r + 0 - (s - s + 1) = r - 1
    OBVIOUS
  <1> QED
    BY <1>1, <1>2

(***************************************************************************)
(* Types.                                                                  *)
(***************************************************************************)

\* A packet the sender builds has a sequence number and a timestamp in range.
LEMMA PacketOfTyped ==
  ASSUME TypeOK, NEW i \in Nat
  PROVE  /\ PacketOf(i).sequence = SequenceOf(i)
         /\ PacketOf(i).sequence \in Sequences16
         /\ PacketOf(i).timestamp \in Timestamps32
         /\ Accepts(PacketOf(i), "Pcmu")
  <1>1. first_sequence + i - 1 \in Int
    BY RtpAssumption DEF TypeOK, Sequences16
  <1>2. SequenceOf(i) \in Sequences16
    BY <1>1, RtpAssumption, DivMod DEF SequenceOf, Sequences16
  <1>3. (i - 1) * TimestampStep \in Int
    BY ReceptionAssumption
  <1>4. TimestampOf(i) \in Timestamps32
    BY <1>3, RtpAssumption, ReceptionAssumption, DivMod DEF TimestampOf, Timestamps32
  <1> QED
    BY <1>2, <1>4 DEF PacketOf, Accepts

\* Accepting a packet keeps the fields in range.
LEMMA AcceptTyped ==
  ASSUME NEW r \in Depacketizers, NEW p,
         p.sequence \in Sequences16, p.timestamp \in Timestamps32
  PROVE  Accept(r, p) \in Depacketizers
  <1>1. Gap(r, p.sequence) \in Int
    BY RtpAssumption, DivMod DEF Gap, Depacketizers, Sequences16
  <1>2. /\ (r.packets_received + 1) % CounterMod \in Counters32
        /\ (r.packets_lost + Gap(r, p.sequence)) % CounterMod \in Counters32
    <2>1. /\ r.packets_received + 1 \in Int
          /\ r.packets_lost + Gap(r, p.sequence) \in Int
      BY <1>1 DEF Depacketizers, Counters32
    <2> QED
      BY <2>1, RtpAssumption, DivMod DEF Counters32
  <1>3. SignedDelta(p.timestamp, r.last_timestamp) \in Int
    <2>1. p.timestamp - r.last_timestamp \in Int
      BY DEF Depacketizers, Timestamps32
    <2>2. (p.timestamp - r.last_timestamp) % TimestampMod \in Int
      BY <2>1, RtpAssumption, DivMod
    <2> QED
      BY <2>2, RtpAssumption DEF SignedDelta
  <1>4. Abs(SignedDelta(p.timestamp, r.last_timestamp)) \in Int
    BY <1>3 DEF Abs
  <1>5. r.jitter_sample \in Int
    BY DEF Depacketizers
  <1> QED
    BY <1>2, <1>4, <1>5 DEF Accept, Depacketizers

LEMMA InitType == Init => TypeOK
  BY RtpAssumption, ReceptionAssumption
     DEF Init, TypeOK, NewDepacketizer, Depacketizers, Sequences16, Counters32,
         Timestamps32

\* Every step keeps the types.
LEMMA StepType == TypeOK /\ [Next]_vars => TypeOK'
  <1> SUFFICES ASSUME TypeOK, [Next]_vars
               PROVE  TypeOK'
    OBVIOUS
  <1>1. CASE Send
    BY <1>1, ReceptionAssumption DEF Send, TypeOK
  <1>2. ASSUME NEW i \in net, Lose(i)
        PROVE  TypeOK'
    BY <1>2 DEF Lose, TypeOK
  <1>3. ASSUME NEW i \in net, Deliver(i)
        PROVE  TypeOK'
    <2>1. i \in 1 .. sent /\ i \in Nat
      BY <1>3 DEF TypeOK
    <2>2. rtp' = Accept(rtp, PacketOf(i))
      BY <1>3, <2>1, PacketOfTyped DEF Deliver, AfterPacket
    <2>3. rtp' \in Depacketizers
      BY <2>1, <2>2, PacketOfTyped, AcceptTyped DEF TypeOK
    <2>4. accepted' \in Seq(1 .. sent)
      BY <1>3, <2>1 DEF Deliver, TypeOK
    <2> QED
      BY <1>3, <2>3, <2>4 DEF Deliver, TypeOK
  <1>4. ASSUME NEW i \in net, DeliverForeign(i)
        PROVE  TypeOK'
    BY <1>4 DEF DeliverForeign, AfterPacket, Accepts, PacketOf, TypeOK
  <1>5. CASE UNCHANGED vars
    BY <1>5 DEF vars, TypeOK
  <1> QED
    BY <1>1, <1>2, <1>3, <1>4, <1>5 DEF Next

\* The fields of the depacketizer stay in their widths (depacketizer.hpp:52).
THEOREM TypeCorrect == Spec => []TypeOK
  BY InitType, StepType, PTL DEF Spec

(***************************************************************************)
(* The account.                                                            *)
(***************************************************************************)

\* What the two flags and the last sequence number say of the history
HistoryInv ==
    /\ rtp.has_sequence <=> accepted # << >>
    /\ ~ rtp.has_sequence => rtp.packets_received = 0 /\ rtp.packets_lost = 0
    /\ accepted # << >> =>
           rtp.last_sequence = SequenceOf(accepted[Len(accepted)])

RtpInv == TypeOK /\ HistoryInv /\ SequenceAccountCloses /\ InOrderLossIsExact

\* What one delivery does to the parts of the state the account speaks of.
LEMMA DeliverEffect ==
  ASSUME RtpInv, NEW i \in net, Deliver(i), NEW n, n = Len(accepted)
  PROVE  /\ n \in Nat /\ i \in Nat
         /\ first_sequence' = first_sequence
         /\ Len(accepted') = n + 1 /\ accepted'[n + 1] = i
         /\ \A k \in 1 .. n : accepted'[k] = accepted[k] /\ accepted[k] \in Nat
         /\ accepted' # << >>
         /\ rtp'.has_sequence = TRUE
         /\ rtp'.last_sequence = SequenceOf(i) /\ SequenceOf(i) \in Sequences16
         /\ rtp'.packets_received = (rtp.packets_received + 1) % CounterMod
         /\ rtp'.packets_lost = (rtp.packets_lost + Gap(rtp, SequenceOf(i))) % CounterMod
  <1>1. i \in Nat /\ accepted \in Seq(1 .. sent) /\ TypeOK
    BY DEF RtpInv, TypeOK
  <1>2. rtp' = Accept(rtp, PacketOf(i))
    BY <1>1, PacketOfTyped DEF Deliver, AfterPacket
  <1>3. PacketOf(i).sequence = SequenceOf(i) /\ SequenceOf(i) \in Sequences16
    BY <1>1, PacketOfTyped
  <1>4. accepted' = Append(accepted, i) /\ first_sequence' = first_sequence
    BY DEF Deliver
  <1>5. /\ n \in Nat /\ Len(accepted') = n + 1 /\ accepted'[n + 1] = i
        /\ \A k \in 1 .. n : accepted'[k] = accepted[k] /\ accepted[k] \in Nat
        /\ accepted' # << >>
    <2>1. n \in Nat /\ accepted' = Append(accepted, i)
      BY <1>1, <1>4
    <2>2. Len(accepted') = n + 1 /\ accepted'[n + 1] = i
      BY <1>1, <2>1
    <2>3. \A k \in 1 .. n : accepted'[k] = accepted[k]
      BY <1>1, <2>1
    <2>4. \A k \in 1 .. n : accepted[k] \in 1 .. sent
      BY <1>1, ElementOfSeq
    <2>5. sent \in Nat
      BY <1>1, ReceptionAssumption DEF TypeOK
    <2> QED
      BY <2>1, <2>2, <2>3, <2>4, <2>5
  <1> QED
    BY <1>1, <1>2, <1>3, <1>4, <1>5 DEF Accept

\* The change of received + lost is, modulo SequenceMod, the change of the last
\* sequence number.
LEMMA DeliverKeepsAccount ==
  ASSUME RtpInv, NEW i \in net, Deliver(i)
  PROVE  SequenceAccountCloses'
  <1>n. PICK n : n = Len(accepted)
    OBVIOUS
  <1>s. PICK s : s = SequenceOf(i)
    OBVIOUS
  <1>e. /\ n \in Nat /\ i \in Nat
        /\ first_sequence' = first_sequence
        /\ Len(accepted') = n + 1 /\ accepted'[n + 1] = i
        /\ \A k \in 1 .. n : accepted'[k] = accepted[k] /\ accepted[k] \in Nat
        /\ rtp'.last_sequence = s /\ s \in Sequences16
        /\ rtp'.packets_received = (rtp.packets_received + 1) % CounterMod
        /\ rtp'.packets_lost = (rtp.packets_lost + Gap(rtp, s)) % CounterMod
    BY <1>n, <1>s, DeliverEffect
  <1>t. /\ SequenceMod \in Nat \ {0} /\ CounterMod \in Nat \ {0}
        /\ CounterMod % SequenceMod = 0
        /\ rtp.packets_received \in Int /\ rtp.packets_lost \in Int
        /\ rtp.last_sequence \in Int /\ s \in Int
    BY <1>e, RtpAssumption
       DEF RtpInv, TypeOK, Depacketizers, Counters32, Sequences16
  <1>1. CASE n = 0
    <2>1. ~ rtp.has_sequence /\ rtp.packets_received = 0 /\ rtp.packets_lost = 0
      <3>1. accepted = << >>
        <4>1. accepted \in Seq(1 .. sent)
          BY DEF RtpInv, TypeOK
        <4> QED
          BY <1>n, <1>1, <4>1, EmptySeq
      <3> QED
        BY <3>1 DEF RtpInv, HistoryInv
    <2>2. Gap(rtp, s) = 0
      BY <2>1 DEF Gap
    <2>3. SequenceOf(accepted[1])' = s
      BY <1>e, <1>s, <1>1 DEF SequenceOf
    <2>4. PICK r \in Int : r = 1 % CounterMod
      BY <1>t, DivMod
    <2>5. (r + 0 - (s - s + 1)) % SequenceMod = 0
      BY <1>t, <2>4, AccountStart
    <2>6. 0 % CounterMod = 0
      BY <1>t
    <2>7. rtp'.packets_received = r /\ rtp'.packets_lost = 0 /\ rtp'.last_sequence = s
      BY <1>e, <2>1, <2>2, <2>4, <2>6
    <2> QED
      BY <2>3, <2>5, <2>7 DEF SequenceAccountCloses
  <1>2. CASE n # 0
    <2>1. rtp.has_sequence /\ accepted # << >>
      BY <1>n, <1>e, <1>2 DEF RtpInv, HistoryInv, TypeOK
    <2>f. PICK f : f = SequenceOf(accepted[1])
      OBVIOUS
    <2>2. SequenceOf(accepted[1])' = f
      BY <1>e, <1>2, <2>f DEF SequenceOf
    <2>3. f \in Int
      <3>1. accepted[1] \in Nat
        BY <1>e, <1>2
      <3> QED
        BY <2>f, <3>1, PacketOfTyped DEF RtpInv, Sequences16
    <2>4. (rtp.packets_received + rtp.packets_lost - (rtp.last_sequence - f + 1))
             % SequenceMod = 0
      BY <2>1, <2>f DEF RtpInv, SequenceAccountCloses
    <2>5. Gap(rtp, s) = (s - (rtp.last_sequence + 1)) % SequenceMod
      BY <2>1 DEF Gap
    <2>6. PICK g \in Int : g = Gap(rtp, s)
      BY <1>t, <2>5, DivMod
    <2>7. PICK r \in Int : r = rtp'.packets_received /\ r = (rtp.packets_received + 1) % CounterMod
      <3>1. PICK y \in Int : y = rtp.packets_received + 1
        BY <1>t
      <3>2. y % CounterMod \in Int
        BY <1>t, DivMod
      <3> QED
        BY <1>e, <3>1, <3>2
    <2>8. PICK l \in Int : l = rtp'.packets_lost /\ l = (rtp.packets_lost + g) % CounterMod
      <3>1. PICK z \in Int : z = rtp.packets_lost + g
        BY <1>t
      <3>2. z % CounterMod \in Int
        BY <1>t, DivMod
      <3> QED
        BY <1>e, <2>6, <3>1, <3>2
    <2>x. PICK received \in Int, lost \in Int, last \in Int :
               /\ received = rtp.packets_received
               /\ lost = rtp.packets_lost
               /\ last = rtp.last_sequence
      BY <1>t
    <2>9. (g - (s - (last + 1))) % SequenceMod = 0
      <3>1. s - (last + 1) \in Int /\ SequenceMod % SequenceMod = 0
        BY <1>t
      <3>2. (((s - (last + 1)) % SequenceMod) - (s - (last + 1))) % SequenceMod = 0
        BY <1>t, <3>1, ReductionIsMultiple
      <3> QED
        BY <2>5, <2>6, <2>x, <3>2
    <2>10. (r - (received + 1)) % SequenceMod = 0
      <3>1. received + 1 \in Int
        OBVIOUS
      <3>2. (((received + 1) % CounterMod) - (received + 1)) % SequenceMod = 0
        BY <1>t, <3>1, ReductionIsMultiple
      <3> QED
        BY <2>7, <2>x, <3>2
    <2>11. (l - (lost + g)) % SequenceMod = 0
      <3>1. lost + g \in Int
        OBVIOUS
      <3>2. (((lost + g) % CounterMod) - (lost + g)) % SequenceMod = 0
        BY <1>t, <3>1, ReductionIsMultiple
      <3> QED
        BY <2>8, <2>x, <3>2
    <2>12. (received + lost - (last - f + 1)) % SequenceMod = 0
      BY <2>4, <2>x
    <2>13. (r + l - (s - f + 1)) % SequenceMod = 0
      BY <1>t, <2>3, <2>9, <2>10, <2>11, <2>12, AccountStep
    <2> QED
      BY <1>e, <2>2, <2>7, <2>8, <2>13 DEF SequenceAccountCloses
  <1> QED
    BY <1>1, <1>2, <1>e

\* A packet that arrives in order after n others adds exactly the packets it
\* skipped.
LEMMA DeliverKeepsLoss ==
  ASSUME RtpInv, NEW i \in net, Deliver(i)
  PROVE  InOrderLossIsExact'
  <1> SUFFICES ASSUME ArrivedInOrder'
               PROVE  rtp'.packets_lost =
                        (accepted'[Len(accepted')] - accepted'[1] + 1 - Len(accepted'))
                          % CounterMod
    BY DEF InOrderLossIsExact
  <1>n. PICK n : n = Len(accepted)
    OBVIOUS
  <1>s. PICK s : s = SequenceOf(i)
    OBVIOUS
  <1>e. /\ n \in Nat /\ i \in Nat
        /\ Len(accepted') = n + 1 /\ accepted'[n + 1] = i
        /\ \A k \in 1 .. n : accepted'[k] = accepted[k] /\ accepted[k] \in Nat
        /\ s \in Sequences16
        /\ rtp'.packets_lost = (rtp.packets_lost + Gap(rtp, s)) % CounterMod
    BY <1>n, <1>s, DeliverEffect
  <1>t. SequenceMod \in Nat \ {0} /\ CounterMod \in Nat \ {0} /\ first_sequence \in Int
    BY RtpAssumption DEF RtpInv, TypeOK, Sequences16
  <1>1. CASE n = 0
    <2>1. accepted = << >>
      BY <1>n, <1>1, EmptySeq DEF RtpInv, TypeOK
    <2>2. rtp.packets_lost = 0 /\ Gap(rtp, s) = 0
      BY <2>1 DEF RtpInv, HistoryInv, Gap
    <2>3. accepted'[Len(accepted')] - accepted'[1] + 1 - Len(accepted') = 0
      BY <1>e, <1>1
    <2> QED
      BY <1>e, <2>2, <2>3
  <1>2. CASE n # 0
    <2>a. PICK a \in Nat, b \in Nat : a = accepted[n] /\ b = accepted[1]
      BY <1>e, <1>2
    <2>1. accepted # << >> /\ rtp.has_sequence
      <3>1. accepted # << >>
        BY <1>n, <1>2
      <3> QED
        BY <3>1 DEF RtpInv, HistoryInv
    <2>2. ArrivedInOrder
      <3> SUFFICES ASSUME NEW k \in 1 .. Len(accepted) - 1
                   PROVE  /\ accepted[k] < accepted[k + 1]
                          /\ accepted[k + 1] - accepted[k] <= SequenceMod
        BY DEF ArrivedInOrder
      <3>1. k \in 1 .. n /\ k + 1 \in 1 .. n /\ k \in 1 .. Len(accepted') - 1
        BY <1>n, <1>e
      <3>2. /\ accepted'[k] < accepted'[k + 1]
            /\ accepted'[k + 1] - accepted'[k] <= SequenceMod
        BY <3>1 DEF ArrivedInOrder
      <3> QED
        BY <1>e, <3>1, <3>2
    <2>3. a < i /\ i - a <= SequenceMod
      <3>1. n \in 1 .. Len(accepted') - 1 /\ n \in 1 .. n
        BY <1>e, <1>2
      <3>2. /\ accepted'[n] < accepted'[n + 1]
            /\ accepted'[n + 1] - accepted'[n] <= SequenceMod
        BY <3>1 DEF ArrivedInOrder
      <3> QED
        BY <1>e, <2>a, <3>1, <3>2
    <2>h. PICK h \in 0 .. SequenceMod - 1 : h = i - a - 1
      BY <1>e, <1>t, <2>3
    <2>4. Gap(rtp, s) = h
      <3>x. PICK x \in Int : x = first_sequence + a - 1
        BY <1>t
      <3>1. s = (x + h + 1) % SequenceMod
        <4>1. x + h + 1 = first_sequence + i - 1
          BY <1>e, <1>t, <2>h, <3>x
        <4> QED
          BY <1>s, <4>1 DEF SequenceOf
      <3>2. rtp.last_sequence = x % SequenceMod
        BY <1>n, <2>a, <2>1, <3>x DEF RtpInv, HistoryInv, SequenceOf
      <3>3. (((x + h + 1) % SequenceMod) - ((x % SequenceMod) + 1)) % SequenceMod = h
        BY <1>t, GapOfHop
      <3> QED
        BY <2>1, <3>1, <3>2, <3>3 DEF Gap
    <2>5. rtp.packets_lost = (a - b + 1 - n) % CounterMod
      BY <1>n, <2>a, <2>1, <2>2 DEF RtpInv, InOrderLossIsExact
    <2>6. rtp'.packets_lost = (a - b + 1 - n + h) % CounterMod
      <3>1. PICK c \in Int : c = a - b + 1 - n
        BY <1>e
      <3>2. ((c % CounterMod) + h) % CounterMod = (c + h) % CounterMod
        <4>1. CounterMod \in Nat \ {0} /\ c \in Int /\ h \in Int
          BY <1>t
        <4> QED
          BY ONLY <4>1, ModOfReduced, Zenon
      <3> QED
        BY <1>e, <2>4, <2>5, <3>1, <3>2
    <2>7. accepted'[Len(accepted')] - accepted'[1] + 1 - Len(accepted')
             = a - b + 1 - n + h
      <3>1. accepted'[n + 1] = i /\ accepted'[1] = b /\ Len(accepted') = n + 1
        <4>1. 1 \in 1 .. n
          BY <1>e, <1>2
        <4> QED
          BY <1>e, <2>a, <4>1
      <3>2. h \in Int /\ h = i - a - 1
        BY <2>h, <1>t
      <3>3. i - b + 1 - (n + 1) = a - b + 1 - n + h
        BY <1>e, <3>2
      <3> QED
        BY <3>1, <3>3
    <2> QED
      BY <2>6, <2>7
  <1> QED
    BY <1>1, <1>2

\* A delivery keeps the link between the flags and the history.
LEMMA DeliverKeepsHistory ==
  ASSUME RtpInv, NEW i \in net, Deliver(i)
  PROVE  HistoryInv'
  <1>n. PICK n : n = Len(accepted)
    OBVIOUS
  <1>e. /\ first_sequence' = first_sequence
        /\ Len(accepted') = n + 1 /\ accepted'[n + 1] = i
        /\ accepted' # << >>
        /\ rtp'.has_sequence = TRUE
        /\ rtp'.last_sequence = SequenceOf(i)
    BY <1>n, DeliverEffect
  <1>1. SequenceOf(accepted[Len(accepted)])' = SequenceOf(i)
    BY <1>e DEF SequenceOf
  <1> QED
    BY <1>e, <1>1 DEF HistoryInv

LEMMA InitRtpInv == Init => RtpInv
  <1> SUFFICES ASSUME Init
               PROVE  RtpInv
    OBVIOUS
  <1>1. accepted = << >> /\ rtp = NewDepacketizer
    BY DEF Init
  <1>2. HistoryInv /\ SequenceAccountCloses /\ InOrderLossIsExact
    BY <1>1 DEF HistoryInv, SequenceAccountCloses, InOrderLossIsExact, NewDepacketizer
  <1> QED
    BY <1>2, InitType DEF RtpInv

\* Only a delivery touches what the invariant speaks of.
LEMMA StepRtpInv == RtpInv /\ [Next]_vars => RtpInv'
  <1> SUFFICES ASSUME RtpInv, [Next]_vars
               PROVE  RtpInv'
    OBVIOUS
  <1>t. TypeOK'
    BY StepType DEF RtpInv
  <1>1. ASSUME NEW i \in net, Deliver(i)
        PROVE  RtpInv'
    BY <1>1, <1>t, DeliverKeepsHistory, DeliverKeepsAccount, DeliverKeepsLoss
       DEF RtpInv
  <1>2. CASE UNCHANGED <<first_sequence, rtp, accepted>>
    <2>1. HistoryInv' /\ SequenceAccountCloses' /\ InOrderLossIsExact'
      BY <1>2 DEF RtpInv, HistoryInv, SequenceAccountCloses, InOrderLossIsExact,
                  ArrivedInOrder, SequenceOf
    <2> QED
      BY <1>t, <2>1 DEF RtpInv
  <1>3. CASE Send
    BY <1>2, <1>3 DEF Send
  <1>4. ASSUME NEW i \in net, Lose(i)
        PROVE  RtpInv'
    BY <1>2, <1>4 DEF Lose
  <1>5. ASSUME NEW i \in net, DeliverForeign(i)
        PROVE  RtpInv'
    <2>1. rtp' = rtp
      BY <1>5 DEF DeliverForeign, AfterPacket, Accepts, PacketOf
    <2> QED
      BY <1>2, <1>5, <2>1 DEF DeliverForeign
  <1>6. CASE UNCHANGED vars
    BY <1>2, <1>6 DEF vars
  <1> QED
    BY <1>1, <1>3, <1>4, <1>5, <1>6 DEF Next

\* The inductive invariant holds in every reachable state.
THEOREM RtpInvHolds == Spec => []RtpInv
  BY InitRtpInv, StepRtpInv, PTL DEF Spec

\* However packets are lost, duplicated and reordered, received + lost is the
\* stretch of sequence numbers covered, modulo their number: the loss can only
\* be wrong by whole turns (decode_packet, depacketizer.cpp:146).
THEOREM AccountCorrect == Spec => []SequenceAccountCloses
  <1>1. RtpInv => SequenceAccountCloses
    BY DEF RtpInv
  <1> QED
    BY RtpInvHolds, <1>1, PTL

\* Without reordering the count of lost packets is exact, wraparound included.
THEOREM LossCorrect == Spec => []InOrderLossIsExact
  <1>1. RtpInv => InOrderLossIsExact
    BY DEF RtpInv
  <1> QED
    BY RtpInvHolds, <1>1, PTL

(***************************************************************************)
(* The jitter.                                                             *)
(***************************************************************************)

\* Timestamps less than half a turn apart have the difference of what they were
\* reduced from, whichever of them wrapped round.
LEMMA SignedDeltaExact ==
  ASSUME NEW x \in Int, NEW y \in Int, NEW z \in Int, z = x - y,
         2 * z < TimestampMod, 0 - TimestampMod < 2 * z
  PROVE  SignedDelta(x % TimestampMod, y % TimestampMod) = z
  <1>t. PICK T \in Nat \ {0} : T = TimestampMod
    BY RtpAssumption
  <1>1. PICK u \in Int, v \in Int : u = x % T /\ v = y % T
    BY <1>t, DivMod
  <1>2. PICK d \in Int : d = u - v
    <2>1. u - v \in Int
      BY <1>1
    <2> QED
      BY <2>1
  <1>3. (d - z) % T = 0
    <2>1. (((x % T) - (y % T)) - (x - y)) % T = 0
      BY <1>t, DifferenceOfReduced
    <2> QED
      BY <1>1, <1>2, <2>1
  <1>4. CASE z >= 0
    <2>1. z \in 0 .. T - 1
      BY <1>t, <1>4
    <2>2. d % T = z
      BY <1>2, <1>3, <1>t, <2>1, ModUnique
    <2> QED
      BY <1>1, <1>2, <1>t, <2>2 DEF SignedDelta
  <1>5. CASE z < 0
    <2>1. PICK h \in 0 .. T - 1 : h = z + T
      BY <1>t, <1>5
    <2>2. (d - h) % T = 0
      <3>1. PICK e \in Int, m \in Int : e = d - z /\ m = -1 * T
        OBVIOUS
      <3>2. e % T = 0 /\ m % T = 0
        BY <1>3, <1>t, <3>1, ModOfMultiple
      <3>3. (e + m) % T = 0
        BY <1>t, <3>2, ModOfSum
      <3>4. e + m = d - h
        BY <1>2, <1>t, <2>1, <3>1
      <3> QED
        BY <3>3, <3>4
    <2>3. d % T = h
      BY <1>2, <1>t, <2>1, <2>2, ModUnique
    <2>4. ~ (2 * h < T) /\ h - T = z
      BY <1>t, <2>1
    <2> QED
      BY <1>1, <1>2, <1>t, <2>3, <2>4 DEF SignedDelta
  <1> QED
    BY <1>4, <1>5

\* Two packets a number of steps apart, forwards or backwards, no further than
\* half a turn, are as far apart by their timestamps.
LEMMA DistanceOfPackets ==
  ASSUME NEW a \in Nat, NEW b \in Nat,
         2 * (Abs(a - b) * TimestampStep) < TimestampMod
  PROVE  Abs(SignedDelta(TimestampOf(a), TimestampOf(b))) = Abs(a - b) * TimestampStep
  <1>t. PICK F \in Int, w \in Nat : F = FirstTimestamp /\ w = TimestampStep
    BY ReceptionAssumption DEF Timestamps32
  <1>1. PICK x \in Int, y \in Int, z \in Int :
            /\ x = F + (a - 1) * w /\ y = F + (b - 1) * w
            /\ z = (a - b) * w
    BY <1>t
  <1>2. z = x - y
    <2>1. (a - 1) * w - (b - 1) * w = (a - b) * w
      BY <1>t
    <2>2. (a - 1) * w \in Int /\ (b - 1) * w \in Int
      BY <1>t
    <2> QED
      BY <1>1, <1>t, <2>1, <2>2
  <1>3. Abs(z) = Abs(a - b) * w
    <2>1. CASE a >= b
      <3>1. (a - b) * w >= 0 /\ Abs(a - b) = a - b
        BY <1>t, <2>1 DEF Abs
      <3> QED
        BY <1>1, <3>1 DEF Abs
    <2>2. CASE a < b
      <3>1. (b - a) * w >= 0 /\ Abs(a - b) = b - a /\ (b - a) * w = 0 - ((a - b) * w)
        BY <1>t, <2>2 DEF Abs
      <3> QED
        BY <1>1, <3>1 DEF Abs
    <2> QED
      BY <2>1, <2>2
  <1>4. 2 * z < TimestampMod /\ 0 - TimestampMod < 2 * z
    <2>1. 2 * Abs(z) < TimestampMod /\ TimestampMod \in Int
      BY <1>3, <1>t, RtpAssumption
    <2> QED
      BY <2>1 DEF Abs
  <1>5. SignedDelta(x % TimestampMod, y % TimestampMod) = z
    BY <1>2, <1>4, SignedDeltaExact
  <1>6. TimestampOf(a) = x % TimestampMod /\ TimestampOf(b) = y % TimestampMod
    BY <1>1, <1>t DEF TimestampOf
  <1> QED
    BY <1>3, <1>5, <1>6, <1>t

\* the last timestamp is that of the last packet accepted
JitterInv ==
    /\ rtp.has_timestamp <=> accepted # << >>
    /\ accepted # << >> => rtp.last_timestamp = TimestampOf(accepted[Len(accepted)])
    /\ JitterSampleIsTheDistance

LEMMA DeliverKeepsJitter ==
  ASSUME RtpInv, JitterInv, NEW i \in net, Deliver(i)
  PROVE  JitterInv'
  <1>n. PICK n : n = Len(accepted)
    OBVIOUS
  <1>e. /\ n \in Nat /\ i \in Nat
        /\ Len(accepted') = n + 1 /\ accepted'[n + 1] = i
        /\ \A k \in 1 .. n : accepted'[k] = accepted[k] /\ accepted[k] \in Nat
        /\ accepted' # << >>
    BY <1>n, DeliverEffect
  <1>1. rtp' = Accept(rtp, PacketOf(i)) /\ PacketOf(i).timestamp = TimestampOf(i)
    BY <1>e, PacketOfTyped DEF Deliver, AfterPacket, RtpInv, PacketOf
  <1>2. /\ rtp'.has_timestamp = TRUE /\ rtp'.last_timestamp = TimestampOf(i)
        /\ rtp.has_timestamp =>
              rtp'.jitter_sample = Abs(SignedDelta(TimestampOf(i), rtp.last_timestamp))
    BY <1>1 DEF Accept
  <1>3. (TimestampOf(accepted[Len(accepted)]))' = TimestampOf(i)
    BY <1>e DEF TimestampOf
  <1>4. JitterSampleIsTheDistance'
    <2>0. SUFFICES ASSUME n >= 1,
                         2 * (Abs(accepted'[n + 1] - accepted'[n]) * TimestampStep) < TimestampMod
                  PROVE  rtp'.jitter_sample = Abs(accepted'[n + 1] - accepted'[n]) * TimestampStep
      <3>1. n + 1 - 1 = n /\ (n + 1 >= 2 => n >= 1)
        BY <1>e
      <3>2. PICK m : m = n + 1
        OBVIOUS
      <3>3. Len(accepted') = m /\ m - 1 = n /\ (m >= 2 => n >= 1)
        BY <1>e, <3>1, <3>2
      <3>4. JitterSampleIsTheDistance' <=>
                (m >= 2 /\ 2 * (Abs(accepted'[m] - accepted'[m - 1]) * TimestampStep) < TimestampMod
                    => rtp'.jitter_sample = Abs(accepted'[m] - accepted'[m - 1]) * TimestampStep)
        BY <3>3 DEF JitterSampleIsTheDistance
      <3> QED
        BY <3>2, <3>3, <3>4
    <2>1. PICK b \in Nat : b = accepted[n] /\ accepted'[n] = b
      <3>1. n \in 1 .. n
        BY <1>e, <2>0
      <3> QED
        BY <1>e, <3>1
    <2>2. accepted # << >>
      BY <1>n, <2>0, EmptySeq
    <2>3. rtp.last_timestamp = TimestampOf(b) /\ rtp.has_timestamp
      BY <1>n, <2>1, <2>2 DEF JitterInv
    <2>4. 2 * (Abs(i - b) * TimestampStep) < TimestampMod
      BY <1>e, <2>0, <2>1
    <2>5. Abs(SignedDelta(TimestampOf(i), TimestampOf(b))) = Abs(i - b) * TimestampStep
      BY <1>e, <2>4, DistanceOfPackets
    <2> QED
      BY <1>2, <1>e, <2>1, <2>3, <2>5
  <1> QED
    BY <1>2, <1>3, <1>4, <1>e DEF JitterInv

LEMMA InitJitterInv == Init => JitterInv
  <1> SUFFICES ASSUME Init
               PROVE  JitterInv
    OBVIOUS
  <1>1. accepted = << >> /\ rtp = NewDepacketizer
    BY DEF Init
  <1>2. Len(accepted) = 0
    BY <1>1, EmptySeq
  <1> QED
    BY <1>1, <1>2 DEF JitterInv, JitterSampleIsTheDistance, NewDepacketizer

LEMMA StepJitterInv == RtpInv /\ JitterInv /\ [Next]_vars => JitterInv'
  <1> SUFFICES ASSUME RtpInv, JitterInv, [Next]_vars
               PROVE  JitterInv'
    OBVIOUS
  <1>1. ASSUME NEW i \in net, Deliver(i)
        PROVE  JitterInv'
    BY <1>1, DeliverKeepsJitter
  <1>2. CASE UNCHANGED <<rtp, accepted>>
    BY <1>2 DEF JitterInv, JitterSampleIsTheDistance, TimestampOf
  <1>3. CASE Send
    BY <1>2, <1>3 DEF Send
  <1>4. ASSUME NEW i \in net, Lose(i)
        PROVE  JitterInv'
    BY <1>2, <1>4 DEF Lose
  <1>5. ASSUME NEW i \in net, DeliverForeign(i)
        PROVE  JitterInv'
    <2>1. rtp' = rtp
      BY <1>5 DEF DeliverForeign, AfterPacket, Accepts, PacketOf
    <2> QED
      BY <1>2, <1>5, <2>1 DEF DeliverForeign
  <1>6. CASE UNCHANGED vars
    BY <1>2, <1>6 DEF vars
  <1> QED
    BY <1>1, <1>3, <1>4, <1>5, <1>6 DEF Next

\* The distance fed to the jitter average is that of the last two packets
\* accepted, late ones included and across a wrap of the timestamp, as long as
\* they are less than half its range apart (decode_packet, depacketizer.cpp:158).
THEOREM JitterCorrect == Spec => []JitterSampleIsTheDistance
  <1>1. Init => JitterInv
    BY InitJitterInv
  <1>2. RtpInv /\ JitterInv /\ [Next]_vars => JitterInv'
    BY StepJitterInv
  <1>3. JitterInv => JitterSampleIsTheDistance
    BY DEF JitterInv
  <1> QED
    BY <1>1, <1>2, <1>3, RtpInvHolds, PTL DEF Spec
=============================================================================
