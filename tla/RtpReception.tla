---------------------------- MODULE RtpReception ----------------------------
(***************************************************************************)
(* A sender, a datagram network and one RtpDepacketizer.  The sender       *)
(* numbers its packets from a first sequence number and a first timestamp  *)
(* of its choosing, both wrapping; the network loses, duplicates, delays   *)
(* and reorders packets and now and then hands over one that is damaged or *)
(* belongs to another payload type.                                        *)
(***************************************************************************)
EXTENDS RtpDepacketizer, Sequences

CONSTANTS
    FirstTimestamp,     \* timestamp of the sender's first packet
    TimestampStep,      \* samples per packet, 160 for 20 ms at 8 kHz
    MaxSent,            \* bound on the packets the sender sends
    MaxArrivals         \* bound on the packets that reach the depacketizer

ASSUME ReceptionAssumption ==
    /\ FirstTimestamp \in Timestamps32
    /\ TimestampStep \in Nat
    /\ MaxSent \in Nat
    /\ MaxArrivals \in Nat

VARIABLES
    first_sequence,     \* the sender's first sequence number
    sent,               \* how many packets it has sent
    net,                \* the numbers (1, 2, ..) of the packets under way
    rtp,                \* the depacketizer
    accepted            \* the numbers of the packets it accepted, in order

vars == <<first_sequence, sent, net, rtp, accepted>>

SequenceOf(i) == (first_sequence + i - 1) % SequenceMod
TimestampOf(i) == (FirstTimestamp + (i - 1) * TimestampStep) % TimestampMod

PacketOf(i) ==
    [header_ok |-> TRUE, payload_type |-> "Pcmu",
     sequence |-> SequenceOf(i), timestamp |-> TimestampOf(i)]

Init ==
    /\ first_sequence \in Sequences16
    /\ sent = 0
    /\ net = {}
    /\ rtp = NewDepacketizer
    /\ accepted = << >>

Send ==
    /\ sent < MaxSent
    /\ sent' = sent + 1
    /\ net' = net \cup {sent + 1}
    /\ UNCHANGED <<first_sequence, rtp, accepted>>

Lose(i) ==
    /\ net' = net \ {i}
    /\ UNCHANGED <<first_sequence, sent, rtp, accepted>>

\* decode_packet on an intact packet; the network may keep a copy
Deliver(i) ==
    /\ Len(accepted) < MaxArrivals
    /\ net' \in {net, net \ {i}}
    /\ rtp' = AfterPacket(rtp, PacketOf(i), "Pcmu")
    /\ accepted' = Append(accepted, i)
    /\ UNCHANGED <<first_sequence, sent>>

\* decode_packet on a packet that was truncated or is of another payload type
DeliverForeign(i) ==
    /\ net' = net \ {i}
    /\ \E damaged \in {[PacketOf(i) EXCEPT !.header_ok = FALSE],
                       [PacketOf(i) EXCEPT !.payload_type = "Other"]} :
           rtp' = AfterPacket(rtp, damaged, "Pcmu")
    /\ UNCHANGED <<first_sequence, sent, accepted>>

Next ==
    \/ Send
    \/ \E i \in net : Lose(i) \/ Deliver(i) \/ DeliverForeign(i)

Spec == Init /\ [][Next]_vars
-----------------------------------------------------------------------------
\* Types of the depacketizer's fields and of the network.
TypeOK ==
    /\ first_sequence \in Sequences16
    /\ sent \in 0 .. MaxSent
    /\ net \subseteq 1 .. sent
    /\ rtp \in Depacketizers
    /\ accepted \in Seq(1 .. sent)

\* The account of the sequence numbers closes whatever the network does:
\* received and lost packets together are, modulo 2^16, the stretch from the
\* first accepted sequence number to the last, even after the counters wrap
\* (depacketizer.cpp:146).  Reordering and duplicates can only inflate the loss
\* by whole turns of the sequence numbers.
SequenceAccountCloses ==
    accepted # << >> =>
        (rtp.packets_received + rtp.packets_lost
            - (rtp.last_sequence - SequenceOf(accepted[1]) + 1)) % SequenceMod = 0

\* Packets arrive in the order they were sent, each once, none more than a
\* turn of the sequence numbers after the one before.
ArrivedInOrder ==
    \A k \in 1 .. Len(accepted) - 1 :
        /\ accepted[k] < accepted[k + 1]
        /\ accepted[k + 1] - accepted[k] <= SequenceMod

\* While packets arrive in order the loss is exact, wraparound of the sequence
\* number included: the packets lost are those sent between the first and the
\* last accepted that were not accepted.
InOrderLossIsExact ==
    accepted # << >> /\ ArrivedInOrder =>
        rtp.packets_lost =
            (accepted[Len(accepted)] - accepted[1] + 1 - Len(accepted)) % CounterMod

\* The distance fed to the jitter average is the distance between the two last
\* packets accepted, in whichever order they came and across a wrap of the
\* timestamp (the cast to int32_t, depacketizer.cpp:158).
JitterSampleIsTheDistance ==
    LET n == Len(accepted)
        distance == Abs(accepted[n] - accepted[n - 1]) * TimestampStep
    IN  n >= 2 /\ 2 * distance < TimestampMod => rtp.jitter_sample = distance
=============================================================================
