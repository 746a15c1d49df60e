-------------------------- MODULE RtpDepacketizer --------------------------
(***************************************************************************)
(* RtpDepacketizer::decode_packet (src/src/rtp/depacketizer.cpp): which    *)
(* packets are accepted, how the 16-bit sequence numbers are turned into a *)
(* count of lost packets, and which timestamp distance is fed to the       *)
(* jitter average.  A depacketizer is a record of the class's fields; the  *)
(* smoothed jitter is represented by the last distance it absorbed.        *)
(***************************************************************************)
EXTENDS Integers

CONSTANTS
    SequenceMod,    \* number of sequence numbers: uint16_t, 2^16
    CounterMod,     \* range of the two counters: uint32_t, 2^32
    TimestampMod    \* range of the RTP timestamp: uint32_t, 2^32

\* A wider counter is a whole number of times round the narrower one.
ASSUME RtpAssumption ==
    /\ SequenceMod \in Nat \ {0}
    /\ CounterMod \in Nat \ {0}
    /\ CounterMod % SequenceMod = 0
    /\ TimestampMod \in Nat \ {0}

Sequences16 == 0 .. SequenceMod - 1
Counters32 == 0 .. CounterMod - 1
Timestamps32 == 0 .. TimestampMod - 1

\* A received datagram: whether parse_header takes it (length, version and
\* CSRC count), and the header fields it then reads.
Packets == [header_ok : BOOLEAN, payload_type : {"Pcmu", "Pcma", "G722", "G729", "Other"},
            sequence : Sequences16, timestamp : Timestamps32]

Depacketizers ==
    [has_sequence : BOOLEAN, last_sequence : Sequences16,
     has_timestamp : BOOLEAN, last_timestamp : Timestamps32,
     packets_received : Counters32, packets_lost : Counters32,
     jitter_sample : Int]

NewDepacketizer ==
    [has_sequence |-> FALSE, last_sequence |-> 0,
     has_timestamp |-> FALSE, last_timestamp |-> 0,
     packets_received |-> 0, packets_lost |-> 0,
     jitter_sample |-> 0]

Accepts(packet, expected) == packet.header_ok /\ packet.payload_type = expected

\* Seeded fault: the gap is counted from the last packet, not from the next one
GapFromLast(r, sequence) ==
    IF r.has_sequence THEN (sequence - r.last_sequence) % SequenceMod ELSE 0

\* packets missing between the last one accepted and this one, in uint16_t
Gap(r, sequence) ==
    IF r.has_sequence THEN (sequence - (r.last_sequence + 1)) % SequenceMod ELSE 0

\* Seeded fault: the distance is taken without wrapping round
PlainDelta(timestamp, last) == timestamp - last

\* the difference of two timestamps, cast to int32_t
SignedDelta(timestamp, last) ==
    LET d == (timestamp - last) % TimestampMod
    IN  IF 2 * d < TimestampMod THEN d ELSE d - TimestampMod

Abs(x) == IF x < 0 THEN 0 - x ELSE x

\* Seeded fault: a late packet does not become the last one seen
AcceptForwardOnly(r, packet) ==
    [r EXCEPT
        !.has_sequence     = TRUE,
        !.last_sequence    = IF packet.sequence > @ THEN packet.sequence ELSE @,
        !.packets_received = (@ + 1) % CounterMod,
        !.packets_lost     = (@ + Gap(r, packet.sequence)) % CounterMod]

\* Seeded fault: the sum of the losses is kept in a wider type
AcceptUnwrapped(r, packet) ==
    [r EXCEPT
        !.has_sequence     = TRUE,
        !.last_sequence    = packet.sequence,
        !.packets_received = (@ + 1) % CounterMod,
        !.packets_lost     = @ + Gap(r, packet.sequence)]

\* the state after an accepted packet
Accept(r, packet) ==
    [has_sequence     |-> TRUE,
     last_sequence    |-> packet.sequence,
     has_timestamp    |-> TRUE,
     last_timestamp   |-> packet.timestamp,
     packets_received |-> (r.packets_received + 1) % CounterMod,
     packets_lost     |-> (r.packets_lost + Gap(r, packet.sequence)) % CounterMod,
     jitter_sample    |-> IF r.has_timestamp
                          THEN Abs(SignedDelta(packet.timestamp, r.last_timestamp))
                          ELSE r.jitter_sample]

\* RtpStats of a result: zeros unless the packet was accepted.  The loss
\* percentage is packets_lost over the sum, a uint32_t that may wrap.
NoStats == [packets_received |-> 0, packets_lost |-> 0, total |-> 0, jitter_sample |-> 0]

StatsOf(r) ==
    [packets_received |-> r.packets_received,
     packets_lost     |-> r.packets_lost,
     total            |-> (r.packets_received + r.packets_lost) % CounterMod,
     jitter_sample    |-> r.jitter_sample]

AfterPacket(r, packet, expected) ==
    IF Accepts(packet, expected) THEN Accept(r, packet) ELSE r

StatsAfterPacket(r, packet, expected) ==
    IF Accepts(packet, expected) THEN StatsOf(Accept(r, packet)) ELSE NoStats
=============================================================================
