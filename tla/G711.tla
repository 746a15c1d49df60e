-------------------------------- MODULE G711 --------------------------------
(***************************************************************************)
(* The two G.711 codes as the service decodes them                         *)
(* (src/src/rtp/depacketizer.cpp) and as the tester page encodes and       *)
(* decodes them (src/tester-web/src/lib/g711.ts).  A byte is a number      *)
(* below 256: a sign, a segment of three bits and a step of four.          *)
(***************************************************************************)
EXTENDS Integers

\* what an int16_t, or a place of an Int16Array, holds
Samples16 == -32768 .. 32767

Magnitude(sample) == IF sample < 0 THEN 0 - sample ELSE sample

Segment(byte) == (byte \div 16) % 8

Step(byte) == byte % 16

\* the exclusive or of a byte with 0x55: every second bit is inverted
Flip(byte) ==
    LET Toggled(weight) == weight * (1 - 2 * ((byte \div weight) % 2))
    IN  byte + Toggled(1) + Toggled(4) + Toggled(16) + Toggled(64)

\* the table of ulaw_to_linear, by the formula the page builds the same table with
UlawToLinear(byte) ==
    LET u     == 255 - byte
        value == (8 * Step(u) + 132) * 2 ^ Segment(u) - 132
    IN  IF u >= 128 THEN 0 - value ELSE value

\* alaw_to_linear: the bits are inverted, and those below the sign once more
AlawToLinear(byte) ==
    LET alaw == Flip(byte)
        t    == Flip(alaw % 128)
        value == IF Segment(t) = 0 THEN 16 * Step(t) + 8
                 ELSE (16 * Step(t) + 264) * 2 ^ (Segment(t) - 1)
    IN  IF alaw >= 128 THEN value ELSE 0 - value

\* The value that ITU-T G.711 gives to a byte of an A-law packet.
AlawValue(byte) ==
    LET alaw  == Flip(byte)
        value == IF Segment(alaw) = 0 THEN 16 * Step(alaw) + 8
                 ELSE (16 * Step(alaw) + 264) * 2 ^ (Segment(alaw) - 1)
    IN  IF alaw >= 128 THEN value ELSE 0 - value

\* Five significant bits of a sample are left of it, there and back.
Near(played, recorded) == Magnitude(played - recorded) <= 8 + (Magnitude(recorded) \div 16)

-----------------------------------------------------------------------------
(***************************************************************************)
(* The page.                                                               *)
(***************************************************************************)
Clipped(magnitude) == IF magnitude > 32635 THEN 32635 ELSE magnitude

\* searchSegment: the first segment that ends at or after the magnitude
SearchSegment(magnitude) ==
    CHOOSE s \in 0 .. 8 :
        /\ s = 8 \/ magnitude < 2 ^ (8 + s)
        /\ s = 0 \/ magnitude >= 2 ^ (7 + s)

LinearToMulaw(sample) ==
    LET magnitude == Clipped(Magnitude(sample)) + 132
        segment   == SearchSegment(magnitude)
    IN  255 - ((IF sample < 0 THEN 128 ELSE 0) + 16 * segment
               + ((magnitude \div 2 ^ (segment + 3)) % 16))

\* the sign of this encoder is the opposite of that of G.711
LinearToAlaw(sample) ==
    LET magnitude == Clipped(Magnitude(sample))
        segment   == SearchSegment(magnitude)
        width     == IF segment < 2 THEN 4 ELSE segment + 3
    IN  Flip(16 * segment + ((magnitude \div 2 ^ width) % 16))
        + (IF sample < 0 THEN 128 ELSE 0)

\* a byte of decodePcma, which takes the second segment for the first
PageAlawToLinear(byte) ==
    LET a     == Flip(byte)
        value == IF Segment(a) < 2 THEN 16 * Step(a) + 8
                 ELSE (16 * Step(a) + 264) * 2 ^ (Segment(a) - 1)
    IN  IF a >= 128 THEN 0 - value ELSE value
=============================================================================
