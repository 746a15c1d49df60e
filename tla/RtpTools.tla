------------------------------ MODULE RtpTools ------------------------------
(***************************************************************************)
(* The RTP tools of the HTTP interface (src/src/server/rest_server.cpp):   *)
(* pack-rtp, which encodes PCM and cuts it into numbered packets, and      *)
(* decode-rtp, which gives every packet to a depacketizer of its own.      *)
(* Both ends of G.722 adapt to the signal: a byte is what its encoder has  *)
(* read by then, and a sample is what its decoder has been given by then;  *)
(* what they come to is left out.                                          *)
(***************************************************************************)
EXTENDS AudioFormats, G711, RtpDepacketizer, SequencesExt

\* encode_g722: one encoder, and a byte whenever it has read two more samples; it
\* reads past the end of an odd number of them
EncodeG722(pcm) ==
    [b \in 1 .. (Len(pcm) + 1) \div 2 |->
        [i \in 1 .. 2 * b |-> IF i <= Len(pcm) THEN pcm[i] ELSE Junk]]

\* decode_g722: two samples of each byte, by a decoder that is made for this
\* payload and knows nothing of those before it
DecodeG722(payload) ==
    [i \in 1 .. 2 * Len(payload) |-> SubSeq(payload, 1, (i + 1) \div 2)]

BytesPerFrame(format, frame_ms) ==
    ((SampleRateForFormat(format) * frame_ms) \div 1000) \div 2

BuildRtpPacket(sequence, timestamp, payload_type, payload) ==
    [header_ok |-> TRUE, payload_type |-> payload_type,
     sequence |-> sequence % SequenceMod, timestamp |-> timestamp % TimestampMod,
     payload |-> payload]

\* Seeded fault: a short last frame is left out
CutWhole(encoded, size, payload_type) ==
    [k \in 1 .. Len(encoded) \div size |->
        BuildRtpPacket(k, (k - 1) * size, payload_type,
                       SubSeq(encoded, (k - 1) * size + 1, k * size))]

\* the loop that takes size bytes at a time, and what is left at the end
Slices(bytes, size) ==
    [k \in 1 .. (Len(bytes) + size - 1) \div size |->
        SubSeq(bytes, (k - 1) * size + 1, IF k * size < Len(bytes) THEN k * size ELSE Len(bytes))]

\* Seeded fault: the packets are stamped in samples, not in ticks of the clock
CutStampedInSamples(encoded, size, payload_type) ==
    [k \in 1 .. Len(Slices(encoded, size)) |->
        BuildRtpPacket(k, 2 * (k - 1) * size, payload_type, Slices(encoded, size)[k])]

\* packets of size bytes, numbered from 1 and stamped with the bytes before them
Cut(encoded, size, payload_type) ==
    [k \in 1 .. Len(Slices(encoded, size)) |->
        BuildRtpPacket(k, (k - 1) * size, payload_type, Slices(encoded, size)[k])]

\* both branches that can be reached encode with G.722 and say so in the packet
PackRtpFrames(format, pcm, frame_ms) ==
    Cut(EncodeG722(pcm), BytesPerFrame(format, frame_ms), "G722")

\* the decoder that the format calls for; the tools make no packet of G.729
DecodePayload(format, payload) ==
    CASE format = "rtp_pcmu" -> [i \in 1 .. Len(payload) |-> UlawToLinear(payload[i])]
      [] format = "rtp_pcma" -> [i \in 1 .. Len(payload) |-> AlawToLinear(payload[i])]
      [] OTHER -> DecodeG722(payload)

\* decode_packet of a depacketizer that is fresh: the samples of a packet, if
\* it is one of the payload type that the format calls for
Decoded(format, packet) ==
    IF Accepts(packet, ExpectedPayload(format)) THEN DecodePayload(format, packet.payload)
    ELSE << >>

DecodeRtpFrames(format, frames) ==
    FlattenSeq([k \in 1 .. Len(frames) |-> Decoded(format, frames[k])])
=============================================================================
