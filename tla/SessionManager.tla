--------------------------- MODULE SessionManager ---------------------------
(***************************************************************************)
(* SessionManager (src/src/core/analyzer.cpp): the map from session ids to *)
(* an analyzer and a depacketizer that every interface shares.  Both       *)
(* operations hold the manager's mutex from beginning to end, so each is   *)
(* one operator from the map to the map.                                   *)
(***************************************************************************)
EXTENDS VoiceAnalyzer, RtpDepacketizer

PcmFormats == {"pcm_s16le_8k", "pcm_s16le_16k"}
RtpFormats == {"rtp_pcmu", "rtp_pcma", "rtp_g722", "rtp_g729"}
Formats == PcmFormats \cup RtpFormats

\* in blocks per second, see VoiceAnalyzer
SampleRateForFormat(format) ==
    IF format \in {"pcm_s16le_16k", "rtp_g722"} THEN 100 ELSE 50

\* G.722 is sampled at 16 kHz but stamped at 8 kHz
RtpClockRateForFormat(format) ==
    IF format = "rtp_g722" THEN 50 ELSE SampleRateForFormat(format)

PayloadType(format) ==
    CASE format = "rtp_pcmu" -> "Pcmu"
      [] format = "rtp_pcma" -> "Pcma"
      [] format = "rtp_g722" -> "G722"
      [] OTHER -> "G729"

\* A payload as the manager gets to read it: whether its length is odd, the
\* RTP packet it is if it is read as one, and the samples in it.
Payloads == [odd : BOOLEAN, packet : Packets, samples : Seq(Blocks)]

NewSession(format) ==
    [analyzer   |-> NewAnalyzer(SampleRateForFormat(format)),
     rtp        |-> NewDepacketizer,
     clock_rate |-> RtpClockRateForFormat(format)]

LossPct(stats) ==
    IF stats.total = 0 THEN 0 ELSE (100 * stats.packets_lost) \div stats.total

JitterMs(stats, clock_rate) == (stats.jitter_sample * 1000) \div clock_rate

\* Seeded fault: a session is kept whatever the format's sample rate
SessionForOfAnyRate(sessions, id, format) ==
    IF id \in DOMAIN sessions THEN sessions[id] ELSE NewSession(format)

\* Seeded fault: the new analyzer of a session keeps the gate of the old one
SessionForKeepingGate(sessions, id, format) ==
    IF id \notin DOMAIN sessions THEN NewSession(format)
    ELSE IF sessions[id].analyzer.sample_rate = SampleRateForFormat(format)
    THEN sessions[id]
    ELSE [NewSession(format) EXCEPT !.analyzer.gate = sessions[id].analyzer.gate]

\* the session a frame goes to: a new one if there is none of that sample rate
SessionFor(sessions, id, format) ==
    IF id \in DOMAIN sessions
           /\ sessions[id].analyzer.sample_rate = SampleRateForFormat(format)
    THEN sessions[id]
    ELSE NewSession(format)

WithSession(sessions, id, session) ==
    [i \in DOMAIN sessions \cup {id} |-> IF i = id THEN session ELSE sessions[i]]

PushPcmPayload(sessions, id, session, payload, timestamp_ms) ==
    LET pushed == PushPcm(session.analyzer, payload.samples, timestamp_ms)
    IN  IF payload.odd
        THEN [sessions |-> WithSession(sessions, id, session), result |-> << >>]
        ELSE [sessions |-> WithSession(sessions, id, [session EXCEPT !.analyzer = pushed.analyzer]),
              result |-> pushed.result]

\* Seeded fault: the analyzer learns of the loss after the samples
PushRtpPacketMetricsLate(sessions, id, session, format, payload, timestamp_ms) ==
    LET expected == PayloadType(format)
        stats    == StatsAfterPacket(session.rtp, payload.packet, expected)
        pcm      == IF Accepts(payload.packet, expected) THEN payload.samples ELSE << >>
        pushed   == PushPcm(session.analyzer, pcm, timestamp_ms)
        measured == SetRtpMetrics(pushed.analyzer, LossPct(stats),
                                  JitterMs(stats, session.clock_rate))
    IN  [sessions |-> WithSession(sessions, id,
                          [session EXCEPT !.analyzer = measured,
                               !.rtp = AfterPacket(@, payload.packet, expected)]),
         result |-> pushed.result]

\* a packet that is not accepted decodes to no samples and to zero statistics,
\* which the analyzer is given all the same
PushRtpPacket(sessions, id, session, format, payload, timestamp_ms) ==
    LET expected == PayloadType(format)
        stats    == StatsAfterPacket(session.rtp, payload.packet, expected)
        pcm      == IF Accepts(payload.packet, expected) THEN payload.samples ELSE << >>
        measured == SetRtpMetrics(session.analyzer, LossPct(stats),
                                  JitterMs(stats, session.clock_rate))
        pushed   == PushPcm(measured, pcm, timestamp_ms)
    IN  [sessions |-> WithSession(sessions, id,
                          [session EXCEPT !.analyzer = pushed.analyzer,
                               !.rtp = AfterPacket(@, payload.packet, expected)]),
         result |-> pushed.result]

PushFrame(sessions, id, format, payload, timestamp_ms) ==
    LET session == SessionFor(sessions, id, format)
    IN  IF format \in RtpFormats
        THEN PushRtpPacket(sessions, id, session, format, payload, timestamp_ms)
        ELSE PushPcmPayload(sessions, id, session, payload, timestamp_ms)

RemoveSession(sessions, id) == [i \in DOMAIN sessions \ {id} |-> sessions[i]]
=============================================================================
