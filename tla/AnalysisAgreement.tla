------------------------- MODULE AnalysisAgreement -------------------------
(***************************************************************************)
(* One caller streams audio to a quality session, in messages of its own   *)
(* choosing, and the same audio could have been sent as one batch.  Two    *)
(* ways of streaming are told apart by who stamps the messages: the        *)
(* WebSocket session stamps them itself, by 20 ms per report it has sent   *)
(* (src/src/server/ws_server.cpp), while callers of the gRPC stream and of *)
(* the REST playground send the time of each message along.                *)
(***************************************************************************)
EXTENDS VoiceAnalyzer

CONSTANTS
    SampleRate,      \* blocks per second of the format the caller announced
    Messages,        \* what one message may hold: sequences of blocks
    HandshakeStamps, \* the timestamp_ms a WebSocket handshake may give; 0 when it gives none
    MaxMessages      \* bound on the messages of the caller

ASSUME AgreementAssumption ==
    /\ SampleRate \in {50, 100}
    /\ Messages \subseteq Seq(Blocks)
    /\ HandshakeStamps \subseteq Nat
    /\ MaxMessages \in Nat

VARIABLES
    interface,      \* who stamps the messages
    sent,           \* the messages sent so far
    session,        \* the VoiceAnalyzer of the session
    timestamp_ms,   \* WsSessionConfig::timestamp_ms
    reports         \* the reports the caller got back, in order

vars == <<interface, sent, session, timestamp_ms, reports>>

Init ==
    /\ interface \in {"WebSocket", "CallerStamped"}
    /\ sent = << >>
    /\ session = NewAnalyzer(SampleRate)
    /\ timestamp_ms \in IF interface = "WebSocket" THEN HandshakeStamps ELSE {0}
    /\ reports = << >>

Push(samples, stamp) ==
    LET pushed == PushPcm(session, samples, stamp)
    IN  /\ session' = pushed.analyzer
        /\ reports' = reports \o pushed.result
        /\ sent' = Append(sent, samples)

\* QualityWsSession::on_read after the handshake
WsMessage(samples) ==
    /\ interface = "WebSocket"
    /\ Push(samples, timestamp_ms)
    /\ timestamp_ms' = IF Len(reports') > Len(reports) THEN timestamp_ms + 20
                       ELSE timestamp_ms
    /\ UNCHANGED interface

Audio == FlattenSeq(sent)

AudioMs == (Len(Audio) * 1000) \div SampleRate

\* a turn of AnalyzeStream, or of the loop of the playground's analyze-stream;
\* the caller's clock is the position of the message in the audio
StampedMessage(samples) ==
    /\ interface = "CallerStamped"
    /\ Push(samples, AudioMs)
    /\ UNCHANGED <<interface, timestamp_ms>>

Next ==
    /\ Len(sent) < MaxMessages
    /\ \E samples \in Messages : WsMessage(samples) \/ StampedMessage(samples)

Spec == Init /\ [][Next]_vars
-----------------------------------------------------------------------------
Batch == AnalyzePcmBatch(Audio, SampleRate)

\* Every message but the last is made of whole frames.
WholeFrames ==
    \A i \in 1 .. Len(sent) - 1 : Len(sent[i]) % FrameBlocks(SampleRate) = 0

\* No message is longer than a window.
OneWindowEach ==
    \A i \in 1 .. Len(sent) :
        Len(sent[i]) <= FrameBlocks(SampleRate) * FramesPerWindow

Judgement(report) == [report EXCEPT !.window_start_ms = 0]

SameJudgements(some, others) ==
    /\ Len(some) = Len(others)
    /\ \A i \in 1 .. Len(some) : Judgement(some[i]) = Judgement(others[i])

Within(ms, segment) == segment[1] <= ms /\ ms < segment[2]

OrderedSegments(segments) ==
    /\ \A k \in 1 .. Len(segments) :
           segments[k][1] < segments[k][2] /\ segments[k][2] < AudioMs + FrameMs
    /\ \A k \in 1 .. Len(segments) - 1 : segments[k][2] < segments[k + 1][1]

\* the windows that start inside a segment are those judged ready
SegmentsCover(windows, segments) ==
    \A i \in 1 .. Len(windows) :
        windows[i].stt_ready <=> \E k \in 1 .. Len(segments) :
                                     Within(windows[i].window_start_ms, segments[k])

WellSegmented(batch) ==
    /\ OrderedSegments(batch.stt_ready_segments)
    /\ SegmentsCover(batch.windows, batch.stt_ready_segments)

\* what the handshake set the clock to, from where the clock is now
HandshakeMs == timestamp_ms - 20 * Len(reports)

\* the frames an analyzer holds are those its samples make
HoldsItsFrames(a) ==
    LET frames == Frames(a.window_buffer, a.sample_rate)
    IN  a.frame_buffer = [i \in 1 .. Len(frames) |-> AnalyzeFrame(frames[i])]

\* Types of what surrounds the session's analyzer, and the state of its window
\* between messages: it is never full, and the frames of a caller that sends
\* whole frames are those the samples of the window make, one by one.  The clock
\* of a WebSocket session is 20 ms per report past what its handshake said.
TypeOK ==
    /\ interface \in {"WebSocket", "CallerStamped"}
    /\ sent \in Seq(Messages)
    /\ session.gate \in Gates
    /\ session.window_start_ms \in Nat
    /\ Len(session.frame_buffer) < WindowFrames
    /\ WholeFrames => HoldsItsFrames(session)
    /\ IF interface = "WebSocket" THEN HandshakeMs \in HandshakeStamps
       ELSE timestamp_ms = 0

\* A caller that sends whole frames, and no more than a window at a time, hears
\* for every window what the batch of the same audio says of it: the same
\* measurements, score and readiness, however the audio was cut into messages.
StreamJudgesLikeBatch ==
    WholeFrames /\ OneWindowEach => SameJudgements(reports, Batch.windows)

\* The segments of a batch are in order, apart from one another and inside the
\* audio, and hold the start of exactly the windows that were judged ready
\* (the sweep at the end of analyze_pcm_batch).  With fewer than three frames to
\* a window two windows start at the same time, and nothing tells them apart.
SegmentsAreTheReadyWindows == FramesPerWindow >= 3 => WellSegmented(Batch)

\* A WebSocket session answers with a report for every window of 500 ms
\* (docs/spec/plan.md:183).
ReportForEveryWindow ==
    interface = "WebSocket" /\ WholeFrames => Len(reports) = Len(Batch.windows)
=============================================================================
