--------------------------- MODULE VoiceAnalyzer ---------------------------
(***************************************************************************)
(* VoiceAnalyzer (src/src/core/analyzer.cpp): samples are cut into frames, *)
(* frames are gathered into windows, a full window is measured and judged  *)
(* by the readiness gate, and a batch is the same analyzer fed one frame   *)
(* at a time.  An analyzer is a record of the class's fields.              *)
(*                                                                         *)
(* Audio is a sequence of blocks, stretches of 160 samples that sound the  *)
(* same throughout.  Powers are relative to the quietest block, and a      *)
(* decibel value is rounded down to tens.                                  *)
(***************************************************************************)
EXTENDS SttGate, SequencesExt

CONSTANTS
    FrameMs,                    \* AnalyzerConfig::frame_ms, 20
    WindowMs,                   \* AnalyzerConfig::window_ms, 500
    SpeechEnergyThreshold       \* -40 dBFS

\* a block is 20 ms of audio at 8 kHz, and a frame is made of whole blocks
ASSUME AnalyzerAssumption ==
    /\ FrameMs \in Nat \ {0}
    /\ FrameMs % 20 = 0
    /\ WindowMs \in Nat
    /\ SpeechEnergyThreshold \in Int

MinDb == -60

Blocks == [rms_dbfs : {-60, -50, -40, -30, -20}, clipping_ratio : 0 .. 1000,
           spectral_flatness : 0 .. 1000]

FramesPerWindow == WindowMs \div FrameMs

\* the frames a window closes with: the first one is in it before they are counted
WindowFrames == IF FramesPerWindow > 0 THEN FramesPerWindow ELSE 1

\* sample_rate is in blocks per second: 50 for 8 kHz, 100 for 16 kHz
FrameBlocks(sample_rate) == (sample_rate * FrameMs) \div 1000

\* samples in frames, the last of which may be short
Frames(samples, sample_rate) ==
    LET n == FrameBlocks(sample_rate)
    IN  [i \in 1 .. (Len(samples) + n - 1) \div n |->
            SubSeq(samples, (i - 1) * n + 1, Min({i * n, Len(samples)}))]

SumOver(seq, F(_)) == FoldLeft(LAMBDA sum, x : sum + F(x), 0, seq)

Power(dbfs) == 10 ^ ((dbfs - MinDb) \div 10)

\* 10 * log10(x / y), rounded down to tens and no less than -50
Decibels(x, y) ==
    10 * Max({-5} \cup {k \in 0 .. 4 : x >= y * 10 ^ k}
                  \cup {k \in -4 .. -1 : x * 10 ^ (0 - k) >= y})

NewAnalyzer(sample_rate) ==
    [sample_rate |-> sample_rate, gate |-> NewGate,
     window_buffer |-> << >>, frame_buffer |-> << >>,
     window_start_ms |-> 0, rtp_packet_loss_pct |-> 0, rtp_jitter_ms |-> 0]

SetRtpMetrics(a, packet_loss_pct, jitter_ms) ==
    [a EXCEPT !.rtp_packet_loss_pct = packet_loss_pct, !.rtp_jitter_ms = jitter_ms]

AnalyzeFrame(frame) ==
    LET rms  == MinDb + Decibels(SumOver(frame, LAMBDA b : Power(b.rms_dbfs))
                                     \div Len(frame), 1)
        clip == SumOver(frame, LAMBDA b : b.clipping_ratio) \div Len(frame)
    IN  [rms_dbfs |-> rms, clipping_ratio |-> clip,
         is_speech |-> rms >= SpeechEnergyThreshold /\ clip < 500]

\* the measurements of aggregate_window; the buffer is never empty there
Measured(frames, window_buffer, packet_loss_pct, jitter_ms) ==
    LET n      == Len(frames)
        speech == SelectSeq(frames, LAMBDA f : f.is_speech)
        noise  == SelectSeq(frames, LAMBDA f : ~ f.is_speech)
        Energy(fs) == SumOver(fs, LAMBDA f : Power(f.rms_dbfs))
    IN  [rms_dbfs          |-> SumOver(frames, LAMBDA f : f.rms_dbfs) \div n,
         clipping_ratio    |-> SumOver(frames, LAMBDA f : f.clipping_ratio) \div n,
         silence_ratio     |-> 1000 - (1000 * Len(speech)) \div n,
         snr_estimate_db   |-> IF noise = << >> THEN 40
                               ELSE Decibels(Energy(speech), Energy(noise)),
         spectral_flatness |-> Head(window_buffer).spectral_flatness,
         packet_loss_pct   |-> packet_loss_pct,
         jitter_ms         |-> jitter_ms]

MetricsOf(a) ==
    Measured(a.frame_buffer, a.window_buffer, a.rtp_packet_loss_pct, a.rtp_jitter_ms)

\* what aggregate_window reports of a window once the gate has judged it
WindowReport(a, metrics, gate) ==
    [metrics |-> metrics, window_start_ms |-> a.window_start_ms,
     composite_score |-> CompositeScore(metrics), stt_ready |-> gate.current_state]

\* Seeded fault: the frames of a window are not cleared
ClosedKeepingFrames(a, timestamp_ms, metrics, gate) ==
    [analyzer |-> [a EXCEPT !.gate = gate, !.window_buffer = << >>,
                            !.window_start_ms = timestamp_ms],
     result   |-> <<WindowReport(a, metrics, gate)>>]

\* Seeded fault: the samples of a window are not cleared
ClosedKeepingSamples(a, timestamp_ms, metrics, gate) ==
    [analyzer |-> [a EXCEPT !.gate = gate, !.frame_buffer = << >>,
                            !.window_start_ms = timestamp_ms],
     result   |-> <<WindowReport(a, metrics, gate)>>]

\* the clearing of the buffers that follows aggregate_window
Closed(a, timestamp_ms, metrics, gate) ==
    [analyzer |-> [a EXCEPT !.gate = gate, !.window_buffer = << >>,
                            !.frame_buffer = << >>, !.window_start_ms = timestamp_ms],
     result   |-> <<WindowReport(a, metrics, gate)>>]

Judged(a, timestamp_ms, metrics) ==
    Closed(a, timestamp_ms, metrics, Evaluate(a.gate, metrics))

CloseWindow(a, timestamp_ms) == Judged(a, timestamp_ms, MetricsOf(a))

WithFrame(a, frame) ==
    [a EXCEPT !.frame_buffer  = Append(@, AnalyzeFrame(frame)),
              !.window_buffer = @ \o frame]

\* one turn of the loop of push_pcm; a window that closes replaces the result
TakeFrame(state, frame, timestamp_ms) ==
    IF Len(state.analyzer.frame_buffer) + 1 >= FramesPerWindow
    THEN CloseWindow(WithFrame(state.analyzer, frame), timestamp_ms)
    ELSE [state EXCEPT !.analyzer = WithFrame(@, frame)]

\* push_pcm before its loop
Begun(a, timestamp_ms) ==
    [analyzer |-> [a EXCEPT !.window_start_ms = IF @ = 0 THEN timestamp_ms ELSE @],
     result   |-> << >>]

\* Seeded fault: the loop returns with the first window it completes
TurnsUntilWindow(a, frames, timestamp_ms) ==
    LET turn[i \in 0 .. Len(frames)] ==
            IF i = 0 THEN Begun(a, timestamp_ms)
            ELSE IF turn[i - 1].result # << >> THEN turn[i - 1]
            ELSE TakeFrame(turn[i - 1], frames[i], timestamp_ms)
    IN  turn

\* where the loop of push_pcm stands after each of its turns
Turns(a, frames, timestamp_ms) ==
    LET turn[i \in 0 .. Len(frames)] ==
            IF i = 0 THEN Begun(a, timestamp_ms)
            ELSE TakeFrame(turn[i - 1], frames[i], timestamp_ms)
    IN  turn

\* the analyzer after a push, and the last window it completed, if any
PushPcm(a, samples, timestamp_ms) ==
    LET frames == Frames(samples, a.sample_rate)
    IN  Turns(a, frames, timestamp_ms)[Len(frames)]

NoSegment == -1

\* Seeded fault: a closed segment is left open
SegmentStepLeftOpen(acc, w) ==
    IF w.stt_ready /\ acc.seg_start < 0 THEN [acc EXCEPT !.seg_start = w.window_start_ms]
    ELSE IF ~ w.stt_ready /\ acc.seg_start >= 0
    THEN [acc EXCEPT !.segments = Append(@, <<acc.seg_start, w.window_start_ms>>)]
    ELSE acc

SegmentStep(acc, w) ==
    IF w.stt_ready /\ acc.seg_start < 0 THEN [acc EXCEPT !.seg_start = w.window_start_ms]
    ELSE IF ~ w.stt_ready /\ acc.seg_start >= 0
    THEN [segments |-> Append(acc.segments, <<acc.seg_start, w.window_start_ms>>),
          seg_start |-> NoSegment]
    ELSE acc

\* where the sweep over the windows stands after each of them
Sweep(windows) ==
    LET turn[i \in 0 .. Len(windows)] ==
            IF i = 0 THEN [segments |-> << >>, seg_start |-> NoSegment]
            ELSE SegmentStep(turn[i - 1], windows[i])
    IN  turn

\* the stretches of ready windows; one still open ends with the audio
SttReadySegments(windows, end_ms) ==
    LET acc == Sweep(windows)[Len(windows)]
    IN  IF acc.seg_start >= 0 THEN Append(acc.segments, <<acc.seg_start, end_ms>>)
        ELSE acc.segments

MeanScore(windows) ==
    IF windows = << >> THEN 0
    ELSE SumOver(windows, LAMBDA w : w.composite_score) \div Len(windows)

\* AnalyzeReport, from the windows of a batch
BatchReport(windows, segments) ==
    [windows |-> windows, stt_ready_segments |-> segments,
     composite_score |-> MeanScore(windows), stt_ready |-> segments # << >>]

Collect(state, frame, timestamp_ms) ==
    LET pushed == PushPcm(state.analyzer, frame, timestamp_ms)
    IN  [analyzer |-> pushed.analyzer, windows |-> state.windows \o pushed.result]

\* a fresh analyzer fed one frame at a time, FrameMs apart, and its windows
BatchTurns(frames, sample_rate) ==
    LET turn[i \in 0 .. Len(frames)] ==
            IF i = 0 THEN [analyzer |-> NewAnalyzer(sample_rate), windows |-> << >>]
            ELSE Collect(turn[i - 1], frames[i], (i - 1) * FrameMs)
    IN  turn

BatchWindows(frames, sample_rate) == BatchTurns(frames, sample_rate)[Len(frames)].windows

BatchOf(windows, end_ms) == BatchReport(windows, SttReadySegments(windows, end_ms))

AnalyzePcmBatch(samples, sample_rate) ==
    LET frames == Frames(samples, sample_rate)
    IN  BatchOf(BatchWindows(frames, sample_rate), Len(frames) * FrameMs)
=============================================================================
