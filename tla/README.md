# voiceqas in TLA+

voiceqas judges the quality of telephone audio and decides when it is good
enough to be transcribed (`stt_ready`), and transcribes it with two embedded
recognizers. Audio comes in over REST, WebSocket and gRPC, as PCM or as RTP.
This directory holds a model of its logic, the configurations that check the
model on small instances, and proofs of what matters most. `PROJECT.json` maps
every definition to the lines it stands for and lists the hazards the
properties are aimed at. Paths are relative to the repository; the C++ sources
are in its `src/`.

## Inventory

| Component | State | Operations | What makes it hard | What makes it correct |
|---|---|---|---|---|
| `SttGate` (core/stt_gate.cpp) | two counters, the state | evaluate, reset | a long history folded into three fields | the state is what the history calls for; better audio never scores lower |
| `RtpDepacketizer` (rtp/depacketizer.cpp) | last sequence and timestamp, counters, jitter | decode_packet, reset | loss, reordering, duplicates, four wraparounds | the loss is exact in order, and off by whole turns otherwise |
| `VoiceAnalyzer` (core/analyzer.cpp) | frames and samples of the open window, its start, the gate, RTP metrics | push_pcm, analyze_pcm_batch, set_rtp_metrics, reset | one push may close no, one or many windows | streaming judges like a batch; segments are the ready windows |
| `SessionManager` (core/analyzer.cpp) | sessions by id: analyzer, depacketizer | push_frame, remove_session, analyze_batch | ids shared by callers, renewal on a new sample rate | windows of one rate, readiness earned, nothing left of who finished |
| quality interfaces (server/) | per connection: handshake, format, clock | handshake, frame, close, error, exception | three interfaces, three ways to end | the same audio gets the same report |
| `SttEngine` (stt/engine.cpp) | two recognizers, a mutex | transcribe_pcm16 | two attempts that may each hear, not hear or fail | blank only after both models; one decode at a time |
| `SttSessionManager` (stt/session_manager.cpp) | sessions by id: audio, options | bind, append, flush, remove, transcribe_batch | work on both sides of the lock | audio transcribed once, whole, in order; every flush answered or, over a WebSocket, known to be swallowed |
| transcription interfaces (server/) | per connection: handshake | handshake, chunk, flush, close, error | one thread for all WebSockets, blocked by a decode | as above |
| process (server/main.cpp) | threads, the signal flag | start, signal, join | joins of threads nobody stops | a signal ends the process |
| one-shot requests (rest_server.cpp, grpc_server.cpp, model_util.cpp) | none of their own; the configuration, the loaded models | analyze, transcribe, ready, on eight endpoints | each endpoint names format, rate, model and language in its own way | what is handed on is what was sent and asked for; ready tells what answers |
| configuration (core/config.cpp) | `g_config` | load_config | a file that breaks off, the environment over it | what an operator set is what counts |
| WAV parser (core/wav.cpp) | none | parse_wav | sizes the file declares, padding, channels | no read outside the file; the first channel |
| RTP tools (rest_server.cpp) | none | pack-rtp, decode-rtp | short frames, odd numbers of samples, stamps | a round trip; a stream whose loss can be counted |
| codecs (rtp/depacketizer.cpp, g722_codec.cpp, tester-web lib/g711.ts) | none | encode, decode | bit inversions, segments | what is heard is what was said |
| tester page (tester-web/src) | recording, settings, object URLs, requests under way | record, change settings, compare, stream | answers that come late or out of order, cleanups with old values | the newest preview is shown; what was replaced is released |

The interfaces call the two managers and share nothing else: no messages pass
between connections, but ids are the clients' choice, with defaults, so that
any two callers may meet in a session. The quality manager holds its mutex for
a whole push; the transcription manager holds it only while it touches the map,
and the engine has a mutex of its own. WebSocket connections run on one
`io_context` thread; gRPC and REST have a thread per call. The one-shot requests
make an analyzer of their own or call the engine, and keep nothing. The tester
page is a client of these interfaces and of the RTP tools. Nothing is persisted:
there is no recovery to model.

## Modules

- `SttGate` – the gate's operators, on records of its fields. `SttGateHistory`
  is one gate with the list of the windows it judged; `EvaluateWindow` and
  `Reset` are `evaluate` and `reset`.
- `RtpDepacketizer` – `decode_packet` on records: `Accepts` is its two early
  returns, `Accept` its updates, `StatsOf` the statistics. `RtpReception` puts
  a sender and a network around it (both external): `Send`, `Lose`, `Deliver`
  (with or without keeping a copy, in any order), `DeliverForeign`.
- `VoiceAnalyzer` – extends `SttGate`. Audio is a sequence of *blocks*, each
  standing for 160 samples that sound the same; `PushPcm` folds `TakeFrame`
  over the frames, `CloseWindow` and `Closed` are `aggregate_window` with the clearing of the
  buffers, `AnalyzePcmBatch` the batch with its segments.
  `AnalysisAgreement` streams messages through an analyzer the way the
  WebSocket session does (its own clock, which starts at the handshake's
  `timestamp_ms`) or the way callers who stamp their frames do, and compares with the batch of the same audio.
- `SessionManager` – extends `VoiceAnalyzer` and `RtpDepacketizer`: `PushFrame`
  and `RemoveSession` as functions from map to map, since both hold the mutex
  throughout. `QualityStreams` adds everybody who calls them.
- `SttEngine` – which model, when the other one, and what of both results.
  `SttSessions` extends it with the sessions, the callers and the two mutexes.
  A call is cut where the code can be interrupted: *Appending* (audio prepared,
  lock not taken), *Flushing*, *Waiting* (for the engine), *Decoding*,
  *FallingBack*, *Replying*. `CanStart` is the one io_context thread: a
  WebSocket handler starts only when no other one is under way. What the
  `catch (...)` of a WebSocket's commands swallows (ws_server.cpp:236) is in
  `WsFlushUnread`, a flush whose fields are no strings, and `SwallowReply`, a
  transcript that `dump()` cannot write; over HTTP the same throw is answered with
  an error (`Tellable`).
- `TranscriptDelivery` – what `SttSessions` promises, without locks, threads or
  engine: say, collect, tell, withdraw, and miss, for those who may miss an answer
  (the WebSockets). `SttSessions!Promise` maps the sessions
  onto it.
- `ServerLifecycle` – main, the threads of the three servers, the signal.
- `AudioFormats`, `G711`, `RtpTools`, `WavFile`, `Configuration` – pure: names
  and rates of the formats, both G.711 codes bit by bit, packing and unpacking
  (extends `RtpDepacketizer` for which packets are accepted), `parse_wav` on a
  file that is a size and a list of chunks (`HoldsRecording`: one that a careful
  writer made), `load_config` on functions from keys
  to texts.
- `RequestReading` – what each handler makes of a request: `ReadUpload`,
  `ReadSegment`, `ReadPlayground`, `ReadMessage` the audio, `OptionsFromRequest` and
  `OptionsFromMessage` the model and the language; and, apart from the handlers, what
  a request means when its caller does as the interfaces ask (`Means`). A body in an
  RTP format is its packets one behind the other, and `ReadAsOne` is what the single
  `decode_packet` makes of them: the first header, and everything else as payload.
- `ServiceRequests` – one run of the process as a script sees it: `Configure`,
  `Abort`, `LoadModels` are the start of main, then an action for each endpoint.
  The last request stays in `exchange` with what was handed on and answered. It
  instantiates `SttEngine` with the models that were loaded.
- `TesterPage` – extends `ServiceRequests` with the page: `Record`, `ChangeConfig`,
  `PreviewArrives`, `PreviewFails`, `GenerateVariants`, `VariantsArrive`,
  `VariantsFail` on the panel (a React commit with its effects is one action,
  since nothing else of the page runs in between), `AnalyzeWebSocket`, `SendFrame`,
  `SkipFrame`, `CloseAnalysis` on the stream, which ends in the `AfterPacket` of a
  depacketizer. Object URLs are numbers into `page.urls`; every run of the
  preview's effect has an age, and the flag `cancelled` is that a request's age
  is not the page's. `Next` lets either the script or the page use a run of the
  process: their requests do not meet in any state (`PageImplementsService`).
- `SttGateProofs`, `VoiceAnalyzerProofs`, `AnalysisAgreementProofs`,
  `RtpReceptionProofs`, `QualityStreamsProofs`, `SttSessionsProofs`,
  `TesterPageProofs` – theorems; `GeneralLemmas` – what they need of numbers,
  induction and sequences.
- `MC*` – what TLC needs: sets of windows, messages, sounds, symmetry.

An operator whose comment begins with "Seeded fault" is no part of the model:
it is the definition after it with a plausible mistake, and a property must
find it out (`PROJECT.json`, "mutants").

### What is abstracted

- Decibels, ratios and scores are whole numbers: ratios and points in
  thousandths, decibels in units in the gate and in tens in the analyzer, with
  -60 for the quietest audio. Orders and limits are kept; rounding is not.
- The spectrum of a window is that of its first block (the code looks at the
  first 64 samples). The peak level is left out: it is only reported.
- The smoothed jitter is represented by the distance last fed to it.
- Transcription audio is a chunk per call, opaque; resampling and codecs do not
  move it between sessions. Chunks hold whole samples.
- The recognizers may hear text, hear nothing or fail, each time anew.
- On the page resampling picks samples: recordings have a rate that the codec's
  divides, as 48 kHz, the one that the recorder asks for, does, and there the linear
  interpolation falls on samples. The page computes in floating point and truncates,
  which may move a sample by one unit, and a device or a file may have another rate
  (44.1 kHz: useRecorder.ts:10, audio.ts:45), where it mixes two neighbours; neither
  is modelled. The simulated clipping is left out.
- G.711 is exact. Both ends of G.722 adapt to the signal. The model keeps what each
  has to go by and leaves out the arithmetic: a byte is the samples that the encoder,
  which runs over the whole recording, had read when it wrote it (`EncodeG722`), and
  a sample is the bytes that its decoder, which decode-rtp makes anew for every packet
  (rest_server.cpp:186), had been given by then (`DecodeG722`). What values a decoder
  comes to that has not the encoder's state is not in the model, and no property
  speaks of it.
- The twelve bytes of a header that is decoded as audio are all taken for its first.
- Texts are whole: names in other than lower case, and headers that are no
  number, are left out. A text that cannot be converted is `Unreadable`.
- In one-shot transcriptions the resampling to the engine's rate is left out.
- Timestamps that callers send to shared sessions are zero in `QualityStreams`
  (no property there is about them) and the audio's own position in
  `AnalysisAgreement`.

## Runs

| Run | Question and bounds |
|---|---|
| `stt_gate` | Six windows: a clean one, and ones that fail one threshold each or sit at its limit. Histories up to six windows, twice what the longest hysteresis pattern (2 good, 1 bad) needs, with resets. |
| `rtp_reception` | Four sequence numbers, counters of eight, timestamps of sixteen, six packets sent, four arrivals: every counter wraps, and any packet can arrive late, twice or damaged, from every first sequence number. |
| `analysis_agreement` | Up to five messages out of six shapes (a frame, half a frame, two frames, a window, more than two windows; speech, clipping and silence), windows of three frames. Whole windows close inside, at the end of and across messages. A WebSocket's clock starts at 0 or at a handshake's 1000 ms. |
| `quality_streams` | Types, what is left of the finished, one rate to a window, earned readiness, and the loss and jitter of the reports. A connection, a gRPC stream and a REST request that share a session (a push touches no other; the theorems are about any ids), RTP and PCM of one rate and PCM of another, so that a window may hold RTP and PCM and a report on PCM may follow a packet that was turned away. Four pushes; one good window makes a session ready, so that the bound leaves room for what follows. |
| `stt_sessions` | A WebSocket connection and a gRPC call in one session, two chunks and one flush each: both flush while the other appends, before, between and after. |
| `stt_liveness` | A connection, a gRPC call and a REST call that compete for the engine: as many answers as there were flushes, but for those that were swallowed, which are counted. |
| `service_and_page` | 32 starts: without a file, with one, with one that breaks off, with a `--config` without a path, over four environments (one of which stops the process) and two disks, with every outcome of creating the recognizers. Requests: PCM under its names and numbers and in every field, one packet of PCMU under every name and number, G.722 and formats nobody knows, good, cut and odd files, thirteen ways to name a model and a language on four interfaces. A page with two takes, a change of settings and two comparisons; rates of 50 and 100, so that a frame of 20 ms is one sample or two; recordings of 0, 5 and 12 samples, more frames than the four sequence numbers, with the amplitudes at which G.711 changes segment. |
| `report_per_window` | Violated, as are those below: see *Where the code and the documents part*. |
| `handshake_model` | Violated. |
| `shutdown` | Violated. |
| `pcma_packets` | Violated: one packet of four A-law bytes. |
| `rtp_batches` | Violated: five samples in packets of two. |

Deadlock is not checked where callers have a bound on what they send: they stop
there. `stt_gate` has none such, since a gate can always be reset.

**Fairness.** `SttSessions!FairSpec` asks for weak fairness of each caller's
`Step`: a handler that was called and can go on is run by its thread. Nothing
is asked of the callers, who need never call. The engine's `std::mutex` is not
fair; weak fairness is enough because a caller makes a bounded number of calls,
so that in the end nobody competes. `ServerLifecycle!FairSpec` asks the same of
main and the three threads, and of no signal.

## Where the code and the documents part

- **Not a report for every window** (`report_per_window`). `push_pcm` returns
  the last window a message completes.
- **The handshake's model is forgotten after a flush** (`handshake_model`),
  because the flush erases the session that holds it.
- **A body of several packets is read as one** (`rtp_batches`): the page sends all
  packets of a recording in one body (lib/api.ts:40), `decode_packet` is called once,
  and the headers behind the first are heard as audio.
- **A-law packets are decoded wrongly** (`pcma_packets`): `alaw_to_linear`
  inverts the bits twice below the sign. docs/spec/plan.md:293 asks for "RTP:
  decodificar PCMU/PCMA corretamente"; no test decodes PCMA.
- **A signal does not end the server** (`shutdown`): the joins wait for threads
  nobody stops.

Seen on the way, and followed by the model without a run of their own:

- A WebSocket session's clock goes on by 20 ms for each *report* it sends
  (ws_server.cpp:113), the batch stamps a window by its *frames*, and a start of 0
  stands for an unknown one (analyzer.cpp:182): the windows of the same audio bear
  other times on the two interfaces, further apart with every window, where
  docs/spec/voice-quality-assessment.md:112 says "Mesmo PCM produz mesmo report em
  REST, WS e playground gRPC". The measurements, the score and the readiness agree
  (`StreamJudgesLikeBatch`), as long as messages hold whole frames and no more than a
  window.
- A flush over a WebSocket may be carried out and never answered: `dump()` throws over
  a transcript that is not UTF-8 (ws_server.cpp:230), `catch (...)` swallows it, and
  the audio is gone. `EveryFlushIsAnswered` counts these and says that nothing else
  leaves a flush without an answer.
- tests/test_rtp_g711.cpp:34 expects that byte 0xFF of PCMU does not decode to 0; the
  table says that it does, as G.711 says. `AudioIsTheOneSent` holds the service to
  G.711 and not to the test.
- `payload_base64` is not decoded, its letters are taken for the bytes
  (rest_server.cpp:76): `AudioIsTheOneSent` leaves the field out.
- The first preview revokes the URL of the original that the panel goes on
  offering (the cleanup of AudioPreviewPanel.tsx:57 has three dependencies), and
  any change revokes what stays on the screen beside it. `UrlsAreAccountedFor`
  says the other half: what is replaced does not stay alive.
- pack-rtp packs G.729 as G.722, which decode-rtp then refuses: its preview is
  empty (rest_server.cpp:155).
- The page's A-law encoder has the opposite sign of G.711, and so has its
  decoder, which takes the second segment for the first (lib/g711.ts:94);
  `PreviewIsWhatWasRecorded` excepts these amplitudes.
- A chunk of odd size is followed by a padding byte that `parse_wav` does not
  skip: a file with such a chunk before the data is refused
  (`AudioIsTheOneSent` excepts it).
- decode-rtp makes a decoder of G.722 for every packet, where the encoder ran over
  the whole recording: how much of a preview's sound that costs is arithmetic that the
  model does not have.

## Proofs

Every invariant that a passing run checks is also proved, for every value of the
constants that the named assumptions allow; so is that the sessions implement
`TranscriptDelivery`, and the service with the page the service. The bounds on
histories, packets, messages, calls and takes are arbitrary constants, so that
the theorems cover every length.

- `SttGateProofs`: `TypeOK`, `ReadyIffHistorySaysSo` and
  `CountersAreTheLastRun` for any thresholds, any hysteresis (zero and negative
  included, as the code does not validate it) and histories of any length.
  Readiness alone is not inductive, as the state says nothing of how close the
  next change is; the invariant `GateInv` adds what each counter measures, so
  that the run a verdict completes is a run in the history.
  `BetterAudioNeverScoresLower` holds of any two windows: every term of the score
  is monotone in its measurement, through the divisions and the limits at 0 and 1.
- `AnalysisAgreementProofs`: `TypeOK`, `StreamJudgesLikeBatch` and
  `SegmentsAreTheReadyWindows` for audio of any length cut into any messages, both
  sample rates, any frame and window length and any settings of the gate.
  Agreement is not inductive in what was reported; `AlwaysInStep` says that the
  session's analyzer has the buffers and the gate of the batch of the audio so
  far, the start of the window apart, as long as no message breaks a frame or
  outgrows a window. `TypeOK` follows from the same invariant: the frames of the open
  window are those that its samples make (`HoldsItsFrames`), and the clock is what the
  handshake said and 20 ms for every report. The lemmas that it rests on are in `VoiceAnalyzerProofs`: how
  a recording falls into frames and how that of two recordings in a row is that of
  each, what one turn of the loop of `push_pcm` does, and how the loops unfold.
  The segments are an invariant of the sweep: a window swept so far is ready
  exactly if a segment covers its start or it is no earlier than the start of the
  open one, and all segments end before that.
- `RtpReceptionProofs`: `TypeOK`, `SequenceAccountCloses`, `InOrderLossIsExact`
  and `JitterSampleIsTheDistance` for any widths such that the counters' range is a whole
  number of turns of the sequence numbers (`RtpAssumption`, true of 2^16 and
  2^32), any network and any number of packets. `RtpInv` adds that the last
  sequence number is that of the last packet accepted; the steps rest on lemmas
  about the remainder of sums, stated once and cited. `JitterInv` does for the
  timestamps what `RtpInv` does for the sequence numbers: two of them that are
  less than half a turn apart keep their difference when both are reduced, so the
  signed subtraction of the code is exact.
- `QualityStreamsProofs`, for any callers, ids, formats and number of pushes.
  `NothingLeftOfTheFinished` speaks of who shaped a session; the invariant
  `StreamsInv` adds that whoever did is a gRPC call, or still has that session and
  no other, and has not ended in good order. A caller that removes one session at
  its end thus leaves nothing. That a connection is no call and no request is
  `StreamsAssumption`. `TypeOK`, `WindowsAreOfOneRate`, `ReadyIsEarned` and
  `ReportShowsTheLoss` follow from `ServiceInv`, a tally of each session: its open
  window is as long as the frames heard at its rate leave over, its gate has seen
  as many windows as those frames fill, and its depacketizer has counted the packets
  it took, whoever sent them; a renewal starts the tally anew. For the reports it adds
  that the analyzer's loss and jitter are those of the session's last RTP packet, or
  nothing if that one was turned away.
- `SttSessionsProofs`, for any set of callers, sessions and bounds, in three parts.
  `TypeOK` and `DecodesAlone`: the engine is held exactly by who decodes. `SttInv`
  adds that a handler about to append or to flush knows its session, that the one
  carries a single chunk and the other none yet.
  `Spec => KeepsThePromise` is the safety of the implementation of
  `TranscriptDelivery`. `SttInv` is what the mapping of a step needs: an append
  says one chunk because the handler carries one, a flush of an unknown session
  collects nothing because the handler carried nothing, and a swallowed transcript is a
  miss of all that was collected.
  `ChunkInOnePlace`, `ChunksAreKept`, `ChunksInOrder`, `NothingLeftBehind` and
  `BlankOnlyAfterBothModels`: the audio is taken as one
  function from places (sessions, handlers, answers) to sequences of chunks, and
  every step as one of three things done to it: a new chunk is put where its
  caller's handler is, a stretch moves whole to the end of another, or one is
  dropped. Each keeps what `SpeakInv` says of that function: no chunk twice, what
  lies together of one caller is in the order it was sent, and everything sent is
  somewhere or dropped. The invariant adds that a chunk not yet appended is the
  last its caller sent, which is why appending keeps the order, and what a result
  of "auto" says of the models that were asked.
- `TesterPageProofs`, in five parts.
  *The service*: `ModelIsTheOneAskedFor`, `LanguageIsTheOneAskedFor`,
  `ReadyTellsWhatAnswers` and `ReadsStayInTheFile` for any setups, disks, requests
  and files. `ServiceInv` says that a process that got past its start has the
  configuration that `LoadConfig` makes of its setup, that the last answers are
  such as the handlers give, and that what ready listed is what is loaded; the
  promises follow from it without further steps. `PageImplementsService` is a
  refinement: with the page, the service is still the service; hence its promises
  (`PageKeepsPromises`).
  *The panel*: `ShownPreviewIsTheNewest` and `UrlsAreAccountedFor` follow from
  `PageInv`: every run of the preview's effect has an age, only a request of the
  last age is about what is on the screen, and a URL that is alive and was shown is
  still shown; previews that were overtaken were never shown, and what becomes of their
  URLs is not claimed. `TypeOK` adds that the numbers of URLs on the screen are URLs there are.
  *The previews*: `PreviewIsWhatWasRecorded`. Packets are parts of equal length but
  for the last, and parts join to what was cut. A sample of G.722 is found in its
  packet: the last byte that its decoder was given is the one the encoder wrote when it
  had read that sample, and nothing is said of the value. Each sample goes through G.711 and back within a
  step of its segment, for each of the 65536 amplitudes, by the segments' bounds and
  not by enumeration. The invariant `Sound` adds that what is still to be encoded (the
  recording, the requests under way, a comparison) is samples and settings as they
  should be.
  *The stream*: `StreamShowsTheLoss`. `Underway` relates the depacketizer to the
  set of the frames that were delivered: the first and the last of them, how many,
  and how many are missing in between, modulo the widths of the counters.
  *The audio*: `AudioIsTheOneSent`, inductive as it stands. `parse_wav` reaches
  the format and the data of any file that holds a recording, and every n-th sample
  of n channels is the recording's; one packet of PCMU gives back its samples as near as
  G.711 comes; and no interface reads the bytes, the format or the rate from elsewhere.

`GeneralLemmas` has induction over the numbers, of a set and from the least-number
principle: the operators of the model fold with recursive functions, and what such a
function computes is shown of the set of the arguments for which it does. It also
has the remainders of sums, flattened sequences, and parts of sequences.

The assumptions, each named in the module that declares the constants and
evaluated by TLC on the runs' instances, are about

- the analyzer's settings (`AnalyzerAssumption`): frames are a whole number of
  blocks of 20 ms, windows any length; thresholds and hysteresis are any numbers.
  `frame_ms` and `window_ms` are taken from the configuration file as they are
  (config.cpp:77): a frame of zero length would divide by zero, and is left out. A
  window shorter than a frame closes with every frame (`WindowFrames`).
  `SegmentsAreTheReadyWindows` asks for three frames to a window: with fewer two
  windows start at the same time;
- the files, environments and uploads (`UnreadableAssumption`: the built-in values
  are readable; `AbsentAssumption`: an absent text is not the empty one;
  `SetupsAssumption`: environments set known variables; `DemandsAssumption`: an
  uploaded file's chunks lie one behind the other with one format among them);
- what a request means (`MeaningAssumption`): of a well-formed one the bytes are
  what its caller recorded, as PCM or as packets of PCMU if that is the format it
  names, or a file that holds the recording. `AudioIsTheOneSent` leaves out bodies of
  several packets, for which it is false (`rtp_batches`);
- the page's choices (`CodecAssumption`, `PresetsAssumption`: the formats, rates and
  frame lengths of `CodecConfig`, lib/types.ts:13; `PageAssumption`: recordings are
  16-bit samples).

Left to TLC, being out of the prover's reach: the liveness properties
(`EveryFlushIsAnswered`, `KeepsThePromiseInTime`), and the runs that show a
violation.

## Not modelled

- The page's microphone, its audio player (`hooks/useAudioPlayer.ts`: whose queue
  goes on after a stop), and its transcription clients with their timeout of 120 s
  (`lib/api.ts:146`).
- G.729 (bcg729) and the arithmetic of G.722 and of resampling; the vendored
  spandsp.
- The JSON and protocol-buffer encodings, the static pages, the build, and the
  Python sidecar, which the server no longer calls.
- Replies are written from buffers that do not outlive the handler; the models
  send the value.

## Plan

What is done is above. What would come next, the most important first:

1. The page's transcription client over the WebSocket side of `SttSessions`, and
   its audio player over the URLs of `TesterPage`.
2. Uploads of one packet or several in the streams of `QualityStreams`, whose callers
   send one packet to a message.
