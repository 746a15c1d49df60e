-------------------------- MODULE ServiceRequests --------------------------
(***************************************************************************)
(* One run of the process (src/src/server/main.cpp) as a script sees it    *)
(* that sends one request after the other: the configuration is loaded,    *)
(* the engine loads its models, and then the endpoints that answer in one  *)
(* go are called, over HTTP and gRPC.                                      *)
(***************************************************************************)
EXTENDS Configuration, RequestReading

CONSTANTS
    Setups,         \* command lines, files, environments and disks to start with
    Demands         \* requests: their audio, what the caller means by it, and
                    \* where they name a model and a language

\* The other keys have no environment variable.
ASSUME SetupsAssumption == \A s \in Setups : DOMAIN s.env \subseteq EnvironmentKeys

\* Only the body of an upload can be a file.
ASSUME DemandsAssumption ==
    \A demand \in Demands :
        demand.audio.content = "wav" =>
            demand.audio.via = "upload" /\ WellFormedFile(demand.audio.file)

\* What a well-formed request means is what its caller recorded.
ASSUME MeaningAssumption ==
    \A demand \in Demands : demand.meant.well_formed => Means(demand.audio, demand.meant)

VARIABLES
    setup,          \* what the process was started with
    process,        \* how far it has got
    config,         \* g_config
    recognizers,    \* SttEngine::Impl
    ready,          \* the last answer of /v1/stt/ready
    exchange        \* the last analysis or transcription, and its answer

serviceVars == <<setup, process, config, recognizers, ready, exchange>>

Engine == INSTANCE SttEngine WITH
              SttEnabled     <- config["enabled"] = "true",
              ParakeetLoaded <- recognizers.parakeet,
              WhisperLoaded  <- recognizers.whisper

NothingLoaded == [parakeet |-> FALSE, whisper |-> FALSE, whisper_label |-> ""]

NotAsked == [asked |-> FALSE, status |-> "unavailable", models |-> {}]

NoNaming == [header_model |-> Absent, query_model |-> Absent, body_model |-> Absent,
             header_language |-> Absent, body_language |-> Absent]

NoAudio == [via |-> "none", content |-> "pcm", format |-> Absent, number |-> 0, rate |-> 0,
            field |-> Absent, bytes |-> NoBytes, file |-> NoWav]

NoDemand == [audio |-> NoAudio, named |-> NoNaming,
             meant |-> [well_formed |-> FALSE, rate |-> 0, samples |-> << >>]]

NoExchange ==
    [endpoint |-> "none", demand |-> NoDemand, handed |-> Refused,
     options |-> [model |-> "auto", language |-> ""],
     status |-> "none", result |-> [ok |-> FALSE, text |-> FALSE, model |-> "none", error |-> FALSE]]

ServiceInit ==
    /\ setup \in Setups
    /\ process = "starting"
    /\ config = BuiltIn
    /\ recognizers = NothingLoaded
    /\ ready = NotAsked
    /\ exchange = NoExchange
-----------------------------------------------------------------------------
(***************************************************************************)
(* The start: load_config, and the constructor of the engine.              *)
(***************************************************************************)

Configure ==
    /\ process = "starting" /\ ~ EnvironmentThrows(setup.env)
    /\ process' = "configured"
    /\ config' = LoadConfig(setup.argv, setup.files, setup.env)
    /\ UNCHANGED <<setup, recognizers, ready, exchange>>

\* std::stod or std::stoi throws out of main
Abort ==
    /\ process = "starting" /\ EnvironmentThrows(setup.env)
    /\ process' = "aborted"
    /\ UNCHANGED <<setup, config, recognizers, ready, exchange>>

JoinPath(base, leaf) == base \o "/" \o leaf

ParakeetDir ==
    IF config["parakeet_dir"] # "" THEN config["parakeet_dir"]
    ELSE JoinPath(config["models_dir"], "sherpa-onnx-nemo-parakeet-tdt-0.6b-v3-int8")

\* the call center model is only looked for if no whisper directory is named
WhisperDir ==
    IF config["whisper_dir"] # "" THEN config["whisper_dir"]
    ELSE IF config["whisper_callcenter_dir"] # ""
            /\ config["whisper_callcenter_dir"] \in DOMAIN setup.disk
    THEN config["whisper_callcenter_dir"]
    ELSE JoinPath(config["models_dir"], "sherpa-onnx-whisper-turbo")

\* resolve_parakeet_paths, resolve_whisper_paths: all files of the model are
\* there; the disk says which models each directory has in full
Resolves(model, dir) == dir \in DOMAIN setup.disk /\ model \in setup.disk[dir]

WhisperLabel ==
    IF config["whisper_callcenter_dir"] # "" /\ WhisperDir = config["whisper_callcenter_dir"]
    THEN "callcenter" ELSE "turbo"

\* SttEngine's constructor; sherpa-onnx may fail to create either recognizer
LoadModels ==
    /\ process = "configured"
    /\ process' = "serving"
    /\ \E created \in SUBSET {"parakeet", "whisper"} :
           recognizers' =
               IF config["enabled"] = "true"
               THEN [parakeet      |-> Resolves("parakeet", ParakeetDir) /\ "parakeet" \in created,
                     whisper       |-> Resolves("whisper", WhisperDir) /\ "whisper" \in created,
                     whisper_label |-> IF Resolves("whisper", WhisperDir)
                                       THEN WhisperLabel ELSE ""]
               ELSE NothingLoaded
    /\ UNCHANGED <<setup, config, ready, exchange>>
-----------------------------------------------------------------------------
(***************************************************************************)
(* The endpoints.  Each handler reads its request, hands the audio on and  *)
(* answers; none of them keeps anything.                                   *)
(***************************************************************************)
\* Seeded fault: whisper is listed once its files have been found
ListedByLabel ==
    (IF recognizers.parakeet THEN {"parakeet"} ELSE {})
    \cup (IF recognizers.whisper_label # "" THEN {"whisper"} ELSE {})
    \cup (IF recognizers.parakeet \/ recognizers.whisper THEN {"auto"} ELSE {})

ListedModels ==
    (IF recognizers.parakeet THEN {"parakeet"} ELSE {})
    \cup (IF recognizers.whisper THEN {"whisper"} ELSE {})
    \cup (IF recognizers.parakeet \/ recognizers.whisper THEN {"auto"} ELSE {})

\* GET /v1/stt/ready; the Ready of the gRPC service tells the status alone
SttReady ==
    /\ process = "serving"
    /\ ready' = [asked |-> TRUE, models |-> ListedModels,
                 status |-> IF ListedModels = {} THEN "unavailable" ELSE "ready"]
    /\ UNCHANGED <<setup, process, config, recognizers, exchange>>

\* an analysis: the report is that of the samples handed on (VoiceAnalyzer)
Analyze(endpoint, demand, handed) ==
    /\ exchange' = [NoExchange EXCEPT
                       !.endpoint = endpoint, !.demand = demand, !.handed = handed,
                       !.status = IF handed.refused THEN "400" ELSE "200"]
    /\ UNCHANGED <<setup, process, config, recognizers, ready>>

Arrives(demand, via) == process = "serving" /\ demand.audio.via = via

AnalyzeBatch(demand) ==
    /\ Arrives(demand, "upload")
    /\ Analyze("analyze/batch", demand, ReadUpload(demand.audio))

AnalyzeSegment(demand) ==
    /\ Arrives(demand, "segment")
    /\ Analyze("analyze/segment", demand, ReadSegment(demand.audio))

PlaygroundAnalyzeBatch(demand) ==
    /\ Arrives(demand, "playground")
    /\ Analyze("playground/analyze-batch", demand, ReadPlaygroundText(demand.audio))

GrpcAnalyzeBatch(demand) ==
    /\ Arrives(demand, "message")
    /\ Analyze("AnalyzeBatch", demand, ReadMessage(demand.audio))

\* transcribe_pcm16: the results the attempts with the models may end in
Transcripts(choice, has_samples) ==
    LET first == Engine!Attempts(Engine!FirstModel(choice), has_samples)
    IN  IF config["enabled"] # "true" THEN {Engine!Failure("none")}
        ELSE {r \in first : ~ Engine!NeedsFallback(choice, r)}
             \cup {Engine!Combined(r, s) :
                      r \in {q \in first : Engine!NeedsFallback(choice, q)},
                      s \in Engine!Attempts("whisper", has_samples)}

\* what was handed to the engine, and what came of it; over HTTP a failure is 502,
\* and an answer that cannot be written (its text is no UTF-8) a bad request
Transcribe(endpoint, demand, handed, options) ==
    /\ \/ /\ handed.refused
          /\ exchange' = [NoExchange EXCEPT !.endpoint = endpoint, !.demand = demand,
                                            !.status = "400"]
       \/ /\ ~ handed.refused
          /\ \E result \in Transcripts(options.model, handed.samples # << >>) :
                 exchange' = [endpoint |-> endpoint, demand |-> demand, handed |-> handed,
                              options |-> WithLanguage(options, config),
                              status |-> IF result.ok \/ endpoint = "Transcribe" THEN "200"
                                         ELSE "502",
                              result |-> result]
       \/ /\ ~ handed.refused /\ endpoint # "Transcribe"
          /\ exchange' = [NoExchange EXCEPT !.endpoint = endpoint, !.demand = demand,
                                            !.handed = handed, !.status = "400"]
    /\ UNCHANGED <<setup, process, config, recognizers, ready>>

\* the body of an upload is the audio, and names nothing
NamedOutside(named) ==
    [header_model |-> named.header_model, query_model |-> named.query_model,
     body_model |-> Absent, header_language |-> named.header_language,
     body_language |-> Absent]

SttTranscribe(demand) ==
    /\ Arrives(demand, "upload")
    /\ Transcribe("stt/transcribe", demand, ReadUpload(demand.audio),
                  OptionsFromRequest(NamedOutside(demand.named), config))

SttTranscribeSegment(demand) ==
    /\ Arrives(demand, "segment")
    /\ Transcribe("stt/transcribe/segment", demand, ReadSegment(demand.audio),
                  OptionsFromRequest(demand.named, config))

PlaygroundSttTranscribe(demand) ==
    /\ Arrives(demand, "playground")
    /\ Transcribe("playground/stt-transcribe", demand, ReadPlayground(demand.audio),
                  OptionsFromRequest(demand.named, config))

GrpcTranscribe(demand) ==
    /\ Arrives(demand, "message")
    /\ Transcribe("Transcribe", demand, ReadMessage(demand.audio),
                  OptionsFromMessage(demand.named, config))
-----------------------------------------------------------------------------
Requests ==
    \/ SttReady
    \/ \E demand \in Demands :
           \/ AnalyzeBatch(demand) \/ SttTranscribe(demand)
           \/ AnalyzeSegment(demand) \/ SttTranscribeSegment(demand)
           \/ PlaygroundAnalyzeBatch(demand) \/ PlaygroundSttTranscribe(demand)
           \/ GrpcAnalyzeBatch(demand) \/ GrpcTranscribe(demand)

ServiceNext == Configure \/ Abort \/ LoadModels \/ Requests

ServiceSpec == ServiceInit /\ [][ServiceNext]_serviceVars
-----------------------------------------------------------------------------
SttEndpoints == {"stt/transcribe", "stt/transcribe/segment", "playground/stt-transcribe",
                 "Transcribe"}

Endpoints == SttEndpoints \cup {"analyze/batch", "analyze/segment",
                                "playground/analyze-batch", "AnalyzeBatch", "none"}

\* Types of the variables.
ServiceTypeOK ==
    /\ setup \in Setups
    /\ process \in {"starting", "configured", "serving", "aborted"}
    /\ DOMAIN config = Keys
    /\ recognizers \in [parakeet : BOOLEAN, whisper : BOOLEAN,
                        whisper_label : {"", "turbo", "callcenter"}]
    /\ ready.asked \in BOOLEAN /\ ready.models \subseteq Engine!ModelChoices
    /\ exchange.endpoint \in Endpoints /\ exchange.options.model \in Engine!ModelChoices
    /\ exchange.status \in {"none", "200", "400", "502"}
    /\ exchange.result \in Engine!Results

\* What an operator who set this key expects of it: the environment's text, else
\* the file's, else the built-in one; a file with an entry that cannot be read
\* may or may not have been read as far as this one.
Declared(key) ==
    LET path == ConfigPath(setup.argv)
        file == IF path \in DOMAIN setup.files THEN setup.files[path] ELSE NoFile
        whole == \A other \in DOMAIN file : file[other] # Unreadable
    IN  IF key \in DOMAIN setup.env THEN {setup.env[key]}
        ELSE IF key \notin DOMAIN file THEN {BuiltIn[key]}
        ELSE IF whole THEN {file[key]}
        ELSE {file[key], BuiltIn[key]} \ {Unreadable}

Transcribed == exchange.endpoint \in SttEndpoints /\ exchange.status \in {"200", "502"}

\* the texts that the endpoint is documented to read, and that are there; a
\* parameter of the URL that is empty hides the body
NamedModels ==
    LET named == exchange.demand.named
        body  == IF named.query_model = "" THEN Absent ELSE named.body_model
    IN  (CASE exchange.endpoint = "stt/transcribe" -> {named.header_model, named.query_model}
           [] exchange.endpoint = "Transcribe" -> {named.body_model}
           [] OTHER -> {named.header_model, named.query_model, body})
        \ {Absent, ""}

NamedLanguages ==
    LET named == exchange.demand.named
    IN  (CASE exchange.endpoint = "stt/transcribe" -> {named.header_language}
           [] exchange.endpoint = "Transcribe" -> {named.body_language}
           [] OTHER -> {named.header_language, named.body_language})
        \ {Absent, ""}

\* On every interface a transcription is made with the model that the request
\* names, or, if it names none, with the one that the environment, or else the
\* file that the process was started with, makes the default; and no model
\* answers for another unless "auto" lets it.
ModelIsTheOneAskedFor ==
    Transcribed =>
        /\ \A m \in DOMAIN ModelAliases :
               NamedModels = {m} => exchange.options.model = ModelAliases[m]
        /\ NamedModels = {} =>
               exchange.options.model \in {ParseModelChoice(text, "auto") :
                                             text \in Declared("default_model")}
        /\ exchange.options.model # "auto" =>
               exchange.result.model \in {exchange.options.model, "none"}

\* The language that a transcription is marked with is the one its request
\* names, or else the one that the environment or the file sets, however the
\* empty text got there (a header, a JSON field, a field of the message).
LanguageIsTheOneAskedFor ==
    Transcribed =>
        /\ \A text \in NamedLanguages :
               NamedLanguages = {text} => exchange.options.language = text
        /\ NamedLanguages = {} => exchange.options.language \in Declared("language")

PaddedBeforeData(wav) ==
    \E k \in 1 .. Len(wav.chunks) :
        wav.chunks[k].id # "data" /\ wav.chunks[k].stored # wav.chunks[k].declared

\* bytes that are packets of RTP, more than one
SeveralPackets(audio) ==
    audio.content # "wav" /\ Announced(audio) \in RtpFormats /\ Len(audio.bytes.packets) > 1

\* a packet of PCMU is heard as near to the samples as G.711 comes, all other
\* audio as it is
HeardAsMeant(handed, audio, meant) ==
    /\ ~ handed.refused /\ handed.rate = meant.rate
    /\ Len(handed.samples) = Len(meant.samples)
    /\ \A i \in 1 .. Len(meant.samples) :
           IF audio.content # "wav" /\ Announced(audio) = "rtp_pcmu"
           THEN Near(handed.samples[i], meant.samples[i])
           ELSE handed.samples[i] = meant.samples[i]

\* Well-formed audio is taken, and what the analyzer or the engine is handed are
\* the samples that the caller recorded, at the caller's rate: as PCM in any
\* field and under any name of the format, as a packet of PCMU, or as the first
\* channel of a file. Base64 is not decoded, a file with a padded chunk before
\* the data is not understood, and of several packets only the first is.
AudioIsTheOneSent ==
    LET meant == exchange.demand.meant
        audio == exchange.demand.audio
    IN  meant.well_formed /\ audio.field # "payload_base64" /\ ~ PaddedBeforeData(audio.file)
            /\ ~ SeveralPackets(audio)
        => HeardAsMeant(exchange.handed, audio, meant)

\* A batch of the packets of a recording is heard as the recording: what the page
\* sends in one body (lib/api.ts:40) is the stream that its preview plays
\* ("o mesmo fluxo enviado", AudioPreviewPanel.tsx:118), and a batch may be RTP
\* (docs/spec/voice-quality-assessment.md:79).
BatchOfPacketsIsHeard ==
    LET meant == exchange.demand.meant
        audio == exchange.demand.audio
    IN  meant.well_formed /\ audio.field # "payload_base64" /\ SeveralPackets(audio)
        => HeardAsMeant(exchange.handed, audio, meant)

\* The bytes of an A-law packet are heard as the values that G.711 gives to them
\* (docs/spec/plan.md:293: "decodificar PCMU/PCMA corretamente").
PcmaIsDecodedAsG711 ==
    LET packets == exchange.demand.audio.bytes.packets
    IN  Len(packets) = 1 /\ packets[1].payload_type = "Pcma" /\ exchange.handed.samples # << >> =>
            exchange.handed.samples =
                [i \in 1 .. Len(packets[1].payload) |-> AlawValue(packets[1].payload[i])]

\* Every sample that is copied out of a file lies inside it, whatever the sizes
\* that its chunks declare (the bounds parse_wav checks, and where).
ReadsStayInTheFile ==
    LET wav == exchange.demand.audio.file
    IN  exchange.demand.audio.content = "wav" /\ ~ exchange.handed.refused =>
            \A i \in 0 .. Len(SamplesOf(wav)) - 1 :
                SampleAt(DataOffset(wav), FieldsRead(wav).channels, i) + 2 <= wav.size

\* What /v1/stt/ready said stays true of the transcriptions after it: a model
\* that it listed is there to answer, one that it did not list never answers,
\* and when it listed none every transcription fails.
ReadyTellsWhatAnswers ==
    ready.asked /\ Transcribed =>
        /\ exchange.options.model \in ready.models \ {"auto"} =>
               exchange.result.model = exchange.options.model
        /\ exchange.result.ok => exchange.result.model \in ready.models
        /\ ready.status = "unavailable" => ~ exchange.result.ok
=============================================================================
