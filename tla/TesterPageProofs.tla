-------------------------- MODULE TesterPageProofs --------------------------
(***************************************************************************)
(* Theorems about ServiceRequests and TesterPage, for any setups, requests *)
(* and recordings, in five parts.  The service: what a process that serves *)
(* still knows of its start, and what the last exchange and the last       *)
(* answer about readiness have to do with the models that are loaded.  The *)
(* panel: its promises, whatever order the answers come in.  The previews: *)
(* what every codec of the page makes of a recording, sample by sample.    *)
(* The stream: what the depacketizer at its other end counts.  The audio:  *)
(* what the handlers make of the bytes or the file of a request.           *)
(***************************************************************************)
EXTENDS TesterPage, GeneralLemmas, FiniteSetTheorems

(***************************************************************************)
(* The service.                                                            *)
(***************************************************************************)
\* the options that the handler of an endpoint reads
OptionsOf(endpoint, named) ==
    CASE endpoint = "stt/transcribe" -> OptionsFromRequest(NamedOutside(named), config)
      [] endpoint = "Transcribe" -> OptionsFromMessage(named, config)
      [] OTHER -> OptionsFromRequest(named, config)

StartInv ==
    /\ setup \in Setups
    /\ process \in {"starting", "configured", "serving", "aborted"}
    /\ process \in {"configured", "serving"} =>
           config = LoadConfig(setup.argv, setup.files, setup.env)
    /\ DOMAIN config = Keys

LoadInv ==
    /\ recognizers \in [parakeet : BOOLEAN, whisper : BOOLEAN,
                        whisper_label : {"", "turbo", "callcenter"}]
    /\ recognizers.parakeet \/ recognizers.whisper =>
           process = "serving" /\ config["enabled"] = "true"

ReadyInv ==
    /\ ready.asked \in BOOLEAN /\ ready.models \subseteq Engine!ModelChoices
    /\ ready.asked =>
           /\ process = "serving"
           /\ ready.models = ListedModels
           /\ ready.status = "unavailable" => ListedModels = {}

\* what a result has to do with the model that was chosen
ResultFits(choice, result) ==
    /\ result \in Engine!Results
    /\ choice # "auto" => result.model \in {choice, "none"}
    /\ choice = "parakeet" /\ recognizers.parakeet => result.model = "parakeet"
    /\ choice = "whisper" /\ recognizers.whisper => result.model = "whisper"
    /\ result.ok => \/ result.model = "parakeet" /\ recognizers.parakeet
                    \/ result.model = "whisper" /\ recognizers.whisper

ExchangeInv ==
    /\ exchange.endpoint \in Endpoints
    /\ exchange.endpoint # "none" => process = "serving"
    /\ exchange.status \in {"none", "200", "400", "502"}
    /\ exchange.result \in Engine!Results
    /\ exchange.options.model \in Engine!ModelChoices
    /\ Transcribed =>
           /\ exchange.options =
                  WithLanguage(OptionsOf(exchange.endpoint, exchange.demand.named), config)
           /\ ResultFits(exchange.options.model, exchange.result)

\* a file whose samples were handed on is one that the parser takes
FileInv ==
    exchange.demand.audio.content = "wav" /\ ~ exchange.handed.refused =>
        /\ WellFormedFile(exchange.demand.audio.file)
        /\ Takes(exchange.demand.audio.file)

ServiceInv == StartInv /\ LoadInv /\ ReadyInv /\ ExchangeInv /\ FileInv

-----------------------------------------------------------------------------
(***************************************************************************)
(* The model and the language of a request.                                *)
(***************************************************************************)

\* A name is taken for a model, whatever it is and wherever it comes from.
LEMMA ParsedIsAModel ==
  ASSUME NEW text, NEW fallback \in Engine!ModelChoices
  PROVE  ParseModelChoice(text, fallback) \in Engine!ModelChoices
  BY DEF ParseModelChoice, ModelAliases, Engine!ModelChoices

LEMMA OptionsAreAModel ==
  ASSUME NEW endpoint, NEW named
  PROVE  OptionsOf(endpoint, named).model \in Engine!ModelChoices
<1>1. "auto" \in Engine!ModelChoices
  BY DEF Engine!ModelChoices
<1>2. DefaultModelChoice(config) \in Engine!ModelChoices
  BY <1>1, ParsedIsAModel DEF DefaultModelChoice
<1>3. \A n : OptionsFromRequest(n, config).model \in Engine!ModelChoices
  BY <1>2, ParsedIsAModel DEF OptionsFromRequest
<1>4. OptionsFromMessage(named, config).model \in Engine!ModelChoices
  BY <1>1, <1>2, ParsedIsAModel DEF OptionsFromMessage
<1>. QED  BY <1>3, <1>4 DEF OptionsOf

\* The text that comes first of two, and of three.
LEMMA FirstOfTwo ==
  ASSUME NEW a, NEW b, NEW otherwise
  PROVE  FirstThere(<<a, b>>, otherwise) =
             IF a # Absent THEN a ELSE IF b # Absent THEN b ELSE otherwise
  BY DEF FirstThere

LEMMA FirstOfThree ==
  ASSUME NEW a, NEW b, NEW c, NEW otherwise
  PROVE  FirstThere(<<a, b, c>>, otherwise) =
             IF a # Absent THEN a ELSE IF b # Absent THEN b
             ELSE IF c # Absent THEN c ELSE otherwise
  BY DEF FirstThere

\* The model of a request that names one, and of a request that names none.
LEMMA ModelOfRequest ==
  ASSUME NEW named
  PROVE  LET body  == IF named.query_model = "" THEN Absent ELSE named.body_model
             texts == {named.header_model, named.query_model, body} \ {Absent, ""}
             asked == OptionsFromRequest(named, config).model
         IN  /\ \A m \in DOMAIN ModelAliases : texts = {m} => asked = ModelAliases[m]
             /\ texts = {} => asked = DefaultModelChoice(config)
<1> DEFINE h == named.header_model
           q == named.query_model
           b == named.body_model
           body == IF q = "" THEN Absent ELSE b
           texts == {h, q, body} \ {Absent, ""}
           first == FirstThere(<<Header(h), q, b>>, "")
           asked == OptionsFromRequest(named, config).model
<1>1. first = IF Header(h) # Absent THEN Header(h) ELSE IF q # Absent THEN q
              ELSE IF b # Absent THEN b ELSE ""
  <2> DEFINE a == Header(h)
             none == ""
  <2> HIDE DEF a, q, b, none
  <2>1. FirstThere(<<a, q, b>>, none) = IF a # Absent THEN a ELSE IF q # Absent THEN q
                                        ELSE IF b # Absent THEN b ELSE none
    BY FirstOfThree
  <2>. QED  BY <2>1 DEF a, none
<1>2. Header(h) = IF h = "" THEN Absent ELSE h
  BY DEF Header
<1>3. asked = ParseModelChoice(first, DefaultModelChoice(config))
  BY DEF OptionsFromRequest
<1>4. "" \notin DOMAIN ModelAliases
  BY DEF ModelAliases
<1> HIDE DEF h, q, b, first, asked
<1>5. \A m : texts = {m} => first = m
  BY <1>1, <1>2, AbsentAssumption
<1>6. texts = {} => first = ""
  BY <1>1, <1>2, AbsentAssumption
<1>7. /\ \A m \in DOMAIN ModelAliases : texts = {m} => asked = ModelAliases[m]
      /\ texts = {} => asked = DefaultModelChoice(config)
  BY <1>3, <1>4, <1>5, <1>6 DEF ParseModelChoice
<1>. QED  BY <1>7 DEF h, q, b, asked

LEMMA ModelOfMessage ==
  ASSUME NEW named
  PROVE  LET texts == {named.body_model} \ {Absent, ""}
             asked == OptionsFromMessage(named, config).model
         IN  /\ \A m \in DOMAIN ModelAliases : texts = {m} => asked = ModelAliases[m]
             /\ texts = {} => asked = DefaultModelChoice(config)
  BY DEF OptionsFromMessage, Header, ParseModelChoice, ModelAliases

\* The language of a request that names one, and of a request that names none.
LEMMA LanguageOfRequest ==
  ASSUME NEW named
  PROVE  LET asked == WithLanguage(OptionsFromRequest(named, config), config).language
             texts == {named.header_language, named.body_language} \ {Absent, ""}
         IN  /\ \A text \in texts : texts = {text} => asked = text
             /\ texts = {} => asked = config["language"]
<1> DEFINE h == named.header_language
           b == named.body_language
           read == OptionsFromRequest(named, config)
           first == FirstThere(<<Header(h), b>>, config["language"])
<1>1. first = IF Header(h) # Absent THEN Header(h) ELSE IF b # Absent THEN b
              ELSE config["language"]
  BY FirstOfTwo
<1>2. Header(h) = IF h = "" THEN Absent ELSE h
  BY DEF Header
<1>3. read.language = first
  BY DEF OptionsFromRequest
<1>4. WithLanguage(read, config).language = IF first = "" THEN config["language"] ELSE first
  <2> DEFINE options == [model |-> read.model, language |-> first]
  <2>1. read = options
    BY DEF OptionsFromRequest
  <2>. QED  BY <2>1, <1>3 DEF WithLanguage
<1> HIDE DEF h, b, read, first
<1>5. /\ \A text \in {h, b} \ {Absent, ""} :
            {h, b} \ {Absent, ""} = {text} =>
                (IF first = "" THEN config["language"] ELSE first) = text
      /\ {h, b} \ {Absent, ""} = {} =>
            (IF first = "" THEN config["language"] ELSE first) = config["language"]
  BY <1>1, <1>2
<1>. QED  BY <1>4, <1>5 DEF h, b, read

LEMMA LanguageOfMessage ==
  ASSUME NEW named
  PROVE  LET asked == WithLanguage(OptionsFromMessage(named, config), config).language
             texts == {named.body_language} \ {Absent, ""}
         IN  /\ \A text \in texts : texts = {text} => asked = text
             /\ texts = {} => asked = config["language"]
<1> DEFINE b == named.body_language
           read == OptionsFromMessage(named, config)
           text == IF Header(b) = Absent THEN config["language"] ELSE b
<1>1. read = [model |-> read.model, language |-> text]
  BY DEF OptionsFromMessage
<1>2. WithLanguage(read, config).language = IF text = "" THEN config["language"] ELSE text
  <2> HIDE DEF text
  <2> DEFINE m == read.model
  <2>1. read = [model |-> m, language |-> text]
    BY <1>1
  <2> HIDE DEF m, read
  <2>. QED  BY <2>1 DEF WithLanguage
<1>. QED  BY <1>2 DEF Header

-----------------------------------------------------------------------------
(***************************************************************************)
(* The configuration.                                                      *)
(***************************************************************************)
LEMMA KeysFound ==
  /\ DOMAIN YamlKeys = 1 .. 20 /\ Len(YamlKeys) = 20
  /\ YamlKeys[13] = "language" /\ YamlKeys[15] = "default_model"
  BY DEF YamlKeys, ServerKeys, AnalyzerKeys, SttKeys

LEMMA KeysAreBuiltIn == DOMAIN BuiltIn = Keys
  BY DEF YamlKeys, ServerKeys, AnalyzerKeys, SttKeys, Keys, BuiltIn

LEMMA LoadedKeys ==
  ASSUME NEW argv, NEW files, NEW env
  PROVE  DOMAIN LoadConfig(argv, files, env) = Keys
  BY DEF LoadConfig, FromEnvironment

\* A text that is loaded is one that was declared for its key.
LEMMA LoadedIsDeclared ==
  ASSUME NEW key \in {"language", "default_model"}
  PROVE  LoadConfig(setup.argv, setup.files, setup.env)[key] \in Declared(key)
<1> DEFINE path == ConfigPath(setup.argv)
           file == IF path \in DOMAIN setup.files THEN setup.files[path] ELSE NoFile
           loaded == LoadConfig(setup.argv, setup.files, setup.env)[key]
           whole == \A other \in DOMAIN file : file[other] # Unreadable
<1>1. PICK n \in 1 .. Len(YamlKeys) : YamlKeys[n] = key
  BY KeysFound
<1>2. key \in Keys /\ BuiltIn[key] # Unreadable
  BY <1>1, UnreadableAssumption DEF Keys
<1>3. loaded = IF key \in DOMAIN setup.env THEN setup.env[key]
               ELSE IF Reads(file, key) THEN file[key] ELSE BuiltIn[key]
  <2>1. EnvironmentValue(key, setup.env[key]) = setup.env[key]
    BY DEF EnvironmentValue
  <2>. QED  BY <1>2, <2>1 DEF LoadConfig, FromEnvironment, FromFile
<1> HIDE DEF loaded, file
<1>4. Declared(key) = IF key \in DOMAIN setup.env THEN {setup.env[key]}
                      ELSE IF key \notin DOMAIN file THEN {BuiltIn[key]}
                      ELSE IF whole THEN {file[key]}
                      ELSE {file[key], BuiltIn[key]} \ {Unreadable}
  BY DEF Declared, file
<1>5. Reads(file, key) => key \in DOMAIN file /\ file[key] # Unreadable
  BY DEF Reads
<1>6. key \in DOMAIN file /\ whole => Reads(file, key)
  BY <1>1 DEF Reads
<1>7. loaded \in Declared(key)
  BY <1>2, <1>3, <1>4, <1>5, <1>6
<1>. QED  BY <1>7 DEF loaded

-----------------------------------------------------------------------------
(***************************************************************************)
(* What the engine may answer.                                             *)
(***************************************************************************)
LEMMA TranscriptsFit ==
  ASSUME LoadInv, NEW choice \in Engine!ModelChoices,
         NEW has_samples \in BOOLEAN, NEW result \in Transcripts(choice, has_samples)
  PROVE  ResultFits(choice, result)
<1> DEFINE P == recognizers.parakeet
           W == recognizers.whisper
<1>1. P \in BOOLEAN /\ W \in BOOLEAN
  BY DEF LoadInv
<1>2. ASSUME NEW model \in {"parakeet", "whisper"},
             NEW r \in Engine!Attempts(model, has_samples)
      PROVE  /\ r \in Engine!Results
             /\ r.model = IF Engine!Loaded(model) THEN model ELSE "none"
             /\ r.ok => Engine!Loaded(model)
  <2>1. Engine!Loaded(model) \in BOOLEAN
    BY <1>1 DEF Engine!Loaded
  <2>2. /\ ~ Engine!Loaded(model) => r = Engine!Failure("none")
        /\ Engine!Loaded(model) =>
              r \in {Engine!Text(model), Engine!Blank(model), Engine!Failure(model)}
    BY <1>2, <2>1 DEF Engine!Attempts
  <2>3. model = "parakeet" \/ model = "whisper"
    BY <1>2
  <2>4. CASE ~ Engine!Loaded(model)
    <3>1. r = [ok |-> FALSE, text |-> FALSE, model |-> "none", error |-> TRUE]
      BY <2>2, <2>4 DEF Engine!Failure
    <3>. QED  BY <2>4, <3>1 DEF Engine!Results
  <2>5. CASE Engine!Loaded(model)
    <3>1. PICK ok \in BOOLEAN, text \in BOOLEAN, error \in BOOLEAN :
              r = [ok |-> ok, text |-> text, model |-> model, error |-> error]
      BY <2>2, <2>5, Zenon DEF Engine!Text, Engine!Blank, Engine!Failure
    <3>2. r.model = model
      BY <3>1
    <3>3. r \in Engine!Results
      BY <2>3, <3>1 DEF Engine!Results
    <3>. QED  BY <2>5, <3>2, <3>3
  <2>. QED  BY <2>1, <2>4, <2>5
<1>3. Engine!Loaded("parakeet") = P /\ Engine!Loaded("whisper") = W
  BY DEF Engine!Loaded
<1>4. CASE config["enabled"] # "true"
  <2>1. result = Engine!Failure("none")
    BY <1>4 DEF Transcripts
  <2>. QED  BY <2>1, <1>4 DEF LoadInv, ResultFits, Engine!Failure, Engine!Results
<1>5. CASE config["enabled"] = "true"
  <2>1. Engine!FirstModel(choice) \in {"parakeet", "whisper"}
    BY DEF Engine!FirstModel
  <2>2. CASE result \in Engine!Attempts(Engine!FirstModel(choice), has_samples)
    <3>1. choice # "whisper" => Engine!FirstModel(choice) = "parakeet"
      BY DEF Engine!FirstModel
    <3>2. choice = "whisper" => Engine!FirstModel(choice) = "whisper"
      BY DEF Engine!FirstModel
    <3>. QED  BY <1>1, <1>2, <1>3, <2>1, <2>2, <3>1, <3>2 DEF ResultFits, Engine!ModelChoices
  <2>3. CASE \E r \in Engine!Attempts("parakeet", has_samples),
                s \in Engine!Attempts("whisper", has_samples) :
                choice = "auto" /\ result = Engine!Combined(r, s)
    <3>1. PICK r \in Engine!Attempts("parakeet", has_samples),
               s \in Engine!Attempts("whisper", has_samples) :
               choice = "auto" /\ result = Engine!Combined(r, s)
      BY <2>3
    <3>2. /\ r \in Engine!Results /\ s \in Engine!Results
          /\ r.model = (IF P THEN "parakeet" ELSE "none") /\ (r.ok => P)
          /\ s.model = (IF W THEN "whisper" ELSE "none") /\ (s.ok => W)
      BY <1>2, <1>3
    <3>3. result = IF s.ok THEN [s EXCEPT !.error = r.error /\ ~ s.text]
                   ELSE [r EXCEPT !.error = TRUE]
      BY <3>1 DEF Engine!Combined
    <3>. QED  BY <1>1, <3>1, <3>2, <3>3 DEF ResultFits, Engine!Results
  <2>4. \/ result \in Engine!Attempts(Engine!FirstModel(choice), has_samples)
        \/ \E r \in Engine!Attempts("parakeet", has_samples),
              s \in Engine!Attempts("whisper", has_samples) :
              choice = "auto" /\ result = Engine!Combined(r, s)
    BY <1>5 DEF Transcripts, Engine!NeedsFallback, Engine!FirstModel
  <2>. QED  BY <2>2, <2>3, <2>4
<1>. QED  BY <1>4, <1>5

-----------------------------------------------------------------------------
(***************************************************************************)
(* The invariant of the service.                                           *)
(***************************************************************************)
LEMMA ServiceInitInv == ServiceInit => ServiceInv
<1> SUFFICES ASSUME ServiceInit PROVE ServiceInv
  OBVIOUS
<1> USE DEF ServiceInit
<1>1. StartInv
  BY KeysAreBuiltIn DEF StartInv
<1>2. LoadInv
  BY DEF LoadInv, NothingLoaded
<1>3. ReadyInv
  BY DEF ReadyInv, NotAsked
<1>4. exchange.endpoint = "none" /\ exchange.status = "none" /\ exchange.demand = NoDemand
      /\ exchange.handed = Refused
  BY DEF NoExchange
<1>5. exchange.options.model \in Engine!ModelChoices /\ exchange.result \in Engine!Results
  BY DEF NoExchange, Engine!ModelChoices, Engine!Results
<1>6. ExchangeInv
  BY <1>4, <1>5 DEF ExchangeInv, Endpoints, Transcribed, SttEndpoints
<1>7. FileInv
  BY <1>4 DEF FileInv, NoDemand, NoAudio
<1>. QED  BY <1>1, <1>2, <1>3, <1>6, <1>7 DEF ServiceInv

\* What a handler hands on fits a file that it was sent.
HandedFits(demand, handed) ==
    demand.audio.content = "wav" /\ ~ handed.refused =>
        WellFormedFile(demand.audio.file) /\ Takes(demand.audio.file)

LEMMA UploadFits ==
  ASSUME NEW demand \in Demands
  PROVE  HandedFits(demand, ReadUpload(demand.audio))
<1> DEFINE audio == demand.audio
<1>1. SUFFICES ASSUME audio.content = "wav", ~ ReadUpload(audio).refused
               PROVE  Takes(audio.file)
  BY DemandsAssumption DEF HandedFits
<1>2. Refused.refused
  BY DEF Refused
<1>3. ReadUpload(audio) = HandOnFile(audio)
  BY <1>1, <1>2 DEF ReadUpload
<1>. QED  BY <1>1, <1>2, <1>3 DEF HandOnFile

LEMMA OthersFit ==
  ASSUME NEW demand \in Demands, demand.audio.via # "upload", NEW handed
  PROVE  HandedFits(demand, handed)
  BY DemandsAssumption DEF HandedFits

LEMMA AnalyzeKeepsInv ==
  ASSUME ServiceInv, process = "serving", NEW endpoint \in Endpoints \ SttEndpoints,
         endpoint # "none", NEW demand, NEW handed, HandedFits(demand, handed),
         Analyze(endpoint, demand, handed)
  PROVE  ServiceInv'
<1>1. UNCHANGED <<setup, process, config, recognizers, ready>>
  BY DEF Analyze
<1>2. StartInv' /\ LoadInv' /\ ReadyInv'
  BY <1>1 DEF ServiceInv, StartInv, LoadInv, ReadyInv, ListedModels, Engine!ModelChoices
<1>3. /\ exchange'.endpoint = endpoint /\ exchange'.demand = demand
      /\ exchange'.handed = handed /\ exchange'.status \in {"400", "200"}
      /\ exchange'.options = NoExchange.options /\ exchange'.result = NoExchange.result
  BY DEF Analyze, NoExchange
<1>4. /\ NoExchange.options.model \in Engine!ModelChoices'
      /\ NoExchange.result \in Engine!Results'
  BY DEF NoExchange, Engine!ModelChoices, Engine!Results
<1>5. ~ Transcribed'
  BY <1>3 DEF Transcribed
<1>6. ExchangeInv'
  BY <1>1, <1>3, <1>4, <1>5 DEF ExchangeInv
<1>7. FileInv'
  BY <1>3 DEF FileInv, HandedFits
<1>. QED  BY <1>2, <1>6, <1>7 DEF ServiceInv

LEMMA TranscribeKeepsInv ==
  ASSUME ServiceInv, process = "serving", NEW endpoint \in SttEndpoints,
         NEW demand, NEW handed, HandedFits(demand, handed),
         Transcribe(endpoint, demand, handed, OptionsOf(endpoint, demand.named))
  PROVE  ServiceInv'
<1> DEFINE options == OptionsOf(endpoint, demand.named)
<1>1. UNCHANGED <<setup, process, config, recognizers, ready>>
  BY DEF Transcribe
<1>2. StartInv' /\ LoadInv' /\ ReadyInv'
  BY <1>1 DEF ServiceInv, StartInv, LoadInv, ReadyInv, ListedModels, Engine!ModelChoices
<1>3. endpoint \in Endpoints /\ endpoint # "none"
  BY DEF Endpoints, SttEndpoints
<1>4. CASE handed.refused /\ exchange' = [NoExchange EXCEPT !.endpoint = endpoint,
                                             !.demand = demand, !.status = "400"]
  <2>1. /\ exchange'.endpoint = endpoint /\ exchange'.demand = demand
        /\ exchange'.handed = Refused /\ exchange'.status = "400"
        /\ exchange'.options = NoExchange.options /\ exchange'.result = NoExchange.result
    BY <1>4 DEF NoExchange
  <2>2. /\ NoExchange.options.model \in Engine!ModelChoices'
        /\ NoExchange.result \in Engine!Results'
    BY DEF NoExchange, Engine!ModelChoices, Engine!Results
  <2>3. ~ Transcribed'
    BY <2>1 DEF Transcribed
  <2>4. ExchangeInv'
    BY <1>1, <1>3, <2>1, <2>2, <2>3 DEF ExchangeInv
  <2>5. FileInv'
    BY <2>1 DEF FileInv, Refused
  <2>. QED  BY <1>2, <2>4, <2>5 DEF ServiceInv
<1>5. ASSUME NEW result \in Transcripts(options.model, handed.samples # << >>),
             exchange' = [endpoint |-> endpoint, demand |-> demand, handed |-> handed,
                          options |-> WithLanguage(options, config),
                          status |-> IF result.ok \/ endpoint = "Transcribe" THEN "200"
                                     ELSE "502",
                          result |-> result]
      PROVE  ServiceInv'
  <2>1. options.model \in Engine!ModelChoices
    BY OptionsAreAModel
  <2>2. ResultFits(options.model, result)
    BY <1>5, <2>1, TranscriptsFit DEF ServiceInv
  <2>3. WithLanguage(options, config).model = options.model
    BY DEF WithLanguage, OptionsOf, OptionsFromRequest, OptionsFromMessage
  <2>4. /\ exchange'.endpoint = endpoint /\ exchange'.demand = demand
        /\ exchange'.handed = handed /\ exchange'.status \in {"200", "502"}
        /\ exchange'.options = WithLanguage(options, config) /\ exchange'.result = result
    BY <1>5
  <2>5. exchange'.options.model \in Engine!ModelChoices' /\ result \in Engine!Results'
    BY <2>1, <2>2, <2>3, <2>4 DEF ResultFits, Engine!ModelChoices, Engine!Results
  <2>6. ResultFits(exchange.options.model, exchange.result)'
    BY <1>1, <2>2, <2>3, <2>4 DEF ResultFits, Engine!Results
  <2>7. (exchange.options = WithLanguage(OptionsOf(exchange.endpoint, exchange.demand.named),
                                         config))'
    BY <1>1, <2>4, Zenon DEF OptionsOf
  <2>8. ExchangeInv'
    BY <1>1, <1>3, <2>4, <2>5, <2>6, <2>7 DEF ExchangeInv
  <2>9. FileInv'
    BY <2>4 DEF FileInv, HandedFits
  <2>. QED  BY <1>2, <2>8, <2>9 DEF ServiceInv
<1>6. CASE exchange' = [NoExchange EXCEPT !.endpoint = endpoint, !.demand = demand,
                                          !.handed = handed, !.status = "400"]
  <2>1. /\ exchange'.endpoint = endpoint /\ exchange'.demand = demand
        /\ exchange'.handed = handed /\ exchange'.status = "400"
        /\ exchange'.options = NoExchange.options /\ exchange'.result = NoExchange.result
    BY <1>6 DEF NoExchange
  <2>2. /\ NoExchange.options.model \in Engine!ModelChoices'
        /\ NoExchange.result \in Engine!Results'
    BY DEF NoExchange, Engine!ModelChoices, Engine!Results
  <2>3. ~ Transcribed'
    BY <2>1 DEF Transcribed
  <2>4. ExchangeInv'
    BY <1>1, <1>3, <2>1, <2>2, <2>3 DEF ExchangeInv
  <2>5. FileInv'
    BY <2>1 DEF FileInv, HandedFits
  <2>. QED  BY <1>2, <2>4, <2>5 DEF ServiceInv
<1>. QED  BY <1>4, <1>5, <1>6 DEF Transcribe

\* Before the process serves nothing has been exchanged.
LEMMA NothingExchanged ==
  ASSUME ServiceInv, process # "serving",
         UNCHANGED <<ready, exchange>>, StartInv', LoadInv'
  PROVE  ServiceInv'
<1>1. ~ ready.asked /\ exchange.endpoint = "none"
  BY DEF ServiceInv, ReadyInv, ExchangeInv
<1>2. ReadyInv'
  BY <1>1 DEF ServiceInv, ReadyInv, Engine!ModelChoices
<1>3. ~ Transcribed'
  BY <1>1 DEF Transcribed, SttEndpoints
<1>4. ExchangeInv'
  BY <1>1, <1>3 DEF ServiceInv, ExchangeInv, Engine!ModelChoices, Engine!Results
<1>5. FileInv'
  BY DEF ServiceInv, FileInv
<1>. QED  BY <1>2, <1>4, <1>5 DEF ServiceInv

LEMMA ExchangeStays ==
  ASSUME ServiceInv, UNCHANGED <<setup, process, config, recognizers, exchange>>
  PROVE  StartInv' /\ LoadInv' /\ FileInv' /\ ExchangeInv'
<1>1. StartInv' /\ LoadInv' /\ FileInv'
  BY DEF ServiceInv, StartInv, LoadInv, FileInv
<1>2. Transcribed' = Transcribed
  BY DEF Transcribed
<1>3. (exchange.options.model \in Engine!ModelChoices /\ exchange.result \in Engine!Results)'
  BY DEF ServiceInv, ExchangeInv, Engine!ModelChoices, Engine!Results
<1>4. Transcribed =>
          (exchange.options =
               WithLanguage(OptionsOf(exchange.endpoint, exchange.demand.named), config))'
  BY Zenon DEF ServiceInv, ExchangeInv, OptionsOf
<1>5. Transcribed => ResultFits(exchange.options.model, exchange.result)'
  BY DEF ServiceInv, ExchangeInv, ResultFits, Engine!Results
<1>. QED  BY <1>1, <1>2, <1>3, <1>4, <1>5 DEF ServiceInv, ExchangeInv

LEMMA RequestsKeepInv ==
  ASSUME ServiceInv, Requests
  PROVE  ServiceInv'
<1>1. CASE SttReady
  <2>1. UNCHANGED <<setup, process, config, recognizers, exchange>> /\ process = "serving"
    BY <1>1 DEF SttReady
  <2>2. StartInv' /\ LoadInv' /\ FileInv' /\ ExchangeInv'
    BY <2>1, ExchangeStays
  <2>3. /\ ready'.asked = TRUE /\ ready'.models = ListedModels
        /\ ready'.status = IF ListedModels = {} THEN "unavailable" ELSE "ready"
    BY <1>1 DEF SttReady
  <2>4. ListedModels' = ListedModels /\ ListedModels \subseteq Engine!ModelChoices'
    BY <2>1 DEF ListedModels, Engine!ModelChoices
  <2>5. ReadyInv'
    BY <2>1, <2>3, <2>4 DEF ReadyInv
  <2>. QED  BY <2>2, <2>5 DEF ServiceInv
<1>2. ASSUME NEW demand \in Demands,
             \/ AnalyzeBatch(demand) \/ AnalyzeSegment(demand)
             \/ PlaygroundAnalyzeBatch(demand) \/ GrpcAnalyzeBatch(demand)
      PROVE  ServiceInv'
  <2>1. process = "serving"
    BY <1>2 DEF AnalyzeBatch, AnalyzeSegment, PlaygroundAnalyzeBatch, GrpcAnalyzeBatch, Arrives
  <2>2. PICK endpoint \in {"analyze/batch", "analyze/segment", "playground/analyze-batch",
                          "AnalyzeBatch"} :
        \E handed : HandedFits(demand, handed) /\ Analyze(endpoint, demand, handed)
    <3>1. CASE AnalyzeBatch(demand)
      BY <3>1, UploadFits DEF AnalyzeBatch
    <3>2. CASE AnalyzeSegment(demand)
      BY <3>2, OthersFit DEF AnalyzeSegment, Arrives
    <3>3. CASE PlaygroundAnalyzeBatch(demand)
      BY <3>3, OthersFit DEF PlaygroundAnalyzeBatch, Arrives
    <3>4. CASE GrpcAnalyzeBatch(demand)
      BY <3>4, OthersFit DEF GrpcAnalyzeBatch, Arrives
    <3>. QED  BY <1>2, <3>1, <3>2, <3>3, <3>4
  <2>3. PICK handed : HandedFits(demand, handed) /\ Analyze(endpoint, demand, handed)
    BY <2>2
  <2>4. endpoint \in Endpoints \ SttEndpoints /\ endpoint # "none"
    BY <2>2 DEF Endpoints, SttEndpoints
  <2>. QED  BY <2>1, <2>3, <2>4, AnalyzeKeepsInv
<1>3. ASSUME NEW demand \in Demands,
             \/ SttTranscribe(demand) \/ SttTranscribeSegment(demand)
             \/ PlaygroundSttTranscribe(demand) \/ GrpcTranscribe(demand)
      PROVE  ServiceInv'
  <2>1. process = "serving"
    BY <1>3 DEF SttTranscribe, SttTranscribeSegment, PlaygroundSttTranscribe, GrpcTranscribe,
                Arrives
  <2>2. PICK endpoint \in SttEndpoints :
        \E handed : /\ HandedFits(demand, handed)
                    /\ Transcribe(endpoint, demand, handed, OptionsOf(endpoint, demand.named))
    <3>1. CASE SttTranscribe(demand)
      <4>1. OptionsOf("stt/transcribe", demand.named) =
                OptionsFromRequest(NamedOutside(demand.named), config)
        BY DEF OptionsOf
      <4>. QED  BY <3>1, <4>1, UploadFits DEF SttTranscribe, SttEndpoints
    <3>2. CASE SttTranscribeSegment(demand)
      <4>1. OptionsOf("stt/transcribe/segment", demand.named) =
                OptionsFromRequest(demand.named, config)
        BY DEF OptionsOf
      <4>. QED  BY <3>2, <4>1, OthersFit DEF SttTranscribeSegment, Arrives, SttEndpoints
    <3>3. CASE PlaygroundSttTranscribe(demand)
      <4>1. OptionsOf("playground/stt-transcribe", demand.named) =
                OptionsFromRequest(demand.named, config)
        BY DEF OptionsOf
      <4>. QED  BY <3>3, <4>1, OthersFit DEF PlaygroundSttTranscribe, Arrives, SttEndpoints
    <3>4. CASE GrpcTranscribe(demand)
      <4>1. OptionsOf("Transcribe", demand.named) = OptionsFromMessage(demand.named, config)
        BY DEF OptionsOf
      <4>. QED  BY <3>4, <4>1, OthersFit DEF GrpcTranscribe, Arrives, SttEndpoints
    <3>. QED  BY <1>3, <3>1, <3>2, <3>3, <3>4
  <2>3. PICK handed : /\ HandedFits(demand, handed)
                      /\ Transcribe(endpoint, demand, handed,
                                    OptionsOf(endpoint, demand.named))
    BY <2>2
  <2>. QED  BY <2>1, <2>3, TranscribeKeepsInv
<1>. QED  BY <1>1, <1>2, <1>3 DEF Requests

LEMMA ServiceStepInv ==
  ASSUME ServiceInv, [ServiceNext]_serviceVars
  PROVE  ServiceInv'
<1>1. CASE Configure
  <2>1. /\ process = "starting" /\ process' = "configured"
        /\ config' = LoadConfig(setup.argv, setup.files, setup.env)
        /\ UNCHANGED <<setup, recognizers, ready, exchange>>
    BY <1>1 DEF Configure
  <2>2. StartInv'
    BY <2>1, LoadedKeys DEF ServiceInv, StartInv
  <2>3. LoadInv'
    BY <2>1 DEF ServiceInv, LoadInv
  <2>. QED  BY <2>1, <2>2, <2>3, NothingExchanged
<1>2. CASE Abort
  <2>1. /\ process = "starting" /\ process' = "aborted"
        /\ UNCHANGED <<setup, config, recognizers, ready, exchange>>
    BY <1>2 DEF Abort
  <2>2. StartInv' /\ LoadInv'
    BY <2>1 DEF ServiceInv, StartInv, LoadInv
  <2>. QED  BY <2>1, <2>2, NothingExchanged
<1>3. CASE LoadModels
  <2>1. /\ process = "configured" /\ process' = "serving"
        /\ UNCHANGED <<setup, config, ready, exchange>>
    BY <1>3 DEF LoadModels
  <2>2. StartInv'
    BY <2>1 DEF ServiceInv, StartInv
  <2>3. PICK created \in SUBSET {"parakeet", "whisper"} :
            recognizers' =
                IF config["enabled"] = "true"
                THEN [parakeet |-> Resolves("parakeet", ParakeetDir) /\ "parakeet" \in created,
                      whisper  |-> Resolves("whisper", WhisperDir) /\ "whisper" \in created,
                      whisper_label |-> IF Resolves("whisper", WhisperDir)
                                        THEN WhisperLabel ELSE ""]
                ELSE NothingLoaded
    BY <1>3 DEF LoadModels
  <2>4. LoadInv'
    <3>1. CASE config["enabled"] = "true"
      <4>1. PICK p \in BOOLEAN, w \in BOOLEAN, label \in {"", "turbo", "callcenter"} :
                recognizers' = [parakeet |-> p, whisper |-> w, whisper_label |-> label]
        <5>1. WhisperLabel \in {"turbo", "callcenter"}
          BY DEF WhisperLabel
        <5>2. /\ Resolves("parakeet", ParakeetDir) \in BOOLEAN
              /\ Resolves("whisper", WhisperDir) \in BOOLEAN
          BY DEF Resolves
        <5>. QED  BY <2>3, <3>1, <5>1, <5>2
      <4>. QED  BY <2>1, <3>1, <4>1 DEF LoadInv
    <3>2. CASE config["enabled"] # "true"
      BY <2>1, <2>3, <3>2 DEF LoadInv, NothingLoaded
    <3>. QED  BY <3>1, <3>2
  <2>. QED  BY <2>1, <2>2, <2>4, NothingExchanged
<1>4. CASE Requests
  BY <1>4, RequestsKeepInv
<1>5. CASE UNCHANGED serviceVars
  <2>1. UNCHANGED <<setup, process, config, recognizers, ready, exchange>>
    BY <1>5 DEF serviceVars
  <2>2. StartInv' /\ LoadInv' /\ FileInv' /\ ExchangeInv'
    BY <2>1, ExchangeStays
  <2>3. ReadyInv'
    BY <2>1 DEF ServiceInv, ReadyInv, ListedModels, Engine!ModelChoices
  <2>. QED  BY <2>2, <2>3 DEF ServiceInv
<1>. QED  BY <1>1, <1>2, <1>3, <1>4, <1>5 DEF ServiceNext

\* The process knows of its start what it was started with, in every state.
THEOREM ServiceInvariance == ServiceSpec => []ServiceInv
<1>1. ServiceInit => ServiceInv
  BY ServiceInitInv
<1>2. ServiceInv /\ [ServiceNext]_serviceVars => ServiceInv'
  BY ServiceStepInv
<1>. QED  BY <1>1, <1>2, PTL DEF ServiceSpec

-----------------------------------------------------------------------------
(***************************************************************************)
(* What follows from it.                                                   *)
(***************************************************************************)
LEMMA InvIsTyped == ServiceInv => ServiceTypeOK
  BY DEF ServiceInv, StartInv, LoadInv, ReadyInv, ExchangeInv, ServiceTypeOK

\* The variables of the service keep their types, whatever it is started with
\* and asked for (main.cpp, engine.cpp, rest_server.cpp, grpc_server.cpp).
THEOREM ServiceTypeCorrect == ServiceSpec => []ServiceTypeOK
  BY ServiceInvariance, InvIsTyped, PTL

LEMMA InvLanguage == ServiceInv => LanguageIsTheOneAskedFor
<1> SUFFICES ASSUME ServiceInv, Transcribed
             PROVE  /\ \A text \in NamedLanguages :
                           NamedLanguages = {text} => exchange.options.language = text
                    /\ NamedLanguages = {} => exchange.options.language \in Declared("language")
  BY DEF LanguageIsTheOneAskedFor
<1> DEFINE named == exchange.demand.named
           endpoint == exchange.endpoint
<1>1. exchange.options = WithLanguage(OptionsOf(endpoint, named), config)
  BY DEF ServiceInv, ExchangeInv
<1>2. config["language"] \in Declared("language")
  <2>1. process = "serving"
    BY DEF ServiceInv, ExchangeInv, Transcribed, SttEndpoints
  <2>2. config = LoadConfig(setup.argv, setup.files, setup.env)
    BY <2>1 DEF ServiceInv, StartInv
  <2>. QED  BY <2>2, LoadedIsDeclared
<1>3. CASE endpoint = "stt/transcribe"
  <2>1. OptionsOf(endpoint, named) = OptionsFromRequest(NamedOutside(named), config)
    BY <1>3 DEF OptionsOf
  <2>2. NamedLanguages = {named.header_language} \ {Absent, ""}
    BY <1>3 DEF NamedLanguages
  <2>3. /\ NamedOutside(named).body_language = Absent
        /\ NamedOutside(named).header_language = named.header_language
    BY DEF NamedOutside
  <2>4. {named.header_language, Absent} \ {Absent, ""} = NamedLanguages
    BY <2>2
  <2>5. LET asked == WithLanguage(OptionsOf(endpoint, named), config).language
        IN  /\ \A text \in NamedLanguages : NamedLanguages = {text} => asked = text
            /\ NamedLanguages = {} => asked = config["language"]
    <3> DEFINE outside == NamedOutside(named)
               texts == {outside.header_language, outside.body_language} \ {Absent, ""}
    <3>1. texts = NamedLanguages
      BY <2>3, <2>4
    <3> HIDE DEF outside
    <3>2. LET asked == WithLanguage(OptionsFromRequest(outside, config), config).language
          IN  /\ \A text \in texts : texts = {text} => asked = text
              /\ texts = {} => asked = config["language"]
      BY LanguageOfRequest
    <3>3. OptionsOf(endpoint, named) = OptionsFromRequest(outside, config)
      BY <2>1 DEF outside
    <3> HIDE DEF texts
    <3>. QED  BY <3>1, <3>2, <3>3
  <2>. QED  BY <1>1, <1>2, <2>5
<1>4. CASE endpoint = "Transcribe"
  <2>1. OptionsOf(endpoint, named) = OptionsFromMessage(named, config)
    BY <1>4 DEF OptionsOf
  <2>2. NamedLanguages = {named.body_language} \ {Absent, ""}
    BY <1>4 DEF NamedLanguages
  <2>. QED  BY <1>1, <1>2, <2>1, <2>2, LanguageOfMessage
<1>5. CASE endpoint \notin {"stt/transcribe", "Transcribe"}
  <2>1. OptionsOf(endpoint, named) = OptionsFromRequest(named, config)
    BY <1>5 DEF OptionsOf
  <2>2. NamedLanguages = {named.header_language, named.body_language} \ {Absent, ""}
    BY <1>5 DEF NamedLanguages
  <2>. QED  BY <1>1, <1>2, <2>1, <2>2, LanguageOfRequest
<1>. QED  BY <1>3, <1>4, <1>5

\* A transcription is marked with the language of its request, or with the one
\* that the environment, or else the file, sets (model_util.cpp, config.cpp).
THEOREM LanguageAskedFor == ServiceSpec => []LanguageIsTheOneAskedFor
  BY ServiceInvariance, InvLanguage, PTL

LEMMA InvModel == ServiceInv => ModelIsTheOneAskedFor
<1> SUFFICES ASSUME ServiceInv, Transcribed
             PROVE  /\ \A m \in DOMAIN ModelAliases :
                           NamedModels = {m} => exchange.options.model = ModelAliases[m]
                    /\ NamedModels = {} =>
                           exchange.options.model \in {ParseModelChoice(text, "auto") :
                                                         text \in Declared("default_model")}
                    /\ exchange.options.model # "auto" =>
                           exchange.result.model \in {exchange.options.model, "none"}
  BY DEF ModelIsTheOneAskedFor
<1> DEFINE named == exchange.demand.named
           endpoint == exchange.endpoint
           read == OptionsOf(endpoint, named).model
<1>1. exchange.options.model = read
  <2>1. exchange.options = WithLanguage(OptionsOf(endpoint, named), config)
    BY DEF ServiceInv, ExchangeInv
  <2>2. OptionsOf(endpoint, named).model = WithLanguage(OptionsOf(endpoint, named), config).model
    BY DEF WithLanguage, OptionsOf, OptionsFromRequest, OptionsFromMessage
  <2>. QED  BY <2>1, <2>2
<1>2. config["default_model"] \in Declared("default_model")
  <2>1. process = "serving"
    BY DEF ServiceInv, ExchangeInv, Transcribed, SttEndpoints
  <2>2. config = LoadConfig(setup.argv, setup.files, setup.env)
    BY <2>1 DEF ServiceInv, StartInv
  <2>. QED  BY <2>2, LoadedIsDeclared
<1>3. DefaultModelChoice(config) \in {ParseModelChoice(text, "auto") :
                                         text \in Declared("default_model")}
  BY <1>2 DEF DefaultModelChoice
<1>4. /\ \A m \in DOMAIN ModelAliases : NamedModels = {m} => read = ModelAliases[m]
      /\ NamedModels = {} => read = DefaultModelChoice(config)
  <2>1. CASE endpoint = "stt/transcribe"
    <3> DEFINE outside == NamedOutside(named)
               body == IF outside.query_model = "" THEN Absent ELSE outside.body_model
    <3>1. NamedModels = {outside.header_model, outside.query_model, body} \ {Absent, ""}
      <4>1. /\ outside.header_model = named.header_model
            /\ outside.query_model = named.query_model /\ outside.body_model = Absent
        BY DEF NamedOutside
      <4>2. NamedModels = {named.header_model, named.query_model} \ {Absent, ""}
        BY <2>1 DEF NamedModels
      <4>. QED  BY <4>1, <4>2
    <3>2. read = OptionsFromRequest(outside, config).model
      BY <2>1 DEF OptionsOf
    <3> HIDE DEF outside, read
    <3>. QED  BY <3>1, <3>2, ModelOfRequest
  <2>2. CASE endpoint = "Transcribe"
    <3>1. NamedModels = {named.body_model} \ {Absent, ""}
      BY <2>2 DEF NamedModels
    <3>2. read = OptionsFromMessage(named, config).model
      BY <2>2 DEF OptionsOf
    <3>. QED  BY <3>1, <3>2, ModelOfMessage
  <2>3. CASE endpoint \notin {"stt/transcribe", "Transcribe"}
    <3>1. NamedModels = {named.header_model, named.query_model,
                         IF named.query_model = "" THEN Absent ELSE named.body_model}
                        \ {Absent, ""}
      BY <2>3 DEF NamedModels
    <3>2. read = OptionsFromRequest(named, config).model
      BY <2>3 DEF OptionsOf
    <3>. QED  BY <3>1, <3>2, ModelOfRequest
  <2>. QED  BY <2>1, <2>2, <2>3
<1>5. ResultFits(exchange.options.model, exchange.result)
  BY DEF ServiceInv, ExchangeInv
<1> HIDE DEF read
<1>. QED  BY <1>1, <1>3, <1>4, <1>5 DEF ResultFits

\* A transcription is made with the model of its request, or with the one that
\* the environment, or else the file, makes the default, and no other model
\* answers for one that was named (model_util.cpp, config.cpp, engine.cpp).
THEOREM ModelAskedFor == ServiceSpec => []ModelIsTheOneAskedFor
  BY ServiceInvariance, InvModel, PTL

LEMMA InvReady == ServiceInv => ReadyTellsWhatAnswers
<1> SUFFICES ASSUME ServiceInv, ready.asked, Transcribed
             PROVE  /\ exchange.options.model \in ready.models \ {"auto"} =>
                           exchange.result.model = exchange.options.model
                    /\ exchange.result.ok => exchange.result.model \in ready.models
                    /\ ready.status = "unavailable" => ~ exchange.result.ok
  BY DEF ReadyTellsWhatAnswers
<1>1. ready.models = ListedModels /\ (ready.status = "unavailable" => ListedModels = {})
  BY DEF ServiceInv, ReadyInv
<1>2. ResultFits(exchange.options.model, exchange.result)
  BY DEF ServiceInv, ExchangeInv
<1>3. /\ recognizers.parakeet <=> "parakeet" \in ListedModels
      /\ recognizers.whisper <=> "whisper" \in ListedModels
  BY DEF ListedModels
<1>4. ListedModels \ {"auto"} \subseteq {"parakeet", "whisper"}
  BY DEF ListedModels
<1>. QED  BY <1>1, <1>2, <1>3, <1>4 DEF ResultFits

\* A model that /v1/stt/ready lists answers, and one that it does not list never
\* does, however many requests come between the two (engine.cpp, rest_server.cpp).
THEOREM ReadyIsTrue == ServiceSpec => []ReadyTellsWhatAnswers
  BY ServiceInvariance, InvReady, PTL

-----------------------------------------------------------------------------
(***************************************************************************)
(* The reads of the WAV parser.                                            *)
(***************************************************************************)
LEMMA ReachedIsAChunk ==
  ASSUME NEW wav, NEW id, ReachedChunk(wav, id) # 0
  PROVE  ReachedChunk(wav, id) \in 1 .. Len(wav.chunks)
  BY DEF ReachedChunk

\* The last of the n samples of c channels that d bytes hold ends inside them.
LEMMA LastSampleFits ==
  ASSUME NEW d \in Nat, NEW c \in Nat, c >= 1, NEW n \in Nat, n = SampleCount(d, c),
         NEW i \in 0 .. n - 1
  PROVE  i * 2 * c + 2 <= d
<1> DEFINE q == d \div c
<1>1. q \in Nat /\ c * q <= d
  <2>1. c \in Nat \ {0}
    OBVIOUS
  <2>2. d = (c * q) + (d % c) /\ d % c >= 0 /\ q \in Nat /\ d % c \in Nat
    BY <2>1
  <2>. QED  BY <2>1, <2>2
<1>2. 2 * n <= q
  BY <1>1 DEF SampleCount
<1> HIDE DEF q
<1>3. 2 * (i + 1) <= q
  BY <1>1, <1>2
<1>4. c * (2 * (i + 1)) <= c * q
  BY <1>1, <1>3
<1>5. c * (2 * (i + 1)) = i * 2 * c + 2 * c
  OBVIOUS
<1>6. i * 2 * c + 2 * c <= d
  BY <1>1, <1>4, <1>5
<1>. QED  BY <1>6

LEMMA InvReads == ServiceInv => ReadsStayInTheFile
<1> SUFFICES ASSUME ServiceInv, exchange.demand.audio.content = "wav", ~ exchange.handed.refused
             PROVE  LET wav == exchange.demand.audio.file
                    IN  \A i \in 0 .. Len(SamplesOf(wav)) - 1 :
                            SampleAt(DataOffset(wav), FieldsRead(wav).channels, i) + 2
                                <= wav.size
  BY DEF ReadsStayInTheFile
<1> DEFINE wav == exchange.demand.audio.file
           channels == FieldsRead(wav).channels
           size == DataSize(wav)
           offset == DataOffset(wav)
           count == SampleCount(size, channels)
<1>1. WellFormedFile(wav) /\ Takes(wav)
  BY DEF ServiceInv, FileInv
<1>2. channels \in Nat /\ channels >= 1
  <2>1. FieldsRead(wav) \in Fields
    <3>1. NoFields \in Fields
      BY DEF NoFields, Fields
    <3>. QED  BY <1>1, <3>1, ReachedIsAChunk DEF FieldsRead, WellFormedFile
  <2>. QED  BY <1>1, <2>1 DEF Takes, Fields
<1>3. size \in Nat /\ offset \in Nat /\ wav.size \in Nat
  <2> DEFINE k == ReachedChunk(wav, "data")
  <2>1. k # 0 => k \in 1 .. Len(wav.chunks)
    BY ReachedIsAChunk
  <2> HIDE DEF k
  <2>2. k # 0 => wav.chunks[k].at \in Nat /\ wav.chunks[k].declared \in Nat
    BY <1>1, <2>1 DEF WellFormedFile
  <2>3. /\ size = IF k = 0 THEN 0 ELSE wav.chunks[k].declared
        /\ offset = IF k = 0 THEN 0 ELSE wav.chunks[k].at + 8
    BY DEF DataSize, DataOffset, At, k
  <2>4. wav.size \in Nat
    BY <1>1 DEF WellFormedFile
  <2> HIDE DEF size, offset
  <2>. QED  BY <2>2, <2>3, <2>4
<1>4. offset + size <= wav.size
  BY <1>1 DEF Takes
<1>5. count \in Nat
  BY <1>2, <1>3 DEF SampleCount
<1>6. Len(SamplesOf(wav)) = count
  BY <1>5 DEF SamplesOf
<1> HIDE DEF size, offset, channels, count, wav
<1>7. ASSUME NEW i \in 0 .. count - 1
      PROVE  SampleAt(offset, channels, i) + 2 <= wav.size
  <2>1. i * 2 * channels + 2 <= size
    BY <1>2, <1>3, <1>5, LastSampleFits DEF count
  <2>2. i * 2 * channels \in Nat
    BY <1>2, <1>5
  <2>. QED  BY <1>3, <1>4, <2>1, <2>2 DEF SampleAt
<1>. QED  BY <1>6, <1>7 DEF size, offset, channels, count, wav

\* No sample is read behind the end of a file, whatever sizes its chunks declare
\* (wav.cpp: the one comparison of the end of the data with that of the file).
THEOREM ReadsAreInTheFile == ServiceSpec => []ReadsStayInTheFile
  BY ServiceInvariance, InvReads, PTL
-----------------------------------------------------------------------------
(***************************************************************************)
(* The service with the page.                                              *)
(***************************************************************************)
\* Nothing that the page does is a step of the service: it keeps no state of
\* the requests of pack-rtp, decode-rtp and the WebSocket analysis.
LEMMA PageLeavesTheService == PageNext => UNCHANGED serviceVars
  BY DEF PageNext, Record, ChangeConfig, PreviewArrives, PreviewFails, GenerateVariants,
         VariantsArrive, VariantsFail, AnalyzeWebSocket, SendFrame, SkipFrame, CloseAnalysis,
         Used

\* The service with the page is the service: a run of both is, seen from the
\* variables of the service, a run of it.
THEOREM PageImplementsService == Spec => ServiceSpec
<1>1. Init => ServiceInit
  BY DEF Init
<1>2. [Next]_<<serviceVars, pageVars>> => [ServiceNext]_serviceVars
  BY PageLeavesTheService DEF Next
<1>. QED  BY <1>1, <1>2, PTL DEF Spec, ServiceSpec

\* The promises of the service, on the specification that the runs check.
THEOREM PageKeepsPromises ==
  Spec => [](/\ ServiceTypeOK /\ ModelIsTheOneAskedFor /\ LanguageIsTheOneAskedFor
             /\ ReadyTellsWhatAnswers /\ ReadsStayInTheFile)
<1>1. ServiceInv => /\ ServiceTypeOK /\ ModelIsTheOneAskedFor /\ LanguageIsTheOneAskedFor
                    /\ ReadyTellsWhatAnswers /\ ReadsStayInTheFile
  BY InvIsTyped, InvModel, InvLanguage, InvReady, InvReads
<1>. QED  BY <1>1, PageImplementsService, ServiceInvariance, PTL
-----------------------------------------------------------------------------
(***************************************************************************)
(* The preview panel.  The page's operators are functions from page to     *)
(* page, so each of them has a lemma, and the actions put them together.   *)
(***************************************************************************)
PageFields == {"take", "pcm", "codec", "changes", "comparisons", "original", "current",
               "variants", "urls", "age", "requests", "error", "generating", "compared"}

UrlFields == {"live", "take", "codec", "recorded", "shown", "samples"}

\* A page has its fields, its URLs are a sequence of records, and what it shows
\* are numbers of URLs.
PageFormed(p) ==
    /\ DOMAIN p = PageFields
    /\ \E S : p.urls \in Seq(S)
    /\ \A k \in 1 .. Len(p.urls) : DOMAIN p.urls[k] = UrlFields

\* What is alive and has been shown is on the screen, but for these numbers.
AccountedBut(p, numbers) ==
    \A k \in 1 .. Len(p.urls) :
        p.urls[k].live /\ p.urls[k].shown => k \in Shown(p) \cup numbers

LEMMA RevokedPage ==
  ASSUME NEW p, NEW numbers, PageFormed(p)
  PROVE  LET r == Revoke(p, numbers)
         IN  /\ PageFormed(r)
             /\ \A f \in PageFields \ {"urls"} : r[f] = p[f]
             /\ Len(r.urls) = Len(p.urls)
             /\ \A k \in 1 .. Len(p.urls) :
                    /\ r.urls[k].live => p.urls[k].live /\ k \notin numbers
                    /\ \A f \in UrlFields \ {"live"} : r.urls[k][f] = p.urls[k][f]
<1>. DEFINE r == Revoke(p, numbers)
            one(k) == IF k \in numbers THEN [p.urls[k] EXCEPT !.live = FALSE] ELSE p.urls[k]
<1>1. DOMAIN r = PageFields /\ \A f \in PageFields \ {"urls"} : r[f] = p[f]
  BY DEF PageFormed, Revoke, PageFields
<1>2. r.urls = [k \in DOMAIN p.urls |-> one(k)]
  BY DEF PageFormed, Revoke, PageFields
<1>3. PICK S : p.urls \in Seq(S)
  BY DEF PageFormed
<1>4. DOMAIN p.urls = 1 .. Len(p.urls) /\ Len(p.urls) \in Nat
  BY <1>3
<1>. DEFINE T == {one(k) : k \in 1 .. Len(p.urls)}
<1>5. r.urls \in [1 .. Len(p.urls) -> T]
  BY <1>2, <1>4
<1>6. r.urls \in Seq(T) /\ Len(r.urls) = Len(p.urls)
  BY <1>4, <1>5
<1>7. ASSUME NEW k \in 1 .. Len(p.urls)
      PROVE  /\ DOMAIN one(k) = UrlFields
             /\ one(k).live => p.urls[k].live /\ k \notin numbers
             /\ \A f \in UrlFields \ {"live"} : one(k)[f] = p.urls[k][f]
  BY DEF PageFormed, UrlFields
<1>8. \A k \in 1 .. Len(p.urls) : r.urls[k] = one(k)
  BY <1>2, <1>4
<1>9. PageFormed(r)
  BY <1>1, <1>6, <1>7, <1>8 DEF PageFormed
<1>. QED  BY <1>1, <1>6, <1>7, <1>8, <1>9

\* What two pages have in common that differ in what is alive and in these fields.
SameBut(r, p, fields) ==
    /\ \A f \in PageFields \ ({"urls"} \cup fields) : r[f] = p[f]
    /\ Len(r.urls) = Len(p.urls)
    /\ \A k \in 1 .. Len(p.urls) :
           \A f \in UrlFields \ {"live"} : r.urls[k][f] = p.urls[k][f]

\* A URL is shown: what was shown with the preview before it is revoked.
LEMMA ShownCurrent ==
  ASSUME NEW p, NEW url, PageFormed(p)
  PROVE  LET r == ShowCurrent(p, url)
         IN  /\ PageFormed(r) /\ SameBut(r, p, {"current"}) /\ r.current = url
             /\ AccountedBut(p, {url}) => AccountedBut(r, {})
<1>. DEFINE r == ShowCurrent(p, url)
            c == CleanUp(p)
<1>1. CASE url = p.current
  <2>1. r = p
    BY <1>1 DEF ShowCurrent
  <2>2. AccountedBut(p, {url}) => AccountedBut(p, {})
    BY <1>1 DEF AccountedBut, Shown
  <2>. QED  BY <1>1, <2>1, <2>2 DEF SameBut
<1>2. CASE url # p.current
  <2>1. /\ PageFormed(c)
        /\ \A f \in PageFields \ {"urls"} : c[f] = p[f]
        /\ Len(c.urls) = Len(p.urls)
        /\ \A k \in 1 .. Len(p.urls) :
               /\ c.urls[k].live => p.urls[k].live /\ k \notin Shown(p)
               /\ \A f \in UrlFields \ {"live"} : c.urls[k][f] = p.urls[k][f]
    BY RevokedPage DEF CleanUp
  <2>2. r = [c EXCEPT !.current = url]
    BY <1>2 DEF ShowCurrent
  <2>. HIDE DEF c, r
  <2>3. DOMAIN c = PageFields
    BY <2>1 DEF PageFormed
  <2>4. /\ DOMAIN r = PageFields /\ r.current = url /\ r.urls = c.urls
        /\ \A f \in PageFields \ {"current"} : r[f] = c[f]
    BY <2>2, <2>3 DEF PageFields
  <2>5. PageFormed(r)
    BY <2>1, <2>4 DEF PageFormed
  <2>6. SameBut(r, p, {"current"})
    BY <2>1, <2>4 DEF SameBut
  <2>7. ASSUME AccountedBut(p, {url}), NEW k \in 1 .. Len(r.urls), r.urls[k].live, r.urls[k].shown
        PROVE  k \in Shown(r) \cup {}
    <3>1. k \in 1 .. Len(p.urls) /\ c.urls[k].live /\ c.urls[k].shown
      BY <2>1, <2>4, <2>7
    <3>2. p.urls[k].live /\ p.urls[k].shown /\ k \notin Shown(p)
      BY <2>1, <3>1 DEF UrlFields
    <3>3. k = url
      BY <2>7, <3>1, <3>2 DEF AccountedBut
    <3>. QED  BY <3>3, <2>4 DEF Shown
  <2>. QED  BY <2>4, <2>5, <2>6, <2>7 DEF AccountedBut, r
<1>. QED  BY <1>1, <1>2

LEMMA AppendedUrl ==
  ASSUME NEW p, PageFormed(p), NEW url, DOMAIN url = UrlFields,
         NEW q, DOMAIN q = PageFields, q.urls = Append(p.urls, url)
  PROVE  /\ PageFormed(q)
         /\ Len(p.urls) \in Nat /\ Len(q.urls) = Len(p.urls) + 1
         /\ q.urls[Len(q.urls)] = url
         /\ \A k \in 1 .. Len(p.urls) : q.urls[k] = p.urls[k]
<1>1. PICK S : p.urls \in Seq(S)
  BY DEF PageFormed
<1>. DEFINE T == S \cup {url}
<1>2. p.urls \in Seq(T)
  BY <1>1
<1>3. /\ q.urls \in Seq(T) /\ Len(p.urls) \in Nat /\ Len(q.urls) = Len(p.urls) + 1
      /\ q.urls[Len(p.urls) + 1] = url
      /\ \A k \in 1 .. Len(p.urls) : q.urls[k] = p.urls[k]
  <2>. HIDE DEF T
  <2>1. url \in T
    BY DEF T
  <2>. QED  BY <1>2, <2>1
<1>4. ASSUME NEW k \in 1 .. Len(q.urls)
      PROVE  DOMAIN q.urls[k] = UrlFields
  <2>1. k \in 1 .. Len(p.urls) \/ k = Len(p.urls) + 1
    BY <1>3
  <2>. QED  BY <1>3, <2>1 DEF PageFormed
<1>5. PageFormed(q)
  BY <1>3, <1>4 DEF PageFormed
<1>. QED  BY <1>3, <1>5

\* The requests that are waited for: none was made by a run of the effect that
\* is yet to come, and the one of the last run is about what is on the screen.
Counted(p) ==
    /\ p.age \in Nat
    /\ \A request \in p.requests :
           /\ request.age \in Nat /\ request.age <= p.age
           /\ request.age = p.age => request.take = p.take /\ request.codec = p.codec

Newest(p) ==
    /\ p.current \in 0 .. Len(p.urls)
    /\ p.current # 0 /\ (\A request \in p.requests : request.age < p.age) =>
           /\ p.urls[p.current].take = p.take
           /\ p.urls[p.current].codec = p.codec

PageInv(p) == PageFormed(p) /\ Counted(p) /\ Newest(p) /\ AccountedBut(p, {})

\* An answer keeps the invariant, whether it is still waited for or not; the one
\* that is waited for needs nothing to be known of the preview before it.
LEMMA PreviewKeeps ==
  ASSUME NEW p, NEW request,
         PageFormed(p), Counted(p), AccountedBut(p, {}), p.current \in 0 .. Len(p.urls),
         request.age \in Nat, request.age <= p.age,
         request.age = p.age => request.take = p.take /\ request.codec = p.codec,
         request.age # p.age => Newest(p)
  PROVE  PageInv(Preview(p, request))
<1>. DEFINE waited == request.age = p.age
            url    == Url(request.pcm, request.take, request.codec, waited)
            made   == [p EXCEPT !.urls = Append(@, url), !.requests = @ \ {request}]
<1>1. /\ DOMAIN url = UrlFields
      /\ url.take = request.take /\ url.codec = request.codec /\ url.shown = waited
  BY DEF Url, UrlFields
<1>2. Preview(p, request) = IF waited THEN ShowCurrent(made, Len(made.urls)) ELSE made
  BY DEF Preview
<1>. HIDE DEF url
<1>3. /\ DOMAIN made = PageFields /\ made.urls = Append(p.urls, url)
      /\ made.requests = p.requests \ {request}
      /\ \A f \in PageFields \ {"urls", "requests"} : made[f] = p[f]
  BY DEF PageFormed, PageFields
<1>. HIDE DEF made
<1>4. /\ PageFormed(made)
      /\ Len(p.urls) \in Nat /\ Len(made.urls) = Len(p.urls) + 1
      /\ made.urls[Len(made.urls)] = url
      /\ \A k \in 1 .. Len(p.urls) : made.urls[k] = p.urls[k]
  BY <1>1, <1>3, AppendedUrl
<1>5. /\ made.age = p.age /\ made.take = p.take /\ made.codec = p.codec
      /\ made.current = p.current /\ made.original = p.original /\ made.variants = p.variants
  BY <1>3 DEF PageFields
<1>6. Counted(made)
  BY <1>3, <1>5 DEF Counted
<1>7. Shown(made) = Shown(p)
  BY <1>5 DEF Shown
<1>8. CASE waited
  <2>. DEFINE r == ShowCurrent(made, Len(made.urls))
  <2>1. AccountedBut(made, {Len(made.urls)})
    BY <1>4, <1>7 DEF AccountedBut
  <2>2. /\ PageFormed(r) /\ SameBut(r, made, {"current"}) /\ r.current = Len(made.urls)
        /\ AccountedBut(r, {})
    BY <1>4, <2>1, ShownCurrent
  <2>. HIDE DEF r
  <2>3. /\ r.age = made.age /\ r.take = made.take /\ r.codec = made.codec
        /\ r.requests = made.requests /\ Len(r.urls) = Len(made.urls)
    BY <2>2 DEF SameBut, PageFields
  <2>4. Counted(r)
    BY <1>6, <2>3 DEF Counted
  <2>5. Len(made.urls) \in 1 .. Len(made.urls)
    BY <1>4
  <2>6. r.urls[r.current].take = url.take /\ r.urls[r.current].codec = url.codec
    BY <1>4, <2>2, <2>5 DEF SameBut, UrlFields
  <2>7. Newest(r)
    BY <1>1, <1>5, <1>8, <2>2, <2>3, <2>5, <2>6 DEF Newest
  <2>. QED  BY <1>2, <1>8, <2>2, <2>4, <2>7 DEF PageInv, r
<1>9. CASE ~ waited
  <2>1. AccountedBut(made, {})
    <3>1. SUFFICES ASSUME NEW k \in 1 .. Len(made.urls), made.urls[k].live, made.urls[k].shown
                   PROVE  k \in Shown(made) \cup {}
      BY DEF AccountedBut
    <3>2. k # Len(made.urls)
      BY <1>1, <1>4, <1>9, <3>1
    <3>. QED  BY <1>4, <1>7, <3>1, <3>2 DEF AccountedBut
  <2>2. Newest(made)
    <3>1. Newest(p) /\ p.age \in Nat
      BY <1>9 DEF Counted
    <3>2. made.current \in 0 .. Len(made.urls)
      BY <1>4, <1>5
    <3>3. ASSUME made.current # 0, \A other \in made.requests : other.age < made.age
          PROVE  /\ made.urls[made.current].take = made.take
                 /\ made.urls[made.current].codec = made.codec
      <4>1. \A other \in p.requests : other.age < p.age
        BY <1>3, <1>5, <1>9, <3>1, <3>3
      <4>2. made.urls[made.current] = p.urls[p.current]
        BY <1>4, <1>5, <3>3
      <4>. QED  BY <1>5, <3>1, <3>3, <4>1, <4>2 DEF Newest
    <3>. QED  BY <3>2, <3>3 DEF Newest
  <2>. QED  BY <1>2, <1>4, <1>6, <1>9, <2>1, <2>2 DEF PageInv
<1>. QED  BY <1>8, <1>9

\* What is left of the invariant while the recording or the settings have
\* changed and the effect has not run yet.
Changing(p) ==
    /\ PageFormed(p) /\ AccountedBut(p, {})
    /\ p.current \in 0 .. Len(p.urls)
    /\ p.age \in Nat
    /\ \A request \in p.requests : request.age \in Nat /\ request.age <= p.age

LEMMA InvAllowsChange ==
  ASSUME NEW p, PageInv(p)
  PROVE  Changing(p)
  BY DEF PageInv, Changing, Counted, Newest

\* A preview that is shown as none.
LEMMA NoneShown ==
  ASSUME NEW p, PageFormed(p), Counted(p), AccountedBut(p, {})
  PROVE  PageInv(ShowCurrent(p, 0))
<1>. DEFINE r == ShowCurrent(p, 0)
<1>1. AccountedBut(p, {0})
  BY DEF AccountedBut
<1>2. PageFormed(r) /\ SameBut(r, p, {"current"}) /\ r.current = 0 /\ AccountedBut(r, {})
  BY <1>1, ShownCurrent
<1>. HIDE DEF r
<1>3. /\ r.age = p.age /\ r.take = p.take /\ r.codec = p.codec /\ r.requests = p.requests
  BY <1>2 DEF SameBut, PageFields
<1>4. Counted(r)
  BY <1>3 DEF Counted
<1>5. Len(r.urls) \in Nat
  BY <1>2 DEF PageFormed
<1>6. Newest(r)
  BY <1>2, <1>5 DEF Newest
<1>. QED  BY <1>2, <1>4, <1>6 DEF PageInv, r

\* The effect that runs after a change restores the invariant: every request
\* there is has become an older one.
LEMMA EffectRestores ==
  ASSUME NEW p, Changing(p)
  PROVE  PageInv(PreviewEffect(p))
<1>. DEFINE request == [age |-> p.age + 1, take |-> p.take, pcm |-> p.pcm, codec |-> p.codec]
            begun   == [p EXCEPT !.age = @ + 1, !.error = FALSE]
            empty   == [p EXCEPT !.age = @ + 1]
            asked   == [begun EXCEPT !.requests = @ \cup {request}]
<1>1. PreviewEffect(p) = IF p.pcm = << >> THEN ShowCurrent(empty, 0)
                         ELSE IF p.codec.format \in BackendFormats THEN asked
                         ELSE Preview(begun, request)
  BY DEF PreviewEffect
<1>2. DOMAIN p = PageFields
  BY DEF Changing, PageFormed
<1>3. /\ DOMAIN begun = PageFields /\ begun.age = p.age + 1
      /\ \A f \in PageFields \ {"age", "error"} : begun[f] = p[f]
      /\ DOMAIN empty = PageFields /\ empty.age = p.age + 1
      /\ \A f \in PageFields \ {"age"} : empty[f] = p[f]
  BY <1>2 DEF PageFields
<1>4. /\ DOMAIN asked = PageFields /\ asked.requests = begun.requests \cup {request}
      /\ \A f \in PageFields \ {"requests"} : asked[f] = begun[f]
  BY <1>3 DEF PageFields
<1>5. request.age = p.age + 1 /\ request.take = p.take /\ request.codec = p.codec
  OBVIOUS
<1>. HIDE DEF begun, empty, asked, request
<1>6. ASSUME NEW q, DOMAIN q = PageFields, q.age = p.age + 1,
             \A f \in PageFields \ {"age", "error"} : q[f] = p[f]
      PROVE  /\ PageFormed(q) /\ Counted(q) /\ AccountedBut(q, {})
             /\ q.current \in 0 .. Len(q.urls)
             /\ q.take = p.take /\ q.codec = p.codec /\ q.age \in Nat
             /\ \A other \in q.requests : other.age \in Nat /\ other.age < q.age
  <2>1. /\ q.urls = p.urls /\ q.take = p.take /\ q.codec = p.codec
        /\ q.requests = p.requests /\ q.current = p.current
        /\ q.original = p.original /\ q.variants = p.variants
    BY <1>6 DEF PageFields
  <2>2. PageFormed(q)
    BY <1>6, <2>1 DEF PageFormed, Changing
  <2>3. q.age \in Nat /\ \A other \in q.requests : other.age \in Nat /\ other.age < q.age
    BY <1>6, <2>1 DEF Changing
  <2>4. Counted(q)
    BY <2>3 DEF Counted
  <2>5. AccountedBut(q, {}) /\ q.current \in 0 .. Len(q.urls)
    BY <2>1 DEF Changing, AccountedBut, Shown
  <2>. QED  BY <2>1, <2>2, <2>3, <2>4, <2>5
<1>7. CASE p.pcm = << >>
  BY <1>1, <1>3, <1>6, <1>7, NoneShown
<1>8. CASE p.pcm # << >> /\ p.codec.format \in BackendFormats
  <2>1. /\ PageFormed(begun) /\ Counted(begun) /\ AccountedBut(begun, {})
        /\ begun.current \in 0 .. Len(begun.urls)
        /\ begun.take = p.take /\ begun.codec = p.codec /\ begun.age \in Nat
    BY <1>3, <1>6
  <2>2. /\ asked.urls = begun.urls /\ asked.take = begun.take /\ asked.codec = begun.codec
        /\ asked.age = begun.age /\ asked.current = begun.current
        /\ asked.original = begun.original /\ asked.variants = begun.variants
    BY <1>4 DEF PageFields
  <2>3. PageFormed(asked) /\ AccountedBut(asked, {})
    BY <1>4, <2>1, <2>2 DEF PageFormed, AccountedBut, Shown
  <2>4. Counted(asked)
    BY <1>3, <1>4, <1>5, <2>1, <2>2 DEF Counted
  <2>5. request \in asked.requests /\ ~ (request.age < asked.age)
    BY <1>3, <1>4, <1>5, <2>1, <2>2
  <2>6. Newest(asked)
    BY <2>1, <2>2, <2>5 DEF Newest
  <2>. QED  BY <1>1, <1>8, <2>3, <2>4, <2>6 DEF PageInv
<1>9. CASE p.pcm # << >> /\ p.codec.format \notin BackendFormats
  <2>1. /\ PageFormed(begun) /\ Counted(begun) /\ AccountedBut(begun, {})
        /\ begun.current \in 0 .. Len(begun.urls)
        /\ begun.take = p.take /\ begun.codec = p.codec /\ begun.age \in Nat
    BY <1>3, <1>6
  <2>2. /\ request.age \in Nat /\ request.age = begun.age
        /\ request.take = begun.take /\ request.codec = begun.codec
    BY <1>3, <1>5, <2>1
  <2>3. PageInv(Preview(begun, request))
    BY <2>1, <2>2, PreviewKeeps
  <2>. QED  BY <1>1, <1>9, <2>3
<1>. QED  BY <1>7, <1>8, <1>9

\* The cleanup leaves nothing alive that was on the screen, and the other fields.
LEMMA CleanedUp ==
  ASSUME NEW p, PageFormed(p), AccountedBut(p, {})
  PROVE  LET c == CleanUp(p)
         IN  /\ PageFormed(c) /\ SameBut(c, p, {})
             /\ \A k \in 1 .. Len(c.urls) : ~ (c.urls[k].live /\ c.urls[k].shown)
<1>. DEFINE c == CleanUp(p)
<1>1. /\ PageFormed(c)
      /\ \A f \in PageFields \ {"urls"} : c[f] = p[f]
      /\ Len(c.urls) = Len(p.urls)
      /\ \A k \in 1 .. Len(p.urls) :
             /\ c.urls[k].live => p.urls[k].live /\ k \notin Shown(p)
             /\ \A f \in UrlFields \ {"live"} : c.urls[k][f] = p.urls[k][f]
  BY RevokedPage DEF CleanUp
<1>. HIDE DEF c
<1>2. SameBut(c, p, {})
  BY <1>1 DEF SameBut
<1>3. ASSUME NEW k \in 1 .. Len(c.urls)
      PROVE  ~ (c.urls[k].live /\ c.urls[k].shown)
  BY <1>1, <1>3 DEF AccountedBut, UrlFields
<1>. QED  BY <1>1, <1>2, <1>3 DEF c

\* A page that differs from one that has the invariant in nothing that counts
\* while it changes.
LEMMA ChangingMoves ==
  ASSUME NEW p, Changing(p), NEW q, DOMAIN q = PageFields,
         \A f \in {"original", "current", "variants", "urls", "age", "requests"} : q[f] = p[f]
  PROVE  Changing(q)
  BY DEF Changing, PageFormed, AccountedBut, Shown

\* A recording, an empty one included, revokes and replaces the original.
LEMMA RecordedChanges ==
  ASSUME NEW p, Changing(p), NEW pcm
  PROVE  Changing(Recorded(p, pcm))
<1>. DEFINE taken == [p EXCEPT !.take = @ + 1, !.pcm = pcm]
            c     == CleanUp(taken)
            url   == OriginalUrl(pcm, p.take + 1)
            new   == [c EXCEPT !.urls = Append(@, url), !.original = Len(p.urls) + 1]
            none  == [c EXCEPT !.original = 0]
<1>1. Recorded(p, pcm) = IF pcm # << >> THEN new ELSE IF p.original # 0 THEN none ELSE taken
  BY DEF Recorded
<1>2. /\ DOMAIN taken = PageFields
      /\ \A f \in PageFields \ {"take", "pcm"} : taken[f] = p[f]
  BY DEF Changing, PageFormed, PageFields
<1>. HIDE DEF taken
<1>3. Changing(taken)
  BY <1>2, ChangingMoves DEF PageFields
<1>4. /\ PageFormed(c) /\ SameBut(c, taken, {})
      /\ \A k \in 1 .. Len(c.urls) : ~ (c.urls[k].live /\ c.urls[k].shown)
  BY <1>3, CleanedUp DEF Changing
<1>. HIDE DEF c
<1>5. /\ c.current = p.current /\ c.age = p.age /\ c.requests = p.requests
      /\ Len(c.urls) = Len(p.urls)
  BY <1>2, <1>4 DEF SameBut, PageFields
<1>6. DOMAIN url = UrlFields
  BY DEF OriginalUrl, UrlFields
<1>. HIDE DEF url
<1>7. /\ DOMAIN new = PageFields /\ new.urls = Append(c.urls, url)
      /\ new.original = Len(p.urls) + 1
      /\ new.current = p.current /\ new.age = p.age /\ new.requests = p.requests
  BY <1>4, <1>5 DEF PageFormed, PageFields
<1>8. /\ DOMAIN none = PageFields /\ none.urls = c.urls
      /\ none.current = p.current /\ none.age = p.age /\ none.requests = p.requests
  BY <1>4, <1>5 DEF PageFormed, PageFields
<1>. HIDE DEF new, none
<1>9. Changing(new)
  <2>1. /\ PageFormed(new)
        /\ Len(c.urls) \in Nat /\ Len(new.urls) = Len(c.urls) + 1
        /\ new.urls[Len(new.urls)] = url
        /\ \A k \in 1 .. Len(c.urls) : new.urls[k] = c.urls[k]
    BY <1>4, <1>6, <1>7, AppendedUrl
  <2>2. ASSUME NEW k \in 1 .. Len(new.urls), new.urls[k].live, new.urls[k].shown
        PROVE  k \in Shown(new) \cup {}
    <3>1. k = Len(c.urls) + 1
      BY <1>4, <2>1, <2>2
    <3>. QED  BY <1>5, <1>7, <3>1 DEF Shown
  <2>. QED  BY <1>5, <1>7, <2>1, <2>2 DEF Changing, AccountedBut
<1>10. Changing(none)
  <2>1. PageFormed(none)
    BY <1>4, <1>8 DEF PageFormed
  <2>. QED  BY <1>4, <1>5, <1>8, <2>1 DEF Changing, AccountedBut
<1>. QED  BY <1>1, <1>3, <1>9, <1>10

\* What a page shows and waits for is as it was, whatever becomes of its URLs.
LEMMA NewestStays ==
  ASSUME NEW p, Counted(p), Newest(p), NEW q,
         \A f \in {"take", "codec", "current", "age", "requests"} : q[f] = p[f],
         Len(p.urls) \in Nat, Len(q.urls) \in Nat, Len(p.urls) <= Len(q.urls),
         \A k \in 1 .. Len(p.urls) :
             q.urls[k].take = p.urls[k].take /\ q.urls[k].codec = p.urls[k].codec
  PROVE  Counted(q) /\ Newest(q)
<1>1. /\ q.take = p.take /\ q.codec = p.codec /\ q.current = p.current /\ q.age = p.age
      /\ q.requests = p.requests
  OBVIOUS
<1>2. Counted(q)
  BY <1>1 DEF Counted
<1>3. Newest(q)
  BY <1>1 DEF Newest
<1>. QED  BY <1>2, <1>3

LEMMA JoinedSequence ==
  ASSUME NEW T, NEW s \in Seq(T), NEW t \in Seq(T)
  PROVE  /\ s \o t \in Seq(T) /\ Len(s) \in Nat /\ Len(s \o t) = Len(s) + Len(t)
         /\ \A k \in 1 .. Len(s) : (s \o t)[k] = s[k]
         /\ \A k \in Len(s) + 1 .. Len(s) + Len(t) : (s \o t)[k] = t[k - Len(s)]
  OBVIOUS

\* The URLs of a comparison come after those there are, one for every setting.
LEMMA BuiltUrls ==
  ASSUME NEW p, PageFormed(p), NEW n \in Nat, NEW shown
  PROVE  LET b == Built(p, n, shown)
         IN  /\ DOMAIN b = PageFields
             /\ \A f \in PageFields \ {"urls", "generating", "compared"} : b[f] = p[f]
             /\ b.compared.pcm = << >>
             /\ \E T : b.urls \in Seq(T)
             /\ Len(p.urls) \in Nat /\ Len(b.urls) = Len(p.urls) + n
             /\ \A k \in 1 .. Len(p.urls) : b.urls[k] = p.urls[k]
             /\ \A k \in Len(p.urls) + 1 .. Len(b.urls) :
                    /\ k - Len(p.urls) \in 1 .. n
                    /\ b.urls[k] = Url(p.compared.pcm, p.compared.take,
                                       Presets[k - Len(p.urls)], shown)
<1>. DEFINE one(i) == Url(p.compared.pcm, p.compared.take, Presets[i], shown)
            new    == [i \in 1 .. n |-> one(i)]
            b      == Built(p, n, shown)
<1>1. /\ DOMAIN b = PageFields /\ b.urls = p.urls \o new
      /\ b.compared.pcm = << >>
      /\ \A f \in PageFields \ {"urls", "generating", "compared"} : b[f] = p[f]
  BY DEF Built, PageFormed, PageFields, NoPage
<1>. HIDE DEF one, b
<1>3. PICK S : p.urls \in Seq(S)
  BY DEF PageFormed
<1>. DEFINE T == S \cup {one(i) : i \in 1 .. n}
<1>4. p.urls \in Seq(T) /\ \A i \in 1 .. n : one(i) \in T
  BY <1>3
<1>. HIDE DEF T
<1>5. new \in Seq(T) /\ Len(new) = n /\ \A i \in 1 .. n : new[i] = one(i)
  BY <1>4
<1>. HIDE DEF new
<1>6. /\ b.urls \in Seq(T) /\ Len(p.urls) \in Nat /\ Len(b.urls) = Len(p.urls) + n
      /\ \A k \in 1 .. Len(p.urls) : b.urls[k] = p.urls[k]
      /\ \A k \in Len(p.urls) + 1 .. Len(p.urls) + n : b.urls[k] = new[k - Len(p.urls)]
  <2>. DEFINE joined == p.urls \o new
              old    == p.urls
  <2>1. old \in Seq(T)
    BY <1>4
  <2>. HIDE DEF old
  <2>2. /\ joined \in Seq(T) /\ Len(old) \in Nat /\ Len(joined) = Len(old) + Len(new)
        /\ \A k \in 1 .. Len(old) : joined[k] = old[k]
        /\ \A k \in Len(old) + 1 .. Len(old) + Len(new) : joined[k] = new[k - Len(old)]
    <3>1. joined = old \o new
      BY DEF old
    <3>. HIDE DEF joined
    <3>. QED  BY <1>5, <2>1, <3>1, JoinedSequence
  <2>3. b.urls = joined
    BY <1>1
  <2>. HIDE DEF joined
  <2>. QED  BY <1>5, <2>2, <2>3 DEF old
<1>7. ASSUME NEW k \in Len(p.urls) + 1 .. Len(b.urls)
      PROVE  k - Len(p.urls) \in 1 .. n /\ b.urls[k] = one(k - Len(p.urls))
  <2>1. k - Len(p.urls) \in 1 .. n
    BY <1>6
  <2>. QED  BY <1>5, <1>6, <2>1
<1>. QED  BY <1>1, <1>6, <1>7 DEF b, one

LEMMA BuiltUp ==
  ASSUME NEW p, PageFormed(p), NEW n \in Nat, NEW shown
  PROVE  LET b == Built(p, n, shown)
         IN  /\ PageFormed(b)
             /\ \A f \in PageFields \ {"urls", "generating", "compared"} : b[f] = p[f]
             /\ Len(p.urls) \in Nat /\ Len(b.urls) = Len(p.urls) + n
             /\ \A k \in 1 .. Len(p.urls) : b.urls[k] = p.urls[k]
             /\ \A k \in Len(p.urls) + 1 .. Len(b.urls) : b.urls[k].shown = shown
<1>. DEFINE b      == Built(p, n, shown)
            one(i) == Url(p.compared.pcm, p.compared.take, Presets[i], shown)
<1>1. /\ DOMAIN b = PageFields
      /\ \A f \in PageFields \ {"urls", "generating", "compared"} : b[f] = p[f]
      /\ b.compared.pcm = << >>
      /\ \E T : b.urls \in Seq(T)
      /\ Len(p.urls) \in Nat /\ Len(b.urls) = Len(p.urls) + n
      /\ \A k \in 1 .. Len(p.urls) : b.urls[k] = p.urls[k]
      /\ \A k \in Len(p.urls) + 1 .. Len(b.urls) :
             k - Len(p.urls) \in 1 .. n /\ b.urls[k] = one(k - Len(p.urls))
  BY BuiltUrls
<1>2. \A i \in 1 .. n : DOMAIN one(i) = UrlFields /\ one(i).shown = shown
  BY DEF Url, UrlFields
<1>. HIDE DEF b, one
<1>3. \A k \in Len(p.urls) + 1 .. Len(b.urls) :
          DOMAIN b.urls[k] = UrlFields /\ b.urls[k].shown = shown
  BY <1>1, <1>2
<1>4. ASSUME NEW k \in 1 .. Len(b.urls)
      PROVE  DOMAIN b.urls[k] = UrlFields
  <2>1. k \in 1 .. Len(p.urls) \/ k \in Len(p.urls) + 1 .. Len(b.urls)
    BY <1>1
  <2>. QED  BY <1>1, <1>3, <2>1 DEF PageFormed
<1>5. PageFormed(b)
  BY <1>1, <1>4 DEF PageFormed
<1>. QED  BY <1>1, <1>3, <1>5 DEF b
-----------------------------------------------------------------------------
(***************************************************************************)
(* The invariant: one lemma for every action that changes the panel.       *)
(***************************************************************************)
LEMMA InitHasIt == NoPage.urls = << >> /\ PageInv(NoPage)
<1>1. /\ NoPage.urls = << >> /\ NoPage.requests = {} /\ NoPage.age = 0 /\ NoPage.current = 0
      /\ DOMAIN NoPage = PageFields
  BY DEF NoPage, PageFields
<1>2. Len(NoPage.urls) = 0 /\ NoPage.urls \in Seq({})
  BY <1>1
<1>3. PageFormed(NoPage)
  BY <1>1, <1>2 DEF PageFormed
<1>4. Counted(NoPage) /\ Newest(NoPage) /\ AccountedBut(NoPage, {})
  BY <1>1, <1>2 DEF Counted, Newest, AccountedBut
<1>. QED  BY <1>1, <1>3, <1>4 DEF PageInv

LEMMA RecordKeeps ==
  ASSUME PageInv(page), NEW pcm, Record(pcm)
  PROVE  PageInv(page')
<1>1. Changing(Recorded(page, pcm))
  BY InvAllowsChange, RecordedChanges
<1>2. page' = PreviewEffect(Recorded(page, pcm))
  BY DEF Record
<1>. QED  BY <1>1, <1>2, EffectRestores

LEMMA ChangeConfigKeeps ==
  ASSUME PageInv(page), NEW codec, ChangeConfig(codec)
  PROVE  PageInv(page')
<1>. DEFINE q == [page EXCEPT !.codec = codec, !.changes = @ + 1]
<1>1. /\ DOMAIN q = PageFields
      /\ \A f \in {"original", "current", "variants", "urls", "age", "requests"} : q[f] = page[f]
  BY DEF PageInv, PageFormed, PageFields
<1>2. page' = PreviewEffect(q)
  BY DEF ChangeConfig
<1>. HIDE DEF q
<1>3. Changing(page)
  BY InvAllowsChange
<1>4. Changing(q)
  BY <1>1, <1>3, ChangingMoves
<1>. QED  BY <1>2, <1>4, EffectRestores

LEMMA PreviewArrivesKeeps ==
  ASSUME PageInv(page), NEW request \in page.requests, PreviewArrives(request)
  PROVE  PageInv(page')
<1>1. /\ request.age \in Nat /\ request.age <= page.age
      /\ request.age = page.age => request.take = page.take /\ request.codec = page.codec
  BY DEF PageInv, Counted
<1>2. page.current \in 0 .. Len(page.urls)
  BY DEF PageInv, Newest
<1>3. PageInv(Preview(page, request))
  BY <1>1, <1>2, PreviewKeeps DEF PageInv
<1>. QED  BY <1>3 DEF PreviewArrives

LEMMA PreviewFailsKeeps ==
  ASSUME PageInv(page), NEW request \in page.requests, PreviewFails(request)
  PROVE  PageInv(page')
<1>. DEFINE over == [page EXCEPT !.requests = @ \ {request}]
            told == [over EXCEPT !.error = TRUE]
<1>1. page' = IF request.age = page.age THEN ShowCurrent(told, 0) ELSE over
  BY DEF PreviewFails
<1>2. DOMAIN page = PageFields
  BY DEF PageInv, PageFormed
<1>3. /\ DOMAIN over = PageFields /\ over.requests = page.requests \ {request}
      /\ \A f \in PageFields \ {"requests"} : over[f] = page[f]
  BY <1>2 DEF PageFields
<1>4. /\ DOMAIN told = PageFields /\ told.requests = page.requests \ {request}
      /\ \A f \in PageFields \ {"requests", "error"} : told[f] = page[f]
  BY <1>3 DEF PageFields
<1>. HIDE DEF over, told
<1>5. ASSUME NEW q, DOMAIN q = PageFields, q.requests = page.requests \ {request},
             \A f \in PageFields \ {"requests", "error"} : q[f] = page[f]
      PROVE  /\ PageFormed(q) /\ Counted(q) /\ AccountedBut(q, {})
             /\ q.urls = page.urls /\ q.current = page.current /\ q.age = page.age
             /\ q.take = page.take /\ q.codec = page.codec
  <2>1. /\ q.urls = page.urls /\ q.current = page.current /\ q.age = page.age
        /\ q.take = page.take /\ q.codec = page.codec
        /\ q.original = page.original /\ q.variants = page.variants
    BY <1>5 DEF PageFields
  <2>2. PageFormed(q) /\ AccountedBut(q, {})
    BY <1>5, <2>1 DEF PageInv, PageFormed, AccountedBut, Shown
  <2>3. Counted(q)
    BY <1>5, <2>1 DEF PageInv, Counted
  <2>. QED  BY <2>1, <2>2, <2>3
<1>6. CASE request.age = page.age
  BY <1>1, <1>4, <1>5, <1>6, NoneShown
<1>7. CASE request.age # page.age
  <2>1. /\ PageFormed(over) /\ Counted(over) /\ AccountedBut(over, {})
        /\ over.urls = page.urls /\ over.current = page.current /\ over.age = page.age
        /\ over.take = page.take /\ over.codec = page.codec
    BY <1>3, <1>5
  <2>2. request.age < page.age
    BY <1>7 DEF PageInv, Counted
  <2>3. (\A other \in over.requests : other.age < over.age)
            => \A other \in page.requests : other.age < page.age
    BY <1>3, <2>1, <2>2
  <2>4. Newest(over)
    BY <2>1, <2>3 DEF PageInv, Newest
  <2>. QED  BY <1>1, <1>7, <2>1, <2>4 DEF PageInv
<1>. QED  BY <1>6, <1>7

LEMMA GenerateVariantsKeeps ==
  ASSUME PageInv(page), GenerateVariants
  PROVE  PageInv(page')
<1>. DEFINE q == [page EXCEPT !.generating = TRUE, !.error = FALSE, !.comparisons = @ + 1,
                              !.compared = [take |-> page.take, pcm |-> page.pcm]]
<1>1. page' = q
  BY DEF GenerateVariants
<1>2. /\ DOMAIN q = PageFields /\ q.original = page.original /\ q.variants = page.variants
      /\ q.urls = page.urls
      /\ \A f \in {"take", "codec", "current", "age", "requests"} : q[f] = page[f]
  BY DEF PageInv, PageFormed, PageFields
<1>. HIDE DEF q
<1>3. PageFormed(q) /\ AccountedBut(q, {})
  BY <1>2 DEF PageInv, PageFormed, AccountedBut, Shown
<1>4. Len(page.urls) \in Nat
  BY DEF PageInv, PageFormed
<1>5. Counted(q) /\ Newest(q)
  BY <1>2, <1>4, NewestStays DEF PageInv
<1>. QED  BY <1>1, <1>3, <1>5 DEF PageInv

\* The variants there were are revoked, with all else on the screen; those that
\* come are shown.
LEMMA VariantsArriveKeeps ==
  ASSUME PageInv(page), VariantsArrive
  PROVE  PageInv(page')
<1>. DEFINE b == Built(page, Len(Presets), TRUE)
            c == CleanUp(b)
            variants == [i \in 1 .. Len(Presets) |-> Len(page.urls) + i]
            q == [c EXCEPT !.variants = variants]
<1>1. page' = q
  BY DEF VariantsArrive
<1>2. Len(Presets) \in Nat
  BY PresetsAssumption
<1>3. /\ PageFormed(b)
      /\ \A f \in PageFields \ {"urls", "generating", "compared"} : b[f] = page[f]
      /\ Len(page.urls) \in Nat /\ Len(b.urls) = Len(page.urls) + Len(Presets)
      /\ \A k \in 1 .. Len(page.urls) : b.urls[k] = page.urls[k]
  <2>. DEFINE n   == Len(Presets)
              yes == TRUE
              d   == Built(page, n, yes)
  <2>1. PageFormed(page) /\ n \in Nat
    BY <1>2 DEF PageInv
  <2>. HIDE DEF n, yes
  <2>2. /\ PageFormed(d)
        /\ \A f \in PageFields \ {"urls", "generating", "compared"} : d[f] = page[f]
        /\ Len(page.urls) \in Nat /\ Len(d.urls) = Len(page.urls) + n
        /\ \A k \in 1 .. Len(page.urls) : d.urls[k] = page.urls[k]
    BY <2>1, BuiltUp
  <2>3. b = d
    BY DEF n, yes
  <2>. HIDE DEF b, d
  <2>. QED  BY <2>2, <2>3 DEF n
<1>. HIDE DEF b
<1>4. /\ PageFormed(c)
      /\ \A f \in PageFields \ {"urls"} : c[f] = b[f]
      /\ Len(c.urls) = Len(b.urls)
      /\ \A k \in 1 .. Len(b.urls) :
             /\ c.urls[k].live => b.urls[k].live /\ k \notin Shown(b)
             /\ \A f \in UrlFields \ {"live"} : c.urls[k][f] = b.urls[k][f]
  BY <1>3, RevokedPage DEF CleanUp
<1>. HIDE DEF c, variants
<1>5. /\ DOMAIN q = PageFields /\ q.urls = c.urls /\ q.variants = variants
      /\ \A f \in {"take", "codec", "current", "age", "requests"} : q[f] = c[f]
  BY <1>4 DEF PageFormed, PageFields
<1>. HIDE DEF q
<1>6. PageFormed(q)
  BY <1>4, <1>5 DEF PageFormed
<1>7. Counted(q) /\ Newest(q)
  <2>1. \A f \in {"take", "codec", "current", "age", "requests"} : q[f] = page[f]
    BY <1>3, <1>4, <1>5 DEF PageFields
  <2>2. Len(q.urls) \in Nat /\ Len(page.urls) <= Len(q.urls)
    BY <1>2, <1>3, <1>4, <1>5
  <2>3. ASSUME NEW k \in 1 .. Len(page.urls)
        PROVE  /\ q.urls[k].take = page.urls[k].take
               /\ q.urls[k].codec = page.urls[k].codec
    <3>1. k \in 1 .. Len(b.urls)
      BY <1>2, <1>3
    <3>. QED  BY <1>3, <1>4, <1>5, <3>1 DEF UrlFields
  <2>. QED  BY <1>3, <2>1, <2>2, <2>3, NewestStays DEF PageInv
<1>8. ASSUME NEW k \in 1 .. Len(q.urls), q.urls[k].live, q.urls[k].shown
      PROVE  k \in Shown(q) \cup {}
  <2>1. k \in 1 .. Len(b.urls) /\ b.urls[k].live /\ b.urls[k].shown /\ k \notin Shown(b)
    BY <1>4, <1>5, <1>8 DEF UrlFields
  <2>2. Shown(b) = Shown(page)
    BY <1>3 DEF Shown, PageFields
  <2>3. k \notin 1 .. Len(page.urls)
    BY <1>3, <2>1, <2>2 DEF PageInv, AccountedBut
  <2>4. k - Len(page.urls) \in 1 .. Len(Presets)
    BY <1>2, <1>3, <2>1, <2>3
  <2>5. variants[k - Len(page.urls)] = k /\ Len(variants) = Len(Presets)
    BY <1>2, <1>3, <2>1, <2>4 DEF variants
  <2>. QED  BY <1>5, <2>4, <2>5 DEF Shown
<1>. QED  BY <1>1, <1>6, <1>7, <1>8 DEF PageInv, AccountedBut

\* What was made before a comparison failed was never shown.
LEMMA VariantsFailKeeps ==
  ASSUME PageInv(page), VariantsFail
  PROVE  PageInv(page')
<1>1. PICK n \in 1 .. Len(Presets) : page' = [Built(page, n - 1, FALSE) EXCEPT !.error = TRUE]
  BY DEF VariantsFail
<1>. DEFINE b == Built(page, n - 1, FALSE)
            q == [b EXCEPT !.error = TRUE]
<1>2. n - 1 \in Nat
  BY PresetsAssumption
<1>3. /\ PageFormed(b)
      /\ \A f \in PageFields \ {"urls", "generating", "compared"} : b[f] = page[f]
      /\ Len(page.urls) \in Nat /\ Len(b.urls) = Len(page.urls) + (n - 1)
      /\ \A k \in 1 .. Len(page.urls) : b.urls[k] = page.urls[k]
      /\ \A k \in Len(page.urls) + 1 .. Len(b.urls) : b.urls[k].shown = FALSE
  BY <1>2, BuiltUp DEF PageInv
<1>. HIDE DEF b
<1>4. /\ DOMAIN q = PageFields /\ q.urls = b.urls
      /\ q.original = page.original /\ q.variants = page.variants
      /\ \A f \in {"take", "codec", "current", "age", "requests"} : q[f] = page[f]
  BY <1>3 DEF PageFormed, PageFields
<1>5. page' = q
  BY <1>1 DEF b
<1>. HIDE DEF q
<1>6. PageFormed(q)
  BY <1>3, <1>4 DEF PageFormed
<1>7. Counted(q) /\ Newest(q)
  <2>1. Len(q.urls) \in Nat /\ Len(page.urls) <= Len(q.urls)
    BY <1>2, <1>3, <1>4
  <2>. QED  BY <1>3, <1>4, <2>1, NewestStays DEF PageInv
<1>8. AccountedBut(q, {})
  <2>1. Shown(q) = Shown(page)
    BY <1>4 DEF Shown
  <2>2. ASSUME NEW k \in 1 .. Len(q.urls), q.urls[k].live, q.urls[k].shown
        PROVE  k \in Shown(q) \cup {}
    <3>1. k \in 1 .. Len(page.urls)
      BY <1>2, <1>3, <1>4, <2>2
    <3>. QED  BY <1>3, <1>4, <2>1, <2>2, <3>1 DEF PageInv, AccountedBut
  <2>. QED  BY <2>2 DEF AccountedBut
<1>. QED  BY <1>5, <1>6, <1>7, <1>8 DEF PageInv

PanelInv == PageInv(page)

\* Whatever the order in which the answers come, and whichever of them fail.
LEMMA PageInvariance == Spec => []PanelInv
<1>1. Init => PanelInv
  BY InitHasIt DEF Init, PanelInv
<1>2. ASSUME PanelInv, [Next]_<<serviceVars, pageVars>>
      PROVE  PanelInv'
  <2>. USE DEF PanelInv
  <2>1. CASE \E pcm \in Recordings : Record(pcm)
    BY <1>2, <2>1, RecordKeeps
  <2>2. CASE \E codec \in Codecs : ChangeConfig(codec)
    BY <1>2, <2>2, ChangeConfigKeeps
  <2>3. CASE \E request \in page.requests : PreviewArrives(request)
    BY <1>2, <2>3, PreviewArrivesKeeps
  <2>4. CASE \E request \in page.requests : PreviewFails(request)
    BY <1>2, <2>4, PreviewFailsKeeps
  <2>5. CASE GenerateVariants
    BY <1>2, <2>5, GenerateVariantsKeeps
  <2>6. CASE VariantsArrive
    BY <1>2, <2>6, VariantsArriveKeeps
  <2>7. CASE VariantsFail
    BY <1>2, <2>7, VariantsFailKeeps
  <2>8. CASE UNCHANGED page
    BY <1>2, <2>8
  <2>. QED  BY <1>2, <2>1, <2>2, <2>3, <2>4, <2>5, <2>6, <2>7, <2>8
            DEF Next, PageNext, pageVars, AnalyzeWebSocket, SendFrame, SkipFrame, CloseAnalysis
<1>. QED  BY <1>1, <1>2, PTL DEF Spec

\* With any recordings, settings and number of changes, and answers in any
\* order: what is offered once the last answer is there is the preview of what
\* is on the screen (AudioPreviewPanel.tsx:43).
THEOREM PageShowsTheNewest == Spec => []ShownPreviewIsTheNewest
<1>1. PanelInv => ShownPreviewIsTheNewest
  BY DEF PanelInv, PageInv, Newest, ShownPreviewIsTheNewest
<1>. QED  BY <1>1, PageInvariance, PTL

\* With any recordings, settings and comparisons: no URL that was on the screen
\* outlives its place there (AudioPreviewPanel.tsx:57).
THEOREM PageAccountsForItsUrls == Spec => []UrlsAreAccountedFor
<1>1. PanelInv => UrlsAreAccountedFor
  <2>1. PageFormed(page) => DOMAIN page.urls = 1 .. Len(page.urls)
    BY DEF PageFormed
  <2>. QED  BY <2>1 DEF PanelInv, PageInv, AccountedBut, UrlsAreAccountedFor
<1>. QED  BY <1>1, PageInvariance, PTL
-----------------------------------------------------------------------------
(***************************************************************************)
(* The types of the page, and what an action leaves of it.                 *)
(***************************************************************************)
\* A page on which the recording, the settings and what is on the screen beside
\* the preview are those of another, and whose URLs go on from the other's.
GoesOn(q, p) ==
    /\ PageFormed(q) /\ Len(p.urls) \in Nat /\ Len(p.urls) <= Len(q.urls)
    /\ \A f \in {"take", "pcm", "codec", "original", "variants"} : q[f] = p[f]

LEMMA GoesOnFurther ==
  ASSUME NEW p, NEW q, NEW r, GoesOn(q, p), GoesOn(r, q)
  PROVE  GoesOn(r, p)
  BY DEF GoesOn

LEMMA SameFieldsGoOn ==
  ASSUME NEW p, PageFormed(p), NEW q, DOMAIN q = PageFields,
         \A f \in {"take", "pcm", "codec", "original", "variants", "urls"} : q[f] = p[f]
  PROVE  GoesOn(q, p)
<1>1. q.urls = p.urls /\ Len(p.urls) \in Nat
  BY DEF PageFormed
<1>2. PageFormed(q)
  BY <1>1 DEF PageFormed
<1>. QED  BY <1>1, <1>2 DEF GoesOn

LEMMA ShowingGoesOn ==
  ASSUME NEW p, PageFormed(p), NEW url
  PROVE  GoesOn(ShowCurrent(p, url), p)
<1>. DEFINE r == ShowCurrent(p, url)
<1>1. PageFormed(r) /\ SameBut(r, p, {"current"})
  BY ShownCurrent
<1>2. Len(p.urls) \in Nat
  BY DEF PageFormed
<1>. HIDE DEF r
<1>3. GoesOn(r, p)
  BY <1>1, <1>2 DEF SameBut, GoesOn, PageFields
<1>. QED  BY <1>3 DEF r

LEMMA PreviewGoesOn ==
  ASSUME NEW p, PageFormed(p), NEW request
  PROVE  GoesOn(Preview(p, request), p)
<1>. DEFINE waited == request.age = p.age
            url    == Url(request.pcm, request.take, request.codec, waited)
            made   == [p EXCEPT !.urls = Append(@, url), !.requests = @ \ {request}]
<1>1. DOMAIN url = UrlFields
  BY DEF Url, UrlFields
<1>2. Preview(p, request) = IF waited THEN ShowCurrent(made, Len(made.urls)) ELSE made
  BY DEF Preview
<1>. HIDE DEF url
<1>3. /\ DOMAIN made = PageFields /\ made.urls = Append(p.urls, url)
      /\ \A f \in PageFields \ {"urls", "requests"} : made[f] = p[f]
  BY DEF PageFormed, PageFields
<1>. HIDE DEF made
<1>4. PageFormed(made) /\ Len(p.urls) \in Nat /\ Len(made.urls) = Len(p.urls) + 1
  BY <1>1, <1>3, AppendedUrl
<1>5. GoesOn(made, p)
  BY <1>3, <1>4 DEF GoesOn, PageFields
<1>6. GoesOn(ShowCurrent(made, Len(made.urls)), made)
  BY <1>4, ShowingGoesOn
<1>7. GoesOn(ShowCurrent(made, Len(made.urls)), p)
  BY <1>5, <1>6, GoesOnFurther
<1>. QED  BY <1>2, <1>5, <1>7

LEMMA EffectGoesOn ==
  ASSUME NEW p, PageFormed(p)
  PROVE  GoesOn(PreviewEffect(p), p)
<1>. DEFINE request == [age |-> p.age + 1, take |-> p.take, pcm |-> p.pcm, codec |-> p.codec]
            begun   == [p EXCEPT !.age = @ + 1, !.error = FALSE]
            empty   == [p EXCEPT !.age = @ + 1]
            asked   == [begun EXCEPT !.requests = @ \cup {request}]
<1>1. PreviewEffect(p) = IF p.pcm = << >> THEN ShowCurrent(empty, 0)
                         ELSE IF p.codec.format \in BackendFormats THEN asked
                         ELSE Preview(begun, request)
  BY DEF PreviewEffect
<1>2. DOMAIN p = PageFields
  BY DEF PageFormed
<1>. HIDE DEF request
<1>3. /\ DOMAIN begun = PageFields /\ DOMAIN empty = PageFields /\ DOMAIN asked = PageFields
      /\ \A f \in {"take", "pcm", "codec", "original", "variants", "urls"} :
             begun[f] = p[f] /\ empty[f] = p[f] /\ asked[f] = p[f]
  BY <1>2 DEF PageFields
<1>. HIDE DEF begun, empty, asked
<1>4. GoesOn(begun, p) /\ GoesOn(empty, p) /\ GoesOn(asked, p)
  BY <1>3, SameFieldsGoOn
<1>5. PageFormed(begun) /\ PageFormed(empty)
  BY <1>4 DEF GoesOn
<1>6. GoesOn(ShowCurrent(empty, 0), p)
  BY <1>4, <1>5, ShowingGoesOn, GoesOnFurther
<1>7. GoesOn(Preview(begun, request), p)
  BY <1>4, <1>5, PreviewGoesOn, GoesOnFurther
<1>. QED  BY <1>1, <1>4, <1>6, <1>7

\* The numbers on the screen beside the preview's are numbers of URLs.
Numbered(p) ==
    /\ p.original \in 0 .. Len(p.urls)
    /\ p.variants \in Seq(Nat)
    /\ \A i \in 1 .. Len(p.variants) : p.variants[i] <= Len(p.urls)

LEMMA NumbersStay ==
  ASSUME NEW p, Numbered(p), NEW q, GoesOn(q, p)
  PROVE  Numbered(q)
<1>1. q.original = p.original /\ q.variants = p.variants
  BY DEF GoesOn
<1>2. Len(p.urls) \in Nat /\ Len(q.urls) \in Nat /\ Len(p.urls) <= Len(q.urls)
  BY DEF GoesOn, PageFormed
<1>. QED  BY <1>1, <1>2 DEF Numbered

LEMMA RecordedNumbers ==
  ASSUME NEW p, PageFormed(p), Numbered(p), NEW pcm
  PROVE  LET q == Recorded(p, pcm)
         IN  /\ PageFormed(q) /\ Numbered(q)
             /\ q.take = p.take + 1 /\ q.codec = p.codec /\ q.pcm = pcm
<1>. DEFINE taken == [p EXCEPT !.take = @ + 1, !.pcm = pcm]
            c     == CleanUp(taken)
            url   == OriginalUrl(pcm, p.take + 1)
            new   == [c EXCEPT !.urls = Append(@, url), !.original = Len(p.urls) + 1]
            none  == [c EXCEPT !.original = 0]
<1>1. Recorded(p, pcm) = IF pcm # << >> THEN new ELSE IF p.original # 0 THEN none ELSE taken
  BY DEF Recorded
<1>2. /\ DOMAIN taken = PageFields /\ taken.take = p.take + 1 /\ taken.pcm = pcm
      /\ \A f \in PageFields \ {"take", "pcm"} : taken[f] = p[f]
  BY DEF PageFormed, PageFields
<1>. HIDE DEF taken
<1>3. /\ taken.urls = p.urls /\ taken.codec = p.codec /\ taken.original = p.original
      /\ taken.variants = p.variants
  BY <1>2 DEF PageFields
<1>4. PageFormed(taken) /\ Numbered(taken)
  BY <1>2, <1>3 DEF PageFormed, Numbered
<1>5. /\ PageFormed(c) /\ \A f \in PageFields \ {"urls"} : c[f] = taken[f]
      /\ Len(c.urls) = Len(taken.urls)
  BY <1>4, RevokedPage DEF CleanUp
<1>. HIDE DEF c
<1>6. /\ c.take = p.take + 1 /\ c.codec = p.codec /\ c.pcm = pcm /\ c.variants = p.variants
      /\ Len(c.urls) = Len(p.urls) /\ Len(p.urls) \in Nat
  BY <1>2, <1>3, <1>5 DEF PageFields, PageFormed
<1>7. DOMAIN url = UrlFields
  BY DEF OriginalUrl, UrlFields
<1>. HIDE DEF url
<1>8. /\ DOMAIN new = PageFields /\ new.urls = Append(c.urls, url)
      /\ new.original = Len(p.urls) + 1 /\ new.variants = p.variants
      /\ new.take = p.take + 1 /\ new.codec = p.codec /\ new.pcm = pcm
  BY <1>5, <1>6 DEF PageFormed, PageFields
<1>9. /\ DOMAIN none = PageFields /\ none.urls = c.urls
      /\ none.original = 0 /\ none.variants = p.variants
      /\ none.take = p.take + 1 /\ none.codec = p.codec /\ none.pcm = pcm
  BY <1>5, <1>6 DEF PageFormed, PageFields
<1>. HIDE DEF new, none
<1>10. PageFormed(new) /\ Len(new.urls) = Len(p.urls) + 1
  BY <1>5, <1>6, <1>7, <1>8, AppendedUrl
<1>11. Numbered(new)
  BY <1>6, <1>8, <1>10 DEF Numbered
<1>12. PageFormed(none) /\ Numbered(none)
  BY <1>5, <1>6, <1>9 DEF PageFormed, Numbered
<1>. QED  BY <1>1, <1>2, <1>3, <1>4, <1>8, <1>9, <1>10, <1>11, <1>12

TypedPage(p) ==
    /\ p.take \in 0 .. MaxTakes
    /\ p.pcm \in Seq(Samples16)
    /\ p.codec \in Codecs \cup {DefaultCodec}
    /\ Numbered(p)

LEMMA TypesStay ==
  ASSUME NEW p, TypedPage(p), NEW q, GoesOn(q, p)
  PROVE  TypedPage(q)
<1>1. q.take = p.take /\ q.pcm = p.pcm /\ q.codec = p.codec /\ Numbered(q)
  BY NumbersStay DEF GoesOn, TypedPage
<1>. QED  BY <1>1 DEF TypedPage

LEMMA InitIsTyped == TypedPage(NoPage)
<1>1. /\ NoPage.take = 0 /\ NoPage.pcm = << >> /\ NoPage.codec = DefaultCodec
      /\ NoPage.original = 0 /\ NoPage.variants = << >> /\ NoPage.urls = << >>
  BY DEF NoPage
<1>2. << >> \in Seq(Samples16) /\ << >> \in Seq(Nat) /\ Len(<< >>) = 0
  OBVIOUS
<1>3. Numbered(NoPage)
  BY <1>1, <1>2 DEF Numbered
<1>. QED  BY <1>1, <1>2, <1>3, PageAssumption DEF TypedPage

LEMMA RecordIsTyped ==
  ASSUME PageInv(page), TypedPage(page), NEW pcm \in Recordings, Record(pcm)
  PROVE  TypedPage(page')
<1>. DEFINE q == Recorded(page, pcm)
<1>1. /\ PageFormed(q) /\ Numbered(q)
      /\ q.take = page.take + 1 /\ q.codec = page.codec /\ q.pcm = pcm
  BY RecordedNumbers DEF PageInv, TypedPage
<1>2. page' = PreviewEffect(q) /\ page.take < MaxTakes
  BY DEF Record
<1>. HIDE DEF q
<1>3. TypedPage(q)
  BY <1>1, <1>2, PageAssumption DEF TypedPage
<1>4. GoesOn(PreviewEffect(q), q)
  BY <1>1, EffectGoesOn
<1>. QED  BY <1>2, <1>3, <1>4, TypesStay

LEMMA ChangeConfigIsTyped ==
  ASSUME PageInv(page), TypedPage(page), NEW codec \in Codecs, ChangeConfig(codec)
  PROVE  TypedPage(page')
<1>. DEFINE q == [page EXCEPT !.codec = codec, !.changes = @ + 1]
<1>1. /\ DOMAIN q = PageFields /\ q.codec = codec
      /\ \A f \in {"take", "pcm", "original", "variants", "urls"} : q[f] = page[f]
  BY DEF PageInv, PageFormed, PageFields
<1>2. page' = PreviewEffect(q)
  BY DEF ChangeConfig
<1>. HIDE DEF q
<1>3. PageFormed(q)
  BY <1>1 DEF PageInv, PageFormed
<1>4. TypedPage(q)
  BY <1>1 DEF TypedPage, Numbered
<1>5. GoesOn(PreviewEffect(q), q)
  BY <1>3, EffectGoesOn
<1>. QED  BY <1>2, <1>4, <1>5, TypesStay

LEMMA PreviewFailsGoesOn ==
  ASSUME PageInv(page), NEW request, PreviewFails(request)
  PROVE  GoesOn(page', page)
<1>. DEFINE over == [page EXCEPT !.requests = @ \ {request}]
            told == [over EXCEPT !.error = TRUE]
<1>1. page' = IF request.age = page.age THEN ShowCurrent(told, 0) ELSE over
  BY DEF PreviewFails
<1>2. /\ DOMAIN over = PageFields /\ DOMAIN told = PageFields
      /\ \A f \in {"take", "pcm", "codec", "original", "variants", "urls"} :
             over[f] = page[f] /\ told[f] = page[f]
  BY DEF PageInv, PageFormed, PageFields
<1>. HIDE DEF over, told
<1>3. GoesOn(over, page) /\ GoesOn(told, page)
  BY <1>2, SameFieldsGoOn DEF PageInv
<1>4. GoesOn(ShowCurrent(told, 0), page)
  <2>1. PageFormed(told)
    BY <1>3 DEF GoesOn
  <2>. QED  BY <1>3, <2>1, ShowingGoesOn, GoesOnFurther
<1>. QED  BY <1>1, <1>3, <1>4

LEMMA GenerateVariantsGoesOn ==
  ASSUME PageInv(page), GenerateVariants
  PROVE  GoesOn(page', page)
<1>. DEFINE q == [page EXCEPT !.generating = TRUE, !.error = FALSE, !.comparisons = @ + 1,
                              !.compared = [take |-> page.take, pcm |-> page.pcm]]
<1>1. page' = q
  BY DEF GenerateVariants
<1>2. /\ DOMAIN q = PageFields
      /\ \A f \in {"take", "pcm", "codec", "original", "variants", "urls"} : q[f] = page[f]
  BY DEF PageInv, PageFormed, PageFields
<1>. HIDE DEF q
<1>. QED  BY <1>1, <1>2, SameFieldsGoOn DEF PageInv

LEMMA VariantsFailGoesOn ==
  ASSUME PageInv(page), VariantsFail
  PROVE  GoesOn(page', page)
<1>1. PICK n \in 1 .. Len(Presets) : page' = [Built(page, n - 1, FALSE) EXCEPT !.error = TRUE]
  BY DEF VariantsFail
<1>. DEFINE b == Built(page, n - 1, FALSE)
            q == [b EXCEPT !.error = TRUE]
<1>2. n - 1 \in Nat
  BY PresetsAssumption
<1>3. /\ PageFormed(b)
      /\ \A f \in PageFields \ {"urls", "generating", "compared"} : b[f] = page[f]
      /\ Len(page.urls) \in Nat /\ Len(b.urls) = Len(page.urls) + (n - 1)
      /\ \A k \in 1 .. Len(page.urls) : b.urls[k] = page.urls[k]
      /\ \A k \in Len(page.urls) + 1 .. Len(b.urls) : b.urls[k].shown = FALSE
  BY <1>2, BuiltUp DEF PageInv
<1>. HIDE DEF b
<1>4. /\ DOMAIN q = PageFields /\ q.urls = b.urls
      /\ \A f \in {"take", "pcm", "codec", "original", "variants"} : q[f] = page[f]
  BY <1>3 DEF PageFormed, PageFields
<1>5. page' = q
  BY <1>1 DEF b
<1>. HIDE DEF q
<1>6. PageFormed(q) /\ Len(page.urls) <= Len(q.urls)
  BY <1>2, <1>3, <1>4 DEF PageFormed
<1>. QED  BY <1>3, <1>4, <1>5, <1>6 DEF GoesOn

\* The new variants are numbers of the URLs just made.
LEMMA VariantsArriveIsTyped ==
  ASSUME PageInv(page), TypedPage(page), VariantsArrive
  PROVE  TypedPage(page')
<1>. DEFINE b == Built(page, Len(Presets), TRUE)
            c == CleanUp(b)
            variants == [i \in 1 .. Len(Presets) |-> Len(page.urls) + i]
            q == [c EXCEPT !.variants = variants]
<1>1. page' = q
  BY DEF VariantsArrive
<1>2. Len(Presets) \in Nat
  BY PresetsAssumption
<1>3. /\ PageFormed(b)
      /\ \A f \in PageFields \ {"urls", "generating", "compared"} : b[f] = page[f]
      /\ Len(page.urls) \in Nat /\ Len(b.urls) = Len(page.urls) + Len(Presets)
  <2>. DEFINE n   == Len(Presets)
              yes == TRUE
              d   == Built(page, n, yes)
  <2>1. PageFormed(page) /\ n \in Nat
    BY <1>2 DEF PageInv
  <2>. HIDE DEF n, yes
  <2>2. /\ PageFormed(d)
        /\ \A f \in PageFields \ {"urls", "generating", "compared"} : d[f] = page[f]
        /\ Len(page.urls) \in Nat /\ Len(d.urls) = Len(page.urls) + n
    BY <2>1, BuiltUp
  <2>3. b = d
    BY DEF n, yes
  <2>. HIDE DEF b, d
  <2>. QED  BY <2>2, <2>3 DEF n
<1>. HIDE DEF b
<1>4. /\ DOMAIN c = PageFields /\ Len(c.urls) = Len(b.urls)
      /\ \A f \in PageFields \ {"urls"} : c[f] = b[f]
  BY <1>3, RevokedPage DEF CleanUp, PageFormed
<1>. HIDE DEF c
<1>5. /\ variants \in Seq(Nat) /\ Len(variants) = Len(Presets)
      /\ \A i \in 1 .. Len(variants) : variants[i] <= Len(page.urls) + Len(Presets)
  BY <1>2, <1>3
<1>. HIDE DEF variants
<1>6. /\ q.urls = c.urls /\ q.variants = variants
      /\ q.take = page.take /\ q.pcm = page.pcm /\ q.codec = page.codec
      /\ q.original = page.original
  BY <1>3, <1>4 DEF PageFields
<1>. HIDE DEF q
<1>7. Numbered(q)
  <2>1. q.original \in 0 .. Len(q.urls)
    BY <1>2, <1>3, <1>4, <1>6 DEF TypedPage, Numbered
  <2>. QED  BY <1>3, <1>4, <1>5, <1>6, <2>1 DEF Numbered
<1>. QED  BY <1>1, <1>6, <1>7 DEF TypedPage

PanelTyped == TypedPage(page)

\* What the panel shows are numbers of URLs, in every state.
LEMMA PanelIsTyped == Spec => []PanelTyped
<1>1. Init => PanelTyped
  BY InitIsTyped DEF Init, PanelTyped
<1>2. ASSUME PanelInv, PanelTyped, [Next]_<<serviceVars, pageVars>>
      PROVE  PanelTyped'
  <2>. USE DEF PanelInv, PanelTyped
  <2>1. CASE \E pcm \in Recordings : Record(pcm)
    BY <1>2, <2>1, RecordIsTyped
  <2>2. CASE \E codec \in Codecs : ChangeConfig(codec)
    BY <1>2, <2>2, ChangeConfigIsTyped
  <2>3. CASE \E request \in page.requests : PreviewArrives(request)
    BY <1>2, <2>3, PreviewGoesOn, TypesStay DEF PreviewArrives, PageInv
  <2>4. CASE \E request \in page.requests : PreviewFails(request)
    BY <1>2, <2>4, PreviewFailsGoesOn, TypesStay
  <2>5. CASE GenerateVariants
    BY <1>2, <2>5, GenerateVariantsGoesOn, TypesStay
  <2>6. CASE VariantsArrive
    BY <1>2, <2>6, VariantsArriveIsTyped
  <2>7. CASE VariantsFail
    BY <1>2, <2>7, VariantsFailGoesOn, TypesStay
  <2>8. CASE UNCHANGED page
    BY <1>2, <2>8
  <2>. QED  BY <1>2, <2>1, <2>2, <2>3, <2>4, <2>5, <2>6, <2>7, <2>8
            DEF Next, PageNext, pageVars, AnalyzeWebSocket, SendFrame, SkipFrame, CloseAnalysis
<1>. QED  BY <1>1, <1>2, PageInvariance, PTL DEF Spec
-----------------------------------------------------------------------------
(***************************************************************************)
(* The packets of a recording.                                             *)
(***************************************************************************)
LEMMA QuotientInNat ==
  ASSUME NEW x \in Nat, NEW size \in Nat \ {0}
  PROVE  x \div size \in Nat
<1>. DEFINE n == x \div size
<1>1. n \in Int /\ x = n * size + (x % size) /\ x % size \in 0 .. size - 1
  BY DivMod
<1>. HIDE DEF n
<1>2. ASSUME n < 0 PROVE FALSE
  <2>1. PICK m \in Nat : n = 0 - 1 - m
    <3>1. 0 - 1 - n \in Nat /\ n = 0 - 1 - (0 - 1 - n)
      BY <1>1, <1>2
    <3>. QED  BY <3>1
  <2>2. n * size = 0 - size - m * size /\ m * size \in Nat
    BY <2>1
  <2>. DEFINE y == n * size
              z == m * size
  <2>. HIDE DEF y, z
  <2>3. x = y + (x % size) /\ y = 0 - size - z /\ z \in Nat
    BY <1>1, <2>2 DEF y, z
  <2>. QED  BY <1>1, <2>3
<1>. QED  BY <1>1, <1>2 DEF n

\* Packets that are numbered from 1 and stamped with what comes before them, in
\* frames of size bytes.
Packed(frames, size, type) ==
    /\ Len(frames) \in Nat
    /\ \A k \in 1 .. Len(frames) :
           /\ frames[k].header_ok = TRUE /\ frames[k].payload_type = type
           /\ frames[k].sequence = k % SequenceMod
           /\ frames[k].timestamp = ((k - 1) * size) % TimestampMod

LEMMA CutIsPacked ==
  ASSUME NEW encoded, Len(encoded) \in Nat, NEW size \in Nat \ {0}, NEW type
  PROVE  Packed(Cut(encoded, size, type), size, type)
<1>. DEFINE x == Len(encoded) + size - 1
            n == x \div size
            parts == Slices(encoded, size)
            cut == Cut(encoded, size, type)
<1>1. n \in Nat
  <2>1. x \in Nat
    OBVIOUS
  <2>. HIDE DEF x
  <2>. QED  BY <2>1, QuotientInNat
<1>2. DOMAIN parts = 1 .. n
  BY DEF Slices
<1>. HIDE DEF n
<1>3. Len(parts) = n
  BY <1>1, <1>2 DEF parts, Slices, n
<1>. HIDE DEF parts
<1>4. cut = [k \in 1 .. n |-> BuildRtpPacket(k, (k - 1) * size, type, parts[k])]
  BY <1>3 DEF Cut, parts
<1>. HIDE DEF cut
<1>5. Len(cut) = n
  BY <1>1, <1>4
<1>6. ASSUME NEW k \in 1 .. n
      PROVE  /\ cut[k].header_ok = TRUE /\ cut[k].payload_type = type
             /\ cut[k].sequence = k % SequenceMod
             /\ cut[k].timestamp = ((k - 1) * size) % TimestampMod
  <2>1. cut[k] = BuildRtpPacket(k, (k - 1) * size, type, parts[k])
    BY <1>4
  <2>. QED  BY <2>1 DEF BuildRtpPacket
<1>7. Packed(cut, size, type)
  BY <1>1, <1>5, <1>6 DEF Packed
<1>. QED  BY <1>7 DEF cut

\* the bytes of a packet, and the type that its header names
FrameSize(codec) ==
    IF codec.format \in BackendFormats THEN BytesPerFrame(codec.format, codec.frame_ms)
    ELSE (codec.rate * codec.frame_ms) \div 1000

PacketType(format) ==
    CASE format = "rtp_pcmu" -> "Pcmu"
      [] format = "rtp_pcma" -> "Pcma"
      [] OTHER -> "G722"

LEMMA Thousandth ==
  ASSUME NEW y \in Nat
  PROVE  (1000 * y) \div 1000 = y /\ (2 * y) \div 2 = y
  OBVIOUS

\* A frame takes as many ticks of the 8 kHz clock as its packet has bytes, if the
\* rate is the one of the format; G.722 has a byte for two samples.
LEMMA SizeOfFrame ==
  ASSUME NEW codec \in CodecSettings,
         codec.format = "rtp_g729" => BytesPerFrame(codec.format, codec.frame_ms) # 0
  PROVE  /\ FrameSize(codec) \in Nat \ {0}
         /\ codec.format \in RtpFormats \ {"rtp_g729"}
            /\ codec.rate = SampleRateForFormat(codec.format) =>
                \A d \in Nat : (d * codec.frame_ms * NarrowRate) \div 1000 = d * FrameSize(codec)
<1>. DEFINE f == codec.frame_ms
<1>1. /\ codec.rate \in {NarrowRate, WideRate} /\ f \in {20, 40, 60}
  BY DEF CodecSettings
<1>2. PICK c \in {1, 2, 3} : f = 20 * c
  BY <1>1
<1>3. PICK m \in Nat \ {0} : NarrowRate = 50 * m
  <2>1. PICK m \in Int : NarrowRate = 50 * m
    BY RatesAssumption, CodecAssumption
  <2>. QED  BY <2>1, RatesAssumption
<1>. DEFINE y == m * c
<1>4. y \in Nat \ {0}
  BY <1>2, <1>3
<1>5. /\ NarrowRate * f = 1000 * y /\ WideRate * f = 1000 * (2 * y)
      /\ \A d \in Nat : d * f * NarrowRate = 1000 * (d * y)
  BY <1>2, <1>3, RatesAssumption
<1>. HIDE DEF f, y
<1>6. (NarrowRate * f) \div 1000 = y /\ (WideRate * f) \div 1000 = 2 * y
  <2>1. 2 * y \in Nat
    BY <1>4
  <2>. QED  BY <1>4, <1>5, <2>1, Thousandth
<1>7. \A d \in Nat : (d * f * NarrowRate) \div 1000 = d * y
  <2>1. \A d \in Nat : d * y \in Nat
    BY <1>4
  <2>. QED  BY <1>5, <2>1, Thousandth
<1>8. CASE codec.format = "rtp_g722"
  <2>1. SampleRateForFormat(codec.format) = WideRate
    BY <1>8 DEF SampleRateForFormat
  <2>2. FrameSize(codec) = ((WideRate * f) \div 1000) \div 2
    BY <1>8, <2>1 DEF FrameSize, BytesPerFrame, BackendFormats, f
  <2>3. FrameSize(codec) = y
    BY <1>4, <1>6, <2>2, Thousandth
  <2>. QED  BY <1>4, <1>7, <2>3 DEF f
<1>9. CASE codec.format = "rtp_g729"
  <2>1. SampleRateForFormat(codec.format) = NarrowRate
    BY <1>9 DEF SampleRateForFormat
  <2>2. FrameSize(codec) = ((NarrowRate * f) \div 1000) \div 2
    BY <1>9, <2>1 DEF FrameSize, BytesPerFrame, BackendFormats, f
  <2>3. FrameSize(codec) = BytesPerFrame(codec.format, codec.frame_ms)
    BY <1>9 DEF FrameSize, BackendFormats
  <2>4. FrameSize(codec) = y \div 2 /\ y \div 2 \in Nat
    BY <1>4, <1>6, <2>2
  <2>. QED  BY <1>9, <2>3, <2>4
<1>10. CASE codec.format \in {"rtp_pcmu", "rtp_pcma"}
  <2>1. SampleRateForFormat(codec.format) = NarrowRate
    BY <1>10 DEF SampleRateForFormat
  <2>2. FrameSize(codec) = (codec.rate * f) \div 1000
    BY <1>10 DEF FrameSize, BackendFormats, f
  <2>3. FrameSize(codec) = y \/ (FrameSize(codec) = 2 * y /\ codec.rate = WideRate)
    BY <1>1, <1>6, <2>2
  <2>4. NarrowRate # WideRate
    BY RatesAssumption
  <2>5. codec.rate = NarrowRate => FrameSize(codec) = y
    BY <2>3, <2>4
  <2>. QED  BY <1>4, <1>7, <2>1, <2>3, <2>5 DEF f
<1>11. CASE codec.format \in PcmFormats
  <2>1. FrameSize(codec) = (codec.rate * f) \div 1000
    BY <1>11 DEF FrameSize, BackendFormats, PcmFormats, f
  <2>2. FrameSize(codec) = y \/ FrameSize(codec) = 2 * y
    BY <1>1, <1>6, <2>1
  <2>3. codec.format \notin RtpFormats
    BY <1>11 DEF PcmFormats, RtpFormats
  <2>. QED  BY <1>4, <2>2, <2>3
<1>. QED  BY <1>8, <1>9, <1>10, <1>11 DEF CodecSettings, Formats, RtpFormats

LEMMA CodecsAreSettings ==
  ASSUME NEW codec \in Codecs \cup {DefaultCodec}
  PROVE  /\ codec \in CodecSettings
         /\ codec.format = "rtp_g729" => BytesPerFrame(codec.format, codec.frame_ms) # 0
<1>1. CASE codec = DefaultCodec
  <2>1. DefaultCodec.format = "pcm_s16le_8k"
    BY DEF DefaultCodec
  <2>2. DefaultCodec \in CodecSettings
    BY DEF DefaultCodec, CodecSettings, Formats, PcmFormats
  <2>. QED  BY <1>1, <2>1, <2>2
<1>2. CASE codec \in Codecs
  BY <1>2, CodecAssumption
<1>. QED  BY <1>1, <1>2

\* Whatever the recording and the settings: the frames that are sent.
LEMMA EncodedIsPacked ==
  ASSUME NEW pcm \in Seq(Samples16), NEW codec \in Codecs \cup {DefaultCodec},
         codec.format \in RtpFormats
  PROVE  Packed(EncodeForTransport(pcm, codec), FrameSize(codec), PacketType(codec.format))
<1>. DEFINE samples == Resampled(pcm, codec.rate)
            n       == (Len(pcm) * codec.rate) \div RecordedRate
            pairs   == (n + 1) \div 2
            size    == FrameSize(codec)
<1>1. /\ codec.rate \in Nat \ {0}
  BY CodecsAreSettings, RatesAssumption DEF CodecSettings
<1>2. n \in Nat /\ pairs \in Nat
  <2>1. PICK x \in Nat : x = Len(pcm) * codec.rate
    BY <1>1
  <2>2. n = x \div RecordedRate
    BY <2>1
  <2>. HIDE DEF n
  <2>3. n \in Nat
    BY <2>1, <2>2, PageAssumption, QuotientInNat
  <2>. QED  BY <2>3
<1>3. DOMAIN samples = 1 .. n
  BY DEF Resampled
<1>. HIDE DEF n
<1>4. Len(samples) = n
  BY <1>2, <1>3
<1>. HIDE DEF samples
<1>5. size \in Nat \ {0}
  BY CodecsAreSettings, SizeOfFrame
<1>6. CASE codec.format \in BackendFormats
  <2>. DEFINE encoded == EncodeG722(samples)
  <2>1. DOMAIN encoded = 1 .. pairs
    BY <1>4 DEF EncodeG722
  <2>. HIDE DEF pairs, encoded
  <2>2. Len(encoded) = pairs
    BY <1>2, <2>1
  <2>3. codec.format \notin PcmFormats /\ PacketType(codec.format) = "G722"
    BY <1>6 DEF BackendFormats, PcmFormats, PacketType
  <2>4. EncodeForTransport(pcm, codec) = PackRtpFrames(codec.format, samples, codec.frame_ms)
    <3>1. codec.format # "rtp_pcmu" /\ codec.format # "rtp_pcma"
      BY <1>6 DEF BackendFormats
    <3>. QED  BY <1>6, <2>3, <3>1 DEF EncodeForTransport, samples
  <2>5. EncodeForTransport(pcm, codec) = Cut(encoded, size, "G722")
    BY <1>6, <2>4 DEF PackRtpFrames, FrameSize, encoded
  <2>. HIDE DEF size
  <2>. QED  BY <1>2, <1>5, <2>2, <2>3, <2>5, CutIsPacked DEF size
<1>7. CASE codec.format = "rtp_pcmu"
  <2>. DEFINE encoded == [i \in 1 .. Len(samples) |-> LinearToMulaw(samples[i])]
  <2>1. Len(encoded) = n
    BY <1>2, <1>4
  <2>. HIDE DEF encoded
  <2>2. codec.format \notin BackendFormats \cup PcmFormats /\ PacketType(codec.format) = "Pcmu"
    BY <1>7 DEF BackendFormats, PcmFormats, PacketType
  <2>3. EncodeForTransport(pcm, codec) = Cut(encoded, size, "Pcmu")
    BY <1>7, <2>2 DEF EncodeForTransport, FrameSize, encoded, samples
  <2>. HIDE DEF size
  <2>. QED  BY <1>2, <1>5, <2>1, <2>2, <2>3, CutIsPacked DEF size
<1>8. CASE codec.format = "rtp_pcma"
  <2>. DEFINE encoded == [i \in 1 .. Len(samples) |-> LinearToAlaw(samples[i])]
  <2>1. Len(encoded) = n
    BY <1>2, <1>4
  <2>. HIDE DEF encoded
  <2>2. codec.format \notin BackendFormats \cup PcmFormats /\ PacketType(codec.format) = "Pcma"
    BY <1>8 DEF BackendFormats, PcmFormats, PacketType
  <2>3. EncodeForTransport(pcm, codec) = Cut(encoded, size, "Pcma")
    BY <1>8, <2>2 DEF EncodeForTransport, FrameSize, encoded, samples
  <2>. HIDE DEF size
  <2>. QED  BY <1>2, <1>5, <2>1, <2>2, <2>3, CutIsPacked DEF size
<1>. QED  BY <1>6, <1>7, <1>8 DEF RtpFormats, BackendFormats
-----------------------------------------------------------------------------
(***************************************************************************)
(* What is heard of a sample: G.711 on the page, there and back.           *)
(***************************************************************************)
\* The segments are the powers of two from 256 on.
SegmentHolds(s, m) ==
    \/ s = 0 /\ m < 256
    \/ s = 1 /\ 256 <= m /\ m < 512
    \/ s = 2 /\ 512 <= m /\ m < 1024
    \/ s = 3 /\ 1024 <= m /\ m < 2048
    \/ s = 4 /\ 2048 <= m /\ m < 4096
    \/ s = 5 /\ 4096 <= m /\ m < 8192
    \/ s = 6 /\ 8192 <= m /\ m < 16384
    \/ s = 7 /\ 16384 <= m /\ m < 32768

LEMMA SegmentFound ==
  ASSUME NEW m \in Nat, NEW s \in 0 .. 7, SegmentHolds(s, m)
  PROVE  SearchSegment(m) = s
<1>. DEFINE In(t) == (t = 8 \/ m < 2 ^ (8 + t)) /\ (t = 0 \/ m >= 2 ^ (7 + t))
<1>1. /\ In(0) <=> m < 256
      /\ In(1) <=> 256 <= m /\ m < 512
      /\ In(2) <=> 512 <= m /\ m < 1024
      /\ In(3) <=> 1024 <= m /\ m < 2048
      /\ In(4) <=> 2048 <= m /\ m < 4096
      /\ In(5) <=> 4096 <= m /\ m < 8192
      /\ In(6) <=> 8192 <= m /\ m < 16384
      /\ In(7) <=> 16384 <= m /\ m < 32768
      /\ In(8) <=> 32768 <= m
  BY SMT
<1>2. SearchSegment(m) = CHOOSE t \in 0 .. 8 : In(t)
  BY DEF SearchSegment
<1>. HIDE DEF In
<1>3. In(s) /\ \A t \in 0 .. 8 : In(t) => t = s
  BY <1>1 DEF SegmentHolds
<1>. QED  BY <1>2, <1>3

LEMMA SegmentThere ==
  ASSUME NEW m \in Nat, m < 32768
  PROVE  \E s \in 0 .. 7 : SegmentHolds(s, m)
  BY DEF SegmentHolds

LEMMA FlipTwice ==
  ASSUME NEW b \in 0 .. 127
  PROVE  /\ Flip(b) \in 0 .. 127 /\ Flip(Flip(b)) = b
         /\ Flip(Flip(b) + 128) = b + 128
<1>1. Flip(b) \in 0 .. 127 /\ Flip(Flip(b)) = b
  BY DEF Flip
<1>2. \A c \in 0 .. 127 : Flip(c + 128) = Flip(c) + 128
  BY DEF Flip
<1>. QED  BY <1>1, <1>2

\* The steps of a segment.
MuStep(m, s) == (m \div 2 ^ (s + 3)) % 16
MuValue(m, s) == (8 * MuStep(m, s) + 132) * 2 ^ s

AlawStep(m, s) == (m \div 2 ^ (IF s < 2 THEN 4 ELSE s + 3)) % 16
AlawStepValue(m, s) ==
    IF s < 2 THEN 16 * AlawStep(m, s) + 8 ELSE (16 * AlawStep(m, s) + 264) * 2 ^ (s - 1)

LEMMA StepsOfSegment ==
  ASSUME NEW m \in Nat, NEW s \in 0 .. 7, SegmentHolds(s, m), m >= 132
  PROVE  LET q == MuStep(m, s)
             v == MuValue(m, s)
         IN  /\ q \in 0 .. 15 /\ v \in Nat
             /\ v - m <= (m - 124) \div 16 + 7 /\ m - v <= (m - 124) \div 16 + 7
             /\ m = 32767 => v = 32256
<1>1. CASE s = 0
  BY <1>1 DEF SegmentHolds, MuStep, MuValue
<1>2. CASE s = 1
  BY <1>2 DEF SegmentHolds, MuStep, MuValue
<1>3. CASE s = 2
  BY <1>3 DEF SegmentHolds, MuStep, MuValue
<1>4. CASE s = 3
  BY <1>4 DEF SegmentHolds, MuStep, MuValue
<1>5. CASE s = 4
  BY <1>5 DEF SegmentHolds, MuStep, MuValue
<1>6. CASE s = 5
  BY <1>6 DEF SegmentHolds, MuStep, MuValue
<1>7. CASE s = 6
  BY <1>7 DEF SegmentHolds, MuStep, MuValue
<1>8. CASE s = 7
  BY <1>8 DEF SegmentHolds, MuStep, MuValue
<1>. QED  BY <1>1, <1>2, <1>3, <1>4, <1>5, <1>6, <1>7, <1>8

LEMMA AlawStepsOfSegment ==
  ASSUME NEW m \in Nat, NEW s \in 0 .. 7, SegmentHolds(s, m)
  PROVE  LET q == AlawStep(m, s)
             v == AlawStepValue(m, s)
         IN  /\ q \in 0 .. 15 /\ v \in Nat
             /\ s # 1 => v - m <= 8 + (m \div 16) /\ m - v <= 8 + (m \div 16)
             /\ m = 32635 => v = 32256
<1>1. CASE s = 0
  BY <1>1 DEF SegmentHolds, AlawStep, AlawStepValue
<1>2. CASE s = 1
  BY <1>2 DEF SegmentHolds, AlawStep, AlawStepValue
<1>3. CASE s = 2
  BY <1>3 DEF SegmentHolds, AlawStep, AlawStepValue
<1>4. CASE s = 3
  BY <1>4 DEF SegmentHolds, AlawStep, AlawStepValue
<1>5. CASE s = 4
  BY <1>5 DEF SegmentHolds, AlawStep, AlawStepValue
<1>6. CASE s = 5
  BY <1>6 DEF SegmentHolds, AlawStep, AlawStepValue
<1>7. CASE s = 6
  BY <1>7 DEF SegmentHolds, AlawStep, AlawStepValue
<1>8. CASE s = 7
  BY <1>8 DEF SegmentHolds, AlawStep, AlawStepValue
<1>. QED  BY <1>1, <1>2, <1>3, <1>4, <1>5, <1>6, <1>7, <1>8

LEMMA ClippedSample ==
  ASSUME NEW x \in Samples16
  PROVE  LET c == Clipped(Magnitude(x))
         IN  /\ Magnitude(x) \in Nat
             /\ c \in Nat /\ c <= 32635 /\ c <= Magnitude(x) /\ Magnitude(x) <= c + 133
             /\ c # Magnitude(x) => c = 32635
             /\ x = IF x < 0 THEN 0 - Magnitude(x) ELSE Magnitude(x)
<1>1. x \in Int /\ -32768 <= x /\ x <= 32767
  BY DEF Samples16
<1>. QED  BY ONLY <1>1, SMT DEF Clipped, Magnitude

\* A byte is read as it was written.
LEMMA ByteRead ==
  ASSUME NEW s \in 0 .. 7, NEW q \in 0 .. 15
  PROVE  /\ 16 * s + q \in 0 .. 127
         /\ Segment(16 * s + q) = s /\ Step(16 * s + q) = q
         /\ Segment(128 + (16 * s + q)) = s /\ Step(128 + (16 * s + q)) = q
  BY DEF Segment, Step

LEMMA MulawHeard ==
  ASSUME NEW x \in Samples16
  PROVE  Near(UlawToLinear(LinearToMulaw(x)), x)
<1>. DEFINE c    == Clipped(Magnitude(x))
            m    == c + 132
            sign == IF x < 0 THEN 128 ELSE 0
<1>1. /\ Magnitude(x) \in Nat /\ c \in Nat /\ c <= 32635
      /\ c <= Magnitude(x) /\ Magnitude(x) <= c + 133
      /\ c # Magnitude(x) => c = 32635
      /\ x = IF x < 0 THEN 0 - Magnitude(x) ELSE Magnitude(x)
  BY ClippedSample
<1>. HIDE DEF c
<1>2. m \in Nat /\ m < 32768 /\ m >= 132
  BY <1>1
<1>3. PICK s \in 0 .. 7 : SegmentHolds(s, m)
  BY <1>2, SegmentThere
<1>. DEFINE q == MuStep(m, s)
            v == MuValue(m, s)
            u == sign + (16 * s + q)
<1>4. /\ q \in 0 .. 15 /\ v \in Nat
      /\ v - m <= (m - 124) \div 16 + 7 /\ m - v <= (m - 124) \div 16 + 7
      /\ m = 32767 => v = 32256
  BY <1>2, <1>3, StepsOfSegment
<1>5. LinearToMulaw(x) = 255 - (sign + 16 * s + q)
  <2>1. LinearToMulaw(x) = 255 - (sign + 16 * SearchSegment(m)
                                  + ((m \div 2 ^ (SearchSegment(m) + 3)) % 16))
    BY DEF LinearToMulaw, c
  <2>. HIDE DEF m, sign
  <2>2. SearchSegment(m) = s
    BY <1>2, <1>3, SegmentFound
  <2>. QED  BY <2>1, <2>2 DEF MuStep
<1>. HIDE DEF q
<1>6. /\ 16 * s + q \in 0 .. 127
      /\ Segment(u) = s /\ Step(u) = q
  BY <1>4, ByteRead
<1>7. 255 - LinearToMulaw(x) = u /\ (u >= 128 <=> x < 0)
  BY <1>4, <1>5, <1>6
<1>. HIDE DEF u
<1>8. UlawToLinear(LinearToMulaw(x)) = IF x < 0 THEN 0 - (v - 132) ELSE v - 132
  BY <1>6, <1>7 DEF UlawToLinear, MuValue, q
<1>. HIDE DEF v
<1>9. PICK a \in Nat : a = Magnitude(x)
  BY <1>1
<1>10. /\ v - 132 - a <= 8 + (a \div 16)
       /\ a - (v - 132) <= 8 + (a \div 16)
  <2>1. CASE c = a
    BY <1>4, <2>1, <1>9
  <2>2. CASE c # a
    BY <1>1, <1>4, <1>9, <2>2
  <2>. QED  BY <2>1, <2>2
<1>11. UlawToLinear(LinearToMulaw(x)) - x = IF x < 0 THEN a - (v - 132) ELSE (v - 132) - a
  <2>1. x \in Int
    BY DEF Samples16
  <2>. QED  BY <1>1, <1>4, <1>8, <1>9, <2>1
<1>. QED  BY <1>4, <1>9, <1>10, <1>11 DEF Magnitude, Near

LEMMA AlawHeard ==
  ASSUME NEW x \in Samples16, Magnitude(x) \notin 256 .. 511
  PROVE  Near(PageAlawToLinear(LinearToAlaw(x)), x)
<1>. DEFINE m    == Clipped(Magnitude(x))
            sign == IF x < 0 THEN 128 ELSE 0
<1>1. /\ Magnitude(x) \in Nat /\ m \in Nat /\ m <= 32635
      /\ m <= Magnitude(x) /\ Magnitude(x) <= m + 133
      /\ m # Magnitude(x) => m = 32635
      /\ x = IF x < 0 THEN 0 - Magnitude(x) ELSE Magnitude(x)
  BY ClippedSample
<1>2. m < 32768
  BY <1>1
<1>3. PICK s \in 0 .. 7 : SegmentHolds(s, m)
  BY <1>1, <1>2, SegmentThere
<1>. DEFINE q == AlawStep(m, s)
            v == AlawStepValue(m, s)
            b == 16 * s + q
<1>4. s # 1
  BY <1>1, <1>3 DEF SegmentHolds
<1>5. /\ q \in 0 .. 15 /\ v \in Nat
      /\ v - m <= 8 + (m \div 16) /\ m - v <= 8 + (m \div 16)
      /\ m = 32635 => v = 32256
  BY <1>1, <1>3, <1>4, AlawStepsOfSegment
<1>6. LinearToAlaw(x) = Flip(b) + sign
  <2>1. SearchSegment(m) = s
    BY <1>1, <1>3, SegmentFound
  <2>2. LinearToAlaw(x)
            = LET segment == SearchSegment(m)
                  w == IF segment < 2 THEN 4 ELSE segment + 3
              IN  Flip(16 * segment + ((m \div 2 ^ w) % 16)) + sign
    BY DEF LinearToAlaw
  <2>. HIDE DEF m, sign
  <2>. QED  BY <2>1, <2>2 DEF AlawStep
<1>. HIDE DEF q, m
<1>7. /\ b \in 0 .. 127
      /\ Segment(b) = s /\ Step(b) = q /\ Segment(128 + b) = s /\ Step(128 + b) = q
  BY <1>5, ByteRead
<1>8. Flip(b) \in 0 .. 127 /\ Flip(Flip(b)) = b /\ Flip(Flip(b) + 128) = 128 + b
  <2>. HIDE DEF b
  <2>. QED  BY <1>7, FlipTwice
<1>. HIDE DEF b, v
<1>9. Flip(LinearToAlaw(x)) = sign + b
  <2>1. CASE x < 0
    BY <1>6, <1>8, <2>1
  <2>2. CASE ~ (x < 0)
    BY <1>6, <1>7, <1>8, <2>2
  <2>. QED  BY <2>1, <2>2
<1>10. PageAlawToLinear(LinearToAlaw(x)) = IF x < 0 THEN 0 - v ELSE v
  <2>1. Segment(sign + b) = s /\ Step(sign + b) = q /\ (sign + b >= 128 <=> x < 0)
    BY <1>7
  <2>. HIDE DEF sign
  <2>. QED  BY <1>9, <2>1 DEF PageAlawToLinear, AlawStepValue, v, q
<1>11. PICK a \in Nat : a = Magnitude(x)
  BY <1>1
<1>12. v - a <= 8 + (a \div 16) /\ a - v <= 8 + (a \div 16)
  <2>1. CASE m = a
    BY <1>5, <2>1
  <2>2. CASE m # a
    BY <1>1, <1>5, <1>11, <2>2
  <2>. QED  BY <2>1, <2>2
<1>13. PageAlawToLinear(LinearToAlaw(x)) - x = IF x < 0 THEN a - v ELSE v - a
  <2>1. x \in Int
    BY DEF Samples16
  <2>. QED  BY <1>1, <1>5, <1>10, <1>11, <2>1
<1>. QED  BY <1>5, <1>11, <1>12, <1>13 DEF Magnitude, Near

-----------------------------------------------------------------------------
(***************************************************************************)
(* What is heard of a recording: slices and packets, there and back.       *)
(***************************************************************************)
\* The slices of a sequence are its parts.
LEMMA SlicesAreParts ==
  ASSUME NEW T, NEW w \in Seq(T), NEW z \in Nat \ {0}
  PROVE  LET s == Slices(w, z)
         IN  /\ CutInto(s, w, z)
             /\ \A k \in 1 .. Len(s) : (k - 1) * z < Len(w)
<1>. DEFINE x == Len(w) + z - 1
            n == x \div z
            s == Slices(w, z)
<1>1. x \in Nat /\ Len(w) \in Nat
  OBVIOUS
<1>2. n \in Nat /\ n * z <= x /\ x < n * z + z /\ n * z \in Nat
  <2>. HIDE DEF x
  <2>1. n \in Nat
    BY <1>1, QuotientInNat
  <2>2. x = n * z + (x % z) /\ x % z \in 0 .. z - 1
    BY <1>1, DivMod
  <2>. HIDE DEF n
  <2>3. n * z \in Nat
    BY <2>1
  <2>. DEFINE y == n * z
              r == x % z
  <2>4. y \in Nat /\ x = y + r /\ r \in 0 .. z - 1
    BY <2>2, <2>3
  <2>. HIDE DEF y, r
  <2>5. y <= x /\ x < y + z
    BY <2>4
  <2>. QED  BY <2>1, <2>3, <2>5 DEF y
<1>3. s = [k \in 1 .. n |-> SubSeq(w, (k - 1) * z + 1, PartEnd(w, z, k))]
  BY DEF Slices, PartEnd
<1>. HIDE DEF n, s
<1>4. Len(s) = n /\ (n = 0 => s = << >>)
  BY <1>2, <1>3
<1>5. Len(w) <= n * z /\ (n - 1) * z < Len(w) /\ (n - 1) * z = n * z - z
  <2>1. (n - 1) * z = n * z - z
    BY <1>2
  <2>. DEFINE y == n * z
              v == (n - 1) * z
  <2>2. y \in Nat /\ y <= Len(w) + z - 1 /\ Len(w) + z - 1 < y + z /\ v = y - z
    BY <1>2, <2>1
  <2>. HIDE DEF y, v
  <2>3. Len(w) <= y /\ v < Len(w)
    BY <2>2, <1>1
  <2>. QED  BY <2>1, <2>3 DEF y, v
<1>6. ASSUME NEW k \in 1 .. n
      PROVE  (k - 1) * z < Len(w) /\ s[k] = Part(w, z, k)
  <2>1. (k - 1) * z \in Nat /\ (k - 1) * z < Len(w)
    <3>1. k - 1 \in Nat
      BY <1>2
    <3>2. PICK d \in Nat : n - 1 = (k - 1) + d
      <4>1. (n - 1) - (k - 1) \in Nat /\ n - 1 = (k - 1) + ((n - 1) - (k - 1))
        BY <1>2
      <4>. QED  BY <4>1
    <3>3. (n - 1) * z = (k - 1) * z + d * z /\ d * z \in Nat /\ (k - 1) * z \in Nat
      BY <3>1, <3>2
    <3>. QED  BY <1>1, <1>5, <3>3
  <2>. DEFINE a == (k - 1) * z
              e == PartEnd(w, z, k)
  <2>2. k * z = a + z
    BY <1>2
  <2>3. a \in Nat /\ a < Len(w)
    BY <2>1
  <2>. HIDE DEF a
  <2>4. e \in Nat /\ a < e /\ e <= Len(w)
    BY <1>1, <2>2, <2>3 DEF PartEnd
  <2>. HIDE DEF e
  <2>5. s[k] = SubSeq(w, a + 1, e)
    BY <1>3 DEF a, e
  <2>6. Part(w, z, k) = [i \in 1 .. e - a |-> w[a + i]]
    BY DEF Part, a, e
  <2>7. SubSeq(w, a + 1, e) = [i \in 1 .. e - a |-> w[a + i]]
    <3>1. /\ Len(SubSeq(w, a + 1, e)) = e - a
          /\ SubSeq(w, a + 1, e) \in Seq(T)
          /\ \A i \in 1 .. e - a : SubSeq(w, a + 1, e)[i] = w[a + i]
      <4>1. a + 1 \in 1 .. Len(w) + 1 /\ e \in a .. Len(w) /\ a + 1 - 1 = a
        BY <2>3, <2>4, <1>1
      <4>. DEFINE m == a + 1
                  t == SubSeq(w, m, e)
      <4>2. m \in 1 .. Len(w) + 1 /\ e \in (m - 1) .. Len(w)
        BY <2>3, <2>4, <1>1
      <4>3. t \in Seq(T) /\ Len(t) = e - m + 1 /\ \A i \in 1 .. e - m + 1 : t[i] = w[m + i - 1]
        <5>. HIDE DEF m
        <5>. QED  BY <4>2, SubSeqProperties
      <4>. HIDE DEF t
      <4>4. e - m + 1 = e - a /\ \A i \in 1 .. e - a : m + i - 1 = a + i
        BY <2>3, <2>4
      <4>. HIDE DEF m
      <4>5. t \in Seq(T) /\ Len(t) = e - a /\ \A i \in 1 .. e - a : t[i] = w[a + i]
        BY <4>3, <4>4
      <4>. QED  BY <4>5 DEF t, m
    <3>2. e - a \in Nat
      BY <2>3, <2>4
    <3>. DEFINE t == SubSeq(w, a + 1, e)
    <3>3. t \in Seq(T) /\ Len(t) = e - a /\ \A i \in 1 .. e - a : t[i] = w[a + i]
      BY <3>1
    <3>. HIDE DEF t
    <3>4. t = [i \in 1 .. e - a |-> w[a + i]]
      BY <3>2, <3>3
    <3>. QED  BY <3>4 DEF t
  <2>. QED  BY <2>1, <2>5, <2>6, <2>7
<1>. QED  BY <1>2, <1>4, <1>5, <1>6 DEF CutInto, s

LEMMA SlicesJoin ==
  ASSUME NEW T, NEW w \in Seq(T), NEW z \in Nat \ {0}
  PROVE  FlattenSeq(Slices(w, z)) = w
<1>1. CutInto(Slices(w, z), w, z)
  BY SlicesAreParts
<1>. QED  BY <1>1, PartsJoin

\* The payloads of the packets are the parts of what was encoded.
LEMMA CutParts ==
  ASSUME NEW T, NEW encoded \in Seq(T), NEW z \in Nat \ {0}, NEW type
  PROVE  LET c == Cut(encoded, z, type)
         IN  /\ Len(c) \in Nat
             /\ Len(encoded) <= Len(c) * z /\ (Len(c) - 1) * z < Len(encoded)
             /\ \A k \in 1 .. Len(c) :
                    /\ (k - 1) * z < Len(encoded)
                    /\ c[k].payload = Part(encoded, z, k)
<1>. DEFINE parts == Slices(encoded, z)
            n == Len(parts)
            c == Cut(encoded, z, type)
<1>1. CutInto(parts, encoded, z) /\ \A k \in 1 .. n : (k - 1) * z < Len(encoded)
  BY SlicesAreParts
<1>2. c = [k \in 1 .. n |-> BuildRtpPacket(k, (k - 1) * z, type, parts[k])]
  BY DEF Cut
<1>3. /\ n \in Nat /\ Len(encoded) <= n * z /\ (n - 1) * z < Len(encoded)
      /\ \A k \in 1 .. n : parts[k] = Part(encoded, z, k)
  BY <1>1 DEF CutInto
<1>. HIDE DEF parts, n, c
<1>4. Len(c) = n
  BY <1>2, <1>3
<1>5. ASSUME NEW k \in 1 .. n
      PROVE  c[k].payload = Part(encoded, z, k)
  <2>1. c[k] = BuildRtpPacket(k, (k - 1) * z, type, parts[k])
    BY <1>2
  <2>2. c[k].payload = parts[k]
    BY <2>1 DEF BuildRtpPacket
  <2>. QED  BY <1>3, <2>2
<1>6. /\ Len(c) \in Nat
      /\ Len(encoded) <= Len(c) * z /\ (Len(c) - 1) * z < Len(encoded)
      /\ \A k \in 1 .. Len(c) :
             /\ (k - 1) * z < Len(encoded)
             /\ c[k].payload = Part(encoded, z, k)
  BY <1>1, <1>3, <1>4, <1>5
<1>. QED  BY <1>6 DEF c

\* What the packets are decoded to has their lengths, and stands where it stood.
Aligned(d, c, decoded, encoded) ==
    /\ Len(d) = Len(c) /\ Len(decoded) = Len(encoded)
    /\ \A k \in 1 .. Len(c) :
           /\ Len(d[k]) = Len(c[k].payload)
           /\ \A i \in 1 .. Len(c[k].payload), j \in 1 .. Len(encoded) :
                  c[k].payload[i] = encoded[j] => d[k][i] = decoded[j]

\* Packets whose bytes are decoded one by one are heard as what was encoded,
\* byte by byte.
LEMMA BytesDecoded ==
  ASSUME NEW T, NEW encoded \in Seq(T), NEW z \in Nat \ {0}, NEW type,
         NEW U, NEW decoded \in Seq(U), NEW d \in Seq(Seq(U)),
         Aligned(d, Cut(encoded, z, type), decoded, encoded)
  PROVE  FlattenSeq(d) = decoded
<1>. DEFINE c == Cut(encoded, z, type)
<1>0. /\ Len(d) = Len(c) /\ Len(decoded) = Len(encoded)
      /\ \A k \in 1 .. Len(c) :
             /\ Len(d[k]) = Len(c[k].payload)
             /\ \A i \in 1 .. Len(c[k].payload), j \in 1 .. Len(encoded) :
                    c[k].payload[i] = encoded[j] => d[k][i] = decoded[j]
  BY DEF Aligned
<1>1. /\ Len(c) \in Nat
      /\ Len(encoded) <= Len(c) * z /\ (Len(c) - 1) * z < Len(encoded)
      /\ \A k \in 1 .. Len(c) :
             (k - 1) * z < Len(encoded) /\ c[k].payload = Part(encoded, z, k)
  <2>1. /\ Len(c) \in Nat
        /\ Len(encoded) <= Len(c) * z /\ (Len(c) - 1) * z < Len(encoded)
        /\ \A k \in 1 .. Len(c) :
               /\ (k - 1) * z < Len(encoded)
               /\ c[k].payload = Part(encoded, z, k)
    BY ONLY CutParts, encoded \in Seq(T), z \in Nat \ {0}
  <2>. QED  BY ONLY <2>1
<1>. HIDE DEF c
<1>2. Len(d) = 0 => d = << >>
  BY EmptySeq
<1>3. ASSUME NEW k \in 1 .. Len(c)
      PROVE  d[k] = Part(decoded, z, k)
  <2>. DEFINE a == (k - 1) * z
              e == PartEnd(encoded, z, k)
              m == e - a
              p == Part(encoded, z, k)
              one == d[k]
  <2>1. /\ a \in Nat /\ e \in Nat /\ Len(p) = m
        /\ \A i \in 1 .. Len(p) : a + i \in 1 .. Len(encoded) /\ p[i] = encoded[a + i]
    <3>1. k \in Nat \ {0} /\ Len(encoded) \in Nat /\ (k - 1) * z < Len(encoded)
      BY <1>1
    <3>. QED  BY <3>1, PartHolds
  <2>0. c[k].payload = p
    BY <1>1
  <2>2. one \in Seq(U) /\ Len(one) = m
    <3>1. one \in Seq(U)
      BY <1>0
    <3>2. Len(one) = Len(c[k].payload)
      BY <1>0
    <3>. QED  BY ONLY <3>1, <3>2, <2>0, <2>1
  <2>3. \A i \in 1 .. m, j \in 1 .. Len(encoded) : p[i] = encoded[j] => one[i] = decoded[j]
    <3>1. \A i \in 1 .. Len(c[k].payload), j \in 1 .. Len(encoded) :
              c[k].payload[i] = encoded[j] => one[i] = decoded[j]
      BY <1>0
    <3>2. Len(p) = m
      BY <2>1
    <3>. HIDE DEF one, p, m
    <3>. QED  BY ONLY <3>1, <3>2, <2>0
  <2>4. Part(decoded, z, k) = [i \in 1 .. m |-> decoded[a + i]]
    BY <1>0 DEF Part, PartEnd
  <2>. HIDE DEF a, m, p, one
  <2>5. \A i \in 1 .. m : one[i] = decoded[a + i]
    BY <2>1, <2>3
  <2>6. one = [i \in 1 .. m |-> decoded[a + i]]
    BY <2>2, <2>5
  <2>. QED  BY <2>4, <2>6 DEF one
<1>4. CutInto(d, decoded, z)
  BY <1>0, <1>1, <1>2, <1>3 DEF CutInto
<1>. QED  BY <1>4, PartsJoin

\* The recording as it is sent, at whatever rate: of its own samples.
LEMMA ResampledIsRecorded ==
  ASSUME NEW T, NEW pcm \in Seq(T), NEW rate \in Nat \ {0}
  PROVE  Resampled(pcm, rate) \in Seq(T)
<1>. DEFINE R == RecordedRate
            y == Len(pcm) * rate
            n == y \div R
<1>1. R \in Nat \ {0}
  BY PageAssumption
<1>2. y \in Nat
  OBVIOUS
<1>3. n \in Nat /\ n * R \in Nat /\ n * R <= y
  <2>. HIDE DEF y, R
  <2>1. n \in Nat
    BY <1>1, <1>2, QuotientInNat
  <2>2. y = n * R + (y % R) /\ y % R \in 0 .. R - 1
    BY <1>1, <1>2, DivMod
  <2>. HIDE DEF n
  <2>3. n * R \in Nat
    BY <1>1, <2>1
  <2>. DEFINE v == n * R
              r == y % R
  <2>4. v \in Nat /\ y = v + r /\ r \in 0 .. R - 1
    BY <2>2, <2>3
  <2>. HIDE DEF v, r
  <2>5. v <= y
    BY <1>1, <2>4
  <2>. QED  BY <2>1, <2>3, <2>5 DEF v
<1>4. Resampled(pcm, rate) = [i \in 1 .. n |-> pcm[(((i - 1) * R) \div rate) + 1]]
  BY DEF Resampled
<1>. HIDE DEF n
<1>5. ASSUME NEW i \in 1 .. n
      PROVE  (((i - 1) * R) \div rate) + 1 \in 1 .. Len(pcm)
  <2>. DEFINE x == (i - 1) * R
              q == x \div rate
  <2>1. i - 1 \in Nat
    BY <1>3
  <2>2. x \in Nat
    BY <1>1, <2>1
  <2>3. x <= n * R - R
    <3>1. PICK d \in Nat : n = (i - 1) + 1 + d
      <4>1. n - i \in Nat /\ n = (i - 1) + 1 + (n - i)
        BY <1>3
      <4>. QED  BY <4>1
    <3>2. n * R = (i - 1) * R + R + d * R /\ d * R \in Nat
      BY <1>1, <2>1, <3>1
    <3>. DEFINE u == n * R
                v == d * R
    <3>3. u = x + R + v /\ v \in Nat
      BY <3>2
    <3>. HIDE DEF u, v, x
    <3>4. x <= u - R
      BY <1>1, <2>2, <3>3
    <3>. QED  BY <3>4 DEF u
  <2>4. x < y
    <3>. DEFINE u == n * R
    <3>1. u \in Nat /\ u <= y /\ x <= u - R
      BY <1>3, <2>3
    <3>. HIDE DEF u, x, y
    <3>. QED  BY <1>1, <1>2, <2>2, <3>1
  <2>. HIDE DEF x
  <2>5. q \in Nat
    BY <2>2, QuotientInNat
  <2>6. x = q * rate + (x % rate) /\ x % rate \in 0 .. rate - 1
    BY <2>2, DivMod
  <2>. HIDE DEF q
  <2>7. ASSUME q >= Len(pcm)
        PROVE  FALSE
    <3>1. PICK d \in Nat : q = Len(pcm) + d
      <4>1. q - Len(pcm) \in Nat /\ q = Len(pcm) + (q - Len(pcm))
        BY <2>5, <2>7
      <4>. QED  BY <4>1
    <3>2. q * rate = Len(pcm) * rate + d * rate /\ d * rate \in Nat
      BY <3>1
    <3>. DEFINE u == q * rate
                v == d * rate
                r == x % rate
    <3>3. u = y + v /\ v \in Nat /\ x = u + r /\ r \in 0 .. rate - 1
      BY <2>6, <3>2
    <3>. HIDE DEF u, v, r, y
    <3>. QED  BY <1>2, <2>2, <2>4, <3>3
  <2>8. q + 1 \in 1 .. Len(pcm)
    BY <2>5, <2>7
  <2>. QED  BY <2>8 DEF q, x
<1>6. [i \in 1 .. n |-> pcm[(((i - 1) * R) \div rate) + 1]] \in [1 .. n -> T]
  BY <1>5
<1>. QED  BY <1>3, <1>4, <1>6

\* A byte of G.722 is what its encoder has read, two samples after two; an odd
\* number of them is read with one more.
LEMMA ReadByEncoder ==
  ASSUME NEW T, NEW pcm \in Seq(T)
  PROVE  LET e == EncodeG722(pcm)
         IN  /\ e \in Seq(Seq(T \cup {Junk})) /\ 2 * Len(e) - Len(pcm) \in {0, 1}
             /\ \A b \in 1 .. Len(e) :
                    /\ Len(e[b]) = 2 * b
                    /\ \A i \in 1 .. 2 * b : i <= Len(pcm) => e[b][i] = pcm[i]
<1>. DEFINE V == T \cup {Junk}
            n == Len(pcm)
            m == (n + 1) \div 2
            e == EncodeG722(pcm)
<1>1. n \in Nat /\ m \in Nat /\ n <= 2 * m /\ 2 * m <= n + 1
  OBVIOUS
<1>2. e = [b \in 1 .. m |-> [i \in 1 .. 2 * b |-> IF i <= n THEN pcm[i] ELSE Junk]]
  BY DEF EncodeG722
<1>3. \A i \in 1 .. n : pcm[i] \in V
  OBVIOUS
<1>4. Junk \in V
  OBVIOUS
<1>. HIDE DEF m, e, n, V
<1>5. ASSUME NEW b \in 1 .. m
      PROVE  /\ e[b] \in Seq(V) /\ Len(e[b]) = 2 * b
             /\ \A i \in 1 .. 2 * b : i <= n => e[b][i] = pcm[i]
  <2>. DEFINE z == 2 * b
              x == e[b]
  <2>1. z \in Nat /\ x = [i \in 1 .. z |-> IF i <= n THEN pcm[i] ELSE Junk]
    BY <1>1, <1>2
  <2>. HIDE DEF z, x
  <2>2. x \in [1 .. z -> V]
    BY <1>1, <1>3, <1>4, <2>1
  <2>3. x \in Seq(V) /\ Len(x) = z
    BY <2>1, <2>2
  <2>4. \A i \in 1 .. z : i <= n => x[i] = pcm[i]
    BY <2>1
  <2>. QED  BY <2>3, <2>4 DEF x, z
<1>6. e \in [1 .. m -> Seq(V)]
  BY <1>2, <1>5
<1>7. e \in Seq(Seq(V)) /\ Len(e) = m
  BY <1>1, <1>6
<1>8. 2 * m - n \in {0, 1}
  BY <1>1
<1>. QED  BY <1>5, <1>7, <1>8 DEF e, V, n

\* A sample is what its decoder has been given, up to the byte it is read from.
LEMMA GivenToDecoder ==
  ASSUME NEW T, NEW p \in Seq(T)
  PROVE  LET s == DecodeG722(p)
         IN  /\ s \in Seq(Seq(T)) /\ Len(s) = 2 * Len(p)
             /\ \A i \in 1 .. 2 * Len(p) :
                    (i + 1) \div 2 \in 1 .. Len(p) /\ Last(s[i]) = p[(i + 1) \div 2]
<1>. DEFINE n == Len(p)
            s == DecodeG722(p)
<1>1. n \in Nat /\ \A i \in 1 .. n : p[i] \in T
  OBVIOUS
<1>2. s = [i \in 1 .. 2 * n |-> SubSeq(p, 1, (i + 1) \div 2)]
  BY DEF DecodeG722
<1>. HIDE DEF n, s
<1>3. ASSUME NEW i \in 1 .. 2 * n
      PROVE  /\ (i + 1) \div 2 \in 1 .. n
             /\ s[i] \in Seq(T) /\ Last(s[i]) = p[(i + 1) \div 2]
  <2>. DEFINE j == (i + 1) \div 2
              x == SubSeq(p, 1, j)
  <2>1. j \in 1 .. n
    BY <1>1
  <2>2. s[i] = x
    BY <1>2
  <2>. HIDE DEF j
  <2>3. /\ x \in Seq(T) /\ Len(x) = IF 1 <= j THEN j - 1 + 1 ELSE 0
        /\ \A k \in 1 .. j - 1 + 1 : x[k] = p[1 + k - 1]
    <3>1. 1 \in Int /\ j \in Int /\ \A k \in 1 .. j : p[k] \in T
      BY <1>1, <2>1
    <3>. QED  BY <3>1, SubSeqProperties
  <2>. HIDE DEF x
  <2>4. Len(x) = j /\ x[j] = p[j]
    <3>1. 1 <= j /\ j - 1 + 1 = j /\ j \in 1 .. j - 1 + 1 /\ 1 + j - 1 = j
      BY <2>1
    <3>. QED  BY <2>3, <3>1
  <2>5. Last(s[i]) = p[j]
    BY <2>2, <2>4 DEF Last
  <2>. QED  BY <2>1, <2>2, <2>3, <2>5 DEF j
<1>4. s \in [1 .. 2 * n -> Seq(T)]
  BY <1>2, <1>3
<1>5. s \in Seq(Seq(T)) /\ Len(s) = 2 * n
  <2>. DEFINE u == 2 * n
              W == Seq(T)
  <2>1. u \in Nat /\ s \in [1 .. u -> W]
    BY <1>1, <1>4
  <2>. HIDE DEF u, W
  <2>2. s \in Seq(W) /\ Len(s) = u
    BY <2>1
  <2>. QED  BY <2>2 DEF u, W
<1>. QED  BY <1>3, <1>5 DEF s, n

\* Where sample g is in the packets of z bytes: the packet and its place there.
PacketOfSample(g, z) == ((g - 1) \div (2 * z)) + 1
PlaceOfSample(g, z) == ((g - 1) % (2 * z)) + 1

LEMMA SampleIsThere ==
  ASSUME NEW z \in Nat \ {0}, NEW k \in Nat \ {0}, NEW i \in 1 .. 2 * z
  PROVE  /\ PacketOfSample((k - 1) * (2 * z) + i, z) = k
         /\ PlaceOfSample((k - 1) * (2 * z) + i, z) = i
<1>. DEFINE u == 2 * z
            q == k - 1
            x == q * u + (i - 1)
            g == q * u + i
<1>1. u \in Nat \ {0} /\ q \in Int /\ i - 1 \in 0 .. u - 1
  OBVIOUS
<1>. HIDE DEF u, q
<1>2. q * u \in Int /\ x \in Int /\ g - 1 = x
  BY <1>1
<1>3. q * u <= x /\ x < q * u + u
  BY <1>1, <1>2
<1>4. x \div u = q
  <2>. HIDE DEF x
  <2>. QED  BY <1>1, <1>2, <1>3, QuotientIsUnique
<1>5. x % u = i - 1
  <2>. DEFINE r == x % u
              d == x \div u
  <2>1. x = d * u + r /\ r \in 0 .. u - 1
    <3>. HIDE DEF x
    <3>. QED  BY <1>1, <1>2, DivMod
  <2>2. d = q
    BY <1>4
  <2>. HIDE DEF r, d
  <2>3. x = q * u + r
    BY <2>1, <2>2
  <2>. DEFINE y == q * u
  <2>4. y + (i - 1) = y + r /\ y \in Int
    BY <1>2, <2>3
  <2>. HIDE DEF y
  <2>5. r = i - 1
    BY <1>1, <2>1, <2>4
  <2>. QED  BY <2>5 DEF r
<1>6. (g - 1) \div u = q /\ (g - 1) % u = i - 1
  BY <1>2, <1>4, <1>5
<1>. HIDE DEF g
<1>7. PacketOfSample(g, z) = k /\ PlaceOfSample(g, z) = i
  BY <1>6 DEF PacketOfSample, PlaceOfSample, u, q
<1>. QED  BY <1>7 DEF g, q, u

\* A payload is of the bytes that were encoded.
LEMMA PayloadsAreEncoded ==
  ASSUME NEW T, NEW encoded \in Seq(T), NEW z \in Nat \ {0}, NEW type,
         NEW c, c = Cut(encoded, z, type)
  PROVE  Len(c) \in Nat /\ \A k \in 1 .. Len(c) : c[k].payload \in Seq(T)
<1>. DEFINE b == Cut(encoded, z, type)
<1>1. /\ Len(b) \in Nat
      /\ Len(encoded) <= Len(b) * z /\ (Len(b) - 1) * z < Len(encoded)
      /\ \A k \in 1 .. Len(b) :
             /\ (k - 1) * z < Len(encoded)
             /\ b[k].payload = Part(encoded, z, k)
  BY ONLY CutParts, encoded \in Seq(T), z \in Nat \ {0}
<1>2. b = c
  OBVIOUS
<1>. HIDE DEF b
<1>3. ASSUME NEW k \in 1 .. Len(c)
      PROVE  c[k].payload \in Seq(T)
  <2>. DEFINE a == (k - 1) * z
              e == PartEnd(encoded, z, k)
              p == Part(encoded, z, k)
  <2>1. /\ a \in Nat /\ e \in Nat /\ a < e /\ Len(p) = e - a
        /\ \A i \in 1 .. Len(p) : a + i \in 1 .. Len(encoded) /\ p[i] = encoded[a + i]
    <3>1. k \in Nat \ {0} /\ Len(encoded) \in Nat /\ (k - 1) * z < Len(encoded)
      BY <1>1, <1>2
    <3>. QED  BY <3>1, PartHolds
  <2>2. p = [i \in 1 .. e - a |-> encoded[a + i]]
    BY DEF Part
  <2>3. c[k].payload = p
    BY <1>1, <1>2
  <2>. DEFINE m == e - a
  <2>. HIDE DEF a, e, p
  <2>4. m \in Nat /\ \A i \in 1 .. m : a + i \in 1 .. Len(encoded)
    BY <2>1
  <2>5. p \in [1 .. m -> T]
    <3>1. \A i \in 1 .. m : encoded[a + i] \in T
      <4>. HIDE DEF m
      <4>. QED  BY <2>4
    <3>. HIDE DEF m
    <3>. QED  BY <2>2, <3>1 DEF m
  <2>. HIDE DEF m
  <2>6. p \in Seq(T)
    BY <2>4, <2>5
  <2>. QED  BY <2>3, <2>6
<1>. QED  BY <1>1, <1>2, <1>3

\* What is played of the packets, sample by sample: what the decoder of its packet
\* has been given.
PlayedOfPackets(encoded, z) ==
    [g \in 1 .. 2 * Len(encoded) |->
        DecodeG722(Part(encoded, z, PacketOfSample(g, z)))[PlaceOfSample(g, z)]]

\* Decoded, a part of the bytes is the part of the samples that is twice as long.
LEMMA PartDecoded ==
  ASSUME NEW T, NEW e \in Seq(T), NEW z \in Nat \ {0}, NEW k \in Nat \ {0},
         (k - 1) * z < Len(e)
  PROVE  /\ Part(e, z, k) \in Seq(T)
         /\ DecodeG722(Part(e, z, k)) = Part(PlayedOfPackets(e, z), 2 * z, k)
         /\ \A i \in 1 .. Len(DecodeG722(Part(e, z, k))) :
                LET g == (k - 1) * (2 * z) + i
                IN  /\ g \in 1 .. 2 * Len(e) /\ i \in 1 .. 2 * z
                    /\ DecodeG722(Part(e, z, k))[i] \in Seq(T)
                    /\ Last(DecodeG722(Part(e, z, k))[i]) = e[(g + 1) \div 2]
<1>. DEFINE a == (k - 1) * z
            f == PartEnd(e, z, k)
            p == Part(e, z, k)
            w == PlayedOfPackets(e, z)
            m == f - a
            n == Len(e)
            A == (k - 1) * (2 * z)
            d == DecodeG722(p)
<1>1. /\ a \in Nat /\ f \in Nat /\ a < f /\ f <= n /\ Len(p) = m
      /\ \A i \in 1 .. Len(p) : a + i \in 1 .. n /\ p[i] = e[a + i]
  <2>1. Len(e) \in Nat
    OBVIOUS
  <2>. QED  BY <2>1, PartHolds
<1>2. n \in Nat /\ A = 2 * a /\ k * (2 * z) = 2 * (k * z) /\ k * z \in Nat /\ k * z = a + z
  OBVIOUS
<1>3. f = IF k * z < n THEN k * z ELSE n
  BY DEF PartEnd
<1>4. w = [g \in 1 .. 2 * n |-> DecodeG722(Part(e, z, PacketOfSample(g, z)))[PlaceOfSample(g, z)]]
  BY DEF PlayedOfPackets
<1>5. p = [i \in 1 .. m |-> e[a + i]]
  BY DEF Part
<1>6. \A i \in 1 .. n : e[i] \in T
  OBVIOUS
<1>7. Part(w, 2 * z, k) = [i \in 1 .. PartEnd(w, 2 * z, k) - A |-> w[A + i]]
  BY DEF Part
<1>8. PartEnd(w, 2 * z, k) = IF k * (2 * z) < Len(w) THEN k * (2 * z) ELSE Len(w)
  BY DEF PartEnd
<1>9. \A i \in 1 .. 2 * z : PacketOfSample(A + i, z) = k /\ PlaceOfSample(A + i, z) = i
  BY SampleIsThere
<1>10. d = DecodeG722(p)
  OBVIOUS
<1>11. Len(w) = 2 * n
  <2>. DEFINE u == 2 * n
  <2>1. u \in Nat
    BY <1>2
  <2>. HIDE DEF u, w
  <2>2. DOMAIN w = 1 .. u
    BY <1>4 DEF u
  <2>. QED  BY <2>1, <2>2, <1>4 DEF u
<1>. HIDE DEF p, w, a, f, n, A, d
<1>12. m \in Nat \ {0} /\ m <= z
  BY <1>1, <1>2, <1>3
<1>13. PartEnd(w, 2 * z, k) - A = 2 * m
  <2>. DEFINE x == k * z
              u == k * (2 * z)
  <2>1. u = 2 * x /\ x \in Nat /\ f = IF x < n THEN x ELSE n
    BY <1>2, <1>3
  <2>2. PartEnd(w, 2 * z, k) = IF u < 2 * n THEN u ELSE 2 * n
    BY <1>8, <1>11
  <2>. HIDE DEF x, u
  <2>3. PartEnd(w, 2 * z, k) = 2 * f
    BY <1>2, <2>1, <2>2
  <2>. QED  BY <1>1, <1>2, <2>3
<1>14. p \in Seq(T)
  <2>. HIDE DEF m
  <2>1. p \in [1 .. m -> T]
    BY <1>1, <1>5, <1>6
  <2>. QED  BY <1>12, <2>1
<1>. HIDE DEF m
<1>15. /\ d \in Seq(Seq(T)) /\ Len(d) = 2 * m
       /\ \A i \in 1 .. 2 * m :
              (i + 1) \div 2 \in 1 .. m /\ Last(d[i]) = p[(i + 1) \div 2]
  <2>1. /\ d \in Seq(Seq(T)) /\ Len(d) = 2 * Len(p)
        /\ \A i \in 1 .. 2 * Len(p) :
               (i + 1) \div 2 \in 1 .. Len(p) /\ Last(d[i]) = p[(i + 1) \div 2]
    BY <1>10, <1>14, GivenToDecoder
  <2>2. Len(p) = m
    BY <1>1 DEF m
  <2>. QED  BY ONLY <2>1, <2>2
<1>16. ASSUME NEW i \in 1 .. 2 * m
       PROVE  /\ A + i \in 1 .. 2 * n /\ i \in 1 .. 2 * z /\ d[i] \in Seq(T)
              /\ Last(d[i]) = e[((A + i) + 1) \div 2]
              /\ w[A + i] = d[i]
  <2>1. i \in 1 .. 2 * z
    BY <1>12
  <2>2. A + i \in 1 .. 2 * n
    BY <1>1, <1>2 DEF m
  <2>3. PacketOfSample(A + i, z) = k /\ PlaceOfSample(A + i, z) = i
    BY <1>9, <2>1
  <2>4. w[A + i] = DecodeG722(Part(e, z, k))[i]
    BY <1>4, <2>2, <2>3
  <2>5. w[A + i] = d[i]
    BY <2>4 DEF d, p
  <2>6. d[i] \in Seq(T)
    <3>. DEFINE W == Seq(T)
                u == 2 * m
    <3>1. d \in Seq(W) /\ Len(d) = u /\ i \in 1 .. u
      BY <1>15
    <3>. HIDE DEF W, u
    <3>2. d[i] \in W
      BY <3>1
    <3>. QED  BY <3>2 DEF W
  <2>7. Last(d[i]) = e[a + ((i + 1) \div 2)]
    <3>. DEFINE j == (i + 1) \div 2
    <3>1. j \in 1 .. m /\ Last(d[i]) = p[j]
      BY <1>15
    <3>. HIDE DEF j
    <3>2. p[j] = e[a + j]
      BY <1>5, <3>1
    <3>. QED  BY <3>1, <3>2 DEF j
  <2>8. a + ((i + 1) \div 2) = ((A + i) + 1) \div 2
    BY <1>1, <1>2
  <2>. QED  BY <2>1, <2>2, <2>5, <2>6, <2>7, <2>8
<1>17. d = [i \in 1 .. 2 * m |-> w[A + i]]
  <2>. DEFINE u == 2 * m
              W == Seq(T)
  <2>1. d \in Seq(W) /\ Len(d) = u
    BY <1>15
  <2>2. \A i \in 1 .. u : d[i] = w[A + i]
    BY <1>16
  <2>. HIDE DEF u, W
  <2>3. d = [i \in 1 .. u |-> d[i]]
    BY <2>1
  <2>4. d = [i \in 1 .. u |-> w[A + i]]
    BY <2>2, <2>3
  <2>. QED  BY <2>4 DEF u
<1>18. d = Part(w, 2 * z, k)
  BY <1>7, <1>13, <1>17
<1>19. \A i \in 1 .. Len(d) :
           /\ A + i \in 1 .. 2 * n /\ i \in 1 .. 2 * z
           /\ d[i] \in Seq(T) /\ Last(d[i]) = e[((A + i) + 1) \div 2]
  BY <1>15, <1>16
<1>. QED  BY <1>14, <1>18, <1>19 DEF p, w, d, A, n

\* A sample of the whole is one of a packet.
LEMMA SampleOfPacket ==
  ASSUME NEW z \in Nat \ {0}, NEW n \in Nat, NEW g \in 1 .. 2 * n
  PROVE  LET k == PacketOfSample(g, z)
             i == PlaceOfSample(g, z)
         IN  /\ k \in Nat \ {0} /\ i \in 1 .. 2 * z /\ g = (k - 1) * (2 * z) + i
             /\ (k - 1) * z < n
<1>. DEFINE u == 2 * z
            x == g - 1
            q == x \div u
            r == x % u
<1>1. u \in Nat \ {0} /\ x \in Nat
  OBVIOUS
<1>. HIDE DEF u, x
<1>2. q \in Int /\ r \in 0 .. u - 1 /\ x = q * u + r
  BY <1>1, DivMod
<1>3. q \in Nat
  BY <1>1, QuotientInNat
<1>. HIDE DEF q, r
<1>4. PacketOfSample(g, z) = q + 1 /\ PlaceOfSample(g, z) = r + 1
  BY DEF PacketOfSample, PlaceOfSample, q, r, x, u
<1>5. q * u = 2 * (q * z) /\ q * z \in Nat
  BY <1>3 DEF u
<1>. DEFINE y == q * u
            v == q * z
<1>. HIDE DEF y, v
<1>6. x = y + r /\ y = 2 * v /\ v \in Nat /\ r \in Nat /\ r + 1 \in 1 .. u
  BY <1>1, <1>2, <1>5 DEF y, v
<1>7. g = y + (r + 1) /\ v < n
  BY <1>6 DEF x
<1>8. (q + 1) - 1 = q /\ q + 1 \in Nat \ {0}
  BY <1>3
<1>9. /\ q + 1 \in Nat \ {0} /\ r + 1 \in 1 .. 2 * z
      /\ g = ((q + 1) - 1) * (2 * z) + (r + 1) /\ ((q + 1) - 1) * z < n
  BY <1>6, <1>7, <1>8 DEF y, v, u
<1>. QED  BY <1>4, <1>9

LEMMA PacketsPlayed ==
  ASSUME NEW T, NEW e \in Seq(T), NEW z \in Nat \ {0}, NEW c, c = Cut(e, z, "G722")
  PROVE  LET played == FlattenSeq([k \in 1 .. Len(c) |-> DecodeG722(c[k].payload)])
         IN  /\ Len(played) = 2 * Len(e)
             /\ \A g \in 1 .. 2 * Len(e) : Last(played[g]) = e[(g + 1) \div 2]
<1>. DEFINE w == PlayedOfPackets(e, z)
            d == [k \in 1 .. Len(c) |-> DecodeG722(c[k].payload)]
            n == Len(e)
<1>1. n \in Nat /\ e \in Seq(T)
  OBVIOUS
<1>3. /\ Len(c) \in Nat
      /\ n <= Len(c) * z /\ (Len(c) - 1) * z < n
      /\ \A k \in 1 .. Len(c) : (k - 1) * z < n /\ c[k].payload = Part(e, z, k)
  <2>. DEFINE b == Cut(e, z, "G722")
  <2>1. /\ Len(b) \in Nat
        /\ Len(e) <= Len(b) * z /\ (Len(b) - 1) * z < Len(e)
        /\ \A k \in 1 .. Len(b) :
               /\ (k - 1) * z < Len(e)
               /\ b[k].payload = Part(e, z, k)
    BY CutParts
  <2>2. b = c
    OBVIOUS
  <2>. QED  BY ONLY <2>1, <2>2
<1>4. ASSUME NEW k \in 1 .. Len(c)
      PROVE  d[k] = Part(w, 2 * z, k)
  <2>1. d[k] = DecodeG722(Part(e, z, k))
    BY <1>3
  <2>2. k \in Nat \ {0} /\ (k - 1) * z < Len(e)
    BY <1>3
  <2>3. DecodeG722(Part(e, z, k)) = Part(PlayedOfPackets(e, z), 2 * z, k)
    BY <2>2, PartDecoded
  <2>. QED  BY <2>1, <2>3
<1>5. Len(d) = Len(c) /\ (Len(d) = 0 => d = << >>)
  <2>. DEFINE m == Len(c)
              s(k) == DecodeG722(c[k].payload)
  <2>1. m \in Nat /\ d = [k \in 1 .. m |-> s(k)]
    BY <1>3
  <2>. HIDE DEF m, s, d
  <2>2. Len(d) = m /\ (m = 0 => d = << >>)
    BY <2>1
  <2>. QED  BY <2>2 DEF m
<1>2. w = [g \in 1 .. 2 * n |-> DecodeG722(Part(e, z, PacketOfSample(g, z)))[PlaceOfSample(g, z)]]
  BY DEF PlayedOfPackets
<1>. HIDE DEF d, w, n
<1>6. ASSUME NEW g \in 1 .. 2 * n
      PROVE  w[g] \in Seq(T) /\ Last(w[g]) = e[(g + 1) \div 2]
  <2>. DEFINE k == PacketOfSample(g, z)
              i == PlaceOfSample(g, z)
              s == DecodeG722(Part(e, z, k))
  <2>1. k \in Nat \ {0} /\ i \in 1 .. 2 * z /\ g = (k - 1) * (2 * z) + i /\ (k - 1) * z < n
    BY <1>1, SampleOfPacket
  <2>2. w[g] = s[i]
    BY <1>2
  <2>. HIDE DEF k, i
  <2>3. (k - 1) * z < Len(e)
    BY <2>1 DEF n
  <2>4. /\ Part(e, z, k) \in Seq(T)
        /\ \A j \in 1 .. Len(s) :
               LET h == (k - 1) * (2 * z) + j
               IN  s[j] \in Seq(T) /\ Last(s[j]) = e[(h + 1) \div 2]
    BY <2>1, <2>3, PartDecoded
  <2>5. i \in 1 .. Len(s)
    <3>1. /\ (k - 1) * z \in Nat /\ PartEnd(e, z, k) \in Nat
          /\ Len(Part(e, z, k)) = PartEnd(e, z, k) - (k - 1) * z
      BY <1>1, <2>1, <2>3, PartHolds DEF n
    <3>2. Len(s) = 2 * Len(Part(e, z, k))
      BY <2>4, GivenToDecoder
    <3>3. k * z = (k - 1) * z + z /\ (k - 1) * (2 * z) = 2 * ((k - 1) * z)
      BY <2>1
    <3>4. PartEnd(e, z, k) = IF k * z < n THEN k * z ELSE n
      BY DEF PartEnd, n
    <3>. DEFINE a == (k - 1) * z
                f == PartEnd(e, z, k)
                l == Len(s)
                A == (k - 1) * (2 * z)
                x == k * z
    <3>5. /\ a \in Nat /\ f \in Nat /\ l = 2 * (f - a) /\ x = a + z /\ A = 2 * a
          /\ f = (IF x < n THEN x ELSE n) /\ g = A + i
      BY <3>1, <3>2, <3>3, <3>4, <2>1
    <3>. HIDE DEF a, f, l, A, x
    <3>6. i \in 1 .. l
      BY <1>1, <2>1, <3>5
    <3>. QED  BY <3>6 DEF l
  <2>6. s[i] \in Seq(T) /\ Last(s[i]) = e[(((k - 1) * (2 * z) + i) + 1) \div 2]
    BY <2>4, <2>5
  <2>. HIDE DEF s
  <2>. QED  BY <2>1, <2>2, <2>6
<1>7. w \in Seq(Seq(T)) /\ Len(w) = 2 * n
  <2>. DEFINE u == 2 * n
              W == Seq(T)
  <2>1. u \in Nat /\ DOMAIN w = 1 .. u /\ w = [g \in 1 .. u |-> w[g]]
    BY <1>1, <1>2
  <2>2. \A g \in 1 .. u : w[g] \in W
    BY <1>6
  <2>. HIDE DEF u, W
  <2>3. w \in [1 .. u -> W]
    BY <2>1, <2>2
  <2>4. w \in Seq(W) /\ Len(w) = u
    BY <2>1, <2>3
  <2>. QED  BY <2>4 DEF u, W
<1>8. Len(w) <= Len(d) * (2 * z) /\ (Len(d) - 1) * (2 * z) < Len(w)
  <2>. DEFINE m == Len(c)
              x == m * z
              y == (m - 1) * z
  <2>1. m * (2 * z) = 2 * x /\ (m - 1) * (2 * z) = 2 * y /\ x \in Int /\ y \in Int
    BY <1>3
  <2>2. n <= x /\ y < n
    BY <1>3
  <2>. HIDE DEF m, x, y
  <2>3. 2 * n <= 2 * x /\ 2 * y < 2 * n
    BY <1>1, <2>1, <2>2
  <2>4. Len(w) <= m * (2 * z) /\ (m - 1) * (2 * z) < Len(w)
    BY <1>7, <2>1, <2>3
  <2>. QED  BY <1>5, <2>4 DEF m
<1>9. CutInto(d, w, 2 * z)
  BY <1>3, <1>4, <1>5, <1>8 DEF CutInto
<1>10. FlattenSeq(d) = w
  <2>. DEFINE W == Seq(T)
  <2>1. 2 * z \in Nat \ {0} /\ w \in Seq(W)
    BY <1>7
  <2>. HIDE DEF W
  <2>. QED  BY <1>9, <2>1, PartsJoin
<1>. QED  BY <1>6, <1>7, <1>10 DEF d, n

\* Every sample that is played of G.722 is decoded from the byte that was written
\* when the encoder had read it.
LEMMA G722Played ==
  ASSUME NEW T, NEW sent \in Seq(T), NEW z \in Nat \ {0},
         NEW c, c = Cut(EncodeG722(sent), z, "G722")
  PROVE  LET played == FlattenSeq([k \in 1 .. Len(c) |-> DecodeG722(c[k].payload)])
         IN  /\ Len(played) - Len(sent) \in {0, 1}
             /\ \A i \in 1 .. Len(sent) : Heard("rtp_g722", played[i], sent, i)
<1>. DEFINE V == Seq(T \cup {Junk})
            e == EncodeG722(sent)
            m == Len(e)
            n == Len(sent)
            played == FlattenSeq([k \in 1 .. Len(c) |-> DecodeG722(c[k].payload)])
<1>1. /\ e \in Seq(V) /\ 2 * m - n \in {0, 1}
      /\ \A b \in 1 .. m :
             /\ Len(e[b]) = 2 * b
             /\ \A i \in 1 .. 2 * b : i <= n => e[b][i] = sent[i]
  BY ReadByEncoder
<1>2. c = Cut(e, z, "G722") /\ n \in Nat
  OBVIOUS
<1>. HIDE DEF V, e
<1>3. m \in Nat
  BY <1>1
<1>4. Len(played) = 2 * m /\ \A g \in 1 .. 2 * m : Last(played[g]) = e[(g + 1) \div 2]
  <2>1. e \in Seq(V)
    BY <1>1
  <2>. QED  BY <1>2, <2>1, PacketsPlayed
<1>. HIDE DEF played, m, n
<1>5. Len(played) - n \in {0, 1}
  BY <1>1, <1>4
<1>6. ASSUME NEW i \in 1 .. n
      PROVE  Heard("rtp_g722", played[i], sent, i)
  <2>. DEFINE b == (i + 1) \div 2
              last == Last(played[i])
  <2>1. i \in 1 .. 2 * m /\ b \in 1 .. m /\ i <= 2 * b
    BY <1>1, <1>2, <1>3
  <2>2. last = e[b]
    BY <1>4, <2>1
  <2>. HIDE DEF b
  <2>3. Len(last) = 2 * b
    BY <1>1, <2>1, <2>2
  <2>4. \A j \in 1 .. i : last[j] = sent[j]
    <3>1. \A j \in 1 .. i : j \in 1 .. 2 * b /\ j <= n
      BY <1>2, <2>1
    <3>2. \A j \in 1 .. 2 * b : j <= n => e[b][j] = sent[j]
      BY <1>1, <2>1
    <3>. QED  BY <2>2, <3>1, <3>2
  <2>5. "rtp_g722" \notin PcmFormats
    BY DEF PcmFormats
  <2>. QED  BY <2>3, <2>4, <2>5 DEF Heard, b
<1>. QED  BY <1>5, <1>6 DEF played, n

\* G.711 on the page, packet by packet and sample by sample.
PcmuBytes(pcm) == [i \in 1 .. Len(pcm) |-> LinearToMulaw(pcm[i])]
PcmuHeard(pcm) == [i \in 1 .. Len(pcm) |-> UlawToLinear(LinearToMulaw(pcm[i]))]
PcmuDecoded(packets) ==
    FlattenSeq([k \in 1 .. Len(packets) |->
                   [i \in 1 .. Len(packets[k].payload) |-> UlawToLinear(packets[k].payload[i])]])

LEMMA MulawDecoded ==
  ASSUME NEW sent \in Seq(Samples16), NEW z \in Nat \ {0}
  PROVE  PcmuDecoded(Cut(PcmuBytes(sent), z, "Pcmu")) = PcmuHeard(sent)
<1>. DEFINE c       == Cut(PcmuBytes(sent), z, "Pcmu")
            n       == Len(sent)
            T       == {LinearToMulaw(x) : x \in Samples16}
            V       == {UlawToLinear(b) : b \in T}
            encoded == [i \in 1 .. n |-> LinearToMulaw(sent[i])]
            decoded == [i \in 1 .. n |-> UlawToLinear(LinearToMulaw(sent[i]))]
            heard(p) == [i \in 1 .. Len(p) |-> UlawToLinear(p[i])]
            d       == [k \in 1 .. Len(c) |-> heard(c[k].payload)]
<1>1. n \in Nat /\ \A i \in 1 .. n : sent[i] \in Samples16
  OBVIOUS
<1>2. encoded \in Seq(T) /\ Len(encoded) = n
  <2>. HIDE DEF n
  <2>1. encoded \in [1 .. n -> T]
    BY <1>1
  <2>. HIDE DEF T, encoded
  <2>2. encoded \in Seq(T)
    BY <1>1, <2>1
  <2>. QED  BY <1>1, <2>1, <2>2
<1>3. decoded \in Seq(V) /\ Len(decoded) = n
  <2>. HIDE DEF n
  <2>1. decoded \in [1 .. n -> V]
    BY <1>1
  <2>. HIDE DEF V, decoded
  <2>2. decoded \in Seq(V)
    BY <1>1, <2>1
  <2>. QED  BY <1>1, <2>1, <2>2
<1>4. c = Cut(encoded, z, "Pcmu")
  BY DEF PcmuBytes
<1>5. \A i \in 1 .. n : decoded[i] = UlawToLinear(encoded[i])
  OBVIOUS
<1>6. \A b \in T : UlawToLinear(b) \in V
  OBVIOUS
<1>. HIDE DEF T, V, encoded, decoded, n, c
<1>7. Len(c) \in Nat /\ \A k \in 1 .. Len(c) : c[k].payload \in Seq(T)
  BY <1>2, <1>4, PayloadsAreEncoded
<1>8. ASSUME NEW p \in Seq(T)
      PROVE  /\ heard(p) \in Seq(V) /\ Len(heard(p)) = Len(p)
             /\ \A i \in 1 .. Len(p) : heard(p)[i] = UlawToLinear(p[i])
  <2>1. Len(p) \in Nat /\ \A i \in 1 .. Len(p) : p[i] \in T
    OBVIOUS
  <2>. DEFINE m == Len(p)
              h == heard(p)
  <2>2. h \in [1 .. m -> V] /\ \A i \in 1 .. m : h[i] = UlawToLinear(p[i])
    BY <1>6, <2>1
  <2>. HIDE DEF m, h
  <2>3. h \in Seq(V) /\ Len(h) = m
    BY <2>1, <2>2 DEF m
  <2>. QED  BY <2>2, <2>3 DEF m, h
<1>9. ASSUME NEW k \in 1 .. Len(c)
      PROVE  /\ d[k] \in Seq(V) /\ Len(d[k]) = Len(c[k].payload)
             /\ \A i \in 1 .. Len(c[k].payload), j \in 1 .. Len(encoded) :
                    c[k].payload[i] = encoded[j] => d[k][i] = decoded[j]
  <2>. DEFINE p == c[k].payload
  <2>1. p \in Seq(T)
    BY <1>7
  <2>2. d[k] = heard(p)
    OBVIOUS
  <2>. HIDE DEF p, heard, d
  <2>3. d[k] \in Seq(V) /\ Len(d[k]) = Len(p)
    BY <1>8, <2>1, <2>2
  <2>4. \A i \in 1 .. Len(p), j \in 1 .. Len(encoded) : p[i] = encoded[j] => d[k][i] = decoded[j]
    BY <1>2, <1>5, <1>8, <2>1, <2>2
  <2>. QED  BY <2>3, <2>4 DEF p
<1>10. d \in Seq(Seq(V)) /\ Len(d) = Len(c)
  <2>. DEFINE m == Len(c)
  <2>1. DOMAIN d = 1 .. m /\ m \in Nat /\ d = [k \in 1 .. m |-> d[k]]
    BY <1>7
  <2>2. \A k \in 1 .. m : d[k] \in Seq(V)
    BY <1>9
  <2>. HIDE DEF d, m
  <2>3. d \in [1 .. m -> Seq(V)]
    BY <2>1, <2>2
  <2>4. d \in Seq(Seq(V)) /\ Len(d) = m
    BY <2>1, <2>3
  <2>. QED  BY <2>4 DEF m
<1>. HIDE DEF d
<1>11. Aligned(d, c, decoded, encoded)
  BY <1>2, <1>3, <1>9, <1>10 DEF Aligned
<1>12. FlattenSeq(d) = decoded
  <2>1. encoded \in Seq(T) /\ decoded \in Seq(V)
    BY <1>2, <1>3
  <2>2. d \in Seq(Seq(V))
    BY <1>10
  <2>. QED  BY ONLY z \in Nat \ {0}, <1>4, <1>11, <2>1, <2>2, BytesDecoded
<1>. QED  BY <1>12 DEF c, d, decoded, n, PcmuDecoded, PcmuHeard

PcmaBytes(pcm) == [i \in 1 .. Len(pcm) |-> LinearToAlaw(pcm[i])]
PcmaHeard(pcm) == [i \in 1 .. Len(pcm) |-> PageAlawToLinear(LinearToAlaw(pcm[i]))]
PcmaDecoded(packets) ==
    FlattenSeq([k \in 1 .. Len(packets) |->
                   [i \in 1 .. Len(packets[k].payload) |-> PageAlawToLinear(packets[k].payload[i])]])

LEMMA AlawDecoded ==
  ASSUME NEW sent \in Seq(Samples16), NEW z \in Nat \ {0}
  PROVE  PcmaDecoded(Cut(PcmaBytes(sent), z, "Pcma")) = PcmaHeard(sent)
<1>. DEFINE c       == Cut(PcmaBytes(sent), z, "Pcma")
            n       == Len(sent)
            T       == {LinearToAlaw(x) : x \in Samples16}
            V       == {PageAlawToLinear(b) : b \in T}
            encoded == [i \in 1 .. n |-> LinearToAlaw(sent[i])]
            decoded == [i \in 1 .. n |-> PageAlawToLinear(LinearToAlaw(sent[i]))]
            heard(p) == [i \in 1 .. Len(p) |-> PageAlawToLinear(p[i])]
            d       == [k \in 1 .. Len(c) |-> heard(c[k].payload)]
<1>1. n \in Nat /\ \A i \in 1 .. n : sent[i] \in Samples16
  OBVIOUS
<1>2. encoded \in Seq(T) /\ Len(encoded) = n
  <2>. HIDE DEF n
  <2>1. encoded \in [1 .. n -> T]
    BY <1>1
  <2>. HIDE DEF T, encoded
  <2>2. encoded \in Seq(T)
    BY <1>1, <2>1
  <2>. QED  BY <1>1, <2>1, <2>2
<1>3. decoded \in Seq(V) /\ Len(decoded) = n
  <2>. HIDE DEF n
  <2>1. decoded \in [1 .. n -> V]
    BY <1>1
  <2>. HIDE DEF V, decoded
  <2>2. decoded \in Seq(V)
    BY <1>1, <2>1
  <2>. QED  BY <1>1, <2>1, <2>2
<1>4. c = Cut(encoded, z, "Pcma")
  BY DEF PcmaBytes
<1>5. \A i \in 1 .. n : decoded[i] = PageAlawToLinear(encoded[i])
  OBVIOUS
<1>6. \A b \in T : PageAlawToLinear(b) \in V
  OBVIOUS
<1>. HIDE DEF T, V, encoded, decoded, n, c
<1>7. Len(c) \in Nat /\ \A k \in 1 .. Len(c) : c[k].payload \in Seq(T)
  BY <1>2, <1>4, PayloadsAreEncoded
<1>8. ASSUME NEW p \in Seq(T)
      PROVE  /\ heard(p) \in Seq(V) /\ Len(heard(p)) = Len(p)
             /\ \A i \in 1 .. Len(p) : heard(p)[i] = PageAlawToLinear(p[i])
  <2>1. Len(p) \in Nat /\ \A i \in 1 .. Len(p) : p[i] \in T
    OBVIOUS
  <2>. DEFINE m == Len(p)
              h == heard(p)
  <2>2. h \in [1 .. m -> V] /\ \A i \in 1 .. m : h[i] = PageAlawToLinear(p[i])
    BY <1>6, <2>1
  <2>. HIDE DEF m, h
  <2>3. h \in Seq(V) /\ Len(h) = m
    BY <2>1, <2>2 DEF m
  <2>. QED  BY <2>2, <2>3 DEF m, h
<1>9. ASSUME NEW k \in 1 .. Len(c)
      PROVE  /\ d[k] \in Seq(V) /\ Len(d[k]) = Len(c[k].payload)
             /\ \A i \in 1 .. Len(c[k].payload), j \in 1 .. Len(encoded) :
                    c[k].payload[i] = encoded[j] => d[k][i] = decoded[j]
  <2>. DEFINE p == c[k].payload
  <2>1. p \in Seq(T)
    BY <1>7
  <2>2. d[k] = heard(p)
    OBVIOUS
  <2>. HIDE DEF p, heard, d
  <2>3. d[k] \in Seq(V) /\ Len(d[k]) = Len(p)
    BY <1>8, <2>1, <2>2
  <2>4. \A i \in 1 .. Len(p), j \in 1 .. Len(encoded) : p[i] = encoded[j] => d[k][i] = decoded[j]
    BY <1>2, <1>5, <1>8, <2>1, <2>2
  <2>. QED  BY <2>3, <2>4 DEF p
<1>10. d \in Seq(Seq(V)) /\ Len(d) = Len(c)
  <2>. DEFINE m == Len(c)
  <2>1. DOMAIN d = 1 .. m /\ m \in Nat /\ d = [k \in 1 .. m |-> d[k]]
    BY <1>7
  <2>2. \A k \in 1 .. m : d[k] \in Seq(V)
    BY <1>9
  <2>. HIDE DEF d, m
  <2>3. d \in [1 .. m -> Seq(V)]
    BY <2>1, <2>2
  <2>4. d \in Seq(Seq(V)) /\ Len(d) = m
    BY <2>1, <2>3
  <2>. QED  BY <2>4 DEF m
<1>. HIDE DEF d
<1>11. Aligned(d, c, decoded, encoded)
  BY <1>2, <1>3, <1>9, <1>10 DEF Aligned
<1>12. FlattenSeq(d) = decoded
  <2>1. encoded \in Seq(T) /\ decoded \in Seq(V)
    BY <1>2, <1>3
  <2>2. d \in Seq(Seq(V))
    BY <1>10
  <2>. QED  BY ONLY z \in Nat \ {0}, <1>4, <1>11, <2>1, <2>2, BytesDecoded
<1>. QED  BY <1>12 DEF c, d, decoded, n, PcmaDecoded, PcmaHeard

\* What is played of a recording that is encoded with these settings.
Played(pcm, codec) == DecodeFromEncoded(codec.format, EncodeForTransport(pcm, codec))

\* It is made of the recording, sample after sample, with at most one more.
HeardAs(codec, played, sent) ==
    /\ Len(played) - Len(sent) \in {0, 1}
    /\ \A i \in 1 .. Len(sent) : Heard(codec.format, played[i], sent, i)

\* One sample of G.711 is heard as it was recorded.
LEMMA SampleHeard ==
  ASSUME NEW x \in Samples16
  PROVE  \A sent, i : sent[i] = x =>
             /\ Heard("rtp_pcmu", UlawToLinear(LinearToMulaw(x)), sent, i)
             /\ Heard("rtp_pcma", PageAlawToLinear(LinearToAlaw(x)), sent, i)
<1>. SUFFICES ASSUME NEW sent, NEW i, sent[i] = x
              PROVE  /\ Heard("rtp_pcmu", UlawToLinear(LinearToMulaw(x)), sent, i)
                     /\ Heard("rtp_pcma", PageAlawToLinear(LinearToAlaw(x)), sent, i)
  OBVIOUS
<1>1. "rtp_pcmu" \notin PcmFormats /\ "rtp_pcma" \notin PcmFormats
  BY DEF PcmFormats
<1>2. Heard("rtp_pcmu", UlawToLinear(LinearToMulaw(x)), sent, i)
  BY <1>1, MulawHeard DEF Heard
<1>3. Heard("rtp_pcma", PageAlawToLinear(LinearToAlaw(x)), sent, i)
  <2>1. Near(PageAlawToLinear(LinearToAlaw(x)), x) \/ Magnitude(x) \in 256 .. 511
    BY AlawHeard
  <2>. QED  BY <1>1, <2>1 DEF Heard
<1>. QED  BY <1>2, <1>3

LEMMA PreviewIsHeard ==
  ASSUME NEW pcm \in Seq(Samples16), NEW codec \in CodecSettings, codec.format # "rtp_g729"
  PROVE  HeardAs(codec, Played(pcm, codec), Resampled(pcm, codec.rate))
<1>. DEFINE sent   == Resampled(pcm, codec.rate)
            size   == FrameSize(codec)
            frames == EncodeForTransport(pcm, codec)
            played == Played(pcm, codec)
<1>1. codec.rate \in Nat \ {0} /\ codec.format \in Formats
  BY RatesAssumption DEF CodecSettings
<1>2. sent \in Seq(Samples16) /\ Len(sent) \in Nat
  BY <1>1, ResampledIsRecorded
<1>3. size \in Nat \ {0}
  BY SizeOfFrame
<1>4. played = DecodeFromEncoded(codec.format, frames)
  BY DEF Played
<1>. HIDE DEF sent, size, frames, played
<1>5. CASE codec.format \in PcmFormats
  <2>1. codec.format \notin RtpFormats
    BY <1>5 DEF PcmFormats, RtpFormats
  <2>2. frames = Slices(sent, size)
    BY <1>5, <2>1 DEF EncodeForTransport, FrameSize, BackendFormats, RtpFormats, frames, sent, size
  <2>3. played = FlattenSeq(frames)
    BY <1>4, <1>5 DEF DecodeFromEncoded, PcmFormats, BackendFormats
  <2>4. played = sent
    BY <1>2, <1>3, <2>2, <2>3, SlicesJoin
  <2>5. Len(played) - Len(sent) \in {0, 1}
    BY <1>2, <2>4
  <2>6. \A i \in 1 .. Len(sent) : Heard(codec.format, played[i], sent, i)
    <3>1. codec.format \notin {"rtp_pcmu", "rtp_pcma", "rtp_g722"}
      BY <2>1 DEF RtpFormats
    <3>. SUFFICES ASSUME NEW i \in 1 .. Len(sent)
                  PROVE  Heard(codec.format, played[i], sent, i)
      OBVIOUS
    <3>. QED  BY ONLY <1>5, <2>4, <3>1 DEF Heard
  <2>. QED  BY ONLY <2>5, <2>6 DEF HeardAs, played, sent
<1>6. CASE codec.format = "rtp_g722"
  <2>. DEFINE bytes == EncodeG722(sent)
  <2>1. frames = PackRtpFrames(codec.format, sent, codec.frame_ms)
    BY <1>6 DEF EncodeForTransport, PcmFormats, BackendFormats, frames, sent
  <2>2. size = BytesPerFrame(codec.format, codec.frame_ms)
    BY <1>6 DEF FrameSize, BackendFormats, size
  <2>3. frames = Cut(bytes, size, "G722")
    BY <2>1, <2>2 DEF PackRtpFrames
  <2>4. played = DecodeRtpFrames(codec.format, frames)
    BY <1>4, <1>6 DEF DecodeFromEncoded, PcmFormats, BackendFormats
  <2>5. Len(bytes) \in Nat
    BY <1>2, ReadByEncoder
  <2>6. Packed(frames, size, "G722")
    BY <1>3, <2>3, <2>5, CutIsPacked
  <2>7. ASSUME NEW k \in 1 .. Len(frames)
        PROVE  Decoded(codec.format, frames[k]) = DecodeG722(frames[k].payload)
    <3>1. frames[k].header_ok = TRUE
      BY <2>6 DEF Packed
    <3>2. frames[k].payload_type = "G722"
      BY <2>6 DEF Packed
    <3>3. ExpectedPayload(codec.format) = "G722"
      BY <1>6 DEF ExpectedPayload
    <3>4. Accepts(frames[k], ExpectedPayload(codec.format))
      BY <3>1, <3>2, <3>3 DEF Accepts
    <3>5. DecodePayload(codec.format, frames[k].payload) = DecodeG722(frames[k].payload)
      BY <1>6 DEF DecodePayload
    <3>. QED  BY <3>4, <3>5 DEF Decoded
  <2>8. played = FlattenSeq([k \in 1 .. Len(frames) |-> DecodeG722(frames[k].payload)])
    <3>1. [k \in 1 .. Len(frames) |-> Decoded(codec.format, frames[k])]
            = [k \in 1 .. Len(frames) |-> DecodeG722(frames[k].payload)]
      BY <2>7
    <3>. QED  BY <2>4, <3>1 DEF DecodeRtpFrames
  <2>9. /\ Len(played) - Len(sent) \in {0, 1}
        /\ \A i \in 1 .. Len(sent) : Heard("rtp_g722", played[i], sent, i)
    <3>. DEFINE joined == FlattenSeq([k \in 1 .. Len(frames) |-> DecodeG722(frames[k].payload)])
    <3>1. sent \in Seq(Samples16)
      BY <1>2
    <3>2. /\ Len(joined) - Len(sent) \in {0, 1}
          /\ \A i \in 1 .. Len(sent) : Heard("rtp_g722", joined[i], sent, i)
      BY ONLY <1>3, <2>3, <3>1, G722Played
    <3>3. played = joined
      BY <2>8
    <3>. HIDE DEF joined
    <3>. QED  BY ONLY <3>2, <3>3
  <2>10. \A i \in 1 .. Len(sent) : Heard(codec.format, played[i], sent, i)
    BY ONLY <1>6, <2>9
  <2>. QED  BY ONLY <2>9, <2>10 DEF HeardAs, played, sent
<1>7. CASE codec.format = "rtp_pcmu"
  <2>. DEFINE back == PcmuHeard(sent)
  <2>1. frames = Cut(PcmuBytes(sent), size, "Pcmu")
    BY <1>7 DEF EncodeForTransport, FrameSize, PcmFormats, BackendFormats, PcmuBytes,
                frames, sent, size
  <2>2. played = PcmuDecoded(frames)
    BY <1>4, <1>7 DEF DecodeFromEncoded, PcmFormats, BackendFormats, PcmuDecoded
  <2>3. played = back
    BY <1>2, <1>3, <2>1, <2>2, MulawDecoded
  <2>4. Len(back) = Len(sent)
    BY <1>2 DEF PcmuHeard
  <2>5. ASSUME NEW i \in 1 .. Len(sent)
        PROVE  Heard(codec.format, back[i], sent, i)
    <3>1. sent[i] \in Samples16
      BY <1>2
    <3>2. back[i] = UlawToLinear(LinearToMulaw(sent[i]))
      BY DEF PcmuHeard
    <3>. HIDE DEF back
    <3>. QED  BY ONLY <1>7, <3>1, <3>2, SampleHeard
  <2>. HIDE DEF back
  <2>6. Len(played) - Len(sent) \in {0, 1}
    BY ONLY <1>2, <2>3, <2>4
  <2>7. \A i \in 1 .. Len(sent) : Heard(codec.format, played[i], sent, i)
    BY ONLY <2>3, <2>5
  <2>. QED  BY ONLY <2>6, <2>7 DEF HeardAs, played, sent
<1>8. CASE codec.format = "rtp_pcma"
  <2>. DEFINE back == PcmaHeard(sent)
  <2>1. frames = Cut(PcmaBytes(sent), size, "Pcma")
    BY <1>8 DEF EncodeForTransport, FrameSize, PcmFormats, BackendFormats, PcmaBytes,
                frames, sent, size
  <2>2. played = PcmaDecoded(frames)
    BY <1>4, <1>8 DEF DecodeFromEncoded, PcmFormats, BackendFormats, PcmaDecoded
  <2>3. played = back
    BY <1>2, <1>3, <2>1, <2>2, AlawDecoded
  <2>4. Len(back) = Len(sent)
    BY <1>2 DEF PcmaHeard
  <2>5. ASSUME NEW i \in 1 .. Len(sent)
        PROVE  Heard(codec.format, back[i], sent, i)
    <3>1. sent[i] \in Samples16
      BY <1>2
    <3>2. back[i] = PageAlawToLinear(LinearToAlaw(sent[i]))
      BY DEF PcmaHeard
    <3>. HIDE DEF back
    <3>. QED  BY ONLY <1>8, <3>1, <3>2, SampleHeard
  <2>. HIDE DEF back
  <2>6. Len(played) - Len(sent) \in {0, 1}
    BY ONLY <1>2, <2>3, <2>4
  <2>7. \A i \in 1 .. Len(sent) : Heard(codec.format, played[i], sent, i)
    BY ONLY <2>3, <2>5
  <2>. QED  BY ONLY <2>6, <2>7 DEF HeardAs, played, sent
<1>. QED  BY ONLY <1>1, codec.format # "rtp_g729", <1>5, <1>6, <1>7, <1>8
          DEF Formats, PcmFormats, RtpFormats
-----------------------------------------------------------------------------
(***************************************************************************)
(* The previews: what the URLs of the panel play.                          *)
(***************************************************************************)
\* A URL that plays a recording plays what was recorded.
Faithful(url) ==
    url.recorded # << >> /\ url.codec.format # "rtp_g729" =>
        HeardAs(url.codec, url.samples, Resampled(url.recorded, url.codec.rate))

\* It does, and what is yet to be encoded, on the screen, in the requests that are
\* waited for and in a comparison, are samples and settings as they should be.
Sound(p) ==
    /\ PageFormed(p)
    /\ \A k \in 1 .. Len(p.urls) : Faithful(p.urls[k])
    /\ p.pcm \in Seq(Samples16) /\ p.codec \in CodecSettings
    /\ \A request \in p.requests :
           request.pcm \in Seq(Samples16) /\ request.codec \in CodecSettings
    /\ p.compared.pcm \in Seq(Samples16)

LEMMA UrlIsFaithful ==
  ASSUME NEW pcm \in Seq(Samples16), NEW codec \in CodecSettings, NEW take, NEW shown
  PROVE  Faithful(Url(pcm, take, codec, shown))
<1>. DEFINE url == Url(pcm, take, codec, shown)
<1>1. url.recorded = pcm /\ url.codec = codec /\ url.samples = Played(pcm, codec)
  BY DEF Url, Played
<1>. HIDE DEF url
<1>2. codec.format # "rtp_g729" => HeardAs(codec, Played(pcm, codec), Resampled(pcm, codec.rate))
  BY PreviewIsHeard
<1>3. Faithful(url)
  BY ONLY <1>1, <1>2 DEF Faithful
<1>. QED  BY <1>3 DEF url

\* What a page plays and has yet to encode is as it was.
LEMMA SoundStays ==
  ASSUME NEW p, Sound(p), NEW q, PageFormed(q), Len(q.urls) = Len(p.urls),
         \A k \in 1 .. Len(p.urls) :
             \A f \in UrlFields \ {"live"} : q.urls[k][f] = p.urls[k][f],
         q.pcm \in Seq(Samples16), q.codec \in CodecSettings, q.requests \subseteq p.requests,
         q.compared.pcm \in Seq(Samples16)
  PROVE  Sound(q)
<1>1. ASSUME NEW k \in 1 .. Len(q.urls)
      PROVE  Faithful(q.urls[k])
  <2>. DEFINE u == p.urls[k]
              v == q.urls[k]
  <2>1. v.recorded = u.recorded /\ v.codec = u.codec /\ v.samples = u.samples
    BY DEF UrlFields
  <2>2. Faithful(u)
    BY DEF Sound
  <2>. HIDE DEF u, v
  <2>3. Faithful(v)
    BY ONLY <2>1, <2>2 DEF Faithful
  <2>. QED  BY <2>3 DEF v
<1>2. \A request \in q.requests :
          request.pcm \in Seq(Samples16) /\ request.codec \in CodecSettings
  BY DEF Sound
<1>. QED  BY <1>1, <1>2 DEF Sound

\* One more URL that is faithful does no harm.
LEMMA SoundWithOne ==
  ASSUME NEW p, Sound(p), NEW url, DOMAIN url = UrlFields, Faithful(url),
         NEW q, DOMAIN q = PageFields, q.urls = Append(p.urls, url),
         q.pcm = p.pcm, q.codec = p.codec, q.requests \subseteq p.requests,
         q.compared = p.compared
  PROVE  Sound(q)
<1>1. /\ PageFormed(q)
      /\ Len(p.urls) \in Nat /\ Len(q.urls) = Len(p.urls) + 1
      /\ q.urls[Len(q.urls)] = url
      /\ \A k \in 1 .. Len(p.urls) : q.urls[k] = p.urls[k]
  BY AppendedUrl DEF Sound
<1>2. ASSUME NEW k \in 1 .. Len(q.urls)
      PROVE  Faithful(q.urls[k])
  <2>1. k \in 1 .. Len(p.urls) \/ k = Len(q.urls)
    BY <1>1
  <2>2. CASE k \in 1 .. Len(p.urls)
    <3>1. q.urls[k] = p.urls[k] /\ Faithful(p.urls[k])
      BY <1>1, <2>2 DEF Sound
    <3>. QED  BY <3>1
  <2>3. CASE k = Len(q.urls)
    <3>1. q.urls[k] = url
      BY <1>1, <2>3
    <3>. QED  BY <3>1
  <2>. QED  BY <2>1, <2>2, <2>3
<1>3. /\ q.pcm \in Seq(Samples16) /\ q.codec \in CodecSettings
      /\ \A request \in q.requests :
             request.pcm \in Seq(Samples16) /\ request.codec \in CodecSettings
      /\ q.compared.pcm \in Seq(Samples16)
  BY DEF Sound
<1>. QED  BY <1>1, <1>2, <1>3 DEF Sound

LEMMA SoundShown ==
  ASSUME NEW p, Sound(p), NEW url
  PROVE  Sound(ShowCurrent(p, url))
<1>. DEFINE r == ShowCurrent(p, url)
<1>1. PageFormed(r) /\ SameBut(r, p, {"current"})
  BY ShownCurrent DEF Sound
<1>. HIDE DEF r
<1>2. /\ r.pcm = p.pcm /\ r.codec = p.codec /\ r.requests = p.requests /\ r.compared = p.compared
      /\ Len(r.urls) = Len(p.urls)
      /\ \A k \in 1 .. Len(p.urls) :
             \A f \in UrlFields \ {"live"} : r.urls[k][f] = p.urls[k][f]
  BY <1>1 DEF SameBut, PageFields
<1>3. r.pcm \in Seq(Samples16) /\ r.codec \in CodecSettings /\ r.compared.pcm \in Seq(Samples16)
  BY <1>2 DEF Sound
<1>4. Sound(r)
  BY <1>1, <1>2, <1>3, SoundStays
<1>. QED  BY <1>4 DEF r

LEMMA SoundPreview ==
  ASSUME NEW p, Sound(p), NEW request,
         request.pcm \in Seq(Samples16), request.codec \in CodecSettings
  PROVE  Sound(Preview(p, request))
<1>. DEFINE waited == request.age = p.age
            url    == Url(request.pcm, request.take, request.codec, waited)
            made   == [p EXCEPT !.urls = Append(@, url), !.requests = @ \ {request}]
<1>1. DOMAIN url = UrlFields
  BY DEF Url, UrlFields
<1>2. Preview(p, request) = IF waited THEN ShowCurrent(made, Len(made.urls)) ELSE made
  BY DEF Preview
<1>3. Faithful(url)
  <2>. DEFINE yes == waited
  <2>. HIDE DEF yes
  <2>1. Faithful(Url(request.pcm, request.take, request.codec, yes))
    BY UrlIsFaithful
  <2>. QED  BY <2>1 DEF yes
<1>. HIDE DEF url
<1>4. /\ DOMAIN made = PageFields /\ made.urls = Append(p.urls, url)
      /\ made.pcm = p.pcm /\ made.codec = p.codec /\ made.compared = p.compared
      /\ made.requests \subseteq p.requests
  BY DEF Sound, PageFormed, PageFields
<1>. HIDE DEF made
<1>5. Sound(made)
  BY <1>1, <1>3, <1>4, SoundWithOne
<1>. QED  BY <1>2, <1>5, SoundShown

LEMMA SoundEffect ==
  ASSUME NEW p, Sound(p)
  PROVE  Sound(PreviewEffect(p))
<1>. DEFINE request == [age |-> p.age + 1, take |-> p.take, pcm |-> p.pcm, codec |-> p.codec]
            begun   == [p EXCEPT !.age = @ + 1, !.error = FALSE]
            empty   == [p EXCEPT !.age = @ + 1]
            asked   == [begun EXCEPT !.requests = @ \cup {request}]
<1>1. PreviewEffect(p) = IF p.pcm = << >> THEN ShowCurrent(empty, 0)
                         ELSE IF p.codec.format \in BackendFormats THEN asked
                         ELSE Preview(begun, request)
  BY DEF PreviewEffect
<1>2. request.pcm \in Seq(Samples16) /\ request.codec \in CodecSettings
  BY DEF Sound
<1>3. DOMAIN p = PageFields
  BY DEF Sound, PageFormed
<1>. HIDE DEF request
<1>4. /\ DOMAIN begun = PageFields /\ DOMAIN empty = PageFields /\ DOMAIN asked = PageFields
      /\ \A f \in {"pcm", "codec", "urls", "compared"} :
             begun[f] = p[f] /\ empty[f] = p[f] /\ asked[f] = p[f]
      /\ begun.requests = p.requests /\ empty.requests = p.requests
      /\ asked.requests = p.requests \cup {request}
  BY <1>3 DEF PageFields
<1>. HIDE DEF begun, empty, asked
<1>5. Sound(begun) /\ Sound(empty)
  BY <1>4 DEF Sound, PageFormed
<1>6. Sound(asked)
  BY <1>2, <1>4 DEF Sound, PageFormed
<1>7. Sound(ShowCurrent(empty, 0))
  BY <1>5, SoundShown
<1>8. Sound(Preview(begun, request))
  BY <1>2, <1>5, SoundPreview
<1>. QED  BY <1>1, <1>6, <1>7, <1>8

LEMMA SoundCleaned ==
  ASSUME NEW p, Sound(p)
  PROVE  /\ Sound(CleanUp(p)) /\ Len(CleanUp(p).urls) = Len(p.urls)
         /\ \A f \in PageFields \ {"urls"} : CleanUp(p)[f] = p[f]
<1>. DEFINE c == CleanUp(p)
<1>1. /\ PageFormed(c)
      /\ \A f \in PageFields \ {"urls"} : c[f] = p[f]
      /\ Len(c.urls) = Len(p.urls)
      /\ \A k \in 1 .. Len(p.urls) :
             /\ c.urls[k].live => p.urls[k].live /\ k \notin Shown(p)
             /\ \A f \in UrlFields \ {"live"} : c.urls[k][f] = p.urls[k][f]
  BY RevokedPage DEF CleanUp, Sound
<1>. HIDE DEF c
<1>2. /\ c.pcm = p.pcm /\ c.codec = p.codec /\ c.requests = p.requests /\ c.compared = p.compared
  BY <1>1 DEF PageFields
<1>3. c.pcm \in Seq(Samples16) /\ c.codec \in CodecSettings /\ c.compared.pcm \in Seq(Samples16)
  BY <1>2 DEF Sound
<1>4. Sound(c)
  BY <1>1, <1>2, <1>3, SoundStays
<1>. QED  BY <1>1, <1>4 DEF c

LEMMA SoundRecorded ==
  ASSUME NEW p, Sound(p), NEW pcm \in Seq(Samples16)
  PROVE  Sound(Recorded(p, pcm))
<1>. DEFINE taken == [p EXCEPT !.take = @ + 1, !.pcm = pcm]
            c     == CleanUp(taken)
            url   == OriginalUrl(pcm, p.take + 1)
            new   == [c EXCEPT !.urls = Append(@, url), !.original = Len(p.urls) + 1]
            none  == [c EXCEPT !.original = 0]
<1>1. Recorded(p, pcm) = IF pcm # << >> THEN new ELSE IF p.original # 0 THEN none ELSE taken
  BY DEF Recorded
<1>2. /\ DOMAIN taken = PageFields /\ taken.pcm = pcm
      /\ \A f \in PageFields \ {"take", "pcm"} : taken[f] = p[f]
  BY DEF Sound, PageFormed, PageFields
<1>. HIDE DEF taken
<1>3. Sound(taken)
  <2>1. /\ taken.urls = p.urls /\ taken.codec = p.codec /\ taken.requests = p.requests
        /\ taken.compared = p.compared
    BY <1>2 DEF PageFields
  <2>. QED  BY <1>2, <2>1 DEF Sound, PageFormed
<1>4. Sound(c)
  BY <1>3, SoundCleaned
<1>. HIDE DEF c
<1>5. DOMAIN c = PageFields
  BY <1>4 DEF Sound, PageFormed
<1>6. DOMAIN url = UrlFields /\ Faithful(url)
  BY DEF OriginalUrl, UrlFields, Faithful
<1>. HIDE DEF url
<1>7. /\ DOMAIN new = PageFields /\ new.urls = Append(c.urls, url)
      /\ \A f \in {"pcm", "codec", "requests", "compared"} : new[f] = c[f]
  BY <1>5 DEF PageFields
<1>8. /\ DOMAIN none = PageFields
      /\ \A f \in {"urls", "pcm", "codec", "requests", "compared"} : none[f] = c[f]
  BY <1>5 DEF PageFields
<1>. HIDE DEF new, none
<1>9. Sound(new)
  BY <1>4, <1>6, <1>7, SoundWithOne
<1>10. Sound(none)
  BY <1>4, <1>8 DEF Sound, PageFormed
<1>. QED  BY <1>1, <1>3, <1>9, <1>10

\* The URLs of a comparison, whether all of them are made or only the first few.
LEMMA SoundBuilt ==
  ASSUME NEW p, Sound(p), NEW n \in 0 .. Len(Presets), NEW shown
  PROVE  Sound(Built(p, n, shown))
<1>. DEFINE b      == Built(p, n, shown)
            one(i) == Url(p.compared.pcm, p.compared.take, Presets[i], shown)
<1>a. n \in Nat
  BY PresetsAssumption
<1>b. PageFormed(p)
  BY DEF Sound
<1>1. /\ DOMAIN b = PageFields
      /\ \A f \in PageFields \ {"urls", "generating", "compared"} : b[f] = p[f]
      /\ b.compared.pcm = << >>
      /\ \E T : b.urls \in Seq(T)
      /\ Len(p.urls) \in Nat /\ Len(b.urls) = Len(p.urls) + n
      /\ \A k \in 1 .. Len(p.urls) : b.urls[k] = p.urls[k]
      /\ \A k \in Len(p.urls) + 1 .. Len(b.urls) :
             k - Len(p.urls) \in 1 .. n /\ b.urls[k] = one(k - Len(p.urls))
  BY ONLY <1>a, <1>b, BuiltUrls
<1>2. PageFormed(b)
  BY <1>a, <1>b, BuiltUp
<1>3. ASSUME NEW i \in 1 .. n
      PROVE  Faithful(one(i))
  <2>1. Presets[i] \in CodecSettings
    BY PresetsAssumption
  <2>2. p.compared.pcm \in Seq(Samples16)
    BY DEF Sound
  <2>. QED  BY <2>1, <2>2, UrlIsFaithful
<1>. HIDE DEF b, one
<1>4. ASSUME NEW k \in 1 .. Len(b.urls)
      PROVE  Faithful(b.urls[k])
  <2>1. k \in 1 .. Len(p.urls) \/ k \in Len(p.urls) + 1 .. Len(b.urls)
    BY <1>a, <1>b, <1>1
  <2>2. CASE k \in 1 .. Len(p.urls)
    <3>1. b.urls[k] = p.urls[k] /\ Faithful(p.urls[k])
      BY <1>1, <2>2 DEF Sound
    <3>. QED  BY <3>1
  <2>3. CASE k \in Len(p.urls) + 1 .. Len(b.urls)
    <3>1. k - Len(p.urls) \in 1 .. n /\ b.urls[k] = one(k - Len(p.urls))
      BY <1>1, <2>3
    <3>2. Faithful(one(k - Len(p.urls)))
      BY <1>3, <3>1
    <3>. QED  BY <3>1, <3>2
  <2>. QED  BY <2>1, <2>2, <2>3
<1>5. /\ b.pcm = p.pcm /\ b.codec = p.codec /\ b.requests = p.requests
      /\ b.compared.pcm \in Seq(Samples16)
  BY <1>1 DEF PageFields
<1>6. Sound(b)
  BY <1>2, <1>4, <1>5 DEF Sound
<1>. QED  BY <1>6 DEF b
-----------------------------------------------------------------------------
LEMMA SoundAtFirst == Sound(NoPage)
<1>1. /\ NoPage.urls = << >> /\ NoPage.pcm = << >> /\ NoPage.codec = DefaultCodec
      /\ NoPage.requests = {} /\ NoPage.compared.pcm = << >>
  BY DEF NoPage
<1>2. PageFormed(NoPage)
  BY InitHasIt DEF PageInv
<1>3. << >> \in Seq(Samples16) /\ Len(<< >>) = 0
  OBVIOUS
<1>4. DefaultCodec \in CodecSettings
  BY CodecsAreSettings
<1>. QED  BY <1>1, <1>2, <1>3, <1>4 DEF Sound

LEMMA RecordIsSound ==
  ASSUME Sound(page), NEW pcm \in Recordings, Record(pcm)
  PROVE  Sound(page')
<1>1. pcm \in Seq(Samples16)
  BY PageAssumption
<1>2. page' = PreviewEffect(Recorded(page, pcm))
  BY DEF Record
<1>. QED  BY <1>1, <1>2, SoundRecorded, SoundEffect

LEMMA ChangeConfigIsSound ==
  ASSUME Sound(page), NEW codec \in Codecs, ChangeConfig(codec)
  PROVE  Sound(page')
<1>. DEFINE q == [page EXCEPT !.codec = codec, !.changes = @ + 1]
<1>1. page' = PreviewEffect(q)
  BY DEF ChangeConfig
<1>2. /\ DOMAIN q = PageFields /\ q.codec = codec
      /\ \A f \in {"pcm", "urls", "requests", "compared"} : q[f] = page[f]
  BY DEF Sound, PageFormed, PageFields
<1>. HIDE DEF q
<1>3. codec \in CodecSettings
  BY CodecsAreSettings
<1>4. Sound(q)
  BY <1>2, <1>3 DEF Sound, PageFormed
<1>. QED  BY <1>1, <1>4, SoundEffect

LEMMA PreviewFailsIsSound ==
  ASSUME Sound(page), NEW request, PreviewFails(request)
  PROVE  Sound(page')
<1>. DEFINE over == [page EXCEPT !.requests = @ \ {request}]
            told == [over EXCEPT !.error = TRUE]
<1>1. page' = IF request.age = page.age THEN ShowCurrent(told, 0) ELSE over
  BY DEF PreviewFails
<1>2. /\ DOMAIN over = PageFields /\ DOMAIN told = PageFields
      /\ \A f \in {"pcm", "codec", "urls", "compared"} : over[f] = page[f] /\ told[f] = page[f]
      /\ over.requests \subseteq page.requests /\ told.requests \subseteq page.requests
  BY DEF Sound, PageFormed, PageFields
<1>. HIDE DEF over, told
<1>3. Sound(over) /\ Sound(told)
  BY <1>2 DEF Sound, PageFormed
<1>. QED  BY <1>1, <1>3, SoundShown

LEMMA GenerateVariantsIsSound ==
  ASSUME Sound(page), GenerateVariants
  PROVE  Sound(page')
<1>. DEFINE q == [page EXCEPT !.generating = TRUE, !.error = FALSE, !.comparisons = @ + 1,
                              !.compared = [take |-> page.take, pcm |-> page.pcm]]
<1>1. page' = q
  BY DEF GenerateVariants
<1>2. /\ DOMAIN q = PageFields /\ q.compared.pcm = page.pcm
      /\ \A f \in {"pcm", "codec", "urls", "requests"} : q[f] = page[f]
  BY DEF Sound, PageFormed, PageFields
<1>. HIDE DEF q
<1>3. Sound(q)
  BY <1>2 DEF Sound, PageFormed
<1>. QED  BY <1>1, <1>3

LEMMA VariantsArriveIsSound ==
  ASSUME Sound(page), VariantsArrive
  PROVE  Sound(page')
<1>. DEFINE n == Len(Presets)
            b == Built(page, n, TRUE)
            c == CleanUp(b)
            variants == [i \in 1 .. n |-> Len(page.urls) + i]
            q == [c EXCEPT !.variants = variants]
<1>1. page' = q
  BY DEF VariantsArrive
<1>2. n \in 0 .. Len(Presets)
  BY PresetsAssumption
<1>. HIDE DEF n, variants
<1>3. Sound(b)
  <2>. DEFINE yes == TRUE
  <2>. HIDE DEF yes
  <2>1. Sound(Built(page, n, yes))
    BY <1>2, SoundBuilt
  <2>. QED  BY <2>1 DEF yes
<1>. HIDE DEF b
<1>4. Sound(c)
  BY <1>3, SoundCleaned
<1>. HIDE DEF c
<1>5. /\ DOMAIN q = PageFields
      /\ \A f \in {"pcm", "codec", "urls", "requests", "compared"} : q[f] = c[f]
  BY <1>4 DEF Sound, PageFormed, PageFields
<1>. HIDE DEF q
<1>6. Sound(q)
  BY <1>4, <1>5 DEF Sound, PageFormed
<1>. QED  BY <1>1, <1>6

LEMMA VariantsFailIsSound ==
  ASSUME Sound(page), VariantsFail
  PROVE  Sound(page')
<1>1. PICK n \in 1 .. Len(Presets) : page' = [Built(page, n - 1, FALSE) EXCEPT !.error = TRUE]
  BY DEF VariantsFail
<1>. DEFINE m == n - 1
            b == Built(page, m, FALSE)
            q == [b EXCEPT !.error = TRUE]
<1>2. page' = q
  BY <1>1
<1>3. m \in 0 .. Len(Presets)
  BY PresetsAssumption
<1>. HIDE DEF m
<1>4. Sound(b)
  <2>. DEFINE no == FALSE
  <2>. HIDE DEF no
  <2>1. Sound(Built(page, m, no))
    BY <1>3, SoundBuilt
  <2>. QED  BY <2>1 DEF no
<1>. HIDE DEF b
<1>5. /\ DOMAIN q = PageFields
      /\ \A f \in {"pcm", "codec", "urls", "requests", "compared"} : q[f] = b[f]
  BY <1>4 DEF Sound, PageFormed, PageFields
<1>. HIDE DEF q
<1>6. Sound(q)
  BY <1>4, <1>5 DEF Sound, PageFormed
<1>. QED  BY <1>2, <1>6

PanelSound == Sound(page)

LEMMA PanelIsSound == Spec => []PanelSound
<1>1. Init => PanelSound
  BY SoundAtFirst DEF Init, PanelSound
<1>2. ASSUME PanelSound, [Next]_<<serviceVars, pageVars>>
      PROVE  PanelSound'
  <2>. USE DEF PanelSound
  <2>1. CASE \E pcm \in Recordings : Record(pcm)
    BY <1>2, <2>1, RecordIsSound
  <2>2. CASE \E codec \in Codecs : ChangeConfig(codec)
    BY <1>2, <2>2, ChangeConfigIsSound
  <2>3. CASE \E request \in page.requests : PreviewArrives(request)
    BY <1>2, <2>3, SoundPreview DEF PreviewArrives, Sound
  <2>4. CASE \E request \in page.requests : PreviewFails(request)
    BY <1>2, <2>4, PreviewFailsIsSound
  <2>5. CASE GenerateVariants
    BY <1>2, <2>5, GenerateVariantsIsSound
  <2>6. CASE VariantsArrive
    BY <1>2, <2>6, VariantsArriveIsSound
  <2>7. CASE VariantsFail
    BY <1>2, <2>7, VariantsFailIsSound
  <2>8. CASE UNCHANGED page
    BY <1>2, <2>8
  <2>. QED  BY <1>2, <2>1, <2>2, <2>3, <2>4, <2>5, <2>6, <2>7, <2>8
            DEF Next, PageNext, pageVars, AnalyzeWebSocket, SendFrame, SkipFrame, CloseAnalysis
<1>. QED  BY <1>1, <1>2, PTL DEF Spec

\* With any recordings, settings and comparisons, and whatever becomes of the
\* requests: what a URL plays is made of what was recorded for it, in its order and
\* of its length but for one sample that an odd recording may gain: PCM as it is,
\* G.711 but for what it rounds off and what the page's A-law decoder gets wrong,
\* and G.722 each sample from the byte that was written when the encoder had read
\* it (encodeForTransport and decodeFromEncoded, audio.ts:90 and audio.ts:175).
THEOREM PreviewsAreFaithful == Spec => []PreviewIsWhatWasRecorded
<1>1. PanelSound => PreviewIsWhatWasRecorded
  <2>. SUFFICES ASSUME PanelSound, NEW k \in DOMAIN page.urls,
                       page.urls[k].recorded # << >>, page.urls[k].codec.format # "rtp_g729"
                PROVE  LET url  == page.urls[k]
                           sent == Resampled(url.recorded, url.codec.rate)
                       IN  /\ Len(url.samples) - Len(sent) \in {0, 1}
                           /\ \A i \in 1 .. Len(sent) :
                                  Heard(url.codec.format, url.samples[i], sent, i)
    BY DEF PreviewIsWhatWasRecorded
  <2>1. k \in 1 .. Len(page.urls)
    BY DEF PanelSound, Sound, PageFormed
  <2>2. Faithful(page.urls[k])
    BY <2>1 DEF PanelSound, Sound
  <2>. QED  BY <2>2 DEF Faithful, HeardAs
<1>. QED  BY <1>1, PanelIsSound, PTL
-----------------------------------------------------------------------------
(***************************************************************************)
(* The stream: what its depacketizer counts of the packets delivered.      *)
(***************************************************************************)
\* A packet that is accepted leaves every field in its range.
LEMMA AcceptedInRange ==
  ASSUME NEW r \in Depacketizers, NEW packet,
         packet.sequence \in Sequences16, packet.timestamp \in Timestamps32
  PROVE  Accept(r, packet) \in Depacketizers
<1>. DEFINE gap   == Gap(r, packet.sequence)
            delta == SignedDelta(packet.timestamp, r.last_timestamp)
<1>1. /\ r.last_sequence \in Int /\ r.last_timestamp \in Int /\ r.jitter_sample \in Int
      /\ r.packets_received \in Int /\ r.packets_lost \in Int
      /\ packet.sequence \in Int /\ packet.timestamp \in Int
  BY RtpAssumption DEF Depacketizers, Sequences16, Counters32, Timestamps32
<1>2. gap \in Int
  <2>1. PICK d \in Int : d = packet.sequence - (r.last_sequence + 1)
    BY <1>1
  <2>2. d % SequenceMod \in Int
    BY RtpAssumption, DivMod
  <2>. QED  BY <2>1, <2>2 DEF Gap
<1>3. delta \in Int
  <2>1. (packet.timestamp - r.last_timestamp) % TimestampMod \in Int
    BY <1>1, RtpAssumption, DivMod
  <2>. QED  BY <2>1, RtpAssumption DEF SignedDelta
<1>. HIDE DEF gap, delta
<1>4. \A x \in Int : x % CounterMod \in Counters32
  BY RtpAssumption, DivMod DEF Counters32
<1>5. /\ (r.packets_received + 1) % CounterMod \in Counters32
      /\ (r.packets_lost + gap) % CounterMod \in Counters32
  BY <1>1, <1>2, <1>4
<1>6. (IF r.has_timestamp THEN Abs(delta) ELSE r.jitter_sample) \in Int
  BY <1>1, <1>3 DEF Abs
<1>. QED  BY <1>5, <1>6 DEF Accept, Depacketizers, gap, delta

LEMMA NewInRange == NewDepacketizer \in Depacketizers
  BY RtpAssumption
     DEF NewDepacketizer, Depacketizers, Sequences16, Counters32, Timestamps32

\* No round of sequence numbers is left out between the first and the last.
RoundsAreHeard(D, first, last) ==
    \A k \in first .. last - SequenceMod + 1 : (k .. k + SequenceMod - 1) \cap D # {}

\* The one delivered before the last, and the distance that the jitter absorbed.
Absorbed(r, D, last, size) ==
    D # {last} =>
        \E prev \in D \ {last} :
            /\ \A j \in D \ {last} : j <= prev
            /\ 2 * ((last - prev) * size) < TimestampMod => r.jitter_sample = (last - prev) * size

\* What a depacketizer has counted of the packets with these numbers, in order.
Counts(r, D, size) ==
    /\ r \in Depacketizers /\ IsFiniteSet(D)
    /\ \E first, last \in D :
           /\ \A k \in D : first <= k /\ k <= last
           /\ r.has_sequence = TRUE /\ r.last_sequence = last % SequenceMod
           /\ r.has_timestamp = TRUE /\ r.last_timestamp = ((last - 1) * size) % TimestampMod
           /\ r.packets_received = Cardinality(D) % CounterMod
           /\ RoundsAreHeard(D, first, last) =>
                  r.packets_lost = Cardinality((first .. last) \ D) % CounterMod
           /\ Absorbed(r, D, last, size)

\* The first packet.
LEMMA FirstCounts ==
  ASSUME NEW n \in Nat \ {0}, NEW size \in Nat, NEW packet,
         packet.sequence = n % SequenceMod, packet.sequence \in Sequences16,
         packet.timestamp = ((n - 1) * size) % TimestampMod, packet.timestamp \in Timestamps32
  PROVE  Counts(Accept(NewDepacketizer, packet), {n}, size)
<1>. DEFINE r == Accept(NewDepacketizer, packet)
            stamp == ((n - 1) * size) % TimestampMod
<1>1. r \in Depacketizers
  BY NewInRange, AcceptedInRange
<1>2. IsFiniteSet({n}) /\ Cardinality({n}) = 1
  BY FS_Singleton
<1>3. (n .. n) \ {n} = {} /\ Cardinality({}) = 0
  BY FS_EmptySet
<1>4. packet.timestamp = stamp
  OBVIOUS
<1>. HIDE DEF stamp
<1>5. /\ r.has_sequence = TRUE /\ r.last_sequence = n % SequenceMod
      /\ r.has_timestamp = TRUE /\ r.last_timestamp = stamp
      /\ r.packets_received = (0 + 1) % CounterMod /\ r.packets_lost = (0 + 0) % CounterMod
  BY <1>4 DEF Accept, NewDepacketizer, Gap
<1>. HIDE DEF r
<1>6. /\ r.packets_received = Cardinality({n}) % CounterMod
      /\ r.packets_lost = Cardinality((n .. n) \ {n}) % CounterMod
  BY <1>2, <1>3, <1>5
<1>7. Absorbed(r, {n}, n, size)
  BY DEF Absorbed
<1>8. n \in {n} /\ \A k \in {n} : n <= k /\ k <= n
  OBVIOUS
<1>. QED  BY <1>1, <1>2, <1>5, <1>6, <1>7, <1>8 DEF Counts, r, stamp

\* The gap that a packet makes is what was left out before it.
LEMMA GapIsLeftOut ==
  ASSUME NEW D, IsFiniteSet(D), NEW first \in Nat, NEW last \in D, NEW n \in Nat,
         last \in Nat, first <= last, last < n, \A k \in D : k \in Nat /\ k <= last,
         RoundsAreHeard(D \cup {n}, first, n)
  PROVE  /\ RoundsAreHeard(D, first, last)
         /\ ((n % SequenceMod) - ((last % SequenceMod) + 1)) % SequenceMod = n - last - 1
         /\ Cardinality((first .. n) \ (D \cup {n}))
                = Cardinality((first .. last) \ D) + (n - last - 1)
         /\ Cardinality((first .. last) \ D) \in Nat
<1>. DEFINE S == SequenceMod
<1>1. S \in Nat \ {0}
  BY RtpAssumption
<1>2. RoundsAreHeard(D, first, last)
  <2>1. SUFFICES ASSUME NEW k \in first .. last - S + 1
                 PROVE  (k .. k + S - 1) \cap D # {}
    BY DEF RoundsAreHeard
  <2>2. k \in first .. n - S + 1
    BY <1>1, <2>1
  <2>3. PICK j \in k .. k + S - 1 : j \in D \cup {n}
    BY <2>2 DEF RoundsAreHeard
  <2>4. j # n
    BY <1>1, <2>1, <2>3
  <2>. QED  BY <2>3, <2>4
<1>3. n - last - 1 \in 0 .. S - 1
  <2>1. ASSUME n - last - 1 >= S PROVE FALSE
    <3>1. last + 1 \in first .. n - S + 1
      BY <1>1, <2>1
    <3>2. PICK j \in last + 1 .. (last + 1) + S - 1 : j \in D \cup {n}
      BY <3>1 DEF RoundsAreHeard
    <3>3. j > last /\ j < n
      BY <1>1, <2>1, <3>2
    <3>. QED  BY <3>2, <3>3
  <2>. QED  BY <1>1, <2>1
<1>4. ((n % S) - ((last % S) + 1)) % S = n - last - 1
  <2>1. PICK h \in 0 .. S - 1 : h = n - last - 1
    BY <1>3
  <2>2. n = last + h + 1 /\ last \in Int
    BY <2>1
  <2>. HIDE DEF S
  <2>3. (((last + h + 1) % S) - ((last % S) + 1)) % S = h
    BY ONLY <1>1, <2>1, <2>2, GapOfHop
  <2>. QED  BY <2>1, <2>2, <2>3
<1>5. /\ Cardinality((first .. n) \ (D \cup {n}))
             = Cardinality((first .. last) \ D) + (n - last - 1)
      /\ Cardinality((first .. last) \ D) \in Nat
  <2>. DEFINE A == (first .. last) \ D
              B == last + 1 .. n - 1
  <2>1. (first .. n) \ (D \cup {n}) = A \cup B
    OBVIOUS
  <2>2. A \cap B = {}
    OBVIOUS
  <2>3. IsFiniteSet(A)
    <3>1. IsFiniteSet(first .. last)
      BY FS_Interval
    <3>2. A \in SUBSET (first .. last)
      OBVIOUS
    <3>. HIDE DEF A
    <3>. QED  BY <3>1, <3>2, FS_Subset
  <2>4. IsFiniteSet(B) /\ Cardinality(B) = n - last - 1
    <3>1. PICK a \in Int, b \in Int : a = last + 1 /\ b = n - 1
      OBVIOUS
    <3>2. IsFiniteSet(a .. b) /\ Cardinality(a .. b) = IF a > b THEN 0 ELSE b - a + 1
      BY FS_Interval
    <3>. QED  BY <3>1, <3>2
  <2>. HIDE DEF A, B
  <2>5. Cardinality(A \cup B) = Cardinality(A) + Cardinality(B) - Cardinality(A \cap B)
    BY <2>3, <2>4, FS_Union
  <2>6. Cardinality(A) \in Nat
    BY <2>3, FS_CardinalityType
  <2>. QED  BY <2>1, <2>2, <2>4, <2>5, <2>6, FS_EmptySet DEF A
<1>. QED  BY <1>2, <1>4, <1>5

\* The timestamps of two packets tell how far apart they are, if that is less
\* than half a round.
LEMMA DistanceOfStamps ==
  ASSUME NEW x \in Int, NEW y \in Int, y <= x, 2 * (x - y) < TimestampMod
  PROVE  Abs(SignedDelta(x % TimestampMod, y % TimestampMod)) = x - y
<1>. DEFINE T == TimestampMod
            u == x % T
            v == y % T
            d == x - y
<1>1. T \in Nat \ {0}
  BY RtpAssumption
<1>2. d \in 0 .. T - 1
  BY <1>1
<1>3. u \in Int /\ v \in Int /\ ((u - v) - d) % T = 0
  <2>. HIDE DEF T
  <2>1. x % T \in Int /\ y % T \in Int
    BY <1>1, DivMod
  <2>2. (((x % T) - (y % T)) - (x - y)) % T = 0
    BY ONLY <1>1, x \in Int, y \in Int, DifferenceOfReduced
  <2>. QED  BY <2>1, <2>2
<1>. HIDE DEF u, v, T
<1>4. (u - v) % T = d
  <2>. HIDE DEF d
  <2>1. u - v \in Int
    BY <1>3
  <2>. QED  BY <1>1, <1>2, <1>3, <2>1, ModUnique
<1>5. SignedDelta(u, v) = d
  BY <1>4 DEF SignedDelta, T
<1>. QED  BY <1>2, <1>5 DEF Abs, u, v, T

\* Every packet after the first.
LEMMA NextCounts ==
  ASSUME NEW D, NEW r, NEW size \in Nat, Counts(r, D, size), NEW n \in Nat \ {0},
         \A k \in D : k \in Nat /\ k < n, NEW packet,
         packet.sequence = n % SequenceMod, packet.sequence \in Sequences16,
         packet.timestamp = ((n - 1) * size) % TimestampMod, packet.timestamp \in Timestamps32
  PROVE  Counts(Accept(r, packet), D \cup {n}, size)
<1>. DEFINE q == Accept(r, packet)
            E == D \cup {n}
            c == Cardinality(D)
<1>1. PICK first \in D, last \in D :
          /\ \A k \in D : first <= k /\ k <= last
          /\ r.has_sequence = TRUE /\ r.last_sequence = last % SequenceMod
          /\ r.has_timestamp = TRUE /\ r.last_timestamp = ((last - 1) * size) % TimestampMod
          /\ r.packets_received = c % CounterMod
          /\ RoundsAreHeard(D, first, last) =>
                 r.packets_lost = Cardinality((first .. last) \ D) % CounterMod
          /\ Absorbed(r, D, last, size)
  BY DEF Counts
<1>2. /\ r \in Depacketizers /\ IsFiniteSet(D) /\ first \in Nat /\ last \in Nat
      /\ first <= last /\ last < n /\ n \notin D
  BY <1>1 DEF Counts
<1>3. q \in Depacketizers
  BY <1>2, AcceptedInRange
<1>4. IsFiniteSet(E) /\ Cardinality(E) = c + 1 /\ c \in Nat
  BY <1>2, FS_AddElement, FS_CardinalityType
<1>5. /\ q.has_sequence = TRUE /\ q.last_sequence = n % SequenceMod
      /\ q.has_timestamp = TRUE /\ q.last_timestamp = ((n - 1) * size) % TimestampMod
      /\ q.packets_received = (r.packets_received + 1) % CounterMod
      /\ q.packets_lost = (r.packets_lost + Gap(r, packet.sequence)) % CounterMod
      /\ q.jitter_sample = Abs(SignedDelta(packet.timestamp, r.last_timestamp))
  BY <1>1 DEF Accept
<1>. HIDE DEF q
<1>6. q.packets_received = Cardinality(E) % CounterMod
  <2>. HIDE DEF c
  <2>1. CounterMod \in Nat \ {0} /\ c \in Int /\ 1 \in Int
    BY <1>4, RtpAssumption
  <2>2. ((c % CounterMod) + 1) % CounterMod = (c + 1) % CounterMod
    BY ONLY <2>1, ModOfReduced
  <2>. QED  BY <1>1, <1>4, <1>5, <2>2
<1>7. ASSUME RoundsAreHeard(E, first, n)
      PROVE  q.packets_lost = Cardinality((first .. n) \ E) % CounterMod
  <2>. DEFINE gap == Gap(r, packet.sequence)
              m == Cardinality((first .. last) \ D)
              h == n - last - 1
  <2>1. /\ RoundsAreHeard(D, first, last)
        /\ ((n % SequenceMod) - ((last % SequenceMod) + 1)) % SequenceMod = h
        /\ Cardinality((first .. n) \ E) = m + h
        /\ m \in Nat
    BY <1>1, <1>2, <1>7, GapIsLeftOut
  <2>2. gap = h
    BY <1>1, <2>1 DEF Gap
  <2>3. r.packets_lost = m % CounterMod
    BY <1>1, <2>1
  <2>4. q.packets_lost = ((m % CounterMod) + h) % CounterMod
    BY <1>5, <2>2, <2>3
  <2>. HIDE DEF m
  <2>5. CounterMod \in Nat \ {0} /\ m \in Int /\ h \in Int
    BY <1>2, <2>1, RtpAssumption
  <2>. HIDE DEF h
  <2>6. ((m % CounterMod) + h) % CounterMod = (m + h) % CounterMod
    BY ONLY <2>5, ModOfReduced
  <2>. QED  BY <2>1, <2>4, <2>6
<1>8. Absorbed(q, E, n, size)
  <2>1. last \in E \ {n} /\ \A j \in E \ {n} : j <= last
    BY <1>1, <1>2
  <2>2. ASSUME 2 * ((n - last) * size) < TimestampMod
        PROVE  q.jitter_sample = (n - last) * size
    <3>. DEFINE x == (n - 1) * size
                y == (last - 1) * size
                d == (n - last) * size
    <3>1. x \in Int /\ y \in Int /\ d \in Nat /\ x - y = d
      BY <1>2
    <3>2. q.jitter_sample = Abs(SignedDelta(x % TimestampMod, y % TimestampMod))
      BY <1>1, <1>5
    <3>3. 2 * d < TimestampMod
      BY <2>2
    <3>. HIDE DEF x, y, d
    <3>4. y <= x /\ 2 * (x - y) < TimestampMod
      BY <3>1, <3>3
    <3>5. Abs(SignedDelta(x % TimestampMod, y % TimestampMod)) = x - y
      BY <3>1, <3>4, DistanceOfStamps
    <3>. QED  BY <3>1, <3>2, <3>5 DEF d
  <2>. QED  BY <2>1, <2>2 DEF Absorbed
<1>9. first \in E /\ n \in E /\ \A k \in E : first <= k /\ k <= n
  BY <1>1, <1>2
<1>. HIDE DEF E
<1>10. Counts(q, E, size)
  BY <1>3, <1>4, <1>5, <1>6, <1>7, <1>8, <1>9 DEF Counts
<1>. QED  BY <1>10 DEF q, E

StreamFields == {"of", "frames", "next", "delivered", "rtp"}

\* An analysis that is under way: its packets, those delivered among the ones
\* that have been looked at, and what the depacketizer made of them.
Underway(s) ==
    /\ DOMAIN s = StreamFields
    /\ s.of \in Codecs \cup {DefaultCodec} /\ s.of.format \in RtpFormats
    /\ Packed(s.frames, FrameSize(s.of), PacketType(s.of.format))
    /\ s.next \in Nat \ {0} /\ s.next <= Len(s.frames) + 1
    /\ \A k \in s.delivered : k \in Nat \ {0} /\ k < s.next
    /\ IF s.of.format = "rtp_g729" \/ s.delivered = {} THEN s.rtp = NewDepacketizer
       ELSE Counts(s.rtp, s.delivered, FrameSize(s.of))

StreamInv == stream = NoStream \/ Underway(stream)

LEMMA NothingToSend ==
  ASSUME stream = NoStream
  PROVE  ~ (stream.next <= Len(stream.frames))
<1>1. stream.next = 1 /\ stream.frames = << >>
  BY DEF NoStream
<1>2. Len(<< >>) = 0
  OBVIOUS
<1>. QED  BY <1>1, <1>2

LEMMA AnalyzeKeepsStream ==
  ASSUME TypedPage(page), AnalyzeWebSocket
  PROVE  Underway(stream')
<1>. DEFINE frames == EncodeForTransport(page.pcm, page.codec)
            s == [NoStream EXCEPT !.of = page.codec, !.frames = frames]
<1>1. stream' = s /\ page.codec.format \in RtpFormats
  BY DEF AnalyzeWebSocket
<1>2. Packed(frames, FrameSize(page.codec), PacketType(page.codec.format))
  BY <1>1, EncodedIsPacked DEF TypedPage
<1>. HIDE DEF frames
<1>3. /\ DOMAIN s = StreamFields /\ s.of = page.codec /\ s.frames = frames /\ s.next = 1
      /\ s.delivered = {} /\ s.rtp = NewDepacketizer
  BY DEF NoStream, StreamFields
<1>. HIDE DEF s
<1>4. Len(frames) \in Nat
  BY <1>2 DEF Packed
<1>. QED  BY <1>1, <1>2, <1>3, <1>4 DEF Underway, TypedPage

LEMMA SendKeepsStream ==
  ASSUME Underway(stream), SendFrame
  PROVE  Underway(stream')
<1>. DEFINE n == stream.next
            packet == stream.frames[n]
            rtp == AfterPacket(stream.rtp, packet, ExpectedPayload(stream.of.format))
            size == FrameSize(stream.of)
            s == stream'
<1>1. /\ n \in Nat \ {0} /\ n <= Len(stream.frames) /\ Len(stream.frames) \in Nat
      /\ size \in Nat \ {0}
  BY CodecsAreSettings, SizeOfFrame DEF SendFrame, Underway, Packed
<1>2. /\ DOMAIN s = StreamFields /\ s.of = stream.of /\ s.frames = stream.frames
      /\ s.next = n + 1 /\ s.delivered = stream.delivered \cup {n} /\ s.rtp = rtp
  <2>1. s = [stream EXCEPT !.next = n + 1, !.delivered = stream.delivered \cup {n}, !.rtp = rtp]
    BY DEF SendFrame
  <2>2. DOMAIN stream = StreamFields
    BY DEF Underway
  <2>. HIDE DEF n, rtp, s
  <2>. QED  BY <2>1, <2>2 DEF StreamFields
<1>3. /\ packet.header_ok = TRUE /\ packet.payload_type = PacketType(stream.of.format)
      /\ packet.sequence = n % SequenceMod
      /\ packet.timestamp = ((n - 1) * size) % TimestampMod
  BY <1>1 DEF Underway, Packed
<1>4. packet.sequence \in Sequences16 /\ packet.timestamp \in Timestamps32
  <2>1. n \in Int /\ (n - 1) * size \in Int
    BY <1>1
  <2>2. PICK x \in Int : x = (n - 1) * size
    BY <2>1
  <2>3. n % SequenceMod \in 0 .. SequenceMod - 1 /\ x % TimestampMod \in 0 .. TimestampMod - 1
    BY <2>1, RtpAssumption, DivMod
  <2>. QED  BY <1>3, <2>2, <2>3 DEF Sequences16, Timestamps32
<1>5. \A k \in s.delivered : k \in Nat \ {0} /\ k < s.next
  BY <1>1, <1>2 DEF Underway
<1>6. s.next \in Nat \ {0} /\ s.next <= Len(s.frames) + 1
  BY <1>1, <1>2
<1>7. CASE stream.of.format = "rtp_g729"
  <2>1. rtp = stream.rtp
    BY <1>3, <1>7 DEF AfterPacket, Accepts, PacketType, ExpectedPayload
  <2>2. s.rtp = NewDepacketizer
    BY <1>2, <1>7, <2>1 DEF Underway
  <2>. HIDE DEF s
  <2>3. Underway(s)
    BY <1>2, <1>5, <1>6, <1>7, <2>2 DEF Underway
  <2>. QED  BY <2>3 DEF s
<1>8. CASE stream.of.format # "rtp_g729"
  <2>1. rtp = Accept(stream.rtp, packet)
    BY <1>3, <1>8 DEF AfterPacket, Accepts, PacketType, ExpectedPayload, Underway, RtpFormats
  <2>2. Counts(s.rtp, s.delivered, size)
    <3>1. CASE stream.delivered = {}
      <4>1. s.rtp = Accept(NewDepacketizer, packet) /\ s.delivered = {n}
        BY <1>2, <2>1, <3>1 DEF Underway
      <4>. HIDE DEF n, packet, size, s
      <4>. QED  BY <1>1, <1>3, <1>4, <4>1, FirstCounts
    <3>2. CASE stream.delivered # {}
      <4>1. Counts(stream.rtp, stream.delivered, size)
        BY <1>8, <3>2 DEF Underway
      <4>2. \A k \in stream.delivered : k \in Nat /\ k < n
        BY DEF Underway
      <4>3. s.rtp = Accept(stream.rtp, packet) /\ s.delivered = stream.delivered \cup {n}
        BY <1>2, <2>1
      <4>. HIDE DEF n, packet, size, s
      <4>. QED  BY <1>1, <1>3, <1>4, <4>1, <4>2, <4>3, NextCounts
    <3>. QED  BY <3>1, <3>2
  <2>3. s.delivered # {}
    BY <1>2
  <2>4. /\ s.of \in Codecs \cup {DefaultCodec} /\ s.of.format \in RtpFormats
        /\ Packed(s.frames, FrameSize(s.of), PacketType(s.of.format)) /\ FrameSize(s.of) = size
    BY <1>2 DEF Underway
  <2>. HIDE DEF s, size
  <2>5. Underway(s)
    BY <1>2, <1>5, <1>6, <1>8, <2>2, <2>3, <2>4 DEF Underway
  <2>. QED  BY <2>5 DEF s
<1>. QED  BY <1>7, <1>8

LEMMA SkipKeepsStream ==
  ASSUME Underway(stream), SkipFrame
  PROVE  Underway(stream')
<1>. DEFINE s == stream'
<1>1. /\ DOMAIN s = StreamFields /\ s.next = stream.next + 1 /\ s.of = stream.of
      /\ s.frames = stream.frames /\ s.delivered = stream.delivered /\ s.rtp = stream.rtp
      /\ stream.next <= Len(stream.frames)
  BY DEF SkipFrame, Underway, StreamFields
<1>2. Len(stream.frames) \in Nat
  BY DEF Underway, Packed
<1>3. /\ s.next \in Nat \ {0} /\ s.next <= Len(s.frames) + 1
      /\ \A k \in s.delivered : k \in Nat \ {0} /\ k < s.next
  BY <1>1, <1>2 DEF Underway
<1>. HIDE DEF s
<1>4. Underway(s)
  BY <1>1, <1>3 DEF Underway
<1>. QED  BY <1>4 DEF s

LEMMA StreamInvariance == Spec => []StreamInv
<1>1. Init => StreamInv
  BY DEF Init, StreamInv
<1>2. ASSUME PanelTyped, StreamInv, [Next]_<<serviceVars, pageVars>>
      PROVE  StreamInv'
  <2>. USE DEF PanelTyped, StreamInv
  <2>1. CASE AnalyzeWebSocket
    BY <1>2, <2>1, AnalyzeKeepsStream
  <2>2. CASE SendFrame
    BY <1>2, <2>2, NothingToSend, SendKeepsStream DEF SendFrame
  <2>3. CASE SkipFrame
    BY <1>2, <2>3, NothingToSend, SkipKeepsStream DEF SkipFrame
  <2>4. CASE CloseAnalysis
    BY <2>4 DEF CloseAnalysis
  <2>5. CASE UNCHANGED stream
    BY <1>2, <2>5
  <2>. QED  BY <1>2, <2>1, <2>2, <2>3, <2>4, <2>5
            DEF Next, PageNext, pageVars, Used, Record, ChangeConfig, PreviewArrives,
                PreviewFails, GenerateVariants, VariantsArrive, VariantsFail
<1>. QED  BY <1>1, <1>2, PanelIsTyped, PTL DEF Spec

\* The types of the variables, with any recordings, settings and requests.
THEOREM PageTypeCorrect == Spec => []TypeOK
<1>1. ASSUME ServiceTypeOK, PanelInv, PanelTyped, StreamInv
      PROVE  TypeOK
  <2>1. /\ page.take \in 0 .. MaxTakes /\ page.codec \in Codecs \cup {DefaultCodec}
        /\ \A request \in page.requests : request.age <= page.age
    BY <1>1 DEF PanelTyped, TypedPage, PanelInv, PageInv, Counted
  <2>2. {page.original, page.current} \cup {page.variants[i] : i \in DOMAIN page.variants}
            \subseteq 0 .. Len(page.urls)
    <3>1. page.original \in 0 .. Len(page.urls) /\ page.current \in 0 .. Len(page.urls)
      BY <1>1 DEF PanelTyped, TypedPage, Numbered, PanelInv, PageInv, Newest
    <3>2. ASSUME NEW i \in DOMAIN page.variants
          PROVE  page.variants[i] \in 0 .. Len(page.urls)
      <4>1. page.variants \in Seq(Nat) /\ Len(page.urls) \in Nat
        BY <1>1 DEF PanelTyped, TypedPage, Numbered, PanelInv, PageInv, PageFormed
      <4>2. i \in 1 .. Len(page.variants) /\ page.variants[i] \in Nat
        BY <4>1
      <4>3. page.variants[i] <= Len(page.urls)
        BY <1>1, <4>2 DEF PanelTyped, TypedPage, Numbered
      <4>. QED  BY <4>1, <4>2, <4>3
    <3>. QED  BY <3>1, <3>2
  <2>3. stream.delivered \subseteq 1 .. Len(stream.frames) /\ stream.rtp \in Depacketizers
    <3>1. CASE stream = NoStream
      BY <3>1, NewInRange DEF NoStream
    <3>2. CASE Underway(stream)
      <4>1. stream.rtp \in Depacketizers
        BY <3>2, NewInRange DEF Underway, Counts
      <4>2. Len(stream.frames) \in Nat
        BY <3>2 DEF Underway, Packed
      <4>. QED  BY <3>2, <4>1, <4>2 DEF Underway
    <3>. QED  BY <1>1, <3>1, <3>2 DEF StreamInv
  <2>. QED  BY <1>1, <2>1, <2>2, <2>3 DEF TypeOK
<1>. QED  BY <1>1, PageKeepsPromises, PageInvariance, PanelIsTyped, StreamInvariance, PTL

\* Whatever the slider leaves out of a recording of any length: the depacketizer
\* counts it lost, and measures the time between the frames that are left.
THEOREM StreamLosesWhatIsLeftOut == Spec => []StreamShowsTheLoss
<1>1. ASSUME StreamInv
      PROVE  StreamShowsTheLoss
  <2>. DEFINE D == stream.delivered
              r == stream.rtp
              size == FrameSize(stream.of)
  <2>1. SUFFICES ASSUME D # {}, stream.of.format # "rtp_g729"
                 PROVE  /\ r.packets_received = Cardinality(D) % CounterMod
                        /\ GapsCanBeTold =>
                               r.packets_lost =
                                   Cardinality((FirstDelivered .. LastDelivered) \ D) % CounterMod
                        /\ D # {LastDelivered}
                               /\ stream.of.rate = SampleRateForFormat(stream.of.format) =>
                               LET ticks == ((LastDelivered - Previous) * stream.of.frame_ms
                                                 * NarrowRate) \div 1000
                               IN  2 * ticks < TimestampMod => r.jitter_sample = ticks
    BY DEF StreamShowsTheLoss
  <2>2. Underway(stream)
    BY <1>1, <2>1 DEF StreamInv, NoStream
  <2>3. Counts(r, D, size) /\ \A k \in D : k \in Nat
    BY <2>1, <2>2 DEF Underway
  <2>4. PICK first \in D, last \in D :
            /\ \A k \in D : first <= k /\ k <= last
            /\ r.packets_received = Cardinality(D) % CounterMod
            /\ RoundsAreHeard(D, first, last) =>
                   r.packets_lost = Cardinality((first .. last) \ D) % CounterMod
            /\ Absorbed(r, D, last, size)
    BY <2>3 DEF Counts
  <2>5. FirstDelivered = first
    <3>1. \A k \in D : (\A j \in D : k <= j) => k = first
      BY <2>3, <2>4
    <3>2. \A j \in D : first <= j
      BY <2>4
    <3>. QED  BY <3>1, <3>2 DEF FirstDelivered
  <2>6. LastDelivered = last
    <3>1. \A k \in D : (\A j \in D : j <= k) => k = last
      BY <2>3, <2>4
    <3>2. \A j \in D : j <= last
      BY <2>4
    <3>. QED  BY <3>1, <3>2 DEF LastDelivered
  <2>7. GapsCanBeTold => r.packets_lost = Cardinality((first .. last) \ D) % CounterMod
    BY <2>4, <2>5, <2>6 DEF GapsCanBeTold, RoundsAreHeard
  <2>8. ASSUME D # {last}, stream.of.rate = SampleRateForFormat(stream.of.format)
        PROVE  LET ticks == ((last - Previous) * stream.of.frame_ms * NarrowRate) \div 1000
               IN  2 * ticks < TimestampMod => r.jitter_sample = ticks
    <3>1. PICK prev \in D \ {last} :
              /\ \A j \in D \ {last} : j <= prev
              /\ 2 * ((last - prev) * size) < TimestampMod => r.jitter_sample = (last - prev) * size
      BY <2>4, <2>8 DEF Absorbed
    <3>2. Previous = prev
      <4>1. \A k \in D \ {last} : (\A j \in D \ {last} : j <= k) => k = prev
        BY <2>3, <3>1
      <4>. QED  BY <2>6, <3>1, <4>1 DEF Previous
    <3>3. last - prev \in Nat
      BY <2>3, <2>4, <3>1
    <3>4. ((last - prev) * stream.of.frame_ms * NarrowRate) \div 1000 = (last - prev) * size
      BY <2>1, <2>2, <2>8, <3>3, CodecsAreSettings, SizeOfFrame DEF Underway
    <3>. QED  BY <3>1, <3>2, <3>4
  <2>. QED  BY <2>4, <2>5, <2>6, <2>7, <2>8
<1>. QED  BY <1>1, StreamInvariance, PTL
-----------------------------------------------------------------------------
(***************************************************************************)
(* The audio: what a caller who does as the interfaces ask has recorded is *)
(* what is handed on.                                                      *)
(***************************************************************************)
\* The chunks of a file come one behind the other.
LEMMA ChunksInOrder ==
  ASSUME NEW wav, WellFormedFile(wav), NEW k \in 1 .. Len(wav.chunks)
  PROVE  /\ At(wav, k) \in Nat /\ wav.chunks[k].stored \in Nat /\ At(wav, k) >= 12
         /\ \A j \in 1 .. k - 1 : At(wav, k) >= At(wav, j) + 8 + wav.chunks[j].stored
<1>. DEFINE n     == Len(wav.chunks)
            at(i) == wav.chunks[i].at
            st(i) == wav.chunks[i].stored
            S     == {m \in 0 .. n : m # 0 =>
                          /\ at(m) >= 12
                          /\ \A j \in 1 .. m - 1 : at(m) >= at(j) + 8 + st(j)}
<1>1. n \in Nat
  BY DEF WellFormedFile
<1>2. /\ \A i \in 1 .. n : at(i) \in Nat /\ st(i) \in Nat
      /\ \A i \in 1 .. n : at(i) = IF i = 1 THEN 12 ELSE at(i - 1) + 8 + st(i - 1)
  BY DEF WellFormedFile
<1>. HIDE DEF at, st, n
<1>3. 0 \in S
  BY <1>1
<1>4. \A m \in 0 .. n - 1 : m \in S => m + 1 \in S
  <2>. SUFFICES ASSUME NEW m \in 0 .. n - 1, m \in S
                PROVE  m + 1 \in S
    OBVIOUS
  <2>1. CASE m = 0
    <3>1. at(1) = 12 /\ 1 \in 0 .. n
      BY <1>1, <1>2, <2>1
    <3>. QED  BY <2>1, <3>1
  <2>2. CASE m # 0
    <3>1. m \in 1 .. n /\ m + 1 \in 1 .. n /\ (m + 1) - 1 = m
      BY <1>1, <2>2
    <3>2. at(m + 1) = at(m) + 8 + st(m) /\ at(m) \in Nat /\ st(m) \in Nat /\ at(m + 1) \in Nat
      BY <1>2, <3>1, <2>2
    <3>3. at(m) >= 12 /\ \A j \in 1 .. m - 1 : at(m) >= at(j) + 8 + st(j)
      BY <2>2
    <3>4. ASSUME NEW j \in 1 .. m
          PROVE  at(m + 1) >= at(j) + 8 + st(j)
      <4>1. CASE j = m
        BY <3>2, <4>1
      <4>2. CASE j # m
        <5>1. j \in 1 .. m - 1 /\ j \in 1 .. n
          BY <1>1, <3>1, <4>2
        <5>2. at(m) >= at(j) + 8 + st(j) /\ at(j) \in Nat /\ st(j) \in Nat
          BY <1>2, <3>3, <5>1
        <5>. QED  BY <3>2, <5>2
      <4>. QED  BY <4>1, <4>2
    <3>5. at(m + 1) >= 12 /\ m + 1 \in 0 .. n
      BY <3>1, <3>2, <3>3
    <3>. QED  BY <3>1, <3>4, <3>5
  <2>. QED  BY <2>1, <2>2
<1>5. \A m \in 0 .. n : m \in S
  <2>. HIDE DEF S
  <2>. QED  BY ONLY <1>1, <1>3, <1>4, BoundedInduction
<1>6. k \in 1 .. n /\ k \in 0 .. n /\ k # 0
  BY <1>1 DEF n
<1>7. at(k) \in Nat /\ st(k) \in Nat /\ at(k) >= 12
      /\ \A j \in 1 .. k - 1 : at(k) >= at(j) + 8 + st(j)
  BY <1>2, <1>5, <1>6
<1>. QED  BY <1>7 DEF at, st, At

\* Of n channels' samples, each of two bytes, every n-th is counted.
LEMMA CountOfChannels ==
  ASSUME NEW n \in Nat \ {0}, NEW m \in Nat
  PROVE  SampleCount(n * (2 * m), n) = m
<1>. DEFINE x == 2 * m
<1>1. x \in Nat /\ x \div 2 = m
  OBVIOUS
<1>. HIDE DEF x
<1>2. (n * x) \div n = x
  <2>. DEFINE y == n * x
  <2>1. y \in Int /\ x \in Int /\ x * n <= y /\ y < x * n + n
    BY <1>1
  <2>. HIDE DEF y
  <2>2. y \div n = x
    BY <2>1, QuotientIsUnique
  <2>. QED  BY <2>2 DEF y
<1>3. SampleCount(n * x, n) = m
  BY <1>1, <1>2 DEF SampleCount
<1>. QED  BY <1>3 DEF x

\* The parser takes a file that holds a recording, and copies that recording.
LEMMA RecordingIsRead ==
  ASSUME NEW wav, NEW rate, NEW samples \in Seq(Int), HoldsRecording(wav, rate, samples),
         ~ PaddedBeforeData(wav)
  PROVE  Takes(wav) /\ WavInfo(wav) = [sample_rate |-> rate, samples |-> samples]
<1>1. PICK f \in 1 .. Len(wav.chunks), d \in 1 .. Len(wav.chunks) :
          LET format == wav.chunks[f]
              data   == wav.chunks[d]
              n      == format.fields.channels
          IN  /\ f < d /\ format.id = "fmt " /\ format.stored >= 16
              /\ data.id = "data" /\ \A k \in 1 .. d - 1 : wav.chunks[k].id # "data"
              /\ format.fields = [audio_format |-> 1, channels |-> n, sample_rate |-> rate,
                                  bits_per_sample |-> 16]
              /\ n >= 1 /\ data.declared = n * (2 * Len(samples)) /\ data.declared <= data.stored
              /\ Len(data.samples) = n * Len(samples)
              /\ \A i \in 1 .. Len(samples) : data.samples[(i - 1) * n + 1] = samples[i]
  BY DEF HoldsRecording
<1>. DEFINE n == wav.chunks[f].fields.channels
            m == Len(samples)
            N == Len(wav.chunks)
            declared == wav.chunks[d].declared
<1>a. wav.chunks[f].id = "fmt " /\ wav.chunks[d].id = "data"
  BY <1>1
<1>e. f < d
  BY <1>1
<1>f. n >= 1 /\ declared = n * (2 * m)
  BY <1>1
<1>g. wav.chunks[f].stored >= 16 /\ declared <= wav.chunks[d].stored
  BY <1>1
<1>b. \A k \in 1 .. d - 1 : wav.chunks[k].id # "data"
  BY <1>1
<1>c. wav.chunks[f].fields = [audio_format |-> 1, channels |-> n, sample_rate |-> rate,
                              bits_per_sample |-> 16]
  BY <1>1
<1>2. /\ WellFormedFile(wav) /\ wav.riff_wave /\ rate \in Nat \ {0} /\ wav.size \in Nat
      /\ N \in Nat /\ n \in Nat \ {0} /\ m \in Nat /\ declared \in Nat
      /\ f \in 1 .. N /\ d \in 1 .. N
  <2>1. WellFormedFile(wav) /\ wav.riff_wave /\ rate \in Nat \ {0}
    BY DEF HoldsRecording
  <2>2. wav.chunks[f].fields \in Fields /\ wav.chunks[d].declared \in Nat
    BY <2>1 DEF WellFormedFile
  <2>3. n \in Nat
    BY <2>2 DEF Fields
  <2>4. n \in Nat \ {0}
    BY <1>f, <2>3
  <2>5. m \in Nat
    OBVIOUS
  <2>6. wav.size \in Nat /\ N \in Nat
    BY <2>1 DEF WellFormedFile
  <2>. HIDE DEF n, m, N, declared
  <2>7. f \in 1 .. N /\ d \in 1 .. N
    BY DEF N
  <2>8. declared \in Nat
    BY <2>2 DEF declared
  <2>. QED  BY <2>1, <2>4, <2>5, <2>6, <2>7, <2>8
<1>. HIDE DEF n, m, N, declared
<1>d. f \in 1 .. d /\ f \in 1 .. d - 1 /\ d \in 1 .. d
  BY <1>e, <1>2
<1>3. ASSUME NEW k \in 1 .. d
      PROVE  Reached(wav, k)
  <2>1. k \in 1 .. N /\ \A j \in 1 .. k - 1 : j \in 1 .. d - 1 /\ j \in 1 .. N
    BY <1>2
  <2>2. At(wav, k) + 8 + wav.chunks[k].stored <= wav.size
    BY <2>1 DEF HoldsRecording, N
  <2>3. At(wav, k) + 8 <= wav.size
    <3>1. At(wav, k) \in Nat /\ wav.chunks[k].stored \in Nat
      BY <1>2, <2>1, ChunksInOrder DEF N
    <3>. QED  BY <1>2, <2>2, <3>1
  <2>4. ASSUME NEW j \in 1 .. k - 1
        PROVE  wav.chunks[j].id # "data" /\ wav.chunks[j].declared = wav.chunks[j].stored
    <3>1. wav.chunks[j].id # "data"
      BY <1>b, <2>1
    <3>. QED  BY <2>1, <3>1 DEF PaddedBeforeData, N
  <2>. QED  BY <2>3, <2>4 DEF Reached
<1>4. ReachedChunk(wav, "data") = d
  <2>. DEFINE found == {k \in 1 .. N : wav.chunks[k].id = "data" /\ Reached(wav, k)}
  <2>1. d \in found
    BY <1>a, <1>d, <1>2, <1>3
  <2>2. ASSUME NEW k \in found
        PROVE  k = d
    <3>1. k >= d
      <4>1. SUFFICES ASSUME k < d PROVE FALSE
        BY <1>2
      <4>2. k \in 1 .. d - 1
        BY <1>2, <4>1
      <4>. QED  BY <1>b, <4>2
    <3>2. k <= d
      <4>1. SUFFICES ASSUME d < k PROVE FALSE
        BY <1>2
      <4>2. d \in 1 .. k - 1
        BY <1>2, <4>1
      <4>. QED  BY <1>a, <4>2 DEF Reached
    <3>. QED  BY <1>2, <3>1, <3>2
  <2>3. found = {d}
    BY <2>1, <2>2
  <2>. HIDE DEF found
  <2>4. ReachedChunk(wav, "data") = IF found = {} THEN 0 ELSE CHOOSE k \in found : TRUE
    BY DEF ReachedChunk, found, N
  <2>. QED  BY <2>3, <2>4
<1>5. ReachedChunk(wav, "fmt ") = f
  <2>. DEFINE found == {k \in 1 .. N : wav.chunks[k].id = "fmt " /\ Reached(wav, k)}
  <2>2. f \in found
    BY <1>a, <1>d, <1>2, <1>3
  <2>3. \A k \in found : k = f
    BY <1>a, <1>2 DEF WellFormedFile, N
  <2>4. found = {f}
    BY <2>2, <2>3
  <2>. HIDE DEF found
  <2>5. ReachedChunk(wav, "fmt ") = IF found = {} THEN 0 ELSE CHOOSE k \in found : TRUE
    BY DEF ReachedChunk, found, N
  <2>. QED  BY <2>4, <2>5
<1>6. /\ At(wav, f) \in Nat /\ At(wav, f) >= 12
      /\ At(wav, d) \in Nat /\ At(wav, d) >= At(wav, f) + 8 + wav.chunks[f].stored
      /\ wav.chunks[f].stored \in Nat /\ wav.chunks[d].stored \in Nat
  <2>. QED  BY <1>d, <1>2, ChunksInOrder DEF N
<1>7. /\ At(wav, f) + 8 + wav.chunks[f].stored <= wav.size
      /\ At(wav, d) + 8 + wav.chunks[d].stored <= wav.size
  BY <1>2 DEF HoldsRecording, N
<1>8. At(wav, f) + 24 <= wav.size /\ wav.size >= 44
      /\ At(wav, d) + 8 + declared <= wav.size
  <2>. DEFINE a == At(wav, f)
              b == At(wav, d)
              s == wav.chunks[f].stored
              t == wav.chunks[d].stored
              z == wav.size
  <2>1. /\ a \in Nat /\ b \in Nat /\ s \in Nat /\ t \in Nat /\ z \in Nat /\ declared \in Nat
        /\ a >= 12 /\ b >= a + 8 + s
    BY <1>2, <1>6
  <2>2. a + 8 + s <= z /\ b + 8 + t <= z
    BY <1>7
  <2>3. s >= 16 /\ declared <= t
    BY <1>g
  <2>. HIDE DEF a, b, s, t, z
  <2>4. a + 24 <= z /\ z >= 44 /\ b + 8 + declared <= z
    BY <2>1, <2>2, <2>3
  <2>. QED  BY <2>4 DEF a, b, z
<1>9. f # 0 /\ d # 0
  BY <1>2
<1>10. FieldsRead(wav) = wav.chunks[f].fields
  BY <1>5, <1>8, <1>9 DEF FieldsRead
<1>11. DataOffset(wav) = At(wav, d) + 8 /\ DataSize(wav) = declared
  BY <1>4, <1>9 DEF DataOffset, DataSize, declared
<1>12. /\ FieldsRead(wav).audio_format = 1 /\ FieldsRead(wav).bits_per_sample = 16
       /\ FieldsRead(wav).sample_rate = rate /\ FieldsRead(wav).channels = n
  BY <1>c, <1>10
<1>13. Takes(wav)
  BY <1>2, <1>8, <1>11, <1>12 DEF Takes
<1>14. SampleCount(DataSize(wav), n) = m
  BY <1>f, <1>2, <1>11, CountOfChannels
<1>15. SamplesOf(wav) = samples
  <2>. DEFINE stored == wav.chunks[d].samples
              x(i)   == (i - 1) * n + 1
  <2>1. SamplesOf(wav) = [i \in 1 .. m |-> IF x(i) <= Len(stored) THEN stored[x(i)] ELSE Junk]
    BY <1>4, <1>9, <1>12, <1>14 DEF SamplesOf
  <2>2. Len(stored) = n * m /\ \A i \in 1 .. m : stored[x(i)] = samples[i]
    BY <1>1 DEF n, m
  <2>3. ASSUME NEW i \in 1 .. m
        PROVE  x(i) <= Len(stored)
    <3>. DEFINE u == i - 1
                v == m - i
    <3>1. u \in Nat /\ v \in Nat /\ m = u + v + 1
      BY <1>2
    <3>. HIDE DEF u, v
    <3>2. n * m = u * n + v * n + n /\ u * n \in Nat /\ v * n \in Nat
      BY <1>2, <3>1
    <3>3. u * n + 1 <= Len(stored)
      BY <1>2, <2>2, <3>2
    <3>. QED  BY <3>3 DEF u
  <2>. HIDE DEF x, stored
  <2>4. SamplesOf(wav) = [i \in 1 .. m |-> samples[i]]
    BY <2>1, <2>2, <2>3
  <2>. QED  BY <2>4 DEF m
<1>. QED  BY <1>12, <1>13, <1>15 DEF WavInfo
-----------------------------------------------------------------------------
\* What the bytes of a request encode is what they are decoded to: PCM as it is,
\* and one packet of PCMU as near as G.711 comes.
LEMMA PacketIsHandedOn ==
  ASSUME NEW packets, NEW samples \in Seq(Samples16), CarriesPcmu(packets, samples),
         ~ (Len(packets) > 1)
  PROVE  LET pcm == Decoded("rtp_pcmu", ReadAsOne(packets))
         IN  /\ packets # << >> /\ Len(pcm) = Len(samples)
             /\ \A i \in 1 .. Len(samples) : Near(pcm[i], samples[i])
<1>. DEFINE p == packets[1].payload
            one == ReadAsOne(packets)
            pcm == Decoded("rtp_pcmu", one)
            T == 0 .. 255
<1>1. /\ Len(packets) = 1 /\ packets # << >>
  <2>. DEFINE n == Len(packets)
  <2>1. n \in Nat \ {0} /\ ~ (n > 1)
    BY DEF CarriesPcmu
  <2>. HIDE DEF n
  <2>2. n = 1
    BY <2>1
  <2>. QED  BY <2>2 DEF n
<1>2. /\ packets[1].header_ok /\ packets[1].payload_type = "Pcmu"
      /\ p \in Seq(T)
  BY <1>1 DEF CarriesPcmu, Accepts
<1>3. FlattenSeq(<<p>>) = p
  <2>1. /\ << >> \in Seq(Seq(T)) /\ << >> = << >>
        /\ Append(<< >>, p) = <<p>>
    OBVIOUS
  <2>. DEFINE W == Seq(T)
  <2>2. << >> \in Seq(W) /\ p \in W
    BY <1>2
  <2>. HIDE DEF W, p
  <2>3. FlattenSeq(Append(<< >>, p)) = p
    BY <2>2, FlattenAppend
  <2>. QED  BY <2>1, <2>3
<1>4. p = [i \in 1 .. Len(samples) |-> LinearToMulaw(samples[i])]
  <2>1. [k \in 1 .. Len(packets) |-> packets[k].payload] = <<p>>
    BY <1>1
  <2>2. FlattenSeq([k \in 1 .. Len(packets) |-> packets[k].payload])
            = [i \in 1 .. Len(samples) |-> LinearToMulaw(samples[i])]
    BY DEF CarriesPcmu
  <2>. HIDE DEF p
  <2>. QED  BY ONLY <2>1, <2>2, <1>3
<1>5. one.payload = p /\ one.header_ok /\ one.payload_type = "Pcmu"
  <2>1. [k \in 1 .. Len(packets) |-> IF k = 1 THEN packets[1].payload
                                     ELSE HeaderBytes \o packets[k].payload] = <<p>>
    BY <1>1
  <2>2. one = [header_ok |-> packets[1].header_ok, payload_type |-> packets[1].payload_type,
               payload |-> p]
    BY <1>3, <2>1 DEF ReadAsOne
  <2>. HIDE DEF one, p
  <2>. QED  BY <1>2, <2>2
<1>6. pcm = [i \in 1 .. Len(p) |-> UlawToLinear(p[i])]
  <2>. HIDE DEF one, p
  <2>1. Accepts(one, ExpectedPayload("rtp_pcmu"))
    BY <1>5 DEF Accepts, ExpectedPayload
  <2>2. DecodePayload("rtp_pcmu", p) = [i \in 1 .. Len(p) |-> UlawToLinear(p[i])]
    BY DEF DecodePayload
  <2>. QED  BY <1>5, <2>1, <2>2 DEF Decoded
<1>7. Len(samples) \in Nat /\ \A i \in 1 .. Len(samples) : samples[i] \in Samples16
  OBVIOUS
<1>. DEFINE n == Len(samples)
<1>. HIDE DEF p, one, pcm, n
<1>8. Len(p) = n
  BY <1>4, <1>7 DEF n
<1>9. Len(pcm) = n /\ \A i \in 1 .. n : pcm[i] = UlawToLinear(LinearToMulaw(samples[i]))
  <2>1. n \in Nat /\ pcm = [i \in 1 .. n |-> UlawToLinear(p[i])]
    BY <1>6, <1>7, <1>8 DEF n
  <2>2. \A i \in 1 .. n : p[i] = LinearToMulaw(samples[i])
    BY <1>4 DEF n
  <2>. QED  BY <2>1, <2>2
<1>10. \A i \in 1 .. n : Near(pcm[i], samples[i])
  BY <1>7, <1>9, MulawHeard DEF n
<1>. QED  BY <1>1, <1>9, <1>10 DEF pcm, one, n

LEMMA EncodedIsHandedOn ==
  ASSUME NEW bytes, NEW format, NEW samples \in Seq(Int), Encodes(bytes, format, samples),
         format \in RtpFormats => ~ (Len(bytes.packets) > 1)
  PROVE  LET pcm == PayloadToPcm(format, bytes)
         IN  /\ Len(pcm) = Len(samples)
             /\ \A i \in 1 .. Len(samples) :
                    IF format = "rtp_pcmu" THEN Near(pcm[i], samples[i]) ELSE pcm[i] = samples[i]
<1>1. CASE format \in PcmFormats /\ bytes.samples = samples
  <2>1. PayloadToPcm(format, bytes) = samples /\ format # "rtp_pcmu"
    BY <1>1 DEF PayloadToPcm, PcmFormats, RtpFormats
  <2>. QED  BY <2>1
<1>2. CASE format = "rtp_pcmu" /\ CarriesPcmu(bytes.packets, samples) /\ samples \in Seq(Samples16)
  <2>. DEFINE packets == bytes.packets
              pcm == Decoded("rtp_pcmu", ReadAsOne(packets))
  <2>1. format \in RtpFormats
    BY <1>2 DEF RtpFormats
  <2>2. ~ (Len(packets) > 1)
    BY <2>1
  <2>3. /\ packets # << >> /\ Len(pcm) = Len(samples)
        /\ \A i \in 1 .. Len(samples) : Near(pcm[i], samples[i])
    BY <1>2, <2>2, PacketIsHandedOn
  <2>4. PayloadToPcm(format, bytes) = pcm
    BY <1>2, <2>1, <2>3 DEF PayloadToPcm
  <2>. HIDE DEF pcm
  <2>. QED  BY <1>2, <2>3, <2>4
<1>. QED  BY <1>1, <1>2 DEF Encodes

\* The bytes are read in the format that was announced, at the rate that was meant.
LEMMA BytesAreMeant ==
  ASSUME NEW audio, NEW meant, Means(audio, meant), audio.content # "wav",
         ~ SeveralPackets(audio)
  PROVE  HeardAsMeant(HandOn(Announced(audio), audio.rate, audio.bytes), audio, meant)
<1>. DEFINE format == Announced(audio)
            pcm == PayloadToPcm(format, audio.bytes)
            rate == IF audio.rate > 0 THEN audio.rate ELSE SampleRateForFormat(format)
            handed == HandOn(format, audio.rate, audio.bytes)
<1>1. /\ meant.samples \in Seq(Int) /\ Encodes(audio.bytes, format, meant.samples)
      /\ meant.rate = rate
  BY DEF Means
<1>2. format \in RtpFormats => ~ (Len(audio.bytes.packets) > 1)
  BY DEF SeveralPackets
<1>3. handed.refused = FALSE /\ handed.rate = rate /\ handed.samples = pcm
  BY DEF HandOn
<1>4. format = Announced(audio)
  OBVIOUS
<1>. HIDE DEF format, rate, handed
<1>5. /\ Len(pcm) = Len(meant.samples)
      /\ \A i \in 1 .. Len(meant.samples) :
             IF format = "rtp_pcmu" THEN Near(pcm[i], meant.samples[i])
             ELSE pcm[i] = meant.samples[i]
  BY <1>1, <1>2, EncodedIsHandedOn
<1>. HIDE DEF pcm
<1>6. HeardAsMeant(handed, audio, meant)
  BY <1>1, <1>3, <1>4, <1>5 DEF HeardAsMeant
<1>. QED  BY <1>6 DEF handed, format

LEMMA FileIsMeant ==
  ASSUME NEW audio, NEW meant, Means(audio, meant), audio.content = "wav",
         ~ PaddedBeforeData(audio.file)
  PROVE  HeardAsMeant(HandOnFile(audio), audio, meant)
<1>. DEFINE wav == audio.file
<1>1. meant.samples \in Seq(Int) /\ HoldsRecording(wav, meant.rate, meant.samples)
  BY DEF Means
<1>2. /\ Takes(wav)
      /\ WavInfo(wav) = [sample_rate |-> meant.rate, samples |-> meant.samples]
  BY <1>1, RecordingIsRead
<1>3. meant.rate > 0
  <2>. DEFINE rate == meant.rate
  <2>1. rate \in Nat \ {0}
    BY <1>1 DEF HoldsRecording
  <2>. HIDE DEF rate
  <2>2. rate > 0
    BY <2>1
  <2>. QED  BY <2>2 DEF rate
<1>. HIDE DEF wav
<1>. DEFINE format == IF meant.rate >= WideRate THEN "pcm_s16le_16k" ELSE "pcm_s16le_8k"
<1>4. HandOnFile(audio) =
          HandOn(format, meant.rate, [packets |-> << >>, samples |-> meant.samples])
  BY <1>2 DEF HandOnFile, wav
<1>5. format \notin RtpFormats
  BY DEF RtpFormats
<1>. HIDE DEF format
<1>6. HandOnFile(audio) = [refused |-> FALSE, rate |-> meant.rate, samples |-> meant.samples]
  BY <1>3, <1>4, <1>5 DEF HandOn, PayloadToPcm
<1>. QED  BY <1>6 DEF HeardAsMeant

LEMMA UploadIsMeant ==
  ASSUME NEW audio, NEW meant, Means(audio, meant), audio.via = "upload",
         ~ PaddedBeforeData(audio.file), ~ SeveralPackets(audio)
  PROVE  HeardAsMeant(ReadUpload(audio), audio, meant)
<1>1. audio.format \in FormatNames \cup {Absent}
  BY DEF Means, Understood
<1>2. CASE audio.content = "wav"
  BY <1>1, <1>2, FileIsMeant DEF ReadUpload
<1>3. CASE audio.content # "wav"
  <2>1. Announced(audio) = IF audio.format = Absent THEN "pcm_s16le_8k"
                           ELSE FormatNamed(audio.format)
    BY DEF Announced
  <2>. QED  BY <1>1, <1>3, <2>1, BytesAreMeant DEF ReadUpload
<1>. QED  BY <1>2, <1>3

LEMMA SegmentIsMeant ==
  ASSUME NEW audio, NEW meant, Means(audio, meant), audio.content # "wav",
         audio.via = "segment" \/ (audio.via = "playground" /\ audio.format # Absent),
         audio.field # "payload_base64", ~ SeveralPackets(audio)
  PROVE  HeardAsMeant(ReadSegment(audio), audio, meant)
<1>1. audio.format \in FormatNames /\ audio.field \in {"pcm_bytes", "payload_bytes"}
  BY DEF Means, Understood
<1>2. Announced(audio) = FormatNamed(audio.format)
  BY DEF Announced
<1>3. DecodePayloadJson(audio) = audio.bytes
  BY <1>1 DEF DecodePayloadJson
<1>. QED  BY <1>1, <1>2, <1>3, BytesAreMeant DEF ReadSegment

LEMMA PlaygroundIsMeant ==
  ASSUME NEW audio, NEW meant, Means(audio, meant), audio.content # "wav",
         audio.via = "playground", audio.field # "payload_base64", ~ SeveralPackets(audio)
  PROVE  /\ HeardAsMeant(ReadPlayground(audio), audio, meant)
         /\ HeardAsMeant(ReadPlaygroundText(audio), audio, meant)
<1>1. audio.field \in {"pcm_bytes", "payload_bytes"}
  BY DEF Means, Understood
<1>2. CASE audio.format = Absent
  <2>1. Announced(audio) = FormatNumbered(audio.number)
    BY <1>2 DEF Announced
  <2>2. DecodePayloadJson(audio) = audio.bytes
    BY <1>1 DEF DecodePayloadJson
  <2>. QED  BY <1>2, <2>1, <2>2, <1>1, BytesAreMeant DEF ReadPlayground, ReadPlaygroundText
<1>3. CASE audio.format # Absent
  BY <1>1, <1>3, SegmentIsMeant DEF ReadPlayground, ReadPlaygroundText
<1>. QED  BY <1>2, <1>3

LEMMA MessageIsMeant ==
  ASSUME NEW audio, NEW meant, Means(audio, meant), audio.content # "wav", audio.via = "message",
         ~ SeveralPackets(audio)
  PROVE  HeardAsMeant(ReadMessage(audio), audio, meant)
<1>1. Announced(audio) = FormatNumbered(audio.number)
  BY DEF Announced
<1>. QED  BY <1>1, BytesAreMeant DEF ReadMessage

\* What a handler hands on of a well-formed request is what the request means.
IsHeard(demand, handed) ==
    demand.meant.well_formed /\ demand.audio.field # "payload_base64"
        /\ ~ PaddedBeforeData(demand.audio.file) /\ ~ SeveralPackets(demand.audio)
    => HeardAsMeant(handed, demand.audio, demand.meant)

LEMMA HandlersHear ==
  ASSUME NEW demand \in Demands
  PROVE  /\ demand.audio.via = "upload" => IsHeard(demand, ReadUpload(demand.audio))
         /\ demand.audio.via = "segment" => IsHeard(demand, ReadSegment(demand.audio))
         /\ demand.audio.via = "playground" =>
                /\ IsHeard(demand, ReadPlayground(demand.audio))
                /\ IsHeard(demand, ReadPlaygroundText(demand.audio))
         /\ demand.audio.via = "message" => IsHeard(demand, ReadMessage(demand.audio))
<1>1. demand.audio.content = "wav" => demand.audio.via = "upload"
  BY DemandsAssumption
<1>2. demand.meant.well_formed => Means(demand.audio, demand.meant)
  BY MeaningAssumption
<1>. QED  BY <1>1, <1>2, UploadIsMeant, SegmentIsMeant, PlaygroundIsMeant, MessageIsMeant
          DEF IsHeard

LEMMA AnalysisIsHeard ==
  ASSUME NEW endpoint, NEW demand, NEW handed, IsHeard(demand, handed),
         Analyze(endpoint, demand, handed)
  PROVE  AudioIsTheOneSent'
<1>1. exchange'.demand = demand /\ exchange'.handed = handed
  BY DEF Analyze, NoExchange
<1>. QED  BY <1>1 DEF AudioIsTheOneSent, IsHeard

LEMMA TranscriptionIsHeard ==
  ASSUME NEW endpoint, NEW demand, NEW handed, NEW options, IsHeard(demand, handed),
         Transcribe(endpoint, demand, handed, options)
  PROVE  AudioIsTheOneSent'
<1>1. CASE /\ handed.refused
           /\ exchange' = [NoExchange EXCEPT !.endpoint = endpoint, !.demand = demand,
                                             !.status = "400"]
  <2>1. exchange'.demand = demand
    BY <1>1 DEF NoExchange
  <2>2. ~ HeardAsMeant(handed, demand.audio, demand.meant)
    BY <1>1 DEF HeardAsMeant
  <2>. QED  BY <2>1, <2>2 DEF AudioIsTheOneSent, IsHeard
<1>2. CASE \E result \in Transcripts(options.model, handed.samples # << >>) :
               exchange' = [endpoint |-> endpoint, demand |-> demand, handed |-> handed,
                            options |-> WithLanguage(options, config),
                            status |-> IF result.ok \/ endpoint = "Transcribe" THEN "200"
                                       ELSE "502",
                            result |-> result]
  <2>1. exchange'.demand = demand /\ exchange'.handed = handed
    BY <1>2
  <2>. QED  BY <2>1 DEF AudioIsTheOneSent, IsHeard
<1>3. CASE exchange' = [NoExchange EXCEPT !.endpoint = endpoint, !.demand = demand,
                                          !.handed = handed, !.status = "400"]
  <2>1. exchange'.demand = demand /\ exchange'.handed = handed
    BY <1>3 DEF NoExchange
  <2>. QED  BY <2>1 DEF AudioIsTheOneSent, IsHeard
<1>. QED  BY <1>1, <1>2, <1>3 DEF Transcribe

LEMMA AudioIsHeard == ServiceSpec => []AudioIsTheOneSent
<1>1. ServiceInit => AudioIsTheOneSent
  <2>. SUFFICES ASSUME ServiceInit PROVE AudioIsTheOneSent
    OBVIOUS
  <2>1. exchange.demand = NoDemand
    BY DEF ServiceInit, NoExchange
  <2>2. ~ NoDemand.meant.well_formed
    BY DEF NoDemand
  <2>. QED  BY <2>1, <2>2 DEF AudioIsTheOneSent
<1>2. AudioIsTheOneSent /\ [ServiceNext]_serviceVars => AudioIsTheOneSent'
  <2>. SUFFICES ASSUME AudioIsTheOneSent, [ServiceNext]_serviceVars
                PROVE  AudioIsTheOneSent'
    OBVIOUS
  <2>1. CASE UNCHANGED exchange
    BY <2>1 DEF AudioIsTheOneSent
  <2>2. ASSUME NEW demand \in Demands,
               \/ AnalyzeBatch(demand) \/ AnalyzeSegment(demand)
               \/ PlaygroundAnalyzeBatch(demand) \/ GrpcAnalyzeBatch(demand)
        PROVE  AudioIsTheOneSent'
    <3>1. PICK endpoint, handed : IsHeard(demand, handed) /\ Analyze(endpoint, demand, handed)
      <4>1. CASE AnalyzeBatch(demand)
        BY <4>1, HandlersHear DEF AnalyzeBatch, Arrives
      <4>2. CASE AnalyzeSegment(demand)
        BY <4>2, HandlersHear DEF AnalyzeSegment, Arrives
      <4>3. CASE PlaygroundAnalyzeBatch(demand)
        BY <4>3, HandlersHear DEF PlaygroundAnalyzeBatch, Arrives
      <4>4. CASE GrpcAnalyzeBatch(demand)
        BY <4>4, HandlersHear DEF GrpcAnalyzeBatch, Arrives
      <4>. QED  BY <2>2, <4>1, <4>2, <4>3, <4>4
    <3>. QED  BY <3>1, AnalysisIsHeard
  <2>3. ASSUME NEW demand \in Demands,
               \/ SttTranscribe(demand) \/ SttTranscribeSegment(demand)
               \/ PlaygroundSttTranscribe(demand) \/ GrpcTranscribe(demand)
        PROVE  AudioIsTheOneSent'
    <3>1. PICK endpoint, handed, options :
              IsHeard(demand, handed) /\ Transcribe(endpoint, demand, handed, options)
      <4>1. CASE SttTranscribe(demand)
        BY <4>1, HandlersHear DEF SttTranscribe, Arrives
      <4>2. CASE SttTranscribeSegment(demand)
        BY <4>2, HandlersHear DEF SttTranscribeSegment, Arrives
      <4>3. CASE PlaygroundSttTranscribe(demand)
        BY <4>3, HandlersHear DEF PlaygroundSttTranscribe, Arrives
      <4>4. CASE GrpcTranscribe(demand)
        BY <4>4, HandlersHear DEF GrpcTranscribe, Arrives
      <4>. QED  BY <2>3, <4>1, <4>2, <4>3, <4>4
    <3>. QED  BY <3>1, TranscriptionIsHeard
  <2>4. \/ UNCHANGED exchange
        \/ \E demand \in Demands :
               \/ AnalyzeBatch(demand) \/ AnalyzeSegment(demand)
               \/ PlaygroundAnalyzeBatch(demand) \/ GrpcAnalyzeBatch(demand)
        \/ \E demand \in Demands :
               \/ SttTranscribe(demand) \/ SttTranscribeSegment(demand)
               \/ PlaygroundSttTranscribe(demand) \/ GrpcTranscribe(demand)
    BY DEF ServiceNext, serviceVars, Requests, Configure, Abort, LoadModels, SttReady
  <2>. QED  BY <2>1, <2>2, <2>3, <2>4
<1>. QED  BY <1>1, <1>2, PTL DEF ServiceSpec

\* On every interface a well-formed request is taken, and what the analyzer or the
\* engine is handed is what the caller recorded, whatever its length: the samples
\* of PCM in any field under any name, those of a packet of PCMU as near as the
\* code comes, or the first channel of a file (decode_payload_to_pcm, parse_wav and
\* the handlers around them); a body of several packets is not read as that.
THEOREM AudioArrives == Spec => []AudioIsTheOneSent
  BY AudioIsHeard, PageImplementsService, PTL
=============================================================================
