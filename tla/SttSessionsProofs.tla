------------------------- MODULE SttSessionsProofs -------------------------
(***************************************************************************)
(* Theorems about SttSessions, for any callers, sessions and bounds, in    *)
(* three parts.  The first has the inductive invariant SttInv, which adds  *)
(* to the types what a handler on its way knows: which session it is for   *)
(* and what audio it carries.  The second shows that every step of a       *)
(* handler is one step of TranscriptDelivery or none.  The third says what *)
(* becomes of the audio.                                                   *)
(***************************************************************************)
EXTENDS SttSessions, SequenceTheorems, TLAPS

SessionStates == [pcm : Seq(Chunks), options : Options]

Works == [id : SessionIds \cup {""}, pcm : Seq(Chunks), asked : Options,
          options : Options, flush : BOOLEAN, result : Results]

Connections == [phase : {"Handshake", "Ready", "Closed", "Broken"},
                id : SessionIds \cup {""}, named : Options]

Answers == [pcm : Seq(Chunks), asked : Options, options : Options, result : Results]

(***************************************************************************)
(* TypeOK in parts, so that a step cites only what it disturbs.            *)
(***************************************************************************)

SessionsType ==
    /\ DOMAIN sessions \subseteq SessionIds
    /\ \A id \in DOMAIN sessions : sessions[id] \in SessionStates

WsType == ws \in [WsConnections -> Connections]

HandlersType ==
    /\ thread \in [Callers -> Busy \cup {"Idle"}]
    /\ work \in [Callers -> Works]
    /\ \A c \in Callers : thread[c] = "Idle" => work[c].pcm = << >>
    /\ engine \in Callers \cup {NoCaller}

AnswersType == answers \in [Callers -> Seq(Answers)]

CountsType ==
    /\ sent \in [Callers -> Nat]
    /\ flushes \in [Callers -> Nat]
    /\ settled \in [Callers -> [SessionIds -> Nat]]
    /\ dropped \subseteq Chunks
    /\ swallowed \in [WsConnections -> Nat]

LEMMA TypeParts ==
  TypeOK <=> SessionsType /\ WsType /\ HandlersType /\ AnswersType /\ CountsType
  BY DEF TypeOK, SessionsType, WsType, HandlersType, AnswersType, CountsType,
         SessionStates, Works, Connections, Answers

\* a connection that is ready and a handler before its flush know their session
KnowsSession ==
    /\ \A c \in WsConnections : ws[c].phase = "Ready" => ws[c].id \in SessionIds
    /\ \A c \in Callers :
           thread[c] \in {"Appending", "Flushing"} => work[c].id \in SessionIds

\* an append carries one chunk and a flush, until it has taken the session, none
CarriesWhatItShould ==
    \A c \in Callers :
        /\ thread[c] = "Appending" => \E chunk \in Chunks : work[c].pcm = <<chunk>>
        /\ thread[c] = "Flushing" => work[c].pcm = << >>

SttInv ==
    /\ SessionsType /\ WsType /\ HandlersType /\ AnswersType /\ CountsType
    /\ KnowsSession /\ CarriesWhatItShould /\ DecodesAlone

(***************************************************************************)
(* The operators.                                                          *)
(***************************************************************************)

LEMMA DefaultOptionsType == DefaultOptions \in Options
  BY SessionsAssumption DEF DefaultOptions, Options

LEMMA ResultsType ==
  ASSUME NEW model \in {"parakeet", "whisper", "none"}
  PROVE  /\ Text(model) \in Results
         /\ Blank(model) \in Results
         /\ Failure(model) \in Results
  BY DEF Text, Blank, Failure, Results

\* whatever an attempt results in is a result
LEMMA AttemptsType ==
  ASSUME NEW model \in {"parakeet", "whisper"}, NEW has_samples \in BOOLEAN
  PROVE  Attempts(model, has_samples) \subseteq Results
  BY ResultsType DEF Attempts

LEMMA CombinedType ==
  ASSUME NEW primary \in Results, NEW fallback \in Results
  PROVE  Combined(primary, fallback) \in Results
  BY DEF Combined, Results

LEMMA NoWorkType == NoWork \in Works
  BY DefaultOptionsType, ResultsType DEF NoWork, Works

LEMMA MergedOptionsType ==
  ASSUME NEW options \in Options, NEW session_options \in Options
  PROVE  MergedOptions(options, session_options) \in Options
  BY SessionsAssumption DEF MergedOptions, Options

LEMMA NewStateType == NewState \in SessionStates
  BY SessionsAssumption, EmptySeq DEF NewState, SessionStates, Options, ModelChoices

\* sessions, StateOf and WithSession stay within their types
LEMMA StateOfType ==
  ASSUME SessionsType, NEW id
  PROVE  StateOf(id) \in SessionStates
  BY NewStateType DEF StateOf, SessionsType

LEMMA WithSessionType ==
  ASSUME SessionsType, NEW id \in SessionIds, NEW state \in SessionStates,
         sessions' = WithSession(id, state)
  PROVE  SessionsType'
  BY DEF WithSession, SessionsType

LEMMA WithoutSessionType ==
  ASSUME SessionsType, NEW id, sessions' = WithoutSession(id)
  PROVE  SessionsType'
  BY DEF WithoutSession, SessionsType

\* what a caller sends next is a chunk
LEMMA NewChunkType ==
  ASSUME CountsType, NEW c \in Callers, NEW id \in SessionIds, sent[c] < MaxChunks
  PROVE  NewChunk(c, id) \in Chunks
  <1>1. sent[c] \in Nat
    BY DEF CountsType
  <1>2. MaxChunks \in Nat
    BY SessionsAssumption
  <1>3. sent[c] + 1 \in 1 .. MaxChunks
    BY <1>1, <1>2
  <1> QED
    BY <1>3 DEF NewChunk, Chunks

(***************************************************************************)
(* Every action keeps the invariant.                                       *)
(***************************************************************************)

LEMMA InitInv == Init => SttInv
  <1> SUFFICES ASSUME Init
               PROVE  SttInv
    OBVIOUS
  <1>1. SessionsType
    <2>1. sessions \in Seq({}) /\ Len(sessions) = 0
      BY EmptySeq DEF Init
    <2>2. DOMAIN sessions = 1 .. 0
      BY <2>1
    <2> QED
      BY <2>2 DEF SessionsType
  <1>2. WsType
    BY DefaultOptionsType DEF Init, WsType, Connections
  <1>3. HandlersType
    BY NoWorkType DEF Init, HandlersType, NoWork
  <1>4. AnswersType
    BY EmptySeq DEF Init, AnswersType
  <1>5. CountsType
    BY DEF Init, CountsType
  <1>6. KnowsSession /\ CarriesWhatItShould
    BY DEF Init, KnowsSession, CarriesWhatItShould
  <1>7. DecodesAlone
    BY SessionsAssumption DEF Init, DecodesAlone
  <1> QED
    BY <1>1, <1>2, <1>3, <1>4, <1>5, <1>6, <1>7 DEF SttInv

Decoders == {"Decoding", "FallingBack"}

\* a handler moves on, from w and t to what suits its next step
LEMMA HandlerStep ==
  ASSUME SttInv, NEW c \in Callers, NEW w \in Works, NEW t \in Busy \cup {"Idle"},
         work' = [work EXCEPT ![c] = w], thread' = [thread EXCEPT ![c] = t],
         ws' = ws, engine' \in Callers \cup {NoCaller},
         t = "Idle" => w.pcm = << >>,
         t \in {"Appending", "Flushing"} => w.id \in SessionIds,
         t = "Appending" => \E chunk \in Chunks : w.pcm = <<chunk>>,
         t = "Flushing" => w.pcm = << >>
  PROVE  WsType' /\ HandlersType' /\ KnowsSession' /\ CarriesWhatItShould'
  <1> USE DEF SttInv
  <1>1. WsType' /\ HandlersType'
    BY DEF WsType, HandlersType
  <1>2. KnowsSession'
    BY DEF KnowsSession, HandlersType
  <1>3. CarriesWhatItShould'
    BY DEF CarriesWhatItShould, HandlersType
  <1> QED
    BY <1>1, <1>2, <1>3

\* .. and the engine with it, if it neither takes nor releases it
LEMMA EngineStays ==
  ASSUME SttInv, NEW c \in Callers, NEW t, thread' = [thread EXCEPT ![c] = t],
         thread[c] \in Decoders <=> t \in Decoders, engine' = engine
  PROVE  DecodesAlone'
  BY DEF SttInv, DecodesAlone, HandlersType, Decoders

\* .. or if it releases it
LEMMA EngineReleased ==
  ASSUME SttInv, NEW c \in Callers, NEW t, thread' = [thread EXCEPT ![c] = t],
         thread[c] \in Decoders, t \notin Decoders, engine' = NoCaller
  PROVE  DecodesAlone'
  BY SessionsAssumption DEF SttInv, DecodesAlone, HandlersType, Decoders

\* the handshake of a connection, whole or half
LEMMA HandshakeInv ==
  ASSUME SttInv, NEW c \in WsConnections, NEW id \in SessionIds,
         \/ WsHalfHandshake(c, id)
         \/ \E options \in Options : WsHandshake(c, id, options)
  PROVE  SttInv'
  <1> USE DEF SttInv
  <1>1. UNCHANGED <<thread, work, engine, answers, sent, flushes, settled, dropped, swallowed>>
    BY DEF WsHalfHandshake, WsHandshake
  <1>2. SessionsType'
    <2>1. ASSUME NEW options \in Options, WsHandshake(c, id, options)
          PROVE  SessionsType'
      <3>1. [StateOf(id) EXCEPT !.options = options] \in SessionStates
        BY StateOfType DEF SessionStates
      <3> QED
        BY <2>1, <3>1, WithSessionType DEF WsHandshake
    <2> QED
      BY <2>1 DEF WsHalfHandshake, SessionsType
  <1>3. WsType' /\ \A d \in WsConnections : ws'[d].phase = "Ready" => ws'[d].id \in SessionIds
    <2>1. PICK options \in Options :
              ws' = [ws EXCEPT ![c] = [phase |-> "Ready", id |-> id, named |-> options]]
      BY DefaultOptionsType DEF WsHalfHandshake, WsHandshake
    <2>2. [phase |-> "Ready", id |-> id, named |-> options] \in Connections
      BY DEF Connections
    <2> QED
      BY <2>1, <2>2 DEF WsType, KnowsSession
  <1>4. HandlersType' /\ AnswersType' /\ CountsType'
    BY <1>1 DEF HandlersType, AnswersType, CountsType
  <1>5. KnowsSession' /\ CarriesWhatItShould' /\ DecodesAlone'
    BY <1>1, <1>3 DEF KnowsSession, CarriesWhatItShould, DecodesAlone
  <1> QED
    BY <1>2, <1>3, <1>4, <1>5

\* a handler that is called with a flush
LEMMA StartFlushInv ==
  ASSUME SttInv, NEW c \in Callers, NEW id \in SessionIds, NEW options \in Options,
         StartFlush(c, id, options)
  PROVE  SttInv'
  <1> USE DEF SttInv
  <1>1. UNCHANGED <<sessions, ws, engine, answers, sent, settled, dropped, swallowed>>
    BY DEF StartFlush
  <1>2. PICK w \in Works : /\ work' = [work EXCEPT ![c] = w]
                           /\ w.pcm = << >> /\ w.id = id
    <2> DEFINE w == [NoWork EXCEPT !.id = id, !.asked = options, !.options = options]
    <2>1. w \in Works /\ w.pcm = << >> /\ w.id = id
      BY NoWorkType DEF NoWork, Works
    <2>2. work' = [work EXCEPT ![c] = w]
      BY DEF StartFlush
    <2> QED
      BY <2>1, <2>2
  <1>3. thread[c] = "Idle" /\ thread' = [thread EXCEPT ![c] = "Flushing"]
    BY DEF StartFlush, CanStart
  <1>4. SessionsType' /\ AnswersType' /\ CountsType'
    BY <1>1 DEF SessionsType, AnswersType, CountsType, StartFlush
  <1>5. WsType' /\ HandlersType' /\ KnowsSession' /\ CarriesWhatItShould'
    BY <1>1, <1>2, <1>3, HandlerStep DEF Busy, HandlersType
  <1>6. DecodesAlone'
    BY <1>1, <1>3, EngineStays DEF Decoders
  <1> QED
    BY <1>4, <1>5, <1>6

\* a handler that is called with a chunk
LEMMA StartAppendInv ==
  ASSUME SttInv, NEW c \in Callers, NEW id \in SessionIds, NEW options \in Options,
         NEW flush \in BOOLEAN, StartAppend(c, id, flush, options)
  PROVE  SttInv'
  <1> USE DEF SttInv
  <1>1. UNCHANGED <<sessions, ws, engine, answers, settled, dropped, swallowed>>
    BY DEF StartAppend
  <1>2. NewChunk(c, id) \in Chunks
    BY NewChunkType DEF StartAppend
  <1>3. PICK w \in Works : /\ work' = [work EXCEPT ![c] = w]
                           /\ w.pcm = <<NewChunk(c, id)>> /\ w.id = id
    <2> DEFINE w == [NoWork EXCEPT !.id = id, !.pcm = <<NewChunk(c, id)>>,
                                   !.asked = options, !.options = options, !.flush = flush]
    <2>1. <<NewChunk(c, id)>> \in Seq(Chunks)
      BY <1>2
    <2>2. w \in Works /\ w.pcm = <<NewChunk(c, id)>> /\ w.id = id
      BY <2>1, NoWorkType DEF NoWork, Works
    <2>3. work' = [work EXCEPT ![c] = w]
      BY DEF StartAppend
    <2> HIDE DEF w
    <2> QED
      BY <2>2, <2>3
  <1>4. thread[c] = "Idle" /\ thread' = [thread EXCEPT ![c] = "Appending"]
    BY DEF StartAppend, CanStart
  <1>5. SessionsType' /\ AnswersType' /\ CountsType'
    BY <1>1 DEF SessionsType, AnswersType, CountsType, StartAppend
  <1>6. WsType' /\ HandlersType' /\ KnowsSession' /\ CarriesWhatItShould'
    BY <1>1, <1>2, <1>3, <1>4, HandlerStep DEF Busy, HandlersType
  <1>7. DecodesAlone'
    BY <1>1, <1>4, EngineStays DEF Decoders
  <1> QED
    BY <1>5, <1>6, <1>7

\* a connection that closes or breaks
LEMMA EndInv ==
  ASSUME SttInv, NEW c \in WsConnections, WsClose(c) \/ WsBreak(c)
  PROVE  SttInv'
  <1> USE DEF SttInv
  <1>1. UNCHANGED <<thread, work, engine, answers, sent, flushes, swallowed>>
    BY DEF WsClose, WsBreak
  <1>2. WsType' /\ \A d \in WsConnections : ws'[d].phase = "Ready" => ws'[d].id \in SessionIds
    BY DEF WsClose, WsBreak, WsType, Connections, KnowsSession
  <1>3. SessionsType'
    BY WithoutSessionType DEF WsClose, WsBreak, SessionsType
  <1>4. CountsType'
    <2>1. CASE WsClose(c)
      <3>1. StateOf(ws[c].id).pcm \in Seq(Chunks)
        BY StateOfType DEF SessionStates
      <3>2. PcmRange(StateOf(ws[c].id).pcm) \subseteq Chunks
        BY <3>1 DEF PcmRange
      <3>3. c \in Callers /\ sent[c] \in Nat
        BY DEF CountsType, Callers
      <3> QED
        BY <1>1, <2>1, <3>2, <3>3 DEF WsClose, CountsType
    <2>2. CASE WsBreak(c)
      BY <2>2 DEF WsBreak, CountsType
    <2> QED
      BY <2>1, <2>2
  <1>5. HandlersType' /\ AnswersType'
    BY <1>1 DEF HandlersType, AnswersType
  <1>6. KnowsSession' /\ CarriesWhatItShould' /\ DecodesAlone'
    BY <1>1, <1>2 DEF KnowsSession, CarriesWhatItShould, DecodesAlone
  <1> QED
    BY <1>2, <1>3, <1>4, <1>5, <1>6

LEMMA RestTranscribeInv ==
  ASSUME SttInv, NEW c \in Callers, NEW id \in SessionIds, NEW options \in Options,
         RestTranscribe(c, id, options)
  PROVE  SttInv'
  <1> USE DEF SttInv
  <1>1. UNCHANGED <<sessions, ws, engine, answers, settled, dropped, swallowed>>
    BY DEF RestTranscribe
  <1>2. NewChunk(c, id) \in Chunks
    BY NewChunkType DEF RestTranscribe
  <1>3. PICK w \in Works : work' = [work EXCEPT ![c] = w]
    <2> DEFINE o == [options EXCEPT !.language = IF @ = "" THEN ConfigLanguage ELSE @]
               w == [NoWork EXCEPT !.id = id, !.pcm = <<NewChunk(c, id)>>,
                                   !.asked = options, !.options = o]
    <2>1. <<NewChunk(c, id)>> \in Seq(Chunks)
      BY <1>2
    <2>2. o \in Options
      BY SessionsAssumption DEF Options
    <2> HIDE DEF o
    <2>3. w \in Works
      BY <2>1, <2>2, NoWorkType DEF NoWork, Works
    <2>4. work' = [work EXCEPT ![c] = w]
      BY DEF RestTranscribe, o
    <2> HIDE DEF w
    <2> QED
      BY <2>3, <2>4
  <1>4. PICK t \in {"Waiting", "Replying"} :
            thread[c] = "Idle" /\ thread' = [thread EXCEPT ![c] = t]
    BY DEF RestTranscribe, CanStart
  <1>5. SessionsType' /\ AnswersType' /\ CountsType'
    BY <1>1 DEF SessionsType, AnswersType, CountsType, RestTranscribe
  <1>6. WsType' /\ HandlersType' /\ KnowsSession' /\ CarriesWhatItShould'
    BY <1>1, <1>3, <1>4, HandlerStep DEF Busy, HandlersType
  <1>7. DecodesAlone'
    BY <1>1, <1>4, EngineStays DEF Decoders
  <1> QED
    BY <1>5, <1>6, <1>7

LEMMA AppendChunkInv ==
  ASSUME SttInv, NEW c \in Callers, AppendChunk(c)
  PROVE  SttInv'
  <1> USE DEF SttInv
  <1>1. UNCHANGED <<ws, engine, answers, sent, flushes, settled, dropped, swallowed>>
        /\ thread[c] = "Appending"
    BY DEF AppendChunk
  <1>2. work[c] \in Works /\ work[c].id \in SessionIds
    BY <1>1 DEF HandlersType, KnowsSession
  <1>3. SessionsType'
    <2> DEFINE state == StateOf(work[c].id)
               joined == [pcm     |-> Joined(state.pcm, work[c].pcm),
                          options |-> IF state.options.language = "" THEN DefaultOptions
                                      ELSE state.options]
    <2>1. state \in SessionStates
      BY StateOfType
    <2> HIDE DEF state
    <2>2. Joined(state.pcm, work[c].pcm) \in Seq(Chunks)
      <3>1. state.pcm \in Seq(Chunks) /\ work[c].pcm \in Seq(Chunks)
        BY <1>2, <2>1 DEF SessionStates, Works
      <3>2. state.pcm \o work[c].pcm \in Seq(Chunks)
        BY <3>1, ConcatProperties
      <3> QED
        BY <3>2 DEF Joined
    <2>3. joined \in SessionStates
      BY <2>1, <2>2, DefaultOptionsType DEF SessionStates
    <2>4. sessions' = WithSession(work[c].id, joined)
      BY DEF AppendChunk, state
    <2> HIDE DEF joined
    <2> QED
      BY <1>2, <2>3, <2>4, WithSessionType
  <1>4. PICK w \in Works : /\ work' = [work EXCEPT ![c] = w] /\ w.pcm = << >>
                           /\ work[c].flush => w.id \in SessionIds
    <2>1. CASE work[c].flush
      <3>1. [work[c] EXCEPT !.pcm = << >>] \in Works
        BY <1>2, EmptySeq DEF Works
      <3>2. [work[c] EXCEPT !.pcm = << >>].pcm = << >>
            /\ [work[c] EXCEPT !.pcm = << >>].id \in SessionIds
        BY <1>2 DEF Works
      <3>3. work' = [work EXCEPT ![c] = [work[c] EXCEPT !.pcm = << >>]]
        BY <2>1 DEF AppendChunk
      <3> QED
        BY <3>1, <3>2, <3>3
    <2>2. CASE ~ work[c].flush
      <3>1. work' = [work EXCEPT ![c] = NoWork]
        BY <2>2 DEF AppendChunk
      <3>2. NoWork.pcm = << >>
        BY DEF NoWork
      <3> QED
        BY <2>2, <3>1, <3>2, NoWorkType
    <2> QED
      BY <2>1, <2>2
  <1>5. PICK t \in {"Flushing", "Idle"} :
            thread' = [thread EXCEPT ![c] = t] /\ (t = "Flushing" => work[c].flush)
    BY DEF AppendChunk
  <1>6. AnswersType' /\ CountsType'
    BY <1>1 DEF AnswersType, CountsType
  <1>7. WsType' /\ HandlersType' /\ KnowsSession' /\ CarriesWhatItShould'
    BY <1>1, <1>4, <1>5, HandlerStep DEF Busy, HandlersType
  <1>8. DecodesAlone'
    BY <1>1, <1>5, EngineStays DEF Decoders
  <1> QED
    BY <1>3, <1>6, <1>7, <1>8

LEMMA TakeSessionInv ==
  ASSUME SttInv, NEW c \in Callers, TakeSession(c)
  PROVE  SttInv'
  <1> USE DEF SttInv
  <1>1. UNCHANGED <<ws, engine, answers, sent, flushes, dropped, swallowed>>
        /\ thread[c] = "Flushing"
    BY DEF TakeSession
  <1>2. work[c] \in Works
    BY DEF HandlersType
  <1>3. SessionsType'
    BY WithoutSessionType DEF TakeSession
  <1>4. PICK w \in Works : work' = [work EXCEPT ![c] = w]
    <2> DEFINE id == work[c].id
    <2>1. CASE id \in DOMAIN sessions
      <3> DEFINE o == MergedOptions(work[c].options, sessions[id].options)
                 w == [work[c] EXCEPT !.pcm = sessions[id].pcm, !.options = o]
      <3>1. sessions[id] \in SessionStates
        BY <2>1 DEF SessionsType
      <3>2. o \in Options
        BY <1>2, <3>1, MergedOptionsType DEF SessionStates, Works
      <3> HIDE DEF o
      <3>3. w \in Works
        BY <1>2, <3>1, <3>2 DEF SessionStates, Works
      <3>4. work' = [work EXCEPT ![c] = w]
        BY <2>1, <1>2 DEF TakeSession, HandlersType, Works, o
      <3> HIDE DEF w
      <3> QED
        BY <3>3, <3>4
    <2>2. CASE id \notin DOMAIN sessions
      <3>1. work' = [work EXCEPT ![c] = work[c]]
        BY <2>2 DEF TakeSession, HandlersType
      <3> QED
        BY <1>2, <3>1
    <2> QED
      BY <2>1, <2>2
  <1>5. PICK t \in {"Waiting", "Replying"} : thread' = [thread EXCEPT ![c] = t]
    BY DEF TakeSession
  <1>6. AnswersType' /\ CountsType'
    <2>1. work[c].id \in SessionIds
      BY <1>1 DEF KnowsSession
    <2>2. settled' = [settled EXCEPT ![c][work[c].id] = sent[c]]
      BY DEF TakeSession
    <2>3. sent[c] \in Nat /\ settled[c] \in [SessionIds -> Nat]
      BY DEF CountsType
    <2>4. settled' \in [Callers -> [SessionIds -> Nat]]
      BY <2>1, <2>2, <2>3 DEF CountsType
    <2> QED
      BY <1>1, <2>4 DEF AnswersType, CountsType
  <1>7. WsType' /\ HandlersType' /\ KnowsSession' /\ CarriesWhatItShould'
    BY <1>1, <1>4, <1>5, HandlerStep DEF Busy, HandlersType
  <1>8. DecodesAlone'
    BY <1>1, <1>5, EngineStays DEF Decoders
  <1> QED
    BY <1>3, <1>6, <1>7, <1>8

\* the engine is taken only when nobody has it
LEMMA AcquireEngineInv ==
  ASSUME SttInv, NEW c \in Callers, AcquireEngine(c)
  PROVE  SttInv'
  <1> USE DEF SttInv
  <1>1. UNCHANGED <<sessions, ws, work, answers, sent, flushes, settled, dropped, swallowed>>
    BY DEF AcquireEngine
  <1>2. SessionsType' /\ WsType' /\ AnswersType' /\ CountsType'
    BY <1>1 DEF SessionsType, WsType, AnswersType, CountsType
  <1>3. HandlersType' /\ KnowsSession' /\ CarriesWhatItShould'
    BY <1>1 DEF AcquireEngine, HandlersType, KnowsSession, CarriesWhatItShould, Busy
  <1>4. DecodesAlone'
    BY SessionsAssumption DEF AcquireEngine, DecodesAlone, HandlersType
  <1> QED
    BY <1>2, <1>3, <1>4

LEMMA DecodeInv ==
  ASSUME SttInv, NEW c \in Callers, Decode(c)
  PROVE  SttInv'
  <1> USE DEF SttInv
  <1>1. UNCHANGED <<sessions, ws, answers, sent, flushes, settled, dropped, swallowed>>
        /\ thread[c] = "Decoding"
    BY DEF Decode
  <1>2. work[c] \in Works
    BY DEF HandlersType
  <1>3. Attempts(FirstModel(work[c].options.model), HasSamples(c)) \subseteq Results
    BY AttemptsType DEF FirstModel, HasSamples
  <1>4. PICK result \in Results :
            /\ work' = [work EXCEPT ![c].result = result]
            /\ \/ thread' = [thread EXCEPT ![c] = "FallingBack"] /\ engine' = engine
               \/ thread' = [thread EXCEPT ![c] = "Replying"] /\ engine' = NoCaller
    BY <1>3 DEF Decode
  <1>5. [work[c] EXCEPT !.result = result] \in Works
        /\ work' = [work EXCEPT ![c] = [work[c] EXCEPT !.result = result]]
    BY <1>2, <1>4 DEF Works
  <1>6. SessionsType' /\ AnswersType' /\ CountsType'
    BY <1>1 DEF SessionsType, AnswersType, CountsType
  <1>7. WsType' /\ HandlersType' /\ KnowsSession' /\ CarriesWhatItShould'
    <2> DEFINE w == [work[c] EXCEPT !.result = result]
    <2>1. w \in Works /\ work' = [work EXCEPT ![c] = w]
      BY <1>5
    <2> HIDE DEF w
    <2>2. CASE thread' = [thread EXCEPT ![c] = "FallingBack"] /\ engine' = engine
      BY <1>1, <2>1, <2>2, HandlerStep DEF Busy, HandlersType
    <2>3. CASE thread' = [thread EXCEPT ![c] = "Replying"] /\ engine' = NoCaller
      BY <1>1, <2>1, <2>3, HandlerStep DEF Busy, HandlersType
    <2> QED
      BY <1>4, <2>2, <2>3
  <1>8. DecodesAlone'
    BY <1>1, <1>4, EngineStays, EngineReleased DEF Decoders
  <1> QED
    BY <1>6, <1>7, <1>8

LEMMA FallBackInv ==
  ASSUME SttInv, NEW c \in Callers, FallBack(c)
  PROVE  SttInv'
  <1> USE DEF SttInv
  <1>1. UNCHANGED <<sessions, ws, answers, sent, flushes, settled, dropped, swallowed>>
        /\ thread[c] = "FallingBack" /\ thread' = [thread EXCEPT ![c] = "Replying"]
        /\ engine' = NoCaller
    BY DEF FallBack
  <1>2. work[c] \in Works
    BY DEF HandlersType
  <1>3. Attempts("whisper", HasSamples(c)) \subseteq Results
    BY AttemptsType DEF HasSamples
  <1>4. PICK fallback \in Results :
            work' = [work EXCEPT ![c].result = Combined(@, fallback)]
    BY <1>3 DEF FallBack
  <1>5. Combined(work[c].result, fallback) \in Results
    BY <1>2, CombinedType DEF Works
  <1>6. PICK w \in Works : work' = [work EXCEPT ![c] = w]
    <2>1. [work[c] EXCEPT !.result = Combined(work[c].result, fallback)] \in Works
      BY <1>2, <1>5 DEF Works
    <2> QED
      BY <1>4, <2>1
  <1>7. SessionsType' /\ AnswersType' /\ CountsType'
    BY <1>1 DEF SessionsType, AnswersType, CountsType
  <1>8. WsType' /\ HandlersType' /\ KnowsSession' /\ CarriesWhatItShould'
    BY <1>1, <1>6, HandlerStep DEF Busy, HandlersType
  <1>9. DecodesAlone'
    BY <1>1, EngineReleased DEF Decoders
  <1> QED
    BY <1>7, <1>8, <1>9

\* the answer in which c is told a result
Answer(c, told) ==
    [pcm |-> work[c].pcm, asked |-> work[c].asked, options |-> work[c].options,
     result |-> told]

\* what a caller is told is a result, its own or a failure
LEMMA AnswerType ==
  ASSUME SttInv, NEW c \in Callers, NEW told \in Tellable(c)
  PROVE  /\ told \in Results
         /\ told = work[c].result \/ told.error
         /\ Answer(c, told) \in Answers /\ Answer(c, told).pcm = work[c].pcm
  <1>1. work[c] \in Works
    BY DEF SttInv, HandlersType
  <1>2. told \in Results
    BY <1>1, ResultsType DEF Tellable, Works
  <1>3. told = work[c].result \/ told.error
    BY DEF Tellable, Failure
  <1> QED
    BY <1>1, <1>2, <1>3 DEF Answer, Works, Answers

LEMMA ReplyInv ==
  ASSUME SttInv, NEW c \in Callers, Reply(c)
  PROVE  SttInv'
  <1> USE DEF SttInv
  <1>1. UNCHANGED <<sessions, ws, engine, sent, flushes, settled, dropped, swallowed>>
        /\ thread[c] = "Replying" /\ thread' = [thread EXCEPT ![c] = "Idle"]
        /\ work' = [work EXCEPT ![c] = NoWork]
    BY DEF Reply
  <1>2. AnswersType'
    <2>1. PICK told \in Tellable(c) :
              answers' = [answers EXCEPT ![c] = Append(@, Answer(c, told))]
      BY DEF Reply, Answer
    <2>2. Answer(c, told) \in Answers
      BY AnswerType
    <2> QED
      BY <2>1, <2>2 DEF AnswersType
  <1>3. SessionsType' /\ CountsType'
    BY <1>1 DEF SessionsType, CountsType
  <1>4. NoWork.pcm = << >>
    BY DEF NoWork
  <1>5. WsType' /\ HandlersType' /\ KnowsSession' /\ CarriesWhatItShould'
    BY <1>1, <1>4, NoWorkType, HandlerStep DEF HandlersType
  <1>6. DecodesAlone'
    BY <1>1, EngineStays DEF Decoders
  <1> QED
    BY <1>2, <1>3, <1>5, <1>6

\* a reply that is not written leaves the handler idle all the same
LEMMA SwallowInv ==
  ASSUME SttInv, NEW c \in Callers, SwallowReply(c)
  PROVE  SttInv'
  <1> USE DEF SttInv
  <1>1. UNCHANGED <<sessions, ws, engine, answers, sent, flushes, settled>>
        /\ thread[c] = "Replying" /\ thread' = [thread EXCEPT ![c] = "Idle"]
        /\ work' = [work EXCEPT ![c] = NoWork]
    BY DEF SwallowReply
  <1>2. SessionsType' /\ AnswersType'
    BY <1>1 DEF SessionsType, AnswersType
  <1>3. CountsType'
    <2>1. work[c].pcm \in Seq(Chunks)
      BY DEF HandlersType, Works
    <2>2. PcmRange(work[c].pcm) \subseteq Chunks
      BY <2>1 DEF PcmRange
    <2> QED
      BY <1>1, <2>2 DEF SwallowReply, CountsType
  <1>4. NoWork.pcm = << >>
    BY DEF NoWork
  <1>5. WsType' /\ HandlersType' /\ KnowsSession' /\ CarriesWhatItShould'
    BY <1>1, <1>4, NoWorkType, HandlerStep DEF HandlersType
  <1>6. DecodesAlone'
    BY <1>1, EngineStays DEF Decoders
  <1> QED
    BY <1>2, <1>3, <1>5, <1>6

\* a flush that could not be read is only counted
LEMMA UnreadInv ==
  ASSUME SttInv, NEW c \in WsConnections, WsFlushUnread(c)
  PROVE  SttInv'
  <1> USE DEF SttInv
  <1>1. UNCHANGED <<sessions, ws, thread, work, engine, answers, sent, settled, dropped>>
    BY DEF WsFlushUnread
  <1>2. CountsType'
    <2>1. c \in Callers
      BY DEF Callers
    <2> QED
      BY <1>1, <2>1 DEF WsFlushUnread, CountsType
  <1>3. SessionsType' /\ WsType' /\ HandlersType' /\ AnswersType'
    BY <1>1 DEF SessionsType, WsType, HandlersType, AnswersType
  <1>4. KnowsSession' /\ CarriesWhatItShould' /\ DecodesAlone'
    BY <1>1 DEF KnowsSession, CarriesWhatItShould, DecodesAlone
  <1> QED
    BY <1>2, <1>3, <1>4

\* what callers may name are options
LEMMA CallersOptions ==
  /\ \A model \in OfferedModels \cup {"auto", DefaultModel}, language \in Languages :
         [model |-> model, language |-> language] \in Options
  /\ ConfigLanguage \in Languages
  BY SessionsAssumption DEF Options, ModelChoices

LEMMA CalledInv ==
  ASSUME SttInv, Called
  PROVE  SttInv'
  <1>1. ASSUME NEW c \in WsConnections, NEW id \in SessionIds, WsHalfHandshake(c, id)
        PROVE  SttInv'
    BY <1>1, HandshakeInv
  <1>2. ASSUME NEW c \in WsConnections, NEW id \in SessionIds, NEW model \in OfferedModels,
               NEW language \in Languages,
               WsHandshake(c, id, [model |-> model, language |-> language])
        PROVE  SttInv'
    BY <1>2, CallersOptions, HandshakeInv
  <1>3. ASSUME NEW c \in WsConnections, WsChunk(c)
        PROVE  SttInv'
    <2>1. c \in Callers /\ ws[c].id \in SessionIds
      BY <1>3 DEF WsChunk, SttInv, KnowsSession, Callers
    <2>2. StartAppend(c, ws[c].id, FALSE, DefaultOptions)
      BY <1>3 DEF WsChunk
    <2> QED
      BY <2>1, <2>2, StartAppendInv, DefaultOptionsType
  <1>4. ASSUME NEW c \in WsConnections, NEW model \in OfferedModels \cup {"auto"},
               NEW language \in Languages,
               WsFlush(c, [model |-> model, language |-> language])
        PROVE  SttInv'
    <2>1. c \in Callers /\ ws[c].id \in SessionIds
      BY <1>4 DEF WsFlush, SttInv, KnowsSession, Callers
    <2>2. StartFlush(c, ws[c].id, [model |-> model, language |-> language])
      BY <1>4 DEF WsFlush
    <2> QED
      BY <2>1, <2>2, StartFlushInv, CallersOptions
  <1>5. ASSUME NEW c \in WsConnections, WsClose(c) \/ WsBreak(c)
        PROVE  SttInv'
    BY <1>5, EndInv
  <1>6. ASSUME NEW c \in GrpcCalls, NEW id \in SessionIds,
               NEW model \in OfferedModels \cup {DefaultModel}, NEW flush \in BOOLEAN,
               GrpcChunk(c, id, flush, model)
        PROVE  SttInv'
    <2>1. c \in Callers
      BY DEF Callers
    <2>2. StartAppend(c, id, flush, [model |-> model, language |-> ConfigLanguage])
      BY <1>6 DEF GrpcChunk
    <2> QED
      BY <2>1, <2>2, StartAppendInv, CallersOptions
  <1>7. ASSUME NEW c \in GrpcCalls, NEW id \in SessionIds,
               NEW model \in OfferedModels \cup {DefaultModel}, GrpcFlush(c, id, model)
        PROVE  SttInv'
    <2>1. c \in Callers
      BY DEF Callers
    <2>2. StartFlush(c, id, [model |-> model, language |-> ConfigLanguage])
      BY <1>7 DEF GrpcFlush
    <2> QED
      BY <2>1, <2>2, StartFlushInv, CallersOptions
  <1>8. ASSUME NEW c \in RestCalls, NEW id \in SessionIds, NEW model \in OfferedModels,
               NEW language \in Languages,
               RestTranscribe(c, id, [model |-> model, language |-> language])
        PROVE  SttInv'
    <2>1. c \in Callers
      BY DEF Callers
    <2> QED
      BY <1>8, <2>1, RestTranscribeInv, CallersOptions
  <1> QED
    BY <1>1, <1>2, <1>3, <1>4, <1>5, <1>6, <1>7, <1>8, UnreadInv DEF Called

LEMMA StepInv ==
  ASSUME SttInv, NEW c \in Callers, Step(c)
  PROVE  SttInv'
  BY AppendChunkInv, TakeSessionInv, AcquireEngineInv, DecodeInv, FallBackInv, ReplyInv,
     SwallowInv DEF Step

LEMMA NextInv == SttInv /\ [Next]_vars => SttInv'
  <1> SUFFICES ASSUME SttInv, [Next]_vars
               PROVE  SttInv'
    OBVIOUS
  <1>1. CASE UNCHANGED vars
    BY <1>1 DEF vars, SttInv, SessionsType, WsType, HandlersType, AnswersType, CountsType,
                KnowsSession, CarriesWhatItShould, DecodesAlone
  <1> QED
    BY <1>1, CalledInv, StepInv DEF Next

(***************************************************************************)
(* The theorems.                                                           *)
(***************************************************************************)

\* The inductive invariant holds: types, a handler that is about to append or
\* to flush knows its session and carries what it should, and the engine is
\* held by exactly the handler that decodes (src/src/stt/session_manager.cpp,
\* src/src/stt/engine.cpp).
THEOREM SttInvHolds == Spec => []SttInv
  <1>1. Init => SttInv
    BY InitInv
  <1>2. SttInv /\ [Next]_vars => SttInv'
    BY NextInv
  <1> QED
    BY <1>1, <1>2, PTL DEF Spec

\* Sessions, connections, handlers and answers keep their types, and a handler
\* that is done has let go of its audio (SttSessionManager and its callers).
THEOREM TypeCorrect == Spec => []TypeOK
  <1>1. SttInv => TypeOK
    BY TypeParts DEF SttInv
  <1> QED
    BY <1>1, SttInvHolds, PTL

\* For any number of callers of any kind, no two transcriptions are under way at
\* once, and nobody holds the engine who is not transcribing: the fallback of
\* "auto" keeps the lock, every other end of an attempt gives it back
\* (SttEngine::transcribe_pcm16).
THEOREM DecodesAloneCorrect == Spec => []DecodesAlone
  <1>1. SttInv => DecodesAlone
    BY DEF SttInv
  <1> QED
    BY <1>1, SttInvHolds, PTL
-----------------------------------------------------------------------------
(***************************************************************************)
(* SttSessions implements TranscriptDelivery: every step of a handler is   *)
(* one step of the promise or none.                                        *)
(***************************************************************************)


Took == {"Waiting", "Decoding", "FallingBack", "Replying"}

\* the mapping of Promise, by name
Waiting == [id \in SessionIds |-> StateOf(id).pcm]
Collected == [c \in Callers |-> IF thread[c] \in Took THEN <<work[c].pcm>> ELSE << >>]
Told == [c \in Callers |-> [k \in DOMAIN answers[c] |-> answers[c][k].pcm]]

PromiseVars == <<Waiting, Collected, Told>>

(***************************************************************************)
(* The steps of the promise, said of the mapping.                          *)
(***************************************************************************)

LEMMA Stutters ==
  ASSUME UNCHANGED PromiseVars
  PROVE  UNCHANGED Promise!vars
  BY DEF PromiseVars, Waiting, Collected, Told, Took, Promise!vars

LEMMA Says ==
  ASSUME NEW id \in SessionIds, NEW chunk \in Chunks,
         Waiting' = [Waiting EXCEPT ![id] = Append(@, chunk)],
         UNCHANGED <<Collected, Told>>
  PROVE  Promise!Next
  BY DEF Waiting, Collected, Told, Took, Promise!Next, Promise!Say

LEMMA Collects ==
  ASSUME NEW c \in Callers, NEW id \in SessionIds, Collected[c] = << >>,
         Collected' = [Collected EXCEPT ![c] = <<Waiting[id]>>],
         Waiting' = [Waiting EXCEPT ![id] = << >>], UNCHANGED Told
  PROVE  Promise!Next
  BY DEF Waiting, Collected, Told, Took, Promise!Next, Promise!Collect, Promise!Nothing

LEMMA Submits ==
  ASSUME NEW c \in Callers, NEW chunk \in Chunks, Collected[c] = << >>,
         Collected' = [Collected EXCEPT ![c] = << <<chunk>> >>],
         UNCHANGED <<Waiting, Told>>
  PROVE  Promise!Next
  BY DEF Waiting, Collected, Told, Took, Promise!Next, Promise!Submit, Promise!Nothing

LEMMA Tells ==
  ASSUME NEW c \in Callers, Collected[c] # << >>,
         Told' = [Told EXCEPT ![c] = Append(@, Collected[c][1])],
         Collected' = [Collected EXCEPT ![c] = << >>], UNCHANGED Waiting
  PROVE  Promise!Next
  BY DEF Waiting, Collected, Told, Took, Promise!Next, Promise!Tell, Promise!Nothing

LEMMA Misses ==
  ASSUME NEW c \in Callers, c \in WsConnections, Collected[c] # << >>,
         Collected' = [Collected EXCEPT ![c] = << >>], UNCHANGED <<Waiting, Told>>
  PROVE  Promise!Next
  BY DEF Waiting, Collected, Told, Took, Promise!Next, Promise!Miss, Promise!Nothing

LEMMA Withdraws ==
  ASSUME NEW id \in SessionIds, Waiting' = [Waiting EXCEPT ![id] = << >>],
         UNCHANGED <<Collected, Told>>
  PROVE  Promise!Next
  BY DEF Waiting, Collected, Told, Took, Promise!Next, Promise!Withdraw

(***************************************************************************)
(* What the parts of a step do to the mapping.                             *)
(***************************************************************************)

LEMMA WaitingWith ==
  ASSUME NEW id \in SessionIds, NEW state, sessions' = WithSession(id, state)
  PROVE  Waiting' = [Waiting EXCEPT ![id] = state.pcm]
  BY DEF Waiting, StateOf, WithSession

LEMMA WaitingWithout ==
  ASSUME NEW id \in SessionIds, sessions' = WithoutSession(id)
  PROVE  Waiting' = [Waiting EXCEPT ![id] = << >>]
  BY DEF Waiting, StateOf, WithoutSession, NewState

LEMMA WaitingStays ==
  ASSUME sessions' = sessions
  PROVE  Waiting' = Waiting
  BY DEF Waiting, StateOf

LEMMA ToldStays ==
  ASSUME answers' = answers
  PROVE  Told' = Told
  BY DEF Told

\* a handler that has not taken audio yet goes on
LEMMA CollectedBefore ==
  ASSUME HandlersType, NEW c \in Callers, NEW w, NEW t,
         work' = [work EXCEPT ![c] = w], thread' = [thread EXCEPT ![c] = t],
         thread[c] \notin Took, t \notin Took
  PROVE  Collected' = Collected
  BY DEF Collected, HandlersType

\* .. takes audio
LEMMA CollectedNow ==
  ASSUME HandlersType, NEW c \in Callers, NEW w, NEW t,
         work' = [work EXCEPT ![c] = w], thread' = [thread EXCEPT ![c] = t],
         thread[c] \notin Took, t \in Took
  PROVE  /\ Collected[c] = << >>
         /\ Collected' = [Collected EXCEPT ![c] = <<w.pcm>>]
  BY DEF Collected, HandlersType

\* .. goes on with the audio it has taken
LEMMA CollectedStill ==
  ASSUME HandlersType, NEW c \in Callers, NEW w, NEW t,
         work' = [work EXCEPT ![c] = w], thread' = [thread EXCEPT ![c] = t],
         thread[c] \in Took, t \in Took, w.pcm = work[c].pcm
  PROVE  Collected' = Collected
  BY DEF Collected, HandlersType

\* .. and lets go of it
LEMMA CollectedNoMore ==
  ASSUME HandlersType, NEW c \in Callers, NEW w, NEW t,
         work' = [work EXCEPT ![c] = w], thread' = [thread EXCEPT ![c] = t],
         thread[c] \in Took, t \notin Took
  PROVE  /\ Collected[c] = <<work[c].pcm>>
         /\ Collected' = [Collected EXCEPT ![c] = << >>]
  BY DEF Collected, HandlersType

\* the audio of an answer more
LEMMA ToldMore ==
  ASSUME NEW s \in Seq(Answers), NEW r \in Answers
  PROVE  [k \in DOMAIN Append(s, r) |-> Append(s, r)[k].pcm]
             = Append([k \in DOMAIN s |-> s[k].pcm], r.pcm)
  <1> DEFINE audio == [k \in 1 .. Len(s) |-> s[k].pcm]
             both == [k \in 1 .. Len(s) + 1 |-> IF k = Len(s) + 1 THEN r.pcm ELSE s[k].pcm]
  <1>1. DOMAIN s = 1 .. Len(s) /\ Len(s) \in Nat
    OBVIOUS
  <1>2. \A k \in 1 .. Len(s) : s[k].pcm \in Seq(Chunks)
    <2>1. \A k \in 1 .. Len(s) : s[k] \in Answers
      BY ElementOfSeq
    <2> QED
      BY <2>1 DEF Answers
  <1>3. audio \in Seq(Seq(Chunks)) /\ Len(audio) = Len(s)
    BY <1>1, <1>2
  <1>4. r.pcm \in Seq(Chunks)
    BY DEF Answers
  <1>5. Append(audio, r.pcm) = both
    <2>1. Append(audio, r.pcm) \in Seq(Seq(Chunks)) /\ Len(Append(audio, r.pcm)) = Len(s) + 1
      BY <1>3, <1>4, AppendProperties
    <2>2. Append(audio, r.pcm) = [k \in 1 .. Len(s) + 1 |-> Append(audio, r.pcm)[k]]
      BY <1>1, <2>1
    <2>3. \A k \in 1 .. Len(s) + 1 : Append(audio, r.pcm)[k] = both[k]
      BY <1>1, <1>3, <1>4, AppendProperties
    <2> QED
      BY <2>2, <2>3
  <1>6. [k \in DOMAIN Append(s, r) |-> Append(s, r)[k].pcm] = both
    <2>1. DOMAIN Append(s, r) = 1 .. Len(s) + 1
      BY <1>1, AppendProperties
    <2>2. \A k \in 1 .. Len(s) + 1 : Append(s, r)[k].pcm = both[k]
      BY <1>1, AppendProperties
    <2> QED
      BY <2>1, <2>2
  <1> QED
    BY <1>1, <1>5, <1>6

(***************************************************************************)
(* The initial states and every step.                                      *)
(***************************************************************************)

LEMMA InitMaps == Init => Promise!Init
  <1> SUFFICES ASSUME Init
               PROVE  Promise!Init
    OBVIOUS
  <1>1. \A S : DOMAIN << >> = {} /\ << >> \in Seq(S)
    BY EmptySeq
  <1>2. Waiting = [id \in SessionIds |-> << >>]
    BY <1>1 DEF Init, Waiting, StateOf, NewState
  <1>3. Collected = [c \in Callers |-> << >>]
    BY DEF Init, Collected, Took
  <1>4. Told = [c \in Callers |-> << >>]
    <2>1. ASSUME NEW c \in Callers
          PROVE  [k \in DOMAIN answers[c] |-> answers[c][k].pcm] = << >>
      <3> DEFINE audio == [k \in 1 .. 0 |-> answers[c][k].pcm]
      <3>1. DOMAIN answers[c] = 1 .. 0
        <4>1. answers[c] \in Seq({}) /\ Len(answers[c]) = 0
          BY EmptySeq DEF Init
        <4> QED
          BY <4>1
      <3>2. audio \in Seq({}) /\ Len(audio) = 0
        OBVIOUS
      <3>3. audio = << >>
        BY <3>2, EmptySeq
      <3> QED
        BY <3>1, <3>3
    <2> QED
      BY <2>1 DEF Told
  <1> QED
    BY <1>2, <1>3, <1>4
       DEF Promise!Init, Promise!Nothing, Waiting, Collected, Told, Took

\* a handler is called, and has not taken any audio
LEMMA StartMaps ==
  ASSUME SttInv, NEW c \in Callers, NEW w, NEW t \in {"Appending", "Flushing"},
         work' = [work EXCEPT ![c] = w], thread' = [thread EXCEPT ![c] = t],
         thread[c] = "Idle", UNCHANGED <<sessions, answers>>
  PROVE  UNCHANGED PromiseVars
  <1>1. thread[c] \notin Took /\ t \notin Took
    BY DEF Took
  <1> QED
    BY <1>1, CollectedBefore, WaitingStays, ToldStays DEF SttInv, PromiseVars

LEMMA StartFlushMaps ==
  ASSUME SttInv, NEW c \in Callers, NEW id, NEW options, StartFlush(c, id, options)
  PROVE  UNCHANGED PromiseVars
  <1>1. thread[c] = "Idle" /\ UNCHANGED <<sessions, answers>>
    BY DEF StartFlush, CanStart
  <1>2. PICK w : work' = [work EXCEPT ![c] = w]
    BY DEF StartFlush
  <1>3. thread' = [thread EXCEPT ![c] = "Flushing"]
    BY DEF StartFlush
  <1> QED
    BY <1>1, <1>2, <1>3, StartMaps

LEMMA StartAppendMaps ==
  ASSUME SttInv, NEW c \in Callers, NEW id, NEW flush, NEW options,
         StartAppend(c, id, flush, options)
  PROVE  UNCHANGED PromiseVars
  <1>1. thread[c] = "Idle" /\ UNCHANGED <<sessions, answers>>
    BY DEF StartAppend, CanStart
  <1>2. PICK w : work' = [work EXCEPT ![c] = w]
    BY DEF StartAppend
  <1>3. thread' = [thread EXCEPT ![c] = "Appending"]
    BY DEF StartAppend
  <1> QED
    BY <1>1, <1>2, <1>3, StartMaps

\* the options of a handshake are no audio
LEMMA HandshakeMaps ==
  ASSUME SttInv, NEW c \in WsConnections, NEW id \in SessionIds, NEW options,
         WsHandshake(c, id, options)
  PROVE  UNCHANGED PromiseVars
  <1>1. UNCHANGED <<thread, work, answers>>
    BY DEF WsHandshake
  <1>2. [StateOf(id) EXCEPT !.options = options].pcm = StateOf(id).pcm
    BY StateOfType DEF SttInv, SessionStates
  <1>3. sessions' = WithSession(id, [StateOf(id) EXCEPT !.options = options])
    BY DEF WsHandshake
  <1>4. Waiting' = [Waiting EXCEPT ![id] = StateOf(id).pcm]
    BY <1>2, <1>3, WaitingWith
  <1>5. Waiting' = Waiting
    BY <1>4 DEF Waiting
  <1>6. Collected' = Collected
    BY <1>1 DEF Collected
  <1> QED
    BY <1>1, <1>5, <1>6, ToldStays DEF PromiseVars

\* a connection that closes withdraws what waits in its session
LEMMA CloseMaps ==
  ASSUME SttInv, NEW c \in WsConnections, WsClose(c)
  PROVE  Promise!Next
  <1>1. ws[c].id \in SessionIds
    BY DEF WsClose, SttInv, KnowsSession
  <1>2. Waiting' = [Waiting EXCEPT ![ws[c].id] = << >>]
    BY <1>1, WaitingWithout DEF WsClose
  <1>3. UNCHANGED <<thread, work, answers>>
    BY DEF WsClose
  <1>4. Collected' = Collected
    BY <1>3 DEF Collected
  <1> QED
    BY <1>1, <1>2, <1>3, <1>4, ToldStays, Withdraws

\* a REST transcription submits its chunk
LEMMA RestTranscribeMaps ==
  ASSUME SttInv, NEW c \in Callers, NEW id \in SessionIds, NEW options,
         RestTranscribe(c, id, options)
  PROVE  Promise!Next
  <1>1. NewChunk(c, id) \in Chunks
    BY NewChunkType DEF RestTranscribe, SttInv
  <1>2. PICK w : work' = [work EXCEPT ![c] = w] /\ w.pcm = <<NewChunk(c, id)>>
    <2> DEFINE w == [NoWork EXCEPT !.id = id, !.pcm = <<NewChunk(c, id)>>, !.asked = options,
                         !.options = [options EXCEPT !.language =
                                         IF @ = "" THEN ConfigLanguage ELSE @]]
    <2>1. work' = [work EXCEPT ![c] = w]
      BY DEF RestTranscribe
    <2>2. w.pcm = <<NewChunk(c, id)>>
      BY DEF NoWork
    <2> HIDE DEF w
    <2> QED
      BY <2>1, <2>2
  <1>3. PICK t \in Took : thread' = [thread EXCEPT ![c] = t]
    BY DEF RestTranscribe, Took
  <1>4. thread[c] \notin Took /\ UNCHANGED <<sessions, answers>>
    BY DEF RestTranscribe, CanStart, Took
  <1>5. Collected[c] = << >> /\ Collected' = [Collected EXCEPT ![c] = <<w.pcm>>]
    BY <1>2, <1>3, <1>4, CollectedNow DEF SttInv
  <1> QED
    BY <1>1, <1>2, <1>4, <1>5, WaitingStays, ToldStays, Submits

\* an append says its chunk
LEMMA AppendChunkMaps ==
  ASSUME SttInv, NEW c \in Callers, AppendChunk(c)
  PROVE  Promise!Next
  <1> DEFINE id == work[c].id
  <1>1. PICK chunk \in Chunks : work[c].pcm = <<chunk>>
    BY DEF AppendChunk, SttInv, CarriesWhatItShould
  <1>2. id \in SessionIds
    BY DEF AppendChunk, SttInv, KnowsSession
  <1>3. StateOf(id).pcm \in Seq(Chunks)
    BY StateOfType DEF SttInv, SessionStates
  <1>4. Joined(StateOf(id).pcm, work[c].pcm) = Append(StateOf(id).pcm, chunk)
    BY <1>1, <1>3, AppendIsConcat DEF Joined
  <1>5. Waiting' = [Waiting EXCEPT ![id] = Joined(StateOf(id).pcm, work[c].pcm)]
    <2> DEFINE joined == [pcm     |-> Joined(StateOf(id).pcm, work[c].pcm),
                          options |-> IF StateOf(id).options.language = ""
                                      THEN DefaultOptions ELSE StateOf(id).options]
    <2>1. sessions' = WithSession(id, joined)
      BY DEF AppendChunk
    <2>2. joined.pcm = Joined(StateOf(id).pcm, work[c].pcm)
      OBVIOUS
    <2> HIDE DEF joined
    <2> QED
      BY <1>2, <2>1, <2>2, WaitingWith
  <1>6. Waiting' = [Waiting EXCEPT ![id] = Append(@, chunk)]
    BY <1>2, <1>4, <1>5 DEF Waiting
  <1>7. PICK w : work' = [work EXCEPT ![c] = w]
    BY DEF AppendChunk
  <1>8. PICK t \in {"Flushing", "Idle"} : thread' = [thread EXCEPT ![c] = t]
    BY DEF AppendChunk
  <1>9. Collected' = Collected
    <2>1. thread[c] \notin Took /\ t \notin Took
      BY DEF AppendChunk, Took
    <2> QED
      BY <1>7, <1>8, <2>1, CollectedBefore DEF SttInv
  <1>10. Told' = Told
    BY ToldStays DEF AppendChunk
  <1> QED
    BY <1>2, <1>6, <1>9, <1>10, Says

\* a flush collects what waits, nothing from a session that is unknown
LEMMA TakeSessionMaps ==
  ASSUME SttInv, NEW c \in Callers, TakeSession(c)
  PROVE  Promise!Next
  <1> DEFINE id == work[c].id
  <1>1. id \in SessionIds /\ thread[c] = "Flushing" /\ work[c].pcm = << >>
    BY DEF TakeSession, SttInv, KnowsSession, CarriesWhatItShould
  <1>2. Waiting' = [Waiting EXCEPT ![id] = << >>]
    BY <1>1, WaitingWithout DEF TakeSession
  <1>3. PICK w : work' = [work EXCEPT ![c] = w] /\ w.pcm = Waiting[id]
    <2>1. CASE id \in DOMAIN sessions
      <3> DEFINE w == [work[c] EXCEPT
                          !.pcm = sessions[id].pcm,
                          !.options = MergedOptions(work[c].options, sessions[id].options)]
      <3>1. work[c] \in Works
        BY DEF SttInv, HandlersType
      <3>2. work' = [work EXCEPT ![c] = w]
        BY <2>1, <3>1 DEF TakeSession, SttInv, HandlersType, Works
      <3>3. w.pcm = Waiting[id]
        BY <1>1, <2>1, <3>1 DEF Waiting, StateOf, Works
      <3> HIDE DEF w
      <3> QED
        BY <3>2, <3>3
    <2>2. CASE id \notin DOMAIN sessions
      <3>1. work' = [work EXCEPT ![c] = work[c]]
        BY <2>2 DEF TakeSession, SttInv, HandlersType
      <3>2. Waiting[id] = << >>
        BY <1>1, <2>2 DEF Waiting, StateOf, NewState
      <3> QED
        BY <1>1, <3>1, <3>2
    <2> QED
      BY <2>1, <2>2
  <1>4. PICK t \in Took : thread' = [thread EXCEPT ![c] = t]
    BY DEF TakeSession, Took
  <1>5. Collected[c] = << >> /\ Collected' = [Collected EXCEPT ![c] = <<Waiting[id]>>]
    <2>1. thread[c] \notin Took
      BY <1>1 DEF Took
    <2>2. HandlersType
      BY DEF SttInv
    <2>3. Collected[c] = << >> /\ Collected' = [Collected EXCEPT ![c] = <<w.pcm>>]
      BY <1>3, <1>4, <2>1, <2>2, CollectedNow
    <2> QED
      BY <1>3, <2>3
  <1>6. Told' = Told
    BY ToldStays DEF TakeSession
  <1> QED
    BY <1>1, <1>2, <1>5, <1>6, Collects

\* the engine changes nothing of the audio
LEMMA EngineMaps ==
  ASSUME SttInv, NEW c \in Callers, AcquireEngine(c) \/ Decode(c) \/ FallBack(c)
  PROVE  UNCHANGED PromiseVars
  <1>1. work[c] \in Works
    BY DEF SttInv, HandlersType
  <1>2. UNCHANGED <<sessions, answers>> /\ thread[c] \in Took
    BY DEF AcquireEngine, Decode, FallBack, Took
  <1>3. PICK t \in Took : thread' = [thread EXCEPT ![c] = t]
    BY DEF AcquireEngine, Decode, FallBack, Took
  <1>4. PICK w : work' = [work EXCEPT ![c] = w] /\ w.pcm = work[c].pcm
    <2>1. CASE AcquireEngine(c)
      <3>1. work' = [work EXCEPT ![c] = work[c]]
        BY <2>1 DEF AcquireEngine, SttInv, HandlersType
      <3> QED
        BY <3>1
    <2>2. CASE Decode(c) \/ FallBack(c)
      <3>1. PICK result : work' = [work EXCEPT ![c].result = result]
        BY <2>2 DEF Decode, FallBack
      <3>2. work' = [work EXCEPT ![c] = [work[c] EXCEPT !.result = result]]
        BY <3>1
      <3>3. [work[c] EXCEPT !.result = result].pcm = work[c].pcm
        BY <1>1 DEF Works
      <3> QED
        BY <3>2, <3>3
    <2> QED
      BY <2>1, <2>2
  <1>5. Collected' = Collected
    BY <1>2, <1>3, <1>4, CollectedStill DEF SttInv
  <1> QED
    BY <1>2, <1>5, WaitingStays, ToldStays DEF PromiseVars

\* a reply tells the caller what was collected for it
LEMMA ReplyMaps ==
  ASSUME SttInv, NEW c \in Callers, Reply(c)
  PROVE  Promise!Next
  <1>1. thread[c] \in Took /\ "Idle" \notin Took
    BY DEF Reply, Took
  <1>2. work' = [work EXCEPT ![c] = NoWork] /\ thread' = [thread EXCEPT ![c] = "Idle"]
        /\ sessions' = sessions
    BY DEF Reply
  <1>3. Collected[c] = <<work[c].pcm>> /\ Collected' = [Collected EXCEPT ![c] = << >>]
    BY <1>1, <1>2, CollectedNoMore DEF SttInv
  <1>4. Told' = [Told EXCEPT ![c] = Append(@, work[c].pcm)]
    <2>1. PICK r \in Answers : /\ r.pcm = work[c].pcm
                               /\ answers' = [answers EXCEPT ![c] = Append(@, r)]
      BY AnswerType DEF Reply, Answer
    <2>2. answers' = [answers EXCEPT ![c] = Append(@, r)]
      BY <2>1
    <2>3. answers \in [Callers -> Seq(Answers)]
      BY DEF SttInv, AnswersType
    <2>4. [k \in DOMAIN Append(answers[c], r) |-> Append(answers[c], r)[k].pcm]
              = Append([k \in DOMAIN answers[c] |-> answers[c][k].pcm], r.pcm)
      BY <2>1, <2>3, ToldMore
    <2> QED
      BY <2>1, <2>2, <2>3, <2>4 DEF Told
  <1>5. Waiting' = Waiting
    BY <1>2, WaitingStays
  <1>6. Collected[c] # << >> /\ Collected[c][1] = work[c].pcm
    BY <1>3
  <1>7. Told' = [Told EXCEPT ![c] = Append(@, Collected[c][1])]
    BY <1>4, <1>6
  <1> QED
    BY <1>3, <1>5, <1>6, <1>7, Tells

\* a reply that is not written misses its caller
LEMMA SwallowMaps ==
  ASSUME SttInv, NEW c \in Callers, SwallowReply(c)
  PROVE  Promise!Next
  <1>1. thread[c] \in Took /\ "Idle" \notin Took /\ c \in WsConnections
    BY DEF SwallowReply, Took
  <1>2. work' = [work EXCEPT ![c] = NoWork] /\ thread' = [thread EXCEPT ![c] = "Idle"]
        /\ sessions' = sessions /\ answers' = answers
    BY DEF SwallowReply
  <1>3. Collected[c] = <<work[c].pcm>> /\ Collected' = [Collected EXCEPT ![c] = << >>]
    BY <1>1, <1>2, CollectedNoMore DEF SttInv
  <1>4. Waiting' = Waiting /\ Told' = Told
    BY <1>2, WaitingStays, ToldStays
  <1>5. Collected[c] # << >>
    BY <1>3
  <1> QED
    BY <1>1, <1>3, <1>4, <1>5, Misses

LEMMA CalledMaps ==
  ASSUME SttInv, Called
  PROVE  Promise!Next \/ UNCHANGED Promise!vars
  <1>1. ASSUME NEW c \in Callers, NEW id, NEW options, StartFlush(c, id, options)
        PROVE  UNCHANGED Promise!vars
    BY <1>1, StartFlushMaps, Stutters
  <1>2. ASSUME NEW c \in Callers, NEW id, NEW flush, NEW options,
               StartAppend(c, id, flush, options)
        PROVE  UNCHANGED Promise!vars
    BY <1>2, StartAppendMaps, Stutters
  <1>3. ASSUME NEW c \in WsConnections, NEW id \in SessionIds, NEW options,
               WsHandshake(c, id, options)
        PROVE  UNCHANGED Promise!vars
    BY <1>3, HandshakeMaps, Stutters
  <1>4. ASSUME NEW c \in WsConnections, NEW id,
               WsHalfHandshake(c, id) \/ WsBreak(c) \/ WsFlushUnread(c)
        PROVE  UNCHANGED Promise!vars
    <2>1. UNCHANGED <<sessions, thread, work, answers>>
      BY <1>4 DEF WsHalfHandshake, WsBreak, WsFlushUnread
    <2>2. Collected' = Collected
      BY <2>1 DEF Collected
    <2> QED
      BY <2>1, <2>2, WaitingStays, ToldStays, Stutters DEF PromiseVars
  <1> QED
    BY <1>1, <1>2, <1>3, <1>4, CloseMaps, RestTranscribeMaps
       DEF Called, WsChunk, WsFlush, GrpcChunk, GrpcFlush, Callers

LEMMA NextMaps == SttInv /\ [Next]_vars => [Promise!Next]_(Promise!vars)
  <1> SUFFICES ASSUME SttInv, [Next]_vars
               PROVE  Promise!Next \/ UNCHANGED Promise!vars
    OBVIOUS
  <1>1. CASE UNCHANGED vars
    <2>1. UNCHANGED <<sessions, thread, work, answers>>
      BY <1>1 DEF vars
    <2>2. Collected' = Collected
      BY <2>1 DEF Collected
    <2> QED
      BY <2>1, <2>2, WaitingStays, ToldStays, Stutters DEF PromiseVars
  <1>2. CASE \E c \in Callers : Step(c)
    BY <1>2, AppendChunkMaps, TakeSessionMaps, EngineMaps, ReplyMaps, SwallowMaps, Stutters
       DEF Step
  <1> QED
    BY <1>1, <1>2, CalledMaps DEF Next

\* For any callers of any kind, the sessions keep the promise: audio said into a
\* session waits there in order, a flush collects all of it at once and exactly
\* once, and the caller that flushed is told whole what it collected, or, over a
\* WebSocket, may miss it whole, although flush lets go of the lock before it
\* transcribes (SttSessionManager::flush).
THEOREM PromiseKept == Spec => KeepsThePromise
  <1>1. Init => Promise!Init
    BY InitMaps
  <1>2. SttInv /\ [Next]_vars => [Promise!Next]_(Promise!vars)
    BY NextMaps
  <1> QED
    BY <1>1, <1>2, SttInvHolds, PTL DEF Spec, KeepsThePromise, Promise!Spec
-----------------------------------------------------------------------------
(***************************************************************************)
(* What becomes of the audio.  Wherever it is, a session, a handler or an  *)
(* answer, the audio is one function from places to sequences of chunks; a *)
(* step of a handler adds a chunk to it, takes one stretch to the end of   *)
(* another, or drops one.                                                  *)
(***************************************************************************)


Numbers == Nat \ {0}

InSession(id) == <<"session", id>>
InHandler(c) == <<"handler", c>>
InAnswer(c, k) == <<"answer", c, k>>

AllPlaces ==
    {InSession(id) : id \in SessionIds} \cup {InHandler(c) : c \in Callers}
        \cup {InAnswer(c, k) : c \in Callers, k \in Numbers}

(***************************************************************************)
(* Audio A, of which s counts the chunks of every caller and d are those   *)
(* that were dropped.                                                      *)
(***************************************************************************)

AudioType(A) == A \in [AllPlaces -> Seq(Chunks)]

\* no chunk is in two places, or twice in one
Single(A) ==
    \A p, q \in AllPlaces : \A i \in 1 .. Len(A[p]), j \in 1 .. Len(A[q]) :
        A[p][i].from = A[q][j].from /\ A[p][i].n = A[q][j].n => p = q /\ i = j

\* no chunk is from the future
Counted(A, s) ==
    \A p \in AllPlaces : \A i \in 1 .. Len(A[p]) : A[p][i].n <= s[A[p][i].from]

Ordered(A) ==
    \A p \in AllPlaces : \A i, j \in 1 .. Len(A[p]) :
        i < j /\ A[p][i].from = A[p][j].from => A[p][i].n < A[p][j].n

Kept(A, s, d) ==
    \A c \in Callers : \A n \in 1 .. s[c] :
        \/ \E chunk \in d : chunk.from = c /\ chunk.n = n
        \/ \E p \in AllPlaces : \E i \in 1 .. Len(A[p]) : A[p][i].from = c /\ A[p][i].n = n

AudioOk(A, s, d) ==
    /\ AudioType(A) /\ Single(A) /\ Counted(A, s) /\ Ordered(A) /\ Kept(A, s, d)

\* nothing has changed but at P
AudioAgrees(A, B, P) == \A r \in AllPlaces \ P : B[r] = A[r]

LEMMA ChunkAt ==
  ASSUME NEW A, AudioType(A), NEW p \in AllPlaces
  PROVE  /\ Len(A[p]) \in Nat /\ A[p] \in Seq(Chunks)
         /\ \A i \in 1 .. Len(A[p]) :
                A[p][i] \in Chunks /\ A[p][i].from \in Callers /\ A[p][i].n \in Nat
  <1>1. A[p] \in Seq(Chunks)
    BY DEF AudioType
  <1>2. \A i \in 1 .. Len(A[p]) : A[p][i] \in Chunks
    BY <1>1
  <1>3. MaxChunks \in Nat
    BY SessionsAssumption
  <1> QED
    BY <1>1, <1>2, <1>3 DEF Chunks

\* A stretch is taken from p to the end of q: each of its chunks to an index
\* that it alone has.
TakenTo(A, p, q, B) ==
    /\ AudioType(B) /\ Len(B[p]) = 0
    /\ Len(B[q]) = Len(A[q]) + Len(A[p])
    /\ \A i \in 1 .. Len(A[q]) : B[q][i] = A[q][i]
    /\ \A i \in Len(A[q]) + 1 .. Len(A[q]) + Len(A[p]) : B[q][i] = A[p][i - Len(A[q])]
    /\ \A r \in AllPlaces \ {p, q} : B[r] = A[r]

LEMMA Concatenated ==
  ASSUME NEW A, AudioType(A), NEW p \in AllPlaces, NEW q \in AllPlaces,
         NEW B, AudioType(B), B[p] = << >>, B[q] = A[q] \o A[p],
         AudioAgrees(A, B, {p, q})
  PROVE  TakenTo(A, p, q, B)
  <1>1. A[p] \in Seq(Chunks) /\ A[q] \in Seq(Chunks)
    BY ChunkAt
  <1>2. /\ Len(B[q]) = Len(A[q]) + Len(A[p])
        /\ \A i \in 1 .. Len(A[q]) : B[q][i] = A[q][i]
        /\ \A i \in Len(A[q]) + 1 .. Len(A[q]) + Len(A[p]) : B[q][i] = A[p][i - Len(A[q])]
    <2> DEFINE u == A[q]
               v == A[p]
               w == B[q]
    <2>1. u \in Seq(Chunks) /\ v \in Seq(Chunks) /\ w = u \o v
      BY <1>1
    <2> HIDE DEF u, v, w
    <2>2. /\ Len(w) = Len(u) + Len(v)
          /\ \A i \in 1 .. Len(u) : w[i] = u[i]
          /\ \A i \in Len(u) + 1 .. Len(u) + Len(v) : w[i] = v[i - Len(u)]
      BY <2>1
    <2> QED
      BY <2>2 DEF u, v, w
  <1>3. Len(B[p]) = 0
    OBVIOUS
  <1> QED
    BY <1>2, <1>3 DEF TakenTo, AudioAgrees

LEMMA Indices ==
  ASSUME NEW m \in Nat, NEW n \in Nat, NEW i \in Nat
  PROVE  /\ i \in 1 .. m + n => \/ i <= m /\ i \in 1 .. m
                                \/ i > m /\ i \in m + 1 .. m + n /\ i - m \in 1 .. n
         /\ i \in 1 .. m => i \in 1 .. m + n
         /\ i \in 1 .. n => /\ m + i \in 1 .. m + n /\ m + i \in m + 1 .. m + n
                           /\ (m + i) - m = i
         /\ ~ (i <= m /\ i > m)
  OBVIOUS

LEMMA Taken ==
  ASSUME NEW A, NEW s, NEW d, AudioOk(A, s, d),
         NEW p \in AllPlaces, NEW q \in AllPlaces, p # q,
         \A i \in 1 .. Len(A[q]), j \in 1 .. Len(A[p]) :
             A[q][i].from = A[p][j].from => A[q][i].n < A[p][j].n,
         NEW B, TakenTo(A, p, q, B)
  PROVE  AudioOk(B, s, d)
  <1>0. PICK m \in Nat, n \in Nat : m = Len(A[q]) /\ n = Len(A[p])
    BY ChunkAt DEF AudioOk
  <1> DEFINE Place(r, i) == IF r = q /\ i > m THEN p ELSE r
             Index(r, i) == IF r = q /\ i > m THEN i - m ELSE i
  <1>1. m \in Nat /\ n \in Nat /\ m = Len(A[q]) /\ n = Len(A[p])
    BY <1>0
  <1>2. Len(B[q]) = m + n /\ Len(B[p]) = 0
    BY <1>0 DEF TakenTo
  <1>3. \A i \in 1 .. m : B[q][i] = A[q][i]
    BY <1>0 DEF TakenTo
  <1>4. \A i \in m + 1 .. m + n : B[q][i] = A[p][i - m]
    BY <1>0 DEF TakenTo
  <1>5. \A r \in AllPlaces \ {p, q} : B[r] = A[r]
    BY DEF TakenTo
  <1>6. ASSUME NEW r \in AllPlaces, NEW i \in 1 .. Len(B[r])
        PROVE  r # p /\ i \in Nat /\ (r = q => i \in 1 .. m + n)
    <2>1. AudioType(B)
      BY DEF TakenTo
    <2>2. Len(B[r]) \in Nat
      BY <2>1, ChunkAt
    <2>3. r # p
      BY <1>2, <1>6
    <2>4. r = q => i \in 1 .. m + n
      BY <1>2, <1>6
    <2> QED
      BY <2>2, <2>3, <2>4
  <1>7. ASSUME NEW r \in AllPlaces, NEW i \in 1 .. Len(B[r])
        PROVE  /\ Place(r, i) \in AllPlaces
               /\ Index(r, i) \in 1 .. Len(A[Place(r, i)])
               /\ B[r][i] = A[Place(r, i)][Index(r, i)]
    <2>1. CASE r = q /\ i <= m
      <3>1. i \in 1 .. m /\ ~ (i > m)
        BY <1>1, <1>6, <2>1
      <3> QED
        BY <1>1, <1>3, <2>1, <3>1
    <2>2. CASE r = q /\ i > m
      <3>1. i \in m + 1 .. m + n /\ i - m \in 1 .. n
        BY <1>1, <1>6, <2>2, Indices
      <3> QED
        BY <1>1, <1>4, <2>2, <3>1
    <2>3. CASE r # q
      <3>1. B[r] = A[r]
        BY <1>5, <1>6, <2>3
      <3> QED
        BY <2>3, <3>1
    <2>4. r = q => i <= m \/ i > m
      BY <1>1, <1>6
    <2> QED
      BY <2>1, <2>2, <2>3, <2>4
  <1>8. ASSUME NEW r \in AllPlaces, NEW i \in 1 .. Len(B[r]),
               NEW t \in AllPlaces, NEW j \in 1 .. Len(B[t]),
               Place(r, i) = Place(t, j), Index(r, i) = Index(t, j)
        PROVE  r = t /\ i = j
    <2>1. r # p /\ t # p /\ i \in Nat /\ j \in Nat
      BY <1>6
    <2> QED
      BY <1>1, <1>8, <2>1
  <1> HIDE DEF Place, Index
  <1>9. Single(B)
    <2>1. ASSUME NEW r \in AllPlaces, NEW i \in 1 .. Len(B[r]),
                 NEW t \in AllPlaces, NEW j \in 1 .. Len(B[t]),
                 B[r][i].from = B[t][j].from, B[r][i].n = B[t][j].n
          PROVE  r = t /\ i = j
      <3>1. /\ Place(r, i) \in AllPlaces /\ Index(r, i) \in 1 .. Len(A[Place(r, i)])
            /\ B[r][i] = A[Place(r, i)][Index(r, i)]
        BY <1>7
      <3>2. /\ Place(t, j) \in AllPlaces /\ Index(t, j) \in 1 .. Len(A[Place(t, j)])
            /\ B[t][j] = A[Place(t, j)][Index(t, j)]
        BY <1>7
      <3>3. Place(r, i) = Place(t, j) /\ Index(r, i) = Index(t, j)
        BY <2>1, <3>1, <3>2 DEF Single, AudioOk
      <3> QED
        BY <1>8, <3>3
    <2> QED
      BY <2>1 DEF Single
  <1>10. Counted(B, s)
    BY <1>7 DEF Counted, AudioOk
  <1>11. Ordered(B)
    <2>1. ASSUME NEW r \in AllPlaces, NEW i \in 1 .. Len(B[r]), NEW j \in 1 .. Len(B[r]),
                 i < j, B[r][i].from = B[r][j].from
          PROVE  B[r][i].n < B[r][j].n
      <3>0. r # p /\ i \in Nat /\ j \in Nat /\ (r = q => i \in 1 .. m + n /\ j \in 1 .. m + n)
        BY <1>6
      <3>1. CASE r # q
        <4>1. B[r] = A[r]
          BY <1>5, <3>0, <3>1
        <4> QED
          BY <2>1, <4>1 DEF Ordered, AudioOk
      <3>2. CASE r = q /\ j <= m
        <4>1. i \in 1 .. m /\ j \in 1 .. m
          BY <1>1, <2>1, <3>0, <3>2
        <4>2. B[r][i] = A[q][i] /\ B[r][j] = A[q][j]
          BY <1>3, <3>2, <4>1
        <4> QED
          BY <1>1, <2>1, <4>1, <4>2 DEF Ordered, AudioOk
      <3>3. CASE r = q /\ i <= m /\ j > m
        <4>1. i \in 1 .. m /\ j \in m + 1 .. m + n /\ j - m \in 1 .. n
          BY <1>1, <3>0, <3>3, Indices
        <4>2. B[r][i] = A[q][i] /\ B[r][j] = A[p][j - m]
          BY <1>3, <1>4, <3>3, <4>1
        <4> QED
          BY <1>1, <2>1, <4>1, <4>2
      <3>4. CASE r = q /\ i > m
        <4>0. j > m /\ i - m < j - m
          BY <1>1, <2>1, <3>0, <3>4
        <4>1. /\ i \in m + 1 .. m + n /\ j \in m + 1 .. m + n
              /\ i - m \in 1 .. n /\ j - m \in 1 .. n
          BY <1>1, <3>0, <3>4, <4>0, Indices
        <4>2. B[r][i] = A[p][i - m] /\ B[r][j] = A[p][j - m]
          BY <1>4, <3>4, <4>1
        <4> QED
          BY <1>1, <2>1, <4>0, <4>1, <4>2 DEF Ordered, AudioOk
      <3> QED
        BY <1>1, <3>0, <3>1, <3>2, <3>3, <3>4
    <2> QED
      BY <2>1 DEF Ordered
  <1>12. ASSUME NEW r \in AllPlaces, NEW i \in 1 .. Len(A[r])
         PROVE  \E t \in AllPlaces : \E j \in 1 .. Len(B[t]) : B[t][j] = A[r][i]
    <2>1. CASE r = p
      <3>1. i \in 1 .. n /\ i \in Nat
        BY <1>1, <2>1
      <3>2. m + i \in 1 .. m + n /\ m + i \in m + 1 .. m + n /\ (m + i) - m = i
        BY <1>1, <3>1, Indices
      <3>3. B[q][m + i] = A[p][i]
        BY <1>4, <3>2
      <3> QED
        BY <1>2, <2>1, <3>2, <3>3
    <2>2. CASE r = q
      <3>1. i \in 1 .. m /\ i \in Nat
        BY <1>1, <2>2
      <3>2. i \in 1 .. m + n
        BY <1>1, <3>1, Indices
      <3> QED
        BY <1>2, <1>3, <2>2, <3>1, <3>2
    <2>3. CASE r # p /\ r # q
      <3>1. B[r] = A[r]
        BY <1>5, <2>3
      <3> QED
        BY <3>1
    <2> QED
      BY <2>1, <2>2, <2>3
  <1>13. Kept(B, s, d)
    <2>1. ASSUME NEW c \in Callers, NEW k \in 1 .. s[c],
                 NEW r \in AllPlaces, NEW i \in 1 .. Len(A[r]), A[r][i].from = c, A[r][i].n = k
          PROVE  \E t \in AllPlaces : \E j \in 1 .. Len(B[t]) : B[t][j].from = c /\ B[t][j].n = k
      BY <1>12, <2>1
    <2> QED
      BY <2>1 DEF Kept, AudioOk
  <1>14. AudioType(B)
    BY DEF TakenTo
  <1> QED
    BY <1>9, <1>10, <1>11, <1>13, <1>14 DEF AudioOk

\* A chunk more, where there was nothing: it is the newest of its caller.
LEMMA Spoken ==
  ASSUME NEW A, NEW s \in [Callers -> Nat], NEW d, AudioOk(A, s, d),
         NEW p \in AllPlaces, Len(A[p]) = 0,
         NEW c \in Callers, NEW chunk \in Chunks, chunk.from = c, chunk.n = s[c] + 1,
         NEW B, AudioType(B), Len(B[p]) = 1, B[p][1] = chunk,
         AudioAgrees(A, B, {p}),
         NEW t, t = [s EXCEPT ![c] = @ + 1]
  PROVE  AudioOk(B, t, d)
  <1>0. \A r \in AllPlaces \ {p} : B[r] = A[r]
    BY DEF AudioAgrees
  <1>1. s[c] \in Nat /\ t[c] = s[c] + 1 /\ \A e \in Callers : s[e] \in Nat /\ s[e] <= t[e]
    OBVIOUS
  <1>2. ASSUME NEW r \in AllPlaces, NEW i \in 1 .. Len(B[r])
        PROVE  \/ r = p /\ i = 1 /\ B[r][i] = chunk
               \/ /\ r # p /\ B[r] = A[r] /\ i \in 1 .. Len(A[r]) /\ i \in Nat
                  /\ B[r][i].from \in Callers /\ B[r][i].n \in Nat
                  /\ B[r][i].n <= s[B[r][i].from]
    <2>1. CASE r = p
      <3>1. i \in 1 .. 1
        BY <2>1
      <3>2. i = 1
        BY <3>1
      <3> QED
        BY <2>1, <3>2
    <2>2. CASE r # p
      <3>1. B[r] = A[r]
        BY <1>0, <2>2
      <3>2. AudioType(A)
        BY DEF AudioOk
      <3>3. Len(A[r]) \in Nat /\ i \in 1 .. Len(A[r])
        BY <3>1, <3>2, ChunkAt
      <3>4. A[r][i].from \in Callers /\ A[r][i].n \in Nat
        BY <3>2, <3>3, ChunkAt
      <3>5. A[r][i].n <= s[A[r][i].from]
        BY <3>3 DEF AudioOk, Counted
      <3> QED
        BY <2>2, <3>1, <3>3, <3>4, <3>5
    <2> QED
      BY <2>1, <2>2
  <1>3. Single(B)
    <2>1. ASSUME NEW r \in AllPlaces, NEW i \in 1 .. Len(B[r]),
                 NEW u \in AllPlaces, NEW j \in 1 .. Len(B[u]),
                 B[r][i].from = B[u][j].from, B[r][i].n = B[u][j].n
          PROVE  r = u /\ i = j
      <3>1. CASE r = p /\ u = p
        BY <1>2, <3>1
      <3>2. CASE r = p /\ u # p
        BY <1>1, <1>2, <2>1, <3>2
      <3>3. CASE r # p /\ u = p
        BY <1>1, <1>2, <2>1, <3>3
      <3>4. CASE r # p /\ u # p
        <4>1. /\ B[r] = A[r] /\ i \in 1 .. Len(A[r])
              /\ B[u] = A[u] /\ j \in 1 .. Len(A[u])
          BY <1>2, <3>4
        <4> QED
          BY <2>1, <4>1 DEF AudioOk, Single
      <3> QED
        BY <3>1, <3>2, <3>3, <3>4
    <2> QED
      BY <2>1 DEF Single
  <1>4. Counted(B, t)
    <2>1. ASSUME NEW r \in AllPlaces, NEW i \in 1 .. Len(B[r])
          PROVE  B[r][i].n <= t[B[r][i].from]
      <3>1. CASE r = p
        BY <1>1, <1>2, <3>1
      <3>2. CASE r # p
        <4>1. PICK e \in Callers : e = B[r][i].from /\ B[r][i].n \in Nat /\ B[r][i].n <= s[e]
          BY <1>2, <3>2
        <4>2. s[e] \in Nat /\ t[e] \in Nat /\ s[e] <= t[e]
          BY <1>1
        <4> QED
          BY <4>1, <4>2
      <3> QED
        BY <3>1, <3>2
    <2> QED
      BY <2>1 DEF Counted
  <1>5. Ordered(B)
    <2>1. ASSUME NEW r \in AllPlaces, NEW i \in 1 .. Len(B[r]), NEW j \in 1 .. Len(B[r]),
                 i < j, B[r][i].from = B[r][j].from
          PROVE  B[r][i].n < B[r][j].n
      <3>1. r # p
        BY <1>2, <2>1
      <3>2. B[r] = A[r]
        BY <1>0, <3>1
      <3> QED
        BY <2>1, <3>2 DEF AudioOk, Ordered
    <2> QED
      BY <2>1 DEF Ordered
  <1>6. Kept(B, t, d)
    <2>1. ASSUME NEW e \in Callers, NEW n \in 1 .. t[e]
          PROVE  \/ \E x \in d : x.from = e /\ x.n = n
                 \/ \E r \in AllPlaces : \E i \in 1 .. Len(B[r]) : B[r][i].from = e /\ B[r][i].n = n
      <3>1. CASE e = c /\ n = s[c] + 1
        <4>1. 1 \in 1 .. Len(B[p])
          OBVIOUS
        <4> QED
          BY <3>1, <4>1
      <3>2. CASE n \in 1 .. s[e]
        <4>1. CASE \E x \in d : x.from = e /\ x.n = n
          BY <4>1
        <4>2. CASE \E r \in AllPlaces : \E i \in 1 .. Len(A[r]) : A[r][i].from = e /\ A[r][i].n = n
          <5>1. PICK r \in AllPlaces : \E i \in 1 .. Len(A[r]) : A[r][i].from = e /\ A[r][i].n = n
            BY <4>2
          <5>2. r # p
            BY <5>1
          <5>3. B[r] = A[r]
            BY <1>0, <5>2
          <5> QED
            BY <5>1, <5>3
        <4> QED
          BY <3>2, <4>1, <4>2 DEF AudioOk, Kept
      <3>3. n \in 1 .. s[e] \/ (e = c /\ n = s[c] + 1)
        BY <1>1, <2>1
      <3> QED
        BY <3>1, <3>2, <3>3
    <2> QED
      BY <2>1 DEF Kept
  <1> QED
    BY <1>3, <1>4, <1>5, <1>6 DEF AudioOk

\* A stretch that is dropped.
LEMMA DroppedAt ==
  ASSUME NEW A, NEW s, NEW d, AudioOk(A, s, d), NEW p \in AllPlaces,
         NEW B, AudioType(B), Len(B[p]) = 0, AudioAgrees(A, B, {p}),
         NEW e, d \subseteq e, \A i \in 1 .. Len(A[p]) : A[p][i] \in e
  PROVE  AudioOk(B, s, e)
  <1>1. ASSUME NEW r \in AllPlaces, NEW i \in 1 .. Len(B[r])
        PROVE  B[r] = A[r] /\ i \in 1 .. Len(A[r])
    BY <1>1 DEF AudioAgrees
  <1>2. Single(B)
    BY <1>1 DEF AudioOk, Single
  <1>3. Counted(B, s) /\ Ordered(B)
    BY <1>1 DEF AudioOk, Counted, Ordered
  <1>4. Kept(B, s, e)
    <2>1. ASSUME NEW c \in Callers, NEW n \in 1 .. s[c],
                 NEW r \in AllPlaces, NEW i \in 1 .. Len(A[r]), A[r][i].from = c, A[r][i].n = n
          PROVE  \/ \E x \in e : x.from = c /\ x.n = n
                 \/ \E u \in AllPlaces : \E j \in 1 .. Len(B[u]) : B[u][j].from = c /\ B[u][j].n = n
      <3>1. CASE r = p
        BY <2>1, <3>1
      <3>2. CASE r # p
        BY <2>1, <3>2 DEF AudioAgrees
      <3> QED
        BY <3>1, <3>2
    <2> QED
      BY <2>1 DEF AudioOk, Kept
  <1> QED
    BY <1>2, <1>3, <1>4 DEF AudioOk

(***************************************************************************)
(* The audio of a state.                                                   *)
(***************************************************************************)

SessionPcm(ss, id) == IF id \in DOMAIN ss THEN ss[id].pcm ELSE << >>

HandlerPcm(w, c) == w[c].pcm

AnswerPcm(as, c, k) == IF k \in DOMAIN as[c] THEN as[c][k].pcm ELSE << >>

AudioOf(ss, w, as) ==
    [p \in AllPlaces |->
        CASE p[1] = "session" -> SessionPcm(ss, p[2])
          [] p[1] = "handler" -> HandlerPcm(w, p[2])
          [] OTHER -> AnswerPcm(as, p[2], p[3])]

Audio == AudioOf(sessions, work, answers)

LEMMA AudioInSession ==
  ASSUME NEW ss, NEW w, NEW as, NEW id \in SessionIds
  PROVE  /\ InSession(id) \in AllPlaces
         /\ AudioOf(ss, w, as)[InSession(id)] = SessionPcm(ss, id)
  <1>1. InSession(id) \in AllPlaces
    BY DEF AllPlaces
  <1> QED
    BY <1>1 DEF AudioOf, InSession

LEMMA AudioInHandler ==
  ASSUME NEW ss, NEW w, NEW as, NEW c \in Callers
  PROVE  /\ InHandler(c) \in AllPlaces
         /\ AudioOf(ss, w, as)[InHandler(c)] = HandlerPcm(w, c)
  <1>1. InHandler(c) \in AllPlaces
    BY DEF AllPlaces
  <1> QED
    BY <1>1 DEF AudioOf, InHandler

LEMMA AudioInAnswer ==
  ASSUME NEW ss, NEW w, NEW as, NEW c \in Callers, NEW k \in Numbers
  PROVE  /\ InAnswer(c, k) \in AllPlaces
         /\ AudioOf(ss, w, as)[InAnswer(c, k)] = AnswerPcm(as, c, k)
  <1>1. InAnswer(c, k) \in AllPlaces
    BY DEF AllPlaces
  <1> QED
    BY <1>1 DEF AudioOf, InAnswer

LEMMA PlaceOfAKind ==
  ASSUME NEW p \in AllPlaces
  PROVE  \/ \E id \in SessionIds : p = InSession(id)
         \/ \E c \in Callers : p = InHandler(c)
         \/ \E c \in Callers : \E k \in Numbers : p = InAnswer(c, k)
  BY DEF AllPlaces

(***************************************************************************)
(* Two states whose audio is the same but for the places P.                *)
(***************************************************************************)

SessionsAgree(ss, st, P) ==
    \A id \in SessionIds : InSession(id) \in P \/ SessionPcm(ss, id) = SessionPcm(st, id)

HandlersAgree(w, x, P) ==
    \A c \in Callers : InHandler(c) \in P \/ HandlerPcm(w, c) = HandlerPcm(x, c)

AnswersAgree(as, bs, P) ==
    \A c \in Callers : \A k \in Numbers :
        InAnswer(c, k) \in P \/ AnswerPcm(as, c, k) = AnswerPcm(bs, c, k)

LEMMA StatesAgree ==
  ASSUME NEW ss, NEW w, NEW as, NEW st, NEW x, NEW bs, NEW P,
         SessionsAgree(ss, st, P), HandlersAgree(w, x, P), AnswersAgree(as, bs, P)
  PROVE  AudioAgrees(AudioOf(ss, w, as), AudioOf(st, x, bs), P)
  <1> USE DEF SessionsAgree, HandlersAgree, AnswersAgree, AudioAgrees
  <1> SUFFICES ASSUME NEW r \in AllPlaces, r \notin P
               PROVE  AudioOf(st, x, bs)[r] = AudioOf(ss, w, as)[r]
    OBVIOUS
  <1>1. CASE \E id \in SessionIds : r = InSession(id)
    <2>1. PICK id \in SessionIds : r = InSession(id)
      BY <1>1
    <2>2. SessionPcm(ss, id) = SessionPcm(st, id)
      BY <2>1
    <2> QED
      BY <2>1, <2>2, AudioInSession
  <1>2. CASE \E c \in Callers : r = InHandler(c)
    <2>1. PICK c \in Callers : r = InHandler(c)
      BY <1>2
    <2>2. HandlerPcm(w, c) = HandlerPcm(x, c)
      BY <2>1
    <2>3. /\ AudioOf(ss, w, as)[InHandler(c)] = HandlerPcm(w, c)
          /\ AudioOf(st, x, bs)[InHandler(c)] = HandlerPcm(x, c)
      BY <2>1, AudioInHandler
    <2> QED
      BY <2>1, <2>2, <2>3
  <1>3. CASE \E c \in Callers : \E k \in Numbers : r = InAnswer(c, k)
    <2>1. PICK c \in Callers, k \in Numbers : r = InAnswer(c, k)
      BY <1>3
    <2>2. AnswerPcm(as, c, k) = AnswerPcm(bs, c, k)
      BY <2>1
    <2>3. AudioOf(ss, w, as)[InAnswer(c, k)] = AnswerPcm(as, c, k)
      BY <2>1 DEF AudioOf, InAnswer
    <2>4. AudioOf(st, x, bs)[InAnswer(c, k)] = AnswerPcm(bs, c, k)
      BY <2>1 DEF AudioOf, InAnswer
    <2> QED
      BY <2>1, <2>2, <2>3, <2>4
  <1> QED
    BY <1>1, <1>2, <1>3, PlaceOfAKind

LEMMA NothingChanged ==
  ASSUME NEW A, NEW s, NEW d, AudioOk(A, s, d), NEW B, AudioType(B), AudioAgrees(A, B, {})
  PROVE  AudioOk(B, s, d)
  <1>1. \A r \in AllPlaces : B[r] = A[r]
    BY DEF AudioAgrees
  <1>2. A = B
    BY <1>1 DEF AudioOk, AudioType
  <1> QED
    BY <1>2

LEMMA AudioIsTyped ==
  ASSUME NEW ss, NEW w \in [Callers -> Works], NEW as \in [Callers -> Seq(Answers)],
         \A id \in DOMAIN ss : ss[id] \in SessionStates
  PROVE  AudioType(AudioOf(ss, w, as))
  <1>1. ASSUME NEW id
        PROVE  SessionPcm(ss, id) \in Seq(Chunks)
    BY EmptySeq DEF SessionPcm, SessionStates
  <1>2. ASSUME NEW c \in Callers
        PROVE  HandlerPcm(w, c) \in Seq(Chunks)
    BY DEF HandlerPcm, Works
  <1>3. ASSUME NEW c \in Callers, NEW k
        PROVE  AnswerPcm(as, c, k) \in Seq(Chunks)
    <2>1. CASE k \in DOMAIN as[c]
      <3>1. as[c] \in Seq(Answers)
        OBVIOUS
      <3>2. k \in 1 .. Len(as[c])
        BY <2>1, <3>1, LenProperties
      <3>3. as[c][k] \in Answers
        BY <3>1, <3>2, ElementOfSeq
      <3> QED
        BY <2>1, <3>3 DEF AnswerPcm, Answers
    <2>2. CASE k \notin DOMAIN as[c]
      BY <2>2, EmptySeq DEF AnswerPcm
    <2> QED
      BY <2>1, <2>2
  <1>4. ASSUME NEW r \in AllPlaces
        PROVE  AudioOf(ss, w, as)[r] \in Seq(Chunks)
    <2>1. CASE \E id \in SessionIds : r = InSession(id)
      <3>1. PICK id \in SessionIds : r = InSession(id)
        BY <2>1
      <3> QED
        BY <1>1, <3>1, AudioInSession
    <2>2. CASE \E c \in Callers : r = InHandler(c)
      <3>1. PICK c \in Callers : r = InHandler(c)
        BY <2>2
      <3>2. AudioOf(ss, w, as)[InHandler(c)] = HandlerPcm(w, c)
        BY <3>1, AudioInHandler
      <3> QED
        BY <1>2, <3>1, <3>2
    <2>3. CASE \E c \in Callers : \E k \in Numbers : r = InAnswer(c, k)
      <3>1. PICK c \in Callers, k \in Numbers : r = InAnswer(c, k)
        BY <2>3
      <3>2. AudioOf(ss, w, as)[InAnswer(c, k)] = AnswerPcm(as, c, k)
        BY <3>1 DEF AudioOf, InAnswer
      <3> QED
        BY <1>3, <3>1, <3>2
    <2> QED
      BY <2>1, <2>2, <2>3, PlaceOfAKind
  <1>5. AudioOf(ss, w, as) = [r \in AllPlaces |-> AudioOf(ss, w, as)[r]]
    BY DEF AudioOf
  <1> QED
    BY <1>4, <1>5 DEF AudioType

(***************************************************************************)
(* What the steps do to the audio.                                         *)
(***************************************************************************)

AudioInv == AudioOk(Audio, sent, dropped)

NextAudio == AudioOf(sessions', work', answers')

LEMMA AudioInvNext == AudioOk(NextAudio, sent', dropped') => AudioInv'
  BY DEF AudioInv, Audio, NextAudio

LEMMA AudioTyped ==
  ASSUME SttInv, SttInv'
  PROVE  AudioType(Audio) /\ AudioType(NextAudio)
  <1>1. AudioType(AudioOf(sessions, work, answers))
    <2>1. /\ work \in [Callers -> Works] /\ answers \in [Callers -> Seq(Answers)]
          /\ \A id \in DOMAIN sessions : sessions[id] \in SessionStates
      BY DEF SttInv, SessionsType, HandlersType, AnswersType
    <2> QED
      BY <2>1, AudioIsTyped
  <1>2. AudioType(AudioOf(sessions', work', answers'))
    <2>1. /\ work' \in [Callers -> Works] /\ answers' \in [Callers -> Seq(Answers)]
          /\ \A id \in DOMAIN sessions' : sessions'[id] \in SessionStates
      BY DEF SttInv, SessionsType, HandlersType, AnswersType
    <2> QED
      BY <2>1, AudioIsTyped
  <1> QED
    BY <1>1, <1>2 DEF Audio, NextAudio

LEMMA PlacesDiffer ==
  ASSUME NEW id, NEW c, NEW e, NEW k
  PROVE  InSession(id) # InHandler(c) /\ InHandler(c) # InAnswer(e, k)
  BY DEF InSession, InHandler, InAnswer

LEMMA PlacesOfStates ==
  /\ \A id \in SessionIds : InSession(id) \in AllPlaces
  /\ \A c \in Callers : InHandler(c) \in AllPlaces
  /\ \A c \in Callers : \A k \in Numbers : InAnswer(c, k) \in AllPlaces
  BY DEF AllPlaces

\* the audio of a step that changes only what is at P
LEMMA StepAgrees ==
  ASSUME NEW P, SessionsAgree(sessions, sessions', P), HandlersAgree(work, work', P),
         AnswersAgree(answers, answers', P)
  PROVE  AudioAgrees(Audio, NextAudio, P)
  BY StatesAgree DEF Audio, NextAudio

LEMMA AgreeStays ==
  ASSUME NEW P
  PROVE  /\ sessions' = sessions => SessionsAgree(sessions, sessions', P)
         /\ work' = work => HandlersAgree(work, work', P)
         /\ answers' = answers => AnswersAgree(answers, answers', P)
  BY DEF SessionsAgree, HandlersAgree, AnswersAgree

LEMMA HandlerMoves ==
  ASSUME SttInv, NEW c \in Callers, NEW w, work' = [work EXCEPT ![c] = w],
         NEW P, InHandler(c) \in P \/ w.pcm = work[c].pcm
  PROVE  HandlersAgree(work, work', P)
  <1>1. work \in [Callers -> Works]
    BY DEF SttInv, HandlersType
  <1>2. ASSUME NEW e \in Callers, InHandler(e) \notin P
        PROVE  HandlerPcm(work, e) = HandlerPcm(work', e)
    <2>1. CASE e = c
      BY <1>1, <1>2, <2>1 DEF HandlerPcm
    <2>2. CASE e # c
      BY <1>1, <2>2 DEF HandlerPcm
    <2> QED
      BY <2>1, <2>2
  <1> QED
    BY <1>2 DEF HandlersAgree

LEMMA QuietStep ==
  ASSUME SttInv, SttInv', AudioInv,
         SessionsAgree(sessions, sessions', {}), HandlersAgree(work, work', {}),
         UNCHANGED <<answers, sent, dropped>>
  PROVE  AudioInv'
  <1>1. AudioAgrees(Audio, NextAudio, {})
    <2> DEFINE P == {}
    <2>1. SessionsAgree(sessions, sessions', P) /\ HandlersAgree(work, work', P)
      OBVIOUS
    <2>2. AnswersAgree(answers, answers', P)
      <3> HIDE DEF P
      <3> QED
        BY AgreeStays
    <2>3. AudioAgrees(Audio, NextAudio, P)
      <3> HIDE DEF P
      <3> QED
        BY <2>1, <2>2, StepAgrees
    <2> QED
      BY <2>3
  <1>2. AudioOk(NextAudio, sent, dropped)
    BY <1>1, AudioTyped, NothingChanged DEF AudioInv
  <1> QED
    BY <1>2, AudioInvNext

LEMMA AudioHere ==
  /\ \A id \in SessionIds : /\ Audio[InSession(id)] = SessionPcm(sessions, id)
                            /\ NextAudio[InSession(id)] = SessionPcm(sessions', id)
  /\ \A c \in Callers : /\ Audio[InHandler(c)] = HandlerPcm(work, c)
                        /\ NextAudio[InHandler(c)] = HandlerPcm(work', c)
  /\ \A c \in Callers : \A k \in Numbers :
         /\ Audio[InAnswer(c, k)] = AnswerPcm(answers, c, k)
         /\ NextAudio[InAnswer(c, k)] = AnswerPcm(answers', c, k)
  <1>1. ASSUME NEW id \in SessionIds
        PROVE  /\ Audio[InSession(id)] = SessionPcm(sessions, id)
               /\ NextAudio[InSession(id)] = SessionPcm(sessions', id)
    BY PlacesOfStates DEF Audio, NextAudio, AudioOf, InSession
  <1>2. ASSUME NEW c \in Callers
        PROVE  /\ Audio[InHandler(c)] = HandlerPcm(work, c)
               /\ NextAudio[InHandler(c)] = HandlerPcm(work', c)
    BY PlacesOfStates DEF Audio, NextAudio, AudioOf, InHandler
  <1>3. ASSUME NEW c \in Callers, NEW k \in Numbers
        PROVE  /\ Audio[InAnswer(c, k)] = AnswerPcm(answers, c, k)
               /\ NextAudio[InAnswer(c, k)] = AnswerPcm(answers', c, k)
    BY PlacesOfStates DEF Audio, NextAudio, AudioOf, InAnswer
  <1> QED
    BY <1>1, <1>2, <1>3

\* a handler is called with a chunk
LEMMA SpokenStep ==
  ASSUME SttInv, SttInv', AudioInv, NEW c \in Callers, work[c].pcm = << >>,
         NEW id \in SessionIds, sent[c] < MaxChunks,
         NEW w, work' = [work EXCEPT ![c] = w], w.pcm = <<NewChunk(c, id)>>,
         sent' = [sent EXCEPT ![c] = @ + 1], UNCHANGED <<sessions, answers, dropped>>
  PROVE  AudioInv'
  <1> DEFINE p == InHandler(c)
             chunk == NewChunk(c, id)
  <1>1. chunk \in Chunks /\ chunk.from = c /\ chunk.n = sent[c] + 1
    BY NewChunkType DEF NewChunk, SttInv
  <1>2. sent \in [Callers -> Nat] /\ work \in [Callers -> Works]
    BY DEF SttInv, CountsType, HandlersType
  <1>3. p \in AllPlaces /\ Audio[p] = HandlerPcm(work, c) /\ NextAudio[p] = HandlerPcm(work', c)
    BY PlacesOfStates, AudioHere
  <1>4. Len(Audio[p]) = 0
    BY <1>3 DEF HandlerPcm
  <1>5. NextAudio[p] = <<chunk>>
    BY <1>2, <1>3 DEF HandlerPcm
  <1>6. AudioAgrees(Audio, NextAudio, {p})
    <2> DEFINE P == {p}
    <2>1. InHandler(c) \in P
      OBVIOUS
    <2> HIDE DEF P
    <2>2. HandlersAgree(work, work', P)
      BY <2>1, HandlerMoves
    <2>3. AudioAgrees(Audio, NextAudio, P)
      BY <2>2, AgreeStays, StepAgrees
    <2> QED
      BY <2>3 DEF P
  <1> HIDE DEF chunk, p
  <1>7. Len(NextAudio[p]) = 1 /\ NextAudio[p][1] = chunk
    BY <1>5
  <1>8. AudioOk(NextAudio, sent', dropped)
    <2>1. AudioType(NextAudio) /\ AudioOk(Audio, sent, dropped)
      BY AudioTyped DEF AudioInv
    <2> QED
      BY <1>1, <1>2, <1>3, <1>4, <1>6, <1>7, <2>1, Spoken
  <1> QED
    BY <1>8, AudioInvNext

\* a stretch moves to where there was nothing
LEMMA MovedStep ==
  ASSUME SttInv, SttInv', AudioInv,
         NEW p \in AllPlaces, NEW q \in AllPlaces, p # q,
         Audio[q] = << >>, NextAudio[p] = << >>, NextAudio[q] = Audio[p],
         AudioAgrees(Audio, NextAudio, {p, q}), UNCHANGED <<sent, dropped>>
  PROVE  AudioInv'
  <1>1. AudioType(Audio) /\ AudioType(NextAudio)
    BY AudioTyped
  <1>2. Audio[p] \in Seq(Chunks) /\ Audio[q] \in Seq(Chunks)
    BY <1>1, ChunkAt
  <1>3. NextAudio[q] = Audio[q] \o Audio[p]
    <2> DEFINE u == Audio[p]
    <2>1. u \in Seq(Chunks) /\ << >> \o u = u
      <3>1. u \in Seq(Chunks)
        BY <1>2
      <3> HIDE DEF u
      <3> QED
        BY <3>1, ConcatEmptySeq
    <2> HIDE DEF u
    <2>2. Audio[p] = u
      BY DEF u
    <2> QED
      BY <2>1, <2>2
  <1>4. TakenTo(Audio, p, q, NextAudio)
    BY <1>1, <1>3, Concatenated
  <1>5. \A i \in 1 .. Len(Audio[q]), j \in 1 .. Len(Audio[p]) :
            Audio[q][i].from = Audio[p][j].from => Audio[q][i].n < Audio[p][j].n
    <2>1. Len(Audio[q]) = 0
      OBVIOUS
    <2> QED
      BY <2>1
  <1>6. AudioOk(NextAudio, sent, dropped)
    BY <1>4, <1>5, Taken DEF AudioInv
  <1> QED
    BY <1>6, AudioInvNext

\* what a handler is about to append is the last chunk its caller sent
CarriesTheLast ==
    \A c \in Callers : thread[c] = "Appending" =>
        \E chunk \in Chunks : work[c].pcm = <<chunk>> /\ chunk.from = c /\ chunk.n = sent[c]

LEMMA AppendStep ==
  ASSUME SttInv, SttInv', AudioInv, CarriesTheLast, NEW c \in Callers, AppendChunk(c)
  PROVE  AudioInv'
  <1>1. thread[c] = "Appending" /\ UNCHANGED <<answers, sent, dropped>>
    BY DEF AppendChunk
  <1>2. PICK chunk \in Chunks : work[c].pcm = <<chunk>> /\ chunk.from = c /\ chunk.n = sent[c]
    BY <1>1 DEF CarriesTheLast
  <1>3. PICK id \in SessionIds : id = work[c].id
    BY <1>1 DEF SttInv, KnowsSession
  <1> DEFINE p == InHandler(c)
             q == InSession(id)
  <1>4. /\ p \in AllPlaces /\ Audio[p] = HandlerPcm(work, c)
        /\ NextAudio[p] = HandlerPcm(work', c)
        /\ q \in AllPlaces /\ Audio[q] = SessionPcm(sessions, id)
        /\ NextAudio[q] = SessionPcm(sessions', id) /\ p # q
    BY <1>3, PlacesOfStates, AudioHere, PlacesDiffer
  <1>5. work \in [Callers -> Works]
    BY DEF SttInv, HandlersType
  <1>6. PICK w : work' = [work EXCEPT ![c] = w] /\ w.pcm = << >>
    <2> DEFINE w == IF work[c].flush THEN [work[c] EXCEPT !.pcm = << >>] ELSE NoWork
    <2>1. work' = [work EXCEPT ![c] = w]
      BY DEF AppendChunk
    <2>2. w.pcm = << >>
      BY <1>5 DEF Works, NoWork
    <2> QED
      BY <2>1, <2>2
  <1>7. NextAudio[p] = << >>
    BY <1>4, <1>5, <1>6 DEF HandlerPcm
  <1>8. NextAudio[q] = Audio[q] \o Audio[p]
    <2>1. SessionPcm(sessions', id) = StateOf(id).pcm \o work[c].pcm
      BY <1>3 DEF AppendChunk, SessionPcm, WithSession, Joined
    <2>2. StateOf(id).pcm = SessionPcm(sessions, id)
      BY DEF StateOf, SessionPcm, NewState
    <2> QED
      BY <1>4, <2>1, <2>2 DEF HandlerPcm
  <1>9. AudioAgrees(Audio, NextAudio, {p, q})
    <2> DEFINE P == {p, q}
    <2>1. InHandler(c) \in P /\ InSession(id) \in P
      OBVIOUS
    <2> HIDE DEF P
    <2>2. HandlersAgree(work, work', P)
      BY <1>6, <2>1, HandlerMoves
    <2>3. SessionsAgree(sessions, sessions', P)
      <3>1. ASSUME NEW i \in SessionIds, i # id
            PROVE  SessionPcm(sessions, i) = SessionPcm(sessions', i)
        BY <1>3, <3>1 DEF AppendChunk, SessionPcm, WithSession
      <3> QED
        BY <2>1, <3>1 DEF SessionsAgree
    <2>4. AudioAgrees(Audio, NextAudio, P)
      BY <1>1, <2>2, <2>3, AgreeStays, StepAgrees
    <2> QED
      BY <2>4 DEF P
  <1> HIDE DEF p, q
  <1>10. AudioType(Audio) /\ AudioType(NextAudio)
    BY AudioTyped
  <1>11. TakenTo(Audio, p, q, NextAudio)
    BY <1>4, <1>7, <1>8, <1>9, <1>10, Concatenated
  <1>12. Audio[p] = <<chunk>>
    BY <1>2, <1>4 DEF HandlerPcm
  <1>13. Len(Audio[p]) = 1 /\ Audio[p][1] = chunk /\ 1 \in 1 .. Len(Audio[p])
    BY <1>12
  <1>14. ASSUME NEW i \in 1 .. Len(Audio[q]), NEW j \in 1 .. Len(Audio[p]),
                Audio[q][i].from = Audio[p][j].from
         PROVE  Audio[q][i].n < Audio[p][j].n
    <2>1. j \in 1 .. 1
      BY <1>13
    <2>2. j = 1 /\ Audio[p][j] = chunk
      BY <1>13, <2>1
    <2>3. Audio[q][i].n \in Nat /\ Audio[q][i].n <= sent[c]
      BY <1>2, <1>4, <1>10, <1>14, <2>2, ChunkAt DEF AudioInv, AudioOk, Counted
    <2>4. Audio[q][i].n # chunk.n
      <3>1. Single(Audio)
        BY DEF AudioInv, AudioOk
      <3>2. p \in AllPlaces /\ q \in AllPlaces /\ p # q
        BY <1>4
      <3>3. Audio[q][i].from = Audio[p][1].from /\ 1 \in 1 .. Len(Audio[p])
        BY <1>13, <1>14, <2>2
      <3>4. Audio[q][i].n # Audio[p][1].n
        BY <3>1, <3>2, <3>3 DEF Single
      <3> QED
        BY <1>13, <3>4
    <2>5. sent[c] \in Nat
      BY DEF SttInv, CountsType
    <2> QED
      BY <1>2, <2>2, <2>3, <2>4, <2>5
  <1>15. AudioOk(NextAudio, sent, dropped)
    BY <1>4, <1>11, <1>14, Taken DEF AudioInv
  <1> QED
    BY <1>1, <1>15, AudioInvNext

LEMMA WithoutAgrees ==
  ASSUME NEW id, sessions' = WithoutSession(id), NEW P, InSession(id) \in P
  PROVE  SessionsAgree(sessions, sessions', P)
  <1>1. ASSUME NEW i \in SessionIds, i # id
        PROVE  SessionPcm(sessions, i) = SessionPcm(sessions', i)
    BY <1>1 DEF SessionPcm, WithoutSession
  <1> QED
    BY <1>1 DEF SessionsAgree

LEMMA TakeStep ==
  ASSUME SttInv, SttInv', AudioInv, NEW c \in Callers, TakeSession(c)
  PROVE  AudioInv'
  <1>1. thread[c] = "Flushing" /\ UNCHANGED <<answers, sent, dropped>>
    BY DEF TakeSession
  <1>2. PICK id \in SessionIds : id = work[c].id
    BY <1>1 DEF SttInv, KnowsSession
  <1>3. work[c].pcm = << >>
    BY <1>1 DEF SttInv, CarriesWhatItShould
  <1>4. sessions' = WithoutSession(id)
    BY <1>2 DEF TakeSession
  <1>5. work \in [Callers -> Works]
    BY DEF SttInv, HandlersType
  <1>6. CASE id \in DOMAIN sessions
    <2> DEFINE q == InHandler(c)
               p == InSession(id)
    <2>1. /\ q \in AllPlaces /\ Audio[q] = HandlerPcm(work, c)
          /\ NextAudio[q] = HandlerPcm(work', c)
          /\ p \in AllPlaces /\ Audio[p] = SessionPcm(sessions, id)
          /\ NextAudio[p] = SessionPcm(sessions', id) /\ p # q
      BY PlacesOfStates, AudioHere, PlacesDiffer
    <2>2. PICK w : work' = [work EXCEPT ![c] = w] /\ w.pcm = sessions[id].pcm
      <3> DEFINE o == MergedOptions(work[c].options, sessions[id].options)
                 w == [work[c] EXCEPT !.pcm = sessions[id].pcm, !.options = o]
      <3> HIDE DEF o
      <3>1. w.pcm = sessions[id].pcm
        BY <1>5 DEF Works
      <3>2. work' = [work EXCEPT ![c] = w]
        BY <1>2, <1>5, <1>6 DEF TakeSession, Works, o
      <3> QED
        BY <3>1, <3>2
    <2>3. Audio[q] = << >> /\ NextAudio[q] = Audio[p]
      BY <1>3, <1>5, <1>6, <2>1, <2>2 DEF HandlerPcm, SessionPcm
    <2>4. NextAudio[p] = << >>
      BY <1>4, <2>1 DEF SessionPcm, WithoutSession
    <2>5. AudioAgrees(Audio, NextAudio, {p, q})
      <3> DEFINE P == {p, q}
      <3>1. InHandler(c) \in P /\ InSession(id) \in P
        OBVIOUS
      <3> HIDE DEF P
      <3>2. HandlersAgree(work, work', P)
        BY <2>2, <3>1, HandlerMoves
      <3>3. SessionsAgree(sessions, sessions', P)
        BY <1>4, <3>1, WithoutAgrees
      <3>4. AudioAgrees(Audio, NextAudio, P)
        BY <1>1, <3>2, <3>3, AgreeStays, StepAgrees
      <3> QED
        BY <3>4 DEF P
    <2> HIDE DEF p, q
    <2> QED
      BY <1>1, <2>1, <2>3, <2>4, <2>5, MovedStep
  <1>7. CASE id \notin DOMAIN sessions
    <2>1. work' = work
      BY <1>2, <1>7 DEF TakeSession
    <2>2. \A i \in SessionIds : SessionPcm(sessions, i) = SessionPcm(sessions', i)
      BY <1>4, <1>7 DEF SessionPcm, WithoutSession
    <2>3. SessionsAgree(sessions, sessions', {}) /\ HandlersAgree(work, work', {})
      BY <2>1, <2>2 DEF SessionsAgree, HandlersAgree
    <2> QED
      BY <1>1, <2>3, QuietStep
  <1> QED
    BY <1>6, <1>7

LEMMA ReplyStep ==
  ASSUME SttInv, SttInv', AudioInv, NEW c \in Callers, Reply(c)
  PROVE  AudioInv'
  <1>1. /\ UNCHANGED <<sessions, sent, dropped>>
        /\ work' = [work EXCEPT ![c] = NoWork]
    BY DEF Reply
  <1>2. work \in [Callers -> Works] /\ answers \in [Callers -> Seq(Answers)]
    BY DEF SttInv, HandlersType, AnswersType
  <1>3. PICK r \in Answers : /\ r.pcm = work[c].pcm
                             /\ answers' = [answers EXCEPT ![c] = Append(answers[c], r)]
    BY AnswerType DEF Reply, Answer
  <1>4. answers' = [answers EXCEPT ![c] = Append(answers[c], r)]
    BY <1>3
  <1>5. answers[c] \in Seq(Answers) /\ Len(answers[c]) \in Nat
    BY <1>2
  <1>6. PICK k : k = Len(answers[c]) + 1
    OBVIOUS
  <1>7. k \in Numbers /\ k \in Nat /\ k > Len(answers[c])
    BY <1>5, <1>6 DEF Numbers
  <1>8. /\ DOMAIN answers[c] = 1 .. Len(answers[c])
        /\ DOMAIN Append(answers[c], r) = 1 .. k
        /\ Append(answers[c], r)[k] = r
        /\ \A i \in 1 .. Len(answers[c]) : Append(answers[c], r)[i] = answers[c][i]
    BY <1>3, <1>5, <1>6, AppendProperties, LenProperties
  <1>9. answers'[c] = Append(answers[c], r) /\ \A e \in Callers \ {c} : answers'[e] = answers[e]
    BY <1>2, <1>4
  <1> DEFINE p == InHandler(c)
             q == InAnswer(c, k)
  <1>10. /\ p \in AllPlaces /\ Audio[p] = HandlerPcm(work, c)
         /\ NextAudio[p] = HandlerPcm(work', c)
         /\ q \in AllPlaces /\ Audio[q] = AnswerPcm(answers, c, k)
         /\ NextAudio[q] = AnswerPcm(answers', c, k) /\ p # q
    BY <1>7, PlacesOfStates, AudioHere, PlacesDiffer
  <1>11. AnswerPcm(answers, c, k) = << >>
    <2>1. k \notin 1 .. Len(answers[c])
      BY <1>5, <1>7
    <2> QED
      BY <1>8, <2>1 DEF AnswerPcm
  <1>12. AnswerPcm(answers', c, k) = work[c].pcm
    <2>1. k \in 1 .. k
      BY <1>5, <1>7
    <2>2. k \in DOMAIN answers'[c] /\ answers'[c][k] = r
      BY <1>8, <1>9, <2>1
    <2> QED
      BY <1>3, <2>2 DEF AnswerPcm
  <1>13. NoWork.pcm = << >>
    BY DEF NoWork
  <1>14. NextAudio[p] = << >>
    BY <1>1, <1>2, <1>10, <1>13 DEF HandlerPcm
  <1>15. Audio[q] = << >> /\ NextAudio[q] = Audio[p]
    BY <1>10, <1>11, <1>12 DEF HandlerPcm
  <1>16. ASSUME NEW e \in Callers, NEW i \in Numbers, ~ (e = c /\ i = k)
         PROVE  AnswerPcm(answers, e, i) = AnswerPcm(answers', e, i)
    <2>1. CASE e # c
      BY <1>9, <2>1 DEF AnswerPcm
    <2>2. CASE e = c
      <3>1. i # k /\ i \in Nat
        BY <1>16, <2>2 DEF Numbers
      <3>2. i \in 1 .. k <=> i \in 1 .. Len(answers[c])
        BY <1>5, <1>6, <3>1
      <3> QED
        BY <1>8, <1>9, <2>2, <3>2 DEF AnswerPcm
    <2> QED
      BY <2>1, <2>2
  <1>17. AudioAgrees(Audio, NextAudio, {p, q})
    <2> DEFINE P == {p, q}
    <2>1. InHandler(c) \in P /\ InAnswer(c, k) \in P
      OBVIOUS
    <2> HIDE DEF P
    <2>2. HandlersAgree(work, work', P)
      BY <1>1, <2>1, HandlerMoves
    <2>3. AnswersAgree(answers, answers', P)
      <3>1. ASSUME NEW e \in Callers, NEW i \in Numbers
            PROVE  InAnswer(e, i) \in P \/ AnswerPcm(answers, e, i) = AnswerPcm(answers', e, i)
        <4>1. CASE e = c /\ i = k
          BY <2>1, <4>1
        <4>2. CASE ~ (e = c /\ i = k)
          BY <1>16, <4>2
        <4> QED
          BY <4>1, <4>2
      <3> QED
        BY <3>1 DEF AnswersAgree
    <2>4. AudioAgrees(Audio, NextAudio, P)
      BY <1>1, <2>2, <2>3, AgreeStays, StepAgrees
    <2> QED
      BY <2>4 DEF P
  <1> HIDE DEF p, q
  <1> QED
    BY <1>1, <1>10, <1>14, <1>15, <1>17, MovedStep

LEMMA CloseStep ==
  ASSUME SttInv, SttInv', AudioInv, NEW c \in WsConnections, WsClose(c)
  PROVE  AudioInv'
  <1>1. PICK id \in SessionIds : id = ws[c].id
    BY DEF WsClose, SttInv, KnowsSession
  <1>2. /\ UNCHANGED <<work, answers, sent>> /\ sessions' = WithoutSession(id)
        /\ dropped' = dropped \cup PcmRange(StateOf(id).pcm)
    BY <1>1 DEF WsClose
  <1> DEFINE p == InSession(id)
  <1>3. /\ p \in AllPlaces /\ Audio[p] = SessionPcm(sessions, id)
        /\ NextAudio[p] = SessionPcm(sessions', id)
    BY PlacesOfStates, AudioHere
  <1>4. NextAudio[p] = << >>
    BY <1>2, <1>3 DEF SessionPcm, WithoutSession
  <1>5. Audio[p] = StateOf(id).pcm
    BY <1>3 DEF StateOf, SessionPcm, NewState
  <1>6. AudioAgrees(Audio, NextAudio, {p})
    <2> DEFINE P == {p}
    <2>1. InSession(id) \in P
      OBVIOUS
    <2> HIDE DEF P
    <2>2. SessionsAgree(sessions, sessions', P)
      BY <1>2, <2>1, WithoutAgrees
    <2>3. AudioAgrees(Audio, NextAudio, P)
      BY <1>2, <2>2, AgreeStays, StepAgrees
    <2> QED
      BY <2>3 DEF P
  <1> HIDE DEF p
  <1>7. AudioType(Audio) /\ AudioType(NextAudio)
    BY AudioTyped
  <1>8. \A i \in 1 .. Len(Audio[p]) : Audio[p][i] \in dropped'
    <2>1. Audio[p] \in Seq(Chunks)
      BY <1>3, <1>7, ChunkAt
    <2>2. DOMAIN Audio[p] = 1 .. Len(Audio[p])
      BY <2>1, LenProperties
    <2> QED
      BY <1>2, <1>5, <2>2 DEF PcmRange
  <1>9. Len(NextAudio[p]) = 0
    BY <1>4
  <1>10. AudioOk(NextAudio, sent, dropped')
    BY <1>2, <1>3, <1>6, <1>7, <1>8, <1>9, DroppedAt DEF AudioInv
  <1> QED
    BY <1>2, <1>10, AudioInvNext

\* the transcript that was not written is dropped
LEMMA SwallowStep ==
  ASSUME SttInv, SttInv', AudioInv, NEW c \in Callers, SwallowReply(c)
  PROVE  AudioInv'
  <1>1. /\ UNCHANGED <<sessions, answers, sent>> /\ work' = [work EXCEPT ![c] = NoWork]
        /\ dropped' = dropped \cup PcmRange(work[c].pcm)
    BY DEF SwallowReply
  <1>2. work \in [Callers -> Works]
    BY DEF SttInv, HandlersType
  <1> DEFINE p == InHandler(c)
  <1>3. /\ p \in AllPlaces /\ Audio[p] = HandlerPcm(work, c)
        /\ NextAudio[p] = HandlerPcm(work', c)
    BY PlacesOfStates, AudioHere
  <1>4. NextAudio[p] = << >> /\ Audio[p] = work[c].pcm
    BY <1>1, <1>2, <1>3 DEF HandlerPcm, NoWork
  <1>5. AudioAgrees(Audio, NextAudio, {p})
    <2> DEFINE P == {p}
    <2>1. InHandler(c) \in P
      OBVIOUS
    <2> HIDE DEF P
    <2>2. HandlersAgree(work, work', P)
      BY <1>1, <2>1, HandlerMoves
    <2>3. AudioAgrees(Audio, NextAudio, P)
      BY <1>1, <2>2, AgreeStays, StepAgrees
    <2> QED
      BY <2>3 DEF P
  <1> HIDE DEF p
  <1>6. AudioType(Audio) /\ AudioType(NextAudio)
    BY AudioTyped
  <1>7. \A i \in 1 .. Len(Audio[p]) : Audio[p][i] \in dropped'
    <2>1. Audio[p] \in Seq(Chunks)
      BY <1>3, <1>6, ChunkAt
    <2>2. DOMAIN Audio[p] = 1 .. Len(Audio[p])
      BY <2>1, LenProperties
    <2> QED
      BY <1>1, <1>4, <2>2 DEF PcmRange
  <1>8. Len(NextAudio[p]) = 0
    BY <1>4
  <1>9. AudioOk(NextAudio, sent, dropped')
    BY <1>1, <1>3, <1>5, <1>6, <1>7, <1>8, DroppedAt DEF AudioInv
  <1> QED
    BY <1>1, <1>9, AudioInvNext

LEMMA InitAudio == Init => AudioInv
  <1> SUFFICES ASSUME Init
               PROVE  AudioInv
    OBVIOUS
  <1>1. \A r \in AllPlaces : Audio[r] = << >>
    <2>1. \A id \in SessionIds : SessionPcm(sessions, id) = << >>
      <3>1. DOMAIN sessions = 1 .. 0
        <4>1. sessions \in Seq({}) /\ Len(sessions) = 0
          BY EmptySeq DEF Init
        <4> QED
          BY <4>1
      <3> QED
        BY <3>1 DEF SessionPcm
    <2>2. \A c \in Callers : HandlerPcm(work, c) = << >>
      BY DEF Init, HandlerPcm, NoWork
    <2>3. ASSUME NEW c \in Callers, NEW k \in Numbers
          PROVE  AnswerPcm(answers, c, k) = << >>
      <3>1. answers[c] = << >>
        BY DEF Init
      <3>2. answers[c] \in Seq({}) /\ Len(answers[c]) = 0
        BY <3>1, EmptySeq
      <3>3. DOMAIN answers[c] = 1 .. 0
        BY <3>2
      <3> QED
        BY <3>3 DEF AnswerPcm
    <2>4. /\ \A id \in SessionIds : Audio[InSession(id)] = << >>
          /\ \A c \in Callers : Audio[InHandler(c)] = << >>
          /\ \A c \in Callers : \A k \in Numbers : Audio[InAnswer(c, k)] = << >>
      BY <2>1, <2>2, <2>3, AudioHere
    <2> QED
      BY <2>4, PlaceOfAKind
  <1>2. \A r \in AllPlaces : Len(Audio[r]) = 0
    BY <1>1
  <1>3. AudioType(Audio)
    <2>1. \A r \in AllPlaces : Audio[r] \in Seq(Chunks)
      BY <1>1, EmptySeq
    <2>2. Audio = [r \in AllPlaces |-> Audio[r]]
      BY DEF Audio, AudioOf
    <2> QED
      BY <2>1, <2>2 DEF AudioType
  <1>4. Single(Audio) /\ Counted(Audio, sent) /\ Ordered(Audio)
    BY <1>2 DEF Single, Counted, Ordered
  <1>5. Kept(Audio, sent, dropped)
    <2>1. \A c \in Callers : sent[c] = 0
      BY DEF Init
    <2> QED
      BY <2>1 DEF Kept
  <1> QED
    BY <1>3, <1>4, <1>5 DEF AudioInv, AudioOk

(***************************************************************************)
(* What a handler on its way knows: how far its caller has spoken, and     *)
(* what its result may be.                                                 *)
(***************************************************************************)

\* nothing is said to be heard without an error, unless whisper was asked
WhisperWasAsked(w) ==
    w.options.model = "auto" /\ ~ w.result.text => w.result.model = "whisper" \/ w.result.error

\* t and w are the handler of c, n what c has sent and m what was settled of it
HandlerKnows(c, t, w, n, m) ==
    /\ \A id \in SessionIds : m[id] <= n
    /\ t = "Appending" =>
           /\ \E chunk \in Chunks : w.pcm = <<chunk>> /\ chunk.from = c /\ chunk.n = n
           /\ \A id \in SessionIds : m[id] < n
    /\ t \in {"Appending", "Flushing", "Waiting"} => w.result.error
    /\ t = "Replying" => WhisperWasAsked(w)

HandlersKnow ==
    \A c \in Callers : HandlerKnows(c, thread[c], work[c], sent[c], settled[c])

LEMMA KnowTheLast == HandlersKnow => CarriesTheLast
  BY DEF HandlersKnow, HandlerKnows, CarriesTheLast

\* nothing is changed for the other handlers
LEMMA KnowStep ==
  ASSUME HandlersKnow, NEW c \in Callers,
         \A e \in Callers \ {c} : /\ thread'[e] = thread[e] /\ work'[e] = work[e]
                                  /\ sent'[e] = sent[e] /\ settled'[e] = settled[e],
         HandlerKnows(c, thread'[c], work'[c], sent'[c], settled'[c])
  PROVE  HandlersKnow'
  <1>1. \A e \in Callers : HandlerKnows(e, thread'[e], work'[e], sent'[e], settled'[e])
    BY DEF HandlersKnow
  <1> QED
    BY <1>1 DEF HandlersKnow

\* .. when only a handler moves on
LEMMA MoveOn ==
  ASSUME SttInv, HandlersKnow, NEW c \in Callers, NEW w, NEW t,
         work' = [work EXCEPT ![c] = w], thread' = [thread EXCEPT ![c] = t],
         UNCHANGED <<sent, settled>>, t # "Appending",
         t \in {"Flushing", "Waiting"} => w.result.error,
         t = "Replying" => WhisperWasAsked(w)
  PROVE  HandlersKnow'
  <1>1. work \in [Callers -> Works] /\ thread \in [Callers -> Busy \cup {"Idle"}]
    BY DEF SttInv, HandlersType
  <1>2. work'[c] = w /\ thread'[c] = t
    BY <1>1
  <1>3. \A e \in Callers \ {c} : work'[e] = work[e] /\ thread'[e] = thread[e]
    BY <1>1
  <1>4. \A id \in SessionIds : settled[c][id] <= sent[c]
    BY DEF HandlersKnow, HandlerKnows
  <1>5. HandlerKnows(c, t, w, sent[c], settled[c])
    BY <1>4 DEF HandlerKnows
  <1> QED
    BY <1>2, <1>3, <1>5, KnowStep

\* what a session holds was not settled
Unsettled(pcm, st, id) == \A i \in DOMAIN pcm : pcm[i].n > st[pcm[i].from][id]

LEMMA NothingLeft ==
  NothingLeftBehind <=> \A id \in DOMAIN sessions : Unsettled(sessions[id].pcm, settled, id)
  BY DEF NothingLeftBehind, Unsettled

LEMMA NothingLeftNext ==
  NothingLeftBehind' <=>
      \A id \in DOMAIN sessions' : Unsettled(sessions'[id].pcm, settled', id)
  BY DEF NothingLeftBehind, Unsettled

\* a session that is erased may be settled
LEMMA ErasedLeavesNothing ==
  ASSUME SttInv, NothingLeftBehind, NEW c \in Callers, NEW id \in SessionIds, NEW n,
         sessions' = WithoutSession(id), settled' = [settled EXCEPT ![c][id] = n]
  PROVE  NothingLeftBehind'
  <1>1. settled \in [Callers -> [SessionIds -> Nat]]
    BY DEF SttInv, CountsType
  <1>2. \A e \in Callers : \A i \in SessionIds \ {id} : settled'[e][i] = settled[e][i]
    BY <1>1
  <1>3. ASSUME NEW i \in DOMAIN sessions'
        PROVE  Unsettled(sessions'[i].pcm, settled', i)
    <2>1. i \in DOMAIN sessions /\ i # id /\ sessions'[i] = sessions[i] /\ i \in SessionIds
      BY <1>3 DEF WithoutSession, SttInv, SessionsType
    <2>2. sessions[i].pcm \in Seq(Chunks)
      BY <2>1 DEF SttInv, SessionsType, SessionStates
    <2>3. Unsettled(sessions[i].pcm, settled, i)
      BY <2>1, NothingLeft
    <2>4. \A k \in DOMAIN sessions[i].pcm : sessions[i].pcm[k].from \in Callers
      <3> DEFINE pcm == sessions[i].pcm
      <3>1. pcm \in Seq(Chunks)
        BY <2>2
      <3> HIDE DEF pcm
      <3>2. \A k \in DOMAIN pcm : pcm[k] \in Chunks
        BY <3>1, LenProperties, ElementOfSeq
      <3> QED
        BY <3>2 DEF Chunks, pcm
    <2> QED
      BY <1>2, <2>1, <2>3, <2>4 DEF Unsettled
  <1> QED
    BY <1>3, NothingLeftNext

\* the session of the others is as it was
LEMMA NamedLeavesNothing ==
  ASSUME SttInv, NothingLeftBehind, NEW id \in SessionIds, NEW state,
         sessions' = WithSession(id, state), settled' = settled,
         Unsettled(state.pcm, settled, id)
  PROVE  NothingLeftBehind'
  <1>1. ASSUME NEW i \in DOMAIN sessions'
        PROVE  Unsettled(sessions'[i].pcm, settled', i)
    <2>1. CASE i = id
      BY <2>1 DEF WithSession
    <2>2. CASE i # id
      <3>1. i \in DOMAIN sessions /\ sessions'[i] = sessions[i]
        BY <1>1, <2>2 DEF WithSession
      <3> QED
        BY <3>1, NothingLeft
    <2> QED
      BY <2>1, <2>2
  <1> QED
    BY <1>1, NothingLeftNext

LEMMA StateIsUnsettled ==
  ASSUME NothingLeftBehind, NEW id
  PROVE  Unsettled(StateOf(id).pcm, settled, id)
  <1>1. CASE id \in DOMAIN sessions
    BY <1>1, NothingLeft DEF StateOf
  <1>2. CASE id \notin DOMAIN sessions
    <2>1. StateOf(id).pcm = << >>
      BY <1>2 DEF StateOf, NewState
    <2>2. << >> \in Seq({}) /\ Len(<< >>) = 0
      BY EmptySeq
    <2>3. DOMAIN << >> = 1 .. 0
      BY <2>2
    <2> QED
      BY <2>1, <2>3 DEF Unsettled
  <1> QED
    BY <1>1, <1>2

(***************************************************************************)
(* Every action keeps what is known of the audio.                          *)
(***************************************************************************)

SpeakInv ==
    SttInv /\ AudioInv /\ HandlersKnow /\ NothingLeftBehind /\ BlankOnlyAfterBothModels

LEMMA InitSpeak == Init => SpeakInv
  <1> SUFFICES ASSUME Init
               PROVE  SpeakInv
    OBVIOUS
  <1>1. SttInv /\ AudioInv
    BY InitInv, InitAudio
  <1>2. HandlersKnow
    <2>1. ASSUME NEW c \in Callers
          PROVE  HandlerKnows(c, thread[c], work[c], sent[c], settled[c])
      <3>1. /\ thread[c] = "Idle" /\ sent[c] = 0
            /\ \A id \in SessionIds : settled[c][id] = 0
        BY DEF Init
      <3>2. \A id \in SessionIds : settled[c][id] <= sent[c]
        BY <3>1
      <3> QED
        BY <3>1, <3>2 DEF HandlerKnows
    <2> QED
      BY <2>1 DEF HandlersKnow
  <1>3. NothingLeftBehind
    <2>1. sessions \in Seq({}) /\ Len(sessions) = 0
      BY EmptySeq DEF Init
    <2>2. DOMAIN sessions = 1 .. 0
      BY <2>1
    <2> QED
      BY <2>2 DEF NothingLeftBehind
  <1>4. BlankOnlyAfterBothModels
    <2>1. ASSUME NEW c \in Callers
          PROVE  DOMAIN answers[c] = 1 .. 0
      <3>1. answers[c] \in Seq({}) /\ Len(answers[c]) = 0
        BY EmptySeq DEF Init
      <3> QED
        BY <3>1
    <2> QED
      BY <2>1 DEF BlankOnlyAfterBothModels
  <1> QED
    BY <1>1, <1>2, <1>3, <1>4 DEF SpeakInv

LEMMA SameAnswers ==
  ASSUME BlankOnlyAfterBothModels, answers' = answers
  PROVE  BlankOnlyAfterBothModels'
  BY DEF BlankOnlyAfterBothModels

LEMMA SameSessions ==
  ASSUME NothingLeftBehind, UNCHANGED <<sessions, settled>>
  PROVE  NothingLeftBehind'
  BY DEF NothingLeftBehind

\* a step that moves no audio and answers nobody
LEMMA QuietSpeak ==
  ASSUME SpeakInv, SttInv', HandlersKnow', UNCHANGED <<sessions, answers, sent, settled, dropped>>,
         HandlersAgree(work, work', {})
  PROVE  SpeakInv'
  <1> USE DEF SpeakInv
  <1>1. SessionsAgree(sessions, sessions', {})
    <2> DEFINE P == {}
    <2>1. SessionsAgree(sessions, sessions', P)
      <3> HIDE DEF P
      <3> QED
        BY AgreeStays
    <2> QED
      BY <2>1
  <1>2. AudioInv'
    BY <1>1, QuietStep
  <1>3. NothingLeftBehind' /\ BlankOnlyAfterBothModels'
    BY SameSessions, SameAnswers
  <1> QED
    BY <1>2, <1>3

\* a handler moves on and keeps its audio
LEMMA QuietMove ==
  ASSUME SpeakInv, SttInv', UNCHANGED <<sessions, answers, sent, settled, dropped>>,
         NEW c \in Callers, NEW w, NEW t,
         work' = [work EXCEPT ![c] = w], thread' = [thread EXCEPT ![c] = t],
         w.pcm = work[c].pcm, t # "Appending",
         t \in {"Flushing", "Waiting"} => w.result.error,
         t = "Replying" => WhisperWasAsked(w)
  PROVE  SpeakInv'
  <1>1. HandlersAgree(work, work', {})
    <2> DEFINE P == {}
    <2>1. HandlersAgree(work, work', P)
      <3> HIDE DEF P
      <3> QED
        BY HandlerMoves DEF SpeakInv
    <2> QED
      BY <2>1
  <1>2. HandlersKnow'
    BY MoveOn DEF SpeakInv
  <1> QED
    BY <1>1, <1>2, QuietSpeak

LEMMA NoWorkFails == NoWork.result.error /\ NoWork.pcm = << >>
  BY DEF NoWork, Failure

LEMMA StartFlushSpeak ==
  ASSUME SpeakInv, SttInv', NEW c \in Callers, NEW id \in SessionIds, NEW options \in Options,
         StartFlush(c, id, options)
  PROVE  SpeakInv'
  <1> DEFINE w == [NoWork EXCEPT !.id = id, !.asked = options, !.options = options]
  <1>1. w.result.error /\ w.pcm = << >>
    BY NoWorkType, NoWorkFails DEF Works
  <1>2. /\ work' = [work EXCEPT ![c] = w] /\ thread' = [thread EXCEPT ![c] = "Flushing"]
        /\ UNCHANGED <<sessions, answers, sent, settled, dropped>>
    BY DEF StartFlush
  <1>3. work[c].pcm = << >>
    BY DEF StartFlush, CanStart, SpeakInv, SttInv, HandlersType
  <1> HIDE DEF w
  <1> QED
    BY <1>1, <1>2, <1>3, QuietMove

LEMMA AcquireSpeak ==
  ASSUME SpeakInv, SttInv', NEW c \in Callers, AcquireEngine(c)
  PROVE  SpeakInv'
  <1>1. /\ thread' = [thread EXCEPT ![c] = "Decoding"]
        /\ UNCHANGED <<sessions, work, answers, sent, settled, dropped>>
    BY DEF AcquireEngine
  <1>2. work' = [work EXCEPT ![c] = work[c]]
    BY <1>1 DEF SpeakInv, SttInv, HandlersType
  <1> DEFINE w == work[c]
  <1>3. work' = [work EXCEPT ![c] = w] /\ w.pcm = work[c].pcm
    BY <1>2
  <1> HIDE DEF w
  <1> QED
    BY <1>1, <1>3, QuietMove

LEMMA DecodeSpeak ==
  ASSUME SpeakInv, SttInv', NEW c \in Callers, Decode(c)
  PROVE  SpeakInv'
  <1>1. /\ UNCHANGED <<sessions, answers, sent, settled, dropped>>
        /\ work[c] \in Works /\ work \in [Callers -> Works]
    BY DEF Decode, SpeakInv, SttInv, HandlersType
  <1>2. PICK result :
            /\ work' = [work EXCEPT ![c].result = result]
            /\ \/ thread' = [thread EXCEPT ![c] = "FallingBack"]
               \/ /\ thread' = [thread EXCEPT ![c] = "Replying"]
                  /\ ~ NeedsFallback(work[c].options.model, result)
    BY DEF Decode
  <1> DEFINE w == [work[c] EXCEPT !.result = result]
  <1>3. work' = [work EXCEPT ![c] = w]
    BY <1>2
  <1>4. w.pcm = work[c].pcm /\ w.options = work[c].options /\ w.result = result
    BY <1>1 DEF Works
  <1> HIDE DEF w
  <1>5. CASE thread' = [thread EXCEPT ![c] = "FallingBack"]
    BY <1>1, <1>3, <1>4, <1>5, QuietMove
  <1>6. CASE /\ thread' = [thread EXCEPT ![c] = "Replying"]
             /\ ~ NeedsFallback(work[c].options.model, result)
    <2>1. WhisperWasAsked(w)
      BY <1>4, <1>6 DEF WhisperWasAsked, NeedsFallback
    <2> QED
      BY <1>1, <1>3, <1>4, <1>6, <2>1, QuietMove
  <1> QED
    BY <1>2, <1>5, <1>6

\* the result of both attempts: of whisper, or an error
LEMMA CombinedOfWhisper ==
  ASSUME NEW primary \in Results, NEW has_samples \in BOOLEAN,
         NEW fallback \in Attempts("whisper", has_samples)
  PROVE  Combined(primary, fallback).model = "whisper" \/ Combined(primary, fallback).error
  <1>1. fallback \in Results /\ (fallback.ok => fallback.model = "whisper")
    BY AttemptsType DEF Attempts, Results, Text, Blank, Failure
  <1>2. CASE fallback.ok
    BY <1>1, <1>2 DEF Combined, Results
  <1>3. CASE ~ fallback.ok
    BY <1>3 DEF Combined, Results
  <1> QED
    BY <1>2, <1>3

LEMMA FallBackSpeak ==
  ASSUME SpeakInv, SttInv', NEW c \in Callers, FallBack(c)
  PROVE  SpeakInv'
  <1>1. /\ UNCHANGED <<sessions, answers, sent, settled, dropped>>
        /\ work[c] \in Works /\ thread' = [thread EXCEPT ![c] = "Replying"]
    BY DEF FallBack, SpeakInv, SttInv, HandlersType
  <1>2. PICK fallback \in Attempts("whisper", HasSamples(c)) :
            work' = [work EXCEPT ![c].result = Combined(work[c].result, fallback)]
    BY DEF FallBack
  <1>3. PICK result : /\ result = Combined(work[c].result, fallback)
                      /\ result.model = "whisper" \/ result.error
    <2>1. work[c].result \in Results /\ HasSamples(c) \in BOOLEAN
      BY <1>1 DEF Works, HasSamples
    <2>2. fallback \in Attempts("whisper", HasSamples(c))
      BY <1>2
    <2> QED
      BY <2>1, <2>2, CombinedOfWhisper
  <1> DEFINE w == [work[c] EXCEPT !.result = result]
  <1>4. work' = [work EXCEPT ![c] = w]
    BY <1>2, <1>3
  <1>5. w.pcm = work[c].pcm /\ w.result = result
    BY <1>1 DEF Works
  <1> HIDE DEF w
  <1>6. WhisperWasAsked(w)
    BY <1>3, <1>5 DEF WhisperWasAsked
  <1> QED
    BY <1>1, <1>4, <1>5, <1>6, QuietMove

\* the handshake of a connection leaves the audio where it is
LEMMA HandshakeSpeak ==
  ASSUME SpeakInv, SttInv', NEW c \in WsConnections, NEW id \in SessionIds,
         NEW options \in Options, WsHandshake(c, id, options)
  PROVE  SpeakInv'
  <1> USE DEF SpeakInv
  <1>1. UNCHANGED <<thread, work, answers, sent, settled, dropped>>
    BY DEF WsHandshake
  <1> DEFINE state == [StateOf(id) EXCEPT !.options = options]
  <1>2. sessions' = WithSession(id, state)
    BY DEF WsHandshake
  <1>3. state.pcm = StateOf(id).pcm
    BY StateOfType DEF SttInv, SessionStates
  <1> HIDE DEF state
  <1>4. NothingLeftBehind'
    BY <1>1, <1>2, <1>3, NamedLeavesNothing, StateIsUnsettled
  <1>5. AudioInv'
    <2>1. \A i \in SessionIds : SessionPcm(sessions, i) = SessionPcm(sessions', i)
      <3>1. StateOf(id).pcm = SessionPcm(sessions, id)
        BY DEF StateOf, SessionPcm, NewState
      <3>2. SessionPcm(sessions', id) = state.pcm
        BY <1>2 DEF SessionPcm, WithSession
      <3>3. ASSUME NEW i \in SessionIds, i # id
            PROVE  SessionPcm(sessions, i) = SessionPcm(sessions', i)
        BY <1>2, <3>3 DEF SessionPcm, WithSession
      <3> QED
        BY <1>3, <3>1, <3>2, <3>3
    <2>2. SessionsAgree(sessions, sessions', {}) /\ HandlersAgree(work, work', {})
      BY <1>1, <2>1 DEF SessionsAgree, HandlersAgree
    <2> QED
      BY <1>1, <2>2, QuietStep
  <1>6. HandlersKnow' /\ BlankOnlyAfterBothModels'
    BY <1>1, SameAnswers DEF HandlersKnow
  <1> QED
    BY <1>4, <1>5, <1>6

LEMMA UnheardSpeak ==
  ASSUME SpeakInv, SttInv',
         UNCHANGED <<sessions, thread, work, answers, sent, settled, dropped>>
  PROVE  SpeakInv'
  <1>1. HandlersKnow'
    BY DEF SpeakInv, HandlersKnow
  <1>2. HandlersAgree(work, work', {})
    BY DEF HandlersAgree
  <1> QED
    BY <1>1, <1>2, QuietSpeak

\* a caller speaks: w is its handler, which goes on at t
LEMMA SpokenKnow ==
  ASSUME SttInv, HandlersKnow, NEW c \in Callers, NEW id \in SessionIds,
         sent[c] < MaxChunks, NEW w, NEW t,
         work' = [work EXCEPT ![c] = w], thread' = [thread EXCEPT ![c] = t],
         sent' = [sent EXCEPT ![c] = @ + 1], settled' = settled,
         w.pcm = <<NewChunk(c, id)>>, w.result.error, t # "Flushing"
  PROVE  HandlersKnow'
  <1>1. /\ work \in [Callers -> Works] /\ thread \in [Callers -> Busy \cup {"Idle"}]
        /\ sent \in [Callers -> Nat] /\ settled \in [Callers -> [SessionIds -> Nat]]
    BY DEF SttInv, HandlersType, CountsType
  <1>2. work'[c] = w /\ thread'[c] = t /\ sent'[c] = sent[c] + 1
    BY <1>1
  <1>3. \A e \in Callers \ {c} : /\ work'[e] = work[e] /\ thread'[e] = thread[e]
                                  /\ sent'[e] = sent[e]
    BY <1>1
  <1> DEFINE chunk == NewChunk(c, id)
  <1>4. chunk \in Chunks /\ chunk.from = c /\ chunk.n = sent[c] + 1
    BY NewChunkType DEF SttInv, NewChunk
  <1>5. w.pcm = <<chunk>>
    OBVIOUS
  <1> HIDE DEF chunk
  <1>6. ASSUME NEW i \in SessionIds
        PROVE  settled[c][i] < sent[c] + 1 /\ settled[c][i] <= sent[c] + 1
    <2>1. settled[c][i] <= sent[c]
      BY DEF HandlersKnow, HandlerKnows
    <2>2. settled[c][i] \in Nat /\ sent[c] \in Nat
      BY <1>1
    <2> QED
      BY <2>1, <2>2
  <1>7. WhisperWasAsked(w)
    BY DEF WhisperWasAsked
  <1>8. HandlerKnows(c, t, w, sent[c] + 1, settled[c])
    BY <1>4, <1>5, <1>6, <1>7 DEF HandlerKnows
  <1> QED
    BY <1>2, <1>3, <1>8, KnowStep

LEMMA SpokenSpeak ==
  ASSUME SpeakInv, SttInv', NEW c \in Callers, NEW id \in SessionIds,
         work[c].pcm = << >>, sent[c] < MaxChunks, NEW w, NEW t,
         work' = [work EXCEPT ![c] = w], thread' = [thread EXCEPT ![c] = t],
         sent' = [sent EXCEPT ![c] = @ + 1],
         UNCHANGED <<sessions, answers, settled, dropped>>,
         w.pcm = <<NewChunk(c, id)>>, w.result.error, t # "Flushing"
  PROVE  SpeakInv'
  <1> USE DEF SpeakInv
  <1>1. HandlersKnow'
    BY SpokenKnow
  <1>2. AudioInv'
    BY SpokenStep
  <1>3. NothingLeftBehind' /\ BlankOnlyAfterBothModels'
    BY SameSessions, SameAnswers
  <1> QED
    BY <1>1, <1>2, <1>3

LEMMA StartAppendSpeak ==
  ASSUME SpeakInv, SttInv', NEW c \in Callers, NEW id \in SessionIds, NEW options \in Options,
         NEW flush \in BOOLEAN, StartAppend(c, id, flush, options)
  PROVE  SpeakInv'
  <1> DEFINE w == [NoWork EXCEPT !.id = id, !.pcm = <<NewChunk(c, id)>>,
                                 !.asked = options, !.options = options, !.flush = flush]
  <1>1. w.pcm = <<NewChunk(c, id)>> /\ w.result.error
    BY NoWorkFails DEF NoWork
  <1>2. /\ work' = [work EXCEPT ![c] = w] /\ thread' = [thread EXCEPT ![c] = "Appending"]
        /\ sent' = [sent EXCEPT ![c] = @ + 1] /\ sent[c] < MaxChunks
        /\ UNCHANGED <<sessions, answers, settled, dropped>>
    BY DEF StartAppend
  <1>3. work[c].pcm = << >>
    BY DEF StartAppend, CanStart, SpeakInv, SttInv, HandlersType
  <1> HIDE DEF w
  <1> QED
    BY <1>1, <1>2, <1>3, SpokenSpeak

LEMMA RestSpeak ==
  ASSUME SpeakInv, SttInv', NEW c \in Callers, NEW id \in SessionIds, NEW options \in Options,
         RestTranscribe(c, id, options)
  PROVE  SpeakInv'
  <1> DEFINE o == [options EXCEPT !.language = IF @ = "" THEN ConfigLanguage ELSE @]
             w == [NoWork EXCEPT !.id = id, !.pcm = <<NewChunk(c, id)>>,
                                 !.asked = options, !.options = o]
             t == IF SttEnabled THEN "Waiting" ELSE "Replying"
  <1>1. w.pcm = <<NewChunk(c, id)>> /\ w.result.error /\ t # "Flushing"
    <2> HIDE DEF o
    <2> QED
      BY NoWorkFails DEF NoWork
  <1>2. /\ work' = [work EXCEPT ![c] = w] /\ thread' = [thread EXCEPT ![c] = t]
        /\ sent' = [sent EXCEPT ![c] = @ + 1] /\ sent[c] < MaxChunks
        /\ UNCHANGED <<sessions, answers, settled, dropped>>
    BY DEF RestTranscribe
  <1>3. work[c].pcm = << >>
    BY DEF RestTranscribe, CanStart, SpeakInv, SttInv, HandlersType
  <1> HIDE DEF w, t, o
  <1> QED
    BY <1>1, <1>2, <1>3, SpokenSpeak

LEMMA AppendSpeak ==
  ASSUME SpeakInv, SttInv', NEW c \in Callers, AppendChunk(c)
  PROVE  SpeakInv'
  <1> USE DEF SpeakInv
  <1>1. thread[c] = "Appending" /\ UNCHANGED <<answers, sent, settled, dropped>>
    BY DEF AppendChunk
  <1>2. work[c] \in Works /\ work[c].id \in SessionIds
    BY <1>1 DEF SttInv, HandlersType, KnowsSession
  <1>3. HandlerKnows(c, "Appending", work[c], sent[c], settled[c])
    BY <1>1 DEF HandlersKnow
  <1>4. PICK w, t : /\ work' = [work EXCEPT ![c] = w] /\ thread' = [thread EXCEPT ![c] = t]
                    /\ t \in {"Flushing", "Idle"} /\ (t = "Flushing" => w.result.error)
    <2>1. CASE work[c].flush
      <3> DEFINE w == [work[c] EXCEPT !.pcm = << >>]
      <3>1. w.result = work[c].result /\ work[c].result.error
        BY <1>2, <1>3 DEF Works, HandlerKnows
      <3>2. /\ work' = [work EXCEPT ![c] = w]
            /\ thread' = [thread EXCEPT ![c] = "Flushing"]
        BY <2>1 DEF AppendChunk
      <3> HIDE DEF w
      <3> WITNESS w, "Flushing"
      <3> QED
        BY <3>1, <3>2
    <2>2. CASE ~ work[c].flush
      <3>1. work' = [work EXCEPT ![c] = NoWork] /\ thread' = [thread EXCEPT ![c] = "Idle"]
        BY <2>2 DEF AppendChunk
      <3> WITNESS NoWork, "Idle"
      <3> QED
        BY <3>1
    <2> QED
      BY <2>1, <2>2
  <1>5. HandlersKnow'
    BY <1>1, <1>4, MoveOn
  <1>6. AudioInv'
    BY AppendStep, KnowTheLast
  <1>7. NothingLeftBehind'
    <2> DEFINE id == work[c].id
               pcm == StateOf(id).pcm
               state == [pcm     |-> Joined(pcm, work[c].pcm),
                         options |-> IF StateOf(id).options.language = "" THEN DefaultOptions
                                     ELSE StateOf(id).options]
    <2>1. sessions' = WithSession(id, state)
      BY DEF AppendChunk
    <2>2. PICK chunk \in Chunks : /\ work[c].pcm = <<chunk>> /\ chunk.from = c
                                  /\ chunk.n = sent[c]
      BY <1>3 DEF HandlerKnows
    <2>3. sent[c] > settled[c][id]
      <3>1. settled[c][id] < sent[c]
        BY <1>2, <1>3 DEF HandlerKnows
      <3>2. settled[c][id] \in Nat /\ sent[c] \in Nat
        BY <1>2 DEF SttInv, CountsType
      <3> QED
        BY <3>1, <3>2
    <2>4. pcm \in Seq(Chunks) /\ Unsettled(pcm, settled, id)
      BY StateOfType, StateIsUnsettled DEF SttInv, SessionStates
    <2>5. state.pcm = pcm \o <<chunk>>
      BY <2>2 DEF Joined
    <2> HIDE DEF pcm, state
    <2>6. Unsettled(state.pcm, settled, id)
      <3> DEFINE u == pcm
                 v == Append(u, chunk)
      <3>1. u \in Seq(Chunks) /\ state.pcm = v
        <4>1. u \o <<chunk>> = Append(u, chunk)
          BY <2>2, <2>4
        <4> QED
          BY <2>4, <2>5, <4>1
      <3>2. /\ DOMAIN v = 1 .. Len(u) + 1 /\ DOMAIN u = 1 .. Len(u) /\ Len(u) \in Nat
            /\ v[Len(u) + 1] = chunk /\ \A i \in 1 .. Len(u) : v[i] = u[i]
        <4> HIDE DEF u
        <4> QED
          BY <2>2, <3>1, AppendProperties, LenProperties
      <3> HIDE DEF v
      <3>3. \A i \in 1 .. Len(u) + 1 : i \in 1 .. Len(u) \/ i = Len(u) + 1
        BY <3>2
      <3> QED
        BY <2>2, <2>3, <2>4, <3>1, <3>2, <3>3 DEF Unsettled
    <2> HIDE DEF id
    <2> QED
      BY <1>1, <1>2, <2>1, <2>6, NamedLeavesNothing DEF id
  <1>8. BlankOnlyAfterBothModels'
    BY <1>1, SameAnswers
  <1> QED
    BY <1>5, <1>6, <1>7, <1>8

LEMMA TakeSpeak ==
  ASSUME SpeakInv, SttInv', NEW c \in Callers, TakeSession(c)
  PROVE  SpeakInv'
  <1> USE DEF SpeakInv
  <1>1. thread[c] = "Flushing" /\ UNCHANGED <<answers, sent, dropped>>
    BY DEF TakeSession
  <1>2. PICK id \in SessionIds : id = work[c].id
    BY <1>1 DEF SttInv, KnowsSession
  <1>3. /\ work \in [Callers -> Works] /\ thread \in [Callers -> Busy \cup {"Idle"}]
        /\ sent \in [Callers -> Nat] /\ settled \in [Callers -> [SessionIds -> Nat]]
    BY DEF SttInv, HandlersType, CountsType
  <1>4. work[c].result.error
    BY <1>1 DEF HandlersKnow, HandlerKnows
  <1>5. PICK w : work' = [work EXCEPT ![c] = w] /\ w.result.error
    <2>1. CASE id \in DOMAIN sessions
      <3> DEFINE o == MergedOptions(work[c].options, sessions[id].options)
                 w == [work[c] EXCEPT !.pcm = sessions[id].pcm, !.options = o]
      <3> HIDE DEF o
      <3>1. w.result = work[c].result
        BY <1>3 DEF Works
      <3>2. work' = [work EXCEPT ![c] = w]
        BY <1>2, <1>3, <2>1 DEF TakeSession, Works, o
      <3> QED
        BY <1>4, <3>1, <3>2
    <2>2. CASE id \notin DOMAIN sessions
      <3>1. work' = [work EXCEPT ![c] = work[c]]
        BY <1>2, <1>3, <2>2 DEF TakeSession
      <3> QED
        BY <1>4, <3>1
    <2> QED
      BY <2>1, <2>2
  <1>6. PICK t : thread' = [thread EXCEPT ![c] = t] /\ t \in {"Waiting", "Replying"}
    BY DEF TakeSession
  <1>7. /\ settled' = [settled EXCEPT ![c][id] = sent[c]]
        /\ sessions' = WithoutSession(id)
    BY <1>2 DEF TakeSession
  <1>8. HandlersKnow'
    <2>1. work'[c] = w /\ thread'[c] = t /\ sent'[c] = sent[c]
      BY <1>1, <1>3, <1>5, <1>6
    <2>2. \A e \in Callers \ {c} : /\ work'[e] = work[e] /\ thread'[e] = thread[e]
                                    /\ sent'[e] = sent[e] /\ settled'[e] = settled[e]
      BY <1>1, <1>3, <1>5, <1>6, <1>7
    <2>3. \A i \in SessionIds : settled'[c][i] <= sent[c]
      <3>1. \A i \in SessionIds : settled[c][i] <= sent[c]
        BY DEF HandlersKnow, HandlerKnows
      <3>2. /\ settled'[c][id] = sent[c]
            /\ \A i \in SessionIds \ {id} : settled'[c][i] = settled[c][i]
        BY <1>3, <1>7
      <3>3. sent[c] <= sent[c]
        BY <1>3
      <3> QED
        BY <3>1, <3>2, <3>3
    <2>4. WhisperWasAsked(w)
      BY <1>5 DEF WhisperWasAsked
    <2>5. HandlerKnows(c, t, w, sent[c], settled'[c])
      BY <1>5, <1>6, <2>3, <2>4 DEF HandlerKnows
    <2> QED
      BY <2>1, <2>2, <2>5, KnowStep
  <1>9. AudioInv'
    BY TakeStep
  <1>10. NothingLeftBehind'
    <2> DEFINE n == sent[c]
    <2>1. settled' = [settled EXCEPT ![c][id] = n]
      BY <1>7
    <2> HIDE DEF n
    <2> QED
      BY <1>7, <2>1, ErasedLeavesNothing
  <1>11. BlankOnlyAfterBothModels'
    BY <1>1, SameAnswers
  <1> QED
    BY <1>8, <1>9, <1>10, <1>11

LEMMA CloseSpeak ==
  ASSUME SpeakInv, SttInv', NEW c \in WsConnections, WsClose(c)
  PROVE  SpeakInv'
  <1> USE DEF SpeakInv
  <1>1. PICK id \in SessionIds : id = ws[c].id
    BY DEF WsClose, SttInv, KnowsSession
  <1>2. /\ UNCHANGED <<thread, work, answers, sent>> /\ sessions' = WithoutSession(id)
        /\ settled' = [settled EXCEPT ![c][id] = sent[c]]
        /\ thread[c] = "Idle" /\ c \in Callers
    BY <1>1 DEF WsClose, CanStart, Callers
  <1>3. sent \in [Callers -> Nat] /\ settled \in [Callers -> [SessionIds -> Nat]]
    BY DEF SttInv, CountsType
  <1>4. HandlersKnow'
    <2>1. \A e \in Callers \ {c} : settled'[e] = settled[e]
      BY <1>2, <1>3
    <2>2. \A i \in SessionIds : settled'[c][i] <= sent[c]
      <3>1. \A i \in SessionIds : settled[c][i] <= sent[c]
        BY <1>2 DEF HandlersKnow, HandlerKnows
      <3>2. /\ settled'[c][id] = sent[c]
            /\ \A i \in SessionIds \ {id} : settled'[c][i] = settled[c][i]
        BY <1>2, <1>3
      <3>3. sent[c] <= sent[c]
        BY <1>2, <1>3
      <3> QED
        BY <3>1, <3>2, <3>3
    <2>3. HandlerKnows(c, "Idle", work[c], sent[c], settled'[c])
      BY <2>2 DEF HandlerKnows
    <2> QED
      BY <1>2, <2>1, <2>3, KnowStep
  <1>5. NothingLeftBehind'
    <2> DEFINE n == sent[c]
    <2>1. settled' = [settled EXCEPT ![c][id] = n]
      BY <1>2
    <2> HIDE DEF n
    <2> QED
      BY <1>2, <2>1, ErasedLeavesNothing
  <1>6. AudioInv' /\ BlankOnlyAfterBothModels'
    BY <1>2, CloseStep, SameAnswers
  <1> QED
    BY <1>4, <1>5, <1>6

LEMMA ReplySpeak ==
  ASSUME SpeakInv, SttInv', NEW c \in Callers, Reply(c)
  PROVE  SpeakInv'
  <1> USE DEF SpeakInv
  <1>1. /\ UNCHANGED <<sessions, sent, settled, dropped>> /\ thread[c] = "Replying"
        /\ work' = [work EXCEPT ![c] = NoWork] /\ thread' = [thread EXCEPT ![c] = "Idle"]
    BY DEF Reply
  <1>2. HandlersKnow'
    <2> DEFINE w == NoWork
               t == "Idle"
    <2>1. /\ work' = [work EXCEPT ![c] = w] /\ thread' = [thread EXCEPT ![c] = t]
          /\ t \notin {"Appending", "Flushing", "Waiting", "Replying"}
      BY <1>1
    <2> HIDE DEF w, t
    <2> QED
      BY <1>1, <2>1, MoveOn
  <1>3. AudioInv'
    BY ReplyStep
  <1>4. NothingLeftBehind'
    BY <1>1, SameSessions
  <1>5. BlankOnlyAfterBothModels'
    <2>0. PICK told \in Tellable(c) :
              answers' = [answers EXCEPT ![c] = Append(answers[c], Answer(c, told))]
      BY DEF Reply, Answer
    <2> DEFINE r == Answer(c, told)
    <2>1. answers' = [answers EXCEPT ![c] = Append(answers[c], r)]
      BY <2>0
    <2>2. WhisperWasAsked(r)
      <3>1. WhisperWasAsked(work[c])
        BY <1>1 DEF HandlersKnow, HandlerKnows
      <3>2. told = work[c].result \/ told.error
        BY AnswerType
      <3> QED
        BY <3>1, <3>2 DEF WhisperWasAsked, Answer
    <2>3. answers \in [Callers -> Seq(Answers)] /\ r \in Answers
      BY AnswerType DEF SttInv, AnswersType
    <2> HIDE DEF r
    <2>4. ASSUME NEW e \in Callers, NEW k \in DOMAIN answers'[e]
          PROVE  WhisperWasAsked(answers'[e][k])
      <3>1. CASE e # c
        <4>1. answers'[e] = answers[e]
          BY <2>1, <2>3, <3>1
        <4> QED
          BY <2>4, <4>1 DEF BlankOnlyAfterBothModels, WhisperWasAsked
      <3>2. CASE e = c
        <4>1. answers'[c] = Append(answers[c], r) /\ answers[c] \in Seq(Answers)
          BY <2>1, <2>3
        <4>2. /\ DOMAIN Append(answers[c], r) = 1 .. Len(answers[c]) + 1
              /\ DOMAIN answers[c] = 1 .. Len(answers[c]) /\ Len(answers[c]) \in Nat
              /\ Append(answers[c], r)[Len(answers[c]) + 1] = r
              /\ \A i \in 1 .. Len(answers[c]) : Append(answers[c], r)[i] = answers[c][i]
          BY <2>3, <4>1, AppendProperties, LenProperties
        <4>3. k \in 1 .. Len(answers[c]) \/ k = Len(answers[c]) + 1
          BY <2>4, <3>2, <4>1, <4>2
        <4>4. CASE k = Len(answers[c]) + 1
          BY <2>2, <3>2, <4>1, <4>2, <4>4
        <4>5. CASE k \in 1 .. Len(answers[c])
          <5>1. answers'[e][k] = answers[c][k] /\ k \in DOMAIN answers[c]
            BY <3>2, <4>1, <4>2, <4>5
          <5> QED
            BY <5>1 DEF BlankOnlyAfterBothModels, WhisperWasAsked
        <4> QED
          BY <4>3, <4>4, <4>5
      <3> QED
        BY <3>1, <3>2
    <2> QED
      BY <2>4 DEF BlankOnlyAfterBothModels, WhisperWasAsked
  <1> QED
    BY <1>2, <1>3, <1>4, <1>5

LEMMA SwallowSpeak ==
  ASSUME SpeakInv, SttInv', NEW c \in Callers, SwallowReply(c)
  PROVE  SpeakInv'
  <1> USE DEF SpeakInv
  <1>1. /\ UNCHANGED <<sessions, answers, sent, settled>>
        /\ work' = [work EXCEPT ![c] = NoWork] /\ thread' = [thread EXCEPT ![c] = "Idle"]
    BY DEF SwallowReply
  <1>2. HandlersKnow'
    <2> DEFINE w == NoWork
               t == "Idle"
    <2>1. /\ work' = [work EXCEPT ![c] = w] /\ thread' = [thread EXCEPT ![c] = t]
          /\ t \notin {"Appending", "Flushing", "Waiting", "Replying"}
      BY <1>1
    <2> HIDE DEF w, t
    <2> QED
      BY <1>1, <2>1, MoveOn
  <1>3. AudioInv'
    BY SwallowStep
  <1>4. NothingLeftBehind' /\ BlankOnlyAfterBothModels'
    BY <1>1, SameSessions, SameAnswers
  <1> QED
    BY <1>2, <1>3, <1>4

LEMMA CalledSpeak ==
  ASSUME SpeakInv, SttInv', Called
  PROVE  SpeakInv'
  <1>0. \A c \in WsConnections \cup GrpcCalls \cup RestCalls : c \in Callers
    BY DEF Callers
  <1>1. ASSUME NEW c \in WsConnections,
               \/ \E id \in SessionIds : WsHalfHandshake(c, id)
               \/ WsBreak(c) \/ WsFlushUnread(c)
        PROVE  SpeakInv'
    BY <1>1, UnheardSpeak DEF WsHalfHandshake, WsBreak, WsFlushUnread
  <1>2. ASSUME NEW c \in WsConnections, NEW id \in SessionIds, NEW model \in OfferedModels,
               NEW language \in Languages,
               WsHandshake(c, id, [model |-> model, language |-> language])
        PROVE  SpeakInv'
    BY <1>2, CallersOptions, HandshakeSpeak
  <1>3. ASSUME NEW c \in WsConnections, WsChunk(c)
        PROVE  SpeakInv'
    <2>1. c \in Callers /\ ws[c].id \in SessionIds
      BY <1>0, <1>3 DEF WsChunk, SpeakInv, SttInv, KnowsSession
    <2>2. StartAppend(c, ws[c].id, FALSE, DefaultOptions)
      BY <1>3 DEF WsChunk
    <2> QED
      BY <2>1, <2>2, StartAppendSpeak, DefaultOptionsType
  <1>4. ASSUME NEW c \in WsConnections, NEW model \in OfferedModels \cup {"auto"},
               NEW language \in Languages,
               WsFlush(c, [model |-> model, language |-> language])
        PROVE  SpeakInv'
    <2>1. c \in Callers /\ ws[c].id \in SessionIds
      BY <1>0, <1>4 DEF WsFlush, SpeakInv, SttInv, KnowsSession
    <2>2. StartFlush(c, ws[c].id, [model |-> model, language |-> language])
      BY <1>4 DEF WsFlush
    <2> QED
      BY <2>1, <2>2, StartFlushSpeak, CallersOptions
  <1>5. ASSUME NEW c \in WsConnections, WsClose(c)
        PROVE  SpeakInv'
    BY <1>5, CloseSpeak
  <1>6. ASSUME NEW c \in GrpcCalls, NEW id \in SessionIds,
               NEW model \in OfferedModels \cup {DefaultModel}, NEW flush \in BOOLEAN,
               GrpcChunk(c, id, flush, model)
        PROVE  SpeakInv'
    <2>1. StartAppend(c, id, flush, [model |-> model, language |-> ConfigLanguage])
      BY <1>6 DEF GrpcChunk
    <2> QED
      BY <1>0, <2>1, StartAppendSpeak, CallersOptions
  <1>7. ASSUME NEW c \in GrpcCalls, NEW id \in SessionIds,
               NEW model \in OfferedModels \cup {DefaultModel}, GrpcFlush(c, id, model)
        PROVE  SpeakInv'
    <2>1. StartFlush(c, id, [model |-> model, language |-> ConfigLanguage])
      BY <1>7 DEF GrpcFlush
    <2> QED
      BY <1>0, <2>1, StartFlushSpeak, CallersOptions
  <1>8. ASSUME NEW c \in RestCalls, NEW id \in SessionIds, NEW model \in OfferedModels,
               NEW language \in Languages,
               RestTranscribe(c, id, [model |-> model, language |-> language])
        PROVE  SpeakInv'
    BY <1>0, <1>8, RestSpeak, CallersOptions
  <1> QED
    BY <1>1, <1>2, <1>3, <1>4, <1>5, <1>6, <1>7, <1>8 DEF Called

LEMMA NextSpeak == SpeakInv /\ [Next]_vars => SpeakInv'
  <1> SUFFICES ASSUME SpeakInv, [Next]_vars
               PROVE  SpeakInv'
    OBVIOUS
  <1>1. SttInv'
    BY NextInv DEF SpeakInv
  <1>2. CASE UNCHANGED vars
    BY <1>1, <1>2, UnheardSpeak DEF vars
  <1>3. ASSUME NEW c \in Callers, Step(c)
        PROVE  SpeakInv'
    BY <1>1, <1>3, AppendSpeak, TakeSpeak, AcquireSpeak, DecodeSpeak, FallBackSpeak,
       ReplySpeak, SwallowSpeak DEF Step
  <1> QED
    BY <1>1, <1>2, <1>3, CalledSpeak DEF Next

(***************************************************************************)
(* The places of SttSessions, among all there may be.                      *)
(***************************************************************************)

LEMMA PlaceIsOne ==
  ASSUME SttInv, NEW p \in Places
  PROVE  p \in AllPlaces /\ PcmAt(p) = Audio[p]
  <1>1. CASE p \in {"session"} \X DOMAIN sessions
    <2>1. PICK id \in DOMAIN sessions : p = InSession(id)
      BY <1>1 DEF InSession
    <2>2. id \in SessionIds /\ SessionPcm(sessions, id) = sessions[id].pcm
      BY DEF SttInv, SessionsType, SessionPcm
    <2>3. PcmAt(p) = sessions[id].pcm
      BY <2>1 DEF PcmAt, InSession
    <2> QED
      BY <2>1, <2>2, <2>3, PlacesOfStates, AudioHere
  <1>2. CASE p \in {"handler"} \X Callers
    <2>1. PICK c \in Callers : p = InHandler(c)
      BY <1>2 DEF InHandler
    <2>2. PcmAt(p) = work[c].pcm
      BY <2>1 DEF PcmAt, InHandler
    <2>3. Audio[p] = HandlerPcm(work, c) /\ p \in AllPlaces
      BY <2>1, PlacesOfStates, AudioHere
    <2> QED
      BY <2>2, <2>3 DEF HandlerPcm
  <1>3. CASE p \in UNION {{<<"answer", c, k>> : k \in DOMAIN answers[c]} : c \in Callers}
    <2>1. PICK c \in Callers : p \in {<<"answer", c, k>> : k \in DOMAIN answers[c]}
      BY <1>3
    <2>2. PICK k \in DOMAIN answers[c] : p = InAnswer(c, k)
      BY <2>1 DEF InAnswer
    <2>3. k \in Numbers
      <3>1. answers[c] \in Seq(Answers)
        BY <2>1 DEF SttInv, AnswersType
      <3>2. k \in 1 .. Len(answers[c]) /\ Len(answers[c]) \in Nat
        BY <2>2, <3>1, LenProperties
      <3> QED
        BY <3>2 DEF Numbers
    <2>4. PcmAt(p) = answers[c][k].pcm
      BY <2>2 DEF PcmAt, InAnswer
    <2>5. Audio[p] = AnswerPcm(answers, c, k) /\ p \in AllPlaces
      BY <2>1, <2>2, <2>3, PlacesOfStates, AudioHere
    <2> QED
      BY <2>2, <2>4, <2>5 DEF AnswerPcm
  <1> QED
    BY <1>1, <1>2, <1>3 DEF Places

LEMMA IndicesOfAPlace ==
  ASSUME SttInv, AudioInv, NEW p \in AllPlaces
  PROVE  /\ DOMAIN Audio[p] = 1 .. Len(Audio[p]) /\ Len(Audio[p]) \in Nat
         /\ \A i \in DOMAIN Audio[p] : Audio[p][i] \in Chunks
  <1>1. AudioType(Audio)
    BY DEF AudioInv, AudioOk
  <1>2. Audio[p] \in Seq(Chunks)
    BY <1>1, ChunkAt
  <1> QED
    BY <1>2, LenProperties, ElementOfSeq

LEMMA HeardAtAPlace ==
  ASSUME SttInv, AudioInv, NEW p \in AllPlaces, NEW i \in DOMAIN Audio[p]
  PROVE  p \in Places
  <1>0. Audio[p] # << >>
    <2>1. DOMAIN << >> = 1 .. 0
      <3>1. << >> \in Seq({}) /\ Len(<< >>) = 0
        BY EmptySeq
      <3> QED
        BY <3>1
    <2> QED
      BY <2>1
  <1>1. CASE \E id \in SessionIds : p = InSession(id)
    <2>1. PICK id \in SessionIds : p = InSession(id)
      BY <1>1
    <2>2. id \in DOMAIN sessions
      BY <1>0, <2>1, AudioHere DEF SessionPcm
    <2> QED
      BY <2>1, <2>2 DEF Places, InSession
  <1>2. CASE \E c \in Callers : p = InHandler(c)
    BY <1>2 DEF Places, InHandler
  <1>3. CASE \E c \in Callers : \E k \in Numbers : p = InAnswer(c, k)
    <2>1. PICK c \in Callers, k \in Numbers : p = InAnswer(c, k)
      BY <1>3
    <2>2. Audio[p] = AnswerPcm(answers, c, k)
      BY <2>1, AudioHere
    <2>3. k \in DOMAIN answers[c]
      BY <1>0, <2>2 DEF AnswerPcm
    <2> QED
      BY <2>1, <2>3 DEF Places, InAnswer
  <1> QED
    BY <1>1, <1>2, <1>3, PlaceOfAKind

(***************************************************************************)
(* The theorems.                                                           *)
(***************************************************************************)

\* The audio of every place is what it should be, a handler on its way knows how
\* far its caller has spoken, and what its result may be
\* (src/src/stt/session_manager.cpp, src/src/stt/engine.cpp).
THEOREM SpeakInvHolds == Spec => []SpeakInv
  <1>1. Init => SpeakInv
    BY InitSpeak
  <1>2. SpeakInv /\ [Next]_vars => SpeakInv'
    BY NextSpeak
  <1> QED
    BY <1>1, <1>2, PTL DEF Spec

\* For any callers of any kind that share sessions as they like, no chunk is
\* ever in two sessions, handlers or answers, or twice in one: flush takes the
\* audio and erases the session under one lock (SttSessionManager::flush).
THEOREM NoAudioIsDoubled == Spec => []ChunkInOnePlace
  <1>1. SpeakInv => ChunkInOnePlace
    <2> SUFFICES ASSUME SpeakInv, NEW p \in Places, NEW q \in Places,
                        NEW i \in DOMAIN PcmAt(p), NEW j \in DOMAIN PcmAt(q),
                        PcmAt(p)[i] = PcmAt(q)[j]
                 PROVE  p = q /\ i = j
      BY DEF ChunkInOnePlace
    <2>1. /\ p \in AllPlaces /\ PcmAt(p) = Audio[p]
          /\ q \in AllPlaces /\ PcmAt(q) = Audio[q]
      BY PlaceIsOne DEF SpeakInv
    <2>2. i \in 1 .. Len(Audio[p]) /\ j \in 1 .. Len(Audio[q])
      BY <2>1, IndicesOfAPlace DEF SpeakInv
    <2>3. Audio[p][i].from = Audio[q][j].from /\ Audio[p][i].n = Audio[q][j].n
      BY <2>1
    <2> QED
      BY <2>1, <2>2, <2>3 DEF SpeakInv, AudioInv, AudioOk, Single
  <1> QED
    BY <1>1, SpeakInvHolds, PTL

\* No audio is lost on the way from its caller to a transcript, but that of a
\* session somebody closed and of a transcript that could not be written for its
\* WebSocket (append_chunk, flush, close; ws_server.cpp:230).
THEOREM NoAudioIsLost == Spec => []ChunksAreKept
  <1>1. SpeakInv => ChunksAreKept
    <2> SUFFICES ASSUME SpeakInv, NEW c \in Callers, NEW n \in 1 .. sent[c],
                        ~ \E chunk \in dropped : chunk.from = c /\ chunk.n = n
                 PROVE  \E p \in Places : \E i \in DOMAIN PcmAt(p) :
                            PcmAt(p)[i].from = c /\ PcmAt(p)[i].n = n
      BY DEF ChunksAreKept
    <2>1. PICK p \in AllPlaces :
              \E i \in 1 .. Len(Audio[p]) : Audio[p][i].from = c /\ Audio[p][i].n = n
      BY DEF SpeakInv, AudioInv, AudioOk, Kept
    <2>2. PICK i \in 1 .. Len(Audio[p]) : Audio[p][i].from = c /\ Audio[p][i].n = n
      BY <2>1
    <2>3. i \in DOMAIN Audio[p]
      BY <2>1, <2>2, IndicesOfAPlace DEF SpeakInv
    <2>4. p \in Places
      BY <2>1, <2>3, HeardAtAPlace DEF SpeakInv
    <2>5. PcmAt(p) = Audio[p]
      BY <2>4, PlaceIsOne DEF SpeakInv
    <2> QED
      BY <2>2, <2>3, <2>4, <2>5
  <1> QED
    BY <1>1, SpeakInvHolds, PTL

\* The audio of a caller is in the order it was sent, wherever it is and whoever
\* else speaks into the same session: what is about to be appended is the last
\* its caller sent (SttSessionManager::append_chunk).
THEOREM AudioStaysInOrder == Spec => []ChunksInOrder
  <1>1. SpeakInv => ChunksInOrder
    <2> SUFFICES ASSUME SpeakInv, NEW p \in Places,
                        NEW i \in DOMAIN PcmAt(p), NEW j \in DOMAIN PcmAt(p),
                        i < j, PcmAt(p)[i].from = PcmAt(p)[j].from
                 PROVE  PcmAt(p)[i].n < PcmAt(p)[j].n
      BY DEF ChunksInOrder
    <2>1. p \in AllPlaces /\ PcmAt(p) = Audio[p]
      BY PlaceIsOne DEF SpeakInv
    <2>2. i \in 1 .. Len(Audio[p]) /\ j \in 1 .. Len(Audio[p])
      BY <2>1, IndicesOfAPlace DEF SpeakInv
    <2> QED
      BY <2>1, <2>2 DEF SpeakInv, AudioInv, AudioOk, Ordered
  <1> QED
    BY <1>1, SpeakInvHolds, PTL

\* What a caller sent before its last flush or close is in no session any more
\* (flush and close, session_manager.cpp).
THEOREM FlushLeavesNothing == Spec => []NothingLeftBehind
  <1>1. SpeakInv => NothingLeftBehind
    BY DEF SpeakInv
  <1> QED
    BY <1>1, SpeakInvHolds, PTL

\* An answer of "auto" in which nothing was heard is whisper's or has an error,
\* however the attempts go and whichever model could be loaded
\* (SttEngine::transcribe_pcm16).
THEOREM AutoAsksWhisper == Spec => []BlankOnlyAfterBothModels
  <1>1. SpeakInv => BlankOnlyAfterBothModels
    BY DEF SpeakInv
  <1> QED
    BY <1>1, SpeakInvHolds, PTL
=============================================================================
