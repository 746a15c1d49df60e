---------------------------- MODULE SttSessions ----------------------------
(***************************************************************************)
(* SttSessionManager and the engine behind it, with everybody who calls    *)
(* them: WebSocket connections, which all share the one thread of the      *)
(* io_context, gRPC TranscribeStream calls and REST transcriptions, which  *)
(* have a thread each.  The manager's mutex is held for one step at a      *)
(* time: audio is prepared before it is taken, and flush lets go of it     *)
(* before it waits for the engine, whose own mutex is held from the first  *)
(* attempt to the result.                                                  *)
(***************************************************************************)
EXTENDS SttEngine, Naturals, Sequences

CONSTANTS
    SessionIds,
    WsConnections, GrpcCalls, RestCalls,    \* the callers
    NoCaller,
    ConfigLanguage, DefaultModel,           \* SttConfig::language, default_model
    Languages, OfferedModels,               \* what callers may ask for
    MaxChunks,                              \* bound on the chunks of a caller
    MaxFlushes                              \* bound on the flushes of a caller

Callers == WsConnections \cup GrpcCalls \cup RestCalls

ASSUME SessionsAssumption ==
    /\ NoCaller \notin Callers
    /\ WsConnections \cap GrpcCalls = {}
    /\ WsConnections \cap RestCalls = {}
    /\ GrpcCalls \cap RestCalls = {}
    /\ DefaultModel \in ModelChoices
    /\ OfferedModels \subseteq ModelChoices
    /\ "" \in Languages /\ ConfigLanguage \in Languages
    /\ MaxChunks \in Nat
    /\ MaxFlushes \in Nat

Options == [model : ModelChoices, language : Languages]

DefaultOptions == [model |-> DefaultModel, language |-> ConfigLanguage]

\* a chunk of audio, known by who sent it, to which session, and its number
Chunks == [from : Callers, id : SessionIds, n : 1 .. MaxChunks]

VARIABLES
    sessions,       \* SttSessionManager::sessions_
    ws,             \* the connections: how far they are, their session id, and
                    \* the options their handshake named
    thread,         \* where each caller's handler is
    work,           \* the handler's local variables
    engine,         \* who holds SttEngine::mutex_
    answers,        \* the transcripts each caller got, in order
    sent,           \* how many chunks each caller has sent
    flushes,        \* how many flushes each caller has asked for
    settled,        \* per caller and session, the chunks sent by the last flush or close
    dropped,        \* the chunks of closed sessions and of transcripts nobody was sent
    swallowed       \* how many flushes of each connection ended in catch (...)

vars == <<sessions, ws, thread, work, engine, answers, sent, flushes, settled, dropped,
          swallowed>>

NoWork == [id |-> "", pcm |-> << >>, asked |-> DefaultOptions, options |-> DefaultOptions,
           flush |-> FALSE, result |-> Failure("none")]

Init ==
    /\ sessions = << >>
    /\ ws = [c \in WsConnections |-> [phase |-> "Handshake", id |-> "", named |-> DefaultOptions]]
    /\ thread = [c \in Callers |-> "Idle"]
    /\ work = [c \in Callers |-> NoWork]
    /\ engine = NoCaller
    /\ answers = [c \in Callers |-> << >>]
    /\ sent = [c \in Callers |-> 0]
    /\ flushes = [c \in Callers |-> 0]
    /\ settled = [c \in Callers |-> [id \in SessionIds |-> 0]]
    /\ dropped = {}
    /\ swallowed = [c \in WsConnections |-> 0]

NewState == [pcm |-> << >>, options |-> [model |-> "auto", language |-> ""]]

StateOf(id) == IF id \in DOMAIN sessions THEN sessions[id] ELSE NewState

WithSession(id, state) ==
    [i \in DOMAIN sessions \cup {id} |-> IF i = id THEN state ELSE sessions[i]]

\* Seeded fault: the audio is copied and the session not erased
WithoutNoSession(id) == sessions

WithoutSession(id) == [i \in DOMAIN sessions \ {id} |-> sessions[i]]

\* a handler can start: its thread is free, which for a WebSocket connection
\* is the thread of all of them
CanStart(c) ==
    /\ thread[c] = "Idle"
    /\ c \in WsConnections => \A d \in WsConnections : thread[d] = "Idle"
    /\ c \in WsConnections => ws[c].phase \in {"Handshake", "Ready"}
-----------------------------------------------------------------------------
(***************************************************************************)
(* What the handlers are called with.                                      *)
(***************************************************************************)

\* SttWsSession::on_read, handshake understood: the session appears with the
\* options of the handshake; a language that is not named is the configured one
WsHandshake(c, id, options) ==
    /\ CanStart(c) /\ ws[c].phase = "Handshake"
    /\ ws' = [ws EXCEPT ![c] = [phase |-> "Ready", id |-> id, named |-> options]]
    /\ sessions' = WithSession(id, [StateOf(id) EXCEPT !.options = options])
    /\ UNCHANGED <<thread, work, engine, answers, sent, flushes, settled, dropped, swallowed>>

\* the connection is made ready before its options are read; if that throws,
\* the client is told of an error, and what it sends next is taken for audio
WsHalfHandshake(c, id) ==
    /\ CanStart(c) /\ ws[c].phase = "Handshake"
    /\ ws' = [ws EXCEPT ![c] = [phase |-> "Ready", id |-> id, named |-> DefaultOptions]]
    /\ UNCHANGED <<sessions, thread, work, engine, answers, sent, flushes, settled, dropped,
                   swallowed>>

NewChunk(c, id) == [from |-> c, id |-> id, n |-> sent[c] + 1]

\* a handler is called with a chunk, which it prepares before taking the lock
StartAppend(c, id, flush, options) ==
    /\ CanStart(c) /\ sent[c] < MaxChunks
    /\ sent' = [sent EXCEPT ![c] = @ + 1]
    /\ work' = [work EXCEPT ![c] = [NoWork EXCEPT !.id = id, !.pcm = <<NewChunk(c, id)>>,
                                                  !.asked = options, !.options = options,
                                                  !.flush = flush]]
    /\ thread' = [thread EXCEPT ![c] = "Appending"]
    /\ flushes' = [flushes EXCEPT ![c] = IF flush THEN @ + 1 ELSE @]
    /\ UNCHANGED <<sessions, ws, engine, answers, settled, dropped, swallowed>>

\* a handler is called with a flush
StartFlush(c, id, options) ==
    /\ CanStart(c) /\ flushes[c] < MaxFlushes
    /\ work' = [work EXCEPT ![c] = [NoWork EXCEPT !.id = id, !.asked = options,
                                                  !.options = options]]
    /\ thread' = [thread EXCEPT ![c] = "Flushing"]
    /\ flushes' = [flushes EXCEPT ![c] = @ + 1]
    /\ UNCHANGED <<sessions, ws, engine, answers, sent, settled, dropped, swallowed>>

WsChunk(c) ==
    /\ ws[c].phase = "Ready"
    /\ StartAppend(c, ws[c].id, FALSE, DefaultOptions)

\* a flush may name a model and a language; unnamed, they are "auto" and ""
WsFlush(c, options) ==
    /\ ws[c].phase = "Ready"
    /\ StartFlush(c, ws[c].id, options)

\* a flush whose model or language is no string: reading it throws before the
\* session is touched, and catch (...) leaves it without an answer
WsFlushUnread(c) ==
    /\ CanStart(c) /\ ws[c].phase = "Ready" /\ flushes[c] < MaxFlushes
    /\ flushes' = [flushes EXCEPT ![c] = @ + 1]
    /\ swallowed' = [swallowed EXCEPT ![c] = @ + 1]
    /\ UNCHANGED <<sessions, ws, thread, work, engine, answers, sent, settled, dropped>>

PcmRange(pcm) == {pcm[k] : k \in DOMAIN pcm}

\* Seeded fault: a closed connection leaves its session behind
WsCloseKeepingSession(c) ==
    /\ CanStart(c) /\ ws[c].phase = "Ready"
    /\ ws' = [ws EXCEPT ![c].phase = "Closed"]
    /\ settled' = [settled EXCEPT ![c][ws[c].id] = sent[c]]
    /\ UNCHANGED <<sessions, thread, work, engine, answers, sent, flushes, dropped, swallowed>>

\* on_read with error::closed
WsClose(c) ==
    /\ CanStart(c) /\ ws[c].phase = "Ready"
    /\ ws' = [ws EXCEPT ![c].phase = "Closed"]
    /\ sessions' = WithoutSession(ws[c].id)
    /\ settled' = [settled EXCEPT ![c][ws[c].id] = sent[c]]
    /\ dropped' = dropped \cup PcmRange(StateOf(ws[c].id).pcm)
    /\ UNCHANGED <<thread, work, engine, answers, sent, flushes, swallowed>>

\* on_read or on_write with another error: the session stays
WsBreak(c) ==
    /\ CanStart(c)
    /\ ws' = [ws EXCEPT ![c].phase = "Broken"]
    /\ UNCHANGED <<sessions, thread, work, engine, answers, sent, flushes, settled, dropped,
                   swallowed>>

\* a turn of TranscribeStream: a chunk, or a flush, or a chunk and a flush; the
\* flush is in the configured language and in the default model if none is named
GrpcChunk(c, id, flush, model) ==
    /\ flush => flushes[c] < MaxFlushes
    /\ StartAppend(c, id, flush, [model |-> model, language |-> ConfigLanguage])

GrpcFlush(c, id, model) ==
    StartFlush(c, id, [model |-> model, language |-> ConfigLanguage])

\* transcribe_batch: no session, straight to the engine
RestTranscribe(c, id, options) ==
    /\ CanStart(c) /\ sent[c] < MaxChunks /\ flushes[c] < MaxFlushes
    /\ sent' = [sent EXCEPT ![c] = @ + 1]
    /\ flushes' = [flushes EXCEPT ![c] = @ + 1]
    /\ work' = [work EXCEPT ![c] =
                   [NoWork EXCEPT !.id = id, !.pcm = <<NewChunk(c, id)>>, !.asked = options,
                        !.options = [options EXCEPT !.language =
                                        IF @ = "" THEN ConfigLanguage ELSE @]]]
    /\ thread' = [thread EXCEPT ![c] = IF SttEnabled THEN "Waiting" ELSE "Replying"]
    /\ UNCHANGED <<sessions, ws, engine, answers, settled, dropped, swallowed>>
-----------------------------------------------------------------------------
(***************************************************************************)
(* What the handlers do.                                                   *)
(***************************************************************************)

\* Seeded fault: the chunk replaces what the session holds
JoinedOver(pcm, prepared) == prepared

\* Seeded fault: the chunk goes to the front
JoinedInFront(pcm, prepared) == prepared \o pcm

Joined(pcm, prepared) == pcm \o prepared

\* the locked half of append_chunk; options without a language are replaced
AppendChunk(c) ==
    LET id    == work[c].id
        state == StateOf(id)
    IN  /\ thread[c] = "Appending"
        /\ sessions' = WithSession(id,
                           [pcm     |-> Joined(state.pcm, work[c].pcm),
                            options |-> IF state.options.language = "" THEN DefaultOptions
                                        ELSE state.options])
        /\ thread' = [thread EXCEPT ![c] = IF work[c].flush THEN "Flushing" ELSE "Idle"]
        /\ work' = [work EXCEPT ![c] = IF work[c].flush THEN [@ EXCEPT !.pcm = << >>]
                                       ELSE NoWork]
        /\ UNCHANGED <<ws, engine, answers, sent, flushes, settled, dropped, swallowed>>

\* the options a flush is carried out with
MergedOptions(options, session_options) ==
    [language |-> IF options.language # "" THEN options.language
                  ELSE IF session_options.language # "" THEN session_options.language
                  ELSE ConfigLanguage,
     model    |-> IF options.model = "auto" THEN session_options.model ELSE options.model]

\* the locked half of flush: the session's audio is taken and the session erased,
\* its options along with it; an unknown session is answered with an error, and
\* so is any flush when the engine is disabled
TakeSession(c) ==
    LET id    == work[c].id
        known == id \in DOMAIN sessions
    IN  /\ thread[c] = "Flushing"
        /\ sessions' = WithoutSession(id)
        /\ thread' = [thread EXCEPT ![c] = IF known /\ SttEnabled THEN "Waiting"
                                           ELSE "Replying"]
        /\ work' = IF known
                   THEN [work EXCEPT ![c].pcm = sessions[id].pcm,
                                     ![c].options = MergedOptions(@, sessions[id].options)]
                   ELSE work
        /\ settled' = [settled EXCEPT ![c][id] = sent[c]]
        /\ UNCHANGED <<ws, engine, answers, sent, flushes, dropped, swallowed>>

\* Seeded fault: the engine is entered without its lock
AcquireEngineUnlocked(c) ==
    /\ thread[c] = "Waiting"
    /\ engine' = c
    /\ thread' = [thread EXCEPT ![c] = "Decoding"]
    /\ UNCHANGED <<sessions, ws, work, answers, sent, flushes, settled, dropped, swallowed>>

AcquireEngine(c) ==
    /\ thread[c] = "Waiting"
    /\ engine = NoCaller
    /\ engine' = c
    /\ thread' = [thread EXCEPT ![c] = "Decoding"]
    /\ UNCHANGED <<sessions, ws, work, answers, sent, flushes, settled, dropped, swallowed>>

HasSamples(c) == work[c].pcm # << >>

\* Seeded fault: the engine is released only after a fallback
DecodeHoldingEngine(c) ==
    LET choice == work[c].options.model
    IN  /\ thread[c] = "Decoding"
        /\ \E result \in Attempts(FirstModel(choice), HasSamples(c)) :
               /\ work' = [work EXCEPT ![c].result = result]
               /\ thread' = [thread EXCEPT ![c] = IF NeedsFallback(choice, result)
                                                  THEN "FallingBack" ELSE "Replying"]
        /\ UNCHANGED <<sessions, ws, engine, answers, sent, flushes, settled, dropped, swallowed>>

\* the first attempt; a result that needs no fallback releases the engine
Decode(c) ==
    LET choice == work[c].options.model
    IN  /\ thread[c] = "Decoding"
        /\ \E result \in Attempts(FirstModel(choice), HasSamples(c)) :
               /\ work' = [work EXCEPT ![c].result = result]
               /\ IF NeedsFallback(choice, result)
                  THEN /\ thread' = [thread EXCEPT ![c] = "FallingBack"]
                       /\ UNCHANGED engine
                  ELSE /\ thread' = [thread EXCEPT ![c] = "Replying"]
                       /\ engine' = NoCaller
        /\ UNCHANGED <<sessions, ws, answers, sent, flushes, settled, dropped, swallowed>>

\* the second attempt of "auto"
FallBack(c) ==
    /\ thread[c] = "FallingBack"
    /\ \E fallback \in Attempts("whisper", HasSamples(c)) :
           work' = [work EXCEPT ![c].result = Combined(@, fallback)]
    /\ thread' = [thread EXCEPT ![c] = "Replying"]
    /\ engine' = NoCaller
    /\ UNCHANGED <<sessions, ws, answers, sent, flushes, settled, dropped, swallowed>>

\* Seeded fault: the handler's audio outlives the reply
ReplyKeepingAudio(c) ==
    /\ thread[c] = "Replying"
    /\ answers' = [answers EXCEPT ![c] = Append(@, [pcm     |-> work[c].pcm,
                                                   asked   |-> work[c].asked,
                                                   options |-> work[c].options,
                                                   result  |-> work[c].result])]
    /\ thread' = [thread EXCEPT ![c] = "Idle"]
    /\ UNCHANGED <<sessions, ws, work, engine, sent, flushes, settled, dropped, swallowed>>

\* what the caller is told: dump() throws over a text that is not UTF-8, which
\* over HTTP is answered with an error of its own
Tellable(c) ==
    IF c \in RestCalls /\ work[c].result.text THEN {work[c].result, Failure("none")}
    ELSE {work[c].result}

\* the result is sent to the caller, whose handler is done
Reply(c) ==
    /\ thread[c] = "Replying"
    /\ \E told \in Tellable(c) :
           answers' = [answers EXCEPT ![c] = Append(@, [pcm     |-> work[c].pcm,
                                                       asked   |-> work[c].asked,
                                                       options |-> work[c].options,
                                                       result  |-> told])]
    /\ thread' = [thread EXCEPT ![c] = "Idle"]
    /\ work' = [work EXCEPT ![c] = NoWork]
    /\ UNCHANGED <<sessions, ws, engine, sent, flushes, settled, dropped, swallowed>>

\* the same throw over a WebSocket ends in catch (...): the connection reads on,
\* and the transcript is gone with the audio it was made of
SwallowReply(c) ==
    /\ c \in WsConnections
    /\ thread[c] = "Replying" /\ work[c].result.text
    /\ thread' = [thread EXCEPT ![c] = "Idle"]
    /\ work' = [work EXCEPT ![c] = NoWork]
    /\ dropped' = dropped \cup PcmRange(work[c].pcm)
    /\ swallowed' = [swallowed EXCEPT ![c] = @ + 1]
    /\ UNCHANGED <<sessions, ws, engine, answers, sent, flushes, settled>>

\* what a handler goes on to do once it was called
Step(c) ==
    \/ AppendChunk(c) \/ TakeSession(c) \/ AcquireEngine(c)
    \/ Decode(c) \/ FallBack(c) \/ Reply(c) \/ SwallowReply(c)

Called ==
    \/ \E c \in WsConnections :
           \/ \E id \in SessionIds :
                  \/ WsHalfHandshake(c, id)
                  \/ \E model \in OfferedModels, language \in Languages :
                         WsHandshake(c, id, [model |-> model, language |-> language])
           \/ WsChunk(c)
           \/ \E model \in OfferedModels \cup {"auto"}, language \in Languages :
                  WsFlush(c, [model |-> model, language |-> language])
           \/ WsFlushUnread(c)
           \/ WsClose(c)
           \/ WsBreak(c)
    \/ \E c \in GrpcCalls, id \in SessionIds, model \in OfferedModels \cup {DefaultModel} :
           \/ \E flush \in BOOLEAN : GrpcChunk(c, id, flush, model)
           \/ GrpcFlush(c, id, model)
    \/ \E c \in RestCalls, id \in SessionIds, model \in OfferedModels, language \in Languages :
           RestTranscribe(c, id, [model |-> model, language |-> language])

Next == Called \/ \E c \in Callers : Step(c)

Spec == Init /\ [][Next]_vars

\* Threads keep running once a handler was called.  The engine's mutex is not
\* fair, but callers that stop calling stop competing for it.
FairSpec == Spec /\ \A c \in Callers : WF_vars(Step(c))
-----------------------------------------------------------------------------
Busy == {"Appending", "Flushing", "Waiting", "Decoding", "FallingBack", "Replying"}

\* Types; a handler that is done holds no audio.
TypeOK ==
    /\ DOMAIN sessions \subseteq SessionIds
    /\ \A id \in DOMAIN sessions :
           sessions[id] \in [pcm : Seq(Chunks), options : Options]
    /\ ws \in [WsConnections -> [phase : {"Handshake", "Ready", "Closed", "Broken"},
                                  id : SessionIds \cup {""}, named : Options]]
    /\ thread \in [Callers -> Busy \cup {"Idle"}]
    /\ work \in [Callers -> [id : SessionIds \cup {""}, pcm : Seq(Chunks), asked : Options,
                             options : Options, flush : BOOLEAN, result : Results]]
    /\ \A c \in Callers : thread[c] = "Idle" => work[c].pcm = << >>
    /\ engine \in Callers \cup {NoCaller}
    /\ answers \in [Callers -> Seq([pcm : Seq(Chunks), asked : Options, options : Options,
                                    result : Results])]
    /\ sent \in [Callers -> Nat]
    /\ flushes \in [Callers -> Nat]
    /\ settled \in [Callers -> [SessionIds -> Nat]]
    /\ dropped \subseteq Chunks
    /\ swallowed \in [WsConnections -> Nat]

\* One transcription at a time: whoever is decoding holds the engine, and the
\* engine is held by nobody else (the lock of transcribe_pcm16, engine.cpp:304).
DecodesAlone ==
    \A c \in Callers :
        thread[c] \in {"Decoding", "FallingBack"} <=> engine = c

\* the stretches of audio there are, wherever they are
Places ==
    ({"session"} \X DOMAIN sessions) \cup ({"handler"} \X Callers)
        \cup UNION {{<<"answer", c, k>> : k \in DOMAIN answers[c]} : c \in Callers}

PcmAt(place) ==
    CASE place[1] = "session" -> sessions[place[2]].pcm
      [] place[1] = "handler" -> work[place[2]].pcm
      [] OTHER -> answers[place[2]][place[3]].pcm

\* No audio is transcribed twice: a chunk is in one place at a time, its session,
\* one handler or one answer, and in it once, although flush takes the audio
\* under the lock and transcribes it long after (session_manager.cpp:55).
ChunkInOnePlace ==
    \A p, q \in Places :
        \A i \in DOMAIN PcmAt(p), j \in DOMAIN PcmAt(q) :
            PcmAt(p)[i] = PcmAt(q)[j] => p = q /\ i = j

\* No audio is lost but that of a session somebody closed and that of a transcript
\* which could not be written down for its WebSocket (ws_server.cpp:230): every
\* other chunk a caller has sent is in some place.
ChunksAreKept ==
    \A c \in Callers : \A n \in 1 .. sent[c] :
        \/ \E chunk \in dropped : chunk.from = c /\ chunk.n = n
        \/ \E p \in Places : \E i \in DOMAIN PcmAt(p) :
               PcmAt(p)[i].from = c /\ PcmAt(p)[i].n = n

\* The audio of a caller stays in the order it was sent, in the session and in
\* the transcript, whoever else speaks into the same session.
ChunksInOrder ==
    \A p \in Places : \A i, j \in DOMAIN PcmAt(p) :
        i < j /\ PcmAt(p)[i].from = PcmAt(p)[j].from => PcmAt(p)[i].n < PcmAt(p)[j].n

\* A flush or a close leaves none of the caller's earlier audio in the session,
\* to be heard again by the next flush or by another connection of that id.
NothingLeftBehind ==
    \A id \in DOMAIN sessions : \A i \in DOMAIN sessions[id].pcm :
        sessions[id].pcm[i].n > settled[sessions[id].pcm[i].from][id]

\* "auto" says that nothing was heard only after whisper was asked too, or with
\* an error (docs/spec/voice-quality-assessment.md:72).
BlankOnlyAfterBothModels ==
    \A c \in Callers : \A k \in DOMAIN answers[c] :
        LET answer == answers[c][k]
        IN  answer.options.model = "auto" /\ ~ answer.result.text =>
                answer.result.model = "whisper" \/ answer.result.error

\* flushes that were asked for and are not to be answered any more
Unanswered(c) == IF c \in WsConnections THEN swallowed[c] ELSE 0

\* Every flush is answered, one answer to each, whoever else waits for the engine
\* or for the io_context thread; but for those of a WebSocket whose exception
\* ended in the catch (...) of ws_server.cpp:236.
EveryFlushIsAnswered ==
    \A c \in Callers : \A k \in 1 .. MaxFlushes :
        flushes[c] >= k ~> Len(answers[c]) + Unanswered(c) >= k

\* The audio of a flush that names no model is transcribed with the model the
\* connection's handshake named (docs/spec/voice-quality-assessment.md:86).
HandshakeModelIsUsed ==
    \A c \in WsConnections : \A k \in DOMAIN answers[c] :
        LET answer == answers[c][k]
        IN  answer.asked.model = "auto" /\ answer.pcm # << >> /\ ws[c].named.language # "" =>
                answer.options.model = ws[c].named.model
-----------------------------------------------------------------------------
(***************************************************************************)
(* The promise of TranscriptDelivery, kept: what waits is the audio of the *)
(* sessions, what was collected is what a handler took and has not sent,   *)
(* and a session that is unknown is one in which nothing waits.            *)
(***************************************************************************)
Promise == INSTANCE TranscriptDelivery WITH
    MayMiss   <- WsConnections,
    waiting   <- [id \in SessionIds |-> StateOf(id).pcm],
    collected <- [c \in Callers |->
                     IF thread[c] \in {"Waiting", "Decoding", "FallingBack", "Replying"}
                     THEN <<work[c].pcm>> ELSE << >>],
    told      <- [c \in Callers |-> [k \in DOMAIN answers[c] |-> answers[c][k].pcm]]

\* The sessions keep the promise: nothing else ever happens to the audio.
KeepsThePromise == Promise!Spec

\* The sessions keep the promise, and nothing collected is kept back for ever.
KeepsThePromiseInTime == Promise!FairSpec
=============================================================================
