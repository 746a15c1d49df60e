--------------------------- MODULE QualityStreams ---------------------------
(***************************************************************************)
(* Everybody who streams audio for quality reports, over one               *)
(* SessionManager: WebSocket connections (QualityWsSession in              *)
(* src/src/server/ws_server.cpp), gRPC AnalyzeStream calls                 *)
(* (grpc_server.cpp) and analyze-stream requests of the REST playground    *)
(* (rest_server.cpp).  They run on threads of their own and meet in the    *)
(* session ids they name; ids are the callers' choice and nothing keeps    *)
(* two of them from choosing the same.                                     *)
(***************************************************************************)
EXTENDS SessionManager

CONSTANTS
    SessionIds,
    WsConnections, GrpcCalls, SseRequests,  \* the callers
    OfferedFormats,                         \* the formats they use
    Sound,                                  \* what their audio sounds like
    WireSequences,                          \* sequence numbers their packets bear
    MaxPushes                               \* bound on the frames pushed in all

ASSUME StreamsAssumption ==
    /\ WsConnections \cap GrpcCalls = {}
    /\ WsConnections \cap SseRequests = {}
    /\ GrpcCalls \cap SseRequests = {}
    /\ OfferedFormats \subseteq Formats
    /\ Sound \in Blocks
    /\ WireSequences \subseteq Sequences16 \cap Timestamps32
    /\ MaxPushes \in Nat

VARIABLES
    sessions,   \* SessionManager::sessions_
    ws,         \* the connections: WsSessionConfig and how far they are
    sse,        \* the requests: their arguments and how far they are
    reported,   \* the report the last step sent out, if it did
    heard,      \* for each session, the pushes that made it what it is
    pushes      \* how many pushes there were

vars == <<sessions, ws, sse, reported, heard, pushes>>

Users == WsConnections \cup GrpcCalls \cup SseRequests

Init ==
    /\ sessions = << >>
    /\ ws = [c \in WsConnections |->
                [phase |-> "Handshake", session_id |-> "", format |-> "pcm_s16le_8k",
                 timestamp_ms |-> 0]]
    /\ sse = [r \in SseRequests |-> [phase |-> "Idle", session_id |-> "", format |-> ""]]
    /\ reported = << >>
    /\ heard = << >>
    /\ pushes = 0

\* One frame of sound, whole or with a byte missing; as RTP, in a packet that
\* bears one of the sequence numbers or that is not one of this format.
PayloadsOf(format) ==
    LET samples == [i \in 1 .. FrameBlocks(SampleRateForFormat(format)) |-> Sound]
        Packet(ok, sequence) ==
            [header_ok |-> ok, payload_type |-> PayloadType(format),
             sequence |-> sequence, timestamp |-> sequence]
        As(odd, packet) == [odd |-> odd, packet |-> packet, samples |-> samples]
    IN  IF format \in PcmFormats
        THEN {As(odd, Packet(FALSE, 0)) : odd \in BOOLEAN}
        ELSE {As(FALSE, Packet(TRUE, s)) : s \in WireSequences}
                 \cup {As(FALSE, Packet(FALSE, 0))}

\* the samples of the payload reach the analyzer
Audible(format, payload) ==
    IF format \in PcmFormats THEN ~ payload.odd
    ELSE Accepts(payload.packet, PayloadType(format))

HeardBy(id) == IF id \in DOMAIN heard THEN heard[id] ELSE << >>

\* push_frame on behalf of a user
Push(user, id, format, payload, timestamp_ms) ==
    LET pushed == PushFrame(sessions, id, format, payload, timestamp_ms)
        entry  == [user |-> user, format |-> format, audible |-> Audible(format, payload)]
    IN  /\ pushes < MaxPushes
        /\ pushes' = pushes + 1
        /\ sessions' = pushed.sessions
        /\ reported' = IF pushed.result = << >> THEN << >>
                       ELSE <<[id |-> id, format |-> format, report |-> pushed.result[1]]>>
        /\ heard' = WithSession(heard, id, Append(HeardBy(id), entry))

Forget(id) ==
    /\ sessions' = RemoveSession(sessions, id)
    /\ heard' = RemoveSession(heard, id)
    /\ reported' = << >>
    /\ UNCHANGED pushes

\* QualityWsSession::on_read, first message: the handshake is understood ..
WsHandshake(c, id, format) ==
    /\ ws[c].phase = "Handshake"
    /\ ws' = [ws EXCEPT ![c] = [phase |-> "Ready", session_id |-> id, format |-> format,
                                timestamp_ms |-> 0]]
    /\ reported' = << >>
    /\ UNCHANGED <<sessions, sse, heard, pushes>>

\* .. or names an unknown format, after which the client may try again
WsBadHandshake(c, id) ==
    /\ ws[c].phase = "Handshake"
    /\ ws' = [ws EXCEPT ![c].session_id = id]
    /\ reported' = << >>
    /\ UNCHANGED <<sessions, sse, heard, pushes>>

\* on_read of a frame; the session's clock advances with each report
WsFrame(c, payload) ==
    /\ ws[c].phase = "Ready"
    /\ Push(c, ws[c].session_id, ws[c].format, payload, ws[c].timestamp_ms)
    /\ ws' = IF reported' = << >> THEN ws ELSE [ws EXCEPT ![c].timestamp_ms = @ + 20]
    /\ UNCHANGED sse

\* Seeded fault: a closed connection leaves its session behind
WsCloseKeepingSession(c) ==
    /\ ws[c].phase = "Ready"
    /\ ws' = [ws EXCEPT ![c].phase = "Closed"]
    /\ reported' = << >>
    /\ UNCHANGED <<sessions, sse, heard, pushes>>

\* on_read with error::closed, once the handshake is over
WsClose(c) ==
    /\ ws[c].phase = "Ready"
    /\ ws' = [ws EXCEPT ![c].phase = "Closed"]
    /\ Forget(ws[c].session_id)
    /\ UNCHANGED sse

\* on_read or on_write with any other error: the handlers just stop
WsBreak(c) ==
    /\ ws[c].phase \in {"Handshake", "Ready"}
    /\ ws' = [ws EXCEPT ![c].phase = "Broken"]
    /\ reported' = << >>
    /\ UNCHANGED <<sessions, sse, heard, pushes>>

\* a turn of AnalyzeStream: each frame names its session and its format, and
\* no session is removed when the stream ends
GrpcFrame(g, id, format, payload) ==
    /\ Push(g, id, format, payload, 0)
    /\ UNCHANGED <<ws, sse>>

SseStart(r, id, format) ==
    /\ sse[r].phase = "Idle"
    /\ sse' = [sse EXCEPT ![r] = [phase |-> "Running", session_id |-> id, format |-> format]]
    /\ reported' = << >>
    /\ UNCHANGED <<sessions, ws, heard, pushes>>

\* a turn of the loop over the frames of the request
SseFrame(r, payload) ==
    /\ sse[r].phase = "Running"
    /\ Push(r, sse[r].session_id, sse[r].format, payload, 0)
    /\ UNCHANGED <<ws, sse>>

SseFinish(r) ==
    /\ sse[r].phase = "Running"
    /\ sse' = [sse EXCEPT ![r].phase = "Done"]
    /\ Forget(sse[r].session_id)
    /\ UNCHANGED ws

\* an exception in the loop: the removal after it is skipped
SseFail(r) ==
    /\ sse[r].phase = "Running"
    /\ sse' = [sse EXCEPT ![r].phase = "Failed"]
    /\ reported' = << >>
    /\ UNCHANGED <<sessions, ws, heard, pushes>>

Next ==
    \/ \E c \in WsConnections :
           \/ \E id \in SessionIds :
                  \/ WsBadHandshake(c, id)
                  \/ \E format \in OfferedFormats : WsHandshake(c, id, format)
           \/ \E payload \in PayloadsOf(ws[c].format) : WsFrame(c, payload)
           \/ WsClose(c)
           \/ WsBreak(c)
    \/ \E g \in GrpcCalls, id \in SessionIds, format \in OfferedFormats :
           \E payload \in PayloadsOf(format) : GrpcFrame(g, id, format, payload)
    \/ \E r \in SseRequests :
           \/ \E id \in SessionIds, format \in OfferedFormats : SseStart(r, id, format)
           \/ sse[r].phase = "Running" /\ \E payload \in PayloadsOf(sse[r].format) : SseFrame(r, payload)
           \/ SseFinish(r)
           \/ SseFail(r)

Spec == Init /\ [][Next]_vars
-----------------------------------------------------------------------------
\* Types; between two steps no window is full.
TypeOK ==
    /\ DOMAIN sessions \subseteq SessionIds
    /\ DOMAIN heard = DOMAIN sessions
    /\ \A id \in DOMAIN sessions :
           /\ sessions[id].analyzer.gate \in Gates
           /\ Len(sessions[id].analyzer.frame_buffer) < WindowFrames
           /\ sessions[id].rtp \in Depacketizers
    /\ \A c \in WsConnections : ws[c].phase \in {"Handshake", "Ready", "Closed", "Broken"}
    /\ \A r \in SseRequests : sse[r].phase \in {"Idle", "Running", "Done", "Failed"}
    /\ pushes \in 0 .. MaxPushes

Finished ==
    {c \in WsConnections : ws[c].phase = "Closed"}
        \cup {r \in SseRequests : sse[r].phase = "Done"}

\* Whoever ended in good order has left nothing behind: no session that lives on
\* has been touched by a connection that closed after its handshake or by a
\* request that was answered, whoever else used the same id meanwhile.
NothingLeftOfTheFinished ==
    \A id \in DOMAIN sessions : \A k \in 1 .. Len(heard[id]) :
        heard[id][k].user \notin Finished

\* the pushes a session heard since its sample rate last changed
SinceRateChange(pushed, sample_rate) ==
    {k \in 1 .. Len(pushed) :
        \A j \in k .. Len(pushed) : SampleRateForFormat(pushed[j].format) = sample_rate}

FramesHeard(id) ==
    Cardinality({k \in SinceRateChange(heard[id], sessions[id].analyzer.sample_rate) :
                    heard[id][k].audible})

\* A window holds audio of one sample rate, each frame once: what is buffered is
\* what was heard since the rate last changed, less the windows completed,
\* however many callers take turns and however often they change format.
WindowsAreOfOneRate ==
    \A id \in DOMAIN sessions :
        Len(sessions[id].analyzer.frame_buffer) = FramesHeard(id) % WindowFrames

\* A session says ready only after hysteresis_ok_windows whole windows at its
\* current sample rate: readiness is never inherited from a session that was
\* removed or from an analyzer that was replaced (analyzer.cpp:267).
ReadyIsEarned ==
    \A id \in DOMAIN sessions :
        sessions[id].analyzer.gate.current_state =>
            FramesHeard(id) >= HysteresisOkWindows * WindowFrames

\* the last RTP packet of a session was turned away
TurnedAway(pushed) ==
    \E k \in 1 .. Len(pushed) :
        /\ pushed[k].format \in RtpFormats /\ ~ pushed[k].audible
        /\ \A j \in k + 1 .. Len(pushed) : pushed[j].format \in PcmFormats

\* the statistics that came with the last RTP packet of a session
LastStats(session, pushed) ==
    IF TurnedAway(pushed) THEN NoStats ELSE StatsOf(session.rtp)

\* A report shows the loss and the jitter as they stood at the session's last RTP
\* packet.  One on RTP audio is sent on a packet that was accepted, so it shows all
\* that the depacketizer has counted, whatever was turned away before; one on PCM
\* that shares the session shows nothing after a packet that was turned away
\* (analyzer.cpp:278), and again what was counted after one that was not.
ReportShowsTheLoss ==
    \A k \in 1 .. Len(reported) :
        LET id      == reported[k].id
            metrics == reported[k].report.metrics
            stats   == LastStats(sessions[id], heard[id])
        IN  /\ metrics.packet_loss_pct = LossPct(stats)
            /\ metrics.jitter_ms = JitterMs(stats, sessions[id].clock_rate)
            /\ reported[k].format \in RtpFormats => ~ TurnedAway(heard[id])
=============================================================================
