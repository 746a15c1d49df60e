------------------------ MODULE QualityStreamsProofs ------------------------
(***************************************************************************)
(* Theorems about QualityStreams, for any callers, ids and bounds.  What a *)
(* caller did to a session outlives it only where the caller did not end   *)
(* in good order, because a caller that removes a session at its end has   *)
(* used no other; and what a session's window, gate and depacketizer hold  *)
(* is a tally of what it heard, whoever sent it.                           *)
(***************************************************************************)
EXTENDS QualityStreams, VoiceAnalyzerProofs, FiniteSetTheorems

Entries == [user : Users, format : Formats, audible : BOOLEAN]

Connections == [phase : {"Handshake", "Ready", "Closed", "Broken"}, session_id : SessionIds \cup {""},
                format : Formats, timestamp_ms : Nat]

Requests == [phase : {"Idle", "Running", "Done", "Failed"}, session_id : SessionIds \cup {""},
             format : Formats \cup {""}]

StreamsType ==
    /\ ws \in [WsConnections -> Connections]
    /\ sse \in [SseRequests -> Requests]
    /\ \A r \in SseRequests : sse[r].phase = "Running" => sse[r].format \in Formats

HeardType ==
    /\ DOMAIN heard = DOMAIN sessions
    /\ \A id \in DOMAIN heard : heard[id] \in Seq(Entries)

\* the callers that made a session what it is
Touched(h, u, id) == id \in DOMAIN h /\ \E k \in 1 .. Len(h[id]) : h[id][k].user = u

\* a caller with a session of its own has not left it
InItsSession(u, id) ==
    /\ u \in WsConnections => ws[u].phase \in {"Ready", "Broken"} /\ ws[u].session_id = id
    /\ u \in SseRequests => sse[u].phase \in {"Running", "Failed"} /\ sse[u].session_id = id

Faithful == \A u \in Users : \A id \in DOMAIN heard : Touched(heard, u, id) => InItsSession(u, id)

StreamsInv == StreamsType /\ HeardType /\ Faithful

LEMMA PushFrameDomain ==
  ASSUME NEW h, NEW id, NEW format, NEW payload, NEW timestamp_ms
  PROVE  DOMAIN PushFrame(h, id, format, payload, timestamp_ms).sessions = DOMAIN h \cup {id}
  <1>1. PICK session : PushFrame(h, id, format, payload, timestamp_ms).sessions
                           = WithSession(h, id, session)
    <2>1. CASE format \in RtpFormats
      BY <2>1 DEF PushFrame, PushRtpPacket
    <2>2. CASE format \notin RtpFormats
      BY <2>2 DEF PushFrame, PushPcmPayload
    <2> QED
      BY <2>1, <2>2
  <1> DEFINE pushed == PushFrame(h, id, format, payload, timestamp_ms).sessions
  <1>2. pushed = WithSession(h, id, session)
    BY <1>1
  <1> HIDE DEF pushed
  <1>3. DOMAIN pushed = DOMAIN h \cup {id}
    BY <1>2 DEF WithSession
  <1> QED
    BY <1>3 DEF pushed

LEMMA AudibleType ==
  ASSUME NEW format, NEW payload
  PROVE  Audible(format, payload) \in BOOLEAN
  BY DEF Audible, Accepts

\* A frame is one more push into its session, by its caller.
LEMMA PushTouches ==
  ASSUME HeardType, NEW user \in Users, NEW id, NEW format \in Formats, NEW payload,
         NEW timestamp_ms, Push(user, id, format, payload, timestamp_ms)
  PROVE  /\ HeardType'
         /\ \A u, i : Touched(heard', u, i) => Touched(heard, u, i) \/ (u = user /\ i = id)
  <1> DEFINE entry == [user |-> user, format |-> format, audible |-> Audible(format, payload)]
             before == HeardBy(id)
             after == Append(before, entry)
  <1>1. entry \in Entries /\ entry.user = user
    BY AudibleType DEF Entries
  <1>2. heard' = WithSession(heard, id, after)
    BY DEF Push
  <1>3. DOMAIN sessions' = DOMAIN sessions \cup {id}
    BY PushFrameDomain DEF Push
  <1>4. /\ before \in Seq(Entries)
        /\ id \in DOMAIN heard => before = heard[id]
        /\ id \notin DOMAIN heard => before = << >>
    BY EmptySeq DEF HeardType, HeardBy
  <1> HIDE DEF entry, before
  <1>5. /\ after \in Seq(Entries) /\ Len(before) \in Nat /\ Len(after) = Len(before) + 1
        /\ after[Len(before) + 1] = entry
        /\ \A k \in 1 .. Len(before) : after[k] = before[k]
    BY <1>1, <1>4, AppendProperties, LenProperties
  <1> HIDE DEF after
  <1>6. /\ DOMAIN heard' = DOMAIN heard \cup {id} /\ heard'[id] = after
        /\ \A i \in DOMAIN heard : i # id => heard'[i] = heard[i]
    BY <1>2 DEF WithSession
  <1>7. HeardType'
    BY <1>3, <1>5, <1>6 DEF HeardType
  <1>8. ASSUME NEW u, NEW i, Touched(heard', u, i)
        PROVE  Touched(heard, u, i) \/ (u = user /\ i = id)
    <2>1. PICK k \in 1 .. Len(heard'[i]) : i \in DOMAIN heard' /\ heard'[i][k].user = u
      BY <1>8 DEF Touched
    <2>2. CASE i # id
      <3>1. i \in DOMAIN heard /\ heard'[i] = heard[i]
        BY <1>6, <2>1, <2>2
      <3> QED
        BY <2>1, <3>1 DEF Touched
    <2>3. CASE i = id
      <3>1. k \in 1 .. Len(before) + 1 /\ after[k].user = u
        BY <1>5, <1>6, <2>1, <2>3
      <3>2. CASE k = Len(before) + 1
        BY <1>1, <1>5, <2>3, <3>1, <3>2
      <3>3. CASE k \in 1 .. Len(before)
        <4>1. before[k].user = u
          BY <1>5, <3>1, <3>3
        <4>2. id \in DOMAIN heard
          <5>1. Len(<< >>) = 0
            BY EmptySeq
          <5> QED
            BY <1>4, <3>3, <5>1
        <4> QED
          BY <1>4, <2>3, <3>3, <4>1, <4>2 DEF Touched
      <3> QED
        BY <1>5, <3>1, <3>2, <3>3
    <2> QED
      BY <2>2, <2>3
  <1> QED
    BY <1>7, <1>8

\* What is removed is touched no more.
LEMMA ForgetTouches ==
  ASSUME HeardType, NEW id, Forget(id)
  PROVE  /\ HeardType'
         /\ \A u, i : Touched(heard', u, i) => Touched(heard, u, i) /\ i # id
  <1>1. /\ DOMAIN heard' = DOMAIN heard \ {id} /\ \A i \in DOMAIN heard' : heard'[i] = heard[i]
        /\ DOMAIN sessions' = DOMAIN sessions \ {id}
    BY DEF Forget, RemoveSession
  <1> QED
    BY <1>1 DEF HeardType, Touched

\* what is left to show of a step: who has touched is still where it was
LEMMA FaithfulStep ==
  ASSUME HeardType',
         \A u \in Users : \A id : Touched(heard', u, id) => InItsSession(u, id)'
  PROVE  Faithful'
  BY DEF Faithful

LEMMA TouchedInItsSession ==
  ASSUME Faithful, NEW u \in Users, NEW id, Touched(heard, u, id)
  PROVE  InItsSession(u, id)
  BY DEF Faithful, Touched

LEMMA SameHeard ==
  ASSUME HeardType, UNCHANGED <<sessions, heard>>
  PROVE  HeardType'
  BY DEF HeardType

LEMMA UsersApart ==
  /\ WsConnections \subseteq Users /\ GrpcCalls \subseteq Users /\ SseRequests \subseteq Users
  /\ \A u \in WsConnections : u \notin SseRequests
  /\ \A u \in GrpcCalls : u \notin WsConnections /\ u \notin SseRequests
  BY StreamsAssumption DEF Users

\* a caller that pushes is in its session
LEMMA PushInv ==
  ASSUME StreamsInv, StreamsType', NEW user \in Users, NEW id, NEW format \in Formats,
         NEW payload, NEW timestamp_ms, Push(user, id, format, payload, timestamp_ms),
         \A c \in WsConnections : ws'[c].phase = ws[c].phase /\ ws'[c].session_id = ws[c].session_id,
         sse' = sse, InItsSession(user, id)
  PROVE  StreamsInv'
  <1>1. /\ HeardType'
        /\ \A u, i : Touched(heard', u, i) => Touched(heard, u, i) \/ (u = user /\ i = id)
    BY PushTouches DEF StreamsInv
  <1>2. ASSUME NEW u \in Users, NEW i, Touched(heard', u, i)
        PROVE  InItsSession(u, i)'
    <2>1. InItsSession(u, i)
      BY <1>1, <1>2, TouchedInItsSession DEF StreamsInv
    <2> QED
      BY <2>1 DEF InItsSession
  <1>3. Faithful'
    BY <1>1, <1>2, FaithfulStep
  <1> QED
    BY <1>1, <1>3 DEF StreamsInv

\* a caller that goes elsewhere, or ends, has touched nothing that is left
LEMMA MoveInv ==
  ASSUME StreamsInv, StreamsType', HeardType', NEW v \in Users,
         \A u, i : Touched(heard', u, i) => Touched(heard, u, i),
         \A c \in WsConnections : c # v => ws'[c] = ws[c],
         \A r \in SseRequests : r # v => sse'[r] = sse[r],
         \A i : ~ Touched(heard', v, i) \/ InItsSession(v, i)'
  PROVE  StreamsInv'
  <1>1. ASSUME NEW u \in Users, NEW i, Touched(heard', u, i)
        PROVE  InItsSession(u, i)'
    <2>1. CASE u = v
      BY <1>1, <2>1
    <2>2. CASE u # v
      <3>1. InItsSession(u, i)
        BY <1>1, TouchedInItsSession DEF StreamsInv
      <3> QED
        BY <2>2, <3>1 DEF InItsSession
    <2> QED
      BY <2>1, <2>2
  <1>2. Faithful'
    BY <1>1, FaithfulStep
  <1> QED
    BY <1>2 DEF StreamsInv

\* a caller that has not begun has touched nothing
LEMMA Untouched ==
  ASSUME StreamsInv, NEW v \in Users,
         \/ v \in WsConnections /\ ws[v].phase = "Handshake"
         \/ v \in SseRequests /\ sse[v].phase = "Idle"
  PROVE  \A i : ~ Touched(heard, v, i)
  <1>1. ASSUME NEW i, Touched(heard, v, i)
        PROVE  FALSE
    <2>1. InItsSession(v, i)
      BY <1>1, TouchedInItsSession DEF StreamsInv
    <2> QED
      BY <2>1 DEF InItsSession
  <1> QED
    BY <1>1

LEMMA HandshakeInv ==
  ASSUME StreamsInv, NEW c \in WsConnections, NEW id \in SessionIds,
         WsBadHandshake(c, id) \/ \E format \in OfferedFormats : WsHandshake(c, id, format)
  PROVE  StreamsInv'
  <1>1. StreamsType'
    <2>1. CASE WsBadHandshake(c, id)
      BY <2>1 DEF WsBadHandshake, StreamsInv, StreamsType, Connections
    <2>2. CASE \E format \in OfferedFormats : WsHandshake(c, id, format)
      <3>1. PICK format \in OfferedFormats : WsHandshake(c, id, format)
        BY <2>2
      <3>2. format \in Formats
        BY <3>1, StreamsAssumption
      <3> QED
        BY <3>1, <3>2 DEF WsHandshake, StreamsInv, StreamsType, Connections
    <2> QED
      BY <2>1, <2>2
  <1>2. /\ UNCHANGED <<sessions, sse, heard>> /\ ws[c].phase = "Handshake"
        /\ \A d \in WsConnections : d # c => ws'[d] = ws[d]
    BY DEF WsBadHandshake, WsHandshake, StreamsInv, StreamsType
  <1>3. HeardType' /\ c \in Users
    BY <1>2, SameHeard, UsersApart DEF StreamsInv
  <1>4. \A i : ~ Touched(heard', c, i)
    BY <1>2, <1>3, Untouched
  <1> QED
    BY <1>1, <1>2, <1>3, <1>4, MoveInv

LEMMA WsFrameInv ==
  ASSUME StreamsInv, NEW c \in WsConnections, NEW payload, WsFrame(c, payload)
  PROVE  StreamsInv'
  <1>1. /\ ws[c].phase = "Ready" /\ sse' = sse
        /\ Push(c, ws[c].session_id, ws[c].format, payload, ws[c].timestamp_ms)
        /\ ws' = ws \/ ws' = [ws EXCEPT ![c].timestamp_ms = @ + 20]
    BY DEF WsFrame
  <1>2. ws \in [WsConnections -> Connections]
    BY DEF StreamsInv, StreamsType
  <1>3. /\ ws' \in [WsConnections -> Connections]
        /\ \A d \in WsConnections : ws'[d].phase = ws[d].phase /\ ws'[d].session_id = ws[d].session_id
    <2> DEFINE later == ws[c].timestamp_ms + 20
               w == [ws[c] EXCEPT !.timestamp_ms = later]
    <2>3. ws[c] \in Connections /\ later \in Nat
      <3>1. ws[c] \in Connections
        BY <1>2
      <3>2. ws[c].timestamp_ms \in Nat
        BY <3>1 DEF Connections
      <3>3. \A n \in Nat : n + 20 \in Nat
        OBVIOUS
      <3> QED
        BY <3>1, <3>2, <3>3
    <2>2. ws' = ws \/ ws' = [ws EXCEPT ![c] = w]
      BY <1>1
    <2> HIDE DEF later
    <2>1. w \in Connections /\ w.phase = ws[c].phase /\ w.session_id = ws[c].session_id
      BY <2>3 DEF Connections
    <2> HIDE DEF w
    <2> QED
      BY <1>2, <2>1, <2>2
  <1>4. StreamsType'
    BY <1>1, <1>3 DEF StreamsInv, StreamsType
  <1>5. c \in Users /\ ws[c].format \in Formats
    BY <1>2, UsersApart DEF Connections
  <1>6. InItsSession(c, ws[c].session_id)
    BY <1>1, UsersApart DEF InItsSession
  <1> QED
    BY <1>1, <1>3, <1>4, <1>5, <1>6, PushInv

LEMMA WsEndInv ==
  ASSUME StreamsInv, NEW c \in WsConnections, WsClose(c) \/ WsBreak(c)
  PROVE  StreamsInv'
  <1>1. StreamsType' /\ sse' = sse /\ \A d \in WsConnections : d # c => ws'[d] = ws[d]
    BY DEF WsClose, WsBreak, StreamsInv, StreamsType, Connections
  <1>2. c \in Users
    BY UsersApart
  <1>3. CASE WsClose(c)
    <2> DEFINE id == ws[c].session_id
    <2>1. Forget(id) /\ ws[c].phase = "Ready"
      BY <1>3 DEF WsClose
    <2>2. HeardType' /\ \A u, i : Touched(heard', u, i) => Touched(heard, u, i) /\ i # id
      BY <2>1, ForgetTouches DEF StreamsInv
    <2>3. ASSUME NEW i, Touched(heard', c, i)
          PROVE  FALSE
      <3>1. InItsSession(c, i)
        BY <1>2, <2>2, <2>3, TouchedInItsSession DEF StreamsInv
      <3> QED
        BY <2>2, <2>3, <3>1 DEF InItsSession
    <2> QED
      BY <1>1, <1>2, <2>2, <2>3, MoveInv
  <1>4. CASE WsBreak(c)
    <2>1. UNCHANGED <<sessions, heard>>
      BY <1>4 DEF WsBreak
    <2>2. HeardType'
      BY <2>1, SameHeard DEF StreamsInv
    <2>3. ASSUME NEW i, Touched(heard', c, i)
          PROVE  InItsSession(c, i)'
      <3>1. InItsSession(c, i)
        BY <1>2, <2>1, <2>3, TouchedInItsSession DEF StreamsInv
      <3>2. ws'[c].phase = "Broken" /\ ws'[c].session_id = ws[c].session_id
        BY <1>4 DEF WsBreak, StreamsInv, StreamsType, Connections
      <3> QED
        BY <1>1, <3>1, <3>2 DEF InItsSession
    <2> QED
      BY <1>1, <1>2, <2>1, <2>2, <2>3, MoveInv
  <1> QED
    BY <1>3, <1>4

LEMMA GrpcFrameInv ==
  ASSUME StreamsInv, NEW g \in GrpcCalls, NEW id \in SessionIds, NEW format \in OfferedFormats,
         NEW payload, GrpcFrame(g, id, format, payload)
  PROVE  StreamsInv'
  <1>1. Push(g, id, format, payload, 0) /\ UNCHANGED <<ws, sse>>
    BY DEF GrpcFrame
  <1>2. StreamsType'
    BY <1>1 DEF StreamsInv, StreamsType
  <1>3. g \in Users /\ format \in Formats /\ InItsSession(g, id)
    BY UsersApart, StreamsAssumption DEF InItsSession
  <1> QED
    BY <1>1, <1>2, <1>3, PushInv

LEMMA SseStartInv ==
  ASSUME StreamsInv, NEW r \in SseRequests, NEW id \in SessionIds, NEW format \in OfferedFormats,
         SseStart(r, id, format)
  PROVE  StreamsInv'
  <1>1. /\ UNCHANGED <<sessions, ws, heard>> /\ sse[r].phase = "Idle"
        /\ \A q \in SseRequests : q # r => sse'[q] = sse[q]
    BY DEF SseStart, StreamsInv, StreamsType
  <1>2. format \in Formats
    BY StreamsAssumption
  <1>3. StreamsType'
    BY <1>2 DEF SseStart, StreamsInv, StreamsType, Requests
  <1>4. HeardType' /\ r \in Users
    BY <1>1, SameHeard, UsersApart DEF StreamsInv
  <1>5. \A i : ~ Touched(heard', r, i)
    BY <1>1, <1>4, Untouched
  <1> QED
    BY <1>1, <1>3, <1>4, <1>5, MoveInv

LEMMA SseFrameInv ==
  ASSUME StreamsInv, NEW r \in SseRequests, NEW payload, SseFrame(r, payload)
  PROVE  StreamsInv'
  <1>1. /\ Push(r, sse[r].session_id, sse[r].format, payload, 0) /\ UNCHANGED <<ws, sse>>
        /\ sse[r].phase = "Running"
    BY DEF SseFrame
  <1>2. StreamsType'
    BY <1>1 DEF StreamsInv, StreamsType
  <1>3. r \in Users /\ sse[r].format \in Formats /\ InItsSession(r, sse[r].session_id)
    BY <1>1, UsersApart DEF InItsSession, StreamsInv, StreamsType
  <1> QED
    BY <1>1, <1>2, <1>3, PushInv

LEMMA SseEndInv ==
  ASSUME StreamsInv, NEW r \in SseRequests, SseFinish(r) \/ SseFail(r)
  PROVE  StreamsInv'
  <1>1. StreamsType' /\ ws' = ws /\ \A q \in SseRequests : q # r => sse'[q] = sse[q]
    BY DEF SseFinish, SseFail, StreamsInv, StreamsType, Requests
  <1>2. r \in Users /\ r \notin WsConnections
    BY UsersApart
  <1>3. CASE SseFinish(r)
    <2> DEFINE id == sse[r].session_id
    <2>1. Forget(id)
      BY <1>3 DEF SseFinish
    <2>2. HeardType' /\ \A u, i : Touched(heard', u, i) => Touched(heard, u, i) /\ i # id
      BY <2>1, ForgetTouches DEF StreamsInv
    <2>3. ASSUME NEW i, Touched(heard', r, i)
          PROVE  FALSE
      <3>1. InItsSession(r, i)
        BY <1>2, <2>2, <2>3, TouchedInItsSession DEF StreamsInv
      <3> QED
        BY <2>2, <2>3, <3>1 DEF InItsSession
    <2> QED
      BY <1>1, <1>2, <2>2, <2>3, MoveInv
  <1>4. CASE SseFail(r)
    <2>1. UNCHANGED <<sessions, heard>>
      BY <1>4 DEF SseFail
    <2>2. HeardType'
      BY <2>1, SameHeard DEF StreamsInv
    <2>3. ASSUME NEW i, Touched(heard', r, i)
          PROVE  InItsSession(r, i)'
      <3>1. InItsSession(r, i)
        BY <1>2, <2>1, <2>3, TouchedInItsSession DEF StreamsInv
      <3>2. sse'[r].phase = "Failed" /\ sse'[r].session_id = sse[r].session_id
        BY <1>4 DEF SseFail, StreamsInv, StreamsType, Requests
      <3> QED
        BY <1>2, <3>1, <3>2 DEF InItsSession
    <2> QED
      BY <1>1, <1>2, <2>1, <2>2, <2>3, MoveInv
  <1> QED
    BY <1>3, <1>4

LEMMA InitStreams == Init => StreamsInv
  <1> SUFFICES ASSUME Init
               PROVE  StreamsInv
    OBVIOUS
  <1>1. StreamsType
    BY DEF Init, StreamsType, Connections, Requests, Formats, PcmFormats
  <1>2. DOMAIN << >> = 1 .. 0
    <2>1. << >> \in Seq({}) /\ Len(<< >>) = 0
      BY EmptySeq
    <2> QED
      BY <2>1
  <1>3. DOMAIN heard = 1 .. 0 /\ DOMAIN sessions = 1 .. 0
    BY <1>2 DEF Init
  <1>4. \A id \in 1 .. 0 : FALSE
    OBVIOUS
  <1>5. HeardType /\ Faithful
    BY <1>3, <1>4 DEF HeardType, Faithful
  <1> QED
    BY <1>1, <1>5 DEF StreamsInv

LEMMA NextStreams == StreamsInv /\ [Next]_vars => StreamsInv'
  <1> SUFFICES ASSUME StreamsInv, [Next]_vars
               PROVE  StreamsInv'
    OBVIOUS
  <1>1. CASE UNCHANGED vars
    BY <1>1 DEF vars, StreamsInv, StreamsType, HeardType, Faithful, InItsSession, Touched
  <1>2. ASSUME NEW c \in WsConnections,
               \/ \E id \in SessionIds :
                      \/ WsBadHandshake(c, id)
                      \/ \E format \in OfferedFormats : WsHandshake(c, id, format)
               \/ \E payload \in PayloadsOf(ws[c].format) : WsFrame(c, payload)
               \/ WsClose(c)
               \/ WsBreak(c)
        PROVE  StreamsInv'
    BY <1>2, HandshakeInv, WsFrameInv, WsEndInv
  <1>3. ASSUME NEW g \in GrpcCalls, NEW id \in SessionIds, NEW format \in OfferedFormats,
               \E payload \in PayloadsOf(format) : GrpcFrame(g, id, format, payload)
        PROVE  StreamsInv'
    BY <1>3, GrpcFrameInv
  <1>4. ASSUME NEW r \in SseRequests,
               \/ \E id \in SessionIds, format \in OfferedFormats : SseStart(r, id, format)
               \/ /\ sse[r].phase = "Running"
                  /\ \E payload \in PayloadsOf(sse[r].format) : SseFrame(r, payload)
               \/ SseFinish(r)
               \/ SseFail(r)
        PROVE  StreamsInv'
    BY <1>4, SseStartInv, SseFrameInv, SseEndInv
  <1> QED
    BY <1>1, <1>2, <1>3, <1>4 DEF Next

\* The inductive invariant holds: every push that made a session what it is came
\* from a gRPC call, or from a connection or a request that still has this
\* session and did not end in good order (QualityWsSession, RestServer).
THEOREM StreamsInvHolds == Spec => []StreamsInv
  <1>1. Init => StreamsInv
    BY InitStreams
  <1>2. StreamsInv /\ [Next]_vars => StreamsInv'
    BY NextStreams
  <1> QED
    BY <1>1, <1>2, PTL DEF Spec

\* For any callers, whatever ids they share, a connection that closed and a
\* request that was answered have left no trace in a session that lives on
\* (SessionManager::remove_session and its two callers).
THEOREM NothingIsLeft == Spec => []NothingLeftOfTheFinished
  <1>1. StreamsInv => NothingLeftOfTheFinished
    <2> SUFFICES ASSUME StreamsInv, NEW id \in DOMAIN sessions, NEW k \in 1 .. Len(heard[id])
                 PROVE  heard[id][k].user \notin Finished
      BY DEF NothingLeftOfTheFinished
    <2>1. PICK u : u = heard[id][k].user /\ Touched(heard, u, id)
      BY DEF Touched, StreamsInv, HeardType
    <2>2. u \in Users
      <3>1. heard[id] \in Seq(Entries)
        BY DEF StreamsInv, HeardType
      <3>2. heard[id][k] \in Entries
        BY <3>1, ElementOfSeq
      <3> QED
        BY <2>1, <3>2 DEF Entries
    <2>3. InItsSession(u, id)
      BY <2>1, <2>2, TouchedInItsSession DEF StreamsInv
    <2> QED
      BY <2>1, <2>3 DEF Finished, InItsSession
  <1> QED
    BY <1>1, StreamsInvHolds, PTL
-----------------------------------------------------------------------------
(***************************************************************************)
(* Readiness counted in frames.  A session's analyzer holds the frames     *)
(* heard at its rate that did not fill a window yet; its gate has seen a   *)
(* verdict for each window the others filled, and no more.                 *)
(***************************************************************************)

\* the frames heard since the rate last changed, by their places
HeardAt(pushed, sample_rate) ==
    {k \in SinceRateChange(pushed, sample_rate) : pushed[k].audible}

\* of count frames some filled windows that were closed, and the rest is buffered
Tally(a, count) ==
    \E closed \in Nat :
        /\ count = closed * WindowFrames + Len(a.frame_buffer)
        /\ a.gate.consecutive_ok <= closed
        /\ a.gate.current_state => HysteresisOkWindows <= closed

SessionRecords == [analyzer : Analyzers, rtp : Depacketizers, clock_rate : {50, 100}]

\* what an analyzer was told last of its packets
Told(session, stats) ==
    /\ session.analyzer.rtp_packet_loss_pct = LossPct(stats)
    /\ session.analyzer.rtp_jitter_ms = JitterMs(stats, session.clock_rate)

WellKept(session, pushed) ==
    /\ session \in SessionRecords
    /\ Ready(session.analyzer)
    /\ Told(session, LastStats(session, pushed))
    /\ Tally(session.analyzer, Cardinality(HeardAt(pushed, session.analyzer.sample_rate)))
    /\ Len(pushed) > 0
    /\ SampleRateForFormat(pushed[Len(pushed)].format) = session.analyzer.sample_rate

SessionsInv == \A id \in DOMAIN sessions : WellKept(sessions[id], heard[id])

\* One more push is one more frame heard, if it is audible, whatever the rate was.
LEMMA HeardAppend ==
  ASSUME NEW h \in Seq(Entries), NEW e \in Entries,
         NEW sample_rate, sample_rate = SampleRateForFormat(e.format),
         NEW g, g = Append(h, e)
  PROVE  /\ Cardinality(HeardAt(h, sample_rate)) \in Nat
         /\ Cardinality(HeardAt(g, sample_rate))
                = Cardinality(HeardAt(h, sample_rate)) + (IF e.audible THEN 1 ELSE 0)
         /\ Len(g) > 0 /\ SampleRateForFormat(g[Len(g)].format) = sample_rate
  <1> DEFINE n == Len(h)
             rate(p, j) == SampleRateForFormat(p[j].format)
             S == HeardAt(h, sample_rate)
             T == HeardAt(g, sample_rate)
  <1>1. /\ n \in Nat /\ Len(g) = n + 1 /\ g[n + 1] = e
        /\ \A j \in 1 .. n : g[j] = h[j]
    BY LenProperties, AppendProperties
  <1>2. /\ \A k : k \in S <=> /\ k \in 1 .. n /\ h[k].audible
                              /\ \A j \in k .. n : rate(h, j) = sample_rate
        /\ \A k : k \in T <=> /\ k \in 1 .. n + 1 /\ g[k].audible
                              /\ \A j \in k .. n + 1 : rate(g, j) = sample_rate
    BY <1>1 DEF HeardAt, SinceRateChange
  <1>3. rate(g, n + 1) = sample_rate /\ \A j \in 1 .. n : rate(g, j) = rate(h, j)
    BY <1>1
  <1>4. e.audible \in BOOLEAN
    BY DEF Entries
  <1> HIDE DEF S, T, rate, n
  <1>5. \A k \in 1 .. n : k \in T <=> k \in S
    <2> SUFFICES ASSUME NEW k \in 1 .. n
                 PROVE  k \in T <=> k \in S
      OBVIOUS
    <2>1. k \in 1 .. n + 1 /\ g[k].audible = h[k].audible
      BY <1>1
    <2>2. (\A j \in k .. n : rate(h, j) = sample_rate)
              <=> \A j \in k .. n + 1 : rate(g, j) = sample_rate
      <3>1. \A j \in k .. n : j \in 1 .. n /\ j \in k .. n + 1
        BY <1>1
      <3>2. \A j \in k .. n + 1 : j \in k .. n \/ j = n + 1
        BY <1>1
      <3> QED
        BY <1>3, <3>1, <3>2
    <2> QED
      BY <1>2, <2>1, <2>2
  <1>6. n + 1 \in T <=> e.audible
    <2>1. n + 1 \in 1 .. n + 1 /\ \A j \in n + 1 .. n + 1 : j = n + 1
      BY <1>1
    <2> QED
      BY <1>1, <1>2, <1>3, <2>1
  <1>7. S \subseteq 1 .. n /\ T \subseteq 1 .. n + 1 /\ n + 1 \notin 1 .. n
    BY <1>1, <1>2
  <1>8. T = IF e.audible THEN S \cup {n + 1} ELSE S
    <2>1. \A k \in 1 .. n + 1 : k \in 1 .. n \/ k = n + 1
      BY <1>1
    <2>2. CASE e.audible
      <3>1. \A k : k \in T <=> k \in S \cup {n + 1}
        BY <1>5, <1>6, <1>7, <2>1, <2>2
      <3> QED
        BY <2>2, <3>1
    <2>3. CASE ~ e.audible
      <3>1. \A k : k \in T <=> k \in S
        BY <1>5, <1>6, <1>7, <2>1, <2>3
      <3> QED
        BY <2>3, <3>1
    <2> QED
      BY <2>2, <2>3
  <1>9. IsFiniteSet(S)
    <2>1. IsFiniteSet(1 .. n)
      BY <1>1, FS_Interval
    <2> QED
      BY <1>7, <2>1, FS_Subset
  <1>10. Cardinality(S) \in Nat /\ Cardinality(S \cup {n + 1}) = Cardinality(S) + 1
    BY <1>7, <1>9, FS_CardinalityType, FS_AddElement
  <1>11. Cardinality(T) = Cardinality(S) + (IF e.audible THEN 1 ELSE 0)
    BY <1>4, <1>8, <1>10
  <1>12. Len(g) > 0 /\ SampleRateForFormat(g[Len(g)].format) = sample_rate
    BY <1>1
  <1> QED
    BY <1>10, <1>11, <1>12 DEF S, T

\* Only a push of RTP changes whether the last packet was turned away.
LEMMA TurnedAwayAppend ==
  ASSUME NEW h \in Seq(Entries), NEW e \in Entries, NEW g, g = Append(h, e)
  PROVE  TurnedAway(g) <=> IF e.format \in RtpFormats THEN ~ e.audible ELSE TurnedAway(h)
  <1> DEFINE n == Len(h)
             LastAt(p, m, k) == /\ p[k].format \in RtpFormats /\ ~ p[k].audible
                                /\ \A j \in k + 1 .. m : p[j].format \in PcmFormats
  <1>1. /\ n \in Nat /\ Len(g) = n + 1 /\ g[n + 1] = e
        /\ \A j \in 1 .. n : g[j] = h[j]
    BY LenProperties, AppendProperties
  <1>2. e.format \in PcmFormats <=> e.format \notin RtpFormats
    BY DEF Entries, Formats, PcmFormats, RtpFormats
  <1>3. /\ TurnedAway(h) <=> \E k \in 1 .. n : LastAt(h, n, k)
        /\ TurnedAway(g) <=> \E k \in 1 .. n + 1 : LastAt(g, n + 1, k)
    BY <1>1 DEF TurnedAway
  <1> HIDE DEF n
  <1>4. \A k \in 1 .. n : LastAt(g, n + 1, k) <=> LastAt(h, n, k) /\ e.format \in PcmFormats
    <2> SUFFICES ASSUME NEW k \in 1 .. n
                 PROVE  LastAt(g, n + 1, k) <=> LastAt(h, n, k) /\ e.format \in PcmFormats
      OBVIOUS
    <2>1. g[k] = h[k] /\ n + 1 \in k + 1 .. n + 1
      BY <1>1
    <2>2. /\ \A j \in k + 1 .. n : j \in k + 1 .. n + 1 /\ g[j] = h[j]
          /\ \A j \in k + 1 .. n + 1 : j \in k + 1 .. n \/ j = n + 1
      BY <1>1
    <2> QED
      BY <1>1, <2>1, <2>2
  <1>5. LastAt(g, n + 1, n + 1) <=> e.format \in RtpFormats /\ ~ e.audible
    <2>1. \A j \in n + 1 + 1 .. n + 1 : FALSE
      BY <1>1
    <2> QED
      BY <1>1, <2>1
  <1>6. /\ \A k \in 1 .. n + 1 : k \in 1 .. n \/ k = n + 1
        /\ \A k \in 1 .. n : k \in 1 .. n + 1
        /\ n + 1 \in 1 .. n + 1
    BY <1>1
  <1> HIDE DEF LastAt
  <1> QED
    BY <1>2, <1>3, <1>4, <1>5, <1>6

\* Nothing was heard at a rate that is not the one of the last push.
LEMMA HeardNothing ==
  ASSUME NEW h, Len(h) \in Nat, NEW sample_rate,
         Len(h) > 0 => SampleRateForFormat(h[Len(h)].format) # sample_rate
  PROVE  Cardinality(HeardAt(h, sample_rate)) = 0
  <1>1. ASSUME NEW k \in HeardAt(h, sample_rate)
        PROVE  FALSE
    <2>1. /\ k \in 1 .. Len(h)
          /\ \A j \in k .. Len(h) : SampleRateForFormat(h[j].format) = sample_rate
      BY DEF HeardAt, SinceRateChange
    <2>2. Len(h) \in k .. Len(h) /\ Len(h) > 0
      BY <2>1
    <2> QED
      BY <2>1, <2>2
  <1>2. HeardAt(h, sample_rate) = {}
    BY <1>1
  <1> QED
    BY <1>2, FS_EmptySet

\* A verdict adds one passing window at most, and makes a gate ready only with enough.
LEMMA EvaluateCounts ==
  ASSUME NEW g \in Gates, NEW m
  PROVE  /\ Evaluate(g, m).consecutive_ok <= g.consecutive_ok + 1
         /\ Evaluate(g, m).current_state =>
                g.current_state \/ HysteresisOkWindows <= g.consecutive_ok + 1
  <1>1. g.consecutive_ok \in Nat
    BY DEF Gates
  <1>2. /\ GateAfterPass(g).consecutive_ok = g.consecutive_ok + 1
        /\ GateAfterPass(g).current_state =>
               g.current_state \/ HysteresisOkWindows <= g.consecutive_ok + 1
    BY <1>1, GateAssumption DEF GateAfterPass
  <1>3. /\ GateAfterFail(g).consecutive_ok = 0
        /\ GateAfterFail(g).current_state => g.current_state
    BY DEF GateAfterFail
  <1> QED
    BY <1>1, <1>2, <1>3 DEF Evaluate

\* a report shows what an analyzer was told of its packets
ShownBy(report, a) ==
    /\ report.metrics.packet_loss_pct = a.rtp_packet_loss_pct
    /\ report.metrics.jitter_ms = a.rtp_jitter_ms

\* The loss and the jitter a window's report shows are those the analyzer was told of.
LEMMA ReportedLoss ==
  ASSUME NEW a, NEW gate
  PROVE  ShownBy(WindowReport(a, MetricsOf(a), gate), a)
  <1>1. MetricsOf(a).packet_loss_pct = a.rtp_packet_loss_pct
    BY Zenon DEF MetricsOf, Measured
  <1>2. MetricsOf(a).jitter_ms = a.rtp_jitter_ms
    BY Zenon DEF MetricsOf, Measured
  <1> QED
    BY <1>1, <1>2 DEF WindowReport, ShownBy

\* A frame of sound is one more frame in the tally.
LEMMA FrameTallies ==
  ASSUME NEW a, Ready(a), NEW count \in Nat, Tally(a, count),
         NEW samples \in Seq(Blocks), Len(samples) \in 1 .. FrameBlocks(a.sample_rate),
         NEW t \in Nat, NEW p, p = PushPcm(a, samples, t)
  PROVE  /\ InLoop(p) /\ SameSource(p.analyzer, a)
         /\ Tally(p.analyzer, count + 1)
         /\ \/ p.result = << >>
            \/ \E r : p.result = <<r>> /\ ShownBy(r, a)
  <1> DEFINE begun == Begun(a, t)
             c     == begun.analyzer
             held  == WithFrame(c, samples)
             l     == Len(a.frame_buffer)
  <1>1. /\ InLoop(begun) /\ begun.result = << >> /\ SameSource(c, a) /\ c.gate = a.gate
        /\ c.frame_buffer = a.frame_buffer
    BY BegunType
  <1>2. p = TakeFrame(begun, samples, t)
    BY PushOfFrame
  <1>3. c \in Analyzers
    BY <1>1 DEF InLoop, Ready
  <1>4. /\ InLoop(p) /\ SameSource(p.analyzer, c)
        /\ l + 1 = WindowFrames => p = CloseWindow(held, t)
        /\ l + 1 # WindowFrames => p.analyzer = held /\ p.result = begun.result
    BY <1>1, <1>2, TakeFrameType
  <1>5. /\ held \in Analyzers /\ Len(held.frame_buffer) = l + 1
        /\ held.gate = a.gate /\ SameSource(held, c)
    BY <1>1, <1>3, WithFrameType
  <1>6. l \in Nat /\ a.gate \in Gates /\ a.gate.consecutive_ok \in Nat /\ WindowFrames \in Nat
    BY LenProperties, WindowFramesType DEF Ready, Analyzers, Gates
  <1>7. PICK closed \in Nat :
            /\ count = closed * WindowFrames + l
            /\ a.gate.consecutive_ok <= closed
            /\ a.gate.current_state => HysteresisOkWindows <= closed
    BY DEF Tally
  <1> HIDE DEF begun, c, held, l
  <1>8. SameSource(p.analyzer, a)
    BY <1>1, <1>4 DEF SameSource
  <1>9. CASE l + 1 # WindowFrames
    <2>1. p.analyzer = held /\ p.result = << >>
      BY <1>1, <1>4, <1>9
    <2>2. count + 1 = closed * WindowFrames + (l + 1)
      BY <1>6, <1>7
    <2>3. Tally(held, count + 1)
      BY <1>5, <1>7, <2>2 DEF Tally
    <2> QED
      BY <1>4, <1>8, <2>1, <2>3
  <1>10. CASE l + 1 = WindowFrames
    <2> DEFINE m == MetricsOf(held)
               g == Evaluate(held.gate, m)
               r == WindowReport(held, m, g)
    <2>1. p = CloseWindow(held, t)
      BY <1>4, <1>10
    <2>2. p.result = <<r>> /\ p.analyzer.frame_buffer = << >> /\ p.analyzer.gate = g
      BY <1>5, <2>1, CloseWindowType
    <2>3. ShownBy(r, a)
      <3>1. ShownBy(r, held)
        BY ReportedLoss
      <3> HIDE DEF r
      <3> QED
        BY <1>1, <1>5, <3>1 DEF SameSource, ShownBy
    <2>4. /\ g.consecutive_ok <= a.gate.consecutive_ok + 1
          /\ g.current_state =>
                 a.gate.current_state \/ HysteresisOkWindows <= a.gate.consecutive_ok + 1
      BY <1>5, <1>6, EvaluateCounts
    <2>5. g.consecutive_ok \in Nat
      BY <1>5, <1>6, EvaluateType DEF Gates
    <2> HIDE DEF g, r, m
    <2>6. Len(<< >>) = 0
      BY EmptySeq
    <2>7. count + 1 = (closed + 1) * WindowFrames + 0
      <3>1. (closed + 1) * WindowFrames = closed * WindowFrames + WindowFrames
        BY <1>6
      <3> QED
        BY <1>6, <1>7, <1>10, <3>1
    <2>8. g.consecutive_ok <= closed + 1 /\ (g.current_state => HysteresisOkWindows <= closed + 1)
      BY <1>6, <1>7, <2>4, <2>5, GateAssumption
    <2>9. closed + 1 \in Nat
      OBVIOUS
    <2>10. Tally(p.analyzer, count + 1)
      BY <2>2, <2>6, <2>7, <2>8, <2>9 DEF Tally
    <2> QED
      BY <1>4, <1>8, <2>2, <2>3, <2>10
  <1> QED
    BY <1>9, <1>10

\* A push of nothing leaves the tally, and reports nothing.
LEMMA SilenceTallies ==
  ASSUME NEW a, Ready(a), NEW count \in Nat, Tally(a, count), NEW t \in Nat,
         NEW p, p = PushPcm(a, << >>, t)
  PROVE  /\ InLoop(p) /\ SameSource(p.analyzer, a)
         /\ Tally(p.analyzer, count)
         /\ p.result = << >>
  <1>1. p = Begun(a, t)
    BY PushOfSilence
  <1>2. /\ InLoop(p) /\ p.result = << >> /\ SameSource(p.analyzer, a)
        /\ p.analyzer.gate = a.gate /\ p.analyzer.frame_buffer = a.frame_buffer
    BY <1>1, BegunType
  <1> QED
    BY <1>2 DEF Tally
-----------------------------------------------------------------------------
(***************************************************************************)
(* A frame reaches its session.                                            *)
(***************************************************************************)

\* what a payload of one frame of sound is to its session
FrameOf(format, payload) ==
    /\ payload.samples \in Seq(Blocks)
    /\ Len(payload.samples) \in 1 .. FrameBlocks(SampleRateForFormat(format))
    /\ Accepts(payload.packet, PayloadType(format)) =>
           payload.packet.sequence \in Sequences16 /\ payload.packet.timestamp \in Timestamps32

LEMMA RatesType ==
  ASSUME NEW format
  PROVE  SampleRateForFormat(format) \in {50, 100} /\ RtpClockRateForFormat(format) \in {50, 100}
  BY DEF SampleRateForFormat, RtpClockRateForFormat

LEMMA PayloadsAreFrames ==
  ASSUME NEW format, NEW payload \in PayloadsOf(format)
  PROVE  FrameOf(format, payload)
  <1> DEFINE n == FrameBlocks(SampleRateForFormat(format))
             samples == [i \in 1 .. n |-> Sound]
  <1>1. n \in Nat \ {0}
    BY RatesType, FrameBlocksType
  <1>2. payload.samples = samples
    <2>1. \E odd, packet : payload = [odd |-> odd, packet |-> packet, samples |-> samples]
      BY Zenon DEF PayloadsOf
    <2> HIDE DEF samples
    <2> QED
      BY <2>1
  <1>3. payload.packet.header_ok =>
            payload.packet.sequence \in WireSequences
                /\ payload.packet.timestamp \in WireSequences
    BY DEF PayloadsOf
  <1> HIDE DEF n
  <1>4. samples \in Seq(Blocks) /\ Len(samples) = n
    BY <1>1, StreamsAssumption
  <1>5. n \in 1 .. n
    BY <1>1
  <1>6. WireSequences \subseteq Sequences16 \cap Timestamps32
    BY StreamsAssumption
  <1> HIDE DEF samples
  <1> QED
    BY <1>2, <1>3, <1>4, <1>5, <1>6 DEF FrameOf, Accepts, n

\* Accepting a packet keeps a depacketizer's fields in range.
LEMMA AcceptType ==
  ASSUME NEW r \in Depacketizers, NEW packet,
         packet.sequence \in Sequences16, packet.timestamp \in Timestamps32
  PROVE  Accept(r, packet) \in Depacketizers
  <1>1. Gap(r, packet.sequence) \in Int
    BY RtpAssumption, DivMod DEF Gap, Depacketizers, Sequences16
  <1>2. /\ (r.packets_received + 1) % CounterMod \in Counters32
        /\ (r.packets_lost + Gap(r, packet.sequence)) % CounterMod \in Counters32
    <2>1. /\ r.packets_received + 1 \in Int
          /\ r.packets_lost + Gap(r, packet.sequence) \in Int
      BY <1>1 DEF Depacketizers, Counters32
    <2> QED
      BY <2>1, RtpAssumption, DivMod DEF Counters32
  <1>3. SignedDelta(packet.timestamp, r.last_timestamp) \in Int
    <2>1. packet.timestamp - r.last_timestamp \in Int
      BY DEF Depacketizers, Timestamps32
    <2>2. (packet.timestamp - r.last_timestamp) % TimestampMod \in Int
      BY <2>1, RtpAssumption, DivMod
    <2> QED
      BY <2>2, RtpAssumption DEF SignedDelta
  <1>4. Abs(SignedDelta(packet.timestamp, r.last_timestamp)) \in Int
    BY <1>3 DEF Abs
  <1>5. r.jitter_sample \in Int
    BY DEF Depacketizers
  <1> QED
    BY <1>2, <1>4, <1>5 DEF Accept, Depacketizers

LEMMA NewDepacketizerType == NewDepacketizer \in Depacketizers
  BY RtpAssumption DEF NewDepacketizer, Depacketizers, Sequences16, Timestamps32, Counters32

Statistics == [packets_received : Nat, packets_lost : Nat, total : Nat, jitter_sample : Int]

LEMMA StatsType ==
  /\ NoStats \in Statistics
  /\ \A r \in Depacketizers : StatsOf(r) \in Statistics
  <1>1. NoStats \in Statistics
    BY DEF NoStats, Statistics
  <1>2. ASSUME NEW r \in Depacketizers
        PROVE  StatsOf(r) \in Statistics
    <2>1. r.packets_received \in Nat /\ r.packets_lost \in Nat /\ r.jitter_sample \in Int
      BY RtpAssumption DEF Depacketizers, Counters32
    <2>2. (r.packets_received + r.packets_lost) % CounterMod \in Nat
      <3> DEFINE sum == r.packets_received + r.packets_lost
      <3>1. sum \in Int
        BY <2>1
      <3> HIDE DEF sum
      <3>2. sum % CounterMod \in 0 .. CounterMod - 1
        BY <3>1, RtpAssumption, DivMod
      <3> QED
        BY <3>2, RtpAssumption DEF sum
    <2> QED
      BY <2>1, <2>2 DEF StatsOf, Statistics
  <1> QED
    BY <1>1, <1>2

\* What the analyzer is told of the packets is a number.
LEMMA MetricsType ==
  ASSUME NEW stats \in Statistics, NEW clock_rate \in {50, 100}
  PROVE  LossPct(stats) \in Int /\ JitterMs(stats, clock_rate) \in Int
  <1> DEFINE thousand == 1000
             x == 100 * stats.packets_lost
             y == stats.jitter_sample * thousand
  <1>1. /\ stats.packets_lost \in Nat /\ stats.total \in Nat /\ stats.jitter_sample \in Int
        /\ thousand \in Int /\ clock_rate \in Nat \ {0}
    BY DEF Statistics
  <1>2. LossPct(stats) = IF stats.total = 0 THEN 0 ELSE x \div stats.total
    BY DEF LossPct
  <1>3. JitterMs(stats, clock_rate) = y \div clock_rate
    BY DEF JitterMs
  <1> HIDE DEF thousand
  <1>4. x \in Int /\ y \in Int
    BY <1>1
  <1> HIDE DEF x, y
  <1>5. stats.total # 0 => x \div stats.total \in Int
    BY <1>1, <1>4, DivMod
  <1>6. y \div clock_rate \in Int
    BY <1>1, <1>4, DivMod
  <1> QED
    BY <1>2, <1>3, <1>5, <1>6

\* Telling it changes nothing else.
LEMMA SetRtpMetricsType ==
  ASSUME NEW a, Ready(a), NEW loss \in Int, NEW jitter \in Int, NEW b,
         b = SetRtpMetrics(a, loss, jitter)
  PROVE  /\ Ready(b) /\ b.sample_rate = a.sample_rate /\ b.gate = a.gate
         /\ b.frame_buffer = a.frame_buffer /\ b.rtp_packet_loss_pct = loss
         /\ b.rtp_jitter_ms = jitter
  <1>1. a \in Analyzers /\ b = [a EXCEPT !.rtp_packet_loss_pct = loss, !.rtp_jitter_ms = jitter]
    BY DEF Ready, SetRtpMetrics
  <1>2. /\ b \in Analyzers /\ b.sample_rate = a.sample_rate /\ b.gate = a.gate
        /\ b.frame_buffer = a.frame_buffer /\ b.rtp_packet_loss_pct = loss
        /\ b.rtp_jitter_ms = jitter
    <2> DEFINE c == [a EXCEPT !.rtp_packet_loss_pct = loss, !.rtp_jitter_ms = jitter]
    <2>1. /\ c \in Analyzers /\ c.sample_rate = a.sample_rate /\ c.gate = a.gate
          /\ c.frame_buffer = a.frame_buffer /\ c.rtp_packet_loss_pct = loss
          /\ c.rtp_jitter_ms = jitter
      BY <1>1 DEF Analyzers
    <2> HIDE DEF c
    <2> QED
      BY <1>1, <2>1 DEF c
  <1> QED
    BY <1>2 DEF Ready

\* A new session has nothing to tell of packets.
LEMMA NothingTold ==
  ASSUME NEW format, NEW h
  PROVE  Told(NewSession(format), LastStats(NewSession(format), h))
  <1> DEFINE new   == NewSession(format)
             stats == LastStats(new, h)
             rate  == RtpClockRateForFormat(format)
  <1>1. /\ new.analyzer.rtp_packet_loss_pct = 0 /\ new.analyzer.rtp_jitter_ms = 0
        /\ new.rtp = NewDepacketizer /\ new.clock_rate = rate
    BY DEF NewSession, NewAnalyzer
  <1>2. stats \in {NoStats, StatsOf(NewDepacketizer)}
    BY <1>1 DEF LastStats
  <1>3. (0 + 0) % CounterMod = 0
    BY RtpAssumption
  <1>4. stats.total = 0 /\ stats.jitter_sample = 0
    BY <1>2, <1>3 DEF NoStats, StatsOf, NewDepacketizer
  <1>5. rate \in {50, 100}
    BY RatesType
  <1> HIDE DEF new, stats, rate
  <1>6. LossPct(stats) = 0
    BY <1>4 DEF LossPct
  <1>7. JitterMs(stats, rate) = 0
    <2> DEFINE thousand == 1000
    <2>1. JitterMs(stats, rate) = (0 * thousand) \div rate
      BY <1>4 DEF JitterMs
    <2>2. thousand \in Int
      OBVIOUS
    <2> HIDE DEF thousand
    <2>3. 0 * thousand = 0
      BY <2>2
    <2>4. 0 \div rate = 0
      BY <1>5
    <2> QED
      BY <2>1, <2>3, <2>4
  <1> QED
    BY <1>1, <1>6, <1>7 DEF Told, new, stats, rate

\* The session a frame goes to is of its format's rate, and has in its tally
\* what was heard at that rate: nothing, when it is a new one.
LEMMA SessionForFormat ==
  ASSUME HeardType, SessionsInv, NEW id, NEW format,
         NEW s, s = SessionFor(sessions, id, format)
  PROVE  /\ s \in SessionRecords /\ Ready(s.analyzer)
         /\ s.analyzer.sample_rate = SampleRateForFormat(format)
         /\ Tally(s.analyzer, Cardinality(HeardAt(HeardBy(id), SampleRateForFormat(format))))
         /\ Told(s, LastStats(s, HeardBy(id)))
  <1> DEFINE rate == SampleRateForFormat(format)
             h == HeardBy(id)
             new == NewSession(format)
             old == sessions[id]
  <1>1. CASE id \in DOMAIN sessions /\ old.analyzer.sample_rate = rate
    <2>1. s = old /\ h = heard[id]
      BY <1>1 DEF SessionFor, HeardBy, HeardType
    <2>2. WellKept(old, heard[id])
      BY <1>1 DEF SessionsInv
    <2> HIDE DEF old, h, rate
    <2> QED
      BY <1>1, <2>1, <2>2 DEF WellKept, old, h, rate
  <1>2. CASE ~ (id \in DOMAIN sessions /\ old.analyzer.sample_rate = rate)
    <2>1. s = new
      BY <1>2 DEF SessionFor
    <2>2. rate \in {50, 100} /\ RtpClockRateForFormat(format) \in {50, 100}
      BY RatesType
    <2>3. Len(h) \in Nat /\ (Len(h) > 0 => SampleRateForFormat(h[Len(h)].format) # rate)
      <3>1. CASE id \in DOMAIN sessions
        <4>1. h = heard[id] /\ heard[id] \in Seq(Entries)
          BY <3>1 DEF HeardBy, HeardType
        <4>2. WellKept(old, heard[id])
          BY <3>1 DEF SessionsInv
        <4> HIDE DEF old, h, rate
        <4> QED
          BY <1>2, <3>1, <4>1, <4>2, LenProperties DEF WellKept
      <3>2. CASE id \notin DOMAIN sessions
        <4>1. h = << >>
          BY <3>2 DEF HeardBy, HeardType
        <4>2. Len(<< >>) = 0
          BY EmptySeq
        <4> HIDE DEF h
        <4> QED
          BY <4>1, <4>2
      <3> QED
        BY <3>1, <3>2
    <2> HIDE DEF rate, h
    <2>4. Cardinality(HeardAt(h, rate)) = 0
      BY <2>3, HeardNothing
    <2>5. /\ Ready(NewAnalyzer(rate)) /\ NewAnalyzer(rate).frame_buffer = << >>
          /\ NewAnalyzer(rate).sample_rate = rate
      BY <2>2, NewAnalyzerType
    <2>6. NewAnalyzer(rate).gate = NewGate
      BY DEF NewAnalyzer
    <2>7. Tally(NewAnalyzer(rate), 0)
      <3>1. Len(<< >>) = 0
        BY EmptySeq
      <3>2. 0 \in Nat /\ 0 = 0 * WindowFrames + 0
        BY WindowFramesType
      <3>3. NewGate.consecutive_ok <= 0 /\ ~ NewGate.current_state
        BY DEF NewGate
      <3> QED
        BY <2>5, <2>6, <3>1, <3>2, <3>3 DEF Tally
    <2>8. /\ new.analyzer = NewAnalyzer(rate) /\ new \in SessionRecords
      <3>1. NewAnalyzer(rate) \in Analyzers
        BY <2>5 DEF Ready
      <3> HIDE DEF new
      <3>2. new = [analyzer |-> NewAnalyzer(rate), rtp |-> NewDepacketizer,
                   clock_rate |-> RtpClockRateForFormat(format)]
        BY DEF new, NewSession, rate
      <3> QED
        BY <2>2, <3>1, <3>2, NewDepacketizerType DEF SessionRecords
    <2>9. Told(new, LastStats(new, h))
      BY NothingTold
    <2> HIDE DEF new
    <2> QED
      BY <2>1, <2>4, <2>5, <2>7, <2>8, <2>9 DEF rate, h
  <1> QED
    BY <1>1, <1>2

\* whether the last packet was turned away, after a frame
AwayAfter(format, payload, away) ==
    IF format \in RtpFormats THEN ~ Audible(format, payload) ELSE away

\* the session after a frame, and what the caller is told
Served(format, payload, count, away, pushed, next) ==
    /\ next \in SessionRecords /\ Ready(next.analyzer)
    /\ next.analyzer.sample_rate = SampleRateForFormat(format)
    /\ Tally(next.analyzer, count + (IF Audible(format, payload) THEN 1 ELSE 0))
    /\ Told(next, IF AwayAfter(format, payload, away) THEN NoStats ELSE StatsOf(next.rtp))
    /\ \/ pushed = << >>
       \/ \E r : /\ pushed = <<r>> /\ ShownBy(r, next.analyzer)
                 /\ format \in RtpFormats => Audible(format, payload)

\* PCM goes to the analyzer as it is, unless a byte of it is missing.
LEMMA PcmIsServed ==
  ASSUME NEW s \in SessionRecords, Ready(s.analyzer), NEW format \in PcmFormats,
         s.analyzer.sample_rate = SampleRateForFormat(format),
         NEW count \in Nat, Tally(s.analyzer, count),
         NEW away, Told(s, IF away THEN NoStats ELSE StatsOf(s.rtp)),
         NEW payload, FrameOf(format, payload), NEW t \in Nat, NEW id,
         NEW done, done = PushPcmPayload(sessions, id, s, payload, t)
  PROVE  \E next : /\ done.sessions = WithSession(sessions, id, next)
                   /\ Served(format, payload, count, away, done.result, next)
  <1>1. format \notin RtpFormats
    BY DEF PcmFormats, RtpFormats
  <1>a. AwayAfter(format, payload, away) = away
    BY <1>1 DEF AwayAfter
  <1>2. CASE payload.odd
    <2>1. done.sessions = WithSession(sessions, id, s) /\ done.result = << >>
      BY <1>2 DEF PushPcmPayload
    <2>2. ~ Audible(format, payload)
      BY <1>2 DEF Audible
    <2>3. count + 0 = count
      OBVIOUS
    <2>4. Served(format, payload, count, away, done.result, s)
      BY <1>a, <2>1, <2>2, <2>3 DEF Served
    <2> QED
      BY <2>1, <2>4
  <1>3. CASE ~ payload.odd
    <2> DEFINE p == PushPcm(s.analyzer, payload.samples, t)
               next == [s EXCEPT !.analyzer = p.analyzer]
    <2>1. done.sessions = WithSession(sessions, id, next) /\ done.result = p.result
      BY <1>3 DEF PushPcmPayload
    <2>2. /\ InLoop(p) /\ SameSource(p.analyzer, s.analyzer)
          /\ Tally(p.analyzer, count + 1)
          /\ \/ p.result = << >>
             \/ \E r : p.result = <<r>> /\ ShownBy(r, s.analyzer)
      BY FrameTallies DEF FrameOf
    <2> HIDE DEF p
    <2>3. Ready(p.analyzer) /\ p.analyzer \in Analyzers
      BY <2>2 DEF InLoop, Ready
    <2>4. /\ next \in SessionRecords /\ next.analyzer = p.analyzer
          /\ next.rtp = s.rtp /\ next.clock_rate = s.clock_rate
      BY <2>3 DEF SessionRecords
    <2> HIDE DEF next
    <2>7. Told(next, IF away THEN NoStats ELSE StatsOf(next.rtp))
      BY <2>2, <2>4 DEF Told, SameSource
    <2>8. \A r : ShownBy(r, s.analyzer) => ShownBy(r, next.analyzer)
      BY <2>2, <2>4 DEF ShownBy, SameSource
    <2>5. Audible(format, payload)
      BY <1>3 DEF Audible
    <2>6. Served(format, payload, count, away, done.result, next)
      BY <1>1, <1>a, <2>1, <2>2, <2>3, <2>4, <2>5, <2>7, <2>8 DEF Served, SameSource
    <2> QED
      BY <2>1, <2>6
  <1> QED
    BY <1>2, <1>3

\* A packet is counted first, and its samples are pushed with the loss up to it;
\* one that is turned away pushes nothing.
LEMMA PacketIsServed ==
  ASSUME NEW s \in SessionRecords, Ready(s.analyzer), NEW format \in RtpFormats,
         s.analyzer.sample_rate = SampleRateForFormat(format),
         NEW count \in Nat, Tally(s.analyzer, count),
         NEW away, Told(s, IF away THEN NoStats ELSE StatsOf(s.rtp)),
         NEW payload, FrameOf(format, payload), NEW t \in Nat, NEW id,
         NEW done, done = PushRtpPacket(sessions, id, s, format, payload, t)
  PROVE  \E next : /\ done.sessions = WithSession(sessions, id, next)
                   /\ Served(format, payload, count, away, done.result, next)
  <1> DEFINE expected == PayloadType(format)
             packet   == payload.packet
             taken    == Accepts(packet, expected)
             stats    == StatsAfterPacket(s.rtp, packet, expected)
             loss     == LossPct(stats)
             jitter   == JitterMs(stats, s.clock_rate)
             pcm      == IF taken THEN payload.samples ELSE << >>
             measured == SetRtpMetrics(s.analyzer, loss, jitter)
             p        == PushPcm(measured, pcm, t)
             rtp      == AfterPacket(s.rtp, packet, expected)
             next     == [s EXCEPT !.analyzer = p.analyzer, !.rtp = rtp]
  <1>1. done.sessions = WithSession(sessions, id, next) /\ done.result = p.result
    <2>1. AfterPacket(s.rtp, payload.packet, PayloadType(format)) = rtp
      OBVIOUS
    <2> QED
      BY DEF PushRtpPacket
  <1>2. format \notin PcmFormats
    BY DEF PcmFormats, RtpFormats
  <1>3. Audible(format, payload) = taken
    BY <1>2 DEF Audible
  <1>4. s.rtp \in Depacketizers /\ s.clock_rate \in {50, 100} /\ s.analyzer \in Analyzers
    BY DEF SessionRecords
  <1>5. /\ taken => rtp = Accept(s.rtp, packet) /\ stats = StatsOf(rtp)
        /\ ~ taken => rtp = s.rtp /\ stats = NoStats
    BY DEF AfterPacket, StatsAfterPacket
  <1>6. taken => packet.sequence \in Sequences16 /\ packet.timestamp \in Timestamps32
    BY DEF FrameOf
  <1> HIDE DEF taken, stats, rtp, packet
  <1>7. rtp \in Depacketizers
    BY <1>4, <1>5, <1>6, AcceptType
  <1>8. stats \in Statistics
    BY <1>5, <1>7, StatsType
  <1>9. loss \in Int /\ jitter \in Int
    BY <1>4, <1>8, MetricsType
  <1> HIDE DEF loss, jitter
  <1>10. /\ Ready(measured) /\ measured.sample_rate = s.analyzer.sample_rate
         /\ measured.gate = s.analyzer.gate
         /\ measured.frame_buffer = s.analyzer.frame_buffer
         /\ measured.rtp_packet_loss_pct = loss /\ measured.rtp_jitter_ms = jitter
    BY <1>9, SetRtpMetricsType
  <1> HIDE DEF measured
  <1>11. Tally(measured, count)
    BY <1>10 DEF Tally
  <1>12. /\ InLoop(p) /\ SameSource(p.analyzer, measured)
         /\ Tally(p.analyzer, count + (IF taken THEN 1 ELSE 0))
         /\ \/ p.result = << >>
            \/ taken /\ \E r : p.result = <<r>> /\ ShownBy(r, measured)
    <2>1. CASE taken
      <3>1. /\ payload.samples \in Seq(Blocks)
            /\ Len(payload.samples) \in 1 .. FrameBlocks(measured.sample_rate)
        BY <1>10 DEF FrameOf
      <3>2. p = PushPcm(measured, payload.samples, t)
        BY <2>1
      <3> HIDE DEF p
      <3>3. /\ InLoop(p) /\ SameSource(p.analyzer, measured) /\ Tally(p.analyzer, count + 1)
            /\ \/ p.result = << >>
               \/ \E r : p.result = <<r>> /\ ShownBy(r, measured)
        BY <1>10, <1>11, <3>1, <3>2, FrameTallies
      <3> QED
        BY <1>10, <2>1, <3>3
    <2>2. CASE ~ taken
      <3>1. p = PushPcm(measured, << >>, t)
        BY <2>2
      <3> HIDE DEF p
      <3>2. /\ InLoop(p) /\ SameSource(p.analyzer, measured) /\ Tally(p.analyzer, count)
            /\ p.result = << >>
        BY <1>10, <1>11, <3>1, SilenceTallies
      <3>3. count + 0 = count
        OBVIOUS
      <3> QED
        BY <2>2, <3>2, <3>3
    <2> QED
      BY <2>1, <2>2
  <1> HIDE DEF p
  <1>13. Ready(p.analyzer) /\ p.analyzer \in Analyzers
    BY <1>12 DEF InLoop, Ready
  <1>14. /\ next \in SessionRecords /\ next.analyzer = p.analyzer /\ next.rtp = rtp
         /\ next.clock_rate = s.clock_rate
    BY <1>7, <1>13 DEF SessionRecords
  <1> HIDE DEF next
  <1>15. Told(next, IF AwayAfter(format, payload, away) THEN NoStats ELSE StatsOf(next.rtp))
    <2>1. stats = IF AwayAfter(format, payload, away) THEN NoStats ELSE StatsOf(next.rtp)
      BY <1>3, <1>5, <1>14 DEF AwayAfter
    <2>2. Told(next, stats)
      BY <1>10, <1>12, <1>14 DEF Told, SameSource, loss, jitter
    <2> QED
      BY <2>1, <2>2
  <1>18. \A r : ShownBy(r, measured) => ShownBy(r, next.analyzer)
    BY <1>12, <1>14 DEF ShownBy, SameSource
  <1>16. p.analyzer.sample_rate = SampleRateForFormat(format)
    BY <1>10, <1>12 DEF SameSource
  <1>17. Served(format, payload, count, away, done.result, next)
    BY <1>1, <1>3, <1>12, <1>13, <1>14, <1>15, <1>16, <1>18 DEF Served
  <1> QED
    BY <1>1, <1>17
-----------------------------------------------------------------------------
(***************************************************************************)
(* The sessions, in every step of every caller.                            *)
(***************************************************************************)

CallersNamed ==
    /\ \A c \in WsConnections : ws[c].phase = "Ready" => ws[c].session_id \in SessionIds
    /\ \A r \in SseRequests : sse[r].phase = "Running" => sse[r].session_id \in SessionIds

SessionsNamed == DOMAIN sessions \subseteq SessionIds /\ pushes \in 0 .. MaxPushes

ServiceInv == SessionsInv /\ SessionsNamed /\ CallersNamed /\ ReportShowsTheLoss

\* A frame is in its session's tally, and a report shows loss and jitter up to it.
LEMMA PushServes ==
  ASSUME HeardType, SessionsInv, NEW user \in Users, NEW id, NEW format \in Formats,
         NEW payload, FrameOf(format, payload), NEW timestamp_ms \in Nat,
         Push(user, id, format, payload, timestamp_ms)
  PROVE  SessionsInv' /\ ReportShowsTheLoss'
  <1> DEFINE s     == SessionFor(sessions, id, format)
             rate  == SampleRateForFormat(format)
             h     == HeardBy(id)
             count == Cardinality(HeardAt(h, rate))
             done  == PushFrame(sessions, id, format, payload, timestamp_ms)
             entry == [user |-> user, format |-> format, audible |-> Audible(format, payload)]
             g     == Append(h, entry)
  <1>1. /\ sessions' = done.sessions /\ heard' = WithSession(heard, id, g)
        /\ reported' = IF done.result = << >> THEN << >>
                       ELSE <<[id |-> id, format |-> format, report |-> done.result[1]]>>
    BY DEF Push
  <1>2. done = IF format \in RtpFormats
               THEN PushRtpPacket(sessions, id, s, format, payload, timestamp_ms)
               ELSE PushPcmPayload(sessions, id, s, payload, timestamp_ms)
    BY DEF PushFrame
  <1>3. /\ s \in SessionRecords /\ Ready(s.analyzer) /\ s.analyzer.sample_rate = rate
        /\ Tally(s.analyzer, count)
        /\ Told(s, LastStats(s, h))
    BY SessionForFormat
  <1>4. /\ h \in Seq(Entries) /\ entry \in Entries
        /\ entry.format = format /\ entry.audible = Audible(format, payload)
    BY AudibleType, EmptySeq DEF HeardType, HeardBy, Entries
  <1> HIDE DEF s, h, entry, done
  <1>5. /\ count \in Nat
        /\ Cardinality(HeardAt(g, rate))
               = count + (IF Audible(format, payload) THEN 1 ELSE 0)
        /\ Len(g) > 0 /\ SampleRateForFormat(g[Len(g)].format) = rate
    <2>1. rate = SampleRateForFormat(entry.format) /\ g = Append(h, entry)
      BY <1>4
    <2>3. h \in Seq(Entries) /\ entry \in Entries
      BY <1>4
    <2> HIDE DEF rate, g, count
    <2>2. /\ Cardinality(HeardAt(h, rate)) \in Nat
          /\ Cardinality(HeardAt(g, rate))
                 = Cardinality(HeardAt(h, rate)) + (IF entry.audible THEN 1 ELSE 0)
          /\ Len(g) > 0 /\ SampleRateForFormat(g[Len(g)].format) = rate
      BY <2>1, <2>3, HeardAppend, Zenon
    <2> QED
      BY <1>4, <2>2 DEF count
  <1> DEFINE away == TurnedAway(h)
  <1>t. TurnedAway(g) <=> AwayAfter(format, payload, away)
    BY <1>4, TurnedAwayAppend DEF AwayAfter
  <1>u. Told(s, IF away THEN NoStats ELSE StatsOf(s.rtp))
    BY <1>3 DEF LastStats
  <1> HIDE DEF count, g, away
  <1>6. PICK next : /\ done.sessions = WithSession(sessions, id, next)
                    /\ Served(format, payload, count, away, done.result, next)
    <2>1. CASE format \in RtpFormats
      BY <1>2, <1>3, <1>5, <1>u, <2>1, PacketIsServed
    <2>2. CASE format \notin RtpFormats
      <3>1. format \in PcmFormats
        BY <2>2 DEF Formats
      <3> QED
        BY <1>2, <1>3, <1>5, <1>u, <2>2, <3>1, PcmIsServed
    <2> QED
      BY <2>1, <2>2
  <1>7. /\ sessions' = WithSession(sessions, id, next)
        /\ next \in SessionRecords /\ Ready(next.analyzer) /\ next.analyzer.sample_rate = rate
        /\ Tally(next.analyzer, count + (IF Audible(format, payload) THEN 1 ELSE 0))
        /\ Told(next, LastStats(next, g))
        /\ \/ done.result = << >>
           \/ \E r : /\ done.result = <<r>> /\ ShownBy(r, next.analyzer)
                     /\ format \in RtpFormats => ~ TurnedAway(g)
    BY <1>1, <1>6, <1>t DEF Served, LastStats, AwayAfter
  <1> HIDE DEF rate
  <1>8. WellKept(next, g)
    BY <1>5, <1>7 DEF WellKept
  <1>9. /\ DOMAIN sessions' = DOMAIN sessions \cup {id}
        /\ sessions'[id] = next /\ heard'[id] = g
        /\ \A i \in DOMAIN sessions : i # id => sessions'[i] = sessions[i] /\ heard'[i] = heard[i]
    <2>1. DOMAIN heard = DOMAIN sessions
      BY DEF HeardType
    <2> QED
      BY <1>1, <1>7, <2>1 DEF WithSession
  <1>10. SessionsInv'
    <2> SUFFICES ASSUME NEW i \in DOMAIN sessions'
                 PROVE  WellKept(sessions'[i], heard'[i])
      BY DEF SessionsInv
    <2>1. CASE i = id
      BY <1>8, <1>9, <2>1
    <2>2. CASE i # id
      <3>1. i \in DOMAIN sessions /\ sessions'[i] = sessions[i] /\ heard'[i] = heard[i]
        BY <1>9, <2>2
      <3> QED
        BY <3>1 DEF SessionsInv
    <2> QED
      BY <2>1, <2>2
  <1>11. ReportShowsTheLoss'
    <2>1. CASE done.result = << >>
      <3>1. Len(reported') = 0
        BY <1>1, <2>1, EmptySeq
      <3> QED
        BY <3>1 DEF ReportShowsTheLoss
    <2>2. CASE done.result # << >>
      <3>1. PICK r : /\ done.result = <<r>> /\ ShownBy(r, next.analyzer)
                     /\ format \in RtpFormats => ~ TurnedAway(g)
        BY <1>7, <2>2
      <3> DEFINE line == [id |-> id, format |-> format, report |-> r]
      <3>2. line.id = id /\ line.format = format /\ line.report = r
        OBVIOUS
      <3>3. reported' = <<line>>
        BY <1>1, <2>2, <3>1
      <3> HIDE DEF line
      <3>4. Len(reported') = 1 /\ reported'[1] = line
        BY <3>3
      <3>5. /\ r.metrics.packet_loss_pct = LossPct(LastStats(next, g))
            /\ r.metrics.jitter_ms = JitterMs(LastStats(next, g), next.clock_rate)
        BY <1>7, <3>1 DEF Told, ShownBy
      <3> QED
        BY <1>9, <3>1, <3>2, <3>4, <3>5 DEF ReportShowsTheLoss
    <2> QED
      BY <2>1, <2>2
  <1> QED
    BY <1>10, <1>11

LEMMA PushService ==
  ASSUME HeardType, ServiceInv, NEW user \in Users, NEW id \in SessionIds, NEW format \in Formats,
         NEW payload \in PayloadsOf(format), NEW timestamp_ms \in Nat,
         Push(user, id, format, payload, timestamp_ms), CallersNamed'
  PROVE  ServiceInv'
  <1>1. SessionsInv' /\ ReportShowsTheLoss'
    BY PayloadsAreFrames, PushServes DEF ServiceInv
  <1>2. DOMAIN sessions' = DOMAIN sessions \cup {id}
    BY PushFrameDomain DEF Push
  <1>3. pushes' \in 0 .. MaxPushes
    BY StreamsAssumption DEF Push, ServiceInv, SessionsNamed
  <1> QED
    BY <1>1, <1>2, <1>3 DEF ServiceInv, SessionsNamed

\* a step that reports nothing and leaves the sessions alone, or removes one
LEMMA QuietService ==
  ASSUME ServiceInv, HeardType, reported' = << >>, pushes' = pushes, CallersNamed',
         \/ UNCHANGED <<sessions, heard>>
         \/ \E id : Forget(id)
  PROVE  ServiceInv'
  <1>1. ReportShowsTheLoss'
    <2>1. Len(reported') = 0
      BY EmptySeq
    <2> QED
      BY <2>1 DEF ReportShowsTheLoss
  <1>2. CASE UNCHANGED <<sessions, heard>>
    BY <1>1, <1>2 DEF ServiceInv, SessionsInv, SessionsNamed
  <1>3. ASSUME NEW id, Forget(id)
        PROVE  ServiceInv'
    <2>1. /\ DOMAIN sessions' = DOMAIN sessions \ {id}
          /\ \A i \in DOMAIN sessions' : sessions'[i] = sessions[i] /\ heard'[i] = heard[i]
      BY <1>3 DEF Forget, RemoveSession, HeardType
    <2>2. SessionsInv'
      BY <2>1 DEF ServiceInv, SessionsInv
    <2> QED
      BY <1>1, <2>1, <2>2 DEF ServiceInv, SessionsNamed
  <1> QED
    BY <1>2, <1>3

LEMMA ConnectionService ==
  ASSUME StreamsInv, ServiceInv, NEW c \in WsConnections,
         \/ \E id \in SessionIds :
                \/ WsBadHandshake(c, id)
                \/ \E format \in OfferedFormats : WsHandshake(c, id, format)
         \/ \E payload \in PayloadsOf(ws[c].format) : WsFrame(c, payload)
         \/ WsClose(c)
         \/ WsBreak(c)
  PROVE  ServiceInv'
  <1>t. HeardType /\ StreamsType /\ CallersNamed
    BY DEF StreamsInv, ServiceInv
  <1>1. ASSUME NEW id \in SessionIds, WsBadHandshake(c, id)
        PROVE  ServiceInv'
    <2>1. CallersNamed'
      BY <1>1, <1>t DEF WsBadHandshake, CallersNamed, StreamsType, Connections
    <2> QED
      BY <1>1, <1>t, <2>1, QuietService DEF WsBadHandshake
  <1>2. ASSUME NEW id \in SessionIds, NEW format \in OfferedFormats, WsHandshake(c, id, format)
        PROVE  ServiceInv'
    <2>1. CallersNamed'
      BY <1>2, <1>t DEF WsHandshake, CallersNamed, StreamsType, Connections
    <2> QED
      BY <1>2, <1>t, <2>1, QuietService DEF WsHandshake
  <1>3. ASSUME NEW payload \in PayloadsOf(ws[c].format), WsFrame(c, payload)
        PROVE  ServiceInv'
    <2>1. /\ ws[c].phase = "Ready" /\ sse' = sse
          /\ Push(c, ws[c].session_id, ws[c].format, payload, ws[c].timestamp_ms)
          /\ ws' = ws \/ ws' = [ws EXCEPT ![c].timestamp_ms = @ + 20]
      BY <1>3 DEF WsFrame
    <2>2. /\ c \in Users /\ ws[c].session_id \in SessionIds
          /\ ws[c].format \in Formats /\ ws[c].timestamp_ms \in Nat
      BY <1>t, <2>1, UsersApart DEF CallersNamed, StreamsType, Connections
    <2>3. CallersNamed'
      <3>1. \A d \in WsConnections :
                ws'[d].phase = ws[d].phase /\ ws'[d].session_id = ws[d].session_id
        BY <1>t, <2>1 DEF StreamsType, Connections
      <3> QED
        BY <1>t, <2>1, <3>1 DEF CallersNamed
    <2> QED
      BY <1>t, <2>1, <2>2, <2>3, PushService
  <1>4. CASE WsClose(c)
    <2>1. CallersNamed'
      BY <1>4, <1>t DEF WsClose, CallersNamed, StreamsType, Connections
    <2>2. Forget(ws[c].session_id) /\ reported' = << >> /\ pushes' = pushes
      BY <1>4 DEF WsClose, Forget
    <2> QED
      BY <1>t, <2>1, <2>2, QuietService
  <1>5. CASE WsBreak(c)
    <2>1. CallersNamed'
      BY <1>5, <1>t DEF WsBreak, CallersNamed, StreamsType, Connections
    <2> QED
      BY <1>5, <1>t, <2>1, QuietService DEF WsBreak
  <1> QED
    BY <1>1, <1>2, <1>3, <1>4, <1>5

LEMMA CallService ==
  ASSUME StreamsInv, ServiceInv, NEW g \in GrpcCalls, NEW id \in SessionIds,
         NEW format \in OfferedFormats, NEW payload \in PayloadsOf(format),
         GrpcFrame(g, id, format, payload)
  PROVE  ServiceInv'
  <1>1. Push(g, id, format, payload, 0) /\ UNCHANGED <<ws, sse>>
    BY DEF GrpcFrame
  <1>2. g \in Users /\ format \in Formats
    BY UsersApart, StreamsAssumption
  <1>3. HeardType /\ CallersNamed'
    BY <1>1 DEF StreamsInv, ServiceInv, CallersNamed
  <1> QED
    BY <1>1, <1>2, <1>3, PushService

LEMMA RequestService ==
  ASSUME StreamsInv, ServiceInv, NEW r \in SseRequests,
         \/ \E id \in SessionIds, format \in OfferedFormats : SseStart(r, id, format)
         \/ /\ sse[r].phase = "Running"
            /\ \E payload \in PayloadsOf(sse[r].format) : SseFrame(r, payload)
         \/ SseFinish(r)
         \/ SseFail(r)
  PROVE  ServiceInv'
  <1>t. HeardType /\ StreamsType /\ CallersNamed
    BY DEF StreamsInv, ServiceInv
  <1>1. ASSUME NEW id \in SessionIds, NEW format \in OfferedFormats, SseStart(r, id, format)
        PROVE  ServiceInv'
    <2>1. CallersNamed'
      BY <1>1, <1>t DEF SseStart, CallersNamed, StreamsType, Requests
    <2> QED
      BY <1>1, <1>t, <2>1, QuietService DEF SseStart
  <1>2. ASSUME NEW payload \in PayloadsOf(sse[r].format), SseFrame(r, payload)
        PROVE  ServiceInv'
    <2>1. /\ sse[r].phase = "Running" /\ UNCHANGED <<ws, sse>>
          /\ Push(r, sse[r].session_id, sse[r].format, payload, 0)
      BY <1>2 DEF SseFrame
    <2>2. r \in Users /\ sse[r].session_id \in SessionIds /\ sse[r].format \in Formats
      BY <1>t, <2>1, UsersApart DEF CallersNamed, StreamsType
    <2>3. CallersNamed'
      BY <1>t, <2>1 DEF CallersNamed
    <2> QED
      BY <1>t, <2>1, <2>2, <2>3, PushService
  <1>3. CASE SseFinish(r)
    <2>1. CallersNamed'
      BY <1>3, <1>t DEF SseFinish, CallersNamed, StreamsType, Requests
    <2>2. Forget(sse[r].session_id) /\ reported' = << >> /\ pushes' = pushes
      BY <1>3 DEF SseFinish, Forget
    <2> QED
      BY <1>t, <2>1, <2>2, QuietService
  <1>4. CASE SseFail(r)
    <2>1. CallersNamed'
      BY <1>4, <1>t DEF SseFail, CallersNamed, StreamsType, Requests
    <2> QED
      BY <1>4, <1>t, <2>1, QuietService DEF SseFail
  <1> QED
    BY <1>1, <1>2, <1>3, <1>4

LEMMA InitService == Init => ServiceInv
  <1> SUFFICES ASSUME Init
               PROVE  ServiceInv
    OBVIOUS
  <1>1. DOMAIN << >> = 1 .. 0 /\ Len(<< >>) = 0
    <2>1. << >> \in Seq({}) /\ Len(<< >>) = 0
      BY EmptySeq
    <2> QED
      BY <2>1
  <1>2. DOMAIN sessions = 1 .. 0 /\ Len(reported) = 0
    BY <1>1 DEF Init
  <1>3. \A id \in 1 .. 0 : FALSE
    OBVIOUS
  <1>4. SessionsInv
    BY <1>2, <1>3 DEF SessionsInv
  <1>5. SessionsNamed
    <2>1. MaxPushes \in Nat
      BY StreamsAssumption
    <2>3. pushes = 0
      BY DEF Init
    <2>2. DOMAIN sessions \subseteq SessionIds
      BY <1>2, <1>3
    <2> QED
      BY <2>1, <2>2, <2>3 DEF SessionsNamed
  <1>6. CallersNamed
    BY DEF Init, CallersNamed
  <1>7. ReportShowsTheLoss
    BY <1>2 DEF ReportShowsTheLoss
  <1> QED
    BY <1>4, <1>5, <1>6, <1>7 DEF ServiceInv

LEMMA NextService == StreamsInv /\ ServiceInv /\ [Next]_vars => ServiceInv'
  <1> SUFFICES ASSUME StreamsInv, ServiceInv, [Next]_vars
               PROVE  ServiceInv'
    OBVIOUS
  <1>1. CASE UNCHANGED vars
    BY <1>1 DEF vars, ServiceInv, SessionsInv, SessionsNamed, CallersNamed, ReportShowsTheLoss
  <1>2. CASE Next
    BY <1>2, ConnectionService, CallService, RequestService DEF Next
  <1> QED
    BY <1>1, <1>2

\* The tally of every session: its open window is of one rate, its gate has the
\* verdicts of the windows closed since, its depacketizer the packets it took,
\* whoever sent them (SessionManager::push_frame).
THEOREM ServiceInvHolds == Spec => []ServiceInv
  <1>1. Init => ServiceInv
    BY InitService
  <1>2. StreamsInv /\ ServiceInv /\ [Next]_vars => ServiceInv'
    BY NextService
  <1> QED
    BY <1>1, <1>2, StreamsInvHolds, PTL DEF Spec

\* What the service shares keeps its types, for any callers and bounds; no
\* window is full between two frames (SessionManager::push_frame).
THEOREM ServiceTypeCorrect == Spec => []TypeOK
  <1>1. StreamsInv /\ ServiceInv => TypeOK
    <2> SUFFICES ASSUME StreamsInv, ServiceInv
                 PROVE  TypeOK
      OBVIOUS
    <2>1. ASSUME NEW id \in DOMAIN sessions
          PROVE  /\ sessions[id].analyzer.gate \in Gates
                 /\ Len(sessions[id].analyzer.frame_buffer) < WindowFrames
                 /\ sessions[id].rtp \in Depacketizers
      <3>1. sessions[id] \in SessionRecords /\ Ready(sessions[id].analyzer)
        BY DEF ServiceInv, SessionsInv, WellKept
      <3> QED
        BY <3>1 DEF SessionRecords, Ready, Analyzers
    <2>2. /\ \A c \in WsConnections : ws[c].phase \in {"Handshake", "Ready", "Closed", "Broken"}
          /\ \A r \in SseRequests : sse[r].phase \in {"Idle", "Running", "Done", "Failed"}
      BY DEF StreamsInv, StreamsType, Connections, Requests
    <2>3. /\ DOMAIN sessions \subseteq SessionIds /\ pushes \in 0 .. MaxPushes
          /\ DOMAIN heard = DOMAIN sessions
      BY DEF ServiceInv, SessionsNamed, StreamsInv, HeardType
    <2> QED
      BY <2>1, <2>2, <2>3 DEF TypeOK
  <1> QED
    BY <1>1, StreamsInvHolds, ServiceInvHolds, PTL

\* The windows of every session are of one rate, each frame once, whatever
\* callers share the session and however often the format changes
\* (SessionManager::push_frame, get_or_create_session, VoiceAnalyzer::push_pcm).
THEOREM WindowsKeepTheirRate == Spec => []WindowsAreOfOneRate
  <1>1. ServiceInv => WindowsAreOfOneRate
    <2> SUFFICES ASSUME ServiceInv, NEW id \in DOMAIN sessions
                 PROVE  Len(sessions[id].analyzer.frame_buffer) = FramesHeard(id) % WindowFrames
      BY DEF WindowsAreOfOneRate
    <2> DEFINE l == Len(sessions[id].analyzer.frame_buffer)
               w == WindowFrames
    <2>1. Ready(sessions[id].analyzer) /\ Tally(sessions[id].analyzer, FramesHeard(id))
      BY DEF ServiceInv, SessionsInv, WellKept, FramesHeard, HeardAt
    <2>2. l \in Nat /\ l < w /\ w \in Nat \ {0}
      BY <2>1, LenProperties, WindowFramesType DEF Ready, Analyzers
    <2>3. PICK closed \in Nat : FramesHeard(id) = closed * w + l
      BY <2>1 DEF Tally
    <2> DEFINE x == FramesHeard(id)
               q == x \div w
               r == x % w
    <2> HIDE DEF l, w, x
    <2>4. x \in Int /\ x = closed * w + l
      BY <2>2, <2>3 DEF x
    <2>5. q = closed
      <3>1. closed * w <= x /\ x < closed * w + w
        BY <2>2, <2>4
      <3> QED
        BY <2>2, <2>4, <3>1, QuotientIsUnique
    <2>6. x = q * w + r /\ r \in Int
      BY <2>2, <2>4, DivMod
    <2> HIDE DEF q, r
    <2>7. r = l
      BY <2>2, <2>4, <2>5, <2>6
    <2> QED
      BY <2>7 DEF r, l, w, x
  <1> QED
    BY <1>1, ServiceInvHolds, PTL

\* No session is ready before it has heard hysteresis_ok_windows whole windows at
\* its rate, for any settings of the gate (SttGate::evaluate, analyzer.cpp:267).
THEOREM ReadinessIsEarned == Spec => []ReadyIsEarned
  <1>1. ServiceInv => ReadyIsEarned
    <2> SUFFICES ASSUME ServiceInv, NEW id \in DOMAIN sessions,
                        sessions[id].analyzer.gate.current_state
                 PROVE  FramesHeard(id) >= HysteresisOkWindows * WindowFrames
      BY DEF ReadyIsEarned
    <2> DEFINE l == Len(sessions[id].analyzer.frame_buffer)
               w == WindowFrames
    <2>1. Ready(sessions[id].analyzer) /\ Tally(sessions[id].analyzer, FramesHeard(id))
      BY DEF ServiceInv, SessionsInv, WellKept, FramesHeard, HeardAt
    <2>2. l \in Nat /\ w \in Nat
      BY <2>1, LenProperties, WindowFramesType DEF Ready, Analyzers
    <2>3. PICK closed \in Nat : /\ FramesHeard(id) = closed * w + l
                                /\ HysteresisOkWindows <= closed
      BY <2>1 DEF Tally
    <2> HIDE DEF l, w
    <2>4. HysteresisOkWindows * w <= closed * w /\ HysteresisOkWindows * w \in Int
          /\ closed * w \in Int
      BY <2>2, <2>3, GateAssumption
    <2> QED
      BY <2>2, <2>3, <2>4 DEF w
  <1> QED
    BY <1>1, ServiceInvHolds, PTL

\* A report shows the loss and the jitter as they stood at its session's last RTP
\* packet; one on RTP audio shows all that was counted, whatever was turned away
\* before (SessionManager::push_frame, RtpDepacketizer::decode_packet).
THEOREM ReportsShowTheLoss == Spec => []ReportShowsTheLoss
  <1>1. ServiceInv => ReportShowsTheLoss
    BY DEF ServiceInv
  <1> QED
    BY <1>1, ServiceInvHolds, PTL
=============================================================================
