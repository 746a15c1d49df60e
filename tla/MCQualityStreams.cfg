SPECIFICATION Spec
CONSTANTS
    HysteresisOkWindows = 1
    HysteresisBadWindows = 1
    SttReadyThreshold = 65000
    MinSnrDb = 12
    MaxClippingRatio = 20
    MaxSilenceRatio = 600
    FrameMs = 20
    WindowMs = 40
    SpeechEnergyThreshold <- MCSpeechEnergyThreshold
    SequenceMod = 4
    CounterMod = 8
    TimestampMod = 16
    SessionIds = {a}
    WsConnections = {"ws1"}
    GrpcCalls = {"grpc1"}
    SseRequests = {"sse1"}
    OfferedFormats = {"rtp_pcmu", "pcm_s16le_8k", "pcm_s16le_16k"}
    Sound <- MCSound
    WireSequences = {0, 2}
    MaxPushes = 4
INVARIANTS
    TypeOK
    NothingLeftOfTheFinished
    WindowsAreOfOneRate
    ReadyIsEarned
    ReportShowsTheLoss
CHECK_DEADLOCK FALSE
