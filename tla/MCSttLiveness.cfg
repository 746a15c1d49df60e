SPECIFICATION FairSpec
CONSTANTS
    SttEnabled = TRUE
    ParakeetLoaded = TRUE
    WhisperLoaded = TRUE
    SessionIds = {"a"}
    WsConnections = {"ws1"}
    GrpcCalls = {"grpc1"}
    RestCalls = {"rest1"}
    NoCaller = NoCaller
    ConfigLanguage = ""
    DefaultModel = "auto"
    Languages = {""}
    OfferedModels = {"whisper"}
    MaxChunks = 1
    MaxFlushes = 1
PROPERTIES
    EveryFlushIsAnswered
    KeepsThePromiseInTime
CHECK_DEADLOCK FALSE
