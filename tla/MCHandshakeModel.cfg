SPECIFICATION Spec
CONSTANTS
    SttEnabled = TRUE
    ParakeetLoaded = TRUE
    WhisperLoaded = TRUE
    SessionIds = {"a"}
    WsConnections = {"ws1"}
    GrpcCalls = {}
    RestCalls = {}
    NoCaller = NoCaller
    ConfigLanguage = "pt"
    DefaultModel = "auto"
    Languages = {"", "pt"}
    OfferedModels = {"whisper"}
    MaxChunks = 2
    MaxFlushes = 2
INVARIANTS
    HandshakeModelIsUsed
CHECK_DEADLOCK FALSE
