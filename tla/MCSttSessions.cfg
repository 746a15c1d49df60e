SPECIFICATION Spec
CONSTANTS
    SttEnabled = TRUE
    ParakeetLoaded = TRUE
    WhisperLoaded = TRUE
    SessionIds = {"a"}
    WsConnections = {"ws1"}
    GrpcCalls = {"grpc1"}
    RestCalls = {}
    NoCaller = NoCaller
    ConfigLanguage = "pt"
    DefaultModel = "auto"
    Languages = {"", "pt"}
    OfferedModels = {"whisper"}
    MaxChunks = 2
    MaxFlushes = 1
INVARIANTS
    TypeOK
    DecodesAlone
    ChunkInOnePlace
    ChunksAreKept
    ChunksInOrder
    NothingLeftBehind
    BlankOnlyAfterBothModels
PROPERTIES
    KeepsThePromise
CHECK_DEADLOCK FALSE
