SPECIFICATION Spec
CONSTANTS
    Kinds = {"docker", "gvisor", "sandboxexec", "none"}
    Modes = {"direct", "snapshot", "overlay", "tmpfs"}
    Consumers = {"cli", "collect"}
    Streams = {"stdout", "stderr"}
    First = "stdout"
    Chunks <- MCChunks
    MaxChunk = 2
    PipeCap = 1
    ChanCap = 1
INVARIANTS
    TypeOK
    OutputBeforeExit
    NothingLeftBehind
    ShownCopyIsKept
    AuditTellsTheOutcome
PROPERTIES
    StreamIsWellFormed
    CancelEnds
CHECK_DEADLOCK FALSE
