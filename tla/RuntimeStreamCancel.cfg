SPECIFICATION Spec
CONSTANTS
    Kinds = {"docker"}
    Modes = {"direct", "snapshot", "overlay", "tmpfs"}
    Consumers = {"cli", "collect"}
    Streams = {"stdout", "stderr"}
    First = "stdout"
    Chunks <- MCChunks
    MaxChunk = 2
    PipeCap = 1
    ChanCap = 1
PROPERTY
    CancelTerminates
CHECK_DEADLOCK FALSE
