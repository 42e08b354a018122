CONSTANTS
    root = root
    sub = sub
    other = other
    rootFix = rootFix
    subFix = subFix
    otherFix = otherFix
    lostFix = lostFix
    config = config
    lock = lock
    manifest = manifest
    Unknown = Unknown
    Calls <- MCCalls
    Files <- MCFiles
    Trees <- MCTrees
    Targets <- MCTargets
    Identity <- MCIdentity
    Contains <- MCContains
    FilesUnder <- MCFilesUnder
    Stuck <- OneStuck
    InPlace <- MCInPlace
SPECIFICATION FairSpec
INVARIANTS
    TypeOK
    OverlappingEditsTakeTurns
    NoLostUpdate
    HeldIsInFlight
    NoLostWakeup
PROPERTIES
    EditsAreSerial
    UnrelatedCallsReturn
