CONSTANTS
    a = a
    b = b
    sharedLock = sharedLock
    node = node
    npmNode = npmNode
    line = line
    latest = latest
    NoPlan = NoPlan
    Configs <- OneConfig
    LockOf <- OneLock
    Keys <- OneKey
    Short <- OneShort
    Versions <- HistoryVersions
    Requests <- HistoryVersions
    Selects <- HistorySelects
    Order <- HistoryOrder
    Plans <- HistoryPlans
    Declarable <- HistoryDeclarable
SPECIFICATION Spec
PROPERTIES
    PruneReintroducesNothing
