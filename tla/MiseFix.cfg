CONSTANTS
    a = a
    b = b
    sharedLock = sharedLock
    node = node
    npmNode = npmNode
    line = line
    latest = latest
    NoPlan = NoPlan
    Configs <- MCConfigs
    LockOf <- MCLockOf
    Keys <- MCKeys
    Short <- MCShort
    Versions <- MCVersions
    Requests <- MCRequests
    Selects <- MCSelects
    Order <- MCOrder
    Plans <- MCPlans
    Declarable <- MCDeclarable
SPECIFICATION Spec
INVARIANTS
    TypeOK
    FixIsEffective
    RetryCanFinish
PROPERTIES
    FixLeavesOthersAlone
    NeededEntriesSurvive
