SPECIFICATION Spec
CONSTANTS
    Kids = {"k"}
    Requests = {"a"}
    MinInterval = 2
    RefreshInterval = 3
    Timeout = 1
    MaxTime = 7
INVARIANTS
    TypeOK
    HealthyIsFresh
    PublishedIsFound
PROPERTY
    CloseEnds
CHECK_DEADLOCK FALSE
