CONSTANTS
    s1 = s1
    s2 = s2
    o1 = o1
    o2 = o2
    c1 = c1
    c2 = c2
    Sessions <- OneSession
    Ops <- MCOps
    Callers <- MCCallers
    Capacity = 1
    MaxAsks = 2
    NoOp = NoOp
    NoSession = NoSession
SPECIFICATION Spec
PROPERTIES
    AcceptedIsPending
CHECK_DEADLOCK FALSE
