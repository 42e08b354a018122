SPECIFICATION Spec
CONSTANTS
    a = a
    b = b
    t = t
    u = u
    k = k
    v = v
    Tags <- MCTags
    Mutable <- MCTags
    Digests = {d1, d2}
    Packages <- MCPackages
    Unbuildable <- MCUnbuildable
    Advisories <- MCAdvisories
    Spaced <- MCSpaced
    Pushed <- MCPushed
    Published <- MCPublished
    Requests <- MCRequests
    Asks <- MCAsks
    Configs <- MCConfigs
    Nil = Nil
    None = None
    Failed = Failed
    DigestTTL = 0
    ImageTTL = 1
    OsvTTL = 0
    RecordTTL = 0
    HeadDelay = 0
    ScanDelay = 1
    MaxTime = 4
    MaxChanges = 1
SYMMETRY MCSymmetry
INVARIANT TypeOK
PROPERTIES PullIsPinned VulnerableIsRefused
CHECK_DEADLOCK FALSE
