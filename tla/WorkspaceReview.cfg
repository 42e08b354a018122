SPECIFICATION Spec
CONSTANTS
    Paths <- MCPaths
    GitDir <- MCGitDir
    Contents = {c1, c2}
    None = None
    Dir = Dir
    Torn = Torn
    inner = inner
    outer = outer
    Links = {inner, outer}
    Leads <- MCLeads
    Elsewhere = Elsewhere
    MaxHops = 2
    Gone = Gone
    Originals <- MCOriginals
    Configs <- AllConfigs
    MaxCommand = 3
    UserPaths <- MCPaths
    MaxUser = 1
SYMMETRY MCSymmetry
INVARIANTS
    TypeOK
    AcceptedIsWhole
    MovedFilesAreKept
PROPERTIES
    OnlyReviewedIsWritten
    GitIsLeftAlone
CHECK_DEADLOCK FALSE
