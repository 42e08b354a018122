SPECIFICATION Spec
CONSTANTS
    Paths <- MCPaths
    GitDir <- MCGitDir
    Contents = {c1, c2}
    None = None
    Dir = Dir
    Torn = Torn
    inner = inner
    outer = outer
    Links = {inner, outer}
    Leads <- MCLeads
    Elsewhere = Elsewhere
    MaxHops = 2
    Gone = Gone
    Originals <- MCOriginals
    Configs <- Reviewed
    MaxCommand = 2
    UserPaths <- MCPaths
    MaxUser = 0
SYMMETRY MCSymmetry
INVARIANT ReportsOnlyExecuted
CHECK_DEADLOCK FALSE
