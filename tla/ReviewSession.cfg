SPECIFICATION SessionSpec
CONSTANTS
    Paths <- MCPaths
    GitDir <- MCGitDir
    Contents = {c1, c2}
    None = None
    Dir = Dir
    Torn = Torn
    c1 = c1
    c2 = c2
    inner = inner
    outer = outer
    Links = {inner, outer}
    Leads <- MCLeads
    Elsewhere = Elsewhere
    MaxHops = 2
    Gone = Gone
    Originals <- MCOriginals
    Copies <- MCCopies
    DottedNames <- MCDottedNames
    Globs <- MCGlobs
    BadGlobs <- MCBadGlobs
    UserPaths <- MCUserPaths
    MaxUser = 1
    MaxApplies = 2
INVARIANTS
    SessionTypeOK
    AppliedLeavesNoChanges
    SelectedAreApplied
CHECK_DEADLOCK FALSE
