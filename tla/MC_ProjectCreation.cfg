SPECIFICATION Spec
CONSTANTS
    Size = {"small", "large"}
    Bare = "bare"
    CellSize = "small"
    Grid = {"square"}
    NoGrid = "none"
    FirstGrid = "square"
    Cells <- MC_Cells
    Exports <- MC_Exports
    maxTasksPerProject = 2
    MaxDrafts = 3
    MaxCalls = 1
    NoDraft = NoDraft
    NoButton = NoButton
    NoDivide = NoDivide
INVARIANTS
    Consistent
    MissingHasCause
PROPERTIES
    ToolbarFollows
    DivideWithinLimit
    RenameKeepsSelection
