CONSTANTS
    Pids <- MCPids
    Subjects <- MCPids
    Kinds <- MCKinds
    MaxInstances = 2
    MaxListings = 1
    MaxGone = 1
    RotateAt = 2
    Window = 1
    MaxRuns = 2
    MaxWrites = 1
SPECIFICATION Spec
INVARIANTS
    NeverAttachBlocks
