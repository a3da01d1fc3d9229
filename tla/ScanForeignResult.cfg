CONSTANTS
    MaxScans = 3
    MaxAttach = 2
SPECIFICATION Spec
INVARIANTS
    ResultOfOwnSession
CHECK_DEADLOCK FALSE
