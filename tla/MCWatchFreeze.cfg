CONSTANTS
    NoVal = NoVal
    Val <- MCVal
    MaxWrites = 1
    MaxWatches = 2
    MaxAttach = 2
SPECIFICATION Spec
INVARIANTS
    TypeOK
    TickInsideAttachment
    GoneReportedOnce
PROPERTIES
    FreezeHolds
    ShownSettles
    DeadProcessDetached
CHECK_DEADLOCK FALSE
