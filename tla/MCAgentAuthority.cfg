CONSTANTS
    p1 = p1
    p2 = p2
    NoProcess = NoProcess
    Process <- MCProcess
    WriteLimit = 2
    MaxRounds = 3
    MaxAttach = 3
SPECIFICATION Spec
INVARIANTS
    TypeOK
    GrantFollowsTarget
    CardOfPresentProcess
    ConsentBuysLimit
PROPERTIES
    AgentKeepsProcess
    TurnEnds
CHECK_DEADLOCK FALSE
