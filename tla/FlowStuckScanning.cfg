CONSTANTS
    p1 = p1
    p2 = p2
    NoProcess = NoProcess
    Process <- MCProcess
    WriteLimit = 2
    MaxRounds = 3
    MaxAttach = 3
SPECIFICATION Spec
PROPERTIES
    FlowLeavesScanning
CHECK_DEADLOCK FALSE
