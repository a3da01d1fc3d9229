CONSTANTS
    Wild = Wild
    NoValue = NoValue
    Base = 2
    Address <- MCAddress
    Page = 2
    Regions <- MCRegions
    ValueSize = 2
    Requests <- MCRequests
    GapLimit = 2
    SpanLimit = 8
    MaxPokes = 1
SPECIFICATION Spec
INVARIANTS
    TypeOK
    CountExact
    ScanFindsExactly
    RefineDecides
    UnknownDecides
    CaptureSpendsBudget
PROPERTIES
    ScanEnds
