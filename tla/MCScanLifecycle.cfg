CONSTANTS
    MaxScans = 3
    MaxAttach = 2
SPECIFICATION Spec
INVARIANTS
    TypeOK
    OneScanThread
PROPERTIES
    CancelledScanNeverPublishes
    PanelLeavesScanning
CHECK_DEADLOCK FALSE
