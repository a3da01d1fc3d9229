CONSTANTS
    Address <- MCAddress
    Base <- MCBase
    ModuleSize = 1
    MaxValue = 1
    Specs <- MCSpecs
    Names = {lives}
    Drafts <- MCDrafts
    NoFile = NoFile
    Torn = Torn
    MaxInstances = 2
    MaxWatches = 2
    MaxCalls = 2
SPECIFICATION Spec
INVARIANTS
    TypeOK
    RuntimeWatchSameCell
    TrickHitsItsCell
    CatalogNeverTorn
PROPERTIES
    ConfirmedAsShown
    FailedSwitchContained
