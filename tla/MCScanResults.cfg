CONSTANTS
    Address <- MCAddress
    PageSize = 1
    Orders <- MCOrders
    MaxValue = 1
    MaxSessions = 2
    MaxScans = 2
    MaxQueue = 1
    MaxCalls = 2
    MaxPage = 2
SPECIFICATION Spec
INVARIANTS
    TypeOK
    ValuesOfOwnSession
    PageInsideResults
    RefreshFollowsPage
PROPERTIES
    RowsSettle
