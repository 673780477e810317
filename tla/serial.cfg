SPECIFICATION Spec
CONSTANTS
    Mechanics = {m1}
    NoMechanic = NoMechanic
    Orders = {o1}
    NoOrder = NoOrder
    Estimates = {e1, e2}
    NoEstimate = NoEstimate
    Parts = {p1}
    Services = {s1}
    InitialStock <- Stock1
    Requests = {r1}
    Operations <- AllOperations
    MayFail = FALSE
    MaxQuantity = 1
    MaxHistory = 8
SYMMETRY Symmetry
INVARIANTS
    TypeOK
    HistoryIsThePath
    ApprovedIsUnderWay
    TotalIsSumOfItems
    AverageIsOfFinishedOrders
PROPERTIES
    ApprovedIsFinal
CHECK_DEADLOCK FALSE
