SPECIFICATION Spec
CONSTANTS
    Mechanics = {m1}
    NoMechanic = NoMechanic
    Orders = {o1}
    NoOrder = NoOrder
    Estimates = {e1, e2}
    NoEstimate = NoEstimate
    Parts = {p1}
    Services = {}
    InitialStock <- Stock1
    Requests = {r1}
    Operations <- WithoutPatch
    MayFail = TRUE
    MaxQuantity = 1
    MaxHistory = 5
SYMMETRY Symmetry
INVARIANTS
    StockNeverExceedsInitial
PROPERTIES
    ImplementsLifecycle
CHECK_DEADLOCK FALSE
