SPECIFICATION WitnessedSpec
CONSTANTS
    Mechanics = {m1, m2}
    NoMechanic = NoMechanic
    Orders = {o1}
    NoOrder = NoOrder
    Estimates = {e1}
    NoEstimate = NoEstimate
    Parts = {}
    Services = {}
    InitialStock <- NoStock
    Requests = {r1, r2}
    Operations <- OrderOperations
    MayFail = FALSE
    MaxQuantity = 1
    MaxHistory = 8
SYMMETRY Symmetry
INVARIANTS
    ClosingIsDated
    HistoryRowsAreEdges
    FinishedByItsMechanic
CHECK_DEADLOCK FALSE
