SPECIFICATION Spec
CONSTANTS
    Materials = {m1}
    Services = {s1}
    Estimates = {e1}
    NoEstimate = NoEstimate
    Requests = {r1, r2}
    Quantities = {4}
    Amounts = {2, 4}
    MaxStock = 8
SYMMETRY Symmetry
INVARIANTS
    TypeOK
    StockNeverNegative
    ListAnswers
    ItemsWereTaken
    ItemsNameRegisteredRows
PROPERTIES
    DeletedStaysDeleted
CHECK_DEADLOCK FALSE
