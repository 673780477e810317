SPECIFICATION Spec
CONSTANTS
    A = A
    B = B
    Customers = {c1, c2}
    Vehicles = {v1, v2}
    Plates = {A, B}
    None = None
    TypedDocuments <- MCDocuments
    TypedPlates <- MCPlates
    Requests = {r1, r2}
SYMMETRY Symmetry
INVARIANTS
    TypeOK
    DocumentsAreUnique
    ActivePlatesAreUnique
    OrphansAreLate
    OrdersNameTheOwner
PROPERTIES
    ArchivedStaysArchived
    ImplementsOwnership
CHECK_DEADLOCK FALSE
