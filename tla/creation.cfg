SPECIFICATION CreationSpec
CONSTANTS
    p1 = p1
    p2 = p2
    s1 = s1
    Mechanics = {}
    NoMechanic = NoMechanic
    Requests = {r1, r2}
    Parts = {p1, p2}
    Services = {s1}
    Lists <- MCLists
    NotSent = NotSent
    InitialStock <- MCInitialStock
    MaxStock = 2
    Deletable = {p1, p2}
    Connections = 2
INVARIANTS
    CreationTypeOK
    TakenIsBacked
PROPERTIES
    EveryRequestIsAnswered
    ImplementsOpening
CHECK_DEADLOCK FALSE
