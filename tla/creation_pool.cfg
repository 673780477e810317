SPECIFICATION CreationSpec
CONSTANTS
    p1 = p1
    p2 = p2
    s1 = s1
    Mechanics = {}
    NoMechanic = NoMechanic
    Requests = {r1, r2, r3}
    Parts = {p1, p2}
    Services = {s1}
    Lists <- CrossedLists
    NotSent = NotSent
    InitialStock <- MCInitialStock
    MaxStock = 0
    Deletable = {}
    Connections = 2
PROPERTIES
    EveryRequestIsAnswered
CHECK_DEADLOCK FALSE
