SPECIFICATION Spec
CONSTANTS
    Users = {u1, u2}
    Requests = {r1}
    Called <- OneOfEach
SYMMETRY Symmetry
INVARIANTS
    TypeOK
    HandledWithRole
    ClosestEntryDecides
    OwnExceptionsAreMapped
CHECK_DEADLOCK FALSE
