SPECIFICATION Spec
CONSTANTS
    Users = {u1}
    Requests = {r1}
    Called <- OneOfEach
INVARIANTS
    RefusedTokensGet401
CHECK_DEADLOCK FALSE
