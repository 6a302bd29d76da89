CONSTANTS
    Worker = {w1, w2}
    Lease = 1
    Bounds <- MCLife
SPECIFICATION LiveSpec
CHECK_DEADLOCK FALSE
INVARIANTS
    DispatchIsAuthorized
    ClaimsTakeTurns
PROPERTIES
    ClaimsAreLetGo
    TaskIsTakenUp
