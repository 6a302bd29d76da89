CONSTANTS
    Worker = {w1}
    Lease = 1
    Bounds <- MCDying
SPECIFICATION LiveSpec
PROPERTY CompletionIsProjected
CHECK_DEADLOCK FALSE
