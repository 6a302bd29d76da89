CONSTANTS
    Worker = {w1, w2}
    Lease = 1
    Bounds <- MCTogether
SPECIFICATION Spec
SYMMETRY Ticks
CHECK_DEADLOCK FALSE
INVARIANTS
    TicksAreSound
PROPERTIES
    ImplementsTaskAttempt
