CONSTANTS
    v1 = v1
    v2 = v2
    i1 = i1
    i2 = i2
    c1 = c1
    c2 = c2
    none = none
    NoInvocation = none
    Instance <- MCInstance
    Call <- MCCall
    InstanceOf <- MCInstanceOf
    Invocation <- MCInvocation
    Bounds <- MCBounds
SPECIFICATION FairSpec
CHECK_DEADLOCK FALSE
INVARIANTS
    TransfersAreSound
    OutcomeIsHonest
PROPERTIES
    TerminalStays
    RunningEnds
