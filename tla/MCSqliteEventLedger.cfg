CONSTANTS
    c1 = c1
    c2 = c2
    d1 = d1
    NoDecision = NoDecision
    NoClient = NoClient
    Client <- MCClient
    Decision <- MCDecision
    Stream <- MCStream
    Malformed <- MCMalformed
    Content <- MCContent
    MaxEvents = 3
SPECIFICATION FairSpec
INVARIANTS
    LedgerIsSound
    DecisionsAreWhole
    GuardedAppendSawEverything
PROPERTIES
    NoStaleDecision
    CommittedRetryIsNotRefused
    ImplementsLedger
    LockIsReleased
