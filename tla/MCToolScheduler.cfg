CONSTANTS
    w1 = w1
    w2 = w2
    c1 = c1
    c2 = c2
    Actor <- MCActor
    Requester = "agent"
    ApprovalDesk = "desk"
    Wake <- MCWake
    SchedulerActor <- MCSchedulerActor
    Caller <- MCOneCaller
    Approver <- MCApprover
    Lease = 1
    MaxTime = 1
    MaxApprovals = 2
    MaxCrashes = 1
CHECK_DEADLOCK FALSE
SPECIFICATION FairSpec
INVARIANTS
    RequestIsSound
    LeasesDoNotOverlap
    ExecutionIsAuthorized
    CompletionIsEarned
PROPERTIES
    ImplementsToolRequest
    ApprovedIsTakenUp
