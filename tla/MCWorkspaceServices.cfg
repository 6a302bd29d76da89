CONSTANTS
    c1 = c1
    c2 = c2
    r1 = r1
    l1 = l1
    l2 = l2
    m1 = m1
    m2 = m2
    m3 = m3
    s1 = s1
    s2 = s2
    s3 = s3
    s4 = s4
    s5 = s5
    g1 = g1
    g2 = g2
    pA = pA
    pB = pB
    pC = pC
    pR = pR
    a1 = a1
    a2 = a2
    id1 = id1
    id2 = id2
    t1 = t1
    t2 = t2
    t3 = t3
    t4 = t4
    none = none
    e1 = e1
    e2 = e2
    Caller = {c1, c2}
    Scenarios <- MCScenarios
    Request = {r1}
    Letter = {l1, l2}
    Memory = {m1, m2, m3}
    NoMemory = none
    Signal = {s1, s2, s3, s4, s5}
    Gate = {g1, g2}
    GateOf <- MCGateOf
    Time = {1, 2, 4}
    PolicyOf <- MCPolicyOf
    Claim = {pA, pB, pC, pR}
    ClaimOf <- MCClaimOf
    Mention <- MCMention
    Entity = {e1, e2}
    NoClaim = none
    NoEntity = none
    Artifact = {a1, a2}
    RebuildId = {id1, id2}
    Text = {t1, t2, t3, t4}
    Triaged = t1
    Unpublished = t4
    AnchorOf <- MCAnchorOf
SPECIFICATION Spec
SYMMETRY MCSymmetry
CHECK_DEADLOCK FALSE
INVARIANTS
    CorrespondenceIsSound
    SupersessionIsWhole
    AdmissionIsSound
    KnowledgeIsSound
    HandoffIsSound
    MountedTaskIsSound
    LoopIsSound
    WorkspaceIsSound
