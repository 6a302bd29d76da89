CONSTANTS
    c1 = c1
    c2 = c2
    b1 = b1
    b2 = b2
    x1 = x1
    x2 = x2
    o1 = o1
    o2 = o2
    o3 = o3
    h1 = h1
    h2 = h2
    none = none
    safe = safe
    private = private
    e1 = e1
    n1 = n1
    n2 = n2
    d1 = d1
    a1 = a1
    a2 = a2
    Caller = {c1, c2}
    Scenarios <- MCScenarios
    Batch = {b1, b2}
    Content = {x1, x2}
    Occurrence = {o1, o2, o3}
    ContentOf <- MCContentOf
    Observed <- MCObserved
    Human = {h1, h2}
    NoContent = none
    Tag = {safe, private}
    PublicSafe = safe
    Restricted = {private}
    Export = {e1}
    Exposure = {n1, n2}
    Session = {d1}
    Assertion = {a1}
    Candidates <- MCCandidates
    TiedTo <- MCTiedTo
SPECIFICATION Spec
SYMMETRY MCSymmetry
CHECK_DEADLOCK FALSE
INVARIANTS
    ImportsAreSound
    SharingIsCovered
    AssertionsAreEarned
    AdaptersAreHonest
PROPERTIES
    HumanDecisionStands
