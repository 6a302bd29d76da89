------------------------ MODULE MCWorkspaceServices ------------------------
(* One behaviour exercises one service, or two that meet: its scenario says *)
(* which calls may be made and how often.                                   *)
EXTENDS WorkspaceServices, TLC

CONSTANTS c1, c2, r1, l1, l2, m1, m2, m3, s1, s2, s3, s4, s5, g1, g2,
          pA, pB, pC, pR, none, e1, e2, a1, a2, id1, id2, t1, t2, t3, t4

Nothing == [op \in {"create", "agency", "letter", "remember", "retract", "supersede",
                    "mount", "trigger", "claim", "verdict", "bind", "rebuild",
                    "fault", "die", "output", "record", "finalize", "recover", "step",
                    "fail", "cancel", "loop", "resume", "sign", "admit", "take",
                    "withdraw", "policy", "elsewhere"} |-> 0]

Created == [type |-> "created", stream |-> r1]
Remembered == MemoryEvent("remembered", m1, NoMemory)
Verdict1(p) == [type |-> "reviewed", stream |-> DecisionStream, claim |-> p,
                action |-> "accept", by |-> NoClaim]
AllProposed == <<Event("proposed", pA), Event("proposed", pB), Event("proposed", pR)>>

Letters == [log |-> <<Created>>, calls |->
    [Nothing EXCEPT !["letter"] = 4, !["agency"] = 1, !["die"] = 1]]
FirstLetter == [log |-> <<>>, calls |->
    [Nothing EXCEPT !["create"] = 2, !["letter"] = 2, !["agency"] = 1]]
Memories == [log |-> <<Remembered>>, calls |->
    [Nothing EXCEPT !["retract"] = 1, !["supersede"] = 2, !["remember"] = 1,
                    !["fault"] = 1, !["die"] = 1]]
Triggers == [log |-> <<>>, calls |->
    [Nothing EXCEPT !["trigger"] = 3, !["mount"] = 1]]
Accepted == AllProposed \o <<BindingEvent(pA, e1), Verdict1(pA), Verdict1(pR)>>

Reviews == [log |-> AllProposed, calls |->
    [Nothing EXCEPT !["verdict"] = 2]]
Corrections == [log |-> Accepted, calls |->
    [Nothing EXCEPT !["claim"] = 1, !["verdict"] = 2]]
Bindings == [log |-> Accepted, calls |->
    [Nothing EXCEPT !["verdict"] = 1, !["bind"] = 2]]
RacingRebuilds == [log |-> <<Remembered>>, calls |->
    [Nothing EXCEPT !["rebuild"] = 2, !["remember"] = 1, !["fault"] = 1, !["die"] = 1]]
ManyRebuilds == [log |-> <<Remembered>>, calls |->
    [Nothing EXCEPT !["rebuild"] = 3, !["remember"] = 1]]
DyingRebuilds == [log |-> <<Remembered>>, calls |->
    [Nothing EXCEPT !["rebuild"] = 3, !["die"] = 1]]

Output(t) == FinalOutput(t, 0)
MCAnchorOf ==
    t1 :> [status |-> "ready", outputs |-> "o"] @@
    t2 :> [status |-> "ready", outputs |-> "o"] @@
    t3 :> [status |-> "suspended", outputs |-> "o"] @@
    t4 :> [status |-> "failed", outputs |-> "none"]

Handoffs == [log |-> <<>>, calls |->
    [Nothing EXCEPT !["output"] = 2, !["record"] = 2, !["step"] = 1]]
Conclusions == [log |-> <<Output(t1)>>, calls |->
    [Nothing EXCEPT !["record"] = 3, !["recover"] = 1, !["cancel"] = 1, !["step"] = 1,
                    !["fail"] = 1, !["die"] = 1]]
Finalizations == [log |-> <<Output(t1)>>, calls |->
    [Nothing EXCEPT !["record"] = 1, !["finalize"] = 2, !["fail"] = 1, !["cancel"] = 1]]
Supersessions == [log |-> <<Output(t1)>>, calls |->
    [Nothing EXCEPT !["output"] = 2, !["record"] = 3, !["finalize"] = 1, !["die"] = 1]]
Suspended == [log |-> <<Output(t3)>>, calls |->
    [Nothing EXCEPT !["record"] = 2, !["die"] = 1]]

Claimed == <<ClaimEvent(0)>>
Plain(type) == [type |-> type, stream |-> RunStream]
Binding == [final |-> 4, revision |-> 1, supersedes |-> 0, bound |-> TRUE]
Concluded == Claimed \o <<
    [type |-> "dispatching", stream |-> AttemptStream], Plain("started"), Output(t1),
    [type |-> "prepared", stream |-> RunStream, binding |-> Binding],
    [type |-> "recorded", stream |-> RunStream, binding |-> Binding, cause |-> 5],
    [type |-> "terminal", stream |-> RunStream, cause |-> 6, status |-> "completed"],
    [type |-> "orchestrated", stream |-> AttemptStream, cause |-> 7],
    [type |-> "status", stream |-> TaskStream, cause |-> 8, status |-> "completed"]>>

Loops == [log |-> Claimed, calls |->
    [Nothing EXCEPT !["loop"] = 2, !["resume"] = 1, !["sign"] = 1, !["fault"] = 1]]
InterruptedLoops == [log |-> Claimed, calls |->
    [Nothing EXCEPT !["loop"] = 1, !["resume"] = 1, !["sign"] = 1, !["step"] = 1, !["cancel"] = 1]]
ResumedLoops == [log |-> Claimed, calls |->
    [Nothing EXCEPT !["loop"] = 2, !["resume"] = 2, !["sign"] = 1, !["die"] = 1, !["fault"] = 1]]
ConcludedLoops == [log |-> Concluded, calls |->
    [Nothing EXCEPT !["loop"] = 2, !["sign"] = 1, !["step"] = 1, !["fault"] = 1]]

Queued == <<TaskCreated, TaskQueued>>
Admitted == Queued \o <<TaskAdmitted("local", 0)>>

AdmittedRuns == [log |-> Queued, calls |->
    [Nothing EXCEPT !["admit"] = 2, !["take"] = 1]]
WithdrawnRuns == [log |-> Admitted, calls |->
    [Nothing EXCEPT !["take"] = 1, !["withdraw"] = 2, !["fault"] = 1]]
InterruptedRuns == [log |-> Admitted, calls |->
    [Nothing EXCEPT !["take"] = 2, !["die"] = 2, !["elsewhere"] = 1]]
StaleRuns == [log |-> Admitted, calls |->
    [Nothing EXCEPT !["take"] = 2, !["policy"] = 1, !["elsewhere"] = 1]]
RemoteRuns == [log |-> Queued, calls |->
    [Nothing EXCEPT !["admit"] = 2, !["withdraw"] = 2, !["die"] = 1, !["policy"] = 1]]

MCScenarios == {
    Letters, FirstLetter, Memories, Triggers, Reviews, Corrections, Bindings,
    RacingRebuilds, ManyRebuilds, DyingRebuilds,
    Handoffs, Conclusions, Finalizations, Supersessions, Suspended,
    Loops, InterruptedLoops, ResumedLoops, ConcludedLoops,
    AdmittedRuns, WithdrawnRuns, InterruptedRuns, StaleRuns, RemoteRuns}

ASSUME MountedAssumption == \A s \in Scenarios : MountedRunsAlone(s)

Twice == {[log |-> <<Created>>, calls |-> [Nothing EXCEPT !["letter"] = 2]]}
Again == {[log |-> <<Remembered>>, calls |-> [Nothing EXCEPT !["rebuild"] = 2]]}

MCGateOf == s1 :> g1 @@ s2 :> g1 @@ s3 :> g1 @@ s4 :> g2 @@ s5 :> g2
MCPolicyOf ==
    g1 :> [cooldown |-> 0, window |-> 3, max |-> 2] @@
    g2 :> [cooldown |-> 2, window |-> 4, max |-> 2]

C(kind, mention, type, from) ==
    [kind |-> kind, mention |-> mention, type |-> type, derivedFrom |-> from]
MCClaimOf ==
    pA :> C("entity", "x", "person", NoClaim) @@
    pB :> C("entity", "y", "agency", NoClaim) @@
    pC :> C("entity", "x", "agency", pA) @@
    pR :> C("relation", "x", "person", NoClaim)
MCMention == {"x", "y"}

MCSymmetry == Permutations({c1, c2}) \union Permutations({s1, s2, s3})
    \union Permutations({s4, s5})
=============================================================================
