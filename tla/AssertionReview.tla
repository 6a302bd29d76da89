-------------------------- MODULE AssertionReview --------------------------
(***************************************************************************)
(* From evidence to accepted assertions: EvidenceReviewService and         *)
(* AssertionService (packages/ontology/src/evidence-service.ts,            *)
(* assertion-service.ts).                                                  *)
(*                                                                         *)
(* Preparing a candidate weighs the whole ledger (the evidence, its links  *)
(* in every batch, the batches' approvals and completions, governance) and *)
(* is refused when the ledger grew at all.  Proposing without preparation  *)
(* looks at the evidence only and appends on no condition.  Accepting is   *)
(* conditional on the assertion's stream; whoever loses looks for the      *)
(* acceptance that won and returns that.                                   *)
(***************************************************************************)
EXTENDS EvidenceGovernance

CONSTANT Assertion

AssertionStream(a) == <<"assertion", a>>

Proposals(s, a) == {i \in OfType(s, "proposed") : s[i].assertion = a}

Acceptances(s, a) == {i \in OfType(s, "accepted") : s[i].assertion = a}

----------------------------------------------------------------------------
(* Is a piece of evidence fit to assert from?                              *)

BatchesLinking(s, x) == {b \in Batch : Links(s, DOMAIN s, b, x) # {}}

\* The contents any link of a batch names.
ContentsLinked(s, b) == {x \in Content : Links(s, DOMAIN s, b, x) # {}}

\* The batch was approved by a person and completed, and what it counted is
\* what its scan observed of the contents it linked.
IsReconciled(s, b) ==
    \E k \in First(Completions(s, b)) :
        /\ Approvals(s, b) # {}
        /\ s[k].linked = Cardinality({o \in Observed[b] : ContentOf[o] \in ContentsLinked(s, b)})

ProvenanceComplete(s, x) ==
    /\ IsIngested(s, x)
    /\ BatchesLinking(s, x) # {}
    /\ \A b \in BatchesLinking(s, x) :
        /\ IsReconciled(s, b)
        /\ \A o \in Linked(s, DOMAIN s, b, x) : o \in Observed[b] /\ ContentOf[o] = x

Eligible(s, x) ==
    /\ ProvenanceComplete(s, x)
    /\ ~IsLocked(s, x, "quarantined") /\ ~IsLocked(s, x, "tombstoned")

----------------------------------------------------------------------------
\* Only EvidenceReviewService prepares its proposals.
Proposal(a, x, i, prepared) ==
    [type |-> "proposed", stream |-> AssertionStream(a), assertion |-> a, evidence |-> x,
     cause |-> i, prepared |-> prepared]

\* Mutated form of PrepareAssertionCandidate: only the assertion's stream is guarded.
PrepareUnguarded(c, a, x) ==
    /\ Makes(c, "prepare")
    /\ Eligible(log, x)
    /\ Proposals(log, a) = {}
    /\ \E i \in First(Ingestions(log, DOMAIN log, x)) :
        Prepares(c, Proposal(a, x, i, TRUE))

\* An assertion already proposed is returned if it is the same, else refused.
PrepareAssertionCandidate(c, a, x) ==
    /\ Makes(c, "prepare")
    /\ Eligible(log, x)
    /\ Proposals(log, a) = {}
    /\ \E i \in First(Ingestions(log, DOMAIN log, x)) :
        call' = [call EXCEPT ![c] = ExpectsGlobalCount(Proposal(a, x, i, TRUE))]
    /\ UNCHANGED <<log, overlapped>>

ProposeAssertion(c, a, x) ==
    /\ Makes(c, "propose")
    /\ InStream(log, AssertionStream(a)) = {}
    /\ \E i \in First(Ingestions(log, DOMAIN log, x)) :
        call' = [call EXCEPT ![c] = ExpectsNothing(Proposal(a, x, i, FALSE))]
    /\ UNCHANGED <<log, overlapped>>

\* The proposal accepted is the first of the stream.
AcceptAssertion(c, a, h) ==
    /\ Makes(c, "accept")
    /\ \E p \in First(Proposals(log, a)) :
        /\ \A i \in Acceptances(log, a) : log[i].cause # p
        /\ Prepares(c, [type |-> "accepted", stream |-> AssertionStream(a),
                        assertion |-> a, by |-> h, cause |-> p])

AssertionNext(c) ==
    \E a \in Assertion :
        \/ \E x \in Content : PrepareAssertionCandidate(c, a, x) \/ ProposeAssertion(c, a, x)
        \/ \E h \in Human : AcceptAssertion(c, a, h)

----------------------------------------------------------------------------
(* Properties.                                                             *)

\* Two people who accept an assertion at once leave one acceptance, even of
\* an assertion that was proposed twice.
AcceptedOnce(s) == \A a \in Assertion : Cardinality(Acceptances(s, a)) <= 1

\* What is accepted of an assertion is its first proposal.
FirstIsAccepted(s) ==
    \A i \in OfType(s, "accepted") : s[i].cause \in First(Proposals(s, s[i].assertion))

\* A prepared candidate rests on evidence that was fit when the candidate was
\* recorded, not only when it was read: nothing was linked, locked or half
\* imported in between.
PreparedWasEligible(s) ==
    \A i \in OfType(s, "proposed") :
        s[i].prepared => Eligible(Prefix(s, i - 1), s[i].evidence)

\* Completing all batches that link a piece of evidence leaves its provenance
\* whole, however the passes overlapped, died and were retried: what passes
\* count and what the review of evidence counts agree.
CompleteBatchesReconcile ==
    \A x \in Content :
        /\ BatchesLinking(log, x) # {}
        /\ \A b \in BatchesLinking(log, x) : Completions(log, b) # {}
        => ProvenanceComplete(log, x)

\* An assertion rests on evidence that was fit and is accepted once, whoever
\* prepares, proposes and accepts at once (prepareAssertionCandidate, accept).
AssertionsAreEarned ==
    /\ AcceptedOnce(log)
    /\ FirstIsAccepted(log)
    /\ PreparedWasEligible(log)
=============================================================================
