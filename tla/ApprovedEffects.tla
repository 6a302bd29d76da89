-------------------------- MODULE ApprovedEffects --------------------------
(***************************************************************************)
(* The adapters through which an approved tool acts on evidence            *)
(* (packages/agent/src/adapters: accepted-graph-review.ts, export-report.ts, *)
(* legacy-staging.ts; packages/ingestion/src/legacy-staging.ts), and the   *)
(* services they act through, together on one ledger.                      *)
(*                                                                         *)
(* An adapter compares what was approved with what the ledger says now,    *)
(* looks whether the effect is already there, reads the whole ledger, calls *)
(* the service, and reads it again: it reports success only when the one   *)
(* event in between is what was approved.  All of these are separate reads. *)
(* Staging proposes a batch of assertions one by one; what it finds done in *)
(* part before it begins it refuses for good.                              *)
(*                                                                         *)
(* What was approved is compared as a whole, so a call that goes ahead is   *)
(* one of an approval of what the ledger holds when it begins; any other   *)
(* returns without effect, as does one that meets an agent's lock.         *)
(***************************************************************************)
EXTENDS AssertionReview

CONSTANTS
    Candidates, \* the assertions of a legacy staging batch, in its order
    TiedTo      \* the content each candidate rests on

StagingStream == <<"staging">>

CandidateSet == {Candidates[n] : n \in DOMAIN Candidates}

Now(want, at, result) ==
    [op |-> "adapter", want |-> want, at |-> at, base |-> Len(log), read |-> Len(log),
     result |-> result]

At(c, op, at) == call[c].op = op /\ call[c].at = at

\* An event lies in the stream of what it is about, and links name what the
\* scan of their batch saw.
WellFormed(e) ==
    \/ e.type = "import-approved" /\ e.stream = ImportStream(e.batch)
    \/ /\ e.type = "import-completed" /\ e.stream = ImportStream(e.batch)
       /\ e.created \in Nat
    \/ e.type = "ingested" /\ e.stream = EvidenceStream(e.evidence)
    \/ /\ e.type = "linked" /\ e.stream = LinkStream(e.batch, e.evidence)
       /\ e.batch \in Batch
       /\ e.occurrences \subseteq {o \in Observed[e.batch] : ContentOf[o] = e.evidence}
    \/ /\ e.type \in {"classified", "reviewed", "quarantined", "tombstoned"}
       /\ e.stream = EvidenceStream(e.evidence)
    \/ e.type = "exported" /\ e.stream[1] = "export"
    \/ /\ e.type \in {"exposure-enabled", "exposure-disabled"}
       /\ e.stream = ExposureStream(e.exposure)
    \/ e.type \in {"session-approved", "session-revoked"} /\ e.stream[1] = "session"
    \/ e.type \in {"proposed", "accepted"} /\ e.stream = AssertionStream(e.assertion)
    \/ e.type = "staging-approved" /\ e.stream = StagingStream

\* A ledger these services may have left.
SoundLedger(s) ==
    /\ s \in Seq({s[i] : i \in DOMAIN s})
    /\ \A i \in DOMAIN s : WellFormed(s[i])
    /\ ImportedOnce(s) /\ OneAfterTheOther(s) /\ CompletionIsEarned(s)
    /\ ReviewBuildsOnTheLast(s) /\ ExportWasPlanned(s)
    /\ AcceptedOnce(s) /\ FirstIsAccepted(s) /\ PreparedWasEligible(s)

Operation ==
    {"approve", "import", "classify", "review", "lock", "export", "expose", "session",
     "prepare", "propose", "accept", "adapter", "approve-staging", "stage", "die"}

\* A batch to stage has candidates (assertSelectedCandidateIds).  A
\* behaviour starts from what these services may have left, at most one call
\* dies in it, and assertions are proposed by staging or by the other ways.
ASSUME ScenariosAssumption ==
    /\ Candidates \in Seq(CandidateSet) \ {<<>>}
    /\ \A s \in Scenarios :
        /\ SoundLedger(s.log) /\ NoDuplicates(s.log)
        /\ s.calls \in [Operation -> Nat] /\ s.calls["die"] <= 1
        /\ \/ /\ OfType(s.log, "proposed") = {}
              /\ s.calls["propose"] = 0 /\ s.calls["prepare"] = 0
           \/ /\ OfType(s.log, "staging-approved") = {}
              /\ s.calls["approve-staging"] = 0

----------------------------------------------------------------------------
(* One event, of an acceptance or of an export.                            *)

\* Events that are the effect approved.  Whose acceptance it is, is not asked.
Matching(s, want) ==
    IF want.kind = "accepted"
    THEN {i \in Acceptances(s, want.assertion) : s[i].cause = want.cause}
    ELSE {i \in InStream(s, ExportStream(want.export)) :
            s[i].included = want.included /\ s[i].optIns = want.optIns}

\* The effect that is there, 0 if there is none.
Found(s, want) ==
    IF Matching(s, want) = {} THEN 0 ELSE CHOOSE i \in First(Matching(s, want)) : TRUE

\* The proposal must be the approved one and the evidence its latest.
BeginReview(c, a, h) ==
    /\ Makes(c, "adapter")
    /\ \E p \in Proposals(log, a) :
        LET want == [kind |-> "accepted", assertion |-> a, cause |-> p, by |-> h] IN
        /\ Latest(Ingestions(log, DOMAIN log, log[p].evidence)) = {log[p].cause}
        /\ call' = [call EXCEPT ![c] =
                Now(want, IF Found(log, want) = 0 THEN "base" ELSE "done", Found(log, want))]
    /\ UNCHANGED <<log, overlapped>>

\* An export that is there and differs is reported as a failure.
BeginExport(c, id, included, optIns) ==
    /\ Makes(c, "adapter")
    /\ \A x \in included : Exportable(log, x, optIns)
    /\ LET want == [kind |-> "exported", export |-> id, included |-> included,
                    optIns |-> optIns]
           at == IF InStream(log, ExportStream(id)) = {} THEN "base" ELSE "done" IN
       call' = [call EXCEPT ![c] = Now(want, at, Found(log, want))]
    /\ UNCHANGED <<log, overlapped>>

ReadBefore(c) ==
    /\ At(c, "adapter", "base")
    /\ call' = [call EXCEPT ![c].at = "act", ![c].base = Len(log)]
    /\ UNCHANGED <<log, budget, overlapped>>

\* AssertionService.accept: of the first proposal, whichever was approved.
FirstProposal(want) == CHOOSE p \in First(Proposals(log, want.assertion)) : TRUE

AcceptanceFound(want) == {i \in Acceptances(log, want.assertion) : log[i].cause = FirstProposal(want)}

Returns(c, e) == call' = [call EXCEPT ![c].at = "attest", ![c].result = e]

Fails(c) == call' = [call EXCEPT ![c].at = "done", ![c].result = 0]

PreparesEffect(c) == call' = [call EXCEPT ![c].at = "send", ![c].read = Len(log)]

CallAccept(c) ==
    /\ At(c, "adapter", "act") /\ call[c].want.kind = "accepted"
    /\ IF AcceptanceFound(call[c].want) = {}
       THEN PreparesEffect(c)
       ELSE \E e \in AcceptanceFound(call[c].want) : Returns(c, e)
    /\ UNCHANGED <<log, budget, overlapped>>

\* GovernanceService.recordExportGenerated plans again.
CallExport(c) ==
    LET want == call[c].want IN
    /\ At(c, "adapter", "act") /\ want.kind = "exported"
    /\ IF \A x \in want.included : Exportable(log, x, want.optIns)
       THEN PreparesEffect(c)
       ELSE call' = [call EXCEPT ![c].at = "lookup"]
    /\ UNCHANGED <<log, budget, overlapped>>

EventOf(k) ==
    IF k.want.kind = "accepted"
    THEN [type |-> "accepted", stream |-> AssertionStream(k.want.assertion),
          assertion |-> k.want.assertion, by |-> k.want.by, cause |-> FirstProposal(k.want)]
    ELSE [type |-> "exported", stream |-> ExportStream(k.want.export), asOf |-> k.read,
          included |-> k.want.included, optIns |-> k.want.optIns]

\* The stream must be as it was read; an export's must be empty.
AppendEffect(c) ==
    LET k == call[c]
        stream == EventOf(k).stream
        expected == IF k.want.kind = "exported" THEN 0
                    ELSE StreamLength(Prefix(log, k.read), stream) IN
    /\ At(c, "adapter", "send")
    /\ StreamLength(log, stream) = expected
    /\ log' = Append(log, EventOf(k))
    /\ Returns(c, Len(log'))
    /\ UNCHANGED <<budget, overlapped>>

\* accept looks for the acceptance that won, the export's adapter for the export.
LoseEffect(c) ==
    LET k == call[c] IN
    /\ At(c, "adapter", "send")
    /\ IF k.want.kind = "exported"
       THEN /\ InStream(log, ExportStream(k.want.export)) # {}
            /\ call' = [call EXCEPT ![c].at = "lookup"]
       ELSE /\ StreamLength(log, AssertionStream(k.want.assertion))
                # StreamLength(Prefix(log, k.read), AssertionStream(k.want.assertion))
            /\ IF AcceptanceFound(k.want) = {}
               THEN Fails(c)
               ELSE \E e \in AcceptanceFound(k.want) : Returns(c, e)
    /\ UNCHANGED <<log, budget, overlapped>>

LookUp(c) ==
    /\ At(c, "adapter", "lookup")
    /\ IF Found(log, call[c].want) = 0 THEN Fails(c) ELSE Returns(c, Found(log, call[c].want))
    /\ UNCHANGED <<log, budget, overlapped>>

\* Mutated form of Attest: that the effect is there is enough.
AttestPresence(c) ==
    /\ At(c, "adapter", "attest")
    /\ IF call[c].result \in Matching(log, call[c].want)
       THEN call' = [call EXCEPT ![c].at = "done"]
       ELSE Fails(c)
    /\ UNCHANGED <<log, budget, overlapped>>

\* The effect is what was approved and all that was appended since.
Attest(c) ==
    LET k == call[c] IN
    /\ At(c, "adapter", "attest")
    /\ IF k.result \in Matching(log, k.want) /\ (k.base + 1)..Len(log) = {k.result}
       THEN call' = [call EXCEPT ![c].at = "done"]
       ELSE Fails(c)
    /\ UNCHANGED <<log, budget, overlapped>>

----------------------------------------------------------------------------
(* A batch of proposals.                                                   *)

\* executeLegacyStagingApproval, approveStaging: once for a batch.
ApproveStaging(c, h) ==
    /\ Makes(c, "approve-staging")
    /\ \A a \in CandidateSet : BatchesLinking(log, TiedTo[a]) # {}
    /\ call' = [call EXCEPT ![c] =
            Sending([type |-> "staging-approved", stream |-> StagingStream, by |-> h], 1, 0)]
    /\ UNCHANGED <<log, overlapped>>

\* A batch that is there is reported, one that is there in part is refused.
BeginStaging(c) ==
    LET existing == {a \in CandidateSet : Proposals(log, a) # {}} IN
    /\ Makes(c, "stage")
    /\ InStream(log, StagingStream) # {}
    /\ \A a \in CandidateSet :
        BatchesLinking(log, TiedTo[a]) # {} /\ IsIngested(log, TiedTo[a])
    /\ existing \in {{}, CandidateSet}
    /\ call' = [call EXCEPT ![c] =
            [op |-> "stage", at |-> IF existing = {} THEN "check" ELSE "done", next |-> 1,
             base |-> Len(log), ok |-> existing # {}]]
    /\ UNCHANGED <<log, overlapped>>

MovesOn(k) ==
    [k EXCEPT !.at = IF k.next = Len(Candidates) THEN "finish" ELSE "check",
              !.next = @ + 1]

Candidate(c) == Candidates[call[c].next]

\* AssertionService.propose returns the same proposal if it is there.
CheckCandidate(c) ==
    /\ At(c, "stage", "check")
    /\ call' = [call EXCEPT ![c] =
            IF Proposals(log, Candidate(c)) = {} THEN [@ EXCEPT !.at = "append"] ELSE MovesOn(@)]
    /\ UNCHANGED <<log, budget, overlapped>>

AppendCandidate(c) ==
    /\ At(c, "stage", "append")
    /\ \E i \in First(Ingestions(log, DOMAIN log, TiedTo[Candidate(c)])) :
        log' = Append(log, Proposal(Candidate(c), TiedTo[Candidate(c)], i, FALSE))
    /\ call' = [call EXCEPT ![c] = MovesOn(@)]
    /\ UNCHANGED <<budget, overlapped>>

\* Anyone's acceptance in the meantime makes the staging a failure.
FinishStaging(c) ==
    /\ At(c, "stage", "finish")
    /\ call' = [call EXCEPT ![c].at = "done",
            ![c].ok = \A i \in (call[c].base + 1)..Len(log) : log[i].type # "accepted"]
    /\ UNCHANGED <<log, budget, overlapped>>

\* The adapter's report is taken.
Report(c) ==
    /\ At(c, "adapter", "done") \/ At(c, "stage", "done")
    /\ call' = [call EXCEPT ![c] = Idle]
    /\ UNCHANGED <<log, budget, overlapped>>

AdapterNext(c) ==
    \/ \E a \in Assertion, h \in Human : BeginReview(c, a, h)
    \/ \E id \in Export, included \in SUBSET Content \ {{}}, optIns \in SUBSET Restricted :
        BeginExport(c, id, included, optIns)
    \/ ReadBefore(c) \/ CallAccept(c) \/ CallExport(c)
    \/ AppendEffect(c) \/ LoseEffect(c) \/ LookUp(c) \/ Attest(c)
    \/ \E h \in Human : ApproveStaging(c, h)
    \/ BeginStaging(c) \/ CheckCandidate(c) \/ AppendCandidate(c) \/ FinishStaging(c)
    \/ Report(c)

----------------------------------------------------------------------------
(* The services and the adapters together, on one ledger.                  *)

vars == <<log, call, budget, overlapped>>

Init == RecordInit /\ ImportInit

\* An operation of a service or of an adapter, or a call that ends.
Next ==
    \E c \in Caller :
        \/ ImportNext(c)
        \/ GovernanceNext(c)
        \/ AssertionNext(c)
        \/ AdapterNext(c)
        \/ Send(c) /\ UNCHANGED overlapped
        \/ Die(c) /\ UNCHANGED overlapped

Spec == Init /\ [][Next]_vars

----------------------------------------------------------------------------
(* Properties.                                                             *)

\* Calls are idle, about to append, a pass, or an adapter's.
TypeOK ==
    /\ \A i \in DOMAIN log : WellFormed(log[i])
    /\ \A c \in Caller :
        call[c].op \in {"idle", "send", "import", "approve-session", "adapter", "stage"}
    /\ \A c \in Passes :
        /\ call[c].batch \in Batch
        /\ call[c].known \subseteq DOMAIN log
        /\ call[c].todo \subseteq ContentsOf(call[c].batch)
        /\ call[c].group \in call[c].todo \union {NoContent}
    /\ overlapped \in BOOLEAN

\* Passes over batches leave what one pass would have, as far as the code
\* keeps them apart, and count what a review counts (importApprovedOccurrences,
\* evaluateEvidenceProposalEligibility).
ImportsAreSound ==
    /\ TypeOK
    /\ ImportedOnce(log)
    /\ DuplicatesNeedOverlap
    /\ OneAfterTheOther(log)
    /\ CompletionIsEarned(log)
    /\ CompleteBatchesReconcile

Succeeded == {c \in Caller : At(c, "adapter", "done") /\ call[c].result # 0}

\* What an adapter reports as done is the effect that was approved, also when
\* it lost a race, or the first of two equal proposals was accepted.
ReportedIsApproved == \A c \in Succeeded : call[c].result \in Matching(log, call[c].want)

\* An export that an adapter reports, and that was planned and recorded after
\* the adapter read the ledger, took evidence that could be exported when the
\* export was recorded, not only when it was planned: the second read of the
\* ledger finds what came between (assertLedgerAttestedResult).
ReportedExportIsCurrent ==
    \A c \in Succeeded :
        /\ call[c].want.kind = "exported"
        /\ call[c].result > call[c].base
        /\ log[call[c].result].asOf >= call[c].base
        => \A x \in call[c].want.included :
                Exportable(Prefix(log, call[c].result - 1), x, call[c].want.optIns)

\* In a scenario that allows one death, there was none yet.
NoneDied == budget["die"] = 1

\* A batch of proposals that nobody is at work on is there as a whole or not at
\* all, unless a call died, however many stage it at once; and whoever reports
\* it done, before or after a death, has all of it (executeLegacyStaging).
BatchIsWhole ==
    LET staged == {a \in CandidateSet : Proposals(log, a) # {}}
        atWork == {c \in Caller : call[c].op = "stage" /\ call[c].at # "done"} IN
    /\ \A c \in Caller : At(c, "stage", "done") /\ call[c].ok => staged = CandidateSet
    /\ InStream(log, StagingStream) # {} /\ atWork = {} /\ NoneDied =>
        staged \in {{}, CandidateSet}

\* What adapters report agrees with what the ledger holds.
AdaptersAreHonest ==
    /\ ReportedIsApproved
    /\ ReportedExportIsCurrent
    /\ BatchIsWhole
=============================================================================
