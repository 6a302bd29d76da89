------------------------- MODULE EvidenceGovernance -------------------------
(***************************************************************************)
(* GovernanceService and its projection (packages/ontology/src/            *)
(* governance-service.ts, governance-projection.ts): classifications by a  *)
(* model, reviews by people, quarantine and tombstones of evidence, exports *)
(* planned from them; and, on streams of their own, network exposures and  *)
(* the device sessions approved under them.                                *)
(*                                                                         *)
(* Each operation reads one stream, decides, and appends on condition that *)
(* the stream did not grow.  Two read more than they can condition on: an  *)
(* export (the whole ledger, for an event that is the first of its stream) *)
(* and a session's approval (the exposure's stream, for the session's).    *)
(*                                                                         *)
(* Tags whose confidence is below the installed policy's threshold are not *)
(* in a classification here; the code skips them.  Redactions and incidents *)
(* only add to the log and are left out.                                   *)
(***************************************************************************)
EXTENDS ImportService

CONSTANTS
    Tag,        \* governance tags
    PublicSafe, \* the tag an export needs
    Restricted, \* the tags that keep evidence from an export without opt-in
    Export,     \* ids of exports and reports
    Exposure,   \* ids of network exposures
    Session     \* ids of device sessions

ASSUME GovernanceAssumption ==
    /\ PublicSafe \in Tag
    /\ Restricted \subseteq Tag \ {PublicSafe}

ExportStream(x) == <<"export", x>>
ExposureStream(n) == <<"exposure", n>>
SessionStream(d) == <<"session", d>>

IsIngested(s, x) == Ingestions(s, DOMAIN s, x) # {}

\* Classifications and reviews of evidence, which reviews build on.
Decisions(s, x) ==
    InStream(s, EvidenceStream(x)) \cap (OfType(s, "classified") \union OfType(s, "reviewed"))

----------------------------------------------------------------------------
(* The projection.                                                         *)

Reviews(s, x, t) == {i \in Decisions(s, x) : s[i].type = "reviewed" /\ s[i].tag = t}

\* Mutated form of IsActive: a classification overrides an earlier review.
IsActiveByLast(s, x, t) ==
    \E i \in Latest({j \in Decisions(s, x) :
            IF s[j].type = "classified" THEN t \in s[j].tags ELSE t = s[j].tag}) :
        s[i].type = "reviewed" => s[i].action # "remove"

\* A person's last word on a tag stands; else any classification counts.
IsActive(s, x, t) ==
    IF Reviews(s, x, t) # {}
    THEN \E i \in Latest(Reviews(s, x, t)) : s[i].action # "remove"
    ELSE \E i \in Decisions(s, x) : s[i].type = "classified" /\ t \in s[i].tags

IsLocked(s, x, type) == InStream(s, EvidenceStream(x)) \cap OfType(s, type) # {}

IsPublicSafe(s, x) ==
    /\ ~IsLocked(s, x, "quarantined") /\ ~IsLocked(s, x, "tombstoned")
    /\ IsActive(s, x, PublicSafe)
    /\ \A t \in Restricted : ~IsActive(s, x, t)

\* planExport includes x when these tags are opted in.
Exportable(s, x, optIns) ==
    /\ IsIngested(s, x)
    /\ ~IsLocked(s, x, "quarantined") /\ ~IsLocked(s, x, "tombstoned")
    /\ \A t \in Restricted : IsActive(s, x, t) => t \in optIns
    /\ \E t \in Restricted \union {PublicSafe} : IsActive(s, x, t)

\* The exposure the projection holds active: the last enabled one, of any
\* id, unless that one was disabled afterwards.
ActiveExposure(s) ==
    {i \in Latest(OfType(s, "exposure-enabled")) :
        \A j \in OfType(s, "exposure-disabled") :
            j > i => s[j].exposure # s[i].exposure}

LastOf(s, st) == Latest(InStream(s, st))

\* Mutated form of IsSessionApproved: any exposure of the same id will do.
IsSessionApprovedById(s, d) ==
    \E i \in LastOf(s, SessionStream(d)), j \in ActiveExposure(s) :
        s[i].type = "session-approved" /\ s[j].exposure = s[i].exposure

\* A session is approved while the exposure it was approved under is active,
\* the very event: exposing the network again takes another approval.
IsSessionApproved(s, d) ==
    \E i \in LastOf(s, SessionStream(d)) :
        /\ s[i].type = "session-approved"
        /\ s[i].cause \in ActiveExposure(s)
        /\ s[s[i].cause].exposure = s[i].exposure

----------------------------------------------------------------------------
(* The operations.                                                         *)

Prepares(c, event) ==
    /\ call' = [call EXCEPT ![c] = ExpectsSequence(event)]
    /\ UNCHANGED <<log, overlapped>>

ClassifyEvidence(c, x, tags) ==
    /\ Makes(c, "classify")
    /\ IsIngested(log, x)
    /\ Prepares(c, [type |-> "classified", stream |-> EvidenceStream(x),
                    evidence |-> x, tags |-> tags])

\* Its cause is the last decision the reviewer saw.  What a decision may
\* supersede is an earlier one that contains the tag.
ReviewEvidenceGovernance(c, x, t, action) ==
    /\ Makes(c, "review")
    /\ Decisions(log, x) # {}
    /\ action = "supersede" =>
        \E i \in Decisions(log, x) :
            IF log[i].type = "classified" THEN t \in log[i].tags ELSE t = log[i].tag
    /\ \E last \in Latest(Decisions(log, x)) :
        Prepares(c, [type |-> "reviewed", stream |-> EvidenceStream(x),
                     evidence |-> x, tag |-> t, action |-> action, cause |-> last])

\* quarantineEvidence and tombstoneEvidence, by their event's type.
LockEvidence(c, x, type) ==
    /\ Makes(c, "lock")
    /\ IsIngested(log, x)
    /\ Prepares(c, [type |-> type, stream |-> EvidenceStream(x), evidence |-> x])

\* The plan must include exactly what is to be exported.
RecordExport(c, id, included, optIns) ==
    /\ Makes(c, "export")
    /\ \A x \in included : Exportable(log, x, optIns)
    /\ call' = [call EXCEPT ![c] =
            Sending([type |-> "exported", stream |-> ExportStream(id), asOf |-> Len(log),
                     included |-> included, optIns |-> optIns], 1, 0)]
    /\ UNCHANGED <<log, overlapped>>

EnableExposure(c, n) ==
    /\ Makes(c, "expose")
    /\ Prepares(c, [type |-> "exposure-enabled", stream |-> ExposureStream(n), exposure |-> n])

DisableExposure(c, n) ==
    /\ Makes(c, "expose")
    /\ \E i \in LastOf(log, ExposureStream(n)) : log[i].type = "exposure-enabled"
    /\ Prepares(c, [type |-> "exposure-disabled", stream |-> ExposureStream(n), exposure |-> n])

\* The exposure is read before the session, and only the session is guarded.
ReadExposure(c, d, n) ==
    /\ Makes(c, "session")
    /\ \E i \in LastOf(log, ExposureStream(n)) :
        /\ log[i].type = "exposure-enabled"
        /\ call' = [call EXCEPT ![c] =
                [op |-> "approve-session", session |-> d, exposure |-> n, cause |-> i]]
    /\ UNCHANGED <<log, overlapped>>

ApproveDeviceSession(c) ==
    /\ call[c].op = "approve-session"
    /\ Prepares(c, [type |-> "session-approved", stream |-> SessionStream(call[c].session),
                    exposure |-> call[c].exposure, cause |-> call[c].cause])
    /\ UNCHANGED budget

RevokeDeviceSession(c, d) ==
    /\ Makes(c, "session")
    /\ \E i \in LastOf(log, SessionStream(d)) : log[i].type = "session-approved"
    /\ Prepares(c, [type |-> "session-revoked", stream |-> SessionStream(d)])

GovernanceNext(c) ==
    \/ \E x \in Content :
        \/ \E tags \in SUBSET Tag \ {{}} : ClassifyEvidence(c, x, tags)
        \/ \E t \in Tag, a \in {"affirm", "add", "remove", "supersede"} :
            ReviewEvidenceGovernance(c, x, t, a)
        \/ \E type \in {"quarantined", "tombstoned"} : LockEvidence(c, x, type)
    \/ \E id \in Export, included \in SUBSET Content \ {{}}, optIns \in SUBSET Restricted :
        RecordExport(c, id, included, optIns)
    \/ \E n \in Exposure :
        \/ EnableExposure(c, n) \/ DisableExposure(c, n)
        \/ \E d \in Session : ReadExposure(c, d, n)
    \/ ApproveDeviceSession(c)
    \/ \E d \in Session : RevokeDeviceSession(c, d)

----------------------------------------------------------------------------
(* Properties.                                                             *)

\* Two people who review at once do not pass each other: a review builds on
\* the decision that is last when it is recorded.
ReviewBuildsOnTheLast(s) ==
    \A x \in Content : \A i \in Decisions(s, x) :
        s[i].type = "reviewed" =>
            {s[i].cause} = Latest({j \in Decisions(s, x) : j < i})

\* A session that counts as approved is approved under what its exposure's own
\* stream last says, although the projection keeps one exposure for all ids.
SessionFollowsItsExposure ==
    \A d \in Session : IsSessionApproved(log, d) =>
        \E i \in LastOf(log, SessionStream(d)) :
            LastOf(log, ExposureStream(log[i].exposure)) = {log[i].cause}

\* What is exported was open to export when the export was planned.
ExportWasPlanned(s) ==
    \A i \in OfType(s, "exported") :
        /\ s[i].asOf \in 0..(i - 1)
        /\ \A x \in s[i].included : Exportable(Prefix(s, s[i].asOf), x, s[i].optIns)

\* What an export takes by default was public safe when the export was
\* planned: the plan and the list of public-safe evidence agree.
DefaultExportWasSafe ==
    \A i \in OfType(log, "exported") : log[i].optIns = {} =>
        \A x \in log[i].included : IsPublicSafe(Prefix(log, log[i].asOf), x)

\* A tag that a person removed comes back only by a person, whatever models
\* go on to say; and evidence once locked never becomes public safe.
HumanDecisionStands ==
    [][\A x \in Content :
        /\ \A t \in Tag :
            /\ Reviews(log, x, t) # {} /\ IsActive(log, x, t) # IsActive(log', x, t)
            => log'[Len(log')].type = "reviewed"
        /\ IsLocked(log, x, "quarantined") => ~IsPublicSafe(log', x)]_log

\* What is shared is covered by what people decided, one after the other:
\* exports by the tags, sessions by their exposure, reviews by the decision
\* before (planExport, approveDeviceSession, reviewEvidenceGovernance).
SharingIsCovered ==
    /\ SessionFollowsItsExposure
    /\ ExportWasPlanned(log)
    /\ DefaultExportWasSafe
    /\ ReviewBuildsOnTheLast(log)
=============================================================================
