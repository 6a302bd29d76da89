---------------------------- MODULE ResidentLoop ----------------------------
(***************************************************************************)
(* The bounded loop of the resident agent: one plan, one tool, one result,  *)
(* or a suspension that releases the task's claim                          *)
(* (packages/agent/src/bounded-agent-loop.ts, resident-loop-tool-gateway.ts, *)
(* packages/local-runtime/src/mounted-wake-lifecycle-store.ts).            *)
(*                                                                         *)
(* A loop is bound to the mounted ledger as it is right after the claim of  *)
(* its task, and holds two tokens, each the length of a ledger it has seen. *)
(* After whatever it awaited, it compares the ledger with its token, seen,  *)
(* and stops for good if somebody appended what a loop does not append      *)
(* itself.  The gateway compares with its own, gate, before every operation,*)
(* but not after one: what lands while an operation is awaited goes by.     *)
(*                                                                         *)
(* A loop whose suspension was released may resume.  It claims the task      *)
(* again, or takes over a claim that another made of the same release, and   *)
(* then has still to replan; but the plan it was given with the call can not *)
(* name an event that the call appends, and no other plan is accepted.       *)
(*                                                                         *)
(* Every loop of the run is given the same plan, of one tool.  A tool of    *)
(* kind "automatic" stages one assertion; one of kind "human" waits for an  *)
(* approval and makes an event, or none: an artifact, or one made before.   *)
(***************************************************************************)
EXTENDS SpecialistHandoff

LoopStream == <<"loop">>
ToolStream == <<"tool">>
EffectStream == <<"effect">>

LoopRecord == {"plan", "observation", "tool-step"}

ToolRecord == {"tool-requested", "tool-approved", "tool-denied", "tool-claimed",
               "tool-observed", "tool-completed"}

\* The events of a handoff that was completed before the loop is bound.
Envelope == <<"dispatching", "started", "final", "prepared", "recorded",
              "terminal", "orchestrated", "status">>

\* How a suspension is recorded, each event because of the one before.
Suspension == <<"checkpoint", "suspended", "resumable", "released">>

ClaimEvent(cause) == [type |-> "claimed", stream |-> AttemptStream, cause |-> cause]

SuspensionEvent(type, cause, category) ==
    [type |-> type, cause |-> cause, category |-> category,
     stream |-> IF type \in {"suspended", "resumable"} THEN LoopStream ELSE AttemptStream]

ToolEvent(type, k) == [type |-> type, stream |-> ToolStream, kind |-> k.kind, effect |-> k.effect]

----------------------------------------------------------------------------
(* What may have been appended since the ledger had n events.              *)

\* The assertion is in the middle of the automatic tool's whole lifecycle.
CatalogChain(a) ==
    /\ a > 2 /\ a + 2 <= Len(log)
    /\ [j \in 1..5 |-> log[a - 3 + j].type] =
            <<"tool-requested", "tool-claimed", "asserted", "tool-observed", "tool-completed">>

\* Assertions that are new, or the evidence of an outcome that is.
AssertedSince(n) ==
    {a \in OfType(log, "asserted") :
        \/ a > n
        \/ \E i \in (n + 1)..Len(log) :
            log[i].type \in {"tool-observed", "tool-completed"} /\ log[i].effect = a}

PermittedSince(n) ==
    LET asserted == AssertedSince(n) IN
    /\ \A a \in asserted : CatalogChain(a)
    /\ \A i \in (n + 1)..Len(log) :
        \/ log[i].type \in LoopRecord \union {"recovery", "loop-result"}
        \/ asserted = {} /\ log[i].type \in ToolRecord
        \/ \E a \in asserted : i \in (a - 2)..(a + 2)

----------------------------------------------------------------------------
(* The steps of a loop.  One that throws leaves the loop at rest.          *)

LoopAt(c, at) == call[c].op = "loop" /\ call[c].at = at

Resting(k) == [k EXCEPT !.at = "rest", !.seen = 0, !.base = 0]

Rests(c) == call' = [call EXCEPT ![c] = Resting(@)] /\ UNCHANGED log

\* The store's append, on the ledger as the store finds it, and the loop's check,
\* which comes after it: what somebody else appended just before is noticed late.
LoopAppends(c, event, at) ==
    /\ log' = Append(log, event)
    /\ call' = [call EXCEPT ![c] =
            IF PermittedSince(@.seen) THEN [@ EXCEPT !.at = at, !.seen = Len(log) + 1]
            ELSE Resting(@)]
    /\ UNCHANGED budget

LoopEvent(type) == [type |-> type, stream |-> LoopStream]

\* The gateway's check before it awaits an operation.  A token that fails is
\* spent, and with it every later operation of this gateway.
Opens(c, from, at, otherwise) ==
    LET k == call[c] IN
    /\ LoopAt(c, from)
    /\ call' = [call EXCEPT ![c] =
            IF k.gate # 0 /\ PermittedSince(k.gate) THEN [k EXCEPT !.at = at]
            ELSE IF otherwise = "rest" THEN [Resting(k) EXCEPT !.gate = 0]
            ELSE [k EXCEPT !.at = otherwise, !.gate = 0]]
    /\ UNCHANGED <<log, budget>>

\* The gateway's append, on the tool's stream alone.
ToolAppends(c, from, expected, type, at) ==
    LET k == call[c] IN
    /\ LoopAt(c, from)
    /\ IF StreamLength(log, ToolStream) = expected
       THEN /\ log' = Append(log, ToolEvent(type, k))
            /\ call' = [call EXCEPT ![c].at = at, ![c].gate = Len(log) + 1]
       ELSE /\ call' = [call EXCEPT ![c].at = "failed", ![c].gate = Len(log)]
            /\ UNCHANGED log
    /\ UNCHANGED budget

\* The events of the tool's stream before its claim.
Unclaimed(k) == IF k.kind = "human" THEN 2 ELSE 1

\* bindMountedResidentLoopAuthorityForFactory: one claim, and after it nothing
\* or a completed handoff.
BindLoop(c) ==
    LET claims == OfType(log, "claimed") IN
    /\ Makes(c, "loop")
    /\ \E i \in claims, kind \in {"automatic", "human"} :
        /\ claims = {i}
        /\ [j \in 1..(Len(log) - i) |-> log[i + j].type] \in {<<>>, Envelope}
        /\ call' = [call EXCEPT ![c] =
                [op |-> "loop", at |-> "ready", kind |-> kind, seen |-> Len(log),
                 gate |-> Len(log), base |-> 0, effect |-> 0, outcome |-> "none"]]
    /\ UNCHANGED log

\* advance: with anything in the run's stream it appends nothing.
AdvanceLoop(c) ==
    /\ LoopAt(c, "ready")
    /\ IF OfType(log, "plan") = {} THEN LoopAppends(c, LoopEvent("plan"), "observe")
       ELSE Rests(c) /\ UNCHANGED budget

ObserveContext(c) ==
    LoopAt(c, "observe") /\ LoopAppends(c, LoopEvent("observation"), "request")

RequestTool(c) ==
    \/ Opens(c, "request", "requesting", "rest")
    \/ ToolAppends(c, "requesting", 0, "tool-requested", "requested")

\* The loop checks the ledger after the gateway's call.
Goes(c, from, k) ==
    /\ LoopAt(c, from)
    /\ call' = [call EXCEPT ![c] =
            IF PermittedSince(@.seen) /\ k.at # "rest"
            THEN [k EXCEPT !.seen = Len(log)] ELSE Resting(@)]
    /\ UNCHANGED <<log, budget>>

CheckRequest(c) ==
    LET k == call[c] IN
    Goes(c, "requested",
         [k EXCEPT !.at = IF k.kind = "human" THEN "decide" ELSE "execute"])

\* Mutated form of ReadDecision: any decision is taken for an approval.
ReadAnyDecision(c) ==
    LET k == call[c] IN
    \/ Goes(c, "decide", [k EXCEPT !.gate = Len(log), !.at =
            IF StreamLength(log, ToolStream) > 1 THEN "execute" ELSE "undecided"])
    \/ Goes(c, "undecided", [k EXCEPT !.outcome = "waiting", !.gate = Len(log), !.at =
            IF StreamLength(log, ToolStream) = 1 THEN "step" ELSE "rest"])

\* readFreshHumanDecision and, when it finds none, the request read once more,
\* which must still be undecided.
ReadDecision(c) ==
    LET k == call[c] IN
    \/ Goes(c, "decide", [k EXCEPT !.gate = Len(log), !.at =
            IF OfType(log, "tool-approved") # {} THEN "execute"
            ELSE IF OfType(log, "tool-denied") # {} THEN "rest" ELSE "undecided"])
    \/ Goes(c, "undecided", [k EXCEPT !.outcome = "waiting", !.gate = Len(log), !.at =
            IF StreamLength(log, ToolStream) = 1 THEN "step" ELSE "rest"])

\* executeFreshAuthorized: claim, act, observe, complete.
ClaimTool(c) ==
    \/ Opens(c, "execute", "claiming", "failed")
    \/ ToolAppends(c, "claiming", Unclaimed(call[c]), "tool-claimed", "claimed")

\* The adapter acts, and may throw before it does or after.
InvokeTool(c) ==
    LET k == call[c] IN
    \/ Opens(c, "claimed", "invoking", "failed")
    \/ /\ LoopAt(c, "invoking")
       /\ \E acts, returns \in BOOLEAN :
            /\ returns /\ k.kind = "automatic" => acts
            /\ log' = IF acts
                      THEN Append(log, [stream |-> EffectStream, type |->
                                IF k.kind = "automatic" THEN "asserted" ELSE "effect"])
                      ELSE log
            /\ call' = [call EXCEPT ![c].at = IF returns THEN "acted" ELSE "failed",
                                    ![c].effect = IF acts THEN Len(log) + 1 ELSE 0,
                                    ![c].gate = Len(log')]
       /\ UNCHANGED budget

ObserveOutcome(c) ==
    \/ Opens(c, "acted", "observing", "failed")
    \/ ToolAppends(c, "observing", Unclaimed(call[c]) + 1, "tool-observed", "observed")

CompleteTool(c) ==
    \/ Opens(c, "observed", "completing", "failed")
    \/ ToolAppends(c, "completing", Unclaimed(call[c]) + 2, "tool-completed", "executed")

\* An append of the gateway throws, and nothing is appended.
FailGateway(c) ==
    /\ \E at \in {"claiming", "observing", "completing"} : LoopAt(c, at)
    /\ budget["fault"] > 0
    /\ budget' = [budget EXCEPT !["fault"] = @ - 1]
    /\ call' = [call EXCEPT ![c].at = "failed", ![c].gate = Len(log)]
    /\ UNCHANGED log

CheckExecution(c) ==
    Goes(c, "executed", [call[c] EXCEPT !.at = "step", !.outcome = "completed"])

\* rereadAndIssueFromLedger, after a call that threw: the loop goes on only from
\* a claim that nothing followed.  An outcome without its completion is
\* completed, and then the loop throws.
RereadTool(c) ==
    LET k == call[c]
        last == Latest(InStream(log, ToolStream))
        current == PermittedSince(k.seen) /\ k.gate # 0 /\ PermittedSince(k.gate)
        observed == \E i \in last : log[i].type = "tool-observed"
    IN
    /\ LoopAt(c, "failed")
    /\ IF current /\ observed
       THEN /\ log' = Append(log, ToolEvent("tool-completed", k))
            /\ call' = [call EXCEPT ![c] = Resting(@)]
       ELSE /\ call' = [call EXCEPT ![c] =
                    IF current /\ \E i \in last : log[i].type = "tool-claimed"
                    THEN [k EXCEPT !.at = "step", !.outcome = "unknown",
                                   !.seen = Len(log), !.gate = Len(log)]
                    ELSE Resting(@)]
            /\ UNCHANGED log
    /\ UNCHANGED budget

RecordTool(c) ==
    \/ /\ LoopAt(c, "step")
       /\ LoopAppends(c, [type |-> "tool-step", stream |-> LoopStream,
                          outcome |-> call[c].outcome], "final")
    \/ LoopAt(c, "final") /\ LoopAppends(c, LoopEvent("observation"), "end")

\* The projection of the handoff: the task is completed, nothing is wrong.
HandoffConcluded ==
    /\ ~Diagnosed(log)
    /\ \E e \in Latest(OfType(log, "status")) : log[e].cause # 0 /\ log[e].status = "completed"

\* readVerifiedHandoff, and the append of appendCompletedResult.
ReadHandoff(c) ==
    LET k == call[c] IN
    /\ LoopAt(c, "end") /\ k.outcome = "completed"
    /\ Goes(c, "end", [k EXCEPT !.at = IF HandoffConcluded THEN "result" ELSE "rest"])

FinishLoop(c) ==
    LoopAt(c, "result") /\ LoopAppends(c, LoopEvent("loop-result"), "rest")

\* A claim that was not released and whose attempt did not end.
ActiveClaims ==
    {i \in OfType(log, "claimed") :
        /\ \A r \in OfType(log, "released") : r < i
        /\ \A o \in OfType(log, "orchestrated") : o < i}

\* suspendAndRelease takes the loop's token.  The claim's lease may have run out.
SuspendLoop(c) ==
    /\ LoopAt(c, "end") /\ call[c].outcome # "completed"
    /\ \/ call' = [call EXCEPT ![c] = Resting(@)]
       \/ /\ PermittedSince(call[c].seen) /\ ActiveClaims # {}
          /\ call' = [call EXCEPT ![c] = [Resting(@) EXCEPT !.at = "prefix"]]
    /\ UNCHANGED <<log, budget>>

----------------------------------------------------------------------------
(* The suspension's events, by whoever suspends or resumes.                *)

Missing == First({i \in DOMAIN Suspension : OfType(log, Suspension[i]) = {}})

Reclaims == {i \in OfType(log, "claimed") : log[i].cause # 0}

\* completeResidentSuspensionPrefix: what is there is reused, and nothing but the
\* release may follow the checkpoint on its stream.
ReadSuspension(c) ==
    /\ LoopAt(c, "prefix")
    /\ call' = [call EXCEPT ![c] =
            IF Reclaims # {} THEN Resting(@)
            ELSE IF Missing # {} THEN [@ EXCEPT !.at = "appending", !.base = Len(log)]
            ELSE IF @.outcome = "resuming" THEN [@ EXCEPT !.at = "eligible"]
            ELSE Resting(@)]
    /\ UNCHANGED <<log, budget>>

\* The event each stage names as its cause.
CauseOf(i) ==
    CHOOSE j \in DOMAIN log :
        log[j].type = IF i = 1 THEN "claimed" ELSE Suspension[i - 1]

\* Conditional on the stream and on the whole ledger as read.
AppendSuspension(c) ==
    LET k == call[c] IN
    /\ LoopAt(c, "appending")
    /\ IF Len(log) = k.base
       THEN /\ \E i \in Missing :
                log' = Append(log, SuspensionEvent(Suspension[i], CauseOf(i), k.outcome))
            /\ call' = [call EXCEPT ![c].at = "prefix", ![c].base = 0]
       ELSE Rests(c)
    /\ UNCHANGED budget

\* resume: of a suspension whose checkpoint is durable.
ResumeLoop(c) ==
    /\ LoopAt(c, "rest") \/ LoopAt(c, "ready")
    /\ OfType(log, "checkpoint") # {}
    /\ budget["resume"] > 0
    /\ budget' = [budget EXCEPT !["resume"] = @ - 1]
    /\ call' = [call EXCEPT ![c] = [Resting(@) EXCEPT !.at = "prefix", !.outcome = "resuming"]]
    /\ UNCHANGED log

\* residentReclaimIsEligible.
MayReclaim(k) ==
    /\ \A e \in OfType(log, "status") : log[e].status # "canceled"
    /\ OfType(log, "orchestrated") = {}
    /\ \A i \in OfType(log, "checkpoint") :
        \/ log[i].category = "waiting" /\ Cardinality(OfType(log, "tool-approved")) = 1
        \/ /\ log[i].category = "unknown" /\ k.gate # 0
           /\ OfType(log, "tool-observed") = {} /\ OfType(log, "tool-completed") = {}

OutcomeUnknown == \A i \in OfType(log, "checkpoint") : log[i].category = "unknown"

\* The gateway still finds the tool claimed, and nothing after the claim.
StillClaimed == \E i \in Latest(InStream(log, ToolStream)) : log[i].type = "tool-claimed"

\* For an outcome that is unknown the gateway is given a token of the ledger as it
\* is now, whatever others appended to it.
CheckReclaim(c) ==
    LET k == call[c] IN
    /\ LoopAt(c, "eligible")
    /\ call' = [call EXCEPT ![c] =
            IF ~MayReclaim(k) THEN Resting(k)
            ELSE IF OutcomeUnknown THEN [k EXCEPT !.at = "rereading", !.gate = Len(log)]
            ELSE [k EXCEPT !.at = "reclaim"]]
    /\ UNCHANGED <<log, budget>>

\* residentUnknownOutcomeReclaimIsEligible reads the tool once more.
RereadReclaim(c) ==
    \/ Opens(c, "rereading", "reread", "rest")
    \/ /\ LoopAt(c, "reread")
       /\ call' = [call EXCEPT ![c] =
            IF StillClaimed THEN [@ EXCEPT !.at = "reclaim", !.gate = Len(log)]
            ELSE Resting(@)]
       /\ UNCHANGED <<log, budget>>

\* readOrAppendResidentReclaim, which reads the ledger again, and not whether the
\* task was canceled.  A claim that this release caused already is taken over.
ReadReclaim(c) ==
    /\ LoopAt(c, "reclaim")
    /\ call' = [call EXCEPT ![c] =
            IF OfType(log, "orchestrated") # {} THEN Resting(@)
            ELSE IF Reclaims = {} THEN [@ EXCEPT !.at = "reclaiming", !.base = Len(log)]
            ELSE [@ EXCEPT !.at = "taking"]]
    /\ UNCHANGED <<log, budget>>

AppendReclaim(c) ==
    /\ LoopAt(c, "reclaiming")
    /\ IF Len(log) = call[c].base
       THEN /\ \E r \in OfType(log, "released") : log' = Append(log, ClaimEvent(r))
            /\ call' = [call EXCEPT ![c].at = "taking", ![c].base = 0]
       ELSE Rests(c)
    /\ UNCHANGED budget

\* The loop's new token is of the ledger as it is after the claim.
TakeClaim(c) ==
    /\ LoopAt(c, "taking")
    /\ call' = [call EXCEPT ![c].at = "taken", ![c].seen = Len(log)]
    /\ UNCHANGED <<log, budget>>

\* resume goes on from its claim: the six events of the suspended run are read, and
\* the tool once more, for its outcome is unknown.  A claim of the loop's own is
\* younger than the gateway's token, which fails.
ReplayLoop(c) ==
    LET k == call[c] IN
    \/ Goes(c, "taken", [k EXCEPT !.at =
            IF OutcomeUnknown /\ StreamLength(log, LoopStream) = 6 THEN "replayed" ELSE "rest"])
    \/ Opens(c, "replayed", "recalling", "rest")
    \/ Goes(c, "recalling", [k EXCEPT !.gate = Len(log), !.at =
            IF StillClaimed THEN "recover" ELSE "rest"])

\* That it is unknown still is observed.  The plan to go on with came with the call,
\* and would have to name the id of this event, drawn here: it is refused.
RecordRecovery(c) ==
    /\ LoopAt(c, "recover")
    /\ log' = IF OfType(log, "recovery") = {} THEN Append(log, LoopEvent("recovery")) ELSE log
    /\ call' = [call EXCEPT ![c] = Resting(@)]
    /\ UNCHANGED budget

\* A person decides on a request that is open.
DecideTool(c, verdict) ==
    /\ Makes(c, "sign")
    /\ StreamLength(log, ToolStream) = 1
    /\ \E i \in OfType(log, "tool-requested") :
        /\ log[i].kind = "human"
        /\ call' = [call EXCEPT ![c] =
                ExpectsSequence([type |-> verdict, stream |-> ToolStream])]
    /\ UNCHANGED log

\* The caller has no further use for the loop.
DropLoop(c) ==
    /\ LoopAt(c, "rest")
    /\ call' = [call EXCEPT ![c] = Idle]
    /\ UNCHANGED <<log, budget>>

LoopNext(c) ==
    \/ BindLoop(c) \/ AdvanceLoop(c) \/ ObserveContext(c)
    \/ RequestTool(c) \/ CheckRequest(c) \/ ReadDecision(c)
    \/ ClaimTool(c) \/ InvokeTool(c) \/ ObserveOutcome(c) \/ CompleteTool(c)
    \/ FailGateway(c) \/ CheckExecution(c) \/ RereadTool(c)
    \/ RecordTool(c) \/ ReadHandoff(c) \/ FinishLoop(c) \/ SuspendLoop(c)
    \/ ReadSuspension(c) \/ AppendSuspension(c) \/ ResumeLoop(c)
    \/ CheckReclaim(c) \/ RereadReclaim(c) \/ ReadReclaim(c) \/ AppendReclaim(c)
    \/ TakeClaim(c) \/ ReplayLoop(c) \/ RecordRecovery(c)
    \/ \E verdict \in {"tool-approved", "tool-denied"} : DecideTool(c, verdict)
    \/ DropLoop(c)

----------------------------------------------------------------------------
(* Properties.                                                             *)

Effects == OfType(log, "asserted") \union OfType(log, "effect")

\* However loops, people and crashes interleave, the run's tool acts at most
\* once, under a durable claim of its request, and a tool that needs a person
\* only after an approval that no denial stands against.
EffectIsCovered ==
    /\ Cardinality(Effects) <= 1
    /\ \A e \in Effects :
        \E r \in OfType(log, "tool-requested"), k \in OfType(log, "tool-claimed") :
            /\ r < k /\ k < e
            /\ log[r].kind = "human" =>
                /\ \E a \in OfType(log, "tool-approved") : r < a /\ a < k
                /\ OfType(log, "tool-denied") = {}

\* A completed result closes a run whose tool was completed and whose handoff was
\* concluded, and in whose course, from its plan to the last of its records,
\* nobody else appended a thing.
ResultIsEarned ==
    \A r \in OfType(log, "loop-result") :
        /\ OfType(log, "loop-result") = {r}
        /\ OfType(log, "checkpoint") = {}
        /\ \E d \in OfType(log, "tool-completed"), o \in OfType(log, "orchestrated") :
            d < r /\ o < r
        /\ \A p \in OfType(log, "plan") : \A i \in p..(r - 1) :
            \/ log[i].type \in LoopRecord \union ToolRecord \union {"asserted"}
            \/ \A j \in i..(r - 1) : log[j].type \notin LoopRecord

\* A suspension is recorded in order and each part once, whoever completes it; a
\* claim is released by it once and reclaimed at most once after that, of an
\* attempt that had not ended.  What it says of the tool is so: nobody claimed a
\* tool that waits for a decision, and one whose outcome is called unknown left no
\* trace in the ledger.
SuspensionIsWhole ==
    /\ \A i \in DOMAIN Suspension : Cardinality(OfType(log, Suspension[i])) <= 1
    /\ \A i \in 2..4 : \A e \in OfType(log, Suspension[i]) :
        log[e].cause < e /\ log[log[e].cause].type = Suspension[i - 1]
    /\ \A i, j \in Reclaims :
        /\ log[i].cause < i /\ log[log[i].cause].type = "released" /\ i = j
        /\ \A o \in OfType(log, "orchestrated") : i < o
    /\ \A e \in OfType(log, "checkpoint") :
        /\ log[e].category = "waiting" => OfType(log, "tool-claimed") = {}
        /\ log[e].category = "unknown" =>
            /\ OfType(log, "tool-claimed") # {}
            /\ OfType(log, "tool-observed") \union Effects = {}

\* Two loops that complete the suspension and reclaim at once may both go on with
\* one claim.  Whoever takes it, the run is observed once more at most, after the
\* claim, of an outcome that is unknown; and that is the last of it: neither its
\* tool nor another is planned, asked for, claimed or used.
TakeoverEnds ==
    \A o \in OfType(log, "recovery") :
        /\ OfType(log, "recovery") = {o}
        /\ \E i \in Reclaims : i < o
        /\ OutcomeUnknown /\ OfType(log, "loop-result") = {}
        /\ \A i \in (o + 1)..Len(log) :
            log[i].type \notin ToolRecord \union LoopRecord \union {"asserted", "effect"}

\* A loop acts once and says truly how it ended.
LoopIsSound ==
    /\ EffectIsCovered
    /\ ResultIsEarned
    /\ SuspensionIsWhole
    /\ TakeoverEnds
=============================================================================
