--------------------------- MODULE ToolScheduler ---------------------------
(***************************************************************************)
(* Wakes of the agent scheduler (packages/agent/src/scheduler.ts) and      *)
(* calls of the tool gateway by agents and people, all at work on one tool *)
(* request that needs a human's approval.                                  *)
(*                                                                         *)
(* A gateway method reads the stream and appends later, on the condition   *)
(* that the stream has not grown since (expectedNextSequence).  Between    *)
(* the two, and at every other await, the others may act.  A wake that     *)
(* passes its checks builds the current preview, claims the execution with *)
(* a lease, runs the tool, rereads the evidence and reports.  Any number   *)
(* of wakes may be under way: each HTTP call that wakes the runtime starts *)
(* one.                                                                    *)
(***************************************************************************)
EXTENDS ToolGateway, FiniteSets

CONSTANTS
    Wake,           \* wakes of schedulers that may be under way together
    Caller,         \* other calls of the gateway that may be
    SchedulerActor, \* the actor each wake's scheduler acts as
    Approver,       \* actors that approve and deny
    Lease,          \* how long a claim lasts (executionClaimLeaseMs)
    MaxTime,        \* bound on the clock
    MaxApprovals,   \* bound on the approvals of the request
    MaxCrashes      \* bound on the wakes that die halfway

Process == Wake \union Caller

ASSUME SchedulerAssumption ==
    /\ SchedulerActor \in [Wake -> Actor]
    /\ Approver \subseteq Actor
    /\ Lease \in Nat \ {0}
    /\ MaxTime \in Nat /\ MaxApprovals \in Nat /\ MaxCrashes \in Nat
    /\ Wake \intersect Caller = {}

VARIABLES
    stream,     \* the tool request's stream in the ledger
    now,        \* the clock
    effects,    \* ids of the claims under which the tool's effect is durable
    pc,         \* where each process is
    base,       \* length of the stream the process's append expects
    pending,    \* the event the process is about to append
    lease,      \* leaseExpiresAt, computed before the claim is made
    claim,      \* id of the claim a wake holds
    crashes     \* wakes that died

durable == <<stream, now, effects>>
local == <<pc, base, pending, lease, claim>>
vars == <<durable, local, crashes>>

NoEvent == NewEvent("requested", Requester, 0)

Init ==
    /\ stream = <<>> /\ now = 0 /\ effects = {} /\ crashes = 0
    /\ pc = [p \in Process |-> "idle"]
    /\ base = [p \in Process |-> 0]
    /\ pending = [p \in Process |-> NoEvent]
    /\ lease = [w \in Wake |-> 0]
    /\ claim = [w \in Wake |-> 0]

----------------------------------------------------------------------------
(* A conditional append, in its two halves.                                *)

Goto(p, label) == pc' = [pc EXCEPT ![p] = label]

\* The read half: event e is built from the stream and waits to be sent.
Prepare(p, e, label) ==
    /\ Goto(p, label)
    /\ base' = [base EXCEPT ![p] = Len(stream)]
    /\ pending' = [pending EXCEPT ![p] = e]
    /\ UNCHANGED <<durable, lease, claim, crashes>>

\* Mutated form of Expected: the append is made with no expectation.
ExpectedAnything(p) == TRUE

Expected(p) == Len(stream) = base[p]

Accepted(p) == Expected(p) /\ stream' = Append(stream, pending[p])

Refused(p) == ~Expected(p) /\ UNCHANGED stream

\* The call or the wake is over; its result is not kept.
Finish(p) ==
    /\ Goto(p, "idle")
    /\ base' = [base EXCEPT ![p] = 0]
    /\ pending' = [pending EXCEPT ![p] = NoEvent]
    /\ lease' = IF p \in Wake THEN [lease EXCEPT ![p] = 0] ELSE lease
    /\ claim' = IF p \in Wake THEN [claim EXCEPT ![p] = 0] ELSE claim

\* The same wake goes on to another step, with nothing to append.
Proceed(w, label) ==
    /\ Goto(w, label)
    /\ base' = [base EXCEPT ![w] = 0]
    /\ pending' = [pending EXCEPT ![w] = NoEvent]

----------------------------------------------------------------------------
(* Calls of the gateway: requestTool, approveTool, denyTool.               *)

RequestTool(c) ==
    /\ pc[c] = "idle"
    /\ MayRequest(stream)
    /\ Prepare(c, NewEvent("requested", Requester, now), "sending")

ApproveTool(c, actor) ==
    /\ pc[c] = "idle"
    /\ MayApprove(stream, actor)
    /\ Cardinality(Ids(stream, "approved")) < MaxApprovals
    /\ Prepare(c, NewEvent("approved", actor, now), "sending")

DenyTool(c, actor) ==
    /\ pc[c] = "idle"
    /\ MayClose(stream)
    /\ Prepare(c, NewEvent("denied", actor, now), "sending")

Send(c) ==
    /\ pc[c] = "sending"
    /\ Accepted(c) \/ Refused(c)
    /\ Finish(c)
    /\ UNCHANGED <<now, effects, crashes>>

----------------------------------------------------------------------------
(* A wake of the scheduler.                                                *)

Approved == Open(stream) /\ Ids(stream, "approved") # {}

\* consumeApprovedRequest's checks of the request, with its descriptor found.
ConsumeMatching(w) ==
    /\ Ids(stream, "claimed") = {}
    /\ Goto(w, IF ApprovalUsable(stream, SchedulerActor[w]) THEN "preview" ELSE "fail")

\* The descriptor's class is not the request's: no other check is made.
ConsumeMismatched(w) == Goto(w, "fail")

\* handleDescriptorlessRequest.
ConsumeMissing(w) == Ids(stream, "claimed") = {} /\ Goto(w, "fail")

\* wake: the request is found approved and open, and its descriptor looked up.
WakeUp(w) ==
    /\ pc[w] = "idle"
    /\ Approved
    /\ ConsumeMatching(w) \/ ConsumeMismatched(w) \/ ConsumeMissing(w)
    /\ UNCHANGED <<durable, base, pending, lease, claim, crashes>>

\* Mutated form of BuildPreview: a preview that fails ends the wake, and the
\* request stays approved.
BuildPreviewOrForget(w) ==
    /\ pc[w] = "preview"
    /\ \/ /\ Goto(w, "claim")
          /\ lease' = [lease EXCEPT ![w] = now + Lease]
       \/ Goto(w, "idle") /\ UNCHANGED lease
    /\ UNCHANGED <<durable, base, pending, claim, crashes>>

\* buildCurrentPreview and the checks of what it returns; the lease is
\* computed before claimExecution is called.
BuildPreview(w) ==
    /\ pc[w] = "preview"
    /\ \/ /\ Goto(w, "claim")
          /\ lease' = [lease EXCEPT ![w] = now + Lease]
       \/ Goto(w, "fail") /\ UNCHANGED lease
    /\ UNCHANGED <<durable, base, pending, claim, crashes>>

\* Mutated form of ClaimExecution: a request closed meanwhile is claimed.
ClaimWithoutChecks(w) ==
    /\ pc[w] = "claim"
    /\ Prepare(w, ClaimEvent(SchedulerActor[w], now, lease[w]), "claiming")

\* claimExecution, up to its append.  The wake gives up when it is refused.
ClaimExecution(w) ==
    /\ pc[w] = "claim"
    /\ IF MayClaim(stream, SchedulerActor[w], now, lease[w])
       THEN Prepare(w, ClaimEvent(SchedulerActor[w], now, lease[w]), "claiming")
       ELSE Finish(w) /\ UNCHANGED <<durable, crashes>>

Claim(w) ==
    /\ pc[w] = "claiming"
    /\ \/ /\ Accepted(w)
          /\ Proceed(w, "execute")
          /\ claim' = [claim EXCEPT ![w] = Len(stream')]
          /\ UNCHANGED lease
       \/ Refused(w) /\ Finish(w)
    /\ UNCHANGED <<now, effects, crashes>>

\* executeApproved: the domain service may or may not have recorded the
\* effect by the time the call returns a result or throws.
Execute(w) ==
    /\ pc[w] = "execute"
    /\ effects' \in {effects, effects \union {claim[w]}}
    /\ Goto(w, "evidence") \/ Goto(w, "fail")
    /\ UNCHANGED <<stream, now, base, pending, lease, claim, crashes>>

\* assertCurrentGatewayState.
SoleClaim(w) ==
    /\ Open(stream)
    /\ Cardinality(Ids(stream, "approved")) = 1
    /\ Ids(stream, "claimed") = {claim[w]}

\* Mutated form of RereadEvidence: the tool's word is taken for its result.
TakeResultOnTrust(w) ==
    /\ pc[w] = "evidence"
    /\ Goto(w, IF SoleClaim(w) THEN "report" ELSE "fail")
    /\ UNCHANGED <<durable, base, pending, lease, claim, crashes>>

\* reread: the request is as it was and the result's events are durable.  The
\* code's causal check (hasExactCausalBinding) would also take an event of
\* another whose causes lead back to the request's sources.
RereadEvidence(w) ==
    /\ pc[w] = "evidence"
    /\ Goto(w, IF SoleClaim(w) /\ claim[w] \in effects THEN "report" ELSE "fail")
    /\ UNCHANGED <<durable, base, pending, lease, claim, crashes>>

\* completeToolFromSchedulerEvidence, before it calls completeTool.
ReportCompletion(w) ==
    /\ pc[w] = "report"
    /\ Goto(w, IF MayReport(stream, claim[w]) THEN "complete" ELSE "fail")
    /\ UNCHANGED <<durable, base, pending, lease, claim, crashes>>

\* completeTool, which reads the stream again.
CompleteTool(w) ==
    /\ pc[w] = "complete"
    /\ IF MayComplete(stream, SchedulerActor[w])
       THEN Prepare(w, CompletionEvent(SchedulerActor[w], now, claim[w]), "completing")
       ELSE Goto(w, "fail") /\ UNCHANGED <<durable, base, pending, lease, claim, crashes>>

Complete(w) ==
    /\ pc[w] = "completing"
    /\ \/ Accepted(w) /\ Finish(w)
       \/ Refused(w) /\ Proceed(w, "fail") /\ UNCHANGED <<lease, claim>>
    /\ UNCHANGED <<now, effects, crashes>>

\* failTool.
FailTool(w) ==
    /\ pc[w] = "fail"
    /\ IF MayClose(stream)
       THEN Prepare(w, NewEvent("failed", SchedulerActor[w], now), "failing")
       ELSE Finish(w) /\ UNCHANGED <<durable, crashes>>

Fail(w) ==
    /\ pc[w] = "failing"
    /\ Accepted(w) \/ Refused(w)
    /\ Finish(w)
    /\ UNCHANGED <<now, effects, crashes>>

\* The process that runs the wake dies.
Crash(w) ==
    /\ pc[w] # "idle"
    /\ crashes < MaxCrashes
    /\ crashes' = crashes + 1
    /\ Finish(w)
    /\ UNCHANGED durable

Tick ==
    /\ now < MaxTime
    /\ now' = now + 1
    /\ UNCHANGED <<stream, effects, local, crashes>>

----------------------------------------------------------------------------
Advance(w) ==
    \/ WakeUp(w) \/ BuildPreview(w) \/ ClaimExecution(w) \/ Claim(w)
    \/ Execute(w) \/ RereadEvidence(w) \/ ReportCompletion(w)
    \/ CompleteTool(w) \/ Complete(w) \/ FailTool(w) \/ Fail(w)

Call(c) ==
    \/ RequestTool(c) \/ Send(c)
    \/ \E actor \in Approver : ApproveTool(c, actor) \/ DenyTool(c, actor)

Next ==
    \/ \E c \in Caller : Call(c)
    \/ \E w \in Wake : Advance(w) \/ Crash(w)
    \/ Tick

Spec == Init /\ [][Next]_vars

\* Somebody keeps waking the scheduler, and a wake that has begun goes on.
FairSpec == Spec /\ \A w \in Wake : WF_vars(Advance(w))
----------------------------------------------------------------------------
(* Properties.                                                             *)

Label == {"idle", "sending", "preview", "claim", "claiming", "execute",
          "evidence", "report", "complete", "completing", "fail", "failing"}

\* The stream holds events, every append expects a length the stream has had,
\* and a wake past its claim holds the id of an event.
TypeOK ==
    /\ stream \in Seq(Event)
    /\ now \in 0..MaxTime
    /\ effects \subseteq DOMAIN stream
    /\ pc \in [Process -> Label]
    /\ base \in [Process -> 0..Len(stream)]
    /\ pending \in [Process -> Event]
    /\ lease \in [Wake -> 0..MaxTime + Lease]
    /\ claim \in [Wake -> 0..Len(stream)]
    /\ crashes \in 0..MaxCrashes

\* However many calls and wakes race, the request is made once and first, and
\* it ends once: nothing follows a denial, a completion or a failure.
OneOutcome ==
    \A i \in DOMAIN stream :
        /\ stream[i].type = "requested" <=> i = 1
        /\ stream[i].type \in Terminal => i = Len(stream)

\* A claim is only ever made after the lease of every earlier one ran out,
\* even by a wake that read the stream before the earlier claim.
LeasesDoNotOverlap ==
    \A i, j \in Ids(stream, "claimed") :
        i < j => stream[i].expires <= stream[j].at

\* The tool only acts under a claim that was made while the request was open
\* and, by the last approval then given, allowed by an actor that is neither
\* the requester nor the scheduler.
ExecutionIsAuthorized ==
    \A c \in effects :
        LET before == SubSeq(stream, 1, c - 1)
        IN  /\ stream[c].type = "claimed"
            /\ Open(before)
            /\ ApprovalUsable(before, stream[c].by)

\* A completion reports an effect that is durable, under a claim of the
\* scheduler that reports it.
CompletionIsEarned ==
    \A i \in Ids(stream, "completed") :
        /\ stream[i].claim \in effects
        /\ stream[stream[i].claim].by = stream[i].by

\* No two wakes ever hold the same claim.
ClaimsAreExclusive ==
    \A v, w \in Wake : claim[v] = claim[w] /\ claim[v] # 0 => v = w

\* Reading, deciding and appending in separate steps, the gateway's callers
\* keep the stream what it would be if each call were one step.
Request == INSTANCE ToolRequest
ImplementsToolRequest == Request!Spec

\* An approved request does not wait for ever: a wake claims it, or it ends.
ApprovedIsTakenUp ==
    Ids(stream, "approved") # {}
        ~> (Ids(stream, "claimed") # {} \/ Closed(stream))

\* The request's history is one that callers one at a time could have made, and
\* every wake holds a claim of its own (claimExecution, completeTool, failTool).
RequestIsSound ==
    /\ TypeOK
    /\ OneOutcome
    /\ ClaimsAreExclusive
=============================================================================
