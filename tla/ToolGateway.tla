---------------------------- MODULE ToolGateway ----------------------------
(***************************************************************************)
(* What the gateway of packages/agent/src/tool-gateway.ts lets into the    *)
(* stream of one tool request that needs a human's approval.  Every method *)
(* of the gateway reads the stream, checks it, and appends one event; this *)
(* module holds the checks, as operators on the stream that was read, and  *)
(* ToolRequest and ToolScheduler hold the steps.                           *)
(*                                                                         *)
(* An event's id is its place in the stream.  Previews and their hashes    *)
(* never differ here: a preview that changed is one outcome of the         *)
(* scheduler's preview step.                                               *)
(***************************************************************************)
EXTENDS Naturals, Sequences

CONSTANTS
    Actor,          \* ids of people, agents and services
    Requester,      \* the resident agent that asks for the tool
    ApprovalDesk    \* the actor of the gateway people approve through

ASSUME ActorAssumption == {Requester, ApprovalDesk} \subseteq Actor

Terminal == {"denied", "completed", "failed"}

\* at and expires are times; claim is the event id of the claim a
\* completion reports the result of.
Event ==
    [type    : {"requested", "approved", "claimed"} \union Terminal,
     by      : Actor,
     at      : Nat,
     expires : Nat,
     claim   : Nat]

NewEvent(type, by, at) ==
    [type |-> type, by |-> by, at |-> at, expires |-> 0, claim |-> 0]

ClaimEvent(by, at, expires) ==
    [NewEvent("claimed", by, at) EXCEPT !.expires = expires]

CompletionEvent(by, at, claim) ==
    [NewEvent("completed", by, at) EXCEPT !.claim = claim]

----------------------------------------------------------------------------
\* What readToolRequestState finds in a stream.

Ids(stream, type) == {i \in DOMAIN stream : stream[i].type = type}

\* The id of the last event of a type, or 0.
LastOfType(stream, type) ==
    IF Ids(stream, type) = {} THEN 0
    ELSE CHOOSE i \in Ids(stream, type) :
            \A j \in Ids(stream, type) : j <= i

Closed(stream) == \E i \in DOMAIN stream : stream[i].type \in Terminal

Open(stream) == Ids(stream, "requested") # {} /\ ~Closed(stream)

\* assertStoredApprovalUsable: the approval that counts is the last one.
ApprovalUsable(stream, actor) ==
    /\ LastOfType(stream, "approved") # 0
    /\ stream[LastOfType(stream, "approved")].by \notin {Requester, actor}

\* Mutated form of LeaseFree: a lease is never looked at again.
LeaseIgnored(stream, time) == TRUE

\* The lease of the last claim has run out, or there is no claim.
LeaseFree(stream, time) ==
    LastOfType(stream, "claimed") # 0
        => stream[LastOfType(stream, "claimed")].expires <= time

----------------------------------------------------------------------------
\* The checks of each method.

MayRequest(stream) == Ids(stream, "requested") = {}

MayApprove(stream, actor) ==
    /\ Open(stream)
    /\ actor \notin {Requester, ApprovalDesk}

MayClaim(stream, actor, at, expires) ==
    /\ Open(stream)
    /\ ApprovalUsable(stream, actor)
    /\ expires > at
    /\ LeaseFree(stream, at)

\* denyTool and failTool.
MayClose(stream) == Open(stream)

\* completeToolFromSchedulerEvidence.
MayReport(stream, claim) ==
    /\ Open(stream)
    /\ LastOfType(stream, "claimed") = claim

\* completeTool.
MayComplete(stream, actor) ==
    /\ Open(stream)
    /\ ApprovalUsable(stream, actor)

\* Event e may follow the stream s when the clock shows time.
Legal(s, e, time) ==
    /\ e \in Event
    /\ e.at <= time
    /\ \/ e.type = "requested" /\ e.by = Requester /\ MayRequest(s)
       \/ e.type = "approved"  /\ MayApprove(s, e.by)
       \/ e.type = "claimed"   /\ MayClaim(s, e.by, e.at, e.expires)
       \/ e.type = "completed" /\ MayComplete(s, e.by)
                               /\ e.claim \in Ids(s, "claimed")
       \/ e.type \in {"denied", "failed"} /\ MayClose(s)

=============================================================================
