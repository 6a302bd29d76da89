-------------------------- MODULE TaskOrchestrator --------------------------
(***************************************************************************)
(* Ticks of the task orchestrator (packages/agent/src/task-orchestrator.ts) *)
(* at work on one queued task, with its first attempt and a provider that   *)
(* needs a human's approval before a runner may be dispatched.              *)
(*                                                                         *)
(* A tick projects the whole ledger once and decides from that snapshot     *)
(* what it is for.  Every event it then appends is conditional on the       *)
(* length of the event's stream, read just before the append: the append    *)
(* notices what came after that read, and nothing that came between the     *)
(* snapshot and the read.  Any number of ticks may be under way: each HTTP  *)
(* call that wakes the resident agent makes one.                            *)
(*                                                                         *)
(* The log holds, in the ledger's order, the events of three streams: the   *)
(* task's, the attempt's (claims, releases, checkpoints, completion) and    *)
(* the specialist run's.  An event is known by its place in the log.        *)
(***************************************************************************)
EXTENDS Integers, Sequences, FiniteSets

CONSTANTS
    Worker,     \* ticks that may be under way together
    Lease,      \* leaseDurationMs
    Bounds      \* the bounds one behaviour may have: the ticks there are, the
                \* time, how many approvals lapse, ticks die, ticks start while
                \* another is under way, and the claims after which none starts

ASSUME OrchestratorAssumption ==
    /\ Lease \in Nat \ {0}
    /\ \A b \in Bounds :
          /\ b.workers \in SUBSET Worker
          /\ b.time \in Nat /\ b.lapses \in Nat /\ b.crashes \in Nat
          /\ b.overlaps \in Nat /\ b.claims \in Nat

VARIABLES
    log,        \* the events, in the ledger's order
    now,        \* the clock
    approved,   \* does the approval reader find the transfer approved
    lapses,     \* approvals that lapsed
    runs,       \* times the specialist runner was dispatched
    tick,       \* what each tick is doing
    asked,      \* was a cancellation found permissible, and not yet recorded
    crashes,    \* ticks that died
    overlaps,   \* ticks that started while another was under way
    most        \* the bounds of this behaviour

bounds == <<lapses, crashes, overlaps, most>>
vars == <<log, now, approved, asked, runs, tick, bounds>>

----------------------------------------------------------------------------
(* Events and streams.                                                     *)

TaskEvent == {"queued", "canceled", "task-completed"}
Checkpoint == {"context-ready", "approval-wait", "blocked", "runner-dispatching"}
AttemptEvent == Checkpoint \union {"claimed", "released", "completed"}

Event == [type : TaskEvent \union AttemptEvent \union {"run-completed"},
          gen : Nat,          \* leaseClaimGeneration
          expires : Nat,      \* leaseExpiresAt of a claim
          claim : Nat,        \* the claim a release ends
          checkpoint : Nat]   \* the checkpoint a release names

NewEvent(type, gen) ==
    [type |-> type, gen |-> gen, expires |-> 0, claim |-> 0, checkpoint |-> 0]

Of(s, types) == {i \in DOMAIN s : s[i].type \in types}

Stream(type) ==
    IF type \in TaskEvent THEN TaskEvent
    ELSE IF type \in AttemptEvent THEN AttemptEvent ELSE {"run-completed"}

StreamLength(s, type) == Cardinality(Of(s, Stream(type)))

Last(S) == {i \in S : \A j \in S : j <= i}

----------------------------------------------------------------------------
(* The projection of the task and its attempt.                             *)

StatusIs(s, type) == \E i \in Last(Of(s, TaskEvent)) : s[i].type = type

Claims(s) == Of(s, {"claimed"})

IsReleased(s, c) == \E r \in Of(s, {"released"}) : r > c /\ s[r].claim = c

Unreleased(s) ==
    {c \in Claims(s) : ~IsReleased(s, c) /\ Of(s, {"completed"}) = {}}

\* The claim of the highest generation, and the last of those.
Newest(s, C) ==
    {c \in C : \A d \in C : s[d].gen < s[c].gen \/ (s[d].gen = s[c].gen /\ d <= c)}

Held(s) == Newest(s, Unreleased(s))

Live(s, t) == Newest(s, {c \in Unreleased(s) : s[c].expires > t})

\* The approval-wait checkpoint an approval may still resume.
ResumableWait(s) ==
    {k \in Last(Of(s, {"approval-wait"})) :
        \A b \in Of(s, {"blocked", "runner-dispatching"}) : b < k}

ClaimOfWait(s, k) ==
    Last({c \in Claims(s) : c < k /\ s[c].gen = s[k].gen})

WaitReleased(s, k) == \E r \in Of(s, {"released"}) : s[r].checkpoint = k

\* Expired, and no later checkpoint took over from it.
Recoverable(s, t) ==
    {c \in Held(s) :
        /\ s[c].expires <= t
        /\ \A k \in Of(s, {"approval-wait", "runner-dispatching"}) : k < c}

\* The task may be claimed for the first time.
Claimable(s) == StatusIs(s, "queued") /\ Of(s, AttemptEvent) = {}

----------------------------------------------------------------------------
(* Where a tick is: the step it takes next, what it was decided to be for,  *)
(* its clock, the length of its snapshot, the claim it works on, the        *)
(* checkpoint its release will name, and the append it is about to make.    *)

Step == {"idle", "snapshot", "claim", "readback", "recheck", "context", "inspect",
         "wait", "block", "release", "dispatch", "announce", "run", "handoff",
         "finalize", "ready", "complete", "settle", "send"}
Plan == {"none", "cancel", "suspend", "resume", "continue", "recover", "start"}

Idle == [pc |-> "idle", plan |-> "none", at |-> 0, seen |-> 0, claim |-> 0,
         checkpoint |-> 0, base |-> 0, pending |-> NewEvent("queued", 0)]

Init ==
    /\ log = <<NewEvent("queued", 0)>>
    /\ now = 0 /\ approved = FALSE /\ asked = FALSE /\ runs = 0
    /\ lapses = 0 /\ crashes = 0 /\ overlaps = 0 /\ most \in Bounds
    /\ tick = [w \in Worker |-> Idle]

world == <<now, approved, asked, bounds>>

Become(w, t) == tick' = [tick EXCEPT ![w] = t]

\* A step that only changes what the tick is doing.
Move(w, t) == Become(w, t) /\ UNCHANGED <<log, runs, world>>

At(t, step) == [t EXCEPT !.pc = step, !.base = 0, !.pending = Idle.pending]

Snapshot(t) == SubSeq(log, 1, t.seen)

\* Releases the claim it works on, then reclaims it.
Recovering(t, c) == [At(t, "release") EXCEPT !.plan = "recover", !.claim = c,
                                              !.checkpoint = 0, !.seen = 0]

\* A dispatch is over.  A tick that continued a live claim goes on to the
\* stale claims of its snapshot; any other tick is over.
Returned(t) ==
    LET stale == Recoverable(Snapshot(t), t.at) IN
    IF t.plan = "continue" /\ stale # {}
    THEN Recovering(t, CHOOSE c \in stale : TRUE)
    ELSE Idle

\* The read half of an append.
Prepare(w, e) ==
    Move(w, [tick[w] EXCEPT !.pc = "send", !.pending = e,
                            !.base = StreamLength(log, e.type)])

----------------------------------------------------------------------------
(* tick(): the snapshot, and what the tick is for.                         *)

StartTick(w) ==
    /\ w \in most.workers /\ tick[w].pc = "idle"
    /\ Cardinality(Claims(log)) < most.claims
    /\ \/ (\A v \in Worker : tick[v].pc = "idle") /\ UNCHANGED overlaps
       \/ /\ \E v \in Worker : tick[v].pc # "idle"
          /\ overlaps < most.overlaps
          /\ overlaps' = overlaps + 1
    /\ Become(w, [Idle EXCEPT !.pc = "snapshot", !.at = now])
    /\ UNCHANGED <<log, now, approved, asked, runs, lapses, crashes, most>>

CancelRace(s) == StatusIs(s, "canceled") /\ Held(s) # {}

Waiting(s) == ~StatusIs(s, "canceled") /\ ResumableWait(s) # {}

\* A live claim, whoever made it.
Ongoing(s, t) == ~StatusIs(s, "canceled") /\ ~Waiting(s) /\ Live(s, t) # {}

\* Mutated form of HandleCancellation: only the last claim is looked at.
HandleCancellationOfLast(w, s) ==
    /\ CancelRace(s)
    /\ \E c \in Newest(s, Claims(s)) :
         Move(w, IF IsReleased(s, c) THEN Idle
                 ELSE [At(tick[w], "release") EXCEPT !.plan = "cancel", !.claim = c])

\* handleCancellationRaces.
HandleCancellation(w, s) ==
    /\ CancelRace(s)
    /\ \E c \in Held(s) :
         LET dispatching == \E k \in Last(Of(s, Checkpoint)) : s[k].type = "runner-dispatching"
         IN Move(w, [At(tick[w], IF dispatching THEN "block" ELSE "release")
                        EXCEPT !.plan = "cancel", !.claim = c])

\* handleSuspendedApprovalWaits, up to the approval reader's answer.
HandleWait(w, s) ==
    /\ Waiting(s)
    /\ \E k \in ResumableWait(s) : \E c \in ClaimOfWait(s, k) :
         Move(w, IF WaitReleased(s, k)
                 THEN [At(tick[w], "inspect")
                          EXCEPT !.plan = "resume", !.claim = c, !.seen = Len(s)]
                 ELSE [At(tick[w], "release")
                          EXCEPT !.plan = "suspend", !.claim = c, !.checkpoint = k])

\* Mutated form of HandleActive: a claim with its context is left to its owner.
HandleActiveWithoutContext(w, s) ==
    /\ Ongoing(s, tick[w].at)
    /\ \E c \in Live(s, tick[w].at) :
         Move(w, IF Of(s, {"context-ready"}) = {}
                 THEN [At(tick[w], "context")
                          EXCEPT !.plan = "continue", !.claim = c, !.seen = Len(s)]
                 ELSE Idle)

\* Mutated form of HandleActive: the approval is not asked for again.
HandleActiveUnapproved(w, s) ==
    /\ Ongoing(s, tick[w].at)
    /\ \E c \in Live(s, tick[w].at) :
         Move(w, [At(tick[w], IF Of(s, {"context-ready"}) = {} THEN "context" ELSE "dispatch")
                     EXCEPT !.plan = "continue", !.claim = c, !.seen = Len(s)])

\* handleActiveClaims: any tick continues any live claim.
HandleActive(w, s) ==
    /\ Ongoing(s, tick[w].at)
    /\ \E c \in Live(s, tick[w].at) :
         Move(w, [At(tick[w], IF Of(s, {"context-ready"}) = {} THEN "context" ELSE "inspect")
                     EXCEPT !.plan = "continue", !.claim = c, !.seen = Len(s)])

\* handleStaleClaims.
HandleStale(w, s) ==
    /\ ~StatusIs(s, "canceled") /\ ~Waiting(s) /\ ~Ongoing(s, tick[w].at)
    /\ \E c \in Recoverable(s, tick[w].at) : Move(w, Recovering(tick[w], c))

\* The candidates: the task was queued and never claimed.
HandleCandidate(w, s) ==
    /\ Claimable(s)
    /\ Move(w, [At(tick[w], "claim") EXCEPT !.plan = "start"])

NothingToDo(w, s) ==
    /\ ~CancelRace(s) /\ ~Waiting(s) /\ ~Ongoing(s, tick[w].at) /\ ~Claimable(s)
    /\ StatusIs(s, "canceled") \/ Recoverable(s, tick[w].at) = {}
    /\ Move(w, Idle)

Decide(w) ==
    /\ tick[w].pc = "snapshot"
    /\ \/ HandleCancellation(w, log)
       \/ HandleWait(w, log)
       \/ HandleActive(w, log)
       \/ HandleStale(w, log)
       \/ HandleCandidate(w, log)
       \/ NothingToDo(w, log)

----------------------------------------------------------------------------
(* Claims: appendAndVerifyClaim.                                           *)

Generation(t) ==
    CASE t.plan = "start" -> 1
      [] t.plan = "recover" -> log[t.claim].gen + 1
      [] t.plan = "resume" ->
           LET s == Snapshot(t) IN
           (CHOOSE g \in {s[c].gen : c \in Claims(s)} :
                \A c \in Claims(s) : s[c].gen <= g) + 1

Claim(w) ==
    /\ tick[w].pc = "claim"
    /\ Prepare(w, [NewEvent("claimed", Generation(tick[w]))
                      EXCEPT !.expires = tick[w].at + Lease])

Owns(t) == t.claim \in Last(Of(log, AttemptEvent))

NotOwned(w) ==
    /\ ~Owns(tick[w])
    /\ Move(w, Idle)

Owned(w) ==
    /\ Owns(tick[w])
    /\ \/ tick[w].plan = "recover" /\ Move(w, Idle)
       \/ tick[w].plan = "resume" /\ Move(w, At(tick[w], "recheck"))
       \/ tick[w].plan = "start" /\ Move(w, At(tick[w], "context"))
       \* the budgets leave no room for a provider
       \/ tick[w].plan = "start" /\ Move(w, At(tick[w], "block"))

Readback(w) == tick[w].pc = "readback" /\ (NotOwned(w) \/ Owned(w))

\* A tick that resumes rereads the task's status before it dispatches.
Recheck(w) ==
    /\ tick[w].pc = "recheck"
    /\ Move(w, At(tick[w], IF StatusIs(log, "canceled") THEN "release" ELSE "dispatch"))

----------------------------------------------------------------------------
(* Context, approval and the checkpoints that suspend an attempt.          *)

\* checkpointContextOrBlock: the context is assembled, or it is not.
AssembleContext(w) ==
    /\ tick[w].pc = "context"
    /\ \/ Prepare(w, NewEvent("context-ready", log[tick[w].claim].gen))
       \/ Move(w, [At(tick[w], "block") EXCEPT !.plan = "suspend"])

\* Mutated form of ResumedClaim: no claim is found, so that one is made.
ResumedClaimNever(t) == {}

\* The approval reader answers; a resuming tick then takes the live claim its
\* snapshot holds after the wait, and claims the attempt when there is none.
ResumedClaim(t) ==
    LET s == Snapshot(t) IN
    {c \in Live(s, t.at) : \A k \in ResumableWait(s) : c > k}

InspectApproved(w) ==
    /\ approved
    /\ \/ /\ tick[w].plan # "resume"
          /\ Move(w, At(tick[w], "dispatch"))
       \/ /\ tick[w].plan = "resume" /\ ResumedClaim(tick[w]) = {}
          /\ Move(w, At(tick[w], "claim"))
       \/ /\ tick[w].plan = "resume"
          /\ \E c \in ResumedClaim(tick[w]) :
               Move(w, [At(tick[w], "dispatch") EXCEPT !.claim = c])

InspectWaiting(w) ==
    /\ ~approved
    /\ Move(w, IF tick[w].plan = "resume" THEN Idle
               ELSE [At(tick[w], "wait") EXCEPT !.plan = "suspend"])

Inspect(w) == tick[w].pc = "inspect" /\ (InspectApproved(w) \/ InspectWaiting(w))

\* appendApprovalWaitCheckpoint and appendBlockedCheckpoint.
Wait(w) ==
    /\ tick[w].pc = "wait"
    /\ Prepare(w, NewEvent("approval-wait", log[tick[w].claim].gen))

Block(w) ==
    /\ tick[w].pc = "block"
    /\ Prepare(w, NewEvent("blocked", log[tick[w].claim].gen))

\* appendRelease.
Release(w) ==
    /\ tick[w].pc = "release"
    /\ Prepare(w, [NewEvent("released", log[tick[w].claim].gen)
                      EXCEPT !.claim = tick[w].claim, !.checkpoint = tick[w].checkpoint])

----------------------------------------------------------------------------
(* dispatchApprovedRunner, and what follows the runner's handoff.          *)

\* readVerifiedContextReadyCheckpoint: present, with the approved hashes.
FindContext(w) ==
    /\ tick[w].pc = "dispatch"
    /\ \/ Of(log, {"context-ready"}) # {} /\ Move(w, At(tick[w], "announce"))
       \/ Move(w, At(tick[w], "block"))

\* Mutated form of Announce: another tick's checkpoint is not looked for.
AnnounceAgain(w) ==
    /\ tick[w].pc = "announce"
    /\ Prepare(w, NewEvent("runner-dispatching", log[tick[w].claim].gen))

\* appendRunnerDispatchingCheckpoint: nothing more if there is one.
Announce(w) ==
    /\ tick[w].pc = "announce"
    /\ \/ /\ Of(log, {"runner-dispatching"}) = {}
          /\ Prepare(w, NewEvent("runner-dispatching", log[tick[w].claim].gen))
       \/ /\ Of(log, {"runner-dispatching"}) # {}
          /\ Move(w, Returned(tick[w]))

\* The registered runner, with or without a durable handoff.
Run(w) ==
    /\ tick[w].pc = "run"
    /\ runs' = runs + 1
    /\ Become(w, At(tick[w], "handoff")) \/ Become(w, Returned(tick[w]))
    /\ UNCHANGED <<log, world>>

\* completeTaskOrchestrationAfterHandoff, once the handoff is read back.
CheckHandoff(w) ==
    /\ tick[w].pc = "handoff"
    /\ Move(w, IF StatusIs(log, "canceled") THEN Returned(tick[w])
               ELSE At(tick[w], "finalize"))

Finalize(w) ==
    /\ tick[w].pc = "finalize"
    /\ Prepare(w, NewEvent("run-completed", 0))

CheckReady(w) ==
    /\ tick[w].pc = "ready"
    /\ \/ ~StatusIs(log, "canceled") /\ Move(w, At(tick[w], "complete"))
       \* canceled, or the manifest is not ready for review
       \/ Move(w, Returned(tick[w]))

Complete(w) ==
    /\ tick[w].pc = "complete"
    /\ Of(log, {"completed"}) = {}
    /\ Prepare(w, NewEvent("completed", 0))

\* Mutated form of Settle: the statuses of the task are not looked at.
SettleRegardless(w) ==
    /\ tick[w].pc = "settle"
    /\ Prepare(w, NewEvent("task-completed", 0))

\* appendOrReuseTaskCompletedStatus: it throws when the task was canceled.
Settle(w) ==
    /\ tick[w].pc = "settle"
    /\ \/ Of(log, {"canceled"}) = {} /\ Prepare(w, NewEvent("task-completed", 0))
       \/ Of(log, {"canceled"}) # {} /\ Move(w, Idle)

----------------------------------------------------------------------------
(* The other half of an append.                                            *)

\* What the tick does next, its event being number id.
Appended(t, id) ==
    CASE t.pending.type = "claimed" -> [At(t, "readback") EXCEPT !.claim = id]
      [] t.pending.type \in {"blocked", "approval-wait"} ->
            [At(t, "release") EXCEPT !.checkpoint = id]
      [] t.pending.type = "released" ->
            IF t.plan = "recover" THEN At(t, "claim") ELSE Returned(t)
      [] t.pending.type = "context-ready" ->
            IF t.plan = "start" THEN At(t, "inspect") ELSE Idle
      [] t.pending.type = "runner-dispatching" -> At(t, "run")
      [] t.pending.type = "run-completed" -> At(t, "ready")
      [] t.pending.type = "completed" -> At(t, "settle")
      [] OTHER -> Returned(t)

Expected(t) == StreamLength(log, t.pending.type) = t.base

Accepted(w) ==
    /\ Expected(tick[w])
    /\ log' = Append(log, tick[w].pending)
    /\ Become(w, Appended(tick[w], Len(log) + 1))
    /\ UNCHANGED <<runs, world>>

\* A conflict ends the tick; while the context is made, it blocks the attempt.
Refused(w) ==
    /\ ~Expected(tick[w])
    /\ Move(w, IF tick[w].pending.type = "context-ready"
               THEN [At(tick[w], "block") EXCEPT !.plan = "suspend"]
               ELSE Idle)

Send(w) == tick[w].pc = "send" /\ (Accepted(w) \/ Refused(w))

----------------------------------------------------------------------------
(* The world around the ticks.                                             *)

\* A person cancels the task: its status is read and found to allow it...
AskCancel ==
    /\ StatusIs(log, "queued") /\ ~asked
    /\ asked' = TRUE
    /\ UNCHANGED <<log, now, approved, runs, tick, bounds>>

\* ...then it is canceled.  The ledger is read again for the append, which is
\* conditional on nothing at all having come since; the status is not.
Cancel ==
    /\ asked
    /\ asked' = FALSE
    /\ log' = Append(log, NewEvent("canceled", 0))
    /\ UNCHANGED <<now, approved, runs, tick, bounds>>

\* A person approves the transfer.
Approve ==
    /\ ~approved
    /\ approved' = TRUE
    /\ UNCHANGED <<log, now, asked, runs, tick, bounds>>

\* The approval no longer stands: its proof is stale, or it is not the last.
Lapse ==
    /\ approved /\ lapses < most.lapses
    /\ approved' = FALSE
    /\ lapses' = lapses + 1
    /\ UNCHANGED <<log, now, asked, runs, tick, crashes, overlaps, most>>

Advance ==
    /\ now < most.time
    /\ now' = now + 1
    /\ UNCHANGED <<log, approved, asked, runs, tick, bounds>>

\* The process dies or a call throws: the tick is gone, the log is not.
Crash(w) ==
    /\ tick[w].pc # "idle"
    /\ crashes < most.crashes
    /\ crashes' = crashes + 1
    /\ Become(w, Idle)
    /\ UNCHANGED <<log, now, approved, asked, lapses, runs, overlaps, most>>

Progress(w) ==
    \/ Decide(w) \/ Claim(w) \/ Readback(w) \/ Recheck(w)
    \/ AssembleContext(w) \/ Inspect(w) \/ Wait(w) \/ Block(w) \/ Release(w)
    \/ FindContext(w) \/ Announce(w) \/ Run(w)
    \/ CheckHandoff(w) \/ Finalize(w) \/ CheckReady(w) \/ Complete(w) \/ Settle(w)
    \/ Send(w)

Next ==
    \/ \E w \in Worker : StartTick(w) \/ Progress(w) \/ Crash(w)
    \/ AskCancel \/ Cancel \/ Approve \/ Lapse \/ Advance

Spec == Init /\ [][Next]_vars

\* Somebody keeps waking the agent, a started tick goes on, time passes, and
\* an approval that is asked for is given.
Fairness ==
    /\ WF_vars(\E w \in Worker : StartTick(w))
    /\ \A w \in Worker : WF_vars(Progress(w))
    /\ WF_vars(Advance)
    /\ WF_vars(Approve)

LiveSpec == Spec /\ Fairness

----------------------------------------------------------------------------
(* Properties.                                                             *)

\* Steps that work on a claim.
ClaimSteps == Step \ {"idle", "snapshot", "claim", "send"}

\* The log holds events, and each tick is at a step with what it needs: the
\* claim it works on and the checkpoint it names are events of that kind.
TypeOK ==
    /\ log \in Seq(Event)
    /\ now \in 0..most.time
    /\ approved \in BOOLEAN /\ asked \in BOOLEAN
    /\ lapses \in 0..most.lapses
    /\ crashes \in 0..most.crashes
    /\ overlaps \in 0..most.overlaps
    /\ runs \in Nat
    /\ tick \in [Worker -> [pc : Step, plan : Plan, at : 0..most.time, seen : Nat, claim : Nat,
                            checkpoint : Nat, base : Nat, pending : Event]]
    /\ \A w \in Worker :
         /\ tick[w].seen <= Len(log)
         /\ tick[w].claim \in Claims(log) \union {0}
         /\ tick[w].checkpoint \in Of(log, {"approval-wait", "blocked"}) \union {0}
         /\ tick[w].pc \in ClaimSteps => tick[w].claim # 0

\* However many ticks overlap, claim the attempt twice, lose their lease or
\* die, the runner is announced at most once and dispatched at most once, and
\* never unannounced (appendRunnerDispatchingCheckpoint).
OneRunner ==
    /\ Cardinality(Of(log, {"runner-dispatching"})) <= 1
    /\ runs <= Cardinality(Of(log, {"runner-dispatching"}))

\* A runner is announced only after the attempt's context was checkpointed,
\* and for a transfer that has been approved (dispatchApprovedRunner).
DispatchIsAuthorized ==
    \A d \in Of(log, {"runner-dispatching"}) :
        /\ \E k \in Of(log, {"context-ready"}) : k < d
        /\ approved \/ lapses > 0

\* When ticks do not overlap, however they end, the attempt is claimed again
\* only when each of its claims was released or has expired
\* (handleStaleClaims, handleSuspendedApprovalWaits).
ClaimsTakeTurns ==
    most.overlaps = 0 => \A c, d \in Claims(log) :
        c < d => \/ log[c].expires <= log[d].expires - Lease
                 \/ \E r \in Of(log, {"released"}) : r < d /\ log[r].claim = c

\* What a person sees of the attempt is what TaskAttempt promises.
Task ==
    IF StatusIs(log, "task-completed") THEN "completed"
    ELSE IF StatusIs(log, "canceled") THEN "canceled" ELSE "queued"

Attempt ==
    IF Of(log, {"completed"}) # {} THEN "completed"
    ELSE IF Of(log, {"run-completed"}) # {} THEN "finalized"
    ELSE IF Of(log, {"runner-dispatching"}) # {} THEN "dispatched" ELSE "open"

Abstract == INSTANCE TaskAttempt WITH task <- Task, attempt <- Attempt, runs <- runs

\* Overlapping, canceled and dying ticks implement the life of one attempt:
\* one dispatch, one run, one completion, and a task that is completed after its
\* attempt was and never once it was canceled (completeTaskOrchestrationAfterHandoff).
ImplementsTaskAttempt == Abstract!Spec

\* An attempt that waits for approval does not keep a claim for long: if the
\* tick that suspended it died before the release, another tick releases it.
WaitHoldsClaim ==
    /\ Waiting(log)
    /\ \E k \in ResumableWait(log) : ~WaitReleased(log, k)

WaitsLetGo == WaitHoldsClaim ~> ~WaitHoldsClaim

\* The claims of a canceled task are released, all of them in the end
\* (handleCancellationRaces).
CanceledIsLetGo == CancelRace(log) ~> ~CancelRace(log)

\* As long as no tick dies and no lease expires under it, a queued task is
\* dispatched, blocked or canceled in the end, however its ticks overlap (tick).
IsSettled == Of(log, {"runner-dispatching", "blocked", "canceled"}) # {}

TaskIsTakenUp == (most.crashes = 0 /\ most.time = 0) ~> IsSettled

----------------------------------------------------------------------------
(* What the design document says of the orchestrator, and the code does    *)
(* not do.                                                                 *)

\* "An orchestration terminal event without a matching later task status event is
\* recoverable: the next tick appends the missing [...] agent.task.status.changed."
CompletionIsProjected ==
    Of(log, {"completed"}) # {} ~> Of(log, {"task-completed", "canceled"}) # {}

\* However ticks interleave, each works on a claim that is in the log, and all
\* of them together run the attempt once.
TicksAreSound ==
    /\ TypeOK
    /\ OneRunner

\* The claims of an attempt that waits or was canceled are released in the end
\* (handleSuspendedApprovalWaits, handleCancellationRaces).
ClaimsAreLetGo ==
    /\ WaitsLetGo
    /\ CanceledIsLetGo
=============================================================================
