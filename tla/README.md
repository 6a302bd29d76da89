# Cestus in TLA+

Cestus is a local-first workspace for investigations: evidence is imported and
classified, agents propose work and call tools, people approve what leaves the
machine, and everything that happens is an event in one append-only ledger per
workspace. This directory holds TLA+ modules of its core, configurations that
model-check them with TLC, and proofs that TLAPS checks.

Paths below are relative to `src/`, those of code to `src/packages/`, in a
package's `src/` where none is named. Line numbers are those of the commit this
directory was written against; `PROJECT.json` maps every definition to the
lines it stands for.

- [1. The system](#1-the-system)
- [2. What is modelled](#2-what-is-modelled)
- [3. The runs](#3-the-runs)
- [4. What is proved](#4-what-is-proved)
- [5. Where the code and its documents disagree](#5-where-the-code-and-its-documents-disagree)
- [6. What is not modelled](#6-what-is-not-modelled)
- [7. Plan](#7-plan)

## 1. The system

### How the parts interact

There is one piece of shared state that matters: the ledger. Services keep next
to nothing in memory. To act, a service reads the ledger (or one stream of it),
folds the events into a projection, decides, and appends an event. The append
is conditional: it names the sequence number it expects next in its stream, and
sometimes the number of events in the whole ledger. If the condition no longer
holds, the append is refused and the caller gives up, retries, or looks whether
somebody else already did what it wanted.

So nearly every hard question about Cestus has the same shape. Something was
read; the reader awaited (the ledger, a provider, a person, a file); something
else was appended; then the reader appends or acts. Does the condition of the
append cover what was read? Where an effect cannot be conditional (a tool that
runs, a document that is sent, a runner that is dispatched), what did the
reader append before the effect, and what happens when it dies after it?

Actors that interleave: HTTP requests in one process (at every `await`),
several processes on one SQLite file, agents' wakes and ticks started by HTTP
calls and timers, people who approve, deny and cancel, and providers that
answer late or never. Processes die between any two steps; nothing but the
ledger and content-addressed blobs survives.

### Inventory

For each component: its state, its operations, what is hard, and what makes it
correct. *M* marks what is modelled, *m* what is modelled in part (section 2 says which
part; `PROJECT.json` says what is missing). The rest is in section 6.

| Component | State | Operations | Hard | Correct when |
|---|---|---|---|---|
| *M* Event ledger (`ontology/event-ledger.ts`, `sqlite-event-ledger.ts`) | rows, decision receipts, the write lock | `append`, `appendBatch`, `readStream`, `readAll` | contention, stale expectations, rollback, death after COMMIT | history only grows; streams are numbered 1, 2, 3…; a batch is whole; a retried decision is answered from its receipt |
| *m* Tool gateway and scheduler (`agent/tool-gateway.ts`, `scheduler.ts`) | a stream per request; leases | request, approve, deny, claim, complete, fail; `wake` | a wake works on a stale read while approvals, other wakes and the lease move on | one outcome; leases do not overlap; a tool acts only when approved; completions are earned |
| *m* Task orchestrator (`agent/task-orchestrator.ts`) | the task's, the attempt's and the run's streams | `tick` (claim, continue, resume, recover, release) | overlapping ticks; suspended approval waits; death between two appends | one runner per attempt; a task is completed after its attempt and not once it was canceled |
| *m* Document processing (`local-runtime/document-processing.ts`) | a stream per invocation; abort controllers | preview, approve, run, cancel, recover | cancellation, timeout, answer and recovery race; policy changes under way | sent at most once, under the policy approved; one outcome, completed or failed only if it was; one running |
| *m* Specialist handoffs (`agent/specialist-runner-kernel.ts`, `specialist-handoff-*.ts`) | handoff events and manifests | prepare, record, finalize, recover | append-or-reuse after a lost race; a reader sees half a handoff | one binding per run; what is finalized was prepared |
| *m* Wake supervisor (`agent/wake-supervisor.ts`, `local-runtime/wake-supervisor-runtime.ts`, `mounted-wake-lifecycle-store.ts`) | in-memory phase and generation; durable lease and pause | signal, pause, resume, recover, stop, authority loss | control calls during an admission's awaits; epochs racing for the lease | no admission after a pause was confirmed; one live lease per workspace |
| *M* Proactive triggers (`agent/proactive-triggers.ts`) | trigger events, cooldowns | evaluate, record | conditional append with one retry | no duplicate within a cooldown |
| *m* Bounded resident loop (`agent/bounded-agent-loop.ts`, `resident-loop-*.ts`) | plan and observation events | plan, request, approve, execute, observe, replay | a restart anywhere in the loop | an observation belongs to the plan step and claim it names |
| *m* Mounted task execution (`local-runtime/agent-runtime-mounted-task.ts`, `portable-mounted-agent-artifact-stores.ts`, `mounted-task-effect-coordination.ts`) | captured authority; the handoff's cursor; the gate | admit, execute, resume, recover, suspend, cancel | another's event between two steps; takeover after a death; a cancellation during a write | nothing is written for, or concluded of, a canceled task; completion is remembered once; what is left is taken up again |
| *m* Portable workspace lifecycle (`local-runtime/portable-workspace-lifecycle.ts`) | mounted facts | open, revalidate, close | a stale fact used after an await | each port call is preceded by a revalidation |
| *M* Ingestion import (`ingestion/import-service.ts`) | batches, evidence and link events, blobs | approve, import, retry | a pass from a snapshot; partial failure; two passes | evidence is linked once; completion reports what happened |
| *m* Public records requests (`prr/correspondence-service.ts` and others) | request streams | draft, approve, send, receive | the send is not conditional | a message leaves once per approval |
| *M* Evidence and assertions (`ontology/evidence-service.ts`, `assertion-service.ts`) | assertion events | prepare, propose, accept | a candidate weighed on a read of everything; two reviewers | accepted was proposed from evidence that was fit |
| *m* Knowledge decisions (`ontology/knowledge-service.ts`, `knowledge-projection.ts`) | proposals, verdicts, bindings | propose, review, bind | types checked against bindings others change | what stands is consistent and was approved |
| *m* Governance (`ontology/governance-*.ts`) | classifications, reviews, locks; exposures and sessions | classify, review, lock, export, expose, approve sessions | decisions used after they changed; a model after a person | what is shared was approved; a person's word is not a model's to change |
| *m* Domain execution adapters (`agent/adapters/*`) | none: what was approved is compared with the ledger | accept, export, stage a batch | freshness, effect and attestation are separate reads; a batch is not one append | what is reported is what was approved and is there |
| *M* Agent memories (`agent/runtime.ts`, `memory.ts`) | memory events | record, supersede, retract | supersession is up to three appends | no replacement without its supersession, except when the operator was told |
| *M* Projection rebuild (`workspace-ops/projection-rebuild.ts`, `node-runner.ts`) | projection directories | build, promote, clean up | any file operation fails or is the last | a reader finds a whole projection of one build |
| Specialist workflows, context packs, prompts | none of their own | assemble, hash, verify | data | — |
| Providers, credentials, codex harness | none durable | invoke, redact | network outcomes | seen through their callers |
| Agent projections, approval queue, cockpits, graph and knowledge projections, read models, operator status | none | fold the log | data | — |
| HTTP server, routes, CLI, configuration | sessions | parse, authenticate, dispatch | — | routes that change modelled state are actions of the modules |
| Event contracts | none | validate | data | — |
| Ingestion scan and extraction, legacy import, ontology bootstrap, backup and layout | files | walk, parse, copy | data | — |
| Deadlines, stalling, jurisdiction packs | none | calendar arithmetic | boundaries | planned (section 7) |
| User interface | none durable | screens | — | — |

`PROJECT.json` lists the same components with their files, and the hazards of
this code, each at its line, with the properties that would catch it.

## 2. What is modelled

    LedgerLog --- EventLedger <== SqliteEventLedger - SqliteEventLedgerProofs
    ToolGateway - ToolRequest <== ToolScheduler ----- ToolSchedulerProofs
                  TaskAttempt <== TaskOrchestrator - TaskOrchestratorProofs
    DocumentProcessing - DocumentProcessingProofs

    RecordLog - ImportService - EvidenceGovernance - AssertionReview - ApprovedEffects
    ApprovedEffects - EvidenceRecordsProofs
    RecordLog - Correspondence, MemorySupersession, ProactiveTriggers, KnowledgeDecisions,
                ProjectionRebuild, SpecialistHandoff - ResidentLoop    : WorkspaceServices
    SpecialistHandoff - MountedTask                                    : WorkspaceServices
    WorkspaceServices - WorkspaceServicesProofs - RunServicesProofs
    ResidentSupervision - ResidentSupervisionProofs

`A <== B`: B is shown to implement the abstract specification A. The other
lines are EXTENDS; `WorkspaceServices` composes the modules before its colon. `MC*` modules give the constants values for TLC. A
definition whose comment says "Mutated form of X" is X with a plausible bug; no
specification uses it. The mutated forms show that each property can fail: when
X is replaced by its mutated form, the property is violated.

### The event ledger

`LedgerLog` holds the data: an event is its stream and its sequence number, its
position in the log stands for its id, and the code's three ways of computing
the next number (count, last, maximum) are three operators.

`EventLedger` is what callers rely on, and what `InMemoryEventLedger` does:
`append` and `appendBatch` take effect in one step or not at all. A client
reads, chooses a call whose preconditions come from that read (`seen`), issues
it, and is answered; it may be restarted at any point and then remembers
nothing.

`SqliteEventLedger` is the same interface by transactions. A client is a
process with its own connection. `Begin` takes the write lock or is refused
(busy); `CheckPreconditions` looks for a receipt of the decision, then compares
the expected global count and sequence; `InsertEvent` inserts one row into the
process's own view (`work`), numbered MAX + 1, and aborts on a malformed event;
`InsertReceipt`, `PrecommitGuard` and `Commit` follow, and any of them may fail
and roll back. `Crash` loses the transaction and the client's memory at any
statement, after COMMIT included. Node runs one transaction without yielding,
so statements interleave only between processes, which is what the model does.

`ImplementsLedger` is the refinement: `Commit` (or the answer from a stored
receipt) is the one step, all else stutters. It matters because every other
module treats an append as one conditional step; this is where that is earned.

### Tool requests

`ToolGateway` has the rules, as predicates on a stream: who may request,
approve, claim, complete, fail, and when. `Legal(s, e, t)` says event `e` may
follow stream `s` at time `t`. `ToolRequest` is the abstract specification:
events join the stream one at a time, each legal after exactly those before it.

`ToolScheduler` does it the way the code does. Each gateway method reads the
stream, decides, and only then appends with an expected sequence (`Prepare` and
`Send`); between the two, anything may happen. A wake (`WakeUp`, `BuildPreview`,
`Claim`, `Execute`, `RereadEvidence`, `ReportCompletion`, `CompleteTool`, or
`FailTool`) has several such points, and the ones that matter most are the
claim, whose clock was read before the preview was rebuilt, and the tool
itself, whose effect cannot be conditional. An adapter is its effect: it acts,
or throws before or after acting. Callers request, approve and deny meanwhile;
the clock moves; wakes die.

The scope is one request that needs a person's approval. Requests with approval
class "none" (completed without a claim) and the resident source boundary's
additional conditions are left out.

### One task and its attempt

`TaskAttempt` says what a person may count on: one announcement, one run, one
completion; the task is completed after its attempt, and not once it was
canceled, except that a cancellation admitted before may still land on a
completed task (the cancel route checks and appends in two steps).

`TaskOrchestrator` has the ticks. A tick projects the whole ledger once
(`seen`), decides what it is for (`Decide`: first claim, continue, resume after
an approval, recover a stale claim, release, nothing), and works through a
sequence of steps. Each event it appends is conditional on the length of its
stream read *just before* (`base`), not on the snapshot, and that difference is
the point of the module: an append notices what came after that read and
nothing that came between the snapshot and it. Approvals are given and lapse, a
person cancels, the clock moves, leases expire, ticks overlap and die.

Scope: one task, one run type, `retryGeneration` 0. Retries need
`agent.task.orchestration.failed`, which nothing in `src/` appends. Provider
policy, approval reader, context capability and runner registry are configured
and stay as they were at the checkpoint. Left out: resident-loop suspension and
handoff-pending checkpoints, the runner's own "running" status, concurrency
across tasks. A call that throws is a `Crash`. The handoff (prepare, bind, read
back) is one step that announces it or finds it announced.

### Sending documents to a provider

`DocumentProcessing` has several service instances on one ledger, each handling
requests that interleave at every await. `approve`, `run` and `cancel` read the
job, check its authorization, check the current policy, and append. `run` then
surveys the whole ledger and claims "running" on condition that neither the
stream nor the ledger grew; registers a controller; and, in the provider's
`beforeTransfer`, checks policy and state again before the transfer. The wait
ends with an answer, a lost connection, a cancellation, the timeout, or the
instance. `finish` reads the stream and appends an outcome unless there is one.
An instance that mounts records what it finds running as uncertain before it
serves.

`authorizeJob` reads the source twice around an interval in which the ledger
may not grow; that is as if it read it at one moment, and the model takes it as
one step (`Admit`, `Cancel`). `claimed` is auxiliary: the policy revision at
the claim. Left out: reading results and lists, the link of a retry to what it
retries, the content of comparisons and extractions, and a busy database that
makes `finish` throw (the invocation then stays running until the next mount).

### Services on one log of records

The services below all have the same two halves: read and decide, then append
on some condition. `RecordLog` is what they share: the log, in which an event is
a record of its type, its stream and the payload that decisions read; a `call`
per caller; and a `budget` of calls, so that a scenario can ask its question in
a bounded number of them. A caller that dies forgets its call. An append is the
one conditional step of `EventLedger`.

**Import** (`ImportService`). A person approves a scanned batch. A pass takes
one snapshot, appends evidence and links *unconditionally*, one after the other,
and completes the batch; only the completion is conditional on the batch's
stream. Two passes may overlap and either may die after any append.

**Governance** (`EvidenceGovernance`). A model classifies, people review, lock
and bury evidence. An export is planned from a read of the whole ledger and
appended on condition that its own stream is empty. A network exposure is
enabled and disabled, and a device session is approved under an exposure that
was read before, on another stream.

**Assertions** (`AssertionReview`). A prepared candidate rests on a condition on
the whole ledger; a proposal without preparation on none; an acceptance on its
stream, and whoever loses returns the acceptance that won.

**Adapters of approved tools** (`ApprovedEffects`). Accepting an assertion,
generating an export and staging a legacy batch go through an adapter: compare
what was approved with the ledger, look whether the effect is there, read the
ledger, call the service, read it again, and report success only if the one
event between the reads is what was approved. A batch is proposed one assertion
at a time; one that is found staged in part is refused. This module composes
the three above it.

**Letters** (`Correspondence`). A sender checks the request's stream, calls the
provider, reads and checks again, and appends. The model has the Himalaya
adapter, which does not pass on the idempotency key it is given. A check of the
provider's answer may throw after the letter left, and then nothing is recorded.

**Memories** (`MemorySupersession`). Replacement, supersession, and when that is
refused a compensating retraction, which may be refused as well.

**Triggers** (`ProactiveTriggers`). An evaluation decides on cooldown, budget and
duplicates from a snapshot, and tries once more if the snapshot is stale. Times
of attempts are the callers' and come out of order. The authority that reads and
appends has no implementation outside tests and is external.

**Knowledge** (`KnowledgeDecisions`). Proposals, reviews alone and in groups, and
bindings, each decided on one read and appended together if the ledger is as
long as it was; and the projection that says which of them stand.

**Handoffs** (`SpecialistHandoff`). The result of a run becomes durable as a
chain of events, final, prepared, recorded, terminal, orchestrated, status, each
naming the one before. An append that lost its race reads again and goes on from
an exact copy somebody else appended, or throws. Two families of recorders, a
finalizer, a recovery and a supersession may work on one run.

**The resident loop** (`ResidentLoop`). One plan, one tool, one result, or a
suspension that releases the task's claim. The loop and its gateway each hold a
token, the length of a ledger they have seen, and they compare at different
moments: the gateway before each of its operations and not after it, the loop
after whatever it awaited. Includes the reread after a throw, the suspension's
prefix completed by another loop, and the reclaim. For an outcome that is
unknown a resume moves the gateway's token to the ledger as it finds it
(`CheckReclaim`), so a loop that comes after another's reclaim is handed that
claim with a token that covers it (`ReadReclaim`, `TakeClaim`), replays the run
and observes the unknown outcome once more (`ReplayLoop`, `RecordRecovery`). The
plan to go on with is refused there; section 6 says why.

**Mounted tasks** (`MountedTask`). The evidence triage of one task: admitted,
taken up by a background cycle (or run in the request, when its provider is
remote, until it waits for approval of the transfer), taken over after a death,
canceled. It is composed with the chain of `SpecialistHandoff`, at whose stages
the execution stands, and has the three devices that keep it from going on
beside somebody else's act. The *fence* (`ReadFence`, `AppendStage`) reads the
ledger, wants task and run as they should be, and makes the append conditional
on the length it read. The *gate* (`EnterGate`, `LeaveGate`) admits one writer
of an artifact or one cancellation at a time; it is a map in one process, so the
callers are of one process. The *cursor* (`Derived`, `Inspected`) is the handoff
authority's automaton: once bound, every event of the ledger must be the next
one of this run, and the first that is not burns it. The model's invocation is
appended by the runtime, outside the fence; a replay of it is fenced. The writes
of one phase (derivatives, references, material) are one passage of the gate:
each has the same checks, and what makes one fail makes the later ones fail.

**Rebuilds** (`ProjectionRebuild`). Every file operation is a step that may fail
or be its process's last.

### The resident supervision

`ResidentSupervision` has one service per process. A service is four threads of
one event loop that share variables: the status request (`snap`), the queue of
pause, resume and sourced-investigation calls (`ctl`), the poll after a lease
expires (`poll`) and the background cycle (`bg`). One action is what runs
between two awaits that somebody can come between. A service issues and retires
wake runtimes, each with a supervisor that admits, pauses and stops; claims the
workspace's one lease in the mounted ledger, which the services of several
processes share; and loses its authority when the drive goes away.

A pause is durable before the supervisor confirms it (`PauseAppends`,
`PauseConfirms`); one that was stopped between the two refuses. A background
task's handoff starts a cursor at the ledger's length: an event of anybody else
after it stops the task's last effects, not its first ones, and the task stays
for another cycle (`BackgroundHandoff`, `BackgroundRuns`).

Abstractions: the event that requests a pause is not kept apart from the one
that records it; stopping a runtime and forgetting it are one step; the
reconciliation of claims active at an outage is left out; the order in which
executions take their turn (a chain of promises) appears as strong fairness of
that turn. A supervisor that cannot be built, because the store fails before its
first use, answers as one that refuses; in the code that call throws, and a poll
then sets `authorityLost` (`wake-supervisor-runtime.ts:1162,601-607`).


## 3. The runs

Each run's state graph is explored completely unless it is a violation.

| Run | Question | Distinct states |
|---|---|---|
| `sqlite_safety` | Do transactions implement the one-step ledger, whatever fails and dies? Is the lock given back? | 96,767 |
| `tool_wakes` | Does the request's stream stay legal under racing wakes and callers? Is an approved request taken up? | 278,048 |
| `task_ticks` | Do overlapping ticks dispatch once and keep the life of the attempt? | 891,985 |
| `task_life` | Do ticks take turns, let go of waits and of canceled claims, and take a queued task up? | 456,120 |
| `documents` | Is an invocation sent at most once, under its policy, alone, with one outcome that is earned, in the end? | 519,731 |
| `evidence_records` | Do import, governance, review, assertions and adapters leave a log in which each agrees with the others? | 466,772 |
| `workspace_services` | Do letters, memories, triggers, knowledge, handoffs, loops, mounted tasks and rebuilds leave a consistent log and whole files? | 386,279 |
| `resident_supervision` | Does one lease bind, is a quiet service idle, do executions take turns, does every call return? | 218,017 |
| `task_completion_lost` | Does the task complete after its attempt did? (violated) | — |
| `letters_mailed_twice` | Is a letter delivered once? (violated) | — |
| `rebuild_again` | Is a rebuild without a fault promoted? (violated) | — |
| `effects_after_lease` | Does a task have effects only while no other process holds the workspace? (violated) | — |

### Bounds, and why they are enough to be interesting

*Ledger.* Two processes, one decision, a plain event, a batch that writes one
stream twice, a batch whose second event is malformed; logs of up to three
events. Two processes are enough for a stale expectation, for contention, and
for a retry after a crash to meet the receipt of its own first try. Three events
hold a batch and an event of the other process, before or after it. The three
kinds of content reach every branch of the insert loop.

*Tool requests.* Two wakes, one caller, an independent approver and one with the
scheduler's id, two approvals, one crash. These give every race between a stale
read and a claim, a denial, a second approval and a completion.
`MaxTime = Lease` lets exactly one lease run out, which is what a second claim
needs.

*Task.* `MCTogether`: two ticks, one overlap, three claims, one lease that runs
out. `MCLife`: ticks that follow one another, one of which dies halfway or one
approval of which lapses, up to 12 claims; or two ticks with one overlap, four
claims and no time. `MCDying`: two crashes, six claims. Bounds on claims are
beyond what the schedule needs. Larger instances were tried by hand and pass:
two overlaps without time (2.83 million states), one overlap with a crash (2.18
million), one overlap with a lapse (2.34 million).

*Documents.* `Single`: one invocation, two instances with a request each, one
change of policy, another event, one crash; the change falls before, between and
after preview, approval, claim and transfer. `Pair`: two approved invocations
submitted at once, which reach the claim together with every interleaving.

*Evidence and its adapters.* Two callers, and one scenario for each question:
`Approving`, `Importing`, `Asserting`, `Proposing`, `Governing`, `Exporting`,
`Exposing`, `Accepting`, `Publishing`, `Staging`. A scenario starts from a log
that such a workspace has at that point and gives each operation a number of
calls. Two batches share one content, so that a pass meets the other's evidence;
two occurrences share a content, so that links are counted apart from evidence.

*Workspace services.* Two callers and 24 scenarios: letters (the first one and
follow-ups), memories, triggers, reviews, corrections, bindings, rebuilds
(racing, many, dying), handoffs (recorded by both families, concluded,
finalized, superseded, suspended), loops (two at once, interrupted, resumed,
bound to a concluded run) and mounted tasks (admitted twice, withdrawn while a
store fails, interrupted by two deaths and another event, stale after a change of
policy, remote). Two executions of one run are enough for a takeover to meet the
one it takes over from; two deaths reach a takeover of a takeover. Services other than the one a scenario is about have
no calls in it: their races with it are those of an unrelated event, and the
loops' scenarios have an event of somebody else for that.

*Supervision.* `Alone`: one service under eleven budgets of what the others do
(leases that expire, a drive that goes away and comes back, tasks, pauses,
resumes, sourced calls, stop). `Together`: two processes under three budgets.
Six names of runtimes are enough because a name is free again once nothing
refers to it.

Symmetry is used in `task_ticks`, `evidence_records` and `workspace_services`,
which check no liveness; what is permuted (ticks, callers, people, signals of one
scope) appears nowhere by name. `CHECK_DEADLOCK FALSE` is set where the system
may stop: a request has ended, a task is settled, an invocation has its outcome,
calls are used up. The ledger's run checks for deadlock.

### Fairness

- `SqliteEventLedger!FairSpec`: weak fairness of each client's next statement.
  A transaction is synchronous code: once begun, it goes on unless the process
  dies. No client has to call.
- `ToolScheduler!FairSpec`: weak fairness of each wake's steps, and a wake's
  first step is one of them: the scheduler keeps being woken (the HTTP route and
  the supervisor do that), and a wake that has begun goes on. Callers and
  approvers owe nothing.
- `TaskOrchestrator!LiveSpec`: ticks keep being started, a started tick goes on,
  time passes, and an approval that is asked for is given. Deaths are bounded;
  without a bound every tick could die and nothing could be said.
  `task_completion_lost` is violated *with* this fairness: ticks go on for ever
  and do nothing.
- `DocumentProcessing!FairSpec`: handlers run on, timers fire, an instance that
  is down is mounted again. `Answer` and `Lost` are not fair: the provider may
  hang for ever, and the timeout is what ends the wait.
- `ResidentSupervision!FairSpec`: weak fairness of each thread's next step and
  of the timer, and strong fairness of `SourcedTurn`: executions wait on a chain
  of promises (`residentExecutionTail`), which is first come, first served,
  so a waiting call gets its turn although cycles start again and again. Nobody
  owes a request, and a lease or drive changes at no particular time.

### What the properties say

The comment above each property in its module names the code it is about. The
ones worth reading first:

- `GuardedAppendSawEverything`, `NoStaleDecision`: a conditional append that
  succeeded lost no update.
- `CommittedRetryIsNotRefused`: a client that retries a decision after losing
  the answer is never told that it came too late.
- `ImplementsToolRequest`: reading, deciding and appending in three steps is as
  good as one.
- `LeasesDoNotOverlap`: a claim is made only after the lease of every earlier
  claim ran out, even by a wake whose clock and read are old.
- `ImplementsTaskAttempt`: the check for an earlier dispatch and the append of
  one are two steps, two ticks may be on one claim, and still one runner is
  dispatched and the task lives as `TaskAttempt` says.
- `ClaimsAreLetGo`: no claim stays held because a tick died between two appends.
- `OutcomeIsHonest`: completed means that it was answered, failed that nothing
  left or that it was answered. It says nothing of canceled: a cancellation that
  read "queued" is recorded so although the document left since (section 5).
- `ImportsAreSound`: though evidence and links are appended on no condition, a
  completed batch counted what is there, and what was linked twice was linked by
  passes that overlapped.
- `HumanDecisionStands`: a model that classifies again does not undo what a
  person decided.
- `AdaptersAreHonest`: a report of success names what was approved and is
  durable, an export that an adapter reports as its own has seen every lock before
  it, and a batch that nobody is at work on, and nobody died on, is staged whole
  or not at all.
- `HandoffIsSound`: whoever works on a run, it has at
  most one handoff that is not superseded, prepared from an output, and its task
  is concluded once, at the end of a whole chain; a projection calls a run
  inconsistent only for one of two races that are named.
- `LoopIsSound`: a run's tool acts at most once, under a claim and, if a person
  has to agree, an approval; an outcome called unknown left no trace; a completed
  result has nobody else's event in its course, up to the last of its own
  records; a claim that was released is reclaimed at most once; and whoever takes
  that claim over, the unknown outcome is observed once more at most and no tool
  is planned, claimed or used after that (`TakeoverEnds`).
- `MountedTaskIsSound`: no artifact is written for a canceled task, nothing is
  begun, handed over or concluded of it, and completion is remembered once
  (`EndingIsSound`); a local run is concluded only by an execution that saw every
  event; and a task left running is taken up again and gets its authority, but
  for four named causes.
- `QuietIsIdle`, `CallsReturn`: a pause that returned leaves nothing executing
  and nothing about to, and the queue it holds meanwhile deadlocks with nothing.

## 4. What is proved

Theorems hold for every value of the constants, under the assumptions named in
the modules (`MalformedAssumption`, `ContentAssumption`, `DecisionAssumption`,
`MaxEventsAssumption`, `NoClientAssumption`, `ActorAssumption`,
`SchedulerAssumption`, `OrchestratorAssumption`, `DocumentAssumption`,
`BudgetsAssumption`, `ImportAssumption`, `GovernanceAssumption`,
`WorkspaceAssumption`, `ScenariosAssumption`). These only say that constants have their types, that
"none" values are not members of the sets they stand apart from, and that bounds
are numbers (a lease lasts at least one unit of time). `WorkspaceAssumption` adds
that no request has the id of another part's stream and that callers are finitely
many. The two named `ScenariosAssumption` say more, because services start from a
ledger with a past. For the services of evidence, that ledger is one they may have
left (`SoundLedger`; the empty ledger is, by `EmptyIsSound`), at most one call dies
(which is what "unless one died" in `BatchIsWhole` counts), and assertions are
proposed by staging or by the other ways, not by both. For the services of the
workspace it is a `StartLedger`: every event lies in the stream of what it is
about, a memory was remembered in its stream's first event, and people's decisions
are sound; letters, requests of triggers and supersessions are made in the
behaviour itself and not before it. The empty ledger is one. One theorem,
`EndingStaysSound`, has a hypothesis of its own, `MountedRunsAlone` of every
scenario, explained where it is described.

### The ledger

`SqliteEventLedgerProofs` has `LedgerSound`: types, the lock (held exactly while
a transaction is open), and streams numbered 1, 2, 3… by all three formulas, for
any number of processes and any batches. The inductive invariant

    IInv == TypeOK /\ LockMatchesTransaction /\ ControlInv /\ NumberingInv

is needed because numbering is not inductive on the committed log alone: the log
is replaced at `Commit` by a process's working copy, so `NumberingInv` also
covers the copies, and the other two say which call is behind which statement.
The lemma of substance is that one row numbered MAX + 1 keeps a log well
numbered.

The module's second half adds `VInv`: what an open transaction sees is the
committed log, which nobody else can change while it holds the lock, followed by
its own rows, which are a prefix of its batch. From it follow `GuardedSaw`,
`DecisionsWhole`, the action properties `HistoryPermanent`, `DecisionNotStale`
and `RetryNotRefused`, and `Implements`: every step of the transactions is a step
of `EventLedger` or a stutter. Every other module here treats an append as one
conditional step; this theorem is where that is earned.

### Tool requests

`ToolSchedulerProofs` has `RequestSound`, `LeasesNeverOverlap`,
`ExecutionAuthorized`, `CompletionEarned`, and `Implements`, the refinement
`Spec => ToolRequest!Spec`, for any number of wakes, callers, approvers and
crashes. The invariant's idea is one sentence: *an append that may still be
accepted is legal.* `Good(p)` says so for process `p`: if the stream still has
the length the append expects, then the event is legal after it. When another
event joins the stream, the expectation fails and `Good` holds for free; when
time passes, legality is kept (`LegalLater`). `Sound(stream)` is what legal
appends keep of a stream, and includes that the last event of a type exists,
which is again shown along the appends since it cannot be proved by induction
on sequences here.

### One task and its attempt

`TaskOrchestratorProofs` has theorems about any number of ticks, under any bounds
on time, overlaps, deaths and lapses. `IInv`, the invariant of ticks however they
overlap, again gives each tick what it may rely on (`Good`): its claim and its
checkpoint are in the log when it needs them (`KnowsItsClaim`); an append that
may still be accepted finds no dispatch before a dispatch and no cancellation
before a completion (`AppendIsLegal`); whoever is about to dispatch found the
transfer approved, or holds a claim made by a tick that did, and saw the context
(`IsAuthorized`); and a tick that is past the runner finds in the log the events
of the steps before its own and none of those after (`ComesAfterTheRun`). The last
one is inductive only because a single tick is past the announcement at any time
(`OneAnnouncer`), which comes from the announcement being conditional on its
stream. From `IInv` follow `TicksSound`, `DispatchAuthorized` and `Implements`,
the refinement `Spec => TaskAttempt!Spec`: each accepted append is one step of the
attempt's life or a stutter, and so are the run and the cancellation.

`TurnsTaken` is about ticks that follow one another. That a claim is never made
over another that stands needs to know *which* claims stand, so `TurnInv` says it
of the log and of the one tick under way: releases name an earlier claim, and one
after a wait the last claim before the wait; the claims that are not released
have rising generations (the recovery chooses the newest by generation and not by
position); a tick that recovers, resumes or starts found every claim released or
expired, and no claim expires later than one it would make; a tick that continues
a live claim has none to recover. With overlapping ticks the property is false, as
section 5 says.

### Resident supervision

`ResidentSupervisionProofs` has `OneLeaseBinds`, `Supervised` and `QuietServices`,
for any number of services, any ledger, and any budgets of calls, leases that
expire and drives that go away. The invariant `IInv` has a part for each question.

- *One lease.* `OneBinds` alone is not inductive: a claim is appended on a
  decision made before. `ClaimsAreFree` says that a claim that may still be
  appended, because the ledger has the length it read, finds no lease that binds.
  A claim decided by a clock that stands still (`over`) sees every lease that
  binds by the real one, since expiries only grow (`LiveByAnOldClock`,
  `RuntimesOK`); no event but a claim makes a lease bind (`LiveShrinks`); and the
  first claim makes every other one's length wrong (`OneClaimed`).
- *Turns.* `TurnOK` ties the shared variables to the threads: who has the turn is
  the thread that is between taking it and giving it back, a task is in progress
  exactly when one of the two threads executes, and the cycle is running exactly
  when its thread is not idle. `ThreadOK` says which thread can be at which step,
  so that the poll and the status request are seen never to execute.
- *Quiet.* `PauseOK` counts: the pauses pending are those in the queue and the one
  under way, so `pausePending` cannot be withdrawn by a pause that fails while
  another one waits, nor by a resume. `QuietOK` says that a quiet service has
  nothing in progress, may start nothing (`pausePending` or stopped), and has no
  resume under way that would lift that. When a pause returns, `TurnOK` and the
  idle background cycle give the first part.

### Evidence, assertions and adapters

`EvidenceRecordsProofs` is about `ApprovedEffects`, that is import, governance,
assertions and adapters on one ledger, for any callers, batches, scans, people,
tags and assertions. `ImportsSound`, `SharingCovered`, `AssertionsEarned` and
`AdaptersHonest` are the run's four invariants and `DecisionsStand` its action
property. They follow from one invariant, whose parts answer three questions.

- *What may be appended?* `Legal(s, e)` says what makes event `e` sound after the
  ledger `s`: no approval of its batch before an approval, evidence before a link,
  every occurrence linked and counted before a completion, the last decision as a
  review's cause, a plan that covers an export, evidence that is fit before a
  prepared proposal, the first proposal and no acceptance before an acceptance. A
  legal event keeps a sound ledger sound (`SoundLater`, one lemma for each part),
  and `Good(s, k)` is again that an append which may still be accepted is legal.
  It is kept because an event on the append's own stream, or any event for one
  that is conditional on the whole ledger, closes the append, and an event of
  another stream takes nothing from its legality (`LegalLater`, `GoodLater`).
- *What do those rely on that append on no condition?* A pass knows a part of the
  ledger, which stays what it is, and has linked all of it for the contents it is
  done with (`PassGoes`). As long as no two passes overlapped, the one there is
  knows all evidence and all links (`PassKnowsAll`), so what it appends is new.
  The two counts of a completion are compared with the ledger by `CountedOnce` and
  `PassIsDone`.
- *What do adapters rely on?* An adapter about to append an acceptance finds none
  if the stream still has the length it read; a report of success names a match at
  most one event after the first read (`AdapterGoes`), which with `ExportWasPlanned`
  puts the plan of an export right before it. Staging has left every candidate
  before its next one (`StageGoes`), so a batch in part has somebody at work on it
  (`StagedAsOne`).

Proving `AdaptersHonest` corrected `ReportedExportIsCurrent`. Stated of every
report it is false with three callers: an adapter whose second plan is refused
looks the export up and reports one that was planned before (section 5). The
property is now about exports planned after the adapter's first read.

### Services of the workspace

`WorkspaceServicesProofs` is about `WorkspaceServices`, all of its services at once,
for any callers, requests, letters, memories, signals, claims and artifacts, and
any scenario that starts from a `StartLedger`. It begins with what an append
changes in what is read from a ledger, and what it leaves alone;
`RunServicesProofs` goes on from it with the services of runs: handoffs,
loops and mounted tasks.

Each service is proved on its own. `Formed` says that events lie in their streams
and calls have their forms; with it, a step of any other service appends no event
of the types this one reads and touches none of its calls (`Beside`). So each of
the following invariants is kept by others for one reason, and only a service's
own steps need an argument.

- *Files* (`WorkspaceStaysSound`): `FilesAreSound`. Unless two rebuilds shared a
  temporary directory, rebuilds under way have different ones, and what one has
  written and not yet promoted is of its own build and nothing else is there.
- *Triggers* (`AdmissionStaysSound`): `AdmittedInTurn`. Every request was admitted
  on the ledger as it was before it, and one about to be appended is admitted on
  the ledger as it is, if that has the length it was evaluated at. The property is
  about the order of *time* and not of the ledger, since attempts come late; an
  attempt counts every request against its cooldown and budget, those later than
  itself included, so what the ledger's order admits the order of time admits.
- *Memories* (`SupersessionStaysWhole`): `WorkIsKnown`. Who is between replacement
  and supersession holds a replacement that no other event names and that nobody
  else is at work on; every replaced memory has somebody at work, is gone, or was
  abandoned.
- *Letters* (`CorrespondenceStaysSound`): `LettersInOrder` and `Account`. A letter
  about to be recorded may be sent if the request's stream has the length that was
  read; and for each letter the copies that left are as many as the records, the
  senders who hold one, and those reported as lost. Counting needs callers to be
  finite.
- *Knowledge* (`KnowledgeStaysSound`): `DecisionsInTurn`. A decision that waits to
  be appended `Fits` the ledger, if that is what it was: it proposes only what is
  not proposed, its verdicts are ones that the ledger allows, one for a claim, and
  its bindings agree in type with those that stand and with each other. What fits
  keeps a sound ledger sound (`FitKeeps`). For two reviews in one decision the
  second is checked with the first one's events (`TwoFits`).
- *Handoffs* (`HandoffStaysSound`): `ChainsHeld`. The ledger's chains are whole
  (`ChainsAreWhole`): each stage names an event of the stage before, an output is
  prepared once, and a run has one chain that no other supersedes. A call that is
  about to append holds on to what it read under the condition that the run's
  stream still has the length it read (`HandsOver`, `Awaits`), because the append
  fails otherwise; `Joins` says what an event has to fit for the chains to stay
  whole. Two recorders may prepare at once, the loser finds an exact copy or
  throws. Mounted tasks append the same stages, so the proof goes through every
  action of `MountedTask`, and through loops and letters only to say they append
  none.
- *Loops* (`LoopStaysSound`): `LoopsHeld`. About the ledger, `LoopLedger`: the
  tool's events in their order, an effect under a claim, the plan before what it
  plans, results earned, suspensions in order and once, and a recovery that
  follows a reclaim and ends the run (`TakeoversEnd`): a loop about to record one
  stands on a claim of a run whose checkpoint calls its outcome unknown
  (`TakesWell`), and a loop that plans or uses a tool stands on a run without a
  checkpoint (`OnItsOwn`), so nothing of that kind comes after. About the calls, `LoopFits`,
  and that there is one `Holder`, the loop that planned, which alone may append
  what is `Guarded`. What carries the proof is what the loop's tokens mean: while
  the comparison of a token with the ledger succeeds, everything after it is the
  loop's own or its tool's (`TokenHolds`), so the course since the plan is still
  the loop's alone (`OwnGoesOn`), and a tool whose outcome nobody observed has left
  no effect (`NoEffectBeyond`), which is why a suspension may call it unknown. A
  person's verdict is conditional on the request standing alone in the tool's
  stream, so it comes before the claim or not at all.

- *Mounted tasks* (`EndingStaysSound`): `MountedAlone`. An append conditional on
  the whole ledger, if it is still accepted, finds the task in the status it was
  decided on, queued or running (`Turn`). After a cancellation the status is
  canceled or, once an end that was under way is recorded, waiting, and never
  queued or running again (`CanceledStays`), so what is still appended is what
  `CancellationHolds` allows (`EndsLedger`). One call at a time is inside the gate,
  and only who is inside cancels: the artifact is written between two steps of
  that call, and nobody cancels between them. The other services append to no
  stream of the task.

Handoffs and loops need the ledger of a scenario to start with whole chains and,
of a loop, with nothing but claims; `StartLedger` says so and TLC checks it of
every scenario. Mounted tasks need `MountedRunsAlone` of every scenario, a
hypothesis of that one theorem: where executions of a mounted task may begin,
nobody else records, runs a loop or cancels on the run, and no cancellation came
before; where others may, nothing is admitted and no execution begins. It is
needed because `CancelTask`, the cancellation of tasks that are not mounted,
does not wait for the mounted runtime's lock: it may fall between the check and
the write of an execution. TLC evaluates it of every scenario of the run
(`MountedAssumption` in `MCWorkspaceServices`).

### Documents

`DocumentProcessingProofs` has `OutcomeIsFinal`, for any number of invocations,
requests, instances, crashes and changes. Same idea: `Fits(q)` says of a request
that what it read before its append still holds *if* the lengths the append
expects still do. The survey's "none is running" is tied to the length of the
whole ledger, "queued" and "not terminal" to the length of the stream. An append
by anyone makes the tie fail rather than the fact.

`TransfersSound` and `OutcomesHonest` need more (`TInv`). What makes them inductive is ownership: a claimed invocation has one owner, the
request that claimed it, until that request finishes or its instance dies; only
the owner can send; and a revision of the policy only grows, so a check in
`beforeTransfer` that finds the claim's revision finds the approved one.

### What is only model-checked

- Liveness (`LockIsReleased`, `ApprovedIsTakenUp`, `ClaimsAreLetGo`,
  `TaskIsTakenUp`, `RunningEnds`, `CallsReturn`): the prover does not reason
  about fairness or ENABLED.
- Of `MountedTaskIsSound`, `RecordedAtOnce` and `InterruptionIsRecoverable`
  (`EndingIsSound` is proved). Both say what a fold over the ledger finds, the
  cursor of an execution and the position that a recovery goes on from, which is
  induction over data.
- What a recursive definition computes for all inputs cannot be proved with the
  provers at hand: the induction theorems of the library take an operator as a
  parameter. No module has a RECURSIVE operator.

## 5. Where the code and its documents disagree

Found while modelling. Four have a run whose counterexample shows them.

1. `task_completion_lost`. An attempt's completion and the task's are two
   appends; after a death between them the task stays queued, although the
   design document says the next tick repairs it.
2. `letters_mailed_twice`. Two senders of one letter, or a retry after a death,
   pass the check before either records it, and the Himalaya adapter drops the
   idempotency key: the provider delivers twice.
3. `rebuild_again`. Promotion renames a directory onto the projection's, which
   the operating system refuses when that one is not empty: from the second
   rebuild on, every one ends degraded although nothing failed.
4. `effects_after_lease`. The background cycle fixes the clock at the task's
   start, so its checks never see the lease expire; the task goes on after
   another process has claimed the workspace.

Others were seen and have no run. Where a line of a document is named, it says
otherwise.

*Tools and tasks*
- A wake checks the stream, rebuilds the preview and then claims; if another
  wake's lease runs out between, the tool acts twice (`scheduler.ts:358`;
  `agent/test/scheduler.test.ts:102,183`).
- A wake whose preview fails fails the request although another is executing it
  (`scheduler.ts:188`). A second approval makes a loop's completion fail
  (`resident-loop-scheduler-completion.ts:97`).
- `completeToolFromSchedulerEvidence` checks that its claim is the last one on a
  first read and appends on a second: an older claim's completion may follow a
  newer claim (`tool-gateway.ts:383-390`).
- Only a tick that resumes rereads the task's status before it dispatches: a
  dispatch may follow a cancellation (`task-orchestrator.ts:878`;
  `docs/superpowers/specs/2026-07-10-resident-task-orchestrator-design.md:221`).
  A stale claim is released and reclaimed by two appends, and after a death
  between them no branch of `tick` takes the attempt up (`:704`; line 169).
- An approval-wait checkpoint appended after the dispatch looks resumable; later
  ticks claim the completed attempt again and dispatch nothing (`:1469`).
- Two unexpired claims of one attempt may stand, and a stale recovery after a
  resume may reuse a `leaseClaimGeneration` (same document, 165, 177). A
  cancellation after the attempt's completion leaves the task canceled (225); the
  cancel route checks and appends in two steps (`agent-http-routes.ts:341`).

*Documents and imports*
- `cancel` chooses between canceled and uncertain by the state it read first
  (`document-processing.ts:253`; `docs/personal-use.md:134`).
- Overlapping passes link an occurrence twice (`import-service.ts:155`;
  `docs/superpowers/specs/2026-07-05-public-ingestion-pipeline-design.md:136`).

*Evidence, knowledge, memories*
- An export may be appended from a stale plan (`governance-service.ts:413`);
  `assertRequestCanBeSent` does not look whether a request is closed.
- Two claims of one decision that supersede each other leave no accepted
  replacement. A replacement of another type that rebinds a mention leaves an
  accepted relation whose endpoint has a forbidden type.
- Two supersessions of one memory at once leave two active replacements; a
  retracted memory can become superseded.

*Adapters*
- An adapter whose effect stands reports failure when any other event landed
  between its two reads (`accepted-graph-review.ts:338`, `export-report.ts:876`,
  `prr-correspondence.ts:1206`), and `acceptanceMatchesBinding` does not compare
  who accepted: another reviewer's acceptance is reported as its own when it was
  there at the snapshot and is a failure when it came after.
- An adapter whose plan is refused because evidence was locked after its first
  check looks whether the export is there, and reports one that another execution
  or a person recorded from a plan made before the lock (`export-report.ts:406-412`).
- A retry of an export after governance changed is refused as stale though the
  export exists (`export-report.ts:356`, before `:384`).
- A partly staged batch is refused for ever, though the service's `propose` would
  return the existing proposals and complete it (`adapters/legacy-staging.ts:529`);
  anyone's acceptance during staging makes a finished staging a failure (`:539`).

*Handoffs*
- A blocked or waiting handoff recorded by the bound family has its task's status
  appended as "completed" (`specialist-runner-kernel.ts:2614`;
  `docs/superpowers/specs/2026-07-10-durable-specialist-handoff-production-design.md:330-334`).
- A third revision is always refused; a supersession between finalization's
  verification and its append, or a late failure of the run, leaves the run
  inconsistent for good.

*Mounted tasks*
- A death or an unrelated event after the handoff is prepared and before the run
  is terminal leaves the task running for good: an authority is not bound to a
  handoff that is only prepared
  (`portable-mounted-agent-artifact-stores.ts:362-416`), the recorder refuses one
  that is recorded (`specialist-runner-kernel.ts:990`), and the recovery wants the
  terminal event. The documents call such a run resumable
  (`docs/superpowers/specs/2026-07-12-resident-agent-durable-handoffs-design.md:270,459`;
  `docs/superpowers/specs/2026-07-10-resident-task-orchestrator-design.md:401`).
- When the store of derivatives fails, the failed handoff's chain reaches a failed
  run, and the execution's own fence then refuses the orchestration and the
  status (`agent-runtime-mounted-task.ts:1812-1817`): the task stays running, and
  `pendingLocalTasks` passes over failed runs.
- Two admissions of one task under two run ids both succeed, and the start looks
  only for its own run (`:2180-2187`): a remote run can start beside a local one,
  which then gets no authority. The remote's waiting status is conditional on the
  task's stream as read just before (`:2743`) and may overwrite a cancellation.
- A cancellation decided while the task was running may land on a completed task,
  which is then never remembered.

*The resident loop*
- A loop's own reclaim makes the gateway's token stale, so a resume is refused
  (`mounted-wake-lifecycle-store.ts:1493`, against `:811`;
  `docs/superpowers/specs/2026-07-12-resident-agent-bounded-loop-design.md:458-475`).
  One that finds another's reclaim gets past it (`:1486-1504`, `:1660`, `:1747`),
  observes the unknown outcome once more and is refused at the new plan.
  A failed currentness check throws, although the document (399-401) has it
  append an observation or failure and release. A reclaim does not look at
  cancellations again.
- An effect that appended its assertion without a receipt is never recorded as
  unknown; an event of somebody else inside a gateway operation is absorbed
  before the effect; the human-approved tool's own event is not among those the
  loop permits, so it dies after it; an automatic tool that stages several
  assertions is always refused.
- No caller wires the loop into the service, and nothing appends the
  human-approved and human-denied events.

*Supervision*
- A snapshot or poll does not look at the outcome of `start` or `signal`, so a
  cycle may execute under a runtime without a lease; the handoff then fails
  before any effect (`local-runtime/test/wake-supervisor-runtime.test.ts:333`).
- A poll or snapshot in flight can claim a lease after a pause returned, or issue
  a runtime after stop; two issuers overwrite each other's runtime and one is
  never stopped; a pause after the drive is lost leaves `pausePending` set.
- An own live lease whose high water moved counts as held, so a second local task
  waits until it expires.

## 6. What is not modelled

Beyond what section 2 leaves out of the modelled components:

- *Tool gateway*: requests whose approval class is "none", the additional
  conditions of the resident source boundary. *Task orchestrator*: several tasks
  and the concurrency policy (checked on a snapshot, so overlapping ticks may
  exceed it), explicit retries (they need `agent.task.orchestration.failed`,
  which nothing in `src/` appends). *Documents*: a busy database that makes
  `finish` throw.
- *Governance*: policies as such, redactions and incidents, which nothing reads.
  *Knowledge*: cases, hypotheses, lineage and vocabulary, which only append.
  *Letters*: syncing incoming mail, the other providers' clients, which are
  given the key. *Loop*: what would follow a new plan in resume, and budgets. The
  plan to resume with is part of the call's input and fixed before the call's
  first await (`normalizeResumeInput`, `bounded-agent-loop.ts:952-967`). It is
  accepted only if its cause and its readback name the recovery event that this
  same call appends (`validateReplan`, `resident-plan-candidate-provider.ts:230-275`,
  through `resident-loop-factory-ports.ts:231`), whose id the ledger draws at
  random on append (`sqlite-event-ledger.ts:43-45`); and before that event the
  replay must show the six events of the suspended run and no more, so an earlier
  call's recovery event does not serve. No input meets both.
- *Tool scheduler*: the completion's causal check (`hasExactCausalBinding`,
  `resident-loop-scheduler-completion.ts:157-202`) also takes an event of somebody
  else whose chain of causes leads to the request's source events; the model
  wants the wake's own.
- *Adapters* of letters and rebuilds (their services are modelled), and those
  that always refuse (provider bytes, canonical repair).
- *Data*: prompts, context packs, previews, manifests, hashes, schema
  validation, extraction, parsing, jurisdiction packs. Where a modelled component
  depends on one of these, its result is a choice (valid or not, ready or not).
  This is most of the repository's lines.
- *Pure folds* for screens and reports. The folds that decide something
  (claimable, resumable, recoverable, the state of a job, what knowledge stands,
  whether a run is consistent) are operators of the modules that use them.
- *Mounted tasks*: sourced investigations and advisory runs, which have the same
  fence and gate and end in other artifacts; a pause of the supervision as the
  fence sees it (`mountedResidentSupervisionIsPaused`), whose race with
  executions `ResidentSupervision` has.
- *Specialist workflows*: sequential scripts of one run over the gateway and the
  handoff protocol.
- *I/O without protocol*: HTTP parsing, sessions, static files, logging, CLI,
  configuration, network clients, backup copies, the user interface.

## 7. Plan

In this order:

1. `SpecialistHandoff` composed with `TaskOrchestrator` in place of its one-step
   handoff; abstractly, one binding per run.
2. What follows a loop's new plan, should the code come to accept one; the
   adapters of letters and rebuilds over their services.
3. Pure functions: business-day deadlines against a reference definition, and the
   projections of handoffs and triggers against theirs.

Runs stay few: two or three values of everything that can race, one crash, one
expiry, and under a million states.
