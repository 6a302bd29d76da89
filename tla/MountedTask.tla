---------------------------- MODULE MountedTask ----------------------------
(***************************************************************************)
(* The execution of a task of a mounted workspace                          *)
(* (packages/local-runtime/src/agent-runtime-mounted-task.ts): its        *)
(* admission, its run in the background or, for a remote provider, in the  *)
(* request itself, its takeover after a death, and its cancellation.       *)
(*                                                                         *)
(* Three things keep an execution from going on beside somebody else's      *)
(* act.  The fence reads the ledger and wants the task and run as they     *)
(* should be; the event appended after it is conditional on the length of  *)
(* the ledger it read.  The gate is held by one writer of artifacts, or by *)
(* a cancellation.  The handoff authority reads the ledger as a cursor      *)
(* (portable-mounted-agent-artifact-stores.ts): every event must be the    *)
(* next one of this run, and the first that is not burns it.               *)
(*                                                                         *)
(* One task has a local run, whose specialist is deterministic, and a      *)
(* remote one.  The handoff of the local run is the kernel's chain.        *)
(***************************************************************************)
EXTENDS SpecialistHandoff

LOCAL SE == INSTANCE SequencesExt

CONSTANTS
    Triaged,        \* what the local run hands over
    Unpublished     \* what it hands over when its artifacts cannot be stored

ASSUME MountedTextAssumption ==
    /\ {Triaged, Unpublished} \subseteq Text
    /\ AnchorOf[Triaged].status = "ready" /\ AnchorOf[Unpublished].status = "failed"

Run == {"local", "remote"}

StreamOf(run) == IF run = "local" THEN RunStream ELSE <<"remote run">>
InvocationStream == <<"invocation">>
AdmissionStream(run) == <<"admission", run>>
TransferStream == <<"transfer">>

\* Streams of events that name neither the task nor its runs.
ElsewhereStream == {<<"policy">>, <<"completion memory">>, <<"diagnostic">>, <<"elsewhere">>}

TaskCreated == [type |-> "task-created", stream |-> TaskStream]
TaskQueued == [type |-> "task-queued", stream |-> TaskStream]
TaskAdmitted(run, policy) ==
    [type |-> "task-admitted", stream |-> AdmissionStream(run), run |-> run, policy |-> policy]
RunStarted(run) == [type |-> "run-started", stream |-> StreamOf(run), run |-> run]
TaskRunning(run) == [type |-> "task-running", stream |-> TaskStream, run |-> run]
TaskWaiting(run) == [type |-> "task-waiting", stream |-> TaskStream, run |-> run]
TaskCanceled == [type |-> "status", stream |-> TaskStream, cause |-> 0, status |-> "canceled"]
Invoked == [type |-> "invoked", stream |-> InvocationStream]
Answered == [type |-> "answered", stream |-> InvocationStream]
TransferRequested == [type |-> "transfer-requested", stream |-> TransferStream]
CompletionMemory == [type |-> "completion-memory", stream |-> <<"completion memory">>]
StaleAdmission == [type |-> "stale-admission", stream |-> <<"diagnostic">>]
PolicyChanged == [type |-> "policy-changed", stream |-> <<"policy">>]
Elsewhere == [type |-> "elsewhere", stream |-> <<"elsewhere">>]

----------------------------------------------------------------------------
(* What the projection makes of the ledger.                                *)

StatusOf(e) ==
    CASE e.type \in {"task-created", "task-queued"} -> "queued"
      [] e.type = "task-running" -> "running"
      [] e.type = "task-waiting" -> "waiting"
      [] OTHER -> e.status

TaskStatus(s) ==
    IF InStream(s, TaskStream) = {} THEN "none"
    ELSE StatusOf(s[CHOOSE i \in Latest(InStream(s, TaskStream)) : TRUE])

\* The run of the last status that named one; a task is concluded by its own.
TaskRun(s) ==
    LET named == OfType(s, "task-running") \union OfType(s, "task-waiting") IN
    IF named = {} THEN "none" ELSE s[CHOOSE i \in Latest(named) : TRUE].run

RunState(s, run) ==
    LET started == {i \in InStream(s, StreamOf(run)) : s[i].type = "run-started"}
        ended == {i \in InStream(s, StreamOf(run)) : s[i].type = "terminal"}
    IN
    IF started = {} THEN "absent"
    ELSE IF ended = {} THEN "running"
    ELSE s[CHOOSE i \in Latest(ended) : TRUE].status

Admissions(s, run) == {i \in OfType(s, "task-admitted") : s[i].run = run}

Policy(s) == Cardinality(OfType(s, "policy-changed"))

\* Queued, and nobody has begun with it.
Untouched(s) ==
    /\ TaskStatus(s) = "queued" /\ TaskRun(s) = "none"
    /\ \A run \in Run : RunState(s, run) = "absent"
    /\ InStream(s, AttemptStream) = {}

\* The fence: the task is the run's, and both are in one of these states.
EffectAllowed(s, run, statuses, states) ==
    TaskRun(s) = run /\ TaskStatus(s) \in statuses /\ RunState(s, run) \in states

\* assertCurrentAdmissionBinding: one admission of the run, under this policy.
AdmittedNow(s, run) ==
    /\ Cardinality(Admissions(s, run)) = 1
    /\ \A i \in Admissions(s, run) : s[i].policy = Policy(s)

\* pendingLocalTasks, but for the policy: what a background cycle takes up.
Pending(s) ==
    LET task == TaskStatus(s)
        run == RunState(s, "local")
    IN
    /\ Cardinality(Admissions(s, "local")) = 1
    /\ task \notin {"canceled", "failed"} /\ run # "failed"
    /\ task = "completed" \/ run = "completed" =>
        /\ run = "completed" /\ task \in {"running", "completed"}
        /\ OfType(s, "completion-memory") = {}

----------------------------------------------------------------------------
(* The cursor of a handoff authority: how far the local run has come, its  *)
(* model's transcript, the last event that moved it, and how many events    *)
(* of the ledger it has seen.                                              *)

NoCursor == [phase |-> "initial", model |-> "none", last |-> 0, seen |-> 0]

Burned == [phase |-> "burned", model |-> "none", last |-> 0, seen |-> 0]

\* Which event takes the run from where to where.
Moves == {
    <<"initial", "task-created", "created">>,
    <<"created", "task-queued", "queued">>,
    <<"queued", "task-running", "entered">>, <<"started", "task-running", "working">>,
    <<"initial", "run-started", "started">>, <<"queued", "run-started", "started">>,
    <<"entered", "run-started", "working">>,
    <<"started", "final", "final">>, <<"working", "final", "final">>,
    <<"final", "prepared", "prepared">>, <<"prepared", "recorded", "recorded">>,
    <<"recorded", "terminal", "terminal">>, <<"terminal", "orchestrated", "orchestrated">>,
    <<"orchestrated", "status", "status">>}

\* Streams of the task and of its runs.
BoundStream ==
    {TaskStream, AttemptStream, InvocationStream, TransferStream}
        \union {StreamOf(run) : run \in Run} \union {AdmissionStream(run) : run \in Run}

\* The event names the task or a run of it.
IsBound(e) == e.stream \in BoundStream

\* The event is of the local run, caused as the chain has it, and comes after
\* the answer of a model that was invoked.
Follows(k, e) ==
    /\ e.type \in {"task-running", "run-started", "task-admitted"} => e.run = "local"
    /\ e.type = "prepared" => e.binding.final = k.last
    /\ e.type \in {"recorded", "terminal", "orchestrated", "status"} => e.cause = k.last
    /\ e.type = "final" => k.model # "invoked"

\* advanceDispatchPrelude and advancePhase, for event i of s.
Advance(s, k, i) ==
    LET e == s[i]
        moves == {m \in Moves : m[1] = k.phase /\ m[2] = e.type}
    IN
    IF ~Follows(k, e) THEN Burned
    ELSE IF e.type = "task-admitted" /\ k.phase \in {"created", "queued"} THEN k
    ELSE IF e.type = "invoked" /\ k.phase \in {"started", "working"} /\ k.model = "none"
    THEN [k EXCEPT !.model = "invoked", !.last = i]
    ELSE IF e.type = "answered" /\ k.phase \in {"started", "working"} /\ k.model = "invoked"
    THEN [k EXCEPT !.model = "answered", !.last = i]
    ELSE IF moves = {} THEN Burned
    ELSE [k EXCEPT !.phase = (CHOOSE m \in moves : TRUE)[3], !.last = i]

Events(from, to) == [n \in 1..(to - from) |-> from + n]

\* The first inspection passes over what is not the task's.
Derived(s) ==
    LET Step(k, i) == IF IsBound(s[i]) THEN Advance(s, k, i) ELSE k
    IN [SE!FoldLeft(Step, NoCursor, Events(0, Len(s))) EXCEPT !.seen = Len(s)]

\* Every later one lets nothing pass.
Inspected(s, k) ==
    LET Step(j, i) == IF IsBound(s[i]) THEN Advance(s, j, i) ELSE Burned
    IN [SE!FoldLeft(Step, k, Events(k.seen, Len(s))) EXCEPT !.seen = Len(s)]

\* An authority is issued for a run whose chain has not begun, or is recorded.
MayBind(s) ==
    /\ Derived(s).phase # "burned"
    /\ OfType(s, "prepared") # {} =>
        Derived(s).phase \in {"recorded", "terminal", "orchestrated", "status"}

----------------------------------------------------------------------------
(* Calls.  Where a call is, and what it carries: its run, the policy it     *)
(* captured, the lengths of the ledger and of its event's stream that the   *)
(* next append is conditional on, its cursor, the stage of the chain it is at and what it hands over.     *)

NoStage == [stage |-> "none"]

Execution(run, at) ==
    [op |-> "mounted", at |-> at, run |-> run, policy |-> Policy(log), base |-> Len(log),
     expected |-> 0, cursor |-> NoCursor, chain |-> NoStage, text |-> Triaged, inside |-> FALSE]

Is(c, at) == call[c].op = "mounted" /\ call[c].at = at

Proceeds(c, at) == call' = [call EXCEPT ![c].at = at]

\* On to an append that is conditional on the ledger as it is now.
ProceedsKnowing(c, at) == call' = [call EXCEPT ![c].at = at, ![c].base = Len(log)]

Returns(c) == call' = [call EXCEPT ![c] = Idle]

\* Appends the event if the ledger is as long as it was, and goes on; if not,
\* the call fails.
AppendsOr(c, event, next) ==
    IF call[c].base = Len(log)
    THEN log' = Append(log, event) /\ Proceeds(c, next)
    ELSE UNCHANGED log /\ Returns(c)

\* The last append of a call.
AppendsLast(c, event) ==
    /\ log' = IF call[c].base = Len(log) THEN Append(log, event) ELSE log
    /\ Returns(c)

\* authority.revalidate: the policy is the one the call captured.
SamePolicy(c) == call[c].policy = Policy(log)

\* The cursor after one more inspection.
Now(c) == Inspected(log, call[c].cursor)

----------------------------------------------------------------------------
(* Admission and the taking up of runs.                                    *)

\* admitMountedEvidenceTriageTask; a remote run that is admitted already is
\* executed again, a local one only signaled.
RequestRun(c, run) ==
    /\ Makes(c, "admit")
    /\ \/ /\ Admissions(log, run) = {} /\ Untouched(log)
          /\ call' = [call EXCEPT ![c] = Execution(run, "storing")]
       \/ /\ run = "remote" /\ AdmittedNow(log, run)
          /\ call' = [call EXCEPT ![c] = Execution(run, "examine")]
    /\ UNCHANGED log

\* Refused, it goes on from the admission somebody else appended, if the same.
AppendAdmission(c) ==
    LET run == call[c].run
        admitted == TaskAdmitted(run, call[c].policy)
        goesOn == call[c].base = Len(log)
            \/ \E i \in Admissions(log, run) : Admissions(log, run) = {i} /\ log[i] = admitted
    IN
    /\ Is(c, "admitting")
    /\ log' = IF call[c].base = Len(log) THEN Append(log, admitted) ELSE log
    /\ IF goesOn /\ run = "remote" THEN Proceeds(c, "examine") ELSE Returns(c)
    /\ UNCHANGED budget

\* A background cycle claims its lease and takes up the run.
TakeUp(c) ==
    /\ Makes(c, "take")
    /\ Pending(log) /\ AdmittedNow(log, "local")
    /\ log' = Append(log, Elsewhere)
    /\ call' = [call EXCEPT ![c] = Execution("local", "examine")]

\* recordStaleMountedTaskAdmissionDiagnostic, once and once more.
FindStale(c) ==
    /\ Makes(c, "take")
    /\ Pending(log) /\ ~AdmittedNow(log, "local") /\ OfType(log, "stale-admission") = {}
    /\ call' = [call EXCEPT ![c] = Execution("local", "diagnosing")]
    /\ UNCHANGED log

DiagnoseStale(c) ==
    LET known == OfType(log, "stale-admission") # {} IN
    /\ \/ /\ Is(c, "diagnosing") /\ call[c].base # Len(log) /\ ~known
          /\ ProceedsKnowing(c, "diagnosing again")
          /\ UNCHANGED log
       \/ /\ Is(c, "diagnosing") /\ (call[c].base = Len(log) \/ known)
          /\ AppendsLast(c, StaleAdmission)
       \/ Is(c, "diagnosing again") /\ AppendsLast(c, StaleAdmission)
    /\ UNCHANGED budget

\* What an execution finds to do.
Goal(s, run) ==
    LET task == TaskStatus(s)
        state == RunState(s, run)
    IN
    IF state = "absent" /\ Untouched(s) THEN "start"
    ELSE IF run = "remote" THEN "nothing"
    ELSE IF state = "completed" /\ task = "completed" /\ ~Diagnosed(s) THEN "remember"
    ELSE IF state = "completed" /\ task = "running" /\ TaskRun(s) = run THEN "recover"
    ELSE IF state = "running" /\ task \in {"queued", "running"} THEN "resume"
    ELSE "nothing"

\* runMountedEvidenceTriageTask, up to the acquisition of an authority.
Examine(c) ==
    LET run == call[c].run
        goal == Goal(log, run)
        next == IF goal = "remember" \/ run = "remote" THEN goal ELSE "bind"
    IN
    /\ Is(c, "examine")
    /\ IF goal = "nothing" \/ (run = "local" /\ ~AdmittedNow(log, run))
       THEN Returns(c)
       ELSE call' = [call EXCEPT ![c] = [Execution(run, next) EXCEPT !.chain.stage = goal]]
    /\ UNCHANGED <<log, budget>>

\* acquireMountedTaskHandoffAuthority
BindHandoff(c) ==
    /\ Is(c, "bind")
    /\ IF SamePolicy(c) /\ MayBind(log)
       THEN call' = [call EXCEPT ![c].at = call[c].chain.stage, ![c].cursor = Derived(log)]
       ELSE Returns(c)
    /\ UNCHANGED <<log, budget>>

----------------------------------------------------------------------------
(* The start of a run: two events, each conditional on the whole ledger.   *)

\* startMountedResidentSpecialistRun.  That no other run of the task has
\* started is not looked at again.
StartRun(c) ==
    /\ Is(c, "start")
    /\ IF SamePolicy(c) /\ TaskStatus(log) = "queued" /\ TaskRun(log) = "none"
            /\ RunState(log, call[c].run) = "absent"
       THEN ProceedsKnowing(c, "starting")
       ELSE Returns(c)
    /\ UNCHANGED <<log, budget>>

\* Mutated form of AppendStarted: the event is appended whatever came before.
AppendStartedAnyway(c) ==
    /\ Is(c, "starting")
    /\ log' = Append(log, RunStarted(call[c].run))
    /\ Proceeds(c, "entering")
    /\ UNCHANGED budget

AppendStarted(c) ==
    /\ Is(c, "starting")
    /\ AppendsOr(c, RunStarted(call[c].run), "entering")
    /\ UNCHANGED budget

\* The task is to become running: read after the start, and by
\* ensureResumedMountedTaskRunning, which is content if it is running.
EnterTask(c) ==
    LET run == call[c].run IN
    /\ Is(c, "entering") \/ Is(c, "resume")
    /\ IF ~SamePolicy(c) \/ RunState(log, run) # "running" THEN Returns(c)
       ELSE IF TaskStatus(log) = "queued" THEN ProceedsKnowing(c, "entered")
       ELSE IF Is(c, "resume") /\ TaskStatus(log) = "running" /\ TaskRun(log) = run
       THEN Proceeds(c, "prompting")
       ELSE Returns(c)
    /\ UNCHANGED <<log, budget>>

AppendRunning(c) ==
    /\ Is(c, "entered")
    /\ AppendsOr(c, TaskRunning(call[c].run), "prompting")
    /\ UNCHANGED budget

----------------------------------------------------------------------------
(* The gate (mounted-task-effect-coordination.ts): who is inside writes an  *)
(* artifact, or cancels.                                                   *)

Gated == {"storing", "prompting", "publishing", "sealing", "canceling"}

Inside(c) == call[c].op = "mounted" /\ call[c].inside

\* What must hold when a write begins, and when it has been made: the fence,
\* and for the stores of the handoff that the cursor goes on.
MayWrite(c) ==
    LET run == call[c].run IN
    CASE call[c].at = "storing" -> SamePolicy(c) /\ Untouched(log)
      [] call[c].at = "prompting" ->
            SamePolicy(c) /\ EffectAllowed(log, run, {"running"}, {"running"})
      [] call[c].at \in {"publishing", "sealing"} ->
            /\ EffectAllowed(log, run, {"running", "completed"}, {"running", "completed"})
            /\ Now(c).phase # "burned"
      [] call[c].at = "canceling" -> TRUE

\* Where the call goes from its write.
AfterWrite(k) ==
    CASE k.at = "storing" -> "admitting"
      [] k.at = "prompting" /\ k.run = "remote" -> "asking"
      [] k.at = "prompting" /\ k.run = "local" -> "model"
      [] k.at \in {"publishing", "sealing"} -> "stage"

\* The workflow's derivatives and the kernel's material come before its final
\* output, the manifest before its first recording.
StageAfter(k) ==
    IF k.at = "publishing" THEN [stage |-> "final"] ELSE k.chain

EnterGate(c) ==
    /\ call[c].op = "mounted" /\ call[c].at \in Gated /\ ~call[c].inside
    /\ \A d \in Caller : ~Inside(d)
    /\ IF ~MayWrite(c) THEN Returns(c)
       ELSE IF call[c].at \in {"publishing", "sealing"}
       THEN call' = [call EXCEPT ![c].inside = TRUE, ![c].cursor = Now(c)]
       ELSE IF call[c].at = "canceling"
       THEN call' = [call EXCEPT ![c].inside = TRUE, ![c].base = Len(log)]
       ELSE call' = [call EXCEPT ![c].inside = TRUE]
    /\ UNCHANGED <<log, budget>>

\* The write is made; what it depends on is looked at once more.
LeaveGate(c) ==
    LET k == call[c] IN
    /\ Inside(c) /\ k.at # "canceling"
    /\ IF MayWrite(c)
       THEN call' = [call EXCEPT ![c].inside = FALSE, ![c].at = AfterWrite(k),
                                 ![c].chain = StageAfter(k)]
       ELSE Returns(c)
    /\ UNCHANGED <<log, budget>>

\* A store that fails the workflow's derivatives: the run hands over that it
\* failed, if the next writes succeed.
FailStore(c) ==
    /\ Is(c, "publishing") /\ Inside(c) /\ call[c].text = Triaged
    /\ budget["fault"] > 0
    /\ budget' = [budget EXCEPT !["fault"] = @ - 1]
    /\ call' = [call EXCEPT ![c].inside = FALSE, ![c].text = Unpublished]
    /\ UNCHANGED log

\* Whether a task may be canceled is decided before the gate.
AskCancel(c) ==
    /\ Makes(c, "withdraw")
    /\ TaskStatus(log) \in {"queued", "running", "waiting"}
    /\ call' = [call EXCEPT ![c] = Execution("none", "canceling")]
    /\ UNCHANGED log

CancelMounted(c) ==
    /\ Is(c, "canceling") /\ Inside(c)
    /\ AppendsLast(c, TaskCanceled)
    /\ UNCHANGED budget

----------------------------------------------------------------------------
(* The model of the local run, which is deterministic: an invocation that  *)
(* was begun is replayed.                                                  *)

\* revalidatingMountedRuntime, replayMountedLocalFakeInvocation
InvokeModel(c) ==
    /\ Is(c, "model")
    /\ IF ~(SamePolicy(c) /\ EffectAllowed(log, "local", {"running"}, {"running"}))
       THEN Returns(c)
       ELSE IF OfType(log, "answered") # {} THEN Proceeds(c, "publishing")
       ELSE IF OfType(log, "invoked") # {}
       THEN call' = [call EXCEPT ![c].at = "fence", ![c].chain = [stage |-> "answered"],
                                 ![c].expected = 1]
       ELSE Proceeds(c, "invoking")
    /\ UNCHANGED <<log, budget>>

\* invokeModel of the runtime appends on the invocation's stream, and fences
\* nothing.
AppendInvoked(c) ==
    /\ Is(c, "invoking")
    /\ IF OfType(log, "invoked") = {}
       THEN log' = Append(log, Invoked) /\ Proceeds(c, "answering")
       ELSE UNCHANGED log /\ Returns(c)
    /\ UNCHANGED budget

AppendAnswered(c) ==
    /\ Is(c, "answering")
    /\ IF OfType(log, "answered") = {}
       THEN log' = Append(log, Answered) /\ Proceeds(c, "answered")
       ELSE UNCHANGED log /\ Returns(c)
    /\ UNCHANGED budget

ReturnAnswer(c) ==
    /\ Is(c, "answered")
    /\ IF SamePolicy(c) /\ EffectAllowed(log, "local", {"running"}, {"running"})
       THEN Proceeds(c, "publishing") ELSE Returns(c)
    /\ UNCHANGED <<log, budget>>

----------------------------------------------------------------------------
(* The stages of the chain: the cursor is inspected and the stream read;    *)
(* the fence is read; the event is appended if neither the stream nor the   *)
(* ledger has grown.                                                       *)

EventOf(k) ==
    CASE k.chain.stage = "answered" -> Answered
      [] k.chain.stage = "final" -> FinalOutput(k.text, 0)
      [] OTHER -> StageEvent(k.chain.stage, k.chain.binding, k.chain.cause)

ConflictsWith(k, event) ==
    IF k.chain.stage = "final"
    THEN {i \in OfType(log, "final") : log[i] # event}
    ELSE Rivals(log, k.chain.binding, event)

\* The call, once the event of its stage is event id of the ledger.
Beyond(k, id) ==
    LET n == CHOOSE i \in DOMAIN Chain : Chain[i] = k.chain.stage IN
    CASE k.chain.stage = "answered" -> [k EXCEPT !.at = "publishing"]
      [] k.chain.stage = "final" ->
            [k EXCEPT !.at = "sealing", !.chain = At("prepared",
                [final |-> id, revision |-> 1, supersedes |-> 0, bound |-> TRUE], id)]
      [] k.chain.stage = "status" -> [k EXCEPT !.at = "consume"]
      [] OTHER ->
            [k EXCEPT !.at = "stage", !.chain = At(Chain[n + 1], k.chain.binding, id)]

\* A handoff that is recorded already is not recorded by this recorder again.
ReadMountedStage(c) ==
    LET k == call[c]
        event == EventOf(k)
        exact == Exact(log, event)
    IN
    /\ Is(c, "stage")
    /\ IF Now(c).phase = "burned" \/ ~SamePolicy(c) \/ ConflictsWith(k, event) # {}
            \/ (k.chain.stage = "prepared" /\ OfType(log, "recorded") # {})
       THEN Returns(c)
       ELSE call' = [call EXCEPT ![c] =
            [(IF exact # {} THEN Beyond(k, CHOOSE i \in exact : TRUE)
              ELSE [k EXCEPT !.at = "fence", !.expected = StreamLength(log, event.stream)])
                EXCEPT !.cursor = Now(c)]]
    /\ UNCHANGED <<log, budget>>

\* revalidatingMountedLedger.append: the fence
ReadFence(c) ==
    /\ Is(c, "fence")
    /\ IF SamePolicy(c) /\ EffectAllowed(log, "local", {"running"}, {"running", "completed"})
       THEN ProceedsKnowing(c, "append")
       ELSE Returns(c)
    /\ UNCHANGED <<log, budget>>

\* Refused, it goes on from an exact copy of its event, if the stage is the
\* kernel's (appendWithExactRaceRecovery) and nothing conflicts.
AppendStage(c) ==
    LET k == call[c]
        event == EventOf(k)
        exact == Exact(log, event)
    IN
    /\ Is(c, "append")
    /\ IF k.base = Len(log) /\ k.expected = StreamLength(log, event.stream)
       THEN /\ log' = Append(log, event)
            /\ call' = [call EXCEPT ![c] = Beyond(k, Len(log) + 1)]
       ELSE /\ UNCHANGED log
            /\ IF k.chain.stage # "answered" /\ exact # {} /\ ConflictsWith(k, event) = {}
               THEN call' = [call EXCEPT ![c] = Beyond(k, CHOOSE i \in exact : TRUE)]
               ELSE Returns(c)
    /\ UNCHANGED budget

\* recoverAuthorityBoundSpecialistHandoffTerminalSuffix, under an authority
RecoverMounted(c) ==
    /\ Is(c, "recover")
    /\ IF Now(c).phase # "burned" /\ Recoverable(log)
       THEN call' = [call EXCEPT ![c].at = "stage", ![c].chain = Suffix(log)]
       ELSE Returns(c)
    /\ UNCHANGED <<log, budget>>

\* consumeMountedHandoffAuthorityController: the cursor is at the end.
ConsumeHandoff(c) ==
    /\ Is(c, "consume")
    /\ IF Now(c).phase = "status" THEN Proceeds(c, "remember") ELSE Returns(c)
    /\ UNCHANGED <<log, budget>>

\* appendMountedCompletionMemory: one memory, of what is completed.
ReadMemory(c) ==
    /\ Is(c, "remember")
    /\ IF SamePolicy(c) /\ OfType(log, "completion-memory") = {}
       THEN ProceedsKnowing(c, "remembering")
       ELSE Returns(c)
    /\ UNCHANGED <<log, budget>>

AppendMemory(c) ==
    /\ Is(c, "remembering")
    /\ IF EffectAllowed(log, "local", {"completed"}, {"completed"})
       THEN AppendsLast(c, CompletionMemory)
       ELSE Returns(c) /\ UNCHANGED log
    /\ UNCHANGED budget

----------------------------------------------------------------------------
(* A remote run waits for a person's approval of the transfer.             *)

\* suspendMountedTaskForRemoteApproval
AskTransfer(c) ==
    /\ Is(c, "asking")
    /\ IF SamePolicy(c)
       THEN log' = Append(log, TransferRequested) /\ Proceeds(c, "suspending")
       ELSE Returns(c) /\ UNCHANGED log
    /\ UNCHANGED budget

\* The status is appended on the task's stream alone: a call of its own here,
\* whose expected sequence is read first.
SuspendTask(c) ==
    /\ Is(c, "suspending")
    /\ IF SamePolicy(c)
       THEN call' = [call EXCEPT ![c] = ExpectsSequence(TaskWaiting("remote"))]
       ELSE Returns(c)
    /\ UNCHANGED <<log, budget>>

\* What is appended beside: by others, and by a change of policy.
ChangePolicy(c) == Interfere(c, "policy", PolicyChanged)

AppendElsewhere(c) == Interfere(c, "elsewhere", Elsewhere)

MountedNext(c) ==
    \/ \E run \in Run : RequestRun(c, run)
    \/ AppendAdmission(c)
    \/ TakeUp(c) \/ FindStale(c) \/ DiagnoseStale(c)
    \/ Examine(c) \/ BindHandoff(c)
    \/ StartRun(c) \/ AppendStarted(c) \/ EnterTask(c) \/ AppendRunning(c)
    \/ EnterGate(c) \/ LeaveGate(c) \/ FailStore(c)
    \/ AskCancel(c) \/ CancelMounted(c)
    \/ InvokeModel(c) \/ AppendInvoked(c) \/ AppendAnswered(c) \/ ReturnAnswer(c)
    \/ ReadMountedStage(c) \/ ReadFence(c) \/ AppendStage(c) \/ RecoverMounted(c)
    \/ ConsumeHandoff(c) \/ ReadMemory(c) \/ AppendMemory(c)
    \/ AskTransfer(c) \/ SuspendTask(c)
    \/ ChangePolicy(c) \/ AppendElsewhere(c)

----------------------------------------------------------------------------
(* Properties.                                                             *)

\* While an artifact of the task is being written, the task is not canceled.
NoWriteAfterCancel ==
    \A c \in Caller : Inside(c) /\ call[c].at # "canceling" => TaskStatus(log) # "canceled"

\* A canceled task goes no further: what a call had under way may end a model's
\* invocation or ask for a transfer, but begins, hands over and concludes
\* nothing.
CancellationHolds ==
    \A i \in OfType(log, "status"), j \in DOMAIN log :
        log[i].status = "canceled" /\ i < j /\ OfType(log, "task-admitted") # {} =>
            \/ ~IsBound(log[j]) \/ log[j] = TaskCanceled
            \/ log[j].type \in {"invoked", "answered", "transfer-requested", "task-waiting"}

\* A local run is concluded by executions that saw every event: its handoff was
\* recorded right after it was prepared.
RecordedAtOnce ==
    OfType(log, "task-admitted") # {} /\ OfType(log, "terminal") # {} =>
        \A i \in OfType(log, "recorded") : log[i].cause = i - 1

\* Completion is remembered once, of a task that is completed.
CompletionIsRememberedOnce ==
    /\ Cardinality(OfType(log, "completion-memory")) <= 1
    /\ \A i \in OfType(log, "completion-memory") :
        TaskStatus(Prefix(log, i)) = "completed" /\ RunState(Prefix(log, i), "local") = "completed"

\* A task that is left running by its local run is taken up again, and an
\* authority for it is issued, but for four causes: the handoff was prepared
\* and the run not ended, the run failed, the policy changed, or a remote run of
\* the task was admitted too.
InterruptionIsRecoverable ==
    TaskStatus(log) = "running" /\ TaskRun(log) = "local" =>
        \/ Pending(log) /\ MayBind(log)
        \/ OfType(log, "prepared") # {} /\ OfType(log, "terminal") = {}
        \/ RunState(log, "local") = "failed"
        \/ ~AdmittedNow(log, "local")
        \/ Admissions(log, "remote") # {}

\* What is canceled stays so, and what is remembered as completed was.
EndingIsSound ==
    NoWriteAfterCancel /\ CancellationHolds /\ CompletionIsRememberedOnce

\* The execution of a mounted task ends where its cancellation, its authority
\* and its admission leave it.
MountedTaskIsSound == EndingIsSound /\ RecordedAtOnce /\ InterruptionIsRecoverable
=============================================================================
