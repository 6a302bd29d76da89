------------------------- MODULE SpecialistHandoff -------------------------
(***************************************************************************)
(* How the result of one specialist run becomes durable                    *)
(* (packages/agent/src/specialist-runner-kernel.ts): a chain of events,     *)
(* each naming the one before it,                                          *)
(*                                                                         *)
(*     final -> prepared -> recorded -> terminal -> orchestrated -> status  *)
(*                                                                         *)
(* appended one at a time on three streams by whoever works on the run: the *)
(* workflow, its retry, another runner.  An append is conditional on the   *)
(* stream as read; refused, it reads again and goes on from an exact copy   *)
(* somebody else appended, or throws.  A handoff is of the authority-bound  *)
(* family, whose recorder goes on to the end of the chain by itself, or of  *)
(* the legacy one, whose run is ended by finalizeSpecialistRunAfterHandoff. *)
(* A recorded handoff can be superseded by one that says the same otherwise.*)
(*                                                                         *)
(* Artifacts are content addressed: a manifest is a function of the final   *)
(* output it is built from, so equal bindings stand for equal bytes.       *)
(***************************************************************************)
EXTENDS RecordLog

CONSTANTS
    Text,       \* what a handoff can say
    AnchorOf    \* the part of it that a supersession must keep: its status
                \* and its outputs

ASSUME TextAssumption ==
    \A t \in Text : AnchorOf[t].status \in {"ready", "suspended", "failed"}

RunStream == <<"run">>
AttemptStream == <<"attempt">>
TaskStream == <<"task">>

Chain == <<"prepared", "recorded", "terminal", "orchestrated", "status">>

\* supersedes is the id of a recorded handoff, or 0.
FinalOutput(text, supersedes) ==
    [type |-> "final", stream |-> RunStream, text |-> text, supersedes |-> supersedes]

\* A result that leads to a failed run, or to a completed one.
OutcomeOf(s, final) ==
    IF AnchorOf[s[final].text].status = "failed" THEN "failed" ELSE "completed"

Anchor(s, recorded) == AnchorOf[s[s[recorded].binding.final].text]

\* The event of a stage, caused by the event with id cause.
StageEvent(stage, binding, cause) ==
    CASE stage = "prepared" ->
            [type |-> stage, stream |-> RunStream, binding |-> binding]
      [] stage = "recorded" ->
            [type |-> stage, stream |-> RunStream, binding |-> binding, cause |-> cause]
      [] stage = "terminal" ->
            [type |-> stage, stream |-> RunStream, cause |-> cause,
             status |-> OutcomeOf(log, binding.final)]
      [] stage = "orchestrated" ->
            [type |-> stage, stream |-> AttemptStream, cause |-> cause]
      [] stage = "status" ->
            [type |-> stage, stream |-> TaskStream, cause |-> cause,
             status |-> OutcomeOf(log, binding.final)]

----------------------------------------------------------------------------
(* What the projection of the run makes of the ledger.                     *)

Superseded(s) == {s[i].binding.supersedes : i \in OfType(s, "recorded")}

\* A second final output supersedes a recorded handoff and keeps its anchor.
ConflictingFinals(s) ==
    \E f \in First(OfType(s, "final")), g \in OfType(s, "final") :
        /\ s[g] # s[f]
        /\ ~ /\ s[g].supersedes \in OfType(s, "recorded")
             /\ Anchor(s, s[g].supersedes) = AnchorOf[s[g].text]

Identity(b) == <<b.final, b.revision, b.supersedes>>

ConflictingPrepared(s) ==
    \E i, j \in OfType(s, "prepared") :
        s[i] # s[j] /\ Identity(s[i].binding) = Identity(s[j].binding)

BrokenSupersession(s) ==
    \E i \in OfType(s, "recorded") :
        LET b == s[i].binding IN
        IF b.supersedes = 0 THEN b.revision > 1
        ELSE ~ /\ b.supersedes \in OfType(s, "recorded") /\ b.supersedes < i
               /\ b.revision = s[b.supersedes].binding.revision + 1
               /\ Anchor(s, b.supersedes) = Anchor(s, i)

\* The run ends because of the last handoff recorded before, as it says; only
\* a run that fails before any output needs no handoff.
MisplacedTerminal(s) ==
    \E t \in OfType(s, "terminal") :
        LET before == Latest({i \in OfType(s, "recorded") : i < t}) IN
        /\ s[t].status = "failed" => OfType(s, "recorded") \union OfType(s, "final") # {}
        /\ ~ \E i \in before : /\ s[t].cause = i
                               /\ s[t].status = OutcomeOf(s, s[i].binding.final)

Diagnosed(s) ==
    \/ ConflictingFinals(s) \/ ConflictingPrepared(s)
    \/ BrokenSupersession(s) \/ MisplacedTerminal(s)

Selectable(s, family) ==
    Latest({i \in OfType(s, "recorded") \ Superseded(s) : s[i].binding.bound = family})

Selected(s) ==
    IF Selectable(s, TRUE) # {} THEN Selectable(s, TRUE) ELSE Selectable(s, FALSE)

----------------------------------------------------------------------------
(* Stages.  A call at a stage holds the binding it is for and the id of the *)
(* event the stage's event is caused by.                                   *)

At(stage, binding, cause) ==
    [op |-> "reach", stage |-> stage, binding |-> binding, cause |-> cause]

\* The legacy recorder returns once the handoff is recorded, and the finalizer
\* once the run is terminal.
LastStage(stage, binding) == ~binding.bound /\ stage \in {"recorded", "terminal"}

\* The stage's event is event id of the ledger: what the call does next.
Passed(k, id) ==
    LET n == CHOOSE i \in DOMAIN Chain : Chain[i] = k.stage IN
    IF LastStage(k.stage, k.binding) \/ n = Len(Chain) THEN Idle
    ELSE At(Chain[n + 1], k.binding, id)

Exact(s, event) == {i \in DOMAIN s : s[i] = event}

\* Two handoffs of one run conflict, unless the one at hand supersedes and is
\* another one; a task's statuses conflict when they have other causes.
Rivals(s, binding, event) ==
    {i \in OfType(s, event.type) :
        /\ s[i] # event
        /\ CASE event.type \in {"prepared", "recorded"} ->
                  binding.bound \/ binding.supersedes = 0
                  \/ Identity(s[i].binding) = Identity(binding)
             [] event.type = "status" -> s[i].cause # event.cause
             [] OTHER -> TRUE}

Appending(k, event) ==
    [op |-> "extend", stage |-> k.stage, binding |-> k.binding, cause |-> k.cause,
     event |-> event, expected |-> StreamLength(log, event.stream) + 1, global |-> 0]

\* What a call that has read the stream does: it reuses, throws or appends.
\* An exact prepared or recorded handoff is reused whatever else is there.
Decision(k) ==
    LET event == StageEvent(k.stage, k.binding, k.cause)
        exact == Exact(log, event)
        rivals == Rivals(log, k.binding, event)
    IN
    IF exact # {} /\ (rivals = {} \/ k.stage \in {"prepared", "recorded"})
    THEN Passed(k, CHOOSE i \in exact : TRUE)
    ELSE IF rivals # {} THEN Idle
    ELSE Appending(k, event)

----------------------------------------------------------------------------
(* The operations.                                                         *)

\* appendSpecialistFinalOutputStep.  An output that supersedes names the last
\* recorded handoff and keeps its anchor; no other output may be there but the
\* one of the handoff it supersedes.
AppendFinalOutput(c, text, supersedes) ==
    LET prior == Latest(OfType(log, "recorded")) IN
    /\ Makes(c, "output")
    /\ supersedes # 0 => supersedes \in prior /\ Anchor(log, supersedes) = AnchorOf[text]
    /\ \A f \in OfType(log, "final") :
        supersedes # 0 /\ f = log[supersedes].binding.final
    /\ call' = [call EXCEPT ![c] = ExpectsSequence(FinalOutput(text, supersedes))]
    /\ UNCHANGED log

\* Final outputs whose material no recorded handoff carries.
Eligible ==
    {f \in OfType(log, "final") :
        \A i \in OfType(log, "recorded") : log[log[i].binding.final] # log[f]}

RevisionAfter(s, prior) == IF prior = 0 THEN 1 ELSE s[prior].binding.revision + 1

\* recordSpecialistHandoff and recordAuthorityBoundSpecialistHandoff, for the
\* one output there is to record.
RecordHandoff(c, bound) ==
    /\ Makes(c, "record")
    /\ \E f \in Eligible :
        LET prior == log[f].supersedes IN
        /\ Eligible = {f}
        /\ prior = 0 => OfType(log, "recorded") = {}
        /\ call' = [call EXCEPT ![c] = Decision(At("prepared",
            [final |-> f, revision |-> RevisionAfter(log, prior), supersedes |-> prior,
             bound |-> bound], f))]
    /\ UNCHANGED log

\* finalizeSpecialistRunAfterHandoff: the handoff is the one the projection
\* selects.  The stream is read again for the append.
FinalizeRun(c) ==
    /\ Makes(c, "finalize")
    /\ ~Diagnosed(log)
    /\ \E i \in Selected(log) :
        /\ ~log[i].binding.bound
        /\ call' = [call EXCEPT ![c] = At("terminal", log[i].binding, i)]
    /\ UNCHANGED log

\* A chain that got as far as a completed run, and no further than it should.
Recoverable(s) ==
    LET recorded == OfType(s, "recorded")
        terminal == OfType(s, "terminal")
        ends == OfType(s, "status")
    IN
    /\ \A type \in {"prepared", "recorded", "terminal"} : Cardinality(OfType(s, type)) = 1
    /\ \A i \in recorded, t \in terminal :
        /\ s[i].binding.bound /\ AnchorOf[s[s[i].binding.final].text].status = "ready"
        /\ s[t].cause = i /\ s[t].status = "completed"
    /\ Cardinality(ends) <= 1
    /\ \A e \in ends : s[e].cause \in OfType(s, "orchestrated")

\* What there is left to append of such a chain.
Suffix(s) ==
    LET i == CHOOSE i \in OfType(s, "recorded") : TRUE
        t == CHOOSE t \in OfType(s, "terminal") : TRUE
    IN At("orchestrated", s[i].binding, t)

\* recoverAuthorityBoundSpecialistHandoffTerminalSuffix
RecoverSuffix(c) ==
    /\ Makes(c, "recover")
    /\ Recoverable(log)
    /\ call' = [call EXCEPT ![c] = Suffix(log)]
    /\ UNCHANGED log

\* The stream is read for the next stage.  Before it records, the legacy
\* recorder wants a projection that nothing is wrong with.
ReachStage(c) ==
    LET k == call[c] IN
    /\ k.op = "reach"
    /\ call' = [call EXCEPT ![c] =
            IF k.stage = "recorded" /\ ~k.binding.bound /\ Diagnosed(log)
                /\ Exact(log, StageEvent(k.stage, k.binding, k.cause)) = {}
            THEN Idle ELSE Decision(k)]
    /\ UNCHANGED <<log, budget>>

\* Mutated form of ExtendChain: refused, it goes on with its own event all the
\* same, at the end of the stream.
ExtendAnyway(c) ==
    LET k == call[c] IN
    /\ k.op = "extend"
    /\ log' = Append(log, k.event)
    /\ call' = [call EXCEPT ![c] = Passed(k, Len(log) + 1)]
    /\ UNCHANGED budget

\* appendWithExactRaceRecovery: refused, it reads again and goes on from an
\* exact copy of its event, when there is one and nothing conflicts.
ExtendChain(c) ==
    LET k == call[c]
        copies == Exact(log, k.event)
    IN
    /\ k.op = "extend"
    /\ IF Holds(c)
       THEN /\ log' = Append(log, k.event)
            /\ call' = [call EXCEPT ![c] = Passed(k, Len(log) + 1)]
       ELSE /\ call' = [call EXCEPT ![c] =
                    IF copies # {} /\ Rivals(log, k.binding, k.event) = {}
                    THEN Passed(k, CHOOSE i \in copies : TRUE) ELSE Idle]
            /\ UNCHANGED log
    /\ UNCHANGED budget

\* Events appended on no condition: a derivative step, the failure of a runner
\* on its own account, and a person's cancellation of the task.
Interfere(c, op, event) ==
    /\ Makes(c, op)
    /\ log' = Append(log, event)
    /\ UNCHANGED call

AppendStep(c) == Interfere(c, "step", [type |-> "step", stream |-> RunStream])

AppendFailure(c) ==
    Interfere(c, "fail", [type |-> "terminal", stream |-> RunStream, cause |-> 0,
                          status |-> "failed"])

CancelTask(c) ==
    Interfere(c, "cancel", [type |-> "status", stream |-> TaskStream, cause |-> 0,
                            status |-> "canceled"])

HandoffNext(c) ==
    \/ \E text \in Text, supersedes \in {0} \union OfType(log, "recorded") :
        AppendFinalOutput(c, text, supersedes)
    \/ \E bound \in BOOLEAN : RecordHandoff(c, bound)
    \/ FinalizeRun(c) \/ RecoverSuffix(c)
    \/ ReachStage(c) \/ ExtendChain(c)
    \/ AppendStep(c) \/ AppendFailure(c) \/ CancelTask(c)

----------------------------------------------------------------------------
(* What recorders leave in a ledger: each event of a chain is of its stream *)
(* and was appended because of one before it.                              *)

\* An output after the first one supersedes the handoff of the one before.
FinalsAreWhole(s) ==
    \A f \in OfType(s, "final") :
        /\ s[f].stream = RunStream
        /\ s[f].supersedes # 0 =>
            /\ s[f].supersedes \in OfType(s, "recorded") /\ s[f].supersedes < f
            /\ Anchor(s, s[f].supersedes) = AnchorOf[s[f].text]
        /\ \A g \in OfType(s, "final") : g < f =>
            s[f].supersedes # 0 /\ g = s[s[f].supersedes].binding.final

\* What a binding says of the output it is for.
Binds(s, b) ==
    /\ b.final \in OfType(s, "final") /\ b.supersedes = s[b.final].supersedes
    /\ b.revision = RevisionAfter(s, b.supersedes)

\* An output is prepared once.
PreparedAreWhole(s) ==
    \A p \in OfType(s, "prepared") :
        /\ s[p].stream = RunStream
        /\ Binds(s, s[p].binding) /\ s[p].binding.final < p
        /\ \A q \in OfType(s, "prepared") :
            Identity(s[p].binding) = Identity(s[q].binding) => p = q

\* A handoff after the first one supersedes and is another one.
RecordedAreWhole(s) ==
    \A i \in OfType(s, "recorded") :
        /\ s[i].stream = RunStream
        /\ s[i].cause \in OfType(s, "prepared") /\ s[i].cause < i
        /\ s[i].binding = s[s[i].cause].binding
        /\ \A j \in OfType(s, "recorded") : i < j =>
            /\ s[j].binding.supersedes # 0
            /\ Identity(s[i].binding) # Identity(s[j].binding)

\* A run was ended by a runner's failure or as a handoff before says.
TerminalsAreWhole(s) ==
    \A t \in OfType(s, "terminal") :
        /\ s[t].stream = RunStream
        /\ s[t].cause # 0 =>
            /\ s[t].cause \in OfType(s, "recorded") /\ s[t].cause < t
            /\ s[t].status = OutcomeOf(s, s[s[t].cause].binding.final)

\* A task goes on after the end of an authority-bound run.
OrchestratedAreWhole(s) ==
    \A o \in OfType(s, "orchestrated") :
        /\ s[o].stream = AttemptStream
        /\ s[o].cause \in OfType(s, "terminal") /\ s[o].cause < o
        /\ s[s[o].cause].cause # 0 /\ s[s[s[o].cause].cause].binding.bound

\* The agent's status of a task is the first that ends it.
StatusesAreWhole(s) ==
    \A e \in OfType(s, "status") :
        /\ s[e].stream = TaskStream
        /\ s[e].cause # 0 =>
            /\ s[e].cause \in OfType(s, "orchestrated") /\ s[e].cause < e
            /\ s[e] = [type |-> "status", stream |-> TaskStream, cause |-> s[e].cause,
                       status |-> s[s[s[e].cause].cause].status]
            /\ \A d \in OfType(s, "status") : d # e => e < d /\ s[d].cause = 0

ChainsAreWhole(s) ==
    /\ FinalsAreWhole(s) /\ PreparedAreWhole(s) /\ RecordedAreWhole(s)
    /\ TerminalsAreWhole(s) /\ OrchestratedAreWhole(s) /\ StatusesAreWhole(s)

----------------------------------------------------------------------------
(* Properties.                                                             *)

\* However many recorders raced, of whichever family, the run has at most one
\* handoff that is not superseded; and what is recorded was prepared, once, from
\* an output that was there before.
OneCurrentHandoff ==
    LET recorded == OfType(log, "recorded") IN
    /\ Cardinality(recorded \ Superseded(log)) <= 1
    /\ \A i, j \in recorded : log[i].cause = log[j].cause => i = j
    /\ \A i \in recorded :
        LET p == log[i].cause IN
        /\ p < i /\ log[p].type = "prepared" /\ log[p].binding = log[i].binding
        /\ log[i].binding.final < p

\* A task is concluded by the agent once, at the end of a whole chain of an
\* authority-bound handoff, and not after a person canceled it.
ConclusionIsEarned ==
    \A e \in OfType(log, "status") : log[e].cause # 0 =>
        LET o == log[e].cause
            t == log[o].cause
            i == log[t].cause
        IN
        /\ log[o].type = "orchestrated" /\ log[t].type = "terminal"
        /\ i # 0 /\ log[i].type = "recorded" /\ log[i].binding.bound
        /\ i < t /\ t < o /\ o < e
        /\ log[e].status = log[t].status
        /\ \A d \in OfType(log, "status") : d # e => e < d /\ log[d].cause = 0

\* What the projection calls inconsistent has one of two causes: a runner that
\* reported its own failure although there is an output, or a handoff that was
\* superseded while its recorder went on to end the run.
InconsistencyIsExplained ==
    Diagnosed(log) =>
        \E t \in OfType(log, "terminal") :
            \/ log[t].cause = 0
            \/ \E i \in OfType(log, "recorded") :
                i < t /\ log[i].binding.supersedes = log[t].cause

\* Recorders of one run end with one handoff, and with the conclusions it earns.
HandoffIsSound ==
    /\ OneCurrentHandoff
    /\ ConclusionIsEarned
    /\ InconsistencyIsExplained
=============================================================================
