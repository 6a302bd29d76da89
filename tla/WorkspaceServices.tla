------------------------- MODULE WorkspaceServices -------------------------
(***************************************************************************)
(* The services of a workspace that write what the agent and its operator  *)
(* decide: correspondence, memories, triggers, knowledge, the handoffs of  *)
(* specialist runs and the resident loop, on one ledger; and the rebuild of *)
(* projections from it.  Each caller is in the middle of at most one call, of *)
(* any service.                                                            *)
(***************************************************************************)
EXTENDS Correspondence, MemorySupersession, ProactiveTriggers,
        KnowledgeDecisions, ProjectionRebuild, ResidentLoop, MountedTask

recordVars == <<log, call, budget>>
vars == <<recordVars, correspondenceVars, abandoned, rebuildVars>>

Init ==
    /\ RecordInit
    /\ CorrespondenceInit /\ MemoryInit /\ RebuildInit

CallSteps(c) ==
    \/ CorrespondenceNext(c) /\ UNCHANGED <<abandoned, rebuildVars>>
    \/ MemoryNext(c) /\ UNCHANGED <<correspondenceVars, rebuildVars>>
    \/ TriggerNext(c) /\ UNCHANGED <<correspondenceVars, abandoned, rebuildVars>>
    \/ KnowledgeNext(c) /\ UNCHANGED <<correspondenceVars, abandoned, rebuildVars>>
    \/ HandoffNext(c) /\ UNCHANGED <<correspondenceVars, abandoned, rebuildVars>>
    \/ MountedNext(c) /\ UNCHANGED <<correspondenceVars, abandoned, rebuildVars>>
    \/ LoopNext(c) /\ UNCHANGED <<correspondenceVars, abandoned, rebuildVars>>
    \/ RebuildNext(c) /\ UNCHANGED <<correspondenceVars, abandoned>>
    \/ SendLetter(c) /\ UNCHANGED <<abandoned, rebuildVars>>
    \/ DieWithLetter(c) /\ DieWithMemory(c) /\ UNCHANGED rebuildVars

Next == \E c \in Caller : CallSteps(c)

Spec == Init /\ [][Next]_vars

----------------------------------------------------------------------------
\* Streams of the task, its runs and what goes on beside them.
RunStreams ==
    {RunStream, AttemptStream, TaskStream, LoopStream, ToolStream, EffectStream,
     StreamOf("remote"), InvocationStream, TransferStream} \union ElsewhereStream
        \union {AdmissionStream(run) : run \in Run}

ServiceStreams ==
    {DecisionStream, MountStream} \union RunStreams
        \union {MemoryStream(m) : m \in Memory}
        \union {TriggerStream(g) : g \in Gate}

Streams == Request \union ServiceStreams

\* A request is named by its id, and no other stream by a request's; the callers
\* of a behaviour are as many as it has calls.
ASSUME WorkspaceAssumption ==
    /\ Request \intersect ServiceStreams = {}
    /\ IsFiniteSet(Caller)

MemoryTypes == {"remembered", "retracted", "superseded"}

\* Types of events that other parts of the workspace have no use for.
ServiceTypes ==
    {"created", "acknowledged", "closed", "mount", "requested", "proposed", "bound",
     "reviewed"} \union Kind \union MemoryTypes

KnowledgeEvent ==
    {Event("proposed", p) : p \in Claim}
        \union {BindingEvent(p, e) : p \in {q \in Claim : IsEntity(q)}, e \in Entity}
        \union {VerdictEvent(r) : r \in Review}

\* An event lies in the stream of what it is about.
WellFormed(e) ==
    \/ e.type \in {"created", "acknowledged", "closed"} /\ e.stream \in Request
    \/ e.type \in Kind /\ e.stream \in Request /\ e.letter \in Letter
    \/ e.type \in MemoryTypes /\ \E m \in Memory, o \in Memory \union {NoMemory} :
        e = MemoryEvent(e.type, m, o)
    \/ e.type = "mount" /\ e.stream = MountStream
    \/ /\ e.type = "requested" /\ e.signal \in Signal /\ e.at \in Time
       /\ e.gate = GateOf[e.signal] /\ e.stream = TriggerStream(e.gate)
    \/ e.type \in {"proposed", "bound", "reviewed"} /\ e \in KnowledgeEvent
    \/ e.type \notin ServiceTypes /\ e.stream \in RunStreams

\* Types of events of loops and of what they do.
LoopTypes ==
    LoopRecord \union ToolRecord \union
        {"recovery", "loop-result", "asserted", "effect", "claimed",
         "checkpoint", "suspended", "resumable", "released"}

\* A ledger that a behaviour may start from: whatever the other services left,
\* decisions and handoffs included, but no letter, no request of a trigger, no
\* supersession and nothing of a loop but the claim it starts from.
StartLedger(s) ==
    /\ s \in Seq({s[i] : i \in DOMAIN s})
    /\ \A i \in DOMAIN s : WellFormed(s[i])
    /\ \A i \in DOMAIN s : s[i].type \notin Kind \union {"requested", "superseded"}
    /\ \A i \in DOMAIN s : s[i].type \in MemoryTypes => s[i].other = NoMemory
    /\ \A i \in OfType(s, "remembered") : i \in First(InStream(s, s[i].stream))
    /\ TypesAgree(s) /\ LivesAreOne(s)
    /\ ChainsAreWhole(s)
    /\ \A i \in DOMAIN s : s[i].type \in LoopTypes => s[i].type = "claimed" /\ s[i].cause = 0

\* Calls that begin something with a mounted task, and calls of others that work
\* on its run.
MountedCalls == {"admit", "take", "withdraw"}
RivalCalls == {"output", "record", "finalize", "recover", "step", "fail", "cancel",
               "loop", "sign"}

\* A scenario with mounted executions leaves the run to them, from before the
\* task is canceled or its completion remembered.  Other services go on beside.
MountedRunsAlone(s) ==
    LET Admitted == OfType(s.log, "task-admitted")
        Canceled == {i \in OfType(s.log, "status") : s.log[i].status = "canceled"}
    IN
    /\ s.calls \in [DOMAIN s.calls -> Nat]
    /\ MountedCalls \union RivalCalls \subseteq DOMAIN s.calls
    /\ OfType(s.log, "completion-memory") = {}
    /\ \/ Admitted = {} /\ \A op \in MountedCalls : s.calls[op] = 0
       \/ Canceled = {} /\ \A op \in RivalCalls : s.calls[op] = 0

ASSUME ScenariosAssumption == \A s \in Scenarios : StartLedger(s.log)

Ops == {"idle", "send", "mail", "mailed", "retract", "replace", "replaced",
        "superseding", "undo", "undoing", "evaluate", "request", "decide",
        "reach", "extend", "loop", "mounted"}
        \union Rebuilding

\* Events are of known streams, every call is at a step that some action takes
\* further, and deliveries are counted.
TypeOK ==
    /\ \A i \in DOMAIN log : log[i].stream \in Streams
    /\ \A c \in Caller : call[c].op \in Ops
    /\ \A c \in Caller : call[c].op \in {"superseding", "undoing", "request", "send", "extend"} =>
        call[c].event.stream \in Streams
    /\ mailed \in [Mail -> Nat] /\ unrecorded \in [Mail -> Nat]
    /\ abandoned \subseteq Memory
    /\ temp \in [RebuildId -> Directory] /\ final \in Directory

\* Calls and files of the workspace are what the services make of them.
WorkspaceIsSound ==
    /\ TypeOK
    /\ PromotedIsWhole
=============================================================================
