------------------------- MODULE DocumentProcessing -------------------------
(***************************************************************************)
(* Sending documents to a provider                                         *)
(* (packages/local-runtime/src/document-processing.ts).  An invocation is  *)
(* previewed, approved by a person and run once; its state is read off its *)
(* stream in the ledger.  Requests handled by several service instances on *)
(* one ledger interleave at every await: run, cancel and approve read,     *)
(* check the current policy, and append conditionally.  The run that gets  *)
(* to append "running" transfers the document and waits for the provider,  *)
(* a cancellation, or its timeout.                                         *)
(***************************************************************************)
EXTENDS Integers, Sequences, SequencesExt

CONSTANTS
    Invocation,   \* ids drawn by previews
    Instance,     \* service instances: server processes, or one restarted
    Call,         \* requests that may be under way together
    InstanceOf,   \* the instance that handles each
    NoInvocation, \* not an invocation
    Bounds        \* what may happen in a behaviour, one chosen at its start: the
                  \* invocations a ledger holds, approved; the ids previews draw, in
                  \* their order; how often the policy changes, others append and
                  \* instances die

ASSUME DocumentAssumption ==
    /\ InstanceOf \in [Call -> Instance]
    /\ NoInvocation \notin Invocation
    /\ Bounds \subseteq [queued : SUBSET Invocation, ids : Seq(Invocation),
                         changes : Nat, others : Nat, crashes : Nat]

VARIABLES
    stream,     \* each invocation's stream: a sequence of kinds
    revision,   \* number of events in the whole ledger, past those it began with
    policy,     \* number of the current policy revision
    public,     \* whether the selection is classified public_safe
    manifest,   \* the policy revision each preview's manifest was built from
    service,    \* each instance: "down", "mounting", "serving" or "closing"
    call,       \* each request being handled
    sent,       \* how often each invocation was transferred to the provider
    answered,   \* invocations the provider answered or refused
    claimed,    \* auxiliary: the policy revision each was claimed under
    left        \* what is left of the bounds

ledger == <<stream, revision, policy, public>>
provider == <<sent, answered>>
vars == <<ledger, manifest, service, call, provider, claimed, left>>

Terminal == {"completed", "failed", "canceled", "uncertain"}

Kind == {"previewed", "approved", "running"} \union Terminal

JobState == {"none", "awaiting_approval", "queued", "running"} \union Terminal

Label == {"idle", "authorize", "revalidate", "approve", "survey",
          "claim", "register", "gate", "recheck", "transfer", "await",
          "publish", "settle", "record"}

(***************************************************************************)
(* A request: what it does, to which invocation, the state it read first,  *)
(* the lengths of the stream and of the ledger it relies on, the state it  *)
(* is about to record, and whether its AbortController was aborted.        *)
(***************************************************************************)
Request ==
    [at : Label, op : {"none", "approve", "run", "cancel", "recover"},
     target : Invocation \union {NoInvocation}, seen : JobState,
     own : Nat, all : Nat,
     outcome : Terminal \union {"none"}, aborted : BOOLEAN]

NoRequest ==
    [at |-> "idle", op |-> "none", target |-> NoInvocation, seen |-> "none",
     own |-> 0, all |-> 0, outcome |-> "none", aborted |-> FALSE]

Init ==
    /\ left \in Bounds
    /\ stream = [v \in Invocation |->
                    IF v \in left.queued THEN <<"previewed", "approved">> ELSE <<>>]
    /\ revision = 0 /\ policy = 0 /\ public = TRUE
    /\ manifest = [v \in Invocation |-> 0]
    /\ service = [i \in Instance |-> "down"]
    /\ call = [c \in Call |-> NoRequest]
    /\ sent = [v \in Invocation |-> 0] /\ answered = {}
    /\ claimed = [v \in Invocation |-> 0]

----------------------------------------------------------------------------
(* What is read from the ledger.                                           *)

\* The last event of a stream decides the state of its job.
After(kind) ==
    CASE kind = "previewed" -> "awaiting_approval"
      [] kind = "approved"  -> "queued"
      [] OTHER              -> kind

State(v) == IF stream[v] = <<>> THEN "none" ELSE After(Last(stream[v]))

\* revalidate: the manifest still is what the selection resolves to.
Current(v) == public /\ policy = manifest[v]

----------------------------------------------------------------------------
(* Moving a request along.                                                 *)

Unmoved == UNCHANGED <<manifest, provider, claimed, left>>

\* What a request has read it has used by then.
At(c, label) ==
    [call[c] EXCEPT !.at = label, !.seen = "none", !.own = 0, !.all = 0]

Goto(c, label) == call' = [call EXCEPT ![c] = At(c, label)]

\* finish(id, state, ...) is called.
Settle(c, state) ==
    call' = [call EXCEPT ![c] =
                [At(c, "settle") EXCEPT !.outcome = state, !.aborted = FALSE]]

\* The request returned or threw.  An instance serves once it has recovered.
Done(c) ==
    /\ call' = [call EXCEPT ![c] = NoRequest]
    /\ service' = IF call[c].op = "recover"
                  THEN [service EXCEPT ![InstanceOf[c]] = "serving"]
                  ELSE service

AppendTo(v, kind) ==
    /\ stream' = [stream EXCEPT ![v] = Append(@, kind)]
    /\ revision' = revision + 1
    /\ UNCHANGED <<policy, public>>

----------------------------------------------------------------------------
(* preview, and the beginning of approve, run and cancel: get reads the    *)
(* job, and answers only if the selection is public_safe before and after  *)
(* an interval in which the ledger did not grow, as if it were one moment. *)

Preview(i, v) ==
    /\ service[i] = "serving" /\ stream[v] = <<>>
    /\ left.ids # <<>> /\ v = Head(left.ids)
    /\ left' = [left EXCEPT !.ids = Tail(@)]
    /\ public
    /\ \E built \in 0..policy : manifest' = [manifest EXCEPT ![v] = built]
    /\ AppendTo(v, "previewed")
    /\ UNCHANGED <<service, call, provider, claimed>>

Begin(c, op, v) ==
    /\ service[InstanceOf[c]] = "serving" /\ call[c].at = "idle"
    /\ stream[v] # <<>>
    /\ call' = [call EXCEPT ![c] = [NoRequest EXCEPT
                    !.at = "authorize", !.op = op, !.target = v, !.seen = State(v)]]
    /\ Unmoved /\ UNCHANGED <<ledger, service>>

\* What approve and run ask of the state they read.
Admitted(c) ==
    \/ call[c].op = "approve" /\ call[c].seen = "awaiting_approval"
    \/ call[c].op = "run" /\ call[c].seen = "queued"

Admit(c) ==
    /\ call[c].at = "authorize"
    /\ \/ public /\ Admitted(c) /\ Goto(c, "revalidate") /\ UNCHANGED service
       \/ call[c].op # "cancel" /\ Done(c)
    /\ Unmoved /\ UNCHANGED ledger

\* approve and run go on only if nothing changed since the preview.
Revalidate(c) ==
    /\ call[c].at = "revalidate"
    /\ IF Current(call[c].target)
       THEN /\ Goto(c, IF call[c].op = "run" THEN "survey" ELSE "approve")
            /\ UNCHANGED service
       ELSE Done(c)
    /\ Unmoved /\ UNCHANGED ledger

\* The approval is the second event of the stream, or is refused.
Approve(c) ==
    /\ call[c].at = "approve"
    /\ IF Len(stream[call[c].target]) = 1
       THEN AppendTo(call[c].target, "approved")
       ELSE UNCHANGED ledger
    /\ Done(c)
    /\ Unmoved

----------------------------------------------------------------------------
(* run: one invocation at a time claims "running"; the append expects the  *)
(* stream and the whole ledger to be as the survey read them.              *)

MayClaim(v) ==
    /\ \A u \in Invocation : State(u) # "running"
    /\ State(v) = "queued"

Survey(c) ==
    /\ call[c].at = "survey"
    /\ IF MayClaim(call[c].target)
       THEN /\ call' = [call EXCEPT ![c].at = "claim", ![c].all = revision,
                                    ![c].own = Len(stream[call[c].target])]
            /\ UNCHANGED service
       ELSE Done(c)
    /\ Unmoved /\ UNCHANGED ledger

ClaimExpected(c) ==
    /\ Len(stream[call[c].target]) = call[c].own
    /\ revision = call[c].all

Claim(c) ==
    /\ call[c].at = "claim"
    /\ IF ClaimExpected(c)
       THEN /\ AppendTo(call[c].target, "running")
            /\ Goto(c, "register")
            /\ claimed' = [claimed EXCEPT ![call[c].target] = policy]
            /\ UNCHANGED service
       ELSE Done(c) /\ UNCHANGED <<ledger, claimed>>
    /\ UNCHANGED <<manifest, provider, left>>

\* The controller and the timer are set up; the provider is invoked.
Register(c) ==
    /\ call[c].at = "register"
    /\ Goto(c, "gate")
    /\ Unmoved /\ UNCHANGED <<ledger, service>>

\* Mutated form of Gate: the manifest is not revalidated before the transfer.
GateUnchecked(c) ==
    /\ call[c].at = "gate"
    /\ Goto(c, "recheck") \/ Settle(c, "failed")
    /\ Unmoved /\ UNCHANGED <<ledger, service>>

\* beforeTransfer revalidates; the provider may also fail before it.
Gate(c) ==
    /\ call[c].at = "gate"
    /\ \/ Current(call[c].target) /\ Goto(c, "recheck")
       \/ Settle(c, "failed")
    /\ Unmoved /\ UNCHANGED <<ledger, service>>

Recheck(c) ==
    /\ call[c].at = "recheck"
    /\ IF State(call[c].target) = "running"
       THEN Goto(c, "transfer") ELSE Settle(c, "failed")
    /\ Unmoved /\ UNCHANGED <<ledger, service>>

Transfer(c) ==
    /\ call[c].at = "transfer" /\ ~call[c].aborted
    /\ Goto(c, "await")
    /\ sent' = [sent EXCEPT ![call[c].target] = @ + 1]
    /\ UNCHANGED <<ledger, manifest, service, answered, claimed, left>>

\* Mutated form of Interrupted: an aborted submission counts as failed.
InterruptedFails(c) ==
    /\ call[c].at \in {"gate", "recheck", "transfer", "await"} /\ call[c].aborted
    /\ Settle(c, "failed")
    /\ Unmoved /\ UNCHANGED <<ledger, service>>

\* The abort signal rejects the wait for the provider, whatever it waits for.
Interrupted(c) ==
    /\ call[c].at \in {"gate", "recheck", "transfer", "await"} /\ call[c].aborted
    /\ Settle(c, IF call[c].at = "await" THEN "uncertain" ELSE "failed")
    /\ Unmoved /\ UNCHANGED <<ledger, service>>

\* The provider's answer: a result to be checked, or a refusal.
Answer(c) ==
    /\ call[c].at = "await" /\ ~call[c].aborted
    /\ Goto(c, "publish") \/ Settle(c, "failed")
    /\ answered' = answered \union {call[c].target}
    /\ UNCHANGED <<ledger, manifest, service, sent, claimed, left>>

\* The connection breaks, or the status leaves open what happened.
Lost(c) ==
    /\ call[c].at = "await"
    /\ Settle(c, "uncertain")
    /\ Unmoved /\ UNCHANGED <<ledger, service>>

\* The result may be invalid; it is published under the current policy only.
\* An abort that comes after the answer is not looked at again.
Publish(c) ==
    /\ call[c].at = "publish"
    /\ \/ Current(call[c].target) /\ Settle(c, "completed")
       \/ Settle(c, "failed")
    /\ Unmoved /\ UNCHANGED <<ledger, service>>

----------------------------------------------------------------------------
(* cancel, the timeout, and the end of an invocation.                      *)

\* Requests whose AbortController is registered for v in c's instance.
Abortable(c, v) ==
    {r \in Call : /\ InstanceOf[r] = InstanceOf[c] /\ call[r].target = v
                  /\ call[r].at \in {"gate", "recheck", "transfer", "await", "publish"}}

Abort(requests) ==
    [r \in Call |-> IF r \in requests THEN [call[r] EXCEPT !.aborted = TRUE]
                    ELSE call[r]]

Cancel(c) ==
    /\ call[c].at = "authorize" /\ call[c].op = "cancel"
    /\ \/ /\ public /\ call[c].seen \notin Terminal
          /\ call' = [Abort(Abortable(c, call[c].target)) EXCEPT ![c] =
                [At(c, "settle") EXCEPT !.outcome = IF call[c].seen = "running"
                                            THEN "uncertain" ELSE "canceled"]]
          /\ UNCHANGED service
       \/ Done(c)
    /\ Unmoved /\ UNCHANGED ledger

Timeout(c) ==
    /\ call[c].at \in {"gate", "recheck", "transfer", "await", "publish"}
    /\ ~call[c].aborted
    /\ call' = Abort({c})
    /\ Unmoved /\ UNCHANGED <<ledger, service>>

\* finish reads the stream and leaves a terminal state alone.
FinishRead(c) ==
    /\ call[c].at = "settle"
    /\ IF State(call[c].target) \in Terminal
       THEN Done(c)
       ELSE /\ call' = [call EXCEPT ![c].at = "record",
                                    ![c].own = Len(stream[call[c].target])]
            /\ UNCHANGED service
    /\ Unmoved /\ UNCHANGED ledger

\* Mutated form of RecordExpected: the stream may have grown.
RecordExpectsNothing(c) == TRUE

RecordExpected(c) == Len(stream[call[c].target]) = call[c].own

\* Its append is refused when another terminal decision came first.
FinishRecord(c) ==
    /\ call[c].at = "record"
    /\ IF RecordExpected(c)
       THEN AppendTo(call[c].target, call[c].outcome)
       ELSE UNCHANGED ledger
    /\ Done(c)
    /\ Unmoved

----------------------------------------------------------------------------
(* Instances, and the rest of the workspace.                               *)

\* Mutated form of Mount: nothing is recovered.
MountOnly(i) ==
    /\ service[i] = "down"
    /\ service' = [service EXCEPT ![i] = "serving"]
    /\ Unmoved /\ UNCHANGED <<ledger, call>>

\* An instance recovers what it finds running before it serves.
Mount(i) ==
    /\ service[i] = "down"
    /\ \/ /\ \A v \in Invocation : State(v) # "running"
          /\ service' = [service EXCEPT ![i] = "serving"]
          /\ UNCHANGED call
       \/ \E v \in Invocation, c \in Call :
            /\ State(v) = "running" /\ InstanceOf[c] = i
            /\ service' = [service EXCEPT ![i] = "mounting"]
            /\ call' = [call EXCEPT ![c] = [NoRequest EXCEPT
                    !.at = "settle", !.op = "recover", !.target = v,
                    !.outcome = "uncertain"]]
    /\ Unmoved /\ UNCHANGED ledger

Close(i) ==
    /\ service[i] = "serving"
    /\ service' = [service EXCEPT ![i] = "closing"]
    /\ call' = Abort({r \in Call : /\ InstanceOf[r] = i
                /\ call[r].at \in {"gate", "recheck", "transfer", "await", "publish"}})
    /\ Unmoved /\ UNCHANGED ledger

\* The ledger is closed under the requests whose clients have gone away.
Closed(i) ==
    /\ service[i] = "closing"
    /\ service' = [service EXCEPT ![i] = "down"]
    /\ call' = [c \in Call |-> IF InstanceOf[c] = i THEN NoRequest ELSE call[c]]
    /\ Unmoved /\ UNCHANGED ledger

Crash(i) ==
    /\ service[i] # "down" /\ left.crashes > 0
    /\ service' = [service EXCEPT ![i] = "down"]
    /\ call' = [c \in Call |-> IF InstanceOf[c] = i THEN NoRequest ELSE call[c]]
    /\ left' = [left EXCEPT !.crashes = @ - 1]
    /\ UNCHANGED <<ledger, manifest, provider, claimed>>

\* Events of other components; some revise the policy or the classification.
OtherEvent ==
    /\ left.others > 0
    /\ revision' = revision + 1
    /\ \/ UNCHANGED <<policy, public>> /\ left' = [left EXCEPT !.others = @ - 1]
       \/ /\ left.changes > 0
          /\ left' = [left EXCEPT !.others = @ - 1, !.changes = @ - 1]
          /\ policy' = policy + 1 /\ public' \in BOOLEAN
    /\ UNCHANGED <<stream, manifest, service, call, provider, claimed>>

----------------------------------------------------------------------------

\* A run, once it has begun, goes on by itself; only the provider may not.
Step(c) ==
    \/ Admit(c) \/ Revalidate(c) \/ Approve(c)
    \/ Survey(c) \/ Claim(c) \/ Register(c) \/ Gate(c) \/ Recheck(c)
    \/ Transfer(c) \/ Interrupted(c) \/ Publish(c)
    \/ Cancel(c) \/ FinishRead(c) \/ FinishRecord(c)

Next ==
    \/ \E i \in Instance, v \in Invocation : Preview(i, v)
    \/ \E c \in Call, v \in Invocation, op \in {"approve", "run", "cancel"} :
         Begin(c, op, v)
    \/ \E c \in Call : Step(c) \/ Answer(c) \/ Lost(c) \/ Timeout(c)
    \/ \E i \in Instance : Mount(i) \/ Close(i) \/ Closed(i) \/ Crash(i)
    \/ OtherEvent

Spec == Init /\ [][Next]_vars

(***************************************************************************)
(* Handlers run on, timers fire, and an instance that is down is mounted   *)
(* again.  Nothing makes the provider answer.                              *)
(***************************************************************************)
FairSpec ==
    /\ Spec
    /\ \A c \in Call : WF_vars(Step(c)) /\ WF_vars(Timeout(c))
    /\ \A i \in Instance : WF_vars(Mount(i)) /\ WF_vars(Closed(i))

----------------------------------------------------------------------------

(***************************************************************************)
(* Type invariant.  A stream is at most preview, approval, submission and  *)
(* one outcome.                                                            *)
(***************************************************************************)
TypeOK ==
    /\ \A v \in Invocation : stream[v] \in Seq(Kind) /\ Len(stream[v]) <= 4
    /\ revision \in Nat /\ policy \in Nat /\ public \in BOOLEAN
    /\ manifest \in [Invocation -> 0..policy]
    /\ service \in [Instance -> {"down", "mounting", "serving", "closing"}]
    /\ call \in [Call -> Request]
    /\ sent \in [Invocation -> Nat] /\ answered \subseteq Invocation
    /\ claimed \in [Invocation -> 0..policy]
    /\ left.changes \in Nat /\ left.others \in Nat /\ left.crashes \in Nat

(***************************************************************************)
(* At most one invocation is running, whatever instances survey the ledger *)
(* together ("Concurrency is limited to one").                             *)
(***************************************************************************)
OneRunning ==
    \A u, v \in Invocation :
        State(u) = "running" /\ State(v) = "running" => u = v

(***************************************************************************)
(* The first durable outcome wins: cancellation, timeout, answer, and the  *)
(* recovery of another instance never replace one another.                 *)
(***************************************************************************)
TerminalStays ==
    [][\A v \in Invocation : State(v) \in Terminal => State(v)' = State(v)]_vars

(***************************************************************************)
(* An invocation is transferred at most once, and only after its approval  *)
(* and its claim are durable: crashes and restarts never send it again.    *)
(***************************************************************************)
SentOnce ==
    \A v \in Invocation :
        sent[v] > 0 => /\ sent[v] = 1
                       /\ Len(stream[v]) >= 3
                       /\ stream[v][2] = "approved" /\ stream[v][3] = "running"

(***************************************************************************)
(* An outcome that says something of the provider is known: an invocation  *)
(* is completed only if it was answered, and failed only if it never left  *)
(* or was answered, whatever timed out, broke off or was interrupted.  Of  *)
(* one that is canceled nothing is said: a cancellation that read the job  *)
(* queued is recorded so although the document left since.                 *)
(***************************************************************************)
OutcomeIsHonest ==
    \A v \in Invocation :
        /\ State(v) = "completed" => v \in answered
        /\ State(v) = "failed" => sent[v] = 0 \/ v \in answered

(***************************************************************************)
(* Nothing is transferred that was claimed after the policy it was         *)
(* approved under had changed, although run looks at the policy before it  *)
(* surveys the ledger and claims.                                          *)
(***************************************************************************)
NothingStaleIsSent ==
    \A v \in Invocation : sent[v] > 0 => claimed[v] = manifest[v]

(***************************************************************************)
(* A running invocation comes to an outcome although the provider may      *)
(* never answer and instances may die: timeouts, and recovery on mounting. *)
(***************************************************************************)
RunningEnds ==
    \A v \in Invocation : State(v) = "running" ~> State(v) \in Terminal

(***************************************************************************)
(* Whatever instances run, cancel and recover, an invocation leaves the    *)
(* workspace alone, once, and as it was approved (run, finish).            *)
(***************************************************************************)
TransfersAreSound ==
    /\ TypeOK
    /\ OneRunning
    /\ SentOnce
    /\ NothingStaleIsSent
=============================================================================
