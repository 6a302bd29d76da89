------------------------- MODULE ProactiveTriggers -------------------------
(***************************************************************************)
(* evaluateResidentTrigger (packages/agent/src/proactive-triggers.ts) and   *)
(* the projection that replays what it admitted (trigger-projection.ts).    *)
(*                                                                         *)
(* An evaluation reads a snapshot (is the workspace mounted, which requests *)
(* are there), decides about cooldown, budget and duplicates, and appends   *)
(* its request if the snapshot is still current; if not it tries once more. *)
(* The time of an attempt is the caller's: attempts may come out of order.  *)
(*                                                                         *)
(* The authority that reads and appends is an interface which the code only *)
(* implements in tests; its snapshot's revision is the ledger's length, and *)
(* mounting, locking and unmounting are events of the ledger.               *)
(***************************************************************************)
EXTENDS RecordLog

CONSTANTS
    Signal,     \* candidates; a request's identity is its signal
    Gate,       \* admission scopes
    GateOf,     \* the scope of a signal
    Time,       \* times of attempts
    PolicyOf    \* the policy of a scope: no request within cooldown of
                \* another, and at most max of them within window

ASSUME TriggerAssumption ==
    /\ GateOf \in [Signal -> Gate]
    /\ Time \subseteq Nat
    /\ PolicyOf \in [Gate -> [cooldown : Nat, window : Nat, max : Nat]]

MountStream == <<"mount">>
TriggerStream(g) == <<"trigger", g>>

Requests(s, g) == {i \in OfType(s, "requested") : s[i].gate = g}

\* The workspace is as the last event about it says, available at first.
Mounted(s) == \A i \in Latest(OfType(s, "mount")) : s[i].state = "available"

\* Mutated form of InCooldown: only the last request appended counts.
InCooldownOfLast(s, g, at) ==
    \E i \in Latest(Requests(s, g)) : PolicyOf[g].cooldown > 0 /\ at < s[i].at + PolicyOf[g].cooldown

\* An attempt that is earlier than a request is in its cooldown, too.
InCooldown(s, g, at) ==
    \E i \in Requests(s, g) : PolicyOf[g].cooldown > 0 /\ at < s[i].at + PolicyOf[g].cooldown

\* Mutated form of IsSpent: requests later than the attempt do not count.
IsSpentBefore(s, g, at) ==
    Cardinality({i \in Requests(s, g) : s[i].at <= at /\ at - s[i].at < PolicyOf[g].window})
        >= PolicyOf[g].max

\* Requests that are later than the attempt count, however far.
IsSpent(s, g, at) ==
    Cardinality({i \in Requests(s, g) : at - s[i].at < PolicyOf[g].window})
        >= PolicyOf[g].max

IsRequested(s, x) == \E i \in OfType(s, "requested") : s[i].signal = x

\* verifyMountedCandidate and inspectExisting on one snapshot.
Admits(s, x, at) ==
    /\ Mounted(s)
    /\ ~IsRequested(s, x)
    /\ ~InCooldown(s, GateOf[x], at)
    /\ ~IsSpent(s, GateOf[x], at)

----------------------------------------------------------------------------
\* The workspace is mounted, locked or unmounted.
Mount(c, state) ==
    /\ Makes(c, "mount")
    /\ log' = Append(log, [type |-> "mount", stream |-> MountStream, state |-> state])
    /\ UNCHANGED call

EvaluateTrigger(c, x, at) ==
    /\ Makes(c, "trigger")
    /\ call' = [call EXCEPT ![c] =
            [op |-> "evaluate", signal |-> x, at |-> at, attempts |-> 2]]
    /\ UNCHANGED log

\* Any refusal is an answer and ends the evaluation.
InspectSnapshot(c) ==
    LET k == call[c] IN
    /\ k.op = "evaluate"
    /\ call' = [call EXCEPT ![c] =
            IF ~Admits(log, k.signal, k.at) THEN Idle
            ELSE [op |-> "request", attempts |-> k.attempts, expected |-> 0,
                  event |-> [type |-> "requested", gate |-> GateOf[k.signal],
                             stream |-> TriggerStream(GateOf[k.signal]),
                             signal |-> k.signal, at |-> k.at],
                  global |-> Len(log) + 1]]
    /\ UNCHANGED <<log, budget>>

\* appendRequestedIfCurrent; a conflict is tried again, once.
AppendRequest(c) ==
    LET k == call[c] IN
    /\ k.op = "request"
    /\ IF Holds(c)
       THEN log' = Append(log, k.event) /\ call' = [call EXCEPT ![c] = Idle]
       ELSE /\ call' = [call EXCEPT ![c] =
                IF k.attempts = 1 THEN Idle
                ELSE [op |-> "evaluate", signal |-> k.event.signal,
                      at |-> k.event.at, attempts |-> k.attempts - 1]]
            /\ UNCHANGED log
    /\ UNCHANGED budget

TriggerNext(c) ==
    \/ \E state \in {"available", "locked", "away"} : Mount(c, state)
    \/ \E x \in Signal, at \in Time : EvaluateTrigger(c, x, at)
    \/ InspectSnapshot(c)
    \/ AppendRequest(c)

----------------------------------------------------------------------------
(* Properties.                                                             *)

\* Requests that come before request i in the projection's order of time;
\* those of the same time may be put on either side.
Prior(i, earlier) ==
    {j \in Requests(log, log[i].gate) : log[j].at < log[i].at} \union earlier

SameTime(i) == {j \in Requests(log, log[i].gate) \ {i} : log[j].at = log[i].at}

\* What the evaluator admitted in the order of the ledger, at times the
\* callers gave, the projection admits when it replays it in order of time
\* (respectsProjectedAdmission): otherwise it would refuse the whole ledger.
AdmissionReplays ==
    \A i \in OfType(log, "requested") : \A earlier \in SUBSET SameTime(i) :
        LET prior == Prior(i, earlier)
            policy == PolicyOf[log[i].gate] IN
        /\ policy.cooldown > 0 =>
            \A j \in prior : log[i].at - log[j].at >= policy.cooldown
        /\ Cardinality({j \in prior : log[i].at - log[j].at < policy.window}) < policy.max

\* A signal is requested once, and only while the workspace is available.
RequestedOnceWhileMounted ==
    \A i \in OfType(log, "requested") :
        /\ Mounted(Prefix(log, i - 1))
        /\ ~IsRequested(Prefix(log, i - 1), log[i].signal)

\* What evaluators admit at once, the projection can replay, once each.
AdmissionIsSound ==
    /\ AdmissionReplays
    /\ RequestedOnceWhileMounted
=============================================================================
