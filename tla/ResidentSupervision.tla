------------------------- MODULE ResidentSupervision -------------------------
(***************************************************************************)
(* The resident supervision of local-runtime: one service per process      *)
(* (wake-supervisor-runtime.ts), the wake supervisor it issues and retires *)
(* (agent/wake-supervisor.ts), and the supervisor's lease in the mounted   *)
(* ledger, which processes share (mounted-wake-lifecycle-store.ts).        *)
(*                                                                         *)
(* A service is a set of threads of one event loop that share variables    *)
(* and meet only at awaits: a status request ("snap"), the queue of pause, *)
(* resume and sourced-investigation calls ("ctl"), the poll after a lease  *)
(* expires ("poll") and the background cycle ("bg").  One action is what   *)
(* runs between two awaits that others can come between.                   *)
(*                                                                         *)
(* A lease's expiry is the event ExpireLease; a service that fixes the     *)
(* time of an operation before it starts (operationNow) keeps the set of   *)
(* leases expired by then.                                                 *)
(***************************************************************************)
EXTENDS Integers, Sequences, FiniteSets

CONSTANTS Process,     \* services, each with an epoch of its own
          Runtimes,    \* names for wake runtimes, reused once unreferenced
          Budgets      \* the services there are ("by") and how often the others do
                       \* what they do, one chosen at the start

\* One for the wake, one for the sourced handoff, one for each thread.
ASSUME RuntimesAssumption == Runtimes \in Nat /\ Runtimes >= 6

BudgetType == [snapshot : Nat, pause : Nat, resume : Nat, sourced : Nat, stop : Nat,
               admit : Nat, loss : Nat, expire : Nat, by : SUBSET Process]

ASSUME BudgetsAssumption == \A b \in Budgets : b \in BudgetType

Runtime == 1..Runtimes

VARIABLES ledger,      \* the mounted ledger, other streams' events as "source"
          expired,     \* positions of the leases whose time is over
          mounted,     \* the drive is there and is this workspace
          tasks,       \* local tasks admitted and not executed yet
          svc,         \* each service's shared variables
          rts,         \* each service's wake runtimes
          job,         \* each service's threads
          queue,       \* supervisionControlTail: calls waiting their turn
          quiet,       \* pause or stop has returned and no resume began since
          left         \* what is left of the budget

vars == <<ledger, expired, mounted, tasks, svc, rts, job, queue, quiet, left>>

Thread == {"snap", "ctl", "poll", "bg"}

\* The lifecycle events with a reader, and every other event as "source".
LeaseEvent(p, start, hw) == [kind |-> "lease", by |-> p, start |-> start, hw |-> hw]
PlainEvent(kind, p) == [kind |-> kind, by |-> p, start |-> FALSE, hw |-> 0]

----------------------------------------------------------------------------
(* What is read from the ledger *)

LatestOf(log, kinds) ==
  LET at == {i \in DOMAIN log : log[i].kind \in kinds}
  IN IF at = {} THEN 0 ELSE CHOOSE i \in at : \A j \in at : j <= i

\* sourceHighWater: the last event that is not of the wake lifecycle.
HighWater(log) == LatestOf(log, {"source"})

\* durableSupervisionState: the mode, and the expiry to wake at.
IsPaused(log) == LatestOf(log, {"paused"}) > LatestOf(log, {"resumed"})
NextWake(log, over) ==
  LET at == {i \in DOMAIN log : log[i].kind = "lease" /\ i \notin over}
  IN IF IsPaused(log) \/ at = {} THEN 0 ELSE CHOOSE i \in at : \A j \in at : j <= i

\* A lease binds until it expires or its own epoch records a pause after it.
LiveLeases(log, over) ==
  {i \in DOMAIN log : /\ log[i].kind = "lease" /\ i \notin over
                      /\ ~ \E j \in DOMAIN log : /\ j > i /\ log[j].kind = "paused"
                                                 /\ log[j].by = log[i].by}

----------------------------------------------------------------------------
(* Wake runtimes *)

\* hw: the high water expected (-1 before its first use); live: it reads the
\* clock, else "over" were expired; lease: its admission; used: a handoff was
\* issued for it; rev: closureRevision.
NewRuntime(live) ==
  [dead |-> FALSE, hw |-> -1, live |-> live, over |-> IF live THEN {} ELSE expired,
   lease |-> 0, lost |-> FALSE, closed |-> FALSE, paused |-> FALSE,
   busy |-> FALSE, used |-> FALSE, rev |-> 0]
DeadRuntime == [NewRuntime(TRUE) EXCEPT !.dead = TRUE]

Over(r) == IF r.live THEN expired ELSE r.over

\* Any read of the store fails once it is invalidated, the drive is gone, or
\* the lease it was admitted under is over by its clock.
StoreFails(r) == r.dead \/ ~mounted \/ (r.lease # 0 /\ r.lease \in Over(r))

Idle == [at |-> "idle", stage |-> "", rt |-> 0, op |-> "", rev |-> 0,
         len |-> 0, hw |-> 0, got |-> "", list |-> {}]

Unreferenced(p) ==
  Runtime \ ({svc[p].wake} \cup {job[p][t].rt : t \in Thread} \cup {svc[p].sourced})
FreeRuntime(p) == CHOOSE r \in Unreferenced(p) : \A q \in Unreferenced(p) : r <= q

Init ==
  /\ left \in Budgets
  /\ ledger = <<PlainEvent("source", "none")>>    \* the resident's identity
  /\ expired = {} /\ mounted = TRUE /\ tasks = {}
  /\ svc = [p \in Process |->
              [wake |-> 0, status |-> FALSE, pausePending |-> FALSE, pend |-> 0,
               lost |-> FALSE, stopped |-> FALSE, active |-> FALSE,
               sourced |-> 0, exec |-> "none", timer |-> 0,
               bg |-> IF p \in left.by THEN "scheduled" ELSE "idle",
               rescan |-> FALSE, retry |-> FALSE]]
  /\ rts = [p \in Process |-> [r \in Runtime |-> DeadRuntime]]
  /\ job = [p \in Process |-> [t \in Thread |-> Idle]]
  /\ queue = [p \in Process |-> <<>>]
  /\ quiet = [p \in Process |-> FALSE]

----------------------------------------------------------------------------
(* Changes to a service's variables, as functions of its record *)

Forget(s, r) == [s EXCEPT !.wake = IF @ = r THEN 0 ELSE @,
                          !.sourced = IF @ = r THEN 0 ELSE @]

\* scheduleBackgroundCycle
Schedule(s) ==
  IF s.stopped \/ s.pausePending THEN s
  ELSE IF s.bg = "idle" THEN [s EXCEPT !.retry = FALSE, !.bg = "scheduled"]
       ELSE [s EXCEPT !.retry = FALSE, !.rescan = TRUE]

\* scheduleWake with the expiry the ledger shows now
WakeAt(s) == [s EXCEPT !.timer = IF s.stopped THEN 0 ELSE NextWake(ledger, expired)]

\* Mutated form of CycleOver: a cycle that failed is not forgotten.
CycleOverUnlessFailed(s, failed) ==
  LET t == [s EXCEPT !.bg = IF failed THEN @ ELSE "idle", !.rescan = FALSE,
                     !.retry = failed /\ ~s.stopped /\ ~s.pausePending]
  IN IF s.rescan THEN Schedule(t) ELSE t

\* The end of a background cycle: a failed one asks for a retry, then the
\* rescan that was asked for meanwhile is scheduled.
CycleOver(s, failed) ==
  LET t == [s EXCEPT !.bg = "idle", !.rescan = FALSE,
                     !.retry = failed /\ ~s.stopped /\ ~s.pausePending]
  IN IF s.rescan THEN Schedule(t) ELSE t

\* WakeSupervisorRuntime.stop: the supervisor is closed, its store invalidated.
Stop(p, r) == rts' = [rts EXCEPT ![p] = [x \in Runtime |-> IF x = r THEN DeadRuntime ELSE @[x]]]

Set(p, s) == svc' = [svc EXCEPT ![p] = s]
Go(p, t, j) == job' = [job EXCEPT ![p][t] = j]
Done(p, t) == Go(p, t, Idle)
At(p, t, stage, at) == job[p][t].stage = stage /\ job[p][t].at = at

\* issueWakeRuntime(reason) followed by the admission "op" on what it issues;
\* the assignment comes after an await, so it is a step of its own.
ToIssue(j, stage, op) == [j EXCEPT !.at = "issue", !.stage = stage, !.op = op, !.rt = 0]

Spend(k) == left[k] > 0 /\ left' = [left EXCEPT ![k] = @ - 1]

----------------------------------------------------------------------------
(* Issuing a runtime, and its admission (runAdmission), for any thread *)

UseRuntime(p, r, rec) == rts' = [rts EXCEPT ![p][r] = rec]

\* The assignment of wakeRuntime: it overwrites what another thread issued
\* meanwhile.  A poll that finds the service stopped retires it at once, and a
\* task does not start it when a status is already known.
Issue(p, t) ==
  LET j == job[p][t]
      r == FreeRuntime(p)
      live == j.stage \notin {"bg", "sourced"}
  IN /\ j.at = "issue"
     /\ IF j.stage = "poll" /\ svc[p].stopped
        THEN Done(p, t) /\ Set(p, [svc[p] EXCEPT !.wake = 0]) /\ UNCHANGED rts
        ELSE /\ UseRuntime(p, r, NewRuntime(live))
             /\ IF ~live /\ svc[p].status
                THEN /\ Set(p, [svc[p] EXCEPT !.wake = r, !.active = TRUE])
                     /\ Go(p, t, [j EXCEPT !.at = "run", !.rt = r])
                ELSE /\ Set(p, [svc[p] EXCEPT !.wake = r])
                     /\ Go(p, t, [j EXCEPT !.at = "begin", !.rt = r])
     /\ UNCHANGED <<ledger, expired, mounted, tasks, queue, quiet, left>>

\* What the supervisor answers; the thread goes on with it.
Answer(p, t, got) == Go(p, t, [job[p][t] EXCEPT !.at = "back", !.got = got])
Idling(r) == [r EXCEPT !.busy = FALSE]

\* runAdmission up to the lease: the supervisor must be open and not busy; on
\* its first use it takes the high water from the store.  A store that fails
\* then is answered here as a refusal, where the code throws.
AdmissionBegins(p, t) ==
  LET j == job[p][t]
      r == rts[p][j.rt]
      reopens == r.paused /\ j.op \in {"resume", "recover"}
  IN /\ j.at = "begin"
     /\ IF r.dead \/ (r.closed /\ ~reopens) \/ r.busy
        THEN Answer(p, t, "blocked") /\ UNCHANGED rts
        ELSE IF StoreFails(r) \/ r.lost
             THEN /\ Answer(p, t, "blocked")
                  /\ UseRuntime(p, j.rt, [r EXCEPT !.lost = TRUE,
                       !.dead = @ \/ (r.lease # 0 /\ r.lease \in Over(r))])
             ELSE /\ Go(p, t, [j EXCEPT !.at = "lease", !.rev = r.rev])
                  /\ UseRuntime(p, j.rt, [r EXCEPT !.busy = TRUE,
                       !.hw = IF @ = -1 THEN HighWater(ledger) ELSE @])
     /\ UNCHANGED <<ledger, expired, mounted, tasks, svc, queue, quiet, left>>

\* reusableOwnedLease: the same high water, and both claimed by a start.
Reusable(i, p, op) ==
  /\ ledger[i].by = p /\ ledger[i].start /\ op = "start"
  /\ ledger[i].hw = HighWater(ledger)

\* readOrAcquireSupervisorLease up to its append.
ReadLease(p, t) ==
  LET j == job[p][t]
      r == rts[p][j.rt]
      live == LiveLeases(ledger, Over(r))
      foreign == {i \in live : ledger[i].by # p}
      own == live \ foreign
      latest == CHOOSE i \in own : \A k \in own : k <= i
  IN /\ j.at = "lease"
     /\ IF r.dead \/ r.rev # j.rev
        THEN Answer(p, t, "blocked") /\ UseRuntime(p, j.rt, Idling(r))
        ELSE IF ~mounted
        THEN Answer(p, t, "blocked") /\ UseRuntime(p, j.rt, [Idling(r) EXCEPT !.lost = TRUE])
        ELSE IF foreign = {} /\ own # {} /\ Reusable(latest, p, j.op)
        THEN IF r.hw = HighWater(ledger)
             THEN /\ Go(p, t, [j EXCEPT !.at = "wake"])
                  /\ UseRuntime(p, j.rt, [r EXCEPT !.lease = latest])
             ELSE /\ Answer(p, t, "blocked")
                  /\ UseRuntime(p, j.rt, [Idling(r) EXCEPT !.lease = latest, !.lost = TRUE])
        ELSE IF live # {}
        THEN Answer(p, t, "held") /\ UseRuntime(p, j.rt, Idling(r))
        ELSE /\ Go(p, t, [j EXCEPT !.at = "claim", !.len = Len(ledger),
                                   !.hw = HighWater(ledger)])
             /\ UNCHANGED rts
     /\ UNCHANGED <<ledger, expired, mounted, tasks, svc, queue, quiet, left>>

\* Mutated form of ClaimLease: the append is not conditional on the count.
ClaimLeaseBlindly(p, t) ==
  LET j == job[p][t]
      r == rts[p][j.rt]
  IN /\ j.at = "claim"
     /\ IF r.dead \/ ~mounted
        THEN /\ Answer(p, t, "blocked") /\ UseRuntime(p, j.rt, Idling(r))
             /\ UNCHANGED ledger
        ELSE /\ ledger' = Append(ledger, LeaseEvent(p, j.op = "start", j.hw))
             /\ Go(p, t, [j EXCEPT !.at = "wake"])
             /\ UseRuntime(p, j.rt, [r EXCEPT !.lease = Len(ledger) + 1])
     /\ UNCHANGED <<expired, mounted, tasks, svc, queue, quiet, left>>

\* The claim is appended if nothing else was since the ledger was read, and
\* the store is still valid: a pause that closed the intake meanwhile does not
\* stop it, only the answer.
ClaimLease(p, t) ==
  LET j == job[p][t]
      r == rts[p][j.rt]
  IN /\ j.at = "claim"
     /\ IF r.dead \/ ~mounted \/ Len(ledger) # j.len
        THEN /\ Answer(p, t, "blocked") /\ UseRuntime(p, j.rt, Idling(r))
             /\ UNCHANGED ledger
        ELSE /\ ledger' = Append(ledger, LeaseEvent(p, j.op = "start", j.hw))
             /\ IF r.rev = j.rev /\ r.hw = j.hw
                THEN /\ Go(p, t, [j EXCEPT !.at = "wake"])
                     /\ UseRuntime(p, j.rt, [r EXCEPT !.lease = j.len + 1])
                ELSE /\ Answer(p, t, "blocked")
                     /\ UseRuntime(p, j.rt, [Idling(r) EXCEPT
                          !.lease = j.len + 1, !.lost = @ \/ r.rev = j.rev])
     /\ UNCHANGED <<expired, mounted, tasks, svc, queue, quiet, left>>

\* wakeOnce: a start or a poll records nothing, a resume or a recovery records
\* that the pause is over.  A change of the intake meanwhile cancels only the
\* answer.  An append may lose its race with another process's.
WakeOnce(p, t) ==
  LET j == job[p][t]
      r == rts[p][j.rt]
      records == j.op \in {"resume", "recover"}
      fails == StoreFails(r) \/ r.lease = 0 \/ (r.rev # j.rev)
  IN /\ j.at = "wake"
     /\ \/ /\ fails
           /\ Answer(p, t, "blocked") /\ UseRuntime(p, j.rt, Idling(r))
           /\ UNCHANGED ledger
        \/ /\ ~fails
           /\ Answer(p, t, "accepted")
           /\ ledger' = IF records THEN Append(ledger, PlainEvent("resumed", p)) ELSE ledger
           /\ UseRuntime(p, j.rt, [Idling(r) EXCEPT !.closed = @ /\ ~records])
        \/ /\ ~fails /\ records /\ Cardinality(left.by) > 1
           /\ Answer(p, t, "blocked") /\ UseRuntime(p, j.rt, Idling(r))
           /\ UNCHANGED ledger
     /\ UNCHANGED <<expired, mounted, tasks, svc, queue, quiet, left>>

Admission(p, t) ==
  Issue(p, t) \/ AdmissionBegins(p, t) \/ ReadLease(p, t) \/ ClaimLease(p, t) \/ WakeOnce(p, t)

\* Results a thread waits for from its admission
Back(p, t, stage) == At(p, t, stage, "back")
Got(p, t) == job[p][t].got

----------------------------------------------------------------------------
(* The status request: snapshot *)

SnapshotCall(p) ==
  /\ ~svc[p].stopped /\ job[p]["snap"] = Idle /\ Spend("snapshot")
  /\ IF mounted
     THEN Go(p, "snap", [Idle EXCEPT !.at = "read", !.stage = "snap"]) /\ UNCHANGED <<svc, rts>>
     ELSE /\ Set(p, [Forget(svc[p], svc[p].wake) EXCEPT
                       !.lost = TRUE, !.timer = 0, !.status = FALSE])
          /\ Stop(p, svc[p].wake) /\ UNCHANGED job
  /\ UNCHANGED <<ledger, expired, mounted, tasks, queue, quiet>>

SnapshotRead(p) ==
  /\ At(p, "snap", "snap", "read")
  /\ IF svc[p].lost THEN Done(p, "snap") /\ UNCHANGED svc
     ELSE IF IsPaused(ledger)
     THEN /\ Set(p, [svc[p] EXCEPT !.pausePending = TRUE, !.timer = 0, !.retry = FALSE])
          /\ Done(p, "snap")
     ELSE IF svc[p].wake # 0
     THEN /\ Set(p, WakeAt([svc[p] EXCEPT !.status = TRUE]))
          /\ Done(p, "snap")
     ELSE /\ IF mounted THEN Go(p, "snap", ToIssue(job[p]["snap"], "snap", "start"))
             ELSE Done(p, "snap")
          /\ UNCHANGED svc
  /\ UNCHANGED <<ledger, expired, mounted, tasks, rts, queue, quiet, left>>

\* The status is taken whatever the outcome of the start was.
SnapshotBack(p) ==
  /\ Back(p, "snap", "snap")
  /\ Set(p, WakeAt([svc[p] EXCEPT !.status = TRUE]))
  /\ Done(p, "snap")
  /\ UNCHANGED <<ledger, expired, mounted, tasks, rts, queue, quiet, left>>

----------------------------------------------------------------------------
(* Control calls: their first statements, then their turn *)

PauseCall(p) ==
  /\ ~svc[p].stopped /\ mounted /\ Spend("pause")
  /\ Set(p, [svc[p] EXCEPT !.pend = @ + 1, !.pausePending = TRUE, !.timer = 0,
                           !.retry = FALSE, !.rescan = FALSE])
  /\ queue' = [queue EXCEPT ![p] = Append(@, "pause")]
  /\ UNCHANGED <<ledger, expired, mounted, tasks, rts, job, quiet>>

OtherCall(p, op) ==
  /\ ~svc[p].stopped /\ Spend(op)
  /\ queue' = [queue EXCEPT ![p] = Append(@, op)]
  /\ UNCHANGED <<ledger, expired, mounted, tasks, svc, rts, job, quiet>>

TakeTurn(p) ==
  /\ job[p]["ctl"] = Idle /\ queue[p] # <<>>
  /\ queue' = [queue EXCEPT ![p] = Tail(@)]
  /\ LET op == Head(queue[p])
     IN IF svc[p].stopped \/ ~mounted
        THEN /\ Set(p, [svc[p] EXCEPT !.pend = IF op = "pause" THEN @ - 1 ELSE @])
             /\ UNCHANGED <<job, quiet>>
        ELSE /\ Go(p, "ctl", [Idle EXCEPT !.at = "read", !.stage = op])
             /\ quiet' = [quiet EXCEPT ![p] = @ /\ op # "resume"]
             /\ UNCHANGED svc
  /\ UNCHANGED <<ledger, expired, mounted, tasks, rts, left>>

----------------------------------------------------------------------------
(* Pause, and the pause that fences a lease before a recovery *)

\* A pause that was not answered lets the background go on, unless another
\* pause is waiting; the caller is told.
PauseFails(p) ==
  LET s == [svc[p] EXCEPT !.pend = @ - 1]
  IN /\ Set(p, IF svc[p].pend = 1 THEN Schedule([s EXCEPT !.pausePending = FALSE]) ELSE s)
     /\ quiet' = [quiet EXCEPT ![p] = FALSE]
     /\ Done(p, "ctl")

PauseRead(p) ==
  LET j == job[p]["ctl"]
  IN /\ At(p, "ctl", "pause", "read")
     /\ IF IsPaused(ledger)
        THEN Go(p, "ctl", [j EXCEPT !.at = "quiesce"]) /\ UNCHANGED <<svc, quiet>>
        ELSE IF svc[p].wake # 0
        THEN Go(p, "ctl", [j EXCEPT !.at = "close"]) /\ UNCHANGED <<svc, quiet>>
        ELSE IF mounted
        THEN Go(p, "ctl", ToIssue(j, "pause", "start")) /\ UNCHANGED <<svc, quiet>>
        ELSE PauseFails(p)
     /\ UNCHANGED <<ledger, expired, mounted, tasks, rts, queue, left>>

\* Whatever the start answered, the pause is asked of it.
PauseBack(p) ==
  /\ Back(p, "ctl", "pause")
  /\ Set(p, [svc[p] EXCEPT !.status = TRUE])
  /\ Go(p, "ctl", [job[p]["ctl"] EXCEPT !.at = "close"])
  /\ UNCHANGED <<ledger, expired, mounted, tasks, rts, queue, quiet, left>>

\* WakeSupervisor.pause closes the intake and cancels an admission in flight,
\* on the runtime that is the service's by now, or on the fence's own.
PauseCloses(p) ==
  LET j == job[p]["ctl"]
      n == IF j.stage = "fence" THEN j.rt ELSE svc[p].wake
  IN /\ j.at = "close"
     /\ IF n # 0 /\ ~rts[p][n].dead
        THEN /\ UseRuntime(p, n, [rts[p][n] EXCEPT !.closed = TRUE, !.paused = FALSE, !.rev = @ + 1])
             /\ Go(p, "ctl", [j EXCEPT !.at = "append", !.rt = n])
        ELSE /\ UNCHANGED rts
             /\ Go(p, "ctl", [j EXCEPT !.at = "refused"])
     /\ UNCHANGED <<ledger, expired, mounted, tasks, svc, queue, quiet, left>>

\* pauseAndReadBack needs the admission of a lease, and no other append between.
PauseAppends(p) ==
  LET j == job[p]["ctl"]
      r == rts[p][j.rt]
  IN /\ j.at = "append"
     /\ \/ /\ ~StoreFails(r) /\ r.lease # 0
           /\ ledger' = Append(ledger, PlainEvent("paused", p))
           /\ Go(p, "ctl", [j EXCEPT !.at = "confirm"])
        \/ /\ StoreFails(r) \/ r.lease = 0 \/ Cardinality(left.by) > 1
           /\ Go(p, "ctl", [j EXCEPT !.at = "refused"])
           /\ UNCHANGED ledger
     /\ UNCHANGED <<expired, mounted, tasks, svc, rts, queue, quiet, left>>

\* The supervisor answers that it is paused unless it was stopped meanwhile or
\* was never admitted with this lease; the pause stays in the ledger anyway.
PauseConfirms(p) ==
  LET j == job[p]["ctl"]
      r == rts[p][j.rt]
  IN /\ j.at = "confirm"
     /\ IF r.closed /\ ledger[r.lease].hw = r.hw
        THEN /\ UseRuntime(p, j.rt, [r EXCEPT !.paused = TRUE])
             /\ Go(p, "ctl", [j EXCEPT !.at = "quiesce"])
        ELSE /\ Go(p, "ctl", [j EXCEPT !.at = "refused"])
             /\ UNCHANGED rts
     /\ UNCHANGED <<ledger, expired, mounted, tasks, svc, queue, quiet, left>>

PauseRefused(p) ==
  /\ At(p, "ctl", "pause", "refused")
  /\ PauseFails(p)
  /\ UNCHANGED <<ledger, expired, mounted, tasks, rts, queue, left>>

\* Mutated form of Quiesced: only a cycle that is scheduled is waited for.
QuiescedUnlessRunning(p) == svc[p].bg # "scheduled"

\* quiesceBackgroundExecution: neither scheduled nor running.
Quiesced(p) == svc[p].bg = "idle"

\* The wake is retired and pause returns: nothing of this service executes.
PauseReturns(p) ==
  /\ At(p, "ctl", "pause", "quiesce") /\ Quiesced(p)
  /\ Stop(p, svc[p].wake)
  /\ Set(p, [Forget(svc[p], svc[p].wake) EXCEPT !.pend = @ - 1])
  /\ quiet' = [quiet EXCEPT ![p] = TRUE]
  /\ Done(p, "ctl")
  /\ UNCHANGED <<ledger, expired, mounted, tasks, queue, left>>

----------------------------------------------------------------------------
(* Resume, and recovery once the authority was lost *)

ResumeRead(p) ==
  LET s == svc[p]
      j == job[p]["ctl"]
      settled == [s EXCEPT !.pausePending = @ /\ s.pend # 0]
  IN /\ At(p, "ctl", "resume", "read")
     /\ IF s.stopped THEN Done(p, "ctl") /\ UNCHANGED <<svc, rts>>
        ELSE IF ~s.lost /\ ~IsPaused(ledger) /\ s.wake # 0
        THEN Done(p, "ctl") /\ Set(p, [settled EXCEPT !.status = TRUE]) /\ UNCHANGED rts
        ELSE /\ Stop(p, s.wake) /\ Set(p, Forget(s, s.wake))
             /\ IF ~mounted THEN Done(p, "ctl")
                ELSE IF ~s.lost THEN Go(p, "ctl", ToIssue(j, "resume", "resume"))
                ELSE IF NextWake(ledger, expired) # 0
                THEN Go(p, "ctl", ToIssue(j, "fence", "start"))
                ELSE Go(p, "ctl", ToIssue(j, "resume", "recover"))
     /\ UNCHANGED <<ledger, expired, mounted, tasks, queue, quiet, left>>

FenceBack(p) ==
  /\ Back(p, "ctl", "fence")
  /\ Set(p, [svc[p] EXCEPT !.status = TRUE])
  /\ Go(p, "ctl", [job[p]["ctl"] EXCEPT !.at = IF Got(p, "ctl") = "accepted" THEN "close" ELSE "refused"])
  /\ UNCHANGED <<ledger, expired, mounted, tasks, rts, queue, quiet, left>>

\* The fence's runtime is retired either way; without the fence the service
\* stays as it is, with it the recovery is asked of a new runtime.
FenceEnds(p) ==
  LET j == job[p]["ctl"]
      s == Forget(svc[p], j.rt)
  IN /\ j.stage = "fence" /\ j.at \in {"quiesce", "refused"}
     /\ Stop(p, j.rt) /\ Set(p, s)
     /\ IF j.at = "quiesce" /\ ~s.stopped /\ mounted /\ s.wake = 0
        THEN Go(p, "ctl", ToIssue(j, "resume", "recover"))
        ELSE Done(p, "ctl")
     /\ UNCHANGED <<ledger, expired, mounted, tasks, queue, quiet, left>>

\* Held by another lease: the authority is lost.  Refused otherwise: the call
\* fails and the runtime stays.
ResumeBack(p) ==
  LET s == [svc[p] EXCEPT !.status = TRUE]
      j == job[p]["ctl"]
  IN /\ Back(p, "ctl", "resume")
     /\ IF svc[p].stopped THEN UNCHANGED <<svc, rts>>
        ELSE IF j.got = "held"
        THEN Set(p, [Forget(s, j.rt) EXCEPT !.lost = TRUE]) /\ Stop(p, j.rt)
        ELSE IF j.got = "blocked" THEN Set(p, s) /\ UNCHANGED rts
        ELSE /\ Set(p, Schedule(WakeAt([s EXCEPT !.lost = FALSE, !.pausePending = @ /\ s.pend # 0])))
             /\ UNCHANGED rts
     /\ Done(p, "ctl")
     /\ UNCHANGED <<ledger, expired, mounted, tasks, queue, quiet, left>>

----------------------------------------------------------------------------
(* Execution: sourced investigations and the background cycle take turns *)

MayExecute(p) == ~svc[p].stopped /\ ~svc[p].pausePending /\ mounted /\ ~IsPaused(ledger)

\* With the turn: on the service's wake, or on one issued for it; a status
\* already known stands for a start.
ToExecute(p, t, j, s) ==
  IF s.wake = 0
  THEN Set(p, s) /\ Go(p, t, ToIssue(j, j.stage, "start"))
  ELSE IF s.status
  THEN Set(p, [s EXCEPT !.active = TRUE]) /\ Go(p, t, [j EXCEPT !.at = "run", !.rt = s.wake])
  ELSE Set(p, s) /\ Go(p, t, [j EXCEPT !.at = "begin", !.rt = s.wake, !.op = "start"])

\* A wake that a sourced handoff used is retired once its lease is over;
\* until then no other sourced task may take it.
SourcedRead(p) ==
  LET s == svc[p]
      j == job[p]["ctl"]
      own == LatestOf([i \in DOMAIN ledger |->
               [kind |-> IF ledger[i].by = p THEN ledger[i].kind ELSE ""]], {"lease"})
      turn == Go(p, "ctl", [j EXCEPT !.at = "turn"])
  IN /\ At(p, "ctl", "sourced", "read")
     /\ IF ~MayExecute(p) \/ s.active
        THEN Done(p, "ctl") /\ UNCHANGED <<svc, rts>>
        ELSE IF s.sourced = 0 THEN turn /\ UNCHANGED <<svc, rts>>
        ELSE IF s.sourced # s.wake
        THEN turn /\ Set(p, [s EXCEPT !.sourced = 0]) /\ UNCHANGED rts
        ELSE IF own \in expired
        THEN turn /\ Set(p, [Forget(s, s.wake) EXCEPT !.status = FALSE]) /\ Stop(p, s.wake)
        ELSE Done(p, "ctl") /\ UNCHANGED <<svc, rts>>
     /\ UNCHANGED <<ledger, expired, mounted, tasks, queue, quiet, left>>

\* Mutated form of SourcedTurn: no turn is waited for, only a task in progress.
SourcedTurnAtOnce(p) ==
  /\ At(p, "ctl", "sourced", "turn")
  /\ IF ~MayExecute(p) \/ svc[p].active
     THEN Done(p, "ctl") /\ UNCHANGED svc
     ELSE ToExecute(p, "ctl", job[p]["ctl"], [svc[p] EXCEPT !.exec = "ctl"])
  /\ UNCHANGED <<ledger, expired, mounted, tasks, rts, queue, quiet, left>>

SourcedTurn(p) ==
  /\ At(p, "ctl", "sourced", "turn") /\ svc[p].exec = "none"
  /\ IF ~MayExecute(p) \/ svc[p].active
     THEN Done(p, "ctl") /\ UNCHANGED svc
     ELSE ToExecute(p, "ctl", job[p]["ctl"], [svc[p] EXCEPT !.exec = "ctl"])
  /\ UNCHANGED <<ledger, expired, mounted, tasks, rts, queue, quiet, left>>

\* Only an accepted start goes on to the execution.
StartBack(p, t) ==
  LET j == job[p][t]
  IN /\ j.stage \in {"sourced", "bg"} /\ j.at = "back"
     /\ IF j.got = "accepted"
        THEN /\ Set(p, [svc[p] EXCEPT !.status = TRUE, !.active = TRUE])
             /\ Go(p, t, [j EXCEPT !.at = "run"])
             /\ UNCHANGED rts
        ELSE /\ Stop(p, j.rt)
             /\ LET s == [Forget(svc[p], j.rt) EXCEPT !.status = FALSE, !.exec = "none"]
                IN Set(p, IF t = "bg" THEN CycleOver(s, TRUE) ELSE s)
             /\ Done(p, t)
     /\ UNCHANGED <<ledger, expired, mounted, tasks, queue, quiet, left>>

\* The handoff of a task: one for each admission of a current store.
HandoffIssued(r) == ~StoreFails(r) /\ r.lease # 0 /\ ~r.lost /\ ~r.used

\* The effects reach the ledger while the store is current, by its own clock,
\* and the workspace is not paused (assertMountedTaskEffectAllowed).
EffectsReach(r) == ~StoreFails(r) /\ ~IsPaused(ledger)

SourcedRuns(p) ==
  LET j == job[p]["ctl"]
      r == rts[p][j.rt]
      over == Set(p, [svc[p] EXCEPT !.active = FALSE, !.exec = "none"]) /\ Done(p, "ctl")
  IN /\ \/ /\ At(p, "ctl", "sourced", "run")
           /\ IF HandoffIssued(r)
              THEN /\ UseRuntime(p, j.rt, [r EXCEPT !.used = TRUE])
                   /\ Set(p, [svc[p] EXCEPT !.sourced = j.rt])
                   /\ Go(p, "ctl", [j EXCEPT !.at = "effects"])
              ELSE over /\ UNCHANGED rts
           /\ UNCHANGED ledger
        \/ /\ At(p, "ctl", "sourced", "effects")
           /\ ledger' = IF EffectsReach(r) THEN Append(ledger, PlainEvent("source", p)) ELSE ledger
           /\ over /\ UNCHANGED rts
     /\ UNCHANGED <<expired, mounted, tasks, queue, quiet, left>>

\* scheduleBackgroundCycle's microtask and the checks runBackgroundCycle makes
BackgroundStarts(p) ==
  /\ svc[p].bg = "scheduled"
  /\ IF svc[p].stopped THEN Set(p, [svc[p] EXCEPT !.bg = "idle"]) /\ UNCHANGED job
     ELSE IF svc[p].pausePending THEN Set(p, CycleOver(svc[p], FALSE)) /\ UNCHANGED job
     ELSE IF ~mounted THEN Set(p, CycleOver([svc[p] EXCEPT !.lost = TRUE], FALSE)) /\ UNCHANGED job
     ELSE Set(p, [svc[p] EXCEPT !.bg = "running"]) /\ Go(p, "bg", [Idle EXCEPT !.at = "read", !.stage = "bg"])
  /\ UNCHANGED <<ledger, expired, mounted, tasks, rts, queue, quiet, left>>

BackgroundReads(p) ==
  /\ At(p, "bg", "bg", "read")
  /\ IF IsPaused(ledger) \/ tasks = {}
     THEN Set(p, CycleOver(svc[p], FALSE)) /\ Done(p, "bg")
     ELSE Go(p, "bg", [job[p]["bg"] EXCEPT !.at = "turn", !.list = tasks]) /\ UNCHANGED svc
  /\ UNCHANGED <<ledger, expired, mounted, tasks, rts, queue, quiet, left>>

\* The next task of the list, in its turn, after the checks made anew.
BackgroundTurn(p) ==
  LET over(s, failed) == Set(p, CycleOver(s, failed)) /\ Done(p, "bg")
  IN /\ At(p, "bg", "bg", "turn") /\ svc[p].exec = "none"
     /\ IF svc[p].stopped \/ svc[p].pausePending THEN over(svc[p], FALSE)
        ELSE IF ~mounted THEN over(svc[p], TRUE)
        ELSE IF IsPaused(ledger) THEN over([svc[p] EXCEPT !.pausePending = TRUE], FALSE)
        ELSE ToExecute(p, "bg", job[p]["bg"], [svc[p] EXCEPT !.exec = "bg"])
     /\ UNCHANGED <<ledger, expired, mounted, tasks, rts, queue, quiet, left>>

\* A local task takes its handoff before its first effect; the handoff's cursor
\* starts at the ledger of this moment.
BackgroundHandoff(p) ==
  LET j == job[p]["bg"]
      r == rts[p][j.rt]
  IN /\ At(p, "bg", "bg", "run") /\ HandoffIssued(r)
     /\ UseRuntime(p, j.rt, [r EXCEPT !.used = TRUE])
     /\ Go(p, "bg", [j EXCEPT !.at = "effects", !.len = Len(ledger)])
     /\ UNCHANGED <<ledger, expired, mounted, tasks, svc, queue, quiet, left>>

\* The end of an execution, with or without effects: an event of anybody else
\* since the handoff burns the cursor, so the first effects are made and the
\* last are not, and the task stays.  Whatever the outcome the wake it ran
\* under is retired, and the status with it.
BackgroundRuns(p) ==
  LET j == job[p]["bg"]
      r == rts[p][j.rt]
      task == CHOOSE x \in j.list : \A y \in j.list : x <= y
      s == [Forget(svc[p], j.rt) EXCEPT !.active = FALSE, !.status = FALSE, !.exec = "none"]
      acts == j.at = "effects" /\ EffectsReach(r) /\ task \in tasks
      ends == acts /\ Len(ledger) = j.len
  IN /\ j.stage = "bg" /\ (j.at = "effects" \/ (j.at = "run" /\ ~HandoffIssued(r)))
     /\ tasks' = IF ends THEN tasks \ {task} ELSE tasks
     /\ ledger' = IF acts THEN Append(ledger, PlainEvent("source", p)) ELSE ledger
     /\ Stop(p, j.rt)
     /\ IF ~ends \/ j.list = {task}
        THEN Set(p, CycleOver(s, ~ends)) /\ Done(p, "bg")
        ELSE /\ Set(p, s)
             /\ Go(p, "bg", [Idle EXCEPT !.at = "turn", !.stage = "bg", !.list = j.list \ {task}])
     /\ UNCHANGED <<expired, mounted, queue, quiet, left>>

RetryFires(p) ==
  /\ svc[p].retry
  /\ Set(p, Schedule([svc[p] EXCEPT !.retry = FALSE]))
  /\ UNCHANGED <<ledger, expired, mounted, tasks, rts, job, queue, quiet, left>>

----------------------------------------------------------------------------
(* The poll after a lease expires, and the end of the service *)

\* It retires the wake of the service, also one a task executes under.
PollFires(p) ==
  LET s == [Forget(svc[p], svc[p].wake) EXCEPT !.timer = 0]
  IN /\ svc[p].timer # 0 /\ svc[p].timer \in expired /\ ~svc[p].stopped
     /\ IF job[p]["poll"] # Idle
        THEN Set(p, [svc[p] EXCEPT !.timer = 0]) /\ UNCHANGED <<rts, job>>
        ELSE /\ Stop(p, svc[p].wake)
             /\ IF mounted
                THEN Set(p, s) /\ Go(p, "poll", ToIssue(Idle, "poll", "poll"))
                ELSE Set(p, [s EXCEPT !.lost = TRUE, !.status = FALSE]) /\ UNCHANGED job
     /\ UNCHANGED <<ledger, expired, mounted, tasks, queue, quiet, left>>

PollBack(p) ==
  /\ Back(p, "poll", "poll")
  /\ Set(p, Schedule(WakeAt([svc[p] EXCEPT !.status = TRUE])))
  /\ Done(p, "poll")
  /\ UNCHANGED <<ledger, expired, mounted, tasks, rts, queue, quiet, left>>

StopCall(p) ==
  /\ ~svc[p].stopped /\ Spend("stop")
  /\ Set(p, [svc[p] EXCEPT !.stopped = TRUE, !.pausePending = TRUE, !.timer = 0,
                           !.retry = FALSE, !.rescan = FALSE])
  /\ quiet' = [quiet EXCEPT ![p] = FALSE]
  /\ UNCHANGED <<ledger, expired, mounted, tasks, rts, job, queue>>

\* It waits for the poll, the background cycle and the calls in the queue.
StopReturns(p) ==
  /\ svc[p].stopped /\ ~quiet[p]
  /\ job[p]["poll"] = Idle /\ job[p]["bg"] = Idle
  /\ job[p]["ctl"] = Idle /\ queue[p] = <<>>
  /\ Stop(p, svc[p].wake)
  /\ Set(p, [Forget(svc[p], svc[p].wake) EXCEPT !.status = FALSE])
  /\ quiet' = [quiet EXCEPT ![p] = TRUE]
  /\ UNCHANGED <<ledger, expired, mounted, tasks, job, queue, left>>

----------------------------------------------------------------------------
(* The environment *)

\* A local task is admitted through this process (signalLocalAdmission).
AdmitTask(p) ==
  /\ ~svc[p].stopped /\ mounted /\ Spend("admit")
  /\ tasks' = tasks \cup {left.admit}
  /\ ledger' = Append(ledger, PlainEvent("source", "none"))
  /\ Set(p, Schedule(svc[p]))
  /\ UNCHANGED <<expired, mounted, rts, job, queue, quiet>>

ExpireLease ==
  /\ Spend("expire")
  /\ \E i \in DOMAIN ledger : /\ ledger[i].kind = "lease" /\ i \notin expired
                              /\ expired' = expired \cup {i}
  /\ UNCHANGED <<ledger, mounted, tasks, svc, rts, job, queue, quiet>>

\* The drive is taken away, and the same one is put back.
Drive ==
  /\ \/ mounted /\ Spend("loss")
     \/ ~mounted /\ UNCHANGED left
  /\ mounted' = ~mounted
  /\ UNCHANGED <<ledger, expired, tasks, svc, rts, job, queue, quiet>>

Calls(p) ==
  \/ SnapshotCall(p) \/ PauseCall(p) \/ OtherCall(p, "resume") \/ OtherCall(p, "sourced")
  \/ StopCall(p) \/ AdmitTask(p)

Control(p) ==
  \/ Admission(p, "ctl") \/ TakeTurn(p)
  \/ PauseRead(p) \/ PauseBack(p) \/ PauseCloses(p) \/ PauseAppends(p)
  \/ PauseConfirms(p) \/ PauseRefused(p) \/ PauseReturns(p)
  \/ ResumeRead(p) \/ FenceBack(p) \/ FenceEnds(p) \/ ResumeBack(p)
  \/ SourcedRead(p) \/ SourcedTurn(p) \/ StartBack(p, "ctl") \/ SourcedRuns(p)

Background(p) ==
  \/ Admission(p, "bg") \/ BackgroundStarts(p) \/ BackgroundReads(p) \/ BackgroundTurn(p)
  \/ StartBack(p, "bg") \/ BackgroundHandoff(p) \/ BackgroundRuns(p)

Polling(p) == Admission(p, "poll") \/ PollFires(p) \/ PollBack(p)

Status(p) == Admission(p, "snap") \/ SnapshotRead(p) \/ SnapshotBack(p)

Next ==
  \/ \E p \in left.by :
       \/ Calls(p) \/ Control(p) \/ Background(p) \/ Polling(p) \/ Status(p)
       \/ RetryFires(p) \/ StopReturns(p)
  \/ ExpireLease \/ Drive

\* The event loop goes on with what is ready, and the tail of executions is
\* first come, first served; nothing obliges anybody to call, a lease to expire
\* or the drive to come back.
Fairness ==
  \A p \in Process :
    /\ WF_vars(Control(p)) /\ WF_vars(Background(p)) /\ WF_vars(Polling(p))
    /\ SF_vars(SourcedTurn(p))
    /\ WF_vars(Status(p)) /\ WF_vars(RetryFires(p)) /\ WF_vars(StopReturns(p))

Spec == Init /\ [][Next]_vars
FairSpec == Spec /\ Fairness

----------------------------------------------------------------------------
(* Properties *)

\* The state is made of events, runtimes and threads of their kinds
\* (the variables of createResidentSupervisionRuntime).
TypeOK ==
  /\ \A i \in DOMAIN ledger : /\ ledger[i].kind \in {"lease", "paused", "resumed", "source"}
                              /\ ledger[i].by \in Process \cup {"none"}
  /\ expired \subseteq {i \in DOMAIN ledger : ledger[i].kind = "lease"}
  /\ mounted \in BOOLEAN
  /\ \A p \in Process :
       /\ svc[p].wake \in Runtime \cup {0} /\ svc[p].sourced \in Runtime \cup {0}
       /\ svc[p].pend \in Nat /\ svc[p].timer \in {0} \cup DOMAIN ledger
       /\ svc[p].bg \in {"idle", "scheduled", "running"}
       /\ svc[p].exec \in {"none", "ctl", "bg"}
       /\ \A t \in Thread : job[p][t].rt \in Runtime \cup {0}
       /\ \A r \in Runtime : rts[p][r].lease \in {0} \cup DOMAIN ledger

\* At any time one supervision lease of the workspace binds, although every
\* claim is decided on a ledger read before and some by a clock that stands
\* still (readOrAcquireSupervisorLease, appendAndReadBack).
OneLiveLease == Cardinality(LiveLeases(ledger, expired)) <= 1

\* Once pause or stop has returned, and until a resume begins or a pause
\* fails, the service executes nothing: no task was under way when it
\* returned and none is started by a cycle, a retry, a rescan or a sourced
\* call that was decided before (pause, quiesceBackgroundExecution, stop).
QuietIsIdle ==
  \A p \in Process : quiet[p] =>
    ~svc[p].active /\ svc[p].exec = "none" /\ ~ \E t \in Thread : job[p][t].at \in {"run", "effects"}

\* A service executes one task at a time, under one wake: a sourced
\* investigation and the background cycle take turns (serializeResidentExecution).
ExecutionsTakeTurns ==
  \A p \in Process :
    LET running == {t \in Thread : job[p][t].at \in {"run", "effects"}}
    IN running # {} => running = {svc[p].exec} /\ svc[p].active

\* Every pause, resume and sourced call gets its turn and returns, and a
\* stopped service comes to its end, although a pause holds the queue while it
\* waits for the background cycle, and a sourced call while it waits for the
\* turn to execute (serializeSupervisionControl).
CallsReturn ==
  \A p \in Process : /\ []<>(job[p]["ctl"] = Idle /\ queue[p] = <<>>)
                     /\ svc[p].stopped ~> quiet[p]

\* The effects of a task reach the ledger only while no other epoch holds the
\* lease (the design's lease loss, which invalidates the authority).
EffectsUnderOwnLease ==
  [][\A p \in Process :
       (ledger' # ledger /\ ledger'[Len(ledger')] = PlainEvent("source", p))
         => ~ \E i \in LiveLeases(ledger, expired) : ledger[i].by # p]_vars

\* A service runs what it holds, one at a time.
SupervisionIsSound ==
    /\ TypeOK
    /\ ExecutionsTakeTurns
=============================================================================
