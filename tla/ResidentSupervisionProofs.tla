---------------------- MODULE ResidentSupervisionProofs ----------------------
(***************************************************************************)
(* However many services supervise one workspace, one supervision lease    *)
(* binds at a time; each service runs what it holds, one task at a time;   *)
(* and one that has paused or stopped runs nothing.                        *)
(***************************************************************************)
EXTENDS ResidentSupervision, FiniteSetTheorems, WellFoundedInduction, TLAPS

----------------------------------------------------------------------------
(* The kinds of things there are.                                          *)

EventType == [kind : {"lease", "paused", "resumed", "source"}, by : Process \union {"none"},
              start : BOOLEAN, hw : Nat]

ServiceType ==
    [wake : Runtime \union {0}, status : BOOLEAN, pausePending : BOOLEAN, pend : Nat,
     lost : BOOLEAN, stopped : BOOLEAN, active : BOOLEAN, sourced : Runtime \union {0},
     exec : {"none", "ctl", "bg"}, timer : Nat, bg : {"idle", "scheduled", "running"},
     rescan : BOOLEAN, retry : BOOLEAN]

RuntimeType ==
    [dead : BOOLEAN, hw : Int, live : BOOLEAN, over : SUBSET Nat, lease : Nat, lost : BOOLEAN,
     closed : BOOLEAN, paused : BOOLEAN, busy : BOOLEAN, used : BOOLEAN, rev : Nat]

\* The steps of an admission, and the answer to it.
Admitting == {"issue", "begin", "lease", "claim", "wake", "back"}

JobType ==
    [at : Admitting \union {"idle", "read", "turn", "run", "effects", "close", "append",
                            "confirm", "quiesce", "refused"},
     stage : {"", "snap", "pause", "resume", "fence", "sourced", "poll", "bg"},
     rt : Runtime \union {0}, op : {"", "start", "resume", "recover", "poll"}, rev : Nat,
     len : Nat, hw : Nat, got : {"", "accepted", "held", "blocked"}, list : SUBSET Nat]

----------------------------------------------------------------------------
(* A service by itself.                                                    *)

StageOf(t) ==
    CASE t = "snap" -> {"snap"}
      [] t = "ctl" -> {"pause", "resume", "fence", "sourced"}
      [] t = "poll" -> {"poll"}
      [] t = "bg" -> {"bg"}

Running(j) == j.at \in {"run", "effects"}
Working(j) == Running(j) \/ j.at \in Admitting

\* A thread is idle or at a step of a stage of its own, with the runtime it needs.
ThreadOK(t, j) ==
    /\ j \in JobType
    /\ j = Idle \/ (j.at # "idle" /\ j.stage \in StageOf(t))
    /\ Running(j) => j.stage \in {"sourced", "bg"}
    /\ j.at = "issue" => j.rt = 0
    /\ (Working(j) /\ j.at # "issue") \/ j.at \in {"append", "confirm"} => j.rt # 0

\* Who has the turn to execute, and whether it does.
TurnOK(s, c, b) ==
    /\ s.exec = "ctl" <=> c.stage = "sourced" /\ Working(c)
    /\ s.exec = "bg" <=> Working(b)
    /\ s.active <=> Running(c) \/ Running(b)
    /\ s.bg = "running" <=> b.at # "idle"

\* The pauses that were called and have not returned.
Pauses(q) == Cardinality({i \in DOMAIN q : q[i] = "pause"})

PauseOK(s, c, q) ==
    /\ s.pend = Pauses(q) + (IF c.stage = "pause" THEN 1 ELSE 0)
    /\ s.pend # 0 => s.pausePending

\* A quiet service executes nothing, and may not.
QuietOK(s, c, b) ==
    b => /\ ~s.active /\ s.exec = "none"
         /\ s.pausePending \/ s.stopped
         /\ c.stage \notin {"resume", "fence"}

ServiceOK(s, jobs, q, b) ==
    /\ \A t \in Thread : ThreadOK(t, jobs[t])
    /\ TurnOK(s, jobs["ctl"], jobs["bg"])
    /\ PauseOK(s, jobs["ctl"], q)
    /\ QuietOK(s, jobs["ctl"], b)

----------------------------------------------------------------------------
(* The ledger and the leases.                                              *)

WorldOK ==
    /\ ledger \in Seq(EventType)
    /\ expired \subseteq {i \in DOMAIN ledger : ledger[i].kind = "lease"}
    /\ mounted \in BOOLEAN
    /\ tasks \subseteq Nat
    /\ left \in BudgetType

ServicesOK ==
    /\ svc \in [Process -> ServiceType]
    /\ job \in [Process -> [Thread -> JobType]]
    /\ queue \in [Process -> Seq({"pause", "resume", "sourced"})]
    /\ quiet \in [Process -> BOOLEAN]
    /\ \A p \in Process : ServiceOK(svc[p], job[p], queue[p], quiet[p])

\* The timer and the runtimes know leases of the ledger, and of its expiries
\* those there were when a clock was fixed.
TimersOK == \A p \in Process : svc[p].timer <= Len(ledger)

RuntimesOK ==
    /\ rts \in [Process -> [Runtime -> RuntimeType]]
    /\ \A p \in Process : \A r \in Runtime :
          rts[p][r].lease <= Len(ledger) /\ rts[p][r].over \subseteq expired

\* A claim that may still be appended finds no lease that binds.
ClaimsAreFree ==
    \A p \in Process : \A t \in Thread :
        job[p][t].at = "claim" =>
            /\ job[p][t].len <= Len(ledger)
            /\ job[p][t].len = Len(ledger) => LiveLeases(ledger, expired) = {}

OneBinds == \A i, j \in LiveLeases(ledger, expired) : i = j

\* The inductive invariant.
IInv ==
    /\ WorldOK
    /\ ServicesOK
    /\ TimersOK
    /\ RuntimesOK
    /\ ClaimsAreFree
    /\ OneBinds

----------------------------------------------------------------------------
(* The ledger.                                                             *)

LEMMA Events ==
    ASSUME NEW log \in Seq(EventType)
    PROVE  /\ Len(log) \in Nat /\ DOMAIN log = 1..Len(log)
           /\ \A i \in 1..Len(log) : log[i] \in EventType
OBVIOUS

LEMMA Grown ==
    ASSUME NEW log \in Seq(EventType), NEW e \in EventType
    PROVE  /\ Append(log, e) \in Seq(EventType)
           /\ Len(log) \in Nat /\ Len(Append(log, e)) = Len(log) + 1
           /\ DOMAIN log = 1..Len(log) /\ DOMAIN Append(log, e) = 1..(Len(log) + 1)
           /\ \A i \in 1..Len(log) : Append(log, e)[i] = log[i]
           /\ Append(log, e)[Len(log) + 1] = e
OBVIOUS

LEMMA EventsMade ==
    ASSUME NEW p \in Process \union {"none"}, NEW start \in BOOLEAN, NEW hw \in Nat,
           NEW kind \in {"paused", "resumed", "source"}
    PROVE  LeaseEvent(p, start, hw) \in EventType /\ PlainEvent(kind, p) \in EventType
BY DEF LeaseEvent, PlainEvent, EventType

\* A set of numbers has a least one.
LEMMA LeastExists ==
    ASSUME NEW T, T \subseteq Nat, T # {}
    PROVE  \E n \in T : \A m \in T : n <= m
<1> DEFINE R == {ss \in Nat \X Nat : ss[1] < ss[2]}
<1>1. IsWellFoundedOn(R, Nat)
  BY NatLessThanWellFounded DEF OpToRel
<1> HIDE DEF R
<1>2. PICK n \in T : \A m \in T : ~(<<m, n>> \in R)
  BY <1>1, WFMin
<1>3. \A m \in T : ~(m < n)
  BY <1>2 DEF R
<1>. QED  BY <1>3

\* A bounded one has a greatest.
LEMMA GreatestExists ==
    ASSUME NEW n \in Nat, NEW T, T \subseteq 1..n, T # {}
    PROVE  \E i \in T : \A j \in T : j <= i
<1> DEFINE U == {m \in Nat : \E i \in T : m = n - i}
<1>1. U \subseteq Nat /\ U # {}
  <2>1. PICK i \in T : TRUE
    OBVIOUS
  <2>2. n - i \in U
    OBVIOUS
  <2>. QED  BY <2>2
<1>2. PICK u \in U : \A v \in U : u <= v
  BY <1>1, LeastExists
<1>3. PICK i \in T : u = n - i
  OBVIOUS
<1>4. \A j \in T : n - i <= n - j
  BY <1>2, <1>3
<1>. QED  BY <1>4

LEMMA LatestType ==
    ASSUME NEW log \in Seq(EventType), NEW kinds
    PROVE  LatestOf(log, kinds) \in 0..Len(log)
<1> DEFINE T == {i \in DOMAIN log : log[i].kind \in kinds}
<1>1. Len(log) \in Nat /\ T \subseteq 1..Len(log)
  BY Events
<1>2. CASE T = {}
  BY <1>1, <1>2 DEF LatestOf
<1>3. CASE T # {}
  <2>1. \E i \in T : \A j \in T : j <= i
    BY <1>1, <1>3, GreatestExists
  <2>2. LatestOf(log, kinds) = CHOOSE i \in T : \A j \in T : j <= i
    BY <1>3 DEF LatestOf
  <2>3. LatestOf(log, kinds) \in T
    BY <2>1, <2>2
  <2>. QED  BY <1>1, <2>3
<1>. QED  BY <1>2, <1>3

LEMMA NextWakeType ==
    ASSUME NEW log \in Seq(EventType), NEW over
    PROVE  NextWake(log, over) \in 0..Len(log)
<1> DEFINE T == {i \in DOMAIN log : log[i].kind = "lease" /\ i \notin over}
<1>1. Len(log) \in Nat /\ T \subseteq 1..Len(log)
  BY Events
<1>2. CASE IsPaused(log) \/ T = {}
  BY <1>1, <1>2 DEF NextWake
<1>3. CASE ~IsPaused(log) /\ T # {}
  <2>1. \E i \in T : \A j \in T : j <= i
    BY <1>1, <1>3, GreatestExists
  <2>2. NextWake(log, over) = CHOOSE i \in T : \A j \in T : j <= i
    BY <1>3 DEF NextWake
  <2>3. NextWake(log, over) \in T
    BY <2>1, <2>2
  <2>. QED  BY <1>1, <2>3
<1>. QED  BY <1>2, <1>3

\* A clock that stands still sees every lease that binds.
LEMMA LiveByAnOldClock ==
    ASSUME NEW log, NEW over, NEW sooner, sooner \subseteq over
    PROVE  LiveLeases(log, over) \subseteq LiveLeases(log, sooner)
BY DEF LiveLeases

\* No event but a lease makes a lease bind.
LEMMA LiveShrinks ==
    ASSUME NEW log \in Seq(EventType), NEW e \in EventType, e.kind # "lease", NEW over
    PROVE  LiveLeases(Append(log, e), over) \subseteq LiveLeases(log, over)
<1> SUFFICES ASSUME NEW i \in LiveLeases(Append(log, e), over)
             PROVE  i \in LiveLeases(log, over)
  OBVIOUS
<1> DEFINE new == Append(log, e)
<1>1. /\ Len(log) \in Nat /\ DOMAIN log = 1..Len(log) /\ DOMAIN new = 1..(Len(log) + 1)
      /\ \A k \in 1..Len(log) : new[k] = log[k]
      /\ new[Len(log) + 1] = e
  BY Grown
<1> HIDE DEF new
<1>2. /\ i \in DOMAIN new /\ new[i].kind = "lease" /\ i \notin over
      /\ ~ \E j \in DOMAIN new : j > i /\ new[j].kind = "paused" /\ new[j].by = new[i].by
  BY DEF LiveLeases, new
<1>3. i \in 1..Len(log) /\ new[i] = log[i]
  BY <1>1, <1>2
<1>4. ~ \E j \in DOMAIN log : j > i /\ log[j].kind = "paused" /\ log[j].by = log[i].by
  BY <1>1, <1>2, <1>3
<1>. QED  BY <1>1, <1>2, <1>3, <1>4 DEF LiveLeases

\* A lease claimed when none binds is the only one that does.
LEMMA OneClaimed ==
    ASSUME NEW log \in Seq(EventType), NEW e \in EventType, NEW over,
           LiveLeases(log, over) = {}
    PROVE  LiveLeases(Append(log, e), over) \subseteq {Len(log) + 1}
<1> SUFFICES ASSUME NEW i \in LiveLeases(Append(log, e), over), i # Len(log) + 1
             PROVE  FALSE
  OBVIOUS
<1> DEFINE new == Append(log, e)
<1>1. /\ Len(log) \in Nat /\ DOMAIN log = 1..Len(log) /\ DOMAIN new = 1..(Len(log) + 1)
      /\ \A k \in 1..Len(log) : new[k] = log[k]
  BY Grown
<1> HIDE DEF new
<1>2. /\ i \in DOMAIN new /\ new[i].kind = "lease" /\ i \notin over
      /\ ~ \E j \in DOMAIN new : j > i /\ new[j].kind = "paused" /\ new[j].by = new[i].by
  BY DEF LiveLeases, new
<1>3. i \in 1..Len(log) /\ new[i] = log[i]
  BY <1>1, <1>2
<1>4. ~ \E j \in DOMAIN log : j > i /\ log[j].kind = "paused" /\ log[j].by = log[i].by
  BY <1>1, <1>2, <1>3
<1>5. i \in LiveLeases(log, over)
  BY <1>1, <1>2, <1>3, <1>4 DEF LiveLeases
<1>. QED  BY <1>5

----------------------------------------------------------------------------
(* The queue of calls.                                                     *)

LEMMA PausesType ==
    ASSUME NEW q \in Seq({"pause", "resume", "sourced"})
    PROVE  Pauses(q) \in Nat /\ IsFiniteSet({i \in DOMAIN q : q[i] = "pause"})
<1>1. Len(q) \in Nat /\ DOMAIN q = 1..Len(q)
  OBVIOUS
<1>2. IsFiniteSet(1..Len(q))
  BY <1>1, FS_Interval
<1>3. {i \in DOMAIN q : q[i] = "pause"} \in SUBSET (1..Len(q))
  BY <1>1
<1>4. IsFiniteSet({i \in DOMAIN q : q[i] = "pause"})
  BY <1>2, <1>3, FS_Subset
<1>. QED  BY <1>4, FS_CardinalityType DEF Pauses

LEMMA PausesAppended ==
    ASSUME NEW q \in Seq({"pause", "resume", "sourced"}),
           NEW op \in {"pause", "resume", "sourced"}
    PROVE  Pauses(Append(q, op)) = Pauses(q) + (IF op = "pause" THEN 1 ELSE 0)
<1> DEFINE at == {i \in DOMAIN q : q[i] = "pause"}
           new == Append(q, op)
<1>1. /\ Len(q) \in Nat /\ DOMAIN q = 1..Len(q) /\ DOMAIN new = 1..(Len(q) + 1)
      /\ \A i \in 1..Len(q) : new[i] = q[i]
      /\ new[Len(q) + 1] = op
  OBVIOUS
<1>2. IsFiniteSet(at) /\ Pauses(q) = Cardinality(at) /\ Pauses(q) \in Nat
  BY PausesType DEF Pauses
<1>3. Len(q) + 1 \notin at
  BY <1>1
<1> HIDE DEF new
<1>4. CASE op = "pause"
  <2>1. {i \in DOMAIN new : new[i] = "pause"} = at \union {Len(q) + 1}
    BY <1>1, <1>4
  <2>. QED  BY <1>2, <1>3, <1>4, <2>1, FS_AddElement DEF Pauses, new
<1>5. CASE op # "pause"
  <2>1. {i \in DOMAIN new : new[i] = "pause"} = at
    BY <1>1, <1>5
  <2>2. Pauses(new) = Pauses(q)
    BY <1>2, <2>1 DEF Pauses
  <2>. QED  BY <1>2, <1>5, <2>2 DEF new
<1>. QED  BY <1>4, <1>5

LEMMA PausesTaken ==
    ASSUME NEW q \in Seq({"pause", "resume", "sourced"}), q # <<>>
    PROVE  /\ Tail(q) \in Seq({"pause", "resume", "sourced"})
           /\ Head(q) \in {"pause", "resume", "sourced"}
           /\ Pauses(q) = Pauses(Tail(q)) + (IF Head(q) = "pause" THEN 1 ELSE 0)
<1> DEFINE rest == Tail(q)
           at == {i \in DOMAIN q : q[i] = "pause"}
           later == {i \in DOMAIN rest : rest[i] = "pause"}
           f == [i \in later |-> i + 1]
<1>1. /\ Len(q) \in Nat /\ Len(q) >= 1 /\ DOMAIN q = 1..Len(q)
      /\ rest \in Seq({"pause", "resume", "sourced"})
      /\ DOMAIN rest = 1..(Len(q) - 1)
      /\ \A i \in 1..(Len(q) - 1) : rest[i] = q[i + 1]
      /\ Head(q) = q[1] /\ Head(q) \in {"pause", "resume", "sourced"}
  OBVIOUS
<1> HIDE DEF rest
<1>2. /\ IsFiniteSet(at) /\ Pauses(q) = Cardinality(at)
      /\ IsFiniteSet(later) /\ Pauses(rest) = Cardinality(later) /\ Pauses(rest) \in Nat
  BY <1>1, PausesType DEF Pauses
<1>3. f \in Bijection(later, at \ {1})
  <2>1. f \in [later -> at \ {1}]
    BY <1>1
  <2>2. \A a, b \in later : f[a] = f[b] => a = b
    BY <1>1
  <2>3. \A b \in at \ {1} : \E a \in later : f[a] = b
    <3> SUFFICES ASSUME NEW b \in at \ {1}
                 PROVE  b - 1 \in later /\ f[b - 1] = b
      OBVIOUS
    <3>. QED  BY <1>1
  <2>. QED  BY <2>1, <2>2, <2>3 DEF Bijection, Injection, Surjection, IsInjective
<1>4. Cardinality(at \ {1}) = Cardinality(later)
  BY <1>2, <1>3, FS_Bijection DEF ExistsBijection
<1>5. 1 \in at <=> Head(q) = "pause"
  BY <1>1
<1>6. Cardinality(at \ {1}) = IF 1 \in at THEN Cardinality(at) - 1 ELSE Cardinality(at)
  BY <1>2, FS_RemoveElement
<1>7. Cardinality(at) \in Nat
  BY <1>2, FS_CardinalityType
<1> HIDE DEF at, later
<1>. QED  BY <1>1, <1>2, <1>4, <1>5, <1>6, <1>7 DEF rest

----------------------------------------------------------------------------
(* Changes to a service's variables.                                       *)

\* A change that is not of the turn to execute, of the pauses or of stop.
Soft(s, u) ==
    /\ u \in ServiceType
    /\ u.exec = s.exec /\ u.active = s.active /\ u.pend = s.pend /\ u.stopped = s.stopped
    /\ u.bg = "running" <=> s.bg = "running"
    /\ s.pausePending => u.pausePending

LEMMA SoftAgain ==
    ASSUME NEW s, NEW u, NEW v, Soft(s, u), Soft(u, v)
    PROVE  Soft(s, v)
BY DEF Soft

LEMMA ForgetIsSoft ==
    ASSUME NEW s \in ServiceType, NEW r
    PROVE  /\ Soft(s, Forget(s, r)) /\ Forget(s, r).timer = s.timer
           /\ Forget(s, r).bg = s.bg /\ Forget(s, r).pausePending = s.pausePending
BY DEF Forget, Soft, ServiceType

LEMMA ScheduleIsSoft ==
    ASSUME NEW s \in ServiceType
    PROVE  /\ Soft(s, Schedule(s)) /\ Schedule(s).timer = s.timer
           /\ Schedule(s).pausePending = s.pausePending
<1>1. CASE s.stopped \/ s.pausePending
  BY <1>1 DEF Schedule, Soft
<1>2. CASE ~(s.stopped \/ s.pausePending) /\ s.bg = "idle"
  BY <1>2 DEF Schedule, Soft, ServiceType
<1>3. CASE ~(s.stopped \/ s.pausePending) /\ s.bg # "idle"
  BY <1>3 DEF Schedule, Soft, ServiceType
<1>. QED  BY <1>1, <1>2, <1>3

LEMMA WakeAtIsSoft ==
    ASSUME NEW s \in ServiceType, ledger \in Seq(EventType)
    PROVE  /\ Soft(s, WakeAt(s)) /\ WakeAt(s).timer <= Len(ledger)
           /\ WakeAt(s).pausePending = s.pausePending
<1>1. NextWake(ledger, expired) \in 0..Len(ledger) /\ Len(ledger) \in Nat
  BY NextWakeType, Events
<1>. QED  BY <1>1 DEF WakeAt, Soft, ServiceType

LEMMA CycleIsOver ==
    ASSUME NEW s \in ServiceType, NEW failed \in BOOLEAN
    PROVE  LET u == CycleOver(s, failed)
           IN /\ u \in ServiceType /\ u.bg # "running"
              /\ u.exec = s.exec /\ u.active = s.active /\ u.pend = s.pend
              /\ u.stopped = s.stopped /\ u.pausePending = s.pausePending /\ u.timer = s.timer
<1> DEFINE t == [s EXCEPT !.bg = "idle", !.rescan = FALSE,
                          !.retry = failed /\ ~s.stopped /\ ~s.pausePending]
<1>1. /\ t \in ServiceType /\ t.bg = "idle"
      /\ t.exec = s.exec /\ t.active = s.active /\ t.pend = s.pend
      /\ t.stopped = s.stopped /\ t.pausePending = s.pausePending /\ t.timer = s.timer
  BY DEF ServiceType
<1>2. CycleOver(s, failed) = IF s.rescan THEN Schedule(t) ELSE t
  BY DEF CycleOver
<1> HIDE DEF t
<1>3. Soft(t, Schedule(t)) /\ Schedule(t).timer = t.timer
      /\ Schedule(t).pausePending = t.pausePending
  BY <1>1, ScheduleIsSoft
<1>. QED  BY <1>1, <1>2, <1>3 DEF Soft

----------------------------------------------------------------------------
(* Steps of the ledger and of the runtimes.                                *)

\* The ledger and the leases expired may grow; no lease comes to bind but a
\* new one, and one that may.
LedgerSteps ==
    /\ WorldOK' /\ OneBinds'
    /\ Len(ledger) <= Len(ledger') /\ expired \subseteq expired'
    /\ Len(ledger') = Len(ledger) =>
         LiveLeases(ledger, expired)' \subseteq LiveLeases(ledger, expired)

LEMMA LedgerStays ==
    ASSUME IInv, UNCHANGED <<ledger, expired>>, mounted' \in BOOLEAN, tasks' \subseteq Nat,
           left' \in BudgetType
    PROVE  LedgerSteps
<1>1. Len(ledger) \in Nat
  BY Events DEF IInv, WorldOK
<1>. QED  BY <1>1 DEF IInv, WorldOK, OneBinds, LedgerSteps

LEMMA LedgerGrows ==
    ASSUME IInv, NEW e \in EventType, ledger' = Append(ledger, e),
           e.kind = "lease" => LiveLeases(ledger, expired) = {},
           UNCHANGED <<expired, mounted>>, tasks' \subseteq Nat, left' \in BudgetType
    PROVE  LedgerSteps
<1>1. /\ ledger \in Seq(EventType) /\ expired \subseteq DOMAIN ledger
      /\ \A i \in expired : ledger[i].kind = "lease"
  BY DEF IInv, WorldOK
<1>2. /\ ledger' \in Seq(EventType)
      /\ Len(ledger) \in Nat /\ Len(ledger') = Len(ledger) + 1
      /\ DOMAIN ledger = 1..Len(ledger) /\ DOMAIN ledger' = 1..(Len(ledger) + 1)
      /\ \A i \in 1..Len(ledger) : ledger'[i] = ledger[i]
  BY <1>1, Grown
<1>3. \A i \in expired : i \in DOMAIN ledger' /\ ledger'[i].kind = "lease"
  BY <1>1, <1>2
<1>4. WorldOK'
  BY <1>2, <1>3 DEF IInv, WorldOK
<1>5. OneBinds'
  <2>1. CASE e.kind = "lease"
    BY <1>1, <2>1, OneClaimed DEF OneBinds
  <2>2. CASE e.kind # "lease"
    BY <1>1, <2>2, LiveShrinks DEF OneBinds, IInv
  <2>. QED  BY <2>1, <2>2
<1>6. Len(ledger) <= Len(ledger') /\ Len(ledger') # Len(ledger)
  <2>1. \A n \in Nat : \A m : m = n + 1 => n <= m /\ m # n
    OBVIOUS
  <2>2. Len(ledger) \in Nat /\ Len(ledger') = Len(ledger) + 1
    BY <1>2
  <2>. QED  BY <2>1, <2>2, Zenon
<1>7. expired \subseteq expired'
  OBVIOUS
<1>. QED  BY <1>4, <1>5, <1>6, <1>7 DEF LedgerSteps

LEMMA BudgetSpent ==
    ASSUME left \in BudgetType,
           NEW k \in {"snapshot", "pause", "resume", "sourced", "stop", "admit", "loss", "expire"},
           Spend(k)
    PROVE  left' \in BudgetType /\ left'.by = left.by
BY DEF Spend, BudgetType

\* A service's runtimes may change to any that know what the ledger shows.
LEMMA RuntimesChange ==
    ASSUME IInv, LedgerSteps, NEW p \in Process, NEW f \in [Runtime -> RuntimeType],
           rts' = [rts EXCEPT ![p] = f],
           \A r \in Runtime : f[r].lease <= Len(ledger') /\ f[r].over \subseteq expired'
    PROVE  RuntimesOK'
<1>1. rts' \in [Process -> [Runtime -> RuntimeType]]
  BY DEF IInv, RuntimesOK
<1>2. ASSUME NEW x \in Process, NEW r \in Runtime
      PROVE  rts'[x][r].lease <= Len(ledger') /\ rts'[x][r].over \subseteq expired'
  <2>1. CASE x = p
    BY <2>1 DEF IInv, RuntimesOK
  <2>2. CASE x # p
    <3>1. rts'[x][r] = rts[x][r] /\ rts[x][r].lease \in Nat
      BY <2>2 DEF IInv, RuntimesOK, RuntimeType
    <3>2. rts[x][r].lease <= Len(ledger) /\ rts[x][r].over \subseteq expired
      BY DEF IInv, RuntimesOK
    <3>3. Len(ledger) \in Nat /\ Len(ledger') \in Nat
      BY Events DEF IInv, WorldOK, LedgerSteps
    <3>. QED  BY <3>1, <3>2, <3>3 DEF LedgerSteps
  <2>. QED  BY <2>1, <2>2
<1>. QED  BY <1>1, <1>2 DEF RuntimesOK

LEMMA RuntimesStay ==
    ASSUME IInv, LedgerSteps, UNCHANGED rts
    PROVE  RuntimesOK'
<1>1. Len(ledger) \in Nat /\ Len(ledger') \in Nat
  BY Events DEF IInv, WorldOK, LedgerSteps
<1>2. \A x \in Process, r \in Runtime : rts[x][r].lease \in Nat
  BY DEF IInv, RuntimesOK, RuntimeType
<1>. QED  BY <1>1, <1>2 DEF IInv, RuntimesOK, LedgerSteps

LEMMA RuntimeUsed ==
    ASSUME IInv, LedgerSteps, NEW p \in Process, NEW r \in Runtime, NEW rec \in RuntimeType,
           UseRuntime(p, r, rec), rec.lease <= Len(ledger'), rec.over \subseteq expired'
    PROVE  RuntimesOK'
<1> DEFINE f == [rts[p] EXCEPT ![r] = rec]
<1>1. f \in [Runtime -> RuntimeType] /\ rts' = [rts EXCEPT ![p] = f]
  BY DEF IInv, RuntimesOK, UseRuntime
<1>2. ASSUME NEW x \in Runtime
      PROVE  f[x].lease <= Len(ledger') /\ f[x].over \subseteq expired'
  <2>1. CASE x = r
    BY <2>1 DEF IInv, RuntimesOK
  <2>2. CASE x # r
    <3>1. f[x] = rts[p][x] /\ rts[p][x].lease \in Nat
      BY <2>2 DEF IInv, RuntimesOK, RuntimeType
    <3>2. rts[p][x].lease <= Len(ledger) /\ rts[p][x].over \subseteq expired
      BY DEF IInv, RuntimesOK
    <3>3. Len(ledger) \in Nat /\ Len(ledger') \in Nat
      BY Events DEF IInv, WorldOK, LedgerSteps
    <3>. QED  BY <3>1, <3>2, <3>3 DEF LedgerSteps
  <2>. QED  BY <2>1, <2>2
<1> HIDE DEF f
<1>. QED  BY <1>1, <1>2, RuntimesChange

LEMMA RuntimesMade ==
    ASSUME expired \in SUBSET Nat, NEW live \in BOOLEAN
    PROVE  /\ NewRuntime(live) \in RuntimeType /\ DeadRuntime \in RuntimeType
           /\ NewRuntime(live).lease = 0 /\ DeadRuntime.lease = 0
           /\ NewRuntime(live).over \subseteq expired /\ DeadRuntime.over = {}
<1>1. /\ NewRuntime(live) \in RuntimeType /\ NewRuntime(TRUE) \in RuntimeType
      /\ NewRuntime(live).lease = 0 /\ NewRuntime(TRUE).lease = 0
      /\ NewRuntime(live).over \subseteq expired /\ NewRuntime(TRUE).over = {}
  BY DEF NewRuntime, RuntimeType
<1>. QED  BY <1>1 DEF DeadRuntime, RuntimeType

LEMMA NewRuntimeType ==
    ASSUME IInv, NEW live \in BOOLEAN
    PROVE  /\ NewRuntime(live) \in RuntimeType /\ DeadRuntime \in RuntimeType
           /\ NewRuntime(live).lease = 0 /\ DeadRuntime.lease = 0
           /\ NewRuntime(live).over \subseteq expired /\ DeadRuntime.over = {}
<1>1. expired \in SUBSET Nat
  BY Events DEF IInv, WorldOK
<1>. QED  BY <1>1, RuntimesMade

LEMMA RuntimeStopped ==
    ASSUME IInv, LedgerSteps, NEW p \in Process, NEW r, Stop(p, r)
    PROVE  RuntimesOK'
<1> DEFINE f == [x \in Runtime |-> IF x = r THEN DeadRuntime ELSE rts[p][x]]
<1>1. /\ DeadRuntime \in RuntimeType /\ DeadRuntime.lease = 0 /\ DeadRuntime.over = {}
  BY NewRuntimeType
<1>2. f \in [Runtime -> RuntimeType] /\ rts' = [rts EXCEPT ![p] = f]
  BY <1>1 DEF IInv, RuntimesOK, Stop
<1>3. ASSUME NEW x \in Runtime
      PROVE  f[x].lease <= Len(ledger') /\ f[x].over \subseteq expired'
  <2>3. Len(ledger) \in Nat /\ Len(ledger') \in Nat
    BY Events DEF IInv, WorldOK, LedgerSteps
  <2>1. CASE x = r
    BY <1>1, <2>1, <2>3
  <2>2. CASE x # r
    <3>1. f[x] = rts[p][x] /\ rts[p][x].lease \in Nat
      BY <2>2 DEF IInv, RuntimesOK, RuntimeType
    <3>2. rts[p][x].lease <= Len(ledger) /\ rts[p][x].over \subseteq expired
      BY DEF IInv, RuntimesOK
    <3>. QED  BY <3>1, <3>2, <2>3 DEF LedgerSteps
  <2>. QED  BY <2>1, <2>2
<1> HIDE DEF f
<1>. QED  BY <1>2, <1>3, RuntimesChange

----------------------------------------------------------------------------
(* Steps of a service.                                                     *)

Op == {"pause", "resume", "sourced"}

LEMMA Here ==
    ASSUME IInv, NEW p \in Process
    PROVE  /\ svc[p] \in ServiceType /\ svc[p].timer <= Len(ledger)
           /\ job[p] \in [Thread -> JobType] /\ queue[p] \in Seq(Op) /\ quiet[p] \in BOOLEAN
           /\ \A t \in Thread : job[p][t] \in JobType /\ ThreadOK(t, job[p][t])
           /\ TurnOK(svc[p], job[p]["ctl"], job[p]["bg"])
           /\ PauseOK(svc[p], job[p]["ctl"], queue[p])
           /\ QuietOK(svc[p], job[p]["ctl"], quiet[p])
           /\ ledger \in Seq(EventType) /\ Len(ledger) \in Nat
<1>1. \A t \in Thread : job[p][t] \in JobType
  BY DEF IInv, ServicesOK
<1>. QED  BY <1>1, Events DEF IInv, WorldOK, ServicesOK, ServiceOK, TimersOK, Op

\* A claim may still be appended only if no lease binds.
MayClaim(j) ==
    j.at = "claim" => /\ j.len <= Len(ledger)
                      /\ j.len = Len(ledger) => LiveLeases(ledger, expired) = {}

LEMMA ClaimsKeep ==
    ASSUME IInv, LedgerSteps, NEW j \in JobType, MayClaim(j)
    PROVE  j.at = "claim" =>
             /\ j.len <= Len(ledger')
             /\ j.len = Len(ledger') => LiveLeases(ledger, expired)' = {}
<1> SUFFICES ASSUME j.at = "claim"
             PROVE  /\ j.len <= Len(ledger')
                    /\ j.len = Len(ledger') => LiveLeases(ledger, expired)' = {}
  OBVIOUS
<1>1. Len(ledger) \in Nat /\ Len(ledger') \in Nat
  BY Events DEF IInv, WorldOK, LedgerSteps
<1>2. j.len \in Nat /\ j.len <= Len(ledger) /\ Len(ledger) <= Len(ledger')
  BY DEF JobType, MayClaim, LedgerSteps
<1>3. j.len <= Len(ledger')
  BY <1>1, <1>2
<1>4. ASSUME j.len = Len(ledger') PROVE LiveLeases(ledger, expired)' = {}
  <2>1. j.len = Len(ledger) /\ Len(ledger') = Len(ledger)
    BY <1>1, <1>2, <1>4
  <2>. QED  BY <2>1 DEF MayClaim, LedgerSteps
<1>. QED  BY <1>3, <1>4

\* One service's variables, one of its threads and its queue change.
LEMMA ServiceSteps ==
    ASSUME IInv, LedgerSteps, RuntimesOK', NEW p \in Process, NEW t \in Thread,
           NEW s \in ServiceType, NEW j \in JobType, NEW q \in Seq(Op), NEW b \in BOOLEAN,
           NEW c \in JobType, NEW g \in JobType,
           svc' = [svc EXCEPT ![p] = s], job' = [job EXCEPT ![p][t] = j],
           queue' = [queue EXCEPT ![p] = q], quiet' = [quiet EXCEPT ![p] = b],
           s.timer <= Len(ledger), MayClaim(j), ThreadOK(t, j),
           c = IF t = "ctl" THEN j ELSE job[p]["ctl"],
           g = IF t = "bg" THEN j ELSE job[p]["bg"],
           TurnOK(s, c, g), PauseOK(s, c, q), QuietOK(s, c, b)
    PROVE  IInv'
<1>1. /\ svc \in [Process -> ServiceType] /\ job \in [Process -> [Thread -> JobType]]
      /\ queue \in [Process -> Seq(Op)] /\ quiet \in [Process -> BOOLEAN]
      /\ \A x \in Process : ServiceOK(svc[x], job[x], queue[x], quiet[x])
  BY DEF IInv, ServicesOK, Op
<1>2. /\ svc' \in [Process -> ServiceType] /\ job' \in [Process -> [Thread -> JobType]]
      /\ queue' \in [Process -> Seq(Op)] /\ quiet' \in [Process -> BOOLEAN]
  <2>1. job' \in [Process -> [Thread -> JobType]]
    BY <1>1
  <2>. QED  BY <1>1, <2>1
<1>3. /\ svc'[p] = s /\ queue'[p] = q /\ quiet'[p] = b
      /\ job'[p]["ctl"] = c /\ job'[p]["bg"] = g /\ job'[p][t] = j
      /\ \A u \in Thread : u # t => job'[p][u] = job[p][u]
      /\ \A x \in Process : x # p => /\ svc'[x] = svc[x] /\ job'[x] = job[x]
                                     /\ queue'[x] = queue[x] /\ quiet'[x] = quiet[x]
  BY <1>1 DEF Thread
<1>4. ServicesOK'
  <2>1. ASSUME NEW x \in Process
        PROVE  ServiceOK(svc'[x], job'[x], queue'[x], quiet'[x])
    <3>1. CASE x = p
      <4>1. \A u \in Thread : ThreadOK(u, job'[p][u])
        BY <1>1, <1>3 DEF ServiceOK
      <4>. QED  BY <1>3, <3>1, <4>1 DEF ServiceOK
    <3>2. CASE x # p
      BY <1>1, <1>3, <3>2
    <3>. QED  BY <3>1, <3>2
  <2>. QED  BY <1>2, <2>1 DEF ServicesOK, Op
<1>5. TimersOK'
  <2>1. ASSUME NEW x \in Process PROVE svc'[x].timer <= Len(ledger')
    <3>1. Len(ledger) \in Nat /\ Len(ledger') \in Nat /\ Len(ledger) <= Len(ledger')
      BY Events DEF IInv, WorldOK, LedgerSteps
    <3>2. svc'[x].timer \in Nat /\ svc'[x].timer <= Len(ledger)
      BY <1>1, <1>2, <1>3 DEF IInv, TimersOK, ServiceType
    <3>. QED  BY <3>1, <3>2
  <2>. QED  BY <2>1 DEF TimersOK
<1>6. ClaimsAreFree'
  <2>1. ASSUME NEW x \in Process, NEW u \in Thread
        PROVE  job'[x][u].at = "claim" =>
                 /\ job'[x][u].len <= Len(ledger')
                 /\ job'[x][u].len = Len(ledger') => LiveLeases(ledger, expired)' = {}
    <3>1. \A y \in Process, v \in Thread : MayClaim(job[y][v]) /\ job[y][v] \in JobType
      BY <1>1 DEF IInv, ClaimsAreFree, MayClaim
    <3>2. CASE x = p /\ u = t
      BY <1>3, <3>2, ClaimsKeep
    <3>3. CASE ~(x = p /\ u = t)
      <4>1. job'[x][u] = job[x][u]
        BY <1>3, <3>3
      <4>. QED  BY <3>1, <4>1, ClaimsKeep
    <3>. QED  BY <3>2, <3>3
  <2>. QED  BY <2>1 DEF ClaimsAreFree
<1>. QED  BY <1>4, <1>5, <1>6 DEF IInv, LedgerSteps

\* The status request and the poll move: their step is not an execution's.
LEMMA AsideSteps ==
    ASSUME IInv, LedgerSteps, RuntimesOK', NEW p \in Process, NEW t \in {"snap", "poll"},
           NEW s \in ServiceType, NEW j \in JobType,
           svc' = [svc EXCEPT ![p] = s], job' = [job EXCEPT ![p][t] = j],
           UNCHANGED <<queue, quiet>>,
           Soft(svc[p], s), s.timer <= Len(ledger), MayClaim(j), ThreadOK(t, j)
    PROVE  IInv'
<1> DEFINE c == job[p]["ctl"]
           g == job[p]["bg"]
<1>1. /\ c \in JobType /\ g \in JobType /\ queue[p] \in Seq(Op) /\ quiet[p] \in BOOLEAN
      /\ TurnOK(svc[p], c, g) /\ PauseOK(svc[p], c, queue[p]) /\ QuietOK(svc[p], c, quiet[p])
      /\ svc[p] \in ServiceType
  BY Here DEF Thread
<1>2. queue' = [queue EXCEPT ![p] = queue[p]] /\ quiet' = [quiet EXCEPT ![p] = quiet[p]]
  BY DEF IInv, ServicesOK
<1>3. t \in Thread /\ t # "ctl" /\ t # "bg"
  BY DEF Thread
<1> HIDE DEF c, g
<1>4. TurnOK(s, c, g)
  BY <1>1 DEF Soft, TurnOK
<1>5. PauseOK(s, c, queue[p])
  BY <1>1 DEF Soft, PauseOK
<1>6. QuietOK(s, c, quiet[p])
  BY <1>1 DEF Soft, QuietOK
<1>. QED  BY <1>1, <1>2, <1>3, <1>4, <1>5, <1>6, ServiceSteps DEF c, g

\* The thread of the calls moves.
LEMMA ControlSteps ==
    ASSUME IInv, LedgerSteps, RuntimesOK', NEW p \in Process,
           NEW s \in ServiceType, NEW j \in JobType, NEW b \in BOOLEAN,
           svc' = [svc EXCEPT ![p] = s], job' = [job EXCEPT ![p]["ctl"] = j],
           quiet' = [quiet EXCEPT ![p] = b], UNCHANGED queue,
           s.timer <= Len(ledger), MayClaim(j), ThreadOK("ctl", j),
           TurnOK(s, j, job[p]["bg"]), PauseOK(s, j, queue[p]), QuietOK(s, j, b)
    PROVE  IInv'
<1>1. job[p]["bg"] \in JobType /\ queue[p] \in Seq(Op)
  BY Here DEF Thread
<1>2. queue' = [queue EXCEPT ![p] = queue[p]]
  BY DEF IInv, ServicesOK
<1>3. "ctl" \in Thread
  BY DEF Thread
<1>. QED  BY <1>1, <1>2, <1>3, ServiceSteps

\* The background cycle moves.
LEMMA CycleSteps ==
    ASSUME IInv, LedgerSteps, RuntimesOK', NEW p \in Process,
           NEW s \in ServiceType, NEW j \in JobType,
           svc' = [svc EXCEPT ![p] = s], job' = [job EXCEPT ![p]["bg"] = j],
           UNCHANGED <<queue, quiet>>,
           s.timer <= Len(ledger), MayClaim(j), ThreadOK("bg", j),
           s.pend = svc[p].pend, svc[p].pausePending => s.pausePending,
           TurnOK(s, job[p]["ctl"], j), QuietOK(s, job[p]["ctl"], quiet[p])
    PROVE  IInv'
<1>1. /\ job[p]["ctl"] \in JobType /\ queue[p] \in Seq(Op) /\ quiet[p] \in BOOLEAN
      /\ PauseOK(svc[p], job[p]["ctl"], queue[p])
  BY Here DEF Thread
<1>2. queue' = [queue EXCEPT ![p] = queue[p]] /\ quiet' = [quiet EXCEPT ![p] = quiet[p]]
  BY DEF IInv, ServicesOK
<1>3. "bg" \in Thread
  BY DEF Thread
<1>4. PauseOK(s, job[p]["ctl"], queue[p])
  BY <1>1 DEF PauseOK
<1>. QED  BY <1>1, <1>2, <1>3, <1>4, ServiceSteps

\* A service's record, a thread or a flag that stays what it is.
LEMMA Stays ==
    ASSUME IInv, NEW p \in Process, NEW t \in Thread
    PROVE  /\ UNCHANGED svc => svc' = [svc EXCEPT ![p] = svc[p]]
           /\ UNCHANGED job => job' = [job EXCEPT ![p][t] = job[p][t]]
           /\ UNCHANGED quiet => quiet' = [quiet EXCEPT ![p] = quiet[p]]
           /\ UNCHANGED queue => queue' = [queue EXCEPT ![p] = queue[p]]
           /\ Soft(svc[p], svc[p]) /\ MayClaim(job[p][t])
BY DEF IInv, ServicesOK, Soft, ClaimsAreFree, MayClaim

LEMMA IdleIs == /\ Idle \in JobType /\ \A t \in Thread : ThreadOK(t, Idle)
                /\ MayClaim(Idle) /\ Idle.at = "idle" /\ Idle.stage = "" /\ Idle.rt = 0
                /\ ~Running(Idle) /\ ~Working(Idle)
<1>1. Idle \in JobType /\ Idle.at = "idle" /\ Idle.stage = "" /\ Idle.rt = 0
  BY DEF Idle, JobType, Admitting
<1>. QED  BY <1>1 DEF ThreadOK, MayClaim, Running, Working, Admitting

----------------------------------------------------------------------------
(* Issuing a runtime, and its admission.                                   *)

\* Five references leave one of six runtimes free.
LEMMA OneIsFree ==
    ASSUME NEW p \in Process, NEW t \in Thread, job[p][t].rt = 0
    PROVE  FreeRuntime(p) \in Runtime
<1> DEFINE J(u) == job[p][u].rt
           U == Unreferenced(p)
<1>1. \A a, b, c, d, e : \E n \in 1..6 : n # a /\ n # b /\ n # c /\ n # d /\ n # e
  <2> SUFFICES ASSUME NEW a, NEW b, NEW c, NEW d, NEW e,
                      \A n \in 1..6 : n = a \/ n = b \/ n = c \/ n = d \/ n = e
               PROVE  FALSE
    OBVIOUS
  <2>1. \A n \in {1, 2, 3, 4, 5, 6} : n = a \/ n = b \/ n = c \/ n = d \/ n = e
    OBVIOUS
  <2>. QED  BY <2>1
<1>2. \A n \in 1..6 : n \in Runtime /\ n \in Nat /\ n # 0
  BY RuntimesAssumption DEF Runtime
<1>3. \E n \in 1..6 : n # svc[p].wake /\ n # svc[p].sourced /\ \A u \in Thread : n # J(u)
  <2>1. CASE t = "snap"
    <3>1. PICK n \in 1..6 : n # svc[p].wake /\ n # svc[p].sourced /\ n # J("ctl")
                            /\ n # J("poll") /\ n # J("bg")
      BY <1>1
    <3>. QED  BY <1>2, <2>1, <3>1 DEF Thread
  <2>2. CASE t = "ctl"
    <3>1. PICK n \in 1..6 : n # svc[p].wake /\ n # svc[p].sourced /\ n # J("snap")
                            /\ n # J("poll") /\ n # J("bg")
      BY <1>1
    <3>. QED  BY <1>2, <2>2, <3>1 DEF Thread
  <2>3. CASE t = "poll"
    <3>1. PICK n \in 1..6 : n # svc[p].wake /\ n # svc[p].sourced /\ n # J("ctl")
                            /\ n # J("snap") /\ n # J("bg")
      BY <1>1
    <3>. QED  BY <1>2, <2>3, <3>1 DEF Thread
  <2>4. CASE t = "bg"
    <3>1. PICK n \in 1..6 : n # svc[p].wake /\ n # svc[p].sourced /\ n # J("ctl")
                            /\ n # J("poll") /\ n # J("snap")
      BY <1>1
    <3>. QED  BY <1>2, <2>4, <3>1 DEF Thread
  <2>. QED  BY <2>1, <2>2, <2>3, <2>4 DEF Thread
<1>4. U \subseteq Nat /\ U # {} /\ U \subseteq Runtime
  <2>1. U \subseteq Runtime
    BY DEF Unreferenced
  <2>2. PICK n \in 1..6 : n # svc[p].wake /\ n # svc[p].sourced /\ \A u \in Thread : n # J(u)
    BY <1>3
  <2>3. n \in U
    BY <1>2, <2>2 DEF Unreferenced
  <2>. QED  BY <2>1, <2>3, RuntimesAssumption DEF Runtime
<1>5. \E n \in U : \A m \in U : n <= m
  BY <1>4, LeastExists
<1> HIDE DEF U
<1>6. FreeRuntime(p) \in U
  BY <1>5 DEF FreeRuntime, U
<1>. QED  BY <1>4, <1>6

\* An admission goes on, or comes to an answer, at a step of the same stage.
LEMMA AdmissionMoves ==
    ASSUME IInv, LedgerSteps, RuntimesOK', NEW p \in Process, NEW t \in Thread,
           NEW s \in ServiceType, NEW j \in JobType,
           svc' = [svc EXCEPT ![p] = s], job' = [job EXCEPT ![p][t] = j],
           UNCHANGED <<queue, quiet>>,
           Soft(svc[p], s), s.timer <= Len(ledger), MayClaim(j),
           job[p][t].at \in Admitting, j.at \in Admitting \ {"issue"}, j.rt # 0,
           j.stage = job[p][t].stage
    PROVE  IInv'
<1> DEFINE c == job[p]["ctl"]
           g == job[p]["bg"]
           i == job[p][t]
<1>1. /\ c \in JobType /\ g \in JobType /\ queue[p] \in Seq(Op) /\ quiet[p] \in BOOLEAN
      /\ TurnOK(svc[p], c, g) /\ PauseOK(svc[p], c, queue[p]) /\ QuietOK(svc[p], c, quiet[p])
      /\ svc[p] \in ServiceType /\ ThreadOK(t, i)
  BY Here DEF Thread
<1>2. quiet' = [quiet EXCEPT ![p] = quiet[p]]
  BY Stays
<1>3. i.at # "idle" /\ i # Idle /\ ~Running(i) /\ Working(i)
  BY IdleIs DEF Working, Running, Admitting
<1>4. j.at # "idle" /\ ~Running(j) /\ Working(j) /\ j.at \notin {"issue", "append", "confirm"}
  BY DEF Working, Running, Admitting
<1>5. ThreadOK(t, j)
  BY <1>1, <1>3, <1>4 DEF ThreadOK
<1>6. CASE t \in {"snap", "poll"}
  BY <1>5, <1>6, AsideSteps
<1>7. CASE t = "ctl"
  <2>1. TurnOK(s, j, g)
    BY <1>1, <1>3, <1>4, <1>7 DEF Soft, TurnOK
  <2>2. PauseOK(s, j, queue[p])
    BY <1>1, <1>7 DEF Soft, PauseOK
  <2>3. QuietOK(s, j, quiet[p])
    BY <1>1, <1>7 DEF Soft, QuietOK
  <2> HIDE DEF c, i
  <2>. QED  BY <1>1, <1>2, <1>5, <1>7, <2>1, <2>2, <2>3, ControlSteps DEF g
<1>8. CASE t = "bg"
  <2>1. TurnOK(s, c, j)
    BY <1>1, <1>3, <1>4, <1>8 DEF Soft, TurnOK
  <2>2. QuietOK(s, c, quiet[p])
    BY <1>1 DEF Soft, QuietOK
  <2>3. s.pend = svc[p].pend /\ (svc[p].pausePending => s.pausePending)
    BY DEF Soft
  <2> HIDE DEF g, i
  <2>. QED  BY <1>5, <1>8, <2>1, <2>2, <2>3, CycleSteps DEF c
<1>. QED  BY <1>6, <1>7, <1>8 DEF Thread

\* A thread that has a runtime at a step of an admission.
LEMMA Admitted ==
    ASSUME IInv, NEW p \in Process, NEW t \in Thread, job[p][t].at \in Admitting
    PROVE  /\ job[p][t] \in JobType /\ job[p][t].stage \in StageOf(t)
           /\ job[p][t].at = "issue" => job[p][t].rt = 0
           /\ job[p][t].at # "issue" => job[p][t].rt \in Runtime
           /\ job[p][t] # Idle
<1>1. job[p][t] \in JobType /\ ThreadOK(t, job[p][t])
  BY Here
<1>2. job[p][t] # Idle
  BY IdleIs DEF Admitting
<1>. QED  BY <1>1, <1>2 DEF ThreadOK, Working, JobType

LEMMA RuntimeHere ==
    ASSUME IInv, NEW p \in Process, NEW r \in Runtime
    PROVE  /\ rts[p][r] \in RuntimeType /\ rts[p][r].lease <= Len(ledger)
           /\ rts[p][r].over \subseteq expired
           /\ Over(rts[p][r]) \subseteq expired
BY DEF IInv, RuntimesOK, Over

\* An answer to the admission.
LEMMA AnswerKeeps ==
    ASSUME IInv, LedgerSteps, RuntimesOK', NEW p \in Process, NEW t \in Thread,
           NEW got \in {"accepted", "held", "blocked"},
           job[p][t].at \in Admitting \ {"issue"}, Answer(p, t, got),
           UNCHANGED <<svc, queue, quiet>>
    PROVE  IInv'
<1> DEFINE j == [job[p][t] EXCEPT !.at = "back", !.got = got]
<1>1. /\ job[p][t] \in JobType /\ job[p][t].rt \in Runtime /\ job[p][t].rt # 0
  BY Admitted DEF Runtime
<1>2. /\ j \in JobType /\ j.at = "back" /\ j.rt # 0 /\ j.stage = job[p][t].stage
  BY <1>1 DEF JobType, Admitting
<1>3. MayClaim(j) /\ j.at \in Admitting \ {"issue"}
  BY <1>2 DEF MayClaim, Admitting
<1>4. job' = [job EXCEPT ![p][t] = j]
  BY DEF Answer, Go
<1> HIDE DEF j
<1>5. svc' = [svc EXCEPT ![p] = svc[p]] /\ Soft(svc[p], svc[p])
  BY Stays
<1>6. svc[p] \in ServiceType /\ svc[p].timer <= Len(ledger)
  BY Here
<1>. QED  BY <1>2, <1>3, <1>4, <1>5, <1>6, AdmissionMoves

\* A next step of the admission.
LEMMA AdmissionGoesOn ==
    ASSUME IInv, LedgerSteps, RuntimesOK', NEW p \in Process, NEW t \in Thread, NEW j \in JobType,
           job[p][t].at \in Admitting \ {"issue"}, Go(p, t, j),
           j.at \in Admitting \ {"issue"}, j.stage = job[p][t].stage, j.rt = job[p][t].rt,
           MayClaim(j), UNCHANGED <<svc, queue, quiet>>
    PROVE  IInv'
<1>1. job[p][t].rt \in Runtime /\ j.rt # 0
  BY Admitted DEF Runtime
<1>4. job' = [job EXCEPT ![p][t] = j]
  BY DEF Go
<1>5. svc' = [svc EXCEPT ![p] = svc[p]] /\ Soft(svc[p], svc[p])
  BY Stays
<1>6. svc[p] \in ServiceType /\ svc[p].timer <= Len(ledger)
  BY Here
<1>. QED  BY <1>1, <1>4, <1>5, <1>6, AdmissionMoves

LEMMA HighWaterType ==
    ASSUME NEW log \in Seq(EventType)
    PROVE  HighWater(log) \in Nat
<1>1. HighWater(log) \in 0..Len(log)
  BY LatestType DEF HighWater
<1>2. Len(log) \in Nat
  BY Events
<1>. QED  BY <1>1, <1>2

\* The world does not move.
LEMMA Still ==
    ASSUME IInv, UNCHANGED <<ledger, expired, mounted, tasks, left>>
    PROVE  LedgerSteps
BY LedgerStays DEF IInv, WorldOK

LEMMA AdmissionBeginsKeeps ==
    ASSUME IInv, NEW p \in Process, NEW t \in Thread, AdmissionBegins(p, t)
    PROVE  IInv'
<1> DEFINE j == job[p][t]
           r == rts[p][j.rt]
           spoiled == [r EXCEPT !.lost = TRUE,
                                !.dead = @ \/ (r.lease # 0 /\ r.lease \in Over(r))]
           begun == [r EXCEPT !.busy = TRUE, !.hw = IF @ = -1 THEN HighWater(ledger) ELSE @]
           next == [j EXCEPT !.at = "lease", !.rev = r.rev]
<1>1. j.at = "begin" /\ LedgerSteps /\ UNCHANGED <<svc, queue, quiet>>
  BY Still DEF AdmissionBegins
<1>2. j.at \in Admitting \ {"issue"} /\ j \in JobType /\ j.rt \in Runtime
  BY <1>1, Admitted DEF Admitting
<1>3. r \in RuntimeType /\ r.lease <= Len(ledger) /\ r.over \subseteq expired
  BY <1>2, RuntimeHere
<1>4. UNCHANGED ledger /\ UNCHANGED expired
  BY DEF AdmissionBegins
<1>5. CASE r.dead \/ (r.closed /\ ~(r.paused /\ j.op \in {"resume", "recover"})) \/ r.busy
  <2>1. Answer(p, t, "blocked") /\ UNCHANGED rts
    BY <1>5 DEF AdmissionBegins
  <2>. QED  BY <1>1, <1>2, <2>1, RuntimesStay, AnswerKeeps
<1>6. CASE UseRuntime(p, j.rt, spoiled) /\ Answer(p, t, "blocked")
  <2>1. /\ spoiled \in RuntimeType /\ spoiled.lease = r.lease /\ spoiled.over = r.over
    BY <1>3 DEF RuntimeType
  <2> HIDE DEF spoiled
  <2>2. RuntimesOK'
    BY <1>1, <1>2, <1>3, <1>4, <1>6, <2>1, RuntimeUsed
  <2>. QED  BY <1>1, <1>2, <1>6, <2>2, AnswerKeeps
<1>7. CASE UseRuntime(p, j.rt, begun) /\ Go(p, t, next)
  <2>1. /\ begun \in RuntimeType /\ begun.lease = r.lease /\ begun.over = r.over
    <3>1. HighWater(ledger) \in Int
      BY HighWaterType DEF IInv, WorldOK
    <3>. QED  BY <1>3, <3>1 DEF RuntimeType
  <2>2. /\ next \in JobType /\ next.at = "lease" /\ next.stage = j.stage /\ next.rt = j.rt
    BY <1>2, <1>3 DEF JobType, RuntimeType, Admitting
  <2> HIDE DEF begun, next
  <2>3. RuntimesOK'
    BY <1>1, <1>2, <1>3, <1>4, <1>7, <2>1, RuntimeUsed
  <2>4. MayClaim(next) /\ next.at \in Admitting \ {"issue"}
    BY <2>2 DEF MayClaim, Admitting
  <2>. QED  BY <1>1, <1>2, <1>7, <2>2, <2>3, <2>4, AdmissionGoesOn
<1>. QED  BY <1>5, <1>6, <1>7 DEF AdmissionBegins

\* The supervisor that answers is not busy any more.
LEMMA IdlingAnswers ==
    ASSUME IInv, LedgerSteps, NEW p \in Process, NEW t \in Thread,
           NEW got \in {"accepted", "held", "blocked"},
           job[p][t].at \in Admitting \ {"issue"}, Answer(p, t, got),
           NEW rec \in RuntimeType, UseRuntime(p, job[p][t].rt, rec),
           rec.lease <= Len(ledger'), rec.over = rts[p][job[p][t].rt].over,
           UNCHANGED <<svc, queue, quiet>>
    PROVE  IInv'
<1>1. job[p][t].rt \in Runtime
  BY Admitted
<1>2. rec.over \subseteq expired'
  BY <1>1, RuntimeHere DEF LedgerSteps
<1>3. RuntimesOK'
  BY <1>1, <1>2, RuntimeUsed
<1>. QED  BY <1>3, AnswerKeeps

LEMMA ReadLeaseKeeps ==
    ASSUME IInv, NEW p \in Process, NEW t \in Thread, ReadLease(p, t)
    PROVE  IInv'
<1> DEFINE j == job[p][t]
           r == rts[p][j.rt]
           live == LiveLeases(ledger, Over(r))
           foreign == {i \in live : ledger[i].by # p}
           own == live \ foreign
           latest == CHOOSE i \in own : \A k \in own : k <= i
           wake == [j EXCEPT !.at = "wake"]
           claim == [j EXCEPT !.at = "claim", !.len = Len(ledger), !.hw = HighWater(ledger)]
           lost == [Idling(r) EXCEPT !.lost = TRUE]
           leased == [r EXCEPT !.lease = latest]
           stale == [Idling(r) EXCEPT !.lease = latest, !.lost = TRUE]
<1>1. j.at = "lease" /\ LedgerSteps /\ UNCHANGED <<svc, queue, quiet>>
  BY Still DEF ReadLease
<1>2. j.at \in Admitting \ {"issue"} /\ j \in JobType /\ j.rt \in Runtime
  BY <1>1, Admitted DEF Admitting
<1>3. r \in RuntimeType /\ r.lease <= Len(ledger) /\ r.over \subseteq expired
      /\ Over(r) \subseteq expired
  BY <1>2, RuntimeHere
<1>4. UNCHANGED ledger /\ UNCHANGED expired /\ Len(ledger) \in Nat
  BY Here DEF ReadLease
<1>5. Idling(r) \in RuntimeType /\ Idling(r).lease = r.lease /\ Idling(r).over = r.over
  BY <1>3 DEF Idling, RuntimeType
<1>6. ASSUME NEW got \in {"held", "blocked"}, Answer(p, t, got), UseRuntime(p, j.rt, Idling(r))
      PROVE  IInv'
  <2>1. got \in {"accepted", "held", "blocked"} /\ Idling(r).lease <= Len(ledger')
    BY <1>3, <1>4, <1>5
  <2>. QED  BY <1>1, <1>2, <1>5, <1>6, <2>1, IdlingAnswers
<1>7. CASE Answer(p, t, "blocked") /\ UseRuntime(p, j.rt, lost)
  <2>1. lost \in RuntimeType /\ lost.lease = r.lease /\ lost.over = r.over
    BY <1>3 DEF Idling, RuntimeType
  <2>2. lost.lease <= Len(ledger')
    BY <1>3, <1>4, <2>1
  <2> HIDE DEF lost
  <2>. QED  BY <1>1, <1>2, <1>7, <2>1, <2>2, IdlingAnswers
<1>8. ASSUME own # {} PROVE latest \in 1..Len(ledger)
  <2>1. own \subseteq 1..Len(ledger)
    BY Here DEF LiveLeases
  <2>2. \E i \in own : \A k \in own : k <= i
    BY <1>4, <1>8, <2>1, GreatestExists
  <2>3. latest \in own
    BY <2>2
  <2>. QED  BY <2>1, <2>3
<1>9. CASE own # {} /\ Go(p, t, wake) /\ UseRuntime(p, j.rt, leased)
  <2>1. latest \in 1..Len(ledger)
    BY <1>8, <1>9
  <2> HIDE DEF latest
  <2>2. leased \in RuntimeType /\ leased.lease <= Len(ledger') /\ leased.over = r.over
    BY <1>3, <1>4, <2>1 DEF RuntimeType
  <2>3. wake \in JobType /\ wake.at = "wake" /\ wake.stage = j.stage /\ wake.rt = j.rt
    BY <1>2 DEF JobType, Admitting
  <2> HIDE DEF leased, wake
  <2>4. RuntimesOK'
    BY <1>1, <1>2, <1>3, <1>4, <1>9, <2>2, RuntimeUsed
  <2>5. MayClaim(wake) /\ wake.at \in Admitting \ {"issue"}
    BY <2>3 DEF MayClaim, Admitting
  <2>. QED  BY <1>1, <1>2, <1>9, <2>3, <2>4, <2>5, AdmissionGoesOn
<1>10. CASE own # {} /\ Answer(p, t, "blocked") /\ UseRuntime(p, j.rt, stale)
  <2>1. latest \in 1..Len(ledger)
    BY <1>8, <1>10
  <2> HIDE DEF latest
  <2>2. stale \in RuntimeType /\ stale.lease <= Len(ledger') /\ stale.over = r.over
    <3>1. latest \in Nat /\ latest <= Len(ledger')
      BY <1>4, <2>1
    <3>. QED  BY <1>5, <3>1 DEF RuntimeType
  <2> HIDE DEF stale
  <2>. QED  BY <1>1, <1>2, <1>10, <2>2, IdlingAnswers
<1>11. CASE live = {} /\ Go(p, t, claim) /\ UNCHANGED rts
  <2>1. HighWater(ledger) \in Nat
    BY Here, HighWaterType
  <2>2. claim \in JobType /\ claim.at = "claim" /\ claim.stage = j.stage /\ claim.rt = j.rt
        /\ claim.len = Len(ledger)
    BY <1>2, <1>4, <2>1 DEF JobType, Admitting
  <2>3. LiveLeases(ledger, expired) = {}
    BY <1>3, <1>11, LiveByAnOldClock
  <2> HIDE DEF claim
  <2>4. MayClaim(claim) /\ claim.at \in Admitting \ {"issue"}
    BY <1>4, <2>2, <2>3 DEF MayClaim, Admitting
  <2>5. RuntimesOK'
    BY <1>1, <1>11, RuntimesStay
  <2>. QED  BY <1>1, <1>2, <1>11, <2>2, <2>4, <2>5, AdmissionGoesOn
<1>12. \/ Answer(p, t, "blocked") /\ UseRuntime(p, j.rt, Idling(r))
       \/ Answer(p, t, "blocked") /\ UseRuntime(p, j.rt, lost)
       \/ own # {} /\ Go(p, t, wake) /\ UseRuntime(p, j.rt, leased)
       \/ own # {} /\ Answer(p, t, "blocked") /\ UseRuntime(p, j.rt, stale)
       \/ Answer(p, t, "held") /\ UseRuntime(p, j.rt, Idling(r))
       \/ live = {} /\ Go(p, t, claim) /\ UNCHANGED rts
  BY Zenon DEF ReadLease
<1> HIDE DEF live, own, wake, leased, stale, claim, lost, r, j
<1>. QED  BY <1>6, <1>7, <1>9, <1>10, <1>11, <1>12

\* A claim is appended to the ledger it was decided on, which shows no lease
\* that binds.
LEMMA ClaimLeaseKeeps ==
    ASSUME IInv, NEW p \in Process, NEW t \in Thread, ClaimLease(p, t)
    PROVE  IInv'
<1> DEFINE j == job[p][t]
           r == rts[p][j.rt]
           e == LeaseEvent(p, j.op = "start", j.hw)
           next == [j EXCEPT !.at = "wake"]
           leased == [r EXCEPT !.lease = j.len + 1]
           late == [Idling(r) EXCEPT !.lease = j.len + 1, !.lost = @ \/ r.rev = j.rev]
<1>1. j.at = "claim" /\ UNCHANGED <<expired, mounted, tasks, svc, queue, quiet, left>>
  BY DEF ClaimLease
<1>2. j.at \in Admitting \ {"issue"} /\ j \in JobType /\ j.rt \in Runtime
  BY <1>1, Admitted DEF Admitting
<1>3. r \in RuntimeType /\ r.lease <= Len(ledger) /\ r.over \subseteq expired
  BY <1>2, RuntimeHere
<1>4. Idling(r) \in RuntimeType /\ Idling(r).lease = r.lease /\ Idling(r).over = r.over
  BY <1>3 DEF Idling, RuntimeType
<1>5. ledger \in Seq(EventType) /\ Len(ledger) \in Nat
  BY Here
<1>6. CASE r.dead \/ ~mounted \/ Len(ledger) # j.len
  <2>1. Answer(p, t, "blocked") /\ UseRuntime(p, j.rt, Idling(r)) /\ UNCHANGED ledger
    BY <1>6 DEF ClaimLease
  <2>2. LedgerSteps
    BY <1>1, <2>1, Still
  <2>3. Idling(r).lease <= Len(ledger')
    BY <1>3, <1>4, <2>1
  <2>. QED  BY <1>1, <1>2, <1>4, <2>1, <2>2, <2>3, IdlingAnswers
<1>7. CASE ~(r.dead \/ ~mounted \/ Len(ledger) # j.len)
  <2>1. ledger' = Append(ledger, e) /\ j.len = Len(ledger)
    BY <1>7 DEF ClaimLease
  <2>2. e \in EventType
    BY <1>2 DEF LeaseEvent, EventType, JobType
  <2>3. LiveLeases(ledger, expired) = {}
    BY <1>1, <2>1 DEF IInv, ClaimsAreFree
  <2>4. tasks' \subseteq Nat /\ left' \in BudgetType
    BY <1>1 DEF IInv, WorldOK
  <2> HIDE DEF e
  <2>5. LedgerSteps
    BY <1>1, <2>1, <2>2, <2>3, <2>4, LedgerGrows
  <2>6. j.len + 1 \in Nat /\ j.len + 1 <= Len(ledger')
    <3>1. Len(ledger') = Len(ledger) + 1
      BY <1>5, <2>1, <2>2, Grown
    <3>. QED  BY <1>5, <2>1, <3>1
  <2>7. r.over \subseteq expired'
    BY <1>1, <1>3
  <2>8. CASE r.rev = j.rev /\ r.hw = j.hw
    <3>1. Go(p, t, next) /\ UseRuntime(p, j.rt, leased)
      BY <1>7, <2>8 DEF ClaimLease
    <3>2. leased \in RuntimeType /\ leased.lease <= Len(ledger') /\ leased.over = r.over
      BY <1>3, <2>6 DEF RuntimeType
    <3>3. next \in JobType /\ next.at = "wake" /\ next.stage = j.stage /\ next.rt = j.rt
      BY <1>2 DEF JobType, Admitting
    <3> HIDE DEF leased, next
    <3>4. RuntimesOK'
      BY <1>2, <2>5, <2>7, <3>1, <3>2, RuntimeUsed
    <3>5. MayClaim(next) /\ next.at \in Admitting \ {"issue"}
      BY <3>3 DEF MayClaim, Admitting
    <3>. QED  BY <1>1, <1>2, <2>5, <3>1, <3>3, <3>4, <3>5, AdmissionGoesOn
  <2>9. CASE ~(r.rev = j.rev /\ r.hw = j.hw)
    <3>1. Answer(p, t, "blocked") /\ UseRuntime(p, j.rt, late)
      BY <1>7, <2>9 DEF ClaimLease
    <3>2. late \in RuntimeType /\ late.lease <= Len(ledger') /\ late.over = r.over
      <4>1. Idling(r).lost \in BOOLEAN
        BY <1>4 DEF RuntimeType
      <4>. QED  BY <1>4, <2>6, <4>1 DEF RuntimeType
    <3> HIDE DEF late
    <3>. QED  BY <1>1, <1>2, <2>5, <3>1, <3>2, IdlingAnswers
  <2>. QED  BY <2>8, <2>9
<1>. QED  BY <1>6, <1>7

LEMMA WakeOnceKeeps ==
    ASSUME IInv, NEW p \in Process, NEW t \in Thread, WakeOnce(p, t)
    PROVE  IInv'
<1> DEFINE j == job[p][t]
           r == rts[p][j.rt]
           records == j.op \in {"resume", "recover"}
           e == PlainEvent("resumed", p)
           woken == [Idling(r) EXCEPT !.closed = @ /\ ~records]
<1>1. j.at = "wake" /\ UNCHANGED <<expired, mounted, tasks, svc, queue, quiet, left>>
  BY DEF WakeOnce
<1>2. j.at \in Admitting \ {"issue"} /\ j \in JobType /\ j.rt \in Runtime
  BY <1>1, Admitted DEF Admitting
<1>3. r \in RuntimeType /\ r.lease <= Len(ledger) /\ r.over \subseteq expired
  BY <1>2, RuntimeHere
<1>4. Idling(r) \in RuntimeType /\ Idling(r).lease = r.lease /\ Idling(r).over = r.over
  BY <1>3 DEF Idling, RuntimeType
<1>5. ledger \in Seq(EventType) /\ Len(ledger) \in Nat
  BY Here
<1>6. CASE Answer(p, t, "blocked") /\ UseRuntime(p, j.rt, Idling(r)) /\ UNCHANGED ledger
  <2>1. LedgerSteps
    BY <1>1, <1>6, Still
  <2>2. Idling(r).lease <= Len(ledger')
    BY <1>3, <1>4, <1>6
  <2>. QED  BY <1>1, <1>2, <1>4, <1>6, <2>1, <2>2, IdlingAnswers
<1>7. CASE /\ Answer(p, t, "accepted") /\ UseRuntime(p, j.rt, woken)
           /\ ledger' = IF records THEN Append(ledger, e) ELSE ledger
  <2>1. e \in EventType /\ e.kind = "resumed"
    BY DEF PlainEvent, EventType
  <2>2. tasks' \subseteq Nat /\ left' \in BudgetType
    BY <1>1 DEF IInv, WorldOK
  <2>3. LedgerSteps /\ Len(ledger) <= Len(ledger')
    <3> HIDE DEF e, records
    <3>1. CASE records
      BY <1>1, <1>7, <2>1, <2>2, <3>1, LedgerGrows DEF LedgerSteps
    <3>2. CASE ~records
      BY <1>1, <1>7, <3>2, Still DEF LedgerSteps
    <3>. QED  BY <3>1, <3>2
  <2>4. woken \in RuntimeType /\ woken.lease = r.lease /\ woken.over = r.over
    <3>1. Idling(r).closed \in BOOLEAN
      BY <1>4 DEF RuntimeType
    <3> HIDE DEF records
    <3>. QED  BY <1>4, <3>1 DEF RuntimeType
  <2> HIDE DEF woken
  <2>5. woken.lease <= Len(ledger')
    <3>1. Len(ledger') \in Nat /\ r.lease \in Nat
      BY <1>3, <2>3, Events DEF LedgerSteps, WorldOK, RuntimeType
    <3>. QED  BY <1>3, <1>5, <2>3, <2>4, <3>1
  <2>. QED  BY <1>1, <1>2, <1>7, <2>3, <2>4, <2>5, IdlingAnswers
<1>. QED  BY <1>6, <1>7 DEF WakeOnce

\* A runtime is issued to the thread, or not to the poll of a stopped service.
LEMMA IssueKeeps ==
    ASSUME IInv, NEW p \in Process, NEW t \in Thread, Issue(p, t)
    PROVE  IInv'
<1> DEFINE j == job[p][t]
           s == svc[p]
           n == FreeRuntime(p)
           live == j.stage \notin {"bg", "sourced"}
           u == [s EXCEPT !.wake = n]
           v == [s EXCEPT !.wake = n, !.active = TRUE]
           begin == [j EXCEPT !.at = "begin", !.rt = n]
           run == [j EXCEPT !.at = "run", !.rt = n]
<1>1. j.at = "issue" /\ LedgerSteps /\ UNCHANGED <<ledger, expired, queue, quiet>>
  BY Still DEF Issue
<1>2. j.at \in Admitting /\ j \in JobType /\ j.rt = 0 /\ j.stage \in StageOf(t)
  BY <1>1, Admitted DEF Admitting
<1>3. n \in Runtime /\ n # 0 /\ n \in Runtime \union {0}
  BY <1>2, OneIsFree DEF Runtime
<1>4. s \in ServiceType /\ s.timer <= Len(ledger) /\ Len(ledger) \in Nat
  BY Here
<1>5. CASE j.stage = "poll" /\ s.stopped
  <2> DEFINE w == [s EXCEPT !.wake = 0]
  <2>1. Done(p, t) /\ Set(p, w) /\ UNCHANGED rts
    BY <1>5 DEF Issue
  <2>2. t = "poll"
    BY <1>2, <1>5 DEF StageOf, Thread
  <2>3. w \in ServiceType /\ Soft(s, w) /\ w.timer = s.timer
    BY <1>4 DEF ServiceType, Soft
  <2>4. RuntimesOK'
    BY <1>1, <2>1, RuntimesStay
  <2> HIDE DEF w
  <2>5. svc' = [svc EXCEPT ![p] = w] /\ job' = [job EXCEPT ![p][t] = Idle]
    BY <2>1 DEF Set, Done, Go
  <2>. QED  BY <1>1, <1>4, <2>2, <2>3, <2>4, <2>5, IdleIs, AsideSteps
<1>6. CASE ~(j.stage = "poll" /\ s.stopped)
  <2>1. UseRuntime(p, n, NewRuntime(live))
    BY <1>6 DEF Issue
  <2>2. live \in BOOLEAN
    OBVIOUS
  <2> HIDE DEF n, live
  <2>3. NewRuntime(live) \in RuntimeType /\ NewRuntime(live).lease <= Len(ledger')
        /\ NewRuntime(live).over \subseteq expired'
    BY <1>1, <1>4, <2>2, NewRuntimeType
  <2>4. RuntimesOK'
    BY <1>1, <1>3, <2>1, <2>3, RuntimeUsed
  <2>5. CASE Set(p, u) /\ Go(p, t, begin)
    <3>1. u \in ServiceType /\ Soft(s, u) /\ u.timer = s.timer
      BY <1>3, <1>4 DEF ServiceType, Soft
    <3>2. begin \in JobType /\ begin.at = "begin" /\ begin.rt # 0 /\ begin.stage = j.stage
      BY <1>2, <1>3 DEF JobType, Admitting
    <3>3. svc' = [svc EXCEPT ![p] = u] /\ job' = [job EXCEPT ![p][t] = begin]
      BY <2>5 DEF Set, Go
    <3> HIDE DEF u, begin
    <3>4. MayClaim(begin) /\ begin.at \in Admitting \ {"issue"}
      BY <3>2 DEF MayClaim, Admitting
    <3>. QED  BY <1>1, <1>2, <1>4, <2>4, <3>1, <3>2, <3>3, <3>4, AdmissionMoves
  <2>6. CASE ~live /\ Set(p, v) /\ Go(p, t, run)
    <3>1. v \in ServiceType /\ v.timer = s.timer /\ v.active /\ v.exec = s.exec
          /\ v.pend = s.pend /\ v.pausePending = s.pausePending /\ v.bg = s.bg
      BY <1>3, <1>4 DEF ServiceType
    <3>2. run \in JobType /\ run.at = "run" /\ run.rt # 0 /\ run.stage = j.stage
      BY <1>2, <1>3 DEF JobType, Admitting
    <3>3. svc' = [svc EXCEPT ![p] = v] /\ job' = [job EXCEPT ![p][t] = run]
      BY <2>6 DEF Set, Go
    <3> HIDE DEF v, run
    <3>4. MayClaim(run) /\ Running(run) /\ Working(run)
      BY <3>2 DEF MayClaim, Running, Working
    <3>5. Working(j) /\ j.at # "idle"
      BY <1>1 DEF Working, Admitting
    <3>6. j.stage \in {"bg", "sourced"}
      BY <2>6 DEF live
    <3>7. ThreadOK(t, run)
      BY <1>2, <3>2, <3>6 DEF ThreadOK
    <3>8. /\ TurnOK(s, job[p]["ctl"], job[p]["bg"]) /\ PauseOK(s, job[p]["ctl"], queue[p])
          /\ QuietOK(s, job[p]["ctl"], quiet[p]) /\ quiet[p] \in BOOLEAN
      BY Here
    <3>9. CASE j.stage = "sourced"
      <4>1. t = "ctl"
        BY <1>2, <3>9 DEF StageOf, Thread
      <4>2. s.exec = "ctl"
        BY <3>5, <3>8, <3>9, <4>1 DEF TurnOK
      <4>3. TurnOK(v, run, job[p]["bg"])
        BY <3>1, <3>2, <3>4, <3>5, <3>8, <3>9, <4>1, <4>2 DEF TurnOK
      <4>4. PauseOK(v, run, queue[p]) /\ QuietOK(v, run, quiet[p])
        BY <3>1, <3>2, <3>8, <4>1, <4>2 DEF PauseOK, QuietOK
      <4>5. quiet' = [quiet EXCEPT ![p] = quiet[p]]
        BY <1>1, Stays
      <4> HIDE DEF j, s
      <4>. QED  BY <1>1, <1>4, <2>4, <3>1, <3>2, <3>3, <3>4, <3>7, <3>8, <4>1, <4>3, <4>4,
                   <4>5, ControlSteps
    <3>10. CASE j.stage = "bg"
      <4>1. t = "bg"
        BY <1>2, <3>10 DEF StageOf, Thread
      <4>2. s.exec = "bg"
        BY <3>5, <3>8, <4>1 DEF TurnOK
      <4>3. TurnOK(v, job[p]["ctl"], run)
        BY <3>1, <3>2, <3>4, <3>5, <3>8, <4>1, <4>2 DEF TurnOK
      <4>4. QuietOK(v, job[p]["ctl"], quiet[p])
        BY <3>1, <3>8, <4>2 DEF QuietOK
      <4> HIDE DEF j
      <4>. QED  BY <1>1, <1>4, <2>4, <3>1, <3>2, <3>3, <3>4, <3>7, <4>1, <4>3, <4>4,
                   CycleSteps
    <3>. QED  BY <3>6, <3>9, <3>10
  <2>. QED  BY <1>6, <2>5, <2>6 DEF Issue, n, live
<1>. QED  BY <1>5, <1>6

LEMMA AdmissionKeeps ==
    ASSUME IInv, NEW p \in Process, NEW t \in Thread, Admission(p, t)
    PROVE  IInv'
BY IssueKeeps, AdmissionBeginsKeeps, ReadLeaseKeeps, ClaimLeaseKeeps, WakeOnceKeeps DEF Admission

----------------------------------------------------------------------------
(* The status request and the poll.                                        *)

\* A thread that is at a step of a stage.
LEMMA ThreadIs ==
    ASSUME IInv, NEW p \in Process, NEW t \in Thread, NEW stage, NEW at, At(p, t, stage, at),
           at # "idle"
    PROVE  /\ job[p][t] \in JobType /\ ThreadOK(t, job[p][t])
           /\ job[p][t].stage = stage /\ job[p][t].at = at
           /\ job[p][t] # Idle
BY Here, IdleIs DEF At

\* To ask for a runtime.
LEMMA Issuing ==
    ASSUME NEW t \in Thread, NEW j \in JobType, NEW stage \in StageOf(t),
           NEW op \in {"start", "resume", "recover", "poll"}
    PROVE  LET i == ToIssue(j, stage, op)
           IN /\ i \in JobType /\ ThreadOK(t, i) /\ MayClaim(i)
              /\ i.at = "issue" /\ i.stage = stage /\ Working(i) /\ ~Running(i)
<1> DEFINE i == ToIssue(j, stage, op)
<1>1. stage \in {"", "snap", "pause", "resume", "fence", "sourced", "poll", "bg"}
  BY DEF StageOf, Thread
<1>2. i \in JobType /\ i.at = "issue" /\ i.stage = stage /\ i.rt = 0
  BY <1>1 DEF ToIssue, JobType, Admitting
<1> HIDE DEF i
<1>3. ThreadOK(t, i) /\ MayClaim(i) /\ Working(i) /\ ~Running(i)
  BY <1>2 DEF ThreadOK, MayClaim, Working, Running, Admitting
<1>. QED  BY <1>2, <1>3 DEF i

LEMMA SnapshotCallKeeps ==
    ASSUME IInv, NEW p \in Process, SnapshotCall(p)
    PROVE  IInv'
<1> DEFINE s == svc[p]
           j == [Idle EXCEPT !.at = "read", !.stage = "snap"]
           u == [Forget(s, s.wake) EXCEPT !.lost = TRUE, !.timer = 0, !.status = FALSE]
<1>1. Spend("snapshot") /\ UNCHANGED <<ledger, expired, mounted, tasks, queue, quiet>>
  BY DEF SnapshotCall
<1>2. LedgerSteps
  BY <1>1, BudgetSpent, LedgerStays DEF IInv, WorldOK
<1>3. s \in ServiceType /\ s.timer <= Len(ledger) /\ Len(ledger) \in Nat
  BY Here
<1>4. CASE mounted
  <2>1. Go(p, "snap", j) /\ UNCHANGED svc /\ UNCHANGED rts
    BY <1>4 DEF SnapshotCall
  <2>2. j \in JobType /\ j.at = "read" /\ j.stage = "snap"
    BY IdleIs DEF JobType
  <2>3. job' = [job EXCEPT ![p]["snap"] = j]
    BY <2>1 DEF Go
  <2> HIDE DEF j
  <2>4. ThreadOK("snap", j) /\ MayClaim(j)
    BY <2>2 DEF ThreadOK, MayClaim, Running, Working, Admitting, StageOf
  <2>5. svc' = [svc EXCEPT ![p] = s] /\ Soft(s, s)
    BY <2>1, Stays DEF Thread
  <2>6. RuntimesOK'
    BY <1>2, <2>1, RuntimesStay
  <2>. QED  BY <1>1, <1>2, <1>3, <2>2, <2>3, <2>4, <2>5, <2>6, AsideSteps
<1>5. CASE ~mounted
  <2>1. Set(p, u) /\ Stop(p, s.wake) /\ UNCHANGED job
    BY <1>5 DEF SnapshotCall
  <2>2. Forget(s, s.wake) \in ServiceType /\ Soft(s, Forget(s, s.wake))
    BY <1>3, ForgetIsSoft DEF Soft
  <2>3. u \in ServiceType /\ Soft(Forget(s, s.wake), u) /\ u.timer = 0
    BY <2>2 DEF ServiceType, Soft
  <2>4. Soft(s, u) /\ u.timer <= Len(ledger)
    BY <1>3, <2>2, <2>3, SoftAgain
  <2>5. svc' = [svc EXCEPT ![p] = u]
    BY <2>1 DEF Set
  <2> HIDE DEF u
  <2>6. RuntimesOK'
    BY <1>2, <2>1, RuntimeStopped
  <2>7. /\ job' = [job EXCEPT ![p]["snap"] = job[p]["snap"]] /\ MayClaim(job[p]["snap"])
        /\ job[p]["snap"] \in JobType /\ ThreadOK("snap", job[p]["snap"])
    BY <2>1, Stays, Here DEF Thread
  <2>. QED  BY <1>1, <1>2, <2>3, <2>4, <2>5, <2>6, <2>7, AsideSteps
<1>. QED  BY <1>4, <1>5

\* The thread of the status request or of the poll comes to its end.
LEMMA AsideDone ==
    ASSUME IInv, UNCHANGED <<ledger, expired, mounted, tasks, rts, queue, quiet, left>>,
           NEW p \in Process, NEW t \in {"snap", "poll"}, NEW s \in ServiceType,
           Soft(svc[p], s), s.timer <= Len(ledger),
           svc' = [svc EXCEPT ![p] = s], Done(p, t)
    PROVE  IInv'
<1>1. LedgerSteps
  BY Still
<1>2. RuntimesOK'
  BY <1>1, RuntimesStay
<1>3. job' = [job EXCEPT ![p][t] = Idle] /\ t \in Thread
  BY DEF Done, Go, Thread
<1>. QED  BY <1>1, <1>2, <1>3, IdleIs, AsideSteps

LEMMA SnapshotReadKeeps ==
    ASSUME IInv, NEW p \in Process, SnapshotRead(p)
    PROVE  IInv'
<1> DEFINE s == svc[p]
           u == [s EXCEPT !.pausePending = TRUE, !.timer = 0, !.retry = FALSE]
           v == [s EXCEPT !.status = TRUE]
           j == ToIssue(job[p]["snap"], "snap", "start")
<1>1. UNCHANGED <<ledger, expired, mounted, tasks, rts, queue, quiet, left>>
  BY DEF SnapshotRead
<1>2. s \in ServiceType /\ s.timer <= Len(ledger) /\ Len(ledger) \in Nat
      /\ ledger \in Seq(EventType) /\ job[p]["snap"] \in JobType
  BY Here DEF Thread
<1>3. CASE UNCHANGED svc /\ Done(p, "snap")
  <2>1. svc' = [svc EXCEPT ![p] = s] /\ Soft(s, s)
    BY <1>3, Stays DEF Thread
  <2>. QED  BY <1>1, <1>2, <1>3, <2>1, AsideDone
<1>4. CASE Set(p, u) /\ Done(p, "snap")
  <2>1. u \in ServiceType /\ Soft(s, u) /\ u.timer <= Len(ledger)
    <3>1. u \in ServiceType /\ Soft(s, u) /\ u.timer = 0
      BY <1>2 DEF ServiceType, Soft
    <3>. QED  BY <1>2, <3>1
  <2>2. svc' = [svc EXCEPT ![p] = u]
    BY <1>4 DEF Set
  <2> HIDE DEF u
  <2>. QED  BY <1>1, <1>2, <1>4, <2>1, <2>2, AsideDone
<1>5. CASE Set(p, WakeAt(v)) /\ Done(p, "snap")
  <2>1. v \in ServiceType /\ Soft(s, v)
    BY <1>2 DEF ServiceType, Soft
  <2>2. svc' = [svc EXCEPT ![p] = WakeAt(v)]
    BY <1>5 DEF Set
  <2> HIDE DEF v
  <2>3. Soft(v, WakeAt(v)) /\ WakeAt(v) \in ServiceType /\ WakeAt(v).timer <= Len(ledger)
    BY <1>2, <2>1, WakeAtIsSoft DEF Soft
  <2>4. Soft(s, WakeAt(v))
    BY <2>1, <2>3, SoftAgain
  <2>. QED  BY <1>1, <1>5, <2>2, <2>3, <2>4, AsideDone
<1>6. CASE UNCHANGED svc /\ Go(p, "snap", j)
  <2>1. j \in JobType /\ ThreadOK("snap", j) /\ MayClaim(j)
    BY <1>2, Issuing DEF Thread, StageOf
  <2>2. job' = [job EXCEPT ![p]["snap"] = j]
    BY <1>6 DEF Go
  <2> HIDE DEF j
  <2>3. svc' = [svc EXCEPT ![p] = s] /\ Soft(s, s)
    BY <1>6, Stays DEF Thread
  <2>4. LedgerSteps
    BY <1>1, Still
  <2>5. RuntimesOK'
    BY <1>1, <2>4, RuntimesStay
  <2>. QED  BY <1>1, <1>2, <2>1, <2>2, <2>3, <2>4, <2>5, AsideSteps
<1>. QED  BY <1>3, <1>4, <1>5, <1>6 DEF SnapshotRead

LEMMA SnapshotBackKeeps ==
    ASSUME IInv, NEW p \in Process, SnapshotBack(p)
    PROVE  IInv'
<1> DEFINE s == svc[p]
           v == [s EXCEPT !.status = TRUE]
<1>1. s \in ServiceType /\ ledger \in Seq(EventType)
  BY Here
<1>2. v \in ServiceType /\ Soft(s, v)
  BY <1>1 DEF ServiceType, Soft
<1>3. /\ svc' = [svc EXCEPT ![p] = WakeAt(v)] /\ Done(p, "snap")
      /\ UNCHANGED <<ledger, expired, mounted, tasks, rts, queue, quiet, left>>
  BY DEF SnapshotBack, Set
<1> HIDE DEF v
<1>4. Soft(v, WakeAt(v)) /\ WakeAt(v) \in ServiceType /\ WakeAt(v).timer <= Len(ledger)
  BY <1>1, <1>2, WakeAtIsSoft DEF Soft
<1>5. Soft(s, WakeAt(v))
  BY <1>2, <1>4, SoftAgain
<1>. QED  BY <1>3, <1>4, <1>5, AsideDone

LEMMA PollFiresKeeps ==
    ASSUME IInv, NEW p \in Process, PollFires(p)
    PROVE  IInv'
<1> DEFINE s == svc[p]
           f == Forget(s, s.wake)
           over == [s EXCEPT !.timer = 0]
           u == [f EXCEPT !.timer = 0]
           lost == [u EXCEPT !.lost = TRUE, !.status = FALSE]
           j == ToIssue(Idle, "poll", "poll")
<1>1. UNCHANGED <<ledger, expired, mounted, tasks, queue, quiet, left>> /\ LedgerSteps
  BY Still DEF PollFires
<1>2. s \in ServiceType /\ s.timer <= Len(ledger) /\ Len(ledger) \in Nat
  BY Here
<1>3. over \in ServiceType /\ Soft(s, over) /\ over.timer <= Len(ledger)
  BY <1>2 DEF ServiceType, Soft
<1>4. f \in ServiceType /\ Soft(s, f)
  BY <1>2, ForgetIsSoft DEF Soft
<1> HIDE DEF f
<1>5. u \in ServiceType /\ Soft(f, u) /\ u.timer <= Len(ledger)
  BY <1>2, <1>4 DEF ServiceType, Soft
<1>6. lost \in ServiceType /\ Soft(f, lost) /\ lost.timer <= Len(ledger)
  BY <1>2, <1>4, <1>5 DEF ServiceType, Soft
<1>7. Soft(s, u) /\ Soft(s, lost)
  BY <1>4, <1>5, <1>6, SoftAgain
<1>8. /\ UNCHANGED job => job' = [job EXCEPT ![p]["poll"] = job[p]["poll"]]
      /\ MayClaim(job[p]["poll"])
      /\ job[p]["poll"] \in JobType /\ ThreadOK("poll", job[p]["poll"])
  BY Stays, Here DEF Thread
<1>9. CASE Set(p, over) /\ UNCHANGED rts /\ UNCHANGED job
  <2>1. svc' = [svc EXCEPT ![p] = over]
    BY <1>9 DEF Set
  <2>2. RuntimesOK'
    BY <1>1, <1>9, RuntimesStay
  <2> HIDE DEF over
  <2>. QED  BY <1>1, <1>3, <1>8, <1>9, <2>1, <2>2, AsideSteps
<1>10. CASE Stop(p, s.wake) /\ Set(p, u) /\ Go(p, "poll", j)
  <2>1. svc' = [svc EXCEPT ![p] = u] /\ job' = [job EXCEPT ![p]["poll"] = j]
    BY <1>10 DEF Set, Go
  <2>2. RuntimesOK'
    BY <1>1, <1>10, RuntimeStopped
  <2>3. j \in JobType /\ ThreadOK("poll", j) /\ MayClaim(j)
    <3>1. "poll" \in Thread /\ "poll" \in StageOf("poll") /\ Idle \in JobType
      BY IdleIs DEF Thread, StageOf
    <3>. QED  BY <3>1, Issuing
  <2> HIDE DEF u, j
  <2>. QED  BY <1>1, <1>5, <1>7, <2>1, <2>2, <2>3, AsideSteps
<1>11. CASE Stop(p, s.wake) /\ Set(p, lost) /\ UNCHANGED job
  <2>1. svc' = [svc EXCEPT ![p] = lost]
    BY <1>11 DEF Set
  <2>2. RuntimesOK'
    BY <1>1, <1>11, RuntimeStopped
  <2> HIDE DEF lost
  <2>. QED  BY <1>1, <1>6, <1>7, <1>8, <1>11, <2>1, <2>2, AsideSteps
<1>. QED  BY <1>9, <1>10, <1>11 DEF PollFires, f

LEMMA PollBackKeeps ==
    ASSUME IInv, NEW p \in Process, PollBack(p)
    PROVE  IInv'
<1> DEFINE s == svc[p]
           v == [s EXCEPT !.status = TRUE]
           w == WakeAt(v)
<1>1. s \in ServiceType /\ ledger \in Seq(EventType)
  BY Here
<1>2. v \in ServiceType /\ Soft(s, v)
  BY <1>1 DEF ServiceType, Soft
<1>3. /\ svc' = [svc EXCEPT ![p] = Schedule(w)] /\ Done(p, "poll")
      /\ UNCHANGED <<ledger, expired, mounted, tasks, rts, queue, quiet, left>>
  BY DEF PollBack, Set
<1> HIDE DEF v
<1>4. Soft(v, w) /\ w \in ServiceType /\ w.timer <= Len(ledger)
  BY <1>1, <1>2, WakeAtIsSoft DEF Soft
<1> HIDE DEF w
<1>5. Soft(w, Schedule(w)) /\ Schedule(w) \in ServiceType /\ Schedule(w).timer <= Len(ledger)
  BY <1>4, ScheduleIsSoft DEF Soft
<1>6. Soft(s, Schedule(w))
  BY <1>2, <1>4, <1>5, SoftAgain
<1>. QED  BY <1>3, <1>5, <1>6, AsideDone

----------------------------------------------------------------------------
(* Calls, and the environment.                                             *)

\* Only the service's variables change.
LEMMA OnlyVariables ==
    ASSUME IInv, LedgerSteps, RuntimesOK', NEW p \in Process, NEW s \in ServiceType,
           svc' = [svc EXCEPT ![p] = s], UNCHANGED <<job, queue, quiet>>,
           Soft(svc[p], s), s.timer <= Len(ledger)
    PROVE  IInv'
<1>1. /\ job' = [job EXCEPT ![p]["snap"] = job[p]["snap"]] /\ MayClaim(job[p]["snap"])
      /\ job[p]["snap"] \in JobType /\ ThreadOK("snap", job[p]["snap"])
  BY Stays, Here DEF Thread
<1>. QED  BY <1>1, AsideSteps

LEMMA AdmitTaskKeeps ==
    ASSUME IInv, NEW p \in Process, AdmitTask(p)
    PROVE  IInv'
<1> DEFINE s == svc[p]
           e == PlainEvent("source", "none")
<1>1. /\ Spend("admit") /\ ledger' = Append(ledger, e) /\ tasks' = tasks \union {left.admit}
      /\ Set(p, Schedule(s)) /\ UNCHANGED <<expired, mounted, rts, job, queue, quiet>>
  BY DEF AdmitTask
<1>2. left' \in BudgetType /\ tasks' \subseteq Nat
  BY <1>1, BudgetSpent DEF IInv, WorldOK, BudgetType
<1>3. e \in EventType /\ e.kind = "source"
  BY DEF PlainEvent, EventType
<1> HIDE DEF e
<1>4. LedgerSteps
  BY <1>1, <1>2, <1>3, LedgerGrows
<1>5. RuntimesOK'
  BY <1>1, <1>4, RuntimesStay
<1>6. s \in ServiceType /\ s.timer <= Len(ledger)
  BY Here
<1>7. Soft(s, Schedule(s)) /\ Schedule(s) \in ServiceType /\ Schedule(s).timer <= Len(ledger)
  BY <1>6, ScheduleIsSoft DEF Soft
<1>. QED  BY <1>1, <1>4, <1>5, <1>7, OnlyVariables DEF Set

LEMMA RetryFiresKeeps ==
    ASSUME IInv, NEW p \in Process, RetryFires(p)
    PROVE  IInv'
<1> DEFINE s == svc[p]
           u == [s EXCEPT !.retry = FALSE]
<1>1. /\ svc' = [svc EXCEPT ![p] = Schedule(u)]
      /\ UNCHANGED <<ledger, expired, mounted, tasks, rts, job, queue, quiet, left>>
  BY DEF RetryFires, Set
<1>2. s \in ServiceType /\ s.timer <= Len(ledger)
  BY Here
<1>3. u \in ServiceType /\ Soft(s, u) /\ u.timer <= Len(ledger)
  BY <1>2 DEF ServiceType, Soft
<1> HIDE DEF u
<1>4. Soft(u, Schedule(u)) /\ Schedule(u) \in ServiceType /\ Schedule(u).timer <= Len(ledger)
  BY <1>3, ScheduleIsSoft DEF Soft
<1>5. Soft(s, Schedule(u))
  BY <1>3, <1>4, SoftAgain
<1>6. LedgerSteps
  BY <1>1, Still
<1>7. RuntimesOK'
  BY <1>1, <1>6, RuntimesStay
<1>. QED  BY <1>1, <1>4, <1>5, <1>6, <1>7, OnlyVariables

\* The variables, the queue or the flag change, and no thread moves.
LEMMA NoThreadMoves ==
    ASSUME IInv, LedgerSteps, RuntimesOK', NEW p \in Process, NEW t \in {"snap", "poll"},
           NEW s \in ServiceType, NEW q \in Seq(Op), NEW b \in BOOLEAN,
           svc' = [svc EXCEPT ![p] = s], queue' = [queue EXCEPT ![p] = q],
           quiet' = [quiet EXCEPT ![p] = b], job' = [job EXCEPT ![p][t] = job[p][t]],
           s.timer <= Len(ledger),
           TurnOK(s, job[p]["ctl"], job[p]["bg"]), PauseOK(s, job[p]["ctl"], q),
           QuietOK(s, job[p]["ctl"], b)
    PROVE  IInv'
<1> DEFINE j == job[p][t]
           c == job[p]["ctl"]
           g == job[p]["bg"]
<1>1. MayClaim(j) /\ j \in JobType /\ ThreadOK(t, j) /\ c \in JobType /\ g \in JobType
  BY Stays, Here DEF Thread
<1>2. t \in Thread /\ t # "ctl" /\ t # "bg"
  BY DEF Thread
<1> HIDE DEF j
<1>. QED  BY <1>1, <1>2, ServiceSteps DEF j

LEMMA CallSteps ==
    ASSUME IInv, LedgerSteps, RuntimesOK', NEW p \in Process,
           NEW s \in ServiceType, NEW q \in Seq(Op), NEW b \in BOOLEAN,
           svc' = [svc EXCEPT ![p] = s], queue' = [queue EXCEPT ![p] = q],
           quiet' = [quiet EXCEPT ![p] = b], UNCHANGED job, s.timer <= Len(ledger),
           TurnOK(s, job[p]["ctl"], job[p]["bg"]), PauseOK(s, job[p]["ctl"], q),
           QuietOK(s, job[p]["ctl"], b)
    PROVE  IInv'
<1>1. job' = [job EXCEPT ![p]["snap"] = job[p]["snap"]]
  BY Stays DEF Thread
<1>2. "snap" \in {"snap", "poll"}
  OBVIOUS
<1>. QED  BY <1>1, <1>2, NoThreadMoves

LEMMA PauseCallKeeps ==
    ASSUME IInv, NEW p \in Process, PauseCall(p)
    PROVE  IInv'
<1> DEFINE s == svc[p]
           c == job[p]["ctl"]
           u == [s EXCEPT !.pend = @ + 1, !.pausePending = TRUE, !.timer = 0,
                          !.retry = FALSE, !.rescan = FALSE]
           q == Append(queue[p], "pause")
<1>1. /\ Spend("pause") /\ UNCHANGED <<ledger, expired, mounted, tasks, rts, job, quiet>>
      /\ svc' = [svc EXCEPT ![p] = u] /\ queue' = [queue EXCEPT ![p] = q]
  <2>1. queue' = [queue EXCEPT ![p] = Append(@, "pause")]
    BY DEF PauseCall
  <2>. QED  BY <2>1 DEF PauseCall, Set, IInv, ServicesOK
<1>2. LedgerSteps
  BY <1>1, BudgetSpent, LedgerStays DEF IInv, WorldOK
<1>3. RuntimesOK'
  BY <1>1, <1>2, RuntimesStay
<1>4. /\ s \in ServiceType /\ queue[p] \in Seq(Op) /\ quiet[p] \in BOOLEAN
      /\ TurnOK(s, c, job[p]["bg"]) /\ PauseOK(s, c, queue[p]) /\ QuietOK(s, c, quiet[p])
      /\ Len(ledger) \in Nat
  BY Here
<1>5. /\ u \in ServiceType /\ u.timer = 0 /\ u.pend = s.pend + 1 /\ u.pausePending
      /\ u.exec = s.exec /\ u.active = s.active /\ u.bg = s.bg /\ u.stopped = s.stopped
  <2>1. s.pend + 1 \in Nat
    BY <1>4 DEF ServiceType
  <2>2. /\ u.timer = 0 /\ u.pend = s.pend + 1 /\ u.pausePending
        /\ u.exec = s.exec /\ u.active = s.active /\ u.bg = s.bg /\ u.stopped = s.stopped
    BY <1>4 DEF ServiceType
  <2>3. u \in ServiceType
    BY <1>4, <2>1 DEF ServiceType
  <2>. QED  BY <2>2, <2>3
<1>6. q \in Seq(Op) /\ Pauses(q) = Pauses(queue[p]) + 1 /\ Pauses(queue[p]) \in Nat
  <2>1. queue[p] \in Seq({"pause", "resume", "sourced"})
    BY <1>4 DEF Op
  <2>2. Pauses(q) = Pauses(queue[p]) + (IF "pause" = "pause" THEN 1 ELSE 0)
    BY <2>1, PausesAppended
  <2>3. Pauses(queue[p]) \in Nat
    BY <2>1, PausesType
  <2>4. q \in Seq(Op)
    BY <2>1 DEF Op
  <2>. QED  BY <2>2, <2>3, <2>4
<1>7. quiet' = [quiet EXCEPT ![p] = quiet[p]]
  BY <1>1, Stays DEF Thread
<1> HIDE DEF u, q
<1>8. TurnOK(u, c, job[p]["bg"]) /\ QuietOK(u, c, quiet[p])
  BY <1>4, <1>5 DEF TurnOK, QuietOK
<1>9. PauseOK(u, c, q)
  BY <1>4, <1>5, <1>6 DEF PauseOK
<1>10. u.timer <= Len(ledger)
  BY <1>4, <1>5
<1>. QED  BY <1>1, <1>2, <1>3, <1>4, <1>5, <1>6, <1>7, <1>8, <1>9, <1>10, CallSteps

LEMMA OtherCallKeeps ==
    ASSUME IInv, NEW p \in Process, NEW op \in {"resume", "sourced"}, OtherCall(p, op)
    PROVE  IInv'
<1> DEFINE s == svc[p]
           c == job[p]["ctl"]
           q == Append(queue[p], op)
<1>1. /\ Spend(op) /\ UNCHANGED <<ledger, expired, mounted, tasks, svc, rts, job, quiet>>
      /\ queue' = [queue EXCEPT ![p] = q]
  <2>1. queue' = [queue EXCEPT ![p] = Append(@, op)]
    BY DEF OtherCall
  <2>. QED  BY <2>1 DEF OtherCall, IInv, ServicesOK
<1>2. LedgerSteps
  BY <1>1, BudgetSpent, LedgerStays DEF IInv, WorldOK
<1>3. RuntimesOK'
  BY <1>1, <1>2, RuntimesStay
<1>4. /\ s \in ServiceType /\ queue[p] \in Seq(Op) /\ quiet[p] \in BOOLEAN
      /\ TurnOK(s, c, job[p]["bg"]) /\ PauseOK(s, c, queue[p]) /\ QuietOK(s, c, quiet[p])
      /\ s.timer <= Len(ledger)
  BY Here
<1>5. q \in Seq(Op) /\ Pauses(q) = Pauses(queue[p])
  <2>1. queue[p] \in Seq({"pause", "resume", "sourced"})
    BY <1>4 DEF Op
  <2>2. Pauses(q) = Pauses(queue[p]) + (IF op = "pause" THEN 1 ELSE 0)
    BY <2>1, PausesAppended
  <2>3. Pauses(queue[p]) \in Nat
    BY <2>1, PausesType
  <2>4. q \in Seq(Op)
    BY <2>1 DEF Op
  <2>5. op # "pause"
    OBVIOUS
  <2> HIDE DEF q
  <2>. QED  BY <2>2, <2>3, <2>4, <2>5
<1>6. quiet' = [quiet EXCEPT ![p] = quiet[p]] /\ svc' = [svc EXCEPT ![p] = s]
  BY <1>1, Stays DEF Thread
<1> HIDE DEF q
<1>7. PauseOK(s, c, q)
  BY <1>4, <1>5 DEF PauseOK
<1>. QED  BY <1>1, <1>2, <1>3, <1>4, <1>5, <1>6, <1>7, CallSteps

LEMMA StopCallKeeps ==
    ASSUME IInv, NEW p \in Process, StopCall(p)
    PROVE  IInv'
<1> DEFINE s == svc[p]
           c == job[p]["ctl"]
           u == [s EXCEPT !.stopped = TRUE, !.pausePending = TRUE, !.timer = 0,
                          !.retry = FALSE, !.rescan = FALSE]
<1>1. /\ Spend("stop") /\ UNCHANGED <<ledger, expired, mounted, tasks, rts, job, queue>>
      /\ svc' = [svc EXCEPT ![p] = u] /\ quiet' = [quiet EXCEPT ![p] = FALSE]
  BY DEF StopCall, Set
<1>2. LedgerSteps
  BY <1>1, BudgetSpent, LedgerStays DEF IInv, WorldOK
<1>3. RuntimesOK'
  BY <1>1, <1>2, RuntimesStay
<1>4. /\ s \in ServiceType /\ queue[p] \in Seq(Op)
      /\ TurnOK(s, c, job[p]["bg"]) /\ PauseOK(s, c, queue[p]) /\ Len(ledger) \in Nat
  BY Here
<1>5. /\ u \in ServiceType /\ u.timer <= Len(ledger) /\ u.pend = s.pend /\ u.pausePending
      /\ u.exec = s.exec /\ u.active = s.active /\ u.bg = s.bg
  <2>1. /\ u \in ServiceType /\ u.timer = 0 /\ u.pend = s.pend /\ u.pausePending
        /\ u.exec = s.exec /\ u.active = s.active /\ u.bg = s.bg
    BY <1>4 DEF ServiceType
  <2>. QED  BY <1>4, <2>1
<1>6. queue' = [queue EXCEPT ![p] = queue[p]]
  BY <1>1, Stays DEF Thread
<1> HIDE DEF u
<1>7. TurnOK(u, c, job[p]["bg"]) /\ QuietOK(u, c, FALSE) /\ PauseOK(u, c, queue[p])
  BY <1>4, <1>5 DEF TurnOK, QuietOK, PauseOK
<1>. QED  BY <1>1, <1>2, <1>3, <1>4, <1>5, <1>6, <1>7, CallSteps

\* Stop waits until nothing is under way.
LEMMA StopReturnsKeeps ==
    ASSUME IInv, NEW p \in Process, StopReturns(p)
    PROVE  IInv'
<1> DEFINE s == svc[p]
           c == job[p]["ctl"]
           f == Forget(s, s.wake)
           u == [f EXCEPT !.status = FALSE]
<1>1. /\ UNCHANGED <<ledger, expired, mounted, tasks, job, queue, left>> /\ Stop(p, s.wake)
      /\ svc' = [svc EXCEPT ![p] = u] /\ quiet' = [quiet EXCEPT ![p] = TRUE]
      /\ s.stopped /\ c = Idle /\ job[p]["bg"] = Idle
  BY DEF StopReturns, Set
<1>2. LedgerSteps
  BY <1>1, Still
<1>3. RuntimesOK'
  BY <1>1, <1>2, RuntimeStopped
<1>4. /\ s \in ServiceType /\ queue[p] \in Seq(Op) /\ s.timer <= Len(ledger)
      /\ TurnOK(s, c, job[p]["bg"]) /\ PauseOK(s, c, queue[p])
  BY Here
<1>5. f \in ServiceType /\ Soft(s, f) /\ f.timer = s.timer
  BY <1>4, ForgetIsSoft DEF Soft
<1> HIDE DEF f
<1>6. u \in ServiceType /\ Soft(f, u) /\ u.timer = s.timer
  BY <1>5 DEF ServiceType, Soft
<1>7. queue' = [queue EXCEPT ![p] = queue[p]]
  BY <1>1, Stays DEF Thread
<1>8. Soft(s, u)
  BY <1>5, <1>6, SoftAgain
<1> HIDE DEF u
<1>9. TurnOK(u, c, job[p]["bg"]) /\ PauseOK(u, c, queue[p])
  BY <1>4, <1>8 DEF TurnOK, PauseOK, Soft
<1>10. s.exec = "none" /\ ~s.active /\ c.stage = ""
  <2>1. s.exec \in {"none", "ctl", "bg"} /\ s.active \in BOOLEAN
    BY <1>4 DEF ServiceType
  <2>. QED  BY <1>1, <1>4, <2>1, IdleIs DEF TurnOK
<1>11. QuietOK(u, c, TRUE)
  BY <1>1, <1>8, <1>10 DEF QuietOK, Soft
<1>12. u.timer <= Len(ledger) /\ TRUE \in BOOLEAN
  BY <1>4, <1>6
<1>. QED  BY <1>1, <1>2, <1>3, <1>4, <1>6, <1>7, <1>9, <1>11, <1>12, CallSteps

\* A lease's time is over: fewer leases bind.
LEMMA ExpireLeaseKeeps ==
    ASSUME IInv, ExpireLease
    PROVE  IInv'
<1>1. Spend("expire") /\ UNCHANGED <<ledger, mounted, tasks, svc, rts, job, queue, quiet>>
  BY DEF ExpireLease
<1>2. PICK i \in DOMAIN ledger : ledger[i].kind = "lease" /\ expired' = expired \union {i}
  BY DEF ExpireLease
<1>3. left' \in BudgetType
  BY <1>1, BudgetSpent DEF IInv, WorldOK
<1>4. WorldOK'
  BY <1>1, <1>2, <1>3 DEF IInv, WorldOK
<1>5. LiveLeases(ledger, expired)' \subseteq LiveLeases(ledger, expired)
  BY <1>1, <1>2, LiveByAnOldClock
<1>6. LedgerSteps
  <2>1. OneBinds'
    BY <1>5 DEF IInv, OneBinds
  <2>2. Len(ledger) <= Len(ledger') /\ expired \subseteq expired'
    BY <1>1, <1>2, Events DEF IInv, WorldOK
  <2>. QED  BY <1>4, <1>5, <2>1, <2>2 DEF LedgerSteps
<1>7. RuntimesOK'
  BY <1>1, <1>6, RuntimesStay
<1>8. ServicesOK' /\ TimersOK'
  BY <1>1 DEF IInv, ServicesOK, TimersOK
<1>9. ClaimsAreFree'
  BY <1>1, <1>5 DEF IInv, ClaimsAreFree
<1>. QED  BY <1>4, <1>6, <1>7, <1>8, <1>9 DEF IInv, LedgerSteps

LEMMA DriveKeeps ==
    ASSUME IInv, Drive
    PROVE  IInv'
<1>1. UNCHANGED <<ledger, expired, tasks, svc, rts, job, queue, quiet>> /\ mounted' \in BOOLEAN
  BY DEF Drive, IInv, WorldOK
<1>2. left' \in BudgetType
  BY BudgetSpent DEF Drive, IInv, WorldOK
<1>3. WorldOK'
  BY <1>1, <1>2 DEF IInv, WorldOK
<1>. QED  BY <1>1, <1>3 DEF IInv, ServicesOK, TimersOK, RuntimesOK, ClaimsAreFree, OneBinds

----------------------------------------------------------------------------
(* Execution.                                                              *)

\* What a thread that works tells of the turn.
LEMMA TurnHeld ==
    ASSUME NEW s \in ServiceType, NEW c \in JobType, NEW g \in JobType, TurnOK(s, c, g),
           ThreadOK("ctl", c), ThreadOK("bg", g)
    PROVE  /\ c.stage = "sourced" /\ Working(c) => s.exec = "ctl" /\ ~Working(g) /\ ~Running(g)
           /\ Working(g) => /\ s.exec = "bg" /\ ~(c.stage = "sourced" /\ Working(c))
                            /\ ~Running(c)
           /\ s.exec = "none" => /\ ~Working(g) /\ ~Running(g) /\ ~Running(c) /\ ~s.active
                                 /\ ~(c.stage = "sourced" /\ Working(c))
           /\ Running(c) => c.stage = "sourced" /\ Working(c)
<1>1. Running(c) => c.stage = "sourced" /\ Working(c)
  <2>1. Running(c) => c.stage \in {"sourced", "bg"} /\ c # Idle
    BY IdleIs DEF ThreadOK
  <2>2. c # Idle => c.stage \in {"pause", "resume", "fence", "sourced"}
    BY DEF ThreadOK, StageOf
  <2>. QED  BY <2>1, <2>2 DEF Working
<1>2. Running(g) => Working(g)
  BY DEF Working
<1>3. s.exec \in {"none", "ctl", "bg"} /\ s.active \in BOOLEAN
  BY DEF ServiceType
<1>. QED  BY <1>1, <1>2, <1>3 DEF TurnOK

\* The cycle comes to its end.
LEMMA CycleEnds ==
    ASSUME IInv, LedgerSteps, RuntimesOK', NEW p \in Process, NEW s \in ServiceType,
           NEW failed \in BOOLEAN,
           svc' = [svc EXCEPT ![p] = CycleOver(s, failed)],
           job' = [job EXCEPT ![p]["bg"] = Idle], UNCHANGED <<queue, quiet>>,
           s.timer <= Len(ledger), s.pend = svc[p].pend, s.stopped = svc[p].stopped,
           svc[p].pausePending => s.pausePending, s.exec # "bg",
           s.exec = "ctl" <=> svc[p].exec = "ctl", s.active <=> Running(job[p]["ctl"])
    PROVE  IInv'
<1> DEFINE u == CycleOver(s, failed)
           c == job[p]["ctl"]
<1>1. /\ u \in ServiceType /\ u.bg # "running"
      /\ u.exec = s.exec /\ u.active = s.active /\ u.pend = s.pend
      /\ u.stopped = s.stopped /\ u.pausePending = s.pausePending /\ u.timer = s.timer
  BY CycleIsOver
<1>2. /\ svc[p] \in ServiceType /\ TurnOK(svc[p], c, job[p]["bg"]) /\ QuietOK(svc[p], c, quiet[p])
      /\ c \in JobType /\ ThreadOK("ctl", c)
      /\ job[p]["bg"] \in JobType /\ ThreadOK("bg", job[p]["bg"])
  BY Here DEF Thread
<1> HIDE DEF u, c
<1>3. TurnOK(u, c, Idle)
  BY <1>1, <1>2, IdleIs DEF TurnOK, c
<1>4. QuietOK(u, c, quiet[p])
  <2>1. svc[p].exec = "none" => ~Running(c) /\ s.exec # "ctl" /\ s.exec # "bg"
    BY <1>2, TurnHeld DEF c
  <2>2. s.exec \in {"none", "ctl", "bg"}
    BY DEF ServiceType
  <2>. QED  BY <1>1, <1>2, <2>1, <2>2 DEF QuietOK, c
<1>. QED  BY <1>1, <1>3, <1>4, IdleIs, CycleSteps DEF u, c, Thread

LEMMA BackgroundStartsKeeps ==
    ASSUME IInv, NEW p \in Process, BackgroundStarts(p)
    PROVE  IInv'
<1> DEFINE s == svc[p]
           idle == [s EXCEPT !.bg = "idle"]
           lost == [s EXCEPT !.lost = TRUE]
           run == [s EXCEPT !.bg = "running"]
           j == [Idle EXCEPT !.at = "read", !.stage = "bg"]
<1>1. UNCHANGED <<ledger, expired, mounted, tasks, rts, queue, quiet, left>>
      /\ s.bg = "scheduled"
  BY DEF BackgroundStarts
<1>2. LedgerSteps
  BY <1>1, Still
<1>3. RuntimesOK'
  BY <1>1, <1>2, RuntimesStay
<1>4. /\ s \in ServiceType /\ s.timer <= Len(ledger) /\ quiet[p] \in BOOLEAN
      /\ TurnOK(s, job[p]["ctl"], job[p]["bg"]) /\ QuietOK(s, job[p]["ctl"], quiet[p])
      /\ ThreadOK("bg", job[p]["bg"])
  BY Here DEF Thread
<1>5. CASE Set(p, idle) /\ UNCHANGED job
  <2>1. idle \in ServiceType /\ Soft(s, idle) /\ idle.timer = s.timer
    BY <1>1, <1>4 DEF ServiceType, Soft
  <2>2. svc' = [svc EXCEPT ![p] = idle]
    BY <1>5 DEF Set
  <2> HIDE DEF idle
  <2>. QED  BY <1>1, <1>2, <1>3, <1>4, <1>5, <2>1, <2>2, OnlyVariables
<1>6. CASE Set(p, CycleOver(s, FALSE)) /\ UNCHANGED job
  <2>1. CycleOver(s, FALSE) \in ServiceType /\ Soft(s, CycleOver(s, FALSE))
        /\ CycleOver(s, FALSE).timer = s.timer
    BY <1>1, <1>4, CycleIsOver DEF Soft
  <2>. QED  BY <1>1, <1>2, <1>3, <1>4, <1>6, <2>1, OnlyVariables DEF Set
<1>7. CASE Set(p, CycleOver(lost, FALSE)) /\ UNCHANGED job
  <2>1. lost \in ServiceType /\ Soft(s, lost) /\ lost.timer = s.timer /\ lost.bg = "scheduled"
    BY <1>1, <1>4 DEF ServiceType, Soft
  <2>2. svc' = [svc EXCEPT ![p] = CycleOver(lost, FALSE)]
    BY <1>7 DEF Set
  <2> HIDE DEF lost
  <2>3. CycleOver(lost, FALSE) \in ServiceType /\ Soft(lost, CycleOver(lost, FALSE))
        /\ CycleOver(lost, FALSE).timer = s.timer
    BY <2>1, CycleIsOver DEF Soft
  <2>4. Soft(s, CycleOver(lost, FALSE))
    BY <2>1, <2>3, SoftAgain
  <2>. QED  BY <1>1, <1>2, <1>3, <1>4, <1>7, <2>2, <2>3, <2>4, OnlyVariables
<1>8. CASE Set(p, run) /\ Go(p, "bg", j)
  <2>1. /\ run \in ServiceType /\ run.timer = s.timer /\ run.pend = s.pend
        /\ run.pausePending = s.pausePending /\ run.stopped = s.stopped
        /\ run.exec = s.exec /\ run.active = s.active /\ run.bg = "running"
    BY <1>4 DEF ServiceType
  <2>2. j \in JobType /\ j.at = "read" /\ j.stage = "bg"
    BY IdleIs DEF JobType
  <2>3. svc' = [svc EXCEPT ![p] = run] /\ job' = [job EXCEPT ![p]["bg"] = j]
    BY <1>8 DEF Set, Go
  <2> HIDE DEF j, run
  <2>4. ThreadOK("bg", j) /\ MayClaim(j) /\ ~Running(j) /\ ~Working(j)
    BY <2>2 DEF ThreadOK, MayClaim, Running, Working, Admitting, StageOf
  <2>5. job[p]["bg"].at = "idle"
    BY <1>1, <1>4 DEF TurnOK
  <2>6. ~Running(job[p]["bg"]) /\ ~Working(job[p]["bg"])
    BY <2>5 DEF Running, Working, Admitting
  <2>7. TurnOK(run, job[p]["ctl"], j)
    BY <1>4, <2>1, <2>2, <2>4, <2>6 DEF TurnOK
  <2>8. QuietOK(run, job[p]["ctl"], quiet[p])
    BY <1>4, <2>1 DEF QuietOK
  <2>. QED  BY <1>1, <1>2, <1>3, <1>4, <2>1, <2>2, <2>3, <2>4, <2>7, <2>8, CycleSteps
<1>. QED  BY <1>5, <1>6, <1>7, <1>8 DEF BackgroundStarts

LEMMA BackgroundReadsKeeps ==
    ASSUME IInv, NEW p \in Process, BackgroundReads(p)
    PROVE  IInv'
<1> DEFINE s == svc[p]
           b == job[p]["bg"]
           j == [b EXCEPT !.at = "turn", !.list = tasks]
<1>1. UNCHANGED <<ledger, expired, mounted, tasks, rts, queue, quiet, left>>
      /\ b.stage = "bg" /\ b.at = "read" /\ At(p, "bg", "bg", "read")
  BY DEF BackgroundReads, At
<1>2. LedgerSteps
  BY <1>1, Still
<1>3. RuntimesOK'
  BY <1>1, <1>2, RuntimesStay
<1>4. /\ s \in ServiceType /\ s.timer <= Len(ledger) /\ quiet[p] \in BOOLEAN
      /\ TurnOK(s, job[p]["ctl"], b) /\ QuietOK(s, job[p]["ctl"], quiet[p])
      /\ b \in JobType /\ ThreadOK("bg", b)
  BY Here DEF Thread
<1>5. ~Running(b) /\ ~Working(b)
  BY <1>1 DEF Running, Working, Admitting
<1>6. CASE Set(p, CycleOver(s, FALSE)) /\ Done(p, "bg")
  <2>1. svc' = [svc EXCEPT ![p] = CycleOver(s, FALSE)] /\ job' = [job EXCEPT ![p]["bg"] = Idle]
    BY <1>6 DEF Set, Done, Go
  <2>2. s.exec # "bg" /\ (s.active <=> Running(job[p]["ctl"])) /\ FALSE \in BOOLEAN
    BY <1>4, <1>5 DEF TurnOK
  <2>. QED  BY <1>1, <1>2, <1>3, <1>4, <2>1, <2>2, CycleEnds
<1>7. CASE Go(p, "bg", j) /\ UNCHANGED svc
  <2>1. j \in JobType /\ j.at = "turn" /\ j.stage = "bg"
    BY <1>1, <1>4 DEF JobType, IInv, WorldOK
  <2>2. svc' = [svc EXCEPT ![p] = s] /\ job' = [job EXCEPT ![p]["bg"] = j]
    BY <1>7, Stays DEF Go, Thread
  <2> HIDE DEF j
  <2>3. ThreadOK("bg", j) /\ MayClaim(j) /\ ~Running(j) /\ ~Working(j)
    BY <2>1 DEF ThreadOK, MayClaim, Running, Working, Admitting, StageOf
  <2>4. TurnOK(s, job[p]["ctl"], j)
    BY <1>1, <1>4, <1>5, <2>1, <2>3 DEF TurnOK
  <2> HIDE DEF b
  <2>. QED  BY <1>1, <1>2, <1>3, <1>4, <2>1, <2>2, <2>3, <2>4, CycleSteps
<1>. QED  BY <1>6, <1>7 DEF BackgroundReads

\* A thread that gets the turn works, and runs at once if a status is known.
LEMMA ToExecuteKeeps ==
    ASSUME IInv, LedgerSteps, RuntimesOK', NEW p \in Process, NEW t \in {"ctl", "bg"},
           NEW stage \in {"sourced", "bg"}, stage = "sourced" <=> t = "ctl",
           At(p, t, stage, "turn"), svc[p].exec = "none", ~svc[p].stopped,
           ~svc[p].pausePending, UNCHANGED <<queue, quiet>>,
           ToExecute(p, t, job[p][t], [svc[p] EXCEPT !.exec = t])
    PROVE  IInv'
<1> DEFINE s == svc[p]
           i == job[p][t]
           c == job[p]["ctl"]
           b == job[p]["bg"]
           u == [s EXCEPT !.exec = t]
           v == [u EXCEPT !.active = TRUE]
<1>1. /\ s \in ServiceType /\ s.timer <= Len(ledger) /\ quiet[p] \in BOOLEAN
      /\ c \in JobType /\ b \in JobType /\ ThreadOK("ctl", c) /\ ThreadOK("bg", b)
      /\ TurnOK(s, c, b) /\ PauseOK(s, c, queue[p]) /\ QuietOK(s, c, quiet[p])
      /\ i \in JobType
  BY Here DEF Thread
<1>2. i.stage = stage /\ i.at = "turn" /\ i # Idle /\ t \in Thread
  BY IdleIs DEF At, Thread
<1>3. ~Running(c) /\ ~Running(b) /\ ~Working(b) /\ ~(c.stage = "sourced" /\ Working(c))
      /\ ~s.active
  BY <1>1, TurnHeld
<1>4. ~quiet[p]
  BY <1>1 DEF QuietOK
<1>5. /\ u \in ServiceType /\ u.timer = s.timer /\ u.exec = t /\ u.active = s.active
      /\ u.pend = s.pend /\ u.pausePending = s.pausePending /\ u.bg = s.bg
      /\ u.wake = s.wake /\ u.status = s.status
  BY <1>1 DEF ServiceType
<1>6. /\ v \in ServiceType /\ v.timer = s.timer /\ v.exec = t /\ v.active = TRUE
      /\ v.pend = s.pend /\ v.pausePending = s.pausePending /\ v.bg = s.bg
  BY <1>5 DEF ServiceType
<1>7. ASSUME NEW w \in ServiceType, NEW j \in JobType,
             svc' = [svc EXCEPT ![p] = w], job' = [job EXCEPT ![p][t] = j],
             w.timer = s.timer, w.exec = t, w.active <=> Running(j), w.pend = s.pend,
             w.pausePending = s.pausePending, w.bg = s.bg,
             MayClaim(j), ThreadOK(t, j), j.stage = stage, Working(j), j.at # "idle"
      PROVE  IInv'
  <2>1. CASE t = "ctl"
    <3>1. stage = "sourced" /\ c.stage = "sourced"
      BY <1>2, <2>1
    <3>2. TurnOK(w, j, b)
      BY <1>1, <1>3, <1>7, <2>1, <3>1 DEF TurnOK
    <3>3. PauseOK(w, j, queue[p]) /\ QuietOK(w, j, quiet[p])
      BY <1>1, <1>4, <1>7, <3>1 DEF PauseOK, QuietOK
    <3>4. quiet' = [quiet EXCEPT ![p] = quiet[p]]
      BY Stays DEF Thread
    <3> HIDE DEF i, c
    <3>. QED  BY <1>1, <1>7, <2>1, <3>2, <3>3, <3>4, ControlSteps
  <2>2. CASE t = "bg"
    <3>2. TurnOK(w, c, j)
      BY <1>1, <1>2, <1>3, <1>7, <2>2 DEF TurnOK
    <3>3. QuietOK(w, c, quiet[p])
      BY <1>4 DEF QuietOK
    <3> HIDE DEF i, b
    <3>. QED  BY <1>1, <1>7, <2>2, <3>2, <3>3, CycleSteps
  <2>. QED  BY <2>1, <2>2
<1>8. CASE Set(p, u) /\ Go(p, t, ToIssue(i, i.stage, "start"))
  <2> DEFINE j == ToIssue(i, i.stage, "start")
  <2>1. stage \in StageOf(t)
    BY DEF StageOf
  <2>2. /\ j \in JobType /\ ThreadOK(t, j) /\ MayClaim(j) /\ j.at = "issue" /\ j.stage = stage
        /\ Working(j) /\ ~Running(j)
    BY <1>1, <1>2, <2>1, Issuing
  <2>3. svc' = [svc EXCEPT ![p] = u] /\ job' = [job EXCEPT ![p][t] = j]
    BY <1>8 DEF Set, Go
  <2> HIDE DEF u, j
  <2>. QED  BY <1>3, <1>5, <1>7, <2>2, <2>3
<1>9. CASE s.wake # 0 /\ Set(p, v) /\ Go(p, t, [i EXCEPT !.at = "run", !.rt = s.wake])
  <2> DEFINE j == [i EXCEPT !.at = "run", !.rt = s.wake]
  <2>1. s.wake \in Runtime \union {0}
    BY <1>1 DEF ServiceType
  <2>2. j \in JobType /\ j.at = "run" /\ j.stage = stage /\ j.rt # 0
    BY <1>1, <1>2, <1>9, <2>1 DEF JobType
  <2>3. svc' = [svc EXCEPT ![p] = v] /\ job' = [job EXCEPT ![p][t] = j]
    BY <1>9 DEF Set, Go
  <2> HIDE DEF v, j
  <2>4. Running(j) /\ Working(j) /\ MayClaim(j) /\ ThreadOK(t, j)
    BY <2>2 DEF Running, Working, Admitting, MayClaim, ThreadOK, StageOf
  <2>. QED  BY <1>6, <1>7, <2>2, <2>3, <2>4
<1>10. CASE /\ s.wake # 0 /\ Set(p, u)
            /\ Go(p, t, [i EXCEPT !.at = "begin", !.rt = s.wake, !.op = "start"])
  <2> DEFINE j == [i EXCEPT !.at = "begin", !.rt = s.wake, !.op = "start"]
  <2>1. s.wake \in Runtime \union {0}
    BY <1>1 DEF ServiceType
  <2>2. j \in JobType /\ j.at = "begin" /\ j.stage = stage /\ j.rt # 0
    <3> DEFINE n == s.wake
    <3>1. i \in JobType /\ i.stage = stage /\ n \in Runtime \union {0} /\ n # 0
      BY <1>1, <1>2, <1>10, <2>1
    <3> HIDE DEF i, n
    <3>2. [i EXCEPT !.at = "begin", !.rt = n, !.op = "start"] \in JobType
      BY <3>1 DEF JobType, Admitting
    <3>. QED  BY <3>1, <3>2 DEF JobType, n
  <2>3. svc' = [svc EXCEPT ![p] = u] /\ job' = [job EXCEPT ![p][t] = j]
    BY <1>10 DEF Set, Go
  <2> HIDE DEF u, j
  <2>4. ~Running(j) /\ Working(j) /\ MayClaim(j) /\ ThreadOK(t, j)
    BY <2>2 DEF Running, Working, Admitting, MayClaim, ThreadOK, StageOf
  <2>. QED  BY <1>3, <1>5, <1>7, <2>2, <2>3, <2>4
<1>. QED  BY <1>5, <1>8, <1>9, <1>10 DEF ToExecute

LEMMA BackgroundTurnKeeps ==
    ASSUME IInv, NEW p \in Process, BackgroundTurn(p)
    PROVE  IInv'
<1> DEFINE s == svc[p]
           b == job[p]["bg"]
           q == [s EXCEPT !.pausePending = TRUE]
<1>1. UNCHANGED <<ledger, expired, mounted, tasks, rts, queue, quiet, left>>
      /\ At(p, "bg", "bg", "turn") /\ s.exec = "none"
  BY DEF BackgroundTurn
<1>2. LedgerSteps
  BY <1>1, Still
<1>3. RuntimesOK'
  BY <1>1, <1>2, RuntimesStay
<1>4. /\ s \in ServiceType /\ s.timer <= Len(ledger)
      /\ TurnOK(s, job[p]["ctl"], b) /\ b \in JobType /\ ThreadOK("bg", b)
      /\ job[p]["ctl"] \in JobType /\ ThreadOK("ctl", job[p]["ctl"])
  BY Here DEF Thread
<1>5. ~Running(job[p]["ctl"]) /\ ~s.active
  BY <1>1, <1>4, TurnHeld
<1>6. ASSUME NEW failed \in BOOLEAN, Set(p, CycleOver(s, failed)), Done(p, "bg")
      PROVE  IInv'
  <2>1. svc' = [svc EXCEPT ![p] = CycleOver(s, failed)] /\ job' = [job EXCEPT ![p]["bg"] = Idle]
    BY <1>6 DEF Set, Done, Go
  <2>. QED  BY <1>1, <1>2, <1>3, <1>4, <1>5, <2>1, CycleEnds
<1>7. CASE Set(p, CycleOver(q, FALSE)) /\ Done(p, "bg")
  <2>1. svc' = [svc EXCEPT ![p] = CycleOver(q, FALSE)] /\ job' = [job EXCEPT ![p]["bg"] = Idle]
    BY <1>7 DEF Set, Done, Go
  <2>2. /\ q \in ServiceType /\ q.timer = s.timer /\ q.pend = s.pend /\ q.stopped = s.stopped
        /\ q.pausePending /\ q.exec = s.exec /\ q.active = s.active
    BY <1>4 DEF ServiceType
  <2> HIDE DEF q
  <2>. QED  BY <1>1, <1>2, <1>3, <1>4, <1>5, <2>1, <2>2, CycleEnds
<1>8. CASE /\ ~s.stopped /\ ~s.pausePending
           /\ ToExecute(p, "bg", b, [s EXCEPT !.exec = "bg"])
  BY <1>1, <1>2, <1>3, <1>8, ToExecuteKeeps
<1>9. \/ Set(p, CycleOver(s, FALSE)) /\ Done(p, "bg")
      \/ Set(p, CycleOver(s, TRUE)) /\ Done(p, "bg")
      \/ Set(p, CycleOver(q, FALSE)) /\ Done(p, "bg")
      \/ /\ ~s.stopped /\ ~s.pausePending
         /\ ToExecute(p, "bg", b, [s EXCEPT !.exec = "bg"])
  BY Zenon DEF BackgroundTurn
<1> HIDE DEF q
<1>. QED  BY <1>6, <1>7, <1>8, <1>9

LEMMA SourcedTurnKeeps ==
    ASSUME IInv, NEW p \in Process, SourcedTurn(p)
    PROVE  IInv'
<1> DEFINE s == svc[p]
           c == job[p]["ctl"]
<1>1. UNCHANGED <<ledger, expired, mounted, tasks, rts, queue, quiet, left>>
      /\ At(p, "ctl", "sourced", "turn") /\ s.exec = "none"
  BY DEF SourcedTurn
<1>2. LedgerSteps
  BY <1>1, Still
<1>3. RuntimesOK'
  BY <1>1, <1>2, RuntimesStay
<1>4. /\ s \in ServiceType /\ s.timer <= Len(ledger) /\ quiet[p] \in BOOLEAN
      /\ TurnOK(s, c, job[p]["bg"]) /\ PauseOK(s, c, queue[p]) /\ QuietOK(s, c, quiet[p])
      /\ c \in JobType /\ ThreadOK("ctl", c)
      /\ job[p]["bg"] \in JobType /\ ThreadOK("bg", job[p]["bg"])
  BY Here DEF Thread
<1>5. CASE Done(p, "ctl") /\ UNCHANGED svc
  <2>1. svc' = [svc EXCEPT ![p] = s] /\ quiet' = [quiet EXCEPT ![p] = quiet[p]]
        /\ job' = [job EXCEPT ![p]["ctl"] = Idle]
    BY <1>1, <1>5, Stays DEF Done, Go, Thread
  <2>2. c.stage = "sourced" /\ c.at = "turn" /\ ~Working(c)
    BY <1>1 DEF At, Working, Running, Admitting
  <2>3. TurnOK(s, Idle, job[p]["bg"])
    BY <1>4, <2>2, IdleIs DEF TurnOK, Working
  <2>4. PauseOK(s, Idle, queue[p]) /\ QuietOK(s, Idle, quiet[p])
    BY <1>4, <2>2, IdleIs DEF PauseOK, QuietOK
  <2>. QED  BY <1>1, <1>2, <1>3, <1>4, <2>1, <2>3, <2>4, IdleIs, ControlSteps DEF Thread
<1>6. CASE ~s.stopped /\ ~s.pausePending /\ ToExecute(p, "ctl", c, [s EXCEPT !.exec = "ctl"])
  BY <1>1, <1>2, <1>3, <1>6, ToExecuteKeeps
<1>. QED  BY <1>5, <1>6, Zenon DEF SourcedTurn, MayExecute

\* The start was answered: the execution begins, or gives the turn back.
LEMMA StartBackKeeps ==
    ASSUME IInv, NEW p \in Process, NEW t \in {"ctl", "bg"}, StartBack(p, t)
    PROVE  IInv'
<1> DEFINE s == svc[p]
           i == job[p][t]
           c == job[p]["ctl"]
           b == job[p]["bg"]
           u == [s EXCEPT !.status = TRUE, !.active = TRUE]
           f == Forget(s, i.rt)
           v == [f EXCEPT !.status = FALSE, !.exec = "none"]
           run == [i EXCEPT !.at = "run"]
<1>1. UNCHANGED <<ledger, expired, mounted, tasks, queue, quiet, left>>
      /\ i.stage \in {"sourced", "bg"} /\ i.at = "back"
  BY DEF StartBack
<1>2. LedgerSteps
  BY <1>1, Still
<1>3. /\ s \in ServiceType /\ s.timer <= Len(ledger) /\ quiet[p] \in BOOLEAN
      /\ c \in JobType /\ b \in JobType /\ ThreadOK("ctl", c) /\ ThreadOK("bg", b)
      /\ TurnOK(s, c, b) /\ PauseOK(s, c, queue[p]) /\ QuietOK(s, c, quiet[p])
      /\ i \in JobType /\ ThreadOK(t, i)
  BY Here DEF Thread
<1>4. /\ i # Idle /\ Working(i) /\ ~Running(i) /\ i.rt # 0
      /\ i.stage = IF t = "ctl" THEN "sourced" ELSE "bg"
  <2>1. i # Idle /\ Working(i) /\ ~Running(i)
    BY <1>1, IdleIs DEF Working, Running, Admitting
  <2>. QED  BY <1>1, <1>3, <2>1 DEF ThreadOK, StageOf
<1>5. s.exec = t /\ ~s.active /\ ~Running(c) /\ ~Running(b)
      /\ (t = "ctl" => ~Working(b)) /\ (t = "bg" => ~(c.stage = "sourced" /\ Working(c)))
  <2>1. s.exec = t /\ ~Running(c) /\ ~Running(b)
        /\ (t = "ctl" => ~Working(b)) /\ (t = "bg" => ~(c.stage = "sourced" /\ Working(c)))
    BY <1>3, <1>4, TurnHeld
  <2>. QED  BY <1>3, <2>1 DEF TurnOK
<1>6. ~quiet[p]
  BY <1>3, <1>5 DEF QuietOK
<1>7. quiet' = [quiet EXCEPT ![p] = quiet[p]]
  BY <1>1, Stays DEF Thread
<1>8. CASE Set(p, u) /\ Go(p, t, run) /\ UNCHANGED rts
  <2>1. /\ u \in ServiceType /\ u.timer = s.timer /\ u.exec = s.exec /\ u.active
        /\ u.pend = s.pend /\ u.pausePending = s.pausePending /\ u.bg = s.bg
    BY <1>3 DEF ServiceType
  <2>2. run \in JobType /\ run.at = "run" /\ run.stage = i.stage /\ run.rt = i.rt
    BY <1>3 DEF JobType
  <2>3. svc' = [svc EXCEPT ![p] = u] /\ job' = [job EXCEPT ![p][t] = run]
    BY <1>8 DEF Set, Go
  <2> HIDE DEF u, run
  <2>4. Running(run) /\ Working(run) /\ MayClaim(run) /\ ThreadOK(t, run)
    BY <1>4, <2>2 DEF Running, Working, Admitting, MayClaim, ThreadOK, StageOf
  <2>5. RuntimesOK'
    BY <1>2, <1>8, RuntimesStay
  <2>6. CASE t = "ctl"
    <3>1. TurnOK(u, run, b)
      BY <1>3, <1>4, <1>5, <2>1, <2>2, <2>4, <2>6 DEF TurnOK
    <3>2. PauseOK(u, run, queue[p]) /\ QuietOK(u, run, quiet[p])
      BY <1>3, <1>4, <1>6, <2>1, <2>2, <2>6 DEF PauseOK, QuietOK
    <3> HIDE DEF i, c
    <3>. QED  BY <1>1, <1>2, <1>3, <1>7, <2>1, <2>2, <2>3, <2>4, <2>5, <2>6, <3>1, <3>2,
                 ControlSteps
  <2>7. CASE t = "bg"
    <3>3. /\ b.at = "back" /\ run.stage = "bg" /\ run.at # "idle" /\ s.exec = "bg"
          /\ ~Running(c) /\ ~(c.stage = "sourced" /\ Working(c))
      BY <1>1, <1>4, <1>5, <2>2, <2>7
    <3>1. TurnOK(u, c, run)
      <4> HIDE DEF i, c, b
      <4>. QED  BY <1>3, <2>1, <2>4, <3>3 DEF TurnOK
    <3>2. QuietOK(u, c, quiet[p])
      BY <1>6 DEF QuietOK
    <3> HIDE DEF i, b
    <3>. QED  BY <1>1, <1>2, <1>3, <1>7, <2>1, <2>2, <2>3, <2>4, <2>5, <2>7, <3>1, <3>2,
                 CycleSteps
  <2>. QED  BY <2>6, <2>7
<1>9. CASE /\ Stop(p, i.rt) /\ Done(p, t)
           /\ Set(p, IF t = "bg" THEN CycleOver(v, TRUE) ELSE v)
  <2>1. f \in ServiceType /\ Soft(s, f) /\ f.timer = s.timer
    BY <1>3, ForgetIsSoft DEF Soft
  <2> HIDE DEF f
  <2>2. /\ v \in ServiceType /\ v.timer = f.timer /\ v.exec = "none" /\ v.active = f.active
        /\ v.pend = f.pend /\ v.pausePending = f.pausePending /\ v.bg = f.bg
        /\ v.stopped = f.stopped
    BY <2>1 DEF ServiceType
  <2> HIDE DEF v
  <2>3. /\ ~v.active /\ v.pend = s.pend /\ (s.pausePending => v.pausePending)
        /\ (v.bg = "running" <=> s.bg = "running") /\ v.stopped = s.stopped
    BY <1>5, <2>1, <2>2 DEF Soft
  <2>4. RuntimesOK'
    BY <1>2, <1>9, RuntimeStopped
  <2>5. CASE t = "ctl"
    <3>1. svc' = [svc EXCEPT ![p] = v] /\ job' = [job EXCEPT ![p]["ctl"] = Idle]
      BY <1>9, <2>5 DEF Set, Done, Go
    <3>2. TurnOK(v, Idle, b)
      BY <1>3, <1>5, <2>2, <2>3, <2>5, IdleIs DEF TurnOK
    <3>3. PauseOK(v, Idle, queue[p]) /\ QuietOK(v, Idle, quiet[p])
      BY <1>3, <1>4, <1>6, <2>3, <2>5, IdleIs DEF PauseOK, QuietOK
    <3>. QED  BY <1>1, <1>2, <1>3, <1>7, <2>1, <2>2, <2>4, <3>1, <3>2, <3>3, IdleIs,
                 ControlSteps DEF Thread
  <2>6. CASE t = "bg"
    <3>1. svc' = [svc EXCEPT ![p] = CycleOver(v, TRUE)] /\ job' = [job EXCEPT ![p]["bg"] = Idle]
      BY <1>9, <2>6 DEF Set, Done, Go
    <3>2. v.exec # "bg" /\ (v.exec = "ctl" <=> s.exec = "ctl") /\ (v.active <=> Running(c))
      BY <1>5, <2>2, <2>3, <2>6
    <3>. QED  BY <1>1, <1>2, <1>3, <2>1, <2>2, <2>3, <2>4, <3>1, <3>2, CycleEnds
  <2>. QED  BY <2>5, <2>6
<1>. QED  BY <1>8, <1>9 DEF StartBack

\* The thread of the calls takes a step outside of its executions.
LEMMA PlainControl ==
    ASSUME IInv, LedgerSteps, RuntimesOK', NEW p \in Process,
           NEW s \in ServiceType, NEW j \in JobType,
           svc' = [svc EXCEPT ![p] = s], job' = [job EXCEPT ![p]["ctl"] = j],
           UNCHANGED <<queue, quiet>>, s.timer <= Len(ledger), MayClaim(j), ThreadOK("ctl", j),
           s.exec = svc[p].exec, s.active = svc[p].active, s.pend = svc[p].pend,
           s.bg = "running" <=> svc[p].bg = "running", s.pend # 0 => s.pausePending,
           quiet[p] => (s.pausePending \/ s.stopped) /\ j.stage \notin {"resume", "fence"},
           j.stage = "pause" <=> job[p]["ctl"].stage = "pause",
           ~(job[p]["ctl"].stage = "sourced" /\ Working(job[p]["ctl"])),
           ~(j.stage = "sourced" /\ Working(j))
    PROVE  IInv'
<1> DEFINE c == job[p]["ctl"]
           b == job[p]["bg"]
<1>1. /\ svc[p] \in ServiceType /\ quiet[p] \in BOOLEAN
      /\ c \in JobType /\ b \in JobType /\ ThreadOK("ctl", c) /\ ThreadOK("bg", b)
      /\ TurnOK(svc[p], c, b) /\ PauseOK(svc[p], c, queue[p]) /\ QuietOK(svc[p], c, quiet[p])
  BY Here DEF Thread
<1>2. ~Running(c) /\ ~Running(j)
  <2>1. \A k \in JobType : ThreadOK("ctl", k) /\ Running(k) => k.stage = "sourced" /\ Working(k)
    <3> SUFFICES ASSUME NEW k \in JobType, ThreadOK("ctl", k), Running(k)
                 PROVE  k.stage = "sourced" /\ Working(k)
      OBVIOUS
    <3>1. k # Idle
      BY IdleIs
    <3>. QED  BY <3>1 DEF ThreadOK, StageOf, Working
  <2>. QED  BY <1>1, <2>1
<1>3. quiet' = [quiet EXCEPT ![p] = quiet[p]]
  BY Stays DEF Thread
<1>4. TurnOK(s, j, b)
  BY <1>1, <1>2 DEF TurnOK
<1>5. PauseOK(s, j, queue[p])
  BY <1>1 DEF PauseOK
<1>6. QuietOK(s, j, quiet[p])
  BY <1>1 DEF QuietOK
<1> HIDE DEF b, c
<1>. QED  BY <1>1, <1>3, <1>4, <1>5, <1>6, ControlSteps DEF b

\* The same, and no pause's request is withdrawn.
LEMMA SoftControl ==
    ASSUME IInv, LedgerSteps, RuntimesOK', NEW p \in Process,
           NEW s \in ServiceType, NEW j \in JobType, NEW stage \in {"pause", "fence", "sourced", "resume"},
           svc' = [svc EXCEPT ![p] = s], job' = [job EXCEPT ![p]["ctl"] = j],
           UNCHANGED <<queue, quiet>>, s.timer <= Len(ledger), MayClaim(j), ThreadOK("ctl", j),
           Soft(svc[p], s), job[p]["ctl"].stage = stage,
           j.stage = stage \/ (stage # "pause" /\ j.stage = "")
             \/ (stage \in {"resume", "fence"} /\ j.stage \in {"resume", "fence"}),
           stage = "sourced" => ~Working(job[p]["ctl"]), j.stage = "sourced" => ~Working(j)
    PROVE  IInv'
<1> DEFINE c == job[p]["ctl"]
<1>1. /\ svc[p] \in ServiceType /\ PauseOK(svc[p], c, queue[p]) /\ QuietOK(svc[p], c, quiet[p])
  BY Here
<1>2. s.pend # 0 => s.pausePending
  BY <1>1 DEF Soft, PauseOK
<1>3. quiet[p] => (s.pausePending \/ s.stopped) /\ j.stage \notin {"resume", "fence"}
  BY <1>1 DEF Soft, QuietOK
<1>4. j.stage = "pause" <=> c.stage = "pause"
  OBVIOUS
<1>5. ~(c.stage = "sourced" /\ Working(c)) /\ ~(j.stage = "sourced" /\ Working(j))
  OBVIOUS
<1>. QED  BY <1>2, <1>3, <1>4, <1>5, PlainControl DEF Soft

LEMMA SourcedReadKeeps ==
    ASSUME IInv, NEW p \in Process, SourcedRead(p)
    PROVE  IInv'
<1> DEFINE s == svc[p]
           c == job[p]["ctl"]
           j == [c EXCEPT !.at = "turn"]
           u == [s EXCEPT !.sourced = 0]
           f == Forget(s, s.wake)
           v == [f EXCEPT !.status = FALSE]
<1>1. UNCHANGED <<ledger, expired, mounted, tasks, queue, quiet, left>>
      /\ c.stage = "sourced" /\ c.at = "read" /\ At(p, "ctl", "sourced", "read")
  BY DEF SourcedRead, At
<1>2. LedgerSteps
  BY <1>1, Still
<1>3. s \in ServiceType /\ s.timer <= Len(ledger) /\ c \in JobType
  BY Here DEF Thread
<1>4. ~Working(c)
  BY <1>1 DEF Working, Running, Admitting
<1>5. /\ j \in JobType /\ j.stage = "sourced" /\ j.at = "turn"
  BY <1>1, <1>3 DEF JobType
<1> HIDE DEF j
<1>6. ThreadOK("ctl", j) /\ MayClaim(j) /\ ~Working(j)
  BY <1>5 DEF ThreadOK, MayClaim, Working, Running, Admitting, StageOf
<1>7. ASSUME NEW w \in ServiceType, Soft(s, w), w.timer = s.timer, Set(p, w), RuntimesOK',
             NEW k \in {Idle, j}, Go(p, "ctl", k)
      PROVE  IInv'
  <2>1. svc' = [svc EXCEPT ![p] = w] /\ job' = [job EXCEPT ![p]["ctl"] = k]
    BY <1>7 DEF Set, Go
  <2>2. k \in JobType /\ MayClaim(k) /\ ThreadOK("ctl", k) /\ ~Working(k) /\ k.stage \in {"", "sourced"}
    BY <1>5, <1>6, IdleIs DEF Thread
  <2> HIDE DEF c
  <2>. QED  BY <1>1, <1>2, <1>3, <1>4, <1>7, <2>1, <2>2, SoftControl DEF c
<1>8. ASSUME UNCHANGED svc, UNCHANGED rts, NEW k \in {Idle, j}, Go(p, "ctl", k)
      PROVE  IInv'
  <2>1. Soft(s, s) /\ Set(p, s)
    BY <1>8, Stays DEF Thread, Set
  <2>2. RuntimesOK'
    BY <1>2, <1>8, RuntimesStay
  <2>. QED  BY <1>3, <1>7, <1>8, <2>1, <2>2
<1>9. CASE Go(p, "ctl", j) /\ Set(p, u) /\ UNCHANGED rts
  <2>1. u \in ServiceType /\ Soft(s, u) /\ u.timer = s.timer
    BY <1>3 DEF ServiceType, Soft
  <2>2. RuntimesOK'
    BY <1>2, <1>9, RuntimesStay
  <2> HIDE DEF u
  <2>. QED  BY <1>7, <1>9, <2>1, <2>2
<1>10. CASE Go(p, "ctl", j) /\ Set(p, v) /\ Stop(p, s.wake)
  <2>1. f \in ServiceType /\ Soft(s, f) /\ f.timer = s.timer
    BY <1>3, ForgetIsSoft DEF Soft
  <2> HIDE DEF f
  <2>2. v \in ServiceType /\ Soft(f, v) /\ v.timer = f.timer
    BY <2>1 DEF ServiceType, Soft
  <2> HIDE DEF v
  <2>3. Soft(s, v) /\ v.timer = s.timer
    BY <2>1, <2>2, SoftAgain
  <2>4. RuntimesOK'
    BY <1>2, <1>10, RuntimeStopped
  <2>. QED  BY <1>7, <1>10, <2>2, <2>3, <2>4
<1>11. \/ Done(p, "ctl") /\ UNCHANGED svc /\ UNCHANGED rts
       \/ Go(p, "ctl", j) /\ UNCHANGED svc /\ UNCHANGED rts
       \/ Go(p, "ctl", j) /\ Set(p, u) /\ UNCHANGED rts
       \/ Go(p, "ctl", j) /\ Set(p, v) /\ Stop(p, s.wake)
  BY Zenon DEF SourcedRead, j
<1> HIDE DEF u, v
<1>. QED  BY <1>8, <1>9, <1>10, <1>11 DEF Done

\* A sourced task takes its handoff, and its execution comes to its end.
LEMMA SourcedRunsKeeps ==
    ASSUME IInv, NEW p \in Process, SourcedRuns(p)
    PROVE  IInv'
<1> DEFINE s == svc[p]
           c == job[p]["ctl"]
           b == job[p]["bg"]
           r == rts[p][c.rt]
           e == PlainEvent("source", p)
           used == [r EXCEPT !.used = TRUE]
           u == [s EXCEPT !.sourced = c.rt]
           v == [s EXCEPT !.active = FALSE, !.exec = "none"]
           j == [c EXCEPT !.at = "effects"]
<1>1. UNCHANGED <<expired, mounted, tasks, queue, quiet, left>>
      /\ c.stage = "sourced" /\ c.at \in {"run", "effects"}
  BY DEF SourcedRuns, At
<1>2. /\ s \in ServiceType /\ s.timer <= Len(ledger) /\ quiet[p] \in BOOLEAN
      /\ c \in JobType /\ b \in JobType /\ ThreadOK("ctl", c) /\ ThreadOK("bg", b)
      /\ TurnOK(s, c, b) /\ PauseOK(s, c, queue[p]) /\ QuietOK(s, c, quiet[p])
  BY Here DEF Thread
<1>3. Running(c) /\ Working(c) /\ c # Idle /\ c.at # "issue"
  BY <1>1, IdleIs DEF Running, Working
<1>4. c.rt \in Runtime
  BY <1>2, <1>3 DEF ThreadOK, JobType
<1>5. s.exec = "ctl" /\ ~Working(b) /\ ~Running(b) /\ s.active
  <2>1. s.exec = "ctl" /\ ~Working(b) /\ ~Running(b)
    BY <1>1, <1>2, <1>3, TurnHeld
  <2>. QED  BY <1>2, <1>3, <2>1 DEF TurnOK
<1>6. ~quiet[p]
  BY <1>2, <1>5 DEF QuietOK
<1>7. quiet' = [quiet EXCEPT ![p] = quiet[p]]
  BY <1>1, Stays DEF Thread
<1>8. CASE UNCHANGED ledger /\ UseRuntime(p, c.rt, used) /\ Set(p, u) /\ Go(p, "ctl", j)
  <2>1. LedgerSteps
    BY <1>1, <1>8, Still
  <2>2. r \in RuntimeType /\ r.lease <= Len(ledger) /\ r.over \subseteq expired
    BY <1>4, RuntimeHere
  <2>3. used \in RuntimeType /\ used.lease = r.lease /\ used.over = r.over
    BY <2>2 DEF RuntimeType
  <2> HIDE DEF used, r
  <2>4. RuntimesOK'
    BY <1>1, <1>4, <1>8, <2>1, <2>2, <2>3, RuntimeUsed
  <2>5. /\ u \in ServiceType /\ u.timer = s.timer /\ u.exec = s.exec /\ u.active = s.active
        /\ u.pend = s.pend /\ u.pausePending = s.pausePending /\ u.bg = s.bg
    BY <1>2, <1>4 DEF ServiceType
  <2>6. j \in JobType /\ j.at = "effects" /\ j.stage = "sourced" /\ j.rt = c.rt
    BY <1>1, <1>2 DEF JobType
  <2>7. svc' = [svc EXCEPT ![p] = u] /\ job' = [job EXCEPT ![p]["ctl"] = j]
    BY <1>8 DEF Set, Go
  <2> HIDE DEF u, j
  <2>8. Running(j) /\ Working(j) /\ MayClaim(j)
    BY <2>6 DEF Running, Working, MayClaim
  <2>11. c.rt # 0
    BY <1>4 DEF Runtime
  <2>12. ThreadOK("ctl", j)
    BY <2>6, <2>8, <2>11 DEF ThreadOK, StageOf
  <2>9. TurnOK(u, j, b)
    BY <1>2, <1>5, <2>5, <2>6, <2>8 DEF TurnOK
  <2>10. PauseOK(u, j, queue[p]) /\ QuietOK(u, j, quiet[p])
    BY <1>1, <1>2, <1>6, <2>5, <2>6 DEF PauseOK, QuietOK
  <2> HIDE DEF c
  <2>. QED  BY <1>1, <1>2, <1>7, <2>1, <2>4, <2>5, <2>6, <2>7, <2>8, <2>9, <2>10, <2>12,
               ControlSteps
<1>9. CASE /\ ledger' = ledger \/ ledger' = Append(ledger, e)
           /\ Set(p, v) /\ Done(p, "ctl") /\ UNCHANGED rts
  <2>1. e \in EventType /\ e.kind = "source"
    BY DEF PlainEvent, EventType
  <2> HIDE DEF e
  <2>2. LedgerSteps
    <3>1. tasks' \subseteq Nat /\ left' \in BudgetType
      BY <1>1 DEF IInv, WorldOK
    <3>2. CASE ledger' = ledger
      BY <1>1, <3>2, Still
    <3>3. CASE ledger' = Append(ledger, e)
      BY <1>1, <2>1, <3>1, <3>3, LedgerGrows
    <3>. QED  BY <1>9, <3>2, <3>3
  <2>3. RuntimesOK'
    BY <1>9, <2>2, RuntimesStay
  <2>4. /\ v \in ServiceType /\ v.timer = s.timer /\ v.exec = "none" /\ v.active = FALSE
        /\ v.pend = s.pend /\ v.pausePending = s.pausePending /\ v.bg = s.bg
    BY <1>2 DEF ServiceType
  <2>5. svc' = [svc EXCEPT ![p] = v] /\ job' = [job EXCEPT ![p]["ctl"] = Idle]
    BY <1>9 DEF Set, Done, Go
  <2> HIDE DEF v
  <2>6. TurnOK(v, Idle, b)
    BY <1>2, <1>5, <2>4, IdleIs DEF TurnOK
  <2>7. PauseOK(v, Idle, queue[p]) /\ QuietOK(v, Idle, quiet[p])
    BY <1>1, <1>2, <1>6, <2>4, IdleIs DEF PauseOK, QuietOK
  <2>. QED  BY <1>1, <1>2, <1>7, <2>2, <2>3, <2>4, <2>5, <2>6, <2>7, IdleIs,
               ControlSteps DEF Thread
<1>10. \/ UNCHANGED ledger /\ UseRuntime(p, c.rt, used) /\ Set(p, u) /\ Go(p, "ctl", j)
       \/ /\ ledger' = ledger \/ ledger' = Append(ledger, e)
          /\ Set(p, v) /\ Done(p, "ctl") /\ UNCHANGED rts
  BY Zenon DEF SourcedRuns
<1>. QED  BY <1>8, <1>9, <1>10

LEMMA BackgroundHandoffKeeps ==
    ASSUME IInv, NEW p \in Process, BackgroundHandoff(p)
    PROVE  IInv'
<1> DEFINE s == svc[p]
           c == job[p]["ctl"]
           b == job[p]["bg"]
           r == rts[p][b.rt]
           used == [r EXCEPT !.used = TRUE]
           j == [b EXCEPT !.at = "effects", !.len = Len(ledger)]
<1>1. UNCHANGED <<ledger, expired, mounted, tasks, svc, queue, quiet, left>>
      /\ b.stage = "bg" /\ b.at = "run" /\ UseRuntime(p, b.rt, used) /\ Go(p, "bg", j)
  BY DEF BackgroundHandoff, At
<1>2. /\ s \in ServiceType /\ s.timer <= Len(ledger) /\ quiet[p] \in BOOLEAN
      /\ b \in JobType /\ ThreadOK("bg", b) /\ TurnOK(s, c, b) /\ QuietOK(s, c, quiet[p])
  BY Here DEF Thread
<1>3. Running(b) /\ Working(b) /\ b # Idle /\ b.at # "issue"
  BY <1>1, IdleIs DEF Running, Working
<1>4. b.rt \in Runtime /\ b.rt # 0
  BY <1>2, <1>3 DEF ThreadOK, JobType
<1>5. LedgerSteps
  BY <1>1, Still
<1>6. r \in RuntimeType /\ r.lease <= Len(ledger) /\ r.over \subseteq expired
  BY <1>4, RuntimeHere
<1>7. used \in RuntimeType /\ used.lease = r.lease /\ used.over = r.over
  BY <1>6 DEF RuntimeType
<1> HIDE DEF used, r
<1>8. RuntimesOK'
  BY <1>1, <1>4, <1>5, <1>6, <1>7, RuntimeUsed
<1>9. j \in JobType /\ j.at = "effects" /\ j.stage = "bg" /\ j.rt = b.rt
  <2>1. Len(ledger) \in Nat
    BY Events DEF IInv, WorldOK
  <2>. QED  BY <1>1, <1>2, <2>1 DEF JobType
<1>10. svc' = [svc EXCEPT ![p] = s] /\ job' = [job EXCEPT ![p]["bg"] = j]
  BY <1>1, Stays DEF Go, Thread
<1> HIDE DEF j
<1>11. Running(j) /\ Working(j) /\ MayClaim(j)
  BY <1>9 DEF Running, Working, MayClaim
<1>12. ThreadOK("bg", j)
  BY <1>4, <1>9, <1>11 DEF ThreadOK, StageOf
<1>13. TurnOK(s, c, j)
  BY <1>1, <1>2, <1>3, <1>9, <1>11 DEF TurnOK
<1> HIDE DEF b
<1>. QED  BY <1>1, <1>2, <1>5, <1>8, <1>9, <1>10, <1>11, <1>12, <1>13, CycleSteps

\* The end of an execution retires its wake; the cycle goes on or ends.
LEMMA BackgroundRunsKeeps ==
    ASSUME IInv, NEW p \in Process, BackgroundRuns(p)
    PROVE  IInv'
<1> DEFINE s == svc[p]
           c == job[p]["ctl"]
           b == job[p]["bg"]
           r == rts[p][b.rt]
           task == CHOOSE x \in b.list : \A y \in b.list : x <= y
           acts == b.at = "effects" /\ EffectsReach(r) /\ task \in tasks
           ends == acts /\ Len(ledger) = b.len
           e == PlainEvent("source", p)
           f == Forget(s, b.rt)
           v == [f EXCEPT !.active = FALSE, !.status = FALSE, !.exec = "none"]
           j == [Idle EXCEPT !.at = "turn", !.stage = "bg", !.list = b.list \ {task}]
<1>1. /\ UNCHANGED <<expired, mounted, queue, quiet, left>> /\ Stop(p, b.rt)
      /\ b.stage = "bg" /\ b.at \in {"run", "effects"}
      /\ tasks' = IF ends THEN tasks \ {task} ELSE tasks
      /\ ledger' = IF acts THEN Append(ledger, e) ELSE ledger
  BY DEF BackgroundRuns
<1> HIDE DEF acts, ends
<1>2. /\ s \in ServiceType /\ s.timer <= Len(ledger) /\ quiet[p] \in BOOLEAN
      /\ c \in JobType /\ b \in JobType /\ ThreadOK("ctl", c) /\ ThreadOK("bg", b)
      /\ TurnOK(s, c, b) /\ QuietOK(s, c, quiet[p])
  BY Here DEF Thread
<1>3. Running(b) /\ Working(b) /\ b # Idle
  BY <1>1, IdleIs DEF Running, Working
<1>4. s.exec = "bg" /\ ~(c.stage = "sourced" /\ Working(c)) /\ ~Running(c) /\ s.bg = "running"
  <2>1. s.exec = "bg" /\ ~(c.stage = "sourced" /\ Working(c)) /\ ~Running(c)
    BY <1>2, <1>3, TurnHeld
  <2>. QED  BY <1>1, <1>2, <2>1 DEF TurnOK
<1>5. ~quiet[p]
  BY <1>2, <1>4 DEF QuietOK
<1>6. e \in EventType /\ e.kind = "source"
  BY DEF PlainEvent, EventType
<1> HIDE DEF e, task
<1>7. LedgerSteps
  <2>1. tasks' \subseteq Nat /\ left' \in BudgetType
    BY <1>1 DEF IInv, WorldOK
  <2>2. CASE acts
    BY <1>1, <1>6, <2>1, <2>2, LedgerGrows
  <2>3. CASE ~acts
    BY <1>1, <2>1, <2>3, LedgerStays DEF IInv, WorldOK
  <2>. QED  BY <2>2, <2>3
<1>8. RuntimesOK'
  BY <1>1, <1>7, RuntimeStopped
<1>9. f \in ServiceType /\ Soft(s, f) /\ f.timer = s.timer
  BY <1>2, ForgetIsSoft DEF Soft
<1> HIDE DEF f
<1>10. /\ v \in ServiceType /\ v.timer = f.timer /\ v.exec = "none" /\ ~v.active
       /\ v.pend = f.pend /\ v.pausePending = f.pausePending /\ v.bg = f.bg
       /\ v.stopped = f.stopped
  BY <1>9 DEF ServiceType
<1> HIDE DEF v
<1>11. /\ v.timer <= Len(ledger) /\ v.pend = s.pend /\ (s.pausePending => v.pausePending)
       /\ v.stopped = s.stopped /\ v.bg = "running"
  BY <1>2, <1>4, <1>9, <1>10 DEF Soft
<1>12. CASE Set(p, CycleOver(v, ~ends)) /\ Done(p, "bg")
  <2>1. svc' = [svc EXCEPT ![p] = CycleOver(v, ~ends)] /\ job' = [job EXCEPT ![p]["bg"] = Idle]
    BY <1>12 DEF Set, Done, Go
  <2>2. v.exec # "bg" /\ (v.exec = "ctl" <=> s.exec = "ctl") /\ (v.active <=> Running(c))
    BY <1>4, <1>10
  <2>3. (~ends) \in BOOLEAN
    OBVIOUS
  <2>. QED  BY <1>1, <1>7, <1>8, <1>10, <1>11, <2>1, <2>2, <2>3, CycleEnds
<1>13. CASE Set(p, v) /\ Go(p, "bg", j)
  <2>1. b.list \ {task} \in SUBSET Nat
    BY <1>2 DEF JobType
  <2>2. j \in JobType /\ j.at = "turn" /\ j.stage = "bg"
    BY <2>1, IdleIs DEF JobType
  <2>3. svc' = [svc EXCEPT ![p] = v] /\ job' = [job EXCEPT ![p]["bg"] = j]
    BY <1>13 DEF Set, Go
  <2> HIDE DEF j
  <2>4. ThreadOK("bg", j) /\ MayClaim(j) /\ ~Running(j) /\ ~Working(j)
    BY <2>2 DEF ThreadOK, MayClaim, Running, Working, Admitting, StageOf
  <2>5. TurnOK(v, c, j)
    BY <1>2, <1>4, <1>10, <1>11, <2>2, <2>4 DEF TurnOK
  <2>6. QuietOK(v, c, quiet[p])
    BY <1>5 DEF QuietOK
  <2> HIDE DEF b
  <2>. QED  BY <1>1, <1>7, <1>8, <1>10, <1>11, <2>2, <2>3, <2>4, <2>5, <2>6, CycleSteps
<1>. QED  BY <1>12, <1>13, Zenon DEF BackgroundRuns, acts, ends, task, v, f

----------------------------------------------------------------------------
(* The calls in their turn.                                                *)

\* A call comes to its turn: it begins, or returns at once.
LEMMA TakeTurnKeeps ==
    ASSUME IInv, NEW p \in Process, TakeTurn(p)
    PROVE  IInv'
<1> DEFINE s == svc[p]
           c == job[p]["ctl"]
           b == job[p]["bg"]
           op == Head(queue[p])
           q == Tail(queue[p])
           u == [s EXCEPT !.pend = IF op = "pause" THEN @ - 1 ELSE @]
           j == [Idle EXCEPT !.at = "read", !.stage = op]
           d == quiet[p] /\ op # "resume"
<1>1. UNCHANGED <<ledger, expired, mounted, tasks, rts, left>> /\ c = Idle /\ queue[p] # <<>>
  BY DEF TakeTurn
<1>2. LedgerSteps
  BY <1>1, Still
<1>3. RuntimesOK'
  BY <1>1, <1>2, RuntimesStay
<1>4. /\ s \in ServiceType /\ s.timer <= Len(ledger) /\ quiet[p] \in BOOLEAN
      /\ b \in JobType /\ queue[p] \in Seq(Op)
      /\ TurnOK(s, c, b) /\ PauseOK(s, c, queue[p]) /\ QuietOK(s, c, quiet[p])
  BY Here DEF Thread
<1>5. /\ q \in Seq(Op) /\ op \in Op
      /\ Pauses(queue[p]) = Pauses(q) + (IF op = "pause" THEN 1 ELSE 0)
      /\ Pauses(q) \in Nat
  <2>1. queue[p] \in Seq({"pause", "resume", "sourced"})
    BY <1>4 DEF Op
  <2>2. /\ q \in Seq({"pause", "resume", "sourced"}) /\ op \in {"pause", "resume", "sourced"}
        /\ Pauses(queue[p]) = Pauses(q) + (IF op = "pause" THEN 1 ELSE 0)
    BY <1>1, <2>1, PausesTaken
  <2>. QED  BY <2>2, PausesType DEF Op
<1>6. queue' = [queue EXCEPT ![p] = q]
  <2>1. queue' = [queue EXCEPT ![p] = Tail(@)]
    BY DEF TakeTurn
  <2>. QED  BY <2>1 DEF IInv, ServicesOK
<1>7. s.pend \in Nat /\ s.pend = Pauses(q) + (IF op = "pause" THEN 1 ELSE 0)
      /\ (s.pend # 0 => s.pausePending)
  <2>1. s.pend = Pauses(queue[p]) + 0 /\ (s.pend # 0 => s.pausePending)
    BY <1>1, <1>4, IdleIs DEF PauseOK
  <2>2. s.pend \in Nat
    BY <1>4 DEF ServiceType
  <2> HIDE DEF s, q, op
  <2>. QED  BY <1>5, <2>1, <2>2
<1> HIDE DEF op, q
<1>8. CASE Set(p, u) /\ UNCHANGED <<job, quiet>>
  <2>1. u.pend = Pauses(q) /\ u.pend \in Nat
    <3>1. u.pend = IF op = "pause" THEN s.pend - 1 ELSE s.pend
      BY <1>4 DEF ServiceType
    <3> HIDE DEF u, s
    <3>. QED  BY <1>5, <1>7, <3>1
  <2>2. /\ u.timer = s.timer /\ u.exec = s.exec /\ u.active = s.active /\ u.bg = s.bg
        /\ u.stopped = s.stopped /\ u.pausePending = s.pausePending
    BY <1>4 DEF ServiceType
  <2>3. u \in ServiceType
    <3> DEFINE n == IF op = "pause" THEN s.pend - 1 ELSE s.pend
    <3>1. u = [s EXCEPT !.pend = n] /\ n \in Nat
      <4>1. u.pend = n
        BY <1>4 DEF ServiceType
      <4>. QED  BY <2>1, <4>1
    <3> HIDE DEF n, u
    <3>. QED  BY <1>4, <3>1 DEF ServiceType
  <2>4. svc' = [svc EXCEPT ![p] = u] /\ quiet' = [quiet EXCEPT ![p] = quiet[p]]
    BY <1>8, Stays DEF Set, Thread
  <2> HIDE DEF u
  <2>5. TurnOK(u, c, b) /\ QuietOK(u, c, quiet[p])
    BY <1>4, <2>2 DEF TurnOK, QuietOK
  <2>6. PauseOK(u, c, q)
    <3>1. c.stage # "pause"
      BY <1>1, IdleIs
    <3>2. u.pend # 0 => s.pend # 0
      BY <1>5, <1>7, <2>1
    <3>. QED  BY <1>5, <1>7, <2>1, <2>2, <3>1, <3>2 DEF PauseOK
  <2>. QED  BY <1>2, <1>3, <1>4, <1>5, <1>6, <1>8, <2>2, <2>3, <2>4, <2>5, <2>6, CallSteps
<1>9. CASE /\ Go(p, "ctl", j) /\ quiet' = [quiet EXCEPT ![p] = @ /\ op # "resume"]
           /\ UNCHANGED svc
  <2>1. j \in JobType /\ j.at = "read" /\ j.stage = op
    BY <1>5, IdleIs DEF JobType, Op
  <2>2. /\ svc' = [svc EXCEPT ![p] = s] /\ job' = [job EXCEPT ![p]["ctl"] = j]
        /\ quiet' = [quiet EXCEPT ![p] = d] /\ d \in BOOLEAN
    <3>1. svc' = [svc EXCEPT ![p] = s] /\ job' = [job EXCEPT ![p]["ctl"] = j]
      BY <1>9, Stays DEF Go, Thread
    <3>2. quiet' = [quiet EXCEPT ![p] = d] /\ d \in BOOLEAN
      BY <1>9 DEF IInv, ServicesOK
    <3>. QED  BY <3>1, <3>2
  <2>3. d => quiet[p] /\ op # "resume"
    OBVIOUS
  <2> HIDE DEF j, d
  <2>4. ~Running(j) /\ ~Working(j) /\ MayClaim(j) /\ ThreadOK("ctl", j)
    BY <1>5, <2>1 DEF Running, Working, Admitting, MayClaim, ThreadOK, StageOf, Op
  <2>5. TurnOK(s, j, b)
    BY <1>1, <1>4, <2>4, IdleIs DEF TurnOK
  <2>6. PauseOK(s, j, q)
    BY <1>7, <2>1 DEF PauseOK
  <2>7. QuietOK(s, j, d)
    BY <1>4, <1>5, <2>1, <2>3 DEF QuietOK, Op
  <2>8. \E t \in {"ctl"} : /\ t \in Thread /\ job' = [job EXCEPT ![p][t] = j] /\ ThreadOK(t, j)
                           /\ j = (IF t = "ctl" THEN j ELSE job[p]["ctl"])
                           /\ b = (IF t = "bg" THEN j ELSE job[p]["bg"])
    BY <2>2, <2>4 DEF Thread
  <2> HIDE DEF b, c, s
  <2>. QED  BY <1>2, <1>3, <1>4, <1>5, <1>6, <2>1, <2>2, <2>4, <2>5, <2>6, <2>7, <2>8,
               ServiceSteps
<1>. QED  BY <1>8, <1>9, Zenon DEF TakeTurn, op

\* A pause that failed is over.
LEMMA PauseFailsKeeps ==
    ASSUME IInv, NEW p \in Process, PauseFails(p), job[p]["ctl"].stage = "pause",
           UNCHANGED <<ledger, expired, mounted, tasks, rts, queue, left>>
    PROVE  IInv'
<1> DEFINE v == svc[p]
           c == job[p]["ctl"]
           b == job[p]["bg"]
           s == [v EXCEPT !.pend = @ - 1]
           w == [s EXCEPT !.pausePending = FALSE]
<1>1. LedgerSteps
  BY Still
<1>2. RuntimesOK'
  BY <1>1, RuntimesStay
<1>3. /\ v \in ServiceType /\ v.timer <= Len(ledger) /\ b \in JobType /\ c \in JobType
      /\ queue[p] \in Seq(Op) /\ TurnOK(v, c, b) /\ PauseOK(v, c, queue[p]) /\ ThreadOK("ctl", c)
  BY Here DEF Thread
<1>4. Pauses(queue[p]) \in Nat
  BY <1>3, PausesType DEF Op
<1>5. v.pend - 1 = Pauses(queue[p]) /\ v.pend - 1 \in Nat /\ v.pend \in Nat
      /\ (v.pend # 0 => v.pausePending)
  <2>1. v.pend = Pauses(queue[p]) + 1 /\ (v.pend # 0 => v.pausePending)
    BY <1>3 DEF PauseOK
  <2> HIDE DEF v
  <2>. QED  BY <1>4, <2>1
<1>6. /\ s \in ServiceType /\ s.pend = v.pend - 1 /\ s.pausePending = v.pausePending
      /\ s.exec = v.exec /\ s.active = v.active /\ s.bg = v.bg /\ s.timer = v.timer
  <2> DEFINE n == v.pend - 1
  <2> HIDE DEF n
  <2>1. n \in Nat
    BY <1>5 DEF n
  <2>2. /\ [v EXCEPT !.pend = n] \in ServiceType
        /\ [v EXCEPT !.pend = n].pend = n
        /\ [v EXCEPT !.pend = n].pausePending = v.pausePending
        /\ [v EXCEPT !.pend = n].exec = v.exec /\ [v EXCEPT !.pend = n].active = v.active
        /\ [v EXCEPT !.pend = n].bg = v.bg /\ [v EXCEPT !.pend = n].timer = v.timer
    BY <1>3, <2>1 DEF ServiceType
  <2>. QED  BY <2>2 DEF n
<1> HIDE DEF s
<1>7. /\ w \in ServiceType /\ w.pend = s.pend
      /\ w.exec = s.exec /\ w.active = s.active /\ w.bg = s.bg /\ w.timer = s.timer
  BY <1>6 DEF ServiceType
<1> HIDE DEF w
<1>8. ~(c.stage = "sourced" /\ Working(c)) /\ ~Running(c)
  <2>1. c # Idle
    BY IdleIs
  <2>. QED  BY <1>3, <2>1 DEF ThreadOK
<1>9. ASSUME NEW u \in ServiceType, svc' = [svc EXCEPT ![p] = u], u.exec = v.exec,
             u.active = v.active, u.bg = "running" <=> v.bg = "running", u.timer = v.timer,
             u.pend = v.pend - 1, u.pend # 0 => u.pausePending
      PROVE  IInv'
  <2>1. job' = [job EXCEPT ![p]["ctl"] = Idle] /\ quiet' = [quiet EXCEPT ![p] = FALSE]
    BY DEF PauseFails, Done, Go
  <2>2. TurnOK(u, Idle, b)
    BY <1>3, <1>8, <1>9, IdleIs DEF TurnOK
  <2>3. PauseOK(u, Idle, queue[p])
    <3>1. u.pend = Pauses(queue[p]) + 0
      BY <1>4, <1>5, <1>9
    <3>. QED  BY <1>9, <3>1, IdleIs DEF PauseOK
  <2>4. QuietOK(u, Idle, FALSE)
    BY DEF QuietOK
  <2>. QED  BY <1>1, <1>2, <1>3, <1>9, <2>1, <2>2, <2>3, <2>4, IdleIs, ControlSteps DEF Thread
<1>10. CASE v.pend = 1
  <2>1. svc' = [svc EXCEPT ![p] = Schedule(w)]
    BY <1>10 DEF PauseFails, Set, s, w
  <2>2. Soft(w, Schedule(w)) /\ Schedule(w).timer = w.timer
    BY <1>7, ScheduleIsSoft
  <2>3. s.pend = 0
    BY <1>6, <1>10
  <2>. QED  BY <1>6, <1>7, <1>9, <2>1, <2>2, <2>3 DEF Soft
<1>11. CASE v.pend # 1
  <2>1. svc' = [svc EXCEPT ![p] = s]
    BY <1>11 DEF PauseFails, Set, s
  <2>2. s.pend # 0 => s.pausePending
    <3>1. v.pend # 0
      BY <1>4, <1>5
    <3>. QED  BY <1>5, <1>6, <3>1
  <2>. QED  BY <1>6, <1>9, <2>1, <2>2
<1>. QED  BY <1>10, <1>11

\* The pauses step, and no pause's request is withdrawn.
LEMMA PauseGoesOn ==
    ASSUME IInv, LedgerSteps, RuntimesOK', NEW p \in Process,
           NEW s \in ServiceType, NEW j \in JobType,
           NEW stage \in {"pause", "fence", "resume", "sourced"},
           svc' = [svc EXCEPT ![p] = s], Go(p, "ctl", j), UNCHANGED <<queue, quiet>>,
           s.timer = svc[p].timer, Soft(svc[p], s), job[p]["ctl"].stage = stage,
           stage = "sourced" => ~Working(job[p]["ctl"]) /\ j.at # "issue",
           j.stage = stage, j.at \in {"close", "append", "confirm", "quiesce", "refused", "issue"},
           j.at = "issue" => j.rt = 0, j.at \in {"append", "confirm"} => j.rt # 0
    PROVE  IInv'
<1>1. svc[p].timer <= Len(ledger)
  BY Here
<1>2. job' = [job EXCEPT ![p]["ctl"] = j]
  BY DEF Go
<1>3. MayClaim(j) /\ ~Running(j)
  BY DEF MayClaim, Running
<1>4. j.at # "idle" /\ j.stage \in StageOf("ctl") /\ (Working(j) => j.at = "issue")
  BY DEF StageOf, Working, Running, Admitting
<1>5. ThreadOK("ctl", j)
  BY <1>3, <1>4 DEF ThreadOK
<1>6. s.timer <= Len(ledger)
  BY <1>1
<1>7. stage = "sourced" => ~Working(job[p]["ctl"])
  OBVIOUS
<1>8. j.stage = "sourced" => ~Working(j)
  BY <1>4
<1>9. stage \in {"pause", "fence", "sourced", "resume"} /\ job[p]["ctl"].stage = stage
      /\ j.stage = stage
  OBVIOUS
<1>. QED  BY <1>2, <1>3, <1>5, <1>6, <1>7, <1>8, <1>9, SoftControl

LEMMA PauseReadKeeps ==
    ASSUME IInv, NEW p \in Process, PauseRead(p)
    PROVE  IInv'
<1> DEFINE s == svc[p]
           c == job[p]["ctl"]
           quiesce == [c EXCEPT !.at = "quiesce"]
           close == [c EXCEPT !.at = "close"]
           issue == ToIssue(c, "pause", "start")
<1>1. UNCHANGED <<ledger, expired, mounted, tasks, rts, queue, left>> /\ c.stage = "pause"
  BY DEF PauseRead, At
<1>2. LedgerSteps
  BY <1>1, Still
<1>3. RuntimesOK'
  BY <1>1, <1>2, RuntimesStay
<1>4. s \in ServiceType /\ c \in JobType
  BY Here DEF Thread
<1>5. /\ quiesce \in JobType /\ quiesce.at = "quiesce" /\ quiesce.stage = "pause"
      /\ close \in JobType /\ close.at = "close" /\ close.stage = "pause"
      /\ issue \in JobType /\ issue.at = "issue" /\ issue.stage = "pause" /\ issue.rt = 0
  BY <1>1, <1>4 DEF JobType, ToIssue, Admitting
<1>6. CASE PauseFails(p)
  BY <1>1, <1>6, PauseFailsKeeps
<1>7. CASE /\ UNCHANGED <<svc, quiet>>
           /\ Go(p, "ctl", quiesce) \/ Go(p, "ctl", close) \/ Go(p, "ctl", issue)
  <2>1. svc' = [svc EXCEPT ![p] = s] /\ Soft(s, s)
    BY <1>7, Stays DEF Thread
  <2> HIDE DEF quiesce, close, issue
  <2>. QED  BY <1>1, <1>2, <1>3, <1>4, <1>5, <1>7, <2>1, PauseGoesOn
<1>. QED  BY <1>6, <1>7, Zenon DEF PauseRead

LEMMA PauseBackKeeps ==
    ASSUME IInv, NEW p \in Process, PauseBack(p)
    PROVE  IInv'
<1> DEFINE s == svc[p]
           c == job[p]["ctl"]
           u == [s EXCEPT !.status = TRUE]
           close == [c EXCEPT !.at = "close"]
<1>1. UNCHANGED <<ledger, expired, mounted, tasks, rts, queue, quiet, left>>
      /\ c.stage = "pause" /\ svc' = [svc EXCEPT ![p] = u] /\ Go(p, "ctl", close)
  BY DEF PauseBack, Back, At, Set
<1>2. LedgerSteps
  BY <1>1, Still
<1>3. RuntimesOK'
  BY <1>1, <1>2, RuntimesStay
<1>4. s \in ServiceType /\ c \in JobType
  BY Here DEF Thread
<1>5. close \in JobType /\ close.at = "close" /\ close.stage = "pause"
  BY <1>1, <1>4 DEF JobType
<1>6. u \in ServiceType /\ Soft(s, u) /\ u.timer = s.timer
  BY <1>4 DEF ServiceType, Soft
<1> HIDE DEF u, close
<1>. QED  BY <1>1, <1>2, <1>3, <1>5, <1>6, PauseGoesOn

LEMMA ControlStage ==
    ASSUME IInv, NEW p \in Process, job[p]["ctl"].at \in {"close", "append", "confirm"}
    PROVE  job[p]["ctl"].stage \in {"pause", "fence", "resume", "sourced"}
<1>1. job[p]["ctl"] # Idle /\ ThreadOK("ctl", job[p]["ctl"])
  BY IdleIs, Here DEF Thread
<1>. QED  BY <1>1 DEF ThreadOK, StageOf

LEMMA PauseClosesKeeps ==
    ASSUME IInv, NEW p \in Process, PauseCloses(p)
    PROVE  IInv'
<1> DEFINE s == svc[p]
           c == job[p]["ctl"]
           n == IF c.stage = "fence" THEN c.rt ELSE s.wake
           r == rts[p][n]
           closed == [r EXCEPT !.closed = TRUE, !.paused = FALSE, !.rev = @ + 1]
           append == [c EXCEPT !.at = "append", !.rt = n]
           refused == [c EXCEPT !.at = "refused"]
<1>1. UNCHANGED <<ledger, expired, mounted, tasks, svc, queue, quiet, left>> /\ c.at = "close"
  BY DEF PauseCloses
<1>2. LedgerSteps
  BY <1>1, Still
<1>3. s \in ServiceType /\ c \in JobType /\ s.timer <= Len(ledger)
  BY Here DEF Thread
<1>4. c.stage \in {"pause", "fence", "resume", "sourced"} /\ ~Working(c)
  BY <1>1, ControlStage DEF Working, Running, Admitting
<1>5. svc' = [svc EXCEPT ![p] = s] /\ Soft(s, s)
  BY <1>1, Stays DEF Thread
<1>6. n \in Runtime \union {0}
  BY <1>3 DEF ServiceType, JobType
<1> HIDE DEF n
<1>7. CASE n # 0 /\ UseRuntime(p, n, closed) /\ Go(p, "ctl", append)
  <2>1. n \in Runtime
    BY <1>6, <1>7
  <2>2. r \in RuntimeType /\ r.lease <= Len(ledger) /\ r.over \subseteq expired
    BY <2>1, RuntimeHere
  <2>3. closed \in RuntimeType /\ closed.lease = r.lease /\ closed.over = r.over
    <3> DEFINE m == r.rev + 1
    <3>1. m \in Nat
      BY <2>2 DEF RuntimeType
    <3> HIDE DEF m
    <3>2. /\ [r EXCEPT !.closed = TRUE, !.paused = FALSE, !.rev = m] \in RuntimeType
          /\ [r EXCEPT !.closed = TRUE, !.paused = FALSE, !.rev = m].lease = r.lease
          /\ [r EXCEPT !.closed = TRUE, !.paused = FALSE, !.rev = m].over = r.over
      BY <2>2, <3>1 DEF RuntimeType
    <3>. QED  BY <3>2 DEF m
  <2>4. append \in JobType /\ append.at = "append" /\ append.stage = c.stage /\ append.rt # 0
    BY <1>3, <1>6, <1>7 DEF JobType
  <2> HIDE DEF closed, append, r
  <2>5. RuntimesOK'
    BY <1>1, <1>2, <1>7, <2>1, <2>2, <2>3, RuntimeUsed
  <2> HIDE DEF c
  <2>. QED  BY <1>1, <1>2, <1>3, <1>4, <1>5, <1>7, <2>4, <2>5, PauseGoesOn DEF c
<1>8. CASE UNCHANGED rts /\ Go(p, "ctl", refused)
  <2>1. refused \in JobType /\ refused.at = "refused" /\ refused.stage = c.stage
    BY <1>3 DEF JobType
  <2>2. RuntimesOK'
    BY <1>2, <1>8, RuntimesStay
  <2> HIDE DEF refused, c
  <2>. QED  BY <1>1, <1>2, <1>3, <1>4, <1>5, <1>8, <2>1, <2>2, PauseGoesOn DEF c
<1>. QED  BY <1>7, <1>8, Zenon DEF PauseCloses, n

\* A pause is recorded: the leases of its epoch bind no more.
LEMMA PauseAppendsKeeps ==
    ASSUME IInv, NEW p \in Process, PauseAppends(p)
    PROVE  IInv'
<1> DEFINE s == svc[p]
           c == job[p]["ctl"]
           e == PlainEvent("paused", p)
           confirm == [c EXCEPT !.at = "confirm"]
           refused == [c EXCEPT !.at = "refused"]
<1>1. UNCHANGED <<expired, mounted, tasks, svc, rts, queue, quiet, left>> /\ c.at = "append"
  BY DEF PauseAppends
<1>2. s \in ServiceType /\ c \in JobType /\ s.timer <= Len(ledger) /\ ThreadOK("ctl", c)
  BY Here DEF Thread
<1>3. c.stage \in {"pause", "fence", "resume", "sourced"} /\ ~Working(c)
  BY <1>1, ControlStage DEF Working, Running, Admitting
<1>4. svc' = [svc EXCEPT ![p] = s] /\ Soft(s, s)
  BY <1>1, Stays DEF Thread
<1>5. c.rt # 0
  <2>1. c # Idle
    BY <1>1, IdleIs
  <2>. QED  BY <1>1, <1>2, <2>1 DEF ThreadOK
<1>6. /\ confirm \in JobType /\ confirm.at = "confirm" /\ confirm.stage = c.stage
      /\ confirm.rt # 0
      /\ refused \in JobType /\ refused.at = "refused" /\ refused.stage = c.stage
  BY <1>2, <1>5 DEF JobType
<1> HIDE DEF confirm, refused
<1>7. CASE ledger' = Append(ledger, e) /\ Go(p, "ctl", confirm)
  <2>1. e \in EventType /\ e.kind = "paused"
    BY DEF PlainEvent, EventType
  <2>2. tasks' \subseteq Nat /\ left' \in BudgetType
    BY <1>1 DEF IInv, WorldOK
  <2> HIDE DEF e
  <2>3. LedgerSteps
    BY <1>1, <1>7, <2>1, <2>2, LedgerGrows
  <2>4. RuntimesOK'
    BY <1>1, <2>3, RuntimesStay
  <2> HIDE DEF c
  <2>. QED  BY <1>1, <1>2, <1>3, <1>4, <1>6, <1>7, <2>3, <2>4, PauseGoesOn DEF c
<1>8. CASE UNCHANGED ledger /\ Go(p, "ctl", refused)
  <2>1. LedgerSteps
    BY <1>1, <1>8, Still
  <2>2. RuntimesOK'
    BY <1>1, <2>1, RuntimesStay
  <2> HIDE DEF c
  <2>. QED  BY <1>1, <1>2, <1>3, <1>4, <1>6, <1>8, <2>1, <2>2, PauseGoesOn DEF c
<1>. QED  BY <1>7, <1>8, Zenon DEF PauseAppends, confirm, refused

\* The supervisor takes the pause for its own, or was stopped meanwhile.
LEMMA PauseConfirmsKeeps ==
    ASSUME IInv, NEW p \in Process, PauseConfirms(p)
    PROVE  IInv'
<1> DEFINE s == svc[p]
           c == job[p]["ctl"]
           r == rts[p][c.rt]
           paused == [r EXCEPT !.paused = TRUE]
           quiesce == [c EXCEPT !.at = "quiesce"]
           refused == [c EXCEPT !.at = "refused"]
<1>1. UNCHANGED <<ledger, expired, mounted, tasks, svc, queue, quiet, left>> /\ c.at = "confirm"
  BY DEF PauseConfirms
<1>2. s \in ServiceType /\ c \in JobType /\ s.timer <= Len(ledger) /\ ThreadOK("ctl", c)
  BY Here DEF Thread
<1>3. c.stage \in {"pause", "fence", "resume", "sourced"} /\ ~Working(c)
  BY <1>1, ControlStage DEF Working, Running, Admitting
<1>4. svc' = [svc EXCEPT ![p] = s] /\ Soft(s, s) /\ LedgerSteps
  BY <1>1, Stays, Still DEF Thread
<1>5. c.rt \in Runtime
  <2>1. c # Idle
    BY <1>1, IdleIs
  <2>. QED  BY <1>1, <1>2, <2>1 DEF ThreadOK, JobType
<1>6. /\ quiesce \in JobType /\ quiesce.at = "quiesce" /\ quiesce.stage = c.stage
      /\ refused \in JobType /\ refused.at = "refused" /\ refused.stage = c.stage
  BY <1>2 DEF JobType
<1> HIDE DEF quiesce, refused
<1>7. CASE UseRuntime(p, c.rt, paused) /\ Go(p, "ctl", quiesce)
  <2>1. r \in RuntimeType /\ r.lease <= Len(ledger) /\ r.over \subseteq expired
    BY <1>5, RuntimeHere
  <2>2. paused \in RuntimeType /\ paused.lease = r.lease /\ paused.over = r.over
    BY <2>1 DEF RuntimeType
  <2> HIDE DEF paused, r
  <2>3. RuntimesOK'
    BY <1>1, <1>4, <1>5, <1>7, <2>1, <2>2, RuntimeUsed
  <2> HIDE DEF c
  <2>. QED  BY <1>1, <1>2, <1>3, <1>4, <1>6, <1>7, <2>3, PauseGoesOn DEF c
<1>8. CASE UNCHANGED rts /\ Go(p, "ctl", refused)
  <2>1. RuntimesOK'
    BY <1>4, <1>8, RuntimesStay
  <2> HIDE DEF c
  <2>. QED  BY <1>1, <1>2, <1>3, <1>4, <1>6, <1>8, <2>1, PauseGoesOn DEF c
<1>. QED  BY <1>7, <1>8, Zenon DEF PauseConfirms, paused, r, quiesce, refused

LEMMA PauseRefusedKeeps ==
    ASSUME IInv, NEW p \in Process, PauseRefused(p)
    PROVE  IInv'
BY PauseFailsKeeps DEF PauseRefused, At

\* Pause returns when the background cycle is idle: the service is quiet.
LEMMA PauseReturnsKeeps ==
    ASSUME IInv, NEW p \in Process, PauseReturns(p)
    PROVE  IInv'
<1> DEFINE s == svc[p]
           c == job[p]["ctl"]
           b == job[p]["bg"]
           f == Forget(s, s.wake)
           n == f.pend - 1
           u == [f EXCEPT !.pend = n]
<1>1. /\ UNCHANGED <<ledger, expired, mounted, tasks, queue, left>> /\ Stop(p, s.wake)
      /\ c.stage = "pause" /\ c.at = "quiesce" /\ s.bg = "idle"
      /\ svc' = [svc EXCEPT ![p] = u] /\ job' = [job EXCEPT ![p]["ctl"] = Idle]
      /\ quiet' = [quiet EXCEPT ![p] = TRUE]
  BY DEF PauseReturns, At, Quiesced, Set, Done, Go
<1>2. LedgerSteps
  BY <1>1, Still
<1>3. RuntimesOK'
  BY <1>1, <1>2, RuntimeStopped
<1>4. /\ s \in ServiceType /\ s.timer <= Len(ledger) /\ queue[p] \in Seq(Op)
      /\ c \in JobType /\ b \in JobType /\ ThreadOK("ctl", c) /\ ThreadOK("bg", b)
      /\ TurnOK(s, c, b) /\ PauseOK(s, c, queue[p])
  BY Here DEF Thread
<1>5. b.at = "idle"
  BY <1>1, <1>4 DEF TurnOK
<1>6. ~Running(b) /\ ~Working(b)
  BY <1>5 DEF Running, Working, Admitting
<1>7. ~Running(c) /\ ~(c.stage = "sourced" /\ Working(c))
  BY <1>1 DEF Running
<1>8. s.exec = "none" /\ ~s.active
  <2>1. s.exec \in {"none", "ctl", "bg"}
    BY <1>4 DEF ServiceType
  <2>. QED  BY <1>4, <1>6, <1>7, <2>1 DEF TurnOK
<1>9. f \in ServiceType /\ Soft(s, f) /\ f.timer = s.timer /\ f.bg = s.bg
  BY <1>4, ForgetIsSoft DEF Soft
<1>10. f.pend = Pauses(queue[p]) + 1 /\ Pauses(queue[p]) \in Nat /\ f.pausePending
  <2>1. Pauses(queue[p]) \in Nat
    BY <1>4, PausesType DEF Op
  <2>2. s.pend = Pauses(queue[p]) + 1 /\ (s.pend # 0 => s.pausePending)
    BY <1>1, <1>4 DEF PauseOK
  <2>3. s.pend # 0
    BY <2>1, <2>2
  <2>. QED  BY <1>9, <2>1, <2>2, <2>3 DEF Soft
<1> HIDE DEF f
<1>11. n = Pauses(queue[p]) /\ n \in Nat
  BY <1>10
<1> HIDE DEF n
<1>12. /\ u \in ServiceType /\ u.timer = f.timer /\ u.exec = f.exec /\ u.active = f.active
       /\ u.pend = n /\ u.pausePending = f.pausePending /\ u.bg = f.bg
  BY <1>9, <1>11 DEF ServiceType
<1> HIDE DEF u
<1>13. u.exec = "none" /\ ~u.active /\ u.bg = "idle" /\ u.timer <= Len(ledger)
  BY <1>1, <1>4, <1>8, <1>9, <1>12 DEF Soft
<1>14. TurnOK(u, Idle, b)
  BY <1>5, <1>6, <1>13, IdleIs DEF TurnOK
<1>15. PauseOK(u, Idle, queue[p])
  <2>1. u.pend = Pauses(queue[p]) + 0
    BY <1>11, <1>12
  <2>. QED  BY <1>10, <1>12, <2>1, IdleIs DEF PauseOK
<1>16. QuietOK(u, Idle, TRUE)
  BY <1>10, <1>12, <1>13, IdleIs DEF QuietOK
<1>17. TRUE \in BOOLEAN
  OBVIOUS
<1>. QED  BY <1>1, <1>2, <1>3, <1>12, <1>13, <1>14, <1>15, <1>16, <1>17, IdleIs,
             ControlSteps DEF Thread

LEMMA FenceBackKeeps ==
    ASSUME IInv, NEW p \in Process, FenceBack(p)
    PROVE  IInv'
<1> DEFINE s == svc[p]
           c == job[p]["ctl"]
           u == [s EXCEPT !.status = TRUE]
           at == IF Got(p, "ctl") = "accepted" THEN "close" ELSE "refused"
           next == [c EXCEPT !.at = at]
<1>1. UNCHANGED <<ledger, expired, mounted, tasks, rts, queue, quiet, left>>
      /\ c.stage = "fence" /\ svc' = [svc EXCEPT ![p] = u] /\ Go(p, "ctl", next)
  BY DEF FenceBack, Back, At, Set
<1>2. LedgerSteps
  BY <1>1, Still
<1>3. RuntimesOK'
  BY <1>1, <1>2, RuntimesStay
<1>4. s \in ServiceType /\ c \in JobType
  BY Here DEF Thread
<1>5. at \in {"close", "refused"}
  OBVIOUS
<1> HIDE DEF at
<1>6. next \in JobType /\ next.at = at /\ next.stage = "fence"
  BY <1>1, <1>4, <1>5 DEF JobType
<1>7. u \in ServiceType /\ Soft(s, u) /\ u.timer = s.timer
  BY <1>4 DEF ServiceType, Soft
<1> HIDE DEF u, next
<1>. QED  BY <1>1, <1>2, <1>3, <1>5, <1>6, <1>7, PauseGoesOn

LEMMA ControlIssues ==
    ASSUME NEW j \in JobType, NEW stage \in {"resume", "fence"},
           NEW op \in {"start", "resume", "recover"}
    PROVE  LET i == ToIssue(j, stage, op)
           IN i \in JobType /\ ThreadOK("ctl", i) /\ MayClaim(i) /\ i.stage = stage
<1>1. "ctl" \in Thread
  BY DEF Thread
<1>2. stage \in StageOf("ctl")
  BY DEF StageOf
<1>3. op \in {"start", "resume", "recover", "poll"}
  OBVIOUS
<1>. QED  BY <1>1, <1>2, <1>3, Issuing

\* A resume or a fence asks for a runtime, or ends.
LEMMA ResumeGoesOn ==
    ASSUME IInv, LedgerSteps, RuntimesOK', NEW p \in Process, NEW s \in ServiceType,
           NEW j \in JobType, svc' = [svc EXCEPT ![p] = s], Go(p, "ctl", j),
           UNCHANGED <<queue, quiet>>, s.timer <= Len(ledger),
           s.exec = svc[p].exec, s.active = svc[p].active, s.pend = svc[p].pend,
           s.bg = "running" <=> svc[p].bg = "running", s.pend # 0 => s.pausePending,
           job[p]["ctl"].stage \in {"resume", "fence"},
           j = Idle \/ \E stage \in {"resume", "fence"} : \E op \in {"start", "resume", "recover"} :
                          j = ToIssue(job[p]["ctl"], stage, op)
    PROVE  IInv'
<1>1. /\ QuietOK(svc[p], job[p]["ctl"], quiet[p]) /\ quiet[p] \in BOOLEAN
      /\ job[p]["ctl"] \in JobType
  BY Here DEF Thread
<1>2. ~quiet[p]
  BY <1>1 DEF QuietOK
<1>3. MayClaim(j) /\ ThreadOK("ctl", j) /\ j.stage \notin {"pause", "sourced"}
  <2>1. CASE j = Idle
    BY <2>1, IdleIs DEF Thread
  <2>2. ASSUME NEW stage \in {"resume", "fence"}, NEW op \in {"start", "resume", "recover"},
               j = ToIssue(job[p]["ctl"], stage, op)
        PROVE  MayClaim(j) /\ ThreadOK("ctl", j) /\ j.stage \notin {"pause", "sourced"}
    <3> DEFINE c == job[p]["ctl"]
    <3>1. c \in JobType
      BY <1>1
    <3> HIDE DEF c
    <3>2. /\ ThreadOK("ctl", ToIssue(c, stage, op)) /\ MayClaim(ToIssue(c, stage, op))
          /\ ToIssue(c, stage, op).stage = stage
      BY <3>1, ControlIssues
    <3>3. j = ToIssue(c, stage, op)
      BY <2>2 DEF c
    <3>. QED  BY <3>2, <3>3
  <2>. QED  BY <2>1, <2>2
<1>4. job' = [job EXCEPT ![p]["ctl"] = j]
  BY DEF Go
<1>5. /\ j.stage = "pause" <=> job[p]["ctl"].stage = "pause"
      /\ ~(job[p]["ctl"].stage = "sourced" /\ Working(job[p]["ctl"]))
      /\ ~(j.stage = "sourced" /\ Working(j))
  BY <1>3
<1>. QED  BY <1>2, <1>3, <1>4, <1>5, PlainControl

LEMMA ResumeReadKeeps ==
    ASSUME IInv, NEW p \in Process, ResumeRead(p)
    PROVE  IInv'
<1> DEFINE s == svc[p]
           c == job[p]["ctl"]
           settled == [s EXCEPT !.pausePending = @ /\ s.pend # 0]
           u == [settled EXCEPT !.status = TRUE]
           f == Forget(s, s.wake)
<1>1. UNCHANGED <<ledger, expired, mounted, tasks, queue, quiet, left>> /\ c.stage = "resume"
  BY DEF ResumeRead, At
<1>2. LedgerSteps
  BY <1>1, Still
<1>3. s \in ServiceType /\ s.timer <= Len(ledger) /\ PauseOK(s, c, queue[p])
  BY Here
<1>4. s.pend # 0 => s.pausePending
  BY <1>3 DEF PauseOK
<1>5. CASE Done(p, "ctl") /\ UNCHANGED svc /\ UNCHANGED rts
  <2>1. svc' = [svc EXCEPT ![p] = s] /\ Go(p, "ctl", Idle)
    BY <1>5, Stays DEF Thread, Done
  <2>2. RuntimesOK'
    BY <1>2, <1>5, RuntimesStay
  <2>. QED  BY <1>1, <1>2, <1>3, <1>4, <2>1, <2>2, IdleIs, ResumeGoesOn
<1>6. CASE Done(p, "ctl") /\ Set(p, u) /\ UNCHANGED rts
  <2>1. /\ settled \in ServiceType /\ settled.timer = s.timer /\ settled.exec = s.exec
        /\ settled.active = s.active /\ settled.pend = s.pend /\ settled.bg = s.bg
        /\ (settled.pend # 0 => settled.pausePending)
    <3> DEFINE b == s.pausePending /\ s.pend # 0
               v == [s EXCEPT !.pausePending = b]
    <3>1. b \in BOOLEAN /\ settled = v
      OBVIOUS
    <3>2. s.pend # 0 => b
      BY <1>4
    <3> HIDE DEF b
    <3>3. /\ v \in ServiceType /\ v.timer = s.timer /\ v.exec = s.exec
          /\ v.active = s.active /\ v.pend = s.pend /\ v.bg = s.bg /\ v.pausePending = b
      BY <1>3, <3>1 DEF ServiceType
    <3> HIDE DEF v, settled
    <3>. QED  BY <3>1, <3>2, <3>3
  <2> HIDE DEF settled
  <2>2. /\ u \in ServiceType /\ u.timer = s.timer /\ u.exec = s.exec
        /\ u.active = s.active /\ u.pend = s.pend /\ u.bg = s.bg
        /\ u.pausePending = settled.pausePending
    BY <2>1 DEF ServiceType
  <2>3. svc' = [svc EXCEPT ![p] = u] /\ Go(p, "ctl", Idle)
    BY <1>6 DEF Set, Done
  <2>4. RuntimesOK'
    BY <1>2, <1>6, RuntimesStay
  <2> HIDE DEF u
  <2>. QED  BY <1>1, <1>2, <1>3, <2>1, <2>2, <2>3, <2>4, IdleIs, ResumeGoesOn
<1>7. ASSUME NEW j \in JobType, Stop(p, s.wake), Set(p, f), Go(p, "ctl", j),
             j = Idle \/ \E stage \in {"resume", "fence"} : \E op \in {"start", "resume", "recover"} :
                            j = ToIssue(c, stage, op)
      PROVE  IInv'
  <2>1. /\ f \in ServiceType /\ Soft(s, f) /\ f.timer = s.timer
        /\ f.pausePending = s.pausePending
    BY <1>3, ForgetIsSoft DEF Soft
  <2>2. svc' = [svc EXCEPT ![p] = f]
    BY <1>7 DEF Set
  <2>3. RuntimesOK'
    BY <1>2, <1>7, RuntimeStopped
  <2> HIDE DEF f
  <2>. QED  BY <1>1, <1>2, <1>3, <1>4, <1>7, <2>1, <2>2, <2>3, ResumeGoesOn DEF Soft
<1>8. c \in JobType /\ "ctl" \in Thread
  BY Here DEF Thread
<1>9. \A stage \in {"resume", "fence"}, op \in {"start", "resume", "recover"} :
         ToIssue(c, stage, op) \in JobType
  <2> SUFFICES ASSUME NEW stage \in {"resume", "fence"}, NEW op \in {"start", "resume", "recover"}
               PROVE  ToIssue(c, stage, op) \in JobType
    OBVIOUS
  <2>1. stage \in StageOf("ctl") /\ op \in {"start", "resume", "recover", "poll"}
    BY DEF StageOf
  <2>. QED  BY <1>8, <2>1, Issuing
<1>10. \/ Done(p, "ctl") /\ UNCHANGED svc /\ UNCHANGED rts
       \/ Done(p, "ctl") /\ Set(p, u) /\ UNCHANGED rts
       \/ /\ Stop(p, s.wake) /\ Set(p, f)
          /\ \/ Done(p, "ctl")
             \/ Go(p, "ctl", ToIssue(c, "resume", "resume"))
             \/ Go(p, "ctl", ToIssue(c, "fence", "start"))
             \/ Go(p, "ctl", ToIssue(c, "resume", "recover"))
  BY Zenon DEF ResumeRead
<1> HIDE DEF u, settled, f, c
<1>. QED  BY <1>5, <1>6, <1>7, <1>9, <1>10, IdleIs DEF Done

\* The fence's runtime is retired; a recovery asks for another one.
LEMMA FenceEndsKeeps ==
    ASSUME IInv, NEW p \in Process, FenceEnds(p)
    PROVE  IInv'
<1> DEFINE s == svc[p]
           c == job[p]["ctl"]
           f == Forget(s, c.rt)
           next == ToIssue(c, "resume", "recover")
<1>1. UNCHANGED <<ledger, expired, mounted, tasks, queue, quiet, left>>
      /\ c.stage = "fence" /\ Stop(p, c.rt) /\ svc' = [svc EXCEPT ![p] = f]
  BY DEF FenceEnds, Set
<1>2. LedgerSteps
  BY <1>1, Still
<1>3. RuntimesOK'
  BY <1>1, <1>2, RuntimeStopped
<1>4. /\ s \in ServiceType /\ s.timer <= Len(ledger) /\ PauseOK(s, c, queue[p])
      /\ c \in JobType
  BY Here DEF Thread
<1>5. s.pend # 0 => s.pausePending
  BY <1>4 DEF PauseOK
<1>6. /\ f \in ServiceType /\ Soft(s, f) /\ f.timer = s.timer
      /\ f.pausePending = s.pausePending
  BY <1>4, ForgetIsSoft DEF Soft
<1>7. next \in JobType /\ Idle \in JobType
  BY <1>4, ControlIssues, IdleIs
<1>8. Go(p, "ctl", next) \/ Go(p, "ctl", Idle)
  BY Zenon DEF FenceEnds, Done
<1> HIDE DEF f
<1>9. /\ f.timer <= Len(ledger) /\ f.exec = s.exec /\ f.active = s.active /\ f.pend = s.pend
      /\ f.bg = "running" <=> s.bg = "running"
  BY <1>4, <1>6 DEF Soft
<1>10. /\ f.bg = "running" <=> s.bg = "running"
       /\ f.pend # 0 => f.pausePending
  BY <1>5, <1>6 DEF Soft
<1>. QED  BY <1>1, <1>2, <1>3, <1>6, <1>7, <1>8, <1>9, <1>10, ResumeGoesOn

\* What a settled pause leaves of the pending ones.
LEMMA Settled ==
    ASSUME NEW s \in ServiceType, s.pend # 0 => s.pausePending
    PROVE  LET u == [s EXCEPT !.lost = FALSE, !.pausePending = @ /\ s.pend # 0]
           IN /\ u \in ServiceType /\ u.timer = s.timer /\ u.exec = s.exec
              /\ u.active = s.active /\ u.pend = s.pend /\ u.bg = s.bg
              /\ (u.pend # 0 => u.pausePending)
<1> DEFINE b == s.pausePending /\ s.pend # 0
           v == [s EXCEPT !.lost = FALSE, !.pausePending = b]
<1>1. b \in BOOLEAN
  OBVIOUS
<1>2. s.pend # 0 => b
  OBVIOUS
<1> HIDE DEF b
<1>3. /\ v \in ServiceType /\ v.timer = s.timer /\ v.exec = s.exec
      /\ v.active = s.active /\ v.pend = s.pend /\ v.bg = s.bg /\ v.pausePending = b
  BY <1>1 DEF ServiceType
<1>4. [s EXCEPT !.lost = FALSE, !.pausePending = @ /\ s.pend # 0] = v
  BY DEF b
<1> HIDE DEF v
<1>5. v.pend # 0 => v.pausePending
  BY <1>2, <1>3
<1>. QED  BY <1>3, <1>4, <1>5

LEMMA ResumeBackKeeps ==
    ASSUME IInv, NEW p \in Process, ResumeBack(p)
    PROVE  IInv'
<1> DEFINE s == svc[p]
           c == job[p]["ctl"]
           u == [s EXCEPT !.status = TRUE]
           f == Forget(u, c.rt)
           lost == [f EXCEPT !.lost = TRUE]
           settled == [u EXCEPT !.lost = FALSE, !.pausePending = @ /\ u.pend # 0]
           on == WakeAt(settled)
           open == Schedule(on)
<1>1. UNCHANGED <<ledger, expired, mounted, tasks, queue, quiet, left>>
      /\ c.stage = "resume" /\ Go(p, "ctl", Idle)
  BY DEF ResumeBack, Back, At, Done
<1>2. LedgerSteps
  BY <1>1, Still
<1>3. /\ s \in ServiceType /\ s.timer <= Len(ledger) /\ PauseOK(s, c, queue[p])
      /\ c \in JobType /\ ledger \in Seq(EventType)
  BY Here DEF Thread
<1>4. s.pend # 0 => s.pausePending
  BY <1>3 DEF PauseOK
<1>5. /\ u \in ServiceType /\ u.timer = s.timer /\ u.exec = s.exec
      /\ u.active = s.active /\ u.pend = s.pend /\ u.bg = s.bg
      /\ u.pausePending = s.pausePending
  BY <1>3 DEF ServiceType
<1>6. ASSUME NEW v \in ServiceType, svc' = [svc EXCEPT ![p] = v], RuntimesOK',
             v.timer <= Len(ledger), v.exec = s.exec, v.active = s.active, v.pend = s.pend,
             v.bg = "running" <=> s.bg = "running", v.pend # 0 => v.pausePending
      PROVE  IInv'
  BY <1>1, <1>2, <1>6, IdleIs, ResumeGoesOn
<1>7. CASE UNCHANGED svc /\ UNCHANGED rts
  <2>1. svc' = [svc EXCEPT ![p] = s]
    BY <1>7, Stays DEF Thread
  <2>2. RuntimesOK'
    BY <1>2, <1>7, RuntimesStay
  <2>. QED  BY <1>3, <1>4, <1>6, <2>1, <2>2
<1> HIDE DEF u
<1>8. CASE Set(p, u) /\ UNCHANGED rts
  <2>1. svc' = [svc EXCEPT ![p] = u]
    BY <1>8 DEF Set
  <2>2. RuntimesOK'
    BY <1>2, <1>8, RuntimesStay
  <2>. QED  BY <1>3, <1>4, <1>5, <1>6, <2>1, <2>2
<1>9. CASE Set(p, lost) /\ Stop(p, c.rt)
  <2>1. f \in ServiceType /\ Soft(u, f) /\ f.timer = u.timer /\ f.pausePending = u.pausePending
    BY <1>5, ForgetIsSoft DEF Soft
  <2> HIDE DEF f
  <2>2. /\ lost \in ServiceType /\ lost.timer = f.timer /\ lost.exec = f.exec
        /\ lost.active = f.active /\ lost.pend = f.pend /\ lost.bg = f.bg
        /\ lost.pausePending = f.pausePending
    BY <2>1 DEF ServiceType
  <2>3. RuntimesOK' /\ svc' = [svc EXCEPT ![p] = lost]
    BY <1>2, <1>9, RuntimeStopped DEF Set
  <2> HIDE DEF lost
  <2>4. lost.timer <= Len(ledger) /\ lost.exec = s.exec /\ lost.active = s.active
        /\ lost.pend = s.pend
    BY <1>3, <1>5, <2>1, <2>2 DEF Soft
  <2>5. lost.bg = "running" <=> s.bg = "running"
    BY <1>5, <2>1, <2>2 DEF Soft
  <2>6. lost.pend # 0 => lost.pausePending
    BY <1>4, <1>5, <2>1, <2>2, <2>4
  <2>. QED  BY <1>6, <2>2, <2>3, <2>4, <2>5, <2>6
<1>10. CASE Set(p, open) /\ UNCHANGED rts
  <2>1. /\ settled \in ServiceType /\ settled.exec = u.exec
        /\ settled.active = u.active /\ settled.pend = u.pend /\ settled.bg = u.bg
        /\ (settled.pend # 0 => settled.pausePending)
    BY <1>4, <1>5, Settled
  <2> HIDE DEF settled
  <2>2. on \in ServiceType /\ Soft(settled, on) /\ on.timer <= Len(ledger)
        /\ on.pausePending = settled.pausePending
    BY <1>3, <2>1, WakeAtIsSoft DEF Soft
  <2> HIDE DEF on
  <2>3. open \in ServiceType /\ Soft(on, open) /\ open.timer = on.timer
        /\ open.pausePending = on.pausePending
    BY <2>2, ScheduleIsSoft DEF Soft
  <2> HIDE DEF open
  <2>4. RuntimesOK' /\ svc' = [svc EXCEPT ![p] = open]
    BY <1>2, <1>10, RuntimesStay DEF Set
  <2>5. open.timer <= Len(ledger) /\ open.exec = s.exec /\ open.active = s.active
        /\ open.pend = s.pend
    BY <1>5, <2>1, <2>2, <2>3 DEF Soft
  <2>6. open.bg = "running" <=> s.bg = "running"
    BY <1>5, <2>1, <2>2, <2>3 DEF Soft
  <2>7. open.pend # 0 => open.pausePending
    BY <1>5, <2>1, <2>2, <2>3, <2>5
  <2>. QED  BY <1>6, <2>3, <2>4, <2>5, <2>6, <2>7
<1>11. \/ UNCHANGED svc /\ UNCHANGED rts
       \/ Set(p, u) /\ UNCHANGED rts
       \/ Set(p, lost) /\ Stop(p, c.rt)
       \/ Set(p, open) /\ UNCHANGED rts
  <2>1. settled = [u EXCEPT !.lost = FALSE, !.pausePending = @ /\ s.pend # 0]
    BY <1>5
  <2> HIDE DEF settled
  <2>. QED  BY <2>1 DEF ResumeBack, u
<1> HIDE DEF lost, open
<1>. QED  BY <1>7, <1>8, <1>9, <1>10, <1>11

----------------------------------------------------------------------------
(* The invariant.                                                          *)

\* The service at its start, which has a cycle scheduled if it is one of those
\* there are.
LEMMA StartsWell ==
    ASSUME NEW bg \in {"idle", "scheduled"}, NEW s,
           s = [wake |-> 0, status |-> FALSE, pausePending |-> FALSE, pend |-> 0,
                lost |-> FALSE, stopped |-> FALSE, active |-> FALSE,
                sourced |-> 0, exec |-> "none", timer |-> 0, bg |-> bg,
                rescan |-> FALSE, retry |-> FALSE]
    PROVE  /\ s \in ServiceType /\ s.timer = 0
           /\ TurnOK(s, Idle, Idle) /\ PauseOK(s, Idle, <<>>) /\ QuietOK(s, Idle, FALSE)
<1>1. /\ s \in ServiceType /\ s.timer = 0 /\ s.exec = "none" /\ ~s.active /\ s.pend = 0
      /\ s.bg # "running"
  BY DEF ServiceType
<1>2. TurnOK(s, Idle, Idle)
  BY <1>1, IdleIs DEF TurnOK
<1>3. PauseOK(s, Idle, <<>>)
  <2>1. {i \in DOMAIN <<>> : <<>>[i] = "pause"} = {}
    OBVIOUS
  <2>2. Pauses(<<>>) = 0
    BY <2>1, FS_EmptySet DEF Pauses
  <2>3. s.pend = Pauses(<<>>) + 0
    BY <1>1, <2>2
  <2>. QED  BY <1>1, <2>3, IdleIs DEF PauseOK
<1>. QED  BY <1>1, <1>2, <1>3 DEF QuietOK

LEMMA InitInv == Init => IInv
<1> SUFFICES ASSUME Init PROVE IInv
  OBVIOUS
<1> DEFINE e == PlainEvent("source", "none")
<1>1. e \in EventType /\ e.kind = "source"
  BY DEF PlainEvent, EventType
<1>2. ledger = <<e>>
  BY DEF Init
<1> HIDE DEF e
<1>3. ledger \in Seq(EventType) /\ Len(ledger) = 1 /\ DOMAIN ledger = {1} /\ ledger[1] = e
  BY <1>1, <1>2
<1>4. left \in BudgetType
  BY BudgetsAssumption DEF Init
<1>5. WorldOK
  BY <1>3, <1>4 DEF Init, WorldOK
<1>6. /\ \A p \in Process : job[p] = [t \in Thread |-> Idle]
      /\ job \in [Process -> [Thread -> JobType]]
  BY IdleIs DEF Init
<1>7. ASSUME NEW p \in Process
      PROVE  /\ svc[p] \in ServiceType /\ svc[p].timer = 0
             /\ ServiceOK(svc[p], job[p], queue[p], quiet[p])
  <2> DEFINE bg == IF p \in left.by THEN "scheduled" ELSE "idle"
  <2>1. svc[p] = [wake |-> 0, status |-> FALSE, pausePending |-> FALSE, pend |-> 0,
                  lost |-> FALSE, stopped |-> FALSE, active |-> FALSE,
                  sourced |-> 0, exec |-> "none", timer |-> 0, bg |-> bg,
                  rescan |-> FALSE, retry |-> FALSE]
    BY DEF Init
  <2>2. bg \in {"idle", "scheduled"}
    OBVIOUS
  <2> HIDE DEF bg
  <2>3. /\ svc[p] \in ServiceType /\ svc[p].timer = 0
        /\ TurnOK(svc[p], Idle, Idle) /\ PauseOK(svc[p], Idle, <<>>)
        /\ QuietOK(svc[p], Idle, FALSE)
    BY <2>1, <2>2, StartsWell
  <2>4. /\ job[p]["ctl"] = Idle /\ job[p]["bg"] = Idle
        /\ \A t \in Thread : job[p][t] = Idle
    BY <1>6 DEF Thread
  <2>5. queue[p] = <<>> /\ quiet[p] = FALSE
    BY DEF Init
  <2>6. \A t \in Thread : ThreadOK(t, job[p][t])
    BY <2>4, IdleIs
  <2>. QED  BY <2>3, <2>4, <2>5, <2>6 DEF ServiceOK
<1>8. svc \in [Process -> ServiceType]
  <2>1. svc = [p \in Process |-> svc[p]]
    BY DEF Init
  <2>. QED  BY <1>7, <2>1
<1>9. ServicesOK
  <2>1. <<>> \in Seq({"pause", "resume", "sourced"})
    OBVIOUS
  <2>2. queue \in [Process -> Seq({"pause", "resume", "sourced"})]
    BY <2>1 DEF Init
  <2>3. quiet \in [Process -> BOOLEAN]
    BY DEF Init
  <2>. QED  BY <1>6, <1>7, <1>8, <2>2, <2>3 DEF ServicesOK
<1>10. TimersOK
  BY <1>3, <1>7 DEF TimersOK
<1>11. RuntimesOK
  <2> DEFINE d == DeadRuntime
  <2>1. d \in RuntimeType /\ d.lease = 0 /\ d.over = {}
    <3>1. TRUE \in BOOLEAN /\ expired \in SUBSET Nat
      BY DEF Init
    <3>. QED  BY <3>1, RuntimesMade
  <2>2. rts = [p \in Process |-> [r \in Runtime |-> d]]
    BY DEF Init
  <2> HIDE DEF d
  <2>. QED  BY <1>3, <2>1, <2>2 DEF RuntimesOK
<1>12. ClaimsAreFree
  <2>1. \A p \in Process : \A t \in Thread : job[p][t] = Idle
    BY <1>6
  <2>2. Idle.at # "claim"
    BY IdleIs
  <2>. QED  BY <2>1, <2>2 DEF ClaimsAreFree
<1>13. OneBinds
  BY <1>1, <1>3 DEF OneBinds, LiveLeases
<1>. QED  BY <1>5, <1>9, <1>10, <1>11, <1>12, <1>13 DEF IInv

\* What is left of the budgets names services that there are.
LEMMA ThereIs ==
    ASSUME IInv, NEW p \in left.by
    PROVE  p \in Process
BY DEF IInv, WorldOK, BudgetType

LEMMA NextKeeps ==
    ASSUME IInv, Next
    PROVE  IInv'
<1>1. ASSUME NEW p \in Process, Calls(p) PROVE IInv'
  <2>1. \A op \in {"resume", "sourced"} : OtherCall(p, op) => IInv'
    BY OtherCallKeeps
  <2>. QED  BY <1>1, <2>1, SnapshotCallKeeps, PauseCallKeeps, StopCallKeeps, AdmitTaskKeeps DEF Calls
<1>2. ASSUME NEW p \in Process, NEW t \in Thread, Admission(p, t) PROVE IInv'
  BY <1>2, AdmissionKeeps
<1>3. ASSUME NEW p \in Process, Control(p) PROVE IInv'
  <2>1. CASE Admission(p, "ctl")
    BY <1>2, <2>1 DEF Thread
  <2>2. CASE StartBack(p, "ctl")
    BY <2>2, StartBackKeeps
  <2>3. CASE \/ TakeTurn(p) \/ PauseRead(p) \/ PauseBack(p) \/ PauseCloses(p) \/ PauseAppends(p)
             \/ PauseConfirms(p) \/ PauseRefused(p) \/ PauseReturns(p)
    BY <2>3, TakeTurnKeeps, PauseReadKeeps, PauseBackKeeps, PauseClosesKeeps,
       PauseAppendsKeeps, PauseConfirmsKeeps, PauseRefusedKeeps, PauseReturnsKeeps
  <2>4. CASE \/ ResumeRead(p) \/ FenceBack(p) \/ FenceEnds(p) \/ ResumeBack(p)
             \/ SourcedRead(p) \/ SourcedTurn(p) \/ SourcedRuns(p)
    BY <2>4, ResumeReadKeeps, FenceBackKeeps, FenceEndsKeeps, ResumeBackKeeps,
       SourcedReadKeeps, SourcedTurnKeeps, SourcedRunsKeeps
  <2>. QED  BY <1>3, <2>1, <2>2, <2>3, <2>4, Zenon DEF Control
<1>4. ASSUME NEW p \in Process, Background(p) PROVE IInv'
  <2>1. CASE Admission(p, "bg")
    BY <1>2, <2>1 DEF Thread
  <2>2. CASE StartBack(p, "bg")
    BY <2>2, StartBackKeeps
  <2>3. CASE \/ BackgroundStarts(p) \/ BackgroundReads(p) \/ BackgroundTurn(p)
             \/ BackgroundHandoff(p) \/ BackgroundRuns(p)
    BY <2>3, BackgroundStartsKeeps, BackgroundReadsKeeps, BackgroundTurnKeeps,
       BackgroundHandoffKeeps, BackgroundRunsKeeps
  <2>. QED  BY <1>4, <2>1, <2>2, <2>3, Zenon DEF Background
<1>5. ASSUME NEW p \in Process, Polling(p) \/ Status(p) PROVE IInv'
  <2>1. "poll" \in Thread /\ "snap" \in Thread
    BY DEF Thread
  <2>2. CASE Admission(p, "poll") \/ Admission(p, "snap")
    BY <1>2, <2>1, <2>2
  <2>3. CASE PollFires(p) \/ PollBack(p) \/ SnapshotRead(p) \/ SnapshotBack(p)
    BY <2>3, PollFiresKeeps, PollBackKeeps, SnapshotReadKeeps, SnapshotBackKeeps
  <2>. QED  BY <1>5, <2>2, <2>3, Zenon DEF Polling, Status
<1>6. ASSUME NEW p \in Process, RetryFires(p) \/ StopReturns(p) PROVE IInv'
  BY <1>6, RetryFiresKeeps, StopReturnsKeeps
<1>7. CASE ExpireLease \/ Drive
  BY <1>7, ExpireLeaseKeeps, DriveKeeps
<1>8. ASSUME NEW p \in left.by,
             \/ Calls(p) \/ Control(p) \/ Background(p) \/ Polling(p) \/ Status(p)
             \/ RetryFires(p) \/ StopReturns(p)
      PROVE  IInv'
  <2>1. p \in Process
    BY ThereIs
  <2>. QED  BY <1>1, <1>3, <1>4, <1>5, <1>6, <1>8, <2>1
<1>. QED  BY <1>7, <1>8 DEF Next

LEMMA StutterKeeps ==
    ASSUME IInv, UNCHANGED vars
    PROVE  IInv'
BY DEF vars, IInv, WorldOK, ServicesOK, TimersOK, RuntimesOK, ClaimsAreFree, OneBinds,
       LiveLeases

\* However many services supervise the workspace, however their threads come
\* between one another, and whatever expires or is taken away meanwhile.
THEOREM InvariantHolds == Spec => []IInv
<1>1. IInv /\ [Next]_vars => IInv'
  BY NextKeeps, StutterKeeps
<1>. QED  BY InitInv, <1>1, PTL DEF Spec

----------------------------------------------------------------------------
(* What it is for.                                                         *)

\* At any time at most one supervision lease of the workspace binds: a claim
\* decided on a ledger read before is appended only if the ledger is still that
\* long, and a clock that stands still sees every lease that binds
\* (readOrAcquireSupervisorLease, appendAndReadBack).
THEOREM OneLeaseBinds == Spec => []OneLiveLease
<1>1. ASSUME IInv PROVE OneLiveLease
  <2> DEFINE L == LiveLeases(ledger, expired)
  <2>1. \A i, j \in L : i = j
    BY <1>1 DEF IInv, OneBinds
  <2> HIDE DEF L
  <2>2. CASE L = {}
    <3>1. Cardinality(L) = 0
      BY <2>2, FS_EmptySet
    <3>. QED  BY <3>1 DEF OneLiveLease, L
  <2>3. CASE L # {}
    <3>1. PICK i \in L : L = {i}
      BY <2>1, <2>3
    <3>2. Cardinality(L) = 1
      BY <3>1, FS_Singleton
    <3>. QED  BY <3>2 DEF OneLiveLease, L
  <2>. QED  BY <2>2, <2>3
<1>. QED  BY <1>1, InvariantHolds, PTL

LEMMA InvTypes == IInv => TypeOK
<1> SUFFICES ASSUME IInv PROVE TypeOK
  OBVIOUS
<1>1. /\ \A i \in DOMAIN ledger : ledger[i] \in EventType
      /\ Len(ledger) \in Nat /\ DOMAIN ledger = 1..Len(ledger)
      /\ expired \subseteq {i \in DOMAIN ledger : ledger[i].kind = "lease"}
      /\ mounted \in BOOLEAN
  BY Events DEF IInv, WorldOK
<1>2. \A i \in DOMAIN ledger : /\ ledger[i].kind \in {"lease", "paused", "resumed", "source"}
                               /\ ledger[i].by \in Process \union {"none"}
  BY <1>1 DEF EventType
<1>3. ASSUME NEW p \in Process
      PROVE  /\ svc[p].wake \in Runtime \union {0} /\ svc[p].sourced \in Runtime \union {0}
             /\ svc[p].pend \in Nat /\ svc[p].timer \in {0} \union DOMAIN ledger
             /\ svc[p].bg \in {"idle", "scheduled", "running"}
             /\ svc[p].exec \in {"none", "ctl", "bg"}
  <2>1. svc[p] \in ServiceType /\ svc[p].timer <= Len(ledger)
    BY Here
  <2>2. svc[p].timer \in Nat
    BY <2>1 DEF ServiceType
  <2>3. svc[p].timer \in {0} \union DOMAIN ledger
    BY <1>1, <2>1, <2>2
  <2>. QED  BY <2>1, <2>3 DEF ServiceType
<1>4. ASSUME NEW p \in Process, NEW t \in Thread
      PROVE  job[p][t].rt \in Runtime \union {0}
  BY Here DEF JobType
<1>5. ASSUME NEW p \in Process, NEW r \in Runtime
      PROVE  rts[p][r].lease \in {0} \union DOMAIN ledger
  <2>1. rts[p][r] \in RuntimeType /\ rts[p][r].lease <= Len(ledger)
    BY DEF IInv, RuntimesOK
  <2>2. rts[p][r].lease \in Nat
    BY <2>1 DEF RuntimeType
  <2>. QED  BY <1>1, <2>1, <2>2
<1>. QED  BY <1>1, <1>2, <1>3, <1>4, <1>5 DEF TypeOK

\* Only the two threads that may have the turn to execute, execute.
LEMMA WhoRuns ==
    ASSUME IInv, NEW p \in Process, NEW t \in Thread, Running(job[p][t])
    PROVE  t \in {"ctl", "bg"} /\ svc[p].exec = t /\ svc[p].active
<1> DEFINE j == job[p][t]
           s == svc[p]
<1>1. /\ ThreadOK(t, j) /\ TurnOK(s, job[p]["ctl"], job[p]["bg"])
  BY Here
<1>2. j.at \in {"run", "effects"} /\ j.stage \in {"sourced", "bg"} /\ j # Idle
  BY <1>1, IdleIs DEF ThreadOK, Running
<1>3. j.stage \in StageOf(t)
  BY <1>1, <1>2 DEF ThreadOK
<1>4. (t = "ctl" /\ j.stage = "sourced") \/ t = "bg"
  BY <1>2, <1>3 DEF StageOf, Thread
<1> HIDE DEF s
<1>5. CASE t = "ctl" /\ j.stage = "sourced"
  <2> DEFINE c == job[p]["ctl"]
             b == job[p]["bg"]
  <2>1. c.stage = "sourced" /\ Running(c) /\ TurnOK(s, c, b)
    BY <1>1, <1>5
  <2> HIDE DEF c, b
  <2>2. s.exec = "ctl" /\ s.active
    BY <2>1 DEF TurnOK, Working
  <2>. QED  BY <1>5, <2>2 DEF s
<1>6. CASE t = "bg"
  <2> DEFINE c == job[p]["ctl"]
             b == job[p]["bg"]
  <2>1. Running(b) /\ TurnOK(s, c, b)
    BY <1>1, <1>6
  <2> HIDE DEF c, b
  <2>2. s.exec = "bg" /\ s.active
    BY <2>1 DEF TurnOK, Working
  <2>. QED  BY <1>6, <2>2 DEF s
<1>. QED  BY <1>4, <1>5, <1>6

LEMMA InvTurns == IInv => ExecutionsTakeTurns
<1> SUFFICES ASSUME IInv, NEW p \in Process,
                    {t \in Thread : job[p][t].at \in {"run", "effects"}} # {}
             PROVE  /\ {t \in Thread : job[p][t].at \in {"run", "effects"}} = {svc[p].exec}
                    /\ svc[p].active
  BY DEF ExecutionsTakeTurns
<1>1. \A t \in Thread : job[p][t].at \in {"run", "effects"} => svc[p].exec = t /\ svc[p].active
  BY WhoRuns DEF Running
<1>. QED  BY <1>1

\* What a service holds is of its kind, and a sourced investigation and the
\* background cycle never execute at once: each has the turn while it does
\* (serializeResidentExecution).
THEOREM Supervised == Spec => []SupervisionIsSound
<1>1. IInv => SupervisionIsSound
  BY InvTypes, InvTurns DEF SupervisionIsSound
<1>. QED  BY <1>1, InvariantHolds, PTL

\* Once pause or stop has returned, and until a resume begins or a pause fails,
\* the service executes nothing (pause, quiesceBackgroundExecution, stop).
THEOREM QuietServices == Spec => []QuietIsIdle
<1>1. ASSUME IInv PROVE QuietIsIdle
  <2> SUFFICES ASSUME NEW p \in Process, quiet[p]
               PROVE  /\ ~svc[p].active /\ svc[p].exec = "none"
                      /\ ~ \E t \in Thread : job[p][t].at \in {"run", "effects"}
    BY DEF QuietIsIdle
  <2>1. ~svc[p].active /\ svc[p].exec = "none"
    BY <1>1, Here DEF QuietOK
  <2>. QED  BY <1>1, <2>1, WhoRuns DEF Running
<1>. QED  BY <1>1, InvariantHolds, PTL

=============================================================================
