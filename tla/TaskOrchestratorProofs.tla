---------------------- MODULE TaskOrchestratorProofs ----------------------
(***************************************************************************)
(* However many ticks there are, however they overlap, are refused or die, *)
(* the attempt is dispatched once and for an approved transfer, its events *)
(* are those of one life of a task, and ticks that do not overlap take     *)
(* turns with its claims.                                                  *)
(***************************************************************************)
EXTENDS TaskOrchestrator, FiniteSetTheorems, WellFoundedInduction, TLAPS

----------------------------------------------------------------------------
(* What a tick knows.                                                      *)

TickType ==
    [pc : Step, plan : Plan, at : 0..most.time, seen : Nat, claim : Nat,
     checkpoint : Nat, base : Nat, pending : Event]

\* The tick is about to append an event of one of these types.
Appends(t, types) == t.pc = "send" /\ t.pending.type \in types

\* The tick's claim and checkpoint are in the log when it needs them, and a
\* tick that is to claim knows the claim its own follows.
KnowsItsClaim(t) ==
    /\ t \in TickType
    /\ t.seen <= Len(log)
    /\ t.claim \in Claims(log) \union {0}
    /\ t.checkpoint \in Of(log, {"approval-wait", "blocked"}) \union {0}
    /\ t.pc \in ClaimSteps => t.claim # 0
    /\ t.pc = "send" /\ t.pending.type # "claimed" => t.claim # 0
    /\ t.pc = "claim" => t.plan \in {"start", "recover", "resume"}
    /\ t.pc = "claim" /\ t.plan # "start" => t.claim # 0
    /\ t.plan = "resume" /\ t.pc \in {"inspect", "claim"} => 0 < t.claim /\ t.claim <= t.seen

\* An append that may still be accepted finds the log as it was prepared for,
\* and no tick queues or cancels the task.
AppendIsLegal(t) ==
    /\ t.pc = "send" => t.base <= StreamLength(log, t.pending.type)
    /\ ~Appends(t, {"queued", "canceled"})
    /\ Appends(t, {"runner-dispatching"}) /\ Expected(t) =>
            Of(log, {"runner-dispatching"}) = {}
    /\ Appends(t, {"task-completed"}) /\ Expected(t) => Of(log, {"canceled"}) = {}

EverApproved == approved \/ lapses > 0

\* The tick has found the transfer approved, or its claim was made by one that did.
Approved(t) ==
    \/ t.pc \in {"dispatch", "announce", "recheck"} \/ Appends(t, {"runner-dispatching"})
    \/ t.plan = "resume" /\ (t.pc \in {"claim", "readback"} \/ Appends(t, {"claimed"}))

IsAuthorized(t) ==
    /\ Approved(t) => EverApproved
    /\ t.pc = "announce" \/ Appends(t, {"runner-dispatching"}) =>
            Of(log, {"context-ready"}) # {}

\* The tick is past the runner, and how far.
Finishing(t) == t.pc \in {"handoff", "finalize"} \/ Appends(t, {"run-completed"})
Completing(t) == t.pc \in {"ready", "complete"} \/ Appends(t, {"completed"})
Settling(t) == t.pc = "settle" \/ Appends(t, {"task-completed"})
Past(t) == Finishing(t) \/ Completing(t) \/ Settling(t)

\* The tick that announced the runner.
Announcer(t) == t.pc = "run" \/ Past(t)

ComesAfterTheRun(t) ==
    /\ t.pc = "run" => runs = 0 /\ Of(log, {"runner-dispatching"}) # {}
    /\ Past(t) => runs = 1
    /\ Finishing(t) => Of(log, {"run-completed"}) = {}
    /\ Completing(t) => Of(log, {"run-completed"}) # {} /\ Of(log, {"completed"}) = {}
    /\ Settling(t) => Of(log, {"completed"}) # {} /\ Of(log, {"task-completed"}) = {}

Good(t) ==
    /\ KnowsItsClaim(t)
    /\ AppendIsLegal(t)
    /\ IsAuthorized(t)
    /\ ComesAfterTheRun(t)

\* What the log says of the attempt's life.
LifeIsInOrder ==
    /\ \A i, j \in Of(log, {"runner-dispatching"}) : i = j
    /\ runs \in {0, 1}
    /\ runs = 1 => Of(log, {"runner-dispatching"}) # {}
    /\ Of(log, {"run-completed"}) # {} => runs = 1
    /\ Of(log, {"completed"}) # {} => Of(log, {"run-completed"}) # {}
    /\ Of(log, {"task-completed"}) # {} => Of(log, {"completed"}) # {}

WorldOK ==
    /\ log \in Seq(Event)
    /\ now \in 0..most.time
    /\ most \in Bounds
    /\ approved \in BOOLEAN /\ asked \in BOOLEAN
    /\ lapses \in 0..most.lapses
    /\ crashes \in 0..most.crashes
    /\ overlaps \in 0..most.overlaps

OneAnnouncer == \A v, w \in Worker : Announcer(tick[v]) /\ Announcer(tick[w]) => v = w

\* The inductive invariant of any ticks.
IInv ==
    /\ WorldOK
    /\ tick \in [Worker -> TickType]
    /\ LifeIsInOrder
    /\ DispatchIsAuthorized
    /\ OneAnnouncer
    /\ \A w \in Worker : Good(tick[w])

----------------------------------------------------------------------------
(* The log.                                                                *)

\* The events of a log.
LEMMA Events ==
    ASSUME NEW s \in Seq(Event)
    PROVE  /\ Len(s) \in Nat /\ DOMAIN s = 1..Len(s)
           /\ \A i \in 1..Len(s) : /\ s[i] \in Event /\ s[i].gen \in Nat
                                   /\ s[i].expires \in Nat /\ s[i].claim \in Nat
                                   /\ s[i].checkpoint \in Nat
           /\ \A types : \A i \in Of(s, types) : i \in 1..Len(s) /\ s[i].type \in types
           /\ \A i \in Claims(s) : i \in 1..Len(s)
<1>1. Len(s) \in Nat /\ DOMAIN s = 1..Len(s) /\ \A i \in 1..Len(s) : s[i] \in Event
  OBVIOUS
<1>. QED  BY <1>1 DEF Event, Of, Claims

\* What an appended event does to the events of any types.
LEMMA Grown ==
    ASSUME NEW s \in Seq(Event), NEW e \in Event
    PROVE  /\ Append(s, e) \in Seq(Event)
           /\ Len(s) \in Nat /\ Len(Append(s, e)) = Len(s) + 1
           /\ DOMAIN s = 1..Len(s) /\ DOMAIN Append(s, e) = 1..(Len(s) + 1)
           /\ \A i \in 1..Len(s) : Append(s, e)[i] = s[i] /\ s[i] \in Event
           /\ Append(s, e)[Len(s) + 1] = e
OBVIOUS

LEMMA GrownOf ==
    ASSUME NEW s \in Seq(Event), NEW e \in Event, NEW types
    PROVE  /\ Of(s, types) \subseteq 1..Len(s)
           /\ e.type \in types => Of(Append(s, e), types) = Of(s, types) \union {Len(s) + 1}
           /\ e.type \notin types => Of(Append(s, e), types) = Of(s, types)
BY Grown DEF Of

\* A stream's length is a number, and an append to the stream is noticed in it.
LEMMA StreamGrows ==
    ASSUME NEW s \in Seq(Event), NEW e \in Event, NEW type
    PROVE  /\ StreamLength(s, type) \in Nat
           /\ e.type \in Stream(type) =>
                StreamLength(Append(s, e), type) = StreamLength(s, type) + 1
           /\ e.type \notin Stream(type) =>
                StreamLength(Append(s, e), type) = StreamLength(s, type)
<1> DEFINE S == Of(s, Stream(type))
<1>1. S \subseteq 1..Len(s) /\ Len(s) \in Nat
  BY Grown, GrownOf
<1>2. IsFiniteSet(S)
  <2>1. IsFiniteSet(1..Len(s))
    BY <1>1, FS_Interval
  <2>. QED  BY <1>1, <2>1, FS_Subset
<1>3. Cardinality(S) \in Nat
  BY <1>2, FS_CardinalityType
<1>4. Len(s) + 1 \notin S
  BY <1>1
<1>5. Cardinality(S \union {Len(s) + 1}) = Cardinality(S) + 1
  BY <1>2, <1>4, FS_AddElement
<1>. QED  BY <1>3, <1>5, GrownOf DEF StreamLength

\* A set of numbers has a least one.
LEMMA LeastExists ==
    ASSUME NEW T, T \subseteq Nat, T # {}
    PROVE  \E n \in T : \A m \in T : n <= m
<1> DEFINE R == {ss \in Nat \X Nat : ss[1] < ss[2]}
<1>1. IsWellFoundedOn(R, Nat)
  BY NatLessThanWellFounded DEF OpToRel
<1> HIDE DEF R
<1>2. PICK n \in T : \A m \in T : ~(<<m, n>> \in R)
  BY <1>1, WFMin
<1>3. \A m \in T : ~(m < n)
  BY <1>2 DEF R
<1>. QED  BY <1>3

\* Of some claims one is the newest: the least beginning of the log that would
\* have claims and no newest one does not exist.
LEMMA NewestExists ==
    ASSUME NEW s \in Seq(Event), NEW C, C \subseteq 1..Len(s), C # {}
    PROVE  \E c \in Newest(s, C) : TRUE
<1> DEFINE Newer(m, d) == s[d].gen < s[m].gen \/ (s[d].gen = s[m].gen /\ d <= m)
           HasNewest(k) == (\E c \in C : c <= k) =>
                              \E m \in C : m <= k /\ \A d \in C : d <= k => Newer(m, d)
           bad == {k \in 0..Len(s) : ~HasNewest(k)}
<1>1. Len(s) \in Nat /\ \A i \in 1..Len(s) : s[i] \in Event
  OBVIOUS
<1>2. \A c \in C : c \in Nat /\ 0 < c /\ c <= Len(s) /\ s[c].gen \in Nat
  BY <1>1 DEF Event
<1> HIDE DEF Newer, HasNewest, bad
<1>3. bad = {}
  <2>1. SUFFICES ASSUME bad # {} PROVE FALSE
    OBVIOUS
  <2>2. bad \subseteq Nat
    BY <1>1 DEF bad
  <2>3. PICK n \in bad : \A m \in bad : n <= m
    BY <2>1, <2>2, LeastExists
  <2>4. n \in 0..Len(s) /\ ~HasNewest(n)
    BY DEF bad
  <2>5. n # 0
    BY <1>2, <2>4 DEF HasNewest
  <2>6. n - 1 \in 0..Len(s) /\ ~(n <= n - 1)
    BY <1>1, <2>4, <2>5
  <2>7. HasNewest(n - 1)
    BY <2>3, <2>6 DEF bad
  <2>8. \A d \in C : d <= n <=> d <= n - 1 \/ d = n
    BY <1>2, <2>4
  <2>9. n \in C
    BY <1>2, <2>4, <2>7, <2>8 DEF HasNewest
  <2>10. s[n].gen \in Nat /\ n \in Nat
    BY <1>2, <2>9
  <2>11. Newer(n, n)
    BY <2>10 DEF Newer
  <2>12. \E c \in C : c <= n - 1
    BY <2>4, <2>8, <2>9, <2>10, <2>11 DEF HasNewest
  <2>13. PICK m \in C : m <= n - 1 /\ \A d \in C : d <= n - 1 => Newer(m, d)
    BY <2>7, <2>12 DEF HasNewest
  <2>14. s[m].gen \in Nat /\ m \in Nat /\ m < n /\ m <= n
    BY <1>2, <2>10, <2>13
  <2>15. CASE s[m].gen <= s[n].gen
    <3>1. ASSUME NEW d \in C, d <= n PROVE Newer(n, d)
      <4>1. s[d].gen \in Nat /\ d \in Nat
        BY <1>2
      <4>2. d = n \/ Newer(m, d)
        BY <2>8, <2>13, <3>1
      <4>. QED  BY <2>10, <2>11, <2>14, <2>15, <3>1, <4>1, <4>2 DEF Newer
    <3>. QED  BY <2>4, <2>9, <2>10, <3>1 DEF HasNewest
  <2>16. CASE s[n].gen < s[m].gen
    <3>1. \A d \in C : d <= n => Newer(m, d)
      BY <2>8, <2>13, <2>16 DEF Newer
    <3>. QED  BY <2>4, <2>14, <3>1 DEF HasNewest
  <2>. QED  BY <2>10, <2>14, <2>15, <2>16
<1>4. HasNewest(Len(s))
  BY <1>1, <1>3 DEF bad
<1>5. \E m \in C : \A d \in C : Newer(m, d)
  BY <1>2, <1>4 DEF HasNewest
<1>. QED  BY <1>5 DEF Newest, Newer

\* A snapshot is a log of its own, and its events are the log's.
LEMMA SnapshotIsLog ==
    ASSUME log \in Seq(Event), NEW t, t.seen \in Nat, t.seen <= Len(log)
    PROVE  /\ Snapshot(t) \in Seq(Event) /\ Len(Snapshot(t)) = t.seen
           /\ \A i \in 1..t.seen : Snapshot(t)[i] = log[i]
           /\ \A types : Of(Snapshot(t), types) = {i \in Of(log, types) : i <= t.seen}
<1>1. /\ Snapshot(t) \in Seq(Event) /\ Len(Snapshot(t)) = t.seen
      /\ \A i \in 1..t.seen : Snapshot(t)[i] = log[i]
  BY DEF Snapshot
<1>2. DOMAIN Snapshot(t) = 1..t.seen /\ DOMAIN log = 1..Len(log) /\ Len(log) \in Nat
  BY <1>1
<1>. QED  BY <1>1, <1>2 DEF Of

----------------------------------------------------------------------------
(* The records of ticks.                                                   *)

LEMMA NewEventType ==
    ASSUME NEW type \in TaskEvent \union AttemptEvent \union {"run-completed"}, NEW g \in Nat
    PROVE  NewEvent(type, g) \in Event /\ NewEvent(type, g).type = type
BY DEF NewEvent, Event

LEMMA IdleType ==
    ASSUME WorldOK
    PROVE  Idle \in TickType /\ Idle.pc = "idle" /\ Idle.claim = 0 /\ Idle.checkpoint = 0
           /\ Idle.seen = 0 /\ Idle.plan = "none"
<1>1. most.time \in Nat
  BY OrchestratorAssumption DEF WorldOK
<1>2. 0 \in 0..most.time
  BY <1>1
<1>3. NewEvent("queued", 0) \in Event
  BY NewEventType DEF TaskEvent
<1>. QED  BY <1>2, <1>3 DEF Idle, TickType, Step, Plan

LEMMA AtType ==
    ASSUME NEW t \in TickType, NEW step \in Step
    PROVE  /\ At(t, step) \in TickType /\ At(t, step).pc = step
           /\ At(t, step).plan = t.plan /\ At(t, step).at = t.at
           /\ At(t, step).seen = t.seen /\ At(t, step).claim = t.claim
           /\ At(t, step).checkpoint = t.checkpoint
<1>1. Idle.pending \in Event
  BY NewEventType DEF Idle, TaskEvent
<1>. QED  BY <1>1 DEF At, TickType

\* A tick that recovers a claim.
LEMMA RecoveringType ==
    ASSUME NEW t \in TickType, NEW c \in Nat
    PROVE  /\ Recovering(t, c) \in TickType
           /\ Recovering(t, c).pc = "release" /\ Recovering(t, c).plan = "recover"
           /\ Recovering(t, c).claim = c /\ Recovering(t, c).checkpoint = 0
           /\ Recovering(t, c).seen = 0 /\ Recovering(t, c).at = t.at
<1>1. Idle.pending \in Event
  BY NewEventType DEF Idle, TaskEvent
<1>2. "release" \in Step /\ "recover" \in Plan
  BY DEF Step, Plan
<1>. QED  BY <1>1, <1>2 DEF Recovering, At, TickType

----------------------------------------------------------------------------
(* What a step leaves good.                                                *)

\* A tick is put where it is good to be.
LEMMA SetGood ==
    ASSUME NEW w \in Worker, NEW t, Good(t), tick'[w] = t,
           UNCHANGED <<log, runs, approved, lapses, most>>
    PROVE  Good(tick[w])'
<1>1. KnowsItsClaim(tick[w])'
  BY DEF Good, KnowsItsClaim, TickType
<1>2. AppendIsLegal(tick[w])'
  BY DEF Good, AppendIsLegal, Appends, Expected
<1>3. IsAuthorized(tick[w])'
  BY DEF Good, IsAuthorized, Approved, Appends, EverApproved
<1>4. ComesAfterTheRun(tick[w])'
  BY DEF Good, ComesAfterTheRun, Past, Finishing, Completing, Settling, Appends
<1>. QED  BY <1>1, <1>2, <1>3, <1>4 DEF Good

\* A tick stays good where it is when only the world around it changes.
LEMMA KeepGood ==
    ASSUME NEW w \in Worker, Good(tick[w]), tick'[w] = tick[w],
           UNCHANGED <<log, runs, most>>, EverApproved => EverApproved'
    PROVE  Good(tick[w])'
<1>1. KnowsItsClaim(tick[w])'
  BY DEF Good, KnowsItsClaim, TickType
<1>2. AppendIsLegal(tick[w])'
  BY DEF Good, AppendIsLegal, Appends, Expected
<1>3. IsAuthorized(tick[w])'
  BY DEF Good, IsAuthorized, Approved, Appends
<1>4. ComesAfterTheRun(tick[w])'
  BY DEF Good, ComesAfterTheRun, Past, Finishing, Completing, Settling, Appends
<1>. QED  BY <1>1, <1>2, <1>3, <1>4 DEF Good

\* A tick stays good while others append: what it was about to append is no
\* longer expected, if it depends on what was appended.
LEMMA OthersAppend ==
    ASSUME IInv, NEW w \in Worker, NEW e \in Event, tick'[w] = tick[w],
           log' = Append(log, e), UNCHANGED <<runs, approved, lapses, most>>,
           Announcer(tick[w]) => e.type \notin {"run-completed", "completed", "task-completed"}
    PROVE  Good(tick[w])'
<1> DEFINE t == tick[w]
<1>1. Good(t) /\ log \in Seq(Event)
  BY DEF IInv, WorldOK
<1>2. KnowsItsClaim(t)'
  <2>1. \A types : Of(log, types) \subseteq Of(log', types)
    BY <1>1, GrownOf
  <2>2. Len(log') = Len(log) + 1 /\ Len(log) \in Nat
    BY <1>1, Grown
  <2>. QED  BY <1>1, <2>1, <2>2 DEF Good, KnowsItsClaim, TickType, Claims
<1>3. AppendIsLegal(t)'
  <2>1. t.pc = "send" => t.base \in Nat /\ t.base <= StreamLength(log, t.pending.type)
    BY <1>1 DEF Good, KnowsItsClaim, TickType, AppendIsLegal
  <2>2. \A type : StreamLength(log, type) \in Nat /\ StreamLength(log', type) =
            StreamLength(log, type) + (IF e.type \in Stream(type) THEN 1 ELSE 0)
    BY <1>1, StreamGrows
  <2>3. t.pc = "send" => t.base <= StreamLength(log', t.pending.type)
    BY <2>1, <2>2
  <2>4. t.pc = "send" /\ Expected(t)' => Expected(t) /\ e.type \notin Stream(t.pending.type)
    BY <2>1, <2>2 DEF Expected
  <2>5. Appends(t, {"runner-dispatching"}) /\ Expected(t)' =>
            Of(log', {"runner-dispatching"}) = {}
    <3>1. Appends(t, {"runner-dispatching"}) => Stream(t.pending.type) = AttemptEvent
      BY DEF Appends, Stream, AttemptEvent, TaskEvent, Checkpoint
    <3>2. "runner-dispatching" \in AttemptEvent
      BY DEF AttemptEvent, Checkpoint
    <3>. QED  BY <1>1, <2>4, <3>1, <3>2, GrownOf DEF Good, AppendIsLegal, Appends
  <2>6. Appends(t, {"task-completed"}) /\ Expected(t)' => Of(log', {"canceled"}) = {}
    <3>1. Appends(t, {"task-completed"}) => Stream(t.pending.type) = TaskEvent
      BY DEF Appends, Stream, TaskEvent
    <3>2. "canceled" \in TaskEvent
      BY DEF TaskEvent
    <3>. QED  BY <1>1, <2>4, <3>1, <3>2, GrownOf DEF Good, AppendIsLegal, Appends
  <2>. QED  BY <1>1, <2>3, <2>5, <2>6 DEF Good, AppendIsLegal, Appends
<1>4. IsAuthorized(t)'
  <2>1. Of(log, {"context-ready"}) \subseteq Of(log', {"context-ready"})
    BY <1>1, GrownOf
  <2>. QED  BY <1>1, <2>1 DEF Good, IsAuthorized, Approved, Appends, EverApproved
<1>5. ComesAfterTheRun(t)'
  <2>1. Of(log, {"runner-dispatching"}) \subseteq Of(log', {"runner-dispatching"})
    BY <1>1, GrownOf
  <2>2. Announcer(t) => \A type \in {"run-completed", "completed", "task-completed"} :
                            Of(log', {type}) = Of(log, {type})
    BY <1>1, GrownOf
  <2>. QED  BY <1>1, <2>1, <2>2
            DEF Good, ComesAfterTheRun, Announcer, Past, Finishing, Completing, Settling, Appends
<1>. QED  BY <1>2, <1>3, <1>4, <1>5 DEF Good

\* A tick that only changes what it is doing.
LEMMA MoveKeeps ==
    ASSUME IInv, NEW w \in Worker, NEW t, Good(t), Announcer(t) => Announcer(tick[w]),
           Move(w, t)
    PROVE  IInv'
<1>1. /\ UNCHANGED <<log, runs, now, approved, asked, lapses, crashes, overlaps, most>>
      /\ tick' = [tick EXCEPT ![w] = t] /\ tick \in [Worker -> TickType] /\ t \in TickType
  BY DEF Move, Become, world, bounds, IInv, Good, KnowsItsClaim
<1>2. tick'[w] = t /\ \A v \in Worker \ {w} : tick'[v] = tick[v]
  BY <1>1
<1>3. \A v \in Worker : Good(tick[v])'
  BY <1>1, <1>2, SetGood, KeepGood DEF IInv, EverApproved
<1>4. tick' \in [Worker -> TickType'] /\ WorldOK'
  BY <1>1 DEF TickType, IInv, WorldOK
<1>5. OneAnnouncer'
  BY <1>1, <1>2 DEF IInv, OneAnnouncer, Announcer, Past, Finishing, Completing, Settling, Appends
<1>. QED  BY <1>1, <1>3, <1>4, <1>5 DEF IInv, LifeIsInOrder, DispatchIsAuthorized

----------------------------------------------------------------------------
(* The steps of a tick before its runner.                                  *)

\* Nothing is appended, announced or known of an approval at such a step.
Plain(t) ==
    t.pc \in Step \ {"send", "run", "handoff", "finalize", "ready", "complete", "settle",
                     "dispatch", "announce", "recheck", "readback"}

\* Then it is enough that the tick knows its claim.
LEMMA PlainGood ==
    ASSUME NEW t, KnowsItsClaim(t), Plain(t), t.pc = "claim" => t.plan # "resume"
    PROVE  Good(t) /\ ~Announcer(t)
BY DEF Plain, Good, AppendIsLegal, IsAuthorized, ComesAfterTheRun, Approved, Appends,
       Announcer, Past, Finishing, Completing, Settling

LEMMA IdleGood == ASSUME IInv PROVE Good(Idle) /\ ~Announcer(Idle)
<1>1. /\ Idle \in TickType /\ Idle.pc = "idle" /\ Idle.claim = 0 /\ Idle.checkpoint = 0
      /\ Idle.seen = 0 /\ Idle.plan = "none"
  BY IdleType DEF IInv
<1>2. Len(log) \in Nat
  BY DEF IInv, WorldOK
<1>3. KnowsItsClaim(Idle) /\ Plain(Idle)
  BY <1>1, <1>2 DEF KnowsItsClaim, Plain, ClaimSteps, Step
<1>. QED  BY <1>1, <1>3, PlainGood

LEMMA RecoveringGood ==
    ASSUME IInv, NEW t \in TickType, NEW c \in Claims(log)
    PROVE  Good(Recovering(t, c)) /\ ~Announcer(Recovering(t, c))
<1>1. Len(log) \in Nat /\ c \in Nat /\ c # 0
  BY Grown DEF IInv, WorldOK, Claims, Of
<1> DEFINE r == Recovering(t, c)
<1>2. /\ r \in TickType /\ r.pc = "release" /\ r.plan = "recover" /\ r.claim = c
      /\ r.checkpoint = 0 /\ r.seen = 0
  BY <1>1, RecoveringType
<1> HIDE DEF r
<1>3. KnowsItsClaim(r) /\ Plain(r)
  BY <1>1, <1>2 DEF KnowsItsClaim, Plain, Step
<1>4. Good(r) /\ ~Announcer(r)
  BY <1>2, <1>3, PlainGood
<1>. QED  BY <1>4 DEF r

\* A stale claim of a snapshot is a claim of the log.
LEMMA StaleClaims ==
    ASSUME IInv, NEW w \in Worker
    PROVE  Recoverable(Snapshot(tick[w]), tick[w].at) \subseteq Claims(log)
<1>1. log \in Seq(Event) /\ tick[w].seen \in Nat /\ tick[w].seen <= Len(log)
  BY DEF IInv, WorldOK, Good, KnowsItsClaim, TickType
<1>2. Claims(Snapshot(tick[w])) \subseteq Claims(log)
  BY <1>1, SnapshotIsLog DEF Claims
<1>. QED  BY <1>2 DEF Recoverable, Held, Newest, Unreleased

LEMMA ReturnedGood ==
    ASSUME IInv, NEW w \in Worker
    PROVE  /\ Good(Returned(tick[w])) /\ ~Announcer(Returned(tick[w]))
           /\ \/ Returned(tick[w]) = Idle
              \/ \E c \in Claims(log) : Returned(tick[w]) = Recovering(tick[w], c)
<1> DEFINE stale == Recoverable(Snapshot(tick[w]), tick[w].at)
<1>1. tick[w] \in TickType
  BY DEF IInv
<1>2. CASE tick[w].plan = "continue" /\ stale # {}
  <2>1. (CHOOSE c \in stale : TRUE) \in Claims(log)
    BY <1>2, StaleClaims
  <2>2. Returned(tick[w]) = Recovering(tick[w], CHOOSE c \in stale : TRUE)
    BY <1>2 DEF Returned
  <2>. QED  BY <1>1, <2>1, <2>2, RecoveringGood
<1>3. CASE ~(tick[w].plan = "continue" /\ stale # {})
  <2>1. Returned(tick[w]) = Idle
    BY <1>3 DEF Returned
  <2>. QED  BY <2>1, IdleGood
<1>. QED  BY <1>2, <1>3

\* What the projection finds of the claims is of the log's claims.
LEMMA ProjectedClaims ==
    ASSUME NEW s, NEW t, NEW k
    PROVE  /\ Held(s) \subseteq Claims(s) /\ Live(s, t) \subseteq Claims(s)
           /\ Recoverable(s, t) \subseteq Claims(s) /\ ClaimOfWait(s, k) \subseteq Claims(s)
           /\ ResumableWait(s) \subseteq Of(s, {"approval-wait"})
BY DEF Held, Live, Recoverable, ClaimOfWait, Newest, Unreleased, ResumableWait, Last

LEMMA DecideKeeps == ASSUME IInv, NEW w \in Worker, Decide(w) PROVE IInv'
<1> DEFINE t == tick[w]
<1>1. t \in TickType /\ KnowsItsClaim(t) /\ Len(log) \in Nat /\ log \in Seq(Event)
  BY DEF IInv, Good, WorldOK
<1>2. \A c \in Claims(log) : c \in Nat /\ 0 < c /\ c <= Len(log)
  BY <1>1, Grown DEF Claims, Of
<1>3. \A k \in Of(log, {"approval-wait"}) :
        k \in Nat /\ k \in Of(log, {"approval-wait", "blocked"})
  BY <1>1, Grown DEF Of
<1>4. Idle.pending \in Event
  BY NewEventType DEF Idle, TaskEvent
<1>5. CASE HandleCancellation(w, log)
  <2>1. PICK c \in Held(log), step \in {"block", "release"} :
          Move(w, [At(t, step) EXCEPT !.plan = "cancel", !.claim = c])
    BY <1>5 DEF HandleCancellation
  <2> DEFINE u == [At(t, step) EXCEPT !.plan = "cancel", !.claim = c]
  <2>2. c \in Claims(log)
    BY ProjectedClaims
  <2>3. /\ u \in TickType /\ u.pc = step /\ u.claim = c /\ u.plan = "cancel"
        /\ u.checkpoint = t.checkpoint /\ u.seen = t.seen
    BY <1>1, <1>2, <1>4, <2>2 DEF At, TickType, Step, Plan
  <2> HIDE DEF u
  <2>4. KnowsItsClaim(u) /\ Plain(u)
    BY <1>1, <1>2, <2>2, <2>3 DEF KnowsItsClaim, Plain, Step
  <2>. QED  BY <2>1, <2>3, <2>4, PlainGood, MoveKeeps DEF u
<1>6. CASE HandleWait(w, log)
  <2>1. PICK k \in ResumableWait(log) : \E c \in ClaimOfWait(log, k) :
         Move(w, IF WaitReleased(log, k)
                 THEN [At(t, "inspect")
                          EXCEPT !.plan = "resume", !.claim = c, !.seen = Len(log)]
                 ELSE [At(t, "release")
                          EXCEPT !.plan = "suspend", !.claim = c, !.checkpoint = k])
    BY <1>6 DEF HandleWait
  <2>2. PICK c \in ClaimOfWait(log, k) :
         Move(w, IF WaitReleased(log, k)
                 THEN [At(t, "inspect")
                          EXCEPT !.plan = "resume", !.claim = c, !.seen = Len(log)]
                 ELSE [At(t, "release")
                          EXCEPT !.plan = "suspend", !.claim = c, !.checkpoint = k])
    BY <2>1
  <2>3. c \in Claims(log) /\ k \in Of(log, {"approval-wait"})
    BY ProjectedClaims
  <2>4. CASE WaitReleased(log, k)
    <3> DEFINE u == [At(t, "inspect") EXCEPT !.plan = "resume", !.claim = c, !.seen = Len(log)]
    <3>1. Move(w, u)
      BY <2>2, <2>4
    <3>2. /\ u \in TickType /\ u.pc = "inspect" /\ u.claim = c /\ u.seen = Len(log)
          /\ u.checkpoint = t.checkpoint
      BY <1>1, <1>2, <1>4, <2>3 DEF At, TickType, Step, Plan
    <3> HIDE DEF u
    <3>3. KnowsItsClaim(u) /\ Plain(u)
      BY <1>1, <1>2, <2>3, <3>2 DEF KnowsItsClaim, Plain, Step
    <3>. QED  BY <3>1, <3>2, <3>3, PlainGood, MoveKeeps
  <2>5. CASE ~WaitReleased(log, k)
    <3> DEFINE u == [At(t, "release") EXCEPT !.plan = "suspend", !.claim = c, !.checkpoint = k]
    <3>1. Move(w, u)
      BY <2>2, <2>5
    <3>2. /\ u \in TickType /\ u.pc = "release" /\ u.claim = c /\ u.seen = t.seen
          /\ u.checkpoint = k /\ u.plan = "suspend"
      BY <1>1, <1>2, <1>3, <1>4, <2>3 DEF At, TickType, Step, Plan
    <3> HIDE DEF u
    <3>3. KnowsItsClaim(u) /\ Plain(u)
      BY <1>1, <1>2, <1>3, <2>3, <3>2 DEF KnowsItsClaim, Plain, Step
    <3>. QED  BY <3>1, <3>2, <3>3, PlainGood, MoveKeeps
  <2>. QED  BY <2>4, <2>5
<1>7. CASE HandleActive(w, log)
  <2>1. PICK c \in Live(log, t.at), step \in {"context", "inspect"} :
          Move(w, [At(t, step) EXCEPT !.plan = "continue", !.claim = c, !.seen = Len(log)])
    BY <1>7 DEF HandleActive
  <2> DEFINE u == [At(t, step) EXCEPT !.plan = "continue", !.claim = c, !.seen = Len(log)]
  <2>2. c \in Claims(log)
    BY ProjectedClaims
  <2>3. /\ u \in TickType /\ u.pc = step /\ u.claim = c /\ u.seen = Len(log)
        /\ u.checkpoint = t.checkpoint /\ u.plan = "continue"
    BY <1>1, <1>2, <1>4, <2>2 DEF At, TickType, Step, Plan
  <2> HIDE DEF u
  <2>4. KnowsItsClaim(u) /\ Plain(u)
    BY <1>1, <1>2, <2>2, <2>3 DEF KnowsItsClaim, Plain, Step
  <2>. QED  BY <2>1, <2>3, <2>4, PlainGood, MoveKeeps DEF u
<1>8. CASE HandleStale(w, log)
  <2>1. PICK c \in Recoverable(log, t.at) : Move(w, Recovering(t, c))
    BY <1>8 DEF HandleStale
  <2>2. c \in Claims(log)
    BY ProjectedClaims
  <2>. QED  BY <1>1, <2>1, <2>2, RecoveringGood, MoveKeeps
<1>9. CASE HandleCandidate(w, log)
  <2> DEFINE u == [At(t, "claim") EXCEPT !.plan = "start"]
  <2>1. Move(w, u)
    BY <1>9 DEF HandleCandidate
  <2>2. /\ u \in TickType /\ u.pc = "claim" /\ u.claim = t.claim /\ u.seen = t.seen
        /\ u.checkpoint = t.checkpoint /\ u.plan = "start"
    BY <1>1, <1>4 DEF At, TickType, Step, Plan
  <2> HIDE DEF u
  <2>3. KnowsItsClaim(u) /\ Plain(u)
    BY <1>1, <2>2 DEF KnowsItsClaim, Plain, Step, ClaimSteps
  <2>. QED  BY <2>1, <2>2, <2>3, PlainGood, MoveKeeps
<1>10. CASE NothingToDo(w, log)
  BY <1>10, IdleGood, MoveKeeps DEF NothingToDo
<1>. QED  BY <1>5, <1>6, <1>7, <1>8, <1>9, <1>10 DEF Decide

\* A tick that works on a claim still knows it at the next step.
LEMMA AtKnows ==
    ASSUME NEW t, KnowsItsClaim(t), NEW step \in ClaimSteps \ {"inspect"}, t.claim # 0
    PROVE  KnowsItsClaim(At(t, step)) /\ At(t, step).pc = step /\ At(t, step).plan = t.plan
<1>1. t \in TickType /\ step \in Step
  BY DEF KnowsItsClaim, ClaimSteps
<1>. QED  BY <1>1, AtType DEF KnowsItsClaim, ClaimSteps

\* The attempt is suspended or blocked.
LEMMA SuspendGood ==
    ASSUME NEW t, KnowsItsClaim(t), NEW step \in {"wait", "block"}, t.claim # 0
    PROVE  /\ Good([At(t, step) EXCEPT !.plan = "suspend"])
           /\ ~Announcer([At(t, step) EXCEPT !.plan = "suspend"])
<1> DEFINE u == [At(t, step) EXCEPT !.plan = "suspend"]
<1>1. t \in TickType /\ Idle.pending \in Event
  BY NewEventType DEF KnowsItsClaim, Idle, TaskEvent
<1>2. /\ u \in TickType /\ u.pc = step /\ u.claim = t.claim /\ u.seen = t.seen
      /\ u.checkpoint = t.checkpoint /\ u.plan = "suspend"
  BY <1>1 DEF At, TickType, Step, Plan
<1> HIDE DEF u
<1>3. KnowsItsClaim(u) /\ Plain(u)
  BY <1>2 DEF KnowsItsClaim, Plain, Step
<1>4. Good(u) /\ ~Announcer(u)
  BY <1>2, <1>3, PlainGood
<1>. QED  BY <1>4 DEF u

\* A tick that has read the length of a stream and is about to append to it.
LEMMA PrepareKeeps ==
    ASSUME IInv, NEW w \in Worker, NEW e \in Event, Prepare(w, e), tick[w].pc # "send",
           e.type \notin {"queued", "canceled"}, e.type # "claimed" => tick[w].claim # 0,
           e.type = "claimed" /\ tick[w].plan = "resume" => EverApproved,
           e.type = "runner-dispatching" =>
               EverApproved /\ Of(log, {"context-ready"}) # {} /\ Of(log, {"runner-dispatching"}) = {},
           e.type = "run-completed" => Finishing(tick[w]),
           e.type = "completed" => Completing(tick[w]),
           e.type = "task-completed" => Settling(tick[w]) /\ Of(log, {"canceled"}) = {}
    PROVE  IInv'
<1> DEFINE t == tick[w]
           u == [t EXCEPT !.pc = "send", !.pending = e, !.base = StreamLength(log, e.type)]
<1>1. Good(t) /\ t \in TickType /\ KnowsItsClaim(t) /\ log \in Seq(Event)
  BY DEF IInv, Good, WorldOK
<1>2. StreamLength(log, e.type) \in Nat
  BY <1>1, StreamGrows
<1>3. /\ u \in TickType /\ u.pc = "send" /\ u.plan = t.plan /\ u.at = t.at /\ u.seen = t.seen
      /\ u.claim = t.claim /\ u.checkpoint = t.checkpoint /\ u.pending = e
      /\ u.base = StreamLength(log, e.type)
  BY <1>1, <1>2 DEF TickType, Step
<1>4. Move(w, u)
  BY DEF Prepare
<1> HIDE DEF u
<1>5. KnowsItsClaim(u)
  BY <1>1, <1>3 DEF KnowsItsClaim, ClaimSteps
<1>6. AppendIsLegal(u)
  BY <1>2, <1>3 DEF AppendIsLegal, Appends
<1>7. IsAuthorized(u)
  BY <1>3 DEF IsAuthorized, Approved, Appends
<1>8. /\ Finishing(u) <=> e.type = "run-completed"
      /\ Completing(u) <=> e.type = "completed"
      /\ Settling(u) <=> e.type = "task-completed"
  BY <1>3 DEF Finishing, Completing, Settling, Appends
<1>9. ComesAfterTheRun(u)
  BY <1>1, <1>3, <1>8 DEF Good, ComesAfterTheRun, Past
<1>10. Announcer(u) => Announcer(t)
  BY <1>3, <1>8 DEF Announcer, Past
<1>. QED  BY <1>4, <1>5, <1>6, <1>7, <1>9, <1>10, MoveKeeps DEF Good

\* The generation of a claim, whatever it follows, is a number, and a tick that
\* resumes claims with one that is higher than any in its snapshot.
LEMMA GenerationType ==
    ASSUME IInv, NEW w \in Worker, tick[w].pc = "claim"
    PROVE  /\ Generation(tick[w]) \in Nat
           /\ tick[w].plan = "resume" =>
                \A c \in Claims(log) : c <= tick[w].seen => log[c].gen < Generation(tick[w])
<1> DEFINE t == tick[w]
<1>1. KnowsItsClaim(t) /\ log \in Seq(Event) /\ t.seen \in Nat /\ t.seen <= Len(log) /\ t.claim \in Nat
  BY DEF IInv, WorldOK, Good, KnowsItsClaim, TickType
<1>2. CASE t.plan = "start"
  BY <1>2 DEF Generation
<1>3. CASE t.plan = "recover"
  <2>1. t.claim \in Claims(log)
    BY <1>1, <1>3 DEF KnowsItsClaim
  <2>2. log[t.claim].gen \in Nat
    BY <1>1, <2>1, Events
  <2>. QED  BY <1>3, <2>2 DEF Generation
<1>4. CASE t.plan = "resume"
  <2> DEFINE s == Snapshot(t)
             G == {s[c].gen : c \in Claims(s)}
  <2>1. s \in Seq(Event) /\ Len(s) = t.seen
        /\ Claims(s) = {i \in Claims(log) : i <= t.seen}
    BY <1>1, SnapshotIsLog DEF Claims
  <2>2. t.claim \in Claims(s)
    BY <1>1, <1>4, <2>1 DEF KnowsItsClaim
  <2>3. Claims(s) \subseteq 1..Len(s)
    BY <2>1, Events
  <2>4. PICK c \in Newest(s, Claims(s)) : TRUE
    BY <2>1, <2>2, <2>3, NewestExists
  <2>5. c \in Claims(s) /\ \A d \in Claims(s) : s[d].gen <= s[c].gen
    <3>1. \A d \in Claims(s) : s[d].gen \in Nat
      BY <2>1, <2>3, Events
    <3>. QED  BY <2>4, <3>1 DEF Newest
  <2>6. s[c].gen \in G /\ s[c].gen \in Nat
    BY <2>1, <2>3, <2>5, Events
  <2>7. \E g \in G : \A d \in Claims(s) : s[d].gen <= g
    BY <2>5, <2>6
  <2> DEFINE g == CHOOSE g \in G : \A d \in Claims(s) : s[d].gen <= g
  <2>8. g \in G
    BY <2>7
  <2>9. \A h \in G : h \in Nat
    BY <2>1, <2>3, Events
  <2>10. Generation(t) = g + 1
    BY <1>4 DEF Generation
  <2>11. \A d \in Claims(s) : s[d].gen <= g
    BY <2>7
  <2> HIDE DEF g, G
  <2>12. g \in Nat /\ Generation(t) \in Nat
    BY <2>8, <2>9, <2>10
  <2>13. ASSUME NEW d \in Claims(log), d <= t.seen PROVE log[d].gen < Generation(t)
    <3>1. d \in Claims(s) /\ s[d] = log[d] /\ log[d].gen \in Nat
      BY <1>1, <2>1, <2>13, Events, SnapshotIsLog
    <3>. QED  BY <2>10, <2>11, <2>12, <3>1
  <2>. QED  BY <2>12, <2>13
<1>. QED  BY <1>1, <1>2, <1>3, <1>4 DEF KnowsItsClaim

\* The claim a tick works on is a claim of the log, with a generation.
LEMMA ClaimAt ==
    ASSUME IInv, NEW w \in Worker, tick[w].claim # 0
    PROVE  tick[w].claim \in Claims(log) /\ log[tick[w].claim].gen \in Nat
<1>1. tick[w].claim \in Claims(log) /\ log \in Seq(Event)
  BY DEF IInv, WorldOK, Good, KnowsItsClaim
<1>. QED  BY <1>1, Events

\* What is known of a tick at a step that works on a claim.
LEMMA AtStep ==
    ASSUME IInv, NEW w \in Worker
    PROVE  /\ tick[w] \in TickType /\ Good(tick[w]) /\ KnowsItsClaim(tick[w])
           /\ IsAuthorized(tick[w]) /\ ComesAfterTheRun(tick[w])
           /\ tick[w].pc \in ClaimSteps => tick[w].claim # 0
BY DEF IInv, Good, KnowsItsClaim

\* A tick at the next plain step of its claim.
LEMMA NextStepKeeps ==
    ASSUME IInv, NEW w \in Worker, tick[w].claim # 0,
           NEW step \in {"context", "block", "release"}, Move(w, At(tick[w], step))
    PROVE  IInv'
<1>1. KnowsItsClaim(At(tick[w], step)) /\ At(tick[w], step).pc = step
  BY AtStep, AtKnows DEF ClaimSteps, Step
<1>2. Plain(At(tick[w], step))
  BY <1>1 DEF Plain, Step
<1>. QED  BY <1>1, <1>2, PlainGood, MoveKeeps

\* A tick at the next step of a claim that was approved.
LEMMA ApprovedStepKeeps ==
    ASSUME IInv, NEW w \in Worker, tick[w].claim # 0, EverApproved,
           NEW step \in {"dispatch", "announce", "recheck"}, Move(w, At(tick[w], step)),
           step = "announce" => Of(log, {"context-ready"}) # {}
    PROVE  IInv'
<1> DEFINE u == At(tick[w], step)
<1>1. KnowsItsClaim(u) /\ u.pc = step
  BY AtStep, AtKnows DEF ClaimSteps, Step
<1> HIDE DEF u
<1>2. Good(u) /\ ~Announcer(u)
  BY <1>1 DEF Good, AppendIsLegal, IsAuthorized, ComesAfterTheRun, Appends,
              Announcer, Past, Finishing, Completing, Settling
<1>. QED  BY <1>2, MoveKeeps DEF u

LEMMA ClaimKeeps == ASSUME IInv, NEW w \in Worker, Claim(w) PROVE IInv'
<1> DEFINE t == tick[w]
           e == [NewEvent("claimed", Generation(t)) EXCEPT !.expires = t.at + Lease]
<1>1. t.pc = "claim" /\ Prepare(w, e)
  BY DEF Claim
<1>2. Generation(t) \in Nat /\ t.at \in Nat /\ Lease \in Nat
  <2>1. most.time \in Nat
    BY OrchestratorAssumption DEF IInv, WorldOK
  <2>. QED  BY <1>1, <2>1, AtStep, GenerationType, OrchestratorAssumption DEF TickType
<1>3. e \in Event /\ e.type = "claimed"
  BY <1>2, NewEventType DEF NewEvent, Event, AttemptEvent
<1>4. t.plan = "resume" => EverApproved
  BY <1>1, AtStep DEF IsAuthorized, Approved
<1> HIDE DEF e
<1>. QED  BY <1>1, <1>3, <1>4, PrepareKeeps

LEMMA ReadbackKeeps == ASSUME IInv, NEW w \in Worker, Readback(w) PROVE IInv'
<1>1. tick[w].pc = "readback" /\ tick[w].claim # 0
  BY AtStep DEF Readback, ClaimSteps, Step
<1>2. tick[w].plan = "resume" => EverApproved
  BY <1>1, AtStep DEF IsAuthorized, Approved
<1>. QED  BY <1>1, <1>2, IdleGood, MoveKeeps, NextStepKeeps, ApprovedStepKeeps
          DEF Readback, NotOwned, Owned

LEMMA RecheckKeeps == ASSUME IInv, NEW w \in Worker, Recheck(w) PROVE IInv'
<1>1. tick[w].pc = "recheck" /\ tick[w].claim # 0
  BY AtStep DEF Recheck, ClaimSteps, Step
<1>2. EverApproved
  BY <1>1, AtStep DEF IsAuthorized, Approved
<1>. QED  BY <1>1, <1>2, NextStepKeeps, ApprovedStepKeeps DEF Recheck

LEMMA AssembleContextKeeps == ASSUME IInv, NEW w \in Worker, AssembleContext(w) PROVE IInv'
<1>1. tick[w].pc = "context" /\ tick[w].claim # 0
  BY AtStep DEF AssembleContext, ClaimSteps, Step
<1> DEFINE e == NewEvent("context-ready", log[tick[w].claim].gen)
<1>2. e \in Event /\ e.type = "context-ready"
  BY <1>1, ClaimAt, NewEventType DEF AttemptEvent, Checkpoint
<1>3. CASE Prepare(w, e)
  BY <1>1, <1>2, <1>3, PrepareKeeps
<1>4. CASE Move(w, [At(tick[w], "block") EXCEPT !.plan = "suspend"])
  BY <1>1, <1>4, AtStep, SuspendGood, MoveKeeps
<1>. QED  BY <1>3, <1>4 DEF AssembleContext

LEMMA InspectKeeps == ASSUME IInv, NEW w \in Worker, Inspect(w) PROVE IInv'
<1> DEFINE t == tick[w]
<1>1. t.pc = "inspect" /\ t.claim # 0 /\ t \in TickType /\ KnowsItsClaim(t)
  BY AtStep DEF Inspect, ClaimSteps, Step
<1>2. CASE InspectWaiting(w)
  BY <1>1, <1>2, AtStep, IdleGood, SuspendGood, MoveKeeps DEF InspectWaiting
<1>3. CASE InspectApproved(w)
  <2>1. EverApproved
    BY <1>3 DEF InspectApproved, EverApproved
  <2>2. CASE Move(w, At(t, "dispatch"))
    BY <1>1, <2>1, <2>2, ApprovedStepKeeps
  <2>3. CASE t.plan = "resume" /\ Move(w, At(t, "claim"))
    <3> DEFINE u == At(t, "claim")
    <3>1. /\ u \in TickType /\ u.pc = "claim" /\ u.plan = "resume" /\ u.seen = t.seen
          /\ u.claim = t.claim /\ u.checkpoint = t.checkpoint
      BY <1>1, <2>3, AtType DEF Step
    <3> HIDE DEF u
    <3>2. KnowsItsClaim(u)
      BY <1>1, <2>3, <3>1 DEF KnowsItsClaim, ClaimSteps
    <3>3. Good(u) /\ ~Announcer(u)
      BY <2>1, <3>1, <3>2 DEF Good, AppendIsLegal, IsAuthorized, ComesAfterTheRun, Appends,
                              Announcer, Past, Finishing, Completing, Settling
    <3>. QED  BY <2>3, <3>3, MoveKeeps DEF u
  <2>4. CASE \E c \in ResumedClaim(t) : Move(w, [At(t, "dispatch") EXCEPT !.claim = c])
    <3>1. PICK c \in ResumedClaim(t) : Move(w, [At(t, "dispatch") EXCEPT !.claim = c])
      BY <2>4
    <3> DEFINE u == [At(t, "dispatch") EXCEPT !.claim = c]
    <3>2. c \in Claims(log) /\ c \in Nat /\ c # 0
      <4>1. log \in Seq(Event) /\ t.seen \in Nat /\ t.seen <= Len(log)
        BY <1>1 DEF IInv, WorldOK, KnowsItsClaim, TickType
      <4>2. c \in Claims(Snapshot(t))
        BY ProjectedClaims DEF ResumedClaim
      <4>3. c \in Claims(log)
        BY <4>1, <4>2, SnapshotIsLog DEF Claims
      <4>. QED  BY <4>1, <4>3, Events
    <3>3. /\ u \in TickType /\ u.pc = "dispatch" /\ u.plan = t.plan /\ u.seen = t.seen
          /\ u.claim = c /\ u.checkpoint = t.checkpoint
      <4>1. Idle.pending \in Event
        BY NewEventType DEF Idle, TaskEvent
      <4>. QED  BY <1>1, <3>2, <4>1 DEF At, TickType, Step
    <3> HIDE DEF u
    <3>4. KnowsItsClaim(u)
      BY <1>1, <3>2, <3>3 DEF KnowsItsClaim
    <3>5. Good(u) /\ ~Announcer(u)
      BY <2>1, <3>3, <3>4 DEF Good, AppendIsLegal, IsAuthorized, ComesAfterTheRun, Appends,
                              Announcer, Past, Finishing, Completing, Settling
    <3>. QED  BY <3>1, <3>5, MoveKeeps DEF u
  <2>. QED  BY <1>3, <2>2, <2>3, <2>4 DEF InspectApproved
<1>. QED  BY <1>2, <1>3 DEF Inspect

\* The checkpoints and the release.
LEMMA SuspendKeeps ==
    ASSUME IInv, NEW w \in Worker, Wait(w) \/ Block(w) \/ Release(w) PROVE IInv'
<1> DEFINE t == tick[w]
           g == log[t.claim].gen
<1>1. t.claim # 0 /\ g \in Nat /\ t.pc # "send"
  BY AtStep, ClaimAt DEF Wait, Block, Release, ClaimSteps, Step
<1>2. CASE Wait(w)
  <2>1. NewEvent("approval-wait", g) \in Event /\ NewEvent("approval-wait", g).type = "approval-wait"
    BY <1>1, NewEventType DEF AttemptEvent, Checkpoint
  <2>. QED  BY <1>1, <1>2, <2>1, PrepareKeeps DEF Wait
<1>3. CASE Block(w)
  <2>1. NewEvent("blocked", g) \in Event /\ NewEvent("blocked", g).type = "blocked"
    BY <1>1, NewEventType DEF AttemptEvent, Checkpoint
  <2>. QED  BY <1>1, <1>3, <2>1, PrepareKeeps DEF Block
<1>4. CASE Release(w)
  <2> DEFINE e == [NewEvent("released", g) EXCEPT !.claim = t.claim, !.checkpoint = t.checkpoint]
  <2>1. e \in Event /\ e.type = "released"
    BY <1>1, AtStep DEF NewEvent, Event, AttemptEvent, TickType
  <2>2. Prepare(w, e)
    BY <1>4 DEF Release
  <2> HIDE DEF e
  <2>. QED  BY <1>1, <2>1, <2>2, PrepareKeeps
<1>. QED  BY <1>2, <1>3, <1>4

LEMMA FindContextKeeps == ASSUME IInv, NEW w \in Worker, FindContext(w) PROVE IInv'
<1>1. tick[w].pc = "dispatch" /\ tick[w].claim # 0
  BY AtStep DEF FindContext, ClaimSteps, Step
<1>2. EverApproved
  BY <1>1, AtStep DEF IsAuthorized, Approved
<1>. QED  BY <1>1, <1>2, NextStepKeeps, ApprovedStepKeeps DEF FindContext

LEMMA AnnounceKeeps == ASSUME IInv, NEW w \in Worker, Announce(w) PROVE IInv'
<1>1. tick[w].pc = "announce" /\ tick[w].claim # 0
  BY AtStep DEF Announce, ClaimSteps, Step
<1>2. EverApproved /\ Of(log, {"context-ready"}) # {}
  BY <1>1, AtStep DEF IsAuthorized, Approved
<1> DEFINE e == NewEvent("runner-dispatching", log[tick[w].claim].gen)
<1>3. e \in Event /\ e.type = "runner-dispatching"
  BY <1>1, ClaimAt, NewEventType DEF AttemptEvent, Checkpoint
<1>4. CASE Of(log, {"runner-dispatching"}) = {} /\ Prepare(w, e)
  BY <1>1, <1>2, <1>3, <1>4, PrepareKeeps
<1>5. CASE Move(w, Returned(tick[w]))
  BY <1>5, ReturnedGood, MoveKeeps
<1>. QED  BY <1>4, <1>5 DEF Announce

----------------------------------------------------------------------------
(* The runner, and the steps after it.                                     *)

LEMMA RunKeeps == ASSUME IInv, NEW w \in Worker, Run(w) PROVE IInv'
<1> DEFINE t == tick[w]
<1>1. /\ t.pc = "run" /\ t.claim # 0 /\ runs' = runs + 1
      /\ UNCHANGED <<log, now, approved, asked, lapses, crashes, overlaps, most>>
  BY AtStep DEF Run, ClaimSteps, Step, world, bounds
<1>2. runs = 0 /\ Of(log, {"runner-dispatching"}) # {} /\ Announcer(t)
      /\ Of(log, {"run-completed"}) = {}
  BY <1>1, AtStep DEF ComesAfterTheRun, Announcer, IInv, LifeIsInOrder
<1>3. PICK u : tick' = [tick EXCEPT ![w] = u] /\ (u = At(t, "handoff") \/ u = Returned(t))
  BY DEF Run, Become
<1>4. /\ KnowsItsClaim(u) /\ (u.pc = "handoff" \/ (Good(u) /\ ~Announcer(u)))
      /\ u.pc = "handoff" => Finishing(u) /\ ~Completing(u) /\ ~Settling(u)
  BY <1>1, <1>3, AtStep, AtKnows, ReturnedGood
     DEF Good, ClaimSteps, Step, Finishing, Completing, Settling, Appends
<1>5. tick'[w] = u /\ \A v \in Worker \ {w} : tick'[v] = tick[v]
  BY <1>3 DEF IInv
<1>6. \A v \in Worker \ {w} : ~Announcer(tick[v])
  BY <1>2 DEF IInv, OneAnnouncer
<1>7. \A v \in Worker \ {w} : Good(tick[v])'
  <2>1. SUFFICES ASSUME NEW v \in Worker \ {w} PROVE Good(tick[v])'
    OBVIOUS
  <2>2. Good(tick[v]) /\ tick'[v] = tick[v] /\ ~Announcer(tick[v])
    BY <1>5, <1>6 DEF IInv
  <2>3. KnowsItsClaim(tick[v])' /\ AppendIsLegal(tick[v])' /\ IsAuthorized(tick[v])'
    BY <1>1, <2>2 DEF Good, KnowsItsClaim, TickType, AppendIsLegal, Appends, Expected,
                      IsAuthorized, Approved, EverApproved
  <2>4. ~Announcer(tick[v])'
    BY <2>2 DEF Announcer, Past, Finishing, Completing, Settling, Appends
  <2>5. ComesAfterTheRun(tick[v])'
    BY <2>4 DEF ComesAfterTheRun, Announcer, Past
  <2>. QED  BY <2>3, <2>5 DEF Good
<1>8. Good(tick[w])'
  <2>1. CASE u.pc = "handoff"
    <3>1. KnowsItsClaim(tick[w])'
      BY <1>1, <1>4, <1>5 DEF KnowsItsClaim, TickType
    <3>2. AppendIsLegal(tick[w])' /\ IsAuthorized(tick[w])'
      BY <1>5, <2>1 DEF AppendIsLegal, IsAuthorized, Approved, Appends
    <3>3. ComesAfterTheRun(tick[w])'
      BY <1>1, <1>2, <1>5, <2>1
      DEF ComesAfterTheRun, Past, Finishing, Completing, Settling, Appends
    <3>. QED  BY <3>1, <3>2, <3>3 DEF Good
  <2>2. CASE Good(u) /\ ~Announcer(u)
    <3>1. KnowsItsClaim(tick[w])' /\ AppendIsLegal(tick[w])' /\ IsAuthorized(tick[w])'
      BY <1>1, <1>5, <2>2 DEF Good, KnowsItsClaim, TickType, AppendIsLegal, Appends, Expected,
                              IsAuthorized, Approved, EverApproved
    <3>2. ~Announcer(tick[w])'
      BY <1>5, <2>2 DEF Announcer, Past, Finishing, Completing, Settling, Appends
    <3>3. ComesAfterTheRun(tick[w])'
      BY <3>2 DEF ComesAfterTheRun, Announcer, Past
    <3>. QED  BY <3>1, <3>3 DEF Good
  <2>. QED  BY <1>4, <2>1, <2>2
<1>9. OneAnnouncer'
  BY <1>5, <1>6 DEF OneAnnouncer, Announcer, Past, Finishing, Completing, Settling, Appends
<1>10. tick' \in [Worker -> TickType'] /\ WorldOK'
  BY <1>1, <1>3, <1>4 DEF IInv, WorldOK, TickType, KnowsItsClaim
<1>11. LifeIsInOrder' /\ DispatchIsAuthorized'
  BY <1>1, <1>2 DEF IInv, LifeIsInOrder, DispatchIsAuthorized
<1>. QED  BY <1>7, <1>8, <1>9, <1>10, <1>11 DEF IInv

\* A tick at the next step of its attempt's completion.
LEMMA FinishingKeeps ==
    ASSUME IInv, NEW w \in Worker, NEW step \in {"finalize", "complete"},
           tick[w].claim # 0, step = "finalize" => Finishing(tick[w]),
           step = "complete" => Completing(tick[w]), Move(w, At(tick[w], step))
    PROVE  IInv'
<1> DEFINE t == tick[w]
           u == At(t, step)
<1>1. KnowsItsClaim(u) /\ u.pc = step
  BY AtStep, AtKnows DEF ClaimSteps, Step
<1> HIDE DEF u
<1>2. ComesAfterTheRun(u)
  BY <1>1, AtStep DEF ComesAfterTheRun, Past, Finishing, Completing, Settling, Appends
<1>3. Good(u)
  BY <1>1, <1>2 DEF Good, AppendIsLegal, IsAuthorized, Approved, Appends
<1>. QED  BY <1>3, MoveKeeps DEF u, Announcer, Past

LEMMA CompletionKeeps ==
    ASSUME IInv, NEW w \in Worker,
           CheckHandoff(w) \/ Finalize(w) \/ CheckReady(w) \/ Complete(w) \/ Settle(w)
    PROVE  IInv'
<1> DEFINE t == tick[w]
<1>1. t.claim # 0 /\ t.pc # "send"
  BY AtStep DEF CheckHandoff, Finalize, CheckReady, Complete, Settle, ClaimSteps, Step
<1>2. \A type \in {"run-completed", "completed", "task-completed"} :
        NewEvent(type, 0) \in Event /\ NewEvent(type, 0).type = type
  BY NewEventType DEF AttemptEvent, TaskEvent
<1>3. CASE CheckHandoff(w)
  BY <1>1, <1>3, ReturnedGood, MoveKeeps, FinishingKeeps DEF CheckHandoff, Finishing
<1>4. CASE Finalize(w)
  BY <1>1, <1>2, <1>4, PrepareKeeps DEF Finalize, Finishing
<1>5. CASE CheckReady(w)
  BY <1>1, <1>5, ReturnedGood, MoveKeeps, FinishingKeeps DEF CheckReady, Completing
<1>6. CASE Complete(w)
  BY <1>1, <1>2, <1>6, PrepareKeeps DEF Complete, Completing
<1>7. CASE Settle(w)
  <2>1. Settling(t)
    BY <1>7 DEF Settle, Settling
  <2>. QED  BY <1>1, <1>2, <1>7, <2>1, IdleGood, MoveKeeps, PrepareKeeps DEF Settle
<1>. QED  BY <1>3, <1>4, <1>5, <1>6, <1>7

LEMMA RefusedKeeps ==
    ASSUME IInv, NEW w \in Worker, tick[w].pc = "send", Refused(w) PROVE IInv'
<1>1. tick[w].pending.type = "context-ready" => tick[w].claim # 0
  BY AtStep DEF KnowsItsClaim
<1>. QED  BY <1>1, AtStep, IdleGood, SuspendGood, MoveKeeps DEF Refused

----------------------------------------------------------------------------
(* Accepted appends.                                                       *)

\* Where an append, being number n, leaves a tick: at a step that its type tells,
\* and with a claim and a checkpoint that are in the log.
LandsAt(t, u) ==
    LET type == t.pending.type IN
    /\ u.pc \in Step \ {"send", "dispatch", "announce", "recheck", "handoff", "finalize", "complete"}
    /\ u.pc = "readback" <=> type = "claimed"
    /\ u.pc = "run" <=> type = "runner-dispatching"
    /\ u.pc = "ready" <=> type = "run-completed"
    /\ u.pc = "settle" <=> type = "completed"
    /\ u.pc = "readback" => u.plan = t.plan
    /\ u.pc = "claim" => u.plan = "recover"
    /\ u.pc = "inspect" => u.plan = "start"

LandsWith(t, u, n) ==
    /\ u \in TickType
    /\ u.seen = t.seen \/ u.seen = 0
    /\ \/ u.claim \in Claims(log) \union {0}
       \/ u.claim = n /\ t.pending.type = "claimed"
    /\ \/ u.checkpoint \in Of(log, {"approval-wait", "blocked"}) \union {0}
       \/ u.checkpoint = n /\ t.pending.type \in {"approval-wait", "blocked"}
    /\ u.pc = "idle" \/ u.claim # 0

LEMMA AppendedStep ==
    ASSUME IInv, NEW w \in Worker, tick[w].pc = "send", NEW n \in Nat \ {0}
    PROVE  /\ LandsAt(tick[w], Appended(tick[w], n))
           /\ LandsWith(tick[w], Appended(tick[w], n), n)
<1> DEFINE t == tick[w]
           u == Appended(t, n)
           type == t.pending.type
<1>1. /\ t \in TickType /\ KnowsItsClaim(t)
      /\ t.claim \in Claims(log) \union {0} /\ t.claim \in Nat
      /\ t.checkpoint \in Of(log, {"approval-wait", "blocked"}) \union {0}
      /\ type # "claimed" => t.claim # 0
  BY AtStep DEF KnowsItsClaim, TickType
<1>2. Idle.pending \in Event
  BY NewEventType DEF Idle, TaskEvent
<1>3. CASE type = "claimed"
  <2> DEFINE r == [At(t, "readback") EXCEPT !.claim = n]
  <2>1. u = r
    BY <1>3 DEF Appended
  <2>2. /\ r \in TickType /\ r.pc = "readback" /\ r.plan = t.plan /\ r.claim = n
        /\ r.seen = t.seen /\ r.checkpoint = t.checkpoint
    BY <1>1, <1>2 DEF At, TickType, Step
  <2> HIDE DEF r
  <2> HIDE DEF u
  <2>3. LandsAt(t, u)
    BY <1>3, <2>1, <2>2 DEF LandsAt, Step
  <2>4. LandsWith(t, u, n)
    BY <1>1, <1>3, <2>1, <2>2 DEF LandsWith
  <2>. QED  BY <2>3, <2>4 DEF u
<1>4. CASE type \in {"blocked", "approval-wait"}
  <2> DEFINE r == [At(t, "release") EXCEPT !.checkpoint = n]
  <2>1. u = r
    BY <1>4 DEF Appended
  <2>2. /\ r \in TickType /\ r.pc = "release" /\ r.plan = t.plan /\ r.claim = t.claim
        /\ r.seen = t.seen /\ r.checkpoint = n
    BY <1>1, <1>2 DEF At, TickType, Step
  <2> HIDE DEF r
  <2> HIDE DEF u
  <2>3. LandsAt(t, u)
    BY <1>4, <2>1, <2>2 DEF LandsAt, Step
  <2>4. LandsWith(t, u, n)
    BY <1>1, <1>4, <2>1, <2>2 DEF LandsWith
  <2>. QED  BY <2>3, <2>4 DEF u
<1>5. ASSUME NEW step \in {"claim", "inspect", "run", "ready", "settle"}, u = At(t, step),
             step = "claim" => t.plan = "recover" /\ type = "released",
             step = "inspect" => t.plan = "start" /\ type = "context-ready",
             step = "run" => type = "runner-dispatching",
             step = "ready" => type = "run-completed",
             step = "settle" => type = "completed"
      PROVE  LandsAt(t, u) /\ LandsWith(t, u, n)
  <2>1. /\ u \in TickType /\ u.pc = step /\ u.plan = t.plan /\ u.claim = t.claim
        /\ u.seen = t.seen /\ u.checkpoint = t.checkpoint
    BY <1>1, <1>5, AtType DEF Step
  <2> HIDE DEF u
  <2>2. LandsAt(t, u)
    BY <1>5, <2>1 DEF LandsAt, Step
  <2>3. LandsWith(t, u, n)
    BY <1>1, <1>5, <2>1 DEF LandsWith
  <2>. QED  BY <2>2, <2>3
<1>6. ASSUME u = Idle \/ \E c \in Claims(log) : u = Recovering(t, c),
             type \notin {"claimed", "runner-dispatching", "run-completed", "completed"}
      PROVE  LandsAt(t, u) /\ LandsWith(t, u, n)
  <2>1. \A c \in Claims(log) : c \in Nat /\ c # 0
    BY Events DEF IInv, WorldOK
  <2>2. /\ u \in TickType /\ u.pc \in {"idle", "release"} /\ u.seen = 0 /\ u.checkpoint = 0
        /\ u.claim \in Claims(log) \union {0} /\ (u.pc = "idle" \/ u.claim # 0)
    <3>1. CASE u = Idle
      BY <3>1, IdleType DEF IInv
    <3>2. CASE \E c \in Claims(log) : u = Recovering(t, c)
      <4>1. PICK c \in Claims(log) : u = Recovering(t, c)
        BY <3>2
      <4> HIDE DEF u
      <4>. QED  BY <1>1, <2>1, <4>1, RecoveringType
    <3>. QED  BY <1>6, <3>1, <3>2
  <2> HIDE DEF u
  <2>3. LandsAt(t, u)
    BY <1>6, <2>2 DEF LandsAt, Step
  <2>4. LandsWith(t, u, n)
    BY <2>2 DEF LandsWith
  <2>. QED  BY <2>3, <2>4
<1>7. CASE type = "released"
  <2>1. u = IF t.plan = "recover" THEN At(t, "claim") ELSE Returned(t)
    BY <1>7 DEF Appended
  <2>. QED  BY <1>5, <1>6, <1>7, <2>1, ReturnedGood
<1>8. CASE type = "context-ready"
  <2>1. u = IF t.plan = "start" THEN At(t, "inspect") ELSE Idle
    BY <1>8 DEF Appended
  <2>. QED  BY <1>5, <1>6, <1>8, <2>1
<1>9. CASE type \in {"runner-dispatching", "run-completed", "completed"}
  <2>1. u = At(t, IF type = "runner-dispatching" THEN "run"
                  ELSE IF type = "run-completed" THEN "ready" ELSE "settle")
    BY <1>9 DEF Appended
  <2>. QED  BY <1>5, <1>9, <2>1
<1>10. CASE type \in {"queued", "canceled", "task-completed"}
  <2>1. u = Returned(t)
    BY <1>10 DEF Appended
  <2>. QED  BY <1>6, <1>10, <2>1, ReturnedGood
<1>11. type \in TaskEvent \union AttemptEvent \union {"run-completed"}
  BY <1>1 DEF TickType, Event
<1>. QED  BY <1>3, <1>4, <1>7, <1>8, <1>9, <1>10, <1>11 DEF TaskEvent, AttemptEvent, Checkpoint

\* The announcer is the only tick there is of its kind, and there is none before
\* the runner is announced.
LEMMA NoOtherAnnouncer ==
    ASSUME IInv, NEW v \in Worker, Announcer(tick[v])
    PROVE  /\ Of(log, {"runner-dispatching"}) # {}
           /\ \A w \in Worker \ {v} : ~Announcer(tick[w])
BY AtStep DEF IInv, OneAnnouncer, LifeIsInOrder, Announcer, ComesAfterTheRun

LEMMA AcceptedKeeps ==
    ASSUME IInv, NEW w \in Worker, tick[w].pc = "send", Accepted(w) PROVE IInv'
<1> DEFINE t == tick[w]
           e == t.pending
           n == Len(log) + 1
           u == Appended(t, n)
<1>1. /\ log' = Append(log, e) /\ log \in Seq(Event) /\ e \in Event /\ t \in TickType
      /\ tick' = [tick EXCEPT ![w] = u] /\ Expected(t)
      /\ UNCHANGED <<runs, now, approved, asked, lapses, crashes, overlaps, most>>
  BY AtStep DEF Accepted, Become, world, bounds, IInv, WorldOK, TickType
<1>2. /\ n \in Nat \ {0} /\ Len(log') = n /\ log' \in Seq(Event)
      /\ \A types : /\ Of(log, types) \subseteq 1..Len(log)
                    /\ e.type \in types => Of(log', types) = Of(log, types) \union {n}
                    /\ e.type \notin types => Of(log', types) = Of(log, types)
  BY <1>1, Grown, GrownOf
<1>3. LandsAt(t, u) /\ LandsWith(t, u, n)
  BY <1>2, AppendedStep
<1> HIDE DEF u, n
<1>4. tick'[w] = u /\ \A v \in Worker \ {w} : tick'[v] = tick[v]
  BY <1>1 DEF IInv
<1>5. Good(t) /\ AppendIsLegal(t) /\ IsAuthorized(t) /\ ComesAfterTheRun(t) /\ KnowsItsClaim(t)
  BY AtStep DEF Good
<1>6. e.type = "runner-dispatching" =>
        /\ Of(log, {"runner-dispatching"}) = {} /\ runs = 0
        /\ EverApproved /\ Of(log, {"context-ready"}) # {}
        /\ \A v \in Worker : ~Announcer(tick[v])
  <2>1. SUFFICES ASSUME e.type = "runner-dispatching"
                 PROVE  /\ Of(log, {"runner-dispatching"}) = {} /\ runs = 0
                        /\ EverApproved /\ Of(log, {"context-ready"}) # {}
                        /\ \A v \in Worker : ~Announcer(tick[v])
    OBVIOUS
  <2>2. Appends(t, {"runner-dispatching"})
    BY <2>1 DEF Appends
  <2>3. Of(log, {"runner-dispatching"}) = {}
    BY <1>1, <1>5, <2>2 DEF AppendIsLegal
  <2>. QED  BY <1>5, <2>2, <2>3, NoOtherAnnouncer
            DEF IInv, LifeIsInOrder, IsAuthorized, Approved
<1>7. /\ e.type = "run-completed" <=> Appends(t, {"run-completed"})
      /\ e.type = "completed" <=> Appends(t, {"completed"})
      /\ e.type = "task-completed" <=> Appends(t, {"task-completed"})
  BY DEF Appends
<1>8. /\ e.type = "run-completed" => runs = 1 /\ Of(log, {"run-completed"}) = {}
      /\ e.type = "completed" =>
            runs = 1 /\ Of(log, {"run-completed"}) # {} /\ Of(log, {"completed"}) = {}
      /\ e.type = "task-completed" => runs = 1 /\ Of(log, {"completed"}) # {}
  BY <1>5, <1>7 DEF ComesAfterTheRun, Past, Finishing, Completing, Settling
<1>9. e.type \in {"run-completed", "completed", "task-completed"} =>
        \A v \in Worker \ {w} : ~Announcer(tick[v])
  BY <1>7, NoOtherAnnouncer DEF Announcer, Past, Finishing, Completing, Settling
<1>10. LifeIsInOrder'
  BY <1>1, <1>2, <1>6, <1>8 DEF IInv, LifeIsInOrder
<1>11. DispatchIsAuthorized'
  <2>1. SUFFICES ASSUME NEW d \in Of(log', {"runner-dispatching"})
                 PROVE  (\E k \in Of(log', {"context-ready"}) : k < d) /\ EverApproved'
    BY DEF DispatchIsAuthorized, EverApproved
  <2>2. Of(log, {"context-ready"}) \subseteq Of(log', {"context-ready"})
    BY <1>2
  <2>3. EverApproved' <=> EverApproved
    BY <1>1 DEF EverApproved
  <2>4. CASE d \in Of(log, {"runner-dispatching"})
    BY <2>2, <2>3, <2>4 DEF IInv, DispatchIsAuthorized, EverApproved
  <2>5. CASE d \notin Of(log, {"runner-dispatching"})
    <3>1. e.type = "runner-dispatching" /\ d = n
      BY <1>2, <2>5
    <3>2. \A k \in Of(log, {"context-ready"}) : k < n
      BY <1>1, <1>2, Events DEF n
    <3>. QED  BY <1>6, <2>2, <2>3, <3>1, <3>2
  <2>. QED  BY <2>4, <2>5
<1>12. OneAnnouncer'
  <2>1. \A v \in Worker \ {w} : Announcer(tick[v])' => Announcer(tick[v])
    BY <1>4 DEF Announcer, Past, Finishing, Completing, Settling, Appends
  <2>2. Announcer(tick[w])' => \A v \in Worker \ {w} : ~Announcer(tick[v])
    <3>1. Announcer(tick[w])' => u.pc \in {"run", "ready", "settle"}
      BY <1>3, <1>4 DEF Announcer, Past, Finishing, Completing, Settling, Appends, LandsAt
    <3>. QED  BY <1>3, <1>6, <1>9, <3>1 DEF LandsAt
  <2>3. \A v, x \in Worker : Announcer(tick[v]) /\ Announcer(tick[x]) => v = x
    BY DEF IInv, OneAnnouncer
  <2>. QED  BY <2>1, <2>2, <2>3 DEF OneAnnouncer
<1>13. KnowsItsClaim(tick[w])'
  <2>1. u \in TickType' /\ u.seen <= Len(log')
    BY <1>1, <1>2, <1>3, <1>5 DEF LandsWith, TickType, KnowsItsClaim, n
  <2>2. u.claim \in Claims(log') \union {0}
    BY <1>2, <1>3 DEF LandsWith, Claims
  <2>3. u.checkpoint \in Of(log', {"approval-wait", "blocked"}) \union {0}
    BY <1>2, <1>3 DEF LandsWith
  <2>. QED  BY <1>3, <1>4, <2>1, <2>2, <2>3 DEF KnowsItsClaim, LandsAt, LandsWith, ClaimSteps
<1>14. AppendIsLegal(tick[w])'
  BY <1>3, <1>4 DEF LandsAt, AppendIsLegal, Appends
<1>15. IsAuthorized(tick[w])'
  BY <1>1, <1>3, <1>4, <1>5 DEF LandsAt, IsAuthorized, Approved, Appends, EverApproved
<1>16. ComesAfterTheRun(tick[w])'
  <2>1. Of(log, {"run-completed"}) = {} => Of(log, {"completed"}) = {}
    BY DEF IInv, LifeIsInOrder
  <2>2. Of(log, {"completed"}) = {} => Of(log, {"task-completed"}) = {}
    BY DEF IInv, LifeIsInOrder
  <2>. QED  BY <1>1, <1>2, <1>3, <1>4, <1>6, <1>8, <2>1, <2>2
            DEF LandsAt, ComesAfterTheRun, Past, Finishing, Completing, Settling, Appends
<1>17. \A v \in Worker : Good(tick[v])'
  BY <1>1, <1>4, <1>9, <1>13, <1>14, <1>15, <1>16, OthersAppend DEF Good
<1>18. WorldOK' /\ tick' \in [Worker -> TickType']
  BY <1>1, <1>2, <1>3 DEF IInv, WorldOK, TickType, LandsWith
<1>. QED  BY <1>10, <1>11, <1>12, <1>17, <1>18 DEF IInv

----------------------------------------------------------------------------
(* Everything else a step can be.                                          *)

\* The tick is put at a plain step, and bounds are used up.
LEMMA StartOrCrashKeeps ==
    ASSUME IInv, NEW w \in Worker, StartTick(w) \/ Crash(w) PROVE IInv'
<1> DEFINE begun == [Idle EXCEPT !.pc = "snapshot", !.at = now]
<1>1. PICK u : (u = Idle \/ u = begun) /\ tick' = [tick EXCEPT ![w] = u]
  BY DEF StartTick, Crash, Become
<1>2. UNCHANGED <<log, now, approved, asked, lapses, runs, most>> /\ WorldOK'
  BY OrchestratorAssumption DEF StartTick, Crash, IInv, WorldOK
<1>3. Idle \in TickType /\ Idle.claim = 0 /\ Idle.checkpoint = 0 /\ Idle.seen = 0
  BY IdleType DEF IInv
<1>4. /\ begun \in TickType /\ begun.pc = "snapshot" /\ begun.claim = 0
      /\ begun.checkpoint = 0 /\ begun.seen = 0 /\ begun.plan = Idle.plan
  BY <1>3 DEF IInv, WorldOK, TickType, Step
<1> HIDE DEF begun
<1>5. KnowsItsClaim(begun) /\ Plain(begun)
  BY <1>4 DEF KnowsItsClaim, Plain, ClaimSteps, Step, IInv, WorldOK
<1>6. Good(u) /\ ~Announcer(u) /\ u \in TickType
  BY <1>1, <1>4, <1>3, <1>5, IdleGood, PlainGood
<1>7. tick'[w] = u /\ \A v \in Worker \ {w} : tick'[v] = tick[v]
  BY <1>1 DEF IInv
<1>8. \A v \in Worker : Good(tick[v])'
  BY <1>2, <1>6, <1>7, SetGood, KeepGood DEF IInv, EverApproved
<1>9. OneAnnouncer'
  BY <1>6, <1>7 DEF IInv, OneAnnouncer, Announcer, Past, Finishing, Completing, Settling, Appends
<1>10. tick' \in [Worker -> TickType'] /\ LifeIsInOrder' /\ DispatchIsAuthorized'
  BY <1>1, <1>2, <1>6 DEF IInv, TickType, LifeIsInOrder, DispatchIsAuthorized
<1>. QED  BY <1>2, <1>8, <1>9, <1>10 DEF IInv

\* What a person does, and the clock.
LEMMA WorldKeeps ==
    ASSUME IInv, AskCancel \/ Approve \/ Lapse \/ Advance \/ UNCHANGED vars PROVE IInv'
<1>1. UNCHANGED <<log, runs, tick, most>> /\ (EverApproved => EverApproved')
  BY OrchestratorAssumption
     DEF AskCancel, Approve, Lapse, Advance, vars, bounds, EverApproved, IInv, WorldOK
<1>2. WorldOK'
  <2>1. most.time \in Nat /\ most.lapses \in Nat
    BY OrchestratorAssumption DEF IInv, WorldOK
  <2>2. WorldOK
    BY DEF IInv
  <2>3. UNCHANGED <<crashes, overlaps>> /\ approved' \in BOOLEAN /\ asked' \in BOOLEAN
    BY <2>2 DEF AskCancel, Approve, Lapse, Advance, vars, bounds, WorldOK
  <2>4. now' \in 0..most.time
    <3>1. now' = now \/ (now < most.time /\ now' = now + 1)
      BY DEF AskCancel, Approve, Lapse, Advance, vars
    <3>. QED  BY <2>1, <2>2, <3>1 DEF WorldOK
  <2>5. lapses' \in 0..most.lapses
    <3>1. lapses' = lapses \/ (lapses < most.lapses /\ lapses' = lapses + 1)
      BY DEF AskCancel, Approve, Lapse, Advance, vars, bounds
    <3>. QED  BY <2>1, <2>2, <3>1 DEF WorldOK
  <2>. QED  BY <1>1, <2>2, <2>3, <2>4, <2>5 DEF WorldOK
<1>3. \A v \in Worker : Good(tick[v])'
  BY <1>1, KeepGood DEF IInv
<1>4. OneAnnouncer' /\ tick' \in [Worker -> TickType'] /\ LifeIsInOrder'
  BY <1>1 DEF IInv, OneAnnouncer, Announcer, Past, Finishing, Completing, Settling, Appends,
              TickType, LifeIsInOrder
<1>5. DispatchIsAuthorized'
  BY <1>1 DEF IInv, DispatchIsAuthorized, EverApproved
<1>. QED  BY <1>2, <1>3, <1>4, <1>5 DEF IInv

LEMMA CancelKeeps == ASSUME IInv, Cancel PROVE IInv'
<1> DEFINE e == NewEvent("canceled", 0)
<1>1. e \in Event /\ e.type = "canceled"
  BY NewEventType DEF TaskEvent
<1>2. /\ log' = Append(log, e) /\ log \in Seq(Event)
      /\ UNCHANGED <<now, approved, runs, tick, lapses, crashes, overlaps, most>>
  BY DEF Cancel, bounds, IInv, WorldOK
<1> HIDE DEF e
<1>3. WorldOK'
  BY <1>1, <1>2, Grown DEF Cancel, IInv, WorldOK
<1>4. \A v \in Worker : Good(tick[v])'
  BY <1>1, <1>2, OthersAppend DEF IInv
<1>5. \A type \in {"runner-dispatching", "run-completed", "completed", "task-completed",
                   "context-ready"} : Of(log', {type}) = Of(log, {type})
  BY <1>1, <1>2, GrownOf
<1>6. OneAnnouncer' /\ tick' \in [Worker -> TickType'] /\ LifeIsInOrder' /\ DispatchIsAuthorized'
  BY <1>2, <1>5 DEF IInv, OneAnnouncer, Announcer, Past, Finishing, Completing, Settling,
                    Appends, TickType, LifeIsInOrder, DispatchIsAuthorized
<1>. QED  BY <1>3, <1>4, <1>6 DEF IInv

LEMMA InitInv == Init => IInv
<1> SUFFICES ASSUME Init PROVE IInv
  OBVIOUS
<1> DEFINE first == NewEvent("queued", 0)
<1>1. first \in Event /\ first.type = "queued"
  BY NewEventType DEF TaskEvent
<1>2. log = <<first>> /\ log \in Seq(Event) /\ Len(log) = 1
  BY <1>1 DEF Init
<1>3. \A types : "queued" \notin types => Of(log, types) = {}
  BY <1>1, <1>2 DEF Of
<1>4. WorldOK
  <2>1. most \in Bounds /\ most.time \in Nat /\ most.lapses \in Nat /\ most.crashes \in Nat
        /\ most.overlaps \in Nat
    BY OrchestratorAssumption DEF Init
  <2>2. now = 0 /\ lapses = 0 /\ crashes = 0 /\ overlaps = 0
    BY DEF Init
  <2>3. approved \in BOOLEAN /\ asked \in BOOLEAN
    BY DEF Init
  <2>. QED  BY <1>2, <2>1, <2>2, <2>3 DEF WorldOK
<1>5. /\ Idle \in TickType /\ Idle.pc = "idle" /\ Idle.claim = 0 /\ Idle.checkpoint = 0
      /\ Idle.seen = 0 /\ Idle.plan = "none"
  BY <1>4, IdleType
<1>6. KnowsItsClaim(Idle) /\ Plain(Idle)
  BY <1>2, <1>5 DEF KnowsItsClaim, Plain, ClaimSteps, Step
<1>7. Good(Idle) /\ ~Announcer(Idle)
  BY <1>5, <1>6, PlainGood
<1>8. \A w \in Worker : tick[w] = Idle
  BY DEF Init
<1>9. LifeIsInOrder /\ DispatchIsAuthorized
  BY <1>3 DEF Init, LifeIsInOrder, DispatchIsAuthorized
<1>10. tick \in [Worker -> TickType]
  BY <1>5 DEF Init
<1>. QED  BY <1>4, <1>7, <1>8, <1>9, <1>10 DEF IInv, OneAnnouncer

LEMMA NextInv == IInv /\ [Next]_vars => IInv'
<1> SUFFICES ASSUME IInv, [Next]_vars PROVE IInv'
  OBVIOUS
<1>1. ASSUME NEW w \in Worker, Progress(w) PROVE IInv'
  BY <1>1, DecideKeeps, ClaimKeeps, ReadbackKeeps, RecheckKeeps, AssembleContextKeeps,
     InspectKeeps, SuspendKeeps, FindContextKeeps, AnnounceKeeps, RunKeeps,
     CompletionKeeps, RefusedKeeps, AcceptedKeeps DEF Progress, Send
<1>. QED  BY <1>1, StartOrCrashKeeps, WorldKeeps, CancelKeeps DEF Next

----------------------------------------------------------------------------
(* The theorems of any ticks.                                              *)

\* The inductive invariant holds in every state.
THEOREM InvariantHolds == Spec => []IInv
BY InitInv, NextInv, PTL DEF Spec

LEMMA InvTypes == IInv => TypeOK
<1> SUFFICES ASSUME IInv PROVE TypeOK
  OBVIOUS
<1>1. runs \in Nat
  BY DEF IInv, LifeIsInOrder
<1>2. \A w \in Worker : KnowsItsClaim(tick[w])
  BY DEF IInv, Good
<1>. QED  BY <1>1, <1>2 DEF IInv, WorldOK, TickType, KnowsItsClaim, TypeOK

LEMMA InvOneRunner == IInv => OneRunner
<1> SUFFICES ASSUME IInv PROVE OneRunner
  OBVIOUS
<1> DEFINE D == Of(log, {"runner-dispatching"})
<1>1. (\A i, j \in D : i = j) /\ runs \in {0, 1} /\ (runs = 1 => D # {})
  BY DEF IInv, LifeIsInOrder
<1>2. CASE D = {}
  BY <1>1, <1>2, FS_EmptySet DEF OneRunner
<1>3. CASE D # {}
  <2>1. PICK d \in D : D = {d}
    BY <1>1, <1>3
  <2>2. Cardinality(D) = 1
    BY <2>1, FS_Singleton
  <2>. QED  BY <1>1, <2>2 DEF OneRunner
<1>. QED  BY <1>2, <1>3

\* However ticks overlap, are refused or die, each works on a claim of the log,
\* and the runner is announced at most once and dispatched at most once
\* (appendRunnerDispatchingCheckpoint).
THEOREM TicksSound == Spec => []TicksAreSound
<1>1. IInv => TicksAreSound
  BY InvTypes, InvOneRunner DEF TicksAreSound
<1>. QED  BY <1>1, InvariantHolds, PTL

\* A runner is announced only after its context was checkpointed, and for a
\* transfer that was approved (dispatchApprovedRunner).
THEOREM DispatchAuthorized == Spec => []DispatchIsAuthorized
<1>1. IInv => DispatchIsAuthorized
  BY DEF IInv
<1>. QED  BY <1>1, InvariantHolds, PTL

----------------------------------------------------------------------------
(* The refinement: what a person sees of the attempt is what TaskAttempt    *)
(* promises.                                                               *)

\* The status of a task is its last event's.
LEMMA StatusGrows ==
    ASSUME NEW s \in Seq(Event), NEW e \in Event, NEW type
    PROVE  /\ e.type \in TaskEvent => (StatusIs(Append(s, e), type) <=> e.type = type)
           /\ e.type \notin TaskEvent => (StatusIs(Append(s, e), type) <=> StatusIs(s, type))
           /\ StatusIs(s, type) => Of(s, {type}) # {}
<1> DEFINE n == Len(s) + 1
<1>1. /\ Append(s, e)[n] = e /\ n \in Nat
      /\ \A i \in 1..Len(s) : Append(s, e)[i] = s[i] /\ i < n
      /\ Of(s, TaskEvent) \subseteq 1..Len(s)
  BY Grown, GrownOf
<1>2. CASE e.type \in TaskEvent
  <2>1. Of(Append(s, e), TaskEvent) = Of(s, TaskEvent) \union {n}
    BY <1>2, GrownOf
  <2>2. Last(Of(Append(s, e), TaskEvent)) = {n}
    BY <1>1, <2>1 DEF Last
  <2>. QED  BY <1>1, <1>2, <2>2, Events DEF StatusIs, Last, Of
<1>3. CASE e.type \notin TaskEvent
  <2>1. Of(Append(s, e), TaskEvent) = Of(s, TaskEvent)
    BY <1>3, GrownOf
  <2>. QED  BY <1>1, <1>3, <2>1 DEF StatusIs, Last, Of
<1>. QED  BY <1>2, <1>3

LEMMA AcceptedMaps ==
    ASSUME IInv, NEW w \in Worker, tick[w].pc = "send", Accepted(w)
    PROVE  [Abstract!Next]_Abstract!vars
<1> DEFINE t == tick[w]
           e == t.pending
<1>1. /\ log' = Append(log, e) /\ log \in Seq(Event) /\ e \in Event /\ runs' = runs
      /\ Expected(t) /\ AppendIsLegal(t) /\ ComesAfterTheRun(t)
  BY AtStep DEF Accepted, IInv, WorldOK, TickType, Good
<1>2. \A types : /\ e.type \in types => Of(log', types) # {}
                 /\ e.type \notin types => Of(log', types) = Of(log, types)
  BY <1>1, GrownOf
<1>3. e.type \notin {"queued", "canceled"}
  BY <1>1 DEF AppendIsLegal, Appends
<1>4. e.type # "task-completed" => Task' = Task
  BY <1>1, <1>3, StatusGrows DEF Task, TaskEvent
<1>5. LifeIsInOrder
  BY DEF IInv
<1>6. CASE e.type = "runner-dispatching"
  <2>1. Of(log, {"runner-dispatching"}) = {}
    BY <1>1, <1>6 DEF AppendIsLegal, Appends
  <2>2. Attempt = "open"
    BY <1>5, <2>1 DEF LifeIsInOrder, Attempt
  <2>3. Attempt' = "dispatched"
    BY <1>2, <1>5, <1>6, <2>1 DEF LifeIsInOrder, Attempt
  <2>. QED  BY <1>1, <1>4, <1>6, <2>2, <2>3 DEF Abstract!Next, Abstract!Announce, Abstract!Reach
<1>7. CASE e.type = "run-completed"
  <2>1. Finishing(t)
    BY <1>7 DEF Finishing, Appends
  <2>2. runs = 1 /\ Of(log, {"run-completed"}) = {}
    BY <1>1, <2>1 DEF ComesAfterTheRun, Past
  <2>3. Attempt = "dispatched" /\ Attempt' = "finalized"
    BY <1>2, <1>5, <1>7, <2>2 DEF LifeIsInOrder, Attempt
  <2>. QED  BY <1>1, <1>4, <1>7, <2>2, <2>3 DEF Abstract!Next, Abstract!Finalize, Abstract!Reach
<1>8. CASE e.type = "completed"
  <2>1. Completing(t)
    BY <1>8 DEF Completing, Appends
  <2>2. Of(log, {"run-completed"}) # {} /\ Of(log, {"completed"}) = {}
    BY <1>1, <2>1 DEF ComesAfterTheRun
  <2>3. Attempt = "finalized" /\ Attempt' = "completed"
    BY <1>2, <1>8, <2>2 DEF Attempt
  <2>. QED  BY <1>1, <1>4, <1>8, <2>3 DEF Abstract!Next, Abstract!Complete, Abstract!Reach
<1>9. CASE e.type = "task-completed"
  <2>1. Settling(t) /\ Appends(t, {"task-completed"})
    BY <1>9 DEF Settling, Appends
  <2>2. /\ Of(log, {"completed"}) # {} /\ Of(log, {"task-completed"}) = {}
        /\ Of(log, {"canceled"}) = {}
    BY <1>1, <2>1 DEF ComesAfterTheRun, AppendIsLegal
  <2>3. Attempt = "completed" /\ Attempt' = "completed"
    BY <1>2, <1>9, <2>2 DEF Attempt
  <2>4. Task = "queued"
    BY <1>1, <2>2, StatusGrows DEF Task
  <2>5. Task' = "completed"
    BY <1>1, <1>9, StatusGrows DEF Task, TaskEvent
  <2>. QED  BY <1>1, <2>3, <2>4, <2>5 DEF Abstract!Next, Abstract!Settle
<1>10. CASE e.type \notin {"runner-dispatching", "run-completed", "completed", "task-completed"}
  <2>1. Attempt' = Attempt
    BY <1>2, <1>10 DEF Attempt
  <2>. QED  BY <1>1, <1>4, <1>10, <2>1 DEF Abstract!vars
<1>. QED  BY <1>6, <1>7, <1>8, <1>9, <1>10

LEMMA CancelMaps == ASSUME IInv, Cancel PROVE [Abstract!Next]_Abstract!vars
<1> DEFINE e == NewEvent("canceled", 0)
<1>1. e \in Event /\ e.type = "canceled" /\ log' = Append(log, e) /\ log \in Seq(Event)
      /\ runs' = runs
  BY NewEventType DEF Cancel, IInv, WorldOK, TaskEvent
<1> HIDE DEF e
<1>2. Task' = "canceled"
  <2>1. StatusIs(log', "canceled") /\ ~StatusIs(log', "task-completed")
    BY <1>1, StatusGrows DEF TaskEvent
  <2>. QED  BY <2>1 DEF Task
<1>3. Attempt' = Attempt
  <2>1. \A type \in {"completed", "run-completed", "runner-dispatching"} :
            Of(log', {type}) = Of(log, {type})
    BY <1>1, GrownOf
  <2>. QED  BY <2>1 DEF Attempt
<1>4. Task \in {"queued", "completed", "canceled"}
  BY DEF Task
<1>. QED  BY <1>1, <1>2, <1>3, <1>4 DEF Abstract!Next, Abstract!Settle, Abstract!vars

LEMMA RunMaps == ASSUME IInv, NEW w \in Worker, Run(w) PROVE [Abstract!Next]_Abstract!vars
<1>1. tick[w].pc = "run" /\ log' = log /\ runs' = runs + 1
  BY DEF Run
<1>2. runs = 0 /\ Attempt = "dispatched"
  BY <1>1, AtStep DEF ComesAfterTheRun, IInv, LifeIsInOrder, Attempt
<1>3. Attempt' = Attempt /\ Task' = Task
  BY <1>1 DEF Attempt, Task
<1>. QED  BY <1>1, <1>2, <1>3 DEF Abstract!Next, Abstract!Run

LEMMA StillMaps ==
    ASSUME UNCHANGED <<log, runs>> PROVE [Abstract!Next]_Abstract!vars
BY DEF Abstract!vars, Task, Attempt

LEMMA StepsMap == IInv /\ [Next]_vars => [Abstract!Next]_Abstract!vars
<1> SUFFICES ASSUME IInv, [Next]_vars PROVE [Abstract!Next]_Abstract!vars
  OBVIOUS
<1>1. ASSUME NEW w \in Worker, Progress(w) PROVE [Abstract!Next]_Abstract!vars
  <2>1. CASE Run(w)
    BY <2>1, RunMaps
  <2>2. CASE Send(w) /\ Accepted(w)
    BY <2>2, AcceptedMaps DEF Send
  <2>3. CASE ~Run(w) /\ ~(Send(w) /\ Accepted(w))
    <3>1. (\E t : Move(w, t)) => UNCHANGED <<log, runs>>
      BY DEF Move
    <3>2. (\E e : Prepare(w, e)) => UNCHANGED <<log, runs>>
      BY DEF Prepare, Move
    <3>3. UNCHANGED <<log, runs>>
      BY <1>1, <2>3, <3>1, <3>2
      DEF Progress, Send, Refused, Decide, HandleCancellation, HandleWait, HandleActive,
          HandleStale, HandleCandidate, NothingToDo, Claim, Readback, NotOwned, Owned,
          Recheck, AssembleContext, Inspect, InspectApproved, InspectWaiting, Wait, Block,
          Release, FindContext, Announce, CheckHandoff, Finalize, CheckReady, Complete, Settle
    <3>. QED  BY <3>3, StillMaps
  <2>. QED  BY <2>1, <2>2, <2>3
<1>2. ASSUME NEW w \in Worker, StartTick(w) \/ Crash(w) PROVE [Abstract!Next]_Abstract!vars
  BY <1>2, StillMaps DEF StartTick, Crash
<1>3. CASE AskCancel \/ Approve \/ Lapse \/ Advance \/ UNCHANGED vars
  BY <1>3, StillMaps DEF AskCancel, Approve, Lapse, Advance, vars
<1>. QED  BY <1>1, <1>2, <1>3, CancelMaps DEF Next

\* Overlapping, canceled and dying ticks implement the life of one attempt: one
\* dispatch, one run, one completion, and a task that is completed only after its
\* attempt was, and never once it was canceled.
THEOREM Implements == Spec => ImplementsTaskAttempt
<1>1. Init => Abstract!Init
  <2> SUFFICES ASSUME Init PROVE Abstract!Init
    OBVIOUS
  <2>1. log = <<NewEvent("queued", 0)>> /\ runs = 0
    BY DEF Init
  <2>2. \A types : "queued" \notin types => Of(log, types) = {}
    BY <2>1, NewEventType DEF Of, TaskEvent
  <2>3. Attempt = "open"
    BY <2>2 DEF Attempt
  <2>4. \A type : type # "queued" => ~StatusIs(log, type)
    BY <2>1, NewEventType DEF StatusIs, Last, Of, TaskEvent
  <2>. QED  BY <2>1, <2>3, <2>4 DEF Abstract!Init, Task
<1>. QED  BY <1>1, InvariantHolds, StepsMap, PTL
          DEF Spec, ImplementsTaskAttempt, Abstract!Spec

----------------------------------------------------------------------------
(* Ticks that do not overlap.                                              *)

\* A claim is released or has expired.
IsFree(c, t) == IsReleased(log, c) \/ log[c].expires <= t

AllFree(t) == \A c \in Claims(log) : IsFree(c, t)

IsLastClaim(c, k) == c \in Claims(log) /\ c < k /\ \A d \in Claims(log) : d < k => d <= c

\* A release is of an earlier claim and names an earlier checkpoint.  When that
\* is a wait, the claim is the last one before the wait.
ReleasesLookBack ==
    \A r \in Of(log, {"released"}) :
        /\ log[r].claim \in Claims(log) /\ log[r].claim < r
        /\ log[r].checkpoint < r
        /\ log[r].checkpoint \in Of(log, {"approval-wait"}) =>
               IsLastClaim(log[r].claim, log[r].checkpoint)

WaitsAreOfTheLastClaim ==
    \A k \in Of(log, {"approval-wait"}) : \E c \in Claims(log) :
        IsLastClaim(c, k) /\ log[c].gen = log[k].gen

ClaimsExpireInOrder ==
    \A c, d \in Claims(log) :
        c < d => \/ log[c].expires <= log[d].expires - Lease
                 \/ \E r \in Of(log, {"released"}) : r < d /\ log[r].claim = c

\* The claims that are not released have rising generations.
GenerationsRise ==
    \A c, d \in Claims(log) :
        c < d => IsReleased(log, c) \/ IsReleased(log, d) \/ log[c].gen < log[d].gen

EveryWaitIsOver ==
    \A k \in Of(log, {"approval-wait"}) : \E d \in Of(log, {"runner-dispatching"}) : k < d

LogTakesTurns ==
    /\ ReleasesLookBack
    /\ WaitsAreOfTheLastClaim
    /\ ClaimsExpireInOrder
    /\ GenerationsRise
    /\ Of(log, {"completed"}) # {} => EveryWaitIsOver

\* The tick is about to claim, after what it found out.
Claiming(t) == t.pc = "claim" \/ Appends(t, {"claimed"})
Recovers(t) == t.plan = "recover" /\ (t.pc = "release" \/ Appends(t, {"released"}))
Resumes(t) == t.plan = "resume" /\ t.pc \in {"inspect", "claim"}

\* The tick works on the claim before the context and the approval.
Suspends(t) ==
    \/ t.pc \in {"context", "wait"} \/ (t.plan # "resume" /\ t.pc = "inspect")
    \/ Appends(t, {"approval-wait", "context-ready"})

Releases(t) == t.pc = "release" \/ Appends(t, {"released"})

\* No claim expires later than one that the tick would make.
KeepsTime(t) == t.at <= now /\ \A c \in Claims(log) : log[c].expires <= t.at + Lease

\* The tick claims the attempt when no claim of it is held, with the highest
\* generation.
ClaimsInTurn(t) ==
    /\ Claiming(t) \/ Recovers(t) \/ (Resumes(t) /\ ResumedClaim(t) = {}) => AllFree(t.at)
    /\ t.plan = "start" /\ (Claiming(t) \/ t.pc = "readback") => Of(log, {"completed"}) = {}
    /\ t.plan = "start" /\ Claiming(t) => Claims(log) = {}
    /\ Recovers(t) \/ (t.plan = "recover" /\ t.pc = "claim") =>
          \A d \in Claims(log) : IsReleased(log, d) \/ log[d].gen <= log[t.claim].gen
    /\ Resumes(t) => \A c \in Claims(log) : c <= t.seen
    /\ Appends(t, {"claimed"}) =>
          /\ t.pending.expires = t.at + Lease
          /\ \A d \in Claims(log) : IsReleased(log, d) \/ log[d].gen < t.pending.gen

\* A tick that recovers a claim does nothing else, and one that continues a live
\* claim has no other to recover.
KeepsToItsPlan(t) ==
    /\ t.plan = "recover" => t.checkpoint = 0 /\ (Claiming(t) \/ Releases(t) \/ t.pc = "readback")
    /\ t.plan = "continue" => Recoverable(Snapshot(t), t.at) = {}

\* It suspends the attempt for the last claim, and releases the one it suspended.
SuspendsTheLastClaim(t) ==
    /\ Suspends(t) => Of(log, {"completed"}) = {} /\ \A d \in Claims(log) : d <= t.claim
    /\ Appends(t, {"approval-wait"}) => t.pending.gen = log[t.claim].gen
    /\ t.checkpoint # 0 => Releases(t)
    /\ t.checkpoint \in Of(log, {"approval-wait"}) => IsLastClaim(t.claim, t.checkpoint)
    /\ Appends(t, {"released"}) =>
          t.pending.claim = t.claim /\ t.pending.checkpoint = t.checkpoint

TakesItsTurn(t) ==
    /\ KeepsTime(t)
    /\ ClaimsInTurn(t)
    /\ KeepsToItsPlan(t)
    /\ SuspendsTheLastClaim(t)
    /\ Announcer(t) => EveryWaitIsOver

OneTick == \A v, w \in Worker : tick[v].pc # "idle" /\ tick[w].pc # "idle" => v = w

Turns ==
    /\ OneTick
    /\ LogTakesTurns
    /\ \A c \in Claims(log) : log[c].expires <= now + Lease
    /\ \A w \in Worker : tick[w].pc # "idle" => TakesItsTurn(tick[w])

\* The inductive invariant of ticks that do not overlap.
TurnInv == most.overlaps = 0 => Turns

\* What a tick does to itself leaves its turn as it was, if the log stays.
LEMMA SetTurn ==
    ASSUME NEW w \in Worker, NEW t, TakesItsTurn(t), tick'[w] = t, UNCHANGED log,
           now <= now', t.at \in Int, now \in Int, now' \in Int
    PROVE  TakesItsTurn(tick[w])'
<1>1. KeepsTime(tick[w])'
  BY DEF TakesItsTurn, KeepsTime
<1>2. ClaimsInTurn(tick[w])'
  BY DEF TakesItsTurn, ClaimsInTurn, Claiming, Recovers, Resumes, Appends, ResumedClaim,
         Snapshot, AllFree, IsFree
<1>3. KeepsToItsPlan(tick[w])'
  BY DEF TakesItsTurn, KeepsToItsPlan, Claiming, Releases, Appends, Snapshot
<1>4. SuspendsTheLastClaim(tick[w])'
  BY DEF TakesItsTurn, SuspendsTheLastClaim, Suspends, Releases, Appends, IsLastClaim
<1>5. Announcer(tick[w])' => EveryWaitIsOver'
  BY DEF TakesItsTurn, EveryWaitIsOver, Announcer, Past, Finishing, Completing, Settling, Appends
<1>. QED  BY <1>1, <1>2, <1>3, <1>4, <1>5 DEF TakesItsTurn

LEMMA LogStays == ASSUME LogTakesTurns, UNCHANGED log PROVE LogTakesTurns'
BY DEF LogTakesTurns, ReleasesLookBack, WaitsAreOfTheLastClaim, ClaimsExpireInOrder,
       GenerationsRise, EveryWaitIsOver, IsLastClaim

\* The one tick that is under way takes a step that only changes what it is doing.
LEMMA TurnMoves ==
    ASSUME IInv, Turns, NEW w \in Worker, tick[w].pc # "idle", NEW u, u \in TickType,
           u.pc # "idle" => TakesItsTurn(u), UNCHANGED <<log, now>>,
           tick' = [tick EXCEPT ![w] = u]
    PROVE  Turns'
<1>1. tick'[w] = u /\ \A v \in Worker \ {w} : tick'[v] = tick[v]
  BY DEF IInv
<1>2. OneTick'
  BY <1>1 DEF Turns, OneTick
<1>3. LogTakesTurns' /\ (\A c \in Claims(log) : log[c].expires <= now + Lease)'
  BY LogStays DEF Turns
<1>4. u.at \in Int /\ now \in Int
  BY OrchestratorAssumption DEF IInv, WorldOK, TickType
<1>5. u.pc # "idle" => TakesItsTurn(tick[w])'
  BY <1>1, <1>4, SetTurn
<1>6. ASSUME NEW v \in Worker \ {w}, tick'[v].pc # "idle" PROVE TakesItsTurn(tick[v])'
  <2>1. FALSE
    BY <1>1, <1>6 DEF Turns, OneTick
  <2>. QED  BY <2>1
<1>. QED  BY <1>1, <1>2, <1>3, <1>5, <1>6 DEF Turns

\* A tick that goes on to a step with no duty to the other claims.
LEMMA FreeTurn ==
    ASSUME IInv, NEW t, TakesItsTurn(t), NEW u, u.at = t.at, u.seen = t.seen, u.checkpoint = 0,
           u.plan \in {t.plan, "suspend", "cancel"}, u.plan # "recover",
           u.pc \in {"recheck", "block", "dispatch", "announce"}
    PROVE  TakesItsTurn(u)
<1>1. KeepsTime(u)
  BY DEF TakesItsTurn, KeepsTime
<1>2. ClaimsInTurn(u)
  BY DEF ClaimsInTurn, Claiming, Recovers, Resumes, Appends
<1>3. KeepsToItsPlan(u)
  BY DEF TakesItsTurn, KeepsToItsPlan, Snapshot
<1>4. SuspendsTheLastClaim(u)
  <2>1. 0 \notin Of(log, {"approval-wait"})
    BY Events DEF IInv, WorldOK
  <2>. QED  BY <2>1 DEF SuspendsTheLastClaim, Suspends, Releases, Appends
<1>. QED  BY <1>1, <1>2, <1>3, <1>4
          DEF TakesItsTurn, Announcer, Past, Finishing, Completing, Settling, Appends

\* A tick that starts, with none under way.
LEMMA StartTurns ==
    ASSUME IInv, Turns, most.overlaps = 0, NEW w \in Worker, StartTick(w) PROVE Turns'
<1> DEFINE u == [Idle EXCEPT !.pc = "snapshot", !.at = now]
<1>1. /\ tick' = [tick EXCEPT ![w] = u] /\ UNCHANGED <<log, now>>
      /\ \A v \in Worker : tick[v].pc = "idle"
  BY DEF StartTick, Become, IInv, WorldOK
<1>2. /\ u.pc = "snapshot" /\ u.at = now /\ u.plan = "none" /\ u.checkpoint = 0 
      /\ u.claim = 0 /\ u.seen = 0
  BY DEF Idle
<1> HIDE DEF u
<1>3. now \in Int
  BY OrchestratorAssumption DEF IInv, WorldOK
<1>4. KeepsTime(u)
  BY <1>2, <1>3 DEF Turns, KeepsTime
<1>5. ClaimsInTurn(u) /\ KeepsToItsPlan(u)
  BY <1>2 DEF ClaimsInTurn, KeepsToItsPlan, Claiming, Recovers, Resumes, Appends
<1>6. SuspendsTheLastClaim(u)
  <2>1. 0 \notin Of(log, {"approval-wait"})
    BY Events DEF IInv, WorldOK
  <2>. QED  BY <1>2, <2>1 DEF SuspendsTheLastClaim, Suspends, Releases, Appends
<1>7. TakesItsTurn(u)
  BY <1>2, <1>4, <1>5, <1>6
  DEF TakesItsTurn, Announcer, Past, Finishing, Completing, Settling, Appends
<1>8. tick'[w] = u /\ \A v \in Worker \ {w} : tick'[v].pc = "idle"
  BY <1>1 DEF IInv
<1>9. TakesItsTurn(tick[w])'
  BY <1>1, <1>2, <1>3, <1>7, <1>8, SetTurn
<1>10. OneTick'
  BY <1>8 DEF OneTick
<1>11. LogTakesTurns' /\ (\A c \in Claims(log) : log[c].expires <= now + Lease)'
  BY <1>1, LogStays DEF Turns
<1>. QED  BY <1>8, <1>9, <1>10, <1>11 DEF Turns

LEMMA CrashTurns == ASSUME IInv, Turns, NEW w \in Worker, Crash(w) PROVE Turns'
<1>1. Idle \in TickType /\ Idle.pc = "idle"
  BY IdleType DEF IInv
<1>. QED  BY <1>1, TurnMoves DEF Crash, Become

LEMMA WorldTurns ==
    ASSUME IInv, Turns, AskCancel \/ Approve \/ Lapse \/ Advance \/ UNCHANGED vars PROVE Turns'
<1>1. UNCHANGED <<log, tick>> /\ (now' = now \/ now' = now + 1)
  BY DEF AskCancel, Approve, Lapse, Advance, vars
<1>2. now \in Int /\ now' \in Int /\ now <= now' /\ Lease \in Int
  BY <1>1, OrchestratorAssumption DEF IInv, WorldOK
<1>3. \A w \in Worker : tick[w].at \in Int
  BY OrchestratorAssumption DEF IInv, WorldOK, TickType
<1>4. \A w \in Worker : tick[w].pc # "idle" => TakesItsTurn(tick[w])'
  BY <1>1, <1>2, <1>3, SetTurn DEF Turns
<1>5. \A c \in Claims(log) : log[c].expires \in Nat
  BY Events DEF IInv, WorldOK
<1>6. (\A c \in Claims(log) : log[c].expires <= now + Lease)'
  BY <1>1, <1>2, <1>5 DEF Turns
<1>. QED  BY <1>1, <1>4, <1>6, LogStays DEF Turns, OneTick

----------------------------------------------------------------------------
(* What an append leaves of the turns.                                     *)

\* A release stays one.
LEMMA StaysReleased ==
    ASSUME NEW s \in Seq(Event), NEW e \in Event, NEW c
    PROVE  /\ IsReleased(s, c) => IsReleased(Append(s, e), c)
           /\ e.type # "released" => (IsReleased(Append(s, e), c) => IsReleased(s, c))
<1>1. \A i \in 1..Len(s) : Append(s, e)[i] = s[i]
  BY Grown
<1>2. Of(s, {"released"}) \subseteq 1..Len(s)
  BY GrownOf
<1>3. Of(s, {"released"}) \subseteq Of(Append(s, e), {"released"})
  BY GrownOf
<1>4. e.type # "released" => Of(s, {"released"}) = Of(Append(s, e), {"released"})
  BY GrownOf
<1>. QED  BY <1>1, <1>2, <1>3, <1>4 DEF IsReleased

\* Which appends keep the log in turns.
LEMMA AppendTurns ==
    ASSUME IInv, LogTakesTurns, NEW e \in Event, log' = Append(log, e),
           e.type = "claimed" => \A c \in Claims(log) :
               /\ IsFree(c, e.expires - Lease)
               /\ IsReleased(log, c) \/ log[c].gen < e.gen,
           e.type = "approval-wait" =>
               /\ Of(log, {"completed"}) = {}
               /\ \E c \in Claims(log) : log[c].gen = e.gen /\ \A d \in Claims(log) : d <= c,
           e.type = "released" =>
               /\ e.claim \in Claims(log) /\ e.checkpoint <= Len(log)
               /\ e.checkpoint \in Of(log, {"approval-wait"}) => IsLastClaim(e.claim, e.checkpoint),
           e.type = "completed" => EveryWaitIsOver
    PROVE  LogTakesTurns'
<1> DEFINE n == Len(log) + 1
<1>1. /\ log \in Seq(Event) /\ log' \in Seq(Event) /\ Len(log) \in Nat /\ log'[n] = e
      /\ \A i \in 1..Len(log) : log'[i] = log[i]
  BY Grown DEF IInv, WorldOK
<1>2. \A types : /\ Of(log, types) \subseteq 1..Len(log)
                 /\ e.type \in types => Of(log', types) = Of(log, types) \union {n}
                 /\ e.type \notin types => Of(log', types) = Of(log, types)
  BY <1>1, GrownOf
<1>3. \A c : IsReleased(log, c) => IsReleased(log', c)
  BY <1>1, StaysReleased
<1>4. \A c \in Nat : \A k \in 1..Len(log) : IsLastClaim(c, k) => IsLastClaim(c, k)'
  BY <1>1, <1>2 DEF IsLastClaim, Claims
<1>5. ReleasesLookBack'
  <2>1. SUFFICES ASSUME NEW r \in Of(log', {"released"})
                 PROVE  /\ log'[r].claim \in Claims(log') /\ log'[r].claim < r
                        /\ log'[r].checkpoint < r
                        /\ log'[r].checkpoint \in Of(log', {"approval-wait"}) =>
                               IsLastClaim(log[r].claim, log[r].checkpoint)'
    BY DEF ReleasesLookBack
  <2>2. log'[r].checkpoint \in Nat /\ log'[r].claim \in Nat
    BY <1>1, Events
  <2>3. Claims(log) \subseteq Claims(log') /\ Claims(log) \subseteq 1..Len(log)
    BY <1>2 DEF Claims
  <2>4. CASE r \in Of(log, {"released"})
    <3>1. r \in 1..Len(log) /\ log'[r] = log[r]
      BY <1>1, <1>2, <2>4
    <3>2. /\ log[r].claim \in Claims(log) /\ log[r].claim < r /\ log[r].checkpoint < r
          /\ log[r].checkpoint \in Of(log, {"approval-wait"}) =>
               IsLastClaim(log[r].claim, log[r].checkpoint)
      BY <2>4 DEF LogTakesTurns, ReleasesLookBack
    <3>3. log[r].checkpoint \in Of(log', {"approval-wait"}) =>
             log[r].checkpoint \in Of(log, {"approval-wait"}) /\ log[r].checkpoint \in 1..Len(log)
      BY <1>1, <1>2, <3>1, <3>2
    <3>4. log'[r].checkpoint \in Of(log', {"approval-wait"}) =>
               IsLastClaim(log[r].claim, log[r].checkpoint)'
      BY <1>4, <2>2, <3>1, <3>2, <3>3
    <3>. QED  BY <2>3, <3>1, <3>2, <3>4
  <2>5. CASE r \notin Of(log, {"released"})
    <3>1. r = n /\ e.type = "released" /\ log'[r] = e
      BY <1>1, <1>2, <2>5
    <3>2. Of(log', {"approval-wait"}) = Of(log, {"approval-wait"})
      BY <1>2, <3>1
    <3>3. log'[r].checkpoint \in Of(log', {"approval-wait"}) =>
               IsLastClaim(log[r].claim, log[r].checkpoint)'
      BY <1>2, <1>4, <2>2, <3>1, <3>2
    <3>. QED  BY <1>1, <2>2, <2>3, <3>1, <3>3
  <2>. QED  BY <2>4, <2>5
<1>6. WaitsAreOfTheLastClaim'
  <2>1. SUFFICES ASSUME NEW k \in Of(log', {"approval-wait"})
                 PROVE  \E c \in Claims(log') : IsLastClaim(c, k)' /\ log'[c].gen = log'[k].gen
    BY DEF WaitsAreOfTheLastClaim
  <2>2. Claims(log) \subseteq Claims(log') /\ Claims(log) \subseteq 1..Len(log)
    BY <1>2 DEF Claims
  <2>3. CASE k \in Of(log, {"approval-wait"})
    <3>1. PICK c \in Claims(log) : IsLastClaim(c, k) /\ log[c].gen = log[k].gen
      BY <2>3 DEF LogTakesTurns, WaitsAreOfTheLastClaim
    <3>2. k \in 1..Len(log) /\ c \in 1..Len(log)
      BY <1>2, <2>2, <2>3
    <3>3. IsLastClaim(c, k)'
      BY <1>4, <3>1, <3>2
    <3>. QED  BY <1>1, <2>2, <3>1, <3>2, <3>3
  <2>4. CASE k \notin Of(log, {"approval-wait"})
    <3>1. k = n /\ e.type = "approval-wait"
      BY <1>2, <2>4
    <3>2. PICK c \in Claims(log) : log[c].gen = e.gen /\ \A d \in Claims(log) : d <= c
      BY <3>1
    <3>3. Claims(log') = Claims(log)
      BY <1>2, <3>1 DEF Claims
    <3>4. c \in 1..Len(log)
      BY <2>2
    <3>5. IsLastClaim(c, k)'
      BY <1>1, <3>1, <3>2, <3>3, <3>4 DEF IsLastClaim
    <3>. QED  BY <1>1, <3>1, <3>2, <3>3, <3>4, <3>5
  <2>. QED  BY <2>3, <2>4
<1>7. ASSUME NEW c \in Claims(log'), NEW d \in Claims(log'), c < d
      PROVE  /\ c \in Claims(log) /\ c \in 1..Len(log) /\ log'[c] = log[c]
             /\ \/ d \in Claims(log) /\ d \in 1..Len(log) /\ log'[d] = log[d]
                \/ d = n /\ d \notin Claims(log) /\ log'[d] = e /\ e.type = "claimed"
  <2>1. /\ Claims(log) \subseteq 1..Len(log)
        /\ e.type = "claimed" => Claims(log') = Claims(log) \union {n}
        /\ e.type # "claimed" => Claims(log') = Claims(log)
    BY <1>2 DEF Claims
  <2>. QED  BY <1>1, <1>7, <2>1
<1>8. ClaimsExpireInOrder'
  <2>1. SUFFICES ASSUME NEW c \in Claims(log'), NEW d \in Claims(log'), c < d
                 PROVE  \/ log'[c].expires <= log'[d].expires - Lease
                        \/ \E r \in Of(log', {"released"}) : r < d /\ log'[r].claim = c
    BY DEF ClaimsExpireInOrder
  <2>2. \A r \in Of(log, {"released"}) :
            r \in Of(log', {"released"}) /\ r < n /\ log'[r] = log[r]
    BY <1>1, <1>2
  <2>3. CASE d \in Claims(log)
    <3>1. c \in Claims(log) /\ log'[c] = log[c] /\ log'[d] = log[d] /\ d \in 1..Len(log)
      BY <1>7, <2>1, <2>3
    <3>2. \/ log[c].expires <= log[d].expires - Lease
          \/ \E r \in Of(log, {"released"}) : r < d /\ log[r].claim = c
      BY <2>1, <2>3, <3>1 DEF LogTakesTurns, ClaimsExpireInOrder
    <3>. QED  BY <2>2, <3>1, <3>2
  <2>4. CASE d \notin Claims(log)
    <3>1. c \in Claims(log) /\ log'[c] = log[c] /\ d = n /\ log'[d] = e /\ e.type = "claimed"
      BY <1>7, <2>1, <2>4
    <3>2. IsFree(c, e.expires - Lease)
      BY <3>1
    <3>. QED  BY <2>2, <3>1, <3>2 DEF IsFree, IsReleased
  <2>. QED  BY <2>3, <2>4
<1>9. GenerationsRise'
  <2>1. SUFFICES ASSUME NEW c \in Claims(log'), NEW d \in Claims(log'), c < d
                 PROVE  IsReleased(log', c) \/ IsReleased(log', d) \/ log'[c].gen < log'[d].gen
    BY DEF GenerationsRise
  <2>. QED  BY <1>3, <1>7, <2>1 DEF LogTakesTurns, GenerationsRise
<1>10. Of(log', {"completed"}) # {} => EveryWaitIsOver'
  <2>1. \A d \in Of(log, {"runner-dispatching"}) : d \in Of(log', {"runner-dispatching"})
    BY <1>2
  <2>2. e.type # "approval-wait" => (EveryWaitIsOver => EveryWaitIsOver')
    BY <1>2, <2>1 DEF EveryWaitIsOver
  <2>3. e.type # "completed" => Of(log', {"completed"}) = Of(log, {"completed"})
    BY <1>2
  <2>. QED  BY <2>2, <2>3 DEF LogTakesTurns
<1>. QED  BY <1>5, <1>6, <1>8, <1>9, <1>10 DEF LogTakesTurns

\* A snapshot does not change with the log.
LEMMA SnapshotStays ==
    ASSUME NEW s \in Seq(Event), NEW e \in Event, NEW m \in Nat, m <= Len(s)
    PROVE  SubSeq(Append(s, e), 1, m) = SubSeq(s, 1, m)
OBVIOUS

\* A cancellation does not concern the turns.
LEMMA CancelTurns == ASSUME IInv, Turns, Cancel PROVE Turns'
<1> DEFINE e == NewEvent("canceled", 0)
<1>1. e \in Event /\ e.type = "canceled"
  BY NewEventType DEF TaskEvent
<1>2. log' = Append(log, e) /\ log \in Seq(Event) /\ UNCHANGED <<now, tick>>
  BY DEF Cancel, IInv, WorldOK
<1> HIDE DEF e
<1>3. \A types : /\ "canceled" \notin types => Of(log', types) = Of(log, types)
                 /\ Of(log, types) \subseteq 1..Len(log)
  BY <1>1, <1>2, GrownOf
<1>4. \A i \in 1..Len(log) : log'[i] = log[i]
  BY <1>1, <1>2, Grown
<1>5. /\ Claims(log') = Claims(log) /\ Claims(log) \subseteq 1..Len(log)
      /\ \A c \in Claims(log) : log'[c] = log[c]
  BY <1>3, <1>4 DEF Claims
<1>6. \A c : IsReleased(log', c) <=> IsReleased(log, c)
  BY <1>1, <1>2, StaysReleased
<1>7. LogTakesTurns'
  BY <1>1, <1>2, AppendTurns DEF Turns
<1>8. ASSUME NEW w \in Worker, tick'[w].pc # "idle" PROVE TakesItsTurn(tick[w])'
  <2> DEFINE t == tick[w]
  <2>1. TakesItsTurn(t) /\ tick'[w] = t
    BY <1>2, <1>8 DEF Turns
  <2>2. t.seen \in Nat /\ t.seen <= Len(log) /\ KnowsItsClaim(t)
        /\ t.claim \in Claims(log) \union {0}
    BY AtStep DEF KnowsItsClaim, TickType
  <2>3. Snapshot(tick[w])' = Snapshot(t)
    BY <1>1, <1>2, <2>1, <2>2, SnapshotStays DEF Snapshot
  <2>4. /\ Of(log', {"completed"}) = Of(log, {"completed"})
        /\ Of(log', {"approval-wait"}) = Of(log, {"approval-wait"})
        /\ EveryWaitIsOver' <=> EveryWaitIsOver
    BY <1>3 DEF EveryWaitIsOver
  <2>5. KeepsTime(tick[w])'
    BY <1>2, <1>5, <2>1 DEF TakesItsTurn, KeepsTime
  <2>6. AllFree(tick[w].at)' <=> AllFree(t.at)
    BY <1>5, <1>6, <2>1 DEF AllFree, IsFree
  <2>7. Recovers(t) \/ (t.plan = "recover" /\ t.pc = "claim") => t.claim \in Claims(log)
    <3>1. t.pc = "release" => t.claim # 0
      BY <2>2 DEF KnowsItsClaim, ClaimSteps, Step
    <3>2. Appends(t, {"released"}) => t.claim # 0
      BY <2>2 DEF KnowsItsClaim, Appends
    <3>3. t.plan = "recover" /\ t.pc = "claim" => t.claim # 0
      BY <2>2 DEF KnowsItsClaim
    <3>. QED  BY <2>2, <3>1, <3>2, <3>3 DEF Recovers
  <2>8. ClaimsInTurn(tick[w])'
    <3>1. ResumedClaim(tick[w])' = ResumedClaim(t)
      BY <2>1, <2>3 DEF ResumedClaim
    <3>2. /\ Claiming(tick[w])' <=> Claiming(t)
          /\ Recovers(tick[w])' <=> Recovers(t)
          /\ Resumes(tick[w])' <=> Resumes(t)
          /\ Appends(tick[w], {"claimed"})' <=> Appends(t, {"claimed"})
      BY <2>1 DEF Claiming, Recovers, Resumes, Appends
    <3>3. ClaimsInTurn(t)
      BY <2>1 DEF TakesItsTurn
    <3>4. \A d \in Claims(log) : /\ log'[d].gen = log[d].gen
                                 /\ IsReleased(log', d) <=> IsReleased(log, d)
      BY <1>5, <1>6
    <3>5. Recovers(t) \/ (t.plan = "recover" /\ t.pc = "claim") =>
             \A d \in Claims(log) : IsReleased(log', d) \/ log'[d].gen <= log'[t.claim].gen
      BY <2>7, <3>3, <3>4 DEF ClaimsInTurn
    <3>6. Appends(t, {"claimed"}) =>
             /\ t.pending.expires = t.at + Lease
             /\ \A d \in Claims(log) : IsReleased(log', d) \/ log'[d].gen < t.pending.gen
      BY <3>3, <3>4 DEF ClaimsInTurn
    <3>7. Claiming(t) \/ Recovers(t) \/ (Resumes(t) /\ ResumedClaim(t) = {}) => AllFree(tick[w].at)'
      BY <2>6, <3>3 DEF ClaimsInTurn
    <3>8. /\ t.plan = "start" /\ (Claiming(t) \/ t.pc = "readback") => Of(log', {"completed"}) = {}
          /\ t.plan = "start" /\ Claiming(t) => Claims(log') = {}
          /\ Resumes(t) => \A c \in Claims(log') : c <= t.seen
      BY <1>5, <2>4, <3>3 DEF ClaimsInTurn
    <3>. QED  BY <1>5, <2>1, <3>1, <3>2, <3>5, <3>6, <3>7, <3>8 DEF ClaimsInTurn
  <2>9. KeepsToItsPlan(tick[w])'
    BY <2>1, <2>3 DEF TakesItsTurn, KeepsToItsPlan, Claiming, Releases, Appends
  <2>10. SuspendsTheLastClaim(tick[w])'
    <3>1. Appends(t, {"approval-wait"}) => log'[t.claim] = log[t.claim]
      BY <1>5, <2>2 DEF KnowsItsClaim, Appends
    <3>2. /\ Suspends(tick[w])' <=> Suspends(t)
          /\ Releases(tick[w])' <=> Releases(t)
          /\ \A types : Appends(tick[w], types)' <=> Appends(t, types)
      BY <2>1 DEF Suspends, Releases, Appends
    <3>3. IsLastClaim(t.claim, t.checkpoint)' <=> IsLastClaim(t.claim, t.checkpoint)
      BY <1>2, <1>5 DEF IsLastClaim
    <3>. QED  BY <1>2, <1>5, <2>1, <2>4, <3>1, <3>2, <3>3 DEF TakesItsTurn, SuspendsTheLastClaim
  <2>11. Announcer(tick[w])' => EveryWaitIsOver'
    BY <2>1, <2>4 DEF TakesItsTurn, Announcer, Past, Finishing, Completing, Settling, Appends
  <2>. QED  BY <2>5, <2>8, <2>9, <2>10, <2>11 DEF TakesItsTurn
<1>9. OneTick' /\ (\A c \in Claims(log) : log[c].expires <= now + Lease)'
  BY <1>2, <1>5 DEF Turns, OneTick
<1>. QED  BY <1>7, <1>8, <1>9 DEF Turns

\* Alone, a tick that is over recovers no other claim.
LEMMA NothingToRecover ==
    ASSUME NEW t, TakesItsTurn(t) PROVE Returned(t) = Idle
BY DEF TakesItsTurn, KeepsToItsPlan, Returned

\* An append of the one tick keeps the log in turns.
LEMMA AcceptedLog ==
    ASSUME IInv, Turns, NEW w \in Worker, tick[w].pc = "send", Accepted(w)
    PROVE  LogTakesTurns'
<1> DEFINE t == tick[w]
           e == t.pending
<1>1. log' = Append(log, e) /\ log \in Seq(Event) /\ e \in Event /\ t \in TickType
  BY AtStep DEF Accepted, IInv, WorldOK, TickType
<1>2. TakesItsTurn(t) /\ KnowsItsClaim(t) /\ LogTakesTurns
  BY AtStep DEF Turns
<1>3. \A type : e.type = type <=> Appends(t, {type})
  BY DEF Appends
<1>4. e.type # "claimed" => t.claim \in Claims(log)
  BY <1>2 DEF KnowsItsClaim
<1>5. e.type = "claimed" => \A c \in Claims(log) :
        /\ IsFree(c, e.expires - Lease)
        /\ IsReleased(log, c) \/ log[c].gen < e.gen
  <2>1. SUFFICES ASSUME e.type = "claimed", NEW c \in Claims(log)
                 PROVE  IsFree(c, e.expires - Lease) /\ (IsReleased(log, c) \/ log[c].gen < e.gen)
    OBVIOUS
  <2>2. Appends(t, {"claimed"}) /\ Claiming(t) /\ ClaimsInTurn(t)
    BY <1>2, <1>3, <2>1 DEF Claiming, TakesItsTurn
  <2>3. e.expires = t.at + Lease /\ (IsReleased(log, c) \/ log[c].gen < e.gen)
    BY <2>1, <2>2 DEF ClaimsInTurn
  <2>4. IsFree(c, t.at)
    BY <2>1, <2>2 DEF ClaimsInTurn, AllFree
  <2>5. e.expires - Lease = t.at
    BY <1>1, <2>3, OrchestratorAssumption DEF IInv, WorldOK, TickType
  <2>. QED  BY <2>3, <2>4, <2>5
<1>6. e.type = "approval-wait" =>
        /\ Of(log, {"completed"}) = {}
        /\ \E c \in Claims(log) : log[c].gen = e.gen /\ \A d \in Claims(log) : d <= c
  <2>1. Appends(t, {"approval-wait"}) => Suspends(t)
    BY DEF Suspends, Appends
  <2>. QED  BY <1>2, <1>3, <1>4, <2>1 DEF TakesItsTurn, SuspendsTheLastClaim
<1>7. e.type = "released" =>
        /\ e.claim \in Claims(log) /\ e.checkpoint <= Len(log)
        /\ e.checkpoint \in Of(log, {"approval-wait"}) => IsLastClaim(e.claim, e.checkpoint)
  <2>1. t.checkpoint <= Len(log)
    BY <1>1, <1>2, Events DEF KnowsItsClaim
  <2>. QED  BY <1>2, <1>3, <1>4, <2>1 DEF TakesItsTurn, SuspendsTheLastClaim
<1>8. e.type = "completed" => EveryWaitIsOver
  BY <1>2, <1>3 DEF TakesItsTurn, Announcer, Past, Completing
<1>. QED  BY <1>1, <1>2, <1>5, <1>6, <1>7, <1>8, AppendTurns

\* Where an append leaves the one tick.
LEMMA AppendedTurn ==
    ASSUME IInv, Turns, NEW w \in Worker, tick[w].pc = "send",
           NEW u, u = Appended(tick[w], Len(log) + 1), u.pc # "idle"
    PROVE  /\ u.at = tick[w].at /\ u.seen = tick[w].seen /\ u.plan = tick[w].plan
           /\ u.checkpoint # 0 => u.pc = "release"
           /\ \/ /\ u.pc = "readback" /\ Appends(tick[w], {"claimed"})
                 /\ u.claim = Len(log) + 1
              \/ /\ u.pc = "release" /\ tick[w].plan # "recover"
                 /\ Appends(tick[w], {"blocked", "approval-wait"})
                 /\ u.claim = tick[w].claim /\ u.checkpoint = Len(log) + 1
              \/ /\ u.pc = "claim" /\ tick[w].plan = "recover" /\ Appends(tick[w], {"released"})
                 /\ u.claim = tick[w].claim
              \/ /\ u.pc = "inspect" /\ tick[w].plan = "start" /\ Appends(tick[w], {"context-ready"})
                 /\ u.claim = tick[w].claim
              \/ /\ u.pc = "run" /\ Appends(tick[w], {"runner-dispatching"})
              \/ /\ u.pc \in {"ready", "settle"} /\ Appends(tick[w], {"run-completed", "completed"})
<1> DEFINE t == tick[w]
           n == Len(log) + 1
           type == t.pending.type
<1>1. /\ t \in TickType /\ TakesItsTurn(t) /\ Returned(t) = Idle /\ n \in Nat
      /\ type \in TaskEvent \union AttemptEvent \union {"run-completed"}
  <2>1. t \in TickType /\ TakesItsTurn(t)
    BY AtStep DEF Turns
  <2>2. Returned(t) = Idle
    BY <2>1, NothingToRecover
  <2>3. n \in Nat
    BY DEF IInv, WorldOK
  <2>. QED  BY <2>1, <2>2, <2>3 DEF TickType, Event
<1>2. /\ t.checkpoint # 0 => type = "released"
      /\ t.plan = "recover" => type \in {"claimed", "released"} /\ t.checkpoint = 0
  BY <1>1 DEF TakesItsTurn, SuspendsTheLastClaim, KeepsToItsPlan, Claiming, Releases, Appends
<1>3. Idle.pc = "idle" /\ Idle.pending \in Event
  BY NewEventType DEF Idle, TaskEvent
<1>4. CASE type = "claimed"
  <2>1. u = [At(t, "readback") EXCEPT !.claim = n]
    BY <1>4 DEF Appended
  <2>2. /\ u.pc = "readback" /\ u.at = t.at /\ u.seen = t.seen /\ u.plan = t.plan
        /\ u.claim = n /\ u.checkpoint = t.checkpoint
    BY <1>1, <1>3, <2>1 DEF At, TickType, Step
  <2>. QED  BY <1>2, <1>4, <2>2 DEF Appends
<1>5. CASE type \in {"blocked", "approval-wait"}
  <2>1. u = [At(t, "release") EXCEPT !.checkpoint = n]
    BY <1>5 DEF Appended
  <2>2. /\ u.pc = "release" /\ u.at = t.at /\ u.seen = t.seen /\ u.plan = t.plan
        /\ u.claim = t.claim /\ u.checkpoint = n
    BY <1>1, <1>3, <2>1 DEF At, TickType, Step
  <2>. QED  BY <1>2, <1>5, <2>2 DEF Appends
<1>6. ASSUME NEW step \in {"claim", "inspect", "run", "ready", "settle"}, u = At(t, step)
      PROVE  /\ u.pc = step /\ u.at = t.at /\ u.seen = t.seen /\ u.plan = t.plan
             /\ u.claim = t.claim /\ u.checkpoint = t.checkpoint
  BY <1>1, <1>6, AtType DEF Step
<1>7. CASE type = "released"
  <2>1. u = At(t, "claim") /\ t.plan = "recover"
    BY <1>1, <1>3, <1>7 DEF Appended
  <2>. QED  BY <1>2, <1>6, <1>7, <2>1 DEF Appends
<1>8. CASE type = "context-ready"
  <2>1. u = At(t, "inspect") /\ t.plan = "start"
    BY <1>3, <1>8 DEF Appended
  <2>. QED  BY <1>2, <1>6, <1>8, <2>1 DEF Appends
<1>9. CASE type \in {"runner-dispatching", "run-completed", "completed"}
  <2>1. u = At(t, IF type = "runner-dispatching" THEN "run"
                  ELSE IF type = "run-completed" THEN "ready" ELSE "settle")
    BY <1>9 DEF Appended
  <2>. QED  BY <1>2, <1>6, <1>9, <2>1 DEF Appends
<1>10. CASE type \in {"queued", "canceled", "task-completed"}
  <2>1. u = Idle
    BY <1>1, <1>10 DEF Appended
  <2>. QED  BY <1>3, <2>1
<1>. QED  BY <1>1, <1>4, <1>5, <1>7, <1>8, <1>9, <1>10 DEF TaskEvent, AttemptEvent, Checkpoint

LEMMA AcceptedTurns ==
    ASSUME IInv, Turns, NEW w \in Worker, tick[w].pc = "send", Accepted(w)
    PROVE  Turns'
<1> DEFINE t == tick[w]
           e == t.pending
           n == Len(log) + 1
           u == Appended(t, n)
<1>1. /\ log' = Append(log, e) /\ log \in Seq(Event) /\ e \in Event /\ t \in TickType
      /\ tick' = [tick EXCEPT ![w] = u] /\ now' = now /\ Len(log) \in Nat
      /\ t.at \in Nat /\ now \in Nat /\ Lease \in Nat /\ t.seen \in Nat /\ t.seen <= Len(log)
      /\ t.claim # 0 => t.claim \in Claims(log)
  <2>1. log' = Append(log, e) /\ tick' = [tick EXCEPT ![w] = u] /\ now' = now
    BY DEF Accepted, Become, world
  <2>2. log \in Seq(Event) /\ t \in TickType /\ KnowsItsClaim(t)
    BY AtStep DEF IInv, WorldOK
  <2>3. t.at \in Nat /\ now \in Nat /\ Lease \in Nat
    BY <2>2, OrchestratorAssumption DEF IInv, WorldOK, TickType
  <2>. QED  BY <2>1, <2>2, <2>3 DEF KnowsItsClaim, TickType
<1>2. u.pc # "idle" =>
         /\ u.at = t.at /\ u.seen = t.seen /\ u.plan = t.plan
         /\ u.checkpoint # 0 => u.pc = "release"
         /\ \/ u.pc = "readback" /\ Appends(t, {"claimed"}) /\ u.claim = n
            \/ /\ u.pc = "release" /\ t.plan # "recover" /\ Appends(t, {"blocked", "approval-wait"})
               /\ u.claim = t.claim /\ u.checkpoint = n
            \/ u.pc = "claim" /\ t.plan = "recover" /\ Appends(t, {"released"}) /\ u.claim = t.claim
            \/ u.pc = "inspect" /\ t.plan = "start" /\ Appends(t, {"context-ready"})
               /\ u.claim = t.claim
            \/ u.pc = "run" /\ Appends(t, {"runner-dispatching"})
            \/ u.pc \in {"ready", "settle"} /\ Appends(t, {"run-completed", "completed"})
  BY AppendedTurn
<1> HIDE DEF u
<1>3. /\ TakesItsTurn(t) /\ KeepsTime(t) /\ ClaimsInTurn(t) /\ KeepsToItsPlan(t)
      /\ SuspendsTheLastClaim(t)
  BY DEF Turns, TakesItsTurn
<1>4. \A types : /\ Of(log, types) \subseteq 1..Len(log)
                 /\ e.type \in types => Of(log', types) = Of(log, types) \union {n}
                 /\ e.type \notin types => Of(log', types) = Of(log, types)
  BY <1>1, GrownOf
<1>5. log'[n] = e /\ \A i \in 1..Len(log) : log'[i] = log[i]
  BY <1>1, Grown
<1>6. Claims(log) \subseteq 1..Len(log) /\ Claims(log) \subseteq Claims(log')
      /\ (e.type # "claimed" => Claims(log') = Claims(log))
      /\ (e.type = "claimed" => Claims(log') = Claims(log) \union {n})
  BY <1>4 DEF Claims
<1>7. \A c : IsReleased(log, c) => IsReleased(log', c)
  BY <1>1, StaysReleased
<1>8. tick'[w] = u /\ \A v \in Worker \ {w} : tick'[v] = tick[v]
  BY <1>1 DEF IInv
<1>9. \A v \in Worker \ {w} : tick'[v].pc = "idle"
  BY <1>8 DEF Turns, OneTick
<1>10. LogTakesTurns' /\ OneTick'
  BY <1>9, AcceptedLog DEF OneTick
<1>11. \A c \in Claims(log') : log'[c].expires <= t.at + Lease
  <2>1. e.type = "claimed" => e.expires = t.at + Lease
    BY <1>3 DEF ClaimsInTurn, Appends
  <2>2. \A c \in Claims(log) : log'[c].expires <= t.at + Lease
    BY <1>3, <1>5, <1>6 DEF KeepsTime
  <2>3. t.at + Lease <= t.at + Lease
    BY <1>1
  <2>. QED  BY <1>5, <1>6, <2>1, <2>2, <2>3
<1>12. (\A c \in Claims(log) : log[c].expires <= now + Lease)'
  <2>1. \A c \in Claims(log') : log'[c].expires \in Nat
    BY <1>1, Grown, Events
  <2>2. t.at <= now
    BY <1>3 DEF KeepsTime
  <2>3. ASSUME NEW c \in Claims(log') PROVE log'[c].expires <= now' + Lease
    <3>1. log'[c].expires <= t.at + Lease /\ log'[c].expires \in Nat
      BY <1>11, <2>1
    <3>2. now' = now /\ t.at \in Nat /\ now \in Nat /\ Lease \in Nat
      BY <1>1
    <3> HIDE DEF t
    <3>. QED  BY <2>2, <3>1, <3>2
  <2>. QED  BY <2>3
<1>13. ASSUME u.pc # "idle" PROVE TakesItsTurn(tick[w])'
  <2>1. KeepsTime(tick[w])'
    BY <1>1, <1>2, <1>3, <1>8, <1>11, <1>13 DEF KeepsTime
  <2>2. Snapshot(tick[w])' = Snapshot(t)
    BY <1>1, <1>2, <1>8, <1>13, SnapshotStays DEF Snapshot
  <2>3. KeepsToItsPlan(tick[w])'
    <3>1. t.plan = "recover" => u.pc \in {"claim", "readback"}
      <4>1. t.plan = "recover" => Appends(t, {"claimed", "released"})
        BY <1>3 DEF KeepsToItsPlan, Claiming, Releases, Appends
      <4>. QED  BY <1>2, <1>13, <4>1 DEF Appends
    <3>2. Claiming(tick[w])' <=> u.pc = "claim"
      BY <1>2, <1>8, <1>13 DEF Claiming, Appends
    <3>. QED  BY <1>2, <1>3, <1>8, <1>13, <2>2, <3>1, <3>2 DEF KeepsToItsPlan
  <2>4. ClaimsInTurn(tick[w])'
    <3>1. /\ Claiming(tick[w])' <=> u.pc = "claim"
          /\ ~Recovers(tick[w])'
          /\ ~Resumes(tick[w])'
          /\ ~Appends(tick[w], {"claimed"})'
      BY <1>2, <1>8, <1>13 DEF Claiming, Appends, Recovers, Resumes
    <3>2. u.pc = "claim" => AllFree(tick[w].at)'
      <4>1. u.pc = "claim" => Recovers(t) /\ e.type = "released"
        BY <1>2, <1>13 DEF Recovers, Appends
      <4>2. u.pc = "claim" => AllFree(t.at)
        BY <1>3, <4>1 DEF ClaimsInTurn
      <4>. QED  BY <1>2, <1>5, <1>6, <1>7, <1>8, <1>13, <4>1, <4>2 DEF AllFree, IsFree
    <3>3. u.plan = "start" /\ u.pc = "readback" => Of(log', {"completed"}) = {}
      <4>1. u.pc = "readback" => Claiming(t) /\ e.type = "claimed"
        BY <1>2, <1>13 DEF Claiming, Appends
      <4>. QED  BY <1>2, <1>3, <1>4, <1>13, <4>1 DEF ClaimsInTurn
    <3>4. u.pc = "claim" =>
             u.plan = "recover" /\ \A d \in Claims(log') :
                IsReleased(log', d) \/ log'[d].gen <= log'[u.claim].gen
      <4>1. u.pc = "claim" => /\ Recovers(t) /\ e.type = "released" /\ u.plan = "recover"
                              /\ t.claim # 0 /\ u.claim = t.claim
        BY <1>2, <1>13, AtStep DEF Recovers, Appends, KnowsItsClaim
      <4>2. u.pc = "claim" =>
              \A d \in Claims(log) : IsReleased(log, d) \/ log[d].gen <= log[t.claim].gen
        BY <1>3, <4>1 DEF ClaimsInTurn
      <4>. QED  BY <1>1, <1>5, <1>6, <1>7, <4>1, <4>2
    <3>. QED  BY <1>8, <3>1, <3>2, <3>3, <3>4 DEF ClaimsInTurn
  <2>5. SuspendsTheLastClaim(tick[w])'
    <3>1. Suspends(tick[w])' => Of(log', {"completed"}) = {} /\ \A d \in Claims(log') : d <= u.claim
      <4>1. Suspends(tick[w])' => Suspends(t) /\ e.type = "context-ready" /\ u.claim = t.claim
        BY <1>2, <1>8, <1>13 DEF Suspends, Appends
      <4>. QED  BY <1>3, <1>4, <1>6, <4>1 DEF SuspendsTheLastClaim
    <3>2. u.checkpoint \in Of(log', {"approval-wait"}) =>
             IsLastClaim(tick[w].claim, tick[w].checkpoint)'
      <4>1. SUFFICES ASSUME u.checkpoint \in Of(log', {"approval-wait"})
                     PROVE  IsLastClaim(tick[w].claim, tick[w].checkpoint)'
        OBVIOUS
      <4>2. u.checkpoint # 0
        BY <1>1, <1>4, <4>1, Grown, Events
      <4>3. /\ Appends(t, {"blocked", "approval-wait"}) /\ u.claim = t.claim
            /\ u.checkpoint = n
        BY <1>2, <1>13, <4>2
      <4>4. e.type = "approval-wait"
        BY <1>1, <1>4, <4>1, <4>3 DEF Appends
      <4>5. Suspends(t) /\ t.claim # 0
        BY <4>3, <4>4, AtStep DEF Suspends, Appends, KnowsItsClaim
      <4>6. \A d \in Claims(log) : d <= t.claim
        BY <1>3, <4>5 DEF SuspendsTheLastClaim
      <4>7. t.claim \in Claims(log') /\ t.claim < n /\ Claims(log') = Claims(log)
        BY <1>1, <1>6, <4>4, <4>5
      <4>8. tick'[w].claim = t.claim /\ tick'[w].checkpoint = n
        BY <1>8, <4>3
      <4>. QED  BY <4>6, <4>7, <4>8 DEF IsLastClaim
    <3>3. /\ ~Appends(tick[w], {"approval-wait"})'
          /\ ~Appends(tick[w], {"released"})'
          /\ u.checkpoint # 0 => Releases(tick[w])'
      BY <1>2, <1>8, <1>13 DEF Appends, Releases
    <3>. QED  BY <1>8, <3>1, <3>2, <3>3 DEF SuspendsTheLastClaim
  <2>6. Announcer(tick[w])' => EveryWaitIsOver'
    <3>1. Announcer(tick[w])' =>
            Appends(t, {"runner-dispatching"}) \/ (Announcer(t) /\ e.type # "approval-wait")
      BY <1>2, <1>8, <1>13
      DEF Announcer, Past, Finishing, Completing, Settling, Appends
    <3>2. Appends(t, {"runner-dispatching"}) => EveryWaitIsOver'
      <4>1. Appends(t, {"runner-dispatching"}) => e.type = "runner-dispatching"
        BY DEF Appends
      <4>2. e.type = "runner-dispatching" =>
               /\ n \in Of(log', {"runner-dispatching"})
               /\ Of(log', {"approval-wait"}) \subseteq 1..Len(log)
        BY <1>4
      <4>3. \A k \in 1..Len(log) : k < n
        BY <1>1
      <4>. QED  BY <4>1, <4>2, <4>3 DEF EveryWaitIsOver
    <3>3. EveryWaitIsOver /\ e.type # "approval-wait" => EveryWaitIsOver'
      <4>1. Of(log, {"runner-dispatching"}) \subseteq Of(log', {"runner-dispatching"})
        BY <1>4
      <4>. QED  BY <1>4, <4>1 DEF EveryWaitIsOver
    <3>. QED  BY <1>3, <3>1, <3>2, <3>3 DEF TakesItsTurn
  <2>. QED  BY <2>1, <2>3, <2>4, <2>5, <2>6 DEF TakesItsTurn
<1>. QED  BY <1>8, <1>9, <1>10, <1>12, <1>13 DEF Turns

----------------------------------------------------------------------------
(* What a tick finds out of the claims.                                    *)

\* A claim of a log whose claims take turns.
LEMMA ClaimFacts ==
    ASSUME IInv, LogTakesTurns, NEW c \in Claims(log), NEW d \in Claims(log), c < d,
           ~IsReleased(log, c)
    PROVE  log[c].expires <= log[d].expires - Lease
<1>1. CASE \E r \in Of(log, {"released"}) : r < d /\ log[r].claim = c
  BY <1>1 DEF LogTakesTurns, ReleasesLookBack, IsReleased
<1>. QED  BY <1>1 DEF LogTakesTurns, ClaimsExpireInOrder

\* What the numbers of the log and of a tick are.
LEMMA Numbers ==
    ASSUME IInv, NEW w \in Worker
    PROVE  /\ tick[w].at \in Nat /\ Lease \in Nat /\ 0 < Lease /\ Len(log) \in Nat
           /\ \A c \in Claims(log) : c \in Nat /\ 0 < c /\ c <= Len(log)
                                     /\ log[c].expires \in Nat /\ log[c].gen \in Nat
<1>1. log \in Seq(Event) /\ tick[w] \in TickType /\ most.time \in Nat
  BY OrchestratorAssumption DEF IInv, WorldOK
<1>2. tick[w].at \in Nat /\ Lease \in Nat /\ 0 < Lease
  BY <1>1, OrchestratorAssumption DEF TickType
<1>. QED  BY <1>1, <1>2, Events

\* A live claim is the last there is.
LEMMA LiveIsLast ==
    ASSUME IInv, LogTakesTurns, NEW w \in Worker, KeepsTime(tick[w]),
           NEW c \in Claims(log), ~IsReleased(log, c), log[c].expires > tick[w].at,
           NEW d \in Claims(log)
    PROVE  d <= c
<1>1. SUFFICES ASSUME c < d PROVE FALSE
  BY Numbers
<1>2. log[c].expires <= log[d].expires - Lease
  BY <1>1, ClaimFacts
<1>3. log[d].expires <= tick[w].at + Lease
  BY DEF KeepsTime
<1>. QED  BY <1>2, <1>3, Numbers

\* With no live claim every claim is free.
LEMMA NoneLive ==
    ASSUME IInv, NEW w \in Worker, Of(log, {"completed"}) = {}, Live(log, tick[w].at) = {}
    PROVE  AllFree(tick[w].at)
<1>1. SUFFICES ASSUME NEW c \in Claims(log), ~IsFree(c, tick[w].at) PROVE FALSE
  BY DEF AllFree
<1> DEFINE C == {x \in Unreleased(log) : log[x].expires > tick[w].at}
<1>2. c \in C
  BY <1>1, Numbers DEF IsFree, Unreleased
<1>3. C \subseteq 1..Len(log)
  BY Numbers DEF Unreleased
<1>4. log \in Seq(Event)
  BY DEF IInv, WorldOK
<1> HIDE DEF C
<1>5. \E m \in Newest(log, C) : TRUE
  BY <1>2, <1>3, <1>4, NewestExists
<1>. QED  BY <1>5 DEF Live, C

\* The one tick that is under way goes on.
LEMMA MoveTurns ==
    ASSUME IInv, Turns, NEW w \in Worker, tick[w].pc # "idle", NEW u, u \in TickType,
           u.pc # "idle" => TakesItsTurn(u), Move(w, u)
    PROVE  Turns'
BY TurnMoves DEF Move, Become, world

LEMMA IdleTurns ==
    ASSUME IInv, Turns, NEW w \in Worker, tick[w].pc # "idle", Move(w, Idle) PROVE Turns'
<1>1. Idle \in TickType /\ Idle.pc = "idle"
  BY IdleType DEF IInv
<1>. QED  BY <1>1, MoveTurns

\* What is known of the one tick.
LEMMA AtTurn ==
    ASSUME IInv, Turns, NEW w \in Worker, tick[w].pc # "idle"
    PROVE  /\ TakesItsTurn(tick[w]) /\ KeepsTime(tick[w]) /\ ClaimsInTurn(tick[w])
           /\ KeepsToItsPlan(tick[w]) /\ SuspendsTheLastClaim(tick[w]) /\ LogTakesTurns
           /\ tick[w] \in TickType /\ KnowsItsClaim(tick[w])
           /\ 0 \notin Of(log, {"approval-wait"})
<1>1. 0 \notin Of(log, {"approval-wait"})
  BY Events DEF IInv, WorldOK
<1>. QED  BY <1>1, AtStep DEF Turns, TakesItsTurn

\* The tick has a step to take that is none of the others' concern.
LEMMA FreeTurns ==
    ASSUME IInv, Turns, NEW w \in Worker, tick[w].pc # "idle", ~Releases(tick[w]),
           NEW u, u \in TickType, u.at = tick[w].at, u.seen = tick[w].seen,
           u.checkpoint = tick[w].checkpoint, u.plan = tick[w].plan \/ u.plan \in {"suspend", "cancel"},
           u.plan # "recover", u.pc \in {"recheck", "block", "dispatch", "announce"}, Move(w, u)
    PROVE  Turns'
<1>1. tick[w].checkpoint = 0 /\ TakesItsTurn(tick[w])
  BY AtTurn DEF SuspendsTheLastClaim
<1>2. TakesItsTurn(u)
  BY <1>1, FreeTurn
<1>. QED  BY <1>2, MoveTurns

----------------------------------------------------------------------------
(* A tick that does not overlap decides what it is for.                    *)

\* The claim of a wait is the last before it.
LEMMA WaitClaim ==
    ASSUME IInv, LogTakesTurns, NEW k \in ResumableWait(log), NEW c \in ClaimOfWait(log, k)
    PROVE  IsLastClaim(c, k) /\ k \in Of(log, {"approval-wait"})
<1>1. k \in Of(log, {"approval-wait"})
  BY ProjectedClaims
<1>2. PICK x \in Claims(log) : IsLastClaim(x, k) /\ log[x].gen = log[k].gen
  BY <1>1 DEF LogTakesTurns, WaitsAreOfTheLastClaim
<1>3. c \in Claims(log) /\ c < k /\ x <= c
  BY <1>2 DEF ClaimOfWait, Last, IsLastClaim
<1>4. c <= x /\ c \in Int /\ x \in Int
  BY <1>2, <1>3, Events DEF IsLastClaim, IInv, WorldOK
<1>5. c = x
  BY <1>3, <1>4
<1>. QED  BY <1>1, <1>2, <1>5

\* An attempt that waits for its approval has no live claim but one made after
\* the wait: the wait's own claim was released with it.
LEMMA WaitIsFree ==
    ASSUME IInv, LogTakesTurns, NEW w \in Worker, KeepsTime(tick[w]),
           NEW k \in ResumableWait(log), WaitReleased(log, k),
           \A c \in Live(log, tick[w].at) : ~(c > k)
    PROVE  AllFree(tick[w].at)
<1>1. k \in Of(log, {"approval-wait"}) /\ k \in Int
  <2>1. k \in Of(log, {"approval-wait"}) /\ log \in Seq(Event)
    BY ProjectedClaims DEF IInv, WorldOK
  <2>. QED  BY <2>1, Events
<1>2. Of(log, {"completed"}) = {}
  <2>1. SUFFICES ASSUME Of(log, {"completed"}) # {} PROVE FALSE
    OBVIOUS
  <2>2. PICK d \in Of(log, {"runner-dispatching"}) : k < d
    BY <1>1, <2>1 DEF LogTakesTurns, EveryWaitIsOver
  <2>3. d \in Of(log, {"blocked", "runner-dispatching"}) /\ d \in Int
    BY Events DEF Of, IInv, WorldOK
  <2>. QED  BY <1>1, <2>2, <2>3 DEF ResumableWait
<1>3. PICK r \in Of(log, {"released"}) : log[r].checkpoint = k
  BY DEF WaitReleased
<1> DEFINE y == log[r].claim
<1>4. IsLastClaim(y, k) /\ y \in Claims(log) /\ IsReleased(log, y)
  BY <1>1, <1>3 DEF LogTakesTurns, ReleasesLookBack, IsReleased
<1> HIDE DEF y
<1>5. ASSUME NEW c \in Live(log, tick[w].at) PROVE FALSE
  <2>1. c \in Claims(log) /\ ~IsReleased(log, c) /\ log[c].expires > tick[w].at
    BY <1>5 DEF Live, Newest, Unreleased
  <2>2. y <= c
    BY <1>4, <2>1, LiveIsLast
  <2>3. c # k
    BY <1>1, <2>1 DEF Claims, Of
  <2>4. c < k
    BY <1>1, <1>5, <2>1, <2>3, Numbers
  <2>5. c <= y
    BY <1>4, <2>1, <2>4 DEF IsLastClaim
  <2>6. c = y
    BY <1>4, <2>1, <2>2, <2>5, Numbers
  <2>. QED  BY <1>4, <2>1, <2>6
<1>. QED  BY <1>2, <1>5, NoneLive

\* Nothing is to be recovered while a claim is live.
LEMMA LiveHolds ==
    ASSUME IInv, LogTakesTurns, NEW w \in Worker, KeepsTime(tick[w]),
           NEW c \in Live(log, tick[w].at)
    PROVE  Recoverable(log, tick[w].at) = {}
<1>1. SUFFICES ASSUME NEW m \in Recoverable(log, tick[w].at) PROVE FALSE
  OBVIOUS
<1>2. /\ c \in Claims(log) /\ ~IsReleased(log, c) /\ log[c].expires > tick[w].at
      /\ c \in Unreleased(log)
  BY DEF Live, Newest, Unreleased
<1>3. /\ m \in Claims(log) /\ ~IsReleased(log, m) /\ log[m].expires <= tick[w].at
      /\ log[c].gen < log[m].gen \/ (log[c].gen = log[m].gen /\ c <= m)
  BY <1>2 DEF Recoverable, Held, Newest, Unreleased
<1>4. m <= c /\ m # c
  BY <1>2, <1>3, LiveIsLast, Numbers
<1>5. log[m].gen < log[c].gen
  BY <1>2, <1>3, <1>4, Numbers DEF LogTakesTurns, GenerationsRise
<1>. QED  BY <1>2, <1>3, <1>4, <1>5, Numbers

LEMMA SnapshotOfAll ==
    ASSUME log \in Seq(Event), NEW t, t.seen = Len(log) PROVE Snapshot(t) = log
BY DEF Snapshot

\* A tick's plan, and the duties that are not its own.
LEMMA PlannedTurn ==
    ASSUME NEW t, KeepsTime(t), t.pc \in {"release", "inspect", "context", "claim"},
           ClaimsInTurn(t), t.plan = "recover" => t.checkpoint = 0,
           t.plan = "continue" => Recoverable(Snapshot(t), t.at) = {},
           t.pc = "context" \/ (t.pc = "inspect" /\ t.plan # "resume") =>
               Of(log, {"completed"}) = {} /\ \A d \in Claims(log) : d <= t.claim,
           t.plan = "recover" => t.pc \in {"release", "claim"},
           t.checkpoint # 0 => t.pc = "release",
           t.checkpoint \in Of(log, {"approval-wait"}) => IsLastClaim(t.claim, t.checkpoint)
    PROVE  TakesItsTurn(t)
<1>1. KeepsToItsPlan(t)
  BY DEF KeepsToItsPlan, Claiming, Releases
<1>2. SuspendsTheLastClaim(t)
  BY DEF SuspendsTheLastClaim, Suspends, Releases, Appends
<1>3. ~Announcer(t)
  BY DEF Announcer, Past, Finishing, Completing, Settling, Appends
<1>. QED  BY <1>1, <1>2, <1>3 DEF TakesItsTurn

LEMMA DecideTurns == ASSUME IInv, Turns, NEW w \in Worker, Decide(w) PROVE Turns'
<1> DEFINE t == tick[w]
<1>1. /\ t.pc = "snapshot" /\ t \in TickType /\ KeepsTime(t) /\ t.checkpoint = 0
      /\ KnowsItsClaim(t) /\ LogTakesTurns /\ 0 \notin Of(log, {"approval-wait"})
      /\ Idle.pending \in Event /\ log \in Seq(Event) /\ Len(log) \in Nat
  <2>1. t.pc = "snapshot"
    BY DEF Decide
  <2>2. t.checkpoint = 0
    BY <2>1, AtTurn DEF SuspendsTheLastClaim, Releases, Appends
  <2>3. Idle.pending \in Event /\ log \in Seq(Event)
    BY NewEventType DEF Idle, TaskEvent, IInv, WorldOK
  <2>. QED  BY <2>1, <2>2, <2>3, AtTurn, Numbers
<1>2. \A c \in Claims(log) : c \in Nat
  BY Numbers
<1>3. CASE HandleCancellation(w, log)
  <2>1. PICK c \in Held(log), step \in {"block", "release"} :
          Move(w, [At(t, step) EXCEPT !.plan = "cancel", !.claim = c])
    BY <1>3 DEF HandleCancellation
  <2> DEFINE u == [At(t, step) EXCEPT !.plan = "cancel", !.claim = c]
  <2>2. c \in Nat
    BY <1>2, ProjectedClaims
  <2>3. /\ u \in TickType /\ u.pc = step /\ u.plan = "cancel" /\ u.checkpoint = 0 /\ u.at = t.at
        /\ u.seen = t.seen
    BY <1>1, <2>2 DEF At, TickType, Step, Plan
  <2>4. KeepsTime(u)
    BY <1>1, <2>3 DEF KeepsTime
  <2> HIDE DEF u
  <2>5. CASE step = "block"
    BY <1>1, <2>1, <2>3, <2>5, FreeTurns DEF u, Releases, Appends
  <2>6. CASE step = "release"
    <3>1. ClaimsInTurn(u)
      BY <2>3, <2>6 DEF ClaimsInTurn, Claiming, Recovers, Resumes, Appends
    <3>2. TakesItsTurn(u)
      BY <1>1, <2>3, <2>4, <2>6, <3>1, PlannedTurn
    <3>. QED  BY <1>1, <2>1, <2>3, <3>2, MoveTurns DEF u
  <2>. QED  BY <2>5, <2>6
<1>4. CASE HandleWait(w, log)
  <2>1. PICK k \in ResumableWait(log) : \E c \in ClaimOfWait(log, k) :
         Move(w, IF WaitReleased(log, k)
                 THEN [At(t, "inspect")
                          EXCEPT !.plan = "resume", !.claim = c, !.seen = Len(log)]
                 ELSE [At(t, "release")
                          EXCEPT !.plan = "suspend", !.claim = c, !.checkpoint = k])
    BY <1>4 DEF HandleWait
  <2>2. PICK c \in ClaimOfWait(log, k) :
         Move(w, IF WaitReleased(log, k)
                 THEN [At(t, "inspect")
                          EXCEPT !.plan = "resume", !.claim = c, !.seen = Len(log)]
                 ELSE [At(t, "release")
                          EXCEPT !.plan = "suspend", !.claim = c, !.checkpoint = k])
    BY <2>1
  <2>3. c \in Nat /\ k \in Nat /\ IsLastClaim(c, k)
    <3>1. c \in Claims(log) /\ k \in Of(log, {"approval-wait"})
      BY ProjectedClaims
    <3>2. k \in Nat
      BY <1>1, <3>1, Events
    <3>. QED  BY <1>1, <1>2, <3>1, <3>2, WaitClaim
  <2>4. CASE WaitReleased(log, k)
    <3> DEFINE u == [At(t, "inspect") EXCEPT !.plan = "resume", !.claim = c, !.seen = Len(log)]
    <3>1. Move(w, u)
      BY <2>2, <2>4
    <3>2. /\ u \in TickType /\ u.pc = "inspect" /\ u.plan = "resume" /\ u.checkpoint = 0
          /\ u.at = t.at /\ u.seen = Len(log)
      BY <1>1, <2>3 DEF At, TickType, Step, Plan
    <3> HIDE DEF u
    <3>3. KeepsTime(u)
      BY <1>1, <3>2 DEF KeepsTime
    <3>4. ResumedClaim(u) = {} => AllFree(u.at)
      <4>1. Snapshot(u) = log
        BY <1>1, <3>2, SnapshotOfAll
      <4>2. ASSUME NEW j \in ResumableWait(log) PROVE j = k
        <5>1. j \in Last(Of(log, {"approval-wait"})) /\ k \in Last(Of(log, {"approval-wait"}))
          BY DEF ResumableWait
        <5>2. j <= k /\ k <= j /\ j \in Of(log, {"approval-wait"})
          BY <5>1 DEF Last
        <5>3. j \in Nat
          BY <1>1, <5>2, Events
        <5>. QED  BY <2>3, <5>2, <5>3
      <4>3. ResumedClaim(u) = {} => \A x \in Live(log, t.at) : ~(x > k)
        BY <3>2, <4>1, <4>2 DEF ResumedClaim
      <4>4. ResumedClaim(u) = {} => AllFree(t.at)
        BY <1>1, <2>4, <4>3, WaitIsFree
      <4>. QED  BY <3>2, <4>4
    <3>5. ClaimsInTurn(u)
      <4>1. /\ ~Claiming(u) /\ ~Recovers(u) /\ ~Appends(u, {"claimed"})
            /\ u.plan = "resume" /\ u.pc = "inspect"
        BY <3>2 DEF Claiming, Recovers, Appends
      <4>2. \A x \in Claims(log) : x <= u.seen
        BY <3>2, Numbers
      <4>. QED  BY <3>4, <4>1, <4>2 DEF ClaimsInTurn
    <3>6. TakesItsTurn(u)
      BY <1>1, <3>2, <3>3, <3>5, PlannedTurn
    <3>. QED  BY <1>1, <3>1, <3>2, <3>6, MoveTurns
  <2>5. CASE ~WaitReleased(log, k)
    <3> DEFINE u == [At(t, "release") EXCEPT !.plan = "suspend", !.claim = c, !.checkpoint = k]
    <3>1. Move(w, u)
      BY <2>2, <2>5
    <3>2. /\ u \in TickType /\ u.pc = "release" /\ u.plan = "suspend" /\ u.checkpoint = k
          /\ u.claim = c /\ u.at = t.at
      BY <1>1, <2>3 DEF At, TickType, Step, Plan
    <3> HIDE DEF u
    <3>3. KeepsTime(u)
      BY <1>1, <3>2 DEF KeepsTime
    <3>4. ClaimsInTurn(u)
      BY <3>2 DEF ClaimsInTurn, Claiming, Recovers, Resumes, Appends
    <3>5. TakesItsTurn(u)
      BY <2>3, <3>2, <3>3, <3>4, PlannedTurn
    <3>. QED  BY <1>1, <3>1, <3>2, <3>5, MoveTurns
  <2>. QED  BY <2>4, <2>5
<1>5. CASE HandleActive(w, log)
  <2>1. PICK c \in Live(log, t.at), step \in {"context", "inspect"} :
          Move(w, [At(t, step) EXCEPT !.plan = "continue", !.claim = c, !.seen = Len(log)])
    BY <1>5 DEF HandleActive
  <2> DEFINE u == [At(t, step) EXCEPT !.plan = "continue", !.claim = c, !.seen = Len(log)]
  <2>2. /\ c \in Claims(log) /\ ~IsReleased(log, c) /\ log[c].expires > t.at
        /\ Of(log, {"completed"}) = {}
    BY DEF Live, Newest, Unreleased
  <2>3. /\ u \in TickType /\ u.pc = step /\ u.plan = "continue" /\ u.checkpoint = 0 /\ u.at = t.at
        /\ u.seen = Len(log) /\ u.claim = c
    BY <1>1, <1>2, <2>2 DEF At, TickType, Step, Plan
  <2> HIDE DEF u
  <2>4. KeepsTime(u)
    BY <1>1, <2>3 DEF KeepsTime
  <2>5. \A d \in Claims(log) : d <= c
    BY <1>1, <2>2, LiveIsLast
  <2>6. Recoverable(Snapshot(u), u.at) = {}
    <3>1. Snapshot(u) = log
      BY <1>1, <2>3, SnapshotOfAll
    <3>. QED  BY <1>1, <2>3, <3>1, LiveHolds
  <2>7. ClaimsInTurn(u)
    BY <2>3 DEF ClaimsInTurn, Claiming, Recovers, Resumes, Appends
  <2>8. TakesItsTurn(u)
    BY <1>1, <2>2, <2>3, <2>4, <2>5, <2>6, <2>7, PlannedTurn
  <2>. QED  BY <1>1, <2>1, <2>3, <2>8, MoveTurns DEF u
<1>6. CASE HandleStale(w, log)
  <2>1. PICK c \in Recoverable(log, t.at) : Move(w, Recovering(t, c))
    BY <1>6 DEF HandleStale
  <2> DEFINE u == Recovering(t, c)
  <2>2. /\ c \in Claims(log) /\ c \in Nat /\ Of(log, {"completed"}) = {}
        /\ \A d \in Unreleased(log) : log[d].gen < log[c].gen \/ log[d].gen = log[c].gen
    BY Numbers DEF Recoverable, Held, Newest, Unreleased
  <2>3. /\ u \in TickType /\ u.pc = "release" /\ u.plan = "recover" /\ u.claim = c
        /\ u.checkpoint = 0 /\ u.at = t.at
    BY <1>1, <2>2, RecoveringType
  <2> HIDE DEF u
  <2>4. KeepsTime(u)
    BY <1>1, <2>3 DEF KeepsTime
  <2>5. Live(log, t.at) = {}
    BY <1>6 DEF HandleStale, Ongoing
  <2>6. AllFree(u.at)
    BY <2>2, <2>3, <2>5, NoneLive
  <2>7. \A d \in Claims(log) : IsReleased(log, d) \/ log[d].gen <= log[u.claim].gen
    BY <2>2, <2>3, Numbers DEF Unreleased
  <2>8. ClaimsInTurn(u)
    BY <2>3, <2>6, <2>7 DEF ClaimsInTurn, Claiming, Recovers, Resumes, Appends
  <2>9. TakesItsTurn(u)
    BY <1>1, <2>3, <2>4, <2>8, PlannedTurn
  <2>. QED  BY <1>1, <2>1, <2>3, <2>9, MoveTurns DEF u
<1>7. CASE HandleCandidate(w, log)
  <2> DEFINE u == [At(t, "claim") EXCEPT !.plan = "start"]
  <2>1. Move(w, u)
    BY <1>7 DEF HandleCandidate
  <2>2. /\ u \in TickType /\ u.pc = "claim" /\ u.plan = "start" /\ u.checkpoint = 0 /\ u.at = t.at
    BY <1>1 DEF At, TickType, Step, Plan
  <2> HIDE DEF u
  <2>3. KeepsTime(u)
    BY <1>1, <2>2 DEF KeepsTime
  <2>4. Claims(log) = {} /\ Of(log, {"completed"}) = {}
    <3>1. Of(log, AttemptEvent) = {}
      BY <1>7 DEF HandleCandidate, Claimable
    <3>. QED  BY <3>1 DEF Of, Claims, AttemptEvent
  <2>5. ClaimsInTurn(u)
    BY <2>2, <2>4 DEF ClaimsInTurn, Claiming, Recovers, Resumes, Appends, AllFree
  <2>6. TakesItsTurn(u)
    BY <1>1, <2>2, <2>3, <2>5, PlannedTurn
  <2>. QED  BY <1>1, <2>1, <2>2, <2>6, MoveTurns
<1>8. CASE NothingToDo(w, log)
  BY <1>1, <1>8, IdleTurns DEF NothingToDo
<1>. QED  BY <1>3, <1>4, <1>5, <1>6, <1>7, <1>8 DEF Decide

----------------------------------------------------------------------------
(* Its other steps.                                                        *)

\* It reads the length of a stream and is about to append to it.
LEMMA PrepareTurns ==
    ASSUME IInv, Turns, NEW w \in Worker, NEW e \in Event, Prepare(w, e),
           tick[w].pc \notin {"idle", "readback", "send"},
           e.type = "claimed" <=> tick[w].pc = "claim",
           e.type = "claimed" =>
               /\ e.expires = tick[w].at + Lease
               /\ \A d \in Claims(log) : IsReleased(log, d) \/ log[d].gen < e.gen,
           e.type = "released" <=> tick[w].pc = "release",
           e.type = "released" =>
               e.claim = tick[w].claim /\ e.checkpoint = tick[w].checkpoint,
           e.type \in {"approval-wait", "context-ready"} => Suspends(tick[w]),
           e.type = "approval-wait" => e.gen = log[tick[w].claim].gen,
           e.type \in {"run-completed", "completed", "task-completed"} => Announcer(tick[w])
    PROVE  Turns'
<1> DEFINE t == tick[w]
           u == [t EXCEPT !.pc = "send", !.pending = e, !.base = StreamLength(log, e.type)]
<1>1. /\ t \in TickType /\ KnowsItsClaim(t) /\ ClaimsInTurn(t) /\ KeepsTime(t)
      /\ KeepsToItsPlan(t) /\ SuspendsTheLastClaim(t) /\ TakesItsTurn(t)
  BY AtTurn
<1>2. StreamLength(log, e.type) \in Nat
  BY StreamGrows DEF IInv, WorldOK
<1>3. /\ u \in TickType /\ u.pc = "send" /\ u.plan = t.plan /\ u.at = t.at /\ u.seen = t.seen
      /\ u.claim = t.claim /\ u.checkpoint = t.checkpoint /\ u.pending = e
  BY <1>1, <1>2 DEF TickType, Step
<1>4. Move(w, u)
  BY DEF Prepare
<1> HIDE DEF u
<1>5. \A types : Appends(u, types) <=> e.type \in types
  BY <1>3 DEF Appends
<1>6. /\ Claiming(u) <=> Claiming(t)
      /\ Releases(u) <=> Releases(t)
      /\ Recovers(u) <=> Recovers(t)
      /\ ~Resumes(u)
  BY <1>3, <1>5 DEF Claiming, Releases, Recovers, Resumes, Appends
<1>7. KeepsTime(u)
  BY <1>1, <1>3 DEF KeepsTime
<1>8. ClaimsInTurn(u)
  BY <1>1, <1>3, <1>5, <1>6 DEF ClaimsInTurn
<1>9. KeepsToItsPlan(u)
  <2>1. Snapshot(u) = Snapshot(t)
    BY <1>3 DEF Snapshot
  <2>. QED  BY <1>1, <1>3, <1>6, <2>1 DEF KeepsToItsPlan
<1>10. SuspendsTheLastClaim(u)
  <2>1. Suspends(u) => Suspends(t)
    BY <1>3, <1>5 DEF Suspends
  <2>. QED  BY <1>1, <1>3, <1>5, <1>6, <2>1 DEF SuspendsTheLastClaim
<1>11. Announcer(u) => Announcer(t)
  BY <1>3, <1>5 DEF Announcer, Past, Finishing, Completing, Settling
<1>12. TakesItsTurn(u)
  BY <1>1, <1>7, <1>8, <1>9, <1>10, <1>11 DEF TakesItsTurn
<1>. QED  BY <1>3, <1>4, <1>12, MoveTurns

\* The generation of its claim is the highest of those that are not released.
LEMMA ClaimTurns == ASSUME IInv, Turns, NEW w \in Worker, Claim(w) PROVE Turns'
<1> DEFINE t == tick[w]
           g == Generation(t)
           e == [NewEvent("claimed", g) EXCEPT !.expires = t.at + Lease]
<1>1. t.pc = "claim" /\ Prepare(w, e)
  BY DEF Claim
<1>2. g \in Nat /\ t.at + Lease \in Nat
  BY <1>1, GenerationType, Numbers
<1>3. e \in Event /\ e.type = "claimed" /\ e.gen = g /\ e.expires = t.at + Lease
  BY <1>2, NewEventType DEF NewEvent, Event, AttemptEvent
<1>4. ClaimsInTurn(t) /\ KnowsItsClaim(t)
  BY <1>1, AtTurn
<1>5. ASSUME NEW d \in Claims(log) PROVE IsReleased(log, d) \/ log[d].gen < g
  <2>1. CASE t.plan = "start"
    BY <1>1, <1>4, <2>1 DEF ClaimsInTurn, Claiming
  <2>2. CASE t.plan = "recover"
    <3>1. t.claim \in Claims(log)
      BY <1>1, <1>4, <2>2 DEF KnowsItsClaim
    <3>2. g = log[t.claim].gen + 1
      BY <2>2 DEF Generation
    <3>3. IsReleased(log, d) \/ log[d].gen <= log[t.claim].gen
      BY <1>1, <1>4, <2>2 DEF ClaimsInTurn
    <3>. QED  BY <3>1, <3>2, <3>3, Numbers
  <2>3. CASE t.plan = "resume"
    BY <1>1, <1>4, <2>3, GenerationType DEF ClaimsInTurn, Resumes
  <2>. QED  BY <1>1, <1>4, <2>1, <2>2, <2>3 DEF KnowsItsClaim
<1> HIDE DEF e, g
<1>. QED  BY <1>1, <1>3, <1>5, PrepareTurns

LEMMA ReadbackTurns ==
    ASSUME IInv, Turns, NEW w \in Worker, Readback(w) \/ Recheck(w) PROVE Turns'
<1> DEFINE t == tick[w]
<1>1. /\ t.pc \in {"readback", "recheck"} /\ TakesItsTurn(t) /\ t \in TickType
      /\ t.checkpoint = 0 /\ ~Releases(t) /\ 0 \notin Of(log, {"approval-wait"})
  <2>1. t.pc \in {"readback", "recheck"}
    BY DEF Readback, Recheck
  <2>2. t.checkpoint = 0 /\ ~Releases(t)
    BY <2>1, AtTurn DEF SuspendsTheLastClaim, Releases, Appends
  <2>. QED  BY <2>1, <2>2, AtTurn
<1>2. ASSUME NEW step \in {"recheck", "context", "block", "release", "dispatch"}
      PROVE  /\ At(t, step) \in TickType /\ At(t, step).pc = step
             /\ At(t, step).plan = t.plan /\ At(t, step).at = t.at
             /\ At(t, step).seen = t.seen /\ At(t, step).claim = t.claim
             /\ At(t, step).checkpoint = 0
  BY <1>1, AtType DEF Step
<1>3. CASE Move(w, Idle)
  BY <1>1, <1>3, IdleTurns
<1>4. CASE \E step \in {"recheck", "block", "dispatch"} :
              t.plan # "recover" /\ Move(w, At(t, step))
  BY <1>1, <1>2, <1>4, FreeTurns
<1>5. CASE Recheck(w) /\ Move(w, At(t, "release"))
  <2> DEFINE u == At(t, "release")
  <2>1. /\ u \in TickType /\ u.pc = "release" /\ u.plan = t.plan /\ u.at = t.at
        /\ u.seen = t.seen /\ u.checkpoint = 0
    BY <1>2
  <2> HIDE DEF u
  <2>2. u.plan # "recover"
    BY <1>1, <1>5, <2>1
    DEF Recheck, TakesItsTurn, KeepsToItsPlan, Claiming, Releases, Appends
  <2>3. KeepsTime(u) /\ ClaimsInTurn(u)
    BY <1>1, <2>1, <2>2
    DEF TakesItsTurn, KeepsTime, ClaimsInTurn, Claiming, Recovers, Resumes, Appends
  <2>4. u.plan = "continue" => Recoverable(Snapshot(u), u.at) = {}
    BY <1>1, <2>1 DEF TakesItsTurn, KeepsToItsPlan, Snapshot
  <2>5. TakesItsTurn(u)
    BY <1>1, <2>1, <2>2, <2>3, <2>4, PlannedTurn
  <2>. QED  BY <1>1, <1>5, <2>1, <2>5, MoveTurns DEF u
<1>6. CASE t.pc = "readback" /\ t.plan = "start" /\ Owns(t) /\ Move(w, At(t, "context"))
  <2> DEFINE u == At(t, "context")
  <2>1. /\ u \in TickType /\ u.pc = "context" /\ u.plan = "start" /\ u.at = t.at
        /\ u.seen = t.seen /\ u.checkpoint = 0 /\ u.claim = t.claim
    BY <1>2, <1>6
  <2> HIDE DEF u
  <2>2. Of(log, {"completed"}) = {}
    BY <1>1, <1>6 DEF TakesItsTurn, ClaimsInTurn
  <2>3. \A d \in Claims(log) : d <= t.claim
    <3>1. t.claim \in Last(Of(log, AttemptEvent))
      BY <1>6 DEF Owns
    <3>2. \A d \in Claims(log) : d \in Of(log, AttemptEvent)
      BY DEF Claims, Of, AttemptEvent
    <3>. QED  BY <3>1, <3>2 DEF Last
  <2>4. KeepsTime(u) /\ ClaimsInTurn(u)
    BY <1>1, <2>1
    DEF TakesItsTurn, KeepsTime, ClaimsInTurn, Claiming, Recovers, Resumes, Appends
  <2>5. TakesItsTurn(u)
    BY <1>1, <2>1, <2>2, <2>3, <2>4, PlannedTurn
  <2>. QED  BY <1>1, <1>6, <2>1, <2>5, MoveTurns DEF u
<1>7. Recheck(w) => t.plan # "recover"
  BY <1>1 DEF Recheck, TakesItsTurn, KeepsToItsPlan, Claiming, Releases, Appends
<1>. QED  BY <1>3, <1>4, <1>5, <1>6, <1>7 DEF Readback, NotOwned, Owned, Recheck

\* It suspends or blocks the attempt.
LEMMA SuspendTurns ==
    ASSUME IInv, Turns, NEW w \in Worker, tick[w].pc # "idle", ~Releases(tick[w]),
           NEW step \in {"wait", "block"}, step = "wait" => Suspends(tick[w]),
           Move(w, [At(tick[w], step) EXCEPT !.plan = "suspend"])
    PROVE  Turns'
<1> DEFINE t == tick[w]
           u == [At(t, step) EXCEPT !.plan = "suspend"]
<1>1. t \in TickType /\ Idle.pending \in Event /\ TakesItsTurn(t) /\ t.checkpoint = 0
      /\ 0 \notin Of(log, {"approval-wait"})
  BY NewEventType, AtTurn DEF Idle, TaskEvent, SuspendsTheLastClaim
<1>2. /\ u \in TickType /\ u.pc = step /\ u.claim = t.claim /\ u.seen = t.seen /\ u.at = t.at
      /\ u.checkpoint = 0 /\ u.plan = "suspend"
  BY <1>1 DEF At, TickType, Step, Plan
<1> HIDE DEF u
<1>3. CASE step = "block"
  BY <1>1, <1>2, <1>3, FreeTurns DEF u
<1>4. CASE step = "wait"
  <2>1. KeepsTime(u) /\ ClaimsInTurn(u) /\ KeepsToItsPlan(u)
    BY <1>1, <1>2, <1>4 DEF TakesItsTurn, KeepsTime, ClaimsInTurn, KeepsToItsPlan, Claiming,
                            Recovers, Resumes, Appends
  <2>2. SuspendsTheLastClaim(u)
    BY <1>1, <1>2, <1>4 DEF TakesItsTurn, SuspendsTheLastClaim, Appends
  <2>3. ~Announcer(u)
    BY <1>2, <1>4 DEF Announcer, Past, Finishing, Completing, Settling, Appends
  <2>4. TakesItsTurn(u)
    BY <2>1, <2>2, <2>3 DEF TakesItsTurn
  <2>. QED  BY <1>2, <2>4, MoveTurns DEF u
<1>. QED  BY <1>3, <1>4

LEMMA ContextTurns ==
    ASSUME IInv, Turns, NEW w \in Worker, AssembleContext(w) \/ Wait(w) \/ Block(w) \/ Release(w)
    PROVE  Turns'
<1> DEFINE t == tick[w]
           g == log[t.claim].gen
<1>1. t.pc \in {"context", "wait", "block", "release"} /\ g \in Nat /\ t.claim # 0
  <2>1. t.pc \in {"context", "wait", "block", "release"}
    BY DEF AssembleContext, Wait, Block, Release
  <2>. QED  BY <2>1, AtStep, ClaimAt DEF ClaimSteps, Step
<1>2. \A type \in {"context-ready", "approval-wait", "blocked"} :
         NewEvent(type, g) \in Event /\ NewEvent(type, g).type = type
         /\ NewEvent(type, g).gen = g
  BY <1>1, NewEventType DEF AttemptEvent, Checkpoint, NewEvent
<1>3. CASE AssembleContext(w)
  <2>1. t.pc = "context" /\ Suspends(t) /\ ~Releases(t)
    BY <1>3 DEF AssembleContext, Suspends, Releases, Appends
  <2>2. CASE Prepare(w, NewEvent("context-ready", g))
    BY <1>2, <2>1, <2>2, PrepareTurns
  <2>3. CASE Move(w, [At(t, "block") EXCEPT !.plan = "suspend"])
    BY <2>1, <2>3, SuspendTurns
  <2>. QED  BY <1>3, <2>2, <2>3 DEF AssembleContext
<1>4. CASE Wait(w)
  <2>1. t.pc = "wait" /\ Suspends(t) /\ Prepare(w, NewEvent("approval-wait", g))
    BY <1>4 DEF Wait, Suspends
  <2>. QED  BY <1>2, <2>1, PrepareTurns
<1>5. CASE Block(w)
  <2>1. t.pc = "block" /\ Prepare(w, NewEvent("blocked", g))
    BY <1>5 DEF Block
  <2>. QED  BY <1>2, <2>1, PrepareTurns
<1>6. CASE Release(w)
  <2> DEFINE e == [NewEvent("released", g) EXCEPT !.claim = t.claim, !.checkpoint = t.checkpoint]
  <2>1. e \in Event /\ e.type = "released" /\ e.claim = t.claim /\ e.checkpoint = t.checkpoint
    BY <1>1, AtStep DEF NewEvent, Event, AttemptEvent, TickType
  <2>2. t.pc = "release" /\ Prepare(w, e)
    BY <1>6 DEF Release
  <2> HIDE DEF e
  <2>. QED  BY <2>1, <2>2, PrepareTurns
<1>. QED  BY <1>3, <1>4, <1>5, <1>6

LEMMA InspectTurns == ASSUME IInv, Turns, NEW w \in Worker, Inspect(w) PROVE Turns'
<1> DEFINE t == tick[w]
<1>1. /\ t.pc = "inspect" /\ ~Releases(t) /\ t \in TickType /\ TakesItsTurn(t) /\ t.checkpoint = 0
      /\ ClaimsInTurn(t) /\ KeepsTime(t) /\ t.plan # "recover"
      /\ 0 \notin Of(log, {"approval-wait"})
  <2>1. t.pc = "inspect" /\ ~Releases(t)
    BY DEF Inspect, Releases, Appends
  <2>2. TakesItsTurn(t) /\ t.checkpoint = 0
    BY <2>1, AtTurn DEF SuspendsTheLastClaim
  <2>3. t.plan # "recover"
    BY <2>1, <2>2 DEF TakesItsTurn, KeepsToItsPlan, Claiming, Appends
  <2>. QED  BY <2>1, <2>2, <2>3, AtTurn
<1>2. CASE InspectWaiting(w)
  <2>1. CASE Move(w, Idle)
    BY <1>1, <2>1, IdleTurns
  <2>2. CASE t.plan # "resume" /\ Move(w, [At(t, "wait") EXCEPT !.plan = "suspend"])
    <3>1. Suspends(t)
      BY <1>1, <2>2 DEF Suspends
    <3>. QED  BY <1>1, <2>2, <3>1, SuspendTurns
  <2>. QED  BY <1>2, <2>1, <2>2 DEF InspectWaiting
<1>3. CASE Move(w, At(t, "dispatch"))
  <2> DEFINE u == At(t, "dispatch")
  <2>1. /\ u \in TickType /\ u.pc = "dispatch" /\ u.plan = t.plan /\ u.at = t.at
        /\ u.seen = t.seen /\ u.checkpoint = t.checkpoint
    BY <1>1, AtType DEF Step
  <2> HIDE DEF u
  <2>. QED  BY <1>1, <1>3, <2>1, FreeTurns DEF u
<1>4. CASE t.plan = "resume" /\ ResumedClaim(t) = {} /\ Move(w, At(t, "claim"))
  <2> DEFINE u == At(t, "claim")
  <2>1. /\ u \in TickType /\ u.pc = "claim" /\ u.plan = "resume" /\ u.at = t.at
        /\ u.seen = t.seen /\ u.checkpoint = 0
    BY <1>1, <1>4, AtType DEF Step
  <2> HIDE DEF u
  <2>2. Resumes(t)
    BY <1>1, <1>4 DEF Resumes
  <2>3. AllFree(u.at) /\ \A c \in Claims(log) : c <= u.seen
    BY <1>1, <1>4, <2>1, <2>2 DEF ClaimsInTurn
  <2>4. ClaimsInTurn(u)
    BY <2>1, <2>3 DEF ClaimsInTurn, Recovers, Appends
  <2>5. KeepsTime(u)
    BY <1>1, <2>1 DEF KeepsTime
  <2>6. TakesItsTurn(u)
    BY <1>1, <2>1, <2>4, <2>5, PlannedTurn
  <2>. QED  BY <1>1, <1>4, <2>1, <2>6, MoveTurns DEF u
<1>5. CASE t.plan = "resume" /\ \E c \in ResumedClaim(t) : Move(w, [At(t, "dispatch") EXCEPT !.claim = c])
  <2>1. PICK c \in ResumedClaim(t) : Move(w, [At(t, "dispatch") EXCEPT !.claim = c])
    BY <1>5
  <2> DEFINE u == [At(t, "dispatch") EXCEPT !.claim = c]
  <2>2. c \in Nat
    <3>1. log \in Seq(Event) /\ t.seen \in Nat /\ t.seen <= Len(log)
      BY AtStep DEF IInv, WorldOK, KnowsItsClaim, TickType
    <3>2. c \in Claims(Snapshot(t))
      BY ProjectedClaims DEF ResumedClaim
    <3>3. c \in Claims(log)
      BY <3>1, <3>2, SnapshotIsLog DEF Claims
    <3>. QED  BY <3>3, Numbers
  <2>3. Idle.pending \in Event
    BY NewEventType DEF Idle, TaskEvent
  <2>4. /\ u \in TickType /\ u.pc = "dispatch" /\ u.plan = t.plan /\ u.at = t.at
        /\ u.seen = t.seen /\ u.checkpoint = t.checkpoint
    BY <1>1, <2>2, <2>3 DEF At, TickType, Step
  <2> HIDE DEF u
  <2>. QED  BY <1>1, <2>1, <2>4, FreeTurns DEF u
<1>. QED  BY <1>2, <1>3, <1>4, <1>5 DEF Inspect, InspectApproved

\* It is at the runner, or past it.
LEMMA RunnerTurns ==
    ASSUME IInv, Turns, NEW w \in Worker,
           \/ FindContext(w) \/ Announce(w) \/ Run(w) \/ CheckHandoff(w) \/ Finalize(w)
           \/ CheckReady(w) \/ Complete(w) \/ Settle(w)
    PROVE  Turns'
<1> DEFINE t == tick[w]
<1>1. /\ t.pc \in {"dispatch", "announce", "run", "handoff", "finalize", "ready", "complete", "settle"}
      /\ TakesItsTurn(t) /\ t \in TickType /\ ~Releases(t) /\ t.checkpoint = 0
      /\ t.plan # "recover" /\ 0 \notin Of(log, {"approval-wait"})
      /\ Returned(t) = Idle
  <2>1. t.pc \in {"dispatch", "announce", "run", "handoff", "finalize", "ready", "complete", "settle"}
    BY DEF FindContext, Announce, Run, CheckHandoff, Finalize, CheckReady, Complete, Settle
  <2>2. TakesItsTurn(t) /\ ~Releases(t) /\ t.checkpoint = 0
    BY <2>1, AtTurn DEF SuspendsTheLastClaim, Releases, Appends
  <2>3. t.plan # "recover"
    BY <2>1, <2>2 DEF TakesItsTurn, KeepsToItsPlan, Claiming, Appends
  <2>. QED  BY <2>1, <2>2, <2>3, AtTurn, NothingToRecover
<1>2. CASE Move(w, Idle)
  BY <1>1, <1>2, IdleTurns
<1>3. CASE \E step \in {"announce", "block"} : Move(w, At(t, step))
  <2>1. PICK step \in {"announce", "block"} : Move(w, At(t, step))
    BY <1>3
  <2> DEFINE u == At(t, step)
  <2>2. /\ u \in TickType /\ u.pc = step /\ u.plan = t.plan /\ u.at = t.at
        /\ u.seen = t.seen /\ u.checkpoint = t.checkpoint
    BY <1>1, AtType DEF Step
  <2> HIDE DEF u
  <2>. QED  BY <1>1, <2>1, <2>2, FreeTurns DEF u
<1>4. ASSUME NEW step \in {"handoff", "finalize", "complete"}, Announcer(t), UNCHANGED <<log, now>>,
             Become(w, At(t, step))
      PROVE  Turns'
  <2> DEFINE u == At(t, step)
  <2>1. /\ u \in TickType /\ u.pc = step /\ u.plan = t.plan /\ u.at = t.at
        /\ u.seen = t.seen /\ u.checkpoint = 0
    BY <1>1, AtType DEF Step
  <2> HIDE DEF u
  <2>2. KeepsTime(u) /\ ClaimsInTurn(u)
    BY <1>1, <2>1
    DEF TakesItsTurn, KeepsTime, ClaimsInTurn, Claiming, Recovers, Resumes, Appends
  <2>3. KeepsToItsPlan(u)
    BY <1>1, <2>1 DEF TakesItsTurn, KeepsToItsPlan, Snapshot
  <2>4. SuspendsTheLastClaim(u)
    BY <1>1, <2>1 DEF SuspendsTheLastClaim, Suspends, Releases, Appends
  <2>5. TakesItsTurn(u)
    BY <1>1, <1>4, <2>2, <2>3, <2>4 DEF TakesItsTurn
  <2>. QED  BY <1>1, <1>4, <2>1, <2>5, TurnMoves DEF Become, u
<1>5. t.pc \in {"run", "handoff", "finalize", "ready", "complete", "settle"} => Announcer(t)
  BY DEF Announcer, Past, Finishing, Completing, Settling
<1>6. ASSUME NEW type \in {"runner-dispatching", "run-completed", "completed", "task-completed"},
             NEW g \in Nat, Prepare(w, NewEvent(type, g)),
             type # "runner-dispatching" => Announcer(t)
      PROVE  Turns'
  <2>1. NewEvent(type, g) \in Event /\ NewEvent(type, g).type = type
    BY NewEventType DEF AttemptEvent, TaskEvent, Checkpoint
  <2>. QED  BY <1>1, <1>6, <2>1, PrepareTurns
<1>7. CASE FindContext(w)
  BY <1>3, <1>7 DEF FindContext
<1>8. CASE Announce(w)
  <2>1. log[t.claim].gen \in Nat
    BY <1>8, AtStep, ClaimAt DEF Announce, ClaimSteps, Step
  <2>. QED  BY <1>1, <1>2, <1>6, <1>8, <2>1 DEF Announce
<1>9. CASE Run(w)
  <2>1. UNCHANGED <<log, now>> /\ Announcer(t)
    BY <1>5, <1>9 DEF Run, world
  <2>2. CASE Become(w, Returned(t))
    <3>1. Idle \in TickType /\ Idle.pc = "idle"
      BY IdleType DEF IInv
    <3>. QED  BY <1>1, <2>1, <2>2, <3>1, TurnMoves DEF Become
  <2>. QED  BY <1>4, <1>9, <2>1, <2>2 DEF Run
<1>10. CASE CheckHandoff(w) \/ CheckReady(w)
  BY <1>1, <1>2, <1>4, <1>5, <1>10 DEF CheckHandoff, CheckReady, Move, world
<1>11. CASE Finalize(w) \/ Complete(w) \/ Settle(w)
  BY <1>2, <1>5, <1>6, <1>11 DEF Finalize, Complete, Settle
<1>. QED  BY <1>7, <1>8, <1>9, <1>10, <1>11

LEMMA RefusedTurns ==
    ASSUME IInv, Turns, NEW w \in Worker, tick[w].pc = "send", Refused(w) PROVE Turns'
<1>1. tick[w].pending.type = "context-ready" => ~Releases(tick[w])
  BY DEF Releases, Appends
<1>. QED  BY <1>1, IdleTurns, SuspendTurns DEF Refused

LEMMA InitTurns == Init => TurnInv
<1> SUFFICES ASSUME Init PROVE Turns
  BY DEF TurnInv
<1>1. log = <<NewEvent("queued", 0)>>
  BY DEF Init
<1>2. \A types : "queued" \notin types => Of(log, types) = {}
  BY <1>1, NewEventType DEF Of, TaskEvent
<1>3. \A w \in Worker : tick[w].pc = "idle"
  BY DEF Init, Idle
<1>4. Claims(log) = {} /\ LogTakesTurns
  BY <1>2 DEF Claims, LogTakesTurns, ReleasesLookBack, WaitsAreOfTheLastClaim,
              ClaimsExpireInOrder, GenerationsRise
<1>. QED  BY <1>3, <1>4 DEF Turns, OneTick

LEMMA NextTurns == IInv /\ TurnInv /\ [Next]_vars => TurnInv'
<1> SUFFICES ASSUME IInv, TurnInv, [Next]_vars, most'.overlaps = 0 PROVE Turns'
  BY DEF TurnInv
<1>1. most' = most
  BY DEF Next, vars, bounds, StartTick, Crash, AskCancel, Cancel, Approve, Lapse, Advance, Progress,
         Send, Refused, Decide, HandleCancellation, HandleWait, HandleActive,
         HandleStale, HandleCandidate, NothingToDo, Claim, Readback, NotOwned, Owned,
         Recheck, AssembleContext, Inspect, InspectApproved, InspectWaiting, Wait, Block,
         Release, FindContext, Announce, CheckHandoff, Finalize, CheckReady, Complete, Settle,
         Run, Accepted, Prepare, Move, world
<1>2. Turns /\ most.overlaps = 0
  BY <1>1 DEF TurnInv
<1>3. ASSUME NEW w \in Worker, Progress(w) PROVE Turns'
  BY <1>2, <1>3, DecideTurns, ClaimTurns, ReadbackTurns, ContextTurns, InspectTurns,
     RunnerTurns, RefusedTurns, AcceptedTurns DEF Progress, Send
<1>. QED  BY <1>2, <1>3, StartTurns, CrashTurns, WorldTurns, CancelTurns DEF Next

\* Ticks that do not overlap, however they end, claim the attempt only when each
\* of its claims was released or has expired (handleStaleClaims,
\* handleSuspendedApprovalWaits).
THEOREM TurnsTaken == Spec => []ClaimsTakeTurns
<1>1. TurnInv => ClaimsTakeTurns
  BY DEF TurnInv, Turns, LogTakesTurns, ClaimsExpireInOrder, ClaimsTakeTurns
<1>. QED  BY <1>1, InitTurns, NextTurns, InvariantHolds, PTL DEF Spec

=============================================================================
