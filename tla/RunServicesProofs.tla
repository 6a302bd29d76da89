--------------------------- MODULE RunServicesProofs ---------------------------
(***************************************************************************)
(* What the services that work on one run promise, whoever else is at work *)
(* on the ledger: the chain of its handoffs, its loop, and the end of a    *)
(* mounted task.                                                           *)
(*                                                                         *)
(* An append that is still accepted finds the stream as long as it was     *)
(* read, so what its caller read holds where it is appended.  A loop has   *)
(* more: a token that is still good says that the run has been its own.    *)
(* Of a mounted task's executions one at a time is inside the gate.        *)
(***************************************************************************)
EXTENDS WorkspaceServicesProofs

----------------------------------------------------------------------------
(* Handoffs: what a whole ledger of chains says.                            *)

HandTypes == Stages \union {"final"}

HandStream(type) ==
    IF type = "orchestrated" THEN AttemptStream
    ELSE IF type = "status" THEN TaskStream ELSE RunStream

\* An event of a chain stays where it is.
LEMMA Stays ==
    ASSUME NEW s, NEW t, Extends(s, t), NEW type, NEW i \in OfType(s, type)
    PROVE  i \in OfType(t, type) /\ t[i] = s[i] /\ i \in 1..Len(s) /\ i \notin Since(s, t)
BY OfTypeExtends

LEMMA IdsArePlaces ==
    ASSUME NEW s, IsLedger(s), NEW type, NEW i \in OfType(s, type)
    PROVE  i \in 1..Len(s) /\ i \in Nat /\ i # 0 /\ s[i].type = type
BY LedgerFacts DEF OfType

LEMMA StreamsOfChains ==
    ASSUME NEW s, ChainsAreWhole(s), NEW i \in DOMAIN s, s[i].type \in HandTypes
    PROVE  s[i].stream = HandStream(s[i].type)
<1>1. i \in OfType(s, s[i].type)
  BY DEF OfType
<1>2. CASE s[i].type = "final"
  BY <1>1, <1>2 DEF ChainsAreWhole, FinalsAreWhole, HandStream
<1>3. CASE s[i].type = "prepared"
  BY <1>1, <1>3 DEF ChainsAreWhole, PreparedAreWhole, HandStream
<1>4. CASE s[i].type = "recorded"
  BY <1>1, <1>4 DEF ChainsAreWhole, RecordedAreWhole, HandStream
<1>5. CASE s[i].type = "terminal"
  BY <1>1, <1>5 DEF ChainsAreWhole, TerminalsAreWhole, HandStream
<1>6. CASE s[i].type = "orchestrated"
  BY <1>1, <1>6 DEF ChainsAreWhole, OrchestratedAreWhole, HandStream
<1>7. CASE s[i].type = "status"
  BY <1>1, <1>7 DEF ChainsAreWhole, StatusesAreWhole, HandStream
<1>. QED  BY <1>2, <1>3, <1>4, <1>5, <1>6, <1>7 DEF HandTypes, Stages

\* What is recorded was prepared before, from an output before that.
LEMMA RecordedIs ==
    ASSUME NEW s, IsLedger(s), ChainsAreWhole(s), NEW i \in OfType(s, "recorded")
    PROVE  LET b == s[i].binding IN
           /\ s[i].cause \in OfType(s, "prepared") /\ s[i].cause < i /\ b = s[s[i].cause].binding
           /\ Binds(s, b) /\ b.final < s[i].cause
<1>1. /\ s[i].cause \in OfType(s, "prepared") /\ s[i].cause < i
      /\ s[i].binding = s[s[i].cause].binding
  BY DEF ChainsAreWhole, RecordedAreWhole
<1>2. Binds(s, s[s[i].cause].binding) /\ s[s[i].cause].binding.final < s[i].cause
  BY <1>1 DEF ChainsAreWhole, PreparedAreWhole
<1>. QED  BY <1>1, <1>2

\* The later of two recorded handoffs supersedes the earlier one: each is of an
\* output of its own, and the second output was allowed because of a handoff
\* of the first one.
LEMMA LaterSupersedes ==
    ASSUME NEW s, IsLedger(s), ChainsAreWhole(s),
           NEW i \in OfType(s, "recorded"), NEW j \in OfType(s, "recorded"), i < j
    PROVE  s[j].binding.supersedes = i
<1> DEFINE b == s[i].binding
           d == s[j].binding
           r == d.supersedes
           a == s[r].binding
<1>1. /\ d.supersedes # 0 /\ Identity(b) # Identity(d)
  BY DEF ChainsAreWhole, RecordedAreWhole
<1>2. /\ Binds(s, b) /\ Binds(s, d) /\ b.final < s[i].cause /\ d.final < s[j].cause
      /\ s[i].cause \in OfType(s, "prepared") /\ s[j].cause \in OfType(s, "prepared")
      /\ s[i].cause < i /\ s[j].cause < j
  BY RecordedIs
<1>3. /\ b.final \in OfType(s, "final") /\ b.supersedes = s[b.final].supersedes
      /\ d.final \in OfType(s, "final") /\ d.supersedes = s[d.final].supersedes
      /\ b.revision = RevisionAfter(s, b.supersedes) /\ d.revision = RevisionAfter(s, d.supersedes)
  BY <1>2 DEF Binds
<1>4. b.final # d.final
  BY <1>1, <1>3 DEF Identity
<1>5. r \in OfType(s, "recorded") /\ r < d.final
  BY <1>1, <1>3 DEF ChainsAreWhole, FinalsAreWhole
<1>6. /\ Binds(s, a) /\ a.final < s[r].cause /\ s[r].cause < r
      /\ s[r].cause \in OfType(s, "prepared")
  BY <1>5, RecordedIs
<1>7. a.final \in OfType(s, "final") /\ a.supersedes = s[a.final].supersedes
      /\ a.revision = RevisionAfter(s, a.supersedes)
  BY <1>6 DEF Binds
<1>8. /\ i \in Nat /\ j \in Nat /\ r \in Nat /\ b.final \in Nat /\ d.final \in Nat /\ a.final \in Nat
      /\ s[i].cause \in Nat /\ s[j].cause \in Nat /\ s[r].cause \in Nat
  <2>. HIDE DEF b, d, r, a
  <2>1. i \in Nat /\ j \in Nat /\ r \in Nat
    BY <1>5, IdsArePlaces
  <2>2. b.final \in Nat /\ d.final \in Nat /\ a.final \in Nat
    BY <1>3, <1>7, IdsArePlaces
  <2>3. s[i].cause \in Nat /\ s[j].cause \in Nat /\ s[r].cause \in Nat
    BY <1>2, <1>6, IdsArePlaces
  <2>. QED  BY <2>1, <2>2, <2>3
<1>9. a.final < d.final
  BY <1>5, <1>6, <1>8
<1>10. b.final = a.final
  <2>1. CASE b.final < d.final
    BY <1>3, <2>1 DEF ChainsAreWhole, FinalsAreWhole
  <2>2. CASE d.final < b.final
    <3>1. \A g \in OfType(s, "final") : g < b.final => g = s[s[b.final].supersedes].binding.final
      BY <1>3 DEF ChainsAreWhole, FinalsAreWhole
    <3>2. a.final < b.final
      BY <1>8, <1>9, <2>2
    <3>3. a.final = d.final
      BY <1>3, <1>7, <2>2, <3>1, <3>2
    <3>. QED  BY <1>8, <1>9, <3>3
  <2>. QED  BY <1>4, <1>8, <2>1, <2>2
<1>11. Identity(b) = Identity(a)
  BY <1>3, <1>7, <1>10 DEF Identity
<1>12. i = r
  <2>1. i < r => Identity(b) # Identity(a)
    BY <1>5 DEF ChainsAreWhole, RecordedAreWhole
  <2>2. r < i => Identity(a) # Identity(b)
    BY <1>5 DEF ChainsAreWhole, RecordedAreWhole
  <2>. QED  BY <1>8, <1>11, <2>1, <2>2
<1>. QED  BY <1>12

\* What makes the chains whole makes the handoffs sound.
LEMMA WholeChainsAreSound ==
    ASSUME IsLedger(log), ChainsAreWhole(log)
    PROVE  HandoffIsSound
<1>0. \A type : OfType(log, type) \subseteq 1..Len(log)
  BY IdsArePlaces
<1>1. OneCurrentHandoff
  <2> DEFINE recorded == OfType(log, "recorded")
  <2>1. Cardinality(recorded \ Superseded(log)) <= 1
    <3>1. IsFiniteSet(recorded \ Superseded(log))
      <4>1. IsFiniteSet(1..Len(log))
        BY LedgerFacts, FS_Interval
      <4>. QED  BY <1>0, <4>1, FS_Subset
    <3>2. \A i, j \in recorded : i < j => i \in Superseded(log)
      BY LaterSupersedes DEF Superseded
    <3>3. \A i, j \in recorded \ Superseded(log) : i \in Nat /\ j \in Nat /\ ~(i < j) /\ ~(j < i)
      BY <3>2, IdsArePlaces
    <3>4. \A i, j \in recorded \ Superseded(log) : i = j
      BY <3>3
    <3>. QED  BY <3>1, <3>4, AtMostOne
  <2>2. \A i, j \in recorded : log[i].cause = log[j].cause => i = j
    <3>1. SUFFICES ASSUME NEW i \in recorded, NEW j \in recorded, log[i].cause = log[j].cause
                   PROVE  i = j
      OBVIOUS
    <3>2. log[i].binding = log[j].binding
      BY <3>1, RecordedIs
    <3>3. ~(i < j) /\ ~(j < i)
      BY <3>2 DEF ChainsAreWhole, RecordedAreWhole
    <3>4. i \in Nat /\ j \in Nat
      BY IdsArePlaces
    <3>. QED  BY <3>3, <3>4
  <2>3. \A i \in recorded : log[i].cause < i /\ log[log[i].cause].type = "prepared"
            /\ log[log[i].cause].binding = log[i].binding /\ log[i].binding.final < log[i].cause
    BY RecordedIs, IdsArePlaces
  <2>. QED  BY <2>1, <2>2, <2>3 DEF OneCurrentHandoff
<1>2. ConclusionIsEarned
  <2>1. SUFFICES ASSUME NEW e \in OfType(log, "status"), log[e].cause # 0
                 PROVE  LET o == log[e].cause
                            t == log[o].cause
                            i == log[t].cause
                        IN
                        /\ log[o].type = "orchestrated" /\ log[t].type = "terminal"
                        /\ i # 0 /\ log[i].type = "recorded" /\ log[i].binding.bound
                        /\ i < t /\ t < o /\ o < e
                        /\ log[e].status = log[t].status
                        /\ \A d \in OfType(log, "status") : d # e => e < d /\ log[d].cause = 0
    BY DEF ConclusionIsEarned
  <2> DEFINE o == log[e].cause
             t == log[o].cause
             i == log[t].cause
  <2>2. /\ o \in OfType(log, "orchestrated") /\ o < e
        /\ log[e] = [type |-> "status", stream |-> TaskStream, cause |-> o, status |-> log[t].status]
        /\ \A d \in OfType(log, "status") : d # e => e < d /\ log[d].cause = 0
    BY <2>1 DEF ChainsAreWhole, StatusesAreWhole
  <2>3. t \in OfType(log, "terminal") /\ t < o /\ i # 0 /\ log[i].binding.bound
    BY <2>2 DEF ChainsAreWhole, OrchestratedAreWhole
  <2>4. i \in OfType(log, "recorded") /\ i < t
    BY <2>3 DEF ChainsAreWhole, TerminalsAreWhole
  <2>5. log[o].type = "orchestrated" /\ log[t].type = "terminal" /\ log[i].type = "recorded"
    BY <2>2, <2>3, <2>4 DEF OfType
  <2>6. log[e].status = log[t].status
    <3> DEFINE st == log[t].status
    <3>1. log[e] = [type |-> "status", stream |-> TaskStream, cause |-> o, status |-> st]
      BY <2>2
    <3>. HIDE DEF st
    <3>2. log[e].status = st
      BY <3>1
    <3>. QED  BY <3>2 DEF st
  <2>. QED  BY <2>2, <2>3, <2>4, <2>5, <2>6
<1>3. ~ConflictingFinals(log)
  <2>1. SUFFICES ASSUME NEW f \in First(OfType(log, "final")), NEW g \in OfType(log, "final"),
                        log[g] # log[f],
                        ~ /\ log[g].supersedes \in OfType(log, "recorded")
                          /\ Anchor(log, log[g].supersedes) = AnchorOf[log[g].text]
                 PROVE  FALSE
    BY DEF ConflictingFinals
  <2>2. f \in OfType(log, "final") /\ f <= g
    BY DEF First
  <2>3. f < g
    BY <2>1, <2>2, IdsArePlaces
  <2>4. log[g].supersedes # 0
    BY <2>2, <2>3 DEF ChainsAreWhole, FinalsAreWhole
  <2>. QED  BY <2>1, <2>4 DEF ChainsAreWhole, FinalsAreWhole
<1>4. ~ConflictingPrepared(log)
  BY DEF ConflictingPrepared, ChainsAreWhole, PreparedAreWhole
<1>5. ~BrokenSupersession(log)
  <2>1. SUFFICES ASSUME NEW i \in OfType(log, "recorded")
                 PROVE  LET b == log[i].binding IN
                        IF b.supersedes = 0 THEN ~(b.revision > 1)
                        ELSE /\ b.supersedes \in OfType(log, "recorded") /\ b.supersedes < i
                             /\ b.revision = log[b.supersedes].binding.revision + 1
                             /\ Anchor(log, b.supersedes) = Anchor(log, i)
    BY DEF BrokenSupersession
  <2> DEFINE b == log[i].binding
  <2>2. /\ Binds(log, b) /\ b.final < log[i].cause /\ log[i].cause < i
        /\ log[i].cause \in OfType(log, "prepared")
    BY RecordedIs
  <2>3. /\ b.final \in OfType(log, "final") /\ b.supersedes = log[b.final].supersedes
        /\ b.revision = RevisionAfter(log, b.supersedes)
    BY <2>2 DEF Binds
  <2>4. CASE b.supersedes = 0
    BY <2>3, <2>4 DEF RevisionAfter
  <2>5. CASE b.supersedes # 0
    <3>1. /\ b.supersedes \in OfType(log, "recorded") /\ b.supersedes < b.final
          /\ Anchor(log, b.supersedes) = AnchorOf[log[b.final].text]
      BY <2>3, <2>5 DEF ChainsAreWhole, FinalsAreWhole
    <3>2. b.revision = log[b.supersedes].binding.revision + 1
      BY <2>3, <2>5 DEF RevisionAfter
    <3>3. b.supersedes < i
      <4>. HIDE DEF b
      <4>1. b.supersedes \in Nat /\ b.final \in Nat
        BY <2>3, <3>1, IdsArePlaces
      <4>2. log[i].cause \in Nat /\ i \in Nat
        BY <2>2, IdsArePlaces
      <4>. QED  BY <2>2, <3>1, <4>1, <4>2
    <3>4. Anchor(log, i) = AnchorOf[log[b.final].text]
      BY DEF Anchor
    <3>. QED  BY <2>5, <3>1, <3>2, <3>3, <3>4
  <2>. QED  BY <2>4, <2>5
<1>6. InconsistencyIsExplained
  <2>1. SUFFICES ASSUME MisplacedTerminal(log)
                 PROVE  \E t \in OfType(log, "terminal") :
                            \/ log[t].cause = 0
                            \/ \E i \in OfType(log, "recorded") :
                                i < t /\ log[i].binding.supersedes = log[t].cause
    BY <1>3, <1>4, <1>5 DEF InconsistencyIsExplained, Diagnosed
  <2> DEFINE Before(t) == {i \in OfType(log, "recorded") : i < t}
  <2>2. PICK t \in OfType(log, "terminal") :
            ~ \E i \in Latest(Before(t)) : /\ log[t].cause = i
                                           /\ log[t].status = OutcomeOf(log, log[i].binding.final)
    BY <2>1 DEF MisplacedTerminal
  <2>3. CASE log[t].cause # 0
    <3> DEFINE i == log[t].cause
    <3>1. i \in OfType(log, "recorded") /\ i < t /\ log[t].status = OutcomeOf(log, log[i].binding.final)
      BY <2>3 DEF ChainsAreWhole, TerminalsAreWhole
    <3>2. i \notin Latest(Before(t))
      BY <2>2, <3>1
    <3>3. PICK j \in Before(t) : ~(j <= i)
      BY <3>1, <3>2 DEF Latest
    <3>4. j \in OfType(log, "recorded") /\ j < t /\ i < j
      BY <3>1, <3>3, IdsArePlaces
    <3>5. log[j].binding.supersedes = i
      BY <3>1, <3>4, LaterSupersedes
    <3>. QED  BY <3>4, <3>5
  <2>. QED  BY <2>3
<1>. QED  BY <1>1, <1>2, <1>6 DEF HandoffIsSound

----------------------------------------------------------------------------
(* Handoffs: what may join the chains of a ledger.                         *)

\* StageEvent, of a ledger that need not be the one of now.
EventAt(s, stage, b, cause) ==
    CASE stage = "prepared" ->
            [type |-> "prepared", stream |-> RunStream, binding |-> b]
      [] stage = "recorded" ->
            [type |-> "recorded", stream |-> RunStream, binding |-> b, cause |-> cause]
      [] stage = "terminal" ->
            [type |-> "terminal", stream |-> RunStream, cause |-> cause,
             status |-> OutcomeOf(s, b.final)]
      [] stage = "orchestrated" ->
            [type |-> "orchestrated", stream |-> AttemptStream, cause |-> cause]
      [] stage = "status" ->
            [type |-> "status", stream |-> TaskStream, cause |-> cause,
             status |-> OutcomeOf(s, b.final)]

\* The handoff that ended with event t of the ledger is b's.
EndedBy(s, b, t) ==
    /\ t \in OfType(s, "terminal")
    /\ s[t].cause \in OfType(s, "recorded") /\ s[s[t].cause].binding = b

\* A stage comes after what the ledger holds of the stage before.
Ready(s, stage, b, cause) ==
    /\ Binds(s, b)
    /\ stage = "recorded" => cause \in OfType(s, "prepared") /\ s[cause].binding = b
    /\ stage = "terminal" => cause \in OfType(s, "recorded") /\ s[cause].binding = b
    /\ stage = "orchestrated" => b.bound /\ EndedBy(s, b, cause)
    /\ stage = "status" =>
        b.bound /\ cause \in OfType(s, "orchestrated") /\ EndedBy(s, b, s[cause].cause)

Unrivaled(s, b, e) == Exact(s, e) = {} /\ Rivals(s, b, e) = {}

FinalFits(s, e) ==
    /\ e.type = "final" /\ e.stream = RunStream
    /\ e.supersedes # 0 =>
        e.supersedes \in OfType(s, "recorded") /\ Anchor(s, e.supersedes) = AnchorOf[e.text]
    /\ \A f \in OfType(s, "final") : e.supersedes # 0 /\ f = s[e.supersedes].binding.final

OfNoHandoff(e) ==
    \/ e.type = "terminal" /\ e.stream = RunStream /\ e.cause = 0
    \/ e.type = "status" /\ e.stream = TaskStream /\ e.cause = 0

\* What an event must be to join the chains.
Joins(s, e) ==
    \/ FinalFits(s, e)
    \/ \E stage \in Stages : \E b, cause :
        Ready(s, stage, b, cause) /\ e = EventAt(s, stage, b, cause) /\ Unrivaled(s, b, e)
    \/ OfNoHandoff(e)

LEMMA EventAtIs ==
    ASSUME NEW s, NEW stage \in Stages, NEW b, NEW cause
    PROVE  LET e == EventAt(s, stage, b, cause) IN
           /\ e.type = stage /\ e.stream = HandStream(stage)
           /\ stage \in {"prepared", "recorded"} => e.binding = b
           /\ stage # "prepared" => e.cause = cause
           /\ stage \in {"terminal", "status"} => e.status = OutcomeOf(s, b.final)
<1>1. CASE stage = "prepared"
  BY <1>1 DEF EventAt, HandStream
<1>2. CASE stage = "recorded"
  BY <1>2 DEF EventAt, HandStream
<1>3. CASE stage = "terminal"
  BY <1>3 DEF EventAt, HandStream
<1>4. CASE stage = "orchestrated"
  BY <1>4 DEF EventAt, HandStream
<1>5. CASE stage = "status"
  BY <1>5 DEF EventAt, HandStream
<1>. QED  BY <1>1, <1>2, <1>3, <1>4, <1>5 DEF Stages

LEMMA StageEventAt ==
    ASSUME NEW stage \in Stages, NEW b, NEW cause
    PROVE  StageEvent(stage, b, cause) = EventAt(log, stage, b, cause)
<1>1. CASE stage = "prepared"
  BY <1>1 DEF EventAt, StageEvent
<1>2. CASE stage = "recorded"
  BY <1>2 DEF EventAt, StageEvent
<1>3. CASE stage = "terminal"
  BY <1>3 DEF EventAt, StageEvent
<1>4. CASE stage = "orchestrated"
  BY <1>4 DEF EventAt, StageEvent
<1>5. CASE stage = "status"
  BY <1>5 DEF EventAt, StageEvent
<1>. QED  BY <1>1, <1>2, <1>3, <1>4, <1>5 DEF Stages

LEMMA AnchorsStay ==
    ASSUME NEW s, NEW t, Extends(s, t), ChainsAreWhole(s)
    PROVE  /\ \A r \in OfType(s, "recorded") : Anchor(t, r) = Anchor(s, r)
           /\ \A f \in OfType(s, "final") : OutcomeOf(t, f) = OutcomeOf(s, f)
           /\ \A b : Binds(s, b) => Binds(t, b)
<1>0. IsLedger(s)
  BY DEF Extends
<1>1. ASSUME NEW r \in OfType(s, "recorded")
      PROVE  Anchor(t, r) = Anchor(s, r)
  <2>1. s[r].binding.final \in OfType(s, "final")
    BY <1>0, RecordedIs DEF Binds
  <2>2. t[r] = s[r] /\ t[s[r].binding.final] = s[s[r].binding.final]
    BY <2>1, Stays
  <2>. QED  BY <2>2 DEF Anchor
<1>2. \A f \in OfType(s, "final") : OutcomeOf(t, f) = OutcomeOf(s, f)
  BY Stays DEF OutcomeOf
<1>3. ASSUME NEW b, Binds(s, b)
      PROVE  Binds(t, b)
  <2>1. b.final \in OfType(s, "final") /\ b.supersedes = s[b.final].supersedes
        /\ b.revision = RevisionAfter(s, b.supersedes)
    BY <1>3 DEF Binds
  <2>2. b.final \in OfType(t, "final") /\ t[b.final] = s[b.final]
    BY <2>1, Stays
  <2>3. RevisionAfter(t, b.supersedes) = RevisionAfter(s, b.supersedes)
    <3>1. CASE b.supersedes = 0
      BY <3>1 DEF RevisionAfter
    <3>2. CASE b.supersedes # 0
      <4>1. b.supersedes \in OfType(s, "recorded")
        BY <2>1, <3>2 DEF ChainsAreWhole, FinalsAreWhole
      <4>2. t[b.supersedes] = s[b.supersedes]
        BY <4>1, Stays
      <4>. QED  BY <4>2 DEF RevisionAfter
    <3>. QED  BY <3>1, <3>2
  <2>. QED  BY <2>1, <2>2, <2>3 DEF Binds
<1>. QED  BY <1>1, <1>2, <1>3

LEMMA ReadyStays ==
    ASSUME NEW s, NEW t, Extends(s, t), ChainsAreWhole(s), NEW stage \in Stages, NEW b, NEW cause,
           Ready(s, stage, b, cause)
    PROVE  /\ Ready(t, stage, b, cause)
           /\ EventAt(t, stage, b, cause) = EventAt(s, stage, b, cause)
<1>1. Binds(s, b) /\ Binds(t, b)
  BY AnchorsStay DEF Ready
<1>2. OutcomeOf(t, b.final) = OutcomeOf(s, b.final)
  BY <1>1, AnchorsStay DEF Binds
<1>3. \A x : EndedBy(s, b, x) => EndedBy(t, b, x)
  BY Stays DEF EndedBy
<1>4. Ready(t, stage, b, cause)
  <2>1. stage = "recorded" => cause \in OfType(t, "prepared") /\ t[cause].binding = b
    BY Stays DEF Ready
  <2>2. stage = "terminal" => cause \in OfType(t, "recorded") /\ t[cause].binding = b
    BY Stays DEF Ready
  <2>3. stage = "orchestrated" => b.bound /\ EndedBy(t, b, cause)
    BY <1>3 DEF Ready
  <2>4. stage = "status" => b.bound /\ cause \in OfType(t, "orchestrated") /\ EndedBy(t, b, t[cause].cause)
    BY <1>3, Stays DEF Ready
  <2>. QED  BY <1>1, <2>1, <2>2, <2>3, <2>4 DEF Ready
<1>5. EventAt(t, stage, b, cause) = EventAt(s, stage, b, cause)
  BY <1>2 DEF EventAt
<1>. QED  BY <1>4, <1>5

\* Events of chains join one at a time, each as it must be.
JoinedIn(s, t) ==
    \A i \in Since(s, t) : t[i].type \in HandTypes => Since(s, t) = {i} /\ Joins(s, t[i])

\* A new event of a type of the chains, and what is known of it.
LEMMA NewOfChain ==
    ASSUME NEW s, NEW t, Extends(s, t), JoinedIn(s, t), NEW type \in HandTypes,
           NEW i \in OfType(t, type), i \notin OfType(s, type)
    PROVE  /\ Joins(s, t[i]) /\ t[i].type = type /\ i = Len(s) + 1
           /\ \A u, j : j \in OfType(s, u) => j < i /\ j # i
           /\ \A u, j : j \in OfType(t, u) /\ j # i => j \in OfType(s, u)
<1>1. i \in Since(s, t) /\ t[i].type = type
  BY OfTypeExtends
<1>2. Since(s, t) = {i} /\ Joins(s, t[i])
  BY <1>1 DEF JoinedIn
<1>3. i = Len(s) + 1 /\ Len(s) \in Nat /\ IsLedger(s)
  <2>1. Len(s) \in Nat /\ Len(t) \in Nat /\ IsLedger(s)
    BY DEF Extends
  <2>2. i \in (Len(s) + 1)..Len(t) /\ \A j \in (Len(s) + 1)..Len(t) : j = i
    BY <1>1, <1>2 DEF Since
  <2>3. Len(s) + 1 \in (Len(s) + 1)..Len(t)
    BY <2>1, <2>2
  <2>. QED  BY <2>1, <2>2, <2>3
<1>4. \A u, j : j \in OfType(s, u) => j < i /\ j # i
  <2>1. \A u, j : j \in OfType(s, u) => j \in 1..Len(s)
    BY <1>3, IdsArePlaces
  <2>. QED  BY <1>3, <2>1
<1>5. \A u, j : j \in OfType(t, u) /\ j # i => j \in OfType(s, u)
  BY <1>2, OfTypeExtends
<1>. QED  BY <1>1, <1>2, <1>3, <1>4, <1>5

\* A new event of a stage.
LEMMA NewOfStage ==
    ASSUME NEW s, NEW e, Joins(s, e), e.type \in Stages, ~OfNoHandoff(e)
    PROVE  \E b, cause : /\ Ready(s, e.type, b, cause) /\ e = EventAt(s, e.type, b, cause)
                         /\ Unrivaled(s, b, e)
<1>1. ~FinalFits(s, e)
  BY DEF FinalFits, Stages
<1>2. PICK stage \in Stages : \E b, cause :
        Ready(s, stage, b, cause) /\ e = EventAt(s, stage, b, cause) /\ Unrivaled(s, b, e)
  BY <1>1 DEF Joins
<1>3. stage = e.type
  BY <1>2, EventAtIs
<1>. QED  BY <1>2, <1>3

LEMMA FinalsGoOn ==
    ASSUME NEW s, NEW t, Extends(s, t), ChainsAreWhole(s), JoinedIn(s, t)
    PROVE  FinalsAreWhole(t)
<1>0. IsLedger(s)
  BY DEF Extends
<1>1. SUFFICES ASSUME NEW f \in OfType(t, "final")
               PROVE  /\ t[f].stream = RunStream
                      /\ t[f].supersedes # 0 =>
                            /\ t[f].supersedes \in OfType(t, "recorded") /\ t[f].supersedes < f
                            /\ Anchor(t, t[f].supersedes) = AnchorOf[t[f].text]
                      /\ \A g \in OfType(t, "final") : g < f =>
                            t[f].supersedes # 0 /\ g = t[t[f].supersedes].binding.final
  BY DEF FinalsAreWhole
<1>2. "final" \in HandTypes
  BY DEF HandTypes
<1>3. CASE f \in OfType(s, "final")
  <2>1. t[f] = s[f] /\ f \in 1..Len(s)
    BY <1>3, Stays
  <2>2. s[f].stream = RunStream
    BY <1>3 DEF ChainsAreWhole, FinalsAreWhole
  <2>3. ASSUME s[f].supersedes # 0
        PROVE  /\ s[f].supersedes \in OfType(t, "recorded") /\ s[f].supersedes < f
               /\ Anchor(t, s[f].supersedes) = AnchorOf[s[f].text]
    <3>1. /\ s[f].supersedes \in OfType(s, "recorded") /\ s[f].supersedes < f
          /\ Anchor(s, s[f].supersedes) = AnchorOf[s[f].text]
      BY <1>3, <2>3 DEF ChainsAreWhole, FinalsAreWhole
    <3>2. /\ s[f].supersedes \in OfType(t, "recorded")
          /\ Anchor(t, s[f].supersedes) = Anchor(s, s[f].supersedes)
      BY <3>1, Stays, AnchorsStay
    <3>. QED  BY <3>1, <3>2
  <2>4. ASSUME NEW g \in OfType(t, "final"), g < f
        PROVE  s[f].supersedes # 0 /\ g = t[s[f].supersedes].binding.final
    <3>1. g \in OfType(s, "final")
      <4>1. f < Len(s) + 1 /\ f \in Nat /\ Len(s) \in Nat
        BY <1>0, <2>1, LedgerFacts
      <4>2. g \notin OfType(s, "final") => g = Len(s) + 1
        BY <1>2, NewOfChain
      <4>. QED  BY <2>4, <4>1, <4>2
    <3>2. s[f].supersedes # 0 /\ g = s[s[f].supersedes].binding.final
      BY <1>3, <2>4, <3>1 DEF ChainsAreWhole, FinalsAreWhole
    <3>3. s[f].supersedes \in OfType(s, "recorded")
      BY <1>3, <3>2 DEF ChainsAreWhole, FinalsAreWhole
    <3>4. t[s[f].supersedes] = s[s[f].supersedes]
      BY <3>3, Stays
    <3>. QED  BY <3>2, <3>4
  <2>. QED  BY <2>1, <2>2, <2>3, <2>4
<1>4. CASE f \notin OfType(s, "final")
  <2> DEFINE e == t[f]
  <2>1. Joins(s, e) /\ e.type = "final"
    BY <1>2, <1>4, NewOfChain
  <2>2. /\ \A u, j : j \in OfType(s, u) => j < f /\ j # f
        /\ \A u, j : j \in OfType(t, u) /\ j # f => j \in OfType(s, u)
    BY <1>2, <1>4, NewOfChain
  <2>3. FinalFits(s, e)
    <3>. HIDE DEF e
    <3>1. \A stage \in Stages : \A b, cause : e # EventAt(s, stage, b, cause)
      BY <2>1, EventAtIs DEF Stages
    <3>. QED  BY <2>1, <3>1 DEF Joins, OfNoHandoff
  <2>. HIDE DEF e
  <2>4. /\ e.stream = RunStream
        /\ e.supersedes # 0 => e.supersedes \in OfType(s, "recorded") /\ Anchor(s, e.supersedes) = AnchorOf[e.text]
        /\ \A g \in OfType(s, "final") : e.supersedes # 0 /\ g = s[e.supersedes].binding.final
    BY <2>3 DEF FinalFits
  <2>5. e.supersedes # 0 =>
            /\ e.supersedes \in OfType(t, "recorded") /\ e.supersedes < f
            /\ Anchor(t, e.supersedes) = AnchorOf[e.text]
            /\ t[e.supersedes] = s[e.supersedes]
    BY <2>2, <2>4, Stays, AnchorsStay
  <2>6. \A g \in OfType(t, "final") : g < f => g \in OfType(s, "final")
    <3>1. f \in Nat
      BY <1>0, <1>2, <1>4, NewOfChain, LedgerFacts
    <3>. QED  BY <2>2, <3>1
  <2>. QED  BY <2>4, <2>5, <2>6 DEF e
<1>. QED  BY <1>3, <1>4

LEMMA PreparedGoOn ==
    ASSUME NEW s, NEW t, Extends(s, t), ChainsAreWhole(s), JoinedIn(s, t)
    PROVE  PreparedAreWhole(t)
<1>2. "prepared" \in HandTypes /\ "prepared" \in Stages
  BY DEF HandTypes, Stages
<1>3. ASSUME NEW p \in OfType(s, "prepared")
      PROVE  /\ p \in OfType(t, "prepared") /\ t[p] = s[p] /\ t[p].stream = RunStream
             /\ Binds(t, t[p].binding) /\ t[p].binding.final < p
             /\ \A q \in OfType(s, "prepared") :
                    Identity(t[p].binding) = Identity(t[q].binding) => p = q
  BY Stays, AnchorsStay DEF ChainsAreWhole, PreparedAreWhole
<1>4. ASSUME NEW p \in OfType(t, "prepared"), p \notin OfType(s, "prepared")
      PROVE  /\ t[p].stream = RunStream
             /\ Binds(t, t[p].binding) /\ t[p].binding.final < p
             /\ \A q \in OfType(s, "prepared") : Identity(t[p].binding) # Identity(t[q].binding)
             /\ \A q \in OfType(t, "prepared") : q # p => q \in OfType(s, "prepared")
  <2> DEFINE e == t[p]
  <2>1. Joins(s, e) /\ e.type = "prepared"
    BY <1>2, <1>4, NewOfChain
  <2>2. /\ \A u, j : j \in OfType(s, u) => j < p /\ j # p
        /\ \A u, j : j \in OfType(t, u) /\ j # p => j \in OfType(s, u)
    BY <1>2, <1>4, NewOfChain
  <2>. HIDE DEF e
  <2>3. PICK b, cause : /\ Ready(s, "prepared", b, cause) /\ e = EventAt(s, "prepared", b, cause)
                        /\ Unrivaled(s, b, e)
    BY <1>2, <2>1, NewOfStage DEF OfNoHandoff
  <2>4. e.binding = b /\ e.stream = RunStream
    BY <1>2, <2>3, EventAtIs DEF HandStream
  <2>5. Binds(s, b) /\ Binds(t, b)
    BY <2>3, AnchorsStay DEF Ready
  <2>6. b.final < p
    BY <2>2, <2>5 DEF Binds
  <2>7. ASSUME NEW q \in OfType(s, "prepared")
        PROVE  Identity(b) # Identity(s[q].binding) /\ t[q] = s[q]
    <3>1. s[q] # e
      BY <2>3 DEF Unrivaled, Exact, OfType
    <3>2. q \notin Rivals(s, b, e) /\ q \in OfType(s, e.type)
      BY <2>1, <2>3 DEF Unrivaled
    <3>3. Identity(s[q].binding) # Identity(b)
      BY <2>1, <3>1, <3>2 DEF Rivals
    <3>. QED  BY <3>3, Stays
  <2>. QED  BY <2>2, <2>4, <2>5, <2>6, <2>7 DEF e
<1>5. ASSUME NEW p \in OfType(t, "prepared"), NEW q \in OfType(t, "prepared"),
             Identity(t[p].binding) = Identity(t[q].binding)
      PROVE  p = q
  <2>1. CASE p \in OfType(s, "prepared") /\ q \in OfType(s, "prepared")
    BY <1>3, <1>5, <2>1
  <2>2. CASE p \notin OfType(s, "prepared")
    BY <1>4, <1>5, <2>2
  <2>3. CASE q \notin OfType(s, "prepared")
    BY <1>4, <1>5, <2>3
  <2>. QED  BY <2>1, <2>2, <2>3
<1>6. \A p \in OfType(t, "prepared") :
        t[p].stream = RunStream /\ Binds(t, t[p].binding) /\ t[p].binding.final < p
  BY <1>3, <1>4
<1>. QED  BY <1>5, <1>6 DEF PreparedAreWhole

LEMMA RecordedGoOn ==
    ASSUME NEW s, NEW t, Extends(s, t), ChainsAreWhole(s), JoinedIn(s, t)
    PROVE  RecordedAreWhole(t)
<1>0. IsLedger(s)
  BY DEF Extends
<1>2. "recorded" \in HandTypes /\ "recorded" \in Stages
  BY DEF HandTypes, Stages
<1>3. ASSUME NEW i \in OfType(s, "recorded")
      PROVE  /\ t[i] = s[i] /\ t[i].stream = RunStream
             /\ t[i].cause \in OfType(t, "prepared") /\ t[i].cause < i
             /\ t[i].binding = t[t[i].cause].binding
             /\ \A j \in OfType(s, "recorded") : i < j =>
                    /\ t[j].binding.supersedes # 0
                    /\ Identity(t[i].binding) # Identity(t[j].binding)
  <2>1. /\ s[i].stream = RunStream
        /\ s[i].cause \in OfType(s, "prepared") /\ s[i].cause < i
        /\ s[i].binding = s[s[i].cause].binding
        /\ \A j \in OfType(s, "recorded") : i < j =>
            /\ s[j].binding.supersedes # 0
            /\ Identity(s[i].binding) # Identity(s[j].binding)
    BY DEF ChainsAreWhole, RecordedAreWhole
  <2>. QED  BY <2>1, Stays
<1>4. ASSUME NEW i \in OfType(t, "recorded"), i \notin OfType(s, "recorded")
      PROVE  /\ t[i].stream = RunStream
             /\ t[i].cause \in OfType(t, "prepared") /\ t[i].cause < i
             /\ t[i].binding = t[t[i].cause].binding
             /\ \A j \in OfType(t, "recorded") : ~(i < j)
             /\ \A j \in OfType(s, "recorded") :
                    /\ t[i].binding.supersedes # 0
                    /\ Identity(t[j].binding) # Identity(t[i].binding)
  <2> DEFINE e == t[i]
  <2>1. Joins(s, e) /\ e.type = "recorded"
    BY <1>2, <1>4, NewOfChain
  <2>2. /\ \A u, j : j \in OfType(s, u) => j < i /\ j # i
        /\ \A u, j : j \in OfType(t, u) /\ j # i => j \in OfType(s, u)
    BY <1>2, <1>4, NewOfChain
  <2>. HIDE DEF e
  <2>3. PICK b, cause : /\ Ready(s, "recorded", b, cause) /\ e = EventAt(s, "recorded", b, cause)
                        /\ Unrivaled(s, b, e)
    BY <1>2, <2>1, NewOfStage DEF OfNoHandoff
  <2>4. e.binding = b /\ e.stream = RunStream /\ e.cause = cause
    BY <1>2, <2>3, EventAtIs DEF HandStream
  <2>5. cause \in OfType(s, "prepared") /\ s[cause].binding = b
    BY <2>3 DEF Ready
  <2>6. cause \in OfType(t, "prepared") /\ t[cause].binding = b /\ cause < i
    BY <2>2, <2>5, Stays
  <2>7. ASSUME NEW j \in OfType(s, "recorded")
        PROVE  Identity(s[j].binding) # Identity(b) /\ b.supersedes # 0 /\ t[j] = s[j]
    <3>1. s[j] # e
      BY <2>3 DEF Unrivaled, Exact, OfType
    <3>2. j \notin Rivals(s, b, e) /\ j \in OfType(s, e.type)
      BY <2>1, <2>3 DEF Unrivaled
    <3>3. Identity(s[j].binding) # Identity(b) /\ b.supersedes # 0
      BY <2>1, <3>1, <3>2 DEF Rivals
    <3>. QED  BY <3>3, Stays
  <2>8. \A j \in OfType(t, "recorded") : ~(i < j)
    <3>1. i \in Nat
      BY <1>0, <1>2, <1>4, NewOfChain, LedgerFacts
    <3>2. \A j \in OfType(t, "recorded") : j # i => j < i /\ j \in Nat
      BY <1>0, <2>2, IdsArePlaces
    <3>. QED  BY <3>1, <3>2
  <2>. QED  BY <2>4, <2>6, <2>7, <2>8 DEF e
<1>5. ASSUME NEW i \in OfType(t, "recorded"), NEW j \in OfType(t, "recorded"), i < j
      PROVE  t[j].binding.supersedes # 0 /\ Identity(t[i].binding) # Identity(t[j].binding)
  <2>1. CASE i \in OfType(s, "recorded") /\ j \in OfType(s, "recorded")
    BY <1>3, <1>5, <2>1
  <2>2. CASE i \notin OfType(s, "recorded")
    BY <1>4, <1>5, <2>2
  <2>3. CASE i \in OfType(s, "recorded") /\ j \notin OfType(s, "recorded")
    BY <1>4, <1>5, <2>3
  <2>. QED  BY <2>1, <2>2, <2>3
<1>6. \A i \in OfType(t, "recorded") :
        /\ t[i].stream = RunStream /\ t[i].cause \in OfType(t, "prepared") /\ t[i].cause < i
        /\ t[i].binding = t[t[i].cause].binding
  BY <1>3, <1>4
<1>. QED  BY <1>5, <1>6 DEF RecordedAreWhole

LEMMA TerminalsGoOn ==
    ASSUME NEW s, NEW t, Extends(s, t), ChainsAreWhole(s), JoinedIn(s, t)
    PROVE  TerminalsAreWhole(t)
<1>0. IsLedger(s)
  BY DEF Extends
<1>1. SUFFICES ASSUME NEW x \in OfType(t, "terminal")
               PROVE  /\ t[x].stream = RunStream
                      /\ t[x].cause # 0 =>
                            /\ t[x].cause \in OfType(t, "recorded") /\ t[x].cause < x
                            /\ t[x].status = OutcomeOf(t, t[t[x].cause].binding.final)
  BY DEF TerminalsAreWhole
<1>2. "terminal" \in HandTypes /\ "terminal" \in Stages
  BY DEF HandTypes, Stages
<1>3. ASSUME NEW i \in OfType(s, "recorded")
      PROVE  /\ i \in OfType(t, "recorded") /\ t[i] = s[i]
             /\ OutcomeOf(t, s[i].binding.final) = OutcomeOf(s, s[i].binding.final)
  <2>1. s[i].binding.final \in OfType(s, "final")
    BY <1>0, RecordedIs DEF Binds
  <2>. QED  BY <2>1, Stays, AnchorsStay
<1>4. CASE x \in OfType(s, "terminal")
  <2>1. t[x] = s[x]
    BY <1>4, Stays
  <2>2. /\ s[x].stream = RunStream
        /\ s[x].cause # 0 =>
            /\ s[x].cause \in OfType(s, "recorded") /\ s[x].cause < x
            /\ s[x].status = OutcomeOf(s, s[s[x].cause].binding.final)
    BY <1>4 DEF ChainsAreWhole, TerminalsAreWhole
  <2>. QED  BY <1>3, <2>1, <2>2
<1>5. CASE x \notin OfType(s, "terminal")
  <2> DEFINE e == t[x]
  <2>1. Joins(s, e) /\ e.type = "terminal"
    BY <1>2, <1>5, NewOfChain
  <2>2. \A u, j : j \in OfType(s, u) => j < x /\ j # x
    BY <1>2, <1>5, NewOfChain
  <2>. HIDE DEF e
  <2>3. CASE OfNoHandoff(e)
    BY <2>1, <2>3 DEF OfNoHandoff, e
  <2>4. CASE ~OfNoHandoff(e)
    <3>1. PICK b, cause : /\ Ready(s, "terminal", b, cause) /\ e = EventAt(s, "terminal", b, cause)
                          /\ Unrivaled(s, b, e)
      BY <1>2, <2>1, <2>4, NewOfStage
    <3>2. e.stream = RunStream /\ e.cause = cause /\ e.status = OutcomeOf(s, b.final)
      BY <1>2, <3>1, EventAtIs DEF HandStream
    <3>3. cause \in OfType(s, "recorded") /\ s[cause].binding = b
      BY <3>1 DEF Ready
    <3>. QED  BY <1>3, <2>2, <3>2, <3>3 DEF e
  <2>. QED  BY <2>3, <2>4
<1>. QED  BY <1>4, <1>5

LEMMA OrchestratedGoOn ==
    ASSUME NEW s, NEW t, Extends(s, t), ChainsAreWhole(s), JoinedIn(s, t)
    PROVE  OrchestratedAreWhole(t)
<1>0. IsLedger(s)
  BY DEF Extends
<1>1. SUFFICES ASSUME NEW o \in OfType(t, "orchestrated")
               PROVE  /\ t[o].stream = AttemptStream
                      /\ t[o].cause \in OfType(t, "terminal") /\ t[o].cause < o
                      /\ t[t[o].cause].cause # 0 /\ t[t[t[o].cause].cause].binding.bound
  BY DEF OrchestratedAreWhole
<1>2. "orchestrated" \in HandTypes /\ "orchestrated" \in Stages
  BY DEF HandTypes, Stages
<1>3. CASE o \in OfType(s, "orchestrated")
  <2>1. t[o] = s[o]
    BY <1>3, Stays
  <2>2. /\ s[o].stream = AttemptStream
        /\ s[o].cause \in OfType(s, "terminal") /\ s[o].cause < o
        /\ s[s[o].cause].cause # 0 /\ s[s[s[o].cause].cause].binding.bound
    BY <1>3 DEF ChainsAreWhole, OrchestratedAreWhole
  <2>3. s[s[o].cause].cause \in OfType(s, "recorded")
    BY <2>2 DEF ChainsAreWhole, TerminalsAreWhole
  <2>4. /\ s[o].cause \in OfType(t, "terminal") /\ t[s[o].cause] = s[s[o].cause]
        /\ t[s[s[o].cause].cause] = s[s[s[o].cause].cause]
    BY <2>2, <2>3, Stays
  <2>. QED  BY <2>1, <2>2, <2>4
<1>4. CASE o \notin OfType(s, "orchestrated")
  <2> DEFINE e == t[o]
  <2>1. Joins(s, e) /\ e.type = "orchestrated"
    BY <1>2, <1>4, NewOfChain
  <2>2. \A u, j : j \in OfType(s, u) => j < o /\ j # o
    BY <1>2, <1>4, NewOfChain
  <2>. HIDE DEF e
  <2>3. PICK b, cause : /\ Ready(s, "orchestrated", b, cause)
                        /\ e = EventAt(s, "orchestrated", b, cause) /\ Unrivaled(s, b, e)
    BY <1>2, <2>1, NewOfStage DEF OfNoHandoff
  <2>4. e.stream = AttemptStream /\ e.cause = cause
    BY <1>2, <2>3, EventAtIs DEF HandStream
  <2>5. /\ b.bound /\ cause \in OfType(s, "terminal")
        /\ s[cause].cause \in OfType(s, "recorded") /\ s[s[cause].cause].binding = b
    BY <2>3 DEF Ready, EndedBy
  <2>6. s[cause].cause # 0
    BY <1>0, <2>5, IdsArePlaces
  <2>7. /\ cause \in OfType(t, "terminal") /\ t[cause] = s[cause]
        /\ t[s[cause].cause] = s[s[cause].cause] /\ cause < o
    BY <2>2, <2>5, Stays
  <2>. QED  BY <2>4, <2>5, <2>6, <2>7 DEF e
<1>. QED  BY <1>3, <1>4

\* What a status that has a cause says.
LEMMA StatusIs ==
    ASSUME NEW s, ChainsAreWhole(s), NEW e \in OfType(s, "status"), s[e].cause # 0
    PROVE  LET o == s[e].cause
               t == s[o].cause
           IN
           /\ o \in OfType(s, "orchestrated") /\ t \in OfType(s, "terminal") /\ o < e
           /\ s[t].cause \in OfType(s, "recorded")
           /\ s[t].status = OutcomeOf(s, s[s[t].cause].binding.final)
           /\ s[e] = [type |-> "status", stream |-> TaskStream, cause |-> o, status |-> s[t].status]
           /\ \A d \in OfType(s, "status") : d # e => e < d /\ s[d].cause = 0
<1> DEFINE o == s[e].cause
           t == s[o].cause
<1>1. /\ o \in OfType(s, "orchestrated") /\ o < e
      /\ s[e] = [type |-> "status", stream |-> TaskStream, cause |-> o, status |-> s[t].status]
      /\ \A d \in OfType(s, "status") : d # e => e < d /\ s[d].cause = 0
  BY DEF ChainsAreWhole, StatusesAreWhole
<1>2. t \in OfType(s, "terminal") /\ s[t].cause # 0
  BY <1>1 DEF ChainsAreWhole, OrchestratedAreWhole
<1>3. s[t].cause \in OfType(s, "recorded") /\ s[t].status = OutcomeOf(s, s[s[t].cause].binding.final)
  BY <1>2 DEF ChainsAreWhole, TerminalsAreWhole
<1>. QED  BY <1>1, <1>2, <1>3

LEMMA StatusesGoOn ==
    ASSUME NEW s, NEW t, Extends(s, t), ChainsAreWhole(s), JoinedIn(s, t)
    PROVE  StatusesAreWhole(t)
<1>0. IsLedger(s)
  BY DEF Extends
<1>1. SUFFICES ASSUME NEW e \in OfType(t, "status")
               PROVE  /\ t[e].stream = TaskStream
                      /\ t[e].cause # 0 =>
                          /\ t[e].cause \in OfType(t, "orchestrated") /\ t[e].cause < e
                          /\ t[e] = [type |-> "status", stream |-> TaskStream, cause |-> t[e].cause,
                                     status |-> t[t[t[e].cause].cause].status]
                          /\ \A d \in OfType(t, "status") : d # e => e < d /\ t[d].cause = 0
  BY DEF StatusesAreWhole
<1>2. "status" \in HandTypes /\ "status" \in Stages
  BY DEF HandTypes, Stages
\* A new status is the first, or one of no handoff.
<1>3. ASSUME NEW d \in OfType(t, "status"), d \notin OfType(s, "status")
      PROVE  /\ t[d].stream = TaskStream
             /\ \A j \in OfType(s, "status") : j < d
             /\ t[d].cause # 0 =>
                    /\ OfType(t, "status") = {d}
                    /\ t[d].cause \in OfType(t, "orchestrated") /\ t[d].cause < d
                    /\ t[d] = [type |-> "status", stream |-> TaskStream, cause |-> t[d].cause,
                               status |-> t[t[t[d].cause].cause].status]
  <2> DEFINE n == t[d]
  <2>1. Joins(s, n) /\ n.type = "status"
    BY <1>2, <1>3, NewOfChain
  <2>2. /\ \A u, j : j \in OfType(s, u) => j < d /\ j # d
        /\ \A u, j : j \in OfType(t, u) /\ j # d => j \in OfType(s, u)
    BY <1>2, <1>3, NewOfChain
  <2>. HIDE DEF n
  <2>3. CASE OfNoHandoff(n)
    BY <2>1, <2>2, <2>3 DEF OfNoHandoff, n
  <2>4. CASE ~OfNoHandoff(n)
    <3>1. PICK b, cause : /\ Ready(s, "status", b, cause) /\ n = EventAt(s, "status", b, cause)
                          /\ Unrivaled(s, b, n)
      BY <1>2, <2>1, <2>4, NewOfStage
    <3>2. n = [type |-> "status", stream |-> TaskStream, cause |-> cause,
               status |-> OutcomeOf(s, b.final)]
      BY <3>1 DEF EventAt
    <3>3. /\ cause \in OfType(s, "orchestrated") /\ s[cause].cause \in OfType(s, "terminal")
          /\ s[s[cause].cause].cause \in OfType(s, "recorded")
          /\ s[s[s[cause].cause].cause].binding = b
      BY <3>1 DEF Ready, EndedBy
    <3>4. s[s[cause].cause].status = OutcomeOf(s, b.final)
      <4>1. s[s[cause].cause].cause # 0
        BY <1>0, <3>3, IdsArePlaces
      <4>. QED  BY <3>3, <4>1 DEF ChainsAreWhole, TerminalsAreWhole
    <3>5. OfType(s, "status") = {}
      <4>1. SUFFICES ASSUME NEW j \in OfType(s, "status")
                     PROVE  FALSE
        OBVIOUS
      <4>2. s[j] # n
        BY <3>1 DEF Unrivaled, Exact, OfType
      <4>3. n.cause = cause /\ cause # 0
        BY <1>0, <3>2, <3>3, IdsArePlaces
      <4>4. s[j].cause = cause
        <5>1. j \notin Rivals(s, b, n)
          BY <3>1 DEF Unrivaled
        <5>. QED  BY <2>1, <4>2, <4>3, <5>1 DEF Rivals
      <4>5. s[j] = [type |-> "status", stream |-> TaskStream, cause |-> cause,
                    status |-> s[s[cause].cause].status]
        BY <4>3, <4>4, StatusIs
      <4>. QED  BY <3>2, <3>4, <4>2, <4>5
    <3>6. OfType(t, "status") = {d}
      BY <2>2, <3>5
    <3>7. /\ cause \in OfType(t, "orchestrated") /\ t[cause] = s[cause]
          /\ t[s[cause].cause] = s[s[cause].cause] /\ cause < d
      BY <2>2, <3>3, Stays
    <3>8. n.cause = cause /\ n.stream = TaskStream
      BY <3>2
    <3>9. n = [type |-> "status", stream |-> TaskStream, cause |-> n.cause,
               status |-> t[t[n.cause].cause].status]
      BY <3>2, <3>4, <3>7, <3>8
    <3>. QED  BY <2>2, <3>6, <3>7, <3>8, <3>9 DEF n
  <2>. QED  BY <2>3, <2>4
<1>4. CASE e \in OfType(s, "status")
  <2>1. t[e] = s[e]
    BY <1>4, Stays
  <2>2. s[e].stream = TaskStream
    BY <1>4 DEF ChainsAreWhole, StatusesAreWhole
  <2>3. ASSUME s[e].cause # 0
        PROVE  /\ s[e].cause \in OfType(t, "orchestrated") /\ s[e].cause < e
               /\ s[e] = [type |-> "status", stream |-> TaskStream, cause |-> s[e].cause,
                          status |-> t[t[s[e].cause].cause].status]
               /\ \A d \in OfType(t, "status") : d # e => e < d /\ t[d].cause = 0
    <3> DEFINE o == s[e].cause
               x == s[o].cause
    <3>1. /\ o \in OfType(s, "orchestrated") /\ x \in OfType(s, "terminal") /\ o < e
          /\ s[e] = [type |-> "status", stream |-> TaskStream, cause |-> o, status |-> s[x].status]
          /\ \A d \in OfType(s, "status") : d # e => e < d /\ s[d].cause = 0
      BY <1>4, <2>3, StatusIs
    <3>2. o \in OfType(t, "orchestrated") /\ t[o] = s[o] /\ t[x] = s[x]
      BY <3>1, Stays
    <3>3. ASSUME NEW d \in OfType(t, "status"), d # e
          PROVE  e < d /\ t[d].cause = 0
      <4>1. CASE d \in OfType(s, "status")
        BY <3>1, <3>3, <4>1, Stays
      <4>2. CASE d \notin OfType(s, "status")
        <5>1. OfType(t, "status") # {d}
          BY <1>4, <3>3, Stays
        <5>. QED  BY <1>3, <1>4, <4>2, <5>1
      <4>. QED  BY <4>1, <4>2
    <3>. QED  BY <3>1, <3>2, <3>3
  <2>. QED  BY <2>1, <2>2, <2>3
<1>5. CASE e \notin OfType(s, "status")
  BY <1>3, <1>5
<1>. QED  BY <1>4, <1>5

LEMMA ChainsGoOn ==
    ASSUME NEW s, NEW t, Extends(s, t), ChainsAreWhole(s), JoinedIn(s, t)
    PROVE  ChainsAreWhole(t)
BY FinalsGoOn, PreparedGoOn, RecordedGoOn, TerminalsGoOn, OrchestratedGoOn, StatusesGoOn
   DEF ChainsAreWhole

----------------------------------------------------------------------------
(* Handoffs: what a call that goes along a chain holds on to.              *)

\* The call is conditional on a stream, n events long when it was read; if it
\* is as long now, what was read still holds.
Awaits(s, stream, n, P) ==
    n \in Nat /\ n <= StreamLength(s, stream) /\ (n = StreamLength(s, stream) => P)

\* The event of the stage that the call of a mounted task is at.
ChainEvent(s, k) ==
    IF k.chain.stage = "final" THEN FinalOutput(k.text, 0)
    ELSE EventAt(s, k.chain.stage, k.chain.binding, k.chain.cause)

ChainFits(s, k) ==
    IF k.chain.stage = "final" THEN OfType(s, "final") = {}
    ELSE Unrivaled(s, k.chain.binding, ChainEvent(s, k))

MountedHands(s, k) ==
    /\ k.chain.stage \in Stages =>
        k.chain.binding.bound /\ Ready(s, k.chain.stage, k.chain.binding, k.chain.cause)
    /\ k.at \in {"fence", "append"} /\ k.chain.stage \in HandTypes =>
        Awaits(s, ChainEvent(s, k).stream, k.expected, ChainFits(s, k))

HandsOver(s, k) ==
    /\ k.op = "reach" => Ready(s, k.stage, k.binding, k.cause)
    /\ k.op = "extend" =>
        /\ Ready(s, k.stage, k.binding, k.cause)
        /\ k.event = EventAt(s, k.stage, k.binding, k.cause)
        /\ k.expected # 0
        /\ Awaits(s, k.event.stream, k.expected - 1, Unrivaled(s, k.binding, k.event))
    /\ k.op = "send" /\ k.event.type \in HandTypes =>
        /\ k.event.type = "final" /\ k.event.stream = RunStream
        /\ k.expected # 0
        /\ Awaits(s, k.event.stream, k.expected - 1, FinalFits(s, k.event))
    /\ k.op = "mounted" => MountedHands(s, k)

\* Nothing of a chain's stream joined it.
LEMMA ChainsStay ==
    ASSUME NEW s, NEW t, Extends(s, t), ChainsAreWhole(t), NEW type \in HandTypes,
           StreamLength(s, HandStream(type)) = StreamLength(t, HandStream(type))
    PROVE  OfType(t, type) = OfType(s, type) /\ \A i \in OfType(s, type) : t[i] = s[i]
<1>1. \A i \in Since(s, t) : t[i].stream # HandStream(type)
  BY StreamsGrow
<1>2. \A i \in Since(s, t) : i \in DOMAIN t
  BY DEF Since, Extends
<1>3. \A i \in Since(s, t) : t[i].type # type
  BY <1>1, <1>2, StreamsOfChains
<1>. QED  BY <1>3, OtherTypesLast

LEMMA UnrivaledStays ==
    ASSUME NEW s, NEW t, Extends(s, t), ChainsAreWhole(t), NEW b, NEW e, e.type \in HandTypes,
           StreamLength(s, HandStream(e.type)) = StreamLength(t, HandStream(e.type)),
           Unrivaled(s, b, e)
    PROVE  Unrivaled(t, b, e)
<1>1. OfType(t, e.type) = OfType(s, e.type) /\ \A i \in OfType(s, e.type) : t[i] = s[i]
  BY ChainsStay
<1>2. Exact(t, e) = {}
  <2>1. SUFFICES ASSUME NEW i \in DOMAIN t, t[i] = e
                 PROVE  FALSE
    BY DEF Exact
  <2>2. i \in OfType(t, e.type)
    BY <2>1 DEF OfType
  <2>3. i \in DOMAIN s /\ s[i] = e
    BY <1>1, <2>1, <2>2 DEF OfType
  <2>. QED  BY <2>3 DEF Unrivaled, Exact
<1>3. Rivals(t, b, e) = Rivals(s, b, e)
  BY <1>1 DEF Rivals
<1>. QED  BY <1>2, <1>3 DEF Unrivaled

LEMMA FinalFitsStill ==
    ASSUME NEW s, NEW t, Extends(s, t), ChainsAreWhole(s), ChainsAreWhole(t), NEW e,
           StreamLength(s, RunStream) = StreamLength(t, RunStream), FinalFits(s, e)
    PROVE  FinalFits(t, e)
<1>1. OfType(t, "final") = OfType(s, "final")
  <2>1. "final" \in HandTypes /\ HandStream("final") = RunStream
    BY DEF HandTypes, HandStream
  <2>. QED  BY <2>1, ChainsStay
<1>2. e.supersedes # 0 =>
        /\ e.supersedes \in OfType(t, "recorded") /\ Anchor(t, e.supersedes) = AnchorOf[e.text]
        /\ t[e.supersedes] = s[e.supersedes]
  BY Stays, AnchorsStay DEF FinalFits
<1>. QED  BY <1>1, <1>2 DEF FinalFits

\* What a call awaits of a stream as long as it was, it may still await.
LEMMA AwaitsStill ==
    ASSUME NEW s, NEW t, Extends(s, t), NEW st, NEW n, NEW P, NEW Q, Awaits(s, st, n, P),
           P /\ StreamLength(s, st) = StreamLength(t, st) => Q
    PROVE  Awaits(t, st, n, Q)
<1>1. /\ StreamLength(s, st) \in Nat /\ StreamLength(t, st) \in Nat
      /\ StreamLength(s, st) <= StreamLength(t, st)
  BY StreamsGrow
<1>2. n \in Nat /\ n <= StreamLength(s, st) /\ (n = StreamLength(s, st) => P)
  BY DEF Awaits
<1>3. n <= StreamLength(t, st)
  BY <1>1, <1>2
<1>4. n = StreamLength(t, st) => Q
  <2>1. n = StreamLength(t, st) => n = StreamLength(s, st) /\ StreamLength(s, st) = StreamLength(t, st)
    BY <1>1, <1>2
  <2>. QED  BY <1>2, <2>1
<1>. QED  BY <1>2, <1>3, <1>4 DEF Awaits

LEMMA HandsStay ==
    ASSUME NEW s, NEW t, Extends(s, t), ChainsAreWhole(s), ChainsAreWhole(t), NEW k, Typed(k),
           HandsOver(s, k)
    PROVE  HandsOver(t, k)
<1>1. k.op \in {"reach", "extend"} => k.stage \in Stages
  BY ByOperation DEF RunOps, RunCall, MountedCall
<1>2. CASE k.op = "reach"
  BY <1>1, <1>2, ReadyStays DEF HandsOver
<1>3. CASE k.op = "extend"
  <2>1. /\ Ready(s, k.stage, k.binding, k.cause)
        /\ k.event = EventAt(s, k.stage, k.binding, k.cause)
        /\ k.expected # 0
        /\ Awaits(s, k.event.stream, k.expected - 1, Unrivaled(s, k.binding, k.event))
    BY <1>3 DEF HandsOver
  <2>2. Ready(t, k.stage, k.binding, k.cause) /\ k.event = EventAt(t, k.stage, k.binding, k.cause)
    BY <1>1, <1>3, <2>1, ReadyStays
  <2>3. k.event.type \in HandTypes /\ k.event.stream = HandStream(k.event.type)
    BY <1>1, <1>3, <2>1, EventAtIs DEF HandTypes
  <2>4. Awaits(t, k.event.stream, k.expected - 1, Unrivaled(t, k.binding, k.event))
    <3>1. Unrivaled(s, k.binding, k.event)
            /\ StreamLength(s, k.event.stream) = StreamLength(t, k.event.stream)
          => Unrivaled(t, k.binding, k.event)
      BY <2>3, UnrivaledStays
    <3>. QED  BY <2>1, <3>1, AwaitsStill
  <2>. QED  BY <1>3, <2>1, <2>2, <2>4 DEF HandsOver
<1>4. CASE k.op = "send"
  <2>1. CASE k.event.type \in HandTypes
    <3>1. /\ k.event.type = "final" /\ k.event.stream = RunStream /\ k.expected # 0
          /\ Awaits(s, k.event.stream, k.expected - 1, FinalFits(s, k.event))
      BY <1>4, <2>1 DEF HandsOver
    <3>2. FinalFits(s, k.event) /\ StreamLength(s, k.event.stream) = StreamLength(t, k.event.stream)
          => FinalFits(t, k.event)
      BY <3>1, FinalFitsStill
    <3>3. Awaits(t, k.event.stream, k.expected - 1, FinalFits(t, k.event))
      BY <3>1, <3>2, AwaitsStill
    <3>. QED  BY <1>4, <3>1, <3>3 DEF HandsOver
  <2>2. CASE k.event.type \notin HandTypes
    BY <1>4, <2>2 DEF HandsOver
  <2>. QED  BY <2>1, <2>2
<1>5. CASE k.op = "mounted"
  <2>0. MountedHands(s, k)
    BY <1>5 DEF HandsOver
  <2>1. k.chain.stage \in Stages =>
            /\ k.chain.binding.bound /\ Ready(t, k.chain.stage, k.chain.binding, k.chain.cause)
            /\ EventAt(t, k.chain.stage, k.chain.binding, k.chain.cause)
                = EventAt(s, k.chain.stage, k.chain.binding, k.chain.cause)
    BY <2>0, ReadyStays DEF MountedHands
  <2>2. ASSUME k.at \in {"fence", "append"}, k.chain.stage \in HandTypes
        PROVE  Awaits(t, ChainEvent(t, k).stream, k.expected, ChainFits(t, k))
    <3> DEFINE e == ChainEvent(s, k)
    <3>1. Awaits(s, e.stream, k.expected, ChainFits(s, k))
      BY <2>0, <2>2 DEF MountedHands
    <3>2. ChainEvent(t, k) = e
      BY <2>1, <2>2 DEF ChainEvent, HandTypes
    <3>3. e.type = k.chain.stage /\ e.stream = HandStream(e.type)
      BY <2>2, EventAtIs DEF HandTypes, ChainEvent, FinalOutput, HandStream
    <3>4. ChainFits(s, k) /\ StreamLength(s, e.stream) = StreamLength(t, e.stream)
          => ChainFits(t, k)
      <4>1. CASE k.chain.stage = "final"
        BY <2>2, <3>3, <4>1, ChainsStay DEF ChainFits
      <4>2. CASE k.chain.stage # "final"
        BY <2>2, <3>2, <3>3, <4>2, UnrivaledStays DEF ChainFits
      <4>. QED  BY <4>1, <4>2
    <3>. HIDE DEF e
    <3>5. Awaits(t, e.stream, k.expected, ChainFits(t, k))
      BY <3>1, <3>4, AwaitsStill
    <3>. QED  BY <3>2, <3>5
  <2>3. MountedHands(t, k)
    BY <2>1, <2>2 DEF MountedHands
  <2>. QED  BY <1>5, <2>3 DEF HandsOver
<1>6. CASE k.op \notin {"reach", "extend", "send", "mounted"}
  BY <1>6 DEF HandsOver
<1>. QED  BY <1>2, <1>3, <1>4, <1>5, <1>6

\* The stage after one whose event is in the ledger.
LEMMA NextReady ==
    ASSUME NEW s, IsLedger(s), NEW stage \in Stages, NEW b, NEW cause, Ready(s, stage, b, cause),
           NEW id \in DOMAIN s, s[id] = EventAt(s, stage, b, cause),
           stage = "terminal" => b.bound
    PROVE  LET n == CHOOSE i \in DOMAIN Chain : Chain[i] = stage IN
           n # Len(Chain) => Chain[n + 1] \in Stages /\ Ready(s, Chain[n + 1], b, id)
<1> DEFINE n == CHOOSE i \in DOMAIN Chain : Chain[i] = stage
<1>1. n \in 1..5 /\ Chain[n] = stage /\ (n # Len(Chain) => Chain[n + 1] \in Stages)
  BY NextStage
<1>. HIDE DEF n
<1>2. /\ Len(Chain) = 5 /\ Chain[1] = "prepared" /\ Chain[2] = "recorded" /\ Chain[3] = "terminal"
      /\ Chain[4] = "orchestrated" /\ Chain[5] = "status"
  BY DEF Chain
<1>3. /\ s[id].type = stage
      /\ stage \in {"prepared", "recorded"} => s[id].binding = b
      /\ stage # "prepared" => s[id].cause = cause
  BY EventAtIs
<1>4. id \in OfType(s, stage) /\ Binds(s, b)
  BY <1>3 DEF OfType, Ready
<1>5. CASE stage = "prepared"
  <2>1. n = 1
    BY <1>1, <1>2, <1>5
  <2>2. Ready(s, "recorded", b, id)
    BY <1>3, <1>4, <1>5 DEF Ready
  <2>. QED  BY <1>1, <1>2, <2>1, <2>2 DEF n
<1>6. CASE stage = "recorded"
  <2>1. n = 2
    BY <1>1, <1>2, <1>6
  <2>2. Ready(s, "terminal", b, id)
    BY <1>3, <1>4, <1>6 DEF Ready
  <2>. QED  BY <1>1, <1>2, <2>1, <2>2 DEF n
<1>7. CASE stage = "terminal"
  <2>1. n = 3
    BY <1>1, <1>2, <1>7
  <2>2. cause \in OfType(s, "recorded") /\ s[cause].binding = b
    BY <1>7 DEF Ready
  <2>3. Ready(s, "orchestrated", b, id)
    BY <1>3, <1>4, <1>7, <2>2 DEF Ready, EndedBy
  <2>. QED  BY <1>1, <1>2, <2>1, <2>3 DEF n
<1>8. CASE stage = "orchestrated"
  <2>1. n = 4
    BY <1>1, <1>2, <1>8
  <2>2. b.bound /\ EndedBy(s, b, cause)
    BY <1>8 DEF Ready
  <2>3. Ready(s, "status", b, id)
    BY <1>3, <1>4, <1>8, <2>2 DEF Ready
  <2>. QED  BY <1>1, <1>2, <2>1, <2>3 DEF n
<1>9. CASE stage = "status"
  BY <1>1, <1>2, <1>9 DEF n
<1>. QED  BY <1>5, <1>6, <1>7, <1>8, <1>9 DEF Stages

LEMMA ReachHands ==
    ASSUME NEW s, NEW stage, NEW b, NEW cause, Ready(s, stage, b, cause)
    PROVE  HandsOver(s, At(stage, b, cause))
BY DEF At, HandsOver

LEMMA IdleHands ==
    ASSUME NEW s
    PROVE  HandsOver(s, Idle)
BY DEF Idle, HandsOver

LEMMA PassedHands ==
    ASSUME NEW s, IsLedger(s), NEW k, k.stage \in Stages, Ready(s, k.stage, k.binding, k.cause),
           NEW id \in DOMAIN s, s[id] = EventAt(s, k.stage, k.binding, k.cause)
    PROVE  HandsOver(s, Passed(k, id))
<1> DEFINE n == CHOOSE i \in DOMAIN Chain : Chain[i] = k.stage
<1>1. CASE LastStage(k.stage, k.binding) \/ n = Len(Chain)
  <2>1. Passed(k, id) = Idle
    BY <1>1 DEF Passed
  <2>. QED  BY <2>1, IdleHands
<1>2. CASE ~(LastStage(k.stage, k.binding) \/ n = Len(Chain))
  <2>1. Passed(k, id) = At(Chain[n + 1], k.binding, id)
    BY <1>2 DEF Passed
  <2>2. k.stage = "terminal" => k.binding.bound
    BY <1>2 DEF LastStage
  <2>3. Ready(s, Chain[n + 1], k.binding, id)
    BY <1>2, <2>2, NextReady
  <2>. HIDE DEF n
  <2>. QED  BY <2>1, <2>3, ReachHands
<1>. QED  BY <1>1, <1>2

LEMMA DecisionHands ==
    ASSUME Formed, NEW k, k.stage \in Stages, Ready(log, k.stage, k.binding, k.cause)
    PROVE  HandsOver(log, Decision(k))
<1> DEFINE e == StageEvent(k.stage, k.binding, k.cause)
           a == Appending(k, e)
           id == CHOOSE i \in Exact(log, e) : TRUE
<1>1. e = EventAt(log, k.stage, k.binding, k.cause) /\ e.type = k.stage
  BY StageEventAt, StageEventIs
<1>. HIDE DEF e
<1>2. CASE Exact(log, e) # {} /\ Decision(k) = Passed(k, id)
  <2>1. id \in DOMAIN log /\ log[id] = e
    BY <1>2 DEF Exact
  <2>. HIDE DEF id
  <2>. QED  BY <1>1, <1>2, <2>1, PassedHands DEF Formed
<1>3. CASE Exact(log, e) = {} /\ Rivals(log, k.binding, e) = {} /\ Decision(k) = a
  <2>1. /\ a.op = "extend" /\ a.stage = k.stage /\ a.binding = k.binding /\ a.cause = k.cause
        /\ a.event = e /\ a.expected = StreamLength(log, e.stream) + 1
    BY DEF Appending
  <2>. HIDE DEF a
  <2>2. Unrivaled(log, k.binding, e)
    BY <1>3 DEF Unrivaled
  <2>3. StreamLength(log, e.stream) \in Nat
    BY CountsAreNumbers
  <2>4. a.expected # 0 /\ a.expected - 1 = StreamLength(log, e.stream)
    BY <2>1, <2>3
  <2>5. Awaits(log, e.stream, a.expected - 1, Unrivaled(log, k.binding, e))
    BY <2>2, <2>3, <2>4 DEF Awaits
  <2>. QED  BY <1>1, <1>3, <2>1, <2>4, <2>5 DEF HandsOver
<1>4. CASE Decision(k) = Idle
  BY <1>4, IdleHands
<1>5. \/ Exact(log, e) # {} /\ Decision(k) = Passed(k, id)
      \/ Decision(k) = Idle
      \/ Exact(log, e) = {} /\ Rivals(log, k.binding, e) = {} /\ Decision(k) = a
  BY DEF Decision, e
<1>. QED  BY <1>2, <1>3, <1>4, <1>5

----------------------------------------------------------------------------
(* Handoffs: steps.                                                        *)

\* The chains are whole, and every call that goes along one fits them.
ChainsHeld == ChainsAreWhole(log) /\ \A d \in Caller : HandsOver(log, call[d])

\* A step of c lets events join as they must, and leaves it with a call that fits.
HandStep(c) ==
    /\ JoinedIn(log, log')
    /\ ChainsAreWhole(log') => HandsOver(log', call'[c])

LEMMA QuietHands ==
    ASSUME Formed, NEW c \in Caller, NEW k, call' = [call EXCEPT ![c] = k], log' = log,
           HandsOver(log, k)
    PROVE  HandStep(c)
<1>1. call'[c] = k
  BY DEF Formed
<1>2. Since(log, log') = {}
  BY ExtendsItself DEF Formed
<1>. QED  BY <1>1, <1>2 DEF HandStep, JoinedIn

LEMMA AppendingHands ==
    ASSUME Formed, NEW c \in Caller, NEW k, call' = [call EXCEPT ![c] = k],
           NEW e, log' = Append(log, e), e.type \in HandTypes => Joins(log, e),
           ChainsAreWhole(log') => HandsOver(log', k)
    PROVE  HandStep(c)
<1>1. call'[c] = k
  BY DEF Formed
<1>2. Since(log, log') = {Len(log) + 1} /\ log'[Len(log) + 1] = e
  BY AppendExtends DEF Formed
<1>. QED  BY <1>1, <1>2 DEF HandStep, JoinedIn

LEMMA HandsKept ==
    ASSUME Formed, ChainsHeld, NEW c \in Caller, HandStep(c), Extends(log, log'),
           call' = [call EXCEPT ![c] = call'[c]]
    PROVE  ChainsHeld'
<1>1. ChainsAreWhole(log) /\ JoinedIn(log, log')
  BY DEF ChainsHeld, HandStep
<1>2. ChainsAreWhole(log')
  BY <1>1, ChainsGoOn
<1>3. ASSUME NEW d \in Caller
      PROVE  HandsOver(log', call'[d])
  <2>1. CASE d = c
    BY <1>2, <2>1 DEF HandStep
  <2>2. CASE d # c
    <3>1. call'[d] = call[d]
      BY <2>2 DEF Formed
    <3>2. HandsOver(log, call[d]) /\ Typed(call[d])
      BY DEF ChainsHeld, Formed
    <3>. QED  BY <1>1, <1>2, <3>1, <3>2, HandsStay
  <2>. QED  BY <2>1, <2>2
<1>. QED  BY <1>2, <1>3 DEF ChainsHeld

\* A step beside the chains.
LEMMA BesideHands ==
    ASSUME Formed, NEW c \in Caller, Beside(c, HandTypes, {"reach", "extend", "mounted"})
    PROVE  HandStep(c)
<1>1. JoinedIn(log, log')
  BY DEF Beside, JoinedIn
<1>2. HandsOver(log', call'[c])
  BY DEF Beside, HandsOver
<1>. QED  BY <1>1, <1>2 DEF HandStep

\* What Recoverable says of the last stages of a chain.
LEMMA SuffixIsReady ==
    ASSUME Formed, ChainsAreWhole(log), Recoverable(log)
    PROVE  /\ Suffix(log).op = "reach" /\ Suffix(log).stage = "orchestrated"
           /\ Suffix(log).binding.bound
           /\ Ready(log, "orchestrated", Suffix(log).binding, Suffix(log).cause)
<1> DEFINE i == CHOOSE i \in OfType(log, "recorded") : TRUE
           t == CHOOSE t \in OfType(log, "terminal") : TRUE
<1>1. Cardinality(OfType(log, "recorded")) = 1 /\ Cardinality(OfType(log, "terminal")) = 1
  BY DEF Recoverable
<1>2. OfType(log, "recorded") # {} /\ OfType(log, "terminal") # {}
  BY <1>1, FS_EmptySet
<1>3. i \in OfType(log, "recorded") /\ t \in OfType(log, "terminal")
  BY <1>2
<1>4. Suffix(log) = At("orchestrated", log[i].binding, t)
  BY DEF Suffix
<1>. HIDE DEF i, t
<1>5. log[i].binding.bound /\ log[t].cause = i
  BY <1>3 DEF Recoverable
<1>6. Binds(log, log[i].binding)
  BY <1>3, RecordedIs DEF Formed
<1>7. Ready(log, "orchestrated", log[i].binding, t)
  BY <1>3, <1>5, <1>6 DEF Ready, EndedBy
<1>. QED  BY <1>4, <1>5, <1>7 DEF At

LEMMA SelectedIsRecorded ==
    ASSUME NEW s, NEW i \in Selected(s)
    PROVE  i \in OfType(s, "recorded")
BY DEF Selected, Selectable, Latest

\* An event of no handoff, appended on no condition.
LEMMA InterferingHands ==
    ASSUME Formed, NEW c \in Caller, NEW op, NEW e, Interfere(c, op, e),
           e.type \notin HandTypes \/ OfNoHandoff(e)
    PROVE  HandStep(c)
<1>1. call' = [call EXCEPT ![c] = Idle] /\ log' = Append(log, e)
  BY MakesIsIdle DEF Interfere, Formed
<1>2. e.type \in HandTypes => Joins(log, e)
  BY DEF Joins
<1>. QED  BY <1>1, <1>2, IdleHands, AppendingHands

LEMMA OutputHands ==
    ASSUME Formed, NEW c \in Caller, NEW text, NEW supersedes, AppendFinalOutput(c, text, supersedes)
    PROVE  HandStep(c)
<1> DEFINE e == FinalOutput(text, supersedes)
           k == ExpectsSequence(e)
<1>1. call' = [call EXCEPT ![c] = k] /\ log' = log
  BY DEF AppendFinalOutput
<1>2. /\ e.type = "final" /\ e.stream = RunStream /\ e.text = text /\ e.supersedes = supersedes
  BY DEF FinalOutput
<1>3. FinalFits(log, e)
  <2>1. supersedes # 0 =>
            supersedes \in OfType(log, "recorded") /\ Anchor(log, supersedes) = AnchorOf[text]
    BY DEF AppendFinalOutput, Latest
  <2>2. \A f \in OfType(log, "final") : supersedes # 0 /\ f = log[supersedes].binding.final
    BY DEF AppendFinalOutput
  <2>. HIDE DEF e
  <2>. QED  BY <1>2, <2>1, <2>2 DEF FinalFits
<1>4. k.op = "send" /\ k.event = e /\ k.expected = StreamLength(log, e.stream) + 1
  BY DEF ExpectsSequence, Sending
<1>5. StreamLength(log, e.stream) \in Nat
  BY CountsAreNumbers
<1>. HIDE DEF e, k
<1>6. k.expected # 0 /\ k.expected - 1 = StreamLength(log, e.stream)
  BY <1>4, <1>5
<1>7. Awaits(log, e.stream, k.expected - 1, FinalFits(log, e))
  BY <1>3, <1>5, <1>6 DEF Awaits
<1>8. HandsOver(log, k)
  BY <1>2, <1>4, <1>6, <1>7 DEF HandsOver
<1>. QED  BY <1>1, <1>8, QuietHands

LEMMA RecordHands ==
    ASSUME Formed, NEW c \in Caller, NEW bound, RecordHandoff(c, bound)
    PROVE  HandStep(c)
<1> DEFINE B(f) == [final |-> f, revision |-> RevisionAfter(log, log[f].supersedes),
                    supersedes |-> log[f].supersedes, bound |-> bound]
<1>1. PICK f \in Eligible : call' = [call EXCEPT ![c] = Decision(At("prepared", B(f), f))]
  BY DEF RecordHandoff
<1>2. f \in OfType(log, "final") /\ log' = log
  BY DEF Eligible, RecordHandoff
<1> DEFINE b == B(f)
           k == At("prepared", b, f)
<1>3. Binds(log, b)
  BY <1>2 DEF Binds
<1>. HIDE DEF b
<1>4. k.stage = "prepared" /\ k.binding = b /\ k.cause = f
  BY DEF At
<1>. HIDE DEF k
<1>5. k.stage \in Stages /\ Ready(log, k.stage, k.binding, k.cause)
  BY <1>3, <1>4 DEF Ready, Stages
<1>6. HandsOver(log, Decision(k))
  BY <1>5, DecisionHands
<1>. QED  BY <1>1, <1>2, <1>6, QuietHands DEF k, b

LEMMA FinalizeHands ==
    ASSUME Formed, ChainsAreWhole(log), NEW c \in Caller, FinalizeRun(c)
    PROVE  HandStep(c)
<1>1. PICK i \in Selected(log) : call' = [call EXCEPT ![c] = At("terminal", log[i].binding, i)]
  BY DEF FinalizeRun
<1>2. i \in OfType(log, "recorded") /\ log' = log
  BY SelectedIsRecorded DEF FinalizeRun
<1>3. Binds(log, log[i].binding)
  BY <1>2, RecordedIs DEF Formed
<1>4. Ready(log, "terminal", log[i].binding, i)
  BY <1>2, <1>3 DEF Ready
<1>5. HandsOver(log, At("terminal", log[i].binding, i))
  BY <1>4, ReachHands
<1>. QED  BY <1>1, <1>2, <1>5, QuietHands

LEMMA ExtendHands ==
    ASSUME Formed, ChainsHeld, NEW c \in Caller, ExtendChain(c)
    PROVE  HandStep(c)
<1> DEFINE k == call[c]
           id == CHOOSE i \in Exact(log, k.event) : TRUE
<1>1. k.op = "extend" /\ HandsOver(log, k)
  BY DEF ExtendChain, ChainsHeld
<1>2. k.stage \in Stages
  BY <1>1, ByOperation DEF Formed, RunOps, RunCall, MountedCall
<1>3. /\ Ready(log, k.stage, k.binding, k.cause)
      /\ k.event = EventAt(log, k.stage, k.binding, k.cause)
      /\ k.expected # 0
      /\ Awaits(log, k.event.stream, k.expected - 1, Unrivaled(log, k.binding, k.event))
  BY <1>1 DEF HandsOver
<1>4. CASE Holds(c)
  <2>1. log' = Append(log, k.event) /\ call' = [call EXCEPT ![c] = Passed(k, Len(log) + 1)]
    BY <1>4 DEF ExtendChain
  <2>2. Unrivaled(log, k.binding, k.event)
    <3>1. k.expected = StreamLength(log, k.event.stream) + 1
      BY <1>3, <1>4 DEF Holds
    <3>2. StreamLength(log, k.event.stream) \in Nat
      BY CountsAreNumbers
    <3>3. k.expected - 1 = StreamLength(log, k.event.stream)
      BY <3>1, <3>2
    <3>. QED  BY <1>3, <3>3 DEF Awaits
  <2>3. Joins(log, k.event)
    BY <1>2, <1>3, <2>2 DEF Joins
  <2>4. HandsOver(log', Passed(k, Len(log) + 1))
    <3>1. Extends(log, log') /\ log'[Len(log) + 1] = k.event /\ Len(log') = Len(log) + 1
      BY <2>1, AppendExtends DEF Formed
    <3>2. IsLedger(log') /\ Len(log) + 1 \in DOMAIN log'
      BY <3>1 DEF Extends
    <3>3. /\ Ready(log', k.stage, k.binding, k.cause)
          /\ k.event = EventAt(log', k.stage, k.binding, k.cause)
      BY <1>2, <1>3, <3>1, ReadyStays DEF ChainsHeld
    <3>. HIDE DEF k
    <3>. QED  BY <1>2, <3>1, <3>2, <3>3, PassedHands
  <2>. HIDE DEF k
  <2>. QED  BY <2>1, <2>3, <2>4, AppendingHands
<1>5. CASE ~Holds(c)
  <2>1. /\ log' = log
        /\ \/ call' = [call EXCEPT ![c] = Idle]
           \/ Exact(log, k.event) # {} /\ call' = [call EXCEPT ![c] = Passed(k, id)]
    BY <1>5 DEF ExtendChain
  <2>2. Exact(log, k.event) # {} => HandsOver(log, Passed(k, id))
    <3>1. SUFFICES ASSUME Exact(log, k.event) # {}
                   PROVE  HandsOver(log, Passed(k, id))
      OBVIOUS
    <3>2. id \in DOMAIN log /\ log[id] = k.event
      BY <3>1 DEF Exact
    <3>. HIDE DEF k, id
    <3>. QED  BY <1>2, <1>3, <3>2, PassedHands DEF Formed
  <2>. HIDE DEF id
  <2>. QED  BY <2>1, <2>2, IdleHands, QuietHands
<1>. QED  BY <1>4, <1>5

LEMMA HandoffHands ==
    ASSUME Formed, ChainsHeld, NEW c \in Caller, HandoffNext(c)
    PROVE  HandStep(c)
<1>0. ChainsAreWhole(log)
  BY DEF ChainsHeld
<1>1. CASE RecoverSuffix(c)
  <2>1. call' = [call EXCEPT ![c] = Suffix(log)] /\ log' = log /\ Recoverable(log)
    BY <1>1 DEF RecoverSuffix
  <2>2. HandsOver(log, Suffix(log))
    BY <1>0, <2>1, SuffixIsReady DEF HandsOver
  <2>. QED  BY <2>1, <2>2, QuietHands
<1>2. CASE ReachStage(c)
  <2>1. /\ call[c].op = "reach" /\ log' = log
        /\ (call' = [call EXCEPT ![c] = Idle] \/ call' = [call EXCEPT ![c] = Decision(call[c])])
    BY <1>2 DEF ReachStage
  <2>2. call[c].stage \in Stages
    BY <2>1, ByOperation DEF Formed, RunOps, RunCall, MountedCall
  <2>3. Ready(log, call[c].stage, call[c].binding, call[c].cause)
    BY <2>1 DEF ChainsHeld, HandsOver
  <2>4. HandsOver(log, Decision(call[c]))
    BY <2>2, <2>3, DecisionHands
  <2>. QED  BY <2>1, <2>4, IdleHands, QuietHands
<1>3. CASE AppendStep(c)
  <2>1. [type |-> "step", stream |-> RunStream].type \notin HandTypes
    BY DEF HandTypes, Stages
  <2>. QED  BY <1>3, <2>1, InterferingHands DEF AppendStep
<1>4. CASE AppendFailure(c)
  <2>1. OfNoHandoff([type |-> "terminal", stream |-> RunStream, cause |-> 0, status |-> "failed"])
    BY DEF OfNoHandoff
  <2>. QED  BY <1>4, <2>1, InterferingHands DEF AppendFailure
<1>5. CASE CancelTask(c)
  <2>1. OfNoHandoff([type |-> "status", stream |-> TaskStream, cause |-> 0, status |-> "canceled"])
    BY DEF OfNoHandoff
  <2>. QED  BY <1>5, <2>1, InterferingHands DEF CancelTask
<1>. QED  BY <1>0, <1>1, <1>2, <1>3, <1>4, <1>5, OutputHands, RecordHands, FinalizeHands, ExtendHands
          DEF HandoffNext

----------------------------------------------------------------------------
(* Handoffs: the steps of mounted tasks.                                   *)

\* Types of events of mounted tasks, those of the chains apart.
MountedTypes ==
    {"invoked", "answered", "transfer-requested", "completion-memory", "stale-admission",
     "policy-changed", "elsewhere", "task-running", "task-waiting", "run-started", "task-admitted"}

LEMMA MountedTypesApart ==
    MountedTypes \intersect HandTypes = {} /\ MountedTypes \intersect LoopTypes = {}
BY DEF MountedTypes, HandTypes, Stages, LoopTypes, LoopRecord, ToolRecord

\* The call n that k becomes is at no stage of a chain that k was not at.
Unstaged(k, n) ==
    \/ n = Idle
    \/ n.op = "send" /\ n.event.type \in MountedTypes
    \/ /\ n.op = "mounted" /\ n.chain.stage \notin Stages
       /\ n.at \in {"fence", "append"} => n.chain.stage \notin HandTypes
    \/ /\ k.op = "mounted" /\ n.op = "mounted" /\ n.chain = k.chain
       /\ n.at \notin {"fence", "append"}

Unstages(c) == \E n : call' = [call EXCEPT ![c] = n] /\ Unstaged(call[c], n)

NothingJoins ==
    \/ log' = log
    \/ \E e : (e.type \in MountedTypes \/ OfNoHandoff(e)) /\ log' = Append(log, e)

LEMMA UnstagedHands ==
    ASSUME Formed, ChainsHeld, NEW c \in Caller, Unstages(c), NothingJoins
    PROVE  HandStep(c)
<1> DEFINE k == call[c]
<1>1. PICK n : call' = [call EXCEPT ![c] = n] /\ Unstaged(k, n)
  BY DEF Unstages
<1>2. HandsOver(log, k) /\ Typed(k)
  BY DEF ChainsHeld, Formed
<1>. HIDE DEF k
<1>3. ASSUME NEW s, HandsOver(s, k)
      PROVE  HandsOver(s, n)
  <2>1. CASE n = Idle
    BY <2>1, IdleHands
  <2>2. CASE n.op = "send" /\ n.event.type \in MountedTypes
    BY <2>2, MountedTypesApart DEF HandsOver
  <2>3. CASE n.op = "mounted" /\ n.chain.stage \notin Stages
             /\ (n.at \in {"fence", "append"} => n.chain.stage \notin HandTypes)
    BY <2>3 DEF HandsOver, MountedHands
  <2>4. CASE k.op = "mounted" /\ n.op = "mounted" /\ n.chain = k.chain /\ n.at \notin {"fence", "append"}
    BY <1>3, <2>4 DEF HandsOver, MountedHands
  <2>. QED  BY <1>1, <2>1, <2>2, <2>3, <2>4 DEF Unstaged
<1>4. CASE log' = log
  BY <1>1, <1>2, <1>3, <1>4, QuietHands
<1>5. ASSUME NEW e, e.type \in MountedTypes \/ OfNoHandoff(e), log' = Append(log, e)
      PROVE  HandStep(c)
  <2>1. ChainsAreWhole(log') => HandsOver(log', n)
    <3>1. Extends(log, log')
      BY <1>5, AppendExtends DEF Formed
    <3>. QED  BY <1>2, <1>3, <3>1, HandsStay DEF ChainsHeld
  <2>2. e.type \in HandTypes => Joins(log, e)
    BY <1>5, MountedTypesApart DEF Joins
  <2>. QED  BY <1>1, <1>5, <2>1, <2>2, AppendingHands
<1>. QED  BY <1>4, <1>5 DEF NothingJoins

LEMMA ReturnsUnstages ==
    ASSUME NEW c \in Caller, Returns(c)
    PROVE  Unstages(c)
BY DEF Returns, Unstages, Unstaged

LEMMA ProceedsUnstages ==
    ASSUME Formed, NEW c \in Caller, call[c].op = "mounted", NEW at, at \notin {"fence", "append"},
           Proceeds(c, at) \/ ProceedsKnowing(c, at)
    PROVE  Unstages(c)
<1> DEFINE k == [call[c] EXCEPT !.at = at]
           l == [call[c] EXCEPT !.at = at, !.base = Len(log)]
<1>1. DOMAIN call[c] = MountedFields
  BY MountedIs DEF MountedCall
<1>2. Unstaged(call[c], k) /\ Unstaged(call[c], l)
  BY <1>1 DEF Unstaged, MountedFields
<1>3. call' = [call EXCEPT ![c] = k] \/ call' = [call EXCEPT ![c] = l]
  BY DEF Proceeds, ProceedsKnowing
<1>. HIDE DEF k, l
<1>. QED  BY <1>2, <1>3 DEF Unstages

LEMMA ExecutionUnstaged ==
    ASSUME NEW k, NEW run, NEW at, at \notin {"fence", "append"}
    PROVE  Unstaged(k, Execution(run, at))
BY DEF Unstaged, Execution, NoStage, Stages

LEMMA MountedEventsAre ==
    /\ OfNoHandoff(TaskCanceled)
    /\ Invoked.type \in MountedTypes /\ Answered.type \in MountedTypes
    /\ TransferRequested.type \in MountedTypes /\ CompletionMemory.type \in MountedTypes
    /\ StaleAdmission.type \in MountedTypes /\ PolicyChanged.type \in MountedTypes
    /\ Elsewhere.type \in MountedTypes
    /\ \A run : TaskRunning(run).type \in MountedTypes /\ TaskWaiting(run).type \in MountedTypes
                /\ RunStarted(run).type \in MountedTypes
    /\ \A run, policy : TaskAdmitted(run, policy).type \in MountedTypes
BY DEF OfNoHandoff, TaskCanceled, Invoked, Answered, TransferRequested, CompletionMemory,
       StaleAdmission, PolicyChanged, Elsewhere, TaskRunning, TaskWaiting, RunStarted,
       TaskAdmitted, MountedTypes

LEMMA AppendsOrUnstages ==
    ASSUME Formed, NEW c \in Caller, call[c].op = "mounted", NEW e, e.type \in MountedTypes,
           NEW at \in {"entering", "prompting"}, AppendsOr(c, e, at)
    PROVE  Unstages(c) /\ NothingJoins
<1>1. at \notin {"fence", "append"}
  OBVIOUS
<1>2. \/ log' = Append(log, e) /\ Proceeds(c, at)
      \/ log' = log /\ Returns(c)
  BY DEF AppendsOr
<1>. QED  BY <1>1, <1>2, ProceedsUnstages, ReturnsUnstages DEF NothingJoins

LEMMA AppendsLastUnstages ==
    ASSUME NEW c \in Caller, NEW e, e.type \in MountedTypes \/ OfNoHandoff(e), AppendsLast(c, e)
    PROVE  Unstages(c) /\ NothingJoins
<1>1. Returns(c) /\ (log' = log \/ log' = Append(log, e))
  BY DEF AppendsLast
<1>. QED  BY <1>1, ReturnsUnstages DEF NothingJoins

LEMMA AdmissionUnstages ==
    ASSUME Formed, NEW c \in Caller,
           \/ \E run \in Run : RequestRun(c, run)
           \/ AppendAdmission(c) \/ TakeUp(c) \/ FindStale(c) \/ DiagnoseStale(c)
           \/ Examine(c) \/ BindHandoff(c)
    PROVE  Unstages(c) /\ NothingJoins
<1>1. ASSUME NEW run \in Run, RequestRun(c, run)
      PROVE  Unstages(c) /\ NothingJoins
  <2>1. PICK at \in {"storing", "examine"} : call' = [call EXCEPT ![c] = Execution(run, at)]
    BY <1>1 DEF RequestRun
  <2>2. log' = log
    BY <1>1 DEF RequestRun
  <2>. QED  BY <2>1, <2>2, ExecutionUnstaged DEF Unstages, NothingJoins
<1>2. CASE AppendAdmission(c)
  <2> DEFINE e == TaskAdmitted(call[c].run, call[c].policy)
  <2>1. /\ call[c].op = "mounted" /\ (Proceeds(c, "examine") \/ Returns(c))
        /\ (log' = log \/ log' = Append(log, e))
    BY <1>2 DEF AppendAdmission, Is
  <2>2. e.type \in MountedTypes
    BY MountedEventsAre
  <2>. HIDE DEF e
  <2>. QED  BY <2>1, <2>2, ProceedsUnstages, ReturnsUnstages DEF NothingJoins
<1>3. CASE TakeUp(c)
  <2>1. log' = Append(log, Elsewhere) /\ call' = [call EXCEPT ![c] = Execution("local", "examine")]
    BY <1>3 DEF TakeUp
  <2>2. NothingJoins
    BY <2>1, MountedEventsAre DEF NothingJoins
  <2>3. Unstages(c)
    BY <2>1, ExecutionUnstaged DEF Unstages
  <2>. QED  BY <2>2, <2>3
<1>4. CASE FindStale(c)
  <2>1. log' = log /\ call' = [call EXCEPT ![c] = Execution("local", "diagnosing")]
    BY <1>4 DEF FindStale
  <2>. QED  BY <2>1, ExecutionUnstaged DEF Unstages, NothingJoins
<1>5. CASE DiagnoseStale(c)
  <2>1. call[c].op = "mounted"
    BY <1>5 DEF DiagnoseStale, Is
  <2>2. \/ log' = log /\ ProceedsKnowing(c, "diagnosing again")
        \/ AppendsLast(c, StaleAdmission)
    BY <1>5 DEF DiagnoseStale
  <2>3. CASE log' = log /\ ProceedsKnowing(c, "diagnosing again")
    <3>1. "diagnosing again" \notin {"fence", "append"}
      OBVIOUS
    <3>. QED  BY <2>1, <2>3, <3>1, ProceedsUnstages DEF NothingJoins
  <2>4. CASE AppendsLast(c, StaleAdmission)
    BY <2>4, AppendsLastUnstages, MountedEventsAre
  <2>. QED  BY <2>2, <2>3, <2>4
<1>6. CASE Examine(c)
  <2> DEFINE run == call[c].run
             goal == Goal(log, run)
             next == IF goal = "remember" \/ run = "remote" THEN goal ELSE "bind"
             k == [Execution(run, next) EXCEPT !.chain.stage = goal]
  <2>1. log' = log /\ (Returns(c) \/ call' = [call EXCEPT ![c] = k])
    BY <1>6 DEF Examine
  <2>2. goal \in {"start", "remember", "recover", "resume", "nothing"}
    BY DEF Goal
  <2>. HIDE DEF goal
  <2>3. Unstaged(call[c], k)
    BY <2>2 DEF Unstaged, Execution, NoStage, Stages, HandTypes
  <2>. HIDE DEF k
  <2>. QED  BY <2>1, <2>3, ReturnsUnstages DEF Unstages, NothingJoins
<1>7. CASE BindHandoff(c)
  <2> DEFINE k == [call[c] EXCEPT !.at = call[c].chain.stage, !.cursor = Derived(log)]
  <2>1. call[c].op = "mounted" /\ call[c].at = "bind" /\ log' = log
    BY <1>7 DEF BindHandoff, Is
  <2>2. call' = [call EXCEPT ![c] = k] \/ Returns(c)
    BY <1>7 DEF BindHandoff
  <2>3. DOMAIN call[c] = MountedFields /\ call[c].chain.stage \in {"start", "recover", "resume"}
    BY <2>1, MountedIs DEF MountedCall
  <2>4. Unstaged(call[c], k)
    BY <2>1, <2>3 DEF Unstaged, MountedFields
  <2>. HIDE DEF k
  <2>. QED  BY <2>1, <2>2, <2>4, ReturnsUnstages DEF Unstages, NothingJoins
<1>. QED  BY <1>1, <1>2, <1>3, <1>4, <1>5, <1>6, <1>7

LEMMA StartUnstages ==
    ASSUME Formed, NEW c \in Caller,
           \/ StartRun(c) \/ AppendStarted(c) \/ EnterTask(c) \/ AppendRunning(c)
           \/ EnterGate(c) \/ LeaveGate(c) \/ FailStore(c)
           \/ AskCancel(c) \/ CancelMounted(c)
    PROVE  Unstages(c) /\ NothingJoins
<1>1. CASE StartRun(c)
  <2>1. call[c].op = "mounted" /\ log' = log /\ (ProceedsKnowing(c, "starting") \/ Returns(c))
    BY <1>1 DEF StartRun, Is
  <2>. QED  BY <2>1, ProceedsUnstages, ReturnsUnstages DEF NothingJoins
<1>2. CASE AppendStarted(c)
  <2>1. call[c].op = "mounted" /\ AppendsOr(c, RunStarted(call[c].run), "entering")
    BY <1>2 DEF AppendStarted, Is
  <2>. QED  BY <2>1, MountedEventsAre, AppendsOrUnstages
<1>3. CASE EnterTask(c)
  <2>1. call[c].op = "mounted" /\ log' = log
        /\ (ProceedsKnowing(c, "entered") \/ Proceeds(c, "prompting") \/ Returns(c))
    BY <1>3 DEF EnterTask, Is
  <2>. QED  BY <2>1, ProceedsUnstages, ReturnsUnstages DEF NothingJoins
<1>4. CASE AppendRunning(c)
  <2>1. call[c].op = "mounted" /\ AppendsOr(c, TaskRunning(call[c].run), "prompting")
    BY <1>4 DEF AppendRunning, Is
  <2>. QED  BY <2>1, MountedEventsAre, AppendsOrUnstages
<1>5. CASE EnterGate(c)
  <2> DEFINE k == [call[c] EXCEPT !.inside = TRUE, !.cursor = Now(c)]
             l == [call[c] EXCEPT !.inside = TRUE, !.base = Len(log)]
             m == [call[c] EXCEPT !.inside = TRUE]
  <2>1. call[c].op = "mounted" /\ call[c].at \in Gated /\ log' = log
    BY <1>5 DEF EnterGate
  <2>2. \/ call' = [call EXCEPT ![c] = k] \/ call' = [call EXCEPT ![c] = l]
        \/ call' = [call EXCEPT ![c] = m] \/ Returns(c)
    BY <1>5 DEF EnterGate
  <2>3. DOMAIN call[c] = MountedFields /\ call[c].at \notin {"fence", "append"}
    BY <2>1, MountedIs DEF MountedCall, Gated
  <2>4. Unstaged(call[c], k) /\ Unstaged(call[c], l) /\ Unstaged(call[c], m)
    BY <2>1, <2>3 DEF Unstaged, MountedFields
  <2>. HIDE DEF k, l, m
  <2>. QED  BY <2>1, <2>2, <2>4, ReturnsUnstages DEF Unstages, NothingJoins
<1>6. CASE LeaveGate(c)
  <2> DEFINE k == [call[c] EXCEPT !.inside = FALSE, !.at = AfterWrite(call[c]),
                                  !.chain = StageAfter(call[c])]
  <2>1. call[c].op = "mounted" /\ call[c].inside /\ call[c].at # "canceling" /\ log' = log
    BY <1>6 DEF LeaveGate, Inside
  <2>2. call' = [call EXCEPT ![c] = k] \/ Returns(c)
    BY <1>6 DEF LeaveGate
  <2>3. call[c].at \in Gated /\ MountedGoes(call[c])
    BY <2>1, MountedIs DEF MountedGoes
  <2>4. DOMAIN call[c] = MountedFields /\ call[c].run \in Run
    BY <2>3 DEF MountedGoes
  <2>5. AfterWrite(call[c]) \notin {"fence", "append"}
    BY <2>1, <2>3, <2>4 DEF AfterWrite, Gated, Run
  <2>6. StageAfter(call[c]) = call[c].chain \/ StageAfter(call[c]).stage = "final"
    BY DEF StageAfter
  <2>7. k.op = "mounted" /\ k.at = AfterWrite(call[c]) /\ k.chain = StageAfter(call[c])
    BY <2>1, <2>4 DEF MountedFields
  <2>. HIDE DEF k
  <2>8. Unstaged(call[c], k)
    BY <2>1, <2>5, <2>6, <2>7 DEF Unstaged, Stages
  <2>. QED  BY <2>1, <2>2, <2>8, ReturnsUnstages DEF Unstages, NothingJoins
<1>7. CASE FailStore(c)
  <2> DEFINE k == [call[c] EXCEPT !.inside = FALSE, !.text = Unpublished]
  <2>1. call[c].op = "mounted" /\ call[c].at = "publishing" /\ log' = log
        /\ call' = [call EXCEPT ![c] = k]
    BY <1>7 DEF FailStore, Is
  <2>2. DOMAIN call[c] = MountedFields
    BY <2>1, MountedIs DEF MountedCall
  <2>3. Unstaged(call[c], k)
    BY <2>1, <2>2 DEF Unstaged, MountedFields
  <2>. HIDE DEF k
  <2>. QED  BY <2>1, <2>3 DEF Unstages, NothingJoins
<1>8. CASE AskCancel(c)
  <2>1. log' = log /\ call' = [call EXCEPT ![c] = Execution("none", "canceling")]
    BY <1>8 DEF AskCancel
  <2>. QED  BY <2>1, ExecutionUnstaged DEF Unstages, NothingJoins
<1>9. CASE CancelMounted(c)
  <2>1. AppendsLast(c, TaskCanceled)
    BY <1>9 DEF CancelMounted
  <2>. QED  BY <2>1, MountedEventsAre, AppendsLastUnstages
<1>. QED  BY <1>1, <1>2, <1>3, <1>4, <1>5, <1>6, <1>7, <1>8, <1>9

LEMMA InvocationUnstages ==
    ASSUME Formed, NEW c \in Caller,
           \/ InvokeModel(c) \/ AppendInvoked(c) \/ AppendAnswered(c) \/ ReturnAnswer(c)
           \/ ConsumeHandoff(c) \/ ReadMemory(c) \/ AppendMemory(c)
           \/ AskTransfer(c) \/ SuspendTask(c)
           \/ ChangePolicy(c) \/ AppendElsewhere(c)
    PROVE  Unstages(c) /\ NothingJoins
<1>1. CASE InvokeModel(c)
  <2> DEFINE k == [call[c] EXCEPT !.at = "fence", !.chain = [stage |-> "answered"], !.expected = 1]
  <2>1. call[c].op = "mounted" /\ log' = log
    BY <1>1 DEF InvokeModel, Is
  <2>2. \/ Returns(c) \/ Proceeds(c, "publishing") \/ Proceeds(c, "invoking")
        \/ call' = [call EXCEPT ![c] = k]
    BY <1>1 DEF InvokeModel
  <2>3. DOMAIN call[c] = MountedFields
    BY <2>1, MountedIs DEF MountedCall
  <2>4. Unstaged(call[c], k)
    BY <2>1, <2>3 DEF Unstaged, MountedFields, Stages, HandTypes
  <2>. HIDE DEF k
  <2>5. Unstages(c)
    BY <2>1, <2>2, <2>4, ReturnsUnstages, ProceedsUnstages DEF Unstages
  <2>. QED  BY <2>1, <2>5 DEF NothingJoins
<1>2. CASE AppendInvoked(c)
  <2>1. call[c].op = "mounted"
        /\ \/ log' = Append(log, Invoked) /\ Proceeds(c, "answering")
           \/ log' = log /\ Returns(c)
    BY <1>2 DEF AppendInvoked, Is
  <2>. QED  BY <2>1, MountedEventsAre, ReturnsUnstages, ProceedsUnstages DEF NothingJoins
<1>3. CASE AppendAnswered(c)
  <2>1. call[c].op = "mounted"
        /\ \/ log' = Append(log, Answered) /\ Proceeds(c, "answered")
           \/ log' = log /\ Returns(c)
    BY <1>3 DEF AppendAnswered, Is
  <2>. QED  BY <2>1, MountedEventsAre, ReturnsUnstages, ProceedsUnstages DEF NothingJoins
<1>4. CASE ReturnAnswer(c)
  <2>1. call[c].op = "mounted" /\ log' = log /\ (Proceeds(c, "publishing") \/ Returns(c))
    BY <1>4 DEF ReturnAnswer, Is
  <2>. QED  BY <2>1, ReturnsUnstages, ProceedsUnstages DEF NothingJoins
<1>5. CASE ConsumeHandoff(c)
  <2>1. call[c].op = "mounted" /\ log' = log /\ (Proceeds(c, "remember") \/ Returns(c))
    BY <1>5 DEF ConsumeHandoff, Is
  <2>. QED  BY <2>1, ReturnsUnstages, ProceedsUnstages DEF NothingJoins
<1>6. CASE ReadMemory(c)
  <2>1. call[c].op = "mounted" /\ log' = log /\ (ProceedsKnowing(c, "remembering") \/ Returns(c))
    BY <1>6 DEF ReadMemory, Is
  <2>. QED  BY <2>1, ReturnsUnstages, ProceedsUnstages DEF NothingJoins
<1>7. CASE AppendMemory(c)
  <2>1. AppendsLast(c, CompletionMemory) \/ (log' = log /\ Returns(c))
    BY <1>7 DEF AppendMemory
  <2>. QED  BY <2>1, MountedEventsAre, ReturnsUnstages, AppendsLastUnstages DEF NothingJoins
<1>8. CASE AskTransfer(c)
  <2>1. call[c].op = "mounted"
        /\ \/ log' = Append(log, TransferRequested) /\ Proceeds(c, "suspending")
           \/ log' = log /\ Returns(c)
    BY <1>8 DEF AskTransfer, Is
  <2>. QED  BY <2>1, MountedEventsAre, ReturnsUnstages, ProceedsUnstages DEF NothingJoins
<1>9. CASE SuspendTask(c)
  <2> DEFINE e == TaskWaiting("remote")
             k == ExpectsSequence(e)
  <2>1. log' = log /\ (Returns(c) \/ call' = [call EXCEPT ![c] = k])
    BY <1>9 DEF SuspendTask
  <2>2. e.type \in MountedTypes
    BY MountedEventsAre
  <2>3. k.op = "send" /\ k.event = e
    BY DEF ExpectsSequence, Sending
  <2>. HIDE DEF e, k
  <2>4. Unstaged(call[c], k)
    BY <2>2, <2>3 DEF Unstaged
  <2>. QED  BY <2>1, <2>4, ReturnsUnstages DEF Unstages, NothingJoins
<1>10. ASSUME NEW op, NEW e, Interfere(c, op, e), e.type \in MountedTypes
       PROVE  Unstages(c) /\ NothingJoins
  <2>1. call' = [call EXCEPT ![c] = Idle] /\ log' = Append(log, e)
    BY <1>10, MakesIsIdle DEF Interfere, Formed
  <2>. QED  BY <1>10, <2>1 DEF Unstages, Unstaged, NothingJoins
<1>11. CASE ChangePolicy(c)
  BY <1>10, <1>11, MountedEventsAre DEF ChangePolicy
<1>12. CASE AppendElsewhere(c)
  BY <1>10, <1>12, MountedEventsAre DEF AppendElsewhere
<1>. QED  BY <1>1, <1>2, <1>3, <1>4, <1>5, <1>6, <1>7, <1>8, <1>9, <1>11, <1>12

\* The stage's event and what is against it, as the chain has them.
LEMMA StagedIs ==
    ASSUME NEW k, k.chain.stage \in HandTypes
    PROVE  /\ EventOf(k) = ChainEvent(log, k)
           /\ ConflictsWith(k, EventOf(k)) = {} /\ Exact(log, EventOf(k)) = {} => ChainFits(log, k)
<1>1. CASE k.chain.stage = "final"
  <2>1. EventOf(k) = ChainEvent(log, k)
    BY <1>1 DEF EventOf, ChainEvent
  <2>2. ASSUME ConflictsWith(k, EventOf(k)) = {}, Exact(log, EventOf(k)) = {}
        PROVE  OfType(log, "final") = {}
    <3>1. {i \in OfType(log, "final") : log[i] # EventOf(k)} = {}
      BY <1>1, <2>2 DEF ConflictsWith
    <3>. QED  BY <2>2, <3>1 DEF Exact, OfType
  <2>. QED  BY <1>1, <2>1, <2>2 DEF ChainFits
<1>2. CASE k.chain.stage \in Stages
  <2>1. EventOf(k) = StageEvent(k.chain.stage, k.chain.binding, k.chain.cause)
    BY <1>2 DEF EventOf, Stages
  <2>2. EventOf(k) = ChainEvent(log, k) /\ k.chain.stage # "final"
    BY <1>2, <2>1, StageEventAt DEF ChainEvent, Stages
  <2>3. ConflictsWith(k, EventOf(k)) = Rivals(log, k.chain.binding, EventOf(k))
    BY <2>2 DEF ConflictsWith
  <2>. QED  BY <2>2, <2>3 DEF ChainFits, Unrivaled
<1>. QED  BY <1>1, <1>2 DEF HandTypes

LEMMA BeyondHands ==
    ASSUME NEW s, IsLedger(s), NEW k, MountedGoes(k), k.chain.stage \in MountedStages,
           k.chain.stage \in Stages =>
                k.chain.binding.bound /\ Ready(s, k.chain.stage, k.chain.binding, k.chain.cause),
           NEW id, k.chain.stage \in HandTypes => id \in DOMAIN s /\ s[id] = ChainEvent(s, k),
           NEW cursor
    PROVE  HandsOver(s, Beyond(k, id)) /\ HandsOver(s, [Beyond(k, id) EXCEPT !.cursor = cursor])
<1>0. k.op = "mounted" /\ DOMAIN k = MountedFields
  BY DEF MountedGoes
<1>1. ASSUME NEW at, at \notin {"fence", "append"}, NEW a, NEW b,
             b = [k EXCEPT !.at = at] \/ b = [k EXCEPT !.at = at, !.chain = a],
             k.chain = a \/ b # [k EXCEPT !.at = at],
             a.stage \in Stages => a.binding.bound /\ Ready(s, a.stage, a.binding, a.cause)
      PROVE  HandsOver(s, b) /\ HandsOver(s, [b EXCEPT !.cursor = cursor])
  <2>1. DOMAIN b = MountedFields /\ b.op = "mounted" /\ b.at = at /\ b.chain = a
    BY <1>0, <1>1 DEF MountedFields
  <2> DEFINE d == [b EXCEPT !.cursor = cursor]
  <2>2. d.op = "mounted" /\ d.at = at /\ d.chain = a
    BY <2>1 DEF MountedFields
  <2>. HIDE DEF d
  <2>3. MountedHands(s, b) /\ MountedHands(s, d)
    BY <1>1, <2>1, <2>2 DEF MountedHands
  <2>. QED  BY <2>1, <2>2, <2>3 DEF HandsOver, d
<1>2. CASE k.chain.stage = "answered"
  <2>1. Beyond(k, id) = [k EXCEPT !.at = "publishing"]
    BY <1>2 DEF Beyond
  <2>2. k.chain.stage \notin Stages
    BY <1>2 DEF Stages
  <2>. QED  BY <1>1, <2>1, <2>2
<1>3. CASE k.chain.stage = "final"
  <2> DEFINE b == [final |-> id, revision |-> 1, supersedes |-> 0, bound |-> TRUE]
             a == At("prepared", b, id)
  <2>1. Beyond(k, id) = [k EXCEPT !.at = "sealing", !.chain = a]
    BY <1>3 DEF Beyond
  <2>2. id \in DOMAIN s /\ s[id] = FinalOutput(k.text, 0)
    BY <1>3 DEF HandTypes, ChainEvent
  <2>3. id \in OfType(s, "final") /\ s[id].supersedes = 0
    BY <2>2 DEF OfType, FinalOutput
  <2>4. b.final = id /\ b.supersedes = 0 /\ b.revision = 1 /\ b.bound
    OBVIOUS
  <2>5. Binds(s, b)
    BY <2>3, <2>4 DEF Binds, RevisionAfter
  <2>. HIDE DEF b
  <2>6. a.stage = "prepared" /\ a.binding = b /\ a.cause = id
    BY DEF At
  <2>7. Ready(s, "prepared", b, id)
    BY <2>5 DEF Ready
  <2>8. a.stage \in Stages => a.binding.bound /\ Ready(s, a.stage, a.binding, a.cause)
    BY <2>4, <2>6, <2>7
  <2>. HIDE DEF a
  <2>9. [k EXCEPT !.at = "sealing", !.chain = a] # [k EXCEPT !.at = "sealing"] \/ k.chain = a
    BY <1>0 DEF MountedFields
  <2>. QED  BY <1>1, <2>1, <2>8, <2>9
<1>4. CASE k.chain.stage = "status"
  <2>1. Beyond(k, id) = [k EXCEPT !.at = "consume"]
    BY <1>4 DEF Beyond
  <2>. QED  BY <1>1, <2>1
<1>5. CASE k.chain.stage \in Stages \ {"status"}
  <2> DEFINE n == CHOOSE i \in DOMAIN Chain : Chain[i] = k.chain.stage
             b == k.chain.binding
             a == At(Chain[n + 1], b, id)
  <2>1. Beyond(k, id) = [k EXCEPT !.at = "stage", !.chain = a]
    BY <1>5 DEF Beyond, Stages
  <2>2. id \in DOMAIN s /\ s[id] = EventAt(s, k.chain.stage, b, k.chain.cause)
    BY <1>5 DEF HandTypes, ChainEvent, Stages
  <2>3. n # Len(Chain)
    <3>1. n \in 1..5 /\ Chain[n] = k.chain.stage
      BY <1>5, NextStage
    <3>2. Len(Chain) = 5 /\ Chain[5] = "status"
      BY DEF Chain
    <3>. HIDE DEF n
    <3>. QED  BY <1>5, <3>1, <3>2
  <2>4. Ready(s, Chain[n + 1], b, id)
    <3>1. k.chain.stage \in Stages /\ b.bound /\ Ready(s, k.chain.stage, b, k.chain.cause)
      BY <1>5
    <3>. HIDE DEF b
    <3>. QED  BY <2>2, <2>3, <3>1, NextReady
  <2>5. b.bound
    BY <1>5
  <2>. HIDE DEF n, b
  <2>6. a.stage = Chain[n + 1] /\ a.binding = b /\ a.cause = id
    BY DEF At
  <2>. HIDE DEF a
  <2>7. [k EXCEPT !.at = "stage", !.chain = a] # [k EXCEPT !.at = "stage"] \/ k.chain = a
    BY <1>0 DEF MountedFields
  <2>. QED  BY <1>1, <2>1, <2>4, <2>5, <2>6, <2>7
<1>. QED  BY <1>2, <1>3, <1>4, <1>5 DEF MountedStages

LEMMA StagingHands ==
    ASSUME Formed, ChainsHeld, NEW c \in Caller,
           ReadMountedStage(c) \/ ReadFence(c) \/ AppendStage(c) \/ RecoverMounted(c)
    PROVE  HandStep(c)
<1> DEFINE k == call[c]
           event == EventOf(k)
           exact == Exact(log, event)
           id == CHOOSE i \in exact : TRUE
<1>0. k.op = "mounted" /\ k.at \in {"stage", "fence", "append", "recover"}
  BY DEF ReadMountedStage, ReadFence, AppendStage, RecoverMounted, Is
<1>1. MountedGoes(k) /\ (k.at # "recover" => k.chain.stage \in MountedStages)
  BY <1>0, MountedIs DEF MountedGoes
<1>2. MountedHands(log, k) /\ DOMAIN k = MountedFields
  BY <1>0, <1>1 DEF ChainsHeld, HandsOver, MountedGoes
<1>3. IsLedger(log) /\ ChainsAreWhole(log)
  BY DEF Formed, ChainsHeld
<1>4. k.chain.stage \in Stages =>
        k.chain.binding.bound /\ Ready(log, k.chain.stage, k.chain.binding, k.chain.cause)
  BY <1>2 DEF MountedHands
\* Past an exact copy of the stage's event.
<1>5. ASSUME NEW cursor, exact # {}, k.at # "recover"
      PROVE  HandsOver(log, Beyond(k, id)) /\ HandsOver(log, [Beyond(k, id) EXCEPT !.cursor = cursor])
  <2>1. id \in DOMAIN log /\ log[id] = event
    BY <1>5 DEF Exact
  <2>2. k.chain.stage \in HandTypes => log[id] = ChainEvent(log, k)
    BY <2>1, StagedIs
  <2>. HIDE DEF k, event, exact, id
  <2>. QED  BY <1>1, <1>3, <1>4, <1>5, <2>1, <2>2, BeyondHands
<1>6. CASE ReadMountedStage(c)
  <2> DEFINE cursor == Now(c)
             fenced == [k EXCEPT !.at = "fence", !.expected = StreamLength(log, event.stream)]
             m == [fenced EXCEPT !.cursor = cursor]
             n == [Beyond(k, id) EXCEPT !.cursor = cursor]
  <2>1. k.at = "stage" /\ log' = log
    BY <1>6 DEF ReadMountedStage, Is
  <2>2. \/ Returns(c)
        \/ exact # {} /\ call' = [call EXCEPT ![c] = n]
        \/ exact = {} /\ ConflictsWith(k, event) = {} /\ call' = [call EXCEPT ![c] = m]
    BY <1>6 DEF ReadMountedStage
  <2>3. exact # {} => HandsOver(log, n)
    BY <1>5, <2>1
  <2>4. ASSUME exact = {}, ConflictsWith(k, event) = {}
        PROVE  HandsOver(log, m)
    <3>1. /\ m.op = "mounted" /\ m.at = "fence" /\ m.chain = k.chain /\ m.text = k.text
          /\ m.expected = StreamLength(log, event.stream)
      BY <1>0, <1>2 DEF MountedFields
    <3>. HIDE DEF m
    <3>2. ChainEvent(log, m) = ChainEvent(log, k) /\ (ChainFits(log, m) <=> ChainFits(log, k))
      BY <3>1 DEF ChainEvent, ChainFits
    <3>3. ASSUME k.chain.stage \in HandTypes
          PROVE  Awaits(log, ChainEvent(log, m).stream, m.expected, ChainFits(log, m))
      <4>1. event = ChainEvent(log, k) /\ ChainFits(log, k)
        BY <2>4, <3>3, StagedIs
      <4>2. StreamLength(log, event.stream) \in Nat
        BY CountsAreNumbers
      <4>. HIDE DEF event
      <4>. QED  BY <3>1, <3>2, <4>1, <4>2 DEF Awaits
    <3>4. MountedHands(log, m)
      BY <1>4, <3>1, <3>3 DEF MountedHands
    <3>. QED  BY <3>1, <3>4 DEF HandsOver
  <2>. HIDE DEF m, n, exact, event
  <2>. QED  BY <2>1, <2>2, <2>3, <2>4, IdleHands, QuietHands DEF Returns
<1>7. CASE ReadFence(c)
  <2> DEFINE m == [k EXCEPT !.at = "append", !.base = Len(log)]
  <2>1. k.at = "fence" /\ log' = log /\ (Returns(c) \/ call' = [call EXCEPT ![c] = m])
    BY <1>7 DEF ReadFence, Is, ProceedsKnowing
  <2>2. /\ m.op = "mounted" /\ m.at = "append" /\ m.chain = k.chain /\ m.text = k.text
        /\ m.expected = k.expected
    BY <1>0, <1>2 DEF MountedFields
  <2>. HIDE DEF m
  <2>3. HandsOver(log, m)
    <3>1. ChainEvent(log, m) = ChainEvent(log, k) /\ (ChainFits(log, m) <=> ChainFits(log, k))
      BY <2>2 DEF ChainEvent, ChainFits
    <3>2. k.chain.stage \in HandTypes =>
            Awaits(log, ChainEvent(log, k).stream, k.expected, ChainFits(log, k))
      BY <1>2, <2>1 DEF MountedHands
    <3>3. k.chain.stage \in HandTypes =>
            Awaits(log, ChainEvent(log, m).stream, m.expected, ChainFits(log, m))
      BY <2>2, <3>1, <3>2 DEF Awaits
    <3>4. MountedHands(log, m)
      BY <1>4, <2>2, <3>3 DEF MountedHands
    <3>. QED  BY <2>2, <3>4 DEF HandsOver
  <2>. QED  BY <2>1, <2>3, IdleHands, QuietHands DEF Returns
<1>8. CASE AppendStage(c)
  <2>1. k.at = "append"
    BY <1>8 DEF AppendStage, Is
  <2>2. \/ /\ log' = Append(log, event) /\ call' = [call EXCEPT ![c] = Beyond(k, Len(log) + 1)]
           /\ k.expected = StreamLength(log, event.stream)
        \/ exact # {} /\ log' = log /\ call' = [call EXCEPT ![c] = Beyond(k, id)]
        \/ log' = log /\ Returns(c)
    BY <1>8 DEF AppendStage
  <2>3. exact # {} => HandsOver(log, Beyond(k, id))
    BY <1>5, <2>1
  <2>4. ASSUME log' = Append(log, event), k.expected = StreamLength(log, event.stream)
        PROVE  /\ event.type \in HandTypes => Joins(log, event)
               /\ HandsOver(log', Beyond(k, Len(log) + 1))
    <3>1. Extends(log, log') /\ log'[Len(log) + 1] = event /\ Len(log') = Len(log) + 1
      BY <2>4, AppendExtends DEF Formed
    <3>2. IsLedger(log') /\ Len(log) + 1 \in DOMAIN log'
      BY <3>1 DEF Extends
    <3>3. k.chain.stage \in Stages => 
            /\ k.chain.binding.bound /\ Ready(log', k.chain.stage, k.chain.binding, k.chain.cause)
            /\ EventAt(log', k.chain.stage, k.chain.binding, k.chain.cause)
                = EventAt(log, k.chain.stage, k.chain.binding, k.chain.cause)
      BY <1>3, <1>4, <3>1, ReadyStays
    <3>4. k.chain.stage \in HandTypes => event = ChainEvent(log, k) /\ ChainEvent(log', k) = event
      <4>1. k.chain.stage \in HandTypes => event = ChainEvent(log, k)
        BY StagedIs
      <4>2. k.chain.stage \in HandTypes => ChainEvent(log', k) = ChainEvent(log, k)
        BY <3>3 DEF ChainEvent, HandTypes
      <4>. HIDE DEF event
      <4>. QED  BY <4>1, <4>2
    <3>5. HandsOver(log', Beyond(k, Len(log) + 1))
      <4>. HIDE DEF k, event
      <4>. QED  BY <1>1, <2>1, <3>1, <3>2, <3>3, <3>4, BeyondHands
    <3>6. ASSUME event.type \in HandTypes
          PROVE  Joins(log, event)
      <4>1. k.chain.stage \in HandTypes
        <5>1. k.chain.stage \in HandTypes \/ k.chain.stage = "answered"
          BY <1>1, <2>1 DEF MountedStages, HandTypes
        <5>2. k.chain.stage = "answered" => event = Answered
          BY DEF EventOf
        <5>. QED  BY <3>6, <5>1, <5>2, MountedEventsAre, MountedTypesApart
      <4>2. ChainFits(log, k)
        BY <1>2, <2>1, <2>4, <3>4, <4>1 DEF MountedHands, Awaits
      <4>3. CASE k.chain.stage = "final"
        <5>1. event = FinalOutput(k.text, 0) /\ OfType(log, "final") = {}
          BY <3>4, <4>1, <4>2, <4>3 DEF ChainEvent, ChainFits
        <5>2. FinalFits(log, event)
          BY <5>1 DEF FinalFits, FinalOutput
        <5>. QED  BY <5>2 DEF Joins
      <4>4. CASE k.chain.stage \in Stages
        <5>1. k.chain.stage # "final"
          BY <4>4 DEF Stages
        <5>2. Unrivaled(log, k.chain.binding, event)
              /\ event = EventAt(log, k.chain.stage, k.chain.binding, k.chain.cause)
          BY <3>4, <4>1, <4>2, <5>1 DEF ChainEvent, ChainFits
        <5>. HIDE DEF event
        <5>. QED  BY <1>4, <4>4, <5>2 DEF Joins
      <4>. QED  BY <4>1, <4>3, <4>4 DEF HandTypes
    <3>. QED  BY <3>5, <3>6
  <2>. HIDE DEF event, exact, id
  <2>. QED  BY <2>2, <2>3, <2>4, IdleHands, QuietHands, AppendingHands DEF Returns
<1>9. CASE RecoverMounted(c)
  <2> DEFINE m == [k EXCEPT !.at = "stage", !.chain = Suffix(log)]
  <2>1. log' = log /\ (Returns(c) \/ (Recoverable(log) /\ call' = [call EXCEPT ![c] = m]))
    BY <1>9 DEF RecoverMounted
  <2>2. m.op = "mounted" /\ m.at = "stage" /\ m.chain = Suffix(log)
    BY <1>0, <1>2 DEF MountedFields
  <2>. HIDE DEF m
  <2>3. Recoverable(log) => HandsOver(log, m)
    BY <1>3, <2>2, SuffixIsReady DEF HandsOver, MountedHands
  <2>. QED  BY <2>1, <2>3, IdleHands, QuietHands DEF Returns
<1>. QED  BY <1>6, <1>7, <1>8, <1>9

LEMMA MountedStepHands ==
    ASSUME Formed, ChainsHeld, NEW c \in Caller, MountedNext(c)
    PROVE  HandStep(c)
<1>1. CASE \/ \E run \in Run : RequestRun(c, run)
           \/ AppendAdmission(c) \/ TakeUp(c) \/ FindStale(c) \/ DiagnoseStale(c)
           \/ Examine(c) \/ BindHandoff(c)
  BY <1>1, AdmissionUnstages, UnstagedHands
<1>2. CASE \/ StartRun(c) \/ AppendStarted(c) \/ EnterTask(c) \/ AppendRunning(c)
           \/ EnterGate(c) \/ LeaveGate(c) \/ FailStore(c)
           \/ AskCancel(c) \/ CancelMounted(c)
  BY <1>2, StartUnstages, UnstagedHands
<1>3. CASE \/ InvokeModel(c) \/ AppendInvoked(c) \/ AppendAnswered(c) \/ ReturnAnswer(c)
           \/ ConsumeHandoff(c) \/ ReadMemory(c) \/ AppendMemory(c)
           \/ AskTransfer(c) \/ SuspendTask(c)
           \/ ChangePolicy(c) \/ AppendElsewhere(c)
  BY <1>3, InvocationUnstages, UnstagedHands
<1>4. CASE ReadMountedStage(c) \/ ReadFence(c) \/ AppendStage(c) \/ RecoverMounted(c)
  BY <1>4, StagingHands
<1>. QED  BY <1>1, <1>2, <1>3, <1>4 DEF MountedNext

----------------------------------------------------------------------------
(* Handoffs: the steps of everybody else, and the theorem.                 *)

ChainOps == {"reach", "extend", "mounted"}

LEMMA LoopHands ==
    ASSUME Formed, NEW c \in Caller, LoopNext(c)
    PROVE  HandStep(c)
<1>1. LoopTypes \intersect HandTypes = {}
  BY DEF LoopTypes, LoopRecord, ToolRecord, HandTypes, Stages
<1>2. PICK k : /\ call' = [call EXCEPT ![c] = k]
               /\ k = Idle \/ LoopGoes(k) \/ (SendCall(k) /\ LoopIssues(k.event))
  BY LoopStepIs DEF LoopSteps
<1>3. \A s : HandsOver(s, k)
  <2>1. CASE k = Idle
    BY <2>1, IdleHands
  <2>2. CASE LoopGoes(k)
    BY <2>2 DEF LoopGoes, HandsOver
  <2>3. CASE SendCall(k) /\ LoopIssues(k.event)
    BY <1>1, <2>3 DEF SendCall, LoopIssues, HandsOver
  <2>. QED  BY <1>2, <2>1, <2>2, <2>3
<1>4. CASE log' = log
  BY <1>2, <1>3, <1>4, QuietHands
<1>5. ASSUME NEW e, LoopIssues(e), log' = Append(log, e)
      PROVE  HandStep(c)
  BY <1>1, <1>2, <1>3, <1>5, AppendingHands DEF LoopIssues
<1>. QED  BY <1>4, <1>5, LoopStepIs DEF LoopSteps

LEMMA SendHands ==
    ASSUME Formed, ChainsHeld, NEW c \in Caller, Send(c)
    PROVE  HandStep(c)
<1> DEFINE k == call[c]
           e == k.event
<1>1. call' = [call EXCEPT ![c] = Idle] /\ k.op = "send"
      /\ log' = IF Holds(c) THEN Append(log, e) ELSE log
  BY DEF Send
<1>2. HandsOver(log, k)
  BY DEF ChainsHeld
<1>3. CASE ~Holds(c)
  BY <1>1, <1>3, IdleHands, QuietHands
<1>4. CASE Holds(c)
  <2>1. ASSUME e.type \in HandTypes
        PROVE  Joins(log, e)
    <3>1. k.expected # 0 /\ Awaits(log, e.stream, k.expected - 1, FinalFits(log, e))
      BY <1>1, <1>2, <2>1 DEF HandsOver
    <3>2. k.expected = StreamLength(log, e.stream) + 1
      BY <1>4, <3>1 DEF Holds
    <3>3. StreamLength(log, e.stream) \in Nat
      BY CountsAreNumbers
    <3>4. k.expected - 1 = StreamLength(log, e.stream)
      BY <3>2, <3>3
    <3>. QED  BY <3>1, <3>4 DEF Awaits, Joins
  <2>2. log' = Append(log, e)
    BY <1>1, <1>4
  <2>. HIDE DEF k, e
  <2>. QED  BY <1>1, <2>1, <2>2, IdleHands, AppendingHands
<1>. QED  BY <1>3, <1>4

LEMMA StepHands ==
    ASSUME Formed, ChainsHeld, NEW c \in Caller, CallSteps(c)
    PROVE  HandStep(c)
<1>1. /\ Spares(HandTypes, ChainOps, LetterTypes, LetterOps)
      /\ Spares(HandTypes, ChainOps, MemoryTypes, MemoryOps)
      /\ Spares(HandTypes, ChainOps, TriggerTypes, TriggerOps)
      /\ Spares(HandTypes, ChainOps, KnowledgeTypes, {"decide"})
      /\ Spares(HandTypes, ChainOps, {}, Rebuilding)
  BY DEF Spares, HandTypes, Stages, ChainOps, LetterTypes, LetterOps, MemoryTypes, MemoryOps,
         TriggerTypes, TriggerOps, KnowledgeTypes, Rebuilding
<1>2. ASSUME Beside(c, HandTypes, ChainOps)
      PROVE  HandStep(c)
  BY <1>2, BesideHands DEF ChainOps
<1>3. CASE CorrespondenceNext(c)
  BY <1>1, <1>2, <1>3, LetterStepIs
<1>4. CASE MemoryNext(c)
  BY <1>1, <1>2, <1>4, MemoryStepIs
<1>5. CASE TriggerNext(c)
  BY <1>1, <1>2, <1>5, TriggerStepIs
<1>6. CASE KnowledgeNext(c)
  BY <1>1, <1>2, <1>6, KnowledgeStepIs
<1>7. CASE RebuildNext(c)
  BY <1>1, <1>2, <1>7, RebuildStepIs
<1>8. CASE HandoffNext(c)
  BY <1>8, HandoffHands
<1>9. CASE MountedNext(c)
  BY <1>9, MountedStepHands
<1>10. CASE LoopNext(c)
  BY <1>10, LoopHands
<1>11. CASE SendLetter(c)
  BY <1>11, SendHands DEF SendLetter
<1>12. CASE DieWithLetter(c)
  <2>1. Die(c)
    BY <1>12 DEF DieWithLetter
  <2>. QED  BY <2>1, DieIs, IdleHands, QuietHands
<1>. QED  BY <1>3, <1>4, <1>5, <1>6, <1>7, <1>8, <1>9, <1>10, <1>11, <1>12 DEF CallSteps

LEMMA AlwaysChained == Spec => []ChainsHeld
<1>1. Init => ChainsHeld
  <2>1. SUFFICES ASSUME Init PROVE ChainsHeld
    OBVIOUS
  <2>2. StartLedger(log) /\ call = [c \in Caller |-> Idle]
    BY <2>1, StartsFormed
  <2>3. \A c \in Caller : HandsOver(log, call[c])
    BY <2>2, IdleHands
  <2>. QED  BY <2>2, <2>3 DEF StartLedger, ChainsHeld
<1>2. Formed /\ ChainsHeld /\ [Next]_vars => ChainsHeld'
  <2>1. ASSUME Formed, ChainsHeld, NEW c \in Caller, CallSteps(c)
        PROVE  ChainsHeld'
    <3>1. Extends(log, log') /\ call' = [call EXCEPT ![c] = call'[c]]
      BY <2>1, StepForms DEF Beside
    <3>. QED  BY <2>1, <3>1, StepHands, HandsKept
  <2>2. ASSUME ChainsHeld, UNCHANGED vars
        PROVE  ChainsHeld'
    BY <2>2 DEF vars, recordVars, ChainsHeld
  <2>. QED  BY <2>1, <2>2 DEF Next
<1>. QED  BY <1>1, <1>2, AlwaysFormed, PTL DEF Spec

\* However many recorders of either family race, with mounted tasks, loops, people
\* and deaths among them: a run has one handoff that stands, prepared from an
\* output that was there; a task is concluded once, at the end of a whole chain;
\* and what the projection finds inconsistent has one of its two causes
\* (recordSpecialistHandoff, recordAuthorityBoundSpecialistHandoff,
\* appendSpecialistFinalOutputStep, buildSpecialistHandoffProjection).
THEOREM HandoffStaysSound == Spec => []HandoffIsSound
<1>1. Formed /\ ChainsHeld => HandoffIsSound
  BY WholeChainsAreSound DEF Formed, ChainsHeld
<1>. QED  BY <1>1, AlwaysFormed, AlwaysChained, PTL

----------------------------------------------------------------------------
(* The loop: what nobody else does.                                        *)

\* A step of c that has nothing to do with events of types T and calls of
\* operations O.
Apart(c, T, O) ==
    /\ call[c].op \notin O \union {"send"}
    /\ \E k : /\ call' = [call EXCEPT ![c] = k]
              /\ k.op \notin O /\ (k.op = "send" => k.event.type \notin T)
    /\ log' = log \/ \E e : e.type \notin T /\ log' = Append(log, e)

LEMMA ApartIs ==
    ASSUME Formed, NEW c \in Caller, NEW T, NEW O, Apart(c, T, O)
    PROVE  Beside(c, T, O)
<1>1. PICK k : /\ call' = [call EXCEPT ![c] = k]
               /\ k.op \notin O /\ (k.op = "send" => k.event.type \notin T)
  BY DEF Apart
<1>2. call'[c] = k
  BY <1>1 DEF Formed
<1>3. Extends(log, log') /\ \A i \in Since(log, log') : log'[i].type \notin T
  <2>1. CASE log' = log
    BY <2>1, ExtendsItself DEF Formed
  <2>2. ASSUME NEW e, e.type \notin T, log' = Append(log, e)
        PROVE  Extends(log, log') /\ \A i \in Since(log, log') : log'[i].type \notin T
    BY <2>2, AppendExtends DEF Formed
  <2>. QED  BY <2>1, <2>2 DEF Apart
<1>. QED  BY <1>1, <1>2, <1>3 DEF Apart, Beside

LEMMA ChainGoesApart ==
    ASSUME NEW k, NEW id
    PROVE  Passed(k, id).op \in {"idle", "reach"} /\ Decision(k).op \in {"idle", "reach", "extend"}
<1>1. \A i : Passed(k, i).op \in {"idle", "reach"}
  BY DEF Passed, At, Idle
<1>2. Appending(k, StageEvent(k.stage, k.binding, k.cause)).op = "extend"
  BY DEF Appending
<1>3. Idle.op = "idle"
  BY DEF Idle
<1>. QED  BY <1>1, <1>2, <1>3 DEF Decision

LEMMA HandoffApart ==
    ASSUME Formed, ChainsHeld, NEW c \in Caller, HandoffNext(c),
           NEW T, T \intersect (HandTypes \union {"step"}) = {},
           NEW O, O \intersect {"idle", "send", "reach", "extend"} = {}
    PROVE  Beside(c, T, O)
<1>. SUFFICES Apart(c, T, O)
  BY ApartIs
<1>0. Idle.op = "idle" /\ "idle" \notin O /\ "send" \notin O
  BY DEF Idle
<1>a. ASSUME NEW k, call' = [call EXCEPT ![c] = k], k.op \in {"idle", "reach", "extend"},
             call[c].op \in {"idle", "reach", "extend"},
             log' = log \/ \E e : e.type \in HandTypes \union {"step"} /\ log' = Append(log, e)
      PROVE  Apart(c, T, O)
  BY <1>0, <1>a DEF Apart
<1>b. ASSUME NEW op, NEW e, Interfere(c, op, e), e.type \in HandTypes \union {"step"}
      PROVE  Apart(c, T, O)
  <2>1. call' = [call EXCEPT ![c] = Idle] /\ log' = Append(log, e) /\ call[c].op = "idle"
    BY <1>b, MakesIsIdle DEF Interfere, Formed
  <2>. QED  BY <1>0, <1>a, <1>b, <2>1
<1>1. ASSUME NEW text, NEW supersedes, AppendFinalOutput(c, text, supersedes)
      PROVE  Apart(c, T, O)
  <2> DEFINE e == FinalOutput(text, supersedes)
  <2>1. call' = [call EXCEPT ![c] = ExpectsSequence(e)] /\ log' = log /\ call[c].op = "idle"
    BY <1>1, MakesIsIdle DEF AppendFinalOutput
  <2>2. e.type = "final"
    BY DEF FinalOutput
  <2>. HIDE DEF e
  <2>3. ExpectsSequence(e).op = "send" /\ ExpectsSequence(e).event.type \notin T
    BY <2>2 DEF ExpectsSequence, Sending, HandTypes
  <2>. QED  BY <1>0, <2>1, <2>3 DEF Apart
<1>2. ASSUME NEW bound, RecordHandoff(c, bound)
      PROVE  Apart(c, T, O)
  <2>1. PICK k : call' = [call EXCEPT ![c] = Decision(k)]
    BY <1>2 DEF RecordHandoff
  <2>2. log' = log /\ call[c].op = "idle"
    BY <1>2, MakesIsIdle DEF RecordHandoff
  <2>. QED  BY <1>a, <2>1, <2>2, ChainGoesApart
<1>3. CASE FinalizeRun(c)
  <2>1. PICK b, i : call' = [call EXCEPT ![c] = At("terminal", b, i)]
    BY <1>3 DEF FinalizeRun
  <2>2. log' = log /\ call[c].op = "idle"
    BY <1>3, MakesIsIdle DEF FinalizeRun
  <2>3. At("terminal", b, i).op = "reach"
    BY DEF At
  <2>. QED  BY <1>a, <2>1, <2>2, <2>3
<1>4. CASE RecoverSuffix(c)
  <2>1. log' = log /\ call[c].op = "idle" /\ call' = [call EXCEPT ![c] = Suffix(log)]
    BY <1>4, MakesIsIdle DEF RecoverSuffix
  <2>2. Suffix(log).op = "reach"
    BY DEF Suffix, At
  <2>. QED  BY <1>a, <2>1, <2>2
<1>5. CASE ReachStage(c)
  <2>1. call[c].op = "reach" /\ log' = log
        /\ (call' = [call EXCEPT ![c] = Idle] \/ call' = [call EXCEPT ![c] = Decision(call[c])])
    BY <1>5 DEF ReachStage
  <2>. QED  BY <1>0, <1>a, <2>1, ChainGoesApart
<1>6. CASE ExtendChain(c)
  <2> DEFINE k == call[c]
             id == CHOOSE i \in Exact(log, k.event) : TRUE
  <2>1. k.op = "extend"
    BY <1>6 DEF ExtendChain
  <2>2. k.event.type \in HandTypes
    <3>1. k.stage \in Stages
      BY <2>1, ByOperation DEF Formed, RunOps, RunCall, MountedCall
    <3>2. k.event = EventAt(log, k.stage, k.binding, k.cause)
      BY <2>1 DEF ChainsHeld, HandsOver
    <3>. QED  BY <3>1, <3>2, EventAtIs DEF HandTypes
  <2>3. \/ log' = Append(log, k.event) /\ call' = [call EXCEPT ![c] = Passed(k, Len(log) + 1)]
        \/ log' = log /\ call' = [call EXCEPT ![c] = Passed(k, id)]
        \/ log' = log /\ call' = [call EXCEPT ![c] = Idle]
    BY <1>6 DEF ExtendChain
  <2>4. \A i : Passed(k, i).op \in {"idle", "reach"}
    BY ChainGoesApart
  <2>. HIDE DEF id
  <2>5. PICK m : m.op \in {"idle", "reach"} /\ call' = [call EXCEPT ![c] = m]
                 /\ (log' = log \/ log' = Append(log, k.event))
    BY <1>0, <2>3, <2>4
  <2>. QED  BY <1>a, <2>1, <2>2, <2>5
<1>7. CASE AppendStep(c)
  BY <1>7, <1>b DEF AppendStep
<1>8. CASE AppendFailure(c)
  <2>1. [type |-> "terminal", stream |-> RunStream, cause |-> 0, status |-> "failed"].type \in HandTypes
    BY DEF HandTypes, Stages
  <2>. QED  BY <1>8, <1>b, <2>1 DEF AppendFailure
<1>9. CASE CancelTask(c)
  <2>1. [type |-> "status", stream |-> TaskStream, cause |-> 0, status |-> "canceled"].type \in HandTypes
    BY DEF HandTypes, Stages
  <2>. QED  BY <1>9, <1>b, <2>1 DEF CancelTask
<1>. QED  BY <1>1, <1>2, <1>3, <1>4, <1>5, <1>6, <1>7, <1>8, <1>9 DEF HandoffNext

LEMMA MountedBegins ==
    ASSUME NEW c, MountedNext(c)
    PROVE  call[c].op \in {"idle", "mounted"}
<1>1. CASE \/ \E run \in Run : RequestRun(c, run)
           \/ TakeUp(c) \/ FindStale(c) \/ AskCancel(c) \/ ChangePolicy(c) \/ AppendElsewhere(c)
  BY <1>1, MakesIsIdle DEF RequestRun, TakeUp, FindStale, AskCancel, ChangePolicy, AppendElsewhere,
        Interfere
<1>2. CASE \/ AppendAdmission(c) \/ DiagnoseStale(c) \/ Examine(c) \/ BindHandoff(c)
           \/ StartRun(c) \/ AppendStarted(c) \/ EnterTask(c) \/ AppendRunning(c)
           \/ EnterGate(c) \/ LeaveGate(c) \/ FailStore(c)
  BY <1>2 DEF AppendAdmission, DiagnoseStale, Examine, BindHandoff, StartRun, AppendStarted,
        EnterTask, AppendRunning, EnterGate, LeaveGate, FailStore, Is, Inside
<1>3. CASE \/ CancelMounted(c)
           \/ InvokeModel(c) \/ AppendInvoked(c) \/ AppendAnswered(c) \/ ReturnAnswer(c)
           \/ ReadMountedStage(c) \/ ReadFence(c) \/ AppendStage(c) \/ RecoverMounted(c)
           \/ ConsumeHandoff(c) \/ ReadMemory(c) \/ AppendMemory(c)
           \/ AskTransfer(c) \/ SuspendTask(c)
  BY <1>3 DEF CancelMounted, InvokeModel, AppendInvoked, AppendAnswered, ReturnAnswer,
        ReadMountedStage, ReadFence, AppendStage, RecoverMounted, ConsumeHandoff, ReadMemory,
        AppendMemory, AskTransfer, SuspendTask, Is, Inside
<1>. QED  BY <1>1, <1>2, <1>3 DEF MountedNext

LEMMA UnstagedApart ==
    ASSUME NEW c \in Caller, Unstages(c), NothingJoins, call[c].op \in {"idle", "mounted"}
    PROVE  Apart(c, LoopTypes, {"loop"})
<1>1. PICK n : call' = [call EXCEPT ![c] = n] /\ Unstaged(call[c], n)
  BY DEF Unstages
<1>2. n.op # "loop" /\ (n.op = "send" => n.event.type \notin LoopTypes)
  BY <1>1, MountedTypesApart DEF Unstaged, Idle
<1>3. log' = log \/ \E e : e.type \notin LoopTypes /\ log' = Append(log, e)
  <2>1. \A e : OfNoHandoff(e) => e.type \notin LoopTypes
    BY DEF OfNoHandoff, LoopTypes, LoopRecord, ToolRecord
  <2>. QED  BY <2>1, MountedTypesApart DEF NothingJoins
<1>. QED  BY <1>1, <1>2, <1>3 DEF Apart

LEMMA StagingApart ==
    ASSUME Formed, NEW c \in Caller,
           ReadMountedStage(c) \/ ReadFence(c) \/ AppendStage(c) \/ RecoverMounted(c)
    PROVE  Apart(c, LoopTypes, {"loop"})
<1> DEFINE k == call[c]
           event == EventOf(k)
<1>0. k.op = "mounted" /\ k.at \in {"stage", "fence", "append", "recover"}
  BY DEF ReadMountedStage, ReadFence, AppendStage, RecoverMounted, Is
<1>1. MountedGoes(k) /\ (k.at # "recover" => k.chain.stage \in MountedStages)
  BY <1>0, MountedIs DEF MountedGoes
<1>2. DOMAIN k = MountedFields
  BY <1>1 DEF MountedGoes
<1>3. \A id, cursor : k.at # "recover" =>
        /\ Beyond(k, id).op = "mounted" /\ [Beyond(k, id) EXCEPT !.cursor = cursor].op = "mounted"
  <2>1. SUFFICES ASSUME NEW id, NEW cursor, k.at # "recover"
                 PROVE  Beyond(k, id).op = "mounted" /\ [Beyond(k, id) EXCEPT !.cursor = cursor].op = "mounted"
    OBVIOUS
  <2>2. MountedGoes(Beyond(k, id)) /\ MountedGoes([Beyond(k, id) EXCEPT !.cursor = cursor])
    <3>1. k.at \notin Gated
      BY <1>0 DEF Gated
    <3>. HIDE DEF k
    <3>. QED  BY <1>1, <2>1, <3>1, BeyondGoes
  <2>. QED  BY <2>2 DEF MountedGoes
<1>4. k.at # "recover" => event.type \notin LoopTypes
  <2>1. CASE k.chain.stage = "answered"
    <3>1. event = Answered
      BY <2>1 DEF EventOf
    <3>. QED  BY <3>1, MountedEventsAre, MountedTypesApart
  <2>2. CASE k.chain.stage \in HandTypes
    <3>1. event = ChainEvent(log, k)
      BY <2>2, StagedIs
    <3>2. ChainEvent(log, k).type = k.chain.stage
      BY <2>2, EventAtIs DEF ChainEvent, FinalOutput, HandTypes
    <3>3. HandTypes \intersect LoopTypes = {}
      BY DEF HandTypes, Stages, LoopTypes, LoopRecord, ToolRecord
    <3>. QED  BY <2>2, <3>1, <3>2, <3>3
  <2>. QED  BY <1>1, <2>1, <2>2 DEF MountedStages, HandTypes
<1>5. ASSUME NEW n, call' = [call EXCEPT ![c] = n], n.op \in {"idle", "mounted"},
             log' = log \/ (k.at # "recover" /\ log' = Append(log, event))
      PROVE  Apart(c, LoopTypes, {"loop"})
  <2>. HIDE DEF event
  <2>. QED  BY <1>0, <1>4, <1>5 DEF Apart
<1>6. Idle.op = "idle"
  BY DEF Idle
<1>7. CASE ReadMountedStage(c)
  <2> DEFINE id == CHOOSE i \in Exact(log, event) : TRUE
             m == [k EXCEPT !.at = "fence", !.expected = StreamLength(log, event.stream),
                            !.cursor = Now(c)]
             n == [Beyond(k, id) EXCEPT !.cursor = Now(c)]
  <2>1. k.at = "stage" /\ log' = log
    BY <1>7 DEF ReadMountedStage, Is
  <2>2. Returns(c) \/ call' = [call EXCEPT ![c] = n] \/ call' = [call EXCEPT ![c] = m]
    BY <1>7 DEF ReadMountedStage
  <2>3. n.op = "mounted" /\ m.op = "mounted"
    BY <1>0, <1>2, <1>3, <2>1 DEF MountedFields
  <2>. HIDE DEF m, n
  <2>. QED  BY <1>5, <1>6, <2>1, <2>2, <2>3 DEF Returns
<1>8. CASE ReadFence(c)
  <2> DEFINE m == [k EXCEPT !.at = "append", !.base = Len(log)]
  <2>1. log' = log /\ (Returns(c) \/ call' = [call EXCEPT ![c] = m])
    BY <1>8 DEF ReadFence, ProceedsKnowing
  <2>2. m.op = "mounted"
    BY <1>0, <1>2 DEF MountedFields
  <2>. HIDE DEF m
  <2>. QED  BY <1>5, <1>6, <2>1, <2>2 DEF Returns
<1>9. CASE AppendStage(c)
  <2> DEFINE id == CHOOSE i \in Exact(log, event) : TRUE
  <2>1. k.at = "append"
    BY <1>9 DEF AppendStage, Is
  <2>2. \/ log' = Append(log, event) /\ call' = [call EXCEPT ![c] = Beyond(k, Len(log) + 1)]
        \/ log' = log /\ call' = [call EXCEPT ![c] = Beyond(k, id)]
        \/ log' = log /\ Returns(c)
    BY <1>9 DEF AppendStage
  <2>. HIDE DEF event, id
  <2>. QED  BY <1>3, <1>5, <1>6, <2>1, <2>2 DEF Returns
<1>10. CASE RecoverMounted(c)
  <2> DEFINE m == [k EXCEPT !.at = "stage", !.chain = Suffix(log)]
  <2>1. log' = log /\ (Returns(c) \/ call' = [call EXCEPT ![c] = m])
    BY <1>10 DEF RecoverMounted
  <2>2. m.op = "mounted"
    BY <1>0, <1>2 DEF MountedFields
  <2>. HIDE DEF m
  <2>. QED  BY <1>5, <1>6, <2>1, <2>2 DEF Returns
<1>. QED  BY <1>7, <1>8, <1>9, <1>10

LEMMA MountedApart ==
    ASSUME Formed, NEW c \in Caller, MountedNext(c)
    PROVE  Beside(c, LoopTypes, {"loop"})
<1>. SUFFICES Apart(c, LoopTypes, {"loop"})
  BY ApartIs
<1>0. call[c].op \in {"idle", "mounted"}
  BY MountedBegins
<1>1. CASE \/ \E run \in Run : RequestRun(c, run)
           \/ AppendAdmission(c) \/ TakeUp(c) \/ FindStale(c) \/ DiagnoseStale(c)
           \/ Examine(c) \/ BindHandoff(c)
  BY <1>0, <1>1, AdmissionUnstages, UnstagedApart
<1>2. CASE \/ StartRun(c) \/ AppendStarted(c) \/ EnterTask(c) \/ AppendRunning(c)
           \/ EnterGate(c) \/ LeaveGate(c) \/ FailStore(c)
           \/ AskCancel(c) \/ CancelMounted(c)
  BY <1>0, <1>2, StartUnstages, UnstagedApart
<1>3. CASE \/ InvokeModel(c) \/ AppendInvoked(c) \/ AppendAnswered(c) \/ ReturnAnswer(c)
           \/ ConsumeHandoff(c) \/ ReadMemory(c) \/ AppendMemory(c)
           \/ AskTransfer(c) \/ SuspendTask(c)
           \/ ChangePolicy(c) \/ AppendElsewhere(c)
  BY <1>0, <1>3, InvocationUnstages, UnstagedApart
<1>4. CASE ReadMountedStage(c) \/ ReadFence(c) \/ AppendStage(c) \/ RecoverMounted(c)
  BY <1>4, StagingApart
<1>. QED  BY <1>1, <1>2, <1>3, <1>4 DEF MountedNext

----------------------------------------------------------------------------
(* The loop: what its ledger is like, and what a caller relies on.         *)

ToolVerdict == {"tool-approved", "tool-denied"}

ToolsOf(s) == {i \in DOMAIN s : s[i].type \in ToolRecord}

EffectsOf(s) == OfType(s, "asserted") \union OfType(s, "effect")

ReclaimsOf(s) == {i \in OfType(s, "claimed") : s[i].cause # 0}

\* Types of what is found in a loop's course.
Permitted == LoopRecord \union ToolRecord \union {"asserted"}

\* One request comes first; a verdict follows it alone, and a claim nothing but
\* the request and approvals, of which there is one if a person is asked; an
\* outcome is observed once, after the claim, and completed once, after that.
ToolIsOrdered(s) ==
    /\ \A i \in ToolsOf(s) : s[i].stream = ToolStream
    /\ \A i \in ToolsOf(s) : OfType(s, "tool-requested") # {}
    /\ \A r \in OfType(s, "tool-requested"), i \in ToolsOf(s) : r <= i
    /\ \A i, j \in ToolsOf(s) : s[i].type \in ToolVerdict /\ j < i =>
        s[j].type = "tool-requested" /\ s[j].kind = "human"
    /\ \A i \in OfType(s, "tool-claimed"), j \in ToolsOf(s) : j < i =>
        /\ s[j].type \in {"tool-requested", "tool-approved"}
        /\ s[j].type = "tool-requested" /\ s[j].kind = "human" =>
            \E a \in OfType(s, "tool-approved") : a < i
    /\ \A i \in OfType(s, "tool-claimed") : \E r \in OfType(s, "tool-requested") : r < i
    /\ \A i \in OfType(s, "tool-observed") :
        /\ \E j \in OfType(s, "tool-claimed") : j < i
        /\ \A j \in OfType(s, "tool-observed") \union OfType(s, "tool-completed") : i <= j
    /\ \A i \in OfType(s, "tool-completed") :
        /\ \E j \in OfType(s, "tool-observed") : j < i
        /\ \A j \in OfType(s, "tool-completed") : i <= j

EffectsAreClaimed(s) ==
    /\ \A d, e \in EffectsOf(s) : d = e
    /\ \A e \in EffectsOf(s) : \E k \in OfType(s, "tool-claimed") : k < e

PlanIsFirst(s) ==
    /\ \A p, q \in OfType(s, "plan") : p = q
    /\ OfType(s, "plan") = {} =>
        /\ OfType(s, "loop-result") = {} /\ OfType(s, "checkpoint") = {}
        /\ OfType(s, "tool-claimed") = {} /\ EffectsOf(s) = {}

ResultsAreEarned(s) ==
    \A r \in OfType(s, "loop-result") :
        /\ \A q \in OfType(s, "loop-result") : q = r
        /\ OfType(s, "checkpoint") = {}
        /\ \E d \in OfType(s, "tool-completed") : d < r
        /\ \E o \in OfType(s, "orchestrated") : o < r
        /\ \A p \in OfType(s, "plan") : \A i \in p..(r - 1) :
            s[i].type \in Permitted \/ \A j \in i..(r - 1) : s[j].type \notin LoopRecord

\* What a suspension says of its tool.
SaysTrue(s, category) ==
    /\ category = "waiting" => OfType(s, "tool-claimed") = {}
    /\ category = "unknown" =>
        /\ OfType(s, "tool-claimed") # {}
        /\ OfType(s, "tool-observed") = {} /\ EffectsOf(s) = {}

SuspensionsAreWhole(s) ==
    /\ \A i \in 1..4 : \A d, e \in OfType(s, Suspension[i]) : d = e
    /\ \A i \in 2..4 : \A e \in OfType(s, Suspension[i]) :
        s[e].cause \in OfType(s, Suspension[i - 1]) /\ s[e].cause < e
    /\ \A i, j \in ReclaimsOf(s) :
        /\ s[i].cause < i /\ s[i].cause \in OfType(s, "released") /\ i = j
        /\ \A o \in OfType(s, "orchestrated") : i < o
    /\ \A e \in OfType(s, "checkpoint") : SaysTrue(s, s[e].category)

\* The suspended run's outcome is unknown, and nothing else of it is.
IsUnknown(s) ==
    /\ OfType(s, "checkpoint") # {}
    /\ \A e \in OfType(s, "checkpoint") : s[e].category = "unknown"

\* What a recovery is the last of.
Spent == ToolRecord \union LoopRecord \union {"asserted", "effect"}

TakeoversEnd(s) ==
    \A o \in OfType(s, "recovery") :
        /\ \A p \in OfType(s, "recovery") : p = o
        /\ \E i \in ReclaimsOf(s) : i < o
        /\ IsUnknown(s)
        /\ \A i \in (o + 1)..Len(s) : s[i].type \notin Spent

LoopLedger(s) ==
    /\ ToolIsOrdered(s) /\ EffectsAreClaimed(s) /\ PlanIsFirst(s)
    /\ ResultsAreEarned(s) /\ SuspensionsAreWhole(s) /\ TakeoversEnd(s)

\* Places of a loop that planned: before its claim of the tool, and after.
Unclaimeds ==
    {"observe", "request", "requesting", "requested", "decide", "undecided", "execute",
     "claiming"}

Places == Unclaimeds \union
    {"claimed", "invoking", "acted", "observing", "observed", "completing", "executed",
     "failed", "step", "final", "end", "result"}

Running(k) == k.op = "loop" /\ k.at \in Places

InPrefix(k) == k.op = "loop" /\ k.at \in {"prefix", "appending"}

Suspending(k) == InPrefix(k) /\ k.outcome # "resuming"

\* The one loop that planned, from its plan to its end.
Holder(k) == Running(k) \/ Suspending(k)

\* What the loop is about to say of its tool is so.
Told(s, outcome) ==
    /\ outcome \in {"completed", "waiting", "unknown"}
    /\ outcome = "completed" => OfType(s, "tool-completed") # {}
    /\ SaysTrue(s, outcome)

\* From the plan on, up to n, nobody else appended a thing.
Alone(s, n) == \A p \in OfType(s, "plan") : \A i \in p..n : s[i].type \in Permitted

\* The run is open, and the loop's own as far as the loop has seen.
OnItsOwn(s, n) ==
    /\ OfType(s, "plan") # {} /\ OfType(s, "loop-result") = {} /\ OfType(s, "checkpoint") = {}
    /\ n \in 1..Len(s) /\ Alone(s, n)

RunsWell(s, k) ==
    /\ OnItsOwn(s, k.seen)
    /\ k.at \in Unclaimeds => OfType(s, "tool-claimed") = {}
    /\ k.at \in Unclaimeds \union {"claimed", "invoking"} => EffectsOf(s) = {}
    /\ k.at \in {"requested", "decide", "undecided", "execute", "claiming"} =>
        \E r \in OfType(s, "tool-requested") : s[r].kind = k.kind
    /\ k.at \in {"execute", "claiming"} /\ k.kind = "human" => OfType(s, "tool-approved") # {}
    /\ k.at \in {"claimed", "invoking", "acted", "observing"} =>
        OfType(s, "tool-claimed") # {} /\ OfType(s, "tool-observed") = {}
    /\ k.at \in {"observed", "completing"} =>
        OfType(s, "tool-observed") # {} /\ OfType(s, "tool-completed") = {}
    /\ k.at = "executed" => OfType(s, "tool-completed") # {}
    /\ k.at \in {"acted", "observing", "observed", "completing", "failed"} =>
        \A e \in EffectsOf(s) : k.seen < e
    /\ k.at \in {"step", "final", "end"} => Told(s, k.outcome)
    /\ k.at = "result" =>
        /\ OfType(s, "tool-completed") # {} /\ OfType(s, "orchestrated") # {}
        /\ \A j \in (k.seen + 1)..Len(s) : s[j].type \notin LoopRecord

SuspendsWell(s, k) ==
    /\ OfType(s, "plan") # {} /\ OfType(s, "loop-result") = {}
    /\ Told(s, k.outcome) /\ k.outcome # "completed"

\* A person's verdict waits for the request to stand alone in its stream.
DecidesWell(s, k) ==
    /\ k.event.type \in ToolVerdict /\ k.event.stream = ToolStream /\ k.expected = 2
    /\ \E r \in OfType(s, "tool-requested") : s[r].kind = "human"

\* Places of a loop that goes on from a claim of its suspended run, whoever made it.
Taking == {"taking", "taken", "replayed", "recalling", "recover"}

TakesWell(s, k) ==
    /\ k.at \in Taking => ReclaimsOf(s) # {}
    /\ k.at \in Taking \ {"taking", "taken"} =>
        \E e \in OfType(s, "checkpoint") : s[e].category = "unknown"

LoopFits(s, k) ==
    /\ Running(k) => RunsWell(s, k)
    /\ Suspending(k) => SuspendsWell(s, k)
    /\ InPrefix(k) /\ k.outcome = "resuming" => OfType(s, "checkpoint") # {}
    /\ k.op = "loop" /\ k.at = "reclaiming" =>
        /\ k.base \in Nat /\ k.base <= Len(s)
        /\ k.base = Len(s) => ReclaimsOf(s) = {} /\ OfType(s, "orchestrated") = {}
    /\ k.op = "loop" => TakesWell(s, k)
    /\ k.op = "send" /\ k.event.type \in LoopTypes => DecidesWell(s, k)

LoopsHeld ==
    /\ LoopLedger(log)
    /\ \A c \in Caller : LoopFits(log, call[c])
    /\ \A c, d \in Caller : Holder(call[c]) /\ Holder(call[d]) => c = d

----------------------------------------------------------------------------
(* The loop's ledger, when it grows.                                       *)

LEMMA TypesGrow ==
    ASSUME NEW s, NEW t, Extends(s, t), NEW type
    PROVE  /\ OfType(s, type) \subseteq OfType(t, type) /\ OfType(s, type) \subseteq 1..Len(s)
           /\ \A i \in OfType(s, type) : t[i] = s[i]
BY OfTypeExtends

LEMMA ToolOrderStays ==
    ASSUME NEW s, NEW t, Extends(s, t), ToolIsOrdered(s),
           \A i \in Since(s, t) : t[i].type \notin ToolRecord
    PROVE  ToolIsOrdered(t)
<1>1. ToolsOf(t) = ToolsOf(s) /\ \A i \in ToolsOf(s) : t[i] = s[i]
  BY DEF ToolsOf, Extends, Since
<1>2. \A type \in ToolRecord : OfType(t, type) = OfType(s, type)
  BY OtherTypesLast
<1>3. \A type \in ToolRecord : OfType(s, type) \subseteq ToolsOf(s)
  BY DEF OfType, ToolsOf
<1>4. /\ OfType(t, "tool-requested") = OfType(s, "tool-requested")
      /\ OfType(t, "tool-approved") = OfType(s, "tool-approved")
      /\ OfType(t, "tool-claimed") = OfType(s, "tool-claimed")
      /\ OfType(t, "tool-observed") = OfType(s, "tool-observed")
      /\ OfType(t, "tool-completed") = OfType(s, "tool-completed")
  BY <1>2 DEF ToolRecord
<1>. QED  BY <1>1, <1>4 DEF ToolIsOrdered

LEMMA EffectsStay ==
    ASSUME NEW s, NEW t, Extends(s, t), \A i \in Since(s, t) : t[i].type \notin {"asserted", "effect"}
    PROVE  EffectsOf(t) = EffectsOf(s) /\ (EffectsAreClaimed(s) => EffectsAreClaimed(t))
<1>1. EffectsOf(t) = EffectsOf(s)
  BY OtherTypesLast DEF EffectsOf
<1>2. OfType(s, "tool-claimed") \subseteq OfType(t, "tool-claimed")
  BY TypesGrow
<1>. QED  BY <1>1, <1>2 DEF EffectsAreClaimed

PlannedTypes == {"loop-result", "checkpoint", "tool-claimed", "asserted", "effect"}

LEMMA PlanStays ==
    ASSUME NEW s, NEW t, Extends(s, t), PlanIsFirst(s), \A i \in Since(s, t) : t[i].type # "plan",
           OfType(s, "plan") # {} \/ \A i \in Since(s, t) : t[i].type \notin PlannedTypes
    PROVE  PlanIsFirst(t)
<1>1. OfType(t, "plan") = OfType(s, "plan")
  BY OtherTypesLast
<1>2. CASE OfType(s, "plan") # {}
  BY <1>1, <1>2 DEF PlanIsFirst
<1>3. CASE \A i \in Since(s, t) : t[i].type \notin PlannedTypes
  <2>1. /\ OfType(t, "loop-result") = OfType(s, "loop-result")
        /\ OfType(t, "checkpoint") = OfType(s, "checkpoint")
        /\ OfType(t, "tool-claimed") = OfType(s, "tool-claimed")
        /\ EffectsOf(t) = EffectsOf(s)
    BY <1>3, OtherTypesLast DEF PlannedTypes, EffectsOf
  <2>. QED  BY <1>1, <2>1 DEF PlanIsFirst
<1>. QED  BY <1>2, <1>3

LEMMA ResultsStay ==
    ASSUME NEW s, NEW t, Extends(s, t), ResultsAreEarned(s),
           \A i \in Since(s, t) : t[i].type \notin {"loop-result", "plan", "checkpoint"}
    PROVE  ResultsAreEarned(t)
<1>1. /\ OfType(t, "loop-result") = OfType(s, "loop-result")
      /\ OfType(t, "checkpoint") = OfType(s, "checkpoint")
      /\ OfType(t, "plan") = OfType(s, "plan")
  BY OtherTypesLast
<1>2. /\ OfType(s, "tool-completed") \subseteq OfType(t, "tool-completed")
      /\ OfType(s, "orchestrated") \subseteq OfType(t, "orchestrated")
      /\ OfType(s, "loop-result") \subseteq 1..Len(s) /\ OfType(s, "plan") \subseteq 1..Len(s)
  BY TypesGrow
<1>3. Len(s) \in Nat /\ \A i \in 1..Len(s) : t[i] = s[i]
  BY DEF Extends
<1>4. \A r \in OfType(s, "loop-result"), p \in OfType(s, "plan") : \A i \in p..(r - 1) : t[i] = s[i]
  BY <1>2, <1>3
<1>5. \A r \in OfType(s, "loop-result"), p \in OfType(s, "plan") :
        \A i \in p..(r - 1) : \A j \in i..(r - 1) : j \in p..(r - 1)
  BY <1>2, <1>3
<1>. QED  BY <1>1, <1>2, <1>4, <1>5 DEF ResultsAreEarned

LEMMA SaysTrueStays ==
    ASSUME NEW s, NEW t, Extends(s, t), NEW category, SaysTrue(s, category),
           \A i \in Since(s, t) : t[i].type \notin {"tool-claimed", "tool-observed", "asserted", "effect"}
    PROVE  SaysTrue(t, category)
<1>1. /\ OfType(t, "tool-claimed") = OfType(s, "tool-claimed")
      /\ OfType(t, "tool-observed") = OfType(s, "tool-observed")
      /\ EffectsOf(t) = EffectsOf(s)
  BY OtherTypesLast DEF EffectsOf
<1>. QED  BY <1>1 DEF SaysTrue

SuspensionTypes == {"checkpoint", "suspended", "resumable", "released", "claimed"}

LEMMA SuspensionIs ==
    /\ Suspension[1] = "checkpoint" /\ Suspension[2] = "suspended"
    /\ Suspension[3] = "resumable" /\ Suspension[4] = "released"
    /\ DOMAIN Suspension = 1..4 /\ \A i \in 1..4 : Suspension[i] \in SuspensionTypes \ {"claimed"}
BY DEF Suspension, SuspensionTypes

\* What ends an attempt comes after the claims there are.
LEMMA ReclaimsPrecede ==
    ASSUME NEW s, NEW t, Extends(s, t), NEW i \in ReclaimsOf(s),
           \A o \in OfType(s, "orchestrated") : i < o
    PROVE  \A o \in OfType(t, "orchestrated") : i < o
<1>1. i \in 1..Len(s) /\ Len(s) \in Nat
  BY TypesGrow DEF ReclaimsOf, Extends
<1>2. \A o \in OfType(t, "orchestrated") : o \in OfType(s, "orchestrated") \/ o \in Since(s, t)
  BY OfTypeExtends
<1>. QED  BY <1>1, <1>2 DEF Since

LEMMA SuspensionsStay ==
    ASSUME NEW s, NEW t, Extends(s, t), SuspensionsAreWhole(s),
           \A i \in Since(s, t) : t[i].type \notin SuspensionTypes,
           \/ OfType(s, "checkpoint") = {}
           \/ \A i \in Since(s, t) :
                t[i].type \notin {"tool-claimed", "tool-observed", "asserted", "effect"}
    PROVE  SuspensionsAreWhole(t)
<1>1. \A type \in SuspensionTypes :
        OfType(t, type) = OfType(s, type) /\ \A i \in OfType(s, type) : t[i] = s[i]
  BY OtherTypesLast
<1>2. \A i \in 1..4 : OfType(t, Suspension[i]) = OfType(s, Suspension[i])
        /\ \A e \in OfType(s, Suspension[i]) : t[e] = s[e]
  BY <1>1, SuspensionIs
<1>3. ReclaimsOf(t) = ReclaimsOf(s) /\ \A i \in ReclaimsOf(s) : t[i] = s[i]
  BY <1>1 DEF ReclaimsOf, SuspensionTypes
<1>4. OfType(t, "released") = OfType(s, "released")
      /\ OfType(t, "checkpoint") = OfType(s, "checkpoint")
      /\ \A e \in OfType(s, "checkpoint") : t[e] = s[e]
  BY <1>1 DEF SuspensionTypes
<1>5. ASSUME NEW e \in OfType(t, "checkpoint")
      PROVE  SaysTrue(t, t[e].category)
  <2>1. SaysTrue(s, s[e].category) /\ t[e] = s[e]
    BY <1>4, <1>5 DEF SuspensionsAreWhole
  <2>. QED  BY <1>4, <1>5, <2>1, SaysTrueStays
<1>6. \A i \in 1..4 : \A d, e \in OfType(t, Suspension[i]) : d = e
  BY <1>2 DEF SuspensionsAreWhole
<1>7. ASSUME NEW i \in 2..4, NEW e \in OfType(t, Suspension[i])
      PROVE  t[e].cause \in OfType(t, Suspension[i - 1]) /\ t[e].cause < e
  <2>1. i \in 1..4 /\ i - 1 \in 1..4
    OBVIOUS
  <2>. QED  BY <1>2, <1>7, <2>1 DEF SuspensionsAreWhole
<1>8. \A i, j \in ReclaimsOf(t) :
        t[i].cause < i /\ t[i].cause \in OfType(t, "released") /\ i = j
  BY <1>3, <1>4 DEF SuspensionsAreWhole
<1>9. \A i \in ReclaimsOf(t) : \A o \in OfType(t, "orchestrated") : i < o
  BY <1>3, ReclaimsPrecede DEF SuspensionsAreWhole
<1>. QED  BY <1>5, <1>6, <1>7, <1>8, <1>9 DEF SuspensionsAreWhole

LEMMA ReclaimsGrow ==
    ASSUME NEW s, NEW t, Extends(s, t)
    PROVE  ReclaimsOf(s) \subseteq ReclaimsOf(t)
BY TypesGrow DEF ReclaimsOf

LEMMA TakeoversStay ==
    ASSUME NEW s, NEW t, Extends(s, t), TakeoversEnd(s),
           \A i \in Since(s, t) : t[i].type # "recovery",
           \/ OfType(s, "recovery") = {}
           \/ \A i \in Since(s, t) : t[i].type \notin Spent \union {"checkpoint"}
    PROVE  TakeoversEnd(t)
<1>1. OfType(t, "recovery") = OfType(s, "recovery") /\ OfType(s, "recovery") \subseteq 1..Len(s)
  BY OtherTypesLast, TypesGrow
<1>2. CASE OfType(s, "recovery") = {}
  BY <1>1, <1>2 DEF TakeoversEnd
<1>3. CASE \A i \in Since(s, t) : t[i].type \notin Spent \union {"checkpoint"}
  <2>1. IsUnknown(s) => IsUnknown(t)
    <3>1. OfType(t, "checkpoint") = OfType(s, "checkpoint")
          /\ \A e \in OfType(s, "checkpoint") : t[e] = s[e]
      BY <1>3, OtherTypesLast
    <3>. QED  BY <3>1 DEF IsUnknown
  <2>2. ReclaimsOf(s) \subseteq ReclaimsOf(t)
    BY ReclaimsGrow
  <2>3. /\ Len(s) \in Nat /\ \A i \in 1..Len(s) : t[i] = s[i]
        /\ \A i \in (Len(s) + 1)..Len(t) : t[i].type \notin Spent
    BY <1>3 DEF Extends, Since
  <2>4. ASSUME NEW o \in OfType(s, "recovery")
        PROVE  \A i \in (o + 1)..Len(t) : t[i].type \notin Spent
    <3>1. \A i \in (o + 1)..Len(s) : s[i].type \notin Spent
      BY DEF TakeoversEnd
    <3>2. o \in Nat
      BY <1>1
    <3>3. \A i \in (o + 1)..Len(t) : i \in (o + 1)..Len(s) \/ i \in (Len(s) + 1)..Len(t)
      BY <2>3, <3>2
    <3>4. \A i \in (o + 1)..Len(s) : i \in 1..Len(s)
      BY <2>3, <3>2
    <3>. QED  BY <2>3, <3>1, <3>3, <3>4
  <2>. QED  BY <1>1, <2>1, <2>2, <2>4 DEF TakeoversEnd
<1>. QED  BY <1>2, <1>3

\* Nobody recovers what nobody claimed, or suspended.
LEMMA NoRecovery ==
    ASSUME NEW s, LoopLedger(s),
           OfType(s, "checkpoint") = {} \/ OfType(s, "tool-claimed") = {}
    PROVE  OfType(s, "recovery") = {}
BY DEF LoopLedger, TakeoversEnd, IsUnknown, SuspensionsAreWhole, SaysTrue

\* A claim is taken up again because a suspension released it.
LEMMA ReclaimedOnce ==
    ASSUME NEW s, SuspensionsAreWhole(s), ReclaimsOf(s) # {}
    PROVE  OfType(s, "checkpoint") # {}
<1>1. OfType(s, Suspension[4]) # {}
  BY SuspensionIs DEF SuspensionsAreWhole
<1>2. \A i \in 2..4 : OfType(s, Suspension[i]) # {} => OfType(s, Suspension[i - 1]) # {}
  BY DEF SuspensionsAreWhole
<1>3. OfType(s, Suspension[4 - 1]) # {}
  BY <1>1, <1>2
<1>4. OfType(s, Suspension[3 - 1]) # {}
  BY <1>2, <1>3
<1>5. OfType(s, Suspension[2 - 1]) # {}
  BY <1>2, <1>4
<1>. QED  BY <1>5, SuspensionIs

LEMMA LoopTypesAre ==
    LoopTypes = ToolRecord \union {"asserted", "effect"} \union PlannedTypes \union SuspensionTypes
                    \union {"plan", "observation", "tool-step", "recovery", "loop-result"}
BY DEF LoopTypes, LoopRecord, ToolRecord, PlannedTypes, SuspensionTypes

LEMMA LedgerApart ==
    ASSUME NEW s, NEW t, Extends(s, t), LoopLedger(s),
           \A i \in Since(s, t) : t[i].type \notin LoopTypes
    PROVE  LoopLedger(t)
<1>1. \A i \in Since(s, t) :
        /\ t[i].type \notin ToolRecord /\ t[i].type \notin {"asserted", "effect"}
        /\ t[i].type \notin PlannedTypes /\ t[i].type \notin SuspensionTypes
        /\ t[i].type \notin {"loop-result", "plan", "checkpoint"}
        /\ t[i].type \notin {"tool-claimed", "tool-observed", "asserted", "effect"}
        /\ t[i].type # "recovery" /\ t[i].type \notin Spent \union {"checkpoint"}
  BY LoopTypesAre DEF SuspensionTypes, ToolRecord, Spent, LoopRecord
<1>2. TakeoversEnd(t)
  BY <1>1, TakeoversStay DEF LoopLedger
<1>. QED
  BY <1>1, <1>2, ToolOrderStays, EffectsStay, PlanStays, ResultsStay, SuspensionsStay
     DEF LoopLedger

\* Types whose events change what the loop that planned relies on.
Guarded ==
    LoopRecord \union
    {"loop-result", "checkpoint", "tool-claimed", "tool-observed", "tool-completed",
     "asserted", "effect"}

LEMMA AloneStays ==
    ASSUME NEW s, NEW t, Extends(s, t), NEW n \in 0..Len(s), Alone(s, n),
           \A i \in Since(s, t) : t[i].type # "plan"
    PROVE  Alone(t, n)
<1>1. OfType(t, "plan") = OfType(s, "plan") /\ OfType(s, "plan") \subseteq 1..Len(s)
  BY OtherTypesLast, TypesGrow
<1>2. Len(s) \in Nat /\ \A i \in 1..Len(s) : t[i] = s[i]
  BY DEF Extends
<1>3. \A p \in OfType(s, "plan") : \A i \in p..n : t[i] = s[i]
  BY <1>1, <1>2
<1>. QED  BY <1>1, <1>3 DEF Alone

LEMMA OwnStays ==
    ASSUME NEW s, NEW t, Extends(s, t), NEW n, OnItsOwn(s, n),
           \A i \in Since(s, t) : t[i].type \notin {"plan", "loop-result", "checkpoint"}
    PROVE  OnItsOwn(t, n)
<1>1. /\ OfType(t, "plan") = OfType(s, "plan")
      /\ OfType(t, "loop-result") = OfType(s, "loop-result")
      /\ OfType(t, "checkpoint") = OfType(s, "checkpoint")
  BY OtherTypesLast
<1>2. n \in 1..Len(t) /\ n \in 0..Len(s) /\ Alone(s, n)
  BY DEF Extends, OnItsOwn
<1>3. Alone(t, n)
  BY <1>2, AloneStays
<1>. QED  BY <1>1, <1>2, <1>3 DEF OnItsOwn

LEMMA RunsOn ==
    ASSUME NEW s, NEW t, Extends(s, t), \A i \in Since(s, t) : t[i].type \notin Guarded,
           NEW k, RunsWell(s, k)
    PROVE  RunsWell(t, k)
<1>1. /\ OfType(t, "plan") = OfType(s, "plan")
      /\ OfType(t, "loop-result") = OfType(s, "loop-result")
      /\ OfType(t, "checkpoint") = OfType(s, "checkpoint")
      /\ OfType(t, "tool-claimed") = OfType(s, "tool-claimed")
      /\ OfType(t, "tool-observed") = OfType(s, "tool-observed")
      /\ OfType(t, "tool-completed") = OfType(s, "tool-completed")
      /\ EffectsOf(t) = EffectsOf(s)
  BY OtherTypesLast DEF Guarded, LoopRecord, EffectsOf
<1>2. /\ OfType(s, "tool-requested") \subseteq OfType(t, "tool-requested")
      /\ \A r \in OfType(s, "tool-requested") : t[r] = s[r]
      /\ OfType(s, "tool-approved") \subseteq OfType(t, "tool-approved")
      /\ OfType(s, "orchestrated") \subseteq OfType(t, "orchestrated")
  BY TypesGrow
<1>4. OnItsOwn(t, k.seen)
  BY OwnStays DEF Guarded, LoopRecord, RunsWell
<1>5. Told(s, k.outcome) => Told(t, k.outcome)
  BY <1>1 DEF Told, SaysTrue
<1>6. (\E r \in OfType(s, "tool-requested") : s[r].kind = k.kind)
        => \E r \in OfType(t, "tool-requested") : t[r].kind = k.kind
  BY <1>2
<1>7. (\A j \in (k.seen + 1)..Len(s) : s[j].type \notin LoopRecord)
        => \A j \in (k.seen + 1)..Len(t) : t[j].type \notin LoopRecord
  <2>1. k.seen \in 1..Len(s) /\ Len(s) \in Nat /\ \A j \in 1..Len(s) : t[j] = s[j]
    BY DEF RunsWell, OnItsOwn, Extends
  <2>2. \A j \in (Len(s) + 1)..Len(t) : t[j].type \notin LoopRecord
    BY DEF Guarded, Since
  <2>3. \A j \in (k.seen + 1)..Len(t) :
            (j \in (k.seen + 1)..Len(s) /\ j \in 1..Len(s)) \/ j \in (Len(s) + 1)..Len(t)
    BY <2>1
  <2>. QED  BY <2>1, <2>2, <2>3
<1>. QED  BY <1>1, <1>2, <1>4, <1>5, <1>6, <1>7 DEF RunsWell

LEMMA FitsOn ==
    ASSUME NEW s, NEW t, Extends(s, t), NEW k, LoopFits(s, k),
           Holder(k) => \A i \in Since(s, t) : t[i].type \notin Guarded
    PROVE  LoopFits(t, k)
<1>1. Running(k) => RunsWell(t, k)
  BY RunsOn DEF LoopFits, Holder
<1>2. Suspending(k) => SuspendsWell(t, k)
  <2>1. SUFFICES ASSUME Suspending(k)
                 PROVE  SuspendsWell(t, k)
    OBVIOUS
  <2>2. /\ OfType(t, "plan") = OfType(s, "plan")
        /\ OfType(t, "loop-result") = OfType(s, "loop-result")
        /\ OfType(t, "tool-claimed") = OfType(s, "tool-claimed")
        /\ OfType(t, "tool-observed") = OfType(s, "tool-observed")
        /\ OfType(t, "tool-completed") = OfType(s, "tool-completed")
        /\ EffectsOf(t) = EffectsOf(s)
    BY <2>1, OtherTypesLast DEF Guarded, LoopRecord, EffectsOf, Holder
  <2>. QED  BY <2>1, <2>2 DEF LoopFits, SuspendsWell, Told, SaysTrue
<1>3. /\ OfType(s, "tool-requested") \subseteq OfType(t, "tool-requested")
      /\ \A r \in OfType(s, "tool-requested") : t[r] = s[r]
      /\ OfType(s, "checkpoint") \subseteq OfType(t, "checkpoint")
  BY TypesGrow
<1>4. DecidesWell(s, k) => DecidesWell(t, k)
  BY <1>3 DEF DecidesWell
<1>5. ASSUME k.op = "loop", k.at = "reclaiming"
      PROVE  /\ k.base \in Nat /\ k.base <= Len(t)
             /\ k.base = Len(t) => ReclaimsOf(t) = {} /\ OfType(t, "orchestrated") = {}
  <2>1. /\ k.base \in Nat /\ k.base <= Len(s)
        /\ k.base = Len(s) => ReclaimsOf(s) = {} /\ OfType(s, "orchestrated") = {}
    BY <1>5 DEF LoopFits
  <2>2. Len(s) \in Nat /\ Len(t) \in Nat /\ Len(s) <= Len(t)
    BY DEF Extends
  <2>3. Len(t) = Len(s) => t = s
    BY SameLength
  <2>. QED  BY <2>1, <2>2, <2>3
<1>6. TakesWell(s, k) => TakesWell(t, k)
  <2>1. /\ OfType(s, "checkpoint") \subseteq OfType(t, "checkpoint")
        /\ \A e \in OfType(s, "checkpoint") : t[e] = s[e]
    BY TypesGrow
  <2>. QED  BY <2>1, ReclaimsGrow DEF TakesWell
<1>. QED  BY <1>1, <1>2, <1>3, <1>4, <1>5, <1>6 DEF LoopFits

----------------------------------------------------------------------------
(* The loop's ledger, when an event of a loop joins it.                    *)

\* Ledger t is s and e, read by type.
Gains(s, t, e) ==
    /\ Extends(s, t) /\ Len(s) \in Nat /\ Len(t) = Len(s) + 1 /\ t[Len(s) + 1] = e
    /\ DOMAIN s = 1..Len(s) /\ DOMAIN t = 1..(Len(s) + 1)
    /\ \A i \in 1..Len(s) : t[i] = s[i]
    /\ \A i \in Since(s, t) : t[i] = e
    /\ \A type : OfType(s, type) \subseteq 1..Len(s)
    /\ \A type : e.type # type => OfType(t, type) = OfType(s, type)
    /\ OfType(t, e.type) = OfType(s, e.type) \union {Len(s) + 1}

LEMMA Appended ==
    ASSUME NEW s, IsLedger(s), NEW e
    PROVE  Gains(s, Append(s, e), e)
<1> DEFINE t == Append(s, e)
<1>1. Extends(s, t) /\ Since(s, t) = {Len(s) + 1} /\ t[Len(s) + 1] = e /\ Len(t) = Len(s) + 1
  BY AppendExtends
<1>. HIDE DEF t
<1>2. Len(s) \in Nat /\ DOMAIN s = 1..Len(s) /\ DOMAIN t = 1..(Len(s) + 1)
      /\ \A i \in 1..Len(s) : t[i] = s[i]
  BY <1>1 DEF Extends
<1>3. \A type : OfType(s, type) \subseteq 1..Len(s)
  BY <1>2 DEF OfType
<1>4. \A type : e.type # type => OfType(t, type) = OfType(s, type)
  BY <1>1, OtherTypesLast
<1>5. \A i : i \in OfType(t, e.type) <=> i \in OfType(s, e.type) \/ i = Len(s) + 1
  BY <1>1, OfTypeExtends
<1>. QED  BY <1>1, <1>2, <1>3, <1>4, <1>5 DEF Gains, t

\* What an append leaves alone, by the type of what is appended.
LEMMA PartsUntouched ==
    ASSUME NEW s, NEW t, NEW e, Gains(s, t, e), LoopLedger(s)
    PROVE  /\ e.type \notin ToolRecord => ToolIsOrdered(t)
           /\ e.type \notin {"asserted", "effect"} => EffectsAreClaimed(t)
           /\ e.type # "plan" /\ (OfType(s, "plan") # {} \/ e.type \notin PlannedTypes) =>
                PlanIsFirst(t)
           /\ e.type \notin {"loop-result", "plan", "checkpoint"} => ResultsAreEarned(t)
           /\ /\ e.type \notin SuspensionTypes
              /\ \/ OfType(s, "checkpoint") = {}
                 \/ e.type \notin {"tool-claimed", "tool-observed", "asserted", "effect"}
              => SuspensionsAreWhole(t)
           /\ /\ e.type # "recovery"
              /\ \/ OfType(s, "checkpoint") = {} \/ OfType(s, "tool-claimed") = {}
                 \/ e.type \notin Spent \union {"checkpoint"}
              => TakeoversEnd(t)
<1>1. Extends(s, t) /\ \A i \in Since(s, t) : t[i] = e
  BY DEF Gains
<1>2. e.type \notin ToolRecord => ToolIsOrdered(t)
  BY <1>1, ToolOrderStays DEF LoopLedger
<1>3. e.type \notin {"asserted", "effect"} => EffectsAreClaimed(t)
  BY <1>1, EffectsStay DEF LoopLedger
<1>4. e.type # "plan" /\ (OfType(s, "plan") # {} \/ e.type \notin PlannedTypes) => PlanIsFirst(t)
  BY <1>1, PlanStays DEF LoopLedger
<1>5. e.type \notin {"loop-result", "plan", "checkpoint"} => ResultsAreEarned(t)
  BY <1>1, ResultsStay DEF LoopLedger
<1>6. /\ e.type \notin SuspensionTypes
      /\ \/ OfType(s, "checkpoint") = {}
         \/ e.type \notin {"tool-claimed", "tool-observed", "asserted", "effect"}
      => SuspensionsAreWhole(t)
  BY <1>1, SuspensionsStay DEF LoopLedger
<1>7. /\ e.type # "recovery"
      /\ \/ OfType(s, "checkpoint") = {} \/ OfType(s, "tool-claimed") = {}
         \/ e.type \notin Spent \union {"checkpoint"}
      => TakeoversEnd(t)
  <2>1. OfType(s, "checkpoint") = {} \/ OfType(s, "tool-claimed") = {} => OfType(s, "recovery") = {}
    BY NoRecovery
  <2>. QED  BY <1>1, <2>1, TakeoversStay DEF LoopLedger
<1>. QED  BY <1>2, <1>3, <1>4, <1>5, <1>6, <1>7

LEMMA PlanJoins ==
    ASSUME NEW s, NEW t, NEW e, Gains(s, t, e), LoopLedger(s), e.type = "plan", OfType(s, "plan") = {}
    PROVE  LoopLedger(t)
<1>0. /\ e.type \notin ToolRecord /\ e.type \notin {"asserted", "effect"}
      /\ e.type \notin SuspensionTypes
      /\ e.type \notin {"tool-claimed", "tool-observed", "asserted", "effect"}
  BY DEF ToolRecord, SuspensionTypes
<1>1. ToolIsOrdered(t) /\ EffectsAreClaimed(t)
  BY <1>0, PartsUntouched
<1>5. SuspensionsAreWhole(t)
  BY <1>0, PartsUntouched
<1>6. TakeoversEnd(t)
  <2>1. OfType(s, "checkpoint") = {}
    BY DEF LoopLedger, PlanIsFirst
  <2>. QED  BY <2>1, PartsUntouched
<1>2. /\ OfType(t, e.type) = {Len(s) + 1} /\ OfType(t, "loop-result") = OfType(s, "loop-result")
  BY DEF Gains
<1>3. OfType(s, "loop-result") = {}
  BY DEF LoopLedger, PlanIsFirst
<1>4. PlanIsFirst(t) /\ ResultsAreEarned(t)
  BY <1>2, <1>3 DEF PlanIsFirst, ResultsAreEarned
<1>. QED  BY <1>1, <1>4, <1>5, <1>6 DEF LoopLedger

LEMMA RecordJoins ==
    ASSUME NEW s, NEW t, NEW e, Gains(s, t, e), LoopLedger(s), e.type \in {"observation", "tool-step"},
           OfType(s, "checkpoint") = {}
    PROVE  LoopLedger(t)
<1>1. /\ e.type \notin ToolRecord /\ e.type \notin SuspensionTypes /\ e.type \notin PlannedTypes
      /\ e.type # "plan" /\ e.type # "recovery"
  BY DEF ToolRecord, SuspensionTypes, PlannedTypes
<1>. QED  BY <1>1, PartsUntouched DEF LoopLedger

ToolParts(t) ==
    /\ EffectsAreClaimed(t) /\ PlanIsFirst(t) /\ ResultsAreEarned(t)
    /\ SuspensionsAreWhole(t) /\ TakeoversEnd(t)

LEMMA ToolLeaves ==
    ASSUME NEW s, NEW t, NEW e, Gains(s, t, e), LoopLedger(s), e.type \in ToolRecord,
           \/ e.type \notin {"tool-claimed", "tool-observed"}
           \/ OfType(s, "plan") # {} /\ OfType(s, "checkpoint") = {},
           OfType(s, "checkpoint") = {} \/ OfType(s, "tool-claimed") = {}
    PROVE  ToolParts(t)
<1>1. /\ e.type \notin SuspensionTypes /\ e.type \notin {"loop-result", "plan", "checkpoint"}
      /\ e.type # "recovery" /\ e.type \notin {"asserted", "effect"}
      /\ e.type \in PlannedTypes => e.type = "tool-claimed"
  BY DEF ToolRecord, SuspensionTypes, PlannedTypes
<1>. QED  BY <1>1, PartsUntouched DEF ToolParts

LEMMA ToolsJoin ==
    ASSUME NEW s, NEW t, NEW e, Gains(s, t, e), ToolIsOrdered(s), e.type \in ToolRecord, e.stream = ToolStream
    PROVE  /\ ToolsOf(t) = ToolsOf(s) \union {Len(s) + 1} /\ ToolsOf(s) \subseteq 1..Len(s)
           /\ \A i \in ToolsOf(t) : t[i].stream = ToolStream
           /\ \A type \in ToolRecord : OfType(s, type) \subseteq ToolsOf(s)
<1>1. /\ Len(s) \in Nat /\ DOMAIN s = 1..Len(s) /\ DOMAIN t = 1..(Len(s) + 1)
      /\ t[Len(s) + 1] = e /\ \A i \in 1..Len(s) : t[i] = s[i]
  BY DEF Gains
<1>2. ToolsOf(t) = ToolsOf(s) \union {Len(s) + 1} /\ ToolsOf(s) \subseteq 1..Len(s)
  BY <1>1 DEF ToolsOf
<1>3. \A i \in ToolsOf(t) : t[i].stream = ToolStream
  BY <1>1, <1>2 DEF ToolIsOrdered
<1>4. \A type \in ToolRecord : OfType(s, type) \subseteq ToolsOf(s)
  BY DEF OfType, ToolsOf
<1>. QED  BY <1>2, <1>3, <1>4

LEMMA RequestJoins ==
    ASSUME NEW s, NEW t, NEW e, Gains(s, t, e), LoopLedger(s), e.type = "tool-requested",
           e.stream = ToolStream, StreamLength(s, ToolStream) = 0
    PROVE  LoopLedger(t)
<1>2. InStream(s, ToolStream) = {}
  BY StreamIsFinite DEF Gains, Extends
<1>3. ToolsOf(s) = {}
  BY <1>2 DEF LoopLedger, ToolIsOrdered, ToolsOf, InStream
<1>1. ToolParts(t)
  <2>1. OfType(s, "tool-claimed") = {}
    BY <1>3 DEF ToolsOf, OfType, ToolRecord
  <2>. QED  BY <2>1, ToolLeaves DEF ToolRecord
<1>4. ToolsOf(t) = {Len(s) + 1} /\ \A i \in ToolsOf(t) : t[i].stream = ToolStream
  BY <1>3, ToolsJoin DEF LoopLedger, ToolRecord
<1>5. /\ OfType(t, "tool-requested") = {Len(s) + 1} /\ OfType(t, "tool-approved") = {}
      /\ OfType(t, "tool-claimed") = {} /\ OfType(t, "tool-observed") = {}
      /\ OfType(t, "tool-completed") = {}
      /\ Len(s) \in Nat
  <2>1. \A type \in ToolRecord : OfType(s, type) = {}
    BY <1>3 DEF ToolsOf, OfType
  <2>2. OfType(s, e.type) = {} /\ OfType(t, e.type) = OfType(s, e.type) \union {Len(s) + 1}
    BY <2>1 DEF Gains, ToolRecord
  <2>3. \A type \in ToolRecord \ {"tool-requested"} : OfType(t, type) = {}
    BY <2>1 DEF Gains
  <2>4. Len(s) \in Nat
    BY DEF Gains
  <2>. QED  BY <2>2, <2>3, <2>4 DEF ToolRecord
<1>6. ToolIsOrdered(t)
  BY <1>4, <1>5 DEF ToolIsOrdered
<1>. QED  BY <1>1, <1>6 DEF LoopLedger, ToolParts

LEMMA TwoInStream ==
    ASSUME NEW s, IsLedger(s), NEW st, NEW a \in InStream(s, st), NEW n \in Nat,
           StreamLength(s, st) = n
    PROVE  /\ n = 1 => InStream(s, st) = {a}
           /\ n = 2 => \A b \in InStream(s, st) : b # a => InStream(s, st) = {a, b}
<1> DEFINE S == InStream(s, st)
<1>1. IsFiniteSet(S) /\ Cardinality(S) = n
  BY StreamIsFinite DEF StreamLength
<1>. HIDE DEF S
<1>2. n = 1 => S = {a}
  BY <1>1, AtMostOne DEF S
<1>3. ASSUME n = 2, NEW b \in S, b # a
      PROVE  S = {a, b}
  <2>1. IsFiniteSet(S \ {a}) /\ Cardinality(S \ {a}) = 1
    BY <1>1, <1>3, FS_RemoveElement DEF S
  <2>2. \A i, j \in S \ {a} : i = j
    BY <2>1, AtMostOne
  <2>. QED  BY <1>3, <2>2 DEF S
<1>. QED  BY <1>2, <1>3 DEF S

LEMMA VerdictJoins ==
    ASSUME NEW s, NEW t, NEW e, Gains(s, t, e), LoopLedger(s), e.type \in ToolVerdict,
           e.stream = ToolStream, StreamLength(s, ToolStream) = 1,
           NEW r \in OfType(s, "tool-requested"), s[r].kind = "human"
    PROVE  LoopLedger(t)
<1>0. e.type \in ToolRecord /\ "tool-requested" \in ToolRecord
  BY DEF ToolVerdict, ToolRecord
<1>2. ToolsOf(s) = {r}
  <2>1. \A i \in ToolsOf(s) : i \in InStream(s, ToolStream)
    BY DEF LoopLedger, ToolIsOrdered, ToolsOf, InStream
  <2>2. r \in ToolsOf(s)
    BY <1>0 DEF ToolsOf, OfType
  <2>3. InStream(s, ToolStream) = {r}
    BY <2>1, <2>2, TwoInStream DEF Gains, Extends
  <2>. QED  BY <2>1, <2>2, <2>3
<1>1. ToolParts(t)
  <2>1. OfType(s, "tool-claimed") = {}
    BY <1>2 DEF ToolsOf, OfType, ToolRecord
  <2>. QED  BY <1>0, <2>1, ToolLeaves DEF ToolVerdict
<1>3. ToolsOf(t) = {r, Len(s) + 1} /\ \A i \in ToolsOf(t) : t[i].stream = ToolStream
  BY <1>0, <1>2, ToolsJoin DEF LoopLedger
<1>4. /\ OfType(t, "tool-requested") = {r}
      /\ OfType(t, "tool-claimed") = {} /\ OfType(t, "tool-observed") = {}
      /\ OfType(t, "tool-completed") = {}
      /\ Len(s) \in Nat /\ r \in 1..Len(s) /\ t[r] = s[r] /\ t[Len(s) + 1] = e
  <2>1. s[r].type = "tool-requested" /\ \A type \in ToolRecord : OfType(s, type) \subseteq {r}
    BY <1>2 DEF ToolsOf, OfType
  <2>2. \A type \in ToolRecord : type # "tool-requested" => OfType(s, type) = {}
    BY <2>1 DEF OfType
  <2>3. OfType(s, "tool-requested") = {r}
    BY <1>0, <2>1
  <2>. QED  BY <2>2, <2>3 DEF Gains, ToolRecord, ToolVerdict
<1>5. t[r].type = "tool-requested" /\ t[r].kind = "human"
  BY <1>4 DEF OfType
<1>6. \A i, j \in ToolsOf(t) : t[i].type \in ToolVerdict /\ j < i =>
        t[j].type = "tool-requested" /\ t[j].kind = "human"
  BY <1>3, <1>4, <1>5 DEF ToolVerdict
<1>7. \A q \in OfType(t, "tool-requested"), i \in ToolsOf(t) : q <= i
  BY <1>3, <1>4
<1>8. ToolIsOrdered(t)
  BY <1>3, <1>4, <1>6, <1>7 DEF ToolIsOrdered
<1>. QED  BY <1>1, <1>8 DEF LoopLedger, ToolParts

\* The claim takes the tool's stream as the loop read it.
LEMMA ClaimJoins ==
    ASSUME NEW s, NEW t, NEW e, Gains(s, t, e), LoopLedger(s), e.type = "tool-claimed",
           e.stream = ToolStream, OfType(s, "plan") # {}, OfType(s, "checkpoint") = {},
           OfType(s, "tool-claimed") = {},
           NEW r \in OfType(s, "tool-requested"),
           \/ s[r].kind # "human" /\ StreamLength(s, ToolStream) = 1
           \/ /\ s[r].kind = "human" /\ StreamLength(s, ToolStream) = 2
              /\ OfType(s, "tool-approved") # {}
    PROVE  LoopLedger(t)
<1> DEFINE n == Len(s) + 1
<1>0. e.type \in ToolRecord /\ "tool-requested" \in ToolRecord /\ "tool-approved" \in ToolRecord
  BY DEF ToolRecord
<1>1. ToolParts(t)
  BY <1>0, ToolLeaves
<1>2. /\ ToolsOf(t) = ToolsOf(s) \union {n} /\ ToolsOf(s) \subseteq 1..Len(s)
      /\ \A i \in ToolsOf(t) : t[i].stream = ToolStream
      /\ \A type \in ToolRecord : OfType(s, type) \subseteq ToolsOf(s)
  BY <1>0, ToolsJoin DEF LoopLedger
<1>3. /\ OfType(t, "tool-requested") = OfType(s, "tool-requested")
      /\ OfType(t, "tool-approved") = OfType(s, "tool-approved")
      /\ OfType(t, "tool-claimed") = {n}
      /\ OfType(t, "tool-observed") = OfType(s, "tool-observed")
      /\ OfType(t, "tool-completed") = OfType(s, "tool-completed")
      /\ Len(s) \in Nat /\ t[n] = e /\ \A i \in ToolsOf(s) : t[i] = s[i]
  BY <1>2 DEF Gains
<1>4. /\ s[r].type = "tool-requested" /\ r \in ToolsOf(s)
      /\ \A i \in ToolsOf(s) : i \in InStream(s, ToolStream)
  BY <1>0 DEF LoopLedger, ToolIsOrdered, ToolsOf, InStream, OfType
\* What is in the stream: the request, and the approval a person was asked for.
<1>5. \A j \in ToolsOf(s) :
        /\ s[j].type \in {"tool-requested", "tool-approved"}
        /\ s[j].type = "tool-requested" /\ s[j].kind = "human" => OfType(s, "tool-approved") # {}
  <2>1. CASE s[r].kind # "human" /\ StreamLength(s, ToolStream) = 1
    <3>1. InStream(s, ToolStream) = {r}
      BY <1>4, <2>1, TwoInStream DEF Gains, Extends
    <3>. QED  BY <1>4, <2>1, <3>1
  <2>2. CASE /\ s[r].kind = "human" /\ StreamLength(s, ToolStream) = 2
             /\ OfType(s, "tool-approved") # {}
    <3>1. PICK a : a \in OfType(s, "tool-approved")
      BY <2>2
    <3>2. s[a].type = "tool-approved" /\ a # r /\ a \in ToolsOf(s)
      BY <1>0, <1>4, <3>1 DEF OfType, ToolsOf
    <3>3. InStream(s, ToolStream) = {r, a}
      BY <1>4, <2>2, <3>2, TwoInStream DEF Gains, Extends
    <3>. QED  BY <1>4, <2>2, <3>2, <3>3
  <2>. QED  BY <2>1, <2>2
<1>6. ToolIsOrdered(s) /\ OfType(s, "tool-observed") = {} /\ OfType(s, "tool-completed") = {}
  BY DEF LoopLedger, ToolIsOrdered
<1>7. /\ \A i \in OfType(s, "tool-approved") : i < n
      /\ \A i \in ToolsOf(s) : i < n
      /\ n \notin ToolsOf(s)
  BY <1>0, <1>2, <1>3
<1>. HIDE DEF n
<1>8. ToolIsOrdered(t)
  <2>1. \A i, j \in ToolsOf(t) : t[i].type \in ToolVerdict /\ j < i =>
            t[j].type = "tool-requested" /\ t[j].kind = "human"
    <3>1. t[n].type \notin ToolVerdict
      BY <1>3 DEF ToolVerdict
    <3>2. \A i, j \in ToolsOf(s) : s[i].type \in ToolVerdict /\ j < i =>
            s[j].type = "tool-requested" /\ s[j].kind = "human"
      BY <1>6 DEF ToolIsOrdered
    <3>3. \A i \in ToolsOf(s) : ~(n < i)
      BY <1>2, <1>3 DEF n
    <3>. QED  BY <1>2, <1>3, <3>1, <3>2, <3>3
  <2>2. \A q \in OfType(t, "tool-requested"), i \in ToolsOf(t) : q <= i
    BY <1>0, <1>2, <1>3, <1>6 DEF ToolIsOrdered, n
  <2>3. \A i \in OfType(t, "tool-claimed"), j \in ToolsOf(t) : j < i =>
            /\ t[j].type \in {"tool-requested", "tool-approved"}
            /\ t[j].type = "tool-requested" /\ t[j].kind = "human" =>
                \E a \in OfType(t, "tool-approved") : a < i
    <3>1. ~(n < n)
      BY <1>3 DEF n
    <3>. QED  BY <1>2, <1>3, <1>5, <1>7, <3>1
  <2>4. \A i \in OfType(t, "tool-claimed") : \E q \in OfType(t, "tool-requested") : q < i
    BY <1>3, <1>4, <1>7
  <2>. QED  BY <1>2, <1>3, <1>6, <2>1, <2>2, <2>3, <2>4 DEF ToolIsOrdered
<1>. QED  BY <1>1, <1>8 DEF LoopLedger, ToolParts

\* What an outcome and a completion join: no verdict and no claim.
LEMMA OutcomeJoins ==
    ASSUME NEW s, NEW t, NEW e, Gains(s, t, e), LoopLedger(s), e.stream = ToolStream,
           OfType(s, "plan") # {}, OfType(s, "checkpoint") = {},
           OfType(s, "tool-completed") = {}, OfType(s, "tool-claimed") # {},
           \/ e.type = "tool-observed" /\ OfType(s, "tool-observed") = {}
           \/ e.type = "tool-completed" /\ OfType(s, "tool-observed") # {}
    PROVE  LoopLedger(t)
<1> DEFINE n == Len(s) + 1
<1>0. e.type \in ToolRecord
  BY DEF ToolRecord
<1>1. ToolParts(t)
  BY <1>0, ToolLeaves
<1>2. /\ ToolsOf(t) = ToolsOf(s) \union {n} /\ ToolsOf(s) \subseteq 1..Len(s)
      /\ \A i \in ToolsOf(t) : t[i].stream = ToolStream
      /\ \A type \in ToolRecord : OfType(s, type) \subseteq ToolsOf(s)
  BY <1>0, ToolsJoin DEF LoopLedger
<1>3. /\ OfType(t, "tool-requested") = OfType(s, "tool-requested")
      /\ OfType(t, "tool-approved") = OfType(s, "tool-approved")
      /\ OfType(t, "tool-claimed") = OfType(s, "tool-claimed")
      /\ e.type = "tool-observed" =>
            OfType(t, "tool-observed") = {n} /\ OfType(t, "tool-completed") = {}
      /\ e.type = "tool-completed" =>
            OfType(t, "tool-observed") = OfType(s, "tool-observed")
            /\ OfType(t, "tool-completed") = {n}
      /\ Len(s) \in Nat /\ t[n] = e /\ \A i \in ToolsOf(s) : t[i] = s[i]
  BY <1>2 DEF Gains
<1>4. /\ OfType(s, "tool-requested") \subseteq ToolsOf(s)
      /\ OfType(s, "tool-claimed") \subseteq ToolsOf(s)
      /\ OfType(s, "tool-observed") \subseteq ToolsOf(s)
  BY <1>2 DEF ToolRecord
<1>5. (\A i \in ToolsOf(s) : i < n) /\ n \notin ToolsOf(s)
  BY <1>2, <1>3
<1>6. ToolIsOrdered(s)
  BY DEF LoopLedger
<1>. HIDE DEF n
<1>7. ToolIsOrdered(t)
  <2>0. \A i \in ToolsOf(s) : ~(n < i)
    BY <1>2, <1>3 DEF n
  <2>1. \A i, j \in ToolsOf(t) : t[i].type \in ToolVerdict /\ j < i =>
            t[j].type = "tool-requested" /\ t[j].kind = "human"
    <3>1. t[n].type \notin ToolVerdict
      BY <1>3 DEF ToolVerdict
    <3>2. \A i, j \in ToolsOf(s) : s[i].type \in ToolVerdict /\ j < i =>
            s[j].type = "tool-requested" /\ s[j].kind = "human"
      BY <1>6 DEF ToolIsOrdered
    <3>. QED  BY <1>2, <1>3, <2>0, <3>1, <3>2
  <2>2. \A q \in OfType(t, "tool-requested"), i \in ToolsOf(t) : q <= i
    BY <1>2, <1>3, <1>4, <1>6 DEF ToolIsOrdered, n
  <2>3. \A i \in OfType(t, "tool-claimed"), j \in ToolsOf(t) : j < i =>
            /\ t[j].type \in {"tool-requested", "tool-approved"}
            /\ t[j].type = "tool-requested" /\ t[j].kind = "human" =>
                \E a \in OfType(t, "tool-approved") : a < i
    BY <1>2, <1>3, <1>4, <1>6, <2>0 DEF ToolIsOrdered
  <2>4. \A i \in OfType(t, "tool-claimed") : \E q \in OfType(t, "tool-requested") : q < i
    BY <1>3, <1>6 DEF ToolIsOrdered
  <2>5. \A i \in ToolsOf(t) : OfType(t, "tool-requested") # {}
    BY <1>3, <1>6, <2>4 DEF ToolIsOrdered
  <2>6. n <= n
    BY <1>3 DEF n
  <2>7. \A i \in OfType(t, "tool-observed") :
            /\ \E j \in OfType(t, "tool-claimed") : j < i
            /\ \A j \in OfType(t, "tool-observed") \union OfType(t, "tool-completed") : i <= j
    <3>1. CASE e.type = "tool-observed"
      BY <1>3, <1>4, <1>5, <2>6, <3>1
    <3>2. CASE e.type = "tool-completed"
      <4>1. \A i \in ToolsOf(s) : i <= n
        BY <1>2, <1>3 DEF n
      <4>. QED  BY <1>3, <1>4, <1>6, <3>2, <4>1 DEF ToolIsOrdered
    <3>. QED  BY <3>1, <3>2
  <2>8. \A i \in OfType(t, "tool-completed") :
            /\ \E j \in OfType(t, "tool-observed") : j < i
            /\ \A j \in OfType(t, "tool-completed") : i <= j
    BY <1>3, <1>4, <1>5, <2>6
  <2>. QED  BY <1>2, <2>1, <2>2, <2>3, <2>4, <2>5, <2>7, <2>8 DEF ToolIsOrdered
<1>. QED  BY <1>1, <1>7 DEF LoopLedger, ToolParts

LEMMA EffectJoins ==
    ASSUME NEW s, NEW t, NEW e, Gains(s, t, e), LoopLedger(s), e.type \in {"asserted", "effect"},
           OfType(s, "plan") # {}, OfType(s, "checkpoint") = {},
           OfType(s, "tool-claimed") # {}, EffectsOf(s) = {}
    PROVE  LoopLedger(t)
<1>0. /\ e.type \notin ToolRecord /\ e.type # "plan"
      /\ e.type # "recovery" /\ e.type \notin {"loop-result", "plan", "checkpoint"} /\ e.type \notin SuspensionTypes
  BY DEF ToolRecord, SuspensionTypes
<1>1. ToolIsOrdered(t) /\ PlanIsFirst(t) /\ ResultsAreEarned(t) /\ SuspensionsAreWhole(t)
      /\ TakeoversEnd(t)
  BY <1>0, PartsUntouched
<1>2. EffectsOf(t) = {Len(s) + 1} /\ OfType(t, "tool-claimed") = OfType(s, "tool-claimed")
      /\ OfType(s, "tool-claimed") \subseteq 1..Len(s) /\ Len(s) \in Nat
  BY DEF Gains, EffectsOf
<1>3. EffectsAreClaimed(t)
  BY <1>2 DEF EffectsAreClaimed
<1>. QED  BY <1>1, <1>3 DEF LoopLedger

LEMMA ResultJoins ==
    ASSUME NEW s, NEW t, NEW e, Gains(s, t, e), LoopLedger(s), e.type = "loop-result",
           OfType(s, "plan") # {}, OfType(s, "loop-result") = {}, OfType(s, "checkpoint") = {},
           OfType(s, "tool-completed") # {}, OfType(s, "orchestrated") # {},
           NEW n \in 1..Len(s), Alone(s, n),
           \A j \in (n + 1)..Len(s) : s[j].type \notin LoopRecord
    PROVE  LoopLedger(t)
<1>0. /\ e.type \notin ToolRecord /\ e.type # "plan" /\ e.type \notin {"asserted", "effect"}
      /\ e.type \notin SuspensionTypes
      /\ e.type \notin {"tool-claimed", "tool-observed", "asserted", "effect"}
  BY DEF ToolRecord, SuspensionTypes
<1>1. ToolIsOrdered(t) /\ PlanIsFirst(t) /\ EffectsAreClaimed(t) /\ SuspensionsAreWhole(t)
      /\ TakeoversEnd(t)
  BY <1>0, PartsUntouched
<1>2. /\ OfType(t, e.type) = {Len(s) + 1} /\ OfType(t, "checkpoint") = {}
      /\ OfType(t, "tool-completed") = OfType(s, "tool-completed")
      /\ OfType(t, "orchestrated") = OfType(s, "orchestrated")
      /\ OfType(t, "plan") = OfType(s, "plan")
      /\ \A type : OfType(s, type) \subseteq 1..Len(s)
      /\ Len(s) \in Nat /\ \A i \in 1..Len(s) : t[i] = s[i]
  BY DEF Gains
<1>3. ASSUME NEW p \in OfType(t, "plan"), NEW i \in p..Len(s)
      PROVE  t[i].type \in Permitted \/ \A j \in i..Len(s) : t[j].type \notin LoopRecord
  <2>1. p \in 1..Len(s) /\ i \in 1..Len(s)
    BY <1>2, <1>3
  <2>2. CASE i <= n
    BY <1>2, <1>3, <2>1, <2>2 DEF Alone
  <2>3. CASE i > n
    <3>1. \A j \in i..Len(s) : j \in (n + 1)..Len(s) /\ j \in 1..Len(s)
      BY <1>2, <2>1, <2>3
    <3>. QED  BY <1>2, <3>1
  <2>. QED  BY <2>1, <2>2, <2>3
<1>4. ResultsAreEarned(t)
  BY <1>0, <1>2, <1>3 DEF ResultsAreEarned
<1>. QED  BY <1>1, <1>4 DEF LoopLedger

\* A part of a suspension that is missing, because of the part before.
LEMMA SuspensionJoins ==
    ASSUME NEW s, NEW t, NEW e, Gains(s, t, e), LoopLedger(s), NEW i \in 1..4, e.type = Suspension[i],
           OfType(s, Suspension[i]) = {},
           i = 1 => /\ OfType(s, "plan") # {} /\ OfType(s, "loop-result") = {}
                    /\ SaysTrue(s, e.category),
           i # 1 => e.cause \in OfType(s, Suspension[i - 1])
    PROVE  LoopLedger(t)
<1>0. /\ e.type \notin ToolRecord /\ e.type # "plan" /\ e.type \notin {"asserted", "effect"}
      /\ e.type \in PlannedTypes => i = 1
      /\ e.type \notin {"loop-result", "plan", "recovery", "orchestrated"} /\ (e.type = "checkpoint" <=> i = 1)
  BY DEF ToolRecord, PlannedTypes, Suspension
<1>1. ToolIsOrdered(t) /\ PlanIsFirst(t) /\ EffectsAreClaimed(t)
  BY <1>0, PartsUntouched
<1>2. /\ \A type : OfType(s, type) \subseteq 1..Len(s)
      /\ \A type : e.type # type => OfType(t, type) = OfType(s, type)
      /\ OfType(t, e.type) = OfType(s, e.type) \union {Len(s) + 1}
      /\ Len(s) \in Nat /\ \A j \in 1..Len(s) : t[j] = s[j]
      /\ t[Len(s) + 1] = e
  BY DEF Gains
<1>5. TakeoversEnd(t)
  <2>1. i = 1 => OfType(s, "checkpoint") = {}
    BY SuspensionIs
  <2>2. e.type \notin Spent
    BY <1>0 DEF Spent, LoopRecord, ToolRecord, Suspension
  <2>. QED  BY <1>0, <2>1, <2>2, PartsUntouched
<1>3. ResultsAreEarned(t)
  <2>1. CASE i = 1
    <3>1. OfType(t, "loop-result") = {}
      BY <1>0, <1>2, <2>1
    <3>. QED  BY <3>1 DEF ResultsAreEarned
  <2>2. CASE i # 1
    BY <1>0, <2>2, PartsUntouched
  <2>. QED  BY <2>1, <2>2
<1>4. SuspensionsAreWhole(t)
  <2>0. SuspensionsAreWhole(s)
    BY DEF LoopLedger
  <2>1. \A j \in 1..4 : j # i => OfType(t, Suspension[j]) = OfType(s, Suspension[j])
    <3>1. \A j \in 1..4 : j # i => Suspension[j] # Suspension[i]
      BY DEF Suspension
    <3>. QED  BY <1>2, <3>1
  <2>2. OfType(t, Suspension[i]) = {Len(s) + 1}
    BY <1>2
  <2>3. \A j \in 1..4 : \A c, d \in OfType(t, Suspension[j]) : c = d
    BY <2>0, <2>1, <2>2 DEF SuspensionsAreWhole
  <2>4. ASSUME NEW j \in 2..4, NEW d \in OfType(t, Suspension[j])
        PROVE  t[d].cause \in OfType(t, Suspension[j - 1]) /\ t[d].cause < d
    <3>0. j \in 1..4 /\ j - 1 \in 1..4 /\ j - 1 # j
      OBVIOUS
    <3>1. CASE j = i
      BY <1>2, <2>1, <2>2, <2>4, <3>0, <3>1
    <3>2. CASE j # i
      <4>1. d \in OfType(s, Suspension[j]) /\ t[d] = s[d]
        BY <1>2, <2>1, <2>4, <3>0, <3>2
      <4>2. s[d].cause \in OfType(s, Suspension[j - 1]) /\ s[d].cause < d
        BY <2>0, <4>1 DEF SuspensionsAreWhole
      <4>. QED  BY <1>2, <4>1, <4>2
    <3>. QED  BY <3>1, <3>2
  <2>5. ASSUME NEW j \in ReclaimsOf(t), NEW k \in ReclaimsOf(t)
        PROVE  /\ t[j].cause < j /\ t[j].cause \in OfType(t, "released") /\ j = k
               /\ \A o \in OfType(t, "orchestrated") : j < o
    <3>1. e.type # "claimed"
      BY DEF Suspension
    <3>2. OfType(t, "claimed") = OfType(s, "claimed") /\ \A q \in OfType(s, "claimed") : t[q] = s[q]
      BY <1>2, <3>1
    <3>3. ReclaimsOf(t) = ReclaimsOf(s) /\ \A q \in ReclaimsOf(s) : t[q] = s[q]
      BY <3>2 DEF ReclaimsOf
    <3>4. /\ s[j].cause < j /\ s[j].cause \in OfType(s, "released") /\ j = k
          /\ \A o \in OfType(s, "orchestrated") : j < o
      BY <2>0, <2>5, <3>3 DEF SuspensionsAreWhole
    <3>5. OfType(s, "released") \subseteq OfType(t, "released")
          /\ OfType(t, "orchestrated") = OfType(s, "orchestrated")
      BY <1>0, <1>2
    <3>. QED  BY <2>5, <3>3, <3>4, <3>5
  <2>6. ASSUME NEW d \in OfType(t, "checkpoint")
        PROVE  SaysTrue(t, t[d].category)
    <3>1. /\ OfType(t, "tool-claimed") = OfType(s, "tool-claimed")
          /\ OfType(t, "tool-observed") = OfType(s, "tool-observed")
          /\ EffectsOf(t) = EffectsOf(s)
      BY <1>0, <1>2 DEF EffectsOf, ToolRecord
    <3>2. SaysTrue(s, t[d].category)
      <4>1. CASE i = 1
        <5>1. d = Len(s) + 1
          BY <2>2, <2>6, <4>1, SuspensionIs
        <5>. QED  BY <1>2, <4>1, <5>1
      <4>2. CASE i # 1
        <5>1. d \in OfType(s, "checkpoint") /\ t[d] = s[d]
          BY <1>0, <1>2, <2>6, <4>2
        <5>. QED  BY <2>0, <5>1 DEF SuspensionsAreWhole
      <4>. QED  BY <4>1, <4>2
    <3>. QED  BY <3>1, <3>2 DEF SaysTrue
  <2>. QED  BY <2>3, <2>4, <2>5, <2>6 DEF SuspensionsAreWhole
<1>. QED  BY <1>1, <1>3, <1>4, <1>5 DEF LoopLedger

LEMMA ReclaimJoins ==
    ASSUME NEW s, NEW t, NEW e, Gains(s, t, e), LoopLedger(s), e.type = "claimed",
           ReclaimsOf(s) = {}, OfType(s, "orchestrated") = {}, e.cause \in OfType(s, "released")
    PROVE  LoopLedger(t)
<1>0. /\ e.type \notin ToolRecord /\ e.type # "plan" /\ e.type \notin {"asserted", "effect"}
      /\ e.type \notin {"loop-result", "plan", "checkpoint"} /\ e.type \notin PlannedTypes
      /\ e.type # "recovery" /\ e.type \notin Spent \union {"checkpoint"}
      /\ \A i \in 1..4 : Suspension[i] # "claimed"
      /\ e.type \notin {"tool-claimed", "tool-observed", "asserted", "effect"}
  BY DEF ToolRecord, LoopRecord, Spent, PlannedTypes, Suspension
<1>1. ToolIsOrdered(t) /\ PlanIsFirst(t) /\ EffectsAreClaimed(t) /\ ResultsAreEarned(t)
      /\ TakeoversEnd(t)
  BY <1>0, PartsUntouched
<1>2. /\ \A type : OfType(s, type) \subseteq 1..Len(s)
      /\ \A type : type # "claimed" => OfType(t, type) = OfType(s, type)
      /\ OfType(t, e.type) = OfType(s, e.type) \union {Len(s) + 1}
      /\ Len(s) \in Nat /\ \A j \in 1..Len(s) : t[j] = s[j]
      /\ t[Len(s) + 1] = e /\ Extends(s, t) /\ \A i \in Since(s, t) : t[i] = e
  BY DEF Gains
<1>3. SuspensionsAreWhole(t)
  <2>0. SuspensionsAreWhole(s)
    BY DEF LoopLedger
  <2>1. \A i \in 1..4 : OfType(t, Suspension[i]) = OfType(s, Suspension[i])
            /\ \A d \in OfType(s, Suspension[i]) : t[d] = s[d]
    BY <1>0, <1>2
  <2>2. \A i \in 1..4 : \A c, d \in OfType(t, Suspension[i]) : c = d
    BY <2>0, <2>1 DEF SuspensionsAreWhole
  <2>3. ASSUME NEW i \in 2..4, NEW d \in OfType(t, Suspension[i])
        PROVE  t[d].cause \in OfType(t, Suspension[i - 1]) /\ t[d].cause < d
    <3>1. i \in 1..4 /\ i - 1 \in 1..4
      OBVIOUS
    <3>. QED  BY <2>0, <2>1, <2>3, <3>1 DEF SuspensionsAreWhole
  <2>4. ReclaimsOf(t) \subseteq {Len(s) + 1}
    BY <1>2 DEF ReclaimsOf
  <2>5. \A i, j \in ReclaimsOf(t) :
            /\ t[i].cause < i /\ t[i].cause \in OfType(t, "released") /\ i = j
            /\ \A o \in OfType(t, "orchestrated") : i < o
    BY <1>2, <2>4
  <2>6. \A d \in OfType(t, "checkpoint") : SaysTrue(t, t[d].category)
    <3>1. \A d \in OfType(t, "checkpoint") : SaysTrue(s, t[d].category)
      BY <1>2, <2>0 DEF SuspensionsAreWhole
    <3>. QED  BY <1>0, <1>2, <3>1, SaysTrueStays
  <2>. QED  BY <2>2, <2>3, <2>5, <2>6 DEF SuspensionsAreWhole
<1>. QED  BY <1>1, <1>3 DEF LoopLedger

\* An outcome that is still unknown is observed, of a run that was claimed again.
LEMMA RecoveryJoins ==
    ASSUME NEW s, NEW t, NEW e, Gains(s, t, e), LoopLedger(s), e.type = "recovery",
           OfType(s, "recovery") = {}, ReclaimsOf(s) # {}, IsUnknown(s)
    PROVE  LoopLedger(t)
<1>0. /\ e.type \notin ToolRecord /\ e.type # "plan" /\ e.type \notin {"asserted", "effect"}
      /\ e.type \notin {"loop-result", "plan", "checkpoint"} /\ e.type \notin PlannedTypes
      /\ e.type \notin SuspensionTypes
      /\ e.type \notin {"tool-claimed", "tool-observed", "asserted", "effect"}
  BY DEF ToolRecord, PlannedTypes, SuspensionTypes
<1>1. /\ ToolIsOrdered(t) /\ PlanIsFirst(t) /\ EffectsAreClaimed(t) /\ ResultsAreEarned(t)
      /\ SuspensionsAreWhole(t)
  BY <1>0, PartsUntouched
<1>2. /\ Extends(s, t) /\ Len(s) \in Nat /\ Len(t) = Len(s) + 1
      /\ \A type : OfType(s, type) \subseteq 1..Len(s)
      /\ OfType(t, "checkpoint") = OfType(s, "checkpoint")
      /\ OfType(t, "recovery") = {Len(s) + 1}
      /\ \A i \in 1..Len(s) : t[i] = s[i]
  BY <1>0 DEF Gains
<1>3. \E i \in ReclaimsOf(t) : i < Len(s) + 1
  BY <1>2, ReclaimsGrow DEF ReclaimsOf
<1>4. IsUnknown(t)
  BY <1>2 DEF IsUnknown
<1>5. (Len(s) + 1 + 1)..Len(t) = {}
  BY <1>2
<1>6. TakeoversEnd(t)
  BY <1>2, <1>3, <1>4, <1>5 DEF TakeoversEnd
<1>. QED  BY <1>1, <1>6 DEF LoopLedger

----------------------------------------------------------------------------
(* The loop: what its tokens say.                                          *)

LEMMA ChainTypes ==
    ASSUME NEW a, a \in Nat, CatalogChain(a)
    PROVE  /\ \A i \in (a - 2)..(a + 2) : log[i].type \in ToolRecord \union {"asserted"}
           /\ a + 1 \in 1..Len(log) /\ log[a + 1].type = "tool-observed"
<1> DEFINE f == [j \in 1..5 |-> log[a - 3 + j].type]
           g == <<"tool-requested", "tool-claimed", "asserted", "tool-observed", "tool-completed">>
<1>1. f = g /\ a > 2 /\ a + 2 <= Len(log)
  BY DEF CatalogChain
<1>2. \A j \in 1..5 : g[j] \in ToolRecord \union {"asserted"}
  BY DEF ToolRecord
<1>3. \A j \in 1..5 : f[j] = log[a - 3 + j].type
  OBVIOUS
<1>4. g[4] = "tool-observed" /\ f[4] = log[a - 3 + 4].type
  OBVIOUS
<1>. HIDE DEF f, g
<1>5. \A i \in (a - 2)..(a + 2) : log[i].type \in ToolRecord \union {"asserted"}
  <2>1. SUFFICES ASSUME NEW i \in (a - 2)..(a + 2)
                 PROVE  log[i].type \in ToolRecord \union {"asserted"}
    OBVIOUS
  <2>2. i - a + 3 \in 1..5 /\ a - 3 + (i - a + 3) = i
    OBVIOUS
  <2>. QED  BY <1>1, <1>2, <1>3, <2>2
<1>6. a - 3 + 4 = a + 1 /\ a + 1 >= 1 /\ a + 1 <= a + 2
  OBVIOUS
<1>7. a + 1 \in 1..Len(log)
  BY <1>1
<1>. QED  BY <1>1, <1>4, <1>5, <1>6, <1>7

\* A token that holds: what was appended since is the loop's, or is what tools do.
LEMMA TokenHolds ==
    ASSUME IsLedger(log), NEW n \in 0..Len(log), PermittedSince(n)
    PROVE  \A i \in (n + 1)..Len(log) : log[i].type \in Permitted \union {"recovery", "loop-result"}
<1>1. \A a \in AssertedSince(n) : a \in Nat /\ CatalogChain(a)
  <2>1. DOMAIN log = 1..Len(log)
    BY LedgerFacts
  <2>. QED  BY <2>1 DEF PermittedSince, AssertedSince, OfType
<1>2. SUFFICES ASSUME NEW i \in (n + 1)..Len(log)
               PROVE  log[i].type \in Permitted \union {"recovery", "loop-result"}
  OBVIOUS
<1>3. \/ log[i].type \in LoopRecord
      \/ log[i].type \in {"recovery", "loop-result"}
      \/ log[i].type \in ToolRecord
      \/ \E a \in AssertedSince(n) : i \in (a - 2)..(a + 2)
  BY DEF PermittedSince
<1>4. (\E a \in AssertedSince(n) : i \in (a - 2)..(a + 2)) => log[i].type \in ToolRecord \union {"asserted"}
  BY <1>1, ChainTypes
<1>. QED  BY <1>3, <1>4 DEF Permitted

LEMMA OwnGoesOn ==
    ASSUME IsLedger(log), LoopLedger(log), NEW n, OnItsOwn(log, n), PermittedSince(n)
    PROVE  OnItsOwn(log, Len(log))
<1>1. n \in 1..Len(log) /\ n \in 0..Len(log) /\ Len(log) \in Nat /\ Alone(log, n)
      /\ OfType(log, "loop-result") = {} /\ DOMAIN log = 1..Len(log)
  BY LedgerFacts DEF OnItsOwn
<1>2. \A i \in (n + 1)..Len(log) : log[i].type \in Permitted \union {"recovery", "loop-result"}
  BY <1>1, TokenHolds
<1>3. \A i \in (n + 1)..Len(log) : log[i].type \notin {"recovery", "loop-result"}
  <2>1. OfType(log, "recovery") = {}
    BY NoRecovery DEF OnItsOwn
  <2>. QED  BY <1>1, <2>1 DEF OfType
<1>4. OfType(log, "plan") \subseteq 1..Len(log)
  BY <1>1 DEF OfType
<1>5. Alone(log, Len(log))
  <2>1. SUFFICES ASSUME NEW p \in OfType(log, "plan"), NEW i \in p..Len(log)
                 PROVE  log[i].type \in Permitted
    BY DEF Alone
  <2>2. CASE i <= n
    BY <1>1, <1>4, <2>2 DEF Alone
  <2>3. CASE i > n
    <3>1. i \in (n + 1)..Len(log)
      BY <1>1, <1>4, <2>3
    <3>. QED  BY <1>2, <1>3, <3>1
  <2>4. i \in Nat
    BY <1>4
  <2>. QED  BY <1>1, <2>2, <2>3, <2>4
<1>6. Len(log) \in 1..Len(log)
  BY <1>1
<1>. QED  BY <1>5, <1>6 DEF OnItsOwn

\* Of a tool whose outcome was not observed, a token that holds tells there is no
\* effect beyond it.
LEMMA NoEffectBeyond ==
    ASSUME IsLedger(log), NEW n \in 0..Len(log), PermittedSince(n),
           OfType(log, "tool-observed") = {}, \A e \in EffectsOf(log) : n < e
    PROVE  EffectsOf(log) = {}
<1>0. DOMAIN log = 1..Len(log) /\ Len(log) \in Nat
  BY LedgerFacts
<1>1. OfType(log, "asserted") = {}
  <2>1. SUFFICES ASSUME NEW a \in OfType(log, "asserted") PROVE FALSE
    OBVIOUS
  <2>2. a \in Nat /\ n < a
    BY <1>0 DEF OfType, EffectsOf
  <2>3. a \in AssertedSince(n)
    BY <2>2 DEF AssertedSince
  <2>4. CatalogChain(a)
    BY <2>3 DEF PermittedSince
  <2>5. a + 1 \in OfType(log, "tool-observed")
    BY <1>0, <2>2, <2>4, ChainTypes DEF OfType
  <2>. QED  BY <2>5
<1>2. OfType(log, "effect") = {}
  <2>1. SUFFICES ASSUME NEW a \in OfType(log, "effect") PROVE FALSE
    OBVIOUS
  <2>2. a \in 1..Len(log) /\ n < a /\ log[a].type = "effect"
    BY <1>0 DEF OfType, EffectsOf
  <2>3. a \in (n + 1)..Len(log)
    BY <2>2
  <2>4. log[a].type \in Permitted \union {"recovery", "loop-result"}
    BY <2>3, TokenHolds
  <2>. QED  BY <2>2, <2>4 DEF Permitted, LoopRecord, ToolRecord
<1>. QED  BY <1>1, <1>2 DEF EffectsOf

LEMMA OwnRecorded ==
    ASSUME NEW s, NEW t, NEW e, Gains(s, t, e), e.type \in {"observation", "tool-step"},
           OnItsOwn(s, Len(s))
    PROVE  OnItsOwn(t, Len(s) + 1)
<1>1. /\ OfType(t, "plan") = OfType(s, "plan")
      /\ OfType(t, "loop-result") = OfType(s, "loop-result")
      /\ OfType(t, "checkpoint") = OfType(s, "checkpoint")
      /\ Len(s) \in Nat /\ Len(t) = Len(s) + 1 /\ t[Len(s) + 1] = e
      /\ \A i \in 1..Len(s) : t[i] = s[i]
      /\ OfType(s, "plan") \subseteq 1..Len(s)
  BY DEF Gains
<1>2. e.type \in Permitted
  BY DEF Permitted, LoopRecord
<1>3. \A p \in OfType(s, "plan") : \A i \in p..(Len(s) + 1) :
        (i \in p..Len(s) /\ t[i] = s[i]) \/ i = Len(s) + 1
  BY <1>1
<1>4. Alone(t, Len(s) + 1)
  BY <1>1, <1>2, <1>3 DEF Alone, OnItsOwn
<1>5. Len(s) + 1 \in 1..Len(t)
  BY <1>1
<1>. QED  BY <1>1, <1>4, <1>5 DEF OnItsOwn

----------------------------------------------------------------------------
(* The loop: steps that keep what is held.                                 *)

LEMMA HolderPlanned ==
    ASSUME NEW s, NEW k, LoopFits(s, k), Holder(k)
    PROVE  OfType(s, "plan") # {}
BY DEF LoopFits, Holder, RunsWell, OnItsOwn, SuspendsWell

LEMMA LoopKept ==
    ASSUME Formed, LoopsHeld, NEW c \in Caller, NEW m, call' = [call EXCEPT ![c] = m],
           Extends(log, log'), LoopLedger(log'), LoopFits(log', m),
           Holder(m) => Holder(call[c]) \/ OfType(log, "plan") = {},
           \A i \in Since(log, log') : log'[i].type \in Guarded =>
                Holder(call[c]) \/ OfType(log, "plan") = {}
    PROVE  LoopsHeld'
<1>1. call'[c] = m /\ \A d \in Caller : d # c => call'[d] = call[d]
  BY DEF Formed
<1>2. \A d \in Caller : LoopFits(log, call[d])
  BY DEF LoopsHeld
<1>3. \A a, b \in Caller : Holder(call[a]) /\ Holder(call[b]) => a = b
  BY DEF LoopsHeld
<1>4. ASSUME NEW d \in Caller, d # c
      PROVE  LoopFits(log', call'[d])
  <2>1. Holder(call[d]) => \A i \in Since(log, log') : log'[i].type \notin Guarded
    BY <1>2, <1>3, <1>4, HolderPlanned
  <2>. QED  BY <1>1, <1>2, <1>4, <2>1, FitsOn
<1>5. ASSUME NEW a \in Caller, NEW b \in Caller, Holder(call'[a]), Holder(call'[b])
      PROVE  a = b
  <2>1. CASE a = c /\ b # c
    BY <1>1, <1>2, <1>3, <1>5, <2>1, HolderPlanned
  <2>2. CASE a # c /\ b = c
    BY <1>1, <1>2, <1>3, <1>5, <2>2, HolderPlanned
  <2>3. CASE a # c /\ b # c
    BY <1>1, <1>3, <1>5, <2>3
  <2>. QED  BY <2>1, <2>2, <2>3
<1>6. \A d \in Caller : LoopFits(log', call'[d])
  BY <1>1, <1>4
<1>7. \A a, b \in Caller : Holder(call'[a]) /\ Holder(call'[b]) => a = b
  BY <1>5
<1>. QED  BY <1>6, <1>7 DEF LoopsHeld, LoopFits, LoopLedger, Holder, Running, Suspending, InPrefix

LEMMA LoopQuiet ==
    ASSUME Formed, LoopsHeld, NEW c \in Caller, NEW m, call' = [call EXCEPT ![c] = m],
           log' = log, LoopFits(log, m),
           Holder(m) => Holder(call[c]) \/ OfType(log, "plan") = {}
    PROVE  LoopsHeld'
<1>1. Extends(log, log') /\ Since(log, log') = {}
  BY ExtendsItself DEF Formed
<1>2. LoopLedger(log') /\ LoopFits(log', m)
  BY DEF LoopsHeld
<1>. QED  BY <1>1, <1>2, LoopKept

LEMMA LoopJoins ==
    ASSUME Formed, LoopsHeld, NEW c \in Caller, NEW m, call' = [call EXCEPT ![c] = m],
           NEW e, Gains(log, log', e), LoopLedger(log'), LoopFits(log', m),
           Holder(m) => Holder(call[c]) \/ OfType(log, "plan") = {},
           e.type \in Guarded => Holder(call[c]) \/ OfType(log, "plan") = {}
    PROVE  LoopsHeld'
<1>1. Extends(log, log') /\ \A i \in Since(log, log') : log'[i] = e
  BY DEF Gains
<1>. QED  BY <1>1, LoopKept

LEMMA BesideLoop ==
    ASSUME Formed, LoopsHeld, NEW c \in Caller, Beside(c, LoopTypes, {"loop"})
    PROVE  LoopsHeld'
<1> DEFINE m == call'[c]
<1>1. /\ call' = [call EXCEPT ![c] = m] /\ Extends(log, log')
      /\ \A i \in Since(log, log') : log'[i].type \notin LoopTypes
      /\ m.op # "loop" /\ (m.op = "send" => m.event.type \notin LoopTypes)
  BY DEF Beside
<1>. HIDE DEF m
<1>2. LoopLedger(log')
  BY <1>1, LedgerApart DEF LoopsHeld
<1>3. ~Holder(m) /\ LoopFits(log', m)
  BY <1>1 DEF Holder, Running, Suspending, InPrefix, LoopFits
<1>4. \A i \in Since(log, log') : log'[i].type \notin Guarded
  <2>1. Guarded \subseteq LoopTypes
    BY DEF Guarded, LoopTypes, LoopRecord, ToolRecord
  <2>. QED  BY <1>1, <2>1
<1>. QED  BY <1>1, <1>2, <1>3, <1>4, LoopKept

\* A call that is at rest, or gone.
AtRest(k) ==
    \/ k.op = "loop" /\ k.at \in {"rest", "ready", "eligible", "rereading", "reread", "reclaim"}
    \/ k.op \notin {"loop", "send"}

LEMMA RestFits ==
    ASSUME NEW s, NEW k, AtRest(k)
    PROVE  LoopFits(s, k) /\ ~Holder(k)
BY DEF AtRest, LoopFits, TakesWell, Taking, Holder, Running, Suspending, InPrefix, Places,
       Unclaimeds

LEMMA LoopRests ==
    ASSUME Formed, LoopsHeld, NEW c \in Caller, NEW m, call' = [call EXCEPT ![c] = m],
           log' = log, AtRest(m)
    PROVE  LoopsHeld'
BY RestFits, LoopQuiet

LEMMA RestsAre ==
    ASSUME Formed, NEW c \in Caller, call[c].op = "loop"
    PROVE  AtRest(Resting(call[c])) /\ AtRest([Resting(call[c]) EXCEPT !.gate = 0]) /\ AtRest(Idle)
<1>1. LoopGoes(call[c])
  BY LoopIs
<1>. QED  BY <1>1 DEF LoopGoes, LoopFields, Resting, AtRest, Idle

LEMMA HolderAt ==
    ASSUME LoopsHeld, NEW c \in Caller, call[c].op = "loop", call[c].at \in Places
    PROVE  Running(call[c]) /\ Holder(call[c]) /\ RunsWell(log, call[c])
BY DEF LoopsHeld, LoopFits, Holder, Running

LEMMA RunFits ==
    ASSUME NEW s, NEW k, k.op = "loop", k.at \in Places, RunsWell(s, k)
    PROVE  LoopFits(s, k)
BY DEF LoopFits, TakesWell, Taking, Running, Suspending, InPrefix, Places, Unclaimeds

\* Where an operation of the gateway may fail.
GatewayPlaces ==
    {"requesting", "execute", "claiming", "claimed", "invoking", "acted", "observing", "observed",
     "completing"}

LEMMA PlacesAre ==
    /\ Unclaimeds \subseteq Places /\ GatewayPlaces \subseteq Places
    /\ {"executed", "failed", "step", "final", "end", "result"} \subseteq Places
BY DEF Places, Unclaimeds, GatewayPlaces

LEMMA FailsWell ==
    ASSUME NEW s, NEW k, RunsWell(s, k), k.at \in GatewayPlaces,
           NEW m, m.seen = k.seen, m.at = "failed"
    PROVE  RunsWell(s, m)
<1>1. OnItsOwn(s, m.seen)
  BY DEF RunsWell
<1>2. \A e \in EffectsOf(s) : m.seen < e
  BY DEF RunsWell, GatewayPlaces, Unclaimeds
<1>. QED  BY <1>1, <1>2 DEF RunsWell, Unclaimeds

\* The places on either side of a gateway's check.
Checked ==
    {<<"request", "requesting">>, <<"execute", "claiming">>, <<"claimed", "invoking">>,
     <<"acted", "observing">>, <<"observed", "completing">>}

LEMMA ChecksWell ==
    ASSUME NEW s, NEW k, RunsWell(s, k), NEW m, m.seen = k.seen, m.kind = k.kind,
           <<k.at, m.at>> \in Checked
    PROVE  RunsWell(s, m)
BY DEF RunsWell, Checked, Unclaimeds

LEMMA OpensHeld ==
    ASSUME Formed, LoopsHeld, NEW c \in Caller, NEW from, NEW at, NEW otherwise,
           Opens(c, from, at, otherwise), <<from, at>> \in Checked,
           otherwise = "rest" \/ (otherwise = "failed" /\ from \in GatewayPlaces)
    PROVE  LoopsHeld'
<1> DEFINE k == call[c]
           m == [k EXCEPT !.at = at]
           n == [k EXCEPT !.at = otherwise, !.gate = 0]
           r == [Resting(k) EXCEPT !.gate = 0]
<1>1. k.op = "loop" /\ k.at = from /\ log' = log
  BY DEF Opens, LoopAt
<1>2. \/ call' = [call EXCEPT ![c] = m]
      \/ otherwise = "rest" /\ call' = [call EXCEPT ![c] = r]
      \/ otherwise # "rest" /\ call' = [call EXCEPT ![c] = n]
  BY DEF Opens
<1>3. from \in Places /\ at \in Places
  BY PlacesAre DEF Checked, Places, Unclaimeds
<1>4. Running(k) /\ Holder(k) /\ RunsWell(log, k)
  BY <1>1, <1>3, HolderAt
<1>5. LoopGoes(k)
  BY <1>1, LoopIs
<1>6. m.op = "loop" /\ m.at = at /\ m.seen = k.seen /\ m.kind = k.kind
  BY <1>5 DEF LoopGoes, LoopFields
<1>7. n.op = "loop" /\ n.at = otherwise /\ n.seen = k.seen
  BY <1>5 DEF LoopGoes, LoopFields
<1>8. AtRest(r)
  BY <1>1, RestsAre
<1>. HIDE DEF k, m, n, r
<1>9. LoopFits(log, m)
  BY <1>1, <1>3, <1>4, <1>6, ChecksWell, RunFits
<1>10. otherwise # "rest" => LoopFits(log, n)
  BY <1>1, <1>4, <1>7, FailsWell, RunFits, PlacesAre
<1>. QED  BY <1>1, <1>2, <1>4, <1>8, <1>9, <1>10, LoopQuiet, LoopRests DEF k

\* A loop that is elsewhere, and has seen what it had.
SameRun(k, m) == m.op = "loop" /\ m.seen = k.seen /\ m.kind = k.kind /\ m.outcome = k.outcome

LEMMA ToolAppendsHeld ==
    ASSUME Formed, LoopsHeld, NEW c \in Caller, NEW from \in GatewayPlaces, NEW expected,
           NEW type, NEW at \in Places, ToolAppends(c, from, expected, type, at),
           ASSUME StreamLength(log, ToolStream) = expected,
                  Gains(log, log', ToolEvent(type, call[c])),
                  RunsWell(log, call[c])
           PROVE  /\ LoopLedger(log')
                  /\ \A m : SameRun(call[c], m) /\ m.at = at => RunsWell(log', m)
    PROVE  LoopsHeld'
<1> DEFINE k == call[c]
           e == ToolEvent(type, k)
           m == [k EXCEPT !.at = at, !.gate = Len(log) + 1]
           n == [k EXCEPT !.at = "failed", !.gate = Len(log)]
<1>1. k.op = "loop" /\ k.at = from
  BY DEF ToolAppends, LoopAt
<1>2. Running(k) /\ Holder(k) /\ RunsWell(log, k)
  BY <1>1, HolderAt, PlacesAre
<1>3. LoopGoes(k)
  BY <1>1, LoopIs
<1>4. SameRun(k, m) /\ m.at = at
  BY <1>3 DEF LoopGoes, LoopFields, SameRun
<1>5. n.op = "loop" /\ n.at = "failed" /\ n.seen = k.seen
  BY <1>3 DEF LoopGoes, LoopFields
<1>6. \/ /\ StreamLength(log, ToolStream) = expected
         /\ log' = Append(log, e) /\ call' = [call EXCEPT ![c] = m]
      \/ log' = log /\ call' = [call EXCEPT ![c] = n]
  BY DEF ToolAppends
<1>. HIDE DEF m, n
<1>7. CASE log' = log /\ call' = [call EXCEPT ![c] = n]
  <2>1. LoopFits(log, n)
    BY <1>1, <1>2, <1>5, FailsWell, RunFits, PlacesAre
  <2>. QED  BY <1>2, <1>7, <2>1, LoopQuiet
<1>8. CASE /\ StreamLength(log, ToolStream) = expected
           /\ log' = Append(log, e) /\ call' = [call EXCEPT ![c] = m]
  <2>1. Gains(log, log', e)
    BY <1>8, Appended DEF Formed
  <2>2. LoopLedger(log') /\ RunsWell(log', m)
    BY <1>2, <1>4, <1>8, <2>1
  <2>3. LoopFits(log', m)
    BY <1>4, <2>2, RunFits DEF SameRun
  <2>. HIDE DEF k, e
  <2>. QED  BY <1>2, <1>8, <2>1, <2>2, <2>3, LoopJoins DEF k
<1>. QED  BY <1>6, <1>7, <1>8

\* The loop's own append.  It goes on if its check, which comes after, holds.
LEMMA LoopAppendsHeld ==
    ASSUME Formed, LoopsHeld, NEW c \in Caller, NEW e, NEW at \in Places \union {"rest"},
           LoopAppends(c, e, at), call[c].op = "loop",
           Holder(call[c]) \/ OfType(log, "plan") = {},
           ASSUME Gains(log, log', e)
           PROVE  LoopLedger(log'),
           ASSUME PermittedSince(call[c].seen), Gains(log, log', e), at # "rest"
           PROVE  \A m : /\ m.op = "loop" /\ m.at = at /\ m.seen = Len(log) + 1
                         /\ m.kind = call[c].kind /\ m.outcome = call[c].outcome
                         => RunsWell(log', m)
    PROVE  LoopsHeld'
<1> DEFINE k == call[c]
           m == [k EXCEPT !.at = at, !.seen = Len(log) + 1]
<1>1. LoopGoes(k)
  BY LoopIs
<1>2. m.op = "loop" /\ m.at = at /\ m.seen = Len(log) + 1 /\ m.kind = k.kind /\ m.outcome = k.outcome
  BY <1>1 DEF LoopGoes, LoopFields
<1>3. /\ log' = Append(log, e)
      /\ \/ PermittedSince(k.seen) /\ call' = [call EXCEPT ![c] = m]
         \/ call' = [call EXCEPT ![c] = Resting(k)]
  BY DEF LoopAppends
<1>. HIDE DEF m
<1>4. Gains(log, log', e)
  BY <1>3, Appended DEF Formed
<1>5. LoopLedger(log')
  BY <1>4
<1>6. CASE call' = [call EXCEPT ![c] = Resting(k)]
  <2>1. LoopFits(log', Resting(k)) /\ ~Holder(Resting(k))
    BY RestsAre, RestFits
  <2>. HIDE DEF k
  <2>. QED  BY <1>4, <1>5, <1>6, <2>1, LoopJoins DEF k
<1>7. CASE PermittedSince(k.seen) /\ call' = [call EXCEPT ![c] = m]
  <2>1. at # "rest" => RunsWell(log', m)
    BY <1>2, <1>4, <1>7
  <2>2. LoopFits(log', m)
    <3>1. CASE at = "rest"
      BY <1>2, <3>1, RestFits DEF AtRest
    <3>2. CASE at # "rest"
      BY <1>2, <2>1, <3>2, RunFits
    <3>. QED  BY <3>1, <3>2
  <2>. HIDE DEF k
  <2>. QED  BY <1>4, <1>5, <1>7, <2>2, LoopJoins DEF k
<1>. QED  BY <1>3, <1>6, <1>7

\* The loop's check after the gateway's call.
LEMMA GoesHeld ==
    ASSUME Formed, LoopsHeld, NEW c \in Caller, NEW from, NEW k, Goes(c, from, k), from \in Places,
           call[c].op = "loop" => LoopGoes(k),
           ASSUME OnItsOwn(log, Len(log)), RunsWell(log, call[c]), k.at # "rest"
           PROVE  /\ k.at \in Places
                  /\ \A m : /\ m.op = "loop" /\ m.at = k.at /\ m.seen = Len(log)
                            /\ m.kind = k.kind /\ m.outcome = k.outcome
                            => RunsWell(log, m)
    PROVE  LoopsHeld'
<1> DEFINE m == [k EXCEPT !.seen = Len(log)]
<1>1. call[c].op = "loop" /\ call[c].at = from /\ log' = log
  BY DEF Goes, LoopAt
<1>2. Holder(call[c]) /\ RunsWell(log, call[c])
  BY <1>1, HolderAt
<1>3. /\ m.op = "loop" /\ m.at = k.at /\ m.seen = Len(log) /\ m.kind = k.kind
      /\ m.outcome = k.outcome
  BY <1>1 DEF LoopGoes, LoopFields
<1>4. \/ /\ PermittedSince(call[c].seen) /\ k.at # "rest"
         /\ call' = [call EXCEPT ![c] = m]
      \/ call' = [call EXCEPT ![c] = Resting(call[c])]
  BY DEF Goes
<1>. HIDE DEF m
<1>5. CASE call' = [call EXCEPT ![c] = Resting(call[c])]
  BY <1>1, <1>5, RestsAre, LoopRests
<1>6. CASE PermittedSince(call[c].seen) /\ k.at # "rest" /\ call' = [call EXCEPT ![c] = m]
  <2>1. OnItsOwn(log, call[c].seen)
    BY <1>2 DEF RunsWell
  <2>2. OnItsOwn(log, Len(log))
    BY <1>6, <2>1, OwnGoesOn DEF Formed, LoopsHeld
  <2>3. k.at \in Places /\ RunsWell(log, m)
    BY <1>2, <1>3, <1>6, <2>2
  <2>4. LoopFits(log, m)
    BY <1>3, <2>3, RunFits
  <2>. QED  BY <1>1, <1>2, <1>6, <2>4, LoopQuiet
<1>. QED  BY <1>4, <1>5, <1>6

----------------------------------------------------------------------------
(* The loop: its steps, one by one.                                        *)

LEMMA BindHeld ==
    ASSUME Formed, LoopsHeld, NEW c \in Caller, BindLoop(c)
    PROVE  LoopsHeld'
<1>1. PICK kind : call' = [call EXCEPT ![c] =
                [op |-> "loop", at |-> "ready", kind |-> kind, seen |-> Len(log),
                 gate |-> Len(log), base |-> 0, effect |-> 0, outcome |-> "none"]]
  BY DEF BindLoop
<1>2. log' = log
  BY DEF BindLoop
<1>. QED  BY <1>1, <1>2, LoopRests DEF AtRest

LEMMA AdvanceHeld ==
    ASSUME Formed, LoopsHeld, NEW c \in Caller, AdvanceLoop(c)
    PROVE  LoopsHeld'
<1> DEFINE e == LoopEvent("plan")
<1>1. call[c].op = "loop"
  BY DEF AdvanceLoop, LoopAt
<1>2. CASE Rests(c)
  BY <1>1, <1>2, RestsAre, LoopRests DEF Rests
<1>3. CASE OfType(log, "plan") = {} /\ LoopAppends(c, e, "observe")
  <2>1. ASSUME Gains(log, log', e)
        PROVE  /\ LoopLedger(log')
               /\ \A m : m.at = "observe" /\ m.seen = Len(log) + 1 => RunsWell(log', m)
    <3>0. e.type = "plan"
      BY DEF LoopEvent
    <3>. HIDE DEF e
    <3>1. LoopLedger(log')
      BY <1>3, <2>1, <3>0, PlanJoins DEF LoopsHeld
    <3>2. /\ OfType(log, "loop-result") = {} /\ OfType(log, "checkpoint") = {}
          /\ OfType(log, "tool-claimed") = {} /\ EffectsOf(log) = {}
      BY <1>3 DEF LoopsHeld, LoopLedger, PlanIsFirst
    <3>3. /\ OfType(log', "loop-result") = {} /\ OfType(log', "checkpoint") = {}
          /\ OfType(log', "tool-claimed") = {} /\ EffectsOf(log') = {}
      BY <2>1, <3>0, <3>2 DEF Gains, EffectsOf
    <3>4. OfType(log', e.type) = {Len(log) + 1} /\ log'[Len(log) + 1] = e
          /\ Len(log) \in Nat /\ Len(log') = Len(log) + 1
      BY <1>3, <2>1, <3>0 DEF Gains
    <3>5. Alone(log', Len(log) + 1)
      BY <3>0, <3>4 DEF Alone, Permitted, LoopRecord
    <3>6. OnItsOwn(log', Len(log) + 1)
      BY <3>0, <3>3, <3>4, <3>5 DEF OnItsOwn
    <3>. QED  BY <3>1, <3>3, <3>6 DEF RunsWell, Unclaimeds
  <2>2. "observe" \in Places
    BY DEF Places, Unclaimeds
  <2>. HIDE DEF e
  <2>. QED  BY <1>1, <1>3, <2>1, <2>2, LoopAppendsHeld
<1>. QED  BY <1>2, <1>3 DEF AdvanceLoop

\* A record of the run's course, and the loop goes on.
LEMMA RecordGoesOn ==
    ASSUME Formed, LoopsHeld, NEW c \in Caller, NEW e, e.type \in {"observation", "tool-step"},
           NEW at, LoopAppends(c, e, at), call[c].op = "loop",
           \/ call[c].at = "observe" /\ at = "request"
           \/ call[c].at = "step" /\ at = "final"
           \/ call[c].at = "final" /\ at = "end"
    PROVE  LoopsHeld'
<1>0. call[c].at \in Places /\ at \in Places
  BY PlacesAre DEF Places, Unclaimeds
<1>1. Holder(call[c]) /\ RunsWell(log, call[c])
  BY <1>0, HolderAt
<1>3. ASSUME Gains(log, log', e)
      PROVE  LoopLedger(log')
  BY <1>1, <1>3, RecordJoins DEF LoopsHeld, RunsWell, OnItsOwn
<1>2. ASSUME PermittedSince(call[c].seen), Gains(log, log', e)
      PROVE  \A m : /\ m.op = "loop" /\ m.at = at /\ m.seen = Len(log) + 1
                    /\ m.kind = call[c].kind /\ m.outcome = call[c].outcome
                    => RunsWell(log', m)
  <2>2. OnItsOwn(log, Len(log))
    BY <1>1, <1>2, OwnGoesOn DEF RunsWell, Formed, LoopsHeld
  <2>3. OnItsOwn(log', Len(log) + 1)
    BY <1>2, <2>2, OwnRecorded
  <2>4. /\ OfType(log', "tool-claimed") = OfType(log, "tool-claimed")
        /\ OfType(log', "tool-observed") = OfType(log, "tool-observed")
        /\ OfType(log', "tool-completed") = OfType(log, "tool-completed")
        /\ EffectsOf(log') = EffectsOf(log)
    BY <1>2 DEF Gains, EffectsOf
  <2>5. Told(log, call[c].outcome) => Told(log', call[c].outcome)
    BY <2>4 DEF Told, SaysTrue
  <2>6. SUFFICES ASSUME NEW m, m.at = at, m.seen = Len(log) + 1, m.outcome = call[c].outcome
                 PROVE  RunsWell(log', m)
    OBVIOUS
  <2>. QED  BY <1>1, <2>3, <2>4, <2>5, <2>6 DEF RunsWell, Unclaimeds
<1>. QED  BY <1>0, <1>1, <1>2, <1>3, LoopAppendsHeld

LEMMA ObserveHeld ==
    ASSUME Formed, LoopsHeld, NEW c \in Caller, ObserveContext(c) \/ RecordTool(c)
    PROVE  LoopsHeld'
<1>1. LoopEvent("observation").type = "observation"
      /\ \A o : [type |-> "tool-step", stream |-> LoopStream, outcome |-> o].type = "tool-step"
  BY DEF LoopEvent
<1>2. CASE ObserveContext(c)
  BY <1>1, <1>2, RecordGoesOn DEF ObserveContext, LoopAt
<1>3. CASE RecordTool(c)
  <2>1. CASE /\ LoopAt(c, "step")
             /\ LoopAppends(c, [type |-> "tool-step", stream |-> LoopStream,
                                outcome |-> call[c].outcome], "final")
    BY <1>1, <2>1, RecordGoesOn DEF LoopAt
  <2>2. CASE LoopAt(c, "final") /\ LoopAppends(c, LoopEvent("observation"), "end")
    BY <1>1, <2>2, RecordGoesOn DEF LoopAt
  <2>. QED  BY <1>3, <2>1, <2>2 DEF RecordTool
<1>. QED  BY <1>2, <1>3

\* What an event of the tool leaves as it was.
LeavesTheRun(s, t, type, k, m) ==
    /\ OnItsOwn(t, m.seen) /\ EffectsOf(t) = EffectsOf(s)
    /\ \A other : other # type => OfType(t, other) = OfType(s, other)
    /\ OfType(t, type) = OfType(s, type) \union {Len(s) + 1}
    /\ t[Len(s) + 1].kind = k.kind

LEMMA ToolGains ==
    ASSUME NEW s, NEW t, NEW type \in ToolRecord, NEW k, Gains(s, t, ToolEvent(type, k)),
           RunsWell(s, k), NEW m, SameRun(k, m)
    PROVE  LeavesTheRun(s, t, type, k, m)
<1> DEFINE e == ToolEvent(type, k)
<1>1. e.type = type /\ e.kind = k.kind
  BY DEF ToolEvent
<1>2. type \notin {"plan", "loop-result", "checkpoint", "asserted", "effect"}
  BY DEF ToolRecord
<1>. HIDE DEF e
<1>3. /\ Extends(s, t) /\ \A i \in Since(s, t) : t[i] = e
      /\ \A other : other # type => OfType(t, other) = OfType(s, other)
      /\ OfType(t, e.type) = OfType(s, e.type) \union {Len(s) + 1}
      /\ t[Len(s) + 1] = e
  BY <1>1 DEF Gains, e
<1>4. OnItsOwn(t, m.seen)
  BY <1>1, <1>2, <1>3, OwnStays DEF RunsWell, SameRun
<1>5. EffectsOf(t) = EffectsOf(s)
  BY <1>2, <1>3 DEF EffectsOf
<1>. QED  BY <1>1, <1>3, <1>4, <1>5 DEF LeavesTheRun

LEMMA RequestedWell ==
    ASSUME NEW s, NEW t, NEW k, NEW m, Gains(s, t, ToolEvent("tool-requested", k)),
           RunsWell(s, k), k.at = "requesting", SameRun(k, m), m.at = "requested"
    PROVE  RunsWell(t, m)
<1>1. "tool-requested" \in ToolRecord
  BY DEF ToolRecord
<1>0. LeavesTheRun(s, t, "tool-requested", k, m)
  BY <1>1, ToolGains
<1>2. /\ OnItsOwn(t, m.seen) /\ EffectsOf(t) = EffectsOf(s)
      /\ OfType(t, "tool-claimed") = OfType(s, "tool-claimed")
      /\ OfType(t, "tool-requested") = OfType(s, "tool-requested") \union {Len(s) + 1}
      /\ t[Len(s) + 1].kind = k.kind
  BY <1>0 DEF LeavesTheRun
<1>3. OfType(t, "tool-claimed") = {} /\ EffectsOf(t) = {}
  BY <1>2 DEF RunsWell, Unclaimeds
<1>4. \E r \in OfType(t, "tool-requested") : t[r].kind = m.kind
  BY <1>2 DEF SameRun
<1>. QED  BY <1>2, <1>3, <1>4 DEF RunsWell, Unclaimeds

LEMMA RequestHeld ==
    ASSUME Formed, LoopsHeld, NEW c \in Caller, RequestTool(c)
    PROVE  LoopsHeld'
<1>1. CASE Opens(c, "request", "requesting", "rest")
  BY <1>1, OpensHeld DEF Checked
<1>2. CASE ToolAppends(c, "requesting", 0, "tool-requested", "requested")
  <2> DEFINE k == call[c]
             e == ToolEvent("tool-requested", k)
  <2>1. k.at = "requesting"
    BY <1>2 DEF ToolAppends, LoopAt
  <2>2. ASSUME StreamLength(log, ToolStream) = 0, Gains(log, log', e), RunsWell(log, k)
        PROVE  /\ LoopLedger(log')
               /\ \A m : SameRun(k, m) /\ m.at = "requested" => RunsWell(log', m)
    <3>1. e.type = "tool-requested" /\ e.stream = ToolStream
      BY DEF ToolEvent
    <3>2. LoopLedger(log')
      BY <2>2, <3>1, RequestJoins DEF LoopsHeld
    <3>3. \A m : SameRun(k, m) /\ m.at = "requested" => RunsWell(log', m)
      BY <2>1, <2>2, RequestedWell
    <3>. QED  BY <3>2, <3>3
  <2>3. "requesting" \in GatewayPlaces /\ "requested" \in Places
    BY DEF GatewayPlaces, Places, Unclaimeds
  <2>. HIDE DEF k
  <2>. QED  BY <1>2, <2>2, <2>3, ToolAppendsHeld DEF k
<1>. QED  BY <1>1, <1>2 DEF RequestTool

LEMMA CheckRequestHeld ==
    ASSUME Formed, LoopsHeld, NEW c \in Caller, CheckRequest(c)
    PROVE  LoopsHeld'
<1> DEFINE k == [call[c] EXCEPT !.at = IF call[c].kind = "human" THEN "decide" ELSE "execute"]
<1>1. Goes(c, "requested", k) /\ call[c].op = "loop" /\ call[c].at = "requested"
  BY DEF CheckRequest, Goes, LoopAt
<1>2. LoopGoes(call[c])
  BY <1>1, LoopIs
<1>3. LoopGoes(k) /\ k.kind = call[c].kind
      /\ k.at = IF call[c].kind = "human" THEN "decide" ELSE "execute"
  BY <1>2 DEF LoopGoes, LoopFields
<1>4. k.at \in Places /\ "requested" \in Places
  BY <1>3 DEF Places, Unclaimeds
<1>. HIDE DEF k
<1>5. ASSUME OnItsOwn(log, Len(log)), RunsWell(log, call[c]),
             NEW m, m.at = k.at, m.seen = Len(log), m.kind = k.kind
      PROVE  RunsWell(log, m)
  BY <1>1, <1>3, <1>5 DEF RunsWell, Unclaimeds
<1>. QED  BY <1>1, <1>3, <1>4, <1>5, GoesHeld

LEMMA DecisionHeld ==
    ASSUME Formed, LoopsHeld, NEW c \in Caller, ReadDecision(c)
    PROVE  LoopsHeld'
<1> DEFINE k(at) == [call[c] EXCEPT !.gate = Len(log), !.at = at]
           l(at) == [call[c] EXCEPT !.outcome = "waiting", !.gate = Len(log), !.at = at]
<1>1. ASSUME call[c].op = "loop"
      PROVE  \A at : /\ LoopGoes(k(at)) /\ k(at).at = at /\ k(at).kind = call[c].kind
                     /\ k(at).outcome = call[c].outcome
                     /\ LoopGoes(l(at)) /\ l(at).at = at /\ l(at).outcome = "waiting"
  <2>1. LoopGoes(call[c])
    BY <1>1, LoopIs
  <2>. QED  BY <2>1 DEF LoopGoes, LoopFields
<1>2. {"decide", "undecided", "execute", "step"} \subseteq Places
  BY DEF Places, Unclaimeds
<1>3. ASSUME NEW at, Goes(c, "decide", k(at)),
             \/ at = "execute" /\ OfType(log, "tool-approved") # {}
             \/ at \in {"rest", "undecided"}
      PROVE  LoopsHeld'
  <2>0. call[c].op = "loop" /\ call[c].at = "decide"
    BY <1>3 DEF Goes, LoopAt
  <2>1. LoopGoes(k(at)) /\ k(at).at = at /\ k(at).kind = call[c].kind
    BY <1>1, <2>0
  <2>2. ASSUME OnItsOwn(log, Len(log)), RunsWell(log, call[c]), k(at).at # "rest",
               NEW m, m.at = k(at).at, m.seen = Len(log), m.kind = k(at).kind
        PROVE  RunsWell(log, m)
    <3>1. m.at = at /\ m.kind = call[c].kind /\ at # "rest"
      BY <2>1, <2>2
    <3>. HIDE DEF k
    <3>. QED  BY <1>3, <2>0, <2>2, <3>1 DEF RunsWell, Unclaimeds
  <2>3. k(at).at # "rest" => k(at).at \in Places
    BY <1>2, <1>3, <2>1
  <2>. HIDE DEF k
  <2>. QED  BY <1>2, <1>3, <2>1, <2>2, <2>3, GoesHeld
<1>4. ASSUME NEW at \in {"step", "rest"}, Goes(c, "undecided", l(at))
      PROVE  LoopsHeld'
  <2>0. call[c].op = "loop" /\ call[c].at = "undecided"
    BY <1>4 DEF Goes, LoopAt
  <2>1. LoopGoes(l(at)) /\ l(at).at = at /\ l(at).outcome = "waiting"
    BY <1>1, <2>0
  <2>2. ASSUME OnItsOwn(log, Len(log)), RunsWell(log, call[c]), l(at).at # "rest",
               NEW m, m.at = l(at).at, m.seen = Len(log), m.outcome = l(at).outcome
        PROVE  RunsWell(log, m)
    <3>1. m.at = "step" /\ m.outcome = "waiting"
      BY <2>1, <2>2
    <3>. HIDE DEF l
    <3>2. OfType(log, "tool-claimed") = {}
      BY <2>0, <2>2 DEF RunsWell, Unclaimeds
    <3>3. Told(log, m.outcome)
      BY <3>1, <3>2 DEF Told, SaysTrue
    <3>. QED  BY <2>2, <3>1, <3>3 DEF RunsWell, Unclaimeds
  <2>3. l(at).at # "rest" => l(at).at \in Places
    BY <1>2, <2>1
  <2>. HIDE DEF l
  <2>. QED  BY <1>2, <1>4, <2>1, <2>2, <2>3, GoesHeld
<1>5. \/ \E at : /\ Goes(c, "decide", k(at))
                 /\ \/ at = "execute" /\ OfType(log, "tool-approved") # {}
                    \/ at \in {"rest", "undecided"}
      \/ \E at \in {"step", "rest"} : Goes(c, "undecided", l(at))
  BY DEF ReadDecision
<1>. HIDE DEF k, l
<1>. QED  BY <1>3, <1>4, <1>5

LEMMA ClaimedWell ==
    ASSUME NEW s, NEW t, NEW k, NEW m, Gains(s, t, ToolEvent("tool-claimed", k)),
           RunsWell(s, k), k.at = "claiming", SameRun(k, m), m.at = "claimed",
           ToolIsOrdered(s)
    PROVE  RunsWell(t, m)
<1>1. "tool-claimed" \in ToolRecord
  BY DEF ToolRecord
<1>0. LeavesTheRun(s, t, "tool-claimed", k, m)
  BY <1>1, ToolGains
<1>2. /\ OnItsOwn(t, m.seen) /\ EffectsOf(t) = EffectsOf(s)
      /\ OfType(t, "tool-observed") = OfType(s, "tool-observed")
      /\ OfType(t, "tool-claimed") = OfType(s, "tool-claimed") \union {Len(s) + 1}
  BY <1>0 DEF LeavesTheRun
<1>3. OfType(s, "tool-claimed") = {} /\ EffectsOf(s) = {}
  BY DEF RunsWell, Unclaimeds
<1>4. OfType(s, "tool-observed") = {}
  BY <1>3 DEF ToolIsOrdered
<1>. QED  BY <1>2, <1>3, <1>4 DEF RunsWell, Unclaimeds

LEMMA ClaimHeld ==
    ASSUME Formed, LoopsHeld, NEW c \in Caller, ClaimTool(c)
    PROVE  LoopsHeld'
<1>1. CASE Opens(c, "execute", "claiming", "failed")
  BY <1>1, OpensHeld DEF Checked, GatewayPlaces
<1>2. CASE ToolAppends(c, "claiming", Unclaimed(call[c]), "tool-claimed", "claimed")
  <2> DEFINE k == call[c]
             e == ToolEvent("tool-claimed", k)
  <2>1. k.at = "claiming"
    BY <1>2 DEF ToolAppends, LoopAt
  <2>2. ASSUME StreamLength(log, ToolStream) = Unclaimed(k), Gains(log, log', e), RunsWell(log, k)
        PROVE  /\ LoopLedger(log')
               /\ \A m : SameRun(k, m) /\ m.at = "claimed" => RunsWell(log', m)
    <3>1. e.type = "tool-claimed" /\ e.stream = ToolStream
      BY DEF ToolEvent
    <3>2. /\ OfType(log, "plan") # {} /\ OfType(log, "checkpoint") = {}
          /\ OfType(log, "tool-claimed") = {}
          /\ k.kind = "human" => OfType(log, "tool-approved") # {}
      BY <2>1, <2>2 DEF RunsWell, OnItsOwn, Unclaimeds
    <3>3. PICK r \in OfType(log, "tool-requested") : log[r].kind = k.kind
      BY <2>1, <2>2 DEF RunsWell
    <3>4. \/ log[r].kind # "human" /\ StreamLength(log, ToolStream) = 1
          \/ /\ log[r].kind = "human" /\ StreamLength(log, ToolStream) = 2
             /\ OfType(log, "tool-approved") # {}
      BY <2>2, <3>2, <3>3 DEF Unclaimed
    <3>5. LoopLedger(log')
      <4>. HIDE DEF e, k
      <4>. QED  BY <2>2, <3>1, <3>2, <3>4, ClaimJoins DEF LoopsHeld
    <3>6. \A m : SameRun(k, m) /\ m.at = "claimed" => RunsWell(log', m)
      BY <2>1, <2>2, ClaimedWell DEF LoopsHeld, LoopLedger
    <3>. QED  BY <3>5, <3>6
  <2>3. "claiming" \in GatewayPlaces /\ "claimed" \in Places
    BY DEF GatewayPlaces, Places
  <2>. HIDE DEF k
  <2>. QED  BY <1>2, <2>2, <2>3, ToolAppendsHeld DEF k
<1>. QED  BY <1>1, <1>2 DEF ClaimTool

LEMMA InvokeHeld ==
    ASSUME Formed, LoopsHeld, NEW c \in Caller, InvokeTool(c)
    PROVE  LoopsHeld'
<1>1. CASE Opens(c, "claimed", "invoking", "failed")
  BY <1>1, OpensHeld DEF Checked, GatewayPlaces
<1>2. CASE ~Opens(c, "claimed", "invoking", "failed")
  <2> DEFINE e == [stream |-> EffectStream, type |->
                        IF call[c].kind = "automatic" THEN "asserted" ELSE "effect"]
  <2>1. call[c].op = "loop" /\ call[c].at = "invoking"
    BY <1>2 DEF InvokeTool, LoopAt
  <2>2. PICK acts \in BOOLEAN, returns \in BOOLEAN :
            /\ log' = IF acts THEN Append(log, e) ELSE log
            /\ call' = [call EXCEPT ![c].at = IF returns THEN "acted" ELSE "failed",
                                    ![c].effect = IF acts THEN Len(log) + 1 ELSE 0,
                                    ![c].gate = Len(log')]
    BY <1>2 DEF InvokeTool
  <2> DEFINE m == [call[c] EXCEPT !.at = IF returns THEN "acted" ELSE "failed",
                                  !.effect = IF acts THEN Len(log) + 1 ELSE 0,
                                  !.gate = Len(log')]
  <2>3. call' = [call EXCEPT ![c] = m]
    BY <2>2
  <2>4. m.op = "loop" /\ m.at \in {"acted", "failed"} /\ m.seen = call[c].seen
    <3>1. LoopGoes(call[c])
      BY <2>1, LoopIs
    <3>. QED  BY <3>1 DEF LoopGoes, LoopFields
  <2>5. e.type \in {"asserted", "effect"}
    OBVIOUS
  <2>. HIDE DEF m, e
  <2>6. Holder(call[c]) /\ RunsWell(log, call[c])
    BY <2>1, HolderAt DEF Places
  <2>7. /\ OnItsOwn(log, m.seen) /\ OfType(log, "tool-claimed") # {}
        /\ OfType(log, "tool-observed") = {} /\ EffectsOf(log) = {}
    BY <2>1, <2>4, <2>6 DEF RunsWell
  <2>8. CASE ~acts
    <3>1. RunsWell(log, m)
      BY <2>4, <2>7 DEF RunsWell, Unclaimeds
    <3>2. LoopFits(log, m)
      BY <2>4, <3>1, RunFits DEF Places
    <3>. QED  BY <2>2, <2>3, <2>6, <2>8, <3>2, LoopQuiet
  <2>9. CASE acts
    <3>1. Gains(log, log', e)
      BY <2>2, <2>9, Appended DEF Formed
    <3>2. LoopLedger(log')
      BY <2>5, <2>7, <3>1, EffectJoins DEF LoopsHeld, OnItsOwn
    <3>3. /\ OfType(log', "tool-claimed") # {} /\ OfType(log', "tool-observed") = {}
          /\ EffectsOf(log') = {Len(log) + 1}
      BY <2>5, <2>7, <3>1 DEF Gains, EffectsOf
    <3>4. OnItsOwn(log', m.seen)
      <4>1. Extends(log, log') /\ \A i \in Since(log, log') : log'[i] = e
        BY <3>1 DEF Gains
      <4>. QED  BY <2>5, <2>7, <4>1, OwnStays
    <3>5. m.seen < Len(log) + 1
      BY <2>7, <3>1 DEF OnItsOwn, Gains
    <3>6. RunsWell(log', m)
      BY <2>4, <3>3, <3>4, <3>5 DEF RunsWell, Unclaimeds
    <3>7. LoopFits(log', m)
      BY <2>4, <3>6, RunFits DEF Places
    <3>. QED  BY <2>3, <2>6, <3>1, <3>2, <3>7, LoopJoins
  <2>. QED  BY <2>8, <2>9
<1>. QED  BY <1>1, <1>2

LEMMA ObservedWell ==
    ASSUME NEW s, NEW t, NEW k, NEW m, Gains(s, t, ToolEvent("tool-observed", k)),
           RunsWell(s, k), k.at = "observing", SameRun(k, m), m.at = "observed",
           OfType(s, "tool-completed") = {}
    PROVE  RunsWell(t, m)
<1>1. "tool-observed" \in ToolRecord
  BY DEF ToolRecord
<1>0. LeavesTheRun(s, t, "tool-observed", k, m)
  BY <1>1, ToolGains
<1>2. /\ OnItsOwn(t, m.seen) /\ EffectsOf(t) = EffectsOf(s)
      /\ OfType(t, "tool-completed") = OfType(s, "tool-completed")
      /\ OfType(t, "tool-observed") = OfType(s, "tool-observed") \union {Len(s) + 1}
  BY <1>0 DEF LeavesTheRun
<1>3. \A e \in EffectsOf(s) : m.seen < e
  BY DEF RunsWell, SameRun
<1>. QED  BY <1>2, <1>3 DEF RunsWell, Unclaimeds

LEMMA CompletedWell ==
    ASSUME NEW s, NEW t, NEW k, NEW m, Gains(s, t, ToolEvent("tool-completed", k)),
           RunsWell(s, k), k.at = "completing", SameRun(k, m), m.at = "executed"
    PROVE  RunsWell(t, m)
<1>1. "tool-completed" \in ToolRecord
  BY DEF ToolRecord
<1>0. LeavesTheRun(s, t, "tool-completed", k, m)
  BY <1>1, ToolGains
<1>2. /\ OnItsOwn(t, m.seen)
      /\ OfType(t, "tool-completed") = OfType(s, "tool-completed") \union {Len(s) + 1}
  BY <1>0 DEF LeavesTheRun
<1>. QED  BY <1>2 DEF RunsWell, Unclaimeds

LEMMA OutcomeHeld ==
    ASSUME Formed, LoopsHeld, NEW c \in Caller, ObserveOutcome(c)
    PROVE  LoopsHeld'
<1>1. CASE Opens(c, "acted", "observing", "failed")
  BY <1>1, OpensHeld DEF Checked, GatewayPlaces
<1>2. CASE ToolAppends(c, "observing", Unclaimed(call[c]) + 1, "tool-observed", "observed")
  <2> DEFINE k == call[c]
             e == ToolEvent("tool-observed", k)
  <2>1. k.at = "observing"
    BY <1>2 DEF ToolAppends, LoopAt
  <2>2. ASSUME Gains(log, log', e), RunsWell(log, k)
        PROVE  /\ LoopLedger(log')
               /\ \A m : SameRun(k, m) /\ m.at = "observed" => RunsWell(log', m)
    <3>1. e.type = "tool-observed" /\ e.stream = ToolStream
      BY DEF ToolEvent
    <3>2. /\ OfType(log, "plan") # {} /\ OfType(log, "checkpoint") = {}
          /\ OfType(log, "tool-claimed") # {} /\ OfType(log, "tool-observed") = {}
      BY <2>1, <2>2 DEF RunsWell, OnItsOwn
    <3>3. OfType(log, "tool-completed") = {}
      BY <3>2 DEF LoopsHeld, LoopLedger, ToolIsOrdered
    <3>4. LoopLedger(log')
      <4>. HIDE DEF e, k
      <4>. QED  BY <2>2, <3>1, <3>2, <3>3, OutcomeJoins DEF LoopsHeld
    <3>5. \A m : SameRun(k, m) /\ m.at = "observed" => RunsWell(log', m)
      BY <2>1, <2>2, <3>3, ObservedWell
    <3>. QED  BY <3>4, <3>5
  <2>3. "observing" \in GatewayPlaces /\ "observed" \in Places
    BY DEF GatewayPlaces, Places
  <2>. HIDE DEF k
  <2>. QED  BY <1>2, <2>2, <2>3, ToolAppendsHeld DEF k
<1>. QED  BY <1>1, <1>2 DEF ObserveOutcome

\* A tool with an outcome was claimed.
LEMMA ObservedClaimed ==
    ASSUME NEW s, ToolIsOrdered(s), OfType(s, "tool-observed") # {}
    PROVE  OfType(s, "tool-claimed") # {}
BY DEF ToolIsOrdered

LEMMA CompleteHeld ==
    ASSUME Formed, LoopsHeld, NEW c \in Caller, CompleteTool(c)
    PROVE  LoopsHeld'
<1>1. CASE Opens(c, "observed", "completing", "failed")
  BY <1>1, OpensHeld DEF Checked, GatewayPlaces
<1>2. CASE ToolAppends(c, "completing", Unclaimed(call[c]) + 2, "tool-completed", "executed")
  <2> DEFINE k == call[c]
             e == ToolEvent("tool-completed", k)
  <2>1. k.at = "completing"
    BY <1>2 DEF ToolAppends, LoopAt
  <2>2. ASSUME Gains(log, log', e), RunsWell(log, k)
        PROVE  /\ LoopLedger(log')
               /\ \A m : SameRun(k, m) /\ m.at = "executed" => RunsWell(log', m)
    <3>1. e.type = "tool-completed" /\ e.stream = ToolStream
      BY DEF ToolEvent
    <3>2. /\ OfType(log, "plan") # {} /\ OfType(log, "checkpoint") = {}
          /\ OfType(log, "tool-observed") # {} /\ OfType(log, "tool-completed") = {}
      BY <2>1, <2>2 DEF RunsWell, OnItsOwn
    <3>3. OfType(log, "tool-claimed") # {}
      BY <3>2, ObservedClaimed DEF LoopsHeld, LoopLedger
    <3>4. LoopLedger(log')
      <4>. HIDE DEF e, k
      <4>. QED  BY <2>2, <3>1, <3>2, <3>3, OutcomeJoins DEF LoopsHeld
    <3>5. \A m : SameRun(k, m) /\ m.at = "executed" => RunsWell(log', m)
      BY <2>1, <2>2, CompletedWell
    <3>. QED  BY <3>4, <3>5
  <2>3. "completing" \in GatewayPlaces /\ "executed" \in Places
    BY DEF GatewayPlaces, Places
  <2>. HIDE DEF k
  <2>. QED  BY <1>2, <2>2, <2>3, ToolAppendsHeld DEF k
<1>. QED  BY <1>1, <1>2 DEF CompleteTool

LEMMA FailGatewayHeld ==
    ASSUME Formed, LoopsHeld, NEW c \in Caller, FailGateway(c)
    PROVE  LoopsHeld'
<1> DEFINE k == call[c]
           m == [k EXCEPT !.at = "failed", !.gate = Len(log)]
<1>1. /\ k.op = "loop" /\ k.at \in {"claiming", "observing", "completing"}
      /\ log' = log /\ call' = [call EXCEPT ![c] = m]
  BY DEF FailGateway, LoopAt
<1>2. k.at \in GatewayPlaces /\ k.at \in Places
  BY <1>1, PlacesAre DEF GatewayPlaces
<1>3. LoopGoes(k)
  BY <1>1, LoopIs
<1>4. m.op = "loop" /\ m.at = "failed" /\ m.seen = k.seen
  BY <1>3 DEF LoopGoes, LoopFields
<1>5. Holder(k) /\ RunsWell(log, k)
  BY <1>1, <1>2, HolderAt
<1>. HIDE DEF m
<1>6. LoopFits(log, m)
  BY <1>2, <1>4, <1>5, FailsWell, RunFits, PlacesAre
<1>. QED  BY <1>1, <1>5, <1>6, LoopQuiet

LEMMA CheckExecutionHeld ==
    ASSUME Formed, LoopsHeld, NEW c \in Caller, CheckExecution(c)
    PROVE  LoopsHeld'
<1> DEFINE k == [call[c] EXCEPT !.at = "step", !.outcome = "completed"]
<1>1. Goes(c, "executed", k) /\ call[c].op = "loop" /\ call[c].at = "executed"
  BY DEF CheckExecution, Goes, LoopAt
<1>2. LoopGoes(call[c])
  BY <1>1, LoopIs
<1>3. LoopGoes(k) /\ k.at = "step" /\ k.outcome = "completed"
  BY <1>2 DEF LoopGoes, LoopFields
<1>4. "step" \in Places /\ "executed" \in Places
  BY DEF Places
<1>. HIDE DEF k
<1>5. ASSUME OnItsOwn(log, Len(log)), RunsWell(log, call[c]),
             NEW m, m.at = k.at, m.seen = Len(log), m.outcome = k.outcome
      PROVE  RunsWell(log, m)
  <2>1. Told(log, "completed")
    BY <1>1, <1>5 DEF RunsWell, Told, SaysTrue
  <2>. QED  BY <1>3, <1>5, <2>1 DEF RunsWell, Unclaimeds
<1>. QED  BY <1>1, <1>3, <1>4, <1>5, GoesHeld

LEMMA RereadHeld ==
    ASSUME Formed, LoopsHeld, NEW c \in Caller, RereadTool(c)
    PROVE  LoopsHeld'
<1> DEFINE k == call[c]
           e == ToolEvent("tool-completed", k)
           m == [k EXCEPT !.at = "step", !.outcome = "unknown", !.seen = Len(log),
                          !.gate = Len(log)]
           last == Latest(InStream(log, ToolStream))
<1>1. k.op = "loop" /\ k.at = "failed"
  BY DEF RereadTool, LoopAt
<1>2. \/ /\ \E i \in last : log[i].type = "tool-observed"
         /\ log' = Append(log, e) /\ call' = [call EXCEPT ![c] = Resting(k)]
      \/ /\ PermittedSince(k.seen) /\ \E i \in last : log[i].type = "tool-claimed"
         /\ log' = log /\ call' = [call EXCEPT ![c] = m]
      \/ log' = log /\ call' = [call EXCEPT ![c] = Resting(k)]
  BY DEF RereadTool
<1>3. LoopGoes(k) /\ AtRest(Resting(k))
  BY <1>1, LoopIs, RestsAre
<1>4. m.op = "loop" /\ m.at = "step" /\ m.outcome = "unknown" /\ m.seen = Len(log)
  BY <1>3 DEF LoopGoes, LoopFields
<1>5. Holder(k) /\ RunsWell(log, k)
  BY <1>1, HolderAt, PlacesAre
<1>6. LoopLedger(log) /\ ToolIsOrdered(log) /\ DOMAIN log = 1..Len(log) /\ Len(log) \in Nat
  BY LedgerFacts DEF LoopsHeld, LoopLedger, Formed
<1>7. /\ OfType(log, "plan") # {} /\ OfType(log, "checkpoint") = {} /\ OnItsOwn(log, k.seen)
      /\ \A d \in EffectsOf(log) : k.seen < d
  BY <1>1, <1>5 DEF RunsWell, OnItsOwn
\* Nothing of the tool comes after the last of its stream.
<1>8. \A i \in last : i \in 1..Len(log)
        /\ \A type \in ToolRecord : \A j \in OfType(log, type) : j <= i
  BY <1>6 DEF ToolIsOrdered, ToolsOf, OfType, InStream, Latest
<1>. HIDE DEF k, m, e, last
<1>9. CASE log' = log /\ call' = [call EXCEPT ![c] = Resting(k)]
  BY <1>3, <1>9, LoopRests
<1>10. CASE /\ \E i \in last : log[i].type = "tool-observed"
            /\ log' = Append(log, e) /\ call' = [call EXCEPT ![c] = Resting(k)]
  <2>1. PICK i \in last : log[i].type = "tool-observed"
    BY <1>10
  <2>2. i \in OfType(log, "tool-observed")
    BY <1>6, <1>8, <2>1 DEF OfType
  <2>3. OfType(log, "tool-completed") = {}
    <3>1. SUFFICES ASSUME NEW d \in OfType(log, "tool-completed") PROVE FALSE
      OBVIOUS
    <3>2. d <= i /\ i <= d
      BY <1>6, <1>8, <2>2 DEF ToolIsOrdered, ToolRecord
    <3>3. d \in 1..Len(log) /\ i \in 1..Len(log) /\ log[d].type = "tool-completed"
      BY <1>6, <1>8 DEF OfType
    <3>4. d = i
      BY <1>6, <3>2, <3>3
    <3>. QED  BY <2>1, <3>3, <3>4
  <2>4. e.type = "tool-completed" /\ e.stream = ToolStream
    BY DEF e, ToolEvent
  <2>5. Gains(log, log', e)
    BY <1>10, Appended DEF Formed
  <2>6. OfType(log, "tool-claimed") # {}
    BY <1>6, <2>2, ObservedClaimed
  <2>7. LoopLedger(log')
    BY <1>6, <1>7, <2>2, <2>3, <2>4, <2>5, <2>6, OutcomeJoins
  <2>. QED  BY <1>3, <1>5, <1>10, <2>5, <2>7, RestFits, LoopJoins DEF k
<1>11. CASE /\ PermittedSince(k.seen) /\ \E i \in last : log[i].type = "tool-claimed"
            /\ log' = log /\ call' = [call EXCEPT ![c] = m]
  <2>1. PICK i \in last : log[i].type = "tool-claimed"
    BY <1>11
  <2>2. i \in OfType(log, "tool-claimed")
    BY <1>6, <1>8, <2>1 DEF OfType
  <2>3. OfType(log, "tool-observed") = {}
    <3>1. SUFFICES ASSUME NEW o \in OfType(log, "tool-observed") PROVE FALSE
      OBVIOUS
    <3>2. o \in 1..Len(log) /\ log[o].type = "tool-observed" /\ i \in 1..Len(log)
      BY <1>6, <1>8 DEF OfType
    <3>3. o <= i
      BY <1>8 DEF ToolRecord
    <3>4. o < i
      BY <1>6, <2>1, <3>2, <3>3
    <3>5. o \in ToolsOf(log)
      BY <1>6, <3>2 DEF ToolsOf, ToolRecord
    <3>6. log[o].type \in {"tool-requested", "tool-approved"}
      BY <1>6, <2>2, <3>4, <3>5 DEF ToolIsOrdered
    <3>. QED  BY <3>2, <3>6
  <2>4. k.seen \in 0..Len(log)
    BY <1>6, <1>7 DEF OnItsOwn
  <2>5. EffectsOf(log) = {}
    BY <1>7, <1>11, <2>3, <2>4, NoEffectBeyond DEF Formed
  <2>6. OnItsOwn(log, m.seen)
    BY <1>4, <1>6, <1>7, <1>11, OwnGoesOn DEF Formed
  <2>7. Told(log, m.outcome)
    BY <1>4, <2>2, <2>3, <2>5 DEF Told, SaysTrue
  <2>8. RunsWell(log, m)
    BY <1>4, <2>6, <2>7 DEF RunsWell, Unclaimeds
  <2>9. LoopFits(log, m)
    BY <1>4, <2>8, RunFits, PlacesAre
  <2>. QED  BY <1>5, <1>11, <2>9, LoopQuiet DEF k
<1>. QED  BY <1>2, <1>9, <1>10, <1>11

LEMMA ReadHandoffHeld ==
    ASSUME Formed, ChainsHeld, LoopsHeld, NEW c \in Caller, ReadHandoff(c)
    PROVE  LoopsHeld'
<1> DEFINE k == [call[c] EXCEPT !.at = IF HandoffConcluded THEN "result" ELSE "rest"]
<1>1. /\ Goes(c, "end", k) /\ call[c].op = "loop" /\ call[c].at = "end"
      /\ call[c].outcome = "completed"
  BY DEF ReadHandoff, Goes, LoopAt
<1>2. LoopGoes(call[c])
  BY <1>1, LoopIs
<1>3. LoopGoes(k) /\ k.at = IF HandoffConcluded THEN "result" ELSE "rest"
  BY <1>2 DEF LoopGoes, LoopFields
<1>4. "result" \in Places /\ "end" \in Places
  BY DEF Places
<1>. HIDE DEF k
<1>5. ASSUME OnItsOwn(log, Len(log)), RunsWell(log, call[c]), k.at # "rest",
             NEW m, m.at = k.at, m.seen = Len(log)
      PROVE  RunsWell(log, m)
  <2>1. HandoffConcluded /\ m.at = "result"
    BY <1>3, <1>5
  <2>2. OfType(log, "orchestrated") # {}
    <3>1. PICK d : d \in OfType(log, "status") /\ log[d].cause # 0
      BY <2>1 DEF HandoffConcluded, Latest
    <3>. QED  BY <3>1 DEF ChainsHeld, ChainsAreWhole, StatusesAreWhole
  <2>3. OfType(log, "tool-completed") # {}
    BY <1>1, <1>5 DEF RunsWell, Told
  <2>4. (m.seen + 1)..Len(log) = {}
    BY <1>5 DEF OnItsOwn
  <2>. QED  BY <1>5, <2>1, <2>2, <2>3, <2>4 DEF RunsWell, Unclaimeds
<1>. QED  BY <1>1, <1>3, <1>4, <1>5, GoesHeld

LEMMA FinishHeld ==
    ASSUME Formed, LoopsHeld, NEW c \in Caller, FinishLoop(c)
    PROVE  LoopsHeld'
<1> DEFINE e == LoopEvent("loop-result")
<1>1. /\ call[c].op = "loop" /\ call[c].at = "result"
      /\ LoopAppends(c, e, "rest")
  BY DEF FinishLoop, LoopAt
<1>2. Holder(call[c]) /\ RunsWell(log, call[c])
  BY <1>1, HolderAt, PlacesAre
<1>3. /\ OfType(log, "plan") # {} /\ OfType(log, "loop-result") = {}
      /\ OfType(log, "checkpoint") = {} /\ OfType(log, "tool-completed") # {}
      /\ OfType(log, "orchestrated") # {}
      /\ call[c].seen \in 1..Len(log) /\ Alone(log, call[c].seen)
      /\ \A j \in (call[c].seen + 1)..Len(log) : log[j].type \notin LoopRecord
  BY <1>1, <1>2 DEF RunsWell, OnItsOwn
<1>4. e.type = "loop-result"
  BY DEF LoopEvent
<1>. HIDE DEF e
<1>5. ASSUME Gains(log, log', e)
      PROVE  LoopLedger(log')
  BY <1>3, <1>4, <1>5, ResultJoins DEF LoopsHeld
<1>. QED  BY <1>1, <1>2, <1>5, LoopAppendsHeld

LEMMA SuspendHeld ==
    ASSUME Formed, LoopsHeld, NEW c \in Caller, SuspendLoop(c)
    PROVE  LoopsHeld'
<1> DEFINE k == call[c]
           m == [Resting(k) EXCEPT !.at = "prefix"]
<1>1. /\ k.op = "loop" /\ k.at = "end" /\ k.outcome # "completed" /\ log' = log
      /\ call' = [call EXCEPT ![c] = Resting(k)] \/ call' = [call EXCEPT ![c] = m]
  BY DEF SuspendLoop, LoopAt
<1>2. LoopGoes(k) /\ AtRest(Resting(k))
  BY <1>1, LoopIs, RestsAre
<1>3. m.op = "loop" /\ m.at = "prefix" /\ m.outcome = k.outcome
  BY <1>2 DEF LoopGoes, LoopFields, Resting
<1>4. Holder(k) /\ RunsWell(log, k)
  BY <1>1, HolderAt, PlacesAre
<1>. HIDE DEF m
<1>5. SuspendsWell(log, m) /\ m.outcome # "resuming"
  BY <1>1, <1>3, <1>4 DEF RunsWell, OnItsOwn, SuspendsWell, Told
<1>6. LoopFits(log, m)
  BY <1>3, <1>5 DEF LoopFits, TakesWell, Taking, Running, Suspending, InPrefix, Places, Unclaimeds
<1>7. CASE call' = [call EXCEPT ![c] = Resting(k)]
  BY <1>1, <1>2, <1>7, LoopRests
<1>8. CASE call' = [call EXCEPT ![c] = m]
  BY <1>1, <1>4, <1>6, <1>8, LoopQuiet
<1>. QED  BY <1>1, <1>7, <1>8

LEMMA ReadSuspensionHeld ==
    ASSUME Formed, LoopsHeld, NEW c \in Caller, ReadSuspension(c)
    PROVE  LoopsHeld'
<1> DEFINE k == call[c]
           m == [k EXCEPT !.at = "appending", !.base = Len(log)]
           n == [k EXCEPT !.at = "eligible"]
<1>1. /\ k.op = "loop" /\ k.at = "prefix" /\ log' = log
      /\ \/ call' = [call EXCEPT ![c] = Resting(k)]
         \/ call' = [call EXCEPT ![c] = m]
         \/ call' = [call EXCEPT ![c] = n]
  BY DEF ReadSuspension, LoopAt
<1>2. LoopGoes(k) /\ AtRest(Resting(k))
  BY <1>1, LoopIs, RestsAre
<1>3. /\ m.op = "loop" /\ m.at = "appending" /\ m.outcome = k.outcome
      /\ n.op = "loop" /\ n.at = "eligible"
  BY <1>2 DEF LoopGoes, LoopFields
<1>4. LoopFits(log, k)
  BY DEF LoopsHeld
<1>5. LoopFits(log, m) /\ (Holder(m) => Holder(k))
  <2>1. SuspendsWell(log, k) <=> SuspendsWell(log, m)
    BY <1>3 DEF SuspendsWell
  <2>. QED
    BY <1>1, <1>3, <1>4, <2>1
       DEF LoopFits, TakesWell, Taking, Holder, Running, Suspending, InPrefix, Places, Unclaimeds
<1>6. AtRest(n)
  BY <1>3 DEF AtRest
<1>. HIDE DEF m, n
<1>7. CASE call' = [call EXCEPT ![c] = m]
  BY <1>1, <1>5, <1>7, LoopQuiet
<1>. QED  BY <1>1, <1>2, <1>6, <1>7, LoopRests

LEMMA AppendSuspensionHeld ==
    ASSUME Formed, LoopsHeld, NEW c \in Caller, AppendSuspension(c)
    PROVE  LoopsHeld'
<1> DEFINE k == call[c]
           m == [k EXCEPT !.at = "prefix", !.base = 0]
<1>1. k.op = "loop" /\ k.at = "appending"
  BY DEF AppendSuspension, LoopAt
<1>2. CASE Rests(c)
  BY <1>1, <1>2, RestsAre, LoopRests DEF Rests
<1>3. CASE ~Rests(c)
  <2>1. PICK i \in Missing :
            log' = Append(log, SuspensionEvent(Suspension[i], CauseOf(i), k.outcome))
    BY <1>3 DEF AppendSuspension
  <2> DEFINE e == SuspensionEvent(Suspension[i], CauseOf(i), k.outcome)
  <2>2. call' = [call EXCEPT ![c] = m]
    BY <1>3 DEF AppendSuspension
  <2>3. i \in 1..4 /\ OfType(log, Suspension[i]) = {}
        /\ \A j \in 1..4 : OfType(log, Suspension[j]) = {} => i <= j
    BY SuspensionIs DEF Missing, First
  <2>4. e.type = Suspension[i] /\ e.category = k.outcome /\ e.cause = CauseOf(i)
    BY DEF SuspensionEvent
  <2>5. LoopGoes(k)
    BY <1>1, LoopIs
  <2>6. m.op = "loop" /\ m.at = "prefix" /\ m.outcome = k.outcome
    BY <2>5 DEF LoopGoes, LoopFields
  <2>. HIDE DEF e, m
  <2>7. LoopFits(log, k)
    BY DEF LoopsHeld
  <2>8. Gains(log, log', e)
    BY <2>1, Appended DEF e, Formed
  <2>9. i = 1 => Suspending(k)
    BY <1>1, <2>3, <2>7, SuspensionIs DEF LoopFits, InPrefix, Suspending
  <2>10. Suspending(k) => SuspendsWell(log, k)
    BY <2>7 DEF LoopFits
  <2>11. i # 1 => e.cause \in OfType(log, Suspension[i - 1])
    <3>1. SUFFICES ASSUME i # 1
                   PROVE  e.cause \in OfType(log, Suspension[i - 1])
      OBVIOUS
    <3>2. i - 1 \in 1..4 /\ ~(i <= i - 1)
      BY <2>3, <3>1
    <3>3. OfType(log, Suspension[i - 1]) # {}
      BY <2>3, <3>2
    <3>4. \E j \in DOMAIN log : log[j].type = Suspension[i - 1]
      BY <3>3 DEF OfType
    <3>5. CauseOf(i) = CHOOSE j \in DOMAIN log : log[j].type = Suspension[i - 1]
      BY <3>1 DEF CauseOf
    <3>6. CauseOf(i) \in DOMAIN log /\ log[CauseOf(i)].type = Suspension[i - 1]
      BY <3>4, <3>5
    <3>. QED  BY <2>4, <3>6 DEF OfType
  <2>12. LoopLedger(log')
    <3>1. i = 1 => /\ OfType(log, "plan") # {} /\ OfType(log, "loop-result") = {}
                   /\ SaysTrue(log, e.category)
      BY <2>4, <2>9, <2>10 DEF SuspendsWell, Told
    <3>. HIDE DEF k
    <3>. QED  BY <2>3, <2>4, <2>8, <2>11, <3>1, SuspensionJoins DEF LoopsHeld
  <2>13. LoopFits(log', m)
    <3>1. e.type \notin {"plan", "loop-result", "tool-claimed", "tool-observed", "tool-completed",
                         "asserted", "effect"}
      BY <2>3, <2>4, SuspensionIs DEF SuspensionTypes
    <3>2. /\ OfType(log', "plan") = OfType(log, "plan")
          /\ OfType(log', "loop-result") = OfType(log, "loop-result")
          /\ OfType(log', "tool-claimed") = OfType(log, "tool-claimed")
          /\ OfType(log', "tool-observed") = OfType(log, "tool-observed")
          /\ OfType(log', "tool-completed") = OfType(log, "tool-completed")
          /\ EffectsOf(log') = EffectsOf(log)
      BY <2>8, <3>1 DEF Gains, EffectsOf
    <3>3. SuspendsWell(log, k) => SuspendsWell(log', m)
      BY <2>6, <3>2 DEF SuspendsWell, Told, SaysTrue
    <3>4. OfType(log, "checkpoint") \subseteq OfType(log', "checkpoint")
      BY <2>8, TypesGrow DEF Gains
    <3>. QED
      BY <1>1, <2>6, <2>7, <3>3, <3>4
         DEF LoopFits, TakesWell, Taking, Running, Suspending, InPrefix, Places, Unclaimeds
  <2>14. Holder(m) => Holder(k)
    BY <1>1, <2>6 DEF Holder, Running, Suspending, InPrefix, Places, Unclaimeds
  <2>15. e.type \in Guarded => Holder(k)
    BY <2>3, <2>4, <2>9, SuspensionIs DEF Guarded, LoopRecord, Holder
  <2>. QED  BY <2>2, <2>8, <2>12, <2>13, <2>14, <2>15, LoopJoins
<1>. QED  BY <1>2, <1>3

LEMMA ResumeHeld ==
    ASSUME Formed, LoopsHeld, NEW c \in Caller, ResumeLoop(c)
    PROVE  LoopsHeld'
<1> DEFINE k == call[c]
           m == [Resting(k) EXCEPT !.at = "prefix", !.outcome = "resuming"]
<1>1. /\ k.op = "loop" /\ OfType(log, "checkpoint") # {} /\ log' = log
      /\ call' = [call EXCEPT ![c] = m]
  BY DEF ResumeLoop, LoopAt
<1>2. LoopGoes(k)
  BY <1>1, LoopIs
<1>3. m.op = "loop" /\ m.at = "prefix" /\ m.outcome = "resuming"
  BY <1>2 DEF LoopGoes, LoopFields, Resting
<1>. HIDE DEF m
<1>4. LoopFits(log, m) /\ ~Holder(m)
  BY <1>1, <1>3 DEF LoopFits, TakesWell, Taking, Holder, Running, Suspending, InPrefix, Places, Unclaimeds
<1>. QED  BY <1>1, <1>4, LoopQuiet

\* A loop that goes on from the claim of a suspended run.
LEMMA TakesFit ==
    ASSUME NEW s, NEW k, k.op = "loop", k.at \in Taking, TakesWell(s, k)
    PROVE  LoopFits(s, k) /\ ~Holder(k)
BY DEF LoopFits, Taking, Holder, Running, Suspending, InPrefix, Places, Unclaimeds

LEMMA TakingIs ==
    ASSUME LoopsHeld, NEW c \in Caller, call[c].op = "loop", call[c].at \in Taking
    PROVE  TakesWell(log, call[c])
BY DEF LoopsHeld, LoopFits

LEMMA CheckReclaimHeld ==
    ASSUME Formed, LoopsHeld, NEW c \in Caller, CheckReclaim(c) \/ RereadReclaim(c)
    PROVE  LoopsHeld'
<1> DEFINE k == call[c]
           m(at) == [k EXCEPT !.at = at]
           n(at) == [k EXCEPT !.at = at, !.gate = Len(log)]
           r == [Resting(k) EXCEPT !.gate = 0]
<1>1. /\ k.op = "loop" /\ log' = log
      /\ \/ call' = [call EXCEPT ![c] = Resting(k)] \/ call' = [call EXCEPT ![c] = r]
         \/ \E at \in {"reread", "reclaim"} : call' = [call EXCEPT ![c] = m(at)]
         \/ \E at \in {"rereading", "reclaim"} : call' = [call EXCEPT ![c] = n(at)]
  BY DEF CheckReclaim, RereadReclaim, Opens, LoopAt
<1>2. LoopGoes(k) /\ AtRest(Resting(k)) /\ AtRest(r)
  BY <1>1, LoopIs, RestsAre
<1>3. \A at \in {"rereading", "reread", "reclaim"} : AtRest(m(at)) /\ AtRest(n(at))
  BY <1>2 DEF LoopGoes, LoopFields, AtRest
<1>. HIDE DEF m, n, r
<1>. QED  BY <1>1, <1>2, <1>3, LoopRests

LEMMA ReadReclaimHeld ==
    ASSUME Formed, LoopsHeld, NEW c \in Caller, ReadReclaim(c) \/ TakeClaim(c)
    PROVE  LoopsHeld'
<1> DEFINE k == call[c]
           m == [k EXCEPT !.at = "reclaiming", !.base = Len(log)]
           n == [k EXCEPT !.at = "taking"]
           t == [k EXCEPT !.at = "taken", !.seen = Len(log)]
<1>1. k.op = "loop" /\ log' = log
  BY DEF ReadReclaim, TakeClaim, LoopAt
<1>2. LoopGoes(k) /\ AtRest(Resting(k))
  BY <1>1, LoopIs, RestsAre
<1>3. /\ m.op = "loop" /\ m.at = "reclaiming" /\ m.base = Len(log)
      /\ n.op = "loop" /\ n.at = "taking"
      /\ t.op = "loop" /\ t.at = "taken"
  BY <1>2 DEF LoopGoes, LoopFields
<1>4. \/ call' = [call EXCEPT ![c] = Resting(k)]
      \/ /\ Reclaims = {} /\ OfType(log, "orchestrated") = {}
         /\ call' = [call EXCEPT ![c] = m]
      \/ Reclaims # {} /\ call' = [call EXCEPT ![c] = n]
      \/ k.at = "taking" /\ call' = [call EXCEPT ![c] = t]
  BY DEF ReadReclaim, TakeClaim, LoopAt
<1>5. Len(log) \in Nat
  BY LedgerFacts DEF Formed
<1>. HIDE DEF m, n, t
<1>6. Reclaims = {} /\ OfType(log, "orchestrated") = {} => LoopFits(log, m)
  BY <1>3, <1>5
     DEF LoopFits, TakesWell, Taking, Running, Suspending, InPrefix, Places, Unclaimeds,
         Reclaims, ReclaimsOf
<1>7. ~Holder(m)
  BY <1>3 DEF Holder, Running, Suspending, InPrefix, Places, Unclaimeds
<1>8. Reclaims # {} => LoopFits(log, n) /\ ~Holder(n)
  <2>1. Reclaims # {} => TakesWell(log, n)
    BY <1>3 DEF TakesWell, Taking, Reclaims, ReclaimsOf
  <2>2. n.at \in Taking
    BY <1>3 DEF Taking
  <2>. QED  BY <1>3, <2>1, <2>2, TakesFit
<1>9. k.at = "taking" => LoopFits(log, t) /\ ~Holder(t)
  <2>1. k.at = "taking" => TakesWell(log, t)
    BY <1>1, <1>3, TakingIs DEF TakesWell, Taking
  <2>2. t.at \in Taking
    BY <1>3 DEF Taking
  <2>. QED  BY <1>3, <2>1, <2>2, TakesFit
<1>. HIDE DEF k
<1>. QED  BY <1>1, <1>2, <1>4, <1>6, <1>7, <1>8, <1>9, LoopRests, LoopQuiet

LEMMA AppendReclaimHeld ==
    ASSUME Formed, LoopsHeld, NEW c \in Caller, AppendReclaim(c)
    PROVE  LoopsHeld'
<1> DEFINE k == call[c]
           n == [k EXCEPT !.at = "taking", !.base = 0]
<1>1. k.op = "loop" /\ k.at = "reclaiming"
  BY DEF AppendReclaim, LoopAt
<1>2. LoopGoes(k) /\ AtRest(Resting(k))
  BY <1>1, LoopIs, RestsAre
<1>3. n.op = "loop" /\ n.at = "taking"
  BY <1>2 DEF LoopGoes, LoopFields
<1>4. CASE Rests(c)
  BY <1>2, <1>4, LoopRests DEF Rests
<1>5. CASE ~Rests(c)
  <2>1. Len(log) = k.base /\ call' = [call EXCEPT ![c] = n]
    BY <1>5 DEF AppendReclaim
  <2>2. PICK d \in OfType(log, "released") : log' = Append(log, ClaimEvent(d))
    BY <1>5 DEF AppendReclaim
  <2>3. ReclaimsOf(log) = {} /\ OfType(log, "orchestrated") = {}
    <3>1. LoopFits(log, k)
      BY DEF LoopsHeld
    <3>. QED  BY <1>1, <2>1, <3>1 DEF LoopFits
  <2> DEFINE e == ClaimEvent(d)
  <2>4. e.type = "claimed" /\ e.cause = d
    BY DEF ClaimEvent
  <2>5. Gains(log, log', e)
    BY <2>2, Appended DEF Formed
  <2>. HIDE DEF e, n
  <2>6. LoopLedger(log')
    BY <2>3, <2>4, <2>5, ReclaimJoins DEF LoopsHeld
  <2>7. e.type \notin Guarded
    BY <2>4 DEF Guarded, LoopRecord
  <2>8. ReclaimsOf(log') # {}
    <3>1. d \in 1..Len(log) /\ Len(log) + 1 \in OfType(log', "claimed") /\ log'[Len(log) + 1] = e
      BY <2>4, <2>5 DEF Gains
    <3>. QED  BY <2>4, <3>1 DEF ReclaimsOf
  <2>9. TakesWell(log', n) /\ n.at \in Taking
    BY <1>3, <2>8 DEF TakesWell, Taking
  <2>10. LoopFits(log', n) /\ ~Holder(n)
    BY <1>3, <2>9, TakesFit
  <2>. HIDE DEF k
  <2>. QED  BY <2>1, <2>5, <2>6, <2>7, <2>10, LoopJoins
<1>. QED  BY <1>4, <1>5

LEMMA ReplayHeld ==
    ASSUME Formed, LoopsHeld, NEW c \in Caller, ReplayLoop(c)
    PROVE  LoopsHeld'
<1> DEFINE k == call[c]
           m == [k EXCEPT !.at = "replayed", !.seen = Len(log)]
           n == [k EXCEPT !.at = "recalling"]
           t == [k EXCEPT !.at = "recover", !.gate = Len(log), !.seen = Len(log)]
           r == [Resting(k) EXCEPT !.gate = 0]
<1>1. k.op = "loop" /\ log' = log
  BY DEF ReplayLoop, Goes, Opens, LoopAt
<1>2. LoopGoes(k) /\ AtRest(Resting(k)) /\ AtRest(r)
  BY <1>1, LoopIs, RestsAre
<1>3. /\ m.op = "loop" /\ m.at = "replayed" /\ n.op = "loop" /\ n.at = "recalling"
      /\ t.op = "loop" /\ t.at = "recover"
  BY <1>2 DEF LoopGoes, LoopFields
<1>4. \/ call' = [call EXCEPT ![c] = Resting(k)] \/ call' = [call EXCEPT ![c] = r]
      \/ k.at = "taken" /\ OutcomeUnknown /\ call' = [call EXCEPT ![c] = m]
      \/ k.at = "replayed" /\ call' = [call EXCEPT ![c] = n]
      \/ k.at = "recalling" /\ call' = [call EXCEPT ![c] = t]
  <2>1. ASSUME NEW at, NEW h, Goes(c, at, h)
        PROVE  \/ call' = [call EXCEPT ![c] = Resting(k)]
               \/ k.at = at /\ h.at # "rest" /\ call' = [call EXCEPT ![c] = [h EXCEPT !.seen = Len(log)]]
    BY <2>1 DEF Goes, LoopAt
  <2> DEFINE p(at) == [k EXCEPT !.at = at]
             q(at) == [k EXCEPT !.gate = Len(log), !.at = at]
  <2>2. \A at : p(at).at = at /\ q(at).at = at
    BY <1>2 DEF LoopGoes, LoopFields
  <2>3. CASE Goes(c, "taken", p(IF OutcomeUnknown /\ StreamLength(log, LoopStream) = 6
                                THEN "replayed" ELSE "rest"))
    <3>1. CASE OutcomeUnknown /\ StreamLength(log, LoopStream) = 6
      <4>1. [p("replayed") EXCEPT !.seen = Len(log)] = m
        OBVIOUS
      <4>. HIDE DEF p, m
      <4>. QED  BY <2>1, <2>3, <3>1, <4>1
    <3>2. CASE ~(OutcomeUnknown /\ StreamLength(log, LoopStream) = 6)
      <4>. HIDE DEF p
      <4>. QED  BY <2>1, <2>2, <2>3, <3>2
    <3>. QED  BY <3>1, <3>2
  <2>4. CASE Opens(c, "replayed", "recalling", "rest")
    BY <2>4 DEF Opens, LoopAt
  <2>5. CASE Goes(c, "recalling", q(IF StillClaimed THEN "recover" ELSE "rest"))
    <3>1. CASE StillClaimed
      <4>1. [q("recover") EXCEPT !.seen = Len(log)] = t
        OBVIOUS
      <4>. HIDE DEF q, t
      <4>. QED  BY <2>1, <2>5, <3>1, <4>1
    <3>2. CASE ~StillClaimed
      <4>. HIDE DEF q
      <4>. QED  BY <2>1, <2>2, <2>5, <3>2
    <3>. QED  BY <3>1, <3>2
  <2>. QED  BY <2>3, <2>4, <2>5 DEF ReplayLoop
<1>. HIDE DEF m, n, t, r
<1>5. /\ m.at \in Taking /\ n.at \in Taking /\ t.at \in Taking
      /\ k.at \in {"taken", "replayed", "recalling"} => k.at \in Taking /\ TakesWell(log, k)
  BY <1>1, <1>3, TakingIs DEF Taking
<1>6. k.at = "taken" /\ OutcomeUnknown => TakesWell(log, m)
  <2>1. ReclaimsOf(log) # {} => OfType(log, "checkpoint") # {}
    BY ReclaimedOnce DEF LoopsHeld, LoopLedger
  <2>. QED  BY <1>5, <2>1 DEF TakesWell, OutcomeUnknown
<1>7. k.at = "replayed" => TakesWell(log, n)
  BY <1>3, <1>5 DEF TakesWell, Taking
<1>8. k.at = "recalling" => TakesWell(log, t)
  BY <1>3, <1>5 DEF TakesWell, Taking
<1>. HIDE DEF k
<1>. QED
  BY <1>1, <1>2, <1>3, <1>4, <1>5, <1>6, <1>7, <1>8, TakesFit, LoopRests, LoopQuiet

\* A run that was claimed again is observed once more.
LEMMA RecoveryHeld ==
    ASSUME Formed, LoopsHeld, NEW c \in Caller, RecordRecovery(c)
    PROVE  LoopsHeld'
<1> DEFINE k == call[c]
           e == LoopEvent("recovery")
<1>1. k.op = "loop" /\ k.at = "recover" /\ call' = [call EXCEPT ![c] = Resting(k)]
  BY DEF RecordRecovery, LoopAt
<1>2. AtRest(Resting(k))
  BY <1>1, RestsAre
<1>3. CASE log' = log
  BY <1>1, <1>2, <1>3, LoopRests
<1>4. CASE OfType(log, "recovery") = {} /\ log' = Append(log, e)
  <2>1. e.type = "recovery"
    BY DEF LoopEvent
  <2>2. Gains(log, log', e)
    BY <1>4, Appended DEF Formed
  <2>. HIDE DEF e
  <2>3. TakesWell(log, k)
    BY <1>1, TakingIs DEF Taking
  <2>4. ReclaimsOf(log) # {} /\ \E d \in OfType(log, "checkpoint") : log[d].category = "unknown"
    BY <1>1, <2>3 DEF TakesWell, Taking
  <2>5. \A d, f \in OfType(log, "checkpoint") : d = f
    BY SuspensionIs DEF LoopsHeld, LoopLedger, SuspensionsAreWhole
  <2>6. IsUnknown(log)
    BY <2>4, <2>5 DEF IsUnknown
  <2>7. LoopLedger(log')
    BY <1>4, <2>1, <2>2, <2>4, <2>6, RecoveryJoins DEF LoopsHeld
  <2>8. e.type \notin Guarded
    BY <2>1 DEF Guarded, LoopRecord
  <2>9. LoopFits(log', Resting(k)) /\ ~Holder(Resting(k))
    BY <1>2, RestFits
  <2>. HIDE DEF k
  <2>. QED  BY <1>1, <2>2, <2>7, <2>8, <2>9, LoopJoins
<1>. QED  BY <1>3, <1>4 DEF RecordRecovery

LEMMA DecideHeld ==
    ASSUME Formed, LoopsHeld, NEW c \in Caller, NEW verdict \in ToolVerdict, DecideTool(c, verdict)
    PROVE  LoopsHeld'
<1> DEFINE e == [type |-> verdict, stream |-> ToolStream]
           m == ExpectsSequence(e)
<1>1. /\ log' = log /\ call' = [call EXCEPT ![c] = m]
      /\ StreamLength(log, ToolStream) = 1
      /\ \E i \in OfType(log, "tool-requested") : log[i].kind = "human"
  BY DEF DecideTool
<1>2. m.op = "send" /\ m.event = e /\ m.expected = 2
  BY <1>1 DEF ExpectsSequence, Sending
<1>. HIDE DEF m
<1>3. DecidesWell(log, m)
  BY <1>1, <1>2 DEF DecidesWell
<1>4. LoopFits(log, m) /\ ~Holder(m)
  BY <1>2, <1>3 DEF LoopFits, Holder, Running, Suspending, InPrefix
<1>. QED  BY <1>1, <1>4, LoopQuiet

LEMMA LoopStepHeld ==
    ASSUME Formed, ChainsHeld, LoopsHeld, NEW c \in Caller, LoopNext(c)
    PROVE  LoopsHeld'
<1>1. CASE \E verdict \in {"tool-approved", "tool-denied"} : DecideTool(c, verdict)
  BY <1>1, DecideHeld DEF ToolVerdict
<1>2. CASE DropLoop(c)
  <2>1. log' = log /\ call' = [call EXCEPT ![c] = Idle] /\ call[c].op = "loop"
    BY <1>2 DEF DropLoop, LoopAt
  <2>. QED  BY <2>1, RestsAre, LoopRests
<1>3. CASE \/ BindLoop(c) \/ AdvanceLoop(c) \/ ObserveContext(c)
           \/ RequestTool(c) \/ CheckRequest(c) \/ ReadDecision(c)
  BY <1>3, BindHeld, AdvanceHeld, ObserveHeld, RequestHeld, CheckRequestHeld, DecisionHeld
<1>4. CASE \/ ClaimTool(c) \/ InvokeTool(c) \/ ObserveOutcome(c) \/ CompleteTool(c)
           \/ FailGateway(c) \/ CheckExecution(c) \/ RereadTool(c)
  BY <1>4, ClaimHeld, InvokeHeld, OutcomeHeld, CompleteHeld, FailGatewayHeld, CheckExecutionHeld,
     RereadHeld
<1>5. CASE \/ RecordTool(c) \/ ReadHandoff(c) \/ FinishLoop(c) \/ SuspendLoop(c)
           \/ ReadSuspension(c) \/ AppendSuspension(c) \/ ResumeLoop(c)
  BY <1>5, ObserveHeld, ReadHandoffHeld, FinishHeld, SuspendHeld, ReadSuspensionHeld,
     AppendSuspensionHeld, ResumeHeld
<1>6. CASE \/ CheckReclaim(c) \/ RereadReclaim(c) \/ ReadReclaim(c) \/ AppendReclaim(c)
           \/ TakeClaim(c) \/ ReplayLoop(c) \/ RecordRecovery(c)
  BY <1>6, CheckReclaimHeld, ReadReclaimHeld, AppendReclaimHeld, ReplayHeld, RecoveryHeld
<1>. QED  BY <1>1, <1>2, <1>3, <1>4, <1>5, <1>6 DEF LoopNext

----------------------------------------------------------------------------
(* The loop: the steps of everybody else, and the theorem.                 *)

LEMMA SendLoop ==
    ASSUME Formed, LoopsHeld, NEW c \in Caller, Send(c)
    PROVE  LoopsHeld'
<1> DEFINE k == call[c]
           e == k.event
<1>1. call' = [call EXCEPT ![c] = Idle] /\ k.op = "send"
      /\ log' = IF Holds(c) THEN Append(log, e) ELSE log
  BY DEF Send
<1>2. LoopFits(log, k) /\ LoopLedger(log)
  BY DEF LoopsHeld
<1>3. AtRest(Idle)
  BY DEF AtRest, Idle
<1>4. CASE ~Holds(c)
  BY <1>1, <1>3, <1>4, LoopRests
<1>5. CASE Holds(c)
  <2>1. Gains(log, log', e)
    BY <1>1, <1>5, Appended DEF Formed
  <2>2. LoopLedger(log') /\ e.type \notin Guarded
    <3>1. CASE e.type \in LoopTypes
      <4>1. DecidesWell(log, k)
        BY <1>1, <1>2, <3>1 DEF LoopFits
      <4>2. /\ e.type \in ToolVerdict /\ e.stream = ToolStream /\ k.expected = 2
            /\ \E r \in OfType(log, "tool-requested") : log[r].kind = "human"
        BY <4>1 DEF DecidesWell
      <4>3. 2 = StreamLength(log, ToolStream) + 1
        BY <1>5, <4>2 DEF Holds
      <4>4. StreamLength(log, ToolStream) = 1
        BY <4>3, CountsAreNumbers
      <4>5. e.type \notin Guarded
        BY <4>2 DEF ToolVerdict, Guarded, LoopRecord
      <4>. HIDE DEF e
      <4>. QED  BY <1>2, <2>1, <4>2, <4>4, <4>5, VerdictJoins
    <3>2. CASE e.type \notin LoopTypes
      <4>1. Guarded \subseteq LoopTypes
        BY DEF Guarded, LoopTypes, LoopRecord, ToolRecord
      <4>2. Extends(log, log') /\ \A i \in Since(log, log') : log'[i].type \notin LoopTypes
        BY <2>1, <3>2 DEF Gains
      <4>. QED  BY <1>2, <3>2, <4>1, <4>2, LedgerApart
    <3>. QED  BY <3>1, <3>2
  <2>3. LoopFits(log', Idle) /\ ~Holder(Idle)
    BY <1>3, RestFits
  <2>. HIDE DEF e
  <2>. QED  BY <1>1, <2>1, <2>2, <2>3, LoopJoins
<1>. QED  BY <1>4, <1>5

LEMMA StepLoops ==
    ASSUME Formed, ChainsHeld, LoopsHeld, NEW c \in Caller, CallSteps(c)
    PROVE  LoopsHeld'
<1>1. /\ Spares(LoopTypes, {"loop"}, LetterTypes, LetterOps)
      /\ Spares(LoopTypes, {"loop"}, MemoryTypes, MemoryOps)
      /\ Spares(LoopTypes, {"loop"}, TriggerTypes, TriggerOps)
      /\ Spares(LoopTypes, {"loop"}, KnowledgeTypes, {"decide"})
      /\ Spares(LoopTypes, {"loop"}, {}, Rebuilding)
  BY DEF Spares, LoopTypes, LoopRecord, ToolRecord, LetterTypes, LetterOps, MemoryTypes, MemoryOps,
         TriggerTypes, TriggerOps, KnowledgeTypes, Rebuilding
<1>2. ASSUME Beside(c, LoopTypes, {"loop"})
      PROVE  LoopsHeld'
  BY <1>2, BesideLoop
<1>3. CASE CorrespondenceNext(c)
  BY <1>1, <1>2, <1>3, LetterStepIs
<1>4. CASE MemoryNext(c)
  BY <1>1, <1>2, <1>4, MemoryStepIs
<1>5. CASE TriggerNext(c)
  BY <1>1, <1>2, <1>5, TriggerStepIs
<1>6. CASE KnowledgeNext(c)
  BY <1>1, <1>2, <1>6, KnowledgeStepIs
<1>7. CASE RebuildNext(c)
  BY <1>1, <1>2, <1>7, RebuildStepIs
<1>8. CASE HandoffNext(c)
  <2>1. /\ LoopTypes \intersect (HandTypes \union {"step"}) = {}
        /\ {"loop"} \intersect {"idle", "send", "reach", "extend"} = {}
    BY DEF HandTypes, Stages, LoopTypes, LoopRecord, ToolRecord
  <2>. QED  BY <1>2, <1>8, <2>1, HandoffApart
<1>9. CASE MountedNext(c)
  BY <1>2, <1>9, MountedApart
<1>10. CASE LoopNext(c)
  BY <1>10, LoopStepHeld
<1>11. CASE SendLetter(c)
  BY <1>11, SendLoop DEF SendLetter
<1>12. CASE DieWithLetter(c)
  <2>1. call' = [call EXCEPT ![c] = Idle] /\ log' = log
    BY <1>12 DEF DieWithLetter, Die
  <2>2. AtRest(Idle)
    BY DEF AtRest, Idle
  <2>. QED  BY <2>1, <2>2, LoopRests
<1>. QED  BY <1>3, <1>4, <1>5, <1>6, <1>7, <1>8, <1>9, <1>10, <1>11, <1>12 DEF CallSteps

LEMMA StartsUnplanned ==
    ASSUME Init
    PROVE  LoopsHeld
<1>1. Formed /\ StartLedger(log) /\ call = [c \in Caller |-> Idle]
  BY StartsFormed
<1>2. \A type \in LoopTypes : \A i \in OfType(log, type) : type = "claimed" /\ log[i].cause = 0
  BY <1>1 DEF StartLedger, OfType
<1>3. \A type \in LoopTypes \ {"claimed"} : OfType(log, type) = {}
  BY <1>2
<1>4. /\ ToolRecord \subseteq LoopTypes \ {"claimed"} /\ PlannedTypes \subseteq LoopTypes \ {"claimed"}
      /\ {"plan", "recovery"} \subseteq LoopTypes \ {"claimed"}
      /\ SuspensionTypes \subseteq LoopTypes
  BY LoopTypesAre DEF ToolRecord, PlannedTypes, SuspensionTypes
<1>5. ToolsOf(log) = {} /\ \A type \in ToolRecord : OfType(log, type) = {}
  <2>1. \A type \in ToolRecord : OfType(log, type) = {}
    BY <1>3, <1>4
  <2>. QED  BY <2>1 DEF ToolsOf, OfType
<1>6. \A type \in PlannedTypes \union {"plan", "recovery"} : OfType(log, type) = {}
  BY <1>3, <1>4
<1>7. EffectsOf(log) = {} /\ OfType(log, "loop-result") = {} /\ OfType(log, "plan") = {}
      /\ OfType(log, "checkpoint") = {} /\ OfType(log, "tool-claimed") = {}
  BY <1>6 DEF EffectsOf, PlannedTypes
<1>8. ReclaimsOf(log) = {}
  <2>1. "claimed" \in LoopTypes
    BY <1>4 DEF SuspensionTypes
  <2>. QED  BY <1>2, <2>1 DEF ReclaimsOf
<1>9. \A i \in 1..4 : OfType(log, Suspension[i]) = {}
  BY <1>3, <1>4, SuspensionIs
<1>10. ToolIsOrdered(log)
  BY <1>5 DEF ToolIsOrdered, ToolRecord
<1>11. EffectsAreClaimed(log) /\ PlanIsFirst(log) /\ ResultsAreEarned(log)
  BY <1>7 DEF EffectsAreClaimed, PlanIsFirst, ResultsAreEarned
<1>12. SuspensionsAreWhole(log)
  BY <1>7, <1>8, <1>9 DEF SuspensionsAreWhole
<1>15. TakeoversEnd(log)
  BY <1>6 DEF TakeoversEnd
<1>13. AtRest(Idle)
  BY DEF AtRest, Idle
<1>14. \A c \in Caller : LoopFits(log, call[c]) /\ ~Holder(call[c])
  BY <1>1, <1>13, RestFits
<1>. QED  BY <1>10, <1>11, <1>12, <1>14, <1>15 DEF LoopsHeld, LoopLedger

LEMMA TypesAreFew ==
    ASSUME Formed, NEW S, S \subseteq 1..Len(log), \A d, e \in S : d = e
    PROVE  Cardinality(S) <= 1
<1>1. IsFiniteSet(S)
  BY LedgerFacts, FS_Interval, FS_Subset DEF Formed
<1>. QED  BY <1>1, AtMostOne

LEMMA HeldEffect ==
    ASSUME Formed, LoopsHeld
    PROVE  EffectIsCovered
<1>1. Effects = EffectsOf(log)
  BY DEF Effects, EffectsOf
<1>2. DOMAIN log = 1..Len(log) /\ Len(log) \in Nat
  BY LedgerFacts DEF Formed
<1>3. ToolIsOrdered(log) /\ EffectsAreClaimed(log)
  BY DEF LoopsHeld, LoopLedger
<1>4. Cardinality(Effects) <= 1
  <2>1. Effects \subseteq 1..Len(log) /\ \A d, e \in Effects : d = e
    BY <1>1, <1>2, <1>3 DEF EffectsAreClaimed, EffectsOf, OfType
  <2>. QED  BY <2>1, TypesAreFew
<1>5. ASSUME NEW e \in Effects
      PROVE  \E r \in OfType(log, "tool-requested"), k \in OfType(log, "tool-claimed") :
                /\ r < k /\ k < e
                /\ log[r].kind = "human" =>
                    /\ \E a \in OfType(log, "tool-approved") : r < a /\ a < k
                    /\ OfType(log, "tool-denied") = {}
  <2>1. PICK k \in OfType(log, "tool-claimed") : k < e
    BY <1>1, <1>3 DEF EffectsAreClaimed
  <2>2. PICK r \in OfType(log, "tool-requested") : r < k
    BY <1>3 DEF ToolIsOrdered
  <2>3. \A type \in ToolRecord : OfType(log, type) \subseteq ToolsOf(log) \intersect (1..Len(log))
    BY <1>2 DEF OfType, ToolsOf
  <2>4. /\ OfType(log, "tool-requested") \subseteq ToolsOf(log) \intersect (1..Len(log))
        /\ OfType(log, "tool-claimed") \subseteq ToolsOf(log) \intersect (1..Len(log))
        /\ OfType(log, "tool-approved") \subseteq ToolsOf(log) \intersect (1..Len(log))
        /\ OfType(log, "tool-denied") \subseteq ToolsOf(log) \intersect (1..Len(log))
    BY <2>3 DEF ToolRecord
  <2>5. log[r].type = "tool-requested" /\ log[k].type = "tool-claimed"
    BY DEF OfType
  <2>6. ASSUME log[r].kind = "human"
        PROVE  \E a \in OfType(log, "tool-approved") : r < a /\ a < k
    <3>1. PICK a \in OfType(log, "tool-approved") : a < k
      BY <1>3, <2>2, <2>4, <2>5, <2>6 DEF ToolIsOrdered
    <3>2. r <= a
      BY <1>3, <2>4 DEF ToolIsOrdered
    <3>3. r # a
      BY <2>5 DEF OfType
    <3>4. r \in Nat /\ a \in Nat
      BY <2>4
    <3>. QED  BY <3>1, <3>2, <3>3, <3>4
  <2>7. OfType(log, "tool-denied") = {}
    <3>1. SUFFICES ASSUME NEW d \in OfType(log, "tool-denied") PROVE FALSE
      OBVIOUS
    <3>2. log[d].type = "tool-denied" /\ d \in Nat /\ k \in Nat /\ k # d
      BY <2>4, <2>5 DEF OfType
    <3>3. ~(d < k)
      BY <1>3, <2>4, <3>2 DEF ToolIsOrdered
    <3>4. ~(k < d)
      BY <1>3, <2>4, <2>5, <3>2 DEF ToolIsOrdered, ToolVerdict
    <3>. QED  BY <3>2, <3>3, <3>4
  <2>. QED  BY <2>1, <2>2, <2>6, <2>7
<1>. QED  BY <1>4, <1>5 DEF EffectIsCovered

LEMMA HeldResult ==
    ASSUME LoopsHeld
    PROVE  ResultIsEarned
<1>1. ResultsAreEarned(log)
  BY DEF LoopsHeld, LoopLedger
<1>. QED  BY <1>1 DEF ResultsAreEarned, ResultIsEarned, Permitted

LEMMA HeldSuspension ==
    ASSUME Formed, LoopsHeld
    PROVE  SuspensionIsWhole
<1>1. SuspensionsAreWhole(log)
  BY DEF LoopsHeld, LoopLedger
<1>2. Effects = EffectsOf(log) /\ Reclaims = ReclaimsOf(log)
  BY DEF Effects, EffectsOf, Reclaims, ReclaimsOf
<1>3. \A type : OfType(log, type) \subseteq 1..Len(log)
  BY LedgerFacts DEF OfType, Formed
<1>4. \A i \in DOMAIN Suspension : Cardinality(OfType(log, Suspension[i])) <= 1
  BY <1>1, <1>3, SuspensionIs, TypesAreFew DEF SuspensionsAreWhole
<1>5. \A i \in 2..4 : \A e \in OfType(log, Suspension[i]) :
        log[e].cause < e /\ log[log[e].cause].type = Suspension[i - 1]
  BY <1>1 DEF SuspensionsAreWhole, OfType
<1>6. \A i, j \in Reclaims :
        /\ log[i].cause < i /\ log[log[i].cause].type = "released" /\ i = j
        /\ \A o \in OfType(log, "orchestrated") : i < o
  BY <1>1, <1>2 DEF SuspensionsAreWhole, OfType
<1>7. \A e \in OfType(log, "checkpoint") :
        /\ log[e].category = "waiting" => OfType(log, "tool-claimed") = {}
        /\ log[e].category = "unknown" =>
            /\ OfType(log, "tool-claimed") # {}
            /\ OfType(log, "tool-observed") \union Effects = {}
  BY <1>1, <1>2 DEF SuspensionsAreWhole, SaysTrue
<1>. QED  BY <1>4, <1>5, <1>6, <1>7 DEF SuspensionIsWhole

LEMMA HeldTakeover ==
    ASSUME LoopsHeld
    PROVE  TakeoverEnds
<1>1. TakeoversEnd(log) /\ ResultsAreEarned(log)
  BY DEF LoopsHeld, LoopLedger
<1>2. SUFFICES ASSUME NEW o \in OfType(log, "recovery")
               PROVE  /\ OfType(log, "recovery") = {o}
                      /\ \E i \in Reclaims : i < o
                      /\ OutcomeUnknown /\ OfType(log, "loop-result") = {}
                      /\ \A i \in (o + 1)..Len(log) :
                            log[i].type \notin
                                ToolRecord \union LoopRecord \union {"asserted", "effect"}
  BY DEF TakeoverEnds
<1>3. /\ \A p \in OfType(log, "recovery") : p = o
      /\ \E i \in ReclaimsOf(log) : i < o
      /\ IsUnknown(log) /\ \A i \in (o + 1)..Len(log) : log[i].type \notin Spent
  BY <1>1 DEF TakeoversEnd
<1>4. OfType(log, "loop-result") = {}
  BY <1>1, <1>3 DEF ResultsAreEarned, IsUnknown
<1>. QED  BY <1>3, <1>4 DEF Spent, IsUnknown, OutcomeUnknown, Reclaims, ReclaimsOf

\* However loops, people, mounted tasks, recorders and deaths interleave: a run's
\* tool acts at most once, under a claim and, where a person is asked, after an
\* approval that no denial stands against; a completed result closes a run in
\* whose course, to the last of its records, nobody else appended a thing; a
\* suspension is recorded in order, once, and tells the truth of the tool; and
\* where loops that resume go on with one claim, its own or another's, the run is
\* observed once more and no tool is used (advanceResidentLoop,
\* executeFreshAuthorized, rereadAndIssueFromLedger, completeResidentSuspensionPrefix,
\* reclaimResidentSuspension, resumeResidentLoop).
THEOREM LoopStaysSound == Spec => []LoopIsSound
<1>1. Init => LoopsHeld
  BY StartsUnplanned
<1>2. Formed /\ ChainsHeld /\ LoopsHeld /\ [Next]_vars => LoopsHeld'
  <2>1. ASSUME LoopsHeld, UNCHANGED vars
        PROVE  LoopsHeld'
    <3>1. log' = log /\ call' = call
      BY <2>1 DEF vars, recordVars
    <3>. QED  BY <2>1, <3>1 DEF LoopsHeld, LoopLedger, LoopFits, Holder, Running, Suspending, InPrefix
  <2>. QED  BY <2>1, StepLoops DEF Next
<1>3. Formed /\ LoopsHeld => LoopIsSound
  BY HeldEffect, HeldResult, HeldSuspension, HeldTakeover DEF LoopIsSound
<1>. QED  BY <1>1, <1>2, <1>3, AlwaysFormed, AlwaysChained, PTL DEF Spec

----------------------------------------------------------------------------
(* Mounted tasks: what is spent, and what nobody begins.                   *)

Spends ==
    \/ budget' = budget
    \/ \E op : budget[op] > 0 /\ budget' = [budget EXCEPT ![op] = @ - 1]

\* None of these calls is left to be made.
Barred(ops) ==
    /\ budget = [op \in DOMAIN budget |-> budget[op]] /\ ops \subseteq DOMAIN budget
    /\ \A op \in ops : budget[op] = 0

LEMMA BarredStays ==
    ASSUME NEW ops, Barred(ops), Spends
    PROVE  Barred(ops)'
<1>1. CASE budget' = budget
  BY <1>1 DEF Barred
<1>2. ASSUME NEW op, budget[op] > 0, budget' = [budget EXCEPT ![op] = @ - 1]
      PROVE  Barred(ops)'
  <2>1. DOMAIN budget' = DOMAIN budget
    BY <1>2
  <2>2. budget' = [o \in DOMAIN budget |-> IF o = op THEN budget[op] - 1 ELSE budget[o]]
    BY <1>2 DEF Barred
  <2>3. op \notin ops
    BY <1>2 DEF Barred
  <2>. QED  BY <2>1, <2>2, <2>3 DEF Barred
<1>. QED  BY <1>1, <1>2 DEF Spends

LEMMA BarredMakes ==
    ASSUME NEW ops, Barred(ops), NEW c, NEW op \in ops
    PROVE  ~Makes(c, op)
BY DEF Barred, Makes

LEMMA MakesSpends ==
    ASSUME NEW c, NEW op, Makes(c, op)
    PROVE  Spends
BY DEF Makes, Spends

LEMMA ServicesSpend ==
    ASSUME NEW c \in Caller,
           \/ CorrespondenceNext(c) \/ MemoryNext(c) \/ TriggerNext(c)
           \/ KnowledgeNext(c) \/ RebuildNext(c)
    PROVE  Spends
<1>1. ASSUME CorrespondenceNext(c) PROVE Spends
  BY <1>1, MakesSpends
     DEF CorrespondenceNext, CreateRequest, AgencyActs, CheckLetter, MailLetter, RecordLetter, Spends
<1>2. ASSUME MemoryNext(c) PROVE Spends
  <2>1. ASSUME NEW m \in Memory,
               RecordMemory(c, m) \/ RetractMemory(c, m) \/ \E n \in Memory : SupersedeMemory(c, m, n)
        PROVE  Spends
    BY <2>1, MakesSpends DEF RecordMemory, RetractMemory, SupersedeMemory
  <2>2. CASE PrepareRetraction(c) \/ PrepareSupersession(c) \/ PrepareUndo(c)
    BY <2>2 DEF PrepareRetraction, PrepareSupersession, PrepareUndo, Spends
  <2>3. CASE AppendReplacement(c) \/ AppendSupersession(c) \/ AppendUndo(c)
    BY <2>3 DEF AppendReplacement, AppendSupersession, AppendUndo, LedgerIsAway, Spends
  <2>. QED  BY <1>2, <2>1, <2>2, <2>3 DEF MemoryNext
<1>3. ASSUME TriggerNext(c) PROVE Spends
  BY <1>3, MakesSpends DEF TriggerNext, Mount, EvaluateTrigger, InspectSnapshot, AppendRequest, Spends
<1>4. ASSUME KnowledgeNext(c) PROVE Spends
  BY <1>4, MakesSpends DEF KnowledgeNext, Propose, Bind, ReviewOne, ReviewTwo, AppendDecision, Spends
<1>5. ASSUME RebuildNext(c) PROVE Spends
  BY <1>5, MakesSpends DEF RebuildNext, StartRebuild, ClearTemp, KeepTemp, WriteArtifact,
     PromoteDirectory, RemoveTemp, RebuildFails, Spends
<1>. QED  BY <1>1, <1>2, <1>3, <1>4, <1>5

LEMMA InterferingSpends ==
    ASSUME NEW c, NEW op, NEW e, Interfere(c, op, e)
    PROVE  Makes(c, op) /\ Spends
BY MakesSpends DEF Interfere

LEMMA RunsSpend ==
    ASSUME NEW c \in Caller, HandoffNext(c) \/ MountedNext(c) \/ LoopNext(c)
    PROVE  Spends
<1>1. ASSUME HandoffNext(c) PROVE Spends
  <2>1. ASSUME NEW text, NEW supersedes, AppendFinalOutput(c, text, supersedes)
        PROVE  Spends
    BY <2>1, MakesSpends DEF AppendFinalOutput
  <2>2. ASSUME NEW bound, RecordHandoff(c, bound)
        PROVE  Spends
    BY <2>2, MakesSpends DEF RecordHandoff
  <2>3. CASE FinalizeRun(c) \/ RecoverSuffix(c)
    BY <2>3, MakesSpends DEF FinalizeRun, RecoverSuffix
  <2>4. CASE ReachStage(c) \/ ExtendChain(c)
    BY <2>4 DEF ReachStage, ExtendChain, Spends
  <2>5. CASE AppendStep(c) \/ AppendFailure(c) \/ CancelTask(c)
    BY <2>5, InterferingSpends DEF AppendStep, AppendFailure, CancelTask
  <2>. QED  BY <1>1, <2>1, <2>2, <2>3, <2>4, <2>5 DEF HandoffNext
<1>2. ASSUME MountedNext(c) PROVE Spends
  <2>1. ASSUME NEW run, RequestRun(c, run) PROVE Spends
    BY <2>1, MakesSpends DEF RequestRun
  <2>2. CASE TakeUp(c) \/ FindStale(c) \/ AskCancel(c)
    BY <2>2, MakesSpends DEF TakeUp, FindStale, AskCancel
  <2>3. CASE ChangePolicy(c) \/ AppendElsewhere(c)
    BY <2>3, InterferingSpends DEF ChangePolicy, AppendElsewhere
  <2>4. CASE FailStore(c)
    BY <2>4 DEF FailStore, Spends
  <2>5. CASE AppendAdmission(c) \/ DiagnoseStale(c) \/ Examine(c) \/ BindHandoff(c) \/ StartRun(c)
             \/ AppendStarted(c) \/ EnterTask(c) \/ AppendRunning(c) \/ EnterGate(c)
             \/ LeaveGate(c) \/ CancelMounted(c)
    BY <2>5 DEF AppendAdmission, DiagnoseStale, Examine, BindHandoff, StartRun, AppendStarted,
       EnterTask, AppendRunning, EnterGate, LeaveGate, CancelMounted, Spends
  <2>6. CASE InvokeModel(c) \/ AppendInvoked(c) \/ AppendAnswered(c) \/ ReturnAnswer(c)
             \/ ReadMountedStage(c) \/ ReadFence(c) \/ AppendStage(c) \/ RecoverMounted(c)
             \/ ConsumeHandoff(c) \/ ReadMemory(c) \/ AppendMemory(c)
             \/ AskTransfer(c) \/ SuspendTask(c)
    BY <2>6 DEF InvokeModel, AppendInvoked, AppendAnswered, ReturnAnswer, ReadMountedStage,
       ReadFence, AppendStage, RecoverMounted, ConsumeHandoff, ReadMemory, AppendMemory,
       AskTransfer, SuspendTask, Spends
  <2>. QED  BY <1>2, <2>1, <2>2, <2>3, <2>4, <2>5, <2>6 DEF MountedNext
<1>3. ASSUME LoopNext(c) PROVE Spends
  <2>1. ASSUME NEW verdict, DecideTool(c, verdict) PROVE Spends
    BY <2>1, MakesSpends DEF DecideTool
  <2>2. CASE BindLoop(c)
    BY <2>2, MakesSpends DEF BindLoop
  <2>3. CASE FailGateway(c) \/ ResumeLoop(c)
    BY <2>3 DEF FailGateway, ResumeLoop, Spends
  <2>4. CASE AdvanceLoop(c) \/ ObserveContext(c) \/ RequestTool(c) \/ CheckRequest(c)
             \/ ReadDecision(c) \/ ClaimTool(c) \/ InvokeTool(c) \/ ObserveOutcome(c)
             \/ CompleteTool(c) \/ CheckExecution(c) \/ RereadTool(c)
    BY <2>4 DEF AdvanceLoop, ObserveContext, RequestTool, CheckRequest, ReadDecision, ClaimTool,
       InvokeTool, ObserveOutcome, CompleteTool, CheckExecution, RereadTool, LoopAppends,
       Opens, ToolAppends, Goes, Spends
  <2>5. CASE RecordTool(c) \/ ReadHandoff(c) \/ FinishLoop(c) \/ SuspendLoop(c)
             \/ ReadSuspension(c) \/ AppendSuspension(c) \/ CheckReclaim(c) \/ RereadReclaim(c)
             \/ ReadReclaim(c) \/ AppendReclaim(c) \/ TakeClaim(c) \/ ReplayLoop(c)
             \/ RecordRecovery(c) \/ DropLoop(c)
    BY <2>5 DEF RecordTool, ReadHandoff, FinishLoop, SuspendLoop, ReadSuspension,
       AppendSuspension, CheckReclaim, RereadReclaim, ReadReclaim, AppendReclaim, TakeClaim,
       ReplayLoop, RecordRecovery, DropLoop, LoopAppends, Goes, Opens, Spends
  <2>. QED  BY <1>3, <2>1, <2>2, <2>3, <2>4, <2>5 DEF LoopNext
<1>. QED  BY <1>1, <1>2, <1>3

LEMMA StepSpends ==
    ASSUME NEW c \in Caller, CallSteps(c)
    PROVE  Spends
<1>1. CASE SendLetter(c)
  BY <1>1 DEF SendLetter, Send, Spends
<1>2. CASE DieWithLetter(c)
  BY <1>2 DEF DieWithLetter, Die, Spends
<1>. QED  BY <1>1, <1>2, ServicesSpend, RunsSpend DEF CallSteps

----------------------------------------------------------------------------
(* Where no mounted execution begins.                                      *)

UnmountedTypes == {"task-admitted", "completion-memory"}

\* No task is mounted, and nobody will mount one.
Unmounted ==
    /\ Barred(MountedCalls)
    /\ \A d \in Caller :
        /\ call[d].op # "mounted"
        /\ call[d].op = "send" => call[d].event.type \notin UnmountedTypes
    /\ \A i \in DOMAIN log : log[i].type \notin UnmountedTypes

LEMMA BesideUnmounted ==
    ASSUME Formed, Unmounted, NEW c \in Caller, Beside(c, UnmountedTypes, {"mounted"}), Spends
    PROVE  Unmounted'
<1>1. Barred(MountedCalls)'
  BY BarredStays DEF Unmounted
<1>2. \A d \in Caller : d # c => call'[d] = call[d]
  BY DEF Beside, Formed
<1>3. \A i \in DOMAIN log' : (i \in DOMAIN log /\ log'[i] = log[i]) \/ i \in Since(log, log')
  BY DEF Beside, Extends, Since
<1>. QED  BY <1>1, <1>2, <1>3 DEF Unmounted, Beside

LEMMA LoopUnmounted ==
    ASSUME Formed, NEW c \in Caller, LoopNext(c)
    PROVE  Beside(c, UnmountedTypes, {"mounted"})
<1>1. UnmountedTypes \intersect LoopTypes = {}
  BY DEF UnmountedTypes, LoopTypes, LoopRecord, ToolRecord
<1>2. call[c].op \in {"idle", "loop"}
  BY LoopStepIs
<1>3. PICK k : /\ call' = [call EXCEPT ![c] = k]
               /\ k = Idle \/ LoopGoes(k) \/ (SendCall(k) /\ LoopIssues(k.event))
  BY LoopStepIs DEF LoopSteps
<1>4. k.op \in {"idle", "loop", "send"} /\ (k.op = "send" => k.event.type \notin UnmountedTypes)
  BY <1>1, <1>3 DEF Idle, LoopGoes, SendCall, LoopIssues
<1>5. log' = log \/ \E e : e.type \notin UnmountedTypes /\ log' = Append(log, e)
  BY <1>1, LoopStepIs DEF LoopSteps, LoopIssues
<1>6. Apart(c, UnmountedTypes, {"mounted"})
  BY <1>2, <1>3, <1>4, <1>5 DEF Apart
<1>. QED  BY <1>6, ApartIs

LEMMA MountedUnmounted ==
    ASSUME Formed, Unmounted, NEW c \in Caller, MountedNext(c)
    PROVE  Beside(c, UnmountedTypes, {"mounted"})
<1>1. call[c].op # "mounted" /\ \A op \in MountedCalls : ~Makes(c, op)
  BY BarredMakes DEF Unmounted
<1>2. ChangePolicy(c) \/ AppendElsewhere(c)
  <2>1. \A run : ~RequestRun(c, run)
    BY <1>1 DEF RequestRun, MountedCalls
  <2>2. ~TakeUp(c) /\ ~FindStale(c) /\ ~AskCancel(c)
    BY <1>1 DEF TakeUp, FindStale, AskCancel, MountedCalls
  <2>3. ~ (\/ AppendAdmission(c) \/ DiagnoseStale(c) \/ Examine(c) \/ BindHandoff(c) \/ StartRun(c)
           \/ AppendStarted(c) \/ EnterTask(c) \/ AppendRunning(c) \/ EnterGate(c)
           \/ LeaveGate(c) \/ FailStore(c) \/ CancelMounted(c))
    BY <1>1 DEF AppendAdmission, DiagnoseStale, Examine, BindHandoff, StartRun, AppendStarted,
       EnterTask, AppendRunning, EnterGate, LeaveGate, FailStore, CancelMounted, Is, Inside
  <2>4. ~ (\/ InvokeModel(c) \/ AppendInvoked(c) \/ AppendAnswered(c) \/ ReturnAnswer(c)
           \/ ReadMountedStage(c) \/ ReadFence(c) \/ AppendStage(c) \/ RecoverMounted(c)
           \/ ConsumeHandoff(c) \/ ReadMemory(c) \/ AppendMemory(c)
           \/ AskTransfer(c) \/ SuspendTask(c))
    BY <1>1 DEF InvokeModel, AppendInvoked, AppendAnswered, ReturnAnswer, ReadMountedStage,
       ReadFence, AppendStage, RecoverMounted, ConsumeHandoff, ReadMemory, AppendMemory,
       AskTransfer, SuspendTask, Is, Inside
  <2>. QED  BY <2>1, <2>2, <2>3, <2>4 DEF MountedNext
<1>3. PICK op, e : Interfere(c, op, e) /\ e.type \notin UnmountedTypes
  BY <1>2 DEF ChangePolicy, AppendElsewhere, PolicyChanged, Elsewhere, UnmountedTypes
<1>4. call[c].op = "idle" /\ log' = Append(log, e) /\ call' = [call EXCEPT ![c] = Idle]
  BY <1>3, MakesIsIdle DEF Interfere, Formed
<1>5. Idle.op = "idle"
  BY DEF Idle
<1>6. Apart(c, UnmountedTypes, {"mounted"})
  BY <1>3, <1>4, <1>5 DEF Apart
<1>. QED  BY <1>6, ApartIs

LEMMA StepUnmounted ==
    ASSUME Formed, ChainsHeld, Unmounted, NEW c \in Caller, CallSteps(c)
    PROVE  Unmounted'
<1>. DEFINE T == UnmountedTypes
            O == {"mounted"}
<1>1. /\ Spares(T, O, LetterTypes, LetterOps) /\ Spares(T, O, MemoryTypes, MemoryOps)
      /\ Spares(T, O, TriggerTypes, TriggerOps) /\ Spares(T, O, KnowledgeTypes, {"decide"})
      /\ Spares(T, O, {}, Rebuilding)
  BY DEF Spares, UnmountedTypes, LetterTypes, LetterOps, MemoryTypes, MemoryOps,
         TriggerTypes, TriggerOps, KnowledgeTypes, Rebuilding
<1>2. Spends
  BY StepSpends
<1>3. call[c].op # "mounted" /\ (call[c].op = "send" => call[c].event.type \notin T)
  BY DEF Unmounted
<1>4. "idle" \notin O /\ "send" \notin O
  OBVIOUS
<1>. HIDE DEF T, O
<1>5. SUFFICES Beside(c, T, O)
  BY <1>2, BesideUnmounted DEF T, O
<1>6. CASE CorrespondenceNext(c)
  BY <1>1, <1>6, LetterStepIs
<1>7. CASE MemoryNext(c)
  BY <1>1, <1>7, MemoryStepIs
<1>8. CASE TriggerNext(c)
  BY <1>1, <1>8, TriggerStepIs
<1>9. CASE KnowledgeNext(c)
  BY <1>1, <1>9, KnowledgeStepIs
<1>10. CASE RebuildNext(c)
  BY <1>1, <1>10, RebuildStepIs
<1>11. CASE HandoffNext(c)
  <2>1. T \intersect (HandTypes \union {"step"}) = {}
        /\ O \intersect {"idle", "send", "reach", "extend"} = {}
    BY DEF T, O, UnmountedTypes, HandTypes, Stages
  <2>. QED  BY <1>11, <2>1, HandoffApart
<1>12. CASE MountedNext(c)
  BY <1>12, MountedUnmounted DEF T, O
<1>13. CASE LoopNext(c)
  BY <1>13, LoopUnmounted DEF T, O
<1>14. CASE SendLetter(c)
  <2>1. Send(c)
    BY <1>14 DEF SendLetter
  <2>2. call[c].op = "send"
    BY <2>1 DEF Send
  <2>. QED  BY <1>3, <1>4, <2>1, <2>2, SendIs
<1>15. CASE DieWithLetter(c)
  <2>1. Die(c)
    BY <1>15 DEF DieWithLetter
  <2>2. call[c].op \notin O
    BY <1>3 DEF O
  <2>. QED  BY <1>3, <1>4, <2>1, <2>2, DieIs
<1>. QED  BY <1>6, <1>7, <1>8, <1>9, <1>10, <1>11, <1>12, <1>13, <1>14, <1>15 DEF CallSteps

----------------------------------------------------------------------------
(* A canceled task, and a completed one, in a ledger.                      *)

\* What may still be appended when a task is canceled.
Harmless(e) ==
    \/ ~IsBound(e)
    \/ e \in {TaskCanceled, TaskWaiting("remote"), Invoked, Answered, TransferRequested}

Concluded(s) == TaskStatus(s) = "completed" /\ RunState(s, "local") = "completed"

\* The ledger has nothing of a task after its cancellation, and one memory of a
\* completion that was one.
EndsLedger(s) ==
    /\ \A i \in OfType(s, "status") : s[i].status = "canceled" =>
        /\ s[i].stream = TaskStream
        /\ \A j \in DOMAIN s : i < j => Harmless(s[j])
    /\ \A i \in OfType(s, "completion-memory") :
        /\ \A j \in OfType(s, "completion-memory") : i = j
        /\ Concluded(Prefix(s, i))

\* What an event must be to be appended by an execution.
JoinsEnd(s, e) ==
    /\ Harmless(e) \/ TaskStatus(s) \in {"queued", "running"}
    /\ e.type = "status" /\ e.status = "canceled" => e.stream = TaskStream
    /\ e.type = "completion-memory" =>
        /\ OfType(s, "completion-memory") = {} /\ Concluded(s)
        /\ e.stream \notin {TaskStream, StreamOf("local")}
    /\ e.stream = TaskStream => e = TaskCanceled \/ StatusOf(e) # "canceled"

LEMMA StatusStays ==
    ASSUME NEW s, NEW t, Extends(s, t), \A i \in Since(s, t) : t[i].stream # TaskStream
    PROVE  TaskStatus(t) = TaskStatus(s)
<1> DEFINE P == InStream(s, TaskStream)
           n == CHOOSE i \in Latest(P) : TRUE
<1>1. InStream(t, TaskStream) = P /\ \A i \in P : t[i] = s[i]
  BY OtherStreamsStay
<1>2. CASE P = {}
  BY <1>1, <1>2 DEF TaskStatus
<1>3. CASE P # {}
  <2>1. IsLedger(s) /\ P \subseteq 1..Len(s)
    BY DEF Extends, InStream
  <2>2. PICK i \in P : \A j \in P : j <= i
    BY <1>3, <2>1, LastExists
  <2>3. n \in P
    BY <2>2 DEF Latest
  <2>4. t[n] = s[n]
    BY <1>1, <2>3
  <2>. QED  BY <1>1, <2>4 DEF TaskStatus
<1>. QED  BY <1>2, <1>3

LEMMA StatusJoins ==
    ASSUME NEW s, IsLedger(s), NEW e, e.stream = TaskStream
    PROVE  TaskStatus(Append(s, e)) = StatusOf(e)
<1> DEFINE t == Append(s, e)
           P == InStream(t, TaskStream)
<1>1. Grows(s, t, e)
  BY GrowsByAppend
<1>2. Len(t) \in P /\ P \subseteq 1..Len(t) /\ t[Len(t)] = e /\ Len(t) \in Nat
  BY <1>1 DEF Grows, InStream
<1>3. Latest(P) = {Len(t)}
  BY <1>2 DEF Latest
<1>. QED  BY <1>2, <1>3 DEF TaskStatus

LEMMA RunStays ==
    ASSUME NEW s, NEW t, Extends(s, t), NEW run, \A i \in Since(s, t) : t[i].stream # StreamOf(run)
    PROVE  RunState(t, run) = RunState(s, run)
<1> DEFINE P == InStream(s, StreamOf(run))
           A == {i \in P : s[i].type = "run-started"}
           B == {i \in P : s[i].type = "terminal"}
           n == CHOOSE i \in Latest(B) : TRUE
<1>1. InStream(t, StreamOf(run)) = P /\ \A i \in P : t[i] = s[i]
  BY OtherStreamsStay
<1>2. /\ {i \in P : t[i].type = "run-started"} = A
      /\ {i \in P : t[i].type = "terminal"} = B
  BY <1>1
<1>3. CASE B = {}
  BY <1>1, <1>2, <1>3 DEF RunState
<1>4. CASE B # {}
  <2>1. IsLedger(s) /\ B \subseteq 1..Len(s)
    BY DEF Extends, InStream
  <2>2. PICK i \in B : \A j \in B : j <= i
    BY <1>4, <2>1, LastExists
  <2>3. n \in B
    BY <2>2 DEF Latest
  <2>4. t[n] = s[n]
    BY <1>1, <2>3
  <2>5. RunState(s, run) = IF A = {} THEN "absent" ELSE s[n].status
    BY <1>4 DEF RunState
  <2> DEFINE A2 == {j \in InStream(t, StreamOf(run)) : t[j].type = "run-started"}
             B2 == {j \in InStream(t, StreamOf(run)) : t[j].type = "terminal"}
  <2>6. RunState(t, run) = IF A2 = {} THEN "absent" ELSE IF B2 = {} THEN "running"
            ELSE t[CHOOSE j \in Latest(B2) : TRUE].status
    BY DEF RunState
  <2>7. A2 = A /\ B2 = B
    BY <1>1, <1>2
  <2>. HIDE DEF A, B, A2, B2
  <2>. QED  BY <1>4, <2>4, <2>5, <2>6, <2>7
<1>. QED  BY <1>3, <1>4

\* A task that was canceled stays so, or is left waiting.
LEMMA CanceledStays ==
    ASSUME NEW s, IsLedger(s), EndsLedger(s), NEW i \in OfType(s, "status"), s[i].status = "canceled"
    PROVE  TaskStatus(s) \in {"canceled", "waiting"}
<1> DEFINE P == InStream(s, TaskStream)
           n == CHOOSE k \in Latest(P) : TRUE
<1>1. s[i].stream = TaskStream /\ i \in P /\ P \subseteq DOMAIN s
  BY DEF EndsLedger, OfType, InStream
<1>2. DOMAIN s = 1..Len(s) /\ Len(s) \in Nat
  BY LedgerFacts
<1>3. PICK k \in P : \A j \in P : j <= k
  BY <1>1, <1>2, LastExists
<1>4. n \in P /\ \A j \in P : j <= n
  BY <1>3 DEF Latest
<1>5. TaskStatus(s) = StatusOf(s[n])
  BY <1>1 DEF TaskStatus
<1>. HIDE DEF n
<1>6. CASE n = i
  <2>1. s[n].type = "status" /\ s[n].status = "canceled"
    BY <1>6 DEF OfType
  <2>2. \A e : e.type = "status" => StatusOf(e) = e.status
    BY DEF StatusOf
  <2>3. StatusOf(s[n]) = "canceled"
    BY <2>1, <2>2
  <2>. QED  BY <1>5, <2>3
<1>7. CASE n # i
  <2>1. i < n /\ n \in DOMAIN s
    <3>1. n \in 1..Len(s) /\ i \in 1..Len(s) /\ i <= n /\ n # i
      BY <1>1, <1>2, <1>4, <1>7
    <3>. QED  BY <1>2, <3>1
  <2>2. Harmless(s[n]) /\ s[n].stream = TaskStream
    BY <1>4, <2>1 DEF EndsLedger, InStream
  <2>3. s[n] \in {TaskCanceled, TaskWaiting("remote")}
    BY <2>2, OwnStreams DEF Harmless, IsBound, BoundStream, Invoked, Answered, TransferRequested,
       InvocationStream, TransferStream, TaskStream
  <2>. QED  BY <1>5, <2>3 DEF StatusOf, TaskCanceled, TaskWaiting
<1>. QED  BY <1>6, <1>7

\* Events of other services end nothing.
LEMMA BesideEnds ==
    ASSUME NEW s, NEW t, Extends(s, t), EndsLedger(s),
           \A i \in Since(s, t) : ~IsBound(t[i]) /\ t[i].type \notin {"status", "completion-memory"}
    PROVE  EndsLedger(t) /\ TaskStatus(t) = TaskStatus(s)
<1>1. \A i \in Since(s, t) : t[i].stream # TaskStream
  BY DEF IsBound, BoundStream
<1>2. OfType(t, "status") = OfType(s, "status") /\ OfType(t, "completion-memory") = OfType(s, "completion-memory")
  BY OtherTypesLast
<1>3. \A type, i : i \in OfType(s, type) => i \in 1..Len(s) /\ t[i] = s[i]
  BY OfTypeExtends
<1>4. \A j \in DOMAIN t : (j \in DOMAIN s /\ t[j] = s[j]) \/ j \in Since(s, t)
  BY DEF Extends, Since
<1>5. \A i \in OfType(s, "completion-memory") : Prefix(t, i) = Prefix(s, i)
  BY <1>3, PrefixesStay DEF Extends
<1>6. ASSUME NEW i \in OfType(s, "status"), s[i].status = "canceled", NEW j \in DOMAIN t, i < j
      PROVE  Harmless(t[j])
  BY <1>4, <1>6 DEF EndsLedger, Harmless
<1>. QED  BY <1>1, <1>2, <1>3, <1>5, <1>6, StatusStays DEF EndsLedger

\* Nor does what an execution may append.
LEMMA JoinedEnds ==
    ASSUME NEW s, IsLedger(s), EndsLedger(s), NEW e, JoinsEnd(s, e)
    PROVE  /\ EndsLedger(Append(s, e))
           /\ e # TaskCanceled /\ TaskStatus(s) # "canceled" => TaskStatus(Append(s, e)) # "canceled"
<1> DEFINE t == Append(s, e)
<1>1. /\ Extends(s, t) /\ Since(s, t) = {Len(s) + 1} /\ t[Len(s) + 1] = e
      /\ Len(t) = Len(s) + 1 /\ IsLedger(t)
  BY AppendExtends DEF Extends
<1>2. /\ DOMAIN s = 1..Len(s) /\ DOMAIN t = 1..(Len(s) + 1) /\ Len(s) \in Nat
      /\ \A i \in 1..Len(s) : t[i] = s[i]
  BY <1>1 DEF Extends
<1>3. \A type, i : i \in OfType(t, type) <=> i \in OfType(s, type) \/ (i = Len(s) + 1 /\ e.type = type)
  <2>1. SUFFICES ASSUME NEW type, NEW i
                 PROVE  i \in OfType(t, type) <=> i \in OfType(s, type) \/ (i = Len(s) + 1 /\ e.type = type)
    OBVIOUS
  <2>2. i \in OfType(t, type) <=> i \in OfType(s, type) \/ (i \in Since(s, t) /\ t[i].type = type)
    BY <1>1, OfTypeExtends
  <2>. QED  BY <1>1, <2>2
<1>4. \A type, i : i \in OfType(s, type) => i \in 1..Len(s) /\ t[i] = s[i]
  BY <1>1, OfTypeExtends
<1>. HIDE DEF t
<1>5. ASSUME NEW i \in OfType(t, "status"), t[i].status = "canceled"
      PROVE  /\ t[i].stream = TaskStream
             /\ \A j \in DOMAIN t : i < j => Harmless(t[j])
  <2>1. CASE i = Len(s) + 1
    BY <1>1, <1>2, <1>5, <2>1 DEF JoinsEnd, OfType
  <2>2. CASE i \in OfType(s, "status")
    <3>1. s[i].status = "canceled" /\ t[i] = s[i]
      BY <1>4, <1>5, <2>2
    <3>2. Harmless(e)
      BY <2>2, <3>1, CanceledStays DEF JoinsEnd
    <3>. QED  BY <1>1, <1>2, <2>2, <3>1, <3>2 DEF EndsLedger
  <2>. QED  BY <1>3, <2>1, <2>2
<1>6. ASSUME NEW i \in OfType(t, "completion-memory")
      PROVE  /\ \A j \in OfType(t, "completion-memory") : i = j
             /\ Concluded(Prefix(t, i))
  <2>1. CASE e.type = "completion-memory"
    <3>1. OfType(t, "completion-memory") = {Len(s) + 1}
      BY <1>3, <2>1 DEF JoinsEnd
    <3>2. Prefix(t, i) = t
      BY <1>1, <3>1, LedgerFacts
    <3>3. TaskStatus(t) = TaskStatus(s) /\ RunState(t, "local") = RunState(s, "local")
      BY <1>1, <2>1, StatusStays, RunStays DEF JoinsEnd
    <3>. QED  BY <2>1, <3>1, <3>2, <3>3 DEF JoinsEnd, Concluded
  <2>2. CASE e.type # "completion-memory"
    <3>1. OfType(t, "completion-memory") = OfType(s, "completion-memory")
      BY <1>3, <2>2
    <3>2. Prefix(t, i) = Prefix(s, i)
      BY <1>1, <1>2, <1>4, <3>1, PrefixesStay
    <3>. QED  BY <3>1, <3>2 DEF EndsLedger
  <2>. QED  BY <2>1, <2>2
<1>7. ASSUME e # TaskCanceled, TaskStatus(s) # "canceled"
      PROVE  TaskStatus(t) # "canceled"
  <2>1. CASE e.stream = TaskStream
    BY <1>7, <2>1, StatusJoins DEF JoinsEnd, t
  <2>2. CASE e.stream # TaskStream
    BY <1>1, <1>7, <2>2, StatusStays
  <2>. QED  BY <2>1, <2>2
<1>. QED  BY <1>5, <1>6, <1>7 DEF EndsLedger, t

----------------------------------------------------------------------------
(* Where nobody but executions works on the run.                           *)

\* Where an append that is conditional on the whole ledger was decided.
Turning == {"storing", "admitting", "starting", "entered", "append", "remembering"}

\* If the ledger is as it was read, what would be appended fits.
Turn(s, k) ==
    /\ k.at \in {"storing", "admitting", "starting", "entered"} => TaskStatus(s) = "queued"
    /\ k.at = "append" => TaskStatus(s) = "running"
    /\ k.at = "remembering" => OfType(s, "completion-memory") = {}

\* Who writes an artifact knows that the task is not canceled.
EndFits(s, k) ==
    /\ k.op \notin {"reach", "extend", "loop"}
    /\ k.op = "send" => k.event.type \in ServiceTypes \/ k.event = TaskWaiting("remote")
    /\ k.op = "mounted" =>
        /\ k.base \in Nat /\ k.base <= Len(s)
        /\ k.base = Len(s) => Turn(s, k)
        /\ k.inside => k.at = "canceling" \/ TaskStatus(s) # "canceled"

Within(k) == k.op = "mounted" /\ k.inside

MountedAlone ==
    /\ Barred(RivalCalls) /\ EndsLedger(log)
    /\ \A d \in Caller : EndFits(log, call[d])
    /\ \A c, d \in Caller : Inside(c) /\ Inside(d) => c = d

LEMMA AloneStep ==
    ASSUME Formed, MountedAlone, NEW c \in Caller, Spends,
           NEW n, call' = [call EXCEPT ![c] = n], EndFits(log', n),
           Extends(log, log'), EndsLedger(log'),
           TaskStatus(log) # "canceled" => TaskStatus(log') # "canceled" \/ Inside(c),
           Within(n) => \A d \in Caller : ~Inside(d)
    PROVE  MountedAlone'
<1>1. Barred(RivalCalls)'
  BY BarredStays DEF MountedAlone
<1>2. call'[c] = n /\ \A d \in Caller : d # c => call'[d] = call[d]
  BY DEF Formed
<1>3. ASSUME NEW d \in Caller, d # c
      PROVE  EndFits(log', call[d])
  <2> DEFINE k == call[d]
  <2>1. EndFits(log, k)
    BY DEF MountedAlone
  <2>2. CASE Len(log') = Len(log)
    <3>1. log' = log
      BY <2>2, SameLength
    <3>. QED  BY <2>1, <3>1
  <2>3. CASE Len(log') # Len(log)
    <3>1. Len(log) \in Nat /\ Len(log') \in Nat /\ Len(log) < Len(log')
      <4>1. Len(log) \in Nat /\ Len(log') \in Nat /\ Len(log) <= Len(log')
        BY DEF Extends
      <4>. QED  BY <2>3, <4>1
    <3>2. SUFFICES ASSUME k.op = "mounted"
                   PROVE  /\ k.base \in Nat /\ k.base <= Len(log') /\ k.base # Len(log')
                          /\ k.inside => k.at = "canceling" \/ TaskStatus(log') # "canceled"
      BY <2>1 DEF EndFits
    <3>3. k.base \in Nat /\ k.base <= Len(log') /\ k.base # Len(log')
      BY <2>1, <3>1, <3>2 DEF EndFits
    <3>4. ASSUME k.inside
          PROVE  k.at = "canceling" \/ TaskStatus(log') # "canceled"
      <4>1. Inside(d)
        BY <3>2, <3>4 DEF Inside
      <4>2. ~Inside(c)
        BY <1>3, <4>1 DEF MountedAlone
      <4>. QED  BY <2>1, <3>2, <3>4, <4>2 DEF EndFits
    <3>. QED  BY <3>3, <3>4
  <2>. QED  BY <2>2, <2>3
<1>4. \A d \in Caller : EndFits(log', call'[d])
  BY <1>2, <1>3
<1>5. \A d \in Caller : Inside(d)' <=> (IF d = c THEN Within(n) ELSE Inside(d))
  BY <1>2 DEF Inside, Within
<1>6. \A b, d \in Caller : Inside(b)' /\ Inside(d)' => b = d
  BY <1>5 DEF MountedAlone
<1>. QED  BY <1>1, <1>4, <1>6 DEF MountedAlone

\* A step that changes the call alone.
LEMMA AloneQuiet ==
    ASSUME Formed, MountedAlone, NEW c \in Caller, Spends,
           NEW n, call' = [call EXCEPT ![c] = n], EndFits(log, n), log' = log,
           Within(n) => \A d \in Caller : ~Inside(d)
    PROVE  MountedAlone'
BY AloneStep, ExtendsItself DEF Formed, MountedAlone

\* A step that appends an event, too.
LEMMA AloneJoins ==
    ASSUME Formed, MountedAlone, NEW c \in Caller, Spends,
           NEW e, log' = Append(log, e), JoinsEnd(log, e), e # TaskCanceled \/ Inside(c),
           NEW n, call' = [call EXCEPT ![c] = n], EndFits(log', n), ~Within(n)
    PROVE  MountedAlone'
<1>1. IsLedger(log) /\ EndsLedger(log)
  BY DEF Formed, MountedAlone
<1>2. /\ EndsLedger(log')
      /\ e # TaskCanceled /\ TaskStatus(log) # "canceled" => TaskStatus(log') # "canceled"
  BY <1>1, JoinedEnds
<1>3. Extends(log, log')
  BY <1>1, AppendExtends
<1>. QED  BY <1>2, <1>3, AloneStep

LEMMA IdleFits ==
    ASSUME NEW s
    PROVE  EndFits(s, Idle) /\ ~Within(Idle)
BY DEF EndFits, Within, Idle

\* Events of other services are not of the task.
LEMMA ServiceEventIs ==
    ASSUME NEW e, WellFormed(e), e.type \in ServiceTypes
    PROVE  ~IsBound(e) /\ e.type \notin {"status", "completion-memory"}
<1>1. e.type \notin {"status", "completion-memory"}
  BY DEF ServiceTypes, Kind, MemoryTypes
<1>2. BoundStream \subseteq RunStreams /\ BoundStream \subseteq ServiceStreams
  BY DEF BoundStream, RunStreams, ServiceStreams, StreamOf, Run
<1>3. MountStream \notin BoundStream /\ DecisionStream \notin BoundStream
  BY DEF BoundStream, MountStream, DecisionStream, TaskStream, AttemptStream, InvocationStream,
     TransferStream, StreamOf, RunStream, AdmissionStream
<1>4. \A g : TriggerStream(g) \notin BoundStream
  BY DEF BoundStream, TriggerStream, TaskStream, AttemptStream, InvocationStream,
     TransferStream, StreamOf, RunStream, AdmissionStream
<1>5. \A m : MemoryStream(m) \notin BoundStream
  BY <1>2, StreamsApart
<1>6. \A r \in Request : r \notin BoundStream
  BY <1>2, StreamsApart
<1>7. e.stream \in Request \/ e.stream \in {MountStream, DecisionStream}
      \/ (\E g : e.stream = TriggerStream(g)) \/ (\E m : e.stream = MemoryStream(m))
  BY EventsOfDecisions, MemoryEventIs DEF WellFormed
<1>. QED  BY <1>1, <1>3, <1>4, <1>5, <1>6, <1>7 DEF IsBound

LEMMA ServicesAlone ==
    ASSUME Formed, MountedAlone, NEW c \in Caller, CallSteps(c),
           \/ CorrespondenceNext(c) \/ MemoryNext(c) \/ TriggerNext(c)
           \/ KnowledgeNext(c) \/ RebuildNext(c)
    PROVE  MountedAlone'
<1> DEFINE T == ({log'[i].type : i \in DOMAIN log'} \union {call[c].event.type, call'[c].event.type})
                    \ ServiceTypes
           n == call'[c]
<1>1. /\ Spares(T, RunOps, LetterTypes, LetterOps) /\ Spares(T, RunOps, MemoryTypes, MemoryOps)
      /\ Spares(T, RunOps, TriggerTypes, TriggerOps) /\ Spares(T, RunOps, KnowledgeTypes, {"decide"})
      /\ Spares(T, RunOps, {}, Rebuilding)
  <2>1. LetterTypes \union MemoryTypes \union TriggerTypes \union KnowledgeTypes \subseteq ServiceTypes
    BY DEF LetterTypes, TriggerTypes, KnowledgeTypes, ServiceTypes, Kind
  <2>2. RunOps \intersect (LetterOps \union MemoryOps \union TriggerOps \union {"decide"}
            \union Rebuilding \union {"idle", "send"}) = {}
    BY DEF RunOps, LetterOps, MemoryOps, TriggerOps, Rebuilding
  <2>. QED  BY <2>1, <2>2 DEF Spares
<1>2. Beside(c, T, RunOps)
  <2>. HIDE DEF T
  <2>. QED  BY <1>1, LetterStepIs, MemoryStepIs, TriggerStepIs, KnowledgeStepIs, RebuildStepIs
<1>3. Forms(c) /\ Spends
  BY StepForms, StepSpends
<1>4. Extends(log, log') /\ call' = [call EXCEPT ![c] = n] /\ n.op \notin RunOps
      /\ (n.op = "send" => n.event.type \in ServiceTypes)
  BY <1>2 DEF Beside
<1>5. \A i \in Since(log, log') : log'[i].type \in ServiceTypes /\ WellFormed(log'[i])
  <2>1. \A i \in Since(log, log') : i \in DOMAIN log' /\ log'[i].type \notin T
    BY <1>2 DEF Beside, Extends, Since
  <2>. QED  BY <1>3, <2>1 DEF Forms
<1>6. EndsLedger(log') /\ TaskStatus(log') = TaskStatus(log)
  BY <1>4, <1>5, ServiceEventIs, BesideEnds DEF MountedAlone
<1>7. EndFits(log', n) /\ ~Within(n)
  BY <1>4 DEF EndFits, Within, RunOps
<1>. QED  BY <1>3, <1>4, <1>6, <1>7, AloneStep

LEMMA SendAlone ==
    ASSUME Formed, MountedAlone, NEW c \in Caller, Spends, Send(c)
    PROVE  MountedAlone'
<1> DEFINE e == call[c].event
<1>1. /\ WellFormed(e) /\ call' = [call EXCEPT ![c] = Idle]
      /\ log' = log \/ log' = Append(log, e)
  BY SendIs DEF SendCall, Send
<1>2. e.type \in ServiceTypes \/ e = TaskWaiting("remote")
  BY DEF MountedAlone, EndFits, Send
<1>3. JoinsEnd(log, e) /\ e # TaskCanceled
  <2>1. CASE e.type \in ServiceTypes
    <3>1. ~IsBound(e) /\ e.type \notin {"status", "completion-memory"}
      BY <1>1, <2>1, ServiceEventIs
    <3>. QED  BY <3>1 DEF JoinsEnd, Harmless, IsBound, BoundStream, TaskCanceled
  <2>2. CASE e = TaskWaiting("remote")
    <3>1. e.type = "task-waiting" /\ StatusOf(e) = "waiting"
      BY <2>2 DEF TaskWaiting, StatusOf
    <3>. QED  BY <2>2, <3>1 DEF JoinsEnd, Harmless, TaskCanceled
  <2>. QED  BY <1>2, <2>1, <2>2
<1>. HIDE DEF e
<1>. QED  BY <1>1, <1>3, AloneQuiet, AloneJoins, IdleFits

LEMMA NoRivals ==
    ASSUME MountedAlone, NEW c \in Caller
    PROVE  ~HandoffNext(c) /\ ~LoopNext(c)
<1>1. call[c].op \notin {"reach", "extend", "loop"} /\ \A op \in RivalCalls : ~Makes(c, op)
  BY BarredMakes DEF MountedAlone, EndFits
<1>2. ~HandoffNext(c)
  BY <1>1 DEF HandoffNext, AppendFinalOutput, RecordHandoff, FinalizeRun, RecoverSuffix, ReachStage,
     ExtendChain, AppendStep, AppendFailure, CancelTask, Interfere, RivalCalls
<1>3. ~LoopNext(c)
  <2>1. ~BindLoop(c) /\ \A verdict : ~DecideTool(c, verdict)
    BY <1>1 DEF BindLoop, DecideTool, RivalCalls
  <2>2. ~ (\/ AdvanceLoop(c) \/ ObserveContext(c) \/ RequestTool(c) \/ CheckRequest(c)
           \/ ReadDecision(c) \/ ClaimTool(c) \/ InvokeTool(c) \/ ObserveOutcome(c)
           \/ CompleteTool(c) \/ FailGateway(c) \/ CheckExecution(c) \/ RereadTool(c))
    BY <1>1 DEF AdvanceLoop, ObserveContext, RequestTool, CheckRequest, ReadDecision, ClaimTool,
       InvokeTool, ObserveOutcome, CompleteTool, FailGateway, CheckExecution, RereadTool,
       Opens, ToolAppends, Goes, LoopAt
  <2>3. ~ (\/ RecordTool(c) \/ FinishLoop(c) \/ SuspendLoop(c) \/ ReadSuspension(c)
           \/ AppendSuspension(c) \/ ResumeLoop(c) \/ CheckReclaim(c) \/ ReadReclaim(c)
           \/ AppendReclaim(c) \/ DropLoop(c))
    BY <1>1 DEF RecordTool, FinishLoop, SuspendLoop, ReadSuspension, AppendSuspension, ResumeLoop,
       CheckReclaim, ReadReclaim, AppendReclaim, DropLoop, LoopAt
  <2>4. ~ (\/ ReadHandoff(c) \/ RereadReclaim(c) \/ TakeClaim(c) \/ ReplayLoop(c)
           \/ RecordRecovery(c))
    BY <1>1 DEF ReadHandoff, RereadReclaim, TakeClaim, ReplayLoop, RecordRecovery, Goes, Opens,
       LoopAt
  <2>. QED  BY <2>1, <2>2, <2>3, <2>4 DEF LoopNext
<1>. QED  BY <1>2, <1>3

----------------------------------------------------------------------------
(* Where nobody but executions works on the run: the ways a step goes.     *)

\* What an execution appends, if anything.
EndingAppend(c) ==
    \/ log' = log
    \/ \E e : JoinsEnd(log, e) /\ (e # TaskCanceled \/ Inside(c)) /\ log' = Append(log, e)

\* An execution at a place that nothing is decided at.
Strays(s, n) ==
    /\ n.op = "mounted" /\ n.base \in Nat /\ n.base <= Len(s)
    /\ n.inside = FALSE /\ n.at \notin Turning

LEMMA AloneReturns ==
    ASSUME Formed, MountedAlone, NEW c \in Caller, Spends, Returns(c), EndingAppend(c)
    PROVE  MountedAlone'
<1>1. call' = [call EXCEPT ![c] = Idle]
  BY DEF Returns
<1>2. CASE log' = log
  BY <1>1, <1>2, AloneQuiet, IdleFits
<1>3. ASSUME NEW e, JoinsEnd(log, e), e # TaskCanceled \/ Inside(c), log' = Append(log, e)
      PROVE  MountedAlone'
  BY <1>1, <1>3, AloneJoins, IdleFits
<1>. QED  BY <1>2, <1>3 DEF EndingAppend

LEMMA AloneStrays ==
    ASSUME Formed, MountedAlone, NEW c \in Caller, Spends,
           NEW n, call' = [call EXCEPT ![c] = n], Strays(log, n), EndingAppend(c)
    PROVE  MountedAlone'
<1>1. \A s : Strays(s, n) => EndFits(s, n) /\ ~Within(n)
  BY DEF Strays, EndFits, Turn, Turning, Within
<1>2. CASE log' = log
  BY <1>1, <1>2, AloneQuiet
<1>3. ASSUME NEW e, JoinsEnd(log, e), e # TaskCanceled \/ Inside(c), log' = Append(log, e)
      PROVE  MountedAlone'
  <2>1. Len(log) \in Nat /\ Len(log') = Len(log) + 1
    BY <1>3, AppendExtends, LedgerFacts DEF Formed
  <2>2. Strays(log', n)
    BY <2>1 DEF Strays
  <2>. QED  BY <1>1, <1>3, <2>2, AloneJoins
<1>. QED  BY <1>2, <1>3 DEF EndingAppend

\* An execution that decides on an append, or still has one to make.
LEMMA AloneTurns ==
    ASSUME Formed, MountedAlone, NEW c \in Caller, Spends, log' = log,
           NEW n, call' = [call EXCEPT ![c] = n],
           n.op = "mounted", n.base \in Nat, n.base <= Len(log), n.inside = FALSE,
           n.base = Len(log) => Turn(log, n)
    PROVE  MountedAlone'
<1>1. EndFits(log, n) /\ ~Within(n)
  BY DEF EndFits, Within
<1>. QED  BY <1>1, AloneQuiet

LEMMA BaseIs ==
    ASSUME Formed, MountedAlone, NEW c \in Caller, call[c].op = "mounted"
    PROVE  /\ call[c].base \in Nat /\ call[c].base <= Len(log) /\ Len(log) \in Nat
           /\ call[c].base = Len(log) => Turn(log, call[c])
           /\ DOMAIN call[c] = MountedFields
           /\ call[c].at \notin Gated => call[c].inside = FALSE
BY MountedIs, LedgerFacts DEF MountedAlone, EndFits, Formed, MountedCall

LEMMA AloneProceeds ==
    ASSUME Formed, MountedAlone, NEW c \in Caller, Spends,
           call[c].op = "mounted", call[c].at \notin Gated, NEW at, at \notin Turning,
           Proceeds(c, at) \/ ProceedsKnowing(c, at), EndingAppend(c)
    PROVE  MountedAlone'
<1> DEFINE k == [call[c] EXCEPT !.at = at]
           l == [call[c] EXCEPT !.at = at, !.base = Len(log)]
<1>0. /\ call[c].base \in Nat /\ call[c].base <= Len(log) /\ Len(log) \in Nat
      /\ DOMAIN call[c] = MountedFields /\ call[c].inside = FALSE
  BY BaseIs
<1>1. Strays(log, k) /\ Strays(log, l)
  BY <1>0 DEF Strays, MountedFields
<1>2. call' = [call EXCEPT ![c] = k] \/ call' = [call EXCEPT ![c] = l]
  BY DEF Proceeds, ProceedsKnowing
<1>. HIDE DEF k, l
<1>. QED  BY <1>1, <1>2, AloneStrays

LEMMA AloneKnowing ==
    ASSUME Formed, MountedAlone, NEW c \in Caller, Spends, log' = log,
           call[c].op = "mounted", call[c].at \notin Gated, NEW at, ProceedsKnowing(c, at),
           \/ at \in {"starting", "entered"} /\ TaskStatus(log) = "queued"
           \/ at = "append" /\ TaskStatus(log) = "running"
           \/ at = "remembering" /\ OfType(log, "completion-memory") = {}
    PROVE  MountedAlone'
<1> DEFINE n == [call[c] EXCEPT !.at = at, !.base = Len(log)]
<1>0. /\ call[c].base \in Nat /\ call[c].base <= Len(log) /\ Len(log) \in Nat
      /\ DOMAIN call[c] = MountedFields /\ call[c].inside = FALSE
  BY BaseIs
<1>1. n.op = "mounted" /\ n.base \in Nat /\ n.base <= Len(log) /\ n.inside = FALSE /\ n.at = at
  BY <1>0 DEF MountedFields
<1>2. Turn(log, n)
  BY <1>1 DEF Turn
<1>3. call' = [call EXCEPT ![c] = n]
  BY DEF ProceedsKnowing
<1>. HIDE DEF n
<1>. QED  BY <1>1, <1>2, <1>3, AloneTurns

LEMMA ExecutionStrays ==
    ASSUME Formed, NEW run, NEW at, at \notin Turning
    PROVE  Strays(log, Execution(run, at))
BY LedgerFacts DEF Formed, Strays, Execution

LEMMA AloneAppendsLast ==
    ASSUME Formed, MountedAlone, NEW c \in Caller, Spends, NEW e, AppendsLast(c, e),
           call[c].base = Len(log) => JoinsEnd(log, e) /\ (e # TaskCanceled \/ Inside(c))
    PROVE  MountedAlone'
<1>1. Returns(c) /\ EndingAppend(c)
  BY DEF AppendsLast, EndingAppend
<1>. QED  BY <1>1, AloneReturns

LEMMA AloneAppendsOr ==
    ASSUME Formed, MountedAlone, NEW c \in Caller, Spends,
           call[c].op = "mounted", call[c].at \notin Gated,
           NEW e, e # TaskCanceled, NEW at, at \notin Turning, AppendsOr(c, e, at),
           call[c].base = Len(log) => JoinsEnd(log, e)
    PROVE  MountedAlone'
<1>1. /\ EndingAppend(c)
      /\ Proceeds(c, at) \/ Returns(c)
  BY DEF AppendsOr, EndingAppend
<1>. QED  BY <1>1, AloneReturns, AloneProceeds

\* What executions append, and when.
LEMMA HarmlessJoins ==
    ASSUME NEW s
    PROVE  /\ JoinsEnd(s, Elsewhere) /\ JoinsEnd(s, PolicyChanged) /\ JoinsEnd(s, StaleAdmission)
           /\ JoinsEnd(s, Invoked) /\ JoinsEnd(s, Answered) /\ JoinsEnd(s, TransferRequested)
           /\ JoinsEnd(s, TaskCanceled)
           /\ TaskCanceled \notin {Elsewhere, PolicyChanged, StaleAdmission, Invoked, Answered,
                                   TransferRequested}
<1>1. /\ Elsewhere.stream \notin BoundStream /\ PolicyChanged.stream \notin BoundStream
      /\ StaleAdmission.stream \notin BoundStream
  BY DEF Elsewhere, PolicyChanged, StaleAdmission, BoundStream, TaskStream, AttemptStream,
     InvocationStream, TransferStream, StreamOf, RunStream, AdmissionStream
<1>2. JoinsEnd(s, Elsewhere) /\ JoinsEnd(s, PolicyChanged) /\ JoinsEnd(s, StaleAdmission)
  <2>1. ASSUME NEW e, e.stream \notin BoundStream, e.type \notin {"status", "completion-memory"}
        PROVE  JoinsEnd(s, e)
    BY <2>1 DEF JoinsEnd, Harmless, IsBound, BoundStream
  <2>2. \A e \in {Elsewhere, PolicyChanged, StaleAdmission} : e.type \notin {"status", "completion-memory"}
    BY DEF Elsewhere, PolicyChanged, StaleAdmission
  <2>. QED  BY <1>1, <2>1, <2>2
<1>3. \A e \in {Invoked, Answered, TransferRequested} :
        e.stream # TaskStream /\ e.type \notin {"status", "completion-memory"}
  BY DEF Invoked, Answered, TransferRequested, InvocationStream, TransferStream, TaskStream
<1>4. JoinsEnd(s, Invoked) /\ JoinsEnd(s, Answered) /\ JoinsEnd(s, TransferRequested)
  BY <1>3 DEF JoinsEnd, Harmless
<1>5. TaskCanceled.type = "status" /\ TaskCanceled.stream = TaskStream
  BY DEF TaskCanceled
<1>6. JoinsEnd(s, TaskCanceled)
  BY <1>5 DEF JoinsEnd, Harmless
<1>7. \A e \in {Elsewhere, PolicyChanged, StaleAdmission} : e.type # "status"
  BY DEF Elsewhere, PolicyChanged, StaleAdmission
<1>. QED  BY <1>2, <1>3, <1>4, <1>5, <1>6, <1>7

LEMMA StartsJoin ==
    ASSUME NEW s, TaskStatus(s) = "queued", NEW run, NEW policy,
           NEW e \in {TaskAdmitted(run, policy), RunStarted(run), TaskRunning(run)}
    PROVE  JoinsEnd(s, e) /\ e # TaskCanceled
<1>1. e.type \in {"task-admitted", "run-started", "task-running"}
  BY DEF TaskAdmitted, RunStarted, TaskRunning
<1>2. e.stream = TaskStream => e.type = "task-running"
  <2>1. CASE e = TaskAdmitted(run, policy)
    BY <2>1 DEF TaskAdmitted, AdmissionStream, TaskStream
  <2>2. CASE e = RunStarted(run)
    BY <2>2 DEF RunStarted, StreamOf, RunStream, TaskStream
  <2>3. CASE e = TaskRunning(run)
    BY <2>3 DEF TaskRunning
  <2>. QED  BY <2>1, <2>2, <2>3
<1>3. e.type = "task-running" => StatusOf(e) = "running"
  BY DEF StatusOf
<1>4. TaskCanceled.type = "status"
  BY DEF TaskCanceled
<1>. QED  BY <1>1, <1>2, <1>3, <1>4 DEF JoinsEnd

LEMMA StagesJoin ==
    ASSUME NEW s, TaskStatus(s) = "running", NEW k, k.chain.stage \in MountedStages
    PROVE  JoinsEnd(s, EventOf(k)) /\ EventOf(k) # TaskCanceled
<1> DEFINE e == EventOf(k)
<1>1. CASE k.chain.stage = "answered"
  BY <1>1, HarmlessJoins DEF EventOf
<1>2. CASE k.chain.stage = "final"
  <2>1. e.type = "final" /\ e.stream # TaskStream
    BY <1>2 DEF EventOf, FinalOutput, RunStream, TaskStream
  <2>. QED  BY <2>1 DEF JoinsEnd, TaskCanceled
<1>3. CASE k.chain.stage \in Stages
  <2>1. e = EventAt(log, k.chain.stage, k.chain.binding, k.chain.cause)
    BY <1>3, StageEventAt DEF EventOf, Stages
  <2>2. /\ e.type = k.chain.stage /\ e.stream = HandStream(k.chain.stage)
        /\ k.chain.stage = "status" => e.status = OutcomeOf(log, k.chain.binding.final)
    BY <1>3, <2>1, EventAtIs
  <2>. HIDE DEF e
  <2>3. CASE k.chain.stage = "status"
    <3>1. e.type = "status" /\ e.stream = TaskStream /\ e.status \in {"failed", "completed"}
      BY <2>2, <2>3 DEF OutcomeOf, HandStream
    <3>2. StatusOf(e) = e.status
      BY <3>1 DEF StatusOf
    <3>. QED  BY <3>1, <3>2 DEF JoinsEnd, TaskCanceled, e
  <2>4. CASE k.chain.stage # "status"
    <3>1. e.type # "status" /\ e.type # "completion-memory" /\ e.stream # TaskStream
      BY <1>3, <2>2, <2>4 DEF HandStream, Stages, RunStream, AttemptStream, TaskStream
    <3>. QED  BY <3>1 DEF JoinsEnd, TaskCanceled, e
  <2>. QED  BY <2>3, <2>4
<1>. QED  BY <1>1, <1>2, <1>3 DEF MountedStages

LEMMA BeyondStrays ==
    ASSUME NEW s, NEW k, Strays(s, k) \/ (k.at = "append" /\ k.op = "mounted" /\ k.base \in Nat
                /\ k.base <= Len(s) /\ k.inside = FALSE),
           DOMAIN k = MountedFields, k.chain.stage \in MountedStages, NEW id, NEW cursor
    PROVE  Strays(s, Beyond(k, id)) /\ Strays(s, [Beyond(k, id) EXCEPT !.cursor = cursor])
<1> DEFINE m(at, chain) == [k EXCEPT !.at = at, !.chain = chain]
           l(at) == [k EXCEPT !.at = at]
<1>1. \/ \E at \in {"publishing", "consume"} : Beyond(k, id) = l(at)
      \/ \E at \in {"sealing", "stage"} : \E chain : Beyond(k, id) = m(at, chain)
  BY DEF Beyond, MountedStages, Stages
<1>2. \A at \in {"publishing", "consume"} :
        Strays(s, l(at)) /\ Strays(s, [l(at) EXCEPT !.cursor = cursor])
  BY DEF Strays, MountedFields, Turning
<1>3. \A at \in {"sealing", "stage"} : \A chain :
        Strays(s, m(at, chain)) /\ Strays(s, [m(at, chain) EXCEPT !.cursor = cursor])
  BY DEF Strays, MountedFields, Turning
<1>. HIDE DEF m, l
<1>. QED  BY <1>1, <1>2, <1>3

----------------------------------------------------------------------------
(* Where nobody but executions works on the run: their steps.              *)

LEMMA AdmissionAlone ==
    ASSUME Formed, MountedAlone, NEW c \in Caller, Spends,
           \/ \E run \in Run : RequestRun(c, run)
           \/ AppendAdmission(c) \/ TakeUp(c) \/ FindStale(c) \/ DiagnoseStale(c)
           \/ Examine(c) \/ BindHandoff(c)
    PROVE  MountedAlone'
<1>0. {"examine", "diagnosing", "diagnosing again"} \intersect Turning = {}
      /\ {"examine", "diagnosing", "diagnosing again", "admitting", "bind"} \intersect Gated = {}
  BY DEF Turning, Gated
<1>1. ASSUME NEW run \in Run, RequestRun(c, run)
      PROVE  MountedAlone'
  <2>1. log' = log
    BY <1>1 DEF RequestRun
  <2>2. CASE call' = [call EXCEPT ![c] = Execution(run, "examine")]
    BY <1>0, <2>1, <2>2, ExecutionStrays, AloneStrays DEF EndingAppend
  <2>3. CASE Untouched(log) /\ call' = [call EXCEPT ![c] = Execution(run, "storing")]
    <3> DEFINE n == Execution(run, "storing")
    <3>1. n.op = "mounted" /\ n.at = "storing" /\ n.inside = FALSE /\ n.base = Len(log) /\ Len(log) \in Nat
      BY LedgerFacts DEF Execution, Formed
    <3>2. Turn(log, n)
      BY <2>3, <3>1 DEF Turn, Untouched
    <3>3. call' = [call EXCEPT ![c] = n]
      BY <2>3
    <3>. HIDE DEF n
    <3>4. n.base \in Nat /\ n.base <= Len(log)
      BY <3>1
    <3>. QED  BY <2>1, <3>1, <3>2, <3>3, <3>4, AloneTurns
  <2>. QED  BY <1>1, <2>2, <2>3 DEF RequestRun
<1>2. CASE AppendAdmission(c)
  <2> DEFINE e == TaskAdmitted(call[c].run, call[c].policy)
  <2>1. /\ call[c].op = "mounted" /\ call[c].at = "admitting"
        /\ Proceeds(c, "examine") \/ Returns(c)
        /\ log' = log \/ (call[c].base = Len(log) /\ log' = Append(log, e))
    BY <1>2 DEF AppendAdmission, Is
  <2>2. call[c].base = Len(log) => JoinsEnd(log, e) /\ e # TaskCanceled
    BY <2>1, BaseIs, StartsJoin DEF Turn
  <2>. HIDE DEF e
  <2>3. EndingAppend(c)
    BY <2>1, <2>2 DEF EndingAppend
  <2>. QED  BY <1>0, <2>1, <2>3, AloneReturns, AloneProceeds
<1>3. CASE TakeUp(c)
  <2>1. log' = Append(log, Elsewhere) /\ call' = [call EXCEPT ![c] = Execution("local", "examine")]
    BY <1>3 DEF TakeUp
  <2>2. EndingAppend(c)
    BY <2>1, HarmlessJoins DEF EndingAppend
  <2>. QED  BY <1>0, <2>1, <2>2, ExecutionStrays, AloneStrays
<1>4. CASE FindStale(c)
  <2>1. log' = log /\ call' = [call EXCEPT ![c] = Execution("local", "diagnosing")]
    BY <1>4 DEF FindStale
  <2>. QED  BY <1>0, <2>1, ExecutionStrays, AloneStrays DEF EndingAppend
<1>5. CASE DiagnoseStale(c)
  <2>1. call[c].op = "mounted" /\ call[c].at \in {"diagnosing", "diagnosing again"}
    BY <1>5 DEF DiagnoseStale, Is
  <2>2. \/ log' = log /\ ProceedsKnowing(c, "diagnosing again")
        \/ AppendsLast(c, StaleAdmission)
    BY <1>5 DEF DiagnoseStale
  <2>3. CASE log' = log /\ ProceedsKnowing(c, "diagnosing again")
    BY <1>0, <2>1, <2>3, AloneProceeds DEF EndingAppend
  <2>4. CASE AppendsLast(c, StaleAdmission)
    BY <2>4, HarmlessJoins, AloneAppendsLast
  <2>. QED  BY <2>2, <2>3, <2>4
<1>6. CASE Examine(c)
  <2> DEFINE run == call[c].run
             goal == Goal(log, run)
             next == IF goal = "remember" \/ run = "remote" THEN goal ELSE "bind"
             n == [Execution(run, next) EXCEPT !.chain.stage = goal]
  <2>1. log' = log /\ (Returns(c) \/ call' = [call EXCEPT ![c] = n])
    BY <1>6 DEF Examine
  <2>2. next \notin Turning
    BY DEF Goal, Turning
  <2>3. Strays(log, n)
    <3>. HIDE DEF next, goal, run
    <3>1. Strays(log, Execution(run, next))
      BY <2>2, ExecutionStrays
    <3>. QED  BY <3>1 DEF Strays, Execution
  <2>. HIDE DEF n
  <2>. QED  BY <2>1, <2>3, AloneReturns, AloneStrays DEF EndingAppend
<1>7. CASE BindHandoff(c)
  <2> DEFINE n == [call[c] EXCEPT !.at = call[c].chain.stage, !.cursor = Derived(log)]
  <2>1. /\ call[c].op = "mounted" /\ call[c].at = "bind" /\ log' = log
        /\ Returns(c) \/ call' = [call EXCEPT ![c] = n]
    BY <1>7 DEF BindHandoff, Is
  <2>2. call[c].chain.stage \in {"start", "recover", "resume"}
    BY <2>1, MountedIs DEF MountedCall
  <2>3. /\ call[c].base \in Nat /\ call[c].base <= Len(log)
        /\ DOMAIN call[c] = MountedFields /\ call[c].inside = FALSE
    BY <1>0, <2>1, BaseIs
  <2>4. Strays(log, n)
    BY <2>1, <2>2, <2>3 DEF Strays, MountedFields, Turning
  <2>. HIDE DEF n
  <2>. QED  BY <2>1, <2>4, AloneReturns, AloneStrays DEF EndingAppend
<1>. QED  BY <1>1, <1>2, <1>3, <1>4, <1>5, <1>6, <1>7

LEMMA StartAlone ==
    ASSUME Formed, MountedAlone, NEW c \in Caller, Spends,
           \/ StartRun(c) \/ AppendStarted(c) \/ EnterTask(c) \/ AppendRunning(c)
    PROVE  MountedAlone'
<1>0. /\ {"start", "starting", "entering", "resume", "entered"} \intersect Gated = {}
      /\ {"entering", "prompting"} \intersect Turning = {}
  BY DEF Gated, Turning
<1>1. CASE StartRun(c)
  <2>1. /\ call[c].op = "mounted" /\ call[c].at = "start" /\ log' = log
        /\ Returns(c) \/ (TaskStatus(log) = "queued" /\ ProceedsKnowing(c, "starting"))
    BY <1>1 DEF StartRun, Is
  <2>. QED  BY <1>0, <2>1, AloneReturns, AloneKnowing DEF EndingAppend
<1>2. CASE AppendStarted(c)
  <2>1. /\ call[c].op = "mounted" /\ call[c].at = "starting"
        /\ AppendsOr(c, RunStarted(call[c].run), "entering")
    BY <1>2 DEF AppendStarted, Is
  <2>2. TaskStatus(log) = "queued" => JoinsEnd(log, RunStarted(call[c].run))
    BY StartsJoin
  <2>3. RunStarted(call[c].run) # TaskCanceled
    BY DEF RunStarted, TaskCanceled
  <2>4. call[c].base = Len(log) => TaskStatus(log) = "queued"
    BY <2>1, BaseIs DEF Turn
  <2>. QED  BY <1>0, <2>1, <2>2, <2>3, <2>4, AloneAppendsOr
<1>3. CASE EnterTask(c)
  <2>1. /\ call[c].op = "mounted" /\ call[c].at \in {"entering", "resume"} /\ log' = log
        /\ \/ Returns(c) \/ Proceeds(c, "prompting")
           \/ TaskStatus(log) = "queued" /\ ProceedsKnowing(c, "entered")
    BY <1>3 DEF EnterTask, Is
  <2>2. CASE Returns(c) \/ Proceeds(c, "prompting")
    BY <1>0, <2>1, <2>2, AloneReturns, AloneProceeds DEF EndingAppend
  <2>3. CASE TaskStatus(log) = "queued" /\ ProceedsKnowing(c, "entered")
    BY <1>0, <2>1, <2>3, AloneKnowing
  <2>. QED  BY <2>1, <2>2, <2>3
<1>4. CASE AppendRunning(c)
  <2>1. /\ call[c].op = "mounted" /\ call[c].at = "entered"
        /\ AppendsOr(c, TaskRunning(call[c].run), "prompting")
    BY <1>4 DEF AppendRunning, Is
  <2>2. TaskStatus(log) = "queued" => JoinsEnd(log, TaskRunning(call[c].run))
    BY StartsJoin
  <2>3. TaskRunning(call[c].run) # TaskCanceled
    BY DEF TaskRunning, TaskCanceled
  <2>4. call[c].base = Len(log) => TaskStatus(log) = "queued"
    BY <2>1, BaseIs DEF Turn
  <2>. QED  BY <1>0, <2>1, <2>2, <2>3, <2>4, AloneAppendsOr
<1>. QED  BY <1>1, <1>2, <1>3, <1>4

\* Who comes to write an artifact, or to cancel, finds nobody inside.
LEMMA EnterAlone ==
    ASSUME Formed, MountedAlone, NEW c \in Caller, Spends, EnterGate(c)
    PROVE  MountedAlone'
<1> DEFINE k == call[c]
           n1 == [k EXCEPT !.inside = TRUE, !.cursor = Now(c)]
           n2 == [k EXCEPT !.inside = TRUE, !.base = Len(log)]
           n3 == [k EXCEPT !.inside = TRUE]
<1>1. /\ k.op = "mounted" /\ k.at \in Gated /\ log' = log
      /\ \A d \in Caller : ~Inside(d)
  BY DEF EnterGate
<1>2. \/ Returns(c)
      \/ MayWrite(c) /\ k.at # "canceling" /\ call' = [call EXCEPT ![c] = n1]
      \/ k.at = "canceling" /\ call' = [call EXCEPT ![c] = n2]
      \/ MayWrite(c) /\ k.at # "canceling" /\ call' = [call EXCEPT ![c] = n3]
  BY DEF EnterGate
<1>3. /\ k.base \in Nat /\ k.base <= Len(log) /\ Len(log) \in Nat /\ DOMAIN k = MountedFields
      /\ k.base = Len(log) => Turn(log, k)
  BY <1>1, BaseIs
<1>4. MayWrite(c) /\ k.at # "canceling" => TaskStatus(log) # "canceled"
  BY <1>1 DEF MayWrite, Gated, Untouched, EffectAllowed
<1>5. /\ n1.op = "mounted" /\ n1.base = k.base /\ n1.at = k.at
      /\ n2.op = "mounted" /\ n2.base = Len(log) /\ n2.at = k.at
      /\ n3.op = "mounted" /\ n3.base = k.base /\ n3.at = k.at
  BY <1>1, <1>3 DEF MountedFields
<1>. HIDE DEF k, n1, n2, n3
<1>6. MayWrite(c) /\ k.at # "canceling" => EndFits(log, n1) /\ EndFits(log, n3)
  BY <1>3, <1>4, <1>5 DEF EndFits, Turn
<1>7. k.at = "canceling" => EndFits(log, n2)
  BY <1>3, <1>5 DEF EndFits, Turn
<1>8. CASE Returns(c)
  BY <1>1, <1>8, AloneReturns DEF EndingAppend
<1>. QED  BY <1>1, <1>2, <1>6, <1>7, <1>8, AloneQuiet

LEMMA GateAlone ==
    ASSUME Formed, MountedAlone, NEW c \in Caller, Spends,
           LeaveGate(c) \/ FailStore(c) \/ AskCancel(c) \/ CancelMounted(c)
    PROVE  MountedAlone'
<1>1. CASE LeaveGate(c)
  <2> DEFINE k == call[c]
             n == [k EXCEPT !.inside = FALSE, !.at = AfterWrite(k), !.chain = StageAfter(k)]
  <2>1. /\ k.op = "mounted" /\ k.inside /\ k.at # "canceling" /\ log' = log
        /\ Returns(c) \/ call' = [call EXCEPT ![c] = n]
    BY <1>1 DEF LeaveGate, Inside
  <2>2. /\ k.base \in Nat /\ k.base <= Len(log) /\ DOMAIN k = MountedFields
        /\ k.base = Len(log) => Turn(log, k)
    BY <2>1, BaseIs
  <2>3. k.run \in Run /\ k.at \in Gated \ {"canceling"}
    BY <2>1, MountedIs DEF MountedCall
  <2>4. AfterWrite(k) \notin Turning \/ (AfterWrite(k) = "admitting" /\ k.at = "storing")
    BY <2>3 DEF AfterWrite, Gated, Run, Turning
  <2>5. n.op = "mounted" /\ n.base = k.base /\ n.inside = FALSE /\ n.at = AfterWrite(k)
    BY <2>1, <2>2 DEF MountedFields
  <2>. HIDE DEF k, n
  <2>6. n.base = Len(log) => Turn(log, n)
    BY <2>2, <2>4, <2>5 DEF Turn, Turning
  <2>. QED  BY <2>1, <2>2, <2>5, <2>6, AloneReturns, AloneTurns DEF EndingAppend
<1>2. CASE FailStore(c)
  <2> DEFINE n == [call[c] EXCEPT !.inside = FALSE, !.text = Unpublished]
  <2>1. /\ call[c].op = "mounted" /\ call[c].at = "publishing" /\ log' = log
        /\ call' = [call EXCEPT ![c] = n]
    BY <1>2 DEF FailStore, Is
  <2>2. call[c].base \in Nat /\ call[c].base <= Len(log) /\ DOMAIN call[c] = MountedFields
    BY <2>1, BaseIs
  <2>3. Strays(log, n)
    BY <2>1, <2>2 DEF Strays, MountedFields, Turning
  <2>. HIDE DEF n
  <2>. QED  BY <2>1, <2>3, AloneStrays DEF EndingAppend
<1>3. CASE AskCancel(c)
  <2>1. log' = log /\ call' = [call EXCEPT ![c] = Execution("none", "canceling")]
    BY <1>3 DEF AskCancel
  <2>2. "canceling" \notin Turning
    BY DEF Turning
  <2>. QED  BY <2>1, <2>2, ExecutionStrays, AloneStrays DEF EndingAppend
<1>4. CASE CancelMounted(c)
  BY <1>4, HarmlessJoins, AloneAppendsLast DEF CancelMounted
<1>. QED  BY <1>1, <1>2, <1>3, <1>4

LEMMA InvocationAlone ==
    ASSUME Formed, MountedAlone, NEW c \in Caller, Spends,
           \/ InvokeModel(c) \/ AppendInvoked(c) \/ AppendAnswered(c) \/ ReturnAnswer(c)
           \/ AskTransfer(c) \/ SuspendTask(c)
           \/ ChangePolicy(c) \/ AppendElsewhere(c)
    PROVE  MountedAlone'
<1>0. /\ {"model", "invoking", "answering", "answered", "asking", "suspending"} \intersect Gated = {}
      /\ {"publishing", "fence", "invoking", "answering", "answered", "suspending"}
            \intersect Turning = {}
  BY DEF Gated, Turning
<1>1. CASE InvokeModel(c)
  <2> DEFINE n == [call[c] EXCEPT !.at = "fence", !.chain = [stage |-> "answered"], !.expected = 1]
  <2>1. /\ call[c].op = "mounted" /\ call[c].at = "model" /\ log' = log
        /\ \/ Returns(c) \/ Proceeds(c, "publishing") \/ Proceeds(c, "invoking")
           \/ call' = [call EXCEPT ![c] = n]
    BY <1>1 DEF InvokeModel, Is
  <2>2. /\ call[c].base \in Nat /\ call[c].base <= Len(log)
        /\ DOMAIN call[c] = MountedFields /\ call[c].inside = FALSE
    BY <1>0, <2>1, BaseIs
  <2>3. Strays(log, n)
    BY <1>0, <2>1, <2>2 DEF Strays, MountedFields
  <2>4. EndingAppend(c)
    BY <2>1 DEF EndingAppend
  <2>. HIDE DEF n
  <2>. QED  BY <1>0, <2>1, <2>3, <2>4, AloneReturns, AloneProceeds, AloneStrays
<1>2. CASE AppendInvoked(c)
  <2>1. /\ call[c].op = "mounted" /\ call[c].at = "invoking"
        /\ \/ log' = Append(log, Invoked) /\ Proceeds(c, "answering")
           \/ log' = log /\ Returns(c)
    BY <1>2 DEF AppendInvoked, Is
  <2>2. EndingAppend(c)
    BY <2>1, HarmlessJoins DEF EndingAppend
  <2>. QED  BY <1>0, <2>1, <2>2, AloneReturns, AloneProceeds
<1>3. CASE AppendAnswered(c)
  <2>1. /\ call[c].op = "mounted" /\ call[c].at = "answering"
        /\ \/ log' = Append(log, Answered) /\ Proceeds(c, "answered")
           \/ log' = log /\ Returns(c)
    BY <1>3 DEF AppendAnswered, Is
  <2>2. EndingAppend(c)
    BY <2>1, HarmlessJoins DEF EndingAppend
  <2>. QED  BY <1>0, <2>1, <2>2, AloneReturns, AloneProceeds
<1>4. CASE ReturnAnswer(c)
  <2>1. /\ call[c].op = "mounted" /\ call[c].at = "answered" /\ log' = log
        /\ Proceeds(c, "publishing") \/ Returns(c)
    BY <1>4 DEF ReturnAnswer, Is
  <2>. QED  BY <1>0, <2>1, AloneReturns, AloneProceeds DEF EndingAppend
<1>5. CASE AskTransfer(c)
  <2>1. /\ call[c].op = "mounted" /\ call[c].at = "asking"
        /\ \/ log' = Append(log, TransferRequested) /\ Proceeds(c, "suspending")
           \/ log' = log /\ Returns(c)
    BY <1>5 DEF AskTransfer, Is
  <2>2. EndingAppend(c)
    BY <2>1, HarmlessJoins DEF EndingAppend
  <2>. QED  BY <1>0, <2>1, <2>2, AloneReturns, AloneProceeds
<1>6. CASE SuspendTask(c)
  <2> DEFINE n == ExpectsSequence(TaskWaiting("remote"))
  <2>1. log' = log /\ (Returns(c) \/ call' = [call EXCEPT ![c] = n])
    BY <1>6 DEF SuspendTask
  <2>2. n.op = "send" /\ n.event = TaskWaiting("remote")
    BY DEF ExpectsSequence, Sending
  <2>. HIDE DEF n
  <2>3. EndFits(log, n) /\ ~Within(n)
    BY <2>2 DEF EndFits, Within
  <2>. QED  BY <2>1, <2>3, AloneReturns, AloneQuiet DEF EndingAppend
<1>7. ASSUME NEW op, NEW e \in {PolicyChanged, Elsewhere}, Interfere(c, op, e)
      PROVE  MountedAlone'
  <2>1. log' = Append(log, e) /\ call' = [call EXCEPT ![c] = Idle]
    BY <1>7, MakesIsIdle DEF Interfere, Formed
  <2>2. EndingAppend(c)
    BY <2>1, HarmlessJoins DEF EndingAppend
  <2>. QED  BY <2>1, <2>2, AloneReturns DEF Returns
<1>8. CASE ChangePolicy(c) \/ AppendElsewhere(c)
  BY <1>7, <1>8 DEF ChangePolicy, AppendElsewhere
<1>. QED  BY <1>1, <1>2, <1>3, <1>4, <1>5, <1>6, <1>8

LEMMA StagingAlone ==
    ASSUME Formed, MountedAlone, NEW c \in Caller, Spends,
           ReadMountedStage(c) \/ ReadFence(c) \/ AppendStage(c) \/ RecoverMounted(c)
    PROVE  MountedAlone'
<1> DEFINE k == call[c]
           event == EventOf(k)
           exact == Exact(log, event)
           id == CHOOSE i \in exact : TRUE
<1>1. k.op = "mounted" /\ k.at \in {"stage", "fence", "append", "recover"} /\ k.at \notin Gated
  BY DEF ReadMountedStage, ReadFence, AppendStage, RecoverMounted, Is, Gated
<1>2. /\ k.base \in Nat /\ k.base <= Len(log) /\ DOMAIN k = MountedFields /\ k.inside = FALSE
      /\ k.base = Len(log) => Turn(log, k)
  BY <1>1, BaseIs
<1>3. k.at # "recover" => k.chain.stage \in MountedStages
  BY <1>1, MountedIs DEF MountedCall
<1>4. k.at # "append" => Strays(log, k)
  BY <1>1, <1>2 DEF Strays, Turning
<1>5. k.at # "recover" => \A i, cursor :
        Strays(log, Beyond(k, i)) /\ Strays(log, [Beyond(k, i) EXCEPT !.cursor = cursor])
  BY <1>1, <1>2, <1>3, <1>4, BeyondStrays
<1>6. CASE ReadMountedStage(c)
  <2> DEFINE fenced == [k EXCEPT !.at = "fence", !.expected = StreamLength(log, event.stream)]
             m == [fenced EXCEPT !.cursor = Now(c)]
             n == [Beyond(k, id) EXCEPT !.cursor = Now(c)]
  <2>1. k.at = "stage" /\ log' = log
    BY <1>6 DEF ReadMountedStage, Is
  <2>2. \/ Returns(c) \/ call' = [call EXCEPT ![c] = m] \/ call' = [call EXCEPT ![c] = n]
    BY <1>6 DEF ReadMountedStage
  <2>3. Strays(log, n)
    <3>. HIDE DEF id
    <3>. QED  BY <1>5, <2>1
  <2>4. Strays(log, m)
    BY <1>1, <1>2 DEF Strays, MountedFields, Turning
  <2>. HIDE DEF m, n
  <2>. QED  BY <2>1, <2>2, <2>3, <2>4, AloneStrays, AloneReturns DEF EndingAppend
<1>7. CASE ReadFence(c)
  <2>1. /\ log' = log
        /\ Returns(c) \/ (TaskStatus(log) = "running" /\ ProceedsKnowing(c, "append"))
    BY <1>7 DEF ReadFence, EffectAllowed
  <2>. QED  BY <1>1, <2>1, AloneReturns, AloneKnowing DEF EndingAppend
<1>8. CASE AppendStage(c)
  <2>1. k.at = "append"
    BY <1>8 DEF AppendStage, Is
  <2>2. \/ /\ k.base = Len(log) /\ log' = Append(log, event)
           /\ call' = [call EXCEPT ![c] = Beyond(k, Len(log) + 1)]
        \/ log' = log /\ call' = [call EXCEPT ![c] = Beyond(k, id)]
        \/ log' = log /\ Returns(c)
    BY <1>8 DEF AppendStage
  <2>3. k.base = Len(log) => JoinsEnd(log, event) /\ event # TaskCanceled
    BY <1>2, <1>3, <2>1, StagesJoin DEF Turn
  <2>. HIDE DEF event, id
  <2>4. EndingAppend(c)
    BY <2>2, <2>3 DEF EndingAppend
  <2>5. Strays(log, Beyond(k, Len(log) + 1)) /\ Strays(log, Beyond(k, id))
    BY <1>5, <2>1
  <2>. QED  BY <2>2, <2>4, <2>5, AloneStrays, AloneReturns
<1>9. CASE RecoverMounted(c)
  <2> DEFINE n == [k EXCEPT !.at = "stage", !.chain = Suffix(log)]
  <2>1. log' = log /\ (Returns(c) \/ call' = [call EXCEPT ![c] = n])
    BY <1>9 DEF RecoverMounted
  <2>2. Strays(log, n)
    BY <1>1, <1>2 DEF Strays, MountedFields, Turning
  <2>. HIDE DEF n
  <2>. QED  BY <2>1, <2>2, AloneReturns, AloneStrays DEF EndingAppend
<1>. QED  BY <1>6, <1>7, <1>8, <1>9

LEMMA MemoryAlone ==
    ASSUME Formed, MountedAlone, NEW c \in Caller, Spends,
           ConsumeHandoff(c) \/ ReadMemory(c) \/ AppendMemory(c)
    PROVE  MountedAlone'
<1>0. {"consume", "remember", "remembering"} \intersect Gated = {} /\ "remember" \notin Turning
  BY DEF Gated, Turning
<1>1. CASE ConsumeHandoff(c)
  <2>1. /\ call[c].op = "mounted" /\ call[c].at = "consume" /\ log' = log
        /\ Proceeds(c, "remember") \/ Returns(c)
    BY <1>1 DEF ConsumeHandoff, Is
  <2>. QED  BY <1>0, <2>1, AloneReturns, AloneProceeds DEF EndingAppend
<1>2. CASE ReadMemory(c)
  <2>1. /\ call[c].op = "mounted" /\ call[c].at = "remember" /\ log' = log
        /\ \/ Returns(c)
           \/ OfType(log, "completion-memory") = {} /\ ProceedsKnowing(c, "remembering")
    BY <1>2 DEF ReadMemory, Is
  <2>. QED  BY <1>0, <2>1, AloneReturns, AloneKnowing DEF EndingAppend
<1>3. CASE AppendMemory(c)
  <2>1. /\ call[c].op = "mounted" /\ call[c].at = "remembering"
        /\ \/ /\ EffectAllowed(log, "local", {"completed"}, {"completed"})
              /\ AppendsLast(c, CompletionMemory)
           \/ Returns(c) /\ log' = log
    BY <1>3 DEF AppendMemory, Is
  <2>2. CASE Returns(c) /\ log' = log
    BY <2>2, AloneReturns DEF EndingAppend
  <2>3. CASE /\ EffectAllowed(log, "local", {"completed"}, {"completed"})
             /\ AppendsLast(c, CompletionMemory)
    <3>1. Concluded(log)
      BY <2>3 DEF EffectAllowed, Concluded
    <3>2. call[c].base = Len(log) => OfType(log, "completion-memory") = {}
      BY <2>1, BaseIs DEF Turn
    <3>3. /\ CompletionMemory.type = "completion-memory" /\ CompletionMemory # TaskCanceled
          /\ CompletionMemory.stream \notin BoundStream
      BY DEF CompletionMemory, TaskCanceled, BoundStream, TaskStream, AttemptStream,
         InvocationStream, TransferStream, StreamOf, RunStream, AdmissionStream
    <3>4. TaskStream \in BoundStream /\ StreamOf("local") \in BoundStream
      BY DEF BoundStream, Run
    <3>5. call[c].base = Len(log) => JoinsEnd(log, CompletionMemory)
      BY <3>1, <3>2, <3>3, <3>4 DEF JoinsEnd, Harmless, IsBound
    <3>. QED  BY <2>3, <3>3, <3>5, AloneAppendsLast
  <2>. QED  BY <2>1, <2>2, <2>3
<1>. QED  BY <1>1, <1>2, <1>3

LEMMA StepAlone ==
    ASSUME Formed, MountedAlone, NEW c \in Caller, CallSteps(c)
    PROVE  MountedAlone'
<1>1. Spends
  BY StepSpends
<1>2. CASE \/ CorrespondenceNext(c) \/ MemoryNext(c) \/ TriggerNext(c)
           \/ KnowledgeNext(c) \/ RebuildNext(c)
  BY <1>2, ServicesAlone
<1>3. CASE HandoffNext(c) \/ LoopNext(c)
  BY <1>3, NoRivals
<1>4. CASE MountedNext(c)
  BY <1>1, <1>4, AdmissionAlone, StartAlone, EnterAlone, GateAlone, InvocationAlone,
     StagingAlone, MemoryAlone DEF MountedNext
<1>5. CASE SendLetter(c)
  BY <1>1, <1>5, SendAlone DEF SendLetter
<1>6. CASE DieWithLetter(c)
  <2>1. Returns(c) /\ EndingAppend(c)
    BY <1>6, DieIs DEF DieWithLetter, Returns, EndingAppend
  <2>. QED  BY <1>1, <2>1, AloneReturns
<1>. QED  BY <1>2, <1>3, <1>4, <1>5, <1>6 DEF CallSteps

----------------------------------------------------------------------------
(* Mounted tasks: the theorem.                                             *)

LEMMA MountedStarts ==
    ASSUME Init, \A s \in Scenarios : MountedRunsAlone(s)
    PROVE  Unmounted \/ MountedAlone
<1>1. PICK s \in Scenarios : log = s.log /\ budget = s.calls
  BY DEF Init, RecordInit
<1>2. Formed /\ StartLedger(log) /\ call = [c \in Caller |-> Idle]
  BY StartsFormed
<1>3. MountedRunsAlone(s)
  OBVIOUS
<1>4. /\ budget \in [DOMAIN budget -> Nat] /\ MountedCalls \union RivalCalls \subseteq DOMAIN budget
      /\ OfType(log, "completion-memory") = {}
  BY <1>1, <1>3 DEF MountedRunsAlone
<1>5. \A d \in Caller : call[d] = Idle /\ call[d].op = "idle"
  BY <1>2, IdleIsTyped
<1>6. CASE OfType(log, "task-admitted") = {} /\ \A op \in MountedCalls : budget[op] = 0
  <2>1. Barred(MountedCalls)
    BY <1>4, <1>6 DEF Barred
  <2>2. \A i \in DOMAIN log : log[i].type \notin UnmountedTypes
    BY <1>4, <1>6 DEF OfType, UnmountedTypes
  <2>. QED  BY <1>5, <2>1, <2>2 DEF Unmounted
<1>7. CASE /\ {i \in OfType(log, "status") : log[i].status = "canceled"} = {}
           /\ \A op \in RivalCalls : budget[op] = 0
  <2>1. Barred(RivalCalls)
    BY <1>4, <1>7 DEF Barred
  <2>2. EndsLedger(log)
    BY <1>4, <1>7 DEF EndsLedger
  <2>3. \A d \in Caller : EndFits(log, call[d]) /\ ~Inside(d)
    BY <1>5, IdleFits DEF Inside
  <2>. QED  BY <2>1, <2>2, <2>3 DEF MountedAlone
<1>. QED  BY <1>1, <1>3, <1>6, <1>7 DEF MountedRunsAlone

LEMMA UnmountedIsSound ==
    ASSUME Unmounted
    PROVE  EndingIsSound
<1>1. \A d \in Caller : ~Inside(d)
  BY DEF Unmounted, Inside
<1>2. OfType(log, "task-admitted") = {} /\ OfType(log, "completion-memory") = {}
  BY DEF Unmounted, UnmountedTypes, OfType
<1>3. Cardinality({}) = 0
  BY FS_EmptySet
<1>. QED  BY <1>1, <1>2, <1>3
  DEF EndingIsSound, NoWriteAfterCancel, CancellationHolds, CompletionIsRememberedOnce

LEMMA AloneIsSound ==
    ASSUME Formed, MountedAlone
    PROVE  EndingIsSound
<1>1. NoWriteAfterCancel
  BY DEF NoWriteAfterCancel, MountedAlone, EndFits, Inside
<1>2. CancellationHolds
  <2>1. SUFFICES ASSUME NEW i \in OfType(log, "status"), NEW j \in DOMAIN log,
                        log[i].status = "canceled", i < j
                 PROVE  \/ ~IsBound(log[j]) \/ log[j] = TaskCanceled
                        \/ log[j].type \in {"invoked", "answered", "transfer-requested", "task-waiting"}
    BY DEF CancellationHolds
  <2>2. Harmless(log[j])
    BY <2>1 DEF MountedAlone, EndsLedger
  <2>3. /\ Invoked.type = "invoked" /\ Answered.type = "answered"
        /\ TransferRequested.type = "transfer-requested" /\ TaskWaiting("remote").type = "task-waiting"
    BY DEF Invoked, Answered, TransferRequested, TaskWaiting
  <2>. QED  BY <2>2, <2>3 DEF Harmless
<1>3. CompletionIsRememberedOnce
  <2> DEFINE M == OfType(log, "completion-memory")
  <2>1. \A i, j \in M : i = j
    BY DEF MountedAlone, EndsLedger
  <2>2. IsFiniteSet(M)
    <3>1. M \subseteq 1..Len(log) /\ Len(log) \in Nat
      BY LedgerFacts DEF Formed, OfType
    <3>2. IsFiniteSet(1..Len(log))
      BY <3>1, FS_Interval
    <3>. QED  BY <3>1, <3>2, FS_Subset
  <2>3. Cardinality(M) <= 1
    BY <2>1, <2>2, AtMostOne
  <2>. QED  BY <2>3 DEF MountedAlone, EndsLedger, Concluded, CompletionIsRememberedOnce
<1>. QED  BY <1>1, <1>2, <1>3 DEF EndingIsSound

\* A task is canceled for good and its completion is remembered once, where the
\* run is left to the executions of the task: no artifact of it is written while
\* it is canceled, nothing but the end of what was under way comes after, and the
\* one memory of its completion is of a task and a run that were completed
\* (agent-runtime-mounted-task.ts, with mounted-task-effect-coordination.ts).
THEOREM EndingStaysSound ==
    ASSUME \A s \in Scenarios : MountedRunsAlone(s)
    PROVE  Spec => []EndingIsSound
<1>1. Init => Unmounted \/ MountedAlone
  BY MountedStarts
<1>2. Formed /\ ChainsHeld /\ (Unmounted \/ MountedAlone) /\ [Next]_vars => (Unmounted \/ MountedAlone)'
  <2>1. SUFFICES ASSUME Formed, ChainsHeld, Unmounted \/ MountedAlone, [Next]_vars
                 PROVE  Unmounted' \/ MountedAlone'
    OBVIOUS
  <2>2. ASSUME NEW c \in Caller, CallSteps(c)
        PROVE  Unmounted' \/ MountedAlone'
    BY <2>1, <2>2, StepUnmounted, StepAlone
  <2>3. CASE UNCHANGED vars
    <3>1. log' = log /\ call' = call /\ budget' = budget
      BY <2>3 DEF vars, recordVars
    <3>2. Unmounted => Unmounted'
      BY <3>1 DEF Unmounted, Barred
    <3>3. MountedAlone => MountedAlone'
      BY <3>1 DEF MountedAlone, Barred, Inside
    <3>. QED  BY <2>1, <3>2, <3>3
  <2>. QED  BY <2>1, <2>2, <2>3 DEF Next
<1>3. Formed /\ (Unmounted \/ MountedAlone) => EndingIsSound
  BY UnmountedIsSound, AloneIsSound
<1>. QED  BY <1>1, <1>2, <1>3, AlwaysFormed, AlwaysChained, PTL DEF Spec
=============================================================================
