------------------------ MODULE WorkspaceServicesProofs ------------------------
(***************************************************************************)
(* What the services of a workspace promise, whatever calls they get and   *)
(* however these interleave, for any requests, letters, memories, signals, *)
(* claims and artifacts.                                                   *)
(*                                                                         *)
(* Each service is proved on its own: a step of another one leaves alone    *)
(* the types of events it reads, and the calls it has under way (Beside).  *)
(***************************************************************************)
EXTENDS WorkspaceServices, FiniteSetTheorems, WellFoundedInduction, TLAPS

----------------------------------------------------------------------------
(* Ledgers that grow by one event.                                         *)

IsLedger(s) == s \in Seq({s[i] : i \in DOMAIN s})

\* Ledger t is s and one more event, e.
Grows(s, t, e) ==
    /\ IsLedger(s) /\ IsLedger(t)
    /\ Len(s) \in Nat /\ Len(t) = Len(s) + 1
    /\ DOMAIN s = 1..Len(s) /\ DOMAIN t = 1..Len(t)
    /\ \A i \in 1..Len(s) : t[i] = s[i]
    /\ t[Len(t)] = e
    /\ \A n \in 0..Len(s) : Prefix(t, n) = Prefix(s, n)
    /\ Prefix(s, Len(s)) = s

LEMMA GrowsByAppend ==
    ASSUME NEW s, IsLedger(s), NEW e
    PROVE  Grows(s, Append(s, e), e)
<1> DEFINE S == {s[i] : i \in DOMAIN s} \union {e}
           t == Append(s, e)
<1>1. s \in Seq(S) /\ e \in S
  <2>1. {s[i] : i \in DOMAIN s} \subseteq S
    OBVIOUS
  <2>2. s \in Seq({s[i] : i \in DOMAIN s})
    BY DEF IsLedger
  <2>. QED  BY <2>1, <2>2
<1>. HIDE DEF S
<1>2. /\ Len(s) \in Nat /\ DOMAIN s = 1..Len(s)
      /\ t \in Seq(S) /\ Len(t) = Len(s) + 1 /\ DOMAIN t = 1..Len(t)
      /\ \A i \in 1..Len(s) : t[i] = s[i]
      /\ t[Len(t)] = e
  BY <1>1
<1>3. \A n \in 0..Len(s) : SubSeq(t, 1, n) = SubSeq(s, 1, n)
  BY <1>1
<1>4. SubSeq(s, 1, Len(s)) = s
  BY <1>1
<1>5. IsLedger(t)
  <2> DEFINE T == {t[j] : j \in DOMAIN t}
  <2>1. \A i \in 1..Len(t) : t[i] \in T
    BY <1>2
  <2>2. t \in Seq(S) /\ Len(t) \in Nat
    BY <1>2
  <2>. HIDE DEF t, T
  <2>3. t \in Seq(T)
    BY <2>1, <2>2
  <2>. QED  BY <2>3 DEF IsLedger, T
<1>. QED  BY <1>2, <1>3, <1>4, <1>5 DEF Grows, Prefix

LEMMA LedgerFacts ==
    ASSUME NEW s, IsLedger(s)
    PROVE  Len(s) \in Nat /\ DOMAIN s = 1..Len(s) /\ Prefix(s, Len(s)) = s
BY DEF IsLedger, Prefix

\* The beginning of a ledger.
LEMMA PrefixFacts ==
    ASSUME NEW s, IsLedger(s), NEW n \in 0..Len(s)
    PROVE  /\ Len(Prefix(s, n)) = n /\ DOMAIN Prefix(s, n) = 1..n
           /\ \A i \in 1..n : Prefix(s, n)[i] = s[i]
BY DEF IsLedger, Prefix

LEMMA InStreamGrows ==
    ASSUME NEW s, NEW t, NEW e, Grows(s, t, e), NEW st, NEW i
    PROVE  /\ i \in InStream(s, st) => i \in 1..Len(s) /\ i # Len(t) /\ t[i] = s[i]
           /\ i \in InStream(t, st) <=> i \in InStream(s, st) \/ (i = Len(t) /\ e.stream = st)
<1>1. i \in DOMAIN s => i \in 1..Len(s) /\ i # Len(t) /\ t[i] = s[i]
  BY DEF Grows
<1>2. i \in DOMAIN t <=> i \in DOMAIN s \/ i = Len(t)
  BY DEF Grows
<1>3. t[Len(t)] = e
  BY DEF Grows
<1>. QED  BY <1>1, <1>2, <1>3 DEF InStream

LEMMA OfTypeGrows ==
    ASSUME NEW s, NEW t, NEW e, Grows(s, t, e), NEW type, NEW i
    PROVE  /\ i \in OfType(s, type) => i \in 1..Len(s) /\ i # Len(t) /\ t[i] = s[i]
           /\ i \in OfType(t, type) <=> i \in OfType(s, type) \/ (i = Len(t) /\ e.type = type)
<1>1. i \in DOMAIN s => i \in 1..Len(s) /\ i # Len(t) /\ t[i] = s[i]
  BY DEF Grows
<1>2. i \in DOMAIN t <=> i \in DOMAIN s \/ i = Len(t)
  BY DEF Grows
<1>3. t[Len(t)] = e
  BY DEF Grows
<1>. QED  BY <1>1, <1>2, <1>3 DEF OfType

LEMMA StreamIsFinite ==
    ASSUME NEW s, IsLedger(s), NEW st
    PROVE  /\ IsFiniteSet(InStream(s, st)) /\ StreamLength(s, st) \in Nat
           /\ StreamLength(s, st) = 0 <=> InStream(s, st) = {}
<1>1. Len(s) \in Nat /\ InStream(s, st) \subseteq 1..Len(s)
  BY LedgerFacts DEF InStream
<1>2. IsFiniteSet(InStream(s, st))
  <2>1. IsFiniteSet(1..Len(s))
    BY <1>1, FS_Interval
  <2>. QED  BY <1>1, <2>1, FS_Subset
<1>3. StreamLength(s, st) \in Nat
  BY <1>2, FS_CardinalityType DEF StreamLength
<1>4. StreamLength(s, st) = 0 <=> InStream(s, st) = {}
  BY <1>2, FS_EmptySet DEF StreamLength
<1>. QED  BY <1>2, <1>3, <1>4

\* At most one element, counted and compared.
LEMMA AtMostOne ==
    ASSUME NEW S, IsFiniteSet(S)
    PROVE  Cardinality(S) <= 1 <=> \A i, j \in S : i = j
<1>1. ASSUME Cardinality(S) <= 1, NEW i \in S, NEW j \in S
      PROVE  i = j
  <2>1. Cardinality(S) \in Nat
    BY FS_CardinalityType
  <2>2. Cardinality(S) # 0
    BY FS_EmptySet
  <2>3. Cardinality(S) = 1
    BY <1>1, <2>1, <2>2
  <2>. QED  BY <2>3, FS_Singleton
<1>2. ASSUME \A i, j \in S : i = j
      PROVE  Cardinality(S) <= 1
  <2>1. CASE S = {}
    BY <2>1, FS_EmptySet
  <2>2. CASE S # {}
    <3>1. PICK i \in S : S = {i}
      BY <1>2, <2>2
    <3>. QED  BY <3>1, FS_Singleton
  <2>. QED  BY <2>1, <2>2
<1>. QED  BY <1>1, <1>2

----------------------------------------------------------------------------
(* Ledgers that grow by any number of events.                              *)

\* Ledger t begins with s.
Extends(s, t) ==
    /\ IsLedger(s) /\ IsLedger(t)
    /\ Len(s) \in Nat /\ Len(t) \in Nat /\ Len(s) <= Len(t)
    /\ DOMAIN s = 1..Len(s) /\ DOMAIN t = 1..Len(t)
    /\ \A i \in 1..Len(s) : t[i] = s[i]

\* Where t has events that s has not.
Since(s, t) == (Len(s) + 1)..Len(t)

LEMMA ExtendsItself ==
    ASSUME NEW s, IsLedger(s)
    PROVE  Extends(s, s) /\ Since(s, s) = {}
<1>1. Len(s) \in Nat /\ DOMAIN s = 1..Len(s)
  BY LedgerFacts
<1>. QED  BY <1>1 DEF Extends, Since

LEMMA GrowthExtends ==
    ASSUME NEW s, NEW t, NEW e, Grows(s, t, e)
    PROVE  Extends(s, t) /\ Since(s, t) = {Len(t)} /\ t[Len(t)] = e
<1>1. /\ Len(s) \in Nat /\ Len(t) = Len(s) + 1 /\ IsLedger(s) /\ IsLedger(t)
      /\ DOMAIN s = 1..Len(s) /\ DOMAIN t = 1..Len(t)
      /\ \A i \in 1..Len(s) : t[i] = s[i]
      /\ t[Len(t)] = e
  BY DEF Grows
<1>2. Len(t) \in Nat /\ Len(s) <= Len(t)
  BY <1>1
<1>3. Since(s, t) = {Len(t)}
  BY <1>1 DEF Since
<1>. QED  BY <1>1, <1>2, <1>3 DEF Extends

LEMMA AppendExtends ==
    ASSUME NEW s, IsLedger(s), NEW e
    PROVE  /\ Extends(s, Append(s, e)) /\ Since(s, Append(s, e)) = {Len(s) + 1}
           /\ Append(s, e)[Len(s) + 1] = e /\ Len(Append(s, e)) = Len(s) + 1
<1>1. Grows(s, Append(s, e), e)
  BY GrowsByAppend
<1>2. Len(Append(s, e)) = Len(s) + 1
  BY <1>1 DEF Grows
<1>. QED  BY <1>1, <1>2, GrowthExtends

LEMMA SequencesAreLedgers ==
    ASSUME NEW S, NEW s \in Seq(S)
    PROVE  IsLedger(s)
<1> DEFINE R == {s[i] : i \in DOMAIN s}
<1>1. Len(s) \in Nat /\ DOMAIN s = 1..Len(s) /\ \A i \in 1..Len(s) : s[i] \in R
  OBVIOUS
<1>. HIDE DEF R
<1>2. s \in Seq(R)
  BY <1>1
<1>. QED  BY <1>2 DEF IsLedger, R

LEMMA BatchExtends ==
    ASSUME NEW s, IsLedger(s), NEW S, NEW b \in Seq(S)
    PROVE  /\ Extends(s, s \o b) /\ Len(s \o b) = Len(s) + Len(b)
           /\ \A i \in Since(s, s \o b) : i - Len(s) \in 1..Len(b) /\ (s \o b)[i] = b[i - Len(s)]
<1> DEFINE R == {s[i] : i \in DOMAIN s}
           t == s \o b
<1>1. s \in Seq(R) /\ R \subseteq R \union S /\ S \subseteq R \union S
  BY DEF IsLedger
<1>. HIDE DEF R
<1>2. s \in Seq(R \union S) /\ b \in Seq(R \union S)
  BY <1>1
<1>3. /\ t \in Seq(R \union S) /\ Len(t) = Len(s) + Len(b)
      /\ Len(s) \in Nat /\ Len(b) \in Nat /\ DOMAIN s = 1..Len(s) /\ DOMAIN t = 1..Len(t)
      /\ \A i \in 1..Len(s) : t[i] = s[i]
      /\ \A i \in (Len(s) + 1)..(Len(s) + Len(b)) : t[i] = b[i - Len(s)]
  BY <1>2
<1>4. IsLedger(t)
  BY <1>3, SequencesAreLedgers
<1>. HIDE DEF t
<1>5. Extends(s, t)
  BY <1>3, <1>4 DEF Extends
<1>6. \A i \in Since(s, t) : i - Len(s) \in 1..Len(b) /\ t[i] = b[i - Len(s)]
  BY <1>3 DEF Since
<1>. QED  BY <1>3, <1>5, <1>6 DEF t

LEMMA OfTypeExtends ==
    ASSUME NEW s, NEW t, Extends(s, t), NEW type, NEW i
    PROVE  /\ i \in OfType(s, type) => i \in 1..Len(s) /\ i \notin Since(s, t) /\ t[i] = s[i]
           /\ i \in OfType(t, type) <=>
                i \in OfType(s, type) \/ (i \in Since(s, t) /\ t[i].type = type)
BY DEF Extends, Since, OfType

LEMMA InStreamExtends ==
    ASSUME NEW s, NEW t, Extends(s, t), NEW st, NEW i
    PROVE  /\ i \in InStream(s, st) => i \in 1..Len(s) /\ i \notin Since(s, t) /\ t[i] = s[i]
           /\ i \in InStream(t, st) <=>
                i \in InStream(s, st) \/ (i \in Since(s, t) /\ t[i].stream = st)
BY DEF Extends, Since, InStream

\* What is read of a stream that nothing joined.
LEMMA OtherStreamsStay ==
    ASSUME NEW s, NEW t, Extends(s, t), NEW st, \A i \in Since(s, t) : t[i].stream # st
    PROVE  InStream(t, st) = InStream(s, st) /\ \A i \in InStream(s, st) : t[i] = s[i]
<1>1. \A i : i \in InStream(t, st) <=> i \in InStream(s, st)
  BY InStreamExtends
<1>2. InStream(t, st) = InStream(s, st)
  BY <1>1
<1>. QED  BY <1>2, InStreamExtends

LEMMA OtherTypesLast ==
    ASSUME NEW s, NEW t, Extends(s, t), NEW type, \A i \in Since(s, t) : t[i].type # type
    PROVE  OfType(t, type) = OfType(s, type) /\ \A i \in OfType(s, type) : t[i] = s[i]
<1>1. \A i : i \in OfType(t, type) <=> i \in OfType(s, type)
  BY OfTypeExtends
<1>2. OfType(t, type) = OfType(s, type)
  BY <1>1
<1>. QED  BY <1>2, OfTypeExtends

\* A stream that anything joined is longer.
LEMMA StreamsGrow ==
    ASSUME NEW s, NEW t, Extends(s, t), NEW st
    PROVE  /\ StreamLength(s, st) \in Nat /\ StreamLength(t, st) \in Nat
           /\ StreamLength(s, st) <= StreamLength(t, st)
           /\ StreamLength(s, st) = StreamLength(t, st) => \A i \in Since(s, t) : t[i].stream # st
<1>1. IsLedger(s) /\ IsLedger(t)
  BY DEF Extends
<1>2. /\ StreamLength(s, st) \in Nat /\ StreamLength(t, st) \in Nat
      /\ IsFiniteSet(InStream(t, st)) /\ IsFiniteSet(InStream(s, st))
  BY <1>1, StreamIsFinite
<1>3. InStream(s, st) \subseteq InStream(t, st)
  BY InStreamExtends
<1>4. StreamLength(s, st) <= StreamLength(t, st)
  BY <1>2, <1>3, FS_Subset DEF StreamLength
<1>5. ASSUME StreamLength(s, st) = StreamLength(t, st)
      PROVE  \A i \in Since(s, t) : t[i].stream # st
  <2>1. InStream(s, st) = InStream(t, st)
    BY <1>2, <1>3, <1>5, FS_Subset DEF StreamLength
  <2>. QED  BY <2>1, InStreamExtends
<1>. QED  BY <1>2, <1>4, <1>5

----------------------------------------------------------------------------
(* The first and the last of some events, and what stays of a ledger.      *)

\* And a last one.
LEMMA LastExists ==
    ASSUME NEW s, IsLedger(s), NEW T, T \subseteq 1..Len(s), T # {}
    PROVE  \E i \in T : \A j \in T : j <= i
<1> DEFINE R == {ss \in Nat \X Nat : ss[1] < ss[2]}
           B == {n \in Nat : \A j \in T : j <= n}
<1>1. IsWellFoundedOn(R, Nat)
  BY NatLessThanWellFounded DEF OpToRel
<1>2. Len(s) \in Nat /\ T \subseteq Nat \ {0}
  BY LedgerFacts
<1>3. B \subseteq Nat /\ Len(s) \in B
  BY <1>2
<1> HIDE DEF R
<1>4. PICK n \in B : \A m \in B : ~(<<m, n>> \in R)
  <2>. HIDE DEF B
  <2>. QED  BY <1>1, <1>3, WFMin
<1>5. \A m \in B : ~(m < n)
  BY <1>3, <1>4 DEF R
<1>6. n \in T
  <2>1. SUFFICES ASSUME n \notin T PROVE FALSE
    OBVIOUS
  <2>2. n \in Nat /\ \A j \in T : j \in Nat /\ j # 0 /\ j < n
    BY <1>2, <1>4, <2>1
  <2>3. n - 1 \in Nat
    <3>1. PICK j \in T : TRUE
      OBVIOUS
    <3>. QED  BY <2>2, <3>1
  <2>4. n - 1 \in B
    <3>1. \A j \in T : j <= n - 1
      BY <2>2
    <3>. QED  BY <2>3, <3>1
  <2>. QED  BY <1>5, <2>2, <2>3, <2>4
<1>. QED  BY <1>4, <1>6

LEMMA PrefixesStay ==
    ASSUME NEW s, NEW t, Extends(s, t), NEW n \in 0..Len(s)
    PROVE  Prefix(t, n) = Prefix(s, n)
BY DEF Extends, IsLedger, Prefix

LEMMA SameLength ==
    ASSUME NEW s, NEW t, Extends(s, t), Len(t) = Len(s)
    PROVE  t = s
BY DEF Extends, IsLedger

----------------------------------------------------------------------------
(* The forms of calls and of events.                                       *)

LetterOps == {"mail", "mailed"}
MemoryOps == {"retract", "replace", "replaced", "superseding", "undo", "undoing"}
TriggerOps == {"evaluate", "request"}
RunOps == {"reach", "extend", "loop", "mounted"}

LetterTypes == {"created", "acknowledged", "closed", "sent", "followup"}
TriggerTypes == {"mount", "requested"}
KnowledgeTypes == {"proposed", "bound", "reviewed"}

Stages == {"prepared", "recorded", "terminal", "orchestrated", "status"}

SendCall(k) ==
    /\ k.op = "send" /\ WellFormed(k.event)
    /\ k.expected \in Nat /\ k.global \in Nat
    /\ k.event.type \notin TriggerTypes \union KnowledgeTypes \union {"superseded"}
    /\ k.event.type \in MemoryTypes => k.event.other = NoMemory
    /\ k.event.type = "remembered" => k.expected = 1

LetterCall(k) ==
    /\ k.op \in LetterOps /\ DOMAIN k = {"op", "request", "letter", "kind"}
    /\ k.request \in Request /\ k.letter \in Letter /\ k.kind \in Kind

MemoryCall(k) ==
    \/ k.op = "retract" /\ k.memory \in Memory
    \/ /\ k.op \in {"replace", "replaced"} /\ DOMAIN k = {"op", "memory", "by"}
       /\ k.memory \in Memory /\ k.by \in Memory
    \/ /\ k.op = "superseding" /\ k.by \in Memory
       /\ \E m \in Memory : k.event = MemoryEvent("superseded", m, k.by)
    \/ k.op = "undo" /\ k.by \in Memory
    \/ /\ k.op = "undoing" /\ k.by \in Memory
       /\ k.event = MemoryEvent("retracted", k.by, k.by)

TriggerCall(k) ==
    \/ k.op = "evaluate" /\ k.signal \in Signal /\ k.at \in Time
    \/ k.op = "request" /\ WellFormed(k.event) /\ k.event.type = "requested"

KnowledgeCall(k) ==
    k.op = "decide" /\ k.batch \in Seq(KnowledgeEvent)

LoopFields == {"op", "at", "kind", "seen", "gate", "base", "effect", "outcome"}

MountedFields ==
    {"op", "at", "run", "policy", "base", "expected", "cursor", "chain", "text", "inside"}

MountedStages == Stages \union {"answered", "final"}

MountedCall(k) ==
    /\ k.op = "mounted" /\ DOMAIN k = MountedFields
    /\ k.run \in Run \/ (k.run = "none" /\ k.at = "canceling")
    /\ k.at = "bind" => k.chain.stage \in {"start", "recover", "resume"}
    /\ k.at \in {"stage", "fence", "append", "sealing"} => k.chain.stage \in MountedStages
    /\ k.inside \in BOOLEAN /\ (k.inside = TRUE => k.at \in Gated)

RunCall(k) ==
    \/ k.op = "reach" /\ k.stage \in Stages
    \/ /\ k.op = "extend" /\ k.stage \in Stages
       /\ WellFormed(k.event) /\ k.event.type \notin ServiceTypes
    \/ k.op = "loop" /\ DOMAIN k = LoopFields
    \/ MountedCall(k)

RebuildCall(k) ==
    /\ k.op \in Rebuilding /\ DOMAIN k = {"op", "id", "build", "todo"}
    /\ k.id \in RebuildId /\ k.build \in Nat \ {0} /\ k.todo \subseteq Artifact

Typed(k) ==
    \/ k = Idle
    \/ SendCall(k) \/ LetterCall(k) \/ MemoryCall(k) \/ TriggerCall(k)
    \/ KnowledgeCall(k) \/ RunCall(k) \/ RebuildCall(k)

\* The ledger and the calls have their forms.
Formed ==
    /\ IsLedger(log)
    /\ \A i \in DOMAIN log : WellFormed(log[i])
    /\ call = [c \in Caller |-> call[c]]
    /\ \A c \in Caller : Typed(call[c])

\* A step of c that neither appends an event of types T nor touches a call of
\* operations O.
Beside(c, T, O) ==
    /\ call' = [call EXCEPT ![c] = call'[c]]
    /\ call[c].op \notin O /\ call'[c].op \notin O
    /\ call[c].op = "send" => call[c].event.type \notin T
    /\ call'[c].op = "send" => call'[c].event.type \notin T
    /\ Extends(log, log')
    /\ \A i \in Since(log, log') : log'[i].type \notin T

\* A step of c keeps the forms.
Forms(c) ==
    /\ Typed(call'[c])
    /\ \A i \in Since(log, log') : WellFormed(log'[i])

----------------------------------------------------------------------------
(* What follows from the forms.                                            *)

LEMMA ByOperation ==
    ASSUME NEW k, Typed(k)
    PROVE  /\ k.op = "idle" => k = Idle
           /\ k.op = "send" => SendCall(k)
           /\ k.op \in LetterOps => LetterCall(k)
           /\ k.op \in MemoryOps => MemoryCall(k)
           /\ k.op \in TriggerOps => TriggerCall(k)
           /\ k.op = "decide" => KnowledgeCall(k)
           /\ k.op \in RunOps => RunCall(k)
           /\ k.op \in Rebuilding => RebuildCall(k)
BY DEF Typed, Idle, SendCall, LetterCall, MemoryCall, TriggerCall, KnowledgeCall, RunCall,
       MountedCall, RebuildCall, LetterOps, MemoryOps, TriggerOps, RunOps, Rebuilding

LEMMA OperationIsKnown ==
    ASSUME NEW k, Typed(k)
    PROVE  k.op \in Ops
BY DEF Typed, Idle, SendCall, LetterCall, MemoryCall, TriggerCall, KnowledgeCall, RunCall,
       MountedCall, RebuildCall, LetterOps, MemoryOps, TriggerOps, RunOps, Rebuilding, Ops

LEMMA MemoryEventIs ==
    ASSUME NEW type, NEW m, NEW o
    PROVE  LET e == MemoryEvent(type, m, o) IN
           e.type = type /\ e.stream = MemoryStream(m) /\ e.other = o
BY DEF MemoryEvent

LEMMA StreamIsKnown ==
    ASSUME NEW e, WellFormed(e)
    PROVE  e.stream \in Streams
<1>1. CASE e.type \in {"created", "acknowledged", "closed"} /\ e.stream \in Request
  BY <1>1 DEF Streams
<1>2. CASE e.type \in Kind /\ e.stream \in Request /\ e.letter \in Letter
  BY <1>2 DEF Streams
<1>3. CASE \E m \in Memory, o \in Memory \union {NoMemory} : e = MemoryEvent(e.type, m, o)
  <2>1. PICK m \in Memory, o \in Memory \union {NoMemory} : e = MemoryEvent(e.type, m, o)
    BY <1>3
  <2>2. e.stream = MemoryStream(m)
    BY <2>1, MemoryEventIs
  <2>. QED  BY <2>2 DEF Streams, ServiceStreams
<1>4. CASE e.stream \in {MountStream, DecisionStream} \/ e.stream \in RunStreams
  BY <1>4 DEF Streams, ServiceStreams
<1>5. CASE /\ e.signal \in Signal /\ e.gate = GateOf[e.signal]
           /\ e.stream = TriggerStream(e.gate)
  <2>1. e.gate \in Gate
    BY <1>5, TriggerAssumption
  <2>. QED  BY <1>5, <2>1 DEF Streams, ServiceStreams
<1>6. CASE e \in KnowledgeEvent
  <2>1. e.stream = DecisionStream
    BY <1>6 DEF KnowledgeEvent, Event, BindingEvent, VerdictEvent
  <2>. QED  BY <1>4, <2>1
<1>. QED  BY <1>1, <1>2, <1>3, <1>4, <1>5, <1>6 DEF WellFormed

\* Streams of different kinds are different.
LEMMA StreamsApart ==
    /\ \A m, n : MemoryStream(m) = MemoryStream(n) => m = n
    /\ \A m, g : MemoryStream(m) # TriggerStream(g)
    /\ \A m : MemoryStream(m) \notin RunStreams \union {MountStream, DecisionStream}
    /\ \A r \in Request : r \notin ServiceStreams
<1>1. \A m, n : MemoryStream(m) = MemoryStream(n) => m = n
  BY DEF MemoryStream
<1>2. \A m, g : MemoryStream(m) # TriggerStream(g)
  BY DEF MemoryStream, TriggerStream
<1>3. \A m : MemoryStream(m)[1] = "memory" /\ DOMAIN MemoryStream(m) = 1..2
  BY DEF MemoryStream
<1>4. \A m : MemoryStream(m) \notin {MountStream, DecisionStream}
  BY DEF MemoryStream, MountStream, DecisionStream
<1>5. \A m, run : MemoryStream(m) # AdmissionStream(run)
  BY DEF MemoryStream, AdmissionStream
<1>6. \A m : MemoryStream(m) \notin {RunStream, AttemptStream, TaskStream, LoopStream, ToolStream,
        EffectStream, StreamOf("remote"), InvocationStream, TransferStream} \union ElsewhereStream
  BY DEF MemoryStream, RunStream, AttemptStream, TaskStream, LoopStream, ToolStream, EffectStream,
         StreamOf, InvocationStream, TransferStream, ElsewhereStream
<1>7. \A m : MemoryStream(m) \notin RunStreams
  BY <1>5, <1>6 DEF RunStreams
<1>8. \A r \in Request : r \notin ServiceStreams
  BY WorkspaceAssumption
<1>. QED  BY <1>1, <1>2, <1>4, <1>7, <1>8

----------------------------------------------------------------------------
(* Steps that keep the forms.                                              *)

LEMMA BesideLess ==
    ASSUME NEW c, NEW T, NEW O, Beside(c, T, O), NEW S \in SUBSET T, NEW P \in SUBSET O
    PROVE  Beside(c, S, P)
BY DEF Beside

LEMMA FormedKept ==
    ASSUME Formed, NEW c \in Caller, Forms(c), Extends(log, log'),
           call' = [call EXCEPT ![c] = call'[c]]
    PROVE  Formed'
<1>1. \A d \in Caller : Typed(call'[d])
  <2>1. \A d \in Caller : d # c => call'[d] = call[d]
    BY DEF Formed
  <2>. QED  BY <2>1 DEF Formed, Forms
<1>2. call' = [d \in Caller |-> call'[d]]
  BY DEF Formed
<1>3. IsLedger(log')
  BY DEF Extends
<1>4. \A i \in DOMAIN log' : WellFormed(log'[i])
  <2>1. \A i \in DOMAIN log' : (i \in DOMAIN log /\ log'[i] = log[i]) \/ i \in Since(log, log')
    BY DEF Extends, Since
  <2>. QED  BY <2>1 DEF Formed, Forms
<1>. QED  BY <1>1, <1>2, <1>3, <1>4 DEF Formed

\* A step that changes the call alone.
LEMMA QuietStep ==
    ASSUME Formed, NEW c \in Caller, NEW T, NEW O, NEW k,
           call' = [call EXCEPT ![c] = k], log' = log, Typed(k),
           call[c].op \notin O, k.op \notin O,
           call[c].op = "send" => call[c].event.type \notin T,
           k.op = "send" => k.event.type \notin T
    PROVE  Beside(c, T, O) /\ Forms(c)
<1>1. call'[c] = k
  BY DEF Formed
<1>2. Extends(log, log') /\ Since(log, log') = {}
  BY ExtendsItself DEF Formed
<1>. QED  BY <1>1, <1>2 DEF Beside, Forms

\* A step that appends an event, too.
LEMMA AppendingStep ==
    ASSUME Formed, NEW c \in Caller, NEW T, NEW O, NEW k, NEW e,
           call' = [call EXCEPT ![c] = k], log' = Append(log, e), Typed(k),
           WellFormed(e), e.type \notin T,
           call[c].op \notin O, k.op \notin O,
           call[c].op = "send" => call[c].event.type \notin T,
           k.op = "send" => k.event.type \notin T
    PROVE  Beside(c, T, O) /\ Forms(c)
<1>1. call'[c] = k
  BY DEF Formed
<1>2. Extends(log, log') /\ Since(log, log') = {Len(log) + 1} /\ log'[Len(log) + 1] = e
  BY AppendExtends DEF Formed
<1>. QED  BY <1>1, <1>2 DEF Beside, Forms

LEMMA IdleIsTyped ==
    Typed(Idle) /\ Idle.op = "idle"
BY DEF Typed, Idle

LEMMA MakesIsIdle ==
    ASSUME NEW c, NEW op, Makes(c, op)
    PROVE  call[c] = Idle /\ call[c].op = "idle"
BY DEF Makes, Idle

\* A call that only says what it will append.
LEMMA SendingIs ==
    ASSUME NEW e, WellFormed(e), NEW expected \in Nat, NEW global \in Nat,
           e.type \notin TriggerTypes \union KnowledgeTypes \union {"superseded"},
           e.type \in MemoryTypes => e.other = NoMemory,
           e.type = "remembered" => expected = 1
    PROVE  /\ Typed(Sending(e, expected, global))
           /\ Sending(e, expected, global).op = "send" /\ Sending(e, expected, global).event = e
           /\ Sending(e, expected, global).expected = expected
           /\ Sending(e, expected, global).global = global
<1> DEFINE k == Sending(e, expected, global)
<1>1. k.op = "send" /\ k.event = e /\ k.expected = expected /\ k.global = global
  BY DEF Sending
<1>. HIDE DEF k
<1>2. SendCall(k)
  BY <1>1 DEF SendCall
<1>3. Typed(k)
  BY <1>2 DEF Typed
<1>. QED  BY <1>1, <1>3 DEF k

LEMMA CountsAreNumbers ==
    ASSUME Formed, NEW st
    PROVE  Len(log) \in Nat /\ StreamLength(log, st) \in Nat
BY LedgerFacts, StreamIsFinite DEF Formed

LEMMA ExpectingIs ==
    ASSUME Formed, NEW e, WellFormed(e),
           e.type \notin TriggerTypes \union KnowledgeTypes \union {"superseded", "remembered"},
           e.type \in MemoryTypes => e.other = NoMemory
    PROVE  /\ Typed(ExpectsSequence(e)) /\ ExpectsSequence(e).op = "send"
           /\ ExpectsSequence(e).event = e
           /\ ExpectsSequence(e).expected = StreamLength(log, e.stream) + 1
           /\ ExpectsSequence(e).global = 0
           /\ Typed(ExpectsNothing(e)) /\ ExpectsNothing(e).op = "send"
           /\ ExpectsNothing(e).event = e
<1>1. StreamLength(log, e.stream) + 1 \in Nat /\ 0 \in Nat
  BY CountsAreNumbers
<1>. QED  BY <1>1, SendingIs DEF ExpectsSequence, ExpectsNothing

\* The append of a call that was prepared.
LEMMA SendIs ==
    ASSUME Formed, NEW c \in Caller, Send(c)
    PROVE  /\ SendCall(call[c]) /\ call' = [call EXCEPT ![c] = Idle] /\ call'[c] = Idle
           /\ \/ Holds(c) /\ Grows(log, log', call[c].event)
              \/ ~Holds(c) /\ log' = log
           /\ Forms(c)
           /\ \A T, O : "idle" \notin O /\ "send" \notin O /\ call[c].event.type \notin T
                => Beside(c, T, O)
<1>1. call[c].op = "send" /\ call' = [call EXCEPT ![c] = Idle]
      /\ log' = IF Holds(c) THEN Append(log, call[c].event) ELSE log
  BY DEF Send
<1>2. SendCall(call[c])
  BY <1>1, ByOperation DEF Formed
<1>3. WellFormed(call[c].event)
  BY <1>2 DEF SendCall
<1>4. call'[c] = Idle
  BY <1>1 DEF Formed
<1>5. ASSUME NEW T, NEW O, "idle" \notin O, "send" \notin O, call[c].event.type \notin T
      PROVE  Beside(c, T, O) /\ Forms(c)
  <2>1. CASE Holds(c)
    <3>1. log' = Append(log, call[c].event)
      BY <1>1, <2>1
    <3>. QED  BY <3>1, <1>1, <1>3, <1>5, AppendingStep, IdleIsTyped
  <2>2. CASE ~Holds(c)
    <3>1. log' = log
      BY <1>1, <2>2
    <3>. QED  BY <3>1, <1>1, <1>5, QuietStep, IdleIsTyped
  <2>. QED  BY <2>1, <2>2
<1>6. Forms(c)
  <2>1. "idle" \notin {} /\ "send" \notin {} /\ call[c].event.type \notin {}
    OBVIOUS
  <2>2. Beside(c, {}, {}) /\ Forms(c)
    BY <2>1, <1>5
  <2>. QED  BY <2>2
<1>7. Holds(c) => Grows(log, log', call[c].event)
  BY <1>1, GrowsByAppend DEF Formed
<1>. QED  BY <1>1, <1>2, <1>4, <1>5, <1>6, <1>7

LEMMA DieIs ==
    ASSUME Formed, NEW c \in Caller, Die(c)
    PROVE  /\ call' = [call EXCEPT ![c] = Idle] /\ call'[c] = Idle /\ log' = log
           /\ Forms(c) /\ Extends(log, log')
           /\ \A T, O : "idle" \notin O /\ call[c].op \notin O
                /\ (call[c].op = "send" => call[c].event.type \notin T)
                => Beside(c, T, O)
<1>1. call' = [call EXCEPT ![c] = Idle] /\ log' = log
  BY DEF Die
<1>2. call'[c] = Idle
  BY <1>1 DEF Formed
<1>3. ASSUME NEW T, NEW O, "idle" \notin O, call[c].op \notin O,
             call[c].op = "send" => call[c].event.type \notin T
      PROVE  Beside(c, T, O)
  BY <1>1, <1>3, QuietStep, IdleIsTyped
<1>4. Forms(c)
  <2>1. Since(log, log') = {} /\ Extends(log, log')
    BY <1>1, ExtendsItself DEF Formed
  <2>. QED  BY <2>1, <1>2, IdleIsTyped DEF Forms
<1>5. Extends(log, log')
  BY <1>1, ExtendsItself DEF Formed
<1>. QED  BY <1>1, <1>2, <1>3, <1>4, <1>5

----------------------------------------------------------------------------
(* The services' steps beside one another.                                 *)

\* Types and operations that are not of a service.
Spares(T, O, types, operations) ==
    T \intersect types = {} /\ O \intersect (operations \union {"idle", "send"}) = {}

LEMMA LetterStepIs ==
    ASSUME Formed, NEW c \in Caller, CorrespondenceNext(c),
           NEW T, NEW O, Spares(T, O, LetterTypes, LetterOps)
    PROVE  Beside(c, T, O) /\ Forms(c)
<1>. "idle" \notin O /\ "send" \notin O /\ "mail" \notin O /\ "mailed" \notin O
     /\ \A type \in LetterTypes : type \notin T
  BY DEF Spares, LetterOps
<1>. LetterTypes \intersect
        (TriggerTypes \union KnowledgeTypes \union {"superseded", "remembered"} \union MemoryTypes) = {}
  BY DEF LetterTypes, TriggerTypes, KnowledgeTypes, MemoryTypes
<1>1. ASSUME NEW r \in Request, CreateRequest(c, r)
      PROVE  Beside(c, T, O) /\ Forms(c)
  <2> DEFINE e == [type |-> "created", stream |-> r]
  <2>1. WellFormed(e) /\ e.type = "created" /\ e.type \in LetterTypes
    BY DEF WellFormed, LetterTypes
  <2>2. call' = [call EXCEPT ![c] = Sending(e, 1, 0)] /\ log' = log
    BY <1>1 DEF CreateRequest
  <2>. HIDE DEF e
  <2>3. /\ Typed(Sending(e, 1, 0)) /\ Sending(e, 1, 0).op = "send" /\ Sending(e, 1, 0).event = e
    BY <2>1, SendingIs
  <2>. QED  BY <1>1, <2>1, <2>2, <2>3, QuietStep, MakesIsIdle DEF CreateRequest
<1>2. ASSUME NEW r \in Request, NEW type \in {"acknowledged", "closed"}, AgencyActs(c, r, type)
      PROVE  Beside(c, T, O) /\ Forms(c)
  <2> DEFINE e == [type |-> type, stream |-> r]
  <2>1. WellFormed(e) /\ e.type = type /\ e.type \in LetterTypes
    BY DEF WellFormed, LetterTypes
  <2>2. call' = [call EXCEPT ![c] = ExpectsNothing(e)] /\ log' = log
    BY <1>2 DEF AgencyActs
  <2>. HIDE DEF e
  <2>3. /\ Typed(ExpectsNothing(e)) /\ ExpectsNothing(e).op = "send"
        /\ ExpectsNothing(e).event = e
    BY <2>1, ExpectingIs
  <2>. QED  BY <1>2, <2>1, <2>2, <2>3, QuietStep, MakesIsIdle DEF AgencyActs
<1>3. ASSUME NEW r \in Request, NEW l \in Letter, NEW kind \in Kind, CheckLetter(c, r, l, kind)
      PROVE  Beside(c, T, O) /\ Forms(c)
  <2> DEFINE k == [op |-> "mail", request |-> r, letter |-> l, kind |-> kind]
  <2>1. LetterCall(k) /\ k.op = "mail"
    BY DEF LetterCall, LetterOps
  <2>2. call' = [call EXCEPT ![c] = k] /\ log' = log
    BY <1>3 DEF CheckLetter
  <2>. HIDE DEF k
  <2>3. Typed(k)
    BY <2>1 DEF Typed
  <2>. QED  BY <1>3, <2>1, <2>2, <2>3, QuietStep, MakesIsIdle DEF CheckLetter
<1>4. CASE MailLetter(c)
  <2> DEFINE k == [call[c] EXCEPT !.op = "mailed"]
  <2>1. call[c].op = "mail" /\ log' = log /\ call' = [call EXCEPT ![c] = k]
    BY <1>4 DEF MailLetter
  <2>2. LetterCall(call[c])
    BY <2>1, ByOperation DEF LetterOps, Formed
  <2>3. LetterCall(k) /\ k.op = "mailed"
    BY <2>2 DEF LetterCall, LetterOps
  <2>. HIDE DEF k
  <2>4. Typed(k)
    BY <2>3 DEF Typed
  <2>. QED  BY <2>1, <2>3, <2>4, QuietStep
<1>5. CASE RecordLetter(c)
  <2> DEFINE k == call[c]
             e == [type |-> k.kind, stream |-> k.request, letter |-> k.letter]
  <2>1. k.op = "mailed" /\ log' = log
    BY <1>5 DEF RecordLetter
  <2>2. LetterCall(k)
    BY <2>1, ByOperation DEF LetterOps, Formed
  <2>3. WellFormed(e) /\ e.type \in LetterTypes
    BY <2>2 DEF WellFormed, LetterCall, LetterTypes, Kind
  <2>4. call' = [call EXCEPT ![c] = ExpectsSequence(e)] \/ call' = [call EXCEPT ![c] = Idle]
    BY <1>5 DEF RecordLetter
  <2>. HIDE DEF e
  <2>5. Typed(ExpectsSequence(e)) /\ ExpectsSequence(e).op = "send" /\ ExpectsSequence(e).event = e
    BY <2>3, ExpectingIs
  <2>6. CASE call' = [call EXCEPT ![c] = ExpectsSequence(e)]
    BY <2>1, <2>3, <2>5, <2>6, QuietStep
  <2>7. CASE call' = [call EXCEPT ![c] = Idle]
    BY <2>1, <2>7, QuietStep, IdleIsTyped
  <2>. QED  BY <2>4, <2>6, <2>7
<1>. QED  BY <1>1, <1>2, <1>3, <1>4, <1>5 DEF CorrespondenceNext

LEMMA MemoryEventForms ==
    ASSUME NEW type \in MemoryTypes, NEW m \in Memory, NEW o \in Memory \union {NoMemory}
    PROVE  WellFormed(MemoryEvent(type, m, o))
<1> DEFINE e == MemoryEvent(type, m, o)
<1>1. e.type = type
  BY MemoryEventIs
<1>2. e.type \in MemoryTypes /\ e = MemoryEvent(e.type, m, o)
  BY <1>1
<1>. HIDE DEF e
<1>3. WellFormed(e)
  BY <1>2 DEF WellFormed
<1>. QED  BY <1>3 DEF e

LEMMA MemoryStepIs ==
    ASSUME Formed, NEW c \in Caller, MemoryNext(c),
           NEW T, NEW O, Spares(T, O, MemoryTypes, MemoryOps)
    PROVE  Beside(c, T, O) /\ Forms(c)
<1>. "idle" \notin O /\ "send" \notin O /\ \A op \in MemoryOps : op \notin O
  BY DEF Spares
<1>. \A type \in {"remembered", "retracted", "superseded"} : type \notin T
  BY DEF Spares, MemoryTypes
<1>. /\ {"remembered", "retracted", "superseded"} = MemoryTypes
     /\ {"remembered", "retracted"} \intersect
            (TriggerTypes \union KnowledgeTypes \union {"superseded"}) = {}
  BY DEF MemoryTypes, TriggerTypes, KnowledgeTypes
<1>1. ASSUME NEW m \in Memory, RecordMemory(c, m)
      PROVE  Beside(c, T, O) /\ Forms(c)
  <2> DEFINE e == MemoryEvent("remembered", m, NoMemory)
  <2>1. WellFormed(e) /\ e.type = "remembered" /\ e.other = NoMemory
    BY MemoryEventIs, MemoryEventForms
  <2>2. call' = [call EXCEPT ![c] = Sending(e, 1, 0)] /\ log' = log
    BY <1>1 DEF RecordMemory
  <2>. HIDE DEF e
  <2>3. Typed(Sending(e, 1, 0)) /\ Sending(e, 1, 0).op = "send" /\ Sending(e, 1, 0).event = e
    BY <2>1, SendingIs
  <2>. QED  BY <1>1, <2>1, <2>2, <2>3, QuietStep, MakesIsIdle DEF RecordMemory
<1>2. ASSUME NEW m \in Memory, RetractMemory(c, m)
      PROVE  Beside(c, T, O) /\ Forms(c)
  <2> DEFINE k == [op |-> "retract", memory |-> m]
  <2>1. MemoryCall(k) /\ k.op = "retract"
    BY DEF MemoryCall
  <2>2. call' = [call EXCEPT ![c] = k] /\ log' = log
    BY <1>2 DEF RetractMemory
  <2>. HIDE DEF k
  <2>3. Typed(k) /\ k.op \in MemoryOps
    BY <2>1 DEF Typed, MemoryOps
  <2>. QED  BY <1>2, <2>1, <2>2, <2>3, QuietStep, MakesIsIdle DEF RetractMemory
<1>3. ASSUME NEW m \in Memory, NEW n \in Memory, SupersedeMemory(c, m, n)
      PROVE  Beside(c, T, O) /\ Forms(c)
  <2> DEFINE k == [op |-> "replace", memory |-> m, by |-> n]
  <2>1. MemoryCall(k) /\ k.op = "replace"
    BY DEF MemoryCall
  <2>2. call' = [call EXCEPT ![c] = k] /\ log' = log
    BY <1>3 DEF SupersedeMemory
  <2>. HIDE DEF k
  <2>3. Typed(k) /\ k.op \in MemoryOps
    BY <2>1 DEF Typed, MemoryOps
  <2>. QED  BY <1>3, <2>1, <2>2, <2>3, QuietStep, MakesIsIdle DEF SupersedeMemory
<1>4. CASE PrepareRetraction(c)
  <2> DEFINE e == MemoryEvent("retracted", call[c].memory, NoMemory)
  <2>1. call[c].op = "retract" /\ log' = log /\ call' = [call EXCEPT ![c] = ExpectsSequence(e)]
    BY <1>4 DEF PrepareRetraction
  <2>2. call[c].memory \in Memory
    BY <2>1, ByOperation DEF MemoryOps, Formed, MemoryCall
  <2>3. WellFormed(e) /\ e.type = "retracted" /\ e.other = NoMemory
    BY <2>2, MemoryEventIs, MemoryEventForms
  <2>. HIDE DEF e
  <2>4. Typed(ExpectsSequence(e)) /\ ExpectsSequence(e).op = "send" /\ ExpectsSequence(e).event = e
    BY <2>3, ExpectingIs
  <2>5. call[c].op \in MemoryOps
    BY <2>1 DEF MemoryOps
  <2>. QED  BY <2>1, <2>3, <2>4, <2>5, QuietStep
<1>5. CASE AppendReplacement(c)
  <2> DEFINE e == MemoryEvent("remembered", call[c].by, call[c].memory)
             k == [call[c] EXCEPT !.op = "replaced"]
  <2>1. call[c].op = "replace" /\ call[c].op \in MemoryOps
    BY <1>5 DEF AppendReplacement, MemoryOps
  <2>2. MemoryCall(call[c])
    BY <2>1, ByOperation DEF Formed
  <2>3. call[c].by \in Memory /\ call[c].memory \in Memory /\ MemoryCall(k) /\ k.op = "replaced"
    BY <2>1, <2>2 DEF MemoryCall
  <2>4. WellFormed(e) /\ e.type = "remembered"
    BY <2>3, MemoryEventIs, MemoryEventForms
  <2>5. \/ log' = Append(log, e) /\ call' = [call EXCEPT ![c] = k]
        \/ log' = log /\ call' = [call EXCEPT ![c] = Idle]
    BY <1>5 DEF AppendReplacement
  <2>. HIDE DEF e, k
  <2>6. Typed(k) /\ k.op \in MemoryOps
    BY <2>3 DEF Typed, MemoryOps
  <2>7. CASE log' = Append(log, e) /\ call' = [call EXCEPT ![c] = k]
    BY <2>1, <2>3, <2>4, <2>6, <2>7, AppendingStep
  <2>8. CASE log' = log /\ call' = [call EXCEPT ![c] = Idle]
    BY <2>1, <2>8, QuietStep, IdleIsTyped
  <2>. QED  BY <2>5, <2>7, <2>8
<1>6. CASE PrepareSupersession(c)
  <2> DEFINE k == [op |-> "superseding", by |-> call[c].by,
                   event |-> MemoryEvent("superseded", call[c].memory, call[c].by),
                   expected |-> StreamLength(log, MemoryStream(call[c].memory)) + 1,
                   global |-> 0]
  <2>1. call[c].op = "replaced" /\ call[c].op \in MemoryOps /\ log' = log
        /\ call' = [call EXCEPT ![c] = k]
    BY <1>6 DEF PrepareSupersession, MemoryOps
  <2>2. call[c].by \in Memory /\ call[c].memory \in Memory
    BY <2>1, ByOperation DEF Formed, MemoryCall
  <2>3. MemoryCall(k) /\ k.op = "superseding"
    BY <2>2 DEF MemoryCall
  <2>. HIDE DEF k
  <2>4. Typed(k) /\ k.op \in MemoryOps
    BY <2>3 DEF Typed, MemoryOps
  <2>. QED  BY <2>1, <2>3, <2>4, QuietStep
<1>7. CASE AppendSupersession(c)
  <2> DEFINE k == [op |-> "undo", by |-> call[c].by]
             e == call[c].event
  <2>1. call[c].op = "superseding" /\ call[c].op \in MemoryOps
    BY <1>7 DEF AppendSupersession, MemoryOps
  <2>2. call[c].by \in Memory /\ \E m \in Memory : e = MemoryEvent("superseded", m, call[c].by)
    BY <2>1, ByOperation DEF Formed, MemoryCall
  <2>3. WellFormed(e) /\ e.type = "superseded"
    BY <2>2, MemoryEventIs, MemoryEventForms
  <2>4. MemoryCall(k) /\ k.op = "undo"
    BY <2>2 DEF MemoryCall
  <2>5. \/ log' = Append(log, e) /\ call' = [call EXCEPT ![c] = Idle]
        \/ log' = log /\ call' = [call EXCEPT ![c] = k]
    BY <1>7 DEF AppendSupersession
  <2>. HIDE DEF e, k
  <2>6. Typed(k) /\ k.op \in MemoryOps
    BY <2>4 DEF Typed, MemoryOps
  <2>7. CASE log' = Append(log, e) /\ call' = [call EXCEPT ![c] = Idle]
    BY <2>1, <2>3, <2>7, AppendingStep, IdleIsTyped
  <2>8. CASE log' = log /\ call' = [call EXCEPT ![c] = k]
    BY <2>1, <2>4, <2>6, <2>8, QuietStep
  <2>. QED  BY <2>5, <2>7, <2>8
<1>8. CASE PrepareUndo(c)
  <2> DEFINE k == [op |-> "undoing", by |-> call[c].by,
                   event |-> MemoryEvent("retracted", call[c].by, call[c].by),
                   expected |-> StreamLength(log, MemoryStream(call[c].by)) + 1,
                   global |-> 0]
  <2>1. call[c].op = "undo" /\ call[c].op \in MemoryOps /\ log' = log
        /\ call' = [call EXCEPT ![c] = k]
    BY <1>8 DEF PrepareUndo, MemoryOps
  <2>2. call[c].by \in Memory
    BY <2>1, ByOperation DEF Formed, MemoryCall
  <2>3. MemoryCall(k) /\ k.op = "undoing"
    BY <2>2 DEF MemoryCall
  <2>. HIDE DEF k
  <2>4. Typed(k) /\ k.op \in MemoryOps
    BY <2>3 DEF Typed, MemoryOps
  <2>. QED  BY <2>1, <2>3, <2>4, QuietStep
<1>9. CASE AppendUndo(c)
  <2> DEFINE e == call[c].event
  <2>1. call[c].op = "undoing" /\ call[c].op \in MemoryOps /\ call' = [call EXCEPT ![c] = Idle]
    BY <1>9 DEF AppendUndo, MemoryOps
  <2>2. call[c].by \in Memory /\ e = MemoryEvent("retracted", call[c].by, call[c].by)
    BY <2>1, ByOperation DEF Formed, MemoryCall
  <2>3. WellFormed(e) /\ e.type = "retracted"
    BY <2>2, MemoryEventIs, MemoryEventForms
  <2>4. log' = Append(log, e) \/ log' = log
    BY <1>9 DEF AppendUndo
  <2>. HIDE DEF e
  <2>5. CASE log' = Append(log, e)
    BY <2>1, <2>3, <2>5, AppendingStep, IdleIsTyped
  <2>6. CASE log' = log
    BY <2>1, <2>6, QuietStep, IdleIsTyped
  <2>. QED  BY <2>4, <2>5, <2>6
<1>. QED  BY <1>1, <1>2, <1>3, <1>4, <1>5, <1>6, <1>7, <1>8, <1>9 DEF MemoryNext

LEMMA TriggerStepIs ==
    ASSUME Formed, NEW c \in Caller, TriggerNext(c),
           NEW T, NEW O, Spares(T, O, TriggerTypes, TriggerOps)
    PROVE  Beside(c, T, O) /\ Forms(c)
<1>. /\ "idle" \notin O /\ "send" \notin O /\ "evaluate" \notin O /\ "request" \notin O
     /\ "mount" \notin T /\ "requested" \notin T
  BY DEF Spares, TriggerTypes, TriggerOps
<1>1. ASSUME NEW state, Mount(c, state)
      PROVE  Beside(c, T, O) /\ Forms(c)
  <2> DEFINE e == [type |-> "mount", stream |-> MountStream, state |-> state]
  <2>1. WellFormed(e) /\ e.type = "mount"
    BY DEF WellFormed
  <2>2. log' = Append(log, e) /\ call' = [call EXCEPT ![c] = Idle]
    BY <1>1, MakesIsIdle DEF Mount, Formed
  <2>3. call[c].op = "idle"
    BY <1>1, MakesIsIdle DEF Mount
  <2>. HIDE DEF e
  <2>. QED  BY <2>1, <2>2, <2>3, AppendingStep, IdleIsTyped
<1>2. ASSUME NEW x \in Signal, NEW at \in Time, EvaluateTrigger(c, x, at)
      PROVE  Beside(c, T, O) /\ Forms(c)
  <2> DEFINE k == [op |-> "evaluate", signal |-> x, at |-> at, attempts |-> 2]
  <2>1. TriggerCall(k) /\ k.op = "evaluate"
    BY DEF TriggerCall
  <2>2. call' = [call EXCEPT ![c] = k] /\ log' = log
    BY <1>2 DEF EvaluateTrigger
  <2>. HIDE DEF k
  <2>3. Typed(k)
    BY <2>1 DEF Typed
  <2>. QED  BY <1>2, <2>1, <2>2, <2>3, QuietStep, MakesIsIdle DEF EvaluateTrigger
<1>3. CASE InspectSnapshot(c)
  <2> DEFINE k == call[c]
             e == [type |-> "requested", gate |-> GateOf[k.signal],
                   stream |-> TriggerStream(GateOf[k.signal]), signal |-> k.signal, at |-> k.at]
             l == [op |-> "request", attempts |-> k.attempts, expected |-> 0, event |-> e,
                   global |-> Len(log) + 1]
  <2>1. k.op = "evaluate" /\ log' = log
    BY <1>3 DEF InspectSnapshot
  <2>2. k.signal \in Signal /\ k.at \in Time
    BY <2>1, ByOperation DEF Formed, TriggerOps, TriggerCall
  <2>3. WellFormed(e) /\ e.type = "requested"
    BY <2>2 DEF WellFormed
  <2>4. call' = [call EXCEPT ![c] = l] \/ call' = [call EXCEPT ![c] = Idle]
    BY <1>3 DEF InspectSnapshot
  <2>. HIDE DEF e
  <2>5. TriggerCall(l) /\ l.op = "request"
    BY <2>3 DEF TriggerCall
  <2>. HIDE DEF k, l
  <2>6. Typed(l)
    BY <2>5 DEF Typed
  <2>7. call[c].op = "evaluate"
    BY <2>1 DEF k
  <2>8. CASE call' = [call EXCEPT ![c] = l]
    BY <2>1, <2>5, <2>6, <2>7, <2>8, QuietStep
  <2>9. CASE call' = [call EXCEPT ![c] = Idle]
    BY <2>1, <2>7, <2>9, QuietStep, IdleIsTyped
  <2>. QED  BY <2>4, <2>8, <2>9
<1>4. CASE AppendRequest(c)
  <2> DEFINE e == call[c].event
             l == [op |-> "evaluate", signal |-> e.signal, at |-> e.at,
                   attempts |-> call[c].attempts - 1]
  <2>1. call[c].op = "request"
    BY <1>4 DEF AppendRequest
  <2>2. WellFormed(e) /\ e.type = "requested"
    BY <2>1, ByOperation DEF Formed, TriggerOps, TriggerCall
  <2>3. e.signal \in Signal /\ e.at \in Time
    BY <2>2 DEF WellFormed, Kind, MemoryTypes, ServiceTypes
  <2>4. \/ log' = Append(log, e) /\ call' = [call EXCEPT ![c] = Idle]
        \/ log' = log /\ call' = [call EXCEPT ![c] = Idle]
        \/ log' = log /\ call' = [call EXCEPT ![c] = l]
    BY <1>4 DEF AppendRequest
  <2>5. TriggerCall(l) /\ l.op = "evaluate"
    BY <2>3 DEF TriggerCall
  <2>. HIDE DEF e, l
  <2>6. Typed(l)
    BY <2>5 DEF Typed
  <2>7. CASE log' = Append(log, e) /\ call' = [call EXCEPT ![c] = Idle]
    BY <2>1, <2>2, <2>7, AppendingStep, IdleIsTyped
  <2>8. CASE log' = log /\ call' = [call EXCEPT ![c] = Idle]
    BY <2>1, <2>8, QuietStep, IdleIsTyped
  <2>9. CASE log' = log /\ call' = [call EXCEPT ![c] = l]
    BY <2>1, <2>5, <2>6, <2>9, QuietStep
  <2>. QED  BY <2>4, <2>7, <2>8, <2>9
<1>. QED  BY <1>1, <1>2, <1>3, <1>4 DEF TriggerNext

\* What a decision emits.
LEMMA EventsOfDecisions ==
    /\ \A p \in Claim : Event("proposed", p) \in KnowledgeEvent
    /\ \A p \in Claim, e \in Entity : IsEntity(p) => BindingEvent(p, e) \in KnowledgeEvent
    /\ \A r \in Review : VerdictEvent(r) \in KnowledgeEvent
    /\ \A e \in KnowledgeEvent :
        e.type \in KnowledgeTypes /\ e.stream = DecisionStream /\ WellFormed(e)
<1>1. /\ \A p \in Claim : Event("proposed", p) \in KnowledgeEvent
      /\ \A p \in Claim, e \in Entity : IsEntity(p) => BindingEvent(p, e) \in KnowledgeEvent
      /\ \A r \in Review : VerdictEvent(r) \in KnowledgeEvent
  BY DEF KnowledgeEvent
<1>2. ASSUME NEW e \in KnowledgeEvent
      PROVE  e.type \in KnowledgeTypes /\ e.stream = DecisionStream
  <2>1. ASSUME NEW p \in Claim, e = Event("proposed", p)
        PROVE  e.type = "proposed" /\ e.stream = DecisionStream
    BY <2>1 DEF Event
  <2>2. ASSUME NEW p \in Claim, NEW x \in Entity, e = BindingEvent(p, x)
        PROVE  e.type = "bound" /\ e.stream = DecisionStream
    BY <2>2 DEF BindingEvent
  <2>3. ASSUME NEW r \in Review, e = VerdictEvent(r)
        PROVE  e.type = "reviewed" /\ e.stream = DecisionStream
    BY <2>3 DEF VerdictEvent
  <2>. QED  BY <2>1, <2>2, <2>3 DEF KnowledgeEvent, KnowledgeTypes
<1>3. ASSUME NEW e \in KnowledgeEvent
      PROVE  WellFormed(e)
  BY <1>2 DEF WellFormed, KnowledgeTypes
<1>. QED  BY <1>1, <1>2, <1>3

LEMMA ReviewIs ==
    ASSUME NEW r \in Review
    PROVE  r.claim \in Claim /\ (r.action = "accept" /\ IsEntity(r.claim) => r.entity \in Entity)
<1>1. ASSUME NEW p \in {q \in Claim : IsEntity(q)}, NEW e \in Entity,
             r = Verdict(p, "accept", e, NoClaim)
      PROVE  r.claim = p /\ r.entity = e
  BY <1>1 DEF Verdict
<1>2. ASSUME NEW p \in {q \in Claim : ~IsEntity(q)}, r = Verdict(p, "accept", NoEntity, NoClaim)
      PROVE  r.claim = p
  BY <1>2 DEF Verdict
<1>3. ASSUME NEW p \in Claim, NEW action \in {"reject", "dispute", "withdraw"},
             r = Verdict(p, action, NoEntity, NoClaim)
      PROVE  r.claim = p /\ r.action # "accept"
  BY <1>3 DEF Verdict
<1>4. ASSUME NEW p \in Claim, NEW q \in Claim, r = Verdict(p, "supersede", NoEntity, q)
      PROVE  r.claim = p /\ r.action # "accept"
  BY <1>4 DEF Verdict
<1>. QED  BY <1>1, <1>2, <1>3, <1>4 DEF Review

LEMMA EmitsIs ==
    ASSUME NEW r \in Review
    PROVE  Emits(r) \in Seq(KnowledgeEvent)
<1>1. VerdictEvent(r) \in KnowledgeEvent
  BY EventsOfDecisions
<1>2. r.action = "accept" /\ IsEntity(r.claim) => BindingEvent(r.claim, r.entity) \in KnowledgeEvent
  BY ReviewIs, EventsOfDecisions
<1>3. CASE r.action = "accept" /\ IsEntity(r.claim)
  <2>1. Emits(r) = <<BindingEvent(r.claim, r.entity)>> \o <<VerdictEvent(r)>>
    BY <1>3 DEF Emits
  <2>. QED  BY <1>1, <1>2, <1>3, <2>1
<1>4. CASE ~(r.action = "accept" /\ IsEntity(r.claim))
  <2>1. Emits(r) = <<>> \o <<VerdictEvent(r)>>
    BY <1>4 DEF Emits
  <2>. QED  BY <1>1, <2>1
<1>. QED  BY <1>3, <1>4

LEMMA DecidedIs ==
    ASSUME NEW b \in Seq(KnowledgeEvent)
    PROVE  Typed(Decided(b)) /\ Decided(b).op = "decide"
<1>1. Decided(b).op = "decide" /\ Decided(b).batch = b
  BY DEF Decided
<1>. QED  BY <1>1 DEF Typed, KnowledgeCall

LEMMA DecidedBeside ==
    ASSUME Formed, NEW c \in Caller, call[c] = Idle, log' = log,
           NEW b \in Seq(KnowledgeEvent), call' = [call EXCEPT ![c] = Decided(b)],
           NEW T, NEW O, Spares(T, O, KnowledgeTypes, {"decide"})
    PROVE  Beside(c, T, O) /\ Forms(c)
BY DecidedIs, QuietStep, IdleIsTyped DEF Spares

LEMMA KnowledgeStepIs ==
    ASSUME Formed, NEW c \in Caller, KnowledgeNext(c),
           NEW T, NEW O, Spares(T, O, KnowledgeTypes, {"decide"})
    PROVE  Beside(c, T, O) /\ Forms(c)
<1>1. ASSUME NEW p \in Claim, Propose(c, p)
      PROVE  Beside(c, T, O) /\ Forms(c)
  <2>1. <<Event("proposed", p)>> \in Seq(KnowledgeEvent)
    BY EventsOfDecisions
  <2>. QED  BY <1>1, <2>1, MakesIsIdle, DecidedBeside DEF Propose
<1>2. ASSUME NEW p \in Claim, NEW e \in Entity, Bind(c, p, e)
      PROVE  Beside(c, T, O) /\ Forms(c)
  <2>1. <<BindingEvent(p, e)>> \in Seq(KnowledgeEvent)
    BY <1>2, EventsOfDecisions DEF Bind
  <2>. QED  BY <1>2, <2>1, MakesIsIdle, DecidedBeside DEF Bind
<1>3. CASE ReviewOne(c)
  <2>1. PICK r \in Review : call' = [call EXCEPT ![c] = Decided(Emits(r))]
    BY <1>3 DEF ReviewOne
  <2>. QED  BY <1>3, <2>1, EmitsIs, MakesIsIdle, DecidedBeside DEF ReviewOne
<1>4. CASE ReviewTwo(c)
  <2>1. PICK q \in Review, r \in Review : call' = [call EXCEPT ![c] = Decided(Emits(q) \o Emits(r))]
    BY <1>4 DEF ReviewTwo
  <2>2. Emits(q) \o Emits(r) \in Seq(KnowledgeEvent)
    BY EmitsIs
  <2>. QED  BY <1>4, <2>1, <2>2, MakesIsIdle, DecidedBeside DEF ReviewTwo
<1>5. CASE AppendDecision(c)
  <2>1. call[c].op = "decide" /\ call' = [call EXCEPT ![c] = Idle]
    BY <1>5 DEF AppendDecision
  <2>2. call[c].batch \in Seq(KnowledgeEvent)
    BY <2>1, ByOperation DEF Formed, KnowledgeCall
  <2>3. call'[c] = Idle
    BY <2>1 DEF Formed
  <2>4. Extends(log, log') /\ \A i \in Since(log, log') : log'[i] \in KnowledgeEvent
    <3>1. CASE Holds(c)
      <4>1. log' = log \o call[c].batch
        BY <1>5, <3>1 DEF AppendDecision
      <4>2. /\ Extends(log, log')
            /\ \A i \in Since(log, log') : /\ i - Len(log) \in 1..Len(call[c].batch)
                                           /\ log'[i] = call[c].batch[i - Len(log)]
        BY <4>1, <2>2, BatchExtends DEF Formed
      <4>3. \A j \in 1..Len(call[c].batch) : call[c].batch[j] \in KnowledgeEvent
        BY <2>2
      <4>. QED  BY <4>2, <4>3
    <3>2. CASE ~Holds(c)
      <4>1. log' = log
        BY <1>5, <3>2 DEF AppendDecision
      <4>. QED  BY <4>1, ExtendsItself DEF Formed
    <3>. QED  BY <3>1, <3>2
  <2>5. \A i \in Since(log, log') : WellFormed(log'[i]) /\ log'[i].type \notin T
    BY <2>4, EventsOfDecisions DEF Spares
  <2>. QED  BY <2>1, <2>3, <2>4, <2>5, IdleIsTyped DEF Beside, Forms, Spares
<1>. QED  BY <1>1, <1>2, <1>3, <1>4, <1>5 DEF KnowledgeNext

LEMMA RebuildStepIs ==
    ASSUME Formed, NEW c \in Caller, RebuildNext(c),
           NEW T, NEW O, Spares(T, O, {}, Rebuilding)
    PROVE  Beside(c, T, O) /\ Forms(c)
<1>. "idle" \notin O /\ "send" \notin O /\ \A op \in Rebuilding : op \notin O /\ op # "send"
  BY DEF Spares, Rebuilding
<1>0. log' = log
  BY DEF RebuildNext, StartRebuild, ClearTemp, WriteArtifact, PromoteDirectory, RemoveTemp, RebuildFails
<1>a. ASSUME NEW k, RebuildCall(k), call' = [call EXCEPT ![c] = k],
             call[c].op \notin O, call[c].op # "send"
      PROVE  Beside(c, T, O) /\ Forms(c)
  <2>1. Typed(k) /\ k.op \in Rebuilding
    BY <1>a DEF Typed, RebuildCall
  <2>. QED  BY <1>0, <1>a, <2>1, QuietStep
<1>b. ASSUME call' = [call EXCEPT ![c] = Idle], call[c].op \notin O, call[c].op # "send"
      PROVE  Beside(c, T, O) /\ Forms(c)
  BY <1>0, <1>b, QuietStep, IdleIsTyped
<1>c. ASSUME call[c].op \in Rebuilding
      PROVE  RebuildCall(call[c]) /\ call[c].op \notin O /\ call[c].op # "send"
  BY <1>c, ByOperation DEF Formed
<1>1. ASSUME NEW id \in RebuildId, StartRebuild(c, id)
      PROVE  Beside(c, T, O) /\ Forms(c)
  <2> DEFINE k == [op |-> "clear", id |-> id, build |-> ThisBuild, todo |-> Artifact]
  <2>1. ThisBuild \in Nat \ {0}
    BY CountsAreNumbers DEF ThisBuild
  <2>2. RebuildCall(k)
    BY <2>1 DEF RebuildCall, Rebuilding
  <2>. QED  BY <1>1, <1>a, <2>2, MakesIsIdle DEF StartRebuild
<1>2. CASE ClearTemp(c)
  <2> DEFINE k == [call[c] EXCEPT !.op = "write"]
  <2>1. call[c].op \in Rebuilding /\ call' = [call EXCEPT ![c] = k]
    BY <1>2 DEF ClearTemp, Rebuilding
  <2>2. RebuildCall(k)
    BY <2>1, <1>c DEF RebuildCall, Rebuilding
  <2>. QED  BY <1>a, <1>c, <2>1, <2>2
<1>3. ASSUME NEW a \in Artifact, WriteArtifact(c, a)
      PROVE  Beside(c, T, O) /\ Forms(c)
  <2> DEFINE k == [call[c] EXCEPT !.todo = @ \ {a}]
             l == [call[c] EXCEPT !.op = "cleanup"]
  <2>1. call[c].op \in Rebuilding /\ (call' = [call EXCEPT ![c] = k] \/ call' = [call EXCEPT ![c] = l])
    BY <1>3 DEF WriteArtifact, Rebuilding
  <2>2. RebuildCall(k) /\ RebuildCall(l)
    BY <2>1, <1>c DEF RebuildCall, Rebuilding
  <2>. QED  BY <1>a, <1>c, <2>1, <2>2
<1>4. CASE PromoteDirectory(c)
  <2> DEFINE l == [call[c] EXCEPT !.op = "cleanup"]
  <2>1. call[c].op \in Rebuilding /\ (call' = [call EXCEPT ![c] = Idle] \/ call' = [call EXCEPT ![c] = l])
    BY <1>4 DEF PromoteDirectory, Rebuilding
  <2>2. RebuildCall(l)
    BY <2>1, <1>c DEF RebuildCall, Rebuilding
  <2>. QED  BY <1>a, <1>b, <1>c, <2>1, <2>2
<1>5. CASE RemoveTemp(c)
  <2>1. call[c].op \in Rebuilding /\ call' = [call EXCEPT ![c] = Idle]
    BY <1>5 DEF RemoveTemp, Rebuilding
  <2>. QED  BY <1>b, <1>c, <2>1
<1>6. CASE RebuildFails(c)
  <2> DEFINE l == [call[c] EXCEPT !.op = "cleanup"]
  <2>1. call[c].op \in Rebuilding /\ call' = [call EXCEPT ![c] = l]
    BY <1>6 DEF RebuildFails, Rebuilding
  <2>2. RebuildCall(l)
    BY <2>1, <1>c DEF RebuildCall, Rebuilding
  <2>. QED  BY <1>a, <1>c, <2>1, <2>2
<1>. QED  BY <1>1, <1>2, <1>3, <1>4, <1>5, <1>6 DEF RebuildNext

----------------------------------------------------------------------------
(* The steps of runs: handoffs, loops and mounted tasks.                   *)

RunEvent(e) == e.type \notin ServiceTypes /\ e.stream \in RunStreams

RunGoes(k) == k = Idle \/ RunCall(k) \/ (SendCall(k) /\ k.event.type \notin ServiceTypes)

RunMoves(c) ==
    /\ call' = [call EXCEPT ![c] = call'[c]]
    /\ RunGoes(call'[c])
    /\ log' = log \/ \E e : RunEvent(e) /\ log' = Append(log, e)

LEMMA RunStepIs ==
    ASSUME Formed, NEW c \in Caller, RunMoves(c), call[c].op \in RunOps \union {"idle"},
           NEW T \in SUBSET ServiceTypes, NEW O, Spares(T, O, {}, RunOps)
    PROVE  Beside(c, T, O) /\ Forms(c)
<1> DEFINE k == call'[c]
<1>1. Typed(k) /\ k.op \in RunOps \union {"idle", "send"}
  BY DEF RunMoves, RunGoes, Typed, RunCall, MountedCall, SendCall, RunOps, Idle
<1>2. k.op = "send" => k.event.type \notin T
  BY DEF RunMoves, RunGoes, RunCall, MountedCall, Idle
<1>3. /\ call[c].op # "send" /\ call[c].op \notin O /\ k.op \notin O
  BY <1>1 DEF Spares, RunOps
<1>4. call' = [call EXCEPT ![c] = k]
  BY DEF RunMoves
<1>. HIDE DEF k
<1>5. CASE log' = log
  BY <1>1, <1>2, <1>3, <1>4, <1>5, QuietStep
<1>6. ASSUME NEW e, RunEvent(e), log' = Append(log, e)
      PROVE  Beside(c, T, O) /\ Forms(c)
  <2>1. WellFormed(e) /\ e.type \notin T
    BY <1>6 DEF RunEvent, WellFormed
  <2>. QED  BY <1>1, <1>2, <1>3, <1>4, <1>6, <2>1, AppendingStep
<1>. QED  BY <1>5, <1>6 DEF RunMoves

LEMMA OwnStreams ==
    {RunStream, AttemptStream, TaskStream, LoopStream, ToolStream, EffectStream,
     InvocationStream, TransferStream} \subseteq RunStreams
BY DEF RunStreams

LEMMA StageEventIs ==
    ASSUME NEW stage \in Stages, NEW b, NEW cause
    PROVE  /\ RunEvent(StageEvent(stage, b, cause))
           /\ StageEvent(stage, b, cause).type = stage
<1> DEFINE e == StageEvent(stage, b, cause)
<1>1. e.type = stage /\ e.stream \in {RunStream, AttemptStream, TaskStream}
  <2>1. CASE stage = "prepared"
    BY <2>1 DEF StageEvent
  <2>2. CASE stage = "recorded"
    BY <2>2 DEF StageEvent
  <2>3. CASE stage = "terminal"
    BY <2>3 DEF StageEvent
  <2>4. CASE stage = "orchestrated"
    BY <2>4 DEF StageEvent
  <2>5. CASE stage = "status"
    BY <2>5 DEF StageEvent
  <2>. QED  BY <2>1, <2>2, <2>3, <2>4, <2>5 DEF Stages
<1>2. stage \notin ServiceTypes
  BY DEF Stages, ServiceTypes, Kind, MemoryTypes
<1>. QED  BY <1>1, <1>2, OwnStreams DEF RunEvent

LEMMA ReachIs ==
    ASSUME NEW stage \in Stages, NEW b, NEW cause
    PROVE  RunGoes(At(stage, b, cause)) /\ At(stage, b, cause).op = "reach"
           /\ At(stage, b, cause).stage = stage
BY DEF At, RunGoes, RunCall

\* A stage has a next one, but for the last.
LEMMA NextStage ==
    ASSUME NEW stage \in Stages
    PROVE  LET n == CHOOSE i \in DOMAIN Chain : Chain[i] = stage IN
           n \in 1..5 /\ Chain[n] = stage /\ (n # Len(Chain) => Chain[n + 1] \in Stages)
<1>1. DOMAIN Chain = 1..5 /\ Len(Chain) = 5 /\ \A i \in 1..5 : Chain[i] \in Stages
  BY DEF Chain, Stages
<1>2. \E i \in DOMAIN Chain : Chain[i] = stage
  <2>1. Chain[1] = "prepared" /\ Chain[2] = "recorded" /\ Chain[3] = "terminal"
        /\ Chain[4] = "orchestrated" /\ Chain[5] = "status"
    BY DEF Chain
  <2>. QED  BY <1>1, <2>1 DEF Stages
<1> DEFINE n == CHOOSE i \in DOMAIN Chain : Chain[i] = stage
<1>3. n \in DOMAIN Chain /\ Chain[n] = stage
  BY <1>2
<1>. HIDE DEF n
<1>4. n \in 1..5 /\ (n # 5 => n + 1 \in 1..5)
  BY <1>1, <1>3
<1>. QED  BY <1>1, <1>3, <1>4 DEF n

LEMMA PassedGoes ==
    ASSUME NEW k, k.stage \in Stages, NEW id
    PROVE  RunGoes(Passed(k, id))
<1> DEFINE n == CHOOSE i \in DOMAIN Chain : Chain[i] = k.stage
<1>1. n # Len(Chain) => Chain[n + 1] \in Stages
  BY NextStage
<1>2. RunGoes(Idle)
  BY DEF RunGoes
<1>. HIDE DEF n
<1>3. n # Len(Chain) => RunGoes(At(Chain[n + 1], k.binding, id))
  BY <1>1, ReachIs
<1>. QED  BY <1>2, <1>3 DEF Passed, n

LEMMA DecisionGoes ==
    ASSUME NEW k, k.stage \in Stages
    PROVE  RunGoes(Decision(k))
<1> DEFINE e == StageEvent(k.stage, k.binding, k.cause)
           a == Appending(k, e)
<1>1. RunEvent(e)
  BY StageEventIs
<1>2. a.op = "extend" /\ a.stage = k.stage /\ a.event = e
  BY DEF Appending
<1>3. WellFormed(e) /\ e.type \notin ServiceTypes
  BY <1>1 DEF RunEvent, WellFormed
<1>. HIDE DEF e, a
<1>4. RunGoes(a)
  BY <1>2, <1>3 DEF RunGoes, RunCall
<1>5. RunGoes(Idle)
  BY DEF RunGoes
<1>6. RunGoes(Passed(k, CHOOSE i \in Exact(log, e) : TRUE))
  BY PassedGoes
<1>. QED  BY <1>4, <1>5, <1>6 DEF Decision, e, a

LEMMA MovesTo ==
    ASSUME Formed, NEW c \in Caller, NEW k, call' = [call EXCEPT ![c] = k], RunGoes(k), log' = log
    PROVE  RunMoves(c)
<1>1. call'[c] = k
  BY DEF Formed
<1>. QED  BY <1>1 DEF RunMoves

LEMMA MovesAppending ==
    ASSUME Formed, NEW c \in Caller, NEW k, call' = [call EXCEPT ![c] = k], RunGoes(k),
           NEW e, RunEvent(e), log' = Append(log, e)
    PROVE  RunMoves(c)
<1>1. call'[c] = k
  BY DEF Formed
<1>. QED  BY <1>1 DEF RunMoves

LEMMA InterferingMoves ==
    ASSUME Formed, NEW c \in Caller, NEW op, NEW e, RunEvent(e), Interfere(c, op, e)
    PROVE  RunMoves(c) /\ call[c].op = "idle"
<1>1. call[c] = Idle /\ log' = Append(log, e) /\ call' = [call EXCEPT ![c] = Idle]
  BY MakesIsIdle DEF Interfere, Formed
<1>2. RunGoes(Idle) /\ call[c].op = "idle"
  BY <1>1, IdleIsTyped DEF RunGoes
<1>. QED  BY <1>1, <1>2, MovesAppending

LEMMA SendingGoes ==
    ASSUME Formed, NEW e, RunEvent(e)
    PROVE  /\ RunGoes(ExpectsSequence(e)) /\ SendCall(ExpectsSequence(e))
           /\ ExpectsSequence(e).event = e
<1>1. WellFormed(e)
  BY DEF RunEvent, WellFormed
<1>2. e.type \notin TriggerTypes \union KnowledgeTypes \union {"superseded", "remembered"}
      /\ e.type \notin MemoryTypes /\ e.type \notin ServiceTypes
  BY DEF RunEvent, ServiceTypes, TriggerTypes, KnowledgeTypes, MemoryTypes
<1>3. /\ Typed(ExpectsSequence(e)) /\ ExpectsSequence(e).op = "send"
      /\ ExpectsSequence(e).event = e
  BY <1>1, <1>2, ExpectingIs
<1>4. SendCall(ExpectsSequence(e))
  BY <1>3, ByOperation
<1>. QED  BY <1>2, <1>3, <1>4 DEF RunGoes

LEMMA HandoffMoves ==
    ASSUME Formed, NEW c \in Caller, HandoffNext(c)
    PROVE  RunMoves(c) /\ call[c].op \in RunOps \union {"idle"}
<1>0. RunGoes(Idle)
  BY DEF RunGoes
<1>1. ASSUME NEW text, NEW supersedes, AppendFinalOutput(c, text, supersedes)
      PROVE  RunMoves(c) /\ call[c].op \in RunOps \union {"idle"}
  <2> DEFINE e == FinalOutput(text, supersedes)
  <2>1. RunEvent(e)
    BY OwnStreams DEF FinalOutput, RunEvent, ServiceTypes, Kind, MemoryTypes
  <2>2. call' = [call EXCEPT ![c] = ExpectsSequence(e)] /\ log' = log /\ call[c].op = "idle"
    BY <1>1, MakesIsIdle DEF AppendFinalOutput
  <2>. HIDE DEF e
  <2>. QED  BY <2>1, <2>2, SendingGoes, MovesTo
<1>2. ASSUME NEW bound, RecordHandoff(c, bound)
      PROVE  RunMoves(c) /\ call[c].op \in RunOps \union {"idle"}
  <2>1. PICK b, f : call' = [call EXCEPT ![c] = Decision(At("prepared", b, f))]
    BY <1>2 DEF RecordHandoff
  <2>2. At("prepared", b, f).stage \in Stages
    BY DEF At, Stages
  <2>3. log' = log /\ call[c].op = "idle"
    BY <1>2, MakesIsIdle DEF RecordHandoff
  <2>. QED  BY <2>1, <2>2, <2>3, DecisionGoes, MovesTo
<1>3. CASE FinalizeRun(c)
  <2>1. PICK b, i : call' = [call EXCEPT ![c] = At("terminal", b, i)]
    BY <1>3 DEF FinalizeRun
  <2>2. "terminal" \in Stages
    BY DEF Stages
  <2>3. log' = log /\ call[c].op = "idle"
    BY <1>3, MakesIsIdle DEF FinalizeRun
  <2>. QED  BY <2>1, <2>2, <2>3, ReachIs, MovesTo
<1>4. CASE RecoverSuffix(c)
  <2>1. log' = log /\ call[c].op = "idle" /\ call' = [call EXCEPT ![c] = Suffix(log)]
    BY <1>4, MakesIsIdle DEF RecoverSuffix
  <2>2. "orchestrated" \in Stages
    BY DEF Stages
  <2>3. RunGoes(Suffix(log))
    BY <2>2, ReachIs DEF Suffix
  <2>. QED  BY <2>1, <2>3, MovesTo
<1>5. CASE ReachStage(c)
  <2>1. call[c].op = "reach" /\ log' = log
        /\ (call' = [call EXCEPT ![c] = Idle] \/ call' = [call EXCEPT ![c] = Decision(call[c])])
    BY <1>5 DEF ReachStage
  <2>2. call[c].stage \in Stages
    BY <2>1, ByOperation DEF Formed, RunOps, RunCall, MountedCall
  <2>. QED  BY <1>0, <2>1, <2>2, DecisionGoes, MovesTo DEF RunOps
<1>6. CASE ExtendChain(c)
  <2> DEFINE k == call[c]
             id == CHOOSE i \in Exact(log, k.event) : TRUE
  <2>1. k.op = "extend"
    BY <1>6 DEF ExtendChain
  <2>2. k.stage \in Stages /\ WellFormed(k.event) /\ k.event.type \notin ServiceTypes
    BY <2>1, ByOperation DEF Formed, RunOps, RunCall, MountedCall
  <2>3. RunEvent(k.event)
    BY <2>2 DEF WellFormed, RunEvent, ServiceTypes
  <2>4. /\ RunGoes(Passed(k, Len(log) + 1)) /\ RunGoes(Passed(k, id))
    BY <2>2, PassedGoes
  <2>5. \/ log' = Append(log, k.event) /\ call' = [call EXCEPT ![c] = Passed(k, Len(log) + 1)]
        \/ log' = log /\ call' = [call EXCEPT ![c] = Passed(k, id)]
        \/ log' = log /\ call' = [call EXCEPT ![c] = Idle]
    BY <1>6 DEF ExtendChain
  <2>6. call[c].op \in RunOps
    BY <2>1 DEF RunOps
  <2>. HIDE DEF k, id
  <2>. QED  BY <1>0, <2>3, <2>4, <2>5, <2>6, MovesTo, MovesAppending
<1>7. CASE AppendStep(c)
  <2>1. RunEvent([type |-> "step", stream |-> RunStream])
    BY OwnStreams DEF RunEvent, ServiceTypes, Kind, MemoryTypes
  <2>. QED  BY <1>7, <2>1, InterferingMoves DEF AppendStep
<1>8. CASE AppendFailure(c)
  <2>1. RunEvent([type |-> "terminal", stream |-> RunStream, cause |-> 0, status |-> "failed"])
    BY OwnStreams DEF RunEvent, ServiceTypes, Kind, MemoryTypes
  <2>. QED  BY <1>8, <2>1, InterferingMoves DEF AppendFailure
<1>9. CASE CancelTask(c)
  <2>1. RunEvent([type |-> "status", stream |-> TaskStream, cause |-> 0, status |-> "canceled"])
    BY OwnStreams DEF RunEvent, ServiceTypes, Kind, MemoryTypes
  <2>. QED  BY <1>9, <2>1, InterferingMoves DEF CancelTask
<1>. QED  BY <1>1, <1>2, <1>3, <1>4, <1>5, <1>6, <1>7, <1>8, <1>9 DEF HandoffNext

\* A loop goes on as a loop.
LoopGoes(k) == k.op = "loop" /\ DOMAIN k = LoopFields

\* Events that loops append, and people who decide on a loop's tool.
LoopIssues(e) == RunEvent(e) /\ e.type \in LoopTypes

\* A step that appends what loops append, and leaves a loop or a decision behind.
LoopSteps(c) ==
    /\ \E k : /\ call' = [call EXCEPT ![c] = k]
              /\ k = Idle \/ LoopGoes(k) \/ (SendCall(k) /\ LoopIssues(k.event))
    /\ log' = log \/ \E e : LoopIssues(e) /\ log' = Append(log, e)

LEMMA LoopMoves ==
    ASSUME Formed, NEW c \in Caller, NEW k, LoopGoes(k), call' = [call EXCEPT ![c] = k],
           \/ log' = log
           \/ \E e : LoopIssues(e) /\ log' = Append(log, e)
    PROVE  LoopSteps(c)
BY DEF LoopSteps

LEMMA LoopIs ==
    ASSUME Formed, NEW c \in Caller, call[c].op = "loop"
    PROVE  LoopGoes(call[c]) /\ LoopGoes(Resting(call[c]))
<1>1. LoopGoes(call[c])
  BY ByOperation DEF Formed, RunOps, RunCall, MountedCall, LoopGoes
<1>. QED  BY <1>1 DEF Resting, LoopGoes, LoopFields

LEMMA RestsMoves ==
    ASSUME Formed, NEW c \in Caller, call[c].op = "loop", Rests(c)
    PROVE  LoopSteps(c)
BY LoopIs, LoopMoves DEF Rests

LEMMA LoopAppendsMoves ==
    ASSUME Formed, NEW c \in Caller, call[c].op = "loop", NEW e, LoopIssues(e), NEW at,
           LoopAppends(c, e, at)
    PROVE  LoopSteps(c)
<1> DEFINE k == [call[c] EXCEPT !.at = at, !.seen = Len(log) + 1]
<1>1. LoopGoes(k)
  BY LoopIs DEF LoopGoes, LoopFields
<1>2. /\ log' = Append(log, e)
      /\ call' = [call EXCEPT ![c] = k] \/ call' = [call EXCEPT ![c] = Resting(call[c])]
  BY DEF LoopAppends
<1>. HIDE DEF k
<1>. QED  BY <1>1, <1>2, LoopIs, LoopMoves

LEMMA OpensMoves ==
    ASSUME Formed, NEW c \in Caller, NEW from, NEW at, NEW otherwise, Opens(c, from, at, otherwise)
    PROVE  LoopSteps(c) /\ call[c].op = "loop"
<1> DEFINE k == [call[c] EXCEPT !.at = at]
           l == [Resting(call[c]) EXCEPT !.gate = 0]
           m == [call[c] EXCEPT !.at = otherwise, !.gate = 0]
<1>1. call[c].op = "loop" /\ log' = log
  BY DEF Opens, LoopAt
<1>2. LoopGoes(k) /\ LoopGoes(l) /\ LoopGoes(m)
  BY <1>1, LoopIs DEF LoopGoes, LoopFields
<1>3. \/ call' = [call EXCEPT ![c] = k] \/ call' = [call EXCEPT ![c] = l]
      \/ call' = [call EXCEPT ![c] = m]
  BY DEF Opens
<1>. HIDE DEF k, l, m
<1>. QED  BY <1>1, <1>2, <1>3, LoopMoves

ToolTypes == {"tool-requested", "tool-claimed", "tool-observed", "tool-completed"}

LEMMA ToolEventIs ==
    ASSUME NEW type \in ToolTypes, NEW k
    PROVE  LoopIssues(ToolEvent(type, k))
BY OwnStreams
   DEF ToolEvent, LoopIssues, LoopTypes, LoopRecord, ToolRecord, RunEvent, ToolTypes, ServiceTypes, Kind, MemoryTypes

LEMMA ToolAppendsMoves ==
    ASSUME Formed, NEW c \in Caller, NEW from, NEW expected, NEW type \in ToolTypes, NEW at,
           ToolAppends(c, from, expected, type, at)
    PROVE  LoopSteps(c) /\ call[c].op = "loop"
<1> DEFINE k == [call[c] EXCEPT !.at = at, !.gate = Len(log) + 1]
           l == [call[c] EXCEPT !.at = "failed", !.gate = Len(log)]
           e == ToolEvent(type, call[c])
<1>1. call[c].op = "loop"
  BY DEF ToolAppends, LoopAt
<1>2. LoopGoes(k) /\ LoopGoes(l)
  BY <1>1, LoopIs DEF LoopGoes, LoopFields
<1>3. LoopIssues(e)
  BY ToolEventIs
<1>4. \/ log' = Append(log, e) /\ call' = [call EXCEPT ![c] = k]
      \/ log' = log /\ call' = [call EXCEPT ![c] = l]
  BY DEF ToolAppends
<1>. HIDE DEF k, l, e
<1>. QED  BY <1>1, <1>2, <1>3, <1>4, LoopMoves

LEMMA GoesMoves ==
    ASSUME Formed, NEW c \in Caller, NEW from, NEW k,
           call[c].op = "loop" => LoopGoes(k), Goes(c, from, k)
    PROVE  LoopSteps(c) /\ call[c].op = "loop"
<1> DEFINE l == [k EXCEPT !.seen = Len(log)]
<1>1. call[c].op = "loop" /\ log' = log
  BY DEF Goes, LoopAt
<1>2. LoopGoes(l) /\ LoopGoes(Resting(call[c]))
  BY <1>1, LoopIs DEF LoopGoes, LoopFields
<1>3. \/ call' = [call EXCEPT ![c] = l] \/ call' = [call EXCEPT ![c] = Resting(call[c])]
  BY DEF Goes
<1>. HIDE DEF l
<1>. QED  BY <1>1, <1>2, <1>3, LoopMoves

LEMMA LoopEvents ==
    /\ \A type \in {"plan", "observation", "recovery", "loop-result"} : LoopIssues(LoopEvent(type))
    /\ \A outcome : LoopIssues([type |-> "tool-step", stream |-> LoopStream, outcome |-> outcome])
    /\ \A type \in {"asserted", "effect"} : LoopIssues([stream |-> EffectStream, type |-> type])
    /\ \A cause : LoopIssues(ClaimEvent(cause))
    /\ \A type \in {"tool-approved", "tool-denied"} : LoopIssues([type |-> type, stream |-> ToolStream])
    /\ \A i \in 1..4 : \A cause, category : LoopIssues(SuspensionEvent(Suspension[i], cause, category))
<1>1. /\ \A type \in {"plan", "observation", "recovery", "loop-result"} : LoopIssues(LoopEvent(type))
      /\ \A outcome : LoopIssues([type |-> "tool-step", stream |-> LoopStream, outcome |-> outcome])
      /\ \A type \in {"asserted", "effect"} : LoopIssues([stream |-> EffectStream, type |-> type])
      /\ \A cause : LoopIssues(ClaimEvent(cause))
      /\ \A type \in {"tool-approved", "tool-denied"} : LoopIssues([type |-> type, stream |-> ToolStream])
  BY OwnStreams
     DEF LoopEvent, ClaimEvent, LoopIssues, LoopTypes, LoopRecord, ToolRecord, RunEvent, ServiceTypes, Kind, MemoryTypes
<1>2. ASSUME NEW i \in 1..4, NEW cause, NEW category
      PROVE  LoopIssues(SuspensionEvent(Suspension[i], cause, category))
  <2>1. Suspension[i] \in {"checkpoint", "suspended", "resumable", "released"}
    BY DEF Suspension
  <2>2. /\ SuspensionEvent(Suspension[i], cause, category).type = Suspension[i]
        /\ SuspensionEvent(Suspension[i], cause, category).stream \in {LoopStream, AttemptStream}
    BY DEF SuspensionEvent
  <2>. QED
    BY <2>1, <2>2, OwnStreams DEF LoopIssues, LoopTypes, RunEvent, ServiceTypes, Kind, MemoryTypes
<1>. QED  BY <1>1, <1>2

LEMMA LoopStepIs ==
    ASSUME Formed, NEW c \in Caller, LoopNext(c)
    PROVE  LoopSteps(c) /\ call[c].op \in {"loop", "idle"}
<1>. /\ "tool-requested" \in ToolTypes /\ "tool-claimed" \in ToolTypes
     /\ "tool-observed" \in ToolTypes /\ "tool-completed" \in ToolTypes
  BY DEF ToolTypes
<1>0. ASSUME call[c].op = "loop"
      PROVE  LoopGoes(call[c]) /\ LoopGoes(Resting(call[c]))
  BY <1>0, LoopIs
<1>1. CASE BindLoop(c)
  <2>1. PICK kind : call' = [call EXCEPT ![c] =
                [op |-> "loop", at |-> "ready", kind |-> kind, seen |-> Len(log),
                 gate |-> Len(log), base |-> 0, effect |-> 0, outcome |-> "none"]]
    BY <1>1 DEF BindLoop
  <2> DEFINE k == [op |-> "loop", at |-> "ready", kind |-> kind, seen |-> Len(log),
                   gate |-> Len(log), base |-> 0, effect |-> 0, outcome |-> "none"]
  <2>2. LoopGoes(k)
    BY DEF LoopGoes, LoopFields
  <2>3. log' = log /\ call[c].op = "idle"
    BY <1>1, MakesIsIdle DEF BindLoop
  <2>. QED  BY <2>1, <2>2, <2>3, LoopMoves
<1>2. CASE AdvanceLoop(c)
  <2>1. call[c].op = "loop" /\ (LoopAppends(c, LoopEvent("plan"), "observe") \/ Rests(c))
    BY <1>2 DEF AdvanceLoop, LoopAt
  <2>. QED  BY <2>1, LoopEvents, LoopAppendsMoves, RestsMoves
<1>3. CASE ObserveContext(c)
  <2>1. call[c].op = "loop" /\ LoopAppends(c, LoopEvent("observation"), "request")
    BY <1>3 DEF ObserveContext, LoopAt
  <2>. QED  BY <2>1, LoopEvents, LoopAppendsMoves
<1>4. CASE RequestTool(c)
  BY <1>4, OpensMoves, ToolAppendsMoves DEF RequestTool
<1>5. CASE CheckRequest(c)
  <2> DEFINE k == [call[c] EXCEPT !.at = IF call[c].kind = "human" THEN "decide" ELSE "execute"]
  <2>1. call[c].op = "loop" => LoopGoes(k)
    BY <1>0 DEF LoopGoes, LoopFields
  <2>. QED  BY <1>5, <2>1, GoesMoves DEF CheckRequest
<1>6. CASE ReadDecision(c)
  <2> DEFINE k(at) == [call[c] EXCEPT !.gate = Len(log), !.at = at]
             l(at) == [call[c] EXCEPT !.outcome = "waiting", !.gate = Len(log), !.at = at]
  <2>1. \A at : call[c].op = "loop" => LoopGoes(k(at)) /\ LoopGoes(l(at))
    BY <1>0 DEF LoopGoes, LoopFields
  <2>2. \E at : Goes(c, "decide", k(at)) \/ Goes(c, "undecided", l(at))
    BY <1>6 DEF ReadDecision
  <2>. HIDE DEF k, l
  <2>. QED  BY <2>1, <2>2, GoesMoves
<1>7. CASE ClaimTool(c)
  BY <1>7, OpensMoves, ToolAppendsMoves DEF ClaimTool
<1>8. CASE InvokeTool(c)
  <2>1. CASE Opens(c, "claimed", "invoking", "failed")
    BY <2>1, OpensMoves
  <2>2. CASE ~Opens(c, "claimed", "invoking", "failed")
    <3> DEFINE e == [stream |-> EffectStream, type |->
                        IF call[c].kind = "automatic" THEN "asserted" ELSE "effect"]
    <3>1. call[c].op = "loop"
      BY <1>8, <2>2 DEF InvokeTool, LoopAt
    <3>2. PICK acts \in BOOLEAN, returns \in BOOLEAN :
            /\ log' = IF acts THEN Append(log, e) ELSE log
            /\ call' = [call EXCEPT ![c].at = IF returns THEN "acted" ELSE "failed",
                                    ![c].effect = IF acts THEN Len(log) + 1 ELSE 0,
                                    ![c].gate = Len(log')]
      BY <1>8, <2>2 DEF InvokeTool
    <3> DEFINE k == [call[c] EXCEPT !.at = IF returns THEN "acted" ELSE "failed",
                                    !.effect = IF acts THEN Len(log) + 1 ELSE 0,
                                    !.gate = Len(log')]
    <3>3. LoopGoes(k)
      BY <1>0, <3>1 DEF LoopGoes, LoopFields
    <3>4. LoopIssues(e)
      BY LoopEvents
    <3>5. call' = [call EXCEPT ![c] = k] /\ (log' = log \/ log' = Append(log, e))
      BY <3>2
    <3>. HIDE DEF e, k
    <3>. QED  BY <3>1, <3>3, <3>4, <3>5, LoopMoves
  <2>. QED  BY <2>1, <2>2
<1>9. CASE ObserveOutcome(c)
  BY <1>9, OpensMoves, ToolAppendsMoves DEF ObserveOutcome
<1>10. CASE CompleteTool(c)
  BY <1>10, OpensMoves, ToolAppendsMoves DEF CompleteTool
<1>11. CASE FailGateway(c)
  <2> DEFINE k == [call[c] EXCEPT !.at = "failed", !.gate = Len(log)]
  <2>1. call[c].op = "loop" /\ log' = log /\ call' = [call EXCEPT ![c] = k]
    BY <1>11 DEF FailGateway, LoopAt
  <2>2. LoopGoes(k)
    BY <1>0, <2>1 DEF LoopGoes, LoopFields
  <2>. QED  BY <2>1, <2>2, LoopMoves
<1>12. CASE CheckExecution(c)
  <2> DEFINE k == [call[c] EXCEPT !.at = "step", !.outcome = "completed"]
  <2>1. call[c].op = "loop" => LoopGoes(k)
    BY <1>0 DEF LoopGoes, LoopFields
  <2>. QED  BY <1>12, <2>1, GoesMoves DEF CheckExecution
<1>13. CASE RereadTool(c)
  <2> DEFINE k == [call[c] EXCEPT !.at = "step", !.outcome = "unknown",
                                  !.seen = Len(log), !.gate = Len(log)]
             e == ToolEvent("tool-completed", call[c])
  <2>1. call[c].op = "loop"
    BY <1>13 DEF RereadTool, LoopAt
  <2>2. \/ log' = Append(log, e) /\ call' = [call EXCEPT ![c] = Resting(call[c])]
        \/ log' = log /\ call' = [call EXCEPT ![c] = Resting(call[c])]
        \/ log' = log /\ call' = [call EXCEPT ![c] = k]
    BY <1>13 DEF RereadTool
  <2>3. LoopGoes(k) /\ LoopGoes(Resting(call[c])) /\ LoopIssues(e)
    BY <1>0, <2>1, ToolEventIs DEF LoopGoes, LoopFields
  <2>. HIDE DEF k, e
  <2>. QED  BY <2>1, <2>2, <2>3, LoopMoves
<1>14. CASE RecordTool(c)
  <2>1. call[c].op = "loop" /\ \E at : \/ LoopAppends(c, LoopEvent("observation"), at)
        \/ LoopAppends(c, [type |-> "tool-step", stream |-> LoopStream, outcome |-> call[c].outcome], at)
    BY <1>14 DEF RecordTool, LoopAt
  <2>. QED  BY <2>1, LoopEvents, LoopAppendsMoves
<1>15. CASE FinishLoop(c)
  <2>1. call[c].op = "loop" /\ LoopAppends(c, LoopEvent("loop-result"), "rest")
    BY <1>15 DEF FinishLoop, LoopAt
  <2>. QED  BY <2>1, LoopEvents, LoopAppendsMoves
<1>16. CASE SuspendLoop(c)
  <2> DEFINE k == [Resting(call[c]) EXCEPT !.at = "prefix"]
  <2>1. call[c].op = "loop" /\ log' = log
        /\ (call' = [call EXCEPT ![c] = Resting(call[c])] \/ call' = [call EXCEPT ![c] = k])
    BY <1>16 DEF SuspendLoop, LoopAt
  <2>2. LoopGoes(k) /\ LoopGoes(Resting(call[c]))
    BY <1>0, <2>1 DEF LoopGoes, LoopFields
  <2>. HIDE DEF k
  <2>. QED  BY <2>1, <2>2, LoopMoves
<1>17. CASE ReadSuspension(c)
  <2> DEFINE k == [call[c] EXCEPT !.at = "appending", !.base = Len(log)]
             l == [call[c] EXCEPT !.at = "eligible"]
  <2>1. call[c].op = "loop" /\ log' = log
        /\ \/ call' = [call EXCEPT ![c] = Resting(call[c])] \/ call' = [call EXCEPT ![c] = k]
           \/ call' = [call EXCEPT ![c] = l]
    BY <1>17 DEF ReadSuspension, LoopAt
  <2>2. LoopGoes(k) /\ LoopGoes(l) /\ LoopGoes(Resting(call[c]))
    BY <1>0, <2>1 DEF LoopGoes, LoopFields
  <2>. HIDE DEF k, l
  <2>. QED  BY <2>1, <2>2, LoopMoves
<1>18. CASE AppendSuspension(c)
  <2> DEFINE k == [call[c] EXCEPT !.at = "prefix", !.base = 0]
  <2>1. call[c].op = "loop"
    BY <1>18 DEF AppendSuspension, LoopAt
  <2>2. CASE Rests(c)
    BY <2>1, <2>2, RestsMoves
  <2>3. CASE ~Rests(c)
    <3>1. PICK i \in Missing :
            log' = Append(log, SuspensionEvent(Suspension[i], CauseOf(i), call[c].outcome))
      BY <1>18, <2>3 DEF AppendSuspension
    <3>2. call' = [call EXCEPT ![c] = k]
      BY <1>18, <2>3 DEF AppendSuspension
    <3>3. i \in 1..4
      BY DEF Missing, First, Suspension
    <3>4. LoopGoes(k)
      BY <1>0, <2>1 DEF LoopGoes, LoopFields
    <3>. HIDE DEF k
    <3>5. LoopIssues(SuspensionEvent(Suspension[i], CauseOf(i), call[c].outcome))
      BY <3>3, LoopEvents
    <3>. QED  BY <2>1, <3>1, <3>2, <3>4, <3>5, LoopMoves
  <2>. QED  BY <2>2, <2>3
<1>19. CASE ResumeLoop(c)
  <2> DEFINE k == [Resting(call[c]) EXCEPT !.at = "prefix", !.outcome = "resuming"]
  <2>1. call[c].op = "loop" /\ log' = log /\ call' = [call EXCEPT ![c] = k]
    BY <1>19 DEF ResumeLoop, LoopAt
  <2>2. LoopGoes(k)
    BY <1>0, <2>1 DEF LoopGoes, LoopFields
  <2>. QED  BY <2>1, <2>2, LoopMoves
<1>20. CASE CheckReclaim(c) \/ ReadReclaim(c) \/ TakeClaim(c)
  <2> DEFINE k(at) == [call[c] EXCEPT !.at = at]
             l == [call[c] EXCEPT !.at = "rereading", !.gate = Len(log)]
             m == [call[c] EXCEPT !.at = "reclaiming", !.base = Len(log)]
             n == [call[c] EXCEPT !.at = "taken", !.seen = Len(log)]
  <2>1. call[c].op = "loop" /\ log' = log
        /\ \/ call' = [call EXCEPT ![c] = Resting(call[c])]
           \/ \E at : call' = [call EXCEPT ![c] = k(at)]
           \/ call' = [call EXCEPT ![c] = l] \/ call' = [call EXCEPT ![c] = m]
           \/ call' = [call EXCEPT ![c] = n]
    BY <1>20 DEF CheckReclaim, ReadReclaim, TakeClaim, LoopAt
  <2>2. LoopGoes(l) /\ LoopGoes(m) /\ LoopGoes(n) /\ (\A at : LoopGoes(k(at)))
        /\ LoopGoes(Resting(call[c]))
    BY <1>0, <2>1 DEF LoopGoes, LoopFields
  <2>. HIDE DEF k, l, m, n
  <2>. QED  BY <2>1, <2>2, LoopMoves
<1>21. CASE RereadReclaim(c)
  <2> DEFINE k == [call[c] EXCEPT !.at = "reclaim", !.gate = Len(log)]
  <2>1. CASE Opens(c, "rereading", "reread", "rest")
    BY <2>1, OpensMoves
  <2>2. CASE ~Opens(c, "rereading", "reread", "rest")
    <3>1. call[c].op = "loop" /\ log' = log
          /\ (call' = [call EXCEPT ![c] = Resting(call[c])] \/ call' = [call EXCEPT ![c] = k])
      BY <1>21, <2>2 DEF RereadReclaim, LoopAt
    <3>2. LoopGoes(k) /\ LoopGoes(Resting(call[c]))
      BY <1>0, <3>1 DEF LoopGoes, LoopFields
    <3>. HIDE DEF k
    <3>. QED  BY <3>1, <3>2, LoopMoves
  <2>. QED  BY <2>1, <2>2
<1>22. CASE AppendReclaim(c)
  <2> DEFINE k == [call[c] EXCEPT !.at = "taking", !.base = 0]
  <2>1. call[c].op = "loop"
    BY <1>22 DEF AppendReclaim, LoopAt
  <2>2. CASE Rests(c)
    BY <2>1, <2>2, RestsMoves
  <2>3. CASE ~Rests(c)
    <3>1. PICK r : log' = Append(log, ClaimEvent(r))
      BY <1>22, <2>3 DEF AppendReclaim
    <3>2. call' = [call EXCEPT ![c] = k]
      BY <1>22, <2>3 DEF AppendReclaim
    <3>3. LoopGoes(k)
      BY <1>0, <2>1 DEF LoopGoes, LoopFields
    <3>. HIDE DEF k
    <3>4. LoopIssues(ClaimEvent(r))
      BY LoopEvents
    <3>. QED  BY <2>1, <3>1, <3>2, <3>3, <3>4, LoopMoves
  <2>. QED  BY <2>2, <2>3
<1>23. ASSUME NEW verdict \in {"tool-approved", "tool-denied"}, DecideTool(c, verdict)
       PROVE  LoopSteps(c) /\ call[c].op \in {"loop", "idle"}
  <2> DEFINE e == [type |-> verdict, stream |-> ToolStream]
  <2>1. LoopIssues(e)
    BY LoopEvents
  <2>2. call' = [call EXCEPT ![c] = ExpectsSequence(e)] /\ log' = log /\ call[c].op = "idle"
    BY <1>23, MakesIsIdle DEF DecideTool
  <2>. HIDE DEF e
  <2>3. SendCall(ExpectsSequence(e)) /\ ExpectsSequence(e).event = e
    BY <2>1, SendingGoes DEF LoopIssues
  <2>. QED  BY <2>1, <2>2, <2>3 DEF LoopSteps
<1>24. CASE DropLoop(c)
  <2>1. call[c].op = "loop" /\ log' = log /\ call' = [call EXCEPT ![c] = Idle]
    BY <1>24 DEF DropLoop, LoopAt
  <2>. QED  BY <2>1 DEF LoopSteps
<1>25. CASE ReadHandoff(c)
  <2> DEFINE k == [call[c] EXCEPT !.at = IF HandoffConcluded THEN "result" ELSE "rest"]
  <2>1. call[c].op = "loop" => LoopGoes(k)
    BY <1>0 DEF LoopGoes, LoopFields
  <2>2. Goes(c, "end", k)
    BY <1>25 DEF ReadHandoff
  <2>. HIDE DEF k
  <2>. QED  BY <2>1, <2>2, GoesMoves
<1>26. CASE ReplayLoop(c)
  <2> DEFINE k(at) == [call[c] EXCEPT !.at = at]
             l(at) == [call[c] EXCEPT !.gate = Len(log), !.at = at]
  <2>1. \A at : call[c].op = "loop" => LoopGoes(k(at)) /\ LoopGoes(l(at))
    BY <1>0 DEF LoopGoes, LoopFields
  <2>2. \/ \E at : Goes(c, "taken", k(at)) \/ Goes(c, "recalling", l(at))
        \/ Opens(c, "replayed", "recalling", "rest")
    BY <1>26 DEF ReplayLoop
  <2>. HIDE DEF k, l
  <2>. QED  BY <2>1, <2>2, GoesMoves, OpensMoves
<1>27. CASE RecordRecovery(c)
  <2>1. call[c].op = "loop" /\ call' = [call EXCEPT ![c] = Resting(call[c])]
        /\ (log' = log \/ log' = Append(log, LoopEvent("recovery")))
    BY <1>27 DEF RecordRecovery, LoopAt
  <2>. QED  BY <1>0, <2>1, LoopEvents, LoopMoves
<1>. QED
  BY <1>1, <1>2, <1>3, <1>4, <1>5, <1>6, <1>7, <1>8, <1>9, <1>10, <1>11, <1>12, <1>13, <1>14,
     <1>15, <1>16, <1>17, <1>18, <1>19, <1>20, <1>21, <1>22, <1>23, <1>24, <1>25, <1>26,
     <1>27 DEF LoopNext

LEMMA LoopStepMoves ==
    ASSUME Formed, NEW c \in Caller, LoopNext(c)
    PROVE  RunMoves(c) /\ call[c].op \in RunOps \union {"idle"}
<1>1. LoopSteps(c) /\ call[c].op \in RunOps \union {"idle"}
  BY LoopStepIs DEF RunOps
<1>2. PICK k : /\ call' = [call EXCEPT ![c] = k]
               /\ k = Idle \/ LoopGoes(k) \/ (SendCall(k) /\ LoopIssues(k.event))
  BY <1>1 DEF LoopSteps
<1>3. RunGoes(k)
  BY <1>2 DEF RunGoes, LoopGoes, RunCall, LoopIssues, RunEvent
<1>4. log' = log \/ \E e : RunEvent(e) /\ log' = Append(log, e)
  BY <1>1 DEF LoopSteps, LoopIssues
<1>. QED  BY <1>1, <1>2, <1>3, <1>4, MovesTo, MovesAppending



\* A mounted call that has a run is at a place of an execution.
MountedGoes(k) ==
    /\ k.op = "mounted" /\ DOMAIN k = MountedFields /\ k.run \in Run
    /\ k.at = "bind" => k.chain.stage \in {"start", "recover", "resume"}
    /\ k.at \in {"stage", "fence", "append", "sealing"} => k.chain.stage \in MountedStages
    /\ k.inside \in BOOLEAN /\ (k.inside = TRUE => k.at \in Gated)

Settled == {"bind", "stage", "fence", "append", "sealing"}

LEMMA MountedIs ==
    ASSUME Formed, NEW c \in Caller, call[c].op = "mounted"
    PROVE  /\ MountedCall(call[c]) /\ call[c].op \in RunOps
           /\ call[c].at # "canceling" => MountedGoes(call[c])
BY ByOperation DEF Formed, RunOps, RunCall, MountedCall, MountedGoes

LEMMA MountedMoves ==
    ASSUME Formed, NEW c \in Caller, NEW k, MountedCall(k) \/ MountedGoes(k) \/ k = Idle,
           call' = [call EXCEPT ![c] = k],
           \/ log' = log
           \/ \E e : RunEvent(e) /\ log' = Append(log, e)
    PROVE  RunMoves(c)
<1>1. RunGoes(k)
  BY DEF MountedGoes, MountedCall, RunGoes, RunCall
<1>. QED  BY <1>1, MovesTo, MovesAppending

LEMMA ExecutionGoes ==
    ASSUME NEW run, NEW at, at \notin Settled
    PROVE  /\ run \in Run => MountedGoes(Execution(run, at))
           /\ at = "canceling" => MountedCall(Execution("none", at))
BY DEF Execution, MountedGoes, MountedCall, MountedFields, Settled, Gated

\* Where a call goes on to from where it is.
LEMMA ProceedsMoves ==
    ASSUME Formed, NEW c \in Caller, call[c].op = "mounted", call[c].at \notin Gated, NEW at,
           at \notin Settled \/ (at # "bind" /\ call[c].chain.stage \in MountedStages),
           Proceeds(c, at) \/ ProceedsKnowing(c, at),
           \/ log' = log
           \/ \E e : RunEvent(e) /\ log' = Append(log, e)
    PROVE  RunMoves(c)
<1> DEFINE k == [call[c] EXCEPT !.at = at]
           l == [call[c] EXCEPT !.at = at, !.base = Len(log)]
<1>1. MountedGoes(k) /\ MountedGoes(l)
  BY MountedIs DEF MountedGoes, MountedFields, Settled, Gated
<1>2. call' = [call EXCEPT ![c] = k] \/ call' = [call EXCEPT ![c] = l]
  BY DEF Proceeds, ProceedsKnowing
<1>. HIDE DEF k, l
<1>. QED  BY <1>1, <1>2, MountedMoves

LEMMA ReturnsMoves ==
    ASSUME Formed, NEW c \in Caller, Returns(c),
           \/ log' = log
           \/ \E e : RunEvent(e) /\ log' = Append(log, e)
    PROVE  RunMoves(c)
BY MountedMoves DEF Returns

LEMMA MountedEvents ==
    /\ RunEvent(TaskCanceled) /\ RunEvent(Invoked) /\ RunEvent(Answered)
    /\ RunEvent(TransferRequested) /\ RunEvent(CompletionMemory) /\ RunEvent(StaleAdmission)
    /\ RunEvent(PolicyChanged) /\ RunEvent(Elsewhere)
    /\ \A run : RunEvent(TaskRunning(run)) /\ RunEvent(TaskWaiting(run))
    /\ \A run \in Run : RunEvent(RunStarted(run))
    /\ \A run \in Run : \A policy : RunEvent(TaskAdmitted(run, policy))
    /\ \A text : RunEvent(FinalOutput(text, 0))
<1>1. /\ TaskCanceled.type \notin ServiceTypes /\ Invoked.type \notin ServiceTypes
      /\ Answered.type \notin ServiceTypes /\ TransferRequested.type \notin ServiceTypes
      /\ CompletionMemory.type \notin ServiceTypes /\ StaleAdmission.type \notin ServiceTypes
      /\ PolicyChanged.type \notin ServiceTypes /\ Elsewhere.type \notin ServiceTypes
  BY DEF TaskCanceled, Invoked, Answered, TransferRequested, CompletionMemory, StaleAdmission,
         PolicyChanged, Elsewhere, ServiceTypes, Kind, MemoryTypes
<1>2. /\ TaskCanceled.stream \in RunStreams /\ Invoked.stream \in RunStreams
      /\ Answered.stream \in RunStreams /\ TransferRequested.stream \in RunStreams
  BY OwnStreams DEF TaskCanceled, Invoked, Answered, TransferRequested
<1>3. /\ CompletionMemory.stream \in RunStreams /\ StaleAdmission.stream \in RunStreams
      /\ PolicyChanged.stream \in RunStreams /\ Elsewhere.stream \in RunStreams
  BY DEF CompletionMemory, StaleAdmission, PolicyChanged, Elsewhere, ElsewhereStream, RunStreams
<1>4. \A run : RunEvent(TaskRunning(run)) /\ RunEvent(TaskWaiting(run))
  BY OwnStreams DEF TaskRunning, TaskWaiting, RunEvent, ServiceTypes, Kind, MemoryTypes
<1>5. \A run \in Run : RunEvent(RunStarted(run))
  <2>1. \A run \in Run : StreamOf(run) \in RunStreams
    BY DEF Run, StreamOf, RunStreams
  <2>. QED  BY <2>1 DEF RunStarted, RunEvent, ServiceTypes, Kind, MemoryTypes
<1>6. \A run \in Run : \A policy : RunEvent(TaskAdmitted(run, policy))
  <2>1. \A run \in Run : AdmissionStream(run) \in RunStreams
    BY DEF RunStreams
  <2>. QED  BY <2>1 DEF TaskAdmitted, RunEvent, ServiceTypes, Kind, MemoryTypes
<1>7. \A text : RunEvent(FinalOutput(text, 0))
  BY OwnStreams DEF FinalOutput, RunEvent, ServiceTypes, Kind, MemoryTypes
<1>. QED  BY <1>1, <1>2, <1>3, <1>4, <1>5, <1>6, <1>7 DEF RunEvent

LEMMA StagedEvent ==
    ASSUME NEW k, k.chain.stage \in MountedStages
    PROVE  RunEvent(EventOf(k))
<1>1. CASE k.chain.stage = "answered"
  BY <1>1, MountedEvents DEF EventOf
<1>2. CASE k.chain.stage = "final"
  BY <1>2, MountedEvents DEF EventOf
<1>3. CASE k.chain.stage \in Stages
  <2>1. EventOf(k) = StageEvent(k.chain.stage, k.chain.binding, k.chain.cause)
    BY <1>3 DEF EventOf, Stages
  <2>. QED  BY <1>3, <2>1, StageEventIs
<1>. QED  BY <1>1, <1>2, <1>3 DEF MountedStages

LEMMA BeyondGoes ==
    ASSUME NEW k, MountedGoes(k), k.at \notin Gated, k.chain.stage \in MountedStages, NEW id, NEW cursor
    PROVE  MountedGoes(Beyond(k, id)) /\ MountedGoes([Beyond(k, id) EXCEPT !.cursor = cursor])
<1>1. CASE k.chain.stage = "answered"
  <2>1. Beyond(k, id) = [k EXCEPT !.at = "publishing"]
    BY <1>1 DEF Beyond
  <2>. QED  BY <2>1 DEF MountedGoes, MountedFields
<1>2. CASE k.chain.stage = "final"
  <2> DEFINE b == [final |-> id, revision |-> 1, supersedes |-> 0, bound |-> TRUE]
             a == At("prepared", b, id)
  <2>1. Beyond(k, id) = [k EXCEPT !.at = "sealing", !.chain = a]
    BY <1>2 DEF Beyond
  <2>2. a.stage \in MountedStages
    BY DEF At, MountedStages, Stages
  <2>. HIDE DEF a
  <2>. QED  BY <2>1, <2>2 DEF MountedGoes, MountedFields
<1>3. CASE k.chain.stage = "status"
  <2>1. Beyond(k, id) = [k EXCEPT !.at = "consume"]
    BY <1>3 DEF Beyond
  <2>. QED  BY <2>1 DEF MountedGoes, MountedFields
<1>4. CASE k.chain.stage \in Stages \ {"status"}
  <2> DEFINE n == CHOOSE i \in DOMAIN Chain : Chain[i] = k.chain.stage
             a == At(Chain[n + 1], k.chain.binding, id)
  <2>1. Chain[n + 1] \in Stages
    <3>1. n \in 1..5 /\ Chain[n] = k.chain.stage /\ (n # Len(Chain) => Chain[n + 1] \in Stages)
      BY <1>4, NextStage
    <3>2. Len(Chain) = 5 /\ Chain[5] = "status"
      BY DEF Chain
    <3>. HIDE DEF n
    <3>. QED  BY <1>4, <3>1, <3>2
  <2>2. Beyond(k, id) = [k EXCEPT !.at = "stage", !.chain = a]
    BY <1>4 DEF Beyond, Stages
  <2>3. a.stage \in MountedStages
    BY <2>1 DEF At, MountedStages
  <2>. HIDE DEF a
  <2>. QED  BY <2>2, <2>3 DEF MountedGoes, MountedFields
<1>. QED  BY <1>1, <1>2, <1>3, <1>4 DEF MountedStages

\* An append on condition, of a call that goes on.
LEMMA AppendsOrMoves ==
    ASSUME Formed, NEW c \in Caller, call[c].op = "mounted", call[c].at \notin Gated,
           NEW e, RunEvent(e), NEW at \in {"entering", "prompting"}, AppendsOr(c, e, at)
    PROVE  RunMoves(c)
<1>1. at \notin Settled
  BY DEF Settled
<1>2. \/ log' = Append(log, e) /\ Proceeds(c, at)
      \/ log' = log /\ Returns(c)
  BY DEF AppendsOr
<1>. QED  BY <1>1, <1>2, ProceedsMoves, ReturnsMoves

LEMMA AppendsLastMoves ==
    ASSUME Formed, NEW c \in Caller, NEW e, RunEvent(e), AppendsLast(c, e)
    PROVE  RunMoves(c)
<1>1. Returns(c) /\ (log' = log \/ log' = Append(log, e))
  BY DEF AppendsLast
<1>. QED  BY <1>1, ReturnsMoves

LEMMA AdmissionMoves ==
    ASSUME Formed, NEW c \in Caller,
           \/ \E run \in Run : RequestRun(c, run)
           \/ AppendAdmission(c) \/ TakeUp(c) \/ FindStale(c) \/ DiagnoseStale(c)
           \/ Examine(c) \/ BindHandoff(c)
    PROVE  RunMoves(c) /\ call[c].op \in RunOps \union {"idle"}
<1>. "mounted" \in RunOps
  BY DEF RunOps
<1>1. ASSUME NEW run \in Run, RequestRun(c, run)
      PROVE  RunMoves(c) /\ call[c].op \in RunOps \union {"idle"}
  <2>1. PICK at \in {"storing", "examine"} : call' = [call EXCEPT ![c] = Execution(run, at)]
    BY <1>1 DEF RequestRun
  <2>2. log' = log /\ call[c].op = "idle"
    BY <1>1, MakesIsIdle DEF RequestRun
  <2>3. MountedGoes(Execution(run, at))
    BY ExecutionGoes DEF Settled
  <2>. QED  BY <2>1, <2>2, <2>3, MountedMoves
<1>2. CASE AppendAdmission(c)
  <2> DEFINE e == TaskAdmitted(call[c].run, call[c].policy)
  <2>1. call[c].op = "mounted" /\ call[c].at = "admitting" /\ call[c].at \notin Gated
    BY <1>2 DEF AppendAdmission, Is, Gated
  <2>2. RunEvent(e)
    BY <2>1, MountedIs, MountedEvents DEF MountedGoes, Gated
  <2>3. (log' = log \/ log' = Append(log, e)) /\ (Proceeds(c, "examine") \/ Returns(c))
    BY <1>2 DEF AppendAdmission
  <2>4. "examine" \notin Settled
    BY DEF Settled
  <2>. HIDE DEF e
  <2>. QED  BY <2>1, <2>2, <2>3, <2>4, ProceedsMoves, ReturnsMoves
<1>3. CASE TakeUp(c)
  <2>1. /\ log' = Append(log, Elsewhere) /\ call' = [call EXCEPT ![c] = Execution("local", "examine")]
        /\ call[c].op = "idle"
    BY <1>3, MakesIsIdle DEF TakeUp
  <2>2. MountedGoes(Execution("local", "examine"))
    BY ExecutionGoes DEF Settled, Run
  <2>. QED  BY <2>1, <2>2, MountedMoves, MountedEvents
<1>4. CASE FindStale(c)
  <2>1. /\ log' = log /\ call' = [call EXCEPT ![c] = Execution("local", "diagnosing")]
        /\ call[c].op = "idle"
    BY <1>4, MakesIsIdle DEF FindStale
  <2>2. MountedGoes(Execution("local", "diagnosing"))
    BY ExecutionGoes DEF Settled, Run
  <2>. QED  BY <2>1, <2>2, MountedMoves
<1>5. CASE DiagnoseStale(c)
  <2>1. call[c].op = "mounted" /\ call[c].at \notin Gated
    BY <1>5 DEF DiagnoseStale, Is, Gated
  <2>2. \/ log' = log /\ ProceedsKnowing(c, "diagnosing again")
        \/ AppendsLast(c, StaleAdmission)
    BY <1>5 DEF DiagnoseStale
  <2>3. "diagnosing again" \notin Settled
    BY DEF Settled
  <2>. QED  BY <2>1, <2>2, <2>3, ProceedsMoves, AppendsLastMoves, MountedEvents
<1>6. CASE Examine(c)
  <2> DEFINE run == call[c].run
             goal == Goal(log, run)
             next == IF goal = "remember" \/ run = "remote" THEN goal ELSE "bind"
             k == [Execution(run, next) EXCEPT !.chain.stage = goal]
  <2>1. call[c].op = "mounted" /\ call[c].at = "examine" /\ log' = log
    BY <1>6 DEF Examine, Is
  <2>2. run \in Run
    BY <2>1, MountedIs DEF MountedGoes
  <2>3. CASE Returns(c)
    BY <2>1, <2>3, ReturnsMoves
  <2>4. CASE ~Returns(c)
    <3>1. goal # "nothing" /\ call' = [call EXCEPT ![c] = k]
      BY <1>6, <2>4 DEF Examine
    <3>2. goal \in {"start", "remember", "recover", "resume", "nothing"}
          /\ (run = "remote" => goal \in {"start", "nothing"})
      BY DEF Goal
    <3>3. next \notin Settled \ {"bind"} /\ (next = "bind" => goal \in {"start", "recover", "resume"})
      BY <3>1, <3>2 DEF Settled
    <3>. HIDE DEF goal, next, run
    <3>4. MountedGoes(k)
      BY <2>2, <3>3 DEF Execution, MountedGoes, MountedFields, Settled, NoStage, Gated
    <3>. HIDE DEF k
    <3>. QED  BY <2>1, <3>1, <3>4, MountedMoves
  <2>. QED  BY <2>3, <2>4
<1>7. CASE BindHandoff(c)
  <2> DEFINE k == [call[c] EXCEPT !.at = call[c].chain.stage, !.cursor = Derived(log)]
  <2>1. call[c].op = "mounted" /\ call[c].at = "bind" /\ log' = log
    BY <1>7 DEF BindHandoff, Is
  <2>2. call' = [call EXCEPT ![c] = k] \/ Returns(c)
    BY <1>7 DEF BindHandoff
  <2>3. MountedGoes(call[c])
    BY <2>1, MountedIs DEF Gated
  <2>4. MountedGoes(k)
    BY <2>1, <2>3 DEF MountedGoes, MountedFields, Gated
  <2>. HIDE DEF k
  <2>. QED  BY <2>1, <2>2, <2>4, MountedMoves, ReturnsMoves
<1>. QED  BY <1>1, <1>2, <1>3, <1>4, <1>5, <1>6, <1>7

LEMMA StartMoves ==
    ASSUME Formed, NEW c \in Caller,
           \/ StartRun(c) \/ AppendStarted(c) \/ EnterTask(c) \/ AppendRunning(c)
           \/ EnterGate(c) \/ LeaveGate(c) \/ FailStore(c)
           \/ AskCancel(c) \/ CancelMounted(c)
    PROVE  RunMoves(c) /\ call[c].op \in RunOps \union {"idle"}
<1>. "mounted" \in RunOps
  BY DEF RunOps
<1>0. /\ "starting" \notin Settled /\ "entered" \notin Settled /\ "prompting" \notin Settled
  BY DEF Settled
<1>1. CASE StartRun(c)
  <2>1. call[c].op = "mounted" /\ call[c].at = "start" /\ call[c].at \notin Gated /\ log' = log
        /\ (ProceedsKnowing(c, "starting") \/ Returns(c))
    BY <1>1 DEF StartRun, Is, Gated
  <2>. QED  BY <1>0, <2>1, ProceedsMoves, ReturnsMoves
<1>2. CASE AppendStarted(c)
  <2>1. call[c].op = "mounted" /\ call[c].at = "starting" /\ call[c].at \notin Gated
        /\ AppendsOr(c, RunStarted(call[c].run), "entering")
    BY <1>2 DEF AppendStarted, Is, Gated
  <2>2. RunEvent(RunStarted(call[c].run))
    BY <2>1, MountedIs, MountedEvents DEF MountedGoes, Gated
  <2>. QED  BY <2>1, <2>2, AppendsOrMoves
<1>3. CASE EnterTask(c)
  <2>1. call[c].op = "mounted" /\ call[c].at \notin Gated /\ log' = log
        /\ (ProceedsKnowing(c, "entered") \/ Proceeds(c, "prompting") \/ Returns(c))
    BY <1>3 DEF EnterTask, Is, Gated
  <2>. QED  BY <1>0, <2>1, ProceedsMoves, ReturnsMoves
<1>4. CASE AppendRunning(c)
  <2>1. call[c].op = "mounted" /\ call[c].at = "entered" /\ call[c].at \notin Gated
        /\ AppendsOr(c, TaskRunning(call[c].run), "prompting")
    BY <1>4 DEF AppendRunning, Is, Gated
  <2>. QED  BY <2>1, MountedEvents, AppendsOrMoves
<1>5. CASE EnterGate(c)
  <2> DEFINE k == [call[c] EXCEPT !.inside = TRUE, !.cursor = Now(c)]
             l == [call[c] EXCEPT !.inside = TRUE, !.base = Len(log)]
             m == [call[c] EXCEPT !.inside = TRUE]
  <2>1. call[c].op = "mounted" /\ call[c].at \in Gated /\ log' = log
    BY <1>5 DEF EnterGate
  <2>2. \/ call' = [call EXCEPT ![c] = k] \/ call' = [call EXCEPT ![c] = l]
        \/ call' = [call EXCEPT ![c] = m] \/ Returns(c)
    BY <1>5 DEF EnterGate
  <2>3. MountedCall(k) /\ MountedCall(l) /\ MountedCall(m)
    BY <2>1, MountedIs DEF MountedCall, MountedFields
  <2>. HIDE DEF k, l, m
  <2>. QED  BY <2>1, <2>2, <2>3, MountedMoves, ReturnsMoves
<1>6. CASE LeaveGate(c)
  <2> DEFINE k == [call[c] EXCEPT !.inside = FALSE, !.at = AfterWrite(call[c]),
                                  !.chain = StageAfter(call[c])]
  <2>1. call[c].op = "mounted" /\ call[c].inside /\ call[c].at # "canceling" /\ log' = log
    BY <1>6 DEF LeaveGate, Inside
  <2>2. call' = [call EXCEPT ![c] = k] \/ Returns(c)
    BY <1>6 DEF LeaveGate
  <2>3. call[c].at \in Gated /\ MountedGoes(call[c])
    BY <2>1, MountedIs DEF MountedGoes
  <2>4. MountedGoes(k)
    <3>1. CASE call[c].at = "storing"
      BY <2>3, <3>1 DEF AfterWrite, StageAfter, MountedGoes, MountedFields, Gated
    <3>2. CASE call[c].at = "prompting"
      BY <2>3, <3>2 DEF AfterWrite, StageAfter, MountedGoes, MountedFields, Gated, Run
    <3>3. CASE call[c].at = "publishing"
      BY <2>3, <3>3 DEF AfterWrite, StageAfter, MountedGoes, MountedFields, Gated, MountedStages
    <3>4. CASE call[c].at = "sealing"
      BY <2>3, <3>4 DEF AfterWrite, StageAfter, MountedGoes, MountedFields, Gated
    <3>. QED  BY <2>1, <2>3, <3>1, <3>2, <3>3, <3>4 DEF Gated
  <2>. HIDE DEF k
  <2>. QED  BY <2>1, <2>2, <2>4, MountedMoves, ReturnsMoves
<1>7. CASE FailStore(c)
  <2> DEFINE k == [call[c] EXCEPT !.inside = FALSE, !.text = Unpublished]
  <2>1. call[c].op = "mounted" /\ log' = log /\ call' = [call EXCEPT ![c] = k]
    BY <1>7 DEF FailStore, Is
  <2>2. MountedCall(k)
    BY <2>1, MountedIs DEF MountedCall, MountedFields
  <2>. HIDE DEF k
  <2>. QED  BY <2>1, <2>2, MountedMoves
<1>8. CASE AskCancel(c)
  <2>1. call[c].op = "idle" /\ log' = log /\ call' = [call EXCEPT ![c] = Execution("none", "canceling")]
    BY <1>8, MakesIsIdle DEF AskCancel
  <2>2. MountedCall(Execution("none", "canceling"))
    BY ExecutionGoes DEF Settled
  <2>. QED  BY <2>1, <2>2, MountedMoves
<1>9. CASE CancelMounted(c)
  <2>1. call[c].op = "mounted" /\ AppendsLast(c, TaskCanceled)
    BY <1>9 DEF CancelMounted, Is
  <2>. QED  BY <2>1, MountedEvents, AppendsLastMoves
<1>. QED  BY <1>1, <1>2, <1>3, <1>4, <1>5, <1>6, <1>7, <1>8, <1>9

LEMMA InvocationMoves ==
    ASSUME Formed, NEW c \in Caller,
           \/ InvokeModel(c) \/ AppendInvoked(c) \/ AppendAnswered(c) \/ ReturnAnswer(c)
           \/ ConsumeHandoff(c) \/ ReadMemory(c) \/ AppendMemory(c)
           \/ AskTransfer(c) \/ SuspendTask(c)
           \/ ChangePolicy(c) \/ AppendElsewhere(c)
    PROVE  RunMoves(c) /\ call[c].op \in RunOps \union {"idle"}
<1>. "mounted" \in RunOps
  BY DEF RunOps
<1>0. /\ "publishing" \notin Settled /\ "invoking" \notin Settled /\ "answering" \notin Settled
      /\ "answered" \notin Settled /\ "remember" \notin Settled /\ "remembering" \notin Settled
      /\ "suspending" \notin Settled
  BY DEF Settled
<1>1. CASE InvokeModel(c)
  <2> DEFINE k == [call[c] EXCEPT !.at = "fence", !.chain = [stage |-> "answered"], !.expected = 1]
  <2>1. call[c].op = "mounted" /\ call[c].at \notin Gated /\ log' = log
    BY <1>1 DEF InvokeModel, Is, Gated
  <2>2. \/ Returns(c) \/ Proceeds(c, "publishing") \/ Proceeds(c, "invoking")
        \/ call' = [call EXCEPT ![c] = k]
    BY <1>1 DEF InvokeModel
  <2>3. MountedGoes(call[c])
    BY <2>1, MountedIs DEF Gated
  <2>4. MountedGoes(k)
    BY <2>1, <2>3 DEF MountedGoes, MountedFields, MountedStages
  <2>. HIDE DEF k
  <2>. QED  BY <1>0, <2>1, <2>2, <2>4, MountedMoves, ReturnsMoves, ProceedsMoves
<1>2. CASE AppendInvoked(c)
  <2>1. call[c].op = "mounted" /\ call[c].at \notin Gated
    BY <1>2 DEF AppendInvoked, Is, Gated
  <2>2. \/ log' = Append(log, Invoked) /\ Proceeds(c, "answering")
        \/ log' = log /\ Returns(c)
    BY <1>2 DEF AppendInvoked
  <2>. QED  BY <1>0, <2>1, <2>2, MountedEvents, ReturnsMoves, ProceedsMoves
<1>3. CASE AppendAnswered(c)
  <2>1. call[c].op = "mounted" /\ call[c].at \notin Gated
    BY <1>3 DEF AppendAnswered, Is, Gated
  <2>2. \/ log' = Append(log, Answered) /\ Proceeds(c, "answered")
        \/ log' = log /\ Returns(c)
    BY <1>3 DEF AppendAnswered
  <2>. QED  BY <1>0, <2>1, <2>2, MountedEvents, ReturnsMoves, ProceedsMoves
<1>4. CASE ReturnAnswer(c)
  <2>1. call[c].op = "mounted" /\ call[c].at \notin Gated /\ log' = log
        /\ (Proceeds(c, "publishing") \/ Returns(c))
    BY <1>4 DEF ReturnAnswer, Is, Gated
  <2>. QED  BY <1>0, <2>1, ReturnsMoves, ProceedsMoves
<1>5. CASE ConsumeHandoff(c)
  <2>1. call[c].op = "mounted" /\ call[c].at \notin Gated /\ log' = log
        /\ (Proceeds(c, "remember") \/ Returns(c))
    BY <1>5 DEF ConsumeHandoff, Is, Gated
  <2>. QED  BY <1>0, <2>1, ReturnsMoves, ProceedsMoves
<1>6. CASE ReadMemory(c)
  <2>1. call[c].op = "mounted" /\ call[c].at \notin Gated /\ log' = log
        /\ (ProceedsKnowing(c, "remembering") \/ Returns(c))
    BY <1>6 DEF ReadMemory, Is, Gated
  <2>. QED  BY <1>0, <2>1, ReturnsMoves, ProceedsMoves
<1>7. CASE AppendMemory(c)
  <2>1. call[c].op = "mounted"
    BY <1>7 DEF AppendMemory, Is
  <2>2. AppendsLast(c, CompletionMemory) \/ (log' = log /\ Returns(c))
    BY <1>7 DEF AppendMemory
  <2>. QED  BY <2>1, <2>2, MountedEvents, ReturnsMoves, AppendsLastMoves
<1>8. CASE AskTransfer(c)
  <2>1. call[c].op = "mounted" /\ call[c].at \notin Gated
    BY <1>8 DEF AskTransfer, Is, Gated
  <2>2. \/ log' = Append(log, TransferRequested) /\ Proceeds(c, "suspending")
        \/ log' = log /\ Returns(c)
    BY <1>8 DEF AskTransfer
  <2>. QED  BY <1>0, <2>1, <2>2, MountedEvents, ReturnsMoves, ProceedsMoves
<1>9. CASE SuspendTask(c)
  <2> DEFINE e == TaskWaiting("remote")
  <2>1. call[c].op = "mounted" /\ log' = log
        /\ (Returns(c) \/ call' = [call EXCEPT ![c] = ExpectsSequence(e)])
    BY <1>9 DEF SuspendTask, Is
  <2>2. RunEvent(e)
    BY MountedEvents
  <2>. HIDE DEF e
  <2>. QED  BY <2>1, <2>2, ReturnsMoves, SendingGoes, MovesTo
<1>10. CASE ChangePolicy(c)
  BY <1>10, InterferingMoves, MountedEvents DEF ChangePolicy
<1>11. CASE AppendElsewhere(c)
  BY <1>11, InterferingMoves, MountedEvents DEF AppendElsewhere
<1>. QED  BY <1>1, <1>2, <1>3, <1>4, <1>5, <1>6, <1>7, <1>8, <1>9, <1>10, <1>11

LEMMA StagingMoves ==
    ASSUME Formed, NEW c \in Caller,
           ReadMountedStage(c) \/ ReadFence(c) \/ AppendStage(c) \/ RecoverMounted(c)
    PROVE  RunMoves(c) /\ call[c].op \in RunOps
<1>1. call[c].op = "mounted" /\ call[c].at \in {"stage", "fence", "append", "recover"}
      /\ call[c].at \notin Gated /\ "mounted" \in RunOps
  BY DEF ReadMountedStage, ReadFence, AppendStage, RecoverMounted, Is, Gated, RunOps
<1>2. MountedGoes(call[c])
  BY <1>1, MountedIs DEF Gated
<1>3. call[c].at # "recover" => call[c].chain.stage \in MountedStages
  BY <1>1, <1>2 DEF MountedGoes
<1>4. CASE ReadMountedStage(c)
  <2> DEFINE k == call[c]
             event == EventOf(k)
             exact == Exact(log, event)
             id == CHOOSE i \in exact : TRUE
             fenced == [k EXCEPT !.at = "fence", !.expected = StreamLength(log, event.stream)]
             m == [fenced EXCEPT !.cursor = Now(c)]
             n == [Beyond(k, id) EXCEPT !.cursor = Now(c)]
  <2>1. k.at = "stage" /\ log' = log
    BY <1>4 DEF ReadMountedStage, Is
  <2>2. \/ Returns(c) \/ call' = [call EXCEPT ![c] = m] \/ call' = [call EXCEPT ![c] = n]
    BY <1>4 DEF ReadMountedStage
  <2>3. MountedGoes(n)
    <3>. HIDE DEF id
    <3>. QED  BY <1>1, <1>2, <1>3, <2>1, BeyondGoes
  <2>4. MountedGoes(m)
    BY <1>1, <1>2, <1>3, <2>1 DEF MountedGoes, MountedFields
  <2>. HIDE DEF m, n
  <2>. QED  BY <1>1, <2>1, <2>2, <2>3, <2>4, MountedMoves, ReturnsMoves
<1>5. CASE ReadFence(c)
  <2>1. log' = log /\ call[c].at = "fence" /\ (ProceedsKnowing(c, "append") \/ Returns(c))
    BY <1>5 DEF ReadFence, Is
  <2>. QED  BY <1>1, <1>3, <2>1, ProceedsMoves, ReturnsMoves
<1>6. CASE AppendStage(c)
  <2> DEFINE k == call[c]
             event == EventOf(k)
             exact == Exact(log, event)
             id == CHOOSE i \in exact : TRUE
  <2>1. k.at = "append"
    BY <1>6 DEF AppendStage, Is
  <2>2. \/ log' = Append(log, event) /\ call' = [call EXCEPT ![c] = Beyond(k, Len(log) + 1)]
        \/ log' = log /\ call' = [call EXCEPT ![c] = Beyond(k, id)]
        \/ log' = log /\ Returns(c)
    BY <1>6 DEF AppendStage
  <2>3. MountedGoes(Beyond(k, Len(log) + 1)) /\ MountedGoes(Beyond(k, id))
    <3>. HIDE DEF id
    <3>. QED  BY <1>1, <1>2, <1>3, <2>1, BeyondGoes
  <2>4. RunEvent(event)
    BY <1>3, <2>1, StagedEvent
  <2>. HIDE DEF event, id
  <2>. QED  BY <1>1, <2>2, <2>3, <2>4, MountedMoves, ReturnsMoves
<1>7. CASE RecoverMounted(c)
  <2> DEFINE m == [call[c] EXCEPT !.at = "stage", !.chain = Suffix(log)]
  <2>1. log' = log /\ (call' = [call EXCEPT ![c] = m] \/ Returns(c))
    BY <1>7 DEF RecoverMounted
  <2>2. Suffix(log).stage \in MountedStages
    BY DEF Suffix, At, MountedStages, Stages
  <2>3. MountedGoes(m)
    BY <1>1, <1>2, <2>2 DEF MountedGoes, MountedFields
  <2>. HIDE DEF m
  <2>. QED  BY <1>1, <2>1, <2>3, MountedMoves, ReturnsMoves
<1>. QED  BY <1>4, <1>5, <1>6, <1>7

LEMMA MountedStepMoves ==
    ASSUME Formed, NEW c \in Caller, MountedNext(c)
    PROVE  RunMoves(c) /\ call[c].op \in RunOps \union {"idle"}
<1>1. CASE \/ \E run \in Run : RequestRun(c, run)
           \/ AppendAdmission(c) \/ TakeUp(c) \/ FindStale(c) \/ DiagnoseStale(c)
           \/ Examine(c) \/ BindHandoff(c)
  BY <1>1, AdmissionMoves
<1>2. CASE \/ StartRun(c) \/ AppendStarted(c) \/ EnterTask(c) \/ AppendRunning(c)
           \/ EnterGate(c) \/ LeaveGate(c) \/ FailStore(c)
           \/ AskCancel(c) \/ CancelMounted(c)
  BY <1>2, StartMoves
<1>3. CASE \/ InvokeModel(c) \/ AppendInvoked(c) \/ AppendAnswered(c) \/ ReturnAnswer(c)
           \/ ConsumeHandoff(c) \/ ReadMemory(c) \/ AppendMemory(c)
           \/ AskTransfer(c) \/ SuspendTask(c)
           \/ ChangePolicy(c) \/ AppendElsewhere(c)
  BY <1>3, InvocationMoves
<1>4. CASE ReadMountedStage(c) \/ ReadFence(c) \/ AppendStage(c) \/ RecoverMounted(c)
  BY <1>4, StagingMoves
<1>. QED  BY <1>1, <1>2, <1>3, <1>4 DEF MountedNext

----------------------------------------------------------------------------
(* Every step keeps the forms.                                             *)

\* The services a step is not of spare what a service has of its own.
LEMMA OthersSpare ==
    ASSUME Formed, NEW c \in Caller, CallSteps(c),
           NEW T \in SUBSET ServiceTypes, NEW O, O \intersect {"idle", "send"} = {},
           CorrespondenceNext(c) => Spares(T, O, LetterTypes, LetterOps),
           MemoryNext(c) => Spares(T, O, MemoryTypes, MemoryOps),
           TriggerNext(c) => Spares(T, O, TriggerTypes, TriggerOps),
           KnowledgeNext(c) => Spares(T, O, KnowledgeTypes, {"decide"}),
           HandoffNext(c) \/ MountedNext(c) \/ LoopNext(c) => Spares(T, O, {}, RunOps),
           RebuildNext(c) => Spares(T, O, {}, Rebuilding),
           Send(c) => call[c].event.type \notin T,
           Die(c) => /\ call[c].op \notin O
                     /\ call[c].op = "send" => call[c].event.type \notin T
    PROVE  Beside(c, T, O) /\ Forms(c)
<1>1. CASE CorrespondenceNext(c)
  BY <1>1, LetterStepIs
<1>2. CASE MemoryNext(c)
  BY <1>2, MemoryStepIs
<1>3. CASE TriggerNext(c)
  BY <1>3, TriggerStepIs
<1>4. CASE KnowledgeNext(c)
  BY <1>4, KnowledgeStepIs
<1>5. CASE HandoffNext(c)
  BY <1>5, HandoffMoves, RunStepIs
<1>6. CASE MountedNext(c)
  BY <1>6, MountedStepMoves, RunStepIs
<1>7. CASE LoopNext(c)
  BY <1>7, LoopStepMoves, RunStepIs
<1>8. CASE RebuildNext(c)
  BY <1>8, RebuildStepIs
<1>9. CASE SendLetter(c)
  <2>1. Send(c)
    BY <1>9 DEF SendLetter
  <2>. QED  BY <2>1, SendIs
<1>10. CASE DieWithLetter(c)
  <2>1. Die(c)
    BY <1>10 DEF DieWithLetter
  <2>. QED  BY <2>1, DieIs
<1>. QED  BY <1>1, <1>2, <1>3, <1>4, <1>5, <1>6, <1>7, <1>8, <1>9, <1>10 DEF CallSteps

LEMMA StepForms ==
    ASSUME Formed, NEW c \in Caller, CallSteps(c)
    PROVE  Forms(c) /\ Beside(c, {}, {}) /\ Formed'
<1>1. Beside(c, {}, {}) /\ Forms(c)
  <2>1. /\ Spares({}, {}, LetterTypes, LetterOps) /\ Spares({}, {}, MemoryTypes, MemoryOps)
        /\ Spares({}, {}, TriggerTypes, TriggerOps) /\ Spares({}, {}, KnowledgeTypes, {"decide"})
        /\ Spares({}, {}, {}, RunOps) /\ Spares({}, {}, {}, Rebuilding)
    BY DEF Spares
  <2>2. {} \in SUBSET ServiceTypes /\ {} \intersect {"idle", "send"} = {}
    OBVIOUS
  <2>. QED  BY <2>1, <2>2, OthersSpare
<1>. QED  BY <1>1, FormedKept DEF Beside

LEMMA StartsFormed ==
    ASSUME Init
    PROVE  Formed /\ StartLedger(log) /\ call = [c \in Caller |-> Idle]
<1>1. StartLedger(log) /\ call = [c \in Caller |-> Idle]
  BY ScenariosAssumption DEF Init, RecordInit
<1>2. IsLedger(log) /\ \A i \in DOMAIN log : WellFormed(log[i])
  BY <1>1 DEF StartLedger, IsLedger
<1>. QED  BY <1>1, <1>2, IdleIsTyped DEF Formed

\* What a service has to reckon with from the others.
LEMMA LetterSteps ==
    ASSUME Formed, NEW c \in Caller, CallSteps(c)
    PROVE  \/ CorrespondenceNext(c)
           \/ SendLetter(c)
           \/ DieWithLetter(c)
           \/ Beside(c, LetterTypes, LetterOps) /\ UNCHANGED correspondenceVars
<1>. SUFFICES ASSUME ~CorrespondenceNext(c), ~SendLetter(c), ~DieWithLetter(c)
              PROVE  Beside(c, LetterTypes, LetterOps) /\ UNCHANGED correspondenceVars
  OBVIOUS
<1>1. UNCHANGED correspondenceVars
  BY DEF CallSteps
<1>2. LetterTypes \in SUBSET ServiceTypes /\ LetterOps \intersect {"idle", "send"} = {}
  BY DEF LetterTypes, ServiceTypes, Kind, LetterOps
<1>3. /\ Spares(LetterTypes, LetterOps, MemoryTypes, MemoryOps)
      /\ Spares(LetterTypes, LetterOps, TriggerTypes, TriggerOps)
      /\ Spares(LetterTypes, LetterOps, KnowledgeTypes, {"decide"})
      /\ Spares(LetterTypes, LetterOps, {}, RunOps) /\ Spares(LetterTypes, LetterOps, {}, Rebuilding)
  BY DEF Spares, LetterTypes, LetterOps, MemoryTypes, MemoryOps, TriggerTypes, TriggerOps,
         KnowledgeTypes, RunOps, Rebuilding
<1>4. CASE MemoryNext(c)
  BY <1>1, <1>3, <1>4, MemoryStepIs
<1>5. CASE TriggerNext(c)
  BY <1>1, <1>3, <1>5, TriggerStepIs
<1>6. CASE KnowledgeNext(c)
  BY <1>1, <1>3, <1>6, KnowledgeStepIs
<1>7. CASE HandoffNext(c)
  BY <1>1, <1>2, <1>3, <1>7, HandoffMoves, RunStepIs
<1>8. CASE MountedNext(c)
  BY <1>1, <1>2, <1>3, <1>8, MountedStepMoves, RunStepIs
<1>9. CASE LoopNext(c)
  BY <1>1, <1>2, <1>3, <1>9, LoopStepMoves, RunStepIs
<1>10. CASE RebuildNext(c)
  BY <1>1, <1>3, <1>10, RebuildStepIs
<1>. QED  BY <1>4, <1>5, <1>6, <1>7, <1>8, <1>9, <1>10 DEF CallSteps

LEMMA MemorySteps ==
    ASSUME Formed, NEW c \in Caller, CallSteps(c)
    PROVE  \/ MemoryNext(c)
           \/ Send(c) /\ UNCHANGED abandoned
           \/ DieWithMemory(c)
           \/ Beside(c, MemoryTypes, MemoryOps) /\ UNCHANGED abandoned
<1>. SUFFICES ASSUME ~MemoryNext(c), ~(Send(c) /\ UNCHANGED abandoned), ~DieWithMemory(c)
              PROVE  Beside(c, MemoryTypes, MemoryOps) /\ UNCHANGED abandoned
  OBVIOUS
<1>1. UNCHANGED abandoned
  BY DEF CallSteps
<1>2. MemoryTypes \in SUBSET ServiceTypes /\ MemoryOps \intersect {"idle", "send"} = {}
  BY DEF ServiceTypes, MemoryOps
<1>3. /\ Spares(MemoryTypes, MemoryOps, LetterTypes, LetterOps)
      /\ Spares(MemoryTypes, MemoryOps, TriggerTypes, TriggerOps)
      /\ Spares(MemoryTypes, MemoryOps, KnowledgeTypes, {"decide"})
      /\ Spares(MemoryTypes, MemoryOps, {}, RunOps) /\ Spares(MemoryTypes, MemoryOps, {}, Rebuilding)
  BY DEF Spares, LetterTypes, LetterOps, MemoryTypes, MemoryOps, TriggerTypes, TriggerOps,
         KnowledgeTypes, RunOps, Rebuilding
<1>4. CASE CorrespondenceNext(c)
  BY <1>1, <1>3, <1>4, LetterStepIs
<1>5. CASE TriggerNext(c)
  BY <1>1, <1>3, <1>5, TriggerStepIs
<1>6. CASE KnowledgeNext(c)
  BY <1>1, <1>3, <1>6, KnowledgeStepIs
<1>7. CASE HandoffNext(c)
  BY <1>1, <1>2, <1>3, <1>7, HandoffMoves, RunStepIs
<1>8. CASE MountedNext(c)
  BY <1>1, <1>2, <1>3, <1>8, MountedStepMoves, RunStepIs
<1>9. CASE LoopNext(c)
  BY <1>1, <1>2, <1>3, <1>9, LoopStepMoves, RunStepIs
<1>10. CASE RebuildNext(c)
  BY <1>1, <1>3, <1>10, RebuildStepIs
<1>. QED  BY <1>1, <1>4, <1>5, <1>6, <1>7, <1>8, <1>9, <1>10 DEF CallSteps, SendLetter

LEMMA TriggerSteps ==
    ASSUME Formed, NEW c \in Caller, CallSteps(c)
    PROVE  TriggerNext(c) \/ Die(c) \/ Beside(c, TriggerTypes, TriggerOps)
<1>. SUFFICES ASSUME ~TriggerNext(c), ~Die(c)
              PROVE  Beside(c, TriggerTypes, TriggerOps)
  OBVIOUS
<1>1. TriggerTypes \in SUBSET ServiceTypes /\ TriggerOps \intersect {"idle", "send"} = {}
  BY DEF TriggerTypes, ServiceTypes, TriggerOps
<1>2. /\ Spares(TriggerTypes, TriggerOps, LetterTypes, LetterOps)
      /\ Spares(TriggerTypes, TriggerOps, MemoryTypes, MemoryOps)
      /\ Spares(TriggerTypes, TriggerOps, KnowledgeTypes, {"decide"})
      /\ Spares(TriggerTypes, TriggerOps, {}, RunOps) /\ Spares(TriggerTypes, TriggerOps, {}, Rebuilding)
  BY DEF Spares, LetterTypes, LetterOps, MemoryTypes, MemoryOps, TriggerTypes, TriggerOps,
         KnowledgeTypes, RunOps, Rebuilding
<1>3. Send(c) => call[c].event.type \notin TriggerTypes
  BY SendIs DEF SendCall
<1>. QED  BY <1>1, <1>2, <1>3, OthersSpare

LEMMA KnowledgeSteps ==
    ASSUME Formed, NEW c \in Caller, CallSteps(c)
    PROVE  KnowledgeNext(c) \/ Die(c) \/ Beside(c, KnowledgeTypes, {"decide"})
<1>. SUFFICES ASSUME ~KnowledgeNext(c), ~Die(c)
              PROVE  Beside(c, KnowledgeTypes, {"decide"})
  OBVIOUS
<1>1. KnowledgeTypes \in SUBSET ServiceTypes /\ {"decide"} \intersect {"idle", "send"} = {}
  BY DEF KnowledgeTypes, ServiceTypes
<1>2. /\ Spares(KnowledgeTypes, {"decide"}, LetterTypes, LetterOps)
      /\ Spares(KnowledgeTypes, {"decide"}, MemoryTypes, MemoryOps)
      /\ Spares(KnowledgeTypes, {"decide"}, TriggerTypes, TriggerOps)
      /\ Spares(KnowledgeTypes, {"decide"}, {}, RunOps) /\ Spares(KnowledgeTypes, {"decide"}, {}, Rebuilding)
  BY DEF Spares, LetterTypes, LetterOps, MemoryTypes, MemoryOps, TriggerTypes, TriggerOps,
         KnowledgeTypes, RunOps, Rebuilding
<1>3. Send(c) => call[c].event.type \notin KnowledgeTypes
  BY SendIs DEF SendCall
<1>. QED  BY <1>1, <1>2, <1>3, OthersSpare

LEMMA RebuildSteps ==
    ASSUME Formed, NEW c \in Caller, CallSteps(c)
    PROVE  \/ RebuildNext(c)
           \/ Die(c) /\ UNCHANGED rebuildVars
           \/ Beside(c, {}, Rebuilding) /\ UNCHANGED rebuildVars
<1>. SUFFICES ASSUME ~RebuildNext(c), ~(Die(c) /\ UNCHANGED rebuildVars)
              PROVE  Beside(c, {}, Rebuilding) /\ UNCHANGED rebuildVars
  OBVIOUS
<1>0. UNCHANGED rebuildVars
  BY DEF CallSteps
<1>1. {} \in SUBSET ServiceTypes /\ Rebuilding \intersect {"idle", "send"} = {}
  BY DEF Rebuilding
<1>2. /\ Spares({}, Rebuilding, LetterTypes, LetterOps)
      /\ Spares({}, Rebuilding, MemoryTypes, MemoryOps)
      /\ Spares({}, Rebuilding, TriggerTypes, TriggerOps)
      /\ Spares({}, Rebuilding, KnowledgeTypes, {"decide"})
      /\ Spares({}, Rebuilding, {}, RunOps)
  BY DEF Spares, LetterOps, MemoryOps, TriggerOps, RunOps, Rebuilding
<1>. QED  BY <1>0, <1>1, <1>2, OthersSpare

\* Every event and every call of the services has its form, always.
LEMMA AlwaysFormed == Spec => []Formed
<1>1. Init => Formed
  BY StartsFormed
<1>2. Formed /\ [Next]_vars => Formed'
  <2>1. ASSUME Formed, NEW c \in Caller, CallSteps(c) PROVE Formed'
    BY <2>1, StepForms
  <2>2. ASSUME Formed, UNCHANGED vars PROVE Formed'
    BY <2>2 DEF vars, recordVars, Formed, Typed, SendCall, LetterCall, MemoryCall, TriggerCall,
                KnowledgeCall, RunCall, MountedCall, RebuildCall
  <2>. QED  BY <2>1, <2>2 DEF Next
<1>. QED  BY <1>1, <1>2, PTL DEF Spec

----------------------------------------------------------------------------
(* Rebuilds: whose temporary directory is whose, and how far it is.        *)

Counted ==
    /\ mailed \in [Mail -> Nat] /\ unrecorded \in [Mail -> Nat]
    /\ abandoned \subseteq Memory

RebuildsApart ==
    \A c, d \in Caller :
        call[c].op \in Rebuilding /\ call[d].op \in Rebuilding /\ call[c].id = call[d].id => c = d

\* What a rebuild has written is of its build, and nothing else is there.
BuildsGoOn ==
    \A c \in Caller :
        /\ call[c].op = "clear" => call[c].todo = Artifact
        /\ call[c].op = "write" => \A a \in Artifact :
            temp[call[c].id][a] = IF a \in call[c].todo THEN 0 ELSE call[c].build

FilesAreSound ==
    /\ temp \in [RebuildId -> Directory] /\ final \in Directory
    /\ \A c \in Caller : call[c].op = "clear" => call[c].todo = Artifact
    /\ ~shared => RebuildsApart /\ BuildsGoOn /\ \A a, b \in Artifact : final[a] = final[b]

LEMMA DeliveriesKept ==
    ASSUME Formed, Counted, NEW c \in Caller, CallSteps(c)
    PROVE  Counted'
<1>1. mailed' \in [Mail -> Nat] /\ unrecorded' \in [Mail -> Nat]
  <2>0. call[c].op \in {"mail", "mailed"} => MailOf(c) \in Mail
    <3>1. call[c].op \in {"mail", "mailed"} => LetterCall(call[c])
      BY ByOperation DEF Formed, LetterOps
    <3>. QED  BY <3>1 DEF LetterCall, MailOf, Mail
  <2>1. LosesTrack(c) => unrecorded' \in [Mail -> Nat]
    BY DEF LosesTrack, Counted
  <2>2. CASE CorrespondenceNext(c)
    <3>1. CASE MailLetter(c)
      BY <2>0, <3>1 DEF MailLetter, Counted
    <3>2. CASE RecordLetter(c)
      BY <2>0, <3>2 DEF RecordLetter, Counted
    <3>3. CASE UNCHANGED correspondenceVars
      BY <3>3 DEF correspondenceVars, Counted
    <3>. QED  BY <2>2, <3>1, <3>2, <3>3 DEF CorrespondenceNext, CreateRequest, AgencyActs, CheckLetter
  <2>3. CASE SendLetter(c)
    BY <2>1, <2>3 DEF SendLetter, Counted
  <2>4. CASE DieWithLetter(c)
    BY <2>1, <2>4 DEF DieWithLetter, Counted
  <2>5. CASE UNCHANGED correspondenceVars
    BY <2>5 DEF correspondenceVars, Counted
  <2>. QED  BY <2>2, <2>3, <2>4, <2>5, LetterSteps
<1>2. abandoned' \subseteq Memory
  <2>0. call[c].op \in {"replaced", "superseding", "undo", "undoing"} => call[c].by \in Memory
    BY ByOperation DEF Formed, MemoryOps, MemoryCall
  <2>1. CASE MemoryNext(c)
    <3>1. CASE AppendUndo(c)
      BY <2>0, <3>1 DEF AppendUndo, Counted
    <3>2. CASE UNCHANGED abandoned
      BY <3>2 DEF Counted
    <3>. QED  BY <2>1, <3>1, <3>2 DEF MemoryNext, RecordMemory, RetractMemory, SupersedeMemory,
                PrepareRetraction, AppendReplacement, PrepareSupersession, AppendSupersession, PrepareUndo
  <2>2. CASE DieWithMemory(c)
    BY <2>0, <2>2 DEF DieWithMemory, Counted
  <2>3. CASE UNCHANGED abandoned
    BY <2>3 DEF Counted
  <2>. QED  BY <2>1, <2>2, <2>3, MemorySteps
<1>. QED  BY <1>1, <1>2 DEF Counted

LEMMA FilesKept ==
    ASSUME Formed, FilesAreSound, NEW c \in Caller, CallSteps(c)
    PROVE  FilesAreSound'
<1>0. /\ \A d \in Caller : call[d].op \in Rebuilding => RebuildCall(call[d])
      /\ call' = [call EXCEPT ![c] = call'[c]]
      /\ \A d \in Caller : d # c => call'[d] = call[d]
      /\ NoFiles \in Directory
  <2>1. \A d \in Caller : call[d].op \in Rebuilding => RebuildCall(call[d])
    BY ByOperation DEF Formed
  <2>2. call' = [call EXCEPT ![c] = call'[c]]
    BY StepForms DEF Beside
  <2>3. NoFiles \in Directory
    BY DEF NoFiles, Directory
  <2>. QED  BY <2>1, <2>2, <2>3 DEF Formed
\* A step after which c is at no build, with the files of its id cleared or left.
<1>1. ASSUME call'[c].op \notin {"clear", "write"}, UNCHANGED <<final, shared>>,
             \/ temp' = temp
             \/ call[c].op \in Rebuilding /\ temp' = [temp EXCEPT ![call[c].id] = NoFiles],
             call'[c].op \in Rebuilding => call[c].op \in Rebuilding /\ call'[c].id = call[c].id
      PROVE  FilesAreSound'
  <2>1. temp' \in [RebuildId -> Directory]
    BY <1>0, <1>1 DEF FilesAreSound
  <2>2. \A d \in Caller : call'[d].op = "clear" => call'[d].todo = Artifact
    BY <1>0, <1>1 DEF FilesAreSound
  <2>3. ASSUME ~shared PROVE RebuildsApart'
    BY <1>0, <1>1, <2>3 DEF FilesAreSound, RebuildsApart
  <2>4. ASSUME ~shared PROVE BuildsGoOn'
    <3>1. SUFFICES ASSUME NEW d \in Caller, d # c, call[d].op = "write"
                   PROVE  temp'[call[d].id] = temp[call[d].id]
      BY <1>0, <1>1, <2>2, <2>4 DEF FilesAreSound, BuildsGoOn
    <3>2. CASE temp' = temp
      BY <3>2
    <3>3. CASE call[c].op \in Rebuilding /\ temp' = [temp EXCEPT ![call[c].id] = NoFiles]
      <4>1. call[d].id # call[c].id
        BY <2>4, <3>1, <3>3 DEF FilesAreSound, RebuildsApart, Rebuilding
      <4>. QED  BY <3>3, <4>1 DEF FilesAreSound
    <3>. QED  BY <1>1, <3>2, <3>3
  <2>. QED  BY <1>1, <2>1, <2>2, <2>3, <2>4 DEF FilesAreSound
<1>2. CASE RebuildNext(c)
  <2>1. ASSUME NEW id \in RebuildId, StartRebuild(c, id)
        PROVE  FilesAreSound'
    <3>1. /\ call'[c].op = "clear" /\ call'[c].id = id /\ call'[c].todo = Artifact
          /\ UNCHANGED <<temp, final>> /\ (~shared' => ~shared /\ Rebuilds(id) = {})
      BY <2>1 DEF StartRebuild, Formed
    <3>2. ~shared' => RebuildsApart'
      BY <1>0, <3>1 DEF FilesAreSound, RebuildsApart, Rebuilds, Rebuilding
    <3>3. ~shared' => BuildsGoOn'
      BY <1>0, <3>1 DEF FilesAreSound, BuildsGoOn
    <3>. QED  BY <1>0, <3>1, <3>2, <3>3 DEF FilesAreSound
  <2>2. CASE ClearTemp(c)
    <3>1. /\ call[c].op = "clear" /\ temp' = [temp EXCEPT ![call[c].id] = NoFiles]
          /\ call' = [call EXCEPT ![c].op = "write"] /\ UNCHANGED <<final, shared>>
          /\ RebuildCall(call[c])
      BY <1>0, <2>2 DEF ClearTemp, Rebuilding
    <3>2. /\ call'[c].op = "write" /\ call'[c].id = call[c].id /\ call'[c].todo = Artifact
          /\ temp'[call[c].id] = NoFiles /\ temp' \in [RebuildId -> Directory]
          /\ \A id \in RebuildId : id # call[c].id => temp'[id] = temp[id]
      BY <1>0, <3>1 DEF Formed, FilesAreSound, RebuildCall
    <3>3. ~shared => RebuildsApart'
      BY <1>0, <3>1, <3>2 DEF FilesAreSound, RebuildsApart, Rebuilding
    <3>4. ~shared => BuildsGoOn'
      <4>1. SUFFICES ASSUME ~shared, NEW d \in Caller, call'[d].op = "write", NEW a \in Artifact
                     PROVE  temp'[call'[d].id][a] = IF a \in call'[d].todo THEN 0 ELSE call'[d].build
        BY <1>0, <3>2 DEF FilesAreSound, BuildsGoOn
      <4>2. CASE d = c
        BY <3>2, <4>2 DEF NoFiles
      <4>3. CASE d # c
        <5>1. call[d].id # call[c].id /\ call[d].id \in RebuildId /\ call'[d] = call[d]
          BY <1>0, <3>1, <4>1, <4>3 DEF FilesAreSound, RebuildsApart, Rebuilding, RebuildCall
        <5>. QED  BY <3>2, <4>1, <5>1 DEF FilesAreSound, BuildsGoOn
      <4>. QED  BY <4>2, <4>3
    <3>. QED  BY <1>0, <3>1, <3>2, <3>3, <3>4 DEF FilesAreSound
  <2>3. ASSUME NEW b \in Artifact, WriteArtifact(c, b)
        PROVE  FilesAreSound'
    <3> DEFINE k == call[c]
    <3>0. k.op = "write" /\ RebuildCall(k) /\ b \in k.todo /\ UNCHANGED <<final, shared>>
      BY <1>0, <2>3 DEF WriteArtifact, Rebuilding
    <3>1. CASE temp[k.id][b] # 0
      <4>1. call' = [call EXCEPT ![c].op = "cleanup"] /\ temp' = temp
        BY <2>3, <3>1 DEF WriteArtifact
      <4>2. call'[c].op = "cleanup" /\ call'[c].id = k.id
        BY <1>0, <3>0, <4>1 DEF Formed, RebuildCall
      <4>. QED  BY <1>1, <3>0, <4>1, <4>2 DEF Rebuilding
    <3>2. CASE temp[k.id][b] = 0
      <4>1. /\ temp' = [temp EXCEPT ![k.id][b] = k.build]
            /\ call' = [call EXCEPT ![c].todo = k.todo \ {b}]
        BY <2>3, <3>2 DEF WriteArtifact
      <4>2. /\ call'[c].op = "write" /\ call'[c].id = k.id /\ call'[c].todo = k.todo \ {b}
            /\ call'[c].build = k.build
        BY <3>0, <4>1 DEF Formed, RebuildCall
      <4>3. /\ temp' \in [RebuildId -> Directory]
            /\ \A id \in RebuildId : id # k.id => temp'[id] = temp[id]
            /\ \A a \in Artifact : temp'[k.id][a] = IF a = b THEN k.build ELSE temp[k.id][a]
        BY <3>0, <4>1 DEF FilesAreSound, Directory, RebuildCall
      <4>4. ~shared => RebuildsApart'
        BY <1>0, <3>0, <4>2 DEF FilesAreSound, RebuildsApart, Rebuilding
      <4>5. ~shared => BuildsGoOn'
        <5>1. SUFFICES ASSUME ~shared, NEW d \in Caller, call'[d].op = "write", NEW a \in Artifact
                       PROVE  temp'[call'[d].id][a] = IF a \in call'[d].todo THEN 0 ELSE call'[d].build
          BY <1>0, <3>0, <4>2 DEF FilesAreSound, BuildsGoOn
        <5>2. CASE d = c
          <6>1. temp[k.id][a] = IF a \in k.todo THEN 0 ELSE k.build
            BY <3>0, <5>1 DEF FilesAreSound, BuildsGoOn
          <6>. QED  BY <4>2, <4>3, <5>2, <6>1
        <5>3. CASE d # c
          <6>1. call[d].id # k.id /\ call[d].id \in RebuildId /\ call'[d] = call[d]
            BY <1>0, <3>0, <5>1, <5>3 DEF FilesAreSound, RebuildsApart, Rebuilding, RebuildCall
          <6>. QED  BY <4>3, <5>1, <6>1 DEF FilesAreSound, BuildsGoOn
        <5>. QED  BY <5>2, <5>3
      <4>. QED  BY <1>0, <3>0, <4>2, <4>3, <4>4, <4>5 DEF FilesAreSound
    <3>. QED  BY <3>1, <3>2
  <2>4. CASE PromoteDirectory(c)
    <3> DEFINE k == call[c]
    <3>0. k.op = "write" /\ RebuildCall(k) /\ k.todo = {} /\ UNCHANGED shared
      BY <1>0, <2>4 DEF PromoteDirectory, Rebuilding
    <3>1. CASE temp[k.id] # NoFiles /\ final = NoFiles
      <4>1. /\ final' = temp[k.id] /\ temp' = [temp EXCEPT ![k.id] = NoFiles] /\ call'[c] = Idle
        BY <2>4, <3>1 DEF PromoteDirectory, Formed
      <4>2. /\ final' \in Directory /\ temp' \in [RebuildId -> Directory]
            /\ \A id \in RebuildId : id # k.id => temp'[id] = temp[id]
        BY <1>0, <3>0, <4>1 DEF FilesAreSound, RebuildCall
      <4>3. ~shared => \A a, b \in Artifact : final'[a] = final'[b]
        BY <3>0, <4>1 DEF FilesAreSound, BuildsGoOn
      <4>4. ~shared => RebuildsApart'
        BY <1>0, <4>1 DEF FilesAreSound, RebuildsApart, Rebuilding, Idle
      <4>5. ~shared => BuildsGoOn'
        <5>1. SUFFICES ASSUME ~shared, NEW d \in Caller, d # c, call[d].op = "write"
                       PROVE  temp'[call[d].id] = temp[call[d].id]
          BY <1>0, <4>1 DEF FilesAreSound, BuildsGoOn, Idle
        <5>2. call[d].id # k.id /\ call[d].id \in RebuildId
          BY <1>0, <3>0, <5>1 DEF FilesAreSound, RebuildsApart, Rebuilding, RebuildCall
        <5>. QED  BY <4>2, <5>2
      <4>. QED  BY <1>0, <3>0, <4>1, <4>2, <4>3, <4>4, <4>5 DEF FilesAreSound, Idle
    <3>2. CASE ~(temp[k.id] # NoFiles /\ final = NoFiles)
      <4>1. call' = [call EXCEPT ![c].op = "cleanup"] /\ UNCHANGED <<temp, final>>
        BY <2>4, <3>2 DEF PromoteDirectory
      <4>2. call'[c].op = "cleanup" /\ call'[c].id = k.id
        BY <1>0, <3>0, <4>1 DEF Formed, RebuildCall
      <4>. QED  BY <1>1, <3>0, <4>1, <4>2 DEF Rebuilding
    <3>. QED  BY <3>1, <3>2
  <2>5. CASE RemoveTemp(c)
    <3>1. /\ call[c].op = "cleanup" /\ call'[c] = Idle /\ UNCHANGED <<final, shared>>
          /\ (temp' = temp \/ temp' = [temp EXCEPT ![call[c].id] = NoFiles])
      BY <2>5 DEF RemoveTemp, Formed
    <3>. QED  BY <1>1, <3>1 DEF Idle, Rebuilding
  <2>6. CASE RebuildFails(c)
    <3>1. /\ call[c].op \in Rebuilding /\ call' = [call EXCEPT ![c].op = "cleanup"]
          /\ UNCHANGED <<temp, final, shared>>
      BY <2>6 DEF RebuildFails, rebuildVars, Rebuilding
    <3>2. call'[c].op = "cleanup" /\ call'[c].id = call[c].id
      BY <1>0, <3>1 DEF Formed, RebuildCall
    <3>. QED  BY <1>1, <3>1, <3>2
  <2>. QED  BY <1>2, <2>1, <2>2, <2>3, <2>4, <2>5, <2>6 DEF RebuildNext
<1>3. CASE Die(c) /\ UNCHANGED rebuildVars
  <2>1. call'[c] = Idle /\ UNCHANGED <<temp, final, shared>>
    BY <1>3, DieIs DEF rebuildVars
  <2>. QED  BY <1>1, <2>1 DEF Idle, Rebuilding
<1>4. CASE Beside(c, {}, Rebuilding) /\ UNCHANGED rebuildVars
  <2>1. call'[c].op \notin Rebuilding /\ UNCHANGED <<temp, final, shared>>
    BY <1>4 DEF Beside, rebuildVars
  <2>. QED  BY <1>1, <2>1 DEF Rebuilding
<1>. QED  BY <1>2, <1>3, <1>4, RebuildSteps

\* The files of the workspace and its calls are what the services make of them,
\* whatever is called at once and whoever dies: events lie in known streams, and
\* the projection in use is one build's, all of it.
THEOREM WorkspaceStaysSound == Spec => []WorkspaceIsSound
<1> DEFINE Inv == Formed /\ Counted /\ FilesAreSound
<1>1. Init => Inv
  <2>1. ASSUME Init PROVE Inv
    <3>1. Formed /\ call = [c \in Caller |-> Idle]
      BY <2>1, StartsFormed
    <3>2. Counted
      BY <2>1 DEF Init, CorrespondenceInit, MemoryInit, Counted
    <3>3. FilesAreSound
      BY <2>1, <3>1 DEF Init, RebuildInit, FilesAreSound, RebuildsApart, BuildsGoOn, NoFiles,
                        Directory, Idle, Rebuilding
    <3>. QED  BY <3>1, <3>2, <3>3
  <2>. QED  BY <2>1
<1>2. Inv /\ [Next]_vars => Inv'
  <2>1. ASSUME Inv, NEW c \in Caller, CallSteps(c) PROVE Inv'
    BY <2>1, StepForms, DeliveriesKept, FilesKept
  <2>2. ASSUME Inv, UNCHANGED vars PROVE Inv'
    <3>1. Formed'
      BY <2>2 DEF vars, recordVars, Formed, Typed, SendCall, LetterCall, MemoryCall, TriggerCall,
                  KnowledgeCall, RunCall, MountedCall, RebuildCall
    <3>2. Counted' /\ FilesAreSound'
      BY <2>2 DEF vars, recordVars, correspondenceVars, rebuildVars, Counted, FilesAreSound,
                  RebuildsApart, BuildsGoOn
    <3>. QED  BY <3>1, <3>2
  <2>. QED  BY <2>1, <2>2 DEF Next
<1>3. Inv => WorkspaceIsSound
  <2>1. ASSUME Inv PROVE WorkspaceIsSound
    <3>1. \A i \in DOMAIN log : log[i].stream \in Streams
      BY <2>1, StreamIsKnown DEF Formed
    <3>2. \A c \in Caller : call[c].op \in Ops
      BY <2>1, OperationIsKnown DEF Formed
    <3>3. ASSUME NEW c \in Caller, call[c].op \in {"superseding", "undoing", "request", "send", "extend"}
          PROVE  call[c].event.stream \in Streams
      <4>1. WellFormed(call[c].event)
        <5>1. Typed(call[c])
          BY <2>1 DEF Formed
        <5>2. CASE call[c].op = "superseding"
          <6>1. call[c].by \in Memory /\ \E m \in Memory : call[c].event = MemoryEvent("superseded", m, call[c].by)
            BY <5>1, <5>2, ByOperation DEF MemoryOps, MemoryCall
          <6>. QED  BY <6>1, MemoryEventForms DEF MemoryTypes
        <5>3. CASE call[c].op = "undoing"
          <6>1. call[c].by \in Memory /\ call[c].event = MemoryEvent("retracted", call[c].by, call[c].by)
            BY <5>1, <5>3, ByOperation DEF MemoryOps, MemoryCall
          <6>. QED  BY <6>1, MemoryEventForms DEF MemoryTypes
        <5>4. CASE call[c].op = "request"
          BY <5>1, <5>4, ByOperation DEF TriggerOps, TriggerCall
        <5>5. CASE call[c].op = "send"
          BY <5>1, <5>5, ByOperation DEF SendCall
        <5>6. CASE call[c].op = "extend"
          BY <5>1, <5>6, ByOperation DEF RunOps, RunCall, MountedCall
        <5>. QED  BY <3>3, <5>2, <5>3, <5>4, <5>5, <5>6
      <4>. QED  BY <4>1, StreamIsKnown
    <3>4. PromotedIsWhole
      BY <2>1 DEF FilesAreSound, PromotedIsWhole
    <3>5. TypeOK
      BY <2>1, <3>1, <3>2, <3>3 DEF TypeOK, Counted, FilesAreSound
    <3>. QED  BY <3>4, <3>5 DEF WorkspaceIsSound
  <2>. QED  BY <2>1
<1>. QED  BY <1>1, <1>2, <1>3, PTL DEF Spec

----------------------------------------------------------------------------
(* Triggers: what an evaluator admits, at the place where it is appended.  *)

\* Every request was admitted on the ledger as it was before it, and one that is
\* about to be appended is admitted on the ledger as it is, if that is still the
\* one it was evaluated on.
Admitted(i) == Admits(Prefix(log, i - 1), log[i].signal, log[i].at)

AdmittedInTurn ==
    /\ \A i \in OfType(log, "requested") : Admitted(i)
    /\ \A c \in Caller : call[c].op = "request" =>
        /\ call[c].global \in 1..(Len(log) + 1)
        /\ call[c].global = Len(log) + 1 => Admits(log, call[c].event.signal, call[c].event.at)

LEMMA AdmissionsKept ==
    ASSUME Formed, AdmittedInTurn, NEW c \in Caller, Extends(log, log'),
           \A d \in Caller : d # c => call'[d] = call[d],
           \A i \in Since(log, log') : log'[i].type = "requested" =>
                Admits(Prefix(log', i - 1), log'[i].signal, log'[i].at),
           call'[c].op = "request" =>
                \/ call'[c] = call[c]
                \/ /\ log' = log /\ call'[c].global = Len(log) + 1
                   /\ Admits(log, call'[c].event.signal, call'[c].event.at)
    PROVE  AdmittedInTurn'
<1>1. ASSUME NEW i \in OfType(log', "requested")
      PROVE  Admits(Prefix(log', i - 1), log'[i].signal, log'[i].at)
  <2>1. CASE i \in Since(log, log')
    BY <1>1, <2>1 DEF OfType
  <2>2. CASE i \notin Since(log, log')
    <3>1. i \in OfType(log, "requested") /\ i \in 1..Len(log) /\ log'[i] = log[i]
      BY <1>1, <2>2, OfTypeExtends
    <3>2. i - 1 \in 0..Len(log)
      BY <3>1 DEF Extends
    <3>3. Prefix(log', i - 1) = Prefix(log, i - 1)
      BY <3>2, PrefixesStay
    <3>. QED  BY <3>1, <3>3 DEF AdmittedInTurn, Admitted
  <2>. QED  BY <2>1, <2>2
<1>2. ASSUME NEW d \in Caller, call'[d].op = "request"
      PROVE  /\ call'[d].global \in 1..(Len(log') + 1)
             /\ call'[d].global = Len(log') + 1 =>
                    Admits(log', call'[d].event.signal, call'[d].event.at)
  <2>1. CASE call'[d] = call[d]
    <3>1. /\ call[d].global \in 1..(Len(log) + 1)
          /\ call[d].global = Len(log) + 1 => Admits(log, call[d].event.signal, call[d].event.at)
      BY <1>2, <2>1 DEF AdmittedInTurn
    <3>a. Len(log) \in Nat /\ Len(log') \in Nat /\ Len(log) <= Len(log')
      BY DEF Extends
    <3>2. /\ call[d].global \in 1..(Len(log') + 1)
          /\ call[d].global = Len(log') + 1 => Len(log') = Len(log)
      BY <3>1, <3>a
    <3>3. Len(log') = Len(log) => log' = log
      BY SameLength
    <3>. QED  BY <2>1, <3>1, <3>2, <3>3
  <2>2. CASE call'[d] # call[d]
    <3>1. d = c /\ log' = log /\ call'[c].global = Len(log) + 1
          /\ Admits(log, call'[c].event.signal, call'[c].event.at)
      BY <1>2, <2>2
    <3>. QED  BY <3>1, CountsAreNumbers
  <2>. QED  BY <2>1, <2>2
<1>. QED  BY <1>1, <1>2 DEF AdmittedInTurn, Admitted

LEMMA AdmittedStep ==
    ASSUME Formed, AdmittedInTurn, NEW c \in Caller, CallSteps(c)
    PROVE  AdmittedInTurn'
<1>0. /\ Extends(log, log') /\ \A d \in Caller : d # c => call'[d] = call[d]
  BY StepForms DEF Beside, Formed
<1>1. CASE TriggerNext(c)
  <2>1. ASSUME NEW state, Mount(c, state)
        PROVE  AdmittedInTurn'
    <3> DEFINE e == [type |-> "mount", stream |-> MountStream, state |-> state]
    <3>1. log' = Append(log, e) /\ call' = call /\ e.type = "mount"
      BY <2>1 DEF Mount
    <3>. HIDE DEF e
    <3>2. \A i \in Since(log, log') : log'[i].type = "mount"
      BY <3>1, AppendExtends DEF Formed
    <3>. QED  BY <1>0, <3>1, <3>2, AdmissionsKept
  <2>2. ASSUME NEW x, NEW at, EvaluateTrigger(c, x, at)
        PROVE  AdmittedInTurn'
    <3>1. log' = log /\ call'[c].op = "evaluate" /\ Since(log, log') = {}
      BY <2>2, ExtendsItself DEF EvaluateTrigger, Formed
    <3>. QED  BY <1>0, <3>1, AdmissionsKept
  <2>3. CASE InspectSnapshot(c)
    <3>1. log' = log /\ Since(log, log') = {}
      BY <2>3, ExtendsItself DEF InspectSnapshot, Formed
    <3>2. CASE Admits(log, call[c].signal, call[c].at)
      <4>1. /\ call'[c].op = "request" /\ call'[c].global = Len(log) + 1
            /\ call'[c].event.signal = call[c].signal /\ call'[c].event.at = call[c].at
        BY <2>3, <3>2 DEF InspectSnapshot, Formed
      <4>. QED  BY <1>0, <3>1, <3>2, <4>1, AdmissionsKept
    <3>3. CASE ~Admits(log, call[c].signal, call[c].at)
      <4>1. call'[c] = Idle
        BY <2>3, <3>3 DEF InspectSnapshot, Formed
      <4>. QED  BY <1>0, <3>1, <4>1, IdleIsTyped, AdmissionsKept
    <3>. QED  BY <3>2, <3>3
  <2>4. CASE AppendRequest(c)
    <3>0. call[c].op = "request"
      BY <2>4 DEF AppendRequest
    <3>1. CASE Holds(c)
      <4>1. log' = Append(log, call[c].event) /\ call'[c] = Idle
        BY <2>4, <3>1 DEF AppendRequest, Formed
      <4>2. call[c].global = Len(log) + 1
        <5>1. call[c].global \in {0, Len(log) + 1}
          BY <3>1 DEF Holds
        <5>2. call[c].global \in 1..(Len(log) + 1) /\ Len(log) \in Nat
          BY <3>0, CountsAreNumbers DEF AdmittedInTurn
        <5>. QED  BY <5>1, <5>2
      <4>3. Admits(log, call[c].event.signal, call[c].event.at)
        BY <3>0, <4>2 DEF AdmittedInTurn
      <4>4. /\ Since(log, log') = {Len(log) + 1} /\ log'[Len(log) + 1] = call[c].event
            /\ Len(log) \in Nat /\ Len(log) + 1 - 1 = Len(log)
        BY <4>1, AppendExtends, CountsAreNumbers DEF Formed
      <4>5. Prefix(log', Len(log)) = log
        <5>1. Len(log) \in 0..Len(log)
          BY <4>4
        <5>2. Prefix(log', Len(log)) = Prefix(log, Len(log))
          BY <1>0, <5>1, PrefixesStay
        <5>. QED  BY <5>2, LedgerFacts DEF Formed
      <4>6. \A i \in Since(log, log') : log'[i].type = "requested" =>
                Admits(Prefix(log', i - 1), log'[i].signal, log'[i].at)
        BY <4>3, <4>4, <4>5
      <4>. QED  BY <1>0, <4>1, <4>6, IdleIsTyped, AdmissionsKept
    <3>2. CASE ~Holds(c)
      <4>1. log' = log /\ Since(log, log') = {}
        BY <2>4, <3>2, ExtendsItself DEF AppendRequest, Formed
      <4>2. call'[c].op \in {"idle", "evaluate"}
        BY <2>4, <3>2 DEF AppendRequest, Formed, Idle
      <4>. QED  BY <1>0, <4>1, <4>2, AdmissionsKept
    <3>. QED  BY <3>1, <3>2
  <2>. QED  BY <1>1, <2>1, <2>2, <2>3, <2>4 DEF TriggerNext
<1>2. CASE Die(c)
  <2>1. log' = log /\ Since(log, log') = {} /\ call'[c] = Idle
    BY <1>2, DieIs, ExtendsItself DEF Formed
  <2>. QED  BY <1>0, <2>1, IdleIsTyped, AdmissionsKept
<1>3. CASE Beside(c, TriggerTypes, TriggerOps)
  <2>1. /\ \A i \in Since(log, log') : log'[i].type # "requested"
        /\ call'[c].op # "request"
    BY <1>3 DEF Beside, TriggerTypes, TriggerOps
  <2>. QED  BY <1>0, <2>1, AdmissionsKept
<1>. QED  BY <1>1, <1>2, <1>3, TriggerSteps

RequestIs(e) ==
    /\ e.type = "requested" /\ e.signal \in Signal /\ e.at \in Nat
    /\ e.gate = GateOf[e.signal] /\ e.gate \in Gate

LEMMA RequestsAre ==
    ASSUME NEW e, WellFormed(e), e.type = "requested"
    PROVE  RequestIs(e)
<1>1. e.signal \in Signal /\ e.at \in Time /\ e.gate = GateOf[e.signal]
  BY DEF WellFormed, ServiceTypes, Kind, MemoryTypes
<1>. QED  BY <1>1, TriggerAssumption DEF RequestIs

\* What admission says of one request and another that came before it.
LEMMA AdmittedAfter ==
    ASSUME Formed, AdmittedInTurn, NEW i \in OfType(log, "requested"),
           NEW j \in OfType(log, "requested"), j < i
    PROVE  /\ j \in DOMAIN Prefix(log, i - 1) /\ Prefix(log, i - 1)[j] = log[j]
           /\ log[j].signal # log[i].signal
           /\ log[j].gate = log[i].gate /\ PolicyOf[log[i].gate].cooldown > 0 =>
                log[j].at + PolicyOf[log[i].gate].cooldown <= log[i].at
<1>1. i \in 1..Len(log) /\ j \in 1..Len(log) /\ Len(log) \in Nat
  BY LedgerFacts DEF Formed, OfType
<1>2. i - 1 \in 0..Len(log) /\ j \in 1..(i - 1)
  BY <1>1
<1>3. /\ DOMAIN Prefix(log, i - 1) = 1..(i - 1)
      /\ \A n \in 1..(i - 1) : Prefix(log, i - 1)[n] = log[n]
  BY <1>2, PrefixFacts DEF Formed
<1>4. j \in OfType(Prefix(log, i - 1), "requested") /\ Prefix(log, i - 1)[j] = log[j]
  BY <1>2, <1>3 DEF OfType
<1>5. Admits(Prefix(log, i - 1), log[i].signal, log[i].at)
  BY DEF AdmittedInTurn, Admitted
<1>6. log[j].signal # log[i].signal
  BY <1>4, <1>5 DEF Admits, IsRequested
<1>7. ASSUME log[j].gate = log[i].gate, PolicyOf[log[i].gate].cooldown > 0
      PROVE  log[j].at + PolicyOf[log[i].gate].cooldown <= log[i].at
  <2>1. RequestIs(log[i]) /\ RequestIs(log[j])
    BY RequestsAre DEF OfType, Formed
  <2>2. GateOf[log[i].signal] = log[i].gate
    BY <2>1 DEF RequestIs
  <2>3. j \in Requests(Prefix(log, i - 1), log[i].gate)
    BY <1>4, <1>7 DEF Requests
  <2>4. ~(log[i].at < log[j].at + PolicyOf[log[i].gate].cooldown)
    BY <1>4, <1>5, <1>7, <2>2, <2>3 DEF Admits, InCooldown
  <2>5. log[i].at \in Nat /\ log[j].at \in Nat /\ PolicyOf[log[i].gate].cooldown \in Nat
    BY <2>1, TriggerAssumption DEF RequestIs
  <2>6. \A a, b, d \in Nat : ~(a < b + d) => b + d <= a
    OBVIOUS
  <2>. QED  BY <2>4, <2>5, <2>6
<1>. QED  BY <1>2, <1>3, <1>4, <1>6, <1>7

\* The requests that count against a request, were it replayed in order of time,
\* are fewer than the policy allows: together with it they are a set of which the
\* one appended last was admitted, beside all the others.
LEMMA WindowHolds ==
    ASSUME Formed, AdmittedInTurn, NEW i \in OfType(log, "requested"),
           NEW P, P \subseteq Requests(log, log[i].gate) \ {i},
           \A j \in P : log[j].at <= log[i].at
                /\ log[i].at - log[j].at < PolicyOf[log[i].gate].window
    PROVE  Cardinality(P) < PolicyOf[log[i].gate].max
<1> DEFINE g == log[i].gate
           Q == P \union {i}
           W(m) == {j \in Requests(Prefix(log, m - 1), g) :
                        log[m].at - Prefix(log, m - 1)[j].at < PolicyOf[g].window}
<1>1. /\ Q \subseteq OfType(log, "requested") /\ \A j \in Q : log[j].gate = g
      /\ OfType(log, "requested") \subseteq 1..Len(log) /\ Len(log) \in Nat
  BY LedgerFacts DEF Formed, Requests, OfType
<1>2. /\ \A j \in OfType(log, "requested") : RequestIs(log[j])
      /\ g \in Gate /\ PolicyOf[g].window \in Nat /\ PolicyOf[g].max \in Nat
  <2>1. \A j \in OfType(log, "requested") : RequestIs(log[j])
    BY RequestsAre DEF Formed, OfType
  <2>2. g \in Gate
    BY <2>1 DEF RequestIs
  <2>. HIDE DEF g
  <2>. QED  BY <2>1, <2>2, TriggerAssumption
<1>3. \A j \in Q : log[j].at \in Nat
  BY <1>1, <1>2 DEF RequestIs
<1>4. PICK m \in Q : \A j \in Q : j <= m
  <2>1. Q \subseteq 1..Len(log) /\ Q # {}
    BY <1>1
  <2>. HIDE DEF Q
  <2>. QED  BY <2>1, LastExists DEF Formed
<1>5. IsFiniteSet(P) /\ IsFiniteSet(W(m))
  <2>1. IsFiniteSet(1..Len(log))
    BY <1>1, FS_Interval
  <2>2. P \subseteq 1..Len(log)
    BY <1>1
  <2>3. m - 1 \in 0..Len(log)
    BY <1>1, <1>4
  <2>4. DOMAIN Prefix(log, m - 1) = 1..(m - 1)
    BY <2>3, PrefixFacts DEF Formed
  <2>5. W(m) \subseteq 1..(m - 1)
    BY <2>4 DEF Requests, OfType
  <2>6. IsFiniteSet(1..(m - 1))
    BY <2>3, FS_Interval
  <2>. HIDE DEF W
  <2>. QED  BY <2>1, <2>2, <2>5, <2>6, FS_Subset
<1>6. Cardinality(W(m)) < PolicyOf[g].max
  <2>1. Admits(Prefix(log, m - 1), log[m].signal, log[m].at)
    BY <1>1, <1>4 DEF AdmittedInTurn, Admitted
  <2>2. GateOf[log[m].signal] = g
    BY <1>1, <1>2, <1>4 DEF RequestIs
  <2>3. ~(Cardinality(W(m)) >= PolicyOf[g].max)
    BY <2>1, <2>2 DEF Admits, IsSpent
  <2>4. Cardinality(W(m)) \in Nat
    BY <1>5, FS_CardinalityType
  <2>. HIDE DEF W, g
  <2>. QED  BY <1>2, <2>3, <2>4
<1>7. CASE P = {}
  <2>1. Cardinality(P) = 0 /\ Cardinality(W(m)) \in Nat
    BY <1>5, <1>7, FS_EmptySet, FS_CardinalityType
  <2>. HIDE DEF W, g
  <2>2. Cardinality(P) < PolicyOf[g].max
    BY <1>2, <1>6, <2>1
  <2>. QED  BY <2>2 DEF g
<1>8. CASE P # {}
  <2>1. \A j \in Q \ {m} : j \in W(m)
    <3>1. SUFFICES ASSUME NEW j \in Q, j # m
                   PROVE  j \in W(m)
      OBVIOUS
    <3>2. j < m
      BY <1>1, <1>4, <3>1
    <3>3. /\ j \in DOMAIN Prefix(log, m - 1) /\ Prefix(log, m - 1)[j] = log[j]
      BY <1>1, <1>4, <3>1, <3>2, AdmittedAfter
    <3>4. log[m].at - log[j].at < PolicyOf[g].window
      <4>1. log[m].at <= log[i].at
        BY <1>3, <1>4
      <4>2. CASE j \in P
        <5>1. log[i].at - log[j].at < PolicyOf[g].window
          BY <4>2
        <5>2. \A a, b, d, w \in Nat : a <= b /\ b - d < w => a - d < w
          OBVIOUS
        <5>3. log[m].at \in Nat /\ log[i].at \in Nat /\ log[j].at \in Nat
          BY <1>3, <1>4, <3>1
        <5>. HIDE DEF g
        <5>. QED  BY <1>2, <4>1, <5>1, <5>2, <5>3
      <4>3. CASE j = i
        <5>1. PICK n \in P : TRUE
          BY <1>8
        <5>2. log[n].at <= log[i].at /\ log[i].at - log[n].at < PolicyOf[g].window
          BY <5>1
        <5>3. \A a, b, d, w \in Nat : a <= b /\ d <= b /\ b - d < w => a - b < w
          OBVIOUS
        <5>4. log[m].at \in Nat /\ log[i].at \in Nat /\ log[n].at \in Nat
          BY <1>3, <1>4, <5>1
        <5>. HIDE DEF g
        <5>. QED  BY <1>2, <4>1, <4>3, <5>2, <5>3, <5>4
      <4>. QED  BY <3>1, <4>2, <4>3
    <3>5. j \in Requests(Prefix(log, m - 1), g)
      BY <1>1, <3>1, <3>3 DEF Requests, OfType
    <3>. QED  BY <3>3, <3>4, <3>5
  <2>2. Cardinality(Q \ {m}) = Cardinality(P)
    <3>1. IsFiniteSet(Q) /\ Cardinality(Q) = Cardinality(P) + 1
      BY <1>5, FS_AddElement
    <3>2. Cardinality(P) \in Nat
      BY <1>5, FS_CardinalityType
    <3>. HIDE DEF Q
    <3>3. Cardinality(Q \ {m}) = Cardinality(Q) - 1
      BY <1>4, <3>1, FS_RemoveElement
    <3>. QED  BY <3>1, <3>2, <3>3
  <2>3. Cardinality(Q \ {m}) <= Cardinality(W(m))
    <3>. HIDE DEF W, Q
    <3>. QED  BY <1>5, <2>1, FS_Subset
  <2>4. Cardinality(P) \in Nat /\ Cardinality(W(m)) \in Nat
    BY <1>5, FS_CardinalityType
  <2>. HIDE DEF W, Q, g
  <2>5. Cardinality(P) < PolicyOf[g].max
    BY <1>2, <1>6, <2>2, <2>3, <2>4
  <2>. QED  BY <2>5 DEF g
<1>. QED  BY <1>7, <1>8

LEMMA AdmissionFollows ==
    ASSUME Formed, AdmittedInTurn
    PROVE  AdmissionIsSound
<1>1. RequestedOnceWhileMounted
  BY DEF RequestedOnceWhileMounted, AdmittedInTurn, Admitted, Admits
<1>2. ASSUME NEW i \in OfType(log, "requested"), NEW earlier \in SUBSET SameTime(i)
      PROVE  /\ PolicyOf[log[i].gate].cooldown > 0 =>
                    \A j \in Prior(i, earlier) : log[i].at - log[j].at >= PolicyOf[log[i].gate].cooldown
             /\ Cardinality({j \in Prior(i, earlier) :
                    log[i].at - log[j].at < PolicyOf[log[i].gate].window}) < PolicyOf[log[i].gate].max
  <2>1. \A j \in OfType(log, "requested") : RequestIs(log[j])
    BY RequestsAre DEF Formed, OfType
  <2>2. \A j \in OfType(log, "requested") : log[j].at \in Nat
    BY <2>1 DEF RequestIs
  <2>3. \A j \in Prior(i, earlier) :
            /\ j \in OfType(log, "requested") /\ j \in Requests(log, log[i].gate)
            /\ j # i /\ log[j].gate = log[i].gate /\ log[j].at <= log[i].at
    BY <2>2 DEF Prior, SameTime, Requests
  <2>4. ASSUME PolicyOf[log[i].gate].cooldown > 0, NEW j \in Prior(i, earlier)
        PROVE  log[i].at - log[j].at >= PolicyOf[log[i].gate].cooldown
    <3>1. PolicyOf[log[i].gate].cooldown \in Nat /\ log[i].at \in Nat /\ log[j].at \in Nat
      BY <2>1, <2>2, <2>3, TriggerAssumption DEF RequestIs
    <3>2. i \in Nat /\ j \in Nat
      BY <2>3, LedgerFacts DEF Formed, OfType
    <3>3. CASE j < i
      <4>1. log[j].at + PolicyOf[log[i].gate].cooldown <= log[i].at
        BY <2>3, <2>4, <3>3, AdmittedAfter
      <4>2. \A a, b, d \in Nat : b + d <= a => a - b >= d
        OBVIOUS
      <4>. QED  BY <3>1, <4>1, <4>2
    <3>4. CASE i < j
      <4>1. log[i].at + PolicyOf[log[i].gate].cooldown <= log[j].at
        BY <2>3, <2>4, <3>4, AdmittedAfter
      <4>2. \A a, b, d \in Nat : a + d <= b /\ b <= a => ~(d > 0)
        OBVIOUS
      <4>. QED  BY <2>3, <2>4, <3>1, <4>1, <4>2
    <3>. QED  BY <2>3, <3>2, <3>3, <3>4
  <2>5. Cardinality({j \in Prior(i, earlier) :
                log[i].at - log[j].at < PolicyOf[log[i].gate].window}) < PolicyOf[log[i].gate].max
    <3> DEFINE P == {j \in Prior(i, earlier) : log[i].at - log[j].at < PolicyOf[log[i].gate].window}
    <3>1. /\ P \subseteq Requests(log, log[i].gate) \ {i}
          /\ \A j \in P : log[j].at <= log[i].at
                /\ log[i].at - log[j].at < PolicyOf[log[i].gate].window
      BY <2>3
    <3>. HIDE DEF P
    <3>2. Cardinality(P) < PolicyOf[log[i].gate].max
      BY <3>1, WindowHolds
    <3>. QED  BY <3>2 DEF P
  <2>. QED  BY <2>4, <2>5
<1>3. AdmissionReplays
  BY <1>2 DEF AdmissionReplays
<1>. QED  BY <1>1, <1>3 DEF AdmissionIsSound

\* What evaluators of triggers admit at once, at whatever times, the projection
\* can replay in order of time, and no signal is requested twice or while the
\* workspace is away: for any policies.
THEOREM AdmissionStaysSound == Spec => []AdmissionIsSound
<1>1. Init => AdmittedInTurn
  <2>1. ASSUME Init PROVE AdmittedInTurn
    <3>1. StartLedger(log) /\ call = [c \in Caller |-> Idle]
      BY <2>1, StartsFormed
    <3>2. OfType(log, "requested") = {}
      BY <3>1 DEF StartLedger, OfType
    <3>. QED  BY <3>1, <3>2, IdleIsTyped DEF AdmittedInTurn
  <2>. QED  BY <2>1
<1>2. Formed /\ AdmittedInTurn /\ [Next]_vars => AdmittedInTurn'
  <2>1. ASSUME Formed, AdmittedInTurn, NEW c \in Caller, CallSteps(c) PROVE AdmittedInTurn'
    BY <2>1, AdmittedStep
  <2>2. ASSUME AdmittedInTurn, UNCHANGED vars PROVE AdmittedInTurn'
    BY <2>2 DEF vars, recordVars, AdmittedInTurn, Admitted
  <2>. QED  BY <2>1, <2>2 DEF Next
<1>3. Formed /\ AdmittedInTurn => AdmissionIsSound
  BY AdmissionFollows
<1>. QED  BY <1>1, <1>2, <1>3, AlwaysFormed, PTL DEF Spec

----------------------------------------------------------------------------
(* Memories: what their streams say, and what a call at work has left.     *)

AtWork(k) == k.op \in {"replaced", "superseding", "undo", "undoing"}

Replaces(s, n, m) == \E i \in InStream(s, MemoryStream(n)) : s[i].type = "remembered" /\ s[i].other = m

\* Nothing was superseded by n, and n was not taken back.
Untraced(s, n) == \A i \in DOMAIN s : s[i].type \in {"superseded", "retracted"} => s[i].other # n

\* A memory that was retracted or superseded.
Gone(s, m) == \E i \in InStream(s, MemoryStream(m)) : s[i].type # "remembered"

\* A memory is remembered first of all; what replaced another one was remembered
\* and not taken back; a memory is taken back on its own stream.
MemoriesAre(s) ==
    /\ \A i \in OfType(s, "remembered") : i \in First(InStream(s, s[i].stream))
    /\ \A i \in OfType(s, "superseded") :
        /\ s[i].other \in Memory /\ InStream(s, MemoryStream(s[i].other)) # {}
        /\ \A j \in OfType(s, "retracted") : s[j].other # s[i].other
    /\ \A i \in OfType(s, "retracted") :
        s[i].other = NoMemory \/ s[i].stream = MemoryStream(s[i].other)

\* A call at work has left a replacement, whose supersession is still open.
WorkIs(s, k) ==
    AtWork(k) =>
        /\ k.by \in Memory /\ Untraced(s, k.by)
        /\ \E m \in Memory :
            /\ Replaces(s, k.by, m)
            /\ k.op = "replaced" => k.memory = m
            /\ k.op = "superseding" => k.event = MemoryEvent("superseded", m, k.by)

WorkIsKnown ==
    /\ MemoriesAre(log)
    /\ \A c \in Caller : WorkIs(log, call[c])
    /\ \A c, d \in Caller : AtWork(call[c]) /\ AtWork(call[d]) /\ call[c].by = call[d].by => c = d
    /\ \A n, m \in Memory : Replaces(log, n, m) =>
        \/ \E c \in Caller : AtWork(call[c]) /\ call[c].by = n
        \/ n \in abandoned \/ Gone(log, m) \/ Gone(log, n)

\* Ledger t goes on from s, but that o was superseded for, or taken back.
Carries(s, t, o) ==
    /\ \A n : Untraced(s, n) /\ n # o => Untraced(t, n)
    /\ \A n, m : Replaces(s, n, m) => Replaces(t, n, m)
    /\ \A m : Gone(s, m) => Gone(t, m)

LEMMA AllCarries ==
    ASSUME NEW s, NEW t, Extends(s, t), NEW o,
           \A i \in Since(s, t) : t[i].type \in {"superseded", "retracted"} => t[i].other = o
    PROVE  Carries(s, t, o)
<1>0. /\ \A i \in DOMAIN s : i \in DOMAIN t /\ t[i] = s[i]
      /\ \A i \in DOMAIN t : i \in DOMAIN s \/ i \in Since(s, t)
  BY DEF Extends, Since
<1>1. \A n : Untraced(s, n) /\ n # o => Untraced(t, n)
  BY <1>0 DEF Untraced
<1>2. \A st : \A i \in InStream(s, st) : i \in InStream(t, st) /\ t[i] = s[i]
  BY <1>0 DEF InStream
<1>3. \A n, m : Replaces(s, n, m) => Replaces(t, n, m)
  BY <1>2 DEF Replaces
<1>4. \A m : Gone(s, m) => Gone(t, m)
  BY <1>2 DEF Gone
<1>. QED  BY <1>1, <1>3, <1>4 DEF Carries

LEMMA WithoutMemories ==
    ASSUME NEW s, NEW t, Extends(s, t), MemoriesAre(s),
           \A i \in Since(s, t) : t[i].type \notin MemoryTypes
    PROVE  /\ MemoriesAre(t) /\ \A o : Carries(s, t, o)
           /\ \A n, m : Replaces(t, n, m) => Replaces(s, n, m)
<1>0. /\ \A i \in Since(s, t) : t[i].type # "remembered" /\ t[i].type # "superseded"
            /\ t[i].type # "retracted"
  BY DEF MemoryTypes
<1>1. \A type \in MemoryTypes :
        OfType(t, type) = OfType(s, type) /\ \A i \in OfType(s, type) : t[i] = s[i]
  BY OtherTypesLast
<1>2. /\ \A st : \A i \in InStream(s, st) : i \in InStream(t, st)
      /\ \A st : \A i \in First(InStream(s, st)) : i \in First(InStream(t, st))
  <2>1. \A st : \A i \in InStream(t, st) : i \in InStream(s, st) \/ i \in Since(s, t)
    BY InStreamExtends
  <2>2. \A st : \A i \in InStream(s, st) : i \in InStream(t, st) /\ i \in 1..Len(s)
    BY InStreamExtends
  <2>3. \A i \in Since(s, t), j \in 1..Len(s) : j <= i
    BY DEF Since, Extends
  <2>. QED  BY <2>1, <2>2, <2>3 DEF First
<1>3. \A i \in OfType(t, "remembered") : i \in First(InStream(t, t[i].stream))
  BY <1>1, <1>2 DEF MemoriesAre, MemoryTypes
<1>4. \A i \in OfType(t, "superseded") :
        /\ t[i].other \in Memory /\ InStream(t, MemoryStream(t[i].other)) # {}
        /\ \A j \in OfType(t, "retracted") : t[j].other # t[i].other
  <2>1. "superseded" \in MemoryTypes /\ "retracted" \in MemoryTypes
    BY DEF MemoryTypes
  <2>2. \A i \in OfType(s, "superseded") :
          /\ s[i].other \in Memory /\ InStream(s, MemoryStream(s[i].other)) # {}
          /\ \A j \in OfType(s, "retracted") : s[j].other # s[i].other
    BY DEF MemoriesAre
  <2>3. \A st : InStream(s, st) # {} => InStream(t, st) # {}
    BY <1>2
  <2>. QED  BY <1>1, <2>1, <2>2, <2>3
<1>5. \A i \in OfType(t, "retracted") :
        t[i].other = NoMemory \/ t[i].stream = MemoryStream(t[i].other)
  BY <1>1 DEF MemoriesAre, MemoryTypes
<1>6. \A o : Carries(s, t, o)
  BY <1>0, AllCarries
<1>7. ASSUME NEW n, NEW m, Replaces(t, n, m)
      PROVE  Replaces(s, n, m)
  <2>1. PICK i \in InStream(t, MemoryStream(n)) : t[i].type = "remembered" /\ t[i].other = m
    BY <1>7 DEF Replaces
  <2>2. i \in InStream(s, MemoryStream(n)) /\ t[i] = s[i]
    BY <1>0, <2>1, InStreamExtends
  <2>. QED  BY <2>1, <2>2 DEF Replaces
<1>. QED  BY <1>3, <1>4, <1>5, <1>6, <1>7 DEF MemoriesAre

\* A ledger that grows by an event of a memory.
LEMMA WithMemory ==
    ASSUME NEW s, NEW t, NEW e, Grows(s, t, e), MemoriesAre(s),
           NEW x, NEW o, NEW type \in MemoryTypes, e = MemoryEvent(type, x, o),
           type = "remembered" => InStream(s, MemoryStream(x)) = {},
           type = "superseded" => /\ o \in Memory /\ InStream(s, MemoryStream(o)) # {}
                                  /\ \A j \in OfType(s, "retracted") : s[j].other # o,
           type = "retracted" => \/ o = NoMemory
                                 \/ o = x /\ \A j \in OfType(s, "superseded") : s[j].other # o
    PROVE  /\ MemoriesAre(t) /\ (type # "remembered" => Carries(s, t, o) /\ Gone(t, x))
           /\ type = "remembered" => (\A n : Carries(s, t, n)) /\ Replaces(t, x, o)
           /\ \A n, m : Replaces(t, n, m) =>
                Replaces(s, n, m) \/ (type = "remembered" /\ n = x /\ m = o)
<1>0. e.type = type /\ e.stream = MemoryStream(x) /\ e.other = o
  BY MemoryEventIs
<1>1. /\ Extends(s, t) /\ Since(s, t) = {Len(t)} /\ t[Len(t)] = e
      /\ Len(t) = Len(s) + 1 /\ Len(s) \in Nat /\ DOMAIN t = 1..Len(t) /\ DOMAIN s = 1..Len(s)
  BY GrowthExtends DEF Grows
<1>2. \A st : \A i : /\ i \in InStream(s, st) => i \in 1..Len(s) /\ i # Len(t) /\ t[i] = s[i]
                     /\ i \in InStream(t, st) <=> i \in InStream(s, st) \/ (i = Len(t) /\ e.stream = st)
  BY InStreamGrows
<1>3. \A y : \A i : /\ i \in OfType(s, y) => i \in 1..Len(s) /\ i # Len(t) /\ t[i] = s[i]
                    /\ i \in OfType(t, y) <=> i \in OfType(s, y) \/ (i = Len(t) /\ e.type = y)
  BY OfTypeGrows
<1>4. \A st : \A i \in First(InStream(s, st)) : i \in First(InStream(t, st))
  <2>1. \A i \in 1..Len(s) : i <= Len(t)
    BY <1>1
  <2>. QED  BY <1>2, <2>1 DEF First
<1>5. \A i \in OfType(t, "remembered") : i \in First(InStream(t, t[i].stream))
  <2>1. SUFFICES ASSUME NEW i \in OfType(t, "remembered")
                 PROVE  i \in First(InStream(t, t[i].stream))
    OBVIOUS
  <2>2. CASE i \in OfType(s, "remembered")
    BY <1>3, <1>4, <2>2 DEF MemoriesAre
  <2>3. CASE i = Len(t) /\ type = "remembered"
    <3>1. InStream(t, MemoryStream(x)) = {Len(t)}
      BY <1>0, <1>2, <2>3
    <3>2. Len(t) \in First({Len(t)})
      BY <1>1 DEF First
    <3>. QED  BY <1>0, <1>1, <2>3, <3>1, <3>2
  <2>. QED  BY <1>0, <1>3, <2>2, <2>3
<1>6. ASSUME NEW i \in OfType(t, "superseded")
      PROVE  /\ t[i].other \in Memory /\ InStream(t, MemoryStream(t[i].other)) # {}
             /\ \A j \in OfType(t, "retracted") : t[j].other # t[i].other
  <2>1. \A st : InStream(s, st) # {} => InStream(t, st) # {}
    BY <1>2
  <2>2. CASE i \in OfType(s, "superseded")
    <3>1. t[i] = s[i] /\ s[i].other \in Memory /\ InStream(s, MemoryStream(s[i].other)) # {}
          /\ \A j \in OfType(s, "retracted") : s[j].other # s[i].other
      BY <1>3, <2>2 DEF MemoriesAre
    <3>2. type = "retracted" => o # s[i].other
      BY <2>2, <3>1, MemoryAssumption
    <3>3. \A j \in OfType(t, "retracted") : t[j].other # t[i].other
      BY <1>0, <1>1, <1>3, <3>1, <3>2
    <3>. QED  BY <2>1, <3>1, <3>3
  <2>3. CASE i = Len(t) /\ type = "superseded"
    <3>1. t[i] = e
      BY <1>1, <2>3
    <3>2. \A j \in OfType(t, "retracted") : t[j].other # o
      BY <1>0, <1>3, <2>3
    <3>. QED  BY <1>0, <2>1, <2>3, <3>1, <3>2
  <2>. QED  BY <1>0, <1>3, <1>6, <2>2, <2>3
<1>7. \A i \in OfType(t, "retracted") :
        t[i].other = NoMemory \/ t[i].stream = MemoryStream(t[i].other)
  <2>1. SUFFICES ASSUME NEW i \in OfType(t, "retracted")
                 PROVE  t[i].other = NoMemory \/ t[i].stream = MemoryStream(t[i].other)
    OBVIOUS
  <2>2. CASE i \in OfType(s, "retracted")
    BY <1>3, <2>2 DEF MemoriesAre
  <2>3. CASE i = Len(t) /\ type = "retracted"
    BY <1>0, <1>1, <2>3
  <2>. QED  BY <1>0, <1>3, <2>2, <2>3
<1>8. /\ type # "remembered" => Carries(s, t, o)
      /\ type = "remembered" => \A n : Carries(s, t, n)
  BY <1>0, <1>1, AllCarries
<1>9. type # "remembered" => Gone(t, x)
  BY <1>0, <1>1, <1>2 DEF Gone
<1>10. type = "remembered" => Replaces(t, x, o)
  BY <1>0, <1>1, <1>2 DEF Replaces
<1>11. ASSUME NEW n, NEW m, Replaces(t, n, m)
       PROVE  Replaces(s, n, m) \/ (type = "remembered" /\ n = x /\ m = o)
  <2>1. PICK i \in InStream(t, MemoryStream(n)) : t[i].type = "remembered" /\ t[i].other = m
    BY <1>11 DEF Replaces
  <2>2. CASE i \in InStream(s, MemoryStream(n))
    BY <1>2, <2>1, <2>2 DEF Replaces
  <2>3. CASE i = Len(t) /\ e.stream = MemoryStream(n)
    BY <1>0, <1>1, <2>1, <2>3, StreamsApart
  <2>. QED  BY <1>2, <2>2, <2>3
<1>. QED  BY <1>5, <1>6, <1>7, <1>8, <1>9, <1>10, <1>11 DEF MemoriesAre

\* A memory replaces one other at most.
LEMMA ReplacesOnce ==
    ASSUME NEW s, MemoriesAre(s), IsLedger(s), NEW n, NEW m, NEW o,
           Replaces(s, n, m), Replaces(s, n, o)
    PROVE  m = o
<1>1. PICK i \in InStream(s, MemoryStream(n)) : s[i].type = "remembered" /\ s[i].other = m
  BY DEF Replaces
<1>2. PICK j \in InStream(s, MemoryStream(n)) : s[j].type = "remembered" /\ s[j].other = o
  BY DEF Replaces
<1>3. i \in First(InStream(s, MemoryStream(n))) /\ j \in First(InStream(s, MemoryStream(n)))
  <2>1. i \in OfType(s, "remembered") /\ s[i].stream = MemoryStream(n)
    BY <1>1 DEF OfType, InStream
  <2>2. j \in OfType(s, "remembered") /\ s[j].stream = MemoryStream(n)
    BY <1>2 DEF OfType, InStream
  <2>. QED  BY <2>1, <2>2 DEF MemoriesAre
<1>4. i \in 1..Len(s) /\ j \in 1..Len(s)
  BY <1>1, <1>2, LedgerFacts DEF InStream
<1>5. i <= j /\ j <= i
  BY <1>1, <1>2, <1>3 DEF First
<1>. QED  BY <1>1, <1>2, <1>4, <1>5, LedgerFacts

\* A step of c keeps what is known of the work of all.
LEMMA WorkKept ==
    ASSUME Formed, WorkIsKnown, NEW c \in Caller,
           call' = [call EXCEPT ![c] = call'[c]], abandoned \subseteq abandoned',
           MemoriesAre(log'), WorkIs(log', call'[c]),
           NEW o, Carries(log, log', o),
           \A d \in Caller : d # c /\ AtWork(call[d]) => call[d].by # o,
           AtWork(call'[c]) => \A d \in Caller :
                d # c /\ AtWork(call[d]) => call[d].by # call'[c].by,
           AtWork(call[c]) =>
                \/ AtWork(call'[c]) /\ call'[c].by = call[c].by
                \/ call[c].by \in abandoned'
                \/ \A m \in Memory : Replaces(log, call[c].by, m) => Gone(log', m)
                \/ Gone(log', call[c].by),
           \A n, m \in Memory : Replaces(log', n, m) =>
                Replaces(log, n, m) \/ (AtWork(call'[c]) /\ call'[c].by = n)
    PROVE  WorkIsKnown'
<1>1. \A d \in Caller : d # c => call'[d] = call[d]
  BY DEF Formed
<1>2. \A d \in Caller : WorkIs(log', call'[d])
  <2>1. SUFFICES ASSUME NEW d \in Caller, d # c PROVE WorkIs(log', call[d])
    BY <1>1
  <2>2. WorkIs(log, call[d])
    BY DEF WorkIsKnown
  <2>. QED  BY <2>1, <2>2 DEF WorkIs, Carries
<1>3. \A d, e \in Caller :
        AtWork(call'[d]) /\ AtWork(call'[e]) /\ call'[d].by = call'[e].by => d = e
  BY <1>1 DEF WorkIsKnown
<1>4. ASSUME NEW n \in Memory, NEW m \in Memory, Replaces(log', n, m)
      PROVE  \/ \E d \in Caller : AtWork(call'[d]) /\ call'[d].by = n
             \/ n \in abandoned' \/ Gone(log', m) \/ Gone(log', n)
  <2>1. CASE AtWork(call'[c]) /\ call'[c].by = n
    BY <2>1
  <2>2. CASE Replaces(log, n, m)
    <3>1. CASE \E d \in Caller : AtWork(call[d]) /\ call[d].by = n
      <4>1. PICK d \in Caller : AtWork(call[d]) /\ call[d].by = n
        BY <3>1
      <4>2. CASE d = c
        BY <2>2, <4>1, <4>2
      <4>3. CASE d # c
        BY <1>1, <4>1, <4>3
      <4>. QED  BY <4>2, <4>3
    <3>2. CASE n \in abandoned
      BY <3>2
    <3>3. CASE Gone(log, m) \/ Gone(log, n)
      BY <3>3 DEF Carries
    <3>. QED  BY <2>2, <3>1, <3>2, <3>3 DEF WorkIsKnown
  <2>. QED  BY <1>4, <2>1, <2>2
<1>. QED  BY <1>2, <1>3, <1>4 DEF WorkIsKnown

\* A step that appends no event of a memory, and lets no work go.
LEMMA WorkGoesOn ==
    ASSUME Formed, WorkIsKnown, NEW c \in Caller,
           call' = [call EXCEPT ![c] = call'[c]], abandoned \subseteq abandoned',
           Extends(log, log'), \A i \in Since(log, log') : log'[i].type \notin MemoryTypes,
           AtWork(call'[c]) => /\ AtWork(call[c]) /\ call'[c].by = call[c].by
                               /\ WorkIs(log, call[c]) => WorkIs(log, call'[c]),
           AtWork(call[c]) => AtWork(call'[c]) \/ call[c].by \in abandoned'
    PROVE  WorkIsKnown'
<1>1. MemoriesAre(log)
  BY DEF WorkIsKnown
<1>2. /\ MemoriesAre(log') /\ Carries(log, log', NoMemory)
      /\ \A n, m : Replaces(log', n, m) => Replaces(log, n, m)
  BY <1>1, WithoutMemories
<1>3. \A d \in Caller : AtWork(call[d]) => call[d].by \in Memory /\ call[d].by # NoMemory
  BY MemoryAssumption DEF WorkIsKnown, WorkIs
<1>4. WorkIs(log', call'[c])
  <2>1. AtWork(call'[c]) => WorkIs(log, call'[c])
    BY DEF WorkIsKnown
  <2>2. AtWork(call'[c]) => call'[c].by # NoMemory
    BY <1>3
  <2>. QED  BY <1>2, <2>1, <2>2 DEF WorkIs, Carries
<1>5. AtWork(call'[c]) => \A d \in Caller : d # c /\ AtWork(call[d]) => call[d].by # call'[c].by
  BY DEF WorkIsKnown
<1>. QED  BY <1>2, <1>3, <1>4, <1>5, WorkKept

LEMMA MemoryWorks ==
    ASSUME Formed, WorkIsKnown, NEW c \in Caller, MemoryNext(c)
    PROVE  WorkIsKnown'
<1> DEFINE k == call[c]
<1>0. /\ IsLedger(log) /\ MemoriesAre(log) /\ WorkIs(log, k)
      /\ \A new : call' = [call EXCEPT ![c] = new] =>
            call'[c] = new /\ call' = [call EXCEPT ![c] = call'[c]]
      /\ \A d \in Caller : AtWork(call[d]) =>
            /\ call[d].by \in Memory /\ Untraced(log, call[d].by)
            /\ InStream(log, MemoryStream(call[d].by)) # {}
      /\ \A d \in Caller : d # c /\ AtWork(k) /\ AtWork(call[d]) => call[d].by # k.by
  <2>1. \A new : call' = [call EXCEPT ![c] = new] =>
            call'[c] = new /\ call' = [call EXCEPT ![c] = call'[c]]
    BY DEF Formed
  <2>2. ASSUME NEW d \in Caller, AtWork(call[d])
        PROVE  /\ call[d].by \in Memory /\ Untraced(log, call[d].by)
               /\ InStream(log, MemoryStream(call[d].by)) # {}
    <3>1. WorkIs(log, call[d])
      BY DEF WorkIsKnown
    <3>. QED  BY <2>2, <3>1 DEF WorkIs, Replaces
  <2>. QED  BY <2>1, <2>2 DEF Formed, WorkIsKnown
<1>1. ASSUME NEW new, call' = [call EXCEPT ![c] = new], log' = log, abandoned' = abandoned,
             ~AtWork(k), ~AtWork(new)
      PROVE  WorkIsKnown'
  BY <1>0, <1>1, ExtendsItself, WorkGoesOn
<1>2. ASSUME NEW m \in Memory, RecordMemory(c, m)
      PROVE  WorkIsKnown'
  <2>1. k.op = "idle" /\ log' = log /\ abandoned' = abandoned
        /\ call' = [call EXCEPT ![c] = Sending(MemoryEvent("remembered", m, NoMemory), 1, 0)]
    BY <1>2, MakesIsIdle DEF RecordMemory
  <2>2. Sending(MemoryEvent("remembered", m, NoMemory), 1, 0).op = "send"
    BY DEF Sending
  <2>. QED  BY <1>1, <2>1, <2>2 DEF AtWork
<1>3. ASSUME NEW m \in Memory, RetractMemory(c, m)
      PROVE  WorkIsKnown'
  <2>1. k.op = "idle" /\ log' = log /\ abandoned' = abandoned
        /\ call' = [call EXCEPT ![c] = [op |-> "retract", memory |-> m]]
    BY <1>3, MakesIsIdle DEF RetractMemory
  <2>. QED  BY <1>1, <2>1 DEF AtWork
<1>4. ASSUME NEW m \in Memory, NEW n \in Memory, SupersedeMemory(c, m, n)
      PROVE  WorkIsKnown'
  <2>1. k.op = "idle" /\ log' = log /\ abandoned' = abandoned
        /\ call' = [call EXCEPT ![c] = [op |-> "replace", memory |-> m, by |-> n]]
    BY <1>4, MakesIsIdle DEF SupersedeMemory
  <2>. QED  BY <1>1, <2>1 DEF AtWork
<1>5. ASSUME PrepareRetraction(c)
      PROVE  WorkIsKnown'
  <2>1. k.op = "retract" /\ log' = log /\ abandoned' = abandoned
        /\ call' = [call EXCEPT ![c] = ExpectsSequence(MemoryEvent("retracted", k.memory, NoMemory))]
    BY <1>5 DEF PrepareRetraction
  <2>2. ExpectsSequence(MemoryEvent("retracted", k.memory, NoMemory)).op = "send"
    BY DEF ExpectsSequence, Sending
  <2>. QED  BY <1>1, <2>1, <2>2 DEF AtWork
<1>6. ASSUME AppendReplacement(c)
      PROVE  WorkIsKnown'
  <2> DEFINE n == k.by
             m == k.memory
             e == MemoryEvent("remembered", n, m)
  <2>1. k.op = "replace" /\ n \in Memory /\ m \in Memory /\ DOMAIN k = {"op", "memory", "by"}
        /\ abandoned' = abandoned
    BY <1>6, ByOperation DEF AppendReplacement, Formed, MemoryOps, MemoryCall
  <2>2. CASE InStream(log, MemoryStream(n)) # {}
    <3>1. log' = log /\ call' = [call EXCEPT ![c] = Idle]
      BY <1>6, <2>2 DEF AppendReplacement
    <3>. QED  BY <1>1, <2>1, <3>1, IdleIsTyped DEF AtWork
  <2>3. CASE InStream(log, MemoryStream(n)) = {}
    <3>1. log' = Append(log, e) /\ call' = [call EXCEPT ![c] = [k EXCEPT !.op = "replaced"]]
      BY <1>6, <2>3 DEF AppendReplacement
    <3>2. /\ call'[c].op = "replaced" /\ call'[c].by = n /\ call'[c].memory = m
          /\ call' = [call EXCEPT ![c] = call'[c]]
      <4>1. call'[c] = [k EXCEPT !.op = "replaced"] /\ call' = [call EXCEPT ![c] = call'[c]]
        BY <3>1 DEF Formed
      <4>. QED  BY <2>1, <4>1, SMT
    <3>3. Grows(log, log', e)
      BY <1>0, <3>1, GrowsByAppend
    <3>4. /\ MemoriesAre(log') /\ (\A o : Carries(log, log', o)) /\ Replaces(log', n, m)
          /\ \A x, o : Replaces(log', x, o) => Replaces(log, x, o) \/ (x = n /\ o = m)
      <4>1. "remembered" \in MemoryTypes
        BY DEF MemoryTypes
      <4>. QED  BY <1>0, <2>3, <3>3, <4>1, WithMemory
    <3>5. Untraced(log, n)
      <4>1. SUFFICES ASSUME NEW i \in DOMAIN log, log[i].other = n,
                            log[i].type \in {"superseded", "retracted"}
                     PROVE  FALSE
        BY DEF Untraced
      <4>2. CASE log[i].type = "superseded"
        BY <1>0, <2>3, <4>1, <4>2 DEF MemoriesAre, OfType
      <4>3. CASE log[i].type = "retracted"
        <5>1. log[i].stream = MemoryStream(n)
          BY <1>0, <2>1, <4>1, <4>3, MemoryAssumption DEF MemoriesAre, OfType
        <5>. QED  BY <2>3, <4>1, <5>1 DEF InStream
      <4>. QED  BY <4>1, <4>2, <4>3
    <3>6. n # NoMemory
      BY <2>1, MemoryAssumption
    <3>7. Untraced(log', n)
      BY <3>4, <3>5, <3>6 DEF Carries
    <3>8. WorkIs(log', call'[c]) /\ ~AtWork(k) /\ AtWork(call'[c])
      <4>1. call'[c].op # "superseding"
        BY <3>2
      <4>. QED  BY <2>1, <3>2, <3>4, <3>7, <4>1 DEF WorkIs, AtWork
    <3>9. \A d \in Caller : AtWork(call[d]) => call[d].by # n /\ call[d].by # NoMemory
      BY <1>0, <2>3, MemoryAssumption
    <3>. HIDE DEF k, n, m, e
    <3>. QED  BY <2>1, <3>2, <3>4, <3>8, <3>9, WorkKept DEF k
  <2>. QED  BY <2>2, <2>3
\* The calls at work go on to their next step.
<1>7. ASSUME NEW new, call' = [call EXCEPT ![c] = new], log' = log, abandoned' = abandoned,
             AtWork(k), AtWork(new), new.by = k.by, WorkIs(log, k) => WorkIs(log, new)
      PROVE  WorkIsKnown'
  BY <1>0, <1>7, ExtendsItself, WorkGoesOn
<1>8. ASSUME PrepareSupersession(c)
      PROVE  WorkIsKnown'
  <2> DEFINE new == [op |-> "superseding", by |-> k.by,
                     event |-> MemoryEvent("superseded", k.memory, k.by),
                     expected |-> StreamLength(log, MemoryStream(k.memory)) + 1, global |-> 0]
  <2>1. k.op = "replaced" /\ log' = log /\ abandoned' = abandoned /\ call' = [call EXCEPT ![c] = new]
    BY <1>8 DEF PrepareSupersession
  <2>2. new.op = "superseding" /\ new.by = k.by /\ new.event = MemoryEvent("superseded", k.memory, k.by)
    OBVIOUS
  <2>. HIDE DEF new
  <2>3. WorkIs(log, k) => WorkIs(log, new)
    BY <2>1, <2>2 DEF WorkIs, AtWork
  <2>. QED  BY <1>7, <2>1, <2>2, <2>3 DEF AtWork
<1>9. ASSUME AtWork(k), log' = log, abandoned' = abandoned,
             call' = [call EXCEPT ![c] = [op |-> "undo", by |-> k.by]]
      PROVE  WorkIsKnown'
  <2> DEFINE new == [op |-> "undo", by |-> k.by]
  <2>1. new.op = "undo" /\ new.by = k.by
    OBVIOUS
  <2>2. call' = [call EXCEPT ![c] = new]
    BY <1>9
  <2>. HIDE DEF new
  <2>3. WorkIs(log, k) => WorkIs(log, new)
    BY <1>9, <2>1 DEF WorkIs, AtWork
  <2>. QED  BY <1>7, <1>9, <2>1, <2>2, <2>3 DEF AtWork
<1>10. ASSUME PrepareUndo(c)
       PROVE  WorkIsKnown'
  <2> DEFINE new == [op |-> "undoing", by |-> k.by,
                     event |-> MemoryEvent("retracted", k.by, k.by),
                     expected |-> StreamLength(log, MemoryStream(k.by)) + 1, global |-> 0]
  <2>1. k.op = "undo" /\ log' = log /\ abandoned' = abandoned /\ call' = [call EXCEPT ![c] = new]
    BY <1>10 DEF PrepareUndo
  <2>2. new.op = "undoing" /\ new.by = k.by
    OBVIOUS
  <2>. HIDE DEF new
  <2>3. WorkIs(log, k) => WorkIs(log, new)
    BY <2>1, <2>2 DEF WorkIs, AtWork
  <2>. QED  BY <1>7, <2>1, <2>2, <2>3 DEF AtWork
<1>11. ASSUME AppendSupersession(c)
       PROVE  WorkIsKnown'
  <2>1. k.op = "superseding" /\ AtWork(k) /\ abandoned' = abandoned
    BY <1>11 DEF AppendSupersession, AtWork
  <2>2. CASE log' = Append(log, k.event) /\ call' = [call EXCEPT ![c] = Idle]
    <3>1. PICK m \in Memory : Replaces(log, k.by, m) /\ k.event = MemoryEvent("superseded", m, k.by)
      BY <1>0, <2>1 DEF WorkIs
    <3> DEFINE n == k.by
    <3>2. /\ n \in Memory /\ InStream(log, MemoryStream(n)) # {}
          /\ \A j \in OfType(log, "retracted") : log[j].other # n
      BY <1>0, <2>1 DEF Untraced, OfType
    <3>3. Grows(log, log', MemoryEvent("superseded", m, n))
      BY <1>0, <2>2, <3>1, GrowsByAppend
    <3>4. MemoriesAre(log') /\ Carries(log, log', n) /\ Gone(log', m)
          /\ \A x, o : Replaces(log', x, o) => Replaces(log, x, o)
      <4>1. "superseded" \in MemoryTypes /\ "superseded" # "remembered" /\ "superseded" # "retracted"
        BY DEF MemoryTypes
      <4>. QED  BY <1>0, <3>2, <3>3, <4>1, WithMemory
    <3>5. \A o \in Memory : Replaces(log, n, o) => Gone(log', o)
      BY <1>0, <3>1, <3>4, ReplacesOnce
    <3>6. call'[c] = Idle /\ ~AtWork(call'[c]) /\ call' = [call EXCEPT ![c] = call'[c]]
      BY <1>0, <2>2, IdleIsTyped DEF AtWork
    <3>7. WorkIs(log', call'[c])
      BY <3>6 DEF WorkIs
    <3>8. \A d \in Caller : d # c /\ AtWork(call[d]) => call[d].by # n
      BY <1>0, <2>1
    <3>. QED  BY <2>1, <3>4, <3>5, <3>6, <3>7, <3>8, WorkKept
  <2>3. CASE log' = log /\ call' = [call EXCEPT ![c] = [op |-> "undo", by |-> k.by]]
    BY <1>9, <2>1, <2>3
  <2>. QED  BY <1>11, <2>2, <2>3 DEF AppendSupersession
<1>12. ASSUME AppendUndo(c)
       PROVE  WorkIsKnown'
  <2>1. k.op = "undoing" /\ AtWork(k) /\ call' = [call EXCEPT ![c] = Idle]
    BY <1>12 DEF AppendUndo, AtWork
  <2>2. call'[c] = Idle /\ ~AtWork(call'[c]) /\ call' = [call EXCEPT ![c] = call'[c]]
    BY <1>0, <2>1, IdleIsTyped DEF AtWork
  <2>3. CASE log' = Append(log, k.event) /\ abandoned' = abandoned
    <3> DEFINE n == k.by
    <3>1. k.event = MemoryEvent("retracted", n, n)
      BY <2>1, ByOperation DEF Formed, MemoryOps, MemoryCall
    <3>2. Grows(log, log', MemoryEvent("retracted", n, n))
      BY <1>0, <2>3, <3>1, GrowsByAppend
    <3>3. \A j \in OfType(log, "superseded") : log[j].other # n
      BY <1>0, <2>1 DEF Untraced, OfType
    <3>4. MemoriesAre(log') /\ Carries(log, log', n) /\ Gone(log', n)
          /\ \A x, o : Replaces(log', x, o) => Replaces(log, x, o)
      <4>1. "retracted" \in MemoryTypes /\ "retracted" # "remembered" /\ "retracted" # "superseded"
        BY DEF MemoryTypes
      <4>. QED  BY <1>0, <3>2, <3>3, <4>1, WithMemory
    <3>5. WorkIs(log', call'[c])
      BY <2>2 DEF WorkIs
    <3>6. \A d \in Caller : d # c /\ AtWork(call[d]) => call[d].by # n
      BY <1>0, <2>1
    <3>. QED  BY <2>2, <2>3, <3>4, <3>5, <3>6, WorkKept
  <2>4. CASE log' = log /\ abandoned' = abandoned \union {k.by}
    BY <1>0, <2>2, <2>4, ExtendsItself, WorkGoesOn
  <2>. QED  BY <1>12, <2>3, <2>4 DEF AppendUndo
<1>. QED  BY <1>2, <1>3, <1>4, <1>5, <1>6, <1>8, <1>10, <1>11, <1>12 DEF MemoryNext

LEMMA SentMemoryWorks ==
    ASSUME Formed, WorkIsKnown, NEW c \in Caller, Send(c), UNCHANGED abandoned
    PROVE  WorkIsKnown'
<1> DEFINE k == call[c]
           e == k.event
<1>0. /\ IsLedger(log) /\ MemoriesAre(log) /\ SendCall(k)
      /\ call'[c] = Idle /\ call' = [call EXCEPT ![c] = call'[c]]
      /\ ~AtWork(k) /\ ~AtWork(call'[c]) /\ abandoned' = abandoned
  <2>1. SendCall(k) /\ call' = [call EXCEPT ![c] = Idle] /\ call'[c] = Idle
    BY SendIs
  <2>. QED  BY <2>1, IdleIsTyped DEF SendCall, AtWork, Formed, WorkIsKnown
<1>1. CASE log' = log
  BY <1>0, <1>1, ExtendsItself, WorkGoesOn
<1>2. CASE Holds(c) /\ Grows(log, log', e)
  <2>1. Extends(log, log') /\ Since(log, log') = {Len(log')} /\ log'[Len(log')] = e
    BY <1>2, GrowthExtends
  <2>2. CASE e.type \notin MemoryTypes
    BY <1>0, <2>1, <2>2, WorkGoesOn
  <2>3. CASE e.type \in MemoryTypes
    <3>1. /\ e.other = NoMemory /\ e.type # "superseded"
          /\ e.type = "remembered" => k.expected = 1
      BY <1>0, <2>3 DEF SendCall
    <3>2. PICK x \in Memory, o \in Memory \union {NoMemory} : e = MemoryEvent(e.type, x, o)
      <4>1. WellFormed(e)
        BY <1>0 DEF SendCall
      <4>. QED  BY <2>3, <4>1 DEF WellFormed, MemoryTypes, Kind, ServiceTypes
    <3>3. o = NoMemory
      BY <3>1, <3>2, MemoryEventIs
    <3>4. e.stream = MemoryStream(x)
      BY <3>2, MemoryEventIs
    <3>5. e.type = "remembered" => InStream(log, MemoryStream(x)) = {}
      <4>1. StreamLength(log, MemoryStream(x)) \in Nat
            /\ (StreamLength(log, MemoryStream(x)) = 0 <=> InStream(log, MemoryStream(x)) = {})
        BY <1>0, StreamIsFinite
      <4>2. k.expected \in {0, StreamLength(log, MemoryStream(x)) + 1}
        BY <1>2, <3>4 DEF Holds
      <4>. QED  BY <3>1, <4>1, <4>2
    <3>6. /\ MemoriesAre(log') /\ (e.type # "remembered" => Carries(log, log', NoMemory))
          /\ e.type = "remembered" => (\A n : Carries(log, log', n))
          /\ \A n, m : Replaces(log', n, m) => Replaces(log, n, m) \/ m = NoMemory
      <4>1. e = MemoryEvent(e.type, x, NoMemory)
        BY <3>2, <3>3
      <4>2. e.type = "retracted" => NoMemory = NoMemory
        OBVIOUS
      <4>3. Grows(log, log', e)
        BY <1>2
      <4>. HIDE DEF e
      <4>. QED  BY <1>0, <2>3, <3>1, <3>5, <4>1, <4>3, WithMemory
    <3>7. Carries(log, log', NoMemory)
      BY <3>6
    <3>8. \A d \in Caller : AtWork(call[d]) => call[d].by # NoMemory
      BY MemoryAssumption DEF WorkIsKnown, WorkIs
    <3>9. WorkIs(log', call'[c])
      BY <1>0 DEF WorkIs
    <3>10. \A n, m \in Memory : Replaces(log', n, m) => Replaces(log, n, m)
      BY <3>6, MemoryAssumption
    <3>. QED  BY <1>0, <3>6, <3>7, <3>8, <3>9, <3>10, WorkKept
  <2>. QED  BY <2>2, <2>3
<1>. QED  BY <1>1, <1>2, SendIs

LEMMA WorkIsKept ==
    ASSUME Formed, WorkIsKnown, NEW c \in Caller, CallSteps(c)
    PROVE  WorkIsKnown'
<1>1. CASE DieWithMemory(c)
  <2>1. /\ call'[c] = Idle /\ call' = [call EXCEPT ![c] = call'[c]] /\ log' = log
        /\ Extends(log, log') /\ Since(log, log') = {}
    BY <1>1, DieIs, ExtendsItself DEF DieWithMemory, Formed
  <2>2. ~AtWork(call'[c])
    BY <2>1, IdleIsTyped DEF AtWork
  <2>3. abandoned \subseteq abandoned' /\ (AtWork(call[c]) => call[c].by \in abandoned')
    BY <1>1 DEF DieWithMemory, AtWork
  <2>. QED  BY <2>1, <2>2, <2>3, WorkGoesOn
<1>2. CASE Beside(c, MemoryTypes, MemoryOps) /\ UNCHANGED abandoned
  <2>1. ~AtWork(call[c]) /\ ~AtWork(call'[c])
    BY <1>2 DEF Beside, AtWork, MemoryOps
  <2>. QED  BY <1>2, <2>1, WorkGoesOn DEF Beside
<1>. QED  BY <1>1, <1>2, MemorySteps, MemoryWorks, SentMemoryWorks

\* What is gone is not active.
LEMMA GoneIsInactive ==
    ASSUME NEW s, IsLedger(s), MemoriesAre(s), NEW m, Gone(s, m)
    PROVE  ~IsActiveMemory(s, m)
<1>1. PICK i \in InStream(s, MemoryStream(m)) : s[i].type # "remembered"
  BY DEF Gone
<1>2. SUFFICES ASSUME NEW j \in Latest(InStream(s, MemoryStream(m))), s[j].type = "remembered"
               PROVE  FALSE
  BY DEF IsActiveMemory, StateIs
<1>3. j \in InStream(s, MemoryStream(m)) /\ i <= j
  BY <1>1, <1>2 DEF Latest
<1>4. j \in First(InStream(s, MemoryStream(m)))
  <2>1. j \in OfType(s, "remembered") /\ s[j].stream = MemoryStream(m)
    BY <1>2, <1>3 DEF OfType, InStream
  <2>. QED  BY <2>1 DEF MemoriesAre
<1>5. j <= i
  BY <1>1, <1>4 DEF First
<1>6. i \in 1..Len(s) /\ j \in 1..Len(s) /\ Len(s) \in Nat
  BY <1>1, <1>3, LedgerFacts DEF InStream
<1>. QED  BY <1>1, <1>2, <1>3, <1>5, <1>6

\* A memory and its replacement are both active only while somebody is at work on
\* them or the operator knows, and a replacement that was taken back superseded
\* nothing: of the two appends and the compensation none is lost on the way,
\* whoever appends between them.
THEOREM SupersessionStaysWhole == Spec => []SupersessionIsWhole
<1>1. Init => WorkIsKnown
  <2>1. SUFFICES ASSUME Init PROVE WorkIsKnown
    OBVIOUS
  <2>2. Formed /\ StartLedger(log) /\ call = [c \in Caller |-> Idle]
    BY <2>1, StartsFormed
  <2>3. /\ \A i \in DOMAIN log : log[i].type \in MemoryTypes => log[i].other = NoMemory
        /\ \A i \in DOMAIN log : log[i].type # "superseded"
        /\ \A i \in OfType(log, "remembered") : i \in First(InStream(log, log[i].stream))
    BY <2>2 DEF StartLedger
  <2>4. MemoriesAre(log)
    BY <2>3 DEF MemoriesAre, OfType, MemoryTypes
  <2>5. \A c \in Caller : ~AtWork(call[c])
    BY <2>2, IdleIsTyped DEF AtWork
  <2>6. \A n, m \in Memory : ~Replaces(log, n, m)
    BY <2>3, MemoryAssumption DEF Replaces, InStream, MemoryTypes
  <2>. QED  BY <2>4, <2>5, <2>6 DEF WorkIsKnown, WorkIs
<1>2. Formed /\ WorkIsKnown /\ [Next]_vars => WorkIsKnown'
  <2>1. ASSUME Formed, WorkIsKnown, NEW c \in Caller, CallSteps(c) PROVE WorkIsKnown'
    BY <2>1, WorkIsKept
  <2>2. ASSUME WorkIsKnown, UNCHANGED vars PROVE WorkIsKnown'
    BY <2>2 DEF vars, recordVars, WorkIsKnown
  <2>. QED  BY <2>1, <2>2 DEF Next
<1>3. Formed /\ WorkIsKnown => SupersessionIsWhole
  <2>1. SUFFICES ASSUME Formed, WorkIsKnown PROVE SupersessionIsWhole
    OBVIOUS
  <2>2. IsLedger(log) /\ MemoriesAre(log)
    BY <2>1 DEF Formed, WorkIsKnown
  <2>3. ReplacedIsGone
    <3>1. SUFFICES ASSUME NEW m \in Memory, NEW n \in Memory, n \in Replacements(m),
                          IsActiveMemory(log, n), IsActiveMemory(log, m)
                   PROVE  n \in InHand \union abandoned
      BY DEF ReplacedIsGone
    <3>2. Replaces(log, n, m)
      BY <3>1 DEF Replacements, Replaces
    <3>3. ~Gone(log, m) /\ ~Gone(log, n)
      BY <2>2, <3>1, GoneIsInactive
    <3>4. n \in abandoned \/ \E c \in Caller : AtWork(call[c]) /\ call[c].by = n
      BY <2>1, <3>2, <3>3 DEF WorkIsKnown
    <3>. QED  BY <3>4 DEF InHand, AtWork
  <2>4. UndoneLeavesNoTrace
    <3>1. SUFFICES ASSUME NEW i \in DOMAIN log, NEW j \in DOMAIN log,
                          log[i].type = "superseded", log[j].type = "retracted",
                          log[j].stream = MemoryStream(log[i].other), log[j].other # NoMemory
                   PROVE  FALSE
      BY DEF UndoneLeavesNoTrace
    <3>2. log[j].stream = MemoryStream(log[j].other) /\ log[j].other # log[i].other
      BY <2>2, <3>1 DEF MemoriesAre, OfType
    <3>. QED  BY <3>1, <3>2, StreamsApart
  <2>. QED  BY <2>3, <2>4 DEF SupersessionIsWhole
<1>. QED  BY <1>1, <1>2, <1>3, AlwaysFormed, PTL DEF Spec

----------------------------------------------------------------------------
(* Correspondence: the history of a request.                               *)

InTurn(before, r, type) ==
    /\ type \in Kind => Exists(before, r, "created")
    /\ type = "followup" => Sent(before, r) # {} /\ ~Exists(before, r, "closed")

HistoryIs(s) ==
    \A r \in Request :
        /\ \A i, j \in Sent(s, r) : i = j
        /\ \A l \in Letter : \A i, j \in Recorded(s, r, l) : i = j
        /\ \A i \in InStream(s, r) : InTurn(Prefix(s, i - 1), r, s[i].type)

\* A letter that waits to be recorded may be, if its stream is what it was.
RecordsAreDue ==
    \A c \in Caller : call[c].op = "send" /\ call[c].event.type \in Kind =>
        LET e == call[c].event IN
        /\ call[c].expected \in 1..(StreamLength(log, e.stream) + 1)
        /\ call[c].expected = StreamLength(log, e.stream) + 1 =>
            CanSend(log, e.stream, e.letter, e.type)

LEMMA NoneBeforeSent ==
    ASSUME NEW s, IsLedger(s), HistoryIs(s), NEW r \in Request, Sent(s, r) = {}, NEW l
    PROVE  Recorded(s, r, l) = {}
<1>1. SUFFICES ASSUME NEW i \in Recorded(s, r, l) PROVE FALSE
  OBVIOUS
<1>2. i \in InStream(s, r) /\ s[i].type \in Kind /\ i \in 1..Len(s) /\ Len(s) \in Nat
  BY <1>1, LedgerFacts DEF Recorded, InStream
<1>3. s[i].type = "followup"
  BY <1>2 DEF Sent, Kind
<1>4. Sent(Prefix(s, i - 1), r) # {}
  BY <1>2, <1>3 DEF HistoryIs, InTurn
<1>5. PICK j \in Sent(Prefix(s, i - 1), r) : TRUE
  BY <1>4
<1>6. i - 1 \in 0..Len(s)
  BY <1>2
<1>7. /\ DOMAIN Prefix(s, i - 1) = 1..(i - 1)
      /\ \A n \in 1..(i - 1) : Prefix(s, i - 1)[n] = s[n]
  BY <1>6, PrefixFacts
<1>8. j \in 1..(i - 1) /\ Prefix(s, i - 1)[j].stream = r /\ Prefix(s, i - 1)[j].type = "sent"
  BY <1>5, <1>7 DEF Sent, InStream
<1>9. j \in DOMAIN s /\ s[j].stream = r /\ s[j].type = "sent"
  BY <1>2, <1>7, <1>8, LedgerFacts
<1>. QED  BY <1>9 DEF Sent, InStream

\* What was in turn stays so.
LEMMA TurnsStay ==
    ASSUME NEW s, NEW t, Extends(s, t), HistoryIs(s), NEW r \in Request, NEW i \in InStream(s, r)
    PROVE  InTurn(Prefix(t, i - 1), r, t[i].type)
<1>1. i \in 1..Len(s) /\ Len(s) \in Nat /\ t[i] = s[i]
  BY InStreamExtends DEF Extends, IsLedger
<1>2. i - 1 \in 0..Len(s)
  BY <1>1
<1>3. Prefix(t, i - 1) = Prefix(s, i - 1)
  BY <1>2, PrefixesStay
<1>. QED  BY <1>1, <1>3 DEF HistoryIs

LEMMA HistoryKept ==
    ASSUME NEW s, NEW t, Extends(s, t), HistoryIs(s), \A i \in Since(s, t) : t[i].type \notin Kind
    PROVE  HistoryIs(t)
<1>1. SUFFICES ASSUME NEW r \in Request
               PROVE  /\ \A i, j \in Sent(t, r) : i = j
                      /\ \A l \in Letter : \A i, j \in Recorded(t, r, l) : i = j
                      /\ \A i \in InStream(t, r) : InTurn(Prefix(t, i - 1), r, t[i].type)
  BY DEF HistoryIs
<1>2. \A i \in InStream(t, r) : t[i].type \in Kind => i \in InStream(s, r) /\ t[i] = s[i]
  BY InStreamExtends
<1>3. \A i \in Sent(t, r) : i \in Sent(s, r)
  BY <1>2 DEF Sent, Kind
<1>4. \A l \in Letter : \A i \in Recorded(t, r, l) : i \in Recorded(s, r, l)
  BY <1>2 DEF Recorded
<1>5. ASSUME NEW i \in InStream(t, r)
      PROVE  InTurn(Prefix(t, i - 1), r, t[i].type)
  <2>1. CASE t[i].type \in Kind
    BY <1>2, <1>5, <2>1, TurnsStay
  <2>2. CASE t[i].type \notin Kind
    BY <2>2 DEF InTurn, Kind
  <2>. QED  BY <2>1, <2>2
<1>. QED  BY <1>3, <1>4, <1>5 DEF HistoryIs

LEMMA HistoryGrows ==
    ASSUME NEW s, NEW t, NEW e, Grows(s, t, e), HistoryIs(s), e.stream \in Request,
           e.type \in Kind, e.letter \in Letter, CanSend(s, e.stream, e.letter, e.type)
    PROVE  HistoryIs(t)
<1>0. /\ Extends(s, t) /\ IsLedger(s) /\ Len(s) \in Nat /\ t[Len(t)] = e /\ Len(t) = Len(s) + 1
      /\ Prefix(t, Len(t) - 1) = s
  <2>1. Extends(s, t) /\ IsLedger(s) /\ Len(s) \in Nat /\ t[Len(t)] = e /\ Len(t) = Len(s) + 1
    BY GrowthExtends, LedgerFacts DEF Grows, Extends
  <2>2. Len(t) - 1 = Len(s) /\ Len(s) \in 0..Len(s)
    BY <2>1
  <2>3. Prefix(t, Len(s)) = Prefix(s, Len(s)) /\ Prefix(s, Len(s)) = s
    BY <2>1, <2>2, PrefixesStay, LedgerFacts
  <2>. QED  BY <2>1, <2>2, <2>3
<1>1. SUFFICES ASSUME NEW r \in Request
               PROVE  /\ \A i, j \in Sent(t, r) : i = j
                      /\ \A l \in Letter : \A i, j \in Recorded(t, r, l) : i = j
                      /\ \A i \in InStream(t, r) : InTurn(Prefix(t, i - 1), r, t[i].type)
  BY DEF HistoryIs
<1>2. \A i : /\ i \in InStream(s, r) => i # Len(t) /\ t[i] = s[i]
             /\ i \in InStream(t, r) <=> i \in InStream(s, r) \/ (i = Len(t) /\ e.stream = r)
  BY InStreamGrows
<1>3. /\ e.type = "sent" => CanBeSent(s, e.stream)
      /\ e.type # "sent" => CanReceiveFollowUp(s, e.stream, e.letter)
  BY DEF CanSend
<1>4. e.type = "sent" => Sent(s, e.stream) = {}
  BY <1>3 DEF CanBeSent
<1>5. Recorded(s, e.stream, e.letter) = {}
  BY <1>0, <1>3, <1>4, NoneBeforeSent DEF CanReceiveFollowUp
<1>6. \A i : i \in Sent(t, r) => i \in Sent(s, r) \/ (i = Len(t) /\ e.stream = r /\ e.type = "sent")
  BY <1>0, <1>2 DEF Sent
<1>7. \A l : \A i : i \in Recorded(t, r, l) =>
        i \in Recorded(s, r, l) \/ (i = Len(t) /\ e.stream = r /\ e.letter = l)
  BY <1>0, <1>2 DEF Recorded
<1>8. \A i, j \in Sent(t, r) : i = j
  BY <1>4, <1>6 DEF HistoryIs
<1>9. \A l \in Letter : \A i, j \in Recorded(t, r, l) : i = j
  BY <1>5, <1>7 DEF HistoryIs
<1>10. ASSUME NEW i \in InStream(t, r)
       PROVE  InTurn(Prefix(t, i - 1), r, t[i].type)
  <2>1. CASE i \in InStream(s, r)
    BY <1>0, <2>1, TurnsStay
  <2>2. CASE i = Len(t) /\ e.stream = r
    <3>1. Exists(s, r, "created")
      BY <1>3, <2>2 DEF CanBeSent, CanReceiveFollowUp
    <3>2. e.type = "followup" => Sent(s, r) # {} /\ ~Exists(s, r, "closed")
      BY <1>3, <2>2 DEF CanReceiveFollowUp
    <3>. QED  BY <1>0, <2>2, <3>1, <3>2 DEF InTurn
  <2>. QED  BY <1>2, <1>10, <2>1, <2>2
<1>. QED  BY <1>8, <1>9, <1>10

\* What may be sent depends on the stream of the request.
LEMMA StreamDecides ==
    ASSUME NEW s, NEW t, Extends(s, t), NEW r, StreamLength(t, r) = StreamLength(s, r),
           NEW l, NEW kind, CanSend(s, r, l, kind)
    PROVE  CanSend(t, r, l, kind)
<1>1. \A i \in Since(s, t) : t[i].stream # r
  BY StreamsGrow
<1>2. InStream(t, r) = InStream(s, r) /\ \A i \in InStream(s, r) : t[i] = s[i]
  BY <1>1, OtherStreamsStay
<1>3. \A type : Exists(s, r, type) <=> Exists(t, r, type)
  BY <1>2 DEF Exists
<1>4. Sent(t, r) = Sent(s, r) /\ Recorded(t, r, l) = Recorded(s, r, l)
  BY <1>2 DEF Sent, Recorded
<1>. QED  BY <1>3, <1>4 DEF CanSend, CanBeSent, CanReceiveFollowUp

LEMMA DueKept ==
    ASSUME Formed, RecordsAreDue, NEW c \in Caller, Extends(log, log'),
           call' = [call EXCEPT ![c] = call'[c]],
           call'[c].op = "send" /\ call'[c].event.type \in Kind =>
                /\ log' = log /\ call'[c].expected = StreamLength(log, call'[c].event.stream) + 1
                /\ CanSend(log, call'[c].event.stream, call'[c].event.letter, call'[c].event.type)
    PROVE  RecordsAreDue'
<1>1. SUFFICES ASSUME NEW d \in Caller, call'[d].op = "send", call'[d].event.type \in Kind
               PROVE  /\ call'[d].expected \in 1..(StreamLength(log', call'[d].event.stream) + 1)
                      /\ call'[d].expected = StreamLength(log', call'[d].event.stream) + 1 =>
                            CanSend(log', call'[d].event.stream, call'[d].event.letter,
                                    call'[d].event.type)
  BY DEF RecordsAreDue
<1> DEFINE st == call'[d].event.stream
           x == StreamLength(log, st)
           y == StreamLength(log', st)
           n == call'[d].expected
<1>2. x \in Nat /\ y \in Nat /\ x <= y
  BY StreamsGrow
<1>3. CASE d = c
  <2>1. log' = log /\ n = x + 1 /\ CanSend(log, st, call'[d].event.letter, call'[d].event.type)
    BY <1>1, <1>3
  <2>2. y = x
    BY <2>1
  <2>. HIDE DEF x, y, n, st
  <2>3. n \in 1..(y + 1)
    BY <1>2, <2>1, <2>2
  <2>. QED  BY <2>1, <2>3 DEF x, y, n, st
<1>4. CASE d # c
  <2>1. call'[d] = call[d]
    BY <1>4 DEF Formed
  <2>2. /\ n \in 1..(x + 1)
        /\ n = x + 1 => CanSend(log, st, call'[d].event.letter, call'[d].event.type)
    BY <1>1, <2>1 DEF RecordsAreDue
  <2>3. y = x => (CanSend(log, st, call'[d].event.letter, call'[d].event.type) =>
                    CanSend(log', st, call'[d].event.letter, call'[d].event.type))
    BY StreamDecides
  <2>. HIDE DEF x, y, n, st
  <2>4. n \in 1..(y + 1) /\ (n = y + 1 => y = x /\ n = x + 1)
    BY <1>2, <2>2
  <2>. QED  BY <2>2, <2>3, <2>4 DEF x, y, n, st
<1>. QED  BY <1>3, <1>4

LettersInOrder == HistoryIs(log) /\ RecordsAreDue

\* A step that appends no letter, and prepares none or one that may be sent.
LEMMA OrderGoesOn ==
    ASSUME Formed, LettersInOrder, NEW c \in Caller, Extends(log, log'),
           call' = [call EXCEPT ![c] = call'[c]],
           \A i \in Since(log, log') : log'[i].type \notin Kind,
           call'[c].op = "send" /\ call'[c].event.type \in Kind =>
                /\ log' = log /\ call'[c].expected = StreamLength(log, call'[c].event.stream) + 1
                /\ CanSend(log, call'[c].event.stream, call'[c].event.letter, call'[c].event.type)
    PROVE  LettersInOrder'
<1>1. HistoryIs(log')
  BY HistoryKept DEF LettersInOrder
<1>2. RecordsAreDue'
  BY DueKept DEF LettersInOrder
<1>. QED  BY <1>1, <1>2 DEF LettersInOrder

\* The steps of a sender.
LEMMA LetterMoves ==
    ASSUME Formed, NEW c \in Caller, CorrespondenceNext(c)
    PROVE  /\ log' = log /\ call' = [call EXCEPT ![c] = call'[c]]
           /\ \/ /\ call[c] = Idle /\ UNCHANGED correspondenceVars
                 /\ \/ call'[c].op = "mail"
                    \/ call'[c].op = "send" /\ call'[c].event.type \notin Kind
              \/ /\ call[c].op = "mail" /\ call'[c].op = "mailed" /\ LetterCall(call[c])
                 /\ call'[c].request = call[c].request /\ call'[c].letter = call[c].letter
                 /\ call'[c].kind = call[c].kind
                 /\ mailed' = [mailed EXCEPT ![MailOf(c)] = @ + 1] /\ UNCHANGED unrecorded
              \/ /\ call[c].op = "mailed" /\ LetterCall(call[c]) /\ call'[c].op = "send"
                 /\ CanSend(log, call[c].request, call[c].letter, call[c].kind)
                 /\ call'[c].event.type = call[c].kind /\ call'[c].event.stream = call[c].request
                 /\ call'[c].event.letter = call[c].letter
                 /\ call'[c].expected = StreamLength(log, call[c].request) + 1
                 /\ UNCHANGED correspondenceVars
              \/ /\ call[c].op = "mailed" /\ LetterCall(call[c]) /\ call'[c] = Idle
                 /\ unrecorded' = [unrecorded EXCEPT ![MailOf(c)] = @ + 1] /\ UNCHANGED mailed
<1>0. \A k : call' = [call EXCEPT ![c] = k] =>
        call'[c] = k /\ call' = [call EXCEPT ![c] = call'[c]]
  BY DEF Formed
<1>1. call[c].op \in LetterOps => LetterCall(call[c])
  BY ByOperation DEF Formed
<1>2. ASSUME NEW r \in Request, CreateRequest(c, r)
      PROVE  /\ log' = log /\ call' = [call EXCEPT ![c] = call'[c]]
             /\ call[c] = Idle /\ UNCHANGED correspondenceVars
             /\ call'[c].op = "send" /\ call'[c].event.type \notin Kind
  <2> DEFINE e == [type |-> "created", stream |-> r]
  <2>1. e.type \notin Kind
    BY DEF Kind
  <2>2. /\ call' = [call EXCEPT ![c] = Sending(e, 1, 0)] /\ log' = log /\ call[c] = Idle
        /\ UNCHANGED correspondenceVars
    BY <1>2 DEF CreateRequest, Makes
  <2>. HIDE DEF e
  <2>. QED  BY <1>0, <2>1, <2>2 DEF Sending
<1>3. ASSUME NEW r \in Request, NEW type \in {"acknowledged", "closed"}, AgencyActs(c, r, type)
      PROVE  /\ log' = log /\ call' = [call EXCEPT ![c] = call'[c]]
             /\ call[c] = Idle /\ UNCHANGED correspondenceVars
             /\ call'[c].op = "send" /\ call'[c].event.type \notin Kind
  <2> DEFINE e == [type |-> type, stream |-> r]
  <2>1. e.type \notin Kind
    BY DEF Kind
  <2>2. /\ call' = [call EXCEPT ![c] = ExpectsNothing(e)] /\ log' = log /\ call[c] = Idle
        /\ UNCHANGED correspondenceVars
    BY <1>3 DEF AgencyActs, Makes
  <2>. HIDE DEF e
  <2>. QED  BY <1>0, <2>1, <2>2 DEF ExpectsNothing, Sending
<1>4. ASSUME NEW r \in Request, NEW l \in Letter, NEW kind \in Kind, CheckLetter(c, r, l, kind)
      PROVE  /\ log' = log /\ call' = [call EXCEPT ![c] = call'[c]]
             /\ call[c] = Idle /\ UNCHANGED correspondenceVars /\ call'[c].op = "mail"
  <2> DEFINE k == [op |-> "mail", request |-> r, letter |-> l, kind |-> kind]
  <2>1. k.op = "mail"
    OBVIOUS
  <2>2. /\ call' = [call EXCEPT ![c] = k] /\ log' = log /\ call[c] = Idle
        /\ UNCHANGED correspondenceVars
    BY <1>4 DEF CheckLetter, Makes
  <2>. HIDE DEF k
  <2>. QED  BY <1>0, <2>1, <2>2
<1>5. ASSUME MailLetter(c)
      PROVE  /\ log' = log /\ call' = [call EXCEPT ![c] = call'[c]]
             /\ call[c].op = "mail" /\ call'[c].op = "mailed" /\ LetterCall(call[c])
             /\ call'[c].request = call[c].request /\ call'[c].letter = call[c].letter
             /\ call'[c].kind = call[c].kind
             /\ mailed' = [mailed EXCEPT ![MailOf(c)] = @ + 1] /\ UNCHANGED unrecorded
  <2>1. /\ call' = [call EXCEPT ![c] = [call[c] EXCEPT !.op = "mailed"]] /\ log' = log
        /\ call[c].op = "mail" /\ UNCHANGED unrecorded
        /\ mailed' = [mailed EXCEPT ![MailOf(c)] = @ + 1]
    BY <1>5 DEF MailLetter
  <2>2. /\ call'[c] = [call[c] EXCEPT !.op = "mailed"]
        /\ call' = [call EXCEPT ![c] = call'[c]] /\ LetterCall(call[c])
    BY <1>0, <1>1, <2>1 DEF LetterOps
  <2>. QED  BY <2>1, <2>2, SMT DEF LetterCall
<1>6. ASSUME RecordLetter(c)
      PROVE  /\ log' = log /\ call' = [call EXCEPT ![c] = call'[c]]
             /\ \/ /\ call[c].op = "mailed" /\ LetterCall(call[c]) /\ call'[c].op = "send"
                   /\ CanSend(log, call[c].request, call[c].letter, call[c].kind)
                   /\ call'[c].event.type = call[c].kind
                   /\ call'[c].event.stream = call[c].request
                   /\ call'[c].event.letter = call[c].letter
                   /\ call'[c].expected = StreamLength(log, call[c].request) + 1
                   /\ UNCHANGED correspondenceVars
                \/ /\ call[c].op = "mailed" /\ LetterCall(call[c]) /\ call'[c] = Idle
                   /\ unrecorded' = [unrecorded EXCEPT ![MailOf(c)] = @ + 1] /\ UNCHANGED mailed
  <2> DEFINE k == call[c]
             e == [type |-> k.kind, stream |-> k.request, letter |-> k.letter]
  <2>1. k.op = "mailed" /\ LetterCall(k) /\ log' = log /\ mailed' = mailed
    BY <1>1, <1>6 DEF RecordLetter, LetterOps
  <2>2. CASE /\ call' = [call EXCEPT ![c] = ExpectsSequence(e)] /\ unrecorded' = unrecorded
             /\ CanSend(log, k.request, k.letter, k.kind)
    <3>1. e.type = k.kind /\ e.stream = k.request /\ e.letter = k.letter
      OBVIOUS
    <3>2. call' = [call EXCEPT ![c] = ExpectsSequence(e)] /\ unrecorded' = unrecorded
      BY <2>2
    <3>. HIDE DEF e
    <3>3. /\ call'[c] = ExpectsSequence(e) /\ call' = [call EXCEPT ![c] = call'[c]]
          /\ ExpectsSequence(e).op = "send" /\ ExpectsSequence(e).event = e
          /\ ExpectsSequence(e).expected = StreamLength(log, e.stream) + 1
      BY <1>0, <3>2 DEF ExpectsSequence, Sending
    <3>. QED  BY <2>1, <2>2, <3>1, <3>2, <3>3 DEF correspondenceVars
  <2>3. CASE /\ call' = [call EXCEPT ![c] = Idle]
             /\ unrecorded' = [unrecorded EXCEPT ![MailOf(c)] = @ + 1]
    BY <1>0, <2>1, <2>3
  <2>. QED  BY <1>6, <2>2, <2>3 DEF RecordLetter
<1>7. ASSUME MailLetter(c) \/ RecordLetter(c)
             \/ \E r \in Request :
                    \/ CreateRequest(c, r)
                    \/ \E type \in {"acknowledged", "closed"} : AgencyActs(c, r, type)
                    \/ \E l \in Letter, kind \in Kind : CheckLetter(c, r, l, kind)
      PROVE  log' = log /\ call' = [call EXCEPT ![c] = call'[c]]
  BY <1>2, <1>3, <1>4, <1>5, <1>6, <1>7
<1>. QED  BY <1>2, <1>3, <1>4, <1>5, <1>6, <1>7 DEF CorrespondenceNext

\* A letter that is recorded is one of a request.
LEMMA LetterEventIs ==
    ASSUME NEW e, WellFormed(e), e.type \in Kind
    PROVE  e.stream \in Request /\ e.letter \in Letter
BY DEF WellFormed, Kind, MemoryTypes, ServiceTypes

LEMMA OrderKept ==
    ASSUME Formed, LettersInOrder, NEW c \in Caller, CallSteps(c)
    PROVE  LettersInOrder'
<1> DEFINE k == call[c]
           e == k.event
<1>0. Extends(log, log') /\ call' = [call EXCEPT ![c] = call'[c]]
  BY StepForms DEF Beside
<1>1. log' = log => Since(log, log') = {}
  BY ExtendsItself DEF Formed
<1>2. CASE CorrespondenceNext(c)
  <2>1. /\ log' = log
        /\ call'[c].op = "send" /\ call'[c].event.type \in Kind =>
              /\ call'[c].expected = StreamLength(log, call'[c].event.stream) + 1
              /\ CanSend(log, call'[c].event.stream, call'[c].event.letter, call'[c].event.type)
    BY <1>2, LetterMoves, IdleIsTyped
  <2>. QED  BY <1>0, <1>1, <2>1, OrderGoesOn
<1>3. CASE SendLetter(c)
  <2>1. /\ k.op = "send" /\ SendCall(k) /\ call'[c] = Idle
        /\ \/ Holds(c) /\ Grows(log, log', e)
           \/ ~Holds(c) /\ log' = log
    BY <1>3, SendIs DEF SendLetter, SendCall
  <2>2. call'[c].op # "send"
    BY <2>1, IdleIsTyped
  <2>3. CASE log' = log
    BY <1>0, <1>1, <2>2, <2>3, OrderGoesOn
  <2>4. CASE Grows(log, log', e) /\ e.type \notin Kind
    <3>1. Since(log, log') = {Len(log')} /\ log'[Len(log')] = e
      BY <2>4, GrowthExtends
    <3>. QED  BY <1>0, <2>2, <2>4, <3>1, OrderGoesOn
  <2>5. CASE Holds(c) /\ Grows(log, log', e) /\ e.type \in Kind
    <3>1. e.stream \in Request /\ e.letter \in Letter
      BY <2>1, <2>5, LetterEventIs DEF SendCall
    <3>2. CanSend(log, e.stream, e.letter, e.type)
      <4>1. /\ k.expected \in 1..(StreamLength(log, e.stream) + 1)
            /\ k.expected = StreamLength(log, e.stream) + 1 =>
                  CanSend(log, e.stream, e.letter, e.type)
        BY <2>1, <2>5 DEF LettersInOrder, RecordsAreDue
      <4>2. k.expected \in {0, StreamLength(log, e.stream) + 1}
        BY <2>5 DEF Holds
      <4>3. k.expected # 0
        BY <4>1
      <4>. QED  BY <4>1, <4>2, <4>3
    <3>3. HistoryIs(log')
      BY <2>5, <3>1, <3>2, HistoryGrows DEF LettersInOrder
    <3>4. RecordsAreDue'
      BY <1>0, <2>2, DueKept DEF LettersInOrder
    <3>. QED  BY <3>3, <3>4 DEF LettersInOrder
  <2>. QED  BY <2>1, <2>3, <2>4, <2>5
<1>4. CASE DieWithLetter(c)
  <2>1. log' = log /\ call'[c].op # "send"
    BY <1>4, DieIs, IdleIsTyped DEF DieWithLetter
  <2>. QED  BY <1>0, <1>1, <2>1, OrderGoesOn
<1>5. CASE Beside(c, LetterTypes, LetterOps)
  <2>1. \A type \in Kind : type \in LetterTypes
    BY DEF Kind, LetterTypes
  <2>2. /\ \A i \in Since(log, log') : log'[i].type \notin Kind
        /\ call'[c].op = "send" => call'[c].event.type \notin Kind
    BY <1>5, <2>1 DEF Beside
  <2>. QED  BY <1>0, <2>2, OrderGoesOn
<1>. QED  BY <1>2, <1>3, <1>4, <1>5, LetterSteps

----------------------------------------------------------------------------
(* Correspondence: every copy of a letter is accounted for.                *)

Letters(s, m) == {i \in Recorded(s, m[1], m[2]) : s[i].type = m[3]}

Out(k, m) == k.op = "mailed" /\ <<k.request, k.letter, k.kind>> = m

Writes(k, m) ==
    k.op = "send" /\ k.event.type \in Kind /\ m = <<k.event.stream, k.event.letter, k.event.type>>

One(p) == IF p THEN 1 ELSE 0

Account(m) ==
    mailed[m] = Cardinality(Letters(log, m)) + Cardinality({c \in Caller : Out(call[c], m)})
                + Cardinality({c \in Caller : Writes(call[c], m)}) + unrecorded[m]

LEMMA AccountsAre ==
    CopiesAreAccountedFor <=> \A m \in Mail : Account(m)
<1>1. ASSUME NEW m \in Mail
      PROVE  /\ {c \in Caller : call[c].op = "mailed" /\ MailOf(c) = m} = {c \in Caller : Out(call[c], m)}
             /\ {c \in Caller : m \in Recording(c)} = {c \in Caller : Writes(call[c], m)}
             /\ {i \in Recorded(log, m[1], m[2]) : log[i].type = m[3]} = Letters(log, m)
  BY DEF Out, MailOf, Writes, Recording, Letters
<1>. QED  BY <1>1 DEF CopiesAreAccountedFor, Account

\* Two sets of callers that agree but on c.
LEMMA Tally ==
    ASSUME NEW S \in SUBSET Caller, NEW T \in SUBSET Caller, NEW c \in Caller,
           \A d \in Caller : d # c => (d \in S <=> d \in T)
    PROVE  /\ Cardinality(S) \in Nat /\ Cardinality(T) \in Nat
           /\ Cardinality(T) + One(c \in S) = Cardinality(S) + One(c \in T)
<1>1. IsFiniteSet(S) /\ IsFiniteSet(T)
  BY WorkspaceAssumption, FS_Subset
<1>2. Cardinality(S) \in Nat /\ Cardinality(T) \in Nat
  BY <1>1, FS_CardinalityType
<1>3. CASE c \in S <=> c \in T
  <2>1. S = T
    BY <1>3
  <2>. QED  BY <1>2, <2>1 DEF One
<1>4. CASE c \in S /\ c \notin T
  <2>1. S = T \union {c}
    BY <1>4
  <2>2. Cardinality(S) = Cardinality(T) + 1
    BY <1>1, <1>4, <2>1, FS_AddElement
  <2>. QED  BY <1>2, <1>4, <2>2 DEF One
<1>5. CASE c \notin S /\ c \in T
  <2>1. T = S \union {c}
    BY <1>5
  <2>2. Cardinality(T) = Cardinality(S) + 1
    BY <1>1, <1>5, <2>1, FS_AddElement
  <2>. QED  BY <1>2, <1>5, <2>2 DEF One
<1>. QED  BY <1>3, <1>4, <1>5

LEMMA LettersAreFinite ==
    ASSUME NEW s, IsLedger(s), NEW m
    PROVE  IsFiniteSet(Letters(s, m)) /\ Cardinality(Letters(s, m)) \in Nat
<1>1. Letters(s, m) \subseteq InStream(s, m[1])
  BY DEF Letters, Recorded
<1>. QED  BY <1>1, StreamIsFinite, FS_Subset, FS_CardinalityType

LEMMA SameLetters ==
    ASSUME NEW s, NEW t, Extends(s, t), \A i \in Since(s, t) : t[i].type \notin Kind, NEW m
    PROVE  Letters(t, m) = Letters(s, m)
<1>1. \A i : i \in Letters(t, m) => i \in Letters(s, m)
  BY InStreamExtends DEF Letters, Recorded
<1>2. \A i : i \in Letters(s, m) => i \in Letters(t, m)
  BY InStreamExtends DEF Letters, Recorded
<1>. QED  BY <1>1, <1>2

LEMMA OneMoreLetter ==
    ASSUME NEW s, NEW t, NEW e, Grows(s, t, e), e.type \in Kind, NEW m \in Mail
    PROVE  Cardinality(Letters(t, m)) =
                Cardinality(Letters(s, m)) + One(m = <<e.stream, e.letter, e.type>>)
<1>1. IsLedger(s) /\ Extends(s, t) /\ t[Len(t)] = e
  BY GrowthExtends DEF Grows
<1>2. \A i : /\ i \in InStream(s, m[1]) => i # Len(t) /\ t[i] = s[i]
             /\ i \in InStream(t, m[1]) <=> i \in InStream(s, m[1]) \/ (i = Len(t) /\ e.stream = m[1])
  BY InStreamGrows
<1>3. (m = <<e.stream, e.letter, e.type>>) <=>
        e.stream = m[1] /\ e.letter = m[2] /\ e.type = m[3]
  BY DEF Mail
<1>4. \A i : i \in Letters(t, m) <=>
        i \in Letters(s, m) \/ (i = Len(t) /\ m = <<e.stream, e.letter, e.type>>)
  BY <1>1, <1>2, <1>3 DEF Letters, Recorded
<1>5. Len(t) \notin Letters(s, m)
  BY <1>2 DEF Letters, Recorded
<1>6. IsFiniteSet(Letters(s, m)) /\ Cardinality(Letters(s, m)) \in Nat
  BY <1>1, LettersAreFinite
<1>7. CASE m = <<e.stream, e.letter, e.type>>
  <2>1. Letters(t, m) = Letters(s, m) \union {Len(t)}
    BY <1>4, <1>7
  <2>2. Cardinality(Letters(t, m)) = Cardinality(Letters(s, m)) + 1
    BY <1>5, <1>6, <2>1, FS_AddElement
  <2>. QED  BY <1>7, <2>2 DEF One
<1>8. CASE m # <<e.stream, e.letter, e.type>>
  <2>1. Letters(t, m) = Letters(s, m)
    BY <1>4, <1>8
  <2>. QED  BY <1>6, <1>8, <2>1 DEF One
<1>. QED  BY <1>7, <1>8

\* An account stays balanced when what c had and has in hand, what it recorded
\* and what it lost make up for what went out.
LEMMA AccountKept ==
    ASSUME Formed, NEW c \in Caller, call' = [call EXCEPT ![c] = call'[c]],
           NEW m \in Mail, Account(m), NEW p \in {0, 1}, NEW gone \in {0, 1}, NEW lost \in {0, 1},
           mailed[m] \in Nat, unrecorded[m] \in Nat,
           mailed'[m] = mailed[m] + gone, unrecorded'[m] = unrecorded[m] + lost,
           Cardinality(Letters(log', m)) = Cardinality(Letters(log, m)) + p,
           gone + One(Out(call[c], m)) + One(Writes(call[c], m)) =
               p + One(Out(call'[c], m)) + One(Writes(call'[c], m)) + lost
    PROVE  Account(m)'
<1> DEFINE S == {d \in Caller : Out(call[d], m)}
           T == {d \in Caller : Out(call'[d], m)}
           U == {d \in Caller : Writes(call[d], m)}
           V == {d \in Caller : Writes(call'[d], m)}
           x == Cardinality(Letters(log, m))
           y == Cardinality(Letters(log', m))
<1>1. \A d \in Caller : d # c => call'[d] = call[d]
  BY DEF Formed
<1>2. /\ Cardinality(S) \in Nat /\ Cardinality(T) \in Nat
      /\ Cardinality(T) + One(c \in S) = Cardinality(S) + One(c \in T)
  <2>1. S \in SUBSET Caller /\ T \in SUBSET Caller
    OBVIOUS
  <2>2. \A d \in Caller : d # c => (d \in S <=> d \in T)
    BY <1>1
  <2>. HIDE DEF S, T
  <2>. QED  BY <2>1, <2>2, Tally
<1>3. /\ Cardinality(U) \in Nat /\ Cardinality(V) \in Nat
      /\ Cardinality(V) + One(c \in U) = Cardinality(U) + One(c \in V)
  <2>1. U \in SUBSET Caller /\ V \in SUBSET Caller
    OBVIOUS
  <2>2. \A d \in Caller : d # c => (d \in U <=> d \in V)
    BY <1>1
  <2>. HIDE DEF U, V
  <2>. QED  BY <2>1, <2>2, Tally
<1>4. /\ One(c \in S) = One(Out(call[c], m)) /\ One(c \in T) = One(Out(call'[c], m))
      /\ One(c \in U) = One(Writes(call[c], m)) /\ One(c \in V) = One(Writes(call'[c], m))
  BY DEF One
<1>5. x \in Nat /\ y = x + p
  BY LettersAreFinite DEF Formed
<1>6. mailed[m] = x + Cardinality(S) + Cardinality(U) + unrecorded[m]
  BY DEF Account
<1>7. \A q : One(q) \in {0, 1}
  BY DEF One
<1> DEFINE s1 == Cardinality(S)
           t1 == Cardinality(T)
           u1 == Cardinality(U)
           v1 == Cardinality(V)
           os == One(Out(call[c], m))
           ot == One(Out(call'[c], m))
           ou == One(Writes(call[c], m))
           ov == One(Writes(call'[c], m))
<1>8. /\ t1 + os = s1 + ot /\ v1 + ou = u1 + ov /\ gone + os + ou = p + ot + ov + lost
      /\ mailed[m] = x + s1 + u1 + unrecorded[m]
      /\ s1 \in Nat /\ t1 \in Nat /\ u1 \in Nat /\ v1 \in Nat
      /\ os \in Nat /\ ot \in Nat /\ ou \in Nat /\ ov \in Nat
  BY <1>2, <1>3, <1>4, <1>6, <1>7
<1> DEFINE goal == mailed'[m] = y + t1 + v1 + unrecorded'[m]
<1>9. goal
  <2>. HIDE DEF s1, t1, u1, v1, os, ot, ou, ov, x, y
  <2>. QED  BY <1>5, <1>8
<1>. QED  BY <1>9 DEF Account

LEMMA AccountsKept ==
    ASSUME Formed, Counted, \A m \in Mail : Account(m), NEW c \in Caller, CallSteps(c), NEW m \in Mail
    PROVE  Account(m)'
<1> DEFINE k == call[c]
           e == k.event
<1>0. /\ IsLedger(log) /\ Extends(log, log') /\ call' = [call EXCEPT ![c] = call'[c]]
      /\ mailed[m] \in Nat /\ unrecorded[m] \in Nat /\ Account(m)
      /\ mailed[m] + 0 = mailed[m] /\ unrecorded[m] + 0 = unrecorded[m]
  BY StepForms DEF Beside, Counted, Formed
<1>1. ASSUME \A i \in Since(log, log') : log'[i].type \notin Kind
      PROVE  Cardinality(Letters(log', m)) = Cardinality(Letters(log, m)) + 0
  <2>1. Letters(log', m) = Letters(log, m)
    BY <1>0, <1>1, SameLetters
  <2>2. Cardinality(Letters(log, m)) \in Nat
    BY <1>0, LettersAreFinite
  <2>. QED  BY <2>1, <2>2
<1>2. log' = log => \A i \in Since(log, log') : log'[i].type \notin Kind
  BY <1>0, ExtendsItself
<1>3. \A j : /\ j.op # "mailed" => One(Out(j, m)) = 0
             /\ j.op # "send" => One(Writes(j, m)) = 0
             /\ j.op = "send" /\ j.event.type \notin Kind => One(Writes(j, m)) = 0
  BY DEF One, Out, Writes
<1>4. ASSUME UNCHANGED correspondenceVars, \A i \in Since(log, log') : log'[i].type \notin Kind,
             One(Out(k, m)) + One(Writes(k, m)) = One(Out(call'[c], m)) + One(Writes(call'[c], m))
      PROVE  Account(m)'
  <2>1. mailed' = mailed /\ unrecorded' = unrecorded
    BY <1>4 DEF correspondenceVars
  <2>2. \A q : One(q) \in Nat
    BY DEF One
  <2>3. 0 + One(Out(k, m)) + One(Writes(k, m))
            = 0 + One(Out(call'[c], m)) + One(Writes(call'[c], m)) + 0
    <3>1. \A a, b, x, y \in Nat : a + b = x + y => 0 + a + b = 0 + x + y + 0
      OBVIOUS
    <3>. QED  BY <1>4, <2>2, <3>1
  <2>4. Cardinality(Letters(log', m)) = Cardinality(Letters(log, m)) + 0
    BY <1>1, <1>4
  <2>5. mailed'[m] = mailed[m] + 0 /\ unrecorded'[m] = unrecorded[m] + 0
    BY <1>0, <2>1
  <2>. HIDE DEF k
  <2>. QED  BY <1>0, <2>3, <2>4, <2>5, AccountKept DEF k
\* The change of one count of deliveries.
<1>5. /\ LetterCall(k) => MailOf(c) \in Mail /\ MailOf(c) = <<k.request, k.letter, k.kind>>
      /\ mailed' = [mailed EXCEPT ![MailOf(c)] = @ + 1] /\ LetterCall(k) =>
            mailed'[m] = mailed[m] + One(MailOf(c) = m)
      /\ unrecorded' = [unrecorded EXCEPT ![MailOf(c)] = @ + 1] /\ LetterCall(k) =>
            unrecorded'[m] = unrecorded[m] + One(MailOf(c) = m)
  <2>1. LetterCall(k) => MailOf(c) \in Mail /\ MailOf(c) = <<k.request, k.letter, k.kind>>
    BY DEF LetterCall, MailOf, Mail
  <2>. QED  BY <1>0, <2>1 DEF One, Counted
<1>6. CASE CorrespondenceNext(c)
  <2>0. log' = log
    BY <1>6, LetterMoves
  <2>1. CASE /\ k = Idle /\ UNCHANGED correspondenceVars
             /\ \/ call'[c].op = "mail"
                \/ call'[c].op = "send" /\ call'[c].event.type \notin Kind
    BY <1>2, <1>3, <1>4, <2>0, <2>1, IdleIsTyped
  <2>2. CASE /\ k.op = "mail" /\ call'[c].op = "mailed" /\ LetterCall(k)
             /\ call'[c].request = k.request /\ call'[c].letter = k.letter /\ call'[c].kind = k.kind
             /\ mailed' = [mailed EXCEPT ![MailOf(c)] = @ + 1] /\ UNCHANGED unrecorded
    <3>1. One(Out(call'[c], m)) = One(MailOf(c) = m) /\ One(Writes(call'[c], m)) = 0
          /\ One(Out(k, m)) = 0 /\ One(Writes(k, m)) = 0
      BY <1>3, <1>5, <2>2 DEF One, Out
    <3>2. One(MailOf(c) = m) \in {0, 1}
      BY DEF One
    <3>3. One(MailOf(c) = m) + One(Out(k, m)) + One(Writes(k, m))
            = 0 + One(Out(call'[c], m)) + One(Writes(call'[c], m)) + 0
      BY <3>1, <3>2
    <3>4. mailed'[m] = mailed[m] + One(MailOf(c) = m) /\ unrecorded'[m] = unrecorded[m] + 0
      BY <1>0, <1>5, <2>2
    <3>5. Cardinality(Letters(log', m)) = Cardinality(Letters(log, m)) + 0
      BY <1>1, <1>2, <2>0
    <3>. HIDE DEF k
    <3>. QED  BY <1>0, <3>2, <3>3, <3>4, <3>5, AccountKept DEF k
  <2>3. CASE /\ k.op = "mailed" /\ LetterCall(k) /\ call'[c].op = "send"
             /\ call'[c].event.type = k.kind /\ call'[c].event.stream = k.request
             /\ call'[c].event.letter = k.letter /\ UNCHANGED correspondenceVars
    <3>1. One(Out(k, m)) = One(MailOf(c) = m) /\ One(Writes(k, m)) = 0
          /\ One(Out(call'[c], m)) = 0 /\ One(Writes(call'[c], m)) = One(MailOf(c) = m)
      <4>1. k.kind \in Kind
        BY <2>3 DEF LetterCall
      <4>2. Out(k, m) <=> MailOf(c) = m
        BY <1>5, <2>3 DEF Out
      <4>3. Writes(call'[c], m) <=> MailOf(c) = m
        BY <1>5, <2>3, <4>1 DEF Writes
      <4>. QED  BY <1>3, <2>3, <4>2, <4>3 DEF One
    <3>2. One(MailOf(c) = m) \in {0, 1}
      BY DEF One
    <3>3. One(Out(k, m)) + One(Writes(k, m)) = One(Out(call'[c], m)) + One(Writes(call'[c], m))
      BY <3>1, <3>2
    <3>. QED  BY <1>2, <1>4, <2>0, <2>3, <3>3
  <2>4. CASE /\ k.op = "mailed" /\ LetterCall(k) /\ call'[c] = Idle
             /\ unrecorded' = [unrecorded EXCEPT ![MailOf(c)] = @ + 1] /\ UNCHANGED mailed
    <3>1. One(Out(k, m)) = One(MailOf(c) = m) /\ One(Writes(k, m)) = 0
          /\ One(Out(call'[c], m)) = 0 /\ One(Writes(call'[c], m)) = 0
      BY <1>3, <1>5, <2>4, IdleIsTyped DEF One, Out
    <3>2. One(MailOf(c) = m) \in {0, 1}
      BY DEF One
    <3>3. 0 + One(Out(k, m)) + One(Writes(k, m))
            = 0 + One(Out(call'[c], m)) + One(Writes(call'[c], m)) + One(MailOf(c) = m)
      BY <3>1, <3>2
    <3>4. mailed'[m] = mailed[m] + 0 /\ unrecorded'[m] = unrecorded[m] + One(MailOf(c) = m)
      BY <1>0, <1>5, <2>4
    <3>5. Cardinality(Letters(log', m)) = Cardinality(Letters(log, m)) + 0
      BY <1>1, <1>2, <2>0
    <3>. HIDE DEF k
    <3>. QED  BY <1>0, <3>2, <3>3, <3>4, <3>5, AccountKept DEF k
  <2>. QED  BY <1>6, <2>1, <2>2, <2>3, <2>4, LetterMoves
<1>7. LosesTrack(c) => unrecorded'[m] = unrecorded[m] + One(Out(k, m) \/ Writes(k, m))
  BY DEF LosesTrack, One, Out, MailOf, Writes, Recording
<1>8. CASE SendLetter(c)
  <2>1. /\ k.op = "send" /\ call'[c] = Idle /\ mailed' = mailed
        /\ \/ Holds(c) /\ Grows(log, log', e) /\ unrecorded' = unrecorded
           \/ ~Holds(c) /\ log' = log /\ LosesTrack(c)
    BY <1>8, SendIs DEF SendLetter, SendCall
  <2>2. One(Out(k, m)) = 0 /\ One(Out(call'[c], m)) = 0 /\ One(Writes(call'[c], m)) = 0
        /\ ~Out(k, m) /\ One(Writes(k, m)) \in {0, 1}
    BY <1>3, <2>1, IdleIsTyped DEF Out, One
  <2>3. CASE Holds(c) /\ Grows(log, log', e) /\ unrecorded' = unrecorded
    <3>1. Cardinality(Letters(log', m)) = Cardinality(Letters(log, m)) + One(Writes(k, m))
      <4>1. CASE e.type \in Kind
        <5>1. One(Writes(k, m)) = One(m = <<e.stream, e.letter, e.type>>)
          BY <2>1, <4>1 DEF Writes
        <5>. QED  BY <2>3, <4>1, <5>1, OneMoreLetter
      <4>2. CASE e.type \notin Kind
        <5>1. Since(log, log') = {Len(log')} /\ log'[Len(log')] = e
          BY <2>3, GrowthExtends
        <5>2. One(Writes(k, m)) = 0
          BY <1>3, <2>1, <4>2
        <5>. QED  BY <1>1, <4>2, <5>1, <5>2
      <4>. QED  BY <4>1, <4>2
    <3>2. 0 + One(Out(k, m)) + One(Writes(k, m))
            = One(Writes(k, m)) + One(Out(call'[c], m)) + One(Writes(call'[c], m)) + 0
      BY <2>2
    <3>3. mailed'[m] = mailed[m] + 0 /\ unrecorded'[m] = unrecorded[m] + 0
      BY <1>0, <2>1, <2>3
    <3>. HIDE DEF k
    <3>. QED  BY <1>0, <2>2, <3>1, <3>2, <3>3, AccountKept DEF k
  <2>4. CASE log' = log /\ LosesTrack(c)
    <3>1. unrecorded'[m] = unrecorded[m] + One(Writes(k, m))
      BY <1>7, <2>2, <2>4 DEF One
    <3>2. 0 + One(Out(k, m)) + One(Writes(k, m))
            = 0 + One(Out(call'[c], m)) + One(Writes(call'[c], m)) + One(Writes(k, m))
      BY <2>2
    <3>3. Cardinality(Letters(log', m)) = Cardinality(Letters(log, m)) + 0
      BY <1>1, <1>2, <2>4
    <3>4. mailed'[m] = mailed[m] + 0
      BY <1>0, <2>1
    <3>. HIDE DEF k
    <3>. QED  BY <1>0, <2>2, <3>1, <3>2, <3>3, <3>4, AccountKept DEF k
  <2>. QED  BY <2>1, <2>3, <2>4
<1>9. CASE DieWithLetter(c)
  <2>1. log' = log /\ call'[c] = Idle /\ LosesTrack(c) /\ mailed' = mailed
    BY <1>9, DieIs DEF DieWithLetter
  <2>2. One(Out(call'[c], m)) = 0 /\ One(Writes(call'[c], m)) = 0
    BY <1>3, <2>1, IdleIsTyped
  <2>3. One(Out(k, m) \/ Writes(k, m)) = One(Out(k, m)) + One(Writes(k, m))
    BY DEF One, Out, Writes
  <2>4. unrecorded'[m] = unrecorded[m] + One(Out(k, m) \/ Writes(k, m))
    BY <1>7, <2>1
  <2>5. One(Out(k, m) \/ Writes(k, m)) \in {0, 1}
    BY DEF One
  <2>6. 0 + One(Out(k, m)) + One(Writes(k, m))
            = 0 + One(Out(call'[c], m)) + One(Writes(call'[c], m)) + One(Out(k, m) \/ Writes(k, m))
    <3>1. \A q : One(q) \in Nat
      BY DEF One
    <3>2. \A a, b \in Nat : 0 + a + b = 0 + 0 + 0 + (a + b)
      OBVIOUS
    <3>. QED  BY <2>2, <2>3, <3>1, <3>2
  <2>7. Cardinality(Letters(log', m)) = Cardinality(Letters(log, m)) + 0
    BY <1>1, <1>2, <2>1
  <2>8. mailed'[m] = mailed[m] + 0
    BY <1>0, <2>1
  <2>. HIDE DEF k
  <2>. QED  BY <1>0, <2>4, <2>5, <2>6, <2>7, <2>8, AccountKept DEF k
<1>10. CASE Beside(c, LetterTypes, LetterOps) /\ UNCHANGED correspondenceVars
  <2>1. \A type \in Kind : type \in LetterTypes
    BY DEF Kind, LetterTypes
  <2>2. /\ k.op # "mailed" /\ call'[c].op # "mailed"
        /\ k.op = "send" => k.event.type \notin Kind
        /\ call'[c].op = "send" => call'[c].event.type \notin Kind
        /\ \A i \in Since(log, log') : log'[i].type \notin Kind
    BY <1>10, <2>1 DEF Beside, LetterOps
  <2>3. One(Out(k, m)) = 0 /\ One(Writes(k, m)) = 0
        /\ One(Out(call'[c], m)) = 0 /\ One(Writes(call'[c], m)) = 0
    BY <1>3, <2>2
  <2>. QED  BY <1>4, <1>10, <2>2, <2>3
<1>. QED  BY <1>6, <1>8, <1>9, <1>10, LetterSteps

LEMMA HistoryIsSound ==
    ASSUME IsLedger(log), HistoryIs(log)
    PROVE  RequestHistoryIsSound
<1>1. ASSUME NEW r \in Request
      PROVE  Cardinality(Sent(log, r)) <= 1
  <2>1. Sent(log, r) \subseteq InStream(log, r)
    BY DEF Sent
  <2>2. IsFiniteSet(Sent(log, r))
    BY <2>1, StreamIsFinite, FS_Subset
  <2>. QED  BY <2>2, AtMostOne DEF HistoryIs
<1>2. ASSUME NEW r \in Request, NEW l \in Letter
      PROVE  Cardinality(Recorded(log, r, l)) <= 1
  <2>1. Recorded(log, r, l) \subseteq InStream(log, r)
    BY DEF Recorded
  <2>2. IsFiniteSet(Recorded(log, r, l))
    BY <2>1, StreamIsFinite, FS_Subset
  <2>. QED  BY <2>2, AtMostOne DEF HistoryIs
<1>. QED  BY <1>1, <1>2 DEF RequestHistoryIsSound, HistoryIs, InTurn

\* However many send letters of a request at once, and whoever dies between the
\* provider's call and the record of it: the record of the request is a history
\* that could have happened one letter at a time, and every copy that went out is
\* recorded, in its sender's hands or reported.
THEOREM CorrespondenceStaysSound == Spec => []CorrespondenceIsSound
<1> DEFINE Inv == Counted /\ LettersInOrder /\ \A m \in Mail : Account(m)
<1>1. Init => Inv
  <2>1. SUFFICES ASSUME Init PROVE Inv
    OBVIOUS
  <2>2. Formed /\ StartLedger(log) /\ call = [c \in Caller |-> Idle]
    BY <2>1, StartsFormed
  <2>3. /\ mailed = [m \in Mail |-> 0] /\ unrecorded = [m \in Mail |-> 0] /\ Counted
    BY <2>1 DEF Init, CorrespondenceInit, MemoryInit, Counted
  <2>4. \A i \in DOMAIN log : log[i].type \notin Kind
    BY <2>2 DEF StartLedger
  <2>5. \A c \in Caller : call[c].op = "idle"
    BY <2>2, IdleIsTyped
  <2>6. HistoryIs(log)
    BY <2>4 DEF HistoryIs, Sent, Recorded, InTurn, InStream, Kind
  <2>7. RecordsAreDue
    BY <2>5 DEF RecordsAreDue
  <2>8. ASSUME NEW m \in Mail PROVE Account(m)
    <3>1. Letters(log, m) = {}
      BY <2>4 DEF Letters, Recorded, InStream
    <3>2. {c \in Caller : Out(call[c], m)} = {} /\ {c \in Caller : Writes(call[c], m)} = {}
      BY <2>5 DEF Out, Writes
    <3>3. mailed[m] = 0 /\ unrecorded[m] = 0 /\ Cardinality({}) = 0
      BY <2>3, FS_EmptySet
    <3>4. mailed[m] = Cardinality({}) + Cardinality({}) + Cardinality({}) + unrecorded[m]
      BY <3>3
    <3>. QED  BY <3>1, <3>2, <3>4 DEF Account
  <2>. QED  BY <2>3, <2>6, <2>7, <2>8 DEF LettersInOrder
<1>2. Formed /\ Inv /\ [Next]_vars => Inv'
  <2>1. ASSUME Formed, Inv, NEW c \in Caller, CallSteps(c) PROVE Inv'
    BY <2>1, DeliveriesKept, OrderKept, AccountsKept
  <2>2. ASSUME Inv, UNCHANGED vars PROVE Inv'
    <3>1. UNCHANGED <<log, call, mailed, unrecorded, abandoned>>
      BY <2>2 DEF vars, recordVars, correspondenceVars
    <3>2. Counted' /\ LettersInOrder'
      BY <2>2, <3>1 DEF Counted, LettersInOrder, RecordsAreDue
    <3>3. \A m \in Mail : Account(m)'
      BY <2>2, <3>1 DEF Account
    <3>. QED  BY <3>2, <3>3
  <2>. QED  BY <2>1, <2>2 DEF Next
<1>3. Formed /\ Inv => CorrespondenceIsSound
  BY HistoryIsSound, AccountsAre DEF Formed, LettersInOrder, CorrespondenceIsSound
<1>. HIDE DEF Inv
<1>. QED  BY <1>1, <1>2, <1>3, AlwaysFormed, PTL DEF Spec

----------------------------------------------------------------------------
(* Knowledge: decisions fit the ledger they are appended to.               *)

\* What people decided is sound, element by element.
DecisionsSound(s) ==
    /\ \A e \in Entity : \A x, y \in TypesOf(s, e) : x = y
    /\ \A p \in Claim :
        /\ \A i, j \in Of(s, "proposed", p) : i = j
        /\ \A i, j \in Verdicts(s, p) : i < j =>
            s[i].action = "accept" /\ s[j].action \in {"withdraw", "supersede"}
        /\ \A i \in Verdicts(s, p) : s[i].action = "supersede" =>
            \E j \in Verdicts(s, s[i].by) : s[j].action = "accept"

\* Verdict v, among the events of t at N, is one that s allows.
Allowed(s, t, N, v) ==
    /\ v.action \in {"accept", "reject", "withdraw", "supersede", "dispute"}
    /\ v.action \in {"accept", "reject"} => Verdicts(s, v.claim) = {}
    /\ v.action \in {"withdraw", "supersede"} => StateOf(s, v.claim, "accept")
    /\ v.action = "accept" /\ IsEntity(v.claim) =>
        \E k \in N : t[k].type = "bound" /\ t[k].mention = ClaimOf[v.claim].mention
    /\ v.action = "supersede" =>
        \/ StateOf(s, v.by, "accept")
        \/ \E k \in N : t[k].type = "reviewed" /\ t[k].claim = v.by /\ t[k].action = "accept"

\* The events of t at N are those of a decision on s.
Fits(s, t, N) ==
    /\ \A n, k \in N : t[n].type \in {"proposed", "reviewed"} /\ t[k].type = t[n].type
            /\ t[k].claim = t[n].claim => n = k
    /\ \A n \in N : t[n].type = "proposed" => ~IsProposed(s, t[n].claim)
    /\ \A n \in N : t[n].type = "reviewed" => Allowed(s, t, N, t[n])
    /\ \A n \in N : t[n].type = "bound" =>
        /\ TypesOf(s, t[n].entity) \subseteq {t[n].entityType}
        /\ \A k \in N : t[k].type = "bound" /\ t[k].entity = t[n].entity =>
            t[k].entityType = t[n].entityType

LEMMA TypesAreFinite ==
    ASSUME NEW s, IsLedger(s), NEW e
    PROVE  IsFiniteSet(TypesOf(s, e))
<1> DEFINE S == {i \in DOMAIN s : i \in UNION {ActiveBindings(s, m) : m \in Mention} /\ s[i].entity = e}
           T == {s[i].entityType : i \in S}
           f == [i \in S |-> s[i].entityType]
<1>1. S \subseteq DOMAIN s
  OBVIOUS
<1>2. IsFiniteSet(DOMAIN s)
  BY LedgerFacts, FS_Interval
<1>3. IsFiniteSet(S)
  <2>. HIDE DEF S
  <2>. QED  BY <1>1, <1>2, FS_Subset
<1>4. f \in Surjection(S, T)
  <2>. HIDE DEF S
  <2>. QED  BY DEF Surjection
<1>5. IsFiniteSet(T)
  <2>. HIDE DEF S, T, f
  <2>. QED  BY <1>3, <1>4, FS_Surjection
<1>6. TypesOf(s, e) \subseteq T
  <2>1. \A m \in Mention : ActiveBindings(s, m) \subseteq DOMAIN s
    BY DEF ActiveBindings, Latest, OfType
  <2>. QED  BY <2>1 DEF TypesOf
<1>. QED  BY <1>5, <1>6, FS_Subset

LEMMA DecisionsAre ==
    ASSUME NEW s, IsLedger(s)
    PROVE  TypesAgree(s) /\ LivesAreOne(s) <=> DecisionsSound(s)
<1>1. \A e \in Entity : Cardinality(TypesOf(s, e)) <= 1 <=> \A x, y \in TypesOf(s, e) : x = y
  BY TypesAreFinite, AtMostOne
<1>2. \A p : /\ IsFiniteSet(Of(s, "proposed", p)) /\ IsFiniteSet(Verdicts(s, p))
             /\ Verdicts(s, p) \subseteq 1..Len(s)
  <2>1. IsFiniteSet(1..Len(s)) /\ DOMAIN s = 1..Len(s)
    BY LedgerFacts, FS_Interval
  <2>2. \A p : Of(s, "proposed", p) \subseteq 1..Len(s) /\ Verdicts(s, p) \subseteq 1..Len(s)
    BY <2>1 DEF Of, OfType, Verdicts
  <2>. QED  BY <2>1, <2>2, FS_Subset
<1>3. \A p \in Claim : Cardinality(Of(s, "proposed", p)) <= 1 <=>
        \A i, j \in Of(s, "proposed", p) : i = j
  BY <1>2, AtMostOne
<1>4. ASSUME NEW p \in Claim,
             \A i, j \in Verdicts(s, p) : i < j =>
                s[i].action = "accept" /\ s[j].action \in {"withdraw", "supersede"}
      PROVE  Cardinality(Verdicts(s, p)) <= 2
  <2> DEFINE V == Verdicts(s, p)
  <2>1. CASE V = {}
    BY <2>1, FS_EmptySet
  <2>2. CASE V # {}
    <3>1. PICK last \in V : \A j \in V : j <= last
      BY <1>2, <2>2, LastExists
    <3>2. \A i, j \in V \ {last} : i = j
      <4>1. SUFFICES ASSUME NEW i \in V, NEW j \in V, i # last, j # last, i # j PROVE FALSE
        OBVIOUS
      <4>2. /\ i < last /\ j < last /\ (i < j \/ j < i)
        <5>1. i \in 1..Len(s) /\ j \in 1..Len(s) /\ last \in 1..Len(s) /\ Len(s) \in Nat
          BY <1>2, LedgerFacts
        <5>. QED  BY <3>1, <4>1, <5>1
      <4>. QED  BY <1>4, <4>2
    <3>3. IsFiniteSet(V) /\ IsFiniteSet(V \ {last})
      BY <1>2, FS_Subset
    <3>4. Cardinality(V \ {last}) <= 1 /\ Cardinality(V \ {last}) \in Nat
      BY <3>2, <3>3, AtMostOne, FS_CardinalityType
    <3>5. V = (V \ {last}) \union {last} /\ last \notin V \ {last}
      BY <3>1
    <3>6. Cardinality(V) = Cardinality(V \ {last}) + 1
      <4> DEFINE W == V \ {last}
      <4>1. V = W \union {last} /\ last \notin W /\ IsFiniteSet(W)
        BY <3>3, <3>5
      <4>. HIDE DEF V, W
      <4>2. Cardinality(V) = Cardinality(W) + 1
        BY <4>1, FS_AddElement
      <4>. QED  BY <4>2 DEF W
    <3>. QED  BY <3>4, <3>6
  <2>. QED  BY <2>1, <2>2
<1>. QED  BY <1>1, <1>3, <1>4 DEF TypesAgree, LivesAreOne, DecisionsSound

\* A binding is of an accepted claim's mention, by a claim of an entity.
LEMMA BindingIs ==
    ASSUME NEW e, WellFormed(e), e.type = "bound"
    PROVE  e.claim \in Claim /\ IsEntity(e.claim) /\ e.mention = ClaimOf[e.claim].mention
           /\ e.mention \in Mention /\ e.entity \in Entity
<1>1. e \in KnowledgeEvent
  BY DEF WellFormed, Kind, MemoryTypes, ServiceTypes
<1>2. ASSUME NEW p, e = Event("proposed", p)
      PROVE  FALSE
  BY <1>2 DEF Event
<1>3. ASSUME NEW r, e = VerdictEvent(r)
      PROVE  FALSE
  BY <1>3 DEF VerdictEvent
<1>4. PICK p \in Claim, x \in Entity : IsEntity(p) /\ e = BindingEvent(p, x)
  BY <1>1, <1>2, <1>3 DEF KnowledgeEvent
<1>5. e.claim = p /\ e.mention = ClaimOf[p].mention /\ e.entity = x
  BY <1>4 DEF BindingEvent
<1>. QED  BY <1>4, <1>5, KnowledgeAssumption

\* A binding that was not active does not become so by a decision that fits.
LEMMA ActiveBefore ==
    ASSUME NEW s, NEW t, Extends(s, t), \A i \in DOMAIN t : WellFormed(t[i]),
           Fits(s, t, Since(s, t)), NEW m, NEW i \in ActiveBindings(t, m), i \notin Since(s, t)
    PROVE  i \in ActiveBindings(s, m) /\ t[i] = s[i]
<1> DEFINE S == {j \in OfType(s, "bound") : s[j].mention = m}
           T == {j \in OfType(t, "bound") : t[j].mention = m}
           p == s[i].claim
<1>0. /\ IsLedger(s) /\ DOMAIN t = 1..Len(t) /\ DOMAIN s = 1..Len(s)
      /\ Len(s) \in Nat /\ Len(t) \in Nat
  BY LedgerFacts DEF Extends
<1>1. i \in Latest(T) /\ StateOf(t, t[i].claim, "accept")
  BY DEF ActiveBindings
<1>2. \A j : /\ j \in OfType(s, "bound") => j \in 1..Len(s) /\ j \notin Since(s, t) /\ t[j] = s[j]
             /\ j \in OfType(t, "bound") <=>
                    j \in OfType(s, "bound") \/ (j \in Since(s, t) /\ t[j].type = "bound")
  BY OfTypeExtends
<1>3. i \in S /\ t[i] = s[i] /\ i \in 1..Len(s)
  BY <1>1, <1>2 DEF Latest
<1>4. S \subseteq T
  BY <1>2
<1>5. i \in Latest(S)
  BY <1>1, <1>3, <1>4 DEF Latest
<1>6. PICK v \in Latest(Verdicts(t, p)) : t[v].action = "accept"
  BY <1>1, <1>3 DEF StateOf
<1>7. v \in Verdicts(t, p) /\ \A w \in Verdicts(t, p) : w <= v
  BY <1>6 DEF Latest
<1>8. v \in DOMAIN t /\ t[v].type = "reviewed" /\ t[v].claim = p
  BY <1>7 DEF Verdicts, Of, OfType
<1>9. i \in DOMAIN t /\ t[i].type = "bound" /\ t[i].claim = p /\ t[i].mention = m
  BY <1>0, <1>2, <1>3 DEF OfType
<1>10. IsEntity(p) /\ ClaimOf[p].mention = m
  BY <1>9, BindingIs
<1>11. v \notin Since(s, t)
  <2>1. SUFFICES ASSUME v \in Since(s, t) PROVE FALSE
    OBVIOUS
  <2>2. Allowed(s, t, Since(s, t), t[v])
    BY <1>8, <2>1 DEF Fits
  <2>3. PICK k \in Since(s, t) : t[k].type = "bound" /\ t[k].mention = m
    BY <1>6, <1>8, <1>10, <2>2 DEF Allowed
  <2>4. k \in T
    BY <1>2, <2>3
  <2>5. k <= i
    BY <1>1, <2>4 DEF Latest
  <2>6. k \in (Len(s) + 1)..Len(t)
    BY <2>3 DEF Since
  <2>. QED  BY <1>0, <1>3, <2>5, <2>6
<1>12. \A w \in Verdicts(s, p) : w \in Verdicts(t, p)
  BY <1>0, OfTypeExtends DEF Verdicts, Of
<1>13. v \in Verdicts(s, p) /\ s[v].action = "accept"
  BY <1>6, <1>7, <1>11, OfTypeExtends DEF Verdicts, Of
<1>14. v \in Latest(Verdicts(s, p))
  BY <1>7, <1>12, <1>13 DEF Latest
<1>. QED  BY <1>3, <1>5, <1>13, <1>14 DEF ActiveBindings, StateOf

\* A decision that fits leaves a record that is sound.
LEMMA FitKeeps ==
    ASSUME NEW s, NEW t, Extends(s, t), \A i \in DOMAIN t : WellFormed(t[i]),
           DecisionsSound(s), Fits(s, t, Since(s, t))
    PROVE  DecisionsSound(t)
<1>0. /\ \A i \in DOMAIN s, j \in Since(s, t) : i < j
      /\ \A i \in DOMAIN s, j \in DOMAIN s : i < j \/ j < i \/ i = j
      /\ \A i \in DOMAIN t, j \in DOMAIN t : i < j => ~(j < i) /\ i # j
  <2>1. /\ IsLedger(s) /\ DOMAIN t = 1..Len(t) /\ DOMAIN s = 1..Len(s)
        /\ Len(s) \in Nat /\ Len(t) \in Nat /\ Since(s, t) = (Len(s) + 1)..Len(t)
    BY LedgerFacts DEF Extends, Since
  <2>. QED  BY <2>1
<1>1. ASSUME NEW type, NEW p, NEW i
      PROVE  /\ i \in Of(s, type, p) => i \in DOMAIN s /\ i \in Of(t, type, p) /\ t[i] = s[i]
             /\ i \in Of(t, type, p) => /\ t[i].type = type /\ t[i].claim = p /\ i \in DOMAIN t
                                        /\ \/ i \in Of(s, type, p)
                                           \/ i \in Since(s, t)
  <2>1. DOMAIN s = 1..Len(s) /\ DOMAIN t = 1..Len(t)
    BY LedgerFacts DEF Extends
  <2>2. /\ i \in OfType(s, type) => i \in OfType(t, type) /\ i \in DOMAIN s /\ t[i] = s[i]
        /\ i \in OfType(t, type) => i \in OfType(s, type) \/ i \in Since(s, t)
    BY <2>1, OfTypeExtends
  <2>3. i \in OfType(t, type) => i \in DOMAIN t /\ t[i].type = type
    BY DEF OfType
  <2>. QED  BY <2>2, <2>3 DEF Of
<1>2. ASSUME NEW p, NEW i
      PROVE  /\ i \in Verdicts(s, p) => i \in DOMAIN s /\ i \in Verdicts(t, p) /\ t[i] = s[i]
             /\ i \in Verdicts(t, p) =>
                    /\ t[i].type = "reviewed" /\ t[i].claim = p /\ t[i].action # "dispute"
                    /\ i \in DOMAIN t
                    /\ i \in Verdicts(s, p) \/ i \in Since(s, t)
  BY <1>1 DEF Verdicts
<1>3. ASSUME NEW p \in Claim, NEW i \in Of(t, "proposed", p), NEW j \in Of(t, "proposed", p)
      PROVE  i = j
  <2>1. \A n \in Since(s, t) : t[n].type = "proposed" => ~IsProposed(s, t[n].claim)
    BY DEF Fits
  <2>2. i \in Since(s, t) \/ j \in Since(s, t) => Of(s, "proposed", p) = {}
    BY <1>1, <1>3, <2>1 DEF IsProposed
  <2>3. i \in Since(s, t) /\ j \in Since(s, t) => i = j
    BY <1>1, <1>3 DEF Fits
  <2>. QED  BY <1>1, <1>3, <2>2, <2>3 DEF DecisionsSound
<1>4. ASSUME NEW p \in Claim, NEW i \in Verdicts(t, p), NEW j \in Verdicts(t, p), i < j
      PROVE  t[i].action = "accept" /\ t[j].action \in {"withdraw", "supersede"}
  <2>1. CASE j \in Verdicts(s, p)
    <3>1. i \in Verdicts(s, p)
      <4>1. SUFFICES ASSUME i \in Since(s, t) PROVE FALSE
        BY <1>2, <1>4
      <4>. QED  BY <1>0, <1>2, <1>4, <2>1, <4>1
    <3>. QED  BY <1>2, <1>4, <2>1, <3>1 DEF DecisionsSound
  <2>2. CASE j \in Since(s, t)
    <3>1. t[j].type = "reviewed" /\ t[j].claim = p /\ t[j].action # "dispute"
      BY <1>2, <1>4
    <3>2. Allowed(s, t, Since(s, t), t[j])
      BY <2>2, <3>1 DEF Fits
    <3>3. i \notin Since(s, t)
      <4>1. i \in Since(s, t) => i = j
        BY <1>2, <1>4, <2>2 DEF Fits
      <4>. QED  BY <1>0, <1>2, <1>4, <4>1
    <3>4. i \in Verdicts(s, p) /\ t[i] = s[i]
      BY <1>2, <1>4, <3>3
    <3>5. t[j].action \in {"withdraw", "supersede"} /\ StateOf(s, p, "accept")
      BY <3>1, <3>2, <3>4 DEF Allowed
    <3>6. PICK v \in Latest(Verdicts(s, p)) : s[v].action = "accept"
      BY <3>5 DEF StateOf
    <3>7. v \in Verdicts(s, p) /\ i <= v
      BY <3>4, <3>6 DEF Latest
    <3>8. ~(i < v)
      BY <3>4, <3>6, <3>7 DEF DecisionsSound
    <3>9. i = v
      <4>1. i \in DOMAIN s /\ v \in DOMAIN s
        BY <1>2, <3>4, <3>7
      <4>2. i \in 1..Len(s) /\ v \in 1..Len(s) /\ Len(s) \in Nat
        BY <4>1, LedgerFacts DEF Extends
      <4>. QED  BY <3>7, <3>8, <4>2
    <3>. QED  BY <3>4, <3>5, <3>6, <3>9
  <2>. QED  BY <1>2, <1>4, <2>1, <2>2
<1>5. ASSUME NEW p \in Claim, NEW i \in Verdicts(t, p), t[i].action = "supersede"
      PROVE  \E j \in Verdicts(t, t[i].by) : t[j].action = "accept"
  <2>1. CASE i \in Verdicts(s, p)
    <3>1. t[i] = s[i]
      BY <1>2, <2>1
    <3>2. PICK j \in Verdicts(s, s[i].by) : s[j].action = "accept"
      BY <1>5, <2>1, <3>1 DEF DecisionsSound
    <3>3. j \in Verdicts(t, s[i].by) /\ t[j] = s[j]
      BY <1>2, <3>2
    <3>. QED  BY <3>1, <3>2, <3>3
  <2>2. CASE i \in Since(s, t)
    <3>1. Allowed(s, t, Since(s, t), t[i])
      BY <1>2, <1>5, <2>2 DEF Fits
    <3>2. CASE StateOf(s, t[i].by, "accept")
      <4>1. PICK j \in Latest(Verdicts(s, t[i].by)) : s[j].action = "accept"
        BY <3>2 DEF StateOf
      <4>2. j \in Verdicts(s, t[i].by)
        BY <4>1 DEF Latest
      <4>3. j \in Verdicts(t, t[i].by) /\ t[j] = s[j]
        BY <1>2, <4>2
      <4>. QED  BY <4>1, <4>3
    <3>3. CASE \E k \in Since(s, t) :
                  t[k].type = "reviewed" /\ t[k].claim = t[i].by /\ t[k].action = "accept"
      <4>1. PICK k \in Since(s, t) :
                  t[k].type = "reviewed" /\ t[k].claim = t[i].by /\ t[k].action = "accept"
        BY <3>3
      <4>2. k \in OfType(t, "reviewed")
        BY <4>1, OfTypeExtends
      <4>3. k \in Verdicts(t, t[i].by)
        BY <4>1, <4>2 DEF Verdicts, Of
      <4>. QED  BY <4>1, <4>3
    <3>. QED  BY <1>5, <3>1, <3>2, <3>3 DEF Allowed
  <2>. QED  BY <1>2, <1>5, <2>1, <2>2
<1>6. ASSUME NEW e \in Entity, NEW x \in TypesOf(t, e)
      PROVE  \/ x \in TypesOf(s, e)
             \/ \E n \in Since(s, t) : t[n].type = "bound" /\ t[n].entity = e /\ t[n].entityType = x
  <2>0. \E m \in Mention : \E i \in ActiveBindings(t, m) : t[i].entity = e /\ x = t[i].entityType
    BY <1>6 DEF TypesOf
  <2>1. PICK m \in Mention : \E i \in ActiveBindings(t, m) : t[i].entity = e /\ x = t[i].entityType
    BY <2>0
  <2>a. PICK i \in ActiveBindings(t, m) : t[i].entity = e /\ x = t[i].entityType
    BY <2>1
  <2>2. CASE i \in Since(s, t)
    <3>1. t[i].type = "bound"
      BY <2>1 DEF ActiveBindings, Latest, OfType
    <3>. QED  BY <2>a, <2>2, <3>1
  <2>3. CASE i \notin Since(s, t)
    <3>1. i \in ActiveBindings(s, m) /\ t[i] = s[i]
      BY <2>a, <2>3, ActiveBefore
    <3>2. i \in {j \in UNION {ActiveBindings(s, z) : z \in Mention} : s[j].entity = e}
      BY <2>a, <3>1
    <3>. QED  BY <2>a, <3>1, <3>2 DEF TypesOf
  <2>. QED  BY <2>2, <2>3
<1>7. ASSUME NEW e \in Entity, NEW x \in TypesOf(t, e), NEW y \in TypesOf(t, e)
      PROVE  x = y
  <2>1. \A n \in Since(s, t) : t[n].type = "bound" =>
        /\ TypesOf(s, t[n].entity) \subseteq {t[n].entityType}
        /\ \A k \in Since(s, t) : t[k].type = "bound" /\ t[k].entity = t[n].entity =>
            t[k].entityType = t[n].entityType
    BY DEF Fits
  <2>2. x \in TypesOf(s, e) /\ y \in TypesOf(s, e) => x = y
    BY DEF DecisionsSound
  <2>. QED  BY <1>6, <1>7, <2>1, <2>2
<1>. QED  BY <1>3, <1>4, <1>5, <1>7 DEF DecisionsSound

\* A decision that fits a ledger fits its end once it is appended.
LEMMA BatchFits ==
    ASSUME NEW s, IsLedger(s), NEW b \in Seq(KnowledgeEvent), Fits(s, b, DOMAIN b)
    PROVE  Fits(s, s \o b, Since(s, s \o b))
<1> DEFINE t == s \o b
           N == Since(s, t)
<1>1. DOMAIN b = 1..Len(b) /\ Len(b) \in Nat /\ Len(s) \in Nat
  BY LedgerFacts
<1>2. /\ Extends(s, t) /\ Len(t) = Len(s) + Len(b)
      /\ \A i \in N : i - Len(s) \in 1..Len(b) /\ t[i] = b[i - Len(s)]
  BY BatchExtends
<1>3. N = (Len(s) + 1)..Len(t)
  BY <1>2 DEF Since, Extends
<1>4. \A n \in DOMAIN b : Len(s) + n \in N /\ t[Len(s) + n] = b[n]
  <2>1. SUFFICES ASSUME NEW n \in 1..Len(b) PROVE Len(s) + n \in N /\ t[Len(s) + n] = b[n]
    BY <1>1
  <2>2. Len(s) + n \in N /\ (Len(s) + n) - Len(s) = n
    <3>1. \A x, y, z \in Nat : y \in 1..z => x + y \in (x + 1)..(x + z) /\ (x + y) - x = y
      OBVIOUS
    <3>2. n \in Nat
      BY <1>1
    <3>. HIDE DEF t, N
    <3>. QED  BY <1>1, <1>2, <1>3, <2>1, <3>1, <3>2
  <2>. QED  BY <1>2, <2>2
<1> DEFINE f == [i \in N |-> i - Len(s)]
<1>5. /\ \A i \in N : f[i] \in DOMAIN b /\ t[i] = b[f[i]]
      /\ \A n \in DOMAIN b : \E i \in N : f[i] = n
      /\ \A i, j \in N : f[i] = f[j] => i = j
  <2>1. \A i \in N : f[i] \in DOMAIN b /\ t[i] = b[f[i]]
    BY <1>1, <1>2
  <2>2. \A n \in DOMAIN b : f[Len(s) + n] = n
    <3>1. \A x, y \in Nat : (x + y) - x = y
      OBVIOUS
    <3>2. \A n \in DOMAIN b : n \in Nat
      BY <1>1
    <3>. HIDE DEF t, N
    <3>. QED  BY <1>1, <1>4, <3>1, <3>2
  <2>3. \A i, j \in N : f[i] = f[j] => i = j
    <3>1. \A i \in N : i \in Int
      BY <1>3
    <3>. HIDE DEF t, N
    <3>. QED  BY <1>1, <3>1
  <2>. QED  BY <1>4, <2>1, <2>2, <2>3
<1>. HIDE DEF f, t, N
<1>6. \A n, k \in N : t[n].type \in {"proposed", "reviewed"} /\ t[k].type = t[n].type
            /\ t[k].claim = t[n].claim => n = k
  BY <1>5 DEF Fits
<1>7. ASSUME NEW n \in N, t[n].type = "reviewed" PROVE Allowed(s, t, N, t[n])
  <2>1. Allowed(s, b, DOMAIN b, t[n])
    BY <1>5, <1>7 DEF Fits
  <2>2. ASSUME t[n].action = "accept", IsEntity(t[n].claim)
        PROVE  \E k \in N : t[k].type = "bound" /\ t[k].mention = ClaimOf[t[n].claim].mention
    <3>1. PICK k \in DOMAIN b : b[k].type = "bound" /\ b[k].mention = ClaimOf[t[n].claim].mention
      BY <2>1, <2>2 DEF Allowed
    <3>. QED  BY <1>5, <3>1
  <2>3. ASSUME t[n].action = "supersede"
        PROVE  \/ StateOf(s, t[n].by, "accept")
               \/ \E k \in N : t[k].type = "reviewed" /\ t[k].claim = t[n].by /\ t[k].action = "accept"
    <3>1. CASE StateOf(s, t[n].by, "accept")
      BY <3>1
    <3>2. CASE \E k \in DOMAIN b :
                  b[k].type = "reviewed" /\ b[k].claim = t[n].by /\ b[k].action = "accept"
      BY <1>5, <3>2
    <3>. QED  BY <2>1, <2>3, <3>1, <3>2 DEF Allowed
  <2>. QED  BY <2>1, <2>2, <2>3 DEF Allowed
<1>8. \A n \in N : t[n].type = "proposed" => ~IsProposed(s, t[n].claim)
  BY <1>5 DEF Fits
<1>9. \A n \in N : t[n].type = "bound" =>
        /\ TypesOf(s, t[n].entity) \subseteq {t[n].entityType}
        /\ \A k \in N : t[k].type = "bound" /\ t[k].entity = t[n].entity =>
            t[k].entityType = t[n].entityType
  <2>1. \A x \in DOMAIN b : b[x].type = "bound" =>
        /\ TypesOf(s, b[x].entity) \subseteq {b[x].entityType}
        /\ \A y \in DOMAIN b : b[y].type = "bound" /\ b[y].entity = b[x].entity =>
            b[y].entityType = b[x].entityType
    BY DEF Fits
  <2>2. ASSUME NEW n \in N, t[n].type = "bound"
        PROVE  TypesOf(s, t[n].entity) \subseteq {t[n].entityType}
    BY <1>5, <2>1, <2>2
  <2>3. ASSUME NEW n \in N, t[n].type = "bound", NEW k \in N, t[k].type = "bound",
               t[k].entity = t[n].entity
        PROVE  t[k].entityType = t[n].entityType
    <3>1. f[n] \in DOMAIN b /\ t[n] = b[f[n]] /\ f[k] \in DOMAIN b /\ t[k] = b[f[k]]
      BY <1>5, <2>3
    <3>. QED  BY <2>1, <2>3, <3>1
  <2>. QED  BY <2>2, <2>3
<1>. QED  BY <1>6, <1>7, <1>8, <1>9 DEF Fits, t, N

\* What the events of a decision say.
LEMMA EventsSay ==
    /\ \A p : Event("proposed", p).type = "proposed" /\ Event("proposed", p).claim = p
    /\ \A p, e : /\ BindingEvent(p, e).type = "bound" /\ BindingEvent(p, e).entity = e
                 /\ BindingEvent(p, e).mention = ClaimOf[p].mention
                 /\ BindingEvent(p, e).entityType = ClaimOf[p].type
    /\ \A r : /\ VerdictEvent(r).type = "reviewed" /\ VerdictEvent(r).claim = r.claim
              /\ VerdictEvent(r).action = r.action /\ VerdictEvent(r).by = r.by
BY DEF Event, BindingEvent, VerdictEvent

LEMMA ReviewActions ==
    ASSUME NEW r \in Review
    PROVE  r.action \in {"accept", "reject", "withdraw", "supersede", "dispute"}
<1>1. \A p, e : Verdict(p, "accept", e, NoClaim).action = "accept"
  BY DEF Verdict
<1>2. \A p, action : Verdict(p, action, NoEntity, NoClaim).action = action
  BY DEF Verdict
<1>3. \A p, q : Verdict(p, "supersede", NoEntity, q).action = "supersede"
  BY DEF Verdict
<1>. QED  BY <1>1, <1>2, <1>3 DEF Review

Accepts(r) == r.action = "accept" /\ IsEntity(r.claim)

LEMMA EmitsAre ==
    ASSUME NEW r \in Review
    PROVE  /\ Emits(r) \in Seq(KnowledgeEvent) /\ DOMAIN Emits(r) = 1..Len(Emits(r))
           /\ Len(Emits(r)) = IF Accepts(r) THEN 2 ELSE 1
           /\ Emits(r)[Len(Emits(r))] = VerdictEvent(r)
           /\ Accepts(r) => Emits(r)[1] = BindingEvent(r.claim, r.entity)
<1>1. Emits(r) \in Seq(KnowledgeEvent)
  BY EmitsIs
<1>2. CASE Accepts(r)
  <2>1. Emits(r) = <<BindingEvent(r.claim, r.entity)>> \o <<VerdictEvent(r)>>
    BY <1>2 DEF Emits, Accepts
  <2>2. \A x, y : /\ Len(<<x>> \o <<y>>) = 2
                  /\ (<<x>> \o <<y>>)[1] = x /\ (<<x>> \o <<y>>)[2] = y
    <3>1. SUFFICES ASSUME NEW x, NEW y
                   PROVE  /\ Len(<<x>> \o <<y>>) = 2
                          /\ (<<x>> \o <<y>>)[1] = x /\ (<<x>> \o <<y>>)[2] = y
      OBVIOUS
    <3>2. <<x>> \in Seq({x, y}) /\ <<y>> \in Seq({x, y}) /\ Len(<<x>>) = 1 /\ Len(<<y>>) = 1
      OBVIOUS
    <3>. QED  BY <3>2
  <2>. QED  BY <1>1, <1>2, <2>1, <2>2
<1>3. CASE ~Accepts(r)
  <2>1. Emits(r) = <<>> \o <<VerdictEvent(r)>>
    BY <1>3 DEF Emits, Accepts
  <2>2. \A y : Len(<<>> \o <<y>>) = 1 /\ (<<>> \o <<y>>)[1] = y
    <3>1. SUFFICES ASSUME NEW y PROVE Len(<<>> \o <<y>>) = 1 /\ (<<>> \o <<y>>)[1] = y
      OBVIOUS
    <3>2. <<>> \in Seq({y}) /\ <<y>> \in Seq({y}) /\ Len(<<>>) = 0 /\ Len(<<y>>) = 1
      OBVIOUS
    <3>. QED  BY <3>2
  <2>. QED  BY <1>1, <1>3, <2>1, <2>2
<1>. QED  BY <1>2, <1>3

\* The events of b are those of the reviews of group G, each allowed on s.
LEMMA GroupFits ==
    ASSUME NEW s, NEW b, NEW G \in SUBSET Review,
           \A n \in DOMAIN b : \E g \in G :
                b[n] = VerdictEvent(g) \/ (Accepts(g) /\ b[n] = BindingEvent(g.claim, g.entity)),
           \A g \in G : /\ \E n \in DOMAIN b : b[n] = VerdictEvent(g)
                        /\ Accepts(g) => \E n \in DOMAIN b : b[n] = BindingEvent(g.claim, g.entity),
           \A n, k \in DOMAIN b : b[n].type = "reviewed" /\ b[k].type = "reviewed"
                /\ b[n].claim = b[k].claim => n = k,
           \A g \in G :
                /\ g.action \in {"accept", "reject"} => Verdicts(s, g.claim) = {}
                /\ g.action \in {"withdraw", "supersede"} => StateOf(s, g.claim, "accept")
                /\ g.action = "supersede" =>
                    \/ StateOf(s, g.by, "accept")
                    \/ \E h \in G : h.claim = g.by /\ h.action = "accept",
           \A g \in G : Accepts(g) =>
                /\ TypesOf(s, g.entity) \subseteq {ClaimOf[g.claim].type}
                /\ \A h \in G : Accepts(h) /\ h.entity = g.entity =>
                    ClaimOf[h.claim].type = ClaimOf[g.claim].type
    PROVE  Fits(s, b, DOMAIN b)
<1>1. ASSUME NEW n \in DOMAIN b
      PROVE  /\ b[n].type # "proposed"
             /\ b[n].type = "reviewed" => \E g \in G : b[n] = VerdictEvent(g)
             /\ b[n].type = "bound" => \E g \in G :
                    Accepts(g) /\ b[n] = BindingEvent(g.claim, g.entity)
  BY EventsSay
<1>2. ASSUME NEW n \in DOMAIN b, b[n].type = "reviewed"
      PROVE  Allowed(s, b, DOMAIN b, b[n])
  <2>1. PICK g \in G : b[n] = VerdictEvent(g)
    BY <1>1, <1>2
  <2>2. b[n].claim = g.claim /\ b[n].action = g.action /\ b[n].by = g.by
    BY <2>1, EventsSay
  <2>3. g.action \in {"accept", "reject", "withdraw", "supersede", "dispute"}
    BY ReviewActions
  <2>4. g.action = "accept" /\ IsEntity(g.claim) =>
          \E k \in DOMAIN b : b[k].type = "bound" /\ b[k].mention = ClaimOf[g.claim].mention
    BY EventsSay DEF Accepts
  <2>5. ASSUME g.action = "supersede"
        PROVE  \/ StateOf(s, g.by, "accept")
               \/ \E k \in DOMAIN b :
                    b[k].type = "reviewed" /\ b[k].claim = g.by /\ b[k].action = "accept"
    <3>1. SUFFICES ASSUME ~StateOf(s, g.by, "accept")
                   PROVE  \E k \in DOMAIN b :
                            b[k].type = "reviewed" /\ b[k].claim = g.by /\ b[k].action = "accept"
      OBVIOUS
    <3>2. PICK h \in G : h.claim = g.by /\ h.action = "accept"
      BY <2>5, <3>1
    <3>3. PICK k \in DOMAIN b : b[k] = VerdictEvent(h)
      BY <3>2
    <3>. QED  BY <3>2, <3>3, EventsSay
  <2>6. /\ g.action \in {"accept", "reject"} => Verdicts(s, g.claim) = {}
        /\ g.action \in {"withdraw", "supersede"} => StateOf(s, g.claim, "accept")
    OBVIOUS
  <2>. QED  BY <2>2, <2>3, <2>4, <2>5, <2>6 DEF Allowed
<1>3. ASSUME NEW n \in DOMAIN b, b[n].type = "bound"
      PROVE  /\ TypesOf(s, b[n].entity) \subseteq {b[n].entityType}
             /\ \A k \in DOMAIN b : b[k].type = "bound" /\ b[k].entity = b[n].entity =>
                    b[k].entityType = b[n].entityType
  <2>1. PICK g \in G : Accepts(g) /\ b[n] = BindingEvent(g.claim, g.entity)
    BY <1>1, <1>3
  <2>2. b[n].entity = g.entity /\ b[n].entityType = ClaimOf[g.claim].type
    BY <2>1, EventsSay
  <2>3. ASSUME NEW k \in DOMAIN b, b[k].type = "bound", b[k].entity = b[n].entity
        PROVE  b[k].entityType = b[n].entityType
    <3>1. PICK h \in G : Accepts(h) /\ b[k] = BindingEvent(h.claim, h.entity)
      BY <1>1, <2>3
    <3>2. b[k].entity = h.entity /\ b[k].entityType = ClaimOf[h.claim].type
      BY <3>1, EventsSay
    <3>. QED  BY <2>1, <2>2, <2>3, <3>1, <3>2
  <2>. QED  BY <2>1, <2>2, <2>3
<1>. QED  BY <1>1, <1>2, <1>3 DEF Fits

LEMMA OneFits ==
    ASSUME NEW s, NEW r \in Review, MayReview(s, <<>>, {r}, r)
    PROVE  Fits(s, Emits(r), DOMAIN Emits(r))
<1> DEFINE b == Emits(r)
           G == {r}
<1>1. /\ DOMAIN b = 1..Len(b) /\ Len(b) = IF Accepts(r) THEN 2 ELSE 1
      /\ b[Len(b)] = VerdictEvent(r) /\ (Accepts(r) => b[1] = BindingEvent(r.claim, r.entity))
  BY EmitsAre
<1>2. \A n \in DOMAIN b :
        (n = Len(b) /\ b[n] = VerdictEvent(r)) \/ (Accepts(r) /\ b[n] = BindingEvent(r.claim, r.entity))
  BY <1>1
<1>3. /\ \E n \in DOMAIN b : b[n] = VerdictEvent(r)
      /\ Accepts(r) => \E n \in DOMAIN b : b[n] = BindingEvent(r.claim, r.entity)
  BY <1>1
<1>4. \A n, k \in DOMAIN b : b[n].type = "reviewed" /\ b[k].type = "reviewed" => n = k
  BY <1>2, EventsSay
<1>5. /\ r.action \in {"accept", "reject"} => Verdicts(s, r.claim) = {}
      /\ r.action \in {"withdraw", "supersede"} => StateOf(s, r.claim, "accept")
      /\ r.action = "supersede" =>
            \/ StateOf(s, r.by, "accept")
            \/ \E h \in G : h.claim = r.by /\ h.action = "accept"
      /\ Accepts(r) => TypesOf(s, r.entity) \subseteq {ClaimOf[r.claim].type}
  BY DEF MayReview, TypesMatch, Accepts
<1>6. G \in SUBSET Review
  OBVIOUS
<1>. HIDE DEF b
<1>7. /\ \A n \in DOMAIN b : \E g \in G :
            b[n] = VerdictEvent(g) \/ (Accepts(g) /\ b[n] = BindingEvent(g.claim, g.entity))
      /\ \A g \in G :
            /\ \E n \in DOMAIN b : b[n] = VerdictEvent(g)
            /\ Accepts(g) => \E n \in DOMAIN b : b[n] = BindingEvent(g.claim, g.entity)
  BY <1>2, <1>3
<1>8. \A g \in G :
        /\ g.action \in {"accept", "reject"} => Verdicts(s, g.claim) = {}
        /\ g.action \in {"withdraw", "supersede"} => StateOf(s, g.claim, "accept")
        /\ g.action = "supersede" =>
            \/ StateOf(s, g.by, "accept")
            \/ \E h \in G : h.claim = g.by /\ h.action = "accept"
  BY <1>5
<1>9. \A g \in G : Accepts(g) =>
        /\ TypesOf(s, g.entity) \subseteq {ClaimOf[g.claim].type}
        /\ \A h \in G : Accepts(h) /\ h.entity = g.entity =>
            ClaimOf[h.claim].type = ClaimOf[g.claim].type
  BY <1>5
<1>10. Fits(s, b, DOMAIN b)
  <2>1. \A n, k \in DOMAIN b : b[n].type = "reviewed" /\ b[k].type = "reviewed"
            /\ b[n].claim = b[k].claim => n = k
    BY <1>4
  <2>. HIDE DEF G
  <2>. QED  BY <2>1, <1>6, <1>7, <1>8, <1>9, GroupFits
<1>. QED  BY <1>10 DEF b

LEMMA TwoFits ==
    ASSUME NEW s, NEW q \in Review, NEW r \in Review, q.claim # r.claim,
           MayReview(s, <<>>, {q, r}, q), MayReview(s, Emits(q), {q, r}, r)
    PROVE  Fits(s, Emits(q) \o Emits(r), DOMAIN (Emits(q) \o Emits(r)))
<1> DEFINE x == Emits(q)
           y == Emits(r)
           b == x \o y
           G == {q, r}
<1>1. /\ x \in Seq(KnowledgeEvent) /\ DOMAIN x = 1..Len(x)
      /\ Len(x) = (IF Accepts(q) THEN 2 ELSE 1)
      /\ x[Len(x)] = VerdictEvent(q) /\ (Accepts(q) => x[1] = BindingEvent(q.claim, q.entity))
  BY EmitsAre
<1>2. /\ y \in Seq(KnowledgeEvent) /\ DOMAIN y = 1..Len(y)
      /\ Len(y) = (IF Accepts(r) THEN 2 ELSE 1)
      /\ y[Len(y)] = VerdictEvent(r) /\ (Accepts(r) => y[1] = BindingEvent(r.claim, r.entity))
  BY EmitsAre
<1>3. /\ DOMAIN b = 1..(Len(x) + Len(y))
      /\ \A n \in 1..Len(x) : b[n] = x[n]
      /\ \A n \in 1..Len(y) : b[Len(x) + n] = y[n]
  <2>. HIDE DEF x, y
  <2>. QED  BY <1>1, <1>2
<1>4. /\ Len(x) \in {1, 2} /\ Len(y) \in {1, 2}
  BY <1>1, <1>2
<1>. HIDE DEF x, y, b
\* The verdicts come last in their halves, what they bind first.
<1>5. ASSUME NEW n \in DOMAIN b
      PROVE  \/ n = Len(x) /\ b[n] = VerdictEvent(q)
             \/ n = Len(x) + Len(y) /\ b[n] = VerdictEvent(r)
             \/ Accepts(q) /\ b[n] = BindingEvent(q.claim, q.entity)
             \/ Accepts(r) /\ b[n] = BindingEvent(r.claim, r.entity)
  <2>1. CASE n \in 1..Len(x)
    <3>1. b[n] = x[n] /\ (n = Len(x) \/ (n = 1 /\ Len(x) = 2))
      BY <1>3, <1>4, <2>1
    <3>. QED  BY <1>1, <3>1
  <2>2. CASE n \notin 1..Len(x)
    <3>1. PICK k \in 1..Len(y) : n = Len(x) + k
      <4>1. n - Len(x) \in 1..Len(y) /\ n = Len(x) + (n - Len(x))
        BY <1>3, <1>4, <1>5, <2>2
      <4>. QED  BY <4>1
    <3>2. b[n] = y[k] /\ (k = Len(y) \/ (k = 1 /\ Len(y) = 2))
      BY <1>3, <1>4, <3>1
    <3>. QED  BY <1>2, <3>1, <3>2
  <2>. QED  BY <2>1, <2>2
<1>6. ASSUME NEW n \in DOMAIN b
      PROVE  /\ b[n].type = "reviewed" => \/ n = Len(x) /\ b[n].claim = q.claim
                                          \/ n = Len(x) + Len(y) /\ b[n].claim = r.claim
             /\ \E g \in G :
                    b[n] = VerdictEvent(g) \/ (Accepts(g) /\ b[n] = BindingEvent(g.claim, g.entity))
  BY <1>5, EventsSay
<1>7. \A n, k \in DOMAIN b : b[n].type = "reviewed" /\ b[k].type = "reviewed"
            /\ b[n].claim = b[k].claim => n = k
  BY <1>6
<1>8. ASSUME NEW g \in G
      PROVE  /\ \E n \in DOMAIN b : b[n] = VerdictEvent(g)
             /\ Accepts(g) => \E n \in DOMAIN b : b[n] = BindingEvent(g.claim, g.entity)
  <2>1. /\ Len(x) \in DOMAIN b /\ Len(x) \in 1..Len(x) /\ 1 \in DOMAIN b /\ 1 \in 1..Len(x)
        /\ Len(x) + Len(y) \in DOMAIN b /\ Len(y) \in 1..Len(y)
        /\ Len(x) + 1 \in DOMAIN b /\ 1 \in 1..Len(y)
    <3>1. \A u, v \in {1, 2} :
              /\ u \in 1..(u + v) /\ u \in 1..u /\ 1 \in 1..(u + v) /\ 1 \in 1..u
              /\ u + v \in 1..(u + v) /\ v \in 1..v
              /\ u + 1 \in 1..(u + v) /\ 1 \in 1..v
      OBVIOUS
    <3>2. DOMAIN b = 1..(Len(x) + Len(y))
      BY <1>3
    <3>3. ASSUME NEW u, NEW v, u = Len(x), v = Len(y)
          PROVE  /\ u \in DOMAIN b /\ u \in 1..u /\ 1 \in DOMAIN b /\ 1 \in 1..u
                 /\ u + v \in DOMAIN b /\ v \in 1..v
                 /\ u + 1 \in DOMAIN b /\ 1 \in 1..v
      BY <1>4, <3>1, <3>2, <3>3
    <3>. QED  BY <3>3
  <2>2. /\ b[Len(x)] = VerdictEvent(q) /\ b[Len(x) + Len(y)] = VerdictEvent(r)
        /\ Accepts(q) => b[1] = BindingEvent(q.claim, q.entity)
        /\ Accepts(r) => b[Len(x) + 1] = BindingEvent(r.claim, r.entity)
    BY <1>1, <1>2, <1>3, <2>1
  <2>. QED  BY <2>1, <2>2
<1>9. ASSUME NEW g \in G
      PROVE  /\ g.action \in {"accept", "reject"} => Verdicts(s, g.claim) = {}
             /\ g.action \in {"withdraw", "supersede"} => StateOf(s, g.claim, "accept")
             /\ g.action = "supersede" =>
                    \/ StateOf(s, g.by, "accept")
                    \/ \E h \in G : h.claim = g.by /\ h.action = "accept"
             /\ Accepts(g) => TypesOf(s, g.entity) \subseteq {ClaimOf[g.claim].type}
  BY DEF MayReview, TypesMatch, Accepts
<1>10. Accepts(q) /\ Accepts(r) /\ q.entity = r.entity =>
            ClaimOf[q.claim].type = ClaimOf[r.claim].type
  <2>1. SUFFICES ASSUME Accepts(q), Accepts(r), q.entity = r.entity
                 PROVE  ClaimOf[q.claim].type = ClaimOf[r.claim].type
    OBVIOUS
  <2>2. \A i \in OfType(x, "bound") : x[i].entity = r.entity =>
            x[i].entityType = ClaimOf[r.claim].type
    BY <2>1 DEF MayReview, TypesMatch, Accepts, x
  <2>3. 1 \in DOMAIN x /\ x[1] = BindingEvent(q.claim, q.entity)
    BY <1>1, <1>4, <2>1
  <2>4. 1 \in OfType(x, "bound") /\ x[1].entity = q.entity
        /\ x[1].entityType = ClaimOf[q.claim].type
    BY <2>3, EventsSay DEF OfType
  <2>. QED  BY <2>1, <2>2, <2>4
<1>11. \A g \in G : Accepts(g) =>
        /\ TypesOf(s, g.entity) \subseteq {ClaimOf[g.claim].type}
        /\ \A h \in G : Accepts(h) /\ h.entity = g.entity =>
            ClaimOf[h.claim].type = ClaimOf[g.claim].type
  BY <1>9, <1>10
<1>12. G \in SUBSET Review
  OBVIOUS
<1>13. Fits(s, b, DOMAIN b)
  <2>1. \A n \in DOMAIN b : \E g \in G :
            b[n] = VerdictEvent(g) \/ (Accepts(g) /\ b[n] = BindingEvent(g.claim, g.entity))
    BY <1>6
  <2>2. \A g \in G :
            /\ \E n \in DOMAIN b : b[n] = VerdictEvent(g)
            /\ Accepts(g) => \E n \in DOMAIN b : b[n] = BindingEvent(g.claim, g.entity)
    BY <1>8
  <2>3. \A g \in G :
            /\ g.action \in {"accept", "reject"} => Verdicts(s, g.claim) = {}
            /\ g.action \in {"withdraw", "supersede"} => StateOf(s, g.claim, "accept")
            /\ g.action = "supersede" =>
                \/ StateOf(s, g.by, "accept")
                \/ \E h \in G : h.claim = g.by /\ h.action = "accept"
    BY <1>9
  <2>. HIDE DEF G
  <2>. QED  BY <1>7, <1>11, <1>12, <2>1, <2>2, <2>3, GroupFits
<1>. QED  BY <1>13 DEF b, x, y

LEMMA ProposalFits ==
    ASSUME NEW s, NEW p, ~IsProposed(s, p)
    PROVE  Fits(s, <<Event("proposed", p)>>, DOMAIN <<Event("proposed", p)>>)
<1> DEFINE b == <<Event("proposed", p)>>
<1>1. \A n \in DOMAIN b : n = 1 /\ b[n] = Event("proposed", p)
  OBVIOUS
<1>. HIDE DEF b
<1>2. \A n \in DOMAIN b : n = 1 /\ b[n].type = "proposed" /\ b[n].claim = p
  BY <1>1, EventsSay
<1>3. Fits(s, b, DOMAIN b)
  BY <1>2 DEF Fits
<1>. QED  BY <1>3 DEF b

LEMMA RebindingFits ==
    ASSUME NEW s, NEW p, NEW e, TypesOf(s, e) \subseteq {ClaimOf[p].type}
    PROVE  Fits(s, <<BindingEvent(p, e)>>, DOMAIN <<BindingEvent(p, e)>>)
<1> DEFINE b == <<BindingEvent(p, e)>>
<1>1. \A n \in DOMAIN b : n = 1 /\ b[n] = BindingEvent(p, e)
  OBVIOUS
<1>. HIDE DEF b
<1>2. \A n \in DOMAIN b : n = 1 /\ b[n].type = "bound" /\ b[n].entity = e
                          /\ b[n].entityType = ClaimOf[p].type
  BY <1>1, EventsSay
<1>3. Fits(s, b, DOMAIN b)
  BY <1>2 DEF Fits
<1>. QED  BY <1>3 DEF b

----------------------------------------------------------------------------
\* A decision that waits to be appended fits the ledger, if that is what it was.
DecisionsInTurn ==
    /\ DecisionsSound(log)
    /\ \A c \in Caller : call[c].op = "decide" =>
        /\ call[c].global \in 1..(Len(log) + 1)
        /\ call[c].global = Len(log) + 1 => Fits(log, call[c].batch, DOMAIN call[c].batch)

LEMMA DecisionsKept ==
    ASSUME Formed, Formed', DecisionsInTurn, NEW c \in Caller, Extends(log, log'),
           \A d \in Caller : d # c => call'[d] = call[d],
           Fits(log, log', Since(log, log')),
           call'[c].op = "decide" =>
                /\ log' = log /\ call'[c].global = Len(log) + 1
                /\ Fits(log, call'[c].batch, DOMAIN call'[c].batch)
    PROVE  DecisionsInTurn'
<1>1. DecisionsSound(log')
  <2>1. \A i \in DOMAIN log' : WellFormed(log'[i])
    BY DEF Formed
  <2>. QED  BY <2>1, FitKeeps DEF DecisionsInTurn
<1>2. ASSUME NEW d \in Caller, call'[d].op = "decide"
      PROVE  /\ call'[d].global \in 1..(Len(log') + 1)
             /\ call'[d].global = Len(log') + 1 => Fits(log', call'[d].batch, DOMAIN call'[d].batch)
  <2>1. CASE d # c
    <3>1. /\ call[d].global \in 1..(Len(log) + 1)
          /\ call[d].global = Len(log) + 1 => Fits(log, call[d].batch, DOMAIN call[d].batch)
      BY <1>2, <2>1 DEF DecisionsInTurn
    <3>2. Len(log) \in Nat /\ Len(log') \in Nat /\ Len(log) <= Len(log')
      BY DEF Extends
    <3>3. /\ call[d].global \in 1..(Len(log') + 1)
          /\ call[d].global = Len(log') + 1 => Len(log') = Len(log)
      BY <3>1, <3>2
    <3>4. Len(log') = Len(log) => log' = log
      BY SameLength
    <3>. QED  BY <2>1, <3>1, <3>3, <3>4
  <2>2. CASE d = c
    BY <1>2, <2>2, CountsAreNumbers
  <2>. QED  BY <2>1, <2>2
<1>. QED  BY <1>1, <1>2 DEF DecisionsInTurn

\* A ledger that gets no decision.
LEMMA NothingFits ==
    ASSUME NEW s, NEW t, \A i \in Since(s, t) : t[i].type \notin KnowledgeTypes
    PROVE  Fits(s, t, Since(s, t))
BY DEF Fits, KnowledgeTypes

LEMMA DecisionStep ==
    ASSUME Formed, DecisionsInTurn, NEW c \in Caller, CallSteps(c)
    PROVE  DecisionsInTurn'
<1>0. /\ Extends(log, log') /\ Formed' /\ IsLedger(log)
      /\ \A d \in Caller : d # c => call'[d] = call[d]
      /\ log' = log => Fits(log, log', Since(log, log'))
  BY StepForms, ExtendsItself, NothingFits DEF Beside, Formed
\* A decision that was made, and waits to be appended.
<1>1. ASSUME NEW b, call' = [call EXCEPT ![c] = Decided(b)], log' = log, Fits(log, b, DOMAIN b)
      PROVE  DecisionsInTurn'
  <2>1. call'[c].batch = b /\ call'[c].global = Len(log) + 1
    BY <1>1 DEF Formed, Decided
  <2>. QED  BY <1>0, <1>1, <2>1, DecisionsKept
<1>2. CASE KnowledgeNext(c)
  <2>1. ASSUME NEW p \in Claim, Propose(c, p)
        PROVE  DecisionsInTurn'
    BY <1>1, <2>1, ProposalFits DEF Propose, MayPropose
  <2>2. ASSUME NEW p \in Claim, NEW e \in Entity, Bind(c, p, e)
        PROVE  DecisionsInTurn'
    BY <1>1, <2>2, RebindingFits DEF Bind, TypesMatch
  <2>3. CASE ReviewOne(c)
    <3>1. PICK r \in Review : /\ MayReview(log, <<>>, {r}, r)
                              /\ call' = [call EXCEPT ![c] = Decided(Emits(r))]
      BY <2>3 DEF ReviewOne
    <3>2. log' = log
      BY <2>3 DEF ReviewOne
    <3>. QED  BY <1>1, <3>1, <3>2, OneFits
  <2>4. CASE ReviewTwo(c)
    <3>1. PICK q \in Review, r \in Review :
            /\ q.claim # r.claim
            /\ MayReview(log, <<>>, {q, r}, q) /\ MayReview(log, Emits(q), {q, r}, r)
            /\ call' = [call EXCEPT ![c] = Decided(Emits(q) \o Emits(r))]
      BY <2>4 DEF ReviewTwo
    <3>2. log' = log
      BY <2>4 DEF ReviewTwo
    <3>. QED  BY <1>1, <3>1, <3>2, TwoFits
  <2>5. CASE AppendDecision(c)
    <3>1. call[c].op = "decide" /\ call'[c] = Idle /\ call'[c].op # "decide"
      BY <2>5, IdleIsTyped DEF AppendDecision, Formed
    <3>2. CASE ~Holds(c)
      <4>1. log' = log
        BY <2>5, <3>2 DEF AppendDecision
      <4>. QED  BY <1>0, <3>1, <4>1, DecisionsKept
    <3>3. CASE Holds(c)
      <4>1. log' = log \o call[c].batch
        BY <2>5, <3>3 DEF AppendDecision
      <4>2. call[c].global \in {0, Len(log) + 1} /\ call[c].global \in 1..(Len(log) + 1)
        BY <3>1, <3>3 DEF Holds, DecisionsInTurn
      <4>3. call[c].global # 0
        BY <4>2
      <4>4. Fits(log, call[c].batch, DOMAIN call[c].batch)
        BY <3>1, <4>2, <4>3 DEF DecisionsInTurn
      <4>5. call[c].batch \in Seq(KnowledgeEvent)
        BY <3>1, ByOperation DEF Formed, KnowledgeCall
      <4>6. Fits(log, log', Since(log, log'))
        BY <1>0, <4>1, <4>4, <4>5, BatchFits
      <4>. QED  BY <1>0, <3>1, <4>6, DecisionsKept
    <3>. QED  BY <3>2, <3>3
  <2>. QED  BY <1>2, <2>1, <2>2, <2>3, <2>4, <2>5 DEF KnowledgeNext
<1>3. CASE Die(c)
  <2>1. log' = log /\ call'[c].op # "decide"
    BY <1>3, DieIs, IdleIsTyped
  <2>. QED  BY <1>0, <2>1, DecisionsKept
<1>4. CASE Beside(c, KnowledgeTypes, {"decide"})
  <2>1. Fits(log, log', Since(log, log')) /\ call'[c].op # "decide"
    BY <1>4, NothingFits DEF Beside
  <2>. QED  BY <1>0, <2>1, DecisionsKept
<1>. QED  BY <1>2, <1>3, <1>4, KnowledgeSteps

\* However many people decide on one ledger at once, what they decide is a record
\* that one could have made: the mentions bound to an entity agree on its type, and
\* a claim has one life.
THEOREM KnowledgeStaysSound == Spec => []KnowledgeIsSound
<1>1. Init => DecisionsInTurn
  <2>1. SUFFICES ASSUME Init PROVE DecisionsInTurn
    OBVIOUS
  <2>2. Formed /\ StartLedger(log) /\ call = [c \in Caller |-> Idle]
    BY <2>1, StartsFormed
  <2>3. DecisionsSound(log)
    BY <2>2, DecisionsAre DEF StartLedger, Formed
  <2>4. \A c \in Caller : call[c].op # "decide"
    BY <2>2, IdleIsTyped
  <2>. QED  BY <2>3, <2>4 DEF DecisionsInTurn
<1>2. Formed /\ DecisionsInTurn /\ [Next]_vars => DecisionsInTurn'
  <2>1. ASSUME Formed, DecisionsInTurn, NEW c \in Caller, CallSteps(c) PROVE DecisionsInTurn'
    BY <2>1, DecisionStep
  <2>2. ASSUME DecisionsInTurn, UNCHANGED vars PROVE DecisionsInTurn'
    BY <2>2 DEF vars, recordVars, DecisionsInTurn
  <2>. QED  BY <2>1, <2>2 DEF Next
<1>3. Formed /\ DecisionsInTurn => KnowledgeIsSound
  BY DecisionsAre DEF Formed, DecisionsInTurn, KnowledgeIsSound
<1>. QED  BY <1>1, <1>2, <1>3, AlwaysFormed, PTL DEF Spec
=============================================================================
