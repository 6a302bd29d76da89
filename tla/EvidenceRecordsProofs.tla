------------------------ MODULE EvidenceRecordsProofs ------------------------
(***************************************************************************)
(* The services that keep evidence and the adapters that act on it leave a *)
(* sound ledger and report what it holds, for any callers, batches,        *)
(* contents and scans, people, tags and assertions, from any ledger they   *)
(* may have left before.                                                   *)
(*                                                                         *)
(* The invariant's idea: an append that may still be accepted is legal      *)
(* (Good).  When another event joins its stream, or the ledger if that is  *)
(* the condition, the append is refused; when an event joins another       *)
(* stream, what makes it legal is kept.  A pass has no condition to rely    *)
(* on: what it knows stays in the ledger, and as long as no two passes     *)
(* overlapped it knows all evidence and all links.                         *)
(***************************************************************************)
EXTENDS ApprovedEffects, FiniteSetTheorems, WellFoundedInduction, TLAPS

----------------------------------------------------------------------------
(* Ledgers that grow by one event: what changes in what is read of them.    *)

IsLedger(s) == s \in Seq({s[i] : i \in DOMAIN s})

\* Ledger t is s and one more event, e.
Grows(s, t, e) ==
    /\ IsLedger(s) /\ IsLedger(t)
    /\ Len(s) \in Nat /\ Len(t) = Len(s) + 1
    /\ DOMAIN s = 1..Len(s) /\ DOMAIN t = 1..Len(t)
    /\ \A i \in 1..Len(s) : t[i] = s[i]
    /\ t[Len(t)] = e
    /\ \A n \in 0..Len(s) : Prefix(t, n) = Prefix(s, n)
    /\ Prefix(s, Len(s)) = s

LEMMA GrowsByAppend ==
    ASSUME NEW s, IsLedger(s), NEW e
    PROVE  Grows(s, Append(s, e), e)
<1> DEFINE S == {s[i] : i \in DOMAIN s} \union {e}
           t == Append(s, e)
<1>1. s \in Seq(S) /\ e \in S
  <2>1. {s[i] : i \in DOMAIN s} \subseteq S
    OBVIOUS
  <2>2. s \in Seq({s[i] : i \in DOMAIN s})
    BY DEF IsLedger
  <2>. QED  BY <2>1, <2>2
<1>. HIDE DEF S
<1>2. /\ Len(s) \in Nat /\ DOMAIN s = 1..Len(s)
      /\ t \in Seq(S) /\ Len(t) = Len(s) + 1 /\ DOMAIN t = 1..Len(t)
      /\ \A i \in 1..Len(s) : t[i] = s[i]
      /\ t[Len(t)] = e
  BY <1>1
<1>3. \A n \in 0..Len(s) : SubSeq(t, 1, n) = SubSeq(s, 1, n)
  BY <1>1
<1>4. SubSeq(s, 1, Len(s)) = s
  BY <1>1
<1>5. IsLedger(t)
  <2> DEFINE T == {t[j] : j \in DOMAIN t}
  <2>1. \A i \in 1..Len(t) : t[i] \in T
    BY <1>2
  <2>2. t \in Seq(S) /\ Len(t) \in Nat
    BY <1>2
  <2>. HIDE DEF t, T
  <2>3. t \in Seq(T)
    BY <2>1, <2>2
  <2>. QED  BY <2>3 DEF IsLedger, T
<1>. QED  BY <1>2, <1>3, <1>4, <1>5 DEF Grows, Prefix

LEMMA LedgerFacts ==
    ASSUME NEW s, IsLedger(s)
    PROVE  Len(s) \in Nat /\ DOMAIN s = 1..Len(s) /\ Prefix(s, Len(s)) = s
BY DEF IsLedger, Prefix

\* The beginning of a ledger.
LEMMA PrefixFacts ==
    ASSUME NEW s, IsLedger(s), NEW n \in 0..Len(s)
    PROVE  /\ Len(Prefix(s, n)) = n /\ DOMAIN Prefix(s, n) = 1..n
           /\ \A i \in 1..n : Prefix(s, n)[i] = s[i]
BY DEF IsLedger, Prefix

LEMMA InStreamGrows ==
    ASSUME NEW s, NEW t, NEW e, Grows(s, t, e), NEW st, NEW i
    PROVE  /\ i \in InStream(s, st) => i \in 1..Len(s) /\ i # Len(t) /\ t[i] = s[i]
           /\ i \in InStream(t, st) <=> i \in InStream(s, st) \/ (i = Len(t) /\ e.stream = st)
<1>1. i \in DOMAIN s => i \in 1..Len(s) /\ i # Len(t) /\ t[i] = s[i]
  BY DEF Grows
<1>2. i \in DOMAIN t <=> i \in DOMAIN s \/ i = Len(t)
  BY DEF Grows
<1>3. t[Len(t)] = e
  BY DEF Grows
<1>. QED  BY <1>1, <1>2, <1>3 DEF InStream

LEMMA OfTypeGrows ==
    ASSUME NEW s, NEW t, NEW e, Grows(s, t, e), NEW type, NEW i
    PROVE  /\ i \in OfType(s, type) => i \in 1..Len(s) /\ i # Len(t) /\ t[i] = s[i]
           /\ i \in OfType(t, type) <=> i \in OfType(s, type) \/ (i = Len(t) /\ e.type = type)
<1>1. i \in DOMAIN s => i \in 1..Len(s) /\ i # Len(t) /\ t[i] = s[i]
  BY DEF Grows
<1>2. i \in DOMAIN t <=> i \in DOMAIN s \/ i = Len(t)
  BY DEF Grows
<1>3. t[Len(t)] = e
  BY DEF Grows
<1>. QED  BY <1>1, <1>2, <1>3 DEF OfType

LEMMA OtherTypesStay ==
    ASSUME NEW s, NEW t, NEW e, Grows(s, t, e), NEW type, e.type # type
    PROVE  OfType(t, type) = OfType(s, type) /\ \A i \in OfType(s, type) : t[i] = s[i]
<1>1. \A i : i \in OfType(t, type) <=> i \in OfType(s, type)
  BY OfTypeGrows
<1>2. OfType(t, type) = OfType(s, type)
  BY <1>1
<1>. QED  BY <1>2, OfTypeGrows

LEMMA StreamIsFinite ==
    ASSUME NEW s, IsLedger(s), NEW st
    PROVE  /\ IsFiniteSet(InStream(s, st)) /\ StreamLength(s, st) \in Nat
           /\ StreamLength(s, st) = 0 <=> InStream(s, st) = {}
<1>1. Len(s) \in Nat /\ InStream(s, st) \subseteq 1..Len(s)
  BY LedgerFacts DEF InStream
<1>2. IsFiniteSet(InStream(s, st))
  <2>1. IsFiniteSet(1..Len(s))
    BY <1>1, FS_Interval
  <2>. QED  BY <1>1, <2>1, FS_Subset
<1>3. StreamLength(s, st) \in Nat
  BY <1>2, FS_CardinalityType DEF StreamLength
<1>4. StreamLength(s, st) = 0 <=> InStream(s, st) = {}
  BY <1>2, FS_EmptySet DEF StreamLength
<1>. QED  BY <1>2, <1>3, <1>4

LEMMA StreamLengthGrows ==
    ASSUME NEW s, NEW t, NEW e, Grows(s, t, e), NEW st
    PROVE  /\ StreamLength(s, st) \in Nat /\ StreamLength(t, st) \in Nat
           /\ e.stream = st => StreamLength(t, st) = StreamLength(s, st) + 1
           /\ e.stream # st => StreamLength(t, st) = StreamLength(s, st)
<1>1. IsLedger(s) /\ IsLedger(t)
  BY DEF Grows
<1>2. IsFiniteSet(InStream(s, st)) /\ StreamLength(s, st) \in Nat /\ StreamLength(t, st) \in Nat
  BY <1>1, StreamIsFinite
<1>3. CASE e.stream = st
  <2>1. InStream(t, st) = InStream(s, st) \union {Len(t)} /\ Len(t) \notin InStream(s, st)
    BY <1>3, InStreamGrows
  <2>. QED  BY <1>2, <1>3, <2>1, FS_AddElement DEF StreamLength
<1>4. CASE e.stream # st
  <2>1. InStream(t, st) = InStream(s, st)
    BY <1>4, InStreamGrows
  <2>. QED  BY <1>2, <1>4, <2>1 DEF StreamLength
<1>. QED  BY <1>2, <1>3, <1>4

\* At most one element, counted and compared.
LEMMA AtMostOne ==
    ASSUME NEW S, IsFiniteSet(S)
    PROVE  Cardinality(S) <= 1 <=> \A i, j \in S : i = j
<1>1. ASSUME Cardinality(S) <= 1, NEW i \in S, NEW j \in S
      PROVE  i = j
  <2>1. Cardinality(S) \in Nat
    BY FS_CardinalityType
  <2>2. Cardinality(S) # 0
    BY FS_EmptySet
  <2>3. Cardinality(S) = 1
    BY <1>1, <2>1, <2>2
  <2>. QED  BY <2>3, FS_Singleton
<1>2. ASSUME \A i, j \in S : i = j
      PROVE  Cardinality(S) <= 1
  <2>1. CASE S = {}
    BY <2>1, FS_EmptySet
  <2>2. CASE S # {}
    <3>1. PICK i \in S : S = {i}
      BY <1>2, <2>2
    <3>. QED  BY <3>1, FS_Singleton
  <2>. QED  BY <2>1, <2>2
<1>. QED  BY <1>1, <1>2

\* A selection from a ledger has a first event.
LEMMA FirstExists ==
    ASSUME NEW s, IsLedger(s), NEW T, T \subseteq 1..Len(s), T # {}
    PROVE  \E i \in First(T) : TRUE
<1> DEFINE R == {ss \in Nat \X Nat : ss[1] < ss[2]}
<1>1. IsWellFoundedOn(R, Nat)
  BY NatLessThanWellFounded DEF OpToRel
<1>2. T \subseteq Nat
  BY LedgerFacts
<1> HIDE DEF R
<1>3. PICK n \in T : \A m \in T : ~(<<m, n>> \in R)
  BY <1>1, <1>2, WFMin
<1>4. \A m \in T : ~(m < n)
  BY <1>2, <1>3 DEF R
<1>. QED  BY <1>2, <1>4 DEF First

----------------------------------------------------------------------------
(* What may be appended.                                                   *)

\* Event e may follow the ledger s.
Legal(s, e) ==
    /\ WellFormed(e)
    /\ e.type = "import-approved" => Approvals(s, e.batch) = {}
    /\ e.type = "linked" => Ingestions(s, DOMAIN s, e.evidence) # {}
    /\ e.type = "import-completed" =>
        /\ Approvals(s, e.batch) # {} /\ Completions(s, e.batch) = {}
        /\ e.linked = Cardinality(Observed[e.batch])
        /\ \A x \in ContentsOf(e.batch) : Unlinked(s, DOMAIN s, e.batch, x) = {}
        /\ e.created <= Cardinality(IngestedIn(s, e.batch))
    /\ e.type = "reviewed" => {e.cause} = Latest(Decisions(s, e.evidence))
    /\ e.type = "exported" =>
        /\ e.asOf \in 0..Len(s)
        /\ \A x \in e.included : Exportable(Prefix(s, e.asOf), x, e.optIns)
    /\ e.type = "proposed" /\ e.prepared => Eligible(s, e.evidence)
    /\ e.type = "accepted" =>
        /\ Acceptances(s, e.assertion) = {}
        /\ e.cause \in First(Proposals(s, e.assertion))

----------------------------------------------------------------------------
(* What a caller may rely on, in the ledger s.                             *)

Sends(k) == k.op = "send" /\ k = Sending(k.event, k.expected, k.global)

\* The append k would be accepted now.
Open(s, k) ==
    /\ k.expected \in {0, StreamLength(s, k.event.stream) + 1}
    /\ k.global \in {0, Len(s) + 1}

Good(s, k) ==
    /\ Sends(k)
    /\ WellFormed(k.event)
    /\ k.expected \in 0..(StreamLength(s, k.event.stream) + 1)
    /\ k.global \in 0..(Len(s) + 1)
    /\ k.event.type \notin {"ingested", "linked", "import-completed"}
    /\ k.event.type = "proposed" /\ k.event.prepared => k.global # 0
    /\ k.event.type \in {"import-approved", "reviewed", "accepted"} => k.expected # 0
    /\ Open(s, k) => Legal(s, k.event)

PassCall ==
    [op : {"import"}, batch : Batch, known : SUBSET Nat, todo : SUBSET Content,
     group : Content \union {NoContent}]

\* A pass knows a part of the ledger, and the links of all it is done with.
PassGoes(s, k) ==
    /\ k \in PassCall
    /\ k.known \subseteq DOMAIN s
    /\ k.todo \subseteq ContentsOf(k.batch)
    /\ k.group \in k.todo \union {NoContent}
    /\ Approvals(s, k.batch) # {}
    /\ \A x \in ContentsOf(k.batch) \ k.todo : Unlinked(s, k.known, k.batch, x) = {}

SessionCall ==
    [op : {"approve-session"}, session : Session, exposure : Exposure, cause : Nat]

Wanted ==
    [kind : {"accepted"}, assertion : Assertion, cause : Nat, by : Human] \union
    [kind : {"exported"}, export : Export, included : SUBSET Content,
     optIns : SUBSET Restricted]

AdapterCall ==
    [op : {"adapter"}, want : Wanted, base : Nat, read : Nat, result : Nat,
     at : {"base", "act", "send", "lookup", "attest", "done"}]

\* What an adapter is about to append is legal if its stream did not grow.
EffectIsGood(s, k) ==
    IF k.want.kind = "exported"
    THEN \A x \in k.want.included : Exportable(Prefix(s, k.read), x, k.want.optIns)
    ELSE LET st == AssertionStream(k.want.assertion) IN
         StreamLength(s, st) = StreamLength(Prefix(s, k.read), st) =>
            Acceptances(s, k.want.assertion) = {}

AdapterGoes(s, k) ==
    /\ k \in AdapterCall
    /\ k.base <= Len(s) /\ k.read <= Len(s)
    /\ k.want.kind = "accepted" => k.want.cause \in Proposals(s, k.want.assertion)
    /\ k.at = "send" => EffectIsGood(s, k)
    /\ k.at = "done" /\ k.result # 0 =>
        k.result \in Matching(s, k.want) /\ k.result <= k.base + 1

StageCall ==
    [op : {"stage"}, at : {"check", "append", "finish", "done"}, next : Nat, base : Nat,
     ok : BOOLEAN]

Staged(s) == {a \in CandidateSet : Proposals(s, a) # {}}

\* The candidates before the next one are there.
StageGoes(s, k) ==
    /\ k \in StageCall
    /\ k.at \in {"check", "append"} => k.next \in DOMAIN Candidates
    /\ k.at = "finish" => k.next = Len(Candidates) + 1
    /\ k.at # "done" => \A n \in 1..(k.next - 1) : Candidates[n] \in Staged(s)
    /\ k.at = "done" /\ k.ok => Staged(s) = CandidateSet

Goes(s, k) ==
    \/ k = Idle
    \/ Good(s, k)
    \/ k.op = "import" /\ PassGoes(s, k)
    \/ k.op = "approve-session" /\ k \in SessionCall
    \/ k.op = "adapter" /\ AdapterGoes(s, k)
    \/ k.op = "stage" /\ StageGoes(s, k)

----------------------------------------------------------------------------
(* The inductive invariant.                                                *)

CallsGo ==
    /\ call = [c \in Caller |-> call[c]]
    /\ \A c \in Caller : Goes(log, call[c])

\* While no two passes overlapped, the one there is knows all evidence and links.
PassKnowsAll ==
    ~overlapped =>
        /\ NoDuplicates(log)
        /\ \A c, d \in Passes : c = d
        /\ \A c \in Passes :
            OfType(log, "ingested") \union OfType(log, "linked") \subseteq call[c].known

Quiet(type) == \A c \in Caller : call[c].op = "send" => call[c].event.type # type

\* Assertions are proposed by staging alone, or there is no staging.
StagingAlone == budget["propose"] = 0 /\ budget["prepare"] = 0 /\ Quiet("proposed")

NoStaging ==
    /\ OfType(log, "staging-approved") = {}
    /\ budget["approve-staging"] = 0 /\ Quiet("staging-approved")

AtWork == {c \in Caller : call[c].op = "stage" /\ call[c].at # "done"}

StagedAsOne ==
    \/ NoStaging
    \/ StagingAlone /\ (NoneDied => Staged(log) \in {{}, CandidateSet} \/ AtWork # {})

BudgetGoes == budget \in [Operation -> Nat] /\ budget["die"] <= 1

IInv ==
    /\ SoundLedger(log)
    /\ CallsGo
    /\ overlapped \in BOOLEAN /\ PassKnowsAll
    /\ BudgetGoes /\ StagedAsOne

----------------------------------------------------------------------------
(* Streams of different kinds are different, by their first component.     *)

LEMMA StreamsApart ==
    \A b, x, y, z :
        /\ ImportStream(b)[1] = "import" /\ EvidenceStream(x)[1] = "evidence"
        /\ LinkStream(b, x)[1] = "link" /\ ExportStream(x)[1] = "export"
        /\ ExposureStream(x)[1] = "exposure" /\ SessionStream(x)[1] = "session"
        /\ AssertionStream(x)[1] = "assertion" /\ StagingStream[1] = "staging"
        /\ ImportStream(b) = ImportStream(x) => b = x
        /\ EvidenceStream(b) = EvidenceStream(x) => b = x
        /\ ExposureStream(b) = ExposureStream(x) => b = x
        /\ AssertionStream(b) = AssertionStream(x) => b = x
        /\ LinkStream(b, x) = LinkStream(y, z) => b = y /\ x = z
BY DEF ImportStream, EvidenceStream, LinkStream, ExportStream, ExposureStream,
       SessionStream, AssertionStream, StagingStream

\* What lies in a stream of some kind is about what the stream is about.
LEMMA WhatLiesThere ==
    ASSUME NEW e, WellFormed(e), NEW x, NEW b
    PROVE  /\ e.stream = ImportStream(b) =>
                e.type \in {"import-approved", "import-completed"} /\ e.batch = b
           /\ e.stream = EvidenceStream(x) =>
                /\ e.type \in {"ingested", "classified", "reviewed", "quarantined", "tombstoned"}
                /\ e.evidence = x
           /\ e.stream = LinkStream(b, x) =>
                e.type = "linked" /\ e.batch = b /\ e.evidence = x
           /\ e.stream = ExposureStream(x) =>
                e.type \in {"exposure-enabled", "exposure-disabled"} /\ e.exposure = x
           /\ e.stream = AssertionStream(x) =>
                e.type \in {"proposed", "accepted"} /\ e.assertion = x
<1>1. e.stream = ImportStream(b) => e.stream[1] = "import"
  BY StreamsApart
<1>2. e.stream = EvidenceStream(x) => e.stream[1] = "evidence"
  BY StreamsApart
<1>3. e.stream = LinkStream(b, x) => e.stream[1] = "link"
  BY StreamsApart
<1>4. e.stream = ExposureStream(x) => e.stream[1] = "exposure"
  BY StreamsApart
<1>5. e.stream = AssertionStream(x) => e.stream[1] = "assertion"
  BY StreamsApart
<1>6. \/ /\ e.type \in {"import-approved", "import-completed"} /\ e.stream[1] = "import"
         /\ e.stream = ImportStream(e.batch)
      \/ /\ e.type \in {"ingested", "classified", "reviewed", "quarantined", "tombstoned"}
         /\ e.stream[1] = "evidence" /\ e.stream = EvidenceStream(e.evidence)
      \/ /\ e.type = "linked" /\ e.stream[1] = "link"
         /\ e.stream = LinkStream(e.batch, e.evidence)
      \/ e.type = "exported" /\ e.stream[1] = "export"
      \/ /\ e.type \in {"exposure-enabled", "exposure-disabled"}
         /\ e.stream[1] = "exposure" /\ e.stream = ExposureStream(e.exposure)
      \/ e.type \in {"session-approved", "session-revoked"} /\ e.stream[1] = "session"
      \/ /\ e.type \in {"proposed", "accepted"}
         /\ e.stream[1] = "assertion" /\ e.stream = AssertionStream(e.assertion)
      \/ e.type = "staging-approved" /\ e.stream[1] = "staging"
  <2>1. /\ e.stream = ImportStream(e.batch) => e.stream[1] = "import"
        /\ e.stream = EvidenceStream(e.evidence) => e.stream[1] = "evidence"
        /\ e.stream = LinkStream(e.batch, e.evidence) => e.stream[1] = "link"
        /\ e.stream = ExposureStream(e.exposure) => e.stream[1] = "exposure"
        /\ e.stream = AssertionStream(e.assertion) => e.stream[1] = "assertion"
        /\ e.stream = StagingStream => e.stream[1] = "staging"
    BY StreamsApart
  <2>. QED  BY <2>1 DEF WellFormed
<1>7. CASE e.stream = ImportStream(b)
  BY <1>1, <1>2, <1>3, <1>4, <1>5, <1>6, <1>7, StreamsApart
<1>8. CASE e.stream = EvidenceStream(x)
  BY <1>1, <1>2, <1>3, <1>4, <1>5, <1>6, <1>8, StreamsApart
<1>9. CASE e.stream = LinkStream(b, x)
  BY <1>1, <1>2, <1>3, <1>4, <1>5, <1>6, <1>9, StreamsApart
<1>10. CASE e.stream = ExposureStream(x)
  BY <1>1, <1>2, <1>3, <1>4, <1>5, <1>6, <1>10, StreamsApart
<1>11. CASE e.stream = AssertionStream(x)
  BY <1>1, <1>2, <1>3, <1>4, <1>5, <1>6, <1>11, StreamsApart
<1>. QED  BY <1>7, <1>8, <1>9, <1>10, <1>11

LEMMA WhereItLies ==
    ASSUME NEW e, WellFormed(e)
    PROVE  /\ e.type \in {"import-approved", "import-completed"} =>
                e.stream = ImportStream(e.batch)
           /\ e.type = "import-completed" => e.created \in Nat
           /\ e.type \in {"ingested", "classified", "reviewed", "quarantined", "tombstoned"}
                => e.stream = EvidenceStream(e.evidence)
           /\ e.type = "linked" =>
                /\ e.stream = LinkStream(e.batch, e.evidence) /\ e.batch \in Batch
                /\ e.occurrences \subseteq {o \in Observed[e.batch] : ContentOf[o] = e.evidence}
           /\ e.type \in {"exposure-enabled", "exposure-disabled"} =>
                e.stream = ExposureStream(e.exposure)
           /\ e.type \in {"proposed", "accepted"} => e.stream = AssertionStream(e.assertion)
BY DEF WellFormed

----------------------------------------------------------------------------
(* What the services read, in a ledger that grew.                          *)

LEMMA SelectionsGrow ==
    ASSUME NEW s, NEW t, NEW e, Grows(s, t, e), NEW b, NEW i
    PROVE  /\ i \in Approvals(t, b) <=>
                \/ i \in Approvals(s, b)
                \/ i = Len(t) /\ e.type = "import-approved" /\ e.batch = b
           /\ i \in Completions(t, b) <=>
                \/ i \in Completions(s, b)
                \/ i = Len(t) /\ e.type = "import-completed" /\ e.batch = b
           /\ i \in Proposals(t, b) <=>
                \/ i \in Proposals(s, b)
                \/ i = Len(t) /\ e.type = "proposed" /\ e.assertion = b
           /\ i \in Acceptances(t, b) <=>
                \/ i \in Acceptances(s, b)
                \/ i = Len(t) /\ e.type = "accepted" /\ e.assertion = b
<1>1. /\ i \in Approvals(t, b) <=> i \in OfType(t, "import-approved") /\ t[i].batch = b
      /\ i \in Approvals(s, b) <=> i \in OfType(s, "import-approved") /\ s[i].batch = b
      /\ i \in Completions(t, b) <=> i \in OfType(t, "import-completed") /\ t[i].batch = b
      /\ i \in Completions(s, b) <=> i \in OfType(s, "import-completed") /\ s[i].batch = b
      /\ i \in Proposals(t, b) <=> i \in OfType(t, "proposed") /\ t[i].assertion = b
      /\ i \in Proposals(s, b) <=> i \in OfType(s, "proposed") /\ s[i].assertion = b
      /\ i \in Acceptances(t, b) <=> i \in OfType(t, "accepted") /\ t[i].assertion = b
      /\ i \in Acceptances(s, b) <=> i \in OfType(s, "accepted") /\ s[i].assertion = b
  BY DEF Approvals, Completions, Proposals, Acceptances
<1>2. t[Len(t)] = e
  BY DEF Grows
<1>. QED  BY <1>1, <1>2, OfTypeGrows

LEMMA Selected ==
    ASSUME NEW s, IsLedger(s), NEW b
    PROVE  /\ Approvals(s, b) \subseteq 1..Len(s) /\ IsFiniteSet(Approvals(s, b))
           /\ Completions(s, b) \subseteq 1..Len(s) /\ IsFiniteSet(Completions(s, b))
           /\ Proposals(s, b) \subseteq 1..Len(s) /\ IsFiniteSet(Proposals(s, b))
           /\ Acceptances(s, b) \subseteq 1..Len(s) /\ IsFiniteSet(Acceptances(s, b))
<1>1. /\ Approvals(s, b) \subseteq 1..Len(s) /\ Completions(s, b) \subseteq 1..Len(s)
      /\ Proposals(s, b) \subseteq 1..Len(s) /\ Acceptances(s, b) \subseteq 1..Len(s)
      /\ Len(s) \in Nat
  BY LedgerFacts DEF Approvals, Completions, Proposals, Acceptances, OfType
<1>2. IsFiniteSet(1..Len(s))
  BY <1>1, FS_Interval
<1>. QED  BY <1>1, <1>2, FS_Subset

LEMMA DecisionsGrow ==
    ASSUME NEW s, NEW t, NEW e, Grows(s, t, e), NEW x, NEW i
    PROVE  /\ Decisions(s, x) \subseteq 1..Len(s)
           /\ i \in Decisions(t, x) <=>
                \/ i \in Decisions(s, x)
                \/ /\ i = Len(t) /\ e.stream = EvidenceStream(x)
                   /\ e.type \in {"classified", "reviewed"}
<1>1. /\ i \in Decisions(t, x) <=>
            /\ i \in InStream(t, EvidenceStream(x))
            /\ i \in OfType(t, "classified") \/ i \in OfType(t, "reviewed")
      /\ \A j : j \in Decisions(s, x) <=>
            /\ j \in InStream(s, EvidenceStream(x))
            /\ j \in OfType(s, "classified") \/ j \in OfType(s, "reviewed")
  BY DEF Decisions
<1>. QED  BY <1>1, InStreamGrows, OfTypeGrows

LEMMA KnownEvidenceStays ==
    ASSUME NEW s, NEW t, NEW e, Grows(s, t, e), NEW known \in SUBSET (1..Len(s)), NEW x
    PROVE  Ingestions(t, known, x) = Ingestions(s, known, x)
<1>1. \A i \in known : i \in 1..Len(s) /\ t[i] = s[i] /\ i # Len(t)
  BY DEF Grows
<1>2. known \cap OfType(t, "ingested") = known \cap OfType(s, "ingested")
  BY <1>1, OfTypeGrows
<1>. QED  BY <1>1, <1>2 DEF Ingestions

\* What a pass knows stays what it is.
LEMMA KnownStays ==
    ASSUME NEW s, NEW t, NEW e, Grows(s, t, e), NEW known \in SUBSET (1..Len(s)),
           NEW b, NEW x
    PROVE  /\ Ingestions(t, known, x) = Ingestions(s, known, x)
           /\ Links(t, known, b, x) = Links(s, known, b, x)
           /\ Linked(t, known, b, x) = Linked(s, known, b, x)
           /\ Unlinked(t, known, b, x) = Unlinked(s, known, b, x)
<1>1. /\ known \cap OfType(t, "linked") = known \cap OfType(s, "linked")
      /\ \A i \in known : t[i] = s[i]
  <2>1. \A i \in known : i \in 1..Len(s) /\ t[i] = s[i] /\ i # Len(t)
    BY DEF Grows
  <2>. QED  BY <2>1, OfTypeGrows
<1>2. Ingestions(t, known, x) = Ingestions(s, known, x)
  BY KnownEvidenceStays
<1>3. Links(t, known, b, x) = Links(s, known, b, x) /\ Links(s, known, b, x) \subseteq known
  BY <1>1 DEF Links
<1>4. Linked(t, known, b, x) = Linked(s, known, b, x)
  <2>1. {t[i].occurrences : i \in Links(t, known, b, x)}
            = {s[i].occurrences : i \in Links(s, known, b, x)}
    BY <1>1, <1>3
  <2>. QED  BY <2>1 DEF Linked
<1>. QED  BY <1>2, <1>3, <1>4 DEF Unlinked

\* Who knows more finds more evidence and more links.
LEMMA MoreIsKnown ==
    ASSUME NEW s, NEW known, NEW more, known \subseteq more, NEW b, NEW x
    PROVE  /\ Ingestions(s, known, x) \subseteq Ingestions(s, more, x)
           /\ Links(s, known, b, x) \subseteq Links(s, more, b, x)
           /\ Unlinked(s, more, b, x) \subseteq Unlinked(s, known, b, x)
<1>1. /\ Ingestions(s, known, x) \subseteq Ingestions(s, more, x)
      /\ Links(s, known, b, x) \subseteq Links(s, more, b, x)
  BY DEF Ingestions, Links
<1>2. Linked(s, known, b, x) \subseteq Linked(s, more, b, x)
  BY <1>1 DEF Linked
<1>. QED  BY <1>1, <1>2 DEF Unlinked

LEMMA EvidenceStays ==
    ASSUME NEW s, NEW t, NEW e, Grows(s, t, e), NEW x, NEW b
    PROVE  /\ Ingestions(s, DOMAIN s, x) \subseteq Ingestions(t, DOMAIN t, x)
           /\ Unlinked(t, DOMAIN t, b, x) \subseteq Unlinked(s, DOMAIN s, b, x)
<1>1. DOMAIN s = 1..Len(s) /\ DOMAIN s \subseteq DOMAIN t
  BY DEF Grows
<1>2. /\ Ingestions(t, DOMAIN s, x) = Ingestions(s, DOMAIN s, x)
      /\ Unlinked(t, DOMAIN s, b, x) = Unlinked(s, DOMAIN s, b, x)
  BY <1>1, KnownStays
<1>. QED  BY <1>1, <1>2, MoreIsKnown

----------------------------------------------------------------------------
(* A legal append leaves a sound ledger.                                   *)

LEMMA ImportedOnceLater ==
    ASSUME NEW s, NEW t, NEW e, Grows(s, t, e), ImportedOnce(s), Legal(s, e)
    PROVE  ImportedOnce(t)
<1>1. SUFFICES ASSUME NEW b \in Batch
               PROVE  Cardinality(Approvals(t, b)) <= 1 /\ Cardinality(Completions(t, b)) <= 1
  BY DEF ImportedOnce
<1>2. IsLedger(s) /\ IsLedger(t)
  BY DEF Grows
<1>3. /\ IsFiniteSet(Approvals(s, b)) /\ IsFiniteSet(Completions(s, b))
      /\ IsFiniteSet(Approvals(t, b)) /\ IsFiniteSet(Completions(t, b))
  BY <1>2, Selected
<1>4. /\ Cardinality(Approvals(s, b)) <= 1 /\ Cardinality(Completions(s, b)) <= 1
  BY DEF ImportedOnce
<1>5. /\ \A i, j \in Approvals(s, b) : i = j
      /\ \A i, j \in Completions(s, b) : i = j
  BY <1>3, <1>4, AtMostOne
<1>6. /\ e.type = "import-approved" /\ e.batch = b => Approvals(s, b) = {}
      /\ e.type = "import-completed" /\ e.batch = b => Completions(s, b) = {}
  BY DEF Legal
<1>7. /\ \A i, j \in Approvals(t, b) : i = j
      /\ \A i, j \in Completions(t, b) : i = j
  BY <1>5, <1>6, SelectionsGrow
<1>. QED  BY <1>3, <1>7, AtMostOne

LEMMA OneAfterTheOtherLater ==
    ASSUME NEW s, NEW t, NEW e, Grows(s, t, e), OneAfterTheOther(s), Legal(s, e)
    PROVE  OneAfterTheOther(t)
<1>1. ASSUME NEW l \in OfType(t, "linked")
      PROVE  Ingestions(t, 1..(l - 1), t[l].evidence) # {}
  <2>1. CASE l \in OfType(s, "linked")
    <3>1. l \in 1..Len(s) /\ t[l] = s[l] /\ 1..(l - 1) \in SUBSET (1..Len(s))
      BY <2>1, OfTypeGrows DEF Grows
    <3>2. Ingestions(s, 1..(l - 1), s[l].evidence) # {}
      BY <2>1 DEF OneAfterTheOther
    <3>. QED  BY <3>1, <3>2, KnownEvidenceStays
  <2>2. CASE l \notin OfType(s, "linked")
    <3>1. l = Len(t) /\ e.type = "linked"
      BY <1>1, <2>2, OfTypeGrows
    <3>2. 1..(l - 1) = DOMAIN s /\ DOMAIN s = 1..Len(s) /\ t[l] = e
      BY <3>1 DEF Grows
    <3>3. Ingestions(s, DOMAIN s, e.evidence) # {}
      BY <3>1 DEF Legal
    <3>. QED  BY <3>2, <3>3, KnownEvidenceStays
  <2>. QED  BY <2>1, <2>2
<1>2. ASSUME NEW b \in Batch, NEW k \in Completions(t, b)
      PROVE  \E i \in Approvals(t, b) : i < k
  <2>1. CASE k \in Completions(s, b)
    <3>1. \E i \in Approvals(s, b) : i < k
      BY <2>1 DEF OneAfterTheOther
    <3>. QED  BY <3>1, SelectionsGrow
  <2>2. CASE k \notin Completions(s, b)
    <3>1. k = Len(t) /\ e.type = "import-completed" /\ e.batch = b
      BY <1>2, <2>2, SelectionsGrow
    <3>2. PICK i \in Approvals(s, b) : TRUE
      BY <3>1 DEF Legal
    <3>3. i < k
      <4>1. IsLedger(s) /\ Len(t) = Len(s) + 1 /\ Len(s) \in Nat
        BY DEF Grows
      <4>2. i \in 1..Len(s)
        BY <3>2, <4>1, Selected
      <4>. QED  BY <3>1, <4>1, <4>2
    <3>. QED  BY <3>2, <3>3, SelectionsGrow
  <2>. QED  BY <2>1, <2>2
<1>. QED  BY <1>1, <1>2 DEF OneAfterTheOther

LEMMA IngestedIsCounted ==
    ASSUME NEW s, NEW t, NEW e, Grows(s, t, e), NEW b
    PROVE  /\ Cardinality(IngestedIn(s, b)) <= Cardinality(IngestedIn(t, b))
           /\ Cardinality(IngestedIn(s, b)) \in Nat
           /\ Cardinality(IngestedIn(t, b)) \in Nat
<1>1. IngestedIn(s, b) \subseteq IngestedIn(t, b) /\ IngestedIn(t, b) \subseteq 1..Len(t) /\ Len(t) \in Nat
  <2>1. \A i \in OfType(s, "ingested") : i \in OfType(t, "ingested") /\ t[i] = s[i]
    BY OfTypeGrows
  <2>. QED  BY <2>1 DEF Grows, OfType, IngestedIn
<1>2. IsFiniteSet(1..Len(t))
  BY <1>1, FS_Interval
<1>3. IsFiniteSet(IngestedIn(s, b)) /\ IsFiniteSet(IngestedIn(t, b))
  BY <1>1, <1>2, FS_Subset
<1>. QED  BY <1>1, <1>3, FS_Subset, FS_CardinalityType

LEMMA CompletionIsEarnedLater ==
    ASSUME NEW s, NEW t, NEW e, Grows(s, t, e), CompletionIsEarned(s), Legal(s, e),
           \A i \in DOMAIN s : WellFormed(s[i])
    PROVE  CompletionIsEarned(t)
<1>1. SUFFICES ASSUME NEW b \in Batch, NEW k \in Completions(t, b)
               PROVE  /\ t[k].linked = Cardinality(Observed[b])
                      /\ \A x \in ContentsOf(b) : Unlinked(t, 1..(k - 1), b, x) = {}
                      /\ t[k].created <=
                            Cardinality(IngestedIn(t, b))
  BY DEF CompletionIsEarned
<1>2. /\ Cardinality(IngestedIn(s, b)) <= Cardinality(IngestedIn(t, b))
      /\ Cardinality(IngestedIn(s, b)) \in Nat /\ Cardinality(IngestedIn(t, b)) \in Nat
  BY IngestedIsCounted
<1>3. CASE k \in Completions(s, b)
  <2>1. k \in 1..Len(s) /\ t[k] = s[k] /\ 1..(k - 1) \in SUBSET (1..Len(s))
    <3>1. IsLedger(s) /\ Len(s) \in Nat /\ \A i \in 1..Len(s) : t[i] = s[i]
      BY DEF Grows
    <3>. QED  BY <1>3, <3>1, Selected
  <2>2. /\ s[k].linked = Cardinality(Observed[b])
        /\ \A x \in ContentsOf(b) : Unlinked(s, 1..(k - 1), b, x) = {}
        /\ s[k].created <= Cardinality(IngestedIn(s, b))
    BY <1>3 DEF CompletionIsEarned
  <2>5. s[k].created \in Nat
    <3>1. k \in DOMAIN s /\ s[k].type = "import-completed"
      BY <1>3 DEF Completions, OfType
    <3>. QED  BY <3>1, WhereItLies
  <2>3. \A x \in ContentsOf(b) : Unlinked(t, 1..(k - 1), b, x) = {}
    BY <2>1, <2>2, KnownStays
  <2>4. t[k].created <= Cardinality(IngestedIn(t, b))
    BY <1>2, <2>1, <2>2, <2>5
  <2>. QED  BY <2>1, <2>2, <2>3, <2>4
<1>4. CASE k \notin Completions(s, b)
  <2>1. k = Len(t) /\ e.type = "import-completed" /\ e.batch = b
    BY <1>1, <1>4, SelectionsGrow
  <2>2. 1..(k - 1) = DOMAIN s /\ DOMAIN s = 1..Len(s) /\ t[k] = e
    BY <2>1 DEF Grows
  <2>3. /\ e.linked = Cardinality(Observed[b])
        /\ \A x \in ContentsOf(b) : Unlinked(s, DOMAIN s, b, x) = {}
        /\ e.created <= Cardinality(IngestedIn(s, b))
        /\ WellFormed(e)
    BY <2>1 DEF Legal
  <2>6. e.created \in Nat
    BY <2>1, <2>3, WhereItLies
  <2>4. \A x \in ContentsOf(b) : Unlinked(t, 1..(k - 1), b, x) = {}
    BY <2>2, <2>3, KnownStays
  <2>5. t[k].created <= Cardinality(IngestedIn(t, b))
    BY <1>2, <2>2, <2>3, <2>6
  <2>. QED  BY <2>2, <2>3, <2>4, <2>5
<1>. QED  BY <1>3, <1>4

LEMMA ReviewBuildsLater ==
    ASSUME NEW s, NEW t, NEW e, Grows(s, t, e), ReviewBuildsOnTheLast(s), Legal(s, e)
    PROVE  ReviewBuildsOnTheLast(t)
<1>1. SUFFICES ASSUME NEW x \in Content, NEW i \in Decisions(t, x), t[i].type = "reviewed"
               PROVE  {t[i].cause} = Latest({j \in Decisions(t, x) : j < i})
  BY DEF ReviewBuildsOnTheLast
<1>2. /\ Decisions(s, x) \subseteq 1..Len(s) /\ Len(t) = Len(s) + 1 /\ Len(s) \in Nat
      /\ \A j \in 1..Len(s) : t[j] = s[j]
      /\ t[Len(t)] = e
  BY DecisionsGrow DEF Grows
<1>3. CASE i \in Decisions(s, x)
  <2>1. t[i] = s[i]
    BY <1>2, <1>3
  <2>2. \A j : j \in Decisions(t, x) /\ j < i <=> j \in Decisions(s, x) /\ j < i
    BY <1>2, <1>3, DecisionsGrow
  <2>3. {j \in Decisions(t, x) : j < i} = {j \in Decisions(s, x) : j < i}
    BY <2>2
  <2>4. {s[i].cause} = Latest({j \in Decisions(s, x) : j < i})
    BY <1>1, <1>3, <2>1 DEF ReviewBuildsOnTheLast
  <2>. QED  BY <2>1, <2>3, <2>4
<1>4. CASE i \notin Decisions(s, x)
  <2>1. i = Len(t) /\ e.stream = EvidenceStream(x)
    BY <1>1, <1>4, DecisionsGrow
  <2>2. \A j : j \in Decisions(t, x) /\ j < i <=> j \in Decisions(s, x)
    BY <1>2, <2>1, DecisionsGrow
  <2>3. {j \in Decisions(t, x) : j < i} = Decisions(s, x)
    BY <2>2
  <2>4. e.evidence = x /\ {e.cause} = Latest(Decisions(s, e.evidence))
    BY <1>1, <1>2, <2>1, WhatLiesThere DEF Legal
  <2>. QED  BY <1>2, <2>1, <2>3, <2>4
<1>. QED  BY <1>3, <1>4

LEMMA ExportWasPlannedLater ==
    ASSUME NEW s, NEW t, NEW e, Grows(s, t, e), ExportWasPlanned(s), Legal(s, e)
    PROVE  ExportWasPlanned(t)
<1>1. SUFFICES ASSUME NEW i \in OfType(t, "exported")
               PROVE  /\ t[i].asOf \in 0..(i - 1)
                      /\ \A x \in t[i].included :
                            Exportable(Prefix(t, t[i].asOf), x, t[i].optIns)
  BY DEF ExportWasPlanned
<1>2. /\ Len(t) = Len(s) + 1 /\ Len(s) \in Nat /\ t[Len(t)] = e
      /\ \A n \in 0..Len(s) : Prefix(t, n) = Prefix(s, n)
  BY DEF Grows
<1>3. CASE i \in OfType(s, "exported")
  <2>1. i \in 1..Len(s) /\ t[i] = s[i]
    BY <1>3, OfTypeGrows
  <2>2. /\ s[i].asOf \in 0..(i - 1)
        /\ \A x \in s[i].included : Exportable(Prefix(s, s[i].asOf), x, s[i].optIns)
    BY <1>3 DEF ExportWasPlanned
  <2>3. Prefix(t, s[i].asOf) = Prefix(s, s[i].asOf)
    BY <1>2, <2>1, <2>2
  <2>. QED  BY <2>1, <2>2, <2>3
<1>4. CASE i \notin OfType(s, "exported")
  <2>1. i = Len(t) /\ e.type = "exported"
    BY <1>1, <1>4, OfTypeGrows
  <2>2. /\ e.asOf \in 0..Len(s)
        /\ \A x \in e.included : Exportable(Prefix(s, e.asOf), x, e.optIns)
    BY <2>1 DEF Legal
  <2>3. Prefix(t, e.asOf) = Prefix(s, e.asOf) /\ i - 1 = Len(s)
    BY <1>2, <2>1, <2>2
  <2>. QED  BY <1>2, <2>1, <2>2, <2>3
<1>. QED  BY <1>3, <1>4

LEMMA FirstStays ==
    ASSUME NEW s, NEW t, NEW e, Grows(s, t, e), NEW a, NEW p \in First(Proposals(s, a))
    PROVE  p \in First(Proposals(t, a))
<1>1. /\ Proposals(s, a) \subseteq 1..Len(s) /\ Len(t) = Len(s) + 1 /\ Len(s) \in Nat
  BY Selected DEF Grows
<1>2. p \in Proposals(s, a) /\ \A q \in Proposals(s, a) : p <= q
  BY DEF First
<1>3. p \in Proposals(t, a) /\ \A q \in Proposals(t, a) : p <= q
  BY <1>1, <1>2, SelectionsGrow
<1>. QED  BY <1>3 DEF First

LEMMA AcceptedOnceLater ==
    ASSUME NEW s, NEW t, NEW e, Grows(s, t, e), AcceptedOnce(s), Legal(s, e)
    PROVE  AcceptedOnce(t)
<1>1. SUFFICES ASSUME NEW a \in Assertion
               PROVE  Cardinality(Acceptances(t, a)) <= 1
  BY DEF AcceptedOnce
<1>2. IsLedger(s) /\ IsLedger(t)
  BY DEF Grows
<1>3. IsFiniteSet(Acceptances(s, a)) /\ IsFiniteSet(Acceptances(t, a))
  BY <1>2, Selected
<1>4. Cardinality(Acceptances(s, a)) <= 1
  BY DEF AcceptedOnce
<1>5. \A i, j \in Acceptances(s, a) : i = j
  BY <1>3, <1>4, AtMostOne
<1>6. e.type = "accepted" /\ e.assertion = a => Acceptances(s, a) = {}
  BY DEF Legal
<1>7. \A i, j \in Acceptances(t, a) : i = j
  BY <1>5, <1>6, SelectionsGrow
<1>. QED  BY <1>3, <1>7, AtMostOne

LEMMA FirstIsAcceptedLater ==
    ASSUME NEW s, NEW t, NEW e, Grows(s, t, e), FirstIsAccepted(s), Legal(s, e)
    PROVE  FirstIsAccepted(t)
<1>1. SUFFICES ASSUME NEW i \in OfType(t, "accepted")
               PROVE  t[i].cause \in First(Proposals(t, t[i].assertion))
  BY DEF FirstIsAccepted
<1>2. t[Len(t)] = e
  BY DEF Grows
<1>3. CASE i \in OfType(s, "accepted")
  <2>1. t[i] = s[i]
    BY <1>3, OfTypeGrows
  <2>2. s[i].cause \in First(Proposals(s, s[i].assertion))
    BY <1>3 DEF FirstIsAccepted
  <2>. QED  BY <2>1, <2>2, FirstStays
<1>4. CASE i \notin OfType(s, "accepted")
  <2>1. i = Len(t) /\ e.type = "accepted"
    BY <1>1, <1>4, OfTypeGrows
  <2>2. e.cause \in First(Proposals(s, e.assertion))
    BY <2>1 DEF Legal
  <2>. QED  BY <1>2, <2>1, <2>2, FirstStays
<1>. QED  BY <1>3, <1>4

LEMMA PreparedWasEligibleLater ==
    ASSUME NEW s, NEW t, NEW e, Grows(s, t, e), PreparedWasEligible(s), Legal(s, e)
    PROVE  PreparedWasEligible(t)
<1>1. SUFFICES ASSUME NEW i \in OfType(t, "proposed"), t[i].prepared
               PROVE  Eligible(Prefix(t, i - 1), t[i].evidence)
  BY DEF PreparedWasEligible
<1>2. /\ Len(t) = Len(s) + 1 /\ Len(s) \in Nat /\ t[Len(t)] = e
      /\ \A n \in 0..Len(s) : Prefix(t, n) = Prefix(s, n)
      /\ Prefix(s, Len(s)) = s
  BY DEF Grows
<1>3. CASE i \in OfType(s, "proposed")
  <2>1. i \in 1..Len(s) /\ t[i] = s[i]
    BY <1>3, OfTypeGrows
  <2>2. Prefix(t, i - 1) = Prefix(s, i - 1)
    BY <1>2, <2>1
  <2>. QED  BY <1>1, <1>3, <2>1, <2>2 DEF PreparedWasEligible
<1>4. CASE i \notin OfType(s, "proposed")
  <2>1. i = Len(t) /\ e.type = "proposed"
    BY <1>1, <1>4, OfTypeGrows
  <2>2. Prefix(t, i - 1) = s
    BY <1>2, <2>1
  <2>. QED  BY <1>1, <1>2, <2>1, <2>2 DEF Legal
<1>. QED  BY <1>3, <1>4

LEMMA SoundLater ==
    ASSUME NEW s, NEW t, NEW e, Grows(s, t, e), SoundLedger(s), Legal(s, e)
    PROVE  SoundLedger(t)
<1>1. /\ \A i \in DOMAIN s : WellFormed(s[i])
      /\ ImportedOnce(s) /\ OneAfterTheOther(s) /\ CompletionIsEarned(s)
      /\ ReviewBuildsOnTheLast(s) /\ ExportWasPlanned(s)
      /\ AcceptedOnce(s) /\ FirstIsAccepted(s) /\ PreparedWasEligible(s)
  BY DEF SoundLedger
<1>2. \A i \in DOMAIN t : WellFormed(t[i])
  <2>1. /\ Len(t) = Len(s) + 1 /\ Len(s) \in Nat /\ t[Len(t)] = e
        /\ DOMAIN s = 1..Len(s) /\ DOMAIN t = 1..Len(t)
        /\ \A i \in 1..Len(s) : t[i] = s[i]
    BY DEF Grows
  <2>2. WellFormed(e)
    BY DEF Legal
  <2>. QED  BY <1>1, <2>1, <2>2
<1>3. t \in Seq({t[i] : i \in DOMAIN t})
  BY DEF Grows, IsLedger
<1>4. /\ ImportedOnce(t) /\ OneAfterTheOther(t) /\ CompletionIsEarned(t)
  BY <1>1, ImportedOnceLater, OneAfterTheOtherLater, CompletionIsEarnedLater
<1>5. /\ ReviewBuildsOnTheLast(t) /\ ExportWasPlanned(t)
  BY <1>1, ReviewBuildsLater, ExportWasPlannedLater
<1>6. /\ AcceptedOnce(t) /\ FirstIsAccepted(t) /\ PreparedWasEligible(t)
  BY <1>1, AcceptedOnceLater, FirstIsAcceptedLater, PreparedWasEligibleLater
<1>. QED  BY <1>2, <1>3, <1>4, <1>5, <1>6 DEF SoundLedger

LEMMA SoundIsLedger ==
    ASSUME NEW s, SoundLedger(s)
    PROVE  IsLedger(s)
BY DEF SoundLedger, IsLedger

----------------------------------------------------------------------------
(* What a caller relies on survives the appends of others.                 *)

LEMMA LegalLater ==
    ASSUME NEW s, NEW t, NEW e, Grows(s, t, e), WellFormed(e),
           NEW f, Legal(s, f), e.stream # f.stream,
           f.type \notin {"ingested", "linked", "import-completed"},
           ~(f.type = "proposed" /\ f.prepared)
    PROVE  Legal(t, f)
<1>1. WellFormed(f)
  BY DEF Legal
<1>2. ASSUME f.type = "import-approved"
      PROVE  Approvals(t, f.batch) = {}
  <2>1. Approvals(s, f.batch) = {} /\ f.stream = ImportStream(f.batch)
    BY <1>1, <1>2, WhereItLies DEF Legal
  <2>2. e.type = "import-approved" => e.stream = ImportStream(e.batch)
    BY WhereItLies
  <2>3. ~(e.type = "import-approved" /\ e.batch = f.batch)
    BY <2>1, <2>2
  <2>. QED  BY <2>1, <2>3, SelectionsGrow
<1>3. ASSUME f.type = "reviewed"
      PROVE  {f.cause} = Latest(Decisions(t, f.evidence))
  <2>1. {f.cause} = Latest(Decisions(s, f.evidence)) /\ f.stream = EvidenceStream(f.evidence)
    BY <1>1, <1>3, WhereItLies DEF Legal
  <2>2. \A i : i \in Decisions(t, f.evidence) <=> i \in Decisions(s, f.evidence)
    BY <2>1, DecisionsGrow
  <2>3. Decisions(t, f.evidence) = Decisions(s, f.evidence)
    BY <2>2
  <2>. QED  BY <2>1, <2>3
<1>4. ASSUME f.type = "exported"
      PROVE  /\ f.asOf \in 0..Len(t)
             /\ \A x \in f.included : Exportable(Prefix(t, f.asOf), x, f.optIns)
  <2>1. /\ f.asOf \in 0..Len(s)
        /\ \A x \in f.included : Exportable(Prefix(s, f.asOf), x, f.optIns)
    BY <1>4 DEF Legal
  <2>2. Prefix(t, f.asOf) = Prefix(s, f.asOf) /\ f.asOf \in 0..Len(t)
    BY <2>1 DEF Grows
  <2>. QED  BY <2>1, <2>2
<1>5. ASSUME f.type = "accepted"
      PROVE  /\ Acceptances(t, f.assertion) = {}
             /\ f.cause \in First(Proposals(t, f.assertion))
  <2>1. /\ Acceptances(s, f.assertion) = {}
        /\ f.cause \in First(Proposals(s, f.assertion))
        /\ f.stream = AssertionStream(f.assertion)
    BY <1>1, <1>5, WhereItLies DEF Legal
  <2>2. e.type = "accepted" => e.stream = AssertionStream(e.assertion)
    BY WhereItLies
  <2>3. ~(e.type = "accepted" /\ e.assertion = f.assertion)
    BY <2>1, <2>2
  <2>4. Acceptances(t, f.assertion) = {}
    BY <2>1, <2>3, SelectionsGrow
  <2>. QED  BY <2>1, <2>4, FirstStays
<1>. QED  BY <1>1, <1>2, <1>3, <1>4, <1>5 DEF Legal

LEMMA GoodLater ==
    ASSUME NEW s, NEW t, NEW e, Grows(s, t, e), WellFormed(e), NEW k, Good(s, k)
    PROVE  Good(t, k)
<1> DEFINE f == k.event
           n == StreamLength(s, f.stream)
           m == StreamLength(t, f.stream)
<1>1. /\ Sends(k) /\ WellFormed(f)
      /\ k.expected \in 0..(n + 1) /\ k.global \in 0..(Len(s) + 1)
      /\ f.type \notin {"ingested", "linked", "import-completed"}
      /\ f.type = "proposed" /\ f.prepared => k.global # 0
      /\ f.type \in {"import-approved", "reviewed", "accepted"} => k.expected # 0
      /\ Open(s, k) => Legal(s, f)
  BY DEF Good
<1>2. /\ n \in Nat /\ m \in Nat
      /\ e.stream = f.stream => m = n + 1
      /\ e.stream # f.stream => m = n
  BY StreamLengthGrows
<1>3. Len(t) = Len(s) + 1 /\ Len(s) \in Nat
  BY DEF Grows
<1> HIDE DEF n, m
<1>4. k.expected \in 0..(m + 1) /\ k.global \in 0..(Len(t) + 1)
  BY <1>1, <1>2, <1>3
<1>5. ASSUME Open(t, k)
      PROVE  Legal(t, f)
  <2>1. k.expected \in {0, m + 1} /\ k.global \in {0, Len(t) + 1}
    BY <1>5 DEF Open, m
  <2>2. k.global = 0
    BY <1>1, <1>3, <2>1
  <2>3. CASE e.stream = f.stream
    <3>1. k.expected = 0
      BY <1>1, <1>2, <2>1, <2>3
    <3>2. Open(s, k)
      BY <2>2, <3>1 DEF Open
    <3>3. Legal(s, f)
      BY <1>1, <3>2
    <3>4. ASSUME f.type = "exported"
          PROVE  /\ f.asOf \in 0..Len(t)
                 /\ \A x \in f.included : Exportable(Prefix(t, f.asOf), x, f.optIns)
      <4>1. /\ f.asOf \in 0..Len(s)
            /\ \A x \in f.included : Exportable(Prefix(s, f.asOf), x, f.optIns)
        BY <3>3, <3>4 DEF Legal
      <4>2. Prefix(t, f.asOf) = Prefix(s, f.asOf) /\ f.asOf \in 0..Len(t)
        BY <4>1 DEF Grows
      <4>. QED  BY <4>1, <4>2
    <3>. QED  BY <1>1, <2>2, <3>1, <3>4 DEF Legal
  <2>4. CASE e.stream # f.stream
    <3>1. Open(s, k)
      BY <1>2, <2>1, <2>2, <2>4 DEF Open, n
    <3>2. Legal(s, f) /\ ~(f.type = "proposed" /\ f.prepared)
      BY <1>1, <2>2, <3>1
    <3>. QED  BY <1>1, <2>4, <3>2, LegalLater
  <2>. QED  BY <2>3, <2>4
<1>. QED  BY <1>1, <1>4, <1>5 DEF Good, m

LEMMA PassGoesLater ==
    ASSUME NEW s, NEW t, NEW e, Grows(s, t, e), NEW k, PassGoes(s, k)
    PROVE  PassGoes(t, k)
<1>1. /\ k \in PassCall /\ k.known \subseteq DOMAIN s
      /\ k.todo \subseteq ContentsOf(k.batch) /\ k.group \in k.todo \union {NoContent}
      /\ Approvals(s, k.batch) # {}
      /\ \A x \in ContentsOf(k.batch) \ k.todo : Unlinked(s, k.known, k.batch, x) = {}
  BY DEF PassGoes
<1>2. DOMAIN s = 1..Len(s) /\ DOMAIN s \subseteq DOMAIN t
  BY DEF Grows
<1>3. k.known \in SUBSET (1..Len(s)) /\ k.known \subseteq DOMAIN t
  BY <1>1, <1>2
<1>4. Approvals(t, k.batch) # {}
  BY <1>1, SelectionsGrow
<1>5. \A x \in ContentsOf(k.batch) \ k.todo : Unlinked(t, k.known, k.batch, x) = {}
  BY <1>1, <1>3, KnownStays
<1>. QED  BY <1>1, <1>3, <1>4, <1>5 DEF PassGoes

LEMMA PrefixIsShorter ==
    ASSUME NEW s, IsLedger(s), NEW n \in 0..Len(s), NEW st
    PROVE  /\ StreamLength(Prefix(s, n), st) \in Nat
           /\ StreamLength(Prefix(s, n), st) <= StreamLength(s, st)
<1>1. IsFiniteSet(InStream(s, st))
  BY StreamIsFinite
<1>2. InStream(Prefix(s, n), st) \subseteq InStream(s, st)
  BY PrefixFacts, LedgerFacts DEF InStream
<1>. QED  BY <1>1, <1>2, FS_Subset, FS_CardinalityType DEF StreamLength

LEMMA EffectIsGoodLater ==
    ASSUME NEW s, NEW t, NEW e, Grows(s, t, e), WellFormed(e), NEW k, EffectIsGood(s, k),
           k.read \in 0..Len(s)
    PROVE  EffectIsGood(t, k)
<1>1. Prefix(t, k.read) = Prefix(s, k.read)
  BY DEF Grows
<1>2. CASE k.want.kind = "exported"
  BY <1>1, <1>2 DEF EffectIsGood
<1>3. CASE k.want.kind # "exported"
  <2> DEFINE a == k.want.assertion
             st == AssertionStream(a)
  <2>1. SUFFICES ASSUME StreamLength(t, st) = StreamLength(Prefix(s, k.read), st)
                 PROVE  Acceptances(t, a) = {}
    BY <1>1, <1>3 DEF EffectIsGood
  <2>2. IsLedger(s)
    BY DEF Grows
  <2>3. /\ StreamLength(Prefix(s, k.read), st) \in Nat
        /\ StreamLength(Prefix(s, k.read), st) <= StreamLength(s, st)
    BY <2>2, PrefixIsShorter
  <2>4. /\ StreamLength(s, st) \in Nat
        /\ e.stream = st => StreamLength(t, st) = StreamLength(s, st) + 1
        /\ e.stream # st => StreamLength(t, st) = StreamLength(s, st)
    BY StreamLengthGrows
  <2>5. e.stream # st /\ StreamLength(s, st) = StreamLength(Prefix(s, k.read), st)
    BY <2>1, <2>3, <2>4
  <2>6. Acceptances(s, a) = {}
    BY <1>3, <2>5 DEF EffectIsGood
  <2>7. ~(e.type = "accepted" /\ e.assertion = a)
    BY <2>5, WhereItLies
  <2>. QED  BY <2>6, <2>7, SelectionsGrow
<1>. QED  BY <1>2, <1>3

LEMMA MatchingStays ==
    ASSUME NEW s, NEW t, NEW e, Grows(s, t, e), NEW want
    PROVE  Matching(s, want) \subseteq Matching(t, want)
<1>1. \A i \in Acceptances(s, want.assertion) :
        i \in Acceptances(t, want.assertion) /\ t[i] = s[i]
  <2>1. IsLedger(s) /\ \A i \in 1..Len(s) : t[i] = s[i]
    BY DEF Grows
  <2>. QED  BY <2>1, Selected, SelectionsGrow
<1>2. \A i \in InStream(s, ExportStream(want.export)) :
        i \in InStream(t, ExportStream(want.export)) /\ t[i] = s[i]
  BY InStreamGrows
<1>. QED  BY <1>1, <1>2 DEF Matching

LEMMA AdapterGoesLater ==
    ASSUME NEW s, NEW t, NEW e, Grows(s, t, e), WellFormed(e), NEW k, AdapterGoes(s, k)
    PROVE  AdapterGoes(t, k)
<1>1. /\ k \in AdapterCall /\ k.base <= Len(s) /\ k.read <= Len(s)
      /\ k.want.kind = "accepted" => k.want.cause \in Proposals(s, k.want.assertion)
      /\ k.at = "send" => EffectIsGood(s, k)
      /\ k.at = "done" /\ k.result # 0 =>
            k.result \in Matching(s, k.want) /\ k.result <= k.base + 1
  BY DEF AdapterGoes
<1>2. k.base \in Nat /\ k.read \in Nat
  BY <1>1 DEF AdapterCall
<1>3. /\ k.base <= Len(t) /\ k.read <= Len(t) /\ k.read \in 0..Len(s)
  BY <1>1, <1>2 DEF Grows
<1>4. k.want.kind = "accepted" => k.want.cause \in Proposals(t, k.want.assertion)
  BY <1>1, SelectionsGrow
<1>5. k.at = "send" => EffectIsGood(t, k)
  BY <1>1, <1>3, EffectIsGoodLater
<1>6. Matching(s, k.want) \subseteq Matching(t, k.want)
  BY MatchingStays
<1>. QED  BY <1>1, <1>3, <1>4, <1>5, <1>6 DEF AdapterGoes

LEMMA StagedStays ==
    ASSUME NEW s, NEW t, NEW e, Grows(s, t, e)
    PROVE  /\ Staged(s) \subseteq Staged(t)
           /\ e.type # "proposed" => Staged(t) = Staged(s)
<1>1. ASSUME NEW a
      PROVE  /\ Proposals(s, a) # {} => Proposals(t, a) # {}
             /\ e.type # "proposed" /\ Proposals(t, a) # {} => Proposals(s, a) # {}
  BY SelectionsGrow
<1>. QED  BY <1>1 DEF Staged

LEMMA StageGoesLater ==
    ASSUME NEW s, NEW t, NEW e, Grows(s, t, e), NEW k, StageGoes(s, k)
    PROVE  StageGoes(t, k)
<1>1. Staged(s) \subseteq Staged(t)
  BY StagedStays
<1>2. Staged(t) \subseteq CandidateSet
  BY DEF Staged
<1>. QED  BY <1>1, <1>2 DEF StageGoes

LEMMA GoesLater ==
    ASSUME NEW s, NEW t, NEW e, Grows(s, t, e), WellFormed(e), NEW k, Goes(s, k)
    PROVE  Goes(t, k)
BY GoodLater, PassGoesLater, AdapterGoesLater, StageGoesLater DEF Goes

----------------------------------------------------------------------------
(* What holds of any sound ledger.                                         *)

\* A link found in the stream of batch b and content x.
LEMMA LinkIsOf ==
    ASSUME NEW s, SoundLedger(s), NEW known, NEW b, NEW x, NEW l \in Links(s, known, b, x)
    PROVE  /\ l \in known /\ l \in 1..Len(s)
           /\ b \in Batch /\ s[l].evidence = x
           /\ s[l].occurrences \subseteq {o \in Observed[b] : ContentOf[o] = x}
           /\ Ingestions(s, DOMAIN s, x) # {}
<1>1. l \in known /\ l \in OfType(s, "linked") /\ s[l].stream = LinkStream(b, x)
  BY DEF Links
<1>2. IsLedger(s) /\ \A i \in DOMAIN s : WellFormed(s[i])
  BY DEF SoundLedger, IsLedger
<1>3. l \in DOMAIN s /\ s[l].type = "linked" /\ DOMAIN s = 1..Len(s) /\ Len(s) \in Nat
  BY <1>1, <1>2, LedgerFacts DEF OfType
<1>4. s[l].batch = b /\ s[l].evidence = x
  BY <1>1, <1>2, <1>3, WhatLiesThere
<1>5. /\ b \in Batch
      /\ s[l].occurrences \subseteq {o \in Observed[b] : ContentOf[o] = x}
  BY <1>2, <1>3, <1>4, WhereItLies
<1>6. Ingestions(s, 1..(l - 1), x) # {}
  BY <1>1, <1>4 DEF SoundLedger, OneAfterTheOther
<1>7. Ingestions(s, 1..(l - 1), x) \subseteq Ingestions(s, DOMAIN s, x)
  <2>1. 1..(l - 1) \subseteq DOMAIN s
    BY <1>3
  <2>. QED  BY <2>1 DEF Ingestions
<1>. QED  BY <1>1, <1>3, <1>4, <1>5, <1>6, <1>7

\* A completed batch is reconciled with what its scan observed.
LEMMA CompletedIsReconciled ==
    ASSUME NEW s, SoundLedger(s), NEW b \in Batch, Completions(s, b) # {}
    PROVE  IsReconciled(s, b)
<1>1. PICK k \in Completions(s, b) : TRUE
  OBVIOUS
<1>2. IsLedger(s) /\ ImportedOnce(s) /\ OneAfterTheOther(s) /\ CompletionIsEarned(s)
  BY DEF SoundLedger, IsLedger
<1>3. k \in First(Completions(s, b))
  <2>1. IsFiniteSet(Completions(s, b)) /\ Cardinality(Completions(s, b)) <= 1
    BY <1>2, Selected DEF ImportedOnce
  <2>2. \A i, j \in Completions(s, b) : i = j
    BY <2>1, AtMostOne
  <2>3. k \in Nat
    BY <1>1, <1>2, Selected, LedgerFacts
  <2>4. \A j \in Completions(s, b) : k <= j
    BY <1>1, <2>2, <2>3
  <2>. QED  BY <1>1, <2>4 DEF First
<1>4. Approvals(s, b) # {}
  BY <1>1, <1>2 DEF OneAfterTheOther
<1>5. /\ s[k].linked = Cardinality(Observed[b])
      /\ \A x \in ContentsOf(b) : Unlinked(s, 1..(k - 1), b, x) = {}
  BY <1>1, <1>2 DEF CompletionIsEarned
<1>6. ASSUME NEW o \in Observed[b]
      PROVE  ContentOf[o] \in ContentsLinked(s, b)
  <2> DEFINE x == ContentOf[o]
  <2>1. x \in Content /\ x \in ContentsOf(b)
    BY <1>6, ImportAssumption DEF ContentsOf
  <2>2. o \in Linked(s, 1..(k - 1), b, x)
    BY <1>5, <1>6, <2>1 DEF Unlinked
  <2>3. Links(s, 1..(k - 1), b, x) # {}
    BY <2>2 DEF Linked
  <2>4. 1..(k - 1) \subseteq DOMAIN s
    BY <1>1, <1>2, Selected, LedgerFacts
  <2>5. Links(s, DOMAIN s, b, x) # {}
    BY <2>3, <2>4 DEF Links
  <2>. QED  BY <2>1, <2>5 DEF ContentsLinked
<1>7. {o \in Observed[b] : ContentOf[o] \in ContentsLinked(s, b)} = Observed[b]
  BY <1>6
<1>. QED  BY <1>3, <1>4, <1>5, <1>7 DEF IsReconciled

LEMMA CompleteIsWhole ==
    ASSUME NEW s, SoundLedger(s), NEW x \in Content,
           BatchesLinking(s, x) # {},
           \A b \in BatchesLinking(s, x) : Completions(s, b) # {}
    PROVE  ProvenanceComplete(s, x)
<1>1. \A b \in BatchesLinking(s, x) : b \in Batch /\ Links(s, DOMAIN s, b, x) # {}
  BY DEF BatchesLinking
<1>2. IsIngested(s, x)
  <2>1. PICK b \in BatchesLinking(s, x) : TRUE
    OBVIOUS
  <2>2. PICK l \in Links(s, DOMAIN s, b, x) : TRUE
    BY <1>1, <2>1
  <2>. QED  BY <2>2, LinkIsOf DEF IsIngested
<1>3. ASSUME NEW b \in BatchesLinking(s, x)
      PROVE  IsReconciled(s, b)
  BY <1>1, <1>3, CompletedIsReconciled
<1>4. ASSUME NEW b \in BatchesLinking(s, x), NEW o \in Linked(s, DOMAIN s, b, x)
      PROVE  o \in Observed[b] /\ ContentOf[o] = x
  <2>1. PICK l \in Links(s, DOMAIN s, b, x) : o \in s[l].occurrences
    BY <1>4 DEF Linked
  <2>2. s[l].occurrences \subseteq {q \in Observed[b] : ContentOf[q] = x}
    BY <2>1, LinkIsOf
  <2>. QED  BY <2>1, <2>2
<1>. QED  BY <1>2, <1>3, <1>4 DEF ProvenanceComplete

\* An approved session's exposure is what its stream says last.
LEMMA SessionFollows ==
    ASSUME NEW s, SoundLedger(s), NEW d, IsSessionApproved(s, d)
    PROVE  \E i \in LastOf(s, SessionStream(d)) :
               LastOf(s, ExposureStream(s[i].exposure)) = {s[i].cause}
<1>1. PICK i \in LastOf(s, SessionStream(d)) :
        s[i].cause \in ActiveExposure(s) /\ s[s[i].cause].exposure = s[i].exposure
  BY DEF IsSessionApproved
<1> DEFINE c == s[i].cause
           n == s[i].exposure
<1>2. IsLedger(s) /\ \A j \in DOMAIN s : WellFormed(s[j])
  BY DEF SoundLedger, IsLedger
<1>3. DOMAIN s = 1..Len(s) /\ Len(s) \in Nat
  BY <1>2, LedgerFacts
<1>4. /\ c \in DOMAIN s /\ s[c].type = "exposure-enabled" /\ s[c].exposure = n
      /\ \A j \in DOMAIN s : s[j].type = "exposure-enabled" => j <= c
      /\ \A j \in DOMAIN s : s[j].type = "exposure-disabled" /\ j > c => s[j].exposure # n
  BY <1>1 DEF ActiveExposure, Latest, OfType
<1> HIDE DEF c, n
<1>5. c \in InStream(s, ExposureStream(n))
  BY <1>2, <1>4, WhereItLies DEF InStream
<1>6. ASSUME NEW j \in InStream(s, ExposureStream(n))
      PROVE  j <= c
  <2>1. j \in DOMAIN s /\ s[j].stream = ExposureStream(n)
    BY <1>6 DEF InStream
  <2>2. s[j].type \in {"exposure-enabled", "exposure-disabled"} /\ s[j].exposure = n
    BY <1>2, <2>1, WhatLiesThere
  <2>3. j \in Nat /\ c \in Nat
    BY <1>3, <1>4, <2>1
  <2>. QED  BY <1>4, <2>1, <2>2, <2>3
<1>7. c \in Nat /\ \A j \in InStream(s, ExposureStream(n)) : j \in Nat
  BY <1>3, <1>4 DEF InStream
<1>8. LastOf(s, ExposureStream(n)) = {c}
  <2>1. \A j : j \in LastOf(s, ExposureStream(n)) <=>
            /\ j \in InStream(s, ExposureStream(n))
            /\ \A q \in InStream(s, ExposureStream(n)) : q <= j
    BY DEF LastOf, Latest
  <2>2. c \in LastOf(s, ExposureStream(n))
    BY <1>5, <1>6, <2>1
  <2>3. ASSUME NEW j \in LastOf(s, ExposureStream(n))
        PROVE  j = c
    <3>1. j \in InStream(s, ExposureStream(n)) /\ c <= j
      BY <1>5, <2>1, <2>3
    <3>2. j <= c /\ j \in Nat
      BY <1>6, <1>7, <3>1
    <3>. QED  BY <1>7, <3>1, <3>2
  <2>. QED  BY <2>2, <2>3
<1>. QED  BY <1>1, <1>8 DEF c, n

\* Nothing restricted, something that may be exported: it is public safe.
LEMMA DefaultIsSafe ==
    ASSUME NEW s, NEW x, Exportable(s, x, {})
    PROVE  IsPublicSafe(s, x)
<1>1. /\ ~IsLocked(s, x, "quarantined") /\ ~IsLocked(s, x, "tombstoned")
      /\ \A r \in Restricted : ~IsActive(s, x, r)
      /\ \E r \in Restricted \union {PublicSafe} : IsActive(s, x, r)
  BY DEF Exportable
<1>. QED  BY <1>1 DEF IsPublicSafe

----------------------------------------------------------------------------
(* What people decided stands when anything but a review is appended.      *)

LEMMA LocksStay ==
    ASSUME NEW s, NEW t, NEW e, Grows(s, t, e), NEW x, NEW type, IsLocked(s, x, type)
    PROVE  IsLocked(t, x, type)
<1>1. PICK i : i \in InStream(s, EvidenceStream(x)) /\ i \in OfType(s, type)
  BY DEF IsLocked
<1>2. i \in InStream(t, EvidenceStream(x)) /\ i \in OfType(t, type)
  BY <1>1, InStreamGrows, OfTypeGrows
<1>. QED  BY <1>2 DEF IsLocked

LEMMA ReviewsStand ==
    ASSUME NEW s, NEW t, NEW e, Grows(s, t, e), e.type # "reviewed",
           NEW x, NEW tag, Reviews(s, x, tag) # {}
    PROVE  IsActive(t, x, tag) <=> IsActive(s, x, tag)
<1>1. \A i : i \in Reviews(t, x, tag) <=> i \in Reviews(s, x, tag)
  <2>1. \A i : i \in Decisions(s, x) => i \in 1..Len(s) /\ t[i] = s[i]
    BY DecisionsGrow DEF Grows
  <2>2. t[Len(t)] = e
    BY DEF Grows
  <2>. QED  BY <2>1, <2>2, DecisionsGrow DEF Reviews
<1>2. Reviews(t, x, tag) = Reviews(s, x, tag)
  BY <1>1
<1>3. \A i \in Reviews(s, x, tag) : t[i] = s[i]
  BY DecisionsGrow DEF Grows, Reviews
<1>4. \A i \in Latest(Reviews(s, x, tag)) : t[i] = s[i]
  BY <1>3 DEF Latest
<1>. QED  BY <1>2, <1>4 DEF IsActive

----------------------------------------------------------------------------
(* What a step keeps, whatever the operation.                              *)

Works(k) == k.op = "stage" /\ k.at # "done"

\* Calls are made, none dies.
Spends ==
    /\ budget' \in [Operation -> Nat]
    /\ budget'["die"] = budget["die"]
    /\ \A op \in Operation : budget[op] = 0 => budget'[op] = 0

LEMMA CallsKept ==
    ASSUME CallsGo, NEW c \in Caller, NEW k, call' = [call EXCEPT ![c] = k],
           log' = log \/ \E e : Grows(log, log', e) /\ WellFormed(e),
           Goes(log', k)
    PROVE  CallsGo'
<1>1. /\ call = [d \in Caller |-> call[d]]
      /\ \A d \in Caller : Goes(log, call[d])
  BY DEF CallsGo
<1>2. call' = [d \in Caller |-> IF d = c THEN k ELSE call[d]]
  BY <1>1
<1>3. ASSUME NEW d \in Caller
      PROVE  Goes(log', call'[d])
  <2>1. CASE d = c
    BY <1>2, <2>1
  <2>2. CASE d # c
    <3>1. call'[d] = call[d] /\ Goes(log, call[d])
      BY <1>1, <1>2, <2>2
    <3>2. CASE log' = log
      BY <3>1, <3>2
    <3>3. CASE \E e : Grows(log, log', e) /\ WellFormed(e)
      <4>1. PICK e : Grows(log, log', e) /\ WellFormed(e)
        BY <3>3
      <4>2. Goes(log', call[d])
        BY <3>1, <4>1, GoesLater
      <4>. QED  BY <3>1, <4>2
    <3>. QED  BY <3>2, <3>3
  <2>. QED  BY <2>1, <2>2
<1>4. call' = [d \in Caller |-> call'[d]]
  BY <1>2
<1>. QED  BY <1>3, <1>4 DEF CallsGo

LEMMA PassesKept ==
    ASSUME CallsGo, PassKnowsAll, NEW c \in Caller, NEW k, call' = [call EXCEPT ![c] = k],
           overlapped' = overlapped, k.op # "import",
           log' = log \/ \E e : Grows(log, log', e) /\ e.type \notin {"ingested", "linked"}
    PROVE  PassKnowsAll'
<1>1. SUFFICES ASSUME ~overlapped
               PROVE  /\ NoDuplicates(log')
                      /\ \A d, b \in Passes' : d = b
                      /\ \A d \in Passes' : OfType(log', "ingested") \union
                            OfType(log', "linked") \subseteq call'[d].known
  BY DEF PassKnowsAll
<1>2. /\ NoDuplicates(log)
      /\ \A d, b \in Passes : d = b
      /\ \A d \in Passes :
            OfType(log, "ingested") \union OfType(log, "linked") \subseteq call[d].known
  BY <1>1 DEF PassKnowsAll
<1>3. \A d \in Passes' : d \in Passes /\ call'[d] = call[d]
  BY DEF Passes, CallsGo
<1>4. /\ OfType(log', "ingested") = OfType(log, "ingested")
      /\ OfType(log', "linked") = OfType(log, "linked")
      /\ \A i \in OfType(log, "ingested") \union OfType(log, "linked") : log'[i] = log[i]
  <2>1. CASE log' = log
    BY <2>1
  <2>2. CASE \E e : Grows(log, log', e) /\ e.type \notin {"ingested", "linked"}
    <3>1. PICK e : Grows(log, log', e) /\ e.type \notin {"ingested", "linked"}
      BY <2>2
    <3>. QED  BY <3>1, OtherTypesStay
  <2>. QED  BY <2>1, <2>2
<1>5. NoDuplicates(log')
  BY <1>2, <1>4 DEF NoDuplicates
<1>. QED  BY <1>2, <1>3, <1>4, <1>5

LEMMA StagedKept ==
    ASSUME CallsGo, BudgetGoes, StagedAsOne, NEW c \in Caller, NEW k,
           call' = [call EXCEPT ![c] = k], Spends,
           \/ log' = log
           \/ \E e : /\ Grows(log, log', e)
                     /\ e.type = "proposed" => ~StagingAlone \/ Works(k)
                     /\ e.type = "staging-approved" => ~NoStaging,
           k.op = "send" => /\ k.event.type = "proposed" => ~StagingAlone
                            /\ k.event.type = "staging-approved" => ~NoStaging,
           Works(call[c]) => Works(k) \/ Staged(log') = CandidateSet
    PROVE  StagedAsOne'
<1>1. \A d \in Caller : call'[d] = IF d = c THEN k ELSE call[d]
  BY DEF CallsGo
<1>2. \A op \in {"propose", "prepare", "approve-staging"} : budget[op] = 0 => budget'[op] = 0
  BY DEF Spends, Operation
<1>3. NoneDied' <=> NoneDied
  BY DEF Spends, NoneDied
<1>4. ASSUME NoStaging
      PROVE  NoStaging'
  <2>1. OfType(log', "staging-approved") = {}
    <3>1. OfType(log, "staging-approved") = {}
      BY <1>4 DEF NoStaging
    <3>2. CASE \E e : Grows(log, log', e) /\ e.type # "staging-approved"
      <4>1. PICK e : Grows(log, log', e) /\ e.type # "staging-approved"
        BY <3>2
      <4>. QED  BY <3>1, <4>1, OfTypeGrows
    <3>. QED  BY <1>4, <3>1, <3>2
  <2>2. Quiet("staging-approved")'
    BY <1>1, <1>4 DEF NoStaging, Quiet
  <2>3. budget'["approve-staging"] = 0
    BY <1>2, <1>4 DEF NoStaging
  <2>. QED  BY <2>1, <2>2, <2>3 DEF NoStaging
<1>5. ASSUME StagingAlone, NoneDied => Staged(log) \in {{}, CandidateSet} \/ AtWork # {}
      PROVE  /\ StagingAlone'
             /\ NoneDied' => Staged(log') \in {{}, CandidateSet} \/ AtWork' # {}
  <2>1. Quiet("proposed")'
    BY <1>1, <1>5 DEF StagingAlone, Quiet
  <2>2. StagingAlone'
    BY <1>2, <1>5, <2>1 DEF StagingAlone
  <2>3. \A d \in Caller : d \in AtWork <=> Works(call[d])
    BY DEF AtWork, Works
  <2>4. \A d \in Caller : d \in AtWork' <=> Works(call'[d])
    BY DEF AtWork, Works
  <2>5. AtWork # {} => AtWork' # {} \/ Staged(log') = CandidateSet
    <3>1. AtWork \subseteq Caller
      BY DEF AtWork
    <3>. QED  BY <1>1, <2>3, <2>4, <3>1
  <2>6. Staged(log') = Staged(log) \/ AtWork' # {}
    <3>1. CASE log' = log
      BY <3>1
    <3>2. CASE \E e : Grows(log, log', e) /\ (e.type = "proposed" => Works(k))
      <4>1. PICK e : Grows(log, log', e) /\ (e.type = "proposed" => Works(k))
        BY <3>2
      <4>2. CASE e.type = "proposed"
        BY <1>1, <2>4, <4>1, <4>2
      <4>3. CASE e.type # "proposed"
        BY <4>1, <4>3, StagedStays
      <4>. QED  BY <4>2, <4>3
    <3>. QED  BY <1>5, <3>1, <3>2
  <2>. QED  BY <1>3, <1>5, <2>2, <2>5, <2>6
<1>. QED  BY <1>4, <1>5 DEF StagedAsOne

LEMMA LedgerKept ==
    ASSUME SoundLedger(log), log' = log \/ \E e : Grows(log, log', e) /\ Legal(log, e)
    PROVE  SoundLedger(log')
BY SoundLater

\* A step of an operation that is neither a pass nor a death.
LEMMA PlainStep ==
    ASSUME IInv, NEW c \in Caller, NEW k, call' = [call EXCEPT ![c] = k],
           overlapped' = overlapped, Spends, k.op # "import", Goes(log', k),
           \/ log' = log
           \/ \E e : /\ Grows(log, log', e) /\ Legal(log, e)
                     /\ e.type \notin {"ingested", "linked"}
                     /\ e.type = "proposed" => ~StagingAlone \/ Works(k)
                     /\ e.type = "staging-approved" => ~NoStaging,
           k.op = "send" => /\ k.event.type = "proposed" => ~StagingAlone
                            /\ k.event.type = "staging-approved" => ~NoStaging,
           Works(call[c]) => Works(k) \/ Staged(log') = CandidateSet
    PROVE  IInv'
<1>1. /\ SoundLedger(log) /\ CallsGo /\ overlapped \in BOOLEAN /\ PassKnowsAll
      /\ BudgetGoes /\ StagedAsOne
  BY DEF IInv
<1>2. SoundLedger(log')
  BY <1>1, LedgerKept
<1>3. CallsGo'
  <2>1. log' = log \/ \E e : Grows(log, log', e) /\ WellFormed(e)
    BY DEF Legal
  <2>. QED  BY <1>1, <2>1, CallsKept
<1>4. PassKnowsAll'
  <2>1. log' = log \/ \E e : Grows(log, log', e) /\ e.type \notin {"ingested", "linked"}
    OBVIOUS
  <2>. QED  BY <1>1, <2>1, PassesKept
<1>5. StagedAsOne'
  <2>1. \/ log' = log
        \/ \E e : /\ Grows(log, log', e)
                  /\ e.type = "proposed" => ~StagingAlone \/ Works(k)
                  /\ e.type = "staging-approved" => ~NoStaging
    OBVIOUS
  <2>. QED  BY <1>1, <2>1, StagedKept
<1>6. BudgetGoes'
  BY <1>1 DEF BudgetGoes, Spends
<1>. QED  BY <1>1, <1>2, <1>3, <1>4, <1>5, <1>6 DEF IInv

LEMMA MakesACall ==
    ASSUME BudgetGoes, NEW c, NEW op \in Operation \ {"die"}, Makes(c, op)
    PROVE  Spends /\ call[c] = Idle /\ budget[op] > 0 /\ ~Works(call[c])
<1>1. /\ call[c] = Idle /\ budget[op] > 0 /\ budget' = [budget EXCEPT ![op] = @ - 1]
      /\ budget \in [Operation -> Nat]
  BY DEF Makes, BudgetGoes
<1>2. "die" \in Operation
  BY DEF Operation
<1>3. budget' \in [Operation -> Nat]
  BY <1>1
<1>4. \A o \in Operation : budget'[o] = IF o = op THEN budget[o] - 1 ELSE budget[o]
  BY <1>1
<1>5. \A o \in Operation : budget[o] = 0 => budget'[o] = 0
  BY <1>1, <1>4
<1>6. budget'["die"] = budget["die"]
  BY <1>2, <1>4
<1>7. ~Works(call[c])
  BY <1>1 DEF Works, Idle
<1>. QED  BY <1>1, <1>3, <1>5, <1>6, <1>7 DEF Spends

LEMMA SpendsNothing ==
    ASSUME BudgetGoes, UNCHANGED budget
    PROVE  Spends
BY DEF BudgetGoes, Spends

----------------------------------------------------------------------------
(* Operations that prepare an event to append.                             *)

LEMMA SendingGoes ==
    ASSUME NEW s, IsLedger(s), NEW event, WellFormed(event),
           event.type \notin {"ingested", "linked", "import-completed"},
           NEW expected \in {0, 1, StreamLength(s, event.stream) + 1},
           NEW global \in {0, Len(s) + 1},
           event.type = "proposed" /\ event.prepared => global # 0,
           event.type \in {"import-approved", "reviewed", "accepted"} => expected # 0,
           expected \in {0, StreamLength(s, event.stream) + 1} => Legal(s, event)
    PROVE  Goes(s, Sending(event, expected, global))
<1> DEFINE k == Sending(event, expected, global)
<1>1. /\ k.op = "send" /\ k.event = event /\ k.expected = expected /\ k.global = global
  BY DEF Sending
<1>2. Len(s) \in Nat /\ StreamLength(s, event.stream) \in Nat
  BY LedgerFacts, StreamIsFinite
<1> HIDE DEF k
<1>3. /\ k.expected \in 0..(StreamLength(s, event.stream) + 1)
      /\ k.global \in 0..(Len(s) + 1)
  BY <1>1, <1>2
<1>4. Sends(k)
  BY <1>1 DEF Sends, k
<1>5. Open(s, k) => Legal(s, event)
  BY <1>1 DEF Open
<1>6. Good(s, k)
  BY <1>1, <1>3, <1>4, <1>5 DEF Good
<1>. QED  BY <1>6 DEF Goes, k

\* Nothing but their form makes these events legal.
LEMMA FormIsEnough ==
    ASSUME NEW s, NEW e, WellFormed(e),
           e.type \in {"classified", "quarantined", "tombstoned", "exposure-enabled",
                       "exposure-disabled", "session-approved", "session-revoked",
                       "staging-approved"} \/ (e.type = "proposed" /\ ~e.prepared)
    PROVE  Legal(s, e)
BY DEF Legal

\* A call that reads, and prepares an event or returns.
LEMMA CallPrepares ==
    ASSUME IInv, NEW c \in Caller, NEW op \in Operation \ {"die"}, Makes(c, op), NEW k,
           call' = [call EXCEPT ![c] = k], UNCHANGED <<log, overlapped>>,
           k.op \notin {"import", "stage"}, Goes(log, k),
           k.op = "send" => /\ k.event.type = "proposed" => op \in {"propose", "prepare"}
                            /\ k.event.type = "staging-approved" => op = "approve-staging"
    PROVE  IInv'
<1>1. Spends /\ budget[op] > 0 /\ ~Works(call[c])
  BY MakesACall DEF IInv
<1>2. op \in {"propose", "prepare"} => ~StagingAlone
  BY <1>1 DEF StagingAlone
<1>3. op = "approve-staging" => ~NoStaging
  BY <1>1 DEF NoStaging
<1>4. log' = log /\ Goes(log', k)
  OBVIOUS
<1>. QED  BY <1>1, <1>2, <1>3, <1>4, PlainStep

LEMMA IdleGoes ==
    \A s : Goes(s, Idle) /\ Idle.op = "idle" /\ ~Works(Idle)
BY DEF Goes, Idle, Works

LEMMA ApproveImportKeeps ==
    ASSUME IInv, NEW c \in Caller, NEW b \in Batch, NEW h \in Human, ApproveImport(c, b, h)
    PROVE  IInv'
<1> DEFINE e == [type |-> "import-approved", stream |-> ImportStream(b), batch |-> b, by |-> h]
           k == IF InStream(log, ImportStream(b)) = {} THEN Sending(e, 1, 0) ELSE Idle
<1>1. /\ Makes(c, "approve") /\ call' = [call EXCEPT ![c] = k]
      /\ UNCHANGED <<log, overlapped>>
  BY DEF ApproveImport
<1>2. WellFormed(e) /\ e.type = "import-approved" /\ e.batch = b /\ e.stream = ImportStream(b)
  BY DEF WellFormed
<1>3. IsLedger(log) /\ \A i \in DOMAIN log : WellFormed(log[i])
  BY DEF IInv, SoundLedger, IsLedger
<1>4. k.op \in {"send", "idle"} /\ (k.op = "send" => k.event.type = "import-approved")
  BY DEF Sending, Idle
<1> HIDE DEF e
<1>5. CASE InStream(log, ImportStream(b)) = {}
  <2>1. Approvals(log, b) = {}
    <3>1. \A i \in Approvals(log, b) : i \in InStream(log, ImportStream(b))
      BY <1>3, WhereItLies DEF Approvals, OfType, InStream
    <3>. QED  BY <1>5, <3>1
  <2>2. Legal(log, e)
    BY <1>2, <2>1 DEF Legal
  <2>3. Goes(log, Sending(e, 1, 0))
    BY <1>2, <1>3, <2>2, SendingGoes
  <2>4. Goes(log, k)
    BY <1>5, <2>3
  <2> HIDE DEF k
  <2>. QED  BY <1>1, <1>4, <2>4, CallPrepares DEF Operation
<1>6. CASE InStream(log, ImportStream(b)) # {}
  <2>1. Goes(log, k)
    BY <1>6, IdleGoes
  <2> HIDE DEF k
  <2>. QED  BY <1>1, <1>4, <2>1, CallPrepares DEF Operation
<1>. QED  BY <1>5, <1>6

\* Preparing an event on condition that its stream does not grow.
LEMMA PreparesOnStream ==
    ASSUME IInv, NEW c \in Caller, NEW op \in Operation \ {"die"}, Makes(c, op),
           NEW event, Legal(log, event), Prepares(c, event),
           event.type \notin {"ingested", "linked", "import-completed", "proposed",
                              "staging-approved"}
    PROVE  IInv'
<1> DEFINE n == StreamLength(log, event.stream) + 1
           k == Sending(event, n, 0)
<1>1. call' = [call EXCEPT ![c] = k] /\ UNCHANGED <<log, overlapped>>
  BY DEF Prepares, ExpectsSequence
<1>2. IsLedger(log)
  BY DEF IInv, SoundLedger, IsLedger
<1>3. n # 0
  BY <1>2, StreamIsFinite
<1>4. Goes(log, k)
  BY <1>2, <1>3, SendingGoes DEF Legal
<1>5. k.op = "send" /\ k.event = event
  BY DEF Sending
<1> HIDE DEF k
<1>. QED  BY <1>1, <1>4, <1>5, CallPrepares

LEMMA ClassifyKeeps ==
    ASSUME IInv, NEW c \in Caller, NEW x, NEW tags, ClassifyEvidence(c, x, tags)
    PROVE  IInv'
<1> DEFINE e == [type |-> "classified", stream |-> EvidenceStream(x), evidence |-> x,
                 tags |-> tags]
<1>1. Makes(c, "classify") /\ Prepares(c, e)
  BY DEF ClassifyEvidence
<1>2. e.type = "classified" /\ e.stream = EvidenceStream(e.evidence)
  OBVIOUS
<1> HIDE DEF e
<1>3. WellFormed(e)
  BY <1>2 DEF WellFormed
<1>4. Legal(log, e)
  BY <1>2, <1>3, FormIsEnough
<1>. QED  BY <1>1, <1>2, <1>4, PreparesOnStream DEF Operation

LEMMA ReviewKeeps ==
    ASSUME IInv, NEW c \in Caller, NEW x, NEW t, NEW action,
           ReviewEvidenceGovernance(c, x, t, action)
    PROVE  IInv'
<1>1. PICK last \in Latest(Decisions(log, x)) :
        Prepares(c, [type |-> "reviewed", stream |-> EvidenceStream(x), evidence |-> x,
                     tag |-> t, action |-> action, cause |-> last])
  BY DEF ReviewEvidenceGovernance
<1> DEFINE e == [type |-> "reviewed", stream |-> EvidenceStream(x), evidence |-> x,
                 tag |-> t, action |-> action, cause |-> last]
<1>2. Makes(c, "review") /\ Prepares(c, e)
  BY <1>1 DEF ReviewEvidenceGovernance
<1>3. e.type = "reviewed" /\ WellFormed(e) /\ e.evidence = x /\ e.cause = last
  BY DEF WellFormed
<1> HIDE DEF e
<1>4. {last} = Latest(Decisions(log, x))
  <2>1. IsLedger(log)
    BY DEF IInv, SoundLedger, IsLedger
  <2>2. Decisions(log, x) \subseteq 1..Len(log) /\ Len(log) \in Nat
    BY <2>1, LedgerFacts DEF Decisions, InStream
  <2>3. \A j \in Latest(Decisions(log, x)) : j = last
    BY <1>1, <2>2 DEF Latest
  <2>. QED  BY <1>1, <2>3
<1>5. Legal(log, e)
  BY <1>3, <1>4 DEF Legal
<1>. QED  BY <1>2, <1>3, <1>5, PreparesOnStream DEF Operation

LEMMA LockKeeps ==
    ASSUME IInv, NEW c \in Caller, NEW x, NEW type \in {"quarantined", "tombstoned"},
           LockEvidence(c, x, type)
    PROVE  IInv'
<1> DEFINE e == [type |-> type, stream |-> EvidenceStream(x), evidence |-> x]
<1>1. Makes(c, "lock") /\ Prepares(c, e)
  BY DEF LockEvidence
<1>2. e.type = type /\ e.stream = EvidenceStream(e.evidence)
  OBVIOUS
<1> HIDE DEF e
<1>3. WellFormed(e)
  BY <1>2 DEF WellFormed
<1>4. Legal(log, e)
  BY <1>2, <1>3, FormIsEnough
<1>. QED  BY <1>1, <1>2, <1>4, PreparesOnStream DEF Operation

LEMMA RecordExportKeeps ==
    ASSUME IInv, NEW c \in Caller, NEW id, NEW included, NEW optIns,
           RecordExport(c, id, included, optIns)
    PROVE  IInv'
<1> DEFINE e == [type |-> "exported", stream |-> ExportStream(id), asOf |-> Len(log),
                 included |-> included, optIns |-> optIns]
           k == Sending(e, 1, 0)
<1>1. /\ Makes(c, "export") /\ call' = [call EXCEPT ![c] = k]
      /\ UNCHANGED <<log, overlapped>>
      /\ \A x \in included : Exportable(log, x, optIns)
  BY DEF RecordExport
<1>2. IsLedger(log)
  BY DEF IInv, SoundLedger, IsLedger
<1>3. e.type = "exported" /\ e.stream = ExportStream(id) /\ e.asOf = Len(log)
      /\ e.included = included /\ e.optIns = optIns
  OBVIOUS
<1>4. k.op = "send" /\ k.event = e
  BY DEF Sending
<1> HIDE DEF e
<1>5. WellFormed(e)
  BY <1>3, StreamsApart DEF WellFormed
<1>6. e.asOf \in 0..Len(log) /\ Prefix(log, e.asOf) = log
  BY <1>2, <1>3, LedgerFacts
<1>7. Legal(log, e)
  BY <1>1, <1>3, <1>5, <1>6 DEF Legal
<1>8. Goes(log, k)
  BY <1>2, <1>3, <1>5, <1>7, SendingGoes
<1> HIDE DEF k
<1>. QED  BY <1>1, <1>3, <1>4, <1>8, CallPrepares DEF Operation

LEMMA EnableKeeps ==
    ASSUME IInv, NEW c \in Caller, NEW n, EnableExposure(c, n)
    PROVE  IInv'
<1> DEFINE e == [type |-> "exposure-enabled", stream |-> ExposureStream(n), exposure |-> n]
<1>1. Makes(c, "expose") /\ Prepares(c, e)
  BY DEF EnableExposure
<1>2. e.type = "exposure-enabled" /\ e.stream = ExposureStream(e.exposure)
  OBVIOUS
<1> HIDE DEF e
<1>3. WellFormed(e)
  BY <1>2 DEF WellFormed
<1>4. Legal(log, e)
  BY <1>2, <1>3, FormIsEnough
<1>. QED  BY <1>1, <1>2, <1>4, PreparesOnStream DEF Operation

LEMMA DisableKeeps ==
    ASSUME IInv, NEW c \in Caller, NEW n, DisableExposure(c, n)
    PROVE  IInv'
<1> DEFINE e == [type |-> "exposure-disabled", stream |-> ExposureStream(n), exposure |-> n]
<1>1. Makes(c, "expose") /\ Prepares(c, e)
  BY DEF DisableExposure
<1>2. e.type = "exposure-disabled" /\ e.stream = ExposureStream(e.exposure)
  OBVIOUS
<1> HIDE DEF e
<1>3. WellFormed(e)
  BY <1>2 DEF WellFormed
<1>4. Legal(log, e)
  BY <1>2, <1>3, FormIsEnough
<1>. QED  BY <1>1, <1>2, <1>4, PreparesOnStream DEF Operation

LEMMA ReadExposureKeeps ==
    ASSUME IInv, NEW c \in Caller, NEW d \in Session, NEW n \in Exposure, ReadExposure(c, d, n)
    PROVE  IInv'
<1>1. PICK i \in LastOf(log, ExposureStream(n)) :
        call' = [call EXCEPT ![c] =
            [op |-> "approve-session", session |-> d, exposure |-> n, cause |-> i]]
  BY DEF ReadExposure
<1> DEFINE k == [op |-> "approve-session", session |-> d, exposure |-> n, cause |-> i]
<1>2. Makes(c, "session") /\ UNCHANGED <<log, overlapped>>
  BY DEF ReadExposure
<1>3. IsLedger(log)
  BY DEF IInv, SoundLedger, IsLedger
<1>4. i \in Nat
  BY <1>1, <1>3, LedgerFacts DEF LastOf, Latest, InStream
<1>5. k.op = "approve-session" /\ k \in SessionCall
  BY <1>4 DEF SessionCall
<1> HIDE DEF k
<1>6. Goes(log, k)
  BY <1>5 DEF Goes
<1>7. call' = [call EXCEPT ![c] = k]
  BY <1>1 DEF k
<1>. QED  BY <1>2, <1>5, <1>6, <1>7, CallPrepares DEF Operation

LEMMA ApproveSessionKeeps ==
    ASSUME IInv, NEW c \in Caller, ApproveDeviceSession(c)
    PROVE  IInv'
<1> DEFINE e == [type |-> "session-approved", stream |-> SessionStream(call[c].session),
                 exposure |-> call[c].exposure, cause |-> call[c].cause]
           k == ExpectsSequence(e)
<1>1. /\ call[c].op = "approve-session" /\ call' = [call EXCEPT ![c] = k]
      /\ UNCHANGED <<log, overlapped, budget>>
  BY DEF ApproveDeviceSession, Prepares
<1>2. e.type = "session-approved" /\ e.stream = SessionStream(call[c].session)
  OBVIOUS
<1>3. k = Sending(e, StreamLength(log, e.stream) + 1, 0)
  BY DEF ExpectsSequence
<1> HIDE DEF e, k
<1>4. WellFormed(e)
  BY <1>2, StreamsApart DEF WellFormed
<1>5. Legal(log, e)
  BY <1>2, <1>4, FormIsEnough
<1>6. IsLedger(log) /\ BudgetGoes
  BY DEF IInv, SoundLedger, IsLedger
<1>7. Goes(log, k)
  BY <1>2, <1>3, <1>4, <1>5, <1>6, SendingGoes
<1>8. k.op = "send" /\ k.event = e
  BY <1>3 DEF Sending
<1>9. Spends /\ ~Works(call[c])
  BY <1>1, <1>6, SpendsNothing DEF Works
<1>10. log' = log /\ Goes(log', k)
  BY <1>1, <1>7
<1>. QED  BY <1>1, <1>2, <1>8, <1>9, <1>10, PlainStep

LEMMA RevokeKeeps ==
    ASSUME IInv, NEW c \in Caller, NEW d, RevokeDeviceSession(c, d)
    PROVE  IInv'
<1> DEFINE e == [type |-> "session-revoked", stream |-> SessionStream(d)]
<1>1. Makes(c, "session") /\ Prepares(c, e)
  BY DEF RevokeDeviceSession
<1>2. e.type = "session-revoked" /\ e.stream = SessionStream(d)
  OBVIOUS
<1> HIDE DEF e
<1>3. WellFormed(e)
  BY <1>2, StreamsApart DEF WellFormed
<1>4. Legal(log, e)
  BY <1>2, <1>3, FormIsEnough
<1>. QED  BY <1>1, <1>2, <1>4, PreparesOnStream DEF Operation

LEMMA PrepareKeeps ==
    ASSUME IInv, NEW c \in Caller, NEW a, NEW x, PrepareAssertionCandidate(c, a, x)
    PROVE  IInv'
<1>1. PICK i \in First(Ingestions(log, DOMAIN log, x)) :
        call' = [call EXCEPT ![c] = ExpectsGlobalCount(Proposal(a, x, i, TRUE))]
  BY DEF PrepareAssertionCandidate
<1> DEFINE e == Proposal(a, x, i, TRUE)
           k == Sending(e, 0, Len(log) + 1)
<1>2. Makes(c, "prepare") /\ UNCHANGED <<log, overlapped>> /\ Eligible(log, x)
  BY DEF PrepareAssertionCandidate
<1>0. /\ e.type = "proposed" /\ e.evidence = x /\ e.prepared = TRUE
      /\ e.stream = AssertionStream(e.assertion)
  BY DEF Proposal
<1>4. k.op = "send" /\ k.event = e
  BY DEF Sending
<1>5. call' = [call EXCEPT ![c] = k]
  BY <1>1 DEF ExpectsGlobalCount
<1> HIDE DEF e
<1>3. e.type = "proposed" /\ e.evidence = x /\ e.prepared = TRUE /\ WellFormed(e)
  BY <1>0 DEF WellFormed
<1>6. Legal(log, e)
  BY <1>2, <1>3 DEF Legal
<1>7. IsLedger(log) /\ Len(log) + 1 # 0
  <2>1. IsLedger(log)
    BY DEF IInv, SoundLedger, IsLedger
  <2>. QED  BY <2>1, LedgerFacts
<1>8. Goes(log, k)
  BY <1>3, <1>6, <1>7, SendingGoes
<1> HIDE DEF k
<1>. QED  BY <1>2, <1>3, <1>4, <1>5, <1>8, CallPrepares DEF Operation

LEMMA ProposeKeeps ==
    ASSUME IInv, NEW c \in Caller, NEW a, NEW x, ProposeAssertion(c, a, x)
    PROVE  IInv'
<1>1. PICK i \in First(Ingestions(log, DOMAIN log, x)) :
        call' = [call EXCEPT ![c] = ExpectsNothing(Proposal(a, x, i, FALSE))]
  BY DEF ProposeAssertion
<1> DEFINE e == Proposal(a, x, i, FALSE)
           k == Sending(e, 0, 0)
<1>2. Makes(c, "propose") /\ UNCHANGED <<log, overlapped>>
  BY DEF ProposeAssertion
<1>0. e.type = "proposed" /\ e.prepared = FALSE /\ e.stream = AssertionStream(e.assertion)
  BY DEF Proposal
<1>4. k.op = "send" /\ k.event = e
  BY DEF Sending
<1>5. call' = [call EXCEPT ![c] = k]
  BY <1>1 DEF ExpectsNothing
<1> HIDE DEF e
<1>3. e.type = "proposed" /\ e.prepared = FALSE /\ WellFormed(e)
  BY <1>0 DEF WellFormed
<1>6. Legal(log, e)
  BY <1>3, FormIsEnough
<1>7. IsLedger(log)
  BY DEF IInv, SoundLedger, IsLedger
<1>8. Goes(log, k)
  BY <1>3, <1>6, <1>7, SendingGoes
<1> HIDE DEF k
<1>. QED  BY <1>2, <1>3, <1>4, <1>5, <1>8, CallPrepares DEF Operation

\* Only the first proposal of an assertion is accepted: if that one is not yet,
\* none is.
LEMMA NoneAccepted ==
    ASSUME NEW s, SoundLedger(s), NEW a, NEW p \in First(Proposals(s, a)),
           \A i \in Acceptances(s, a) : s[i].cause # p
    PROVE  Acceptances(s, a) = {}
<1>1. SUFFICES ASSUME NEW i \in Acceptances(s, a) PROVE FALSE
  OBVIOUS
<1>2. i \in OfType(s, "accepted") /\ s[i].assertion = a
  BY <1>1 DEF Acceptances
<1>3. s[i].cause \in First(Proposals(s, a))
  BY <1>2 DEF SoundLedger, FirstIsAccepted
<1>4. \A q \in Proposals(s, a) : q \in Nat
  BY SoundIsLedger, LedgerFacts, Selected
<1>5. s[i].cause = p
  BY <1>3, <1>4 DEF First
<1>. QED  BY <1>1, <1>5

LEMMA AcceptKeeps ==
    ASSUME IInv, NEW c \in Caller, NEW a, NEW h, AcceptAssertion(c, a, h)
    PROVE  IInv'
<1>1. PICK p \in First(Proposals(log, a)) :
        /\ \A i \in Acceptances(log, a) : log[i].cause # p
        /\ Prepares(c, [type |-> "accepted", stream |-> AssertionStream(a), assertion |-> a,
                        by |-> h, cause |-> p])
  BY DEF AcceptAssertion
<1> DEFINE e == [type |-> "accepted", stream |-> AssertionStream(a), assertion |-> a,
                 by |-> h, cause |-> p]
<1>2. Makes(c, "accept") /\ Prepares(c, e)
  BY <1>1 DEF AcceptAssertion
<1>3. /\ e.type = "accepted" /\ e.stream = AssertionStream(e.assertion) /\ e.assertion = a
      /\ e.cause = p
  OBVIOUS
<1> HIDE DEF e
<1>4. WellFormed(e)
  BY <1>3 DEF WellFormed
<1>5. Acceptances(log, a) = {}
  BY <1>1, NoneAccepted DEF IInv
<1>6. Legal(log, e)
  BY <1>1, <1>3, <1>4, <1>5 DEF Legal
<1>. QED  BY <1>2, <1>3, <1>6, PreparesOnStream DEF Operation

LEMMA ApproveStagingKeeps ==
    ASSUME IInv, NEW c \in Caller, NEW h, ApproveStaging(c, h)
    PROVE  IInv'
<1> DEFINE e == [type |-> "staging-approved", stream |-> StagingStream, by |-> h]
           k == Sending(e, 1, 0)
<1>1. /\ Makes(c, "approve-staging") /\ call' = [call EXCEPT ![c] = k]
      /\ UNCHANGED <<log, overlapped>>
  BY DEF ApproveStaging
<1>2. e.type = "staging-approved" /\ e.stream = StagingStream
  OBVIOUS
<1>3. k.op = "send" /\ k.event = e
  BY DEF Sending
<1> HIDE DEF e
<1>4. WellFormed(e)
  BY <1>2 DEF WellFormed
<1>5. Legal(log, e)
  BY <1>2, <1>4, FormIsEnough
<1>6. IsLedger(log)
  BY DEF IInv, SoundLedger, IsLedger
<1>7. Goes(log, k)
  BY <1>2, <1>4, <1>5, <1>6, SendingGoes
<1> HIDE DEF k
<1>. QED  BY <1>1, <1>2, <1>3, <1>7, CallPrepares DEF Operation

----------------------------------------------------------------------------
(* The append, and death.                                                  *)

LEMMA GoesByItsOperation ==
    ASSUME NEW s, NEW k, Goes(s, k)
    PROVE  /\ k.op = "send" => Good(s, k)
           /\ k.op = "import" => PassGoes(s, k)
           /\ k.op = "adapter" => AdapterGoes(s, k)
           /\ k.op = "stage" => StageGoes(s, k)
           /\ k.op \in {"idle", "send", "import", "approve-session", "adapter", "stage"}
<1>1. Idle.op = "idle"
  BY DEF Idle
<1>2. Good(s, k) => k.op = "send"
  BY DEF Good, Sends
<1>. QED  BY <1>1, <1>2 DEF Goes

LEMMA SendKeeps ==
    ASSUME IInv, NEW c \in Caller, Send(c), UNCHANGED overlapped
    PROVE  IInv'
<1> DEFINE k == call[c]
<1>1. /\ k.op = "send" /\ call' = [call EXCEPT ![c] = Idle] /\ UNCHANGED budget
      /\ log' = IF Holds(c) THEN Append(log, k.event) ELSE log
  BY DEF Send
<1>2. /\ IsLedger(log) /\ CallsGo /\ BudgetGoes
  BY DEF IInv, SoundLedger, IsLedger
<1>3. Good(log, k)
  BY <1>1, <1>2, GoesByItsOperation DEF CallsGo
<1>4. Spends /\ ~Works(call[c])
  BY <1>1, <1>2, SpendsNothing DEF Works
<1>5. /\ k.event.type \notin {"ingested", "linked"}
      /\ k.event.type = "proposed" => ~StagingAlone
      /\ k.event.type = "staging-approved" => ~NoStaging
  BY <1>1, <1>3 DEF Good, StagingAlone, NoStaging, Quiet
<1>6. CASE Holds(c)
  <2>1. Open(log, k)
    BY <1>6 DEF Holds, Open
  <2>2. Legal(log, k.event)
    BY <1>3, <2>1 DEF Good
  <2>3. Grows(log, log', k.event)
    BY <1>1, <1>2, <1>6, GrowsByAppend
  <2> DEFINE e == k.event
  <2>4. /\ Grows(log, log', e) /\ Legal(log, e) /\ e.type \notin {"ingested", "linked"}
        /\ e.type = "proposed" => ~StagingAlone \/ Works(Idle)
        /\ e.type = "staging-approved" => ~NoStaging
    BY <1>5, <2>2, <2>3
  <2> HIDE DEF e, k
  <2>. QED  BY <1>1, <1>4, <2>4, IdleGoes, PlainStep
<1>7. CASE ~Holds(c)
  <2>1. log' = log
    BY <1>1, <1>7
  <2> HIDE DEF k
  <2>. QED  BY <1>1, <1>4, <2>1, IdleGoes, PlainStep
<1>. QED  BY <1>6, <1>7

LEMMA DieKeeps ==
    ASSUME IInv, NEW c \in Caller, Die(c), UNCHANGED overlapped
    PROVE  IInv'
<1>1. /\ budget["die"] > 0 /\ budget' = [budget EXCEPT !["die"] = @ - 1]
      /\ call' = [call EXCEPT ![c] = Idle] /\ UNCHANGED <<log, overlapped>>
  BY DEF Die
<1>2. /\ SoundLedger(log) /\ CallsGo /\ overlapped \in BOOLEAN /\ PassKnowsAll
      /\ BudgetGoes /\ StagedAsOne
  BY DEF IInv
<1>3. budget \in [Operation -> Nat] /\ budget["die"] = 1
  BY <1>1, <1>2 DEF BudgetGoes, Operation
<1>4. /\ budget' \in [Operation -> Nat] /\ budget'["die"] = 0
      /\ budget'["propose"] = budget["propose"] /\ budget'["prepare"] = budget["prepare"]
      /\ budget'["approve-staging"] = budget["approve-staging"]
  BY <1>1, <1>3 DEF Operation
<1>5. Goes(log', Idle)
  BY IdleGoes
<1>6. CallsGo'
  BY <1>1, <1>2, <1>5, CallsKept
<1>7. PassKnowsAll'
  BY <1>1, <1>2, IdleGoes, PassesKept
<1>8. \A type : Quiet(type) => Quiet(type)'
  BY <1>1, <1>2, IdleGoes DEF Quiet, CallsGo
<1>9. StagedAsOne'
  <2>1. NoStaging => NoStaging'
    BY <1>1, <1>4, <1>8 DEF NoStaging
  <2>2. StagingAlone => StagingAlone' /\ ~NoneDied'
    BY <1>4, <1>8 DEF StagingAlone, NoneDied
  <2>. QED  BY <1>2, <2>1, <2>2 DEF StagedAsOne
<1>. QED  BY <1>1, <1>2, <1>4, <1>6, <1>7, <1>9 DEF IInv, BudgetGoes

----------------------------------------------------------------------------
(* Passes.                                                                 *)

LEMMA PassStep ==
    ASSUME IInv, NEW c \in Caller, NEW k, call' = [call EXCEPT ![c] = k],
           overlapped' \in BOOLEAN, PassKnowsAll', Spends, Goes(log', k),
           k.op \in {"import", "idle"}, call[c].op # "stage",
           \/ log' = log
           \/ \E e : /\ Grows(log, log', e) /\ Legal(log, e)
                     /\ e.type \in {"ingested", "linked", "import-completed"}
    PROVE  IInv'
<1>1. /\ SoundLedger(log) /\ CallsGo /\ BudgetGoes /\ StagedAsOne
  BY DEF IInv
<1>2. SoundLedger(log')
  BY <1>1, LedgerKept
<1>3. CallsGo'
  <2>1. log' = log \/ \E e : Grows(log, log', e) /\ WellFormed(e)
    BY DEF Legal
  <2>. QED  BY <1>1, <2>1, CallsKept
<1>4. StagedAsOne'
  <2>1. \/ log' = log
        \/ \E e : /\ Grows(log, log', e)
                  /\ e.type = "proposed" => ~StagingAlone \/ Works(k)
                  /\ e.type = "staging-approved" => ~NoStaging
    OBVIOUS
  <2>2. ~Works(call[c]) /\ k.op # "send"
    BY DEF Works
  <2>. QED  BY <1>1, <2>1, <2>2, StagedKept
<1>5. BudgetGoes'
  BY <1>1 DEF BudgetGoes, Spends
<1>. QED  BY <1>2, <1>3, <1>4, <1>5 DEF IInv

LEMMA PassCallIs ==
    ASSUME CallsGo, NEW c \in Caller, call[c].op = "import"
    PROVE  PassGoes(log, call[c])
BY GoesByItsOperation DEF CallsGo

LEMMA StartImportKeeps ==
    ASSUME IInv, NEW c \in Caller, NEW b \in Batch, StartImport(c, b)
    PROVE  IInv'
<1> DEFINE p == [op |-> "import", batch |-> b, known |-> DOMAIN log,
                 todo |-> ContentsOf(b), group |-> NoContent]
           k == IF Completions(log, b) = {} THEN p ELSE Idle
<1>1. /\ Makes(c, "import") /\ Approvals(log, b) # {} /\ call' = [call EXCEPT ![c] = k]
      /\ overlapped' = (overlapped \/ (Completions(log, b) = {} /\ Passes # {}))
      /\ log' = log
  BY DEF StartImport
<1>2. /\ IsLedger(log) /\ CallsGo /\ BudgetGoes /\ PassKnowsAll /\ overlapped \in BOOLEAN
  BY DEF IInv, SoundLedger, IsLedger
<1>3. Spends /\ call[c].op # "stage" /\ call[c].op # "import"
  BY <1>1, <1>2, MakesACall DEF Operation, Idle
<1>4. /\ p.op = "import" /\ p.batch = b /\ p.known = DOMAIN log /\ p.todo = ContentsOf(b)
      /\ p.group = NoContent
  OBVIOUS
<1>5. Goes(log, p)
  <2>1. DOMAIN log \in SUBSET Nat
    BY <1>2, LedgerFacts
  <2>2. ContentsOf(b) \in SUBSET Content
    BY ImportAssumption DEF ContentsOf
  <2>3. p \in PassCall
    BY <2>1, <2>2 DEF PassCall
  <2> HIDE DEF p
  <2>4. PassGoes(log, p)
    BY <1>1, <1>4, <2>3 DEF PassGoes
  <2>. QED  BY <1>4, <2>4 DEF Goes
<1>6. k.op \in {"import", "idle"} /\ (k.op = "import" => k = p) /\ Goes(log, k)
  BY <1>5, IdleGoes
<1>7. \A d \in Caller : call'[d] = IF d = c THEN k ELSE call[d]
  BY <1>1, <1>2 DEF CallsGo
<1>8. PassKnowsAll'
  <2>1. SUFFICES ASSUME ~overlapped'
                 PROVE  /\ NoDuplicates(log')
                        /\ \A d, f \in Passes' : d = f
                        /\ \A d \in Passes' : OfType(log', "ingested") \union
                              OfType(log', "linked") \subseteq call'[d].known
    BY DEF PassKnowsAll
  <2>2. ~overlapped /\ (Completions(log, b) = {} => Passes = {})
    BY <1>1, <1>2, <2>1
  <2>3. NoDuplicates(log) /\ \A d \in Passes : OfType(log, "ingested") \union
            OfType(log, "linked") \subseteq call[d].known
    BY <1>2, <2>2 DEF PassKnowsAll
  <2>4. \A d \in Passes' : (d \in Passes /\ d # c) \/ (d = c /\ k.op = "import")
    BY <1>7 DEF Passes
  <2>5. CASE Completions(log, b) = {}
    <3>1. \A d \in Passes' : d = c
      BY <2>2, <2>4, <2>5
    <3>2. call'[c] = p
      BY <1>7, <2>5
    <3>3. OfType(log', "ingested") \union OfType(log', "linked") \subseteq DOMAIN log
      BY <1>1 DEF OfType
    <3>. QED  BY <1>1, <1>4, <2>3, <3>1, <3>2, <3>3
  <2>6. CASE Completions(log, b) # {}
    <3>1. k.op = "idle"
      BY <2>6, IdleGoes
    <3>2. \A d \in Passes' : d \in Passes /\ call'[d] = call[d]
      BY <1>7, <2>4, <3>1, <1>3 DEF Passes
    <3>3. \A d, f \in Passes : d = f
      BY <1>2, <2>2 DEF PassKnowsAll
    <3>. QED  BY <1>1, <2>3, <3>2, <3>3
  <2>. QED  BY <2>5, <2>6
<1>9. overlapped' \in BOOLEAN
  BY <1>1, <1>2
<1> HIDE DEF k
<1>. QED  BY <1>1, <1>3, <1>6, <1>8, <1>9, PassStep

LEMMA LearntIs ==
    ASSUME NEW k \in PassCall, NEW known \in SUBSET Nat, NEW todo \in SUBSET Content,
           NEW group \in Content \union {NoContent}
    PROVE  /\ [k EXCEPT !.known = known, !.group = group] \in PassCall
           /\ [k EXCEPT !.known = known, !.todo = todo, !.group = group] \in PassCall
BY DEF PassCall

LEMMA PassLearns ==
    ASSUME NEW s, NEW t, NEW e, Grows(s, t, e), NEW k, PassGoes(s, k),
           NEW m \in PassCall, m.batch = k.batch, m.known = k.known \union {Len(t)},
           m.todo \subseteq k.todo, m.group \in m.todo \union {NoContent},
           \A x \in k.todo \ m.todo : Unlinked(t, m.known, k.batch, x) = {}
    PROVE  PassGoes(t, m)
<1>1. PassGoes(t, k)
  BY PassGoesLater
<1>2. /\ k.batch \in Batch /\ k.known \in SUBSET Nat /\ k.todo \in SUBSET Content
      /\ k.known \subseteq DOMAIN t /\ k.todo \subseteq ContentsOf(k.batch)
      /\ Approvals(t, k.batch) # {}
      /\ \A x \in ContentsOf(k.batch) \ k.todo : Unlinked(t, k.known, k.batch, x) = {}
  BY <1>1 DEF PassGoes, PassCall
<1>3. Len(t) \in Nat /\ Len(t) \in DOMAIN t
  BY DEF Grows
<1>6. \A x \in ContentsOf(k.batch) \ m.todo : Unlinked(t, m.known, k.batch, x) = {}
  <2>1. TAKE x \in ContentsOf(k.batch) \ m.todo
  <2>2. CASE x \in k.todo
    BY <2>2
  <2>3. CASE x \notin k.todo
    <3>1. Unlinked(t, k.known, k.batch, x) = {}
      BY <1>2, <2>3
    <3>2. Unlinked(t, m.known, k.batch, x) \subseteq Unlinked(t, k.known, k.batch, x)
      <4>1. k.known \subseteq m.known
        OBVIOUS
      <4>. QED  BY <4>1, MoreIsKnown
    <3>. QED  BY <3>1, <3>2
  <2>. QED  BY <2>2, <2>3
<1>7. m.known \subseteq DOMAIN t /\ m.todo \subseteq ContentsOf(m.batch)
  BY <1>2, <1>3
<1>. QED  BY <1>2, <1>6, <1>7 DEF PassGoes

\* A pass that appends knows what it appended.
LEMMA PassKnowsMore ==
    ASSUME CallsGo, PassKnowsAll, NEW c \in Caller, call[c].op = "import",
           NEW k, call' = [call EXCEPT ![c] = k], overlapped' = overlapped,
           NEW e, Grows(log, log', e), k.known = call[c].known \union {Len(log')},
           ~overlapped => NoDuplicates(log')
    PROVE  PassKnowsAll'
<1>1. SUFFICES ASSUME ~overlapped
               PROVE  /\ \A d, f \in Passes' : d = f
                      /\ \A d \in Passes' : OfType(log', "ingested") \union
                            OfType(log', "linked") \subseteq call'[d].known
  BY DEF PassKnowsAll
<1>2. /\ c \in Passes /\ \A d \in Passes : d = c
      /\ OfType(log, "ingested") \union OfType(log, "linked") \subseteq call[c].known
  BY <1>1 DEF PassKnowsAll, Passes
<1>3. \A d \in Caller : call'[d] = IF d = c THEN k ELSE call[d]
  BY DEF CallsGo
<1>4. \A d \in Passes' : d = c
  BY <1>2, <1>3 DEF Passes
<1>5. \A i : /\ i \in OfType(log', "ingested") => i \in OfType(log, "ingested") \/ i = Len(log')
             /\ i \in OfType(log', "linked") => i \in OfType(log, "linked") \/ i = Len(log')
  BY OfTypeGrows
<1>. QED  BY <1>2, <1>3, <1>4, <1>5

LEMMA IngestGroupKeeps ==
    ASSUME IInv, NEW c \in Caller, NEW x \in Content, IngestGroup(c, x)
    PROVE  IInv'
<1> DEFINE p == call[c]
           e == [type |-> "ingested", stream |-> EvidenceStream(x), evidence |-> x,
                 batch |-> p.batch]
           k == [p EXCEPT !.known = @ \union {Len(log) + 1}, !.group = x]
<1>1. /\ p.op = "import" /\ x \in p.todo /\ Ingestions(log, p.known, x) = {}
      /\ log' = Append(log, e)
      /\ call' = [call EXCEPT ![c].known = @ \union {Len(log) + 1}, ![c].group = x]
      /\ UNCHANGED <<budget, overlapped>>
  BY DEF IngestGroup
<1>2. /\ IsLedger(log) /\ CallsGo /\ BudgetGoes /\ PassKnowsAll /\ overlapped \in BOOLEAN
  BY DEF IInv, SoundLedger, IsLedger
<1>3. Grows(log, log', e) /\ Len(log') = Len(log) + 1
  BY <1>1, <1>2, GrowsByAppend DEF Grows
<1>4. PassGoes(log, p)
  BY <1>1, <1>2, PassCallIs
<1>5. call' = [call EXCEPT ![c] = k]
  BY <1>1
<1>6. e.type = "ingested" /\ e.stream = EvidenceStream(e.evidence) /\ e.evidence = x
  OBVIOUS
<1>7. /\ k \in PassCall /\ k.op = "import" /\ k.batch = p.batch
      /\ k.known = p.known \union {Len(log')} /\ k.todo = p.todo /\ k.group = x
  <2>1. p \in PassCall /\ p.known \union {Len(log) + 1} \in SUBSET Nat
    BY <1>3, <1>4 DEF PassGoes, PassCall, Grows
  <2> HIDE DEF p
  <2>2. k \in PassCall
    BY <2>1, LearntIs
  <2>3. /\ k.op = "import" /\ k.batch = p.batch /\ k.todo = p.todo /\ k.group = x
        /\ k.known = p.known \union {Len(log) + 1}
    BY <2>1 DEF PassCall
  <2>. QED  BY <1>3, <2>2, <2>3
<1>8. PassGoes(log', k)
  <2> HIDE DEF p, e, k
  <2>1. k.todo \subseteq p.todo /\ k.group \in k.todo \union {NoContent}
    BY <1>1, <1>7
  <2>2. \A y \in p.todo \ k.todo : Unlinked(log', k.known, p.batch, y) = {}
    BY <1>7
  <2>. QED  BY <1>3, <1>4, <1>7, <2>1, <2>2, PassLearns
<1> HIDE DEF e, k
<1>9. WellFormed(e)
  BY <1>6 DEF WellFormed
<1>10. Legal(log, e)
  BY <1>6, <1>9 DEF Legal
<1>11. ~overlapped => NoDuplicates(log')
  <2>1. SUFFICES ASSUME ~overlapped PROVE NoDuplicates(log')
    OBVIOUS
  <2>2. NoDuplicates(log) /\ OfType(log, "ingested") \subseteq p.known
    BY <1>1, <1>2, <2>1 DEF PassKnowsAll, Passes
  <2>3. \A i \in OfType(log, "ingested") : log[i].evidence # x
    BY <1>1, <2>2 DEF Ingestions
  <2>4. ASSUME NEW i \in OfType(log', "ingested")
        PROVE  \/ i \in OfType(log, "ingested") /\ log'[i] = log[i] /\ log'[i].evidence # x
               \/ i = Len(log') /\ log'[i].evidence = x
    BY <1>3, <1>6, <2>3, <2>4, OfTypeGrows DEF Grows
  <2>5. \A i, j \in OfType(log', "ingested") : log'[i].evidence = log'[j].evidence => i = j
    BY <2>2, <2>4 DEF NoDuplicates
  <2>6. /\ OfType(log', "linked") = OfType(log, "linked")
        /\ \A i \in OfType(log, "linked") : log'[i] = log[i]
    BY <1>3, <1>6, OtherTypesStay
  <2>. QED  BY <2>2, <2>5, <2>6 DEF NoDuplicates
<1>12. PassKnowsAll'
  BY <1>1, <1>2, <1>3, <1>5, <1>7, <1>11, PassKnowsMore
<1>13. Spends /\ p.op # "stage" /\ overlapped' \in BOOLEAN
  BY <1>1, <1>2, SpendsNothing
<1>14. Goes(log', k)
  BY <1>7, <1>8 DEF Goes
<1>. QED  BY <1>3, <1>5, <1>6, <1>7, <1>10, <1>12, <1>13, <1>14, PassStep

LEMMA PassKnowsTheSame ==
    ASSUME CallsGo, PassKnowsAll, NEW c \in Caller, call[c].op = "import",
           NEW k, call' = [call EXCEPT ![c] = k], UNCHANGED <<log, overlapped>>,
           k.known = call[c].known
    PROVE  PassKnowsAll'
<1>1. \A d \in Caller : call'[d] = IF d = c THEN k ELSE call[d]
  BY DEF CallsGo
<1>2. \A d \in Passes' : d \in Passes /\ call'[d].known = call[d].known
  BY <1>1 DEF Passes
<1>. QED  BY <1>2 DEF PassKnowsAll

\* What a pass links it did not know to be linked, and nothing else is left.
LEMMA LinkIsNew ==
    ASSUME NEW s, NEW t, NEW e, Grows(s, t, e), NEW known \in SUBSET (DOMAIN s),
           NEW b, NEW x, e.type = "linked", e.stream = LinkStream(b, x),
           e.occurrences = Unlinked(s, known, b, x)
    PROVE  /\ Unlinked(t, known \union {Len(t)}, b, x) = {}
           /\ NoDuplicates(s) /\ OfType(s, "linked") \subseteq known => NoDuplicates(t)
<1>1. /\ DOMAIN s = 1..Len(s) /\ Len(t) \in DOMAIN t /\ t[Len(t)] = e
      /\ \A i \in 1..Len(s) : t[i] = s[i]
  BY DEF Grows
<1>2. Len(t) \in Links(t, known \union {Len(t)}, b, x)
  BY <1>1 DEF Links, OfType
<1>3. Linked(t, known, b, x) = Linked(s, known, b, x)
  BY <1>1, KnownStays
<1>4. Links(t, known, b, x) \subseteq Links(t, known \union {Len(t)}, b, x)
  BY MoreIsKnown
<1>5. Unlinked(t, known \union {Len(t)}, b, x) = {}
  <2>1. \A o \in Linked(s, known, b, x) : o \in Linked(t, known \union {Len(t)}, b, x)
    BY <1>3, <1>4 DEF Linked
  <2>2. \A o \in Unlinked(s, known, b, x) : o \in Linked(t, known \union {Len(t)}, b, x)
    BY <1>1, <1>2 DEF Linked
  <2>. QED  BY <2>1, <2>2 DEF Unlinked
<1>6. ASSUME NoDuplicates(s), OfType(s, "linked") \subseteq known
      PROVE  NoDuplicates(t)
  <2>1. ASSUME NEW i \in OfType(s, "linked"), s[i].stream = LinkStream(b, x)
        PROVE  s[i].occurrences \cap e.occurrences = {}
    <3>1. i \in Links(s, known, b, x)
      BY <1>6, <2>1 DEF Links
    <3>2. s[i].occurrences \subseteq Linked(s, known, b, x)
      BY <3>1 DEF Linked
    <3>. QED  BY <3>2 DEF Unlinked
  <2>2. \A i \in OfType(t, "linked") :
            (i \in OfType(s, "linked") /\ t[i] = s[i]) \/ (i = Len(t) /\ t[i] = e)
    BY <1>1, OfTypeGrows
  <2>3. ASSUME NEW i \in OfType(t, "linked"), NEW j \in OfType(t, "linked"),
               t[i].stream = t[j].stream, t[i].occurrences \cap t[j].occurrences # {}
        PROVE  i = j
    <3>1. CASE i \in OfType(s, "linked") /\ t[i] = s[i] /\ j \in OfType(s, "linked") /\ t[j] = s[j]
      BY <1>6, <2>3, <3>1 DEF NoDuplicates
    <3>2. CASE i \in OfType(s, "linked") /\ t[i] = s[i] /\ j = Len(t) /\ t[j] = e
      BY <2>1, <2>3, <3>2
    <3>3. CASE j \in OfType(s, "linked") /\ t[j] = s[j] /\ i = Len(t) /\ t[i] = e
      BY <2>1, <2>3, <3>3
    <3>. QED  BY <2>2, <2>3, <3>1, <3>2, <3>3
  <2>4. /\ OfType(t, "ingested") = OfType(s, "ingested")
        /\ \A i \in OfType(s, "ingested") : t[i] = s[i]
    BY OtherTypesStay
  <2>. QED  BY <1>6, <2>3, <2>4 DEF NoDuplicates
<1>. QED  BY <1>5, <1>6

LEMMA LinkGroupKeeps ==
    ASSUME IInv, NEW c \in Caller, NEW x \in Content, LinkGroup(c, x)
    PROVE  IInv'
<1> DEFINE p == call[c]
           rest == Unlinked(log, p.known, p.batch, x)
           more == IF rest = {} THEN {} ELSE {Len(log) + 1}
           e == [type |-> "linked", stream |-> LinkStream(p.batch, x), evidence |-> x,
                 batch |-> p.batch, occurrences |-> rest]
           k == [p EXCEPT !.known = @ \union more, !.todo = @ \ {x}, !.group = NoContent]
<1>1. /\ p.op = "import" /\ x \in p.todo /\ Ingestions(log, p.known, x) # {}
      /\ log' = IF rest = {} THEN log ELSE Append(log, e)
      /\ call' = [call EXCEPT ![c] = k]
      /\ UNCHANGED <<budget, overlapped>>
  BY DEF LinkGroup
<1>2. /\ IsLedger(log) /\ CallsGo /\ BudgetGoes /\ PassKnowsAll /\ overlapped \in BOOLEAN
  BY DEF IInv, SoundLedger, IsLedger
<1>3. PassGoes(log, p) /\ p \in PassCall /\ p.known \subseteq DOMAIN log
  BY <1>1, <1>2, PassCallIs DEF PassGoes
<1>4. /\ e.type = "linked" /\ e.stream = LinkStream(e.batch, e.evidence) /\ e.evidence = x
      /\ e.batch = p.batch /\ e.occurrences = rest
  OBVIOUS
<1>5. /\ k \in PassCall /\ k.op = "import" /\ k.batch = p.batch
      /\ k.known = p.known \union more /\ k.todo = p.todo \ {x} /\ k.group = NoContent
  <2>1. p.known \union more \in SUBSET Nat /\ p.todo \ {x} \in SUBSET Content
    BY <1>2, <1>3, LedgerFacts DEF PassCall
  <2> HIDE DEF p, more
  <2>2. k \in PassCall
    BY <1>3, <2>1, LearntIs
  <2>3. /\ k.op = "import" /\ k.batch = p.batch /\ k.known = p.known \union more
        /\ k.todo = p.todo \ {x} /\ k.group = NoContent
    BY <1>3 DEF PassCall
  <2>. QED  BY <2>2, <2>3
<1>6. Spends /\ p.op # "stage" /\ overlapped' \in BOOLEAN
  BY <1>1, <1>2, SpendsNothing
<1> HIDE DEF k, e
<1>7. CASE rest = {}
  <2>1. log' = log /\ k.known = p.known
    BY <1>1, <1>5, <1>7
  <2>2. PassKnowsAll'
    BY <1>1, <1>2, <2>1, PassKnowsTheSame
  <2>3. PassGoes(log, k)
    <3>1. \A y \in ContentsOf(p.batch) \ (p.todo \ {x}) : Unlinked(log, p.known, p.batch, y) = {}
      BY <1>3, <1>7 DEF PassGoes
    <3> HIDE DEF p
    <3>. QED  BY <1>3, <1>5, <2>1, <3>1 DEF PassGoes
  <2>4. Goes(log', k)
    BY <1>5, <2>1, <2>3 DEF Goes
  <2>. QED  BY <1>1, <1>5, <1>6, <2>1, <2>2, <2>4, PassStep
<1>8. CASE rest # {}
  <2>1. Grows(log, log', e) /\ Len(log') = Len(log) + 1
    BY <1>1, <1>2, <1>8, GrowsByAppend DEF Grows
  <2>2. k.known = p.known \union {Len(log')}
    BY <1>5, <1>8, <2>1
  <2>3. /\ Unlinked(log', p.known \union {Len(log')}, p.batch, x) = {}
        /\ NoDuplicates(log) /\ OfType(log, "linked") \subseteq p.known => NoDuplicates(log')
    <3>1. /\ p.known \in SUBSET (DOMAIN log) /\ e.stream = LinkStream(p.batch, x)
          /\ e.occurrences = Unlinked(log, p.known, p.batch, x) /\ e.type = "linked"
      BY <1>3, <1>4
    <3> HIDE DEF p, rest
    <3>. QED  BY <2>1, <3>1, LinkIsNew
  <2>4. ~overlapped => NoDuplicates(log')
    BY <1>1, <1>2, <2>3 DEF PassKnowsAll, Passes
  <2>5. PassKnowsAll'
    BY <1>1, <1>2, <2>1, <2>2, <2>4, PassKnowsMore
  <2>6. PassGoes(log', k)
    <3>1. k.todo \subseteq p.todo /\ k.group \in k.todo \union {NoContent}
      BY <1>5
    <3>2. \A y \in p.todo \ k.todo : Unlinked(log', k.known, p.batch, y) = {}
      BY <1>5, <2>2, <2>3
    <3> HIDE DEF p
    <3>. QED  BY <1>3, <1>5, <2>1, <2>2, <3>1, <3>2, PassLearns
  <2>7. Goes(log', k)
    BY <1>5, <2>6 DEF Goes
  <2>8. WellFormed(e)
    <3>1. p.batch \in Batch /\ rest \subseteq {o \in Observed[p.batch] : ContentOf[o] = x}
      BY <1>3 DEF PassCall, Unlinked
    <3>. QED  BY <1>4, <3>1 DEF WellFormed
  <2>9. Legal(log, e)
    <3>1. Ingestions(log, DOMAIN log, x) # {}
      BY <1>1, <1>3, MoreIsKnown
    <3>. QED  BY <1>4, <2>8, <3>1 DEF Legal
  <2>. QED  BY <1>1, <1>4, <1>5, <1>6, <2>1, <2>5, <2>7, <2>9, PassStep
<1>. QED  BY <1>7, <1>8

\* As many contents are evidence as evidence was ingested, at most.
LEMMA CountedOnce ==
    ASSUME NEW s, IsLedger(s), NEW b, NEW X,
           \A x \in X : \E i \in IngestedIn(s, b) : s[i].evidence = x
    PROVE  /\ Cardinality(X) \in Nat
           /\ Cardinality(X) <= Cardinality(IngestedIn(s, b))
<1> DEFINE I == IngestedIn(s, b)
           T == {s[i].evidence : i \in I}
           f == [i \in I |-> s[i].evidence]
<1>1. IsFiniteSet(I)
  <2>1. Len(s) \in Nat /\ I \subseteq 1..Len(s)
    BY LedgerFacts DEF IngestedIn, OfType
  <2>2. IsFiniteSet(1..Len(s))
    BY <2>1, FS_Interval
  <2>. QED  BY <2>1, <2>2, FS_Subset
<1>2. f \in Surjection(I, T)
  BY DEF Surjection
<1>3. X \subseteq T
  OBVIOUS
<1> HIDE DEF I, T, f
<1>4. IsFiniteSet(T) /\ Cardinality(T) <= Cardinality(I)
  BY <1>1, <1>2, FS_Surjection
<1>5. IsFiniteSet(X) /\ Cardinality(X) <= Cardinality(T)
  BY <1>3, <1>4, FS_Subset
<1>6. Cardinality(X) \in Nat /\ Cardinality(T) \in Nat /\ Cardinality(I) \in Nat
  BY <1>1, <1>4, <1>5, FS_CardinalityType
<1>. QED  BY <1>4, <1>5, <1>6 DEF I

\* A batch's stream with an approval and nothing else has no completion.
LEMMA NotCompleted ==
    ASSUME NEW s, SoundLedger(s), NEW b, Approvals(s, b) # {},
           StreamLength(s, ImportStream(b)) + 1 = 2
    PROVE  Completions(s, b) = {}
<1>1. IsLedger(s) /\ \A i \in DOMAIN s : WellFormed(s[i])
  BY DEF SoundLedger, IsLedger
<1>2. /\ IsFiniteSet(InStream(s, ImportStream(b)))
      /\ StreamLength(s, ImportStream(b)) \in Nat
  BY <1>1, StreamIsFinite
<1>3. \A i, j \in InStream(s, ImportStream(b)) : i = j
  BY <1>2, AtMostOne DEF StreamLength
<1>4. \A i : i \in Approvals(s, b) \/ i \in Completions(s, b) => i \in InStream(s, ImportStream(b))
  BY <1>1, WhereItLies DEF Approvals, Completions, OfType, InStream
<1>5. \A i \in Approvals(s, b) : i \notin Completions(s, b)
  BY DEF Approvals, Completions, OfType
<1>. QED  BY <1>3, <1>4, <1>5

\* What a pass that is done with its batch reports.
LEMMA PassIsDone ==
    ASSUME SoundLedger(log), NEW k, PassGoes(log, k), k.todo = {}
    PROVE  /\ k.batch \in Batch /\ Approvals(log, k.batch) # {}
           /\ \A x \in ContentsOf(k.batch) : Unlinked(log, DOMAIN log, k.batch, x) = {}
           /\ OccurrencesLinked(k.known, k.batch) = Cardinality(Observed[k.batch])
           /\ EvidenceCreated(k.known, k.batch) \in Nat
           /\ EvidenceCreated(k.known, k.batch) <= Cardinality(IngestedIn(log, k.batch))
<1> DEFINE b == k.batch
<1>1. /\ b \in Batch /\ k.known \subseteq DOMAIN log /\ Approvals(log, b) # {}
      /\ \A x \in ContentsOf(b) : Unlinked(log, k.known, b, x) = {}
  BY DEF PassGoes, PassCall
<1> HIDE DEF b
<1>2. \A x \in ContentsOf(b) : Unlinked(log, DOMAIN log, b, x) = {}
  BY <1>1, MoreIsKnown
<1>3. Observed[b] \cap UNION {Linked(log, k.known, b, x) : x \in ContentsOf(b)} = Observed[b]
  <2>1. ASSUME NEW o \in Observed[b]
        PROVE  \E x \in ContentsOf(b) : o \in Linked(log, k.known, b, x)
    <3>1. ContentOf[o] \in ContentsOf(b)
      BY DEF ContentsOf
    <3>2. Unlinked(log, k.known, b, ContentOf[o]) = {}
      BY <1>1, <3>1
    <3>3. o \in Linked(log, k.known, b, ContentOf[o])
      BY <3>2 DEF Unlinked
    <3>. QED  BY <3>1, <3>3
  <2>. QED  BY <2>1
<1>4. OccurrencesLinked(k.known, b) = Cardinality(Observed[b])
  BY <1>3 DEF OccurrencesLinked
<1> DEFINE X == {x \in ContentsOf(b) :
                    \E i \in Ingestions(log, k.known, x) : log[i].batch = b}
<1>5. \A x \in X : \E i \in IngestedIn(log, b) : log[i].evidence = x
  BY DEF Ingestions, IngestedIn
<1>6. EvidenceCreated(k.known, b) = Cardinality(X)
  BY DEF EvidenceCreated
<1> HIDE DEF X
<1>7. Cardinality(X) \in Nat /\ Cardinality(X) <= Cardinality(IngestedIn(log, b))
  BY <1>5, CountedOnce, SoundIsLedger
<1>. QED  BY <1>1, <1>2, <1>4, <1>6, <1>7 DEF b

LEMMA CompleteImportKeeps ==
    ASSUME IInv, NEW c \in Caller, CompleteImport(c)
    PROVE  IInv'
<1> DEFINE p == call[c]
           b == p.batch
           n == StreamLength(log, ImportStream(b)) + 1
           e == [type |-> "import-completed", stream |-> ImportStream(b), batch |-> b,
                 created |-> EvidenceCreated(p.known, b),
                 linked |-> OccurrencesLinked(p.known, b)]
<1>1. /\ p.op = "import" /\ p.todo = {}
      /\ log' = IF n # 2 THEN log ELSE Append(log, e)
      /\ call' = [call EXCEPT ![c] = Idle]
      /\ UNCHANGED <<budget, overlapped>>
  BY DEF CompleteImport
<1>2. /\ IsLedger(log) /\ SoundLedger(log) /\ CallsGo /\ BudgetGoes /\ PassKnowsAll
      /\ overlapped \in BOOLEAN
  BY DEF IInv, SoundLedger, IsLedger
<1>3. PassGoes(log, p)
  BY <1>1, <1>2, PassCallIs
<1>4. Spends /\ p.op # "stage" /\ overlapped' \in BOOLEAN
  BY <1>1, <1>2, SpendsNothing
<1>5. /\ e.type = "import-completed" /\ e.stream = ImportStream(e.batch) /\ e.batch = b
      /\ e.created = EvidenceCreated(p.known, b) /\ e.linked = OccurrencesLinked(p.known, b)
  OBVIOUS
<1> HIDE DEF e
<1>6. CASE n # 2
  <2>1. log' = log
    BY <1>1, <1>6
  <2>2. PassKnowsAll'
    BY <1>1, <1>2, <2>1, IdleGoes, PassesKept
  <2> HIDE DEF p
  <2>. QED  BY <1>1, <1>4, <2>1, <2>2, IdleGoes, PassStep DEF p
<1>7. CASE n = 2
  <2>1. Grows(log, log', e)
    BY <1>1, <1>2, <1>7, GrowsByAppend
  <2>2. PassKnowsAll'
    BY <1>1, <1>2, <1>5, <2>1, IdleGoes, PassesKept
  <2>3. /\ b \in Batch /\ Approvals(log, b) # {}
        /\ \A x \in ContentsOf(b) : Unlinked(log, DOMAIN log, b, x) = {}
        /\ OccurrencesLinked(p.known, b) = Cardinality(Observed[b])
        /\ EvidenceCreated(p.known, b) \in Nat
        /\ EvidenceCreated(p.known, b) <= Cardinality(IngestedIn(log, b))
    <3> HIDE DEF p
    <3>. QED  BY <1>1, <1>2, <1>3, PassIsDone
  <2>4. Completions(log, b) = {}
    BY <1>2, <1>7, <2>3, NotCompleted
  <2>5. WellFormed(e)
    BY <1>5, <2>3 DEF WellFormed
  <2>6. Legal(log, e)
    BY <1>5, <2>3, <2>4, <2>5 DEF Legal
  <2>. QED  BY <1>1, <1>4, <1>5, <2>1, <2>2, <2>6, IdleGoes, PassStep
<1>. QED  BY <1>6, <1>7

----------------------------------------------------------------------------
(* Adapters.                                                               *)

LEMMA FoundIs ==
    ASSUME NEW s, IsLedger(s), NEW want
    PROVE  /\ Found(s, want) \in 0..Len(s)
           /\ Found(s, want) # 0 => Found(s, want) \in Matching(s, want)
<1>1. Matching(s, want) \subseteq 1..Len(s) /\ Len(s) \in Nat
  BY LedgerFacts DEF Matching, Acceptances, OfType, InStream
<1>2. CASE Matching(s, want) = {}
  BY <1>1, <1>2 DEF Found
<1>3. CASE Matching(s, want) # {}
  <2> DEFINE i == CHOOSE j \in First(Matching(s, want)) : TRUE
  <2>1. \E j \in First(Matching(s, want)) : TRUE
    BY <1>1, <1>3, FirstExists
  <2>2. i \in Matching(s, want)
    BY <2>1 DEF First
  <2>3. Found(s, want) = i
    BY <1>3 DEF Found
  <2> HIDE DEF i
  <2>. QED  BY <1>1, <2>2, <2>3
<1>. QED  BY <1>2, <1>3

LEMMA FirstProposalIs ==
    ASSUME SoundLedger(log), NEW want, NEW p \in Proposals(log, want.assertion)
    PROVE  FirstProposal(want) \in First(Proposals(log, want.assertion))
<1>1. IsLedger(log) /\ Proposals(log, want.assertion) \subseteq 1..Len(log)
  BY SoundIsLedger, Selected
<1>2. \E i \in First(Proposals(log, want.assertion)) : TRUE
  BY <1>1, FirstExists
<1>. QED  BY <1>2 DEF FirstProposal

LEMMA AdapterFields ==
    ASSUME NEW k \in AdapterCall, NEW n \in Nat,
           NEW at \in {"base", "act", "send", "lookup", "attest", "done"}
    PROVE  /\ [k EXCEPT !.at = at] \in AdapterCall
           /\ [k EXCEPT !.at = at, !.base = n] \in AdapterCall
           /\ [k EXCEPT !.at = at, !.read = n] \in AdapterCall
           /\ [k EXCEPT !.at = at, !.result = n] \in AdapterCall
BY DEF AdapterCall

\* What an adapter is about does not change as it goes on.
LEMMA AdapterGoesOn ==
    ASSUME NEW s, NEW k, AdapterGoes(s, k), NEW m \in AdapterCall, m.want = k.want,
           m.base <= Len(s), m.read <= Len(s),
           m.at = "send" => EffectIsGood(s, m),
           m.at = "done" /\ m.result # 0 =>
                m.result \in Matching(s, m.want) /\ m.result <= m.base + 1
    PROVE  AdapterGoes(s, m)
BY DEF AdapterGoes

\* A step of an adapter that appends nothing.
LEMMA AdapterStep ==
    ASSUME IInv, NEW c \in Caller, call[c].op = "adapter",
           UNCHANGED <<log, budget, overlapped>>,
           NEW m, call' = [call EXCEPT ![c] = m], AdapterGoes(log, m)
    PROVE  IInv'
<1>1. m.op = "adapter"
  BY DEF AdapterGoes, AdapterCall
<1>2. log' = log /\ Goes(log', m)
  BY <1>1 DEF Goes
<1>3. Spends /\ ~Works(call[c])
  BY SpendsNothing DEF IInv, Works
<1>. QED  BY <1>1, <1>2, <1>3, PlainStep

LEMMA AdapterIs ==
    ASSUME IInv, NEW c \in Caller, call[c].op = "adapter"
    PROVE  /\ AdapterGoes(log, call[c]) /\ call[c] \in AdapterCall
           /\ call[c].base <= Len(log) /\ call[c].read <= Len(log)
           /\ call[c].want \in Wanted /\ call[c].base \in Nat /\ call[c].read \in Nat
           /\ IsLedger(log) /\ SoundLedger(log) /\ Len(log) \in Nat
<1>1. AdapterGoes(log, call[c])
  BY GoesByItsOperation DEF IInv, CallsGo
<1>2. SoundLedger(log) /\ IsLedger(log)
  BY SoundIsLedger DEF IInv
<1>. QED  BY <1>1, <1>2, LedgerFacts DEF AdapterGoes, AdapterCall

\* An adapter begins, with the effect it found if it is there.
LEMMA AdapterBegins ==
    ASSUME IInv, NEW c \in Caller, Makes(c, "adapter"), NEW want \in Wanted,
           want.kind = "accepted" => want.cause \in Proposals(log, want.assertion),
           NEW at \in {"base", "done"}, UNCHANGED <<log, overlapped>>,
           call' = [call EXCEPT ![c] = Now(want, at, Found(log, want))]
    PROVE  IInv'
<1> DEFINE k == Now(want, at, Found(log, want))
<1>1. IsLedger(log) /\ Len(log) \in Nat
  BY SoundIsLedger, LedgerFacts DEF IInv
<1>2. /\ Found(log, want) \in Nat /\ Found(log, want) <= Len(log)
      /\ Found(log, want) # 0 => Found(log, want) \in Matching(log, want)
  BY <1>1, FoundIs
<1>3. /\ k.op = "adapter" /\ k.want = want /\ k.at = at /\ k.base = Len(log)
      /\ k.read = Len(log) /\ k.result = Found(log, want)
  BY DEF Now
<1>4. k \in AdapterCall
  BY <1>1, <1>2 DEF Now, AdapterCall
<1> HIDE DEF k
<1>5. AdapterGoes(log, k)
  BY <1>1, <1>2, <1>3, <1>4 DEF AdapterGoes
<1>6. Goes(log, k)
  BY <1>3, <1>5 DEF Goes
<1>7. call' = [call EXCEPT ![c] = k]
  BY DEF k
<1>. QED  BY <1>3, <1>6, <1>7, CallPrepares DEF Operation

LEMMA BeginReviewKeeps ==
    ASSUME IInv, NEW c \in Caller, NEW a \in Assertion, NEW h \in Human, BeginReview(c, a, h)
    PROVE  IInv'
<1>1. PICK p \in Proposals(log, a) :
        call' = [call EXCEPT ![c] =
            Now([kind |-> "accepted", assertion |-> a, cause |-> p, by |-> h],
                IF Found(log, [kind |-> "accepted", assertion |-> a, cause |-> p, by |-> h]) = 0
                    THEN "base" ELSE "done",
                Found(log, [kind |-> "accepted", assertion |-> a, cause |-> p, by |-> h]))]
  BY DEF BeginReview
<1> DEFINE want == [kind |-> "accepted", assertion |-> a, cause |-> p, by |-> h]
           at == IF Found(log, want) = 0 THEN "base" ELSE "done"
<1>2. Makes(c, "adapter") /\ UNCHANGED <<log, overlapped>>
  BY DEF BeginReview
<1>3. p \in Nat
  BY SoundIsLedger, LedgerFacts, Selected DEF IInv
<1>4. want \in Wanted /\ want.kind = "accepted" /\ want.cause = p /\ want.assertion = a
  BY <1>3 DEF Wanted
<1>5. at \in {"base", "done"} /\ call' = [call EXCEPT ![c] = Now(want, at, Found(log, want))]
  BY <1>1
<1> HIDE DEF want, at
<1>. QED  BY <1>2, <1>4, <1>5, AdapterBegins

LEMMA BeginExportKeeps ==
    ASSUME IInv, NEW c \in Caller, NEW id \in Export, NEW included \in SUBSET Content,
           NEW optIns \in SUBSET Restricted, BeginExport(c, id, included, optIns)
    PROVE  IInv'
<1> DEFINE want == [kind |-> "exported", export |-> id, included |-> included,
                    optIns |-> optIns]
           at == IF InStream(log, ExportStream(id)) = {} THEN "base" ELSE "done"
<1>1. /\ Makes(c, "adapter") /\ UNCHANGED <<log, overlapped>>
      /\ call' = [call EXCEPT ![c] = Now(want, at, Found(log, want))]
  BY DEF BeginExport
<1>2. want \in Wanted /\ want.kind = "exported" /\ at \in {"base", "done"}
  BY DEF Wanted
<1> HIDE DEF want, at
<1>. QED  BY <1>1, <1>2, AdapterBegins

LEMMA ReadBeforeKeeps ==
    ASSUME IInv, NEW c \in Caller, ReadBefore(c)
    PROVE  IInv'
<1> DEFINE k == call[c]
           m == [k EXCEPT !.at = "act", !.base = Len(log)]
<1>1. /\ k.op = "adapter" /\ call' = [call EXCEPT ![c] = m]
      /\ UNCHANGED <<log, budget, overlapped>>
  BY DEF ReadBefore, At
<1>2. AdapterGoes(log, k) /\ k \in AdapterCall /\ k.read <= Len(log) /\ Len(log) \in Nat
  BY <1>1, AdapterIs
<1>3. m \in AdapterCall
  BY <1>2, AdapterFields
<1>4. m.want = k.want /\ m.at = "act" /\ m.base = Len(log) /\ m.read = k.read
  BY <1>2 DEF AdapterCall
<1>5. AdapterGoes(log, m)
  <2> HIDE DEF k, m
  <2>. QED  BY <1>2, <1>3, <1>4, AdapterGoesOn
<1> HIDE DEF m
<1>. QED  BY <1>1, <1>5, AdapterStep

\* What a service answers, or that it failed.
LEMMA AnswerKeeps ==
    ASSUME IInv, NEW c \in Caller, call[c].op = "adapter", UNCHANGED <<log, budget, overlapped>>,
           (\E e \in Nat : Returns(c, e)) \/ Fails(c) \/ call' = [call EXCEPT ![c].at = "lookup"]
    PROVE  IInv'
<1> DEFINE k == call[c]
<1>1. AdapterGoes(log, k) /\ k \in AdapterCall /\ k.base <= Len(log) /\ k.read <= Len(log)
  BY AdapterIs
<1>2. \E m \in AdapterCall : /\ call' = [call EXCEPT ![c] = m] /\ m.want = k.want
                             /\ m.base = k.base /\ m.read = k.read /\ m.at # "send"
                             /\ m.at = "done" => m.result = 0
  <2>1. CASE \E e \in Nat : Returns(c, e)
    <3>1. PICK e \in Nat : Returns(c, e)
      BY <2>1
    <3> DEFINE m == [k EXCEPT !.at = "attest", !.result = e]
    <3>2. m \in AdapterCall
      BY <1>1, AdapterFields
    <3>3. m.want = k.want /\ m.base = k.base /\ m.read = k.read /\ m.at = "attest"
      BY <1>1 DEF AdapterCall
    <3>4. call' = [call EXCEPT ![c] = m]
      BY <3>1 DEF Returns
    <3> HIDE DEF m, k
    <3>. QED  BY <3>2, <3>3, <3>4
  <2>2. CASE Fails(c)
    <3> DEFINE m == [k EXCEPT !.at = "done", !.result = 0]
    <3>2. m \in AdapterCall
      BY <1>1, AdapterFields
    <3>3. m.want = k.want /\ m.base = k.base /\ m.read = k.read /\ m.at = "done" /\ m.result = 0
      BY <1>1 DEF AdapterCall
    <3>4. call' = [call EXCEPT ![c] = m]
      BY <2>2 DEF Fails
    <3> HIDE DEF m, k
    <3>. QED  BY <3>2, <3>3, <3>4
  <2>3. CASE call' = [call EXCEPT ![c].at = "lookup"]
    <3> DEFINE m == [k EXCEPT !.at = "lookup"]
    <3>2. m \in AdapterCall
      BY <1>1, AdapterFields
    <3>3. m.want = k.want /\ m.base = k.base /\ m.read = k.read /\ m.at = "lookup"
      BY <1>1 DEF AdapterCall
    <3>4. call' = [call EXCEPT ![c] = m]
      BY <2>3
    <3> HIDE DEF m, k
    <3>. QED  BY <3>2, <3>3, <3>4
  <2>. QED  BY <2>1, <2>2, <2>3
<1>3. PICK m \in AdapterCall : /\ call' = [call EXCEPT ![c] = m] /\ m.want = k.want
                               /\ m.base = k.base /\ m.read = k.read /\ m.at # "send"
                               /\ m.at = "done" => m.result = 0
  BY <1>2
<1>4. AdapterGoes(log, m)
  <2> HIDE DEF k
  <2>. QED  BY <1>1, <1>3, AdapterGoesOn
<1>. QED  BY <1>3, <1>4, AdapterStep

\* A service that goes ahead has read what makes the effect good.
LEMMA PreparesEffectKeeps ==
    ASSUME IInv, NEW c \in Caller, call[c].op = "adapter", UNCHANGED <<log, budget, overlapped>>,
           PreparesEffect(c),
           call[c].want.kind = "exported" =>
                \A x \in call[c].want.included : Exportable(log, x, call[c].want.optIns),
           call[c].want.kind # "exported" => Acceptances(log, call[c].want.assertion) = {}
    PROVE  IInv'
<1> DEFINE k == call[c]
           m == [k EXCEPT !.at = "send", !.read = Len(log)]
<1>1. /\ AdapterGoes(log, k) /\ k \in AdapterCall /\ k.base <= Len(log)
      /\ Len(log) \in Nat /\ Prefix(log, Len(log)) = log
  BY AdapterIs, LedgerFacts
<1>2. m \in AdapterCall
  BY <1>1, AdapterFields
<1>3. m.want = k.want /\ m.at = "send" /\ m.base = k.base /\ m.read = Len(log)
  BY <1>1 DEF AdapterCall
<1>4. call' = [call EXCEPT ![c] = m]
  BY DEF PreparesEffect
<1> HIDE DEF m
<1>5. EffectIsGood(log, m)
  BY <1>1, <1>3 DEF EffectIsGood
<1>6. AdapterGoes(log, m)
  <2> HIDE DEF k
  <2>. QED  BY <1>1, <1>2, <1>3, <1>5, AdapterGoesOn
<1>. QED  BY <1>4, <1>6, AdapterStep

\* When no acceptance of the first proposal is found, there is none.
LEMMA NoAcceptanceFound ==
    ASSUME SoundLedger(log), NEW k, AdapterGoes(log, k), k.want.kind = "accepted"
    PROVE  /\ FirstProposal(k.want) \in First(Proposals(log, k.want.assertion))
           /\ AcceptanceFound(k.want) = {} => Acceptances(log, k.want.assertion) = {}
           /\ AcceptanceFound(k.want) \subseteq Nat
<1>1. k.want.cause \in Proposals(log, k.want.assertion)
  BY DEF AdapterGoes
<1>2. FirstProposal(k.want) \in First(Proposals(log, k.want.assertion))
  BY <1>1, FirstProposalIs
<1>3. AcceptanceFound(k.want) = {} =>
        \A i \in Acceptances(log, k.want.assertion) : log[i].cause # FirstProposal(k.want)
  BY DEF AcceptanceFound
<1>4. AcceptanceFound(k.want) = {} => Acceptances(log, k.want.assertion) = {}
  BY <1>2, <1>3, NoneAccepted
<1>5. AcceptanceFound(k.want) \subseteq Nat
  <2>1. Acceptances(log, k.want.assertion) \subseteq 1..Len(log) /\ Len(log) \in Nat
    BY SoundIsLedger, Selected, LedgerFacts
  <2>. QED  BY <2>1 DEF AcceptanceFound
<1>. QED  BY <1>2, <1>4, <1>5

LEMMA CallAcceptKeeps ==
    ASSUME IInv, NEW c \in Caller, CallAccept(c)
    PROVE  IInv'
<1>1. /\ call[c].op = "adapter" /\ call[c].want.kind = "accepted"
      /\ UNCHANGED <<log, budget, overlapped>>
      /\ IF AcceptanceFound(call[c].want) = {}
         THEN PreparesEffect(c)
         ELSE \E e \in AcceptanceFound(call[c].want) : Returns(c, e)
  BY DEF CallAccept, At
<1>2. AdapterGoes(log, call[c]) /\ SoundLedger(log)
  BY <1>1, AdapterIs
<1>3. /\ AcceptanceFound(call[c].want) = {} => Acceptances(log, call[c].want.assertion) = {}
      /\ AcceptanceFound(call[c].want) \subseteq Nat
  BY <1>1, <1>2, NoAcceptanceFound
<1>4. CASE AcceptanceFound(call[c].want) = {}
  BY <1>1, <1>3, <1>4, PreparesEffectKeeps
<1>5. CASE AcceptanceFound(call[c].want) # {}
  BY <1>1, <1>3, <1>5, AnswerKeeps
<1>. QED  BY <1>4, <1>5

LEMMA CallExportKeeps ==
    ASSUME IInv, NEW c \in Caller, CallExport(c)
    PROVE  IInv'
<1>1. /\ call[c].op = "adapter" /\ call[c].want.kind = "exported"
      /\ UNCHANGED <<log, budget, overlapped>>
      /\ IF \A x \in call[c].want.included : Exportable(log, x, call[c].want.optIns)
         THEN PreparesEffect(c)
         ELSE call' = [call EXCEPT ![c].at = "lookup"]
  BY DEF CallExport, At
<1>2. CASE \A x \in call[c].want.included : Exportable(log, x, call[c].want.optIns)
  BY <1>1, <1>2, PreparesEffectKeeps
<1>3. CASE ~(\A x \in call[c].want.included : Exportable(log, x, call[c].want.optIns))
  BY <1>1, <1>3, AnswerKeeps
<1>. QED  BY <1>2, <1>3

LEMMA LoseEffectKeeps ==
    ASSUME IInv, NEW c \in Caller, LoseEffect(c)
    PROVE  IInv'
<1>1. call[c].op = "adapter" /\ UNCHANGED <<log, budget, overlapped>>
  BY DEF LoseEffect, At
<1>2. AdapterGoes(log, call[c]) /\ SoundLedger(log) /\ call[c].want \in Wanted
  BY <1>1, AdapterIs
<1>3. CASE call[c].want.kind = "exported"
  <2>1. call' = [call EXCEPT ![c].at = "lookup"]
    BY <1>3 DEF LoseEffect
  <2>. QED  BY <1>1, <2>1, AnswerKeeps
<1>4. CASE call[c].want.kind # "exported"
  <2>1. call[c].want.kind = "accepted"
    BY <1>2, <1>4 DEF Wanted
  <2>2. AcceptanceFound(call[c].want) \subseteq Nat
    BY <1>2, <2>1, NoAcceptanceFound
  <2>3. Fails(c) \/ \E e \in AcceptanceFound(call[c].want) : Returns(c, e)
    BY <1>4 DEF LoseEffect
  <2>. QED  BY <1>1, <2>2, <2>3, AnswerKeeps
<1>. QED  BY <1>3, <1>4

LEMMA LookUpKeeps ==
    ASSUME IInv, NEW c \in Caller, LookUp(c)
    PROVE  IInv'
<1>1. call[c].op = "adapter" /\ UNCHANGED <<log, budget, overlapped>>
  BY DEF LookUp, At
<1>2. Found(log, call[c].want) \in Nat
  <2>1. IsLedger(log) /\ Len(log) \in Nat
    BY <1>1, AdapterIs
  <2>2. Found(log, call[c].want) \in 0..Len(log)
    BY <2>1, FoundIs
  <2>. QED  BY <2>1, <2>2
<1>3. Fails(c) \/ Returns(c, Found(log, call[c].want))
  BY DEF LookUp
<1>. QED  BY <1>1, <1>2, <1>3, AnswerKeeps

LEMMA AttestKeeps ==
    ASSUME IInv, NEW c \in Caller, Attest(c)
    PROVE  IInv'
<1> DEFINE k == call[c]
           m == [k EXCEPT !.at = "done"]
<1>1. /\ k.op = "adapter" /\ UNCHANGED <<log, budget, overlapped>>
      /\ IF k.result \in Matching(log, k.want) /\ (k.base + 1)..Len(log) = {k.result}
         THEN call' = [call EXCEPT ![c] = m] ELSE Fails(c)
  BY DEF Attest, At
<1>2. CASE k.result \in Matching(log, k.want) /\ (k.base + 1)..Len(log) = {k.result}
  <2>1. /\ AdapterGoes(log, k) /\ k \in AdapterCall /\ k.base <= Len(log) /\ k.read <= Len(log)
        /\ Len(log) \in Nat /\ k.base \in Nat
    BY <1>1, AdapterIs
  <2>2. m \in AdapterCall
    BY <2>1, AdapterFields
  <2>3. /\ m.want = k.want /\ m.at = "done" /\ m.base = k.base /\ m.read = k.read
        /\ m.result = k.result
    BY <2>1 DEF AdapterCall
  <2> HIDE DEF k, m
  <2>4. k.result <= k.base + 1
    <3>1. k.result \in (k.base + 1)..Len(log) /\ k.result \in Int
      BY <1>2, <2>1
    <3>2. k.base + 1 \in (k.base + 1)..Len(log)
      BY <2>1, <3>1
    <3>. QED  BY <1>2, <3>2, <2>1
  <2>5. AdapterGoes(log, m)
    BY <1>2, <2>1, <2>2, <2>3, <2>4, AdapterGoesOn
  <2>. QED  BY <1>1, <1>2, <2>5, AdapterStep DEF k
<1>3. CASE ~(k.result \in Matching(log, k.want) /\ (k.base + 1)..Len(log) = {k.result})
  BY <1>1, <1>3, AnswerKeeps
<1>. QED  BY <1>2, <1>3

LEMMA ReportKeeps ==
    ASSUME IInv, NEW c \in Caller, Report(c)
    PROVE  IInv'
<1>1. /\ ~Works(call[c]) /\ call' = [call EXCEPT ![c] = Idle]
      /\ UNCHANGED <<log, budget, overlapped>>
  BY DEF Report, At, Works
<1>2. Spends /\ log' = log
  BY <1>1, SpendsNothing DEF IInv
<1>. QED  BY <1>1, <1>2, IdleGoes, PlainStep

LEMMA AppendEffectKeeps ==
    ASSUME IInv, NEW c \in Caller, AppendEffect(c)
    PROVE  IInv'
<1> DEFINE k == call[c]
           want == k.want
           e == EventOf(k)
           m == [k EXCEPT !.at = "attest", !.result = Len(log')]
<1>1. /\ k.op = "adapter" /\ k.at = "send" /\ UNCHANGED <<budget, overlapped>>
      /\ StreamLength(log, e.stream) =
            IF want.kind = "exported" THEN 0 ELSE StreamLength(Prefix(log, k.read), e.stream)
      /\ log' = Append(log, e) /\ call' = [call EXCEPT ![c] = m]
  BY DEF AppendEffect, At, Returns
<1>2. /\ AdapterGoes(log, k) /\ k \in AdapterCall /\ k.base <= Len(log) /\ k.read <= Len(log)
      /\ want \in Wanted /\ k.read \in Nat /\ IsLedger(log) /\ SoundLedger(log)
      /\ Len(log) \in Nat
  BY <1>1, AdapterIs
<1>3. EffectIsGood(log, k)
  BY <1>1, <1>2 DEF AdapterGoes
<1> HIDE DEF e
<1>4. Grows(log, log', e) /\ Len(log') \in Nat /\ Len(log) <= Len(log')
  BY <1>1, <1>2, GrowsByAppend DEF Grows
<1>5. Legal(log, e) /\ e.type \in {"accepted", "exported"}
  <2>1. CASE want.kind = "exported"
    <3>1. /\ e.type = "exported" /\ e.stream = ExportStream(want.export) /\ e.asOf = k.read
          /\ e.included = want.included /\ e.optIns = want.optIns
      BY <2>1 DEF EventOf, e
    <3>2. WellFormed(e)
      BY <3>1, StreamsApart DEF WellFormed
    <3>3. e.asOf \in 0..Len(log)
      BY <1>2, <3>1
    <3>4. \A x \in e.included : Exportable(Prefix(log, e.asOf), x, e.optIns)
      BY <1>3, <2>1, <3>1 DEF EffectIsGood
    <3>. QED  BY <3>1, <3>2, <3>3, <3>4 DEF Legal
  <2>2. CASE want.kind # "exported"
    <3>0. want.kind = "accepted"
      BY <1>2, <2>2 DEF Wanted
    <3>1. /\ e.type = "accepted" /\ e.stream = AssertionStream(e.assertion)
          /\ e.assertion = want.assertion /\ e.cause = FirstProposal(want)
      BY <3>0 DEF EventOf, e
    <3>2. WellFormed(e)
      BY <3>1 DEF WellFormed
    <3>3. e.cause \in First(Proposals(log, e.assertion))
      BY <1>2, <3>0, <3>1, NoAcceptanceFound
    <3>4. Acceptances(log, e.assertion) = {}
      BY <1>1, <1>3, <2>2, <3>1 DEF EffectIsGood
    <3>. QED  BY <3>1, <3>2, <3>3, <3>4 DEF Legal
  <2>. QED  BY <2>1, <2>2
<1>6. AdapterGoes(log', k)
  <2>1. WellFormed(e)
    BY <1>5 DEF Legal
  <2> HIDE DEF k
  <2>. QED  BY <1>2, <1>4, <2>1, AdapterGoesLater
<1>7. m \in AdapterCall
  BY <1>2, <1>4, AdapterFields
<1>8. m.want = k.want /\ m.at = "attest" /\ m.base = k.base /\ m.read = k.read
      /\ m.op = "adapter"
  BY <1>2 DEF AdapterCall
<1> HIDE DEF m
<1>9. AdapterGoes(log', m)
  <2>1. m.base <= Len(log') /\ m.read <= Len(log')
    BY <1>6, <1>8 DEF AdapterGoes
  <2> HIDE DEF k
  <2>. QED  BY <1>6, <1>7, <1>8, <2>1, AdapterGoesOn
<1>10. Goes(log', m)
  BY <1>8, <1>9 DEF Goes
<1>11. Spends /\ ~Works(call[c])
  BY <1>1, SpendsNothing DEF IInv, Works
<1>. QED  BY <1>1, <1>4, <1>5, <1>8, <1>10, <1>11, PlainStep

----------------------------------------------------------------------------
(* Staging.                                                                *)

LEMMA StageFields ==
    ASSUME NEW k \in StageCall, NEW n \in Nat, NEW ok \in BOOLEAN,
           NEW at \in {"check", "append", "finish", "done"}
    PROVE  /\ [k EXCEPT !.at = at] \in StageCall
           /\ [k EXCEPT !.at = at, !.next = n] \in StageCall
           /\ [k EXCEPT !.at = at, !.ok = ok] \in StageCall
BY DEF StageCall

LEMMA StageIs ==
    ASSUME IInv, NEW c \in Caller, call[c].op = "stage"
    PROVE  /\ StageGoes(log, call[c]) /\ call[c] \in StageCall
           /\ IsLedger(log) /\ Len(log) \in Nat
<1>1. StageGoes(log, call[c])
  BY GoesByItsOperation DEF IInv, CallsGo
<1>. QED  BY <1>1, SoundIsLedger, LedgerFacts DEF IInv, StageGoes

\* A step of staging that appends nothing.
LEMMA StageStep ==
    ASSUME IInv, NEW c \in Caller, Spends, UNCHANGED <<log, overlapped>>,
           NEW m, call' = [call EXCEPT ![c] = m], StageGoes(log, m),
           Works(call[c]) => Works(m) \/ Staged(log) = CandidateSet
    PROVE  IInv'
<1>1. m.op = "stage"
  BY DEF StageGoes, StageCall
<1>2. log' = log /\ Goes(log', m)
  BY <1>1 DEF Goes
<1>. QED  BY <1>1, <1>2, PlainStep

LEMMA BeginStagingKeeps ==
    ASSUME IInv, NEW c \in Caller, BeginStaging(c)
    PROVE  IInv'
<1> DEFINE ex == Staged(log)
           m == [op |-> "stage", at |-> IF ex = {} THEN "check" ELSE "done", next |-> 1,
                 base |-> Len(log), ok |-> ex # {}]
<1>1. /\ Makes(c, "stage") /\ ex \in {{}, CandidateSet} /\ UNCHANGED <<log, overlapped>>
      /\ call' = [call EXCEPT ![c] = m]
  BY DEF BeginStaging, Staged
<1>2. Len(log) \in Nat
  BY SoundIsLedger, LedgerFacts DEF IInv
<1>3. 1 \in DOMAIN Candidates
  BY ScenariosAssumption
<1>4. m \in StageCall
  BY <1>2 DEF StageCall
<1>5. /\ m.at = (IF ex = {} THEN "check" ELSE "done") /\ m.next = 1
      /\ m.ok = (ex # {}) /\ m.op = "stage"
  OBVIOUS
<1> HIDE DEF m
<1>6. StageGoes(log, m)
  BY <1>1, <1>3, <1>4, <1>5 DEF StageGoes
<1>7. Spends /\ ~Works(call[c])
  BY <1>1, MakesACall DEF IInv, Operation
<1>. QED  BY <1>1, <1>6, <1>7, StageStep

\* The next candidate is there: staging moves on to the one after it.
LEMMA MovesOnGoes ==
    ASSUME NEW s, NEW k, StageGoes(s, k), k.at \in {"check", "append"},
           Candidates[k.next] \in Staged(s)
    PROVE  StageGoes(s, MovesOn(k)) /\ Works(MovesOn(k)) /\ MovesOn(k).op = "stage"
<1> DEFINE at == IF k.next = Len(Candidates) THEN "finish" ELSE "check"
           m == [k EXCEPT !.at = at, !.next = k.next + 1]
<1>1. /\ k \in StageCall /\ k.next \in DOMAIN Candidates /\ k.next \in Nat
      /\ \A n \in 1..(k.next - 1) : Candidates[n] \in Staged(s)
  BY DEF StageGoes, StageCall
<1>2. Len(Candidates) \in Nat /\ DOMAIN Candidates = 1..Len(Candidates)
  BY ScenariosAssumption
<1>3. at \in {"finish", "check"} /\ (at = "finish" <=> k.next = Len(Candidates))
  OBVIOUS
<1> HIDE DEF at
<1>4. m \in StageCall
  <2>1. at \in {"check", "append", "finish", "done"} /\ k.next + 1 \in Nat
    BY <1>1, <1>3
  <2>. QED  BY <1>1, <2>1, StageFields
<1>5. m.at = at /\ m.next = k.next + 1 /\ m.op = "stage"
  BY <1>1 DEF StageCall
<1>6. MovesOn(k) = m
  BY DEF MovesOn, at
<1> HIDE DEF m
<1>7. \A n \in 1..(m.next - 1) : Candidates[n] \in Staged(s)
  <2>1. \A n \in 1..k.next : n = k.next \/ n \in 1..(k.next - 1)
    BY <1>1
  <2>2. m.next - 1 = k.next
    BY <1>1, <1>5
  <2>. QED  BY <1>1, <2>1, <2>2
<1>8. m.at = "check" => m.next \in DOMAIN Candidates
  BY <1>1, <1>2, <1>3, <1>5
<1>9. StageGoes(s, m)
  BY <1>1, <1>2, <1>3, <1>4, <1>5, <1>7, <1>8 DEF StageGoes
<1>10. Works(m)
  BY <1>3, <1>5 DEF Works
<1>. QED  BY <1>5, <1>6, <1>9, <1>10

LEMMA CandidateIs ==
    ASSUME NEW n \in DOMAIN Candidates
    PROVE  Candidates[n] \in CandidateSet
BY DEF CandidateSet

LEMMA CheckCandidateKeeps ==
    ASSUME IInv, NEW c \in Caller, CheckCandidate(c)
    PROVE  IInv'
<1> DEFINE k == call[c]
           m == IF Proposals(log, Candidates[k.next]) = {}
                THEN [k EXCEPT !.at = "append"] ELSE MovesOn(k)
<1>1. /\ k.op = "stage" /\ k.at = "check" /\ call' = [call EXCEPT ![c] = m]
      /\ UNCHANGED <<log, budget, overlapped>>
  BY DEF CheckCandidate, At, Candidate
<1>2. StageGoes(log, k) /\ k \in StageCall /\ k.next \in DOMAIN Candidates
  BY <1>1, StageIs DEF StageGoes
<1>3. Spends
  BY <1>1, SpendsNothing DEF IInv
<1>4. StageGoes(log, m) /\ Works(m)
  <2>1. CASE Proposals(log, Candidates[k.next]) = {}
    <3> DEFINE q == [k EXCEPT !.at = "append"]
    <3>1. q \in StageCall
      BY <1>2, StageFields
    <3>2. q.at = "append" /\ q.next = k.next /\ q.op = "stage" /\ q.ok = k.ok
      BY <1>2 DEF StageCall
    <3>3. m = q
      BY <2>1
    <3> HIDE DEF m, q, k
    <3>4. StageGoes(log, q)
      BY <1>1, <1>2, <3>1, <3>2 DEF StageGoes
    <3>5. Works(q)
      BY <3>2 DEF Works
    <3>. QED  BY <3>3, <3>4, <3>5
  <2>2. CASE Proposals(log, Candidates[k.next]) # {}
    <3>1. Candidates[k.next] \in Staged(log)
      BY <1>2, <2>2, CandidateIs DEF Staged
    <3>2. m = MovesOn(k)
      BY <2>2
    <3> HIDE DEF m, k
    <3>. QED  BY <1>1, <1>2, <3>1, <3>2, MovesOnGoes
  <2>. QED  BY <2>1, <2>2
<1> HIDE DEF m
<1>. QED  BY <1>1, <1>3, <1>4, StageStep

LEMMA AppendCandidateKeeps ==
    ASSUME IInv, NEW c \in Caller, AppendCandidate(c)
    PROVE  IInv'
<1> DEFINE k == call[c]
           a == Candidates[k.next]
           m == MovesOn(k)
<1>1. PICK i \in First(Ingestions(log, DOMAIN log, TiedTo[a])) :
        log' = Append(log, Proposal(a, TiedTo[a], i, FALSE))
  BY DEF AppendCandidate, Candidate
<1> DEFINE e == Proposal(a, TiedTo[a], i, FALSE)
<1>2. /\ k.op = "stage" /\ k.at = "append" /\ call' = [call EXCEPT ![c] = m]
      /\ UNCHANGED <<budget, overlapped>>
  BY DEF AppendCandidate, At
<1>3. StageGoes(log, k) /\ k.next \in DOMAIN Candidates /\ IsLedger(log)
  BY <1>2, StageIs DEF StageGoes
<1>4. Grows(log, log', e)
  BY <1>1, <1>3, GrowsByAppend
<1>5. e.type = "proposed" /\ e.prepared = FALSE /\ e.assertion = a
      /\ e.stream = AssertionStream(e.assertion)
  BY DEF Proposal
<1> HIDE DEF e, m
<1>6. WellFormed(e)
  BY <1>5 DEF WellFormed
<1>7. Legal(log, e)
  BY <1>5, <1>6, FormIsEnough
<1>8. StageGoes(log', k)
  <2> HIDE DEF k
  <2>. QED  BY <1>3, <1>4, StageGoesLater
<1>9. a \in Staged(log')
  <2>1. Len(log') \in Proposals(log', a)
    BY <1>4, <1>5, SelectionsGrow
  <2>2. a \in CandidateSet
    BY <1>3, CandidateIs
  <2>. QED  BY <2>1, <2>2 DEF Staged
<1>10. StageGoes(log', m) /\ Works(m) /\ m.op = "stage"
  <2> HIDE DEF k
  <2>. QED  BY <1>2, <1>8, <1>9, MovesOnGoes DEF m
<1>11. Spends /\ Goes(log', m)
  BY <1>2, <1>10, SpendsNothing DEF IInv, Goes
<1>. QED  BY <1>2, <1>4, <1>5, <1>7, <1>10, <1>11, PlainStep

LEMMA FinishStagingKeeps ==
    ASSUME IInv, NEW c \in Caller, FinishStaging(c)
    PROVE  IInv'
<1> DEFINE k == call[c]
           ok == \A i \in (k.base + 1)..Len(log) : log[i].type # "accepted"
           m == [k EXCEPT !.at = "done", !.ok = ok]
<1>1. /\ k.op = "stage" /\ k.at = "finish" /\ call' = [call EXCEPT ![c] = m]
      /\ UNCHANGED <<log, budget, overlapped>>
  BY DEF FinishStaging, At
<1>2. StageGoes(log, k) /\ k \in StageCall
  BY <1>1, StageIs
<1>3. Staged(log) = CandidateSet
  <2>1. \A n \in 1..Len(Candidates) : Candidates[n] \in Staged(log)
    <3>1. k.next = Len(Candidates) + 1 /\ \A n \in 1..(k.next - 1) : Candidates[n] \in Staged(log)
      BY <1>1, <1>2 DEF StageGoes
    <3>2. Len(Candidates) \in Nat
      BY ScenariosAssumption
    <3>3. k.next - 1 = Len(Candidates)
      BY <3>1, <3>2
    <3>. QED  BY <3>1, <3>3
  <2>2. DOMAIN Candidates = 1..Len(Candidates)
    BY ScenariosAssumption
  <2>3. Staged(log) \subseteq CandidateSet
    BY DEF Staged
  <2>. QED  BY <2>1, <2>2, <2>3 DEF CandidateSet
<1>4. m.at = "done" /\ m \in StageCall
  <2>1. ok \in BOOLEAN
    OBVIOUS
  <2> HIDE DEF ok
  <2>2. m \in StageCall
    BY <1>2, <2>1, StageFields
  <2>3. m.at = "done"
    BY <1>2 DEF StageCall
  <2>. QED  BY <2>2, <2>3
<1> HIDE DEF m
<1>5. StageGoes(log, m)
  BY <1>3, <1>4 DEF StageGoes
<1>6. Spends
  BY <1>1, SpendsNothing DEF IInv
<1>. QED  BY <1>1, <1>3, <1>5, <1>6, StageStep

----------------------------------------------------------------------------
(* The theorems.                                                           *)

\* The empty ledger is one a behaviour may start from.
LEMMA EmptyIsSound == SoundLedger(<<>>) /\ NoDuplicates(<<>>)
<1>1. /\ DOMAIN <<>> = {} /\ Len(<<>>) = 0
      /\ <<>> \in Seq({<<>>[i] : i \in DOMAIN <<>>})
  OBVIOUS
<1>2. \A type : OfType(<<>>, type) = {}
  BY <1>1 DEF OfType
<1>3. \A b : /\ Approvals(<<>>, b) = {} /\ Completions(<<>>, b) = {}
             /\ Acceptances(<<>>, b) = {} /\ Decisions(<<>>, b) = {}
  BY <1>2 DEF Approvals, Completions, Acceptances, Decisions
<1>4. Cardinality({}) <= 1
  BY FS_EmptySet
<1>5. ImportedOnce(<<>>) /\ AcceptedOnce(<<>>)
  <2>1. \A b : Cardinality(Approvals(<<>>, b)) <= 1 /\ Cardinality(Completions(<<>>, b)) <= 1
    BY <1>3, <1>4, Zenon
  <2>2. \A b : Cardinality(Acceptances(<<>>, b)) <= 1
    BY <1>3, <1>4, Zenon
  <2>. QED  BY <2>1, <2>2 DEF ImportedOnce, AcceptedOnce
<1>6. OneAfterTheOther(<<>>) /\ CompletionIsEarned(<<>>) /\ ReviewBuildsOnTheLast(<<>>)
  BY <1>2, <1>3 DEF OneAfterTheOther, CompletionIsEarned, ReviewBuildsOnTheLast
<1>7. ExportWasPlanned(<<>>) /\ FirstIsAccepted(<<>>) /\ PreparedWasEligible(<<>>)
  BY <1>2 DEF ExportWasPlanned, FirstIsAccepted, PreparedWasEligible
<1>8. NoDuplicates(<<>>)
  BY <1>2 DEF NoDuplicates
<1>. QED  BY <1>1, <1>5, <1>6, <1>7, <1>8 DEF SoundLedger

LEMMA InvariantBegins ==
    ASSUME Init
    PROVE  IInv
<1>1. PICK s \in Scenarios : log = s.log /\ budget = s.calls
  BY DEF Init, RecordInit
<1>2. call = [c \in Caller |-> Idle] /\ overlapped = FALSE
  BY DEF Init, RecordInit, ImportInit
<1>3. /\ SoundLedger(log) /\ NoDuplicates(log)
      /\ budget \in [Operation -> Nat] /\ budget["die"] <= 1
      /\ \/ /\ OfType(log, "proposed") = {}
            /\ budget["propose"] = 0 /\ budget["prepare"] = 0
         \/ /\ OfType(log, "staging-approved") = {}
            /\ budget["approve-staging"] = 0
  BY <1>1, ScenariosAssumption
<1>4. \A c \in Caller : call[c] = Idle /\ call[c].op = "idle"
  BY <1>2, IdleGoes
<1>5. CallsGo
  BY <1>2, <1>4, IdleGoes DEF CallsGo
<1>6. Passes = {}
  BY <1>4 DEF Passes
<1>7. PassKnowsAll
  BY <1>3, <1>6 DEF PassKnowsAll
<1>8. Quiet("proposed") /\ Quiet("staging-approved")
  BY <1>4 DEF Quiet
<1>9. StagedAsOne
  <2>1. CASE /\ OfType(log, "proposed") = {}
             /\ budget["propose"] = 0 /\ budget["prepare"] = 0
    <3>1. StagingAlone
      BY <1>8, <2>1 DEF StagingAlone
    <3>2. Staged(log) = {}
      BY <2>1 DEF Staged, Proposals
    <3>. QED  BY <3>1, <3>2 DEF StagedAsOne
  <2>2. CASE OfType(log, "staging-approved") = {} /\ budget["approve-staging"] = 0
    BY <1>8, <2>2 DEF StagedAsOne, NoStaging
  <2>. QED  BY <1>3, <2>1, <2>2
<1>. QED  BY <1>2, <1>3, <1>5, <1>7, <1>9 DEF IInv, BudgetGoes

LEMMA ImportKeeps ==
    ASSUME IInv, NEW c \in Caller, ImportNext(c)
    PROVE  IInv'
<1>1. ASSUME NEW b \in Batch, NEW h \in Human, ApproveImport(c, b, h)  PROVE IInv'
  BY <1>1, ApproveImportKeeps
<1>2. ASSUME NEW b \in Batch, StartImport(c, b)  PROVE IInv'
  BY <1>2, StartImportKeeps
<1>3. ASSUME NEW x \in Content, IngestGroup(c, x)  PROVE IInv'
  BY <1>3, IngestGroupKeeps
<1>4. ASSUME NEW x \in Content, LinkGroup(c, x)  PROVE IInv'
  BY <1>4, LinkGroupKeeps
<1>5. CASE CompleteImport(c)
  BY <1>5, CompleteImportKeeps
<1>. QED  BY <1>1, <1>2, <1>3, <1>4, <1>5 DEF ImportNext

LEMMA GovernanceKeeps ==
    ASSUME IInv, NEW c \in Caller, GovernanceNext(c)
    PROVE  IInv'
<1>1. ASSUME NEW x \in Content, NEW tags \in SUBSET Tag \ {{}}, ClassifyEvidence(c, x, tags)
      PROVE  IInv'
  BY <1>1, ClassifyKeeps
<1>2. ASSUME NEW x \in Content, NEW t \in Tag, NEW a \in {"affirm", "add", "remove", "supersede"},
             ReviewEvidenceGovernance(c, x, t, a)
      PROVE  IInv'
  BY <1>2, ReviewKeeps
<1>3. ASSUME NEW x \in Content, NEW type \in {"quarantined", "tombstoned"},
             LockEvidence(c, x, type)
      PROVE  IInv'
  BY <1>3, LockKeeps
<1>4. ASSUME NEW id \in Export, NEW included \in SUBSET Content \ {{}},
             NEW optIns \in SUBSET Restricted, RecordExport(c, id, included, optIns)
      PROVE  IInv'
  BY <1>4, RecordExportKeeps
<1>5. ASSUME NEW n \in Exposure, EnableExposure(c, n) \/ DisableExposure(c, n)
      PROVE  IInv'
  BY <1>5, EnableKeeps, DisableKeeps
<1>6. ASSUME NEW n \in Exposure, NEW d \in Session, ReadExposure(c, d, n)  PROVE IInv'
  BY <1>6, ReadExposureKeeps
<1>7. CASE ApproveDeviceSession(c)
  BY <1>7, ApproveSessionKeeps
<1>8. ASSUME NEW d \in Session, RevokeDeviceSession(c, d)  PROVE IInv'
  BY <1>8, RevokeKeeps
<1>. QED  BY <1>1, <1>2, <1>3, <1>4, <1>5, <1>6, <1>7, <1>8 DEF GovernanceNext

LEMMA AssertionKeeps ==
    ASSUME IInv, NEW c \in Caller, AssertionNext(c)
    PROVE  IInv'
<1>1. ASSUME NEW a \in Assertion, NEW x \in Content, PrepareAssertionCandidate(c, a, x)
      PROVE  IInv'
  BY <1>1, PrepareKeeps
<1>2. ASSUME NEW a \in Assertion, NEW x \in Content, ProposeAssertion(c, a, x)  PROVE IInv'
  BY <1>2, ProposeKeeps
<1>3. ASSUME NEW a \in Assertion, NEW h \in Human, AcceptAssertion(c, a, h)  PROVE IInv'
  BY <1>3, AcceptKeeps
<1>. QED  BY <1>1, <1>2, <1>3 DEF AssertionNext

LEMMA AdapterKeeps ==
    ASSUME IInv, NEW c \in Caller, AdapterNext(c)
    PROVE  IInv'
<1>1. ASSUME NEW a \in Assertion, NEW h \in Human, BeginReview(c, a, h)  PROVE IInv'
  BY <1>1, BeginReviewKeeps
<1>2. ASSUME NEW id \in Export, NEW included \in SUBSET Content \ {{}},
             NEW optIns \in SUBSET Restricted, BeginExport(c, id, included, optIns)
      PROVE  IInv'
  BY <1>2, BeginExportKeeps
<1>3. CASE ReadBefore(c) \/ CallAccept(c) \/ CallExport(c)
  BY <1>3, ReadBeforeKeeps, CallAcceptKeeps, CallExportKeeps
<1>4. CASE AppendEffect(c) \/ LoseEffect(c) \/ LookUp(c) \/ Attest(c)
  BY <1>4, AppendEffectKeeps, LoseEffectKeeps, LookUpKeeps, AttestKeeps
<1>5. ASSUME NEW h \in Human, ApproveStaging(c, h)  PROVE IInv'
  BY <1>5, ApproveStagingKeeps
<1>6. CASE BeginStaging(c) \/ CheckCandidate(c)
  BY <1>6, BeginStagingKeeps, CheckCandidateKeeps
<1>7. CASE AppendCandidate(c) \/ FinishStaging(c) \/ Report(c)
  BY <1>7, AppendCandidateKeeps, FinishStagingKeeps, ReportKeeps
<1>. QED  BY <1>1, <1>2, <1>3, <1>4, <1>5, <1>6, <1>7 DEF AdapterNext

LEMMA NothingKeeps ==
    ASSUME IInv, UNCHANGED vars
    PROVE  IInv'
<1>1. log' = log /\ call' = call /\ budget' = budget /\ overlapped' = overlapped
  BY DEF vars
<1>2. CallsGo' /\ PassKnowsAll' /\ BudgetGoes' /\ StagedAsOne'
  BY <1>1 DEF IInv, CallsGo, PassKnowsAll, Passes, BudgetGoes, StagedAsOne, NoStaging,
       StagingAlone, Quiet, NoneDied, AtWork
<1>. QED  BY <1>1, <1>2 DEF IInv

\* The inductive invariant holds in every behaviour: whatever is sent may be
\* appended or is refused, and what the passes and adapters know stays so.
THEOREM EvidenceInvariant == Spec => []IInv
<1>1. Init => IInv
  BY InvariantBegins
<1>2. IInv /\ [Next]_vars => IInv'
  <2>1. SUFFICES ASSUME IInv, [Next]_vars PROVE IInv'
    OBVIOUS
  <2>2. ASSUME NEW c \in Caller, Send(c) /\ UNCHANGED overlapped  PROVE IInv'
    BY <2>1, <2>2, SendKeeps
  <2>3. ASSUME NEW c \in Caller, Die(c) /\ UNCHANGED overlapped  PROVE IInv'
    BY <2>1, <2>3, DieKeeps
  <2>4. ASSUME NEW c \in Caller,
               ImportNext(c) \/ GovernanceNext(c) \/ AssertionNext(c) \/ AdapterNext(c)
        PROVE  IInv'
    BY <2>1, <2>4, ImportKeeps, GovernanceKeeps, AssertionKeeps, AdapterKeeps
  <2>5. CASE UNCHANGED vars
    BY <2>1, <2>5, NothingKeeps
  <2>. QED  BY <2>1, <2>2, <2>3, <2>4, <2>5 DEF Next
<1>. QED  BY <1>1, <1>2, PTL DEF Spec

\* Passes over batches leave what one pass would have, as far as the code
\* keeps them apart, and their counts are those a review of evidence makes
\* (importApprovedOccurrences, evaluateEvidenceProposalEligibility): for any
\* batches and any scans, with any number of people and passes at once, dying
\* once anywhere.
THEOREM ImportsSound == Spec => []ImportsAreSound
<1>1. IInv => ImportsAreSound
  <2>1. SUFFICES ASSUME IInv PROVE ImportsAreSound
    OBVIOUS
  <2>2. SoundLedger(log) /\ \A c \in Caller : Goes(log, call[c])
    BY <2>1 DEF IInv, CallsGo
  <2>3. TypeOK
    <3>1. \A i \in DOMAIN log : WellFormed(log[i])
      BY <2>2 DEF SoundLedger
    <3>2. \A c \in Caller :
            call[c].op \in {"idle", "send", "import", "approve-session", "adapter", "stage"}
      BY <2>2, GoesByItsOperation
    <3>3. ASSUME NEW c \in Passes
          PROVE  /\ call[c].batch \in Batch
                 /\ call[c].known \subseteq DOMAIN log
                 /\ call[c].todo \subseteq ContentsOf(call[c].batch)
                 /\ call[c].group \in call[c].todo \union {NoContent}
      <4>1. PassGoes(log, call[c])
        BY <2>1, PassCallIs DEF IInv, Passes
      <4>. QED  BY <4>1 DEF PassGoes, PassCall
    <3>. QED  BY <2>1, <3>1, <3>2, <3>3 DEF TypeOK, IInv
  <2>4. DuplicatesNeedOverlap
    BY <2>1 DEF IInv, PassKnowsAll, DuplicatesNeedOverlap
  <2>5. CompleteBatchesReconcile
    BY <2>2, CompleteIsWhole DEF CompleteBatchesReconcile
  <2>6. ImportedOnce(log) /\ OneAfterTheOther(log) /\ CompletionIsEarned(log)
    BY <2>2 DEF SoundLedger
  <2>. QED  BY <2>3, <2>4, <2>5, <2>6 DEF ImportsAreSound
<1>. QED  BY <1>1, EvidenceInvariant, PTL

\* What is shared is covered by what people decided, one after the other:
\* exports by the tags, sessions by their exposure, reviews by the decision
\* before (planExport, approveDeviceSession, reviewEvidenceGovernance), for any
\* tags, people, exposures and sessions.
THEOREM SharingCovered == Spec => []SharingIsCovered
<1>1. IInv => SharingIsCovered
  <2>1. SUFFICES ASSUME SoundLedger(log) PROVE SharingIsCovered
    BY DEF IInv
  <2>2. SessionFollowsItsExposure
    BY <2>1, SessionFollows DEF SessionFollowsItsExposure
  <2>3. ExportWasPlanned(log) /\ ReviewBuildsOnTheLast(log)
    BY <2>1 DEF SoundLedger
  <2>4. DefaultExportWasSafe
    BY <2>3, DefaultIsSafe DEF ExportWasPlanned, DefaultExportWasSafe
  <2>. QED  BY <2>2, <2>3, <2>4 DEF SharingIsCovered
<1>. QED  BY <1>1, EvidenceInvariant, PTL

\* An assertion is accepted once, its first proposal, and what was prepared
\* rests on evidence that was fit when the proposal was recorded, whoever
\* prepares, proposes and accepts at once (prepareAssertionCandidate, accept).
THEOREM AssertionsEarned == Spec => []AssertionsAreEarned
<1>1. IInv => AssertionsAreEarned
  BY DEF IInv, SoundLedger, AssertionsAreEarned
<1>. QED  BY <1>1, EvidenceInvariant, PTL

\* What an adapter reports as done is what was approved; an export it reports
\* as its own took what could be exported when it was recorded; and a batch of
\* proposals is there as a whole or not at all, unless a call died
\* (assertLedgerAttestedResult, executeLegacyStaging).
THEOREM AdaptersHonest == Spec => []AdaptersAreHonest
<1>1. IInv => AdaptersAreHonest
  <2>1. SUFFICES ASSUME IInv PROVE AdaptersAreHonest
    OBVIOUS
  <2>2. /\ SoundLedger(log) /\ IsLedger(log) /\ Len(log) \in Nat /\ DOMAIN log = 1..Len(log)
        /\ \A i \in DOMAIN log : WellFormed(log[i])
    BY <2>1, SoundIsLedger, LedgerFacts DEF IInv, SoundLedger
  <2>3. ASSUME NEW c \in Succeeded
        PROVE  /\ call[c].result \in Matching(log, call[c].want)
               /\ call[c].result <= call[c].base + 1 /\ call[c].base \in Nat
    <3>1. c \in Caller /\ call[c].op = "adapter" /\ call[c].at = "done" /\ call[c].result # 0
      BY <2>3 DEF Succeeded, At
    <3>2. AdapterGoes(log, call[c]) /\ call[c].base \in Nat
      BY <2>1, <3>1, AdapterIs
    <3>. QED  BY <3>1, <3>2 DEF AdapterGoes
  <2>4. ReportedIsApproved
    BY <2>3 DEF ReportedIsApproved
  <2>5. ReportedExportIsCurrent
    <3>1. SUFFICES ASSUME NEW c \in Succeeded, call[c].want.kind = "exported",
                          call[c].result > call[c].base,
                          log[call[c].result].asOf >= call[c].base,
                          NEW x \in call[c].want.included
                   PROVE  Exportable(Prefix(log, call[c].result - 1), x, call[c].want.optIns)
      BY DEF ReportedExportIsCurrent
    <3> DEFINE r == call[c].result
               n == call[c].base
               want == call[c].want
    <3>2. r \in Matching(log, want) /\ r <= n + 1 /\ n \in Nat
      BY <2>3
    <3>3. /\ r \in InStream(log, ExportStream(want.export)) /\ log[r].included = want.included
          /\ log[r].optIns = want.optIns
      BY <3>1, <3>2 DEF Matching
    <3>4. r \in DOMAIN log /\ log[r].stream = ExportStream(want.export) /\ WellFormed(log[r])
      BY <2>2, <3>3 DEF InStream
    <3>5. r \in OfType(log, "exported")
      <4>1. log[r].stream[1] = "export"
        BY <3>4, StreamsApart
      <4>2. log[r].type = "exported"
        BY <3>4, <4>1, StreamsApart DEF WellFormed
      <4>. QED  BY <3>4, <4>2 DEF OfType
    <3>6. /\ log[r].asOf \in 0..(r - 1)
          /\ \A y \in log[r].included : Exportable(Prefix(log, log[r].asOf), y, log[r].optIns)
      BY <2>2, <3>5 DEF SoundLedger, ExportWasPlanned
    <3>7. log[r].asOf = r - 1
      <4>1. r \in Nat /\ r > n /\ log[r].asOf >= n
        BY <2>2, <3>1, <3>4
      <4>2. log[r].asOf \in 0..(r - 1)
        BY <3>6
      <4> HIDE DEF r, n
      <4>. QED  BY <3>2, <4>1, <4>2
    <3>. QED  BY <3>1, <3>3, <3>6, <3>7
  <2>6. BatchIsWhole
    <3>1. ASSUME NEW c \in Caller, At(c, "stage", "done"), call[c].ok
          PROVE  Staged(log) = CandidateSet
      <4>1. call[c].op = "stage" /\ call[c].at = "done"
        BY <3>1 DEF At
      <4>2. StageGoes(log, call[c])
        BY <2>1, <4>1, StageIs
      <4>. QED  BY <3>1, <4>1, <4>2 DEF StageGoes
    <3>2. ASSUME InStream(log, StagingStream) # {}, AtWork = {}, NoneDied
          PROVE  Staged(log) \in {{}, CandidateSet}
      <4>1. PICK i \in DOMAIN log : log[i].stream = StagingStream
        BY <3>2 DEF InStream
      <4>2. log[i].type = "staging-approved"
        BY <2>2, <4>1, StreamsApart DEF WellFormed
      <4>3. ~NoStaging
        BY <4>1, <4>2 DEF NoStaging, OfType
      <4>. QED  BY <2>1, <3>2, <4>3 DEF IInv, StagedAsOne
    <3>. QED  BY <3>1, <3>2 DEF BatchIsWhole, Staged, AtWork
  <2>. QED  BY <2>4, <2>5, <2>6 DEF AdaptersAreHonest
<1>. QED  BY <1>1, EvidenceInvariant, PTL

----------------------------------------------------------------------------
(* No step takes back what people decided.                                 *)

LEMMA LedgerGrows ==
    ASSUME IInv, NEW c \in Caller,
           \/ ImportNext(c) \/ GovernanceNext(c) \/ AssertionNext(c) \/ AdapterNext(c)
           \/ Send(c) \/ Die(c)
    PROVE  log' = log \/ \E e : Grows(log, log', e)
<1>1. IsLedger(log)
  BY SoundIsLedger DEF IInv
<1>2. SUFFICES log' = log \/ \E e : log' = Append(log, e)
  BY <1>1, GrowsByAppend
<1>3. ImportNext(c) => log' = log \/ \E e : log' = Append(log, e)
  BY DEF ImportNext, ApproveImport, StartImport, IngestGroup, LinkGroup, CompleteImport
<1>4. GovernanceNext(c) => log' = log
  BY DEF GovernanceNext, Prepares, ClassifyEvidence, ReviewEvidenceGovernance, LockEvidence,
       RecordExport, EnableExposure, DisableExposure, ReadExposure, ApproveDeviceSession,
       RevokeDeviceSession
<1>5. AssertionNext(c) => log' = log
  BY DEF AssertionNext, Prepares, PrepareAssertionCandidate, ProposeAssertion, AcceptAssertion
<1>6. AdapterNext(c) => log' = log \/ \E e : log' = Append(log, e)
  <2>1. ASSUME NEW a \in Assertion, NEW h \in Human, BeginReview(c, a, h)  PROVE log' = log
    BY <2>1 DEF BeginReview
  <2>2. ASSUME NEW id, NEW included, NEW optIns, BeginExport(c, id, included, optIns)
        PROVE  log' = log
    BY <2>2 DEF BeginExport
  <2>3. CASE ReadBefore(c) \/ CallAccept(c) \/ CallExport(c) \/ LoseEffect(c) \/ LookUp(c)
             \/ Attest(c) \/ Report(c) \/ BeginStaging(c) \/ CheckCandidate(c)
             \/ FinishStaging(c)
    BY <2>3 DEF ReadBefore, CallAccept, CallExport, LoseEffect, LookUp, Attest, Report,
         BeginStaging, CheckCandidate, FinishStaging
  <2>4. ASSUME NEW h \in Human, ApproveStaging(c, h)  PROVE log' = log
    BY <2>4 DEF ApproveStaging
  <2>5. CASE AppendEffect(c)
    BY <2>5 DEF AppendEffect
  <2>6. CASE AppendCandidate(c)
    BY <2>6 DEF AppendCandidate
  <2>. QED  BY <2>1, <2>2, <2>3, <2>4, <2>5, <2>6 DEF AdapterNext
<1>7. Send(c) \/ Die(c) => log' = log \/ \E e : log' = Append(log, e)
  BY DEF Send, Die
<1>. QED  BY <1>3, <1>4, <1>5, <1>6, <1>7

\* A tag that a person removed comes back only by a person, whatever models go
\* on to say, and evidence once locked never becomes public safe
\* (governance-projection.ts, activeTags and publicSafe).
THEOREM DecisionsStand == Spec => HumanDecisionStands
<1> DEFINE A == \A x \in Content :
                 /\ \A t \in Tag :
                     /\ Reviews(log, x, t) # {} /\ IsActive(log, x, t) # IsActive(log', x, t)
                     => log'[Len(log')].type = "reviewed"
                 /\ IsLocked(log, x, "quarantined") => ~IsPublicSafe(log', x)
<1>1. IInv /\ [Next]_vars => [A]_log
  <2>1. SUFFICES ASSUME IInv, Next, log' # log PROVE A
    BY DEF vars
  <2>2. PICK e : Grows(log, log', e)
    BY <2>1, LedgerGrows DEF Next
  <2>3. log'[Len(log')] = e
    BY <2>2 DEF Grows
  <2>4. ASSUME NEW x \in Content, NEW t \in Tag, Reviews(log, x, t) # {}, e.type # "reviewed"
        PROVE  IsActive(log, x, t) = IsActive(log', x, t)
    <3>1. IsActive(log', x, t) <=> IsActive(log, x, t)
      BY <2>2, <2>4, ReviewsStand
    <3>2. IsActive(log', x, t) \in BOOLEAN /\ IsActive(log, x, t) \in BOOLEAN
      BY DEF IsActive
    <3>. QED  BY <3>1, <3>2
  <2>5. ASSUME NEW x \in Content, IsLocked(log, x, "quarantined")
        PROVE  ~IsPublicSafe(log', x)
    BY <2>2, <2>5, LocksStay DEF IsPublicSafe
  <2>. QED  BY <2>3, <2>4, <2>5
<1>. QED  BY <1>1, EvidenceInvariant, PTL DEF Spec, HumanDecisionStands
=============================================================================
