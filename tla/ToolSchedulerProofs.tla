------------------------ MODULE ToolSchedulerProofs ------------------------
(***************************************************************************)
(* Whatever the numbers of wakes, callers, approvals and crashes, the      *)
(* request's stream stays what one-step calls would make it, its leases do *)
(* not overlap, it has one outcome, and its tool acts only when allowed.   *)
(***************************************************************************)
EXTENDS ToolScheduler, TLAPS

----------------------------------------------------------------------------
(* Sound(s) is what legal appends keep of a stream.  That a last event of  *)
(* a type exists when there is one at all is a part of it, because it is   *)
(* shown by following the appends too.                                     *)

HasLast(s, type) ==
    Ids(s, type) # {} => \E i \in Ids(s, type) : \A j \in Ids(s, type) : j <= i

RequestedOnceEndedOnce(s) ==
    \A i \in DOMAIN s :
        /\ s[i].type = "requested" <=> i = 1
        /\ s[i].type \in Terminal => i = Len(s)

LeasesApart(s) ==
    /\ \A i \in Ids(s, "claimed") : s[i].at < s[i].expires
    /\ \A i, j \in Ids(s, "claimed") : i < j => s[i].expires <= s[j].at

AuthorizedAt(before, e) == Open(before) /\ ApprovalUsable(before, e.by)

ClaimsAuthorized(s) ==
    \A c \in Ids(s, "claimed") : AuthorizedAt(SubSeq(s, 1, c - 1), s[c])

Sound(s) ==
    /\ HasLast(s, "claimed")
    /\ RequestedOnceEndedOnce(s)
    /\ LeasesApart(s)
    /\ ClaimsAuthorized(s)

\* lastOfType returns the last event of the type, when there is one.
LEMMA LastOfTypeIsLast ==
    ASSUME NEW s \in Seq(Event), NEW type, Ids(s, type) # {}, HasLast(s, type)
    PROVE  /\ LastOfType(s, type) \in Ids(s, type)
           /\ \A j \in Ids(s, type) : j <= LastOfType(s, type)
           /\ LastOfType(s, type) # 0
<1>1. LastOfType(s, type) =
        CHOOSE i \in Ids(s, type) : \A j \in Ids(s, type) : j <= i
  BY DEF LastOfType
<1>2. \E i \in Ids(s, type) : \A j \in Ids(s, type) : j <= i
  BY DEF HasLast
<1>3. /\ LastOfType(s, type) \in Ids(s, type)
      /\ \A j \in Ids(s, type) : j <= LastOfType(s, type)
  BY <1>1, <1>2
<1>. QED  BY <1>3 DEF Ids

\* An appended event does not disturb what was there.
LEMMA AppendedEvents ==
    ASSUME NEW s \in Seq(Event), NEW e \in Event
    PROVE  /\ Append(s, e) \in Seq(Event)
           /\ Len(Append(s, e)) = Len(s) + 1 /\ Len(s) \in Nat
           /\ DOMAIN Append(s, e) = 1..(Len(s) + 1) /\ DOMAIN s = 1..Len(s)
           /\ \A i \in 1..Len(s) : Append(s, e)[i] = s[i]
           /\ Append(s, e)[Len(s) + 1] = e
           /\ \A c \in 1..Len(s) : SubSeq(Append(s, e), 1, c - 1) = SubSeq(s, 1, c - 1)
           /\ SubSeq(Append(s, e), 1, Len(s)) = s
OBVIOUS

\* The ids of a type grow by the appended event's, if it is of the type.
LEMMA AppendedIds ==
    ASSUME NEW s \in Seq(Event), NEW e \in Event, NEW type
    PROVE  /\ e.type = type => Ids(Append(s, e), type) = Ids(s, type) \union {Len(s) + 1}
           /\ e.type # type => Ids(Append(s, e), type) = Ids(s, type)
BY AppendedEvents DEF Ids

LEMMA LegalKeepsLast ==
    ASSUME NEW s \in Seq(Event), NEW e \in Event, NEW type, HasLast(s, type)
    PROVE  HasLast(Append(s, e), type)
<1>1. \A i \in Ids(s, type) : i \in Nat /\ i <= Len(s)
  BY AppendedEvents DEF Ids
<1>2. CASE e.type = type
  <2>1. \A j \in Ids(Append(s, e), type) : j <= Len(s) + 1
    BY <1>1, <1>2, AppendedIds, AppendedEvents
  <2>2. Len(s) + 1 \in Ids(Append(s, e), type)
    BY <1>2, AppendedIds
  <2>. QED  BY <2>1, <2>2 DEF HasLast
<1>3. CASE e.type # type
  <2>1. Ids(Append(s, e), type) = Ids(s, type)
    BY <1>3, AppendedIds
  <2>. QED  BY <2>1 DEF HasLast
<1>. QED  BY <1>2, <1>3

LEMMA LegalKeepsOutcome ==
    ASSUME NEW s \in Seq(Event), NEW e, NEW time, Legal(s, e, time),
           RequestedOnceEndedOnce(s)
    PROVE  RequestedOnceEndedOnce(Append(s, e))
<1>1. e \in Event
  BY DEF Legal
<1>2. CASE e.type = "requested"
  <2>1. MayRequest(s)
    BY <1>2 DEF Legal, Terminal
  <2>2. DOMAIN s = {}
    BY <2>1, AppendedEvents, <1>1 DEF MayRequest, Ids, RequestedOnceEndedOnce
  <2>3. Len(s) = 0
    BY <2>2, <1>1, AppendedEvents
  <2>. QED  BY <1>1, <1>2, <2>3, AppendedEvents DEF RequestedOnceEndedOnce, Terminal
<1>3. CASE e.type # "requested"
  <2>1. Open(s)
    BY <1>3 DEF Legal, MayApprove, MayClaim, MayComplete, MayClose
  <2>2. \A i \in DOMAIN s : s[i].type \notin Terminal
    BY <2>1 DEF Open, Closed
  <2>3. Len(s) # 0
    BY <2>1, <1>1, AppendedEvents DEF Open, Ids
  <2>. QED  BY <1>1, <1>3, <2>2, <2>3, AppendedEvents DEF RequestedOnceEndedOnce
<1>. QED  BY <1>2, <1>3

\* By the last claim's lease, every earlier lease has run out too.
LEMMA LegalKeepsLeasesApart ==
    ASSUME NEW s \in Seq(Event), NEW e, NEW time, Legal(s, e, time),
           HasLast(s, "claimed"), LeasesApart(s)
    PROVE  LeasesApart(Append(s, e))
<1>1. e \in Event
  BY DEF Legal
<1> DEFINE new == Append(s, e)
<1>2. \A i \in Ids(s, "claimed") : new[i] = s[i] /\ i \in 1..Len(s)
  BY <1>1, AppendedEvents DEF Ids
<1>3. CASE e.type # "claimed"
  <2>1. Ids(new, "claimed") = Ids(s, "claimed")
    BY <1>1, <1>3, AppendedIds
  <2>. QED  BY <1>2, <2>1 DEF LeasesApart
<1>4. CASE e.type = "claimed"
  <2>1. MayClaim(s, e.by, e.at, e.expires)
    BY <1>4 DEF Legal, Terminal
  <2>2. \A i \in Ids(s, "claimed") : s[i].expires <= e.at
    <3>1. SUFFICES ASSUME NEW i \in Ids(s, "claimed")
                   PROVE  s[i].expires <= e.at
      OBVIOUS
    <3> DEFINE k == LastOfType(s, "claimed")
    <3>2. k \in Ids(s, "claimed") /\ i <= k /\ k # 0
      BY LastOfTypeIsLast, <3>1
    <3>3. s[k].expires <= e.at
      BY <3>2, <2>1 DEF MayClaim, LeaseFree
    <3>4. i \in 1..Len(s) /\ k \in 1..Len(s) /\ s[i] \in Event /\ s[k] \in Event
      BY <1>2, <3>1, <3>2
    <3>5. i # k => s[i].expires <= s[k].at /\ s[k].at < s[k].expires
      BY <3>1, <3>2, <3>4 DEF LeasesApart
    <3>6. {s[i].expires, s[k].at, s[k].expires, e.at} \subseteq Nat
      BY <1>1, <3>4 DEF Event
    <3>7. CASE i = k
      BY <3>3, <3>7
    <3>8. CASE i # k
      BY <3>3, <3>5, <3>6, <3>8
    <3>. QED  BY <3>7, <3>8
  <2>3. Ids(new, "claimed") = Ids(s, "claimed") \union {Len(s) + 1}
    BY <1>1, <1>4, AppendedIds
  <2>4. new[Len(s) + 1] = e /\ Len(s) \in Nat /\ e.at < e.expires
    BY <1>1, <2>1, AppendedEvents DEF MayClaim, Event
  <2>. QED  BY <1>2, <2>2, <2>3, <2>4 DEF LeasesApart
<1>. QED  BY <1>3, <1>4

LEMMA LegalKeepsAuthorization ==
    ASSUME NEW s \in Seq(Event), NEW e, NEW time, Legal(s, e, time),
           ClaimsAuthorized(s)
    PROVE  ClaimsAuthorized(Append(s, e))
<1>1. e \in Event
  BY DEF Legal
<1>2. SUFFICES ASSUME NEW c \in Ids(Append(s, e), "claimed")
               PROVE  AuthorizedAt(SubSeq(Append(s, e), 1, c - 1), Append(s, e)[c])
  BY DEF ClaimsAuthorized
<1>3. CASE c \in Ids(s, "claimed")
  <2>1. c \in 1..Len(s)
    BY <1>3 DEF Ids
  <2>2. AuthorizedAt(SubSeq(s, 1, c - 1), s[c])
    BY <1>3 DEF ClaimsAuthorized
  <2>3. Append(s, e)[c] = s[c] /\ SubSeq(Append(s, e), 1, c - 1) = SubSeq(s, 1, c - 1)
    BY <1>1, <2>1, AppendedEvents
  <2>. QED  BY <2>2, <2>3
<1>4. CASE c \notin Ids(s, "claimed")
  <2>1. e.type = "claimed" /\ c = Len(s) + 1
    BY <1>1, <1>2, <1>4, AppendedIds
  <2>2. AuthorizedAt(s, e)
    BY <2>1 DEF Legal, MayClaim, AuthorizedAt, Terminal
  <2>3. SubSeq(Append(s, e), 1, c - 1) = s /\ Append(s, e)[c] = e
    BY <1>1, <2>1, AppendedEvents
  <2>. QED  BY <2>2, <2>3
<1>. QED  BY <1>3, <1>4

\* A legal event keeps a stream sound.
LEMMA LegalKeepsSound ==
    ASSUME NEW s \in Seq(Event), NEW e, NEW time, Legal(s, e, time), Sound(s)
    PROVE  Append(s, e) \in Seq(Event) /\ Sound(Append(s, e))
<1>1. e \in Event
  BY DEF Legal
<1>. QED  BY <1>1, LegalKeepsLast, LegalKeepsOutcome, LegalKeepsLeasesApart,
             LegalKeepsAuthorization DEF Sound
----------------------------------------------------------------------------
(* The inductive invariant.  An append that may still be accepted, because *)
(* the stream has the length it expects, is legal; that is all the         *)
(* conditional append is for.  The rest follows a wake from its claim to   *)
(* its completion.                                                         *)

Sending == {"sending", "claiming", "completing", "failing"}
Holding == {"execute", "evidence", "report", "complete", "completing"}
Evidenced == {"report", "complete", "completing"}

AppendIsLegal(p) ==
    pc[p] \in Sending /\ base[p] = Len(stream) => Legal(stream, pending[p], now)

\* What a process at a label may be about to append.
Proposes(p, label, e) ==
    /\ label = "sending" => e.type \in {"requested", "approved", "denied"}
    /\ label = "claiming" => e.type = "claimed" /\ e.by = SchedulerActor[p]
    /\ label = "completing" => e.type = "completed" /\ e.by = SchedulerActor[p]
    /\ label = "failing" => e.type = "failed"

HoldsClaim(w) ==
    /\ pc[w] \in Holding =>
            claim[w] \in Ids(stream, "claimed") /\ stream[claim[w]].by = SchedulerActor[w]
    /\ pc[w] \in Evidenced => claim[w] \in effects
    /\ pc[w] = "completing" => pending[w].claim = claim[w]

Good(p) ==
    /\ AppendIsLegal(p)
    /\ Proposes(p, pc[p], pending[p])
    /\ p \in Wake => HoldsClaim(p)

EffectsAreClaimed == effects \subseteq Ids(stream, "claimed")

IInv ==
    /\ TypeOK
    /\ Sound(stream)
    /\ EffectsAreClaimed
    /\ CompletionIsEarned
    /\ ClaimsAreExclusive
    /\ \A p \in Process : Good(p)

\* Legality does not depend on the clock's going on.
LEMMA LegalLater ==
    ASSUME NEW s, NEW e, NEW t \in Nat, NEW u \in Nat, t <= u, Legal(s, e, t)
    PROVE  Legal(s, e, u)
<1>1. e.at \in Nat
  BY DEF Legal, Event
<1>. QED  BY <1>1 DEF Legal

\* An accepted append leaves a sound stream that extends the old one.
LEMMA AcceptedIsSound ==
    ASSUME IInv, NEW p \in Process, pc[p] \in Sending, Accepted(p)
    PROVE  /\ pending[p] \in Event
           /\ Legal(stream, pending[p], now)
           /\ stream' \in Seq(Event) /\ Sound(stream')
           /\ Len(stream') = Len(stream) + 1 /\ Len(stream) \in Nat
           /\ \A i \in 1..Len(stream) : stream'[i] = stream[i]
           /\ stream'[Len(stream')] = pending[p]
           /\ DOMAIN stream = 1..Len(stream) /\ DOMAIN stream' = 1..Len(stream')
           /\ \A type : Ids(stream, type) \subseteq Ids(stream', type)
<1>1. pending[p] \in Event /\ stream \in Seq(Event)
  BY DEF IInv, TypeOK
<1>2. Legal(stream, pending[p], now)
  BY DEF IInv, Good, AppendIsLegal, Accepted, Expected
<1>3. stream' = Append(stream, pending[p])
  BY DEF Accepted
<1>4. stream' \in Seq(Event) /\ Sound(stream')
  BY <1>1, <1>2, <1>3, LegalKeepsSound DEF IInv
<1>5. \A type : Ids(stream, type) \subseteq Ids(stream', type)
  BY <1>1, <1>3, AppendedIds
<1>. QED  BY <1>1, <1>2, <1>3, <1>4, <1>5, AppendedEvents

\* A process that a step leaves alone stays good: the stream may grow, and
\* then its append will be refused, the clock may go on, and effects may come.
LEMMA OthersStayGood ==
    ASSUME IInv, NEW p \in Process,
           \/ stream' = stream
           \/ \E q \in Process : pc[q] \in Sending /\ Accepted(q),
           now' \in Nat, now <= now', effects \subseteq effects',
           pc'[p] = pc[p], base'[p] = base[p], pending'[p] = pending[p],
           p \in Wake => claim'[p] = claim[p]
    PROVE  Good(p)'
<1>1. now \in Nat /\ base[p] \in 0..Len(stream) /\ Good(p) /\ stream \in Seq(Event)
  BY DEF IInv, TypeOK
<1>2. CASE stream' = stream
  <2>1. AppendIsLegal(p)'
    BY <1>1, <1>2, LegalLater DEF Good, AppendIsLegal
  <2>. QED  BY <1>1, <1>2, <2>1 DEF Good, Proposes, HoldsClaim
<1>3. CASE \E q \in Process : pc[q] \in Sending /\ Accepted(q)
  <2>1. /\ Len(stream') = Len(stream) + 1 /\ Len(stream) \in Nat
        /\ Ids(stream, "claimed") \subseteq Ids(stream', "claimed")
        /\ \A i \in Ids(stream, "claimed") : stream'[i] = stream[i]
    BY <1>3, AcceptedIsSound DEF Ids
  <2>2. AppendIsLegal(p)'
    BY <1>1, <2>1 DEF AppendIsLegal
  <2>. QED  BY <1>1, <2>1, <2>2 DEF Good, Proposes, HoldsClaim
<1>. QED  BY <1>2, <1>3
----------------------------------------------------------------------------
(* The kinds of step.                                                      *)

LEMMA InitInv == Init => IInv
<1> SUFFICES ASSUME Init PROVE IInv
  OBVIOUS
<1>1. stream = <<>> /\ now = 0 /\ effects = {} /\ crashes = 0
  BY DEF Init
<1>2. TypeOK
  BY SchedulerAssumption, ActorAssumption
  DEF Init, TypeOK, Label, NoEvent, NewEvent, Event, Terminal
<1>3. Sound(stream)
  BY <1>1 DEF Sound, HasLast, RequestedOnceEndedOnce, LeasesApart,
              ClaimsAuthorized, Ids
<1>4. \A p \in Process : Good(p)
  BY DEF Init, Good, AppendIsLegal, Proposes, HoldsClaim, Sending, Holding,
         Evidenced, Process
<1>. QED  BY <1>1, <1>2, <1>3, <1>4
          DEF IInv, EffectsAreClaimed, CompletionIsEarned, ClaimsAreExclusive,
              Init, Ids

\* A gateway method has read the stream and found that its event is legal.
LEMMA PrepareKeepsInv ==
    ASSUME IInv, NEW p \in Process, NEW e, NEW label \in Sending,
           Legal(stream, e, now), Proposes(p, label, e),
           label = "completing" /\ p \in Wake =>
               pc[p] = "complete" /\ e.claim = claim[p],
           Prepare(p, e, label)
    PROVE  IInv'
<1>1. /\ stream' = stream /\ now' = now /\ effects' = effects /\ crashes' = crashes
      /\ lease' = lease /\ claim' = claim
      /\ pc' = [pc EXCEPT ![p] = label]
      /\ base' = [base EXCEPT ![p] = Len(stream)]
      /\ pending' = [pending EXCEPT ![p] = e]
  BY DEF Prepare, Goto, durable
<1>2. TypeOK /\ e \in Event /\ label \in Label
  BY DEF IInv, Legal, Sending, Label
<1>3. TypeOK'
  BY <1>1, <1>2 DEF TypeOK
<1>4. Good(p)'
  <2>1. pc'[p] = label /\ base'[p] = Len(stream) /\ pending'[p] = e
    BY <1>1, <1>2 DEF TypeOK
  <2>2. AppendIsLegal(p)' /\ Proposes(p, pc[p], pending[p])'
    BY <1>1, <2>1 DEF AppendIsLegal, Proposes
  <2>3. p \in Wake => HoldsClaim(p)'
    BY <1>1, <2>1 DEF IInv, Good, HoldsClaim, Holding, Evidenced, Sending
  <2>. QED  BY <2>2, <2>3 DEF Good
<1>5. ASSUME NEW q \in Process, q # p
      PROVE  Good(q)'
  BY <1>1, <1>2, <1>5, OthersStayGood DEF TypeOK
<1>. QED  BY <1>1, <1>3, <1>4, <1>5
          DEF IInv, EffectsAreClaimed, CompletionIsEarned, ClaimsAreExclusive

\* A wake goes to a label where nothing is about to be appended.
LEMMA MoveKeepsInv ==
    ASSUME IInv, NEW w \in Wake, NEW label \in Label \ Sending,
           label \in Holding => pc[w] \in Holding,
           label \in Evidenced => claim[w] \in effects,
           Goto(w, label),
           base' = base \/ base' = [base EXCEPT ![w] = 0],
           pending' = pending \/ pending' = [pending EXCEPT ![w] = NoEvent],
           lease' = lease \/ lease' = [lease EXCEPT ![w] = now + Lease],
           UNCHANGED <<durable, claim, crashes>>
    PROVE  IInv'
<1>1. /\ stream' = stream /\ now' = now /\ effects' = effects /\ crashes' = crashes
      /\ claim' = claim /\ pc' = [pc EXCEPT ![w] = label]
  BY DEF Goto, durable
<1>2. TypeOK /\ w \in Process /\ NoEvent \in Event
  BY ActorAssumption DEF IInv, Process, NoEvent, NewEvent, Event, Terminal
<1>3. TypeOK'
  <2>1. base' \in [Process -> 0..Len(stream)]
    BY <1>2 DEF TypeOK
  <2>2. pending' \in [Process -> Event]
    BY <1>2 DEF TypeOK
  <2>3. now + Lease \in 0..MaxTime + Lease
    BY <1>2, SchedulerAssumption DEF TypeOK
  <2>4. lease' \in [Wake -> 0..MaxTime + Lease]
    BY <1>2, <2>3 DEF TypeOK
  <2>. QED  BY <1>1, <1>2, <2>1, <2>2, <2>4 DEF TypeOK
<1>4. Good(w)'
  <2>1. pc'[w] = label
    BY <1>1, <1>2 DEF TypeOK
  <2>2. AppendIsLegal(w)' /\ Proposes(w, pc[w], pending[w])'
    BY <2>1 DEF AppendIsLegal, Proposes, Sending
  <2>3. HoldsClaim(w)'
    BY <1>1, <1>2, <2>1 DEF IInv, Good, HoldsClaim, Sending
  <2>. QED  BY <2>2, <2>3 DEF Good
<1>5. ASSUME NEW q \in Process, q # w
      PROVE  Good(q)'
  BY <1>1, <1>2, <1>5, OthersStayGood DEF TypeOK
<1>. QED  BY <1>1, <1>3, <1>4, <1>5
          DEF IInv, EffectsAreClaimed, CompletionIsEarned, ClaimsAreExclusive

\* A call or a wake ends and keeps nothing.
LEMMA FinishKeepsInv ==
    ASSUME IInv, NEW p \in Process, Finish(p), UNCHANGED durable,
           crashes' \in 0..MaxCrashes
    PROVE  IInv'
<1>1. /\ stream' = stream /\ now' = now /\ effects' = effects
      /\ pc' = [pc EXCEPT ![p] = "idle"]
      /\ base' = [base EXCEPT ![p] = 0]
      /\ pending' = [pending EXCEPT ![p] = NoEvent]
  BY DEF Finish, Goto, durable
<1>2. TypeOK /\ NoEvent \in Event
  BY ActorAssumption DEF IInv, NoEvent, NewEvent, Event, Terminal
<1>3. /\ lease' \in [Wake -> 0..MaxTime + Lease]
      /\ claim' \in [Wake -> 0..Len(stream)]
      /\ \A w \in Wake : claim'[w] \in {0, claim[w]}
      /\ \A w \in Wake \ {p} : claim'[w] = claim[w]
  BY <1>2, SchedulerAssumption DEF TypeOK, Finish
<1>4. TypeOK'
  BY <1>1, <1>2, <1>3 DEF TypeOK, Label
<1>5. Good(p)'
  BY <1>1, <1>2 DEF TypeOK, Good, AppendIsLegal, Proposes, HoldsClaim, Sending,
                    Holding, Evidenced
<1>6. ASSUME NEW q \in Process, q # p
      PROVE  Good(q)'
  BY <1>1, <1>2, <1>3, <1>6, OthersStayGood DEF TypeOK
<1>7. ClaimsAreExclusive'
  BY <1>3 DEF IInv, ClaimsAreExclusive
<1>. QED  BY <1>1, <1>4, <1>5, <1>6, <1>7
          DEF IInv, EffectsAreClaimed, CompletionIsEarned
\* A completion that is appended reports what its wake found durable, and
\* the completions before it stay earned.
LEMMA AcceptedKeepsEarned ==
    ASSUME IInv, NEW p \in Process, pc[p] \in Sending, Accepted(p),
           pc[p] = "completing" => p \in Wake, effects' = effects
    PROVE  CompletionIsEarned'
<1>1. /\ \A i \in 1..Len(stream) : stream'[i] = stream[i]
      /\ stream'[Len(stream')] = pending[p] /\ Len(stream') = Len(stream) + 1
      /\ Len(stream) \in Nat /\ DOMAIN stream = 1..Len(stream)
      /\ DOMAIN stream' = 1..Len(stream')
  BY AcceptedIsSound
<1>2. SUFFICES ASSUME NEW i \in Ids(stream', "completed")
               PROVE  /\ stream'[i].claim \in effects
                      /\ stream'[stream'[i].claim].by = stream'[i].by
  BY DEF CompletionIsEarned
<1>3. effects \subseteq 1..Len(stream)
  BY <1>1 DEF IInv, EffectsAreClaimed, Ids
<1>4. CASE i \in 1..Len(stream)
  <2>1. i \in Ids(stream, "completed")
    BY <1>1, <1>2, <1>4 DEF Ids
  <2>. QED  BY <1>1, <1>3, <1>4, <2>1 DEF IInv, CompletionIsEarned
<1>5. CASE i = Len(stream')
  <2>1. pending[p].type = "completed"
    BY <1>1, <1>2, <1>5 DEF Ids
  <2>2. Good(p)
    BY DEF IInv
  <2>3. pc[p] = "completing" /\ p \in Wake
    BY <2>1, <2>2 DEF Good, Proposes, Sending
  <2>4. pending[p].claim = claim[p] /\ claim[p] \in effects
        /\ pending[p].by = SchedulerActor[p] /\ stream[claim[p]].by = SchedulerActor[p]
    BY <2>2, <2>3 DEF Good, Proposes, HoldsClaim, Evidenced, Holding
  <2>. QED  BY <1>1, <1>3, <1>5, <2>4
<1>. QED  BY <1>1, <1>2, <1>4, <1>5 DEF Ids

\* An append is accepted and its call or wake ends.
LEMMA AppendAndFinishKeepsInv ==
    ASSUME IInv, NEW p \in Process, pc[p] \in Sending,
           pc[p] = "completing" => p \in Wake,
           Accepted(p), Finish(p), UNCHANGED <<now, effects, crashes>>
    PROVE  IInv'
<1>1. /\ now' = now /\ effects' = effects /\ crashes' = crashes
      /\ pc' = [pc EXCEPT ![p] = "idle"]
      /\ base' = [base EXCEPT ![p] = 0]
      /\ pending' = [pending EXCEPT ![p] = NoEvent]
  BY DEF Finish, Goto
<1>2. TypeOK /\ NoEvent \in Event
  BY ActorAssumption DEF IInv, NoEvent, NewEvent, Event, Terminal
<1>3. /\ stream' \in Seq(Event) /\ Sound(stream')
      /\ Len(stream') = Len(stream) + 1 /\ Len(stream) \in Nat
      /\ DOMAIN stream = 1..Len(stream) /\ DOMAIN stream' = 1..Len(stream')
      /\ Ids(stream, "claimed") \subseteq Ids(stream', "claimed")
  BY AcceptedIsSound
<1>4. /\ lease' \in [Wake -> 0..MaxTime + Lease]
      /\ claim' \in [Wake -> 0..Len(stream)]
      /\ \A w \in Wake : claim'[w] \in {0, claim[w]}
      /\ \A w \in Wake \ {p} : claim'[w] = claim[w]
  BY <1>2, SchedulerAssumption DEF TypeOK, Finish
<1>5. TypeOK'
  <2>1. base' \in [Process -> 0..Len(stream')]
    BY <1>1, <1>2, <1>3 DEF TypeOK
  <2>2. claim' \in [Wake -> 0..Len(stream')]
    BY <1>3, <1>4
  <2>3. effects' \subseteq DOMAIN stream'
    BY <1>1, <1>2, <1>3 DEF TypeOK
  <2>. QED  BY <1>1, <1>2, <1>3, <1>4, <2>1, <2>2, <2>3 DEF TypeOK, Label
<1>6. Good(p)'
  BY <1>1, <1>2 DEF TypeOK, Good, AppendIsLegal, Proposes, HoldsClaim, Sending,
                    Holding, Evidenced
<1>7. ASSUME NEW q \in Process, q # p
      PROVE  Good(q)'
  <2>1. \E r \in Process : pc[r] \in Sending /\ Accepted(r)
    OBVIOUS
  <2>2. /\ pc'[q] = pc[q] /\ base'[q] = base[q] /\ pending'[q] = pending[q]
        /\ q \in Wake => claim'[q] = claim[q]
    BY <1>1, <1>2, <1>4, <1>7 DEF TypeOK
  <2>3. now' \in Nat /\ now <= now' /\ effects \subseteq effects'
    BY <1>1, <1>2 DEF TypeOK
  <2>. QED  BY <2>1, <2>2, <2>3, OthersStayGood
<1>8. ClaimsAreExclusive' /\ EffectsAreClaimed'
  BY <1>1, <1>3, <1>4 DEF IInv, ClaimsAreExclusive, EffectsAreClaimed
<1>9. CompletionIsEarned'
  BY <1>1, AcceptedKeepsEarned
<1>. QED  BY <1>3, <1>5, <1>6, <1>7, <1>8, <1>9 DEF IInv

\* The wake whose claim is accepted holds an id that no other wake has.
LEMMA ClaimKeepsInv ==
    ASSUME IInv, NEW w \in Wake, Claim(w)
    PROVE  IInv'
<1>1. w \in Process /\ pc[w] = "claiming" /\ pc[w] \in Sending
      /\ UNCHANGED <<now, effects, crashes>>
  BY DEF Claim, Process, Sending
<1>2. CASE Refused(w) /\ Finish(w)
  <2>1. UNCHANGED durable /\ crashes' \in 0..MaxCrashes
    BY <1>1, <1>2 DEF Refused, durable, IInv, TypeOK
  <2>. QED  BY <1>1, <1>2, <2>1, FinishKeepsInv
<1>3. CASE /\ Accepted(w) /\ Proceed(w, "execute") /\ lease' = lease
           /\ claim' = [claim EXCEPT ![w] = Len(stream')]
  <2>1. /\ pc' = [pc EXCEPT ![w] = "execute"]
        /\ base' = [base EXCEPT ![w] = 0]
        /\ pending' = [pending EXCEPT ![w] = NoEvent]
        /\ claim' = [claim EXCEPT ![w] = Len(stream')]
        /\ now' = now /\ effects' = effects /\ crashes' = crashes /\ lease' = lease
    BY <1>1, <1>3 DEF Proceed, Goto
  <2>2. TypeOK /\ NoEvent \in Event
    BY ActorAssumption DEF IInv, NoEvent, NewEvent, Event, Terminal
  <2>3. /\ stream' \in Seq(Event) /\ Sound(stream')
        /\ Len(stream') = Len(stream) + 1 /\ Len(stream) \in Nat
        /\ stream'[Len(stream')] = pending[w]
        /\ DOMAIN stream = 1..Len(stream) /\ DOMAIN stream' = 1..Len(stream')
        /\ Ids(stream, "claimed") \subseteq Ids(stream', "claimed")
    BY <1>1, <1>3, AcceptedIsSound
  <2>4. TypeOK'
    <3>1. base' \in [Process -> 0..Len(stream')]
      <4>1. base \in [Process -> 0..Len(stream)] /\ 0 \in 0..Len(stream)
        BY <2>2, <2>3 DEF TypeOK
      <4>2. base' \in [Process -> 0..Len(stream)]
        BY <2>1, <4>1
      <4>. QED  BY <2>3, <4>2
    <3>2. claim' \in [Wake -> 0..Len(stream')]
      BY <2>1, <2>2, <2>3 DEF TypeOK
    <3>3. effects' \subseteq DOMAIN stream'
      BY <2>1, <2>2, <2>3 DEF TypeOK
    <3>. QED  BY <2>1, <2>2, <2>3, <3>1, <3>2, <3>3 DEF TypeOK, Label
  <2>5. Good(w)'
    <3>1. pc'[w] = "execute" /\ claim'[w] = Len(stream')
      BY <1>1, <2>1, <2>2 DEF TypeOK
    <3>2. pending[w].type = "claimed" /\ pending[w].by = SchedulerActor[w]
      BY <1>1 DEF IInv, Good, Proposes
    <3>3. Len(stream') \in Ids(stream', "claimed")
      BY <2>3, <3>2 DEF Ids
    <3>4. HoldsClaim(w)'
      BY <2>3, <3>1, <3>2, <3>3 DEF HoldsClaim, Evidenced
    <3>. QED  BY <3>1, <3>4 DEF Good, AppendIsLegal, Proposes, Sending
  <2>6. ASSUME NEW q \in Process, q # w
        PROVE  Good(q)'
    BY <1>1, <1>3, <2>1, <2>2, <2>6, OthersStayGood DEF TypeOK
  <2>7. ClaimsAreExclusive'
    <3>1. \A v \in Wake : claim[v] # Len(stream')
      BY <2>2, <2>3 DEF TypeOK
    <3>. QED  BY <2>1, <2>2, <3>1 DEF IInv, ClaimsAreExclusive, TypeOK
  <2>8. CompletionIsEarned' /\ EffectsAreClaimed'
    BY <1>1, <1>3, <2>1, <2>3, AcceptedKeepsEarned DEF IInv, EffectsAreClaimed
  <2>. QED  BY <2>3, <2>4, <2>5, <2>6, <2>7, <2>8 DEF IInv
<1>. QED  BY <1>1, <1>2, <1>3 DEF Claim

\* The tool acts under the claim its wake holds.
LEMMA ExecuteKeepsInv ==
    ASSUME IInv, NEW w \in Wake, Execute(w)
    PROVE  IInv'
<1> USE DEF Execute
<1>1. PICK label \in {"evidence", "fail"} : pc' = [pc EXCEPT ![w] = label]
  BY DEF Goto
<1>2. /\ stream' = stream /\ now' = now /\ crashes' = crashes /\ base' = base
      /\ pending' = pending /\ lease' = lease /\ claim' = claim
      /\ effects \subseteq effects' /\ effects' \subseteq effects \union {claim[w]}
  OBVIOUS
<1>3. TypeOK /\ w \in Process /\ Good(w)
  BY DEF IInv, Process
<1>4. claim[w] \in Ids(stream, "claimed") /\ stream[claim[w]].by = SchedulerActor[w]
  BY <1>3 DEF Good, HoldsClaim, Holding
<1>5. TypeOK'
  BY <1>1, <1>2, <1>3, <1>4 DEF TypeOK, Label, Ids
<1>6. Good(w)'
  <2>1. pc'[w] = label
    BY <1>1, <1>3 DEF TypeOK
  <2>. QED  BY <1>2, <1>4, <2>1 DEF Good, AppendIsLegal, Proposes, HoldsClaim,
                                    Sending, Holding, Evidenced
<1>7. ASSUME NEW q \in Process, q # w
      PROVE  Good(q)'
  BY <1>1, <1>2, <1>3, <1>7, OthersStayGood DEF TypeOK
<1>. QED  BY <1>2, <1>4, <1>5, <1>6, <1>7
          DEF IInv, EffectsAreClaimed, CompletionIsEarned, ClaimsAreExclusive

\* An append stays legal while the clock goes on.
LEMMA TickKeepsInv ==
    ASSUME IInv, Tick
    PROVE  IInv'
<1>1. /\ stream' = stream /\ now' = now + 1 /\ effects' = effects /\ pc' = pc
      /\ base' = base /\ pending' = pending /\ lease' = lease /\ claim' = claim
      /\ crashes' = crashes /\ now < MaxTime
  BY DEF Tick, local
<1>2. TypeOK'
  BY <1>1, SchedulerAssumption DEF IInv, TypeOK
<1>3. ASSUME NEW q \in Process
      PROVE  Good(q)'
  <2>1. now \in Nat
    BY DEF IInv, TypeOK
  <2>. QED  BY <1>1, <2>1, OthersStayGood
<1>. QED  BY <1>1, <1>2, <1>3
          DEF IInv, EffectsAreClaimed, CompletionIsEarned, ClaimsAreExclusive
----------------------------------------------------------------------------
(* The steps.                                                              *)

LEMMA CallKeepsInv ==
    ASSUME IInv, NEW c \in Caller, Call(c)
    PROVE  IInv'
<1>1. c \in Process /\ now \in Nat /\ now <= now /\ crashes \in 0..MaxCrashes
  BY DEF Process, IInv, TypeOK
<1>2. CASE RequestTool(c)
  <2> DEFINE e == NewEvent("requested", Requester, now)
  <2>1. Legal(stream, e, now)
    BY <1>1, <1>2, ActorAssumption
    DEF RequestTool, Legal, Event, NewEvent, Terminal
  <2>2. Proposes(c, "sending", e) /\ "sending" \in Sending
    BY DEF Proposes, NewEvent, Sending
  <2>. QED  BY <1>1, <1>2, <2>1, <2>2, PrepareKeepsInv DEF RequestTool
<1>3. ASSUME NEW actor \in Approver, ApproveTool(c, actor)
      PROVE  IInv'
  <2> DEFINE e == NewEvent("approved", actor, now)
  <2>1. Legal(stream, e, now)
    BY <1>1, <1>3, SchedulerAssumption
    DEF ApproveTool, Legal, Event, NewEvent, Terminal
  <2>2. Proposes(c, "sending", e) /\ "sending" \in Sending
    BY DEF Proposes, NewEvent, Sending
  <2>. QED  BY <1>1, <1>3, <2>1, <2>2, PrepareKeepsInv DEF ApproveTool
<1>4. ASSUME NEW actor \in Approver, DenyTool(c, actor)
      PROVE  IInv'
  <2> DEFINE e == NewEvent("denied", actor, now)
  <2>1. Legal(stream, e, now)
    BY <1>1, <1>4, SchedulerAssumption
    DEF DenyTool, Legal, Event, NewEvent, Terminal
  <2>2. Proposes(c, "sending", e) /\ "sending" \in Sending
    BY DEF Proposes, NewEvent, Sending
  <2>. QED  BY <1>1, <1>4, <2>1, <2>2, PrepareKeepsInv DEF DenyTool
<1>5. CASE Send(c)
  <2>1. CASE Accepted(c)
    BY <1>1, <1>5, <2>1, AppendAndFinishKeepsInv DEF Send, Sending
  <2>2. CASE Refused(c)
    BY <1>1, <1>5, <2>2, FinishKeepsInv DEF Send, Refused, durable
  <2>. QED  BY <1>5, <2>1, <2>2 DEF Send
<1>. QED  BY <1>2, <1>3, <1>4, <1>5 DEF Call

\* The steps of a wake up to its claim.
LEMMA WakeKeepsInv ==
    ASSUME IInv, NEW w \in Wake, WakeUp(w) \/ BuildPreview(w) \/ ClaimExecution(w)
    PROVE  IInv'
<1>1. /\ w \in Process /\ now \in Nat /\ crashes \in 0..MaxCrashes
      /\ SchedulerActor[w] \in Actor /\ lease[w] \in Nat
  BY SchedulerAssumption DEF Process, IInv, TypeOK
<1>2. CASE WakeUp(w)
  <2>1. PICK label \in {"preview", "fail"} : Goto(w, label)
    BY <1>2 DEF WakeUp, ConsumeMatching, ConsumeMismatched, ConsumeMissing
  <2>2. label \in Label \ Sending /\ label \notin Holding /\ label \notin Evidenced
    BY DEF Label, Sending, Holding, Evidenced
  <2>. QED  BY <1>2, <2>1, <2>2, MoveKeepsInv DEF WakeUp
<1>3. CASE BuildPreview(w)
  <2>1. PICK label \in {"claim", "fail"} : Goto(w, label)
    BY <1>3 DEF BuildPreview
  <2>2. label \in Label \ Sending /\ label \notin Holding /\ label \notin Evidenced
    BY DEF Label, Sending, Holding, Evidenced
  <2>. QED  BY <1>3, <2>1, <2>2, MoveKeepsInv DEF BuildPreview
<1>4. CASE ClaimExecution(w)
  <2> DEFINE e == ClaimEvent(SchedulerActor[w], now, lease[w])
  <2>1. CASE MayClaim(stream, SchedulerActor[w], now, lease[w])
    <3>1. /\ e \in Event /\ e.type = "claimed" /\ e.by = SchedulerActor[w]
          /\ e.at = now /\ e.expires = lease[w]
      BY <1>1 DEF ClaimEvent, NewEvent, Event
    <3>2. Legal(stream, e, now)
      BY <1>1, <2>1, <3>1 DEF Legal
    <3>3. Proposes(w, "claiming", e) /\ "claiming" \in Sending
      BY <3>1 DEF Proposes, Sending
    <3>. QED  BY <1>1, <1>4, <2>1, <3>2, <3>3, PrepareKeepsInv DEF ClaimExecution
  <2>2. CASE ~MayClaim(stream, SchedulerActor[w], now, lease[w])
    BY <1>1, <1>4, <2>2, FinishKeepsInv DEF ClaimExecution
  <2>. QED  BY <2>1, <2>2
<1>. QED  BY <1>2, <1>3, <1>4

\* The steps of a wake after the tool has run.
LEMMA ReportKeepsInv ==
    ASSUME IInv, NEW w \in Wake,
           RereadEvidence(w) \/ ReportCompletion(w) \/ CompleteTool(w) \/ Complete(w)
    PROVE  IInv'
<1>1. /\ w \in Process /\ now \in Nat /\ crashes \in 0..MaxCrashes
      /\ SchedulerActor[w] \in Actor /\ Good(w)
  BY SchedulerAssumption DEF Process, IInv, TypeOK
<1>2. CASE RereadEvidence(w)
  <2>1. PICK label \in {"report", "fail"} :
            Goto(w, label) /\ (label = "report" => claim[w] \in effects)
    BY <1>2 DEF RereadEvidence
  <2>2. label \in Label \ Sending /\ pc[w] \in Holding
        /\ (label \in Evidenced => label = "report")
    BY <1>2 DEF Label, Sending, Holding, Evidenced, RereadEvidence
  <2>. QED  BY <1>2, <2>1, <2>2, MoveKeepsInv DEF RereadEvidence
<1>3. CASE ReportCompletion(w)
  <2>1. PICK label \in {"complete", "fail"} : Goto(w, label)
    BY <1>3 DEF ReportCompletion
  <2>2. label \in Label \ Sending /\ pc[w] \in Holding /\ claim[w] \in effects
    BY <1>1, <1>3 DEF Label, Sending, Holding, Evidenced, ReportCompletion, Good, HoldsClaim
  <2>. QED  BY <1>3, <2>1, <2>2, MoveKeepsInv DEF ReportCompletion
<1>4. CASE CompleteTool(w)
  <2> DEFINE e == CompletionEvent(SchedulerActor[w], now, claim[w])
  <2>1. CASE MayComplete(stream, SchedulerActor[w])
    <3>1. claim[w] \in Ids(stream, "claimed") /\ claim[w] \in Nat
      BY <1>1, <1>4 DEF Good, HoldsClaim, Holding, CompleteTool, IInv, TypeOK
    <3>2. /\ e \in Event /\ e.type = "completed" /\ e.by = SchedulerActor[w]
          /\ e.at = now /\ e.claim = claim[w]
      BY <1>1, <3>1 DEF CompletionEvent, NewEvent, Event, Terminal
    <3>3. Legal(stream, e, now)
      BY <1>1, <2>1, <3>1, <3>2 DEF Legal
    <3>4. Proposes(w, "completing", e) /\ "completing" \in Sending /\ pc[w] = "complete"
      BY <1>4, <3>2 DEF Proposes, Sending, CompleteTool
    <3>. QED  BY <1>1, <1>4, <2>1, <3>2, <3>3, <3>4, PrepareKeepsInv DEF CompleteTool
  <2>2. CASE ~MayComplete(stream, SchedulerActor[w])
    <3>1. "fail" \in Label \ Sending /\ "fail" \notin Holding /\ "fail" \notin Evidenced
      BY DEF Label, Sending, Holding, Evidenced
    <3>. QED  BY <1>4, <2>2, <3>1, MoveKeepsInv DEF CompleteTool
  <2>. QED  BY <2>1, <2>2
<1>5. CASE Complete(w)
  <2>1. CASE Accepted(w) /\ Finish(w)
    BY <1>1, <1>5, <2>1, AppendAndFinishKeepsInv DEF Complete, Sending
  <2>2. CASE Refused(w) /\ Proceed(w, "fail") /\ UNCHANGED <<lease, claim>>
    <3>1. "fail" \in Label \ Sending /\ "fail" \notin Holding /\ "fail" \notin Evidenced
      BY DEF Label, Sending, Holding, Evidenced
    <3>. QED  BY <1>5, <2>2, <3>1, MoveKeepsInv DEF Complete, Refused, Proceed, durable
  <2>. QED  BY <1>5, <2>1, <2>2 DEF Complete
<1>. QED  BY <1>2, <1>3, <1>4, <1>5

\* The ways a wake gives up.
LEMMA GiveUpKeepsInv ==
    ASSUME IInv, NEW w \in Wake, FailTool(w) \/ Fail(w) \/ Crash(w)
    PROVE  IInv'
<1>1. /\ w \in Process /\ now \in Nat /\ crashes \in 0..MaxCrashes
      /\ SchedulerActor[w] \in Actor
  BY SchedulerAssumption DEF Process, IInv, TypeOK
<1>2. CASE FailTool(w)
  <2> DEFINE e == NewEvent("failed", SchedulerActor[w], now)
  <2>1. CASE MayClose(stream)
    <3>1. Legal(stream, e, now)
      BY <1>1, <2>1 DEF Legal, Event, NewEvent, Terminal
    <3>2. Proposes(w, "failing", e) /\ "failing" \in Sending
      BY DEF Proposes, NewEvent, Sending
    <3>. QED  BY <1>1, <1>2, <2>1, <3>1, <3>2, PrepareKeepsInv DEF FailTool
  <2>2. CASE ~MayClose(stream)
    BY <1>1, <1>2, <2>2, FinishKeepsInv DEF FailTool
  <2>. QED  BY <2>1, <2>2
<1>3. CASE Fail(w)
  <2>1. CASE Accepted(w)
    BY <1>1, <1>3, <2>1, AppendAndFinishKeepsInv DEF Fail, Sending
  <2>2. CASE Refused(w)
    BY <1>1, <1>3, <2>2, FinishKeepsInv DEF Fail, Refused, durable
  <2>. QED  BY <1>3, <2>1, <2>2 DEF Fail
<1>4. CASE Crash(w)
  <2>1. crashes' \in 0..MaxCrashes
    BY <1>1, <1>4, SchedulerAssumption DEF Crash
  <2>. QED  BY <1>1, <1>4, <2>1, FinishKeepsInv DEF Crash
<1>. QED  BY <1>2, <1>3, <1>4

LEMMA NextInv == IInv /\ [Next]_vars => IInv'
<1> SUFFICES ASSUME IInv, [Next]_vars PROVE IInv'
  OBVIOUS
<1>1. CASE \E c \in Caller : Call(c)
  BY <1>1, CallKeepsInv
<1>2. CASE \E w \in Wake : Advance(w) \/ Crash(w)
  BY <1>2, WakeKeepsInv, ReportKeepsInv, GiveUpKeepsInv, ClaimKeepsInv,
     ExecuteKeepsInv DEF Advance
<1>3. CASE Tick
  BY <1>3, TickKeepsInv
<1>4. CASE UNCHANGED vars
  <2>1. /\ stream' = stream /\ now' = now /\ effects' = effects /\ pc' = pc
        /\ base' = base /\ pending' = pending /\ lease' = lease /\ claim' = claim
        /\ crashes' = crashes
    BY <1>4 DEF vars, durable, local
  <2>2. now \in Nat
    BY DEF IInv, TypeOK
  <2>3. \A p \in Process : Good(p)'
    BY <2>1, <2>2, OthersStayGood
  <2>. QED  BY <2>1, <2>3 DEF IInv, TypeOK, EffectsAreClaimed,
                              CompletionIsEarned, ClaimsAreExclusive
<1>. QED  BY <1>1, <1>2, <1>3, <1>4 DEF Next
----------------------------------------------------------------------------
(* The theorems.                                                           *)

\* The inductive invariant holds in every state.
THEOREM InvariantHolds == Spec => []IInv
BY InitInv, NextInv, PTL DEF Spec

\* The types, the one outcome of a request, which is made once and first and
\* ends at most once and last, and that no two wakes hold one claim, so that a
\* wake whose claim lost the race does not act.
THEOREM RequestSound == Spec => []RequestIsSound
<1>1. IInv => TypeOK
  BY DEF IInv
<1>2. IInv => OneOutcome
  BY DEF IInv, Sound, RequestedOnceEndedOnce, OneOutcome
<1>3. IInv => ClaimsAreExclusive
  BY DEF IInv
<1>4. IInv => RequestIsSound
  BY <1>1, <1>2, <1>3 DEF RequestIsSound
<1>. QED  BY <1>4, InvariantHolds, PTL

\* Leases never overlap.
THEOREM LeasesNeverOverlap == Spec => []LeasesDoNotOverlap
<1>1. IInv => LeasesDoNotOverlap
  BY DEF IInv, Sound, LeasesApart, LeasesDoNotOverlap
<1>. QED  BY <1>1, InvariantHolds, PTL

\* The tool acts only under a claim that an independent approval allows.
THEOREM ExecutionAuthorized == Spec => []ExecutionIsAuthorized
<1>1. IInv => ExecutionIsAuthorized
  BY DEF IInv, Sound, ClaimsAuthorized, AuthorizedAt, EffectsAreClaimed,
         ExecutionIsAuthorized, Ids
<1>. QED  BY <1>1, InvariantHolds, PTL

\* Only durable effects are reported as completed, by the wake's own actor.
THEOREM CompletionEarned == Spec => []CompletionIsEarned
<1>1. IInv => CompletionIsEarned
  BY DEF IInv
<1>. QED  BY <1>1, InvariantHolds, PTL

----------------------------------------------------------------------------
(* The refinement: an accepted append is a step of ToolRequest.            *)

\* Both modules say the same of a legal event.
LEMMA SameLegal ==
    ASSUME NEW s, NEW e, NEW t
    PROVE  Legal(s, e, t) => Request!Legal(s, e, t)
BY DEF Legal, Request!Legal, Event, Request!Event, Terminal, Request!Terminal,
       MayRequest, Request!MayRequest, MayApprove, Request!MayApprove,
       MayClaim, Request!MayClaim, MayComplete, Request!MayComplete,
       MayClose, Request!MayClose, Open, Request!Open, Closed, Request!Closed,
       ApprovalUsable, Request!ApprovalUsable, LeaseFree, Request!LeaseFree,
       LastOfType, Request!LastOfType, Ids, Request!Ids

LEMMA AcceptedOccurs ==
    ASSUME IInv, NEW p \in Process, pc[p] \in Sending, Accepted(p), now' = now
    PROVE  Request!Next
<1>1. /\ Legal(stream, pending[p], now)
      /\ Len(stream') \in DOMAIN stream' /\ stream'[Len(stream')] = pending[p]
  BY AcceptedIsSound
<1>2. Request!Legal(stream, pending[p], now)
  BY <1>1, SameLegal
<1>3. stream' = Append(stream, pending[p])
  BY DEF Accepted
<1>. QED  BY <1>1, <1>2, <1>3 DEF Request!Next, Request!Occur

LEMMA StepsMap == IInv /\ [Next]_vars => [Request!Next]_Request!vars
<1> SUFFICES ASSUME IInv, [Next]_vars PROVE [Request!Next]_Request!vars
  OBVIOUS
<1>1. ASSUME NEW p \in Process, pc[p] \in Sending, Accepted(p) \/ Refused(p), now' = now
      PROVE  [Request!Next]_Request!vars
  BY <1>1, AcceptedOccurs DEF Refused, Request!vars
<1>2. ASSUME NEW c \in Caller, Call(c)
      PROVE  [Request!Next]_Request!vars
  <2>1. CASE Send(c)
    BY <1>1, <2>1 DEF Send, Process, Sending
  <2>2. CASE ~Send(c)
    <3>1. UNCHANGED durable
      BY <1>2, <2>2 DEF Call, RequestTool, ApproveTool, DenyTool, Prepare
    <3>. QED  BY <3>1 DEF durable, Request!vars
  <2>. QED  BY <2>1, <2>2
<1>3. ASSUME NEW w \in Wake, Advance(w) \/ Crash(w)
      PROVE  [Request!Next]_Request!vars
  <2>1. CASE Claim(w) \/ Complete(w) \/ Fail(w)
    <3>1. w \in Process /\ pc[w] \in Sending /\ (Accepted(w) \/ Refused(w)) /\ now' = now
      BY <2>1 DEF Claim, Complete, Fail, Process, Sending
    <3>. QED  BY <1>1, <3>1
  <2>2. CASE ~(Claim(w) \/ Complete(w) \/ Fail(w))
    <3>1. stream' = stream /\ now' = now
      BY <1>3, <2>2 DEF Advance, Crash, WakeUp, BuildPreview, ClaimExecution, Execute,
         RereadEvidence, ReportCompletion, CompleteTool, FailTool, Prepare, durable
    <3>. QED  BY <3>1 DEF Request!vars
  <2>. QED  BY <2>1, <2>2
<1>4. CASE Tick
  BY <1>4 DEF Tick, Request!Next, Request!Tick
<1>5. CASE UNCHANGED vars
  BY <1>5 DEF vars, durable, Request!vars
<1>. QED  BY <1>2, <1>3, <1>4, <1>5 DEF Next

\* Reading, deciding and appending in steps, the gateway's callers and the
\* scheduler's wakes implement a request whose events occur one at a time.
THEOREM Implements == Spec => ImplementsToolRequest
<1>1. Init => Request!Init
  BY DEF Init, Request!Init
<1>. QED  BY <1>1, InvariantHolds, StepsMap, PTL
          DEF Spec, ImplementsToolRequest, Request!Spec
=============================================================================
