------------------------- MODULE KnowledgeDecisions -------------------------
(***************************************************************************)
(* KnowledgeService (packages/ontology/src/knowledge-service.ts): people     *)
(* propose, review and bind what evidence says about entities, and the      *)
(* projection (knowledge-projection.ts) says what stands.                   *)
(*                                                                         *)
(* A command is decided on one read of the ledger, then the authority over  *)
(* every citation is asked, and the events of the decision are appended     *)
(* together if the ledger is as long as it was.  A command that is repeated *)
(* finds its receipt, or a ledger that moved on: it appends nothing.        *)
(*                                                                         *)
(* Claims stand for proposals: a claim of an entity names a mention in a    *)
(* source and its type, any other claim a mention it is about and the type  *)
(* its vocabulary wants there.  Citations, values and cases are data.       *)
(***************************************************************************)
EXTENDS RecordLog

CONSTANTS
    Claim,      \* proposals, by assertion id
    ClaimOf,    \* what a claim says: kind, mention, type, derivedFrom
    Mention,    \* mentions of entities in sources
    Entity,     \* entities
    NoEntity,   \* a verdict that binds nothing
    NoClaim     \* no replacement, and derived from nothing

ASSUME KnowledgeAssumption ==
    /\ NoClaim \notin Claim
    /\ \A p \in Claim : ClaimOf[p].mention \in Mention

\* One stream for all decisions here; each has its own in the code.
DecisionStream == <<"decision">>

IsEntity(p) == ClaimOf[p].kind = "entity"

Of(s, type, p) == {i \in OfType(s, type) : s[i].claim = p}

IsProposed(s, p) == Of(s, "proposed", p) # {}

\* Reviews that change the state of a claim; a dispute does not.
Verdicts(s, p) == {i \in Of(s, "reviewed", p) : s[i].action # "dispute"}

StateOf(s, p, action) == \E i \in Latest(Verdicts(s, p)) : s[i].action = action

\* Bindings of m: the last one, while the claim that supports it is accepted.
ActiveBindings(s, m) ==
    {i \in Latest({j \in OfType(s, "bound") : s[j].mention = m}) :
        StateOf(s, s[i].claim, "accept")}

TypesOf(s, e) ==
    {s[i].entityType : i \in {j \in UNION {ActiveBindings(s, m) : m \in Mention} :
                                s[j].entity = e}}

----------------------------------------------------------------------------
(* Deciding.  b is what the decision emits so far: bindings of b count,     *)
(* verdicts of b do not.                                                    *)

Event(type, p) == [type |-> type, stream |-> DecisionStream, claim |-> p]

BindingEvent(p, e) ==
    [type |-> "bound", stream |-> DecisionStream, claim |-> p, entity |-> e,
     mention |-> ClaimOf[p].mention, entityType |-> ClaimOf[p].type]

TypesBound(s, b, m) ==
    LET now == Latest({i \in OfType(b, "bound") : b[i].mention = m}) IN
    IF now # {} THEN {b[i].entityType : i \in now}
    ELSE {s[i].entityType : i \in ActiveBindings(s, m)}

\* Mutated form of TypesMatch: entities that the decision introduces itself
\* are not known.
TypesMatchBefore(s, b, e, type) == TypesOf(s, e) \subseteq {type}

\* An entity keeps its type, here and in what the decision binds already.
TypesMatch(s, b, e, type) ==
    /\ TypesOf(s, e) \subseteq {type}
    /\ \A i \in OfType(b, "bound") : b[i].entity = e => b[i].entityType = type

MayPropose(s, p) ==
    /\ ~IsProposed(s, p)
    /\ ClaimOf[p].derivedFrom # NoClaim => IsProposed(s, ClaimOf[p].derivedFrom)
    /\ IsEntity(p) =>
        \A q \in Claim : IsProposed(s, q) /\ IsEntity(q)
            /\ ClaimOf[q].mention = ClaimOf[p].mention
            => \E o \in Claim : /\ o = ClaimOf[p].derivedFrom /\ IsEntity(o)
                                /\ ClaimOf[o].mention = ClaimOf[p].mention

\* A review: of which claim, the verdict, the entity an accepted mention is
\* bound to (the command may name it), the replacement of a superseded claim.
Verdict(p, action, e, by) == [claim |-> p, action |-> action, entity |-> e, by |-> by]

Review ==
    {Verdict(p, "accept", e, NoClaim) : p \in {q \in Claim : IsEntity(q)}, e \in Entity}
    \union {Verdict(p, "accept", NoEntity, NoClaim) : p \in {q \in Claim : ~IsEntity(q)}}
    \union {Verdict(p, action, NoEntity, NoClaim) :
                p \in Claim, action \in {"reject", "dispute", "withdraw"}}
    \union {Verdict(p, "supersede", NoEntity, q) : p, q \in Claim}

MayReview(s, b, group, r) ==
    LET p == r.claim IN
    /\ IsProposed(s, p)
    /\ r.action \in {"accept", "reject"} => Verdicts(s, p) = {}
    /\ r.action \in {"withdraw", "supersede"} => StateOf(s, p, "accept")
    /\ r.action = "accept" =>
        IF IsEntity(p) THEN TypesMatch(s, b, r.entity, ClaimOf[p].type)
        ELSE TypesBound(s, b, ClaimOf[p].mention) = {ClaimOf[p].type}
    /\ r.action = "supersede" =>
        /\ r.by # p
        /\ \/ StateOf(s, r.by, "accept")
           \/ \E q \in group : q.claim = r.by /\ q.action = "accept"

VerdictEvent(r) ==
    [type |-> "reviewed", stream |-> DecisionStream, claim |-> r.claim,
     action |-> r.action, by |-> r.by]

Emits(r) ==
    (IF r.action = "accept" /\ IsEntity(r.claim)
     THEN <<BindingEvent(r.claim, r.entity)>> ELSE <<>>)
    \o <<VerdictEvent(r)>>

Decided(batch) == [op |-> "decide", batch |-> batch, expected |-> 0,
                   event |-> batch[1], global |-> Len(log) + 1]

----------------------------------------------------------------------------
Propose(c, p) ==
    /\ Makes(c, "claim")
    /\ MayPropose(log, p)
    /\ call' = [call EXCEPT ![c] = Decided(<<Event("proposed", p)>>)]
    /\ UNCHANGED log

ReviewOne(c) ==
    /\ Makes(c, "verdict")
    /\ \E r \in Review :
        /\ MayReview(log, <<>>, {r}, r)
        /\ call' = [call EXCEPT ![c] = Decided(Emits(r))]
    /\ UNCHANGED log

\* Reviews of one decision: those of entities come first.
ReviewTwo(c) ==
    /\ Makes(c, "verdict")
    /\ \E q, r \in Review :
        /\ q.claim # r.claim
        /\ IsEntity(r.claim) => IsEntity(q.claim)
        /\ MayReview(log, <<>>, {q, r}, q)
        /\ MayReview(log, Emits(q), {q, r}, r)
        /\ call' = [call EXCEPT ![c] = Decided(Emits(q) \o Emits(r))]
    /\ UNCHANGED log

\* Binding an accepted mention to another entity; the binding it replaces is
\* the current one, because the command was made on this read.
Bind(c, p, e) ==
    /\ Makes(c, "bind")
    /\ IsEntity(p) /\ StateOf(log, p, "accept")
    /\ TypesMatch(log, <<>>, e, ClaimOf[p].type)
    /\ call' = [call EXCEPT ![c] = Decided(<<BindingEvent(p, e)>>)]
    /\ UNCHANGED log

AppendDecision(c) ==
    /\ call[c].op = "decide"
    /\ log' = IF Holds(c) THEN log \o call[c].batch ELSE log
    /\ call' = [call EXCEPT ![c] = Idle]
    /\ UNCHANGED budget

KnowledgeNext(c) ==
    \/ \E p \in Claim :
        \/ Propose(c, p)
        \/ \E e \in Entity : Bind(c, p, e)
    \/ ReviewOne(c) \/ ReviewTwo(c)
    \/ AppendDecision(c)

----------------------------------------------------------------------------
(* Properties.                                                             *)

\* The mentions that are bound to an entity agree on what kind of thing it
\* is, through acceptances in groups, withdrawals, replacements, rebinding.
TypesAgree(s) ==
    \A e \in Entity : Cardinality(TypesOf(s, e)) <= 1

\* A claim has one life, whoever decides on it at once: it is proposed, then
\* accepted or rejected, and if accepted withdrawn or superseded at most once,
\* by a replacement that was accepted by the end of the same decision.
LivesAreOne(s) ==
    \A p \in Claim :
        /\ Cardinality(Of(s, "proposed", p)) <= 1
        /\ \A i, j \in Verdicts(s, p) : i < j =>
            /\ s[i].action = "accept"
            /\ s[j].action \in {"withdraw", "supersede"}
        /\ Cardinality(Verdicts(s, p)) <= 2
        /\ \A i \in Verdicts(s, p) :
            s[i].action = "supersede" =>
                \E j \in Verdicts(s, s[i].by) : s[j].action = "accept"

\* Decisions of several people on one record leave a record one could accept.
KnowledgeIsSound ==
    /\ TypesAgree(log)
    /\ LivesAreOne(log)
=============================================================================
