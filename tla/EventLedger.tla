----------------------------- MODULE EventLedger -----------------------------
(***************************************************************************)
(* What the event ledger promises its callers, as InMemoryEventLedger does *)
(* it: append and appendBatch take effect in one step, or not at all.      *)
(* A client reads the log, chooses a call whose preconditions come from    *)
(* that read, and gets an answer; other clients may commit in between.     *)
(* A client may be restarted at any point and then remembers nothing.      *)
(***************************************************************************)
EXTENDS LedgerLog

VARIABLES
    events,       \* the committed log
    decisions,    \* the receipt stored for each decision
    seen,         \* how long the log was when the client last read it
    call,         \* the call a client has issued
    reply         \* the answer that waits for the client

vars == <<events, decisions, seen, call, reply>>

Receipt == [content : Content, ids : Seq(Nat)]
NoReceipt == [content |-> <<>>, ids |-> <<>>]

\* AppendOptions and AppendBatchOptions: which precondition the call carries.
Check == {"none", "stream", "global"}

Call ==
    [decision : {NoDecision}, content : {c \in Content : Len(c) = 1},
     check : Check, base : Nat]
  \union
    [decision : Decision, content : Content, check : {"global"}, base : Nat]
CallsFrom(base) == {k \in [decision : {NoDecision}, content : Content,
                           check : Check, base : {base}] : Len(k.content) = 1}
                   \union [decision : Decision, content : Content,
                           check : {"global"}, base : {base}]
NoCall == [decision |-> NoDecision, content |-> <<>>, check |-> "none", base |-> 0]

Failure == {"stale", "different", "invalid", "busy", "guard"}
Reply == [why : {"ok"}, ids : Seq(Nat)] \union [why : Failure, ids : {<<>>}]
NoReply == [why |-> "none", ids |-> <<>>]

TypeOK ==
    /\ events \in Seq(Event)
    /\ decisions \in [Decision -> Receipt \union {NoReceipt}]
    /\ seen \in [Client -> Nat]
    /\ call \in [Client -> Call \union {NoCall}]
    /\ reply \in [Client -> Reply \union {NoReply}]

Init ==
    /\ events = <<>>
    /\ decisions = [d \in Decision |-> NoReceipt]
    /\ seen = [c \in Client |-> 0]
    /\ call = [c \in Client |-> NoCall]
    /\ reply = [c \in Client |-> NoReply]

------------------------------------------------------------------------------
\* The preconditions of a call against a log.  The caller computed them from
\* the first `base` events, which is the log it had read.
Fresh(log, k) ==
    /\ k.check = "global" => Len(log) = k.base
    /\ k.check = "stream" =>
         NextByCount(log, k.content[1]) =
         NextByCount(SubSeq(log, 1, k.base), k.content[1])

Valid(content) == \A i \in DOMAIN content : content[i] \notin Malformed

\* The events of a batch, each numbered after the ones before it.
Numbered(log, content) ==
    [i \in DOMAIN content |->
        [stream   |-> content[i],
         sequence |-> NextByLast(log, content[i])
                      + Cardinality({j \in 1..(i - 1) : content[j] = content[i]})]]

NewIds(log, content) == [i \in DOMAIN content |-> Len(log) + i]

Idle(c) == call[c] = NoCall /\ reply[c] = NoReply
Waiting(c) == call[c] # NoCall /\ reply[c] = NoReply

Answer(c, why, ids) == reply' = [reply EXCEPT ![c] = [why |-> why, ids |-> ids]]

\* readAll and readStream: the client takes a snapshot of the committed log.
ReadAll(c) ==
    /\ Idle(c)
    /\ seen' = [seen EXCEPT ![c] = Len(events)]
    /\ UNCHANGED <<events, decisions, call, reply>>

\* The client calls append or appendBatch with options from its last read.
Invoke(c, k) ==
    /\ Idle(c)
    /\ k.base = seen[c]
    /\ \/ Len(events) + Len(k.content) <= MaxEvents
       \/ k.decision # NoDecision /\ decisions[k.decision] # NoReceipt
    /\ call' = [call EXCEPT ![c] = k]
    /\ UNCHANGED <<events, decisions, seen, reply>>

\* append: count, check, validate and push.
AppendEvent(c) ==
    LET k == call[c] IN
    /\ Waiting(c)
    /\ k.decision = NoDecision
    /\ IF ~Fresh(events, k)
         THEN Answer(c, "stale", <<>>) /\ UNCHANGED events
       ELSE IF ~Valid(k.content)
         THEN Answer(c, "invalid", <<>>) /\ UNCHANGED events
       ELSE /\ events' = Append(events,
                           [stream   |-> k.content[1],
                            sequence |-> NextByCount(events, k.content[1])])
            /\ Answer(c, "ok", NewIds(events, k.content))
    /\ UNCHANGED <<decisions, seen, call>>

\* appendBatch for a decision that already has a receipt: the original result
\* for the same content, a conflict for another.
AnswerFromReceipt(c) ==
    LET k == call[c] IN
    /\ Waiting(c)
    /\ k.decision # NoDecision
    /\ decisions[k.decision] # NoReceipt
    /\ IF decisions[k.decision].content = k.content
         THEN Answer(c, "ok", decisions[k.decision].ids)
         ELSE Answer(c, "different", <<>>)
    /\ UNCHANGED <<events, decisions, seen, call>>

\* appendBatch for a new decision: all events and the receipt, or nothing.
AppendBatch(c) ==
    LET k == call[c] IN
    /\ Waiting(c)
    /\ k.decision # NoDecision
    /\ decisions[k.decision] = NoReceipt
    /\ IF ~Fresh(events, k)
         THEN Answer(c, "stale", <<>>) /\ UNCHANGED <<events, decisions>>
       ELSE IF ~Valid(k.content)
         THEN Answer(c, "invalid", <<>>) /\ UNCHANGED <<events, decisions>>
       ELSE /\ events' = events \o Numbered(events, k.content)
            /\ decisions' = [decisions EXCEPT ![k.decision] =
                               [content |-> k.content,
                                ids     |-> NewIds(events, k.content)]]
            /\ Answer(c, "ok", NewIds(events, k.content))
    /\ UNCHANGED <<seen, call>>

\* A durable ledger may also give up: the database is locked or fails to
\* commit ("busy"), or the caller's precommit guard throws ("guard").
GiveUp(c) ==
    /\ Waiting(c)
    /\ \E why \in {"busy", "guard"} : Answer(c, why, <<>>)
    /\ UNCHANGED <<events, decisions, seen, call>>

\* The call returns and the client goes on.
Return(c) ==
    /\ call[c] # NoCall /\ reply[c] # NoReply
    /\ call' = [call EXCEPT ![c] = NoCall]
    /\ reply' = [reply EXCEPT ![c] = NoReply]
    /\ UNCHANGED <<events, decisions, seen>>

\* The client's process dies; the log and the receipts survive.
Restart(c) ==
    /\ call' = [call EXCEPT ![c] = NoCall]
    /\ reply' = [reply EXCEPT ![c] = NoReply]
    /\ seen' = [seen EXCEPT ![c] = 0]
    /\ UNCHANGED <<events, decisions>>

Next ==
    \E c \in Client :
        \/ ReadAll(c)
        \/ \E k \in CallsFrom(seen[c]) : Invoke(c, k)
        \/ AppendEvent(c)
        \/ AnswerFromReceipt(c)
        \/ AppendBatch(c)
        \/ GiveUp(c)
        \/ Return(c)
        \/ Restart(c)

Spec == Init /\ [][Next]_vars
==============================================================================
