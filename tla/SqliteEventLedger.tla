-------------------------- MODULE SqliteEventLedger --------------------------
(***************************************************************************)
(* SQLiteEventLedger (packages/ontology/src/sqlite-event-ledger.ts): each  *)
(* client is an operating-system process with its own connection to the    *)
(* same database file.  An append is a transaction: BEGIN IMMEDIATE takes  *)
(* the one write lock, the rows are inserted one statement at a time into  *)
(* the process's own working copy, and COMMIT makes them visible.  Node    *)
(* runs the statements of one transaction without yielding, so they only   *)
(* interleave with other processes; a process may die between any two.     *)
(***************************************************************************)
EXTENDS LedgerLog

CONSTANT NoClient       \* the write lock is free

ASSUME NoClientAssumption == NoClient \notin Client

VARIABLES events, decisions, seen, call, reply,
          lock,         \* the process inside a write transaction
          pc,           \* the next statement of each process
          work          \* each open transaction's view of the two tables

vars == <<events, decisions, seen, call, reply, lock, pc, work>>
callVars == <<seen, call>>
tableVars == <<events, decisions>>

Ledger == INSTANCE EventLedger

Statement == {"begin", "check", "insert", "receipt", "guard", "commit", "done"}
\* A transaction's view of the two tables, and the ids of the rows it inserted.
Work == [events    : Seq(Event),
         decisions : [Decision -> Ledger!Receipt \union {Ledger!NoReceipt}],
         ids       : Seq(Nat)]
NoWork == [events |-> <<>>, decisions |-> [d \in Decision |-> Ledger!NoReceipt],
           ids |-> <<>>]

TypeOK ==
    /\ Ledger!TypeOK
    /\ lock \in Client \union {NoClient}
    /\ pc \in [Client -> Statement]
    /\ work \in [Client -> Work]

Init ==
    /\ Ledger!Init
    /\ lock = NoClient
    /\ pc = [c \in Client |-> "begin"]
    /\ work = [c \in Client |-> NoWork]

------------------------------------------------------------------------------
Goto(c, statement) == pc' = [pc EXCEPT ![c] = statement]
FreeLock(c) == lock' = IF lock = c THEN NoClient ELSE lock

\* Mutated form of Abort: the error path forgets to roll back.
AbortKeepingLock(c, why) ==
    /\ UNCHANGED lock
    /\ work' = [work EXCEPT ![c] = NoWork]
    /\ Ledger!Answer(c, why, <<>>)
    /\ Goto(c, "done")

\* rollbackTransaction and the rethrow: nothing of the transaction remains.
Abort(c, why) ==
    /\ FreeLock(c)
    /\ work' = [work EXCEPT ![c] = NoWork]
    /\ Ledger!Answer(c, why, <<>>)
    /\ Goto(c, "done")

\* BEGIN IMMEDIATE: takes the write lock, or fails because another process
\* holds it, which the caller sees as a conflict.
Begin(c) ==
    /\ Ledger!Waiting(c) /\ pc[c] = "begin"
    /\ IF lock = NoClient
         THEN /\ lock' = c
              /\ work' = [work EXCEPT ![c] =
                            [events |-> events, decisions |-> decisions, ids |-> <<>>]]
              /\ Goto(c, "check")
              /\ UNCHANGED reply
         ELSE Abort(c, "busy")
    /\ UNCHANGED <<tableVars, callVars>>

\* Mutated forms of Fresh: one of the two preconditions is not checked.
FreshStreamOnly(k, view) ==
    k.check = "stream" => NextByMax(view.events, k.content[1]) =
                          NextByMax(SubSeq(events, 1, k.base), k.content[1])
FreshGlobalOnly(k, view) == k.check = "global" => Len(view.events) = k.base

\* The options still describe the log that this transaction sees.
Fresh(k, view) ==
    /\ k.check = "global" => Len(view.events) = k.base
    /\ k.check = "stream" => NextByMax(view.events, k.content[1]) =
                             NextByMax(SubSeq(events, 1, k.base), k.content[1])

\* Mutated form of CheckPreconditions: the revision is checked first, and the
\* receipt only afterwards.
CheckRevisionFirst(c) ==
    LET k == call[c]
        stored == IF k.decision = NoDecision THEN Ledger!NoReceipt
                  ELSE work[c].decisions[k.decision] IN
    /\ pc[c] = "check"
    /\ IF ~Fresh(k, work[c]) THEN Abort(c, "stale")
       ELSE IF stored # Ledger!NoReceipt THEN Abort(c, "different")
       ELSE Goto(c, "insert") /\ UNCHANGED <<lock, work, reply>>
    /\ UNCHANGED <<tableVars, callVars>>

\* The checks at the head of a transaction.
CheckPreconditions(c) ==
    LET k == call[c]
        stored == IF k.decision = NoDecision THEN Ledger!NoReceipt
                  ELSE work[c].decisions[k.decision] IN
    /\ pc[c] = "check"
    /\ IF stored # Ledger!NoReceipt
         THEN IF stored.content = k.content
                THEN /\ work' = [work EXCEPT ![c].ids = stored.ids]
                     /\ Goto(c, "commit")
                     /\ UNCHANGED <<lock, reply>>
                ELSE Abort(c, "different")
       ELSE IF ~Fresh(k, work[c]) THEN Abort(c, "stale")
       ELSE Goto(c, "insert") /\ UNCHANGED <<lock, work, reply>>
    /\ UNCHANGED <<tableVars, callVars>>

\* Mutated form of InsertEvent: the number is taken from the committed table,
\* not from the transaction's own view.
InsertFromCommitted(c) ==
    LET k == call[c]
        s == k.content[Len(work[c].ids) + 1]
        row == [stream |-> s, sequence |-> NextByMax(events, s)] IN
    /\ pc[c] = "insert"
    /\ IF s \in Malformed THEN Abort(c, "invalid")
       ELSE /\ work' = [work EXCEPT ![c].events = Append(@, row),
                                    ![c].ids = Append(@, Len(work[c].events) + 1)]
            /\ Goto(c, IF Len(work[c].ids) + 1 < Len(k.content) THEN "insert"
                       ELSE IF k.decision # NoDecision THEN "receipt" ELSE "guard")
            /\ UNCHANGED <<lock, reply>>
    /\ UNCHANGED <<tableVars, callVars>>

\* One INSERT INTO ontology_events, after validating the event.
InsertEvent(c) ==
    LET k == call[c]
        s == k.content[Len(work[c].ids) + 1]
        row == [stream |-> s, sequence |-> NextByMax(work[c].events, s)] IN
    /\ pc[c] = "insert"
    /\ IF s \in Malformed THEN Abort(c, "invalid")
       ELSE /\ work' = [work EXCEPT ![c].events = Append(@, row),
                                    ![c].ids = Append(@, Len(work[c].events) + 1)]
            /\ Goto(c, IF Len(work[c].ids) + 1 < Len(k.content) THEN "insert"
                       ELSE IF k.decision # NoDecision THEN "receipt" ELSE "guard")
            /\ UNCHANGED <<lock, reply>>
    /\ UNCHANGED <<tableVars, callVars>>

\* Mutated form of InsertReceipt: it names the last event only.
InsertReceiptOfLast(c) ==
    LET k == call[c] IN
    /\ pc[c] = "receipt"
    /\ work' = [work EXCEPT ![c].decisions[k.decision] =
                  [content |-> k.content, ids |-> <<Last(work[c].ids)>>]]
    /\ Goto(c, "commit")
    /\ UNCHANGED <<tableVars, callVars, lock, reply>>

\* INSERT INTO ontology_decisions: the receipt of a batch.
InsertReceipt(c) ==
    LET k == call[c] IN
    /\ pc[c] = "receipt"
    /\ work' = [work EXCEPT ![c].decisions[k.decision] =
                  [content |-> k.content, ids |-> work[c].ids]]
    /\ Goto(c, "commit")
    /\ UNCHANGED <<tableVars, callVars, lock, reply>>

\* The caller's precommit guard runs after the insert, or there is none; it
\* rechecks facts outside the database and may throw.
PrecommitGuard(c) ==
    /\ pc[c] = "guard"
    /\ \/ Goto(c, "commit") /\ UNCHANGED <<lock, work, reply>>
       \/ Abort(c, "guard")
    /\ UNCHANGED <<tableVars, callVars>>

\* Mutated form of Commit: the receipt is left to a later transaction.
CommitWithoutReceipt(c) ==
    /\ pc[c] = "commit"
    /\ events' = work[c].events
    /\ FreeLock(c)
    /\ Ledger!Answer(c, "ok", work[c].ids)
    /\ work' = [work EXCEPT ![c] = NoWork]
    /\ Goto(c, "done")
    /\ UNCHANGED <<callVars, decisions>>

\* COMMIT succeeds, or fails while readers hold the file.
Commit(c) ==
    /\ pc[c] = "commit"
    /\ \/ /\ events' = work[c].events
          /\ decisions' = work[c].decisions
          /\ FreeLock(c)
          /\ Ledger!Answer(c, "ok", work[c].ids)
          /\ work' = [work EXCEPT ![c] = NoWork]
          /\ Goto(c, "done")
       \/ Abort(c, "busy") /\ UNCHANGED tableVars
    /\ UNCHANGED callVars

ReadAll(c) == Ledger!ReadAll(c) /\ UNCHANGED <<lock, pc, work>>

Invoke(c, k) == Ledger!Invoke(c, k) /\ UNCHANGED <<lock, pc, work>>

Return(c) ==
    /\ Ledger!Return(c)
    /\ Goto(c, "begin")
    /\ UNCHANGED <<lock, work>>

\* The process dies and starts again: SQLite drops its transaction and lock.
Crash(c) ==
    /\ Ledger!Restart(c)
    /\ FreeLock(c)
    /\ Goto(c, "begin")
    /\ work' = [work EXCEPT ![c] = NoWork]

Step(c) ==
    \/ Begin(c)
    \/ CheckPreconditions(c)
    \/ InsertEvent(c)
    \/ InsertReceipt(c)
    \/ PrecommitGuard(c)
    \/ Commit(c)

Next ==
    \E c \in Client :
        \/ ReadAll(c)
        \/ \E k \in Ledger!CallsFrom(seen[c]) : Invoke(c, k)
        \/ Step(c)
        \/ Return(c)
        \/ Crash(c)

Spec == Init /\ [][Next]_vars

(***************************************************************************)
(* A transaction is straight-line code: once begun it ends, unless the     *)
(* process dies.  Nothing forces a client to issue a call.                 *)
(***************************************************************************)
FairSpec == Spec /\ \A c \in Client : WF_vars(Step(c))
------------------------------------------------------------------------------
Open == Statement \ {"begin", "done"}

\* The write lock is held exactly from BEGIN to COMMIT or ROLLBACK: no error
\* path of append or appendBatch leaves a transaction open behind it.
LockMatchesTransaction == \A c \in Client : lock = c <=> pc[c] \in Open

\* Streams are numbered 1, 2, 3, ... in log order, whatever processes append,
\* roll back and die (nextSequence, UNIQUE(stream_id, stream_sequence)).
StreamsWellNumbered == WellNumbered(events)

\* A reader never sees an event that is later taken back or moved: the
\* committed log only grows, and a receipt, once stored, is never changed.
HistoryIsPermanent ==
    [][/\ IsPrefix(events, events')
       /\ \A d \in Decision : decisions[d] # Ledger!NoReceipt =>
                             decisions'[d] = decisions[d]]_tableVars

\* A stored decision is whole: its events stand in the log, next to each
\* other and in the order of the batch, and no two decisions share one.
DecisionsAreWhole ==
    \A d \in Decision :
        LET r == decisions[d] IN
        r # Ledger!NoReceipt =>
            /\ Len(r.ids) = Len(r.content)
            /\ \A i \in DOMAIN r.ids : /\ r.ids[i] = r.ids[1] + i - 1
                                       /\ r.ids[i] \in DOMAIN events
                                       /\ events[r.ids[i]].stream = r.content[i]
            /\ \A e \in Decision \ {d} :
                 Range(r.ids) \intersect Range(decisions[e].ids) = {}

\* The in-memory ledger would number the next event of a stream as SQLite does
\* (stored count + 1 in append, last stored + 1 in appendBatch, maximum + 1 in
\* SQLite), so that a log may move between the two.
NumberingAgrees == SameNumbering(events)

\* Optimistic concurrency: an append that was guarded by an expected count or
\* sequence and succeeded lost no update, for nothing it had not read came in
\* between (on its stream, or in the whole log).
GuardedAppendSawEverything ==
    \A c \in Client :
        LET k == call[c]
            id == reply[c].ids[1] IN
        reply[c].why = "ok" /\ k.decision = NoDecision =>
            /\ k.check = "global" => id = k.base + 1
            /\ k.check = "stream" =>
                 \A i \in (k.base + 1)..(id - 1) : events[i].stream # k.content[1]

\* A decision is first committed on exactly the log it was computed from.
NoStaleDecision ==
    [][\A d \in Decision :
         decisions[d] = Ledger!NoReceipt /\ decisions'[d] # Ledger!NoReceipt =>
             \E c \in Client : /\ call[c].decision = d
                               /\ call[c].base = Len(events)]_tableVars

\* A client that retries a decision it may already have committed, say after a
\* crash between COMMIT and the answer, is never told that it came too late.
CommittedRetryIsNotRefused ==
    [][\A c \in Client :
         LET d == call[c].decision IN
         reply[c] = Ledger!NoReply /\ reply'[c].why \in {"stale", "different"} =>
             d = NoDecision \/ decisions[d].content # call[c].content]_vars

\* Every process that takes the write lock gives it back, so one process can
\* never block the others for good.
LockIsReleased == \A c \in Client : (lock = c) ~> (lock # c)

\* The transactions implement the one-step ledger that callers rely on.
ImplementsLedger == Ledger!Spec

\* The committed log is one either ledger could have written, and every
\* transaction holds the lock it is entitled to (append, appendBatch,
\* rollbackTransaction).
LedgerIsSound ==
    /\ TypeOK
    /\ LockMatchesTransaction
    /\ StreamsWellNumbered
    /\ NumberingAgrees
==============================================================================
