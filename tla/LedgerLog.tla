------------------------------ MODULE LedgerLog ------------------------------
(***************************************************************************)
(* The data of an event ledger (packages/ontology/src/event-ledger.ts):    *)
(* a log is a sequence of events, and an event is abstracted to the two    *)
(* fields the ledger itself computes with, the stream it belongs to and    *)
(* its sequence number in that stream.  The position of an event in the    *)
(* log stands for its id (a fresh UUID) and for SQLite's global_sequence.  *)
(***************************************************************************)
EXTENDS Integers, Sequences, FiniteSets, SequencesExt

CONSTANTS
    Stream,      \* stream ids
    Malformed,   \* the streams whose events validateKnowledgeEvent rejects
    Client,      \* the callers of the ledger
    Decision,    \* decision identities of batches
    NoDecision,  \* what a plain append carries instead
    Content,     \* what callers append: nonempty sequences of streams
    MaxEvents    \* bound: no call is issued that would outgrow this log

ASSUME MalformedAssumption == Malformed \subseteq Stream
ASSUME ContentAssumption == Content \subseteq (Seq(Stream) \ {<<>>})
ASSUME DecisionAssumption == NoDecision \notin Decision
ASSUME MaxEventsAssumption == MaxEvents \in Nat

Event == [stream : Stream, sequence : Nat \ {0}]

\* The sequence numbers a stream has used in a log.
SequencesOf(log, s) ==
    {log[i].sequence : i \in {j \in DOMAIN log : log[j].stream = s}}

\* InMemoryEventLedger.append: one more than the number of stored events.
NextByCount(log, s) == Cardinality({i \in DOMAIN log : log[i].stream = s}) + 1

\* InMemoryEventLedger.appendBatch: one more than the last stored sequence.
NextByLast(log, s) ==
    IF SequencesOf(log, s) = {} THEN 1
    ELSE log[CHOOSE i \in DOMAIN log :
                /\ log[i].stream = s
                /\ \A j \in (i + 1)..Len(log) : log[j].stream # s].sequence + 1

\* SQLiteEventLedger.nextSequence: COALESCE(MAX(stream_sequence), 0) + 1.
NextByMax(log, s) ==
    IF SequencesOf(log, s) = {} THEN 1
    ELSE (CHOOSE n \in SequencesOf(log, s) :
            \A m \in SequencesOf(log, s) : m <= n) + 1

(***************************************************************************)
(* A well-numbered log: a stream's numbers are 1..n without a gap or a     *)
(* duplicate, and they rise with the position in the log.                  *)
(***************************************************************************)
Dense(log) == \A s \in Stream : \E n \in 0..Len(log) : SequencesOf(log, s) = 1..n

Rising(log) ==
    \A i, j \in DOMAIN log :
        i < j /\ log[i].stream = log[j].stream => log[i].sequence < log[j].sequence

WellNumbered(log) == Dense(log) /\ Rising(log)

(***************************************************************************)
(* The three formulas the code numbers events with give the same number,   *)
(* so that a log may move between the two ledgers.                         *)
(***************************************************************************)
SameNumbering(log) ==
    \A s \in Stream : /\ NextByCount(log, s) = NextByMax(log, s)
                      /\ NextByLast(log, s) = NextByMax(log, s)
==============================================================================
