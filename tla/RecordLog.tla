----------------------------- MODULE RecordLog -----------------------------
(***************************************************************************)
(* What the services that keep evidence and knowledge share: one ledger,   *)
(* and callers with a call of some service under way.                      *)
(*                                                                         *)
(* The ledger is the one EventLedger specifies, an append one conditional  *)
(* step.  An event is a record with its type, its stream and the part of   *)
(* its payload that decisions read; its place in the log is its id.        *)
(*                                                                         *)
(* Nearly every operation of these services has two steps: it reads, then  *)
(* decides and prepares an event; later it appends the event if the stream *)
(* is (or the ledger is) as long as it was.  Other callers act in between. *)
(***************************************************************************)
EXTENDS Integers, Sequences, FiniteSets

CONSTANTS
    Caller,     \* requests under way, of one process or of several
    Scenarios   \* what a behaviour starts from (log), and the bounds on how
                \* often each operation may be called in it (calls)

VARIABLES
    log,        \* the events, in the ledger's order
    call,       \* what each caller is doing
    budget      \* the calls left to make

\* No call is under way.
Idle == [op |-> "idle"]

InStream(s, st) == {i \in DOMAIN s : s[i].stream = st}

StreamLength(s, st) == Cardinality(InStream(s, st))

OfType(s, type) == {i \in DOMAIN s : s[i].type = type}

First(S) == {i \in S : \A j \in S : i <= j}

Latest(S) == {i \in S : \A j \in S : j <= i}

Prefix(s, n) == SubSeq(s, 1, n)

----------------------------------------------------------------------------
\* A conditional append: expected and global are the option's values, 0 when
\* the option is absent (the count is given plus one, so that none is 0).
Sending(event, expected, global) ==
    [op |-> "send", event |-> event, expected |-> expected, global |-> global]

ExpectsSequence(event) == Sending(event, StreamLength(log, event.stream) + 1, 0)

ExpectsGlobalCount(event) == Sending(event, 0, Len(log) + 1)

ExpectsNothing(event) == Sending(event, 0, 0)

Holds(c) ==
    /\ call[c].expected \in {0, StreamLength(log, call[c].event.stream) + 1}
    /\ call[c].global \in {0, Len(log) + 1}

\* Caller c, with nothing under way, makes a call of operation op.
Makes(c, op) ==
    /\ call[c] = Idle
    /\ budget[op] > 0
    /\ budget' = [budget EXCEPT ![op] = @ - 1]

\* The append is made, or refused; either way the call returns.
Send(c) ==
    /\ call[c].op = "send"
    /\ log' = IF Holds(c) THEN Append(log, call[c].event) ELSE log
    /\ call' = [call EXCEPT ![c] = Idle]
    /\ UNCHANGED budget

\* The process of a call dies, or the ledger is unavailable to it.
Die(c) ==
    /\ call[c] # Idle
    /\ budget["die"] > 0
    /\ budget' = [budget EXCEPT !["die"] = @ - 1]
    /\ call' = [call EXCEPT ![c] = Idle]
    /\ UNCHANGED log

RecordInit ==
    /\ \E s \in Scenarios : log = s.log /\ budget = s.calls
    /\ call = [c \in Caller |-> Idle]
=============================================================================
