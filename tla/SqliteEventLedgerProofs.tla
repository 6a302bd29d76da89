----------------------- MODULE SqliteEventLedgerProofs -----------------------
(***************************************************************************)
(* The transactions of SqliteEventLedger keep their types, hold the write  *)
(* lock exactly while they are open, and number every stream 1, 2, 3, ...  *)
(* for any number of processes, streams, decisions and batches.            *)
(***************************************************************************)
EXTENDS SqliteEventLedger, FunctionTheorems, FiniteSetTheorems, SequenceTheorems, TLAPS

\* The row that InsertEvent adds for stream s.
Row(log, s) == [stream |-> s, sequence |-> NextByMax(log, s)]

\* SQLite's MAX + 1 is one more than the length of a densely numbered stream.
LEMMA NextByMaxOfDense ==
    ASSUME NEW log, NEW s, NEW n \in Nat, SequencesOf(log, s) = 1..n
    PROVE  NextByMax(log, s) = n + 1
<1>1. CASE n = 0
  BY <1>1 DEF NextByMax
<1>2. CASE n # 0
  <2>1. n \in 1..n /\ \A m \in 1..n : m <= n
    BY <1>2
  <2>2. \A x \in 1..n : (\A m \in 1..n : m <= x) => x = n
    BY <2>1
  <2>3. (CHOOSE x \in 1..n : \A m \in 1..n : m <= x) = n
    BY <2>1, <2>2
  <2>. QED  BY <2>1, <2>3 DEF NextByMax
<1>. QED  BY <1>1, <1>2

(***************************************************************************)
(* The numbers of a well-numbered log are the ranks of its events, so that *)
(* counting, taking the last and taking the maximum agree.                 *)
(***************************************************************************)
Members(log, s) == {i \in DOMAIN log : log[i].stream = s}

LEMMA CountOfDense ==
    ASSUME NEW log \in Seq(Event), NEW s \in Stream, NEW n \in Nat,
           SequencesOf(log, s) = 1..n, Rising(log)
    PROVE  IsFiniteSet(Members(log, s)) /\ Cardinality(Members(log, s)) = n
<1> DEFINE M == Members(log, s)
           f == [i \in M |-> log[i].sequence]
<1>1. DOMAIN log = 1..Len(log) /\ Len(log) \in Nat /\ \A i \in DOMAIN log : log[i] \in Event
  OBVIOUS
<1>2. M \subseteq 1..Len(log)
  BY <1>1 DEF Members
<1>3. \A i \in M : f[i] \in 1..n
  BY DEF Members, SequencesOf
<1>4. \A m \in 1..n : \E i \in M : f[i] = m
  BY DEF Members, SequencesOf
<1>5. \A i, j \in M : i # j => f[i] # f[j]
  <2>1. SUFFICES ASSUME NEW i \in M, NEW j \in M, i < j PROVE f[i] < f[j]
    <3>1. \A i, j \in M : i # j => i < j \/ j < i
      BY <1>2
    <3>2. \A i \in M : f[i] \in Int
      BY <1>3
    <3>. QED  BY <2>1, <3>1, <3>2
  <2>2. log[i].stream = log[j].stream /\ i \in DOMAIN log /\ j \in DOMAIN log
    BY DEF Members
  <2>. QED  BY <2>1, <2>2 DEF Rising
<1>6. f \in Bijection(M, 1..n)
  BY <1>3, <1>4, <1>5 DEF Bijection, Injection, Surjection, IsInjective
<1>7. IsFiniteSet(1..n) /\ Cardinality(1..n) = n
  BY FS_Interval
<1>8. ExistsBijection(1..n, M)
  BY <1>6, Fun_ExistsBijSymmetric DEF ExistsBijection
<1>. QED  BY <1>7, <1>8, FS_Bijection

\* The three numberings agree on a well-numbered log.
LEMMA WellNumberedAgrees ==
    ASSUME NEW log \in Seq(Event), WellNumbered(log)
    PROVE  SameNumbering(log)
<1> SUFFICES ASSUME NEW s \in Stream
             PROVE  /\ NextByCount(log, s) = NextByMax(log, s)
                    /\ NextByLast(log, s) = NextByMax(log, s)
  BY DEF SameNumbering
<1>1. PICK n \in 0..Len(log) : SequencesOf(log, s) = 1..n
  BY DEF WellNumbered, Dense
<1>2. n \in Nat /\ Rising(log)
  BY <1>1 DEF WellNumbered
<1>3. NextByMax(log, s) = n + 1
  BY <1>1, <1>2, NextByMaxOfDense
<1>4. NextByCount(log, s) = n + 1
  BY <1>1, <1>2, CountOfDense DEF NextByCount, Members
<1>5. NextByLast(log, s) = n + 1
  <2>1. CASE n = 0
    BY <1>1, <2>1 DEF NextByLast
  <2>2. CASE n # 0
    <3> DEFINE last(i) == /\ log[i].stream = s
                          /\ \A j \in (i + 1)..Len(log) : log[j].stream # s
    <3>1. \A i \in DOMAIN log : log[i].stream = s => log[i].sequence \in 1..n
      BY <1>1 DEF SequencesOf
    <3>2. PICK top \in DOMAIN log : log[top].stream = s /\ log[top].sequence = n
      BY <1>1, <1>2, <2>2 DEF SequencesOf
    <3>3. last(top)
      BY <1>2, <3>1, <3>2 DEF Rising
    <3>4. \A i \in DOMAIN log : last(i) => i = top
      BY <3>2, <3>3
    <3>5. (CHOOSE i \in DOMAIN log : last(i)) = top
      BY <3>3, <3>4
    <3>6. n \in SequencesOf(log, s)
      BY <1>1, <1>2, <2>2
    <3>. QED  BY <3>2, <3>5, <3>6 DEF NextByLast
  <2>. QED  BY <2>1, <2>2
<1>. QED  BY <1>3, <1>4, <1>5

\* Inserting a row numbered MAX + 1 keeps a log well numbered.
LEMMA InsertKeepsNumbering ==
    ASSUME NEW log \in Seq(Event), NEW s \in Stream, WellNumbered(log)
    PROVE  /\ Row(log, s) \in Event
           /\ WellNumbered(Append(log, Row(log, s)))
<1>1. PICK n \in 0..Len(log) : SequencesOf(log, s) = 1..n
  BY DEF WellNumbered, Dense
<1>2. NextByMax(log, s) = n + 1
  BY <1>1, NextByMaxOfDense
<1>3. Row(log, s) \in Event
  BY <1>2 DEF Row, Event
<1> DEFINE new == Append(log, Row(log, s))
<1>4. /\ Len(new) = Len(log) + 1
      /\ \A i \in 1..Len(log) : new[i] = log[i]
      /\ new[Len(log) + 1] = Row(log, s)
      /\ DOMAIN new = 1..(Len(log) + 1) /\ DOMAIN log = 1..Len(log)
  BY <1>3
<1>5. SequencesOf(new, s) = SequencesOf(log, s) \union {n + 1}
  BY <1>2, <1>4 DEF SequencesOf, Row
<1>6. \A t \in Stream \ {s} : SequencesOf(new, t) = SequencesOf(log, t)
  BY <1>4 DEF SequencesOf, Row
<1>7. Dense(new)
  <2>1. SequencesOf(new, s) = 1..(n + 1) /\ n + 1 \in 0..Len(new)
    BY <1>1, <1>4, <1>5
  <2>2. \A t \in Stream \ {s} : \E k \in 0..Len(new) : SequencesOf(new, t) = 1..k
    BY <1>4, <1>6 DEF WellNumbered, Dense
  <2>. QED  BY <2>1, <2>2 DEF Dense
<1>8. Rising(new)
  <2>1. \A i \in 1..Len(log) : log[i].stream = s => log[i].sequence < n + 1
    <3>1. ASSUME NEW i \in 1..Len(log), log[i].stream = s
          PROVE  log[i].sequence \in SequencesOf(log, s)
      BY <1>4, <3>1 DEF SequencesOf
    <3>. QED  BY <1>1, <3>1
  <2>2. \A i \in 1..Len(log) : new[i].stream = s => new[i].sequence < n + 1
    BY <1>4, <2>1
  <2>3. SUFFICES ASSUME NEW i \in DOMAIN new, NEW j \in DOMAIN new,
                        i < j, new[i].stream = new[j].stream
                 PROVE  new[i].sequence < new[j].sequence
    BY DEF Rising
  <2>4. CASE j = Len(log) + 1
    BY <1>2, <1>4, <2>2, <2>3, <2>4 DEF Row
  <2>5. CASE j # Len(log) + 1
    BY <1>4, <2>3, <2>5 DEF WellNumbered, Rising
  <2>. QED  BY <2>4, <2>5
<1>. QED  BY <1>3, <1>7, <1>8 DEF WellNumbered
------------------------------------------------------------------------------
(***************************************************************************)
(* The inductive invariant.  A committed log is well numbered because the  *)
(* working copy that replaces it is; the working copy is because it starts *)
(* as a committed log and grows by rows numbered MAX + 1.  The control     *)
(* facts say which calls reach which statement.                            *)
(***************************************************************************)
ControlInv ==
    \A c \in Client :
        /\ pc[c] \in Open => call[c] # Ledger!NoCall /\ reply[c] = Ledger!NoReply
        /\ pc[c] = "check" => work[c].ids = <<>>
        /\ pc[c] = "insert" => Len(work[c].ids) < Len(call[c].content)
        /\ pc[c] = "receipt" => call[c].decision # NoDecision
        /\ pc[c] = "done" => reply[c] # Ledger!NoReply

NumberingInv ==
    /\ WellNumbered(events)
    /\ \A c \in Client : WellNumbered(work[c].events)

IInv == TypeOK /\ LockMatchesTransaction /\ ControlInv /\ NumberingInv

LEMMA EmptyWellNumbered == WellNumbered(<<>>) /\ <<>> \in Seq(Event)
<1>1. \A s \in Stream : SequencesOf(<<>>, s) = 1..0
  BY DEF SequencesOf
<1>2. 0 \in 0..Len(<<>>)
  OBVIOUS
<1>3. Dense(<<>>)
  BY <1>1, <1>2 DEF Dense
<1>4. Rising(<<>>)
  BY DEF Rising
<1>. QED  BY <1>3, <1>4 DEF WellNumbered

\* EventLedger and SqliteEventLedger extend LedgerLog with the same constants.
LEMMA SameEvent == Ledger!Event = Event
BY DEF Ledger!Event, Event

\* What a call holds, by its kind.
LEMMA CallShape ==
    ASSUME NEW k \in Ledger!Call \union {Ledger!NoCall}, k # Ledger!NoCall
    PROVE  /\ k.content \in Content /\ k.content \in Seq(Stream)
           /\ Len(k.content) > 0
           /\ k.decision # NoDecision => k.decision \in Decision
BY ContentAssumption DEF Ledger!Call, Ledger!NoCall

THEOREM InitInv == Init => IInv
<1> SUFFICES ASSUME Init PROVE IInv
  OBVIOUS
<1>1. TypeOK
  BY EmptyWellNumbered, SameEvent
  DEF Init, TypeOK, Ledger!Init, Ledger!TypeOK, NoWork, Work, Statement, Ledger!NoCall,
      Ledger!NoReply, Ledger!NoReceipt
<1>2. LockMatchesTransaction /\ ControlInv
  BY NoClientAssumption
  DEF Init, Ledger!Init, LockMatchesTransaction, ControlInv, Open, Statement
<1>3. NumberingInv
  BY EmptyWellNumbered DEF Init, Ledger!Init, NumberingInv, NoWork
<1>. QED  BY <1>1, <1>2, <1>3 DEF IInv

\* An abort in the middle of a transaction preserves the invariant.
LEMMA AbortInv ==
    ASSUME IInv, NEW c \in Client, NEW why \in Ledger!Failure, Abort(c, why),
           call[c] # Ledger!NoCall, UNCHANGED <<events, decisions, seen, call>>
    PROVE  IInv'
<1>1. TypeOK'
  BY EmptyWellNumbered
  DEF IInv, TypeOK, Ledger!TypeOK, Abort, FreeLock, Goto, Ledger!Answer, NoWork, Work,
      Ledger!Reply, Statement, Ledger!NoReceipt
<1>2. LockMatchesTransaction'
  BY NoClientAssumption
  DEF IInv, TypeOK, LockMatchesTransaction, Abort, FreeLock, Goto, Open, Statement
<1>3. ControlInv'
  BY DEF IInv, TypeOK, Ledger!TypeOK, ControlInv, Abort, Goto, Ledger!Answer, Open,
         Statement, Ledger!Failure, Ledger!NoReply
<1>4. NumberingInv'
  BY EmptyWellNumbered DEF IInv, TypeOK, NumberingInv, Abort, NoWork
<1>. QED  BY <1>1, <1>2, <1>3, <1>4 DEF IInv

LEMMA ReadAllInv == ASSUME IInv, NEW c \in Client, ReadAll(c) PROVE IInv'
<1>1. TypeOK'
  BY SameEvent DEF IInv, TypeOK, Ledger!TypeOK, ReadAll, Ledger!ReadAll
<1>. QED
  BY <1>1
  DEF IInv, ReadAll, Ledger!ReadAll, LockMatchesTransaction, ControlInv, NumberingInv

LEMMA InvokeInv ==
    ASSUME IInv, NEW c \in Client, NEW k \in Ledger!CallsFrom(seen[c]), Invoke(c, k)
    PROVE  IInv'
<1>1. k \in Ledger!Call
  BY DEF Ledger!CallsFrom, Ledger!Call, IInv, TypeOK, Ledger!TypeOK
<1>2. TypeOK'
  BY <1>1 DEF IInv, TypeOK, Ledger!TypeOK, Invoke, Ledger!Invoke
<1>3. pc[c] \notin Open /\ pc[c] # "insert" /\ pc[c] # "receipt"
  BY DEF IInv, ControlInv, Invoke, Ledger!Invoke, Ledger!Idle, Open, Statement
<1>4. ControlInv'
  BY <1>3 DEF IInv, TypeOK, Ledger!TypeOK, Invoke, Ledger!Invoke, ControlInv
<1>. QED
  BY <1>2, <1>4
  DEF IInv, Invoke, Ledger!Invoke, LockMatchesTransaction, NumberingInv

LEMMA ReturnInv == ASSUME IInv, NEW c \in Client, Return(c) PROVE IInv'
<1>1. TypeOK'
  BY DEF IInv, TypeOK, Ledger!TypeOK, Return, Ledger!Return, Goto, Statement
<1>2. pc[c] \notin Open
  BY DEF IInv, ControlInv, Return, Ledger!Return
<1>3. LockMatchesTransaction' /\ ControlInv'
  BY <1>2
  DEF IInv, TypeOK, Ledger!TypeOK, LockMatchesTransaction, ControlInv, Return,
      Ledger!Return, Goto, Open, Statement
<1>4. NumberingInv'
  BY DEF IInv, NumberingInv, Return, Ledger!Return
<1>. QED  BY <1>1, <1>3, <1>4 DEF IInv

LEMMA CrashInv == ASSUME IInv, NEW c \in Client, Crash(c) PROVE IInv'
<1>1. TypeOK'
  BY EmptyWellNumbered
  DEF IInv, TypeOK, Ledger!TypeOK, Crash, Ledger!Restart, FreeLock, Goto, NoWork, Work,
      Statement, Ledger!NoReceipt
<1>2. LockMatchesTransaction' /\ ControlInv'
  BY NoClientAssumption
  DEF IInv, TypeOK, Ledger!TypeOK, LockMatchesTransaction, ControlInv, Crash,
      Ledger!Restart, FreeLock, Goto, Open, Statement
<1>3. NumberingInv'
  BY EmptyWellNumbered
  DEF IInv, TypeOK, NumberingInv, Crash, Ledger!Restart, NoWork
<1>. QED  BY <1>1, <1>2, <1>3 DEF IInv

LEMMA BeginInv == ASSUME IInv, NEW c \in Client, Begin(c) PROVE IInv'
<1>1. CASE lock = NoClient
  <2> DEFINE view == [events |-> events, decisions |-> decisions, ids |-> <<>>]
  <2>1. /\ lock' = c /\ work' = [work EXCEPT ![c] = view]
        /\ pc' = [pc EXCEPT ![c] = "check"]
        /\ UNCHANGED <<events, decisions, seen, call, reply>>
    BY <1>1 DEF Begin, Goto, tableVars, callVars
  <2>2. view \in Work /\ view.events = events
    BY SameEvent DEF IInv, TypeOK, Ledger!TypeOK, Work
  <2>3. TypeOK'
    BY <2>1, <2>2 DEF IInv, TypeOK, Ledger!TypeOK, Statement
  <2>4. LockMatchesTransaction' /\ ControlInv'
    BY <1>1, <2>1, NoClientAssumption
    DEF IInv, TypeOK, LockMatchesTransaction, ControlInv, Begin, Open, Statement,
        Ledger!Waiting
  <2>5. NumberingInv'
    BY <2>1, <2>2 DEF IInv, TypeOK, NumberingInv
  <2>. QED  BY <2>3, <2>4, <2>5 DEF IInv
<1>2. CASE lock # NoClient
  BY <1>2, AbortInv
  DEF Begin, Ledger!Waiting, Ledger!Failure, tableVars, callVars
<1>. QED  BY <1>1, <1>2

LEMMA CheckInv == ASSUME IInv, NEW c \in Client, CheckPreconditions(c) PROVE IInv'
<1> DEFINE k == call[c]
           stored == IF k.decision = NoDecision THEN Ledger!NoReceipt
                     ELSE work[c].decisions[k.decision]
<1>1. /\ pc[c] = "check" /\ k # Ledger!NoCall /\ reply[c] = Ledger!NoReply
      /\ UNCHANGED <<events, decisions, seen, call>>
  BY DEF CheckPreconditions, IInv, ControlInv, Open, Statement, tableVars, callVars
<1>2. /\ k \in Ledger!Call \union {Ledger!NoCall} /\ Len(k.content) > 0
      /\ k.decision # NoDecision => k.decision \in Decision
  BY <1>1, CallShape DEF IInv, TypeOK, Ledger!TypeOK
<1>3. CASE \E why \in {"different", "stale"} : Abort(c, why)
  BY <1>1, <1>3, AbortInv DEF Ledger!Failure
<1>4. CASE /\ stored # Ledger!NoReceipt
           /\ work' = [work EXCEPT ![c].ids = stored.ids]
           /\ Goto(c, "commit") /\ UNCHANGED <<lock, reply>>
  <2>1. stored \in Ledger!Receipt
    BY <1>2, <1>4 DEF IInv, TypeOK, Work
  <2>2. work' \in [Client -> Work] /\ \A d \in Client : work'[d].events = work[d].events
    BY <1>4, <2>1 DEF IInv, TypeOK, Work, Ledger!Receipt
  <2>3. TypeOK'
    BY <1>1, <1>4, <2>2 DEF IInv, TypeOK, Ledger!TypeOK, Statement, Goto
  <2>4. LockMatchesTransaction' /\ ControlInv'
    BY <1>1, <1>4
    DEF IInv, TypeOK, LockMatchesTransaction, ControlInv, Open, Statement, Goto
  <2>5. NumberingInv'
    BY <1>1, <2>2 DEF IInv, NumberingInv
  <2>. QED  BY <2>3, <2>4, <2>5 DEF IInv
<1>5. CASE Goto(c, "insert") /\ UNCHANGED <<lock, work, reply>>
  <2>1. TypeOK' /\ NumberingInv'
    BY <1>1, <1>5
    DEF IInv, TypeOK, Ledger!TypeOK, NumberingInv, Statement, Goto
  <2>2. Len(work[c].ids) = 0
    BY <1>1 DEF IInv, ControlInv
  <2>3. LockMatchesTransaction' /\ ControlInv'
    BY <1>1, <1>2, <1>5, <2>2
    DEF IInv, TypeOK, LockMatchesTransaction, ControlInv, Open, Statement, Goto
  <2>. QED  BY <2>1, <2>3 DEF IInv
<1>. QED  BY <1>3, <1>4, <1>5 DEF CheckPreconditions

LEMMA InsertInv == ASSUME IInv, NEW c \in Client, InsertEvent(c) PROVE IInv'
<1> DEFINE k == call[c]
           ids == work[c].ids
           s == k.content[Len(ids) + 1]
           row == Row(work[c].events, s)
           next == IF Len(ids) + 1 < Len(k.content) THEN "insert"
                   ELSE IF k.decision # NoDecision THEN "receipt" ELSE "guard"
<1>1. /\ pc[c] = "insert" /\ k # Ledger!NoCall /\ reply[c] = Ledger!NoReply
      /\ UNCHANGED <<events, decisions, seen, call>>
      /\ Len(ids) < Len(k.content)
  BY DEF InsertEvent, IInv, ControlInv, Open, Statement, tableVars, callVars
<1>2. work[c] \in Work /\ ids \in Seq(Nat) /\ work[c].events \in Seq(Event)
  BY DEF IInv, TypeOK, Work
<1>3. s \in Stream
  <2>1. k \in Ledger!Call \union {Ledger!NoCall}
    BY DEF IInv, TypeOK, Ledger!TypeOK
  <2>2. k.content \in Seq(Stream)
    BY <1>1, <2>1, CallShape
  <2>3. Len(ids) + 1 \in 1..Len(k.content)
    BY <1>1, <1>2, <2>2
  <2>. QED  BY <2>2, <2>3
<1>4. CASE Abort(c, "invalid")
  BY <1>1, <1>4, AbortInv DEF Ledger!Failure
<1>5. CASE /\ work' = [work EXCEPT ![c].events = Append(@, row),
                                  ![c].ids = Append(@, Len(work[c].events) + 1)]
           /\ Goto(c, next) /\ UNCHANGED <<lock, reply>>
  <2>1. row \in Event /\ WellNumbered(Append(work[c].events, row))
    BY <1>2, <1>3, InsertKeepsNumbering DEF IInv, NumberingInv
  <2>2. /\ work' \in [Client -> Work]
        /\ work'[c].events = Append(work[c].events, row)
        /\ work'[c].ids = Append(ids, Len(work[c].events) + 1)
        /\ \A d \in Client \ {c} : work'[d] = work[d]
    <3>1. /\ Append(work[c].events, row) \in Seq(Event)
          /\ Append(ids, Len(work[c].events) + 1) \in Seq(Nat)
      BY <1>2, <2>1
    <3> DEFINE new == [events    |-> Append(work[c].events, row),
                       decisions |-> work[c].decisions,
                       ids       |-> Append(ids, Len(work[c].events) + 1)]
    <3>2. new \in Work
      BY <1>2, <3>1 DEF Work
    <3>3. work' = [work EXCEPT ![c] = new]
      <4>1. work \in [Client -> Work]
        BY DEF IInv, TypeOK
      <4> HIDE DEF row, next
      <4>2. DOMAIN work' = Client /\ \A d \in Client \ {c} : work'[d] = work[d]
        BY <1>5, <4>1
      <4>3. work'[c] = [work[c] EXCEPT !.events = Append(@, row),
                                       !.ids = Append(@, Len(work[c].events) + 1)]
        BY <1>5, <4>1
      <4>4. work'[c] = new
        BY <1>2, <4>3 DEF Work
      <4>. QED  BY <1>5, <4>1, <4>2, <4>4
    <3>. QED  BY <3>2, <3>3 DEF IInv, TypeOK
  <2>3. NumberingInv'
    BY <1>1, <2>1, <2>2 DEF IInv, NumberingInv
  <2>4. TypeOK'
    BY <1>1, <1>5, <2>2 DEF IInv, TypeOK, Ledger!TypeOK, Statement, Goto
  <2>5. LockMatchesTransaction'
    BY <1>1, <1>5 DEF IInv, TypeOK, LockMatchesTransaction, Open, Statement, Goto
  <2>6. Len(work'[c].ids) = Len(ids) + 1
    BY <1>2, <2>2
  <2>7. ControlInv'
    BY <1>1, <1>5, <2>2, <2>6
    DEF IInv, TypeOK, ControlInv, Open, Statement, Goto
  <2>. QED  BY <2>3, <2>4, <2>5, <2>7 DEF IInv
<1>. QED  BY <1>4, <1>5 DEF InsertEvent, Row

LEMMA ReceiptInv == ASSUME IInv, NEW c \in Client, InsertReceipt(c) PROVE IInv'
<1> DEFINE k == call[c]
<1>1. /\ pc[c] = "receipt" /\ k # Ledger!NoCall /\ k.decision # NoDecision
      /\ pc' = [pc EXCEPT ![c] = "commit"]
      /\ UNCHANGED <<events, decisions, seen, call, lock, reply>>
  BY DEF InsertReceipt, IInv, ControlInv, Open, Statement, tableVars, callVars, Goto
<1>2. k.decision \in Decision /\ k.content \in Content
  BY <1>1, CallShape DEF IInv, TypeOK, Ledger!TypeOK
<1>3. [content |-> k.content, ids |-> work[c].ids] \in Ledger!Receipt
  BY <1>2 DEF IInv, TypeOK, Work, Ledger!Receipt
<1>4. /\ work' \in [Client -> Work]
      /\ \A d \in Client : work'[d].events = work[d].events /\ work'[d].ids = work[d].ids
  BY <1>2, <1>3 DEF IInv, TypeOK, Work, InsertReceipt
<1>5. TypeOK'
  BY <1>1, <1>4 DEF IInv, TypeOK, Ledger!TypeOK, Statement
<1>6. LockMatchesTransaction' /\ ControlInv'
  BY <1>1, <1>4
  DEF IInv, TypeOK, LockMatchesTransaction, ControlInv, Open, Statement
<1>7. NumberingInv'
  BY <1>1, <1>4 DEF IInv, NumberingInv
<1>. QED  BY <1>5, <1>6, <1>7 DEF IInv

LEMMA GuardInv == ASSUME IInv, NEW c \in Client, PrecommitGuard(c) PROVE IInv'
<1>1. /\ pc[c] = "guard" /\ call[c] # Ledger!NoCall
      /\ UNCHANGED <<events, decisions, seen, call>>
  BY DEF PrecommitGuard, IInv, ControlInv, Open, Statement, tableVars, callVars
<1>2. CASE Abort(c, "guard")
  BY <1>1, <1>2, AbortInv DEF Ledger!Failure
<1>3. CASE Goto(c, "commit") /\ UNCHANGED <<lock, work, reply>>
  <2>1. TypeOK' /\ NumberingInv'
    BY <1>1, <1>3 DEF IInv, TypeOK, Ledger!TypeOK, NumberingInv, Statement, Goto
  <2>2. LockMatchesTransaction' /\ ControlInv'
    BY <1>1, <1>3
    DEF IInv, TypeOK, LockMatchesTransaction, ControlInv, Open, Statement, Goto
  <2>. QED  BY <2>1, <2>2 DEF IInv
<1>. QED  BY <1>2, <1>3 DEF PrecommitGuard

LEMMA CommitInv == ASSUME IInv, NEW c \in Client, Commit(c) PROVE IInv'
<1>1. /\ pc[c] = "commit" /\ call[c] # Ledger!NoCall /\ UNCHANGED <<seen, call>>
  BY DEF Commit, IInv, ControlInv, Open, Statement, callVars
<1>2. CASE Abort(c, "busy") /\ UNCHANGED tableVars
  BY <1>1, <1>2, AbortInv DEF Ledger!Failure, tableVars
<1>3. CASE /\ events' = work[c].events /\ decisions' = work[c].decisions
           /\ FreeLock(c) /\ Ledger!Answer(c, "ok", work[c].ids)
           /\ work' = [work EXCEPT ![c] = NoWork] /\ Goto(c, "done")
  <2>1. TypeOK'
    BY <1>1, <1>3, EmptyWellNumbered, SameEvent
    DEF IInv, TypeOK, Ledger!TypeOK, FreeLock, Goto, Ledger!Answer, NoWork, Work,
        Ledger!Reply, Statement, Ledger!NoReceipt
  <2>2. LockMatchesTransaction'
    BY <1>1, <1>3, NoClientAssumption
    DEF IInv, TypeOK, LockMatchesTransaction, FreeLock, Goto, Open, Statement
  <2>3. ControlInv'
    BY <1>1, <1>3
    DEF IInv, TypeOK, Ledger!TypeOK, ControlInv, Goto, Ledger!Answer, Open, Statement,
        Ledger!NoReply
  <2>4. NumberingInv'
    BY <1>3, EmptyWellNumbered DEF IInv, TypeOK, NumberingInv, NoWork
  <2>. QED  BY <2>1, <2>2, <2>3, <2>4 DEF IInv
<1>. QED  BY <1>2, <1>3 DEF Commit

LEMMA NextInv == IInv /\ [Next]_vars => IInv'
<1> SUFFICES ASSUME IInv, [Next]_vars PROVE IInv'
  OBVIOUS
<1>1. CASE UNCHANGED vars
  BY <1>1
  DEF IInv, vars, TypeOK, Ledger!TypeOK, LockMatchesTransaction, ControlInv, NumberingInv
<1>2. ASSUME NEW c \in Client, Step(c) PROVE IInv'
  BY <1>2, BeginInv, CheckInv, InsertInv, ReceiptInv, GuardInv, CommitInv DEF Step
<1>. QED
  BY <1>1, <1>2, ReadAllInv, InvokeInv, ReturnInv, CrashInv DEF Next

THEOREM InvariantHolds == Spec => []IInv
BY InitInv, NextInv, PTL DEF Spec

\* The committed log is one either ledger could have written, whatever
\* processes append, are refused, roll back and die: well typed, each stream
\* numbered 1, 2, 3, ... in log order by all three formulas, and the write lock
\* held exactly while a transaction is open.
THEOREM LedgerSound == Spec => []LedgerIsSound
<1>1. IInv => LedgerIsSound
  BY WellNumberedAgrees, SameEvent
  DEF IInv, TypeOK, Ledger!TypeOK, NumberingInv, LedgerIsSound, StreamsWellNumbered,
      NumberingAgrees
<1>. QED  BY <1>1, InvariantHolds, PTL

----------------------------------------------------------------------------
(***************************************************************************)
(* What an open transaction of SqliteEventLedger sees: the committed log,  *)
(* which no other process can change while it holds the write lock, and    *)
(* after it the rows it inserted, numbered as EventLedger numbers a whole  *)
(* batch.  From that a guarded append saw everything, a decision is stored *)
(* whole and on the log it was computed from, the retry of a committed     *)
(* decision is not refused, and the transactions implement EventLedger,    *)
(* for any number of processes, streams, decisions and batches.            *)
(***************************************************************************)

\* The earlier events of a batch that go to stream s.
Before(content, i, s) == {j \in 1..(i - 1) : content[j] = s}

\* The number of the j-th event of a batch that is appended to a log.
NumberOf(log, content, j) ==
    NextByMax(log, content[j]) + Cardinality(Before(content, j, content[j]))

\* A working copy: the log, then one row for each id.
Extending(log, k, w) ==
    /\ Len(w.ids) <= Len(k.content)
    /\ Len(w.events) = Len(log) + Len(w.ids)
    /\ \A i \in 1..Len(log) : w.events[i] = log[i]
    /\ \A j \in 1..Len(w.ids) :
         /\ w.ids[j] = Len(log) + j
         /\ w.events[Len(log) + j] =
              [stream |-> k.content[j], sequence |-> NumberOf(log, k.content, j)]
         /\ k.content[j] \notin Malformed
    /\ \A s \in Stream :
         NextByMax(w.events, s) =
         NextByMax(log, s) + Cardinality(Before(k.content, Len(w.ids) + 1, s))

FreshIn(log, k) ==
    /\ k.check = "global" => Len(log) = k.base
    /\ k.check = "stream" => NextByMax(log, k.content[1]) =
                             NextByMax(SubSeq(log, 1, k.base), k.content[1])

Stored(dec, k, ids) ==
    IF k.decision = NoDecision THEN dec
    ELSE [dec EXCEPT ![k.decision] = [content |-> k.content, ids |-> ids]]

Writing(log, dec, k, w) ==
    /\ Extending(log, k, w)
    /\ FreshIn(log, k)
    /\ k.decision # NoDecision => dec[k.decision] = Ledger!NoReceipt

Written(log, dec, k, w) ==
    /\ Writing(log, dec, k, w)
    /\ Len(w.ids) = Len(k.content)
    /\ w.decisions = Stored(dec, k, w.ids)

\* A decision that was already stored is answered from its receipt.
Replayed(log, dec, k, w) ==
    /\ k.decision # NoDecision
    /\ dec[k.decision] = [content |-> k.content, ids |-> w.ids]
    /\ w.events = log /\ w.decisions = dec

\* What an open transaction sees, by its next statement.
View(log, dec, k, w, at) ==
    /\ at = "check" => w.events = log /\ w.decisions = dec
    /\ at \in {"insert", "receipt", "guard"} =>
         Writing(log, dec, k, w) /\ w.decisions = dec
    /\ at \in {"receipt", "guard"} => Len(w.ids) = Len(k.content)
    /\ at = "guard" => k.decision = NoDecision
    /\ at = "commit" => Written(log, dec, k, w) \/ Replayed(log, dec, k, w)

----------------------------------------------------------------------------
(* Logs and their beginnings.                                              *)

\* Every beginning of the log is well numbered, so that what a caller read
\* earlier can be counted as the log is.
Beginnings(log) == \A b \in 0..Len(log) : WellNumbered(SubSeq(log, 1, b))

LEMMA NextByMaxNat ==
    ASSUME NEW log, WellNumbered(log), NEW s \in Stream
    PROVE  NextByMax(log, s) \in Nat \ {0}
<1>1. PICK n \in 0..Len(log) : SequencesOf(log, s) = 1..n
  BY DEF WellNumbered, Dense
<1>2. CASE n \in Nat
  BY <1>1, <1>2, NextByMaxOfDense
<1>3. CASE n \notin Nat
  <2>1. n \in Int /\ n < 0
    BY <1>3
  <2>2. SequencesOf(log, s) = {}
    BY <1>1, <2>1
  <2>. QED  BY <2>2 DEF NextByMax
<1>. QED  BY <1>2, <1>3

LEMMA BeginningsGrow ==
    ASSUME NEW log \in Seq(Event), Beginnings(log), NEW e \in Event,
           WellNumbered(Append(log, e))
    PROVE  Beginnings(Append(log, e))
<1> DEFINE new == Append(log, e)
<1>1. Len(new) = Len(log) + 1 /\ SubSeq(new, 1, Len(new)) = new
  OBVIOUS
<1>2. \A b \in 0..Len(log) : SubSeq(new, 1, b) = SubSeq(log, 1, b)
  OBVIOUS
<1>3. SUFFICES ASSUME NEW b \in 0..Len(new) PROVE WellNumbered(SubSeq(new, 1, b))
  BY DEF Beginnings
<1>4. CASE b = Len(new)
  BY <1>1, <1>4
<1>5. CASE b # Len(new)
  <2>1. b \in 0..Len(log)
    BY <1>1, <1>3, <1>5
  <2>. QED  BY <1>2, <2>1 DEF Beginnings
<1>. QED  BY <1>4, <1>5

\* If a stream's next number is what it was, nothing was added to the stream.
LEMMA NothingBetween ==
    ASSUME NEW log \in Seq(Event), Beginnings(log), NEW b \in 0..Len(log),
           NEW s \in Stream, NextByMax(log, s) = NextByMax(SubSeq(log, 1, b), s),
           NEW i \in (b + 1)..Len(log)
    PROVE  log[i].stream # s
<1> DEFINE old == SubSeq(log, 1, b)
<1>1. /\ old \in Seq(Event) /\ Len(old) = b /\ \A j \in 1..b : old[j] = log[j]
      /\ DOMAIN old = 1..b /\ DOMAIN log = 1..Len(log) /\ Len(log) \in Nat
      /\ SubSeq(log, 1, Len(log)) = log
  OBVIOUS
<1>2. WellNumbered(old) /\ WellNumbered(log)
  <2>1. Len(log) \in 0..Len(log)
    BY <1>1
  <2>. QED  BY <1>1, <2>1 DEF Beginnings
<1>3. PICK n \in 0..Len(log) : SequencesOf(log, s) = 1..n
  BY <1>2 DEF WellNumbered, Dense
<1>4. PICK m \in 0..Len(old) : SequencesOf(old, s) = 1..m
  BY <1>2 DEF WellNumbered, Dense
<1>5. n \in Nat /\ m \in Nat
  BY <1>1, <1>3, <1>4
<1>6. n = m
  <2>1. NextByMax(log, s) = n + 1 /\ NextByMax(old, s) = m + 1
    BY <1>3, <1>4, <1>5, NextByMaxOfDense
  <2>. QED  BY <1>5, <2>1
<1>7. SUFFICES ASSUME log[i].stream = s PROVE FALSE
  OBVIOUS
<1>8. log[i].sequence \in SequencesOf(log, s)
  BY <1>1, <1>7 DEF SequencesOf
<1>9. log[i].sequence \in SequencesOf(old, s)
  BY <1>3, <1>4, <1>6, <1>8
<1>10. PICK j \in 1..b : old[j].stream = s /\ old[j].sequence = log[i].sequence
  BY <1>1, <1>9 DEF SequencesOf
<1>11. j \in DOMAIN log /\ i \in DOMAIN log /\ j < i
  BY <1>1
<1>12. log[j].sequence < log[i].sequence
  BY <1>1, <1>2, <1>7, <1>10, <1>11 DEF WellNumbered, Rising
<1>13. log[j].sequence = log[i].sequence /\ log[i].sequence \in Nat
  BY <1>1, <1>3, <1>8, <1>10
<1>. QED  BY <1>12, <1>13
----------------------------------------------------------------------------
(* Working copies.                                                         *)

LEMMA BeforeFinite ==
    ASSUME NEW content, NEW i \in Nat, NEW s
    PROVE  /\ IsFiniteSet(Before(content, i, s))
           /\ Cardinality(Before(content, i, s)) \in Nat
<1>1. IsFiniteSet(1..(i - 1))
  BY FS_Interval
<1>2. Before(content, i, s) \subseteq 1..(i - 1)
  BY DEF Before
<1>. QED  BY <1>1, <1>2, FS_Subset, FS_CardinalityType

\* A batch that goes on to stream s has one event more before the next.
LEMMA BeforeGrows ==
    ASSUME NEW content, NEW i \in Nat \ {0}, NEW s
    PROVE  Cardinality(Before(content, i + 1, s)) =
             Cardinality(Before(content, i, s)) + (IF content[i] = s THEN 1 ELSE 0)
<1>1. CASE content[i] = s
  <2>1. Before(content, i + 1, s) = Before(content, i, s) \union {i}
    BY <1>1 DEF Before
  <2>2. i \notin Before(content, i, s)
    BY DEF Before
  <2>. QED  BY <1>1, <2>1, <2>2, BeforeFinite, FS_AddElement
<1>2. CASE content[i] # s
  <2>1. Before(content, i + 1, s) = Before(content, i, s)
    BY <1>2 DEF Before
  <2>. QED  BY <1>2, <2>1, BeforeFinite
<1>. QED  BY <1>1, <1>2

\* A row raises the next number of its own stream, by one.
LEMMA RowCounts ==
    ASSUME NEW log \in Seq(Event), WellNumbered(log), NEW s \in Stream, NEW t \in Stream
    PROVE  NextByMax(Append(log, Row(log, s)), t) =
             NextByMax(log, t) + (IF s = t THEN 1 ELSE 0)
<1> DEFINE new == Append(log, Row(log, s))
<1>1. PICK n \in 0..Len(log) : SequencesOf(log, t) = 1..n
  BY DEF WellNumbered, Dense
<1>2. n \in Nat /\ NextByMax(log, t) = n + 1
  BY <1>1, NextByMaxOfDense
<1>3. /\ Row(log, s) \in Event /\ Len(log) \in Nat
      /\ DOMAIN new = 1..(Len(log) + 1) /\ DOMAIN log = 1..Len(log)
      /\ \A i \in 1..Len(log) : new[i] = log[i]
      /\ new[Len(log) + 1] = Row(log, s)
  BY InsertKeepsNumbering
<1>4. CASE s = t
  <2>1. SequencesOf(new, t) = SequencesOf(log, t) \union {n + 1}
    <3>1. Row(log, s) = [stream |-> t, sequence |-> n + 1]
      BY <1>2, <1>4 DEF Row
    <3>. QED  BY <1>3, <3>1 DEF SequencesOf
  <2>2. SequencesOf(new, t) = 1..(n + 1) /\ n + 1 \in Nat
    BY <1>1, <1>2, <2>1
  <2>3. NextByMax(new, t) = n + 1 + 1
    BY <2>2, NextByMaxOfDense
  <2>. QED  BY <1>2, <1>4, <2>3
<1>5. CASE s # t
  <2>1. SequencesOf(new, t) = SequencesOf(log, t)
    BY <1>3, <1>5 DEF SequencesOf, Row
  <2>2. NextByMax(new, t) = n + 1
    BY <1>1, <1>2, <2>1, NextByMaxOfDense
  <2>. QED  BY <1>2, <1>5, <2>2
<1>. QED  BY <1>4, <1>5

LEMMA NothingExtended ==
    ASSUME NEW log \in Seq(Event), WellNumbered(log), NEW k, k.content \in Seq(Stream),
           NEW w, w.events = log, w.ids = <<>>
    PROVE  Extending(log, k, w)
<1>1. \A s \in Stream : Cardinality(Before(k.content, 1, s)) = 0
  <2>1. \A s \in Stream : Before(k.content, 1, s) = {}
    BY DEF Before
  <2>. QED  BY <2>1, FS_EmptySet
<1>2. \A s \in Stream : NextByMax(log, s) \in Nat
  BY NextByMaxNat
<1>3. Len(w.ids) = 0 /\ Len(k.content) \in Nat /\ Len(log) \in Nat
  OBVIOUS
<1>. QED  BY <1>1, <1>2, <1>3 DEF Extending

\* InsertEvent extends a working copy by the batch's next event.
LEMMA InsertExtends ==
    ASSUME NEW log \in Seq(Event), WellNumbered(log), NEW k, k.content \in Seq(Stream),
           NEW w \in Work, w.events \in Seq(Event), WellNumbered(w.events),
           Extending(log, k, w),
           Len(w.ids) < Len(k.content),
           NEW s, s = k.content[Len(w.ids) + 1], s \notin Malformed,
           NEW x, x.events = Append(w.events, Row(w.events, s)),
           x.ids = Append(w.ids, Len(w.events) + 1)
    PROVE  Extending(log, k, x)
<1> DEFINE n == Len(w.ids)
<1>1. /\ n \in Nat /\ w.ids \in Seq(Nat) /\ Len(log) \in Nat
      /\ Len(k.content) \in Nat /\ n + 1 \in 1..Len(k.content) /\ s \in Stream
  BY DEF Work
<1>2. Row(w.events, s) \in Event
  BY <1>1, InsertKeepsNumbering
<1>3. /\ Len(x.ids) = n + 1 /\ x.ids[n + 1] = Len(w.events) + 1
      /\ \A j \in 1..n : x.ids[j] = w.ids[j]
  BY <1>1
<1>4. /\ Len(w.events) = Len(log) + n
      /\ Len(x.events) = Len(log) + n + 1
      /\ x.events[Len(log) + n + 1] = Row(w.events, s)
      /\ \A i \in 1..(Len(log) + n) : x.events[i] = w.events[i]
  BY <1>1, <1>2 DEF Extending
<1>5. \A t \in Stream : /\ NextByMax(log, t) \in Nat
                        /\ Cardinality(Before(k.content, n + 1, t)) \in Nat
  BY <1>1, NextByMaxNat, BeforeFinite
<1>6. Row(w.events, s) = [stream |-> s, sequence |-> NumberOf(log, k.content, n + 1)]
  BY <1>1 DEF Row, NumberOf, Extending
<1>7. \A i \in 1..Len(log) : x.events[i] = log[i]
  BY <1>1, <1>4 DEF Extending
<1>8. ASSUME NEW j \in 1..(n + 1)
      PROVE  /\ x.ids[j] = Len(log) + j
             /\ x.events[Len(log) + j] =
                  [stream |-> k.content[j], sequence |-> NumberOf(log, k.content, j)]
             /\ k.content[j] \notin Malformed
  <2>1. CASE j = n + 1
    BY <1>1, <1>3, <1>4, <1>6, <2>1
  <2>2. CASE j # n + 1
    <3>1. j \in 1..n /\ Len(log) + j \in 1..(Len(log) + n)
      BY <1>1, <2>2
    <3>. QED  BY <1>3, <1>4, <3>1 DEF Extending
  <2>. QED  BY <2>1, <2>2
<1>9. ASSUME NEW t \in Stream
      PROVE  NextByMax(x.events, t) =
             NextByMax(log, t) + Cardinality(Before(k.content, n + 1 + 1, t))
  <2> DEFINE more == IF s = t THEN 1 ELSE 0
  <2>1. NextByMax(x.events, t) = NextByMax(w.events, t) + more
    BY <1>1, RowCounts
  <2>2. NextByMax(w.events, t) = NextByMax(log, t) + Cardinality(Before(k.content, n + 1, t))
    BY DEF Extending
  <2>3. Cardinality(Before(k.content, n + 1 + 1, t)) =
          Cardinality(Before(k.content, n + 1, t)) + more
    <3>1. n + 1 \in Nat \ {0} /\ k.content[n + 1] = s
      BY <1>1
    <3>. QED  BY <3>1, BeforeGrows
  <2>4. more \in Nat
    OBVIOUS
  <2> HIDE DEF more
  <2>. QED  BY <1>5, <2>1, <2>2, <2>3, <2>4
<1>. QED  BY <1>1, <1>3, <1>4, <1>7, <1>8, <1>9 DEF Extending
----------------------------------------------------------------------------
(* The inductive invariant.                                                *)

\* What an append that was answered with position id of the log had read.
Saw(log, k, id) ==
    /\ id \in 1..Len(log)
    /\ k.check = "global" => id = k.base + 1
    /\ k.check = "stream" => \A i \in (k.base + 1)..(id - 1) : log[i].stream # k.content[1]

VInv ==
    /\ Beginnings(events) /\ \A c \in Client : Beginnings(work[c].events)
    /\ \A c \in Client : seen[c] <= Len(events) /\ call[c].base <= Len(events)
    /\ \A c \in Client :
         pc[c] \in Open => View(events, decisions, call[c], work[c], pc[c])
    /\ \A c \in Client : reply[c].why = "ok" /\ call[c].decision = NoDecision =>
                          Saw(events, call[c], reply[c].ids[1])
    /\ DecisionsAreWhole

LEMMA Empty == Beginnings(<<>>)
<1>1. \A b \in 0..Len(<<>>) : SubSeq(<<>>, 1, b) = <<>>
  OBVIOUS
<1>. QED  BY <1>1, EmptyWellNumbered DEF Beginnings

\* The types a step of c starts from.
LEMMA Types ==
    ASSUME IInv, NEW c \in Client
    PROVE  /\ events \in Seq(Event) /\ Len(events) \in Nat /\ WellNumbered(events)
           /\ work \in [Client -> Work] /\ work[c].events \in Seq(Event)
           /\ WellNumbered(work[c].events) /\ work[c].ids \in Seq(Nat)
           /\ pc \in [Client -> Statement] /\ seen \in [Client -> Nat]
           /\ call \in [Client -> Ledger!Call \union {Ledger!NoCall}]
           /\ reply \in [Client -> Ledger!Reply \union {Ledger!NoReply}]
           /\ decisions \in [Decision -> Ledger!Receipt \union {Ledger!NoReceipt}]
           /\ call[c].base \in Nat
BY SameEvent DEF IInv, TypeOK, Ledger!TypeOK, NumberingInv, Work, Ledger!Call, Ledger!NoCall

\* A step of c that commits nothing.
LEMMA Uncommitted ==
    ASSUME IInv, VInv, NEW c \in Client, UNCHANGED <<events, decisions>>,
           \A d \in Client \ {c} :
               /\ work'[d] = work[d] /\ call'[d] = call[d] /\ pc'[d] = pc[d]
               /\ reply'[d] = reply[d] /\ seen'[d] = seen[d],
           Beginnings(work'[c].events),
           seen'[c] <= Len(events), call'[c].base <= Len(events),
           reply'[c].why = "ok" => reply'[c] = reply[c] /\ call'[c] = call[c],
           pc'[c] \in Open => View(events, decisions, call'[c], work'[c], pc'[c])
    PROVE  VInv'
<1>1. \A d \in Client : Beginnings(work'[d].events)
  BY DEF VInv
<1>2. \A d \in Client : seen'[d] <= Len(events) /\ call'[d].base <= Len(events)
  BY DEF VInv
<1>3. \A d \in Client :
        pc'[d] \in Open => View(events, decisions, call'[d], work'[d], pc'[d])
  BY DEF VInv
<1>4. \A d \in Client : reply'[d].why = "ok" /\ call'[d].decision = NoDecision =>
                        Saw(events, call'[d], reply'[d].ids[1])
  BY DEF VInv
<1>5. DecisionsAreWhole'
  BY DEF VInv, DecisionsAreWhole
<1>. QED  BY <1>1, <1>2, <1>3, <1>4, <1>5 DEF VInv

LEMMA AbortSees ==
    ASSUME IInv, VInv, NEW c \in Client, NEW why \in Ledger!Failure, Abort(c, why),
           UNCHANGED <<events, decisions, seen, call>>
    PROVE  VInv'
<1>1. /\ work' = [work EXCEPT ![c] = NoWork] /\ pc' = [pc EXCEPT ![c] = "done"]
      /\ reply' = [reply EXCEPT ![c] = [why |-> why, ids |-> <<>>]]
  BY DEF Abort, Goto, Ledger!Answer
<1>2. work'[c].events = <<>> /\ pc'[c] \notin Open /\ reply'[c].why # "ok"
  BY <1>1, Types DEF NoWork, Open, Ledger!Failure
<1>3. \A d \in Client \ {c} : work'[d] = work[d] /\ pc'[d] = pc[d] /\ reply'[d] = reply[d]
  BY <1>1, Types
<1>. QED  BY <1>2, <1>3, Empty, Uncommitted DEF VInv

LEMMA CallerSees ==
    ASSUME IInv, VInv, NEW c \in Client,
           \/ ReadAll(c)
           \/ \E k \in Ledger!CallsFrom(seen[c]) : Invoke(c, k)
           \/ Return(c)
           \/ Crash(c)
    PROVE  VInv'
<1>1. CASE ReadAll(c)
  <2>1. /\ seen' = [seen EXCEPT ![c] = Len(events)]
        /\ UNCHANGED <<events, decisions, call, reply, pc, work>>
    BY <1>1 DEF ReadAll, Ledger!ReadAll
  <2>2. seen'[c] <= Len(events) /\ \A d \in Client \ {c} : seen'[d] = seen[d]
    BY <2>1, Types
  <2>. QED  BY <2>1, <2>2, Uncommitted DEF VInv
<1>2. ASSUME NEW k \in Ledger!CallsFrom(seen[c]), Invoke(c, k) PROVE VInv'
  <2>1. /\ call' = [call EXCEPT ![c] = k] /\ k.base = seen[c]
        /\ UNCHANGED <<events, decisions, seen, reply, pc, work>>
        /\ call[c] = Ledger!NoCall /\ reply[c] = Ledger!NoReply
    BY <1>2 DEF Invoke, Ledger!Invoke, Ledger!Idle
  <2>2. pc[c] \notin Open /\ reply[c].why # "ok"
    BY <2>1 DEF IInv, ControlInv, Ledger!NoReply
  <2>3. call'[c].base <= Len(events) /\ \A d \in Client \ {c} : call'[d] = call[d]
    BY <2>1, Types DEF VInv
  <2>. QED  BY <2>1, <2>2, <2>3, Uncommitted DEF VInv
<1>3. CASE Return(c) \/ Crash(c)
  <2>1. /\ call' = [call EXCEPT ![c] = Ledger!NoCall]
        /\ reply' = [reply EXCEPT ![c] = Ledger!NoReply]
        /\ pc' = [pc EXCEPT ![c] = "begin"]
        /\ UNCHANGED <<events, decisions>>
    BY <1>3 DEF Return, Crash, Ledger!Return, Ledger!Restart, Goto
  <2>2. /\ seen'[c] \in {seen[c], 0} /\ \A d \in Client \ {c} : seen'[d] = seen[d]
        /\ work'[c].events \in {work[c].events, <<>>}
        /\ \A d \in Client \ {c} : work'[d] = work[d]
    BY <1>3, Types DEF Return, Crash, Ledger!Return, Ledger!Restart, NoWork
  <2>3. Beginnings(work'[c].events) /\ seen'[c] <= Len(events)
    BY <2>2, Types, Empty DEF VInv
  <2>4. /\ call'[c].base = 0 /\ reply'[c].why # "ok" /\ pc'[c] \notin Open
        /\ \A d \in Client \ {c} : /\ call'[d] = call[d] /\ reply'[d] = reply[d]
                                   /\ pc'[d] = pc[d]
    BY <2>1, Types DEF Ledger!NoCall, Ledger!NoReply, Open
  <2>5. call'[c].base <= Len(events)
    BY <2>4, Types
  <2>. QED  BY <2>1, <2>2, <2>3, <2>4, <2>5, Uncommitted
<1>. QED  BY <1>1, <1>2, <1>3

\* A statement of c's own transaction that does not commit.
LEMMA Moves ==
    ASSUME IInv, VInv, NEW c \in Client, NEW w \in Work, NEW at \in Statement,
           UNCHANGED <<events, decisions, seen, call, reply>>,
           work' = [work EXCEPT ![c] = w], pc' = [pc EXCEPT ![c] = at],
           Beginnings(w.events), View(events, decisions, call[c], w, at)
    PROVE  VInv'
<1>1. /\ work'[c] = w /\ pc'[c] = at
      /\ \A d \in Client \ {c} : work'[d] = work[d] /\ pc'[d] = pc[d]
  BY Types
<1>. QED  BY <1>1, Uncommitted DEF VInv

LEMMA BeginSees == ASSUME IInv, VInv, NEW c \in Client, Begin(c) PROVE VInv'
<1>1. CASE lock = NoClient
  <2> DEFINE w == [events |-> events, decisions |-> decisions, ids |-> <<>>]
  <2>1. /\ work' = [work EXCEPT ![c] = w] /\ pc' = [pc EXCEPT ![c] = "check"]
        /\ UNCHANGED <<events, decisions, seen, call, reply>>
    BY <1>1 DEF Begin, Goto, tableVars, callVars
  <2>2. w \in Work /\ "check" \in Statement
    BY Types, SameEvent DEF Work, Statement
  <2>3. View(events, decisions, call[c], w, "check") /\ Beginnings(w.events)
    BY DEF View, VInv
  <2>. QED  BY <2>1, <2>2, <2>3, Moves
<1>2. CASE lock # NoClient
  <2>1. "busy" \in Ledger!Failure
    BY DEF Ledger!Failure
  <2>. QED  BY <1>2, <2>1, AbortSees DEF Begin, tableVars, callVars
<1>. QED  BY <1>1, <1>2

\* The call an open transaction executes.
LEMMA OpenCall ==
    ASSUME IInv, NEW c \in Client, pc[c] \in Open
    PROVE  /\ call[c] # Ledger!NoCall /\ reply[c] = Ledger!NoReply /\ call[c] \in Ledger!Call
           /\ call[c].content \in Content /\ call[c].content \in Seq(Stream)
           /\ Len(call[c].content) > 0 /\ call[c].content # <<>>
           /\ call[c].content[1] \in Stream
           /\ call[c].decision # NoDecision =>
                 call[c].decision \in Decision /\ call[c].check = "global"
           /\ lock = c
<1>1. call[c] # Ledger!NoCall /\ reply[c] = Ledger!NoReply /\ call[c] \in Ledger!Call
  BY Types DEF IInv, ControlInv
<1>2. /\ call[c].content \in Content /\ call[c].content \in Seq(Stream)
      /\ Len(call[c].content) > 0
      /\ call[c].decision # NoDecision => call[c].decision \in Decision
  BY <1>1, CallShape
<1>3. call[c].decision # NoDecision => call[c].check = "global"
  BY <1>1 DEF Ledger!Call
<1>4. call[c].content # <<>> /\ call[c].content[1] \in Stream
  BY <1>2
<1>. QED  BY <1>1, <1>2, <1>3, <1>4 DEF IInv, LockMatchesTransaction

LEMMA CheckSees == ASSUME IInv, VInv, NEW c \in Client, CheckPreconditions(c) PROVE VInv'
<1> DEFINE k == call[c]
           stored == IF k.decision = NoDecision THEN Ledger!NoReceipt
                     ELSE work[c].decisions[k.decision]
<1>1. /\ pc[c] = "check" /\ pc[c] \in Open
      /\ UNCHANGED <<events, decisions, seen, call>>
  BY DEF CheckPreconditions, tableVars, callVars, Open, Statement
<1>2. /\ work[c].events = events /\ work[c].decisions = decisions
      /\ work[c].ids = <<>>
  BY <1>1 DEF VInv, View, IInv, ControlInv
<1>3. CASE \E why \in {"different", "stale"} : Abort(c, why)
  BY <1>1, <1>3, AbortSees DEF Ledger!Failure
<1>4. CASE /\ stored # Ledger!NoReceipt /\ stored.content = k.content
           /\ work' = [work EXCEPT ![c].ids = stored.ids]
           /\ Goto(c, "commit") /\ UNCHANGED <<lock, reply>>
  <2>1. k.decision # NoDecision /\ k.decision \in Decision
    BY <1>1, <1>4, OpenCall
  <2>2. stored = decisions[k.decision] /\ stored \in Ledger!Receipt
    BY <1>2, <1>4, <2>1, Types
  <2>3. stored = [content |-> k.content, ids |-> stored.ids] /\ stored.ids \in Seq(Nat)
    BY <1>4, <2>2 DEF Ledger!Receipt
  <2> DEFINE w == [events |-> events, decisions |-> decisions, ids |-> stored.ids]
  <2>4. w \in Work
    BY <2>3, Types, SameEvent DEF Work
  <2>5. work' = [work EXCEPT ![c] = w]
    <3> HIDE DEF stored
    <3>1. work[c] \in Work /\ DOMAIN work = Client
      BY Types
    <3>2. [work[c] EXCEPT !.ids = stored.ids] = w
      BY <1>2, <3>1 DEF Work
    <3>3. work' = [work EXCEPT ![c] = [work[c] EXCEPT !.ids = stored.ids]]
      BY <1>4, <3>1
    <3>. QED  BY <3>2, <3>3
  <2>6. Replayed(events, decisions, k, w)
    BY <2>1, <2>2, <2>3 DEF Replayed
  <2>7. View(events, decisions, k, w, "commit") /\ Beginnings(w.events)
    BY <2>6 DEF View, VInv
  <2>8. "commit" \in Statement
    BY DEF Statement
  <2> HIDE DEF w, stored
  <2>. QED  BY <1>1, <1>4, <2>4, <2>5, <2>7, <2>8, Moves DEF Goto
<1>5. CASE /\ stored = Ledger!NoReceipt /\ Fresh(k, work[c])
           /\ Goto(c, "insert") /\ UNCHANGED <<lock, work, reply>>
  <2>1. FreshIn(events, k)
    BY <1>2, <1>5 DEF Fresh, FreshIn
  <2>2. k.decision # NoDecision => decisions[k.decision] = Ledger!NoReceipt
    BY <1>2, <1>5
  <2>3. Extending(events, k, work[c])
    BY <1>1, <1>2, NothingExtended, Types, OpenCall
  <2>4. View(events, decisions, k, work[c], "insert")
    BY <1>2, <2>1, <2>2, <2>3 DEF View, Writing
  <2>5. work' = [work EXCEPT ![c] = work[c]] /\ work[c] \in Work /\ "insert" \in Statement
    BY <1>5, Types DEF Statement
  <2>6. Beginnings(work[c].events)
    BY DEF VInv
  <2>. QED  BY <1>1, <1>5, <2>4, <2>5, <2>6, Moves DEF Goto
<1>. QED  BY <1>3, <1>4, <1>5 DEF CheckPreconditions

LEMMA InsertSees == ASSUME IInv, VInv, NEW c \in Client, InsertEvent(c) PROVE VInv'
<1> DEFINE k == call[c]
           n == Len(work[c].ids)
           s == k.content[n + 1]
           row == Row(work[c].events, s)
           next == IF n + 1 < Len(k.content) THEN "insert"
                   ELSE IF k.decision # NoDecision THEN "receipt" ELSE "guard"
<1>1. /\ pc[c] = "insert" /\ pc[c] \in Open
      /\ UNCHANGED <<events, decisions, seen, call>>
      /\ n < Len(k.content)
  BY DEF InsertEvent, tableVars, callVars, Open, Statement, IInv, ControlInv
<1>2. /\ Writing(events, decisions, k, work[c]) /\ work[c].decisions = decisions
      /\ Beginnings(work[c].events)
  BY <1>1 DEF VInv, View
<1>3. CASE Abort(c, "invalid")
  BY <1>1, <1>3, AbortSees DEF Ledger!Failure
<1>4. CASE /\ s \notin Malformed
           /\ work' = [work EXCEPT ![c].events = Append(@, row),
                                  ![c].ids = Append(@, Len(work[c].events) + 1)]
           /\ Goto(c, next) /\ UNCHANGED <<lock, reply>>
  <2>1. n \in Nat /\ Len(k.content) \in Nat /\ s \in Stream /\ work[c] \in Work
    <3>1. n + 1 \in 1..Len(k.content)
      BY <1>1, OpenCall, Types
    <3>. QED  BY <1>1, <3>1, OpenCall, Types
  <2>2. row \in Event /\ WellNumbered(Append(work[c].events, row))
    BY <2>1, Types, InsertKeepsNumbering
  <2> DEFINE w == [events    |-> Append(work[c].events, row),
                   decisions |-> decisions,
                   ids       |-> Append(work[c].ids, Len(work[c].events) + 1)]
  <2>3. w \in Work
    BY <2>2, Types, SameEvent DEF Work
  <2>4. work' = [work EXCEPT ![c] = w]
    <3> HIDE DEF row, next
    <3>1. work'[c] = [work[c] EXCEPT !.events = Append(@, row),
                                     !.ids = Append(@, Len(work[c].events) + 1)]
      BY <1>4, Types
    <3>2. work'[c] = w
      BY <1>2, <2>1, <3>1 DEF Work
    <3>3. DOMAIN work' = Client /\ \A d \in Client \ {c} : work'[d] = work[d]
      BY <1>4, Types
    <3>. QED  BY <1>4, <3>2, <3>3, Types
  <2>5. Beginnings(w.events)
    BY <1>2, <2>2, Types, BeginningsGrow
  <2>6. Extending(events, k, w)
    BY <1>1, <1>2, <1>4, <2>1, Types, OpenCall, InsertExtends DEF Writing
  <2>7. Len(w.ids) = n + 1
    BY Types
  <2>8. View(events, decisions, k, w, next)
    <3>1. next # "insert" => Len(w.ids) = Len(k.content)
      BY <1>1, <2>1, <2>7
    <3>2. Writing(events, decisions, k, w)
      BY <1>2, <2>6 DEF Writing
    <3>. QED  BY <3>1, <3>2 DEF View
  <2>9. next \in Statement
    BY DEF Statement
  <2>10. pc' = [pc EXCEPT ![c] = next]
    BY <1>4 DEF Goto
  <2> HIDE DEF w, next, row
  <2>. QED  BY <1>1, <1>4, <2>3, <2>4, <2>5, <2>8, <2>9, <2>10, Moves
<1>. QED  BY <1>3, <1>4 DEF InsertEvent, Row

LEMMA ReceiptSees == ASSUME IInv, VInv, NEW c \in Client, InsertReceipt(c) PROVE VInv'
<1> DEFINE k == call[c]
<1>1. /\ pc[c] = "receipt" /\ pc[c] \in Open /\ k.decision # NoDecision
      /\ UNCHANGED <<events, decisions, seen, call, reply>>
      /\ pc' = [pc EXCEPT ![c] = "commit"]
  BY DEF InsertReceipt, tableVars, callVars, Open, Statement, IInv, ControlInv, Goto
<1>2. /\ Writing(events, decisions, k, work[c]) /\ work[c].decisions = decisions
      /\ Len(work[c].ids) = Len(k.content) /\ Beginnings(work[c].events)
  BY <1>1 DEF VInv, View
<1>3. k.decision \in Decision /\ k.content \in Content
  BY <1>1, OpenCall
<1> DEFINE w == [events |-> work[c].events, decisions |-> Stored(decisions, k, work[c].ids),
                 ids |-> work[c].ids]
<1>4. w \in Work
  <2>1. [content |-> k.content, ids |-> work[c].ids] \in Ledger!Receipt
    BY <1>3, Types DEF Ledger!Receipt
  <2>2. w.decisions \in [Decision -> Ledger!Receipt \union {Ledger!NoReceipt}]
    BY <1>1, <2>1, Types DEF Stored
  <2>. QED  BY <2>2, Types, SameEvent DEF Work
<1>5. work' = [work EXCEPT ![c] = w]
  <2>1. work' = [work EXCEPT ![c].decisions[k.decision] =
                    [content |-> k.content, ids |-> work[c].ids]]
    BY DEF InsertReceipt
  <2>2. work[c].decisions = decisions /\ work[c] \in Work
    BY <1>2, Types
  <2>3. work'[c] = [work[c] EXCEPT !.decisions =
                      [decisions EXCEPT ![k.decision] =
                          [content |-> k.content, ids |-> work[c].ids]]]
    BY <2>1, <2>2, Types
  <2>4. work'[c] = w
    BY <1>1, <2>2, <2>3 DEF Work, Stored
  <2>5. DOMAIN work' = Client /\ \A d \in Client \ {c} : work'[d] = work[d]
    BY <2>1, Types
  <2>. QED  BY <2>1, <2>4, <2>5, Types
<1>6. Written(events, decisions, k, w)
  BY <1>2 DEF Written, Writing, Extending
<1>7. View(events, decisions, k, w, "commit") /\ "commit" \in Statement
  BY <1>6 DEF View, Statement
<1> HIDE DEF w
<1>. QED  BY <1>1, <1>2, <1>4, <1>5, <1>7, Moves DEF w

LEMMA GuardSees == ASSUME IInv, VInv, NEW c \in Client, PrecommitGuard(c) PROVE VInv'
<1>1. /\ pc[c] = "guard" /\ UNCHANGED <<events, decisions, seen, call>>
      /\ pc[c] \in Open
  BY DEF PrecommitGuard, tableVars, callVars, Open, Statement
<1>2. CASE Abort(c, "guard")
  BY <1>1, <1>2, AbortSees DEF Ledger!Failure
<1>3. CASE Goto(c, "commit") /\ UNCHANGED <<lock, work, reply>>
  <2>1. Written(events, decisions, call[c], work[c])
    BY <1>1 DEF VInv, View, Written, Stored
  <2>2. View(events, decisions, call[c], work[c], "commit") /\ "commit" \in Statement
    BY <2>1 DEF View, Statement
  <2>3. work' = [work EXCEPT ![c] = work[c]] /\ work[c] \in Work /\ Beginnings(work[c].events)
    BY <1>3, Types DEF VInv
  <2>. QED  BY <1>1, <1>3, <2>2, <2>3, Moves DEF Goto
<1>. QED  BY <1>2, <1>3 DEF PrecommitGuard

\* What a guarded append saw stays seen as the log grows.
LEMMA SawGrows ==
    ASSUME NEW log \in Seq(Event), NEW new \in Seq(Event), Len(log) <= Len(new),
           \A i \in 1..Len(log) : new[i] = log[i], NEW k, k.base \in Nat,
           NEW id, Saw(log, k, id)
    PROVE  Saw(new, k, id)
<1>1. Len(log) \in Nat /\ Len(new) \in Nat /\ id \in 1..Len(log) /\ id \in Nat
  BY DEF Saw
<1>2. \A i \in (k.base + 1)..(id - 1) : i \in 1..Len(log)
  BY <1>1
<1>3. id \in 1..Len(new)
  BY <1>1
<1>. QED  BY <1>1, <1>2, <1>3 DEF Saw

\* A committed transaction that was guarded saw everything.
LEMMA WrittenSaw ==
    ASSUME NEW log \in Seq(Event), Beginnings(log), NEW k, k.base \in 0..Len(log),
           k.content \in Seq(Stream), Len(k.content) > 0,
           NEW dec, NEW w \in Work, Written(log, dec, k, w)
    PROVE  Saw(w.events, k, w.ids[1])
<1>1. /\ Len(log) \in Nat /\ Len(k.content) \in Nat /\ 1 \in 1..Len(k.content)
      /\ k.content[1] \in Stream
  OBVIOUS
<1>2. /\ Extending(log, k, w) /\ FreshIn(log, k) /\ Len(w.ids) = Len(k.content)
  BY DEF Written, Writing
<1>3. w.ids[1] = Len(log) + 1 /\ Len(w.events) = Len(log) + Len(k.content)
  BY <1>1, <1>2 DEF Extending
<1>4. ASSUME k.check = "stream", NEW i \in (k.base + 1)..Len(log)
      PROVE  w.events[i].stream # k.content[1]
  <2>1. log[i].stream # k.content[1]
    BY <1>1, <1>2, <1>4, NothingBetween DEF FreshIn
  <2>2. i \in 1..Len(log) /\ w.events[i] = log[i]
    BY <1>1, <1>2 DEF Extending
  <2>. QED  BY <2>1, <2>2
<1>5. w.ids[1] \in 1..Len(w.events) /\ w.ids[1] - 1 = Len(log)
  BY <1>1, <1>3
<1>. QED  BY <1>2, <1>3, <1>4, <1>5 DEF Saw, FreshIn

\* The stored decisions of a log: DecisionsAreWhole of a state.
Whole(log, dec) ==
    \A d \in Decision :
        LET r == dec[d] IN
        r # Ledger!NoReceipt =>
            /\ Len(r.ids) = Len(r.content)
            /\ \A i \in DOMAIN r.ids : /\ r.ids[i] = r.ids[1] + i - 1
                                       /\ r.ids[i] \in DOMAIN log
                                       /\ log[r.ids[i]].stream = r.content[i]
            /\ \A e \in Decision \ {d} :
                 Range(r.ids) \intersect Range(dec[e].ids) = {}

\* A committed transaction adds at most its own decision, on new rows.
LEMMA WrittenWhole ==
    ASSUME NEW log \in Seq(Event),
           NEW dec \in [Decision -> Ledger!Receipt \union {Ledger!NoReceipt}],
           Whole(log, dec), NEW k, k.content \in Seq(Stream),
           k.decision # NoDecision => k.decision \in Decision,
           NEW w \in Work, Written(log, dec, k, w)
    PROVE  Whole(w.events, w.decisions)
<1>1. /\ Extending(log, k, w) /\ Len(w.ids) = Len(k.content)
      /\ w.decisions = Stored(dec, k, w.ids)
  BY DEF Written, Writing
<1>2. /\ Len(log) \in Nat /\ DOMAIN log = 1..Len(log) /\ w.events \in Seq(Event)
      /\ w.ids \in Seq(Nat) /\ DOMAIN w.ids = 1..Len(w.ids) /\ Len(w.ids) \in Nat
      /\ DOMAIN w.events = 1..Len(w.events)
  BY SameEvent DEF Work
<1>3. \A i \in DOMAIN log : i \in DOMAIN w.events /\ w.events[i] = log[i]
  BY <1>1, <1>2 DEF Extending
<1>4. \A i \in DOMAIN w.ids : /\ w.ids[i] = Len(log) + i
                              /\ w.ids[i] \in DOMAIN w.events
                              /\ w.events[w.ids[i]].stream = k.content[i]
  <2>1. SUFFICES ASSUME NEW i \in 1..Len(w.ids)
                 PROVE  /\ w.ids[i] = Len(log) + i
                        /\ w.ids[i] \in DOMAIN w.events
                        /\ w.events[w.ids[i]].stream = k.content[i]
    BY <1>2
  <2>2. /\ w.ids[i] = Len(log) + i
        /\ w.events[Len(log) + i] =
              [stream |-> k.content[i], sequence |-> NumberOf(log, k.content, i)]
        /\ Len(w.events) = Len(log) + Len(w.ids)
    BY <1>1 DEF Extending
  <2>3. Len(log) + i \in 1..Len(w.events)
    BY <1>2, <2>2
  <2>. QED  BY <1>2, <2>2, <2>3
<1>5. ASSUME NEW e \in Decision PROVE Range(dec[e].ids) \subseteq DOMAIN log
  <2>1. CASE dec[e] = Ledger!NoReceipt
    BY <2>1 DEF Ledger!NoReceipt, Range
  <2>2. CASE dec[e] # Ledger!NoReceipt
    BY <2>2 DEF Whole, Range
  <2>. QED  BY <2>1, <2>2
<1>6. Range(w.ids) \intersect DOMAIN log = {}
  BY <1>2, <1>4 DEF Range
<1>7. CASE k.decision = NoDecision
  <2>1. w.decisions = dec
    BY <1>1, <1>7 DEF Stored
  <2>2. SUFFICES ASSUME NEW d \in Decision, dec[d] # Ledger!NoReceipt
                 PROVE  LET r == dec[d] IN
                        /\ Len(r.ids) = Len(r.content)
                        /\ \A i \in DOMAIN r.ids : /\ r.ids[i] = r.ids[1] + i - 1
                                                   /\ r.ids[i] \in DOMAIN w.events
                                                   /\ w.events[r.ids[i]].stream = r.content[i]
                        /\ \A e \in Decision \ {d} :
                             Range(r.ids) \intersect Range(dec[e].ids) = {}
    BY <2>1 DEF Whole
  <2>. QED  BY <1>3, <2>2 DEF Whole
<1>8. CASE k.decision # NoDecision
  <2> DEFINE q == k.decision
             new == [content |-> k.content, ids |-> w.ids]
  <2>1. /\ w.decisions = [dec EXCEPT ![q] = new] /\ q \in Decision
        /\ w.decisions[q] = new /\ \A e \in Decision \ {q} : w.decisions[e] = dec[e]
    BY <1>1, <1>8 DEF Stored
  <2>2. SUFFICES ASSUME NEW d \in Decision, w.decisions[d] # Ledger!NoReceipt
                 PROVE  LET r == w.decisions[d] IN
                        /\ Len(r.ids) = Len(r.content)
                        /\ \A i \in DOMAIN r.ids : /\ r.ids[i] = r.ids[1] + i - 1
                                                   /\ r.ids[i] \in DOMAIN w.events
                                                   /\ w.events[r.ids[i]].stream = r.content[i]
                        /\ \A e \in Decision \ {d} :
                             Range(r.ids) \intersect Range(w.decisions[e].ids) = {}
    BY DEF Whole
  <2>3. CASE d = q
    <3>1. \A e \in Decision \ {d} : Range(w.ids) \intersect Range(w.decisions[e].ids) = {}
      BY <1>5, <1>6, <2>1, <2>3
    <3>2. \A i \in DOMAIN w.ids : w.ids[i] = w.ids[1] + i - 1
      <4>1. SUFFICES ASSUME NEW i \in 1..Len(w.ids) PROVE w.ids[i] = w.ids[1] + i - 1
        BY <1>2
      <4>2. 1 \in 1..Len(w.ids) /\ i \in Nat
        BY <1>2
      <4>3. w.ids[1] = Len(log) + 1 /\ w.ids[i] = Len(log) + i
        BY <1>2, <1>4, <4>2
      <4>. QED  BY <1>2, <4>2, <4>3
    <3>. QED  BY <1>1, <1>4, <2>1, <2>3, <3>1, <3>2
  <2>4. CASE d # q
    <3>1. /\ w.decisions[d] = dec[d] /\ dec[d] # Ledger!NoReceipt
          /\ Range(dec[d].ids) \subseteq DOMAIN log
      BY <1>5, <2>1, <2>2, <2>4
    <3>2. \A e \in Decision \ {d} : Range(dec[d].ids) \intersect Range(w.decisions[e].ids) = {}
      <4>1. Range(dec[d].ids) \intersect Range(w.decisions[q].ids) = {}
        BY <1>6, <2>1, <3>1
      <4>. QED  BY <2>1, <3>1, <4>1 DEF Whole
    <3>. QED  BY <1>3, <3>1, <3>2 DEF Whole
  <2>. QED  BY <2>3, <2>4
<1>. QED  BY <1>7, <1>8

LEMMA CommitSees == ASSUME IInv, VInv, NEW c \in Client, Commit(c) PROVE VInv'
<1>1. /\ pc[c] = "commit" /\ pc[c] \in Open /\ UNCHANGED <<seen, call>>
  BY DEF Commit, callVars, Open, Statement
<1>2. CASE Abort(c, "busy") /\ UNCHANGED tableVars
  BY <1>1, <1>2, AbortSees DEF Ledger!Failure, tableVars
<1>3. CASE /\ events' = work[c].events /\ decisions' = work[c].decisions
           /\ FreeLock(c) /\ Ledger!Answer(c, "ok", work[c].ids)
           /\ work' = [work EXCEPT ![c] = NoWork] /\ Goto(c, "done")
  <2> DEFINE k == call[c]
             w == work[c]
  <2>1. Written(events, decisions, k, w) \/ Replayed(events, decisions, k, w)
    BY <1>1 DEF VInv, View
  <2>2. \A d \in Client : pc'[d] \notin Open
    <3>1. \A d \in Client \ {c} : pc[d] \notin Open
      BY <1>1, OpenCall DEF IInv, LockMatchesTransaction
    <3>. QED  BY <1>3, <3>1, Types DEF Goto, Open
  <2>3. /\ w \in Work /\ w.events \in Seq(Event) /\ Len(w.events) \in Nat
        /\ Len(events) <= Len(w.events)
        /\ \A i \in 1..Len(events) : w.events[i] = events[i]
    <3>1. w \in Work /\ w.events \in Seq(Event) /\ Len(w.ids) \in Nat
      BY Types
    <3>. QED  BY <2>1, <3>1, Types DEF Written, Writing, Extending, Replayed
  <2>4. Beginnings(events') /\ \A d \in Client : Beginnings(work'[d].events)
    BY <1>3, Types, Empty DEF VInv, NoWork
  <2>5. \A d \in Client : seen'[d] <= Len(events') /\ call'[d].base <= Len(events')
    BY <1>1, <1>3, <2>3, Types DEF VInv
  <2>6. ASSUME NEW d \in Client, reply'[d].why = "ok", call'[d].decision = NoDecision
        PROVE  Saw(events', call'[d], reply'[d].ids[1])
    <3>1. CASE d = c
      <4>1. reply'[d].ids = w.ids /\ call'[d] = k
        BY <1>1, <1>3, <3>1, Types DEF Ledger!Answer
      <4>2. Written(events, decisions, k, w)
        BY <2>1, <2>6, <4>1 DEF Replayed
      <4>3. k.base \in 0..Len(events)
        BY Types DEF VInv
      <4>4. Saw(w.events, k, w.ids[1])
        BY <1>1, <2>3, <4>2, <4>3, Types, OpenCall, WrittenSaw DEF VInv
      <4>. QED  BY <1>3, <4>1, <4>4
    <3>2. CASE d # c
      <4>1. reply'[d] = reply[d] /\ call'[d] = call[d] /\ call[d].base \in Nat
        BY <1>1, <1>3, <3>2, Types DEF Ledger!Answer
      <4>2. Saw(events, call[d], reply[d].ids[1])
        BY <2>6, <4>1 DEF VInv
      <4>. QED  BY <1>3, <2>3, <4>1, <4>2, Types, SawGrows
    <3>. QED  BY <3>1, <3>2
  <2>7. Whole(events', decisions')
    <3>1. Whole(events, decisions)
      BY DEF VInv, DecisionsAreWhole, Whole
    <3>2. CASE Written(events, decisions, k, w)
      BY <1>1, <1>3, <2>3, <3>1, <3>2, Types, OpenCall, WrittenWhole
    <3>3. CASE Replayed(events, decisions, k, w)
      BY <1>3, <3>1, <3>3 DEF Replayed
    <3>. QED  BY <2>1, <3>2, <3>3
  <2>8. DecisionsAreWhole'
    BY <2>7 DEF Whole, DecisionsAreWhole
  <2>. QED  BY <2>2, <2>4, <2>5, <2>6, <2>8 DEF VInv
<1>. QED  BY <1>2, <1>3 DEF Commit

LEMMA InitVInv == Init => VInv
<1> SUFFICES ASSUME Init PROVE VInv
  OBVIOUS
<1>1. /\ events = <<>> /\ decisions = [d \in Decision |-> Ledger!NoReceipt]
      /\ \A c \in Client : /\ work[c].events = <<>> /\ seen[c] = 0 /\ call[c].base = 0
                           /\ pc[c] = "begin" /\ reply[c].why = "none"
  BY DEF Init, Ledger!Init, NoWork, Ledger!NoCall, Ledger!NoReply
<1>2. DecisionsAreWhole
  BY <1>1 DEF DecisionsAreWhole
<1>. QED  BY <1>1, <1>2, Empty DEF VInv, Open

LEMMA NextVInv == IInv /\ VInv /\ [Next]_vars => VInv'
<1> SUFFICES ASSUME IInv, VInv, [Next]_vars PROVE VInv'
  OBVIOUS
<1>1. CASE UNCHANGED vars
  BY <1>1 DEF vars, VInv, DecisionsAreWhole
<1>2. ASSUME NEW c \in Client, Step(c) PROVE VInv'
  BY <1>2, BeginSees, CheckSees, InsertSees, ReceiptSees, GuardSees, CommitSees DEF Step
<1>. QED  BY <1>1, <1>2, CallerSees DEF Next

LEMMA ViewHolds == Spec => [](IInv /\ VInv)
BY InitInv, NextInv, InitVInv, NextVInv, PTL DEF Spec
----------------------------------------------------------------------------
(* What the invariant gives.                                               *)

\* An append that was guarded by an expected count or sequence and succeeded
\* had read everything before its own event, on its stream or in the whole log.
THEOREM GuardedSaw == Spec => []GuardedAppendSawEverything
<1>1. IInv /\ VInv => GuardedAppendSawEverything
  BY DEF VInv, Saw, GuardedAppendSawEverything
<1>. QED  BY <1>1, ViewHolds, PTL

\* A stored decision is whole, and no two decisions share an event.
THEOREM DecisionsWhole == Spec => []DecisionsAreWhole
<1>1. IInv /\ VInv => DecisionsAreWhole
  BY DEF VInv
<1>. QED  BY <1>1, ViewHolds, PTL

\* The tables change only when an open transaction commits what it wrote.
LEMMA TableStep ==
    ASSUME IInv, VInv, [Next]_vars
    PROVE  \/ UNCHANGED tableVars
           \/ \E c \in Client :
                /\ pc[c] = "commit" /\ pc[c] \in Open
                /\ Written(events, decisions, call[c], work[c])
                /\ events' = work[c].events /\ decisions' = work[c].decisions
<1>1. CASE UNCHANGED vars
  BY <1>1 DEF vars, tableVars
<1>2. ASSUME NEW c \in Client,
             \/ ReadAll(c)
             \/ \E k \in Ledger!CallsFrom(seen[c]) : Invoke(c, k)
             \/ Return(c) \/ Crash(c)
             \/ Begin(c) \/ CheckPreconditions(c) \/ InsertEvent(c)
             \/ InsertReceipt(c) \/ PrecommitGuard(c)
      PROVE  UNCHANGED tableVars
  BY <1>2
  DEF ReadAll, Ledger!ReadAll, Invoke, Ledger!Invoke, Return, Ledger!Return, Crash,
      Ledger!Restart, Begin, CheckPreconditions, InsertEvent, InsertReceipt,
      PrecommitGuard, tableVars
<1>3. ASSUME NEW c \in Client, Commit(c)
      PROVE  \/ UNCHANGED tableVars
             \/ /\ pc[c] = "commit" /\ pc[c] \in Open
                /\ Written(events, decisions, call[c], work[c])
                /\ events' = work[c].events /\ decisions' = work[c].decisions
  <2>1. pc[c] = "commit" /\ pc[c] \in Open
    BY <1>3 DEF Commit, Open, Statement
  <2>2. \/ UNCHANGED tableVars
        \/ events' = work[c].events /\ decisions' = work[c].decisions
    BY <1>3 DEF Commit
  <2>3. \/ Written(events, decisions, call[c], work[c])
        \/ Replayed(events, decisions, call[c], work[c])
    BY <2>1 DEF VInv, View
  <2>. QED  BY <2>1, <2>2, <2>3 DEF Replayed, tableVars
<1>. QED  BY <1>1, <1>2, <1>3 DEF Next, Step

\* What a commit leaves of the tables that were there.
LEMMA WrittenKeeps ==
    ASSUME IInv, NEW c \in Client, pc[c] \in Open,
           Written(events, decisions, call[c], work[c])
    PROVE  /\ IsPrefix(events, work[c].events)
           /\ \A d \in Decision : work[c].decisions[d] # decisions[d] =>
                 /\ decisions[d] = Ledger!NoReceipt
                 /\ call[c].decision = d /\ call[c].base = Len(events)
<1> DEFINE k == call[c]
           w == work[c]
<1>1. /\ Extending(events, k, w) /\ FreshIn(events, k)
      /\ k.decision # NoDecision => decisions[k.decision] = Ledger!NoReceipt
      /\ w.decisions = Stored(decisions, k, w.ids)
  BY DEF Written, Writing
<1>2. IsPrefix(events, w.events)
  <2>1. /\ Len(events) \in Nat /\ Len(w.ids) \in Nat /\ w.events \in Seq(Event)
        /\ events \in Seq(Event)
    BY Types
  <2>2. Len(events) <= Len(w.events) /\ \A i \in 1..Len(events) : w.events[i] = events[i]
    BY <1>1, <2>1 DEF Extending
  <2>. QED  BY <2>1, <2>2 DEF IsPrefix
<1>3. ASSUME NEW d \in Decision, w.decisions[d] # decisions[d]
      PROVE  decisions[d] = Ledger!NoReceipt /\ k.decision = d /\ k.base = Len(events)
  <2>1. k.decision = d /\ k.decision # NoDecision
    BY <1>1, <1>3, Types DEF Stored
  <2>2. k.check = "global"
    BY <2>1, OpenCall
  <2>. QED  BY <1>1, <2>1, <2>2 DEF FreshIn
<1>. QED  BY <1>2, <1>3

\* The committed log only grows and a receipt, once stored, is never changed:
\* no reader ever sees what a rollback, a crash or another process takes back.
THEOREM HistoryPermanent == Spec => HistoryIsPermanent
<1> DEFINE Kept == /\ IsPrefix(events, events')
                   /\ \A d \in Decision : decisions[d] # Ledger!NoReceipt =>
                                         decisions'[d] = decisions[d]
<1>1. IInv /\ VInv /\ [Next]_vars => [Kept]_tableVars
  <2> SUFFICES ASSUME IInv, VInv, [Next]_vars, ~UNCHANGED tableVars PROVE Kept
    OBVIOUS
  <2>1. PICK c \in Client : /\ pc[c] \in Open
                            /\ Written(events, decisions, call[c], work[c])
                            /\ events' = work[c].events
                            /\ decisions' = work[c].decisions
    BY TableStep
  <2>2. /\ IsPrefix(events, work[c].events)
        /\ \A d \in Decision : work[c].decisions[d] # decisions[d] =>
                               decisions[d] = Ledger!NoReceipt
    BY <2>1, WrittenKeeps
  <2>. QED  BY <2>1, <2>2
<1>. QED  BY <1>1, ViewHolds, PTL DEF Spec, HistoryIsPermanent

\* A decision is first committed on exactly the log it was computed from.
THEOREM DecisionNotStale == Spec => NoStaleDecision
<1> DEFINE Current == \A d \in Decision :
                        decisions[d] = Ledger!NoReceipt /\ decisions'[d] # Ledger!NoReceipt =>
                          \E c \in Client : /\ call[c].decision = d
                                            /\ call[c].base = Len(events)
<1>1. IInv /\ VInv /\ [Next]_vars => [Current]_tableVars
  <2> SUFFICES ASSUME IInv, VInv, [Next]_vars, ~UNCHANGED tableVars PROVE Current
    OBVIOUS
  <2>1. PICK c \in Client : /\ pc[c] \in Open
                            /\ Written(events, decisions, call[c], work[c])
                            /\ decisions' = work[c].decisions
    BY TableStep
  <2>2. \A d \in Decision : work[c].decisions[d] # decisions[d] =>
                            call[c].decision = d /\ call[c].base = Len(events)
    BY <2>1, WrittenKeeps
  <2>. QED  BY <2>1, <2>2
<1>. QED  BY <1>1, ViewHolds, PTL DEF Spec, NoStaleDecision

\* How a process comes to its answer: in one of its own statements.
LEMMA AnswerStep ==
    ASSUME IInv, [Next]_vars, NEW c \in Client, reply[c] = Ledger!NoReply,
           reply'[c].why \in {"stale", "different"}
    PROVE  CheckPreconditions(c)
<1>1. reply'[c] # reply[c]
  BY DEF Ledger!NoReply
<1>2. PICK d \in Client : \/ ReadAll(d)
                          \/ \E k \in Ledger!CallsFrom(seen[d]) : Invoke(d, k)
                          \/ Step(d) \/ Return(d) \/ Crash(d)
  BY <1>1 DEF Next, vars
<1>3. ~ReadAll(d) /\ ~(\E k \in Ledger!CallsFrom(seen[d]) : Invoke(d, k))
  BY <1>1 DEF ReadAll, Ledger!ReadAll, Invoke, Ledger!Invoke
<1>4. ~Return(d) /\ ~Crash(d)
  BY <1>1, Types DEF Return, Ledger!Return, Crash, Ledger!Restart
<1>5. d = c
  BY <1>1, <1>2, <1>3, <1>4, Types
  DEF Step, Begin, CheckPreconditions, InsertEvent, InsertReceipt, PrecommitGuard, Commit,
      Abort, Ledger!Answer
<1>6. /\ ~Begin(c) /\ ~InsertEvent(c) /\ ~InsertReceipt(c)
      /\ ~PrecommitGuard(c) /\ ~Commit(c)
  BY <1>1, Types
  DEF Begin, InsertEvent, InsertReceipt, PrecommitGuard, Commit, Abort, Ledger!Answer
<1>. QED  BY <1>2, <1>3, <1>4, <1>5, <1>6 DEF Step

\* The retry of a decision that was committed, after a lost answer or a crash,
\* is never refused as stale or as different.
THEOREM RetryNotRefused == Spec => CommittedRetryIsNotRefused
<1> DEFINE Kind == \A c \in Client :
                     LET d == call[c].decision IN
                     reply[c] = Ledger!NoReply /\ reply'[c].why \in {"stale", "different"} =>
                       d = NoDecision \/ decisions[d].content # call[c].content
<1>1. IInv /\ VInv /\ [Next]_vars => Kind
  <2> SUFFICES ASSUME IInv, VInv, [Next]_vars, NEW c \in Client, reply[c] = Ledger!NoReply,
                      reply'[c].why \in {"stale", "different"},
                      call[c].decision # NoDecision
               PROVE  decisions[call[c].decision].content # call[c].content
    OBVIOUS
  <2>1. CheckPreconditions(c) /\ pc[c] = "check" /\ pc[c] \in Open
    BY AnswerStep DEF CheckPreconditions, Open, Statement
  <2>2. work[c].decisions = decisions /\ call[c].content # <<>>
    BY <2>1, OpenCall DEF VInv, View
  <2> DEFINE stored == decisions[call[c].decision]
  <2>3. CASE stored = Ledger!NoReceipt
    BY <2>2, <2>3 DEF Ledger!NoReceipt
  <2>4. CASE stored # Ledger!NoReceipt /\ stored.content = call[c].content
    <3>1. UNCHANGED reply
      BY <2>1, <2>2, <2>4 DEF CheckPreconditions
    <3>. QED  BY <3>1 DEF Ledger!NoReply
  <2>. QED  BY <2>3, <2>4
<1>. QED  BY <1>1, ViewHolds, PTL DEF Spec, CommittedRetryIsNotRefused
----------------------------------------------------------------------------
(* The transactions implement EventLedger.                                 *)

LEMMA SameCardinality == ASSUME NEW S PROVE Ledger!Cardinality(S) = Cardinality(S)
BY DEF Ledger!Cardinality, Cardinality

\* EventLedger's checks and numbers are those of SQLite.
LEMMA SameChecks ==
    ASSUME NEW log \in Seq(Event), Beginnings(log), NEW k, k.content \in Seq(Stream),
           Len(k.content) > 0, k.base \in 0..Len(log)
    PROVE  /\ Ledger!Fresh(log, k) <=> FreshIn(log, k)
           /\ \A s \in Stream : /\ Ledger!NextByCount(log, s) = NextByMax(log, s)
                                /\ Ledger!NextByLast(log, s) = NextByMax(log, s)
<1>1. /\ WellNumbered(SubSeq(log, 1, k.base)) /\ WellNumbered(log)
      /\ SubSeq(log, 1, k.base) \in Seq(Event)
  <2>1. Len(log) \in 0..Len(log) /\ SubSeq(log, 1, Len(log)) = log
        /\ SubSeq(log, 1, k.base) \in Seq(Event)
    OBVIOUS
  <2>2. WellNumbered(SubSeq(log, 1, Len(log)))
    BY <2>1 DEF Beginnings
  <2>. QED  BY <2>1, <2>2 DEF Beginnings
<1>2. SameNumbering(log) /\ SameNumbering(SubSeq(log, 1, k.base))
  BY <1>1, WellNumberedAgrees
<1>3. \A l, s : /\ Ledger!NextByCount(l, s) = NextByCount(l, s)
                /\ Ledger!NextByLast(l, s) = NextByLast(l, s)
  BY SameCardinality
  DEF Ledger!NextByCount, NextByCount, Ledger!NextByLast, NextByLast,
      Ledger!SequencesOf, SequencesOf
<1>4. k.content[1] \in Stream
  OBVIOUS
<1>. QED  BY <1>2, <1>3, <1>4 DEF SameNumbering, Ledger!Fresh, FreshIn

LEMMA FunctionIsSeq ==
    ASSUME NEW S, NEW n \in Nat, NEW f \in [1..n -> S]
    PROVE  f \in Seq(S) /\ Len(f) = n
<1>1. f \in Seq(S)
  BY SeqDef
<1>. QED  BY <1>1, LenProperties

\* The working copy of a whole batch is EventLedger's new log.
LEMMA WrittenNumbered ==
    ASSUME NEW log \in Seq(Event), Beginnings(log), NEW k, k.content \in Seq(Stream),
           Len(k.content) > 0, k.base \in 0..Len(log),
           NEW dec, NEW w \in Work, Written(log, dec, k, w)
    PROVE  /\ w.events = log \o Ledger!Numbered(log, k.content)
           /\ w.ids = Ledger!NewIds(log, k.content)
           /\ Ledger!Valid(k.content)
           /\ Ledger!Fresh(log, k)
<1>1. /\ Extending(log, k, w) /\ FreshIn(log, k) /\ Len(w.ids) = Len(k.content)
  BY DEF Written, Writing
<1>2. /\ Len(log) \in Nat /\ Len(k.content) \in Nat /\ w.events \in Seq(Event)
      /\ w.ids \in Seq(Nat) /\ DOMAIN k.content = 1..Len(k.content)
  BY SameEvent DEF Work
<1> DEFINE more == Ledger!Numbered(log, k.content)
<1>3. ASSUME NEW j \in 1..Len(k.content)
      PROVE  more[j] = [stream |-> k.content[j], sequence |-> NumberOf(log, k.content, j)]
  <2>1. k.content[j] \in Stream
    BY <1>2
  <2>2. Ledger!NextByLast(log, k.content[j]) = NextByMax(log, k.content[j])
    BY <2>1, SameChecks
  <2>3. Ledger!Cardinality(Before(k.content, j, k.content[j])) =
          Cardinality(Before(k.content, j, k.content[j]))
    BY SameCardinality
  <2>4. more[j] = [stream   |-> k.content[j],
                   sequence |-> Ledger!NextByLast(log, k.content[j]) +
                                Ledger!Cardinality(Before(k.content, j, k.content[j]))]
    BY <1>2 DEF Ledger!Numbered, Before
  <2>. QED  BY <2>2, <2>3, <2>4 DEF NumberOf
<1>4. \A j \in 1..Len(k.content) : w.events[Len(log) + j] = more[j]
  BY <1>1, <1>3 DEF Extending
<1>5. more \in Seq(Event) /\ Len(more) = Len(k.content)
  <2>1. \A j \in 1..Len(k.content) : more[j] \in Event
    <3>1. SUFFICES ASSUME NEW j \in 1..Len(k.content) PROVE w.events[Len(log) + j] \in Event
      BY <1>4
    <3>2. Len(log) + j \in 1..Len(w.events)
      BY <1>1, <1>2 DEF Extending
    <3>. QED  BY <1>2, <3>2
  <2>2. more \in [1..Len(k.content) -> Event]
    BY <1>2, <2>1 DEF Ledger!Numbered
  <2>. QED  BY <1>2, <2>2, FunctionIsSeq
<1>6. w.events = log \o more
  <2> HIDE DEF more
  <2>1. /\ Len(w.events) = Len(log) + Len(more)
        /\ \A i \in 1..Len(log) : w.events[i] = log[i]
    BY <1>1, <1>5 DEF Extending
  <2>2. /\ log \o more \in Seq(Event) /\ Len(log \o more) = Len(w.events)
        /\ \A i \in 1..Len(w.events) : (log \o more)[i] =
              IF i <= Len(log) THEN log[i] ELSE more[i - Len(log)]
    BY <1>5, <2>1, ConcatProperties
  <2>3. ASSUME NEW i \in 1..Len(w.events) PROVE w.events[i] = (log \o more)[i]
    <3>1. CASE i <= Len(log)
      BY <1>2, <2>1, <2>2, <3>1
    <3>2. CASE i > Len(log)
      <4>1. i - Len(log) \in 1..Len(k.content) /\ Len(log) + (i - Len(log)) = i
        BY <1>2, <1>5, <2>1, <3>2
      <4>2. w.events[i] = more[i - Len(log)]
        BY <1>4, <4>1
      <4>3. i \in Nat /\ ~(i <= Len(log))
        BY <1>2, <2>1, <3>2
      <4>. QED  BY <2>2, <4>2, <4>3
    <3>3. i <= Len(log) \/ i > Len(log)
      <4>1. i \in Nat /\ Len(log) \in Nat
        BY <1>2
      <4>. QED  BY <4>1
    <3>. QED  BY <3>1, <3>2, <3>3
  <2>. QED  BY <1>2, <2>2, <2>3, SeqEqual
<1>7. w.ids = Ledger!NewIds(log, k.content)
  <2> DEFINE ids == Ledger!NewIds(log, k.content)
  <2>1. ids \in [1..Len(k.content) -> Nat]
    BY <1>2 DEF Ledger!NewIds
  <2>2. ids \in Seq(Nat) /\ Len(ids) = Len(w.ids)
    BY <1>1, <1>2, <2>1, FunctionIsSeq
  <2>3. \A i \in 1..Len(w.ids) : w.ids[i] = ids[i]
    BY <1>1, <1>2 DEF Extending, Ledger!NewIds
  <2>4. w.ids = ids
    <3> HIDE DEF ids
    <3>. QED  BY <1>2, <2>2, <2>3, SeqEqual
  <2>. QED  BY <2>4
<1>8. Ledger!Valid(k.content)
  BY <1>1, <1>2 DEF Extending, Ledger!Valid
<1>. QED  BY <1>1, <1>6, <1>7, <1>8, SameChecks

\* An append that commits, or answers from a receipt, is one step of EventLedger.
LEMMA CommitMaps == ASSUME IInv, VInv, NEW c \in Client, Commit(c) PROVE Ledger!Next
<1> DEFINE k == call[c]
           w == work[c]
<1>1. /\ pc[c] = "commit" /\ pc[c] \in Open /\ UNCHANGED <<seen, call>>
  BY DEF Commit, callVars, Open, Statement
<1>2. /\ Ledger!Waiting(c) /\ k.content \in Seq(Stream) /\ Len(k.content) > 0
      /\ k.base \in 0..Len(events) /\ k \in Ledger!Call
  BY <1>1, Types, OpenCall DEF Ledger!Waiting, VInv
<1>3. CASE Abort(c, "busy") /\ UNCHANGED tableVars
  BY <1>1, <1>2, <1>3 DEF Abort, Ledger!GiveUp, Ledger!Next, tableVars
<1>4. CASE /\ events' = w.events /\ decisions' = w.decisions
           /\ Ledger!Answer(c, "ok", w.ids)
  <2>1. CASE Replayed(events, decisions, k, w)
    <3>1. /\ decisions[k.decision] # Ledger!NoReceipt
          /\ decisions[k.decision].content = k.content
          /\ decisions[k.decision].ids = w.ids
      BY <1>2, <2>1 DEF Replayed, Ledger!NoReceipt
    <3>2. Ledger!AnswerFromReceipt(c)
      BY <1>1, <1>2, <1>4, <2>1, <3>1 DEF Replayed, Ledger!AnswerFromReceipt
    <3>. QED  BY <3>2 DEF Ledger!Next
  <2>2. CASE Written(events, decisions, k, w)
    <3>1. /\ w.events = events \o Ledger!Numbered(events, k.content)
          /\ w.ids = Ledger!NewIds(events, k.content)
          /\ Ledger!Valid(k.content) /\ Ledger!Fresh(events, k)
      BY <1>2, <2>2, Types, WrittenNumbered DEF VInv
    <3>2. /\ w.decisions = Stored(decisions, k, w.ids)
          /\ k.decision # NoDecision => decisions[k.decision] = Ledger!NoReceipt
      BY <2>2 DEF Written, Writing
    <3>3. CASE k.decision # NoDecision
      BY <1>1, <1>2, <1>4, <3>1, <3>2, <3>3 DEF Stored, Ledger!AppendBatch, Ledger!Next
    <3>4. CASE k.decision = NoDecision
      <4> DEFINE row == [stream   |-> k.content[1],
                         sequence |-> Ledger!NextByCount(events, k.content[1])]
      <4>1. Len(k.content) = 1 /\ k.content[1] \in Stream
        BY <1>2, <3>4, DecisionAssumption DEF Ledger!Call
      <4>2. Extending(events, k, w) /\ Len(w.ids) = 1
        BY <2>2, <4>1 DEF Written, Writing
      <4>3. NumberOf(events, k.content, 1) = Ledger!NextByCount(events, k.content[1])
        <5>1. Before(k.content, 1, k.content[1]) = {}
          BY DEF Before
        <5>2. NextByMax(events, k.content[1]) \in Nat
          BY <4>1, Types, NextByMaxNat
        <5>3. NextByMax(events, k.content[1]) = Ledger!NextByCount(events, k.content[1])
          BY <1>2, <4>1, Types, SameChecks DEF VInv
        <5>4. Cardinality({}) = 0
          BY FS_EmptySet
        <5>. QED  BY <5>1, <5>2, <5>3, <5>4 DEF NumberOf
      <4>4. /\ Len(w.events) = Len(events) + 1 /\ w.events[Len(events) + 1] = row
            /\ \A i \in 1..Len(events) : w.events[i] = events[i]
        BY <4>2, <4>3 DEF Extending
      <4>5. row \in Event
        <5>1. Len(events) + 1 \in 1..Len(w.events)
          BY <4>4, Types
        <5>. QED  BY <4>4, <5>1, Types
      <4>6. w.events = Append(events, row)
        <5> HIDE DEF row
        <5>1. /\ Append(events, row) \in Seq(Event)
              /\ Len(Append(events, row)) = Len(events) + 1
              /\ \A i \in 1..Len(events) : Append(events, row)[i] = events[i]
              /\ Append(events, row)[Len(events) + 1] = row
          BY <4>5, Types
        <5>2. \A i \in 1..Len(w.events) : w.events[i] = Append(events, row)[i]
          BY <4>4, <5>1, Types
        <5>. QED  BY <4>4, <5>1, <5>2, Types, SeqEqual
      <4>7. events' = Append(events, row) /\ decisions' = decisions
        BY <1>4, <3>2, <3>4, <4>6 DEF Stored
      <4>. QED  BY <1>1, <1>2, <1>4, <3>1, <3>4, <4>7 DEF Ledger!AppendEvent, Ledger!Next
    <3>. QED  BY <3>3, <3>4
  <2>. QED  BY <1>1, <2>1, <2>2 DEF VInv, View
<1>. QED  BY <1>3, <1>4 DEF Commit

\* The check of the preconditions is EventLedger's refusal, or no step of it.
LEMMA CheckMaps ==
    ASSUME IInv, VInv, NEW c \in Client, CheckPreconditions(c)
    PROVE  Ledger!Next \/ UNCHANGED Ledger!vars
<1> DEFINE k == call[c]
           stored == IF k.decision = NoDecision THEN Ledger!NoReceipt
                     ELSE decisions[k.decision]
<1>1. /\ pc[c] = "check" /\ pc[c] \in Open
      /\ UNCHANGED <<events, decisions, seen, call>>
  BY DEF CheckPreconditions, tableVars, callVars, Open, Statement
<1>2. work[c].events = events /\ work[c].decisions = decisions
  BY <1>1 DEF VInv, View
<1>3. /\ Ledger!Waiting(c) /\ k.content \in Seq(Stream) /\ Len(k.content) > 0
      /\ k.base \in 0..Len(events)
  BY <1>1, Types, OpenCall DEF Ledger!Waiting, VInv
<1>4. CASE UNCHANGED reply
  BY <1>1, <1>4 DEF Ledger!vars
<1>5. CASE /\ stored # Ledger!NoReceipt /\ stored.content # k.content
           /\ Abort(c, "different")
  <2>1. Ledger!AnswerFromReceipt(c)
    BY <1>1, <1>3, <1>5 DEF Abort, Ledger!AnswerFromReceipt
  <2>. QED  BY <2>1 DEF Ledger!Next
<1>6. CASE stored = Ledger!NoReceipt /\ ~Fresh(k, work[c]) /\ Abort(c, "stale")
  <2>1. ~FreshIn(events, k)
    BY <1>2, <1>6 DEF Fresh, FreshIn
  <2>2. ~Ledger!Fresh(events, k)
    BY <1>3, <2>1, Types, SameChecks DEF VInv
  <2>3. Ledger!AppendEvent(c) \/ Ledger!AppendBatch(c)
    BY <1>1, <1>3, <1>6, <2>2 DEF Abort, Ledger!AppendEvent, Ledger!AppendBatch
  <2>. QED  BY <2>3 DEF Ledger!Next
<1>. QED  BY <1>2, <1>4, <1>5, <1>6 DEF CheckPreconditions

\* A row that is not valid is EventLedger's refusal; a valid one is no step.
LEMMA InsertMaps ==
    ASSUME IInv, VInv, NEW c \in Client, InsertEvent(c)
    PROVE  Ledger!Next \/ UNCHANGED Ledger!vars
<1> DEFINE k == call[c]
           n == Len(work[c].ids)
<1>1. /\ pc[c] = "insert" /\ pc[c] \in Open
      /\ UNCHANGED <<events, decisions, seen, call>>
      /\ n < Len(k.content)
  BY DEF InsertEvent, tableVars, callVars, Open, Statement, IInv, ControlInv
<1>2. /\ Ledger!Waiting(c) /\ k.content \in Seq(Stream) /\ Len(k.content) > 0
      /\ k.base \in 0..Len(events)
  BY <1>1, Types, OpenCall DEF Ledger!Waiting, VInv
<1>3. CASE UNCHANGED reply
  BY <1>1, <1>3 DEF Ledger!vars
<1>4. CASE k.content[n + 1] \in Malformed /\ Abort(c, "invalid")
  <2>1. ~Ledger!Valid(k.content)
    <3>1. n + 1 \in DOMAIN k.content
      BY <1>1, <1>2, Types
    <3>. QED  BY <1>4, <3>1 DEF Ledger!Valid
  <2>2. /\ FreshIn(events, k)
        /\ k.decision # NoDecision => decisions[k.decision] = Ledger!NoReceipt
    BY <1>1 DEF VInv, View, Writing
  <2>3. Ledger!Fresh(events, k)
    BY <1>2, <2>2, Types, SameChecks DEF VInv
  <2>4. Ledger!AppendEvent(c) \/ Ledger!AppendBatch(c)
    BY <1>1, <1>2, <1>4, <2>1, <2>2, <2>3
    DEF Abort, Ledger!AppendEvent, Ledger!AppendBatch
  <2>. QED  BY <2>4 DEF Ledger!Next
<1>. QED  BY <1>3, <1>4 DEF InsertEvent

\* The transactions of SQLiteEventLedger implement the one-step ledger that its
\* callers rely on: whatever the interleaving, the refusals and the crashes,
\* each append takes effect at its COMMIT, whole or not at all.
THEOREM Implements == Spec => ImplementsLedger
<1>1. Init => Ledger!Init
  BY DEF Init
<1>2. IInv /\ VInv /\ [Next]_vars => [Ledger!Next]_Ledger!vars
  <2> SUFFICES ASSUME IInv, VInv, [Next]_vars PROVE Ledger!Next \/ UNCHANGED Ledger!vars
    OBVIOUS
  <2>1. CASE UNCHANGED vars
    BY <2>1 DEF vars, Ledger!vars
  <2>2. ASSUME NEW c \in Client,
               \/ ReadAll(c)
               \/ \E k \in Ledger!CallsFrom(seen[c]) : Invoke(c, k)
               \/ Return(c) \/ Crash(c)
        PROVE  Ledger!Next
    BY <2>2 DEF ReadAll, Invoke, Return, Crash, Ledger!Next
  <2>3. ASSUME NEW c \in Client, Begin(c) PROVE Ledger!Next \/ UNCHANGED Ledger!vars
    <3>1. CASE UNCHANGED reply
      BY <2>3, <3>1 DEF Begin, tableVars, callVars, Ledger!vars
    <3>2. CASE Abort(c, "busy")
      BY <2>3, <3>2 DEF Begin, Abort, tableVars, callVars, Ledger!GiveUp, Ledger!Next
    <3>. QED  BY <2>3, <3>1, <3>2 DEF Begin
  <2>4. ASSUME NEW c \in Client, InsertReceipt(c) PROVE UNCHANGED Ledger!vars
    BY <2>4 DEF InsertReceipt, tableVars, callVars, Ledger!vars
  <2>5. ASSUME NEW c \in Client, PrecommitGuard(c)
        PROVE  Ledger!Next \/ UNCHANGED Ledger!vars
    <3>1. CASE UNCHANGED reply
      BY <2>5, <3>1 DEF PrecommitGuard, tableVars, callVars, Ledger!vars
    <3>2. CASE Abort(c, "guard")
      <4>1. pc[c] \in Open
        BY <2>5 DEF PrecommitGuard, Open, Statement
      <4>2. Ledger!Waiting(c)
        BY <4>1, OpenCall DEF Ledger!Waiting
      <4>. QED  BY <2>5, <3>2, <4>2
                DEF PrecommitGuard, Abort, tableVars, callVars, Ledger!GiveUp, Ledger!Next
    <3>. QED  BY <2>5, <3>1, <3>2 DEF PrecommitGuard
  <2>. QED  BY <2>1, <2>2, <2>3, <2>4, <2>5, CheckMaps, InsertMaps, CommitMaps
            DEF Next, Step
<1>. QED  BY <1>1, <1>2, ViewHolds, PTL DEF Spec, ImplementsLedger, Ledger!Spec
=============================================================================
