---------------------- MODULE DocumentProcessingProofs ----------------------
(***************************************************************************)
(* For any number of invocations, requests, instances, crashes and changes *)
(* of policy, at most one invocation is running and a recorded outcome is  *)
(* never replaced.  Both rest on one idea: what a request read before its  *)
(* append still holds if the lengths that the append expects still do.     *)
(***************************************************************************)
EXTENDS DocumentProcessing, TLAPS

StreamTypes ==
    /\ stream \in [Invocation -> Seq(Kind)]
    /\ revision \in Nat
    /\ call \in [Call -> Request]

\* A stream begins with its preview.
PreviewFirst ==
    \A v \in Invocation : stream[v] # <<>> => stream[v][1] = "previewed"

NoneRunning == \A v \in Invocation : State(v) # "running"

\* What a request relies on when it has read the ledger.
Fits(q) ==
    /\ q.at # "idle" => q.target \in Invocation /\ stream[q.target] # <<>>
    /\ q.at = "claim" =>
         /\ q.all <= revision /\ (q.all = revision => NoneRunning)
         /\ q.own <= Len(stream[q.target])
         /\ q.own = Len(stream[q.target]) => State(q.target) = "queued"
    /\ q.at \in {"settle", "record"} => q.outcome \in Terminal
    /\ q.at = "record" =>
         /\ q.own <= Len(stream[q.target])
         /\ q.own = Len(stream[q.target]) => State(q.target) \notin Terminal

Kept == \A v \in Invocation : State(v) \in Terminal => State(v)' = State(v)

IInv ==
    /\ StreamTypes
    /\ PreviewFirst
    /\ \A c \in Call : Fits(call[c])
    /\ OneRunning

----------------------------------------------------------------------------
(* Reading and growing streams.                                            *)

LEMMA StateType ==
    ASSUME StreamTypes, NEW v \in Invocation
    PROVE  /\ State(v) \in JobState
           /\ stream[v] # <<>> => State(v) # "none"
<1>1. CASE stream[v] = <<>>
  BY <1>1 DEF State, JobState
<1>2. CASE stream[v] # <<>>
  <2>1. stream[v] \in Seq(Kind) /\ Len(stream[v]) \in 1..Len(stream[v])
    BY <1>2 DEF StreamTypes
  <2>2. Last(stream[v]) \in Kind
    BY <2>1 DEF Last
  <2>3. After(Last(stream[v])) \in JobState \ {"none"}
    BY <2>2 DEF After, Kind, JobState, Terminal
  <2>. QED  BY <1>2, <2>3 DEF State
<1>. QED  BY <1>1, <1>2

LEMMA Grown ==
    ASSUME StreamTypes, NEW v \in Invocation, NEW kind \in Kind, AppendTo(v, kind)
    PROVE  /\ stream' \in [Invocation -> Seq(Kind)]
           /\ revision' = revision + 1 /\ revision' \in Nat
           /\ Len(stream'[v]) = Len(stream[v]) + 1 /\ stream'[v] # <<>>
           /\ stream'[v][1] = IF stream[v] = <<>> THEN kind ELSE stream[v][1]
           /\ State(v)' = After(kind)
           /\ \A u \in Invocation \ {v} : stream'[u] = stream[u] /\ State(u)' = State(u)
<1>1. stream' = [stream EXCEPT ![v] = Append(stream[v], kind)] /\ stream[v] \in Seq(Kind)
  BY DEF AppendTo, StreamTypes
<1>2. stream' \in [Invocation -> Seq(Kind)] /\ stream'[v] = Append(stream[v], kind)
  BY <1>1 DEF StreamTypes
<1>3. revision' = revision + 1 /\ revision' \in Nat
  BY DEF AppendTo, StreamTypes
<1>4. Len(stream'[v]) = Len(stream[v]) + 1 /\ stream'[v] # <<>>
  BY <1>1, <1>2
<1>5. stream'[v][1] = IF stream[v] = <<>> THEN kind ELSE stream[v][1]
  BY <1>1, <1>2
<1>6. State(v)' = After(kind)
  <2>1. stream'[v][Len(stream'[v])] = kind
    BY <1>1, <1>2, <1>4
  <2>. QED  BY <2>1, <1>4 DEF State, Last
<1>7. \A u \in Invocation \ {v} : stream'[u] = stream[u]
  BY <1>1 DEF StreamTypes
<1>8. \A u \in Invocation \ {v} : State(u)' = State(u)
  BY <1>7 DEF State
<1>. QED  BY <1>2, <1>3, <1>4, <1>5, <1>6, <1>7, <1>8

\* A request that relies on old lengths is not accepted once a stream grew.
LEMMA FitsGrown ==
    ASSUME StreamTypes, NEW v \in Invocation, NEW kind \in Kind, AppendTo(v, kind),
           NEW q \in Request, Fits(q)
    PROVE  Fits(q)'
<1>1. q.own \in Nat /\ q.all \in Nat /\ \A u \in Invocation : Len(stream[u]) \in Nat
  BY DEF Request, StreamTypes
<1>2. q.at # "idle" => q.target \in Invocation /\ stream'[q.target] # <<>>
  BY Grown DEF Fits
<1>3. q.at = "claim" => q.all < revision'
  BY <1>1, Grown DEF Fits, StreamTypes
<1>4. q.at \in {"claim", "record"} =>
        /\ q.own <= Len(stream'[q.target])
        /\ q.own = Len(stream'[q.target]) =>
             q.target # v /\ stream'[q.target] = stream[q.target]
             /\ State(q.target)' = State(q.target)
  BY <1>1, Grown DEF Fits
<1>5. q.at \in {"claim", "record"} /\ q.own = Len(stream'[q.target]) =>
        q.own = Len(stream[q.target])
  BY <1>4
<1>6. q.at = "claim" /\ q.own = Len(stream'[q.target]) => State(q.target)' = "queued"
  BY <1>4, <1>5 DEF Fits
<1>7. q.at = "record" /\ q.own = Len(stream'[q.target]) => State(q.target)' \notin Terminal
  BY <1>4, <1>5 DEF Fits
<1>8. q.at = "claim" => q.all <= revision' /\ q.all # revision'
  BY <1>1, <1>3, Grown
<1>. QED  BY <1>2, <1>4, <1>6, <1>7, <1>8 DEF Fits

LEMMA FitsStill ==
    ASSUME UNCHANGED <<stream, revision>>, NEW q, Fits(q)
    PROVE  Fits(q)'
<1>1. \A v : State(v)' = State(v)
  BY DEF State
<1>2. NoneRunning' <=> NoneRunning
  BY <1>1 DEF NoneRunning
<1>. QED  BY <1>1, <1>2 DEF Fits

----------------------------------------------------------------------------
(* Two kinds of step: those that leave the ledger alone, and those that    *)
(* append an event which does not make a second invocation run.            *)

LEMMA Quiet ==
    ASSUME IInv, UNCHANGED stream, revision' \in Nat, revision' = revision,
           call' \in [Call -> Request], \A c \in Call : Fits(call'[c])
    PROVE  IInv' /\ Kept
<1>1. \A v : State(v)' = State(v)
  BY DEF State
<1>2. \A c \in Call : Fits(call[c])'
  BY FitsStill
<1>3. OneRunning' /\ PreviewFirst'
  BY <1>1 DEF IInv, OneRunning, PreviewFirst
<1>4. StreamTypes'
  BY DEF IInv, StreamTypes
<1>. QED  BY <1>1, <1>2, <1>3, <1>4 DEF IInv, Kept

LEMMA Moved ==
    ASSUME IInv, UNCHANGED <<stream, revision>>, NEW c \in Call,
           NEW q \in Request, Fits(q), call' = [call EXCEPT ![c] = q]
    PROVE  IInv' /\ Kept
<1>1. call \in [Call -> Request] /\ revision \in Nat
  BY DEF IInv, StreamTypes
<1>2. call' \in [Call -> Request] /\ \A r \in Call : Fits(call'[r])
  BY <1>1 DEF IInv
<1>. QED  BY <1>1, <1>2, Quiet

LEMMA Appended ==
    ASSUME IInv, NEW v \in Invocation, NEW kind \in Kind, AppendTo(v, kind),
           stream[v] = <<>> => kind = "previewed",
           State(v) \notin Terminal, kind = "running" => NoneRunning,
           call' \in [Call -> Request], \A c \in Call : Fits(call'[c])
    PROVE  IInv' /\ Kept
<1>1. StreamTypes
  BY DEF IInv
<1>2. StreamTypes'
  BY <1>1, Grown DEF StreamTypes
<1>3. PreviewFirst'
  BY <1>1, Grown DEF IInv, PreviewFirst
<1>4. \A c \in Call : Fits(call[c])'
  <2>1. TAKE c \in Call
  <2>2. Fits(call'[c]) /\ call'[c] \in Request
    OBVIOUS
  <2>3. ASSUME NEW q \in Request, Fits(q) PROVE Fits(q)'
    BY <1>1, <2>3, FitsGrown
  <2>. QED  BY <2>2, <2>3 DEF Fits
<1>5. OneRunning'
  <2>1. kind # "running" => State(v)' # "running"
    BY <1>1, Grown DEF After
  <2>2. \A u \in Invocation \ {v} : State(u)' = State(u)
    BY <1>1, Grown
  <2>. QED  BY <2>1, <2>2 DEF IInv, OneRunning, NoneRunning
<1>6. Kept
  BY <1>1, Grown DEF Kept
<1>. QED  BY <1>2, <1>3, <1>4, <1>5, <1>6 DEF IInv

----------------------------------------------------------------------------
(* The requests an action leaves behind.                                   *)

LEMMA NoRequestFits == NoRequest \in Request /\ Fits(NoRequest)
BY DEF NoRequest, Request, Fits, Label, JobState, Terminal

LEMMA AtFits ==
    ASSUME IInv, NEW c \in Call, call[c].at # "idle",
           NEW label \in Label \ {"idle", "claim", "settle", "record"}
    PROVE  At(c, label) \in Request /\ Fits(At(c, label))
<1>1. call[c] \in Request /\ Fits(call[c])
  BY DEF IInv, StreamTypes
<1>2. At(c, label) \in Request
  BY <1>1 DEF At, Request, Label, JobState
<1>3. At(c, label).at = label /\ At(c, label).target = call[c].target
  BY <1>1 DEF At, Request
<1>. QED  BY <1>1, <1>2, <1>3 DEF Fits

LEMMA SettlingFits ==
    ASSUME IInv, NEW c \in Call, call[c].at # "idle", NEW state \in Terminal,
           NEW aborted \in BOOLEAN
    PROVE  LET q == [At(c, "settle") EXCEPT !.outcome = state, !.aborted = aborted]
           IN  q \in Request /\ Fits(q)
<1> DEFINE q == [At(c, "settle") EXCEPT !.outcome = state, !.aborted = aborted]
<1>1. call[c] \in Request /\ Fits(call[c])
  BY DEF IInv, StreamTypes
<1>2. /\ At(c, "settle") \in Request /\ At(c, "settle").at = "settle"
      /\ At(c, "settle").target = call[c].target
  BY <1>1 DEF At, Request, Label, JobState
<1>3. /\ q \in Request /\ q.at = "settle" /\ q.target = call[c].target
      /\ q.outcome = state
  BY <1>2 DEF Request
<1>. QED  BY <1>1, <1>3 DEF Fits

LEMMA AbortFits ==
    ASSUME IInv, NEW requests
    PROVE  /\ Abort(requests) \in [Call -> Request]
           /\ \A r \in Call : Fits(Abort(requests)[r])
<1>1. \A r \in Call : call[r] \in Request /\ Fits(call[r])
  BY DEF IInv, StreamTypes
<1>2. ASSUME NEW r \in Call
      PROVE  /\ [call[r] EXCEPT !.aborted = TRUE] \in Request
             /\ Fits([call[r] EXCEPT !.aborted = TRUE])
  BY <1>1 DEF Request, Fits
<1>. QED  BY <1>1, <1>2 DEF Abort

LEMMA DoneMoves ==
    ASSUME IInv, UNCHANGED <<stream, revision>>, NEW c \in Call, Done(c)
    PROVE  IInv' /\ Kept
BY NoRequestFits, Moved DEF Done

LEMMA GotoMoves ==
    ASSUME IInv, UNCHANGED <<stream, revision>>, NEW c \in Call, call[c].at # "idle",
           NEW label \in Label \ {"idle", "claim", "settle", "record"}, Goto(c, label)
    PROVE  IInv' /\ Kept
BY AtFits, Moved DEF Goto

LEMMA SettleMoves ==
    ASSUME IInv, UNCHANGED <<stream, revision>>, NEW c \in Call, call[c].at # "idle",
           NEW state \in Terminal, Settle(c, state)
    PROVE  IInv' /\ Kept
BY SettlingFits, Moved DEF Settle

----------------------------------------------------------------------------
(* Each action keeps the invariant, and the outcomes recorded before it.   *)

LEMMA PreviewKeeps ==
    ASSUME IInv, NEW i \in Instance, NEW v \in Invocation, Preview(i, v)
    PROVE  IInv' /\ Kept
<1>1. AppendTo(v, "previewed") /\ stream[v] = <<>> /\ call' = call
  BY DEF Preview
<1>2. State(v) \notin Terminal
  BY <1>1 DEF State, Terminal
<1>3. "previewed" \in Kind
  BY DEF Kind
<1>4. call' \in [Call -> Request] /\ \A c \in Call : Fits(call'[c])
  BY <1>1 DEF IInv, StreamTypes
<1>. QED  BY <1>1, <1>2, <1>3, <1>4, Appended

LEMMA BeginKeeps ==
    ASSUME IInv, NEW c \in Call, NEW v \in Invocation,
           NEW op \in {"approve", "run", "cancel"}, Begin(c, op, v)
    PROVE  IInv' /\ Kept
<1> DEFINE q == [NoRequest EXCEPT !.at = "authorize", !.op = op, !.target = v,
                                  !.seen = State(v)]
<1>1. State(v) \in JobState
  BY StateType DEF IInv
<1>2. q \in Request
  BY <1>1, NoRequestFits DEF Request, NoRequest, Label
<1>3. q.at = "authorize" /\ q.target = v /\ stream[v] # <<>>
  BY DEF Begin, NoRequest
<1>4. Fits(q)
  BY <1>3 DEF Fits
<1>. QED  BY <1>2, <1>4, Moved DEF Begin, ledger

LEMMA AdmitKeeps ==
    ASSUME IInv, NEW c \in Call, Admit(c) \/ Revalidate(c)
    PROVE  IInv' /\ Kept
<1>1. UNCHANGED <<stream, revision>> /\ call[c].at # "idle"
  BY DEF Admit, Revalidate, ledger
<1>2. \/ Done(c)
      \/ \E label \in {"revalidate", "survey", "approve"} : Goto(c, label)
  BY DEF Admit, Revalidate
<1>3. {"revalidate", "survey", "approve"} \subseteq Label \ {"idle", "claim", "settle", "record"}
  BY DEF Label
<1>. QED  BY <1>1, <1>2, <1>3, DoneMoves, GotoMoves

LEMMA ApproveKeeps == ASSUME IInv, NEW c \in Call, Approve(c) PROVE IInv' /\ Kept
<1> DEFINE v == call[c].target
<1>1. /\ call[c].at = "approve" /\ Done(c) /\ v \in Invocation
      /\ stream[v] # <<>> /\ stream[v] \in Seq(Kind)
  BY DEF Approve, IInv, Fits, StreamTypes
<1>2. CASE Len(stream[v]) # 1
  BY <1>1, <1>2, DoneMoves DEF Approve, ledger
<1>3. CASE Len(stream[v]) = 1
  <2>1. State(v) = "awaiting_approval"
    BY <1>1, <1>3 DEF IInv, PreviewFirst, State, Last, After
  <2>2. State(v) \notin Terminal /\ "approved" \in Kind
    BY <2>1 DEF Terminal, Kind
  <2>3. call' \in [Call -> Request] /\ \A r \in Call : Fits(call'[r])
    BY <1>1, NoRequestFits DEF Done, IInv, StreamTypes
  <2>. QED  BY <1>1, <1>3, <2>2, <2>3, Appended DEF Approve
<1>. QED  BY <1>2, <1>3

\* The survey relies on the ledger as it reads it.
LEMMA SurveyKeeps == ASSUME IInv, NEW c \in Call, Survey(c) PROVE IInv' /\ Kept
<1> DEFINE v == call[c].target
           q == [call[c] EXCEPT !.at = "claim", !.all = revision, !.own = Len(stream[v])]
<1>1. /\ call[c].at = "survey" /\ v \in Invocation /\ call[c] \in Request
      /\ stream[v] # <<>> /\ stream[v] \in Seq(Kind) /\ revision \in Nat
  BY DEF Survey, IInv, Fits, StreamTypes
<1>2. CASE ~MayClaim(v)
  BY <1>2, DoneMoves DEF Survey, ledger
<1>3. CASE MayClaim(v)
  <2>1. q \in Request
    <3>1. \A r \in Request, own \in Nat, all \in Nat, at \in Label :
            [r EXCEPT !.at = at, !.all = all, !.own = own] \in Request
      BY DEF Request
    <3>2. Len(stream[v]) \in Nat /\ "claim" \in Label
      BY <1>1 DEF Label
    <3>. QED  BY <1>1, <3>1, <3>2
  <2>2. /\ q.at = "claim" /\ q.target = v /\ q.all = revision
        /\ q.own = Len(stream[v])
    BY <1>1 DEF Request
  <2>3. NoneRunning /\ State(v) = "queued"
    BY <1>3 DEF MayClaim, NoneRunning
  <2>4. Fits(q)
    BY <1>1, <2>2, <2>3 DEF Fits
  <2>5. call' = [call EXCEPT ![c] = q]
    BY <1>3 DEF Survey
  <2>. QED  BY <2>1, <2>4, <2>5, Moved DEF Survey, ledger
<1>. QED  BY <1>2, <1>3

\* Only the claim makes an invocation run, and then none was running.
LEMMA ClaimKeeps == ASSUME IInv, NEW c \in Call, Claim(c) PROVE IInv' /\ Kept
<1> DEFINE v == call[c].target
<1>1. call[c].at = "claim" /\ v \in Invocation /\ stream[v] # <<>>
  BY DEF Claim, IInv, Fits
<1>2. CASE ~ClaimExpected(c)
  BY <1>2, DoneMoves DEF Claim, ledger
<1>3. CASE ClaimExpected(c)
  <2>1. NoneRunning /\ State(v) = "queued"
    BY <1>1, <1>3 DEF ClaimExpected, IInv, Fits
  <2>2. State(v) \notin Terminal /\ "running" \in Kind
    BY <2>1 DEF Terminal, Kind
  <2>3. AppendTo(v, "running") /\ Goto(c, "register")
    BY <1>3 DEF Claim
  <2>4. At(c, "register") \in Request /\ Fits(At(c, "register"))
    BY <1>1, AtFits DEF Label
  <2>5. call' \in [Call -> Request] /\ \A r \in Call : Fits(call'[r])
    BY <2>3, <2>4 DEF Goto, IInv, StreamTypes
  <2>. QED  BY <1>1, <2>1, <2>2, <2>3, <2>5, Appended
<1>. QED  BY <1>2, <1>3

LEMMA RunKeeps ==
    ASSUME IInv, NEW c \in Call,
           \/ Register(c) \/ Gate(c) \/ Recheck(c) \/ Transfer(c)
           \/ Interrupted(c) \/ Answer(c) \/ Lost(c) \/ Publish(c)
    PROVE  IInv' /\ Kept
<1>1. UNCHANGED <<stream, revision>> /\ call[c].at # "idle"
  BY DEF Register, Gate, Recheck, Transfer, Interrupted, Answer, Lost, Publish, ledger
<1>2. \/ \E label \in {"gate", "recheck", "transfer", "await", "publish"} : Goto(c, label)
      \/ \E state \in {"completed", "failed", "uncertain"} : Settle(c, state)
  BY DEF Register, Gate, Recheck, Transfer, Interrupted, Answer, Lost, Publish
<1>3. /\ {"gate", "recheck", "transfer", "await", "publish"}
            \subseteq Label \ {"idle", "claim", "settle", "record"}
      /\ {"completed", "failed", "uncertain"} \subseteq Terminal
  BY DEF Label, Terminal
<1>. QED  BY <1>1, <1>2, <1>3, GotoMoves, SettleMoves

LEMMA CancelKeeps == ASSUME IInv, NEW c \in Call, Cancel(c) PROVE IInv' /\ Kept
<1>1. UNCHANGED <<stream, revision>> /\ call[c].at # "idle"
  BY DEF Cancel, ledger
<1>2. CASE Done(c)
  BY <1>1, <1>2, DoneMoves
<1>3. ASSUME NEW requests, NEW state \in {"uncertain", "canceled"},
             call' = [Abort(requests) EXCEPT ![c] =
                        [At(c, "settle") EXCEPT !.outcome = state]]
      PROVE  IInv' /\ Kept
  <2> DEFINE q == [At(c, "settle") EXCEPT !.outcome = state]
  <2>1. call[c] \in Request /\ Fits(call[c]) /\ state \in Terminal
    BY DEF IInv, StreamTypes, Terminal
  <2>2. /\ At(c, "settle") \in Request /\ At(c, "settle").at = "settle"
        /\ At(c, "settle").target = call[c].target
    BY <2>1 DEF At, Request, Label, JobState
  <2>3. /\ q \in Request /\ q.at = "settle" /\ q.target = call[c].target
        /\ q.outcome = state
    BY <2>1, <2>2 DEF Request
  <2>4. Fits(q)
    BY <1>1, <2>1, <2>3 DEF Fits
  <2>5. call' \in [Call -> Request] /\ \A r \in Call : Fits(call'[r])
    BY <1>3, <2>3, <2>4, AbortFits
  <2>. QED  BY <1>1, <2>5, Quiet DEF IInv, StreamTypes
<1>. QED
  <2>1. SUFFICES ASSUME ~Done(c) PROVE IInv' /\ Kept
    BY <1>2
  <2>2. CASE call[c].seen = "running"
    BY <1>3, <2>1, <2>2 DEF Cancel
  <2>3. CASE call[c].seen # "running"
    BY <1>3, <2>1, <2>3 DEF Cancel
  <2>. QED  BY <2>2, <2>3

LEMMA AbortKeeps ==
    ASSUME IInv, (\E c \in Call : Timeout(c)) \/ (\E i \in Instance : Close(i))
    PROVE  IInv' /\ Kept
<1>1. UNCHANGED <<stream, revision>> /\ \E requests : call' = Abort(requests)
  BY DEF Timeout, Close, ledger
<1>2. call' \in [Call -> Request] /\ \A r \in Call : Fits(call'[r])
  BY <1>1, AbortFits
<1>. QED  BY <1>1, <1>2, Quiet DEF IInv, StreamTypes

\* finish records an outcome only over a state it read as not terminal.
LEMMA FinishReadKeeps == ASSUME IInv, NEW c \in Call, FinishRead(c) PROVE IInv' /\ Kept
<1> DEFINE v == call[c].target
           q == [call[c] EXCEPT !.at = "record", !.own = Len(stream[v])]
<1>1. /\ call[c].at = "settle" /\ v \in Invocation /\ call[c] \in Request
      /\ stream[v] # <<>> /\ stream[v] \in Seq(Kind) /\ call[c].outcome \in Terminal
  BY DEF FinishRead, IInv, Fits, StreamTypes
<1>2. CASE State(v) \in Terminal
  BY <1>2, DoneMoves DEF FinishRead, ledger
<1>3. CASE State(v) \notin Terminal
  <2>1. q \in Request
    <3>1. \A r \in Request, own \in Nat, at \in Label :
            [r EXCEPT !.at = at, !.own = own] \in Request
      BY DEF Request
    <3>2. Len(stream[v]) \in Nat /\ "record" \in Label
      BY <1>1 DEF Label
    <3>. QED  BY <1>1, <3>1, <3>2
  <2>2. /\ q.at = "record" /\ q.target = v /\ q.own = Len(stream[v])
        /\ q.outcome = call[c].outcome
    BY <1>1 DEF Request
  <2>3. Fits(q)
    BY <1>1, <1>3, <2>2 DEF Fits
  <2>4. call' = [call EXCEPT ![c] = q]
    BY <1>3 DEF FinishRead
  <2>. QED  BY <2>1, <2>3, <2>4, Moved DEF FinishRead, ledger
<1>. QED  BY <1>2, <1>3

LEMMA FinishRecordKeeps == ASSUME IInv, NEW c \in Call, FinishRecord(c) PROVE IInv' /\ Kept
<1> DEFINE v == call[c].target
<1>1. call[c].at = "record" /\ v \in Invocation /\ stream[v] # <<>> /\ Done(c)
  BY DEF FinishRecord, IInv, Fits
<1>2. CASE ~RecordExpected(c)
  BY <1>1, <1>2, DoneMoves DEF FinishRecord, ledger
<1>3. CASE RecordExpected(c)
  <2>1. State(v) \notin Terminal
    BY <1>1, <1>3 DEF RecordExpected, IInv, Fits
  <2>2. call[c].outcome \in Kind /\ call[c].outcome # "running"
    BY <1>1 DEF Kind, Terminal, IInv, Fits
  <2>3. AppendTo(v, call[c].outcome)
    BY <1>3 DEF FinishRecord
  <2>4. call' \in [Call -> Request] /\ \A r \in Call : Fits(call'[r])
    BY <1>1, NoRequestFits DEF Done, IInv, StreamTypes
  <2>. QED  BY <1>1, <2>1, <2>2, <2>3, <2>4, Appended
<1>. QED  BY <1>2, <1>3

LEMMA MountKeeps == ASSUME IInv, NEW i \in Instance, Mount(i) PROVE IInv' /\ Kept
<1>1. UNCHANGED <<stream, revision>>
  BY DEF Mount, ledger
<1>2. CASE UNCHANGED call
  BY <1>1, <1>2, Quiet DEF IInv, StreamTypes
<1>3. ASSUME NEW v \in Invocation, NEW c \in Call, State(v) = "running",
             call' = [call EXCEPT ![c] = [NoRequest EXCEPT
                    !.at = "settle", !.op = "recover", !.target = v,
                    !.outcome = "uncertain"]]
      PROVE  IInv' /\ Kept
  <2> DEFINE q == [NoRequest EXCEPT !.at = "settle", !.op = "recover", !.target = v,
                                    !.outcome = "uncertain"]
  <2>1. /\ q.at = "settle" /\ q.target = v /\ q.outcome \in Terminal
        /\ stream[v] # <<>>
    BY <1>3 DEF NoRequest, Terminal, State
  <2>2. q \in Request
    BY NoRequestFits DEF Request, NoRequest, Label, Terminal
  <2>3. Fits(q)
    BY <2>1 DEF Fits
  <2>. QED  BY <1>1, <1>3, <2>2, <2>3, Moved
<1>. QED  BY <1>2, <1>3 DEF Mount

LEMMA CrashKeeps ==
    ASSUME IInv, NEW i \in Instance, Closed(i) \/ Crash(i)
    PROVE  IInv' /\ Kept
<1>1. /\ UNCHANGED <<stream, revision>>
      /\ call' = [c \in Call |-> IF InstanceOf[c] = i THEN NoRequest ELSE call[c]]
  BY DEF Closed, Crash, ledger
<1>2. call' \in [Call -> Request] /\ \A r \in Call : Fits(call'[r])
  BY <1>1, NoRequestFits DEF IInv, StreamTypes
<1>. QED  BY <1>1, <1>2, Quiet DEF IInv, StreamTypes

\* Events of other components only make expected lengths of the ledger stale.
LEMMA OtherEventKeeps == ASSUME IInv, OtherEvent PROVE IInv' /\ Kept
<1>1. UNCHANGED <<stream, call>> /\ revision' = revision + 1 /\ revision \in Nat
  BY DEF OtherEvent, IInv, StreamTypes
<1>2. \A v : State(v)' = State(v)
  BY <1>1 DEF State
<1>3. ASSUME NEW c \in Call PROVE Fits(call[c])'
  <2>1. call[c] \in Request /\ Fits(call[c]) /\ call[c].all \in Nat
    BY DEF IInv, StreamTypes, Request
  <2>2. call[c].at = "claim" => call[c].all <= revision' /\ call[c].all # revision'
    BY <1>1, <2>1 DEF Fits
  <2>. QED  BY <1>1, <1>2, <2>1, <2>2 DEF Fits
<1>. QED  BY <1>1, <1>2, <1>3 DEF IInv, StreamTypes, PreviewFirst, OneRunning, Kept

----------------------------------------------------------------------------
(* The theorems.                                                           *)

LEMMA InitInv == Init => IInv
<1> SUFFICES ASSUME Init PROVE IInv
  OBVIOUS
<1> DEFINE queued == <<"previewed", "approved">>
<1>1. \A v \in Invocation : stream[v] \in {<<>>, queued}
  BY DEF Init
<1>2. queued \in Seq(Kind) /\ <<>> \in Seq(Kind) /\ Len(queued) = 2 /\ queued[2] = "approved"
  BY DEF Kind
<1>4. StreamTypes
  <2>1. stream \in [Invocation -> Seq(Kind)]
    BY <1>2 DEF Init
  <2>. QED  BY <2>1, NoRequestFits DEF Init, StreamTypes
<1>5. \A v \in Invocation : State(v) # "running"
  <2>1. ASSUME NEW v \in Invocation, stream[v] = queued PROVE State(v) = "queued"
    BY <1>2, <2>1 DEF State, Last, After
  <2>. QED  BY <1>1, <2>1 DEF State
<1>6. PreviewFirst /\ OneRunning
  BY <1>1, <1>5 DEF PreviewFirst, OneRunning
<1>3. \A c \in Call : Fits(call[c])
  BY NoRequestFits DEF Init
<1>. QED  BY <1>3, <1>4, <1>6 DEF IInv

LEMMA StutterKeeps == ASSUME IInv, UNCHANGED vars PROVE IInv' /\ Kept
BY Quiet DEF vars, ledger, IInv, StreamTypes

LEMMA NextKeeps == IInv /\ [Next]_vars => IInv' /\ Kept
<1> SUFFICES ASSUME IInv, [Next]_vars PROVE IInv' /\ Kept
  OBVIOUS
<1>1. CASE UNCHANGED vars
  BY <1>1, StutterKeeps
<1>2. ASSUME NEW i \in Instance, NEW v \in Invocation, Preview(i, v)
      PROVE  IInv' /\ Kept
  BY <1>2, PreviewKeeps
<1>3. ASSUME NEW c \in Call, NEW v \in Invocation,
             NEW op \in {"approve", "run", "cancel"}, Begin(c, op, v)
      PROVE  IInv' /\ Kept
  BY <1>3, BeginKeeps
<1>4. ASSUME NEW c \in Call, Step(c) \/ Answer(c) \/ Lost(c) \/ Timeout(c)
      PROVE  IInv' /\ Kept
  BY <1>4, AdmitKeeps, ApproveKeeps, SurveyKeeps, ClaimKeeps, RunKeeps, CancelKeeps,
     AbortKeeps, FinishReadKeeps, FinishRecordKeeps DEF Step
<1>5. ASSUME NEW i \in Instance, Mount(i) \/ Close(i) \/ Closed(i) \/ Crash(i)
      PROVE  IInv' /\ Kept
  BY <1>5, MountKeeps, AbortKeeps, CrashKeeps
<1>6. CASE OtherEvent
  BY <1>6, OtherEventKeeps
<1>. QED  BY <1>1, <1>2, <1>3, <1>4, <1>5, <1>6 DEF Next

\* The inductive invariant holds in every reachable state: what each request
\* read still holds if the lengths its append expects do.
THEOREM InvariantHolds == Spec => []IInv
<1>1. IInv /\ [Next]_vars => IInv'
  BY NextKeeps
<1>. QED  BY InitInv, <1>1, PTL DEF Spec

\* At most one invocation runs, however many instances submit together: the
\* claim in run is conditional on the length of the whole ledger.
THEOREM OneRunningHolds == Spec => []OneRunning
<1>1. IInv => OneRunning
  BY DEF IInv
<1>. QED  BY InvariantHolds, <1>1, PTL

\* An outcome finish recorded is never replaced, whatever cancellations,
\* timeouts, answers and recoveries race.
THEOREM OutcomeIsFinal == Spec => TerminalStays
<1>1. IInv /\ [Next]_vars => [Kept]_vars
  BY NextKeeps
<1>2. [Kept]_vars => [\A v \in Invocation : State(v) \in Terminal => State(v)' = State(v)]_vars
  BY DEF Kept
<1>. QED  BY InvariantHolds, <1>1, <1>2, PTL DEF Spec, TerminalStays

----------------------------------------------------------------------------
(***************************************************************************)
(* For any number of invocations, requests, instances, crashes and changes *)
(* of policy, a document is transferred at most once, under the policy its *)
(* preview was made under, and the outcome in the ledger is one the        *)
(* workspace knows.  An invocation that was claimed has one owner, the     *)
(* request that claimed it, until that request has returned or died.       *)
(***************************************************************************)

Bound == [queued : SUBSET Invocation, ids : Seq(Invocation),
          changes : Nat, others : Nat, crashes : Nat]

Facts ==
    /\ left \in Bound
    /\ policy \in Nat /\ public \in BOOLEAN
    /\ manifest \in [Invocation -> Nat] /\ claimed \in [Invocation -> Nat]
    /\ \A v \in Invocation : manifest[v] <= policy /\ claimed[v] <= policy
    /\ service \in [Instance -> {"down", "mounting", "serving", "closing"}]
    /\ sent \in [Invocation -> Nat] /\ answered \subseteq Invocation

\* A stream is a beginning of preview, approval, claim, and may then have ended.
Course == <<"previewed", "approved", "running">>
Shape(s) ==
    /\ Len(s) <= 4
    /\ \A i \in 1..Len(s) : i < Len(s) => i <= 3 /\ s[i] = Course[i]
    /\ s # <<>> => s[Len(s)] \in Terminal \/ (Len(s) <= 3 /\ s[Len(s)] = Course[Len(s)])

HasRun(v) == Len(stream[v]) >= 3 /\ stream[v][2] = "approved" /\ stream[v][3] = "running"

\* The request that claimed an invocation, until it has recorded the outcome.
Running == {"register", "gate", "recheck", "transfer", "await", "publish"}
Ending == {"settle", "record"}
Surveying == {"survey", "claim"}
Owns(q) == q.op = "run" /\ q.at \in Running \union Ending

\* What an owner knows of its invocation.
Knows(q) ==
    /\ HasRun(q.target) /\ manifest[q.target] <= claimed[q.target]
    /\ q.at \in {"register", "gate", "recheck", "transfer"} => sent[q.target] = 0
    /\ q.at \in {"recheck", "transfer", "await", "publish"} =>
         claimed[q.target] = manifest[q.target]
    /\ q.at = "publish" => q.target \in answered
    /\ q.at \in Ending /\ q.outcome = "completed" => q.target \in answered
    /\ q.at \in Ending /\ q.outcome = "failed" =>
         sent[q.target] = 0 \/ q.target \in answered

OwnerFits(q) ==
    /\ q.at \in Surveying \union Running => q.op = "run"
    /\ q.at \in Ending /\ q.outcome \in {"completed", "failed"} => q.op = "run"
    /\ Owns(q) => Knows(q)

OneOwner ==
    \A c, d \in Call :
        Owns(call[c]) /\ Owns(call[d]) /\ call[c].target = call[d].target => c = d

Settled(v) ==
    /\ sent[v] > 0 => sent[v] = 1 /\ HasRun(v) /\ claimed[v] = manifest[v]
    /\ State(v) = "completed" => v \in answered
    /\ State(v) = "failed" =>
         /\ sent[v] = 0 \/ v \in answered
         /\ \A c \in Call : Owns(call[c]) => call[c].target # v

TInv ==
    /\ Facts
    /\ \A v \in Invocation : Shape(stream[v])
    /\ \A c \in Call : OwnerFits(call[c])
    /\ OneOwner
    /\ \A v \in Invocation : Settled(v)

----------------------------------------------------------------------------
(* Steps that leave streams and provider alone.                            *)

LEMMA Still ==
    ASSUME TInv, UNCHANGED <<stream, manifest, claimed, sent, answered>>, Facts',
           \A d \in Call : /\ OwnerFits(call'[d])
                           /\ Owns(call'[d]) => /\ Owns(call[d])
                                                /\ call'[d].target = call[d].target
    PROVE  TInv'
<1>1. \A v : State(v)' = State(v) /\ (HasRun(v)' <=> HasRun(v))
  BY DEF State, HasRun
<1>2. \A c \in Call : OwnerFits(call[c])'
  BY <1>1 DEF OwnerFits, Knows, Owns
<1>3. OneOwner'
  BY DEF TInv, OneOwner, Owns
<1>4. \A v \in Invocation : Settled(v)'
  BY <1>1 DEF TInv, Settled, Owns
<1>5. \A v \in Invocation : Shape(stream[v])'
  BY DEF TInv
<1>. QED  BY <1>2, <1>3, <1>4, <1>5 DEF TInv

LEMMA StillMoved ==
    ASSUME IInv, TInv, UNCHANGED <<stream, manifest, claimed, sent, answered>>, Facts',
           NEW c \in Call, NEW q, call' = [call EXCEPT ![c] = q],
           OwnerFits(q), Owns(q) => Owns(call[c]) /\ q.target = call[c].target
    PROVE  TInv'
<1>1. \A d \in Call : call'[d] = IF d = c THEN q ELSE call[d]
  BY DEF IInv, StreamTypes
<1>. QED  BY <1>1, Still DEF TInv

LEMMA NoOwner == OwnerFits(NoRequest) /\ ~Owns(NoRequest)
BY DEF NoRequest, OwnerFits, Owns, Surveying, Running, Ending

LEMMA StillDone ==
    ASSUME IInv, TInv, UNCHANGED <<stream, policy, public, manifest, claimed, sent, answered, left>>,
           NEW c \in Call, Done(c)
    PROVE  TInv'
<1>1. InstanceOf[c] \in Instance
  BY DocumentAssumption
<1>2. Facts'
  BY <1>1 DEF TInv, Facts, Done
<1>. QED  BY <1>2, StillMoved, NoOwner DEF Done
\* What becomes of a request's fields.
LEMMA AtFields ==
    ASSUME IInv, NEW c \in Call, NEW label \in Label
    PROVE  /\ At(c, label).at = label /\ At(c, label).op = call[c].op
           /\ At(c, label).target = call[c].target
           /\ At(c, label).outcome = call[c].outcome
<1>1. call[c] \in Request
  BY DEF IInv, StreamTypes
<1>. QED  BY <1>1 DEF At, Request

LEMMA SettleFields ==
    ASSUME IInv, NEW c \in Call, NEW state \in Terminal, Settle(c, state)
    PROVE  \E q : /\ call' = [call EXCEPT ![c] = q]
                  /\ q.at = "settle" /\ q.op = call[c].op
                  /\ q.target = call[c].target /\ q.outcome = state
<1> DEFINE q == [At(c, "settle") EXCEPT !.outcome = state, !.aborted = FALSE]
<1>1. call[c] \in Request
  BY DEF IInv, StreamTypes
<1>2. q.at = "settle" /\ q.op = call[c].op /\ q.target = call[c].target /\ q.outcome = state
  BY <1>1 DEF At, Request
<1>3. call' = [call EXCEPT ![c] = q]
  BY DEF Settle
<1>. QED  BY <1>2, <1>3

\* A request that is not running an invocation may go anywhere but there.
LEMMA StillIdle ==
    ASSUME IInv, TInv, UNCHANGED <<ledger, manifest, provider, claimed, left, service>>,
           NEW c \in Call, NEW label \in Label \ (Running \union Ending), Goto(c, label),
           label \in Surveying => call[c].op = "run"
    PROVE  TInv'
<1>1. At(c, label).at = label /\ At(c, label).op = call[c].op
  BY AtFields
<1>2. OwnerFits(At(c, label)) /\ ~Owns(At(c, label))
  BY <1>1 DEF OwnerFits, Owns
<1>3. Facts'
  BY DEF TInv, Facts, ledger, provider
<1>. QED  BY <1>2, <1>3, StillMoved DEF Goto, ledger, provider

LEMMA BeginStill ==
    ASSUME IInv, TInv, NEW c \in Call, NEW v \in Invocation,
           NEW op \in {"approve", "run", "cancel"}, Begin(c, op, v)
    PROVE  TInv'
<1> DEFINE q == [NoRequest EXCEPT !.at = "authorize", !.op = op, !.target = v,
                                  !.seen = State(v)]
<1>1. q.at = "authorize"
  BY DEF NoRequest
<1>2. OwnerFits(q) /\ ~Owns(q)
  BY <1>1 DEF OwnerFits, Owns, Surveying, Running, Ending
<1>3. Facts' /\ call' = [call EXCEPT ![c] = q]
  BY DEF Begin, TInv, Facts, Unmoved, ledger, provider
<1>. QED  BY <1>2, <1>3, StillMoved DEF Begin, Unmoved, ledger, provider

LEMMA AdmitStill ==
    ASSUME IInv, TInv, NEW c \in Call, Admit(c) \/ Revalidate(c)
    PROVE  TInv'
<1>1. UNCHANGED <<ledger, manifest, provider, claimed, left>>
  BY DEF Admit, Revalidate, Unmoved
<1>2. \/ Done(c)
      \/ UNCHANGED service /\ \E label \in {"revalidate", "survey", "approve"} :
            Goto(c, label) /\ (label = "survey" => call[c].op = "run")
  BY DEF Admit, Revalidate
<1>3. {"revalidate", "survey", "approve"} \subseteq Label \ (Running \union Ending)
  BY DEF Label, Running, Ending
<1>. QED  BY <1>1, <1>2, <1>3, StillDone, StillIdle DEF Surveying, ledger, provider

LEMMA SurveyStill == ASSUME IInv, TInv, NEW c \in Call, Survey(c) PROVE TInv'
<1> DEFINE q == [call[c] EXCEPT !.at = "claim", !.all = revision,
                                !.own = Len(stream[call[c].target])]
<1>1. call[c] \in Request /\ call[c].op = "run"
  BY DEF IInv, StreamTypes, TInv, OwnerFits, Survey, Surveying
<1>2. q.at = "claim" /\ q.op = "run"
  BY <1>1 DEF Request
<1>3. OwnerFits(q) /\ ~Owns(q)
  BY <1>2 DEF OwnerFits, Owns, Surveying, Running, Ending
<1>4. CASE call' = [call EXCEPT ![c] = q] /\ UNCHANGED service
  <2>1. Facts'
    BY <1>4 DEF Survey, TInv, Facts, Unmoved, ledger, provider
  <2>. QED  BY <1>3, <1>4, <2>1, StillMoved DEF Survey, Unmoved, ledger, provider
<1>5. CASE Done(c)
  BY <1>5, StillDone DEF Survey, Unmoved, ledger, provider
<1>. QED  BY <1>4, <1>5 DEF Survey

\* The steps of a run that neither transfer nor hear from the provider.
LEMMA RunStill ==
    ASSUME IInv, TInv, NEW c \in Call,
           \/ Register(c) \/ Gate(c) \/ Recheck(c)
           \/ Interrupted(c) \/ Lost(c) \/ Publish(c)
    PROVE  TInv'
<1> DEFINE v == call[c].target
<1>1. /\ UNCHANGED <<ledger, manifest, provider, claimed, left, service>>
      /\ call[c].at \in Running
  BY DEF Register, Gate, Recheck, Interrupted, Lost, Publish, Unmoved, Running
<1>2. OwnerFits(call[c]) /\ Owns(call[c]) /\ Knows(call[c])
  BY <1>1 DEF TInv, OwnerFits, Owns
<1>3. v \in Invocation /\ call[c].op = "run"
  BY <1>1, <1>2 DEF IInv, Fits, Running, OwnerFits
<1>4. Facts'
  BY <1>1 DEF TInv, Facts, ledger, provider
<1>5. ASSUME NEW label \in {"gate", "recheck", "transfer"}, Goto(c, label),
             sent[v] = 0, label # "gate" => claimed[v] = manifest[v]
      PROVE  TInv'
  <2>1. label \in Label /\ label \in Running \ (Ending \union {"publish"})
    BY DEF Label, Running, Ending
  <2>2. /\ At(c, label).at = label /\ At(c, label).op = "run"
        /\ At(c, label).target = v
    BY <1>3, <2>1, AtFields
  <2>3. Knows(At(c, label))
    BY <1>2, <1>5, <2>1, <2>2 DEF Knows
  <2>4. OwnerFits(At(c, label)) /\ Owns(At(c, label))
    BY <2>1, <2>2, <2>3 DEF OwnerFits, Owns
  <2>. QED  BY <1>1, <1>2, <1>4, <1>5, <2>2, <2>4, StillMoved DEF Goto, ledger, provider
<1>6. ASSUME NEW state \in {"completed", "failed", "uncertain"}, Settle(c, state),
             state = "completed" => v \in answered,
             state = "failed" => sent[v] = 0 \/ v \in answered
      PROVE  TInv'
  <2>1. state \in Terminal
    BY DEF Terminal
  <2>2. PICK q : /\ call' = [call EXCEPT ![c] = q]
                 /\ q.at = "settle" /\ q.op = "run" /\ q.target = v /\ q.outcome = state
    BY <1>3, <1>6, <2>1, SettleFields
  <2>3. Knows(q) /\ Owns(q)
    BY <1>2, <1>6, <2>2 DEF Knows, Owns, Ending
  <2>4. OwnerFits(q)
    BY <2>2, <2>3 DEF OwnerFits, Surveying, Running
  <2>. QED  BY <1>1, <1>2, <1>4, <2>2, <2>3, <2>4, StillMoved DEF ledger, provider
<1>7. CASE Register(c)
  BY <1>2, <1>5, <1>7 DEF Register, Knows
<1>8. CASE Gate(c)
  <2>1. call[c].at = "gate" /\ sent[v] = 0
    BY <1>2, <1>8 DEF Gate, Knows
  <2>2. Current(v) => claimed[v] = manifest[v]
    BY <1>2, <1>3 DEF Current, Knows, TInv, Facts
  <2>. QED  BY <1>5, <1>6, <1>8, <2>1, <2>2 DEF Gate
<1>9. CASE Recheck(c)
  <2>1. call[c].at = "recheck" /\ sent[v] = 0 /\ claimed[v] = manifest[v]
    BY <1>2, <1>9 DEF Recheck, Knows
  <2>. QED  BY <1>5, <1>6, <1>9, <2>1 DEF Recheck
<1>10. CASE Interrupted(c) \/ Lost(c)
  <2>1. call[c].at # "await" => call[c].at \in {"gate", "recheck", "transfer"}
    BY <1>10 DEF Interrupted, Lost
  <2>2. call[c].at # "await" => sent[v] = 0
    BY <1>2, <2>1 DEF Knows
  <2>. QED  BY <1>6, <1>10, <2>2 DEF Interrupted, Lost
<1>11. CASE Publish(c)
  <2>1. v \in answered
    BY <1>2, <1>11 DEF Publish, Knows
  <2>. QED  BY <1>6, <1>11, <2>1 DEF Publish
<1>. QED  BY <1>7, <1>8, <1>9, <1>10, <1>11
\* Aborting a request only raises its flag.
LEMMA AbortFields ==
    ASSUME IInv, TInv, NEW requests, NEW r \in Call
    PROVE  LET q == Abort(requests)[r]
           IN  /\ OwnerFits(q) /\ q.target = call[r].target
               /\ Owns(q) <=> Owns(call[r])
<1>1. call[r] \in Request /\ OwnerFits(call[r])
  BY DEF IInv, StreamTypes, TInv
<1> DEFINE q == Abort(requests)[r]
<1>2. /\ q.at = call[r].at /\ q.op = call[r].op /\ q.target = call[r].target
      /\ q.outcome = call[r].outcome
  BY <1>1 DEF Abort, Request
<1>. QED  BY <1>1, <1>2 DEF OwnerFits, Owns, Knows

LEMMA CancelStill == ASSUME IInv, TInv, NEW c \in Call, Cancel(c) PROVE TInv'
<1>1. UNCHANGED <<ledger, manifest, provider, claimed, left>>
  BY DEF Cancel, Unmoved
<1>2. CASE Done(c)
  BY <1>1, <1>2, StillDone DEF ledger, provider
<1>3. ASSUME NEW requests, NEW state \in {"uncertain", "canceled"}, UNCHANGED service,
             call' = [Abort(requests) EXCEPT ![c] =
                        [At(c, "settle") EXCEPT !.outcome = state]]
      PROVE  TInv'
  <2> DEFINE q == [At(c, "settle") EXCEPT !.outcome = state]
  <2>1. q.at = "settle" /\ q.op = call[c].op /\ q.outcome = state
    <3>1. call[c] \in Request
      BY DEF IInv, StreamTypes
    <3>. QED  BY <3>1 DEF At, Request
  <2>2. call[c].op = "cancel" \/ Done(c)
    BY DEF Cancel
  <2>3. CASE call[c].op = "cancel"
    <3>1. OwnerFits(q) /\ ~Owns(q)
      BY <2>1, <2>3 DEF OwnerFits, Owns, Surveying, Running
    <3>2. ASSUME NEW d \in Call
          PROVE  /\ OwnerFits(call'[d])
                 /\ Owns(call'[d]) => Owns(call[d]) /\ call'[d].target = call[d].target
      <4>1. CASE d = c
        <5>1. call'[d] = q
          BY <1>3, <4>1 DEF Abort
        <5>. QED  BY <3>1, <5>1
      <4>2. CASE d # c
        <5>1. call'[d] = Abort(requests)[d]
          BY <1>3, <4>2 DEF Abort
        <5>. QED  BY <5>1, AbortFields
      <4>. QED  BY <4>1, <4>2
    <3>3. Facts'
      BY <1>1, <1>3 DEF TInv, Facts, ledger, provider
    <3>. QED  BY <1>1, <3>2, <3>3, Still DEF ledger, provider
  <2>. QED  BY <1>2, <2>2, <2>3
<1>4. SUFFICES ASSUME ~Done(c) PROVE TInv'
  BY <1>2
<1>5. CASE call[c].seen = "running"
  BY <1>3, <1>4, <1>5 DEF Cancel
<1>6. CASE call[c].seen # "running"
  BY <1>3, <1>4, <1>6 DEF Cancel
<1>. QED  BY <1>5, <1>6

LEMMA AbortStill ==
    ASSUME IInv, TInv, (\E c \in Call : Timeout(c)) \/ (\E i \in Instance : Close(i))
    PROVE  TInv'
<1>1. UNCHANGED <<ledger, manifest, provider, claimed, left>>
  BY DEF Timeout, Close, Unmoved
<1>2. PICK requests : call' = Abort(requests)
  BY DEF Timeout, Close
<1>3. Facts'
  BY <1>1 DEF Timeout, Close, TInv, Facts, ledger, provider
<1>. QED  BY <1>1, <1>2, <1>3, Still, AbortFields DEF ledger, provider

LEMMA FinishReadStill == ASSUME IInv, TInv, NEW c \in Call, FinishRead(c) PROVE TInv'
<1> DEFINE q == [call[c] EXCEPT !.at = "record", !.own = Len(stream[call[c].target])]
<1>1. call[c] \in Request /\ OwnerFits(call[c]) /\ call[c].at = "settle"
  BY DEF IInv, StreamTypes, TInv, FinishRead
<1>2. CASE Done(c)
  BY <1>2, StillDone DEF FinishRead, Unmoved, ledger, provider
<1>3. CASE call' = [call EXCEPT ![c] = q] /\ UNCHANGED service
  <2>1. /\ q.at = "record" /\ q.op = call[c].op /\ q.target = call[c].target
        /\ q.outcome = call[c].outcome
    BY <1>1 DEF Request
  <2>2. Owns(q) <=> Owns(call[c])
    BY <1>1, <2>1 DEF Owns, Ending
  <2>3. Owns(q) => Knows(q)
    BY <1>1, <2>1, <2>2 DEF OwnerFits, Knows, Ending
  <2>4. OwnerFits(q)
    BY <1>1, <2>1, <2>3 DEF OwnerFits, Surveying, Running, Ending
  <2>5. Facts'
    BY <1>3 DEF FinishRead, TInv, Facts, Unmoved, ledger, provider
  <2>. QED  BY <1>3, <2>1, <2>2, <2>4, <2>5, StillMoved DEF FinishRead, Unmoved, ledger, provider
<1>. QED  BY <1>2, <1>3 DEF FinishRead

LEMMA MountStill == ASSUME IInv, TInv, NEW i \in Instance, Mount(i) PROVE TInv'
<1>1. /\ UNCHANGED <<ledger, manifest, provider, claimed, left>>
      /\ service' \in [Instance -> {"down", "mounting", "serving", "closing"}]
  BY DEF Mount, Unmoved, TInv, Facts
<1>2. Facts'
  BY <1>1 DEF TInv, Facts, ledger, provider
<1>3. CASE UNCHANGED call
  BY <1>1, <1>2, <1>3, Still DEF TInv, ledger, provider
<1>4. ASSUME NEW v \in Invocation, NEW c \in Call,
             call' = [call EXCEPT ![c] = [NoRequest EXCEPT
                    !.at = "settle", !.op = "recover", !.target = v,
                    !.outcome = "uncertain"]]
      PROVE  TInv'
  <2> DEFINE q == [NoRequest EXCEPT !.at = "settle", !.op = "recover", !.target = v,
                                    !.outcome = "uncertain"]
  <2>1. q.at = "settle" /\ q.op = "recover" /\ q.outcome = "uncertain"
    BY DEF NoRequest
  <2>2. OwnerFits(q) /\ ~Owns(q)
    BY <2>1 DEF OwnerFits, Owns, Surveying, Running
  <2>. QED  BY <1>1, <1>2, <1>4, <2>2, StillMoved DEF ledger, provider
<1>. QED  BY <1>3, <1>4 DEF Mount

LEMMA CrashStill ==
    ASSUME IInv, TInv, NEW i \in Instance, Closed(i) \/ Crash(i)
    PROVE  TInv'
<1>1. /\ UNCHANGED <<ledger, manifest, provider, claimed>>
      /\ call' = [c \in Call |-> IF InstanceOf[c] = i THEN NoRequest ELSE call[c]]
  BY DEF Closed, Crash, Unmoved
<1>2. service' \in [Instance -> {"down", "mounting", "serving", "closing"}]
  BY DEF Closed, Crash, TInv, Facts
<1>3. left' \in Bound
  <2>1. left \in Bound
    BY DEF TInv, Facts
  <2>2. left.crashes > 0 => [left EXCEPT !.crashes = @ - 1] \in Bound
    BY <2>1 DEF Bound
  <2>. QED  BY <2>1, <2>2 DEF Closed, Crash, Unmoved
<1>4. Facts'
  BY <1>1, <1>2, <1>3 DEF TInv, Facts, ledger, provider
<1>. QED  BY <1>1, <1>4, Still, NoOwner DEF TInv, ledger, provider

LEMMA OtherEventStill == ASSUME IInv, TInv, OtherEvent PROVE TInv'
<1>1. UNCHANGED <<stream, manifest, claimed, sent, answered, call, service>>
  BY DEF OtherEvent, provider
<1>2. policy' \in Nat /\ policy' >= policy /\ public' \in BOOLEAN
  BY DEF OtherEvent, TInv, Facts
<1>3. left' \in Bound
  <2>1. left \in Bound
    BY DEF TInv, Facts
  <2>2. left.others > 0 => [left EXCEPT !.others = @ - 1] \in Bound
    BY <2>1 DEF Bound
  <2>3. left.others > 0 /\ left.changes > 0 =>
          [left EXCEPT !.others = @ - 1, !.changes = @ - 1] \in Bound
    <3>1. \A b \in Bound : \A m \in Nat, n \in Nat :
            [b EXCEPT !.others = m, !.changes = n] \in Bound
      BY DEF Bound
    <3>2. left.others > 0 /\ left.changes > 0 =>
            left.others - 1 \in Nat /\ left.changes - 1 \in Nat
      BY <2>1 DEF Bound
    <3>. QED  BY <2>1, <3>1, <3>2
  <2>. QED  BY <2>2, <2>3 DEF OtherEvent
<1>4. \A v \in Invocation : manifest[v] <= policy' /\ claimed[v] <= policy'
  BY <1>2 DEF TInv, Facts
<1>5. Facts'
  BY <1>1, <1>2, <1>3, <1>4 DEF TInv, Facts
<1>. QED  BY <1>1, <1>5, Still DEF TInv

----------------------------------------------------------------------------
(* Steps that append an event to a stream.                                 *)

\* What an event adds to a stream that has not ended.
LEMMA Lengthened ==
    ASSUME IInv, TInv, NEW v \in Invocation, NEW kind \in Kind, AppendTo(v, kind)
    PROVE  /\ stream'[v] = Append(stream[v], kind)
           /\ State(v)' = After(kind)
           /\ HasRun(v) => HasRun(v)'
           /\ \A u \in Invocation \ {v} : /\ stream'[u] = stream[u]
                                          /\ State(u)' = State(u)
                                          /\ HasRun(u)' <=> HasRun(u)
<1>1. StreamTypes /\ stream[v] \in Seq(Kind)
  BY DEF IInv, StreamTypes
<1>2. stream'[v] = Append(stream[v], kind)
  BY <1>1 DEF AppendTo, StreamTypes
<1>3. HasRun(v) => HasRun(v)'
  BY <1>1, <1>2 DEF HasRun
<1>4. State(v)' = After(kind) /\ \A u \in Invocation \ {v} : stream'[u] = stream[u] /\ State(u)' = State(u)
  BY <1>1, Grown
<1>. QED  BY <1>2, <1>3, <1>4 DEF HasRun

\* What an owner knows stays known while its invocation is left alone.
LEMMA StillFits ==
    ASSUME NEW q, OwnerFits(q), answered \subseteq answered',
           Owns(q) => /\ HasRun(q.target) => HasRun(q.target)'
                      /\ manifest'[q.target] = manifest[q.target]
                      /\ claimed'[q.target] = claimed[q.target]
                      /\ sent'[q.target] = sent[q.target]
    PROVE  OwnerFits(q)'
BY DEF OwnerFits, Owns, Knows
LEMMA AppendedOne ==
    ASSUME IInv, TInv, NEW v \in Invocation, NEW kind \in Kind, AppendTo(v, kind),
           UNCHANGED provider, Facts', Shape(stream'[v]), OneOwner', Settled(v)',
           \A d \in Call : OwnerFits(call[d])',
           \A d \in Call : Owns(call'[d]) =>
                \/ call'[d].target = v
                \/ Owns(call[d]) /\ call'[d].target = call[d].target,
           \A u \in Invocation \ {v} : manifest'[u] = manifest[u] /\ claimed'[u] = claimed[u]
    PROVE  TInv'
<1>1. \A u \in Invocation \ {v} :
        stream'[u] = stream[u] /\ State(u)' = State(u) /\ (HasRun(u)' <=> HasRun(u))
  BY Lengthened
<1>2. \A u \in Invocation : Shape(stream[u])'
  BY <1>1 DEF TInv
<1>3. ASSUME NEW u \in Invocation \ {v} PROVE Settled(u)'
  BY <1>1, <1>3 DEF TInv, Settled, provider, Owns
<1>. QED  BY <1>2, <1>3 DEF TInv

LEMMA PreviewKeepsTInv ==
    ASSUME IInv, TInv, NEW i \in Instance, NEW v \in Invocation, Preview(i, v)
    PROVE  TInv'
<1>1. /\ AppendTo(v, "previewed") /\ stream[v] = <<>> /\ "previewed" \in Kind
      /\ UNCHANGED <<service, call, provider, claimed>>
  BY DEF Preview, Kind
<1>2. PICK built \in 0..policy : manifest' = [manifest EXCEPT ![v] = built]
  BY DEF Preview
<1>3. stream'[v] = <<"previewed">> /\ State(v)' = "awaiting_approval" /\ ~HasRun(v)
  BY <1>1, Lengthened DEF After, HasRun
<1>4. Shape(stream'[v])
  BY <1>3 DEF Shape, Course
<1>5. left' \in Bound
  <2>1. left \in Bound /\ left.ids \in Seq(Invocation) /\ left.ids # <<>>
    BY DEF TInv, Facts, Bound, Preview
  <2>2. Tail(left.ids) \in Seq(Invocation)
    BY <2>1
  <2>3. \A b \in Bound : \A ids \in Seq(Invocation) : [b EXCEPT !.ids = ids] \in Bound
    BY DEF Bound
  <2>. QED  BY <2>1, <2>2, <2>3 DEF Preview
<1>6. Facts'
  BY <1>1, <1>2, <1>5 DEF TInv, Facts, provider, AppendTo
<1>7. \A d \in Call : Owns(call[d]) => call[d].target # v /\ call[d].target \in Invocation
  BY <1>3 DEF TInv, OwnerFits, Knows, IInv, Fits, Owns, Running, Ending
<1>8. \A d \in Call : OwnerFits(call[d])'
  <2>1. ASSUME NEW q, \E d \in Call : q = call[d] PROVE OwnerFits(q)'
    <3>1. OwnerFits(q) /\ (Owns(q) => q.target # v /\ q.target \in Invocation)
      BY <1>7, <2>1 DEF TInv
    <3>2. Owns(q) => /\ HasRun(q.target) => HasRun(q.target)'
                     /\ manifest'[q.target] = manifest[q.target]
                     /\ claimed'[q.target] = claimed[q.target]
      BY <1>1, <1>2, <3>1, Lengthened DEF TInv, Facts
    <3>. QED  BY <1>1, <3>1, <3>2, StillFits DEF provider
  <2>. QED  BY <1>1, <2>1 DEF OwnerFits, Owns, Knows
<1>9. OneOwner'
  BY <1>1 DEF TInv, OneOwner, Owns
<1>10. Settled(v)'
  BY <1>1, <1>3 DEF TInv, Settled, provider, Facts
<1>11. \A u \in Invocation \ {v} : manifest'[u] = manifest[u] /\ claimed'[u] = claimed[u]
  BY <1>1, <1>2 DEF TInv, Facts
<1>. QED  BY <1>1, <1>4, <1>6, <1>8, <1>9, <1>10, <1>11, AppendedOne DEF Owns
\* What was left alone of the invocations that others run.
LEMMA OthersFit ==
    ASSUME IInv, TInv, NEW c \in Call, NEW q, call' = [call EXCEPT ![c] = q],
           OwnerFits(q)', answered \subseteq answered',
           \A r : (\E d \in Call \ {c} : r = call[d]) /\ Owns(r) =>
                /\ HasRun(r.target) => HasRun(r.target)'
                /\ manifest'[r.target] = manifest[r.target]
                /\ claimed'[r.target] = claimed[r.target]
                /\ sent'[r.target] = sent[r.target]
    PROVE  \A d \in Call : OwnerFits(call[d])'
<1>1. ASSUME NEW r, \E d \in Call \ {c} : r = call[d] PROVE OwnerFits(r)'
  <2>1. OwnerFits(r)
    BY <1>1 DEF TInv
  <2>. QED  BY <1>1, <2>1, StillFits
<1>2. \A d \in Call : call'[d] = IF d = c THEN q ELSE call[d]
  BY DEF IInv, StreamTypes
<1>. QED  BY <1>1, <1>2 DEF OwnerFits, Owns, Knows

LEMMA OwnersTargets ==
    ASSUME IInv, TInv, NEW d \in Call, Owns(call[d])
    PROVE  call[d].target \in Invocation /\ HasRun(call[d].target) /\ Knows(call[d])
BY DEF IInv, Fits, TInv, OwnerFits, Knows, Owns, Running, Ending

\* A request that is done owns nothing.
LEMMA DoneOwners ==
    ASSUME IInv, TInv, NEW c \in Call, Done(c)
    PROVE  /\ \A d \in Call : Owns(call'[d]) => d # c /\ call'[d] = call[d]
           /\ OneOwner'
<1>1. \A d \in Call : call'[d] = IF d = c THEN NoRequest ELSE call[d]
  BY DEF Done, IInv, StreamTypes
<1>2. \A d \in Call : Owns(call'[d]) => d # c /\ call'[d] = call[d]
  BY <1>1, NoOwner
<1>. QED  BY <1>2 DEF TInv, OneOwner, Owns

LEMMA ApproveKeepsTInv ==
    ASSUME IInv, TInv, NEW c \in Call, Approve(c),
           NEW v \in Invocation, v = call[c].target
    PROVE  TInv'
<1>1. /\ stream[v] # <<>> /\ stream[v] \in Seq(Kind) /\ Done(c)
      /\ UNCHANGED <<manifest, provider, claimed, left>>
  BY DEF Approve, IInv, Fits, StreamTypes, Unmoved
<1>2. CASE Len(stream[v]) # 1
  BY <1>1, <1>2, StillDone DEF Approve, ledger, provider
<1>3. CASE Len(stream[v]) = 1
  <2>1. AppendTo(v, "approved") /\ "approved" \in Kind
    BY <1>3 DEF Approve, Kind
  <2>2. stream[v][1] = "previewed" /\ ~HasRun(v)
    BY <1>1, <1>3 DEF IInv, PreviewFirst, HasRun
  <2>3. stream'[v] = Append(stream[v], "approved") /\ State(v)' = "queued"
    BY <1>1, <2>1, Lengthened DEF After
  <2>4. Shape(stream'[v])
    BY <1>1, <1>3, <2>2, <2>3 DEF Shape, Course
  <2>5. InstanceOf[c] \in Instance
    BY DocumentAssumption
  <2>6. Facts'
    BY <1>1, <2>1, <2>5 DEF TInv, Facts, Done, provider, AppendTo
  <2>7. \A d \in Call : OwnerFits(call[d])'
    <3>1. \A r : (\E d \in Call : r = call[d]) /\ Owns(r) =>
                (HasRun(r.target) => HasRun(r.target)')
      BY <1>1, <2>1, OwnersTargets, Lengthened
    <3>2. OwnerFits(NoRequest)'
      BY DEF NoRequest, OwnerFits, Owns, Surveying, Running, Ending
    <3>. QED  BY <1>1, <3>1, <3>2, OthersFit DEF Done, provider
  <2>8. Settled(v)'
    BY <1>1, <2>2, <2>3 DEF TInv, Settled, provider, Facts
  <2>. QED
    BY <1>1, <2>1, <2>4, <2>6, <2>7, <2>8, DoneOwners, AppendedOne
<1>. QED  BY <1>2, <1>3

\* An outcome may follow any beginning of the course.
LEMMA OutcomeFits ==
    ASSUME NEW s \in Seq(Kind), Shape(s), s # <<>>, s[Len(s)] \notin Terminal,
           NEW kind \in Terminal
    PROVE  Shape(Append(s, kind))
<1> DEFINE n == Len(s)
           t == Append(s, kind)
<1>1. n \in Nat /\ n # 0 /\ n <= 3 /\ s[n] = Course[n]
  BY DEF Shape
<1>2. \A i \in 1..n : i <= 3 /\ s[i] = Course[i]
  <2>1. TAKE i \in 1..n
  <2>2. CASE i = n
    BY <1>1, <2>2
  <2>3. CASE i # n
    BY <1>1, <2>1, <2>3 DEF Shape
  <2>. QED  BY <2>2, <2>3
<1>3. /\ Len(t) = n + 1 /\ t[n + 1] = kind /\ t # <<>>
      /\ \A i \in 1..n : t[i] = s[i]
  BY <1>1
<1>4. \A i \in 1..Len(t) : i < Len(t) => i <= 3 /\ t[i] = Course[i]
  <2>1. TAKE i \in 1..Len(t)
  <2>2. i < Len(t) => i \in 1..n
    BY <1>1, <1>3, <2>1
  <2>. QED  BY <1>2, <1>3, <2>2
<1>5. Len(t) <= 4 /\ t[Len(t)] \in Terminal
  BY <1>1, <1>3
<1>. QED  BY <1>4, <1>5 DEF Shape

LEMMA FinishRecordKeepsTInv ==
    ASSUME IInv, TInv, NEW c \in Call, FinishRecord(c),
           NEW v \in Invocation, v = call[c].target,
           NEW kind \in Terminal, kind = call[c].outcome
    PROVE  TInv'
<1>1. /\ stream[v] # <<>> /\ stream[v] \in Seq(Kind) /\ Done(c)
      /\ call[c].at = "record"
      /\ UNCHANGED <<manifest, provider, claimed, left>>
  BY DEF FinishRecord, IInv, Fits, StreamTypes, Unmoved
<1>2. CASE ~RecordExpected(c)
  BY <1>1, <1>2, StillDone DEF FinishRecord, ledger, provider
<1>3. CASE RecordExpected(c)
  <2>1. AppendTo(v, kind) /\ kind \in Kind /\ State(v) \notin Terminal
    BY <1>1, <1>3 DEF FinishRecord, RecordExpected, IInv, Fits, Kind, Terminal
  <2>2. stream'[v] = Append(stream[v], kind) /\ State(v)' = kind
    BY <1>1, <2>1, Lengthened DEF After, Terminal
  <2>3. stream[v][Len(stream[v])] \notin Terminal
    BY <1>1, <2>1 DEF State, Last, After, Terminal
  <2>4. Shape(stream[v])
    BY DEF TInv
  <2>5. Shape(stream'[v])
    BY <1>1, <2>2, <2>3, <2>4, OutcomeFits
  <2>6. InstanceOf[c] \in Instance
    BY DocumentAssumption
  <2>7. Facts'
    BY <1>1, <2>1, <2>6 DEF TInv, Facts, Done, provider, AppendTo
  <2>8. \A d \in Call : OwnerFits(call[d])'
    <3>1. \A r : (\E d \in Call : r = call[d]) /\ Owns(r) =>
                (HasRun(r.target) => HasRun(r.target)')
      BY <1>1, <2>1, OwnersTargets, Lengthened
    <3>2. OwnerFits(NoRequest)'
      BY DEF NoRequest, OwnerFits, Owns, Surveying, Running, Ending
    <3>. QED  BY <1>1, <3>1, <3>2, OthersFit DEF Done, provider
  <2>9. kind \in {"completed", "failed"} => Owns(call[c]) /\ Knows(call[c])
    BY <1>1 DEF TInv, OwnerFits, Owns, Ending
  <2>10. Settled(v)'
    <3>1. sent[v] > 0 => sent[v] = 1 /\ HasRun(v)' /\ claimed[v] = manifest[v]
      BY <1>1, <2>1, Lengthened DEF TInv, Settled
    <3>2. kind = "completed" => v \in answered
      BY <1>1, <2>9 DEF Knows, Ending
    <3>3. kind = "failed" => sent[v] = 0 \/ v \in answered
      BY <1>1, <2>9 DEF Knows, Ending
    <3>4. kind = "failed" => \A d \in Call : Owns(call'[d]) => call'[d].target # v
      BY <1>1, <2>9, DoneOwners DEF TInv, OneOwner
    <3>. QED  BY <1>1, <2>2, <3>1, <3>2, <3>3, <3>4 DEF Settled, provider, Owns
  <2>. QED
    BY <1>1, <2>1, <2>5, <2>7, <2>8, <2>10, DoneOwners, AppendedOne
<1>. QED  BY <1>2, <1>3
\* A queued invocation has no owner yet; the claim makes the only one.
LEMMA ClaimKeepsTInv ==
    ASSUME IInv, TInv, NEW c \in Call, Claim(c),
           NEW v \in Invocation, v = call[c].target
    PROVE  TInv'
<1>1. /\ stream[v] # <<>> /\ stream[v] \in Seq(Kind) /\ call[c].at = "claim"
      /\ UNCHANGED <<manifest, provider, left>>
  BY DEF Claim, IInv, Fits, StreamTypes
<1>2. CASE ~ClaimExpected(c)
  BY <1>1, <1>2, StillDone DEF Claim, ledger, provider
<1>3. CASE ClaimExpected(c)
  <2>1. /\ AppendTo(v, "running") /\ "running" \in Kind /\ State(v) = "queued"
        /\ Goto(c, "register") /\ claimed' = [claimed EXCEPT ![v] = policy]
        /\ UNCHANGED service
    BY <1>1, <1>3 DEF Claim, ClaimExpected, IInv, Fits, Kind
  <2>2. stream[v][Len(stream[v])] = "approved"
    <3>1. Last(stream[v]) \in Kind /\ After(Last(stream[v])) = "queued"
      <4>1. Last(stream[v]) = stream[v][Len(stream[v])] /\ Len(stream[v]) \in 1..Len(stream[v])
        BY <1>1 DEF Last
      <4>. QED  BY <1>1, <2>1, <4>1 DEF State
    <3>2. Last(stream[v]) = "approved"
      BY <3>1 DEF After, Kind, Terminal
    <3>. QED  BY <3>2 DEF Last
  <2>3. Len(stream[v]) = 2 /\ stream[v][1] = "previewed" /\ stream[v][2] = "approved"
    <3>1. Shape(stream[v])
      BY DEF TInv
    <3>2. Len(stream[v]) <= 3 /\ Course[Len(stream[v])] = "approved"
      <4>1. "approved" \notin Terminal
        BY DEF Terminal
      <4>2. \/ stream[v][Len(stream[v])] \in Terminal
            \/ Len(stream[v]) <= 3 /\ stream[v][Len(stream[v])] = Course[Len(stream[v])]
        BY <1>1, <3>1 DEF Shape
      <4>. QED  BY <2>2, <4>1, <4>2
    <3>3. Len(stream[v]) \in {1, 2, 3}
      <4>1. Len(stream[v]) \in Nat /\ Len(stream[v]) # 0 /\ Len(stream[v]) <= 3
        BY <1>1, <3>2
      <4>2. \A n \in Nat : n # 0 /\ n <= 3 => n \in {1, 2, 3}
        OBVIOUS
      <4>. QED  BY <4>1, <4>2
    <3>4. Len(stream[v]) = 2
      <4>1. Course[1] = "previewed" /\ Course[3] = "running"
        BY DEF Course
      <4>. QED  BY <3>2, <3>3, <4>1
    <3>. QED  BY <1>1, <2>2, <3>4 DEF IInv, PreviewFirst
  <2>4. stream'[v] = Append(stream[v], "running") /\ State(v)' = "running"
    BY <2>1, Lengthened DEF After
  <2>5. HasRun(v)' /\ ~HasRun(v)
    BY <1>1, <2>3, <2>4 DEF HasRun
  <2>6. Shape(stream'[v])
    <3>1. /\ Len(stream'[v]) = 3 /\ stream'[v][1] = "previewed"
          /\ stream'[v][2] = "approved" /\ stream'[v][3] = "running"
      BY <1>1, <2>3, <2>4
    <3>2. \A i \in 1..3 : i = 1 \/ i = 2 \/ i = 3
      OBVIOUS
    <3>. QED  BY <3>1, <3>2 DEF Shape, Course
  <2>7. Facts'
    BY <1>1, <2>1 DEF TInv, Facts, provider, AppendTo
  <2>8. \A d \in Call : Owns(call[d]) => call[d].target # v
    BY <2>5, OwnersTargets
  <2>9. sent[v] = 0 /\ claimed'[v] = policy /\ manifest[v] <= policy
    BY <2>1, <2>5 DEF TInv, Settled, Facts
  <2>10. PICK q : q = At(c, "register")
    OBVIOUS
  <2>11. /\ q.at = "register" /\ q.op = "run" /\ q.target = v
         /\ call' = [call EXCEPT ![c] = q]
    <3>1. call[c].op = "run" /\ "register" \in Label
      BY <1>1 DEF TInv, OwnerFits, Surveying, Label
    <3>. QED  BY <2>1, <2>10, <3>1, AtFields DEF Goto
  <2>12. OwnerFits(q)'
    <3>1. manifest'[v] <= claimed'[v] /\ sent'[v] = 0
      BY <1>1, <2>9 DEF provider
    <3>. QED  BY <2>5, <2>11, <3>1 DEF OwnerFits, Knows, Surveying, Running, Ending
  <2>13. \A d \in Call : OwnerFits(call[d])'
    <3>1. \A r : (\E d \in Call : r = call[d]) /\ Owns(r) =>
                /\ r.target \in Invocation \ {v}
                /\ HasRun(r.target) => HasRun(r.target)'
      BY <2>1, <2>8, OwnersTargets, Lengthened
    <3>2. \A u \in Invocation \ {v} : claimed'[u] = claimed[u]
      BY <2>1 DEF TInv, Facts
    <3>. QED  BY <1>1, <2>11, <2>12, <3>1, <3>2, OthersFit DEF provider
  <2>14. \A d \in Call : call'[d] = IF d = c THEN q ELSE call[d]
    BY <2>11 DEF IInv, StreamTypes
  <2>15. OneOwner'
    BY <2>8, <2>11, <2>14 DEF TInv, OneOwner, Owns
  <2>16. Settled(v)'
    BY <1>1, <2>4, <2>9 DEF Settled, provider
  <2>17. \A d \in Call : Owns(call'[d]) =>
            call'[d].target = v \/ (Owns(call[d]) /\ call'[d].target = call[d].target)
    BY <2>11, <2>14
  <2>18. \A u \in Invocation \ {v} : manifest'[u] = manifest[u] /\ claimed'[u] = claimed[u]
    BY <1>1, <2>1 DEF TInv, Facts
  <2>. QED
    BY <1>1, <2>1, <2>6, <2>7, <2>13, <2>15, <2>16, <2>17, <2>18, AppendedOne
<1>. QED  BY <1>2, <1>3

----------------------------------------------------------------------------
(* The transfer, and the provider's answer.                                *)

LEMMA ProviderKeepsTInv ==
    ASSUME IInv, TInv, NEW c \in Call, Transfer(c) \/ Answer(c),
           NEW v \in Invocation, v = call[c].target
    PROVE  TInv'
<1>1. /\ UNCHANGED <<stream, policy, public, manifest, claimed, left, service>>
      /\ call[c].at \in Running
  BY DEF Transfer, Answer, Running, ledger
<1>2. OwnerFits(call[c]) /\ Owns(call[c]) /\ Knows(call[c]) /\ call[c].op = "run"
  BY <1>1 DEF TInv, OwnerFits, Owns
<1>3. \A u : State(u)' = State(u) /\ (HasRun(u)' <=> HasRun(u))
  BY <1>1 DEF State, HasRun
<1>4. \A d \in Call \ {c} : Owns(call[d]) => call[d].target # v
  BY <1>2 DEF TInv, OneOwner
<1>5. State(v) # "failed"
  BY <1>2 DEF TInv, Settled
<1>6. /\ answered \subseteq answered' /\ answered' \subseteq Invocation
      /\ sent' \in [Invocation -> Nat]
      /\ \A u \in Invocation \ {v} : sent'[u] = sent[u]
      /\ sent'[v] = IF Transfer(c) THEN sent[v] + 1 ELSE sent[v]
  <2>1. sent \in [Invocation -> Nat] /\ answered \subseteq Invocation
    BY DEF TInv, Facts
  <2>2. CASE Transfer(c)
    BY <2>1, <2>2 DEF Transfer
  <2>3. CASE Answer(c) /\ ~Transfer(c)
    BY <2>1, <2>3 DEF Answer
  <2>. QED  BY <2>2, <2>3
<1>7. Transfer(c) => sent'[v] = 1 /\ HasRun(v) /\ claimed[v] = manifest[v]
  BY <1>2, <1>6 DEF Transfer, Knows
<1>8. Answer(c) => v \in answered' /\ sent'[v] = sent[v]
  BY DEF Answer, Transfer
<1>9. PICK q : /\ call' = [call EXCEPT ![c] = q]
               /\ q.op = "run" /\ q.target = v
               /\ \/ Transfer(c) /\ q.at = "await"
                  \/ Answer(c) /\ q.at = "publish"
                  \/ Answer(c) /\ q.at = "settle" /\ q.outcome = "failed"
  <2>1. ASSUME NEW label \in {"await", "publish"}, Goto(c, label)
        PROVE  \E q : /\ call' = [call EXCEPT ![c] = q]
                      /\ q.op = "run" /\ q.target = v /\ q.at = label
    <3>1. label \in Label
      BY DEF Label
    <3>2. /\ At(c, label).at = label /\ At(c, label).op = "run"
          /\ At(c, label).target = v
      BY <1>2, <3>1, AtFields
    <3>3. call' = [call EXCEPT ![c] = At(c, label)]
      BY <2>1 DEF Goto
    <3>. QED  BY <3>2, <3>3
  <2>2. CASE Transfer(c)
    BY <2>1, <2>2 DEF Transfer
  <2>3. CASE Answer(c) /\ Goto(c, "publish")
    BY <2>1, <2>3
  <2>4. CASE Answer(c) /\ Settle(c, "failed")
    <3>1. "failed" \in Terminal
      BY DEF Terminal
    <3>2. PICK q : /\ call' = [call EXCEPT ![c] = q] /\ q.at = "settle"
                   /\ q.op = "run" /\ q.target = v /\ q.outcome = "failed"
      BY <1>2, <2>4, <3>1, SettleFields
    <3>. QED  BY <2>4, <3>2
  <2>. QED  BY <2>2, <2>3, <2>4 DEF Answer
<1>10. OwnerFits(q)'
  <2>1. q.target = v /\ Owns(q)
    BY <1>9 DEF Owns, Running, Ending
  <2>2. HasRun(v)' /\ manifest'[v] <= claimed'[v]
    BY <1>1, <1>2, <1>3 DEF Knows
  <2>3. claimed'[v] = manifest'[v]
    BY <1>1, <1>2, <1>7 DEF Knows, Answer
  <2>. QED
    BY <1>8, <1>9, <2>1, <2>2, <2>3 DEF OwnerFits, Knows, Surveying, Running, Ending
<1>11. \A d \in Call : OwnerFits(call[d])'
  <2>1. \A r : (\E d \in Call \ {c} : r = call[d]) /\ Owns(r) =>
              r.target \in Invocation \ {v}
    BY <1>4, OwnersTargets
  <2>. QED  BY <1>1, <1>3, <1>6, <1>9, <1>10, <2>1, OthersFit
<1>12. \A d \in Call : call'[d] = IF d = c THEN q ELSE call[d]
  BY <1>9 DEF IInv, StreamTypes
<1>13. \A d \in Call : Owns(call'[d]) => Owns(call[d]) /\ call'[d].target = call[d].target
  BY <1>2, <1>9, <1>12
<1>14. OneOwner'
  BY <1>13 DEF TInv, OneOwner, Owns
<1>15. \A u \in Invocation : Settled(u)'
  <2>1. ASSUME NEW u \in Invocation \ {v} PROVE Settled(u)'
    BY <1>1, <1>3, <1>6, <1>13 DEF TInv, Settled, Owns
  <2>2. Settled(v)'
    <3>1. Settled(v)
      BY DEF TInv
    <3>2. sent'[v] > 0 => sent'[v] = 1 /\ HasRun(v) /\ claimed[v] = manifest[v]
      BY <1>6, <1>7, <3>1 DEF Settled
    <3>3. State(v)' = "completed" => v \in answered'
      BY <1>3, <1>6, <3>1 DEF Settled
    <3>4. State(v)' # "failed"
      BY <1>3, <1>5
    <3>5. sent'[v] > 0 => sent'[v] = 1 /\ HasRun(v)' /\ claimed'[v] = manifest'[v]
      BY <1>1, <1>3, <3>2
    <3>. QED  BY <3>3, <3>4, <3>5 DEF Settled
  <2>. QED  BY <2>1, <2>2
<1>16. Facts'
  BY <1>1, <1>6 DEF TInv, Facts
<1>. QED  BY <1>1, <1>11, <1>14, <1>15, <1>16 DEF TInv

----------------------------------------------------------------------------
(* The theorems.                                                           *)

LEMMA InitTInv == Init => TInv
<1> SUFFICES ASSUME Init PROVE TInv
  OBVIOUS
<1> DEFINE queued == <<"previewed", "approved">>
<1>1. \A v \in Invocation : stream[v] \in {<<>>, queued} /\ sent[v] = 0
  BY DEF Init
<1>2. Shape(<<>>) /\ Shape(queued)
  BY DEF Shape, Course
<1>3. \A v \in Invocation : State(v) \notin {"completed", "failed"}
  <2>1. ASSUME NEW v \in Invocation, stream[v] = queued PROVE State(v) = "queued"
    BY <2>1 DEF State, Last, After
  <2>. QED  BY <1>1, <2>1 DEF State
<1>4. Facts
  BY DocumentAssumption DEF Init, Facts, Bound
<1>5. \A c \in Call : OwnerFits(call[c]) /\ ~Owns(call[c])
  BY NoOwner DEF Init
<1>. QED  BY <1>1, <1>2, <1>3, <1>4, <1>5 DEF TInv, OneOwner, Settled

LEMMA NextTInv == IInv /\ TInv /\ [Next]_vars => TInv'
<1> SUFFICES ASSUME IInv, TInv, [Next]_vars PROVE TInv'
  OBVIOUS
<1>1. CASE UNCHANGED vars
  <2>1. Facts'
    BY <1>1 DEF vars, ledger, provider, TInv, Facts
  <2>. QED  BY <1>1, <2>1, Still DEF vars, ledger, provider, TInv
<1>2. ASSUME NEW i \in Instance, NEW v \in Invocation, Preview(i, v)
      PROVE  TInv'
  BY <1>2, PreviewKeepsTInv
<1>3. ASSUME NEW c \in Call, NEW v \in Invocation,
             NEW op \in {"approve", "run", "cancel"}, Begin(c, op, v)
      PROVE  TInv'
  BY <1>3, BeginStill
<1>4. ASSUME NEW c \in Call, Step(c) \/ Answer(c) \/ Lost(c) \/ Timeout(c)
      PROVE  TInv'
  <2>1. call[c].at # "idle" => call[c].target \in Invocation
    BY DEF IInv, Fits
  <2>2. CASE Approve(c)
    BY <2>1, <2>2, ApproveKeepsTInv DEF Approve
  <2>3. CASE Claim(c)
    BY <2>1, <2>3, ClaimKeepsTInv DEF Claim
  <2>4. CASE FinishRecord(c)
    <3>1. call[c].at = "record" /\ call[c].outcome \in Terminal
      BY <2>4 DEF FinishRecord, IInv, Fits
    <3>. QED  BY <2>1, <2>4, <3>1, FinishRecordKeepsTInv
  <2>5. CASE Transfer(c) \/ Answer(c)
    BY <2>1, <2>5, ProviderKeepsTInv DEF Transfer, Answer
  <2>. QED
    BY <1>4, <2>2, <2>3, <2>4, <2>5, AdmitStill, SurveyStill, RunStill, CancelStill,
       AbortStill, FinishReadStill DEF Step
<1>5. ASSUME NEW i \in Instance, Mount(i) \/ Close(i) \/ Closed(i) \/ Crash(i)
      PROVE  TInv'
  BY <1>5, MountStill, AbortStill, CrashStill
<1>6. CASE OtherEvent
  BY <1>6, OtherEventStill
<1>. QED  BY <1>1, <1>2, <1>3, <1>4, <1>5, <1>6 DEF Next

\* Every request that is running an invocation is its only owner, and knows
\* whether it was sent and answered.
THEOREM OwnershipHolds == Spec => []TInv
BY InvariantHolds, InitTInv, NextTInv, PTL DEF Spec

\* Whatever instances run, cancel, recover and die, an invocation is transferred
\* at most once, after its approval and its claim, under the policy it was
\* approved under, and no two run at a time (run, finish).
THEOREM TransfersSound == Spec => []TransfersAreSound
<1>1. IInv /\ TInv => TypeOK
  BY DEF IInv, TInv, StreamTypes, Facts, Bound, Shape, TypeOK
<1>2. IInv => OneRunning
  BY DEF IInv
<1>3. TInv => SentOnce /\ NothingStaleIsSent
  BY DEF TInv, Settled, HasRun, SentOnce, NothingStaleIsSent
<1>4. IInv /\ TInv => TransfersAreSound
  BY <1>1, <1>2, <1>3 DEF TransfersAreSound
<1>. QED  BY <1>4, InvariantHolds, OwnershipHolds, PTL

\* What finish records of the provider is known: completed only what was
\* answered, failed only what never left or was answered.  Canceled says nothing.
THEOREM OutcomesHonest == Spec => []OutcomeIsHonest
<1>1. TInv => OutcomeIsHonest
  BY DEF TInv, Settled, OutcomeIsHonest
<1>. QED  BY <1>1, OwnershipHolds, PTL
=============================================================================
