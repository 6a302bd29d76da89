--------------------------- MODULE Correspondence ---------------------------
(***************************************************************************)
(* PrrCorrespondenceService and PrrLifecycleService (packages/prr/src):     *)
(* a public records request is created, sent and followed up by letters.    *)
(*                                                                         *)
(* A sender checks the request's stream, hands the letter to the provider,  *)
(* and only then reads the stream again, checks again and appends.  Others  *)
(* act between all of these, and the sender may die between any two.        *)
(*                                                                         *)
(* The letter is handed to an adapter with an idempotency key made of the   *)
(* request, the letter and the kind of sending.  The adapter modelled is    *)
(* Himalaya's, which does not pass the key on: every call delivers a copy.  *)
(* The clients behind the other adapters are given the key and are outside. *)
(***************************************************************************)
EXTENDS RecordLog

CONSTANTS
    Request,     \* requests, by id; the id is the stream
    Letter       \* correspondence ids

VARIABLES
    mailed,      \* how often the provider delivered a letter of a kind
    unrecorded   \* deliveries whose sender failed to record them, in history

correspondenceVars == <<mailed, unrecorded>>

Kind == {"sent", "followup"}
Mail == Request \X Letter \X Kind

Sent(s, r) == {i \in InStream(s, r) : s[i].type = "sent"}
Recorded(s, r, l) ==
    {i \in InStream(s, r) : s[i].type \in Kind /\ s[i].letter = l}

Exists(s, r, type) == \E i \in InStream(s, r) : s[i].type = type

\* Nothing asks here whether the request is closed.
CanBeSent(s, r) == Exists(s, r, "created") /\ Sent(s, r) = {}

\* Mutated form of CanReceiveFollowUp: a closed request is followed up.
FollowUpAnyway(s, r, l) ==
    Exists(s, r, "created") /\ Sent(s, r) # {} /\ Recorded(s, r, l) = {}

CanReceiveFollowUp(s, r, l) ==
    /\ Exists(s, r, "created") /\ Sent(s, r) # {}
    /\ ~Exists(s, r, "closed")
    /\ Recorded(s, r, l) = {}

CanSend(s, r, l, kind) ==
    IF kind = "sent" THEN CanBeSent(s, r) ELSE CanReceiveFollowUp(s, r, l)

----------------------------------------------------------------------------
CreateRequest(c, r) ==
    /\ Makes(c, "create")
    /\ call' = [call EXCEPT ![c] = Sending([type |-> "created", stream |-> r], 1, 0)]
    /\ UNCHANGED <<log, correspondenceVars>>

\* The agency answers or closes the request; these events come from outside.
AgencyActs(c, r, type) ==
    /\ Makes(c, "agency")
    /\ Exists(log, r, "created")
    /\ call' = [call EXCEPT ![c] = ExpectsNothing([type |-> type, stream |-> r])]
    /\ UNCHANGED <<log, correspondenceVars>>

\* sendInitialRequest and sendFollowUp, up to the call of the provider.
CheckLetter(c, r, l, kind) ==
    /\ Makes(c, "letter")
    /\ CanSend(log, r, l, kind)
    /\ call' = [call EXCEPT ![c] =
            [op |-> "mail", request |-> r, letter |-> l, kind |-> kind]]
    /\ UNCHANGED <<log, correspondenceVars>>

MailOf(c) == <<call[c].request, call[c].letter, call[c].kind>>

MailLetter(c) ==
    /\ call[c].op = "mail"
    /\ mailed' = [mailed EXCEPT ![MailOf(c)] = @ + 1]
    /\ call' = [call EXCEPT ![c].op = "mailed"]
    /\ UNCHANGED <<log, budget, unrecorded>>

\* Mutated form of RecordLetter: what the stream says by now is not checked.
RecordAnyway(c) ==
    LET k == call[c] IN
    /\ k.op = "mailed"
    /\ call' = [call EXCEPT ![c] = ExpectsSequence(
            [type |-> k.kind, stream |-> k.request, letter |-> k.letter])]
    /\ UNCHANGED <<log, budget, correspondenceVars>>

\* markRequestSent, markFollowUpSent: read again, check again, then append.  Or the
\* sender's call throws: the check fails, or what the provider printed of a letter
\* that is out cannot be read.
RecordLetter(c) ==
    LET k == call[c] IN
    /\ k.op = "mailed"
    /\ \/ /\ CanSend(log, k.request, k.letter, k.kind)
          /\ call' = [call EXCEPT ![c] = ExpectsSequence(
                    [type |-> k.kind, stream |-> k.request, letter |-> k.letter])]
          /\ UNCHANGED unrecorded
       \/ /\ call' = [call EXCEPT ![c] = Idle]
          /\ unrecorded' = [unrecorded EXCEPT ![MailOf(c)] = @ + 1]
    /\ UNCHANGED <<log, budget, mailed>>

\* A letter whose record is being appended by c.
Recording(c) ==
    IF call[c].op = "send" /\ call[c].event.type \in Kind
    THEN {<<call[c].event.stream, call[c].event.letter, call[c].event.type>>}
    ELSE {}

\* History of Send and Die: the record c was to make will not be made.
LosesTrack(c) ==
    unrecorded' = [m \in Mail |->
        unrecorded[m] + IF (call[c].op = "mailed" /\ m = MailOf(c)) \/ m \in Recording(c)
                        THEN 1 ELSE 0]

SendLetter(c) ==
    /\ Send(c)
    /\ IF Holds(c) THEN UNCHANGED unrecorded ELSE LosesTrack(c)
    /\ UNCHANGED mailed

DieWithLetter(c) == Die(c) /\ LosesTrack(c) /\ UNCHANGED mailed

CorrespondenceInit ==
    /\ mailed = [m \in Mail |-> 0]
    /\ unrecorded = [m \in Mail |-> 0]

CorrespondenceNext(c) ==
    \/ \E r \in Request :
        \/ CreateRequest(c, r)
        \/ \E type \in {"acknowledged", "closed"} : AgencyActs(c, r, type)
        \/ \E l \in Letter, kind \in Kind : CheckLetter(c, r, l, kind)
    \/ MailLetter(c)
    \/ RecordLetter(c)

----------------------------------------------------------------------------
(* Properties.                                                             *)

\* Whatever senders race, the record of a request is a history that could
\* have happened one letter at a time: created first, sent once, every letter
\* recorded once, and no letter after the request was closed except the first.
RequestHistoryIsSound ==
    \A r \in Request :
        /\ Cardinality(Sent(log, r)) <= 1
        /\ \A l \in Letter : Cardinality(Recorded(log, r, l)) <= 1
        /\ \A i \in InStream(log, r) :
            LET before == Prefix(log, i - 1) IN
            /\ log[i].type \in Kind => Exists(before, r, "created")
            /\ log[i].type = "followup" =>
                Sent(before, r) # {} /\ ~Exists(before, r, "closed")

\* Every copy of a letter that went out is recorded, or still in its sender's
\* hands, or its sender reported a failure: none goes out unaccounted for.
CopiesAreAccountedFor ==
    \A m \in Mail :
        mailed[m] =
            Cardinality({i \in Recorded(log, m[1], m[2]) : log[i].type = m[3]})
            + Cardinality({c \in Caller : call[c].op = "mailed" /\ MailOf(c) = m})
            + Cardinality({c \in Caller : m \in Recording(c)})
            + unrecorded[m]

\* A letter leaves at most once.
MailedOnce == \A m \in Mail : mailed[m] <= 1

\* Letters and the record of them stay together although the provider is called
\* between the check and the append (sendInitialRequest, sendFollowUp).
CorrespondenceIsSound ==
    /\ RequestHistoryIsSound
    /\ CopiesAreAccountedFor
=============================================================================
