--------------------------- MODULE ImportService ---------------------------
(***************************************************************************)
(* IngestionImportService (packages/ingestion/src/import-service.ts): a     *)
(* person approves a scanned batch; a pass then ingests the contents that   *)
(* are not evidence yet, links each content's occurrences to its evidence,  *)
(* and completes the batch.                                                *)
(*                                                                         *)
(* A pass reads the ledger once.  Of what others append afterwards it only *)
(* notices a completion: evidence and links are appended unconditionally.  *)
(* The pass may die after any append, and be retried.                      *)
(*                                                                         *)
(* The id of evidence is a hash of its content, so the content stands for  *)
(* it.  What a scan observed is given: materializing the occurrences again *)
(* either yields the same or refuses the pass.                             *)
(***************************************************************************)
EXTENDS RecordLog, Functions

CONSTANTS
    Batch,      \* import batches, each of one completed scan
    Content,    \* contents of files, by hash
    Occurrence, \* places where a scan saw a content
    ContentOf,  \* the content of an occurrence
    Observed,   \* the occurrences the scan of a batch observed
    Human,      \* people who approve and review
    NoContent   \* no group of occurrences is being worked on

ASSUME ImportAssumption ==
    /\ ContentOf \in [Occurrence -> Content]
    /\ Observed \in [Batch -> SUBSET Occurrence]
    /\ NoContent \notin Content

VARIABLE
    overlapped  \* did a pass ever start while another was under way

ImportStream(b) == <<"import", b>>
EvidenceStream(x) == <<"evidence", x>>
LinkStream(b, x) == <<"link", b, x>>

ContentsOf(b) == {ContentOf[o] : o \in Observed[b]}

Approvals(s, b) == {i \in OfType(s, "import-approved") : s[i].batch = b}

Completions(s, b) == {i \in OfType(s, "import-completed") : s[i].batch = b}

\* The events of evidence x, and of links of x in batch b, among those known.
Ingestions(s, known, x) ==
    {i \in known \cap OfType(s, "ingested") : s[i].evidence = x}

Links(s, known, b, x) ==
    {i \in known \cap OfType(s, "linked") : s[i].stream = LinkStream(b, x)}

Linked(s, known, b, x) == UNION {s[i].occurrences : i \in Links(s, known, b, x)}

Unlinked(s, known, b, x) ==
    {o \in Observed[b] : ContentOf[o] = x} \ Linked(s, known, b, x)

----------------------------------------------------------------------------
\* An approval is returned again to the person who gave it; anything else
\* that finds the stream in use is refused.
ApproveImport(c, b, h) ==
    /\ Makes(c, "approve")
    /\ call' = [call EXCEPT ![c] =
            IF InStream(log, ImportStream(b)) = {}
            THEN Sending([type |-> "import-approved", stream |-> ImportStream(b),
                          batch |-> b, by |-> h], 1, 0)
            ELSE Idle]
    /\ UNCHANGED <<log, overlapped>>

Passes == {c \in Caller : call[c].op = "import"}

\* One read of the ledger; a completed batch is answered from its completion.
StartImport(c, b) ==
    /\ Makes(c, "import")
    /\ Approvals(log, b) # {}
    /\ call' = [call EXCEPT ![c] =
            IF Completions(log, b) = {}
            THEN [op |-> "import", batch |-> b, known |-> DOMAIN log,
                  todo |-> ContentsOf(b), group |-> NoContent]
            ELSE Idle]
    /\ overlapped' = (overlapped \/ (Completions(log, b) = {} /\ Passes # {}))
    /\ UNCHANGED log

\* The evidence service stores the blob and appends, on no condition.
IngestGroup(c, x) ==
    /\ call[c].op = "import" /\ call[c].group = NoContent
    /\ x \in call[c].todo
    /\ Ingestions(log, call[c].known, x) = {}
    /\ log' = Append(log, [type |-> "ingested", stream |-> EvidenceStream(x),
                           evidence |-> x, batch |-> call[c].batch])
    /\ call' = [call EXCEPT ![c].known = @ \union {Len(log) + 1}, ![c].group = x]
    /\ UNCHANGED <<budget, overlapped>>

LinkGroup(c, x) ==
    LET rest == Unlinked(log, call[c].known, call[c].batch, x) IN
    /\ call[c].op = "import" /\ call[c].group \in {NoContent, x}
    /\ x \in call[c].todo
    /\ Ingestions(log, call[c].known, x) # {}
    /\ log' = IF rest = {} THEN log
              ELSE Append(log, [type |-> "linked", stream |-> LinkStream(call[c].batch, x),
                                evidence |-> x, batch |-> call[c].batch,
                                occurrences |-> rest])
    /\ call' = [call EXCEPT ![c].known = @ \union (IF rest = {} THEN {} ELSE {Len(log) + 1}),
                            ![c].todo = @ \ {x}, ![c].group = NoContent]
    /\ UNCHANGED <<budget, overlapped>>

\* Counted over what the pass knows: what it read and what it appended.
EvidenceCreated(known, b) ==
    Cardinality({x \in ContentsOf(b) :
        \E i \in Ingestions(log, known, x) : log[i].batch = b})

\* Mutated form of OccurrencesLinked: links are counted, not occurrences.
OccurrencesLinkedByEvent(known, b) ==
    Cardinality(UNION {Links(log, known, b, x) : x \in ContentsOf(b)})

OccurrencesLinked(known, b) ==
    Cardinality(Observed[b] \cap UNION {Linked(log, known, b, x) : x \in ContentsOf(b)})

\* The completion must be the second event of the batch's stream.
CompleteImport(c) ==
    LET b == call[c].batch IN
    /\ call[c].op = "import" /\ call[c].todo = {}
    /\ log' = IF StreamLength(log, ImportStream(b)) + 1 # 2 THEN log
              ELSE Append(log, [type |-> "import-completed", stream |-> ImportStream(b),
                                batch |-> b,
                                created |-> EvidenceCreated(call[c].known, b),
                                linked |-> OccurrencesLinked(call[c].known, b)])
    /\ call' = [call EXCEPT ![c] = Idle]
    /\ UNCHANGED <<budget, overlapped>>

ImportInit == overlapped = FALSE

ImportNext(c) ==
    \/ \E b \in Batch :
        \/ \E h \in Human : ApproveImport(c, b, h)
        \/ StartImport(c, b)
    \/ \E x \in Content : IngestGroup(c, x) \/ LinkGroup(c, x)
    \/ CompleteImport(c)

----------------------------------------------------------------------------
(* Properties.                                                             *)

\* A batch is approved at most once and completed at most once, however many
\* people approve it and however many passes work on it.
ImportedOnce(s) ==
    \A b \in Batch :
        Cardinality(Approvals(s, b)) <= 1 /\ Cardinality(Completions(s, b)) <= 1

\* A content is one piece of evidence and an occurrence is linked once.
NoDuplicates(s) ==
    /\ \A i, j \in OfType(s, "ingested") : s[i].evidence = s[j].evidence => i = j
    /\ \A i, j \in OfType(s, "linked") :
        s[i].stream = s[j].stream /\ s[i].occurrences \cap s[j].occurrences # {}
            => i = j

\* Retrying a pass that died anywhere duplicates nothing, unless two passes
\* ran at once.
DuplicatesNeedOverlap == ~overlapped => NoDuplicates(log)

\* What is linked was ingested before, and what is completed was approved
\* before, wherever the passes died.
OneAfterTheOther(s) ==
    /\ \A l \in OfType(s, "linked") : Ingestions(s, 1..(l - 1), s[l].evidence) # {}
    /\ \A b \in Batch : \A k \in Completions(s, b) : \E i \in Approvals(s, b) : i < k

IngestedIn(s, b) == {i \in OfType(s, "ingested") : s[i].batch = b}

\* When a batch is completed all of its occurrences were linked, the counts
\* say so, and no later event changes that.
CompletionIsEarned(s) ==
    \A b \in Batch : \A k \in Completions(s, b) :
        /\ s[k].linked = Cardinality(Observed[b])
        /\ \A x \in ContentsOf(b) : Unlinked(s, 1..(k - 1), b, x) = {}
        /\ s[k].created <= Cardinality(IngestedIn(s, b))
=============================================================================
