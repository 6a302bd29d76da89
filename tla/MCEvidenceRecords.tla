------------------------- MODULE MCEvidenceRecords -------------------------
(* Model values for the services that keep evidence.                       *)
EXTENDS ApprovedEffects, TLC

CONSTANTS c1, c2, b1, b2, x1, x2, o1, o2, o3, h1, h2, none,
          safe, private, e1, n1, n2, d1, a1, a2

MCContentOf == (o1 :> x1) @@ (o2 :> x1) @@ (o3 :> x2)
MCObserved == (b1 :> {o1, o2, o3}) @@ (b2 :> {o1})
MCCandidates == <<a1, a2>>
MCTiedTo == (a1 :> x1) @@ (a2 :> x2)

None == [op \in Operation |-> 0]

Calls(calls) == calls @@ None

Ingested(b, x) == [type |-> "ingested", stream |-> EvidenceStream(x), evidence |-> x, batch |-> b]

Approved(b, h) ==
    [type |-> "import-approved", stream |-> ImportStream(b), batch |-> b, by |-> h]

LinkedEvent(b, x, os) ==
    [type |-> "linked", stream |-> LinkStream(b, x), evidence |-> x, batch |-> b,
     occurrences |-> os]

Completed(b, m, n) ==
    [type |-> "import-completed", stream |-> ImportStream(b), batch |-> b,
     created |-> m, linked |-> n]

\* Two people approve, and a first pass is made.
Approving == [log |-> <<>>, calls |-> Calls("approve" :> 3 @@ "import" :> 1)]

\* Two batches that share a content, passes that overlap and die.
Importing ==
    [log |-> <<Approved(b1, h1), Approved(b2, h1)>>,
     calls |-> Calls("import" :> 3 @@ "die" :> 1)]

\* One batch is complete.  The other is imported, and evidence locked, while
\* assertions are prepared and accepted.
Asserting ==
    [log |-> <<Approved(b1, h1), Ingested(b1, x1), LinkedEvent(b1, x1, {o1, o2}),
               Ingested(b1, x2), LinkedEvent(b1, x2, {o3}), Completed(b1, 2, 3)>>,
     calls |-> Calls("approve" :> 1 @@ "import" :> 2 @@ "lock" :> 1 @@ "prepare" :> 2
                     @@ "accept" :> 1)]

\* Unprepared proposals race, and so do their acceptances.
Proposing ==
    [log |-> <<Ingested(b1, x1)>>,
     calls |-> Calls("propose" :> 2 @@ "accept" :> 3 @@ "die" :> 1)]

\* Classifications, reviews, of evidence, at once.
Governing ==
    [log |-> <<Ingested(b1, x1)>>,
     calls |-> Calls("classify" :> 2 @@ "review" :> 2)]

\* Evidence is exported while it is classified, reviewed and locked.
Exporting ==
    [log |-> <<Ingested(b1, x1)>>,
     calls |-> Calls("classify" :> 1 @@ "review" :> 1 @@ "lock" :> 1 @@ "export" :> 1)]

\* Two exposures, and sessions approved under them.
Exposing == [log |-> <<>>, calls |-> Calls("expose" :> 4 @@ "session" :> 3)]

\* Adapters accept an assertion, proposed twice, while people accept it.
Accepting ==
    [log |-> <<Ingested(b1, x1), Proposal(a1, x1, 1, FALSE), Proposal(a1, x1, 1, FALSE)>>,
     calls |-> Calls("adapter" :> 2 @@ "accept" :> 1 @@ "lock" :> 1 @@ "die" :> 1)]

\* Adapters export evidence while it is reviewed, locked, and exported by hand.
Publishing ==
    [log |-> <<Ingested(b1, x1), [type |-> "classified", stream |-> EvidenceStream(x1),
                                  evidence |-> x1, tags |-> {safe}]>>,
     calls |-> Calls("adapter" :> 2 @@ "review" :> 1 @@ "lock" :> 1 @@ "export" :> 1
                     @@ "die" :> 1)]

\* A legacy batch is approved and staged, retried, and accepted from.
Staging ==
    [log |-> <<Approved(b1, h1), Ingested(b1, x1), LinkedEvent(b1, x1, {o1, o2}),
               Ingested(b1, x2), LinkedEvent(b1, x2, {o3}), Completed(b1, 2, 3)>>,
     calls |-> Calls("approve-staging" :> 2 @@ "stage" :> 3 @@ "accept" :> 1 @@ "die" :> 1)]

MCScenarios ==
    {Approving, Importing, Asserting, Proposing, Governing, Exporting, Exposing,
     Accepting, Publishing, Staging}

\* Callers are alike, and so are people and exposures.
MCSymmetry ==
    Permutations({c1, c2}) \union Permutations({h1, h2}) \union Permutations({n1, n2})
=============================================================================
