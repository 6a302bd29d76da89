----------------------- MODULE MCDocumentProcessing -----------------------
(* Model values for DocumentProcessing.                                    *)
EXTENDS DocumentProcessing

CONSTANTS v1, v2, i1, i2, c1, c2, none

MCInvocation == {v1, v2}
MCInstance == {i1, i2}
MCCall == {c1, c2}
MCInstanceOf == (c1 :> i1) @@ (c2 :> i2)
Bound(queued, ids, changes, others, crashes) ==
  [queued |-> queued, ids |-> ids, changes |-> changes, others |-> others,
   crashes |-> crashes]

\* One invocation in a changing workspace whose instances die.
Single == Bound({}, <<v1>>, 1, 1, 1)

\* Two invocations, at once.
Pair == Bound({v1, v2}, <<>>, 0, 0, 0)

MCBounds == {Single, Pair}
=============================================================================
