------------------------ MODULE MCTaskOrchestrator ------------------------
(* TaskOrchestrator on small sets: interchangeable ticks, and the bounds of *)
(* the behaviours each run looks at.                                        *)
EXTENDS TaskOrchestrator, TLC

Ticks == Permutations(Worker)

Bounded(ticks, clock, unapproved, dead, together, claimed) ==
    [workers |-> ticks, time |-> clock, lapses |-> unapproved, crashes |-> dead,
     overlaps |-> together, claims |-> claimed]

\* Two ticks at once.
MCTogether == {Bounded(Worker, 1, 0, 0, 1, 3)}

\* One tick at a time, and one dies or an approval lapses; or two at once.
MCLife ==
    LET One == {CHOOSE w \in Worker : TRUE} IN
    {Bounded(One, 2, 0, 1, 0, 12), Bounded(One, 2, 1, 0, 0, 12),
     Bounded(Worker, 0, 0, 0, 1, 4)}
MCDying == {Bounded(Worker, 2, 0, 2, 0, 6)}

=============================================================================
