-------------------------- MODULE MCToolScheduler --------------------------
(***************************************************************************)
(* Two wakes of one scheduler.  The two approvers are a person and one     *)
(* whose id is the scheduler's own: the approval desk accepts both, the    *)
(* scheduler only the first.                                               *)
(***************************************************************************)
EXTENDS ToolScheduler, TLC

CONSTANTS w1, w2, c1, c2

MCWake == {w1, w2}
MCOneCaller == {c1}
MCActor == {"agent", "desk", "person", "scheduler"}
MCSchedulerActor == [w \in Wake |-> "scheduler"]
MCApprover == {"person", "scheduler"}
MCOneApprover == {"person"}

Symmetry == Permutations(MCWake)
=============================================================================
