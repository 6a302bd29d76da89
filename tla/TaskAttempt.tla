---------------------------- MODULE TaskAttempt ----------------------------
(***************************************************************************)
(* What the task orchestrator promises of a task and its first attempt,     *)
(* whoever works on it: the runner is announced once and dispatched once,   *)
(* the attempt completes after the specialist's run did, and the task is    *)
(* completed only after the attempt, and unless a person canceled it first; *)
(* a person who asked before that may cancel even what is completed.        *)
(***************************************************************************)
EXTENDS Naturals

VARIABLES
    task,       \* the status of the task
    attempt,    \* how far its attempt has come
    runs        \* times the runner was dispatched

vars == <<task, attempt, runs>>

Init == task = "queued" /\ attempt = "open" /\ runs = 0

Reach(from, to) == attempt = from /\ attempt' = to /\ UNCHANGED <<task, runs>>

Announce == Reach("open", "dispatched")
Run == attempt = "dispatched" /\ runs = 0 /\ runs' = 1 /\ UNCHANGED <<task, attempt>>
Finalize == runs = 1 /\ Reach("dispatched", "finalized")
Complete == Reach("finalized", "completed")

Settle(from, to) == task \in from /\ task' = to /\ UNCHANGED <<attempt, runs>>

Next ==
    \/ Announce \/ Run \/ Finalize \/ Complete
    \/ attempt = "completed" /\ Settle({"queued"}, "completed")
    \/ Settle({"queued", "completed"}, "canceled")

Spec == Init /\ [][Next]_vars

=============================================================================
