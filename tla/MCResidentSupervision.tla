------------------------ MODULE MCResidentSupervision ------------------------
(* Instances of ResidentSupervision, each chosen at the start of a behaviour. *)
EXTENDS ResidentSupervision

CONSTANTS p1, p2

MCProcess == {p1, p2}

Calls0 == [snapshot |-> 0, pause |-> 0, resume |-> 0, sourced |-> 0, stop |-> 0,
           admit |-> 0, loss |-> 0, expire |-> 0, by |-> {p1}]

Both(b) == [b EXCEPT !.by = {p1, p2}]

\* One service: its threads against each other, a lost drive and its recovery.
Alone ==
  {[Calls0 EXCEPT !.snapshot = 1, !.pause = 1, !.admit = 1],
   [Calls0 EXCEPT !.pause = 1, !.sourced = 1, !.resume = 1, !.admit = 1],
   [Calls0 EXCEPT !.pause = 2, !.admit = 1],
   [Calls0 EXCEPT !.snapshot = 1, !.pause = 1, !.resume = 1],
   [Calls0 EXCEPT !.snapshot = 2, !.loss = 1, !.resume = 1],
   [Calls0 EXCEPT !.pause = 1, !.loss = 1, !.admit = 1],
   [Calls0 EXCEPT !.admit = 1, !.snapshot = 1, !.expire = 1],
   [Calls0 EXCEPT !.sourced = 2, !.admit = 1, !.expire = 1],
   [Calls0 EXCEPT !.stop = 1, !.snapshot = 1, !.pause = 1],
   [Calls0 EXCEPT !.stop = 1, !.pause = 1, !.admit = 1],
   [Calls0 EXCEPT !.stop = 1, !.snapshot = 1, !.sourced = 1, !.expire = 1]}

\* Two services of one workspace: their claims, pauses and tasks.
Together ==
  {Both([Calls0 EXCEPT !.admit = 2, !.expire = 1]),
   Both([Calls0 EXCEPT !.snapshot = 1, !.pause = 1]),
   Both([Calls0 EXCEPT !.pause = 1, !.resume = 1])}

MCBudgets == Alone \cup Together
=============================================================================
