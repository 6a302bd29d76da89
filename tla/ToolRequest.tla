---------------------------- MODULE ToolRequest ----------------------------
(***************************************************************************)
(* What the stream of a tool request promises to everyone who reads it:    *)
(* events join it one at a time, each of them legal after exactly the      *)
(* events before it.  The gateway does not decide and append in one step;  *)
(* ToolScheduler does it the gateway's way and implements this module.     *)
(***************************************************************************)
EXTENDS ToolGateway

VARIABLES
    stream,     \* the events of the request, in order
    now         \* the clock every actor reads

Init == stream = <<>> /\ now = 0

\* The event is looked for in stream' rather than in Event, so that TLC can
\* tell whether a step of another module is one of these.
Occur ==
    /\ \E i \in DOMAIN stream' :
            /\ Legal(stream, stream'[i], now)
            /\ stream' = Append(stream, stream'[i])
    /\ UNCHANGED now

Tick == now' = now + 1 /\ UNCHANGED stream

Next == Occur \/ Tick

vars == <<stream, now>>

Spec == Init /\ [][Next]_vars
=============================================================================
