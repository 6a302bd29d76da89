------------------------- MODULE MemorySupersession -------------------------
(***************************************************************************)
(* The resident agent's memories (packages/agent/src/runtime.ts): recorded, *)
(* retracted, and superseded by a replacement.                              *)
(*                                                                         *)
(* A supersession is two appends on two streams: the replacement, then the  *)
(* supersession of the old memory.  When the second fails, a third append   *)
(* retracts the replacement again; when that fails too, the operator is     *)
(* told.  That the old memory is active is read once, at the start.         *)
(***************************************************************************)
EXTENDS RecordLog

CONSTANTS
    Memory,     \* memories, by id
    NoMemory    \* what a recorded memory replaces when it replaces nothing

ASSUME MemoryAssumption == NoMemory \notin Memory

VARIABLE
    abandoned   \* replacements whose supersession died or was reported as
                \* partly applied, in history

MemoryStream(m) == <<"memory", m>>

\* The state of a memory is what its stream says last.
StateIs(s, m, type) == \E i \in Latest(InStream(s, MemoryStream(m))) : s[i].type = type

IsActiveMemory(s, m) == StateIs(s, m, "remembered")

MemoryEvent(type, m, other) ==
    [type |-> type, stream |-> MemoryStream(m), other |-> other]

----------------------------------------------------------------------------
RecordMemory(c, m) ==
    /\ Makes(c, "remember")
    /\ call' = [call EXCEPT ![c] = Sending(MemoryEvent("remembered", m, NoMemory), 1, 0)]
    /\ UNCHANGED <<log, abandoned>>

RetractMemory(c, m) ==
    /\ Makes(c, "retract")
    /\ IsActiveMemory(log, m)
    /\ call' = [call EXCEPT ![c] = [op |-> "retract", memory |-> m]]
    /\ UNCHANGED <<log, abandoned>>

\* The stream is read again for its length, not for what it says.
PrepareRetraction(c) ==
    /\ call[c].op = "retract"
    /\ call' = [call EXCEPT ![c] =
            ExpectsSequence(MemoryEvent("retracted", call[c].memory, NoMemory))]
    /\ UNCHANGED <<log, budget, abandoned>>

SupersedeMemory(c, m, n) ==
    /\ Makes(c, "supersede")
    /\ IsActiveMemory(log, m)
    /\ call' = [call EXCEPT ![c] = [op |-> "replace", memory |-> m, by |-> n]]
    /\ UNCHANGED <<log, abandoned>>

\* An append can fail although its condition holds: the ledger is away.
LedgerIsAway ==
    /\ budget["fault"] > 0
    /\ budget' = [budget EXCEPT !["fault"] = @ - 1]

\* The replacement must be new; nothing is to be undone when it is not.
AppendReplacement(c) ==
    LET k == call[c] IN
    /\ k.op = "replace"
    /\ IF InStream(log, MemoryStream(k.by)) = {}
       THEN /\ log' = Append(log, MemoryEvent("remembered", k.by, k.memory))
            /\ call' = [call EXCEPT ![c].op = "replaced"]
       ELSE /\ call' = [call EXCEPT ![c] = Idle]
            /\ UNCHANGED log
    /\ UNCHANGED <<budget, abandoned>>

PrepareSupersession(c) ==
    /\ call[c].op = "replaced"
    /\ call' = [call EXCEPT ![c] =
            [op |-> "superseding", by |-> call[c].by,
             event |-> MemoryEvent("superseded", call[c].memory, call[c].by),
             expected |-> StreamLength(log, MemoryStream(call[c].memory)) + 1,
             global |-> 0]]
    /\ UNCHANGED <<log, budget, abandoned>>

\* Mutated form of AppendSupersession: a fault after the append is taken for
\* a failure of the append.
AppendSupersessionUnsure(c) ==
    /\ call[c].op = "superseding"
    /\ log' = IF Holds(c) THEN Append(log, call[c].event) ELSE log
    /\ \/ call' = [call EXCEPT ![c] = Idle] /\ UNCHANGED budget
       \/ call' = [call EXCEPT ![c] = [op |-> "undo", by |-> call[c].by]] /\ LedgerIsAway
    /\ UNCHANGED abandoned

AppendSupersession(c) ==
    /\ call[c].op = "superseding"
    /\ \/ /\ Holds(c)
          /\ log' = Append(log, call[c].event)
          /\ call' = [call EXCEPT ![c] = Idle]
          /\ UNCHANGED budget
       \/ /\ (~Holds(c) /\ UNCHANGED budget) \/ LedgerIsAway
          /\ call' = [call EXCEPT ![c] = [op |-> "undo", by |-> call[c].by]]
          /\ UNCHANGED log
    /\ UNCHANGED abandoned

\* appendCompensatingMemoryRetraction: reads, then appends.
PrepareUndo(c) ==
    /\ call[c].op = "undo"
    /\ call' = [call EXCEPT ![c] =
            [op |-> "undoing", by |-> call[c].by,
             event |-> MemoryEvent("retracted", call[c].by, call[c].by),
             expected |-> StreamLength(log, MemoryStream(call[c].by)) + 1,
             global |-> 0]]
    /\ UNCHANGED <<log, budget, abandoned>>

\* When this fails as well the operator is told, and the call is over.
AppendUndo(c) ==
    /\ call[c].op = "undoing"
    /\ \/ /\ Holds(c)
          /\ log' = Append(log, call[c].event)
          /\ UNCHANGED <<budget, abandoned>>
       \/ /\ (~Holds(c) /\ UNCHANGED budget) \/ LedgerIsAway
          /\ abandoned' = abandoned \union {call[c].by}
          /\ UNCHANGED log
    /\ call' = [call EXCEPT ![c] = Idle]

\* Replacements somebody is at work on.
InHand == {call[c].by : c \in {d \in Caller :
                call[d].op \in {"replaced", "superseding", "undo", "undoing"}}}

DieWithMemory(c) ==
    /\ Die(c)
    /\ abandoned' = abandoned \union
        (IF call[c].op \in {"replaced", "superseding", "undo", "undoing"}
         THEN {call[c].by} ELSE {})

MemoryInit == abandoned = {}

MemoryNext(c) ==
    \/ \E m \in Memory :
        \/ RecordMemory(c, m)
        \/ RetractMemory(c, m)
        \/ \E n \in Memory : SupersedeMemory(c, m, n)
    \/ PrepareRetraction(c)
    \/ AppendReplacement(c) \/ PrepareSupersession(c) \/ AppendSupersession(c)
    \/ PrepareUndo(c) \/ AppendUndo(c)

----------------------------------------------------------------------------
(* Properties.                                                             *)

\* Replacements of m that were recorded.
Replacements(m) == {n \in Memory :
    \E i \in InStream(log, MemoryStream(n)) :
        log[i].type = "remembered" /\ log[i].other = m}

\* A memory and its replacement are both active only while somebody is at work
\* on them, or when the work was abandoned and the operator knows.
ReplacedIsGone ==
    \A m, n \in Memory :
        n \in Replacements(m) /\ IsActiveMemory(log, n) /\ IsActiveMemory(log, m)
            => n \in InHand \union abandoned

\* A supersession that was undone left the old memory alone: no memory is
\* superseded by a replacement that was taken back.
UndoneLeavesNoTrace ==
    \A i, j \in DOMAIN log :
        log[i].type = "superseded" /\ log[j].type = "retracted"
            /\ log[j].stream = MemoryStream(log[i].other)
            => log[j].other = NoMemory

\* Two appends and a compensation supersede a memory, or leave it alone.
SupersessionIsWhole ==
    /\ ReplacedIsGone
    /\ UndoneLeavesNoTrace
=============================================================================
