------------------------- MODULE ProjectionRebuild -------------------------
(***************************************************************************)
(* rebuildProjection (packages/workspace-ops/src/projection-rebuild.ts) on  *)
(* the files of node-runner.ts: artifacts are built from the ledger into a  *)
(* temporary directory named by the rebuild, which is then renamed to the   *)
(* projection's.                                                           *)
(*                                                                         *)
(* Every file operation is a step, may fail, and may be the last one of its *)
(* process.  A file is not written over, and a directory is not renamed     *)
(* onto one that is not empty: rename(2) refuses, and the previous          *)
(* projection is what stays.                                               *)
(***************************************************************************)
EXTENDS RecordLog

CONSTANTS
    Artifact,   \* files of the projection
    RebuildId   \* given by the operator, or generated

VARIABLES
    temp,       \* the temporary directories, by rebuild id
    final,      \* the projection's directory
    shared      \* were two rebuilds of one id ever under way at once

rebuildVars == <<temp, final, shared>>

\* A directory gives every artifact the build its file is of, 0 if it has no
\* such file; a build is named by how much of the ledger it has read.
NoFiles == [a \in Artifact |-> 0]
Directory == [Artifact -> Nat]
ThisBuild == Len(log) + 1

Rebuilding == {"clear", "write", "cleanup"}
Rebuilds(id) == {c \in Caller : call[c].op \in Rebuilding /\ call[c].id = id}

----------------------------------------------------------------------------
\* The ledger is read and the root inspected before anything is touched.
StartRebuild(c, id) ==
    /\ Makes(c, "rebuild")
    /\ call' = [call EXCEPT ![c] =
            [op |-> "clear", id |-> id, build |-> ThisBuild, todo |-> Artifact]]
    /\ shared' = (shared \/ Rebuilds(id) # {})
    /\ UNCHANGED <<log, temp, final>>

\* Mutated form of ClearTemp: what an earlier rebuild left is kept.
KeepTemp(c) ==
    /\ call[c].op = "clear"
    /\ call' = [call EXCEPT ![c].op = "write",
                            ![c].todo = {a \in @ : temp[call[c].id][a] = 0}]
    /\ UNCHANGED <<log, budget, rebuildVars>>

ClearTemp(c) ==
    /\ call[c].op = "clear"
    /\ temp' = [temp EXCEPT ![call[c].id] = NoFiles]
    /\ call' = [call EXCEPT ![c].op = "write"]
    /\ UNCHANGED <<log, budget, final, shared>>

WriteArtifact(c, a) ==
    LET k == call[c] IN
    /\ k.op = "write" /\ a \in k.todo
    /\ IF temp[k.id][a] = 0
       THEN /\ temp' = [temp EXCEPT ![k.id][a] = k.build]
            /\ call' = [call EXCEPT ![c].todo = @ \ {a}]
       ELSE /\ call' = [call EXCEPT ![c].op = "cleanup"]
            /\ UNCHANGED temp
    /\ UNCHANGED <<log, budget, final, shared>>

PromoteDirectory(c) ==
    LET k == call[c] IN
    /\ k.op = "write" /\ k.todo = {}
    /\ IF temp[k.id] # NoFiles /\ final = NoFiles
       THEN /\ final' = temp[k.id]
            /\ temp' = [temp EXCEPT ![k.id] = NoFiles]
            /\ call' = [call EXCEPT ![c] = Idle]
       ELSE /\ call' = [call EXCEPT ![c].op = "cleanup"]
            /\ UNCHANGED <<temp, final>>
    /\ UNCHANGED <<log, budget, shared>>

\* safeRemoveTemp; whether it succeeds is not looked at.
RemoveTemp(c) ==
    /\ call[c].op = "cleanup"
    /\ \/ temp' = [temp EXCEPT ![call[c].id] = NoFiles] /\ UNCHANGED budget
       \/ /\ budget["fault"] > 0
          /\ budget' = [budget EXCEPT !["fault"] = @ - 1]
          /\ UNCHANGED temp
    /\ call' = [call EXCEPT ![c] = Idle]
    /\ UNCHANGED <<log, final, shared>>

\* Building, clearing, writing or renaming fails.
RebuildFails(c) ==
    /\ call[c].op \in {"clear", "write"}
    /\ budget["fault"] > 0
    /\ budget' = [budget EXCEPT !["fault"] = @ - 1]
    /\ call' = [call EXCEPT ![c].op = "cleanup"]
    /\ UNCHANGED <<log, rebuildVars>>

RebuildInit ==
    /\ temp = [id \in RebuildId |-> NoFiles]
    /\ final = NoFiles
    /\ shared = FALSE

RebuildNext(c) ==
    \/ \E id \in RebuildId : StartRebuild(c, id)
    \/ ClearTemp(c)
    \/ \E a \in Artifact : WriteArtifact(c, a)
    \/ PromoteDirectory(c) \/ RemoveTemp(c) \/ RebuildFails(c)

----------------------------------------------------------------------------
(* Properties.                                                             *)

\* The projection in use is one build's, all of it, whatever rebuilds died or
\* ran at once, provided those that ran at once had different ids.
PromotedIsWhole ==
    ~shared => \A a, b \in Artifact : final[a] = final[b]

\* A rebuild that wrote all of its artifacts, and met no fault of the file
\* system, promotes them.
CompleteRebuildIsPromoted ==
    [][\A c \in Caller :
        /\ call[c].op = "write" /\ call[c].todo = {}
        /\ call'[c] # call[c] /\ budget' = budget
        /\ \A a \in Artifact : temp[call[c].id][a] = call[c].build
        => final' = temp[call[c].id]]_<<log, call, budget, rebuildVars>>
=============================================================================
