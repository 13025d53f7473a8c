----------------------------- MODULE FileStore ----------------------------
(***************************************************************************)
(* The file-backed store (internal/store/file): an in-memory store whose   *)
(* every mutation is written as one snapshot file before it is             *)
(* acknowledged, and rolled back in memory when the file cannot be         *)
(* written.  mutate holds a mutex from the rollback snapshot to the        *)
(* answer, so mutations never interleave; readers go to the memory store   *)
(* at any time, and the process may die between any two steps.             *)
(*                                                                         *)
(* A state of the store is the set of mutations applied to it.             *)
(***************************************************************************)
EXTENDS FiniteSets

CONSTANTS
  Op,         (* Mutations: one call of Create..., Save..., Append...      *)
  NoOp,       (* No mutation is in progress.                               *)
  Failure     (* What may go wrong in this environment.                    *)

Failures == {"write", "remove", "rename", "crash", "crashReplacing"}

ASSUME FailureAssumption == Failure \subseteq Failures
ASSUME NoOpAssumption == NoOp \notin Op

VARIABLES
  up,         (* The process runs.                                         *)
  mem,        (* The memory store.                                         *)
  disk,       (* The content of the snapshot file: one state, or none.     *)
  pc,         (* Where the holder of mutateMu is.                          *)
  op,         (* Its mutation, NoOp for a snapshot from the primary.       *)
  rollback,   (* The snapshot that mutate took before applying.            *)
  data,       (* What the temporary file is written from.                  *)
  outcome     (* What became of each mutation for its caller.              *)

vars == <<up, mem, disk, pc, op, rollback, data, outcome>>

\* What New loads: a missing file is an empty store.
Stored == UNION disk

(***************************************************************************)
(* mutate                                                                  *)
(***************************************************************************)

\* Lock, snapshot for the rollback, apply.
Mutate(o) ==
  /\ up /\ pc = "idle" /\ outcome[o] = "new"
  /\ op' = o
  /\ rollback' = mem
  /\ mem' = mem \cup {o}
  /\ data' = mem'
  /\ pc' = "write"
  /\ UNCHANGED <<up, disk, outcome>>

\* The memory store refuses the mutation (it exists already, or not yet).
ApplyFails(o) ==
  /\ up /\ pc = "idle" /\ outcome[o] = "new"
  /\ outcome' = [outcome EXCEPT ![o] = "failed"]
  /\ UNCHANGED <<up, mem, disk, pc, op, rollback, data>>

\* A mutant: the failed mutation stays in memory.
ForgetRollback ==
  /\ up /\ pc = "restore"
  /\ outcome' = [outcome EXCEPT ![op] = "failed"]
  /\ pc' = "idle" /\ op' = NoOp
  /\ UNCHANGED <<up, mem, disk, rollback, data>>

\* persist returned an error.
Restore ==
  /\ up /\ pc = "restore"
  /\ mem' = rollback
  /\ outcome' = [outcome EXCEPT ![op] = "failed"]
  /\ pc' = "idle" /\ op' = NoOp
  /\ UNCHANGED <<up, disk, rollback, data>>

\* A mutant: the caller is answered before the file is in place.
AcknowledgeEarly ==
  /\ up /\ pc = "remove" /\ op # NoOp
  /\ outcome' = [outcome EXCEPT ![op] = "acked"]
  /\ pc' = "idle" /\ op' = NoOp
  /\ UNCHANGED <<up, mem, disk, rollback, data>>

Acknowledge ==
  /\ up /\ pc = "written" /\ op # NoOp
  /\ outcome' = [outcome EXCEPT ![op] = "acked"]
  /\ pc' = "idle" /\ op' = NoOp
  /\ UNCHANGED <<up, mem, disk, rollback, data>>

(***************************************************************************)
(* ApplyReplicaSnapshot, on a standby node: write the file, then restore.  *)
(***************************************************************************)

ReceiveSnapshot(snapshot) ==
  /\ up /\ pc = "idle"
  /\ data' = snapshot
  /\ pc' = "write"
  /\ UNCHANGED <<up, mem, disk, op, rollback, outcome>>

RestoreSnapshot ==
  /\ up /\ pc = "written" /\ op = NoOp
  /\ mem' = data
  /\ pc' = "idle"
  /\ UNCHANGED <<up, disk, op, rollback, data, outcome>>

(***************************************************************************)
(* writeSnapshotFile                                                       *)
(***************************************************************************)

\* Where an error of writeSnapshotFile leads its caller.
AfterError == IF op = NoOp THEN "idle" ELSE "restore"

\* The temporary file is written, synced and closed.
WriteTemp ==
  /\ up /\ pc = "write"
  /\ pc' = "remove"
  /\ UNCHANGED <<up, mem, disk, op, rollback, data, outcome>>

\* MkdirAll, CreateTemp, Write, Sync or Close fails.
WriteTempFails ==
  /\ "write" \in Failure
  /\ up /\ pc = "write"
  /\ pc' = AfterError
  /\ UNCHANGED <<up, mem, disk, op, rollback, data, outcome>>

RemoveOld ==
  /\ up /\ pc = "remove"
  /\ pc' = "rename"
  /\ disk' = {}
  /\ UNCHANGED <<up, mem, op, rollback, data, outcome>>

\* The error of os.Remove is ignored.
RemoveFails ==
  /\ "remove" \in Failure
  /\ up /\ pc = "remove"
  /\ pc' = "rename"
  /\ UNCHANGED <<up, mem, disk, op, rollback, data, outcome>>

Rename ==
  /\ up /\ pc = "rename"
  /\ disk' = {data}
  /\ pc' = "written"
  /\ UNCHANGED <<up, mem, op, rollback, data, outcome>>

RenameFails ==
  /\ "rename" \in Failure
  /\ up /\ pc = "rename"
  /\ pc' = AfterError
  /\ UNCHANGED <<up, mem, disk, op, rollback, data, outcome>>

(***************************************************************************)
(* The process dies; New starts it again and loads the file.               *)
(***************************************************************************)

Crash ==
  /\ up
  /\ IF pc = "rename" THEN "crashReplacing" \in Failure ELSE "crash" \in Failure
  /\ up' = FALSE
  /\ mem' = {} /\ pc' = "idle" /\ op' = NoOp
  /\ outcome' = IF op = NoOp THEN outcome ELSE [outcome EXCEPT ![op] = "lost"]
  /\ UNCHANGED <<disk, rollback, data>>

Start ==
  /\ ~up
  /\ up' = TRUE
  /\ mem' = Stored
  /\ UNCHANGED <<disk, pc, op, rollback, data, outcome>>

(***************************************************************************)
(* Specification.                                                          *)
(***************************************************************************)

Init ==
  /\ up = TRUE
  /\ mem = {} /\ disk = {}
  /\ pc = "idle" /\ op = NoOp
  /\ rollback = {} /\ data = {}
  /\ outcome = [o \in Op |-> "new"]

WriteStep == WriteTemp \/ WriteTempFails \/ RemoveOld \/ RemoveFails \/ Rename \/ RenameFails

Next ==
  \/ \E o \in Op : Mutate(o) \/ ApplyFails(o)
  \/ WriteStep
  \/ Acknowledge
  \/ Restore
  \/ Crash
  \/ Start

Spec == Init /\ [][Next]_vars

(***************************************************************************)
(* Properties.                                                             *)
(***************************************************************************)

States == SUBSET Op

\* Types of the variables.
TypeOK ==
  /\ up \in BOOLEAN
  /\ mem \in States
  /\ disk \in {{}} \cup {{s} : s \in States}
  /\ pc \in {"idle", "write", "remove", "rename", "written", "restore"}
  /\ op \in Op \cup {NoOp}
  /\ rollback \in States
  /\ data \in States
  /\ outcome \in [Op -> {"new", "acked", "failed", "lost"}]

\* What a reader sees is what a restart would find, but for the mutation in
\* flight, and unless the file was removed and its replacement failed
\* (mutate's rollback and writeSnapshotFile).
MemoryMatchesFile ==
  up => \A s \in disk : IF op = NoOp THEN mem = s ELSE s \in {mem, mem \ {op}}

\* A mutation whose caller was told that it failed is in no later state: not
\* in memory, not in the file, not in what is about to be written (mutate's
\* rollback).
NoPhantomWrite ==
  \A o \in Op :
    outcome[o] = "failed" => o \notin mem /\ o \notin Stored /\ (pc # "idle" => o \notin data)

\* Every write is saved to the file as an atomic snapshot: once acknowledged
\* it is there after every restart.
AcknowledgedIsKept == up => \A o \in Op : outcome[o] = "acked" => o \in mem

(***************************************************************************)
(* The abstract store.  Its content is what readers see but for the        *)
(* mutation in flight, which takes effect when the file is in place; when  *)
(* the process is down it is the file.  It is fragile when the replacement *)
(* of the file, which is not atomic, may fail half way.                    *)
(***************************************************************************)
Content ==
  IF ~up THEN Stored
  ELSE IF pc \in {"write", "remove", "rename", "restore"} THEN rollback ELSE mem

Durable == INSTANCE DurableStore WITH
  content <- Content,
  Fragile <- Failure \cap {"rename", "crashReplacing"} # {}

\* Writes are atomic, failed ones have no effect, and a restart keeps all or,
\* after a failed replacement of the file, nothing (mutate, persist, load).
ImplementsDurableStore == Durable!Spec

============================================================================
