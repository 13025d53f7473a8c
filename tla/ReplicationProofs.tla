------------------------- MODULE ReplicationProofs -------------------------
(***************************************************************************)
(* Proofs about FileStore and Replication.  First the file store alone:    *)
(* its inductive invariant says where the mutation in flight stands.  Then *)
(* the two nodes: the invariant of the primary's file store says which     *)
(* mutations its data may hold; the standby only ever receives that data   *)
(* at the moment when it is acknowledged.  Every step is one of the        *)
(* primary's store, of its setup manager, or of the standby.               *)
(***************************************************************************)
EXTENDS Replication, TLAPS

(***************************************************************************)
(* The file store.  The mutation in flight is in memory and in what is     *)
(* written, not in the rollback, and the file holds the rollback until it  *)
(* is replaced.                                                            *)
(***************************************************************************)

\* Exactly one of the file and the memory may be behind, by op.
InFlight ==
  /\ op \in Op /\ up
  /\ outcome[op] = "new"
  /\ op \notin rollback
  /\ data = rollback \cup {op}
  /\ mem = data
  /\ disk \subseteq {IF pc = "written" THEN data ELSE rollback}

AtRest ==
  /\ op = NoOp
  /\ up => disk \subseteq {mem}

\* A mutation is in the store only if it was acknowledged, or is in flight,
\* or was in flight when the process died.
Applied ==
  \A o \in Op : outcome[o] \in {"new", "failed"} /\ o # op => o \notin mem /\ o \notin Stored

Inv ==
  /\ TypeOK
  /\ IF pc = "idle" THEN AtRest ELSE InFlight
  /\ Applied

LEMMA StoredIsTheFile ==
  /\ disk = {} => Stored = {}
  /\ \A s : disk = {s} => Stored = s
  /\ \A s : disk \subseteq {s} => disk = {} \/ disk = {s}
BY DEF Stored

LEMMA StoredIsTheFileNext ==
  /\ disk' = {} => Stored' = {}
  /\ \A s : disk' = {s} => Stored' = s
  /\ \A s : disk' \subseteq {s} => disk' = {} \/ disk' = {s}
BY DEF Stored

LEMMA InvInit == Init => Inv
BY DEF Init, Inv, TypeOK, States, AtRest, Applied, Stored

LEMMA InvNext == Inv /\ [Next]_vars => Inv'
<1> SUFFICES ASSUME Inv, [Next]_vars PROVE Inv'
  OBVIOUS
<1> USE NoOpAssumption DEF Inv
<1>1. ASSUME NEW o \in Op, Mutate(o) PROVE Inv'
  <2>1. o \notin mem /\ o \notin Stored
    BY <1>1 DEF Mutate, AtRest, Applied, TypeOK
  <2>2. Stored' = Stored
    BY <1>1 DEF Mutate, Stored
  <2>3. TypeOK'
    BY <1>1 DEF Mutate, TypeOK, States
  <2>4. InFlight'
    BY <1>1, <2>1 DEF Mutate, InFlight, AtRest, TypeOK, States
  <2>5. Applied'
    BY <1>1, <2>2 DEF Mutate, Applied, AtRest
  <2> QED BY <1>1, <2>3, <2>4, <2>5 DEF Mutate
<1>2. ASSUME NEW o \in Op, ApplyFails(o) PROVE Inv'
  <2>1. Stored' = Stored
    BY <1>2 DEF ApplyFails, Stored
  <2> QED BY <1>2, <2>1 DEF ApplyFails, TypeOK, AtRest, Applied
<1>3. CASE WriteTemp \/ WriteTempFails \/ RemoveFails
  <2>1. Stored' = Stored
    BY <1>3 DEF WriteTemp, WriteTempFails, RemoveFails, Stored
  <2>2. pc # "idle" /\ InFlight /\ pc # "written"
    BY <1>3 DEF WriteTemp, WriteTempFails, RemoveFails
  <2>3. pc' \in {"remove", "restore", "rename"} /\ UNCHANGED <<up, mem, disk, op, rollback, data, outcome>>
    BY <1>3, <2>2 DEF WriteTemp, WriteTempFails, RemoveFails, AfterError, InFlight
  <2> QED BY <2>1, <2>2, <2>3 DEF TypeOK, InFlight, Applied
<1>4. CASE RenameFails
  <2>1. Stored' = Stored
    BY <1>4 DEF RenameFails, Stored
  <2>2. pc' = "restore"
    BY <1>4 DEF RenameFails, AfterError, InFlight
  <2> QED BY <1>4, <2>1, <2>2 DEF RenameFails, TypeOK, InFlight, Applied
<1>5. CASE RemoveOld
  <2>1. Stored' = {}
    BY <1>5, StoredIsTheFileNext DEF RemoveOld
  <2>2. TypeOK' /\ InFlight'
    BY <1>5 DEF RemoveOld, TypeOK, InFlight
  <2>3. Applied'
    BY <1>5, <2>1 DEF RemoveOld, Applied
  <2> QED BY <1>5, <2>2, <2>3 DEF RemoveOld
<1>6. CASE Rename
  <2>1. Stored' = data
    BY <1>6, StoredIsTheFileNext DEF Rename
  <2>2. TypeOK' /\ InFlight'
    BY <1>6 DEF Rename, TypeOK, InFlight
  <2>3. Applied'
    BY <1>6, <2>1 DEF Rename, Applied, InFlight
  <2> QED BY <1>6, <2>2, <2>3 DEF Rename
<1>7. CASE Acknowledge
  <2>1. Stored' = Stored
    BY <1>7 DEF Acknowledge, Stored
  <2>2. TypeOK'
    BY <1>7 DEF Acknowledge, TypeOK
  <2>3. AtRest'
    BY <1>7 DEF Acknowledge, AtRest, InFlight
  <2>4. Applied'
    BY <1>7, <2>1 DEF Acknowledge, Applied, InFlight, TypeOK
  <2> QED BY <1>7, <2>2, <2>3, <2>4 DEF Acknowledge
<1>8. CASE Restore
  <2>1. Stored' = Stored
    BY <1>8 DEF Restore, Stored
  <2>2. op \notin Stored
    BY <1>8, StoredIsTheFile DEF Restore, InFlight
  <2>3. TypeOK'
    BY <1>8 DEF Restore, TypeOK
  <2>4. AtRest'
    BY <1>8 DEF Restore, AtRest, InFlight
  <2>5. Applied'
    BY <1>8, <2>1, <2>2 DEF Restore, Applied, InFlight, TypeOK
  <2> QED BY <1>8, <2>3, <2>4, <2>5 DEF Restore
<1>9. CASE Crash
  <2>1. Stored' = Stored
    BY <1>9 DEF Crash, Stored
  <2>2. outcome' \in [Op -> {"new", "acked", "failed", "lost"}]
    BY <1>9 DEF Crash, TypeOK
  <2>3. \A o \in Op : outcome'[o] \in {"new", "failed"} => outcome[o] = outcome'[o] /\ o # op
    BY <1>9 DEF Crash, TypeOK, AtRest, InFlight
  <2>4. TypeOK'
    BY <1>9, <2>2 DEF Crash, TypeOK, States
  <2>5. AtRest'
    BY <1>9 DEF Crash, AtRest
  <2>6. Applied'
    BY <1>9, <2>1, <2>3 DEF Crash, Applied
  <2> QED BY <1>9, <2>4, <2>5, <2>6 DEF Crash
<1>10. CASE Start
  <2>1. Stored' = Stored
    BY <1>10 DEF Start, Stored
  <2>2. disk \subseteq {Stored} /\ Stored \in States
    BY StoredIsTheFile DEF TypeOK, States
  <2>3. TypeOK'
    BY <1>10, <2>2 DEF Start, TypeOK
  <2>4. pc = "idle" /\ AtRest'
    BY <1>10, <2>2 DEF Start, AtRest, InFlight
  <2>5. Applied'
    BY <1>10, <2>1 DEF Start, Applied
  <2> QED BY <1>10, <2>3, <2>4, <2>5 DEF Start
<1>11. CASE UNCHANGED vars
  BY <1>11 DEF vars, TypeOK, AtRest, InFlight, Applied, Stored
<1> QED
  BY <1>1, <1>2, <1>3, <1>4, <1>5, <1>6, <1>7, <1>8, <1>9, <1>10, <1>11 DEF Next, WriteStep

LEMMA Invariance == Spec => []Inv
BY InvInit, InvNext, PTL DEF Spec

\* Types of the variables of the file store (internal/store/file).
THEOREM TypeCorrect == Spec => []TypeOK
<1>1. Inv => TypeOK
  BY DEF Inv
<1> QED BY <1>1, Invariance, PTL

\* Whatever fails, what readers see is what a restart would find, but for the
\* mutation in flight (mutate, writeSnapshotFile).
THEOREM MemoryIsTheFile == Spec => []MemoryMatchesFile
<1>1. Inv => MemoryMatchesFile
  <2> SUFFICES ASSUME Inv, up, NEW s \in disk
               PROVE  IF op = NoOp THEN mem = s ELSE s \in {mem, mem \ {op}}
    BY DEF MemoryMatchesFile
  <2>1. CASE pc = "idle"
    BY <2>1 DEF Inv, AtRest
  <2>2. CASE pc # "idle"
    <3>1. op # NoOp /\ s \in {rollback, data} /\ mem = data /\ rollback = data \ {op}
      BY <2>2, NoOpAssumption DEF Inv, InFlight
    <3> QED BY <3>1
  <2> QED BY <2>1, <2>2
<1> QED BY <1>1, Invariance, PTL

\* A mutation that was reported as failed is never in memory or in the file
\* again, whatever fails and wherever the process dies (mutate's rollback).
THEOREM FailedWritesHaveNoEffect == Spec => []NoPhantomWrite
<1>1. Inv => NoPhantomWrite
  <2> SUFFICES ASSUME Inv, NEW o \in Op, outcome[o] = "failed"
               PROVE  o \notin mem /\ o \notin Stored /\ (pc # "idle" => o \notin data)
    BY DEF NoPhantomWrite
  <2>1. o # op
    BY NoOpAssumption DEF Inv, AtRest, InFlight
  <2> QED BY <2>1 DEF Inv, Applied, InFlight
<1> QED BY <1>1, Invariance, PTL

(***************************************************************************)
(* The refinement.  Without a failure between os.Remove and os.Rename the  *)
(* file is always the state that a restart has to find; with one it is     *)
(* that state or nothing, which Inv says already.                          *)
(***************************************************************************)
Fragile == Failure \cap {"rename", "crashReplacing"} # {}

FileIsCurrent ==
  ~Fragile =>
    /\ up /\ pc = "idle" => Stored = mem
    /\ pc \in {"write", "remove", "restore"} => Stored = rollback
    /\ pc = "written" => Stored = data

LEMMA FileIsCurrentInit == Init => FileIsCurrent
BY DEF Init, FileIsCurrent, Stored

LEMMA FileIsCurrentNext == Inv /\ FileIsCurrent /\ [Next]_vars => FileIsCurrent'
<1> SUFFICES ASSUME Inv, FileIsCurrent, [Next]_vars, ~Fragile PROVE FileIsCurrent'
  BY DEF FileIsCurrent, Fragile
<1> USE NoOpAssumption DEF FileIsCurrent
<1>1. CASE Start
  BY <1>1 DEF Start, Stored, Inv, InFlight
<1>2. CASE Crash
  BY <1>2 DEF Crash
<1>3. CASE Rename
  BY <1>3, StoredIsTheFileNext DEF Rename
<1>4. CASE RemoveOld
  BY <1>4 DEF RemoveOld
<1>5. ASSUME NEW o \in Op, Mutate(o) PROVE FileIsCurrent'
  BY <1>5 DEF Mutate, Stored
<1>6. ASSUME NEW o \in Op, ApplyFails(o) PROVE FileIsCurrent'
  BY <1>6 DEF ApplyFails, Stored
<1>7. CASE WriteTemp \/ WriteTempFails \/ RemoveFails
  BY <1>7 DEF WriteTemp, WriteTempFails, RemoveFails, AfterError, Stored, Inv, InFlight
<1>8. CASE RenameFails
  BY <1>8 DEF RenameFails, Fragile
<1>9. CASE Acknowledge \/ Restore
  BY <1>9 DEF Acknowledge, Restore, Stored, Inv, InFlight
<1>10. CASE UNCHANGED vars
  BY <1>10 DEF vars, Stored
<1> QED
  BY <1>1, <1>2, <1>3, <1>4, <1>5, <1>6, <1>7, <1>8, <1>9, <1>10 DEF Next, WriteStep

\* What a restart finds.
LEMMA CrashSurvives ==
  ASSUME Inv, FileIsCurrent, Crash
  PROVE  Durable!Survives
<1>1. Content' = Stored
  BY DEF Crash, Content, Stored
<1>2. Stored = {} \/ Stored = Content
  <2>1. CASE pc = "idle"
    BY <2>1, StoredIsTheFile DEF Crash, Inv, AtRest, Content
  <2>2. CASE pc # "idle"
    BY <2>2, StoredIsTheFile DEF Crash, Inv, InFlight, Content, TypeOK
  <2> QED BY <2>1, <2>2
<1>3. CASE Fragile
  BY <1>1, <1>2, <1>3 DEF Durable!Survives, Fragile
<1>4. CASE ~Fragile
  <2>1. pc # "rename"
    BY <1>4 DEF Crash, Fragile
  <2>2. Stored = Content
    BY <1>4, <2>1 DEF FileIsCurrent, Crash, Content, Inv, InFlight, TypeOK
  <2> QED BY <1>1, <2>2 DEF Durable!Survives
<1> QED BY <1>3, <1>4

LEMMA StepImplementsDurableStore ==
  Inv /\ FileIsCurrent /\ [Next]_vars => [Durable!Next]_<<Content, outcome>>
<1> SUFFICES ASSUME Inv, FileIsCurrent, [Next]_vars
             PROVE  [Durable!Next]_<<Content, outcome>>
  OBVIOUS
<1> USE NoOpAssumption
<1>1. ASSUME NEW o \in Op, Mutate(o) PROVE UNCHANGED <<Content, outcome>>
  BY <1>1 DEF Mutate, Content
<1>2. ASSUME NEW o \in Op, ApplyFails(o) PROVE Durable!Reject(o)
  BY <1>2 DEF ApplyFails, Durable!Reject, Content, Inv, Applied, AtRest
<1>3. CASE WriteTemp \/ WriteTempFails \/ RemoveFails \/ RemoveOld \/ RenameFails
  BY <1>3 DEF WriteTemp, WriteTempFails, RemoveFails, RemoveOld, RenameFails, AfterError,
              Content, Inv, InFlight
<1>4. CASE Rename
  <2>1. Content = rollback /\ Content' = rollback \cup {op} /\ op \in Op
    BY <1>4 DEF Rename, Content, Inv, InFlight
  <2>2. Durable!Commit(op)
    BY <1>4, <2>1 DEF Rename, Inv, InFlight, Durable!Commit
  <2> QED BY <2>1, <2>2 DEF Durable!Next
<1>5. CASE Acknowledge
  <2>1. Content = mem /\ Content' = mem /\ op \in Op /\ op \in mem /\ outcome[op] = "new"
    BY <1>5 DEF Acknowledge, Content, Inv, InFlight
  <2> QED BY <1>5, <2>1 DEF Acknowledge, Durable!Acknowledge, Durable!Next
<1>6. CASE Restore
  <2>1. Content = rollback /\ Content' = rollback /\ op \in Op /\ op \notin rollback /\ outcome[op] = "new"
    BY <1>6 DEF Restore, Content, Inv, InFlight
  <2> QED BY <1>6, <2>1 DEF Restore, Durable!Reject, Durable!Next
<1>7. CASE Crash
  <2>1. Durable!Survives
    BY <1>7, CrashSurvives
  <2>2. CASE op = NoOp
    BY <1>7, <2>1, <2>2 DEF Crash, Durable!Restart, Durable!Next
  <2>3. CASE op # NoOp
    <3>1. Durable!Lose(op) /\ op \in Op
      BY <1>7, <2>1, <2>3 DEF Crash, Durable!Lose, Inv, InFlight, AtRest
    <3> QED BY <3>1 DEF Durable!Next
  <2> QED BY <2>2, <2>3
<1>8. CASE Start
  BY <1>8 DEF Start, Content, Stored, Inv, InFlight
<1>9. CASE UNCHANGED vars
  BY <1>9 DEF vars, Content, Stored
<1> QED
  BY <1>1, <1>2, <1>3, <1>4, <1>5, <1>6, <1>7, <1>8, <1>9 DEF Next, WriteStep, Durable!Next

\* Every write is applied atomically and a failed one has no effect; a restart
\* keeps everything, or, if os.Rename may fail or the process die right before
\* it, everything or nothing (mutate, persist, load).
THEOREM FileStoreImplementsDurableStore == Spec => ImplementsDurableStore
<1>1. Init => Durable!Init
  BY DEF Init, Durable!Init, Content
<1>2. Inv /\ FileIsCurrent /\ [Next]_vars => FileIsCurrent'
  BY FileIsCurrentNext
<1>3. Inv /\ FileIsCurrent /\ [Next]_vars => [Durable!Next]_<<Content, outcome>>
  BY StepImplementsDurableStore
<1> QED
  BY <1>1, <1>2, <1>3, FileIsCurrentInit, Invariance, PTL
  DEF Spec, ImplementsDurableStore, Durable!Spec

(***************************************************************************)
(* Durability, from the abstract store: while its restarts keep the        *)
(* content, none of its steps takes an acknowledged write away.            *)
(***************************************************************************)
AckedIsDurable == \A o \in Op : outcome[o] = "acked" => o \in Content

LEMMA DurableStoreKeepsAcked ==
  ASSUME ~Fragile, outcome \in [Op -> Durable!Outcomes], AckedIsDurable,
         [Durable!Next]_<<Content, outcome>>
  PROVE  AckedIsDurable'
<1>1. ASSUME NEW o \in Op, Durable!Commit(o)
      PROVE  AckedIsDurable'
  BY <1>1 DEF Durable!Commit, AckedIsDurable
<1>2. ASSUME NEW o \in Op, Durable!Acknowledge(o)
      PROVE  AckedIsDurable'
  BY <1>2 DEF Durable!Acknowledge, AckedIsDurable
<1>3. ASSUME NEW o \in Op, Durable!Reject(o) \/ Durable!Lose(o)
      PROVE  AckedIsDurable'
  BY <1>3 DEF Durable!Reject, Durable!Lose, Durable!Survives, Fragile, AckedIsDurable
<1>4. CASE Durable!Restart \/ UNCHANGED <<Content, outcome>>
  BY <1>4 DEF Durable!Restart, Durable!Survives, Fragile, AckedIsDurable
<1> QED BY <1>1, <1>2, <1>3, <1>4 DEF Durable!Next

\* The replacement of the file is the only way to lose an acknowledged write:
\* where os.Rename does not fail and the process does not die right before it,
\* each is in memory whenever the process runs, whatever else fails and
\* however often it dies (writeSnapshotFile, load).
THEOREM OnlyReplacementLosesWrites ==
  ASSUME Failure \cap {"rename", "crashReplacing"} = {}
  PROVE  Spec => []AcknowledgedIsKept
<1>1. Init => AckedIsDurable
  BY DEF Init, AckedIsDurable
<1>2. Inv /\ FileIsCurrent /\ AckedIsDurable /\ [Next]_vars => AckedIsDurable'
  <2>1. Inv => outcome \in [Op -> Durable!Outcomes]
    BY DEF Inv, TypeOK, Durable!Outcomes
  <2>2. ~Fragile
    BY DEF Fragile
  <2> QED BY <2>1, <2>2, StepImplementsDurableStore, DurableStoreKeepsAcked
<1>3. Inv /\ FileIsCurrent /\ [Next]_vars => FileIsCurrent'
  BY FileIsCurrentNext
<1>4. Inv /\ AckedIsDurable => AcknowledgedIsKept
  <2>1. Inv /\ up => Content \subseteq mem
    BY DEF Inv, InFlight, Content
  <2> QED BY <2>1 DEF AckedIsDurable, AcknowledgedIsKept
<1> QED BY <1>1, <1>2, <1>3, <1>4, FileIsCurrentInit, Invariance, PTL DEF Spec

(***************************************************************************)
(* Two nodes.                                                              *)
(***************************************************************************)
ReplicationInv == Inv /\ StandbyHoldsOnlyDurable

\* What the primary does to itself is a step of FileStore.
LEMMA PrimaryStep ==
  ReplicationNext =>
    \/ [Next]_vars /\ UNCHANGED <<standbyStore, pushes>>
    \/ Acknowledge /\ pushes' = pushes \cup {[no |-> issued', state |-> data]} /\ UNCHANGED standbyStore
    \/ UNCHANGED vars
<1>1. PrimaryMutates \/ PrimaryProceeds \/ PrimaryCrashes \/ PrimaryStarts
        => [Next]_vars /\ UNCHANGED <<standbyStore, pushes>>
  BY DEF PrimaryMutates, PrimaryProceeds, PrimaryCrashes, PrimaryStarts, Next, pushVars
<1>2. (\E r \in Request : SeedTenant(r)) => [Next]_vars /\ UNCHANGED <<standbyStore, pushes>>
  BY RequestAssumption DEF SeedTenant, Next, pushVars
<1>3. PrimaryAcknowledges =>
        Acknowledge /\ pushes' = pushes \cup {[no |-> issued', state |-> data]} /\ UNCHANGED standbyStore
  BY DEF PrimaryAcknowledges
<1>4. \/ HandleBootstrap \/ PrimaryWritesSetup \/ PrimaryInstalls
      \/ \E r \in Request : LookForTenant(r)
      => UNCHANGED vars
  BY DEF HandleBootstrap, PrimaryWritesSetup, PrimaryInstalls, LookForTenant
<1>5. LosePush \/ LoseSetupPush \/ ReceivePush \/ ReceiveSetup \/ StandbyWritesSetup
        \/ StandbyProceeds \/ StandbyFails \/ StandbyCrashes \/ StandbyStarts
      => UNCHANGED vars
  BY DEF LosePush, LoseSetupPush, ReceivePush, ReceiveSetup, StandbyWritesSetup,
         StandbyProceeds, StandbyFails, StandbyCrashes, StandbyStarts
<1> QED BY <1>1, <1>2, <1>3, <1>4, <1>5 DEF ReplicationNext

LEMMA PrimaryInvariant == Inv /\ [ReplicationNext]_replicationVars => Inv'
<1>1. [ReplicationNext]_replicationVars => [Next]_vars
  BY PrimaryStep DEF Next, replicationVars
<1> QED BY <1>1, InvNext

\* With a standby and the install wizard around it, the primary's store is
\* still the file store, so all that was proved of that holds of it
\* (newReplicaPersistHook runs beside mutate, seedInstallTenant calls it).
THEOREM PrimaryIsAFileStore == ReplicationSpec => Spec
<1>1. ReplicationInit => Init
  BY DEF ReplicationInit
<1>2. [ReplicationNext]_replicationVars => [Next]_vars
  BY PrimaryStep DEF Next, replicationVars
<1> QED BY <1>1, <1>2, PTL DEF ReplicationSpec, Spec

\* No step takes back an answer.
LEMMA OutcomesAreFinal ==
  ASSUME Inv, [Next]_vars, NEW o \in Op, outcome'[o] \in {"new", "failed"}
  PROVE  outcome[o] \in {"new", "failed"}
<1>1. op \in Op => outcome[op] = "new"
  BY NoOpAssumption DEF Inv, AtRest, InFlight
<1>2. op = NoOp \/ op \in Op
  BY DEF Inv, AtRest, InFlight
<1>3. CASE \E x \in Op : Mutate(x) \/ ApplyFails(x)
  BY <1>3 DEF Mutate, ApplyFails, Inv, TypeOK
<1>4. CASE WriteStep \/ Start \/ UNCHANGED vars
  BY <1>4 DEF WriteStep, WriteTemp, WriteTempFails, RemoveOld, RemoveFails, Rename, RenameFails, Start, vars
<1>5. CASE Acknowledge \/ Restore \/ Crash
  <2>1. \/ outcome' = outcome
        \/ op \in Op /\ \E v : outcome' = [outcome EXCEPT ![op] = v]
    BY <1>5, <1>2 DEF Acknowledge, Restore, Crash, Inv, InFlight
  <2> QED BY <2>1, <1>1 DEF Inv, TypeOK
<1> QED BY <1>3, <1>4, <1>5 DEF Next

(***************************************************************************)
(* The standby.                                                            *)
(***************************************************************************)
Takes(p) ==
  /\ p \in pushes /\ Standby!ReceiveSnapshot(p.state)
  /\ pushes' = pushes \ {p}

StandbyMoves ==
  \/ Standby!WriteTemp \/ Standby!WriteTempFails \/ Standby!RemoveOld \/ Standby!RemoveFails
  \/ Standby!Rename \/ Standby!RenameFails
  \/ Standby!RestoreSnapshot \/ Standby!Crash \/ Standby!Start

\* What a step that is not the primary's store's does to the standby.
LEMMA StandbyStep ==
  ASSUME ReplicationNext, UNCHANGED vars
  PROVE  \/ \E p : Takes(p)
         \/ StandbyMoves /\ pushes' = pushes
         \/ UNCHANGED standbyStore /\ pushes' \subseteq pushes
         \/ UNCHANGED standbyStore /\ Acknowledge
<1>1. CASE ReceivePush
  BY <1>1 DEF ReceivePush, Takes
<1>2. CASE StandbyProceeds \/ StandbyFails
  BY <1>2 DEF StandbyProceeds, StandbyFails, StandbyMoves, pushVars
<1>3. CASE StandbyCrashes \/ StandbyStarts
  BY <1>3 DEF StandbyCrashes, StandbyStarts, StandbyMoves, pushVars
<1>4. CASE LosePush \/ LoseSetupPush \/ ReceiveSetup \/ StandbyWritesSetup
  BY <1>4 DEF LosePush, LoseSetupPush, ReceiveSetup, StandbyWritesSetup, pushVars
<1>5. CASE PrimaryMutates \/ PrimaryProceeds \/ PrimaryCrashes \/ PrimaryStarts
  BY <1>5 DEF PrimaryMutates, PrimaryProceeds, PrimaryCrashes, PrimaryStarts, pushVars
<1>6. CASE HandleBootstrap \/ PrimaryWritesSetup \/ PrimaryInstalls
             \/ \E r \in Request : LookForTenant(r) \/ SeedTenant(r)
  BY <1>6 DEF HandleBootstrap, PrimaryWritesSetup, PrimaryInstalls, LookForTenant, SeedTenant, pushVars
<1>7. CASE PrimaryAcknowledges
  BY <1>7 DEF PrimaryAcknowledges
<1> QED BY <1>1, <1>2, <1>3, <1>4, <1>5, <1>6, <1>7 DEF ReplicationNext

\* A step of the standby brings no mutation that it did not have or receive.
LEMMA StandbyInventsNothing ==
  ASSUME ReplicationNext, UNCHANGED vars, NEW o \in Op,
         \A s \in Replicas : o \notin s, ~Acknowledge
  PROVE  \A s \in Replicas' : o \notin s
<1> USE DEF Replicas
<1>1. ASSUME NEW p, Takes(p)
      PROVE  \A s \in Replicas' : o \notin s
  BY <1>1 DEF Takes, Standby!ReceiveSnapshot
<1>2. CASE StandbyMoves /\ pushes' = pushes
  <2>0. pushes' = pushes
    BY <1>2
  <2>1. CASE Standby!WriteTemp \/ Standby!RemoveOld \/ Standby!RemoveFails \/ Standby!Rename
    BY <2>0, <2>1 DEF Standby!WriteTemp, Standby!RemoveOld, Standby!RemoveFails, Standby!Rename
  <2>2. CASE Standby!RestoreSnapshot
    BY <2>0, <2>2 DEF Standby!RestoreSnapshot
  <2>3. CASE Standby!Start
    <3>1. o \notin UNION sDisk
      OBVIOUS
    <3> QED BY <2>0, <2>3, <3>1 DEF Standby!Start, Standby!Stored
  <2>4. CASE Standby!WriteTempFails \/ Standby!RenameFails
    BY <2>0, <2>4 DEF Standby!WriteTempFails, Standby!RenameFails
  <2>5. CASE Standby!Crash
    BY <2>0, <2>5 DEF Standby!Crash
  <2> QED BY <1>2, <2>1, <2>2, <2>3, <2>4, <2>5 DEF StandbyMoves
<1>3. CASE UNCHANGED standbyStore /\ pushes' \subseteq pushes
  BY <1>3 DEF standbyStore
<1> QED BY <1>1, <1>2, <1>3, StandbyStep

LEMMA ReplicationInvNext ==
  ReplicationInv /\ [ReplicationNext]_replicationVars => ReplicationInv'
<1> SUFFICES ASSUME ReplicationInv, [ReplicationNext]_replicationVars,
                    NEW o \in Op, outcome'[o] \in {"new", "failed"}
             PROVE  \A s \in Replicas' : o \notin s
  BY PrimaryInvariant DEF ReplicationInv, StandbyHoldsOnlyDurable
<1>1. [Next]_vars
  BY PrimaryStep DEF Next, replicationVars
<1>2. outcome[o] \in {"new", "failed"}
  BY <1>1, OutcomesAreFinal DEF ReplicationInv
<1>3. \A s \in Replicas : o \notin s
  BY <1>2 DEF ReplicationInv, StandbyHoldsOnlyDurable
<1>4. CASE UNCHANGED <<standbyStore, pushes>>
  <2>1. Replicas' = Replicas
    BY <1>4 DEF Replicas, standbyStore
  <2> QED BY <2>1, <1>3
<1>5. CASE Acknowledge /\ pushes' = pushes \cup {[no |-> issued', state |-> data]} /\ UNCHANGED standbyStore
  <2>1. o # op /\ data = mem
    BY <1>5, NoOpAssumption DEF Acknowledge, ReplicationInv, Inv, InFlight, TypeOK
  <2>2. o \notin data
    BY <2>1, <1>2 DEF ReplicationInv, Inv, Applied
  <2>3. Replicas' \subseteq Replicas \cup {data}
    BY <1>5 DEF Replicas, standbyStore
  <2> QED BY <2>2, <2>3, <1>3
<1>6. CASE ReplicationNext /\ UNCHANGED vars
  <2>1. ~Acknowledge
    BY <1>6 DEF Acknowledge, vars
  <2> QED BY <1>6, <1>3, <2>1, StandbyInventsNothing
<1> QED BY <1>4, <1>5, <1>6, PrimaryStep DEF replicationVars, pushVars

\* Whatever fails on either node and whatever the network loses or reorders,
\* the standby never holds a mutation that failed or is still unanswered.
THEOREM ReplicasAreDurable == ReplicationSpec => []StandbyHoldsOnlyDurable
<1>1. ReplicationInit => ReplicationInv
  BY InvInit DEF ReplicationInit, ReplicationInv, StandbyHoldsOnlyDurable, Replicas, Standby!Init
<1>2. ReplicationInv => StandbyHoldsOnlyDurable
  BY DEF ReplicationInv
<1> QED BY <1>1, <1>2, ReplicationInvNext, PTL DEF ReplicationSpec

(***************************************************************************)
(* The standby is behind.  While no replacement of a file fails half way,  *)
(* the content of the primary's store only grows, and what is pushed is a  *)
(* part of it.                                                             *)
(***************************************************************************)
ReplicasAreContent == \A o \in Op, s \in Replicas : o \in s => o \in Content
StandbyIsNotAhead == \A o \in Op, s \in Replicas : o \in s => o \in Content /\ (up => o \in mem)

LEMMA ContentGrows ==
  ASSUME ~Fragile, Inv, FileIsCurrent, [Next]_vars
  PROVE  Content \subseteq Content'
<1>1. [Durable!Next]_<<Content, outcome>>
  BY StepImplementsDurableStore
<1>2. ASSUME NEW o \in Op, Durable!Commit(o) \/ Durable!Acknowledge(o) \/ Durable!Reject(o)
      PROVE  Content \subseteq Content'
  BY <1>2 DEF Durable!Commit, Durable!Acknowledge, Durable!Reject
<1>3. CASE Durable!Restart \/ \E o \in Op : Durable!Lose(o)
  BY <1>3 DEF Durable!Restart, Durable!Lose, Durable!Survives, Fragile
<1> QED BY <1>1, <1>2, <1>3 DEF Durable!Next

LEMMA ReplicasStayContent ==
  ASSUME ~Fragile, Inv, FileIsCurrent, ReplicasAreContent, [ReplicationNext]_replicationVars
  PROVE  ReplicasAreContent'
<1> SUFFICES ASSUME NEW o \in Op, o \notin Content'
             PROVE  \A s \in Replicas' : o \notin s
  BY DEF ReplicasAreContent
<1>1. [Next]_vars
  BY PrimaryStep DEF Next, replicationVars
<1>2. o \notin Content
  BY <1>1, ContentGrows
<1>3. \A s \in Replicas : o \notin s
  BY <1>2 DEF ReplicasAreContent
<1>4. CASE UNCHANGED <<standbyStore, pushes>>
  <2>1. Replicas' = Replicas
    BY <1>4 DEF Replicas, standbyStore
  <2> QED BY <2>1, <1>3
<1>5. CASE Acknowledge /\ pushes' = pushes \cup {[no |-> issued', state |-> data]} /\ UNCHANGED standbyStore
  <2>1. Content = data
    BY <1>5 DEF Acknowledge, Content, Inv, InFlight
  <2>2. Replicas' \subseteq Replicas \cup {data}
    BY <1>5 DEF Replicas, standbyStore
  <2> QED BY <2>1, <2>2, <1>2, <1>3
<1>6. CASE ReplicationNext /\ UNCHANGED vars
  <2>1. ~Acknowledge
    BY <1>6 DEF Acknowledge, vars, Inv, InFlight
  <2> QED BY <1>6, <1>3, <2>1, StandbyInventsNothing
<1> QED BY <1>4, <1>5, <1>6, PrimaryStep DEF replicationVars, pushVars

\* Where os.Rename does not fail and no process dies right before it, the
\* standby holds nothing that its primary has not, in its memory whenever it
\* runs and in its file when it does not: a failover may lose what was not
\* pushed in time, and never brings back what the primary does not know
\* (newReplicaPersistHook, writeSnapshotFile, ApplyReplicaSnapshot).
THEOREM StandbyIsOnlyBehind ==
  ASSUME Failure \cap {"rename", "crashReplacing"} = {}
  PROVE  ReplicationSpec => []StandbyIsNotAhead
<1>1. ReplicationInit => ReplicasAreContent
  BY DEF ReplicationInit, ReplicasAreContent, Replicas, Standby!Init
<1>2. Inv /\ FileIsCurrent /\ ReplicasAreContent /\ [ReplicationNext]_replicationVars => ReplicasAreContent'
  BY ReplicasStayContent DEF Fragile
<1>3. Inv /\ FileIsCurrent /\ [ReplicationNext]_replicationVars => FileIsCurrent'
  <2>1. [ReplicationNext]_replicationVars => [Next]_vars
    BY PrimaryStep DEF Next, replicationVars
  <2> QED BY <2>1, FileIsCurrentNext
<1>4. ReplicationInit => Inv /\ FileIsCurrent
  BY InvInit, FileIsCurrentInit DEF ReplicationInit
<1>5. Inv /\ ReplicasAreContent => StandbyIsNotAhead
  <2>1. Inv /\ up => Content \subseteq mem
    BY DEF Inv, InFlight, Content
  <2> QED BY <2>1 DEF ReplicasAreContent, StandbyIsNotAhead
<1> QED BY <1>1, <1>2, <1>3, <1>4, <1>5, PrimaryInvariant, PTL DEF ReplicationSpec

(***************************************************************************)
(* The standby's file is what its readers see.                             *)
(***************************************************************************)
StandbyInv ==
  /\ sOp = NoOp
  /\ sPc \in {"idle", "write", "remove", "rename", "written"}
  /\ ~sUp => sPc = "idle"
  /\ sDisk = {} \/ \E s : sDisk = {s}
  /\ sUp /\ sPc # "written" => sDisk \subseteq {sMem}
  /\ sPc = "written" => sDisk = {sData}

LEMMA StandbyInvNext ==
  StandbyInv /\ [ReplicationNext]_replicationVars => StandbyInv'
<1> SUFFICES ASSUME StandbyInv, [ReplicationNext]_replicationVars PROVE StandbyInv'
  OBVIOUS
<1> USE DEF StandbyInv
<1>1. ASSUME NEW p, Takes(p) PROVE StandbyInv'
  BY <1>1 DEF Takes, Standby!ReceiveSnapshot
<1>2. CASE StandbyMoves
  <2>1. CASE Standby!WriteTemp \/ Standby!RemoveOld \/ Standby!RemoveFails
    BY <2>1 DEF Standby!WriteTemp, Standby!RemoveOld, Standby!RemoveFails
  <2>2. CASE Standby!Rename
    BY <2>2 DEF Standby!Rename
  <2>3. CASE Standby!WriteTempFails \/ Standby!RenameFails
    BY <2>3 DEF Standby!WriteTempFails, Standby!RenameFails, Standby!AfterError
  <2>4. CASE Standby!RestoreSnapshot
    BY <2>4 DEF Standby!RestoreSnapshot
  <2>5. CASE Standby!Crash
    BY <2>5 DEF Standby!Crash
  <2>6. CASE Standby!Start
    <3>1. sDisk \subseteq {UNION sDisk}
      OBVIOUS
    <3> QED BY <2>6, <3>1 DEF Standby!Start, Standby!Stored
  <2> QED BY <1>2, <2>1, <2>2, <2>3, <2>4, <2>5, <2>6 DEF StandbyMoves
<1>3. CASE UNCHANGED standbyStore
  BY <1>3 DEF standbyStore
<1> QED BY <1>1, <1>2, <1>3, StandbyStep, PrimaryStep DEF replicationVars

\* Whatever the standby receives and wherever it fails or dies, its readers
\* see what its file holds, so a restart or a failover changes nothing.
THEOREM StandbyIsItsFile == ReplicationSpec => []StandbyMatchesFile
<1>1. ReplicationInit => StandbyInv
  BY DEF ReplicationInit, StandbyInv, Standby!Init
<1>2. StandbyInv => StandbyMatchesFile
  BY DEF StandbyInv, StandbyMatchesFile
<1> QED BY <1>1, <1>2, StandbyInvNext, PTL DEF ReplicationSpec

\* The other steps are the wizard's, the network's and the standby's.
LEMMA OtherStep ==
  ReplicationNext =>
    \/ PrimaryMutates \/ PrimaryProceeds \/ PrimaryAcknowledges \/ PrimaryCrashes \/ PrimaryStarts
    \/ \E r \in Request : SeedTenant(r)
    \/ UNCHANGED <<vars, issued>>
<1>1. \/ HandleBootstrap \/ PrimaryWritesSetup \/ PrimaryInstalls
      \/ \E r \in Request : LookForTenant(r)
      => UNCHANGED <<vars, issued>>
  BY DEF HandleBootstrap, PrimaryWritesSetup, PrimaryInstalls, LookForTenant, pushVars
<1>2. LosePush \/ LoseSetupPush \/ ReceivePush \/ ReceiveSetup \/ StandbyWritesSetup
        \/ StandbyProceeds \/ StandbyFails \/ StandbyCrashes \/ StandbyStarts
      => UNCHANGED <<vars, issued>>
  BY DEF LosePush, LoseSetupPush, ReceivePush, ReceiveSetup, StandbyWritesSetup,
         StandbyProceeds, StandbyFails, StandbyCrashes, StandbyStarts, pushVars
<1> QED BY <1>1, <1>2 DEF ReplicationNext

(***************************************************************************)
(* The standby is in sync with the last snapshot.  Pushed is the primary's *)
(* content as of the number issued; Taken is what the standby has, or will *)
(* have when it has restored what it received, or will load.               *)
(***************************************************************************)
Pushed == IF ~up THEN Stored ELSE IF pc = "idle" THEN mem ELSE rollback

Taken == IF sPc # "idle" THEN sData ELSE IF sUp THEN sMem ELSE Standby!Stored

\* A number that was issued for a state nobody pushed is nobody's number.
Numbered ==
  /\ issued \in Nat /\ received \in 0 .. issued
  /\ \A p \in pushes : p.no \in 1 .. issued /\ (p.no = issued => p.state = Pushed)

SyncInv ==
  /\ Inv /\ StandbyInv
  /\ Numbered
  /\ issued = 0 => sPc = "idle" /\ sMem = {} /\ sDisk = {}
  /\ received = issued => Taken = Pushed

\* As long as no number is issued, the primary's content is what was pushed.
LEMMA PushedIsKept ==
  ASSUME SyncInv, ReplicationNext, issued' = issued
  PROVE  Pushed' = Pushed
<1> USE DEF Pushed
<1>1. CASE PrimaryMutates \/ \E r \in Request : SeedTenant(r)
  <2>1. \/ \E o : Mutate(o)
        \/ \E o : ApplyFails(o)
    BY <1>1 DEF PrimaryMutates, SeedTenant
  <2>2. CASE \E o : Mutate(o)
    BY <2>2 DEF Mutate
  <2>3. CASE \E o : ApplyFails(o)
    <3>1. Stored' = Stored
      BY <2>3 DEF ApplyFails, Stored
    <3> QED BY <2>3, <3>1 DEF ApplyFails
  <2> QED BY <2>1, <2>2, <2>3
<1>2. CASE PrimaryProceeds
  <2>1. CASE Restore
    BY <2>1 DEF Restore
  <2>2. CASE WriteStep
    <3>1. pc # "idle" /\ op # NoOp /\ up
      BY <2>2, NoOpAssumption DEF WriteStep, WriteTemp, WriteTempFails, RemoveOld, RemoveFails,
             Rename, RenameFails, SyncInv, Inv, InFlight
    <3>2. pc' # "idle" /\ rollback' = rollback /\ up'
      BY <2>2, <3>1 DEF WriteStep, WriteTemp, WriteTempFails, RemoveOld, RemoveFails,
             Rename, RenameFails, AfterError
    <3> QED BY <3>1, <3>2
  <2> QED BY <1>2, <2>1, <2>2 DEF PrimaryProceeds
<1>3. CASE PrimaryAcknowledges
  BY <1>3 DEF PrimaryAcknowledges, SyncInv, Numbered
<1>4. CASE PrimaryCrashes
  <2>1. Stored = Content /\ pc # "written"
    BY <1>4 DEF PrimaryCrashes, SyncInv, Numbered
  <2>2. Stored' = Stored /\ ~up' /\ up
    BY <1>4 DEF PrimaryCrashes, Crash, Stored
  <2>3. Content = Pushed
    BY <2>1, <2>2 DEF Content, SyncInv, Inv, TypeOK
  <2> QED BY <2>1, <2>2, <2>3
<1>5. CASE PrimaryStarts
  <2>1. ~up /\ up' /\ mem' = Stored /\ pc' = pc
    BY <1>5 DEF PrimaryStarts, Start
  <2>2. pc = "idle"
    BY <2>1 DEF SyncInv, Inv, InFlight
  <2> QED BY <2>1, <2>2
<1>6. CASE UNCHANGED vars
  BY <1>6 DEF vars, Stored
<1> QED BY <1>1, <1>2, <1>3, <1>4, <1>5, <1>6, OtherStep DEF ReplicationNext

\* A number is issued for what was just acknowledged and pushed, or for what
\* a primary that died will load.
LEMMA IssueKeepsSync ==
  ASSUME SyncInv, ReplicationNext, issued' # issued
  PROVE  SyncInv'
<1>1. PrimaryAcknowledges \/ PrimaryCrashes
  BY OtherStep DEF PrimaryMutates, PrimaryProceeds, PrimaryStarts, SeedTenant, pushVars
<1>2. issued' = issued + 1 /\ received' = received /\ UNCHANGED standbyStore
  BY <1>1 DEF PrimaryAcknowledges, PrimaryCrashes
<1>3. Inv' /\ StandbyInv'
  BY PrimaryInvariant, StandbyInvNext DEF SyncInv
<1>4. issued' \in Nat /\ issued' # 0 /\ received' \in 0 .. issued' /\ received' # issued'
  BY <1>2 DEF SyncInv, Numbered
<1>5. \A p \in pushes : p.no \in 1 .. issued' /\ p.no # issued'
  BY <1>2 DEF SyncInv, Numbered
<1>6. CASE PrimaryCrashes
  <2>1. pushes' = pushes
    BY <1>6 DEF PrimaryCrashes
  <2> QED BY <1>3, <1>4, <1>5, <2>1 DEF SyncInv, Numbered
<1>7. CASE PrimaryAcknowledges
  <2>1. pushes' = pushes \cup {[no |-> issued', state |-> data]}
    BY <1>7 DEF PrimaryAcknowledges
  <2>2. Pushed' = data
    BY <1>7, NoOpAssumption DEF PrimaryAcknowledges, Acknowledge, SyncInv, Inv, AtRest, InFlight, Pushed
  <2>3. issued' \in 1 .. issued'
    BY <1>4
  <2>4. \A p \in pushes' : p.no \in 1 .. issued' /\ (p.no = issued' => p.state = Pushed')
    BY <1>5, <2>1, <2>2, <2>3
  <2> QED BY <1>3, <1>4, <2>4 DEF SyncInv, Numbered
<1> QED BY <1>1, <1>6, <1>7

\* What the standby has, when no number is issued.
LEMMA TakenIsKept ==
  ASSUME SyncInv, ReplicationNext, issued' = issued
  PROVE  /\ received' \in 0 .. issued /\ pushes' \subseteq pushes
         /\ issued = 0 => sPc' = "idle" /\ sMem' = {} /\ sDisk' = {}
         /\ received' = issued => Taken' = Pushed
<1> USE DEF SyncInv, Numbered
<1>1. CASE ReceivePush
  <2>1. PICK p \in pushes : /\ Standby!ReceiveSnapshot(p.state) /\ pushes' = pushes \ {p}
                            /\ received' = p.no
    BY <1>1 DEF ReceivePush
  <2>2. sPc' = "write" /\ sData' = p.state
    BY <2>1 DEF Standby!ReceiveSnapshot
  <2>3. p.no \in 1 .. issued /\ (p.no = issued => p.state = Pushed)
    BY <2>1
  <2>4. received' \in 0 .. issued /\ issued # 0
    BY <2>1, <2>3
  <2> QED BY <2>1, <2>2, <2>3, <2>4 DEF Taken
<1>2. CASE StandbyProceeds
  <2>1. received' = received /\ pushes' = pushes /\ sPc # "idle" /\ sUp
    BY <1>2 DEF StandbyProceeds, pushVars, Standby!WriteTemp, Standby!RemoveOld, Standby!RemoveFails,
           Standby!Rename, Standby!RestoreSnapshot
  <2>2. CASE Standby!WriteTemp \/ Standby!RemoveOld \/ Standby!RemoveFails \/ Standby!Rename
    <3>1. sPc' # "idle" /\ sData' = sData
      BY <2>2 DEF Standby!WriteTemp, Standby!RemoveOld, Standby!RemoveFails, Standby!Rename
    <3> QED BY <2>1, <3>1 DEF Taken
  <2>3. CASE Standby!RestoreSnapshot
    <3>1. sPc' = "idle" /\ sUp' /\ sMem' = sData
      BY <2>1, <2>3 DEF Standby!RestoreSnapshot
    <3> QED BY <2>1, <3>1 DEF Taken
  <2> QED BY <1>2, <2>2, <2>3 DEF StandbyProceeds
<1>3. CASE StandbyFails
  <2>1. received' = 0 /\ pushes' = pushes /\ sPc # "idle"
    BY <1>3 DEF StandbyFails, Standby!WriteTempFails, Standby!RenameFails
  <2> QED BY <2>1
<1>4. CASE StandbyCrashes
  <2>1. pushes' = pushes /\ sPc' = "idle" /\ ~sUp' /\ sUp /\ sMem' = {} /\ sDisk' = sDisk
    BY <1>4 DEF StandbyCrashes, Standby!Crash
  <2>2. Standby!Stored' = Standby!Stored
    BY <2>1 DEF Standby!Stored
  <2>3. sDisk = {} => Standby!Stored = {}
    BY DEF Standby!Stored
  <2>4. CASE sPc # "idle" \/ Standby!Stored # sMem
    <3>1. received' = 0 /\ issued # 0
      BY <1>4, <2>3, <2>4 DEF StandbyCrashes
    <3> QED BY <2>1, <3>1
  <2>5. CASE sPc = "idle" /\ Standby!Stored = sMem
    <3>1. received' = received
      BY <1>4, <2>5 DEF StandbyCrashes
    <3>2. Taken' = Taken
      BY <2>1, <2>2, <2>5 DEF Taken
    <3> QED BY <2>1, <3>1, <3>2
  <2> QED BY <2>4, <2>5
<1>5. CASE StandbyStarts
  <2>1. /\ pushes' = pushes /\ received' = received
        /\ sPc' = sPc /\ sUp' /\ ~sUp /\ sMem' = Standby!Stored /\ sDisk' = sDisk
    BY <1>5 DEF StandbyStarts, Standby!Start, pushVars
  <2>2. sPc = "idle"
    BY <2>1 DEF StandbyInv
  <2>3. sDisk = {} => Standby!Stored = {}
    BY DEF Standby!Stored
  <2>4. Taken' = Taken
    BY <2>1, <2>2 DEF Taken
  <2> QED BY <2>1, <2>2, <2>3, <2>4
<1>6. CASE UNCHANGED standbyStore /\ received' = received /\ pushes' \subseteq pushes
  <2>1. Standby!Stored' = Standby!Stored
    BY <1>6 DEF standbyStore, Standby!Stored
  <2>2. Taken' = Taken /\ sPc' = sPc /\ sMem' = sMem /\ sDisk' = sDisk
    BY <1>6, <2>1 DEF standbyStore, Taken
  <2> QED BY <1>6, <2>2
<1>7. CASE PrimaryMutates \/ PrimaryProceeds \/ PrimaryCrashes \/ PrimaryStarts
             \/ HandleBootstrap \/ PrimaryWritesSetup \/ PrimaryInstalls
             \/ \E r \in Request : LookForTenant(r) \/ SeedTenant(r)
  BY <1>6, <1>7 DEF PrimaryMutates, PrimaryProceeds, PrimaryCrashes, PrimaryStarts,
         HandleBootstrap, PrimaryWritesSetup, PrimaryInstalls, LookForTenant, SeedTenant, pushVars
<1>8. CASE LosePush \/ LoseSetupPush \/ ReceiveSetup \/ StandbyWritesSetup
  BY <1>6, <1>8 DEF LosePush, LoseSetupPush, ReceiveSetup, StandbyWritesSetup, pushVars
<1>9. ~PrimaryAcknowledges
  BY DEF PrimaryAcknowledges
<1> QED BY <1>1, <1>2, <1>3, <1>4, <1>5, <1>7, <1>8, <1>9 DEF ReplicationNext

LEMMA SyncInvNext == SyncInv /\ [ReplicationNext]_replicationVars => SyncInv'
<1>1. ASSUME SyncInv, ReplicationNext, issued' = issued PROVE SyncInv'
  <2>1. Inv' /\ StandbyInv'
    BY <1>1, PrimaryInvariant, StandbyInvNext DEF SyncInv
  <2>2. Pushed' = Pushed
    BY <1>1, PushedIsKept
  <2>3. /\ received' \in 0 .. issued /\ pushes' \subseteq pushes
        /\ issued = 0 => sPc' = "idle" /\ sMem' = {} /\ sDisk' = {}
        /\ received' = issued => Taken' = Pushed
    BY <1>1, TakenIsKept
  <2> QED BY <1>1, <2>1, <2>2, <2>3 DEF SyncInv, Numbered
<1>2. ASSUME SyncInv, UNCHANGED replicationVars PROVE SyncInv'
  <2>1. Inv' /\ StandbyInv'
    BY <1>2, PrimaryInvariant, StandbyInvNext DEF SyncInv
  <2>2. Stored' = Stored /\ Standby!Stored' = Standby!Stored
    BY <1>2 DEF replicationVars, vars, standbyStore, Stored, Standby!Stored
  <2>3. Pushed' = Pushed /\ Taken' = Taken
    BY <1>2, <2>2 DEF replicationVars, vars, standbyStore, Pushed, Taken
  <2> QED BY <1>2, <2>1, <2>3 DEF SyncInv, Numbered, replicationVars, standbyStore, pushVars
<1> QED BY <1>1, <1>2, IssueKeepsSync

\* Whatever was lost, overtaken, refused or forgotten: a standby that has the
\* last snapshot there was holds what a quiet primary holds.
THEOREM StandbyIsInSync == ReplicationSpec => []InSyncWhenQuiet
<1>1. ReplicationInit => SyncInv
  <2> SUFFICES ASSUME ReplicationInit PROVE SyncInv
    OBVIOUS
  <2>1. Inv
    BY InvInit DEF ReplicationInit
  <2>2. StandbyInv
    BY DEF ReplicationInit, StandbyInv, Standby!Init
  <2>3. Numbered
    BY DEF ReplicationInit, Numbered
  <2>4. Taken = Pushed
    BY DEF ReplicationInit, Init, Standby!Init, Taken, Pushed
  <2> QED BY <2>1, <2>2, <2>3, <2>4 DEF ReplicationInit, Standby!Init, SyncInv
<1>2. SyncInv => InSyncWhenQuiet
  BY DEF SyncInv, InSyncWhenQuiet, Taken, Pushed
<1> QED BY <1>1, <1>2, SyncInvNext, PTL DEF ReplicationSpec

(***************************************************************************)
(* The install lock.  A write of the setup file starts only while the node *)
(* runs and is not installed, which it cannot be any more once a request   *)
(* has been answered.                                                      *)
(***************************************************************************)
InstallInv ==
  /\ up /\ answered => lock
  /\ lock \/ answered => setupFile /\ step = "idle"
  /\ ~up => step = "idle"
  /\ step = "written" => setupFile

LEMMA InstallInvNext ==
  InstallInv /\ [ReplicationNext]_replicationVars => InstallInv'
<1> SUFFICES ASSUME InstallInv, [ReplicationNext]_replicationVars PROVE InstallInv'
  OBVIOUS
<1> USE DEF InstallInv
<1>1. CASE PrimaryCrashes
  BY <1>1 DEF PrimaryCrashes, Crash, Die, wizardVars
<1>2. CASE PrimaryStarts
  BY <1>2 DEF PrimaryStarts, Start, Load, wizardVars
<1>3. CASE HandleBootstrap
  BY <1>3 DEF HandleBootstrap, CheckInstalled, RejectBootstrap, Bootstrap, vars, wizardVars
<1>4. CASE PrimaryWritesSetup
  BY <1>4 DEF PrimaryWritesSetup, WriteSetup, WriteSetupFails, Release, vars, wizardVars
<1>5. CASE PrimaryInstalls
  BY <1>5 DEF PrimaryInstalls, Install, Release, vars
<1>6. ASSUME NEW r \in Request, LookForTenant(r)
      PROVE  InstallInv'
  BY <1>6 DEF LookForTenant, vars
<1>7. ASSUME NEW r \in Request, SeedTenant(r)
      PROVE  InstallInv'
  BY <1>7 DEF SeedTenant, Mutate, ApplyFails, wizardVars
<1>8. CASE PrimaryMutates \/ PrimaryAcknowledges
  BY <1>8 DEF PrimaryMutates, PrimaryAcknowledges, Mutate, ApplyFails, Acknowledge, setupVars, wizardVars
<1>9. CASE PrimaryProceeds
  BY <1>9 DEF PrimaryProceeds, WriteStep, WriteTemp, WriteTempFails, RemoveOld, RemoveFails,
              Rename, RenameFails, Restore, setupVars, wizardVars
<1>10. CASE LosePush \/ LoseSetupPush \/ ReceivePush \/ ReceiveSetup \/ StandbyWritesSetup
              \/ StandbyProceeds \/ StandbyFails \/ StandbyCrashes \/ StandbyStarts
  BY <1>10 DEF LosePush, LoseSetupPush, ReceivePush, ReceiveSetup, StandbyWritesSetup,
         StandbyProceeds, StandbyFails, StandbyCrashes, StandbyStarts, vars, setupVars, wizardVars
<1>11. CASE UNCHANGED replicationVars
  BY <1>11 DEF replicationVars, vars, setupVars, wizardVars
<1> QED
  BY <1>1, <1>2, <1>3, <1>4, <1>5, <1>6, <1>7, <1>8, <1>9, <1>10, <1>11 DEF ReplicationNext

\* Once the wizard has answered, the primary is installed whenever it runs,
\* whichever file operations fail and wherever it dies.
THEOREM InstallationIsKept == ReplicationSpec => []InstallIsKept
<1>1. ReplicationInit => InstallInv
  BY DEF ReplicationInit, InstallInv, Init, SetupInit
<1>2. InstallInv => InstallIsKept
  BY DEF InstallInv, InstallIsKept
<1> QED BY <1>1, <1>2, InstallInvNext, PTL DEF ReplicationSpec

(***************************************************************************)
(* The first tenant.  The last request that looks for the slug decides;    *)
(* while it is about to save, no tenant can appear, because whoever else   *)
(* came that far had raced it, and a restart ends it.                      *)
(***************************************************************************)
OneIn(state) == \A q, r \in state \cap Request : q = r

TenantInv ==
  /\ Inv
  /\ place \in [Request -> Places]
  /\ ~raced =>
       /\ OneIn(mem) /\ OneIn(Stored)
       /\ \A r \in Request : place[r] = "save" =>
            /\ up /\ mem \cap Request = {}
            /\ \A q \in Request : place[q] = "save" => q = r

\* The file never holds more than the memory of a process that runs.
LEMMA StoredIsInMemory == Inv /\ up => Stored \subseteq mem
<1> SUFFICES ASSUME Inv, up PROVE Stored \subseteq mem
  OBVIOUS
<1>1. CASE pc = "idle"
  BY <1>1, StoredIsTheFile DEF Inv, AtRest
<1>2. CASE pc # "idle"
  <2>1. InFlight
    BY <1>2 DEF Inv
  <2> QED BY <2>1, StoredIsTheFile DEF InFlight
<1> QED BY <1>1, <1>2

\* What a step does that brings no new tenant and moves no request to its save.
BringsNoTenant ==
  /\ mem' \subseteq mem /\ Stored' \subseteq mem \cup Stored
  /\ ~up => Stored' = Stored /\ mem' = mem

MovesNoneToSave ==
  /\ place' \in [Request -> Places]
  /\ \A r \in Request : place'[r] = "save" => place[r] = "save" /\ up'

LEMMA NoNewTenant ==
  ASSUME TenantInv, Inv', raced' = raced, BringsNoTenant, MovesNoneToSave
  PROVE  TenantInv'
<1> USE DEF BringsNoTenant, MovesNoneToSave
<1>1. CASE up
  <2>1. Stored' \subseteq mem
    BY <1>1, StoredIsInMemory DEF TenantInv
  <2> QED BY <2>1 DEF TenantInv, OneIn
<1>2. CASE ~up
  BY <1>2 DEF TenantInv, OneIn
<1> QED BY <1>1, <1>2

LEMMA TenantInvNext ==
  TenantInv /\ [ReplicationNext]_replicationVars => TenantInv'
<1> SUFFICES ASSUME TenantInv, [ReplicationNext]_replicationVars PROVE TenantInv'
  OBVIOUS
<1>0. Inv'
  BY PrimaryInvariant DEF TenantInv
<1>1. CASE PrimaryMutates
  <2>1. PICK o \in Op \ Request : Mutate(o) \/ ApplyFails(o)
    BY <1>1 DEF PrimaryMutates
  <2>2. /\ mem' \in {mem, mem \cup {o}} /\ up /\ up' /\ disk' = disk
        /\ raced' = raced /\ place' = place
    BY <1>1, <2>1 DEF PrimaryMutates, Mutate, ApplyFails, wizardVars, setupVars
  <2>3. Stored' = Stored
    BY <2>2 DEF Stored
  <2>4. mem' \cap Request = mem \cap Request
    BY <2>2
  <2> QED BY <1>0, <2>2, <2>3, <2>4 DEF TenantInv, OneIn
<1>2. CASE PrimaryProceeds
  <2>1. BringsNoTenant /\ up'
    <3> USE DEF BringsNoTenant
    <3>1. CASE Restore
      <4>1. Stored' = Stored /\ rollback \subseteq mem
        BY <3>1 DEF Restore, Stored, TenantInv, Inv, InFlight
      <4>2. mem' = rollback /\ up /\ up'
        BY <3>1 DEF Restore
      <4> QED BY <4>1, <4>2
    <3>2. CASE WriteTemp \/ WriteTempFails \/ RemoveFails \/ RenameFails
      BY <3>2 DEF WriteTemp, WriteTempFails, RemoveFails, RenameFails, Stored
    <3>3. CASE RemoveOld
      BY <3>3, StoredIsTheFileNext DEF RemoveOld
    <3>4. CASE Rename
      <4>1. Stored' = data /\ mem = data
        BY <3>4, StoredIsTheFileNext DEF Rename, TenantInv, Inv, InFlight
      <4> QED BY <3>4, <4>1 DEF Rename
    <3> QED BY <1>2, <3>1, <3>2, <3>3, <3>4 DEF PrimaryProceeds, WriteStep
  <2>2. raced' = raced /\ place' = place
    BY <1>2 DEF PrimaryProceeds, setupVars, wizardVars
  <2>3. MovesNoneToSave
    BY <2>1, <2>2 DEF MovesNoneToSave, TenantInv
  <2> QED BY <1>0, <2>1, <2>2, <2>3, NoNewTenant
<1>3. CASE PrimaryAcknowledges
  <2>1. mem' = mem /\ disk' = disk /\ up /\ up' /\ raced' = raced /\ place' = place
    BY <1>3 DEF PrimaryAcknowledges, Acknowledge, setupVars, wizardVars
  <2>2. BringsNoTenant
    BY <2>1 DEF BringsNoTenant, Stored
  <2>3. MovesNoneToSave
    BY <2>1 DEF MovesNoneToSave, TenantInv
  <2> QED BY <1>0, <2>1, <2>2, <2>3, NoNewTenant
<1>4. CASE PrimaryCrashes
  <2>1. mem' = {} /\ disk' = disk /\ up /\ raced' = raced
    BY <1>4 DEF PrimaryCrashes, Crash, wizardVars
  <2>2. BringsNoTenant
    <3>1. Stored' = Stored
      BY <2>1 DEF Stored
    <3> QED BY <2>1, <3>1 DEF BringsNoTenant
  <2>3. MovesNoneToSave
    BY <1>4 DEF PrimaryCrashes, Die, TenantInv, Places, Waiting, Seeding, MovesNoneToSave
  <2> QED BY <1>0, <2>1, <2>2, <2>3, NoNewTenant
<1>5. CASE PrimaryStarts
  <2>1. ~up /\ mem' = Stored /\ disk' = disk /\ raced' = raced /\ place' = place
    BY <1>5 DEF PrimaryStarts, Start, Load, wizardVars
  <2>2. Stored' = Stored
    BY <2>1 DEF Stored
  <2> QED BY <1>0, <2>1, <2>2 DEF TenantInv, OneIn
<1>6. CASE HandleBootstrap \/ PrimaryWritesSetup \/ PrimaryInstalls
  <2>1. UNCHANGED vars /\ up /\ raced' = raced
    BY <1>6 DEF HandleBootstrap, PrimaryWritesSetup, PrimaryInstalls, wizardVars
  <2>2. BringsNoTenant /\ up'
    BY <2>1 DEF vars, Stored, BringsNoTenant
  <2>3. /\ place' \in [Request -> Places]
        /\ \A r \in Request : place'[r] = "save" => place[r] = "save"
    <3>1. CASE HandleBootstrap
      BY <3>1 DEF HandleBootstrap, CheckInstalled, RejectBootstrap, Bootstrap, Move, TenantInv,
                  Places, Waiting, Seeding
    <3>2. CASE PrimaryWritesSetup \/ PrimaryInstalls
      <4>1. \/ place' = place
            \/ \E a \in {"failed", "list"} :
                 place' = [r \in Request |-> IF r = holder THEN a ELSE place[r]]
        BY <3>2 DEF PrimaryWritesSetup, PrimaryInstalls, WriteSetup, WriteSetupFails, Install, Release
      <4> QED BY <4>1 DEF TenantInv, Places, Seeding
    <3> QED BY <1>6, <3>1, <3>2
  <2>4. MovesNoneToSave
    BY <2>2, <2>3 DEF MovesNoneToSave
  <2> QED BY <1>0, <2>1, <2>2, <2>4, NoNewTenant
<1>7. ASSUME NEW r \in Request, LookForTenant(r) PROVE TenantInv'
  <2>1. UNCHANGED vars /\ up
    BY <1>7 DEF LookForTenant
  <2>2. Stored' = Stored /\ mem' = mem /\ up'
    BY <2>1 DEF vars, Stored
  <2>3. CASE \E x \in {"done", "slug"} : place' = [place EXCEPT ![r] = x]
    <3>1. \A q \in Request : place'[q] = "save" => place[q] = "save"
      BY <2>3 DEF TenantInv
    <3>2. raced => raced'
      BY <1>7 DEF LookForTenant
    <3>3. place' \in [Request -> Places]
      BY <2>3 DEF TenantInv, Places, Seeding
    <3> QED BY <1>0, <2>2, <3>1, <3>2, <3>3 DEF TenantInv
  <2>4. CASE Move(r, "slug", "save") /\ ~TenantExists
             /\ raced' = (raced \/ \E q \in Request \ {r} : place[q] = "save")
    <3>1. place' \in [Request -> Places] /\ place' = [place EXCEPT ![r] = "save"]
      BY <2>4 DEF Move, TenantInv, Places, Seeding
    <3>2. \A q \in Request : q # r => place'[q] = place[q]
      BY <3>1 DEF TenantInv
    <3> QED BY <1>0, <2>1, <2>2, <2>4, <3>1, <3>2 DEF TenantInv, TenantExists, OneIn
  <2>5. \/ \E x \in {"done", "slug"} : place' = [place EXCEPT ![r] = x]
        \/ Move(r, "slug", "save") /\ ~TenantExists
             /\ raced' = (raced \/ \E q \in Request \ {r} : place[q] = "save")
    BY <1>7 DEF LookForTenant, Move
  <2> QED BY <2>3, <2>4, <2>5
<1>8. ASSUME NEW r \in Request, SeedTenant(r) PROVE TenantInv'
  <2>1. /\ place[r] = "save" /\ place' = [place EXCEPT ![r] = "done"]
        /\ mem' \in {mem, mem \cup {r}} /\ disk' = disk /\ up /\ raced' = raced
    BY <1>8 DEF SeedTenant, Mutate, ApplyFails, Move, wizardVars
  <2>2. Stored' = Stored
    BY <2>1 DEF Stored
  <2>3. place' \in [Request -> Places] /\ \A q \in Request : q # r => place'[q] = place[q]
    BY <2>1 DEF TenantInv, Places
  <2>4. place'[r] # "save"
    BY <2>1 DEF TenantInv
  <2> QED BY <1>0, <2>1, <2>2, <2>3, <2>4 DEF TenantInv, OneIn
<1>9. CASE LosePush \/ LoseSetupPush \/ ReceivePush \/ ReceiveSetup \/ StandbyWritesSetup
             \/ StandbyProceeds \/ StandbyFails \/ StandbyCrashes \/ StandbyStarts
             \/ UNCHANGED replicationVars
  <2>1. UNCHANGED <<vars, setupVars>> /\ raced' = raced
    BY <1>9 DEF LosePush, LoseSetupPush, ReceivePush, ReceiveSetup, StandbyWritesSetup,
         StandbyProceeds, StandbyFails, StandbyCrashes, StandbyStarts, replicationVars, wizardVars
  <2>2. Stored' = Stored /\ mem' = mem /\ up' = up /\ place' = place
    BY <2>1 DEF vars, setupVars, Stored
  <2> QED BY <1>0, <2>1, <2>2 DEF TenantInv, OneIn
<1> QED
  BY <1>1, <1>2, <1>3, <1>4, <1>5, <1>6, <1>7, <1>8, <1>9 DEF ReplicationNext

\* The wizard seeds one tenant, however many requests it gets and wherever
\* they fail or the process dies, unless two of them looked together.
THEOREM TheWizardSeedsOnce == ReplicationSpec => []OneTenantIsSeeded
<1>1. ReplicationInit => TenantInv
  <2> SUFFICES ASSUME ReplicationInit PROVE TenantInv
    OBVIOUS
  <2>1. Inv /\ mem = {} /\ disk = {}
    BY InvInit DEF ReplicationInit, Init
  <2>2. Stored = {}
    BY <2>1, StoredIsTheFile
  <2>3. place = [r \in Request |-> "new"]
    BY DEF ReplicationInit, SetupInit
  <2> QED BY <2>1, <2>2, <2>3 DEF TenantInv, OneIn, Places, Waiting
<1>2. TenantInv => OneTenantIsSeeded
  BY DEF TenantInv, OneTenantIsSeeded, OneIn
<1> QED BY <1>1, <1>2, TenantInvNext, PTL DEF ReplicationSpec
=============================================================================
