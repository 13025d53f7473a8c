---------------------------- MODULE Replication ----------------------------
(***************************************************************************)
(* Two nodes: the install wizard, the file stores, and active/standby      *)
(* replication (internal/app/replication.go, the replica handlers of       *)
(* internal/api, internal/setup).  The primary's file store starts a       *)
(* goroutine after every acknowledged mutation that PUTs the whole         *)
(* snapshot to the standby once; nothing orders these goroutines and       *)
(* nothing retries them.  The standby applies a snapshot to its own file   *)
(* store under that store's mutex.  The install state travels the same way *)
(* on a channel of its own, and a standby that is not installed refuses    *)
(* snapshots.                                                              *)
(*                                                                         *)
(* FileStore's and Setup's variables are the primary's; Standby and        *)
(* StandbySetup are second instances.  A bootstrap request is also the     *)
(* mutation by which it seeds the first tenant.                            *)
(***************************************************************************)
EXTENDS FileStore, Setup, Naturals

ASSUME RequestAssumption == Request \subseteq Op

VARIABLES
  (* The file store and the setup manager of the standby.                  *)
  sUp, sMem, sDisk, sPc, sOp, sRollback, sData, sOutcome,
  sLock, sSetupFile, sHolder, sStep,
  (* Requests that left the primary and have not taken the standby's lock. *)
  pushes,       (* Snapshots, numbered in the order of their mutations.    *)
  setupPush,    (* The install state.                                      *)
  (* History.                                                              *)
  issued,       (* The number of the last snapshot, also one never pushed. *)
  received,     (* The number of the snapshot that the standby has, or 0.  *)
  answered,     (* A bootstrap request has installed the primary.          *)
  raced         (* A request looked for the slug while another one had     *)
                (* looked and not saved yet.                               *)

standbyStore == <<sUp, sMem, sDisk, sPc, sOp, sRollback, sData, sOutcome>>
standbySetup == <<sLock, sSetupFile, sHolder, sStep>>
pushVars     == <<pushes, issued, received>>
wizardVars   == <<setupPush, answered, raced>>
replicationVars == <<vars, setupVars, standbyStore, standbySetup, pushVars, wizardVars>>

\* The standby takes no mutation and no bootstrap request of its own
\* (withStandbyGuard, and Run does not start the device listeners).
Standby == INSTANCE FileStore WITH
  up <- sUp, mem <- sMem, disk <- sDisk, pc <- sPc, op <- sOp,
  rollback <- sRollback, data <- sData, outcome <- sOutcome

StandbySetup == INSTANCE Setup WITH
  Request <- {}, lock <- sLock, setupFile <- sSetupFile, holder <- sHolder,
  step <- sStep, place <- [r \in {} |-> "new"]

(***************************************************************************)
(* The primary's store.                                                    *)
(***************************************************************************)

\* withInstallGuard lets a mutation in only once the node is installed.
PrimaryMutates ==
  /\ lock
  /\ \E o \in Op \ Request : Mutate(o) \/ ApplyFails(o)
  /\ UNCHANGED <<setupVars, standbyStore, standbySetup, pushVars, wizardVars>>

PrimaryProceeds ==
  /\ WriteStep \/ Restore
  /\ UNCHANGED <<setupVars, standbyStore, standbySetup, pushVars, wizardVars>>

\* A mutant: the hook gets the snapshot that was taken for the rollback.
AcknowledgesWithRollback ==
  /\ Acknowledge
  /\ issued' = issued + 1
  /\ pushes' = pushes \cup {[no |-> issued', state |-> rollback]}
  /\ UNCHANGED <<setupVars, standbyStore, standbySetup, received, wizardVars>>

\* The mutation is acknowledged and its snapshot handed to the hook.
PrimaryAcknowledges ==
  /\ Acknowledge
  /\ issued' = issued + 1
  /\ pushes' = pushes \cup {[no |-> issued', state |-> data]}
  /\ UNCHANGED <<setupVars, standbyStore, standbySetup, received, wizardVars>>

\* Requests that the standby already has survive; LosePush is for the others.
\* What a restart will load was pushed before, unless its hook has not
\* started or the file is gone.
PrimaryCrashes ==
  /\ Crash /\ Die
  /\ issued' = IF pc = "written" \/ Stored # Content THEN issued + 1 ELSE issued
  /\ UNCHANGED <<standbyStore, standbySetup, pushes, received, wizardVars>>

PrimaryStarts ==
  /\ Start /\ Load
  /\ UNCHANGED <<standbyStore, standbySetup, pushVars, wizardVars>>

(***************************************************************************)
(* The install wizard on the primary.                                      *)
(***************************************************************************)
HandleBootstrap ==
  /\ up
  /\ \E r \in Request : CheckInstalled(r) \/ RejectBootstrap(r) \/ Bootstrap(r)
  /\ UNCHANGED <<vars, standbyStore, standbySetup, pushVars, wizardVars>>

PrimaryWritesSetup ==
  /\ up
  /\ WriteSetup \/ WriteSetupFails
  /\ UNCHANGED <<vars, standbyStore, standbySetup, pushVars, wizardVars>>

\* The goroutine of the setup hook sends the state to the standby.
PrimaryInstalls ==
  /\ up
  /\ Install
  /\ answered' = TRUE /\ setupPush' = TRUE
  /\ UNCHANGED <<vars, standbyStore, standbySetup, pushVars, raced>>

TenantExists == mem \cap Request # {}

\* A mutant: the second request does not look for the slug.
SeedUnseen(r) ==
  /\ up
  /\ Move(r, "list", "save")
  /\ UNCHANGED <<vars, lock, setupFile, holder, step, standbyStore, standbySetup,
                 pushVars, wizardVars>>

\* seedInstallTenant does nothing when there is a tenant; CreateTenant then
\* refuses a slug that is taken.  Neither holds a lock until the save.
LookForTenant(r) ==
  /\ up
  /\ \/ /\ Move(r, "list", IF TenantExists THEN "done" ELSE "slug")
        /\ UNCHANGED raced
     \/ /\ Move(r, "slug", IF TenantExists THEN "done" ELSE "save")
        /\ raced' = (raced \/ \E q \in Request \ {r} : place[q] = "save")
  /\ UNCHANGED <<vars, lock, setupFile, holder, step, standbyStore, standbySetup,
                 pushVars, setupPush, answered>>

SeedTenant(r) ==
  /\ Mutate(r) \/ ApplyFails(r)
  /\ Move(r, "save", "done")
  /\ UNCHANGED <<lock, setupFile, holder, step, standbyStore, standbySetup, pushVars, wizardVars>>

(***************************************************************************)
(* The network.                                                            *)
(***************************************************************************)

\* The timeout expires, the standby is down, or its install guard refuses.
LosePush ==
  /\ \E p \in pushes : pushes' = pushes \ {p}
  /\ UNCHANGED <<vars, setupVars, standbyStore, standbySetup, issued, received, wizardVars>>

LoseSetupPush ==
  /\ setupPush /\ setupPush' = FALSE
  /\ UNCHANGED <<vars, setupVars, standbyStore, standbySetup, pushVars, answered, raced>>

(***************************************************************************)
(* The standby's handlers.                                                 *)
(***************************************************************************)

\* handleReplicaSnapshot, up to the lock of ApplyReplicaSnapshot.
ReceivePush ==
  /\ sLock /\ sHolder = NoHolder
  /\ \E p \in pushes :
       /\ Standby!ReceiveSnapshot(p.state)
       /\ pushes' = pushes \ {p}
       /\ received' = p.no
  /\ UNCHANGED <<vars, setupVars, standbySetup, issued, wizardVars>>

\* handleReplicaSetup.
ReceiveSetup ==
  /\ sUp /\ setupPush
  /\ setupPush' = FALSE
  /\ StandbySetup!ApplyReplicaState
  /\ UNCHANGED <<vars, setupVars, standbyStore, pushVars, answered, raced>>

StandbyWritesSetup ==
  /\ sUp
  /\ StandbySetup!WriteSetup \/ StandbySetup!WriteSetupFails \/ StandbySetup!Install
  /\ UNCHANGED <<vars, setupVars, standbyStore, pushVars, wizardVars>>

\* A mutant: the file is replaced and the memory store is not.
StandbySkipsRestore ==
  /\ \/ Standby!WriteTemp \/ Standby!RemoveOld \/ Standby!RemoveFails \/ Standby!Rename
     \/ sUp /\ sPc = "written" /\ sPc' = "idle" /\ UNCHANGED <<sUp, sMem, sDisk, sOp, sRollback, sData, sOutcome>>
  /\ UNCHANGED <<vars, setupVars, standbySetup, pushVars, wizardVars>>

StandbyProceeds ==
  /\ \/ Standby!WriteTemp \/ Standby!RemoveOld \/ Standby!RemoveFails \/ Standby!Rename
     \/ Standby!RestoreSnapshot
  /\ UNCHANGED <<vars, setupVars, standbySetup, pushVars, wizardVars>>

StandbyFails ==
  /\ Standby!WriteTempFails \/ Standby!RenameFails
  /\ received' = 0
  /\ UNCHANGED <<vars, setupVars, standbySetup, pushes, issued, wizardVars>>

StandbyCrashes ==
  /\ Standby!Crash /\ StandbySetup!Die
  /\ received' = IF sPc # "idle" \/ Standby!Stored # sMem THEN 0 ELSE received
  /\ UNCHANGED <<vars, setupVars, pushes, issued, wizardVars>>

StandbyStarts ==
  /\ Standby!Start /\ StandbySetup!Load
  /\ UNCHANGED <<vars, setupVars, pushVars, wizardVars>>

(***************************************************************************)
(* Specification.                                                          *)
(***************************************************************************)

ReplicationInit ==
  /\ Init /\ SetupInit
  /\ Standby!Init /\ StandbySetup!SetupInit
  /\ pushes = {} /\ setupPush = FALSE
  /\ issued = 0 /\ received = 0
  /\ answered = FALSE /\ raced = FALSE

ReplicationNext ==
  \/ PrimaryMutates \/ PrimaryProceeds \/ PrimaryAcknowledges
  \/ PrimaryCrashes \/ PrimaryStarts
  \/ HandleBootstrap \/ PrimaryWritesSetup \/ PrimaryInstalls
  \/ \E r \in Request : LookForTenant(r) \/ SeedTenant(r)
  \/ LosePush \/ LoseSetupPush
  \/ ReceivePush \/ ReceiveSetup \/ StandbyWritesSetup
  \/ StandbyProceeds \/ StandbyFails \/ StandbyCrashes \/ StandbyStarts

ReplicationSpec == ReplicationInit /\ [][ReplicationNext]_replicationVars

(***************************************************************************)
(* Properties.                                                             *)
(***************************************************************************)

\* Every snapshot that the standby has, or will get.
Replicas ==
  {p.state : p \in pushes} \cup sDisk \cup {sMem} \cup (IF sPc = "idle" THEN {} ELSE {sData})

\* Nothing reaches the standby that the primary has not made durable first:
\* no mutation that failed, and none whose caller is still waiting (mutate
\* starts the hook after persist).
StandbyHoldsOnlyDurable ==
  \A o \in Op : outcome[o] \in {"new", "failed"} => \A s \in Replicas : o \notin s

\* A restart of the standby, and so a failover, finds what its readers saw,
\* unless its file is gone (ApplyReplicaSnapshot writes it, then restores).
StandbyMatchesFile ==
  sUp /\ sPc # "written" => \A s \in sDisk : sMem = s

\* The standby is a hot backup: with nothing under way, it holds what the
\* primary holds whenever the last snapshot it took is the last there was,
\* whatever was lost, refused, overtaken or forgotten before (replicatePayload
\* tries once and nothing orders the hooks, so every snapshot is a whole one).
InSyncWhenQuiet ==
  /\ up /\ pc = "idle"
  /\ sUp /\ sPc = "idle"
  /\ received = issued
  => sMem = mem

\* Once the wizard has installed the primary, it is installed whenever it
\* runs, wherever it died in the meantime (Bootstrap writes the file first).
InstallIsKept == answered /\ up => lock

\* The wizard seeds one tenant, whatever requests it got, unless two of them
\* looked for the slug together (seedInstallTenant, CreateTenant).
OneTenantIsSeeded == ~raced => \A q, r \in mem \cap Request : q = r

============================================================================
