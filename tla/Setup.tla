------------------------------- MODULE Setup ------------------------------
(***************************************************************************)
(* The setup manager of one node (internal/setup) and the handlers of the  *)
(* install wizard (internal/api/install.go).  The manager keeps the        *)
(* install lock in memory and in a file of its own, and holds its mutex    *)
(* while it writes the file.  Every state it ever writes says installed,   *)
(* so the file either exists or not.                                       *)
(***************************************************************************)
CONSTANTS
  Request,       (* POST /api/v1/install/bootstrap.                        *)
  Replica,       (* The holder of the mutex in ApplyReplicaState.          *)
  NoHolder,      (* The mutex is free.                                     *)
  SetupFailure   (* Which file operations may fail: "write", "remove", "rename". *)

ASSUME HolderAssumption ==
  Replica \notin Request /\ NoHolder \notin Request \cup {Replica}

VARIABLES
  lock,       (* m.state.InstallLock.                                      *)
  setupFile,  (* The setup file exists.                                    *)
  holder,     (* Who holds m.mu across writeLocked.                        *)
  step,       (* Where writeLocked is.                                     *)
  place       (* Where each handler is.                                    *)

setupVars == <<lock, setupFile, holder, step, place>>

Waiting == {"new", "admitted"}
Seeding == {"list", "slug", "save"}
Places  == Waiting \cup {"write"} \cup Seeding \cup {"done", "refused", "failed", "died"}

Move(r, from, to) ==
  /\ place[r] = from
  /\ place' = [place EXCEPT ![r] = to]

(***************************************************************************)
(* handleInstallBootstrap and Manager.Bootstrap.                           *)
(***************************************************************************)

\* Installed() waits for the mutex; an installed node answers 409.
CheckInstalled(r) ==
  /\ holder = NoHolder
  /\ Move(r, "new", IF lock THEN "refused" ELSE "admitted")
  /\ UNCHANGED <<lock, setupFile, holder, step>>

\* The request is malformed, or names no application or administrator.
RejectBootstrap(r) ==
  /\ Move(r, "admitted", "failed")
  /\ UNCHANGED <<lock, setupFile, holder, step>>

\* A request that comes second gets the state of the first, and seeds too.
Bootstrap(r) ==
  /\ holder = NoHolder
  /\ IF lock
     THEN Move(r, "admitted", "list") /\ UNCHANGED <<holder, step>>
     ELSE Move(r, "admitted", "write") /\ holder' = r /\ step' = "write"
  /\ UNCHANGED <<lock, setupFile>>

\* Manager.ApplyReplicaState.
ApplyReplicaState ==
  /\ holder = NoHolder
  /\ holder' = Replica /\ step' = "write"
  /\ UNCHANGED <<lock, setupFile, place>>

(***************************************************************************)
(* writeLocked                                                             *)
(***************************************************************************)
WriteSetup ==
  /\ \/ step = "write" /\ step' = "remove" /\ UNCHANGED setupFile
     \/ step = "remove" /\ step' = "rename" /\ setupFile' = FALSE
     \/ step = "remove" /\ "remove" \in SetupFailure /\ step' = "rename" /\ UNCHANGED setupFile
     \/ step = "rename" /\ step' = "written" /\ setupFile' = TRUE
  /\ UNCHANGED <<lock, holder, place>>

\* Unlock, with the handler's answer if it was a bootstrap request.
Release(answer) ==
  /\ holder' = NoHolder /\ step' = "idle"
  /\ place' = [r \in Request |-> IF r = holder THEN answer ELSE place[r]]

WriteSetupFails ==
  /\ step \in {"write", "rename"} \cap SetupFailure
  /\ Release("failed")
  /\ UNCHANGED <<lock, setupFile>>

\* A mutant: the lock is set before the file is written.
InstallFirst ==
  /\ step = "write"
  /\ lock' = TRUE
  /\ Release("list")
  /\ UNCHANGED setupFile

\* m.state = state; the caller starts the hook.
Install ==
  /\ step = "written"
  /\ lock' = TRUE
  /\ Release("list")
  /\ UNCHANGED setupFile

(***************************************************************************)
(* The process dies, and NewManager loads the file.                        *)
(***************************************************************************)
Die ==
  /\ lock' = FALSE /\ holder' = NoHolder /\ step' = "idle"
  /\ place' = [r \in Request |->
                 IF place[r] \in {"admitted", "write"} \cup Seeding THEN "died" ELSE place[r]]
  /\ UNCHANGED setupFile

Load ==
  /\ lock' = setupFile
  /\ UNCHANGED <<setupFile, holder, step, place>>

SetupInit ==
  /\ lock = FALSE /\ setupFile = FALSE
  /\ holder = NoHolder /\ step = "idle"
  /\ place = [r \in Request |-> "new"]

============================================================================
