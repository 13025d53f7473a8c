------------------------------ MODULE Commands ------------------------------
(***************************************************************************)
(* The life of a command and of the OTA campaign that sends it             *)
(* (internal/core/automation.go, HandleCommandAck in service.go, the       *)
(* dispatch in multitenant_ota.go).                                        *)
(*                                                                         *)
(* sendCommandWithCampaign saves a command, reads the device's session,    *)
(* sends, and only then records that it was sent; the device's ack is      *)
(* handled by a goroutine of its own connection, which updates the command *)
(* and then reads, changes and saves the campaign.  The campaign's         *)
(* dispatcher works on a copy of the campaign that it read before the      *)
(* first command and saves after the last.  Each store call is atomic,     *)
(* what lies between two is not.                                           *)
(*                                                                         *)
(* One campaign; the other commands come from the API or from rules.  The  *)
(* registry and the session appear as what they answer here: there is a    *)
(* session or not, and it takes the message or not (a displaced one is     *)
(* closed, a slow one is full).  An ack for a command of another device is *)
(* refused before it changes anything.                                     *)
(***************************************************************************)
EXTENDS Naturals, FiniteSets

CONSTANTS
  Command,
  OTA,          (* The campaign's commands, one for each target device.    *)
  MaxAcks,      (* Bound: how often a device acknowledges one command.     *)
  Failure       (* What may go wrong: store calls, the process.            *)

ASSUME CommandAssumption == OTA \subseteq Command /\ IsFiniteSet(Command)
ASSUME MaxAcksAssumption == MaxAcks \in Nat
ASSUME FailureAssumption == Failure \subseteq {"store", "crash"}

Ack == Command \X (1..MaxAcks)

VARIABLES
  (* The store.                                                            *)
  status,       (* Of each command.                                        *)
  campaign,     (* The campaign as last saved.                             *)
  (* The goroutines that send.                                             *)
  inbox,        (* The commands that a session took.                       *)
  send,         (* Where each command's sendCommandWithCampaign is.        *)
  dispatch,     (* Where dispatchOTACampaign is.                           *)
  (* The goroutines that handle acks.                                      *)
  ack,          (* Where each HandleCommandAck is.                         *)
  answer,       (* What the device answered.                               *)
  copy          (* The campaign as read by updateCampaignFromCommandAck.   *)

sender == <<send, dispatch>>
handler == <<ack, answer, copy>>
vars == <<status, campaign, inbox, sender, handler>>

\* CreateOTACampaign's record, which is also the dispatcher's copy.
NewCampaign ==
  [total |-> 0, dispatched |-> 0, acked |-> 0, failed |-> 0, status |-> "pending"]

(***************************************************************************)
(* sendCommandWithCampaign                                                 *)
(***************************************************************************)

\* Where a call stands when it has returned; "unrecorded" if the command's
\* last status could not be stored.
Errors == {"error", "unrecorded"}
Returned == Errors \cup {"ok", "died"}

\* The dispatcher sends its commands one after the other.
MayBegin(c) ==
  /\ send[c] = "new"
  /\ c \in OTA =>
       dispatch = "running" /\ \A d \in OTA : send[d] \in {"new"} \cup Returned

SendProceeds(c, from, to) ==
  /\ send[c] = from
  /\ send' = [send EXCEPT ![c] = to]
  /\ inbox' = IF to = "delivered" THEN inbox \cup {c} ELSE inbox
  /\ UNCHANGED <<campaign, dispatch, handler>>

\* The device is unknown, the product has no such service, or SaveCommand fails.
RefuseCommand(c) ==
  /\ MayBegin(c)
  /\ SendProceeds(c, "new", "error")
  /\ UNCHANGED status

SaveCommand(c) ==
  /\ MayBegin(c)
  /\ SendProceeds(c, "new", "saved")
  /\ status' = [status EXCEPT ![c] = "pending"]

ReadSession(c) ==
  /\ \/ SendProceeds(c, "saved", "session")
     \/ SendProceeds(c, "saved", "failing")         \* The device is offline.
  /\ UNCHANGED status

Send(c) ==
  /\ \/ SendProceeds(c, "session", "delivered")
     \/ SendProceeds(c, "session", "failing")       \* Closed, or its queue is full.
  /\ UNCHANGED status

\* A mutant: the caller gets the error, the command is left as it is.
ReturnError(c) ==
  /\ SendProceeds(c, "failing", "error")
  /\ UNCHANGED status

\* The error of UpdateCommandStatus is dropped.
MarkFailed(c) ==
  \/ /\ SendProceeds(c, "failing", "error")
     /\ status' = [status EXCEPT ![c] = "failed"]
  \/ /\ "store" \in Failure
     /\ SendProceeds(c, "failing", "unrecorded")
     /\ UNCHANGED status

\* The message is out, whether the caller learns it or not.
MarkSent(c) ==
  \/ /\ SendProceeds(c, "delivered", "ok")
     /\ status' = [status EXCEPT ![c] = "sent"]
  \/ /\ "store" \in Failure
     /\ SendProceeds(c, "delivered", "unrecorded")
     /\ UNCHANGED status

(***************************************************************************)
(* dispatchOTACampaign, after its loop                                     *)
(***************************************************************************)

CallsThat(results) == Cardinality({c \in OTA : send[c] \in results})

\* A mutant: only the devices that were reached are targets.
DispatchedReached ==
  LET ok == CallsThat({"ok"})
  IN  [NewCampaign EXCEPT !.total = ok, !.dispatched = ok, !.failed = CallsThat(Errors)]

Dispatched ==
  LET ok == CallsThat({"ok"})
      errors == CallsThat(Errors)
  IN  [NewCampaign EXCEPT
         !.total = Cardinality(OTA),
         !.dispatched = ok,
         !.failed = errors,
         !.status = CASE ok > 0 /\ errors = 0 -> "running"
                      [] ok > 0 /\ errors > 0 -> "partial"
                      [] OTHER -> "pending"]

SaveDispatch ==
  /\ dispatch = "running"
  /\ \A c \in OTA : send[c] \in Returned
  /\ \/ campaign' = Dispatched
     \/ "store" \in Failure /\ UNCHANGED campaign
  /\ dispatch' = "done"
  /\ UNCHANGED <<status, inbox, send, handler>>

(***************************************************************************)
(* HandleCommandAck                                                        *)
(***************************************************************************)

\* GetCommand and UpdateCommandStatus.
UpdateCommand(a) ==
  /\ ack[a] = "new" /\ a[1] \in inbox
  /\ \E result \in {"acked", "failed"} :
       /\ status' = [status EXCEPT ![a[1]] = result]
       /\ answer' = [answer EXCEPT ![a] = result]
  /\ ack' = [ack EXCEPT ![a] = IF a[1] \in OTA THEN "updated" ELSE "handled"]
  /\ UNCHANGED <<campaign, inbox, sender, copy>>

UpdateCommandFails(a) ==
  /\ "store" \in Failure
  /\ ack[a] = "new" /\ a[1] \in inbox
  /\ ack' = [ack EXCEPT ![a] = "handled"]
  /\ UNCHANGED <<status, campaign, inbox, sender, answer, copy>>

\* updateCampaignFromCommandAck reads the campaign.
ReadCampaign(a) ==
  /\ ack[a] = "updated"
  /\ ack' = [ack EXCEPT ![a] = "counting"]
  /\ copy' = [copy EXCEPT ![a] = campaign]
  /\ UNCHANGED <<status, campaign, inbox, sender, answer>>

\* A mutant: whatever the device answered, it is counted as an ack.
PlusAcked(r, result) == [r EXCEPT !.acked = @ + 1]

\* The campaign with one more answer.
Plus(r, result) ==
  IF result = "failed" THEN [r EXCEPT !.failed = @ + 1] ELSE [r EXCEPT !.acked = @ + 1]

\* A mutant: a campaign whose dispatch is not saved, with total 0, is complete.
ProgressTooEarly(r) ==
  CASE r.acked + r.failed >= r.total /\ r.failed > 0 -> "partial"
    [] r.acked + r.failed >= r.total /\ r.failed = 0 -> "completed"
    [] OTHER -> "running"

Progress(r) ==
  LET all == r.acked + r.failed >= r.total /\ r.total > 0
  IN  CASE all /\ r.failed > 0 -> "partial"
        [] all /\ r.failed = 0 -> "completed"
        [] ~all /\ r.dispatched > 0 -> "running"
        [] OTHER -> r.status

Counted(r, result) == [Plus(r, result) EXCEPT !.status = Progress(Plus(r, result))]

\* A failure to save is logged only.
SaveCampaign(a) ==
  /\ ack[a] = "counting"
  /\ \/ campaign' = Counted(copy[a], answer[a])
     \/ "store" \in Failure /\ UNCHANGED campaign
  /\ ack' = [ack EXCEPT ![a] = "handled"]
  /\ copy' = [copy EXCEPT ![a] = NewCampaign]
  /\ UNCHANGED <<status, inbox, sender, answer>>

(***************************************************************************)
(* The process dies and starts again; the store keeps what it has.         *)
(***************************************************************************)
Crash ==
  /\ "crash" \in Failure /\ dispatch # "died"
  /\ send' = [c \in Command |->
                IF send[c] \in {"new", "ok"} \cup Errors THEN send[c] ELSE "died"]
  /\ dispatch' = "died"
  /\ ack' = [a \in Ack |-> IF ack[a] = "new" THEN "new" ELSE "handled"]
  /\ copy' = [a \in Ack |-> NewCampaign]
  /\ UNCHANGED <<status, campaign, inbox, answer>>

(***************************************************************************)
(* Specification.                                                          *)
(***************************************************************************)

Init ==
  /\ status = [c \in Command |-> "none"]
  /\ campaign = NewCampaign
  /\ inbox = {}
  /\ send = [c \in Command |-> "new"]
  /\ dispatch = "running"
  /\ ack = [a \in Ack |-> "new"]
  /\ answer = [a \in Ack |-> "none"]
  /\ copy = [a \in Ack |-> NewCampaign]

Sending(c) == RefuseCommand(c) \/ SaveCommand(c) \/ ReadSession(c) \/ Send(c) \/ MarkFailed(c) \/ MarkSent(c)

Acking(a) == UpdateCommand(a) \/ UpdateCommandFails(a) \/ ReadCampaign(a) \/ SaveCampaign(a)

Next ==
  \/ \E c \in Command : Sending(c)
  \/ SaveDispatch
  \/ \E a \in Ack : Acking(a)
  \/ Crash

Spec == Init /\ [][Next]_vars

\* A goroutine that sends goes on until it returns: Send does not block.
FairSpec ==
  /\ Spec
  /\ \A c \in Command : WF_vars(ReadSession(c) \/ Send(c) \/ MarkFailed(c) \/ MarkSent(c))
  /\ WF_vars(SaveDispatch)

(***************************************************************************)
(* Properties.                                                             *)
(***************************************************************************)

CampaignRecord ==
  [total : {0, Cardinality(OTA)}, dispatched : Nat, acked : Nat, failed : Nat,
   status : {"pending", "running", "partial", "completed"}]

\* Types of the variables.
TypeOK ==
  /\ status \in [Command -> {"none", "pending", "sent", "acked", "failed"}]
  /\ campaign \in CampaignRecord
  /\ inbox \subseteq Command
  /\ send \in [Command -> {"new", "saved", "session", "failing", "delivered"} \cup Returned]
  /\ dispatch \in {"running", "done", "died"}
  /\ ack \in [Ack -> {"new", "updated", "counting", "handled"}]
  /\ answer \in [Ack -> {"none", "acked", "failed"}]
  /\ copy \in [Ack -> CampaignRecord]

\* The campaign's acks that are handled, by what the device answered.
Handled(result) ==
  {a \in Ack : a[1] \in OTA /\ ack[a] = "handled" /\ answer[a] = result}

\* The campaign may lose acks but invents none: whatever copies are saved over
\* each other, it counts at most the acks that devices sent, and at most the
\* failures of the dispatch and of devices (updateCampaignFromCommandAck,
\* dispatchOTACampaign).
CountersInventNothing ==
  /\ campaign.acked <= Cardinality(Handled("acked"))
  /\ campaign.failed <= CallsThat(Errors) + Cardinality(Handled("failed"))

\* If devices acknowledge a command once, a campaign is completed only when
\* every target has acknowledged the upgrade, whatever copy of the campaign an
\* ack was counted on (the total is 0 until the dispatch is saved).
CompletedMeansAllAcked ==
  MaxAcks = 1 /\ campaign.status = "completed" =>
    \A c \in OTA : \E a \in Handled("acked") : a[1] = c

\* No command stays pending, but for a store call that fails or a process that
\* dies: sendCommandWithCampaign marks it on every path.
PendingEnds ==
  \A c \in Command :
    status[c] = "pending" ~> status[c] # "pending" \/ send[c] \in {"unrecorded", "died"}

\* When the campaign is dispatched and its acks are handled, acked_count is
\* the number of acks.
AcksAreCounted ==
  dispatch = "done" /\ (\A a \in Ack : ack[a] \in {"new", "handled"})
    => campaign.acked = Cardinality(Handled("acked"))

=============================================================================
