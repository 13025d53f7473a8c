--------------------------- MODULE CommandsProofs ---------------------------
(***************************************************************************)
(* Proofs about Commands.  Every copy of the campaign, saved or in the     *)
(* hands of an ack's goroutine, counts no more than has happened so far.   *)
(* What has happened only grows, so a copy stays within it however late it *)
(* is saved.  Then what the code does not order: a command's status when   *)
(* acks come after the sender, and a campaign when acks come one at a      *)
(* time, are exact.                                                        *)
(***************************************************************************)
EXTENDS Commands, FiniteSetTheorems, TLAPS

Targets == Cardinality(OTA)

Acked  == Handled("acked")
Failed == Handled("failed")
Refused == {c \in OTA : send[c] \in Errors}

nAcked  == Cardinality(Acked)
nFailed == Cardinality(Failed)
nRefused == Cardinality(Refused)

\* What a saved or copied campaign may claim.
Sound(r) ==
  r.status = "completed" => r.failed = 0 /\ r.acked >= r.total /\ r.total > 0

Copies == {campaign} \cup {copy[a] : a \in Ack}

Inv ==
  /\ TypeOK
  /\ \A a \in Ack : ack[a] \in {"updated", "counting"} =>
       a[1] \in OTA /\ answer[a] \in {"acked", "failed"}
  /\ \A r \in Copies :
       /\ r.acked <= nAcked /\ r.failed <= nRefused + nFailed
       /\ Sound(r)

(***************************************************************************)
(* The records.                                                            *)
(***************************************************************************)

LEMMA FiniteOTA == IsFiniteSet(OTA) /\ Targets \in Nat
BY CommandAssumption, FS_Subset, FS_CardinalityType DEF Targets

LEMMA FiniteAck == IsFiniteSet(Ack)
<1>1. IsFiniteSet(1..MaxAcks)
  BY FS_Interval, MaxAcksAssumption
<1> QED BY <1>1, CommandAssumption, FS_Product DEF Ack

LEMMA NewCampaignSound == NewCampaign \in CampaignRecord /\ Sound(NewCampaign)
BY DEF NewCampaign, CampaignRecord, Sound

LEMMA CountedSound ==
  ASSUME NEW r \in CampaignRecord, NEW result \in {"acked", "failed"}
  PROVE  /\ Counted(r, result) \in CampaignRecord
         /\ Sound(r) => Sound(Counted(r, result))
         /\ Counted(r, result).acked = r.acked + (IF result = "acked" THEN 1 ELSE 0)
         /\ Counted(r, result).failed = r.failed + (IF result = "acked" THEN 0 ELSE 1)
<1> DEFINE n == Plus(r, result)
<1>1. /\ n \in CampaignRecord
      /\ n.total = r.total /\ n.status = r.status
      /\ n.acked = r.acked + (IF result = "acked" THEN 1 ELSE 0)
      /\ n.failed = r.failed + (IF result = "acked" THEN 0 ELSE 1)
  BY DEF Plus, CampaignRecord
<1> HIDE DEF n
<1>2. Progress(n) \in {"pending", "running", "partial", "completed"}
  BY <1>1 DEF Progress, CampaignRecord
<1>3. Counted(r, result) = [n EXCEPT !.status = Progress(n)]
  BY DEF Counted, n
<1>4. Counted(r, result) \in CampaignRecord
  BY <1>1, <1>2, <1>3 DEF CampaignRecord
<1>5. /\ Counted(r, result).status = Progress(n)
      /\ Counted(r, result).total = n.total
      /\ Counted(r, result).acked = n.acked
      /\ Counted(r, result).failed = n.failed
  BY <1>1, <1>3 DEF CampaignRecord
<1>6. ASSUME Sound(r), Progress(n) = "completed"
      PROVE  n.failed = 0 /\ n.acked >= n.total /\ n.total > 0
  <2>1. n.acked \in Nat /\ n.failed \in Nat /\ n.total \in Nat /\ r.acked \in Nat /\ r.failed \in Nat
    BY <1>1, FiniteOTA DEF CampaignRecord, Targets
  <2>2. CASE n.acked + n.failed >= n.total /\ n.total > 0
    BY <1>6, <2>1, <2>2 DEF Progress
  <2>3. CASE ~(n.acked + n.failed >= n.total /\ n.total > 0)
    <3>1. n.status = "completed"
      BY <1>6, <2>3 DEF Progress
    <3>2. r.acked >= r.total /\ r.total > 0
      BY <3>1, <1>6, <1>1 DEF Sound
    <3> QED BY <3>2, <2>1, <2>3, <1>1
  <2> QED BY <2>2, <2>3
<1> QED BY <1>1, <1>4, <1>5, <1>6 DEF Sound

LEMMA ZeroIsNat == 0 \in Nat
OBVIOUS

LEMMA SumIsNoLess == \A k, m, n \in Nat : k <= m => k <= m + n
OBVIOUS

LEMMA CallsAreCounted ==
  ASSUME TypeOK, NEW results
  PROVE  CallsThat(results) \in Nat
<1>1. IsFiniteSet({c \in OTA : send[c] \in results})
  BY FiniteOTA, FS_Subset
<1> QED BY <1>1, FS_CardinalityType DEF CallsThat

LEMMA DispatchedSound ==
  ASSUME TypeOK
  PROVE  /\ Dispatched \in CampaignRecord /\ Sound(Dispatched)
         /\ Dispatched.acked = 0 /\ Dispatched.failed = nRefused
<1>1. CallsThat({"ok"}) \in Nat /\ CallsThat(Errors) \in Nat
  BY CallsAreCounted
<1>2. CallsThat(Errors) = nRefused
  BY DEF CallsThat, nRefused, Refused
<1>3. Dispatched \in [total : {Cardinality(OTA)}, dispatched : Nat, acked : {0}, failed : {nRefused},
                      status : {"pending", "running", "partial"}]
  BY <1>1, <1>2 DEF Dispatched, NewCampaign
<1> QED BY <1>1, <1>2, <1>3 DEF CampaignRecord, Sound

(***************************************************************************)
(* What has happened only grows.                                           *)
(***************************************************************************)

LEMMA CountsAreNumbers ==
  /\ IsFiniteSet(Acked) /\ IsFiniteSet(Failed) /\ IsFiniteSet(Refused)
  /\ nAcked \in Nat /\ nFailed \in Nat /\ nRefused \in Nat
<1>1. Acked \subseteq Ack /\ Failed \subseteq Ack /\ Refused \subseteq OTA
  BY DEF Acked, Failed, Refused, Handled
<1> QED BY <1>1, FiniteAck, FiniteOTA, FS_Subset, FS_CardinalityType DEF nAcked, nFailed, nRefused

LEMMA CountsAreNumbersNext ==
  /\ IsFiniteSet(Acked') /\ IsFiniteSet(Failed') /\ IsFiniteSet(Refused')
  /\ nAcked' \in Nat /\ nFailed' \in Nat /\ nRefused' \in Nat
<1>1. Acked' \subseteq Ack /\ Failed' \subseteq Ack /\ Refused' \subseteq OTA
  BY DEF Acked, Failed, Refused, Handled
<1> QED BY <1>1, FiniteAck, FiniteOTA, FS_Subset, FS_CardinalityType DEF nAcked, nFailed, nRefused

\* A sender only moves its own command on, and "error" is final.
LEMMA SendingStep ==
  ASSUME TypeOK, NEW c \in Command, Sending(c)
  PROVE  /\ UNCHANGED <<campaign, dispatch, handler>>
         /\ send[c] \notin Returned
         /\ \E to \in {"saved", "session", "failing", "delivered", "ok", "error", "unrecorded"} :
              send' = [send EXCEPT ![c] = to]
         /\ \E v \in {"none", "pending", "sent", "failed"} :
              status' = status \/ status' = [status EXCEPT ![c] = v]
         /\ inbox' \subseteq Command
BY DEF Sending, RefuseCommand, SaveCommand, ReadSession, Send, MarkFailed, MarkSent,
       SendProceeds, Returned, Errors, TypeOK

LEMMA HappenedGrows ==
  ASSUME Inv, [Next]_vars
  PROVE  Acked \subseteq Acked' /\ Failed \subseteq Failed' /\ Refused \subseteq Refused'
<1> USE DEF Acked, Failed, Refused, Handled
<1>1. ASSUME NEW c \in Command, Sending(c)
      PROVE  Acked \subseteq Acked' /\ Failed \subseteq Failed' /\ Refused \subseteq Refused'
  <2>1. UNCHANGED <<ack, answer>> /\ send[c] \notin Errors
        /\ \E to : send' = [send EXCEPT ![c] = to]
    BY <1>1, SendingStep DEF Inv, handler, Returned
  <2> QED BY <2>1 DEF Inv, TypeOK
<1>2. CASE SaveDispatch \/ UNCHANGED vars
  BY <1>2 DEF SaveDispatch, vars, handler, sender
<1>3. ASSUME NEW a \in Ack, Acking(a)
      PROVE  Acked \subseteq Acked' /\ Failed \subseteq Failed' /\ Refused \subseteq Refused'
  <2>1. send' = send /\ ack[a] # "handled"
    BY <1>3 DEF Acking, UpdateCommand, UpdateCommandFails, ReadCampaign, SaveCampaign, sender
  <2>2. \A b \in Ack : b # a => ack'[b] = ack[b] /\ answer'[b] = answer[b]
    BY <1>3 DEF Acking, UpdateCommand, UpdateCommandFails, ReadCampaign, SaveCampaign, Inv, TypeOK
  <2> QED BY <2>1, <2>2
<1>4. CASE Crash
  BY <1>4, CommandAssumption DEF Crash, Inv, TypeOK, Errors
<1> QED BY <1>1, <1>2, <1>3, <1>4 DEF Next

LEMMA CountsGrow ==
  ASSUME Inv, [Next]_vars
  PROVE  nAcked <= nAcked' /\ nFailed <= nFailed' /\ nRefused <= nRefused'
BY HappenedGrows, CountsAreNumbersNext, FS_Subset DEF nAcked, nFailed, nRefused

\* An ack that is counted is one more.
LEMMA CountedAck ==
  ASSUME Inv, NEW a \in Ack, SaveCampaign(a)
  PROVE  /\ answer[a] = "acked" => nAcked' >= nAcked + 1
         /\ answer[a] = "failed" => nFailed' >= nFailed + 1
<1>1. a[1] \in OTA /\ ack[a] = "counting" /\ answer' = answer /\ ack' = [ack EXCEPT ![a] = "handled"]
  BY DEF SaveCampaign, Inv
<1>2. ASSUME answer[a] = "acked" PROVE Acked' = Acked \cup {a} /\ a \notin Acked
  BY <1>1, <1>2 DEF Acked, Handled, Inv, TypeOK
<1>3. ASSUME answer[a] = "failed" PROVE Failed' = Failed \cup {a} /\ a \notin Failed
  BY <1>1, <1>3 DEF Failed, Handled, Inv, TypeOK
<1>4. ASSUME answer[a] = "acked" PROVE nAcked' = nAcked + 1
  BY <1>2, <1>4, CountsAreNumbers, FS_AddElement DEF nAcked
<1>5. ASSUME answer[a] = "failed" PROVE nFailed' = nFailed + 1
  BY <1>3, <1>5, CountsAreNumbers, FS_AddElement DEF nFailed
<1> QED BY <1>4, <1>5, CountsAreNumbers, CountsAreNumbersNext

(***************************************************************************)
(* The invariant.                                                          *)
(***************************************************************************)

LEMMA InvInit == Init => Inv
<1> SUFFICES ASSUME Init PROVE Inv
  OBVIOUS
<1>1. TypeOK
  BY NewCampaignSound DEF Init, TypeOK
<1>2. Copies \subseteq {NewCampaign}
  BY DEF Init, Copies
<1>3. \A r \in Copies : r.acked = 0 /\ r.failed = 0 /\ Sound(r)
  BY <1>2, NewCampaignSound DEF NewCampaign
<1>4. \A a \in Ack : ack[a] = "new"
  BY DEF Init
<1> QED BY <1>1, <1>3, <1>4, CountsAreNumbers DEF Inv

LEMMA TypeNext ==
  ASSUME Inv, [Next]_vars
  PROVE  TypeOK'
<1>1. ASSUME NEW c \in Command, Sending(c) PROVE TypeOK'
  BY <1>1, SendingStep DEF Inv, TypeOK, handler, Returned, Errors
<1>2. CASE SaveDispatch
  BY <1>2, DispatchedSound DEF SaveDispatch, Inv, TypeOK, handler
<1>3. ASSUME NEW a \in Ack, Acking(a) PROVE TypeOK'
  <2>0. a[1] \in Command
    BY DEF Ack
  <2>1. CASE UpdateCommand(a) \/ UpdateCommandFails(a)
    BY <2>0, <2>1 DEF UpdateCommand, UpdateCommandFails, Inv, TypeOK, sender
  <2>2. CASE ReadCampaign(a)
    BY <2>2 DEF ReadCampaign, Inv, TypeOK, sender
  <2>3. CASE SaveCampaign(a)
    <3>1. Counted(copy[a], answer[a]) \in CampaignRecord
      BY <2>3, CountedSound DEF SaveCampaign, Inv, TypeOK
    <3> QED BY <2>3, <3>1, NewCampaignSound DEF SaveCampaign, Inv, TypeOK, sender
  <2> QED BY <1>3, <2>1, <2>2, <2>3 DEF Acking
<1>4. CASE Crash
  BY <1>4, NewCampaignSound DEF Crash, Inv, TypeOK, Returned, Errors
<1>5. CASE UNCHANGED vars
  BY <1>5 DEF vars, sender, handler, Inv, TypeOK
<1> QED BY <1>1, <1>2, <1>3, <1>4, <1>5 DEF Next

LEMMA AnswersNext ==
  ASSUME Inv, [Next]_vars, NEW a \in Ack, ack'[a] \in {"updated", "counting"}
  PROVE  a[1] \in OTA /\ answer'[a] \in {"acked", "failed"}
<1>1. CASE \E c \in Command : Sending(c)
  BY <1>1, SendingStep DEF Inv, handler
<1>2. CASE SaveDispatch \/ UNCHANGED vars
  BY <1>2 DEF SaveDispatch, vars, handler, Inv
<1>3. ASSUME NEW b \in Ack, Acking(b) PROVE a[1] \in OTA /\ answer'[a] \in {"acked", "failed"}
  <2>1. CASE UpdateCommand(b)
    BY <2>1 DEF UpdateCommand, Inv, TypeOK
  <2>2. CASE UpdateCommandFails(b) \/ ReadCampaign(b) \/ SaveCampaign(b)
    BY <2>2 DEF UpdateCommandFails, ReadCampaign, SaveCampaign, Inv, TypeOK
  <2> QED BY <1>3, <2>1, <2>2 DEF Acking
<1>4. CASE Crash
  BY <1>4 DEF Crash
<1> QED BY <1>1, <1>2, <1>3, <1>4 DEF Next

\* Where the records after a step come from.
LEMMA CopiesStep ==
  ASSUME Inv, [Next]_vars, NEW r \in Copies'
  PROVE  \/ r \in Copies \cup {NewCampaign, Dispatched}
         \/ \E a \in Ack : SaveCampaign(a) /\ r = Counted(copy[a], answer[a])
<1> USE DEF Copies
<1>1. CASE \E c \in Command : Sending(c)
  BY <1>1, SendingStep DEF Inv, handler
<1>2. CASE SaveDispatch \/ UNCHANGED vars
  BY <1>2 DEF SaveDispatch, vars, handler
<1>3. ASSUME NEW a \in Ack, Acking(a)
      PROVE  \/ r \in Copies \cup {NewCampaign, Dispatched}
             \/ \E b \in Ack : SaveCampaign(b) /\ r = Counted(copy[b], answer[b])
  <2>1. CASE UpdateCommand(a) \/ UpdateCommandFails(a)
    BY <2>1 DEF UpdateCommand, UpdateCommandFails
  <2>2. CASE ReadCampaign(a)
    BY <2>2 DEF ReadCampaign, Inv, TypeOK
  <2>3. CASE SaveCampaign(a)
    <3>1. r = campaign' \/ r = NewCampaign \/ \E b \in Ack : r = copy[b]
      BY <2>3 DEF SaveCampaign, Inv, TypeOK
    <3>2. campaign' = campaign \/ campaign' = Counted(copy[a], answer[a])
      BY <2>3 DEF SaveCampaign
    <3> QED BY <2>3, <3>1, <3>2
  <2> QED BY <1>3, <2>1, <2>2, <2>3 DEF Acking
<1>4. CASE Crash
  BY <1>4 DEF Crash
<1> QED BY <1>1, <1>2, <1>3, <1>4 DEF Next

LEMMA InvNext == Inv /\ [Next]_vars => Inv'
<1> SUFFICES ASSUME Inv, [Next]_vars, NEW r \in Copies'
             PROVE  r.acked <= nAcked' /\ r.failed <= nRefused' + nFailed' /\ Sound(r)
  BY TypeNext, AnswersNext DEF Inv
<1>1. nAcked <= nAcked' /\ nFailed <= nFailed' /\ nRefused <= nRefused'
  BY CountsGrow
<1>2. /\ nAcked \in Nat /\ nFailed \in Nat /\ nRefused \in Nat
      /\ nAcked' \in Nat /\ nFailed' \in Nat /\ nRefused' \in Nat
  BY CountsAreNumbers, CountsAreNumbersNext
<1>3. \A x \in Copies : /\ x.acked \in Nat /\ x.failed \in Nat
                        /\ x.acked <= nAcked /\ x.failed <= nRefused + nFailed /\ Sound(x)
  BY DEF Copies, Inv, TypeOK, CampaignRecord
<1>4. CASE r \in Copies
  BY <1>1, <1>2, <1>3, <1>4
<1>5. CASE r = NewCampaign
  <2>1. r.acked = 0 /\ r.failed = 0
    BY <1>5 DEF NewCampaign
  <2>2. Sound(r)
    BY <1>5, NewCampaignSound
  <2>3. 0 <= nAcked' /\ 0 <= nRefused'
    BY <1>2
  <2>4. 0 <= nRefused' + nFailed'
    BY <1>2, <2>3, ZeroIsNat, SumIsNoLess, Zenon
  <2> QED BY <2>1, <2>2, <2>3, <2>4, Zenon
<1>6. CASE r = Dispatched
  <2>1. r.acked = 0 /\ r.failed = nRefused /\ Sound(r)
    BY <1>6, DispatchedSound DEF Inv
  <2>2. 0 <= nAcked'
    BY <1>2
  <2>3. nRefused <= nRefused' + nFailed'
    BY <1>1, <1>2, SumIsNoLess, Zenon
  <2> QED BY <2>1, <2>2, <2>3, Zenon
<1>7. ASSUME NEW a \in Ack, SaveCampaign(a), r = Counted(copy[a], answer[a])
      PROVE  r.acked <= nAcked' /\ r.failed <= nRefused' + nFailed' /\ Sound(r)
  <2>1. answer[a] \in {"acked", "failed"} /\ copy[a] \in Copies /\ copy[a] \in CampaignRecord
    BY <1>7 DEF SaveCampaign, Inv, TypeOK, Copies
  <2>2. /\ Sound(r)
        /\ r.acked = copy[a].acked + (IF answer[a] = "acked" THEN 1 ELSE 0)
        /\ r.failed = copy[a].failed + (IF answer[a] = "acked" THEN 0 ELSE 1)
    BY <1>3, <1>7, <2>1, CountedSound
  <2>3. /\ answer[a] = "acked" => nAcked' >= nAcked + 1
        /\ answer[a] = "failed" => nFailed' >= nFailed + 1
    BY <1>7, CountedAck
  <2> QED BY <1>1, <1>2, <1>3, <2>1, <2>2, <2>3
<1> QED BY <1>4, <1>5, <1>6, <1>7, CopiesStep

LEMMA Invariance == Spec => []Inv
BY InvInit, InvNext, PTL DEF Spec

\* Types of the variables of the command path.
THEOREM TypeCorrect == Spec => []TypeOK
<1>1. Inv => TypeOK
  BY DEF Inv
<1> QED BY <1>1, Invariance, PTL

\* However the saves of the campaign overwrite each other, it never counts an
\* ack or a failure that did not happen (updateCampaignFromCommandAck and
\* dispatchOTACampaign).
THEOREM CountersAreSound == Spec => []CountersInventNothing
<1>1. Inv => CountersInventNothing
  <2> SUFFICES ASSUME Inv PROVE CountersInventNothing
    OBVIOUS
  <2>1. campaign.acked <= nAcked /\ campaign.failed <= nRefused + nFailed
    BY DEF Inv, Copies
  <2>2. nRefused = CallsThat(Errors)
    BY DEF nRefused, Refused, CallsThat
  <2> QED BY <2>1, <2>2 DEF CountersInventNothing, nAcked, nFailed, Acked, Failed
<1> QED BY <1>1, Invariance, PTL

\* With one ack for each command, a campaign that is completed has the ack of
\* every target (updateCampaignFromCommandAck's test of the counters).
THEOREM CompletionIsEarned == Spec => []CompletedMeansAllAcked
<1>1. Inv => CompletedMeansAllAcked
  <2> SUFFICES ASSUME Inv, MaxAcks = 1, campaign.status = "completed", NEW c \in OTA
               PROVE  \E a \in Handled("acked") : a[1] = c
    BY DEF CompletedMeansAllAcked
  <2> DEFINE All == OTA \X (1..1)
  <2>1. campaign.acked >= Targets /\ campaign.acked <= nAcked
    <3>1. campaign.total = Targets
      BY DEF Inv, TypeOK, CampaignRecord, Copies, Sound, Targets
    <3> QED BY <3>1 DEF Inv, Copies, Sound
  <2>2. IsFiniteSet(All) /\ Cardinality(All) = Targets
    <3>1. IsFiniteSet(1..1) /\ Cardinality(1..1) = 1
      <4>1. 1..1 = {1}
        OBVIOUS
      <4> QED BY <4>1, FS_Singleton
    <3>2. IsFiniteSet(All) /\ Cardinality(All) = Targets * 1
      BY <3>1, FiniteOTA, FS_Product DEF Targets
    <3> QED BY <3>2, FiniteOTA
  <2>3. Acked \subseteq All
    BY CommandAssumption DEF Acked, Handled, Ack
  <2>4. Cardinality(Acked) <= Cardinality(All) /\ (Cardinality(Acked) = Cardinality(All) => Acked = All)
    BY <2>2, <2>3, FS_Subset
  <2>5. campaign.acked \in Nat
    BY DEF Inv, TypeOK, CampaignRecord
  <2>6. Acked = All
    BY <2>1, <2>2, <2>4, <2>5, FiniteOTA, CountsAreNumbers DEF nAcked
  <2>7. <<c, 1>> \in Acked
    BY <2>6
  <2> QED BY <2>7 DEF Acked
<1> QED BY <1>1, Invariance, PTL

(***************************************************************************)
(* What a pending command waits for.  This is the safety half of           *)
(* PendingEnds: the liveness half is that the steps named here are taken.  *)
(***************************************************************************)

PendingIsHeld ==
  \A c \in Command : status[c] = "pending" =>
    send[c] \in {"saved", "session", "failing", "delivered", "unrecorded", "died"}

LEMMA HeldNext == Inv /\ PendingIsHeld /\ [Next]_vars => PendingIsHeld'
<1> SUFFICES ASSUME Inv, PendingIsHeld, [Next]_vars PROVE PendingIsHeld'
  OBVIOUS
<1>1. ASSUME NEW c \in Command, Sending(c) PROVE PendingIsHeld'
  BY <1>1 DEF Sending, RefuseCommand, SaveCommand, ReadSession, Send, MarkFailed, MarkSent,
              SendProceeds, MayBegin, PendingIsHeld, Inv, TypeOK
<1>2. CASE SaveDispatch \/ UNCHANGED vars
  BY <1>2 DEF SaveDispatch, vars, sender, PendingIsHeld
<1>3. ASSUME NEW a \in Ack, Acking(a) PROVE PendingIsHeld'
  <2>1. send' = send
    BY <1>3 DEF Acking, UpdateCommand, UpdateCommandFails, ReadCampaign, SaveCampaign, sender
  <2>2. \A c \in Command : status'[c] = status[c] \/ status'[c] # "pending"
    BY <1>3 DEF Acking, UpdateCommand, UpdateCommandFails, ReadCampaign, SaveCampaign, Inv, TypeOK
  <2> QED BY <2>1, <2>2 DEF PendingIsHeld
<1>4. CASE Crash
  BY <1>4 DEF Crash, PendingIsHeld, Errors, Inv, TypeOK
<1> QED BY <1>1, <1>2, <1>3, <1>4 DEF Next

\* A command that is pending is in the hands of its sendCommandWithCampaign,
\* or that call could not store its outcome, or the process died under it:
\* whatever the device answers and whenever, no path returns and leaves one.
THEOREM PendingIsNotForgotten == Spec => []PendingIsHeld
<1>1. Init => PendingIsHeld
  BY DEF Init, PendingIsHeld
<1> QED BY <1>1, HeldNext, Invariance, PTL DEF Spec

(***************************************************************************)
(* Acks that arrive after the sender has recorded what it did.             *)
(***************************************************************************)

Patient == \A a \in Ack : UpdateCommand(a) => send[a[1]] \in Returned

PatientSpec == Init /\ [][Next /\ Patient]_vars

\* The status of a command that was answered is one of the answers to it.
AnswersStand ==
  \A a \in Ack : answer[a] # "none" =>
    \E b \in Ack : b[1] = a[1] /\ answer[b] # "none" /\ status[a[1]] = answer[b]

AnswersInv ==
  /\ AnswersStand
  /\ \A a \in Ack : answer[a] # "none" => send[a[1]] \in Returned

LEMMA AnswersInvNext == Inv /\ AnswersInv /\ [Next /\ Patient]_vars => AnswersInv'
<1> SUFFICES ASSUME Inv, AnswersInv, [Next /\ Patient]_vars PROVE AnswersInv'
  OBVIOUS
<1> USE DEF AnswersInv, AnswersStand
<1>0. \A a \in Ack : a[1] \in Command
  BY DEF Ack
<1>1. ASSUME NEW c \in Command, Sending(c) PROVE AnswersInv'
  <2>1. answer' = answer /\ send[c] \notin Returned
    BY <1>1, SendingStep DEF Inv, handler
  <2>2. \A d \in Command : d # c => send'[d] = send[d] /\ status'[d] = status[d]
    BY <1>1, SendingStep DEF Inv, TypeOK
  <2>3. \A a \in Ack : answer[a] # "none" => a[1] # c
    BY <2>1
  <2> SUFFICES ASSUME NEW a \in Ack, answer[a] # "none"
               PROVE  /\ \E b \in Ack : b[1] = a[1] /\ answer[b] # "none" /\ status'[a[1]] = answer[b]
                      /\ send'[a[1]] \in Returned
    BY <2>1
  <2>4. a[1] \in Command /\ a[1] # c
    BY <1>0, <2>3
  <2>5. status'[a[1]] = status[a[1]] /\ send'[a[1]] = send[a[1]]
    BY <2>2, <2>4
  <2> QED BY <2>5
<1>2. CASE SaveDispatch \/ UNCHANGED vars
  BY <1>2 DEF SaveDispatch, vars, sender, handler
<1>3. ASSUME NEW a \in Ack, UpdateCommand(a), Patient PROVE AnswersInv'
  <2>1. send' = send /\ send[a[1]] \in Returned
    BY <1>3 DEF UpdateCommand, Patient, sender
  <2>2. PICK result \in {"acked", "failed"} : /\ status' = [status EXCEPT ![a[1]] = result]
                                             /\ answer' = [answer EXCEPT ![a] = result]
    BY <1>3 DEF UpdateCommand
  <2>3. /\ status'[a[1]] = result /\ answer'[a] = result
        /\ \A c \in Command : c # a[1] => status'[c] = status[c]
        /\ \A b \in Ack : b # a => answer'[b] = answer[b]
    BY <1>0, <2>2 DEF Inv, TypeOK
  <2> QED BY <1>0, <2>1, <2>3
<1>4. ASSUME NEW a \in Ack, UpdateCommandFails(a) \/ ReadCampaign(a) \/ SaveCampaign(a)
      PROVE  AnswersInv'
  BY <1>4 DEF UpdateCommandFails, ReadCampaign, SaveCampaign, sender
<1>5. CASE Crash
  <2>1. UNCHANGED <<status, answer>>
    BY <1>5 DEF Crash
  <2>2. \A c \in Command : send[c] \in Returned => send'[c] \in Returned
    BY <1>5 DEF Crash, Returned, Errors
  <2> QED BY <1>0, <2>1, <2>2
<1>6. (\E c \in Command : Sending(c)) \/ SaveDispatch \/ UNCHANGED vars \/ Crash
      \/ \E a \in Ack : (UpdateCommand(a) /\ Patient)
                        \/ UpdateCommandFails(a) \/ ReadCampaign(a) \/ SaveCampaign(a)
  BY DEF Next, Acking
<1> QED BY <1>1, <1>2, <1>3, <1>4, <1>5, <1>6

\* If every ack is handled after sendCommandWithCampaign has returned, what a
\* device answered stays the status of its command.  So MarkSent, or a
\* MarkFailed, that comes after the ack is the only step that takes an answer
\* away; HandleCommandAck does not order itself after the sender.
THEOREM LateAcksStand == PatientSpec => []AnswersStand
<1>1. Init => AnswersInv
  BY DEF Init, AnswersInv, AnswersStand
<1>2. [Next /\ Patient]_vars => [Next]_vars
  OBVIOUS
<1>3. AnswersInv => AnswersStand
  BY DEF AnswersInv
<1> QED BY <1>1, <1>2, <1>3, InvInit, InvNext, AnswersInvNext, PTL DEF PatientSpec

(***************************************************************************)
(* Acks that are counted one at a time, after the dispatch is saved.       *)
(***************************************************************************)

OneAtATime ==
  \A a \in Ack : ReadCampaign(a) =>
    dispatch # "running" /\ \A b \in Ack : ack[b] # "counting"

SerialSpec == Init /\ [][Next /\ OneAtATime]_vars

\* The campaign counts exactly what has happened.
Exact ==
  /\ \A c \in OTA : send[c] \in Returned
  /\ campaign.total = Targets
  /\ campaign.acked = nAcked
  /\ campaign.failed = nRefused + nFailed
  /\ campaign.acked >= campaign.total /\ campaign.total > 0 /\ campaign.failed = 0
       => campaign.status = "completed"

SerialInv ==
  /\ dispatch = "running" => nAcked = 0 /\ nFailed = 0
  /\ dispatch = "done" => Exact
  /\ \A a \in Ack : ack[a] = "counting" =>
       /\ dispatch # "running"
       /\ dispatch = "done" => copy[a] = campaign
       /\ \A b \in Ack : ack[b] = "counting" => b = a

\* Both counters, not the acks only, when no ack is under way.
CountersAreExact ==
  dispatch = "done" /\ (\A a \in Ack : ack[a] \in {"new", "handled"}) =>
    /\ campaign.acked = Cardinality(Handled("acked"))
    /\ campaign.failed = CallsThat(Errors) + Cardinality(Handled("failed"))

\* The converse of CompletedMeansAllAcked.
AllAckedMeansCompleted ==
  dispatch = "done" /\ OTA # {} /\ Handled("failed") = {}
  /\ (\A c \in OTA : \E a \in Handled("acked") : a[1] = c)
    => campaign.status = "completed"

LEMMA Zeroes == \A k, m \in Nat : k = 0 /\ m = 0 => k + m = 0
OBVIOUS

\* An ack that is not counted yet is not handled.
LEMMA UncountedAck ==
  ASSUME Inv, NEW a \in Ack, UpdateCommand(a) \/ ReadCampaign(a)
  PROVE  nAcked' = nAcked /\ nFailed' = nFailed /\ nRefused' = nRefused
<1>1. /\ \A b \in Ack : b # a => ack'[b] = ack[b] /\ answer'[b] = answer[b]
      /\ ack[a] # "handled" /\ (a[1] \in OTA => ack'[a] # "handled")
      /\ send' = send
  BY DEF UpdateCommand, ReadCampaign, Inv, TypeOK, sender
<1>2. Acked' = Acked /\ Failed' = Failed /\ Refused' = Refused
  BY <1>1 DEF Acked, Failed, Refused, Handled
<1> QED BY <1>2 DEF nAcked, nFailed, nRefused

\* What a save of the campaign changes.
LEMMA SavedAck ==
  ASSUME Inv, NEW a \in Ack, SaveCampaign(a)
  PROVE  /\ nAcked' = nAcked + (IF answer[a] = "acked" THEN 1 ELSE 0)
         /\ nFailed' = nFailed + (IF answer[a] = "acked" THEN 0 ELSE 1)
         /\ nRefused' = nRefused
<1>1. /\ a[1] \in OTA /\ ack[a] = "counting" /\ answer[a] \in {"acked", "failed"}
      /\ answer' = answer /\ ack' = [ack EXCEPT ![a] = "handled"] /\ send' = send
  BY DEF SaveCampaign, Inv, sender
<1>2. nRefused' = nRefused
  BY <1>1 DEF nRefused, Refused
<1>3. CASE answer[a] = "acked"
  <2>1. Acked' = Acked \cup {a} /\ a \notin Acked /\ Failed' = Failed
    BY <1>1, <1>3 DEF Acked, Failed, Handled, Inv, TypeOK
  <2>2. nAcked' = nAcked + 1 /\ nFailed' = nFailed
    BY <2>1, CountsAreNumbers, FS_AddElement DEF nAcked, nFailed
  <2> QED BY <1>2, <1>3, <2>2, CountsAreNumbers
<1>4. CASE answer[a] = "failed"
  <2>1. Failed' = Failed \cup {a} /\ a \notin Failed /\ Acked' = Acked
    BY <1>1, <1>4 DEF Acked, Failed, Handled, Inv, TypeOK
  <2>2. nFailed' = nFailed + 1 /\ nAcked' = nAcked
    BY <2>1, CountsAreNumbers, FS_AddElement DEF nAcked, nFailed
  <2> QED BY <1>2, <1>4, <2>2, CountsAreNumbers
<1> QED BY <1>1, <1>3, <1>4

\* When everything is counted, the last ack completes the campaign.
LEMMA CountedCompletes ==
  ASSUME NEW r \in CampaignRecord, NEW result \in {"acked", "failed"}
  PROVE  LET n == Counted(r, result) IN
           /\ n.total = r.total
           /\ n.acked >= n.total /\ n.total > 0 /\ n.failed = 0 => n.status = "completed"
<1> DEFINE p == Plus(r, result)
<1>1. p \in CampaignRecord /\ p.total = r.total
  BY DEF Plus, CampaignRecord
<1> HIDE DEF p
<1>2. Counted(r, result) = [p EXCEPT !.status = Progress(p)]
  BY DEF Counted, p
<1>3. /\ Counted(r, result).status = Progress(p)
      /\ Counted(r, result).total = p.total
      /\ Counted(r, result).acked = p.acked
      /\ Counted(r, result).failed = p.failed
  BY <1>1, <1>2 DEF CampaignRecord
<1>4. ASSUME p.acked >= p.total, p.total > 0, p.failed = 0 PROVE Progress(p) = "completed"
  <2>1. p.acked \in Nat /\ p.total \in Nat
    BY <1>1, FiniteOTA DEF CampaignRecord, Targets
  <2>2. p.acked + p.failed >= p.total
    BY <1>4, <2>1
  <2> QED BY <1>4, <2>2 DEF Progress
<1> QED BY <1>1, <1>3, <1>4

LEMMA SerialInit == Init => SerialInv
<1> SUFFICES ASSUME Init PROVE SerialInv
  OBVIOUS
<1>1. Acked = {} /\ Failed = {}
  BY DEF Init, Acked, Failed, Handled
<1>2. nAcked = 0 /\ nFailed = 0
  BY <1>1, FS_EmptySet DEF nAcked, nFailed
<1> QED BY <1>2 DEF Init, SerialInv

LEMMA SerialNext ==
  ASSUME "store" \notin Failure, Inv, SerialInv, [Next /\ OneAtATime]_vars
  PROVE  SerialInv'
<1> USE DEF SerialInv
<1>1. ASSUME NEW c \in Command, Sending(c) PROVE SerialInv'
  <2>1. UNCHANGED <<campaign, dispatch, ack, answer, copy>> /\ send[c] \notin Returned
    BY <1>1, SendingStep DEF Inv, handler
  <2>2. nAcked' = nAcked /\ nFailed' = nFailed
    BY <2>1 DEF nAcked, nFailed, Acked, Failed, Handled
  <2>3. ASSUME dispatch = "done" PROVE Exact'
    <3>1. c \notin OTA
      BY <2>1, <2>3 DEF Exact
    <3>2. \A d \in OTA : send'[d] = send[d]
      BY <1>1, <3>1, SendingStep, CommandAssumption DEF Inv, TypeOK
    <3>3. nRefused' = nRefused
      BY <3>2 DEF nRefused, Refused
    <3> QED BY <2>1, <2>2, <2>3, <3>2, <3>3 DEF Exact
  <2> QED BY <2>1, <2>2, <2>3
<1>2. CASE SaveDispatch
  <2>1. /\ dispatch = "running" /\ dispatch' = "done" /\ campaign' = Dispatched
        /\ \A c \in OTA : send[c] \in Returned
        /\ UNCHANGED <<send, ack, answer, copy>>
    BY <1>2 DEF SaveDispatch, handler
  <2>2. /\ nAcked' = nAcked /\ nFailed' = nFailed /\ nRefused' = nRefused
        /\ nAcked = 0 /\ nFailed = 0
    BY <2>1 DEF nAcked, nFailed, nRefused, Acked, Failed, Refused, Handled
  <2>3. /\ Dispatched.acked = 0 /\ Dispatched.failed = nRefused /\ Dispatched.total = Targets
        /\ Targets \in Nat /\ nRefused \in Nat
    BY DispatchedSound, FiniteOTA, CountsAreNumbers DEF Inv, Dispatched, NewCampaign, Targets
  <2>4. ~(0 >= Targets /\ Targets > 0) /\ nRefused = nRefused + 0
    BY <2>3
  <2>5. Exact'
    BY <2>1, <2>2, <2>3, <2>4 DEF Exact
  <2> QED BY <2>1, <2>5
<1>3. ASSUME NEW a \in Ack, UpdateCommand(a) PROVE SerialInv'
  <2>1. UNCHANGED <<campaign, send, dispatch, copy>>
    BY <1>3 DEF UpdateCommand, sender
  <2>2. \A b \in Ack : ack'[b] = "counting" <=> ack[b] = "counting"
    BY <1>3 DEF UpdateCommand, Inv, TypeOK
  <2>3. dispatch = "done" => Exact'
    BY <1>3, <2>1, UncountedAck DEF Exact
  <2> QED BY <1>3, <2>1, <2>2, <2>3, UncountedAck
<1>4. ASSUME NEW a \in Ack, ReadCampaign(a), OneAtATime PROVE SerialInv'
  <2>1. /\ UNCHANGED <<campaign, send, dispatch>> /\ dispatch # "running"
        /\ \A b \in Ack : ack[b] # "counting"
    BY <1>4 DEF ReadCampaign, OneAtATime, sender
  <2>2. /\ copy'[a] = campaign
        /\ \A b \in Ack : ack'[b] = "counting" => b = a
    BY <1>4, <2>1 DEF ReadCampaign, Inv, TypeOK
  <2>3. dispatch = "done" => Exact'
    BY <1>4, <2>1, UncountedAck DEF Exact
  <2> QED BY <2>1, <2>2, <2>3
<1>5. ASSUME NEW a \in Ack, SaveCampaign(a) PROVE SerialInv'
  <2>1. /\ campaign' = Counted(copy[a], answer[a])
        /\ UNCHANGED <<send, dispatch>> /\ dispatch # "running"
        /\ \A b \in Ack : ack'[b] # "counting"
    BY <1>5 DEF SaveCampaign, Inv, TypeOK, sender
  <2>2. ASSUME dispatch = "done" PROVE Exact'
    <3>1. Exact /\ copy[a] = campaign /\ campaign \in CampaignRecord /\ answer[a] \in {"acked", "failed"}
      BY <1>5, <2>2 DEF SaveCampaign, Inv, TypeOK
    <3>2. /\ campaign'.total = Targets
          /\ campaign'.acked >= campaign'.total /\ campaign'.total > 0 /\ campaign'.failed = 0
               => campaign'.status = "completed"
      BY <2>1, <3>1, CountedCompletes DEF Exact
    <3>3. /\ campaign'.acked = campaign.acked + (IF answer[a] = "acked" THEN 1 ELSE 0)
          /\ campaign'.failed = campaign.failed + (IF answer[a] = "acked" THEN 0 ELSE 1)
      BY <2>1, <3>1, CountedSound
    <3>4. campaign'.acked = nAcked' /\ campaign'.failed = nRefused' + nFailed'
      BY <1>5, <3>1, <3>3, SavedAck, CountsAreNumbers DEF Exact
    <3> QED BY <2>1, <3>1, <3>2, <3>4 DEF Exact
  <2> QED BY <2>1, <2>2
<1>6. CASE Crash
  BY <1>6 DEF Crash
<1>7. CASE UNCHANGED vars
  <2>1. UNCHANGED <<campaign, send, dispatch, ack, answer, copy>>
    BY <1>7 DEF vars, sender, handler
  <2>2. nAcked' = nAcked /\ nFailed' = nFailed /\ nRefused' = nRefused
    BY <2>1 DEF nAcked, nFailed, nRefused, Acked, Failed, Refused, Handled
  <2>3. dispatch = "done" => Exact'
    BY <2>1, <2>2 DEF Exact
  <2> QED BY <2>1, <2>2, <2>3
<1> QED BY <1>1, <1>2, <1>3, <1>4, <1>5, <1>6, <1>7 DEF Next, Acking, UpdateCommandFails

\* What a device acknowledges was sent: if stores do not fail, that call did
\* not end in an error.
Delivered ==
  /\ \A c \in inbox : send[c] \in {"delivered", "ok", "died"}
  /\ \A a \in Ack : answer[a] # "none" => a[1] \in inbox

LEMMA DeliveredNext ==
  ASSUME "store" \notin Failure, Inv, Delivered, [Next]_vars
  PROVE  Delivered'
<1> USE DEF Delivered
<1>1. ASSUME NEW c \in Command, Sending(c) PROVE Delivered'
  <2>1. answer' = answer /\ inbox \subseteq inbox'
    BY <1>1 DEF Sending, RefuseCommand, SaveCommand, ReadSession, Send, MarkFailed, MarkSent,
                SendProceeds, handler
  <2>2. \A d \in inbox' : send'[d] \in {"delivered", "ok", "died"}
    BY <1>1 DEF Sending, RefuseCommand, SaveCommand, ReadSession, Send, MarkFailed, MarkSent,
                SendProceeds, MayBegin, Inv, TypeOK
  <2> QED BY <2>1, <2>2
<1>2. CASE SaveDispatch \/ UNCHANGED vars
  BY <1>2 DEF SaveDispatch, vars, sender, handler
<1>3. ASSUME NEW a \in Ack, UpdateCommand(a) PROVE Delivered'
  <2>1. UNCHANGED <<inbox, send>> /\ a[1] \in inbox
        /\ \A b \in Ack : b # a => answer'[b] = answer[b]
    BY <1>3 DEF UpdateCommand, sender, Inv, TypeOK
  <2> QED BY <2>1
<1>4. ASSUME NEW a \in Ack, ReadCampaign(a) \/ SaveCampaign(a) PROVE Delivered'
  BY <1>4 DEF ReadCampaign, SaveCampaign, sender
<1>5. CASE Crash
  BY <1>5 DEF Crash, Errors, Inv, TypeOK
<1> QED BY <1>1, <1>2, <1>3, <1>4, <1>5 DEF Next, Acking, UpdateCommandFails

LEMMA SerialInvariance ==
  ASSUME "store" \notin Failure
  PROVE  SerialSpec => [](Inv /\ SerialInv /\ Delivered)
<1>0. Init => Delivered
  BY DEF Init, Delivered
<1>1. [Next /\ OneAtATime]_vars => [Next]_vars
  OBVIOUS
<1>2. Inv /\ SerialInv /\ [Next /\ OneAtATime]_vars => SerialInv'
  BY SerialNext
<1>3. Inv /\ Delivered /\ [Next]_vars => Delivered'
  BY DeliveredNext
<1> QED BY <1>0, <1>1, <1>2, <1>3, InvInit, InvNext, SerialInit, PTL DEF SerialSpec

\* If no store call fails and the acks of a campaign are counted one at a time,
\* none before the dispatch is saved, the saved campaign counts every ack,
\* every device's failure and every refused command.  So the overlap of two
\* updateCampaignFromCommandAck, or of one with dispatchOTACampaign, is the
\* only way in which the running process loses an ack.
THEOREM SerialAcksAreCounted ==
  ASSUME "store" \notin Failure
  PROVE  SerialSpec => [](AcksAreCounted /\ CountersAreExact)
<1>1. Inv /\ SerialInv => AcksAreCounted /\ CountersAreExact
  BY DEF SerialInv, Exact, AcksAreCounted, CountersAreExact, CallsThat,
         nAcked, nFailed, nRefused, Acked, Failed, Refused
<1> QED BY <1>1, SerialInvariance, PTL

\* Under the same conditions, a campaign whose targets have all acknowledged,
\* and none with a failure, is completed: updateCampaignFromCommandAck's test of
\* the counters does not miss the last ack.
THEOREM SerialCampaignsComplete ==
  ASSUME "store" \notin Failure
  PROVE  SerialSpec => []AllAckedMeansCompleted
<1>1. Inv /\ SerialInv /\ Delivered => AllAckedMeansCompleted
  <2> SUFFICES ASSUME Inv, SerialInv, Delivered, dispatch = "done", OTA # {},
                      Failed = {}, \A c \in OTA : \E a \in Acked : a[1] = c
               PROVE  campaign.status = "completed"
    BY DEF AllAckedMeansCompleted, Acked, Failed
  <2>1. Exact
    BY DEF SerialInv
  <2>2. nFailed = 0 /\ nRefused = 0
    <3>1. Refused = {}
      BY DEF Refused, Errors, Delivered, Acked, Handled
    <3> QED BY <3>1, FS_EmptySet DEF nFailed, nRefused
  <2>3. Targets > 0
    BY FiniteOTA, FS_EmptySet DEF Targets
  <2>4. nAcked >= Targets
    <3> DEFINE g == [a \in Acked |-> a[1]]
    <3>1. \A a \in Acked : a[1] \in OTA
      BY DEF Acked, Handled
    <3>2. g \in Surjection(Acked, OTA)
      BY <3>1, Zenon DEF Surjection, g
    <3> QED BY <3>2, CountsAreNumbers, FS_Surjection DEF nAcked, Targets
  <2> QED BY <2>1, <2>2, <2>3, <2>4 DEF Exact
<1> QED BY <1>1, SerialInvariance, PTL
=============================================================================
