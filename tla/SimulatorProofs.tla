-------------------------- MODULE SimulatorProofs --------------------------
(***************************************************************************)
(* Proofs about Simulator's invariants, for any number of simulators, runs *)
(* and callers and any capacity of the channels, and about what a run that *)
(* has ended leaves.  That runs end is left to the model checker.          *)
(*                                                                         *)
(* OneRunInCharge is nearly inductive: it needs only that the calls under  *)
(* way are about simulators, and that the active runs belong to one.       *)
(***************************************************************************)
EXTENDS Simulator, TLAPS

CallsMakeSense ==
  \A t \in Caller :
    /\ call[t].op # "idle" => call[t].sim \in Sim
    /\ call[t].op = "cancel" => call[t].run \in Run

ActiveIsOwned == \A r \in Run : Active(r) => owner[r] \in Sim

IInv == TypeOK /\ CallsMakeSense /\ ActiveIsOwned /\ OneRunInCharge /\ RemovedIsStopping

InUse == {"serving", "closing", "finishing"}

LEMMA InitIInv == Init => IInv
<1> SUFFICES ASSUME Init PROVE IInv
  OBVIOUS
<1> USE DEF Init
<1>1. TypeOK
  <2>1. \A r \in Run : inbox[r] \in Seq(Message) /\ Len(inbox[r]) <= InboxSize
    BY SizeAssumption
  <2>2. call \in [Caller -> [op : {"idle", "connect", "disconnect", "cancel", "send", "queue"},
                            sim : Sim \cup {None}, run : Run \cup {None}]]
    BY DEF Idle
  <2>3. queue \in [Sim -> 0 .. QueueSize] /\ pc \in [Run -> Places]
    BY SizeAssumption DEF Places
  <2> QED BY <2>1, <2>2, <2>3 DEF TypeOK
<1>2. CallsMakeSense /\ ActiveIsOwned /\ OneRunInCharge /\ RemovedIsStopping
  BY DEF CallsMakeSense, ActiveIsOwned, OneRunInCharge, RemovedIsStopping, Active, Idle
<1> QED BY <1>1, <1>2 DEF IInv

(***************************************************************************)
(* A run that moves and stays active.                                      *)
(***************************************************************************)
LEMMA RunMoves ==
  ASSUME IInv, NEW r \in Run, Active(r), NEW x \in Places \ {"absent", "ended"},
         pc' = [pc EXCEPT ![r] = x],
         UNCHANGED <<listed, cancel, call, owner, cancelled, late>>,
         connected' \in [Sim -> BOOLEAN],
         \A s \in Sim \ {owner[r]} : connected'[s] => connected[s],
         connected'[owner[r]] => x \in InUse
  PROVE  CallsMakeSense' /\ ActiveIsOwned' /\ OneRunInCharge' /\ RemovedIsStopping'
<1> USE DEF IInv
<1>1. \A q \in Run : Active(q)' <=> Active(q)
  BY DEF Active, TypeOK, Places
<1>2. CallsMakeSense' /\ ActiveIsOwned'
  BY <1>1 DEF CallsMakeSense, ActiveIsOwned
<1>3. RemovedIsStopping'
  BY <1>1 DEF RemovedIsStopping, WillCancel
<1>4. \A q \in Run : Active(q)' => cancel'[owner'[q]] = q
  BY <1>1 DEF OneRunInCharge
<1>5. \A s \in Sim : cancel'[s] # None => Active(cancel[s])' /\ owner'[cancel'[s]] = s
  BY <1>1 DEF OneRunInCharge, TypeOK
<1>6. ASSUME NEW s \in Sim, connected'[s]
      PROVE  cancel'[s] # None /\ pc'[cancel'[s]] \in InUse
  <2>1. cancel[owner[r]] = r /\ owner[r] \in Sim
    BY DEF OneRunInCharge, ActiveIsOwned
  <2>2. CASE s = owner[r]
    BY <1>6, <2>1, <2>2, NoneAssumption DEF TypeOK
  <2>3. CASE s # owner[r]
    <3>1. cancel[s] # None /\ pc[cancel[s]] \in InUse /\ cancel[s] \in Run
      BY <1>6, <2>3 DEF OneRunInCharge, TypeOK, InUse
    <3>2. cancel[s] # r
      BY <2>3, <3>1 DEF OneRunInCharge
    <3> QED BY <3>1, <3>2 DEF TypeOK
  <2> QED BY <2>2, <2>3
<1> QED BY <1>2, <1>3, <1>4, <1>5, <1>6 DEF OneRunInCharge, InUse, Active

(***************************************************************************)
(* The steps of a run but the last, and those of its reader.               *)
(***************************************************************************)
LEMMA RunStepNext ==
  ASSUME IInv, NEW r \in Run, RunStep(r), ~FinishRun(r)
  PROVE  IInv'
<1> USE DEF IInv
<1>0. Active(r) /\ r \in DOMAIN pc
  BY DEF Active, TypeOK, RunStep, Dial, DialFails, ContextDone, TakeReadError, TimeoutOrWriteFails,
         TakeMessage, PublishManual, CloseConn, FinishRun, Selecting, GoTo
<1>1. owner[r] \in Sim /\ cancel[owner[r]] = r
  BY <1>0 DEF ActiveIsOwned, OneRunInCharge
<1>2. connected[owner[r]] => pc[r] \in InUse
  BY <1>1 DEF OneRunInCharge, InUse
<1>3. CASE Dial(r)
  <2>1. TypeOK'
    BY <1>3 DEF Dial, GoTo, TypeOK, Places, managerVars, instanceVars
  <2>2. /\ pc' = [pc EXCEPT ![r] = "authenticating"] /\ pc[r] = "dialing"
        /\ UNCHANGED <<listed, cancel, call, owner, cancelled, late, connected>>
    BY <1>3 DEF Dial, GoTo, managerVars, instanceVars
  <2> QED BY <1>0, <1>2, <2>1, <2>2, RunMoves DEF TypeOK, Places, InUse
<1>4. CASE DialFails(r)
  <2>1. TypeOK'
    BY <1>4 DEF DialFails, GoTo, TypeOK, Places, managerVars, readerVars
  <2>2. /\ pc' = [pc EXCEPT ![r] = "finishing"]
        /\ UNCHANGED <<listed, cancel, call, owner, cancelled, late>>
        /\ connected' = [connected EXCEPT ![owner[r]] = FALSE]
    BY <1>4 DEF DialFails, GoTo, managerVars, readerVars
  <2> QED BY <1>0, <1>1, <2>1, <2>2, RunMoves DEF TypeOK, Places, InUse
<1>5. CASE ContextDone(r)
  <2>1. TypeOK'
    BY <1>5 DEF ContextDone, TypeOK, Places, managerVars, instanceVars, readerVars
  <2>2. /\ pc' = [pc EXCEPT ![r] = "closing"]
        /\ UNCHANGED <<listed, cancel, call, owner, cancelled, late, connected>>
    BY <1>5 DEF ContextDone, managerVars, instanceVars, readerVars
  <2> QED BY <1>0, <2>1, <2>2, RunMoves DEF TypeOK, Places, InUse
<1>6. ASSUME Fail(r), TypeOK' PROVE IInv'
  <2>2. /\ pc' = [pc EXCEPT ![r] = "closing"]
        /\ UNCHANGED <<listed, cancel, call, owner, cancelled, late>>
        /\ connected' = [connected EXCEPT ![owner[r]] = FALSE]
    BY <1>6 DEF Fail, managerVars
  <2> QED BY <1>0, <1>1, <1>6, <2>2, RunMoves DEF TypeOK, Places, InUse
<1>7. CASE TakeReadError(r) \/ TimeoutOrWriteFails(r)
  <2>1. TypeOK'
    BY <1>7 DEF TakeReadError, TimeoutOrWriteFails, Fail, TypeOK, Places, managerVars
  <2> QED BY <1>6, <1>7, <2>1 DEF TakeReadError, TimeoutOrWriteFails
<1>8. CASE TakeMessage(r)
  <2>1. inbox' = [inbox EXCEPT ![r] = Tail(@)] /\ inbox[r] # <<>>
    BY <1>8 DEF TakeMessage
  <2>2. \A q \in Run : inbox'[q] \in Seq(Message) /\ Len(inbox'[q]) <= InboxSize
    <3>1. \A q \in Run : inbox[q] \in Seq(Message) /\ Len(inbox[q]) <= InboxSize
      BY DEF TypeOK
    <3>2. Tail(inbox[r]) \in Seq(Message) /\ Len(Tail(inbox[r])) = Len(inbox[r]) - 1
      BY <2>1, <3>1
    <3>3. \A q \in Run : inbox'[q] \in {inbox[q], Tail(inbox[r])} /\ (q # r => inbox'[q] = inbox[q])
      BY <2>1
    <3> QED BY <3>1, <3>2, <3>3, SizeAssumption
  <2>3. CASE Fail(r)
    <3>1. TypeOK'
      BY <1>8, <2>2, <2>3 DEF TakeMessage, Fail, TypeOK, Places, managerVars
    <3> QED BY <1>6, <2>3, <3>1
  <2>4. CASE /\ pc' = [pc EXCEPT ![r] = "serving"]
             /\ connected' = [connected EXCEPT ![owner[r]] = TRUE]
             /\ UNCHANGED <<managerVars, cancel, queue, call, owner, cancelled,
                            connOpen, reader, late>>
    <3>1. TypeOK'
      BY <1>8, <2>2, <2>4 DEF TakeMessage, TypeOK, Places, managerVars
    <3>2. UNCHANGED <<listed, cancel, call, owner, cancelled, late>>
      BY <2>4 DEF managerVars
    <3> QED BY <1>0, <1>1, <2>4, <3>1, <3>2, RunMoves DEF TypeOK, Places, InUse
  <2>5. CASE UNCHANGED <<managerVars, instanceVars, call, pc, owner, cancelled,
                       connOpen, reader, late>>
    <3>1. TypeOK'
      BY <1>8, <2>2, <2>5 DEF TakeMessage, TypeOK, managerVars, instanceVars
    <3> QED BY <2>5, <3>1 DEF managerVars, instanceVars, CallsMakeSense, ActiveIsOwned, Active,
               OneRunInCharge, RemovedIsStopping, WillCancel
  <2> QED BY <1>8, <2>3, <2>4, <2>5 DEF TakeMessage
<1>9. CASE PublishManual(r)
  <2>0. queue' \in [Sim -> 0 .. QueueSize]
    <3>1. queue[owner[r]] \in 0 .. QueueSize /\ queue[owner[r]] > 0
      BY <1>9, <1>1 DEF PublishManual, TypeOK
    <3>2. queue[owner[r]] - 1 \in 0 .. QueueSize
      BY <3>1, SizeAssumption
    <3> QED BY <1>9, <3>2 DEF PublishManual, TypeOK
  <2>1. TypeOK'
    BY <1>9, <2>0 DEF PublishManual, TypeOK, Places, managerVars, readerVars
  <2>2. UNCHANGED <<listed, cancel, call, owner, cancelled, late>> /\ pc[r] = "serving"
    BY <1>9 DEF PublishManual, managerVars
  <2>3. CASE UNCHANGED <<connected, pc>>
    BY <2>1, <2>2, <2>3 DEF CallsMakeSense, ActiveIsOwned, Active, OneRunInCharge,
       RemovedIsStopping, WillCancel
  <2>4. CASE /\ connected' = [connected EXCEPT ![owner[r]] = FALSE]
             /\ pc' = [pc EXCEPT ![r] = "closing"]
    BY <1>0, <1>1, <2>1, <2>2, <2>4, RunMoves DEF TypeOK, Places, InUse
  <2> QED BY <1>9, <2>3, <2>4 DEF PublishManual
<1>10. CASE CloseConn(r)
  <2>1. TypeOK'
    BY <1>10 DEF CloseConn, GoTo, TypeOK, Places, managerVars, instanceVars, readerVars
  <2>2. /\ pc' = [pc EXCEPT ![r] = "finishing"]
        /\ UNCHANGED <<listed, cancel, call, owner, cancelled, late, connected>>
    BY <1>10 DEF CloseConn, GoTo, managerVars, instanceVars
  <2> QED BY <1>0, <2>1, <2>2, RunMoves DEF TypeOK, Places, InUse
<1> QED BY <1>3, <1>4, <1>5, <1>7, <1>8, <1>9, <1>10 DEF RunStep

\* With the last step of a run its simulator is free for the next one.
LEMMA FinishRunNext ==
  ASSUME IInv, NEW r \in Run, FinishRun(r)
  PROVE  IInv'
<1> USE DEF IInv
<1>1. /\ pc[r] = "finishing" /\ pc' = [pc EXCEPT ![r] = "ended"]
      /\ connected' = [connected EXCEPT ![owner[r]] = FALSE]
      /\ cancel' = [cancel EXCEPT ![owner[r]] = None]
      /\ UNCHANGED <<created, listed, rootDone, queue, call, owner, cancelled, connOpen, reader, late>>
  BY DEF FinishRun, GoTo, managerVars
<1>2. TypeOK'
  <2>1. \A q \in Run : inbox'[q] \in Seq(Message) /\ Len(inbox'[q]) <= InboxSize
    BY SizeAssumption DEF FinishRun, TypeOK
  <2> QED BY <1>1, <2>1 DEF FinishRun, TypeOK, Places
<1>3. \A q \in Run : Active(q)' <=> Active(q) /\ q # r
  BY <1>1 DEF Active, TypeOK
<1>4. Active(r) /\ owner[r] \in Sim /\ cancel[owner[r]] = r
  BY <1>1 DEF Active, ActiveIsOwned, OneRunInCharge
<1>5. CallsMakeSense' /\ ActiveIsOwned' /\ RemovedIsStopping'
  BY <1>1, <1>3 DEF CallsMakeSense, ActiveIsOwned, RemovedIsStopping, WillCancel
<1>6. ASSUME NEW q \in Run, q # r, Active(q)
      PROVE  cancel'[owner'[q]] = q
  <2>1. cancel[owner[q]] = q
    BY <1>6 DEF OneRunInCharge
  <2>2. owner[q] # owner[r]
    BY <1>4, <1>6, <2>1
  <2> QED BY <1>1, <2>1, <2>2 DEF TypeOK
<1>7. \A s \in Sim : cancel'[s] # None => cancel'[s] = cancel[s] /\ s # owner[r]
  BY <1>1 DEF TypeOK
<1>8. \A s \in Sim : cancel'[s] # None => Active(cancel[s])' /\ owner'[cancel'[s]] = s
  BY <1>1, <1>3, <1>4, <1>7 DEF OneRunInCharge, TypeOK
<1>9. ASSUME NEW s \in Sim, connected'[s]
      PROVE  cancel'[s] # None /\ pc'[cancel'[s]] \in InUse
  <2>1. s # owner[r] /\ connected[s] /\ cancel'[s] = cancel[s]
    BY <1>1, <1>9 DEF TypeOK
  <2>2. cancel[s] # None /\ pc[cancel[s]] \in InUse /\ owner[cancel[s]] = s /\ cancel[s] \in Run
    BY <2>1 DEF OneRunInCharge, InUse, TypeOK
  <2> QED BY <1>1, <2>1, <2>2 DEF TypeOK
<1> QED BY <1>2, <1>3, <1>5, <1>6, <1>8, <1>9 DEF OneRunInCharge, InUse

LEMMA ReaderNext ==
  ASSUME IInv, NEW r \in Run, ReaderStep(r)
  PROVE  IInv'
<1> USE DEF IInv
<1>1. UNCHANGED <<managerVars, instanceVars, call, pc, owner, cancelled, connOpen, late>>
  BY DEF ReaderStep, Receive, ReaderEnds
<1>2. TypeOK'
  <2>1. \A q \in Run : inbox'[q] \in Seq(Message) /\ Len(inbox'[q]) <= InboxSize
    <3>1. \A q \in Run : inbox[q] \in Seq(Message) /\ Len(inbox[q]) <= InboxSize
      BY DEF TypeOK
    <3>2. CASE UNCHANGED inbox
      BY <3>1, <3>2
    <3>3. ASSUME NEW m \in Message, Len(inbox[r]) < InboxSize,
                 inbox' = [inbox EXCEPT ![r] = Append(@, m)]
          PROVE  \A q \in Run : inbox'[q] \in Seq(Message) /\ Len(inbox'[q]) <= InboxSize
      <4>1. Append(inbox[r], m) \in Seq(Message) /\ Len(Append(inbox[r], m)) = Len(inbox[r]) + 1
        BY <3>1
      <4>2. Len(inbox[r]) + 1 <= InboxSize
        BY <3>1, <3>3, SizeAssumption
      <4> QED BY <3>1, <3>3, <4>1, <4>2
    <3> QED BY <3>2, <3>3 DEF ReaderStep, Receive, ReaderEnds
  <2>2. reader' \in [Run -> {"reading", "ended"}] /\ readErr' \in [Run -> BOOLEAN]
    BY DEF ReaderStep, Receive, ReaderEnds, ReaderGivesUp, TypeOK
  <2> QED BY <1>1, <2>1, <2>2 DEF TypeOK, managerVars, instanceVars
<1> QED BY <1>1, <1>2 DEF managerVars, instanceVars, CallsMakeSense, ActiveIsOwned, Active,
           OneRunInCharge, RemovedIsStopping, WillCancel

(***************************************************************************)
(* The calls.                                                              *)
(***************************************************************************)

\* A call that starts or ends without touching the runs.
LEMMA CallMoves ==
  ASSUME IInv, TypeOK', CallsMakeSense', NEW t \in Caller,
         \A u \in Caller \ {t} : call'[u] = call[u],
         UNCHANGED <<cancel, connected, pc, owner, late>>,
         cancelled \subseteq cancelled',
         \A r \in Run : Active(r) /\ owner[r] \notin listed'
           => \/ owner[r] \notin listed /\ (WillCancel(t, r) => WillCancel(t, r)' \/ r \in cancelled')
              \/ WillCancel(t, r)'
  PROVE  IInv'
<1> USE DEF IInv
<1>1. \A r \in Run : Active(r)' <=> Active(r)
  BY DEF Active
<1>2. ActiveIsOwned' /\ OneRunInCharge'
  BY DEF ActiveIsOwned, OneRunInCharge, Active
<1>3. ASSUME NEW r \in Run, Active(r), owner[r] \notin listed'
      PROVE  r \in cancelled' \cup late' \/ \E u \in Caller : WillCancel(u, r)'
  <2>1. CASE WillCancel(t, r)'
    BY <2>1
  <2>2. CASE owner[r] \notin listed /\ (WillCancel(t, r) => WillCancel(t, r)' \/ r \in cancelled')
    <3>1. r \in cancelled \cup late \/ \E u \in Caller : WillCancel(u, r)
      BY <1>3, <2>2 DEF RemovedIsStopping
    <3>2. ASSUME NEW u \in Caller, u # t, WillCancel(u, r) PROVE WillCancel(u, r)'
      BY <3>2 DEF WillCancel
    <3> QED BY <2>2, <3>1, <3>2
  <2> QED BY <1>3, <2>1, <2>2
<1>4. RemovedIsStopping'
  BY <1>1, <1>3 DEF RemovedIsStopping
<1> QED BY <1>2, <1>4

LEMMA ManagerNext ==
  ASSUME IInv, NEW t \in Caller, NEW s \in Sim,
         \/ \E autoConnect \in BOOLEAN : Create(t, s, autoConnect)
         \/ \E op \in {"connect", "disconnect", "send"} : Lookup(t, s, op)
         \/ Remove(t, s)
  PROVE  IInv'
<1> USE DEF IInv
<1>1. PICK op \in {"idle", "connect", "disconnect", "send"}, x \in {s, None} :
        /\ call' = [call EXCEPT ![t] = [op |-> op, sim |-> x, run |-> None]]
        /\ op # "idle" => x = s
        /\ Remove(t, s) => op = "disconnect"
  BY DEF Create, Lookup, Remove, Does, Op, Idle
<1>2. call[t] = Idle
  BY DEF Create, Lookup, Remove
<1>3. UNCHANGED <<rootDone, instanceVars, runVars>>
  BY DEF Create, Lookup, Remove, managerVars
<1>4. TypeOK' /\ CallsMakeSense'
  <2>1. created' \subseteq Sim /\ listed' \subseteq created'
    BY DEF Create, Lookup, Remove, managerVars, TypeOK
  <2>2. call' \in [Caller -> [op : {"idle", "connect", "disconnect", "cancel", "send", "queue"},
                             sim : Sim \cup {None}, run : Run \cup {None}]]
    BY <1>1 DEF TypeOK
  <2>3. TypeOK'
    BY <1>3, <2>1, <2>2 DEF TypeOK, instanceVars, runVars
  <2>4. CallsMakeSense'
    BY <1>1 DEF CallsMakeSense, TypeOK
  <2> QED BY <2>3, <2>4
<1>5. \A u \in Caller \ {t} : call'[u] = call[u]
  BY <1>1 DEF TypeOK
<1>6. UNCHANGED <<cancel, connected, pc, owner, late, cancelled>>
  BY <1>3 DEF instanceVars, runVars
<1>7. ASSUME NEW r \in Run, Active(r), owner[r] \notin listed'
      PROVE  \/ owner[r] \notin listed /\ ~WillCancel(t, r)
             \/ WillCancel(t, r)'
  <2>1. ~WillCancel(t, r)
    BY <1>2 DEF WillCancel, Idle
  <2>2. CASE owner[r] \notin listed
    BY <2>1, <2>2
  <2>3. CASE owner[r] \in listed
    <3>1. Remove(t, s) /\ owner[r] = s
      BY <1>7, <2>3 DEF Create, Lookup, Remove, managerVars
    <3>2. call'[t].op = "disconnect" /\ call'[t].sim = s
      BY <1>1, <3>1 DEF TypeOK
    <3> QED BY <1>6, <3>1, <3>2 DEF WillCancel
  <2> QED BY <2>2, <2>3
<1> QED BY <1>4, <1>5, <1>6, <1>7, CallMoves

LEMMA InstanceNext ==
  ASSUME IInv, NEW t \in Caller,
         ReadCancel(t) \/ CancelRun(t) \/ CheckConnected(t) \/ QueueTelemetry(t)
  PROVE  IInv'
<1> USE DEF IInv
<1>1. CASE ReadCancel(t)
  <2>0. call[t].op = "disconnect" /\ call[t].sim \in Sim
    BY <1>1 DEF ReadCancel, CallsMakeSense
  <2> DEFINE q == cancel[call[t].sim]
  <2>1. call' = [call EXCEPT ![t] = IF q = None THEN Idle ELSE Op("cancel", call[t].sim, q)]
    BY <1>1 DEF ReadCancel, Does
  <2>2. q \in Run \cup {None}
    BY <2>0 DEF TypeOK
  <2>3. UNCHANGED <<managerVars, instanceVars, runVars>>
    BY <1>1 DEF ReadCancel
  <2>4. TypeOK' /\ CallsMakeSense'
    <3>1. call' \in [Caller -> [op : {"idle", "connect", "disconnect", "cancel", "send", "queue"},
                               sim : Sim \cup {None}, run : Run \cup {None}]]
      BY <2>0, <2>1, <2>2 DEF TypeOK, Idle, Op
    <3>2. TypeOK'
      BY <2>3, <3>1 DEF TypeOK, managerVars, instanceVars, runVars
    <3>3. CallsMakeSense'
      BY <2>0, <2>1, <2>2 DEF CallsMakeSense, TypeOK, Idle, Op
    <3> QED BY <3>2, <3>3
  <2>5. \A u \in Caller \ {t} : call'[u] = call[u]
    BY <2>1 DEF TypeOK
  <2>6. UNCHANGED <<cancel, connected, pc, owner, late, cancelled, listed>>
    BY <2>3 DEF managerVars, instanceVars, runVars
  <2>7. ASSUME NEW r \in Run, Active(r), WillCancel(t, r) PROVE WillCancel(t, r)'
    <3>1. q = r
      BY <2>0, <2>7 DEF WillCancel, OneRunInCharge
    <3>2. call'[t] = Op("cancel", call[t].sim, r)
      BY <2>1, <3>1, NoneAssumption DEF TypeOK
    <3> QED BY <2>6, <2>7, <3>2 DEF WillCancel, Op
  <2> QED BY <2>4, <2>5, <2>6, <2>7, CallMoves
<1>2. CASE CancelRun(t)
  <2>1. /\ call[t].op = "cancel" /\ call' = [call EXCEPT ![t] = Idle]
        /\ cancelled' = cancelled \cup {call[t].run}
        /\ UNCHANGED <<managerVars, instanceVars, pc, owner, connOpen, readerVars, late>>
    BY <1>2 DEF CancelRun, Does
  <2>2. call[t].run \in Run
    BY <2>1 DEF CallsMakeSense
  <2>3. call' \in [Caller -> [op : {"idle", "connect", "disconnect", "cancel", "send", "queue"},
                             sim : Sim \cup {None}, run : Run \cup {None}]]
    BY <2>1 DEF TypeOK, Idle
  <2>4. TypeOK'
    BY <2>1, <2>2, <2>3 DEF TypeOK, managerVars, instanceVars, readerVars
  <2>5. CallsMakeSense'
    BY <2>1 DEF CallsMakeSense, TypeOK, Idle
  <2>6. \A u \in Caller \ {t} : call'[u] = call[u]
    BY <2>1 DEF TypeOK
  <2>7. UNCHANGED <<cancel, connected, pc, owner, late, listed>>
    BY <2>1 DEF managerVars, instanceVars
  <2>8. \A r \in Run : WillCancel(t, r) => r \in cancelled'
    BY <2>1 DEF WillCancel
  <2> QED BY <2>1, <2>4, <2>5, <2>6, <2>7, <2>8, CallMoves
<1>3. CASE CheckConnected(t) \/ QueueTelemetry(t)
  <2>1. PICK op \in {"idle", "queue"}, x \in {call[t].sim, None} :
          /\ call' = [call EXCEPT ![t] = [op |-> op, sim |-> x, run |-> None]]
          /\ op # "idle" => x = call[t].sim
    BY <1>3 DEF CheckConnected, QueueTelemetry, Does, Op, Idle
  <2>2. call[t].op \in {"send", "queue"} /\ call[t].sim \in Sim
    BY <1>3 DEF CheckConnected, QueueTelemetry, CallsMakeSense
  <2>3. UNCHANGED <<managerVars, cancel, connected, runVars>>
    BY <1>3 DEF CheckConnected, QueueTelemetry, instanceVars
  <2>4. queue' \in [Sim -> 0 .. QueueSize]
    <3>1. CASE CheckConnected(t)
      BY <3>1 DEF CheckConnected, instanceVars, TypeOK
    <3>2. CASE QueueTelemetry(t)
      <4>1. queue[call[t].sim] \in 0 .. QueueSize
        BY <2>2 DEF TypeOK
      <4>2. (IF queue[call[t].sim] < QueueSize THEN queue[call[t].sim] + 1 ELSE queue[call[t].sim])
              \in 0 .. QueueSize
        BY <4>1, SizeAssumption
      <4> QED BY <3>2, <4>2 DEF QueueTelemetry, TypeOK
    <3> QED BY <1>3, <3>1, <3>2
  <2>5. call' \in [Caller -> [op : {"idle", "connect", "disconnect", "cancel", "send", "queue"},
                             sim : Sim \cup {None}, run : Run \cup {None}]]
    BY <2>1, <2>2 DEF TypeOK
  <2>6. TypeOK'
    BY <2>3, <2>4, <2>5 DEF TypeOK, managerVars, runVars
  <2>7. CallsMakeSense'
    BY <2>1, <2>2 DEF CallsMakeSense, TypeOK
  <2>8. \A u \in Caller \ {t} : call'[u] = call[u]
    BY <2>1 DEF TypeOK
  <2>9. UNCHANGED <<cancel, connected, pc, owner, late, cancelled, listed>>
    BY <2>3 DEF managerVars, runVars
  <2>10. \A r \in Run : ~WillCancel(t, r)
    BY <2>2 DEF WillCancel
  <2> QED BY <2>6, <2>7, <2>8, <2>9, <2>10, CallMoves
<1> QED BY <1>1, <1>2, <1>3

LEMMA ConnectNext ==
  ASSUME IInv, NEW t \in Caller, NEW r \in Run, Connect(t, r)
  PROVE  IInv'
<1> USE DEF IInv
<1> DEFINE s == call[t].sim
<1>1. call[t].op = "connect" /\ s \in Sim /\ call' = [call EXCEPT ![t] = Idle]
  BY DEF Connect, Does, CallsMakeSense
<1>2. call' \in [Caller -> [op : {"idle", "connect", "disconnect", "cancel", "send", "queue"},
                           sim : Sim \cup {None}, run : Run \cup {None}]]
  BY <1>1 DEF TypeOK, Idle
<1>3. CallsMakeSense'
  BY <1>1 DEF CallsMakeSense, TypeOK, Idle
<1>4. \A u \in Caller \ {t} : call'[u] = call[u]
  BY <1>1 DEF TypeOK
<1>5. \A q \in Run : ~WillCancel(t, q)
  BY <1>1 DEF WillCancel
<1>6. CASE UNCHANGED <<managerVars, instanceVars, runVars>>
  <2>1. TypeOK'
    BY <1>2, <1>6 DEF TypeOK, managerVars, instanceVars, runVars
  <2>2. UNCHANGED <<cancel, connected, pc, owner, late, cancelled, listed>>
    BY <1>6 DEF managerVars, instanceVars, runVars
  <2> QED BY <1>3, <1>4, <1>5, <2>1, <2>2, CallMoves
<1>7. CASE /\ cancel[s] = None /\ IsNext(r)
           /\ cancel' = [cancel EXCEPT ![s] = r]
           /\ pc' = [pc EXCEPT ![r] = "dialing"]
           /\ owner' = [owner EXCEPT ![r] = s]
           /\ late' = IF s \in listed THEN late ELSE late \cup {r}
           /\ UNCHANGED <<managerVars, connected, queue, cancelled, connOpen, readerVars>>
  <2>1. TypeOK'
    BY <1>1, <1>2, <1>7 DEF TypeOK, Places, managerVars, readerVars
  <2>2. ~Active(r) /\ Active(r)' /\ owner'[r] = s
    BY <1>7 DEF Active, IsNext, TypeOK
  <2>3. \A q \in Run \ {r} : (Active(q)' <=> Active(q)) /\ owner'[q] = owner[q] /\ pc'[q] = pc[q]
    BY <1>7 DEF Active, TypeOK
  <2>4. ActiveIsOwned'
    BY <1>1, <2>2, <2>3 DEF ActiveIsOwned
  <2>5. cancel'[s] = r /\ \A x \in Sim \ {s} : cancel'[x] = cancel[x]
    BY <1>1, <1>7 DEF TypeOK
  <2>6. ASSUME NEW q \in Run, Active(q)' PROVE cancel'[owner'[q]] = q
    <3>1. CASE q = r
      BY <2>2, <2>5, <3>1
    <3>2. CASE q # r
      <4>1. cancel[owner[q]] = q /\ owner[q] \in Sim
        BY <2>3, <2>6, <3>2 DEF OneRunInCharge, ActiveIsOwned
      <4>2. owner[q] # s
        BY <1>7, <4>1, NoneAssumption
      <4> QED BY <2>3, <2>5, <3>2, <4>1, <4>2
    <3> QED BY <3>1, <3>2
  <2>7. ASSUME NEW x \in Sim, x # s, cancel[x] # None
        PROVE  cancel[x] \in Run \ {r} /\ Active(cancel[x]) /\ owner[cancel[x]] = x
    BY <2>2, <2>7 DEF OneRunInCharge, TypeOK
  <2>8. \A x \in Sim : cancel'[x] # None => Active(cancel[x])' /\ owner'[cancel'[x]] = x
    <3> SUFFICES ASSUME NEW x \in Sim, cancel'[x] # None
                 PROVE  Active(cancel[x])' /\ owner'[cancel'[x]] = x
      OBVIOUS
    <3>1. CASE x = s
      BY <2>2, <2>5, <3>1 DEF Active
    <3>2. CASE x # s
      BY <2>3, <2>5, <2>7, <3>2 DEF Active
    <3> QED BY <3>1, <3>2
  <2>9. ASSUME NEW x \in Sim, connected'[x]
        PROVE  cancel'[x] # None /\ pc'[cancel'[x]] \in InUse
    <3>1. cancel[x] # None /\ pc[cancel[x]] \in InUse
      BY <1>7, <2>9 DEF OneRunInCharge, InUse
    <3>2. x # s
      BY <1>7, <3>1
    <3> QED BY <2>3, <2>5, <2>7, <3>1, <3>2
  <2>10. ASSUME NEW q \in Run, Active(q)', owner'[q] \notin listed'
         PROVE  q \in cancelled' \cup late' \/ \E u \in Caller : WillCancel(u, q)'
    <3>1. CASE q = r
      BY <1>7, <2>2, <2>10, <3>1 DEF managerVars
    <3>2. CASE q # r
      <4>1. q \in cancelled \cup late \/ \E u \in Caller : WillCancel(u, q)
        BY <1>7, <2>3, <2>10, <3>2 DEF RemovedIsStopping, managerVars
      <4>2. ASSUME NEW u \in Caller, WillCancel(u, q) PROVE WillCancel(u, q)'
        BY <1>4, <1>5, <2>3, <3>2, <4>2 DEF WillCancel
      <4> QED BY <1>7, <4>1, <4>2
    <3> QED BY <3>1, <3>2
  <2> QED BY <1>3, <2>1, <2>4, <2>6, <2>8, <2>9, <2>10
          DEF OneRunInCharge, RemovedIsStopping, InUse
<1> QED BY <1>6, <1>7 DEF Connect

LEMMA IInvNext == IInv /\ [Next]_vars => IInv'
<1> SUFFICES ASSUME IInv, [Next]_vars PROVE IInv'
  OBVIOUS
<1>1. ASSUME UNCHANGED <<created, listed, instanceVars, call, runVars>>, rootDone' \in BOOLEAN
      PROVE  IInv'
  <2>1. TypeOK'
    BY <1>1 DEF IInv, TypeOK, instanceVars, runVars
  <2> QED BY <1>1, <2>1 DEF IInv, instanceVars, runVars, CallsMakeSense, ActiveIsOwned, Active,
             OneRunInCharge, RemovedIsStopping, WillCancel
<1>2. CASE Close
  BY <1>1, <1>2 DEF Close
<1>3. ASSUME NEW t \in Caller, Api(t) PROVE IInv'
  BY <1>3, ManagerNext, InstanceNext, ConnectNext DEF Api
<1>4. ASSUME NEW r \in Run, RunStep(r) \/ ReaderStep(r) PROVE IInv'
  BY <1>4, RunStepNext, FinishRunNext, ReaderNext
<1>5. CASE UNCHANGED vars
  BY <1>1, <1>5 DEF vars, managerVars, IInv, TypeOK
<1> QED BY <1>2, <1>3, <1>4, <1>5 DEF Next

LEMMA Invariance == Spec => []IInv
<1> QED BY InitIInv, IInvNext, PTL DEF Spec

(***************************************************************************)
(* Theorems.                                                               *)
(***************************************************************************)

\* Types of the variables, and no channel of a simulator outgrows its
\* capacity (instance.sendTelemetry and scanServerMessages never block).
THEOREM TypeCorrect == Spec => []TypeOK
<1>1. IInv => TypeOK
  BY DEF IInv
<1> QED BY <1>1, Invariance, PTL

\* However the API's calls interleave, a simulator has one run at a time,
\* the one its cancel function stops, and shows as connected only on its
\* account (instance.connect and finishRun).
THEOREM OneRunIsInCharge == Spec => []OneRunInCharge
<1>1. IInv => OneRunInCharge
  BY DEF IInv
<1> QED BY <1>1, Invariance, PTL

\* The run of a removed simulator is cancelled or about to be, unless a
\* Connect that had found the simulator started it afterwards
\* (Manager.Remove and Manager.Connect).
THEOREM RemovedSimulatorsStop == Spec => []RemovedIsStopping
<1>1. IInv => RemovedIsStopping
  BY DEF IInv
<1> QED BY <1>1, Invariance, PTL

(***************************************************************************)
(* Connections.  A run has one while it authenticates or serves, and       *)
(* closes it before it frees its simulator; after that not even its reader *)
(* leaves anything behind.                                                 *)
(***************************************************************************)
EndedLeaveNothing ==
  \A r \in Run : pc[r] = "ended" => ~connOpen[r] /\ inbox[r] = <<>> /\ ~readErr[r]

OneConnectionEach ==
  \A q, r \in Run : connOpen[q] /\ connOpen[r] /\ owner[q] = owner[r] => q = r

Connecting == {"authenticating", "serving", "closing"}
ConnInv ==
  /\ DOMAIN inbox = Run
  /\ EndedLeaveNothing
  /\ \A r \in Run : connOpen[r] => pc[r] \in Connecting

\* A step of run r that it takes with its connection open, and keeps open.
LEMMA ConnectedStep ==
  ASSUME TypeOK, ConnInv, NEW r \in Run, NEW x \in Connecting, pc' = [pc EXCEPT ![r] = x],
         pc[r] # "ended", connOpen' = connOpen, DOMAIN inbox' = DOMAIN inbox,
         \A q \in Run \ {r} : inbox'[q] = inbox[q] /\ readErr'[q] = readErr[q]
  PROVE  ConnInv'
<1>1. pc'[r] = x /\ \A q \in Run \ {r} : pc'[q] = pc[q]
  BY DEF TypeOK
<1> QED BY <1>1 DEF ConnInv, EndedLeaveNothing, Connecting

LEMMA RunKeepsConn ==
  ASSUME TypeOK, ConnInv, NEW r \in Run, RunStep(r)
  PROVE  ConnInv'
<1>1. CASE Dial(r)
  <2>1. /\ pc' = [pc EXCEPT ![r] = "authenticating"] /\ connOpen' = [connOpen EXCEPT ![r] = TRUE]
        /\ inbox' = inbox /\ readErr' = readErr
    BY <1>1 DEF Dial, GoTo
  <2> QED BY <2>1 DEF ConnInv, EndedLeaveNothing, Connecting, TypeOK
<1>2. CASE DialFails(r)
  <2>1. /\ pc[r] = "dialing" /\ pc' = [pc EXCEPT ![r] = "finishing"]
        /\ connOpen' = connOpen /\ inbox' = inbox /\ readErr' = readErr
    BY <1>2 DEF DialFails, GoTo, readerVars
  <2> QED BY <2>1 DEF ConnInv, EndedLeaveNothing, Connecting, TypeOK
<1>3. CASE ContextDone(r)
  <2>1. /\ pc[r] # "ended" /\ pc' = [pc EXCEPT ![r] = "closing"]
        /\ connOpen' = connOpen /\ inbox' = inbox /\ readErr' = readErr
    BY <1>3 DEF ContextDone, Selecting, readerVars
  <2> QED BY <2>1, ConnectedStep DEF Connecting
<1>4. CASE TakeReadError(r) \/ TimeoutOrWriteFails(r)
  <2>1. /\ pc[r] # "ended" /\ pc' = [pc EXCEPT ![r] = "closing"]
        /\ connOpen' = connOpen /\ inbox' = inbox
        /\ \A q \in Run \ {r} : readErr'[q] = readErr[q]
    BY <1>4 DEF TakeReadError, TimeoutOrWriteFails, Fail, Selecting, TypeOK
  <2> QED BY <2>1, ConnectedStep DEF Connecting
<1>5. CASE TakeMessage(r)
  <2>1. /\ pc[r] \in {"authenticating", "serving"} /\ connOpen' = connOpen /\ readErr' = readErr
        /\ DOMAIN inbox' = DOMAIN inbox
        /\ \A q \in Run \ {r} : inbox'[q] = inbox[q]
    BY <1>5 DEF TakeMessage, Fail, Selecting
  <2>2. \E x \in Connecting : pc' = [pc EXCEPT ![r] = x]
    BY <1>5, <2>1 DEF TakeMessage, Fail, Connecting, TypeOK
  <2> QED BY <2>1, <2>2, ConnectedStep
<1>6. CASE PublishManual(r)
  <2>1. /\ pc[r] = "serving" /\ connOpen' = connOpen /\ inbox' = inbox /\ readErr' = readErr
    BY <1>6 DEF PublishManual, readerVars
  <2>2. \E x \in Connecting : pc' = [pc EXCEPT ![r] = x]
    BY <1>6, <2>1 DEF PublishManual, Connecting, TypeOK
  <2> QED BY <2>1, <2>2, ConnectedStep
<1>7. CASE CloseConn(r)
  <2>1. /\ pc' = [pc EXCEPT ![r] = "finishing"] /\ connOpen' = [connOpen EXCEPT ![r] = FALSE]
        /\ inbox' = inbox /\ readErr' = readErr
    BY <1>7 DEF CloseConn, GoTo, readerVars
  <2> QED BY <2>1 DEF ConnInv, EndedLeaveNothing, Connecting, TypeOK
<1>8. CASE FinishRun(r)
  <2>1. /\ pc[r] = "finishing" /\ pc' = [pc EXCEPT ![r] = "ended"] /\ connOpen' = connOpen
        /\ inbox' = [inbox EXCEPT ![r] = <<>>] /\ readErr' = [readErr EXCEPT ![r] = FALSE]
    BY <1>8 DEF FinishRun, GoTo
  <2>2. inbox'[r] = <<>> /\ ~readErr'[r] /\ ~connOpen'[r]
    <3>1. ~connOpen[r]
      BY <2>1 DEF ConnInv, Connecting
    <3>2. r \in DOMAIN inbox /\ r \in DOMAIN readErr
      BY DEF TypeOK, ConnInv
    <3> QED BY <2>1, <3>1, <3>2
  <2> QED BY <2>1, <2>2 DEF ConnInv, EndedLeaveNothing, Connecting, TypeOK
<1> QED BY <1>1, <1>2, <1>3, <1>4, <1>5, <1>6, <1>7, <1>8 DEF RunStep

LEMMA ReaderKeepsConn ==
  ASSUME TypeOK, ConnInv, NEW r \in Run, ReaderStep(r)
  PROVE  ConnInv'
<1>1. pc' = pc /\ connOpen' = connOpen
  BY DEF ReaderStep, Receive, ReaderEnds
<1>2. /\ DOMAIN inbox' = DOMAIN inbox
      /\ \A q \in Run \ {r} : inbox'[q] = inbox[q] /\ readErr'[q] = readErr[q]
  <2>1. \/ inbox' = inbox
        \/ \E m \in Message : inbox' = [inbox EXCEPT ![r] = Append(@, m)]
    BY DEF ReaderStep, Receive, ReaderEnds
  <2>2. readErr' = readErr \/ readErr' = [readErr EXCEPT ![r] = pc[r] # "ended"]
    BY DEF ReaderStep, Receive, ReaderEnds, ReaderGivesUp
  <2>3. \A q \in Run \ {r} : readErr'[q] = readErr[q]
    BY <2>2 DEF TypeOK
  <2> QED BY <2>1, <2>3 DEF ConnInv
<1>3. ASSUME pc[r] = "ended" PROVE inbox'[r] = inbox[r] /\ ~readErr'[r]
  <2>1. ~connOpen[r]
    BY <1>3 DEF ConnInv, EndedLeaveNothing
  <2>2. ReaderEnds(r)
    BY <2>1 DEF ReaderStep, Receive
  <2> QED BY <1>3, <2>2 DEF ReaderEnds, ReaderGivesUp, TypeOK
<1> QED BY <1>1, <1>2, <1>3 DEF ConnInv, EndedLeaveNothing

LEMMA ConnInvNext == TypeOK /\ ConnInv /\ [Next]_vars => ConnInv'
<1> SUFFICES ASSUME TypeOK, ConnInv, [Next]_vars PROVE ConnInv'
  OBVIOUS
<1>1. CASE UNCHANGED <<pc, connOpen, inbox, readErr>>
  BY <1>1 DEF ConnInv, EndedLeaveNothing
<1>2. ASSUME NEW t \in Caller, NEW r \in Run, Connect(t, r) PROVE ConnInv'
  <2>1. connOpen' = connOpen /\ inbox' = inbox /\ readErr' = readErr
    BY <1>2 DEF Connect, runVars, readerVars
  <2>2. pc' = pc \/ (pc[r] = "absent" /\ pc' = [pc EXCEPT ![r] = "dialing"])
    BY <1>2 DEF Connect, runVars, IsNext
  <2> QED BY <2>1, <2>2 DEF ConnInv, EndedLeaveNothing, Connecting, TypeOK
<1>3. ASSUME NEW t \in Caller, Api(t), ~\E r \in Run : Connect(t, r) PROVE ConnInv'
  BY <1>1, <1>3 DEF Api, Create, Lookup, Remove, ReadCancel, CancelRun, CheckConnected,
                    QueueTelemetry, runVars, readerVars
<1>4. CASE Close \/ UNCHANGED vars
  BY <1>1, <1>4 DEF Close, vars, runVars
<1> QED BY <1>2, <1>3, <1>4, RunKeepsConn, ReaderKeepsConn DEF Next

\* A simulator has one connection to the gateway at a time, and a run that has
\* ended leaves neither its connection nor a message or an error for anybody,
\* also when its reader goes on after it (instance.run, finishRun and
\* scanServerMessages): the safety half of StoppedRunsEnd.
THEOREM EndedRunsLeaveNothing == Spec => [](EndedLeaveNothing /\ OneConnectionEach)
<1>1. Init => ConnInv
  BY DEF Init, ConnInv, EndedLeaveNothing
<1>2. IInv /\ ConnInv /\ [Next]_vars => ConnInv'
  BY ConnInvNext DEF IInv
<1>3. IInv /\ ConnInv => EndedLeaveNothing /\ OneConnectionEach
  <2>1. IInv /\ ConnInv => \A r \in Run : connOpen[r] => cancel[owner[r]] = r
    BY DEF IInv, OneRunInCharge, ConnInv, Connecting, Active
  <2> QED BY <2>1 DEF OneConnectionEach, ConnInv
<1> QED BY <1>1, <1>2, <1>3, Invariance, PTL DEF Spec

=============================================================================
