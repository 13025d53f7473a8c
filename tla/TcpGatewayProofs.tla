------------------------- MODULE TcpGatewayProofs -------------------------
(***************************************************************************)
(* For any devices, connections and queue size: a device's commands only   *)
(* ever go to a connection that authenticated as that device and has not   *)
(* yet unregistered, the gateway implements the specification of the       *)
(* session registry, and a connection is closed once it is displaced,      *)
(* tracked while it is open, and counted once when it is refused.  What is *)
(* left when the handlers have returned depends on second auth messages.   *)
(***************************************************************************)
EXTENDS TcpGateway, FiniteSetTheorems, TLAPS

USE DEF vars, registryVars, handlerVars, sessionVars, serverVars

(***************************************************************************)
(* The inductive invariant: SessionOwnership, with the types it needs and  *)
(* the fact that only an authenticated connection comes to unregister.     *)
(***************************************************************************)
UnregisteringIsAuthenticated ==
  \A c \in Conn : pc[c] = "unregister" => Authenticated(c)

HandlerTypes ==
  /\ session \in [Device -> Conn \cup {NoSession}]
  /\ pc \in [Conn -> Places]
  /\ deviceID \in [Conn -> Device \cup {NoSession}]

IInv == HandlerTypes /\ UnregisteringIsAuthenticated /\ SessionOwnership

(***************************************************************************)
(* Every step but Authenticate and Unregister leaves the registry's map    *)
(* and the devices alone, and moves a handler into the epilogue only from  *)
(* inside it, or when no session can be its own.                           *)
(***************************************************************************)
LEMMA IInvStep == IInv /\ [Next]_vars => IInv'
<1> SUFFICES ASSUME IInv, [Next]_vars PROVE IInv'
  OBVIOUS
<1> USE ConnAssumption
    DEF IInv, HandlerTypes, UnregisteringIsAuthenticated, SessionOwnership,
        Authenticated, GoTo, Places, Epilogue, Aborting
<1>1. ASSUME NEW c \in Conn, Accept(c) \/ Writer(c) \/ SendCommand(c)
      PROVE  IInv'
  <2>1. CASE Accept(c)
    BY <2>1 DEF Accept
  <2>2. CASE Writer(c) \/ SendCommand(c)
    BY <2>2 DEF Writer, WriterCancelled, WriterSeesClosed, WriteMessage,
                WriteFails, SendCommand
  <2> QED BY <1>1, <2>1, <2>2
<1>2. ASSUME NEW c \in Conn, ReadStep(c)
      PROVE  IInv'
  <2>1. ASSUME NEW d \in Device, Authenticate(c, d)
        PROVE  IInv'
    BY <2>1 DEF Authenticate, Registry!RegisterSession
  <2>2. CASE ReadMessage(c) \/ Refuse(c) \/ SecondAuth(c)
    BY <2>2 DEF ReadMessage, Refuse, SecondAuth
  <2>3. CASE ReadEnds(c)
    BY <2>3 DEF ReadEnds
  <2> QED BY <1>2, <2>1, <2>2, <2>3 DEF ReadStep
<1>3. ASSUME NEW c \in Conn, HandlerStep(c)
      PROVE  IInv'
  <2>1. CASE Unregister(c)
    BY <2>1 DEF Unregister, Registry!UnregisterSession
  <2>2. CASE AdjustOnline(c) \/ ClosePrevious(c)
    BY <2>2 DEF AdjustOnline, ClosePrevious, Registry!AdjustOnline,
                Registry!ClosePrevious
  <2>3. CASE Track(c) \/ AuthOK(c)
    BY <2>3 DEF Track, AuthOK
  <2>4. CASE Close(c) \/ CancelWriter(c) \/ Untrack(c)
    BY <2>4 DEF Close, CancelWriter, Untrack
  <2> QED BY <1>3, <2>1, <2>2, <2>3, <2>4 DEF HandlerStep
<1>4. CASE Stop
  BY <1>4 DEF Stop, Shutdown, CloseListener, CloseAllConnections
<1>5. CASE UNCHANGED vars
  BY <1>5
<1> QED BY <1>1, <1>2, <1>3, <1>4, <1>5 DEF Next

LEMMA Invariance == Spec => []IInv
<1>1. Init => IInv
  BY ConnAssumption DEF Init, Registry!Init, IInv, HandlerTypes, Places,
     UnregisteringIsAuthenticated, SessionOwnership
<1> QED BY <1>1, IInvStep, PTL DEF Spec

(***************************************************************************)
(* SessionOwnership: commands for a device never reach a connection that   *)
(* is another device's or that has unregistered, whatever the order of     *)
(* registrations, replacements and disconnects.                            *)
(***************************************************************************)
THEOREM SessionsBelongToTheirDevice == Spec => []SessionOwnership
BY Invariance, PTL DEF IInv

(***************************************************************************)
(* What a step does to the registry: it is one registry operation by the   *)
(* handler of a connection, or it leaves the registry alone.               *)
(***************************************************************************)
LEMMA StepOnRegistry ==
  IInv /\ [Next]_vars => [Registry!Next]_(Registry!registryVars)
<1> SUFFICES ASSUME IInv, Next PROVE Registry!Next \/ UNCHANGED registryVars
  BY DEF Registry!registryVars
<1>1. ASSUME NEW c \in Conn, Accept(c) \/ Writer(c) \/ SendCommand(c)
      PROVE  UNCHANGED registryVars
  BY <1>1 DEF Accept, Writer, WriterCancelled, WriterSeesClosed, WriteMessage,
              WriteFails, SendCommand
<1>2. ASSUME NEW c \in Conn, ReadStep(c)
      PROVE  Registry!Next \/ UNCHANGED registryVars
  <2>1. ASSUME NEW d \in Device, Authenticate(c, d)
        PROVE  Registry!Next
    BY <2>1 DEF Authenticate, Registry!Next
  <2>2. CASE ReadMessage(c) \/ Refuse(c) \/ SecondAuth(c) \/ ReadEnds(c)
    BY <2>2 DEF ReadMessage, Refuse, SecondAuth, ReadEnds
  <2> QED BY <1>2, <2>1, <2>2 DEF ReadStep
<1>3. ASSUME NEW c \in Conn, HandlerStep(c)
      PROVE  Registry!Next \/ UNCHANGED registryVars
  <2>1. CASE Unregister(c)
    <3>1. deviceID[c] \in Device
      BY <2>1 DEF Unregister, GoTo, IInv, HandlerTypes, Authenticated,
                  UnregisteringIsAuthenticated
    <3> QED BY <2>1, <3>1 DEF Unregister, Registry!Next
  <2>2. CASE AdjustOnline(c)
    BY <2>2 DEF AdjustOnline, Registry!Next
  <2>3. CASE ClosePrevious(c)
    BY <2>3 DEF ClosePrevious, Registry!Next
  <2>4. CASE Track(c) \/ AuthOK(c) \/ Close(c) \/ CancelWriter(c) \/ Untrack(c)
    BY <2>4 DEF Track, AuthOK, Close, CancelWriter, Untrack
  <2> QED BY <1>3, <2>1, <2>2, <2>3, <2>4 DEF HandlerStep
<1>4. CASE Stop
  BY <1>4 DEF Stop, Shutdown, CloseListener, CloseAllConnections
<1> QED BY <1>1, <1>2, <1>3, <1>4 DEF Next

(***************************************************************************)
(* The gateway implements the session registry: what is proved of the      *)
(* registry's most general client holds of the gateway.                    *)
(***************************************************************************)
THEOREM GatewayImplementsRegistry == Spec => ImplementsRegistry
<1>1. Init => Registry!Init
  BY DEF Init
<1> QED BY <1>1, StepOnRegistry, Invariance, PTL
        DEF Spec, ImplementsRegistry, Registry!Spec

(***************************************************************************)
(* TypeOK.  The queue never outgrows the channel's capacity, and a         *)
(* goroutine is never to close the nil session.                            *)
(***************************************************************************)
LEMMA QueueIsBounded ==
  ASSUME TypeOK, NEW c \in Conn
  PROVE  Send(c) \in [Conn -> 0 .. QueueSize]
<1>1. CASE closed[c] \/ queue[c] = QueueSize
  BY <1>1 DEF Send, TypeOK
<1>2. CASE ~(closed[c] \/ queue[c] = QueueSize)
  <2>1. queue[c] + 1 \in 0 .. QueueSize
    BY <1>2, QueueSizeAssumption DEF TypeOK
  <2> QED BY <1>2, <2>1 DEF Send, TypeOK
<1> QED BY <1>1, <1>2

LEMMA DequeueIsBounded ==
  ASSUME TypeOK, NEW c \in Conn, queue[c] > 0
  PROVE  [queue EXCEPT ![c] = @ - 1] \in [Conn -> 0 .. QueueSize]
<1>1. queue[c] - 1 \in 0 .. QueueSize
  BY QueueSizeAssumption DEF TypeOK
<1> QED BY <1>1 DEF TypeOK

LEMMA CloseIsTyped ==
  ASSUME TypeOK, NEW c, CloseSession(c)
  PROVE  closed' \in [Conn -> BOOLEAN] /\ connOpen' \in [Conn -> BOOLEAN]
BY DEF CloseSession, TypeOK

LEMMA TypeStep == TypeOK /\ IInv /\ [Next]_vars => TypeOK'
<1> SUFFICES ASSUME TypeOK, IInv, [Next]_vars PROVE TypeOK'
  OBVIOUS
<1> USE ConnAssumption
    DEF TypeOK, Registry!TypeOK, GoTo, Places, Epilogue, Aborting
<1>1. ASSUME NEW c \in Conn, Accept(c) \/ Writer(c) \/ SendCommand(c)
      PROVE  TypeOK'
  <2>1. CASE Accept(c)
    BY <2>1 DEF Accept
  <2>5. CASE WriterSeesClosed(c)
    BY <2>5 DEF WriterSeesClosed
  <2>6. CASE SendCommand(c)
    BY <2>6, QueueIsBounded DEF SendCommand
  <2>2. CASE WriterCancelled(c)
    BY <2>2, CloseIsTyped DEF WriterCancelled
  <2>3. CASE WriteMessage(c)
    BY <2>3, DequeueIsBounded DEF WriteMessage
  <2>4. CASE WriteFails(c)
    BY <2>4, DequeueIsBounded, CloseIsTyped DEF WriteFails
  <2> QED BY <1>1, <2>1, <2>2, <2>3, <2>4, <2>5, <2>6 DEF Writer
<1>2. ASSUME NEW c \in Conn, ReadStep(c)
      PROVE  TypeOK'
  <2>1. ASSUME NEW d \in Device, Authenticate(c, d)
        PROVE  TypeOK'
    <3>1. Registry!AfterRegister(session[d], c) \in Registry!Tasks
      BY DEF Registry!AfterRegister, Registry!Tasks, Registry!Idle
    <3> QED BY <2>1, <3>1 DEF Authenticate, Registry!RegisterSession
  <2>2. CASE ReadMessage(c) \/ SecondAuth(c)
    BY <2>2, QueueIsBounded DEF ReadMessage, SecondAuth
  <2>3. CASE Refuse(c) \/ ReadEnds(c)
    BY <2>3, QueueIsBounded DEF Refuse, ReadEnds
  <2> QED BY <1>2, <2>1, <2>2, <2>3 DEF ReadStep
<1>3. ASSUME NEW c \in Conn, HandlerStep(c)
      PROVE  TypeOK'
  <2>0. /\ Registry!Idle \in Registry!Tasks
        /\ Registry!Task("sub", NoSession) \in Registry!Tasks
    BY DEF Registry!Tasks
  <2>1. CASE Unregister(c) \/ AdjustOnline(c)
    BY <2>1, <2>0 DEF Unregister, Registry!UnregisterSession, AdjustOnline,
                Registry!AdjustOnline
  <2>2. CASE ClosePrevious(c)
    BY <2>2, <2>0, CloseIsTyped DEF ClosePrevious, Registry!ClosePrevious
  <2>3. CASE Close(c)
    BY <2>3, CloseIsTyped DEF Close
  <2>4. CASE AuthOK(c)
    BY <2>4, QueueIsBounded DEF AuthOK
  <2>5. CASE Track(c) \/ CancelWriter(c) \/ Untrack(c)
    BY <2>5 DEF Track, CancelWriter, Untrack
  <2> QED BY <1>3, <2>1, <2>2, <2>3, <2>4, <2>5 DEF HandlerStep
<1>4. CASE Stop
  BY <1>4 DEF Stop, Shutdown, CloseListener, CloseAllConnections
<1>5. CASE UNCHANGED vars
  BY <1>5
<1> QED BY <1>1, <1>2, <1>3, <1>4, <1>5 DEF Next

THEOREM TypeCorrect == Spec => []TypeOK
<1>1. Init => TypeOK
  <2>1. 0 \in 0 .. QueueSize /\ 0 \in Int /\ 0 \in Nat
    BY QueueSizeAssumption
  <2>2. Registry!Idle \in Registry!Tasks
    BY DEF Registry!Tasks
  <2>3. Init => Registry!TypeOK
    BY <2>1, <2>2 DEF Init, Registry!Init, Registry!TypeOK
  <2> QED BY <2>1, <2>3 DEF Init, TypeOK, Places
<1> QED BY <1>1, TypeStep, Invariance, PTL DEF Spec

(***************************************************************************)
(* OpenIsTracked and RejectedExactlyOnce, which are inductive once the     *)
(* types are known.                                                        *)
(***************************************************************************)
LEMMA HandlerStepCounts ==
  TypeOK /\ OpenIsTracked /\ RejectedExactlyOnce /\ [Next]_vars
    => (OpenIsTracked /\ RejectedExactlyOnce)'
<1> SUFFICES ASSUME TypeOK, OpenIsTracked, RejectedExactlyOnce, [Next]_vars
             PROVE  (OpenIsTracked /\ RejectedExactlyOnce)'
  OBVIOUS
<1> USE ConnAssumption
    DEF TypeOK, OpenIsTracked, RejectedExactlyOnce, GoTo, Places, Epilogue,
        Aborting, Authenticated
<1>1. ASSUME NEW c \in Conn, Accept(c) \/ Writer(c) \/ SendCommand(c)
      PROVE  (OpenIsTracked /\ RejectedExactlyOnce)'
  <2>1. CASE Accept(c) \/ SendCommand(c)
    BY <2>1 DEF Accept, SendCommand
  <2>2. CASE Writer(c)
    BY <2>2 DEF Writer, WriterCancelled, WriterSeesClosed, WriteMessage,
                WriteFails, CloseSession
  <2> QED BY <1>1, <2>1, <2>2
<1>2. ASSUME NEW c \in Conn, ReadStep(c)
      PROVE  (OpenIsTracked /\ RejectedExactlyOnce)'
  <2>1. ASSUME NEW d \in Device, Authenticate(c, d)
        PROVE  (OpenIsTracked /\ RejectedExactlyOnce)'
    BY <2>1 DEF Authenticate
  <2>2. CASE ReadMessage(c) \/ Refuse(c) \/ SecondAuth(c)
    BY <2>2 DEF ReadMessage, Refuse, SecondAuth
  <2>3. CASE ReadEnds(c)
    BY <2>3 DEF ReadEnds
  <2> QED BY <1>2, <2>1, <2>2, <2>3 DEF ReadStep
<1>3. ASSUME NEW c \in Conn, HandlerStep(c)
      PROVE  (OpenIsTracked /\ RejectedExactlyOnce)'
  <2>1. CASE Unregister(c) \/ AdjustOnline(c) \/ ClosePrevious(c)
    BY <2>1 DEF Unregister, AdjustOnline, ClosePrevious, CloseSession
  <2>2. CASE Track(c) \/ AuthOK(c)
    BY <2>2 DEF Track, AuthOK
  <2>3. CASE Close(c) \/ CancelWriter(c) \/ Untrack(c)
    BY <2>3 DEF Close, CancelWriter, Untrack, CloseSession
  <2> QED BY <1>3, <2>1, <2>2, <2>3 DEF HandlerStep
<1>4. CASE Stop
  BY <1>4 DEF Stop, Shutdown, CloseListener, CloseAllConnections
<1>5. CASE UNCHANGED vars
  BY <1>5
<1> QED BY <1>1, <1>2, <1>3, <1>4, <1>5 DEF Next

LEMMA HandlersAreCounted == Spec => [](OpenIsTracked /\ RejectedExactlyOnce)
<1>1. Init => OpenIsTracked /\ RejectedExactlyOnce
  BY DEF Init, OpenIsTracked, RejectedExactlyOnce, Aborting, Epilogue
<1> QED BY <1>1, HandlerStepCounts, TypeCorrect, PTL DEF Spec

(***************************************************************************)
(* OpenIsTracked: whatever the race of accepting and shutting down, an     *)
(* open connection is within reach of closeAllConnections or about to be   *)
(* tracked.                                                                *)
(***************************************************************************)
THEOREM OpenConnectionsAreTracked == Spec => []OpenIsTracked
BY HandlersAreCounted, PTL

(***************************************************************************)
(* RejectedExactlyOnce: of the three places that count a rejection, a      *)
(* connection passes exactly one if it ends without authenticating, and    *)
(* none otherwise.                                                         *)
(***************************************************************************)
THEOREM RejectionsAreCounted == Spec => []RejectedExactlyOnce
BY HandlersAreCounted, PTL

(***************************************************************************)
(* DisplacedIsClosing.  A connection is displaced only by Authenticate,    *)
(* whose handler then owes the Close of the session it displaced, or by    *)
(* its own Unregister, after which its handler is at Close; and a debt is  *)
(* settled only by closing the session.                                    *)
(***************************************************************************)
Owed(c) == \E t \in Conn : task[t] = Registry!Task("close", c)

LEMMA RegistryMovesOnlyThere ==
  ASSUME [Next]_vars
  PROVE  \/ \E b \in Conn, d \in Device : Authenticate(b, d)
         \/ \E b \in Conn : Unregister(b)
         \/ UNCHANGED <<session, deviceID>>
<1>1. ASSUME NEW b \in Conn, Accept(b) \/ Writer(b) \/ SendCommand(b)
      PROVE  UNCHANGED <<session, deviceID>>
  BY <1>1 DEF Accept, Writer, WriterCancelled, WriterSeesClosed, WriteMessage,
              WriteFails, SendCommand
<1>2. ASSUME NEW b \in Conn, ReadStep(b)
      PROVE  \/ \E d \in Device : Authenticate(b, d)
             \/ UNCHANGED <<session, deviceID>>
  BY <1>2 DEF ReadStep, ReadMessage, Refuse, SecondAuth, ReadEnds
<1>3. ASSUME NEW b \in Conn, HandlerStep(b)
      PROVE  Unregister(b) \/ UNCHANGED <<session, deviceID>>
  BY <1>3 DEF HandlerStep, Track, AuthOK, Close, CancelWriter, Untrack,
              AdjustOnline, Registry!AdjustOnline, ClosePrevious,
              Registry!ClosePrevious
<1>4. CASE Stop
  BY <1>4 DEF Stop, Shutdown, CloseListener, CloseAllConnections
<1>5. CASE UNCHANGED vars
  BY <1>5
<1> QED BY <1>1, <1>2, <1>3, <1>4, <1>5 DEF Next

LEMMA ClosedStaysClosed ==
  ASSUME TypeOK, [Next]_vars, NEW c \in Conn, closed[c]
  PROVE  closed'[c]
<1> USE DEF TypeOK
<1>1. ASSUME NEW b, CloseSession(b)
      PROVE  closed'[c]
  BY <1>1 DEF CloseSession
<1>2. ASSUME NEW b \in Conn, Accept(b) \/ Writer(b) \/ SendCommand(b)
      PROVE  closed'[c]
  BY <1>1, <1>2 DEF Accept, Writer, WriterCancelled, WriterSeesClosed,
                    WriteMessage, WriteFails, SendCommand
<1>3. ASSUME NEW b \in Conn, ReadStep(b)
      PROVE  closed'[c]
  BY <1>3 DEF ReadStep, ReadMessage, Refuse, Authenticate, SecondAuth, ReadEnds
<1>4. ASSUME NEW b \in Conn, HandlerStep(b)
      PROVE  closed'[c]
  BY <1>1, <1>4 DEF HandlerStep, Track, AuthOK, Unregister, Close,
                    CancelWriter, Untrack, AdjustOnline, ClosePrevious
<1>5. CASE Stop
  BY <1>5 DEF Stop, Shutdown, CloseListener, CloseAllConnections
<1>6. CASE UNCHANGED vars
  BY <1>6
<1> QED BY <1>2, <1>3, <1>4, <1>5, <1>6 DEF Next

LEMMA OnlyCloseLeaves ==
  ASSUME TypeOK, [Next]_vars, NEW c \in Conn, pc[c] = "close"
  PROVE  closed'[c] \/ pc'[c] = "close"
<1> USE DEF TypeOK, GoTo
<1>1. ASSUME NEW b \in Conn, Accept(b) \/ Writer(b) \/ SendCommand(b)
      PROVE  pc'[c] = "close"
  BY <1>1 DEF Accept, Writer, WriterCancelled, WriterSeesClosed,
              WriteMessage, WriteFails, SendCommand
<1>2. ASSUME NEW b \in Conn, ReadStep(b)
      PROVE  pc'[c] = "close"
  BY <1>2 DEF ReadStep, ReadMessage, Refuse, Authenticate, SecondAuth, ReadEnds
<1>3. ASSUME NEW b \in Conn, HandlerStep(b)
      PROVE  closed'[c] \/ pc'[c] = "close"
  BY <1>3 DEF HandlerStep, Track, AuthOK, Unregister, Close, CloseSession,
              CancelWriter, Untrack, AdjustOnline, ClosePrevious
<1>4. CASE Stop
  BY <1>4 DEF Stop, Shutdown, CloseListener, CloseAllConnections
<1>5. CASE UNCHANGED vars
  BY <1>5
<1> QED BY <1>1, <1>2, <1>3, <1>4, <1>5 DEF Next

LEMMA DebtIsSettled ==
  ASSUME TypeOK, [Next]_vars, NEW c \in Conn, Owed(c)
  PROVE  closed'[c] \/ Owed(c)'
<1> USE DEF TypeOK, Registry!TypeOK
<1>1. PICK t \in Conn : task[t] = Registry!Task("close", c)
  BY DEF Owed
<1>2. SUFFICES ASSUME ~(\E b \in Conn : ClosePrevious(b) /\ b = t)
               PROVE  task'[t] = Registry!Task("close", c)
  <2>1. ASSUME ClosePrevious(t)
        PROVE  closed'[c]
    <3>1. task[t].prev = c
      BY <1>1 DEF Registry!Task
    <3> QED BY <2>1, <3>1 DEF ClosePrevious, CloseSession
  <2> QED BY <1>1, <2>1 DEF Owed
<1>3. task[t].step = "close" /\ task[t] # Registry!Idle
  <2>1. task[t].step = "close"
    BY <1>1 DEF Registry!Task
  <2>2. Registry!Idle.step = "idle"
    BY DEF Registry!Task, Registry!Idle
  <2> QED BY <2>1, <2>2
<1>4. ASSUME NEW b \in Conn, Accept(b) \/ Writer(b) \/ SendCommand(b)
      PROVE  UNCHANGED task
  BY <1>4 DEF Accept, Writer, WriterCancelled, WriterSeesClosed,
              WriteMessage, WriteFails, SendCommand
<1>5. ASSUME NEW b \in Conn, ReadStep(b)
      PROVE  task'[t] = task[t]
  BY <1>3, <1>5 DEF ReadStep, ReadMessage, Refuse, Authenticate,
                    Registry!RegisterSession, SecondAuth, ReadEnds
<1>6. ASSUME NEW b \in Conn, HandlerStep(b)
      PROVE  task'[t] = task[t]
  <2>1. CASE Unregister(b)
    BY <1>3, <2>1 DEF Unregister, Registry!UnregisterSession
  <2>2. CASE AdjustOnline(b)
    BY <1>3, <2>2 DEF AdjustOnline, Registry!AdjustOnline
  <2>3. CASE ClosePrevious(b)
    BY <1>2, <2>3 DEF ClosePrevious, Registry!ClosePrevious
  <2>4. CASE Track(b) \/ AuthOK(b) \/ Close(b) \/ CancelWriter(b) \/ Untrack(b)
    BY <2>4 DEF Track, AuthOK, Close, CancelWriter, Untrack
  <2> QED BY <1>6, <2>1, <2>2, <2>3, <2>4 DEF HandlerStep
<1>7. CASE Stop
  BY <1>1, <1>7 DEF Stop, Shutdown, CloseListener, CloseAllConnections
<1>8. CASE UNCHANGED vars
  BY <1>1, <1>8
<1> QED BY <1>1, <1>4, <1>5, <1>6, <1>7, <1>8 DEF Next

LEMMA DisplacedStep ==
  TypeOK /\ IInv /\ DisplacedIsClosing /\ [Next]_vars => DisplacedIsClosing'
<1> SUFFICES ASSUME TypeOK, IInv, DisplacedIsClosing, [Next]_vars,
                    NEW c \in Conn, Displaced(c)'
             PROVE  (closed[c] \/ pc[c] = "close" \/ Owed(c))'
  BY DEF DisplacedIsClosing, Owed
<1> USE DEF TypeOK, Registry!TypeOK, GoTo
<1>1. CASE ~Displaced(c)
  <2>1. ASSUME NEW b \in Conn, NEW d \in Device, Authenticate(b, d)
        PROVE  Owed(c)'
    <3>1. session[d] = c
      BY <1>1, <2>1, ConnAssumption DEF Authenticate, Registry!RegisterSession,
         Displaced, Authenticated
    <3>2. b # c
      BY <1>1, <2>1, <3>1, ConnAssumption DEF Authenticate, Authenticated,
         IInv, SessionOwnership
    <3>3. Registry!AfterRegister(session[d], b) = Registry!Task("close", c)
      BY <3>1, <3>2, ConnAssumption DEF Registry!AfterRegister
    <3>4. task'[b] = Registry!Task("close", c)
      BY <2>1, <3>3 DEF Authenticate, Registry!RegisterSession
    <3> QED BY <3>4 DEF Owed
  <2>2. ASSUME NEW b \in Conn, Unregister(b)
        PROVE  pc'[c] = "close"
    <3>1. b = c
      BY <1>1, <2>2, ConnAssumption DEF Unregister, Registry!UnregisterSession,
         Displaced, Authenticated, IInv, SessionOwnership
    <3> QED BY <2>2, <3>1 DEF Unregister
  <2>3. CASE UNCHANGED <<session, deviceID>>
    BY <1>1, <2>3 DEF Displaced, Authenticated
  <2> QED BY <2>1, <2>2, <2>3, RegistryMovesOnlyThere
<1>2. CASE closed[c]
  BY <1>2, ClosedStaysClosed
<1>3. CASE Displaced(c) /\ pc[c] = "close"
  BY <1>3, OnlyCloseLeaves
<1>4. CASE Owed(c)
  BY <1>4, DebtIsSettled
<1> QED BY <1>1, <1>2, <1>3, <1>4 DEF DisplacedIsClosing, Owed

THEOREM DisplacedConnectionsAreClosed == Spec => []DisplacedIsClosing
<1>1. Init => DisplacedIsClosing
  BY ConnAssumption DEF Init, DisplacedIsClosing, Displaced, Authenticated
<1> QED BY <1>1, DisplacedStep, TypeCorrect, Invariance, PTL DEF Spec

(***************************************************************************)
(* The gauge of connected devices.  The gateway is a client of the         *)
(* registry, for whose most general client the gauge is exact.             *)
(***************************************************************************)
Exact == INSTANCE SessionRegistryProofs WITH Session <- Conn, Caller <- Conn

\* Both instances of the registry count with their own Cardinality.
LEMMA SameCardinality ==
  ASSUME NEW S
  PROVE  Exact!Cardinality(S) = Registry!Cardinality(S)
BY DEF Exact!Cardinality, Registry!Cardinality

LEMMA SameRegistry ==
  /\ Registry!Init => Exact!Init
  /\ Registry!Next => Exact!Next
  /\ Exact!OnlineCounterAccounts => Registry!OnlineCounterAccounts
<1> USE DEF Registry!Task, Exact!Task, Registry!Idle, Exact!Idle
<1>1. Registry!Init => Exact!Init
  BY DEF Registry!Init, Exact!Init
<1>2. Registry!Next => Exact!Next
  <2>1. ASSUME NEW t \in Conn, NEW d \in Device, NEW s \in Conn
        PROVE  /\ Registry!RegisterSession(t, d, s) => Exact!RegisterSession(t, d, s)
               /\ Registry!UnregisterSession(t, d, s) => Exact!UnregisterSession(t, d, s)
    BY DEF Registry!RegisterSession, Exact!RegisterSession, Registry!AfterRegister,
           Exact!AfterRegister, Registry!UnregisterSession, Exact!UnregisterSession
  <2>2. ASSUME NEW t \in Conn
        PROVE  /\ Registry!AdjustOnline(t) => Exact!AdjustOnline(t)
               /\ Registry!ClosePrevious(t) => Exact!ClosePrevious(t)
    BY DEF Registry!AdjustOnline, Exact!AdjustOnline, Registry!ClosePrevious,
           Exact!ClosePrevious
  <2> QED BY <2>1, <2>2 DEF Registry!Next, Exact!Next
<1>3. Exact!OnlineCounterAccounts => Registry!OnlineCounterAccounts
  BY SameCardinality
     DEF Exact!OnlineCounterAccounts, Registry!OnlineCounterAccounts, Exact!Online,
         Registry!Online, Exact!Owing, Registry!Owing
<1> QED BY <1>1, <1>2, <1>3

\* onlineDevices never drifts from the number of devices with a session by
\* more than the adjustments that handlers still owe, for any finite number of
\* devices and connections (RegisterSession and UnregisterSession as called
\* by handleConnection).
THEOREM GatewayGaugeIsExact ==
  ASSUME IsFiniteSet(Device), IsFiniteSet(Conn)
  PROVE  Spec => []OnlineCounterAccounts
<1>1. Exact!FiniteAssumption /\ Exact!NoSessionAssumption
  BY ConnAssumption DEF Exact!FiniteAssumption, Exact!NoSessionAssumption,
                        Exact!IsFiniteSet, IsFiniteSet
<1>2. Exact!Spec => []Exact!OnlineCounterAccounts
  BY <1>1, Exact!OnlineCounterIsExact
<1>3. Init => Registry!Init
  BY DEF Init
<1>4. IInv /\ [Next]_vars => [Exact!Next]_(Exact!registryVars)
  BY StepOnRegistry, SameRegistry DEF Registry!registryVars, Exact!registryVars
<1>5. Exact!OnlineCounterAccounts => OnlineCounterAccounts
  BY SameRegistry DEF OnlineCounterAccounts
<1> QED BY <1>2, <1>3, <1>4, <1>5, SameRegistry, Invariance, PTL DEF Spec, Exact!Spec

(***************************************************************************)
(* The gauge when the registry is quiet: only a handler inside             *)
(* RegisterSession or UnregisterSession owes an adjustment.                *)
(***************************************************************************)
TasksAreOfCalls ==
  \A c \in Conn : pc[c] \notin {"registering", "close"} => task[c] = Registry!Idle

\* The safety half of ShutdownDrains.
QuietGauge ==
  (\A c \in Conn : pc[c] \notin {"registering", "close"})
    => onlineDevices = Cardinality(Registry!Online)

LEMMA TasksStep == TypeOK /\ TasksAreOfCalls /\ [Next]_vars => TasksAreOfCalls'
<1> SUFFICES ASSUME TypeOK, TasksAreOfCalls, [Next]_vars PROVE TasksAreOfCalls'
  OBVIOUS
<1> USE DEF TypeOK, Registry!TypeOK, TasksAreOfCalls, GoTo
<1>1. ASSUME NEW c \in Conn, Accept(c) \/ Writer(c) \/ SendCommand(c)
      PROVE  TasksAreOfCalls'
  BY <1>1 DEF Accept, Writer, WriterCancelled, WriterSeesClosed, WriteMessage,
              WriteFails, SendCommand
<1>2. ASSUME NEW c \in Conn, ReadStep(c)
      PROVE  TasksAreOfCalls'
  <2>1. ASSUME NEW d \in Device, Authenticate(c, d)
        PROVE  TasksAreOfCalls'
    BY <2>1 DEF Authenticate, Registry!RegisterSession
  <2>2. CASE ReadMessage(c) \/ Refuse(c) \/ SecondAuth(c) \/ ReadEnds(c)
    BY <2>2 DEF ReadMessage, Refuse, SecondAuth, ReadEnds
  <2> QED BY <1>2, <2>1, <2>2 DEF ReadStep
<1>3. ASSUME NEW c \in Conn, HandlerStep(c)
      PROVE  TasksAreOfCalls'
  <2>1. CASE Unregister(c)
    BY <2>1 DEF Unregister, Registry!UnregisterSession
  <2>2. CASE AdjustOnline(c) \/ ClosePrevious(c)
    BY <2>2 DEF AdjustOnline, ClosePrevious, Registry!AdjustOnline,
                Registry!ClosePrevious
  <2>3. CASE Track(c) \/ AuthOK(c) \/ Close(c) \/ CancelWriter(c) \/ Untrack(c)
    BY <2>3 DEF Track, AuthOK, Close, CancelWriter, Untrack
  <2> QED BY <1>3, <2>1, <2>2, <2>3 DEF HandlerStep
<1>4. CASE Stop
  BY <1>4 DEF Stop, Shutdown, CloseListener, CloseAllConnections
<1>5. CASE UNCHANGED vars
  BY <1>5
<1> QED BY <1>1, <1>2, <1>3, <1>4, <1>5 DEF Next

LEMMA TasksInvariance == Spec => []TasksAreOfCalls
<1>1. Init => TasksAreOfCalls
  BY DEF Init, Registry!Init, TasksAreOfCalls
<1> QED BY <1>1, TasksStep, TypeCorrect, PTL DEF Spec

\* Whenever no handler is inside RegisterSession or UnregisterSession, in
\* particular once they have all returned after a shutdown, onlineDevices is
\* the number of devices with a session.
THEOREM QuietGaugeIsExact ==
  ASSUME IsFiniteSet(Device), IsFiniteSet(Conn)
  PROVE  Spec => []QuietGauge
<1>1. TasksAreOfCalls /\ TypeOK /\ OnlineCounterAccounts => QuietGauge
  <2> SUFFICES ASSUME TasksAreOfCalls, TypeOK, OnlineCounterAccounts,
                      \A c \in Conn : pc[c] \notin {"registering", "close"}
               PROVE  onlineDevices = Cardinality(Registry!Online)
    BY DEF QuietGauge
  <2>1. Registry!Owing("add") = {} /\ Registry!Owing("sub") = {}
    BY DEF TasksAreOfCalls, Registry!Owing, Registry!Idle, Registry!Task
  <2>2. Registry!Cardinality({}) = 0
    BY FS_EmptySet DEF Registry!Cardinality, Cardinality
  <2>3. IsFiniteSet(Registry!Online)
    BY FS_Subset DEF Registry!Online
  <2>4. Cardinality(Registry!Online) \in Nat
    BY <2>3, FS_CardinalityType
  <2>5. Registry!Cardinality(Registry!Online) = Cardinality(Registry!Online)
    BY DEF Registry!Cardinality, Cardinality
  <2>6. onlineDevices = Cardinality(Registry!Online) - 0 + 0
    BY <2>1, <2>2, <2>5, Zenon DEF OnlineCounterAccounts, Registry!OnlineCounterAccounts
  <2> QED BY <2>4, <2>6
<1> QED BY <1>1, TasksInvariance, TypeCorrect, GatewayGaugeIsExact, PTL

(***************************************************************************)
(* Who leaves a session behind.  OnlineMeansConnected fails when a device  *)
(* authenticates a second time; nothing else makes it fail.                *)
(***************************************************************************)
NoSecondAuth == \A c \in Conn : ~SecondAuth(c)

AuthOnceSpec == Init /\ [][Next /\ NoSecondAuth]_vars

AbortingIsAnonymous ==
  \A c \in Conn : pc[c] \in Aborting \cup {"absent", "accepted"} => ~Authenticated(c)

LEMMA AnonymousStep ==
  TypeOK /\ AbortingIsAnonymous /\ [Next /\ NoSecondAuth]_vars => AbortingIsAnonymous'
<1> SUFFICES ASSUME TypeOK, AbortingIsAnonymous, [Next /\ NoSecondAuth]_vars
             PROVE  AbortingIsAnonymous'
  OBVIOUS
<1> USE DEF TypeOK, AbortingIsAnonymous, Authenticated, GoTo, Aborting, Places, Epilogue
<1>1. ASSUME NEW c \in Conn, Accept(c) \/ Writer(c) \/ SendCommand(c)
      PROVE  AbortingIsAnonymous'
  BY <1>1 DEF Accept, Writer, WriterCancelled, WriterSeesClosed, WriteMessage,
              WriteFails, SendCommand
<1>2. ASSUME NEW c \in Conn, ReadStep(c), ~SecondAuth(c)
      PROVE  AbortingIsAnonymous'
  <2>1. ASSUME NEW d \in Device, Authenticate(c, d)
        PROVE  AbortingIsAnonymous'
    BY <2>1 DEF Authenticate
  <2>2. CASE ReadMessage(c) \/ Refuse(c) \/ ReadEnds(c)
    BY <2>2 DEF ReadMessage, Refuse, ReadEnds
  <2> QED BY <1>2, <2>1, <2>2 DEF ReadStep
<1>3. ASSUME NEW c \in Conn, HandlerStep(c)
      PROVE  AbortingIsAnonymous'
  BY <1>3 DEF HandlerStep, Track, AuthOK, Unregister, Close, CancelWriter, Untrack,
              AdjustOnline, ClosePrevious
<1>4. CASE Stop
  BY <1>4 DEF Stop, Shutdown, CloseListener, CloseAllConnections
<1>5. CASE UNCHANGED vars
  BY <1>5
<1> QED BY <1>1, <1>2, <1>3, <1>4, <1>5 DEF Next, NoSecondAuth

LEMMA AuthOnceIsASpec == AuthOnceSpec => Spec
<1>1. [Next /\ NoSecondAuth]_vars => [Next]_vars
  OBVIOUS
<1> QED BY <1>1, PTL DEF AuthOnceSpec, Spec

LEMMA AnonymousInvariance == AuthOnceSpec => []AbortingIsAnonymous
<1>1. Init => AbortingIsAnonymous
  BY DEF Init, AbortingIsAnonymous, Authenticated
<1> QED BY <1>1, AnonymousStep, AuthOnceIsASpec, TypeCorrect, PTL DEF AuthOnceSpec

\* As long as no device sends a second auth message, a device with a session
\* has a connection whose handler is running: the return from that message is
\* the only one of handleConnection's returns that leaves a session behind.
THEOREM OnlySecondAuthLeavesASession == AuthOnceSpec => []OnlineMeansConnected
<1>1. IInv /\ AbortingIsAnonymous => OnlineMeansConnected
  BY ConnAssumption
     DEF IInv, HandlerTypes, SessionOwnership, AbortingIsAnonymous, Authenticated,
         OnlineMeansConnected, Ended, Aborting, Epilogue
<1> QED BY <1>1, AnonymousInvariance, AuthOnceIsASpec, Invariance, PTL

\* Nobody stays online: when every handler has returned, no device has a
\* session and the gauge is zero.
NobodyStaysOnline ==
  (\A c \in Conn : pc[c] \in Ended \cup {"absent"})
    => (\A d \in Device : session[d] = NoSession) /\ onlineDevices = 0

\* As long as no device sends a second auth message, the end of all handlers,
\* after a shutdown or not, leaves no device online and the gauge at zero.
THEOREM EndedGatewayIsEmpty ==
  ASSUME IsFiniteSet(Device), IsFiniteSet(Conn)
  PROVE  AuthOnceSpec => []NobodyStaysOnline
<1>1. IInv /\ TypeOK /\ AbortingIsAnonymous /\ OnlineMeansConnected /\ QuietGauge
        => NobodyStaysOnline
  <2> SUFFICES ASSUME IInv, TypeOK, AbortingIsAnonymous, OnlineMeansConnected, QuietGauge,
                      \A c \in Conn : pc[c] \in Ended \cup {"absent"}
               PROVE  (\A d \in Device : session[d] = NoSession) /\ onlineDevices = 0
    BY DEF NobodyStaysOnline
  <2>1. \A d \in Device : session[d] = NoSession
    BY ConnAssumption
       DEF IInv, HandlerTypes, SessionOwnership, AbortingIsAnonymous, Authenticated,
           OnlineMeansConnected
  <2>2. Registry!Online = {}
    BY <2>1 DEF Registry!Online
  <2>3. \A c \in Conn : pc[c] \notin {"registering", "close"}
    BY DEF Ended
  <2> QED BY <2>1, <2>2, <2>3, FS_EmptySet DEF QuietGauge
<1> QED BY <1>1, OnlySecondAuthLeavesASession, QuietGaugeIsExact, AnonymousInvariance,
           AuthOnceIsASpec, TypeCorrect, Invariance, PTL
============================================================================
