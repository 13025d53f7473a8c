------------------------- MODULE MqttBrokerProofs -------------------------
(***************************************************************************)
(* For any devices, client IDs and connections: the hooks use the session  *)
(* registry as it allows, a device goes offline only on behalf of the      *)
(* client that holds its session, and a connection that is alone with its  *)
(* client ID keeps being served and online, as is one whose client and     *)
(* device only come back when their earlier connections are over.          *)
(***************************************************************************)
EXTENDS MqttBroker, FiniteSetTheorems, TLAPS

USE DEF vars, registryVars, connVars

(***************************************************************************)
(* The inductive invariant.  A binding, in the map or read from it, is the *)
(* device of some connection that authenticated with the same client ID;   *)
(* who a connection is never changes after it has authenticated; and a     *)
(* connection that is alone has read and kept its own binding.             *)
(***************************************************************************)
ConnTypes ==
  /\ session \in [Device -> Client \cup {NoSession}]
  /\ pc \in [Conn -> Places]
  /\ clientID \in [Conn -> Client \cup {NoSession}]
  /\ deviceID \in [Conn -> Device \cup {NoSession}]
  /\ binding \in [Conn -> Device \cup {NoSession}]
  /\ bindings \in [Client -> Device \cup {NoSession}]

AbsentIsUnknown ==
  \A c \in Conn :
    /\ pc[c] = "absent" =>
         clientID[c] = NoSession /\ deviceID[c] = NoSession /\ binding[c] = NoSession
    /\ pc[c] # "absent" => clientID[c] \in Client /\ deviceID[c] \in Device

Claims(k, d) == \E c \in Conn : clientID[c] = k /\ deviceID[c] = d

BindingIsClaimed ==
  /\ \A k \in Client : bindings[k] # NoSession => Claims(k, bindings[k])
  /\ \A c \in Conn : binding[c] # NoSession => Claims(clientID[c], binding[c])

AloneIsBound ==
  \A c \in Conn :
    Alone(c) =>
      /\ pc[c] \in {"authenticated", "connected", "establishing", "established", "unregistering"}
           => Served(c)
      /\ pc[c] = "establishing" => binding[c] = deviceID[c]

IInv ==
  /\ ConnTypes /\ AbsentIsUnknown /\ BindingIsClaimed
  /\ AloneIsBound /\ AloneIsOnline /\ BindingsAreReleased

LEMMA InitIInv == Init => IInv
BY NoSessionAssumption
   DEF Init, Registry!Init, IInv, ConnTypes, Places, AbsentIsUnknown,
       BindingIsClaimed, AloneIsBound, AloneIsOnline, BindingsAreReleased

(***************************************************************************)
(* A connection that authenticates: every claim stays, and it is nobody's  *)
(* until its client ID is set.                                             *)
(***************************************************************************)
LEMMA AuthenticateStep ==
  ASSUME IInv, NEW c \in Conn, NEW k \in Client, NEW d \in Device,
         OnConnectAuthenticate(c, k, d)
  PROVE  IInv'
<1> USE NoSessionAssumption
    DEF IInv, ConnTypes, OnConnectAuthenticate, GoTo
<1>1. ConnTypes'
  BY DEF Places
<1>2. AbsentIsUnknown'
  BY DEF AbsentIsUnknown
<1>3. \A j \in Client, e \in Device : Claims(j, e) => Claims(j, e)'
  BY DEF Claims, AbsentIsUnknown
<1>4. Claims(k, d)'
  BY DEF Claims
<1>5. BindingIsClaimed'
  BY <1>3, <1>4 DEF BindingIsClaimed, AbsentIsUnknown
<1>6. ASSUME NEW b \in Conn, b # c, Alone(b)', pc'[b] # "absent"
      PROVE  Alone(b) /\ clientID[b] # k
  BY <1>6 DEF Alone, AbsentIsUnknown
<1>7. AloneIsBound'
  BY <1>6 DEF AloneIsBound, Served, AbsentIsUnknown
<1>8. AloneIsOnline'
  <2> SUFFICES ASSUME NEW b \in Conn, pc'[b] = "established", Alone(b)',
                      (\A a \in Conn \ {b} : deviceID[a] # deviceID[b])'
               PROVE  session'[deviceID'[b]] = clientID'[b]
    BY DEF AloneIsOnline
  <2>1. b # c
    OBVIOUS
  <2>2. Alone(b)
    BY <1>6, <2>1
  <2>3. ASSUME NEW a \in Conn \ {b}
        PROVE  deviceID[a] # deviceID[b]
    <3>1. deviceID'[a] # deviceID'[b]
      OBVIOUS
    <3>2. pc[b] = "established" /\ deviceID'[b] = deviceID[b]
      BY <2>1
    <3>3. deviceID[b] \in Device
      BY <3>2 DEF AbsentIsUnknown
    <3> QED BY <3>1, <3>2, <3>3 DEF AbsentIsUnknown
  <2> QED BY <2>1, <2>2, <2>3 DEF AloneIsOnline
<1>9. BindingsAreReleased'
  BY DEF BindingsAreReleased, AbsentIsUnknown
<1> QED BY <1>1, <1>2, <1>5, <1>7, <1>8, <1>9

(***************************************************************************)
(* Every other step leaves alone who the connections are, and with it the  *)
(* claims.                                                                 *)
(***************************************************************************)
SameClients == UNCHANGED <<clientID, deviceID>>

LEMMA ClaimsStay ==
  ASSUME SameClients
  PROVE  /\ \A j, e : Claims(j, e)' <=> Claims(j, e)
         /\ \A c \in Conn : Alone(c)' <=> Alone(c)
BY DEF SameClients, Claims, Alone

LEMMA ReadStep ==
  ASSUME IInv, NEW c \in Conn, ReadBinding(c) \/ OnDisconnect(c)
  PROVE  IInv'
<1> USE DEF IInv, ConnTypes, ReadBinding, OnDisconnect, GoTo
<1>1. ConnTypes'
  BY DEF Places, AbsentIsUnknown
<1>2. AbsentIsUnknown'
  BY DEF AbsentIsUnknown
<1>3. BindingIsClaimed'
  BY ClaimsStay DEF BindingIsClaimed, SameClients, AbsentIsUnknown
<1>4. AloneIsBound'
  BY ClaimsStay DEF AloneIsBound, Served, SameClients
<1>5. AloneIsOnline'
  BY ClaimsStay DEF AloneIsOnline, SameClients
<1>6. BindingsAreReleased'
  BY DEF BindingsAreReleased
<1> QED BY <1>1, <1>2, <1>3, <1>4, <1>5, <1>6

LEMMA EstablishStep ==
  ASSUME IInv, NEW c \in Conn, OnSessionEstablished(c)
  PROVE  IInv'
<1> USE NoSessionAssumption
    DEF IInv, ConnTypes, OnSessionEstablished, GoTo, Registry!RegisterSession
<1>1. ConnTypes'
  BY DEF Places, AbsentIsUnknown
<1>2. AbsentIsUnknown'
  BY DEF AbsentIsUnknown
<1>3. BindingIsClaimed'
  BY ClaimsStay DEF BindingIsClaimed, SameClients
<1>4. AloneIsBound'
  BY ClaimsStay DEF AloneIsBound, Served, SameClients
<1>5. ASSUME NEW b \in Conn, pc'[b] = "established", Alone(b),
             \A a \in Conn \ {b} : deviceID[a] # deviceID[b]
      PROVE  session'[deviceID[b]] = clientID[b]
  <2>1. CASE b = c
    <3>1. binding[c] = deviceID[c] /\ deviceID[c] \in Device
      BY <1>5, <2>1 DEF AloneIsBound, AbsentIsUnknown
    <3> QED BY <2>1, <3>1
  <2>2. CASE b # c
    <3>1. binding[c] # deviceID[b] \/ binding[c] = NoSession
      BY <1>5, <2>2 DEF BindingIsClaimed, Claims, Alone
    <3>2. session[deviceID[b]] = clientID[b]
      BY <1>5, <2>2 DEF AloneIsOnline
    <3>3. deviceID[b] \in Device
      BY <1>5, <2>2 DEF AbsentIsUnknown
    <3>4. session'[deviceID[b]] = session[deviceID[b]]
      BY <3>1, <3>3
    <3> QED BY <3>2, <3>4
  <2> QED BY <2>1, <2>2
<1>6. AloneIsOnline'
  BY <1>5, ClaimsStay DEF AloneIsOnline, SameClients
<1>7. BindingsAreReleased'
  BY DEF BindingsAreReleased
<1> QED BY <1>1, <1>2, <1>3, <1>4, <1>6, <1>7

LEMMA UnregisterStep ==
  ASSUME IInv, NEW c \in Conn, Unregister(c)
  PROVE  IInv'
<1> USE NoSessionAssumption
    DEF IInv, ConnTypes, Unregister, GoTo, Registry!UnregisterSession
<1>1. ConnTypes'
  BY DEF Places
<1>2. AbsentIsUnknown'
  BY DEF AbsentIsUnknown
<1>3. BindingIsClaimed'
  BY ClaimsStay DEF BindingIsClaimed, SameClients
<1>4. AloneIsBound'
  BY ClaimsStay DEF AloneIsBound, Served, SameClients
<1>7. ASSUME NEW b \in Conn, pc'[b] = "established", Alone(b),
             \A a \in Conn \ {b} : deviceID[a] # deviceID[b]
      PROVE  session'[deviceID[b]] = clientID[b]
  <2>1. b # c /\ clientID[b] # clientID[c]
    BY <1>7 DEF Alone
  <2>2. session[deviceID[b]] = clientID[b]
    BY <1>7, <2>1 DEF AloneIsOnline
  <2>3. session'[deviceID[b]] = session[deviceID[b]]
    BY <1>7, <2>1, <2>2 DEF AbsentIsUnknown
  <2> QED BY <2>2, <2>3
<1>5. AloneIsOnline'
  BY <1>7, ClaimsStay DEF AloneIsOnline, SameClients
<1>6. BindingsAreReleased'
  BY DEF BindingsAreReleased
<1> QED BY <1>1, <1>2, <1>3, <1>4, <1>5, <1>6

LEMMA UnbindStep ==
  ASSUME IInv, NEW c \in Conn, Unbind(c)
  PROVE  IInv'
<1> USE NoSessionAssumption DEF IInv, ConnTypes, Unbind, GoTo
<1>1. ConnTypes'
  BY DEF Places
<1>2. AbsentIsUnknown'
  BY DEF AbsentIsUnknown
<1>3. BindingIsClaimed'
  BY ClaimsStay DEF BindingIsClaimed, SameClients
<1>4. AloneIsBound'
  BY ClaimsStay DEF AloneIsBound, Served, SameClients, Alone
<1>5. AloneIsOnline'
  BY ClaimsStay DEF AloneIsOnline, SameClients
<1>6. BindingsAreReleased'
  BY DEF BindingsAreReleased
<1> QED BY <1>1, <1>2, <1>3, <1>4, <1>5, <1>6

LEMMA OtherStep ==
  ASSUME IInv, NEW c \in Conn,
         TakeOver(c) \/ ConnackFails(c) \/ AdjustOnline(c) \/ ClosePrevious(c)
  PROVE  IInv'
<1>1. /\ UNCHANGED <<session, clientID, deviceID, binding, bindings>>
      /\ \/ UNCHANGED pc
         \/ pc[c] = "authenticated" /\ pc' = [pc EXCEPT ![c] = "connected"]
         \/ /\ pc[c] \in {"authenticated", "connected"}
            /\ pc' = [pc EXCEPT ![c] = "aborted"]
  BY DEF TakeOver, ConnackFails, GoTo, AdjustOnline, Registry!AdjustOnline,
         ClosePrevious, Registry!ClosePrevious
<1> USE <1>1 DEF IInv, ConnTypes
<1>2. ConnTypes'
  BY DEF Places
<1>3. AbsentIsUnknown'
  BY DEF AbsentIsUnknown
<1>4. BindingIsClaimed'
  BY ClaimsStay DEF BindingIsClaimed, SameClients
<1>5. AloneIsBound'
  BY ClaimsStay DEF AloneIsBound, Served, SameClients
<1>6. AloneIsOnline'
  BY ClaimsStay DEF AloneIsOnline, SameClients
<1>7. BindingsAreReleased'
  BY DEF BindingsAreReleased
<1> QED BY <1>2, <1>3, <1>4, <1>5, <1>6, <1>7

LEMMA StutterStep == IInv /\ UNCHANGED vars => IInv'
BY DEF IInv, ConnTypes, AbsentIsUnknown, BindingIsClaimed, Claims, AloneIsBound,
       Alone, Served, AloneIsOnline, BindingsAreReleased

LEMMA Invariance == Spec => []IInv
<1>1. IInv /\ [Next]_vars => IInv'
  BY AuthenticateStep, ReadStep, EstablishStep, UnregisterStep, UnbindStep,
     OtherStep, StutterStep DEF Next
<1> QED BY <1>1, InitIInv, PTL DEF Spec

(***************************************************************************)
(* AloneIsServed: however other devices and clients come and go, what a    *)
(* client publishes that shares its ID with nobody is taken in.            *)
(***************************************************************************)
THEOREM AloneClientsAreServed == Spec => []AloneIsServed
<1>1. IInv => AloneIsServed
  BY DEF IInv, AloneIsBound, AloneIsServed
<1> QED BY <1>1, Invariance, PTL

(***************************************************************************)
(* AloneIsOnline: if it shares its device with nobody either, that device  *)
(* is online as long as the connection is there.                           *)
(***************************************************************************)
THEOREM AloneClientsAreOnline == Spec => []AloneIsOnline
<1>1. IInv => AloneIsOnline
  BY DEF IInv
<1> QED BY <1>1, Invariance, PTL

(***************************************************************************)
(* BindingsAreReleased: a binding outlives the connections of its client   *)
(* only if one of them ended before the broker established it.             *)
(***************************************************************************)
THEOREM BindingsDoNotPileUp == Spec => []BindingsAreReleased
<1>1. IInv => BindingsAreReleased
  BY DEF IInv
<1> QED BY <1>1, Invariance, PTL

(***************************************************************************)
(* What a step does to the registry.                                       *)
(***************************************************************************)
LEMMA StepOnRegistry ==
  ASSUME IInv, NEW c \in Conn,
         OnSessionEstablished(c) \/ Unregister(c) \/ AdjustOnline(c) \/ ClosePrevious(c)
  PROVE  Registry!Next \/ UNCHANGED registryVars
<1> USE DEF IInv, ConnTypes, AbsentIsUnknown
<1>1. CASE OnSessionEstablished(c)
  BY <1>1 DEF OnSessionEstablished, GoTo, Registry!Next
<1>2. CASE Unregister(c)
  BY <1>2 DEF Unregister, GoTo, Registry!Next
<1>3. CASE AdjustOnline(c) \/ ClosePrevious(c)
  BY <1>3 DEF AdjustOnline, ClosePrevious, Registry!Next
<1> QED BY <1>1, <1>2, <1>3

LEMMA StepsOnRegistry ==
  IInv /\ [Next]_vars => [Registry!Next]_(Registry!registryVars)
<1> SUFFICES ASSUME IInv, Next PROVE Registry!Next \/ UNCHANGED registryVars
  BY DEF Registry!registryVars
<1>1. ASSUME NEW c \in Conn,
             \/ \E k \in Client, d \in Device : OnConnectAuthenticate(c, k, d)
             \/ TakeOver(c) \/ ConnackFails(c) \/ ReadBinding(c)
             \/ OnDisconnect(c) \/ Unbind(c)
      PROVE  UNCHANGED registryVars
  BY <1>1 DEF OnConnectAuthenticate, TakeOver, ConnackFails, ReadBinding,
              OnDisconnect, Unbind
<1> QED BY <1>1, StepOnRegistry DEF Next

(***************************************************************************)
(* ImplementsRegistry: the hooks are one of the registry's clients, so     *)
(* what is proved of its gauge holds for MQTT devices too.                 *)
(***************************************************************************)
THEOREM BrokerImplementsRegistry == Spec => ImplementsRegistry
<1>1. Init => Registry!Init
  BY DEF Init
<1> QED BY <1>1, StepsOnRegistry, Invariance, PTL
        DEF Spec, ImplementsRegistry, Registry!Spec

(***************************************************************************)
(* OnlyItsClientLeaves: a device goes offline only in OnDisconnect of a    *)
(* connection whose client ID its session has.                             *)
(***************************************************************************)
THEOREM OfflineByItsClient == Spec => OnlyItsClientLeaves
<1> DEFINE Offline ==
      \A d \in Device :
        session[d] # NoSession /\ session'[d] = NoSession =>
          \E c \in Conn : pc[c] = "unregistering" /\ clientID[c] = session[d]
<1>1. IInv /\ [Next]_vars => [Offline]_vars
  <2> SUFFICES ASSUME IInv, Next, NEW d \in Device,
                      session[d] # NoSession, session'[d] = NoSession
               PROVE  \E c \in Conn : pc[c] = "unregistering" /\ clientID[c] = session[d]
    OBVIOUS
  <2>1. ASSUME NEW c \in Conn,
               \/ \E k \in Client, e \in Device : OnConnectAuthenticate(c, k, e)
               \/ TakeOver(c) \/ ConnackFails(c) \/ ReadBinding(c)
               \/ OnDisconnect(c) \/ Unbind(c)
               \/ AdjustOnline(c) \/ ClosePrevious(c)
        PROVE  session' = session
    BY <2>1 DEF OnConnectAuthenticate, TakeOver, ConnackFails, ReadBinding,
                OnDisconnect, Unbind, AdjustOnline, Registry!AdjustOnline,
                ClosePrevious, Registry!ClosePrevious
  <2>2. ASSUME NEW c \in Conn, OnSessionEstablished(c)
        PROVE  session'[d] # NoSession
    BY <2>2, NoSessionAssumption
       DEF OnSessionEstablished, GoTo, Registry!RegisterSession, IInv, ConnTypes,
           AbsentIsUnknown
  <2>3. ASSUME NEW c \in Conn, Unregister(c)
        PROVE  pc[c] = "unregistering" /\ clientID[c] = session[d]
    BY <2>3 DEF Unregister, GoTo, Registry!UnregisterSession, IInv, ConnTypes
  <2> QED BY <2>1, <2>2, <2>3 DEF Next
<1> QED BY <1>1, Invariance, PTL DEF Spec, OnlyItsClientLeaves

(***************************************************************************)
(* The gauge of connected devices.  The hooks are a client of the          *)
(* registry, for whose most general client the gauge is exact.             *)
(***************************************************************************)
Exact == INSTANCE SessionRegistryProofs WITH Session <- Client, Caller <- Conn

\* Both instances of the registry count with their own Cardinality.
LEMMA SameCardinality ==
  ASSUME NEW S
  PROVE  Exact!Cardinality(S) = Registry!Cardinality(S)
BY DEF Exact!Cardinality, Registry!Cardinality

LEMMA SameRegistry ==
  /\ Registry!Init => Exact!Init
  /\ Registry!Next => Exact!Next
  /\ Exact!OnlineCounterAccounts => Registry!OnlineCounterAccounts
<1> USE DEF Registry!Task, Exact!Task, Registry!Idle, Exact!Idle
<1>1. Registry!Init => Exact!Init
  BY DEF Registry!Init, Exact!Init
<1>2. Registry!Next => Exact!Next
  <2>1. ASSUME NEW t \in Conn, NEW d \in Device, NEW s \in Client
        PROVE  /\ Registry!RegisterSession(t, d, s) => Exact!RegisterSession(t, d, s)
               /\ Registry!UnregisterSession(t, d, s) => Exact!UnregisterSession(t, d, s)
    BY DEF Registry!RegisterSession, Exact!RegisterSession, Registry!AfterRegister,
           Exact!AfterRegister, Registry!UnregisterSession, Exact!UnregisterSession
  <2>2. ASSUME NEW t \in Conn
        PROVE  /\ Registry!AdjustOnline(t) => Exact!AdjustOnline(t)
               /\ Registry!ClosePrevious(t) => Exact!ClosePrevious(t)
    BY DEF Registry!AdjustOnline, Exact!AdjustOnline, Registry!ClosePrevious,
           Exact!ClosePrevious
  <2> QED BY <2>1, <2>2 DEF Registry!Next, Exact!Next
<1>3. Exact!OnlineCounterAccounts => Registry!OnlineCounterAccounts
  BY SameCardinality
     DEF Exact!OnlineCounterAccounts, Registry!OnlineCounterAccounts, Exact!Online,
         Registry!Online, Exact!Owing, Registry!Owing
<1> QED BY <1>1, <1>2, <1>3

\* What is proved of the registry's most general client holds of the hooks.
LEMMA ExactRegistry == Spec => Exact!Spec
<1>1. Init => Registry!Init
  BY DEF Init
<1>2. IInv /\ [Next]_vars => [Exact!Next]_(Exact!registryVars)
  BY StepsOnRegistry, SameRegistry DEF Registry!registryVars, Exact!registryVars
<1> QED BY <1>1, <1>2, SameRegistry, Invariance, PTL DEF Spec, Exact!Spec

\* onlineDevices never drifts from the number of devices with a session by
\* more than the adjustments that the hooks still owe, for any finite number
\* of devices and connections and any client IDs (OnSessionEstablished and
\* OnDisconnect, which call the registry once for each connection).
THEOREM BrokerGaugeIsExact ==
  ASSUME IsFiniteSet(Device), IsFiniteSet(Conn)
  PROVE  Spec => []Registry!OnlineCounterAccounts
<1>1. Exact!FiniteAssumption /\ Exact!NoSessionAssumption
  BY NoSessionAssumption DEF Exact!FiniteAssumption, Exact!NoSessionAssumption,
                             Exact!IsFiniteSet, IsFiniteSet
<1>2. Exact!Spec => []Exact!OnlineCounterAccounts
  BY <1>1, Exact!OnlineCounterIsExact
<1> QED BY <1>2, SameRegistry, ExactRegistry, PTL

(***************************************************************************)
(* TypeOK, of which the registry's part is the registry's.                 *)
(***************************************************************************)
THEOREM TypeCorrect == Spec => []TypeOK
<1> DEFINE StoppedType == stopped \in [Conn -> BOOLEAN]
<1>1. Init => StoppedType
  BY DEF Init
<1>2. IInv /\ StoppedType /\ [Next]_vars => StoppedType'
  BY DEF Next, OnConnectAuthenticate, TakeOver, ConnackFails, ReadBinding,
         OnSessionEstablished, OnDisconnect, Unregister, Unbind, AdjustOnline, ClosePrevious
<1>3. Exact!TypeOK => Registry!TypeOK
  BY DEF Exact!TypeOK, Registry!TypeOK, Exact!Tasks, Registry!Tasks, Exact!Idle,
         Registry!Idle, Exact!Task, Registry!Task
<1>4. IInv /\ StoppedType /\ Registry!TypeOK => TypeOK
  BY DEF IInv, ConnTypes, TypeOK
<1>5. Spec => []StoppedType
  BY <1>1, <1>2, Invariance, PTL DEF Spec
<1>6. Spec => []Exact!TypeOK
  BY ExactRegistry, Exact!TypeCorrect, PTL
<1> HIDE DEF StoppedType
<1> QED BY <1>3, <1>4, <1>5, <1>6, Invariance, PTL

(***************************************************************************)
(* Clients that come back in turn.  EstablishedIsServed fails when a client *)
(* authenticates before the broker has run OnDisconnect for the connection *)
(* that it comes back from; nothing else makes it fail.                    *)
(***************************************************************************)
Over(c) == pc[c] \in {"aborted", "gone"}
Live(c) == pc[c] \notin {"absent", "aborted", "gone"}

ClientsInTurn ==
  \A c \in Conn, k \in Client, d \in Device :
    OnConnectAuthenticate(c, k, d) => \A b \in Conn : clientID[b] = k => Over(b)

InTurnSpec == Init /\ [][Next /\ ClientsInTurn]_vars

\* A client ID has one connection at a time, which keeps its binding.
InTurnInv ==
  \A c \in Conn : Live(c) =>
    /\ Served(c)
    /\ \A b \in Conn : Live(b) /\ clientID[b] = clientID[c] => b = c

\* Steps that leave what InTurnInv speaks of alone, or end a connection.
LEMMA NobodyNewComes ==
  ASSUME IInv, Next, ~ \E c \in Conn, k \in Client, d \in Device : OnConnectAuthenticate(c, k, d)
  PROVE  /\ UNCHANGED <<clientID, deviceID>>
         /\ \A c \in Conn : Live(c)' => Live(c)
         /\ \/ UNCHANGED bindings
            \/ \E c \in Conn : /\ Live(c) /\ ~Live(c)'
                               /\ bindings' = [bindings EXCEPT ![clientID[c]] = NoSession]
<1> USE DEF IInv, ConnTypes, GoTo, Live
<1>1. ASSUME NEW c \in Conn, TakeOver(c) \/ ConnackFails(c) \/ ReadBinding(c)
                              \/ OnSessionEstablished(c) \/ OnDisconnect(c) \/ Unregister(c)
                              \/ AdjustOnline(c) \/ ClosePrevious(c)
      PROVE  UNCHANGED <<clientID, deviceID, bindings>> /\ \A b \in Conn : Live(b)' => Live(b)
  BY <1>1 DEF TakeOver, ConnackFails, ReadBinding, OnSessionEstablished, OnDisconnect,
              Unregister, AdjustOnline, ClosePrevious
<1>2. ASSUME NEW c \in Conn, Unbind(c)
      PROVE  /\ UNCHANGED <<clientID, deviceID>>
             /\ Live(c) /\ ~Live(c)' /\ \A b \in Conn : Live(b)' => Live(b)
             /\ bindings' = [bindings EXCEPT ![clientID[c]] = NoSession]
  BY <1>2 DEF Unbind
<1> QED BY <1>1, <1>2 DEF Next

LEMMA InTurnStep == IInv /\ InTurnInv /\ [Next /\ ClientsInTurn]_vars => InTurnInv'
<1> SUFFICES ASSUME IInv, InTurnInv, [Next /\ ClientsInTurn]_vars PROVE InTurnInv'
  OBVIOUS
<1> USE DEF InTurnInv
<1>1. ASSUME NEW c \in Conn, NEW k \in Client, NEW d \in Device,
             OnConnectAuthenticate(c, k, d), ClientsInTurn
      PROVE  InTurnInv'
  <2>1. \A b \in Conn : clientID[b] = k => ~Live(b)
    BY <1>1 DEF ClientsInTurn, Over, Live
  <2>2. /\ clientID'[c] = k /\ deviceID'[c] = d /\ bindings'[k] = d
        /\ \A b \in Conn : b # c => /\ clientID'[b] = clientID[b] /\ deviceID'[b] = deviceID[b]
                                    /\ Live(b)' = Live(b)
        /\ \A j \in Client : j # k => bindings'[j] = bindings[j]
    BY <1>1 DEF OnConnectAuthenticate, GoTo, IInv, ConnTypes, Live
  <2>3. \A b \in Conn : Live(b) => clientID[b] \in Client
    BY DEF IInv, AbsentIsUnknown, Live
  <2>4. ASSUME NEW b \in Conn, Live(b)', b # c
        PROVE  Served(b)' /\ clientID'[b] # k
    BY <2>1, <2>2, <2>3, <2>4 DEF Served
  <2>5. Served(c)'
    BY <2>2 DEF Served
  <2> QED BY <2>2, <2>4, <2>5
<1>2. ASSUME Next, ~ \E c \in Conn, k \in Client, d \in Device : OnConnectAuthenticate(c, k, d)
      PROVE  InTurnInv'
  <2>1. \A c \in Conn : Live(c) => clientID[c] \in Client
    BY DEF IInv, AbsentIsUnknown, Live
  <2>2. ASSUME NEW c \in Conn, Live(c)'
        PROVE  bindings'[clientID[c]] = bindings[clientID[c]]
    BY <1>2, <2>1, <2>2, NobodyNewComes DEF IInv, ConnTypes
  <2> QED BY <1>2, <2>2, NobodyNewComes DEF Served
<1>3. CASE UNCHANGED vars
  BY <1>3 DEF Live, Served
<1> QED BY <1>1, <1>2, <1>3

LEMMA InTurnIsASpec == InTurnSpec => Spec
<1>1. [Next /\ ClientsInTurn]_vars => [Next]_vars
  OBVIOUS
<1> QED BY <1>1, PTL DEF InTurnSpec, Spec

LEMMA InTurnInvariance == InTurnSpec => []InTurnInv
<1>1. Init => InTurnInv
  BY DEF Init, InTurnInv, Live
<1> QED BY <1>1, InTurnStep, InTurnIsASpec, Invariance, PTL DEF InTurnSpec

(***************************************************************************)
(* If a client only authenticates when the connections of its client ID    *)
(* are over, every established connection is served, also one whose client *)
(* was here before: the OnDisconnect that comes after the next             *)
(* OnConnectAuthenticate is all that takes a binding from a connection.    *)
(***************************************************************************)
THEOREM ClientsInTurnAreServed == InTurnSpec => []EstablishedIsServed
<1>1. InTurnInv => EstablishedIsServed
  BY DEF InTurnInv, EstablishedIsServed, Live
<1> QED BY <1>1, InTurnInvariance, PTL

(***************************************************************************)
(* Devices that come back in turn, too.                                    *)
(***************************************************************************)
DevicesInTurn ==
  \A c \in Conn, k \in Client, d \in Device :
    OnConnectAuthenticate(c, k, d) => \A b \in Conn : deviceID[b] = d => Over(b)

BothInTurnSpec == Init /\ [][Next /\ ClientsInTurn /\ DevicesInTurn]_vars

Serving(c) == pc[c] \in {"established", "unregistering"}

HasRead(c) == pc[c] \in {"establishing", "established", "unregistering", "unbinding"}

DeviceInv ==
  /\ \A c \in Conn : Live(c) => \A b \in Conn : Live(b) /\ deviceID[b] = deviceID[c] => b = c
  /\ \A c \in Conn : HasRead(c) => binding[c] = deviceID[c]
  /\ \A c \in Conn : Serving(c) => session[deviceID[c]] = clientID[c]
  /\ \A d \in Device : session[d] # NoSession => \E c \in Conn : Serving(c) /\ deviceID[c] = d

\* A device is online, with a client, exactly while a connection of that
\* device and client is established or about to unregister.
OnlineMeansEstablished ==
  \A d \in Device, k \in Client :
    session[d] = k <=> \E c \in Conn : Serving(c) /\ deviceID[c] = d /\ clientID[c] = k

LEMMA DeviceAuthenticates ==
  ASSUME IInv, DeviceInv, DevicesInTurn,
         NEW c \in Conn, NEW k \in Client, NEW d \in Device, OnConnectAuthenticate(c, k, d)
  PROVE  DeviceInv'
<1>1. \A b \in Conn : deviceID[b] = d => ~Live(b)
  BY DEF DevicesInTurn, Over, Live
<1>2. /\ pc[c] = "absent" /\ pc'[c] = "authenticated" /\ deviceID'[c] = d
      /\ \A b \in Conn : b # c => /\ clientID'[b] = clientID[b] /\ deviceID'[b] = deviceID[b]
                                  /\ pc'[b] = pc[b]
      /\ UNCHANGED <<session, binding>>
  BY DEF OnConnectAuthenticate, GoTo, IInv, ConnTypes
<1>3. ~Serving(c) /\ ~Serving(c)' /\ ~HasRead(c)'
  BY <1>2 DEF Serving, HasRead
<1>4. \A b \in Conn : b # c => /\ Serving(b)' = Serving(b) /\ HasRead(b)' = HasRead(b)
                               /\ Live(b)' = Live(b)
  BY <1>2 DEF Serving, HasRead, Live
<1> QED BY <1>1, <1>2, <1>3, <1>4 DEF DeviceInv

LEMMA DeviceMoves ==
  ASSUME IInv, InTurnInv, DeviceInv, NEW c \in Conn,
         TakeOver(c) \/ ConnackFails(c) \/ ReadBinding(c) \/ OnDisconnect(c) \/ Unbind(c)
           \/ AdjustOnline(c) \/ ClosePrevious(c)
  PROVE  DeviceInv'
<1> USE DEF IInv, ConnTypes, GoTo
<1>1. /\ UNCHANGED <<session, clientID, deviceID>>
      /\ \A b \in Conn : Live(b)' => Live(b)
      /\ \A b \in Conn : Serving(b)' = Serving(b)
      /\ \A b \in Conn : HasRead(b)' =>
           \/ HasRead(b) /\ binding'[b] = binding[b]
           \/ Live(b) /\ binding'[b] = bindings[clientID[b]]
  BY DEF TakeOver, ConnackFails, ReadBinding, OnDisconnect, Unbind, AdjustOnline,
         ClosePrevious, Registry!AdjustOnline, Registry!ClosePrevious, Live, Serving, HasRead
<1>2. \A b \in Conn : Live(b) => bindings[clientID[b]] = deviceID[b]
  BY DEF InTurnInv, Served
<1> QED BY <1>1, <1>2 DEF DeviceInv

LEMMA DeviceRegisters ==
  ASSUME IInv, DeviceInv, NEW c \in Conn, OnSessionEstablished(c) \/ Unregister(c)
  PROVE  DeviceInv'
<1> USE DEF IInv, ConnTypes, GoTo
<1>1. /\ binding[c] = deviceID[c] /\ deviceID[c] \in Device /\ clientID[c] \in Client
      /\ deviceID[c] # NoSession
  BY NoSessionAssumption DEF OnSessionEstablished, Unregister, DeviceInv, HasRead, AbsentIsUnknown
<1>2. /\ UNCHANGED <<clientID, deviceID, binding>> /\ Live(c)
      /\ \A b \in Conn : b # c => pc'[b] = pc[b]
  BY DEF OnSessionEstablished, Unregister, Live
<1>3. \A b \in Conn : /\ Live(b)' = Live(b) /\ HasRead(b)' = HasRead(b)
                      /\ b # c => Serving(b)' = Serving(b)
  BY DEF OnSessionEstablished, Unregister, Live, HasRead, Serving
<1>4. \A b \in Conn : Serving(b) /\ deviceID[b] = deviceID[c] => b = c
  BY <1>2 DEF DeviceInv, Serving, Live
<1>5. CASE OnSessionEstablished(c)
  <2>1. /\ session'[deviceID[c]] = clientID[c] /\ Serving(c)'
        /\ \A d \in Device : d # deviceID[c] => session'[d] = session[d]
    BY <1>1, <1>5 DEF OnSessionEstablished, Registry!RegisterSession, Serving
  <2>2. \A b \in Conn : Serving(b) => deviceID[b] \in Device
    BY DEF AbsentIsUnknown, Serving
  <2>3. ~Serving(c)
    BY <1>5 DEF OnSessionEstablished, Serving
  <2> QED BY <1>2, <1>3, <1>4, <2>1, <2>2, <2>3 DEF DeviceInv
<1>6. CASE Unregister(c)
  <2>1. session[deviceID[c]] = clientID[c] /\ Serving(c) /\ ~Serving(c)'
    BY <1>6 DEF Unregister, DeviceInv, Serving
  <2>2. /\ session'[deviceID[c]] = NoSession
        /\ \A d \in Device : d # deviceID[c] => session'[d] = session[d]
    BY <1>1, <1>6, <2>1 DEF Unregister, Registry!UnregisterSession
  <2>3. \A b \in Conn : Serving(b) => deviceID[b] \in Device
    BY DEF AbsentIsUnknown, Serving
  <2> QED BY <1>2, <1>3, <1>4, <2>1, <2>2, <2>3 DEF DeviceInv
<1> QED BY <1>5, <1>6

LEMMA DeviceStep ==
  IInv /\ InTurnInv /\ DeviceInv /\ [Next /\ ClientsInTurn /\ DevicesInTurn]_vars => DeviceInv'
<1>1. IInv /\ InTurnInv /\ DeviceInv /\ UNCHANGED vars => DeviceInv'
  BY DEF DeviceInv, Live, Serving, HasRead
<1> QED BY <1>1, DeviceAuthenticates, DeviceMoves, DeviceRegisters DEF Next

LEMMA DeviceInvariance == BothInTurnSpec => [](IInv /\ InTurnInv /\ DeviceInv)
<1>1. Init => DeviceInv
  BY DEF Init, Registry!Init, DeviceInv, Live, Serving, HasRead
<1>2. [Next /\ ClientsInTurn /\ DevicesInTurn]_vars => [Next /\ ClientsInTurn]_vars
  OBVIOUS
<1>3. BothInTurnSpec => InTurnSpec
  BY <1>2, PTL DEF BothInTurnSpec, InTurnSpec
<1> QED BY <1>1, <1>3, DeviceStep, InTurnInvariance, InTurnIsASpec, Invariance, PTL
        DEF BothInTurnSpec

(***************************************************************************)
(* If the connections of a device, too, are over when it authenticates     *)
(* again, a device is online exactly while one of its connections is       *)
(* established: OnSessionEstablished and OnDisconnect are then a bracket   *)
(* that neither loses a session nor leaves one behind.                     *)
(***************************************************************************)
THEOREM DevicesInTurnAreOnline == BothInTurnSpec => []OnlineMeansEstablished
<1>1. IInv /\ DeviceInv => OnlineMeansEstablished
  <2> SUFFICES ASSUME IInv, DeviceInv, NEW d \in Device, NEW k \in Client
               PROVE  session[d] = k <=>
                        \E c \in Conn : Serving(c) /\ deviceID[c] = d /\ clientID[c] = k
    BY DEF OnlineMeansEstablished
  <2>1. ASSUME session[d] = k
        PROVE  \E c \in Conn : Serving(c) /\ deviceID[c] = d /\ clientID[c] = k
    BY <2>1, NoSessionAssumption DEF DeviceInv
  <2> QED BY <2>1 DEF DeviceInv
<1> QED BY <1>1, DeviceInvariance, PTL

(***************************************************************************)
(* The gauge when no connection is left: only a connection inside          *)
(* OnSessionEstablished or OnDisconnect owes an adjustment.                *)
(***************************************************************************)
TasksAreOfCalls ==
  \A c \in Conn : pc[c] \notin {"established", "unbinding"} => task[c] = Registry!Idle

NoConnection == \A c \in Conn : ~Live(c)

\* The gauge counts the sessions.
EmptyGauge == NoConnection => onlineDevices = Cardinality(Registry!Online)

\* No session survives its connections.
NobodyStaysOnline ==
  NoConnection => (\A d \in Device : session[d] = NoSession) /\ onlineDevices = 0

LEMMA TasksStep == TypeOK /\ TasksAreOfCalls /\ [Next]_vars => TasksAreOfCalls'
<1> SUFFICES ASSUME TypeOK, TasksAreOfCalls, [Next]_vars PROVE TasksAreOfCalls'
  OBVIOUS
<1> USE DEF TypeOK, Registry!TypeOK, TasksAreOfCalls, GoTo
<1>1. ASSUME NEW c \in Conn, OnSessionEstablished(c) \/ Unregister(c)
      PROVE  TasksAreOfCalls'
  BY <1>1 DEF OnSessionEstablished, Unregister, Registry!RegisterSession,
              Registry!UnregisterSession
<1>2. ASSUME NEW c \in Conn, AdjustOnline(c) \/ ClosePrevious(c)
      PROVE  TasksAreOfCalls'
  BY <1>2 DEF AdjustOnline, ClosePrevious, Registry!AdjustOnline, Registry!ClosePrevious
<1>3. ASSUME NEW c \in Conn, NEW k \in Client, NEW d \in Device, OnConnectAuthenticate(c, k, d)
      PROVE  TasksAreOfCalls'
  BY <1>3 DEF OnConnectAuthenticate
<1>4. ASSUME NEW c \in Conn,
             TakeOver(c) \/ ConnackFails(c) \/ ReadBinding(c) \/ OnDisconnect(c) \/ Unbind(c)
      PROVE  TasksAreOfCalls'
  BY <1>4 DEF TakeOver, ConnackFails, ReadBinding, OnDisconnect, Unbind
<1>5. CASE UNCHANGED vars
  BY <1>5
<1> QED BY <1>1, <1>2, <1>3, <1>4, <1>5 DEF Next

LEMMA TasksInvariance == Spec => []TasksAreOfCalls
<1>1. Init => TasksAreOfCalls
  BY DEF Init, Registry!Init, TasksAreOfCalls
<1> QED BY <1>1, TasksStep, TypeCorrect, PTL DEF Spec

(***************************************************************************)
(* When no connection is left, onlineDevices is the number of devices with *)
(* a session: nothing that OnSessionEstablished or OnDisconnect decided is *)
(* left to be counted.                                                     *)
(***************************************************************************)
THEOREM EmptyBrokerGaugeIsExact ==
  ASSUME IsFiniteSet(Device), IsFiniteSet(Conn)
  PROVE  Spec => []EmptyGauge
<1>1. TasksAreOfCalls /\ TypeOK /\ Registry!OnlineCounterAccounts => EmptyGauge
  <2> SUFFICES ASSUME TasksAreOfCalls, TypeOK, Registry!OnlineCounterAccounts, NoConnection
               PROVE  onlineDevices = Cardinality(Registry!Online)
    BY DEF EmptyGauge
  <2>1. Registry!Owing("add") = {} /\ Registry!Owing("sub") = {}
    BY DEF TasksAreOfCalls, NoConnection, Live, Registry!Owing, Registry!Idle, Registry!Task
  <2>2. Registry!Cardinality({}) = 0
    BY FS_EmptySet DEF Registry!Cardinality, Cardinality
  <2>3. IsFiniteSet(Registry!Online)
    BY FS_Subset DEF Registry!Online
  <2>4. Cardinality(Registry!Online) \in Nat
    BY <2>3, FS_CardinalityType
  <2>5. Registry!Cardinality(Registry!Online) = Cardinality(Registry!Online)
    BY DEF Registry!Cardinality, Cardinality
  <2>6. onlineDevices = Cardinality(Registry!Online) - 0 + 0
    BY <2>1, <2>2, <2>5, Zenon DEF Registry!OnlineCounterAccounts
  <2> QED BY <2>4, <2>6
<1> QED BY <1>1, TasksInvariance, TypeCorrect, BrokerGaugeIsExact, PTL

(***************************************************************************)
(* If clients and devices come back in turn, nobody stays online: when no  *)
(* connection is left, no device has a session and the gauge is zero.      *)
(* OnDisconnect has unregistered whatever OnSessionEstablished registered. *)
(***************************************************************************)
THEOREM EmptyBrokerIsOffline ==
  ASSUME IsFiniteSet(Device), IsFiniteSet(Conn)
  PROVE  BothInTurnSpec => []NobodyStaysOnline
<1>1. DeviceInv /\ EmptyGauge => NobodyStaysOnline
  <2> SUFFICES ASSUME DeviceInv, EmptyGauge, NoConnection
               PROVE  (\A d \in Device : session[d] = NoSession) /\ onlineDevices = 0
    BY DEF NobodyStaysOnline
  <2>1. \A d \in Device : session[d] = NoSession
    BY DEF DeviceInv, NoConnection, Serving, Live
  <2>2. Registry!Online = {}
    BY <2>1 DEF Registry!Online
  <2> QED BY <2>1, <2>2, FS_EmptySet DEF EmptyGauge
<1>2. [Next /\ ClientsInTurn /\ DevicesInTurn]_vars => [Next]_vars
  OBVIOUS
<1>3. BothInTurnSpec => Spec
  BY <1>2, PTL DEF BothInTurnSpec, Spec
<1> QED BY <1>1, <1>3, DeviceInvariance, EmptyBrokerGaugeIsExact, PTL

============================================================================
