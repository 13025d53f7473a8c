------------------------- MODULE SessionRegistry --------------------------
(***************************************************************************)
(* The session registry of core.Service: which session carries commands to *)
(* each device, and the gauge onlineDevices that the statistics publish.   *)
(*                                                                         *)
(* A transport (TCP gateway, MQTT broker) calls RegisterSession when a     *)
(* device has authenticated and UnregisterSession when its connection has  *)
(* ended.  Each call updates the map under Service.mu, releases the lock,  *)
(* and only then adjusts the atomic gauge or closes the session it         *)
(* displaced.  A call is therefore two steps here, and calls of different  *)
(* goroutines interleave between them.                                     *)
(*                                                                         *)
(* Taken alone the module is the most general client of the registry: any  *)
(* goroutine calls any operation with any session, in any order.  The      *)
(* transport modules TcpGateway and MqttBroker instantiate it and are      *)
(* shown to implement it.                                                  *)
(***************************************************************************)
EXTENDS Integers, FiniteSets

CONSTANTS
  Device,       (* Device IDs.                                             *)
  Session,      (* Session IDs: connection IDs for TCP, client IDs for MQTT *)
  Caller,       (* Goroutines that call the registry.                      *)
  NoSession     (* The nil session of a device that is not connected.      *)

(***************************************************************************)
(* What the theorems suppose of the constants.                             *)
(***************************************************************************)
FiniteAssumption == IsFiniteSet(Device) /\ IsFiniteSet(Caller)
NoSessionAssumption == NoSession \notin Session

VARIABLES
  session,        (* states[d].session, by its session ID.                 *)
  onlineDevices,  (* The atomic gauge.                                     *)
  task            (* What each caller still has to do after the lock.      *)

registryVars == <<session, onlineDevices, task>>

Task(step, prev) == [step |-> step, prev |-> prev]
Idle == Task("idle", NoSession)

Online == {d \in Device : session[d] # NoSession}

(***************************************************************************)
(* The deferred half of a call, decided while the lock is held.            *)
(***************************************************************************)

\* A mutant: a session that replaces another one counts as a new device.
AfterRegisterCountsTwice(old, s) ==
  IF old # s THEN Task("add", NoSession) ELSE Idle

\* A mutant: the replaced session is forgotten instead of being closed.
AfterRegisterForgets(old, s) ==
  IF old = NoSession THEN Task("add", NoSession) ELSE Idle

AfterRegister(old, s) ==
  IF old = NoSession THEN Task("add", NoSession)
  ELSE IF old # s THEN Task("close", old)
  ELSE Idle

(***************************************************************************)
(* Operations.                                                             *)
(***************************************************************************)

RegisterSession(t, d, s) ==
  /\ task[t] = Idle
  /\ session' = [session EXCEPT ![d] = s]
  /\ task' = [task EXCEPT ![t] = AfterRegister(session[d], s)]
  /\ UNCHANGED onlineDevices

\* A mutant: UnregisterSession does not compare session IDs.
UnregisterAnySession(t, d, s) ==
  /\ task[t] = Idle
  /\ IF session[d] # NoSession
     THEN /\ session' = [session EXCEPT ![d] = NoSession]
          /\ task' = [task EXCEPT ![t] = Task("sub", NoSession)]
     ELSE UNCHANGED <<session, task>>
  /\ UNCHANGED onlineDevices

UnregisterSession(t, d, s) ==
  /\ task[t] = Idle
  /\ IF session[d] = s
     THEN /\ session' = [session EXCEPT ![d] = NoSession]
          /\ task' = [task EXCEPT ![t] = Task("sub", NoSession)]
     ELSE UNCHANGED <<session, task>>
  /\ UNCHANGED onlineDevices

\* onlineDevices.Add, after the lock has been released.
AdjustOnline(t) ==
  /\ task[t].step \in {"add", "sub"}
  /\ onlineDevices' = onlineDevices + (IF task[t].step = "add" THEN 1 ELSE -1)
  /\ task' = [task EXCEPT ![t] = Idle]
  /\ UNCHANGED session

\* previous.Close(); what it does to the session is the transport's.
ClosePrevious(t) ==
  /\ task[t].step = "close"
  /\ task' = [task EXCEPT ![t] = Idle]
  /\ UNCHANGED <<session, onlineDevices>>

(***************************************************************************)
(* Specification.                                                          *)
(***************************************************************************)

Init ==
  /\ session = [d \in Device |-> NoSession]
  /\ onlineDevices = 0
  /\ task = [t \in Caller |-> Idle]

Next ==
  \E t \in Caller :
    \/ \E d \in Device, s \in Session : RegisterSession(t, d, s)
    \/ \E d \in Device, s \in Session : UnregisterSession(t, d, s)
    \/ AdjustOnline(t)
    \/ ClosePrevious(t)

Spec == Init /\ [][Next]_registryVars

(***************************************************************************)
(* Properties.                                                             *)
(***************************************************************************)

\* What a caller can owe; the session to close is never nil.
Tasks ==
  {Idle, Task("add", NoSession), Task("sub", NoSession)}
    \cup {Task("close", s) : s \in Session}

\* Types of the variables.
TypeOK ==
  /\ session \in [Device -> Session \cup {NoSession}]
  /\ onlineDevices \in Int
  /\ task \in [Caller -> Tasks]

Owing(step) == {t \in Caller : task[t].step = step}

\* The gauge never drifts: at every moment it differs from the number of
\* devices with a session exactly by the adjustments that goroutines have
\* decided on under the lock and not yet made (RegisterSession,
\* UnregisterSession).
OnlineCounterAccounts ==
  onlineDevices =
    Cardinality(Online) - Cardinality(Owing("add")) + Cardinality(Owing("sub"))

\* A session that leaves the registry is never simply lost: the step that
\* removes it leaves its goroutine owing either the decrement of the gauge
\* (UnregisterSession) or the Close of exactly that session (RegisterSession).
NoSessionDropped ==
  [][\A d \in Device :
       session[d] # NoSession /\ session'[d] # session[d] =>
         \E t \in Caller :
           /\ task[t] = Idle
           /\ \/ session'[d] = NoSession /\ task'[t].step = "sub"
              \/ session'[d] # NoSession /\ task'[t] = Task("close", session[d])
    ]_registryVars

============================================================================
