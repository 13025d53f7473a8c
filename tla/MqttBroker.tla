---------------------------- MODULE MqttBroker ----------------------------
(***************************************************************************)
(* The MQTT entry (internal/mqtt) on top of the session registry.  The     *)
(* broker is a library; the platform's part is authHook, whose callbacks   *)
(* the broker runs on the goroutine of each connection, and its bindings,  *)
(* a map from client IDs to the device that authenticated with that ID.    *)
(*                                                                         *)
(* An MQTT session is known by its client ID alone.  When a device comes   *)
(* back with the ID it used before, the broker stops the old connection,   *)
(* and the callbacks of both run at the same time with the same key.       *)
(***************************************************************************)
EXTENDS Integers, FiniteSets

CONSTANTS
  Device,       (* Device IDs.                                             *)
  Client,       (* Client IDs, chosen by the devices.                      *)
  Conn,         (* Connections, each with a goroutine of the broker.       *)
  NoSession     (* No session, no device and no client.                    *)

ASSUME NoSessionAssumption ==
  NoSession \notin Device /\ NoSession \notin Client

VARIABLES
  \* core.Service
  session, onlineDevices, task,
  \* Each connection: where it is, whose it is, and the device that
  \* OnSessionEstablished or OnDisconnect has read from bindings
  pc, clientID, deviceID, binding,
  \* The broker has stopped the connection
  stopped,
  \* authHook.bindings
  bindings

registryVars == <<session, onlineDevices, task>>
connVars     == <<pc, clientID, deviceID, binding, stopped>>
vars == <<registryVars, connVars, bindings>>

Registry == INSTANCE SessionRegistry WITH Session <- Client, Caller <- Conn

\* OnACLCheck and handlePublish: what the connection's device publishes to
\* its own topics is taken in as that device's, or dropped.
Served(c) == bindings[clientID[c]] = deviceID[c]

GoTo(c, from, to) ==
  /\ pc[c] = from
  /\ pc' = [pc EXCEPT ![c] = to]

(***************************************************************************)
(* Connecting.                                                             *)
(***************************************************************************)

\* The credentials and the product's access profile are right, or the
\* connection is refused and leaves no trace but the counters.
OnConnectAuthenticate(c, k, d) ==
  /\ GoTo(c, "absent", "authenticated")
  /\ clientID' = [clientID EXCEPT ![c] = k]
  /\ deviceID' = [deviceID EXCEPT ![c] = d]
  /\ bindings' = [bindings EXCEPT ![k] = d]
  /\ UNCHANGED <<registryVars, binding, stopped>>

\* The broker admits the client and stops any other connection with its ID.
TakeOver(c) ==
  /\ GoTo(c, "authenticated", "connected")
  /\ stopped' = [b \in Conn |->
       \/ stopped[b]
       \/ b # c /\ clientID[b] = clientID[c]
            /\ pc[b] \notin {"absent", "authenticated"}]
  /\ UNCHANGED <<registryVars, clientID, deviceID, binding, bindings>>

\* The client is gone before the broker could answer; no callback runs.
ConnackFails(c) ==
  /\ pc[c] \in {"authenticated", "connected"}
  /\ pc' = [pc EXCEPT ![c] = "aborted"]
  /\ UNCHANGED <<registryVars, clientID, deviceID, binding, stopped, bindings>>

ReadBinding(c) ==
  /\ GoTo(c, "connected", "establishing")
  /\ binding' = [binding EXCEPT ![c] = bindings[clientID[c]]]
  /\ UNCHANGED <<registryVars, clientID, deviceID, stopped, bindings>>

\* A mutant: the check of the binding is inverted.
EstablishUnregistered(c) ==
  /\ GoTo(c, "establishing", "established")
  /\ UNCHANGED <<registryVars, clientID, deviceID, binding, stopped, bindings>>

\* Without a binding the connection is served and never registered.
OnSessionEstablished(c) ==
  /\ GoTo(c, "establishing", "established")
  /\ IF binding[c] = NoSession THEN UNCHANGED registryVars
     ELSE Registry!RegisterSession(c, binding[c], clientID[c])
  /\ UNCHANGED <<clientID, deviceID, binding, stopped, bindings>>

(***************************************************************************)
(* Disconnecting: OnDisconnect reads the binding, unregisters that device  *)
(* and deletes the binding, each under a lock of its own.                  *)
(***************************************************************************)

\* The client leaves, times out, or has been stopped.
OnDisconnect(c) ==
  /\ GoTo(c, "established", "unregistering")
  /\ task[c] = Registry!Idle
  /\ binding' = [binding EXCEPT ![c] = bindings[clientID[c]]]
  /\ UNCHANGED <<registryVars, clientID, deviceID, stopped, bindings>>

\* A mutant: the session is dropped without asking whose it is.
UnregisterWhoever(c) ==
  /\ GoTo(c, "unregistering", "unbinding")
  /\ IF binding[c] = NoSession THEN UNCHANGED registryVars
     ELSE Registry!UnregisterSession(c, binding[c], session[binding[c]])
  /\ UNCHANGED <<clientID, deviceID, binding, stopped, bindings>>

\* A mutant: the session goes without the decrement of the gauge.
UnregisterUncounted(c) ==
  /\ GoTo(c, "unregistering", "unbinding")
  /\ session' = [d \in Device |->
       IF d = binding[c] /\ session[d] = clientID[c] THEN NoSession ELSE session[d]]
  /\ UNCHANGED <<onlineDevices, task, clientID, deviceID, binding, stopped, bindings>>

Unregister(c) ==
  /\ GoTo(c, "unregistering", "unbinding")
  /\ IF binding[c] = NoSession THEN UNCHANGED registryVars
     ELSE Registry!UnregisterSession(c, binding[c], clientID[c])
  /\ UNCHANGED <<clientID, deviceID, binding, stopped, bindings>>

\* A mutant: every binding of the device is deleted.
UnbindDevice(c) ==
  /\ GoTo(c, "unbinding", "gone")
  /\ task[c] = Registry!Idle
  /\ bindings' = [k \in Client |->
       IF bindings[k] = binding[c] THEN NoSession ELSE bindings[k]]
  /\ UNCHANGED <<registryVars, clientID, deviceID, binding, stopped>>

\* A mutant: the binding stays in the map.
KeepBinding(c) ==
  /\ GoTo(c, "unbinding", "gone")
  /\ task[c] = Registry!Idle
  /\ UNCHANGED <<registryVars, clientID, deviceID, binding, stopped, bindings>>

Unbind(c) ==
  /\ GoTo(c, "unbinding", "gone")
  /\ task[c] = Registry!Idle
  /\ bindings' = [bindings EXCEPT ![clientID[c]] = NoSession]
  /\ UNCHANGED <<registryVars, clientID, deviceID, binding, stopped>>

(***************************************************************************)
(* What the registry's calls defer.  Close of an MQTT session does nothing. *)
(***************************************************************************)

AdjustOnline(c) ==
  /\ Registry!AdjustOnline(c)
  /\ UNCHANGED <<connVars, bindings>>

ClosePrevious(c) ==
  /\ Registry!ClosePrevious(c)
  /\ UNCHANGED <<connVars, bindings>>

(***************************************************************************)
(* Specification.                                                          *)
(***************************************************************************)

Init ==
  /\ Registry!Init
  /\ pc = [c \in Conn |-> "absent"]
  /\ clientID = [c \in Conn |-> NoSession]
  /\ deviceID = [c \in Conn |-> NoSession]
  /\ binding = [c \in Conn |-> NoSession]
  /\ stopped = [c \in Conn |-> FALSE]
  /\ bindings = [k \in Client |-> NoSession]

Next ==
  \E c \in Conn :
    \/ \E k \in Client, d \in Device : OnConnectAuthenticate(c, k, d)
    \/ TakeOver(c)
    \/ ConnackFails(c)
    \/ ReadBinding(c)
    \/ OnSessionEstablished(c)
    \/ OnDisconnect(c)
    \/ Unregister(c)
    \/ Unbind(c)
    \/ AdjustOnline(c)
    \/ ClosePrevious(c)

Spec == Init /\ [][Next]_vars

(***************************************************************************)
(* Properties.                                                             *)
(***************************************************************************)
Places ==
  {"absent", "authenticated", "connected", "aborted", "establishing",
   "established", "unregistering", "unbinding", "gone"}

\* Types of the variables.
TypeOK ==
  /\ Registry!TypeOK
  /\ pc \in [Conn -> Places]
  /\ clientID \in [Conn -> Client \cup {NoSession}]
  /\ deviceID \in [Conn -> Device \cup {NoSession}]
  /\ binding \in [Conn -> Device \cup {NoSession}]
  /\ stopped \in [Conn -> BOOLEAN]
  /\ bindings \in [Client -> Device \cup {NoSession}]

\* The hooks use the registry as it allows, one call at a time for each
\* connection, so that its gauge is exact here too.
ImplementsRegistry == Registry!Spec

\* A device's session is taken from the registry only on behalf of the client
\* that holds it: the late OnDisconnect of a client that was replaced by
\* another does not take the device offline (the session ID comparison of
\* UnregisterSession).
OnlyItsClientLeaves ==
  [][\A d \in Device :
       session[d] # NoSession /\ session'[d] = NoSession =>
         \E c \in Conn : pc[c] = "unregistering" /\ clientID[c] = session[d]
    ]_vars

Alone(c) == \A b \in Conn \ {c} : clientID[b] # clientID[c]

\* Whoever else comes and goes, even for the same device, a connection whose
\* client ID no other connection has used keeps being served.
AloneIsServed ==
  \A c \in Conn :
    pc[c] \in {"connected", "establishing", "established", "unregistering"} /\ Alone(c)
      => Served(c)

\* An established connection that is alone with its client ID and with its
\* device is online, and its commands go to it.
AloneIsOnline ==
  \A c \in Conn :
    pc[c] = "established" /\ Alone(c)
      /\ (\A b \in Conn \ {c} : deviceID[b] # deviceID[c])
      => session[deviceID[c]] = clientID[c]

\* The bindings do not pile up: one stays only while a connection of its
\* client has yet to run OnDisconnect, or when the connection ended before
\* the broker could establish it.
BindingsAreReleased ==
  \A k \in Client :
    bindings[k] # NoSession => \E c \in Conn : clientID[c] = k /\ pc[c] # "gone"

\* What a device publishes on an established connection that nobody has
\* stopped is taken in.  The code breaks this when the device comes back with
\* its client ID: the old connection's OnDisconnect deletes the new binding.
EstablishedIsServed ==
  \A c \in Conn : pc[c] = "established" /\ ~stopped[c] => Served(c)

============================================================================
