---------------------------- MODULE TcpGateway ----------------------------
(***************************************************************************)
(* The TCP device gateway (internal/gateway) on top of the session         *)
(* registry.  Each accepted connection has two goroutines: the handler,    *)
(* which reads messages, authenticates the device and registers the        *)
(* session, and the writer, which drains the session's queue.  A session   *)
(* is displaced when its device authenticates on another connection; the   *)
(* goroutine that displaces it closes it.                                  *)
(*                                                                         *)
(* A connection ID is also its session's ID and names its handler.         *)
(***************************************************************************)
EXTENDS Integers, FiniteSets

CONSTANTS
  Device,       (* Device IDs.                                             *)
  Conn,         (* Connection IDs, one per accepted connection.            *)
  NoSession,    (* No session, and no device.                              *)
  QueueSize     (* Capacity of a session's queue.                          *)

ASSUME QueueSizeAssumption == QueueSize \in Nat \ {0}
ASSUME ConnAssumption == NoSession \notin Conn /\ NoSession \notin Device

VARIABLES
  \* core.Service
  session, onlineDevices, task,
  \* The handler of each connection
  pc, deviceID, rejected,
  \* clientSession and its writer goroutine
  closed, queue, writer, cancelled,
  \* The server
  connOpen, tracked, ctxDone, listening, swept

registryVars == <<session, onlineDevices, task>>
handlerVars  == <<pc, deviceID, rejected>>
sessionVars  == <<closed, queue, writer, cancelled>>
serverVars   == <<connOpen, tracked, ctxDone, listening, swept>>
vars == <<registryVars, handlerVars, sessionVars, serverVars>>

Registry == INSTANCE SessionRegistry WITH Session <- Conn, Caller <- Conn

(***************************************************************************)
(* Where a handler is.  An early return of handleConnection ("abort")      *)
(* runs only the deferred calls; the end of the read loop ("unregister")   *)
(* also unregisters and closes the session.                                *)
(***************************************************************************)
Aborting == {"abort", "abortUntrack", "aborted"}
Epilogue == {"unregister", "close", "finish", "finishUntrack", "finished"}
Ended    == {"aborted", "finished"}
Places   == {"absent", "accepted", "reading", "registering"} \cup Aborting \cup Epilogue

Authenticated(c) == deviceID[c] # NoSession

GoTo(c, from, to) ==
  /\ pc[c] = from
  /\ pc' = [pc EXCEPT ![c] = to]

(***************************************************************************)
(* clientSession                                                           *)
(***************************************************************************)

\* A mutant: a full queue is not noticed.
UnboundedSend(c) == IF closed[c] THEN queue ELSE [queue EXCEPT ![c] = @ + 1]

\* Send fails on a closed session and on a full queue, and changes nothing.
Send(c) ==
  IF closed[c] \/ queue[c] = QueueSize THEN queue
  ELSE [queue EXCEPT ![c] = @ + 1]

\* A mutant: Close closes the channel and forgets the connection.
CloseChannelOnly(c) ==
  /\ closed' = [closed EXCEPT ![c] = TRUE]
  /\ UNCHANGED connOpen

\* Close runs once: it closes the channel `closed' and the connection.
CloseSession(c) ==
  /\ closed' = [closed EXCEPT ![c] = TRUE]
  /\ connOpen' = IF closed[c] THEN connOpen ELSE [connOpen EXCEPT ![c] = FALSE]

(***************************************************************************)
(* runWriter: the select takes any ready case.                             *)
(***************************************************************************)

\* A mutant: the writer's context does not derive from the server's.
WriterCancelledByHandler(c) ==
  /\ writer[c] = "running" /\ cancelled[c]
  /\ CloseSession(c)
  /\ writer' = [writer EXCEPT ![c] = "stopped"]
  /\ UNCHANGED <<registryVars, handlerVars, queue, cancelled, tracked, ctxDone, listening, swept>>

WriterCancelled(c) ==
  /\ writer[c] = "running" /\ (cancelled[c] \/ ctxDone)
  /\ CloseSession(c)
  /\ writer' = [writer EXCEPT ![c] = "stopped"]
  /\ UNCHANGED <<registryVars, handlerVars, queue, cancelled, tracked, ctxDone, listening, swept>>

WriterSeesClosed(c) ==
  /\ writer[c] = "running" /\ closed[c]
  /\ writer' = [writer EXCEPT ![c] = "stopped"]
  /\ UNCHANGED <<registryVars, handlerVars, closed, queue, cancelled, serverVars>>

WriteMessage(c) ==
  /\ writer[c] = "running" /\ queue[c] > 0 /\ connOpen[c]
  /\ queue' = [queue EXCEPT ![c] = @ - 1]
  /\ UNCHANGED <<registryVars, handlerVars, closed, writer, cancelled, serverVars>>

\* The connection is closed, the device is gone, or the write times out.
WriteFails(c) ==
  /\ writer[c] = "running" /\ queue[c] > 0
  /\ queue' = [queue EXCEPT ![c] = @ - 1]
  /\ CloseSession(c)
  /\ writer' = [writer EXCEPT ![c] = "stopped"]
  /\ UNCHANGED <<registryVars, handlerVars, cancelled, tracked, ctxDone, listening, swept>>

Writer(c) ==
  WriterCancelled(c) \/ WriterSeesClosed(c) \/ WriteMessage(c) \/ WriteFails(c)

(***************************************************************************)
(* Server.Run: accept loop and shutdown.                                   *)
(***************************************************************************)

Accept(c) ==
  /\ listening
  /\ GoTo(c, "absent", "accepted")
  /\ connOpen' = [connOpen EXCEPT ![c] = TRUE]
  /\ UNCHANGED <<registryVars, deviceID, rejected, sessionVars,
                 tracked, ctxDone, listening, swept>>

\* trackConnection, then the handler and its writer start.
Track(c) ==
  /\ GoTo(c, "accepted", "reading")
  /\ tracked' = tracked \cup {c}
  /\ writer' = [writer EXCEPT ![c] = "running"]
  /\ UNCHANGED <<registryVars, deviceID, rejected, closed, queue, cancelled,
                 connOpen, ctxDone, listening, swept>>

Shutdown ==
  /\ ~ctxDone
  /\ ctxDone' = TRUE
  /\ UNCHANGED <<registryVars, handlerVars, sessionVars, connOpen, tracked, listening, swept>>

CloseListener ==
  /\ ctxDone /\ listening
  /\ listening' = FALSE
  /\ UNCHANGED <<registryVars, handlerVars, sessionVars, connOpen, tracked, ctxDone, swept>>

\* A connection accepted but not yet tracked escapes the sweep.
CloseAllConnections ==
  /\ ~listening /\ ~swept
  /\ swept' = TRUE
  /\ connOpen' = [c \in Conn |-> connOpen[c] /\ c \notin tracked]
  /\ UNCHANGED <<registryVars, handlerVars, sessionVars, tracked, ctxDone, listening>>

(***************************************************************************)
(* handleConnection: the read loop.  Lines already buffered are still read *)
(* after the connection has been closed.                                   *)
(***************************************************************************)

\* Invalid JSON on any connection; a ping, telemetry, ack or unknown message
\* of an authenticated one.  A message without a reply changes nothing here.
ReadMessage(c) ==
  /\ pc[c] = "reading"
  /\ queue' = Send(c)
  /\ UNCHANGED <<registryVars, handlerVars, closed, writer, cancelled, serverVars>>

\* A message other than auth before authentication, or a wrong token.
Refuse(c) ==
  /\ ~Authenticated(c)
  /\ GoTo(c, "reading", "abort")
  /\ rejected' = [rejected EXCEPT ![c] = @ + 1]
  /\ queue' = Send(c)
  /\ UNCHANGED <<registryVars, deviceID, closed, writer, cancelled, serverVars>>

\* A mutant: a second auth is served like the first.
AuthenticateAgain(c, d) ==
  /\ GoTo(c, "reading", "registering")
  /\ deviceID' = [deviceID EXCEPT ![c] = d]
  /\ Registry!RegisterSession(c, d, c)
  /\ UNCHANGED <<rejected, sessionVars, serverVars>>

Authenticate(c, d) ==
  /\ ~Authenticated(c)
  /\ GoTo(c, "reading", "registering")
  /\ deviceID' = [deviceID EXCEPT ![c] = d]
  /\ Registry!RegisterSession(c, d, c)
  /\ UNCHANGED <<rejected, sessionVars, serverVars>>

\* RegisterSession has returned; auth_ok is queued.
AuthOK(c) ==
  /\ task[c] = Registry!Idle
  /\ GoTo(c, "registering", "reading")
  /\ queue' = Send(c)
  /\ UNCHANGED <<registryVars, deviceID, rejected, closed, writer, cancelled, serverVars>>

\* The handler returns without unregistering the session.
SecondAuth(c) ==
  /\ Authenticated(c)
  /\ GoTo(c, "reading", "abort")
  /\ queue' = Send(c)
  /\ UNCHANGED <<registryVars, deviceID, rejected, closed, writer, cancelled, serverVars>>

\* The device or the server closes the connection, a deadline passes, or a
\* line is too long.
ReadEnds(c) ==
  /\ GoTo(c, "reading", IF Authenticated(c) THEN "unregister" ELSE "close")
  /\ rejected' = IF Authenticated(c) THEN rejected ELSE [rejected EXCEPT ![c] = @ + 1]
  /\ UNCHANGED <<registryVars, deviceID, sessionVars, serverVars>>

(***************************************************************************)
(* handleConnection: the epilogue and the deferred calls.                  *)
(***************************************************************************)

\* A mutant: the session goes without the decrement of the gauge.
UnregisterUncounted(c) ==
  /\ GoTo(c, "unregister", "close")
  /\ session' = [d \in Device |-> IF session[d] = c THEN NoSession ELSE session[d]]
  /\ UNCHANGED <<onlineDevices, task, deviceID, rejected, sessionVars, serverVars>>

Unregister(c) ==
  /\ GoTo(c, "unregister", "close")
  /\ Registry!UnregisterSession(c, deviceID[c], c)
  /\ UNCHANGED <<deviceID, rejected, sessionVars, serverVars>>

Close(c) ==
  /\ task[c] = Registry!Idle
  /\ GoTo(c, "close", "finish")
  /\ CloseSession(c)
  /\ UNCHANGED <<registryVars, deviceID, rejected, queue, writer, cancelled,
                 tracked, ctxDone, listening, swept>>

CancelWriter(c) ==
  /\ \/ GoTo(c, "abort", "abortUntrack")
     \/ GoTo(c, "finish", "finishUntrack")
  /\ cancelled' = [cancelled EXCEPT ![c] = TRUE]
  /\ UNCHANGED <<registryVars, deviceID, rejected, closed, queue, writer, serverVars>>

Untrack(c) ==
  /\ \/ GoTo(c, "abortUntrack", "aborted")
     \/ GoTo(c, "finishUntrack", "finished")
  /\ tracked' = tracked \ {c}
  /\ connOpen' = [connOpen EXCEPT ![c] = FALSE]
  /\ UNCHANGED <<registryVars, deviceID, rejected, sessionVars, ctxDone, listening, swept>>

(***************************************************************************)
(* What the registry's calls defer, and commands from the platform.        *)
(***************************************************************************)

AdjustOnline(c) ==
  /\ Registry!AdjustOnline(c)
  /\ UNCHANGED <<handlerVars, sessionVars, serverVars>>

ClosePrevious(c) ==
  /\ Registry!ClosePrevious(c)
  /\ CloseSession(task[c].prev)
  /\ UNCHANGED <<handlerVars, queue, writer, cancelled, tracked, ctxDone, listening, swept>>

\* sendCommand: a goroutine may have read the session long ago.
SendCommand(c) ==
  /\ Authenticated(c)
  /\ queue' = Send(c)
  /\ UNCHANGED <<registryVars, handlerVars, closed, writer, cancelled, serverVars>>

(***************************************************************************)
(* Specification.                                                          *)
(***************************************************************************)

Init ==
  /\ Registry!Init
  /\ pc = [c \in Conn |-> "absent"]
  /\ deviceID = [c \in Conn |-> NoSession]
  /\ rejected = [c \in Conn |-> 0]
  /\ closed = [c \in Conn |-> FALSE]
  /\ queue = [c \in Conn |-> 0]
  /\ writer = [c \in Conn |-> "stopped"]
  /\ cancelled = [c \in Conn |-> FALSE]
  /\ connOpen = [c \in Conn |-> FALSE]
  /\ tracked = {}
  /\ ctxDone = FALSE
  /\ listening = TRUE
  /\ swept = FALSE

\* Steps the handler takes without waiting for the device.
HandlerStep(c) ==
  Track(c) \/ AuthOK(c) \/ Unregister(c) \/ Close(c) \/ CancelWriter(c)
    \/ Untrack(c) \/ AdjustOnline(c) \/ ClosePrevious(c)

ReadStep(c) ==
  \/ ReadMessage(c)
  \/ Refuse(c)
  \/ \E d \in Device : Authenticate(c, d)
  \/ SecondAuth(c)
  \/ ReadEnds(c)

Stop == Shutdown \/ CloseListener \/ CloseAllConnections

Next ==
  \/ \E c \in Conn :
       Accept(c) \/ HandlerStep(c) \/ ReadStep(c) \/ Writer(c) \/ SendCommand(c)
  \/ Stop

(***************************************************************************)
(* Fairness.  Goroutines run.  select chooses at random among the ready    *)
(* cases, so a ready case is eventually taken.  A read ends on a closed    *)
(* connection, and on one that has not authenticated when the deadline     *)
(* DeviceAuthTimeout, set once, passes.                                    *)
(***************************************************************************)
\* A mutant: every line extends the deadline of an unauthenticated connection.
ReadMustEndOnClose(c) == ~connOpen[c] /\ ReadEnds(c)

ReadMustEnd(c) == (~connOpen[c] \/ ~Authenticated(c)) /\ ReadEnds(c)

Fairness ==
  /\ \A c \in Conn :
       /\ WF_vars(HandlerStep(c))
       /\ WF_vars(ReadMustEnd(c))
       /\ WF_vars(WriterCancelled(c))
       /\ WF_vars(WriterSeesClosed(c))
  /\ WF_vars(CloseListener)
  /\ WF_vars(CloseAllConnections)

Spec == Init /\ [][Next]_vars
FairSpec == Spec /\ Fairness

(***************************************************************************)
(* Properties.                                                             *)
(***************************************************************************)

\* Types of the variables.
TypeOK ==
  /\ Registry!TypeOK
  /\ pc \in [Conn -> Places]
  /\ deviceID \in [Conn -> Device \cup {NoSession}]
  /\ rejected \in [Conn -> Nat]
  /\ closed \in [Conn -> BOOLEAN]
  /\ queue \in [Conn -> 0 .. QueueSize]
  /\ writer \in [Conn -> {"running", "stopped"}]
  /\ cancelled \in [Conn -> BOOLEAN]
  /\ connOpen \in [Conn -> BOOLEAN]
  /\ tracked \in SUBSET Conn
  /\ ctxDone \in BOOLEAN /\ listening \in BOOLEAN /\ swept \in BOOLEAN

\* Commands for a device go to a connection that proved to be that device,
\* and not to one that has unregistered (RegisterSession and the epilogue of
\* handleConnection, under any replacement of sessions).
SessionOwnership ==
  \A d \in Device, c \in Conn :
    session[d] = c =>
      deviceID[c] = d /\ pc[c] \notin Epilogue \ {"unregister"}

Displaced(c) == Authenticated(c) /\ session[deviceID[c]] # c

\* A connection whose session was displaced does not stay open unnoticed:
\* until it is closed, a goroutine is on its way to close it (the unlocked
\* tail of RegisterSession, or its own handler's epilogue).
DisplacedIsClosing ==
  \A c \in Conn :
    Displaced(c) =>
      closed[c] \/ pc[c] = "close" \/ \E t \in Conn : task[t] = Registry!Task("close", c)

\* rejectedConnections counts a connection exactly once, and only if it ended
\* without authenticating (RecordConnectionRejected on three return paths).
RejectedExactlyOnce ==
  \A c \in Conn :
    rejected[c] =
      IF pc[c] \in Aborting \cup Epilogue /\ ~Authenticated(c) THEN 1 ELSE 0

\* closeAllConnections can reach every open connection but one that was
\* accepted and is not yet tracked, and no connection outlives its handler.
OpenIsTracked ==
  \A c \in Conn : connOpen[c] => c \in tracked \/ pc[c] = "accepted"

\* The gauge never drifts: at every moment it differs from the number of
\* devices with a session exactly by the adjustments that handlers have
\* decided on under the registry's lock and not yet made (RegisterSession,
\* UnregisterSession).
OnlineCounterAccounts == Registry!OnlineCounterAccounts

\* The gateway uses the registry as the registry allows: every step is one
\* of its operations by the connection's handler, or leaves it alone.
ImplementsRegistry == Registry!Spec

\* A displaced connection ends, whatever its device does.
DisplacedEnds == \A c \in Conn : Displaced(c) ~> pc[c] \in Ended

\* A connection that does not authenticate ends (DeviceAuthTimeout is an
\* absolute deadline that invalid lines do not extend).
UnauthenticatedEnds ==
  \A c \in Conn : pc[c] = "reading" ~> Authenticated(c) \/ pc[c] \in Ended

\* After the context is cancelled every handler returns and every writer
\* stops, even for a connection accepted during the sweep, and the gauge
\* settles at the number of sessions left in the registry.
ShutdownDrains ==
  ctxDone ~>
    [](/\ \A c \in Conn : pc[c] \in Ended \cup {"absent"} /\ writer[c] = "stopped"
       /\ onlineDevices = Cardinality(Registry!Online))

\* A device that is shown online has a connection whose handler is running.
\* The code breaks this: handleConnection returns from a second auth message
\* without UnregisterSession.
OnlineMeansConnected ==
  \A d \in Device : session[d] # NoSession => pc[session[d]] \notin Ended

============================================================================
