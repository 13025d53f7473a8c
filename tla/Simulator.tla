----------------------------- MODULE Simulator -----------------------------
(***************************************************************************)
(* The device simulators of internal/simulator, which the API starts and   *)
(* stops.  A connected simulator is a run: a goroutine that dials the      *)
(* gateway, authenticates and then serves a select loop, with a reader     *)
(* goroutine that hands it the gateway's messages.  A run ends on its own  *)
(* when something fails, or when its context is cancelled.                 *)
(*                                                                         *)
(* The API's handlers (callers) look a simulator up under the manager's    *)
(* lock and then work on the instance under the instance's lock, so        *)
(* everything may change between two of their steps.                       *)
(***************************************************************************)
EXTENDS Naturals, Sequences

CONSTANTS
  Sim,        (* Simulator IDs.                                            *)
  MaxRuns,    (* Bound: how many runs are started.                         *)
  Caller,     (* Goroutines of the API.                                    *)
  None,       (* No simulator, no run, a nil cancel function.              *)
  InboxSize,  (* Capacity of serverMessages.                               *)
  QueueSize   (* Capacity of manualTelemetryChan.                          *)

Run == 1 .. MaxRuns

ASSUME SizeAssumption == MaxRuns \in Nat /\ InboxSize \in Nat /\ QueueSize \in Nat
ASSUME NoneAssumption == None \notin Sim \cup Run

VARIABLES
  \* Manager
  created, listed, rootDone,
  \* instance: its cancel function (by the run it stops), connected, and the
  \* number of messages in manualTelemetryChan
  cancel, connected, queue,
  \* What a caller is about to do
  call,
  \* The runs: where each is, its simulator, its context, its connection,
  \* its reader, and the channels between reader and run
  pc, owner, cancelled, connOpen, reader, inbox, readErr,
  \* History: runs that were started after their simulator was removed
  late

managerVars  == <<created, listed, rootDone>>
instanceVars == <<cancel, connected, queue>>
runVars      == <<pc, owner, cancelled, connOpen, reader, inbox, readErr, late>>
readerVars   == <<reader, inbox, readErr>>
vars == <<managerVars, instanceVars, call, runVars>>

Message == {"auth_ok", "error", "other"}
Idle == [op |-> "idle", sim |-> None, run |-> None]
Op(op, s, r) == [op |-> op, sim |-> s, run |-> r]
Does(t, next) == call' = [call EXCEPT ![t] = next]
IsNext(r) == pc[r] = "absent" /\ \A q \in 1 .. r - 1 : pc[q] # "absent"

(***************************************************************************)
(* Manager: Create, Connect, Disconnect, Remove, SendTelemetry, Close.     *)
(***************************************************************************)

\* The simulator is in the map before AutoConnect connects it.
Create(t, s, autoConnect) ==
  /\ call[t] = Idle /\ s \notin created
  /\ created' = created \cup {s}
  /\ listed' = listed \cup {s}
  /\ Does(t, IF autoConnect THEN Op("connect", s, None) ELSE Idle)
  /\ UNCHANGED <<rootDone, instanceVars, runVars>>

Lookup(t, s, op) ==
  /\ call[t] = Idle /\ s \in listed
  /\ Does(t, Op(op, s, None))
  /\ UNCHANGED <<managerVars, instanceVars, runVars>>

\* A mutant: the simulator is forgotten and left to itself.
RemoveOnly(t, s) ==
  /\ call[t] = Idle /\ s \in listed
  /\ listed' = listed \ {s}
  /\ UNCHANGED <<created, rootDone, instanceVars, call, runVars>>

Remove(t, s) ==
  /\ call[t] = Idle /\ s \in listed
  /\ listed' = listed \ {s}
  /\ Does(t, Op("disconnect", s, None))
  /\ UNCHANGED <<created, rootDone, instanceVars, runVars>>

\* The context of every run derives from the one cancelled here, so the
\* disconnect of each simulator that follows finds nothing left to do.
Close ==
  /\ ~rootDone
  /\ rootDone' = TRUE
  /\ UNCHANGED <<created, listed, instanceVars, call, runVars>>

(***************************************************************************)
(* instance: connect, disconnect, sendTelemetry.                           *)
(***************************************************************************)

\* A mutant: the old run's cancel function is overwritten.
ConnectAlways(t, r) ==
  LET s == call[t].sim
  IN  /\ call[t].op = "connect" /\ Does(t, Idle)
      /\ IsNext(r)
      /\ cancel' = [cancel EXCEPT ![s] = r]
      /\ pc' = [pc EXCEPT ![r] = "dialing"]
      /\ owner' = [owner EXCEPT ![r] = s]
      /\ late' = IF s \in listed THEN late ELSE late \cup {r}
      /\ UNCHANGED <<managerVars, connected, queue, cancelled, connOpen, readerVars>>

\* With a cancel function set there is nothing to do, although the run it
\* belongs to may be about to end.
Connect(t, r) ==
  LET s == call[t].sim
  IN  /\ call[t].op = "connect" /\ Does(t, Idle)
      /\ \/ /\ cancel[s] # None
            /\ UNCHANGED <<managerVars, instanceVars, runVars>>
         \/ /\ cancel[s] = None /\ IsNext(r)
            /\ cancel' = [cancel EXCEPT ![s] = r]
            /\ pc' = [pc EXCEPT ![r] = "dialing"]
            /\ owner' = [owner EXCEPT ![r] = s]
            /\ late' = IF s \in listed THEN late ELSE late \cup {r}
            /\ UNCHANGED <<managerVars, connected, queue, cancelled, connOpen, readerVars>>

\* The cancel function is read under the lock and called without it.
ReadCancel(t) ==
  /\ call[t].op = "disconnect"
  /\ LET r == cancel[call[t].sim]
     IN  Does(t, IF r = None THEN Idle ELSE Op("cancel", call[t].sim, r))
  /\ UNCHANGED <<managerVars, instanceVars, runVars>>

CancelRun(t) ==
  /\ call[t].op = "cancel" /\ Does(t, Idle)
  /\ cancelled' = cancelled \cup {call[t].run}
  /\ UNCHANGED <<managerVars, instanceVars, pc, owner, connOpen, readerVars, late>>

CheckConnected(t) ==
  /\ call[t].op = "send"
  /\ Does(t, IF connected[call[t].sim] THEN Op("queue", call[t].sim, None) ELSE Idle)
  /\ UNCHANGED <<managerVars, instanceVars, runVars>>

\* A mutant: the queue is taken to have room.
QueueUnbounded(t) ==
  /\ call[t].op = "queue" /\ Does(t, Idle)
  /\ queue' = [queue EXCEPT ![call[t].sim] = @ + 1]
  /\ UNCHANGED <<managerVars, cancel, connected, runVars>>

\* What a run does not take waits for the next one.
QueueTelemetry(t) ==
  /\ call[t].op = "queue" /\ Does(t, Idle)
  /\ queue' = [queue EXCEPT ![call[t].sim] = IF @ < QueueSize THEN @ + 1 ELSE @]
  /\ UNCHANGED <<managerVars, cancel, connected, runVars>>

(***************************************************************************)
(* run: dial, authenticate, serve.  An early return closes the connection  *)
(* ("closing") and then calls finishRun ("finishing").                     *)
(***************************************************************************)

GoTo(r, from, to) == pc[r] = from /\ pc' = [pc EXCEPT ![r] = to]

Dial(r) ==
  /\ GoTo(r, "dialing", "authenticating")
  /\ connOpen' = [connOpen EXCEPT ![r] = TRUE]
  /\ reader' = [reader EXCEPT ![r] = "reading"]
  /\ UNCHANGED <<managerVars, instanceVars, call, owner, cancelled, inbox, readErr, late>>

\* fail, when there is no connection to close.
DialFails(r) ==
  /\ GoTo(r, "dialing", "finishing")
  /\ connected' = [connected EXCEPT ![owner[r]] = FALSE]
  /\ UNCHANGED <<managerVars, cancel, queue, call, owner, cancelled, connOpen, readerVars, late>>

Selecting(r) == pc[r] \in {"authenticating", "serving"}

Fail(r) ==
  /\ connected' = [connected EXCEPT ![owner[r]] = FALSE]
  /\ pc' = [pc EXCEPT ![r] = "closing"]
  /\ UNCHANGED <<managerVars, cancel, queue, call, owner, cancelled, connOpen, reader, late>>

\* A mutant: the context of a run does not derive from the manager's.
ContextDoneByDisconnect(r) ==
  /\ Selecting(r) /\ r \in cancelled
  /\ pc' = [pc EXCEPT ![r] = "closing"]
  /\ UNCHANGED <<managerVars, instanceVars, call, owner, cancelled, connOpen, readerVars, late>>

ContextDone(r) ==
  /\ Selecting(r) /\ (r \in cancelled \/ rootDone)
  /\ pc' = [pc EXCEPT ![r] = "closing"]
  /\ UNCHANGED <<managerVars, instanceVars, call, owner, cancelled, connOpen, readerVars, late>>

TakeReadError(r) ==
  /\ Selecting(r) /\ readErr[r]
  /\ readErr' = [readErr EXCEPT ![r] = FALSE]
  /\ Fail(r) /\ UNCHANGED inbox

\* The auth deadline passes, or a ping, an ack or telemetry cannot be written.
TimeoutOrWriteFails(r) ==
  /\ Selecting(r)
  /\ Fail(r) /\ UNCHANGED <<inbox, readErr>>

\* Only the first loop looks at what the message says; the second may fail
\* to write an ack.
TakeMessage(r) ==
  /\ Selecting(r) /\ inbox[r] # <<>>
  /\ inbox' = [inbox EXCEPT ![r] = Tail(@)]
  /\ UNCHANGED readErr
  /\ \/ /\ pc[r] = "serving" \/ Head(inbox[r]) = "error"
        /\ Fail(r)
     \/ /\ pc[r] = "authenticating" /\ Head(inbox[r]) = "auth_ok"
        /\ pc' = [pc EXCEPT ![r] = "serving"]
        /\ connected' = [connected EXCEPT ![owner[r]] = TRUE]
        /\ UNCHANGED <<managerVars, cancel, queue, call, owner, cancelled,
                       connOpen, reader, late>>
     \/ /\ pc[r] = "serving" \/ Head(inbox[r]) = "other"
        /\ UNCHANGED <<managerVars, instanceVars, call, pc, owner, cancelled,
                       connOpen, reader, late>>

\* The values taken from the queue are lost when they cannot be written.
PublishManual(r) ==
  /\ pc[r] = "serving" /\ queue[owner[r]] > 0
  /\ queue' = [queue EXCEPT ![owner[r]] = @ - 1]
  /\ \/ UNCHANGED <<connected, pc>>
     \/ /\ connected' = [connected EXCEPT ![owner[r]] = FALSE]
        /\ pc' = [pc EXCEPT ![r] = "closing"]
  /\ UNCHANGED <<managerVars, cancel, call, owner, cancelled, connOpen, readerVars, late>>

CloseConn(r) ==
  /\ GoTo(r, "closing", "finishing")
  /\ connOpen' = [connOpen EXCEPT ![r] = FALSE]
  /\ UNCHANGED <<managerVars, instanceVars, call, owner, cancelled, readerVars, late>>

\* With the run go the channels only it reads.
FinishRun(r) ==
  /\ GoTo(r, "finishing", "ended")
  /\ connected' = [connected EXCEPT ![owner[r]] = FALSE]
  /\ cancel' = [cancel EXCEPT ![owner[r]] = None]
  /\ inbox' = [inbox EXCEPT ![r] = <<>>]
  /\ readErr' = [readErr EXCEPT ![r] = FALSE]
  /\ UNCHANGED <<managerVars, queue, call, owner, cancelled, connOpen, reader, late>>

(***************************************************************************)
(* scanServerMessages: the reader never waits for the run.                 *)
(***************************************************************************)

ReaderGivesUp(r) ==
  /\ readErr' = [readErr EXCEPT ![r] = pc[r] # "ended"]
  /\ reader' = [reader EXCEPT ![r] = "ended"]

\* The gateway's message, or the error of a full channel.  (What the reader
\* has buffered when the connection is closed reaches nobody.)
Receive(r, m) ==
  /\ reader[r] = "reading" /\ connOpen[r]
  /\ \/ /\ Len(inbox[r]) < InboxSize
        /\ inbox' = [inbox EXCEPT ![r] = Append(@, m)]
        /\ UNCHANGED <<reader, readErr>>
     \/ /\ Len(inbox[r]) = InboxSize
        /\ ReaderGivesUp(r) /\ UNCHANGED inbox
  /\ UNCHANGED <<managerVars, instanceVars, call, pc, owner, cancelled, connOpen, late>>

\* The gateway closes the connection or sends what is no message, or the run
\* has closed the connection.
ReaderEnds(r) ==
  /\ reader[r] = "reading"
  /\ ReaderGivesUp(r)
  /\ UNCHANGED <<managerVars, instanceVars, call, pc, owner, cancelled, connOpen, inbox, late>>

(***************************************************************************)
(* Specification.                                                          *)
(***************************************************************************)

Init ==
  /\ created = {} /\ listed = {} /\ rootDone = FALSE
  /\ cancel = [s \in Sim |-> None]
  /\ connected = [s \in Sim |-> FALSE]
  /\ queue = [s \in Sim |-> 0]
  /\ call = [t \in Caller |-> Idle]
  /\ pc = [r \in Run |-> "absent"]
  /\ owner = [r \in Run |-> None]
  /\ cancelled = {}
  /\ connOpen = [r \in Run |-> FALSE]
  /\ reader = [r \in Run |-> "ended"]
  /\ inbox = [r \in Run |-> <<>>]
  /\ readErr = [r \in Run |-> FALSE]
  /\ late = {}

Api(t) ==
  \/ \E s \in Sim :
       \/ \E autoConnect \in BOOLEAN : Create(t, s, autoConnect)
       \/ \E op \in {"connect", "disconnect", "send"} : Lookup(t, s, op)
       \/ Remove(t, s)
  \/ \E r \in Run : Connect(t, r)
  \/ ReadCancel(t) \/ CancelRun(t) \/ CheckConnected(t) \/ QueueTelemetry(t)

RunStep(r) ==
  \/ Dial(r) \/ DialFails(r) \/ ContextDone(r) \/ TakeReadError(r)
  \/ TimeoutOrWriteFails(r) \/ TakeMessage(r) \/ PublishManual(r)
  \/ CloseConn(r) \/ FinishRun(r)

ReaderStep(r) == ReaderEnds(r) \/ \E m \in Message : Receive(r, m)

Next ==
  \/ Close
  \/ \E t \in Caller : Api(t)
  \/ \E r \in Run : RunStep(r) \/ ReaderStep(r)

(***************************************************************************)
(* Fairness.  Goroutines run, a dial ends within its timeout, the select   *)
(* of a run chooses at random among the ready cases, and a read ends on a  *)
(* connection that was closed.                                             *)
(***************************************************************************)
Fairness ==
  \A r \in Run :
    /\ WF_vars(Dial(r) \/ DialFails(r))
    /\ WF_vars(ContextDone(r))
    /\ WF_vars(CloseConn(r))
    /\ WF_vars(FinishRun(r))
    /\ WF_vars(~connOpen[r] /\ ReaderEnds(r))

Spec == Init /\ [][Next]_vars /\ Fairness

(***************************************************************************)
(* Properties.                                                             *)
(***************************************************************************)

Places == {"absent", "dialing", "authenticating", "serving", "closing", "finishing", "ended"}
Active(r) == pc[r] \notin {"absent", "ended"}

\* Types of the variables; no channel outgrows its capacity.
TypeOK ==
  /\ created \subseteq Sim /\ listed \subseteq created /\ rootDone \in BOOLEAN
  /\ cancel \in [Sim -> Run \cup {None}]
  /\ connected \in [Sim -> BOOLEAN]
  /\ queue \in [Sim -> 0 .. QueueSize]
  /\ call \in [Caller -> [op : {"idle", "connect", "disconnect", "cancel", "send", "queue"},
                          sim : Sim \cup {None}, run : Run \cup {None}]]
  /\ pc \in [Run -> Places]
  /\ owner \in [Run -> Sim \cup {None}]
  /\ cancelled \subseteq Run /\ late \subseteq Run
  /\ connOpen \in [Run -> BOOLEAN] /\ readErr \in [Run -> BOOLEAN]
  /\ reader \in [Run -> {"reading", "ended"}]
  /\ \A r \in Run : inbox[r] \in Seq(Message) /\ Len(inbox[r]) <= InboxSize

\* A simulator has one run at a time, the one its cancel function stops, and
\* once that has ended it can be connected again; it shows as connected only
\* while its run serves the connection or is just closing it (connect,
\* finishRun, setConnected, whatever the order of the calls).
OneRunInCharge ==
  /\ \A r \in Run : Active(r) => cancel[owner[r]] = r
  /\ \A s \in Sim : cancel[s] # None => Active(cancel[s]) /\ owner[cancel[s]] = s
  /\ \A s \in Sim : connected[s] =>
       cancel[s] # None /\ pc[cancel[s]] \in {"serving", "closing", "finishing"}

\* A simulator that was removed does not go on sending: its run has been
\* cancelled, or the call that will cancel this very run is under way, unless
\* a Connect that had found the simulator before it was removed started the
\* run afterwards (Remove deletes first, then disconnect looks for the run).
WillCancel(t, r) ==
  /\ call[t].sim = owner[r]
  /\ call[t].op = "disconnect" \/ (call[t].op = "cancel" /\ call[t].run = r)

RemovedIsStopping ==
  \A r \in Run :
    Active(r) /\ owner[r] \notin listed =>
      r \in cancelled \cup late \/ \E t \in Caller : WillCancel(t, r)

\* A run that is told to stop ends, and its reader with it, also one whose
\* simulator nobody can find any more: Close stops every run there is or
\* will be (context.WithCancel of the manager's context; the reader never
\* blocks on a run that has gone).
StoppedRunsEnd ==
  \A r \in Run :
    Active(r) /\ (r \in cancelled \/ rootDone) ~>
      pc[r] = "ended" /\ reader[r] = "ended"

============================================================================
