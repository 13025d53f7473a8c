---------------------------- MODULE DeviceTwin ----------------------------
(***************************************************************************)
(* What core.Service keeps of one device besides its session: the stored   *)
(* telemetry, the shadow (reported and desired values), and the rules that *)
(* its telemetry triggers.                                                 *)
(*                                                                         *)
(* HandleTelemetry, UpdateDesiredShadow and ApplyConfigProfile each read   *)
(* the shadow, work on the copy and save it back, without a lock around    *)
(* the three; a rule is likewise first asked whether it may trigger and    *)
(* recorded as triggered later.  Each store call is a step here, and the   *)
(* calls of different goroutines interleave between the steps.             *)
(***************************************************************************)
EXTENDS Integers, Sequences, FiniteSets

CONSTANTS
  Handler,      (* Calls of HandleTelemetry.                               *)
  Writer,       (* Calls of UpdateDesiredShadow or ApplyConfigProfile.     *)
  Property, Value,
  Missing,      (* No value, and no call.                                  *)
  Profile,      (* The values of the configuration profile.                *)
  Wishes,       (* The desired values that operators ask for.              *)
  Rules,        (* The action of each rule, in the order of ListRules.     *)
  Watched, Threshold,  (* Every rule triggers on this reported value,      *)
  Cooldown,            (* and at most once in so many seconds.             *)
  MaxTime,      (* Bound on the timestamps that devices put on telemetry.  *)
  MaxRunning    (* Bound on the calls that run at the same time.           *)

Call == Handler \cup Writer
Values == [Property -> Value \cup {Missing}]

ASSUME CallAssumption ==
  Handler \cap Writer = {} /\ Missing \notin Call /\ Missing \notin Value
ASSUME ProfileAssumption == Profile \in Values /\ Wishes \subseteq Values
ASSUME RulesAssumption ==
  Rules \in Seq({"alert", "config"}) /\ Watched \in Property /\ Threshold \in Value
ASSUME TimeAssumption == Cooldown \in Nat /\ MaxTime \in Nat

VARIABLES
  \* The store
  telemetry,        (* The handlers whose telemetry is stored.             *)
  shadow, applied,  (* The shadow, and the profile's applied_count.        *)
  alerts,           (* How many alerts each rule has raised.               *)
  \* Service.ruleStates
  lastTriggered,    (* When each rule triggered; 0 for never.              *)
  \* Each call: its place, arguments, position in the rules, and copies
  pc, message, at, want, rule, copy, count,
  \* History: what triggered, which calls saved the desired values, which
  \* calls ran at the same time as another, and the call that began last
  triggers, desired, overlapped, last

storeVars   == <<telemetry, shadow, applied, alerts>>
callVars    == <<message, at, want>>
historyVars == <<triggers, desired, overlapped, last>>
vars == <<storeVars, lastTriggered, pc, callVars, rule, copy, count, historyVars>>

Nothing == [p \in Property |-> Missing]
NoShadow == [reported |-> Nothing, desired |-> Nothing, version |-> 0]
NewShadow == [NoShadow EXCEPT !.version = 1]

Ended == {"done", "failed"}
Running == {c \in Call : pc[c] \notin Ended \cup {"idle"}}

GoTo(c, from, to) ==
  /\ pc[c] = from
  /\ pc' = [pc EXCEPT ![c] = to]

Begin(c, place) ==
  /\ GoTo(c, "idle", place)
  /\ Cardinality(Running) < MaxRunning
  /\ overlapped' = IF Running = {} THEN overlapped ELSE overlapped \cup Running \cup {c}
  /\ last' = c

(***************************************************************************)
(* HandleTelemetry: telemetry and reported values.                         *)
(***************************************************************************)

\* The device exists and its thing model accepts the values.
HandleTelemetry(h, m, time) ==
  /\ Begin(h, "append")
  /\ message' = [message EXCEPT ![h] = m]
  /\ at' = [at EXCEPT ![h] = time]
  /\ UNCHANGED <<storeVars, lastTriggered, want, rule, copy, count, triggers, desired>>

AppendTelemetry(h) ==
  /\ GoTo(h, "append", "read")
  /\ telemetry' = telemetry \cup {h}
  /\ UNCHANGED <<shadow, applied, alerts, lastTriggered, callVars, rule, copy, count, historyVars>>

\* ensureShadow, for the reported values ("read", "create", "save") and for
\* the desired ones ("desireRead", "desireCreate", "desireSave").
ReadShadow(c, read, create, save) ==
  /\ GoTo(c, read, IF shadow = NoShadow THEN create ELSE save)
  /\ copy' = [copy EXCEPT ![c] = IF shadow = NoShadow THEN NewShadow ELSE shadow]
  /\ UNCHANGED <<storeVars, lastTriggered, callVars, rule, count, historyVars>>

CreateShadow(c, create, save) ==
  /\ GoTo(c, create, save)
  /\ shadow' = copy[c]
  /\ UNCHANGED <<telemetry, applied, alerts, lastTriggered, callVars, rule, copy, count, historyVars>>

\* A mutant: a desired value stays after the device has met it.
MergedOnly(s, m) ==
  [reported |-> [p \in Property |-> IF m[p] # Missing THEN m[p] ELSE s.reported[p]],
   desired  |-> s.desired,
   version  |-> s.version + 1]

\* Reported values are merged in; a desired value the device reports is met.
Merged(s, m) ==
  [reported |-> [p \in Property |-> IF m[p] # Missing THEN m[p] ELSE s.reported[p]],
   desired  |-> [p \in Property |-> IF s.desired[p] = m[p] THEN Missing ELSE s.desired[p]],
   version  |-> s.version + 1]

SaveReported(h) ==
  /\ GoTo(h, "save", "check")
  /\ shadow' = Merged(copy[h], message[h])
  /\ UNCHANGED <<telemetry, applied, alerts, lastTriggered, callVars, rule, copy, count, historyVars>>

(***************************************************************************)
(* evaluateRules: one rule after the other.                                *)
(***************************************************************************)

\* A mutant: an older timestamp passes for a long time ago.
MayTriggerBefore(r, time) ==
  Cooldown = 0 \/ lastTriggered[r] = 0 \/ time < lastTriggered[r]
    \/ time - lastTriggered[r] >= Cooldown

\* canTriggerRule
MayTrigger(r, time) ==
  Cooldown = 0 \/ lastTriggered[r] = 0 \/ time - lastTriggered[r] >= Cooldown

Triggers(h) ==
  /\ message[h][Watched] = Threshold
  /\ MayTrigger(rule[h], at[h])

\* A mutant: the loop runs past the last rule.
SkipAnyRule(h) ==
  /\ pc[h] = "check"
  /\ ~Triggers(h)
  /\ rule' = [rule EXCEPT ![h] = @ + 1]
  /\ UNCHANGED <<storeVars, lastTriggered, pc, callVars, copy, count, historyVars>>

SkipRule(h) ==
  /\ pc[h] = "check" /\ rule[h] <= Len(Rules)
  /\ ~Triggers(h)
  /\ rule' = [rule EXCEPT ![h] = @ + 1]
  /\ UNCHANGED <<storeVars, lastTriggered, pc, callVars, copy, count, historyVars>>

ExecuteActions(h) ==
  /\ rule[h] <= Len(Rules)
  /\ Triggers(h)
  /\ GoTo(h, "check", IF Rules[rule[h]] = "alert" THEN "alert" ELSE "apply")
  /\ UNCHANGED <<storeVars, lastTriggered, callVars, rule, copy, count, historyVars>>

AppendAlert(h) ==
  /\ GoTo(h, "alert", "record")
  /\ alerts' = [alerts EXCEPT ![rule[h]] = @ + 1]
  /\ UNCHANGED <<telemetry, shadow, applied, lastTriggered, callVars, rule, copy, count, historyVars>>

RecordRuleTrigger(h) ==
  /\ GoTo(h, "record", "check")
  /\ lastTriggered' = [lastTriggered EXCEPT ![rule[h]] = at[h]]
  /\ triggers' = triggers \cup {<<rule[h], h>>}
  /\ rule' = [rule EXCEPT ![h] = @ + 1]
  /\ UNCHANGED <<storeVars, callVars, copy, count, desired, overlapped, last>>

TelemetryHandled(h) ==
  /\ rule[h] > Len(Rules)
  /\ GoTo(h, "check", "done")
  /\ copy' = [copy EXCEPT ![h] = NoShadow]
  /\ UNCHANGED <<storeVars, lastTriggered, callVars, rule, count, historyVars>>

(***************************************************************************)
(* UpdateDesiredShadow and ApplyConfigProfile, which calls it.  A handler  *)
(* comes here when a rule applies the profile, and goes on to record the   *)
(* rule.                                                                   *)
(***************************************************************************)
NotApplying == -1

UpdateDesiredShadow(w, d) ==
  /\ Begin(w, "desireRead")
  /\ want' = [want EXCEPT ![w] = d]
  /\ UNCHANGED <<storeVars, lastTriggered, message, at, rule, copy, count, triggers, desired>>

ReadProfile(c) ==
  /\ want' = [want EXCEPT ![c] = Profile]
  /\ count' = [count EXCEPT ![c] = applied]

ApplyConfigProfile(w) ==
  /\ Begin(w, "desireRead")
  /\ ReadProfile(w)
  /\ UNCHANGED <<storeVars, lastTriggered, message, at, rule, copy, triggers, desired>>

\* A mutant: the profile goes onto the copy the handler read for its report.
ApplyToCopy(h) ==
  /\ GoTo(h, "apply", "desireSave")
  /\ ReadProfile(h)
  /\ UNCHANGED <<storeVars, lastTriggered, message, at, rule, copy, historyVars>>

ApplyByRule(h) ==
  /\ GoTo(h, "apply", "desireRead")
  /\ ReadProfile(h)
  /\ UNCHANGED <<storeVars, lastTriggered, message, at, rule, copy, historyVars>>

AfterDesired(c) == IF count[c] # NotApplying THEN "count" ELSE "done"

WithDesired(s, d) == [s EXCEPT !.desired = d, !.version = @ + 1]

SaveDesired(c) ==
  /\ GoTo(c, "desireSave", AfterDesired(c))
  /\ shadow' = WithDesired(copy[c], want[c])
  /\ desired' = desired \cup {c}
  /\ copy' = [copy EXCEPT ![c] = NoShadow]
  /\ UNCHANGED <<telemetry, applied, alerts, lastTriggered, callVars, rule, count,
                 triggers, overlapped, last>>

SaveConfigProfile(c) ==
  /\ GoTo(c, "count", IF c \in Handler THEN "record" ELSE "done")
  /\ applied' = count[c] + 1
  /\ UNCHANGED <<telemetry, shadow, alerts, lastTriggered, callVars, rule, copy, count, historyVars>>

(***************************************************************************)
(* A store call that changes something fails, and changes nothing.  What a *)
(* rule's action runs into is logged, and the rule counts as triggered;    *)
(* any other error is the caller's.                                        *)
(***************************************************************************)
StoreFails(c) ==
  /\ \/ GoTo(c, "append", "failed")
     \/ GoTo(c, "create", "failed")
     \/ GoTo(c, "save", "failed")
     \/ GoTo(c, "alert", "record")
     \/ \E place \in {"desireCreate", "desireSave", "count"} :
          GoTo(c, place, IF c \in Handler THEN "record" ELSE "failed")
  /\ UNCHANGED <<storeVars, lastTriggered, callVars, rule, copy, count, historyVars>>

(***************************************************************************)
(* Specification.                                                          *)
(***************************************************************************)

\* The device exists; its shadow may not (CreateDevice saves it afterwards).
Init ==
  /\ telemetry = {}
  /\ shadow \in {NoShadow, NewShadow}
  /\ applied = 0
  /\ alerts = [r \in 1 .. Len(Rules) |-> 0]
  /\ lastTriggered = [r \in 1 .. Len(Rules) |-> 0]
  /\ pc = [c \in Call |-> "idle"]
  /\ message = [h \in Handler |-> Nothing]
  /\ at = [h \in Handler |-> 0]
  /\ want = [c \in Call |-> Nothing]
  /\ rule = [h \in Handler |-> 1]
  /\ copy = [c \in Call |-> NoShadow]
  /\ count = [c \in Call |-> NotApplying]
  /\ triggers = {}
  /\ desired = {}
  /\ overlapped = {}
  /\ last = Missing

HandlerStep(h) ==
  \/ \E m \in Values \ {Nothing}, time \in 1 .. MaxTime : HandleTelemetry(h, m, time)
  \/ AppendTelemetry(h)
  \/ ReadShadow(h, "read", "create", "save")
  \/ CreateShadow(h, "create", "save")
  \/ SaveReported(h)
  \/ SkipRule(h)
  \/ ExecuteActions(h)
  \/ AppendAlert(h)
  \/ ApplyByRule(h)
  \/ RecordRuleTrigger(h)
  \/ TelemetryHandled(h)

DesireStep(c) ==
  \/ ReadShadow(c, "desireRead", "desireCreate", "desireSave")
  \/ CreateShadow(c, "desireCreate", "desireSave")
  \/ SaveDesired(c)
  \/ SaveConfigProfile(c)

Next ==
  \/ \E h \in Handler : HandlerStep(h)
  \/ \E w \in Writer : ApplyConfigProfile(w) \/ \E d \in Wishes : UpdateDesiredShadow(w, d)
  \/ \E c \in Call : DesireStep(c) \/ StoreFails(c)

Spec == Init /\ [][Next]_vars

(***************************************************************************)
(* Properties.                                                             *)
(***************************************************************************)
Shadows == [reported : Values, desired : Values, version : Nat]

Places ==
  Ended \cup {"idle", "append", "read", "create", "save", "check", "alert", "apply",
              "record", "desireRead", "desireCreate", "desireSave", "count"}

\* Types of the variables.
TypeOK ==
  /\ telemetry \in SUBSET Handler
  /\ shadow \in Shadows
  /\ applied \in Nat
  /\ alerts \in [1 .. Len(Rules) -> Nat]
  /\ lastTriggered \in [1 .. Len(Rules) -> 0 .. MaxTime]
  /\ pc \in [Call -> Places]
  /\ message \in [Handler -> Values]
  /\ at \in [Handler -> 0 .. MaxTime]
  /\ want \in [Call -> Values]
  /\ rule \in [Handler -> 1 .. Len(Rules) + 1]
  /\ copy \in [Call -> Shadows]
  /\ count \in [Call -> Nat \cup {NotApplying}]
  /\ triggers \in SUBSET ((1 .. Len(Rules)) \X Handler)
  /\ desired \in SUBSET Call
  /\ overlapped \in SUBSET Call
  /\ last \in Call \cup {Missing}

Apart(i, j) == i - j >= Cooldown \/ j - i >= Cooldown

\* While a device's messages are handled one after the other, as they are for
\* one connection, no rule triggers twice within its cooldown, whatever the
\* timestamps and whatever fails (canTriggerRule and recordRuleTrigger).
CooldownIsKept ==
  overlapped = {} =>
    \A x, y \in triggers : x # y /\ x[1] = y[1] => Apart(at[x[2]], at[y[2]])

\* A call saves what it has made of the shadow only while the shadow is still
\* what it read, unless it ran at the same time as another; in particular a
\* handler does not undo the configuration that its own message made a rule
\* apply (HandleTelemetry saves the shadow before it evaluates the rules).
NoStaleSave ==
  \A c \in Call :
    pc[c] \in {"save", "desireSave"} /\ c \notin overlapped => copy[c] = shadow

\* When the last call has returned without error and met no other, what it
\* was asked to do is in the shadow: a handler's values are stored and are the
\* reported ones, whatever the device had reported before, and the
\* desired values are those of the profile it applied, or no longer hold what
\* the device has just reported; a writer's desired values are the shadow's.
LastCallIsInShadow ==
  /\ \A c \in Call :
    c = last /\ pc[c] = "done" /\ c \notin overlapped =>
      IF c \in desired THEN shadow.desired = want[c]
      ELSE c \in Handler /\ \A p \in Property :
        message[c][p] # Missing => shadow.desired[p] # message[c][p]
  /\ \A h \in Handler :
    h = last /\ pc[h] = "done" /\ h \notin overlapped =>
      /\ h \in telemetry
      /\ \A p \in Property : message[h][p] # Missing => shadow.reported[p] = message[h][p]

============================================================================
