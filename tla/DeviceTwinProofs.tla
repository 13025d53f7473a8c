------------------------- MODULE DeviceTwinProofs -------------------------
(***************************************************************************)
(* For any calls, properties, rules and cooldown: what the unlocked reads  *)
(* and saves of the device twin still guarantee while calls do not         *)
(* overlap.                                                                *)
(***************************************************************************)
EXTENDS DeviceTwin, TLAPS

USE DEF vars, storeVars, callVars, historyVars

(***************************************************************************)
(* TypeOK.                                                                 *)
(***************************************************************************)
LEMMA ShadowTypes ==
  /\ Nothing \in Values
  /\ NoShadow \in Shadows /\ NewShadow \in Shadows
  /\ \A s \in Shadows, m \in Values :
       Merged(s, m) \in Shadows /\ WithDesired(s, m) \in Shadows
<1>1. Nothing \in Values
  BY DEF Nothing, Values
<1>2. NoShadow \in Shadows /\ NewShadow \in Shadows
  BY <1>1 DEF NoShadow, NewShadow, Shadows
<1>3. ASSUME NEW s \in Shadows, NEW m \in Values
      PROVE  Merged(s, m) \in Shadows /\ WithDesired(s, m) \in Shadows
  <2>1. [p \in Property |-> IF m[p] # Missing THEN m[p] ELSE s.reported[p]] \in Values
    BY DEF Shadows, Values
  <2>2. [p \in Property |-> IF s.desired[p] = m[p] THEN Missing ELSE s.desired[p]] \in Values
    BY DEF Shadows, Values
  <2>3. s.version + 1 \in Nat
    BY DEF Shadows
  <2>4. Merged(s, m) \in Shadows
    BY <2>1, <2>2, <2>3 DEF Merged, Shadows
  <2>5. WithDesired(s, m) \in Shadows
    BY <2>3 DEF WithDesired, Shadows
  <2> QED BY <2>4, <2>5
<1> QED BY <1>1, <1>2, <1>3

\* While a rule's action is carried out, the loop is at a rule.
Acting ==
  {"alert", "apply", "desireRead", "desireCreate", "desireSave", "count", "record"}

ActingOnRule == \A h \in Handler : pc[h] \in Acting => rule[h] <= Len(Rules)

LEMMA TypeInit == Init => TypeOK /\ ActingOnRule
<1>1. Len(Rules) \in Nat
  BY RulesAssumption
<1>2. 0 \in 0 .. MaxTime /\ 1 \in 1 .. Len(Rules) + 1
  BY <1>1, TimeAssumption
<1> QED BY <1>2, ShadowTypes, CallAssumption
        DEF Init, TypeOK, Places, Ended, NotApplying, ActingOnRule, Acting, Call

LEMMA TypeStep == TypeOK /\ ActingOnRule /\ [Next]_vars => TypeOK'
<1> SUFFICES ASSUME TypeOK, ActingOnRule, [Next]_vars PROVE TypeOK'
  OBVIOUS
<1> USE DEF TypeOK, GoTo, Places, Ended
<1>0. Len(Rules) \in Nat
  BY RulesAssumption
<1>1. ASSUME NEW c \in Call, NEW place \in Places, Begin(c, place)
      PROVE  /\ pc' \in [Call -> Places] /\ overlapped' \in SUBSET Call
             /\ last' \in Call \cup {Missing}
  BY <1>1 DEF Begin, Running
<1>2. ASSUME NEW h \in Handler, NEW m \in Values, NEW time \in 1 .. MaxTime,
             HandleTelemetry(h, m, time)
      PROVE  TypeOK'
  <2>1. time \in 0 .. MaxTime /\ h \in Call /\ "append" \in Places
    BY TimeAssumption DEF Call
  <2> QED BY <1>1, <1>2, <2>1 DEF HandleTelemetry
<1>3. ASSUME NEW w \in Writer, NEW d \in Values, UpdateDesiredShadow(w, d)
      PROVE  TypeOK'
  <2>1. w \in Call /\ "desireRead" \in Places
    BY DEF Call
  <2> QED BY <1>1, <1>3, <2>1 DEF UpdateDesiredShadow
<1>4. ASSUME NEW w \in Writer, ApplyConfigProfile(w)
      PROVE  TypeOK'
  <2>1. w \in Call /\ "desireRead" \in Places
    BY DEF Call
  <2> QED BY <1>1, <1>4, <2>1, ProfileAssumption DEF ApplyConfigProfile, ReadProfile
<1>5. ASSUME NEW h \in Handler,
             \/ AppendTelemetry(h) \/ SaveReported(h) \/ SkipRule(h) \/ ExecuteActions(h)
             \/ AppendAlert(h) \/ ApplyByRule(h) \/ RecordRuleTrigger(h) \/ TelemetryHandled(h)
      PROVE  TypeOK'
  <2> USE DEF Call
  <2>1. CASE AppendTelemetry(h)
    BY <2>1 DEF AppendTelemetry
  <2>7. CASE TelemetryHandled(h)
    <3>1. NoShadow \in Shadows
      BY ShadowTypes
    <3> QED BY <2>7, <3>1 DEF TelemetryHandled
  <2>8. CASE ExecuteActions(h)
    BY <2>8, <1>0 DEF ExecuteActions
  <2>2. CASE SaveReported(h)
    <3>1. Merged(copy[h], message[h]) \in Shadows
      BY ShadowTypes
    <3> QED BY <2>2, <3>1 DEF SaveReported
  <2>3. CASE SkipRule(h)
    <3>1. rule[h] + 1 \in 1 .. Len(Rules) + 1
      BY <2>3, <1>0 DEF SkipRule
    <3> QED BY <2>3, <3>1 DEF SkipRule
  <2>4. CASE AppendAlert(h)
    <3>1. rule[h] \in 1 .. Len(Rules)
      BY <2>4, <1>0 DEF AppendAlert, ActingOnRule, Acting
    <3>2. alerts[rule[h]] + 1 \in Nat
      BY <3>1
    <3> QED BY <2>4, <3>2 DEF AppendAlert
  <2>5. CASE ApplyByRule(h)
    BY <2>5, ProfileAssumption DEF ApplyByRule, ReadProfile
  <2>6. CASE RecordRuleTrigger(h)
    <3>1. rule[h] \in 1 .. Len(Rules)
      BY <2>6, <1>0 DEF RecordRuleTrigger, ActingOnRule, Acting
    <3>2. rule[h] + 1 \in 1 .. Len(Rules) + 1
      BY <3>1, <1>0
    <3>3. triggers' \in SUBSET ((1 .. Len(Rules)) \X Handler)
      BY <2>6, <3>1 DEF RecordRuleTrigger
    <3> QED BY <2>6, <3>2, <3>3 DEF RecordRuleTrigger
  <2> QED BY <1>5, <2>1, <2>2, <2>3, <2>4, <2>5, <2>6, <2>7, <2>8
<1>6. ASSUME NEW c \in Call, NEW read, NEW create \in Places, NEW save \in Places,
             ReadShadow(c, read, create, save) \/ CreateShadow(c, create, save)
      PROVE  TypeOK'
  <2>1. CASE ReadShadow(c, read, create, save)
    <3>1. (IF shadow = NoShadow THEN NewShadow ELSE shadow) \in Shadows
      BY ShadowTypes
    <3> QED BY <2>1, <3>1 DEF ReadShadow
  <2>2. CASE CreateShadow(c, create, save)
    BY <2>2 DEF CreateShadow
  <2> QED BY <1>6, <2>1, <2>2
<1>7. ASSUME NEW c \in Call, SaveDesired(c) \/ SaveConfigProfile(c) \/ StoreFails(c)
      PROVE  TypeOK'
  <2>1. CASE SaveDesired(c)
    <3>1. WithDesired(copy[c], want[c]) \in Shadows /\ NoShadow \in Shadows
      BY ShadowTypes
    <3> QED BY <2>1, <3>1 DEF SaveDesired, AfterDesired
  <2>2. CASE SaveConfigProfile(c)
    <3>1. count[c] + 1 \in Nat
      <4>1. count[c] \in Nat \cup {-1}
        BY DEF NotApplying
      <4> QED BY <4>1
    <3> QED BY <2>2, <3>1 DEF SaveConfigProfile
  <2>3. CASE StoreFails(c)
    BY <2>3 DEF StoreFails
  <2> QED BY <1>7, <2>1, <2>2, <2>3
<1>8. CASE UNCHANGED vars
  BY <1>8
<1> HIDE DEF TypeOK, GoTo
<1>9. ASSUME NEW h \in Handler, HandlerStep(h)
      PROVE  TypeOK'
  <2>1. h \in Call /\ {"create", "save"} \subseteq Places
    BY DEF Call
  <2> QED BY <1>2, <1>5, <1>6, <1>9, <2>1 DEF HandlerStep
<1>10. ASSUME NEW c \in Call, DesireStep(c)
      PROVE  TypeOK'
  <2>1. {"desireCreate", "desireSave"} \subseteq Places
    OBVIOUS
  <2> QED BY <1>6, <1>7, <1>10, <2>1 DEF DesireStep
<1> QED BY <1>3, <1>4, <1>7, <1>8, <1>9, <1>10, ProfileAssumption DEF Next

LEMMA ActingStep == TypeOK /\ ActingOnRule /\ [Next]_vars => ActingOnRule'
<1> SUFFICES ASSUME TypeOK, ActingOnRule, [Next]_vars PROVE ActingOnRule'
  OBVIOUS
<1> USE CallAssumption DEF TypeOK, GoTo, Begin, ActingOnRule, Acting, Call
<1>1. ASSUME NEW w \in Writer,
             ApplyConfigProfile(w) \/ \E d \in Wishes : UpdateDesiredShadow(w, d)
      PROVE  ActingOnRule'
  BY <1>1 DEF ApplyConfigProfile, UpdateDesiredShadow
<1>2. ASSUME NEW h \in Handler, HandlerStep(h)
      PROVE  ActingOnRule'
  <2>1. CASE \E m \in Values \ {Nothing}, time \in 1 .. MaxTime : HandleTelemetry(h, m, time)
    BY <2>1 DEF HandleTelemetry
  <2>2. CASE AppendTelemetry(h) \/ SaveReported(h) \/ TelemetryHandled(h)
             \/ ReadShadow(h, "read", "create", "save") \/ CreateShadow(h, "create", "save")
    BY <2>2 DEF AppendTelemetry, SaveReported, TelemetryHandled, ReadShadow, CreateShadow
  <2>3. CASE SkipRule(h) \/ ExecuteActions(h)
    BY <2>3 DEF SkipRule, ExecuteActions
  <2>4. CASE AppendAlert(h) \/ ApplyByRule(h) \/ RecordRuleTrigger(h)
    BY <2>4 DEF AppendAlert, ApplyByRule, RecordRuleTrigger
  <2> QED BY <1>2, <2>1, <2>2, <2>3, <2>4 DEF HandlerStep
<1>3. ASSUME NEW c \in Call, DesireStep(c)
      PROVE  ActingOnRule'
  BY <1>3 DEF DesireStep, ReadShadow, CreateShadow, SaveDesired, AfterDesired, SaveConfigProfile
<1>4. ASSUME NEW c \in Call, StoreFails(c)
      PROVE  ActingOnRule'
  BY <1>4 DEF StoreFails
<1>5. CASE UNCHANGED vars
  BY <1>5
<1> QED BY <1>1, <1>2, <1>3, <1>4, <1>5 DEF Next

(***************************************************************************)
(* TypeOK: the shadow keeps its shape, the loop over the rules its bounds. *)
(***************************************************************************)
LEMMA Types == Spec => [](TypeOK /\ ActingOnRule)
BY TypeInit, TypeStep, ActingStep, PTL DEF Spec

THEOREM TypeCorrect == Spec => []TypeOK
BY Types, PTL

(***************************************************************************)
(* Each step is one call's.  Begins and Works say what a step does to the  *)
(* calls, so that the invariants below need not look at every action.      *)
(***************************************************************************)
IsRunning(c) == pc[c] \notin Ended \cup {"idle"}

\* A call begins, and leaves the shadow and the rules alone.
Begins(c) ==
  /\ pc[c] = "idle"
  /\ pc' = [pc EXCEPT ![c] = IF c \in Handler THEN "append" ELSE "desireRead"]
  /\ overlapped' = IF Running = {} THEN overlapped ELSE overlapped \cup Running \cup {c}
  /\ \A h \in Handler : h # c => at'[h] = at[h]
  /\ c \in Handler => at'[c] >= 1
  /\ UNCHANGED <<shadow, copy, rule, lastTriggered, triggers>>

\* A running call takes a step that neither moves it along the rules nor
\* takes it into a rule's actions.
Proceeds(c) ==
  /\ UNCHANGED <<rule, lastTriggered, triggers>>
  /\ c \in Handler /\ pc'[c] \in Acting => pc[c] \in Acting

Works(c) ==
  /\ IsRunning(c)
  /\ \E to \in Places \ {"idle"} : pc' = [pc EXCEPT ![c] = to]
  /\ \A d \in Call : d # c => copy'[d] = copy[d]
  /\ pc'[c] \in {"save", "desireSave"} => copy'[c] = shadow'
  /\ UNCHANGED <<overlapped, at>>
  /\ \/ Proceeds(c)
     \/ c \in Handler /\ (SkipRule(c) \/ ExecuteActions(c) \/ RecordRuleTrigger(c))

LEMMA BeginShape ==
  ASSUME TypeOK,
         \/ \E h \in Handler, m \in Values \ {Nothing}, time \in 1 .. MaxTime :
              HandleTelemetry(h, m, time)
         \/ \E w \in Writer : ApplyConfigProfile(w) \/ \E d \in Wishes : UpdateDesiredShadow(w, d)
  PROVE  \E c \in Call : Begins(c)
<1> USE CallAssumption DEF Call, Begin, GoTo, Begins, TypeOK
<1>1. ASSUME NEW h \in Handler, NEW m \in Values, NEW time \in 1 .. MaxTime,
             HandleTelemetry(h, m, time)
      PROVE  Begins(h)
  <2>1. at'[h] >= 1 /\ \A g \in Handler : g # h => at'[g] = at[g]
    BY <1>1, TimeAssumption DEF HandleTelemetry
  <2> QED BY <1>1, <2>1 DEF HandleTelemetry
<1>2. ASSUME NEW w \in Writer,
             ApplyConfigProfile(w) \/ \E d \in Wishes : UpdateDesiredShadow(w, d)
      PROVE  Begins(w)
  BY <1>2 DEF ApplyConfigProfile, ReadProfile, UpdateDesiredShadow
<1> QED BY <1>1, <1>2

LEMMA WorkShape ==
  ASSUME TypeOK, NEW c \in Call,
         \/ c \in Handler /\ HandlerStep(c)
              /\ ~ \E m \in Values \ {Nothing}, time \in 1 .. MaxTime : HandleTelemetry(c, m, time)
         \/ DesireStep(c) \/ StoreFails(c)
  PROVE  Works(c)
<1> USE CallAssumption DEF Call, GoTo, Works, IsRunning, Proceeds, TypeOK, Places, Ended, Acting
<1>1. ASSUME c \in Handler,
             \/ AppendTelemetry(c) \/ SaveReported(c) \/ AppendAlert(c) \/ ApplyByRule(c)
             \/ TelemetryHandled(c)
      PROVE  Works(c)
  BY <1>1 DEF AppendTelemetry, SaveReported, AppendAlert, ApplyByRule, ReadProfile, TelemetryHandled
<1>2. ASSUME c \in Handler, SkipRule(c) \/ ExecuteActions(c) \/ RecordRuleTrigger(c)
      PROVE  Works(c)
  <2>1. CASE SkipRule(c)
    <3>1. pc' = [pc EXCEPT ![c] = "check"] /\ IsRunning(c)
      BY <2>1 DEF SkipRule
    <3> QED BY <1>2, <2>1, <3>1 DEF SkipRule
  <2>2. CASE ExecuteActions(c)
    <3>1. UNCHANGED <<copy, overlapped, at>> /\ IsRunning(c)
      BY <2>2 DEF ExecuteActions
    <3>2. \E to \in {"alert", "apply"} : pc' = [pc EXCEPT ![c] = to]
      BY <2>2 DEF ExecuteActions
    <3> QED BY <1>2, <2>2, <3>1, <3>2
  <2>3. CASE RecordRuleTrigger(c)
    <3>1. UNCHANGED <<copy, overlapped, at>> /\ IsRunning(c) /\ pc' = [pc EXCEPT ![c] = "check"]
      BY <2>3 DEF RecordRuleTrigger
    <3> QED BY <1>2, <2>3, <3>1
  <2> QED BY <1>2, <2>1, <2>2, <2>3
<1>3. CASE \/ ReadShadow(c, "read", "create", "save") /\ c \in Handler
           \/ ReadShadow(c, "desireRead", "desireCreate", "desireSave")
  BY <1>3 DEF ReadShadow
<1>4. CASE \/ CreateShadow(c, "create", "save") /\ c \in Handler
           \/ CreateShadow(c, "desireCreate", "desireSave")
  BY <1>4 DEF CreateShadow
<1>5. CASE SaveDesired(c) \/ SaveConfigProfile(c)
  BY <1>5 DEF SaveDesired, AfterDesired, SaveConfigProfile
<1>6. CASE StoreFails(c)
  BY <1>6 DEF StoreFails
<1> HIDE DEF Works
<1> QED BY <1>1, <1>2, <1>3, <1>4, <1>5, <1>6 DEF HandlerStep, DesireStep

LEMMA StepShape ==
  ASSUME TypeOK, [Next]_vars
  PROVE  (\E c \in Call : Begins(c) \/ Works(c)) \/ UNCHANGED vars
<1>1. \A h \in Handler : h \in Call
  BY DEF Call
<1> QED BY <1>1, BeginShape, WorkShape DEF Next, HandlerStep

(***************************************************************************)
(* Two calls that run are both known to have met.                          *)
(***************************************************************************)
OverlapKnown ==
  \A c, d \in Call : c # d /\ IsRunning(c) /\ IsRunning(d) => c \in overlapped

LEMMA OverlapStep ==
  ASSUME TypeOK, OverlapKnown, [Next]_vars
  PROVE  OverlapKnown' /\ overlapped \subseteq overlapped'
<1> USE DEF TypeOK, OverlapKnown, IsRunning, Running
<1>1. ASSUME NEW c \in Call, Begins(c)
      PROVE  OverlapKnown' /\ overlapped \subseteq overlapped'
  BY <1>1 DEF Begins
<1>2. ASSUME NEW c \in Call, Works(c)
      PROVE  OverlapKnown' /\ overlapped \subseteq overlapped'
  BY <1>2 DEF Works
<1>3. CASE UNCHANGED vars
  BY <1>3
<1> QED BY <1>1, <1>2, <1>3, StepShape

(***************************************************************************)
(* NoStaleSave: another call that changes the shadow is running, and so    *)
(* the two have met.                                                       *)
(***************************************************************************)
LEMMA NoStaleStep ==
  ASSUME TypeOK, OverlapKnown, NoStaleSave, [Next]_vars
  PROVE  NoStaleSave'
<1> USE DEF TypeOK, OverlapKnown, NoStaleSave, IsRunning, Ended
<1>1. overlapped \subseteq overlapped'
  BY OverlapStep
<1>2. ASSUME NEW c \in Call, Begins(c)
      PROVE  NoStaleSave'
  BY <1>1, <1>2 DEF Begins
<1>3. ASSUME NEW c \in Call, Works(c)
      PROVE  NoStaleSave'
  <2>1. ASSUME NEW d \in Call, d # c, pc'[d] \in {"save", "desireSave"}, d \notin overlapped'
        PROVE  FALSE
    BY <1>1, <1>3, <2>1 DEF Works
  <2> QED BY <1>3, <2>1 DEF Works
<1>4. CASE UNCHANGED vars
  BY <1>4
<1> QED BY <1>2, <1>3, <1>4, StepShape

LEMMA Overlaps == Spec => []OverlapKnown
<1>1. Init => OverlapKnown
  BY DEF Init, OverlapKnown, IsRunning
<1>2. TypeOK /\ OverlapKnown /\ [Next]_vars => OverlapKnown'
  BY OverlapStep
<1> QED BY <1>1, <1>2, TypeCorrect, PTL DEF Spec

\* What a call saves is made from the shadow as it is, unless it has met
\* another call: HandleTelemetry, UpdateDesiredShadow and ApplyConfigProfile,
\* also when a rule applies a profile in the middle of HandleTelemetry.
THEOREM NoSaveIsStale == Spec => []NoStaleSave
<1>1. Init => NoStaleSave
  BY DEF Init, NoStaleSave
<1>2. TypeOK /\ OverlapKnown /\ NoStaleSave /\ [Next]_vars => NoStaleSave'
  BY NoStaleStep
<1> QED BY <1>1, <1>2, TypeCorrect, Overlaps, PTL DEF Spec

(***************************************************************************)
(* CooldownIsKept: nothing that triggered is later than lastTriggered, and *)
(* what carries out a rule's actions may still trigger it.                 *)
(***************************************************************************)
RecordedLast ==
  \A x \in triggers :
    pc[x[2]] # "idle" /\ at[x[2]] <= lastTriggered[x[1]] /\ lastTriggered[x[1]] >= 1

TimesArePositive == \A h \in Handler : pc[h] # "idle" => at[h] >= 1

ActorsMayTrigger == \A h \in Handler : pc[h] \in Acting => MayTrigger(rule[h], at[h])

Apartness == \A x, y \in triggers : x # y /\ x[1] = y[1] => Apart(at[x[2]], at[y[2]])

CooldownInv ==
  Cooldown > 0 /\ overlapped = {} =>
    RecordedLast /\ TimesArePositive /\ ActorsMayTrigger /\ Apartness

LEMMA RecordKeepsApart ==
  ASSUME TypeOK, Cooldown > 0, RecordedLast, TimesArePositive, ActorsMayTrigger, Apartness,
         NEW h \in Handler, RecordRuleTrigger(h), rule[h] \in 1 .. Len(Rules)
  PROVE  RecordedLast' /\ Apartness'
<1> USE DEF TypeOK, RecordedLast, TimesArePositive
<1>1. at[h] \in Int /\ lastTriggered[rule[h]] \in Int /\ MaxTime \in Int /\ Cooldown \in Int
  BY TimeAssumption
<1>2. at[h] >= 1 /\ pc'[h] # "idle" /\ h \in Call
  BY DEF RecordRuleTrigger, GoTo, Call
<1>3. lastTriggered[rule[h]] = 0 \/ at[h] - lastTriggered[rule[h]] >= Cooldown
  BY DEF ActorsMayTrigger, MayTrigger, RecordRuleTrigger, GoTo, Acting
<1>4. ASSUME NEW y \in triggers, y[1] = rule[h]
      PROVE  at[y[2]] <= at[h] /\ at[h] - at[y[2]] >= Cooldown
  <2>1. at[y[2]] \in Int
    OBVIOUS
  <2> QED BY <1>1, <1>3, <1>4, <2>1
<1>5. RecordedLast'
  <2>1. ASSUME NEW x \in triggers'
        PROVE  pc'[x[2]] # "idle" /\ at'[x[2]] <= lastTriggered'[x[1]] /\ lastTriggered'[x[1]] >= 1
    <3>1. CASE x = <<rule[h], h>>
      BY <1>1, <1>2, <3>1 DEF RecordRuleTrigger, callVars
    <3>2. CASE x \in triggers /\ x[1] = rule[h]
      <4>1. at[x[2]] <= at[h]
        BY <1>4, <3>2
      <4> QED BY <1>2, <3>2, <4>1 DEF RecordRuleTrigger, GoTo, callVars
    <3>3. CASE x \in triggers /\ x[1] # rule[h]
      BY <1>2, <3>3 DEF RecordRuleTrigger, GoTo, callVars
    <3> QED BY <2>1, <3>1, <3>2, <3>3 DEF RecordRuleTrigger
  <2> QED BY <2>1
<1>6. Apartness'
  <2>1. ASSUME NEW y \in triggers, y[1] = rule[h]
        PROVE  Apart(at[h], at[y[2]]) /\ Apart(at[y[2]], at[h])
    BY <1>4, <2>1 DEF Apart
  <2>2. triggers' = triggers \cup {<<rule[h], h>>} /\ at' = at
    BY DEF RecordRuleTrigger, callVars
  <2>3. ASSUME NEW x \in triggers', NEW y \in triggers', x # y, x[1] = y[1]
        PROVE  Apart(at'[x[2]], at'[y[2]])
    <3>1. CASE x \in triggers /\ y \in triggers
      BY <2>2, <2>3, <3>1 DEF Apartness
    <3>2. CASE x = <<rule[h], h>> /\ y \in triggers
      BY <2>1, <2>2, <2>3, <3>2
    <3>3. CASE x \in triggers /\ y = <<rule[h], h>>
      BY <2>1, <2>2, <2>3, <3>3
    <3> QED BY <2>2, <2>3, <3>1, <3>2, <3>3
  <2> QED BY <2>3 DEF Apartness, Apart
<1> QED BY <1>5, <1>6

LEMMA CooldownStep ==
  ASSUME TypeOK, ActingOnRule, OverlapKnown, CooldownInv, [Next]_vars
  PROVE  CooldownInv'
<1> SUFFICES ASSUME Cooldown > 0, overlapped' = {}
             PROVE  (RecordedLast /\ TimesArePositive /\ ActorsMayTrigger /\ Apartness)'
  BY DEF CooldownInv
<1>0. overlapped = {}
  BY OverlapStep
<1>1. RecordedLast /\ TimesArePositive /\ ActorsMayTrigger /\ Apartness
  BY <1>0 DEF CooldownInv
<1> USE DEF RecordedLast, TimesArePositive, ActorsMayTrigger, Apartness
<1>2. ASSUME NEW c \in Call, Begins(c)
      PROVE  (RecordedLast /\ TimesArePositive /\ ActorsMayTrigger /\ Apartness)'
  <2>1. \A x \in triggers : x[2] # c /\ x[2] \in Handler
    BY <1>1, <1>2 DEF Begins, TypeOK
  <2>2. RecordedLast' /\ Apartness'
    BY <1>1, <1>2, <2>1 DEF Begins, TypeOK, Apart
  <2>3. TimesArePositive'
    BY <1>1, <1>2 DEF Begins, TypeOK
  <2>4. ActorsMayTrigger'
    BY <1>1, <1>2 DEF Begins, TypeOK, Acting, MayTrigger
  <2> QED BY <2>2, <2>3, <2>4
<1>3. ASSUME NEW c \in Call, Works(c)
      PROVE  (RecordedLast /\ TimesArePositive /\ ActorsMayTrigger /\ Apartness)'
  <2>1. TimesArePositive'
    BY <1>1, <1>3 DEF Works, TypeOK, IsRunning
  <2>2. ASSUME NEW h \in Handler, h # c
        PROVE  pc'[h] \notin Acting
    BY <1>0, <1>3, <2>2 DEF Works, TypeOK, OverlapKnown, IsRunning, Acting, Ended, Call
  <2>3. CASE Proceeds(c)
    <3>1. RecordedLast' /\ Apartness'
      BY <1>1, <1>3, <2>3 DEF Works, Proceeds, TypeOK, Apart
    <3>2. ActorsMayTrigger'
      BY <1>1, <1>3, <2>2, <2>3 DEF Works, Proceeds, TypeOK, MayTrigger
    <3> QED BY <2>1, <3>1, <3>2
  <2>4. CASE c \in Handler /\ (SkipRule(c) \/ ExecuteActions(c))
    <3>1. UNCHANGED <<triggers, lastTriggered>>
      BY <2>4 DEF SkipRule, ExecuteActions
    <3>2. RecordedLast' /\ Apartness'
      BY <1>1, <1>3, <3>1 DEF Works, TypeOK, Apart
    <3>3. ActorsMayTrigger'
      <4>1. CASE SkipRule(c)
        BY <2>2, <4>1 DEF SkipRule, Acting
      <4>2. CASE ExecuteActions(c)
        BY <1>3, <2>2, <3>1, <4>2 DEF ExecuteActions, Triggers, MayTrigger, Works
      <4> QED BY <2>4, <4>1, <4>2
    <3> QED BY <2>1, <3>2, <3>3
  <2>5. CASE c \in Handler /\ RecordRuleTrigger(c)
    <3>1. rule[c] \in 1 .. Len(Rules)
      <4>1. rule[c] <= Len(Rules) /\ Len(Rules) \in Nat
        BY <2>5, RulesAssumption DEF ActingOnRule, RecordRuleTrigger, GoTo, Acting
      <4> QED BY <2>5, <4>1 DEF TypeOK
    <3>2. RecordedLast' /\ Apartness'
      <4> HIDE DEF RecordedLast, TimesArePositive, ActorsMayTrigger, Apartness
      <4> QED BY <1>1, <2>5, <3>1, RecordKeepsApart
    <3>3. ActorsMayTrigger'
      BY <2>2, <2>5 DEF RecordRuleTrigger, GoTo, TypeOK, Acting
    <3> QED BY <2>1, <3>2, <3>3
  <2> QED BY <1>3, <2>3, <2>4, <2>5 DEF Works
<1>4. CASE UNCHANGED vars
  BY <1>1, <1>4 DEF MayTrigger, Apart
<1> QED BY <1>2, <1>3, <1>4, StepShape

\* A rule does not trigger twice within its cooldown while a device's messages
\* are handled one after the other, for any rules, cooldown and timestamps:
\* canTriggerRule and recordRuleTrigger.
THEOREM CooldownHolds == Spec => []CooldownIsKept
<1>1. Init => CooldownInv
  BY DEF Init, CooldownInv, RecordedLast, TimesArePositive, ActorsMayTrigger, Apartness, Acting, Call
<1>2. TypeOK /\ ActingOnRule /\ OverlapKnown /\ CooldownInv /\ [Next]_vars => CooldownInv'
  BY CooldownStep
<1>3. TypeOK /\ CooldownInv => CooldownIsKept
  <2>1. ASSUME TypeOK, Cooldown = 0 PROVE CooldownIsKept
    <3>1. \A i, j \in 0 .. MaxTime : Apart(i, j)
      BY <2>1, TimeAssumption DEF Apart
    <3> QED BY <2>1, <3>1 DEF CooldownIsKept, TypeOK
  <2>2. ASSUME CooldownInv, Cooldown > 0 PROVE CooldownIsKept
    BY <2>2 DEF CooldownInv, Apartness, CooldownIsKept
  <2> QED BY <2>1, <2>2, TimeAssumption
<1> QED BY <1>1, <1>2, <1>3, Types, Overlaps, PTL DEF Spec

(***************************************************************************)
(* LastCallIsInShadow.  A call that met no other is, from its beginning to *)
(* the beginning of the next one, the only one that runs; SoFar says what  *)
(* it has done by each place it can be at.                                 *)
(***************************************************************************)
DesiredPlaces ==
  \A c \in desired :
    /\ pc[c] \notin {"idle", "append", "read", "create", "save"}
    /\ c \in Writer => pc[c] \in {"count", "done", "failed"}

LastRunsAlone ==
  last \notin overlapped => \A c \in Call : c # last => ~IsRunning(c)

\* Where a handler is after it has saved the reported values.
Reporting == (Acting \ {"desireCreate"}) \cup {"check", "done"}

\* The reported values of the shadow, and the desired ones that a report met.
IsReported(h) == \A p \in Property : message[h][p] # Missing => shadow.reported[p] = message[h][p]
IsMet(h) == \A p \in Property : message[h][p] # Missing => shadow.desired[p] # message[h][p]

HandlerSoFar(h) ==
  /\ pc[h] \notin {"idle", "append", "failed"} => h \in telemetry
  /\ pc[h] \in {"idle", "append", "read", "create", "save", "failed"} \cup Reporting
  /\ pc[h] \in Reporting =>
       IsReported(h) /\ shadow.version >= 1 /\ (h \notin desired => IsMet(h))
  /\ h \in desired \/ pc[h] \in {"desireRead", "desireSave", "count"} => want[h] = Profile

WriterSoFar(w) == pc[w] \in {"count", "done"} => w \in desired

SoFar ==
  \A c \in Call :
    c = last /\ c \notin overlapped =>
      /\ c \in Handler => HandlerSoFar(c)
      /\ c \in Writer => WriterSoFar(c)
      /\ c \in desired => shadow.desired = want[c]

LastInv == DesiredPlaces /\ LastRunsAlone /\ SoFar

LEMMA MergedIsReported ==
  ASSUME NEW s \in Shadows, NEW m \in Values
  PROVE  /\ Merged(s, m).version >= 1
         /\ \A p \in Property : m[p] # Missing =>
              Merged(s, m).reported[p] = m[p] /\ Merged(s, m).desired[p] # m[p]
BY DEF Merged, Shadows, Values

\* The call that begins is the last one.
LEMMA LastBegins ==
  ASSUME TypeOK, LastInv, NEW c \in Call, Begins(c), last' = c, UNCHANGED desired
  PROVE  LastInv'
<1> USE CallAssumption DEF LastInv, Begins, TypeOK, Call
<1>1. c \notin desired
  BY DEF DesiredPlaces
<1>2. DesiredPlaces'
  BY <1>1 DEF DesiredPlaces
<1>3. ASSUME last' \notin overlapped'
      PROVE  Running = {}
  BY <1>3
<1>4. LastRunsAlone'
  BY <1>3 DEF LastRunsAlone, Running, IsRunning
<1>5. SoFar'
  BY <1>1 DEF SoFar, HandlerSoFar, WriterSoFar, Reporting, Acting
<1> QED BY <1>2, <1>4, <1>5

\* The only call that can go on while the last one has met nobody is itself.
LEMMA LastWorksAlone ==
  ASSUME TypeOK, LastRunsAlone, NEW c \in Call, Works(c), UNCHANGED last
  PROVE  /\ LastRunsAlone'
         /\ last \notin overlapped => last = c
<1> USE DEF TypeOK, LastRunsAlone, Works
<1>1. last \notin overlapped => last = c
  OBVIOUS
<1>2. \A d \in Call : d # c => pc'[d] = pc[d]
  OBVIOUS
<1> QED BY <1>1, <1>2 DEF IsRunning

LEMMA LastByHandler ==
  ASSUME TypeOK, LastInv, NEW h \in Handler,
         \/ AppendTelemetry(h) \/ SaveReported(h) \/ SkipRule(h) \/ ExecuteActions(h)
         \/ AppendAlert(h) \/ ApplyByRule(h) \/ RecordRuleTrigger(h) \/ TelemetryHandled(h)
         \/ ReadShadow(h, "read", "create", "save") \/ CreateShadow(h, "create", "save")
  PROVE  LastInv'
<1>0. h \in Call /\ h \notin Writer
  BY CallAssumption DEF Call
<1>1. Works(h)
  BY <1>0, WorkShape, CallAssumption DEF HandlerStep, GoTo, HandleTelemetry, Begin,
     AppendTelemetry, SaveReported, SkipRule, ExecuteActions, AppendAlert, ApplyByRule,
     RecordRuleTrigger, TelemetryHandled, ReadShadow, CreateShadow
<1>2. UNCHANGED <<desired, last, overlapped, message>>
  BY DEF AppendTelemetry, SaveReported, SkipRule, ExecuteActions, AppendAlert, ApplyByRule,
     ReadProfile, RecordRuleTrigger, TelemetryHandled, ReadShadow, CreateShadow
<1>3. LastRunsAlone' /\ (last \notin overlapped => last = h)
  BY <1>0, <1>1, <1>2, LastWorksAlone DEF LastInv
<1> USE DEF LastInv, GoTo, TypeOK
<1>4. DesiredPlaces'
  BY <1>0, <1>2 DEF DesiredPlaces, AppendTelemetry, SaveReported, SkipRule, ExecuteActions,
     AppendAlert, ApplyByRule, RecordRuleTrigger, TelemetryHandled, ReadShadow, CreateShadow
<1>5. SUFFICES ASSUME h = last, h \notin overlapped
               PROVE  HandlerSoFar(h)' /\ (h \in desired => shadow'.desired = want'[h])
  BY <1>0, <1>2, <1>3, <1>4 DEF SoFar
<1>6. HandlerSoFar(h) /\ (h \in desired => shadow.desired = want[h])
  BY <1>0, <1>5 DEF SoFar
<1> USE DEF HandlerSoFar, Reporting, Acting, IsReported, IsMet
<1>7. CASE AppendTelemetry(h)
  BY <1>2, <1>6, <1>7 DEF AppendTelemetry, DesiredPlaces
<1>8. CASE ReadShadow(h, "read", "create", "save") \/ CreateShadow(h, "create", "save")
  BY <1>2, <1>6, <1>8 DEF ReadShadow, CreateShadow, DesiredPlaces
<1>9. CASE SaveReported(h)
  <2>1. shadow' = Merged(copy[h], message[h]) /\ pc[h] = "save" /\ pc'[h] = "check"
    BY <1>0, <1>9 DEF SaveReported
  <2>2. h \notin desired
    BY <2>1 DEF DesiredPlaces
  <2>3. IsReported(h)' /\ IsMet(h)' /\ shadow'.version >= 1
    BY <1>0, <1>2, <2>1, MergedIsReported
  <2> QED BY <1>2, <1>6, <1>9, <2>1, <2>2, <2>3 DEF SaveReported
<1>10. CASE \/ SkipRule(h) \/ ExecuteActions(h) \/ AppendAlert(h)
            \/ RecordRuleTrigger(h) \/ TelemetryHandled(h)
  <2>1. UNCHANGED <<shadow, telemetry, want>> /\ pc[h] \in Reporting
    BY <1>10 DEF SkipRule, ExecuteActions, AppendAlert, RecordRuleTrigger, TelemetryHandled
  <2>2. pc'[h] \in {"check", "alert", "apply", "record", "done"}
    BY <1>0, <1>10 DEF SkipRule, ExecuteActions, AppendAlert, RecordRuleTrigger, TelemetryHandled
  <2> QED BY <1>2, <1>6, <2>1, <2>2
<1>11. CASE ApplyByRule(h)
  BY <1>0, <1>2, <1>6, <1>11 DEF ApplyByRule, ReadProfile
<1> QED BY <1>7, <1>8, <1>9, <1>10, <1>11

LEMMA LastByDesire ==
  ASSUME TypeOK, NoStaleSave, LastInv, NEW c \in Call, DesireStep(c) \/ StoreFails(c)
  PROVE  LastInv'
<1>1. Works(c)
  BY WorkShape
<1>2. UNCHANGED <<last, overlapped, message, want, telemetry>>
  BY DEF DesireStep, ReadShadow, CreateShadow, SaveDesired, SaveConfigProfile, StoreFails
<1>3. LastRunsAlone' /\ (last \notin overlapped => last = c)
  BY <1>1, <1>2, LastWorksAlone DEF LastInv
<1> USE CallAssumption DEF LastInv, GoTo, TypeOK, Call
<1>4. desired' = desired \/ (SaveDesired(c) /\ desired' = desired \cup {c})
  BY DEF DesireStep, ReadShadow, CreateShadow, SaveDesired, SaveConfigProfile, StoreFails
<1>5. DesiredPlaces'
  <2>1. CASE SaveDesired(c)
    BY <1>4, <2>1 DEF DesiredPlaces, SaveDesired, AfterDesired
  <2>2. CASE SaveConfigProfile(c)
    BY <2>2 DEF DesiredPlaces, SaveConfigProfile
  <2>3. CASE \/ ReadShadow(c, "desireRead", "desireCreate", "desireSave")
             \/ CreateShadow(c, "desireCreate", "desireSave")
    BY <2>3 DEF DesiredPlaces, ReadShadow, CreateShadow
  <2>4. CASE StoreFails(c)
    BY <2>4 DEF DesiredPlaces, StoreFails
  <2> QED BY <2>1, <2>2, <2>3, <2>4 DEF DesireStep
<1>6. SUFFICES ASSUME c = last, c \notin overlapped
               PROVE  /\ c \in Handler => HandlerSoFar(c)'
                      /\ c \in Writer => WriterSoFar(c)'
                      /\ c \in desired' => shadow'.desired = want[c]
  BY <1>2, <1>3, <1>5 DEF SoFar
<1>7. /\ c \in Handler => HandlerSoFar(c)
      /\ c \in Writer => WriterSoFar(c)
      /\ c \in desired => shadow.desired = want[c]
  BY <1>6 DEF SoFar
<1> USE DEF HandlerSoFar, WriterSoFar, Reporting, Acting, IsReported, IsMet
<1>8. CASE ReadShadow(c, "desireRead", "desireCreate", "desireSave")
  <2>1. UNCHANGED <<shadow, desired>>
    BY <1>8 DEF ReadShadow
  <2>2. ASSUME c \in Handler PROVE pc'[c] = "desireSave"
    <3>1. shadow.version >= 1
      BY <1>7, <1>8, <2>2 DEF ReadShadow
    <3>2. shadow # NoShadow
      BY <3>1 DEF NoShadow
    <3> QED BY <1>8, <3>2 DEF ReadShadow
  <2>3. ASSUME c \in Writer PROVE pc'[c] \in {"desireCreate", "desireSave"}
    BY <1>8 DEF ReadShadow
  <2>4. pc[c] = "desireRead"
    BY <1>8 DEF ReadShadow
  <2> QED BY <1>2, <1>7, <2>1, <2>2, <2>3, <2>4
<1>9. CASE CreateShadow(c, "desireCreate", "desireSave")
  <2>1. c \notin Handler /\ c \notin desired /\ desired' = desired
    BY <1>7, <1>9 DEF CreateShadow, DesiredPlaces
  <2> QED BY <1>9, <2>1 DEF CreateShadow
<1>10. CASE SaveDesired(c)
  <2>1. copy[c] = shadow
    BY <1>6, <1>10 DEF NoStaleSave, SaveDesired
  <2>2. /\ shadow' = WithDesired(shadow, want[c]) /\ c \in desired'
        /\ pc[c] = "desireSave" /\ pc'[c] \in {"count", "done"}
    BY <1>10, <2>1 DEF SaveDesired, AfterDesired
  <2>3. /\ shadow'.reported = shadow.reported /\ shadow'.desired = want[c]
        /\ shadow'.version = shadow.version + 1 /\ shadow.version \in Nat
    BY <2>2 DEF WithDesired, Shadows
  <2> QED BY <1>2, <1>7, <2>2, <2>3
<1>11. CASE SaveConfigProfile(c)
  <2>1. /\ UNCHANGED <<shadow, desired>> /\ pc[c] = "count"
        /\ c \in Handler => pc'[c] = "record"
        /\ c \in Writer => pc'[c] = "done"
    BY <1>11 DEF SaveConfigProfile
  <2> QED BY <1>2, <1>7, <2>1
<1>12. CASE StoreFails(c)
  <2>1. UNCHANGED <<shadow, desired>>
    BY <1>12 DEF StoreFails
  <2>2. /\ c \in Handler => \/ pc'[c] = "failed"
                            \/ pc[c] \in Reporting /\ pc'[c] = "record"
        /\ c \in Writer => pc'[c] \in {"failed", "record"}
    BY <1>7, <1>12 DEF StoreFails
  <2>3. ASSUME c \in Handler, pc'[c] = "failed" PROVE c \notin desired
    BY <1>12, <2>3 DEF StoreFails, DesiredPlaces
  <2> QED BY <1>2, <1>7, <2>1, <2>2, <2>3
<1> QED BY <1>8, <1>9, <1>10, <1>11, <1>12 DEF DesireStep

LEMMA LastStep ==
  ASSUME TypeOK, NoStaleSave, LastInv, [Next]_vars
  PROVE  LastInv'
<1>1. ASSUME \/ \E h \in Handler, m \in Values \ {Nothing}, time \in 1 .. MaxTime :
                  HandleTelemetry(h, m, time)
             \/ \E w \in Writer : ApplyConfigProfile(w) \/ \E d \in Wishes : UpdateDesiredShadow(w, d)
      PROVE  LastInv'
  <2>1. ASSUME NEW c \in Call, Begins(c)
        PROVE  last' = c /\ UNCHANGED desired
    <3>1. \E b \in Call : Begin(b, "append") \/ Begin(b, "desireRead")
      BY <1>1 DEF HandleTelemetry, ApplyConfigProfile, UpdateDesiredShadow, Call
    <3>2. ASSUME NEW b \in Call, Begin(b, "append") \/ Begin(b, "desireRead")
          PROVE  last' = b /\ b = c
      BY <2>1, <3>2 DEF Begin, GoTo, Begins, TypeOK
    <3>3. UNCHANGED desired
      BY <1>1 DEF HandleTelemetry, ApplyConfigProfile, UpdateDesiredShadow
    <3> QED BY <3>1, <3>2, <3>3
  <2> QED BY <1>1, <2>1, BeginShape, LastBegins
<1>2. CASE UNCHANGED vars
  BY <1>2 DEF LastInv, DesiredPlaces, LastRunsAlone, IsRunning, SoFar, HandlerSoFar,
              WriterSoFar, IsReported, IsMet
<1> QED BY <1>1, <1>2, LastByHandler, LastByDesire DEF Next, HandlerStep

\* What the last call was asked to do is in the shadow when it has returned
\* without error and met no other call, for any rules and profile, whatever
\* the calls before it did or left half done: HandleTelemetry,
\* UpdateDesiredShadow and ApplyConfigProfile.
THEOREM LastCallTakesEffect == Spec => []LastCallIsInShadow
<1>1. Init => LastInv
  BY CallAssumption DEF Init, LastInv, DesiredPlaces, LastRunsAlone, IsRunning, SoFar, Call
<1>2. TypeOK /\ NoStaleSave /\ LastInv /\ [Next]_vars => LastInv'
  BY LastStep
<1>3. TypeOK /\ LastInv => LastCallIsInShadow
  BY DEF TypeOK, LastInv, LastCallIsInShadow, SoFar, HandlerSoFar, WriterSoFar, Reporting,
         IsReported, IsMet, Call
<1> QED BY <1>1, <1>2, <1>3, TypeCorrect, NoSaveIsStale, PTL DEF Spec

=============================================================================
