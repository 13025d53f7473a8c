---------------------- MODULE SessionRegistryProofs -----------------------
(***************************************************************************)
(* The gauge onlineDevices is exact up to the adjustments in flight, for   *)
(* any finite number of devices and goroutines and any set of sessions.    *)
(***************************************************************************)
EXTENDS SessionRegistry, FiniteSetTheorems, TLAPS

\* The number 1 if the condition holds, otherwise 0.
One(condition) == IF condition THEN 1 ELSE 0

(***************************************************************************)
(* Adding or removing one element moves a cardinality by at most one.      *)
(***************************************************************************)
LEMMA CardinalityOfOneMore ==
  ASSUME NEW S, IsFiniteSet(S), NEW x
  PROVE  /\ Cardinality(S) \in Nat
         /\ Cardinality(S \cup {x}) =
              IF x \in S THEN Cardinality(S) ELSE Cardinality(S) + 1
         /\ Cardinality(S \ {x}) =
              IF x \in S THEN Cardinality(S) - 1 ELSE Cardinality(S)
  BY FS_AddElement, FS_RemoveElement, FS_CardinalityType

(***************************************************************************)
(* The registry is well typed (RegisterSession, UnregisterSession and what *)
(* they defer).                                                            *)
(***************************************************************************)
THEOREM TypeCorrect == Spec => []TypeOK
<1>1. Init => TypeOK
  BY DEF Init, TypeOK, Tasks
<1>2. TypeOK /\ [Next]_registryVars => TypeOK'
  <2> SUFFICES ASSUME TypeOK, [Next]_registryVars
               PROVE  TypeOK'
    OBVIOUS
  <2> USE DEF TypeOK, Tasks
  <2>1. ASSUME NEW t \in Caller, NEW d \in Device, NEW s \in Session,
               RegisterSession(t, d, s)
        PROVE  TypeOK'
    <3>1. AfterRegister(session[d], s) \in Tasks
      BY DEF AfterRegister, Task, Idle
    <3> QED BY <2>1, <3>1 DEF RegisterSession
  <2>2. ASSUME NEW t \in Caller, NEW d \in Device, NEW s \in Session,
               UnregisterSession(t, d, s)
        PROVE  TypeOK'
    BY <2>2 DEF UnregisterSession
  <2>3. ASSUME NEW t \in Caller, AdjustOnline(t)
        PROVE  TypeOK'
    BY <2>3 DEF AdjustOnline
  <2>4. ASSUME NEW t \in Caller, ClosePrevious(t)
        PROVE  TypeOK'
    BY <2>4 DEF ClosePrevious
  <2>5. CASE UNCHANGED registryVars
    BY <2>5 DEF registryVars
  <2> QED BY <2>1, <2>2, <2>3, <2>4, <2>5 DEF Next
<1> QED BY <1>1, <1>2, PTL DEF Spec

(***************************************************************************)
(* What a change of one caller's task does to the set of callers that owe  *)
(* a given step.                                                           *)
(***************************************************************************)
LEMMA OwingAfterStep ==
  ASSUME FiniteAssumption, TypeOK, NEW t \in Caller, NEW r \in Tasks, NEW step,
         task' = [task EXCEPT ![t] = r]
  PROVE  /\ Cardinality(Owing(step)) \in Nat
         /\ Cardinality(Owing(step)') =
              Cardinality(Owing(step))
                + One(r.step = step)
                - One(task[t].step = step)
<1> DEFINE O == Owing(step)
<1>1. IsFiniteSet(O) /\ (t \in O <=> task[t].step = step)
  BY FS_Subset, FiniteAssumption DEF Owing, FiniteAssumption
<1>2. /\ Cardinality(O) \in Nat
      /\ Cardinality(O \cup {t}) =
           IF task[t].step = step THEN Cardinality(O) ELSE Cardinality(O) + 1
      /\ Cardinality(O \ {t}) =
           IF task[t].step = step THEN Cardinality(O) - 1 ELSE Cardinality(O)
  <2> HIDE DEF O
  <2> QED BY <1>1, CardinalityOfOneMore
<1>3. O' = IF r.step = step THEN O \cup {t} ELSE O \ {t}
  BY DEF Owing, TypeOK
<1> HIDE DEF O
<1>4. /\ Cardinality(O) \in Nat
      /\ Cardinality(O') = Cardinality(O)
           + One(r.step = step)
           - One(task[t].step = step)
  BY <1>2, <1>3 DEF One
<1> QED BY <1>4 DEF O

(***************************************************************************)
(* What a change of one device's session does to the number of devices     *)
(* that are online.                                                        *)
(***************************************************************************)
LEMMA OnlineAfterStep ==
  ASSUME FiniteAssumption, TypeOK, NEW d \in Device, NEW s,
         session' = [session EXCEPT ![d] = s]
  PROVE  /\ Cardinality(Online) \in Nat
         /\ Cardinality(Online') =
              Cardinality(Online)
                + One(s # NoSession)
                - One(session[d] # NoSession)
<1> DEFINE O == Online
<1>1. IsFiniteSet(O) /\ (d \in O <=> session[d] # NoSession)
  BY FS_Subset, FiniteAssumption DEF Online, FiniteAssumption
<1>2. /\ Cardinality(O) \in Nat
      /\ Cardinality(O \cup {d}) =
           IF session[d] # NoSession THEN Cardinality(O) ELSE Cardinality(O) + 1
      /\ Cardinality(O \ {d}) =
           IF session[d] # NoSession THEN Cardinality(O) - 1 ELSE Cardinality(O)
  <2> HIDE DEF O
  <2> QED BY <1>1, CardinalityOfOneMore
<1>3. O' = IF s # NoSession THEN O \cup {d} ELSE O \ {d}
  BY DEF Online, TypeOK
<1> HIDE DEF O
<1>4. /\ Cardinality(O) \in Nat
      /\ Cardinality(O') = Cardinality(O)
           + One(s # NoSession)
           - One(session[d] # NoSession)
  BY <1>2, <1>3 DEF One
<1> QED BY <1>4 DEF O

(***************************************************************************)
(* The gauge of connected devices is the number of devices with a session, *)
(* less the increments and plus the decrements still owed: it never drifts *)
(* whatever the interleaving of RegisterSession and UnregisterSession.     *)
(***************************************************************************)
THEOREM OnlineCounterIsExact ==
  ASSUME FiniteAssumption, NoSessionAssumption
  PROVE  Spec => []OnlineCounterAccounts
<1>1. Init => OnlineCounterAccounts
  <2> SUFFICES ASSUME Init PROVE OnlineCounterAccounts
    OBVIOUS
  <2>1. Online = {} /\ Owing("add") = {} /\ Owing("sub") = {}
    BY DEF Init, Online, Owing, Idle, Task
  <2> QED BY <2>1, FS_EmptySet DEF Init, OnlineCounterAccounts
<1>2. TypeOK /\ OnlineCounterAccounts /\ [Next]_registryVars
        => OnlineCounterAccounts'
  <2> SUFFICES ASSUME TypeOK, OnlineCounterAccounts, [Next]_registryVars
               PROVE  OnlineCounterAccounts'
    OBVIOUS
  <2>0. Idle \in Tasks /\ Idle.step = "idle"
    BY DEF Tasks, Idle, Task
  <2>1. ASSUME NEW t \in Caller, NEW d \in Device, NEW s \in Session,
               RegisterSession(t, d, s)
        PROVE  OnlineCounterAccounts'
    <3> DEFINE r == AfterRegister(session[d], s)
    <3>1. /\ r \in Tasks
          /\ r.step = (IF session[d] = NoSession THEN "add"
                       ELSE IF session[d] # s THEN "close" ELSE "idle")
      BY DEF AfterRegister, Tasks, Task, Idle, TypeOK
    <3>2. task[t].step = "idle" /\ s # NoSession /\ onlineDevices' = onlineDevices
      BY <2>0, <2>1, NoSessionAssumption DEF RegisterSession, NoSessionAssumption
    <3>3. /\ task' = [task EXCEPT ![t] = r]
          /\ session' = [session EXCEPT ![d] = s]
      BY <2>1 DEF RegisterSession
    <3> HIDE DEF r
    <3>4. /\ Cardinality(Owing("add")) \in Nat
          /\ Cardinality(Owing("add")') = Cardinality(Owing("add"))
               + One(r.step = "add") - One(task[t].step = "add")
      BY <3>1, <3>3, OwingAfterStep, Zenon DEF One
    <3>5. /\ Cardinality(Owing("sub")) \in Nat
          /\ Cardinality(Owing("sub")') = Cardinality(Owing("sub"))
               + One(r.step = "sub") - One(task[t].step = "sub")
      BY <3>1, <3>3, OwingAfterStep, Zenon DEF One
    <3>6. /\ Cardinality(Online) \in Nat
          /\ Cardinality(Online') = Cardinality(Online)
               + One(s # NoSession) - One(session[d] # NoSession)
      BY <3>3, OnlineAfterStep, Zenon DEF One
    <3> QED BY <3>1, <3>2, <3>4, <3>5, <3>6 DEF OnlineCounterAccounts, One, TypeOK
  <2>2. ASSUME NEW t \in Caller, NEW d \in Device, NEW s \in Session,
               UnregisterSession(t, d, s)
        PROVE  OnlineCounterAccounts'
    <3>1. CASE session[d] = s
      <4> DEFINE r == Task("sub", NoSession)
      <4>1. r \in Tasks /\ r.step = "sub"
        BY DEF Tasks, Task
      <4>2. /\ task[t].step = "idle" /\ session[d] # NoSession
            /\ onlineDevices' = onlineDevices
        BY <2>0, <2>2, <3>1, NoSessionAssumption DEF UnregisterSession, NoSessionAssumption
      <4>3. /\ task' = [task EXCEPT ![t] = r]
            /\ session' = [session EXCEPT ![d] = NoSession]
        BY <2>2, <3>1 DEF UnregisterSession
      <4> HIDE DEF r
      <4>4. /\ Cardinality(Owing("add")) \in Nat
            /\ Cardinality(Owing("add")') = Cardinality(Owing("add"))
                 + One(r.step = "add") - One(task[t].step = "add")
        BY <4>1, <4>3, OwingAfterStep, Zenon DEF One
      <4>5. /\ Cardinality(Owing("sub")) \in Nat
            /\ Cardinality(Owing("sub")') = Cardinality(Owing("sub"))
                 + One(r.step = "sub") - One(task[t].step = "sub")
        BY <4>1, <4>3, OwingAfterStep, Zenon DEF One
      <4>6. /\ Cardinality(Online) \in Nat
            /\ Cardinality(Online') = Cardinality(Online)
                 + One(NoSession # NoSession) - One(session[d] # NoSession)
        BY <4>3, OnlineAfterStep, Zenon DEF One
      <4> QED BY <4>1, <4>2, <4>4, <4>5, <4>6
              DEF OnlineCounterAccounts, One, TypeOK
    <3>2. CASE session[d] # s
      BY <2>2, <3>2 DEF UnregisterSession, OnlineCounterAccounts, Online, Owing
    <3> QED BY <3>1, <3>2
  <2>3. ASSUME NEW t \in Caller, AdjustOnline(t) \/ ClosePrevious(t)
        PROVE  OnlineCounterAccounts'
    <3>1. /\ task' = [task EXCEPT ![t] = Idle]
          /\ Online' = Online
          /\ onlineDevices' = onlineDevices + One(task[t].step = "add")
                                            - One(task[t].step = "sub")
      BY <2>3 DEF AdjustOnline, ClosePrevious, Online, One, TypeOK
    <3>2. /\ Cardinality(Owing("add")) \in Nat
          /\ Cardinality(Owing("add")') = Cardinality(Owing("add"))
               + One(Idle.step = "add") - One(task[t].step = "add")
      BY <2>0, <3>1, OwingAfterStep, Zenon DEF One
    <3>3. /\ Cardinality(Owing("sub")) \in Nat
          /\ Cardinality(Owing("sub")') = Cardinality(Owing("sub"))
               + One(Idle.step = "sub") - One(task[t].step = "sub")
      BY <2>0, <3>1, OwingAfterStep, Zenon DEF One
    <3>4. Cardinality(Online) \in Nat
      BY FS_Subset, FiniteAssumption, FS_CardinalityType DEF Online, FiniteAssumption
    <3> QED BY <2>0, <3>1, <3>2, <3>3, <3>4 DEF OnlineCounterAccounts, One, TypeOK
  <2>4. CASE UNCHANGED registryVars
    BY <2>4 DEF registryVars, OnlineCounterAccounts, Online, Owing
  <2> QED BY <2>1, <2>2, <2>3, <2>4 DEF Next
<1> QED BY <1>1, <1>2, TypeCorrect, PTL DEF Spec

(***************************************************************************)
(* No session is lost on its way out of the registry: whoever removes it   *)
(* owes the decrement or its Close (RegisterSession, UnregisterSession).   *)
(***************************************************************************)
THEOREM SessionsAreHandedOver ==
  ASSUME NoSessionAssumption
  PROVE  Spec => NoSessionDropped
<1>1. TypeOK /\ [Next]_registryVars =>
        [\A d \in Device :
           session[d] # NoSession /\ session'[d] # session[d] =>
             \E t \in Caller :
               /\ task[t] = Idle
               /\ \/ session'[d] = NoSession /\ task'[t].step = "sub"
                  \/ session'[d] # NoSession /\ task'[t] = Task("close", session[d])
        ]_registryVars
  <2> SUFFICES ASSUME TypeOK, Next, NEW d \in Device,
                      session[d] # NoSession, session'[d] # session[d]
               PROVE  \E t \in Caller :
                        /\ task[t] = Idle
                        /\ \/ session'[d] = NoSession /\ task'[t].step = "sub"
                           \/ /\ session'[d] # NoSession
                              /\ task'[t] = Task("close", session[d])
    OBVIOUS
  <2>1. CASE \E t \in Caller, e \in Device, s \in Session :
               RegisterSession(t, e, s)
    BY <2>1, NoSessionAssumption DEF RegisterSession, NoSessionAssumption, AfterRegister, TypeOK
  <2>2. CASE \E t \in Caller, e \in Device, s \in Session :
               UnregisterSession(t, e, s)
    BY <2>2 DEF UnregisterSession, TypeOK, Task
  <2>3. CASE \E t \in Caller : AdjustOnline(t) \/ ClosePrevious(t)
    BY <2>3 DEF AdjustOnline, ClosePrevious
  <2> QED BY <2>1, <2>2, <2>3 DEF Next
<1> QED BY <1>1, TypeCorrect, PTL DEF Spec, NoSessionDropped

============================================================================
