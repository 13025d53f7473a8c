--------------------------- MODULE ProductProofs ---------------------------
(***************************************************************************)
(* Proofs about the records of a product: those that Inventory keeps and   *)
(* refers to, and the thing model and profile inside one product, which    *)
(* Access keeps.  The two specifications share no variable; each theorem   *)
(* is about one of them.                                                   *)
(*                                                                         *)
(* Inventory, for any tenants and records: firmware stays within the       *)
(* tenant and the product it was made for, and a rule's profile fits every *)
(* device that the rule selects.  Both rest on what the creation of a      *)
(* record inherits and checks, and on the store never changing a scope.    *)
(*                                                                         *)
(* Access, for any inputs, payloads, writers and clients: profiles are in  *)
(* normal form wherever they are kept, a checked profile fits the model it *)
(* is stored with, a refusal has an update of the model behind it, and     *)
(* every entry of the catalog makes a product that takes its own payload.  *)
(***************************************************************************)
EXTENDS Inventory, Access, FiniteSetTheorems, TLAPS

(***************************************************************************)
(* The inductive invariant: the scopes name products of the store, except  *)
(* that a rule may name one that is unknown; a group covers its members;   *)
(* and the profile of a rule was compared with the rule's final scope.     *)
(***************************************************************************)
ProductsKnown ==
  \A x \in Record :
    \/ scope[x].product \in stored \cup {None}
    \/ x \in Rule /\ scope[x].product = UnknownProduct

MembersCovered ==
  \A g \in Group, d \in Device : <<g, d>> \in members => Covers(scope[g], d)

RulesFit ==
  \A r \in Rule :
    LET c == target[r].profile
    IN  r \in stored /\ c # None =>
          /\ c \in stored
          /\ scope[r].tenant \in {None, scope[c].tenant}
          /\ scope[r].product \in stored =>
               scope[c].product \in {None, scope[r].product}

ScopeTypes ==
  /\ stored \subseteq Record
  /\ scope \in [Record -> Scope]
  /\ target \in [Rule -> [group : Group \cup {None}, device : Device \cup {None},
                          profile : Profile \cup {None}]]
  /\ members \subseteq (Group \cap stored) \X (Device \cap stored)
  /\ upgrades \subseteq (Firmware \cap stored) \X (Device \cap stored)
                          \X ((Group \cap stored) \cup {None})

IInv == ScopeTypes /\ ProductsKnown /\ MembersCovered /\ RulesFit

(***************************************************************************)
(* What a step may do to the records: it saves a new one, or none.         *)
(***************************************************************************)
Saves(x, s) ==
  /\ x \in Record \ stored
  /\ s \in Scope
  /\ s.product \in stored \cup {x, None} \/ (x \in Rule /\ s.product = UnknownProduct)
  /\ stored' = stored \cup {x}
  /\ scope' = [scope EXCEPT ![x] = s]
  /\ UNCHANGED <<members, upgrades>>

SavesRule(r, s, g, d, c) ==
  /\ Saves(r, s)
  /\ ProfileFits(s, s, c)
  /\ target' = [target EXCEPT ![r] = [group |-> g, device |-> d, profile |-> c]]

LEMMA NarrowedIsScope ==
  ASSUME ScopeTypes, ProductsKnown, NEW s \in Scope, NEW x \in Record \cup {None},
         x \notin Rule
  PROVE  /\ Narrowed(s, x) \in Scope
         /\ Narrowed(s, x).product \in stored \cup {s.product, None}
<1>1. CASE x = None
  BY <1>1 DEF Narrowed
<1>2. CASE x \in Record
  <2>1. scope[x] \in Scope /\ scope[x].product \in stored \cup {None}
    BY <1>2 DEF ScopeTypes, ProductsKnown
  <2>2. Narrowed(s, x).product \in {s.product, scope[x].product}
    BY DEF Narrowed, In
  <2> QED BY <2>1, <2>2 DEF Narrowed, In, Scope
<1> QED BY <1>1, <1>2

LEMMA StoreInSaves ==
  ASSUME ScopeTypes, ProductsKnown, NEW x \in Record, NEW t \in Tenants,
         NEW p \in Products, StoreIn(x, t, p), UNCHANGED <<members, upgrades>>
  PROVE  Saves(x, Narrowed(In(t, p), p))
<1> DEFINE s == Narrowed(In(t, p), p)
<1>1. In(t, p) \in Scope /\ In(t, p).product = p
  BY DEF In, Scope, Tenants, Products
<1>2. p = None \/ p \in stored
  BY DEF StoreIn, Refers
<1>3. p \in Record \cup {None} /\ p \notin Rule
  BY <1>2, DisjointAssumption DEF ScopeTypes, Products, Record
<1>4. s \in Scope /\ s.product \in stored \cup {None}
  <2>1. s \in Scope /\ s.product \in stored \cup {In(t, p).product, None}
    BY <1>1, <1>3, NarrowedIsScope, Zenon
  <2> QED BY <1>1, <1>2, <2>1
<1>5. Store(x, s)
  BY DEF StoreIn
<1> HIDE DEF s
<1>6. Saves(x, s)
  BY <1>4, <1>5 DEF Saves, Store
<1> QED BY <1>6 DEF s

LEMMA CreateRuleSaves ==
  ASSUME ScopeTypes, ProductsKnown, NEW r \in Rule, NEW t \in Tenants,
         NEW p \in (Product \cap stored) \cup {UnknownProduct, None},
         NEW g \in Group \cup {None}, NEW d \in Device \cup {None},
         NEW c \in Profile \cup {None}, CreateRule(r, t, p, g, d, c)
  PROVE  \E s \in Scope : SavesRule(r, s, g, d, c)
<1> DEFINE byGroup  == Narrowed(In(t, p), g)
           byDevice == Narrowed(byGroup, d)
           known    == IF byDevice.product \in stored THEN byDevice.product ELSE None
           s        == Narrowed(byDevice, known)
<1>1. In(t, p) \in Scope /\ In(t, p).product = p
  BY DEF In, Scope, Tenants
<1>2. g \in Record \cup {None} /\ g \notin Rule /\ d \in Record \cup {None} /\ d \notin Rule
  BY DisjointAssumption DEF Record
<1>3. byGroup \in Scope /\ byGroup.product \in stored \cup {UnknownProduct, None}
  <2>1. byGroup \in Scope /\ byGroup.product \in stored \cup {In(t, p).product, None}
    BY <1>1, <1>2, NarrowedIsScope, Zenon
  <2> QED BY <1>1, <2>1
<1> HIDE DEF byGroup
<1>4. byDevice \in Scope /\ byDevice.product \in stored \cup {UnknownProduct, None}
  <2>1. /\ byDevice \in Scope
        /\ byDevice.product \in stored \cup {byGroup.product, None}
    BY <1>2, <1>3, NarrowedIsScope, Zenon
  <2> QED BY <1>3, <2>1
<1> HIDE DEF byDevice
<1>5. known \in Record \cup {None} /\ known \notin Rule
  BY <1>4, DisjointAssumption DEF ScopeTypes, Record, Scope
<1> HIDE DEF known
<1>6. s \in Scope /\ s.product \in stored \cup {UnknownProduct, None}
  <2>1. s \in Scope /\ s.product \in stored \cup {byDevice.product, None}
    BY <1>4, <1>5, NarrowedIsScope, Zenon
  <2> QED BY <1>4, <2>1
<1>7. Store(r, s) /\ ProfileFits(s, In(t, p), c) /\ UNCHANGED <<members, upgrades>>
  BY DEF CreateRule, byGroup, byDevice, known
<1>8. target' = [target EXCEPT ![r] = [group |-> g, device |-> d, profile |-> c]]
  BY DEF CreateRule
<1> HIDE DEF s
<1>9. r \in Record
  BY DEF Record
<1>10. Saves(r, s)
  BY <1>6, <1>7, <1>9 DEF Saves, Store
<1> QED BY <1>6, <1>7, <1>8, <1>10 DEF SavesRule, ProfileFits

SavesPlain(x, s) == Saves(x, s) /\ x \notin Rule /\ UNCHANGED target

LEMMA CreationSaves ==
  ASSUME ScopeTypes, ProductsKnown, Creation
  PROVE  \E x \in Record, s \in Scope : SavesPlain(x, s)
<1>1. ASSUME NEW t \in Tenants, NEW p \in Product, CreateProduct(p, t)
      PROVE  \E x \in Record, s \in Scope : SavesPlain(x, s)
  <2>1. In(t, p) \in Scope /\ In(t, p).product = p
    BY DEF In, Scope, Tenants
  <2>2. p \in Record /\ p \notin Rule
    BY DisjointAssumption DEF Record
  <2>3. SavesPlain(p, In(t, p))
    BY <1>1, <2>1, <2>2 DEF CreateProduct, Store, SavesPlain, Saves
  <2> QED BY <2>1, <2>2, <2>3
<1>2. ASSUME NEW x \in Record \ Rule, NEW t \in Tenants, NEW p \in Products,
             StoreIn(x, t, p), UNCHANGED <<members, target, upgrades>>
      PROVE  \E y \in Record, s \in Scope : SavesPlain(y, s)
  <2>1. Saves(x, Narrowed(In(t, p), p))
    BY <1>2, StoreInSaves
  <2> QED BY <1>2, <2>1 DEF SavesPlain, Saves
<1>3. Group \cup Profile \cup Firmware \cup Device \subseteq Record \ Rule
  BY DisjointAssumption DEF Record
<1> QED
  BY <1>1, <1>2, <1>3 DEF Creation, CreateGroup, CreateConfigProfile,
     CreateFirmwareArtifact, CreateDevice

LEMMA Kinds ==
  ASSUME ScopeTypes, ProductsKnown, Next
  PROVE  \/ \E x \in Record, s \in Scope : SavesPlain(x, s)
         \/ \E r \in Rule, s \in Scope, g \in Group \cup {None},
               d \in Device \cup {None}, c \in Profile \cup {None} :
              SavesRule(r, s, g, d, c)
         \/ Membership
         \/ Upgrading
         \/ UNCHANGED <<recordVars, members, upgrades>>
<1>1. CASE Creation
  BY <1>1, CreationSaves
<1>2. CASE Ruling
  <2>1. PICK r \in Rule, t \in Tenants,
             p \in (Product \cap stored) \cup {UnknownProduct, None},
             g \in Group \cup {None}, d \in Device \cup {None},
             c \in Profile \cup {None} : CreateRule(r, t, p, g, d, c)
    BY <1>2 DEF Ruling
  <2>2. \E s \in Scope : SavesRule(r, s, g, d, c)
    BY <2>1, CreateRuleSaves
  <2> QED BY <2>2
<1>3. CASE Registration \/ Restart
  BY <1>3 DEF Registration, SaveFirstShadow, SaveFirstShadowFails, RegisterDevice, Restart
<1> QED BY <1>1, <1>2, <1>3 DEF Next

\* What is in the store stays as it is.
LEMMA StoredStays ==
  ASSUME ScopeTypes, NEW x, NEW s, Saves(x, s)
  PROVE  /\ stored \subseteq stored'
         /\ \A y \in stored : y # x /\ scope'[y] = scope[y]
         /\ scope' \in [Record -> Scope]
         /\ scope'[x] = s
BY DEF Saves, ScopeTypes

(***************************************************************************)
(* The invariant is kept when a record is saved.                           *)
(***************************************************************************)
LEMMA SavingKeepsRelations ==
  ASSUME IInv, NEW x \in Record, NEW s \in Scope, Saves(x, s)
  PROVE  ProductsKnown' /\ MembersCovered'
<1>1. ProductsKnown'
  <2> SUFFICES ASSUME NEW y \in Record
               PROVE  \/ scope'[y].product \in stored' \cup {None}
                      \/ y \in Rule /\ scope'[y].product = UnknownProduct
    BY DEF ProductsKnown
  <2>1. CASE y = x
    <3>1. scope'[y] = s
      BY <2>1, StoredStays DEF IInv
    <3> QED BY <2>1, <3>1 DEF Saves
  <2>2. CASE y # x
    BY <2>2 DEF Saves, IInv, ProductsKnown, ScopeTypes
  <2> QED BY <2>1, <2>2
<1>2. MembersCovered'
  <2> SUFFICES ASSUME NEW g \in Group, NEW d \in Device, <<g, d>> \in members'
               PROVE  Covers(scope[g], d)'
    BY DEF MembersCovered
  <2>1. <<g, d>> \in members /\ g \in stored /\ d \in stored
    BY DEF Saves, IInv, ScopeTypes
  <2>2. scope'[g] = scope[g] /\ scope'[d] = scope[d]
    BY <2>1, StoredStays DEF IInv
  <2> QED BY <2>1, <2>2 DEF IInv, MembersCovered, Covers
<1> QED BY <1>1, <1>2

LEMMA SavingPlain ==
  ASSUME IInv, NEW x \in Record, NEW s \in Scope, SavesPlain(x, s)
  PROVE  IInv'
<1>0. Saves(x, s) /\ x \notin Rule /\ target' = target
  BY DEF SavesPlain
<1>1. ScopeTypes'
  BY <1>0, StoredStays DEF Saves, IInv, ScopeTypes
<1>2. RulesFit'
  <2> SUFFICES ASSUME NEW r \in Rule, r \in stored', target'[r].profile # None
               PROVE  /\ target'[r].profile \in stored'
                      /\ scope'[r].tenant \in {None, scope'[target'[r].profile].tenant}
                      /\ scope'[r].product \in stored' =>
                           scope'[target'[r].profile].product
                             \in {None, scope'[r].product}
    BY DEF RulesFit
  <2> DEFINE c == target[r].profile
  <2>1. r \in stored /\ target'[r].profile = c
    BY <1>0 DEF Saves
  <2>2. /\ c \in stored /\ scope[r].tenant \in {None, scope[c].tenant}
        /\ scope[r].product \in stored => scope[c].product \in {None, scope[r].product}
    BY <2>1 DEF IInv, RulesFit
  <2> HIDE DEF c
  <2>3. scope'[r] = scope[r] /\ scope'[c] = scope[c] /\ c \in stored'
    BY <1>0, <2>1, <2>2, StoredStays DEF IInv
  <2>4. scope[r].product \in stored' => scope[r].product \in stored \cup {None}
    <3>1. \/ scope[r].product \in stored \cup {None}
          \/ scope[r].product = UnknownProduct
      BY DEF IInv, ProductsKnown, Record
    <3>2. UnknownProduct \notin stored'
      BY <1>1, DisjointAssumption DEF ScopeTypes
    <3> QED BY <3>1, <3>2
  <2>5. None \notin stored'
    BY <1>1, DisjointAssumption DEF ScopeTypes
  <2> QED BY <2>1, <2>2, <2>3, <2>4, <2>5
<1> QED BY <1>0, <1>1, <1>2, SavingKeepsRelations DEF IInv

LEMMA SavingRule ==
  ASSUME IInv, NEW q \in Rule, NEW s \in Scope, NEW g \in Group \cup {None},
         NEW d \in Device \cup {None}, NEW b \in Profile \cup {None},
         SavesRule(q, s, g, d, b)
  PROVE  IInv'
<1>0. /\ Saves(q, s) /\ ProfileFits(s, s, b)
      /\ target' = [target EXCEPT ![q] = [group |-> g, device |-> d, profile |-> b]]
  BY DEF SavesRule
<1>1. ScopeTypes'
  BY <1>0, StoredStays DEF Saves, IInv, ScopeTypes
<1>2. ASSUME NEW r \in Rule, r \in stored', target'[r].profile # None
      PROVE  /\ target'[r].profile \in stored'
             /\ scope'[r].tenant \in {None, scope'[target'[r].profile].tenant}
             /\ scope'[r].product \in stored' =>
                  scope'[target'[r].profile].product \in {None, scope'[r].product}
  <2> DEFINE c == target'[r].profile
  <2>1. r = q \/ r \in stored
    BY <1>0, <1>2 DEF Saves
  <2>2. CASE r = q
    <3>1. c = b /\ scope'[r] = s
      BY <1>0, <2>2, StoredStays DEF IInv, ScopeTypes
    <3>2. /\ b \in stored /\ s.tenant \in {None, scope[b].tenant}
          /\ s.product \in stored => scope[b].product \in {None, s.product}
      BY <1>0, <1>2, <3>1 DEF ProfileFits
    <3>3. scope'[b] = scope[b] /\ b \in stored'
      BY <1>0, <3>2, StoredStays DEF IInv
    <3>4. s.product \in stored' => s.product \in stored
      <4>1. q \notin Product /\ q # None /\ q # UnknownProduct
        BY DisjointAssumption DEF Record
      <4>2. s.product \in Product \cup {UnknownProduct, None}
        BY DEF Scope
      <4> QED BY <1>0, <4>1, <4>2 DEF Saves
    <3> HIDE DEF c
    <3>5. /\ c \in stored' /\ scope'[r].tenant \in {None, scope'[c].tenant}
          /\ scope'[r].product \in stored' => scope'[c].product \in {None, scope'[r].product}
      BY <3>1, <3>2, <3>3, <3>4
    <3> QED BY <3>5 DEF c
  <2>3. CASE r \in stored /\ r # q
    <3>1. c = target[r].profile
      BY <1>0, <2>3 DEF IInv, ScopeTypes
    <3>2. /\ c \in stored /\ scope[r].tenant \in {None, scope[c].tenant}
          /\ scope[r].product \in stored =>
               scope[c].product \in {None, scope[r].product}
      BY <1>2, <2>3, <3>1 DEF IInv, RulesFit
    <3> HIDE DEF c
    <3>3. scope'[r] = scope[r] /\ scope'[c] = scope[c] /\ c \in stored'
      BY <1>0, <2>3, <3>2, StoredStays DEF IInv
    <3>4. scope[r].product \in stored' => scope[r].product \in stored
      <4>1. q \notin Product /\ q # None
        BY DisjointAssumption DEF Record
      <4>2. scope[r].product \in Product \cup {UnknownProduct, None}
        BY DEF IInv, ScopeTypes, Scope, Record
      <4>3. UnknownProduct # q
        BY DisjointAssumption DEF Record
      <4> QED BY <1>0, <4>1, <4>2, <4>3 DEF Saves
    <3>5. /\ c \in stored' /\ scope'[r].tenant \in {None, scope'[c].tenant}
          /\ scope'[r].product \in stored' => scope'[c].product \in {None, scope'[r].product}
      BY <3>2, <3>3, <3>4
    <3> QED BY <3>5 DEF c
  <2> QED BY <2>1, <2>2, <2>3
<1>3. RulesFit'
  BY <1>2 DEF RulesFit
<1> QED BY <1>0, <1>1, <1>3, SavingKeepsRelations DEF IInv, Record

(***************************************************************************)
(* ... and by what is done with the records.                               *)
(***************************************************************************)
LEMMA MembershipKeepsInv ==
  ASSUME IInv, Membership
  PROVE  IInv'
<1>1. PICK g \in Group, d \in Device :
        AssignDeviceToGroup(g, d) \/ RemoveDeviceFromGroup(g, d)
  BY DEF Membership
<1>2. /\ UNCHANGED <<stored, scope, target, upgrades>>
      /\ \/ members' = members \ {<<g, d>>}
         \/ /\ g \in stored /\ d \in stored /\ Covers(scope[g], d)
            /\ members' = members \cup {<<g, d>>}
  BY <1>1 DEF AssignDeviceToGroup, RemoveDeviceFromGroup, recordVars
<1>3. ScopeTypes'
  BY <1>2 DEF IInv, ScopeTypes
<1>4. MembersCovered'
  BY <1>2 DEF IInv, MembersCovered, Covers
<1>5. ProductsKnown' /\ RulesFit'
  BY <1>2 DEF IInv, ProductsKnown, RulesFit
<1> QED BY <1>3, <1>4, <1>5 DEF IInv

\* What a campaign adds, and why each device may have the firmware.
Suits(f, d, g) ==
  /\ f \in Firmware \cap stored /\ d \in Device \cap stored
  /\ g \in (Group \cap stored) \cup {None}
  /\ scope[f].tenant \in {None, scope[d].tenant}
  /\ \/ scope[f].product \in {None, scope[d].product}
     \/ g # None /\ scope[g].product = None

LEMMA UpgradesSuit ==
  ASSUME IInv, Upgrading, NEW u \in upgrades'
  PROVE  \/ u \in upgrades
         \/ \E f \in Firmware, d \in Device, g \in Group \cup {None} :
              u = <<f, d, g>> /\ Suits(f, d, g)
<1>1. PICK f \in Firmware, t \in Tenants, p \in Products, g \in Group \cup {None},
           d \in Device \cup {None} : CreateOTACampaign(f, t, p, g, d)
  BY DEF Upgrading
<1>2. CASE u \notin upgrades /\ d # None /\ ToDevice(f, d)
  <2>1. u = <<f, d, None>> /\ Suits(f, d, None)
    BY <1>1, <1>2 DEF ToDevice, Covers, Suits, CreateOTACampaign
  <2> QED BY <1>2, <2>1
<1>3. CASE u \notin upgrades /\ g # None /\ ToGroup(f, p, g)
  <2>1. PICK e \in Device : u = <<f, e, g>> /\ <<g, e>> \in members
    BY <1>3 DEF ToGroup
  <2>2. e \in stored /\ Covers(scope[g], e)
    BY <2>1, <1>3 DEF IInv, ScopeTypes, MembersCovered
  <2>3. Suits(f, e, g)
    BY <1>1, <1>3, <2>2 DEF ToGroup, Covers, Suits, CreateOTACampaign
  <2> QED BY <2>1, <2>3
<1>4. CASE u \notin upgrades /\ ToProduct(f, p)
  <2> DEFINE q == IF p = None THEN scope[f].product ELSE p
  <2>1. PICK e \in Device \cap stored :
          u = <<f, e, None>> /\ Covers(In(scope[f].tenant, q), e)
    BY <1>4 DEF ToProduct
  <2>2. /\ scope[f].tenant \in {None, scope[e].tenant}
        /\ q \in {None, scope[e].product}
    BY <2>1 DEF Covers, In
  <2>3. q # None /\ scope[f].product \in {None, q}
    BY <1>4 DEF ToProduct, ProductSuits
  <2> HIDE DEF q
  <2>4. Suits(f, e, None)
    BY <1>1, <2>2, <2>3 DEF Suits, CreateOTACampaign
  <2> QED BY <2>1, <2>4
<1> QED BY <1>1, <1>2, <1>3, <1>4 DEF CreateOTACampaign

LEMMA UpgradingKeepsInv ==
  ASSUME IInv, Upgrading
  PROVE  IInv'
<1>1. UNCHANGED <<stored, scope, target, members>>
  BY DEF Upgrading, CreateOTACampaign, recordVars
<1>2. upgrades' \subseteq (Firmware \cap stored) \X (Device \cap stored)
                            \X ((Group \cap stored) \cup {None})
  <2> SUFFICES ASSUME NEW u \in upgrades'
               PROVE  u \in (Firmware \cap stored) \X (Device \cap stored)
                              \X ((Group \cap stored) \cup {None})
    OBVIOUS
  <2>1. CASE u \in upgrades
    BY <2>1 DEF IInv, ScopeTypes
  <2>2. CASE \E f \in Firmware, d \in Device, g \in Group \cup {None} :
               u = <<f, d, g>> /\ Suits(f, d, g)
    BY <2>2 DEF Suits
  <2> QED BY <2>1, <2>2, UpgradesSuit
<1>3. ScopeTypes'
  BY <1>1, <1>2 DEF IInv, ScopeTypes
<1> QED BY <1>1, <1>3 DEF IInv, ProductsKnown, MembersCovered, RulesFit, Covers

LEMMA Inductive == IInv /\ [Next]_vars => IInv'
<1>1. ASSUME IInv, UNCHANGED <<recordVars, members, upgrades>>
      PROVE  IInv'
  BY <1>1 DEF IInv, ScopeTypes, ProductsKnown, MembersCovered, RulesFit, Covers, recordVars
<1>2. ASSUME IInv, Next
      PROVE  IInv'
  BY <1>1, <1>2, Kinds, SavingPlain, SavingRule, MembershipKeepsInv,
     UpgradingKeepsInv DEF IInv
<1> QED BY <1>1, <1>2 DEF vars

LEMMA Initially == Init => IInv
<1> SUFFICES ASSUME Init PROVE IInv
  OBVIOUS
<1>1. ScopeTypes
  BY DEF Init, ScopeTypes, Scope, In, NoTarget
<1>2. ProductsKnown
  BY DEF Init, ProductsKnown, In
<1>3. MembersCovered /\ RulesFit
  BY DEF Init, MembersCovered, RulesFit
<1> QED BY <1>1, <1>2, <1>3 DEF IInv

LEMMA Invariance == Spec => []IInv
BY Inductive, Initially, PTL DEF Spec

(***************************************************************************)
(* A rule with a tenant and a product never selects a device for which     *)
(* ApplyConfigProfile would refuse its profile, for any records            *)
(* (normalizeRuleActions, evaluateRules).                                  *)
(***************************************************************************)
THEOREM RulesApplyTheirProfiles == Spec => []RuleActionsApply
<1>1. IInv => RuleActionsApply
  <2> SUFFICES ASSUME IInv, NEW r \in Rule, NEW d \in Device, Selects(r, d),
                      target[r].profile # None,
                      scope[r].tenant # None, scope[r].product # None
               PROVE  Covers(scope[target[r].profile], d)
    BY DEF RuleActionsApply
  <2>1. /\ scope[r].tenant = scope[d].tenant
        /\ scope[r].product = scope[d].product
        /\ r \in stored /\ d \in stored
    BY DEF Selects, Covers
  <2>2. scope[r].product \in stored
    <3>1. d \in Record /\ d \notin Rule
      BY DisjointAssumption DEF Record
    <3> QED BY <2>1, <3>1 DEF IInv, ProductsKnown
  <2>3. /\ scope[r].tenant = scope[target[r].profile].tenant
        /\ scope[target[r].profile].product \in {None, scope[r].product}
    BY <2>1, <2>2 DEF IInv, RulesFit
  <2> QED BY <2>1, <2>3 DEF Covers
<1> QED BY <1>1, Invariance, PTL

(***************************************************************************)
(* Firmware of a tenant reaches only devices of that tenant, and firmware  *)
(* for a product only devices of that product, except through a group that *)
(* is open to every product, for any records and any order of calls        *)
(* (CreateOTACampaign, AssignDeviceToGroup).                               *)
(***************************************************************************)
THEOREM FirmwareStaysInScope == Spec => []UpgradesStayInScope
<1>1. Init => UpgradesStayInScope
  BY DEF Init, UpgradesStayInScope
<1>2. ASSUME IInv, UpgradesStayInScope, [Next]_vars
      PROVE  UpgradesStayInScope'
  <2> SUFFICES ASSUME NEW f \in Firmware, NEW d \in Device, NEW g \in Group \cup {None},
                      <<f, d, g>> \in upgrades'
               PROVE  /\ scope'[f].tenant \in {None, scope'[d].tenant}
                      /\ \/ scope'[f].product \in {None, scope'[d].product}
                         \/ g # None /\ scope'[g].product = None
    BY DEF UpgradesStayInScope
  <2>1. CASE <<f, d, g>> \in upgrades
    <3>1. Suits(f, d, g)
      BY <1>2, <2>1 DEF UpgradesStayInScope, IInv, ScopeTypes, Suits
    <3>2. \A x \in stored : scope'[x] = scope[x]
      <4>1. CASE \E x \in Record, s \in Scope : Saves(x, s)
        BY <1>2, <4>1, StoredStays DEF IInv
      <4>2. CASE scope' = scope
        BY <4>2
      <4>3. Membership \/ Upgrading => scope' = scope
        BY DEF Membership, AssignDeviceToGroup, RemoveDeviceFromGroup, Upgrading,
               CreateOTACampaign, recordVars
      <4> QED BY <1>2, <4>1, <4>2, <4>3, Kinds
              DEF IInv, SavesPlain, SavesRule, vars, recordVars, Record
    <3>3. scope'[f] = scope[f] /\ scope'[d] = scope[d]
          /\ (g # None => scope'[g] = scope[g])
      BY <3>1, <3>2 DEF Suits
    <3> QED BY <3>1, <3>3 DEF Suits
  <2>2. CASE <<f, d, g>> \notin upgrades
    <3>1. Upgrading
      BY <1>2, <2>2, Kinds DEF IInv, SavesPlain, SavesRule, Saves, vars, Membership,
         AssignDeviceToGroup, RemoveDeviceFromGroup
    <3>2. Suits(f, d, g)
      BY <1>2, <2>2, <3>1, UpgradesSuit
    <3>3. scope' = scope
      BY <3>1 DEF Upgrading, CreateOTACampaign, recordVars
    <3> QED BY <3>2, <3>3 DEF Suits
  <2> QED BY <2>1, <2>2
<1> QED BY <1>1, <1>2, Invariance, PTL DEF Spec

(***************************************************************************)
(* The records are well typed and refer only to records of the store, and  *)
(* registeredDevices counts the devices whose creation has come to its end *)
(* (CreateDeviceWithTenant, NewService), for any finite set of records.    *)
(***************************************************************************)
PlacesFit ==
  /\ place \in [Device -> Places]
  /\ \A d \in Device : place[d] # "absent" <=> d \in stored

Registered == {d \in Device : place[d] = "registered"}

LEMMA DevicesAreFinite == IsFiniteSet(Device)
BY FS_Subset, FiniteAssumption DEF Record

LEMMA NewRecordsPlaces ==
  ASSUME ScopeTypes, PlacesFit, NEW x \in Record, Store(x, scope'[x]),
         \/ x \notin Device /\ place' = place
         \/ x \in Device /\ place' = [place EXCEPT ![x] = "stored"]
  PROVE  PlacesFit' /\ Registered' = Registered
BY DEF PlacesFit, Store, Registered, Places

LEMMA PlacesStep ==
  ASSUME ScopeTypes, PlacesFit, Next
  PROVE  /\ PlacesFit'
         /\ \/ UNCHANGED registered /\ Registered' = Registered
            \/ \E d \in Device \ Registered :
                 registered' = registered + 1 /\ Registered' = Registered \cup {d}
            \/ registered' = Cardinality(Registered')
<1> DEFINE Fits == /\ PlacesFit'
                   /\ \/ UNCHANGED registered /\ Registered' = Registered
                      \/ \E d \in Device \ Registered : /\ registered' = registered + 1
                                                       /\ Registered' = Registered \cup {d}
                      \/ registered' = Cardinality(Registered')
<1> SUFFICES Fits
  OBVIOUS
<1>1. ASSUME NEW x \in Record, NEW s, Store(x, s), UNCHANGED registered,
             \/ x \notin Device /\ place' = place
             \/ x \in Device /\ place' = [place EXCEPT ![x] = "stored"]
      PROVE  Fits
  <2>1. scope'[x] = s
    BY <1>1 DEF Store, ScopeTypes
  <2> QED BY <1>1, <2>1, NewRecordsPlaces
<1>2. CASE Creation
  <2>1. /\ Product \cup Group \cup Profile \cup Firmware \subseteq Record \ Device
        /\ Device \subseteq Record
    BY DisjointAssumption DEF Record
  <2> HIDE DEF Fits
  <2>2. ASSUME NEW t \in Tenants, NEW p \in Product, CreateProduct(p, t)
        PROVE  Fits
    BY <1>1, <2>1, <2>2 DEF CreateProduct, deviceVars
  <2>3. ASSUME NEW t \in Tenants, NEW p \in Products,
               NEW x \in Group \cup Profile \cup Firmware, StoreIn(x, t, p),
               UNCHANGED deviceVars
        PROVE  Fits
    BY <1>1, <2>1, <2>3 DEF StoreIn, deviceVars
  <2>4. ASSUME NEW t \in Tenants, NEW p \in Products, NEW d \in Device,
               CreateDevice(d, t, p)
        PROVE  Fits
    BY <1>1, <2>1, <2>4 DEF CreateDevice, StoreIn
  <2>5. ASSUME NEW t \in Tenants, NEW p \in Products, NEW x \in Record,
               \/ x \in Group /\ CreateGroup(x, t, p)
               \/ x \in Profile /\ CreateConfigProfile(x, t, p)
               \/ x \in Firmware /\ CreateFirmwareArtifact(x, t, p)
        PROVE  Fits
    BY <2>3, <2>5 DEF CreateGroup, CreateConfigProfile, CreateFirmwareArtifact
  <2> QED BY <1>2, <2>1, <2>2, <2>4, <2>5 DEF Creation
<1>3. CASE Ruling
  <2>0. PICK r \in Rule : \E s : Store(r, s) /\ UNCHANGED deviceVars
    BY <1>3 DEF Ruling, CreateRule
  <2>1. PICK s : Store(r, s) /\ UNCHANGED deviceVars
    BY <2>0
  <2>2. r \in Record \ Device
    BY DisjointAssumption DEF Record
  <2> HIDE DEF Fits
  <2>3. UNCHANGED registered /\ place' = place
    BY <2>1 DEF deviceVars
  <2> QED BY <1>1, <2>1, <2>2, <2>3, Zenon
<1>4. ASSUME NEW d \in Device, SaveFirstShadow(d) \/ SaveFirstShadowFails(d)
      PROVE  Fits
  BY <1>4 DEF SaveFirstShadow, SaveFirstShadowFails, PlacesFit, Places, Registered,
     recordVars
<1>5. ASSUME NEW d \in Device, RegisterDevice(d)
      PROVE  Fits
  <2>1. PlacesFit'
    BY <1>5 DEF RegisterDevice, PlacesFit, Places, recordVars
  <2>2. d \notin Registered /\ Registered' = Registered \cup {d}
    BY <1>5 DEF RegisterDevice, Registered, PlacesFit
  <2> QED BY <1>5, <2>1, <2>2 DEF RegisterDevice
<1>6. CASE Membership \/ Upgrading
  BY <1>6 DEF Membership, AssignDeviceToGroup, RemoveDeviceFromGroup, Upgrading,
     CreateOTACampaign, recordVars, deviceVars, PlacesFit, Registered
<1>7. CASE Restart
  <2>1. PlacesFit'
    BY <1>7 DEF Restart, PlacesFit, Places, recordVars
  <2>2. Registered' = stored \cap Device
    BY <1>7 DEF Restart, Registered
  <2> QED BY <1>7, <2>1, <2>2 DEF Restart
<1> QED BY <1>2, <1>3, <1>4, <1>5, <1>6, <1>7 DEF Next, Registration

LEMMA RegistrationStep ==
  ASSUME ScopeTypes, PlacesFit, RegisteredAccounts, [Next]_vars
  PROVE  PlacesFit' /\ RegisteredAccounts'
<1>1. CASE Next
  <2>1. registered = Cardinality(Registered) /\ IsFiniteSet(Registered)
    BY DevicesAreFinite, FS_Subset DEF RegisteredAccounts, Registered
  <2>2. registered' = Cardinality(Registered')
    <3>1. CASE UNCHANGED registered /\ Registered' = Registered
      BY <2>1, <3>1
    <3>2. ASSUME NEW d \in Device \ Registered, registered' = registered + 1,
                 Registered' = Registered \cup {d}
          PROVE  registered' = Cardinality(Registered')
      <4>1. Cardinality(Registered \cup {d}) = Cardinality(Registered) + 1
        BY <2>1, <3>2, FS_AddElement
      <4> QED BY <2>1, <3>2, <4>1
    <3> QED BY <1>1, <3>1, <3>2, PlacesStep
  <2> QED BY <1>1, <2>2, PlacesStep DEF RegisteredAccounts, Registered
<1>2. CASE UNCHANGED vars
  BY <1>2 DEF vars, recordVars, deviceVars, PlacesFit, RegisteredAccounts
<1> QED BY <1>1, <1>2

LEMMA RegistrationInvariance == Spec => [](PlacesFit /\ RegisteredAccounts)
<1>1. Init => PlacesFit /\ RegisteredAccounts
  <2> SUFFICES ASSUME Init PROVE PlacesFit /\ RegisteredAccounts
    OBVIOUS
  <2>1. {d \in Device : place[d] = "registered"} = {}
    BY DEF Init
  <2> QED BY <2>1, FS_EmptySet DEF Init, PlacesFit, Places, RegisteredAccounts
<1>2. ScopeTypes /\ PlacesFit /\ RegisteredAccounts /\ [Next]_vars
        => PlacesFit' /\ RegisteredAccounts'
  BY RegistrationStep
<1>3. IInv => ScopeTypes
  BY DEF IInv
<1> QED BY <1>1, <1>2, <1>3, Invariance, PTL DEF Spec

THEOREM RegisteredIsExact == Spec => []RegisteredAccounts
BY RegistrationInvariance, PTL

(***************************************************************************)
(* The records are well typed and refer to records of the store only, for  *)
(* any records (the stores behind core.Service).                           *)
(***************************************************************************)
THEOREM TypeCorrect == Spec => []InventoryTypeOK
<1>1. IInv /\ PlacesFit /\ RegisteredAccounts => InventoryTypeOK
  <2> SUFFICES ASSUME IInv, PlacesFit, RegisteredAccounts PROVE InventoryTypeOK
    OBVIOUS
  <2>1. IsFiniteSet(Registered)
    BY DevicesAreFinite, FS_Subset DEF Registered
  <2>2. registered \in Nat
    BY <2>1, FS_CardinalityType DEF RegisteredAccounts, Registered
  <2> QED BY <2>2 DEF IInv, ScopeTypes, PlacesFit, InventoryTypeOK
<1> QED BY <1>1, Invariance, RegistrationInvariance, PTL

(***************************************************************************)
(* Normal forms.  No table of aliases leads from an alias to an alias, so  *)
(* that looking a value up twice is looking it up once.                    *)
(***************************************************************************)
Closed(alias) == \A key \in DOMAIN alias : alias[key] \notin DOMAIN alias

LEMMA AliasesAreClosed ==
  /\ Closed(TransportAlias) /\ Closed(ProtocolAlias) /\ Closed(IngestModeAlias)
  /\ Closed(PayloadFormatAlias) /\ Closed(AuthModeAlias)
<1>1. Closed(TransportAlias)
  <2> DEFINE a == TransportAlias
  <2>1. DOMAIN a = {"socket", "https", "serial", "opc_ua", "bacnet_ip", "lora"}
    BY DEF TransportAlias
  <2>2. /\ a["socket"] = "tcp" /\ a["https"] = "http" /\ a["serial"] = "rs485"
        /\ a["opc_ua"] = "opcua" /\ a["bacnet_ip"] = "bacnet" /\ a["lora"] = "lorawan"
    BY DEF TransportAlias
  <2> HIDE DEF a
  <2>3. \A key \in DOMAIN a : a[key] \notin DOMAIN a
    BY <2>1, <2>2, Zenon
  <2> QED BY <2>3 DEF Closed, a
<1>2. Closed(ProtocolAlias)
  <2> DEFINE a == ProtocolAlias
  <2>1. DOMAIN a = {"default", "tcp", "json_lines", "http", "mqtt", "modbus",
                      "opcua", "bacnet", "lorawan"}
    BY DEF ProtocolAlias
  <2>2. /\ a["default"] = "" /\ a["tcp"] = "tcp_json" /\ a["json_lines"] = "tcp_json"
        /\ a["http"] = "http_json" /\ a["mqtt"] = "mqtt_json"
        /\ a["modbus"] = "modbus_tcp" /\ a["opcua"] = "opcua_json"
        /\ a["bacnet"] = "bacnet_ip" /\ a["lorawan"] = "lorawan_uplink"
    BY DEF ProtocolAlias
  <2> HIDE DEF a
  <2>3. \A key \in DOMAIN a : a[key] \notin DOMAIN a
    BY <2>1, <2>2, Zenon
  <2> QED BY <2>3 DEF Closed, a
<1>3. Closed(IngestModeAlias)
  <2> DEFINE a == IngestModeAlias
  <2>1. DOMAIN a = {"default", "gateway", "direct", "http", "mqtt",
                      "mqtt_broker", "bridge", "webhook"}
    BY DEF IngestModeAlias
  <2>2. /\ a["default"] = "" /\ a["gateway"] = "gateway_tcp"
        /\ a["direct"] = "gateway_tcp" /\ a["http"] = "http_push"
        /\ a["mqtt"] = "broker_mqtt" /\ a["mqtt_broker"] = "broker_mqtt"
        /\ a["bridge"] = "bridge_http" /\ a["webhook"] = "bridge_http"
    BY DEF IngestModeAlias
  <2> HIDE DEF a
  <2>3. \A key \in DOMAIN a : a[key] \notin DOMAIN a
    BY <2>1, <2>2, Zenon
  <2> QED BY <2>3 DEF Closed, a
<1>4. Closed(PayloadFormatAlias)
  <2> DEFINE a == PayloadFormatAlias
  <2>1. DOMAIN a = {"default", "json", "flat", "registers", "mapped"}
    BY DEF PayloadFormatAlias
  <2>2. /\ a["default"] = "" /\ a["json"] = "json_values" /\ a["flat"] = "flat_json"
        /\ a["registers"] = "register_map" /\ a["mapped"] = "mapped_json"
    BY DEF PayloadFormatAlias
  <2> HIDE DEF a
  <2>3. \A key \in DOMAIN a : a[key] \notin DOMAIN a
    BY <2>1, <2>2, Zenon
  <2> QED BY <2>3 DEF Closed, a
<1>5. Closed(AuthModeAlias)
  <2> DEFINE a == AuthModeAlias
  <2>1. DOMAIN a = {"default", "device_token", "bearer", "secret"}
    BY DEF AuthModeAlias
  <2>2. /\ a["default"] = "" /\ a["device_token"] = "token"
        /\ a["bearer"] = "bearer_token" /\ a["secret"] = "bridge_secret"
    BY DEF AuthModeAlias
  <2> HIDE DEF a
  <2>3. \A key \in DOMAIN a : a[key] \notin DOMAIN a
    BY <2>1, <2>2, Zenon
  <2> QED BY <2>3 DEF Closed, a
<1> QED BY <1>1, <1>2, <1>3, <1>4, <1>5

LEMMA GivenIsSettled ==
  ASSUME NEW alias, Closed(alias), NEW missing, Settled(missing, alias), NEW value
  PROVE  Settled(Given(value, alias, missing), alias)
BY DEF Given, Entry, Closed, Settled

LEMMA SettledIsGiven ==
  ASSUME NEW alias, NEW value, Settled(value, alias), NEW missing
  PROVE  Given(value, alias, missing) = value /\ Entry(alias, value) = value
BY DEF Given, Entry, Settled

\* What fills in for a missing field is settled itself.
LEMMA DefaultsAreSettled ==
  /\ \A transport, ingestMode : Settled(ProtocolOf(transport, ingestMode), ProtocolAlias)
  /\ \A protocol : Settled(Lookup(TransportOf, protocol, "tcp"), TransportAlias)
  /\ \A protocol : Settled(Lookup(IngestModeOf, protocol, "bridge_http"), IngestModeAlias)
  /\ Settled("register_map", PayloadFormatAlias) /\ Settled("json_values", PayloadFormatAlias)
  /\ Settled("token", AuthModeAlias)
<1>1. \A transport, ingestMode : Settled(ProtocolOf(transport, ingestMode), ProtocolAlias)
  BY DEF Settled, ProtocolOf, ProtocolAlias
<1>2. ASSUME NEW protocol
      PROVE  Settled(Lookup(TransportOf, protocol, "tcp"), TransportAlias)
  <2>1. Lookup(TransportOf, protocol, "tcp") \in
          {"http", "mqtt", "ethernet", "rs485", "opcua", "bacnet", "lorawan", "tcp"}
    BY DEF Lookup, TransportOf
  <2> QED BY <2>1 DEF Settled, TransportAlias
<1>3. ASSUME NEW protocol
      PROVE  Settled(Lookup(IngestModeOf, protocol, "bridge_http"), IngestModeAlias)
  <2>1. Lookup(IngestModeOf, protocol, "bridge_http") \in
          {"gateway_tcp", "http_push", "broker_mqtt", "bridge_http"}
    BY DEF Lookup, IngestModeOf
  <2> QED BY <2>1 DEF Settled, IngestModeAlias
<1>4. /\ Settled("register_map", PayloadFormatAlias) /\ Settled("json_values", PayloadFormatAlias)
      /\ Settled("token", AuthModeAlias)
  BY DEF Settled, PayloadFormatAlias, AuthModeAlias
<1> QED BY <1>1, <1>2, <1>3, <1>4

\* A mapping has its three fields.
IsMappings(mappings) ==
  \A i \in DOMAIN mappings : DOMAIN mappings[i] = {"source", "property", "scale"}

LEMMA NormalMappingsKeep ==
  ASSUME NEW mappings, IsMappings(mappings)
  PROVE  LET normal == NormalMappings(mappings)
         IN  /\ DOMAIN normal = DOMAIN mappings
             /\ IsMappings(normal)
             /\ \A i \in DOMAIN mappings :
                  normal[i].property = mappings[i].property /\ normal[i].scale # 0
             /\ NormalMappings(normal) = normal
<1> DEFINE normal == NormalMappings(mappings)
<1>1. /\ DOMAIN normal = DOMAIN mappings
      /\ \A i \in DOMAIN mappings :
           normal[i] = [mappings[i] EXCEPT !.scale = IF @ = 0 THEN 1 ELSE @]
  BY DEF NormalMappings
<1>4. ASSUME NEW i \in DOMAIN mappings
      PROVE  /\ DOMAIN normal[i] = {"source", "property", "scale"}
             /\ normal[i].property = mappings[i].property
             /\ normal[i].scale # 0
             /\ normal[i] = [normal[i] EXCEPT !.scale = IF @ = 0 THEN 1 ELSE @]
  <2> DEFINE m == mappings[i]
             s == IF m.scale = 0 THEN 1 ELSE m.scale
             r == [field \in DOMAIN m |-> IF field = "scale" THEN s ELSE m[field]]
  <2>1. DOMAIN m = {"source", "property", "scale"} /\ s # 0
    BY DEF IsMappings
  <2>2. normal[i] = r
    BY <1>1, <2>1
  <2>3. DOMAIN r = DOMAIN m /\ r.property = m.property /\ r.scale = s
    BY <2>1
  <2>4. r = [r EXCEPT !.scale = s]
    BY <2>1, <2>3
  <2> HIDE DEF m, s, r
  <2>5. normal[i].scale = s
    BY <2>2, <2>3
  <2> QED BY <2>1, <2>2, <2>3, <2>4, <2>5 DEF m
<1>2. normal = [i \in DOMAIN normal |-> normal[i]]
  BY DEF NormalMappings
<1> HIDE DEF normal
<1>3. NormalMappings(normal) = normal
  BY <1>1, <1>2, <1>4 DEF NormalMappings
<1> QED BY <1>1, <1>3, <1>4 DEF IsMappings, normal

\* normalizeAccessProfile yields a profile in normal form, whatever it is given.
LEMMA NormalProfileIsNormal ==
  ASSUME NEW profile, IsMappings(profile.mappings)
  PROVE  ProfileIsNormal(NormalProfile(profile)) /\ IsMappings(NormalProfile(profile).mappings)
<1> DEFINE n == NormalProfile(profile)
<1>1. n.mappings = NormalMappings(profile.mappings)
  BY DEF NormalProfile
<1>2. /\ IsMappings(n.mappings) /\ NormalMappings(n.mappings) = n.mappings
      /\ \A i \in DOMAIN n.mappings : n.mappings[i].scale # 0
  BY <1>1, NormalMappingsKeep
<1>3. Settled(n.protocol, ProtocolAlias)
  BY AliasesAreClosed, DefaultsAreSettled, GivenIsSettled DEF NormalProfile
<1>4. Settled(n.transport, TransportAlias)
  BY AliasesAreClosed, DefaultsAreSettled DEF NormalProfile, Entry, Closed, Settled
<1>5. /\ Settled(n.ingestMode, IngestModeAlias)
      /\ Settled(n.authMode, AuthModeAlias)
  BY AliasesAreClosed, DefaultsAreSettled, GivenIsSettled DEF NormalProfile
<1>6. Settled(n.payloadFormat, PayloadFormatAlias)
  BY AliasesAreClosed, DefaultsAreSettled, GivenIsSettled DEF NormalProfile
<1>7. n = [transport |-> n.transport, protocol |-> n.protocol, ingestMode |-> n.ingestMode,
           payloadFormat |-> n.payloadFormat, authMode |-> n.authMode, mappings |-> n.mappings]
  BY DEF NormalProfile
<1> HIDE DEF n
<1>8. NormalProfile(n) = n
  <2> DEFINE again == NormalProfile(n)
  <2>1. again.protocol = n.protocol
    BY <1>3, SettledIsGiven DEF NormalProfile
  <2>2. again.transport = n.transport
    BY <1>4, SettledIsGiven DEF NormalProfile, Settled
  <2>3. again.ingestMode = n.ingestMode
    BY <1>5, SettledIsGiven DEF NormalProfile
  <2>4. again.authMode = n.authMode
    BY <1>5, SettledIsGiven DEF NormalProfile
  <2>5. again.payloadFormat = n.payloadFormat
    BY <1>6, SettledIsGiven DEF NormalProfile
  <2>6. again.mappings = n.mappings
    BY <1>2 DEF NormalProfile
  <2>7. again = [transport |-> again.transport, protocol |-> again.protocol,
                 ingestMode |-> again.ingestMode, payloadFormat |-> again.payloadFormat,
                 authMode |-> again.authMode, mappings |-> again.mappings]
    BY DEF NormalProfile
  <2> HIDE DEF again
  <2>8. again = n
    BY <1>7, <2>1, <2>2, <2>3, <2>4, <2>5, <2>6, <2>7
  <2> QED BY <2>8 DEF again
<1> QED BY <1>2, <1>4, <1>5, <1>6, <1>8 DEF ProfileIsNormal, n

\* normalizeProductThingModel yields supported data types only.
LEMMA NormalModelTypes ==
  ASSUME NEW input, ModelAccepted(input)
  PROVE  \A id \in DOMAIN NormalModel(input) : NormalModel(input)[id] \in DOMAIN Fitting
<1> SUFFICES ASSUME NEW id \in DOMAIN NormalModel(input)
             PROVE  NormalModel(input)[id] \in DOMAIN Fitting
  OBVIOUS
<1> DEFINE property == CHOOSE i \in DOMAIN input : input[i].id = id
<1>1. property \in DOMAIN input
  BY DEF NormalModel
<1>2. NormalModel(input)[id] = Entry(DataTypeAlias, input[property].type)
  BY DEF NormalModel
<1> QED BY <1>1, <1>2 DEF ModelAccepted

\* Normalising a profile leaves it fitting the models it fitted.
LEMMA NormalProfileFits ==
  ASSUME NEW model, NEW profile, IsMappings(profile.mappings),
         MappingsFit(model, profile.mappings)
  PROVE  MappingsFit(model, NormalProfile(profile).mappings)
<1>1. NormalProfile(profile).mappings = NormalMappings(profile.mappings)
  BY DEF NormalProfile
<1>2. \A i \in DOMAIN profile.mappings :
        DOMAIN model # {} => profile.mappings[i].property \in DOMAIN model
  BY DEF MappingsFit
<1> QED BY <1>1, <1>2, NormalMappingsKeep DEF MappingsFit

(***************************************************************************)
(* What a payload's mappings name, when they fit the model, is not unknown *)
(* to the model (BuildValues and validateThingValues).                     *)
(***************************************************************************)
LEMMA FittingValuesAreKnown ==
  ASSUME NEW payload, NEW profile, ByMappings(payload, profile),
         MappingsFit(product.model, profile.mappings)
  PROVE  Outcome(Resolved(payload, profile)) # "unknown"
<1> DEFINE values == Mapped(payload, profile.mappings)
<1>1. Resolved(payload, profile) = values
  BY DEF Resolved, ByMappings
<1>2. \A id \in DOMAIN values :
        \E i \in DOMAIN profile.mappings : id = profile.mappings[i].property
  BY DEF Mapped
<1>3. DOMAIN values # {}
  BY DEF ByMappings
<1> HIDE DEF values
<1>4. profile.mappings # <<>>
  BY <1>2, <1>3
<1>5. CASE DOMAIN product.model = {}
  BY <1>1, <1>3, <1>5 DEF Outcome, Accepts
<1>6. CASE DOMAIN product.model # {}
  <2>1. DOMAIN values \subseteq DOMAIN product.model
    BY <1>2, <1>4, <1>6 DEF MappingsFit
  <2> QED BY <1>1, <1>3, <2>1 DEF Outcome
<1> QED BY <1>5, <1>6

(***************************************************************************)
(* The inductive invariant: products are well formed wherever they are     *)
(* kept; a copy that is not stale is the stored product; and the profile   *)
(* of a client that was not disturbed fits the stored model.               *)
(***************************************************************************)
IsProfile(p) == ProfileIsNormal(p) /\ IsMappings(p.mappings)

IsProduct(p, latest) ==
  /\ p = [model |-> p.model, version |-> p.version, profile |-> p.profile]
  /\ \A id \in DOMAIN p.model : p.model[id] \in DOMAIN Fitting
  /\ p.version \in 1 .. latest
  /\ IsProfile(p.profile)

AccessTypes ==
  /\ updates \in 0 .. MaxUpdates
  /\ copy = [w \in Writer |-> copy[w]]
  /\ held = [c \in Client |-> held[c]]
  /\ IsProduct(product, updates + 1)
  /\ \A w \in Writer :
       copy[w] # Nil => /\ copy[w].half \in {"model", "profile"}
                        /\ IsProduct(copy[w].product, updates + 1)
  /\ \A c \in Client : held[c] # Nil => IsProfile(held[c])

CopiesAreCurrent == \A w \in Writer \ stale : copy[w] # Nil => copy[w].product = product

ProfilesFit ==
  /\ MappingsFitTheModel
  /\ \A c \in Client \ disturbed :
       held[c] # Nil => MappingsFit(product.model, held[c].mappings)

AccessInv == AccessTypes /\ CopiesAreCurrent /\ ProfilesFit /\ RefusalsAreExplained

LEMMA AccessInitially == AccessInit => AccessInv
<1> SUFFICES ASSUME AccessInit PROVE AccessInv
  OBVIOUS
<1>1. PICK m \in ModelInputs, p \in ProfileInputs :
        /\ ModelAccepted(m) /\ MappingsFit(NormalModel(m), p.mappings)
        /\ product = [model |-> NormalModel(m), version |-> 1, profile |-> NormalProfile(p)]
  BY DEF AccessInit
<1>2. IsMappings(p.mappings)
  BY InputAssumption DEF IsMappings
<1>3. IsProduct(product, updates + 1)
  BY <1>1, <1>2, NormalModelTypes, NormalProfileIsNormal
     DEF AccessInit, IsProduct, IsProfile
<1>4. MappingsFit(product.model, product.profile.mappings)
  BY <1>1, <1>2, NormalProfileFits
<1>5. AccessTypes
  BY <1>3, UpdatesAssumption DEF AccessInit, AccessTypes
<1> QED BY <1>4, <1>5 DEF AccessInit, AccessInv, CopiesAreCurrent, ProfilesFit,
           MappingsFitTheModel, RefusalsAreExplained, NoOutcome

LEMMA StillProduct ==
  ASSUME NEW n \in Nat, NEW p, IsProduct(p, n)
  PROVE  IsProduct(p, n + 1)
BY DEF IsProduct

LEMMA RefusalsStayExplained ==
  ASSUME RefusalsAreExplained, UNCHANGED outcome, disturbed \subseteq disturbed'
  PROVE  RefusalsAreExplained'
BY DEF RefusalsAreExplained

LEMMA GettingKeepsInv ==
  ASSUME AccessInv, NEW w \in Writer, NEW half \in {"model", "profile"}, GetProduct(w, half)
  PROVE  AccessInv'
<1>1. /\ \A v \in Writer : copy'[v] = IF v = w THEN [half |-> half, product |-> product]
                                      ELSE copy[v]
      /\ copy' = [v \in Writer |-> copy'[v]]
  BY DEF GetProduct, AccessInv, AccessTypes
<1>2. UNCHANGED <<product, held, outcome, updates, checked, disturbed>> /\ stale' = stale \ {w}
  BY DEF GetProduct
<1>3. AccessTypes'
  BY <1>1, <1>2 DEF AccessInv, AccessTypes
<1>4. CopiesAreCurrent'
  BY <1>1, <1>2 DEF AccessInv, CopiesAreCurrent
<1>5. ProfilesFit'
  BY <1>2 DEF AccessInv, ProfilesFit, MappingsFitTheModel
<1> QED BY <1>2, <1>3, <1>4, <1>5, RefusalsStayExplained DEF AccessInv

LEMMA RefusingKeepsInv ==
  ASSUME AccessInv, NEW w \in Writer, NEW half, Refused(w, half)
  PROVE  AccessInv'
<1>1. /\ \A v \in Writer : copy'[v] = IF v = w THEN Nil ELSE copy[v]
      /\ copy' = [v \in Writer |-> copy'[v]]
  BY DEF Refused, Done, AccessInv, AccessTypes
<1>2. UNCHANGED <<product, held, outcome, updates, stale, checked, disturbed>>
  BY DEF Refused, history
<1>3. AccessTypes'
  BY <1>1, <1>2 DEF AccessInv, AccessTypes
<1>4. CopiesAreCurrent'
  BY <1>1, <1>2 DEF AccessInv, CopiesAreCurrent
<1>5. ProfilesFit'
  BY <1>2 DEF AccessInv, ProfilesFit, MappingsFitTheModel
<1> QED BY <1>2, <1>3, <1>4, <1>5, RefusalsStayExplained DEF AccessInv

\* What saving does whoever saves: every copy that is left is stale.
LEMMA SavingKeepsTypes ==
  ASSUME AccessInv, NEW w \in Writer, NEW saved, SaveProduct(w, saved),
         IsProduct(saved, updates + 2)
  PROVE  AccessTypes' /\ CopiesAreCurrent'
<1>1. /\ \A v \in Writer : copy'[v] = IF v = w THEN Nil ELSE copy[v]
      /\ copy' = [v \in Writer |-> copy'[v]]
  BY DEF SaveProduct, Done, AccessInv, AccessTypes
<1>2. /\ product' = saved /\ held' = held
      /\ updates \in Nat /\ updates' = updates + 1 /\ updates' \in 0 .. MaxUpdates
      /\ stale' = {v \in Writer \ {w} : copy[v] # Nil}
  BY UpdatesAssumption DEF SaveProduct, AccessInv, AccessTypes
<1>3. \A v \in Writer : copy'[v] # Nil => /\ copy'[v].half \in {"model", "profile"}
                                          /\ IsProduct(copy'[v].product, updates' + 1)
  <2> SUFFICES ASSUME NEW v \in Writer, copy'[v] # Nil
               PROVE  /\ copy'[v].half \in {"model", "profile"}
                      /\ IsProduct(copy'[v].product, updates' + 1)
    OBVIOUS
  <2>1. copy'[v] = copy[v] /\ copy[v] # Nil
    BY <1>1
  <2>2. copy[v].half \in {"model", "profile"} /\ IsProduct(copy[v].product, updates + 1)
    BY <2>1 DEF AccessInv, AccessTypes
  <2>3. IsProduct(copy[v].product, updates' + 1)
    BY <1>2, <2>2, StillProduct
  <2> QED BY <2>1, <2>2, <2>3
<1>4. IsProduct(product', updates' + 1)
  <2>1. updates' + 1 = updates + 2
    BY <1>2
  <2> QED BY <1>2, <2>1
<1>5. \A c \in Client : held'[c] # Nil => IsProfile(held'[c])
  BY <1>2 DEF AccessInv, AccessTypes
<1>6. held' = [c \in Client |-> held'[c]]
  BY <1>2 DEF AccessInv, AccessTypes
<1>7. AccessTypes'
  BY <1>1, <1>2, <1>3, <1>4, <1>5, <1>6 DEF AccessTypes
<1> QED BY <1>1, <1>2, <1>7 DEF CopiesAreCurrent

LEMMA BothUpdated ==
  ASSUME NEW p, NEW m,
         p = [model |-> p.model, version |-> p.version, profile |-> p.profile]
  PROVE  [p EXCEPT !.model = m, !.version = @ + 1]
           = [model |-> m, version |-> p.version + 1, profile |-> p.profile]
<1> DEFINE q == [p EXCEPT !.model = m]
<1>1. q = [model |-> m, version |-> p.version, profile |-> p.profile]
  OBVIOUS
<1>2. [p EXCEPT !.model = m, !.version = @ + 1] = [q EXCEPT !.version = p.version + 1]
  OBVIOUS
<1> HIDE DEF q
<1>3. [q EXCEPT !.version = p.version + 1]
        = [model |-> m, version |-> p.version + 1, profile |-> p.profile]
  BY <1>1
<1> QED BY <1>2, <1>3

LEMMA ModelUpdateKeepsInv ==
  ASSUME AccessInv, NEW w \in Writer, NEW input \in ModelInputs,
         UpdateProductThingModel(w, input)
  PROVE  AccessInv'
<1>1. CASE Refused(w, "model")
  BY <1>1, RefusingKeepsInv
<1>2. CASE ~Refused(w, "model")
  <2> DEFINE old == copy[w].product
             saved == [old EXCEPT !.model = NormalModel(input), !.version = @ + 1]
  <2>1. /\ ModelAccepted(input) /\ copy[w] # Nil /\ SaveProduct(w, saved)
        /\ checked' = FALSE /\ disturbed' = disturbed \cup Holding
    BY <1>2 DEF UpdateProductThingModel
  <2>2. IsProduct(old, updates + 1) /\ updates \in Nat
    BY <2>1 DEF AccessInv, AccessTypes
  <2>3. saved = [model |-> NormalModel(input), version |-> old.version + 1,
                 profile |-> old.profile]
    BY <2>2, BothUpdated DEF IsProduct
  <2>4. old.version + 1 \in 1 .. updates + 2 /\ IsProfile(old.profile)
    BY <2>2 DEF IsProduct
  <2> HIDE DEF old, saved
  <2>5. IsProduct(saved, updates + 2)
    BY <2>1, <2>3, <2>4, NormalModelTypes DEF IsProduct
  <2>6. held' = held /\ outcome' = outcome
    BY <2>1 DEF SaveProduct
  <2>7. ProfilesFit'
    BY <2>1, <2>6 DEF ProfilesFit, MappingsFitTheModel, Holding
  <2>8. AccessTypes' /\ CopiesAreCurrent'
    BY <2>1, <2>5, SavingKeepsTypes
  <2> QED BY <2>1, <2>6, <2>7, <2>8, RefusalsStayExplained DEF AccessInv
<1> QED BY <1>1, <1>2

LEMMA ProfileUpdateKeepsInv ==
  ASSUME AccessInv, NEW w \in Writer, NEW input \in ProfileInputs,
         UpdateProductAccessProfile(w, input)
  PROVE  AccessInv'
<1>1. CASE Refused(w, "profile")
  BY <1>1, RefusingKeepsInv
<1>2. CASE ~Refused(w, "profile")
  <2> DEFINE old == copy[w].product
             saved == [old EXCEPT !.profile = NormalProfile(input)]
  <2>1. /\ MappingsFit(old.model, input.mappings) /\ copy[w] # Nil
        /\ SaveProduct(w, saved)
        /\ checked' = TRUE
        /\ disturbed' = IF w \in stale THEN disturbed \cup Holding ELSE disturbed
    BY <1>2 DEF UpdateProductAccessProfile
  <2>2. IsProduct(old, updates + 1) /\ updates \in Nat
    BY <2>1 DEF AccessInv, AccessTypes
  <2>3. saved = [model |-> old.model, version |-> old.version, profile |-> NormalProfile(input)]
    BY <2>2 DEF IsProduct
  <2>4. /\ old.version \in 1 .. updates + 2
        /\ \A id \in DOMAIN old.model : old.model[id] \in DOMAIN Fitting
    BY <2>2 DEF IsProduct
  <2>5. w \notin stale => old = product
    BY <2>1 DEF AccessInv, CopiesAreCurrent
  <2> HIDE DEF old, saved
  <2>6. IsMappings(input.mappings)
    BY InputAssumption DEF IsMappings
  <2>7. IsProfile(NormalProfile(input))
    BY <2>6, NormalProfileIsNormal DEF IsProfile
  <2>8. IsProduct(saved, updates + 2)
    BY <2>3, <2>4, <2>7 DEF IsProduct
  <2>9. held' = held /\ outcome' = outcome /\ product' = saved
    BY <2>1 DEF SaveProduct
  <2>10. product'.model = old.model /\ MappingsFit(product'.model, product'.profile.mappings)
    BY <2>1, <2>3, <2>6, <2>9, NormalProfileFits
  <2>11. ASSUME NEW c \in Client \ disturbed', held'[c] # Nil
         PROVE  MappingsFit(product'.model, held'[c].mappings)
    <3>1. c \notin disturbed /\ held[c] # Nil /\ w \notin stale
      BY <2>1, <2>9, <2>11 DEF Holding
    <3>2. product'.model = product.model
      BY <2>5, <2>10, <3>1
    <3> QED BY <2>9, <3>1, <3>2 DEF AccessInv, ProfilesFit
  <2>12. ProfilesFit'
    BY <2>10, <2>11 DEF ProfilesFit, MappingsFitTheModel
  <2>13. AccessTypes' /\ CopiesAreCurrent'
    BY <2>1, <2>8, SavingKeepsTypes
  <2>14. disturbed \subseteq disturbed'
    BY <2>1
  <2> QED BY <2>9, <2>12, <2>13, <2>14, RefusalsStayExplained DEF AccessInv
<1> QED BY <1>1, <1>2

LEMMA ReadingKeepsInv ==
  ASSUME AccessInv, NEW c \in Client, ReadProfile(c)
  PROVE  AccessInv'
<1>1. /\ \A d \in Client : held'[d] = IF d = c THEN product.profile ELSE held[d]
      /\ held' = [d \in Client |-> held'[d]]
  BY DEF ReadProfile, AccessInv, AccessTypes
<1>2. /\ UNCHANGED <<product, copy, updates, stale, checked>>
      /\ disturbed' = IF checked THEN disturbed \ {c} ELSE disturbed \cup {c}
      /\ outcome' = IF outcome.client = c THEN NoOutcome ELSE outcome
  BY DEF ReadProfile
<1>3. AccessTypes'
  <2>1. IsProfile(product.profile)
    BY DEF AccessInv, AccessTypes, IsProduct
  <2> QED BY <1>1, <1>2, <2>1 DEF AccessInv, AccessTypes
<1>4. CopiesAreCurrent'
  BY <1>2 DEF AccessInv, CopiesAreCurrent
<1>5. ProfilesFit'
  BY <1>1, <1>2 DEF AccessInv, ProfilesFit, MappingsFitTheModel
<1>6. RefusalsAreExplained'
  BY <1>2 DEF AccessInv, RefusalsAreExplained, NoOutcome
<1> QED BY <1>3, <1>4, <1>5, <1>6 DEF AccessInv

\* A client that gives up its profile changes nothing for the others.
LEMMA LettingGoKeeps ==
  ASSUME AccessInv, NEW c \in Client,
         held' = [held EXCEPT ![c] = Nil] \/ held' = held,
         UNCHANGED <<product, copy, updates, history>>
  PROVE  AccessTypes' /\ CopiesAreCurrent' /\ ProfilesFit'
<1>1. /\ \A d \in Client : held'[d] \in {held[d], Nil}
      /\ held' = [d \in Client |-> held'[d]]
  BY DEF AccessInv, AccessTypes
<1>2. AccessTypes'
  BY <1>1 DEF AccessInv, AccessTypes
<1>3. CopiesAreCurrent'
  BY DEF AccessInv, CopiesAreCurrent, history
<1>4. ProfilesFit'
  BY <1>1 DEF AccessInv, ProfilesFit, MappingsFitTheModel, history
<1> QED BY <1>2, <1>3, <1>4

LEMMA IngestKeepsInv ==
  ASSUME AccessInv, NEW c \in Client, NEW payload, Ingest(c, payload)
  PROVE  AccessInv'
<1>1. AccessTypes' /\ CopiesAreCurrent' /\ ProfilesFit'
  <2>1. /\ held' = [held EXCEPT ![c] = Nil] \/ held' = held
        /\ UNCHANGED <<product, copy, updates, history>>
    BY DEF Ingest
  <2> QED BY <2>1, LettingGoKeeps
<1>2. RefusalsAreExplained'
  <2>1. SUFFICES ASSUME outcome'.mapped, outcome'.verdict = "unknown", c \notin disturbed
                 PROVE  FALSE
    BY DEF RefusalsAreExplained, Ingest, history
  <2>2. ByMappings(payload, held[c]) /\ Outcome(Resolved(payload, held[c])) = "unknown"
    BY <2>1 DEF Ingest
  <2>3. MappingsFit(product.model, held[c].mappings)
    BY <2>1 DEF Ingest, AccessInv, ProfilesFit
  <2> QED BY <2>2, <2>3, FittingValuesAreKnown
<1> QED BY <1>1, <1>2 DEF AccessInv

LEMMA AccessInductive == AccessInv /\ [AccessNext]_accessVars => AccessInv'
<1> SUFFICES ASSUME AccessInv, [AccessNext]_accessVars PROVE AccessInv'
  OBVIOUS
<1>1. ASSUME NEW w \in Writer, NEW half \in {"model", "profile"}, GetProduct(w, half)
      PROVE  AccessInv'
  BY <1>1, GettingKeepsInv
<1>2. ASSUME NEW w \in Writer, NEW input \in ModelInputs, UpdateProductThingModel(w, input)
      PROVE  AccessInv'
  BY <1>2, ModelUpdateKeepsInv
<1>3. ASSUME NEW w \in Writer, NEW input \in ProfileInputs,
             UpdateProductAccessProfile(w, input)
      PROVE  AccessInv'
  BY <1>3, ProfileUpdateKeepsInv
<1>4. ASSUME NEW c \in Client, ReadProfile(c)
      PROVE  AccessInv'
  BY <1>4, ReadingKeepsInv
<1>5. ASSUME NEW c \in Client, NEW payload \in Payloads, Ingest(c, payload)
      PROVE  AccessInv'
  BY <1>5, IngestKeepsInv
<1>6. ASSUME NEW c \in Client, OnDisconnect(c)
      PROVE  AccessInv'
  BY <1>6, LettingGoKeeps, RefusalsStayExplained DEF OnDisconnect, AccessInv, history
<1>7. CASE UNCHANGED accessVars
  BY <1>7 DEF accessVars, history, AccessInv, AccessTypes, CopiesAreCurrent, ProfilesFit,
     MappingsFitTheModel, RefusalsAreExplained
<1> QED BY <1>1, <1>2, <1>3, <1>4, <1>5, <1>6, <1>7 DEF AccessNext

LEMMA AccessInvariance == AccessSpec => []AccessInv
BY AccessInitially, AccessInductive, PTL DEF AccessSpec

(***************************************************************************)
(* The stored product has a model of supported types and a profile in      *)
(* normal form, and so has every profile in use, for any inputs and any    *)
(* number of writers and clients (normalizeProductThingModel,              *)
(* normalizeAccessProfile).                                                *)
(***************************************************************************)
THEOREM AccessTypeCorrect == AccessSpec => []AccessTypeOK
<1>1. AccessInv => AccessTypeOK
  <2> SUFFICES ASSUME AccessInv PROVE AccessTypeOK
    OBVIOUS
  <2>1. updates \in 0 .. MaxUpdates /\ IsProduct(product, updates + 1)
    BY DEF AccessInv, AccessTypes
  <2>2. /\ \A id \in DOMAIN product.model : product.model[id] \in DOMAIN Fitting
        /\ product.version \in 1 .. updates + 1
        /\ ProfileIsNormal(product.profile)
    BY <2>1 DEF IsProduct, IsProfile
  <2>3. product.version \in 1 .. MaxUpdates + 1
    BY <2>1, <2>2, UpdatesAssumption
  <2>4. /\ \A c \in Holding : ProfileIsNormal(held[c])
        /\ \A w \in Writer : copy[w] # Nil => copy[w].half \in {"model", "profile"}
    BY DEF AccessInv, AccessTypes, IsProfile, Holding
  <2> QED BY <2>1, <2>2, <2>3, <2>4 DEF AccessTypeOK
<1> QED BY <1>1, AccessInvariance, PTL

(***************************************************************************)
(* A profile update leaves mappings that fit the model stored with them,   *)
(* however the updates of any number of writers overlap                    *)
(* (UpdateProductAccessProfile saves the whole product it has checked).    *)
(***************************************************************************)
THEOREM CheckedMappingsFit == AccessSpec => []MappingsFitTheModel
<1>1. AccessInv => MappingsFitTheModel
  BY DEF AccessInv, ProfilesFit
<1> QED BY <1>1, AccessInvariance, PTL

(***************************************************************************)
(* Values that a client's mappings name are refused as unknown only when   *)
(* the model was changed behind the client's profile, for any payloads     *)
(* (handleHTTPIngest, OnConnectAuthenticate, HandleTelemetry).             *)
(***************************************************************************)
THEOREM UnknownMeansDisturbed == AccessSpec => []RefusalsAreExplained
<1>1. AccessInv => RefusalsAreExplained
  BY DEF AccessInv
<1> QED BY <1>1, AccessInvariance, PTL

(***************************************************************************)
(* The protocol catalog.  First what the resolver does with one container: *)
(* a source that is found there is what it holds, and mappings to distinct *)
(* properties do not overwrite each other.                                 *)
(***************************************************************************)
LEMMA SourceOfOne ==
  ASSUME NEW payload, NEW source, source.in # "any", Holds(payload, source.in, source.key)
  PROVE  Found(payload, source) /\ SourceValue(payload, source) = payload[source.in][source.key]
<1> DEFINE seq == Containers(source)
           I == {i \in 1..Len(seq) : Holds(payload, seq[i], source.key)}
<1>1. seq = <<source.in>> /\ Len(seq) = 1 /\ seq[1] = source.in /\ DOMAIN seq = 1..1
  BY DEF Containers
<1>2. I = {1}
  BY <1>1
<1>3. SelectInSeq(seq, LAMBDA c : Holds(payload, c, source.key)) = 1
  <2>1. SelectInSeq(seq, LAMBDA c : Holds(payload, c, source.key)) = IF I # {} THEN Min(I) ELSE 0
    BY DEF SelectInSeq
  <2>2. Min({1}) = 1
    BY DEF Min
  <2> QED BY <1>2, <2>1, <2>2
<1>4. Found(payload, source)
  BY <1>1 DEF Found
<1>5. SourceValue(payload, source) = payload[seq[1]][source.key]
  BY <1>3 DEF SourceValue
<1> QED BY <1>1, <1>4, <1>5

LEMMA MaxOfOne ==
  ASSUME NEW i \in Nat
  PROVE  Max({i}) = i
BY DEF Max

\* Every mapping finds its source in a container of its own.
AllFound(payload, mappings) ==
  \A i \in DOMAIN mappings :
    /\ mappings[i].source.in # "any"
    /\ Holds(payload, mappings[i].source.in, mappings[i].source.key)

LEMMA MappedDistinct ==
  ASSUME NEW payload, NEW mappings, DOMAIN mappings \subseteq Nat, AllFound(payload, mappings),
         \A i, j \in DOMAIN mappings : mappings[i].property = mappings[j].property => i = j
  PROVE  /\ DOMAIN Mapped(payload, mappings) = {mappings[i].property : i \in DOMAIN mappings}
         /\ \A i \in DOMAIN mappings :
              Mapped(payload, mappings)[mappings[i].property]
                = Scaled(payload[mappings[i].source.in][mappings[i].source.key], mappings[i].scale)
<1> DEFINE found == {i \in DOMAIN mappings : Found(payload, mappings[i].source)}
           last(id) == Max({i \in found : mappings[i].property = id})
<1>1. found = DOMAIN mappings
  BY SourceOfOne DEF AllFound
<1>2. Mapped(payload, mappings) =
        [id \in {mappings[i].property : i \in found} |->
           Scaled(SourceValue(payload, mappings[last(id)].source), mappings[last(id)].scale)]
  BY DEF Mapped
<1>3. ASSUME NEW i \in DOMAIN mappings PROVE last(mappings[i].property) = i
  <2>1. {j \in found : mappings[j].property = mappings[i].property} = {i}
    BY <1>1
  <2> QED BY <2>1, MaxOfOne
<1>4. ASSUME NEW i \in DOMAIN mappings
      PROVE  Mapped(payload, mappings)[mappings[i].property]
               = Scaled(payload[mappings[i].source.in][mappings[i].source.key], mappings[i].scale)
  <2>1. Mapped(payload, mappings)[mappings[i].property]
          = Scaled(SourceValue(payload, mappings[last(mappings[i].property)].source),
                   mappings[last(mappings[i].property)].scale)
    BY <1>1, <1>2
  <2>2. SourceValue(payload, mappings[i].source)
          = payload[mappings[i].source.in][mappings[i].source.key]
    BY SourceOfOne DEF AllFound
  <2> QED BY <1>3, <2>1, <2>2
<1> QED BY <1>1, <1>2, <1>4

(***************************************************************************)
(* What normalising leaves of a profile of the catalog.                    *)
(***************************************************************************)
SettledOffer(offer) ==
  /\ Settled(offer.profile.transport, TransportAlias)
  /\ Settled(offer.profile.protocol, ProtocolAlias)
  /\ Settled(offer.profile.ingestMode, IngestModeAlias)
  /\ Settled(offer.profile.payloadFormat, PayloadFormatAlias)
  /\ Settled(offer.profile.authMode, AuthModeAlias)

IsOffer(offer) ==
  \E transport, protocol, ingestMode, format, model, mappings, payload :
    offer = Offer(transport, protocol, ingestMode, format, model, mappings, payload)

LEMMA OfferIsNormal ==
  ASSUME NEW offer, IsOffer(offer), SettledOffer(offer)
  PROVE  /\ [NormalProfile(offer.profile) EXCEPT !.mappings = <<>>]
              = [offer.profile EXCEPT !.mappings = <<>>]
         /\ NormalProfile(offer.profile).mappings = NormalMappings(offer.profile.mappings)
<1> DEFINE p == offer.profile
           n == NormalProfile(p)
<1>1. p = [transport |-> p.transport, protocol |-> p.protocol, ingestMode |-> p.ingestMode,
           payloadFormat |-> p.payloadFormat, authMode |-> p.authMode, mappings |-> p.mappings]
  BY DEF IsOffer, Offer
<1>2. n.protocol = p.protocol
  BY SettledIsGiven DEF NormalProfile, SettledOffer
<1>3. n.transport = p.transport
  BY SettledIsGiven DEF NormalProfile, SettledOffer, Settled
<1>4. n.ingestMode = p.ingestMode /\ n.payloadFormat = p.payloadFormat /\ n.authMode = p.authMode
  BY SettledIsGiven DEF NormalProfile, SettledOffer
<1>5. n.mappings = NormalMappings(p.mappings)
  BY DEF NormalProfile
<1>6. n = [transport |-> n.transport, protocol |-> n.protocol, ingestMode |-> n.ingestMode,
           payloadFormat |-> n.payloadFormat, authMode |-> n.authMode, mappings |-> n.mappings]
  BY DEF NormalProfile
<1> HIDE DEF n, p
<1>7. [n EXCEPT !.mappings = <<>>] = [p EXCEPT !.mappings = <<>>]
  BY <1>1, <1>2, <1>3, <1>4, <1>6
<1> QED BY <1>5, <1>7 DEF n, p

\* CatalogWorks of one entry.
Works(offer) ==
  LET profile == NormalProfile(offer.profile)
      values == Resolved(offer.payload, profile)
  IN  /\ [profile EXCEPT !.mappings = <<>>] = [offer.profile EXCEPT !.mappings = <<>>]
      /\ MappingsFit(offer.model, profile.mappings)
      /\ DOMAIN values = DOMAIN offer.model
      /\ Accepts(offer.model, values)

\* An entry whose devices send values by the names of the properties.
LEMMA ValuesOfferWorks ==
  ASSUME NEW offer, IsOffer(offer), SettledOffer(offer), offer.profile.mappings = <<>>,
         "values" \in DOMAIN offer.payload,
         DOMAIN offer.payload["values"] = DOMAIN offer.model, DOMAIN offer.model # {},
         \A id \in DOMAIN offer.model : offer.payload["values"][id] \in Fitting[offer.model[id]]
  PROVE  Works(offer)
<1> DEFINE profile == NormalProfile(offer.profile)
           values == Resolved(offer.payload, profile)
<1>1. values = offer.payload["values"]
  BY DEF Resolved
<1>2. profile.mappings = <<>>
  <2>1. profile.mappings = NormalMappings(<<>>)
    BY OfferIsNormal
  <2>2. DOMAIN <<>> = {} /\ <<>> = [i \in {} |-> [<<>>[i] EXCEPT !.scale = IF @ = 0 THEN 1 ELSE @]]
    OBVIOUS
  <2> QED BY <2>1, <2>2 DEF NormalMappings
<1>3. MappingsFit(offer.model, profile.mappings)
  BY <1>2 DEF MappingsFit
<1>4. DOMAIN values = DOMAIN offer.model /\ Accepts(offer.model, values)
  BY <1>1 DEF Accepts
<1> QED BY <1>3, <1>4, OfferIsNormal DEF Works

\* Mappings whose points the payload holds, and that name the model's
\* properties, one each, with values that fit.
PointsFit(model, payload, mappings) ==
  /\ DOMAIN mappings \subseteq Nat /\ DOMAIN mappings # {}
  /\ \A i, j \in DOMAIN mappings : mappings[i].property = mappings[j].property => i = j
  /\ AllFound(payload, mappings)
  /\ DOMAIN model = {mappings[i].property : i \in DOMAIN mappings}
  /\ \A i \in DOMAIN mappings :
       Scaled(payload[mappings[i].source.in][mappings[i].source.key], mappings[i].scale)
         \in Fitting[model[mappings[i].property]]

LEMMA MappedFits ==
  ASSUME NEW model, NEW payload, NEW mappings, PointsFit(model, payload, mappings)
  PROVE  LET values == Mapped(payload, mappings)
         IN  /\ DOMAIN values = DOMAIN model /\ DOMAIN values # {}
             /\ \A id \in DOMAIN values : values[id] \in Fitting[model[id]]
             /\ MappingsFit(model, mappings)
<1> DEFINE values == Mapped(payload, mappings)
<1>1. /\ DOMAIN mappings \subseteq Nat /\ AllFound(payload, mappings)
      /\ \A i, j \in DOMAIN mappings : mappings[i].property = mappings[j].property => i = j
  BY DEF PointsFit
<1>2. /\ DOMAIN values = {mappings[i].property : i \in DOMAIN mappings}
      /\ \A i \in DOMAIN mappings :
           values[mappings[i].property]
             = Scaled(payload[mappings[i].source.in][mappings[i].source.key], mappings[i].scale)
  BY <1>1, MappedDistinct
<1> HIDE DEF values
<1>3. DOMAIN values = DOMAIN model /\ DOMAIN values # {}
  BY <1>2 DEF PointsFit
<1>4. \A id \in DOMAIN values : values[id] \in Fitting[model[id]]
  BY <1>2 DEF PointsFit
<1>5. MappingsFit(model, mappings)
  BY DEF MappingsFit, PointsFit
<1> QED BY <1>3, <1>4, <1>5 DEF values

LEMMA NoDomain == DOMAIN <<>> = {}
OBVIOUS

\* An entry whose devices send points that mappings give a name.
LEMMA MappedOfferWorks ==
  ASSUME NEW offer, IsOffer(offer), SettledOffer(offer), "values" \notin DOMAIN offer.payload,
         PointsFit(offer.model, offer.payload, NormalMappings(offer.profile.mappings))
  PROVE  Works(offer)
<1> DEFINE profile == NormalProfile(offer.profile)
           mapped == Mapped(offer.payload, profile.mappings)
<1>1. profile.mappings = NormalMappings(offer.profile.mappings)
  BY OfferIsNormal
<1>2. /\ DOMAIN mapped = DOMAIN offer.model /\ DOMAIN mapped # {}
      /\ \A id \in DOMAIN mapped : mapped[id] \in Fitting[offer.model[id]]
      /\ MappingsFit(offer.model, profile.mappings)
  BY <1>1, MappedFits
<1>3. Resolved(offer.payload, profile) = mapped
  BY <1>2, NoDomain DEF Resolved
<1> HIDE DEF mapped
<1>4. Accepts(offer.model, mapped)
  BY <1>2 DEF Accepts
<1> QED BY <1>2, <1>3, <1>4, OfferIsNormal DEF Works

\* What a device sends fits its property: a flag or a number, whatever scale.
HasType(kind, type) ==
  (type = "bool" /\ kind = "flag") \/ (type = "float" /\ kind \in {"int", "fraction"})

LEMMA SuitingFits ==
  ASSUME NEW kind, NEW type, HasType(kind, type), NEW scale
  PROVE  kind \in Fitting[type] /\ Scaled(kind, scale) \in Fitting[type]
<1>1. Fitting["bool"] = {"flag"} /\ Fitting["float"] = {"int", "fraction"}
  BY DEF Fitting
<1>2. /\ Scaled("flag", scale) = "flag"
      /\ \A k \in {"int", "fraction"} : Scaled(k, scale) \in {"int", "fraction"}
  BY DEF Scaled
<1> QED BY <1>1, <1>2 DEF HasType

\* The names the entries of the catalog use.
CatalogTransport == {"tcp", "http", "mqtt", "rs485", "ethernet", "opcua", "bacnet", "lorawan"}
CatalogProtocol ==
  {"tcp_json", "http_json", "mqtt_json", "modbus_rtu", "modbus_tcp", "opcua_json", "bacnet_ip",
   "lorawan_uplink"}
CatalogIngestMode == {"gateway_tcp", "http_push", "broker_mqtt", "bridge_http"}
CatalogFormat == {"json_values", "register_map", "mapped_json"}

LEMMA CatalogNamesAreSettled ==
  /\ \A name \in CatalogTransport : Settled(name, TransportAlias)
  /\ \A name \in CatalogProtocol : Settled(name, ProtocolAlias)
  /\ \A name \in CatalogIngestMode : Settled(name, IngestModeAlias)
  /\ \A name \in CatalogFormat : Settled(name, PayloadFormatAlias)
  /\ Settled("token", AuthModeAlias)
<1>1. \A name \in CatalogTransport : Settled(name, TransportAlias)
  BY DEF CatalogTransport, Settled, TransportAlias
<1>2. \A name \in CatalogProtocol : Settled(name, ProtocolAlias)
  BY DEF CatalogProtocol, Settled, ProtocolAlias
<1>3. \A name \in CatalogIngestMode : Settled(name, IngestModeAlias)
  BY DEF CatalogIngestMode, Settled, IngestModeAlias
<1>4. \A name \in CatalogFormat : Settled(name, PayloadFormatAlias)
  BY DEF CatalogFormat, Settled, PayloadFormatAlias
<1>5. Settled("token", AuthModeAlias)
  BY DEF Settled, AuthModeAlias
<1> QED BY <1>1, <1>2, <1>3, <1>4, <1>5

LEMMA OfferParts ==
  ASSUME NEW transport \in CatalogTransport, NEW protocol \in CatalogProtocol,
         NEW mode \in CatalogIngestMode, NEW format \in CatalogFormat,
         NEW model, NEW mappings, NEW payload
  PROVE  LET offer == Offer(transport, protocol, mode, format, model, mappings, payload)
         IN  /\ IsOffer(offer) /\ SettledOffer(offer)
             /\ offer.model = model /\ offer.payload = payload /\ offer.profile.mappings = mappings
<1> DEFINE offer == Offer(transport, protocol, mode, format, model, mappings, payload)
<1>1. IsOffer(offer)
  BY DEF IsOffer
<1>2. /\ offer.model = model /\ offer.payload = payload /\ offer.profile.mappings = mappings
      /\ offer.profile.transport = transport /\ offer.profile.protocol = protocol
      /\ offer.profile.ingestMode = mode /\ offer.profile.payloadFormat = format
      /\ offer.profile.authMode = "token"
  BY DEF Offer
<1> HIDE DEF offer
<1>3. SettledOffer(offer)
  BY <1>2, CatalogNamesAreSettled DEF SettledOffer
<1> QED BY <1>1, <1>2, <1>3 DEF offer

LEMMA SuitingValuesWork ==
  ASSUME NEW transport \in CatalogTransport, NEW protocol \in CatalogProtocol,
         NEW mode \in CatalogIngestMode, NEW format \in CatalogFormat,
         NEW model, NEW values, DOMAIN values = DOMAIN model, DOMAIN model # {},
         \A id \in DOMAIN model : HasType(values[id], model[id])
  PROVE  Works(Offer(transport, protocol, mode, format, model, <<>>, [values |-> values]))
<1> DEFINE payload == [values |-> values]
           offer == Offer(transport, protocol, mode, format, model, <<>>, payload)
<1>1. /\ IsOffer(offer) /\ SettledOffer(offer)
      /\ offer.model = model /\ offer.payload = payload /\ offer.profile.mappings = <<>>
  BY OfferParts
<1>2. "values" \in DOMAIN payload /\ payload["values"] = values
  OBVIOUS
<1>3. \A id \in DOMAIN model : values[id] \in Fitting[model[id]]
  BY SuitingFits
<1> HIDE DEF offer, payload
<1>4. Works(offer)
  BY <1>1, <1>2, <1>3, ValuesOfferWorks
<1> QED BY <1>4 DEF offer, payload

LEMMA NormalPoints ==
  ASSUME NEW mappings,
         NEW container, NEW key, NEW property, NEW scale, NEW i \in DOMAIN mappings,
         mappings[i] = Point(container, key, property, scale)
  PROVE  LET normal == NormalMappings(mappings)
         IN  /\ DOMAIN normal = DOMAIN mappings
             /\ normal[i].source.in = container /\ normal[i].source.key = key
             /\ normal[i].property = property
<1>1. /\ DOMAIN NormalMappings(mappings) = DOMAIN mappings
      /\ NormalMappings(mappings)[i] = [mappings[i] EXCEPT !.scale = IF @ = 0 THEN 1 ELSE @]
  BY DEF NormalMappings
<1>2. /\ Point(container, key, property, scale).source = [in |-> container, key |-> key]
      /\ Point(container, key, property, scale).property = property
      /\ DOMAIN Point(container, key, property, scale) = {"source", "property", "scale"}
  BY DEF Point
<1>3. /\ NormalMappings(mappings)[i].source = [in |-> container, key |-> key]
      /\ NormalMappings(mappings)[i].property = property
  BY <1>1, <1>2
<1> QED BY <1>1, <1>3

\* Mapping i takes a key of the container to a property of the model.
SuitingPoint(model, container, kinds, mapping) ==
  \E key \in DOMAIN kinds, id \in DOMAIN model, scale \in Nat :
    mapping = Point(container, key, id, scale) /\ HasType(kinds[key], model[id])

LEMMA SuitingPointsWork ==
  ASSUME NEW transport \in CatalogTransport, NEW protocol \in CatalogProtocol,
         NEW mode \in CatalogIngestMode, NEW format \in CatalogFormat,
         NEW container \in {"registers", "nodes", "objects"},
         NEW model, NEW kinds, NEW payload, DOMAIN payload = {container}, payload[container] = kinds,
         NEW mappings, DOMAIN mappings \subseteq Nat, DOMAIN mappings # {},
         \A i \in DOMAIN mappings : SuitingPoint(model, container, kinds, mappings[i]),
         \A i, j \in DOMAIN mappings : mappings[i].property = mappings[j].property => i = j,
         DOMAIN model \subseteq {mappings[i].property : i \in DOMAIN mappings}
  PROVE  Works(Offer(transport, protocol, mode, format, model, mappings, payload))
<1> DEFINE offer == Offer(transport, protocol, mode, format, model, mappings, payload)
           normal == NormalMappings(mappings)
<1>1. /\ IsOffer(offer) /\ SettledOffer(offer)
      /\ offer.model = model /\ offer.payload = payload /\ offer.profile.mappings = mappings
  BY OfferParts
<1>2. DOMAIN normal = DOMAIN mappings
  BY DEF NormalMappings
<1>3. ASSUME NEW i \in DOMAIN mappings
      PROVE  /\ normal[i].property = mappings[i].property /\ normal[i].property \in DOMAIN model
             /\ normal[i].source.in = container /\ normal[i].source.key \in DOMAIN kinds
             /\ HasType(kinds[normal[i].source.key], model[normal[i].property])
  <2>1. PICK key \in DOMAIN kinds, id \in DOMAIN model, scale \in Nat :
          mappings[i] = Point(container, key, id, scale) /\ HasType(kinds[key], model[id])
    BY DEF SuitingPoint
  <2>2. mappings[i].property = id
    BY <2>1 DEF Point
  <2>3. normal[i].source.in = container /\ normal[i].source.key = key /\ normal[i].property = id
    BY <2>1, NormalPoints
  <2> QED BY <2>1, <2>2, <2>3
<1> HIDE DEF normal
<1>4. AllFound(payload, normal)
  BY <1>2, <1>3 DEF AllFound, Holds
<1>5. DOMAIN model = {normal[i].property : i \in DOMAIN normal}
  <2> DEFINE image == {normal[i].property : i \in DOMAIN normal}
  <2>1. ASSUME NEW id \in DOMAIN model PROVE id \in image
    <3>1. PICK i \in DOMAIN mappings : id = mappings[i].property
      OBVIOUS
    <3> QED BY <1>2, <1>3, <3>1
  <2>2. ASSUME NEW id \in image PROVE id \in DOMAIN model
    <3>1. PICK i \in DOMAIN normal : id = normal[i].property
      OBVIOUS
    <3> QED BY <1>2, <1>3, <3>1
  <2> HIDE DEF image
  <2>3. DOMAIN model = image
    BY <2>1, <2>2
  <2> QED BY <2>3 DEF image
<1>6. \A i \in DOMAIN normal :
        Scaled(payload[normal[i].source.in][normal[i].source.key], normal[i].scale)
          \in Fitting[model[normal[i].property]]
  BY <1>2, <1>3, SuitingFits
<1>7. PointsFit(model, payload, normal)
  BY <1>2, <1>3, <1>4, <1>5, <1>6 DEF PointsFit
<1>8. "values" \notin DOMAIN payload
  OBVIOUS
<1> HIDE DEF offer
<1>9. Works(offer)
  BY <1>1, <1>7, <1>8, MappedOfferWorks DEF normal
<1> QED BY <1>9 DEF offer

LEMMA Fractions ==
  /\ HasType("fraction", "float") /\ HasType("int", "float") /\ HasType("flag", "bool")
BY DEF HasType

LEMMA PointHas ==
  ASSUME NEW container, NEW key, NEW property, NEW scale
  PROVE  Point(container, key, property, scale).property = property
BY DEF Point

LEMMA CatalogNames ==
  /\ \A name \in {"tcp", "http", "mqtt", "rs485", "ethernet", "opcua", "bacnet", "lorawan"} :
       name \in CatalogTransport
  /\ \A name \in {"tcp_json", "http_json", "mqtt_json", "modbus_rtu", "modbus_tcp", "opcua_json",
                  "bacnet_ip", "lorawan_uplink"} : name \in CatalogProtocol
  /\ \A name \in {"gateway_tcp", "http_push", "broker_mqtt", "bridge_http"} :
       name \in CatalogIngestMode
  /\ \A name \in {"json_values", "register_map", "mapped_json"} : name \in CatalogFormat
BY DEF CatalogTransport, CatalogProtocol, CatalogIngestMode, CatalogFormat

LEMMA DirectOffersWork == \A offer \in DirectOffers : Works(offer)
<1>1. Works(Offer("tcp", "tcp_json", "gateway_tcp", "json_values",
         [temperature |-> "float", humidity |-> "float"], <<>>,
         [values |-> [temperature |-> "fraction", humidity |-> "int"]]))
  <2> DEFINE model == [temperature |-> "float", humidity |-> "float"]
             values == [temperature |-> "fraction", humidity |-> "int"]
  <2>1. /\ DOMAIN values = DOMAIN model /\ DOMAIN model # {}
        /\ \A id \in DOMAIN model : HasType(values[id], model[id])
    BY Fractions
  <2> HIDE DEF model, values
  <2>2. Works(Offer("tcp", "tcp_json", "gateway_tcp", "json_values", model, <<>>, [values |-> values]))
    BY <2>1, CatalogNames, SuitingValuesWork
  <2> QED BY <2>2 DEF model, values
<1>2. Works(Offer("http", "http_json", "http_push", "json_values",
         [temperature |-> "float", humidity |-> "float", battery |-> "float"], <<>>,
         [values |-> [temperature |-> "fraction", humidity |-> "int", battery |-> "int"]]))
  <2> DEFINE model == [temperature |-> "float", humidity |-> "float", battery |-> "float"]
             values == [temperature |-> "fraction", humidity |-> "int", battery |-> "int"]
  <2>1. /\ DOMAIN values = DOMAIN model /\ DOMAIN model # {}
        /\ \A id \in DOMAIN model : HasType(values[id], model[id])
    BY Fractions
  <2> HIDE DEF model, values
  <2>2. Works(Offer("http", "http_json", "http_push", "json_values", model, <<>>, [values |-> values]))
    BY <2>1, CatalogNames, SuitingValuesWork
  <2> QED BY <2>2 DEF model, values
<1>3. Works(Offer("mqtt", "mqtt_json", "broker_mqtt", "json_values",
         [voltage |-> "float", current |-> "float", power |-> "float", energy |-> "float"], <<>>,
         [values |-> [voltage |-> "fraction", current |-> "fraction",
                     power |-> "fraction", energy |-> "fraction"]]))
  <2> DEFINE model == [voltage |-> "float", current |-> "float", power |-> "float", energy |-> "float"]
             values == [voltage |-> "fraction", current |-> "fraction",
                     power |-> "fraction", energy |-> "fraction"]
  <2>1. /\ DOMAIN values = DOMAIN model /\ DOMAIN model # {}
        /\ \A id \in DOMAIN model : HasType(values[id], model[id])
    BY Fractions
  <2> HIDE DEF model, values
  <2>2. Works(Offer("mqtt", "mqtt_json", "broker_mqtt", "json_values", model, <<>>, [values |-> values]))
    BY <2>1, CatalogNames, SuitingValuesWork
  <2> QED BY <2>2 DEF model, values
<1> QED BY <1>1, <1>2, <1>3 DEF DirectOffers

LEMMA ModbusOffersWork == \A offer \in ModbusOffers : Works(offer)
<1>1. Works(Offer("rs485", "modbus_rtu", "http_push", "register_map",
         [temperature |-> "float", humidity |-> "float"],
         <<Point("registers", "40001", "temperature", 10),
           Point("registers", "40002", "humidity", 10)>>,
         [registers |-> [r \in {"40001", "40002"} |-> "int"]]))
  <2> DEFINE model == [temperature |-> "float", humidity |-> "float"]
             kinds == [r \in {"40001", "40002"} |-> "int"]
             payload == [registers |-> kinds]
             mappings ==
               <<Point("registers", "40001", "temperature", 10),
                 Point("registers", "40002", "humidity", 10)>>
  <2>1. /\ DOMAIN model = {"temperature", "humidity"}
        /\ model["temperature"] = "float"
        /\ model["humidity"] = "float"
    OBVIOUS
  <2>2. /\ DOMAIN kinds = {"40001", "40002"}
        /\ kinds["40001"] = "int"
        /\ kinds["40002"] = "int"
    OBVIOUS
  <2>3. DOMAIN payload = {"registers"} /\ payload["registers"] = kinds
    OBVIOUS
  <2>4. /\ DOMAIN mappings = {1, 2}
        /\ mappings[1] = Point("registers", "40001", "temperature", 10)
        /\ mappings[2] = Point("registers", "40002", "humidity", 10)
    OBVIOUS
  <2> HIDE DEF model, kinds, payload, mappings
  <2>5. \A i \in DOMAIN mappings : SuitingPoint(model, "registers", kinds, mappings[i])
    BY <2>1, <2>2, <2>4, Fractions DEF SuitingPoint
  <2>6. /\ mappings[1].property = "temperature"
        /\ mappings[2].property = "humidity"
    BY <2>4, PointHas
  <2>7. /\ \A i, j \in DOMAIN mappings : mappings[i].property = mappings[j].property => i = j
        /\ DOMAIN model \subseteq {mappings[i].property : i \in DOMAIN mappings}
        /\ DOMAIN mappings \subseteq Nat /\ DOMAIN mappings # {}
    BY <2>1, <2>4, <2>6
  <2>8. Works(Offer("rs485", "modbus_rtu", "http_push", "register_map", model, mappings, payload))
    BY <2>3, <2>5, <2>7, CatalogNames, SuitingPointsWork
  <2> QED BY <2>8 DEF model, kinds, payload, mappings
<1>2. Works(Offer("ethernet", "modbus_tcp", "http_push", "register_map",
         [voltage |-> "float", current |-> "float", power |-> "float", energy |-> "float"],
         <<Point("registers", "30001", "voltage", 10),
           Point("registers", "30002", "current", 100),
           Point("registers", "30003", "power", 10),
           Point("registers", "30004", "energy", 10)>>,
         [registers |-> [r \in {"30001", "30002", "30003", "30004"} |-> "int"]]))
  <2> DEFINE model == [voltage |-> "float", current |-> "float", power |-> "float", energy |-> "float"]
             kinds == [r \in {"30001", "30002", "30003", "30004"} |-> "int"]
             payload == [registers |-> kinds]
             mappings ==
               <<Point("registers", "30001", "voltage", 10),
                 Point("registers", "30002", "current", 100),
                 Point("registers", "30003", "power", 10),
                 Point("registers", "30004", "energy", 10)>>
  <2>1. /\ DOMAIN model = {"voltage", "current", "power", "energy"}
        /\ model["voltage"] = "float"
        /\ model["current"] = "float"
        /\ model["power"] = "float"
        /\ model["energy"] = "float"
    OBVIOUS
  <2>2. /\ DOMAIN kinds = {"30001", "30002", "30003", "30004"}
        /\ kinds["30001"] = "int"
        /\ kinds["30002"] = "int"
        /\ kinds["30003"] = "int"
        /\ kinds["30004"] = "int"
    OBVIOUS
  <2>3. DOMAIN payload = {"registers"} /\ payload["registers"] = kinds
    OBVIOUS
  <2>4. /\ DOMAIN mappings = {1, 2, 3, 4}
        /\ mappings[1] = Point("registers", "30001", "voltage", 10)
        /\ mappings[2] = Point("registers", "30002", "current", 100)
        /\ mappings[3] = Point("registers", "30003", "power", 10)
        /\ mappings[4] = Point("registers", "30004", "energy", 10)
    OBVIOUS
  <2> HIDE DEF model, kinds, payload, mappings
  <2>5. \A i \in DOMAIN mappings : SuitingPoint(model, "registers", kinds, mappings[i])
    BY <2>1, <2>2, <2>4, Fractions DEF SuitingPoint
  <2>6. /\ mappings[1].property = "voltage"
        /\ mappings[2].property = "current"
        /\ mappings[3].property = "power"
        /\ mappings[4].property = "energy"
    BY <2>4, PointHas
  <2>7. /\ \A i, j \in DOMAIN mappings : mappings[i].property = mappings[j].property => i = j
        /\ DOMAIN model \subseteq {mappings[i].property : i \in DOMAIN mappings}
        /\ DOMAIN mappings \subseteq Nat /\ DOMAIN mappings # {}
    BY <2>1, <2>4, <2>6
  <2>8. Works(Offer("ethernet", "modbus_tcp", "http_push", "register_map", model, mappings, payload))
    BY <2>3, <2>5, <2>7, CatalogNames, SuitingPointsWork
  <2> QED BY <2>8 DEF model, kinds, payload, mappings
<1> QED BY <1>1, <1>2 DEF ModbusOffers

LEMMA BridgeOffersWork == \A offer \in BridgeOffers : Works(offer)
<1>1. Works(Offer("opcua", "opcua_json", "bridge_http", "mapped_json",
         [temperature |-> "float", running |-> "bool"],
         <<Point("nodes", "Line1.Temperature", "temperature", 0),
           Point("nodes", "Line1.Running", "running", 0)>>,
         [nodes |-> [node \in {"Line1.Temperature", "Line1.Running"} |->
                         IF node = "Line1.Running" THEN "flag" ELSE "fraction"]]))
  <2> DEFINE model == [temperature |-> "float", running |-> "bool"]
             kinds == [node \in {"Line1.Temperature", "Line1.Running"} |->
                         IF node = "Line1.Running" THEN "flag" ELSE "fraction"]
             payload == [nodes |-> kinds]
             mappings ==
               <<Point("nodes", "Line1.Temperature", "temperature", 0),
                 Point("nodes", "Line1.Running", "running", 0)>>
  <2>1. /\ DOMAIN model = {"temperature", "running"}
        /\ model["temperature"] = "float"
        /\ model["running"] = "bool"
    OBVIOUS
  <2>2. /\ DOMAIN kinds = {"Line1.Temperature", "Line1.Running"}
        /\ kinds["Line1.Temperature"] = "fraction"
        /\ kinds["Line1.Running"] = "flag"
    OBVIOUS
  <2>3. DOMAIN payload = {"nodes"} /\ payload["nodes"] = kinds
    OBVIOUS
  <2>4. /\ DOMAIN mappings = {1, 2}
        /\ mappings[1] = Point("nodes", "Line1.Temperature", "temperature", 0)
        /\ mappings[2] = Point("nodes", "Line1.Running", "running", 0)
    OBVIOUS
  <2> HIDE DEF model, kinds, payload, mappings
  <2>5. \A i \in DOMAIN mappings : SuitingPoint(model, "nodes", kinds, mappings[i])
    BY <2>1, <2>2, <2>4, Fractions DEF SuitingPoint
  <2>6. /\ mappings[1].property = "temperature"
        /\ mappings[2].property = "running"
    BY <2>4, PointHas
  <2>7. /\ \A i, j \in DOMAIN mappings : mappings[i].property = mappings[j].property => i = j
        /\ DOMAIN model \subseteq {mappings[i].property : i \in DOMAIN mappings}
        /\ DOMAIN mappings \subseteq Nat /\ DOMAIN mappings # {}
    BY <2>1, <2>4, <2>6
  <2>8. Works(Offer("opcua", "opcua_json", "bridge_http", "mapped_json", model, mappings, payload))
    BY <2>3, <2>5, <2>7, CatalogNames, SuitingPointsWork
  <2> QED BY <2>8 DEF model, kinds, payload, mappings
<1>2. Works(Offer("bacnet", "bacnet_ip", "bridge_http", "mapped_json",
         [temperature |-> "float", humidity |-> "float", co2 |-> "float"],
         <<Point("objects", "analogInput:1", "temperature", 0),
           Point("objects", "analogInput:2", "humidity", 0),
           Point("objects", "analogInput:3", "co2", 0)>>,
         [objects |-> [object \in {"analogInput:1", "analogInput:2", "analogInput:3"} |->
                         IF object = "analogInput:3" THEN "int" ELSE "fraction"]]))
  <2> DEFINE model == [temperature |-> "float", humidity |-> "float", co2 |-> "float"]
             kinds == [object \in {"analogInput:1", "analogInput:2", "analogInput:3"} |->
                         IF object = "analogInput:3" THEN "int" ELSE "fraction"]
             payload == [objects |-> kinds]
             mappings ==
               <<Point("objects", "analogInput:1", "temperature", 0),
                 Point("objects", "analogInput:2", "humidity", 0),
                 Point("objects", "analogInput:3", "co2", 0)>>
  <2>1. /\ DOMAIN model = {"temperature", "humidity", "co2"}
        /\ model["temperature"] = "float"
        /\ model["humidity"] = "float"
        /\ model["co2"] = "float"
    OBVIOUS
  <2>2. /\ DOMAIN kinds = {"analogInput:1", "analogInput:2", "analogInput:3"}
        /\ kinds["analogInput:1"] = "fraction"
        /\ kinds["analogInput:2"] = "fraction"
        /\ kinds["analogInput:3"] = "int"
    OBVIOUS
  <2>3. DOMAIN payload = {"objects"} /\ payload["objects"] = kinds
    OBVIOUS
  <2>4. /\ DOMAIN mappings = {1, 2, 3}
        /\ mappings[1] = Point("objects", "analogInput:1", "temperature", 0)
        /\ mappings[2] = Point("objects", "analogInput:2", "humidity", 0)
        /\ mappings[3] = Point("objects", "analogInput:3", "co2", 0)
    OBVIOUS
  <2> HIDE DEF model, kinds, payload, mappings
  <2>5. \A i \in DOMAIN mappings : SuitingPoint(model, "objects", kinds, mappings[i])
    BY <2>1, <2>2, <2>4, Fractions DEF SuitingPoint
  <2>6. /\ mappings[1].property = "temperature"
        /\ mappings[2].property = "humidity"
        /\ mappings[3].property = "co2"
    BY <2>4, PointHas
  <2>7. /\ \A i, j \in DOMAIN mappings : mappings[i].property = mappings[j].property => i = j
        /\ DOMAIN model \subseteq {mappings[i].property : i \in DOMAIN mappings}
        /\ DOMAIN mappings \subseteq Nat /\ DOMAIN mappings # {}
    BY <2>1, <2>4, <2>6
  <2>8. Works(Offer("bacnet", "bacnet_ip", "bridge_http", "mapped_json", model, mappings, payload))
    BY <2>3, <2>5, <2>7, CatalogNames, SuitingPointsWork
  <2> QED BY <2>8 DEF model, kinds, payload, mappings
<1>3. Works(Offer("lorawan", "lorawan_uplink", "bridge_http", "json_values",
         [temperature |-> "float", humidity |-> "float", battery |-> "float"], <<>>,
         [values |-> [temperature |-> "fraction", humidity |-> "int", battery |-> "int"]]))
  <2> DEFINE model == [temperature |-> "float", humidity |-> "float", battery |-> "float"]
             values == [temperature |-> "fraction", humidity |-> "int", battery |-> "int"]
  <2>1. /\ DOMAIN values = DOMAIN model /\ DOMAIN model # {}
        /\ \A id \in DOMAIN model : HasType(values[id], model[id])
    BY Fractions
  <2> HIDE DEF model, values
  <2>2. Works(Offer("lorawan", "lorawan_uplink", "bridge_http", "json_values", model, <<>>, [values |-> values]))
    BY <2>1, CatalogNames, SuitingValuesWork
  <2> QED BY <2>2 DEF model, values
<1> QED BY <1>1, <1>2, <1>3 DEF BridgeOffers

\* Every entry of the catalog makes a product that normalising leaves as it is
\* but for the scales, and its example payload resolves to values of its thing
\* model (DefaultProtocolCatalog, normalizeAccessProfile, BuildValues and
\* validateThingValues).
THEOREM CatalogMakesProducts == AccessSpec => []CatalogWorks
<1>1. \A offer \in DefaultProtocolCatalog : Works(offer)
  BY DirectOffersWork, ModbusOffersWork, BridgeOffersWork DEF DefaultProtocolCatalog
<1>2. CatalogWorks
  BY <1>1 DEF CatalogWorks, Works
<1> QED BY <1>2, PTL

============================================================================
