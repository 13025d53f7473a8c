----------------------------- MODULE Inventory -----------------------------
(***************************************************************************)
(* The records of core.Service: products, devices, groups, configuration   *)
(* profiles, rules and firmware, the scope (tenant and product) each is    *)
(* created with, the membership of devices in groups, the devices that OTA *)
(* campaigns reach, and the gauge registeredDevices.                       *)
(*                                                                         *)
(* Nothing deletes a record or changes its scope.  What a call checks      *)
(* against the records it has read therefore still holds when it saves its *)
(* own, and a call is one step; only the creation of a device, which saves *)
(* two records and counts, is several.                                     *)
(***************************************************************************)
EXTENDS Integers, FiniteSets

CONSTANTS
  Tenant,                                            (* Existing tenants.  *)
  Product, Device, Group, Profile, Rule, Firmware,   (* IDs of records.    *)
  UnknownProduct,                                    (* No product's ID.   *)
  None,                                              (* The empty string.  *)
  MaxRecords                                         (* Bound on records.  *)

Record == Product \cup Device \cup Group \cup Profile \cup Rule \cup Firmware

ASSUME DisjointAssumption ==
  /\ None \notin Record \cup Tenant /\ UnknownProduct \notin Record \cup {None}
  /\ Device \cap Product = {} /\ Group \cap (Product \cup Device) = {}
  /\ Profile \cap (Product \cup Device \cup Group) = {}
  /\ Firmware \cap (Product \cup Device \cup Group \cup Profile) = {}
  /\ Rule \cap (Product \cup Device \cup Group \cup Profile \cup Firmware) = {}
ASSUME FiniteAssumption == IsFiniteSet(Record) /\ MaxRecords \in Nat

VARIABLES
  stored,      (* The records in the store.                                *)
  scope,       (* The tenant and the product of each; a product's is itself. *)
  members,     (* groupIDsByDevice and deviceIDsByGroup, written together. *)
  target,      (* The group, the device and the profile a rule names.      *)
  place,       (* How far the creation of each device has come.            *)
  registered,  (* The atomic gauge registeredDevices.                      *)
  upgrades     (* Which firmware was sent to which device, by which group. *)

recordVars == <<stored, scope, target>>
deviceVars == <<place, registered>>
vars == <<recordVars, deviceVars, members, upgrades>>

Scope == [tenant : Tenant \cup {None}, product : Product \cup {UnknownProduct, None}]
In(t, p) == [tenant |-> t, product |-> p]
NoTarget == [group |-> None, device |-> None, profile |-> None]

(***************************************************************************)
(* Scopes.                                                                 *)
(***************************************************************************)

\* A record may be created in scope s and refer to record x of the store.
Refers(s, x) ==
  x # None =>
    /\ x \in stored
    /\ s.tenant \in {None, scope[x].tenant}
    /\ scope[x].product # None => s.product \in {None, scope[x].product}

\* The scope with what the record leaves open taken from x.
Narrowed(s, x) ==
  IF x = None THEN s
  ELSE In(IF s.tenant = None THEN scope[x].tenant ELSE s.tenant,
          IF s.product = None THEN scope[x].product ELSE s.product)

\* A record of scope s may be used for device d.
Covers(s, d) ==
  s.tenant \in {None, scope[d].tenant} /\ s.product \in {None, scope[d].product}

(***************************************************************************)
(* Creating records.                                                       *)
(***************************************************************************)

Store(x, s) ==
  /\ x \notin stored /\ Cardinality(stored) < MaxRecords
  /\ stored' = stored \cup {x}
  /\ scope' = [scope EXCEPT ![x] = s]

\* A tenant, or that of the product, which must exist and agree.
StoreIn(x, t, p) == Refers(In(t, p), p) /\ Store(x, Narrowed(In(t, p), p))

CreateProduct(p, t) ==
  /\ Store(p, In(t, p))
  /\ UNCHANGED <<deviceVars, members, target, upgrades>>

CreateGroup(g, t, p) ==
  /\ StoreIn(g, t, p)
  /\ UNCHANGED <<deviceVars, members, target, upgrades>>

CreateConfigProfile(c, t, p) ==
  /\ StoreIn(c, t, p)
  /\ UNCHANGED <<deviceVars, members, target, upgrades>>

CreateFirmwareArtifact(f, t, p) ==
  /\ StoreIn(f, t, p)
  /\ UNCHANGED <<deviceVars, members, target, upgrades>>

CreateDevice(d, t, p) ==
  /\ StoreIn(d, t, p)
  /\ place' = [place EXCEPT ![d] = "stored"]
  /\ UNCHANGED <<registered, members, target, upgrades>>

SaveFirstShadow(d) ==
  /\ place[d] = "stored"
  /\ place' = [place EXCEPT ![d] = "shadowed"]
  /\ UNCHANGED <<recordVars, registered, members, upgrades>>

\* The caller gets an error; the device stays.
SaveFirstShadowFails(d) ==
  /\ place[d] = "stored"
  /\ place' = [place EXCEPT ![d] = "failed"]
  /\ UNCHANGED <<recordVars, registered, members, upgrades>>

RegisterDevice(d) ==
  /\ place[d] = "shadowed"
  /\ place' = [place EXCEPT ![d] = "registered"]
  /\ registered' = registered + 1
  /\ UNCHANGED <<recordVars, members, upgrades>>

\* A mutant: the profile is compared with the scope the caller wrote.
ProfileFitsCall(s, given, c) ==
  c # None =>
    /\ c \in stored
    /\ given.tenant \in {None, scope[c].tenant}
    /\ given.product \in stored => scope[c].product \in {None, given.product}

\* normalizeRuleActions, for a rule of scope s.
ProfileFits(s, given, c) ==
  c # None =>
    /\ c \in stored
    /\ s.tenant \in {None, scope[c].tenant}
    /\ s.product \in stored => scope[c].product \in {None, s.product}

\* The scope is taken from the group, then the device, then the product,
\* of which an unknown one is let through.
CreateRule(r, t, p, g, d, c) ==
  LET byGroup  == Narrowed(In(t, p), g)
      byDevice == Narrowed(byGroup, d)
      known    == IF byDevice.product \in stored THEN byDevice.product ELSE None
      s        == Narrowed(byDevice, known)
  IN  /\ p # None \/ g # None \/ d # None
      /\ Refers(In(t, p), g) /\ Refers(byGroup, d) /\ Refers(byDevice, known)
      /\ ProfileFits(s, In(t, p), c)
      /\ Store(r, s)
      /\ target' = [target EXCEPT ![r] = [group |-> g, device |-> d, profile |-> c]]
      /\ UNCHANGED <<deviceVars, members, upgrades>>

(***************************************************************************)
(* Using them.                                                             *)
(***************************************************************************)

\* A mutant: the group's product is compared, its tenant is not.
AssignOfAnyTenant(g, d) ==
  /\ g \in stored /\ d \in stored
  /\ scope[g].product \in {None, scope[d].product}
  /\ members' = members \cup {<<g, d>>}
  /\ UNCHANGED <<recordVars, deviceVars, upgrades>>

\* A mutant: the device is not looked up.
AssignUnknown(g, d) ==
  /\ g \in stored /\ Covers(scope[g], d)
  /\ members' = members \cup {<<g, d>>}
  /\ UNCHANGED <<recordVars, deviceVars, upgrades>>

AssignDeviceToGroup(g, d) ==
  /\ g \in stored /\ d \in stored
  /\ Covers(scope[g], d)
  /\ members' = members \cup {<<g, d>>}
  /\ UNCHANGED <<recordVars, deviceVars, upgrades>>

RemoveDeviceFromGroup(g, d) ==
  /\ g \in stored /\ d \in stored
  /\ members' = members \ {<<g, d>>}
  /\ UNCHANGED <<recordVars, deviceVars, upgrades>>

\* evaluateRules: the rules that a device's telemetry is compared with.
Selects(r, d) ==
  /\ r \in stored /\ d \in stored
  /\ Covers(scope[r], d)
  /\ target[r].device \in {None, d}
  /\ target[r].group # None => <<target[r].group, d>> \in members

\* resolveOTATargetProduct: a product that is named must suit the firmware.
ProductSuits(f, p) ==
  p # None =>
    /\ p \in stored
    /\ scope[f].tenant \in {None, scope[p].tenant}
    /\ scope[f].product \in {None, p}

ToDevice(f, d) ==
  /\ d \in stored /\ Covers(scope[f], d)
  /\ upgrades' = upgrades \cup {<<f, d, None>>}

\* The product counts for the checks only; every member is upgraded. The call,
\* the group or the firmware names a product ("ota target scope is required").
ToGroup(f, p, g) ==
  /\ g \in stored
  /\ {p, scope[g].product, scope[f].product} # {None}
  /\ scope[f].tenant \in {None, scope[g].tenant}
  /\ \/ None \in {scope[f].product, scope[g].product}
     \/ scope[f].product = scope[g].product
  /\ ProductSuits(f, IF p = None THEN scope[g].product ELSE p)
  /\ upgrades' = upgrades \cup {<<f, d, g>> : d \in {e \in Device : <<g, e>> \in members}}

ToProduct(f, p) ==
  LET q == IF p = None THEN scope[f].product ELSE p
  IN  /\ q # None /\ ProductSuits(f, p)
      /\ upgrades' = upgrades \cup
           {<<f, d, None>> : d \in {e \in Device \cap stored :
                                     Covers(In(scope[f].tenant, q), e)}}

\* The campaign's tenant is always the firmware's.
CreateOTACampaign(f, t, p, g, d) ==
  /\ f \in stored /\ t \in {None, scope[f].tenant}
  /\ \/ d # None /\ ToDevice(f, d)
     \/ d = None /\ g # None /\ ToGroup(f, p, g)
     \/ d = None /\ g = None /\ ToProduct(f, p)
  /\ UNCHANGED <<recordVars, deviceVars, members>>

\* A mutant: the gauge starts at zero.
RestartUncounted ==
  /\ place' = [d \in Device |-> IF d \in stored THEN "registered" ELSE "absent"]
  /\ registered' = 0
  /\ UNCHANGED <<recordVars, members, upgrades>>

\* The process dies and starts from its snapshot, which has every record.
\* NewService counts the devices it finds.
Restart ==
  /\ place' = [d \in Device |-> IF d \in stored THEN "registered" ELSE "absent"]
  /\ registered' = Cardinality(stored \cap Device)
  /\ UNCHANGED <<recordVars, members, upgrades>>

(***************************************************************************)
(* Specification.                                                          *)
(***************************************************************************)

Init ==
  /\ stored = {}
  /\ scope = [x \in Record |-> In(None, None)]
  /\ members = {}
  /\ target = [r \in Rule |-> NoTarget]
  /\ place = [d \in Device |-> "absent"]
  /\ registered = 0
  /\ upgrades = {}

Tenants == Tenant \cup {None}
Products == Product \cup {UnknownProduct, None}

Creation ==
  \E t \in Tenants :
    \/ \E p \in Product : CreateProduct(p, t)
    \/ \E p \in Products :
         \/ \E g \in Group : CreateGroup(g, t, p)
         \/ \E c \in Profile : CreateConfigProfile(c, t, p)
         \/ \E f \in Firmware : CreateFirmwareArtifact(f, t, p)
         \/ \E d \in Device : CreateDevice(d, t, p)

\* A product that is named is one that exists, or one that never will.
Ruling ==
  \E r \in Rule, t \in Tenants, p \in (Product \cap stored) \cup {UnknownProduct, None},
     g \in Group \cup {None}, d \in Device \cup {None}, c \in Profile \cup {None} :
    CreateRule(r, t, p, g, d, c)

Registration ==
  \E d \in Device : SaveFirstShadow(d) \/ SaveFirstShadowFails(d) \/ RegisterDevice(d)

Membership ==
  \E g \in Group, d \in Device :
    AssignDeviceToGroup(g, d) \/ RemoveDeviceFromGroup(g, d)

Upgrading ==
  \E f \in Firmware, t \in Tenants, p \in Products, g \in Group \cup {None},
     d \in Device \cup {None} : CreateOTACampaign(f, t, p, g, d)

Next == Creation \/ Ruling \/ Registration \/ Membership \/ Upgrading \/ Restart

Spec == Init /\ [][Next]_vars

(***************************************************************************)
(* Properties.                                                             *)
(***************************************************************************)

Places == {"absent", "stored", "shadowed", "failed", "registered"}

\* Types of the variables; only records of the store are related.
InventoryTypeOK ==
  /\ stored \subseteq Record
  /\ scope \in [Record -> Scope]
  /\ target \in [Rule -> [group : Group \cup {None}, device : Device \cup {None},
                          profile : Profile \cup {None}]]
  /\ members \subseteq (Group \cap stored) \X (Device \cap stored)
  /\ place \in [Device -> Places]
  /\ \A d \in Device : place[d] # "absent" <=> d \in stored
  /\ registered \in Nat
  /\ upgrades \subseteq (Firmware \cap stored) \X (Device \cap stored)
                          \X ((Group \cap stored) \cup {None})

\* A firmware of a tenant is only ever sent to that tenant's devices, and
\* one for a product only to devices of that product, unless the campaign
\* names a group that is open to every product (resolveOTATargetProduct and
\* resolveOTATargetDevices rest on what AssignDeviceToGroup let in).
UpgradesStayInScope ==
  \A f \in Firmware, d \in Device, g \in Group \cup {None} :
    <<f, d, g>> \in upgrades =>
      /\ scope[f].tenant \in {None, scope[d].tenant}
      /\ \/ scope[f].product \in {None, scope[d].product}
         \/ g # None /\ scope[g].product = None

\* A rule that has a tenant and a product never selects a device for which
\* ApplyConfigProfile would refuse the profile the rule applies: what
\* CreateRule has checked against the scope it inherited is enough.
RuleActionsApply ==
  \A r \in Rule, d \in Device :
    LET c == target[r].profile
    IN  /\ Selects(r, d) /\ c # None
        /\ scope[r].tenant # None /\ scope[r].product # None
        => Covers(scope[c], d)

\* registeredDevices is the number of devices in the store, less those whose
\* creation is under way or has failed half way since the process started
\* (CreateDeviceWithTenant, NewService).
RegisteredAccounts ==
  registered = Cardinality({d \in Device : place[d] = "registered"})

============================================================================
