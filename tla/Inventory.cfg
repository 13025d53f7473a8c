\* Two tenants and two products; any five records of the kinds, among them
\* a product, a device, a group, a firmware, a profile and a rule.
CONSTANTS
  Tenant = {t1, t2}
  Product = {p1, p2}
  Device = {d1, d2}
  Group = {g1}
  Profile = {c1}
  Rule = {r1}
  Firmware = {f1}
  UnknownProduct = UnknownProduct
  None = None
  MaxRecords = 5
SYMMETRY Symmetry
SPECIFICATION Spec
INVARIANTS
  InventoryTypeOK
  UpgradesStayInScope
  RuleActionsApply
  RegisteredAccounts
CHECK_DEADLOCK FALSE
