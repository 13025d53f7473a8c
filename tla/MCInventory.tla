---------------------------- MODULE MCInventory ----------------------------
(***************************************************************************)
(* The inventory with tenants, products and devices that may be exchanged: *)
(* no definition tells two of them apart.                                  *)
(***************************************************************************)
EXTENDS Inventory, TLC

Symmetry == Permutations(Tenant) \cup Permutations(Product) \cup Permutations(Device)

============================================================================
