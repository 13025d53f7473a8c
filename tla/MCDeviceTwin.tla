--------------------------- MODULE MCDeviceTwin ---------------------------
(* One property; a rule that applies the profile and a rule that alerts. *)
EXTENDS DeviceTwin, TLC

CONSTANTS hot, cold

MCRules == <<"config", "alert">>
MCProfile == [p \in Property |-> cold]
MCWishes == {[p \in Property |-> hot]}
Symmetry == Permutations(Handler)
============================================================================
