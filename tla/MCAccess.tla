------------------------------ MODULE MCAccess ------------------------------
(***************************************************************************)
(* Instances of Access for TLC: thing models, profiles and payloads.       *)
(***************************************************************************)
EXTENDS Access, TLC

Ask(id, type) == [id |-> id, type |-> type]

\* Two models, no model, and one with a duplicate identifier.
MCModelInputs ==
  {<<Ask("level", "integer"), Ask("on", "bool")>>, <<Ask("level", "string")>>, <<>>,
   <<Ask("level", "int"), Ask("level", "int")>>}

Profile(transport, protocol, ingestMode, format, mappings) ==
  [transport |-> transport, protocol |-> protocol, ingestMode |-> ingestMode,
   payloadFormat |-> format, authMode |-> "default", mappings |-> mappings]

\* Two mappings of registers; a wildcard source for another property; no
\* mapping and flat payloads; and a mapping without a source.
MCProfileInputs ==
  {Profile("", "modbus", "", "", <<Point("registers", "1", "level", 0), Point("any", "2", "on", 0)>>),
   Profile("https", "", "default", "", <<Point("any", "1", "level", 1)>>),
   Profile("socket", "", "", "flat", <<>>),
   Profile("", "", "", "", <<[source |-> Nil, property |-> "level", scale |-> 1]>>)}

MCPayloads ==
  {[registers |-> ("1" :> "int" @@ "2" :> "flag")],
   [values |-> [level |-> "numeral"]],
   [top |-> ("1" :> "numeral")]}

Symmetry == Permutations(Writer)

=============================================================================
