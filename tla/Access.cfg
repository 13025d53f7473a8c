\* Two updates that may meet, a request and a connection that stays.
CONSTANTS
  Writer = {w1, w2}
  Http = {h1}
  Mqtt = {m1}
  Nil = Nil
  ModelInputs <- MCModelInputs
  ProfileInputs <- MCProfileInputs
  Payloads <- MCPayloads
  MaxUpdates = 3
SYMMETRY Symmetry
SPECIFICATION AccessSpec
INVARIANTS
  AccessTypeOK
  MappingsFitTheModel
  RefusalsAreExplained
  CatalogWorks
CHECK_DEADLOCK FALSE
