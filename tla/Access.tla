------------------------------- MODULE Access -------------------------------
(***************************************************************************)
(* A product's thing model and access profile: how they are normalised and *)
(* checked against each other, how two operations update them, and how a   *)
(* payload becomes the values of the thing model's properties on the way   *)
(* in by HTTP and MQTT.                                                    *)
(*                                                                         *)
(* An update reads the whole product, changes one half and saves the       *)
(* whole; an ingest reads the profile first and has its values checked by  *)
(* HandleTelemetry against the product of a later moment (over MQTT, of a  *)
(* much later one: the profile is read when the device connects).          *)
(*                                                                         *)
(* A value is abstracted to its kind: "int" and "fraction" are numbers,    *)
(* "numeral" and "word" strings, of which the first reads as a whole       *)
(* number, and "flag" a Boolean.  Strings are trimmed and in lower case.   *)
(***************************************************************************)
EXTENDS Naturals, SequencesExt

CONSTANTS
  Writer,         (* Calls that update the product.                        *)
  Http, Mqtt,     (* HTTP requests and MQTT connections of its devices.    *)
  Nil,            (* No copy, no profile.                                  *)
  ModelInputs,    (* Thing models asked for.                               *)
  ProfileInputs,  (* Access profiles asked for.                            *)
  Payloads,       (* Payloads: what each container holds under each key.   *)
  MaxUpdates      (* Bound: saves of the product.                          *)

\* A mapping has the fields of model.ProtocolPointMapping that matter here.
ASSUME InputAssumption ==
  \A input \in ProfileInputs : \A i \in DOMAIN input.mappings :
    DOMAIN input.mappings[i] = {"source", "property", "scale"}
ASSUME UpdatesAssumption == MaxUpdates \in Nat

Client == Http \cup Mqtt
Entry(alias, given) == IF given \in DOMAIN alias THEN alias[given] ELSE given

(***************************************************************************)
(* Thing models.                                                           *)
(***************************************************************************)

DataTypeAlias == [string |-> "text", integer |-> "int"]

\* The kinds of value each supported data type takes.
Fitting ==
  [bool |-> {"flag"}, text |-> {"numeral", "word"}, object |-> {},
   enum |-> {"numeral", "word", "int", "fraction"}, int |-> {"int"},
   float |-> {"int", "fraction"}, double |-> {"int", "fraction"}]

ModelAccepted(input) ==
  /\ \A i \in DOMAIN input :
       /\ input[i].id # ""
       /\ Entry(DataTypeAlias, input[i].type) \in DOMAIN Fitting
  /\ \A i, j \in DOMAIN input : input[i].id = input[j].id => i = j

\* Data types by identifier.
NormalModel(input) ==
  [id \in {input[i].id : i \in DOMAIN input} |->
     LET property == CHOOSE i \in DOMAIN input : input[i].id = id
     IN  Entry(DataTypeAlias, input[property].type)]

\* A product without properties takes any values.
Accepts(model, values) ==
  DOMAIN model # {} =>
    \A id \in DOMAIN values : id \in DOMAIN model /\ values[id] \in Fitting[model[id]]

(***************************************************************************)
(* Access profiles.                                                        *)
(***************************************************************************)

TransportAlias ==
  [socket |-> "tcp", https |-> "http", serial |-> "rs485", opc_ua |-> "opcua",
   bacnet_ip |-> "bacnet", lora |-> "lorawan"]
ProtocolAlias ==
  [default |-> "", tcp |-> "tcp_json", json_lines |-> "tcp_json", http |-> "http_json",
   mqtt |-> "mqtt_json", modbus |-> "modbus_tcp", opcua |-> "opcua_json",
   bacnet |-> "bacnet_ip", lorawan |-> "lorawan_uplink"]
IngestModeAlias ==
  [default |-> "", gateway |-> "gateway_tcp", direct |-> "gateway_tcp", http |-> "http_push",
   mqtt |-> "broker_mqtt", mqtt_broker |-> "broker_mqtt", bridge |-> "bridge_http",
   webhook |-> "bridge_http"]
PayloadFormatAlias ==
  [default |-> "", json |-> "json_values", flat |-> "flat_json",
   registers |-> "register_map", mapped |-> "mapped_json"]
AuthModeAlias ==
  [default |-> "", device_token |-> "token", bearer |-> "bearer_token",
   secret |-> "bridge_secret"]

ProtocolOf(transport, ingestMode) ==
  IF ingestMode = "http_push" THEN "http_json"
  ELSE IF ingestMode \in {"bridge_http", "broker_mqtt"} \/ transport = "mqtt" THEN "mqtt_json"
  ELSE IF transport = "http" THEN "http_json" ELSE "tcp_json"

TransportOf ==
  [http_json |-> "http", mqtt_json |-> "mqtt", modbus_tcp |-> "ethernet", modbus_rtu |-> "rs485",
   opcua_json |-> "opcua", bacnet_ip |-> "bacnet", lorawan_uplink |-> "lorawan"]
IngestModeOf ==
  [tcp_json |-> "gateway_tcp", http_json |-> "http_push", modbus_tcp |-> "http_push",
   modbus_rtu |-> "http_push", mqtt_json |-> "broker_mqtt"]

\* A mutant: what was written is kept.
GivenAsWritten(value, alias, missing) == IF Entry(alias, value) = "" THEN missing ELSE value

Given(value, alias, missing) == IF Entry(alias, value) = "" THEN missing ELSE Entry(alias, value)
Lookup(table, key, missing) == IF key \in DOMAIN table THEN table[key] ELSE missing

MappingsAccepted(mappings) ==
  \A i \in DOMAIN mappings : mappings[i].source # Nil /\ mappings[i].property # ""

NormalMappings(mappings) ==
  [i \in DOMAIN mappings |-> [mappings[i] EXCEPT !.scale = IF @ = 0 THEN 1 ELSE @]]

NormalProfile(profile) ==
  LET transport == Entry(TransportAlias, profile.transport)
      protocol == Given(profile.protocol, ProtocolAlias,
                        ProtocolOf(transport, Entry(IngestModeAlias, profile.ingestMode)))
  IN  [transport     |-> IF transport # "" THEN transport ELSE Lookup(TransportOf, protocol, "tcp"),
       protocol      |-> protocol,
       ingestMode    |-> Given(profile.ingestMode, IngestModeAlias,
                               Lookup(IngestModeOf, protocol, "bridge_http")),
       payloadFormat |-> Given(profile.payloadFormat, PayloadFormatAlias,
                               IF protocol \in {"modbus_tcp", "modbus_rtu"}
                               THEN "register_map" ELSE "json_values"),
       authMode      |-> Given(profile.authMode, AuthModeAlias, "token"),
       mappings      |-> NormalMappings(profile.mappings)]

\* A mutant: one mapping is looked at.
SomeMappingFits(model, mappings) ==
  mappings # <<>> /\ DOMAIN model # {} =>
    \E i \in DOMAIN mappings : mappings[i].property \in DOMAIN model

MappingsFit(model, mappings) ==
  mappings # <<>> /\ DOMAIN model # {} =>
    \A i \in DOMAIN mappings : mappings[i].property \in DOMAIN model

(***************************************************************************)
(* The ingest resolver.  A payload maps containers to what they hold:      *)
(* "values" (or telemetry, properties, data), "registers", "nodes",        *)
(* "objects", and "top" for the keys of the payload itself that are not    *)
(* reserved.  A source names a key and its container, or "any".            *)
(***************************************************************************)

\* A mutant: a key is looked for in the payload itself.
ContainersTop(source) == <<"top">>

Containers(source) ==
  IF source.in = "any" THEN <<"top", "registers", "nodes", "objects", "values">> ELSE <<source.in>>

Holds(payload, container, key) == container \in DOMAIN payload /\ key \in DOMAIN payload[container]

Found(payload, source) ==
  \E i \in DOMAIN Containers(source) : Holds(payload, Containers(source)[i], source.key)

SourceValue(payload, source) ==
  LET first == SelectInSeq(Containers(source), LAMBDA c : Holds(payload, c, source.key))
  IN  payload[Containers(source)[first]][source.key]

\* A scale of its own makes a number a fraction; a string that reads as a
\* number becomes one.
Scaled(kind, scale) ==
  IF kind \notin {"int", "fraction", "numeral"} THEN kind
  ELSE IF scale = 1 /\ kind # "fraction" THEN "int" ELSE "fraction"

\* Of two mappings to a property, the later one that finds its source holds.
Mapped(payload, mappings) ==
  LET found == {i \in DOMAIN mappings : Found(payload, mappings[i].source)}
  IN  [id \in {mappings[i].property : i \in found} |->
         LET last == Max({i \in found : mappings[i].property = id})
         IN  Scaled(SourceValue(payload, mappings[last].source), mappings[last].scale)]

\* What BuildValues makes of a payload; nothing, when it does not know how.
Resolved(payload, profile) ==
  LET held(container) == IF container \in DOMAIN payload THEN payload[container] ELSE <<>>
      flat == profile.payloadFormat \in {"flat_json", ""} \/ profile.protocol \in {"http_json", "mqtt_json"}
  IN  IF DOMAIN held("values") # {} THEN held("values")
      ELSE IF DOMAIN Mapped(payload, profile.mappings) # {} THEN Mapped(payload, profile.mappings)
      ELSE IF flat THEN held("top") ELSE <<>>

(***************************************************************************)
(* The protocol catalog: what a product of each kind may start from, and a *)
(* payload of one of its devices.                                          *)
(***************************************************************************)

Point(container, key, property, scale) ==
  [source |-> [in |-> container, key |-> key], property |-> property, scale |-> scale]

Offer(transport, protocol, ingestMode, format, model, mappings, payload) ==
  [model |-> model, payload |-> payload,
   profile |-> [transport |-> transport, protocol |-> protocol, ingestMode |-> ingestMode,
                payloadFormat |-> format, authMode |-> "token", mappings |-> mappings]]

DirectOffers ==
  {Offer("tcp", "tcp_json", "gateway_tcp", "json_values",
         [temperature |-> "float", humidity |-> "float"], <<>>,
         [values |-> [temperature |-> "fraction", humidity |-> "int"]]),
   Offer("http", "http_json", "http_push", "json_values",
         [temperature |-> "float", humidity |-> "float", battery |-> "float"], <<>>,
         [values |-> [temperature |-> "fraction", humidity |-> "int", battery |-> "int"]]),
   Offer("mqtt", "mqtt_json", "broker_mqtt", "json_values",
         [voltage |-> "float", current |-> "float", power |-> "float", energy |-> "float"], <<>>,
         [values |-> [voltage |-> "fraction", current |-> "fraction", power |-> "fraction",
                      energy |-> "fraction"]])}

ModbusOffers ==
  {Offer("rs485", "modbus_rtu", "http_push", "register_map",
         [temperature |-> "float", humidity |-> "float"],
         <<Point("registers", "40001", "temperature", 10), Point("registers", "40002", "humidity", 10)>>,
         [registers |-> [r \in {"40001", "40002"} |-> "int"]]),
   Offer("ethernet", "modbus_tcp", "http_push", "register_map",
         [voltage |-> "float", current |-> "float", power |-> "float", energy |-> "float"],
         <<Point("registers", "30001", "voltage", 10), Point("registers", "30002", "current", 100),
           Point("registers", "30003", "power", 10), Point("registers", "30004", "energy", 10)>>,
         [registers |-> [r \in {"30001", "30002", "30003", "30004"} |-> "int"]])}

BridgeOffers ==
  {Offer("opcua", "opcua_json", "bridge_http", "mapped_json",
         [temperature |-> "float", running |-> "bool"],
         <<Point("nodes", "Line1.Temperature", "temperature", 0), Point("nodes", "Line1.Running", "running", 0)>>,
         [nodes |-> [node \in {"Line1.Temperature", "Line1.Running"} |->
                       IF node = "Line1.Running" THEN "flag" ELSE "fraction"]]),
   Offer("bacnet", "bacnet_ip", "bridge_http", "mapped_json",
         [temperature |-> "float", humidity |-> "float", co2 |-> "float"],
         <<Point("objects", "analogInput:1", "temperature", 0), Point("objects", "analogInput:2", "humidity", 0),
           Point("objects", "analogInput:3", "co2", 0)>>,
         [objects |-> [object \in {"analogInput:1", "analogInput:2", "analogInput:3"} |->
                         IF object = "analogInput:3" THEN "int" ELSE "fraction"]]),
   Offer("lorawan", "lorawan_uplink", "bridge_http", "json_values",
         [temperature |-> "float", humidity |-> "float", battery |-> "float"], <<>>,
         [values |-> [temperature |-> "fraction", humidity |-> "int", battery |-> "int"]])}

DefaultProtocolCatalog == DirectOffers \cup ModbusOffers \cup BridgeOffers

(***************************************************************************)
(* State.                                                                  *)
(***************************************************************************)

VARIABLES
  product,      \* The stored product: its thing model, version and profile.
  copy,         \* The product each writer has read, and the half it updates.
  held,         \* The profile each client's values are resolved with.
  outcome,      \* What became of the last payload, and whose it was.
  updates,      \* Saves of the product so far.
  \* History: the writers whose copy is older than the last save; whether the
  \* profile was saved after the model it is stored with; and the clients
  \* whose model was, or may have been, changed behind their back.
  stale, checked, disturbed

history == <<stale, checked, disturbed>>
accessVars == <<product, copy, held, outcome, updates, history>>

NoOutcome == [client |-> Nil, mapped |-> FALSE, verdict |-> "none"]

\* A product as CreateProduct stores it.
AccessInit ==
  /\ \E m \in ModelInputs, p \in ProfileInputs :
       /\ ModelAccepted(m) /\ MappingsAccepted(p.mappings)
       /\ MappingsFit(NormalModel(m), p.mappings)
       /\ product = [model |-> NormalModel(m), version |-> 1, profile |-> NormalProfile(p)]
  /\ copy = [w \in Writer |-> Nil]
  /\ held = [c \in Client |-> Nil]
  /\ outcome = NoOutcome
  /\ updates = 0
  /\ stale = {} /\ checked = TRUE /\ disturbed = {}

(***************************************************************************)
(* UpdateProductThingModel and UpdateProductAccessProfile.                 *)
(***************************************************************************)

GetProduct(w, half) ==
  /\ copy[w] = Nil /\ updates < MaxUpdates
  /\ copy' = [copy EXCEPT ![w] = [half |-> half, product |-> product]]
  /\ stale' = stale \ {w}
  /\ UNCHANGED <<product, held, outcome, updates, checked, disturbed>>

Done(w) == copy' = [copy EXCEPT ![w] = Nil]
Holding == {c \in Client : held[c] # Nil}

Refused(w, half) ==
  /\ copy[w] # Nil /\ copy[w].half = half
  /\ Done(w)
  /\ UNCHANGED <<product, held, outcome, updates, history>>

SaveProduct(w, saved) ==
  /\ updates < MaxUpdates /\ updates' = updates + 1
  /\ product' = saved
  /\ stale' = {v \in Writer \ {w} : copy[v] # Nil}
  /\ Done(w)
  /\ UNCHANGED <<held, outcome>>

\* The profile it is saved with is the copy's, and is not looked at.
UpdateProductThingModel(w, input) ==
  \/ ~ModelAccepted(input) /\ Refused(w, "model")
  \/ /\ ModelAccepted(input)
     /\ copy[w] # Nil /\ copy[w].half = "model"
     /\ SaveProduct(w, [copy[w].product EXCEPT !.model = NormalModel(input), !.version = @ + 1])
     /\ checked' = FALSE
     /\ disturbed' = disturbed \cup Holding

\* A mutant: only the profile is written.
UpdateProductAccessProfileAlone(w, input) ==
  LET accepted == copy[w] # Nil /\ MappingsAccepted(input.mappings)
                  /\ MappingsFit(copy[w].product.model, input.mappings)
  IN  \/ ~accepted /\ Refused(w, "profile")
      \/ /\ accepted /\ copy[w].half = "profile"
         /\ SaveProduct(w, [product EXCEPT !.profile = NormalProfile(input)])
         /\ checked' = TRUE
         /\ disturbed' = IF w \in stale THEN disturbed \cup Holding ELSE disturbed

\* The model it was checked against is saved with it, whatever is stored now.
UpdateProductAccessProfile(w, input) ==
  LET accepted == copy[w] # Nil /\ MappingsAccepted(input.mappings)
                  /\ MappingsFit(copy[w].product.model, input.mappings)
  IN  \/ ~accepted /\ Refused(w, "profile")
      \/ /\ accepted /\ copy[w].half = "profile"
         /\ SaveProduct(w, [copy[w].product EXCEPT !.profile = NormalProfile(input)])
         /\ checked' = TRUE
         /\ disturbed' = IF w \in stale THEN disturbed \cup Holding ELSE disturbed

(***************************************************************************)
(* Ingest.  An HTTP request reads the profile, resolves its payload and    *)
(* has it handled; an MQTT connection keeps the profile it was opened with.*)
(***************************************************************************)

ReadProfile(c) ==
  /\ held[c] = Nil
  /\ held' = [held EXCEPT ![c] = product.profile]
  /\ outcome' = IF outcome.client = c THEN NoOutcome ELSE outcome
  /\ disturbed' = IF checked THEN disturbed \ {c} ELSE disturbed \cup {c}
  /\ UNCHANGED <<product, copy, updates, stale, checked>>

\* HandleTelemetry looks at the product as it is now.
Outcome(values) ==
  IF DOMAIN values = {} THEN "unresolved"
  ELSE IF Accepts(product.model, values) THEN "accepted"
  ELSE IF DOMAIN values \subseteq DOMAIN product.model THEN "mistyped" ELSE "unknown"

\* The payload brought no values of its own: its mappings name them.
ByMappings(payload, profile) ==
  /\ "values" \notin DOMAIN payload
  /\ DOMAIN Mapped(payload, profile.mappings) # {}

Ingest(c, payload) ==
  /\ held[c] # Nil
  /\ outcome' = [client |-> c, mapped |-> ByMappings(payload, held[c]),
                 verdict |-> Outcome(Resolved(payload, held[c]))]
  /\ held' = IF c \in Http THEN [held EXCEPT ![c] = Nil] ELSE held
  /\ UNCHANGED <<product, copy, updates, history>>

OnDisconnect(c) ==
  /\ c \in Mqtt /\ held[c] # Nil
  /\ held' = [held EXCEPT ![c] = Nil]
  /\ UNCHANGED <<product, copy, outcome, updates, history>>

(***************************************************************************)
(* Specification.                                                          *)
(***************************************************************************)

AccessNext ==
  \/ \E w \in Writer :
       \/ \E half \in {"model", "profile"} : GetProduct(w, half)
       \/ \E input \in ModelInputs : UpdateProductThingModel(w, input)
       \/ \E input \in ProfileInputs : UpdateProductAccessProfile(w, input)
  \/ \E c \in Client :
       \/ ReadProfile(c)
       \/ \E payload \in Payloads : Ingest(c, payload)
       \/ OnDisconnect(c)

AccessSpec == AccessInit /\ [][AccessNext]_accessVars

(***************************************************************************)
(* Properties.                                                             *)
(***************************************************************************)

Settled(value, alias) == value # "" /\ value \notin DOMAIN alias

\* A stored profile has every field, in the form the code compares with, and
\* normalising it again changes nothing (normalizeAccessProfile).
ProfileIsNormal(profile) ==
  /\ Settled(profile.transport, TransportAlias)
  /\ Settled(profile.ingestMode, IngestModeAlias)
  /\ Settled(profile.payloadFormat, PayloadFormatAlias)
  /\ \A i \in DOMAIN profile.mappings : profile.mappings[i].scale # 0
  /\ NormalProfile(profile) = profile

\* Types of the variables, the data types of the model and the normal form of
\* every profile that is stored or in use.
AccessTypeOK ==
  /\ \A id \in DOMAIN product.model : product.model[id] \in DOMAIN Fitting
  /\ product.version \in 1 .. MaxUpdates + 1
  /\ ProfileIsNormal(product.profile)
  /\ \A c \in Holding : ProfileIsNormal(held[c])
  /\ updates \in 0 .. MaxUpdates
  /\ \A w \in Writer : copy[w] # Nil => copy[w].half \in {"model", "profile"}

\* After an update of the profile the product's mappings name properties of
\* the model they are stored with, also when another update came in between
\* and is undone: the whole product that was checked is saved
\* (validateAccessMappings, then SaveProduct).
MappingsFitTheModel ==
  checked => MappingsFit(product.model, product.profile.mappings)

\* Values that a client's mappings name are refused as unknown only if the
\* thing model was saved since the client's profile was read or since that
\* profile was checked, or a stale save put an older one back
\* (handleHTTPIngest and OnConnectAuthenticate, which read the profile, and
\* HandleTelemetry, which reads the product again).
RefusalsAreExplained ==
  outcome.mapped /\ outcome.verdict = "unknown" => outcome.client \in disturbed

\* Every entry of the catalog makes a product: its profile is normal but for
\* the scales, its mappings fit its thing model, and its example payload
\* resolves to values of that model (DefaultProtocolCatalog, BuildValues and
\* validateThingValues, whose tables are kept apart in the code).
CatalogWorks ==
  \A offer \in DefaultProtocolCatalog :
    LET profile == NormalProfile(offer.profile)
        values == Resolved(offer.payload, profile)
    IN  /\ [profile EXCEPT !.mappings = <<>>] = [offer.profile EXCEPT !.mappings = <<>>]
        /\ MappingsFit(offer.model, profile.mappings)
        /\ DOMAIN values = DOMAIN offer.model
        /\ Accepts(offer.model, values)

============================================================================
