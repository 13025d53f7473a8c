# Formal model of mvp-platform

This directory is a TLA+ development of the IoT platform in this repository:
modules that model its concurrent and failing parts, TLC configurations that
check them on small instances, and TLAPS proofs that hold for every instance.
Paths are relative to the repository's root.

The platform is one Go process (or an active and a standby one). Devices
connect over TCP (JSON lines) or MQTT, or post telemetry over HTTP; operators
use an HTTP API. All state lives in one store that is kept in memory and, with
the file backend, written as one JSON snapshot after every mutation.

## 1. Inventory

| Part | Code | State | Operations | Hard behaviour |
|---|---|---|---|---|
| Session registry | `internal/core/service.go` (`RegisterSession`, `UnregisterSession`) | `states[device].session`, gauge `onlineDevices` | register, unregister, read for sending | the gauge and `Close` of the displaced session come after the lock is released |
| TCP gateway | `internal/gateway/server.go` | tracked connections; per connection a handler, a session queue and a writer goroutine | accept, authenticate, messages, epilogue, shutdown | replacement of sessions, early returns, shutdown racing accept |
| MQTT entry | `internal/mqtt/server.go` | `bindings`: client ID to device | four callbacks of the broker | callbacks of two connections with one client ID |
| Device twin | `internal/core/service.go`, `automation.go` | telemetry, shadow, rule states, alerts | telemetry, desired values, configuration profiles, rules | read, change and save without a lock; rules that write the shadow from within telemetry |
| Commands and OTA | `internal/core/automation.go`, `multitenant_ota.go` | commands, campaigns | send, ack, dispatch | ack before "sent"; copies of a campaign saved over each other |
| File store | `internal/store/file/store.go` | memory, snapshot file | mutate with rollback, load | every file operation may fail, the process may die |
| Replication | `internal/app/replication.go`, `internal/api/platform.go` | requests in flight | push, receive, restore | unordered goroutines, no retry, install guard |
| Setup | `internal/setup/manager.go`, `internal/api/install.go` | install lock, setup file | bootstrap, seed tenant, replica state | requests together, failing writes, install state replicated once |
| Memory store | `internal/store/memory` | maps of records, group membership in two maps | create, save, append with retention | none: every operation holds one lock |
| Inventory | `internal/core/multitenant_ota.go`, `service.go` | products, devices, groups, profiles, rules, firmware, memberships, gauge `registeredDevices` | create, assign, start campaigns | scopes checked by different calls at different times; a device created half way |
| Alerts | `UpdateAlert` | status of an alert | acknowledge, resolve | any status after any other |
| Thing model, access profile, ingest | `internal/core/service.go`, `internal/model`, `internal/ingest`, `internal/api/ingest.go` | both halves of a product; the profile a request or connection holds | update, normalise, validate, resolve | whole-record saves; the profile is older than the model |
| Simulator | `internal/simulator/manager.go` | simulators, their runs, readers and channels | create, connect, disconnect, remove, telemetry, close | a run that ends while the next is asked for; removal racing connect |
| Firmware | `firmware/esp8266-universal` | MQTT session, pin states | connect loop, publish, command | reconnects with a fixed client ID |
| HTTP API, user interface, configuration, commands | `internal/api`, `internal/config`, `cmd` | none of their own | one core call for each request | concurrent handlers |

How they interact. The gateway and the MQTT hooks call the registry and
`HandleTelemetry` / `HandleCommandAck` on the goroutine of the connection; the
API calls the core on one goroutine for each request; the core calls
`Session.Send` of a connection that another goroutine may be closing. Every
store call is atomic (one mutex), but a core operation makes several of them
and holds no lock between. The file store wraps the memory store, and its hook
feeds the replication goroutines.

What makes each part correct, beyond types:

* registry: the gauge never drifts from the map; whoever removes a session
  owes the decrement or the `Close` of that session;
* gateway: commands go only to a connection of the device; displaced,
  unauthenticated and shut-down connections end; each rejection counts once;
* MQTT: a connection that is alone with its client ID stays served and online;
  bindings are released;
* twin: a save never undoes what the saver did not see, as long as calls do
  not meet; a rule keeps its cooldown, whatever the timestamps;
* commands: a campaign counts only what happened; it is completed only if all
  targets have acknowledged; no command stays pending;
* file store: a write is atomic, a failed one has no effect, a restart keeps
  everything or (where the replacement of the file fails half way) nothing;
* replication: the standby never holds what the primary did not make durable,
  and is in sync when it has the last snapshot, whatever was lost before;
* setup: an installation that was answered is kept; one tenant is seeded;
* inventory: firmware and profiles stay in the scope they were made for;
* access: mappings name properties of the model they are stored with; what is
  refused later is refused for a reason;
* simulator: one run in charge at a time; what is told to stop ends.

`PROJECT.json` lists the hazards of the code, each at its line, with the
properties that cover it, or why none does.

## 2. Modules

| Module | Models | Built on |
|---|---|---|
| `SessionRegistry` | the registry, with the most general client | |
| `TcpGateway` | the TCP entry | `Registry == INSTANCE SessionRegistry` |
| `MqttBroker` | the MQTT entry | `Registry == INSTANCE SessionRegistry` |
| `DeviceTwin`, `MCDeviceTwin` | telemetry, shadow, rules, configuration | |
| `Commands` | commands and OTA campaigns | |
| `DurableStore` | abstract: what the file backend promises | |
| `FileStore` | the file store | refines `DurableStore` |
| `Setup` | the setup manager and the install wizard's requests | |
| `Replication` | primary, standby and network | EXTENDS `FileStore`, `Setup`; `Standby == INSTANCE FileStore`, `StandbySetup == INSTANCE Setup` |
| `Inventory`, `MCInventory` | records, scopes, memberships, campaigns' targets | |
| `Access`, `MCAccess` | thing models, access profiles, the catalog, ingest | |
| `Simulator` | simulators, runs and readers | |
| `SessionRegistryProofs`, `TcpGatewayProofs`, `MqttBrokerProofs`, `DeviceTwinProofs`, `CommandsProofs`, `ReplicationProofs` (with the file store), `ProductProofs` (`Inventory` and `Access`), `SimulatorProofs` | the theorems about those modules | |

A definition named "A mutant: ..." in its comment is no part of the
specification: it is a plausible mistake in the code, used to show that a
property can fail.

### SessionRegistry

`session` is `states[d].session` reduced to the session's ID, `onlineDevices`
the atomic gauge, and `task[t]` what goroutine `t` decided under
`Service.mu` and has yet to do after unlocking: add, subtract or close the
displaced session. `RegisterSession` and `UnregisterSession` are the locked
halves, `AdjustOnline` and `ClosePrevious` the unlocked ones. Alone, the module
lets any goroutine make any call with any session; the two transports
instantiate it, and `ImplementsRegistry` in each shows that they are such
clients. What is proved of the registry therefore holds for both.

### TcpGateway

A connection ID is also the ID of its session and names its handler goroutine.
`pc` is the handler's place in `handleConnection`; an early return ("abort")
runs only the deferred calls, the end of the read loop ("unregister") the
epilogue as well. `closed`, `queue`, `writer`, `cancelled` are the
`clientSession` and `runWriter`; `connOpen`, `tracked`, `ctxDone`, `listening`,
`swept` the server's part in `Run`, `trackConnection` and
`closeAllConnections`. The device may send anything at any time, close, or be
silent until a deadline; a command may be sent by a goroutine that read the
session long ago.

### MqttBroker

mochi-mqtt is a library outside the repository. The model has what the hooks
rely on: callbacks run on the goroutine of each connection; a connection that
comes in with a client ID in use stops the old one, whose `OnDisconnect` then
runs at any time (`TakeOver`, external); a client may vanish before it is
established, and then no callback runs (`ConnackFails`, external).
`OnDisconnect` is three steps, as in the code: read the binding, unregister,
delete the binding. A session's ID is its client ID, so two connections with
one client ID are one session to the registry. Devices reuse client IDs in
practice: the firmware's is fixed (`firmware/esp8266-universal/src/main.cpp`).

### DeviceTwin

Each call of `HandleTelemetry`, `UpdateDesiredShadow` or `ApplyConfigProfile`
has a place `pc`, its arguments, and `copy`, the shadow it has read. One step
is one store call or one access to `ruleStates`. A rule that applies a profile
sends its handler through the steps of `ApplyConfigProfile`
(`desireRead` ... `count`) before it is recorded as triggered. `StoreFails`
lets every store call that changes something fail; inside a rule's action the
error is logged and the handler goes on.

Left out: a rule's condition is one watched value (which devices a rule selects
is in `Inventory`), a rule has one action, commands sent by rules are `Commands`' API commands,
`TouchDevice` and the counters. `triggers`, `desired`, `overlapped` and `last`
are history: `overlapped` holds the calls that ran at the same time as another,
because the code promises nothing about those (section 5).

### Commands

`send[c]` is the place of `sendCommandWithCampaign` for command `c`, `dispatch`
that of the loop in `dispatchOTACampaign`, `ack[a]` that of one
`HandleCommandAck`, with `copy[a]` the campaign it has read. `inbox` holds the
commands that a session took; acks exist only for those. The store may fail at
every update and the process may die at any point, which leaves its sends at
"died" and the store as it is.

### FileStore, DurableStore

A state of the store is the set of mutations applied to it; `disk` is `{}` (no
file) or one state. `mutate` holds its mutex from the rollback snapshot to the
answer, so one `pc` is enough: write the temporary file, remove the old file,
rename, and on an error restore the memory. `Failure` names what may go wrong:
writing, `os.Remove`, `os.Rename`, a crash, and (apart, because the file is
then gone) a crash between remove and rename. `ReceiveSnapshot` and
`RestoreSnapshot` are `ApplyReplicaSnapshot`, used by the standby.

`DurableStore` has one variable for the content and commits a write, answers
it, loses it with the process, or restarts. The refinement mapping `Content` is
the rollback snapshot while a write is in progress and the memory afterwards:
a write takes effect when its file is in place.

### Setup

`lock` is `state.InstallLock`, `setupFile` whether the file exists (every state
ever written says installed), `holder` and `step` the manager's mutex across
`writeLocked`, and `place[r]` where request `r` is in
`handleInstallBootstrap`: checked, admitted, writing, and then looking for
tenants, looking for the slug and saving the tenant. A request that finds the
node installed meanwhile gets the first one's state and seeds as well.

### Replication

FileStore's and Setup's variables are the primary's, second instances are the
standby's. A bootstrap request is also the mutation that seeds its tenant.
`pushes` are the snapshots that hook goroutines have sent and the standby has
not taken; a set, since nothing orders them. Each has the number of its
mutation, a history variable, as are `issued` (the last number, counted also
for a state that nobody pushed because the process died) and `received` (the
number of the snapshot the standby has). `LosePush` covers the timeout, a
standby that is down, and an install guard that refuses; there is no retry. The
install state travels the same way, once. Both nodes may die and start again
at any point, and every file operation of both may fail.

### Inventory

`scope` is the tenant and the product of each record; a call that leaves one
open inherits it (`Narrowed`) from the record it names, after comparing what it
does name (`Refers`). The empty string and a product that does not exist are
among the inputs. Nothing deletes a record or changes its scope, so what a call
has checked still holds when it saves, and a call is one step; only
`CreateDevice` is several (device, first shadow, gauge), of which the second
may fail, and the process may restart. `upgrades` collects which firmware went
to which device by way of which group. A group campaign is refused when
neither the call, the group nor the firmware names a product. `members` is one relation for the two
maps, which the store writes under one lock. Names, conditions and retention
are left out.

### Access

A value is abstracted to its kind (whole number, fraction, string that reads as
a number, other string, Boolean), an alias table is a function, and a payload
maps containers to what they hold. `NormalModel`, `NormalProfile`,
`MappingsFit`, `Resolved` and `Accepts` are the code's pure functions, on inputs
of the fields that the structs of `internal/model` have (`InputAssumption`);
`UpdateProductThingModel` and `UpdateProductAccessProfile` are a read and a save
of the whole product with the check in between. A client reads the profile in
one step and has its values validated in another; an HTTP request once, an MQTT
connection for as long as it is open. `DefaultProtocolCatalog` is the catalog,
entry by entry. `AccessInit`, `AccessNext` and `accessVars` bear the module's
name because `ProductProofs` extends both modules about products; the two
specifications share no variable.

### Simulator

The API's handlers are callers: they look a simulator up under the manager's
lock and then work on the instance under its own, so a call has two or three
steps. A run is a number, in the order of starting; `cancel[s]` is the run that
the simulator's cancel function stops. `pc[r]` follows `instance.run`: dial,
authenticate, serve, and the deferred calls in their order (close the
connection, then `finishRun`). The reader puts messages into `inbox` and gives
up when it is full; the manual queue belongs to the simulator and outlives its
runs. `late` is history: runs that a Connect started after the simulator was
removed.

## 3. Runs

| Run | Question | Instance | States |
|---|---|---|---|
| `gateway` | ownership, closing, the gauge, every connection's end, shutdown; and that the gateway is a client of the registry | 2 devices, 2 connections, queue of 1 | 93,499 |
| `gateway_online` | *violation*: a second auth message leaves the device online | 1 device | |
| `replication` | durability and rollback, refinement of `DurableStore`, what the standby holds, the installation and its tenant, under all failures of both nodes and any order of pushes | 4 mutations, of which 2 by requests to install | 1,068,066 |
| `file_store_atomic` | *violation*: a crash between remove and rename loses the store | 1 node | |
| `commands` | counting, completion, no pending command left | campaign of 2, 1 other command | 151,690 |
| `commands_acks_counted` | *violation*: acks lost by copies saved over each other | 2 commands | |
| `mqtt` | served, online, released, for connections alone with their ID; and that the hooks are a client of the registry | 2 devices, 2 client IDs, 3 connections | 855,825 |
| `mqtt_served` | *violation*: the old connection's `OnDisconnect` deletes the new binding | | |
| `twin` | stale saves, desired values and cooldown in every order | 2 messages, 1 writer, 2 rules | 3,406,847 |
| `inventory` | scopes of firmware, profiles and memberships; the gauge | 2 tenants, 9 records, at most 5 stored | 271,661 |
| `simulator` | one run in charge, removal, the end of every run | 1 simulator, 2 runs, 2 callers | 165,612 |
| `access` | mappings and models, refusals, the catalog | 2 writers, 1 request, 1 connection, 3 saves | 565,976 |

Why the instances are large enough:

* `gateway`: replacement needs two connections of one device, ownership two
  devices; a queue of 1 is empty and full. What two connections might hide
  (`DisplacedIsClosing` with overlapping replacements, and every other
  invariant of the run) is proved for any number.
* `mqtt`: three connections allow a takeover, a third connection that is alone
  with its ID, and one of the same device under another ID. All properties of
  the run are proved for any number.
* `twin`: one property with two values and "not given"; two messages are needed
  for a cooldown to be broken and one of each kind of call for a lost update.
  `MaxRunning = 2` bounds the calls that run together: the properties only
  speak of calls that met no other, and a call is marked by the first it meets.
  `MaxTime = 3` with `Cooldown = 2` has timestamps before, within and after the
  cooldown, in both orders. `Handler` is a symmetry set: the handlers differ by
  nothing and no property of the run is temporal.
* `commands`: two targets are needed for an ack to be lost, for a partial
  campaign and for the order of dispatch. `MaxAcks` bounds the acks that a
  device sends for one command.
* `replication`: four mutations are one that is durable, one that fails, and
  two tenants; two requests meet, and a third would do what the second does.
  Every property of the run is proved for any number of either.
* `inventory`: a leak takes a product, a group, a device and a firmware, or a
  product, a device, a profile and a rule, and a second product; `MaxRecords = 5`
  allows both. Tenants, products and devices are symmetric; no property is
  temporal.
* `simulator`: runs of one simulator meet, those of two share nothing; the
  second run follows the first or replaces it, and two callers are enough to
  come between the steps of another. `MaxRuns` bounds how often a simulator is
  connected; the invariants are proved for any number.
* `access`: two writers make a stale save, the third save comes after it
  (`MaxUpdates = 3`); the models and profiles include one of each kind that is
  refused, the payloads one of each way to find a value. The catalog is checked
  whole, and proved.

`CHECK_DEADLOCK FALSE` is set where a run ends: connections, calls, commands,
records and mutations are used once.

### Findings

Each violation run has one property, taken from a statement of the
documentation, and a finding in `PROJECT.json` that quotes it.

* `OnlineMeansConnected`: a second `auth` on a connection returns past the
  epilogue (`internal/gateway/server.go:121`), and the device stays online.
  `OnlySecondAuthLeavesASession`: nothing else leaves one online.
* `EstablishedIsServed`: `OnDisconnect` deletes the binding of the connection
  that replaced it (`internal/mqtt/server.go:229`); the device is connected and
  everything it publishes is dropped. `ClientsInTurnAreServed`: this takes a
  client that is back before the broker has seen its old connection end.
* `AcknowledgedIsKept`: `os.Remove` before `os.Rename`
  (`internal/store/file/store.go:176`) is not the atomic snapshot that
  `README.md` describes. `OnlyReplacementLosesWrites` (section 5) proves that
  nothing else loses an acknowledged write, and `StandbyIsOnlyBehind` that
  nothing else lets the standby hold what its primary does not.
* `AcksAreCounted`: the dispatcher saves its old copy of the campaign over the
  acks (`internal/core/multitenant_ota.go:895`), and two acks overwrite each
  other. `SerialAcksAreCounted`: while the store works, no ack is lost in any
  other way.

For each of the four a theorem of section 5 so proves the cause: the property
that the run refutes holds of every behaviour without the named step.

### What the properties except, because the code promises no more

* `NoStaleSave`, `LastCallIsInShadow`, `CooldownIsKept`: calls that met another
  call for the same device. Messages of one TCP connection are handled one
  after the other, but HTTP requests and MQTT connections of one device are
  not, and then a read and a save of two calls interleave and one update is
  lost. The run explores those interleavings.
* `OneTenantIsSeeded`: two requests that look for the slug before either saves.
* `InSyncWhenQuiet`: a standby that does not have the last snapshot. A push
  that is lost or overtaken is made up for by the next one, and only by that.
* `RemovedIsStopping`: a run that a Connect, under way since before the
  removal, starts after it; only `Close` can stop it.
* `UpgradesStayInScope`: the members of a group that is open to every product.
* `MappingsFitTheModel`: products whose thing model was saved last, since
  `UpdateProductThingModel` does not look at the mappings.

## 4. Fairness

`TcpGateway`, `Commands` and `Simulator` have liveness properties.

* `TcpGateway`: goroutines that do not wait for the device go on
  (`HandlerStep`); a `select` chooses at random among its ready cases, so the
  writer's cancellation and the closed session are eventually seen; a read
  returns once the connection is closed, and, before authentication, when
  `DeviceAuthTimeout` passes (`ReadMustEnd`); the shutdown goroutine runs. No
  fairness is assumed of devices, of accepting, of a read on an authenticated
  connection (its deadline moves with each message), or of the operator who
  cancels the context.
* `Commands`: a goroutine that has saved its command goes on until it returns,
  since `Send` does not block; the dispatcher saves when its loop ends. Nothing
  is assumed of devices or of starting a command.
* `Simulator`: a dial ends within its timeout; a run whose context is done
  takes that case of its `select` at some time, as a `select` chooses at random
  among its ready cases and no other case keeps it for ever; deferred calls are
  made; a read ends on a connection that was closed. Nothing is assumed of the
  gateway, of the API's callers, or of a reader whose connection is open.

## 5. Theorems

All are proved by TLAPS for every value of the constants that satisfies the
named assumptions of the module; the assumptions say that the special values
are none of the others, that sets whose cardinality is taken are finite, and
that bounds are natural numbers.

| Module | Theorem | Argument |
|---|---|---|
| `SessionRegistryProofs` | `TypeCorrect`, `OnlineCounterIsExact`, `SessionsAreHandedOver` | the gauge equation is inductive with the types; each action changes one device and one task, and the cardinalities change by one. The handover follows from the types alone. |
| `TcpGatewayProofs` | `TypeCorrect`, `SessionsBelongToTheirDevice`, `GatewayImplementsRegistry`, `GatewayGaugeIsExact`, `DisplacedConnectionsAreClosed`, `OpenConnectionsAreTracked`, `RejectionsAreCounted`, `QuietGaugeIsExact`; of `AuthOnceSpec`: `OnlySecondAuthLeavesASession`, `EndedGatewayIsEmpty` | ownership is strengthened by where a handler that owns a session can be (`pc` in reading or before) and by which tasks a handler can have; the displaced session is in the task of whoever displaced it, so the invariant is inductive with the types of tasks. The gauge comes from the refinement: `Exact`, an instance of `SessionRegistryProofs`, has the registry's theorem for connections as sessions and callers, and each step of the gateway is one of its steps; a handler has a task only inside the two calls of the registry, so outside them nothing is owed. Without `SecondAuth`, a handler that aborts is anonymous (`AbortingIsAnonymous`), so whoever owns a session goes on to unregister it. |
| `MqttBrokerProofs` | `TypeCorrect`, `AloneClientsAreServed`, `AloneClientsAreOnline`, `BindingsDoNotPileUp`, `BrokerImplementsRegistry`, `BrokerGaugeIsExact`, `OfflineByItsClient`, `EmptyBrokerGaugeIsExact`; of `InTurnSpec`: `ClientsInTurnAreServed`; of `BothInTurnSpec`: `DevicesInTurnAreOnline`, `EmptyBrokerIsOffline` | nobody else writes the binding of a client ID that only one connection has used, so what that connection has read is what is bound; nor, if it is alone with its device, the device's session. The gauge is the registry's theorem again, with client IDs as sessions; it holds without the connections being alone. A client that comes back in turn has one live connection, which keeps its binding (`InTurnInv`); with devices in turn as well, a session is its serving connection's (`DeviceInv`). |
| `DeviceTwinProofs` | `TypeCorrect`, `NoSaveIsStale`, `CooldownHolds`, `LastCallTakesEffect` | two calls that both run are in `overlapped`; so a step of one cannot make the copy of another stale without marking it. For the cooldown, no trigger is later than `lastTriggered`, and what carries out a rule's actions may still trigger it. For the last call, `LastInv` says what it has done so far at each of its places (`SoFar`): before the save its copy holds what was asked, after it the shadow does, and through the loop over the rules either nothing that the device reported is still desired or a rule's profile is; while it runs and has met no other, nobody else runs (`LastRunsAlone`). |
| `CommandsProofs` | `TypeCorrect`, `CountersAreSound`, `CompletionIsEarned`, `PendingIsNotForgotten`; of `PatientSpec`: `LateAcksStand`; of `SerialSpec`: `SerialAcksAreCounted`, `SerialCampaignsComplete` | every copy of a campaign, in the store or read, counts at most the handled acks at the time of reading, and handled acks only grow; the sets are counted with `FiniteSetTheorems`. Where acks are read one at a time the copy in hand is the stored campaign, so a save adds exactly one (`Exact`). |
| `ReplicationProofs`, one node | `TypeCorrect`, `MemoryIsTheFile`, `FailedWritesHaveNoEffect`, `FileStoreImplementsDurableStore`, `OnlyReplacementLosesWrites` | `Inv`: what `data`, `rollback` and `mem` are at each `pc`; a step maps to one step of `DurableStore` or to none. No step of a `DurableStore` that is not fragile takes an acknowledged write away, and memory holds at least its content: so `AcknowledgedIsKept`, which a run refutes, holds wherever `"rename"` and `"crashReplacing"` are not in `Failure`. |
| `ReplicationProofs`, two nodes | `PrimaryIsAFileStore` | every step is one of the primary's file store or leaves it alone, so the theorems about one node hold of it. |
| | `ReplicasAreDurable`, `StandbyIsItsFile` | every snapshot in flight, being written or stored on the standby contains only acknowledged mutations; the standby's memory is its file except between the rename and the restore. |
| | `StandbyIsOnlyBehind` | while no replacement may fail half way, the content of the `DurableStore` only grows (`ContentGrows`), and what is pushed is that content. |
| | `StandbyIsInSync` | the snapshot with the last number is the primary's content (`Pushed`), in flight, being written, in memory or in the file of a standby that is down (`Taken`). |
| | `InstallationIsKept`, `TheWizardSeedsOnce` | once a request is answered no write of the setup file starts any more; while one request is about to save, there is no tenant and no other such request, unless they raced. |
| `ProductProofs`, `Inventory` | `TypeCorrect`, `FirmwareStaysInScope`, `RulesApplyTheirProfiles`, `RegisteredIsExact` | scopes only name stored products, a group covers its members, and a rule's profile was compared with the scope the rule ended up with; every creation is a save of one new record whose scope is one of those it named. |
| `ProductProofs`, `Access` | `AccessTypeCorrect`, `CheckedMappingsFit`, `UnknownMeansDisturbed`, `CatalogMakesProducts` | `NormalProfileIsNormal`: no table of aliases leads to another alias (`AliasesAreClosed`) and every default is in normal form, so normalising is idempotent on any input. `AccessInv` adds to the types that a copy which is not stale is the stored product, so that a save of it leaves the model alone, and that the profile of a client that was not disturbed fits the stored model; `FittingValuesAreKnown` then rules the refusal out. For the catalog, `ValuesOfferWorks` and `MappedOfferWorks` say when any entry works: its names are settled, and each property has one mapping, or value, of a kind that suits it; the eight entries are then looked up one by one. |
| `SimulatorProofs` | `TypeCorrect`, `OneRunIsInCharge`, `RemovedSimulatorsStop`, `EndedRunsLeaveNothing` | `OneRunInCharge` is inductive once the calls under way are about simulators and active runs belong to one. The call that removed a simulator reads the cancel function of exactly the active run, since there is no other. A connection is open only while its run is active, and a reader that outlives its run has none to read from. |

`OnlineCounterIsExact` is thus stated once, of the registry's most general
client, and reaches both transports through the refinements.

The theorems about a gauge name the sets that have to be finite, since the modules
that they are about do not need that otherwise. `LastInv` and `AccessInv`, the
largest of the inductive invariants, also hold on the instances of the runs
`twin` and `access`, where TLC had checked them before they were proved.

Five specifications of the proof modules restrict the next-state relation by a
condition on its steps, and nothing else:

* `AuthOnceSpec`: no device sends a second auth message.
* `InTurnSpec`: a client authenticates when every connection of its client ID
  has ended for the broker, too; `BothInTurnSpec`: of its device as well.
* `PatientSpec`: an ack is handled when `sendCommandWithCampaign` has returned.
* `SerialSpec`: an ack reads the campaign when the dispatch is saved and no
  other ack is between its read and its save.

The code enforces none of them. The theorems about these specifications say
that the excluded steps are the cause of a behaviour: the same formulas are
false of the unrestricted specifications, three of them in violation runs. `OnlyReplacementLosesWrites` and `StandbyIsOnlyBehind` exclude
failures by the value of `Failure` instead. Of `ShutdownDrains`, `PendingEnds`
and `StoppedRunsEnd`, the theorems `QuietGaugeIsExact`, `PendingIsNotForgotten`
and `EndedRunsLeaveNothing` prove the safety half: what the state that is to be
reached looks like, or which steps are left that reach it.

### Only model-checked

* Liveness (`DisplacedEnds`, `UnauthenticatedEnds`, `ShutdownDrains`,
  `PendingEnds`, `StoppedRunsEnd`): TLAPS does not reason about ENABLED and
  fairness.
* The violations: a theorem can only say what excludes them.

## 6. Not modelled

* Contents: JSON, names, tokens, topics, messages, dates, views and statistics
  that are only incremented.
* `UpdateAlert`: one read and one save of a status that no other part of the
  platform looks at.
* `ExtractTimestamp` of the ingest resolver: it parses a date. What telemetry
  with any timestamp does is in `DeviceTwin`.
* The memory store's bounds on stored telemetry and alerts (the oldest are
  dropped, memory.go:366 and 478): ingest, rules and commands never read them
  back; only views and `UpdateAlert` do. Commands are kept without a bound.
* The HTTP API's decoding, the user interface, configuration and the commands
  under `cmd`: each request is one core call, which is modelled where the core
  is. The load generator is a client for measuring.
* The firmware: a single-threaded program for another machine; what the
  platform sees of it is a client that reconnects with a fixed client ID.
* The mochi-mqtt broker itself, beyond the order of its callbacks.
* Time, except the telemetry's own timestamps in `DeviceTwin`; a deadline is a
  step that may happen at any moment.
