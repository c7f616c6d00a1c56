# A TLA+ model of twinscale-operator

This directory models the controllers of the twinscale operator, checks the models with
TLC and proves their safety properties and refinements with TLAPS. It is meant to be read
with the repository at hand; paths are relative to its root.

    tlc -workers 2 -config edits.cfg MCTwinInterface.tla          # any run below
    for m in *_proofs.tla; do tlapm $m; done                      # all proofs, some minutes

`PROJECT.json` lists components, runs, mutants (how a plausible bug would break each
property), the lines every definition models, findings, hazards and theorems.

## 1. The system

The operator is one process (`cmd/main.go`) with six controllers. Each has a work queue,
one worker, and reads through informer caches that lag behind the API server; writes go to
the API server directly. Controllers talk to each other only through objects there.

| Component | State | Operations |
|---|---|---|
| TwinInterface controller, `internal/controller/dtd/twininterface_controller.go`, with `pkg/service`, `pkg/event`, `pkg/third-party` | none of its own; the resource (spec, labels, phase), its Knative service, trigger and RabbitMQ bindings | Reconcile: create or update the service, create trigger and bindings, set phase and label |
| MQTTTrigger controller, `internal/controller/core/mqtttrigger_controller.go` | the resource and its phase; two queues, deployments, services under fixed names | Reconcile: apply six resources in order, report Ready or Error |
| EventStore, HistoricalDataStore, Visualisation controllers, `internal/controller/core/`, `pkg/event-store`, `pkg/historical-data-store`, `pkg/visualisation` | the resource; a Knative service `<name>` and a trigger `<name>-trigger` | Reconcile: create or update both |
| TwinInstance controller | none | Reconcile reads the resource and returns |
| Twin graph and its server, `pkg/graph` | a map of vertices with edge lists and a counter; the current graph | add and remove vertices and edges; rebuild, answer as JSON. Nothing in the repository starts it |
| Names and event types, `pkg/naming`, `pkg/event` | none | formatting of binding names, event types and routing keys |

How they interact. A TwinInterface's service gets the URL of the event store's service,
which the EventStore controller creates. The bindings of an interface lead from the
broker's exchange to the queues Knative makes for triggers, to the event store's queue and
to the dispatchers' queues that the MQTTTrigger controller creates. Around the controllers
are users, the garbage collector, which deletes children of dead owners, Knative, which
creates and deletes queues some time after their triggers, and an installation (Broker,
exchange, secrets) that may come up after the operator.

What is hard here, and what makes each component correct:

* *Reconcile is interrupted by everything.* Between any two calls users edit, delete and
  re-create, caches move on, calls fail, the operator restarts. A reconciliation must not
  leave work behind that nothing will pick up again; it must not overwrite an edit; and
  retries from the first step must be harmless over what was already made.
* *Reads are stale.* After AlreadyExists an object is read from a cache that may not have
  it, or has an old version. The update then has to fail or be repaired later.
* *Nothing watches children.* What the collector takes from an interface re-created under
  its name, or from an MQTTTrigger that shares another one's resources, comes back only
  with the ten-hourly resync. Convergence without and with resync are different claims.
* *Ordering of the installation.* Missing Broker, exchange, queue or secret is met with
  panics and errors that must all lead to retries.
* *Two controllers, one installation.* The interface controller reads what the EventStore
  controller and Knative are still making, and must neither take a half-made event store
  for a whole one nor stop retrying.
* *Names are joined from names.* Binding names with dashes, event types with dots, both of
  which the parts may contain; a name that is taken is silently taken for one's own.
* *Pointers outlive entries.* A vertex of a graph is first made by an edge that names it,
  added later, removed while others point to it; the server's graph is replaced while
  requests read it.
* *Shared names.* Six dispatcher resources per namespace, and `<name>` for three kinds of
  store, are written by several owners.

## 2. The modules

### TwinInterfaceController (with MCTwinInterface, TwinInterfaceController_proofs)

Reconcile is a process with one action per call on the API server or a cache, in the
order of the code:

| Actions | Code of `twininterface_controller.go` |
|---|---|
| `StartReconcile` | Get of the TwinInterface, early return when it is gone |
| `ReadBroker`, `ReadEventStore` | Get of Broker and event store, either of which may fail and is then noted; GetService, where a Broker without address panics (`GetService`) |
| `CreateService`, `CompareService`, `UpdateService` | Create, or Get, CompareTwinService and Update |
| `CreateTrigger`, `CreateBinding` | trigger, and one iteration of each loop over bindings |
| `ReadEventStoreQueue`, `ReadExchange`, `ReadInterfaceQueue` | the Lists between the loops, with their returns, panics and noted errors |
| `Finish` | the first noted error is returned, or phase and label are written with Update |

`rec` holds the local variables: the step, the key, the object as it was read, the
bindings the loop still has to create, whether an error was noted, and what was read from
Broker, event store, service and queue. `resultErrors` is abstracted to whether it is
empty, since only that and the return of an error matter to the queue.

The surroundings are actions too: `SyncTwinInterface` and `SyncKService` (informers; one
step may skip versions), `BackoffExpires`, `Resync`, `Restart`, `Collect`, `QueueAppears`
and `QueueVanishes`, `InfraProgress`, and the users. Three facts about the API server
matter and are modelled: an Update is refused unless it carries the stored version; the
status is a subresource, so a plain Update does not change it; an Update that changes
nothing makes no new version and so no event.

Data is abstracted. A template is a name; the constant `Autoscaled` says which templates
have auto-scaling settings and `Compared` what of a template CompareTwinService looks at,
so that templates can differ without its noticing. Without auto-scaling the comparison
never succeeds: the new service carries an empty map of annotations and the stored one
nil. A Knative service is its version, its template and whether it has the event store's
URL; a binding is its name, its owner, and whether its destination is empty. Loops over
bindings pick any order. Of the labels of a TwinInterface the model has the one the controller
sets. The code replaces the whole map (`twininterface_controller.go:224-226`) and so drops
labels the user has put there; nothing reads those, and a user who writes them back, which
makes a new version, is part of `UserEdits`.

### MqttTriggerController (with MCMqttTrigger, MqttTriggerController_proofs)

Reconcile of one MQTTTrigger: `ReadSecret`, `ListExchanges`, `ApplyResource` for each entry
of `Plan` (the constant; `AllResources` is the order of the code), then `ReportReady` or
`ReportError`. The resources belong to the namespace, not to the trigger: all
MQTTTriggers apply the same ones, and each belongs to the MQTTTrigger that created it.
`SyncResource` queues no key: the controller declares `Owns`, but its owner references
lack `controller: true`, which `Owns` looks for. A resource is its owner, its version and
the version of the secret whose credentials it carries. Versions of objects are only
compared for equality with the few copies that exist, so a "new" version is one that no
copy has.

### StoreControllers (with MCStoreControllers, StoreControllers_proofs)

The three store controllers have the same Reconcile with three differences, which are
operators of the module: the HistoricalDataStore checks a secret first (`ReadSecret`), the
Visualisation has a default timeout where the others dereference nil (`Buildable`), and its
trigger takes over annotations only (`Merge`). Three workers run at once on the same
children, keyed by part and name, so that stores of different kinds and one name meet.

In MqttTriggerController and StoreControllers the Get before an Update is part of the Update's action. It reads
a cache that may lag as far as it likes and nothing else depends on the cache's progress,
so that an earlier Get reads nothing that a later one on a slower cache would not.

### Routing (with MCRouting, Routing_proofs)

Who gets which event. The bindings of an interface, as functions of its name and spec: their
names, exchanges, keys or filters, and queues (`MqttDispatcherBindings`,
`EventStoreBindings`, `RelationshipBindings`, `CommandBindings`), by their positions in the
loops that make them. Names are sequences of tokens over any alphabet with dash and dot in
it or not, `Lower` turns tokens to lower case, and joining is concatenation; the names of
interfaces themselves are lower-case, as the API server demands of every object. A
reconciliation is one step here: `Create` is one whole loop, in which the first binding with
a new name takes it and what has the name already stays. What can happen inside a
reconciliation is the subject of TwinInterfaceController, which in turn takes names to be
distinct. Filters whose key begins with "x-" do not count for a headers exchange, so a
filter is its type. The binding that Knative makes for an interface's own trigger is not
part of the model: it is not the operator's.

### Operator (with MCOperator, Operator_proofs)

TwinInterfaceController and StoreControllers, with one EventStore, in one process: both
modules are instances, their actions interleave, and `Restart` hits both. `InfraProgress` is
replaced: the event store's service and trigger are those of StoreControllers, Knative
gives them URL and queue (`SeesEventStore`), and the broker is installed at some time. Edits,
deletions and resyncs are left to the runs of the single controllers. This module
*implements* TwinInterfaceController (`ImplementsTwinInterface`, with `InitialInfra` an empty
installation): what that module assumes of the installation is what the other controller
does.

### TwinGraph, TwinGraphClients (with SimpleGraph, SnapshotServer, MCTwinGraph, TwinGraph_proofs, TwinGraphClients_proofs)

`TwinGraph` has the operations of `pkg/graph` as operators on a graph record: the counter,
the map from names to vertices, and the vertices, objects that other vertices' edge lists
point to by index and that outlive their map entry. The package has the code twice, for
instances and interfaces; the bodies are the same. A slice that is shortened without
assigning the result is modelled by what is then in memory (`RemoveIndexInPlace`).

`TwinGraphClients` has both uses. On a graph of interfaces all operations are called in any
order. The server gets lists of instances: `StartUpdate`, `AddInstance`, `StartEdges`,
`FollowRelationship`, `NextInstance` and `Publish` are the steps of `UpdateGraphFunc`, one for
each iteration of its loops; `TakeGraph` and `Respond` are those of a request. What a graph
built from a list should be (`Describes`) is said by positions: the edges of a vertex are
one for one, and in order, the relationships of the instances of its name.

There are two abstract specifications, each shown to be implemented through a refinement
mapping. `SimpleGraph` (`IsSimpleGraph`) is a set of nodes, the twins added, and a relation;
it says nothing of pointers, order or multiplicity, and only that RemoveEdge touches no
other link, since the code does not always remove its own. `SnapshotServer` (`ServesSnapshots`) is a
server with one document that changes in one step, and requests that get the document
there was when they came.

## 3. Runs

Deadlock is not checked: when users and faults have used up their bounds and everything
has settled, the system rests, except for resyncs. All counters are bounded by the
`Max...` constants: `MaxEdits` (`MaxCreates`), `MaxDeletes`, `MaxFaults` (failed API calls
and restarts together), `MaxRotations` (versions of the secret). Everything else is finite
by itself. Safety runs use `Spec`; liveness runs use a specification with fairness.

| Run | Instance | Shows |
|---|---|---|
| edits | one interface, three writes of every kind of spec, one fault | types, no work forgotten, the service follows the template, the label arrives, and never over an incomplete interface, no edit overwritten |
| recreate | two creations, one deletion, a service | no work forgotten through re-creation under one name; no label over an interface whose children are missing; no child of a dead owner stays; with resync, everything the living need comes back |
| repair | three templates, the event store missing at first | with resync, comparisons on stale copies are repaired, and a plain service made before the event store had a URL gets the URL |
| mqtt_served | one MQTTTrigger, re-created, with two resources; secret and exchange missing at first, the secret rotates, one fault | an MQTTTrigger is left alone only when Ready and nothing is skipped but what the collector took; Ready only over current credentials, and none replaced by older ones; an update leaves the old one's resources to the collector; retries alone make it Ready; with resync, rotated credentials arrive, and resources collected with their owner come back |
| mqtt_shared | two MQTTTriggers on one deployment, one of them deleted or created again, one fault, broker up | neither left alone before it is Ready, and both Ready by retries alone, over a deployment that is there unless it was taken; with resync, a deployment that was taken from the one that is left, because it was the other's, comes back, and goes for good with the last of them |
| stores_served | one HistoricalDataStore, edited and re-created, with or without timeout and secret, one fault | a store the controller is done with has service and trigger as its latest spec says; retries alone serve what can be built, unless the collector took it; the resync restores that too |
| stores_shared_name | an EventStore and a Visualisation of one name | the service they both write has the latest spec of one of them, no old one |
| operator | one interface with a service and a command, one EventStore, broker installed at any time, one failed call or restart in each controller | the installation changes as TwinInterfaceController assumes; the event store completes, and with it the interface, by retries alone; no label before there is an event store |
| routing | interfaces a, a-b, a.b, c; specs with dashed, dotted and capital names, retargeted relationships, no service; three writes | the only bindings lost are to names held by a redirected relationship or command of one's own, or by an interface that can be mistaken for one; nobody is bound to events it never asked for, but for commands of one type |
| graph | five calls on three twins, two versions of one among them; two updates, two handlers, four lists with cycles, double edges, double names and missing targets | the two refinements; an edge dangles only between names whose edge was there more than once; the server's graph is always all of one list |

Why the bounds are enough. The hazards need one earlier object and one later (two
creations), one edit during a reconciliation and one after it (three writes in `edits`),
a template that goes away and comes back while a cache sleeps (three writes in `repair`),
one fault at an arbitrary point, and two writers for what is shared. `recreate` and `repair`
have no fault: with one, their liveness takes TLC longer than a run should (`repair` about
five minutes), and EventuallyRepaired is therefore not what shows recovery from a restart;
NeverForgotten and ServiceUpToDate in `edits` are. `mqtt_shared` has one resource, no
rotation and a broker that is up for the same reason: `mqtt_served` has all of that, with one MQTTTrigger. `edits` has
relationships, commands and all comparison cases. Runs with deletion or liveness use
smaller specs, because each binding multiplies the interleavings without adding a new kind
of step. `operator` has one interface: with two its states are too many. In `routing` the names
are chosen to clash: a-b and a.b against a with relationship b-c or command b.c, the
shortest clashes there are. Two objects under one name, an edge to each, and a call to
repair or spoil them fit into the five calls of `graph`; two updates and two handlers show
every overlap of two of them. Two resources, one that carries credentials and one that does not, stand for
the six of an MQTTTrigger, and where two MQTTTriggers meet the deployment alone: `Plan` is a parameter of the module and its loop treats all
entries alike.

Two runs end in a violation of what a comment or a type of the code says (see "findings" in
PROJECT.json):

* unrouted: the event store's binding is made with an empty destination when the event
  store's queue is not there yet, and AlreadyExists keeps it.
* stores_timeout: an EventStore without the optional timeout is never served.

More disagreements and oddities show in the models and have no run:

* An interface can lose bindings to another's: interface a with relationship b-c, and
  interface a-b with relationship c, have one name for two bindings, and only the first is
  created. The one that comes second gets no aggregated data, although its relationship says
  "Indicate if the data must be aggregated in the relationship parent"
  (`twininterface_types.go:147`). Likewise, interfaces a and a.b with commands b.c and c get each
  other's commands. And a binding keeps its name's first content: a relationship that is
  retargeted stays bound to the old target only. `routing` has all three, and shows that nothing is
  lost or sent astray in any other way (`Apart`, `Redirected`).
* `RemoveEdge` drops the shortened slice: the list keeps its length and ends with its last
  edge twice; an edge that was last, or there twice, stays. RemoveVertex
  takes an edge out once, so that one that is there twice goes on leading to an object outside
  the graph. `NoDanglingEdge` says that this is the only way to such an edge.
* `NumberOfVertex` counts edges as well (`TwinInstanceGraph.go:146`); nothing reads it.
* With two updates of the graph server at a time the older list may be published last. The
  server's pointer is written and read without synchronisation; the model takes writes to
  be seen in order, which amd64 gives and the language does not.
* The event store's trigger filters on "twinscale.event-store", the bindings to its queue on
  "twinscale.eventstore.<interface>": it takes both.
* The phase Running never reaches the API server: `Finish` writes it with a plain Update,
  which leaves the status subresource alone, so `status` stays empty.
* `CompareTwinService` does not see a changed environment (the event store's URL), and
  without auto-scaling settings calls equal services different.
* An MQTTTrigger stays Ready after its shared resources were collected with another
  MQTTTrigger: `Owns` maps deletions through owner references with `controller: true`, and
  these have none (`SyncResource`).
* Two stores of different kinds and one name overwrite each other's service at
  every resync; `stores_shared_name` shows only that each write is a current one.

### Fairness

`Fairness` asks weak fairness of the running reconciliation, of delays, watches, the
collector, Knative's queues and the installation: each of them goes on by itself in the
real system. `StartReconcile` gets strong fairness: the worker is idle only now and then,
but the work queue is first-in first-out and has one worker, so a key that is queued again
and again is taken. That the installation (Broker, exchange, secret) comes up is an
assumption about the cluster, not about the code. Users, faults, rotations and restarts are
under no obligation. `ResyncSpec`, or a premise of the property, adds that resyncs keep
happening (controller-runtime's default SyncPeriod of ten hours); only the properties that
need it assume it, and `operator`, EventuallyReady of the `mqtt` runs and EventuallyServed of `stores_served` show
what retries do alone. (In these runs the specification is FairSpec, and EventuallyServed
of MQTTTriggers and EventuallyRepaired of stores have the resync's fairness as their premise,
so that one run asks both questions.) `Operator` asks the
fairness of its two controllers action by action, for their own variables.

## 4. Proofs

Every invariant, the action properties and the three refinements are proved for every value
of the constants: any number of interfaces, stores, triggers, names, lists and goroutines,
and all bounds. The assumptions are the `ASSUME`s of the modules; TLC evaluates them in every
run. In each component's proofs `Invariance` is the theorem Spec => []IInv with the inductive invariant,
from which the others follow; the proof that a step preserves it goes conjunct by conjunct,
with one lemma for each and one step for each action. TLC found
every invariant to hold on instances of the runs before it was proved. `PROJECT.json` lists the theorems.

### TwinInterfaceController_proofs

| Theorem | States |
|---|---|
| `TypeCorrect` | []TypeOK |
| `EditsSurvive` | NoLostEdit |
| `NothingForgotten` | []NeverForgotten |
| `ServiceFollowsSpec` | []ServiceUpToDate |
| `LabelStays` | LabelledWhenSettled |
| `LabelIsTrue` | LabelledMeansComplete |

NeverForgotten is not inductive: it speaks of settled interfaces only, and says nothing of
how one gets there. IInv adds `VersionsInv`: a stored, cached or held copy of a live
interface that has its resource version has its spec, so that the Update of the whole object
either is refused or writes the spec that is there, which is NoLostEdit. `SnapshotInv` says
that the running reconciliation either works on what the cache holds, or its key is queued
again; `ProgressInv` that, unless an error was noted or the snapshot is no longer what is
stored (`OnCourse`), every child of the snapshot before the current step, or already out of the loop's todo set, is there or was taken by the
collector, and that the service has the wanted template once past its step. Both are
preserved by each action, and `Finish` without error turns them into the two properties.
LabelledWhenSettled needs the answer to the last update, which the code ignores: as long as no
call has failed, the update is refused only because the interface has changed since it was
read, and then its key is queued (`FinishLabels`). LabelledMeansComplete speaks of the step that
sets a label, also when the key has been queued again meanwhile: an Update that is not refused
is of the stored object (`LabelledByFinish`), so the reconciliation was on course to its end.

The constants: NONE is no other name, `Specs` and `InitialInfra` are sets of values of their
types, `Autoscaled` and `Compared` are about `Templates`.

### MqttTriggerController_proofs

| Theorem | States |
|---|---|
| `TypeCorrect` | []TypeOK |
| `AllApplied` | []NothingSkipped |
| `ReadyWhenSettled` | []SettledReady |
| `CredentialsOrder` | [](ResourceCopyInv /\ CredentialsInv) |
| `ReadyIsApplied` | ReadyMeansApplied |
| `CredentialsGrow` | CredentialsNeverOlder |
| `NobodyAdopts` | OwnersStay |

The versions of this module are reused: a new version is one that no copy has. That a copy with the
stored version is the stored object (`Copy`) is therefore an invariant of its own, and rests
on `PresenceInv`: only the absent object has version 0. `SnapshotInv` is as above. `ProgressInv`
ties the place in the loop to the plan: every resource before `rec.next` is there or was
taken, and at the report that is all of them. `SettledInv` is what the report leaves behind:
both properties, for each MQTTTrigger. It survives the reconciliations of other
MQTTTriggers, which write the same resources, because they only make or update them. The
plan is any sequence that is not empty; nothing is assumed of its order or of repetitions.

The action properties rest on a second invariant. `ResourceCopyInv` is `Copy` for resources: an
update that is not refused writes the stored resource with new credentials, and so its
owner stays. `CredentialsInv` orders versions of the secret: no deployment has newer ones than
the running reconciliation has read, and that one none newer than the secret that is there, so
what it writes is never older than what it replaces; and what it has applied carries what
it has read. Both halves are needed: a cached copy that could pass for the stored resource would
bring back its old owner, and a reconciliation that went on without the secret old credentials.

### StoreControllers_proofs

| Theorem | States |
|---|---|
| `TypeCorrect` | []TypeOK |
| `Served` | []ServedWhenSettled |
| `OneOwner` | []ServiceOfOne |

Three workers write the same children. `SpecInv` and `SnapshotInv` say what each worker holds.
`OriginInv`: a child has the layout of the kind of some store of its name. `PartInv` is the
heart: a part that is done with (by the worker that is past it, or by one that has finished)
is there or taken, and as long as it has the layout of the store's own kind it holds what
the spec says, whichever other kind writes between. For a store alone with its name this is
ServedWhenSettled, as `OriginInv` leaves no other layout; for stores that share a name it
gives ServiceOfOne: the last writer's layout is of one of them, and is current. Two stores of one
kind and one name are one object to the API server, which `StoresAssumption` says.

### Routing_proofs

| Theorem | States |
|---|---|
| `TypeCorrect` | []TypeOK |
| `AllBound` | []NothingLost |
| `NobodyElse` | []NothingElse |

The invariant is short: `PastInv` (the spec an interface has is among those it has had),
`OriginInv` (every binding was asked for, under its name, by such a spec), `BoundInv` (all
names an interface asks for are taken once it is reconciled). The work is in the names.
`Joined` is about sequences: if i - x and j - y are the same and neither of i and j, followed by
the separator, begins the other, then i = j and x = y. From it follows that two bindings of
one name are of one interface if the two are apart (`OneInterface`), and that two of one
interface bind the same unless it redirected what they are for (`OneContent`); so whoever
holds a name for another content is one of the two exceptions of NothingLost. For NothingElse, `CommandTells` and `RestTells` read interface and
command back from an event type. Lists of relationships and commands are of any length, names
of any length and alphabet.

### Operator_proofs

| Theorem | States |
|---|---|
| `ImplementsStores` | ES!Spec |
| `ImplementsInterfaces` | ImplementsTwinInterface |
| `InterfaceInvariance` | the IInv of TwinInterfaceController_proofs |
| `LabelAfterEventStore` | LabelledAfterEventStore |

The theorems of the two controllers are used through instances of their proof modules (`TP`,
`EP`): their assumptions are proved from those of Operator, and their invariants then hold in
the composition. The refinement needs `InfraInv`, that what the interface controller has
seen of the event store is there, and that it does not go again (`ChildrenStay`): the store
is never deleted, so that every `SeesEventStore` is an `InfraProgress` of
TwinInterfaceController, and every step of the EventStore controller a stutter.
LabelledAfterEventStore needs one fact more, of the time between reading the event store and
writing the label: `FoundInv`, a reconciliation that is past the event store without an error,
of an interface with a service, has found the store's service.

### TwinGraph_proofs and TwinGraphClients_proofs

| Theorem | States |
|---|---|
| `TypeCorrect` | []TypeOK |
| `NoneDangling` | []NoDanglingEdge |
| `Complete` | []PublishedComplete |
| `ImplementsSimpleGraph` | IsSimpleGraph |
| `ImplementsSnapshots` | ServesSnapshots |

`TwinGraph_proofs` says of each operation, for every graph, what it does to the map, the
processed twins and the links, that the result is a graph, and which pairs of names are
`Dangling` afterwards: none new, but for RemoveVertex, which takes one edge out of each list
and so leaves an edge only where the list had it more than once (`Repeated`).

In `TwinGraphClients_proofs` `SimpleInv` adds to NoDanglingEdge that the history `repeated`
has every edge that is there more than once now, which is what RemoveVertex will leave. `ServerInv` is what makes the server right without a lock: each update that runs
has a graph of its own, which is not published, which no request reads and no other update
builds, and which so far has all vertices of the part of its list it has been through, then,
in order, the edges of all relationships before its position. PublishedComplete is
preserved because `Publish` comes at the end of both loops and nobody writes to a published
graph. For the refinements, each call is a step of SimpleGraph or changes nothing that it
sees; `Publish`, `TakeGraph` and `Respond` are the steps of SnapshotServer, and all others
stutter, since the graphs in use are not touched. Lists of twins and their relationships are
finite sequences, and NONE is neither a twin nor a document.

### Only model-checked

Liveness: NothingLeftBehind, EventuallyRepaired, EventuallyAddressed, EventuallyReady,
EventuallyServed, InstallationCompletes and EventuallyComplete. They rest on fairness, and
so on ENABLED, which is beyond the prover. The two runs that end in a violation are
counterexamples and need no proof.

## 5. Not modelled

* The layout of containers, ports, environments, labels and annotations, beyond what a
  property tells apart; generated deep copies; logging; metrics.
* Leftovers of an edit: the code never updates or deletes triggers and bindings; nothing
  says it should, so the models keep them, and NothingElse of Routing speaks of all an interface
  has ever asked for.
* The TwinInstance controller (it does nothing), GetBrokerBindings of HistoricalDataStore and
  Visualisation and the event types of theirs (nothing calls them), the flags, certificates
  and health checks of `cmd/main.go`, manifests, scripts and tests.
* The dispatchers, which take events from the queues and are not in the repository.
* The same number of workers per controller is assumed everywhere: one, the default.
* Status changes of Knative services by Knative itself; they would only make updates
  conflict more often, which a failed call stands for.
* An edit that is undone before the informer sees either version: it queues a key in the
  real system and does not in the models, where a resync may do so at any time.

## 6. Plan

Done: the core controller, the two other families of controllers, the composition of two
controllers, routing, and the twin graph with its server. Of the operator's own logic nothing
is left unmodelled. Every safety property, action property and refinement that a passing run
checks is proved. What could follow:

1. Abstract specifications of the MQTTTrigger and store controllers, a child that is made,
   follows its owner's spec and goes with it, with the controllers shown to implement them.
2. More of the safety parts of the liveness properties, as LabelledMeansComplete and
   ReadyMeansApplied are: what a step of the collector, a cache or a worker may not undo, so that
   TLC's liveness on small instances rests on proved steps.
3. Operator with a second interface, which its proofs already cover but no run reaches, and
   with edits and deletions of the event store.
