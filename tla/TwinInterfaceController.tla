----------------------- MODULE TwinInterfaceController -----------------------
(***************************************************************************)
(* The TwinInterface controller of the operator, with the parts of its     *)
(* surroundings that it depends on: the API server, the informer caches it *)
(* reads from, the work queue that feeds it, the garbage collector that    *)
(* deletes what it created, and the users who create, edit and delete      *)
(* TwinInterfaces.                                                         *)
(*                                                                         *)
(* One worker runs Reconcile, so a reconciliation is one process; each     *)
(* call it makes on the API server or on a cache is a step, and anything   *)
(* in the surroundings can happen between two of them.                     *)
(*                                                                         *)
(* A child object of a TwinInterface is named by a triple: the interface,  *)
(* the relationship or command it is for (NONE if it is for the interface  *)
(* itself), and the suffix of its name, which tells what it is.            *)
(***************************************************************************)
EXTENDS Integers, FiniteSets

CONSTANTS
    Ifaces,        \* names of TwinInterface resources
    Rels,          \* names of relationships
    Cmds,          \* names of commands
    Templates,     \* what a Spec.Service can ask for
    Autoscaled,    \* the templates with auto-scaling settings
    Compared,      \* what of each template CompareTwinService looks at: the auto-scaling
                   \* settings, the number, images and resources of the containers
    NONE,          \* the absent value
    Specs,         \* the specs a user writes
    InitialInfra,  \* what of the installation is in place when the operator starts
    MaxEdits,      \* bound on the creations and edits of TwinInterfaces
    MaxDeletes,    \* bound on their deletions
    MaxFaults      \* bound on failed API calls and operator restarts

\* The part of a TwinInterface spec the controller acts on: the service template, the
\* relationships whose AggregateData is set (the others create nothing), the commands.
SpecType == [service: Templates \union {NONE}, rels: SUBSET Rels, cmds: SUBSET Cmds]

\* What the installation provides: a Broker with an address, the event store's Knative
\* service (created, and with a URL), the event store's queue, the broker's exchange.
InfraType == [broker: BOOLEAN, eventStore: {"absent", "starting", "ready"},
              esQueue: BOOLEAN, exchange: BOOLEAN]

ASSUME NoneAssumption == NONE \notin Ifaces \union Rels \union Cmds \union Templates
ASSUME TemplatesAssumption == Autoscaled \subseteq Templates /\ DOMAIN Compared = Templates
ASSUME SpecsAssumption == Specs \subseteq SpecType
ASSUME InfraAssumption == InitialInfra \subseteq InfraType
ASSUME BoundsAssumption == MaxEdits \in Nat /\ MaxDeletes \in Nat /\ MaxFaults \in Nat

VARIABLES
    twinInterfaces, \* API server: the TwinInterfaces
    children,       \* API server: UID of the owner of each child object, Absent if none
    kservices,      \* API server: content of the Knative services among the children
    unrouted,       \* API server: the bindings created with an empty destination
    revision,       \* API server: the last UID and resource version of a TwinInterface
    crCache,        \* informer cache of twinInterfaces
    kCache,         \* informer cache of kservices
    queueSeen,      \* informer cache: interfaces whose trigger's queue is listed
    infra,          \* informer cache: what the installation provides
    dirty,          \* work queue: keys waiting for the worker
    backoff,        \* work queue: keys waiting for their retry delay
    rec,            \* the running reconciliation: its local variables
    edits, deletes, faults,   \* counters for the bounds
    lost,           \* history: children the collector took from an interface that is alive
    misjudged       \* history: interfaces whose service was compared on a stale copy

apiVars == <<twinInterfaces, children, kservices, unrouted, revision>>
cacheVars == <<crCache, kCache, queueSeen, infra>>
queueVars == <<dirty, backoff>>
countVars == <<edits, deletes, faults>>
historyVars == <<lost, misjudged>>
vars == <<apiVars, cacheVars, queueVars, rec, countVars, historyVars>>

-----------------------------------------------------------------------------
(* Objects *)

Absent == -1    \* no such child
Unowned == 0    \* a child without owner reference; UIDs start at 1

NoSpec == [service |-> NONE, rels |-> {}, cmds |-> {}]
NotFound == [uid |-> 0, rv |-> 0, spec |-> NoSpec, labelled |-> FALSE, status |-> ""]
Live(i) == twinInterfaces[i] # NotFound

\* labelled: its Labels are the map the controller writes in place of the user's own.
CRType == [uid: Nat, rv: Nat, spec: SpecType, labelled: BOOLEAN,
           status: {"", "Running", "Failed"}]

NoKService == [rv |-> 0, tmpl |-> NONE, esUrl |-> FALSE]
KServiceType == [rv: Nat, tmpl: Templates \union {NONE}, esUrl: BOOLEAN]

Suffixes == {"service", "trigger", "event-store", "real-mqtt-dispatcher",
             "real-dispatcher", "command-dispatcher"}
Names == Ifaces \X (Rels \union Cmds \union {NONE}) \X Suffixes

Service(i) == <<i, NONE, "service">>
Trigger(i) == <<i, NONE, "trigger">>
MqttBindings(i, s) ==
    {<<i, p, "real-mqtt-dispatcher">> : p \in s.rels \union {NONE}}
EventStoreBinding(i) == <<i, NONE, "event-store">>
RelationshipBindings(i, s) == {<<i, r, "real-dispatcher">> : r \in s.rels}
CommandBindings(i, s) == {<<i, c, "command-dispatcher">> : c \in s.cmds}
Dispatchers(i, s) == RelationshipBindings(i, s) \union CommandBindings(i, s)

\* Everything a reconciliation of interface i with spec s is there to create.
Desired(i, s) ==
    MqttBindings(i, s) \union {EventStoreBinding(i)}
      \union IF s.service = NONE THEN {}
             ELSE {Service(i), Trigger(i)} \union Dispatchers(i, s)

\* The owner reference every child carries: the UID of the TwinInterface as it was read.
OwnerReference_Missing(obj) == Unowned
OwnerReference(obj) == obj.uid

-----------------------------------------------------------------------------
(* The work queue and the running reconciliation *)

Idle == [pc |-> "idle", key |-> NONE, obj |-> NotFound, todo |-> {}, errs |-> FALSE,
         broker |-> FALSE, esUrl |-> FALSE, svcRv |-> 0, queue |-> FALSE]

Steps == {"broker", "eventstore", "service", "compare", "update", "trigger",
          "mqtt", "exchange", "es-binding", "dispatch", "finish"}

\* The local variables of a reconciliation under way: the step it is about to take, the
\* key, the object as it was read, the bindings the current loop still has to create,
\* whether resultErrors is non-empty, whether the Broker read has an address, whether the
\* event store read has a URL, the version of the service read, whether the Queue read
\* is not the empty one.
RunningType == [pc: Steps, key: Ifaces, obj: CRType, todo: SUBSET Names, errs: BOOLEAN,
                broker: BOOLEAN, esUrl: BOOLEAN, svcRv: Nat, queue: BOOLEAN]
RecType == {Idle} \union RunningType

\* The reconciliation is about to take step p.
At(p) == rec.pc = p
Goto(p) == rec' = [rec EXCEPT !.pc = p]
GotoWithError(p) == rec' = [rec EXCEPT !.pc = p, !.errs = TRUE]

Fail_KeyAlreadyCleared == /\ rec' = Idle
                          /\ backoff' = backoff \union {Idle.key}
                          /\ UNCHANGED dirty

\* Reconcile returns an error, or panics and controller-runtime recovers: the key is
\* put back after a delay.
Fail == /\ rec' = Idle
        /\ backoff' = backoff \union {rec.key}
        /\ UNCHANGED dirty

ApiError == faults < MaxFaults /\ faults' = faults + 1
ApiAnswers == UNCHANGED faults

\* The worker takes key i and reads the TwinInterface from the cache.
StartReconcile(i) ==
    /\ At("idle") /\ i \in dirty
    /\ dirty' = dirty \ {i}
    /\ \/ /\ ApiError
          /\ backoff' = backoff \union {i}
          /\ UNCHANGED rec
       \/ /\ ApiAnswers
          /\ rec' = IF crCache[i] = NotFound THEN rec
                    ELSE LET s == crCache[i].spec
                             begin == [Idle EXCEPT !.key = i, !.obj = crCache[i]]
                         IN  IF s.service # NONE THEN [begin EXCEPT !.pc = "broker"]
                             ELSE [begin EXCEPT !.pc = "mqtt", !.todo = MqttBindings(i, s)]
          /\ UNCHANGED backoff
    /\ UNCHANGED <<apiVars, cacheVars, edits, deletes, historyVars>>

\* A Get that fails leaves an empty Broker behind, as does one that finds none. Either is
\* an error that is noted.
ReadBroker ==
    /\ At("broker")
    /\ \/ /\ ApiError
          /\ GotoWithError("eventstore")
       \/ /\ ApiAnswers
          /\ rec' = [rec EXCEPT !.pc = "eventstore", !.errs = @ \/ ~infra.broker,
                                !.broker = infra.broker]
    /\ UNCHANGED <<apiVars, cacheVars, queueVars, edits, deletes, historyVars>>

\* GetService, with what was read of the event store: it dereferences the Broker's
\* address, so an unaddressed Broker is a panic; a service that was not found is an error
\* that is noted, and one without URL gives an empty variable.
GetService(eventStore) ==
    IF rec.broker
    THEN /\ rec' = [rec EXCEPT !.pc = "service", !.broker = FALSE,
                               !.errs = @ \/ eventStore = "absent",
                               !.esUrl = eventStore = "ready"]
         /\ UNCHANGED queueVars
    ELSE Fail

\* Reads the event store's service, then builds the twin's own. A Get that fails leaves
\* an empty service and an error, as does one that finds none.
ReadEventStore ==
    /\ At("eventstore")
    /\ \/ ApiError /\ GetService("absent")
       \/ ApiAnswers /\ GetService(infra.eventStore)
    /\ UNCHANGED <<apiVars, cacheVars, edits, deletes, historyVars>>

\* A resource version of a service is only ever compared with the one a cached copy or
\* the reconciliation holds, so one that neither holds stands for a new one.
NewVersion == CHOOSE v \in {1, 2, 3, 4} :
                  v \notin {kservices[rec.key].rv, kCache[rec.key].rv, rec.svcRv}

\* The service as GetService builds it.
NewKService == [rv |-> NewVersion, tmpl |-> rec.obj.spec.service, esUrl |-> rec.esUrl]

CreateService ==
    /\ At("service")
    /\ LET c == Service(rec.key) IN
       \/ /\ ApiError
          /\ GotoWithError("trigger")
          /\ UNCHANGED <<apiVars, historyVars>>
       \/ /\ ApiAnswers /\ children[c] = Absent
          /\ children' = [children EXCEPT ![c] = OwnerReference(rec.obj)]
          /\ kservices' = [kservices EXCEPT ![rec.key] = NewKService]
          /\ lost' = lost \ {c}
          /\ misjudged' = misjudged \ {rec.key}
          /\ Goto("trigger")
          /\ UNCHANGED <<twinInterfaces, unrouted, revision>>
       \/ /\ ApiAnswers /\ children[c] # Absent
          /\ Goto("compare")
          /\ UNCHANGED <<apiVars, historyVars>>
    /\ UNCHANGED <<cacheVars, queueVars, edits, deletes>>

\* CompareTwinService looks at a part of what comes from the template, and not at the
\* environment it adds. Without auto-scaling settings the new service has an empty map of
\* annotations where a stored one has nil, so that the two are never equal.
CompareTwinService_AlwaysEqual(current, new) == TRUE
CompareTwinService_NilIsEmpty(current, new) == Compared[current.tmpl] = Compared[new.tmpl]
CompareTwinService(current, new) ==
    new.tmpl \in Autoscaled /\ Compared[current.tmpl] = Compared[new.tmpl]

\* The service exists: read it from the cache and compare it with the new one. A Get that
\* fails, or finds none, ends the reconciliation.
CompareService_ReturnsIfEqual ==
    /\ At("compare")
    /\ LET current == kCache[rec.key] IN
       \/ /\ ApiError \/ (ApiAnswers /\ current = NoKService)
          /\ Fail
       \/ /\ ApiAnswers /\ current # NoKService
          /\ rec' = IF CompareTwinService(current, NewKService) THEN Idle
                    ELSE [rec EXCEPT !.pc = "update", !.svcRv = current.rv]
          /\ UNCHANGED queueVars
    /\ UNCHANGED <<apiVars, cacheVars, edits, deletes, historyVars>>

CompareService ==
    /\ At("compare")
    /\ LET current == kCache[rec.key] IN
       \/ /\ ApiError \/ (ApiAnswers /\ current = NoKService)
          /\ Fail
          /\ UNCHANGED misjudged
       \/ /\ ApiAnswers /\ current # NoKService
          /\ rec' = IF CompareTwinService(current, NewKService)
                    THEN [rec EXCEPT !.pc = "trigger"]
                    ELSE [rec EXCEPT !.pc = "update", !.svcRv = current.rv]
          /\ misjudged' = IF current = kservices[rec.key]
                          THEN misjudged \ {rec.key}
                          ELSE misjudged \union {rec.key}
          /\ UNCHANGED queueVars
    /\ UNCHANGED <<apiVars, cacheVars, edits, deletes, lost>>

\* Update of the cached copy with the merged specification; the API server refuses it
\* unless the copy has the stored resource version, and gives a new version only to new
\* content. The owner reference is kept.
SameContent(current, new) == current.tmpl = new.tmpl /\ current.esUrl = new.esUrl
UpdateService ==
    /\ At("update")
    /\ \/ /\ ApiAnswers /\ kservices[rec.key].rv = rec.svcRv
          /\ kservices' = IF SameContent(kservices[rec.key], NewKService) THEN kservices
                          ELSE [kservices EXCEPT ![rec.key] = NewKService]
          /\ rec' = [rec EXCEPT !.pc = "trigger", !.svcRv = 0]
       \/ /\ \/ ApiAnswers /\ kservices[rec.key].rv # rec.svcRv
             \/ ApiError
          /\ rec' = [rec EXCEPT !.pc = "trigger", !.svcRv = 0, !.errs = TRUE]
          /\ UNCHANGED kservices
    /\ UNCHANGED <<twinInterfaces, children, unrouted, revision, cacheVars, queueVars,
                   edits, deletes, historyVars>>

\* Create child c, or find that it is there (AlreadyExists, whoever owns it).
Create(c) ==
    /\ children' = IF children[c] = Absent
                   THEN [children EXCEPT ![c] = OwnerReference(rec.obj)]
                   ELSE children
    /\ lost' = lost \ {c}

CreateTrigger ==
    /\ At("trigger")
    /\ LET next == [rec EXCEPT !.pc = "mqtt", !.esUrl = FALSE,
                               !.todo = MqttBindings(rec.key, rec.obj.spec)] IN
       \/ /\ ApiError
          /\ rec' = [next EXCEPT !.errs = TRUE]
          /\ UNCHANGED <<children, lost>>
       \/ /\ ApiAnswers
          /\ Create(Trigger(rec.key))
          /\ rec' = next
    /\ UNCHANGED <<twinInterfaces, kservices, unrouted, revision, cacheVars, queueVars,
                   edits, deletes, misjudged>>

\* What a loop over bindings still has to do after binding c.
RestOfLoop_StopsAtExisting(c) == IF children[c] = Absent THEN rec.todo \ {c} ELSE {}
RestOfLoop(c) == rec.todo \ {c}

\* One Create call of the four loops over bindings; an error is noted and the loop goes
\* on. A binding's destination is empty if it was built from an empty Queue.
CreateBinding(c) ==
    /\ rec.pc \in {"mqtt", "es-binding", "dispatch"} /\ c \in rec.todo
    /\ LET next == [rec EXCEPT !.todo = RestOfLoop(c)]
           empty == At("es-binding") /\ ~rec.queue IN
       \/ /\ ApiError
          /\ rec' = [next EXCEPT !.errs = TRUE]
          /\ UNCHANGED <<children, unrouted, lost>>
       \/ /\ ApiAnswers
          /\ Create(c)
          /\ unrouted' = IF children[c] = Absent /\ empty THEN unrouted \union {c}
                         ELSE unrouted
          /\ rec' = next
    /\ UNCHANGED <<twinInterfaces, kservices, revision, cacheVars, queueVars,
                   edits, deletes, misjudged>>

\* getEventStoreQueue: a List that fails ends the reconciliation, one that finds nothing
\* has no error to return and gives an empty Queue.
ReadEventStoreQueue ==
    /\ At("mqtt") /\ rec.todo = {}
    /\ \/ /\ ApiError
          /\ Fail
       \/ /\ ApiAnswers
          /\ rec' = [rec EXCEPT !.pc = "exchange", !.queue = infra.esQueue]
          /\ UNCHANGED queueVars
    /\ UNCHANGED <<apiVars, cacheVars, edits, deletes, historyVars>>

\* getBrokerExchange: an error is noted and ends the bindings; an empty list is indexed
\* and panics.
ReadExchange ==
    /\ At("exchange")
    /\ \/ /\ ApiError
          /\ GotoWithError("finish")
          /\ UNCHANGED queueVars
       \/ /\ ApiAnswers /\ ~infra.exchange
          /\ Fail
       \/ /\ ApiAnswers /\ infra.exchange
          /\ rec' = [rec EXCEPT !.pc = "es-binding", !.todo = {EventStoreBinding(rec.key)}]
          /\ UNCHANGED queueVars
    /\ UNCHANGED <<apiVars, cacheVars, edits, deletes, historyVars>>

\* getTwinInterfaceQueue, only for an interface with a service: the queue appears some
\* time after the trigger, so NotFound is returned as an error that retries.
QueueNotFound_NoError == rec' = Idle /\ UNCHANGED queueVars
QueueNotFound == Fail

ReadInterfaceQueue ==
    /\ At("es-binding") /\ rec.todo = {} /\ rec.obj.spec.service # NONE
    /\ \/ /\ ApiError
          /\ rec' = [rec EXCEPT !.pc = "finish", !.queue = FALSE, !.errs = TRUE]
          /\ UNCHANGED queueVars
       \/ /\ ApiAnswers /\ rec.key \notin queueSeen
          /\ QueueNotFound
       \/ /\ ApiAnswers /\ rec.key \in queueSeen
          /\ rec' = [rec EXCEPT !.pc = "dispatch", !.queue = FALSE,
                                !.todo = Dispatchers(rec.key, rec.obj.spec)]
          /\ UNCHANGED queueVars
    /\ UNCHANGED <<apiVars, cacheVars, edits, deletes, historyVars>>

\* All bindings were tried, or were given up after an error.
AllTried ==
    \/ At("finish")
    \/ At("dispatch") /\ rec.todo = {}
    \/ At("es-binding") /\ rec.todo = {} /\ rec.obj.spec.service = NONE

\* The API server's answer to an update of a TwinInterface: it is refused if the resource
\* version is not the stored one; the status is a subresource, so it keeps its value; and
\* an update that changes nothing leaves the resource version alone.
UpdateAccepted(obj) == Live(rec.key) /\ twinInterfaces[rec.key].rv = obj.rv
Stored(obj) == LET old == twinInterfaces[rec.key]
                   new == [obj EXCEPT !.status = old.status, !.rv = old.rv]
               IN  IF new = old THEN old ELSE [new EXCEPT !.rv = revision + 1]

\* len(resultErrors) > 0.
HasErrors_Ignored == FALSE
HasErrors == rec.errs

\* The phase and the label the controller puts on the object it read.
Running_OnCachedVersion(obj) == [obj EXCEPT !.status = "Running", !.labelled = TRUE,
                                            !.rv = crCache[rec.key].rv]
Running_LabelForgotten(obj) == [obj EXCEPT !.status = "Running"]
Running(obj) == [obj EXCEPT !.status = "Running", !.labelled = TRUE]

\* With an error noted, return the first one. Otherwise set the phase and the label and
\* update the object as it was read, ignoring the answer.
Finish ==
    /\ AllTried
    /\ IF HasErrors
       THEN /\ ApiAnswers /\ Fail
            /\ UNCHANGED <<twinInterfaces, revision>>
       ELSE /\ rec' = Idle
            /\ UNCHANGED queueVars
            /\ LET obj == Running(rec.obj) IN
               \/ /\ ApiAnswers /\ UpdateAccepted(obj)
                  /\ twinInterfaces' = [twinInterfaces EXCEPT ![rec.key] = Stored(obj)]
                  /\ revision' = IF Stored(obj) = twinInterfaces[rec.key] THEN revision
                                 ELSE revision + 1
               \/ /\ ApiAnswers /\ ~UpdateAccepted(obj)
                  /\ UNCHANGED <<twinInterfaces, revision>>
               \/ /\ ApiError
                  /\ UNCHANGED <<twinInterfaces, revision>>
    /\ UNCHANGED <<children, kservices, unrouted, cacheVars, edits, deletes, historyVars>>

ReconcileStep ==
    \/ ReadBroker \/ ReadEventStore
    \/ CreateService \/ CompareService \/ UpdateService \/ CreateTrigger
    \/ \E c \in Names : CreateBinding(c)
    \/ ReadEventStoreQueue \/ ReadExchange \/ ReadInterfaceQueue
    \/ Finish

-----------------------------------------------------------------------------
(* Work queue, informers and restarts *)

BackoffExpires(i) ==
    /\ i \in backoff
    /\ backoff' = backoff \ {i}
    /\ dirty' = dirty \union {i}
    /\ UNCHANGED <<apiVars, cacheVars, rec, countVars, historyVars>>

\* The informer of TwinInterfaces catches up with the API server and queues the key:
\* the watch has no predicate, so every change of the object is an event.
SyncTwinInterface(i) ==
    /\ crCache[i] # twinInterfaces[i]
    /\ crCache' = [crCache EXCEPT ![i] = twinInterfaces[i]]
    /\ dirty' = dirty \union {i}
    /\ UNCHANGED <<apiVars, kCache, queueSeen, infra, backoff, rec, countVars, historyVars>>

\* The informer of Knative services catches up. The controller watches TwinInterfaces
\* only, so no key is queued.
SyncKService(i) ==
    /\ kCache[i] # kservices[i]
    /\ kCache' = [kCache EXCEPT ![i] = kservices[i]]
    /\ UNCHANGED <<apiVars, crCache, queueSeen, infra, queueVars, rec, countVars,
                   historyVars>>

\* The informer's periodic resync queues every TwinInterface it holds.
Resync ==
    /\ dirty' = dirty \union {i \in Ifaces : crCache[i] # NotFound}
    /\ UNCHANGED <<apiVars, cacheVars, backoff, rec, countVars, historyVars>>

\* The operator restarts: the queue and the running reconciliation are lost, the caches
\* are filled by a List, which queues every TwinInterface there is.
Restart ==
    /\ ApiError
    /\ rec' = Idle
    /\ backoff' = {}
    /\ crCache' = twinInterfaces
    /\ kCache' = kservices
    /\ dirty' = {i \in Ifaces : Live(i)}
    /\ UNCHANGED <<apiVars, queueSeen, infra, edits, deletes, historyVars>>

-----------------------------------------------------------------------------
(* The cluster and its users *)

\* The garbage collector deletes a child whose owner no longer exists.
Collect(c) ==
    /\ children[c] > Unowned /\ children[c] # twinInterfaces[c[1]].uid
    /\ children' = [children EXCEPT ![c] = Absent]
    /\ kservices' = IF c = Service(c[1]) THEN [kservices EXCEPT ![c[1]] = NoKService]
                    ELSE kservices
    /\ unrouted' = unrouted \ {c}
    /\ lost' = IF Live(c[1]) THEN lost \union {c} ELSE lost
    /\ UNCHANGED <<twinInterfaces, revision, cacheVars, queueVars, rec, countVars, misjudged>>

\* Knative creates the queue of a trigger some time after the trigger, and deletes it
\* some time after the trigger is gone.
QueueAppears(i) ==
    /\ children[Trigger(i)] # Absent /\ i \notin queueSeen
    /\ queueSeen' = queueSeen \union {i}
    /\ UNCHANGED <<apiVars, crCache, kCache, infra, queueVars, rec, countVars, historyVars>>

QueueVanishes(i) ==
    /\ children[Trigger(i)] = Absent /\ i \in queueSeen
    /\ queueSeen' = queueSeen \ {i}
    /\ UNCHANGED <<apiVars, crCache, kCache, infra, queueVars, rec, countVars, historyVars>>

\* A missing part of the installation comes up.
InfraProgress ==
    /\ \/ \E part \in {"broker", "esQueue", "exchange"} :
             ~infra[part] /\ infra' = [infra EXCEPT ![part] = TRUE]
       \/ infra.eventStore = "absent" /\ infra' = [infra EXCEPT !.eventStore = "starting"]
       \/ infra.eventStore = "starting" /\ infra' = [infra EXCEPT !.eventStore = "ready"]
    /\ UNCHANGED <<apiVars, crCache, kCache, queueSeen, queueVars, rec, countVars,
                   historyVars>>

UserCreates(i, s) ==
    /\ ~Live(i) /\ edits < MaxEdits
    /\ edits' = edits + 1
    /\ revision' = revision + 1
    /\ twinInterfaces' = [twinInterfaces EXCEPT ![i] =
           [NotFound EXCEPT !.uid = revision + 1, !.rv = revision + 1, !.spec = s]]
    /\ UNCHANGED <<children, kservices, unrouted, cacheVars, queueVars, rec, deletes, faults,
                   historyVars>>

\* A new spec; a user who replaces the whole object also puts labels of his own in place
\* of the controller's.
UserEdits(i, s) ==
    /\ Live(i) /\ edits < MaxEdits /\ s # twinInterfaces[i].spec
    /\ edits' = edits + 1
    /\ revision' = revision + 1
    /\ \E kept \in {FALSE, twinInterfaces[i].labelled} :
          twinInterfaces' = [twinInterfaces EXCEPT ![i].spec = s, ![i].labelled = kept,
                                                   ![i].rv = revision + 1]
    /\ UNCHANGED <<children, kservices, unrouted, cacheVars, queueVars, rec, deletes, faults,
                   historyVars>>

UserDeletes(i) ==
    /\ Live(i) /\ deletes < MaxDeletes
    /\ deletes' = deletes + 1
    /\ twinInterfaces' = [twinInterfaces EXCEPT ![i] = NotFound]
    /\ lost' = {c \in lost : c[1] # i}
    /\ UNCHANGED <<children, kservices, unrouted, revision, cacheVars, queueVars, rec,
                   edits, faults, misjudged>>

-----------------------------------------------------------------------------
(* The specification *)

Init ==
    /\ twinInterfaces = [i \in Ifaces |-> NotFound]
    /\ children = [c \in Names |-> Absent]
    /\ kservices = [i \in Ifaces |-> NoKService]
    /\ unrouted = {}
    /\ revision = 0
    /\ crCache = twinInterfaces
    /\ kCache = kservices
    /\ queueSeen = {}
    /\ infra \in InitialInfra
    /\ dirty = {} /\ backoff = {}
    /\ rec = Idle
    /\ edits = 0 /\ deletes = 0 /\ faults = 0
    /\ lost = {} /\ misjudged = {}

Next ==
    \/ \E i \in Ifaces : StartReconcile(i)
    \/ ReconcileStep
    \/ \E i \in Ifaces : BackoffExpires(i) \/ SyncTwinInterface(i) \/ SyncKService(i)
    \/ Resync
    \/ Restart
    \/ \E c \in Names : Collect(c)
    \/ \E i \in Ifaces : QueueAppears(i) \/ QueueVanishes(i)
    \/ InfraProgress
    \/ \E i \in Ifaces, s \in Specs : UserCreates(i, s) \/ UserEdits(i, s)
    \/ \E i \in Ifaces : UserDeletes(i)

Spec == Init /\ [][Next]_vars

\* What the surroundings and the controller do sooner or later. The worker goes on with
\* what it started and the queue is first-in first-out, so a key that keeps being queued
\* is taken (strong fairness: the worker is idle only now and then); delays expire, the
\* watches deliver, the collector collects, Knative creates queues and the installation
\* comes up. Users, faults, restarts and resyncs are under no obligation.
Fairness ==
    /\ WF_vars(ReconcileStep)
    /\ WF_vars(InfraProgress)
    /\ \A i \in Ifaces : /\ SF_vars(StartReconcile(i))
                         /\ WF_vars(BackoffExpires(i))
                         /\ WF_vars(SyncTwinInterface(i))
                         /\ WF_vars(SyncKService(i))
                         /\ WF_vars(QueueAppears(i))
    /\ \A c \in Names : WF_vars(Collect(c))

FairSpec == Spec /\ Fairness

\* Resync happens every ten hours, for as long as the operator runs.
ResyncSpec == FairSpec /\ WF_vars(Resync)

-----------------------------------------------------------------------------
(* Properties *)

\* The variables hold values of their types.
TypeOK ==
    /\ twinInterfaces \in [Ifaces -> CRType]
    /\ children \in [Names -> Int]
    /\ kservices \in [Ifaces -> KServiceType]
    /\ unrouted \subseteq Names
    /\ revision \in Nat
    /\ crCache \in [Ifaces -> CRType]
    /\ kCache \in [Ifaces -> KServiceType]
    /\ queueSeen \subseteq Ifaces
    /\ infra \in InfraType
    /\ dirty \subseteq Ifaces /\ backoff \subseteq Ifaces
    /\ rec \in RecType
    /\ edits \in Nat /\ deletes \in Nat /\ faults \in Nat
    /\ lost \subseteq Names /\ misjudged \subseteq Ifaces

\* Something will still make the controller look at interface i again without a resync:
\* its key is queued or waits for a retry, it is being reconciled, or the informer has
\* a change to deliver.
Pending(i) ==
    \/ i \in dirty \union backoff
    \/ rec.key = i
    \/ crCache[i] # twinInterfaces[i]
Settled(i) == Live(i) /\ ~Pending(i)

\* Reconcile never walks away from unfinished work: whatever fails on the way, and
\* whatever changes under it, an interface the controller is done with has all its
\* children, except those the collector took because they still belonged to a deleted
\* interface of the same name.
NeverForgotten ==
    \A i \in Ifaces : Settled(i) =>
        \A c \in Desired(i, twinInterfaces[i].spec) : children[c] # Absent \/ c \in lost

\* A Knative service follows template t: with auto-scaling, in what is compared.
Follows(kservice, t) ==
    \/ kservice.tmpl = t
    \/ t \in Autoscaled /\ Compared[kservice.tmpl] = Compared[t]

\* The service of interface i, if it is there, follows t, unless its comparison with t on
\* a stale copy has spared it the update.
UpToDate(i, t) ==
    (t # NONE /\ kservices[i] # NoKService /\ (i \in misjudged => t \notin Autoscaled))
    => Follows(kservices[i], t)

\* Create, else compare and update, brings the Knative service to the template of the
\* spec, unless the comparison was made on a cached copy older than the stored one; and
\* without auto-scaling, where the comparison never skips the update, also then.
ServiceUpToDate ==
    \A i \in Ifaces : Settled(i) => UpToDate(i, twinInterfaces[i].spec.service)

\* Ignoring the answer to the last update is harmless when what made it fail is a
\* concurrent edit: the label is there once the interface is settled.
LabelledWhenSettled ==
    faults = 0 => \A i \in Ifaces : Settled(i) => twinInterfaces[i].labelled

\* A label says what it is read for: it is set, by a last update that is not refused, only
\* over an interface that has all its children but for those the collector took, and a
\* service that follows the spec, whatever has been queued or has happened since it was read.
LabelledMeansComplete ==
    [][\A i \in Ifaces : ~twinInterfaces[i].labelled /\ twinInterfaces'[i].labelled =>
         LET s == twinInterfaces[i].spec IN
         /\ \A c \in Desired(i, s) : children[c] # Absent \/ c \in lost
         /\ UpToDate(i, s.service)]_vars

\* Updating the whole object as it was read some calls ago never overwrites an edit, nor
\* the spec of an interface that was deleted and created again meanwhile: specs change
\* by the hand of users only.
NoLostEdit ==
    [][edits' = edits =>
         \A i \in Ifaces : Live(i) /\ Live(i)' =>
             twinInterfaces'[i].spec = twinInterfaces[i].spec]_vars

\* Retries alone, without a resync, give every interface all its children in the end if
\* no interface is deleted.
EventuallyComplete ==
    <>[](\A i \in Ifaces : Live(i) =>
            \A c \in Desired(i, twinInterfaces[i].spec) : children[c] # Absent)

\* A reconciliation overtaken by the deletion of its interface leaves nothing behind:
\* in the end every child belongs to an interface that is alive.
NothingLeftBehind ==
    <>[](\A c \in Names : children[c] # Absent => children[c] = twinInterfaces[c[1]].uid)

\* The periodic resync repairs what deletion and re-creation under the same name, and
\* comparisons on stale copies, leave: all children are there and the service has the
\* template of the spec.
EventuallyRepaired ==
    <>[](\A i \in Ifaces : Live(i) =>
            LET s == twinInterfaces[i].spec IN
            /\ \A c \in Desired(i, s) : children[c] # Absent
            /\ s.service # NONE => Follows(kservices[i], s.service))

\* A service that was made before the event store had a URL is given it by a resync if
\* it has no auto-scaling settings: its update is never skipped.
EventuallyAddressed ==
    <>[](\A i \in Ifaces :
            Live(i) /\ twinInterfaces[i].spec.service \in Templates \ Autoscaled =>
                kservices[i].esUrl)

-----------------------------------------------------------------------------
(* What a message of the code says and the code does not do *)

\* "No Queue found for event store" is treated as an error by the caller, so an event
\* store binding is made only with the queue that was found.
EventStoreBindingRouted == \A i \in Ifaces : EventStoreBinding(i) \notin unrouted

=============================================================================
