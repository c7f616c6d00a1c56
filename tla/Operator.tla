------------------------------ MODULE Operator ------------------------------
(***************************************************************************)
(* The operator's process with two of its controllers: the one of          *)
(* TwinInterfaces and the one of EventStores.  The first reads what the    *)
(* second and Knative make of the EventStore named eventstore: its Knative *)
(* service, the URL of that service, and the queue of its trigger.         *)
(*                                                                         *)
(* TwinInterfaceController has these as parts of the installation that     *)
(* come up by themselves.  Here they come from StoreControllers, whose     *)
(* actions interleave with those of TwinInterfaceController, and a restart *)
(* hits both.                                                              *)
(***************************************************************************)
EXTENDS Integers, FiniteSets

CONSTANTS
    Ifaces, Rels, Cmds, Templates, Autoscaled, Compared, NONE,  \* as in
    Specs, MaxEdits, MaxFaults,  \* TwinInterfaceController
    StoreSpecs,        \* the specs users give the EventStore
    MaxStoreFaults     \* bound on failed calls of its controller and restarts

VARIABLES
    twinInterfaces, children, kservices, unrouted, revision, crCache, kCache,
    queueSeen, dirty, backoff, rec, edits, deletes, faults, lost, misjudged,
    infra,  \* informer cache of the TwinInterface controller: what the installation provides
    stores, storeChildren, storeCache, storeChildCache, storeDirty, storeBackoff, storeRec,
    secret, creates, storeEdits, storeDeletes, storeFaults, taken  \* of StoreControllers

interfaceVars == <<twinInterfaces, children, kservices, unrouted, revision, crCache, kCache,
                   queueSeen, dirty, backoff, rec, edits, deletes, faults, lost, misjudged>>
storeVars == <<stores, storeChildren, storeCache, storeChildCache, storeDirty, storeBackoff,
               storeRec, secret, creates, storeEdits, storeDeletes, storeFaults, taken>>
vars == <<interfaceVars, infra, storeVars>>

\* The event store does not exist yet, nor does the broker.
NothingYet == [broker |-> FALSE, eventStore |-> "absent", esQueue |-> FALSE, exchange |-> FALSE]

TI == INSTANCE TwinInterfaceController WITH
    InitialInfra <- {NothingYet}, MaxDeletes <- 0

\* One EventStore, which is created once and stays.
ES == INSTANCE StoreControllers WITH
    Stores <- {"eventstore"},
    Kind <- [s \in {"eventstore"} |-> "EventStore"],
    NameOf <- [s \in {"eventstore"} |-> s],
    Specs <- StoreSpecs,
    MaxCreates <- 1, MaxEdits <- 0, MaxDeletes <- 0, MaxFaults <- MaxStoreFaults,
    children <- storeChildren, sCache <- storeCache, cCache <- storeChildCache,
    dirty <- storeDirty, backoff <- storeBackoff, rec <- storeRec,
    edits <- storeEdits, deletes <- storeDeletes, faults <- storeFaults

ASSUME InterfaceAssumption ==
    /\ NONE \notin Ifaces \union Rels \union Cmds \union Templates
    /\ Autoscaled \subseteq Templates /\ DOMAIN Compared = Templates
    /\ Specs \subseteq TI!SpecType
ASSUME StoreAssumption == NONE # "eventstore" /\ StoreSpecs \subseteq ES!SpecType /\ StoreSpecs # {}
ASSUME BoundsAssumption == MaxEdits \in Nat /\ MaxFaults \in Nat /\ MaxStoreFaults \in Nat

-----------------------------------------------------------------------------
(* Steps: nothing is edited or deleted, and there is no resync *)

TwinInterfaceStep ==
    /\ \/ \E i \in Ifaces : TI!StartReconcile(i)
       \/ TI!ReconcileStep
       \/ \E i \in Ifaces : TI!BackoffExpires(i) \/ TI!SyncTwinInterface(i) \/ TI!SyncKService(i)
       \/ \E i \in Ifaces : TI!QueueAppears(i)
       \/ \E i \in Ifaces, s \in Specs : TI!UserCreates(i, s)
    /\ UNCHANGED storeVars

EventStoreStep ==
    /\ \/ ES!StartReconcile("eventstore") \/ ES!ReconcileStep("EventStore")
       \/ ES!BackoffExpires("eventstore") \/ ES!SyncStore("eventstore")
       \/ \E c \in ES!Children : ES!SyncChild(c)
       \/ \E spec \in StoreSpecs : ES!UserCreates("eventstore", spec)
    /\ UNCHANGED <<interfaceVars, infra>>

\* The broker of the installation comes up.
BrokerAppears ==
    /\ \E part \in {"broker", "exchange"} : ~infra[part] /\ infra' = [infra EXCEPT ![part] = TRUE]
    /\ UNCHANGED <<interfaceVars, storeVars>>

\* Knative gives the event store's service a URL and its trigger a queue, and the
\* TwinInterface controller's informers see service, URL and queue.
Service == <<"service", "eventstore">>
Trigger == <<"trigger", "eventstore">>
StatusOf(now) == IF ~ES!There(Service) THEN "absent"
                 ELSE IF now = "absent" THEN "starting" ELSE "ready"
SeesEventStore ==
    /\ \/ infra' = [infra EXCEPT !.eventStore = StatusOf(@)]
       \/ infra' = [infra EXCEPT !.esQueue = ES!There(Trigger)]
    /\ infra' # infra
    /\ UNCHANGED <<interfaceVars, storeVars>>

\* One process runs both controllers.
Restart == TI!Restart /\ ES!Restart

-----------------------------------------------------------------------------
(* The specification *)

Init == TI!Init /\ ES!Init

Next == TwinInterfaceStep \/ EventStoreStep \/ BrokerAppears \/ SeesEventStore \/ Restart

Spec == Init /\ [][Next]_vars

\* The fairness of the two controllers, without what TwinInterfaceController assumes of
\* the installation, and of the installation.
Fairness ==
    /\ WF_(TI!vars)(TI!ReconcileStep)
    /\ \A i \in Ifaces : /\ SF_(TI!vars)(TI!StartReconcile(i))
                         /\ WF_(TI!vars)(TI!BackoffExpires(i))
                         /\ WF_(TI!vars)(TI!SyncTwinInterface(i))
                         /\ WF_(TI!vars)(TI!SyncKService(i))
                         /\ WF_(TI!vars)(TI!QueueAppears(i))
    /\ WF_(ES!vars)(ES!ReconcileStep("EventStore"))
    /\ SF_(ES!vars)(ES!StartReconcile("eventstore"))
    /\ WF_(ES!vars)(ES!BackoffExpires("eventstore"))
    /\ WF_(ES!vars)(ES!SyncStore("eventstore"))
    /\ \A c \in ES!Children : WF_(ES!vars)(ES!SyncChild(c))
    /\ WF_vars(BrokerAppears) /\ WF_vars(SeesEventStore)

FairSpec == Spec /\ Fairness

-----------------------------------------------------------------------------
(* Properties *)

\* The EventStore controller makes the installation change as TwinInterfaceController
\* takes it to: parts appear in their order and none goes again, also when its service is
\* updated, when its calls fail and when the operator restarts.
ImplementsTwinInterface == TI!Spec

\* The EventStore is there for good: nobody deletes it.
Installed == ES!Live("eventstore")

\* An EventStore that users create is served sooner or later, whatever fails on the way,
\* so that the installation completes as TwinInterfaceController assumes.
InstallationCompletes == <>[](Installed => infra.eventStore = "ready" /\ infra.esQueue)

\* The label says that a reconciliation found nothing missing: an interface with a service
\* gets it only after the EventStore controller has made the event store's service.
LabelledAfterEventStore ==
    [][\A i \in Ifaces :
          (~twinInterfaces[i].labelled /\ twinInterfaces'[i].labelled
             /\ twinInterfaces[i].spec.service # NONE)
          => ES!There(Service)]_vars

\* Retries of both controllers, without a resync, give an interface all its children,
\* whichever of interface, event store and broker comes first.
EventuallyComplete == TI!EventuallyComplete

=============================================================================
