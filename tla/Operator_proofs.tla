---------------------------- MODULE Operator_proofs ----------------------------
(***************************************************************************)
(* Proofs about Operator.  What is proved of the two controllers each by   *)
(* itself is taken over: the theorems of their modules are instantiated    *)
(* here.                                                                   *)
(***************************************************************************)
EXTENDS Operator, TLAPS

TP == INSTANCE TwinInterfaceController_proofs WITH
    InitialInfra <- {NothingYet}, MaxDeletes <- 0

EP == INSTANCE StoreControllers_proofs WITH
    Stores <- {"eventstore"},
    Kind <- [s \in {"eventstore"} |-> "EventStore"],
    NameOf <- [s \in {"eventstore"} |-> s],
    Specs <- StoreSpecs,
    MaxCreates <- 1, MaxEdits <- 0, MaxDeletes <- 0, MaxFaults <- MaxStoreFaults,
    children <- storeChildren, sCache <- storeCache, cCache <- storeChildCache,
    dirty <- storeDirty, backoff <- storeBackoff, rec <- storeRec,
    edits <- storeEdits, deletes <- storeDeletes, faults <- storeFaults

-----------------------------------------------------------------------------
(* The EventStore controller in the operator is one of StoreControllers *)

\* The composition leaves the steps of the EventStore controller as they are.
THEOREM ImplementsStores == Spec => ES!Spec
<1>1. Init => ES!Init
  BY DEF Init
<1>2. [Next]_vars => [ES!Next]_(ES!vars)
  <2>1. ASSUME TwinInterfaceStep \/ BrokerAppears \/ SeesEventStore \/ UNCHANGED vars
        PROVE  UNCHANGED ES!vars
    <3>1. UNCHANGED storeVars
      BY <2>1 DEF TwinInterfaceStep, BrokerAppears, SeesEventStore, vars
    <3>2. QED
      BY <3>1 DEF storeVars, ES!vars, ES!apiVars, ES!cacheVars, ES!queueVars, ES!userVars
  <2>2. ASSUME EventStoreStep PROVE ES!Next
    BY <2>2 DEF EventStoreStep, ES!Next, ES!Kinds
  <2>3. Restart => ES!Next
    BY DEF Restart, ES!Next
  <2>4. QED
    BY <2>1, <2>2, <2>3 DEF Next
<1>3. QED
  BY <1>1, <1>2, PTL DEF Spec, ES!Spec

\* The instance of the proofs module has the same definitions as the one in Operator.
LEMMA SameStores == ES!Spec => EP!Spec
<1>1. ES!Init <=> EP!Init
  BY DEF ES!Init, EP!Init, ES!NoStore, EP!NoStore, ES!NoChild, EP!NoChild, ES!Idle, EP!Idle,
         ES!Children, EP!Children, ES!Parts, EP!Parts, ES!Names, EP!Names, ES!Kinds, EP!Kinds
<1>2. ES!Next <=> EP!Next
  BY DEF ES!NoStore, EP!NoStore, ES!NoChild, EP!NoChild, ES!Idle, EP!Idle,
         ES!Children, EP!Children, ES!Parts, EP!Parts, ES!Names, EP!Names,
         ES!Kinds, EP!Kinds, ES!Live, EP!Live, ES!There, EP!There,
         ES!NewVersion, EP!NewVersion, ES!Key, EP!Key, ES!At, EP!At, ES!Goto, EP!Goto,
         ES!Done, EP!Done, ES!ApiError, EP!ApiError, ES!ApiAnswers, EP!ApiAnswers,
         ES!Fail, EP!Fail, ES!Buildable, EP!Buildable, ES!Child, EP!Child,
         ES!Value, EP!Value, ES!Owner, EP!Owner, ES!Desired, EP!Desired,
         ES!Merge, EP!Merge, ES!NextPart, EP!NextPart, ES!CallFailed, EP!CallFailed,
         ES!apiVars, EP!apiVars, ES!cacheVars, EP!cacheVars, ES!queueVars, EP!queueVars,
         ES!userVars, EP!userVars, ES!StartReconcile, EP!StartReconcile,
         ES!ReadSecret, EP!ReadSecret, ES!CreateChild, EP!CreateChild,
         ES!UpdateChild, EP!UpdateChild, ES!ReconcileStep, EP!ReconcileStep,
         ES!BackoffExpires, EP!BackoffExpires, ES!SyncStore, EP!SyncStore,
         ES!SyncChild, EP!SyncChild, ES!Resync, EP!Resync, ES!Restart, EP!Restart,
         ES!Collect, EP!Collect, ES!SecretAppears, EP!SecretAppears,
         ES!UserCreates, EP!UserCreates, ES!UserEdits, EP!UserEdits,
         ES!UserDeletes, EP!UserDeletes, ES!Next, EP!Next
<1>3. [ES!Next]_(ES!vars) => [EP!Next]_(EP!vars)
  BY <1>2 DEF ES!vars, ES!apiVars, ES!cacheVars, ES!queueVars, ES!userVars,
         EP!vars, EP!apiVars, EP!cacheVars, EP!queueVars, EP!userVars
<1>4. QED
  BY <1>1, <1>3, PTL DEF ES!Spec, EP!Spec

\* The assumptions of StoreControllers hold in the operator.
LEMMA StoreAssumptions ==
    /\ EP!StoresAssumption /\ EP!NoneIsNoStore /\ EP!SpecsAssumption /\ EP!LimitsAssumption
    /\ "EventStore" \in EP!Kinds
BY StoreAssumption, BoundsAssumption
DEF EP!StoresAssumption, EP!NoneIsNoStore, EP!SpecsAssumption, EP!LimitsAssumption,
    EP!Kinds, EP!SpecType, ES!SpecType

\* Its invariants hold in the operator.
LEMMA StoreInvariance == Spec => []EP!IInv
<1>1. EP!Spec => []EP!IInv
  BY StoreAssumptions, EP!Invariance
<1>2. QED
  BY <1>1, ImplementsStores, SameStores, PTL

\* What the EventStore controller has made stays, also when it updates it, when its calls
\* fail and when the operator restarts.
LEMMA ChildrenStay ==
    ASSUME EP!IInv, [Next]_vars, NEW c \in ES!Children, ES!There(c)
    PROVE  ES!There(c)'
<1>1. CASE UNCHANGED storeChildren
  BY <1>1 DEF ES!There
<1>2. CASE ES!ReconcileStep("EventStore")
  <2>1. EP!ReconcileStep("EventStore")
    BY <1>2 DEF ES!NoStore, EP!NoStore, ES!NoChild, EP!NoChild, ES!Idle, EP!Idle, ES!Parts, EP!Parts,
                ES!There, EP!There, ES!NewVersion, EP!NewVersion, ES!Key, EP!Key,
                ES!At, EP!At, ES!Goto, EP!Goto, ES!Done, EP!Done, ES!ApiError, EP!ApiError,
                ES!ApiAnswers, EP!ApiAnswers, ES!Fail, EP!Fail, ES!Buildable, EP!Buildable,
                ES!Child, EP!Child, ES!Value, EP!Value, ES!Owner, EP!Owner,
                ES!Desired, EP!Desired, ES!Merge, EP!Merge, ES!NextPart, EP!NextPart,
                ES!CallFailed, EP!CallFailed, ES!apiVars, EP!apiVars,
                ES!cacheVars, EP!cacheVars, ES!queueVars, EP!queueVars,
                ES!userVars, EP!userVars, ES!ReadSecret, EP!ReadSecret,
                ES!CreateChild, EP!CreateChild, ES!UpdateChild, EP!UpdateChild,
                ES!ReconcileStep, EP!ReconcileStep
  <2>2. EP!There(c)
    BY DEF ES!There, EP!There, ES!NoChild, EP!NoChild
  <2>3. EP!There(c)'
    BY <2>1, <2>2, EP!StepRemovesNothing, StoreAssumptions DEF EP!IInv
  <2>4. QED
    BY <2>3 DEF ES!There, EP!There, ES!NoChild, EP!NoChild
<1>3. CASE EventStoreStep /\ ~ES!ReconcileStep("EventStore")
  BY <1>1, <1>3 DEF EventStoreStep, ES!StartReconcile, ES!BackoffExpires, ES!SyncStore,
                    ES!SyncChild, ES!UserCreates, ES!apiVars
<1>4. CASE TwinInterfaceStep \/ BrokerAppears \/ SeesEventStore \/ Restart \/ UNCHANGED vars
  BY <1>1, <1>4 DEF TwinInterfaceStep, BrokerAppears, SeesEventStore, Restart, vars, storeVars,
                    ES!Restart, ES!apiVars
<1>5. QED
  BY <1>2, <1>3, <1>4 DEF Next

-----------------------------------------------------------------------------
(* The installation *)

\* What the TwinInterface controller's informers show of the event store is there.
InfraInv ==
    /\ infra \in TI!InfraType
    /\ infra.eventStore # "absent" => ES!There(Service)
    /\ infra.esQueue => ES!There(Trigger)

\* No step takes the event store away again from under the other controller.
LEMMA InfraStep == EP!IInv /\ InfraInv /\ [Next]_vars => InfraInv'
<1> SUFFICES ASSUME EP!IInv, InfraInv, [Next]_vars PROVE InfraInv'
  OBVIOUS
<1>1. /\ ES!There(Service) => ES!There(Service)'
      /\ ES!There(Trigger) => ES!There(Trigger)'
  BY ChildrenStay DEF Service, Trigger, ES!Children, ES!Parts, ES!Names
<1>2. CASE UNCHANGED infra
  BY <1>1, <1>2 DEF InfraInv
<1>3. CASE BrokerAppears
  BY <1>1, <1>3 DEF BrokerAppears, InfraInv, TI!InfraType
<1>4. CASE SeesEventStore
  <2>1. StatusOf(infra.eventStore) \in {"absent", "starting", "ready"}
        /\ (StatusOf(infra.eventStore) # "absent" => ES!There(Service))
    BY DEF StatusOf
  <2>2. ES!There(Trigger) \in BOOLEAN
    BY DEF ES!There
  <2>3. QED
    BY <1>1, <1>4, <2>1, <2>2 DEF SeesEventStore, InfraInv, TI!InfraType
<1>5. UNCHANGED infra \/ BrokerAppears \/ SeesEventStore
  <2>1. TI!ReconcileStep => UNCHANGED infra
    BY DEF TI!ReconcileStep, TI!ReadBroker, TI!ReadEventStore, TI!CreateService,
           TI!CompareService, TI!UpdateService, TI!CreateTrigger, TI!CreateBinding,
           TI!ReadEventStoreQueue, TI!ReadExchange, TI!ReadInterfaceQueue, TI!Finish,
           TI!cacheVars
  <2>2. TwinInterfaceStep => UNCHANGED infra
    BY <2>1 DEF TwinInterfaceStep, TI!StartReconcile, TI!BackoffExpires,
                TI!SyncTwinInterface, TI!SyncKService, TI!QueueAppears, TI!UserCreates,
                TI!cacheVars
  <2>3. QED
    BY <2>2 DEF Next, EventStoreStep, Restart, TI!Restart, vars
<1>6. QED
  BY <1>2, <1>3, <1>4, <1>5

\* The installation only ever progresses: what the informers show of it is there.
LEMMA InfraInvariance == Spec => []InfraInv
<1>1. Init => InfraInv
  <2>1. Init => infra = NothingYet
    BY DEF Init, TI!Init
  <2>2. QED
    <3>1. NothingYet \in TI!InfraType /\ NothingYet.eventStore = "absent" /\ ~NothingYet.esQueue
      BY DEF NothingYet, TI!InfraType
    <3>2. QED
      BY <2>1, <3>1 DEF InfraInv
<1>2. QED
  BY <1>1, InfraStep, StoreInvariance, PTL DEF Spec

\* A part of the installation comes up, as TwinInterfaceController has it.
Progresses ==
    \/ \E part \in {"broker", "esQueue", "exchange"} :
          ~infra[part] /\ infra' = [infra EXCEPT ![part] = TRUE]
    \/ infra.eventStore = "absent" /\ infra' = [infra EXCEPT !.eventStore = "starting"]
    \/ infra.eventStore = "starting" /\ infra' = [infra EXCEPT !.eventStore = "ready"]

\* A step of the composition is one of TwinInterfaceController, or is none of its business.
LEMMA InterfaceStep == InfraInv /\ [Next]_vars => [TI!Next]_(TI!vars)
<1> SUFFICES ASSUME InfraInv, [Next]_vars PROVE [TI!Next]_(TI!vars)
  OBVIOUS
<1>1. CASE UNCHANGED <<interfaceVars, infra>>
  BY <1>1 DEF interfaceVars, TI!vars, TI!apiVars, TI!cacheVars, TI!queueVars, TI!countVars,
              TI!historyVars
<1>2. CASE TwinInterfaceStep
  BY <1>2 DEF TwinInterfaceStep, TI!Next
<1>3. CASE BrokerAppears
  <2>1. TI!InfraProgress
    BY <1>3 DEF BrokerAppears, interfaceVars, TI!InfraProgress, TI!apiVars, TI!queueVars,
                TI!countVars, TI!historyVars
  <2>2. QED
    BY <2>1 DEF TI!Next
<1>4. CASE SeesEventStore
  <2>1. infra' # infra /\ UNCHANGED interfaceVars
    BY <1>4 DEF SeesEventStore
  <2> DEFINE now == StatusOf(infra.eventStore)
  <2>2. ASSUME infra' = [infra EXCEPT !.eventStore = now] PROVE Progresses
    <3>1. now # infra.eventStore
      BY <2>1, <2>2 DEF InfraInv, TI!InfraType
    <3>2. \/ infra.eventStore = "absent" /\ now = "starting"
          \/ infra.eventStore = "starting" /\ now = "ready"
      BY <3>1 DEF StatusOf, InfraInv, TI!InfraType
    <3> HIDE DEF now
    <3>3. QED
      BY <2>2, <3>2 DEF Progresses
  <2>3. ASSUME infra' = [infra EXCEPT !.esQueue = ES!There(Trigger)] PROVE Progresses
    <3>1. ES!There(Trigger) # infra.esQueue
      BY <2>1, <2>3 DEF InfraInv, TI!InfraType
    <3>2. ~infra.esQueue /\ ES!There(Trigger) = TRUE
      BY <3>1 DEF ES!There, InfraInv, TI!InfraType
    <3>3. infra' = [infra EXCEPT !.esQueue = TRUE]
      BY <2>3, <3>2
    <3>4. QED
      BY <3>2, <3>3 DEF Progresses
  <2>4. Progresses
    BY <1>4, <2>2, <2>3 DEF SeesEventStore
  <2>5. TI!InfraProgress
    BY <2>1, <2>4 DEF Progresses, interfaceVars, TI!InfraProgress, TI!apiVars, TI!queueVars,
                      TI!countVars, TI!historyVars
  <2>6. QED
    BY <2>5 DEF TI!Next
<1>5. CASE Restart
  BY <1>5 DEF Restart, TI!Next
<1>6. QED
  BY <1>1, <1>2, <1>3, <1>4, <1>5 DEF Next, EventStoreStep, vars

\* The EventStore controller makes the installation change as TwinInterfaceController takes
\* it to: every behaviour of the composition is one of TwinInterfaceController.
THEOREM ImplementsInterfaces == Spec => ImplementsTwinInterface
<1>1. Init => TI!Init
  BY DEF Init
<1>2. QED
  BY <1>1, InterfaceStep, InfraInvariance, PTL DEF Spec, ImplementsTwinInterface, TI!Spec

\* The instance of the proofs module has the same definitions as the one in Operator.
LEMMA SameInterfaceSteps == [TI!Next]_(TI!vars) => [TP!Next]_(TP!vars)
<1>1. TI!Next <=> TP!Next
  BY DEF TI!NotFound, TP!NotFound, TI!Live, TP!Live, TI!NoKService, TP!NoKService,
         TI!Service, TP!Service, TI!Trigger, TP!Trigger, TI!MqttBindings, TP!MqttBindings,
         TI!EventStoreBinding, TP!EventStoreBinding,
         TI!RelationshipBindings, TP!RelationshipBindings,
         TI!CommandBindings, TP!CommandBindings, TI!Dispatchers, TP!Dispatchers,
         TI!Suffixes, TP!Suffixes, TI!Names, TP!Names, TI!Unowned, TP!Unowned,
         TI!Absent, TP!Absent, TI!NoSpec, TP!NoSpec, TI!Idle, TP!Idle, TI!At, TP!At,
         TI!Goto, TP!Goto, TI!GotoWithError, TP!GotoWithError, TI!Fail, TP!Fail,
         TI!ApiError, TP!ApiError, TI!ApiAnswers, TP!ApiAnswers,
         TI!OwnerReference, TP!OwnerReference, TI!NewVersion, TP!NewVersion,
         TI!NewKService, TP!NewKService, TI!CompareTwinService, TP!CompareTwinService,
         TI!SameContent, TP!SameContent, TI!Create, TP!Create,
         TI!RestOfLoop, TP!RestOfLoop, TI!AllTried, TP!AllTried,
         TI!UpdateAccepted, TP!UpdateAccepted, TI!Stored, TP!Stored,
         TI!HasErrors, TP!HasErrors, TI!Running, TP!Running,
         TI!QueueNotFound, TP!QueueNotFound, TI!apiVars, TP!apiVars,
         TI!cacheVars, TP!cacheVars, TI!queueVars, TP!queueVars,
         TI!countVars, TP!countVars, TI!historyVars, TP!historyVars,
         TI!StartReconcile, TP!StartReconcile, TI!ReadBroker, TP!ReadBroker,
         TI!GetService, TP!GetService, TI!ReadEventStore, TP!ReadEventStore, TI!CreateService, TP!CreateService,
         TI!CompareService, TP!CompareService, TI!UpdateService, TP!UpdateService,
         TI!CreateTrigger, TP!CreateTrigger, TI!CreateBinding, TP!CreateBinding,
         TI!ReadEventStoreQueue, TP!ReadEventStoreQueue, TI!ReadExchange, TP!ReadExchange,
         TI!ReadInterfaceQueue, TP!ReadInterfaceQueue, TI!Finish, TP!Finish,
         TI!ReconcileStep, TP!ReconcileStep, TI!BackoffExpires, TP!BackoffExpires,
         TI!SyncTwinInterface, TP!SyncTwinInterface, TI!SyncKService, TP!SyncKService,
         TI!Resync, TP!Resync, TI!Restart, TP!Restart, TI!Collect, TP!Collect,
         TI!QueueAppears, TP!QueueAppears, TI!QueueVanishes, TP!QueueVanishes,
         TI!InfraProgress, TP!InfraProgress, TI!UserCreates, TP!UserCreates,
         TI!UserEdits, TP!UserEdits, TI!UserDeletes, TP!UserDeletes, TI!Next, TP!Next
<1>2. QED
  BY <1>1 DEF TI!vars, TP!vars, TI!apiVars, TP!apiVars, TI!cacheVars, TP!cacheVars,
              TI!queueVars, TP!queueVars, TI!countVars, TP!countVars,
              TI!historyVars, TP!historyVars

\* And so are the specifications.
LEMMA SameInterfaces == TI!Spec => TP!Spec
<1>1. TI!Init <=> TP!Init
  BY DEF TI!NotFound, TP!NotFound, TI!NoSpec, TP!NoSpec, TI!NoKService, TP!NoKService,
         TI!Absent, TP!Absent, TI!Names, TP!Names, TI!Suffixes, TP!Suffixes,
         TI!Idle, TP!Idle, TI!Init, TP!Init
<1>2. QED
  BY <1>1, SameInterfaceSteps, PTL DEF TI!Spec, TP!Spec

-----------------------------------------------------------------------------
(* The label *)

\* The assumptions of TwinInterfaceController hold in the operator.
LEMMA InterfaceAssumptions ==
    /\ TP!NoneAssumption /\ TP!TemplatesAssumption /\ TP!SpecsAssumption
    /\ TP!InfraAssumption /\ TP!BoundsAssumption
BY InterfaceAssumption, BoundsAssumption
DEF TP!NoneAssumption, TP!TemplatesAssumption, TP!SpecsAssumption, TP!InfraAssumption,
    TP!BoundsAssumption, TP!SpecType, TI!SpecType, TP!InfraType, NothingYet

\* The invariants of TwinInterfaceController hold in the operator, whichever of interface,
\* event store and broker comes first.
THEOREM InterfaceInvariance == Spec => []TP!IInv
<1>1. TP!Spec => []TP!IInv
  BY InterfaceAssumptions, TP!Invariance
<1>2. QED
  BY <1>1, ImplementsInterfaces, SameInterfaces, PTL DEF ImplementsTwinInterface

\* A reconciliation that is past the event store without an error, of an interface with a
\* service, has found the store's service.
FoundInv == TP!PastEventStore => ES!There(Service)

\* It was there when it was read, and it stays.
LEMMA FoundStep ==
    EP!IInv /\ TP!IInv /\ InfraInv /\ FoundInv /\ [Next]_vars => FoundInv'
<1> SUFFICES ASSUME EP!IInv, TP!IInv, InfraInv, FoundInv, [Next]_vars, TP!PastEventStore'
             PROVE  ES!There(Service)'
  BY DEF FoundInv
<1>1. [TP!Next]_(TP!vars)
  BY InterfaceStep, SameInterfaceSteps
<1>2. TP!PastEventStore \/ infra.eventStore # "absent"
  BY <1>1, InterfaceAssumptions, TP!PastByEventStore DEF TP!IInv, TP!ProgressInv
<1>3. ES!There(Service)
  BY <1>2 DEF FoundInv, InfraInv
<1>4. QED
  BY <1>3, ChildrenStay DEF Service, ES!Children, ES!Parts, ES!Names

\* An interface with a service is labelled only after the EventStore controller has made
\* the event store's service, however the two controllers and the informers interleave.
THEOREM LabelAfterEventStore == Spec => LabelledAfterEventStore
<1>1. Init => FoundInv
  <2>1. Init => rec.pc = "idle"
    BY DEF Init, TI!Init, TI!Idle
  <2>2. QED
    BY <2>1 DEF FoundInv, TP!PastEventStore
<1>2. Spec => []FoundInv
  BY <1>1, FoundStep, StoreInvariance, InterfaceInvariance, InfraInvariance, PTL DEF Spec
<1>3. TP!IInv /\ InfraInv /\ FoundInv /\ [Next]_vars =>
        [\A i \in Ifaces :
            (~twinInterfaces[i].labelled /\ twinInterfaces'[i].labelled
               /\ twinInterfaces[i].spec.service # NONE)
            => ES!There(Service)]_vars
  <2> SUFFICES ASSUME TP!IInv, InfraInv, FoundInv, [Next]_vars, NEW i \in Ifaces,
                      ~twinInterfaces[i].labelled, twinInterfaces'[i].labelled,
                      twinInterfaces[i].spec.service # NONE
               PROVE  ES!There(Service)
    OBVIOUS
  <2>1. [TP!Next]_(TP!vars)
    BY InterfaceStep, SameInterfaceSteps
  <2>2. TP!PastEventStore
    BY <2>1, InterfaceAssumptions, TP!LabelledPastEventStore DEF TP!IInv
  <2>3. QED
    BY <2>2 DEF FoundInv
<1>4. QED
  BY <1>2, <1>3, InterfaceInvariance, InfraInvariance, PTL DEF Spec, LabelledAfterEventStore

=============================================================================
