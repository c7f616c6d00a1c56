-------------------- MODULE TwinInterfaceController_proofs --------------------
(***************************************************************************)
(* Proofs about TwinInterfaceController, for every set of interfaces,      *)
(* relationships, commands and templates and every value of the bounds.    *)
(***************************************************************************)
EXTENDS TwinInterfaceController, TLAPS

-----------------------------------------------------------------------------
(* Type correctness *)

\* The absent TwinInterface is a value of the type of TwinInterfaces.
LEMMA NotFoundType == NotFound \in CRType
BY DEF NotFound, CRType, NoSpec, SpecType

\* The children of an interface with a well-typed spec have names of children.
LEMMA ChildNames ==
    ASSUME NEW i \in Ifaces, NEW s \in SpecType
    PROVE  /\ Service(i) \in Names /\ Trigger(i) \in Names
           /\ EventStoreBinding(i) \in Names
           /\ MqttBindings(i, s) \subseteq Names
           /\ Dispatchers(i, s) \subseteq Names
BY DEF Names, Suffixes, SpecType, Service, Trigger, EventStoreBinding, MqttBindings,
       Dispatchers, RelationshipBindings, CommandBindings

\* Three versions are held at most, so one of four is free.
LEMMA NewVersionType == NewVersion \in Nat
<1> DEFINE held == {kservices[rec.key].rv, kCache[rec.key].rv, rec.svcRv}
<1>1. \E v \in {1, 2, 3, 4} : v \notin held
  OBVIOUS
<1>2. NewVersion \in {1, 2, 3, 4}
  BY <1>1 DEF NewVersion
<1>3. QED
  BY <1>2

\* The fields of a TwinInterface.
LEMMA CRFields ==
    ASSUME NEW obj \in CRType
    PROVE  /\ obj.uid \in Nat /\ obj.rv \in Nat /\ obj.spec \in SpecType
           /\ obj.labelled \in BOOLEAN /\ obj.status \in {"", "Running", "Failed"}
BY DEF CRType

\* The fields of a running reconciliation.
LEMMA RunningFields ==
    ASSUME rec \in RunningType
    PROVE  /\ rec.pc \in Steps /\ rec.key \in Ifaces /\ rec.obj \in CRType
           /\ rec.todo \subseteq Names /\ rec.errs \in BOOLEAN /\ rec.svcRv \in Nat
BY DEF RunningType

\* Any reconciliation that is about to take a step is a running one.
LEMMA RunningRec ==
    ASSUME TypeOK, rec.pc # "idle"
    PROVE  rec \in RunningType
BY DEF TypeOK, RecType, Idle

\* The service a reconciliation builds is a value of the type of services.
LEMMA NewKServiceType ==
    ASSUME TypeOK, rec \in RunningType
    PROVE  NewKService \in KServiceType
<1>1. rec.obj.spec \in SpecType /\ rec.esUrl \in BOOLEAN
  BY RunningFields, CRFields DEF RunningType
<1>2. QED
  BY <1>1, NewVersionType DEF NewKService, KServiceType, SpecType

\* Fail leaves the reconciliation and the queues well typed.
LEMMA FailType ==
    ASSUME TypeOK, rec \in RunningType, Fail
    PROVE  rec' \in RecType /\ backoff' \subseteq Ifaces /\ dirty' \subseteq Ifaces
BY RunningFields DEF TypeOK, Fail, RecType

\* The types Create(c) preserves.
LEMMA CreateType ==
    ASSUME TypeOK, rec \in RunningType, NEW c \in Names, Create(c)
    PROVE  children' \in [Names -> Int] /\ lost' \subseteq Names
<1>1. rec.obj.uid \in Nat
  BY RunningFields, CRFields
<1>2. QED
  BY <1>1 DEF TypeOK, Create, OwnerReference

\* An edit writes the spec, a new version, and the label that was there or none.
LEMMA EditKeepsOrDrops ==
    ASSUME TypeOK, NEW i \in Ifaces, NEW s, UserEdits(i, s)
    PROVE  \E kept \in BOOLEAN :
              /\ kept => twinInterfaces[i].labelled
              /\ twinInterfaces' = [twinInterfaces EXCEPT ![i] =
                     [twinInterfaces[i] EXCEPT !.spec = s, !.labelled = kept, !.rv = revision + 1]]
<1>1. twinInterfaces[i].labelled \in BOOLEAN
  BY CRFields DEF TypeOK
<1>2. PICK kept \in {FALSE, twinInterfaces[i].labelled} :
         twinInterfaces' = [twinInterfaces EXCEPT ![i].spec = s, ![i].labelled = kept,
                                                  ![i].rv = revision + 1]
  BY DEF UserEdits
<1>3. kept \in BOOLEAN /\ (kept => twinInterfaces[i].labelled)
  BY <1>1
<1>4. QED
  BY <1>2, <1>3 DEF TypeOK

\* What an accepted update stores is a TwinInterface.
LEMMA StoredType ==
    ASSUME TypeOK, rec \in RunningType
    PROVE  Stored(Running(rec.obj)) \in CRType
<1>1. rec.obj \in CRType /\ twinInterfaces[rec.key] \in CRType /\ revision + 1 \in Nat
  BY RunningFields DEF TypeOK
<1>2. QED
  BY <1>1 DEF Stored, Running, CRType

\* Every step preserves the type invariant.
LEMMA TypeStep == TypeOK /\ [Next]_vars => TypeOK'
<1> SUFFICES ASSUME TypeOK, [Next]_vars PROVE TypeOK'
  OBVIOUS
<1> USE DEF apiVars, cacheVars, queueVars, countVars, historyVars, ApiError, ApiAnswers
<1>1. ASSUME NEW i \in Ifaces, StartReconcile(i) PROVE TypeOK'
  <2> DEFINE s == crCache[i].spec
             begin == [Idle EXCEPT !.key = i, !.obj = crCache[i]]
  <2>1. s \in SpecType /\ crCache[i] \in CRType
    BY DEF TypeOK, CRType
  <2>2. MqttBindings(i, s) \subseteq Names
    BY <2>1, ChildNames
  <2>3. [begin EXCEPT !.pc = "broker"] \in RunningType
    BY <2>1 DEF RunningType, Steps, Idle
  <2>4. [begin EXCEPT !.pc = "mqtt", !.todo = MqttBindings(i, s)] \in RunningType
    BY <2>1, <2>2 DEF RunningType, Steps, Idle
  <2>5. rec' \in RecType
    BY <1>1, <2>3, <2>4 DEF StartReconcile, RecType, TypeOK
  <2>6. QED
    BY <1>1, <2>5 DEF StartReconcile, TypeOK
<1>2. CASE ReadBroker
  <2> DEFINE e == rec.errs \/ ~infra.broker
             b == infra.broker
  <2>1. rec \in RunningType
    BY <1>2, RunningRec DEF ReadBroker, At
  <2>2. e \in BOOLEAN /\ b \in BOOLEAN
    BY DEF TypeOK, InfraType
  <2>3. \/ rec' = [rec EXCEPT !.pc = "eventstore", !.errs = TRUE]
        \/ rec' = [rec EXCEPT !.pc = "eventstore", !.errs = e, !.broker = b]
    BY <1>2 DEF ReadBroker, GotoWithError
  <2> HIDE DEF e, b
  <2>4. rec' \in RunningType
    BY <2>1, <2>2, <2>3, ZenonT(60) DEF RunningType, Steps
  <2>5. QED
    BY <1>2, <2>4 DEF ReadBroker, RecType, TypeOK
<1>3. CASE ReadEventStore
  <2>1. rec \in RunningType
    BY <1>3, RunningRec DEF ReadEventStore, At
  <2>2. PICK eventStore : GetService(eventStore)
    BY <1>3 DEF ReadEventStore
  <2>3. rec' \in RecType /\ backoff' \subseteq Ifaces
    <3>1. CASE rec.broker
      <4> DEFINE e == rec.errs \/ eventStore = "absent"
                 u == eventStore = "ready"
      <4>1. e \in BOOLEAN /\ u \in BOOLEAN
        OBVIOUS
      <4>2. rec' = [rec EXCEPT !.pc = "service", !.broker = FALSE, !.errs = e, !.esUrl = u]
        BY <2>2, <3>1 DEF GetService
      <4> HIDE DEF e, u
      <4>3. rec' \in RunningType
        BY <2>1, <4>1, <4>2, ZenonT(60) DEF RunningType, Steps
      <4>4. QED
        BY <2>2, <3>1, <4>3 DEF GetService, RecType, TypeOK
    <3>2. CASE ~rec.broker
      BY <2>1, <2>2, <3>2, RunningFields DEF GetService, Fail, RecType, TypeOK
    <3>3. QED
      BY <3>1, <3>2
  <2>4. UNCHANGED dirty
    BY <2>2 DEF GetService, Fail
  <2>5. QED
    BY <1>3, <2>3, <2>4 DEF ReadEventStore, TypeOK
<1>4. CASE CreateService
  <2>1. rec \in RunningType /\ NewKService \in KServiceType
    BY <1>4, RunningRec, NewKServiceType DEF CreateService, At
  <2>2. rec' \in RunningType
    <3>1. \/ rec' = [rec EXCEPT !.pc = "trigger", !.errs = TRUE]
          \/ rec' = [rec EXCEPT !.pc = "trigger"]
          \/ rec' = [rec EXCEPT !.pc = "compare"]
      BY <1>4 DEF CreateService, Goto, GotoWithError
    <3>2. QED
      BY <2>1, <3>1, ZenonT(60) DEF RunningType, Steps
  <2>3. OwnerReference(rec.obj) \in Int
    <3>1. rec.obj \in CRType
      BY <2>1, RunningFields
    <3>2. rec.obj.uid \in Nat
      BY <3>1, CRFields
    <3>3. QED
      BY <3>2 DEF OwnerReference
  <2>4. children' \in [Names -> Int] /\ kservices' \in [Ifaces -> KServiceType]
    BY <1>4, <2>1, <2>3 DEF CreateService, TypeOK
  <2>5. QED
    BY <1>4, <2>2, <2>4 DEF CreateService, TypeOK, RecType
<1>5. CASE CompareService
  <2>1. rec \in RunningType
    BY <1>5, RunningRec DEF CompareService, At
  <2>2. rec.key \in Ifaces /\ kCache[rec.key].rv \in Nat
    BY <2>1, RunningFields DEF TypeOK, KServiceType
  <2>3. CASE Fail /\ UNCHANGED misjudged
    BY <1>5, <2>2, <2>3 DEF CompareService, Fail, RecType, TypeOK
  <2>4. CASE ~(Fail /\ UNCHANGED misjudged)
    <3>1. rec' \in RunningType
      <4> DEFINE v == kCache[rec.key].rv
      <4>1. \/ rec' = [rec EXCEPT !.pc = "trigger"]
            \/ rec' = [rec EXCEPT !.pc = "update", !.svcRv = v]
        BY <1>5, <2>4 DEF CompareService
      <4>2. v \in Nat
        BY <2>2
      <4> HIDE DEF v
      <4>3. QED
        BY <2>1, <4>1, <4>2, ZenonT(60) DEF RunningType, Steps
    <3>2. misjudged' \subseteq Ifaces
      BY <1>5, <2>2, <2>4 DEF CompareService, TypeOK
    <3>3. QED
      BY <1>5, <2>4, <3>1, <3>2 DEF CompareService, RecType, TypeOK
  <2>5. QED
    BY <2>3, <2>4
<1>6. CASE UpdateService
  <2>1. rec \in RunningType /\ NewKService \in KServiceType
    BY <1>6, RunningRec, NewKServiceType DEF UpdateService, At
  <2>2. rec' \in RunningType
    <3>1. /\ [rec EXCEPT !.pc = "trigger", !.svcRv = 0] \in RunningType
          /\ [rec EXCEPT !.pc = "trigger", !.svcRv = 0, !.errs = TRUE] \in RunningType
      BY <2>1 DEF RunningType, Steps
    <3>2. QED
      BY <1>6, <3>1 DEF UpdateService
  <2>3. QED
    BY <1>6, <2>1, <2>2 DEF UpdateService, TypeOK, RecType
<1>7. CASE CreateTrigger
  <2>1. rec \in RunningType
    BY <1>7, RunningRec DEF CreateTrigger, At
  <2>2. MqttBindings(rec.key, rec.obj.spec) \subseteq Names
    BY <2>1, ChildNames, RunningFields, CRFields
  <2>3. rec' \in RunningType
    <3> DEFINE next == [rec EXCEPT !.pc = "mqtt", !.esUrl = FALSE,
                                   !.todo = MqttBindings(rec.key, rec.obj.spec)]
    <3>1. next \in RunningType /\ [next EXCEPT !.errs = TRUE] \in RunningType
      BY <2>1, <2>2 DEF RunningType, Steps
    <3>2. QED
      BY <1>7, <3>1 DEF CreateTrigger
  <2>4. Trigger(rec.key) \in Names
    BY <2>1, RunningFields DEF Trigger, Names, Suffixes
  <2>5. children' \in [Names -> Int] /\ lost' \subseteq Names
    BY <1>7, <2>1, <2>4, CreateType DEF CreateTrigger, TypeOK
  <2>6. QED
    BY <1>7, <2>3, <2>5 DEF CreateTrigger, TypeOK, RecType
<1>8. ASSUME NEW c \in Names, CreateBinding(c) PROVE TypeOK'
  <2>1. rec \in RunningType
    BY <1>8, RunningRec DEF CreateBinding
  <2>2. rec' \in RunningType
    BY <1>8, <2>1, ZenonT(60) DEF CreateBinding, RestOfLoop, RunningType
  <2>3. QED
    BY <1>8, <2>1, <2>2, CreateType DEF CreateBinding, TypeOK, RecType
<1>9. CASE ReadEventStoreQueue
  <2>1. rec \in RunningType /\ infra.esQueue \in BOOLEAN
    BY <1>9, RunningRec DEF ReadEventStoreQueue, At, TypeOK, InfraType
  <2>2. [rec EXCEPT !.pc = "exchange", !.queue = infra.esQueue] \in RunningType
    BY <2>1 DEF RunningType, Steps
  <2>3. QED
    BY <1>9, <2>1, <2>2, FailType DEF ReadEventStoreQueue, TypeOK, RecType
<1>10. CASE ReadExchange
  <2>1. rec \in RunningType
    BY <1>10, RunningRec DEF ReadExchange, At
  <2>2. EventStoreBinding(rec.key) \in Names
    BY <2>1 DEF RunningType, EventStoreBinding, Names, Suffixes
  <2>3. /\ [rec EXCEPT !.pc = "finish", !.errs = TRUE] \in RunningType
        /\ [rec EXCEPT !.pc = "es-binding", !.todo = {EventStoreBinding(rec.key)}]
             \in RunningType
    BY <2>1, <2>2 DEF RunningType, Steps
  <2>4. QED
    BY <1>10, <2>1, <2>3, FailType DEF ReadExchange, GotoWithError, TypeOK, RecType
<1>11. CASE ReadInterfaceQueue
  <2>1. rec \in RunningType
    BY <1>11, RunningRec DEF ReadInterfaceQueue, At
  <2>2. Dispatchers(rec.key, rec.obj.spec) \subseteq Names
    BY <2>1, ChildNames, RunningFields, CRFields
  <2>3. /\ [rec EXCEPT !.pc = "finish", !.queue = FALSE, !.errs = TRUE] \in RunningType
        /\ [rec EXCEPT !.pc = "dispatch", !.queue = FALSE,
                       !.todo = Dispatchers(rec.key, rec.obj.spec)] \in RunningType
    BY <2>1, <2>2 DEF RunningType, Steps
  <2>4. QED
    BY <1>11, <2>1, <2>3, FailType DEF ReadInterfaceQueue, QueueNotFound, TypeOK, RecType
<1>12. CASE Finish
  <2>1. rec \in RunningType
    BY <1>12, RunningRec DEF Finish, AllTried, At
  <2>2. CASE HasErrors
    BY <1>12, <2>1, <2>2, FailType DEF Finish, TypeOK
  <2>3. CASE ~HasErrors
    <3>1. Stored(Running(rec.obj)) \in CRType
      BY <2>1, StoredType
    <3>2. QED
      BY <1>12, <2>3, <3>1 DEF Finish, TypeOK, RecType
  <2>4. QED
    BY <2>2, <2>3
<1>13. ASSUME NEW i \in Ifaces, BackoffExpires(i) \/ SyncTwinInterface(i) \/ SyncKService(i)
       PROVE TypeOK'
  BY <1>13 DEF BackoffExpires, SyncTwinInterface, SyncKService, TypeOK
<1>14. CASE Resync
  BY <1>14 DEF Resync, TypeOK
<1>15. CASE Restart
  BY <1>15 DEF Restart, RecType, TypeOK
<1>16. ASSUME NEW c \in Names, Collect(c) PROVE TypeOK'
  BY <1>16 DEF Collect, NoKService, KServiceType, Names, Absent, TypeOK
<1>17. ASSUME NEW i \in Ifaces, QueueAppears(i) \/ QueueVanishes(i) PROVE TypeOK'
  BY <1>17 DEF QueueAppears, QueueVanishes, TypeOK
<1>18. CASE InfraProgress
  BY <1>18 DEF InfraProgress, InfraType, TypeOK
<1>19. ASSUME NEW i \in Ifaces, NEW s \in Specs, UserCreates(i, s) \/ UserEdits(i, s)
       PROVE TypeOK'
  <2>1. s \in SpecType
    BY SpecsAssumption
  <2>2. twinInterfaces' \in [Ifaces -> CRType]
    <3>1. revision + 1 \in Nat /\ twinInterfaces[i] \in CRType
      BY DEF TypeOK
    <3>2. /\ [NotFound EXCEPT !.uid = revision + 1, !.rv = revision + 1, !.spec = s] \in CRType
          /\ \A kept \in BOOLEAN : [twinInterfaces[i] EXCEPT !.spec = s, !.labelled = kept,
                                                            !.rv = revision + 1] \in CRType
      BY <2>1, <3>1, NotFoundType DEF CRType
    <3>3. CASE UserCreates(i, s)
      BY <3>2, <3>3 DEF UserCreates, TypeOK
    <3>4. CASE UserEdits(i, s)
      <4> DEFINE edited(kept) ==
                   [twinInterfaces[i] EXCEPT !.spec = s, !.labelled = kept, !.rv = revision + 1]
      <4>1. PICK kept \in BOOLEAN : twinInterfaces' = [twinInterfaces EXCEPT ![i] = edited(kept)]
        BY <3>4, EditKeepsOrDrops
      <4>2. edited(kept) \in CRType
        BY <3>2
      <4> HIDE DEF edited
      <4>3. QED
        BY <4>1, <4>2 DEF TypeOK
    <3>5. QED
      BY <1>19, <3>3, <3>4
  <2>3. QED
    BY <1>19, <2>2 DEF UserCreates, UserEdits, TypeOK
<1>20. ASSUME NEW i \in Ifaces, UserDeletes(i) PROVE TypeOK'
  BY <1>20, NotFoundType DEF UserDeletes, TypeOK
<1>21. CASE UNCHANGED vars
  BY <1>21 DEF vars, TypeOK
<1>22. QED
  BY <1>1, <1>2, <1>3, <1>4, <1>5, <1>6, <1>7, <1>8, <1>9, <1>10, <1>11, <1>12, <1>13,
     <1>14, <1>15, <1>16, <1>17, <1>18, <1>19, <1>20, <1>21 DEF Next, ReconcileStep

\* The initial states are well typed.
LEMMA InitType == Init => TypeOK
BY InfraAssumption, NotFoundType DEF Init, TypeOK, NoKService, KServiceType, Absent, RecType

\* Every variable keeps to its type, whatever the interleaving of the controller, the
\* informers, the collector and the users.
THEOREM TypeCorrect == Spec => []TypeOK
BY InitType, TypeStep, PTL DEF Spec

-----------------------------------------------------------------------------
(* The inductive invariant *)

\* A TwinInterface x read under name i is recognised by its version: if the version is
\* the stored one, so is everything else.
Copy(x, i) ==
    /\ x.rv <= revision
    /\ x.rv = 0 => x = NotFound
    /\ x.rv = twinInterfaces[i].rv => x = twinInterfaces[i]

\* Stored, cached and held objects are copies in that sense.
VersionsInv ==
    \A i \in Ifaces : /\ Copy(twinInterfaces[i], i)
                      /\ Copy(crCache[i], i)
                      /\ rec.key = i => Copy(rec.obj, i)

\* The running reconciliation works on what the cache holds, or its key is queued again.
SnapshotInv ==
    rec.pc # "idle" =>
        /\ rec.obj # NotFound
        /\ rec.key \in dirty \/ rec.obj = crCache[rec.key]

\* The children the running reconciliation has not come to yet.
Outstanding ==
    LET i == rec.key
        s == rec.obj.spec
    IN  CASE rec.pc \in {"broker", "eventstore", "service"} -> Desired(i, s)
          [] rec.pc \in {"compare", "update", "trigger"} -> Desired(i, s) \ {Service(i)}
          [] rec.pc = "mqtt" -> rec.todo \union {EventStoreBinding(i)} \union Dispatchers(i, s)
          [] rec.pc = "exchange" -> {EventStoreBinding(i)} \union Dispatchers(i, s)
          [] rec.pc = "es-binding" -> rec.todo \union Dispatchers(i, s)
          [] OTHER -> rec.todo

\* A child is there, or the collector took it from a living interface.
Kept(c) == children[c] # Absent \/ c \in lost

\* The running reconciliation has left behind every child it came to.
ReachedInv == \A c \in Desired(rec.key, rec.obj.spec) \ Outstanding : Kept(c)

\* Past its service steps it has left the Knative service as its spec has it, or marked
\* the comparison as made on a stale copy.
ServiceInv ==
    rec.pc \notin {"idle", "broker", "eventstore", "service", "compare", "update"}
    => UpToDate(rec.key, rec.obj.spec.service)

\* Bindings are given up only after an error.
GivenUpInv == rec.pc = "finish" => rec.errs

\* The running reconciliation has met no error and works on the stored TwinInterface.
OnCourse ==
    /\ rec.pc # "idle" /\ ~rec.errs
    /\ rec.obj = twinInterfaces[rec.key]

ProgressInv == (OnCourse => ReachedInv /\ ServiceInv) /\ GivenUpInv

IInv == /\ TypeOK /\ VersionsInv /\ SnapshotInv /\ ProgressInv
        /\ NeverForgotten /\ ServiceUpToDate

-----------------------------------------------------------------------------
(* What the steps of a reconciliation leave alone *)

\* A step either ends the reconciliation or keeps its key and its object, it takes no
\* key from the queue, and it leaves the cache of TwinInterfaces alone.
LEMMA StepFrame ==
    ASSUME TypeOK, ReconcileStep
    PROVE  /\ rec \in RunningType /\ rec.pc # "idle"
           /\ UNCHANGED <<crCache, dirty>>
           /\ backoff \subseteq backoff'
           /\ \/ rec' = Idle
              \/ rec'.key = rec.key /\ rec'.obj = rec.obj /\ rec'.pc # "idle"
<1> USE DEF apiVars, cacheVars, queueVars, Fail, At, Goto, GotoWithError, GetService
<1>1. rec.pc # "idle"
  BY DEF ReconcileStep, ReadBroker, ReadEventStore, CreateService, CompareService,
         UpdateService, CreateTrigger, CreateBinding, ReadEventStoreQueue, ReadExchange,
         ReadInterfaceQueue, Finish, AllTried
<1>2. rec \in RunningType
  BY <1>1, RunningRec
<1>3. UNCHANGED <<crCache, dirty>> /\ backoff \subseteq backoff'
  BY DEF ReconcileStep, ReadBroker, ReadEventStore, CreateService, CompareService,
         UpdateService, CreateTrigger, CreateBinding, ReadEventStoreQueue, ReadExchange,
         ReadInterfaceQueue, QueueNotFound, Finish
<1>4. rec' = Idle \/ (rec'.key = rec.key /\ rec'.obj = rec.obj /\ rec'.pc # "idle")
  <2> USE <1>1, <1>2 DEF RunningType
  <2>1. CASE ReadBroker \/ ReadEventStore
    BY <2>1 DEF ReadBroker, ReadEventStore
  <2>2. CASE CreateService \/ CompareService \/ UpdateService
    BY <2>2 DEF CreateService, CompareService, UpdateService
  <2>3. CASE CreateTrigger
    BY <2>3 DEF CreateTrigger
  <2>4. ASSUME NEW c \in Names, CreateBinding(c)
        PROVE  rec'.key = rec.key /\ rec'.obj = rec.obj /\ rec'.pc # "idle"
    BY <2>4 DEF CreateBinding
  <2>5. CASE ReadEventStoreQueue \/ ReadExchange
    BY <2>5 DEF ReadEventStoreQueue, ReadExchange
  <2>6. CASE ReadInterfaceQueue
    BY <2>6 DEF ReadInterfaceQueue, QueueNotFound
  <2>7. CASE Finish
    BY <2>7 DEF Finish
  <2>8. QED
    BY <2>1, <2>2, <2>3, <2>4, <2>5, <2>6, <2>7 DEF ReconcileStep
<1>5. QED
  BY <1>1, <1>2, <1>3, <1>4

\* Only the last step writes a TwinInterface.
LEMMA OnlyFinishWrites ==
    ASSUME ReconcileStep, ~Finish
    PROVE  UNCHANGED <<twinInterfaces, revision>>
BY DEF ReconcileStep, ReadBroker, ReadEventStore, CreateService, CompareService,
       UpdateService, CreateTrigger, CreateBinding, ReadEventStoreQueue, ReadExchange,
       ReadInterfaceQueue, apiVars

\* Before the last step, a reconciliation ends only by putting its key back.
LEMMA OnlyFinishEnds ==
    ASSUME TypeOK, ReconcileStep, ~Finish, rec' = Idle
    PROVE  rec.key \in backoff'
<1>1. rec \in RunningType
  BY StepFrame
<1>2. rec'.pc = "idle"
  BY DEF Idle
<1> USE <1>1, <1>2 DEF RunningType
<1>3. ASSUME ReadBroker PROVE FALSE
  BY <1>3 DEF ReadBroker, GotoWithError
<1>4. CASE ReadEventStore
  <2>1. PICK eventStore : GetService(eventStore)
    BY <1>4 DEF ReadEventStore
  <2>2. rec.broker => rec'.pc = "service"
    BY <2>1 DEF GetService
  <2>3. QED
    BY <2>1, <2>2 DEF GetService, Fail
<1>5. ASSUME CreateService PROVE FALSE
  BY <1>5 DEF CreateService, Goto, GotoWithError
<1>6. CASE CompareService
  <2>1. Fail \/ rec'.pc \in {"trigger", "update"}
    BY <1>6 DEF CompareService
  <2>2. QED
    BY <2>1 DEF Fail
<1>7. ASSUME UpdateService PROVE FALSE
  BY <1>7 DEF UpdateService
<1>8. ASSUME CreateTrigger PROVE FALSE
  BY <1>8 DEF CreateTrigger
<1>9. ASSUME NEW c \in Names, CreateBinding(c) PROVE FALSE
  BY <1>9 DEF CreateBinding
<1>10. CASE ReadEventStoreQueue
  <2>1. Fail \/ rec'.pc = "exchange"
    BY <1>10 DEF ReadEventStoreQueue
  <2>2. QED
    BY <2>1 DEF Fail
<1>11. CASE ReadExchange
  <2>1. Fail \/ rec'.pc \in {"finish", "es-binding"}
    BY <1>11 DEF ReadExchange, GotoWithError
  <2>2. QED
    BY <2>1 DEF Fail
<1>12. CASE ReadInterfaceQueue
  <2>1. Fail \/ rec'.pc \in {"finish", "dispatch"}
    BY <1>12 DEF ReadInterfaceQueue, QueueNotFound
  <2>2. QED
    BY <2>1 DEF Fail
<1>13. QED
  BY <1>3, <1>4, <1>5, <1>6, <1>7, <1>8, <1>9, <1>10, <1>11, <1>12 DEF ReconcileStep

-----------------------------------------------------------------------------
(* Versions identify what was read; no edit is lost *)

\* An object written with a version newer than any before is recognised from then on.
LEMMA NewerVersion ==
    ASSUME TypeOK, VersionsInv, NEW i \in Ifaces, NEW x \in CRType,
           revision' = revision + 1, x.rv = revision + 1,
           twinInterfaces' = [twinInterfaces EXCEPT ![i] = x],
           UNCHANGED crCache,
           rec' = rec \/ rec' = Idle
    PROVE  VersionsInv'
<1> USE DEF TypeOK
<1>1. \A j \in Ifaces : crCache[j].rv \in Nat /\ twinInterfaces[j].rv \in Nat
  BY CRFields
<1>2. ASSUME NEW j \in Ifaces, rec'.key = j
      PROVE  rec' = rec /\ rec.obj \in CRType /\ Copy(rec.obj, j)
  <2>1. rec' = rec /\ rec.key = j
    BY <1>2, NoneAssumption DEF Idle
  <2>2. rec.obj \in CRType
    BY <2>1, RunningFields, NoneAssumption DEF RecType, Idle
  <2>3. QED
    BY <2>1, <2>2, CRFields DEF VersionsInv
<1>3. ASSUME NEW j \in Ifaces, j # i
      PROVE  twinInterfaces'[j] = twinInterfaces[j]
  BY <1>3
<1>4. twinInterfaces'[i] = x /\ revision \in Nat
  OBVIOUS
<1>5. ASSUME NEW j \in Ifaces, NEW y \in CRType, Copy(y, j)
      PROVE  Copy(y, j)'
  <2>1. y.rv \in Nat
    BY CRFields
  <2>2. CASE j = i
    BY <1>4, <1>5, <2>1, <2>2 DEF Copy
  <2>3. CASE j # i
    <3>1. twinInterfaces'[j] = twinInterfaces[j]
      BY <1>3, <2>3
    <3>2. y.rv <= revision'
      BY <1>4, <1>5, <2>1 DEF Copy
    <3>3. QED
      BY <1>5, <3>1, <3>2 DEF Copy
  <2>4. QED
    BY <2>2, <2>3
<1>6. Copy(x, i)'
  BY <1>4 DEF Copy
<1>7. ASSUME NEW j \in Ifaces
      PROVE  Copy(twinInterfaces[j], j)' /\ Copy(crCache[j], j)'
  <2>1. Copy(crCache[j], j)'
    BY <1>5 DEF VersionsInv
  <2>2. CASE j = i
    BY <1>4, <1>6, <2>1, <2>2
  <2>3. CASE j # i
    <3>1. Copy(twinInterfaces[j], j) /\ twinInterfaces[j] \in CRType
      BY DEF VersionsInv
    <3>2. QED
      BY <1>1, <1>3, <2>1, <2>3, <3>1 DEF Copy
  <2>4. QED
    BY <2>2, <2>3
<1>8. ASSUME NEW j \in Ifaces, rec'.key = j
      PROVE  Copy(rec.obj, j)' /\ rec' = rec
  BY <1>2, <1>5, <1>8
<1>9. QED
  BY <1>7, <1>8 DEF VersionsInv

\* No step gives two contents of a TwinInterface the same version: a write takes a version
\* nobody holds.
LEMMA VersionsStep == TypeOK /\ VersionsInv /\ [Next]_vars => VersionsInv'
<1> SUFFICES ASSUME TypeOK, VersionsInv, [Next]_vars PROVE VersionsInv'
  OBVIOUS
<1> USE DEF apiVars, cacheVars
<1>1. ASSUME NEW i \in Ifaces, StartReconcile(i) PROVE VersionsInv'
  <2>1. UNCHANGED <<twinInterfaces, crCache, revision>>
    BY <1>1 DEF StartReconcile
  <2>2. rec' = rec \/ (rec'.key = i /\ rec'.obj = crCache[i])
    BY <1>1 DEF StartReconcile, Idle
  <2>3. QED
    BY <2>1, <2>2 DEF VersionsInv, Copy
<1>2. CASE ReconcileStep /\ ~Finish
  BY <1>2, StepFrame, OnlyFinishWrites, NoneAssumption DEF VersionsInv, Copy, Idle
<1>3. CASE Finish
  <2>1. rec \in RunningType /\ UNCHANGED crCache /\ (rec' = Idle)
    BY <1>3, StepFrame DEF Finish, Fail, ReconcileStep
  <2> DEFINE obj == Running(rec.obj)
  <2>2. CASE UNCHANGED <<twinInterfaces, revision>>
    BY <2>1, <2>2, NoneAssumption DEF VersionsInv, Copy, Idle
  <2>3. CASE /\ twinInterfaces' = [twinInterfaces EXCEPT ![rec.key] = Stored(obj)]
             /\ revision' = revision + 1
             /\ Stored(obj) # twinInterfaces[rec.key]
    <3>1. rec.key \in Ifaces /\ Stored(obj) \in CRType
      BY <2>1, RunningFields, StoredType
    <3>2. Stored(obj).rv = revision + 1
      BY <2>1, <2>3, RunningFields DEF Stored, Running, CRType
    <3>3. QED
      BY <2>1, <2>3, <3>1, <3>2, NewerVersion
  <2>4. QED
    BY <1>3, <2>2, <2>3 DEF Finish, TypeOK
<1>4. ASSUME NEW i \in Ifaces, BackoffExpires(i) \/ SyncTwinInterface(i) \/ SyncKService(i)
      PROVE VersionsInv'
  BY <1>4 DEF BackoffExpires, SyncTwinInterface, SyncKService, VersionsInv, Copy, TypeOK
<1>5. CASE Resync
  BY <1>5 DEF Resync, VersionsInv, Copy
<1>6. CASE Restart
  BY <1>6, NoneAssumption DEF Restart, VersionsInv, Copy, Idle
<1>7. ASSUME NEW c \in Names, Collect(c) PROVE VersionsInv'
  BY <1>7 DEF Collect, VersionsInv, Copy
<1>8. ASSUME NEW i \in Ifaces, QueueAppears(i) \/ QueueVanishes(i) PROVE VersionsInv'
  BY <1>8 DEF QueueAppears, QueueVanishes, VersionsInv, Copy
<1>9. CASE InfraProgress
  BY <1>9 DEF InfraProgress, VersionsInv, Copy
<1>10. ASSUME NEW i \in Ifaces, NEW s \in Specs, UserCreates(i, s) \/ UserEdits(i, s)
       PROVE VersionsInv'
  <2> DEFINE created == [NotFound EXCEPT !.uid = revision + 1, !.rv = revision + 1, !.spec = s]
             edited(kept) == [twinInterfaces[i] EXCEPT !.spec = s, !.labelled = kept,
                                                       !.rv = revision + 1]
  <2>1. created \in CRType /\ \A kept \in BOOLEAN : edited(kept) \in CRType
    <3>1. s \in SpecType /\ revision + 1 \in Nat /\ twinInterfaces[i] \in CRType
      BY SpecsAssumption DEF TypeOK
    <3>2. QED
      BY <3>1, NotFoundType DEF CRType
  <2>2. created.rv = revision + 1 /\ \A kept \in BOOLEAN : edited(kept).rv = revision + 1
    BY DEF NotFound, TypeOK, CRType
  <2>3. \/ twinInterfaces' = [twinInterfaces EXCEPT ![i] = created]
        \/ \E kept \in BOOLEAN : twinInterfaces' = [twinInterfaces EXCEPT ![i] = edited(kept)]
    BY <1>10, EditKeepsOrDrops DEF UserCreates
  <2>4. revision' = revision + 1 /\ UNCHANGED <<crCache, rec>>
    BY <1>10 DEF UserCreates, UserEdits
  <2>5. QED
    BY <2>1, <2>2, <2>3, <2>4, NewerVersion
<1>11. ASSUME NEW i \in Ifaces, UserDeletes(i) PROVE VersionsInv'
  <2>1. UNCHANGED <<crCache, rec, revision>>
    BY <1>11 DEF UserDeletes, cacheVars
  <2>2. /\ twinInterfaces'[i] = NotFound /\ NotFound.rv = 0 /\ revision \in Nat
        /\ \A j \in Ifaces \ {i} : twinInterfaces'[j] = twinInterfaces[j]
    BY <1>11 DEF UserDeletes, TypeOK, NotFound
  <2>3. ASSUME NEW j \in Ifaces, NEW x, Copy(x, j)
        PROVE  x.rv <= revision /\ (x.rv = 0 => x = NotFound)
               /\ (x.rv = twinInterfaces'[j].rv => x = twinInterfaces'[j])
    BY <2>2, <2>3 DEF Copy
  <2>4. ASSUME NEW j \in Ifaces
        PROVE  twinInterfaces'[j].rv <= revision
               /\ (twinInterfaces'[j].rv = 0 => twinInterfaces'[j] = NotFound)
    BY <2>2 DEF VersionsInv, Copy
  <2>5. QED
    BY <2>1, <2>3, <2>4 DEF VersionsInv, Copy
<1>12. CASE UNCHANGED vars
  BY <1>12 DEF vars, VersionsInv, Copy
<1>13. QED
  BY <1>1, <1>2, <1>3, <1>4, <1>5, <1>6, <1>7, <1>8, <1>9, <1>10, <1>11, <1>12
  DEF Next, ReconcileStep

\* Nothing has been read initially, so every copy is the stored NotFound.
LEMMA InitVersions == Init => VersionsInv
<1> SUFFICES ASSUME Init PROVE VersionsInv
  OBVIOUS
<1>1. revision = 0 /\ NotFound.rv = 0 /\ \A i \in Ifaces : rec.key # i
  BY NoneAssumption DEF Init, NotFound, Idle
<1>2. \A i \in Ifaces : twinInterfaces[i] = NotFound /\ crCache[i] = NotFound
  BY DEF Init
<1>3. QED
  BY <1>1, <1>2 DEF VersionsInv, Copy

\* Updating the whole object as it was read never overwrites an edit: a step that is not
\* a user's leaves the spec of every interface as it is.
THEOREM EditsSurvive == Spec => NoLostEdit
<1>2. TypeOK /\ VersionsInv /\ [Next]_vars =>
        [edits' = edits =>
           \A i \in Ifaces : Live(i) /\ Live(i)' =>
               twinInterfaces'[i].spec = twinInterfaces[i].spec]_vars
  <2> SUFFICES ASSUME TypeOK, VersionsInv, Next, edits' = edits,
                      NEW i \in Ifaces, Live(i), Live(i)'
               PROVE  twinInterfaces'[i].spec = twinInterfaces[i].spec
    BY DEF vars, apiVars
  <2>1. CASE UNCHANGED twinInterfaces
    BY <2>1
  <2>2. CASE Finish
    <3>1. rec \in RunningType
      BY <2>2, StepFrame DEF ReconcileStep
    <3> DEFINE obj == Running(rec.obj)
    <3>2. CASE /\ UpdateAccepted(obj)
               /\ twinInterfaces' = [twinInterfaces EXCEPT ![rec.key] = Stored(obj)]
      <4>1. rec.key \in Ifaces /\ rec.obj \in CRType
        BY <3>1, RunningFields
      <4>2. obj.rv = rec.obj.rv /\ obj.spec = rec.obj.spec
        BY <4>1 DEF Running, CRType
      <4>3. rec.obj = twinInterfaces[rec.key]
        BY <3>2, <4>1, <4>2 DEF UpdateAccepted, VersionsInv, Copy
      <4>4. Stored(obj).spec = obj.spec
        BY <4>1, <4>2, <4>3 DEF Stored, Running, CRType
      <4>5. QED
        BY <3>2, <4>1, <4>2, <4>3, <4>4 DEF TypeOK
    <3>3. QED
      BY <2>1, <2>2, <3>2 DEF Finish
  <2>3. ASSUME NEW j \in Ifaces, NEW s \in Specs, UserCreates(j, s) \/ UserEdits(j, s)
        PROVE  FALSE
    BY <2>3 DEF UserCreates, UserEdits, TypeOK
  <2>4. ASSUME NEW j \in Ifaces, UserDeletes(j)
        PROVE  twinInterfaces'[i].spec = twinInterfaces[i].spec
    BY <2>4 DEF UserDeletes, Live, TypeOK
  <2>5. ASSUME NEW j \in Ifaces,
               \/ StartReconcile(j) \/ BackoffExpires(j) \/ SyncTwinInterface(j)
               \/ SyncKService(j) \/ QueueAppears(j) \/ QueueVanishes(j)
        PROVE  UNCHANGED twinInterfaces
    BY <2>5 DEF StartReconcile, BackoffExpires, SyncTwinInterface, SyncKService,
                QueueAppears, QueueVanishes, apiVars
  <2>6. ASSUME Resync \/ Restart \/ InfraProgress \/ \E c \in Names : Collect(c)
        PROVE  UNCHANGED twinInterfaces
    BY <2>6 DEF Resync, Restart, InfraProgress, Collect, apiVars
  <2>7. QED
    BY <2>1, <2>2, <2>3, <2>4, <2>5, <2>6, OnlyFinishWrites DEF Next
<1>3. QED
  BY <1>2, InitVersions, VersionsStep, TypeCorrect, PTL DEF Spec, NoLostEdit

-----------------------------------------------------------------------------
(* The reconciliation works on the cached object *)

\* Every step preserves SnapshotInv: what changes the cache queues the key.
LEMMA SnapshotStep ==
    TypeOK /\ SnapshotInv /\ [Next]_vars => SnapshotInv'
<1> SUFFICES ASSUME TypeOK, SnapshotInv, [Next]_vars PROVE SnapshotInv'
  OBVIOUS
<1> USE DEF apiVars, cacheVars, queueVars
<1>1. ASSUME NEW i \in Ifaces, StartReconcile(i) PROVE SnapshotInv'
  <2>1. \/ UNCHANGED <<rec, crCache>> /\ rec.pc = "idle"
        \/ /\ crCache[i] # NotFound /\ rec'.key = i /\ rec'.obj = crCache[i]
           /\ UNCHANGED crCache
    BY <1>1 DEF StartReconcile, Idle, At
  <2>2. QED
    BY <2>1 DEF SnapshotInv
<1>2. CASE ReconcileStep
  BY <1>2, StepFrame DEF SnapshotInv, Idle
<1>3. ASSUME NEW i \in Ifaces, BackoffExpires(i) \/ SyncTwinInterface(i) \/ SyncKService(i)
      PROVE SnapshotInv'
  <2>1. UNCHANGED rec /\ dirty \subseteq dirty'
    BY <1>3 DEF BackoffExpires, SyncTwinInterface, SyncKService
  <2>2. ASSUME rec.pc # "idle"
        PROVE  rec.key \in dirty' \/ crCache'[rec.key] = crCache[rec.key]
    <3>1. rec.key \in Ifaces
      BY <2>2, RunningRec, RunningFields
    <3>2. QED
      BY <1>3, <3>1 DEF BackoffExpires, SyncTwinInterface, SyncKService, TypeOK
  <2>3. QED
    BY <2>1, <2>2 DEF SnapshotInv
<1>4. CASE Resync
  BY <1>4 DEF Resync, SnapshotInv
<1>5. CASE Restart
  BY <1>5 DEF Restart, SnapshotInv, Idle
<1>6. ASSUME NEW c \in Names, Collect(c) PROVE SnapshotInv'
  BY <1>6 DEF Collect, SnapshotInv
<1>7. ASSUME NEW i \in Ifaces, QueueAppears(i) \/ QueueVanishes(i) PROVE SnapshotInv'
  BY <1>7 DEF QueueAppears, QueueVanishes, SnapshotInv
<1>8. CASE InfraProgress
  BY <1>8 DEF InfraProgress, SnapshotInv
<1>9. ASSUME NEW i \in Ifaces, NEW s \in Specs, UserCreates(i, s) \/ UserEdits(i, s)
      PROVE SnapshotInv'
  BY <1>9 DEF UserCreates, UserEdits, SnapshotInv
<1>10. ASSUME NEW i \in Ifaces, UserDeletes(i) PROVE SnapshotInv'
  BY <1>10 DEF UserDeletes, SnapshotInv
<1>11. CASE UNCHANGED vars
  BY <1>11 DEF vars, SnapshotInv
<1>12. QED
  BY <1>1, <1>2, <1>3, <1>4, <1>5, <1>6, <1>7, <1>8, <1>9, <1>10, <1>11 DEF Next

-----------------------------------------------------------------------------
(* A reconciliation leaves no child behind that it came to *)

\* Children are told apart by what they are, and belong to the interface they are named for.
LEMMA DesiredNames ==
    ASSUME NEW i \in Ifaces, NEW s \in SpecType
    PROVE  /\ Desired(i, s) \subseteq Names
           /\ \A c \in Desired(i, s) : c[1] = i
<1>1. Desired(i, s) \subseteq Names
  BY ChildNames DEF Desired
<1>2. \A c \in MqttBindings(i, s) \union Dispatchers(i, s) : c[1] = i
  BY DEF MqttBindings, Dispatchers, RelationshipBindings, CommandBindings
<1>3. Service(i)[1] = i /\ Trigger(i)[1] = i /\ EventStoreBinding(i)[1] = i
  BY DEF Service, Trigger, EventStoreBinding
<1>4. QED
  BY <1>1, <1>2, <1>3 DEF Desired

\* The owner reference a child is created with tells it from no child at all.
LEMMA OwnerPresent ==
    ASSUME rec \in RunningType
    PROVE  OwnerReference(rec.obj) # Absent
<1>1. rec.obj \in CRType
  BY RunningFields
<1>2. rec.obj.uid \in Nat
  BY <1>1, CRFields
<1>3. QED
  BY <1>2 DEF OwnerReference, Absent

\* A reconciliation only ever adds children.
LEMMA KeptByReconcile ==
    ASSUME TypeOK, ReconcileStep, NEW c \in Names, Kept(c)
    PROVE  Kept(c)'
<1>1. OwnerReference(rec.obj) # Absent
  BY StepFrame, OwnerPresent
<1>2. ASSUME NEW d \in Names, Create(d) PROVE Kept(c)'
  BY <1>1, <1>2 DEF Create, Kept, TypeOK
<1> USE DEF apiVars, historyVars
<1>3. CASE ReadBroker \/ ReadEventStore \/ CompareService \/ UpdateService
  BY <1>3 DEF ReadBroker, ReadEventStore, CompareService, UpdateService, Kept
<1>4. CASE CreateService
  BY <1>1, <1>4 DEF CreateService, Kept, TypeOK
<1>5. CASE CreateTrigger
  <2>1. Trigger(rec.key) \in Names
    BY StepFrame, RunningFields DEF Trigger, Names, Suffixes
  <2>2. QED
    BY <1>2, <1>5, <2>1 DEF CreateTrigger, Kept
<1>6. ASSUME NEW d \in Names, CreateBinding(d) PROVE Kept(c)'
  BY <1>2, <1>6 DEF CreateBinding, Kept
<1>7. CASE ReadEventStoreQueue \/ ReadExchange \/ ReadInterfaceQueue \/ Finish
  BY <1>7 DEF ReadEventStoreQueue, ReadExchange, ReadInterfaceQueue, Finish, Kept
<1>8. QED
  BY <1>3, <1>4, <1>5, <1>6, <1>7 DEF ReconcileStep

\* What Create leaves.
LEMMA KeptByCreate ==
    ASSUME TypeOK, rec \in RunningType, NEW c \in Names, Create(c)
    PROVE  Kept(c)'
<1>1. OwnerReference(rec.obj) # Absent
  BY OwnerPresent
<1>2. CASE children[c] = Absent
  BY <1>1, <1>2 DEF Create, Kept, TypeOK
<1>3. CASE children[c] # Absent
  BY <1>3 DEF Create, Kept
<1>4. QED
  BY <1>2, <1>3

\* ReadEventStore ends the reconciliation or leads to the service.
LEMMA EventStoreRead ==
    ASSUME rec \in RunningType, ReadEventStore, rec' # Idle
    PROVE  rec.pc = "eventstore" /\ rec'.pc = "service"
BY DEF ReadEventStore, GetService, RunningType, Fail, At

\* A child the reconciliation has come to with this step was created or found by it.
LEMMA ReconcileReaches ==
    ASSUME TypeOK, ReconcileStep, rec' # Idle, ~rec'.errs,
           NEW c \in Desired(rec.key, rec.obj.spec), c \in Outstanding, c \notin Outstanding'
    PROVE  Kept(c)'
<1> DEFINE i == rec.key
           s == rec.obj.spec
<1>1. rec \in RunningType /\ i \in Ifaces /\ s \in SpecType /\ rec'.key = i /\ rec'.obj = rec.obj
  BY StepFrame, RunningFields, CRFields
<1>2. c \in Names
  BY <1>1, DesiredNames
<1> USE DEF Outstanding, At, Goto, GotoWithError, Fail, RunningType
<1>3. ASSUME ReadBroker PROVE FALSE
  BY <1>1, <1>3 DEF ReadBroker
<1>4. ASSUME ReadEventStore PROVE FALSE
  <2>1. rec.pc = "eventstore" /\ rec'.pc = "service"
    BY <1>1, <1>4, EventStoreRead
  <2>2. QED
    BY <1>1, <2>1
<1>5. CASE CreateService
  <2>1. c = Service(i)
    BY <1>1, <1>5 DEF CreateService
  <2>2. QED
    BY <1>1, <1>2, <1>5, <2>1, OwnerPresent DEF CreateService, Kept, TypeOK, apiVars
<1>6. ASSUME CompareService PROVE FALSE
  BY <1>1, <1>6 DEF CompareService
<1>7. ASSUME UpdateService PROVE FALSE
  BY <1>1, <1>7 DEF UpdateService
<1>8. CASE CreateTrigger
  <2>1. rec'.pc = "mqtt" /\ rec'.todo = MqttBindings(i, s)
    BY <1>1, <1>8 DEF CreateTrigger
  <2>2. c = Trigger(i)
    BY <1>1, <1>8, <2>1 DEF CreateTrigger, Desired
  <2>3. Create(c)
    BY <1>1, <1>8, <2>2 DEF CreateTrigger
  <2>4. QED
    BY <1>1, <1>2, <2>3, KeptByCreate
<1>9. ASSUME NEW d \in Names, CreateBinding(d) PROVE Kept(c)'
  <2>1. rec'.pc = rec.pc /\ rec'.todo = rec.todo \ {d}
    BY <1>1, <1>9 DEF CreateBinding, RestOfLoop
  <2>2. c = d
    BY <1>1, <1>9, <2>1 DEF CreateBinding
  <2>3. Create(c)
    BY <1>1, <1>9, <2>2 DEF CreateBinding
  <2>4. QED
    BY <1>1, <1>2, <2>3, KeptByCreate
<1>10. ASSUME ReadEventStoreQueue PROVE FALSE
  <2>1. rec' = [rec EXCEPT !.pc = "exchange", !.queue = infra.esQueue] /\ rec.todo = {}
    BY <1>10 DEF ReadEventStoreQueue
  <2>2. QED
    BY <1>1, <1>10, <2>1 DEF ReadEventStoreQueue
<1>11. ASSUME ReadExchange PROVE FALSE
  <2>1. rec' = [rec EXCEPT !.pc = "es-binding", !.todo = {EventStoreBinding(i)}]
    BY <1>1, <1>11 DEF ReadExchange
  <2>2. QED
    BY <1>1, <1>11, <2>1 DEF ReadExchange
<1>12. ASSUME ReadInterfaceQueue PROVE FALSE
  <2>1. rec'.pc = "dispatch" /\ rec'.todo = Dispatchers(i, s) /\ rec.todo = {}
    BY <1>1, <1>12 DEF ReadInterfaceQueue, QueueNotFound
  <2>2. QED
    BY <1>1, <1>12, <2>1 DEF ReadInterfaceQueue
<1>13. ASSUME Finish PROVE FALSE
  BY <1>13 DEF Finish
<1>14. QED
  BY <1>3, <1>4, <1>5, <1>6, <1>7, <1>8, <1>9, <1>10, <1>11, <1>12, <1>13 DEF ReconcileStep

\* The service as it is built has the template of the spec.
LEMMA NewKServiceFollows == Follows(NewKService, rec.obj.spec.service)
BY DEF NewKService, Follows

\* The service steps of a reconciliation preserve ServiceInv.
LEMMA ReconcileService ==
    ASSUME TypeOK, ReconcileStep, OnCourse, OnCourse => ServiceInv, rec' # Idle, ~rec'.errs
    PROVE  ServiceInv'
<1>1. rec \in RunningType /\ rec.key \in Ifaces /\ rec'.key = rec.key /\ rec'.obj = rec.obj
  BY StepFrame, RunningFields
<1> USE DEF OnCourse, ServiceInv, UpToDate, Follows, At, Goto, GotoWithError, Fail, RunningType, apiVars,
            historyVars
<1>2. CASE ReadBroker \/ ReadEventStore
  BY <1>1, <1>2 DEF ReadBroker, ReadEventStore, GetService
<1>3. CASE CreateService
  <2>1. CASE kservices'[rec.key] = NewKService
    <3>1. Follows(kservices'[rec.key], rec.obj.spec.service)
      BY <2>1, NewKServiceFollows
    <3>2. QED
      BY <1>1, <3>1
  <2>2. CASE kservices'[rec.key] # NewKService
    <3>1. rec'.errs \/ rec'.pc = "compare"
      BY <1>1, <1>3, <2>2 DEF CreateService, TypeOK
    <3>2. QED
      BY <1>1, <3>1
  <2>3. QED
    BY <2>1, <2>2
<1>4. CASE CompareService
  <2>1. CASE rec'.pc = "update"
    BY <2>1
  <2>2. CASE rec'.pc # "update"
    <3>1. CompareTwinService(kCache[rec.key], NewKService)
      BY <1>1, <1>4, <2>2 DEF CompareService
    <3>2. Follows(kCache[rec.key], rec.obj.spec.service) /\ rec.obj.spec.service \in Autoscaled
      BY <3>1 DEF CompareTwinService, NewKService
    <3>3. kservices' = kservices /\ (kCache[rec.key] # kservices[rec.key] => rec.key \in misjudged')
      BY <1>1, <1>4 DEF CompareService
    <3>4. QED
      BY <1>1, <3>2, <3>3
  <2>3. QED
    BY <2>1, <2>2
<1>5. CASE UpdateService
  <2>1. kservices'[rec.key] = NewKService \/ SameContent(kservices[rec.key], NewKService)
    BY <1>1, <1>5 DEF UpdateService, TypeOK
  <2>2. SameContent(kservices[rec.key], NewKService) => kservices' = kservices
    BY <1>1, <1>5 DEF UpdateService
  <2>3. Follows(kservices'[rec.key], rec.obj.spec.service)
    BY <2>1, <2>2, NewKServiceFollows DEF SameContent, NewKService
  <2>4. QED
    BY <1>1, <2>3
<1>6. CASE CreateTrigger
  BY <1>1, <1>6 DEF CreateTrigger
<1>7. ASSUME NEW c \in Names, CreateBinding(c) PROVE ServiceInv'
  BY <1>1, <1>7 DEF CreateBinding
<1>8. CASE ReadEventStoreQueue
  BY <1>1, <1>8 DEF ReadEventStoreQueue
<1>9. CASE ReadExchange
  BY <1>1, <1>9 DEF ReadExchange
<1>10. CASE ReadInterfaceQueue
  BY <1>1, <1>10 DEF ReadInterfaceQueue, QueueNotFound
<1>11. CASE Finish
  BY <1>11 DEF Finish
<1>12. QED
  BY <1>2, <1>3, <1>4, <1>5, <1>6, <1>7, <1>8, <1>9, <1>10, <1>11 DEF ReconcileStep

\* An error noted is not forgotten, and only an error sends a reconciliation to its end.
LEMMA ErrorsStay ==
    ASSUME TypeOK, ReconcileStep, GivenUpInv
    PROVE  GivenUpInv' /\ (rec' # Idle /\ rec.errs => rec'.errs)
<1> DEFINE ErrorKept == (rec.errs => rec'.errs) /\ (rec'.pc = "finish" => rec'.errs)
<1>1. rec \in RunningType
  BY StepFrame
<1> USE DEF At, Goto, GotoWithError, Fail, RunningType
<1>2. ASSUME ReadBroker PROVE rec' = Idle \/ ErrorKept
  BY <1>1, <1>2 DEF ReadBroker
<1>3. ASSUME ReadEventStore PROVE rec' = Idle \/ ErrorKept
  BY <1>1, <1>3 DEF ReadEventStore, GetService
<1>4. ASSUME CreateService PROVE rec' = Idle \/ ErrorKept
  BY <1>1, <1>4 DEF CreateService
<1>5. ASSUME CompareService PROVE rec' = Idle \/ ErrorKept
  BY <1>1, <1>5 DEF CompareService
<1>6. ASSUME UpdateService PROVE rec' = Idle \/ ErrorKept
  BY <1>1, <1>6 DEF UpdateService
<1>7. ASSUME CreateTrigger PROVE rec' = Idle \/ ErrorKept
  BY <1>1, <1>7 DEF CreateTrigger
<1>8. ASSUME NEW c \in Names, CreateBinding(c) PROVE ErrorKept
  BY <1>1, <1>8 DEF CreateBinding
<1>9. ASSUME ReadEventStoreQueue PROVE rec' = Idle \/ ErrorKept
  BY <1>1, <1>9 DEF ReadEventStoreQueue
<1>10. ASSUME ReadExchange PROVE rec' = Idle \/ ErrorKept
  BY <1>1, <1>10 DEF ReadExchange
<1>11. ASSUME ReadInterfaceQueue PROVE rec' = Idle \/ ErrorKept
  BY <1>1, <1>11 DEF ReadInterfaceQueue, QueueNotFound
<1>12. ASSUME Finish PROVE rec' = Idle \/ ErrorKept
  BY <1>12 DEF Finish
<1>13. rec' = Idle \/ ErrorKept
  BY <1>2, <1>3, <1>4, <1>5, <1>6, <1>7, <1>8, <1>9, <1>10, <1>11, <1>12 DEF ReconcileStep
<1>14. QED
  BY <1>13 DEF GivenUpInv, Idle

-----------------------------------------------------------------------------
(* The running reconciliation makes progress, whatever happens around it *)

\* The steps of a reconciliation preserve ProgressInv.
LEMMA ReconcileProgress ==
    ASSUME TypeOK, ReconcileStep, ProgressInv
    PROVE  ProgressInv'
<1>1. GivenUpInv' /\ (rec' # Idle /\ rec.errs => rec'.errs)
  BY ErrorsStay DEF ProgressInv
<1>2. ASSUME OnCourse' PROVE ReachedInv' /\ ServiceInv'
  <2>1. rec' # Idle /\ rec'.pc # "idle" /\ ~rec'.errs /\ ~rec.errs
    BY <1>1, <1>2 DEF OnCourse, Idle
  <2>2. ~Finish
    BY <2>1 DEF Finish, Fail
  <2>3. /\ UNCHANGED <<crCache, dirty, twinInterfaces>> /\ rec.pc # "idle"
        /\ rec'.key = rec.key /\ rec'.obj = rec.obj /\ rec \in RunningType
    BY <2>1, <2>2, StepFrame, OnlyFinishWrites
  <2>4. OnCourse /\ ReachedInv
    BY <1>2, <2>1, <2>3 DEF OnCourse, ProgressInv
  <2>5. ServiceInv'
    BY <2>1, <2>4, ReconcileService DEF ProgressInv
  <2>6. ASSUME NEW c \in Desired(rec.key, rec.obj.spec), c \notin Outstanding'
        PROVE  Kept(c)'
    <3>1. c \in Names
      BY <2>3, RunningFields, CRFields, DesiredNames
    <3>2. CASE c \in Outstanding
      BY <2>1, <2>6, <3>2, ReconcileReaches
    <3>3. CASE c \notin Outstanding
      BY <2>4, <2>6, <3>1, <3>3, KeptByReconcile DEF ReachedInv
    <3>4. QED
      BY <3>2, <3>3
  <2>7. ReachedInv'
    BY <2>3, <2>6 DEF ReachedInv
  <2>8. QED
    BY <2>5, <2>7
<1>3. QED
  BY <1>1, <1>2 DEF ProgressInv

\* A step that leaves the reconciliation, the children and the stored object alone.
LEMMA QuietProgress ==
    ASSUME ProgressInv, UNCHANGED <<rec, children, lost, kservices, misjudged>>,
           OnCourse' => OnCourse
    PROVE  ProgressInv'
BY DEF ProgressInv, ReachedInv, ServiceInv, GivenUpInv, Outstanding, Kept, UpToDate, Follows

\* A reconciliation that starts has everything outstanding.
LEMMA StartProgress ==
    ASSUME TypeOK, NEW i \in Ifaces, StartReconcile(i), ProgressInv
    PROVE  ProgressInv'
<1> DEFINE s == crCache[i].spec
           begin == [Idle EXCEPT !.key = i, !.obj = crCache[i]]
<1>1. CASE rec' = rec
  BY <1>1 DEF StartReconcile, At, ProgressInv, OnCourse, GivenUpInv
<1>2. CASE s.service # NONE /\ rec' = [begin EXCEPT !.pc = "broker"]
  <2>1. rec'.pc = "broker" /\ rec'.key = i /\ rec'.obj = crCache[i]
    BY <1>2 DEF Idle
  <2>2. QED
    BY <2>1 DEF ProgressInv, ReachedInv, ServiceInv, GivenUpInv, Outstanding
<1>3. CASE s.service = NONE /\ rec' = [begin EXCEPT !.pc = "mqtt", !.todo = MqttBindings(i, s)]
  <2>1. /\ rec'.pc = "mqtt" /\ rec'.key = i /\ rec'.obj = crCache[i]
        /\ rec'.todo = MqttBindings(i, s)
    BY <1>3 DEF Idle
  <2>2. QED
    BY <1>3, <2>1
    DEF ProgressInv, ReachedInv, ServiceInv, GivenUpInv, Outstanding, Desired, UpToDate, Follows
<1>4. QED
  BY <1>1, <1>2, <1>3 DEF StartReconcile

\* The collector takes a child of a living interface into lost, and a service it takes
\* is absent.
LEMMA CollectProgress ==
    ASSUME TypeOK, SnapshotInv, NEW c \in Names, Collect(c), ProgressInv
    PROVE  ProgressInv'
<1>1. UNCHANGED <<rec, dirty, crCache, twinInterfaces, misjudged>>
  BY DEF Collect, cacheVars, queueVars
<1>2. ASSUME OnCourse PROVE ReachedInv' /\ ServiceInv'
  <2>1. rec \in RunningType /\ rec.key \in Ifaces /\ rec.obj \in CRType
    BY <1>2, RunningRec, RunningFields DEF OnCourse
  <2>2. Live(rec.key)
    BY <1>2, <2>1 DEF OnCourse, SnapshotInv, Live
  <2>3. ASSUME NEW d \in Desired(rec.key, rec.obj.spec), Kept(d)
        PROVE  Kept(d)'
    <3>1. d \in Names /\ d[1] = rec.key
      BY <2>1, CRFields, DesiredNames
    <3>2. CASE d = c
      BY <2>2, <3>1, <3>2 DEF Collect, Kept
    <3>3. CASE d # c
      BY <2>3, <3>1, <3>3 DEF Collect, Kept, TypeOK
    <3>4. QED
      BY <3>2, <3>3
  <2>4. ReachedInv'
    BY <1>1, <1>2, <2>3 DEF ProgressInv, ReachedInv, Outstanding
  <2>5. kservices'[rec.key] = kservices[rec.key] \/ kservices'[rec.key] = NoKService
    BY <2>1 DEF Collect, TypeOK
  <2>6. ServiceInv'
    BY <1>1, <1>2, <2>5 DEF ProgressInv, ServiceInv, UpToDate, Follows
  <2>7. QED
    BY <2>4, <2>6
<1>3. QED
  BY <1>1, <1>2 DEF ProgressInv, OnCourse, GivenUpInv

\* A user's write gives the TwinInterface a version nothing has had.
LEMMA UserWritesNewVersion ==
    ASSUME TypeOK, NEW i \in Ifaces, NEW s \in Specs, UserCreates(i, s) \/ UserEdits(i, s)
    PROVE  twinInterfaces'[i].rv = revision + 1
<1>1. CASE UserCreates(i, s)
  BY <1>1 DEF UserCreates, NotFound, TypeOK
<1>2. CASE UserEdits(i, s)
  <2>1. twinInterfaces[i] \in CRType
    BY DEF TypeOK
  <2>2. QED
    BY <1>2, <2>1 DEF UserEdits, TypeOK, CRType
<1>3. QED
  BY <1>1, <1>2

\* What a user does takes the reconciliation off course: what it has read is behind.
LEMMA UserProgress ==
    ASSUME TypeOK, VersionsInv, SnapshotInv, ProgressInv, NEW i \in Ifaces,
           (\E s \in Specs : UserCreates(i, s) \/ UserEdits(i, s)) \/ UserDeletes(i)
    PROVE  ProgressInv'
<1>1. UNCHANGED <<rec, dirty, crCache, children, kservices, misjudged>>
  BY DEF UserCreates, UserEdits, UserDeletes, cacheVars, queueVars, historyVars
<1>2. \A j \in Ifaces : j # i => twinInterfaces'[j] = twinInterfaces[j]
  BY DEF UserCreates, UserEdits, UserDeletes, TypeOK
<1>3. ASSUME OnCourse' PROVE ReachedInv' /\ ServiceInv'
  <2>1. rec \in RunningType /\ rec.key \in Ifaces /\ rec.obj \in CRType
    BY <1>1, <1>3, RunningRec, RunningFields DEF OnCourse
  <2>2. rec.obj # NotFound
    BY <1>1, <1>3 DEF OnCourse, SnapshotInv
  <2>3. rec.key # i
    <3>1. SUFFICES ASSUME rec.key = i PROVE FALSE
      OBVIOUS
    <3>2. rec.obj = twinInterfaces'[i]
      BY <1>1, <1>3, <3>1 DEF OnCourse
    <3>3. CASE UserDeletes(i)
      BY <2>2, <3>1, <3>2, <3>3 DEF UserDeletes, TypeOK
    <3>4. CASE \E s \in Specs : UserCreates(i, s) \/ UserEdits(i, s)
      <4>1. twinInterfaces'[i].rv = revision + 1
        BY <3>4, UserWritesNewVersion
      <4>2. rec.obj.rv <= revision /\ rec.obj.rv \in Nat /\ revision \in Nat
        BY <2>1, <3>1, CRFields DEF VersionsInv, Copy, TypeOK
      <4>3. QED
        BY <3>2, <4>1, <4>2
    <3>5. QED
      BY <3>3, <3>4
  <2>4. OnCourse
    BY <1>1, <1>2, <1>3, <2>1, <2>3 DEF OnCourse
  <2>5. ASSUME NEW c \in Desired(rec.key, rec.obj.spec), Kept(c)
        PROVE  Kept(c)'
    <3>1. c[1] # i
      BY <2>1, <2>3, CRFields, DesiredNames
    <3>2. QED
      BY <1>1, <2>5, <3>1 DEF UserCreates, UserEdits, UserDeletes, historyVars, Kept
  <2>6. QED
    BY <1>1, <2>4, <2>5
    DEF ProgressInv, ReachedInv, ServiceInv, Outstanding, UpToDate, Follows
<1>4. QED
  BY <1>1, <1>3 DEF ProgressInv, GivenUpInv

\* Every step preserves ProgressInv.
LEMMA ProgressStep ==
    TypeOK /\ VersionsInv /\ SnapshotInv /\ ProgressInv /\ [Next]_vars => ProgressInv'
<1> SUFFICES ASSUME TypeOK, VersionsInv, SnapshotInv, ProgressInv, [Next]_vars
             PROVE  ProgressInv'
  OBVIOUS
<1> USE DEF apiVars, cacheVars, queueVars, historyVars
<1>1. ASSUME NEW i \in Ifaces, SyncTwinInterface(i) PROVE ProgressInv'
  BY <1>1, QuietProgress DEF SyncTwinInterface, OnCourse
<1>2. ASSUME NEW i \in Ifaces, BackoffExpires(i) \/ SyncKService(i) PROVE ProgressInv'
  BY <1>2, QuietProgress DEF BackoffExpires, SyncKService, OnCourse
<1>3. CASE Resync
  BY <1>3, QuietProgress DEF Resync, OnCourse
<1>4. CASE Restart
  BY <1>4 DEF Restart, ProgressInv, OnCourse, GivenUpInv, Idle
<1>5. ASSUME NEW i \in Ifaces, QueueAppears(i) \/ QueueVanishes(i) PROVE ProgressInv'
  BY <1>5, QuietProgress DEF QueueAppears, QueueVanishes, OnCourse
<1>6. CASE InfraProgress
  BY <1>6, QuietProgress DEF InfraProgress, OnCourse
<1>7. CASE UNCHANGED vars
  BY <1>7, QuietProgress DEF vars, OnCourse
<1>8. QED
  BY <1>1, <1>2, <1>3, <1>4, <1>5, <1>6, <1>7, ReconcileProgress, StartProgress,
     CollectProgress, UserProgress DEF Next

-----------------------------------------------------------------------------
(* What a settled interface can rely on *)

\* NeverForgotten and ServiceUpToDate, interface by interface.
SettledInv(i) ==
    Settled(i) =>
        /\ \A c \in Desired(i, twinInterfaces[i].spec) : Kept(c)
        /\ UpToDate(i, twinInterfaces[i].spec.service)

\* The two safety properties, taken interface by interface.
LEMMA SettledSplit ==
    (\A i \in Ifaces : SettledInv(i)) <=> NeverForgotten /\ ServiceUpToDate
BY DEF SettledInv, NeverForgotten, ServiceUpToDate, Kept

\* Another interface's reconciliation does not touch what interface i relies on.
LEMMA OthersKService ==
    ASSUME TypeOK, ReconcileStep, NEW i \in Ifaces, i # rec.key
    PROVE  /\ kservices'[i] = kservices[i]
           /\ i \in misjudged <=> i \in misjudged'
<1>1. rec.key \in Ifaces
  BY StepFrame, RunningFields
<1> USE <1>1 DEF apiVars, historyVars, TypeOK
<1>2. CASE ReadBroker \/ ReadEventStore \/ CreateTrigger \/ \E c \in Names : CreateBinding(c)
  BY <1>2 DEF ReadBroker, ReadEventStore, CreateTrigger, CreateBinding
<1>3. CASE CreateService \/ CompareService \/ UpdateService
  BY <1>3 DEF CreateService, CompareService, UpdateService
<1>4. CASE ReadEventStoreQueue \/ ReadExchange \/ ReadInterfaceQueue \/ Finish
  BY <1>4 DEF ReadEventStoreQueue, ReadExchange, ReadInterfaceQueue, Finish
<1>5. QED
  BY <1>2, <1>3, <1>4 DEF ReconcileStep

\* When the last step finds no error, every child has been come to.
LEMMA NothingOutstanding ==
    ASSUME Finish, ~rec.errs, GivenUpInv
    PROVE  /\ Desired(rec.key, rec.obj.spec) \intersect Outstanding = {}
           /\ rec.pc \in {"es-binding", "dispatch"}
<1> DEFINE i == rec.key
           s == rec.obj.spec
<1>1. AllTried /\ rec.pc # "finish"
  BY DEF Finish, GivenUpInv
<1>2. CASE rec.pc = "dispatch" /\ rec.todo = {}
  BY <1>2 DEF Outstanding
<1>3. CASE rec.pc = "es-binding" /\ rec.todo = {} /\ s.service = NONE
  <2>1. Outstanding = Dispatchers(i, s)
    BY <1>3 DEF Outstanding
  <2>2. Desired(i, s) = MqttBindings(i, s) \union {EventStoreBinding(i)}
    BY <1>3 DEF Desired
  <2>3. \A c \in Dispatchers(i, s) : c[3] \in {"real-dispatcher", "command-dispatcher"}
    BY DEF Dispatchers, RelationshipBindings, CommandBindings
  <2>4. \A c \in Desired(i, s) : c[3] \in {"real-mqtt-dispatcher", "event-store"}
    BY <2>2 DEF MqttBindings, EventStoreBinding
  <2>5. QED
    BY <1>3, <2>1, <2>3, <2>4
<1>4. QED
  BY <1>1, <1>2, <1>3 DEF AllTried, At

\* A reconciliation lets go of its interface only in Finish, without an error, and then
\* nothing is outstanding.
LEMMA ReconcileSettled ==
    ASSUME TypeOK, VersionsInv, SnapshotInv, ProgressInv, ReconcileStep,
           NEW i \in Ifaces, SettledInv(i)
    PROVE  SettledInv(i)'
<1> SUFFICES ASSUME Settled(i)'
             PROVE  /\ \A c \in Desired(i, twinInterfaces'[i].spec) : Kept(c)'
                    /\ UpToDate(i, twinInterfaces[i].spec.service)'
  BY DEF SettledInv
<1>1. /\ rec \in RunningType /\ rec.key \in Ifaces /\ rec.obj \in CRType /\ rec.pc # "idle"
      /\ UNCHANGED <<crCache, dirty>> /\ backoff \subseteq backoff'
      /\ rec' = Idle \/ rec'.key = rec.key
  BY StepFrame, RunningFields
<1>2. i \notin dirty /\ i \notin backoff /\ crCache[i] = twinInterfaces'[i] /\ rec'.key # i
  BY <1>1 DEF Settled, Pending
<1>3. twinInterfaces'[i] = twinInterfaces[i]
  <2>1. CASE UNCHANGED twinInterfaces
    BY <2>1
  <2>2. CASE Finish /\ i = rec.key /\ ~(UNCHANGED twinInterfaces)
    <3> DEFINE obj == Running(rec.obj)
    <3>1. twinInterfaces' = [twinInterfaces EXCEPT ![rec.key] = Stored(obj)]
      BY <2>2 DEF Finish
    <3>2. twinInterfaces'[i] = Stored(obj)
      BY <2>2, <3>1 DEF TypeOK
    <3>3. CASE Stored(obj) = twinInterfaces[i]
      BY <3>2, <3>3
    <3>4. CASE Stored(obj) # twinInterfaces[i]
      <4>1. Stored(obj).rv = revision + 1
        BY <1>1, <2>2, <3>4 DEF Stored, Running, CRType
      <4>2. crCache[i].rv <= revision /\ crCache[i].rv \in Nat /\ revision \in Nat
        BY CRFields DEF VersionsInv, Copy, TypeOK
      <4>3. QED
        BY <1>2, <3>2, <4>1, <4>2
    <3>5. QED
      BY <3>3, <3>4
  <2>3. CASE Finish /\ i # rec.key
    BY <1>1, <2>3 DEF Finish, TypeOK
  <2>4. QED
    BY <2>1, <2>2, <2>3, OnlyFinishWrites
<1>4. Live(i)
  BY <1>3 DEF Settled, Live
<1>5. ASSUME NEW c \in Desired(i, twinInterfaces[i].spec), Kept(c)
      PROVE  Kept(c)'
  <2>1. c \in Names
    BY CRFields, DesiredNames DEF TypeOK
  <2>2. QED
    BY <1>5, <2>1, KeptByReconcile
<1>6. CASE i # rec.key
  <2>1. Settled(i)
    BY <1>2, <1>3, <1>4, <1>6 DEF Settled, Pending
  <2>2. QED
    BY <1>3, <1>5, <1>6, <2>1, OthersKService DEF SettledInv, UpToDate, Follows
<1>7. CASE i = rec.key
  <2>1. rec' = Idle
    BY <1>1, <1>2, <1>7
  <2>2. Finish
    <3>1. SUFFICES ASSUME ~Finish PROVE FALSE
      OBVIOUS
    <3>2. i \in backoff'
      BY <1>7, <2>1, <3>1, OnlyFinishEnds
    <3>3. QED
      BY <3>2 DEF Settled, Pending
  <2>3. ~rec.errs
    BY <1>7, <2>2 DEF Finish, HasErrors, Fail, Settled, Pending
  <2>4. OnCourse /\ rec.obj = crCache[i] /\ rec.obj = twinInterfaces[i]
    BY <1>1, <1>2, <1>3, <1>7, <2>3 DEF OnCourse, SnapshotInv
  <2>5. Desired(i, rec.obj.spec) \intersect Outstanding = {}
    BY <1>7, <2>2, <2>3, NothingOutstanding DEF ProgressInv
  <2>6. \A c \in Desired(i, twinInterfaces[i].spec) : Kept(c)
    BY <1>7, <2>4, <2>5 DEF ProgressInv, ReachedInv
  <2>7. UNCHANGED <<kservices, misjudged>>
    BY <2>2 DEF Finish, historyVars
  <2>8. rec.pc \notin {"idle", "broker", "eventstore", "service", "compare", "update"}
    BY <2>2 DEF Finish, AllTried, At
  <2>9. UpToDate(i, twinInterfaces[i].spec.service)
    BY <1>7, <2>4, <2>8 DEF ProgressInv, ServiceInv
  <2>10. QED
    BY <1>3, <1>5, <2>6, <2>7, <2>9 DEF UpToDate, Follows
<1>8. QED
  BY <1>6, <1>7

\* A step that leaves the children and the stored objects alone, and lets an interface
\* become settled only if it was.
LEMMA QuietSettled ==
    ASSUME NEW i \in Ifaces, SettledInv(i),
           UNCHANGED <<twinInterfaces, children, lost, kservices, misjudged>>,
           Settled(i)' => Settled(i)
    PROVE  SettledInv(i)'
BY DEF SettledInv, Kept, UpToDate, Follows

\* A user who touches an interface leaves a version its cache does not have.
LEMMA UserSettled ==
    ASSUME TypeOK, VersionsInv, NEW i \in Ifaces, SettledInv(i), NEW j \in Ifaces,
           (\E s \in Specs : UserCreates(j, s) \/ UserEdits(j, s)) \/ UserDeletes(j)
    PROVE  SettledInv(i)'
<1>1. UNCHANGED <<rec, dirty, backoff, crCache, children, kservices, misjudged>>
  BY DEF UserCreates, UserEdits, UserDeletes, cacheVars, queueVars, historyVars
<1>2. CASE i # j
  <2>1. twinInterfaces'[i] = twinInterfaces[i]
    BY <1>2 DEF UserCreates, UserEdits, UserDeletes, TypeOK
  <2>2. Settled(i)' => Settled(i)
    BY <1>1, <2>1 DEF Settled, Pending, Live
  <2>3. ASSUME NEW c \in Desired(i, twinInterfaces[i].spec), Kept(c)
        PROVE  Kept(c)'
    <3>1. c[1] # j
      BY <1>2, CRFields, DesiredNames DEF TypeOK
    <3>2. QED
      BY <1>1, <2>3, <3>1 DEF UserCreates, UserEdits, UserDeletes, historyVars, Kept
  <2>4. QED
    BY <1>1, <2>1, <2>2, <2>3 DEF SettledInv, UpToDate, Follows
<1>3. CASE i = j
  <2>1. ASSUME Settled(i)' PROVE FALSE
    <3>1. CASE UserDeletes(i)
      BY <2>1, <3>1 DEF UserDeletes, Settled, Live, TypeOK
    <3>2. CASE \E s \in Specs : UserCreates(i, s) \/ UserEdits(i, s)
      <4>1. twinInterfaces'[i].rv = revision + 1
        BY <3>2, UserWritesNewVersion
      <4>2. crCache[i].rv <= revision /\ crCache[i].rv \in Nat /\ revision \in Nat
        BY CRFields DEF VersionsInv, Copy, TypeOK
      <4>3. crCache[i] = twinInterfaces'[i]
        BY <1>1, <2>1 DEF Settled, Pending
      <4>4. QED
        BY <4>1, <4>2, <4>3
    <3>3. QED
      BY <1>3, <3>1, <3>2
  <2>2. QED
    BY <2>1 DEF SettledInv
<1>4. QED
  BY <1>2, <1>3

\* The collector takes nothing from a settled interface that lost does not record.
LEMMA CollectSettled ==
    ASSUME TypeOK, NEW i \in Ifaces, SettledInv(i), NEW c \in Names, Collect(c)
    PROVE  SettledInv(i)'
<1>1. UNCHANGED <<rec, dirty, backoff, crCache, twinInterfaces, misjudged>>
  BY DEF Collect, cacheVars, queueVars
<1>2. ASSUME Settled(i), NEW d \in Desired(i, twinInterfaces[i].spec), Kept(d)
      PROVE  Kept(d)'
  <2>1. d \in Names /\ d[1] = i
    BY CRFields, DesiredNames DEF TypeOK
  <2>2. CASE d = c
    BY <1>2, <2>1, <2>2 DEF Collect, Kept, Settled
  <2>3. CASE d # c
    BY <1>2, <2>1, <2>3 DEF Collect, Kept, TypeOK
  <2>4. QED
    BY <2>2, <2>3
<1>3. kservices'[i] = kservices[i] \/ kservices'[i] = NoKService
  BY DEF Collect, TypeOK
<1>4. QED
  BY <1>1, <1>2, <1>3 DEF SettledInv, Settled, Pending, Live, UpToDate, Follows

\* Every step preserves the two safety properties, given the rest of the invariant.
LEMMA SettledStep ==
    ASSUME TypeOK, VersionsInv, SnapshotInv, ProgressInv, NEW i \in Ifaces, SettledInv(i),
           [Next]_vars
    PROVE  SettledInv(i)'
<1> USE DEF apiVars, cacheVars, queueVars, historyVars
<1>1. ASSUME NEW j \in Ifaces, StartReconcile(j) PROVE SettledInv(i)'
  <2>1. ASSUME Settled(i)' PROVE Settled(i)
    <3>1. rec'.key # i /\ i \notin dirty' /\ i \notin backoff' /\ crCache[i] = twinInterfaces[i]
          /\ Live(i)
      BY <1>1, <2>1 DEF StartReconcile, Settled, Pending, Live
    <3>2. rec.key # i
      BY <1>1, NoneAssumption DEF StartReconcile, At, TypeOK, RecType, RunningType, Steps, Idle
    <3>3. i \notin backoff
      BY <1>1, <3>1 DEF StartReconcile
    <3>4. CASE i # j
      BY <1>1, <3>1, <3>2, <3>3, <3>4 DEF StartReconcile, Settled, Pending
    <3>5. CASE i = j
      <4>1. crCache[i] # NotFound
        BY <3>1 DEF Live
      <4>2. i \in backoff' \/ rec'.key = i
        BY <1>1, <3>5, <4>1 DEF StartReconcile, Idle
      <4>3. QED
        BY <3>1, <4>2
    <3>6. QED
      BY <3>4, <3>5
  <2>2. QED
    BY <1>1, <2>1, QuietSettled DEF StartReconcile
<1>2. ASSUME NEW j \in Ifaces, BackoffExpires(j) PROVE SettledInv(i)'
  BY <1>2, QuietSettled DEF BackoffExpires, Settled, Pending, Live
<1>3. ASSUME NEW j \in Ifaces, SyncTwinInterface(j) PROVE SettledInv(i)'
  <2>1. ASSUME Settled(i)' PROVE Settled(i)
    <3>1. i # j
      BY <1>3, <2>1 DEF SyncTwinInterface, Settled, Pending
    <3>2. QED
      BY <1>3, <2>1, <3>1 DEF SyncTwinInterface, Settled, Pending, Live, TypeOK
  <2>2. QED
    BY <1>3, <2>1, QuietSettled DEF SyncTwinInterface
<1>4. ASSUME NEW j \in Ifaces, SyncKService(j) \/ QueueAppears(j) \/ QueueVanishes(j)
      PROVE SettledInv(i)'
  BY <1>4, QuietSettled
  DEF SyncKService, QueueAppears, QueueVanishes, Settled, Pending, Live
<1>5. CASE Resync \/ InfraProgress \/ UNCHANGED vars
  BY <1>5, QuietSettled DEF Resync, InfraProgress, vars, Settled, Pending, Live
<1>6. CASE Restart
  BY <1>6 DEF Restart, SettledInv, Settled, Pending, Live
<1>7. QED
  BY <1>1, <1>2, <1>3, <1>4, <1>5, <1>6, ReconcileSettled, UserSettled, CollectSettled
  DEF Next

-----------------------------------------------------------------------------
(* The theorems *)

\* The inductive invariant: what every reachable state of the controller satisfies.
THEOREM Invariance == Spec => []IInv
<1>1. Init => VersionsInv /\ SnapshotInv /\ ProgressInv /\ \A i \in Ifaces : SettledInv(i)
  <2> SUFFICES ASSUME Init
               PROVE  VersionsInv /\ SnapshotInv /\ ProgressInv
                      /\ \A i \in Ifaces : SettledInv(i)
    OBVIOUS
  <2>1. VersionsInv
    BY InitVersions
  <2>2. rec.pc = "idle"
    BY DEF Init, Idle
  <2>3. SnapshotInv /\ ProgressInv
    BY <2>2 DEF SnapshotInv, ProgressInv, OnCourse, GivenUpInv
  <2>4. \A i \in Ifaces : SettledInv(i)
    BY DEF Init, SettledInv, Settled, Live
  <2>5. QED
    BY <2>1, <2>3, <2>4
<1>2. IInv /\ [Next]_vars => IInv'
  <2> SUFFICES ASSUME IInv, [Next]_vars PROVE IInv'
    OBVIOUS
  <2>1. TypeOK' /\ VersionsInv' /\ SnapshotInv' /\ ProgressInv'
    BY TypeStep, VersionsStep, SnapshotStep, ProgressStep DEF IInv
  <2>2. \A i \in Ifaces : SettledInv(i)
    BY SettledSplit DEF IInv
  <2>3. \A i \in Ifaces : SettledInv(i)'
    BY <2>2, SettledStep DEF IInv
  <2>4. NeverForgotten' /\ ServiceUpToDate'
    BY <2>3 DEF SettledInv, NeverForgotten, ServiceUpToDate, Kept
  <2>5. QED
    BY <2>1, <2>4 DEF IInv
<1>3. Init => IInv
  BY <1>1, InitType, SettledSplit DEF IInv
<1>4. QED
  BY <1>2, <1>3, PTL DEF Spec

\* Reconcile never walks away from unfinished work: an interface the controller is done
\* with has all its children, but for those taken by the collector from a living
\* interface.
THEOREM NothingForgotten == Spec => []NeverForgotten
BY Invariance, PTL DEF IInv

\* An interface the controller is done with has a Knative service made from the template
\* of its spec, unless the comparison was made on a stale copy.
THEOREM ServiceFollowsSpec == Spec => []ServiceUpToDate
BY Invariance, PTL DEF IInv

-----------------------------------------------------------------------------
(* The label of a settled interface *)

\* An interface becomes settled only by the last step of its own reconciliation, or by a
\* restart.
LEMMA SettlesByFinish ==
    ASSUME IInv, [Next]_vars, NEW i \in Ifaces, Settled(i)'
    PROVE  \/ Settled(i) /\ twinInterfaces'[i] = twinInterfaces[i]
           \/ Finish /\ i = rec.key
           \/ Restart
<1> USE DEF apiVars, cacheVars, queueVars, historyVars, IInv
<1>1. i \notin dirty' \union backoff' /\ rec'.key # i /\ crCache'[i] = twinInterfaces'[i]
  BY DEF Settled, Pending
<1>2. ASSUME NEW j \in Ifaces, StartReconcile(j)
      PROVE  Settled(i) /\ twinInterfaces'[i] = twinInterfaces[i]
  <2>1. UNCHANGED <<twinInterfaces, crCache>> /\ rec.key # i
    BY <1>2, NoneAssumption
    DEF StartReconcile, At, TypeOK, RecType, RunningType, Steps, Idle
  <2>2. crCache[i] # NotFound
    BY <1>1, <2>1 DEF Settled, Live
  <2>3. i # j
    BY <1>1, <1>2, <2>2 DEF StartReconcile, Idle
  <2>4. QED
    BY <1>1, <1>2, <2>1, <2>3 DEF StartReconcile, Settled, Pending, Live
<1>3. ASSUME ReconcileStep, ~(Finish /\ i = rec.key)
      PROVE  Settled(i) /\ twinInterfaces'[i] = twinInterfaces[i]
  <2>1. /\ rec.key \in Ifaces /\ UNCHANGED <<crCache, dirty>> /\ backoff \subseteq backoff'
        /\ rec' = Idle \/ rec'.key = rec.key
    BY <1>3, StepFrame, RunningFields
  <2>2. i # rec.key
    BY <1>1, <1>3, <2>1, OnlyFinishEnds
  <2>3. twinInterfaces'[i] = twinInterfaces[i]
    <3>1. CASE Finish
      BY <2>1, <2>2, <3>1 DEF Finish, TypeOK
    <3>2. QED
      BY <1>3, <3>1, OnlyFinishWrites
  <2>4. QED
    BY <1>1, <2>1, <2>2, <2>3 DEF Settled, Pending, Live
<1>4. ASSUME NEW j \in Ifaces, BackoffExpires(j) \/ SyncKService(j) \/ QueueAppears(j)
                               \/ QueueVanishes(j)
      PROVE  Settled(i) /\ twinInterfaces'[i] = twinInterfaces[i]
  BY <1>1, <1>4 DEF BackoffExpires, SyncKService, QueueAppears, QueueVanishes, Settled,
                    Pending, Live
<1>5. ASSUME NEW j \in Ifaces, SyncTwinInterface(j)
      PROVE  Settled(i) /\ twinInterfaces'[i] = twinInterfaces[i]
  <2>1. i # j
    BY <1>1, <1>5 DEF SyncTwinInterface
  <2>2. QED
    BY <1>1, <1>5, <2>1 DEF SyncTwinInterface, Settled, Pending, Live, TypeOK
<1>6. ASSUME Resync \/ InfraProgress \/ (\E c \in Names : Collect(c)) \/ UNCHANGED vars
      PROVE  Settled(i) /\ twinInterfaces'[i] = twinInterfaces[i]
  BY <1>1, <1>6 DEF Resync, InfraProgress, Collect, vars, Settled, Pending, Live
<1>7. ASSUME NEW j \in Ifaces,
             (\E s \in Specs : UserCreates(j, s) \/ UserEdits(j, s)) \/ UserDeletes(j)
      PROVE  Settled(i) /\ twinInterfaces'[i] = twinInterfaces[i]
  <2>1. UNCHANGED <<rec, dirty, backoff, crCache>>
    BY <1>7 DEF UserCreates, UserEdits, UserDeletes
  <2>2. i # j
    <3>1. CASE UserDeletes(i)
      BY <3>1 DEF UserDeletes, Settled, Live, TypeOK
    <3>2. CASE \E s \in Specs : UserCreates(i, s) \/ UserEdits(i, s)
      <4>1. twinInterfaces'[i].rv = revision + 1
        BY <3>2, UserWritesNewVersion
      <4>2. crCache[i].rv <= revision /\ crCache[i].rv \in Nat /\ revision \in Nat
        BY CRFields DEF VersionsInv, Copy, TypeOK
      <4>3. QED
        BY <1>1, <2>1, <4>1, <4>2
    <3>3. QED
      BY <1>7, <3>1, <3>2
  <2>3. twinInterfaces'[i] = twinInterfaces[i]
    BY <1>7, <2>2 DEF UserCreates, UserEdits, UserDeletes, TypeOK
  <2>4. QED
    BY <1>1, <2>1, <2>3 DEF Settled, Pending, Live
<1>8. QED
  BY <1>2, <1>3, <1>4, <1>5, <1>6, <1>7 DEF Next

\* No step takes a fault back.
LEMMA FaultsStay == ASSUME TypeOK, [Next]_vars, faults' = 0 PROVE faults = 0 /\ ~Restart
<1> USE DEF countVars, ApiError, ApiAnswers, apiVars, cacheVars, queueVars, historyVars
<1>1. faults \in Nat
  BY DEF TypeOK
<1>2. faults' = faults \/ faults' = faults + 1
  <2>1. CASE ReconcileStep
    BY <2>1 DEF ReconcileStep, ReadBroker, ReadEventStore, CreateService, CompareService,
                UpdateService, CreateTrigger, CreateBinding, ReadEventStoreQueue,
                ReadExchange, ReadInterfaceQueue, Finish
  <2>2. ASSUME NEW i \in Ifaces,
               \/ StartReconcile(i) \/ BackoffExpires(i) \/ SyncTwinInterface(i)
               \/ SyncKService(i) \/ QueueAppears(i) \/ QueueVanishes(i) \/ UserDeletes(i)
               \/ \E s \in Specs : UserCreates(i, s) \/ UserEdits(i, s)
        PROVE  faults' = faults \/ faults' = faults + 1
    BY <2>2 DEF StartReconcile, BackoffExpires, SyncTwinInterface, SyncKService,
                QueueAppears, QueueVanishes, UserDeletes, UserCreates, UserEdits
  <2>3. CASE Resync \/ Restart \/ InfraProgress \/ (\E c \in Names : Collect(c)) \/ UNCHANGED vars
    BY <2>3 DEF Resync, Restart, InfraProgress, Collect, vars
  <2>4. QED
    BY <2>1, <2>2, <2>3 DEF Next
<1>3. Restart => faults' = faults + 1
  BY DEF Restart
<1>4. QED
  BY <1>1, <1>2, <1>3

\* The last step leaves its interface labelled, or with a change still to be delivered.
LEMMA FinishLabels ==
    ASSUME IInv, Finish, faults' = 0, NEW i \in Ifaces, i = rec.key, Settled(i)'
    PROVE  twinInterfaces'[i].labelled
<1> DEFINE obj == Running(rec.obj)
<1>1. /\ rec \in RunningType /\ rec.obj \in CRType /\ rec.pc # "idle"
      /\ UNCHANGED <<crCache, dirty>>
  BY StepFrame, RunningFields DEF IInv, ReconcileStep
<1>2. i \notin dirty /\ i \notin backoff' /\ crCache[i] = twinInterfaces'[i]
  BY <1>1 DEF Settled, Pending
<1>3. rec.obj = crCache[i] /\ ~HasErrors /\ faults' # faults + 1
  <2>1. ~HasErrors
    BY <1>2 DEF Finish, Fail
  <2>2. faults' # faults + 1
    BY DEF IInv, TypeOK
  <2>3. QED
    BY <1>1, <1>2, <2>1, <2>2 DEF IInv, SnapshotInv
<1>4. CASE UpdateAccepted(obj) /\ twinInterfaces' = [twinInterfaces EXCEPT ![i] = Stored(obj)]
  <2>1. twinInterfaces'[i] = Stored(obj)
    BY <1>1, <1>4 DEF IInv, TypeOK
  <2>2. obj.labelled = TRUE /\ obj \in CRType
    BY <1>1 DEF Running, CRType
  <2>3. Stored(obj).labelled = TRUE
    BY <2>2 DEF Stored, CRType
  <2>4. QED
    BY <2>1, <2>3
<1>5. CASE ~UpdateAccepted(obj) /\ UNCHANGED twinInterfaces
  <2>1. obj.rv = rec.obj.rv
    BY <1>1 DEF Running, CRType
  <2>2. twinInterfaces[i] # rec.obj
    <3>1. Live(i)
      BY <1>5 DEF Settled, Live
    <3>2. twinInterfaces[i].rv # rec.obj.rv
      BY <1>5, <2>1, <3>1 DEF UpdateAccepted
    <3>3. QED
      BY <3>2
  <2>3. QED
    BY <1>2, <1>3, <1>5, <2>2
<1>6. QED
  BY <1>3, <1>4, <1>5 DEF Finish, ApiError

\* Ignoring the answer to the update that sets the label is harmless as long as no call
\* fails: what makes the API server refuse it, a change made meanwhile, brings the
\* interface back to the controller.
THEOREM LabelStays == Spec => []LabelledWhenSettled
<1>1. Init => LabelledWhenSettled
  BY DEF Init, LabelledWhenSettled, Settled, Live
<1>2. IInv /\ LabelledWhenSettled /\ [Next]_vars => LabelledWhenSettled'
  <2> SUFFICES ASSUME IInv, LabelledWhenSettled, [Next]_vars, faults' = 0,
                      NEW i \in Ifaces, Settled(i)'
               PROVE  twinInterfaces'[i].labelled
    BY DEF LabelledWhenSettled
  <2>1. faults = 0 /\ ~Restart
    BY FaultsStay DEF IInv
  <2>2. CASE Settled(i) /\ twinInterfaces'[i] = twinInterfaces[i]
    BY <2>1, <2>2 DEF LabelledWhenSettled
  <2>3. CASE Finish /\ i = rec.key
    BY <2>3, FinishLabels
  <2>4. QED
    BY <2>1, <2>2, <2>3, SettlesByFinish
<1>3. QED
  BY <1>1, <1>2, Invariance, PTL DEF Spec

-----------------------------------------------------------------------------
(* What a label says of the event store *)

\* The running reconciliation is past the event store, of which its interface has need,
\* and has met no error.
PastEventStore ==
    /\ rec.pc \notin {"idle", "broker", "eventstore"}
    /\ rec.obj.spec.service # NONE /\ ~rec.errs

\* The reconciliation is the worker's: nothing else but a restart touches it.
LEMMA RecKept ==
    ASSUME [Next]_vars, ~ReconcileStep, ~Restart, ~\E i \in Ifaces : StartReconcile(i)
    PROVE  UNCHANGED rec
<1>1. ASSUME NEW i \in Ifaces,
             \/ BackoffExpires(i) \/ SyncTwinInterface(i) \/ SyncKService(i)
             \/ QueueAppears(i) \/ QueueVanishes(i) \/ UserDeletes(i)
             \/ \E s \in Specs : UserCreates(i, s) \/ UserEdits(i, s)
      PROVE  UNCHANGED rec
  BY <1>1 DEF BackoffExpires, SyncTwinInterface, SyncKService, QueueAppears, QueueVanishes,
              UserDeletes, UserCreates, UserEdits
<1>2. ASSUME Resync \/ InfraProgress \/ (\E c \in Names : Collect(c)) \/ UNCHANGED vars
      PROVE  UNCHANGED rec
  BY <1>2 DEF Resync, InfraProgress, Collect, vars
<1>3. QED
  BY <1>1, <1>2 DEF Next

\* Past it without an error: only if the event store was there.
LEMMA PastByEventStore ==
    ASSUME TypeOK, GivenUpInv, [Next]_vars, PastEventStore'
    PROVE  PastEventStore \/ infra.eventStore # "absent"
<1>1. rec'.pc # "idle" /\ rec' # Idle
  BY DEF PastEventStore, Idle
<1>2. CASE ReconcileStep
  <2>1. rec \in RunningType /\ rec.pc # "idle" /\ rec'.obj = rec.obj /\ (rec.errs => rec'.errs)
    BY <1>1, <1>2, StepFrame, ErrorsStay
  <2>2. CASE rec.pc \notin {"broker", "eventstore"}
    BY <2>1, <2>2 DEF PastEventStore
  <2>3. CASE rec.pc = "broker"
    <3>1. ReadBroker
      BY <1>2, <2>3 DEF ReconcileStep, ReadEventStore, CreateService, CompareService,
             UpdateService, CreateTrigger, CreateBinding, ReadEventStoreQueue, ReadExchange,
             ReadInterfaceQueue, Finish, AllTried, At
    <3>2. QED
      BY <2>1, <3>1 DEF ReadBroker, GotoWithError, RunningType, PastEventStore
  <2>4. CASE rec.pc = "eventstore"
    <3>1. ReadEventStore
      BY <1>2, <2>4 DEF ReconcileStep, ReadBroker, CreateService, CompareService,
             UpdateService, CreateTrigger, CreateBinding, ReadEventStoreQueue, ReadExchange,
             ReadInterfaceQueue, Finish, AllTried, At
    <3>2. rec'.errs \/ infra.eventStore # "absent"
      BY <1>1, <2>1, <3>1 DEF ReadEventStore, GetService, RunningType, Fail
    <3>3. QED
      BY <3>2 DEF PastEventStore
  <2>5. QED
    BY <2>2, <2>3, <2>4
<1>3. ASSUME NEW i \in Ifaces, StartReconcile(i) PROVE PastEventStore
  <2> DEFINE begin == [Idle EXCEPT !.key = i, !.obj = crCache[i]]
  <2>1. CASE UNCHANGED rec
    BY <2>1 DEF PastEventStore
  <2>2. CASE rec' = [begin EXCEPT !.pc = "broker"]
    BY <2>2 DEF PastEventStore, Idle
  <2>3. CASE /\ crCache[i].spec.service = NONE
             /\ rec' = [begin EXCEPT !.pc = "mqtt", !.todo = MqttBindings(i, crCache[i].spec)]
    <3>1. rec'.obj = crCache[i]
      BY <2>3 DEF Idle
    <3>2. QED
      BY <2>3, <3>1 DEF PastEventStore
  <2>4. QED
    BY <1>3, <2>1, <2>2, <2>3 DEF StartReconcile
<1>4. ~Restart
  BY <1>1 DEF Restart
<1>5. CASE UNCHANGED rec
  BY <1>5 DEF PastEventStore
<1>6. QED
  BY <1>2, <1>3, <1>4, <1>5, RecKept

\* TwinInterfaces are written by the last step of a reconciliation and by users.
LEMMA InterfacesKept ==
    ASSUME [Next]_vars, ~Finish, ~\E i \in Ifaces : UserDeletes(i),
           ~\E i \in Ifaces, s \in Specs : UserCreates(i, s) \/ UserEdits(i, s)
    PROVE  UNCHANGED twinInterfaces
<1> USE DEF apiVars
<1>1. ASSUME NEW i \in Ifaces,
             \/ StartReconcile(i) \/ BackoffExpires(i) \/ SyncTwinInterface(i)
             \/ SyncKService(i) \/ QueueAppears(i) \/ QueueVanishes(i)
      PROVE  UNCHANGED twinInterfaces
  BY <1>1 DEF StartReconcile, BackoffExpires, SyncTwinInterface, SyncKService,
              QueueAppears, QueueVanishes
<1>2. ASSUME \/ Resync \/ Restart \/ InfraProgress \/ UNCHANGED vars
             \/ \E c \in Names : Collect(c)
      PROVE  UNCHANGED twinInterfaces
  BY <1>2 DEF Resync, Restart, InfraProgress, Collect, vars
<1>3. QED
  BY <1>1, <1>2, OnlyFinishWrites DEF Next

\* An interface without label gets one only from the last step of a reconciliation that
\* has met no error, and that has read what is stored.
LEMMA LabelledByFinish ==
    ASSUME TypeOK, VersionsInv, [Next]_vars, NEW i \in Ifaces,
           ~twinInterfaces[i].labelled, twinInterfaces'[i].labelled
    PROVE  /\ Finish /\ ~rec.errs /\ rec \in RunningType
           /\ i = rec.key /\ rec.obj = twinInterfaces[i]
<1>1. CASE Finish
  <2> DEFINE obj == Running(rec.obj)
  <2>1. rec \in RunningType /\ rec.key \in Ifaces /\ rec.obj \in CRType
    BY <1>1, StepFrame, RunningFields DEF ReconcileStep
  <2>2. /\ ~rec.errs /\ UpdateAccepted(obj)
        /\ twinInterfaces' = [twinInterfaces EXCEPT ![rec.key] = Stored(obj)]
    BY <1>1 DEF Finish, HasErrors
  <2>3. i = rec.key
    BY <2>1, <2>2 DEF TypeOK
  <2>4. obj.rv = rec.obj.rv
    BY <2>1 DEF Running, CRType
  <2>5. rec.obj = twinInterfaces[i]
    BY <2>2, <2>3, <2>4 DEF UpdateAccepted, VersionsInv, Copy
  <2>6. QED
    BY <1>1, <2>1, <2>2, <2>3, <2>5
<1>2. CASE UNCHANGED twinInterfaces
  BY <1>2
<1>3. ASSUME NEW j \in Ifaces, NEW s \in Specs, UserCreates(j, s) PROVE FALSE
  <2>1. twinInterfaces' = [twinInterfaces EXCEPT ![j] = [NotFound EXCEPT
            !.uid = revision + 1, !.rv = revision + 1, !.spec = s]]
    BY <1>3 DEF UserCreates
  <2>2. QED
    BY <2>1 DEF TypeOK, NotFound
<1>4. ASSUME NEW j \in Ifaces, NEW s \in Specs, UserEdits(j, s) PROVE FALSE
  <2> DEFINE x(kept) == [twinInterfaces[j] EXCEPT !.spec = s, !.labelled = kept, !.rv = revision + 1]
  <2>1. PICK kept \in BOOLEAN : /\ kept => twinInterfaces[j].labelled
                                /\ twinInterfaces' = [twinInterfaces EXCEPT ![j] = x(kept)]
    BY <1>4, EditKeepsOrDrops
  <2>2. twinInterfaces[j] \in CRType
    BY DEF TypeOK
  <2>3. x(kept).labelled = kept
    BY <2>2 DEF CRType
  <2> HIDE DEF x
  <2>4. QED
    BY <2>1, <2>3 DEF TypeOK
<1>5. ASSUME NEW j \in Ifaces, UserDeletes(j) PROVE FALSE
  BY <1>5 DEF UserDeletes, TypeOK, NotFound
<1>6. QED
  BY <1>1, <1>2, <1>3, <1>4, <1>5, InterfacesKept

\* If the interface has a service, that reconciliation is past the event store.
LEMMA LabelledPastEventStore ==
    ASSUME TypeOK, VersionsInv, [Next]_vars, NEW i \in Ifaces,
           ~twinInterfaces[i].labelled, twinInterfaces'[i].labelled,
           twinInterfaces[i].spec.service # NONE
    PROVE  PastEventStore
<1>1. Finish /\ ~rec.errs /\ i = rec.key /\ rec.obj = twinInterfaces[i]
  BY LabelledByFinish
<1>2. rec.pc \in {"finish", "dispatch", "es-binding"}
  BY <1>1 DEF Finish, AllTried, At
<1>3. QED
  BY <1>1, <1>2 DEF PastEventStore

-----------------------------------------------------------------------------
(* What a label says of the interface *)

\* An interface gets its label only when all its children are there, but for those the
\* collector took, and its service follows the spec that is stored at that moment.
THEOREM LabelIsTrue == Spec => LabelledMeansComplete
<1> DEFINE Complete(i) ==
        /\ \A c \in Desired(i, twinInterfaces[i].spec) : children[c] # Absent \/ c \in lost
        /\ UpToDate(i, twinInterfaces[i].spec.service)
<1>1. ASSUME IInv, [Next]_vars, NEW i \in Ifaces,
             ~twinInterfaces[i].labelled, twinInterfaces'[i].labelled
      PROVE  Complete(i)
  <2>1. /\ Finish /\ ~rec.errs /\ rec \in RunningType
        /\ i = rec.key /\ rec.obj = twinInterfaces[i]
    BY <1>1, LabelledByFinish DEF IInv
  <2>2. /\ Desired(i, rec.obj.spec) \intersect Outstanding = {}
        /\ rec.pc \in {"es-binding", "dispatch"}
    BY <1>1, <2>1, NothingOutstanding DEF IInv, ProgressInv
  <2>3. ReachedInv /\ ServiceInv
    BY <1>1, <2>1, <2>2 DEF IInv, ProgressInv, OnCourse
  <2>4. \A c \in Desired(i, rec.obj.spec) : Kept(c)
    BY <2>1, <2>2, <2>3 DEF ReachedInv
  <2>5. UpToDate(i, rec.obj.spec.service)
    BY <2>1, <2>2, <2>3 DEF ServiceInv
  <2>6. QED
    BY <2>1, <2>4, <2>5 DEF Kept
<1>2. IInv /\ [Next]_vars =>
        [\A i \in Ifaces : ~twinInterfaces[i].labelled /\ twinInterfaces'[i].labelled =>
           LET s == twinInterfaces[i].spec IN
           /\ \A c \in Desired(i, s) : children[c] # Absent \/ c \in lost
           /\ UpToDate(i, s.service)]_vars
  BY <1>1
<1>3. QED
  BY Invariance, <1>2, PTL DEF Spec, LabelledMeansComplete

=============================================================================
