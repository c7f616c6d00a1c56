--------------------- MODULE MqttTriggerController_proofs ---------------------
(***************************************************************************)
(* Proofs about MqttTriggerController, for every set of MQTTTriggers,      *)
(* every plan of resources, every initial state of the broker and every    *)
(* value of the bounds.                                                    *)
(***************************************************************************)
EXTENDS MqttTriggerController, TLAPS

-----------------------------------------------------------------------------
(* The inductive invariant *)

\* Only the absent object has version 0, in the API server and in the caches.
PresenceInv ==
    /\ \A t \in Triggers : /\ triggers[t].rv = 0 => triggers[t] = NoTrigger
                           /\ tCache[t].rv = 0 => tCache[t] = NoTrigger
    /\ \A r \in Resources : /\ resources[r].rv = 0 => resources[r] = NoResource
                            /\ rCache[r].rv = 0 => rCache[r] = NoResource

\* An MQTTTrigger x read under name t is recognised by its version, although versions
\* come back: if the version is the stored one, so is everything else.
Copy(x, t) == x.rv = triggers[t].rv => x = triggers[t]

\* The running reconciliation works on an MQTTTrigger that was there, and on what the
\* cache holds, or its key is queued again.
SnapshotInv ==
    /\ \A t \in Triggers : Copy(tCache[t], t)
    /\ rec.pc # "idle" => /\ rec.obj.rv # 0
                          /\ Copy(rec.obj, rec.key)
                          /\ rec.key \in dirty \/ rec.obj = tCache[rec.key]

\* A resource is there, or the collector took it and nobody has made it again.
Kept(r) == There(r) \/ r \in taken

\* The resources before the next one have been applied, all of them at the end.
ProgressInv ==
    /\ At("secret") \/ At("exchange") => rec.next = 1
    /\ At("apply") => rec.next <= Len(Plan)
    /\ At("ready") => rec.next = Len(Plan) + 1
    /\ At("apply") \/ At("ready") => \A n \in 1 .. rec.next - 1 : Kept(Plan[n])

\* What holds of an MQTTTrigger the controller is done with.
Served(t) == triggers[t].phase = "Ready" /\ \A r \in Resources : Kept(r)
SettledInv(t) == Settled(t) => Served(t)

IInv ==
    /\ TypeOK /\ PresenceInv /\ SnapshotInv /\ ProgressInv
    /\ \A t \in Triggers : SettledInv(t)

-----------------------------------------------------------------------------
(* What the operators give *)

\* Every resource of the plan is one of the resources, and there is one at least.
LEMMA PlanFacts ==
    /\ Len(Plan) \in Nat /\ Len(Plan) > 0
    /\ \A n \in 1 .. Len(Plan) : Plan[n] \in Resources
    /\ \A r \in Resources : \E n \in 1 .. Len(Plan) : Plan[n] = r
BY PlanAssumption DEF Resources

\* A version is free that neither the stored resource nor the cached one has.
LEMMA NewVersionFree ==
    ASSUME NEW r
    PROVE  /\ NewVersion(r) \in {1, 2, 3}
           /\ NewVersion(r) # resources[r].rv /\ NewVersion(r) # rCache[r].rv
<1>1. \E v \in {1, 2, 3} : v \notin {resources[r].rv, rCache[r].rv}
  OBVIOUS
<1>2. QED
  BY <1>1 DEF NewVersion

\* The same of MQTTTriggers, of which a reconciliation holds a third copy.
LEMMA NewTriggerVersionFree ==
    ASSUME NEW t
    PROVE  /\ NewTriggerVersion(t) \in {1, 2, 3, 4}
           /\ NewTriggerVersion(t) # triggers[t].rv /\ NewTriggerVersion(t) # tCache[t].rv
           /\ NewTriggerVersion(t) # rec.obj.rv
<1>1. \E v \in {1, 2, 3, 4} : v \notin {triggers[t].rv, tCache[t].rv, rec.obj.rv}
  OBVIOUS
<1>2. QED
  BY <1>1 DEF NewTriggerVersion

\* The type of a reconciliation that is not idle.
RunningType ==
    [pc: Steps, key: Triggers, obj: TriggerType, next: 1 .. Len(Plan) + 1, secret: Nat]

\* A reconciliation about to take a step has the fields of a running one.
LEMMA RunningRec ==
    ASSUME TypeOK, rec.pc # "idle"
    PROVE  /\ rec \in RunningType
           /\ rec.pc \in Steps /\ rec.key \in Triggers /\ rec.obj \in TriggerType
           /\ rec.next \in 1 .. Len(Plan) + 1 /\ rec.secret \in Nat
BY DEF TypeOK, RecType, RunningType, Idle

\* An MQTTTrigger is a record of its fields, so is a resource.
LEMMA Fields ==
    /\ \A x \in TriggerType : x.uid \in Nat /\ x.rv \in Nat /\ x.phase \in {"", "Ready", "Error"}
    /\ \A x \in ResourceType : x.owner \in Nat /\ x.rv \in Nat /\ x.secret \in Nat
    /\ NoTrigger \in TriggerType /\ NoTrigger.rv = 0
    /\ NoResource \in ResourceType /\ NoResource.rv = 0
BY DEF TriggerType, ResourceType, NoTrigger, NoResource

\* WritePhase stores the object with the phase it is given: the stored one as it is if
\* that is its phase already, else one with a version nobody holds.
LEMMA WritePhaseStores ==
    ASSUME TypeOK, rec.pc # "idle", NEW p \in {"Ready", "Error"}, StatusAccepted, WritePhase(p)
    PROVE  /\ triggers' \in [Triggers -> TriggerType]
           /\ \A t \in Triggers : t # rec.key => triggers'[t] = triggers[t]
           /\ triggers'[rec.key].phase = p /\ triggers'[rec.key] # NoTrigger
           /\ \/ triggers' = triggers
              \/ triggers'[rec.key].rv = NewTriggerVersion(rec.key)
<1> DEFINE t == rec.key
           v == NewTriggerVersion(t)
           new == [triggers[t] EXCEPT !.phase = p, !.rv = v]
<1>1. t \in Triggers /\ v \in Nat /\ v # 0
  BY RunningRec, NewTriggerVersionFree
<1>2. triggers \in [Triggers -> TriggerType] /\ triggers[t] \in TriggerType
  BY <1>1 DEF TypeOK
<1> HIDE DEF v
<1>3. new \in TriggerType /\ new.phase = p /\ new.rv = v
  BY <1>1, <1>2 DEF TriggerType
<1>4. CASE triggers[t].phase = p
  <2>1. triggers' = triggers
    BY <1>4 DEF WritePhase
  <2>2. QED
    BY <1>2, <1>4, <2>1 DEF StatusAccepted, Live
<1>5. CASE triggers[t].phase # p
  <2>1. triggers' = [triggers EXCEPT ![t] = new]
    BY <1>2, <1>5 DEF WritePhase, v, TriggerType
  <2>2. new # NoTrigger
    BY <1>1, <1>3, Fields
  <2>3. QED
    BY <1>1, <1>2, <1>3, <2>1, <2>2 DEF v
<1>6. QED
  BY <1>4, <1>5

\* Merge keeps a resource where it was and a version other than 0.
LEMMA MergeKeeps ==
    ASSUME TypeOK, rec.pc # "idle", NEW r \in Resources, NEW x \in ResourceType, x.rv # 0
    PROVE  Merge(x, r) \in ResourceType /\ Merge(x, r).rv # 0
<1>1. DesiredSecret(r) \in Nat /\ NewVersion(r) \in Nat /\ NewVersion(r) # 0
  BY RunningRec, NewVersionFree DEF DesiredSecret
<1>2. QED
  BY <1>1 DEF Merge, ResourceType
-----------------------------------------------------------------------------
(* Type correctness *)

\* ApplyResource moves to the next resource, to the end or to the error.
LEMMA ApplyMoves ==
    ASSUME TypeOK, ProgressInv, ApplyResource
    PROVE  /\ rec \in RunningType /\ rec.next \in 1 .. Len(Plan)
           /\ rec' \in RunningType /\ rec'.key = rec.key /\ rec'.obj = rec.obj
           /\ \/ Applied /\ rec'.next = rec.next + 1
              \/ rec'.pc = "error" /\ UNCHANGED <<resources, taken>>
           /\ rec'.pc = "error" \/ rec'.pc = IF rec.next = Len(Plan) THEN "ready" ELSE "apply"
           /\ Plan[rec.next] \in Resources
<1>1. rec \in RunningType /\ rec.next \in 1 .. Len(Plan)
  BY RunningRec, PlanFacts DEF ApplyResource, At, ProgressInv, RunningType
<1>2. Applied \/ (rec' = [rec EXCEPT !.pc = "error"] /\ UNCHANGED <<resources, taken>>)
  BY DEF ApplyResource, ApplyFailed, Goto
<1>3. CASE Applied
  <2> DEFINE p == IF rec.next = Len(Plan) THEN "ready" ELSE "apply"
  <2>1. p \in Steps /\ rec.next + 1 \in 1 .. Len(Plan) + 1 /\ p # "error"
    BY <1>1, PlanFacts DEF Steps
  <2>2. rec' = [rec EXCEPT !.next = rec.next + 1, !.pc = p]
    BY <1>1, <1>3 DEF Applied
  <2> HIDE DEF p
  <2>3. /\ rec' \in RunningType /\ rec'.key = rec.key /\ rec'.obj = rec.obj
        /\ rec'.next = rec.next + 1 /\ rec'.pc = p
    BY <1>1, <2>1, <2>2 DEF RunningType
  <2>4. QED
    BY <1>1, <1>3, <2>3, PlanFacts DEF p
<1>4. CASE rec' = [rec EXCEPT !.pc = "error"] /\ UNCHANGED <<resources, taken>>
  BY <1>1, <1>4, PlanFacts DEF RunningType, Steps
<1>5. QED
  BY <1>2, <1>3, <1>4

\* What ApplyResource writes: the resource whose turn it is is created or merged, and is
\* there afterwards; nothing else changes.
LEMMA ApplyWrites ==
    ASSUME TypeOK, PresenceInv, ProgressInv, ApplyResource, NEW r, r = Plan[rec.next]
    PROVE  /\ resources' \in [Resources -> ResourceType] /\ taken' \subseteq Resources
           /\ \A q \in Resources \ {r} : resources'[q] = resources[q]
           /\ taken \subseteq taken' \union {r}
           /\ UNCHANGED <<resources, taken>> \/ resources'[r].rv # 0
           /\ rec'.pc # "error" => resources'[r].rv # 0
<1>1. rec \in RunningType /\ r \in Resources /\ rec.pc # "idle"
  BY ApplyMoves DEF ApplyResource, At
<1>2. CASE UNCHANGED <<resources, taken>> /\ rec'.pc = "error"
  BY <1>2 DEF TypeOK
<1>3. CASE /\ rCache[r] = NoResource
           /\ resources' = [resources EXCEPT ![r] =
                  [owner |-> Owner, rv |-> NewVersion(r), secret |-> DesiredSecret(r)]]
           /\ taken' = taken \ {r}
  <2> DEFINE o == Owner
             v == NewVersion(r)
             s == DesiredSecret(r)
             new == [owner |-> o, rv |-> v, secret |-> s]
  <2>1. o \in Nat /\ v \in Nat /\ v # 0 /\ s \in Nat
    <3>1. rec.obj.uid \in Nat /\ rec.secret \in Nat
      BY <1>1, RunningRec, Fields
    <3>2. QED
      BY <3>1, NewVersionFree DEF Owner, DesiredSecret
  <2> HIDE DEF o, v, s
  <2>2. new \in ResourceType /\ new.rv # 0
    BY <2>1 DEF ResourceType
  <2>3. resources' = [resources EXCEPT ![r] = new]
    BY <1>3 DEF o, v, s
  <2>4. QED
    BY <1>1, <1>3, <2>2, <2>3 DEF TypeOK
<1>4. CASE /\ rCache[r] # NoResource
           /\ resources' = [resources EXCEPT ![r] = Merge(rCache[r], r)]
           /\ UNCHANGED taken
  <2>1. rCache[r] \in ResourceType /\ rCache[r].rv # 0
    BY <1>1, <1>4 DEF TypeOK, PresenceInv
  <2>2. Merge(rCache[r], r) \in ResourceType /\ Merge(rCache[r], r).rv # 0
    BY <1>1, <2>1, MergeKeeps
  <2>3. QED
    BY <1>1, <1>4, <2>2 DEF TypeOK
<1>5. QED
  <2>1. rec' = [rec EXCEPT !.pc = "error"] => rec'.pc = "error"
    BY <1>1 DEF RunningType
  <2>2. QED
    BY <1>2, <1>3, <1>4, <2>1 DEF ApplyResource, ApplyFailed, Goto

\* Every step preserves the types.
LEMMA TypeStep == TypeOK /\ PresenceInv /\ ProgressInv /\ [Next]_vars => TypeOK'
<1> SUFFICES ASSUME TypeOK, PresenceInv, ProgressInv, [Next]_vars PROVE TypeOK'
  OBVIOUS
<1> USE DEF apiVars, cacheVars, queueVars, countVars, ApiError, ApiAnswers
<1>1. ASSUME NEW t \in Triggers, StartReconcile(t) PROVE TypeOK'
  <2>1. [Idle EXCEPT !.pc = "secret", !.key = t, !.obj = tCache[t]] \in RunningType
    <3>1. tCache[t] \in TriggerType /\ 1 \in 1 .. Len(Plan) + 1
      BY PlanFacts DEF TypeOK
    <3>2. QED
      BY <3>1 DEF Idle, RunningType, Steps
  <2>2. rec' \in RecType
    BY <1>1, <2>1 DEF StartReconcile, RecType, RunningType, TypeOK
  <2>3. QED
    BY <1>1, <2>2 DEF StartReconcile, TypeOK
<1>2. CASE ReadSecret \/ ListExchanges
  <2>1. rec \in RunningType
    BY <1>2, RunningRec DEF ReadSecret, ListExchanges, At
  <2>2. rec' \in RunningType
    BY <1>2, <2>1 DEF ReadSecret, ListExchanges, Goto, RunningType, Steps, TypeOK
  <2>3. QED
    BY <1>2, <2>2 DEF ReadSecret, ListExchanges, RecType, RunningType, TypeOK
<1>3. CASE ApplyResource
  <2>1. rec' \in RecType
    BY <1>3, ApplyMoves DEF RecType, RunningType
  <2>2. resources' \in [Resources -> ResourceType] /\ taken' \subseteq Resources
    BY <1>3, ApplyWrites
  <2>3. QED
    BY <1>3, <2>1, <2>2 DEF ApplyResource, TypeOK
<1>4. CASE ReportError \/ ReportReady
  <2>1. rec.pc # "idle" /\ rec.key \in Triggers
    BY <1>4, RunningRec DEF ReportError, ReportReady, At
  <2>2. triggers' \in [Triggers -> TriggerType]
    BY <1>4, <2>1, WritePhaseStores DEF ReportError, ReportReady, TypeOK
  <2>3. QED
    BY <1>4, <2>1, <2>2 DEF ReportError, ReportReady, Fail, StatusFailed, RecType, TypeOK
<1>5. ASSUME NEW t \in Triggers, BackoffExpires(t) \/ SyncTrigger(t) PROVE TypeOK'
  BY <1>5 DEF BackoffExpires, SyncTrigger, TypeOK
<1>6. ASSUME NEW r \in Resources, SyncResource(r) \/ Collect(r) PROVE TypeOK'
  BY <1>6, Fields DEF SyncResource, Collect, TypeOK
<1>7. CASE Resync \/ Restart \/ ExchangeAppears \/ SecretRotates
  <2>1. CASE Resync
    BY <2>1 DEF Resync, TypeOK
  <2>2. CASE Restart
    <3>1. dirty' \subseteq Triggers /\ rec' \in RecType /\ faults' \in Nat
      BY <2>2 DEF Restart, RecType, TypeOK
    <3>2. QED
      BY <2>2, <3>1 DEF Restart, TypeOK
  <2>3. CASE ExchangeAppears \/ SecretRotates
    <3>1. secret' \in Nat /\ exchange' \in BOOLEAN
      <4>1. secret \in Nat /\ exchange \in BOOLEAN
        BY DEF TypeOK
      <4>2. secret' \in {secret, secret + 1} /\ exchange' \in {exchange, TRUE}
        BY <2>3 DEF ExchangeAppears, SecretRotates
      <4>3. secret' \in Nat
        BY <4>1, <4>2
      <4>4. exchange' \in BOOLEAN
        BY <4>1, <4>2, Zenon
      <4>5. QED
        BY <4>3, <4>4
    <3>2. QED
      BY <2>3, <3>1 DEF ExchangeAppears, SecretRotates, TypeOK
  <2>4. QED
    BY <1>7, <2>1, <2>2, <2>3
<1>8. ASSUME NEW t \in Triggers, UserCreates(t) \/ UserDeletes(t) PROVE TypeOK'
  <2> DEFINE v == NewTriggerVersion(t)
  <2>1. v \in Nat
    BY NewTriggerVersionFree
  <2> HIDE DEF v
  <2>2. [uid |-> creates + 1, rv |-> v, phase |-> ""] \in TriggerType
    <3>1. creates + 1 \in Nat
      BY DEF TypeOK
    <3>2. QED
      BY <2>1, <3>1 DEF TriggerType
  <2>3. triggers' \in [Triggers -> TriggerType]
    BY <1>8, <2>2, Fields DEF UserCreates, UserDeletes, TypeOK, v
  <2>4. QED
    <3>1. creates' \in Nat /\ deletes' \in Nat
      <4>1. creates \in Nat /\ deletes \in Nat
        BY DEF TypeOK
      <4>2. creates' \in {creates, creates + 1} /\ deletes' \in {deletes, deletes + 1}
        BY <1>8 DEF UserCreates, UserDeletes
      <4>3. QED
        BY <4>1, <4>2
    <3>2. QED
      BY <1>8, <2>3, <3>1 DEF UserCreates, UserDeletes, TypeOK
<1>9. CASE UNCHANGED vars
  BY <1>9 DEF vars, TypeOK
<1>10. QED
  BY <1>1, <1>2, <1>3, <1>4, <1>5, <1>6, <1>7, <1>8, <1>9 DEF Next, ReconcileStep
-----------------------------------------------------------------------------
(* The inductive invariant is preserved *)

\* Every step keeps version 0 for what is absent.
LEMMA PresenceStep == TypeOK /\ PresenceInv /\ ProgressInv /\ [Next]_vars => PresenceInv'
<1> SUFFICES ASSUME TypeOK, PresenceInv, ProgressInv, [Next]_vars PROVE PresenceInv'
  OBVIOUS
<1> USE DEF apiVars, cacheVars, queueVars, countVars
<1>1. CASE UNCHANGED <<triggers, resources, tCache, rCache>>
  BY <1>1 DEF PresenceInv
<1>2. CASE ApplyResource
  <2>1. PICK r \in Resources : r = Plan[rec.next]
    BY <1>2, ApplyMoves
  <2>2. /\ \A q \in Resources \ {r} : resources'[q] = resources[q]
        /\ UNCHANGED <<resources, taken>> \/ resources'[r].rv # 0
    BY <1>2, <2>1, ApplyWrites
  <2>3. QED
    BY <1>2, <2>2 DEF ApplyResource, PresenceInv
<1>3. CASE ReportError \/ ReportReady
  <2>1. rec.pc # "idle" /\ rec.key \in Triggers
    BY <1>3, RunningRec DEF ReportError, ReportReady, At
  <2>2. \A t \in Triggers : triggers'[t] = triggers[t] \/ triggers'[t].rv # 0
    BY <1>3, <2>1, WritePhaseStores, NewTriggerVersionFree DEF ReportError, ReportReady
  <2>3. QED
    BY <1>3, <2>2 DEF ReportError, ReportReady, PresenceInv
<1>4. ASSUME NEW t \in Triggers, SyncTrigger(t) PROVE PresenceInv'
  BY <1>4 DEF SyncTrigger, PresenceInv, TypeOK
<1>5. ASSUME NEW r \in Resources, SyncResource(r) PROVE PresenceInv'
  BY <1>5 DEF SyncResource, PresenceInv, TypeOK
<1>6. ASSUME NEW r \in Resources, Collect(r) PROVE PresenceInv'
  BY <1>6 DEF Collect, PresenceInv, TypeOK
<1>7. CASE Restart
  BY <1>7 DEF Restart, PresenceInv
<1>8. ASSUME NEW t \in Triggers, UserCreates(t) PROVE PresenceInv'
  <2> DEFINE v == NewTriggerVersion(t)
  <2>1. v # 0
    BY NewTriggerVersionFree
  <2> HIDE DEF v
  <2>2. /\ \A u \in Triggers : u # t => triggers'[u] = triggers[u]
        /\ triggers'[t].rv = v
    BY <1>8 DEF UserCreates, TypeOK, v
  <2>3. QED
    BY <1>8, <2>1, <2>2 DEF UserCreates, PresenceInv
<1>9. ASSUME NEW t \in Triggers, UserDeletes(t) PROVE PresenceInv'
  BY <1>9 DEF UserDeletes, PresenceInv, TypeOK
<1>10. QED
  <2>1. ASSUME NEW t \in Triggers, StartReconcile(t) \/ BackoffExpires(t)
        PROVE  UNCHANGED <<triggers, resources, tCache, rCache>>
    BY <2>1 DEF StartReconcile, BackoffExpires
  <2>2. ASSUME ReadSecret \/ ListExchanges \/ Resync \/ ExchangeAppears \/ SecretRotates
        PROVE  UNCHANGED <<triggers, resources, tCache, rCache>>
    BY <2>2 DEF ReadSecret, ListExchanges, Resync, ExchangeAppears, SecretRotates
  <2>3. UNCHANGED vars => UNCHANGED <<triggers, resources, tCache, rCache>>
    BY DEF vars
  <2>4. QED
    BY <1>1, <1>2, <1>3, <1>4, <1>5, <1>6, <1>7, <1>8, <1>9, <2>1, <2>2, <2>3
    DEF Next, ReconcileStep

\* A reconciliation that has started goes on or ends; its key and object stay.
LEMMA RunningKeeps ==
    ASSUME TypeOK, ProgressInv, ReconcileStep
    PROVE  /\ rec.pc # "idle" /\ rec.key \in Triggers
           /\ UNCHANGED dirty
           /\ rec' = Idle \/ (rec'.key = rec.key /\ rec'.obj = rec.obj)
<1>1. rec.pc # "idle"
  BY DEF ReconcileStep, ReadSecret, ListExchanges, ApplyResource, ReportError, ReportReady, At
<1>2. rec \in RunningType /\ rec.key \in Triggers
  BY <1>1, RunningRec
<1>3. CASE ReadSecret \/ ListExchanges
  BY <1>1, <1>2, <1>3 DEF ReadSecret, ListExchanges, Goto, RunningType, queueVars
<1>4. CASE ApplyResource
  BY <1>1, <1>2, <1>4, ApplyMoves DEF ApplyResource, queueVars
<1>5. CASE ReportError \/ ReportReady
  BY <1>1, <1>2, <1>5 DEF ReportError, ReportReady, Fail, StatusFailed, queueVars
<1>6. QED
  BY <1>3, <1>4, <1>5 DEF ReconcileStep

\* Every step keeps copies recognisable and the running reconciliation on course.
LEMMA SnapshotStep ==
    TypeOK /\ PresenceInv /\ SnapshotInv /\ ProgressInv /\ [Next]_vars => SnapshotInv'
<1> SUFFICES ASSUME TypeOK, PresenceInv, SnapshotInv, ProgressInv, [Next]_vars
             PROVE  SnapshotInv'
  OBVIOUS
<1> USE DEF apiVars, cacheVars, queueVars, countVars
<1>1. ASSUME NEW t \in Triggers, StartReconcile(t) PROVE SnapshotInv'
  <2>1. rec.pc = "idle" /\ UNCHANGED <<triggers, tCache>>
    BY <1>1 DEF StartReconcile, At
  <2>2. CASE rec' = rec
    BY <2>1, <2>2 DEF SnapshotInv, Copy
  <2>3. CASE tCache[t] # NoTrigger /\ rec'.key = t /\ rec'.obj = tCache[t]
    BY <2>1, <2>3 DEF SnapshotInv, PresenceInv, Copy
  <2>4. QED
    BY <1>1, <2>2, <2>3 DEF StartReconcile, Idle
<1>2. CASE ReconcileStep /\ UNCHANGED triggers
  <2>1. UNCHANGED tCache
    BY <1>2 DEF ReconcileStep, ReadSecret, ListExchanges, ApplyResource, ReportError, ReportReady
  <2>2. QED
    BY <1>2, <2>1, RunningKeeps DEF SnapshotInv, Copy, Idle
<1>3. CASE ReportError \/ ReportReady
  <2>1. rec.pc # "idle" /\ rec.key \in Triggers /\ rec' = Idle /\ UNCHANGED tCache
    BY <1>3, RunningRec DEF ReportError, ReportReady, Fail, StatusFailed, At
  <2>2. \A t \in Triggers : triggers'[t] = triggers[t] \/ triggers'[t].rv # tCache[t].rv
    BY <1>3, <2>1, WritePhaseStores, NewTriggerVersionFree DEF ReportError, ReportReady
  <2>3. QED
    BY <2>1, <2>2 DEF SnapshotInv, Copy, Idle
<1>4. ASSUME NEW t \in Triggers, SyncTrigger(t) PROVE SnapshotInv'
  <2>1. UNCHANGED <<triggers, rec>> /\ dirty' = dirty \union {t}
    BY <1>4 DEF SyncTrigger
  <2>2. \A u \in Triggers : tCache'[u] = IF u = t THEN triggers[t] ELSE tCache[u]
    BY <1>4 DEF SyncTrigger, TypeOK
  <2>3. rec.pc # "idle" => rec.key \in Triggers
    BY RunningRec
  <2>4. QED
    BY <2>1, <2>2, <2>3 DEF SnapshotInv, Copy
<1>5. CASE Restart
  BY <1>5 DEF Restart, SnapshotInv, Copy, Idle
<1>6. ASSUME NEW t \in Triggers, UserCreates(t) PROVE SnapshotInv'
  <2> DEFINE v == NewTriggerVersion(t)
  <2>1. v # tCache[t].rv /\ v # rec.obj.rv
    BY NewTriggerVersionFree
  <2> HIDE DEF v
  <2>2. /\ \A u \in Triggers : u # t => triggers'[u] = triggers[u]
        /\ triggers'[t].rv = v
    BY <1>6 DEF UserCreates, TypeOK, v
  <2>3. UNCHANGED <<tCache, rec, dirty>>
    BY <1>6 DEF UserCreates
  <2>4. rec.pc # "idle" => rec.key \in Triggers
    BY RunningRec
  <2>5. QED
    BY <2>1, <2>2, <2>3, <2>4 DEF SnapshotInv, Copy
<1>7. ASSUME NEW t \in Triggers, UserDeletes(t) PROVE SnapshotInv'
  <2>1. \A u \in Triggers : triggers'[u] = IF u = t THEN NoTrigger ELSE triggers[u]
    BY <1>7 DEF UserDeletes, TypeOK
  <2>2. UNCHANGED <<tCache, rec, dirty>>
    BY <1>7 DEF UserDeletes
  <2>3. rec.pc # "idle" => rec.key \in Triggers
    BY RunningRec
  <2>4. QED
    BY <2>1, <2>2, <2>3, Fields DEF SnapshotInv, PresenceInv, Copy
<1>8. CASE UNCHANGED <<triggers, tCache, rec>> /\ dirty \subseteq dirty'
  BY <1>8 DEF SnapshotInv, Copy
<1>9. QED
  <2>1. ASSUME NEW t \in Triggers, BackoffExpires(t)
        PROVE  UNCHANGED <<triggers, tCache, rec>> /\ dirty \subseteq dirty'
    BY <2>1 DEF BackoffExpires
  <2>2. ASSUME NEW r \in Resources, SyncResource(r) \/ Collect(r)
        PROVE  UNCHANGED <<triggers, tCache, rec>> /\ dirty \subseteq dirty'
    BY <2>2 DEF SyncResource, Collect
  <2>3. ASSUME Resync \/ ExchangeAppears \/ SecretRotates \/ UNCHANGED vars
        PROVE  UNCHANGED <<triggers, tCache, rec>> /\ dirty \subseteq dirty'
    BY <2>3 DEF Resync, ExchangeAppears, SecretRotates, vars
  <2>4. ReadSecret \/ ListExchanges \/ ApplyResource => UNCHANGED triggers
    BY DEF ReadSecret, ListExchanges, ApplyResource
  <2>5. QED
    BY <1>1, <1>2, <1>3, <1>4, <1>5, <1>6, <1>7, <1>8, <2>1, <2>2, <2>3, <2>4
    DEF Next, ReconcileStep
\* No step makes a resource neither there nor taken.
LEMMA KeptStep ==
    ASSUME TypeOK, PresenceInv, ProgressInv, [Next]_vars, NEW r \in Resources, Kept(r)
    PROVE  Kept(r)'
<1> USE DEF apiVars, cacheVars, queueVars, countVars
<1>1. CASE UNCHANGED <<resources, taken>>
  BY <1>1 DEF Kept, There
<1>2. CASE ApplyResource
  <2>1. PICK q \in Resources : q = Plan[rec.next]
    BY <1>2, ApplyMoves
  <2>2. /\ r # q => resources'[r] = resources[r]
        /\ taken \subseteq taken' \union {q}
        /\ UNCHANGED <<resources, taken>> \/ resources'[q].rv # 0
    BY <1>2, <2>1, ApplyWrites
  <2>3. CASE UNCHANGED <<resources, taken>>
    BY <1>1, <2>3
  <2>4. CASE resources'[q].rv # 0
    BY <2>2, <2>4, Fields DEF Kept, There
  <2>5. QED
    BY <2>2, <2>3, <2>4
<1>3. ASSUME NEW q \in Resources, Collect(q) PROVE Kept(r)'
  BY <1>3 DEF Collect, TypeOK, Kept, There
<1>4. QED
  <2>1. ASSUME NEW t \in Triggers,
               \/ StartReconcile(t) \/ BackoffExpires(t) \/ SyncTrigger(t)
               \/ UserCreates(t) \/ UserDeletes(t)
        PROVE  UNCHANGED <<resources, taken>>
    BY <2>1 DEF StartReconcile, BackoffExpires, SyncTrigger, UserCreates, UserDeletes
  <2>2. ASSUME NEW q \in Resources, SyncResource(q)
        PROVE  UNCHANGED <<resources, taken>>
    BY <2>2 DEF SyncResource
  <2>3. ASSUME \/ ReadSecret \/ ListExchanges \/ ReportError \/ ReportReady \/ Resync
               \/ Restart \/ ExchangeAppears \/ SecretRotates \/ UNCHANGED vars
        PROVE  UNCHANGED <<resources, taken>>
    BY <2>3 DEF ReadSecret, ListExchanges, ReportError, ReportReady, Resync, Restart,
                ExchangeAppears, SecretRotates, vars
  <2>4. QED
    BY <1>1, <1>2, <1>3, <2>1, <2>2, <2>3 DEF Next, ReconcileStep

\* Every step keeps a reconciliation's place in the plan and what it says.
LEMMA ProgressStep == TypeOK /\ PresenceInv /\ ProgressInv /\ [Next]_vars => ProgressInv'
<1> SUFFICES ASSUME TypeOK, PresenceInv, ProgressInv, [Next]_vars PROVE ProgressInv'
  OBVIOUS
<1> USE DEF apiVars, cacheVars, queueVars, countVars
<1>1. CASE UNCHANGED rec
  <2>1. \A n \in 1 .. rec.next - 1 :
           At("apply") \/ At("ready") => Plan[n] \in Resources
    <3>1. At("apply") \/ At("ready") => rec.next \in 1 .. Len(Plan) + 1
      BY RunningRec DEF At
    <3>2. QED
      BY <3>1, PlanFacts
  <2>2. At("apply") \/ At("ready") => \A n \in 1 .. rec.next - 1 : Kept(Plan[n])'
    BY <2>1, KeptStep DEF ProgressInv
  <2>3. QED
    BY <1>1, <2>2 DEF ProgressInv, At
<1>2. CASE rec' = Idle
  BY <1>2 DEF ProgressInv, At, Idle
<1>3. ASSUME NEW t \in Triggers, StartReconcile(t) PROVE ProgressInv'
  <2>1. rec' = rec \/ (rec'.pc = "secret" /\ rec'.next = 1)
    BY <1>3 DEF StartReconcile, Idle
  <2>2. QED
    BY <1>1, <2>1 DEF ProgressInv, At
<1>4. CASE ReadSecret \/ ListExchanges
  <2>1. rec \in RunningType /\ rec.next = 1
    BY <1>4, RunningRec DEF ReadSecret, ListExchanges, At, ProgressInv
  <2>2. rec'.next = 1 /\ rec'.pc \in {"exchange", "apply", "error"}
    BY <1>4, <2>1 DEF ReadSecret, ListExchanges, Goto, RunningType
  <2>3. QED
    BY <2>2, PlanFacts DEF ProgressInv, At
<1>5. CASE ApplyResource
  <2>1. PICK r \in Resources : r = Plan[rec.next]
    BY <1>5, ApplyMoves
  <2>2. CASE rec'.pc = "error"
    BY <2>2 DEF ProgressInv, At
  <2>3. CASE rec'.pc # "error"
    <3>1. /\ rec.next \in 1 .. Len(Plan) /\ rec'.next = rec.next + 1
          /\ rec'.pc = IF rec.next = Len(Plan) THEN "ready" ELSE "apply"
      BY <1>5, <2>3, ApplyMoves
    <3>2. \A n \in 1 .. rec.next - 1 : Plan[n] \in Resources /\ Kept(Plan[n])
      BY <1>5, <3>1, PlanFacts DEF ApplyResource, ProgressInv
    <3>3. \A n \in 1 .. rec.next - 1 : Kept(Plan[n])'
      BY <3>2, KeptStep
    <3>4. Kept(r)'
      BY <1>5, <2>1, <2>3, ApplyWrites, Fields DEF Kept, There
    <3>5. \A n \in 1 .. rec'.next - 1 : Kept(Plan[n])'
      <4>1. ASSUME NEW n \in 1 .. rec'.next - 1 PROVE Kept(Plan[n])'
        <5>1. n \in 1 .. rec.next - 1 \/ n = rec.next
          BY <3>1
        <5>2. QED
          BY <2>1, <3>3, <3>4, <5>1
      <4>2. QED
        BY <4>1
    <3>6. rec'.next <= Len(Plan) \/ rec'.pc = "ready"
      BY <3>1, PlanFacts
    <3>7. rec'.pc = "ready" => rec'.next = Len(Plan) + 1
      BY <3>1
    <3>8. QED
      BY <3>1, <3>5, <3>6, <3>7 DEF ProgressInv, At
  <2>4. QED
    BY <2>2, <2>3
<1>6. CASE ReportError \/ ReportReady \/ Restart
  BY <1>2, <1>6 DEF ReportError, ReportReady, Fail, StatusFailed, Restart
<1>7. QED
  <2>1. ASSUME NEW t \in Triggers,
               BackoffExpires(t) \/ SyncTrigger(t) \/ UserCreates(t) \/ UserDeletes(t)
        PROVE  UNCHANGED rec
    BY <2>1 DEF BackoffExpires, SyncTrigger, UserCreates, UserDeletes
  <2>2. ASSUME NEW r \in Resources, SyncResource(r) \/ Collect(r) PROVE UNCHANGED rec
    BY <2>2 DEF SyncResource, Collect
  <2>3. ASSUME Resync \/ ExchangeAppears \/ SecretRotates \/ UNCHANGED vars
        PROVE  UNCHANGED rec
    BY <2>3 DEF Resync, ExchangeAppears, SecretRotates, vars
  <2>4. QED
    BY <1>1, <1>3, <1>4, <1>5, <1>6, <2>1, <2>2, <2>3 DEF Next, ReconcileStep
\* A step that leaves an MQTTTrigger's phase alone, and leaves it settled only if it was,
\* leaves it served.
LEMMA QuietSettled ==
    ASSUME IInv, [Next]_vars, NEW t \in Triggers,
           Settled(t)' => Settled(t), triggers'[t] = triggers[t]
    PROVE  SettledInv(t)'
<1>1. SUFFICES ASSUME Settled(t)' PROVE Served(t)'
  BY DEF SettledInv
<1>2. Served(t)
  BY <1>1 DEF IInv, SettledInv
<1>3. \A r \in Resources : Kept(r)'
  BY <1>2, KeptStep DEF IInv, Served
<1>4. QED
  BY <1>2, <1>3 DEF Served

\* An MQTTTrigger that a step writes with a version the cache does not have is pending.
LEMMA NewVersionPending ==
    ASSUME NEW t \in Triggers, UNCHANGED tCache, triggers'[t].rv # tCache[t].rv
    PROVE  SettledInv(t)'
<1>1. tCache'[t] # triggers'[t]
  OBVIOUS
<1>2. QED
  BY <1>1 DEF SettledInv, Settled, Pending

\* The reports leave their key queued for a retry, or Ready with every resource there.
LEMMA ReportSettled ==
    ASSUME IInv, [Next]_vars, ReportError \/ ReportReady, NEW t \in Triggers
    PROVE  SettledInv(t)'
<1> USE DEF queueVars
<1>1. /\ rec.pc # "idle" /\ rec.key \in Triggers /\ rec.obj \in TriggerType
      /\ TypeOK /\ PresenceInv /\ SnapshotInv /\ ProgressInv /\ rec' = Idle
  BY RunningRec DEF IInv, ReportError, ReportReady, Fail, StatusFailed, At
<1>2. /\ UNCHANGED <<tCache, dirty, resources>> /\ backoff \subseteq backoff'
      /\ backoff' \subseteq backoff \union {rec.key}
  BY DEF ReportError, ReportReady, Fail, StatusFailed, cacheVars
<1>3. CASE t # rec.key
  <2>1. triggers'[t] = triggers[t]
    BY <1>1, <1>3, WritePhaseStores DEF ReportError, ReportReady
  <2>2. Settled(t)' => Settled(t)
    BY <1>1, <1>2, <1>3, <2>1 DEF Settled, Pending, Live
  <2>3. QED
    BY <2>1, <2>2, QuietSettled
<1>4. CASE t = rec.key /\ t \in backoff'
  BY <1>4 DEF SettledInv, Settled, Pending
<1>5. CASE t = rec.key /\ ReportReady /\ StatusAccepted /\ WritePhase("Ready")
  <2>1. CASE triggers'[t].rv = NewTriggerVersion(t)
    BY <1>2, <2>1, NewTriggerVersionFree, NewVersionPending
  <2>2. CASE triggers' = triggers
    <3>1. triggers'[t].phase = "Ready"
      BY <1>1, <1>5, WritePhaseStores
    <3>2. \A n \in 1 .. Len(Plan) : Kept(Plan[n])
      BY <1>1, <1>5, PlanFacts DEF ReportReady, ProgressInv
    <3>3. \A r \in Resources : Kept(r)'
      BY <1>1, <3>2, PlanFacts, KeptStep
    <3>4. QED
      BY <3>1, <3>3 DEF SettledInv, Served
  <2>3. QED
    BY <1>1, <1>5, <2>1, <2>2, WritePhaseStores
<1>6. QED
  BY <1>3, <1>4, <1>5 DEF ReportError, ReportReady, Fail, StatusFailed

\* Every step keeps settled MQTTTriggers served.
LEMMA SettledStep ==
    ASSUME IInv, [Next]_vars, NEW t \in Triggers
    PROVE  SettledInv(t)'
<1> USE DEF apiVars, cacheVars, queueVars, countVars
<1>1. CASE UNCHANGED <<triggers, tCache, rec>> /\ dirty \union backoff \subseteq dirty' \union backoff'
  BY <1>1, QuietSettled DEF Settled, Pending, Live
<1>2. ASSUME NEW u \in Triggers, StartReconcile(u) PROVE SettledInv(t)'
  <2>1. CASE u # t
    <3>1. rec.key # t
      BY <1>2, NoneIsNoTrigger DEF StartReconcile, At, IInv, TypeOK, RecType, Idle, Steps
    <3>2. Settled(t)' => Settled(t)
      BY <1>2, <2>1, <3>1 DEF StartReconcile, Settled, Pending, Live
    <3>3. QED
      BY <1>2, <3>2, QuietSettled DEF StartReconcile
  <2>2. CASE u = t
    <3>1. Settled(t)' => tCache[t] = NoTrigger
      BY <1>2, <2>2 DEF StartReconcile, Settled, Pending, Idle
    <3>2. Settled(t)' => tCache[t] # NoTrigger
      BY <1>2, <2>2 DEF StartReconcile, Settled, Pending, Live
    <3>3. QED
      BY <3>1, <3>2 DEF SettledInv
  <2>3. QED
    BY <2>1, <2>2
<1>3. CASE ReadSecret \/ ListExchanges \/ ApplyResource
  <2>1. UNCHANGED <<triggers, tCache, dirty, backoff>>
    BY <1>3 DEF ReadSecret, ListExchanges, ApplyResource
  <2>2. rec'.key = rec.key
    <3>1. CASE ReadSecret \/ ListExchanges
      <4>1. rec \in RunningType
        BY <3>1, RunningRec DEF ReadSecret, ListExchanges, At, IInv
      <4>2. QED
        BY <3>1, <4>1 DEF ReadSecret, ListExchanges, Goto, RunningType
    <3>2. CASE ApplyResource
      BY <3>2, ApplyMoves DEF IInv
    <3>3. QED
      BY <1>3, <3>1, <3>2
  <2>3. QED
    BY <2>1, <2>2, QuietSettled DEF Settled, Pending, Live
<1>4. CASE ReportError \/ ReportReady
  BY <1>4, ReportSettled
<1>5. ASSUME NEW u \in Triggers, BackoffExpires(u) PROVE SettledInv(t)'
  BY <1>1, <1>5 DEF BackoffExpires
<1>6. ASSUME NEW u \in Triggers, SyncTrigger(u) PROVE SettledInv(t)'
  <2>1. CASE u = t
    BY <1>6, <2>1 DEF SyncTrigger, SettledInv, Settled, Pending
  <2>2. CASE u # t
    <3>1. tCache'[t] = tCache[t]
      BY <1>6, <2>2 DEF SyncTrigger, IInv, TypeOK
    <3>2. QED
      BY <1>6, <3>1, QuietSettled DEF SyncTrigger, Settled, Pending, Live
  <2>3. QED
    BY <2>1, <2>2
<1>7. ASSUME NEW r \in Resources, SyncResource(r) \/ Collect(r) PROVE SettledInv(t)'
  BY <1>1, <1>7 DEF SyncResource, Collect
<1>8. CASE Resync
  BY <1>1, <1>8 DEF Resync
<1>9. CASE Restart
  BY <1>9 DEF Restart, SettledInv, Settled, Pending, Live
<1>10. CASE ExchangeAppears \/ SecretRotates
  BY <1>1, <1>10 DEF ExchangeAppears, SecretRotates
<1>11. ASSUME NEW u \in Triggers, UserCreates(u) PROVE SettledInv(t)'
  <2>1. CASE u = t
    <3> DEFINE v == NewTriggerVersion(t)
    <3>1. v # tCache[t].rv
      BY NewTriggerVersionFree
    <3> HIDE DEF v
    <3>2. triggers'[t].rv = v
      BY <1>11, <2>1 DEF UserCreates, IInv, TypeOK, v
    <3>3. QED
      BY <1>11, <3>1, <3>2, NewVersionPending DEF UserCreates
  <2>2. CASE u # t
    <3>1. triggers'[t] = triggers[t]
      BY <1>11, <2>2 DEF UserCreates, IInv, TypeOK
    <3>2. QED
      BY <1>11, <3>1, QuietSettled DEF UserCreates, Settled, Pending, Live
  <2>3. QED
    BY <2>1, <2>2
<1>12. ASSUME NEW u \in Triggers, UserDeletes(u) PROVE SettledInv(t)'
  <2>1. CASE u = t
    BY <1>12, <2>1 DEF UserDeletes, IInv, TypeOK, SettledInv, Settled, Live
  <2>2. CASE u # t
    <3>1. triggers'[t] = triggers[t]
      BY <1>12, <2>2 DEF UserDeletes, IInv, TypeOK
    <3>2. QED
      BY <1>12, <3>1, QuietSettled DEF UserDeletes, Settled, Pending, Live
  <2>3. QED
    BY <2>1, <2>2
<1>13. CASE UNCHANGED vars
  BY <1>1, <1>13 DEF vars
<1>14. QED
  BY <1>2, <1>3, <1>4, <1>5, <1>6, <1>7, <1>8, <1>9, <1>10, <1>11, <1>12, <1>13
  DEF Next, ReconcileStep

-----------------------------------------------------------------------------
(* Owners and credentials of the resources *)

\* A cached resource is recognised by its version, although versions come back: if the
\* version is the stored one, so is everything else.
ResourceCopyInv ==
    \A r \in Resources : rCache[r].rv = resources[r].rv => rCache[r] = resources[r]

\* No deployment has credentials from after secret s.
NoneNewer(s) == \A r \in Deployments : resources[r].secret <= s

\* A deployment that is there carries the credentials the reconciliation has read.
Current(r) == There(r) /\ r \in Deployments => Carries(r)

\* A reconciliation that has read the secret has read one that is no older than what any
\* deployment carries, and the deployments it has applied carry it.
CredentialsInv ==
    /\ NoneNewer(secret)
    /\ rec.pc \in {"exchange", "apply", "ready"} => rec.secret <= secret /\ NoneNewer(rec.secret)
    /\ rec.pc \in {"apply", "ready"} => \A n \in 1 .. rec.next - 1 : Current(Plan[n])

\* What an update makes of a resource: it has the desired credentials and the owner it
\* had, and a version of its own if it differs at all.
LEMMA MergeWrites ==
    ASSUME TypeOK, NEW r \in Resources, NEW x \in ResourceType
    PROVE  /\ Merge(x, r).secret = DesiredSecret(r)
           /\ Merge(x, r).owner = x.owner
           /\ Merge(x, r) = x \/ Merge(x, r).rv = NewVersion(r)
<1> DEFINE v == NewVersion(r)
           s == DesiredSecret(r)
<1> HIDE DEF v, s
<1>1. CASE x.secret = s
  BY <1>1 DEF Merge, s
<1>2. CASE x.secret # s
  <2>1. Merge(x, r) = [x EXCEPT !.secret = s, !.rv = v]
    BY <1>2 DEF Merge, s, v
  <2>2. [x EXCEPT !.secret = s, !.rv = v].secret = s /\ [x EXCEPT !.secret = s, !.rv = v].owner = x.owner
        /\ [x EXCEPT !.secret = s, !.rv = v].rv = v
    BY DEF ResourceType
  <2>3. QED
    BY <2>1, <2>2 DEF s, v
<1>3. QED
  BY <1>1, <1>2

\* ApplyResource fails, or leaves the resource whose turn it is with the desired
\* credentials, with the owner it had if it was there, and, if it changes at all, with a
\* version that the cache does not have.
LEMMA ApplyUpdates ==
    ASSUME TypeOK, PresenceInv, ProgressInv, ResourceCopyInv, ApplyResource,
           NEW r, r = Plan[rec.next]
    PROVE  /\ r \in Resources /\ UNCHANGED <<rCache, secret>>
           /\ \A q \in Resources \ {r} : resources'[q] = resources[q]
           /\ \/ rec'.pc = "error" /\ UNCHANGED resources
              \/ /\ rec'.secret = rec.secret /\ rec'.next = rec.next + 1
                 /\ resources'[r].secret = DesiredSecret(r)
                 /\ There(r) => resources'[r].owner = resources[r].owner
                 /\ resources'[r] = resources[r] \/ resources'[r].rv # rCache[r].rv
<1> DEFINE Updated == /\ rec'.secret = rec.secret /\ rec'.next = rec.next + 1
                      /\ resources'[r].secret = DesiredSecret(r)
                      /\ There(r) => resources'[r].owner = resources[r].owner
                      /\ resources'[r] = resources[r] \/ resources'[r].rv # rCache[r].rv
<1>1. /\ rec \in RunningType /\ r \in Resources /\ UNCHANGED <<rCache, secret>>
      /\ rec.next \in Nat
  <2>1. rec \in RunningType /\ r \in Resources /\ rec.next \in Nat
    BY ApplyMoves
  <2>2. QED
    BY <2>1 DEF ApplyResource, cacheVars
<1>2. \A q \in Resources \ {r} : resources'[q] = resources[q]
  BY ApplyWrites
<1>3. CASE Goto("error") /\ UNCHANGED resources
  BY <1>1, <1>2, <1>3 DEF Goto, RunningType
<1>4. Applied => rec'.secret = rec.secret /\ rec'.next = rec.next + 1
  <2>1. SUFFICES ASSUME Applied PROVE rec'.secret = rec.secret /\ rec'.next = rec.next + 1
    OBVIOUS
  <2> DEFINE p == IF rec.next = Len(Plan) THEN "ready" ELSE "apply"
  <2>2. rec' = [rec EXCEPT !.next = rec.next + 1, !.pc = p]
    BY <1>1, <2>1 DEF Applied
  <2> HIDE DEF p
  <2>3. QED
    BY <1>1, <2>2 DEF RunningType
<1>5. ASSUME Applied, resources[r] = NoResource,
             resources' = [resources EXCEPT ![r] =
                  [owner |-> Owner, rv |-> NewVersion(r), secret |-> DesiredSecret(r)]]
      PROVE  Updated
  <2>1. resources'[r] = [owner |-> Owner, rv |-> NewVersion(r), secret |-> DesiredSecret(r)]
    BY <1>1, <1>5 DEF TypeOK
  <2>2. resources'[r].secret = DesiredSecret(r) /\ resources'[r].rv = NewVersion(r)
    BY <2>1
  <2>3. resources'[r].rv # rCache[r].rv
    BY <2>2, NewVersionFree
  <2>4. QED
    BY <1>4, <1>5, <2>2, <2>3 DEF There
<1>6. ASSUME Applied, resources[r].rv = rCache[r].rv,
             resources' = [resources EXCEPT ![r] = Merge(rCache[r], r)]
      PROVE  Updated
  <2>1. rCache[r] = resources[r] /\ rCache[r] \in ResourceType
    BY <1>1, <1>6 DEF ResourceCopyInv, TypeOK
  <2>2. resources'[r] = Merge(rCache[r], r)
    BY <1>1, <1>6 DEF TypeOK
  <2>3. NewVersion(r) # rCache[r].rv
    BY NewVersionFree
  <2>4. QED
    BY <1>1, <1>4, <1>6, <2>1, <2>2, <2>3, MergeWrites
<1>7. \/ Goto("error") /\ UNCHANGED resources
      \/ Updated
  <2> HIDE DEF Updated
  <2>1. QED
    BY <1>5, <1>6 DEF ApplyResource, ApplyFailed
<1>8. QED
  BY <1>1, <1>2, <1>3, <1>7

\* Nothing else writes a resource, except the collector, who takes it.
LEMMA ResourcesKept ==
    ASSUME TypeOK, [Next]_vars, ~ApplyResource, NEW r \in Resources
    PROVE  resources'[r] = resources[r] \/ resources'[r] = NoResource
<1> USE DEF apiVars, cacheVars, queueVars, countVars
<1>1. ASSUME NEW t \in Triggers,
             \/ StartReconcile(t) \/ BackoffExpires(t) \/ SyncTrigger(t)
             \/ UserCreates(t) \/ UserDeletes(t)
      PROVE  UNCHANGED resources
  BY <1>1, Zenon DEF StartReconcile, BackoffExpires, SyncTrigger, UserCreates, UserDeletes
<1>2. ASSUME NEW q \in Resources, SyncResource(q) PROVE UNCHANGED resources
  BY <1>2 DEF SyncResource
<1>3. ASSUME NEW q \in Resources, Collect(q)
      PROVE  resources'[r] = resources[r] \/ resources'[r] = NoResource
  BY <1>3 DEF Collect, TypeOK
<1>4. ASSUME \/ ReadSecret \/ ListExchanges \/ ReportError \/ ReportReady \/ Resync
             \/ Restart \/ ExchangeAppears \/ SecretRotates \/ UNCHANGED vars
      PROVE  UNCHANGED resources
  BY <1>4 DEF ReadSecret, ListExchanges, ReportError, ReportReady, Resync, Restart,
              ExchangeAppears, SecretRotates, vars
<1>5. QED
  BY <1>1, <1>2, <1>3, <1>4 DEF Next, ReconcileStep

\* Every step keeps the cached resources recognisable.
LEMMA ResourceCopyStep ==
    ASSUME TypeOK, PresenceInv, ProgressInv, ResourceCopyInv, [Next]_vars
    PROVE  ResourceCopyInv'
<1> USE DEF apiVars, cacheVars, queueVars, countVars
<1>1. CASE ApplyResource
  <2>1. PICK r \in Resources : r = Plan[rec.next]
    BY <1>1, ApplyMoves
  <2>2. /\ UNCHANGED rCache
        /\ \A q \in Resources \ {r} : resources'[q] = resources[q]
        /\ resources'[r] = resources[r] \/ resources'[r].rv # rCache[r].rv
    BY <1>1, <2>1, ApplyUpdates
  <2>3. QED
    BY <2>2 DEF ResourceCopyInv
<1>2. ASSUME NEW q \in Resources, SyncResource(q) PROVE ResourceCopyInv'
  BY <1>2 DEF SyncResource, ResourceCopyInv, TypeOK
<1>3. CASE Restart
  BY <1>3 DEF Restart, ResourceCopyInv
<1>4. CASE UNCHANGED rCache /\ ~ApplyResource
  <2>1. \A r \in Resources : resources'[r] = resources[r] \/ resources'[r] = NoResource
    BY <1>4, ResourcesKept
  <2>2. QED
    BY <1>4, <2>1, Fields DEF ResourceCopyInv, PresenceInv
<1>5. QED
  <2>1. ASSUME NEW t \in Triggers,
               \/ StartReconcile(t) \/ BackoffExpires(t) \/ SyncTrigger(t)
               \/ UserCreates(t) \/ UserDeletes(t)
        PROVE  UNCHANGED rCache
    BY <2>1, Zenon DEF StartReconcile, BackoffExpires, SyncTrigger, UserCreates, UserDeletes
  <2>2. ASSUME NEW q \in Resources, Collect(q) PROVE UNCHANGED rCache
    BY <2>2 DEF Collect
  <2>3. ASSUME \/ ReadSecret \/ ListExchanges \/ ReportError \/ ReportReady \/ Resync
               \/ ExchangeAppears \/ SecretRotates \/ UNCHANGED vars
        PROVE  UNCHANGED rCache
    BY <2>3 DEF ReadSecret, ListExchanges, ReportError, ReportReady, Resync,
                ExchangeAppears, SecretRotates, vars
  <2>4. QED
    BY <1>1, <1>2, <1>3, <1>4, <2>1, <2>2, <2>3 DEF Next, ReconcileStep

\* Deployments are resources, and what a resource is without has the oldest credentials.
LEMMA SecretTypes ==
    ASSUME TypeOK
    PROVE  /\ \A r \in Deployments : r \in Resources /\ resources[r].secret \in Nat
           /\ secret \in Nat /\ NoResource.secret = 0
<1>1. \A r \in Deployments : r \in Resources
  BY PlanAssumption
<1>2. \A r \in Resources : resources[r].secret \in Nat
  BY Fields DEF TypeOK
<1>3. QED
  BY <1>1, <1>2 DEF TypeOK, NoResource

\* A step that leaves the resources alone, or takes one, makes no deployment newer and
\* leaves one that stays as it is.
LEMMA DeploymentsKept ==
    ASSUME TypeOK, [Next]_vars, ~ApplyResource
    PROVE  \A s \in Nat : NoneNewer(s) => \A r \in Deployments : resources'[r].secret <= s
<1> SUFFICES ASSUME NEW s \in Nat, NoneNewer(s), NEW r \in Deployments
             PROVE  resources'[r].secret <= s
  OBVIOUS
<1>1. resources'[r] = resources[r] \/ resources'[r] = NoResource
  BY ResourcesKept, SecretTypes
<1>2. resources[r].secret <= s
  BY DEF NoneNewer
<1>3. QED
  BY <1>1, <1>2, SecretTypes

\* The secret that is read does not go back.
LEMMA SecretGrows ==
    ASSUME TypeOK, [Next]_vars
    PROVE  secret' \in Nat /\ secret <= secret' /\ (SecretRotates \/ UNCHANGED secret)
<1> USE DEF apiVars, cacheVars, queueVars, countVars
<1>1. secret \in Nat
  BY DEF TypeOK
<1>2. CASE SecretRotates
  BY <1>1, <1>2 DEF SecretRotates
<1>3. CASE UNCHANGED secret
  BY <1>1, <1>3
<1>4. QED
  <2>1. ASSUME NEW t \in Triggers,
               \/ StartReconcile(t) \/ BackoffExpires(t) \/ SyncTrigger(t)
               \/ UserCreates(t) \/ UserDeletes(t)
        PROVE  UNCHANGED secret
    BY <2>1, Zenon DEF StartReconcile, BackoffExpires, SyncTrigger, UserCreates, UserDeletes
  <2>2. ASSUME NEW q \in Resources, SyncResource(q) \/ Collect(q) PROVE UNCHANGED secret
    BY <2>2 DEF SyncResource, Collect
  <2>3. ASSUME \/ ReadSecret \/ ListExchanges \/ ApplyResource \/ ReportError
               \/ ReportReady \/ Resync \/ Restart \/ ExchangeAppears \/ UNCHANGED vars
        PROVE  UNCHANGED secret
    BY <2>3 DEF ReadSecret, ListExchanges, ApplyResource, ReportError, ReportReady, Resync,
                Restart, ExchangeAppears, vars
  <2>4. QED
    BY <1>2, <1>3, <2>1, <2>2, <2>3 DEF Next, ReconcileStep

\* ApplyResource gives the deployment whose turn it is the credentials that were read.
LEMMA ApplyCredentials ==
    ASSUME TypeOK, PresenceInv, ProgressInv, ResourceCopyInv, CredentialsInv, ApplyResource
    PROVE  CredentialsInv'
<1>1. PICK r \in Resources : r = Plan[rec.next]
  BY ApplyMoves
<1>2. /\ rec \in RunningType /\ rec.pc = "apply" /\ rec.secret \in Nat /\ UNCHANGED secret
      /\ rec.next \in 1 .. Len(Plan)
  <2>1. rec.pc = "apply" /\ UNCHANGED secret
    BY DEF ApplyResource, cacheVars, At
  <2>2. QED
    BY <2>1, ApplyMoves, RunningRec
<1>3. /\ NoneNewer(secret) /\ NoneNewer(rec.secret) /\ rec.secret <= secret
      /\ \A n \in 1 .. rec.next - 1 : Current(Plan[n])
  BY <1>2 DEF CredentialsInv
<1>4. \A q \in Resources \ {r} : resources'[q] = resources[q]
  BY <1>1, ApplyUpdates
<1>5. CASE rec'.pc = "error" /\ UNCHANGED resources
  BY <1>2, <1>3, <1>5 DEF CredentialsInv, NoneNewer
<1>6. CASE /\ rec'.secret = rec.secret /\ rec'.next = rec.next + 1
           /\ resources'[r].secret = DesiredSecret(r)
  <2>1. ASSUME NEW q \in Deployments
        PROVE  resources'[q] = resources[q] \/ resources'[q].secret = rec.secret
    <3>1. CASE q = r
      BY <1>6, <3>1 DEF DesiredSecret
    <3>2. CASE q # r
      BY <1>4, <3>2, SecretTypes
    <3>3. QED
      BY <3>1, <3>2
  <2>2. ASSUME NEW q \in Deployments
        PROVE  resources'[q].secret <= secret /\ resources'[q].secret <= rec.secret
    <3>1. /\ resources[q].secret <= secret /\ resources[q].secret <= rec.secret
          /\ rec.secret <= secret
      BY <1>3 DEF NoneNewer
    <3>2. rec.secret <= rec.secret
      BY <1>2
    <3>3. QED
      BY <2>1, <3>1, <3>2
  <2>3. /\ \A q \in Deployments : resources'[q].secret <= secret'
        /\ \A q \in Deployments : resources'[q].secret <= rec'.secret
    BY <1>2, <1>6, <2>2
  <2>4. ASSUME NEW n \in 1 .. rec'.next - 1 PROVE Current(Plan[n])'
    <3>1. Plan[n] \in Resources /\ (n \in 1 .. rec.next - 1 \/ n = rec.next)
      BY <1>2, <1>6, PlanFacts
    <3>2. CASE Plan[n] = r
      BY <1>6, <3>2 DEF Current, Carries, DesiredSecret
    <3>3. CASE Plan[n] # r
      <4>1. resources'[Plan[n]] = resources[Plan[n]] /\ Current(Plan[n])
        BY <1>1, <1>3, <1>4, <3>1, <3>3
      <4>2. QED
        BY <1>6, <4>1 DEF Current, Carries, There
    <3>4. QED
      BY <3>2, <3>3
  <2>5. QED
    BY <1>2, <1>3, <1>6, <2>3, <2>4 DEF CredentialsInv, NoneNewer
<1>7. QED
  BY <1>1, <1>5, <1>6, ApplyUpdates

\* Every step keeps the credentials in order.
LEMMA CredentialsStep ==
    ASSUME TypeOK, PresenceInv, ProgressInv, ResourceCopyInv, CredentialsInv, [Next]_vars
    PROVE  CredentialsInv'
<1> USE DEF apiVars, cacheVars, queueVars, countVars
<1>1. CASE ApplyResource
  BY <1>1, ApplyCredentials
<1>2. CASE ~ApplyResource /\ rec'.pc \notin {"exchange", "apply", "ready"}
  <2>1. NoneNewer(secret) /\ secret \in Nat
    BY SecretTypes DEF CredentialsInv
  <2>2. ASSUME NEW r \in Deployments PROVE resources'[r].secret <= secret'
    <3>1. resources'[r].secret \in Nat
      <4>1. resources'[r] = resources[r] \/ resources'[r] = NoResource
        BY <1>2, ResourcesKept, SecretTypes
      <4>2. QED
        BY <4>1, SecretTypes
    <3>2. resources'[r].secret <= secret
      BY <1>2, <2>1, DeploymentsKept
    <3>3. QED
      BY <2>1, <3>1, <3>2, SecretGrows
  <2>3. QED
    BY <1>2, <2>2 DEF CredentialsInv, NoneNewer
<1>3. CASE ReadSecret
  <2>1. rec \in RunningType /\ UNCHANGED <<resources, secret>>
    BY <1>3, RunningRec DEF ReadSecret, At
  <2>2. CASE rec' = [rec EXCEPT !.pc = "exchange", !.secret = secret]
    <3>1. rec'.pc = "exchange" /\ rec'.secret = secret
      BY <2>1, <2>2 DEF RunningType
    <3>2. NoneNewer(secret) /\ secret \in Nat
      BY SecretTypes DEF CredentialsInv
    <3>3. QED
      BY <2>1, <3>1, <3>2 DEF CredentialsInv, NoneNewer
  <2>3. CASE rec' = [rec EXCEPT !.pc = "error"]
    <3>1. rec'.pc = "error"
      BY <2>1, <2>3 DEF RunningType
    <3>2. ~ApplyResource
      BY <1>3 DEF ReadSecret, ApplyResource, At
    <3>3. QED
      BY <1>2, <3>1, <3>2
  <2>4. QED
    BY <1>3, <2>2, <2>3 DEF ReadSecret, Goto
<1>4. CASE ListExchanges
  <2>1. /\ rec \in RunningType /\ UNCHANGED <<resources, secret>>
        /\ rec.pc = "exchange" /\ rec.next = 1
    BY <1>4, RunningRec DEF ListExchanges, At, ProgressInv
  <2>2. rec'.pc \in {"apply", "error"} /\ rec'.secret = rec.secret /\ rec'.next = 1
    BY <1>4, <2>1 DEF ListExchanges, Goto, RunningType
  <2>3. QED
    BY <2>1, <2>2 DEF CredentialsInv, NoneNewer
<1>5. CASE UNCHANGED rec /\ ~ApplyResource /\ rec.pc \in {"exchange", "apply", "ready"}
  <2>1. /\ NoneNewer(secret) /\ NoneNewer(rec.secret) /\ rec.secret <= secret
        /\ secret \in Nat /\ rec.secret \in Nat
    BY <1>5, RunningRec, SecretTypes DEF CredentialsInv
  <2>2. /\ \A r \in Deployments : resources'[r].secret <= secret
        /\ \A r \in Deployments : resources'[r].secret <= rec.secret
    BY <1>5, <2>1, DeploymentsKept
  <2>3. secret' \in Nat /\ secret <= secret'
    BY SecretGrows
  <2>4. ASSUME NEW r \in Deployments PROVE resources'[r].secret <= secret'
    <3>1. resources'[r].secret \in Nat
      <4>1. resources'[r] = resources[r] \/ resources'[r] = NoResource
        BY <1>5, ResourcesKept, SecretTypes
      <4>2. QED
        BY <4>1, SecretTypes
    <3>2. QED
      BY <2>1, <2>2, <2>3, <3>1
  <2>5. ASSUME rec.pc \in {"apply", "ready"}, NEW n \in 1 .. rec.next - 1
        PROVE  Current(Plan[n])'
    <3>1. Plan[n] \in Resources
      <4>1. rec.next \in 1 .. Len(Plan) + 1
        BY <1>5, RunningRec
      <4>2. QED
        BY <4>1, PlanFacts
    <3>2. resources'[Plan[n]] = resources[Plan[n]] \/ resources'[Plan[n]] = NoResource
      BY <1>5, <3>1, ResourcesKept
    <3>3. Current(Plan[n])
      BY <2>5 DEF CredentialsInv
    <3>4. QED
      BY <1>5, <3>2, <3>3 DEF Current, Carries, There
  <2>6. rec'.secret <= secret'
    BY <1>5, <2>1, <2>3
  <2>7. QED
    BY <1>5, <2>2, <2>4, <2>5, <2>6 DEF CredentialsInv, NoneNewer
<1>6. ASSUME rec' = Idle \/ rec'.pc \in {"secret", "error"}, ~ApplyResource PROVE CredentialsInv'
  BY <1>2, <1>6 DEF Idle
<1>7. CASE UNCHANGED rec /\ ~ApplyResource
  BY <1>2, <1>5, <1>7
<1>8. QED
  <2>1. ASSUME NEW t \in Triggers, StartReconcile(t) PROVE CredentialsInv'
    <3>1. rec' = rec \/ rec'.pc = "secret"
      BY <2>1 DEF StartReconcile, Idle
    <3>2. ~ApplyResource
      BY <2>1 DEF StartReconcile, ApplyResource, At
    <3>3. QED
      BY <1>6, <1>7, <3>1, <3>2
  <2>2. ASSUME ReportError \/ ReportReady \/ Restart PROVE rec' = Idle
    BY <2>2 DEF ReportError, ReportReady, Fail, StatusFailed, Restart
  <2>3. ASSUME NEW t \in Triggers,
               BackoffExpires(t) \/ SyncTrigger(t) \/ UserCreates(t) \/ UserDeletes(t)
        PROVE  UNCHANGED rec
    BY <2>3, Zenon DEF BackoffExpires, SyncTrigger, UserCreates, UserDeletes
  <2>4. ASSUME NEW r \in Resources, SyncResource(r) \/ Collect(r) PROVE UNCHANGED rec
    BY <2>4 DEF SyncResource, Collect
  <2>5. ASSUME Resync \/ ExchangeAppears \/ SecretRotates \/ UNCHANGED vars
        PROVE  UNCHANGED rec
    BY <2>5 DEF Resync, ExchangeAppears, SecretRotates, vars
  <2>6. QED
    BY <1>1, <1>3, <1>4, <1>6, <1>7, <2>1, <2>2, <2>3, <2>4, <2>5 DEF Next, ReconcileStep

\* An MQTTTrigger becomes Ready only by the report of a reconciliation.
LEMMA ReadyByReport ==
    ASSUME TypeOK, [Next]_vars, NEW t \in Triggers,
           triggers[t].phase # "Ready", triggers'[t].phase = "Ready"
    PROVE  ReportReady
<1> USE DEF apiVars, cacheVars, queueVars, countVars
<1>1. ASSUME ReportError PROVE FALSE
  <2>1. CASE UNCHANGED triggers
    BY <2>1
  <2>2. CASE StatusAccepted /\ WritePhase("Error")
    <3>1. rec.pc # "idle" /\ rec.key \in Triggers
      BY <1>1, RunningRec DEF ReportError, At
    <3>2. triggers'[rec.key].phase = "Error"
      BY <2>2, <3>1, WritePhaseStores
    <3>3. t # rec.key => triggers'[t] = triggers[t]
      BY <2>2, <3>1, WritePhaseStores
    <3>4. QED
      BY <3>2, <3>3
  <2>3. QED
    BY <1>1, <2>1, <2>2 DEF ReportError
<1>2. ASSUME NEW u \in Triggers, UserCreates(u) PROVE triggers'[t].phase # "Ready"
  <2> DEFINE v == NewTriggerVersion(u)
  <2> HIDE DEF v
  <2>1. triggers' = [triggers EXCEPT ![u] = [uid |-> creates + 1, rv |-> v, phase |-> ""]]
    BY <1>2 DEF UserCreates, v
  <2>2. QED
    BY <2>1 DEF TypeOK
<1>3. ASSUME NEW u \in Triggers, UserDeletes(u) PROVE triggers'[t].phase # "Ready"
  BY <1>3 DEF UserDeletes, TypeOK, NoTrigger
<1>4. ASSUME NEW u \in Triggers, StartReconcile(u) \/ BackoffExpires(u) \/ SyncTrigger(u)
      PROVE  UNCHANGED triggers
  BY <1>4 DEF StartReconcile, BackoffExpires, SyncTrigger
<1>5. ASSUME NEW q \in Resources, SyncResource(q) \/ Collect(q) PROVE UNCHANGED triggers
  BY <1>5 DEF SyncResource, Collect
<1>6. ASSUME \/ ReadSecret \/ ListExchanges \/ ApplyResource \/ Resync \/ Restart
             \/ ExchangeAppears \/ SecretRotates \/ UNCHANGED vars
      PROVE  UNCHANGED triggers
  BY <1>6 DEF ReadSecret, ListExchanges, ApplyResource, Resync, Restart, ExchangeAppears,
              SecretRotates, vars
<1>7. QED
  BY <1>1, <1>2, <1>3, <1>4, <1>5, <1>6 DEF Next, ReconcileStep

-----------------------------------------------------------------------------
(* The theorems *)

\* The initial states satisfy the inductive invariant.
LEMMA InitInv == Init => IInv
<1> SUFFICES ASSUME Init PROVE IInv
  OBVIOUS
<1>1. secret \in Nat /\ exchange \in BOOLEAN
  BY BrokerAssumption DEF Init
<1>2. TypeOK
  BY <1>1, Fields DEF Init, TypeOK, RecType
<1>3. PresenceInv /\ SnapshotInv /\ ProgressInv
  BY DEF Init, PresenceInv, SnapshotInv, ProgressInv, Copy, At, Idle
<1>4. \A t \in Triggers : SettledInv(t)
  BY DEF Init, SettledInv, Settled, Live
<1>5. QED
  BY <1>2, <1>3, <1>4 DEF IInv

\* The inductive invariant holds throughout: what is absent has version 0, copies are
\* recognised by versions that come back, and a reconciliation has applied what it says.
THEOREM Invariance == Spec => []IInv
<1>1. IInv /\ [Next]_vars => IInv'
  <2> SUFFICES ASSUME IInv, [Next]_vars PROVE IInv'
    OBVIOUS
  <2>1. TypeOK' /\ PresenceInv' /\ SnapshotInv' /\ ProgressInv'
    BY TypeStep, PresenceStep, SnapshotStep, ProgressStep DEF IInv
  <2>2. \A t \in Triggers : SettledInv(t)'
    BY SettledStep
  <2>3. QED
    BY <2>1, <2>2 DEF IInv
<1>2. QED
  BY InitInv, <1>1, PTL DEF Spec

\* Every variable keeps to its type, whatever the worker, the caches, the collector and
\* the users do.
THEOREM TypeCorrect == Spec => []TypeOK
<1>1. IInv => TypeOK
  BY DEF IInv
<1>2. QED
  BY Invariance, <1>1, PTL

\* Reconcile passes over no resource: when the controller is done with an MQTTTrigger,
\* the queue, deployment and service of both dispatchers are there unless the collector
\* has taken them, whichever MQTTTrigger owns them.
THEOREM AllApplied == Spec => []NothingSkipped
<1>1. IInv => NothingSkipped
  BY DEF IInv, SettledInv, Served, Kept, NothingSkipped
<1>2. QED
  BY Invariance, <1>1, PTL

\* Reconcile leaves an MQTTTrigger alone only when Ready is what its phase says: no
\* failed status update and no earlier Error stays behind.
THEOREM ReadyWhenSettled == Spec => []SettledReady
<1>1. IInv => SettledReady
  BY DEF IInv, SettledInv, Served, SettledReady
<1>2. QED
  BY Invariance, <1>1, PTL

\* The second invariant: what a cache holds of a resource is recognised by its version,
\* and no deployment has credentials from after those the running reconciliation has read.
THEOREM CredentialsOrder == Spec => [](ResourceCopyInv /\ CredentialsInv)
<1>1. Init => ResourceCopyInv /\ CredentialsInv
  <2> SUFFICES ASSUME Init PROVE ResourceCopyInv /\ CredentialsInv
    OBVIOUS
  <2>1. resources = [r \in Resources |-> NoResource] /\ rCache = resources /\ rec = Idle
    BY DEF Init
  <2>2. secret \in Nat
    BY BrokerAssumption DEF Init
  <2>3. \A r \in Deployments : resources[r] = NoResource
    BY <2>1, PlanAssumption
  <2>4. QED
    BY <2>1, <2>2, <2>3 DEF ResourceCopyInv, CredentialsInv, NoneNewer, Idle, NoResource
<1>2. IInv /\ ResourceCopyInv /\ CredentialsInv /\ [Next]_vars
        => ResourceCopyInv' /\ CredentialsInv'
  BY ResourceCopyStep, CredentialsStep DEF IInv
<1>3. QED
  BY Invariance, <1>1, <1>2, PTL DEF Spec

\* Ready is written only over resources that are all there or taken by the collector, and
\* over deployments that all carry the credentials read by the reconciliation that says so.
THEOREM ReadyIsApplied == Spec => ReadyMeansApplied
<1>1. ASSUME IInv, CredentialsInv, [Next]_vars, NEW t \in Triggers,
             triggers[t].phase # "Ready", triggers'[t].phase = "Ready",
             NEW r \in Resources, r \notin taken
      PROVE  There(r) /\ (r \in Deployments => Carries(r))
  <2>1. ReportReady
    BY <1>1, ReadyByReport DEF IInv
  <2>2. rec.pc = "ready" /\ rec.next = Len(Plan) + 1
    BY <1>1, <2>1 DEF ReportReady, At, IInv, ProgressInv
  <2>3. PICK n \in 1 .. Len(Plan) : Plan[n] = r
    BY PlanFacts
  <2>4. n \in 1 .. rec.next - 1
    BY <2>2, PlanFacts
  <2>5. Kept(r) /\ Current(r)
    BY <1>1, <2>2, <2>3, <2>4 DEF IInv, ProgressInv, CredentialsInv, At
  <2>6. QED
    BY <1>1, <2>5 DEF Kept, Current
<1>2. IInv /\ CredentialsInv /\ [Next]_vars =>
        [\A t \in Triggers : triggers[t].phase # "Ready" /\ triggers'[t].phase = "Ready" =>
           \A r \in Resources : \/ r \in taken
                                \/ There(r) /\ (r \in Deployments => Carries(r))]_vars
  BY <1>1
<1>3. QED
  BY Invariance, CredentialsOrder, <1>2, PTL DEF Spec, ReadyMeansApplied

\* No deployment gets older credentials than it has, whatever a cache holds and whenever
\* the secret is rotated.
THEOREM CredentialsGrow == Spec => CredentialsNeverOlder
<1>1. ASSUME IInv, ResourceCopyInv, CredentialsInv, [Next]_vars, NEW r \in Deployments,
             There(r), There(r)'
      PROVE  resources'[r].secret >= resources[r].secret
  <2>1. r \in Resources /\ resources[r].secret \in Nat
    BY <1>1, SecretTypes DEF IInv
  <2>2. CASE ~ApplyResource
    BY <1>1, <2>1, <2>2, ResourcesKept DEF IInv, There
  <2>3. CASE ApplyResource
    <3>1. rec.pc = "apply" /\ rec.secret \in Nat /\ resources[r].secret <= rec.secret
      <4>1. rec.pc = "apply"
        BY <2>3 DEF ApplyResource, At
      <4>2. QED
        BY <1>1, <4>1, RunningRec DEF IInv, CredentialsInv, NoneNewer
    <3>2. resources'[r] = resources[r] \/ resources'[r].secret = DesiredSecret(r)
      BY <1>1, <2>1, <2>3, ApplyUpdates DEF IInv
    <3>3. DesiredSecret(r) = rec.secret
      BY DEF DesiredSecret
    <3>4. QED
      BY <2>1, <3>1, <3>2, <3>3
  <2>4. QED
    BY <2>2, <2>3
<1>2. IInv /\ ResourceCopyInv /\ CredentialsInv /\ [Next]_vars =>
        [\A r \in Deployments : There(r) /\ There(r)' =>
           resources'[r].secret >= resources[r].secret]_vars
  BY <1>1
<1>3. QED
  BY Invariance, CredentialsOrder, <1>2, PTL DEF Spec, CredentialsNeverOlder

\* No MQTTTrigger takes over what another has created, not even by writing back a copy
\* that a cache held.
THEOREM NobodyAdopts == Spec => OwnersStay
<1>1. ASSUME IInv, ResourceCopyInv, [Next]_vars, NEW r \in Resources, There(r), There(r)'
      PROVE  resources'[r].owner = resources[r].owner
  <2>1. CASE ~ApplyResource
    BY <1>1, <2>1, ResourcesKept DEF IInv, There
  <2>2. CASE ApplyResource
    BY <1>1, <2>2, ApplyUpdates DEF IInv
  <2>3. QED
    BY <2>1, <2>2
<1>2. IInv /\ ResourceCopyInv /\ [Next]_vars =>
        [\A r \in Resources : There(r) /\ There(r)' =>
           resources'[r].owner = resources[r].owner]_vars
  BY <1>1
<1>3. QED
  BY Invariance, CredentialsOrder, <1>2, PTL DEF Spec, OwnersStay

=============================================================================
