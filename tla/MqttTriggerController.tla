------------------------ MODULE MqttTriggerController ------------------------
(***************************************************************************)
(* The MQTTTrigger controller: for every MQTTTrigger it applies the queue, *)
(* the deployment and the service of two dispatchers, under names that all *)
(* MQTTTriggers of a namespace share, and reports a phase. Around it: the  *)
(* API server, the informer caches, the work queue, the garbage collector  *)
(* and the users. One worker runs Reconcile.                               *)
(*                                                                         *)
(* A Get before a write is part of the write's action: it reads a cache    *)
(* that may lag behind as far as it likes, so that reading it earlier      *)
(* reads nothing that it could not hold when the write is made.            *)
(***************************************************************************)
EXTENDS Integers, Sequences

CONSTANTS
    Triggers,       \* names of MQTTTrigger resources
    Plan,           \* the resources, in the order in which they are applied
    Deployments,    \* those of them that carry the credentials of the broker's secret
    NONE,           \* the absent value
    InitialBroker,  \* what of the broker is in place when the operator starts
    MaxCreates, MaxDeletes,  \* bounds on what users do to MQTTTriggers
    MaxRotations,   \* bound on the versions of the secret; version 0 is no secret
    MaxFaults       \* bound on failed API calls and operator restarts

\* The resources the code applies, and the deployments among them.
AllResources == <<"mqtt-dispatcher-queue", "mqtt-deployment", "mqtt-service",
                  "cloud-event-dispatcher-queue", "cloud-event-deployment",
                  "cloud-event-service">>
AllDeployments == {"mqtt-deployment", "cloud-event-deployment"}

Resources == {Plan[n] : n \in 1 .. Len(Plan)}

ASSUME NoneIsNoTrigger == NONE \notin Triggers
ASSUME PlanAssumption == /\ Plan \in Seq(Resources) /\ Len(Plan) > 0
                         /\ Deployments \subseteq Resources
ASSUME BrokerAssumption == InitialBroker \subseteq [secret: Nat, exchange: BOOLEAN]
ASSUME LimitsAssumption == /\ MaxCreates \in Nat /\ MaxDeletes \in Nat
                           /\ MaxRotations \in Nat /\ MaxFaults \in Nat

VARIABLES
    triggers,     \* API server: the MQTTTriggers
    resources,    \* API server: the resources of the dispatchers
    tCache,       \* informer cache of triggers
    rCache,       \* informer cache of resources
    secret,       \* version of the broker's secret, 0 if there is none
    exchange,     \* whether the broker's exchange is there
    dirty,        \* work queue: keys waiting for the worker
    backoff,      \* work queue: keys waiting for their retry delay
    rec,          \* the running reconciliation: its local variables
    creates, deletes, faults,  \* counters for the bounds
    taken         \* history: resources the collector took and nobody has made again

apiVars == <<triggers, resources>>
cacheVars == <<tCache, rCache, secret, exchange>>
queueVars == <<dirty, backoff>>
countVars == <<creates, deletes, faults>>
vars == <<apiVars, cacheVars, queueVars, rec, countVars, taken>>

-----------------------------------------------------------------------------
(* Objects *)

TriggerType == [uid: Nat, rv: Nat, phase: {"", "Ready", "Error"}]
NoTrigger == [uid |-> 0, rv |-> 0, phase |-> ""]
Live(t) == triggers[t] # NoTrigger

\* A resource: the UID of its owner, its resource version, the version of the secret
\* whose credentials are in it.
ResourceType == [owner: Nat, rv: Nat, secret: Nat]
NoResource == [owner |-> 0, rv |-> 0, secret |-> 0]

\* A resource's version is only ever compared with a cached one.
NewVersion(r) == CHOOSE v \in {1, 2, 3} : v \notin {resources[r].rv, rCache[r].rv}

Idle == [pc |-> "idle", key |-> NONE, obj |-> NoTrigger, next |-> 1, secret |-> 0]
Steps == {"secret", "exchange", "apply", "ready", "error"}

\* The local variables of a reconciliation: the step it is about to take, the key, the
\* object as it was read, the resource to apply next, the secret it has read.
RecType == {Idle} \union
    [pc: Steps, key: Triggers, obj: TriggerType, next: 1 .. Len(Plan) + 1, secret: Nat]

\* The version of an MQTTTrigger is only ever compared with that of the cached copy or of
\* the one a reconciliation has read; one that neither has stands for a new one.
NewTriggerVersion(t) ==
    CHOOSE v \in {1, 2, 3, 4} : v \notin {triggers[t].rv, tCache[t].rv, rec.obj.rv}

At(p) == rec.pc = p
Goto(p) == rec' = [rec EXCEPT !.pc = p]

ApiError == faults < MaxFaults /\ faults' = faults + 1
ApiAnswers == UNCHANGED faults

\* Reconcile returns an error: the key is put back after a delay.
Fail_NotRequeued == rec' = Idle /\ UNCHANGED queueVars
Fail_KeyAlreadyCleared == /\ rec' = Idle
                          /\ backoff' = backoff \union {Idle.key}
                          /\ UNCHANGED dirty
Fail == /\ rec' = Idle
        /\ backoff' = backoff \union {rec.key}
        /\ UNCHANGED dirty

-----------------------------------------------------------------------------
(* Reconcile *)

\* The worker takes key t and reads the MQTTTrigger from the cache.
StartReconcile(t) ==
    /\ At("idle") /\ t \in dirty
    /\ dirty' = dirty \ {t}
    /\ \/ /\ ApiError
          /\ backoff' = backoff \union {t}
          /\ UNCHANGED rec
       \/ /\ ApiAnswers
          /\ rec' = IF tCache[t] = NoTrigger THEN rec
                    ELSE [Idle EXCEPT !.pc = "secret", !.key = t, !.obj = tCache[t]]
          /\ UNCHANGED backoff
    /\ UNCHANGED <<apiVars, cacheVars, creates, deletes, taken>>

\* Get of the secret rabbitmq-default-user: without it, an error.
ReadSecret_ErrorIgnored ==
    /\ At("secret")
    /\ \/ /\ ApiAnswers /\ secret > 0
          /\ rec' = [rec EXCEPT !.pc = "exchange", !.secret = secret]
       \/ ApiAnswers /\ secret = 0 /\ Goto("exchange")
       \/ ApiError /\ Goto("exchange")
    /\ UNCHANGED <<apiVars, cacheVars, queueVars, creates, deletes, taken>>

ReadSecret ==
    /\ At("secret")
    /\ \/ /\ ApiAnswers /\ secret > 0
          /\ rec' = [rec EXCEPT !.pc = "exchange", !.secret = secret]
       \/ ApiAnswers /\ secret = 0 /\ Goto("error")
       \/ ApiError /\ Goto("error")
    /\ UNCHANGED <<apiVars, cacheVars, queueVars, creates, deletes, taken>>

\* List of the broker's exchanges: an empty list is an error too.
ListExchanges ==
    /\ At("exchange")
    /\ \/ ApiAnswers /\ exchange /\ Goto("apply")
       \/ ApiAnswers /\ ~exchange /\ Goto("error")
       \/ ApiError /\ Goto("error")
    /\ UNCHANGED <<apiVars, cacheVars, queueVars, creates, deletes, taken>>

\* The resource as the reconciliation wants it: the owner it is created with, the secret
\* it carries.
Owner_Missing == 0
Owner == rec.obj.uid
DesiredSecret(r) == IF r \in Deployments THEN rec.secret ELSE 0
Applied == rec' = [rec EXCEPT !.next = @ + 1,
                              !.pc = IF rec.next = Len(Plan) THEN "ready" ELSE "apply"]

\* An error of apply... ends the reconciliation's work on the resources.
ApplyFailed == Goto("error")

\* The existing resource with the desired specification; the owner reference stays.
Merge_KeepsSpec(existing, r) == existing
Merge_Adopts(existing, r) ==
    IF existing.secret = DesiredSecret(r) THEN existing
    ELSE [owner |-> Owner, rv |-> NewVersion(r), secret |-> DesiredSecret(r)]
Merge(existing, r) ==
    IF existing.secret = DesiredSecret(r) THEN existing
    ELSE [existing EXCEPT !.secret = DesiredSecret(r), !.rv = NewVersion(r)]

\* applyQueue, applyDeployment, applyService: create what the cache does not have, update
\* what it has. A lagging cache makes Create find the resource there, or Update find a
\* newer one or none.
ApplyResource ==
    /\ At("apply")
    /\ LET r == Plan[rec.next]
           existing == rCache[r]
       IN  \/ /\ ApiError
              /\ ApplyFailed
              /\ UNCHANGED <<resources, taken>>
           \/ /\ ApiAnswers /\ existing = NoResource /\ resources[r] = NoResource
              /\ resources' = [resources EXCEPT ![r] =
                     [owner |-> Owner, rv |-> NewVersion(r), secret |-> DesiredSecret(r)]]
              /\ taken' = taken \ {r}
              /\ Applied
           \/ /\ ApiAnswers /\ existing # NoResource /\ resources[r].rv = existing.rv
              /\ resources' = [resources EXCEPT ![r] = Merge(existing, r)]
              /\ Applied
              /\ UNCHANGED taken
           \/ /\ ApiAnswers /\ resources[r].rv # existing.rv
              /\ ApplyFailed
              /\ UNCHANGED <<resources, taken>>
    /\ UNCHANGED <<triggers, cacheVars, queueVars, creates, deletes>>

\* Status().Update of the object as it was read, with phase p: refused if it is not the
\* stored version.
StatusAccepted == Live(rec.key) /\ triggers[rec.key].rv = rec.obj.rv
WritePhase(p) ==
    triggers' = IF triggers[rec.key].phase = p THEN triggers
                ELSE [triggers EXCEPT ![rec.key].phase = p,
                                      ![rec.key].rv = NewTriggerVersion(rec.key)]

\* Something failed: the phase is set to Error, whether that works or not, and the error
\* is returned.
ReportError ==
    /\ At("error")
    /\ \/ /\ ApiAnswers /\ StatusAccepted
          /\ WritePhase("Error")
       \/ /\ ApiError \/ (ApiAnswers /\ ~StatusAccepted)
          /\ UNCHANGED triggers
    /\ Fail
    /\ UNCHANGED <<resources, cacheVars, creates, deletes, taken>>

\* Everything was applied: the phase is set to Ready; if that fails, so does Reconcile.
StatusFailed_Ignored == rec' = Idle /\ UNCHANGED queueVars
StatusFailed == Fail
ReportReady ==
    /\ At("ready")
    /\ \/ /\ ApiAnswers /\ StatusAccepted
          /\ WritePhase("Ready")
          /\ rec' = Idle
          /\ UNCHANGED queueVars
       \/ /\ ApiError \/ (ApiAnswers /\ ~StatusAccepted)
          /\ StatusFailed
          /\ UNCHANGED triggers
    /\ UNCHANGED <<resources, cacheVars, creates, deletes, taken>>

ReconcileStep == ReadSecret \/ ListExchanges \/ ApplyResource \/ ReportError \/ ReportReady

-----------------------------------------------------------------------------
(* Work queue, informers and restarts *)

BackoffExpires(t) ==
    /\ t \in backoff
    /\ backoff' = backoff \ {t}
    /\ dirty' = dirty \union {t}
    /\ UNCHANGED <<apiVars, cacheVars, rec, countVars, taken>>

SyncTrigger(t) ==
    /\ tCache[t] # triggers[t]
    /\ tCache' = [tCache EXCEPT ![t] = triggers[t]]
    /\ dirty' = dirty \union {t}
    /\ UNCHANGED <<apiVars, rCache, secret, exchange, backoff, rec, countVars, taken>>

\* The controller watches what it owns, but Owns() follows owner references to a
\* controller only, and those of the resources do not say that they are: no key is queued.
SyncResource(r) ==
    /\ rCache[r] # resources[r]
    /\ rCache' = [rCache EXCEPT ![r] = resources[r]]
    /\ UNCHANGED <<apiVars, tCache, secret, exchange, queueVars, rec, countVars, taken>>

\* The informer's periodic resync queues every MQTTTrigger it holds.
Resync ==
    /\ dirty' = dirty \union {t \in Triggers : tCache[t] # NoTrigger}
    /\ UNCHANGED <<apiVars, cacheVars, backoff, rec, countVars, taken>>

\* The operator restarts: queue and reconciliation are lost, the caches are fresh.
Restart ==
    /\ ApiError
    /\ rec' = Idle
    /\ backoff' = {}
    /\ tCache' = triggers
    /\ rCache' = resources
    /\ dirty' = {t \in Triggers : Live(t)}
    /\ UNCHANGED <<apiVars, secret, exchange, creates, deletes, taken>>

-----------------------------------------------------------------------------
(* The cluster and its users *)

\* The garbage collector deletes a resource whose owner no longer exists, even if another
\* MQTTTrigger relies on it.
Collect(r) ==
    /\ resources[r].owner > 0
    /\ \A t \in Triggers : triggers[t].uid # resources[r].owner
    /\ resources' = [resources EXCEPT ![r] = NoResource]
    /\ taken' = taken \union {r}
    /\ UNCHANGED <<triggers, cacheVars, queueVars, rec, countVars>>

\* The broker comes up, and its secret is made anew now and then.
ExchangeAppears ==
    /\ ~exchange /\ exchange' = TRUE
    /\ UNCHANGED <<apiVars, tCache, rCache, secret, queueVars, rec, countVars, taken>>

SecretRotates ==
    /\ secret < MaxRotations /\ secret' = secret + 1
    /\ UNCHANGED <<apiVars, tCache, rCache, exchange, queueVars, rec, countVars, taken>>

UserCreates(t) ==
    /\ ~Live(t) /\ creates < MaxCreates
    /\ creates' = creates + 1
    /\ triggers' = [triggers EXCEPT ![t] =
           [uid |-> creates + 1, rv |-> NewTriggerVersion(t), phase |-> ""]]
    /\ UNCHANGED <<resources, cacheVars, queueVars, rec, deletes, faults, taken>>

UserDeletes(t) ==
    /\ Live(t) /\ deletes < MaxDeletes
    /\ deletes' = deletes + 1
    /\ triggers' = [triggers EXCEPT ![t] = NoTrigger]
    /\ UNCHANGED <<resources, cacheVars, queueVars, rec, creates, faults, taken>>

-----------------------------------------------------------------------------
(* The specification *)

Init ==
    /\ triggers = [t \in Triggers |-> NoTrigger]
    /\ resources = [r \in Resources |-> NoResource]
    /\ tCache = triggers
    /\ rCache = resources
    /\ \E broker \in InitialBroker :
          secret = broker.secret /\ exchange = broker.exchange
    /\ dirty = {} /\ backoff = {}
    /\ rec = Idle
    /\ creates = 0 /\ deletes = 0 /\ faults = 0
    /\ taken = {}

Next ==
    \/ \E t \in Triggers : StartReconcile(t)
    \/ ReconcileStep
    \/ \E t \in Triggers : BackoffExpires(t) \/ SyncTrigger(t)
    \/ \E r \in Resources : SyncResource(r) \/ Collect(r)
    \/ Resync
    \/ Restart
    \/ ExchangeAppears \/ SecretRotates
    \/ \E t \in Triggers : UserCreates(t) \/ UserDeletes(t)

Spec == Init /\ [][Next]_vars

\* As for the other controllers: the worker goes on, a key that keeps being queued is
\* taken in its turn, delays expire, watches deliver, the collector collects, and the
\* broker comes up with a secret. A later rotation is under no obligation.
Fairness ==
    /\ WF_vars(ReconcileStep)
    /\ WF_vars(ExchangeAppears)
    /\ WF_vars(secret = 0 /\ SecretRotates)
    /\ \A t \in Triggers : /\ SF_vars(StartReconcile(t))
                           /\ WF_vars(BackoffExpires(t))
                           /\ WF_vars(SyncTrigger(t))
    /\ \A r \in Resources : WF_vars(SyncResource(r)) /\ WF_vars(Collect(r))

FairSpec == Spec /\ Fairness

-----------------------------------------------------------------------------
(* Properties *)

\* The variables hold values of their types.
TypeOK ==
    /\ triggers \in [Triggers -> TriggerType]
    /\ resources \in [Resources -> ResourceType]
    /\ tCache \in [Triggers -> TriggerType]
    /\ rCache \in [Resources -> ResourceType]
    /\ secret \in Nat /\ exchange \in BOOLEAN
    /\ dirty \subseteq Triggers /\ backoff \subseteq Triggers
    /\ rec \in RecType
    /\ creates \in Nat /\ deletes \in Nat /\ faults \in Nat
    /\ taken \subseteq Resources

\* The controller will look at t again without a resync.
Pending(t) == \/ t \in dirty \union backoff
              \/ rec.key = t
              \/ tCache[t] # triggers[t]
Settled(t) == Live(t) /\ ~Pending(t)

There(r) == resources[r] # NoResource

\* A deployment carries the credentials the running reconciliation has read.
Carries(r) == resources[r].secret = rec.secret

\* applyQueue, applyDeployment and applyService succeed or make Reconcile fail: when the
\* controller is done with an MQTTTrigger, every resource is there that the collector has
\* not taken, whoever owns it.
NothingSkipped == \A t \in Triggers : Settled(t) => \A r \in Resources : There(r) \/ r \in taken

\* Reconcile leaves an MQTTTrigger alone only once it has written Ready: neither a failed
\* status update nor an Error left by an earlier attempt stays.
SettledReady == \A t \in Triggers : Settled(t) => triggers[t].phase = "Ready"

\* Ready is written only over what it says: every resource there that the collector has
\* not taken, and every deployment, also one that was there before or belongs to another
\* MQTTTrigger, with the credentials this reconciliation has read.
ReadyMeansApplied ==
    [][\A t \in Triggers : triggers[t].phase # "Ready" /\ triggers'[t].phase = "Ready" =>
         \A r \in Resources : \/ r \in taken
                              \/ There(r) /\ (r \in Deployments => Carries(r))]_vars

\* The credentials in a deployment are never replaced by older ones: not by an update of
\* a cached copy, not by a reconciliation that has read the secret before a rotation, not
\* by one that could not read it.
CredentialsNeverOlder ==
    [][\A r \in Deployments : There(r) /\ There(r)' =>
         resources'[r].secret >= resources[r].secret]_vars

\* A resource stays with the MQTTTrigger that created it, although all apply the same
\* ones and write back what a cache holds: the others rely on what is not theirs, and what
\* a deleted one made stays the collector's, whoever has updated it since.
OwnersStay ==
    [][\A r \in Resources : There(r) /\ There(r)' =>
         resources'[r].owner = resources[r].owner]_vars

\* Retries alone make every MQTTTrigger Ready with all resources there but those the
\* collector took, even if several apply the same ones, and also one created again.
EventuallyReady ==
    <>[](\A t \in Triggers : Live(t) =>
            /\ triggers[t].phase = "Ready"
            /\ \A r \in Resources : There(r) \/ r \in taken)

\* With the periodic resync, every ten hours for as long as the operator runs, resources
\* that an MQTTTrigger shares with a deleted one come back, the deployments get the
\* credentials of the current secret, and without any MQTTTrigger everything goes.
EventuallyServed ==
    WF_vars(Resync) =>
        <>[](IF \E t \in Triggers : Live(t)
             THEN \A r \in Resources :
                    There(r) /\ (r \in Deployments => resources[r].secret = secret)
             ELSE \A r \in Resources : ~There(r))

=============================================================================
