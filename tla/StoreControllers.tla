--------------------------- MODULE StoreControllers ---------------------------
(***************************************************************************)
(* The controllers of EventStore, HistoricalDataStore and Visualisation.   *)
(* For every resource of its kind each of them creates or updates a        *)
(* Knative service <name> and a trigger <name>-trigger. They run side by   *)
(* side, one worker each, on the same informer caches of services and      *)
(* triggers, and nothing keeps resources of two kinds from having one      *)
(* name. Around them: the API server, the work queues, the garbage         *)
(* collector, restarts and the users.                                      *)
(***************************************************************************)
EXTENDS Integers

CONSTANTS
    Stores,         \* the resources of the three kinds
    Kind, NameOf,   \* functions: the kind of a store and its name
    Specs,          \* what users write into them
    NONE,           \* the absent value
    MaxCreates, MaxEdits, MaxDeletes,  \* bounds on what users do
    MaxFaults       \* bound on failed API calls and operator restarts

Kinds == {"EventStore", "HistoricalDataStore", "Visualisation"}
Parts == {"service", "trigger"}
Names == {NameOf[s] : s \in Stores}
Children == Parts \X Names

\* A spec as far as the controllers tell specs apart: whether there is a timeout, whether
\* a Postgres secret is named, what goes into the service and into the trigger.
SpecType == [timeout: BOOLEAN, secret: BOOLEAN, conf: Nat, ann: Nat]

ASSUME StoresAssumption == /\ Kind \in [Stores -> Kinds] /\ DOMAIN NameOf = Stores
                           /\ \A s, u \in Stores :
                                Kind[s] = Kind[u] /\ NameOf[s] = NameOf[u] => s = u
ASSUME NoneIsNoStore == NONE \notin Stores
ASSUME SpecsAssumption == Specs \subseteq SpecType /\ Specs # {}
ASSUME LimitsAssumption == /\ MaxCreates \in Nat /\ MaxEdits \in Nat
                           /\ MaxDeletes \in Nat /\ MaxFaults \in Nat

VARIABLES
    stores,     \* API server: the stores
    children,   \* API server: services and triggers
    sCache,     \* informer cache of stores
    cCache,     \* informer cache of children
    secret,     \* whether the Postgres secret is there
    dirty,      \* work queues: stores waiting for their worker
    backoff,    \* work queues: stores waiting for their retry delay
    rec,        \* the running reconciliation of each kind: its local variables
    creates, edits, deletes, faults,  \* counters for the bounds
    taken       \* history: children the collector took and nobody has made again

apiVars == <<stores, children>>
cacheVars == <<sCache, cCache, secret>>
queueVars == <<dirty, backoff>>
userVars == <<creates, edits, deletes>>
vars == <<apiVars, cacheVars, queueVars, rec, userVars, faults, taken>>

-----------------------------------------------------------------------------
(* Objects *)

StoreType == [uid: Nat, spec: SpecType \union {NONE}]
NoStore == [uid |-> 0, spec |-> NONE]
Live(s) == stores[s] # NoStore

\* A child: the UID of its owner, its resource version, the kind whose layout (containers,
\* subscription, filter) it has, and what of a spec is in it.
ChildType == [owner: Nat, rv: Nat, kind: Kinds \union {NONE}, val: Nat]
NoChild == [owner |-> 0, rv |-> 0, kind |-> NONE, val |-> 0]
There(c) == children[c] # NoChild

\* A child's version is only ever compared with the one in the cache.
NewVersion(c) == CHOOSE v \in {1, 2, 3} : v \notin {children[c].rv, cCache[c].rv}

\* The local variables of a reconciliation: its next call, the store, the object as it was
\* read, the child it is about to create or update.
Idle == [pc |-> "idle", key |-> NONE, obj |-> NoStore, part |-> "service"]
RecType == {Idle} \union
    [pc: {"secret", "create", "update"}, key: Stores, obj: StoreType, part: Parts]

Key(k) == rec[k].key
At(k, p) == rec[k].pc = p
Goto(k, p) == rec' = [rec EXCEPT ![k].pc = p]
Done(k) == rec' = [rec EXCEPT ![k] = Idle]

ApiError == faults < MaxFaults /\ faults' = faults + 1
ApiAnswers == UNCHANGED faults

\* Reconcile returns an error or panics: its key is put back after a delay.
Fail_NotRequeued(k) == Done(k) /\ UNCHANGED queueVars
Fail_KeyAlreadyCleared(k) == /\ Done(k)
                             /\ backoff' = backoff \union {Idle.key}
                             /\ UNCHANGED dirty
Fail(k) == /\ Done(k)
           /\ backoff' = backoff \union {Key(k)}
           /\ UNCHANGED dirty

-----------------------------------------------------------------------------
(* Reconcile *)

\* Building the service dereferences the timeout; only the Visualisation has a default.
Buildable(k, spec) == spec.timeout \/ k = "Visualisation"

\* The child that a reconciliation of kind k works on, and how it wants it.
Child(k) == <<rec[k].part, NameOf[Key(k)]>>
Value(spec, part) == IF part = "service" THEN spec.conf ELSE spec.ann
Owner_Missing(k) == 0
Owner(k) == rec[k].obj.uid
Desired(k) == [owner |-> Owner(k), rv |-> NewVersion(Child(k)), kind |-> k,
               val |-> Value(rec[k].obj.spec, rec[k].part)]

\* An existing child takes over the desired content and keeps its owner. The trigger of a
\* Visualisation takes over the annotations only.
Merge_KeepsSpec(k, current) == current
Merge_DeletesFirst(k, current) == NoChild
Merge(k, current) ==
    LET merged == [current EXCEPT
            !.val = Desired(k).val,
            !.kind = IF rec[k].part = "trigger" /\ k = "Visualisation" THEN @ ELSE k]
    IN  IF merged = current THEN current ELSE [merged EXCEPT !.rv = NewVersion(Child(k))]

\* The service is done: on with the trigger. The trigger is done: Reconcile returns.
NextPart_ServiceOnly(k) == Done(k)
NextPart(k) == IF rec[k].part = "service"
               THEN rec' = [rec EXCEPT ![k].pc = "create", ![k].part = "trigger"]
               ELSE Done(k)

\* The worker of its kind takes s and reads it from the cache. A HistoricalDataStore that
\* names a secret is checked for it first.
StartReconcile(s) ==
    LET k == Kind[s]
        cr == sCache[s]
        first == IF k = "HistoricalDataStore" /\ cr.spec.secret THEN "secret" ELSE "create"
    IN  /\ At(k, "idle") /\ s \in dirty
        /\ dirty' = dirty \ {s}
        /\ \/ /\ ApiError
              /\ backoff' = backoff \union {s}
              /\ UNCHANGED rec
           \/ /\ ApiAnswers
              /\ rec' = IF cr = NoStore THEN rec
                        ELSE [rec EXCEPT ![k] =
                                 [pc |-> first, key |-> s, obj |-> cr, part |-> "service"]]
              /\ UNCHANGED backoff
        /\ UNCHANGED <<apiVars, cacheVars, userVars, taken>>

\* Get of the secret: without it, an error.
ReadSecret(k) ==
    /\ At(k, "secret")
    /\ \/ ApiAnswers /\ secret /\ Goto(k, "create") /\ UNCHANGED queueVars
       \/ ApiAnswers /\ ~secret /\ Fail(k)
       \/ ApiError /\ Fail(k)
    /\ UNCHANGED <<apiVars, cacheVars, userVars, taken>>

\* A Create or Update that fails ends the reconciliation with its error.
CallFailed_GoesOn(k) == NextPart(k) /\ UNCHANGED queueVars
CallFailed(k) == Fail(k)

\* The child is built, which may panic, and created; AlreadyExists leads to its update.
CreateChild(k) ==
    LET c == Child(k)
        built == rec[k].part = "trigger" \/ Buildable(k, rec[k].obj.spec)
    IN  /\ At(k, "create")
        /\ \/ /\ ApiAnswers /\ ~built
              /\ Fail(k)
              /\ UNCHANGED <<children, taken>>
           \/ /\ ApiAnswers /\ built /\ ~There(c)
              /\ children' = [children EXCEPT ![c] = Desired(k)]
              /\ taken' = taken \ {c}
              /\ NextPart(k)
              /\ UNCHANGED queueVars
           \/ /\ ApiAnswers /\ built /\ There(c)
              /\ Goto(k, "update")
              /\ UNCHANGED <<children, taken, queueVars>>
           \/ /\ ApiError /\ built
              /\ CallFailed(k)
              /\ UNCHANGED <<children, taken>>
        /\ UNCHANGED <<stores, cacheVars, userVars>>

\* Get from the cache, merge, Update: fails if the cache does not have the child or has
\* another version than the stored one. The Get is part of this action since nothing but
\* the Update depends on how far the cache lags when it is made.
UpdateChild(k) ==
    LET c == Child(k)
        current == cCache[c]
        accepted == current # NoChild /\ children[c].rv = current.rv
    IN  /\ At(k, "update")
        /\ \/ /\ ApiAnswers /\ accepted
              /\ children' = [children EXCEPT ![c] = Merge(k, current)]
              /\ NextPart(k)
              /\ UNCHANGED queueVars
           \/ /\ ApiError \/ (ApiAnswers /\ ~accepted)
              /\ CallFailed(k)
              /\ UNCHANGED children
        /\ UNCHANGED <<stores, cacheVars, userVars, taken>>

ReconcileStep(k) == ReadSecret(k) \/ CreateChild(k) \/ UpdateChild(k)

-----------------------------------------------------------------------------
(* Work queues, informers and restarts *)

BackoffExpires(s) ==
    /\ s \in backoff
    /\ backoff' = backoff \ {s}
    /\ dirty' = dirty \union {s}
    /\ UNCHANGED <<apiVars, cacheVars, rec, userVars, faults, taken>>

\* A controller watches the resources of its kind and nothing else.
SyncStore(s) ==
    /\ sCache[s] # stores[s]
    /\ sCache' = [sCache EXCEPT ![s] = stores[s]]
    /\ dirty' = dirty \union {s}
    /\ UNCHANGED <<apiVars, cCache, secret, backoff, rec, userVars, faults, taken>>

SyncChild(c) ==
    /\ cCache[c] # children[c]
    /\ cCache' = [cCache EXCEPT ![c] = children[c]]
    /\ UNCHANGED <<apiVars, sCache, secret, queueVars, rec, userVars, faults, taken>>

\* The informers' periodic resync queues every store they hold.
Resync ==
    /\ dirty' = dirty \union {s \in Stores : sCache[s] # NoStore}
    /\ UNCHANGED <<apiVars, cacheVars, backoff, rec, userVars, faults, taken>>

\* The operator restarts: queues and reconciliations are lost, the caches are fresh.
Restart ==
    /\ ApiError
    /\ rec' = [k \in Kinds |-> Idle]
    /\ backoff' = {}
    /\ sCache' = stores
    /\ cCache' = children
    /\ dirty' = {s \in Stores : Live(s)}
    /\ UNCHANGED <<apiVars, secret, userVars, taken>>

-----------------------------------------------------------------------------
(* The cluster and its users *)

\* The garbage collector deletes a child whose owner no longer exists.
Collect(c) ==
    /\ children[c].owner > 0
    /\ \A s \in Stores : stores[s].uid # children[c].owner
    /\ children' = [children EXCEPT ![c] = NoChild]
    /\ taken' = taken \union {c}
    /\ UNCHANGED <<stores, cacheVars, queueVars, rec, userVars, faults>>

SecretAppears ==
    /\ ~secret /\ secret' = TRUE
    /\ UNCHANGED <<apiVars, sCache, cCache, queueVars, rec, userVars, faults, taken>>

UserCreates(s, spec) ==
    /\ ~Live(s) /\ creates < MaxCreates
    /\ creates' = creates + 1
    /\ stores' = [stores EXCEPT ![s] = [uid |-> creates + 1, spec |-> spec]]
    /\ UNCHANGED <<children, cacheVars, queueVars, rec, edits, deletes, faults, taken>>

UserEdits(s, spec) ==
    /\ Live(s) /\ stores[s].spec # spec /\ edits < MaxEdits
    /\ edits' = edits + 1
    /\ stores' = [stores EXCEPT ![s].spec = spec]
    /\ UNCHANGED <<children, cacheVars, queueVars, rec, creates, deletes, faults, taken>>

UserDeletes(s) ==
    /\ Live(s) /\ deletes < MaxDeletes
    /\ deletes' = deletes + 1
    /\ stores' = [stores EXCEPT ![s] = NoStore]
    /\ UNCHANGED <<children, cacheVars, queueVars, rec, creates, edits, faults, taken>>

-----------------------------------------------------------------------------
(* The specification *)

Init ==
    /\ stores = [s \in Stores |-> NoStore]
    /\ children = [c \in Children |-> NoChild]
    /\ sCache = stores /\ cCache = children
    /\ secret = FALSE
    /\ dirty = {} /\ backoff = {}
    /\ rec = [k \in Kinds |-> Idle]
    /\ creates = 0 /\ edits = 0 /\ deletes = 0 /\ faults = 0
    /\ taken = {}

Next ==
    \/ \E s \in Stores : StartReconcile(s) \/ BackoffExpires(s) \/ SyncStore(s)
    \/ \E k \in Kinds : ReconcileStep(k)
    \/ \E c \in Children : SyncChild(c) \/ Collect(c)
    \/ Resync
    \/ Restart
    \/ SecretAppears
    \/ \E s \in Stores, spec \in Specs : UserCreates(s, spec) \/ UserEdits(s, spec)
    \/ \E s \in Stores : UserDeletes(s)

Spec == Init /\ [][Next]_vars

\* Every worker goes on and takes a key that keeps being queued in its turn, delays
\* expire, watches deliver, the collector collects, and the secret is installed.
Fairness ==
    /\ \A k \in Kinds : WF_vars(ReconcileStep(k))
    /\ \A s \in Stores : /\ SF_vars(StartReconcile(s))
                         /\ WF_vars(BackoffExpires(s))
                         /\ WF_vars(SyncStore(s))
    /\ \A c \in Children : WF_vars(SyncChild(c)) /\ WF_vars(Collect(c))
    /\ WF_vars(SecretAppears)

FairSpec == Spec /\ Fairness

\* Resync happens every ten hours, for as long as the operator runs.
ResyncSpec == FairSpec /\ WF_vars(Resync)

-----------------------------------------------------------------------------
(* Properties *)

\* The variables hold values of their types.
TypeOK ==
    /\ stores \in [Stores -> StoreType] /\ sCache \in [Stores -> StoreType]
    /\ children \in [Children -> ChildType] /\ cCache \in [Children -> ChildType]
    /\ secret \in BOOLEAN
    /\ dirty \subseteq Stores /\ backoff \subseteq Stores
    /\ rec \in [Kinds -> RecType]
    /\ creates \in Nat /\ edits \in Nat /\ deletes \in Nat /\ faults \in Nat
    /\ taken \subseteq Children

\* The controllers will look at s again without a resync.
Pending(s) == \/ s \in dirty \union backoff
              \/ Key(Kind[s]) = s
              \/ sCache[s] # stores[s]
Settled(s) == Live(s) /\ ~Pending(s)

\* No store of another kind has the name of s.
Alone(s) == \A u \in Stores : NameOf[u] = NameOf[s] => u = s

\* The child of s has the layout of its kind and what the spec of s says.
Follows(s, part) ==
    LET child == children[<<part, NameOf[s]>>]
    IN  child.kind = Kind[s] /\ child.val = Value(stores[s].spec, part)

\* When a controller is done with a store, service and trigger follow the store's latest
\* spec, unless the collector took them as children of an earlier store; stores of another
\* kind with the same name are excepted.
ServedWhenSettled ==
    \A s \in Stores, part \in Parts : Settled(s) /\ Alone(s) =>
        Follows(s, part) \/ <<part, NameOf[s]>> \in taken

\* Two workers that write the service of one name one after the other, each on a cached
\* copy, leave the latest spec of one of them in it and never an old one.
ServiceOfOne ==
    \A n \in Names :
        LET sharing == {s \in Stores : NameOf[s] = n}
        IN  (\A s \in sharing : Settled(s)) =>
                \/ \E s \in sharing : Follows(s, "service")
                \/ <<"service", n>> \in taken

\* Retries alone, without a resync, make every store that can be built its service and
\* trigger as its latest spec describes them, except what the collector took as a child of
\* an earlier store; and no child outlives the stores of its name.
EventuallyServed ==
    <>[](\A s \in Stores, part \in Parts :
            IF Live(s)
            THEN Buildable(Kind[s], stores[s].spec) =>
                     Follows(s, part) \/ <<part, NameOf[s]>> \in taken
            ELSE ~(Alone(s) /\ There(<<part, NameOf[s]>>)))

\* The periodic resync makes again what the collector took.
EventuallyRepaired ==
    WF_vars(Resync) =>
        <>[](\A s \in Stores, part \in Parts :
                Live(s) /\ Buildable(Kind[s], stores[s].spec) => Follows(s, part))

\* The timeout is an optional field: with or without it, a store gets its service and
\* trigger in the end.
EveryStoreServed == <>[](\A s \in Stores, part \in Parts : Live(s) => Follows(s, part))

=============================================================================
