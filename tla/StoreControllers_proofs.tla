------------------------ MODULE StoreControllers_proofs ------------------------
(***************************************************************************)
(* Proofs about StoreControllers, for every set of stores, every way of    *)
(* naming them, every set of specs and every value of the bounds.          *)
(***************************************************************************)
EXTENDS StoreControllers, TLAPS

-----------------------------------------------------------------------------
(* The inductive invariant *)

\* A store that is there, or is held, has a spec.
SpecInv ==
    /\ \A s \in Stores : /\ stores[s] = NoStore \/ stores[s].spec \in SpecType
                         /\ sCache[s] = NoStore \/ sCache[s].spec \in SpecType
    /\ \A k \in Kinds : rec[k].pc # "idle" => rec[k].obj.spec \in SpecType

\* Every worker works on a store of its kind, and on what the cache holds of it, or the
\* store is queued again.
SnapshotInv ==
    \A k \in Kinds : rec[k].pc # "idle" =>
        /\ Kind[Key(k)] = k
        /\ Key(k) \in dirty \/ rec[k].obj = sCache[Key(k)]

\* A child has the layout of the kind of a store of its name, in the API server and in the
\* cache.
Origin(c, child) == child = NoChild \/ \E u \in Stores : NameOf[u] = c[2] /\ Kind[u] = child.kind
OriginInv == \A c \in Children : Origin(c, children[c]) /\ Origin(c, cCache[c])

\* The controller is done with s as far as the cache goes.
Handled(s) == sCache[s] # NoStore /\ s \notin dirty \union backoff /\ Key(Kind[s]) # s

\* Done with the part: with the whole store, or with the service and on to the trigger;
\* and the spec that was applied.
Passed(s, part) == \/ Handled(s)
                   \/ part = "service" /\ Key(Kind[s]) = s /\ rec[Kind[s]].part = "trigger"
PassedSpec(s) == IF Key(Kind[s]) = s THEN rec[Kind[s]].obj.spec ELSE sCache[s].spec

\* A part that is done with is there or was taken, and if it still has the layout of the
\* store's kind it holds what the spec says. The trigger of a Visualisation may have the
\* layout of another kind.
PartInv(s, part) ==
    LET c == <<part, NameOf[s]>> IN
    Passed(s, part) =>
        /\ There(c) \/ c \in taken
        /\ (part = "service" \/ Alone(s)) /\ There(c) /\ children[c].kind = Kind[s] =>
               children[c].val = Value(PassedSpec(s), part)

IInv ==
    /\ TypeOK /\ SpecInv /\ SnapshotInv /\ OriginInv
    /\ \A s \in Stores, part \in Parts : PartInv(s, part)

-----------------------------------------------------------------------------
(* What the operators give *)

\* A version is free that neither the stored child nor the cached one has.
LEMMA NewVersionFree ==
    ASSUME NEW c
    PROVE  NewVersion(c) \in {1, 2, 3}
<1>1. \E v \in {1, 2, 3} : v \notin {children[c].rv, cCache[c].rv}
  OBVIOUS
<1>2. QED
  BY <1>1 DEF NewVersion

\* The absent objects are values of their types.
LEMMA AbsentTypes == NoStore \in StoreType /\ NoChild \in ChildType /\ NoChild.rv = 0
BY DEF NoStore, StoreType, NoChild, ChildType

\* The two children of a store.
LEMMA ChildOf ==
    ASSUME NEW s \in Stores, NEW part \in Parts
    PROVE  <<part, NameOf[s]>> \in Children
BY DEF Children, Names

\* The type of a reconciliation that is not idle.
RunningType == [pc: {"secret", "create", "update"}, key: Stores, obj: StoreType, part: Parts]

\* A worker about to take a step has the fields of a running reconciliation.
LEMMA RunningRec ==
    ASSUME TypeOK, NEW k \in Kinds, rec[k].pc # "idle"
    PROVE  /\ rec[k] \in RunningType /\ rec[k].pc \in {"secret", "create", "update"}
           /\ Key(k) \in Stores /\ rec[k].obj \in StoreType /\ rec[k].part \in Parts
           /\ Child(k) \in Children /\ Child(k) = <<rec[k].part, NameOf[Key(k)]>>
<1>1. rec[k] \in RunningType
  BY DEF TypeOK, RecType, RunningType, Idle
<1>2. Key(k) \in Stores /\ rec[k].part \in Parts
  BY <1>1 DEF Key, RunningType
<1>3. QED
  BY <1>1, <1>2, ChildOf DEF Child, Key, RunningType

\* An idle worker has no store.
LEMMA IdleRec ==
    ASSUME TypeOK, NEW k \in Kinds, rec[k].pc = "idle"
    PROVE  rec[k] = Idle /\ Key(k) \notin Stores
<1>1. rec[k] = Idle
  BY DEF TypeOK, RecType
<1>2. QED
  BY <1>1, NoneIsNoStore DEF Key, Idle

\* What a running reconciliation wants in its child.
LEMMA DesiredType ==
    ASSUME TypeOK, SpecInv, NEW k \in Kinds, rec[k].pc # "idle"
    PROVE  /\ Desired(k) \in ChildType /\ Desired(k) # NoChild
           /\ Desired(k).val = Value(rec[k].obj.spec, rec[k].part) /\ Desired(k).kind = k
           /\ Value(rec[k].obj.spec, rec[k].part) \in Nat
<1> DEFINE o == Owner(k)
           v == NewVersion(Child(k))
           x == Value(rec[k].obj.spec, rec[k].part)
<1>1. o \in Nat
  BY RunningRec DEF Owner, StoreType
<1>2. v \in Nat /\ v # 0
  BY NewVersionFree
<1>3. x \in Nat
  BY DEF SpecInv, SpecType, Value
<1>4. Desired(k) = [owner |-> o, rv |-> v, kind |-> k, val |-> x]
  BY DEF Desired
<1> HIDE DEF o, v, x
<1>5. Desired(k) \in ChildType /\ Desired(k).rv = v /\ Desired(k).val = x /\ Desired(k).kind = k
  BY <1>1, <1>2, <1>3, <1>4 DEF ChildType
<1>6. QED
  BY <1>2, <1>3, <1>5, AbsentTypes DEF x

\* What Merge makes of the cached child.
LEMMA MergeType ==
    ASSUME TypeOK, SpecInv, NEW k \in Kinds, rec[k].pc # "idle",
           NEW current \in ChildType, current # NoChild
    PROVE  /\ Merge(k, current) \in ChildType /\ Merge(k, current) # NoChild
           /\ Merge(k, current).val = Value(rec[k].obj.spec, rec[k].part)
           /\ \/ Merge(k, current).kind = k
              \/ rec[k].part = "trigger" /\ Merge(k, current).kind = current.kind
<1> DEFINE x == Value(rec[k].obj.spec, rec[k].part)
           kind == IF rec[k].part = "trigger" /\ k = "Visualisation" THEN current.kind ELSE k
           merged == [current EXCEPT !.val = x, !.kind = kind]
           v == NewVersion(Child(k))
<1>1. x \in Nat /\ v \in Nat /\ v # 0
  BY DesiredType, NewVersionFree
<1>2. kind \in Kinds \union {NONE} /\ (kind = k \/ (rec[k].part = "trigger" /\ kind = current.kind))
  <2>1. current.kind \in Kinds \union {NONE}
    BY DEF ChildType
  <2>2. QED
    BY <2>1
<1>3. Merge(k, current) = IF merged = current THEN current ELSE [merged EXCEPT !.rv = v]
  BY DesiredType DEF Merge
<1> HIDE DEF x, v, kind
<1>4. merged \in ChildType /\ merged.val = x /\ merged.kind = kind
  BY <1>1, <1>2 DEF ChildType
<1> HIDE DEF merged
<1>5. CASE merged = current
  BY <1>2, <1>3, <1>4, <1>5 DEF x
<1>6. CASE merged # current
  <2> DEFINE m == [merged EXCEPT !.rv = v]
  <2>1. m \in ChildType /\ m.val = x /\ m.kind = kind /\ m.rv # 0
    BY <1>1, <1>4 DEF ChildType
  <2> HIDE DEF m
  <2>2. m # NoChild
    BY <2>1, AbsentTypes
  <2>3. Merge(k, current) = m
    BY <1>3, <1>6 DEF m
  <2>4. QED
    BY <1>2, <2>1, <2>2, <2>3 DEF x
<1>7. QED
  BY <1>5, <1>6

-----------------------------------------------------------------------------
(* The steps of a worker *)

\* A call that writes child Child(k): what is in it afterwards, and where Reconcile goes.
Writes(k, x) ==
    /\ children' = [children EXCEPT ![Child(k)] = x]
    /\ x \in ChildType /\ x # NoChild
    /\ x.val = Value(rec[k].obj.spec, rec[k].part)
    /\ \/ x.kind = k
       \/ /\ rec[k].part = "trigger"
          /\ cCache[Child(k)] # NoChild /\ x.kind = cCache[Child(k)].kind
    /\ taken' \subseteq taken /\ taken \subseteq taken' \union {Child(k)}
    /\ NextPart(k)
    /\ UNCHANGED queueVars

\* The three ways a step of Reconcile ends: with an error, on the way, with a child
\* written.
LEMMA StepForms ==
    ASSUME TypeOK, SpecInv, NEW k \in Kinds, ReconcileStep(k)
    PROVE  /\ rec[k].pc # "idle"
           /\ UNCHANGED <<stores, cacheVars, userVars>> /\ UNCHANGED dirty
           /\ \/ Fail(k) /\ UNCHANGED <<children, taken>>
              \/ /\ Goto(k, "create") \/ Goto(k, "update")
                 /\ UNCHANGED <<children, taken, queueVars>>
              \/ \E x : Writes(k, x)
<1>1. rec[k].pc # "idle"
  BY DEF ReconcileStep, ReadSecret, CreateChild, UpdateChild, At
<1>2. UNCHANGED <<stores, cacheVars, userVars>>
  BY DEF ReconcileStep, ReadSecret, CreateChild, UpdateChild, apiVars
<1>3. CASE ReadSecret(k)
  BY <1>1, <1>2, <1>3 DEF ReadSecret, Fail, apiVars, queueVars
<1>4. CASE CreateChild(k)
  <2>1. \/ Fail(k) /\ UNCHANGED <<children, taken>>
        \/ Goto(k, "update") /\ UNCHANGED <<children, taken, queueVars>>
        \/ /\ children' = [children EXCEPT ![Child(k)] = Desired(k)]
           /\ taken' = taken \ {Child(k)} /\ NextPart(k) /\ UNCHANGED queueVars
    BY <1>4 DEF CreateChild, CallFailed
  <2>2. ASSUME children' = [children EXCEPT ![Child(k)] = Desired(k)],
               taken' = taken \ {Child(k)}, NextPart(k), UNCHANGED queueVars
        PROVE  Writes(k, Desired(k))
    BY <1>1, <2>2, DesiredType DEF Writes
  <2>3. UNCHANGED dirty
    BY <2>1 DEF Fail, queueVars
  <2>4. QED
    BY <1>1, <1>2, <2>1, <2>2, <2>3
<1>5. CASE UpdateChild(k)
  <2> DEFINE current == cCache[Child(k)]
  <2>1. \/ Fail(k) /\ UNCHANGED <<children, taken>>
        \/ /\ current # NoChild
           /\ children' = [children EXCEPT ![Child(k)] = Merge(k, current)]
           /\ NextPart(k) /\ UNCHANGED <<taken, queueVars>>
    BY <1>5 DEF UpdateChild, CallFailed
  <2>2. ASSUME current # NoChild,
               children' = [children EXCEPT ![Child(k)] = Merge(k, current)],
               NextPart(k), UNCHANGED <<taken, queueVars>>
        PROVE  Writes(k, Merge(k, current))
    <3>1. current \in ChildType
      BY <1>1, RunningRec DEF TypeOK
    <3>2. QED
      BY <1>1, <2>2, <3>1, MergeType DEF Writes
  <2>3. UNCHANGED dirty
    BY <2>1 DEF Fail, queueVars
  <2>4. QED
    BY <1>1, <1>2, <2>1, <2>2, <2>3
<1>6. QED
  BY <1>3, <1>4, <1>5 DEF ReconcileStep

\* A worker never makes a child go away, not for its update either.
LEMMA StepRemovesNothing ==
    ASSUME TypeOK, SpecInv, NEW k \in Kinds, ReconcileStep(k), NEW c, There(c)
    PROVE  There(c)'
<1>1. CASE UNCHANGED children
  BY <1>1 DEF There
<1>2. ASSUME NEW x, Writes(k, x) PROVE There(c)'
  BY <1>2 DEF Writes, There, TypeOK
<1>3. QED
  BY <1>1, <1>2, StepForms

\* Where a step leaves the workers: the others as they were, its own idle or still on
\* the same store.
LEMMA StepRec ==
    ASSUME TypeOK, SpecInv, NEW k \in Kinds, ReconcileStep(k)
    PROVE  /\ rec' \in [Kinds -> RecType]
           /\ \A j \in Kinds \ {k} : rec'[j] = rec[j]
           /\ \/ rec'[k] = Idle
              \/ rec'[k].key = rec[k].key /\ rec'[k].obj = rec[k].obj /\ rec'[k].pc # "idle"
<1>1. rec[k] \in RunningType /\ rec \in [Kinds -> RecType]
  BY StepForms, RunningRec DEF TypeOK
<1>2. CASE rec' = [rec EXCEPT ![k] = Idle]
  BY <1>1, <1>2 DEF RecType
<1>3. ASSUME NEW r \in RunningType, rec' = [rec EXCEPT ![k] = r],
             r.key = rec[k].key, r.obj = rec[k].obj
      PROVE  /\ rec' \in [Kinds -> RecType]
             /\ \A j \in Kinds \ {k} : rec'[j] = rec[j]
             /\ rec'[k].key = rec[k].key /\ rec'[k].obj = rec[k].obj /\ rec'[k].pc # "idle"
  <2>1. r \in RecType /\ r.pc # "idle"
    BY DEF RecType, RunningType
  <2>2. QED
    BY <1>1, <1>3, <2>1
<1>4. ASSUME NEW p \in {"create", "update"}, Goto(k, p)
      PROVE  \E r \in RunningType : /\ rec' = [rec EXCEPT ![k] = r]
                                    /\ r.key = rec[k].key /\ r.obj = rec[k].obj
  <2> DEFINE r == [rec[k] EXCEPT !.pc = p]
  <2>1. r \in RunningType /\ r.key = rec[k].key /\ r.obj = rec[k].obj
    BY <1>1 DEF RunningType
  <2>2. rec' = [rec EXCEPT ![k] = r]
    BY <1>1, <1>4 DEF Goto
  <2>3. QED
    BY <2>1, <2>2
<1>5. ASSUME NextPart(k), rec[k].part = "service"
      PROVE  \E r \in RunningType : /\ rec' = [rec EXCEPT ![k] = r]
                                    /\ r.key = rec[k].key /\ r.obj = rec[k].obj
  <2> DEFINE r == [rec[k] EXCEPT !.pc = "create", !.part = "trigger"]
  <2>1. r \in RunningType /\ r.key = rec[k].key /\ r.obj = rec[k].obj
    BY <1>1 DEF RunningType, Parts
  <2>2. rec' = [rec EXCEPT ![k] = r]
    BY <1>1, <1>5 DEF NextPart
  <2>3. QED
    BY <2>1, <2>2
<1>6. QED
  BY <1>2, <1>3, <1>4, <1>5, StepForms DEF Fail, Done, Writes, NextPart
-----------------------------------------------------------------------------
(* Types, specs, snapshots and origins *)

\* Every step preserves the types.
LEMMA TypeStep == TypeOK /\ SpecInv /\ [Next]_vars => TypeOK'
<1> SUFFICES ASSUME TypeOK, SpecInv, [Next]_vars PROVE TypeOK'
  OBVIOUS
<1> USE DEF apiVars, cacheVars, queueVars, userVars, ApiError, ApiAnswers
<1>1. faults' \in Nat
  <2>1. faults \in Nat
    BY DEF TypeOK
  <2>2. faults' = faults \/ faults' = faults + 1
    <3>1. CASE UNCHANGED faults \/ ApiError
      BY <3>1
    <3>2. ASSUME NEW s \in Stores,
                 \/ StartReconcile(s) \/ BackoffExpires(s) \/ SyncStore(s) \/ UserDeletes(s)
                 \/ \E spec \in Specs : UserCreates(s, spec) \/ UserEdits(s, spec)
          PROVE  UNCHANGED faults \/ ApiError
      BY <3>2 DEF StartReconcile, BackoffExpires, SyncStore, UserDeletes, UserCreates, UserEdits
    <3>3. ASSUME NEW k \in Kinds, ReconcileStep(k) PROVE UNCHANGED faults \/ ApiError
      BY <3>3 DEF ReconcileStep, ReadSecret, CreateChild, UpdateChild
    <3>4. ASSUME NEW c \in Children, SyncChild(c) \/ Collect(c) PROVE UNCHANGED faults
      BY <3>4 DEF SyncChild, Collect
    <3>5. ASSUME Resync \/ Restart \/ SecretAppears \/ UNCHANGED vars
          PROVE  UNCHANGED faults \/ ApiError
      BY <3>5 DEF Resync, Restart, SecretAppears, vars
    <3>6. QED
      BY <3>1, <3>2, <3>3, <3>4, <3>5 DEF Next
  <2>3. QED
    BY <2>1, <2>2
<1>2. ASSUME NEW s \in Stores, StartReconcile(s) PROVE TypeOK'
  <2> DEFINE k == Kind[s]
             first == IF k = "HistoricalDataStore" /\ sCache[s].spec.secret THEN "secret"
                      ELSE "create"
             r == [pc |-> first, key |-> s, obj |-> sCache[s], part |-> "service"]
  <2>1. k \in Kinds /\ first \in {"secret", "create", "update"} /\ sCache[s] \in StoreType
    BY StoresAssumption DEF TypeOK
  <2>2. rec' = rec \/ rec' = [rec EXCEPT ![k] = r]
    BY <1>2 DEF StartReconcile
  <2> HIDE DEF k, first
  <2>3. r \in RecType
    BY <2>1 DEF RecType, Parts
  <2> HIDE DEF r
  <2>4. rec' \in [Kinds -> RecType]
    BY <2>1, <2>2, <2>3 DEF TypeOK
  <2>5. QED
    BY <1>1, <1>2, <2>4 DEF StartReconcile, TypeOK
<1>3. ASSUME NEW k \in Kinds, ReconcileStep(k) PROVE TypeOK'
  <2>1. rec' \in [Kinds -> RecType]
    BY <1>3, StepRec
  <2>2. children' \in [Children -> ChildType] /\ taken' \subseteq Children
        /\ backoff' \subseteq Stores /\ dirty' \subseteq Stores
    <3>1. Child(k) \in Children /\ Key(k) \in Stores
      BY <1>3, StepForms, RunningRec
    <3>2. CASE Fail(k) /\ UNCHANGED <<children, taken>>
      BY <3>1, <3>2 DEF Fail, TypeOK
    <3>3. CASE UNCHANGED <<children, taken, queueVars>>
      BY <3>3 DEF TypeOK
    <3>4. ASSUME NEW x, Writes(k, x)
          PROVE  children' \in [Children -> ChildType] /\ taken' \subseteq Children
                 /\ backoff' \subseteq Stores /\ dirty' \subseteq Stores
      BY <3>1, <3>4 DEF Writes, TypeOK
    <3>5. QED
      BY <1>3, <3>2, <3>3, <3>4, StepForms
  <2>3. UNCHANGED <<stores, sCache, cCache, secret, creates, edits, deletes>>
    BY <1>3, StepForms
  <2>4. QED
    BY <1>1, <2>1, <2>2, <2>3 DEF TypeOK
<1>4. ASSUME NEW s \in Stores, BackoffExpires(s) \/ SyncStore(s) PROVE TypeOK'
  BY <1>1, <1>4 DEF BackoffExpires, SyncStore, TypeOK
<1>5. ASSUME NEW c \in Children, SyncChild(c) \/ Collect(c) PROVE TypeOK'
  BY <1>1, <1>5, AbsentTypes DEF SyncChild, Collect, TypeOK
<1>6. CASE Resync
  BY <1>1, <1>6 DEF Resync, TypeOK
<1>7. CASE Restart
  <2>1. rec' \in [Kinds -> RecType] /\ dirty' \subseteq Stores
    BY <1>7 DEF Restart, RecType
  <2>2. QED
    BY <1>1, <1>7, <2>1 DEF Restart, TypeOK
<1>8. CASE SecretAppears
  <2>1. secret' \in BOOLEAN
    BY <1>8 DEF SecretAppears
  <2>2. QED
    BY <1>1, <1>8, <2>1 DEF SecretAppears, TypeOK
<1>9. ASSUME NEW s \in Stores, NEW spec \in Specs, UserCreates(s, spec) PROVE TypeOK'
  <2>1. creates + 1 \in Nat
    BY DEF TypeOK
  <2>2. [uid |-> creates + 1, spec |-> spec] \in StoreType
    BY <2>1, SpecsAssumption DEF StoreType
  <2>3. stores' \in [Stores -> StoreType] /\ creates' \in Nat
    BY <1>9, <2>1, <2>2 DEF UserCreates, TypeOK
  <2>4. QED
    BY <1>1, <1>9, <2>3 DEF UserCreates, TypeOK
<1>10. ASSUME NEW s \in Stores, NEW spec \in Specs, UserEdits(s, spec) PROVE TypeOK'
  <2>1. edits + 1 \in Nat /\ stores[s] \in StoreType
    BY DEF TypeOK
  <2>2. [stores[s] EXCEPT !.spec = spec] \in StoreType
    BY <2>1, SpecsAssumption DEF StoreType
  <2>3. stores' \in [Stores -> StoreType] /\ edits' \in Nat
    BY <1>10, <2>1, <2>2 DEF UserEdits, TypeOK
  <2>4. QED
    BY <1>1, <1>10, <2>3 DEF UserEdits, TypeOK
<1>11. ASSUME NEW s \in Stores, UserDeletes(s) PROVE TypeOK'
  <2>1. deletes + 1 \in Nat
    BY DEF TypeOK
  <2>2. stores' \in [Stores -> StoreType] /\ deletes' \in Nat
    BY <1>11, <2>1, AbsentTypes DEF UserDeletes, TypeOK
  <2>3. QED
    BY <1>1, <1>11, <2>2 DEF UserDeletes, TypeOK
<1>12. CASE UNCHANGED vars
  BY <1>12 DEF vars, TypeOK
<1>13. QED
  BY <1>2, <1>3, <1>4, <1>5, <1>6, <1>7, <1>8, <1>9, <1>10, <1>11, <1>12 DEF Next

\* Which workers a step can leave with another reconciliation: the worker that takes a
\* key, the one that takes a step, and all of them in a restart.
LEMMA WorkersKeep ==
    ASSUME [Next]_vars,
           ~\E s \in Stores : StartReconcile(s), ~\E k \in Kinds : ReconcileStep(k), ~Restart
    PROVE  UNCHANGED rec /\ dirty \union backoff \subseteq dirty' \union backoff'
           /\ dirty \subseteq dirty'
<1> USE DEF queueVars
<1>1. ASSUME NEW s \in Stores,
             \/ BackoffExpires(s) \/ SyncStore(s) \/ UserDeletes(s)
             \/ \E spec \in Specs : UserCreates(s, spec) \/ UserEdits(s, spec)
      PROVE  UNCHANGED rec /\ dirty \union backoff \subseteq dirty' \union backoff'
             /\ dirty \subseteq dirty'
  BY <1>1 DEF BackoffExpires, SyncStore, UserDeletes, UserCreates, UserEdits
<1>2. ASSUME NEW c \in Children, SyncChild(c) \/ Collect(c)
      PROVE  UNCHANGED <<rec, dirty, backoff>>
  BY <1>2 DEF SyncChild, Collect
<1>3. ASSUME Resync \/ SecretAppears \/ UNCHANGED vars
      PROVE  UNCHANGED rec /\ dirty \union backoff \subseteq dirty' \union backoff'
             /\ dirty \subseteq dirty'
  BY <1>3 DEF Resync, SecretAppears, vars
<1>4. QED
  BY <1>1, <1>2, <1>3 DEF Next

\* How a worker starts: with the cached store, which is one of its kind.
LEMMA StartForm ==
    ASSUME TypeOK, NEW s \in Stores, StartReconcile(s)
    PROVE  /\ Kind[s] \in Kinds /\ rec[Kind[s]].pc = "idle"
           /\ UNCHANGED <<stores, sCache, cCache, children, taken>>
           /\ dirty' = dirty \ {s} /\ backoff \subseteq backoff'
           /\ \/ UNCHANGED rec /\ (s \in backoff' \/ sCache[s] = NoStore)
              \/ /\ sCache[s] # NoStore
                 /\ \A j \in Kinds \ {Kind[s]} : rec'[j] = rec[j]
                 /\ rec'[Kind[s]].key = s /\ rec'[Kind[s]].obj = sCache[s]
                 /\ rec'[Kind[s]].part = "service" /\ rec'[Kind[s]].pc # "idle"
<1> USE DEF apiVars, cacheVars
<1> DEFINE k == Kind[s]
           first == IF k = "HistoricalDataStore" /\ sCache[s].spec.secret THEN "secret"
                    ELSE "create"
           r == [pc |-> first, key |-> s, obj |-> sCache[s], part |-> "service"]
<1>1. k \in Kinds /\ first # "idle" /\ rec[k].pc = "idle"
  BY StoresAssumption DEF StartReconcile, At
<1>2. /\ UNCHANGED <<stores, sCache, cCache, children, taken>>
      /\ dirty' = dirty \ {s} /\ backoff \subseteq backoff'
  BY DEF StartReconcile
<1>3. \/ UNCHANGED rec /\ (s \in backoff' \/ sCache[s] = NoStore)
      \/ sCache[s] # NoStore /\ rec' = [rec EXCEPT ![k] = r]
  BY DEF StartReconcile
<1> HIDE DEF k, first
<1>4. r.key = s /\ r.obj = sCache[s] /\ r.part = "service" /\ r.pc # "idle"
  BY <1>1
<1> HIDE DEF r
<1>5. CASE rec' = [rec EXCEPT ![k] = r]
  <2>1. rec'[k] = r /\ \A j \in Kinds \ {k} : rec'[j] = rec[j]
    BY <1>1, <1>5 DEF TypeOK
  <2>2. QED
    BY <1>1, <1>2, <1>3, <1>4, <1>5, <2>1 DEF k
<1>6. QED
  BY <1>1, <1>2, <1>3, <1>5 DEF k

\* The cached copy of a store changes only to the stored one; but for a restart, the store
\* is queued when it does.
LEMMA CacheKeeps ==
    ASSUME TypeOK, SpecInv, [Next]_vars, NEW s \in Stores
    PROVE  /\ sCache'[s] \in {sCache[s], stores[s]}
           /\ sCache'[s] = sCache[s] \/ s \in dirty' \/ Restart
<1> USE DEF apiVars, cacheVars
<1>1. ASSUME NEW u \in Stores, SyncStore(u)
      PROVE  /\ sCache'[s] \in {sCache[s], stores[s]}
             /\ sCache'[s] = sCache[s] \/ s \in dirty'
  BY <1>1 DEF SyncStore, TypeOK
<1>2. Restart => sCache'[s] = stores[s]
  BY DEF Restart
<1>3. ASSUME NEW u \in Stores,
             \/ StartReconcile(u) \/ BackoffExpires(u) \/ UserDeletes(u)
             \/ \E spec \in Specs : UserCreates(u, spec) \/ UserEdits(u, spec)
      PROVE  UNCHANGED sCache
  BY <1>3 DEF StartReconcile, BackoffExpires, UserDeletes, UserCreates, UserEdits
<1>4. ASSUME NEW c \in Children, SyncChild(c) \/ Collect(c) PROVE UNCHANGED sCache
  BY <1>4 DEF SyncChild, Collect
<1>5. ASSUME Resync \/ SecretAppears \/ UNCHANGED vars PROVE UNCHANGED sCache
  BY <1>5 DEF Resync, SecretAppears, vars
<1>6. QED
  BY <1>1, <1>2, <1>3, <1>4, <1>5, StepForms DEF Next

\* Every store that is there, cached or worked on keeps a spec.
LEMMA SpecStep == TypeOK /\ SpecInv /\ [Next]_vars => SpecInv'
<1> SUFFICES ASSUME TypeOK, SpecInv, [Next]_vars PROVE SpecInv'
  OBVIOUS
<1> USE DEF apiVars, cacheVars, queueVars
<1> DEFINE Held == \A k \in Kinds : rec'[k].pc # "idle" => rec'[k].obj.spec \in SpecType
<1>1. Held
  <2>1. ASSUME NEW s \in Stores, StartReconcile(s) PROVE Held
    <3>1. \/ UNCHANGED rec
          \/ /\ \A j \in Kinds \ {Kind[s]} : rec'[j] = rec[j]
             /\ rec'[Kind[s]].obj = sCache[s] /\ sCache[s] # NoStore
      BY <2>1, StartForm
    <3>2. QED
      BY <3>1 DEF SpecInv
  <2>2. ASSUME NEW k \in Kinds, ReconcileStep(k) PROVE Held
    BY <2>2, StepForms, StepRec DEF SpecInv, Idle
  <2>3. CASE Restart
    BY <2>3 DEF Restart, Idle
  <2>4. CASE UNCHANGED rec
    BY <2>4 DEF SpecInv
  <2>5. QED
    BY <2>1, <2>2, <2>3, <2>4, WorkersKeep
<1>2. \A s \in Stores : stores'[s] = NoStore \/ stores'[s].spec \in SpecType
  <2>1. ASSUME NEW s \in Stores, NEW spec \in Specs, UserCreates(s, spec) \/ UserEdits(s, spec)
        PROVE  \A u \in Stores : stores'[u] = NoStore \/ stores'[u].spec \in SpecType
    <3>1. stores'[s].spec = spec /\ spec \in SpecType
      BY <2>1, SpecsAssumption DEF UserCreates, UserEdits, TypeOK, StoreType
    <3>2. \A u \in Stores \ {s} : stores'[u] = stores[u]
      BY <2>1 DEF UserCreates, UserEdits, TypeOK
    <3>3. QED
      BY <3>1, <3>2 DEF SpecInv
  <2>2. ASSUME NEW s \in Stores, UserDeletes(s)
        PROVE  \A u \in Stores : stores'[u] = NoStore \/ stores'[u].spec \in SpecType
    BY <2>2 DEF UserDeletes, TypeOK, SpecInv
  <2>3. CASE UNCHANGED stores
    BY <2>3 DEF SpecInv
  <2>4. ASSUME NEW s \in Stores, StartReconcile(s) \/ BackoffExpires(s) \/ SyncStore(s)
        PROVE  UNCHANGED stores
    BY <2>4 DEF StartReconcile, BackoffExpires, SyncStore
  <2>5. ASSUME NEW c \in Children, SyncChild(c) \/ Collect(c) PROVE UNCHANGED stores
    BY <2>5 DEF SyncChild, Collect
  <2>6. ASSUME Resync \/ Restart \/ SecretAppears \/ UNCHANGED vars PROVE UNCHANGED stores
    BY <2>6 DEF Resync, Restart, SecretAppears, vars
  <2>7. QED
    BY <2>1, <2>2, <2>3, <2>4, <2>5, <2>6, StepForms DEF Next
<1>3. \A s \in Stores : sCache'[s] \in {sCache[s], stores[s]}
  BY CacheKeeps
<1>4. QED
  BY <1>1, <1>2, <1>3 DEF SpecInv
\* Every worker stays on course.
LEMMA SnapshotStep == TypeOK /\ SpecInv /\ SnapshotInv /\ [Next]_vars => SnapshotInv'
<1> SUFFICES ASSUME TypeOK, SpecInv, SnapshotInv, [Next]_vars,
                    NEW k \in Kinds, rec'[k].pc # "idle"
             PROVE  /\ Kind[rec'[k].key] = k
                    /\ rec'[k].key \in dirty' \/ rec'[k].obj = sCache'[rec'[k].key]
  BY DEF SnapshotInv, Key
<1> DEFINE OnCourse == /\ Kind[rec'[k].key] = k
                       /\ rec'[k].key \in dirty' \/ rec'[k].obj = sCache'[rec'[k].key]
<1>1. ASSUME rec'[k].key = Key(k), rec'[k].obj = rec[k].obj, rec[k].pc # "idle",
             dirty \subseteq dirty', ~Restart
      PROVE  OnCourse
  <2>1. Key(k) \in Stores
    BY <1>1, RunningRec
  <2>2. Kind[Key(k)] = k /\ (Key(k) \in dirty \/ rec[k].obj = sCache[Key(k)])
    BY <1>1 DEF SnapshotInv
  <2>3. sCache'[Key(k)] = sCache[Key(k)] \/ Key(k) \in dirty'
    BY <1>1, <2>1, CacheKeeps
  <2>4. QED
    BY <1>1, <2>2, <2>3
<1>2. ASSUME NEW s \in Stores, StartReconcile(s) PROVE OnCourse
  <2>1. CASE k = Kind[s]
    BY <1>2, <2>1, StartForm
  <2>2. CASE k # Kind[s]
    <3>1. rec'[k] = rec[k] /\ dirty' = dirty \ {s} /\ UNCHANGED sCache
      BY <1>2, <2>2, StartForm
    <3>2. Key(k) # s
      BY <2>2, <3>1 DEF SnapshotInv
    <3>3. QED
      BY <3>1, <3>2 DEF SnapshotInv, Key
  <2>3. QED
    BY <2>1, <2>2
<1>3. ASSUME NEW j \in Kinds, ReconcileStep(j) PROVE OnCourse
  <2>1. UNCHANGED <<dirty, sCache>>
    BY <1>3, StepForms DEF cacheVars
  <2>2. /\ j # k => rec'[k] = rec[k]
        /\ j = k => rec'[k].key = rec[k].key /\ rec'[k].obj = rec[k].obj /\ rec[k].pc # "idle"
    BY <1>3, StepForms, StepRec DEF Idle
  <2>3. QED
    BY <2>1, <2>2 DEF SnapshotInv, Key
<1>4. Restart => rec'[k].pc = "idle"
  BY DEF Restart, Idle
<1>5. CASE UNCHANGED rec /\ dirty \subseteq dirty' /\ ~Restart
  BY <1>1, <1>5 DEF Key
<1>6. QED
  BY <1>2, <1>3, <1>4, <1>5, WorkersKeep

\* What steps other than the workers' do to the children: the collector takes one, the
\* others leave them alone.
LEMMA ChildrenKeep ==
    ASSUME [Next]_vars, ~\E k \in Kinds : ReconcileStep(k)
    PROVE  UNCHANGED <<children, taken>> \/ \E c \in Children : Collect(c)
<1> USE DEF apiVars
<1>1. ASSUME NEW s \in Stores,
             \/ StartReconcile(s) \/ BackoffExpires(s) \/ SyncStore(s) \/ UserDeletes(s)
             \/ \E spec \in Specs : UserCreates(s, spec) \/ UserEdits(s, spec)
      PROVE  UNCHANGED <<children, taken>>
  BY <1>1 DEF StartReconcile, BackoffExpires, SyncStore, UserDeletes, UserCreates, UserEdits
<1>2. ASSUME NEW c \in Children, SyncChild(c) PROVE UNCHANGED <<children, taken>>
  BY <1>2 DEF SyncChild
<1>3. ASSUME Resync \/ Restart \/ SecretAppears \/ UNCHANGED vars
      PROVE  UNCHANGED <<children, taken>>
  BY <1>3 DEF Resync, Restart, SecretAppears, vars
<1>4. QED
  BY <1>1, <1>2, <1>3 DEF Next

\* Every child that is there keeps coming from a store of its name.
LEMMA OriginStep ==
    TypeOK /\ SpecInv /\ SnapshotInv /\ OriginInv /\ [Next]_vars => OriginInv'
<1> SUFFICES ASSUME TypeOK, SpecInv, SnapshotInv, OriginInv, [Next]_vars, NEW c \in Children
             PROVE  Origin(c, children'[c]) /\ Origin(c, cCache'[c])
  BY DEF OriginInv, Origin
<1> USE DEF apiVars, cacheVars
<1>1. Origin(c, children'[c])
  <2>1. CASE UNCHANGED <<children, taken>>
    BY <2>1 DEF OriginInv
  <2>2. ASSUME NEW d \in Children, Collect(d) PROVE Origin(c, children'[c])
    <3>1. children'[c] \in {children[c], NoChild}
      BY <2>2 DEF Collect, TypeOK
    <3>2. QED
      BY <3>1 DEF OriginInv, Origin
  <2>3. ASSUME NEW k \in Kinds, NEW x, Writes(k, x), rec[k].pc # "idle"
        PROVE  Origin(c, children'[c])
    <3>1. Child(k) \in Children /\ Child(k)[2] = NameOf[Key(k)] /\ Key(k) \in Stores
      BY <2>3, RunningRec
    <3>2. CASE c # Child(k)
      <4>1. children'[c] = children[c]
        BY <2>3, <3>1, <3>2 DEF Writes, TypeOK
      <4>2. QED
        BY <4>1 DEF OriginInv
    <3>3. CASE c = Child(k)
      <4>1. children'[c] = x
        BY <2>3, <3>1, <3>3 DEF Writes, TypeOK
      <4>2. CASE x.kind = k
        <5>1. NameOf[Key(k)] = c[2] /\ Kind[Key(k)] = x.kind
          BY <2>3, <3>1, <3>3, <4>2 DEF SnapshotInv
        <5>2. QED
          BY <3>1, <4>1, <5>1 DEF Origin
      <4>3. CASE cCache[c] # NoChild /\ x.kind = cCache[c].kind
        BY <4>1, <4>3 DEF OriginInv, Origin
      <4>4. QED
        BY <2>3, <3>3, <4>2, <4>3 DEF Writes
    <3>4. QED
      BY <3>2, <3>3
  <2>4. QED
    BY <2>1, <2>2, <2>3, ChildrenKeep, StepForms
<1>2. cCache'[c] \in {cCache[c], children[c]}
  <2>1. ASSUME NEW d \in Children, SyncChild(d) PROVE cCache'[c] \in {cCache[c], children[c]}
    BY <2>1 DEF SyncChild, TypeOK
  <2>2. CASE Restart
    BY <2>2 DEF Restart
  <2>3. ASSUME NEW s \in Stores,
               \/ StartReconcile(s) \/ BackoffExpires(s) \/ SyncStore(s) \/ UserDeletes(s)
               \/ \E spec \in Specs : UserCreates(s, spec) \/ UserEdits(s, spec)
        PROVE  UNCHANGED cCache
    BY <2>3 DEF StartReconcile, BackoffExpires, SyncStore, UserDeletes, UserCreates, UserEdits
  <2>4. ASSUME NEW d \in Children, Collect(d) PROVE UNCHANGED cCache
    BY <2>4 DEF Collect
  <2>5. ASSUME Resync \/ SecretAppears \/ UNCHANGED vars PROVE UNCHANGED cCache
    BY <2>5 DEF Resync, SecretAppears, vars
  <2>6. QED
    BY <2>1, <2>2, <2>3, <2>4, <2>5, StepForms DEF Next
<1>3. Origin(c, cCache'[c])
  BY <1>2 DEF OriginInv
<1>4. QED
  BY <1>1, <1>3
-----------------------------------------------------------------------------
(* What a controller is done with *)

\* A child that a step leaves alone, or that the collector takes, is as good as before.
LEMMA PartKept ==
    ASSUME NEW s \in Stores, NEW part \in Parts, NEW c, c = <<part, NameOf[s]>>,
           PartInv(s, part),
           Passed(s, part)' => Passed(s, part) /\ PassedSpec(s)' = PassedSpec(s),
           \/ children'[c] = children[c] /\ (c \in taken => c \in taken')
           \/ children'[c] = NoChild /\ c \in taken'
    PROVE  PartInv(s, part)'
BY DEF PartInv, There

\* Nobody but the workers makes the controllers done with anything.
LEMMA QuietPart ==
    ASSUME IInv, [Next]_vars,
           ~\E s \in Stores : StartReconcile(s), ~\E k \in Kinds : ReconcileStep(k), ~Restart,
           NEW s \in Stores, NEW part \in Parts
    PROVE  PartInv(s, part)'
<1> DEFINE c == <<part, NameOf[s]>>
<1>1. UNCHANGED rec /\ dirty \union backoff \subseteq dirty' \union backoff'
  BY WorkersKeep
<1>2. sCache'[s] = sCache[s] \/ s \in dirty'
  BY CacheKeeps DEF IInv
<1>3. Passed(s, part)' => Passed(s, part) /\ PassedSpec(s)' = PassedSpec(s)
  BY <1>1, <1>2 DEF Passed, PassedSpec, Handled, Key
<1>4. \/ children'[c] = children[c] /\ (c \in taken => c \in taken')
      \/ children'[c] = NoChild /\ c \in taken'
  <2>1. ASSUME NEW d \in Children, Collect(d)
        PROVE  \/ children'[c] = children[c] /\ (c \in taken => c \in taken')
               \/ children'[c] = NoChild /\ c \in taken'
    BY <2>1, ChildOf DEF Collect, IInv, TypeOK
  <2>2. QED
    BY <2>1, ChildrenKeep
<1>5. QED
  BY <1>3, <1>4, PartKept DEF IInv

\* A worker that starts takes its store from those that are done with.
LEMMA StartPart ==
    ASSUME IInv, NEW u \in Stores, StartReconcile(u), NEW s \in Stores, NEW part \in Parts
    PROVE  PartInv(s, part)'
<1> DEFINE k == Kind[s]
<1>1. /\ TypeOK /\ k \in Kinds
      /\ Kind[u] \in Kinds /\ rec[Kind[u]].pc = "idle"
      /\ UNCHANGED <<sCache, children, taken>>
      /\ dirty' = dirty \ {u} /\ backoff \subseteq backoff'
  BY StartForm, StoresAssumption DEF IInv
<1>2. \/ UNCHANGED rec /\ (u \in backoff' \/ sCache[u] = NoStore)
      \/ /\ \A j \in Kinds \ {Kind[u]} : rec'[j] = rec[j]
         /\ rec'[Kind[u]].key = u /\ rec'[Kind[u]].part = "service"
  BY <1>1, StartForm
<1>3. Key(Kind[u]) \notin Stores
  BY <1>1, IdleRec
<1>4. CASE u = s
  <2>1. ~Passed(s, part)'
    BY <1>1, <1>2, <1>3, <1>4 DEF Passed, Handled, Key
  <2>2. QED
    BY <2>1 DEF PartInv
<1>5. CASE u # s
  <2>1. Passed(s, part)' => Passed(s, part) /\ PassedSpec(s)' = PassedSpec(s)
    <3>1. CASE Kind[u] = k
      BY <1>1, <1>2, <1>3, <1>5, <3>1 DEF Passed, PassedSpec, Handled, Key
    <3>2. CASE Kind[u] # k
      <4>1. rec'[k] = rec[k]
        BY <1>1, <1>2, <3>2
      <4>2. QED
        BY <1>1, <1>5, <4>1 DEF Passed, PassedSpec, Handled, Key
    <3>3. QED
      BY <3>1, <3>2
  <2>2. QED
    BY <1>1, <2>1, PartKept DEF IInv
<1>6. QED
  BY <1>4, <1>5

\* What a worker does leaves the stores it does not work on as they were, even those that
\* share its store's name: it writes its own layout into the service.
LEMMA OthersPart ==
    ASSUME IInv, NEW j \in Kinds, ReconcileStep(j),
           NEW s \in Stores, NEW part \in Parts, Key(j) # s
    PROVE  PartInv(s, part)'
<1> DEFINE k == Kind[s]
           c == <<part, NameOf[s]>>
           u == Key(j)
<1>1. /\ TypeOK /\ SpecInv /\ k \in Kinds /\ c \in Children /\ rec[j].pc # "idle"
      /\ PartInv(s, part)
  BY StepForms, StoresAssumption, ChildOf DEF IInv
<1>2. u \in Stores /\ Kind[u] = j /\ Child(j) = <<rec[j].part, NameOf[u]>> /\ Child(j) \in Children
  BY <1>1, RunningRec DEF IInv, SnapshotInv
<1>3. /\ UNCHANGED <<sCache, dirty>> /\ backoff \subseteq backoff'
      /\ rec'[k] = rec[k] \/ (k = j /\ rec'[k].key # s)
  <2>1. UNCHANGED <<sCache, dirty>> /\ backoff \subseteq backoff'
    BY <1>1, StepForms DEF cacheVars, queueVars, Fail, Writes
  <2>2. rec'[k] = rec[k] \/ (k = j /\ rec'[k].key # s)
    <3>1. Idle.key # s
      BY NoneIsNoStore DEF Idle
    <3>2. QED
      BY <1>1, <3>1, StepRec DEF Key
  <2>3. QED
    BY <2>1, <2>2
<1>4. Passed(s, part)' => Passed(s, part) /\ PassedSpec(s)' = PassedSpec(s)
  BY <1>3 DEF Passed, PassedSpec, Handled, Key
<1>5. CASE children'[c] = children[c] /\ (c \in taken => c \in taken')
  BY <1>1, <1>4, <1>5, PartKept
<1>6. ASSUME NEW x, Writes(j, x), Child(j) = c
      PROVE  PartInv(s, part)'
  <2>1. children'[c] = x /\ x # NoChild
    BY <1>1, <1>6 DEF Writes, TypeOK
  <2>2. NameOf[u] = NameOf[s] /\ rec[j].part = part
    BY <1>2, <1>6
  <2>3. ~Alone(s)
    BY <1>2, <2>2 DEF Alone
  <2>4. k # j
    BY <1>2, <2>2, StoresAssumption
  <2>5. part = "service" => x.kind # k
    BY <1>6, <2>2, <2>4 DEF Writes
  <2>6. QED
    BY <2>1, <2>3, <2>5 DEF PartInv, There
<1>7. QED
  <2>1. ASSUME NEW x, Writes(j, x), Child(j) # c
        PROVE  children'[c] = children[c] /\ (c \in taken => c \in taken')
    BY <1>1, <2>1 DEF Writes, TypeOK
  <2>2. QED
    BY <1>1, <1>5, <1>6, <2>1, StepForms

\* A worker is done with a part of its store by writing it.
LEMMA OwnPart ==
    ASSUME IInv, NEW s \in Stores, ReconcileStep(Kind[s]), Key(Kind[s]) = s, NEW part \in Parts
    PROVE  PartInv(s, part)'
<1> DEFINE k == Kind[s]
           c == <<part, NameOf[s]>>
<1>1. /\ TypeOK /\ SpecInv /\ k \in Kinds /\ c \in Children /\ rec[k].pc # "idle"
      /\ PartInv(s, part) /\ rec \in [Kinds -> RecType]
  BY StepForms, StoresAssumption, ChildOf DEF IInv, TypeOK
<1>2. /\ rec[k] \in RunningType /\ rec[k].key = s
      /\ Child(k) = <<rec[k].part, NameOf[s]>> /\ Child(k) \in Children
  BY <1>1, RunningRec DEF Key
<1>3. UNCHANGED <<sCache, dirty>>
  BY <1>1, StepForms DEF cacheVars
<1>4. Idle.key # s
  BY NoneIsNoStore DEF Idle
<1>5. CASE Fail(k)
  <2>1. s \in backoff' /\ rec'[k] = Idle
    BY <1>1, <1>5 DEF Fail, Done
  <2>2. ~Passed(s, part)'
    BY <1>4, <2>1 DEF Passed, Handled, Key
  <2>3. QED
    BY <2>2 DEF PartInv
<1>6. ASSUME NEW p \in {"create", "update"}, Goto(k, p), UNCHANGED <<children, taken>>
      PROVE  PartInv(s, part)'
  <2>1. rec'[k] = [rec[k] EXCEPT !.pc = p]
    BY <1>1, <1>6 DEF Goto
  <2>2. rec'[k].key = s /\ rec'[k].obj = rec[k].obj /\ rec'[k].part = rec[k].part
    BY <1>2, <2>1 DEF RunningType
  <2>3. Passed(s, part)' => Passed(s, part) /\ PassedSpec(s)' = PassedSpec(s)
    BY <1>2, <2>2 DEF Passed, PassedSpec, Handled, Key
  <2>4. QED
    BY <1>1, <1>6, <2>3, PartKept
<1>7. ASSUME NEW x, Writes(k, x), rec[k].part = "service" PROVE PartInv(s, part)'
  <2>1. rec'[k] = [rec[k] EXCEPT !.pc = "create", !.part = "trigger"]
    BY <1>1, <1>7 DEF Writes, NextPart
  <2>2. rec'[k].key = s /\ rec'[k].obj = rec[k].obj /\ rec'[k].part = "trigger"
    BY <1>2, <2>1 DEF RunningType
  <2>3. Passed(s, part)' => part = "service"
    BY <2>2 DEF Passed, Handled, Key
  <2>4. PassedSpec(s)' = rec[k].obj.spec
    BY <2>2 DEF PassedSpec, Key
  <2>5. part = "service" => c = Child(k)
    BY <1>2, <1>7
  <2>6. part = "service" => children'[c] = x
    BY <1>1, <1>7, <2>5 DEF Writes, TypeOK
  <2>7. x # NoChild /\ x.val = Value(rec[k].obj.spec, "service")
    BY <1>7 DEF Writes
  <2>8. QED
    BY <2>3, <2>4, <2>6, <2>7 DEF PartInv, There
<1>8. ASSUME NEW x, Writes(k, x), rec[k].part = "trigger" PROVE PartInv(s, part)'
  <2>1. SUFFICES ASSUME Passed(s, part)' PROVE PartInv(s, part)'
    BY DEF PartInv
  <2>2. rec'[k] = Idle
    BY <1>1, <1>8 DEF Writes, NextPart, Done
  <2>3. s \notin dirty /\ PassedSpec(s)' = sCache[s].spec
    BY <1>3, <1>4, <2>1, <2>2 DEF Passed, PassedSpec, Handled, Key
  <2>4. rec[k].obj = sCache[s]
    BY <1>1, <1>2, <2>3 DEF IInv, SnapshotInv, Key
  <2>5. CASE part = "trigger"
    <3>1. children'[c] = x
      BY <1>1, <1>2, <1>8, <2>5 DEF Writes, TypeOK
    <3>2. x # NoChild /\ x.val = Value(rec[k].obj.spec, "trigger")
      BY <1>8 DEF Writes
    <3>3. QED
      BY <2>3, <2>4, <2>5, <3>1, <3>2 DEF PartInv, There
  <2>6. CASE part = "service"
    <3>1. Child(k) # c
      BY <1>2, <1>8, <2>6
    <3>2. children'[c] = children[c] /\ (c \in taken => c \in taken')
      BY <1>1, <1>8, <3>1 DEF Writes, TypeOK
    <3>3. Passed(s, part) /\ PassedSpec(s) = rec[k].obj.spec
      BY <1>2, <1>8, <2>6 DEF Passed, PassedSpec, Key
    <3>4. QED
      BY <1>1, <2>3, <2>4, <3>2, <3>3, PartKept
  <2>7. QED
    BY <2>5, <2>6 DEF Parts
<1>9. QED
  <2>1. rec[k].part \in {"service", "trigger"}
    BY <1>2 DEF RunningType, Parts
  <2>2. QED
    BY <1>1, <1>5, <1>6, <1>7, <1>8, <2>1, StepForms

\* Every step keeps what the controllers are done with as it should be.
LEMMA PartStep ==
    ASSUME IInv, [Next]_vars, NEW s \in Stores, NEW part \in Parts
    PROVE  PartInv(s, part)'
<1>1. ASSUME NEW j \in Kinds, ReconcileStep(j) PROVE PartInv(s, part)'
  <2>1. CASE Key(j) # s
    BY <1>1, <2>1, OthersPart
  <2>2. CASE Key(j) = s
    <3>1. Kind[s] = j
      BY <1>1, <2>2, StepForms DEF IInv, SnapshotInv
    <3>2. QED
      BY <1>1, <2>2, <3>1, OwnPart
  <2>3. QED
    BY <2>1, <2>2
<1>2. CASE Restart
  <2>1. rec'[Kind[s]] = Idle /\ (sCache'[s] # NoStore => s \in dirty')
    BY <1>2, StoresAssumption DEF Restart, Live
  <2>2. ~Passed(s, part)'
    BY <2>1, NoneIsNoStore DEF Passed, Handled, Key, Idle
  <2>3. QED
    BY <2>2 DEF PartInv
<1>3. QED
  BY <1>1, <1>2, StartPart, QuietPart

-----------------------------------------------------------------------------
(* The theorems *)

\* The initial states satisfy the inductive invariant.
LEMMA InitInv == Init => IInv
<1> SUFFICES ASSUME Init PROVE IInv
  OBVIOUS
<1>1. TypeOK
  BY AbsentTypes DEF Init, TypeOK, RecType
<1>2. SpecInv /\ SnapshotInv /\ OriginInv
  BY DEF Init, SpecInv, SnapshotInv, OriginInv, Origin, Idle
<1>3. ASSUME NEW s \in Stores, NEW part \in Parts PROVE PartInv(s, part)
  <2>1. sCache[s] = NoStore /\ rec[Kind[s]] = Idle
    BY StoresAssumption DEF Init
  <2>2. ~Passed(s, part)
    BY <2>1, NoneIsNoStore DEF Passed, Handled, Key, Idle
  <2>3. QED
    BY <2>2 DEF PartInv
<1>4. QED
  BY <1>1, <1>2, <1>3 DEF IInv

\* The inductive invariant holds throughout: the three workers, side by side on shared
\* children, leave each store they are done with a child of a layout that says whose spec
\* is in it.
THEOREM Invariance == Spec => []IInv
<1>1. IInv /\ [Next]_vars => IInv'
  <2> SUFFICES ASSUME IInv, [Next]_vars PROVE IInv'
    OBVIOUS
  <2>1. TypeOK' /\ SpecInv' /\ SnapshotInv' /\ OriginInv'
    BY TypeStep, SpecStep, SnapshotStep, OriginStep DEF IInv
  <2>2. \A s \in Stores, part \in Parts : PartInv(s, part)'
    BY PartStep
  <2>3. QED
    BY <2>1, <2>2 DEF IInv
<1>2. QED
  BY InitInv, <1>1, PTL DEF Spec

\* Every variable keeps to its type, whatever the workers, the caches, the collector and
\* the users do.
THEOREM TypeCorrect == Spec => []TypeOK
<1>1. IInv => TypeOK
  BY DEF IInv
<1>2. QED
  BY Invariance, <1>1, PTL

\* A store the controllers are done with is handled, and its spec is the stored one.
LEMMA SettledHandled ==
    ASSUME NEW s \in Stores, Settled(s), NEW part \in Parts
    PROVE  Passed(s, part) /\ PassedSpec(s) = stores[s].spec
BY DEF Settled, Pending, Live, Passed, PassedSpec, Handled

\* When a controller is done with a store that shares its name with no other, the store's
\* service and trigger follow its latest spec, unless the collector has taken them.
THEOREM Served == Spec => []ServedWhenSettled
<1>1. IInv => ServedWhenSettled
  <2> SUFFICES ASSUME IInv, NEW s \in Stores, NEW part \in Parts, Settled(s), Alone(s)
               PROVE  Follows(s, part) \/ <<part, NameOf[s]>> \in taken
    BY DEF ServedWhenSettled
  <2> DEFINE c == <<part, NameOf[s]>>
  <2>1. PartInv(s, part) /\ c \in Children /\ Passed(s, part) /\ PassedSpec(s) = stores[s].spec
    BY SettledHandled, ChildOf DEF IInv
  <2>2. There(c) => children[c].kind = Kind[s]
    BY <2>1 DEF IInv, OriginInv, Origin, Alone, There
  <2>3. QED
    BY <2>1, <2>2 DEF PartInv, Follows
<1>2. QED
  BY Invariance, <1>1, PTL

\* Two controllers that write the service of one name, each on a cached copy, never leave
\* an old spec in it: when they are done, it holds the latest spec of one of them.
THEOREM OneOwner == Spec => []ServiceOfOne
<1>1. IInv => ServiceOfOne
  <2> SUFFICES ASSUME IInv, NEW n \in Names,
                      \A s \in {u \in Stores : NameOf[u] = n} : Settled(s),
                      <<"service", n>> \notin taken
               PROVE  \E s \in {u \in Stores : NameOf[u] = n} : Follows(s, "service")
    BY DEF ServiceOfOne
  <2> DEFINE c == <<"service", n>>
  <2>1. PICK u \in Stores : NameOf[u] = n
    BY DEF Names
  <2>2. "service" \in Parts /\ c \in Children
    BY DEF Parts, Children
  <2>3. There(c)
    <3>1. Passed(u, "service")
      BY <2>1, <2>2, SettledHandled
    <3>2. PartInv(u, "service")
      BY <2>2 DEF IInv
    <3>3. QED
      BY <2>1, <3>1, <3>2 DEF PartInv
  <2>4. PICK s \in Stores : NameOf[s] = n /\ Kind[s] = children[c].kind
    BY <2>2, <2>3 DEF IInv, OriginInv, Origin, There
  <2>5. Passed(s, "service") /\ PassedSpec(s) = stores[s].spec
    BY <2>2, <2>4, SettledHandled
  <2>6. PartInv(s, "service")
    BY <2>2 DEF IInv
  <2>7. children[c].val = Value(stores[s].spec, "service")
    BY <2>3, <2>4, <2>5, <2>6 DEF PartInv
  <2>8. Follows(s, "service")
    BY <2>4, <2>7 DEF Follows
  <2>9. QED
    BY <2>4, <2>8
<1>2. QED
  BY Invariance, <1>1, PTL

=============================================================================
