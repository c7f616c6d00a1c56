------------------------------- MODULE Routing -------------------------------
(***************************************************************************)
(* Who gets which event.  For each TwinInterface the operator creates      *)
(* bindings of RabbitMQ queues to exchanges.  A binding is created once,   *)
(* under a name made by joining lower-cased names with dashes; if the name *)
(* is taken, by whatever binding, the operator takes it for its own.  The  *)
(* types of events are made by joining names with dots.  Nothing forbids   *)
(* dashes and dots in the names themselves, so a name is a sequence of     *)
(* tokens here, dashes and dots among them.                                *)
(*                                                                         *)
(* A reconciliation is one step and nothing fails or is deleted: what can  *)
(* happen during a reconciliation is the subject of                        *)
(* TwinInterfaceController, where names are triples that never clash.      *)
(***************************************************************************)
EXTENDS Integers, SequencesExt

CONSTANTS
    Ifaces,    \* names of TwinInterfaces
    Specs,     \* what users write into them
    Lower,     \* function: tokens to lower-case tokens
    NONE,      \* no interface
    MaxEdits   \* bound on creations and edits

Tokens == DOMAIN Lower
Name == Seq(Tokens)

\* A relationship points to an interface, which need not exist.
IsSpec(s) ==
    /\ s.service \in BOOLEAN
    /\ s.rels \in Seq([name: Name, target: Name, aggregate: BOOLEAN])
    /\ s.cmds \in Seq(Name)

\* The API server takes only lower-case names for the interfaces themselves.
ASSUME RoutingAssumption ==
    /\ Lower \in [Tokens -> Tokens]
    /\ Ifaces \subseteq Name /\ \A i \in Ifaces : \A k \in DOMAIN i : Lower[i[k]] = i[k]
    /\ NONE \notin Specs /\ \A s \in Specs : IsSpec(s)
    /\ MaxEdits \in Nat

VARIABLES
    interfaces,  \* the spec of each TwinInterface, NONE if there is none
    bindings,    \* the bindings by name
    pending,     \* interfaces that wait for their reconciliation
    past,        \* history: the specs each interface has had
    edits        \* counter for the bound

vars == <<interfaces, bindings, pending, past, edits>>

Live(i) == interfaces[i] # NONE

-----------------------------------------------------------------------------
(* Event types and bindings *)

Real(i) == <<"twinscale", ".", "real", ".">> \o i
EventStoreGenerated(i) == <<"twinscale", ".", "eventstore", ".">> \o i
CommandExecuted_NoInterface(i, c) == <<"twinscale", ".", "command", ".">> \o c
CommandExecuted(i, c) == <<"twinscale", ".", "command", ".">> \o i \o <<".">> \o c

ToLower(name) == [k \in DOMAIN name |-> Lower[name[k]]]
Named(i, suffix) == ToLower(i) \o <<"-", suffix>>
NamedFor_NoInterface(i, p, suffix) == ToLower(p) \o <<"-", suffix>>
NamedFor(i, p, suffix) == ToLower(i) \o <<"-">> \o ToLower(p) \o <<"-", suffix>>

\* The exchange for MQTT matches routing keys with topics. The exchange of the broker
\* matches headers: those that start with "x-" do not count, which leaves the type.
Topic(i) == [exchange |-> "amq.topic", key |-> Real(i) \o <<".", "#">>,
             queue |-> <<"mqtt-dispatcher-queue">>]
Filter_NoDestination(type, queue) == [exchange |-> "broker", key |-> type]
Filter(type, queue) == [exchange |-> "broker", key |-> type, queue |-> queue]
EventStoreQueue == <<"eventstore-trigger">>

\* The relationships that aggregate data; the loops over relationships skip the others.
Aggregated(s) == {k \in DOMAIN s.rels : s.rels[k].aggregate}

\* A binding is a pair: its name and what it binds. A loop makes one at each position.
MqttDispatcherBindings(i, s) ==
    [k \in {0} \union Aggregated(s) |->
        IF k = 0 THEN <<Named(i, "real-mqtt-dispatcher"), Topic(i)>>
        ELSE <<NamedFor(i, s.rels[k].name, "real-mqtt-dispatcher"), Topic(s.rels[k].target)>>]

EventStoreBindings(i) ==
    [k \in {0} |-> <<Named(i, "event-store"), Filter(EventStoreGenerated(i), EventStoreQueue)>>]

RelationshipBindings(i, s) ==
    [k \in Aggregated(s) |->
        <<NamedFor(i, s.rels[k].name, "real-dispatcher"), Filter(Real(s.rels[k].target), i)>>]

CommandBindings_SameSuffix(i, s) ==
    [k \in DOMAIN s.cmds |-> <<NamedFor(i, s.cmds[k], "real-dispatcher"),
                               Filter(CommandExecuted(i, s.cmds[k]), i)>>]
CommandBindings(i, s) ==
    [k \in DOMAIN s.cmds |-> <<NamedFor(i, s.cmds[k], "command-dispatcher"),
                               Filter(CommandExecuted(i, s.cmds[k]), i)>>]

\* All an interface asks for; without a service there is no trigger and no queue.
Bindings(i, s) ==
    Range(MqttDispatcherBindings(i, s)) \union Range(EventStoreBindings(i))
      \union IF s.service
             THEN Range(RelationshipBindings(i, s)) \union Range(CommandBindings(i, s))
             ELSE {}

\* One loop: a name that is taken stays what it is, AlreadyExists is no error; the first
\* binding with a new name takes it.
Create(all, loop) ==
    LET at(n) == {k \in DOMAIN loop : loop[k][1] = n}
        first(n) == CHOOSE k \in at(n) : \A j \in at(n) : k <= j
    IN  [n \in DOMAIN all \union {b[1] : b \in Range(loop)} |->
            IF n \in DOMAIN all THEN all[n] ELSE loop[first(n)][2]]

-----------------------------------------------------------------------------
(* The specification *)

Reconcile(i) ==
    /\ i \in pending
    /\ LET s == interfaces[i]
           mqtt == Create(bindings, MqttDispatcherBindings(i, s))
           eventStore == Create(mqtt, EventStoreBindings(i))
           relationships == Create(eventStore, RelationshipBindings(i, s))
       IN  bindings' = IF s.service THEN Create(relationships, CommandBindings(i, s))
                       ELSE eventStore
    /\ pending' = pending \ {i}
    /\ UNCHANGED <<interfaces, past, edits>>

\* The resync of the informers.
Resync ==
    /\ pending' = {i \in Ifaces : Live(i)}
    /\ UNCHANGED <<interfaces, bindings, past, edits>>

UserWrites(i, s) ==
    /\ interfaces[i] # s /\ edits < MaxEdits
    /\ edits' = edits + 1
    /\ interfaces' = [interfaces EXCEPT ![i] = s]
    /\ past' = [past EXCEPT ![i] = @ \union {s}]
    /\ pending' = pending \union {i}
    /\ UNCHANGED bindings

Init ==
    /\ interfaces = [i \in Ifaces |-> NONE]
    /\ bindings = <<>>
    /\ pending = {}
    /\ past = [i \in Ifaces |-> {}]
    /\ edits = 0

Next == \/ \E i \in Ifaces : Reconcile(i)
        \/ Resync
        \/ \E i \in Ifaces, s \in Specs : UserWrites(i, s)

Spec == Init /\ [][Next]_vars

-----------------------------------------------------------------------------
(* Properties *)

Contents == {bindings[n] : n \in DOMAIN bindings}

\* The variables hold values of their types.
TypeOK ==
    /\ interfaces \in [Ifaces -> Specs \union {NONE}]
    /\ \A c \in Contents : DOMAIN c = {"exchange", "key", "queue"}
    /\ pending \subseteq {i \in Ifaces : Live(i)}
    /\ past \in [Ifaces -> SUBSET Specs] /\ edits \in 0..MaxEdits

\* Neither name, followed by a dash or a dot, is the beginning of the other.
Apart(i, j) == \A sep \in {"-", "."} :
    ~IsPrefix(Append(i, sep), j) /\ ~IsPrefix(Append(j, sep), i)

\* The name is that of a relationship, or of a command, that has another target, or is
\* written in another case, in spec t of the same interface.
Redirected(i, s, t, name) ==
    \/ \E k \in Aggregated(s), l \in Aggregated(t) :
          /\ ToLower(s.rels[k].name) = ToLower(t.rels[l].name)
          /\ s.rels[k].target # t.rels[l].target
          /\ \E suffix \in {"real-mqtt-dispatcher", "real-dispatcher"} :
                name = NamedFor(i, s.rels[k].name, suffix)
    \/ \E k \in DOMAIN s.cmds, l \in DOMAIN t.cmds :
          /\ ToLower(s.cmds[k]) = ToLower(t.cmds[l]) /\ s.cmds[k] # t.cmds[l]
          /\ name = NamedFor(i, s.cmds[k], "command-dispatcher")

\* Once an interface is reconciled everything its spec asks for is bound, but for names that
\* were taken before: by an interface it is not apart from, or by the same relationship or
\* command of its own, for another target or in another case. No other clash of joined
\* names costs a binding: not dashes in names, not a relationship and a command of one name.
NothingLost ==
    LET bound == {<<n, bindings[n]>> : n \in DOMAIN bindings}
    IN  \A i \in Ifaces : Live(i) /\ i \notin pending =>
            \A b \in Bindings(i, interfaces[i]) \ bound :
                \E c \in bound, j \in Ifaces : \E t \in past[j] :
                    /\ c[1] = b[1] /\ c \in Bindings(j, t)
                    /\ IF j = i THEN Redirected(i, interfaces[i], t, b[1]) ELSE ~Apart(i, j)

\* An event: of an interface, or a command for one.
Events == [kind : {"real"}, iface : Ifaces]
            \union UNION {[kind : {"command"}, iface : Ifaces, cmd : {s.cmds[k] : k \in DOMAIN s.cmds}] :
                          s \in Specs}
Type(e) == IF e.kind = "real" THEN Real(e.iface) ELSE CommandExecuted(e.iface, e.cmd)
Delivered(e, i) == Filter(Type(e), i) \in Contents

\* No interface is sent an event it has never asked for: the data of an interface none of
\* its relationships aggregates, or a command for another interface, unless the two are not
\* apart and a command of its own has the same type.
NothingElse ==
    \A i \in Ifaces, e \in Events : Delivered(e, i) =>
        \E s \in past[i] :
            IF e.kind = "real"
            THEN \E k \in Aggregated(s) : s.rels[k].target = e.iface
            ELSE \E k \in DOMAIN s.cmds :
                    \/ e.iface = i /\ s.cmds[k] = e.cmd
                    \/ ~Apart(i, e.iface) /\ CommandExecuted(i, s.cmds[k]) = Type(e)
=============================================================================
