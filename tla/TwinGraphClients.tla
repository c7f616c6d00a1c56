--------------------------- MODULE TwinGraphClients ---------------------------
(***************************************************************************)
(* The two ways package graph is used: a graph of TwinInterfaces on which  *)
(* all its operations are called, and the TwinGraphServer, which builds a  *)
(* graph of TwinInstances for each list it is given and answers HTTP       *)
(* requests from the last one built.  Updates and requests run in their    *)
(* own goroutines and there is no lock.  The pointer to the last graph is  *)
(* written after the graph, as every handler sees it on a processor that   *)
(* keeps the order of writes (amd64); the language does not promise it.    *)
(*                                                                         *)
(* The two share nothing; an execution has calls or updates.               *)
(***************************************************************************)
EXTENDS TwinGraph

CONSTANTS
    Interfaces,   \* the twins of the graph of TwinInterfaces
    Lists,        \* the lists of TwinInstances the server is given
    Updaters,     \* goroutines that update the server
    Handlers,     \* goroutines that serve requests
    MaxCalls,     \* bound on the operations on the graph of TwinInterfaces
    MaxUpdates    \* bound on the updates of the server

Twins == Interfaces \union UNION {Range(list) : list \in Lists}

\* NONE is neither a twin nor a document, which is a set of twins.
ASSUME GraphAssumption ==
    /\ \A list \in Lists : list \in Seq(Twins)
    /\ \A t \in Twins : t.rels \in Seq(Range(t.rels)) /\ t # NONE
    /\ \A document \in SUBSET Twins : document # NONE
    /\ MaxCalls \in Nat /\ MaxUpdates \in Nat

VARIABLES
    interfaceGraph,  \* the graph of TwinInterfaces
    repeated,        \* history: pairs of names that have had more than one edge at a time
    calls,           \* operations left
    graphs,          \* the graphs of TwinInstances in memory
    published,       \* twinGraphInstance of the server: one of graphs
    update,          \* local variables of each UpdateGraphFunc
    request,         \* the graph each request reads, 0 before it has taken it
    answer,          \* the last answer of each handler
    updates          \* updates left

interfaceVars == <<interfaceGraph, repeated, calls>>
serverVars == <<graphs, published, update, request, answer, updates>>
vars == <<interfaceVars, serverVars>>

-----------------------------------------------------------------------------
(* The graph of TwinInterfaces *)

Call(g) ==
    /\ calls > 0 /\ calls' = calls - 1
    /\ interfaceGraph' = g
    /\ repeated' = repeated \union Repeated(g)
    /\ UNCHANGED serverVars

AddInterface(t) == Call(AddVertex(interfaceGraph, t))

RemoveInterface(t) == Call(RemoveVertex(interfaceGraph, t))

\* A second edge between the same two is kept as well.
AddRelationship(s, t) == Call(AddEdge(interfaceGraph, s, t))

\* Where there was an edge the list now ends with its last one twice.
RemoveRelationship(s, t) == Call(RemoveEdge(interfaceGraph, s, t))

-----------------------------------------------------------------------------
(* The server *)

Idle == [pc |-> "idle", list |-> <<>>, at |-> 1, rel |-> 1, graph |-> 0]

\* UpdateGraphFunc makes a new graph ...
StartUpdate_Reuses(u, list) ==
    /\ update[u] = Idle /\ updates > 0
    /\ updates' = updates - 1
    /\ update' = [update EXCEPT ![u] =
           [pc |-> "vertexes", list |-> list, at |-> 1, rel |-> 1, graph |-> published]]
    /\ UNCHANGED <<interfaceVars, graphs, published, request, answer>>
StartUpdate(u, list) ==
    /\ update[u] = Idle /\ updates > 0
    /\ updates' = updates - 1
    /\ graphs' = Append(graphs, NewEmptyGraph)
    /\ update' = [update EXCEPT ![u] =
           [pc |-> "vertexes", list |-> list, at |-> 1, rel |-> 1, graph |-> Len(graphs')]]
    /\ UNCHANGED <<interfaceVars, published, request, answer>>

Running(u, loop) == update[u].pc = loop /\ update[u].at <= Len(update[u].list)
Finished(u, loop) == update[u].pc = loop /\ update[u].at > Len(update[u].list)

\* ... adds every instance to it ...
AddInstance(u) ==
    /\ Running(u, "vertexes")
    /\ graphs' = [graphs EXCEPT ![update[u].graph] =
                      AddVertex(@, update[u].list[update[u].at])]
    /\ update' = [update EXCEPT ![u].at = @ + 1]
    /\ UNCHANGED <<interfaceVars, published, request, answer, updates>>

StartEdges(u) ==
    /\ Finished(u, "vertexes")
    /\ update' = [update EXCEPT ![u].pc = "edges", ![u].at = 1]
    /\ UNCHANGED <<interfaceVars, graphs, published, request, answer, updates>>

\* A relationship whose target is not in the graph is skipped.
Follow_Unchecked(g, t, name) == AddEdge(g, t, [t EXCEPT !.name = name])
Follow(g, t, name) ==
    IF GetVertex(g, name) = NONE THEN g ELSE AddEdge(g, t, GetVertex(g, name))

\* ... then their relationships, one after the other ...
FollowRelationship(u) ==
    /\ Running(u, "edges")
    /\ LET t == update[u].list[update[u].at]
       IN  /\ update[u].rel <= Len(t.rels)
           /\ graphs' = [graphs EXCEPT ![update[u].graph] = Follow(@, t, t.rels[update[u].rel])]
    /\ update' = [update EXCEPT ![u].rel = @ + 1]
    /\ UNCHANGED <<interfaceVars, published, request, answer, updates>>

NextInstance(u) ==
    /\ Running(u, "edges")
    /\ update[u].rel > Len(update[u].list[update[u].at].rels)
    /\ update' = [update EXCEPT ![u].at = @ + 1, ![u].rel = 1]
    /\ UNCHANGED <<interfaceVars, graphs, published, request, answer, updates>>

\* ... and replaces the graph of the server.
Publish_AfterReset(u) ==
    /\ Finished(u, "edges")
    /\ published' = Idle.graph
    /\ update' = [update EXCEPT ![u] = Idle]
    /\ UNCHANGED <<interfaceVars, graphs, request, answer, updates>>
Publish(u) ==
    /\ Finished(u, "edges")
    /\ published' = update[u].graph
    /\ update' = [update EXCEPT ![u] = Idle]
    /\ UNCHANGED <<interfaceVars, graphs, request, answer, updates>>

\* A handler loads the pointer to the graph, then walks through the graph.
TakeGraph(h) ==
    /\ request[h] = 0
    /\ request' = [request EXCEPT ![h] = published]
    /\ UNCHANGED <<interfaceVars, graphs, published, update, answer, updates>>

Respond(h) ==
    /\ request[h] # 0
    /\ answer' = [answer EXCEPT ![h] = MarshalJson(graphs[request[h]])]
    /\ request' = [request EXCEPT ![h] = 0]
    /\ UNCHANGED <<interfaceVars, graphs, published, update, updates>>

-----------------------------------------------------------------------------
(* The specification *)

Init ==
    /\ interfaceGraph = NewEmptyGraph /\ repeated = {}
    /\ graphs = <<NewEmptyGraph>> /\ published = 1
    /\ update = [u \in Updaters |-> Idle]
    /\ request = [h \in Handlers |-> 0]
    /\ answer = [h \in Handlers |-> NONE]
    /\ \/ calls = MaxCalls /\ updates = 0
       \/ calls = 0 /\ updates = MaxUpdates

Next ==
    \/ \E t \in Interfaces : AddInterface(t) \/ RemoveInterface(t)
    \/ \E s, t \in Interfaces : AddRelationship(s, t) \/ RemoveRelationship(s, t)
    \/ \E u \in Updaters, list \in Lists : StartUpdate(u, list)
    \/ \E u \in Updaters : AddInstance(u) \/ StartEdges(u)
                           \/ FollowRelationship(u) \/ NextInstance(u) \/ Publish(u)
    \/ \E h \in Handlers : TakeGraph(h) \/ Respond(h)

Spec == Init /\ [][Next]_vars

-----------------------------------------------------------------------------
(* Properties *)

\* The local variables of an update that is running.
UpdateType == [pc : {"vertexes", "edges"}, list : Lists, at : Nat \ {0}, rel : Nat \ {0},
               graph : DOMAIN graphs]

\* The variables hold values of their types; in particular maps and edges point to objects.
TypeOK ==
    /\ IsGraph(interfaceGraph, Twins) /\ calls \in 0..MaxCalls
    /\ LET names == {t.name : t \in Twins} IN repeated \subseteq names \X names
    /\ graphs \in Seq(Range(graphs)) /\ \A g \in Range(graphs) : IsGraph(g, Twins)
    /\ published \in DOMAIN graphs
    /\ update \in [Updaters -> {Idle} \union UpdateType]
    /\ \A u \in Updaters : update[u].at <= Len(update[u].list) + 1
    /\ request \in [Handlers -> {0} \union DOMAIN graphs]
    /\ answer \in [Handlers -> {NONE} \union SUBSET Twins]
    /\ updates \in 0..MaxUpdates

\* The graph of TwinInterfaces is a graph: whatever the order of calls, with vertices
\* named before they are added and objects that outlive their entry in the map, the twins
\* processed and the links change as the calls say, and RemoveEdge harms no other link.
Abstract == INSTANCE SimpleGraph WITH
    Twins <- Interfaces,
    nodes <- DOMAIN interfaceGraph.vertexes,
    processed <- Processed(interfaceGraph),
    links <- Links(interfaceGraph)
IsSimpleGraph == Abstract!Spec

\* RemoveVertex takes one edge out of each list only, and finds it by name. Still no edge to
\* an object that is gone stays behind, but between two names that have had more than one
\* edge: no other edge suffers from edges added twice, from lists RemoveEdge left with one
\* edge doubled, or from a vertex that was removed and is there again as a new object.
NoDanglingEdge == Dangling(interfaceGraph) \subseteq repeated

\* The relationships a list gives the vertex of name n, as positions, the instance's and the
\* relationship's, in the order in which both are walked through.
Relationships(list, n) ==
    LET named == {i \in DOMAIN list : list[i].name = n}
        there(i) == {k \in DOMAIN list[i].rels : \E t \in Range(list) : t.name = list[i].rels[k]}
    IN  UNION {{<<i, k>> : k \in there(i)} : i \in named}
Before(p, q) == p[1] < q[1] \/ (p[1] = q[1] /\ p[2] < q[2])

\* The edges of the vertex of name n stand for the relationships at positions rels, one for
\* one and in their order.
EdgesInOrder(g, list, n, rels) ==
    LET edges == Vertex(g, n).edges
    IN  \E at \in [DOMAIN edges -> rels] :
           /\ rels \subseteq Range(at)
           /\ \A x, y \in DOMAIN edges : x < y => Before(at[x], at[y])
           /\ \A x \in DOMAIN edges : edges[x] = g.vertexes[list[at[x][1]].rels[at[x][2]]]

\* The vertex of name n is the first instance of this name, and not a temporary one.
IsFirst(g, list, n) ==
    /\ ~Vertex(g, n).temporary
    /\ \E i \in DOMAIN list : /\ Vertex(g, n).twin = list[i] /\ list[i].name = n
                              /\ \A j \in 1..(i-1) : list[j].name # n

\* g is what a list of instances describes. No vertex is temporary, as the comment on
\* HasTemporaryInstance asks; of instances with one name the first is the vertex and all
\* contribute their relationships, except those to instances that are not in the list.
Describes(g, list) ==
    /\ DOMAIN g.vertexes = {t.name : t \in Range(list)}
    /\ \A n \in DOMAIN g.vertexes : /\ IsFirst(g, list, n)
                                    /\ EdgesInOrder(g, list, n, Relationships(list, n))

\* Wherever the goroutines are, the graph of the server is complete, and all of it is of
\* one list.
PublishedComplete ==
    \E list \in Lists \union {<<>>} : Describes(graphs[published], list)

\* Without a lock and with updates under way, the server answers each request with the
\* document of one list, the one it had when the handler took it.
Snapshot == INSTANCE SnapshotServer WITH
    document <- MarshalJson(graphs[published]),
    view <- [h \in Handlers |-> IF request[h] = 0 THEN NONE
                                ELSE MarshalJson(graphs[request[h]])]
ServesSnapshots == Snapshot!Spec

=============================================================================
