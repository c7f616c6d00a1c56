------------------------------ MODULE TwinGraph ------------------------------
(***************************************************************************)
(* The operations of package graph on a graph of twins.  The package has   *)
(* them twice, for TwinInstances and for TwinInterfaces, with the same     *)
(* bodies.  Vertices are objects in memory: the map of the graph and the   *)
(* edges of other vertices point to them, so that an object can outlive    *)
(* its entry in the map.  A pointer is the index of an object.             *)
(*                                                                         *)
(* A twin is a record with its name (metadata.name of an instance, spec.id *)
(* of an interface), rels, the names its relationships point to, and the   *)
(* rest of it.                                                             *)
(***************************************************************************)
EXTENDS Integers, SequencesExt

CONSTANT NONE   \* the absent twin

NewEmptyGraph == [numberOfVertex |-> 0, vertexes |-> <<>>, objects |-> <<>>]

HasVertex(g, name) == name \in DOMAIN g.vertexes
Vertex(g, name) == g.objects[g.vertexes[name]]
GetVertex(g, name) == IF HasVertex(g, name) THEN Vertex(g, name).twin ELSE NONE

\* A new vertex without edges.
NewVertex(g, t, temporary) ==
    [numberOfVertex |-> g.numberOfVertex + 1,
     vertexes |-> [n \in DOMAIN g.vertexes \union {t.name} |->
                      IF n = t.name THEN Len(g.objects) + 1 ELSE g.vertexes[n]],
     objects |-> Append(g.objects, [twin |-> t, edges |-> <<>>, temporary |-> temporary])]

\* A twin that is there stays as it is, unless it was only named by an edge so far.
AddVertex_NewObject(g, t) ==
    IF HasVertex(g, t.name) /\ ~Vertex(g, t.name).temporary THEN g ELSE NewVertex(g, t, FALSE)
AddVertex(g, t) ==
    IF ~HasVertex(g, t.name) THEN NewVertex(g, t, FALSE)
    ELSE IF Vertex(g, t.name).temporary
    THEN [g EXCEPT !.objects[g.vertexes[t.name]].twin = t,
                   !.objects[g.vertexes[t.name]].temporary = FALSE]
    ELSE g

AddTemporaryVertex(g, t) == IF HasVertex(g, t.name) THEN g ELSE NewVertex(g, t, TRUE)

\* The edge is counted as one more vertex.
AddEdge(g, s, t) ==
    LET both == AddTemporaryVertex(AddTemporaryVertex(g, s), t)
    IN  [both EXCEPT !.objects[both.vertexes[s.name]].edges =
                         Append(@, both.vertexes[t.name]),
                     !.numberOfVertex = @ + 1]

\* The first edge to a twin of this name, 0 if there is none.
FindEdgeIndex(g, edges, t) ==
    SelectInSeq(edges, LAMBDA e : g.objects[e].twin.name = t.name)

\* removeIndex, with the result assigned and with the result dropped: then the elements
\* have moved but the list has its old length.
RemoveIndex(edges, i) == IF i = 0 THEN edges ELSE RemoveAt(edges, i)
RemoveIndexInPlace(edges, i) ==
    IF i = 0 THEN edges ELSE Append(RemoveAt(edges, i), Last(edges))

\* The first edge to the twin goes from each of the vertices that are left.
RemoveVertex_KeepsEdges(g, t) ==
    [g EXCEPT !.vertexes = [n \in DOMAIN @ \ {t.name} |-> @[n]]]
RemoveVertex(g, t) ==
    LET left == [n \in DOMAIN g.vertexes \ {t.name} |-> g.vertexes[n]]
        remaining == {left[n] : n \in DOMAIN left}
    IN  IF ~HasVertex(g, t.name) THEN g
        ELSE [numberOfVertex |-> g.numberOfVertex - 1,
              vertexes |-> left,
              objects |-> [o \in DOMAIN g.objects |->
                  IF o \notin remaining THEN g.objects[o]
                  ELSE [g.objects[o] EXCEPT !.edges =
                            RemoveIndex(@, FindEdgeIndex(g, @, t))]]]

\* Edges from s to t, and edges from t to s, in this order.
RemoveEdgesBetween(g, s, t) ==
    IF ~HasVertex(g, s.name) THEN g
    ELSE [g EXCEPT !.objects[g.vertexes[s.name]].edges =
              RemoveIndexInPlace(@, FindEdgeIndex(g, @, t))]
RemoveEdge(g, s, t) == RemoveEdgesBetween(RemoveEdgesBetween(g, s, t), t, s)

\* MarshalJson: of each vertex in the map the twin itself, not the edges.
MarshalJson(g) == {Vertex(g, n).twin : n \in DOMAIN g.vertexes}

\* The maps point to objects, and under their names; edges point to objects.
IsGraph(g, twins) ==
    /\ DOMAIN g = {"numberOfVertex", "vertexes", "objects"} /\ g.numberOfVertex \in Int
    /\ g.vertexes \in [DOMAIN g.vertexes -> DOMAIN g.objects]
    /\ \A n \in DOMAIN g.vertexes : Vertex(g, n).twin.name = n
    /\ g.objects \in Seq([twin : twins, edges : Seq(DOMAIN g.objects), temporary : BOOLEAN])

\* The edges of the graph between vertices in the map, as pairs of names.
Links(g) ==
    {l \in (DOMAIN g.vertexes) \X (DOMAIN g.vertexes) :
        g.vertexes[l[2]] \in Range(Vertex(g, l[1]).edges)}

\* Vertices that stand for a twin that was added.
Processed(g) == {Vertex(g, n).twin : n \in {m \in DOMAIN g.vertexes : ~Vertex(g, m).temporary}}

\* The positions of the edges from one name to objects of another, in the map or not.
Edges(g, n, m) == {k \in DOMAIN Vertex(g, n).edges : g.objects[Vertex(g, n).edges[k]].twin.name = m}
NamePairs(g) == (DOMAIN g.vertexes) \X {x.twin.name : x \in Range(g.objects)}

\* The pairs of names with more than one such edge.
Repeated(g) == {l \in NamePairs(g) : \E j, k \in Edges(g, l[1], l[2]) : j # k}

\* The pairs with an edge to an object that is no longer in the map.
Dangling(g) ==
    {l \in NamePairs(g) : \E k \in Edges(g, l[1], l[2]) :
                             Vertex(g, l[1]).edges[k] \notin Range(g.vertexes)}
=============================================================================
