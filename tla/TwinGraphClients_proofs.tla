----------------------- MODULE TwinGraphClients_proofs -----------------------
(***************************************************************************)
(* Proofs about the two uses of package graph: the graph of TwinInterfaces *)
(* is a graph under any sequence of calls, and the server of the twin      *)
(* graph publishes complete graphs and answers from one of them, for any   *)
(* number of updates and requests under way and all lists of instances.    *)
(***************************************************************************)
EXTENDS TwinGraphClients, TwinGraph_proofs

-----------------------------------------------------------------------------
(* The invariant *)

\* The edges that would leave one behind are known before the vertex is removed.
SimpleInv == NoDanglingEdge /\ Repeated(interfaceGraph) \subseteq repeated

\* The relationships of the vertex of name n that were followed before position p.
Followed(list, n, p) == {q \in Relationships(list, n) : Before(q, p)}

\* The graph of an update has a vertex for every name before position i, which is the first
\* instance of it; then edges for the relationships before position p.
HasVertexes(g, list, i) ==
    /\ DOMAIN g.vertexes = {list[k].name : k \in 1..(i - 1)}
    /\ \A n \in DOMAIN g.vertexes : IsFirst(g, list, n) /\ Vertex(g, n).edges = <<>>
HasEdges(g, list, p) ==
    /\ DOMAIN g.vertexes = {t.name : t \in Range(list)}
    /\ \A n \in DOMAIN g.vertexes : /\ IsFirst(g, list, n)
                                    /\ EdgesInOrder(g, list, n, Followed(list, n, p))
GraphSoFar(w, g) ==
    /\ w.pc = "vertexes" => HasVertexes(g, w.list, w.at) /\ w.rel = 1
    /\ w.pc = "edges" => HasEdges(g, w.list, <<w.at, w.rel>>)

\* An update has its graph for itself: it is not published, nobody reads it, and no other
\* update builds it.
Private(u) ==
    /\ update[u].graph # published
    /\ \A h \in Handlers : request[h] # update[u].graph
    /\ \A v \in Updaters \ {u} : update[v] # Idle => update[v].graph # update[u].graph

ServerInv == \A u \in Updaters :
    update[u] # Idle => Private(u) /\ GraphSoFar(update[u], graphs[update[u].graph])

IInv == TypeOK /\ SimpleInv /\ ServerInv /\ PublishedComplete

-----------------------------------------------------------------------------
(* The graphs in memory *)

Graphs(gs) == gs \in Seq(Range(gs)) /\ \A g \in Range(gs) : IsGraph(g, Twins)

\* The empty graph is one.
LEMMA EmptyGraph ==
    /\ IsGraph(NewEmptyGraph, Twins) /\ DOMAIN NewEmptyGraph.vertexes = {}
    /\ Dangling(NewEmptyGraph) = {} /\ Repeated(NewEmptyGraph) = {}
    /\ Links(NewEmptyGraph) = {} /\ Processed(NewEmptyGraph) = {}
<1> DEFINE none == <<>>
<1>1. /\ DOMAIN NewEmptyGraph = {"numberOfVertex", "vertexes", "objects"}
      /\ NewEmptyGraph.numberOfVertex = 0
      /\ NewEmptyGraph.vertexes = none /\ NewEmptyGraph.objects = none
  BY DEF NewEmptyGraph
<1>2. DOMAIN none = {} /\ \A S : none \in Seq(S)
  OBVIOUS
<1>3. none \in [{} -> {}]
  OBVIOUS
<1> HIDE DEF none
<1>4. IsGraph(NewEmptyGraph, Twins)
  BY <1>1, <1>2, <1>3 DEF IsGraph
<1>5. QED
  BY <1>1, <1>2, <1>4 DEF Dangling, Repeated, NamePairs, Links, Processed

\* Each of the graphs is one.
LEMMA GraphsFacts ==
    ASSUME NEW gs, Graphs(gs)
    PROVE  /\ Len(gs) \in Nat /\ DOMAIN gs = 1..Len(gs)
           /\ \A o \in DOMAIN gs : IsGraph(gs[o], Twins)
<1>1. Len(gs) \in Nat /\ DOMAIN gs = 1..Len(gs)
  BY LenProperties DEF Graphs
<1>2. QED
  BY <1>1 DEF Graphs, Range

\* One graph changed.
LEMMA PutGraph ==
    ASSUME NEW gs, Graphs(gs), NEW o \in DOMAIN gs, NEW g, IsGraph(g, Twins),
           NEW hs, hs = [gs EXCEPT ![o] = g]
    PROVE  /\ Graphs(hs) /\ DOMAIN hs = DOMAIN gs /\ hs[o] = g
           /\ \A p \in DOMAIN gs : p # o => hs[p] = gs[p]
<1>1. DOMAIN gs = 1..Len(gs) /\ Len(gs) \in Nat
  BY GraphsFacts
<1>2. /\ DOMAIN hs = DOMAIN gs /\ hs[o] = g
      /\ \A p \in DOMAIN gs : p # o => hs[p] = gs[p]
  OBVIOUS
<1>3. \A p \in DOMAIN hs : IsGraph(hs[p], Twins)
  BY <1>2, GraphsFacts
<1> DEFINE V == Range(gs) \union {g}
<1>4. gs \in Seq(V) /\ g \in V
  BY SeqMonotonic DEF Graphs
<1> HIDE DEF V
<1>5. hs \in Seq(Range(hs))
  <2>1. hs \in Seq(V)
    BY <1>1, <1>4, ExceptSeq
  <2>2. QED
    BY <2>1, Retyped DEF Range
<1>6. QED
  BY <1>2, <1>3, <1>5 DEF Graphs, Range

\* One graph more.
LEMMA AppendGraph ==
    ASSUME NEW gs, Graphs(gs), NEW g, IsGraph(g, Twins), NEW hs, hs = Append(gs, g)
    PROVE  /\ Graphs(hs) /\ Len(hs) \in DOMAIN hs /\ Len(hs) \notin DOMAIN gs
           /\ DOMAIN gs \subseteq DOMAIN hs
           /\ hs[Len(hs)] = g /\ \A p \in DOMAIN gs : hs[p] = gs[p]
<1>1. DOMAIN gs = 1..Len(gs) /\ Len(gs) \in Nat
  BY GraphsFacts
<1> DEFINE V == Range(gs) \union {g}
<1>2. gs \in Seq(V) /\ g \in V
  BY SeqMonotonic DEF Graphs
<1> HIDE DEF V
<1>3. /\ hs \in Seq(V) /\ Len(hs) = Len(gs) + 1
      /\ \A p \in 1..Len(gs) : hs[p] = gs[p]
      /\ hs[Len(gs) + 1] = g
  BY <1>2, AppendProperties
<1>4. DOMAIN hs = 1..(Len(gs) + 1)
  BY <1>3, LenProperties
<1>5. \A p \in DOMAIN hs : IsGraph(hs[p], Twins)
  <2>1. \A p \in DOMAIN gs : IsGraph(gs[p], Twins)
    BY GraphsFacts
  <2>2. QED
    BY <1>1, <1>3, <1>4, <2>1
<1>6. hs \in Seq(Range(hs))
  BY <1>3, Retyped DEF Range
<1>7. Graphs(hs)
  BY <1>5, <1>6 DEF Graphs, Range
<1>8. QED
  BY <1>1, <1>3, <1>4, <1>7

-----------------------------------------------------------------------------
(* Lists of instances and their relationships *)

\* Names of relationships are lists.
LEMMA TwinFacts ==
    ASSUME NEW t \in Twins
    PROVE  Len(t.rels) \in Nat /\ DOMAIN t.rels = 1..Len(t.rels) /\ t # NONE
<1>1. t.rels \in Seq(Range(t.rels)) /\ t # NONE
  BY GraphAssumption
<1> DEFINE r == t.rels
<1>2. r \in Seq(Range(r))
  BY <1>1
<1> HIDE DEF r
<1>3. Len(r) \in Nat /\ DOMAIN r = 1..Len(r)
  BY <1>2, LenProperties
<1>4. QED
  BY <1>1, <1>3 DEF r

\* A list has twins at its positions.
LEMMA ListFacts ==
    ASSUME NEW list \in Seq(Twins)
    PROVE  /\ Len(list) \in Nat /\ DOMAIN list = 1..Len(list)
           /\ \A i \in DOMAIN list : list[i] \in Twins
           /\ Range(list) = {list[i] : i \in 1..Len(list)}
<1>1. Len(list) \in Nat /\ DOMAIN list = 1..Len(list)
  BY LenProperties
<1>2. QED
  BY <1>1, ElementOfSeq DEF Range

\* What the relationships of a vertex are.
LEMMA RelationshipFacts ==
    ASSUME NEW list, NEW n
    PROVE  /\ \A q \in Relationships(list, n) : q = <<q[1], q[2]>>
           /\ \A i, k : <<i, k>> \in Relationships(list, n) <=>
                 /\ i \in DOMAIN list /\ list[i].name = n /\ k \in DOMAIN list[i].rels
                 /\ \E t \in Range(list) : t.name = list[i].rels[k]
<1> DEFINE named == {i \in DOMAIN list : list[i].name = n}
           there(i) == {k \in DOMAIN list[i].rels :
                           \E t \in Range(list) : t.name = list[i].rels[k]}
           pairs(i) == {<<i, k>> : k \in there(i)}
<1>1. Relationships(list, n) = UNION {pairs(i) : i \in named}
  BY DEF Relationships
<1>2. \A q : q \in Relationships(list, n) <=> \E i \in named : q \in pairs(i)
  <2> HIDE DEF named, pairs
  <2>1. QED
    BY <1>1
<1>3. \A q : q \in Relationships(list, n) <=> \E i \in named : \E k \in there(i) : q = <<i, k>>
  <2> HIDE DEF named, there
  <2>1. QED
    BY <1>2
<1>4. \A i, k : <<i, k>> \in Relationships(list, n) <=> i \in named /\ k \in there(i)
  <2> HIDE DEF named, there
  <2>1. QED
    BY <1>3
<1>5. \A q \in Relationships(list, n) : q = <<q[1], q[2]>>
  <2> HIDE DEF named, there
  <2>1. QED
    BY <1>3
<1>6. QED
  BY <1>4, <1>5

\* At the start none was followed, at the end all were.
LEMMA FollowedEnds ==
    ASSUME NEW list \in Seq(Twins), NEW n
    PROVE  /\ Followed(list, n, <<1, 1>>) = {}
           /\ \A i, k \in Nat : i > Len(list) =>
                 Followed(list, n, <<i, k>>) = Relationships(list, n)
<1>1. ASSUME NEW q \in Relationships(list, n)
      PROVE  /\ q[1] \in Nat /\ 1 <= q[1] /\ q[1] <= Len(list)
             /\ q[2] \in Nat /\ 1 <= q[2]
  <2>1. q[1] \in DOMAIN list /\ q[2] \in DOMAIN list[q[1]].rels
    BY RelationshipFacts
  <2>2. list[q[1]] \in Twins /\ DOMAIN list = 1..Len(list) /\ Len(list) \in Nat
    BY <2>1, ListFacts
  <2>3. DOMAIN list[q[1]].rels = 1..Len(list[q[1]].rels) /\ Len(list[q[1]].rels) \in Nat
    BY <2>2, TwinFacts
  <2>4. QED
    BY <2>1, <2>2, <2>3
<1>2. Len(list) \in Nat
  BY ListFacts
<1>3. QED
  BY <1>1, <1>2 DEF Followed, Before

\* The next instance comes after all relationships of this one.
LEMMA FollowedNext ==
    ASSUME NEW list \in Seq(Twins), NEW n, NEW i \in 1..Len(list), NEW k \in Nat,
           k > Len(list[i].rels)
    PROVE  Followed(list, n, <<i + 1, 1>>) = Followed(list, n, <<i, k>>)
<1>1. ASSUME NEW q \in Relationships(list, n)
      PROVE  /\ q[1] \in Nat /\ q[2] \in Nat /\ 1 <= q[2]
             /\ q[1] = i => q[2] < k
  <2>1. q[1] \in DOMAIN list /\ q[2] \in DOMAIN list[q[1]].rels
    BY RelationshipFacts
  <2>2. list[q[1]] \in Twins /\ DOMAIN list = 1..Len(list) /\ Len(list) \in Nat
    BY <2>1, ListFacts
  <2>3. DOMAIN list[q[1]].rels = 1..Len(list[q[1]].rels) /\ Len(list[q[1]].rels) \in Nat
    BY <2>2, TwinFacts
  <2>4. QED
    BY <2>1, <2>2, <2>3
<1>2. i \in Nat
  BY ListFacts
<1>3. \A q \in Relationships(list, n) : Before(q, <<i + 1, 1>>) <=> Before(q, <<i, k>>)
  BY <1>1, <1>2 DEF Before
<1>4. QED
  BY <1>3 DEF Followed

\* One relationship further, the one here is followed too if it is one.
LEMMA FollowedHere ==
    ASSUME NEW list \in Seq(Twins), NEW n, NEW i \in 1..Len(list), NEW k \in Nat
    PROVE  Followed(list, n, <<i, k + 1>>) =
              Followed(list, n, <<i, k>>) \union (Relationships(list, n) \intersect {<<i, k>>})
<1>1. ASSUME NEW q \in Relationships(list, n)
      PROVE  q[1] \in Nat /\ q[2] \in Nat /\ q = <<q[1], q[2]>>
  <2>1. q[1] \in DOMAIN list /\ q[2] \in DOMAIN list[q[1]].rels /\ q = <<q[1], q[2]>>
    BY RelationshipFacts
  <2>2. list[q[1]] \in Twins /\ DOMAIN list = 1..Len(list) /\ Len(list) \in Nat
    BY <2>1, ListFacts
  <2>3. DOMAIN list[q[1]].rels = 1..Len(list[q[1]].rels) /\ Len(list[q[1]].rels) \in Nat
    BY <2>2, TwinFacts
  <2>4. QED
    BY <2>1, <2>2, <2>3
<1>2. i \in Nat
  BY ListFacts
<1>3. \A q \in Relationships(list, n) :
        Before(q, <<i, k + 1>>) <=> Before(q, <<i, k>>) \/ (q[1] = i /\ q[2] = k)
  BY <1>1, <1>2 DEF Before
<1>4. \A q \in Relationships(list, n) : q[1] = i /\ q[2] = k <=> q = <<i, k>>
  BY <1>1
<1>5. QED
  BY <1>3, <1>4 DEF Followed

-----------------------------------------------------------------------------
(* Building the graph of a list *)

\* The first pass: the next instance becomes the vertex of its name, unless there is one.
LEMMA InstanceAdded ==
    ASSUME NEW list \in Seq(Twins), NEW i \in 1..Len(list), NEW g, IsGraph(g, Twins),
           HasVertexes(g, list, i), NEW h, h = AddVertex(g, list[i])
    PROVE  IsGraph(h, Twins) /\ HasVertexes(h, list, i + 1)
<1> DEFINE t == list[i]
<1>1. Len(list) \in Nat /\ DOMAIN list = 1..Len(list) /\ t \in Twins
  BY ListFacts
<1>2. {list[k].name : k \in 1..((i + 1) - 1)} = DOMAIN g.vertexes \union {t.name}
  <2>1. 1..((i + 1) - 1) = 1..(i - 1) \union {i}
    BY <1>1
  <2>2. {list[k].name : k \in 1..((i + 1) - 1)} = {list[k].name : k \in 1..(i - 1)} \union {t.name}
    BY <2>1
  <2>3. QED
    BY <2>2 DEF HasVertexes
<1>3. CASE HasVertex(g, t.name)
  <2>1. t.name \in DOMAIN g.vertexes /\ ~Vertex(g, t.name).temporary
    BY <1>3 DEF HasVertex, HasVertexes, IsFirst
  <2>2. h = g
    BY <1>3, <2>1 DEF AddVertex
  <2>3. QED
    BY <1>2, <2>1, <2>2 DEF HasVertexes
<1>4. CASE ~HasVertex(g, t.name)
  <2> DEFINE b == FALSE
  <2>1. h = NewVertex(g, t, b) /\ b \in BOOLEAN
    BY <1>4 DEF AddVertex
  <2> HIDE DEF b
  <2>2. /\ IsGraph(h, Twins)
        /\ DOMAIN h.vertexes = DOMAIN g.vertexes \union {t.name}
        /\ Vertex(h, t.name) = [twin |-> t, edges |-> <<>>, temporary |-> b]
        /\ \A n \in DOMAIN g.vertexes : Vertex(h, n) = Vertex(g, n)
    BY <1>1, <1>4, <2>1, NewVertexGives
  <2>3. \A n \in DOMAIN g.vertexes : IsFirst(h, list, n) /\ Vertex(h, n).edges = <<>>
    <3>1. \A n \in DOMAIN g.vertexes : IsFirst(g, list, n) /\ Vertex(g, n).edges = <<>>
      BY DEF HasVertexes
    <3>2. ASSUME NEW n \in DOMAIN g.vertexes PROVE IsFirst(h, list, n)
      <4>1. Vertex(h, n) = Vertex(g, n) /\ IsFirst(g, list, n)
        BY <2>2, <3>1
      <4>2. QED
        BY <4>1 DEF IsFirst
    <3>3. QED
      BY <2>2, <3>1, <3>2
  <2>4. IsFirst(h, list, t.name) /\ Vertex(h, t.name).edges = <<>>
    <3>1. /\ Vertex(h, t.name).twin = list[i] /\ Vertex(h, t.name).edges = <<>>
          /\ ~Vertex(h, t.name).temporary
      BY <2>2 DEF b
    <3>2. \A j \in 1..(i - 1) : list[j].name # t.name
      BY <1>4 DEF HasVertex, HasVertexes
    <3>3. QED
      BY <1>1, <3>1, <3>2 DEF IsFirst
  <2>5. QED
    BY <1>2, <2>2, <2>3, <2>4 DEF HasVertexes
<1>5. QED
  BY <1>3, <1>4

\* Without edges nothing was followed.
LEMMA NoEdges ==
    ASSUME NEW g, NEW list, NEW n, Vertex(g, n).edges = <<>>
    PROVE  EdgesInOrder(g, list, n, {})
<1> DEFINE e == Vertex(g, n).edges
           none == [x \in {} |-> x]
<1>1. DOMAIN e = {}
  OBVIOUS
<1>2. none \in [{} -> {}]
  OBVIOUS
<1> HIDE DEF e, none
<1>3. none \in [DOMAIN e -> {}]
  BY <1>1, <1>2
<1>4. QED
  BY <1>1, <1>3 DEF EdgesInOrder, e

\* All of rels come before position p.
Precede(rels, p) == \A q \in rels : Before(q, p)

\* Whether edges are in order depends on the vertex's list and on the map only.
LEMMA SameEdges ==
    ASSUME NEW g, NEW h, NEW list, NEW n, NEW ps, EdgesInOrder(g, list, n, ps),
           h.vertexes = g.vertexes, Vertex(h, n).edges = Vertex(g, n).edges
    PROVE  EdgesInOrder(h, list, n, ps)
<1> DEFINE e == Vertex(g, n).edges
           m == g.vertexes
<1>1. /\ Vertex(h, n).edges = e /\ h.vertexes = m
      /\ \E at \in [DOMAIN e -> ps] :
           /\ ps \subseteq Range(at)
           /\ \A x, y \in DOMAIN e : x < y => Before(at[x], at[y])
           /\ \A x \in DOMAIN e : e[x] = m[list[at[x][1]].rels[at[x][2]]]
  BY DEF EdgesInOrder
<1> HIDE DEF e, m
<1>2. QED
  BY <1>1, Zenon DEF EdgesInOrder

\* One more edge for one more relationship, which comes after the others.
LEMMA EdgeInOrder ==
    ASSUME NEW g, NEW h, NEW list, NEW n, NEW ps, NEW S, NEW e \in Seq(S), NEW q,
           EdgesInOrder(g, list, n, ps), Precede(ps, q), Vertex(g, n).edges = e,
           h.vertexes = g.vertexes,
           Vertex(h, n).edges = Append(e, g.vertexes[list[q[1]].rels[q[2]]])
    PROVE  EdgesInOrder(h, list, n, ps \union {q})
<1> DEFINE c == g.vertexes[list[q[1]].rels[q[2]]]
<1>1. PICK at \in [DOMAIN e -> ps] :
           /\ ps \subseteq Range(at)
           /\ \A x, y \in DOMAIN e : x < y => Before(at[x], at[y])
           /\ \A x \in DOMAIN e : e[x] = g.vertexes[list[at[x][1]].rels[at[x][2]]]
  BY DEF EdgesInOrder
<1> DEFINE L == Len(e)
           f == Append(e, c)
<1>2. DOMAIN e = 1..L /\ L \in Nat
  BY LenProperties
<1>3. DOMAIN f = 1..(L + 1) /\ f[L + 1] = c /\ \A x \in 1..L : f[x] = e[x]
  <2> DEFINE V == S \union {c}
  <2>1. e \in Seq(V) /\ c \in V
    BY SeqMonotonic
  <2> HIDE DEF V, c
  <2>2. /\ f \in Seq(V) /\ Len(f) = L + 1 /\ f[L + 1] = c /\ \A x \in 1..L : f[x] = e[x]
    BY <2>1, AppendProperties
  <2> HIDE DEF f
  <2>3. DOMAIN f = 1..(L + 1)
    BY <2>2, LenProperties
  <2>4. QED
    BY <2>2, <2>3
<1>4. \A r \in ps : Before(r, q)
  BY DEF Precede
<1> HIDE DEF L, c, f
<1> DEFINE now == [x \in 1..(L + 1) |-> IF x = L + 1 THEN q ELSE at[x]]
<1>5. /\ now \in [1..(L + 1) -> ps \union {q}] /\ now[L + 1] = q
      /\ \A x \in 1..L : now[x] = at[x]
  <2>1. /\ L + 1 \in 1..(L + 1) /\ \A x \in 1..L : x \in 1..(L + 1) /\ x # L + 1
        /\ \A x \in 1..(L + 1) : x = L + 1 \/ x \in 1..L
    BY <1>2
  <2>2. \A x \in 1..L : at[x] \in ps
    BY <1>1, <1>2
  <2> DEFINE D == 1..(L + 1)
             r == ps \union {q}
             v(x) == IF x = L + 1 THEN q ELSE at[x]
  <2>3. /\ \A x \in D : v(x) \in r
        /\ v(L + 1) = q /\ \A x \in 1..L : v(x) = at[x]
    BY <2>1, <2>2
  <2>4. now = [x \in D |-> v(x)]
    OBVIOUS
  <2> HIDE DEF v, r, now
  <2>5. now \in [D -> r]
    BY <2>3, <2>4
  <2>6. now[L + 1] = q /\ \A x \in 1..L : now[x] = at[x]
    BY <2>1, <2>3, <2>4
  <2>7. QED
    BY <2>5, <2>6 DEF r
<1>6. DOMAIN now = 1..(L + 1) /\ DOMAIN at = 1..L
  BY <1>1, <1>2
<1> HIDE DEF now
<1>7. ps \union {q} \subseteq Range(now)
  <2>1. \A r \in ps : \E x \in 1..L : r = at[x]
    BY <1>1, <1>6 DEF Range
  <2>2. QED
    BY <1>2, <1>5, <1>6, <2>1 DEF Range
<1>8. ASSUME NEW x \in 1..(L + 1), NEW y \in 1..(L + 1), x < y PROVE Before(now[x], now[y])
  <2>1. x \in 1..L
    BY <1>2, <1>8
  <2>2. CASE y = L + 1
    BY <1>1, <1>2, <1>4, <1>5, <2>1, <2>2
  <2>3. CASE y \in 1..L
    BY <1>1, <1>2, <1>5, <1>8, <2>1, <2>3
  <2>4. QED
    BY <1>2, <2>2, <2>3
<1>9. ASSUME NEW x \in 1..(L + 1)
      PROVE  f[x] = h.vertexes[list[now[x][1]].rels[now[x][2]]]
  <2>1. CASE x = L + 1
    BY <1>3, <1>5, <2>1 DEF c
  <2>2. CASE x \in 1..L
    <3>1. f[x] = e[x] /\ now[x] = at[x] /\ x \in DOMAIN e
      BY <1>2, <1>3, <1>5, <2>2
    <3>2. e[x] = g.vertexes[list[at[x][1]].rels[at[x][2]]]
      BY <1>1, <3>1
    <3>3. QED
      BY <3>1, <3>2
  <2>3. x = L + 1 \/ x \in 1..L
    BY <1>2
  <2>4. QED
    BY <2>1, <2>2, <2>3
<1>10. Vertex(h, n).edges = f
  BY DEF f, c
<1>11. \E to \in [DOMAIN f -> ps \union {q}] :
          /\ ps \union {q} \subseteq Range(to)
          /\ \A x, y \in DOMAIN f : x < y => Before(to[x], to[y])
          /\ \A x \in DOMAIN f : f[x] = h.vertexes[list[to[x][1]].rels[to[x][2]]]
  <2> DEFINE D == DOMAIN f
             r == ps \union {q}
  <2>1. /\ now \in [D -> r] /\ r \subseteq Range(now)
        /\ \A x, y \in D : x < y => Before(now[x], now[y])
        /\ \A x \in D : f[x] = h.vertexes[list[now[x][1]].rels[now[x][2]]]
    <3>1. D = 1..(L + 1)
      BY <1>3
    <3>2. now \in [D -> r] /\ r \subseteq Range(now)
      BY <1>5, <1>7, <3>1
    <3> HIDE DEF D, r
    <3>3. \A x, y \in D : x < y => Before(now[x], now[y])
      BY <1>8, <3>1
    <3>4. \A x \in D : f[x] = h.vertexes[list[now[x][1]].rels[now[x][2]]]
      BY <1>9, <3>1
    <3>5. QED
      BY <3>2, <3>3, <3>4
  <2> HIDE DEF D, r
  <2>2. \E to \in [D -> r] :
          /\ r \subseteq Range(to)
          /\ \A x, y \in D : x < y => Before(to[x], to[y])
          /\ \A x \in D : f[x] = h.vertexes[list[to[x][1]].rels[to[x][2]]]
    BY <2>1, Zenon
  <2>3. QED
    BY <2>2 DEF D, r
<1>12. QED
  BY <1>10, <1>11 DEF EdgesInOrder

\* The second pass: an edge for the relationship, if there is an instance of its name.
LEMMA RelationshipFollowed ==
    ASSUME NEW list \in Seq(Twins), NEW i \in 1..Len(list), NEW k \in 1..Len(list[i].rels),
           NEW g, IsGraph(g, Twins), HasEdges(g, list, <<i, k>>),
           NEW s, s = list[i], NEW name, name = s.rels[k],
           NEW h, h = Follow(g, s, name)
    PROVE  IsGraph(h, Twins) /\ HasEdges(h, list, <<i, k + 1>>)
<1>1. /\ Len(list) \in Nat /\ DOMAIN list = 1..Len(list) /\ s \in Twins /\ s \in Range(list)
      /\ \A t \in Range(list) : t \in Twins
  BY ListFacts
<1>2. DOMAIN s.rels = 1..Len(s.rels) /\ Len(s.rels) \in Nat
  BY <1>1, TwinFacts
<1>3. ASSUME NEW n
      PROVE  Followed(list, n, <<i, k + 1>>) =
                Followed(list, n, <<i, k>>) \union (Relationships(list, n) \intersect {<<i, k>>})
  <2>1. k \in Nat
    BY <1>1, <1>2
  <2>2. QED
    BY <2>1, FollowedHere, SMTT(60)
<1>4. \A n : <<i, k>> \in Relationships(list, n) <=> s.name = n /\ name \in DOMAIN g.vertexes
  <2>1. \A n : <<i, k>> \in Relationships(list, n) <=>
                 /\ i \in DOMAIN list /\ s.name = n /\ k \in DOMAIN s.rels
                 /\ \E t \in Range(list) : t.name = name
    BY RelationshipFacts
  <2>2. QED
    BY <1>1, <1>2, <2>1 DEF HasEdges
<1>5. CASE name \notin DOMAIN g.vertexes
  <2>1. h = g
    BY <1>5 DEF Follow, GetVertex, HasVertex
  <2>2. \A n : Followed(list, n, <<i, k + 1>>) = Followed(list, n, <<i, k>>)
    BY <1>3, <1>4, <1>5
  <2>3. QED
    BY <2>1, <2>2 DEF HasEdges
<1>6. CASE name \in DOMAIN g.vertexes
  <2> DEFINE t == Vertex(g, name).twin
  <2>1. t \in Twins /\ t.name = name /\ t # NONE
    <3>1. Vertex(g, name) \in Objects(Twins, DOMAIN g.objects) /\ t.name = name
      BY <1>6, GraphFacts
    <3>2. t \in Twins
      BY <3>1 DEF Objects
    <3>3. QED
      BY <3>1, <3>2, TwinFacts
  <2>2. h = AddEdge(g, s, t)
    BY <1>6, <2>1 DEF Follow, GetVertex, HasVertex
  <2>3. s.name \in DOMAIN g.vertexes
    BY <1>1 DEF HasEdges
  <2> HIDE DEF t
  <2>4. /\ IsGraph(h, Twins) /\ h.vertexes = g.vertexes
        /\ \A n \in DOMAIN g.vertexes :
              /\ Vertex(h, n).twin = Vertex(g, n).twin
              /\ Vertex(h, n).temporary = Vertex(g, n).temporary
              /\ Vertex(h, n).edges = IF n = s.name
                                      THEN Append(Vertex(g, n).edges, g.vertexes[t.name])
                                      ELSE Vertex(g, n).edges
    <3>1. {s.name, t.name} \subseteq DOMAIN g.vertexes
      BY <1>6, <2>1, <2>3
    <3>2. s \in Twins /\ t \in Twins /\ h = AddEdge(g, s, t)
      BY <1>1, <2>1, <2>2
    <3>3. IsGraph(h, Twins) /\ Linked(g, h, s.name, t.name)
      BY <3>1, <3>2, AddEdgeGives
    <3>4. QED
      BY <3>3 DEF Linked
  <2>5. ASSUME NEW n \in DOMAIN h.vertexes PROVE IsFirst(h, list, n)
    <3>1. IsFirst(g, list, n)
      BY <2>4 DEF HasEdges
    <3>2. Vertex(h, n).twin = Vertex(g, n).twin /\ Vertex(h, n).temporary = Vertex(g, n).temporary
      BY <2>4
    <3>3. QED
      BY <3>1, <3>2 DEF IsFirst
  <2>6. ASSUME NEW n \in DOMAIN g.vertexes, n # s.name
        PROVE  EdgesInOrder(h, list, n, Followed(list, n, <<i, k + 1>>))
    <3>1. Followed(list, n, <<i, k + 1>>) = Followed(list, n, <<i, k>>)
      BY <1>3, <1>4, <2>6
    <3>2. Vertex(h, n).edges = Vertex(g, n).edges
      BY <2>4, <2>6
    <3>3. EdgesInOrder(g, list, n, Followed(list, n, <<i, k>>))
      BY DEF HasEdges
    <3> DEFINE rels == Followed(list, n, <<i, k>>)
    <3>4. EdgesInOrder(g, list, n, rels) /\ h.vertexes = g.vertexes
      BY <2>4, <3>3
    <3> HIDE DEF rels
    <3>5. EdgesInOrder(h, list, n, rels)
      BY <3>2, <3>4, SameEdges
    <3>6. QED
      BY <3>1, <3>5 DEF rels
  <2>7. EdgesInOrder(h, list, s.name, Followed(list, s.name, <<i, k + 1>>))
    <3> DEFINE ps == Followed(list, s.name, <<i, k>>)
               e == Vertex(g, s.name).edges
               D == DOMAIN g.objects
               p == <<i, k>>
    <3>1. Followed(list, s.name, <<i, k + 1>>) = ps \union {p}
      BY <1>3, <1>4, <1>6
    <3>2. EdgesInOrder(g, list, s.name, ps) /\ Precede(ps, p)
      BY <2>3 DEF Followed, HasEdges, Precede
    <3>3. e \in Seq(D)
      BY <2>3, GraphFacts DEF Objects
    <3>4. Vertex(h, s.name).edges = Append(e, g.vertexes[list[p[1]].rels[p[2]]])
      <4>1. Vertex(h, s.name).edges = Append(e, g.vertexes[name])
        BY <2>1, <2>3, <2>4
      <4>2. name = list[p[1]].rels[p[2]]
        <5>1. p[1] = i /\ p[2] = k
          OBVIOUS
        <5> HIDE DEF p
        <5>2. QED
          BY <5>1
      <4> HIDE DEF e, p
      <4>3. QED
        BY <4>1, <4>2
    <3> HIDE DEF ps, e, D, p
    <3>5. Vertex(g, s.name).edges = e /\ h.vertexes = g.vertexes
      BY <2>4 DEF e
    <3>6. EdgesInOrder(h, list, s.name, ps \union {p})
      BY <3>2, <3>3, <3>4, <3>5, EdgeInOrder
    <3>7. QED
      BY <3>1, <3>6
  <2>8. \A n \in DOMAIN g.vertexes : EdgesInOrder(h, list, n, Followed(list, n, <<i, k + 1>>))
    BY <2>6, <2>7
  <2>9. QED
    BY <2>4, <2>5, <2>8 DEF HasEdges
<1>7. QED
  BY <1>5, <1>6

\* The document of a graph is the list's: of instances with one name the first.
LEMMA DocumentOf ==
    ASSUME NEW list \in Seq(Twins), NEW g, Describes(g, list)
    PROVE  MarshalJson(g) = Snapshot!Document(list)
<1> DEFINE first == {i \in DOMAIN list : \A k \in 1..(i - 1) : list[k].name # list[i].name}
<1>1. Snapshot!Document(list) = {list[i] : i \in first}
  BY DEF Snapshot!Document
<1>2. DOMAIN list = 1..Len(list) /\ Len(list) \in Nat /\ Range(list) = {list[i] : i \in DOMAIN list}
  BY ListFacts
<1>3. ASSUME NEW n \in DOMAIN g.vertexes
      PROVE  \E i \in first : Vertex(g, n).twin = list[i] /\ list[i].name = n
  <2>1. PICK i \in DOMAIN list : /\ Vertex(g, n).twin = list[i] /\ list[i].name = n
                                 /\ \A j \in 1..(i - 1) : list[j].name # n
    BY DEF Describes, IsFirst
  <2>2. i \in first
    BY <2>1
  <2>3. QED
    BY <2>1, <2>2
<1>4. ASSUME NEW i \in first PROVE \E n \in DOMAIN g.vertexes : Vertex(g, n).twin = list[i]
  <2>1. list[i].name \in DOMAIN g.vertexes
    BY <1>2 DEF Describes
  <2>2. PICK j \in first : /\ Vertex(g, list[i].name).twin = list[j]
                           /\ list[j].name = list[i].name
    BY <1>3, <2>1
  <2>3. ~(i < j) /\ ~(j < i)
    BY <1>2, <2>2
  <2>4. i = j
    BY <1>2, <2>3
  <2>5. QED
    BY <2>1, <2>2, <2>4
<1> HIDE DEF first
<1>5. MarshalJson(g) = {list[i] : i \in first}
  BY <1>3, <1>4 DEF MarshalJson
<1>6. QED
  BY <1>1, <1>5

-----------------------------------------------------------------------------
(* Types *)

\* What the type invariant says of an update that is running.
LEMMA UpdateFacts ==
    ASSUME TypeOK, NEW u \in Updaters, update[u] # Idle
    PROVE  /\ update[u] \in UpdateType
           /\ update[u].list \in Lists /\ update[u].list \in Seq(Twins)
           /\ update[u].at \in Nat \ {0} /\ update[u].at <= Len(update[u].list) + 1
           /\ update[u].rel \in Nat \ {0}
           /\ update[u].graph \in DOMAIN graphs /\ update[u].pc \in {"vertexes", "edges"}
           /\ Graphs(graphs) /\ IsGraph(graphs[update[u].graph], Twins)
<1>1. update[u] \in UpdateType /\ update[u].at <= Len(update[u].list) + 1 /\ Graphs(graphs)
  BY DEF TypeOK, Graphs
<1>2. /\ update[u].list \in Lists /\ update[u].at \in Nat \ {0} /\ update[u].rel \in Nat \ {0}
      /\ update[u].graph \in DOMAIN graphs /\ update[u].pc \in {"vertexes", "edges"}
  BY <1>1 DEF UpdateType
<1>3. update[u].list \in Seq(Twins)
  BY <1>2, GraphAssumption
<1>4. QED
  BY <1>1, <1>2, <1>3, GraphsFacts

\* An update that runs is not idle, and is at an instance of its list.
LEMMA RunningFacts ==
    ASSUME TypeOK, NEW u \in Updaters, NEW loop \in {"vertexes", "edges"}, Running(u, loop)
    PROVE  /\ update[u] # Idle /\ update[u].pc = loop
           /\ update[u].at \in 1..Len(update[u].list)
           /\ update[u].list[update[u].at] \in Twins
<1>1. update[u] # Idle /\ update[u].pc = loop /\ update[u].at <= Len(update[u].list)
  BY DEF Running, Idle
<1>2. update[u].list \in Seq(Twins) /\ update[u].at \in Nat \ {0}
  BY <1>1, UpdateFacts
<1> DEFINE list == update[u].list
           i == update[u].at
<1>3. list \in Seq(Twins) /\ i \in Nat \ {0} /\ i <= Len(list)
  BY <1>1, <1>2
<1> HIDE DEF list, i
<1>4. i \in 1..Len(list) /\ list[i] \in Twins
  BY <1>3, ListFacts
<1>5. QED
  BY <1>1, <1>4 DEF list, i

\* When a loop has ended all the list is done.
LEMMA FinishedFacts ==
    ASSUME TypeOK, NEW u \in Updaters, NEW loop \in {"vertexes", "edges"}, Finished(u, loop)
    PROVE  /\ update[u] # Idle /\ update[u].pc = loop
           /\ update[u].at = Len(update[u].list) + 1
<1>1. update[u] # Idle /\ update[u].pc = loop /\ update[u].at > Len(update[u].list)
  BY DEF Finished, Idle
<1>2. /\ update[u].at \in Nat \ {0} /\ update[u].at <= Len(update[u].list) + 1
      /\ Len(update[u].list) \in Nat
  BY <1>1, UpdateFacts, ListFacts
<1>3. QED
  BY <1>1, <1>2

\* A step of one update keeps the types if its new record and the graphs have theirs.
LEMMA UpdateKeepsType ==
    ASSUME TypeOK, NEW u \in Updaters, NEW w, w \in {Idle} \union UpdateType',
           w.at <= Len(w.list) + 1, update' = [update EXCEPT ![u] = w],
           Graphs(graphs'), DOMAIN graphs \subseteq DOMAIN graphs',
           published' \in DOMAIN graphs', updates' \in 0..MaxUpdates,
           UNCHANGED <<interfaceVars, request, answer>>
    PROVE  TypeOK'
<1>1. UpdateType \subseteq UpdateType'
  BY DEF UpdateType
<1>2. update' \in [Updaters -> {Idle} \union UpdateType']
  BY <1>1 DEF TypeOK
<1>3. \A v \in Updaters : update'[v].at <= Len(update'[v].list) + 1
  BY DEF TypeOK
<1>4. request' \in [Handlers -> {0} \union DOMAIN graphs']
  BY DEF TypeOK
<1>5. QED
  BY <1>2, <1>3, <1>4 DEF TypeOK, Graphs, interfaceVars

-----------------------------------------------------------------------------
(* Steps of an update *)

\* Building: record w follows, on the graph of this update and on no other.
Builds(u, w) ==
    /\ update[u] # Idle /\ w \in UpdateType'
    /\ w.list = update[u].list /\ w.graph = update[u].graph /\ w.at <= Len(w.list) + 1
    /\ update' = [update EXCEPT ![u] = w]
    /\ Graphs(graphs') /\ DOMAIN graphs' = DOMAIN graphs
    /\ \A o \in DOMAIN graphs : o # w.graph => graphs'[o] = graphs[o]
    /\ GraphSoFar(w, graphs'[w.graph])
    /\ UNCHANGED <<interfaceVars, published, request, answer, updates>>

\* An update builds if its loops move on as described and what it has built is right.
LEMMA MoveBuilds ==
    ASSUME TypeOK, NEW u \in Updaters, update[u] # Idle,
           NEW pass \in {"vertexes", "edges"}, NEW i \in Nat \ {0}, NEW k \in Nat \ {0},
           i <= Len(update[u].list) + 1,
           NEW w, w = [update[u] EXCEPT !.pc = pass, !.at = i, !.rel = k],
           update' = [update EXCEPT ![u] = w],
           NEW h, IsGraph(h, Twins), graphs' = [graphs EXCEPT ![update[u].graph] = h],
           pass = "vertexes" => HasVertexes(h, update[u].list, i) /\ k = 1,
           pass = "edges" => HasEdges(h, update[u].list, <<i, k>>),
           UNCHANGED <<interfaceVars, published, request, answer, updates>>
    PROVE  Builds(u, w)
<1> DEFINE v == update[u]
           mine == v.graph
<1>1. /\ v \in UpdateType /\ v.list \in Seq(Twins) /\ mine \in DOMAIN graphs /\ Graphs(graphs)
  BY UpdateFacts
<1>2. /\ Graphs(graphs') /\ DOMAIN graphs' = DOMAIN graphs /\ graphs'[mine] = h
      /\ \A p \in DOMAIN graphs : p # mine => graphs'[p] = graphs[p]
  <2>1. graphs' = [graphs EXCEPT ![mine] = h]
    OBVIOUS
  <2> HIDE DEF mine
  <2>2. ASSUME NEW gs, gs = graphs'
        PROVE  /\ Graphs(gs) /\ DOMAIN gs = DOMAIN graphs /\ gs[mine] = h
               /\ \A p \in DOMAIN graphs : p # mine => gs[p] = graphs[p]
    <3>1. Graphs(graphs) /\ mine \in DOMAIN graphs /\ IsGraph(h, Twins)
          /\ gs = [graphs EXCEPT ![mine] = h]
      BY <1>1, <2>1, <2>2
    <3>2. QED
      BY <3>1, PutGraph
  <2>3. QED
    BY <2>2
<1>3. w \in UpdateType /\ w.pc = pass /\ w.at = i /\ w.rel = k /\ w.list = v.list /\ w.graph = mine
  <2> HIDE DEF v
  <2>1. w = [v EXCEPT !.pc = pass, !.at = i, !.rel = k]
    BY DEF v
  <2>2. QED
    BY <1>1, <2>1 DEF UpdateType
<1>4. w \in UpdateType'
  BY <1>2, <1>3 DEF UpdateType
<1>5. GraphSoFar(w, graphs'[w.graph])
  BY <1>2, <1>3 DEF GraphSoFar
<1>6. QED
  BY <1>2, <1>3, <1>4, <1>5 DEF Builds

\* The first pass.
LEMMA AddInstanceBuilds ==
    ASSUME IInv, NEW u \in Updaters, AddInstance(u)
    PROVE  \E w : Builds(u, w)
<1> DEFINE v == update[u]
           o == v.graph
           g == graphs[o]
           h == AddVertex(g, v.list[v.at])
           a == v.at + 1
           w == [v EXCEPT !.pc = v.pc, !.at = a, !.rel = v.rel]
<1>1. TypeOK /\ Running(u, "vertexes") /\ "vertexes" \in {"vertexes", "edges"}
  BY DEF IInv, AddInstance
<1>2. /\ v # Idle /\ v.pc = "vertexes" /\ v.at \in 1..Len(v.list)
  BY <1>1, RunningFacts
<1>3. /\ v \in UpdateType /\ v.list \in Seq(Twins) /\ v.at \in Nat \ {0} /\ v.rel \in Nat \ {0}
      /\ o \in DOMAIN graphs /\ IsGraph(g, Twins) /\ Len(v.list) \in Nat
  BY <1>1, <1>2, UpdateFacts, ListFacts
<1>4. HasVertexes(g, v.list, v.at) /\ v.rel = 1
  BY <1>2 DEF IInv, ServerInv, GraphSoFar
<1>5. IsGraph(h, Twins) /\ HasVertexes(h, v.list, a)
  <2> DEFINE l == v.list
             i == v.at
  <2>1. /\ l \in Seq(Twins) /\ i \in 1..Len(l) /\ HasVertexes(g, l, i) /\ h = AddVertex(g, l[i])
        /\ a = i + 1
    BY <1>2, <1>3, <1>4
  <2> HIDE DEF l, i, g, h, a
  <2>2. IsGraph(h, Twins) /\ HasVertexes(h, l, i + 1)
    BY <1>3, <2>1, InstanceAdded
  <2>3. QED
    BY <2>1, <2>2 DEF l
<1>6. update' = [update EXCEPT ![u] = w]
  <2>1. w = [v EXCEPT !.at = a]
    BY <1>3 DEF UpdateType
  <2>2. update' = [update EXCEPT ![u].at = @ + 1]
    BY DEF AddInstance
  <2> HIDE DEF w
  <2>3. QED
    BY <2>1, <2>2
<1>7. graphs' = [graphs EXCEPT ![o] = h]
  BY DEF AddInstance
<1>8. UNCHANGED <<interfaceVars, published, request, answer, updates>>
  BY DEF AddInstance
<1>9. a \in Nat \ {0} /\ a <= Len(v.list) + 1
  BY <1>2, <1>3
<1> HIDE DEF h, a
<1>10. Builds(u, w)
  BY <1>1, <1>2, <1>3, <1>4, <1>5, <1>6, <1>7, <1>8, <1>9, MoveBuilds
<1>11. QED
  BY <1>10

\* Between the passes: nothing was followed yet.
LEMMA StartEdgesBuilds ==
    ASSUME IInv, NEW u \in Updaters, StartEdges(u)
    PROVE  \E w : Builds(u, w)
<1> DEFINE v == update[u]
           o == v.graph
           g == graphs[o]
           w == [v EXCEPT !.pc = "edges", !.at = 1, !.rel = v.rel]
<1>1. TypeOK /\ Finished(u, "vertexes") /\ "vertexes" \in {"vertexes", "edges"}
  BY DEF IInv, StartEdges
<1>2. /\ v # Idle /\ v.pc = "vertexes" /\ v.at = Len(v.list) + 1
  BY <1>1, FinishedFacts
<1>3. /\ v \in UpdateType /\ v.list \in Seq(Twins) /\ v.rel \in Nat \ {0}
      /\ o \in DOMAIN graphs /\ IsGraph(g, Twins) /\ Len(v.list) \in Nat
  BY <1>1, <1>2, UpdateFacts, ListFacts
<1>4. HasVertexes(g, v.list, v.at) /\ v.rel = 1
  BY <1>2 DEF IInv, ServerInv, GraphSoFar
<1>5. HasEdges(g, v.list, <<1, 1>>)
  <2> DEFINE l == v.list
  <2>1. l \in Seq(Twins) /\ HasVertexes(g, l, Len(l) + 1) /\ Len(l) \in Nat
    BY <1>2, <1>3, <1>4
  <2> HIDE DEF l, g
  <2>2. DOMAIN g.vertexes = {t.name : t \in Range(l)}
    <3>1. (Len(l) + 1) - 1 = Len(l) /\ Range(l) = {l[i] : i \in 1..Len(l)}
      BY <2>1, ListFacts
    <3>2. DOMAIN g.vertexes = {l[i].name : i \in 1..Len(l)}
      BY <2>1, <3>1 DEF HasVertexes
    <3>3. QED
      BY <3>1, <3>2
  <2>3. ASSUME NEW n \in DOMAIN g.vertexes
        PROVE  IsFirst(g, l, n) /\ EdgesInOrder(g, l, n, Followed(l, n, <<1, 1>>))
    <3>1. IsFirst(g, l, n) /\ Vertex(g, n).edges = <<>>
      BY <2>1 DEF HasVertexes
    <3>2. Followed(l, n, <<1, 1>>) = {}
      BY <2>1, FollowedEnds
    <3>3. QED
      BY <3>1, <3>2, NoEdges
  <2>4. HasEdges(g, l, <<1, 1>>)
    BY <2>2, <2>3 DEF HasEdges
  <2>5. QED
    BY <2>4 DEF l
<1>6. update' = [update EXCEPT ![u] = w]
  <2>1. w = [v EXCEPT !.pc = "edges", !.at = 1]
    BY <1>3 DEF UpdateType
  <2>2. update' = [update EXCEPT ![u].pc = "edges", ![u].at = 1]
    BY DEF StartEdges
  <2>3. update' = [update EXCEPT ![u] = [v EXCEPT !.pc = "edges", !.at = 1]]
    BY <2>2
  <2> HIDE DEF w
  <2>4. QED
    BY <2>1, <2>3
<1>7. graphs' = [graphs EXCEPT ![o] = g]
  <2>1. graphs' = graphs
    BY DEF StartEdges
  <2>2. graphs = [i \in DOMAIN graphs |-> graphs[i]]
    BY <1>1 DEF TypeOK
  <2>3. QED
    BY <1>3, <2>1, <2>2
<1>8. UNCHANGED <<interfaceVars, published, request, answer, updates>>
  BY DEF StartEdges
<1> DEFINE a == 1
<1>9. /\ a \in Nat \ {0} /\ a <= Len(v.list) + 1 /\ w = [v EXCEPT !.pc = "edges", !.at = a, !.rel = v.rel]
      /\ HasEdges(g, v.list, <<a, v.rel>>) /\ "edges" \in {"vertexes", "edges"}
      /\ "edges" # "vertexes"
  BY <1>3, <1>4, <1>5
<1> HIDE DEF g, a, w
<1>10. Builds(u, w)
  BY <1>1, <1>2, <1>3, <1>6, <1>7, <1>8, <1>9, MoveBuilds
<1>11. QED
  BY <1>10

\* The second pass.
LEMMA FollowBuilds ==
    ASSUME IInv, NEW u \in Updaters, FollowRelationship(u)
    PROVE  \E w : Builds(u, w)
<1> DEFINE v == update[u]
           o == v.graph
           g == graphs[o]
           s == v.list[v.at]
           h == Follow(g, s, s.rels[v.rel])
           a == v.rel + 1
           w == [v EXCEPT !.pc = v.pc, !.at = v.at, !.rel = a]
<1>1. TypeOK /\ Running(u, "edges") /\ "edges" \in {"vertexes", "edges"} /\ v.rel <= Len(s.rels)
  BY DEF IInv, FollowRelationship
<1>2. /\ v # Idle /\ v.pc = "edges" /\ v.at \in 1..Len(v.list) /\ s \in Twins
  BY <1>1, RunningFacts
<1>3. /\ v \in UpdateType /\ v.list \in Seq(Twins) /\ v.at \in Nat \ {0} /\ v.rel \in Nat \ {0}
      /\ o \in DOMAIN graphs /\ IsGraph(g, Twins) /\ Len(v.list) \in Nat /\ Len(s.rels) \in Nat
  BY <1>1, <1>2, UpdateFacts, ListFacts, TwinFacts
<1>4. HasEdges(g, v.list, <<v.at, v.rel>>)
  BY <1>2 DEF IInv, ServerInv, GraphSoFar
<1>5. IsGraph(h, Twins) /\ HasEdges(h, v.list, <<v.at, a>>)
  <2> DEFINE l == v.list
             x == v.at
             y == v.rel
             name == s.rels[y]
  <2>1. /\ l \in Seq(Twins) /\ x \in 1..Len(l) /\ HasEdges(g, l, <<x, y>>) /\ s = l[x]
        /\ y \in 1..Len(l[x].rels) /\ h = Follow(g, s, name) /\ a = y + 1 /\ name = s.rels[y]
    BY <1>1, <1>2, <1>3, <1>4
  <2> HIDE DEF l, x, y, g, h, a, s, name
  <2>2. IsGraph(h, Twins) /\ HasEdges(h, l, <<x, y + 1>>)
    BY <1>3, <2>1, RelationshipFollowed
  <2>3. QED
    BY <2>1, <2>2 DEF l, x
<1>6. update' = [update EXCEPT ![u] = w]
  <2>1. w = [v EXCEPT !.rel = a]
    BY <1>3 DEF UpdateType
  <2>2. update' = [update EXCEPT ![u].rel = @ + 1]
    BY DEF FollowRelationship
  <2> HIDE DEF w
  <2>3. QED
    BY <2>1, <2>2
<1>7. graphs' = [graphs EXCEPT ![o] = h]
  BY DEF FollowRelationship
<1>8. UNCHANGED <<interfaceVars, published, request, answer, updates>>
  BY DEF FollowRelationship
<1>9. a \in Nat \ {0} /\ v.at <= Len(v.list) + 1 /\ "edges" # "vertexes"
  BY <1>2, <1>3
<1> HIDE DEF h, a
<1>10. Builds(u, w)
  BY <1>1, <1>2, <1>3, <1>5, <1>6, <1>7, <1>8, <1>9, MoveBuilds
<1>11. QED
  BY <1>10

\* From one instance to the next.
LEMMA NextInstanceBuilds ==
    ASSUME IInv, NEW u \in Updaters, NextInstance(u)
    PROVE  \E w : Builds(u, w)
<1> DEFINE v == update[u]
           o == v.graph
           g == graphs[o]
           a == v.at + 1
           b == 1
           w == [v EXCEPT !.pc = v.pc, !.at = a, !.rel = b]
<1>1. /\ TypeOK /\ Running(u, "edges") /\ "edges" \in {"vertexes", "edges"}
      /\ v.rel > Len(v.list[v.at].rels)
  BY DEF IInv, NextInstance
<1>2. /\ v # Idle /\ v.pc = "edges" /\ v.at \in 1..Len(v.list)
  BY <1>1, RunningFacts
<1>3. /\ v \in UpdateType /\ v.list \in Seq(Twins) /\ v.at \in Nat \ {0} /\ v.rel \in Nat \ {0}
      /\ o \in DOMAIN graphs /\ IsGraph(g, Twins) /\ Len(v.list) \in Nat
  BY <1>1, <1>2, UpdateFacts, ListFacts
<1>4. HasEdges(g, v.list, <<v.at, v.rel>>)
  BY <1>2 DEF IInv, ServerInv, GraphSoFar
<1>5. HasEdges(g, v.list, <<a, b>>)
  <2> DEFINE l == v.list
             x == v.at
             y == v.rel
  <2>1. /\ l \in Seq(Twins) /\ x \in 1..Len(l) /\ HasEdges(g, l, <<x, y>>) /\ y \in Nat
        /\ y > Len(l[x].rels) /\ a = x + 1 /\ b = 1
    BY <1>1, <1>2, <1>3, <1>4
  <2> HIDE DEF l, x, y, g, a, b
  <2>2. \A n : Followed(l, n, <<x + 1, 1>>) = Followed(l, n, <<x, y>>)
    BY <2>1, FollowedNext
  <2>3. HasEdges(g, l, <<x + 1, 1>>)
    BY <2>1, <2>2 DEF HasEdges
  <2>4. QED
    BY <2>1, <2>3 DEF l
<1>6. update' = [update EXCEPT ![u] = w]
  <2>1. w = [v EXCEPT !.at = a, !.rel = b]
    BY <1>3 DEF UpdateType
  <2>2. update' = [update EXCEPT ![u].at = @ + 1, ![u].rel = 1]
    BY DEF NextInstance
  <2>3. update' = [update EXCEPT ![u] = [v EXCEPT !.at = a, !.rel = b]]
    BY <2>2
  <2> HIDE DEF w
  <2>4. QED
    BY <2>1, <2>3
<1>7. graphs' = [graphs EXCEPT ![o] = g]
  <2>1. graphs' = graphs
    BY DEF NextInstance
  <2>2. graphs = [i \in DOMAIN graphs |-> graphs[i]]
    BY <1>1 DEF TypeOK
  <2>3. QED
    BY <1>3, <2>1, <2>2
<1>8. UNCHANGED <<interfaceVars, published, request, answer, updates>>
  BY DEF NextInstance
<1>9. /\ a \in Nat \ {0} /\ a <= Len(v.list) + 1 /\ b \in Nat \ {0} /\ "edges" # "vertexes"
  BY <1>2, <1>3
<1> HIDE DEF g, a, b
<1>10. Builds(u, w)
  BY <1>1, <1>2, <1>3, <1>5, <1>6, <1>7, <1>8, <1>9, MoveBuilds
<1>11. QED
  BY <1>10

\* What the server shows stays: the graph that is published and those that are read.
SameViews ==
    /\ UNCHANGED <<published, request, answer>> /\ graphs'[published] = graphs[published]
    /\ \A h \in Handlers : request[h] # 0 => graphs'[request[h]] = graphs[request[h]]

\* Building harms no graph that is in use, nor that of another update.
LEMMA BuildsKeeps ==
    ASSUME IInv, NEW u \in Updaters, NEW w, Builds(u, w)
    PROVE  IInv' /\ SameViews
<1>1. /\ TypeOK /\ update[u] # Idle /\ Private(u)
      /\ update \in [Updaters -> {Idle} \union UpdateType]
      /\ published \in DOMAIN graphs /\ request \in [Handlers -> {0} \union DOMAIN graphs]
  BY DEF IInv, ServerInv, TypeOK, Builds
<1>2. /\ w \in UpdateType' /\ w.graph = update[u].graph /\ w.at <= Len(w.list) + 1
      /\ update' = [update EXCEPT ![u] = w] /\ Graphs(graphs') /\ DOMAIN graphs' = DOMAIN graphs
      /\ UNCHANGED <<interfaceVars, published, request, answer, updates>>
      /\ GraphSoFar(w, graphs'[w.graph])
  BY DEF Builds
<1>3. TypeOK'
  BY <1>1, <1>2, UpdateKeepsType DEF TypeOK
<1>4. SameViews
  BY <1>1, <1>2 DEF SameViews, Private, Builds
<1>5. SimpleInv' /\ PublishedComplete'
  BY <1>2, <1>4 DEF IInv, SimpleInv, NoDanglingEdge, PublishedComplete, SameViews, interfaceVars
<1>6. /\ update'[u] = w /\ \A v \in Updaters : v # u => update'[v] = update[v]
  BY <1>1, <1>2
<1>7. ASSUME NEW v \in Updaters, update'[v] # Idle
      PROVE  Private(v)' /\ GraphSoFar(update'[v], graphs'[update'[v].graph])
  <2>1. CASE v = u
    <3>1. Private(u)'
      BY <1>1, <1>2, <1>6 DEF Private
    <3>2. QED
      BY <1>2, <1>6, <2>1, <3>1
  <2>2. CASE v # u
    <3>1. /\ update'[v] = update[v] /\ update[v] # Idle /\ Private(v)
          /\ GraphSoFar(update[v], graphs[update[v].graph])
      BY <1>6, <1>7, <2>2 DEF IInv, ServerInv
    <3>2. update[v].graph # w.graph
      BY <1>1, <1>2, <2>2, <3>1 DEF Private
    <3>3. update[v].graph \in DOMAIN graphs
      BY <1>1, <3>1, UpdateFacts
    <3>4. graphs'[update[v].graph] = graphs[update[v].graph]
      BY <3>2, <3>3 DEF Builds
    <3>5. Private(v)'
      BY <1>2, <1>6, <3>1, <3>2 DEF Private
    <3>6. QED
      BY <3>1, <3>4, <3>5
  <2>3. QED
    BY <2>1, <2>2
<1>8. ServerInv'
  BY <1>7 DEF ServerInv
<1>9. QED
  BY <1>3, <1>4, <1>5, <1>8 DEF IInv

\* A new update starts from a new empty graph.
LEMMA StartKeeps ==
    ASSUME IInv, NEW u \in Updaters, NEW list \in Lists, StartUpdate(u, list)
    PROVE  IInv' /\ SameViews
<1> DEFINE w == [pc |-> "vertexes", list |-> list, at |-> 1, rel |-> 1, graph |-> Len(graphs')]
<1>1. /\ TypeOK /\ update[u] = Idle /\ updates > 0 /\ updates' = updates - 1
      /\ graphs' = Append(graphs, NewEmptyGraph) /\ update' = [update EXCEPT ![u] = w]
      /\ UNCHANGED <<interfaceVars, published, request, answer>>
  BY DEF IInv, StartUpdate
<1>2. /\ update \in [Updaters -> {Idle} \union UpdateType] /\ updates \in 0..MaxUpdates
      /\ published \in DOMAIN graphs /\ request \in [Handlers -> {0} \union DOMAIN graphs]
      /\ Graphs(graphs)
  BY <1>1 DEF TypeOK, Graphs
<1>3. /\ Graphs(graphs') /\ Len(graphs') \in DOMAIN graphs' /\ Len(graphs') \notin DOMAIN graphs
      /\ DOMAIN graphs \subseteq DOMAIN graphs'
      /\ graphs'[Len(graphs')] = NewEmptyGraph /\ \A p \in DOMAIN graphs : graphs'[p] = graphs[p]
  <2>1. IsGraph(NewEmptyGraph, Twins)
    BY EmptyGraph
  <2>2. Graphs(graphs) /\ graphs' = Append(graphs, NewEmptyGraph)
    BY <1>1, <1>2
  <2>3. QED
    BY <2>1, <2>2, AppendGraph, ZenonT(60)
<1>4. list \in Seq(Twins) /\ Len(list) \in Nat
  BY GraphAssumption, ListFacts
<1>5. /\ w \in UpdateType' /\ w.pc = "vertexes" /\ w.at = 1 /\ w.rel = 1 /\ w.list = list
      /\ w.graph = Len(graphs')
  BY <1>3 DEF UpdateType
<1> HIDE DEF w
<1>6. w.at <= Len(w.list) + 1
  BY <1>4, <1>5
<1>7. updates' \in 0..MaxUpdates
  BY <1>1, <1>2, GraphAssumption
<1>8. TypeOK'
  <2>1. published' \in DOMAIN graphs' /\ w \in {Idle} \union UpdateType'
    BY <1>1, <1>2, <1>3, <1>5
  <2>2. QED
    BY <1>1, <1>3, <1>6, <1>7, <2>1, UpdateKeepsType
<1>9. SameViews
  BY <1>1, <1>2, <1>3 DEF SameViews
<1>10. SimpleInv' /\ PublishedComplete'
  BY <1>1, <1>9 DEF IInv, SimpleInv, NoDanglingEdge, PublishedComplete, SameViews, interfaceVars
<1>11. /\ update'[u] = w /\ \A v \in Updaters : v # u => update'[v] = update[v]
  BY <1>1, <1>2
<1>12. \A v \in Updaters : update[v] # Idle => update[v].graph \in DOMAIN graphs
  BY <1>1, UpdateFacts
<1>13. GraphSoFar(w, graphs'[w.graph])
  <2>1. {list[k].name : k \in 1..(1 - 1)} = {}
    OBVIOUS
  <2>2. HasVertexes(NewEmptyGraph, list, 1)
    BY <2>1, EmptyGraph DEF HasVertexes
  <2>3. QED
    BY <1>3, <1>5, <2>2 DEF GraphSoFar
<1>14. ASSUME NEW v \in Updaters, update'[v] # Idle
       PROVE  Private(v)' /\ GraphSoFar(update'[v], graphs'[update'[v].graph])
  <2>1. CASE v = u
    <3>1. Private(u)'
      BY <1>1, <1>2, <1>3, <1>5, <1>11, <1>12 DEF Private
    <3>2. QED
      BY <1>11, <1>13, <2>1, <3>1
  <2>2. CASE v # u
    <3>1. /\ update'[v] = update[v] /\ update[v] # Idle /\ Private(v)
          /\ GraphSoFar(update[v], graphs[update[v].graph])
      BY <1>11, <1>14, <2>2 DEF IInv, ServerInv
    <3>2. graphs'[update[v].graph] = graphs[update[v].graph]
      BY <1>3, <1>12, <3>1
    <3>3. Private(v)'
      BY <1>1, <1>3, <1>5, <1>11, <1>12, <3>1 DEF Private
    <3>4. QED
      BY <3>1, <3>2, <3>3
  <2>3. QED
    BY <2>1, <2>2
<1>15. ServerInv'
  BY <1>14 DEF ServerInv
<1>16. QED
  BY <1>8, <1>9, <1>10, <1>15 DEF IInv

\* What is published is complete, and no other update's.
LEMMA PublishKeeps ==
    ASSUME IInv, NEW u \in Updaters, Publish(u)
    PROVE  /\ IInv' /\ UNCHANGED <<graphs, request, answer>>
           /\ \E list \in Lists : Describes(graphs[published'], list)
<1> DEFINE v == update[u]
           o == v.graph
           g == graphs[o]
<1>1. /\ TypeOK /\ Finished(u, "edges") /\ "edges" \in {"vertexes", "edges"}
      /\ published' = o /\ update' = [update EXCEPT ![u] = Idle]
      /\ UNCHANGED <<interfaceVars, graphs, request, answer, updates>>
  BY DEF IInv, Publish
<1>2. v # Idle /\ v.pc = "edges" /\ v.at = Len(v.list) + 1
  BY <1>1, FinishedFacts
<1>3. /\ v.list \in Lists /\ v.list \in Seq(Twins) /\ v.at \in Nat \ {0} /\ v.rel \in Nat \ {0}
      /\ o \in DOMAIN graphs /\ Graphs(graphs) /\ Len(v.list) \in Nat
  BY <1>1, <1>2, UpdateFacts, ListFacts
<1>4. HasEdges(g, v.list, <<v.at, v.rel>>) /\ Private(u)
  BY <1>2 DEF IInv, ServerInv, GraphSoFar
<1>5. Describes(g, v.list)
  <2> DEFINE l == v.list
             x == v.at
             y == v.rel
  <2>1. l \in Seq(Twins) /\ x \in Nat /\ y \in Nat /\ x > Len(l) /\ HasEdges(g, l, <<x, y>>)
    BY <1>2, <1>3, <1>4
  <2> HIDE DEF l, x, y, g
  <2>2. \A n : Followed(l, n, <<x, y>>) = Relationships(l, n)
    BY <2>1, FollowedEnds
  <2>3. Describes(g, l)
    BY <2>1, <2>2 DEF HasEdges, Describes
  <2>4. QED
    BY <2>3 DEF l
<1>6. \E list \in Lists : Describes(graphs[published'], list)
  BY <1>1, <1>3, <1>5
<1>7. PublishedComplete'
  BY <1>1, <1>6 DEF PublishedComplete
<1>8. SimpleInv'
  BY <1>1 DEF IInv, SimpleInv, NoDanglingEdge, interfaceVars
<1>9. update \in [Updaters -> {Idle} \union UpdateType] /\ Len(Idle.list) = 0 /\ Idle.at = 1
  BY <1>1 DEF TypeOK, Idle
<1>10. TypeOK'
  <2> DEFINE w == Idle
  <2>1. /\ w \in {Idle} \union UpdateType' /\ w.at <= Len(w.list) + 1
        /\ update' = [update EXCEPT ![u] = w]
    BY <1>1, <1>9
  <2> HIDE DEF w
  <2>2. /\ Graphs(graphs') /\ DOMAIN graphs \subseteq DOMAIN graphs'
        /\ published' \in DOMAIN graphs' /\ updates' \in 0..MaxUpdates
    BY <1>1, <1>3 DEF TypeOK
  <2>3. QED
    BY <1>1, <2>1, <2>2, UpdateKeepsType
<1>11. update'[u] = Idle /\ \A x \in Updaters : x # u => update'[x] = update[x]
  BY <1>1, <1>9
<1>12. ASSUME NEW x \in Updaters, update'[x] # Idle
       PROVE  Private(x)' /\ GraphSoFar(update'[x], graphs'[update'[x].graph])
  <2>1. /\ x # u /\ update'[x] = update[x] /\ update[x] # Idle /\ Private(x)
        /\ GraphSoFar(update[x], graphs[update[x].graph])
    BY <1>11, <1>12 DEF IInv, ServerInv
  <2>2. update[x].graph # o
    BY <1>4, <2>1 DEF Private
  <2>3. Private(x)'
    BY <1>1, <1>11, <2>1, <2>2 DEF Private
  <2>4. QED
    BY <1>1, <2>1, <2>3
<1>13. ServerInv'
  BY <1>12 DEF ServerInv
<1>14. QED
  BY <1>1, <1>6, <1>7, <1>8, <1>10, <1>13 DEF IInv

-----------------------------------------------------------------------------
(* Steps of handlers *)

\* A handler takes the graph that is published, which nobody builds.
LEMMA TakeGraphKeeps ==
    ASSUME IInv, NEW h \in Handlers, TakeGraph(h)
    PROVE  IInv' /\ published \in DOMAIN graphs /\ published # 0
<1>1. /\ TypeOK /\ request' = [request EXCEPT ![h] = published]
      /\ UNCHANGED <<interfaceVars, graphs, published, update, answer, updates>>
  BY DEF IInv, TakeGraph
<1>2. /\ published \in DOMAIN graphs /\ request \in [Handlers -> {0} \union DOMAIN graphs]
      /\ Graphs(graphs)
  BY <1>1 DEF TypeOK, Graphs
<1>3. published # 0
  BY <1>2, GraphsFacts
<1>4. TypeOK'
  <2>1. request' \in [Handlers -> {0} \union DOMAIN graphs]
    BY <1>1, <1>2
  <2>2. QED
    BY <1>1, <2>1 DEF TypeOK, UpdateType, interfaceVars
<1>5. SimpleInv' /\ PublishedComplete'
  BY <1>1 DEF IInv, SimpleInv, NoDanglingEdge, PublishedComplete, interfaceVars
<1>6. ServerInv'
  <2>1. \A u \in Updaters : Private(u) => Private(u)'
    BY <1>1, <1>2 DEF Private
  <2>2. QED
    BY <1>1, <2>1 DEF IInv, ServerInv
<1>7. QED
  BY <1>2, <1>3, <1>4, <1>5, <1>6 DEF IInv

\* The document of any graph is a set of twins, so there is one.
LEMMA DocumentType ==
    ASSUME NEW g, IsGraph(g, Twins)
    PROVE  MarshalJson(g) \in SUBSET Twins /\ MarshalJson(g) # NONE
<1>1. \A n \in DOMAIN g.vertexes : Vertex(g, n) \in Objects(Twins, DOMAIN g.objects)
  BY GraphFacts
<1>2. \A n \in DOMAIN g.vertexes : Vertex(g, n).twin \in Twins
  BY <1>1 DEF Objects
<1>3. MarshalJson(g) \in SUBSET Twins
  BY <1>2 DEF MarshalJson
<1>4. QED
  BY <1>3, GraphAssumption

\* A response ends the request.
LEMMA RespondKeeps ==
    ASSUME IInv, NEW h \in Handlers, Respond(h)
    PROVE  IInv' /\ request[h] \in DOMAIN graphs
<1>1. /\ TypeOK /\ request' = [request EXCEPT ![h] = 0] /\ request[h] # 0
      /\ answer' = [answer EXCEPT ![h] = MarshalJson(graphs[request[h]])]
      /\ UNCHANGED <<interfaceVars, graphs, published, update, updates>>
  BY DEF IInv, Respond
<1>2. /\ request \in [Handlers -> {0} \union DOMAIN graphs] /\ Graphs(graphs)
      /\ answer \in [Handlers -> {NONE} \union SUBSET Twins]
  BY <1>1 DEF TypeOK, Graphs
<1>3. request[h] \in DOMAIN graphs
  BY <1>1, <1>2
<1>4. MarshalJson(graphs[request[h]]) \in SUBSET Twins
  BY <1>2, <1>3, GraphsFacts, DocumentType
<1>5. TypeOK'
  <2>1. request' \in [Handlers -> {0} \union DOMAIN graphs]
    BY <1>1, <1>2
  <2>2. answer' \in [Handlers -> {NONE} \union SUBSET Twins]
    BY <1>1, <1>2, <1>4
  <2>3. QED
    BY <1>1, <2>1, <2>2 DEF TypeOK, UpdateType, interfaceVars
<1>6. SimpleInv' /\ PublishedComplete'
  BY <1>1 DEF IInv, SimpleInv, NoDanglingEdge, PublishedComplete, interfaceVars
<1>7. ServerInv'
  <2>1. \A u \in Updaters : update[u] # Idle => update[u].graph # 0
    BY <1>1, UpdateFacts, GraphsFacts
  <2>2. \A u \in Updaters : update[u] # Idle /\ Private(u) => Private(u)'
    BY <1>1, <1>2, <2>1 DEF Private
  <2>3. QED
    BY <1>1, <2>2 DEF IInv, ServerInv
<1>8. QED
  BY <1>3, <1>5, <1>6, <1>7 DEF IInv

-----------------------------------------------------------------------------
(* Calls on the graph of TwinInterfaces *)

\* What the abstract graph sees of it.
seen == <<DOMAIN interfaceGraph.vertexes, Processed(interfaceGraph), Links(interfaceGraph)>>

\* A call keeps the invariant if what it makes is a graph, and edges to lost objects are old
\* ones or were one of many.
LEMMA CallKeeps ==
    ASSUME IInv, NEW g, IsGraph(g, Twins), Call(g),
           Dangling(g) \subseteq Dangling(interfaceGraph) \union Repeated(interfaceGraph)
    PROVE  IInv' /\ SameViews
<1>1. /\ TypeOK /\ calls' \in 0..MaxCalls /\ interfaceGraph' = g
      /\ repeated' = repeated \union Repeated(g)
      /\ UNCHANGED <<graphs, published, update, request, answer, updates>>
  BY GraphAssumption DEF IInv, TypeOK, Call, serverVars
<1>2. TypeOK'
  <2> DEFINE names == {t.name : t \in Twins}
  <2>1. \A x \in Range(g.objects) : x.twin.name \in names
    <3>1. \A o \in DOMAIN g.objects : g.objects[o].twin \in Twins
      BY GraphFacts DEF Objects
    <3>2. QED
      BY <3>1 DEF Range
  <2>2. DOMAIN g.vertexes \subseteq names
    <3>1. \A n \in DOMAIN g.vertexes : g.vertexes[n] \in DOMAIN g.objects /\ Vertex(g, n).twin.name = n
      BY GraphFacts
    <3>2. \A o \in DOMAIN g.objects : g.objects[o].twin \in Twins
      BY GraphFacts DEF Objects
    <3>3. QED
      BY <3>1, <3>2 DEF Vertex
  <2>3. repeated \subseteq names \X names /\ Repeated(g) \subseteq names \X names
    <3>1. NamePairs(g) \subseteq names \X names
      <4> HIDE DEF names
      <4>1. QED
        BY <2>1, <2>2 DEF NamePairs
    <3>2. QED
      BY <1>1, <3>1 DEF Repeated, TypeOK
  <2>4. QED
    BY <1>1, <2>3 DEF TypeOK, UpdateType
<1>3. SimpleInv' /\ PublishedComplete' /\ SameViews
  BY <1>1 DEF IInv, SimpleInv, NoDanglingEdge, PublishedComplete, SameViews
<1>4. ServerInv'
  BY <1>1 DEF IInv, ServerInv, Private
<1>5. QED
  BY <1>2, <1>3, <1>4 DEF IInv

\* AddVertex adds a twin and its node, or nothing.
LEMMA AddInterfaceStep ==
    ASSUME IInv, NEW t \in Interfaces, AddInterface(t)
    PROVE  IInv' /\ SameViews /\ (Abstract!Process(t) \/ UNCHANGED seen)
<1> DEFINE g == interfaceGraph
           h == AddVertex(g, t)
<1>1. IsGraph(g, Twins) /\ t \in Twins
  BY DEF IInv, TypeOK, Twins
<1>2. Call(h) /\ interfaceGraph' = h
  BY DEF AddInterface, Call
<1>3. /\ IsGraph(h, Twins) /\ Grows(g, h, t.name)
      /\ \/ h = g
         \/ /\ Processed(h) = Processed(g) \union {t}
            /\ \A u \in Processed(g) : u.name # t.name
  <2> HIDE DEF g
  <2>1. QED
    BY <1>1, AddVertexGives
<1> HIDE DEF h
<1>4. Links(h) = Links(g) /\ Dangling(h) \subseteq Dangling(g)
  <2> HIDE DEF g
  <2>1. QED
    BY <1>1, <1>3, GrowsKeeps
<1>5. IInv' /\ SameViews
  BY <1>1, <1>2, <1>3, <1>4, CallKeeps
<1>6. CASE h = g
  BY <1>2, <1>5, <1>6 DEF seen
<1>7. CASE /\ Processed(h) = Processed(g) \union {t}
           /\ \A u \in Processed(g) : u.name # t.name
  <2>1. DOMAIN h.vertexes = DOMAIN g.vertexes \union {t.name}
    BY <1>3 DEF Grows
  <2>2. Abstract!Process(t)
    BY <1>2, <1>4, <1>7, <2>1 DEF Abstract!Process
  <2>3. QED
    BY <1>5, <2>2
<1>8. QED
  BY <1>3, <1>6, <1>7

\* RemoveVertex removes a node with its links.
LEMMA RemoveInterfaceStep ==
    ASSUME IInv, NEW t \in Interfaces, RemoveInterface(t)
    PROVE  IInv' /\ SameViews /\ Abstract!Remove(t)
<1> DEFINE g == interfaceGraph
           h == RemoveVertex(g, t)
<1>1. IsGraph(g, Twins)
  BY DEF IInv, TypeOK
<1>2. Call(h) /\ interfaceGraph' = h
  BY DEF RemoveInterface, Call
<1>3. /\ IsGraph(h, Twins) /\ DOMAIN h.vertexes = DOMAIN g.vertexes \ {t.name}
      /\ Processed(h) = {u \in Processed(g) : u.name # t.name}
      /\ Links(h) = {l \in Links(g) : t.name \notin {l[1], l[2]}}
      /\ Dangling(h) \subseteq Dangling(g) \union Repeated(g)
  <2> HIDE DEF g
  <2>1. QED
    BY <1>1, RemoveVertexGives
<1> HIDE DEF h
<1>4. IInv' /\ SameViews
  BY <1>1, <1>2, <1>3, CallKeeps
<1>5. Abstract!Remove(t)
  BY <1>2, <1>3 DEF Abstract!Remove
<1>6. QED
  BY <1>4, <1>5

\* AddEdge adds a link.
LEMMA AddRelationshipStep ==
    ASSUME IInv, NEW s \in Interfaces, NEW t \in Interfaces, AddRelationship(s, t)
    PROVE  IInv' /\ SameViews /\ Abstract!Link(s, t)
<1> DEFINE g == interfaceGraph
           h == AddEdge(g, s, t)
<1>1. IsGraph(g, Twins) /\ s \in Twins /\ t \in Twins
  BY DEF IInv, TypeOK, Twins
<1>2. Call(h) /\ interfaceGraph' = h
  BY DEF AddRelationship, Call
<1>3. /\ IsGraph(h, Twins) /\ Processed(h) = Processed(g)
      /\ DOMAIN h.vertexes = DOMAIN g.vertexes \union {s.name, t.name}
      /\ Links(h) = Links(g) \union {<<s.name, t.name>>}
      /\ Dangling(h) \subseteq Dangling(g)
  <2> HIDE DEF g
  <2>1. QED
    BY <1>1, AddEdgeGives
<1> HIDE DEF h
<1>4. IInv' /\ SameViews
  BY <1>2, <1>3, CallKeeps
<1>5. Abstract!Link(s, t)
  BY <1>2, <1>3 DEF Abstract!Link
<1>6. QED
  BY <1>4, <1>5

\* RemoveEdge harms no link but those between the two.
LEMMA RemoveRelationshipStep ==
    ASSUME IInv, NEW s \in Interfaces, NEW t \in Interfaces, RemoveRelationship(s, t)
    PROVE  IInv' /\ SameViews /\ Abstract!Unlink(s, t)
<1> DEFINE g == interfaceGraph
           h == RemoveEdge(g, s, t)
<1>1. IsGraph(g, Twins)
  BY DEF IInv, TypeOK
<1>2. Call(h) /\ interfaceGraph' = h
  BY DEF RemoveRelationship, Call
<1>3. /\ IsGraph(h, Twins) /\ Processed(h) = Processed(g) /\ h.vertexes = g.vertexes
      /\ Links(h) \subseteq Links(g)
      /\ Links(g) \ Links(h) \subseteq {<<s.name, t.name>>, <<t.name, s.name>>}
      /\ Dangling(h) \subseteq Dangling(g)
  <2> HIDE DEF g
  <2>1. QED
    BY <1>1, RemoveEdgeGives
<1> HIDE DEF h
<1>4. IInv' /\ SameViews
  BY <1>2, <1>3, CallKeeps
<1>5. Abstract!Unlink(s, t)
  BY <1>2, <1>3 DEF Abstract!Unlink
<1>6. QED
  BY <1>4, <1>5

-----------------------------------------------------------------------------
(* The invariant holds *)

\* At the start: no node, one empty graph, which is what the empty list describes.
LEMMA Initially == Init => IInv
<1> SUFFICES ASSUME Init PROVE IInv
  OBVIOUS
<1>1. /\ IsGraph(interfaceGraph, Twins) /\ calls \in 0..MaxCalls
      /\ Dangling(interfaceGraph) = {} /\ Repeated(interfaceGraph) = {} /\ repeated = {}
  <2>1. interfaceGraph = NewEmptyGraph /\ repeated = {}
    BY DEF Init
  <2>2. calls \in 0..MaxCalls
    BY GraphAssumption DEF Init
  <2>3. QED
    BY <2>1, <2>2, EmptyGraph
<1>2. Graphs(graphs) /\ published \in DOMAIN graphs /\ graphs[published] = NewEmptyGraph
  <2> DEFINE g == NewEmptyGraph
  <2>1. IsGraph(g, Twins) /\ graphs = <<g>> /\ published = 1
    BY EmptyGraph DEF Init
  <2> HIDE DEF g
  <2>2. DOMAIN graphs = {1} /\ graphs[1] = g /\ Range(graphs) = {g}
    BY <2>1 DEF Range
  <2>3. graphs \in Seq(Range(graphs))
    BY <2>1, <2>2
  <2>4. QED
    BY <2>1, <2>2, <2>3 DEF Graphs, g
<1>3. update = [u \in Updaters |-> Idle] /\ Len(Idle.list) = 0 /\ Idle.at = 1
  BY DEF Init, Idle
<1>4. request \in [Handlers -> {0} \union DOMAIN graphs]
  BY DEF Init
<1>5. answer \in [Handlers -> {NONE} \union SUBSET Twins]
  BY DEF Init
<1>6. updates \in 0..MaxUpdates
  BY GraphAssumption DEF Init
<1>7. TypeOK
  <2>1. update \in [Updaters -> {Idle} \union UpdateType]
    BY <1>3
  <2>2. \A u \in Updaters : update[u].at <= Len(update[u].list) + 1
    BY <1>3
  <2>3. QED
    BY <1>1, <1>2, <1>4, <1>5, <1>6, <2>1, <2>2 DEF TypeOK, Graphs
<1>8. SimpleInv /\ ServerInv
  BY <1>1, <1>3 DEF SimpleInv, NoDanglingEdge, ServerInv
<1>9. Describes(NewEmptyGraph, <<>>)
  <2>1. {t.name : t \in Range(<<>>)} = {}
    BY DEF Range
  <2>2. QED
    BY <2>1, EmptyGraph DEF Describes
<1>10. PublishedComplete
  <2> DEFINE none == <<>>
  <2>1. Describes(NewEmptyGraph, none) /\ none \in Lists \union {<<>>}
    BY <1>9
  <2> HIDE DEF none
  <2>2. QED
    BY <1>2, <2>1 DEF PublishedComplete
<1>11. QED
  BY <1>7, <1>8, <1>10 DEF IInv

\* Every step keeps it.
LEMMA Inductive == IInv /\ [Next]_vars => IInv'
<1> SUFFICES ASSUME IInv, [Next]_vars PROVE IInv'
  OBVIOUS
<1>1. CASE \E t \in Interfaces : AddInterface(t) \/ RemoveInterface(t)
  BY <1>1, AddInterfaceStep, RemoveInterfaceStep
<1>2. CASE \E s, t \in Interfaces : AddRelationship(s, t) \/ RemoveRelationship(s, t)
  BY <1>2, AddRelationshipStep, RemoveRelationshipStep
<1>3. CASE \E u \in Updaters, list \in Lists : StartUpdate(u, list)
  BY <1>3, StartKeeps
<1>4. CASE \E u \in Updaters : AddInstance(u) \/ StartEdges(u)
                               \/ FollowRelationship(u) \/ NextInstance(u)
  <2>1. PICK u \in Updaters : AddInstance(u) \/ StartEdges(u)
                              \/ FollowRelationship(u) \/ NextInstance(u)
    BY <1>4
  <2>2. PICK w : Builds(u, w)
    BY <2>1, AddInstanceBuilds, StartEdgesBuilds, FollowBuilds, NextInstanceBuilds
  <2>3. QED
    BY <2>2, BuildsKeeps
<1>5. CASE \E u \in Updaters : Publish(u)
  BY <1>5, PublishKeeps
<1>6. CASE \E h \in Handlers : TakeGraph(h) \/ Respond(h)
  BY <1>6, TakeGraphKeeps, RespondKeeps
<1>7. CASE UNCHANGED vars
  BY <1>7 DEF vars, interfaceVars, serverVars, IInv, TypeOK, UpdateType, SimpleInv,
              NoDanglingEdge, ServerInv, Private, PublishedComplete
<1>8. QED
  BY <1>1, <1>2, <1>3, <1>4, <1>5, <1>6, <1>7 DEF Next

\* The invariant of every execution.
THEOREM Invariance == Spec => []IInv
<1>1. QED
  BY Initially, Inductive, PTL DEF Spec

\* Variables keep their types: maps and edges point to objects, in every graph in memory.
THEOREM TypeCorrect == Spec => []TypeOK
<1>1. IInv => TypeOK
  BY DEF IInv
<1>2. QED
  BY <1>1, Invariance, PTL

\* RemoveVertex leaves no edge to the vertex behind but between names with more than one.
THEOREM NoneDangling == Spec => []NoDanglingEdge
<1>1. IInv => NoDanglingEdge
  BY DEF IInv, SimpleInv
<1>2. QED
  BY <1>1, Invariance, PTL

\* The graph of the server is always the whole graph of one list.
THEOREM Complete == Spec => []PublishedComplete
<1>1. IInv => PublishedComplete
  BY DEF IInv
<1>2. QED
  BY <1>1, Invariance, PTL

-----------------------------------------------------------------------------
(* The graph of TwinInterfaces is a graph *)

\* Every step is one of the abstract graph, or changes nothing it sees.
LEMMA GraphStep == IInv /\ [Next]_vars => [Abstract!Next]_seen
<1> SUFFICES ASSUME IInv, [Next]_vars PROVE Abstract!Next \/ UNCHANGED seen
  BY DEF seen
<1>1. ASSUME NEW t \in Interfaces, AddInterface(t) PROVE Abstract!Next \/ UNCHANGED seen
  BY <1>1, AddInterfaceStep DEF Abstract!Next
<1>2. ASSUME NEW t \in Interfaces, RemoveInterface(t) PROVE Abstract!Next
  BY <1>2, RemoveInterfaceStep DEF Abstract!Next
<1>3. ASSUME NEW s \in Interfaces, NEW t \in Interfaces, AddRelationship(s, t)
      PROVE  Abstract!Next
  BY <1>3, AddRelationshipStep DEF Abstract!Next
<1>4. ASSUME NEW s \in Interfaces, NEW t \in Interfaces, RemoveRelationship(s, t)
      PROVE  Abstract!Next
  BY <1>4, RemoveRelationshipStep DEF Abstract!Next
<1>5. UNCHANGED interfaceGraph => UNCHANGED seen
  BY DEF seen
<1>6. ASSUME NEW u \in Updaters,
             \/ \E list \in Lists : StartUpdate(u, list)
             \/ AddInstance(u) \/ StartEdges(u) \/ FollowRelationship(u) \/ NextInstance(u)
             \/ Publish(u)
      PROVE  UNCHANGED interfaceGraph
  BY <1>6 DEF StartUpdate, AddInstance, StartEdges, FollowRelationship, NextInstance, Publish,
              interfaceVars
<1>7. ASSUME NEW h \in Handlers, TakeGraph(h) \/ Respond(h) PROVE UNCHANGED interfaceGraph
  BY <1>7 DEF TakeGraph, Respond, interfaceVars
<1>8. UNCHANGED vars => UNCHANGED interfaceGraph
  BY DEF vars, interfaceVars
<1>9. QED
  BY <1>1, <1>2, <1>3, <1>4, <1>5, <1>6, <1>7, <1>8 DEF Next

\* The graph of TwinInterfaces implements the abstract graph.
THEOREM ImplementsSimpleGraph == Spec => IsSimpleGraph
<1>1. Init => Abstract!Init
  BY EmptyGraph DEF Init, Abstract!Init
<1>2. IInv /\ [Next]_vars =>
        [Abstract!Next]_<<DOMAIN interfaceGraph.vertexes, Processed(interfaceGraph), Links(interfaceGraph)>>
  BY GraphStep DEF seen
<1>3. QED
  BY <1>1, <1>2, Invariance, PTL DEF Spec, IsSimpleGraph, Abstract!Spec

-----------------------------------------------------------------------------
(* The server answers with snapshots *)

\* What the abstract server sees of the graphs.
document == MarshalJson(graphs[published])
view == [h \in Handlers |-> IF request[h] = 0 THEN NONE ELSE MarshalJson(graphs[request[h]])]

\* Views change with the graphs only.
LEMMA ViewsStay == SameViews => UNCHANGED <<document, view, answer>>
  BY DEF SameViews, document, view

\* Every step is one of the abstract server, or changes nothing it sees.
LEMMA ServerStep ==
    ASSUME IInv, [Next]_vars
    PROVE  Snapshot!Next \/ UNCHANGED <<document, view, answer>>
<1>1. CASE \E t \in Interfaces : AddInterface(t) \/ RemoveInterface(t)
  BY <1>1, AddInterfaceStep, RemoveInterfaceStep, ViewsStay
<1>2. CASE \E s, t \in Interfaces : AddRelationship(s, t) \/ RemoveRelationship(s, t)
  BY <1>2, AddRelationshipStep, RemoveRelationshipStep, ViewsStay
<1>3. CASE \E u \in Updaters, list \in Lists : StartUpdate(u, list)
  BY <1>3, StartKeeps, ViewsStay
<1>4. CASE \E u \in Updaters : AddInstance(u) \/ StartEdges(u)
                               \/ FollowRelationship(u) \/ NextInstance(u)
  <2>1. PICK u \in Updaters : AddInstance(u) \/ StartEdges(u)
                              \/ FollowRelationship(u) \/ NextInstance(u)
    BY <1>4
  <2>2. PICK w : Builds(u, w)
    BY <2>1, AddInstanceBuilds, StartEdgesBuilds, FollowBuilds, NextInstanceBuilds
  <2>3. QED
    BY <2>2, BuildsKeeps, ViewsStay
<1>5. CASE \E u \in Updaters : Publish(u)
  <2>1. PICK list \in Lists : Describes(graphs[published'], list)
    BY <1>5, PublishKeeps
  <2>2. UNCHANGED <<graphs, request, answer>>
    BY <1>5, PublishKeeps
  <2>3. list \in Seq(Twins)
    BY GraphAssumption
  <2>4. document' = Snapshot!Document(list)
    BY <2>1, <2>2, <2>3, DocumentOf DEF document
  <2>5. UNCHANGED <<view, answer>>
    BY <2>2 DEF view
  <2>6. Snapshot!Update
    BY <2>4, <2>5 DEF Snapshot!Update, document, view
  <2>7. QED
    BY <2>6 DEF Snapshot!Next
<1>6. CASE \E h \in Handlers : TakeGraph(h)
  <2>1. PICK h \in Handlers : TakeGraph(h)
    BY <1>6
  <2>2. /\ request[h] = 0 /\ request' = [request EXCEPT ![h] = published]
        /\ UNCHANGED <<graphs, published, answer>> /\ published # 0
        /\ DOMAIN request = Handlers
    BY <2>1, TakeGraphKeeps DEF TakeGraph, IInv, TypeOK
  <2>3. view[h] = NONE /\ UNCHANGED document
    BY <2>2 DEF view, document
  <2>4. view' = [view EXCEPT ![h] = document]
    BY <2>2 DEF view, document
  <2>5. Snapshot!Request(h)
    BY <2>2, <2>3, <2>4 DEF Snapshot!Request, view, document
  <2>6. QED
    BY <2>5 DEF Snapshot!Next
<1>7. CASE \E h \in Handlers : Respond(h)
  <2>1. PICK h \in Handlers : Respond(h)
    BY <1>7
  <2>2. /\ request[h] # 0 /\ request' = [request EXCEPT ![h] = 0]
        /\ answer' = [answer EXCEPT ![h] = MarshalJson(graphs[request[h]])]
        /\ UNCHANGED <<graphs, published>> /\ DOMAIN request = Handlers
        /\ request[h] \in DOMAIN graphs /\ Graphs(graphs)
    BY <2>1, RespondKeeps DEF Respond, IInv, TypeOK, Graphs
  <2>3. view[h] = MarshalJson(graphs[request[h]]) /\ view[h] # NONE /\ UNCHANGED document
    BY <2>2, GraphsFacts, DocumentType DEF view, document
  <2>4. view' = [view EXCEPT ![h] = NONE]
    BY <2>2 DEF view
  <2>5. Snapshot!Respond(h)
    BY <2>2, <2>3, <2>4 DEF Snapshot!Respond, view, document
  <2>6. QED
    BY <2>5 DEF Snapshot!Next
<1>8. CASE UNCHANGED vars
  BY <1>8 DEF vars, serverVars, document, view
<1>9. QED
  BY <1>1, <1>2, <1>3, <1>4, <1>5, <1>6, <1>7, <1>8 DEF Next

\* The server implements the abstract one: every answer is the document of one list, the
\* last one published when the handler took the graph.
THEOREM ImplementsSnapshots == Spec => ServesSnapshots
<1>1. Init => Snapshot!Init
  <2> SUFFICES ASSUME Init PROVE Snapshot!Init
    OBVIOUS
  <2>1. MarshalJson(NewEmptyGraph) = {}
    BY EmptyGraph DEF MarshalJson
  <2>2. graphs[published] = NewEmptyGraph
    BY DEF Init
  <2>3. QED
    BY <2>1, <2>2 DEF Init, Snapshot!Init
<1>2. IInv /\ [Next]_vars =>
        [Snapshot!Next]_<<MarshalJson(graphs[published]),
                          [h \in Handlers |-> IF request[h] = 0 THEN NONE
                                              ELSE MarshalJson(graphs[request[h]])], answer>>
  BY ServerStep DEF document, view
<1>3. QED
  BY <1>1, <1>2, Invariance, PTL DEF Spec, ServesSnapshots, Snapshot!Spec
=============================================================================
