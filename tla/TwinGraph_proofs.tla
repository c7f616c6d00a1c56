-------------------------- MODULE TwinGraph_proofs --------------------------
(***************************************************************************)
(* Lemmas about the operations of TwinGraph, for all graphs and twins:     *)
(* what each does to the map, to the twins added and to the links, whatever *)
(* objects are left from earlier operations.                               *)
(***************************************************************************)
EXTENDS TwinGraph, SequenceTheorems, WellFoundedInduction, TLAPS

-----------------------------------------------------------------------------
(* Lists of edges *)

\* A non-empty set of naturals has a smallest element.
LEMMA Smallest ==
    ASSUME NEW S \in SUBSET Nat, S # {}
    PROVE  \E m \in S : \A k \in S : m <= k
<1>1. PICK m \in S : \A k \in S : <<k, m>> \notin OpToRel(<, Nat)
  BY NatLessThanWellFounded, WFMin
<1>2. \A k \in S : ~(k < m)
  BY <1>1 DEF OpToRel
<1>3. QED
  BY <1>2

\* The object o holds a twin of t's name.
Named(g, o, t) == g.objects[o].twin.name = t.name

\* An edge is found by the name of its twin, if there is one.
LEMMA Find ==
    ASSUME NEW g, NEW S, NEW e \in Seq(S), NEW t, NEW j, j = FindEdgeIndex(g, e, t)
    PROVE  /\ j \in 0..Len(e)
           /\ j # 0 => Named(g, e[j], t)
<1> DEFINE at == {k \in 1..Len(e) : g.objects[e[k]].twin.name = t.name}
<1>1. j = IF at # {} THEN Min(at) ELSE 0
  BY DEF FindEdgeIndex, SelectInSeq
<1>2. Len(e) \in Nat /\ DOMAIN e = 1..Len(e)
  BY LenProperties
<1>3. at # {} => Min(at) \in at
  <2> SUFFICES ASSUME at # {} PROVE Min(at) \in at
    OBVIOUS
  <2>1. at \in SUBSET Nat
    BY <1>2
  <2> HIDE DEF at
  <2>2. \E m \in at : \A k \in at : m <= k
    BY <2>1, Smallest
  <2>3. QED
    BY <2>2 DEF Min
<1>4. (at = {} /\ j = 0) \/ j \in at
  BY <1>1, <1>3
<1>5. QED
  BY <1>2, <1>4 DEF Named

\* If none is found there is none.
LEMMA FindNothing ==
    ASSUME NEW g, NEW S, NEW e \in Seq(S), NEW t, NEW j, j = FindEdgeIndex(g, e, t)
    PROVE  j = 0 => \A k \in 1..Len(e) : g.objects[e[k]].twin.name # t.name
<1> DEFINE at == {k \in 1..Len(e) : g.objects[e[k]].twin.name = t.name}
<1>1. j = IF at # {} THEN Min(at) ELSE 0
  BY DEF FindEdgeIndex, SelectInSeq
<1>2. Len(e) \in Nat
  BY LenProperties
<1>3. at # {} => Min(at) # 0
  <2> SUFFICES ASSUME at # {} PROVE Min(at) # 0
    OBVIOUS
  <2>1. at \in SUBSET (Nat \ {0})
    BY <1>2
  <2> HIDE DEF at
  <2>2. \E m \in at : \A k \in at : m <= k
    BY <2>1, Smallest
  <2>3. QED
    BY <2>1, <2>2 DEF Min
<1>4. QED
  BY <1>1, <1>3

\* Removing one position from a list moves the later ones and takes nothing else.
LEMMA Removed ==
    ASSUME NEW S, NEW s \in Seq(S), NEW i \in 1..Len(s)
    PROVE  /\ RemoveAt(s, i) \in Seq(S) /\ Len(RemoveAt(s, i)) = Len(s) - 1
           /\ \A k \in 1..(Len(s) - 1) :
                 RemoveAt(s, i)[k] = IF k < i THEN s[k] ELSE s[k + 1]
<1> DEFINE a == SubSeq(s, 1, i - 1)
           b == SubSeq(s, i + 1, Len(s))
<1>1. Len(s) \in Nat /\ i \in Nat /\ 1 <= i /\ i <= Len(s)
  BY LenProperties
<1>2. \A k \in 1..Len(s) : s[k] \in S
  BY ElementOfSeq
<1>3. /\ a \in Seq(S) /\ Len(a) = i - 1 /\ \A k \in 1..(i - 1) : a[k] = s[k]
  <2>1. \A k \in 1..(i - 1) : s[k] \in S
    BY <1>1, <1>2
  <2>2. /\ a \in Seq(S) /\ Len(a) = IF 1 <= i - 1 THEN (i - 1) - 1 + 1 ELSE 0
        /\ \A k \in 1..((i - 1) - 1 + 1) : a[k] = s[1 + k - 1]
    BY <1>1, <2>1, SubSeqProperties
  <2> HIDE DEF a
  <2>3. QED
    BY <1>1, <2>2
<1>4. /\ b \in Seq(S) /\ Len(b) = Len(s) - i
      /\ \A k \in 1..(Len(s) - i) : b[k] = s[i + k]
  <2>1. \A k \in (i + 1)..Len(s) : s[k] \in S
    BY <1>1, <1>2
  <2>2. /\ b \in Seq(S) /\ Len(b) = IF i + 1 <= Len(s) THEN Len(s) - (i + 1) + 1 ELSE 0
        /\ \A k \in 1..(Len(s) - (i + 1) + 1) : b[k] = s[(i + 1) + k - 1]
    BY <1>1, <2>1, SubSeqProperties
  <2> HIDE DEF b
  <2>3. QED
    BY <1>1, <2>2
<1> HIDE DEF a, b
<1>5. /\ a \o b \in Seq(S) /\ Len(a \o b) = Len(a) + Len(b)
      /\ \A k \in 1..(Len(a) + Len(b)) : (a \o b)[k] = IF k <= Len(a) THEN a[k] ELSE b[k - Len(a)]
  BY <1>3, <1>4, ConcatProperties
<1>6. RemoveAt(s, i) = a \o b
  BY DEF RemoveAt, a, b
<1>7. ASSUME NEW k \in 1..(Len(s) - 1)
      PROVE  (a \o b)[k] = IF k < i THEN s[k] ELSE s[k + 1]
  <2>1. k \in 1..(Len(a) + Len(b))
    BY <1>1, <1>3, <1>4
  <2>2. CASE k < i
    BY <1>1, <1>3, <1>5, <2>1, <2>2
  <2>3. CASE ~(k < i)
    <3>1. k - Len(a) \in 1..(Len(s) - i) /\ ~(k <= Len(a)) /\ i + (k - Len(a)) = k + 1
      BY <1>1, <1>3, <2>3
    <3>2. QED
      BY <1>4, <1>5, <2>1, <2>3, <3>1
  <2>4. QED
    BY <2>2, <2>3
<1>8. Len(a \o b) = Len(s) - 1
  BY <1>1, <1>3, <1>4, <1>5
<1>9. QED
  BY <1>5, <1>6, <1>7, <1>8

\* What removeIndex leaves of a list of edges: the edges at the other positions.
LEMMA RemoveIndexGives ==
    ASSUME NEW S, NEW s \in Seq(S), NEW i \in 0..Len(s)
    PROVE  /\ RemoveIndex(s, i) \in Seq(S)
           /\ Range(RemoveIndex(s, i)) \subseteq Range(s)
           /\ \A x \in Range(s) : x \in Range(RemoveIndex(s, i)) \/ (i # 0 /\ x = s[i])
           /\ i # 0 => \A x \in Range(RemoveIndex(s, i)) : \E k \in DOMAIN s \ {i} : x = s[k]
<1>1. CASE i = 0
  BY <1>1 DEF RemoveIndex
<1>2. CASE i # 0
  <2> DEFINE r == RemoveAt(s, i)
  <2>1. /\ Len(s) \in Nat /\ i \in 1..Len(s) /\ DOMAIN s = 1..Len(s)
    BY <1>2, LenProperties
  <2>2. /\ r \in Seq(S) /\ Len(r) = Len(s) - 1
        /\ \A k \in 1..(Len(s) - 1) : r[k] = IF k < i THEN s[k] ELSE s[k + 1]
    BY <2>1, Removed
  <2>3. RemoveIndex(s, i) = r
    BY <1>2 DEF RemoveIndex
  <2> HIDE DEF r
  <2>4. DOMAIN r = 1..(Len(s) - 1)
    BY <2>2, LenProperties
  <2>5. ASSUME NEW k \in DOMAIN r PROVE \E j \in DOMAIN s \ {i} : r[k] = s[j]
    <3>1. CASE k < i
      <4>1. k \in DOMAIN s \ {i} /\ r[k] = s[k]
        BY <2>1, <2>2, <2>4, <3>1
      <4>2. QED
        BY <4>1
    <3>2. CASE ~(k < i)
      <4>1. k + 1 \in DOMAIN s \ {i} /\ r[k] = s[k + 1]
        BY <2>1, <2>2, <2>4, <3>2
      <4>2. QED
        BY <4>1
    <3>3. QED
      BY <3>1, <3>2
  <2>6. \A j \in DOMAIN s : j = i \/ \E k \in DOMAIN r : r[k] = s[j]
    <3> SUFFICES ASSUME NEW j \in DOMAIN s, j # i PROVE \E k \in DOMAIN r : r[k] = s[j]
      OBVIOUS
    <3>1. CASE j < i
      <4>1. j \in DOMAIN r /\ r[j] = s[j]
        BY <2>1, <2>2, <2>4, <3>1
      <4>2. QED
        BY <4>1
    <3>2. CASE ~(j < i)
      <4>1. j - 1 \in DOMAIN r /\ r[j - 1] = s[j]
        BY <2>1, <2>2, <2>4, <3>2
      <4>2. QED
        BY <4>1
    <3>3. QED
      BY <3>1, <3>2
  <2>7. QED
    BY <2>2, <2>3, <2>5, <2>6 DEF Range
<1>3. QED
  BY <1>1, <1>2

\* What is left when the result is dropped: nothing new, and all but the edge.
LEMMA RemoveInPlaceGives ==
    ASSUME NEW S, NEW s \in Seq(S), NEW i \in 0..Len(s)
    PROVE  /\ RemoveIndexInPlace(s, i) \in Seq(S)
           /\ Range(RemoveIndexInPlace(s, i)) \subseteq Range(s)
           /\ \A x \in Range(s) : x \in Range(RemoveIndexInPlace(s, i)) \/ (i # 0 /\ x = s[i])
<1>1. CASE i = 0
  BY <1>1 DEF RemoveIndexInPlace
<1>2. CASE i # 0
  <2> DEFINE r == RemoveAt(s, i)
             last == s[Len(s)]
  <2>1. Len(s) \in Nat /\ i \in 1..Len(s) /\ Len(s) \in DOMAIN s
    BY <1>2, LenProperties
  <2>2. last \in S /\ last \in Range(s)
    BY <2>1, ElementOfSeq DEF Range
  <2>3. RemoveIndex(s, i) = r /\ RemoveIndexInPlace(s, i) = Append(r, last)
    BY <1>2 DEF RemoveIndex, RemoveIndexInPlace, Last
  <2>4. /\ r \in Seq(S) /\ Range(r) \subseteq Range(s)
        /\ \A x \in Range(s) : x \in Range(r) \/ x = s[i]
    BY <1>2, <2>3, RemoveIndexGives
  <2> HIDE DEF r, last
  <2>5. Append(r, last) \in Seq(S) /\ Range(Append(r, last)) = Range(r) \union {last}
    <3>1. /\ Append(r, last) \in Seq(S) /\ Len(Append(r, last)) = Len(r) + 1
          /\ \A k \in 1..Len(r) : Append(r, last)[k] = r[k]
          /\ Append(r, last)[Len(r) + 1] = last
      BY <2>2, <2>4, AppendProperties
    <3>2. DOMAIN Append(r, last) = 1..(Len(r) + 1) /\ DOMAIN r = 1..Len(r) /\ Len(r) \in Nat
      BY <2>4, <3>1, LenProperties
    <3>3. QED
      BY <3>1, <3>2 DEF Range
  <2>6. QED
    BY <1>2, <2>2, <2>3, <2>4, <2>5
<1>3. QED
  BY <1>1, <1>2

-----------------------------------------------------------------------------
(* Graphs *)

\* Objects with edges to the objects in D.
Objects(T, D) == [twin : T, edges : Seq(D), temporary : BOOLEAN]

\* A list whose elements are of another set as well.
LEMMA Retyped ==
    ASSUME NEW V, NEW W, NEW s \in Seq(V), \A o \in DOMAIN s : s[o] \in W
    PROVE  s \in Seq(W)
<1>1. DOMAIN s = 1..Len(s) /\ Len(s) \in Nat /\ s \in [1..Len(s) -> V]
  BY LenProperties
<1>2. s \in [1..Len(s) -> W]
  BY <1>1
<1>3. QED
  BY <1>1, <1>2

\* Names in the map point to different objects, those of their twins.
LEMMA GraphFacts ==
    ASSUME NEW T, NEW g, IsGraph(g, T)
    PROVE  /\ Len(g.objects) \in Nat /\ DOMAIN g.objects = 1..Len(g.objects)
           /\ \A o \in DOMAIN g.objects : g.objects[o] \in Objects(T, DOMAIN g.objects)
           /\ \A n \in DOMAIN g.vertexes :
                 /\ g.vertexes[n] \in DOMAIN g.objects /\ Vertex(g, n) = g.objects[g.vertexes[n]]
                 /\ Vertex(g, n) \in Objects(T, DOMAIN g.objects) /\ Vertex(g, n).twin.name = n
                 /\ Range(Vertex(g, n).edges) \subseteq DOMAIN g.objects
                 /\ \A m \in DOMAIN g.vertexes : g.vertexes[n] = g.vertexes[m] => n = m
<1>1. /\ g.objects \in Seq(Objects(T, DOMAIN g.objects))
      /\ \A n \in DOMAIN g.vertexes : /\ g.vertexes[n] \in DOMAIN g.objects
                                      /\ Vertex(g, n).twin.name = n
  BY DEF IsGraph, Objects
<1>2. Len(g.objects) \in Nat /\ DOMAIN g.objects = 1..Len(g.objects)
  BY <1>1, LenProperties
<1>3. \A o \in DOMAIN g.objects : g.objects[o] \in Objects(T, DOMAIN g.objects)
  BY <1>1, <1>2, ElementOfSeq
<1>4. \A n \in DOMAIN g.vertexes : Range(Vertex(g, n).edges) \subseteq DOMAIN g.objects
  <2> SUFFICES ASSUME NEW n \in DOMAIN g.vertexes
               PROVE  Range(Vertex(g, n).edges) \subseteq DOMAIN g.objects
    OBVIOUS
  <2> DEFINE D == DOMAIN g.objects
             e == Vertex(g, n).edges
  <2>1. e \in Seq(D)
    BY <1>1, <1>3 DEF Vertex, Objects
  <2> HIDE DEF D, e
  <2>2. \A k \in 1..Len(e) : e[k] \in D
    BY <2>1, ElementOfSeq
  <2>3. DOMAIN e = 1..Len(e)
    BY <2>1, LenProperties
  <2>4. QED
    BY <2>2, <2>3 DEF Range, D, e
<1>5. QED
  BY <1>1, <1>2, <1>3, <1>4 DEF Vertex

\* A new vertex has no edges, and nothing has an edge to it.
LEMMA NewVertexGives ==
    ASSUME NEW T, NEW g, IsGraph(g, T), NEW t \in T, NEW b \in BOOLEAN, ~HasVertex(g, t.name),
           NEW h, h = NewVertex(g, t, b)
    PROVE  /\ IsGraph(h, T)
           /\ DOMAIN h.vertexes = DOMAIN g.vertexes \union {t.name}
           /\ Vertex(h, t.name) = [twin |-> t, edges |-> <<>>, temporary |-> b]
           /\ h.vertexes[t.name] \notin DOMAIN g.objects
           /\ \A n \in DOMAIN g.vertexes : /\ Vertex(h, n) = Vertex(g, n)
                                           /\ h.vertexes[n] = g.vertexes[n]
           /\ \A o \in DOMAIN g.objects : o \in DOMAIN h.objects /\ h.objects[o] = g.objects[o]
<1> DEFINE x == [twin |-> t, edges |-> <<>>, temporary |-> b]
           last == Len(g.objects) + 1
<1>1. /\ DOMAIN h = {"numberOfVertex", "vertexes", "objects"}
      /\ h.numberOfVertex = g.numberOfVertex + 1
      /\ h.vertexes = [n \in DOMAIN g.vertexes \union {t.name} |->
                          IF n = t.name THEN last ELSE g.vertexes[n]]
      /\ h.objects = Append(g.objects, x)
  BY DEF NewVertex
<1>2. /\ Len(g.objects) \in Nat /\ DOMAIN g.objects = 1..Len(g.objects)
      /\ g.objects \in Seq(Objects(T, DOMAIN g.objects))
  BY GraphFacts DEF IsGraph, Objects
<1> DEFINE V == Objects(T, DOMAIN g.objects) \union {x}
<1>3. g.objects \in Seq(V) /\ x \in V
  BY <1>2, SeqMonotonic
<1> HIDE DEF V
<1>4. /\ h.objects \in Seq(V) /\ Len(h.objects) = last
      /\ \A o \in 1..Len(g.objects) : h.objects[o] = g.objects[o]
      /\ h.objects[last] = x
  BY <1>1, <1>3, AppendProperties
<1>5. DOMAIN h.objects = 1..last
  BY <1>4, LenProperties
<1>6. /\ Vertex(h, t.name) = x /\ h.vertexes[t.name] = last
      /\ \A n \in DOMAIN g.vertexes : /\ Vertex(h, n) = Vertex(g, n)
                                      /\ h.vertexes[n] = g.vertexes[n]
  <2>1. h.vertexes[t.name] = last /\ \A n \in DOMAIN g.vertexes : h.vertexes[n] = g.vertexes[n]
    BY <1>1 DEF HasVertex
  <2>2. QED
    BY <1>2, <1>4, <2>1, GraphFacts DEF Vertex
<1>7. \A o \in DOMAIN h.objects : h.objects[o] \in Objects(T, DOMAIN h.objects)
  <2>1. Seq(DOMAIN g.objects) \subseteq Seq(DOMAIN h.objects)
    BY <1>2, <1>5, SeqMonotonic
  <2>2. x \in Objects(T, DOMAIN h.objects)
    BY DEF Objects
  <2>3. \A o \in 1..Len(g.objects) : h.objects[o] \in Objects(T, DOMAIN h.objects)
    <3>1. \A o \in 1..Len(g.objects) : g.objects[o] \in Objects(T, DOMAIN g.objects)
      BY <1>2, GraphFacts
    <3>2. Objects(T, DOMAIN g.objects) \subseteq Objects(T, DOMAIN h.objects)
      BY <2>1 DEF Objects
    <3>3. QED
      BY <1>4, <3>1, <3>2
  <2>4. QED
    BY <1>2, <1>4, <1>5, <2>2, <2>3
<1>8. h.objects \in Seq(Objects(T, DOMAIN h.objects))
  BY <1>4, <1>7, Retyped
<1>9. IsGraph(h, T)
  <2>1. h.vertexes \in [DOMAIN h.vertexes -> DOMAIN h.objects]
    BY <1>1, <1>2, <1>5, GraphFacts
  <2>2. \A n \in DOMAIN h.vertexes : Vertex(h, n).twin.name = n
    <3>1. DOMAIN h.vertexes = DOMAIN g.vertexes \union {t.name}
      BY <1>1
    <3>2. \A n \in DOMAIN g.vertexes : Vertex(h, n).twin.name = n
      BY <1>6, GraphFacts
    <3>3. Vertex(h, t.name).twin.name = t.name
      BY <1>6
    <3>4. QED
      BY <3>1, <3>2, <3>3
  <2>3. h.numberOfVertex \in Int
    BY <1>1 DEF IsGraph
  <2>4. QED
    BY <1>1, <1>8, <2>1, <2>2, <2>3 DEF IsGraph, Objects
<1>10. DOMAIN h.vertexes = DOMAIN g.vertexes \union {t.name}
  BY <1>1
<1>11. /\ h.vertexes[t.name] \notin DOMAIN g.objects
       /\ \A o \in DOMAIN g.objects : o \in DOMAIN h.objects /\ h.objects[o] = g.objects[o]
  BY <1>2, <1>4, <1>5, <1>6
<1>12. QED
  BY <1>6, <1>9, <1>10, <1>11

-----------------------------------------------------------------------------
(* Adding *)

\* The vertex of name n has an edge to object o, which is no longer in the map.
Lost(g, n, o) == /\ n \in DOMAIN g.vertexes
                 /\ o \in Range(Vertex(g, n).edges) \ Range(g.vertexes)

\* Objects keep their names.
SameNames(g, h) == \A o \in DOMAIN g.objects : h.objects[o].twin.name = g.objects[o].twin.name

\* The pairs of names with such an edge.
LEMMA DanglingIsLost ==
    ASSUME NEW T, NEW g, IsGraph(g, T), NEW n, NEW m
    PROVE  <<n, m>> \in Dangling(g) <=> \E o : Lost(g, n, o) /\ g.objects[o].twin.name = m
<1>1. ASSUME n \in DOMAIN g.vertexes, NEW o \in Range(Vertex(g, n).edges),
             g.objects[o].twin.name = m
      PROVE  <<n, m>> \in NamePairs(g)
  <2>1. o \in DOMAIN g.objects
    BY <1>1, GraphFacts
  <2>2. QED
    BY <1>1, <2>1 DEF NamePairs, Range
<1>2. ASSUME <<n, m>> \in Dangling(g) PROVE \E o : Lost(g, n, o) /\ g.objects[o].twin.name = m
  BY <1>2 DEF Dangling, NamePairs, Edges, Lost, Range
<1>3. ASSUME NEW o, Lost(g, n, o), g.objects[o].twin.name = m PROVE <<n, m>> \in Dangling(g)
  <2>1. PICK k \in DOMAIN Vertex(g, n).edges : Vertex(g, n).edges[k] = o
    BY <1>3 DEF Lost, Range
  <2>2. QED
    BY <1>1, <1>3, <2>1 DEF Dangling, Edges, Lost
<1>4. QED
  BY <1>2, <1>3

\* If edges to lost objects are old ones there are no new pairs.
LEMMA NoneLost ==
    ASSUME NEW T, NEW g, IsGraph(g, T), NEW h, IsGraph(h, T), SameNames(g, h),
           \A n, o : Lost(h, n, o) => Lost(g, n, o)
    PROVE  Dangling(h) \subseteq Dangling(g)
<1> SUFFICES ASSUME NEW l \in Dangling(h) PROVE l \in Dangling(g)
  OBVIOUS
<1>1. PICK n, m : l = <<n, m>>
  BY DEF Dangling, NamePairs
<1>2. PICK o : Lost(h, n, o) /\ h.objects[o].twin.name = m
  BY <1>1, DanglingIsLost
<1>3. Lost(g, n, o) /\ o \in DOMAIN g.objects
  BY <1>2, GraphFacts DEF Lost
<1>4. QED
  BY <1>1, <1>2, <1>3, DanglingIsLost DEF SameNames

\* h is g with one more name in the map, if it was not there: a new object without edges.
Grows(g, h, name) ==
    /\ DOMAIN h.vertexes = DOMAIN g.vertexes \union {name}
    /\ \A n \in DOMAIN g.vertexes : /\ h.vertexes[n] = g.vertexes[n]
                                    /\ Vertex(h, n).edges = Vertex(g, n).edges
    /\ name \notin DOMAIN g.vertexes => /\ Vertex(h, name).edges = <<>>
                                        /\ h.vertexes[name] \notin DOMAIN g.objects
    /\ SameNames(g, h)

\* Then nothing is linked anew: what old edges point to is old.
LEMMA GrowsKeeps ==
    ASSUME NEW T, NEW g, IsGraph(g, T), NEW h, IsGraph(h, T), NEW name, Grows(g, h, name)
    PROVE  Links(h) = Links(g) /\ Dangling(h) \subseteq Dangling(g)
<1>1. \A n \in DOMAIN h.vertexes :
        \/ /\ n \in DOMAIN g.vertexes /\ h.vertexes[n] = g.vertexes[n]
           /\ Vertex(h, n).edges = Vertex(g, n).edges
        \/ /\ n \notin DOMAIN g.vertexes /\ Vertex(h, n).edges = <<>>
           /\ h.vertexes[n] \notin DOMAIN g.objects
  BY DEF Grows
<1>2. \A n \in DOMAIN g.vertexes : Range(Vertex(g, n).edges) \subseteq DOMAIN g.objects
  BY GraphFacts
<1>3. Range(<<>>) = {}
  BY DEF Range
<1>4. \A n, m : <<n, m>> \in Links(h) <=> <<n, m>> \in Links(g)
  <2> SUFFICES ASSUME NEW n, NEW m PROVE <<n, m>> \in Links(h) <=> <<n, m>> \in Links(g)
    OBVIOUS
  <2>1. <<n, m>> \in Links(h) <=> /\ n \in DOMAIN h.vertexes /\ m \in DOMAIN h.vertexes
                                  /\ h.vertexes[m] \in Range(Vertex(h, n).edges)
    BY DEF Links
  <2>2. <<n, m>> \in Links(g) <=> /\ n \in DOMAIN g.vertexes /\ m \in DOMAIN g.vertexes
                                  /\ g.vertexes[m] \in Range(Vertex(g, n).edges)
    BY DEF Links
  <2>3. DOMAIN g.vertexes \subseteq DOMAIN h.vertexes
    BY DEF Grows
  <2>4. QED
    BY <1>1, <1>2, <1>3, <2>1, <2>2, <2>3
<1>5. Links(h) = Links(g)
  <2>1. \A l \in Links(h) : l = <<l[1], l[2]>>
    BY DEF Links
  <2>2. \A l \in Links(g) : l = <<l[1], l[2]>>
    BY DEF Links
  <2>3. QED
    BY <1>4, <2>1, <2>2
<1>6. Dangling(h) \subseteq Dangling(g)
  <2>1. Range(g.vertexes) \subseteq Range(h.vertexes)
    BY DEF Grows, Range
  <2>2. \A n, o : Lost(h, n, o) => Lost(g, n, o)
    BY <1>1, <1>3, <2>1 DEF Lost
  <2>3. SameNames(g, h)
    BY DEF Grows
  <2>4. QED
    BY <2>2, <2>3, NoneLost
<1>7. QED
  BY <1>5, <1>6

\* The vertex of a name that is only named by an edge so far.
LEMMA AddTemporaryGives ==
    ASSUME NEW T, NEW g, IsGraph(g, T), NEW t \in T, NEW h, h = AddTemporaryVertex(g, t)
    PROVE  /\ IsGraph(h, T) /\ Grows(g, h, t.name) /\ Processed(h) = Processed(g)
           /\ t.name \in DOMAIN g.vertexes => h = g
<1>1. CASE HasVertex(g, t.name)
  BY <1>1 DEF AddTemporaryVertex, HasVertex, Grows, SameNames
<1>2. CASE ~HasVertex(g, t.name)
  <2> DEFINE b == TRUE
  <2>1. h = NewVertex(g, t, b) /\ b \in BOOLEAN
    BY <1>2 DEF AddTemporaryVertex
  <2> HIDE DEF b
  <2>2. /\ IsGraph(h, T)
        /\ DOMAIN h.vertexes = DOMAIN g.vertexes \union {t.name}
        /\ Vertex(h, t.name) = [twin |-> t, edges |-> <<>>, temporary |-> b]
        /\ h.vertexes[t.name] \notin DOMAIN g.objects
        /\ \A n \in DOMAIN g.vertexes : /\ Vertex(h, n) = Vertex(g, n)
                                        /\ h.vertexes[n] = g.vertexes[n]
        /\ SameNames(g, h)
    BY <1>2, <2>1, NewVertexGives DEF SameNames
  <2>3. Vertex(h, t.name).temporary /\ Vertex(h, t.name).edges = <<>>
    BY <2>2 DEF b
  <2>4. Grows(g, h, t.name)
    BY <2>2, <2>3 DEF Grows
  <2>5. Processed(h) = Processed(g)
    BY <2>2, <2>3 DEF Processed
  <2>6. QED
    BY <1>2, <2>2, <2>4, <2>5 DEF HasVertex
<1>3. QED
  BY <1>1, <1>2

\* A twin is added unless one of its name is; its object is the one edges already point to.
LEMMA AddVertexGives ==
    ASSUME NEW T, NEW g, IsGraph(g, T), NEW t \in T, NEW h, h = AddVertex(g, t)
    PROVE  /\ IsGraph(h, T) /\ Grows(g, h, t.name)
           /\ \/ h = g
              \/ /\ Processed(h) = Processed(g) \union {t}
                 /\ \A u \in Processed(g) : u.name # t.name
<1>1. ASSUME ~HasVertex(g, t.name) \/ Vertex(g, t.name).temporary
      PROVE  \A u \in Processed(g) : u.name # t.name
  BY <1>1, GraphFacts DEF Processed, HasVertex
<1>2. CASE ~HasVertex(g, t.name)
  <2> DEFINE b == FALSE
  <2>1. h = NewVertex(g, t, b) /\ b \in BOOLEAN
    BY <1>2 DEF AddVertex
  <2> HIDE DEF b
  <2>2. /\ IsGraph(h, T)
        /\ DOMAIN h.vertexes = DOMAIN g.vertexes \union {t.name}
        /\ Vertex(h, t.name) = [twin |-> t, edges |-> <<>>, temporary |-> b]
        /\ h.vertexes[t.name] \notin DOMAIN g.objects
        /\ \A n \in DOMAIN g.vertexes : /\ Vertex(h, n) = Vertex(g, n)
                                        /\ h.vertexes[n] = g.vertexes[n]
        /\ SameNames(g, h)
    BY <1>2, <2>1, NewVertexGives DEF SameNames
  <2>3. /\ ~Vertex(h, t.name).temporary /\ Vertex(h, t.name).edges = <<>>
        /\ Vertex(h, t.name).twin = t
    BY <2>2 DEF b
  <2>4. Grows(g, h, t.name)
    BY <2>2, <2>3 DEF Grows
  <2>5. Processed(h) = Processed(g) \union {t}
    BY <2>2, <2>3 DEF Processed
  <2>6. QED
    BY <1>1, <1>2, <2>2, <2>4, <2>5
<1>3. CASE HasVertex(g, t.name) /\ Vertex(g, t.name).temporary
  <2> DEFINE o == g.vertexes[t.name]
             e == g.objects[o].edges
             x == [twin |-> t, edges |-> e, temporary |-> FALSE]
  <2>1. /\ t.name \in DOMAIN g.vertexes /\ o \in DOMAIN g.objects
        /\ g.objects[o] \in Objects(T, DOMAIN g.objects)
    BY <1>3, GraphFacts DEF HasVertex
  <2>2. e \in Seq(DOMAIN g.objects) /\ x \in Objects(T, DOMAIN g.objects)
    BY <2>1 DEF Objects
  <2>3. /\ DOMAIN h = DOMAIN g /\ h.numberOfVertex = g.numberOfVertex
        /\ h.vertexes = g.vertexes
        /\ DOMAIN h.objects = DOMAIN g.objects
        /\ h.objects[o].twin = t /\ h.objects[o].edges = e /\ h.objects[o].temporary = FALSE
        /\ h.objects[o] = x
        /\ \A p \in DOMAIN g.objects \ {o} : h.objects[p] = g.objects[p]
        /\ h.objects = [g.objects EXCEPT ![o] = x]
    <3>1. h = [g EXCEPT !.objects[o].twin = t, !.objects[o].temporary = FALSE]
      BY <1>3 DEF AddVertex
    <3> DEFINE y == [[g.objects[o] EXCEPT !.twin = t] EXCEPT !.temporary = FALSE]
    <3>2. y = x
      <4> DEFINE old == g.objects[o]
                 y1 == [old EXCEPT !.twin = t]
      <4>1. DOMAIN old = {"twin", "edges", "temporary"}
        BY <2>1 DEF Objects
      <4>2. y = [y1 EXCEPT !.temporary = FALSE] /\ e = old.edges
        OBVIOUS
      <4> HIDE DEF old, e, y
      <4>3. y1 = [n \in {"twin", "edges", "temporary"} |-> IF n = "twin" THEN t ELSE old[n]]
        BY <4>1
      <4>4. y = [n \in {"twin", "edges", "temporary"} |->
                    IF n = "temporary" THEN FALSE ELSE IF n = "twin" THEN t ELSE old[n]]
        BY <4>2, <4>3
      <4>5. QED
        BY <4>2, <4>4
    <3>3. DOMAIN g = {"numberOfVertex", "vertexes", "objects"}
      BY DEF IsGraph
    <3>4. h = [g EXCEPT !.objects = [g.objects EXCEPT ![o] = y]]
      BY <2>1, <3>1, <3>3
    <3> HIDE DEF y
    <3>5. h.objects = [g.objects EXCEPT ![o] = y] /\ DOMAIN h = DOMAIN g
          /\ h.numberOfVertex = g.numberOfVertex /\ h.vertexes = g.vertexes
      BY <3>3, <3>4
    <3>6. x.twin = t /\ x.edges = e /\ x.temporary = FALSE
      OBVIOUS
    <3> HIDE DEF x, e
    <3>7. /\ h.objects = [g.objects EXCEPT ![o] = x] /\ DOMAIN h.objects = DOMAIN g.objects
          /\ h.objects[o] = x /\ \A p \in DOMAIN g.objects \ {o} : h.objects[p] = g.objects[p]
      BY <2>1, <3>2, <3>5
    <3>8. QED
      BY <3>5, <3>6, <3>7
  <2> HIDE DEF x, e
  <2>4. h.objects \in Seq(Objects(T, DOMAIN g.objects))
    <3>1. g.objects \in Seq(Objects(T, DOMAIN g.objects))
      BY DEF IsGraph, Objects
    <3>2. QED
      BY <2>1, <2>2, <2>3, <3>1, ExceptSeq
  <2>5. ASSUME NEW n \in DOMAIN g.vertexes \ {t.name} PROVE Vertex(h, n) = Vertex(g, n)
    <3>1. g.vertexes[n] \in DOMAIN g.objects \ {o}
      BY <1>3, GraphFacts DEF HasVertex
    <3>2. QED
      BY <2>3, <3>1 DEF Vertex
  <2>6. /\ Vertex(h, t.name).twin = t /\ ~Vertex(h, t.name).temporary
        /\ Vertex(h, t.name).edges = Vertex(g, t.name).edges
    BY <2>3 DEF Vertex, e
  <2>7. IsGraph(h, T)
    <3>1. ASSUME NEW n \in DOMAIN h.vertexes PROVE Vertex(h, n).twin.name = n
      <4>1. CASE n = t.name
        BY <2>6, <4>1
      <4>2. CASE n # t.name
        BY <2>3, <2>5, <4>2, GraphFacts
      <4>3. QED
        BY <4>1, <4>2
    <3>2. QED
      BY <2>3, <2>4, <3>1 DEF IsGraph, Objects
  <2>8. Grows(g, h, t.name)
    <3>1. SameNames(g, h)
      BY <1>3, <2>1, <2>3, GraphFacts DEF HasVertex, SameNames
    <3>2. QED
      BY <2>1, <2>3, <2>5, <2>6, <3>1 DEF Grows
  <2>9. Processed(h) = Processed(g) \union {t}
    BY <1>3, <2>1, <2>3, <2>5, <2>6 DEF Processed
  <2>10. QED
    BY <1>1, <1>3, <2>7, <2>8, <2>9
<1>4. CASE HasVertex(g, t.name) /\ ~Vertex(g, t.name).temporary
  BY <1>4 DEF AddVertex, HasVertex, Grows, SameNames
<1>5. QED
  BY <1>2, <1>3, <1>4

-----------------------------------------------------------------------------
(* Edges *)

\* h is g with edges e for the object o, whatever its counter says.
WithEdges(h, g, o, e) ==
    /\ DOMAIN h = {"numberOfVertex", "vertexes", "objects"} /\ h.numberOfVertex \in Int
    /\ h.vertexes = g.vertexes /\ h.objects = [g.objects EXCEPT ![o].edges = e]

\* New edges for one object.
LEMMA SetEdges ==
    ASSUME NEW T, NEW g, IsGraph(g, T), NEW o \in DOMAIN g.objects,
           NEW e \in Seq(DOMAIN g.objects), NEW h, WithEdges(h, g, o, e)
    PROVE  /\ IsGraph(h, T) /\ Processed(h) = Processed(g)
           /\ DOMAIN h.objects = DOMAIN g.objects /\ SameNames(g, h)
           /\ \A n \in DOMAIN g.vertexes :
                 /\ Vertex(h, n).twin = Vertex(g, n).twin
                 /\ Vertex(h, n).temporary = Vertex(g, n).temporary
                 /\ Vertex(h, n).edges = IF g.vertexes[n] = o THEN e ELSE Vertex(g, n).edges
<1> DEFINE D == DOMAIN g.objects
           x == [g.objects[o] EXCEPT !.edges = e]
<1>0. /\ DOMAIN h = {"numberOfVertex", "vertexes", "objects"} /\ h.numberOfVertex \in Int
      /\ h.vertexes = g.vertexes /\ h.objects = [g.objects EXCEPT ![o].edges = e]
  BY DEF WithEdges
<1>1. \A p \in D : g.objects[p] \in Objects(T, D)
  BY GraphFacts
<1>2. x \in Objects(T, D) /\ x.edges = e
  BY <1>1 DEF Objects
<1>3. /\ DOMAIN h.objects = D /\ h.objects[o] = x
      /\ x.twin = g.objects[o].twin /\ x.temporary = g.objects[o].temporary
      /\ \A p \in D \ {o} : h.objects[p] = g.objects[p]
  BY <1>0, <1>1 DEF Objects
<1>4. \A p \in D : /\ h.objects[p] \in Objects(T, D)
                   /\ h.objects[p].twin = g.objects[p].twin
                   /\ h.objects[p].temporary = g.objects[p].temporary
  <2> HIDE DEF x
  <2>1. QED
    BY <1>1, <1>2, <1>3
<1>5. h.objects \in Seq(Objects(T, D))
  <2>1. g.objects \in Seq(Objects(T, D))
    BY DEF IsGraph, Objects
  <2>2. h.objects = [g.objects EXCEPT ![o] = x]
    BY <1>0
  <2> HIDE DEF x
  <2>3. QED
    BY <1>2, <2>1, <2>2, ExceptSeq, LenProperties
<1>6. \A n \in DOMAIN g.vertexes :
        /\ Vertex(h, n).twin = Vertex(g, n).twin
        /\ Vertex(h, n).temporary = Vertex(g, n).temporary
        /\ Vertex(h, n).edges = IF g.vertexes[n] = o THEN e ELSE Vertex(g, n).edges
  <2> HIDE DEF x
  <2>1. QED
    BY <1>0, <1>2, <1>3, <1>4, GraphFacts DEF Vertex
<1>7. IsGraph(h, T)
  <2>1. /\ h.vertexes = g.vertexes
        /\ \A n \in DOMAIN g.vertexes : g.vertexes[n] \in D /\ Vertex(g, n).twin.name = n
    BY <1>0, GraphFacts
  <2>2. \A n \in DOMAIN h.vertexes : Vertex(h, n).twin.name = n
    BY <1>6, <2>1
  <2>3. h.vertexes \in [DOMAIN h.vertexes -> DOMAIN h.objects]
    <3> HIDE DEF D
    <3>1. g.vertexes \in [DOMAIN g.vertexes -> D]
      BY DEF IsGraph, D
    <3>2. QED
      BY <1>3, <2>1, <3>1
  <2>4. h.objects \in Seq([twin : T, edges : Seq(DOMAIN h.objects), temporary : BOOLEAN])
    BY <1>3, <1>5 DEF Objects
  <2>5. QED
    BY <1>0, <2>2, <2>3, <2>4 DEF IsGraph
<1>8. Processed(h) = Processed(g) /\ SameNames(g, h)
  BY <1>0, <1>4, <1>6 DEF Processed, SameNames
<1>9. QED
  BY <1>3, <1>6, <1>7, <1>8

\* h is g with one more edge, from n to m, between names that are in the map.
Linked(g, h, n, m) ==
    /\ h.vertexes = g.vertexes
    /\ \A v \in DOMAIN g.vertexes :
          /\ Vertex(h, v).twin = Vertex(g, v).twin
          /\ Vertex(h, v).temporary = Vertex(g, v).temporary
          /\ Vertex(h, v).edges = IF v = n THEN Append(Vertex(g, v).edges, g.vertexes[m])
                                  ELSE Vertex(g, v).edges

\* An edge adds one link, between names that are in the map then.
LEMMA AddEdgeGives ==
    ASSUME NEW T, NEW g, IsGraph(g, T), NEW s \in T, NEW t \in T, NEW h, h = AddEdge(g, s, t)
    PROVE  /\ IsGraph(h, T) /\ Processed(h) = Processed(g)
           /\ DOMAIN h.vertexes = DOMAIN g.vertexes \union {s.name, t.name}
           /\ Links(h) = Links(g) \union {<<s.name, t.name>>}
           /\ Dangling(h) \subseteq Dangling(g)
           /\ {s.name, t.name} \subseteq DOMAIN g.vertexes => Linked(g, h, s.name, t.name)
<1> DEFINE one == AddTemporaryVertex(g, s)
           both == AddTemporaryVertex(one, t)
           o == both.vertexes[s.name]
           p == both.vertexes[t.name]
           e == Vertex(both, s.name).edges
<1>1. IsGraph(one, T) /\ Grows(g, one, s.name) /\ Processed(one) = Processed(g)
      /\ (s.name \in DOMAIN g.vertexes => one = g)
  BY AddTemporaryGives
<1>2. Links(one) = Links(g) /\ Dangling(one) \subseteq Dangling(g)
  BY <1>1, GrowsKeeps
<1> HIDE DEF one
<1>3. IsGraph(both, T) /\ Grows(one, both, t.name) /\ Processed(both) = Processed(one)
      /\ (t.name \in DOMAIN one.vertexes => both = one)
  BY <1>1, AddTemporaryGives
<1>4. Links(both) = Links(g) /\ Dangling(both) \subseteq Dangling(g)
  BY <1>1, <1>2, <1>3, GrowsKeeps
<1>5. h = [both EXCEPT !.objects[o].edges = Append(@, p), !.numberOfVertex = @ + 1]
  BY DEF AddEdge, one
<1> HIDE DEF both
<1>6. /\ DOMAIN both.vertexes = DOMAIN g.vertexes \union {s.name, t.name}
      /\ ({s.name, t.name} \subseteq DOMAIN g.vertexes => both = g)
  BY <1>1, <1>3 DEF Grows
<1>7. /\ o \in DOMAIN both.objects /\ p \in DOMAIN both.objects
      /\ e \in Seq(DOMAIN both.objects) /\ e = both.objects[o].edges
      /\ \A n \in DOMAIN both.vertexes : both.vertexes[n] = o <=> n = s.name
  <2>1. s.name \in DOMAIN both.vertexes /\ t.name \in DOMAIN both.vertexes
    BY <1>6
  <2>2. /\ o \in DOMAIN both.objects /\ p \in DOMAIN both.objects
        /\ Vertex(both, s.name) \in Objects(T, DOMAIN both.objects)
        /\ Vertex(both, s.name) = both.objects[o]
        /\ \A n \in DOMAIN both.vertexes : both.vertexes[n] = o => n = s.name
    BY <1>3, <2>1, GraphFacts
  <2>3. e \in Seq(DOMAIN both.objects)
    BY <2>2 DEF Objects
  <2>4. QED
    BY <2>2, <2>3
<1>8. /\ Append(e, p) \in Seq(DOMAIN both.objects) /\ Range(Append(e, p)) = Range(e) \union {p}
  <2> DEFINE D == DOMAIN both.objects
  <2>0. e \in Seq(D) /\ p \in D
    BY <1>7
  <2> HIDE DEF e, p, D
  <2>1. /\ Append(e, p) \in Seq(D) /\ Len(Append(e, p)) = Len(e) + 1
        /\ \A k \in 1..Len(e) : Append(e, p)[k] = e[k]
        /\ Append(e, p)[Len(e) + 1] = p
    BY <2>0, AppendProperties
  <2>2. /\ DOMAIN Append(e, p) = 1..(Len(e) + 1) /\ DOMAIN e = 1..Len(e) /\ Len(e) \in Nat
    BY <2>0, <2>1, LenProperties
  <2>3. Range(Append(e, p)) = Range(e) \union {p}
    BY <2>1, <2>2 DEF Range
  <2>4. QED
    BY <2>1, <2>3 DEF D
<1> DEFINE c == Append(e, p)
<1>9. /\ DOMAIN h = {"numberOfVertex", "vertexes", "objects"} /\ h.numberOfVertex \in Int
      /\ h.vertexes = both.vertexes /\ h.objects = [both.objects EXCEPT ![o].edges = c]
  <2>1. DOMAIN both = {"numberOfVertex", "vertexes", "objects"} /\ both.numberOfVertex \in Int
    BY <1>3 DEF IsGraph
  <2> DEFINE q == [both.objects EXCEPT ![o].edges = c]
  <2>2. h = [[both EXCEPT !.objects = q] EXCEPT !.numberOfVertex = both.numberOfVertex + 1]
    BY <1>5, <1>7, <2>1
  <2> HIDE DEF q
  <2>3. /\ DOMAIN h = {"numberOfVertex", "vertexes", "objects"} /\ h.numberOfVertex \in Int
        /\ h.vertexes = both.vertexes /\ h.objects = q
    BY <2>1, <2>2
  <2>4. QED
    BY <2>3 DEF q
<1> HIDE DEF c
<1>10. /\ IsGraph(h, T) /\ Processed(h) = Processed(both) /\ SameNames(both, h)
       /\ \A n \in DOMAIN both.vertexes :
             /\ Vertex(h, n).twin = Vertex(both, n).twin
             /\ Vertex(h, n).temporary = Vertex(both, n).temporary
             /\ Vertex(h, n).edges = IF n = s.name THEN c ELSE Vertex(both, n).edges
  <2>1. c \in Seq(DOMAIN both.objects)
    BY <1>8 DEF c
  <2>2. /\ IsGraph(h, T) /\ Processed(h) = Processed(both) /\ SameNames(both, h)
        /\ \A n \in DOMAIN both.vertexes :
             /\ Vertex(h, n).twin = Vertex(both, n).twin
             /\ Vertex(h, n).temporary = Vertex(both, n).temporary
             /\ Vertex(h, n).edges = IF both.vertexes[n] = o THEN c ELSE Vertex(both, n).edges
    <3>1. o \in DOMAIN both.objects /\ WithEdges(h, both, o, c)
      BY <1>7, <1>9 DEF WithEdges
    <3> HIDE DEF o
    <3>2. QED
      BY <1>3, <2>1, <3>1, SetEdges
  <2>3. QED
    BY <1>7, <2>2
<1>11. Links(h) = Links(both) \union {<<s.name, t.name>>}
  <2>1. \A n, m \in DOMAIN both.vertexes :
          both.vertexes[m] \in Range(Vertex(h, n).edges)
            <=> \/ both.vertexes[m] \in Range(Vertex(both, n).edges)
                \/ n = s.name /\ m = t.name
    <3>1. \A m \in DOMAIN both.vertexes : both.vertexes[m] = p <=> m = t.name
      BY <1>3, <1>6, GraphFacts
    <3>2. QED
      BY <1>8, <1>10, <3>1 DEF c
  <2>2. QED
    BY <1>6, <1>9, <2>1 DEF Links
<1>12. Dangling(h) \subseteq Dangling(g)
  <2>1. p \in Range(both.vertexes)
    BY <1>6 DEF Range
  <2>2. \A n, x : Lost(h, n, x) => Lost(both, n, x)
    BY <1>8, <1>9, <1>10, <2>1 DEF Lost, c
  <2>3. QED
    BY <1>3, <1>4, <1>10, <2>2, NoneLost
<1>13. ASSUME {s.name, t.name} \subseteq DOMAIN g.vertexes PROVE Linked(g, h, s.name, t.name)
  <2>1. both = g
    BY <1>6, <1>13
  <2>2. QED
    BY <1>9, <1>10, <2>1 DEF c, Linked
<1>14. QED
  BY <1>1, <1>3, <1>4, <1>6, <1>9, <1>10, <1>11, <1>12, <1>13

\* At most the link from s to t goes, and the list has no new edges.
LEMMA RemoveEdgesBetweenGives ==
    ASSUME NEW T, NEW g, IsGraph(g, T), NEW s, NEW t, NEW h, h = RemoveEdgesBetween(g, s, t)
    PROVE  /\ IsGraph(h, T) /\ Processed(h) = Processed(g) /\ h.vertexes = g.vertexes
           /\ Links(h) \subseteq Links(g) /\ Links(g) \ Links(h) \subseteq {<<s.name, t.name>>}
           /\ Dangling(h) \subseteq Dangling(g)
<1>1. CASE ~HasVertex(g, s.name)
  BY <1>1 DEF RemoveEdgesBetween
<1>2. CASE HasVertex(g, s.name)
  <2> DEFINE o == g.vertexes[s.name]
             D == DOMAIN g.objects
             e == g.objects[o].edges
             i == FindEdgeIndex(g, e, t)
             c == RemoveIndexInPlace(e, i)
  <2>1. /\ s.name \in DOMAIN g.vertexes /\ o \in D /\ e = Vertex(g, s.name).edges
        /\ g.objects[o] \in Objects(T, D)
        /\ \A n \in DOMAIN g.vertexes : g.vertexes[n] = o => n = s.name
    BY <1>2, GraphFacts DEF HasVertex
  <2>2. e \in Seq(D)
    BY <2>1 DEF Objects
  <2>3. h = [g EXCEPT !.objects[o].edges = c]
    BY <1>2 DEF RemoveEdgesBetween
  <2>4. i \in 0..Len(e) /\ (i # 0 => g.objects[e[i]].twin.name = t.name)
    <3> HIDE DEF e, D
    <3>1. i \in 0..Len(e) /\ (i # 0 => Named(g, e[i], t))
      BY <2>2, Find
    <3>2. QED
      BY <3>1 DEF Named
  <2>5. /\ c \in Seq(D) /\ Range(c) \subseteq Range(e)
        /\ \A x \in Range(e) : x \in Range(c) \/ (i # 0 /\ x = e[i])
    <3> HIDE DEF e, D, i
    <3>1. QED
      BY <2>2, <2>4, RemoveInPlaceGives
  <2> HIDE DEF c
  <2>6. /\ DOMAIN h = {"numberOfVertex", "vertexes", "objects"} /\ h.numberOfVertex \in Int
        /\ h.vertexes = g.vertexes /\ h.objects = [g.objects EXCEPT ![o].edges = c]
    <3>1. DOMAIN g = {"numberOfVertex", "vertexes", "objects"} /\ g.numberOfVertex \in Int
      BY DEF IsGraph
    <3> DEFINE q == [g.objects EXCEPT ![o].edges = c]
    <3>2. h = [g EXCEPT !.objects = q]
      BY <2>3
    <3> HIDE DEF q
    <3>3. h.objects = q
      BY <3>1, <3>2
    <3>4. QED
      BY <3>1, <3>2, <3>3 DEF q
  <2>7. /\ IsGraph(h, T) /\ Processed(h) = Processed(g) /\ SameNames(g, h)
        /\ \A n \in DOMAIN g.vertexes :
              Vertex(h, n).edges = IF g.vertexes[n] = o THEN c ELSE Vertex(g, n).edges
    <3>1. o \in DOMAIN g.objects /\ c \in Seq(DOMAIN g.objects)
      BY <2>1, <2>5
    <3>2. WithEdges(h, g, o, c)
      BY <2>6 DEF WithEdges
    <3> HIDE DEF o, e, i, D
    <3>3. QED
      BY <3>1, <3>2, SetEdges
  <2>8. \A n, m \in DOMAIN g.vertexes :
          /\ g.vertexes[m] \in Range(Vertex(h, n).edges)
                => g.vertexes[m] \in Range(Vertex(g, n).edges)
          /\ g.vertexes[m] \in Range(Vertex(g, n).edges)
                => \/ g.vertexes[m] \in Range(Vertex(h, n).edges)
                   \/ n = s.name /\ m = t.name
    <3> SUFFICES ASSUME NEW n \in DOMAIN g.vertexes, NEW m \in DOMAIN g.vertexes
                 PROVE  /\ g.vertexes[m] \in Range(Vertex(h, n).edges)
                             => g.vertexes[m] \in Range(Vertex(g, n).edges)
                        /\ g.vertexes[m] \in Range(Vertex(g, n).edges)
                             => \/ g.vertexes[m] \in Range(Vertex(h, n).edges)
                                \/ n = s.name /\ m = t.name
      OBVIOUS
    <3>1. CASE n # s.name
      BY <2>1, <2>7, <3>1
    <3>2. CASE n = s.name
      <4>1. Vertex(h, n).edges = c /\ Vertex(g, n).edges = e
        BY <2>1, <2>7, <3>2
      <4>2. g.objects[g.vertexes[m]].twin.name = m
        BY GraphFacts
      <4> HIDE DEF e, i
      <4>3. QED
        BY <2>4, <2>5, <3>2, <4>1, <4>2
    <3>3. QED
      BY <3>1, <3>2
  <2>9. Links(h) \subseteq Links(g) /\ Links(g) \ Links(h) \subseteq {<<s.name, t.name>>}
    BY <2>6, <2>8 DEF Links
  <2>10. Dangling(h) \subseteq Dangling(g)
    <3>1. \A n \in DOMAIN g.vertexes : Range(Vertex(h, n).edges) \subseteq Range(Vertex(g, n).edges)
      <4> HIDE DEF c, e, i
      <4>1. \A n \in DOMAIN g.vertexes : g.vertexes[n] = o => Vertex(g, n).edges = e
        BY <2>1
      <4>2. QED
        BY <2>5, <2>7, <4>1
    <3>2. \A n, x : Lost(h, n, x) => Lost(g, n, x)
      BY <2>6, <3>1 DEF Lost
    <3>3. QED
      BY <2>7, <3>2, NoneLost
  <2>11. QED
    BY <2>6, <2>7, <2>9, <2>10
<1>3. QED
  BY <1>1, <1>2

\* Whatever happens to the lists, nothing but links between the two goes.
LEMMA RemoveEdgeGives ==
    ASSUME NEW T, NEW g, IsGraph(g, T), NEW s, NEW t, NEW h, h = RemoveEdge(g, s, t)
    PROVE  /\ IsGraph(h, T) /\ Processed(h) = Processed(g) /\ h.vertexes = g.vertexes
           /\ Links(h) \subseteq Links(g)
           /\ Links(g) \ Links(h) \subseteq {<<s.name, t.name>>, <<t.name, s.name>>}
           /\ Dangling(h) \subseteq Dangling(g)
<1> DEFINE one == RemoveEdgesBetween(g, s, t)
<1>1. /\ IsGraph(one, T) /\ Processed(one) = Processed(g) /\ one.vertexes = g.vertexes
      /\ Links(one) \subseteq Links(g) /\ Links(g) \ Links(one) \subseteq {<<s.name, t.name>>}
      /\ Dangling(one) \subseteq Dangling(g)
  BY RemoveEdgesBetweenGives
<1>2. h = RemoveEdgesBetween(one, t, s)
  BY DEF RemoveEdge
<1> HIDE DEF one
<1>3. /\ IsGraph(h, T) /\ Processed(h) = Processed(one) /\ h.vertexes = one.vertexes
      /\ Links(h) \subseteq Links(one) /\ Links(one) \ Links(h) \subseteq {<<t.name, s.name>>}
      /\ Dangling(h) \subseteq Dangling(one)
  BY <1>1, <1>2, RemoveEdgesBetweenGives
<1>4. QED
  BY <1>1, <1>3

-----------------------------------------------------------------------------
(* Removing *)

\* A vertex goes with its links, from and to it. An edge to it stays only in lists that had
\* more than one.
LEMMA RemoveVertexGives ==
    ASSUME NEW T, NEW g, IsGraph(g, T), NEW t, NEW h, h = RemoveVertex(g, t)
    PROVE  /\ IsGraph(h, T) /\ DOMAIN h.vertexes = DOMAIN g.vertexes \ {t.name}
           /\ Processed(h) = {u \in Processed(g) : u.name # t.name}
           /\ Links(h) = {l \in Links(g) : t.name \notin {l[1], l[2]}}
           /\ Dangling(h) \subseteq Dangling(g) \union Repeated(g)
<1>1. CASE ~HasVertex(g, t.name)
  <2>1. h = g /\ t.name \notin DOMAIN g.vertexes
    BY <1>1 DEF RemoveVertex, HasVertex
  <2>2. \A u \in Processed(g) : u.name # t.name
    BY <2>1, GraphFacts DEF Processed
  <2>3. \A l \in Links(g) : t.name \notin {l[1], l[2]}
    BY <2>1 DEF Links
  <2>4. QED
    BY <2>1, <2>2, <2>3
<1>2. CASE HasVertex(g, t.name)
  <2> DEFINE D == DOMAIN g.objects
             names == DOMAIN g.vertexes \ {t.name}
             left == [n \in names |-> g.vertexes[n]]
             remaining == {left[n] : n \in DOMAIN left}
             i(o) == FindEdgeIndex(g, g.objects[o].edges, t)
             c(o) == RemoveIndex(g.objects[o].edges, i(o))
             x(o) == IF o \notin remaining THEN g.objects[o]
                     ELSE [g.objects[o] EXCEPT !.edges = c(o)]
  <2>1. /\ h = [numberOfVertex |-> g.numberOfVertex - 1, vertexes |-> left,
                objects |-> [o \in D |-> x(o)]]
        /\ t.name \in DOMAIN g.vertexes
    BY <1>2 DEF RemoveVertex, HasVertex
  <2> HIDE DEF x
  <2>2. /\ DOMAIN h = {"numberOfVertex", "vertexes", "objects"}
        /\ h.numberOfVertex = g.numberOfVertex - 1
        /\ h.vertexes = left /\ h.objects = [o \in D |-> x(o)]
    BY <2>1
  <2>3. ASSUME NEW o \in D
        PROVE  /\ g.objects[o].edges \in Seq(D) /\ c(o) \in Seq(D)
               /\ i(o) \in 0..Len(g.objects[o].edges)
               /\ i(o) # 0 => g.objects[g.objects[o].edges[i(o)]].twin.name = t.name
               /\ i(o) = 0 => \A k \in 1..Len(g.objects[o].edges) :
                                 g.objects[g.objects[o].edges[k]].twin.name # t.name
               /\ Range(c(o)) \subseteq Range(g.objects[o].edges)
               /\ \A y \in Range(g.objects[o].edges) :
                     y \in Range(c(o)) \/ (i(o) # 0 /\ y = g.objects[o].edges[i(o)])
               /\ i(o) # 0 => \A y \in Range(c(o)) :
                                 \E k \in DOMAIN g.objects[o].edges \ {i(o)} : y = g.objects[o].edges[k]
    <3> DEFINE e == g.objects[o].edges
               j == FindEdgeIndex(g, e, t)
    <3>1. e \in Seq(D)
      BY GraphFacts DEF Objects
    <3> HIDE DEF e, D, i, c, names, left, remaining
    <3>2. /\ j \in 0..Len(e)
          /\ j # 0 => g.objects[e[j]].twin.name = t.name
          /\ j = 0 => \A k \in 1..Len(e) : g.objects[e[k]].twin.name # t.name
      <4>1. j = FindEdgeIndex(g, e, t)
        OBVIOUS
      <4> HIDE DEF j
      <4>2. j \in 0..Len(e)
        BY <3>1, <4>1, Find
      <4>3. j # 0 => Named(g, e[j], t)
        BY <3>1, <4>1, Find
      <4>4. j = 0 => \A k \in 1..Len(e) : g.objects[e[k]].twin.name # t.name
        BY <3>1, <4>1, FindNothing
      <4>5. QED
        BY <4>2, <4>3, <4>4 DEF Named
    <3> HIDE DEF j
    <3>3. /\ RemoveIndex(e, j) \in Seq(D)
          /\ Range(RemoveIndex(e, j)) \subseteq Range(e)
          /\ \A y \in Range(e) : y \in Range(RemoveIndex(e, j)) \/ (j # 0 /\ y = e[j])
          /\ j # 0 => \A y \in Range(RemoveIndex(e, j)) : \E k \in DOMAIN e \ {j} : y = e[k]
      BY <3>1, <3>2, RemoveIndexGives
    <3>4. QED
      BY <3>1, <3>2, <3>3 DEF e, j, D, i, c
  <2> HIDE DEF i, c
  <2>4. ASSUME NEW o \in D
        PROVE  /\ x(o) \in Objects(T, D)
               /\ x(o).twin = g.objects[o].twin /\ x(o).temporary = g.objects[o].temporary
               /\ o \in remaining => x(o).edges = c(o)
    <3> HIDE DEF remaining, D
    <3>1. g.objects[o] \in Objects(T, D)
      BY GraphFacts DEF D
    <3>2. QED
      BY <2>3, <3>1 DEF x, Objects
  <2>5. h.objects \in Seq(Objects(T, D)) /\ DOMAIN h.objects = D
    <3>1. D = 1..Len(g.objects) /\ Len(g.objects) \in Nat
      BY GraphFacts
    <3>2. h.objects \in [1..Len(g.objects) -> Objects(T, D)]
      BY <2>2, <2>4, <3>1
    <3>3. QED
      BY <2>2, <3>1, <3>2
  <2>6. ASSUME NEW n \in names
        PROVE  /\ h.vertexes[n] = g.vertexes[n] /\ g.vertexes[n] \in D
               /\ Vertex(h, n).twin = Vertex(g, n).twin
               /\ Vertex(h, n).temporary = Vertex(g, n).temporary
               /\ Vertex(g, n).edges = g.objects[g.vertexes[n]].edges
               /\ Vertex(h, n).edges = c(g.vertexes[n])
    <3>1. /\ g.vertexes[n] \in D /\ g.vertexes[n] \in remaining /\ h.vertexes[n] = g.vertexes[n]
          /\ Vertex(g, n) = g.objects[g.vertexes[n]] /\ Vertex(h, n) = x(g.vertexes[n])
      BY <2>2, GraphFacts DEF Vertex
    <3>2. QED
      BY <2>4, <3>1
  <2>7. IsGraph(h, T)
    <3>1. \A n \in names : Vertex(h, n).twin.name = n
      BY <2>6, GraphFacts
    <3>2. h.vertexes \in [DOMAIN h.vertexes -> DOMAIN h.objects] /\ DOMAIN h.vertexes = names
      BY <2>2, <2>5, <2>6
    <3>3. h.numberOfVertex \in Int
      BY <2>2 DEF IsGraph
    <3>4. QED
      BY <2>2, <2>5, <3>1, <3>2, <3>3 DEF IsGraph, Objects
  <2>8. Processed(h) = {u \in Processed(g) : u.name # t.name}
    <3>1. DOMAIN h.vertexes = names
      BY <2>2
    <3>2. Processed(h) = {Vertex(g, n).twin : n \in {m \in names : ~Vertex(g, m).temporary}}
      BY <2>6, <3>1 DEF Processed
    <3>3. \A n \in DOMAIN g.vertexes : Vertex(g, n).twin.name = n
      BY GraphFacts
    <3>4. QED
      BY <3>2, <3>3 DEF Processed
  <2>9. ASSUME NEW n \in names, NEW m \in names
        PROVE  h.vertexes[m] \in Range(Vertex(h, n).edges)
                 <=> g.vertexes[m] \in Range(Vertex(g, n).edges)
    <3> DEFINE o == g.vertexes[n]
    <3>1. o \in D /\ h.vertexes[m] = g.vertexes[m]
          /\ Vertex(h, n).edges = c(o) /\ Vertex(g, n).edges = g.objects[o].edges
      BY <2>6
    <3>2. g.objects[g.vertexes[m]].twin.name # t.name
      BY GraphFacts
    <3> HIDE DEF o
    <3>3. QED
      BY <2>3, <3>1, <3>2
  <2>10. Links(h) = {l \in Links(g) : t.name \notin {l[1], l[2]}}
    <3>1. DOMAIN h.vertexes = names
      BY <2>2
    <3>2. QED
      BY <2>9, <3>1 DEF Links
  <2>11. ASSUME NEW n, NEW y, Lost(h, n, y), ~Lost(g, n, y)
         PROVE  <<n, g.objects[y].twin.name>> \in Repeated(g)
    <3> DEFINE o == g.vertexes[n]
               e == g.objects[o].edges
    <3>1. n \in names /\ y \in Range(Vertex(h, n).edges) /\ y \notin Range(h.vertexes)
      BY <2>2, <2>11 DEF Lost
    <3>2. /\ o \in D /\ Vertex(h, n).edges = c(o) /\ Vertex(g, n).edges = e
          /\ y \in Range(c(o)) /\ y \in Range(e)
      BY <2>3, <2>6, <3>1
    <3>3. y = g.vertexes[t.name] /\ g.objects[y].twin.name = t.name /\ y \in DOMAIN g.objects
      <4>1. y \in Range(g.vertexes)
        BY <2>11, <3>1, <3>2 DEF Lost
      <4>2. PICK m \in DOMAIN g.vertexes : y = g.vertexes[m]
        BY <4>1 DEF Range
      <4>3. m = t.name
        BY <2>2, <3>1, <4>2 DEF Range
      <4>4. QED
        BY <4>2, <4>3, GraphFacts
    <3>4. e \in Seq(D) /\ DOMAIN e = 1..Len(e)
      BY <2>3, <3>2, LenProperties
    <3>5. i(o) \in DOMAIN e /\ g.objects[e[i(o)]].twin.name = t.name
      <4>1. PICK k \in DOMAIN e : e[k] = y
        BY <3>2 DEF Range
      <4>2. i(o) # 0
        <5>1. k \in 1..Len(e) /\ g.objects[e[k]].twin.name = t.name
          BY <3>3, <3>4, <4>1
        <5>2. i(o) = 0 => \A l \in 1..Len(e) : g.objects[e[l]].twin.name # t.name
          BY <2>3, <3>2
        <5>3. QED
          BY <5>1, <5>2
      <4>3. i(o) \in 0..Len(e) /\ g.objects[e[i(o)]].twin.name = t.name /\ Len(e) \in Nat
        BY <2>3, <3>2, <3>4, <4>2, LenProperties
      <4> HIDE DEF e, o
      <4>4. QED
        BY <3>4, <4>2, <4>3
    <3>6. PICK k \in DOMAIN e \ {i(o)} : y = e[k]
      <4>1. i(o) # 0
        BY <3>4, <3>5
      <4>2. QED
        BY <2>3, <3>2, <4>1
    <3>7. <<n, t.name>> \in NamePairs(g)
      BY <3>1, <3>3 DEF NamePairs, Range
    <3>8. {i(o), k} \subseteq Edges(g, n, t.name) /\ i(o) # k
      BY <3>2, <3>3, <3>5, <3>6 DEF Edges
    <3>9. QED
      BY <3>3, <3>7, <3>8 DEF Repeated
  <2>12. Dangling(h) \subseteq Dangling(g) \union Repeated(g)
    <3> SUFFICES ASSUME NEW l \in Dangling(h) PROVE l \in Dangling(g) \union Repeated(g)
      OBVIOUS
    <3>1. PICK n, m : l = <<n, m>>
      BY DEF Dangling, NamePairs
    <3>2. PICK y : Lost(h, n, y) /\ h.objects[y].twin.name = m
      BY <2>7, <3>1, DanglingIsLost
    <3>3. y \in D
      BY <2>5, <2>7, <3>2, GraphFacts DEF Lost
    <3>4. g.objects[y].twin.name = m
      BY <2>2, <2>4, <3>2, <3>3
    <3>5. QED
      BY <2>11, <3>1, <3>2, <3>4, DanglingIsLost
  <2>13. QED
    BY <2>2, <2>7, <2>8, <2>10, <2>12
<1>3. QED
  BY <1>1, <1>2
=============================================================================
