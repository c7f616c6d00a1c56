---------------------------- MODULE Routing_proofs ----------------------------
(***************************************************************************)
(* Proofs about Routing, for every set of interface names, every set of    *)
(* specs and every bound: the clashes of names that joining with dashes    *)
(* and dots can make, and those it cannot.                                 *)
(***************************************************************************)
EXTENDS Routing, SequenceTheorems, WellFoundedInduction, TLAPS

-----------------------------------------------------------------------------
(* Sequences *)

\* A non-empty set of naturals has a smallest element.
LEMMA Smallest ==
    ASSUME NEW S \in SUBSET Nat, S # {}
    PROVE  \E m \in S : \A k \in S : m <= k
<1>1. PICK m \in S : \A k \in S : <<k, m>> \notin OpToRel(<, Nat)
  BY NatLessThanWellFounded, WFMin
<1>2. \A k \in S : ~(k < m)
  BY <1>1 DEF OpToRel
<1>3. QED
  BY <1>2

\* Two sequences of tokens with something appended to each are equal only if what is
\* appended is equal, when the beginnings have one length.
LEMMA SameLength ==
    ASSUME NEW T, NEW s \in Seq(T), NEW t \in Seq(T), NEW u \in Seq(T), NEW v \in Seq(T),
           s \o u = t \o v, Len(s) = Len(t)
    PROVE  s = t /\ u = v
<1>1. \A k \in 1..Len(s) : s[k] = t[k]
  <2> SUFFICES ASSUME NEW k \in 1..Len(s) PROVE s[k] = t[k]
    OBVIOUS
  <2>1. (s \o u)[k] = s[k] /\ (t \o v)[k] = t[k]
    BY ConcatProperties, LenProperties
  <2>2. QED
    BY <2>1
<1>2. s = t
  BY <1>1, SeqEqual
<1>3. QED
  BY <1>2, ConcatSimplifications

\* Joined sequences can be grouped either way. The provers are quick with an operator they
\* need not look into.
Join(s, t) == s \o t
LEMMA Grouped ==
    ASSUME NEW T, NEW s \in Seq(T), NEW t \in Seq(T), NEW u \in Seq(T)
    PROVE  Join(s, t) \in Seq(T) /\ Join(Join(s, t), u) = Join(s, Join(t, u))
<1>1. s \o t \in Seq(T)
  BY ConcatProperties
<1>2. (s \o t) \o u = s \o (t \o u)
  BY ConcatAssociative, SMTT(30)
<1>3. QED
  BY <1>1, <1>2 DEF Join

\* The position after the shorter of two beginnings.
LEMMA Separated ==
    ASSUME NEW T, NEW sep \in T, NEW s \in Seq(T), NEW t \in Seq(T), NEW u \in Seq(T),
           NEW v \in Seq(T), (s \o <<sep>>) \o u = t \o v, Len(s) < Len(t)
    PROVE  IsPrefix(Append(s, sep), t)
<1> DEFINE a == s \o <<sep>>
<1>1. /\ a \in Seq(T) /\ a = Append(s, sep) /\ Len(a) = Len(s) + 1
      /\ Len(s) \in Nat /\ Len(t) \in Nat
  BY AppendIsConcat, AppendProperties, LenProperties
<1> HIDE DEF a
<1>2. \A k \in 1..Len(a) : a[k] = t[k]
  <2> SUFFICES ASSUME NEW k \in 1..Len(a) PROVE a[k] = t[k]
    OBVIOUS
  <2>1. k \in 1..Len(a) + Len(u) /\ k \in 1..Len(t) + Len(v) /\ k <= Len(a) /\ k <= Len(t)
    BY <1>1, LenProperties
  <2>2. (a \o u)[k] = a[k] /\ (t \o v)[k] = t[k]
    BY <1>1, <2>1, ConcatProperties
  <2>3. QED
    BY <2>2 DEF a
<1>3. SubSeq(a, 1, Len(a)) = SubSeq(t, 1, Len(a))
  <2>1. \A k \in 1..Len(a) : a[k] \in T /\ t[k] \in T
    BY <1>1, <1>2, ElementOfSeq
  <2>2. /\ SubSeq(a, 1, Len(a)) \in Seq(T) /\ SubSeq(t, 1, Len(a)) \in Seq(T)
        /\ Len(SubSeq(a, 1, Len(a))) = Len(a) /\ Len(SubSeq(t, 1, Len(a))) = Len(a)
        /\ \A k \in 1..Len(a) : SubSeq(a, 1, Len(a))[k] = a[k] /\ SubSeq(t, 1, Len(a))[k] = t[k]
    BY <1>1, <2>1, SubSeqProperties
  <2>3. QED
    BY <1>2, <2>2, SeqEqual
<1>4. QED
  BY <1>1, <1>3 DEF IsPrefix

\* Names joined with a separator come apart again, unless one, with the separator, begins
\* the other.
LEMMA Joined ==
    ASSUME NEW T, NEW sep \in T, NEW s \in Seq(T), NEW t \in Seq(T), NEW u \in Seq(T),
           NEW v \in Seq(T), (s \o <<sep>>) \o u = (t \o <<sep>>) \o v,
           ~IsPrefix(Append(s, sep), t), ~IsPrefix(Append(t, sep), s)
    PROVE  s = t /\ u = v
<1> DEFINE d == <<sep>>
           a == s \o d
           b == t \o d
<1>1. /\ Len(s) \in Nat /\ Len(t) \in Nat /\ d \in Seq(T)
      /\ Len(a) = Len(s) + 1 /\ Len(b) = Len(t) + 1
      /\ a \in Seq(T) /\ b \in Seq(T)
  BY AppendIsConcat, AppendProperties, LenProperties
<1> HIDE DEF d
<1>2. /\ d \o u \in Seq(T) /\ d \o v \in Seq(T)
      /\ a \o u = s \o (d \o u)
      /\ b \o v = t \o (d \o v)
  <2>1. d \in Seq(T)
    BY <1>1
  <2>2. d \o u \in Seq(T) /\ d \o v \in Seq(T)
    BY <2>1, ConcatProperties
  <2>3. a \o u = s \o (d \o u)
    <3>1. Join(Join(s, d), u) = Join(s, Join(d, u))
      BY <2>1, Grouped
    <3>2. QED
      BY <3>1 DEF Join
  <2>4. b \o v = t \o (d \o v)
    <3>1. Join(Join(t, d), v) = Join(t, Join(d, v))
      BY <2>1, Grouped
    <3>2. QED
      BY <3>1 DEF Join
  <2>5. QED
    BY <2>2, <2>3, <2>4
<1>3. a \o u = b \o v
  BY DEF d
<1>4. Len(s) = Len(t)
  <2>1. ~(Len(s) < Len(t))
    BY <1>2, <1>3, Separated DEF d
  <2>2. ~(Len(t) < Len(s))
    BY <1>2, <1>3, Separated DEF d
  <2>3. QED
    BY <1>1, <2>1, <2>2
<1>5. a = b /\ u = v
  <2> HIDE DEF a, b
  <2>1. Len(a) = Len(b) /\ a \in Seq(T) /\ b \in Seq(T)
    BY <1>1, <1>4
  <2>2. QED
    BY <1>3, <2>1, SameLength, Zenon
<1>6. s = t
  BY <1>1, <1>4, <1>5, SameLength
<1>7. QED
  BY <1>5, <1>6

-----------------------------------------------------------------------------
(* Names and types *)

\* The tokens of names, and those the operator adds.
Endings == {"real-mqtt-dispatcher", "event-store", "real-dispatcher", "command-dispatcher"}
AllTokens == Tokens \union Endings \union {"twinscale", "real", "eventstore", "command", "-", "."}

\* Names of interfaces, relationships and commands, also in lower case, are sequences of
\* tokens.
LEMMA NameSeq ==
    ASSUME NEW n \in Name
    PROVE  /\ n \in Seq(AllTokens) /\ ToLower(n) \in Seq(AllTokens)
           /\ Len(ToLower(n)) = Len(n) /\ Len(n) \in Nat
<1>1. n \in [1..Len(n) -> Tokens] /\ Len(n) \in Nat /\ DOMAIN n = 1..Len(n)
  BY LenProperties DEF Name
<1>2. ToLower(n) \in [1..Len(n) -> Tokens]
  BY <1>1, RoutingAssumption DEF ToLower
<1>3. ToLower(n) \in Seq(Tokens) /\ Len(ToLower(n)) = Len(n)
  BY <1>1, <1>2, IsASeq, LenProperties
<1>4. QED
  BY <1>1, <1>3, SeqMonotonic DEF Name, AllTokens

\* Interfaces, relationships and commands have names.
LEMMA SpecNames ==
    /\ \A i \in Ifaces : i \in Name /\ ToLower(i) = i
    /\ \A s \in Specs : /\ s.service \in BOOLEAN
                        /\ \A k \in DOMAIN s.rels : /\ s.rels[k].name \in Name
                                                    /\ s.rels[k].target \in Name
                        /\ \A k \in DOMAIN s.cmds : s.cmds[k] \in Name
                        /\ DOMAIN s.rels \subseteq Nat /\ DOMAIN s.cmds \subseteq Nat
<1>1. ASSUME NEW i \in Ifaces PROVE i \in Name /\ ToLower(i) = i
  <2>1. i \in Seq(Tokens) /\ i \in Name /\ \A k \in DOMAIN i : Lower[i[k]] = i[k]
    BY RoutingAssumption DEF Name
  <2>2. i = [k \in DOMAIN i |-> i[k]]
    BY <2>1, LenProperties
  <2>3. QED
    BY <2>1, <2>2 DEF ToLower
<1>2. ASSUME NEW s \in Specs
      PROVE  /\ s.service \in BOOLEAN
             /\ \A k \in DOMAIN s.rels : s.rels[k].name \in Name /\ s.rels[k].target \in Name
             /\ \A k \in DOMAIN s.cmds : s.cmds[k] \in Name
             /\ DOMAIN s.rels \subseteq Nat /\ DOMAIN s.cmds \subseteq Nat
  <2> DEFINE Rel == [name: Name, target: Name, aggregate: BOOLEAN]
  <2>1. s.service \in BOOLEAN /\ s.rels \in Seq(Rel) /\ s.cmds \in Seq(Name)
    BY RoutingAssumption DEF IsSpec
  <2>2. /\ DOMAIN s.rels = 1..Len(s.rels) /\ Len(s.rels) \in Nat
        /\ DOMAIN s.cmds = 1..Len(s.cmds) /\ Len(s.cmds) \in Nat
    BY <2>1, LenProperties
  <2>3. \A k \in DOMAIN s.rels : s.rels[k] \in Rel
    BY <2>1, <2>2, ElementOfSeq
  <2>4. \A k \in DOMAIN s.cmds : s.cmds[k] \in Name
    BY <2>1, <2>2, ElementOfSeq
  <2>5. QED
    BY <2>1, <2>2, <2>3, <2>4
<1>3. QED
  BY <1>1, <1>2

\* The type of a command: the name of the interface, a dot, and the rest.
LEMMA CommandForm ==
    ASSUME NEW i \in Name, NEW c \in Name
    PROVE  /\ CommandExecuted(i, c) = <<"twinscale", ".", "command", ".">> \o ((i \o <<".">>) \o c)
           /\ (i \o <<".">>) \o c \in Seq(AllTokens)
<1> DEFINE h == <<"twinscale", ".", "command", ".">>
           dot == <<".">>
<1>1. h \in Seq(AllTokens) /\ dot \in Seq(AllTokens)
  BY DEF AllTokens
<1>2. CommandExecuted(i, c) = ((h \o i) \o dot) \o c
  BY DEF CommandExecuted
<1> HIDE DEF h, dot
<1>3. i \in Seq(AllTokens) /\ c \in Seq(AllTokens)
  BY NameSeq
<1>4. ((h \o i) \o dot) \o c = h \o ((i \o dot) \o c)
  <2>1. Join(Join(h, i), dot) = Join(h, Join(i, dot)) /\ Join(i, dot) \in Seq(AllTokens)
    BY <1>1, <1>3, Grouped
  <2>2. Join(Join(h, Join(i, dot)), c) = Join(h, Join(Join(i, dot), c))
    BY <1>1, <1>3, <2>1, Grouped
  <2>3. Join(Join(Join(h, i), dot), c) = Join(h, Join(Join(i, dot), c))
    BY <2>1, <2>2
  <2>4. QED
    BY <2>3 DEF Join
<1>5. (i \o dot) \o c \in Seq(AllTokens)
  BY <1>1, <1>3
<1>6. QED
  BY <1>2, <1>4, <1>5 DEF h, dot

\* Types of different kinds differ, in their third token.
LEMMA KindsDiffer ==
    ASSUME NEW i \in Name, NEW j \in Name, NEW c \in Name
    PROVE  /\ Real(i) # EventStoreGenerated(j) /\ Real(i) # CommandExecuted(j, c)
           /\ CommandExecuted(j, c) # EventStoreGenerated(i)
<1> DEFINE head(x) == <<"twinscale", ".", x, ".">>
<1>1. \A x \in {"real", "eventstore", "command"} :
        head(x) \in Seq(AllTokens) /\ Len(head(x)) = 4 /\ head(x)[3] = x
  BY DEF AllTokens
<1> HIDE DEF head
<1>2. ASSUME NEW x \in {"real", "eventstore", "command"}, NEW s \in Seq(AllTokens)
      PROVE  /\ head(x) \o s \in Seq(AllTokens) /\ Len(head(x) \o s) >= 4
             /\ (head(x) \o s)[3] = x
  <2>1. Len(s) \in Nat
    BY LenProperties
  <2>2. 3 \in 1..(Len(head(x)) + Len(s))
    BY <1>1, <2>1
  <2>3. (head(x) \o s)[3] = head(x)[3]
    BY <1>1, <2>2, ConcatProperties
  <2>4. head(x) \o s \in Seq(AllTokens) /\ Len(head(x) \o s) = Len(head(x)) + Len(s)
    BY <1>1, ConcatProperties
  <2>5. Len(head(x)) = 4 /\ head(x)[3] = x
    BY <1>1
  <2>6. Len(head(x) \o s) >= 4
    BY <2>1, <2>4, <2>5
  <2>7. QED
    BY <2>3, <2>4, <2>5, <2>6
<1>3. Real(i)[3] = "real" /\ EventStoreGenerated(j)[3] = "eventstore"
      /\ EventStoreGenerated(i)[3] = "eventstore"
  BY <1>2, NameSeq DEF Real, EventStoreGenerated, head
<1>4. CommandExecuted(j, c)[3] = "command"
  <2> DEFINE rest == (j \o <<".">>) \o c
  <2>1. CommandExecuted(j, c) = head("command") \o rest /\ rest \in Seq(AllTokens)
    BY CommandForm DEF head
  <2> HIDE DEF rest
  <2>2. QED
    BY <1>2, <2>1
<1>5. QED
  BY <1>3, <1>4

\* The type of an interface's data tells the interface.
LEMMA RealTells ==
    ASSUME NEW i \in Name, NEW j \in Name, Real(i) = Real(j)
    PROVE  i = j
<1> DEFINE h == <<"twinscale", ".", "real", ".">>
<1>1. h \in Seq(AllTokens)
  BY DEF AllTokens
<1>2. h \o i = h \o j
  BY DEF Real
<1> HIDE DEF h
<1>3. QED
  BY <1>1, <1>2, NameSeq, SameLength

\* The type of a command tells interface and command, among interfaces that are apart.
LEMMA CommandTells ==
    ASSUME NEW i \in Name, NEW j \in Name, NEW c \in Name, NEW d \in Name,
           CommandExecuted(i, c) = CommandExecuted(j, d), Apart(i, j)
    PROVE  i = j /\ c = d
<1> DEFINE h == <<"twinscale", ".", "command", ".">>
           dot == <<".">>
<1>1. h \in Seq(AllTokens) /\ dot \in Seq(AllTokens) /\ "." \in AllTokens
  BY DEF AllTokens
<1>2. /\ h \o ((i \o dot) \o c) = h \o ((j \o dot) \o d)
      /\ (i \o dot) \o c \in Seq(AllTokens) /\ (j \o dot) \o d \in Seq(AllTokens)
  <2> DEFINE x == (i \o dot) \o c
             y == (j \o dot) \o d
  <2>1. CommandExecuted(i, c) = h \o x /\ x \in Seq(AllTokens)
    BY CommandForm
  <2>2. CommandExecuted(j, d) = h \o y /\ y \in Seq(AllTokens)
    BY CommandForm
  <2> HIDE DEF x, y, h
  <2>3. h \o x = h \o y
    BY <2>1, <2>2
  <2>4. QED
    BY <2>1, <2>2, <2>3 DEF x, y
<1> HIDE DEF h, dot
<1>3. /\ i \in Seq(AllTokens) /\ j \in Seq(AllTokens)
      /\ c \in Seq(AllTokens) /\ d \in Seq(AllTokens)
  BY NameSeq
<1>4. (i \o dot) \o c = (j \o dot) \o d
  BY <1>1, <1>2, SameLength
<1>5. QED
  BY <1>1, <1>3, <1>4, Joined DEF Apart, dot

-----------------------------------------------------------------------------
(* The bindings an interface asks for *)

\* The five kinds of bindings.
IsTopic(b, i) == b = <<Named(i, "real-mqtt-dispatcher"), Topic(i)>>
IsTopicFor(b, i, r) ==
    b = <<NamedFor(i, r.name, "real-mqtt-dispatcher"), Topic(r.target)>>
IsEventStore(b, i) ==
    b = <<Named(i, "event-store"), Filter(EventStoreGenerated(i), EventStoreQueue)>>
IsRelationship(b, i, r) == b = <<NamedFor(i, r.name, "real-dispatcher"), Filter(Real(r.target), i)>>
IsCommand(b, i, c) ==
    b = <<NamedFor(i, c, "command-dispatcher"), Filter(CommandExecuted(i, c), i)>>

\* What an interface asks for is of one of them.
LEMMA BindingForms ==
    ASSUME NEW i, NEW s, NEW b \in Bindings(i, s)
    PROVE  \/ IsTopic(b, i)
           \/ \E k \in Aggregated(s) : IsTopicFor(b, i, s.rels[k])
           \/ IsEventStore(b, i)
           \/ \E k \in Aggregated(s) : IsRelationship(b, i, s.rels[k])
           \/ \E k \in DOMAIN s.cmds : IsCommand(b, i, s.cmds[k])
<1>1. CASE b \in Range(MqttDispatcherBindings(i, s))
  BY <1>1 DEF MqttDispatcherBindings, Range, IsTopic, IsTopicFor
<1>2. CASE b \in Range(EventStoreBindings(i))
  BY <1>2 DEF EventStoreBindings, Range, IsEventStore
<1>3. CASE b \in Range(RelationshipBindings(i, s))
  BY <1>3 DEF RelationshipBindings, Range, IsRelationship
<1>4. CASE b \in Range(CommandBindings(i, s))
  BY <1>4 DEF CommandBindings, Range, IsCommand
<1>5. QED
  BY <1>1, <1>2, <1>3, <1>4 DEF Bindings

\* A binding's name: the interface's name, a dash and the rest. The rest is either an
\* ending or a name in lower case, a dash and an ending.
RestOf(ending) == <<ending>>
RestFor(p, ending) == ToLower(p) \o <<"-", ending>>
LEMMA NameForm ==
    ASSUME NEW i \in Ifaces, NEW p \in Name, NEW ending \in Endings
    PROVE  /\ Named(i, ending) = (i \o <<"-">>) \o RestOf(ending)
           /\ NamedFor(i, p, ending) = (i \o <<"-">>) \o RestFor(p, ending)
           /\ RestOf(ending) \in Seq(AllTokens) /\ RestFor(p, ending) \in Seq(AllTokens)
<1> DEFINE d == <<"-">>
           e == <<ending>>
           f == <<"-", ending>>
           q == ToLower(p)
<1>1. ToLower(i) = i /\ i \in Seq(AllTokens) /\ q \in Seq(AllTokens)
  BY NameSeq, SpecNames
<1>2. /\ d \in Seq(AllTokens) /\ e \in Seq(AllTokens) /\ f \in Seq(AllTokens)
      /\ f = d \o e
  BY DEF AllTokens, Endings
<1>3. Named(i, ending) = i \o f /\ NamedFor(i, p, ending) = ((i \o d) \o q) \o f
  BY <1>1 DEF Named, NamedFor
<1> HIDE DEF d, e, f, q
<1>4. i \o f = (i \o d) \o e
  <2>1. Join(Join(i, d), e) = Join(i, Join(d, e))
    BY <1>1, <1>2, Grouped
  <2>2. Join(d, e) = f
    BY <1>2 DEF Join
  <2>3. QED
    BY <2>1, <2>2 DEF Join
<1>5. ((i \o d) \o q) \o f = (i \o d) \o (q \o f)
  <2>1. Join(i, d) \in Seq(AllTokens) /\ f \in Seq(AllTokens) /\ q \in Seq(AllTokens)
    BY <1>1, <1>2, Grouped
  <2>2. Join(Join(Join(i, d), q), f) = Join(Join(i, d), Join(q, f))
    BY <2>1, Grouped
  <2>3. QED
    BY <2>2 DEF Join
<1>6. q \o f \in Seq(AllTokens)
  BY <1>1, <1>2, ConcatProperties
<1>7. QED
  BY <1>2, <1>3, <1>4, <1>5, <1>6 DEF RestOf, RestFor, d, e, f, q

\* The rests tell their endings, and the names in lower case.
LEMMA RestTells ==
    ASSUME NEW p \in Name, NEW q \in Name, NEW x \in Endings, NEW y \in Endings
    PROVE  /\ RestOf(x) = RestOf(y) => x = y
           /\ RestOf(x) # RestFor(p, y)
           /\ RestFor(p, x) = RestFor(q, y) => x = y /\ ToLower(p) = ToLower(q)
<1> DEFINE u == <<"-", x>>
           v == <<"-", y>>
           a == ToLower(p)
           b == ToLower(q)
<1>1. /\ a \in Seq(AllTokens) /\ b \in Seq(AllTokens)
      /\ Len(a) \in Nat /\ Len(b) \in Nat
  BY NameSeq
<1>2. /\ u \in Seq(AllTokens) /\ v \in Seq(AllTokens) /\ Len(u) = 2 /\ Len(v) = 2
      /\ u[2] = x /\ v[2] = y
  BY DEF AllTokens, Endings
<1>3. RestOf(x) = RestOf(y) => x = y
  BY DEF RestOf
<1>4. Len(RestOf(x)) = 1
  BY DEF RestOf
<1> HIDE DEF u, v, a, b
<1>5. Len(a \o u) = Len(a) + 2 /\ Len(b \o v) = Len(b) + 2 /\ Len(a \o v) = Len(a) + 2
  <2>1. /\ Len(a \o u) = Len(a) + Len(u) /\ Len(b \o v) = Len(b) + Len(v)
        /\ Len(a \o v) = Len(a) + Len(v)
    <3>1. /\ a \in Seq(AllTokens) /\ b \in Seq(AllTokens)
          /\ u \in Seq(AllTokens) /\ v \in Seq(AllTokens)
      BY <1>1, <1>2
    <3>2. QED
      BY <3>1, ConcatProperties
  <2>2. Len(u) = 2 /\ Len(v) = 2
    BY <1>2
  <2>3. QED
    BY <2>1, <2>2
<1>6. RestOf(x) # RestFor(p, y)
  <2>1. RestFor(p, y) = a \o v
    BY DEF RestFor, a, v
  <2>2. Len(RestFor(p, y)) = Len(a) + 2
    BY <1>5, <2>1
  <2>3. Len(a) \in Nat
    BY <1>1
  <2>4. Len(RestFor(p, y)) # 1
    BY <2>2, <2>3
  <2>5. QED
    BY <1>4, <2>4
<1>7. ASSUME RestFor(p, x) = RestFor(q, y) PROVE x = y /\ a = b
  <2>1. a \o u = b \o v
    BY <1>7 DEF RestFor, a, b, u, v
  <2>2. Len(a) = Len(b)
    BY <1>1, <1>5, <2>1
  <2>3. a = b /\ u = v
    BY <1>1, <1>2, <2>1, <2>2, SameLength
  <2>4. QED
    BY <1>2, <2>3
<1>8. QED
  BY <1>3, <1>6, <1>7 DEF a, b

\* What a binding of interface i binds, from the ending of its name and, for those of a
\* relationship or a command, that one's name.
Plain(i, ending, content) ==
    \/ ending = "real-mqtt-dispatcher" /\ content = Topic(i)
    \/ ending = "event-store" /\ content = Filter(EventStoreGenerated(i), EventStoreQueue)
For(i, s, p, ending, content) ==
    \/ \E k \in Aggregated(s) :
          /\ p = s.rels[k].name
          /\ \/ ending = "real-mqtt-dispatcher" /\ content = Topic(s.rels[k].target)
             \/ ending = "real-dispatcher" /\ content = Filter(Real(s.rels[k].target), i)
    \/ \E k \in DOMAIN s.cmds :
          /\ p = s.cmds[k] /\ ending = "command-dispatcher"
          /\ content = Filter(CommandExecuted(i, s.cmds[k]), i)
Described(b, i, s, rest) ==
    /\ rest \in Seq(AllTokens) /\ b[1] = (i \o <<"-">>) \o rest
    /\ \/ \E ending \in Endings : rest = RestOf(ending) /\ Plain(i, ending, b[2])
       \/ \E ending \in Endings, p \in Name :
             rest = RestFor(p, ending) /\ For(i, s, p, ending, b[2])

\* Every binding has such a description.
LEMMA Descriptions ==
    ASSUME NEW i \in Ifaces, NEW s \in Specs, NEW b \in Bindings(i, s)
    PROVE  \E rest : Described(b, i, s, rest)
<1>1. Aggregated(s) \subseteq DOMAIN s.rels
  BY DEF Aggregated
<1>2. \A k \in Aggregated(s) : s.rels[k].name \in Name
  BY <1>1, SpecNames
<1>3. ASSUME NEW ending \in Endings, b[1] = Named(i, ending), Plain(i, ending, b[2])
      PROVE  Described(b, i, s, RestOf(ending))
  <2>1. i \in Name
    BY SpecNames
  <2>2. QED
    BY <1>3, <2>1, NameForm DEF Described
<1>4. ASSUME NEW ending \in Endings, NEW p \in Name, b[1] = NamedFor(i, p, ending),
             For(i, s, p, ending, b[2])
      PROVE  Described(b, i, s, RestFor(p, ending))
  BY <1>4, NameForm DEF Described
<1>5. CASE IsTopic(b, i)
  BY <1>3, <1>5 DEF IsTopic, Plain, Endings
<1>6. CASE IsEventStore(b, i)
  BY <1>3, <1>6 DEF IsEventStore, Plain, Endings
<1>7. ASSUME NEW k \in Aggregated(s), IsTopicFor(b, i, s.rels[k])
      PROVE  \E rest : Described(b, i, s, rest)
  <2>1. For(i, s, s.rels[k].name, "real-mqtt-dispatcher", b[2])
    BY <1>1, <1>7 DEF IsTopicFor, For
  <2>2. QED
    BY <1>2, <1>4, <1>7, <2>1 DEF IsTopicFor, Endings
<1>8. ASSUME NEW k \in Aggregated(s), IsRelationship(b, i, s.rels[k])
      PROVE  \E rest : Described(b, i, s, rest)
  <2>1. For(i, s, s.rels[k].name, "real-dispatcher", b[2])
    BY <1>1, <1>8 DEF IsRelationship, For
  <2>2. QED
    BY <1>2, <1>4, <1>8, <2>1 DEF IsRelationship, Endings
<1>9. ASSUME NEW k \in DOMAIN s.cmds, IsCommand(b, i, s.cmds[k])
      PROVE  \E rest : Described(b, i, s, rest)
  <2>1. For(i, s, s.cmds[k], "command-dispatcher", b[2])
    BY <1>9 DEF IsCommand, For
  <2>2. s.cmds[k] \in Name
    BY SpecNames
  <2>3. QED
    BY <1>4, <1>9, <2>1, <2>2 DEF IsCommand, Endings
<1>10. QED
  BY <1>5, <1>6, <1>7, <1>8, <1>9, BindingForms

\* Interfaces that are apart have no name of a binding in common.
LEMMA OneInterface ==
    ASSUME NEW i \in Ifaces, NEW s \in Specs, NEW b \in Bindings(i, s),
           NEW j \in Ifaces, NEW t \in Specs, NEW c \in Bindings(j, t),
           b[1] = c[1], Apart(i, j)
    PROVE  i = j
<1>1. PICK x : x \in Seq(AllTokens) /\ b[1] = (i \o <<"-">>) \o x
  BY Descriptions DEF Described
<1>2. PICK y : y \in Seq(AllTokens) /\ c[1] = (j \o <<"-">>) \o y
  BY Descriptions DEF Described
<1>3. i \in Seq(AllTokens) /\ j \in Seq(AllTokens) /\ "-" \in AllTokens
  BY SpecNames, NameSeq DEF AllTokens
<1>4. ~IsPrefix(Append(i, "-"), j) /\ ~IsPrefix(Append(j, "-"), i)
  BY DEF Apart
<1>5. (i \o <<"-">>) \o x = (j \o <<"-">>) \o y
  BY <1>1, <1>2
<1>6. QED
  BY <1>1, <1>2, <1>3, <1>4, <1>5, Joined

\* Bindings of one name that two specs of an interface ask for bind the same, or are of one
\* relationship or command that was redirected.
LEMMA OneContent ==
    ASSUME NEW i \in Ifaces, NEW s \in Specs, NEW b \in Bindings(i, s),
           NEW t \in Specs, NEW c \in Bindings(i, t), b[1] = c[1]
    PROVE  b[2] = c[2] \/ Redirected(i, s, t, b[1])
<1>1. PICK x : Described(b, i, s, x)
  BY Descriptions
<1>2. PICK y : Described(c, i, t, y)
  BY Descriptions
<1>3. x = y
  <2> DEFINE a == i \o <<"-">>
  <2>1. a \in Seq(AllTokens)
    BY SpecNames, NameSeq, ConcatProperties DEF AllTokens
  <2>2. a \o x = a \o y /\ x \in Seq(AllTokens) /\ y \in Seq(AllTokens)
    BY <1>1, <1>2 DEF Described
  <2> HIDE DEF a
  <2>3. QED
    BY <2>1, <2>2, SameLength
<1>4. ASSUME NEW e \in Endings, x = RestOf(e), Plain(i, e, b[2]),
             NEW f \in Endings, y = RestOf(f), Plain(i, f, c[2])
      PROVE  b[2] = c[2]
  <2>1. i \in Name
    BY SpecNames
  <2>2. e = f
    BY <1>3, <1>4, <2>1, RestTells
  <2>3. QED
    BY <1>4, <2>2 DEF Plain
<1>5. ASSUME NEW e \in Endings, NEW p \in Name, x = RestFor(p, e), For(i, s, p, e, b[2]),
             NEW f \in Endings, NEW q \in Name, y = RestFor(q, f), For(i, t, q, f, c[2])
      PROVE  b[2] = c[2] \/ Redirected(i, s, t, b[1])
  <2>1. e = f /\ ToLower(p) = ToLower(q)
    <3>1. RestFor(p, e) = RestFor(q, f)
      BY <1>3, <1>5
    <3>2. QED
      BY <3>1, RestTells
  <2>2. b[1] = NamedFor(i, p, e)
    BY <1>1, <1>5, NameForm DEF Described
  <2>3. CASE e = "command-dispatcher"
    <3>1. PICK k \in DOMAIN s.cmds : p = s.cmds[k] /\ b[2] = Filter(CommandExecuted(i, s.cmds[k]), i)
      BY <1>5, <2>3 DEF For
    <3>2. PICK l \in DOMAIN t.cmds : q = t.cmds[l] /\ c[2] = Filter(CommandExecuted(i, t.cmds[l]), i)
      BY <1>5, <2>1, <2>3 DEF For
    <3>3. CASE p = q
      BY <3>1, <3>2, <3>3
    <3>4. CASE p # q
      BY <2>1, <2>2, <2>3, <3>1, <3>2, <3>4 DEF Redirected
    <3>5. QED
      BY <3>3, <3>4
  <2>4. CASE e # "command-dispatcher"
    <3>1. PICK k \in Aggregated(s) :
            /\ p = s.rels[k].name
            /\ \/ e = "real-mqtt-dispatcher" /\ b[2] = Topic(s.rels[k].target)
               \/ e = "real-dispatcher" /\ b[2] = Filter(Real(s.rels[k].target), i)
      BY <1>5, <2>4 DEF For
    <3>2. PICK l \in Aggregated(t) :
            /\ q = t.rels[l].name
            /\ \/ e = "real-mqtt-dispatcher" /\ c[2] = Topic(t.rels[l].target)
               \/ e = "real-dispatcher" /\ c[2] = Filter(Real(t.rels[l].target), i)
      BY <1>5, <2>1, <2>4 DEF For
    <3>3. CASE s.rels[k].target = t.rels[l].target
      BY <3>1, <3>2, <3>3
    <3>4. CASE s.rels[k].target # t.rels[l].target
      BY <2>1, <2>2, <3>1, <3>2, <3>4 DEF Redirected
    <3>5. QED
      BY <3>3, <3>4
  <2>5. QED
    BY <2>3, <2>4
<1>6. \A e \in Endings, f \in Endings, p \in Name : RestOf(e) # RestFor(p, f)
  BY RestTells
<1>7. QED
  BY <1>1, <1>2, <1>3, <1>4, <1>5, <1>6 DEF Described

-----------------------------------------------------------------------------
(* Creating bindings *)

\* A loop over bindings keeps what is there, leaves every name it comes to taken, and adds
\* nothing but bindings of its own.
LEMMA CreateGives ==
    ASSUME NEW all, NEW loop, DOMAIN loop \subseteq Nat,
           \A b \in Range(loop) : b = <<b[1], b[2]>>
    PROVE  /\ DOMAIN all \subseteq DOMAIN Create(all, loop)
           /\ \A n \in DOMAIN all : Create(all, loop)[n] = all[n]
           /\ \A b \in Range(loop) : b[1] \in DOMAIN Create(all, loop)
           /\ \A n \in DOMAIN Create(all, loop) \ DOMAIN all :
                 <<n, Create(all, loop)[n]>> \in Range(loop)
<1> DEFINE at(n) == {k \in DOMAIN loop : loop[k][1] = n}
           first(n) == CHOOSE k \in at(n) : \A j \in at(n) : k <= j
           names == {b[1] : b \in Range(loop)}
<1>1. Create(all, loop) = [n \in DOMAIN all \union names |->
                             IF n \in DOMAIN all THEN all[n] ELSE loop[first(n)][2]]
  BY DEF Create
<1>2. ASSUME NEW n \in names PROVE first(n) \in at(n)
  <2>1. at(n) \in SUBSET Nat /\ at(n) # {}
    BY DEF Range
  <2>2. \E k \in at(n) : \A j \in at(n) : k <= j
    BY <2>1, Smallest
  <2>3. QED
    BY <2>2
<1>3. ASSUME NEW n \in names PROVE <<n, loop[first(n)][2]>> \in Range(loop)
  <2>1. loop[first(n)] \in Range(loop) /\ loop[first(n)][1] = n
    BY <1>2 DEF Range
  <2>2. QED
    BY <2>1
<1> HIDE DEF first, names
<1>4. \A b \in Range(loop) : b[1] \in names
  BY DEF names
<1>5. QED
  BY <1>1, <1>3, <1>4

\* The loops of Reconcile are such loops.
LEMMA Loops ==
    ASSUME NEW i, NEW s \in Specs,
           NEW loop \in {MqttDispatcherBindings(i, s), EventStoreBindings(i),
                         RelationshipBindings(i, s), CommandBindings(i, s)}
    PROVE  DOMAIN loop \subseteq Nat /\ \A b \in Range(loop) : b = <<b[1], b[2]>>
<1>1. Aggregated(s) \subseteq Nat /\ DOMAIN s.cmds \subseteq Nat
  BY SpecNames DEF Aggregated
<1>2. CASE loop = MqttDispatcherBindings(i, s)
  <2>1. DOMAIN loop = {0} \union Aggregated(s)
    BY <1>2 DEF MqttDispatcherBindings
  <2>2. ASSUME NEW k \in DOMAIN loop PROVE \E x, y : loop[k] = <<x, y>>
    <3>1. CASE k = 0
      BY <1>2, <2>2, <3>1 DEF MqttDispatcherBindings
    <3>2. CASE k # 0
      BY <1>2, <2>2, <3>2 DEF MqttDispatcherBindings
    <3>3. QED
      BY <3>1, <3>2
  <2>3. ASSUME NEW b \in Range(loop) PROVE b = <<b[1], b[2]>>
    BY <2>2, <2>3 DEF Range
  <2>4. QED
    BY <1>1, <2>1, <2>3
<1>3. CASE loop = EventStoreBindings(i)
  BY <1>3 DEF EventStoreBindings, Range
<1>4. CASE loop = RelationshipBindings(i, s)
  BY <1>1, <1>4 DEF RelationshipBindings, Range
<1>5. CASE loop = CommandBindings(i, s)
  BY <1>1, <1>5 DEF CommandBindings, Range
<1>6. QED
  BY <1>2, <1>3, <1>4, <1>5

\* The same for a whole reconciliation.
LEMMA ReconcileGives ==
    ASSUME NEW i \in Ifaces, interfaces[i] \in Specs, Reconcile(i)
    PROVE  /\ DOMAIN bindings \subseteq DOMAIN bindings'
           /\ \A n \in DOMAIN bindings : bindings'[n] = bindings[n]
           /\ \A b \in Bindings(i, interfaces[i]) : b[1] \in DOMAIN bindings'
           /\ \A n \in DOMAIN bindings' \ DOMAIN bindings :
                 <<n, bindings'[n]>> \in Bindings(i, interfaces[i])
<1> DEFINE s == interfaces[i]
           L1 == MqttDispatcherBindings(i, s)
           L2 == EventStoreBindings(i)
           L3 == RelationshipBindings(i, s)
           L4 == CommandBindings(i, s)
           mqtt == Create(bindings, L1)
           store == Create(mqtt, L2)
           relationships == Create(store, L3)
           commands == Create(relationships, L4)
           Gives(old, new, loop) ==
               /\ DOMAIN old \subseteq DOMAIN new
               /\ \A n \in DOMAIN old : new[n] = old[n]
               /\ \A b \in Range(loop) : b[1] \in DOMAIN new
               /\ \A n \in DOMAIN new \ DOMAIN old : <<n, new[n]>> \in Range(loop)
<1>1. \A loop \in {L1, L2, L3, L4} :
        DOMAIN loop \subseteq Nat /\ \A b \in Range(loop) : b = <<b[1], b[2]>>
  BY Loops
<1>2. bindings' = IF s.service THEN commands ELSE store
  BY DEF Reconcile
<1>3. Bindings(i, s) = Range(L1) \union Range(L2)
                        \union IF s.service THEN Range(L3) \union Range(L4) ELSE {}
  BY DEF Bindings
<1> HIDE DEF s, L1, L2, L3, L4
<1>4. Gives(bindings, mqtt, L1) /\ Gives(mqtt, store, L2)
  BY <1>1, CreateGives
<1>5. Gives(store, relationships, L3) /\ Gives(relationships, commands, L4)
  BY <1>1, CreateGives
<1> HIDE DEF mqtt, store, relationships, commands
<1>6. QED
  BY <1>2, <1>3, <1>4, <1>5 DEF s

-----------------------------------------------------------------------------
(* The inductive invariant *)

\* There is an interface once it has had a spec; the one it has is among those it has had.
PastInv == \A i \in Ifaces : IF Live(i) THEN interfaces[i] \in past[i] ELSE past[i] = {}

\* Every binding was asked for, under its name, by a spec some interface has had.
OriginInv ==
    \A n \in DOMAIN bindings :
        \E i \in Ifaces : \E s \in past[i] : <<n, bindings[n]>> \in Bindings(i, s)

\* The names of all bindings an interface asks for are taken once it is reconciled.
BoundInv ==
    \A i \in Ifaces : Live(i) /\ i \notin pending =>
        \A b \in Bindings(i, interfaces[i]) : b[1] \in DOMAIN bindings

IInv == TypeOK /\ PastInv /\ OriginInv /\ BoundInv

\* A binding is a pair.
LEMMA Pairs ==
    ASSUME NEW i, NEW s \in Specs, NEW b \in Bindings(i, s)
    PROVE  b = <<b[1], b[2]>>
<1>1. QED
  BY BindingForms DEF IsTopic, IsTopicFor, IsEventStore, IsRelationship, IsCommand

\* What is bound has an exchange, a key and a queue.
LEMMA BindingFields ==
    ASSUME NEW i, NEW s, NEW b \in Bindings(i, s)
    PROVE  DOMAIN b[2] = {"exchange", "key", "queue"}
<1>1. \A j : DOMAIN Topic(j) = {"exchange", "key", "queue"}
  BY DEF Topic
<1>2. \A type, queue : DOMAIN Filter(type, queue) = {"exchange", "key", "queue"}
  BY DEF Filter
<1>3. QED
  BY <1>1, <1>2, BindingForms
     DEF IsTopic, IsTopicFor, IsEventStore, IsRelationship, IsCommand

\* So it is for all bindings, wherever they came from.
LEMMA ContentFields ==
    ASSUME OriginInv
    PROVE  \A x \in Contents : DOMAIN x = {"exchange", "key", "queue"}
<1>1. ASSUME NEW n \in DOMAIN bindings
      PROVE  DOMAIN bindings[n] = {"exchange", "key", "queue"}
  <2>1. PICK i \in Ifaces : \E s \in past[i] : <<n, bindings[n]>> \in Bindings(i, s)
    BY DEF OriginInv
  <2>2. QED
    BY <2>1, BindingFields
<1>2. QED
  BY <1>1 DEF Contents

\* Initially there are no interfaces and no bindings.
LEMMA Start == ASSUME Init PROVE IInv
<1>1. DOMAIN bindings = {}
  BY DEF Init
<1>2. \A i \in Ifaces : ~Live(i)
  BY DEF Init, Live
<1>3. OriginInv /\ PastInv /\ BoundInv
  BY <1>1, <1>2 DEF Init, OriginInv, PastInv, BoundInv
<1>4. TypeOK
  BY <1>3, ContentFields, RoutingAssumption DEF Init, TypeOK
<1>5. QED
  BY <1>3, <1>4 DEF IInv

\* Reconciling an interface takes the names of its bindings, and only those.
LEMMA ReconcileStep ==
    ASSUME IInv, NEW i \in Ifaces, Reconcile(i)
    PROVE  IInv'
<1> USE DEF IInv
<1>1. i \in pending /\ Live(i) /\ interfaces[i] \in Specs /\ interfaces[i] \in past[i]
  BY DEF Reconcile, TypeOK, PastInv, Live
<1>2. /\ UNCHANGED <<interfaces, past, edits>> /\ pending' = pending \ {i}
      /\ \A j \in Ifaces : Live(j)' <=> Live(j)
  BY DEF Reconcile, Live
<1>3. /\ DOMAIN bindings \subseteq DOMAIN bindings'
      /\ \A n \in DOMAIN bindings : bindings'[n] = bindings[n]
      /\ \A b \in Bindings(i, interfaces[i]) : b[1] \in DOMAIN bindings'
      /\ \A n \in DOMAIN bindings' \ DOMAIN bindings :
            <<n, bindings'[n]>> \in Bindings(i, interfaces[i])
  BY <1>1, ReconcileGives
<1>4. PastInv'
  BY <1>2 DEF PastInv
<1>5. OriginInv'
  <2>1. ASSUME NEW n \in DOMAIN bindings'
        PROVE  \E j \in Ifaces : \E s \in past'[j] : <<n, bindings'[n]>> \in Bindings(j, s)
    <3>1. CASE n \in DOMAIN bindings
      BY <1>2, <1>3, <3>1 DEF OriginInv
    <3>2. CASE n \notin DOMAIN bindings
      BY <1>1, <1>2, <1>3, <2>1, <3>2
    <3>3. QED
      BY <3>1, <3>2
  <2>2. QED
    BY <2>1 DEF OriginInv
<1>6. BoundInv'
  <2>1. ASSUME NEW j \in Ifaces, Live(j), j \notin pending', NEW b \in Bindings(j, interfaces[j])
        PROVE  b[1] \in DOMAIN bindings'
    <3>1. CASE j = i
      BY <1>3, <2>1, <3>1
    <3>2. CASE j # i
      BY <1>2, <1>3, <2>1, <3>2 DEF BoundInv
    <3>3. QED
      BY <3>1, <3>2
  <2>2. QED
    BY <1>2, <2>1 DEF BoundInv
<1>7. TypeOK'
  <2>1. (\A x \in Contents : DOMAIN x = {"exchange", "key", "queue"})'
    <3>1. (OriginInv => \A x \in Contents : DOMAIN x = {"exchange", "key", "queue"})'
      BY ContentFields, PTL
    <3>2. QED
      BY <1>5, <3>1
  <2>2. QED
    BY <1>2, <2>1 DEF TypeOK
<1>8. QED
  BY <1>4, <1>5, <1>6, <1>7

\* A resync makes every interface wait.
LEMMA ResyncStep ==
    ASSUME IInv, Resync
    PROVE  IInv'
<1>1. /\ UNCHANGED <<interfaces, bindings, past, edits>>
      /\ pending' = {i \in Ifaces : Live(i)} /\ \A j \in Ifaces : Live(j)' <=> Live(j)
  BY DEF Resync, Live
<1>2. TypeOK'
  BY <1>1 DEF IInv, TypeOK, Contents
<1>3. PastInv' /\ OriginInv'
  BY <1>1 DEF IInv, PastInv, OriginInv
<1>4. BoundInv'
  BY <1>1 DEF BoundInv
<1>5. QED
  BY <1>2, <1>3, <1>4 DEF IInv

\* An interface that is written waits for its reconciliation; what was bound was asked for
\* by one of the specs before.
LEMMA WriteStep ==
    ASSUME IInv, NEW i \in Ifaces, NEW s \in Specs, UserWrites(i, s)
    PROVE  IInv'
<1> USE DEF IInv
<1>1. /\ interfaces' = [interfaces EXCEPT ![i] = s] /\ past' = [past EXCEPT ![i] = @ \union {s}]
      /\ pending' = pending \union {i} /\ bindings' = bindings
      /\ edits < MaxEdits /\ edits' = edits + 1
  BY DEF UserWrites
<1>2. /\ interfaces \in [Ifaces -> Specs \union {NONE}] /\ past \in [Ifaces -> SUBSET Specs]
      /\ edits \in 0..MaxEdits /\ MaxEdits \in Nat /\ s # NONE
  BY RoutingAssumption DEF TypeOK
<1>3. /\ interfaces'[i] = s /\ past'[i] = past[i] \union {s}
      /\ \A j \in Ifaces \ {i} : interfaces'[j] = interfaces[j] /\ past'[j] = past[j]
      /\ \A j \in Ifaces : past[j] \subseteq past'[j]
  BY <1>1, <1>2
<1>4. Live(i)' /\ \A j \in Ifaces \ {i} : Live(j)' <=> Live(j)
  BY <1>2, <1>3 DEF Live
<1>5. TypeOK'
  <2>1. interfaces' \in [Ifaces -> Specs \union {NONE}] /\ past' \in [Ifaces -> SUBSET Specs]
    BY <1>1, <1>2
  <2>2. edits' \in 0..MaxEdits
    BY <1>1, <1>2
  <2>3. pending' \subseteq {j \in Ifaces : Live(j)'}
    BY <1>1, <1>4 DEF TypeOK
  <2>4. QED
    BY <1>1, <2>1, <2>2, <2>3 DEF TypeOK, Contents
<1>6. PastInv'
  BY <1>3, <1>4 DEF PastInv
<1>7. OriginInv'
  BY <1>1, <1>3 DEF OriginInv
<1>8. BoundInv'
  BY <1>1, <1>3, <1>4 DEF BoundInv
<1>9. QED
  BY <1>5, <1>6, <1>7, <1>8

\* Where bindings come from, and that reconciled interfaces have the names of theirs taken.
THEOREM Invariance == Spec => []IInv
<1>1. Init => IInv
  BY Start
<1>2. IInv /\ [Next]_vars => IInv'
  <2> SUFFICES ASSUME IInv, [Next]_vars PROVE IInv'
    OBVIOUS
  <2>1. ASSUME NEW i \in Ifaces, Reconcile(i) PROVE IInv'
    BY <2>1, ReconcileStep
  <2>2. CASE Resync
    BY <2>2, ResyncStep
  <2>3. ASSUME NEW i \in Ifaces, NEW s \in Specs, UserWrites(i, s) PROVE IInv'
    BY <2>3, WriteStep
  <2>4. CASE UNCHANGED vars
    BY <2>4 DEF IInv, TypeOK, PastInv, OriginInv, BoundInv, Contents, Live, vars
  <2>5. QED
    BY <2>1, <2>2, <2>3, <2>4 DEF Next
<1>3. QED
  BY <1>1, <1>2, PTL DEF Spec

\* The variables hold values of their types; what is bound has an exchange, a key and a
\* queue.
THEOREM TypeCorrect == Spec => []TypeOK
<1>1. IInv => TypeOK
  BY DEF IInv
<1>2. QED
  BY <1>1, Invariance, PTL

-----------------------------------------------------------------------------
(* No binding is lost, nobody is sent anything else *)

\* A binding that is not there has its name taken by another, and that one was asked for.
LEMMA Found ==
    ASSUME IInv
    PROVE  NothingLost
<1> DEFINE bound == {<<n, bindings[n]>> : n \in DOMAIN bindings}
<1> SUFFICES ASSUME NEW i \in Ifaces, Live(i), i \notin pending,
                    NEW b \in Bindings(i, interfaces[i]), b \notin bound
             PROVE  \E c \in bound, j \in Ifaces : \E t \in past[j] :
                       /\ c[1] = b[1] /\ c \in Bindings(j, t)
                       /\ IF j = i THEN Redirected(i, interfaces[i], t, b[1]) ELSE ~Apart(i, j)
  BY DEF NothingLost
<1> DEFINE n == b[1]
           s == interfaces[i]
           c == <<n, bindings[n]>>
<1>1. n \in DOMAIN bindings /\ past \in [Ifaces -> SUBSET Specs] /\ s \in Specs
  BY RoutingAssumption DEF IInv, TypeOK, BoundInv, PastInv
<1>2. c \in bound /\ c[1] = b[1] /\ c[2] = bindings[n]
  BY <1>1
<1>3. PICK j \in Ifaces : \E t \in past[j] : c \in Bindings(j, t)
  BY <1>1 DEF IInv, OriginInv
<1>4. PICK t \in past[j] : c \in Bindings(j, t)
  BY <1>3
<1>5. t \in Specs /\ b \in Bindings(i, s)
  BY <1>1, <1>4
<1>6. b[2] # c[2]
  <2>1. b = <<b[1], b[2]>>
    BY <1>1, Pairs
  <2>2. QED
    BY <1>2, <2>1
<1> HIDE DEF bound, c, n, s
<1>7. CASE j = i
  <2>1. Redirected(i, s, t, b[1])
    BY <1>1, <1>2, <1>4, <1>5, <1>6, <1>7, OneContent
  <2>2. QED
    BY <1>2, <1>4, <1>7, <2>1 DEF s
<1>8. CASE j # i
  <2>1. ~Apart(i, j)
    BY <1>1, <1>2, <1>4, <1>5, <1>8, OneInterface
  <2>2. QED
    BY <1>2, <1>4, <1>8, <2>1
<1>9. QED
  BY <1>7, <1>8

\* No binding an interface asks for is lost, but to the same relationship or command of its
\* own, redirected, or to an interface it is not apart from.
THEOREM AllBound == Spec => []NothingLost
<1>1. IInv => NothingLost
  BY Found
<1>2. QED
  BY <1>1, Invariance, PTL

\* An event's interface and command have names.
LEMMA EventNames ==
    ASSUME NEW e \in Events
    PROVE  /\ e.iface \in Ifaces /\ e.iface \in Name
           /\ \/ e.kind = "real" /\ Type(e) = Real(e.iface)
              \/ /\ e.kind = "command" /\ e.cmd \in Name
                 /\ Type(e) = CommandExecuted(e.iface, e.cmd)
<1>1. \A i \in Ifaces : i \in Name
  BY SpecNames
<1>2. CASE e \in [kind : {"real"}, iface : Ifaces]
  BY <1>1, <1>2 DEF Type
<1>3. ASSUME NEW s \in Specs,
             e \in [kind : {"command"}, iface : Ifaces, cmd : {s.cmds[k] : k \in DOMAIN s.cmds}]
      PROVE  e.kind = "command" /\ e.iface \in Ifaces /\ e.cmd \in Name
  BY <1>3, SpecNames
<1>4. QED
  BY <1>1, <1>2, <1>3 DEF Events, Type

\* The queue of an interface gets what a spec of that interface asked for.
LEMMA AskedFor ==
    ASSUME IInv, NEW i \in Ifaces, NEW e \in Events, Delivered(e, i)
    PROVE  \E s \in past[i] :
              IF e.kind = "real"
              THEN \E k \in Aggregated(s) : s.rels[k].target = e.iface
              ELSE \E k \in DOMAIN s.cmds :
                      \/ e.iface = i /\ s.cmds[k] = e.cmd
                      \/ ~Apart(i, e.iface) /\ CommandExecuted(i, s.cmds[k]) = Type(e)
<1>1. PICK n \in DOMAIN bindings : bindings[n] = Filter(Type(e), i)
  BY DEF Delivered, Contents
<1>0. PICK j \in Ifaces : \E s \in past[j] : <<n, Filter(Type(e), i)>> \in Bindings(j, s)
  BY <1>1 DEF IInv, OriginInv
<1>2. PICK s \in past[j] : <<n, Filter(Type(e), i)>> \in Bindings(j, s)
  BY <1>0
<1> DEFINE b == <<n, Filter(Type(e), i)>>
<1>3. s \in Specs /\ j \in Name
  BY <1>2, SpecNames DEF IInv, TypeOK
<1>4. /\ b[2].exchange = "broker" /\ b[2].key = Type(e) /\ b[2].queue = i
  BY DEF Filter
<1>5. \A x : Topic(x).exchange = "amq.topic"
  BY DEF Topic
<1>6. \A x, y : Filter(x, y).key = x /\ Filter(x, y).queue = y
  BY DEF Filter
<1>7. \/ IsTopic(b, j)
      \/ \E k \in Aggregated(s) : IsTopicFor(b, j, s.rels[k])
      \/ IsEventStore(b, j)
      \/ \E k \in Aggregated(s) : IsRelationship(b, j, s.rels[k])
      \/ \E k \in DOMAIN s.cmds : IsCommand(b, j, s.cmds[k])
  BY <1>2, BindingForms
<1> HIDE DEF b
<1>8. \A x, y : b = <<x, y>> => b[2] = y
  OBVIOUS
<1>9. ~IsTopic(b, j) /\ \A r : ~IsTopicFor(b, j, r)
  <2>1. \A x : b[2] # Topic(x)
    BY <1>4, <1>5
  <2>2. QED
    BY <1>8, <2>1 DEF IsTopic, IsTopicFor
<1>10. ~IsEventStore(b, j)
  <2>1. Type(e) # EventStoreGenerated(j)
    BY <1>3, EventNames, KindsDiffer
  <2>2. QED
    BY <1>4, <1>6, <1>8, <2>1 DEF IsEventStore
<1>11. ASSUME NEW k \in Aggregated(s), IsRelationship(b, j, s.rels[k])
       PROVE  j = i /\ e.kind = "real" /\ s.rels[k].target = e.iface
  <2>1. k \in DOMAIN s.rels /\ s.rels[k].aggregate
    BY DEF Aggregated
  <2>2. s.rels[k].target \in Name
    BY <1>3, <2>1, SpecNames
  <2>3. b[2] = Filter(Real(s.rels[k].target), j)
    BY <1>8, <1>11 DEF IsRelationship
  <2>4. Type(e) = Real(s.rels[k].target) /\ i = j
    BY <1>4, <1>6, <2>3
  <2>5. e.kind = "real" /\ Type(e) = Real(e.iface)
    BY <2>2, <2>4, EventNames, KindsDiffer
  <2>6. s.rels[k].target = e.iface
    BY <2>2, <2>4, <2>5, EventNames, RealTells
  <2>7. QED
    BY <2>1, <2>4, <2>5, <2>6
<1>12. ASSUME NEW k \in DOMAIN s.cmds, IsCommand(b, j, s.cmds[k])
       PROVE  /\ j = i /\ e.kind # "real"
              /\ \/ e.iface = i /\ s.cmds[k] = e.cmd
                 \/ ~Apart(i, e.iface) /\ CommandExecuted(i, s.cmds[k]) = Type(e)
  <2>1. s.cmds[k] \in Name
    BY <1>3, SpecNames
  <2>2. b[2] = Filter(CommandExecuted(j, s.cmds[k]), j)
    BY <1>8, <1>12 DEF IsCommand
  <2>3. Type(e) = CommandExecuted(j, s.cmds[k]) /\ i = j
    BY <1>4, <1>6, <2>2
  <2>4. e.kind = "command" /\ e.cmd \in Name /\ Type(e) = CommandExecuted(e.iface, e.cmd)
    BY <1>3, <2>1, <2>3, EventNames, KindsDiffer
  <2>5. Apart(i, e.iface) => e.iface = i /\ s.cmds[k] = e.cmd
    <3> DEFINE c == s.cmds[k]
               d == e.cmd
               f == e.iface
    <3>1. i \in Name /\ f \in Name /\ c \in Name /\ d \in Name
      BY <1>3, <2>1, <2>3, <2>4, EventNames
    <3>2. CommandExecuted(i, c) = CommandExecuted(f, d)
      BY <2>3, <2>4
    <3> HIDE DEF c, d, f
    <3>3. Apart(i, f) => i = f /\ c = d
      BY <3>1, <3>2, CommandTells
    <3>4. QED
      BY <3>3 DEF c, d, f
  <2>6. QED
    BY <2>3, <2>4, <2>5
<1>13. QED
  BY <1>2, <1>7, <1>9, <1>10, <1>11, <1>12

\* No interface is sent an event it has never asked for.
THEOREM NobodyElse == Spec => []NothingElse
<1>1. IInv => NothingElse
  BY AskedFor DEF NothingElse
<1>2. QED
  BY <1>1, Invariance, PTL
=============================================================================
