----------------------------- MODULE SimpleGraph -----------------------------
(***************************************************************************)
(* What the graphs of package graph promise: nodes, some of which are      *)
(* processed, that is, stand for a twin that was added and not only named  *)
(* by a relationship, and links between nodes.  It says nothing of         *)
(* pointers, of the order of edges or of how often one is there.           *)
(***************************************************************************)
CONSTANT Twins      \* records with a field name

VARIABLES nodes,      \* names in the graph
          processed,  \* the twins added, at most one for a name
          links       \* pairs of names

Init == nodes = {} /\ processed = {} /\ links = {}

\* The first twin of a name stays until the node is removed.
Process(t) ==
    /\ \A u \in processed : u.name # t.name
    /\ nodes' = nodes \union {t.name}
    /\ processed' = processed \union {t}
    /\ UNCHANGED links

Link(s, t) ==
    /\ nodes' = nodes \union {s.name, t.name}
    /\ links' = links \union {<<s.name, t.name>>}
    /\ UNCHANGED processed

\* A node goes with all its links.
Remove(t) ==
    /\ nodes' = nodes \ {t.name}
    /\ processed' = {u \in processed : u.name # t.name}
    /\ links' = {l \in links : t.name \notin {l[1], l[2]}}

\* Nothing but links between the two may go. Whether they do is not promised.
Unlink(s, t) ==
    /\ links' \in SUBSET links
    /\ links \ links' \subseteq {<<s.name, t.name>>, <<t.name, s.name>>}
    /\ UNCHANGED <<nodes, processed>>

Next == \/ \E t \in Twins : Process(t) \/ Remove(t)
        \/ \E s, t \in Twins : Link(s, t) \/ Unlink(s, t)

Spec == Init /\ [][Next]_<<nodes, processed, links>>
=============================================================================
