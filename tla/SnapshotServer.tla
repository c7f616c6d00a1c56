--------------------------- MODULE SnapshotServer ---------------------------
(***************************************************************************)
(* What the server of the twin graph promises its clients: an answer is    *)
(* the whole document of one list of instances, the last one when the      *)
(* request came, whatever updates run meanwhile.                           *)
(***************************************************************************)
EXTENDS Integers

CONSTANTS Lists,      \* the lists of instances the server is given
          Handlers,   \* requests served at a time
          NONE        \* no document

VARIABLES document,   \* what the server answers with now
          view,       \* the document each request under way will get
          answer      \* the last answer of each handler

\* Of instances with one name, the first in the list counts.
Document(list) ==
    {list[i] : i \in {j \in DOMAIN list : \A k \in 1..(j-1) : list[k].name # list[j].name}}

Init == /\ document = {}
        /\ view = [h \in Handlers |-> NONE]
        /\ answer = [h \in Handlers |-> NONE]

Update == /\ \E list \in Lists : document' = Document(list)
          /\ UNCHANGED <<view, answer>>

Request(h) == /\ view[h] = NONE
              /\ view' = [view EXCEPT ![h] = document]
              /\ UNCHANGED <<document, answer>>

Respond(h) == /\ view[h] # NONE
              /\ answer' = [answer EXCEPT ![h] = view[h]]
              /\ view' = [view EXCEPT ![h] = NONE]
              /\ UNCHANGED document

Next == Update \/ \E h \in Handlers : Request(h) \/ Respond(h)

Spec == Init /\ [][Next]_<<document, view, answer>>
=============================================================================
