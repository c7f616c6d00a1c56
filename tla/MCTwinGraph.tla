----------------------------- MODULE MCTwinGraph -----------------------------
(***************************************************************************)
(* Instances of TwinGraphClients for TLC.                                  *)
(***************************************************************************)
EXTENDS TwinGraphClients

Twin(name, version, rels) == [name |-> name, version |-> version, rels |-> rels]

\* Two versions of one interface, and another interface.
ThreeInterfaces == {Twin("a", 1, <<>>), Twin("a", 2, <<>>), Twin("b", 1, <<>>)}

\* Instances that point to each other, to themselves, to one instance twice, and to an
\* instance that is in no list.
A == Twin("a", 1, <<"b", "b", "gone">>)
A2 == Twin("a", 2, <<"a">>)
B == Twin("b", 1, <<"a">>)

\* Lists: empty; one before and after the instance it points to; a name that is there
\* twice.
SomeLists == {<<>>, <<A, B>>, <<B, A2>>, <<A2, A, B>>}
=============================================================================
