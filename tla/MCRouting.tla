------------------------------ MODULE MCRouting ------------------------------
(***************************************************************************)
(* Instances of Routing for TLC.                                           *)
(***************************************************************************)
EXTENDS Routing

a == <<"a">>
a_b == <<"a", "-", "b">>
a_dot_b == <<"a", ".", "b">>
c == <<"c">>
b_c == <<"b", "-", "c">>
b_dot_c == <<"b", ".", "c">>

Interfaces == {a, a_b, a_dot_b, c}

Lowered == [t \in {"a", "b", "B", "c", "-", "."} |-> IF t = "B" THEN "b" ELSE t]

Rel(name, target, aggregate) == [name |-> name, target |-> target, aggregate |-> aggregate]

\* Names that clash with those of a-b and a.b, if the interface is a; a relationship and a
\* command of one name; a command in another case; a relationship that is retargeted; no
\* service.
SomeSpecs == {
    [service |-> TRUE, rels |-> <<Rel(b_c, c, TRUE)>>, cmds |-> <<b_dot_c, <<"b">>>>],
    [service |-> TRUE, rels |-> <<Rel(c, a, TRUE), Rel(<<"b">>, a, FALSE)>>, cmds |-> <<c>>],
    [service |-> TRUE, rels |-> <<Rel(<<"b">>, c, TRUE)>>, cmds |-> <<<<"B">>>>],
    [service |-> FALSE, rels |-> <<Rel(<<"B">>, a_b, TRUE)>>, cmds |-> <<c>>]}
=============================================================================
