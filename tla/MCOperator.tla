----------------------------- MODULE MCOperator -----------------------------
(***************************************************************************)
(* Instances of Operator for TLC.                                          *)
(***************************************************************************)
EXTENDS Operator

\* One template without auto-scaling settings.
Compare == [t \in {"P"} |-> "p"]
\* An interface with a service and a command.
WithCommand == {[service |-> "P", rels |-> {}, cmds |-> {"c"}]}

StorePlain == {[timeout |-> TRUE, secret |-> TRUE, conf |-> 1, ann |-> 1]}
=============================================================================
