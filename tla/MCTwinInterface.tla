--------------------------- MODULE MCTwinInterface ---------------------------
(***************************************************************************)
(* Instances of TwinInterfaceController for TLC: the specs users write and *)
(* the states of the installation the operator starts in.                  *)
(***************************************************************************)
EXTENDS TwinInterfaceController

\* Templates A and A2 have auto-scaling settings and differ in something that is not
\* compared, such as the arguments of a container; P has none.
Compare == [t \in {"A", "A2", "P"} |-> IF t = "P" THEN "p" ELSE "a"]

\* An interface without service, and interfaces with one and more or less else.
Bare == [service |-> NONE, rels |-> {"r"}, cmds |-> {}]
Full == [service |-> "A", rels |-> {"r"}, cmds |-> {"c"}]
FullP == [service |-> "P", rels |-> {}, cmds |-> {"c"}]
Lean == [service |-> "A", rels |-> {}, cmds |-> {}]
LeanA2 == [service |-> "A2", rels |-> {}, cmds |-> {}]
LeanP == [service |-> "P", rels |-> {}, cmds |-> {}]

AllSpecs == {Bare, Full, FullP, LeanA2}
ServiceSpecs == {Lean, LeanP}
LeanSpecs == {Lean}

\* The installation: complete, without event store, nothing.
Complete == [broker |-> TRUE, eventStore |-> "ready", esQueue |-> TRUE, exchange |-> TRUE]
AllReady == {Complete}
NoEventStore == {[Complete EXCEPT !.eventStore = "absent", !.esQueue = FALSE]}
Nothing == {[broker |-> FALSE, eventStore |-> "absent", esQueue |-> FALSE, exchange |-> FALSE]}
=============================================================================
