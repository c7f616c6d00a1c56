------------------------- MODULE MCStoreControllers -------------------------
(***************************************************************************)
(* Instances of StoreControllers for TLC.                                  *)
(***************************************************************************)
EXTENDS StoreControllers

\* "es" and "vi" have a name in common in SharedName.
ThreeKinds == [es |-> "EventStore", hds |-> "HistoricalDataStore", vi |-> "Visualisation"]
KindOfStore == [s \in Stores |-> ThreeKinds[s]]
OwnName == [s \in Stores |-> s]
SharedName == [s \in Stores |-> "n"]

\* A spec, one whose service and trigger differ from it, one whose service does, and one
\* without a timeout and a secret.
Plain == [timeout |-> TRUE, secret |-> TRUE, conf |-> 1, ann |-> 1]
Changed == [Plain EXCEPT !.conf = 2, !.ann = 2]
Resized == [Plain EXCEPT !.conf = 2]
Minimal == [Plain EXCEPT !.timeout = FALSE, !.secret = FALSE]

VariousSpecs == {Plain, Changed, Minimal}
ResizedSpecs == {Plain, Resized}
MinimalSpecs == {Plain, Minimal}
=============================================================================
