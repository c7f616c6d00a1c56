---------------------------- MODULE MCMqttTrigger ----------------------------
(***************************************************************************)
(* Instances of MqttTriggerController for TLC. The first two of the six    *)
(* resources, a queue and a deployment, stand for the list: one without    *)
(* and one with credentials. Where two MQTTTriggers meet deletion and the  *)
(* collector the deployment alone stands for it.                           *)
(***************************************************************************)
EXTENDS MqttTriggerController

TwoResources == SubSeq(AllResources, 1, 2)
OnlyDeployment == SubSeq(AllResources, 2, 2)
OneDeployment == AllDeployments \intersect {TwoResources[n] : n \in 1 .. 2}

NoBroker == {[secret |-> 0, exchange |-> FALSE]}
BrokerUp == {[secret |-> 1, exchange |-> TRUE]}
=============================================================================
