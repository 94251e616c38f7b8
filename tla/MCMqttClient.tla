--------------------------- MODULE MCMqttClient ---------------------------
(* The MQTT client for TLC: two subscriptions of a topic each; empty     *)
(* messages, and some too long for the buffer of one of them.            *)
EXTENDS MqttClient, TLC

CONSTANTS s1, s2, t1, t2

MCSubscriptions == {s1, s2}
MCTopics == {t1, t2}
MCTopic == s1 :> t1 @@ s2 :> t2
MCCapacity == s1 :> 1 @@ s2 :> 2
MCSizes == {0, 2}
===========================================================================
