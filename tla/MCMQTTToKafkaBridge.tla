-------------------------- MODULE MCMQTTToKafkaBridge --------------------------
(* Instances of the MQTT to Kafka direction for TLC. *)
EXTENDS MQTTToKafkaBridgeProperties, TLC

CONSTANTS m1, m2, m3

\* Messages of one topic, in different seconds, sent in that order.
Topics == (m1 :> "home/temp") @@ (m2 :> "home/temp") @@ (m3 :> "home/temp")
Seconds == (m1 :> 1) @@ (m2 :> 2) @@ (m3 :> 3)
TopicOf == [m \in Messages |-> Topics[m]]
SecondOf == [m \in Messages |-> Seconds[m]]
TwoInOrder == <<m1, m2>>
ThreeInOrder == <<m1, m2, m3>>
=============================================================================
