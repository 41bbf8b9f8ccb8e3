------------------------- MODULE MCKafkaToMQTTBridge -------------------------
(* Instances of the Kafka to MQTT direction for TLC. *)
EXTENDS KafkaToMQTTBridgeProperties

\* One message of each kind between two that can be published.
EveryKind == <<"valid", "invalid", "skipped", "valid">>
=============================================================================
