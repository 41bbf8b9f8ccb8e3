--------------------------- MODULE MCKafkaProducer ---------------------------
(* Instances of the Kafka producer for TLC. *)
EXTENDS KafkaProducerProperties

CONSTANTS forwarder, retrier, t1, t2
=============================================================================
