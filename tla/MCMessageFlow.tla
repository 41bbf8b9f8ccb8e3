---------------------------- MODULE MCMessageFlow ----------------------------
EXTENDS MessageFlowProperties, TLC

\* Two topics that one Kafka topic stands for, as their first levels agree, and two of the
\* bridge's own.
MCTopics == {"sensor/a/b/1", "sensor/a/b/2", "gom2k/status", "gom2k/dead-letter"}

MCKafkaTopicOf ==
    "sensor/a/b/1" :> "gom2k.sensor.a.b" @@ "sensor/a/b/2" :> "gom2k.sensor.a.b" @@
    "gom2k/status" :> "gom2k.gom2k.status" @@ "gom2k/dead-letter" :> "gom2k.gom2k.dead-letter"

MCSkipped == {"gom2k/status", "gom2k/dead-letter"}

MCPrefixed == {"gom2k.sensor.a.b", "gom2k.gom2k.status", "gom2k.gom2k.dead-letter",
               "gom2k.dead-letter", "gom2k.sensor"}

MCFilters == {{"sensor/a/b/1", "sensor/a/b/2"}, MCTopics}

MCDeviceMessages ==
    {[topic |-> "sensor/a/b/1", payload |-> "text",  retained |-> TRUE],
     [topic |-> "sensor/a/b/2", payload |-> "bytes", retained |-> FALSE],
     [topic |-> "gom2k/status", payload |-> "text",  retained |-> TRUE]}
=============================================================================
