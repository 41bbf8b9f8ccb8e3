------------------------ MODULE TopicMappingProperties ------------------------
(* What mapMQTTToKafkaTopic computes. *)
EXTENDS TopicMapping, SequencesExt

\* The prefix, then a dot and a level for each of the first n levels.
NameOf(topic) ==
    LET name[n \in 0..Len(topic)] ==
            IF n = 0 THEN KafkaPrefix ELSE name[n - 1] \o <<Dot>> \o topic[n]
    IN name

\* The Kafka topic before the cut: as many levels as the limit allows.
LevelsOf(topic) == IF Len(topic) < MaxTopicLevels THEN Len(topic) ELSE MaxTopicLevels
FullName(topic) == NameOf(topic)[LevelsOf(topic)]

\* The scan is right: it yields the prefix and the first max_topic_levels levels, and
\* empty levels at either end or in the middle count as levels.  So the empty topic, which
\* is one empty level, yields the prefix and a dot.  TestTopicMappingEdgeCases expects the
\* bare prefix, but runs a copy of the mapping that returns early.
TakesFirstLevels == phase = "cut" => builder = FullName(mqttTopic)

\* The result fits Kafka, and only a name that was too long is changed, by at most the
\* cut and one dot: messages of two MQTT topics share a Kafka topic only if the names
\* agree up to the cut.
CutToFit ==
    phase = "done" =>
        /\ Len(builder) <= MaxLength
        /\ IsPrefix(builder, FullName(mqttTopic))
        /\ Len(FullName(mqttTopic)) <= MaxLength => builder = FullName(mqttTopic)
        /\ Len(FullName(mqttTopic)) > MaxLength => Len(builder) >= MaxLength - 1

\* No level of the topic has a dot in it.
NoDot(level) == \A i \in 1..Len(level) : level[i] # Dot
Plain(topic) == \A i \in 1..Len(topic) : NoDot(topic[i])

SameFirstLevels(topic, other) ==
    /\ LevelsOf(topic) = LevelsOf(other)
    /\ \A i \in 1..LevelsOf(topic) : topic[i] = other[i]

\* Before the cut, two topics without dots share a name only if they agree in all the
\* levels that count: no level runs into its neighbour, and an empty level is not lost.
SharedOnlyByFirstLevels ==
    phase = "cut" /\ Plain(mqttTopic) =>
        \A topic \in MQTTTopics :
            Plain(topic) /\ FullName(topic) = builder => SameFirstLevels(topic, mqttTopic)
=============================================================================
