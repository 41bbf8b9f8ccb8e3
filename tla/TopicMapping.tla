----------------------------- MODULE TopicMapping -----------------------------
(***************************************************************************)
(* mapMQTTToKafkaTopic of internal/bridge/mqtt_to_kafka.go: one pass over  *)
(* an MQTT topic that appends a dot and a level to the builder for as long *)
(* as fewer than max_topic_levels levels were taken, then a cut at the     *)
(* length Kafka allows.                                                    *)
(*                                                                         *)
(* An MQTT topic is the sequence of its levels; a level and a Kafka topic  *)
(* are sequences of characters.  One step of the machine is one separator. *)
(***************************************************************************)
EXTENDS Naturals, Sequences

CONSTANTS
    Characters,      \* the characters of a topic
    MQTTTopics,      \* the topics to map: nonempty sequences of levels
    KafkaPrefix,     \* mapping.kafka_prefix
    MaxTopicLevels,  \* mapping.max_topic_levels
    MaxLength        \* 249 in the code

Dot == "."

\* Levels and Kafka topics: sequences of characters.
Names == Seq(Characters)

ASSUME DotAssumption == Dot \in Characters
ASSUME TopicsAssumption ==
    \A topic \in MQTTTopics : topic \in Seq(Names) /\ Len(topic) > 0
ASSUME PrefixAssumption == KafkaPrefix \in Names
ASSUME MaxTopicLevelsAssumption == MaxTopicLevels \in Nat
ASSUME MaxLengthAssumption == MaxLength \in Nat \ {0}

VARIABLES
    mqttTopic,   \* the topic that is mapped
    start,       \* the level that starts at startIdx
    levelCount,  \* levels taken so far
    builder,     \* the Kafka topic so far
    phase        \* "scan", "cut" or "done"

vars == <<mqttTopic, start, levelCount, builder, phase>>

Init ==
    /\ mqttTopic \in MQTTTopics
    /\ start = 1
    /\ levelCount = 0
    /\ builder = KafkaPrefix
    /\ phase = "scan"

\* The builder with one more level.
WithLevel(level) == builder \o <<Dot>> \o level

LevelsLeft == levelCount < MaxTopicLevels

\* Seeded fault: an empty level is passed over.
EmptyLevelSkipped ==
    /\ phase = "scan"
    /\ start < Len(mqttTopic)
    /\ IF LevelsLeft /\ mqttTopic[start] # << >>
         THEN builder' = WithLevel(mqttTopic[start]) /\ levelCount' = levelCount + 1
         ELSE UNCHANGED <<builder, levelCount>>
    /\ start' = start + 1
    /\ UNCHANGED <<mqttTopic, phase>>

\* A separator: the level before it is taken if there is room, and the next starts.
Separator ==
    /\ phase = "scan"
    /\ start < Len(mqttTopic)
    /\ IF LevelsLeft
         THEN builder' = WithLevel(mqttTopic[start]) /\ levelCount' = levelCount + 1
         ELSE UNCHANGED <<builder, levelCount>>
    /\ start' = start + 1
    /\ UNCHANGED <<mqttTopic, phase>>

\* Seeded fault: what follows the last separator is taken without a look at the limit.
LastLevelAlways ==
    /\ phase = "scan"
    /\ start = Len(mqttTopic)
    /\ builder' = WithLevel(mqttTopic[start])
    /\ phase' = "cut"
    /\ UNCHANGED <<mqttTopic, start, levelCount>>

\* The last level, empty after a trailing separator; levelCount is left alone.
LastLevel ==
    /\ phase = "scan"
    /\ start = Len(mqttTopic)
    /\ builder' = IF LevelsLeft THEN WithLevel(mqttTopic[start]) ELSE builder
    /\ phase' = "cut"
    /\ UNCHANGED <<mqttTopic, start, levelCount>>

\* A topic without one trailing dot.
WithoutDot(topic) ==
    IF topic[Len(topic)] = Dot THEN SubSeq(topic, 1, Len(topic) - 1) ELSE topic

\* Seeded fault: the cut is one character late.
CutLate ==
    /\ phase = "cut"
    /\ builder' = IF Len(builder) > MaxLength + 1
                    THEN WithoutDot(SubSeq(builder, 1, MaxLength + 1))
                    ELSE builder
    /\ phase' = "done"
    /\ UNCHANGED <<mqttTopic, start, levelCount>>

Cut ==
    /\ phase = "cut"
    /\ builder' = IF Len(builder) > MaxLength
                    THEN WithoutDot(SubSeq(builder, 1, MaxLength))
                    ELSE builder
    /\ phase' = "done"
    /\ UNCHANGED <<mqttTopic, start, levelCount>>

Done == phase = "done" /\ UNCHANGED vars

Next == Separator \/ LastLevel \/ Cut \/ Done

Spec == Init /\ [][Next]_vars
=============================================================================
