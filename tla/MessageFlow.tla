----------------------------- MODULE MessageFlow -----------------------------
(***************************************************************************)
(* What the two directions of the bridge do to a message together: from a  *)
(* device over the MQTT broker into a Kafka topic and back to the broker   *)
(* (handleMQTTMessage, handleKafkaMessage, both conversions, the sessions  *)
(* of the clients).  A message carries how often it was forwarded to Kafka *)
(* and how often it was made a dead letter, which the program does not     *)
(* know.  A handler is one step here; the modules of the two directions    *)
(* and of the dead letter queue say what happens inside it.  Left out:     *)
(* QoS, the timestamps, the retries before a dead letter, and what a       *)
(* failed send stored all the same.                                        *)
(***************************************************************************)
EXTENDS Integers, Sequences, SequencesExt, FiniteSets

CONSTANTS
    Topics,           \* the MQTT topics
    KafkaTopicOf,     \* mapMQTTToKafkaTopic, a function of the MQTT topics
    Skipped,          \* the MQTT topics below "$SYS/" and "gom2k/"
    DeadLetterMQTT,   \* the MQTT topic for dead letters, configured or not
    DeadLetterKafka,  \* the Kafka topic for dead letters, configured or not
    DefaultTopic,     \* the Kafka topic "<prefix>.sensor"
    Prefixed,         \* the Kafka topics that begin with the prefix
    Filters,          \* the sets of topics a configuration may subscribe to
    DeviceMessages,   \* what devices publish: topic, payload, retained
    NoTopic,          \* in place of a topic
    NoMessage,        \* in place of a message
    MaxMessages,      \* bound on what devices publish
    MaxHops,          \* bound on how often one message is forwarded to Kafka
    MaxFailures,      \* bound on how often a handler fails
    MaxRestarts       \* bound on restarts

ASSUME TopicsAssumption ==
    /\ DeadLetterMQTT \in Topics /\ NoTopic \notin Topics
    /\ Skipped \subseteq Topics /\ Filters \subseteq SUBSET Topics
    /\ IsFiniteSet(Topics)
    /\ DOMAIN KafkaTopicOf = Topics

KafkaTopics == Range(KafkaTopicOf) \cup {DeadLetterKafka, DefaultTopic}

ASSUME KafkaTopicsAssumption == Prefixed \subseteq KafkaTopics

ASSUME DeviceMessagesAssumption ==
    DeviceMessages \subseteq
        [topic : Topics, payload : {"text", "bytes"}, retained : BOOLEAN]

ASSUME BoundsAssumption ==
    /\ MaxMessages \in Nat /\ MaxHops \in Nat
    /\ MaxFailures \in Nat /\ MaxRestarts \in Nat

VARIABLES
    filter, retainOnly, deadLetters,   \* the configuration
    sent,        \* what devices have published
    retained,    \* the message the broker retains for each topic
    session,     \* of the subscribing client: "off", "subscribed" or "lost"
    inbox,       \* deliveries on their way to onMessage
    topic,       \* the records of each Kafka topic
    reading,     \* the Kafka topic the consumer reads, or NoTopic
    position,    \* how many of its records are read or passed over
    committed,   \* the group's offset in each Kafka topic, or -1
    consumed,    \* the Kafka topics some process has read
    failed,      \* handlers that have failed so far
    restarts     \* restarts so far

configuration == <<filter, retainOnly, deadLetters>>
broker == <<retained, inbox>>
consumer == <<reading, position, committed, consumed>>
vars == <<configuration, sent, broker, session, topic, consumer, failed, restarts>>

Init ==
    /\ filter \in Filters /\ retainOnly \in BOOLEAN
    /\ deadLetters \in SUBSET {"mqtt", "kafka"}
    /\ sent = << >>
    /\ retained = [t \in Topics |-> NoMessage]
    /\ session = "off" /\ inbox = << >>
    /\ topic = [k \in KafkaTopics |-> << >>]
    /\ reading = NoTopic /\ position = 0
    /\ committed = [k \in KafkaTopics |-> -1]
    /\ consumed = {} /\ failed = 0 /\ restarts = 0

\* The broker takes a message while the queue waits for delivery: it keeps a retained one,
\* and delivers each to a subscriber with the retain flag cleared.
Broker(queue, m) ==
    /\ retained' = IF m.retained THEN [retained EXCEPT ![m.topic] = m] ELSE retained
    /\ inbox' = IF session = "subscribed" /\ m.topic \in filter
                  THEN Append(queue, [m EXCEPT !.retained = FALSE]) ELSE queue

Log(kafkaTopic, record) == topic' = [topic EXCEPT ![kafkaTopic] = Append(@, record)]

-----------------------------------------------------------------------------
(* Devices, the broker and the client's session. *)

DevicePublishes ==
    /\ Len(sent) < MaxMessages
    /\ \E d \in DeviceMessages :
          /\ sent' = Append(sent, d)
          /\ Broker(inbox, [topic |-> d.topic, payload |-> d.payload, retained |-> d.retained,
                            id |-> Len(sent) + 1, hops |-> 0, failures |-> 0])
    /\ UNCHANGED <<configuration, session, topic, consumer, failed, restarts>>

\* A subscriber is given what the broker retains, and only that with the flag set.
Subscribe ==
    /\ session = "off" /\ session' = "subscribed"
    /\ LET kept == {t \in filter : retained[t] # NoMessage}
       IN \E order \in SetToSeqs(kept) :
             inbox' = inbox \o [i \in DOMAIN order |-> retained[order[i]]]
    /\ UNCHANGED <<configuration, sent, retained, topic, consumer, failed, restarts>>

\* What the client has not received yet is lost with the session.  The client connects
\* again by itself, but onConnect only logs and the new session has no subscriptions.
LoseConnection ==
    /\ session = "subscribed" /\ session' = "lost"
    /\ \E n \in 0..Len(inbox) : inbox' = SubSeq(inbox, 1, n)
    /\ UNCHANGED <<configuration, sent, retained, topic, consumer, failed, restarts>>

-----------------------------------------------------------------------------
(* The conversions and the two handlers. *)

\* Seeded fault: the payload is kept as it is.
ConvertMQTTMessageAsIs(m) == [m EXCEPT !.hops = m.hops + 1]

\* The JSON text holds only text: other bytes are replaced.
ConvertMQTTMessage(m) ==
    [m EXCEPT !.hops = m.hops + 1,
              !.payload = IF m.payload = "bytes" THEN "replaced" ELSE m.payload]

\* Seeded fault: the topic is guessed from the name of the Kafka topic.
ConvertKafkaMessageByName(kafkaTopic, record) ==
    [record EXCEPT !.topic = IF @ = NoTopic
                               THEN @ ELSE CHOOSE t \in Topics : KafkaTopicOf[t] = kafkaTopic]

\* The topic is the one in the JSON text; a dead letter's has none.
ConvertKafkaMessage(kafkaTopic, record) == record

\* Seeded fault: retained messages are skipped instead of the others.
AcceptedUnlessRetained(m) == retainOnly => ~m.retained

Accepted(m) == retainOnly => m.retained

\* Seeded fault: nothing is skipped.
shouldSkipNothing(t) == FALSE

shouldSkipTopic(t) == t \in Skipped

DeadLetter(m, t) ==
    [topic |-> t, payload |-> "text", retained |-> FALSE,
     id |-> m.id, hops |-> 0, failures |-> m.failures + 1]

\* A handler fails with m: without a queue it is lost, or else a dead letter is sent to
\* each topic that is configured, if it can be.  Its text has no field "mqtt_topic".
Fails(queue, m) ==
    /\ failed < MaxFailures /\ failed' = failed + 1
    /\ \E targets \in SUBSET deadLetters :
          /\ IF "mqtt" \in targets THEN Broker(queue, DeadLetter(m, DeadLetterMQTT))
                                  ELSE inbox' = queue /\ UNCHANGED retained
          /\ IF "kafka" \in targets THEN Log(DeadLetterKafka, DeadLetter(m, NoTopic))
                                   ELSE UNCHANGED topic

\* onMessage and handleMQTTMessage.
HandleMQTTMessage ==
    /\ inbox # << >>
    /\ LET m == Head(inbox)
       IN \/ /\ ~Accepted(m)
             /\ inbox' = Tail(inbox)
             /\ UNCHANGED <<topic, retained, failed>>
          \/ /\ Accepted(m)
             /\ Log(KafkaTopicOf[m.topic], ConvertMQTTMessage(m))
             /\ inbox' = Tail(inbox)
             /\ UNCHANGED <<retained, failed>>
          \/ Accepted(m) /\ Fails(Tail(inbox), m)
    /\ UNCHANGED <<configuration, sent, session, consumer, restarts>>

\* Connect reads one topic: any of those it discovers, which are all that exist and have
\* the prefix, or a default if there is none.  One with records exists, an empty one may.
\* A group that has committed nothing there starts at the end.
ConnectConsumer ==
    /\ reading = NoTopic
    /\ \/ reading' \in Prefixed
       \/ (\A k \in Prefixed : topic[k] = << >>) /\ reading' = DefaultTopic
    /\ position' = IF committed[reading'] = -1 THEN Len(topic[reading'])
                                               ELSE committed[reading']
    /\ consumed' = consumed \cup {reading'}
    /\ UNCHANGED <<configuration, sent, broker, session, topic, committed, failed, restarts>>

Unread == reading # NoTopic /\ position < Len(topic[reading])

\* ReadMessage, which commits, and handleKafkaMessage.
HandleKafkaMessage ==
    /\ Unread
    /\ position' = position + 1
    /\ committed' = [committed EXCEPT ![reading] = position + 1]
    /\ LET m == ConvertKafkaMessage(reading, topic[reading][position + 1])
       IN \/ /\ m.topic # NoTopic /\ shouldSkipTopic(m.topic)
             /\ UNCHANGED <<broker, topic, failed>>
          \/ /\ m.topic # NoTopic /\ ~shouldSkipTopic(m.topic)
             /\ m.hops < MaxHops
             /\ Broker(inbox, m)
             /\ UNCHANGED <<topic, failed>>
          \/ /\ m.topic = NoTopic \/ ~shouldSkipTopic(m.topic)
             /\ Fails(inbox, m)
    /\ UNCHANGED <<configuration, sent, session, reading, consumed, restarts>>

-----------------------------------------------------------------------------
\* The process ends and is started again; the broker and Kafka stay.
Restart ==
    /\ restarts < MaxRestarts /\ restarts' = restarts + 1
    /\ session # "off" \/ reading # NoTopic
    /\ session' = "off" /\ inbox' = << >>
    /\ reading' = NoTopic /\ position' = 0
    /\ UNCHANGED <<configuration, sent, retained, topic, committed, consumed, failed>>

Next ==
    \/ DevicePublishes
    \/ Subscribe \/ LoseConnection
    \/ HandleMQTTMessage
    \/ ConnectConsumer \/ HandleKafkaMessage
    \/ Restart

SafetySpec == Init /\ [][Next]_vars

\* Each handler has a goroutine of its own, and what it calls returns.
Spec == SafetySpec /\ WF_vars(HandleMQTTMessage) /\ WF_vars(HandleKafkaMessage)
=============================================================================
