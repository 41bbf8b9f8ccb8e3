------------------------ MODULE MessageFlowProperties ------------------------
EXTENDS MessageFlow

Messages ==
    [topic : Topics, payload : {"text", "bytes", "replaced"}, retained : BOOLEAN,
     id : 1..MaxMessages, hops : 0..MaxHops + 1, failures : 0..MaxFailures]

Records ==
    [topic : Topics \cup {NoTopic}, payload : {"text", "replaced"}, retained : BOOLEAN,
     id : 1..MaxMessages, hops : 0..MaxHops + 1, failures : 0..MaxFailures]

\* Every variable has its type; what is in a Kafka topic is text (ConvertMQTTMessage).
TypeOK ==
    /\ filter \in Filters /\ retainOnly \in BOOLEAN /\ deadLetters \subseteq {"mqtt", "kafka"}
    /\ \A i \in DOMAIN sent : sent[i] \in DeviceMessages
    /\ retained \in [Topics -> Messages \cup {NoMessage}]
    /\ session \in {"off", "subscribed", "lost"}
    /\ Range(inbox) \subseteq Messages
    /\ DOMAIN topic = KafkaTopics
    /\ \A k \in KafkaTopics : Range(topic[k]) \subseteq Records
    /\ reading \in KafkaTopics \cup {NoTopic} /\ position \in Nat
    /\ committed \in [KafkaTopics -> Nat \cup {-1}]
    /\ consumed \subseteq KafkaTopics /\ failed \in 0..MaxFailures /\ restarts \in 0..MaxRestarts

\* Every copy of a message, wherever it is.
Copies == Range(inbox) \cup (Range(retained) \ {NoMessage})
              \cup UNION {Range(topic[k]) : k \in KafkaTopics}

\* However often a message goes round, it keeps the topic and the payload its device gave
\* it, and gains no retain flag; only bytes that are not text change (both conversions).
RoundTrip ==
    \A m \in Copies : m.failures = 0 =>
        /\ m.topic = sent[m.id].topic
        /\ m.payload # sent[m.id].payload =>
              m.payload = "replaced" /\ sent[m.id].payload = "bytes"
        /\ m.retained => sent[m.id].retained

Looping(t) == t \in filter \ Skipped /\ KafkaTopicOf[t] \in consumed

\* The last message a device retained in a topic, 0 if there is none.
Newest(t) == Max({0} \cup {i \in DOMAIN sent : sent[i].topic = t /\ sent[i].retained})

\* A message is forwarded again, and a retained value gives way to an older one, only
\* where both directions meet: the topic is subscribed to, not skipped, and its Kafka topic
\* consumed.  With retain_only each trip takes a new subscription.  Dead letters are made
\* of dead letters only where a direction reads the topic they are sent to
\* (shouldSkipTopic, discoverKafkaTopics, onMessage, sendToDeadLetterQueue).
LoopsOnlyWhereExpected ==
    /\ \A m \in Copies :
          /\ m.hops > 1 => Looping(m.topic) /\ (retainOnly => m.hops <= restarts + 1)
          /\ m.failures > 1 => DeadLetterKafka \in consumed \/ DeadLetterMQTT \in filter
    /\ \A t \in Topics :
          retained[t] # NoMessage /\ retained[t].id # Newest(t) => Looping(t)

MayCirculate ==
    \/ ~retainOnly /\ \E t \in Topics : Looping(t)
    \/ "kafka" \in deadLetters /\ DeadLetterKafka \in consumed
    \/ ~retainOnly /\ "mqtt" \in deadLetters /\ DeadLetterMQTT \in filter

\* Once devices are silent the bridge falls silent too, unless the configuration lets a
\* message go round for ever: nothing is left to handle in either direction.
FallsSilent == <>[](MayCirculate \/ (inbox = << >> /\ ~Unread))

\* Claimed by the comment on the topics that are skipped: messages do not loop.
NoLoops == \A m \in Copies : m.hops < 2
=============================================================================
