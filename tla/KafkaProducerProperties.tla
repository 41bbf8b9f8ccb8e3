----------------------- MODULE KafkaProducerProperties -----------------------
(* The properties of the Kafka producer. *)
EXTENDS KafkaProducer

InCreation == {"dial", "create", "propagate"}

TypeOK ==
    /\ autoCreateTopics \in BOOLEAN
    /\ existing \subseteq Topics
    /\ createdTopics \subseteq Topics
    /\ topicMutex \in Callers \cup {"free"}
    /\ closed \in BOOLEAN
    /\ pc \in [Callers -> {"idle", "write", "writeBatch", "lock", "rewrite"} \cup InCreation]
    /\ topic \in [Callers -> Topics \cup {NoTopic}]
    /\ answer \in [Callers -> {"idle", "open", "nil", "error"}]
    /\ stored \in [Callers -> BOOLEAN]
    /\ asked \in [Topics -> BOOLEAN]

\* A request for a topic is the first, and a second write comes after it.
OneRequest(c) ==
    /\ CreateTopic(c) => ~asked[topic[c]]
    /\ SecondWrite(c) => asked[topic[c]]

\* The cache avoids duplicate requests and loses none: once a CreateTopics request for a
\* topic was answered, no goroutine makes another, however many saw their write fail
\* before; and whoever writes a second time does so after that request, its own or that
\* of a goroutine that held the mutex before it.
OneRequestBeforeRetry == [][\A c \in Callers : OneRequest(c)]_vars

\* WriteMessage answers nil only if the message is in the topic, and says nothing of
\* the message when it answers an error: the contract the bridges build on.
Contract == INSTANCE SendContract WITH call <- answer

KeepsSendContract == Contract!Spec

\* Every call returns, also when several goroutines wait for topicMutex and the
\* dial or the creation fails.
EveryCallReturns == \A c \in Callers : (answer[c] = "open") ~> (answer[c] # "open")

=============================================================================
