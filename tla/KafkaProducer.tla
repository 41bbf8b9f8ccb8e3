---------------------------- MODULE KafkaProducer ----------------------------
(***************************************************************************)
(* The Kafka producer of internal/kafka/producer.go, shared by the         *)
(* goroutines of a bridge: WriteMessage with its single retry after the    *)
(* topic was created, the cache of created topics and the mutex held while *)
(* a topic is created.                                                     *)
(*                                                                         *)
(* The cluster and the library are external: a write of the library stores *)
(* the message or not, and answers nil or an error; an error may hide a    *)
(* stored message.  A write to a topic that does not exist stores nothing. *)
(***************************************************************************)
EXTENDS FiniteSets

CONSTANTS
    Callers,           \* the goroutines that share the producer
    Topics,            \* Kafka topics
    NoTopic            \* the topic of a caller that has made no call

ASSUME CallersAssumption == "free" \notin Callers
ASSUME TopicsAssumption == NoTopic \notin Topics

VARIABLES
    autoCreateTopics,  \* kafka.auto_create_topics, read at every failed write
    existing,        \* the topics the cluster has
    createdTopics,   \* the cache of the producer
    topicMutex,      \* the caller that holds topicMutex between two steps, or "free"
    closed,          \* Close was called
    pc,              \* where each caller is
    topic,           \* the topic each caller writes to
    answer,          \* what the last call of each caller returned, or "open"
    (* history, read by the properties only *)
    stored,          \* the message of the call is in its topic
    asked            \* the topics of which a CreateTopics request was answered

vars ==
    <<autoCreateTopics, existing, createdTopics, topicMutex, closed, pc, topic, answer,
      stored, asked>>

Goto(c, label) == pc' = [pc EXCEPT ![c] = label]

Return(c, result) ==
    /\ Goto(c, "idle")
    /\ answer' = [answer EXCEPT ![c] = result]

MutexFree == topicMutex = "free"

-----------------------------------------------------------------------------
\* The state after Connect: the writer is made and no topic is cached.
Init ==
    /\ autoCreateTopics \in BOOLEAN
    /\ existing \in SUBSET Topics
    /\ createdTopics = {}
    /\ topicMutex = "free"
    /\ closed = FALSE
    /\ pc = [c \in Callers |-> "idle"]
    /\ topic = [c \in Callers |-> NoTopic]
    /\ answer = [c \in Callers |-> "idle"]
    /\ stored = [c \in Callers |-> FALSE]
    /\ asked = [t \in Topics |-> FALSE]

\* Seeded fault: the caller's topic is not taken.
CallWithoutTopic(c, label) ==
    /\ pc[c] = "idle"
    /\ answer' = [answer EXCEPT ![c] = "open"]
    /\ stored' = [stored EXCEPT ![c] = FALSE]
    /\ Goto(c, label)
    /\ UNCHANGED <<autoCreateTopics, existing, createdTopics, topicMutex, closed,
                   topic, asked>>

Call(c, label) ==
    /\ pc[c] = "idle"
    /\ \E t \in Topics : topic' = [topic EXCEPT ![c] = t]
    /\ answer' = [answer EXCEPT ![c] = "open"]
    /\ stored' = [stored EXCEPT ![c] = FALSE]
    /\ Goto(c, label)
    /\ UNCHANGED <<autoCreateTopics, existing, createdTopics, topicMutex, closed, asked>>

WriteMessage(c) == Call(c, "write")

\* WriteMessages, the batch form: no topic is created and nothing is retried.
WriteMessages(c) == Call(c, "writeBatch")

\* writer.WriteMessages of the library, on an open writer and an existing topic.
Stores(c) ==
    /\ topic[c] \in existing
    /\ ~closed
    /\ stored' = [stored EXCEPT ![c] = TRUE]

\* It may answer an error in any case, with the message stored or not.
Fails(c) == Stores(c) \/ UNCHANGED stored

-----------------------------------------------------------------------------
(* WriteMessage *)

\* Seeded fault: an error of the writer is taken for success.
FirstWriteIgnoringErrors(c) ==
    /\ pc[c] = "write"
    /\ Stores(c) \/ Fails(c)
    /\ Return(c, "nil")
    /\ UNCHANGED <<autoCreateTopics, existing, createdTopics, topicMutex, closed,
                   topic, asked>>

FirstWrite(c) ==
    /\ pc[c] = "write"
    /\ \/ Stores(c) /\ Return(c, "nil")
       \/ Fails(c) /\ autoCreateTopics /\ Goto(c, "lock") /\ UNCHANGED answer
       \/ Fails(c) /\ ~autoCreateTopics /\ Return(c, "error")
    /\ UNCHANGED <<autoCreateTopics, existing, createdTopics, topicMutex, closed,
                   topic, asked>>

\* The retry of line 96: an error answers the error of the first write.
SecondWrite(c) ==
    /\ pc[c] = "rewrite"
    /\ \/ Stores(c) /\ Return(c, "nil")
       \/ Fails(c) /\ Return(c, "error")
    /\ UNCHANGED <<autoCreateTopics, existing, createdTopics, topicMutex, closed,
                   topic, asked>>

WriteBatch(c) ==
    /\ pc[c] = "writeBatch"
    /\ \/ Stores(c) /\ Return(c, "nil")
       \/ Fails(c) /\ Return(c, "error")
    /\ UNCHANGED <<autoCreateTopics, existing, createdTopics, topicMutex, closed,
                   topic, asked>>

-----------------------------------------------------------------------------
(* createTopicIfNeeded *)

\* Seeded fault: the cache is read before the mutex is taken.
LookUpUnlocked(c) ==
    /\ pc[c] = "lock"
    /\ IF topic[c] \in createdTopics THEN Goto(c, "rewrite") ELSE Goto(c, "dial")
    /\ UNCHANGED <<autoCreateTopics, existing, createdTopics, topicMutex, closed,
                   topic, answer, stored, asked>>

\* The mutex is taken and, for a cached topic, released at once.
LookUp(c) ==
    /\ pc[c] = "lock"
    /\ MutexFree
    /\ IF topic[c] \in createdTopics
         THEN Goto(c, "rewrite") /\ UNCHANGED topicMutex
         ELSE Goto(c, "dial") /\ topicMutex' = c
    /\ UNCHANGED <<autoCreateTopics, existing, createdTopics, closed, topic, answer,
                   stored, asked>>

\* Seeded fault: the error return leaves the mutex locked.
DialFailsLocked(c) ==
    /\ pc[c] = "dial"
    /\ Return(c, "error")
    /\ UNCHANGED <<autoCreateTopics, existing, createdTopics, topicMutex, closed,
                   topic, stored, asked>>

\* createKafkaConn fails; the deferred Unlock runs.
DialFails(c) ==
    /\ pc[c] = "dial"
    /\ topicMutex' = "free"
    /\ Return(c, "error")
    /\ UNCHANGED <<autoCreateTopics, existing, createdTopics, closed, topic, stored, asked>>

DialSucceeds(c) ==
    /\ pc[c] = "dial"
    /\ Goto(c, "create")
    /\ UNCHANGED <<autoCreateTopics, existing, createdTopics, topicMutex, closed,
                   topic, answer, stored, asked>>

\* conn.CreateTopics; handleTopicCreationResult turns every error into nil, so
\* the topic is cached whether or not it was created.
CreateTopic(c) ==
    /\ pc[c] = "create"
    /\ existing' \in {existing, existing \cup {topic[c]}}
    /\ asked' = [asked EXCEPT ![topic[c]] = TRUE]
    /\ createdTopics' = createdTopics \cup {topic[c]}
    /\ Goto(c, "propagate")
    /\ UNCHANGED <<autoCreateTopics, topicMutex, closed, topic, answer, stored>>

\* The sleep of waitForTopicPropagation ends and the mutex is released.
Propagated(c) ==
    /\ pc[c] = "propagate"
    /\ topicMutex' = "free"
    /\ Goto(c, "rewrite")
    /\ UNCHANGED <<autoCreateTopics, existing, createdTopics, closed, topic, answer,
                   stored, asked>>

-----------------------------------------------------------------------------
\* Somebody else creates a topic.
TopicAppears ==
    /\ \E t \in Topics \ existing : existing' = existing \cup {t}
    /\ UNCHANGED <<autoCreateTopics, createdTopics, topicMutex, closed, pc, topic,
                   answer, stored, asked>>

\* Close does not wait for the callers.
Close ==
    /\ ~closed
    /\ closed' = TRUE
    /\ UNCHANGED <<autoCreateTopics, existing, createdTopics, topicMutex, pc, topic,
                   answer, stored, asked>>

\* What a caller does until its call returns.
Continue(c) ==
    \/ FirstWrite(c) \/ SecondWrite(c) \/ WriteBatch(c)
    \/ LookUp(c) \/ DialFails(c) \/ DialSucceeds(c) \/ CreateTopic(c) \/ Propagated(c)

Next ==
    \/ \E c \in Callers : WriteMessage(c) \/ WriteMessages(c) \/ Continue(c)
    \/ TopicAppears
    \/ Close

\* Every send, dial and sleep ends, and a goroutine that waits for a mutex that is
\* again and again released gets it: Go's mutex hands itself to a starving waiter.
Fairness == \A c \in Callers : SF_vars(Continue(c))

SafetySpec == Init /\ [][Next]_vars
Spec == SafetySpec /\ Fairness
=============================================================================
