---------------------- MODULE MQTTToKafkaBridgeProperties ----------------------
(* The properties of the MQTT to Kafka direction. *)
EXTENDS MQTTToKafkaBridge

Packets ==
    [kind : {"message"}, of : Messages] \cup [kind : {"ack"}, of : Queue!Threads]

TypeOK ==
    /\ start \in {"idle", "connectClient", "connectProducer", "startQueue", "subscribe",
                  "returned", "failed"}
    /\ stop \in {"idle", "stopQueue", "stopTicker", "waitForQueue", "disconnect",
                 "closeProducer", "returned", "exited"}
    /\ client \in {"nil", "connected", "subscribed", "disconnected"}
    /\ producer \in {"nil", "open", "closed"}
    /\ sent \in 0..Len(Arrivals)
    /\ wire \in Seq(Packets)
    /\ inbound \in Seq(Messages) /\ Len(inbound) <= InboundSlots
    /\ token \in [Queue!Threads -> {"none", "sent", "acked", "done"}]
    /\ kafkaLog \in Seq(Messages)
    /\ orderly \in BOOLEAN

\* The queue inside the bridge behaves as DeadLetterQueue says, so what is shown there
\* holds of this direction.  What the queue takes for granted is what Start and the
\* library make true: no message reaches the callback before the queue is started, for
\* Start subscribes last, and none reaches it twice on its way from the broker; Stop
\* passes the queue only when the retry goroutine has ended.
KeepsQueue == Queue!SafetySpec

Logged(m) == \E i \in DOMAIN kafkaLog : kafkaLog[i] = m

\* Kafka has the messages in the order of the broker, but for those that failed: a
\* message is overtaken by a later one only while the queue waits to retry it.
OnlyFailedAreOvertaken ==
    \A i, j \in DOMAIN Arrivals :
        i < j /\ Logged(Arrivals[j]) /\ ~Logged(Arrivals[i]) => failures[Arrivals[i]] > 0

\* No send of m has succeeded, and, if m has a key of its own, m was not given up and is in
\* no dead letter topic.
Open(m) ==
    /\ deliveries[m] = 0
    /\ m \in Queue!Owners => m \notin abandoned /\ deadLetters[m] = {}

StoresOnlyOpen == \A m \in Messages : kafkaLog' = Append(kafkaLog, m) => Open(m)

\* The outcome of a message is final: after it neither the callback nor a retry brings the
\* message to Kafka.  So what is in Kafka twice, or in Kafka and in a dead letter topic, was
\* stored by a send that answered an error.
OutcomeIsFinal == [][StoresOnlyOpen]_vars

InLibrary(m) ==
    \/ \E p \in DOMAIN wire : wire[p].kind = "message" /\ wire[p].of = m
    \/ \E p \in DOMAIN inbound : inbound[p] = m

\* The queue has a record of m, or the callback or the retry goroutine is handing it over.
InQueue(m) ==
    \/ Queue!Tracked(m)
    \/ \E t \in Queue!Threads : cur[t] = m /\ pc[t] = "handle"

\* No message with a key of its own is lost between the broker and Kafka: what the broker
\* has sent is still in the library, in Kafka, in the queue, or was given up to the dead
\* letter topics.
EveryMessageAccounted ==
    \A i \in 1..sent :
        LET m == Arrivals[i]
        IN m \in Queue!Owners => InLibrary(m) \/ Logged(m) \/ InQueue(m) \/ m \in abandoned

\* When Stop is called after Start has returned, the retry goroutine does not outlive
\* the client and the producer it sends through.
RetrierEndsFirst ==
    orderly /\ (client = "disconnected" \/ producer = "closed")
        => pc["retrier"] \in {"notStarted", "exited"}

\* The callback for m has returned.
Handled(m) == m \notin incoming /\ ~(cur["forwarder"] = m /\ pc["forwarder"] # "idle")

\* The callback returns for every message the broker sends, however many of them fail
\* and however long the retry goroutine holds the mutex, until Stop is called.  It holds
\* as long as the library can hold the messages that arrive while the callback is busy.
EveryMessageHandled ==
    \A i \in DOMAIN Arrivals : (sent >= i) ~> (Handled(Arrivals[i]) \/ stop # "idle")

\* Stop, once called, ends the process, whatever Start, the callback and the retry
\* goroutine are doing, under the same condition.
StopTerminates == (stop # "idle") ~> (stop = "exited")

\* The direction keeps the contract Program builds on: Start ends, Stop is called once
\* and returns, and the process exits only when both have.
Contract ==
    INSTANCE Direction
        WITH process <- IF Up THEN "up" ELSE "exited",
             start   <- IF start \in {"idle", "returned", "failed"} THEN start ELSE "running",
             stop    <- IF stop = "idle" THEN "idle"
                        ELSE IF stop \in {"returned", "exited"} THEN "returned"
                        ELSE "running"

KeepsDirection == Contract!Spec

-----------------------------------------------------------------------------
(* Claims *)

\* "Stop gracefully shuts down the bridge" (mqtt_to_kafka.go:68), with the dead letter
\* topics of configs/bridge-config-dlq-example.yaml.
StopShutsDown == StopTerminates
=============================================================================
