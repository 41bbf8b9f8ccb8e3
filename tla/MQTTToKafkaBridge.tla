--------------------------- MODULE MQTTToKafkaBridge ---------------------------
(***************************************************************************)
(* The MQTT to Kafka direction of internal/bridge/mqtt_to_kafka.go with    *)
(* its dead letter queue enabled: Start, run by a goroutine of             *)
(* BidirectionalBridge.Start, the callback handleMQTTMessage, and Stop,    *)
(* called by main at any time.  The queue is the module DeadLetterQueue,   *)
(* whose forwarder is the callback; its dead letters to MQTT go out        *)
(* through the same client that calls the callback.                        *)
(*                                                                         *)
(* The MQTT library is external.  It reads the packets of the broker in    *)
(* order, calls the callback for one message after the other, and reads no *)
(* further while the callback is busy and its goroutines hold as many      *)
(* messages as they can.  Acknowledgements come in the same stream.        *)
(*                                                                         *)
(* Left out: reportError and monitorErrors, which never block and only log.*)
(***************************************************************************)
EXTENDS Naturals, Sequences, FiniteSets

CONSTANTS
    Messages, NoMessage, OriginalTopic, Discriminator, MaxRetries, DeadLetterTopics,
    Arrivals,      \* the messages in the order in which the broker sends them
    InboundSlots   \* messages the library holds while the callback is busy

ASSUME QueueAssumption ==
    /\ NoMessage \notin Messages
    /\ OriginalTopic = [m \in Messages |-> OriginalTopic[m]]
    /\ Discriminator = [m \in Messages |-> Discriminator[m]]
    /\ MaxRetries \in Nat
    /\ DeadLetterTopics \subseteq {"kafka", "mqtt"}
ASSUME ArrivalsAssumption ==
    /\ Arrivals \in Seq(Messages)
    /\ \A i, j \in DOMAIN Arrivals : Arrivals[i] = Arrivals[j] => i = j
ASSUME InboundSlotsAssumption == InboundSlots \in Nat \ {0}

VARIABLES
    (* the queue, see DeadLetterQueue *)
    incoming, failedMessages, attemptCount, due, messageMutex, messagesToRetry, tick,
    lifecycle, pc, cur, deliveries, failures, deadLetters, abandoned,
    (* the bridge *)
    start,      \* how far Start has come
    stop,       \* how far Stop has come
    client,     \* "nil", "connected", "subscribed" (to a topic at least) or "disconnected"
    producer,   \* "nil", "open" or "closed"
    (* the library and the broker *)
    sent,       \* how many of Arrivals the broker has sent
    wire,       \* packets the library has not read: messages and acknowledged threads
    inbound,    \* messages the library has read and not handed to the callback
    token,      \* of the dead letter each thread publishes: "none", "sent", "acked", "done"
    (* history, read by the properties only *)
    kafkaLog,   \* the message of every send that stored it, in the order of the sends
    orderly     \* Stop was called after Start had returned

queueVars ==
    <<incoming, failedMessages, attemptCount, due, messageMutex, messagesToRetry, tick,
      lifecycle, pc, cur, deliveries, failures, deadLetters, abandoned>>
bridgeVars  == <<start, stop, client, producer>>
libraryVars == <<sent, wire, inbound, token>>
vars == <<queueVars, bridgeVars, libraryVars, kafkaLog, orderly>>

Queue == INSTANCE DeadLetterQueue

Up == stop # "exited"

Init ==
    /\ Queue!Init
    /\ start = "idle"
    /\ stop = "idle"
    /\ client = "nil"
    /\ producer = "nil"
    /\ sent = 0
    /\ wire = << >>
    /\ inbound = << >>
    /\ token = [t \in Queue!Threads |-> "none"]
    /\ kafkaLog = << >>
    /\ orderly = FALSE

-----------------------------------------------------------------------------
(* Start.  A failed step returns an error, which its goroutine only logs. *)

StartStep(from) ==
    /\ Up
    /\ start = from
    /\ UNCHANGED <<stop, libraryVars, kafkaLog, orderly>>

CallStart ==
    /\ StartStep("idle")
    /\ start' = "connectClient"
    /\ UNCHANGED <<queueVars, client, producer>>

\* Seeded fault: the topics are subscribed to as soon as the client is connected.
ConnectClientSubscribing ==
    /\ StartStep("connectClient")
    /\ \/ start' = "connectProducer" /\ client' = "subscribed"
       \/ start' = "failed" /\ UNCHANGED client
    /\ UNCHANGED <<queueVars, producer>>

ConnectClient ==
    /\ StartStep("connectClient")
    /\ \/ start' = "connectProducer" /\ client' = "connected"
       \/ start' = "failed" /\ UNCHANGED client
    /\ UNCHANGED <<queueVars, producer>>

ConnectProducer ==
    /\ StartStep("connectProducer")
    /\ \/ start' = "startQueue" /\ producer' = "open"
       \/ start' = "failed" /\ UNCHANGED producer
    /\ UNCHANGED <<queueVars, client>>

StartQueue ==
    /\ StartStep("startQueue")
    /\ Queue!Start
    /\ start' = "subscribe"
    /\ UNCHANGED <<client, producer>>

\* All topics, one after the other, in one step: once the broker has taken the first one
\* messages arrive, also when it refuses a later one.  A client that Stop has disconnected
\* cannot subscribe.
Subscribe ==
    /\ StartStep("subscribe")
    /\ \/ client = "connected" /\ client' = "subscribed" /\ start' \in {"returned", "failed"}
       \/ start' = "failed" /\ UNCHANGED client
    /\ UNCHANGED <<queueVars, producer>>

-----------------------------------------------------------------------------
(* The broker and the library. *)

LibraryStep == Up /\ UNCHANGED <<queueVars, bridgeVars, kafkaLog, orderly>>

BrokerSends ==
    /\ LibraryStep
    /\ client = "subscribed"
    /\ sent < Len(Arrivals)
    /\ sent' = sent + 1
    /\ wire' = Append(wire, [kind |-> "message", of |-> Arrivals[sent + 1]])
    /\ UNCHANGED <<inbound, token>>

\* The dead letter of a thread has reached the broker, which acknowledges it.
BrokerAcks(t) ==
    /\ LibraryStep
    /\ client # "disconnected"
    /\ token[t] = "sent"
    /\ token' = [token EXCEPT ![t] = "acked"]
    /\ wire' = Append(wire, [kind |-> "ack", of |-> t])
    /\ UNCHANGED <<sent, inbound>>

\* Seeded fault: the library reads on while the callback is busy.
ReadMessageUnbounded ==
    /\ LibraryStep
    /\ client = "subscribed"
    /\ wire # << >>
    /\ Head(wire).kind = "message"
    /\ inbound' = Append(inbound, Head(wire).of)
    /\ wire' = Tail(wire)
    /\ UNCHANGED <<sent, token>>

ReadMessage ==
    /\ LibraryStep
    /\ client = "subscribed"
    /\ wire # << >>
    /\ Head(wire).kind = "message"
    /\ Len(inbound) < InboundSlots
    /\ inbound' = Append(inbound, Head(wire).of)
    /\ wire' = Tail(wire)
    /\ UNCHANGED <<sent, token>>

ReadAck ==
    /\ LibraryStep
    /\ client # "disconnected"
    /\ wire # << >>
    /\ Head(wire).kind = "ack"
    /\ token' = [token EXCEPT ![Head(wire).of] = "done"]
    /\ wire' = Tail(wire)
    /\ UNCHANGED <<sent, inbound>>

\* After Disconnect the library completes what it still waits for, with an error,
\* but only once the callback has returned.
CutToken(t) ==
    /\ LibraryStep
    /\ client = "disconnected"
    /\ token[t] \in {"sent", "acked"}
    /\ pc["forwarder"] = "idle"
    /\ token' = [token EXCEPT ![t] = "done"]
    /\ UNCHANGED <<sent, wire, inbound>>

-----------------------------------------------------------------------------
(* The callback and the retry goroutine. *)

\* A step of the queue that sends nothing.
QueueStep == Up /\ UNCHANGED <<bridgeVars, libraryVars, kafkaLog, orderly>>

\* A send that answers an error may have stored its message all the same (SendContract);
\* one after Close has not.
FailedSend(m) ==
    \/ UNCHANGED kafkaLog
    \/ producer = "open" /\ kafkaLog' = Append(kafkaLog, m)

\* The library, which waits for the callback to return, calls it with the oldest message.
TakeMessage(m) ==
    /\ Up
    /\ pc["forwarder"] = "idle"
    /\ inbound # << >>
    /\ m = Head(inbound)
    /\ inbound' = Tail(inbound)
    /\ incoming' = incoming \ {m}
    /\ UNCHANGED <<failedMessages, attemptCount, due, messageMutex, messagesToRetry, tick,
                   lifecycle, deadLetters, abandoned, bridgeVars, sent, wire, token, orderly>>

WriteSucceeds(m) ==
    /\ producer = "open"
    /\ kafkaLog' = Append(kafkaLog, m)
    /\ deliveries' = [deliveries EXCEPT ![m] = @ + 1]
    /\ UNCHANGED <<pc, cur, failures>>

\* The callback goes on to HandleFailedMessage.
WriteFails(m) ==
    /\ FailedSend(m)
    /\ failures' = [failures EXCEPT ![m] = @ + 1]
    /\ cur' = [cur EXCEPT !["forwarder"] = m]
    /\ pc' = [pc EXCEPT !["forwarder"] = "handle"]
    /\ UNCHANGED deliveries

\* Seeded fault: a message that could not be sent is dropped.
HandleMessageDropping(m) ==
    /\ TakeMessage(m)
    /\ \/ WriteSucceeds(m)
       \/ WriteFails(m)
       \/ UNCHANGED <<pc, cur, deliveries, failures, kafkaLog>>

\* handleMQTTMessage.
HandleMessage(m) ==
    /\ TakeMessage(m)
    /\ WriteSucceeds(m) \/ WriteFails(m)

SendToKafkaTopic(t) ==
    /\ QueueStep
    /\ Queue!SendToKafkaTopic(t)
    /\ producer = "open" \/ deadLetters' = deadLetters

\* Publish to the dead letter topic: the call waits for its token.
PublishDeadLetter(t) ==
    /\ Up
    /\ pc[t] = "sendMQTT"
    /\ "mqtt" \in DeadLetterTopics
    /\ client # "disconnected"
    /\ token[t] = "none"
    /\ token' = [token EXCEPT ![t] = "sent"]
    /\ UNCHANGED <<queueVars, bridgeVars, sent, wire, inbound, kafkaLog, orderly>>

\* The call of sendToDeadLetterQueue ends: nothing to publish, the token is complete,
\* or the client was disconnected before.
EndDeadLetter(t) ==
    /\ Up
    /\ \/ "mqtt" \notin DeadLetterTopics
       \/ token[t] = "done"
       \/ token[t] = "none" /\ client = "disconnected"
    /\ Queue!SendToMQTTTopic(t)
    /\ token[t] = "done" \/ deadLetters' = deadLetters
    /\ token' = [token EXCEPT ![t] = "none"]
    /\ UNCHANGED <<bridgeVars, sent, wire, inbound, kafkaLog, orderly>>

HandleFailedMessage(t) ==
    \/ QueueStep /\ Queue!RecordFailure(t)
    \/ SendToKafkaTopic(t)
    \/ PublishDeadLetter(t)
    \/ EndDeadLetter(t)

Callback == (\E m \in Messages : HandleMessage(m)) \/ HandleFailedMessage("forwarder")

RetrySucceeds ==
    /\ Up
    /\ producer = "open"
    /\ Queue!RetrySucceeds
    /\ kafkaLog' = Append(kafkaLog, cur["retrier"])
    /\ UNCHANGED <<bridgeVars, libraryVars, orderly>>

RetryFails ==
    /\ Up
    /\ Queue!RetryFails
    /\ FailedSend(cur["retrier"])
    /\ UNCHANGED <<bridgeVars, libraryVars, orderly>>

RetryStep ==
    /\ QueueStep
    /\ \/ Queue!ReceiveTick \/ Queue!ReceiveStop \/ Queue!Snapshot
       \/ \E m \in Messages : Queue!SkipRetry(m) \/ Queue!BeginRetry(m)
       \/ Queue!RemoveRetried \/ Queue!EndPass

Retrier == RetryStep \/ RetrySucceeds \/ RetryFails \/ HandleFailedMessage("retrier")

-----------------------------------------------------------------------------
(* Stop, and the end of BidirectionalBridge.Stop and main. *)

StopStep(from, to) ==
    /\ stop = from
    /\ stop' = to
    /\ UNCHANGED <<start, libraryVars, kafkaLog>>

CallStop ==
    /\ StopStep("idle", "stopQueue")
    /\ orderly' = (start \in {"returned", "failed"})
    /\ UNCHANGED <<queueVars, client, producer>>

\* Seeded fault: Stop does not wait for the retry goroutine.
StopQueueAtOnce ==
    /\ StopStep("stopQueue", "disconnect")
    /\ lifecycle' = IF lifecycle = "created" THEN "created" ELSE "stopped"
    /\ UNCHANGED <<incoming, failedMessages, attemptCount, due, messageMutex,
                   messagesToRetry, tick, pc, cur, deliveries, failures, deadLetters,
                   abandoned, client, producer, orderly>>

\* DeadLetterQueue.Stop, which returns at once when the queue was not started.
StopQueue ==
    /\ \/ /\ StopStep("stopQueue", "disconnect")
          /\ lifecycle = "created"
          /\ UNCHANGED queueVars
       \/ StopStep("stopQueue", "stopTicker") /\ Queue!CloseStopChan
       \/ StopStep("stopTicker", "waitForQueue") /\ Queue!StopTicker
       \/ StopStep("waitForQueue", "disconnect") /\ Queue!StopReturns
    /\ UNCHANGED <<client, producer, orderly>>

\* Disconnect does nothing for a client that is not connected; it waits at most 250 ms,
\* so not for the callback.
Disconnect ==
    /\ StopStep("disconnect", "closeProducer")
    /\ client' = IF client = "nil" THEN "nil" ELSE "disconnected"
    /\ UNCHANGED <<queueVars, producer, orderly>>

CloseProducer ==
    /\ StopStep("closeProducer", "returned")
    /\ producer' = IF producer = "nil" THEN "nil" ELSE "closed"
    /\ UNCHANGED <<queueVars, client, orderly>>

\* BidirectionalBridge.Stop waits for the goroutine that runs Start; main returns.
Exit ==
    /\ StopStep("returned", "exited")
    /\ start \in {"returned", "failed"}
    /\ UNCHANGED <<queueVars, client, producer, orderly>>

-----------------------------------------------------------------------------
Start == CallStart \/ ConnectClient \/ ConnectProducer \/ StartQueue \/ Subscribe

\* Stop once it is called.
Stop == StopQueue \/ Disconnect \/ CloseProducer \/ Exit

Library ==
    \/ ReadMessage \/ ReadAck
    \/ \E t \in Queue!Threads : BrokerAcks(t) \/ CutToken(t)

Time == QueueStep /\ (Queue!Tick \/ \E m \in Messages : Queue!Elapse(m))

Rest == stop = "exited" /\ UNCHANGED vars

Next ==
    \/ Start \/ CallStop \/ Stop
    \/ BrokerSends \/ Library
    \/ Callback \/ Retrier \/ Time
    \/ Rest

\* Every goroutine that can run does, broker and library do their work, time passes,
\* and every send to Kafka returns.  Nothing makes a message arrive or Stop be called.
Fairness ==
    /\ WF_vars(Start) /\ WF_vars(Stop)
    /\ WF_vars(ReadMessage \/ ReadAck)
    /\ \A t \in Queue!Threads : WF_vars(BrokerAcks(t)) /\ WF_vars(CutToken(t))
    /\ WF_vars(Callback) /\ WF_vars(Retrier)
    /\ WF_vars(QueueStep /\ Queue!Tick)
    /\ \A m \in Messages : WF_vars(QueueStep /\ Queue!Elapse(m))

SafetySpec == Init /\ [][Next]_vars
Spec == SafetySpec /\ Fairness
=============================================================================
