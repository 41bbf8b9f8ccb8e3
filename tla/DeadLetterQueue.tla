--------------------------- MODULE DeadLetterQueue ---------------------------
(***************************************************************************)
(* The dead letter queue of internal/bridge/deadletter.go: the records of  *)
(* failed messages, the mutex that guards them, the handler that records a *)
(* failure, and the goroutine that retries the recorded messages on every  *)
(* tick until Stop.                                                        *)
(*                                                                         *)
(* Two threads share the queue.  The "forwarder" is the goroutine that     *)
(* forwards a message for the first time: the MQTT callback                *)
(* (handleMQTTMessage) or the Kafka consume loop (handleKafkaMessage).     *)
(* The "retrier" is the goroutine processRetries.                          *)
(*                                                                         *)
(* A queue serves one direction, so the direction is left out of a key.    *)
(* A send is abstracted to its answer: nil or an error.  A send that never *)
(* returns is not modelled (see the README).                               *)
(***************************************************************************)
EXTENDS Naturals, FiniteSets

CONSTANTS
    Messages,          \* the messages the forwarder receives
    NoMessage,         \* no record under a key, no message in hand
    OriginalTopic,     \* the topic each message came from
    Discriminator,     \* Timestamp.Unix() of an MQTT message, Key of a Kafka one
    MaxRetries,        \* dead_letter.max_retries
    DeadLetterTopics   \* the dead letter topics that are configured and usable

ASSUME MessagesAssumption == NoMessage \notin Messages
ASSUME KeyPartsAssumption ==
    /\ OriginalTopic = [m \in Messages |-> OriginalTopic[m]]
    /\ Discriminator = [m \in Messages |-> Discriminator[m]]
ASSUME MaxRetriesAssumption == MaxRetries \in Nat
ASSUME DeadLetterTopicsAssumption == DeadLetterTopics \subseteq {"kafka", "mqtt"}

VARIABLES
    incoming,         \* messages not yet handed to the forwarder
    failedMessages,   \* key -> the message whose record is stored under it
    attemptCount,     \* AttemptCount of the record of each message
    due,              \* RetryInterval has passed since LastAttempt of the record
    messageMutex,     \* the thread that holds messageMutex between two steps, or "free"
    messagesToRetry,  \* what is left of the snapshot of the current pass
    tick,             \* the buffered element of retryTicker.C is present
    lifecycle,        \* how far Start and Stop have come
    pc,               \* where each thread is
    cur,              \* the message each thread has in hand
    (* history, read by the properties only *)
    deliveries,       \* sends of each message to its target that returned nil
    failures,         \* sends of each message to its target that returned an error
    deadLetters,      \* the dead letter topics that accepted each message
    abandoned         \* messages whose record was given up (lines 119-123)

queue   == <<failedMessages, attemptCount, due, messageMutex>>
history == <<deliveries, failures, deadLetters, abandoned>>
vars == <<incoming, queue, messagesToRetry, tick, lifecycle, pc, cur, history>>

Threads == {"forwarder", "retrier"}

-----------------------------------------------------------------------------
(* The key of a message: its topic and the second, or Kafka key, it carries. *)

\* Seeded fault: the key forgets what tells two messages of a topic apart.
TopicOnlyKey(m) == <<OriginalTopic[m]>>

createMessageKey(m) == <<OriginalTopic[m], Discriminator[m]>>

Keys == {createMessageKey(m) : m \in Messages}

\* The messages that no other message has both the topic and the second, or Kafka key, of.
Owners ==
    {m \in Messages :
        \A n \in Messages \ {m} :
            OriginalTopic[n] # OriginalTopic[m] \/ Discriminator[n] # Discriminator[m]}

RecordFor(m) == failedMessages[createMessageKey(m)]
Tracked(m)   == RecordFor(m) = m
Recorded     == {m \in Messages : Tracked(m)}

\* Seeded fault: one attempt too many before the record is given up.
LimitPassed(n) == n > MaxRetries

LimitReached(n) == n >= MaxRetries

\* The failed attempts after which a message is given up: the first one counts.
AttemptLimit == IF MaxRetries = 0 THEN 1 ELSE MaxRetries

\* Seeded fault: the first failure is not counted.
UncountedFirstFailure(m) ==
    IF RecordFor(m) = NoMessage THEN 0 ELSE attemptCount[RecordFor(m)] + 1

AttemptsAfterFailure(m) ==
    IF RecordFor(m) = NoMessage THEN 1 ELSE attemptCount[RecordFor(m)] + 1

\* Where a thread continues when HandleFailedMessage returns.
Resume(t) == IF t = "forwarder" THEN "idle" ELSE "retry"

MutexFree == messageMutex = "free"

Goto(t, label) == pc' = [pc EXCEPT ![t] = label]

-----------------------------------------------------------------------------
Init ==
    /\ incoming = Messages
    /\ failedMessages = [k \in Keys |-> NoMessage]
    /\ attemptCount = [m \in Messages |-> 0]
    /\ due = [m \in Messages |-> FALSE]
    /\ messageMutex = "free"
    /\ messagesToRetry = {}
    /\ tick = FALSE
    /\ lifecycle = "created"
    /\ pc = [t \in Threads |-> IF t = "forwarder" THEN "idle" ELSE "notStarted"]
    /\ cur = [t \in Threads |-> NoMessage]
    /\ deliveries = [m \in Messages |-> 0]
    /\ failures = [m \in Messages |-> 0]
    /\ deadLetters = [m \in Messages |-> {}]
    /\ abandoned = {}

\* Start: the ticker and the retry goroutine.  The bridges forward nothing before it.
Start ==
    /\ lifecycle = "created"
    /\ lifecycle' = "running"
    /\ Goto("retrier", "select")
    /\ UNCHANGED <<incoming, queue, messagesToRetry, tick, cur, history>>

-----------------------------------------------------------------------------
(* The forwarder: it may fail after Stop too, for Stop does not stop it. *)

Forward(m) ==
    /\ lifecycle # "created"
    /\ pc["forwarder"] = "idle"
    /\ m \in incoming
    /\ incoming' = incoming \ {m}
    /\ UNCHANGED <<queue, messagesToRetry, tick, lifecycle, deadLetters, abandoned>>

ForwardSucceeds(m) ==
    /\ Forward(m)
    /\ deliveries' = [deliveries EXCEPT ![m] = @ + 1]
    /\ UNCHANGED <<pc, cur, failures>>

ForwardFails(m) ==
    /\ Forward(m)
    /\ failures' = [failures EXCEPT ![m] = @ + 1]
    /\ cur' = [cur EXCEPT !["forwarder"] = m]
    /\ Goto("forwarder", "handle")
    /\ UNCHANGED deliveries

-----------------------------------------------------------------------------
(* HandleFailedMessage, called by either thread with the message in hand. *)

\* Create or update the record; keep the mutex when the record is to be given up.
RecordFailure(t) ==
    LET m == cur[t]
        record == IF RecordFor(m) = NoMessage THEN m ELSE RecordFor(m)
        count == AttemptsAfterFailure(m)
    IN /\ pc[t] = "handle"
       /\ MutexFree
       /\ failedMessages' = [failedMessages EXCEPT ![createMessageKey(m)] = record]
       /\ attemptCount' = [attemptCount EXCEPT ![record] = count]
       /\ due' = [due EXCEPT ![record] = FALSE]
       /\ IF LimitReached(count)
            THEN messageMutex' = t /\ Goto(t, "sendKafka")
            ELSE UNCHANGED messageMutex /\ Goto(t, Resume(t))
       /\ UNCHANGED <<incoming, messagesToRetry, tick, lifecycle, cur, history>>

\* A send to a dead letter topic: skipped when the topic is not usable, and an
\* error is only logged.
SendDeadLetter(topic, record) ==
    \/ /\ topic \in DeadLetterTopics
       /\ deadLetters' = [deadLetters EXCEPT ![record] = @ \cup {topic}]
    \/ UNCHANGED deadLetters

SendToKafkaTopic(t) ==
    /\ pc[t] = "sendKafka"
    /\ SendDeadLetter("kafka", RecordFor(cur[t]))
    /\ Goto(t, "sendMQTT")
    /\ UNCHANGED <<incoming, queue, messagesToRetry, tick, lifecycle, cur,
                   deliveries, failures, abandoned>>

\* What is left of the map once the key of m is deleted.
Without(m) == [failedMessages EXCEPT ![createMessageKey(m)] = NoMessage]

\* Seeded fault: the record stays in the map after it was given up.
SendToMQTTTopicKeepingRecord(t) ==
    /\ pc[t] = "sendMQTT"
    /\ SendDeadLetter("mqtt", RecordFor(cur[t]))
    /\ abandoned' = abandoned \cup {RecordFor(cur[t])}
    /\ messageMutex' = "free"
    /\ Goto(t, Resume(t))
    /\ UNCHANGED <<incoming, failedMessages, attemptCount, due, messagesToRetry, tick,
                   lifecycle, cur, deliveries, failures>>

\* Seeded fault: HandleFailedMessage returns without unlocking.
SendToMQTTTopicKeepingMutex(t) ==
    /\ pc[t] = "sendMQTT"
    /\ SendDeadLetter("mqtt", RecordFor(cur[t]))
    /\ abandoned' = abandoned \cup {RecordFor(cur[t])}
    /\ failedMessages' = Without(cur[t])
    /\ Goto(t, Resume(t))
    /\ UNCHANGED <<incoming, attemptCount, due, messageMutex, messagesToRetry, tick,
                   lifecycle, cur, deliveries, failures>>

\* The second send, then the record is deleted whatever the two sends
\* answered, and the mutex is released by the deferred Unlock.
SendToMQTTTopic(t) ==
    /\ pc[t] = "sendMQTT"
    /\ SendDeadLetter("mqtt", RecordFor(cur[t]))
    /\ abandoned' = abandoned \cup {RecordFor(cur[t])}
    /\ failedMessages' = Without(cur[t])
    /\ messageMutex' = "free"
    /\ Goto(t, Resume(t))
    /\ UNCHANGED <<incoming, attemptCount, due, messagesToRetry, tick, lifecycle, cur,
                   deliveries, failures>>

-----------------------------------------------------------------------------
(* processRetries and the pass retryFailedMessages makes on a tick. *)

\* The ticker drops a tick that finds its channel full.
Tick ==
    /\ lifecycle \in {"running", "closing"}
    /\ ~tick
    /\ tick' = TRUE
    /\ UNCHANGED <<incoming, queue, messagesToRetry, lifecycle, pc, cur, history>>

\* RetryInterval passes for the record of m.
Elapse(m) ==
    /\ m \in Recorded \cup messagesToRetry
    /\ ~due[m]
    /\ due' = [due EXCEPT ![m] = TRUE]
    /\ UNCHANGED <<incoming, failedMessages, attemptCount, messageMutex, messagesToRetry,
                   tick, lifecycle, pc, cur, history>>

ReceiveTick ==
    /\ pc["retrier"] = "select"
    /\ tick
    /\ tick' = FALSE
    /\ Goto("retrier", "snapshot")
    /\ UNCHANGED <<incoming, queue, messagesToRetry, lifecycle, cur, history>>

\* Seeded fault: the select waits for the ticker only.
NeverReceiveStop == FALSE /\ UNCHANGED vars

ReceiveStop ==
    /\ pc["retrier"] = "select"
    /\ lifecycle \in {"closing", "waiting"}
    /\ Goto("retrier", "exited")
    /\ UNCHANGED <<incoming, queue, messagesToRetry, tick, lifecycle, cur, history>>

\* The records are copied under the mutex and worked on after it is released.
Snapshot ==
    /\ pc["retrier"] = "snapshot"
    /\ MutexFree
    /\ messagesToRetry' = Recorded
    /\ Goto("retrier", "retry")
    /\ UNCHANGED <<incoming, queue, tick, lifecycle, cur, history>>

SkipRetry(m) ==
    /\ pc["retrier"] = "retry"
    /\ m \in messagesToRetry
    /\ ~due[m]
    /\ messagesToRetry' = messagesToRetry \ {m}
    /\ UNCHANGED <<incoming, queue, tick, lifecycle, pc, cur, history>>

BeginRetry(m) ==
    /\ pc["retrier"] = "retry"
    /\ m \in messagesToRetry
    /\ due[m]
    /\ messagesToRetry' = messagesToRetry \ {m}
    /\ cur' = [cur EXCEPT !["retrier"] = m]
    /\ Goto("retrier", "resend")
    /\ UNCHANGED <<incoming, queue, tick, lifecycle, history>>

RetrySucceeds ==
    /\ pc["retrier"] = "resend"
    /\ deliveries' = [deliveries EXCEPT ![cur["retrier"]] = @ + 1]
    /\ Goto("retrier", "remove")
    /\ UNCHANGED <<incoming, queue, messagesToRetry, tick, lifecycle, cur,
                   failures, deadLetters, abandoned>>

RetryFails ==
    /\ pc["retrier"] = "resend"
    /\ failures' = [failures EXCEPT ![cur["retrier"]] = @ + 1]
    /\ Goto("retrier", "handle")
    /\ UNCHANGED <<incoming, queue, messagesToRetry, tick, lifecycle, cur,
                   deliveries, deadLetters, abandoned>>

\* Seeded fault: a successful retry leaves its record in the map.
KeepRetried ==
    /\ pc["retrier"] = "remove"
    /\ MutexFree
    /\ Goto("retrier", "retry")
    /\ UNCHANGED <<incoming, queue, messagesToRetry, tick, lifecycle, cur, history>>

\* The record under the key is deleted, whichever message it belongs to by now.
RemoveRetried ==
    /\ pc["retrier"] = "remove"
    /\ MutexFree
    /\ failedMessages' = Without(cur["retrier"])
    /\ Goto("retrier", "retry")
    /\ UNCHANGED <<incoming, attemptCount, due, messageMutex, messagesToRetry, tick,
                   lifecycle, cur, history>>

EndPass ==
    /\ pc["retrier"] = "retry"
    /\ messagesToRetry = {}
    /\ Goto("retrier", "select")
    /\ UNCHANGED <<incoming, queue, messagesToRetry, tick, lifecycle, cur, history>>

-----------------------------------------------------------------------------
(* Stop: close(stopChan), retryTicker.Stop(), wg.Wait(). *)

CloseStopChan ==
    /\ lifecycle = "running"
    /\ lifecycle' = "closing"
    /\ UNCHANGED <<incoming, queue, messagesToRetry, tick, pc, cur, history>>

StopTicker ==
    /\ lifecycle = "closing"
    /\ lifecycle' = "waiting"
    /\ UNCHANGED <<incoming, queue, messagesToRetry, tick, pc, cur, history>>

StopReturns ==
    /\ lifecycle = "waiting"
    /\ pc["retrier"] = "exited"
    /\ lifecycle' = "stopped"
    /\ UNCHANGED <<incoming, queue, messagesToRetry, tick, pc, cur, history>>

-----------------------------------------------------------------------------
HandleFailedMessage(t) == RecordFailure(t) \/ SendToKafkaTopic(t) \/ SendToMQTTTopic(t)

Forwarder ==
    \/ \E m \in Messages : ForwardSucceeds(m) \/ ForwardFails(m)
    \/ HandleFailedMessage("forwarder")

Retrier ==
    \/ ReceiveTick \/ ReceiveStop \/ Snapshot
    \/ \E m \in Messages : SkipRetry(m) \/ BeginRetry(m)
    \/ RetrySucceeds \/ RetryFails
    \/ HandleFailedMessage("retrier")
    \/ RemoveRetried \/ EndPass

Stop == CloseStopChan \/ StopTicker \/ StopReturns

\* Every message was forwarded and the queue is stopped: the process may rest here.
Rest ==
    /\ lifecycle = "stopped"
    /\ incoming = {}
    /\ pc["forwarder"] = "idle"
    /\ UNCHANGED vars

Next ==
    \/ Start
    \/ Forwarder
    \/ Retrier
    \/ Stop
    \/ Tick
    \/ \E m \in Messages : Elapse(m)
    \/ Rest

\* The Go scheduler runs every goroutine that can run, Stop once called runs to
\* its end, time passes and the ticker ticks.  Nothing makes a message arrive or
\* Stop be called.
Fairness ==
    /\ WF_vars(Retrier)
    /\ WF_vars(HandleFailedMessage("forwarder"))
    /\ WF_vars(StopTicker)
    /\ WF_vars(StopReturns)
    /\ WF_vars(Tick)
    /\ \A m \in Messages : WF_vars(Elapse(m))

SafetySpec == Init /\ [][Next]_vars
Spec == SafetySpec /\ Fairness
=============================================================================
