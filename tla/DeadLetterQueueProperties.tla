---------------------- MODULE DeadLetterQueueProperties ----------------------
(***************************************************************************)
(* The properties of the dead letter queue.  Those under "Any message"     *)
(* hold whatever the keys of the messages are; those under "Messages with  *)
(* a key of their own" hold of each message that no other one shares its   *)
(* key with, whatever the keys of the others are; those under "Claims" are *)
(* what the repository says of the code and the code does not do.          *)
(***************************************************************************)
EXTENDS DeadLetterQueue

Positions ==
    {"notStarted", "idle", "select", "snapshot", "retry", "resend", "remove",
     "handle", "sendKafka", "sendMQTT", "exited"}

\* The types, with the bound on attempts that the limit check of line 119 keeps:
\* no record ever counts more attempts than the limit.
TypeOK ==
    /\ incoming \subseteq Messages
    /\ failedMessages \in [Keys -> Messages \cup {NoMessage}]
    /\ attemptCount \in [Messages -> 0..AttemptLimit]
    /\ due \in [Messages -> BOOLEAN]
    /\ messageMutex \in Threads \cup {"free"}
    /\ messagesToRetry \subseteq Messages
    /\ tick \in BOOLEAN
    /\ lifecycle \in {"created", "running", "closing", "waiting", "stopped"}
    /\ pc \in [Threads -> Positions]
    /\ cur \in [Threads -> Messages \cup {NoMessage}]
    /\ deliveries \in [Messages -> Nat]
    /\ failures \in [Messages -> Nat]
    /\ deadLetters \in [Messages -> SUBSET {"kafka", "mqtt"}]
    /\ abandoned \subseteq Messages

-----------------------------------------------------------------------------
(* Any message *)

\* A message reaches its target at most once: neither a stale snapshot, nor a
\* record shared with another message, nor a delete that hits the wrong record
\* makes retryMessage send again what was already sent.
DeliveredAtMostOnce == \A m \in Messages : deliveries[m] <= 1

\* Outside HandleFailedMessage every record has attempts left: no record that
\* used up max_retries waits in the map to be retried once more.
AttemptsLeft ==
    MutexFree => \A m \in Recorded : attemptCount[m] > 0 /\ ~LimitReached(attemptCount[m])

-----------------------------------------------------------------------------
(* Messages with a key of their own *)

\* The thread has m in hand and has not yet put it anywhere.
InHand(t, m) == cur[t] = m /\ pc[t] = "handle"

Accounted(m) ==
    \/ deliveries[m] > 0
    \/ Tracked(m)
    \/ m \in abandoned
    \/ \E t \in Threads : InHand(t, m)

\* A message handed to the bridge is delivered, on its way to the map, in the
\* map, or given up to the dead letter topics; it is never just forgotten, even
\* while other messages overwrite and delete each other's records.
NoMessageLost == \A m \in Owners \ incoming : Accounted(m)

\* No message is both delivered and in a dead letter topic, or given up and retried: a
\* consumer of the dead letter topics that reinjects their messages duplicates none.
DeliveredOrAbandoned ==
    \A m \in Owners :
        /\ m \in abandoned \/ deadLetters[m] # {} => deliveries[m] = 0
        /\ m \in abandoned => ~Tracked(m)

\* Every message comes to one end at most: one delivery, or the dead letter topics.
AtMostOneOutcome == DeliveredAtMostOnce /\ DeliveredOrAbandoned

\* AttemptCount is the number of processing attempts of its own message, but for
\* the failure the retrier is about to record.
AttemptCountIsOwn ==
    \A m \in Recorded \cap Owners :
        attemptCount[m] = failures[m] - (IF InHand("retrier", m) THEN 1 ELSE 0)

\* No message is in a dead letter topic before it has failed as often as it may, and none
\* that is there is tried again.
DeadLettersAreSpent == \A m \in Owners : deadLetters[m] # {} => failures[m] = AttemptLimit

\* The count by which a message is given up can be trusted: it is that of its own failures,
\* though passes and failures overlap, whoever takes the mutex finds it short of the limit,
\* and no dead letter comes before the limit.
HonestRecords == AttemptsLeft /\ AttemptCountIsOwn /\ DeadLettersAreSpent

\* The queue keeps the contract: tried until delivered or failed AttemptLimit
\* times, then abandoned, and never touched again.
Outcome(m) ==
    CASE deliveries[m] > 0 -> "delivered"
      [] deliveries[m] = 0 /\ m \in abandoned -> "abandoned"
      [] deliveries[m] = 0 /\ m \notin abandoned /\ failures[m] > 0 -> "retrying"
      [] OTHER -> "new"

Contract ==
    INSTANCE RetryContract
        WITH Messages <- Owners,
             Limit    <- AttemptLimit,
             outcome  <- [m \in Owners |-> Outcome(m)],
             failures <- [m \in Owners |-> failures[m]]

\* The refinement: every step of the queue is a step of the contract or none.
KeepsContract == Contract!Spec

\* While the queue runs, a message in the map is sooner or later delivered or
\* given up: the ticks, the passes and the mutex leave no message waiting forever.
EveryFailureResolved ==
    \A m \in Owners :
        Tracked(m) ~> (deliveries[m] > 0 \/ m \in abandoned \/ lifecycle # "running")

\* Stop returns: the wait for the retry goroutine ends, even in the middle of a
\* pass and with the mutex contended.
StopTerminates == (lifecycle = "closing") ~> (lifecycle = "stopped")

-----------------------------------------------------------------------------
(* Claims *)

\* "createMessageKey creates a unique key for tracking failed messages"
\* (deadletter.go:260): then a failed message is never forgotten.
FailedMessageIsTracked == \A m \in Messages \ incoming : Accounted(m)
=============================================================================
