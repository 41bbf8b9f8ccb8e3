--------------------- MODULE DeadLetterQueueContractProofs ---------------------
(***************************************************************************)
(* What the dead letter queue guarantees to every message that has a key   *)
(* of its own, whatever keys the others share: it is not forgotten, it is  *)
(* not both delivered and given up, AttemptCount is its own, and the queue *)
(* implements RetryContract for it.                                        *)
(***************************************************************************)
EXTENDS DeadLetterQueueProofs

Working == {"resend", "remove", "handle"}

\* Only the record of the message in hand is found under its key.
OwnRecordInv == \A m \in Owners : RecordFor(m) \in {m, NoMessage}

\* The messages of the snapshot, and the one the retrier works on, are in the map.
SnapshotInv ==
    /\ messagesToRetry \cap Owners \subseteq Recorded
    /\ cur["retrier"] \in Owners =>
           /\ pc["retrier"] \in Working => Tracked(cur["retrier"])
           /\ pc["retrier"] \in Held => cur["retrier"] \notin messagesToRetry

\* A message the forwarder gives up was never seen by the retrier.
FirstFailureInv ==
    pc["forwarder"] \in Held /\ cur["forwarder"] \in Owners =>
        /\ cur["forwarder"] \notin incoming \cup messagesToRetry
        /\ cur["forwarder"] # cur["retrier"]

\* What is in the map, in hand or not yet received has not been delivered, except
\* for the message the retrier is about to remove.
PendingInv ==
    /\ \A m \in Owners : m \in incoming => failures[m] = 0 /\ m \notin abandoned
    /\ pc["retrier"] = "remove" => deliveries[cur["retrier"]] > 0
    /\ \A t \in Threads : pc[t] \in Held /\ cur[t] \in Owners =>
           /\ Tracked(cur[t])
           /\ attemptCount[cur[t]] = AttemptLimit
           /\ cur[t] \notin abandoned
    /\ \A m \in abandoned \cap Owners : ~Tracked(m) /\ ~InHand("forwarder", m)

\* The failures of a message are those its record counts, and the one a thread is
\* about to record.
CountInv ==
    /\ AttemptCountIsOwn
    /\ \A m \in Owners : InHand("forwarder", m) => failures[m] = 1

\* A message that was given up is neither delivered nor tracked.
AbandonedInv == \A m \in abandoned \cap Owners : deliveries[m] = 0 /\ ~Tracked(m)

UInv ==
    /\ OwnRecordInv
    /\ SnapshotInv
    /\ FirstFailureInv
    /\ PendingInv
    /\ CountInv
    /\ NoMessageLost
    /\ AbandonedInv

-----------------------------------------------------------------------------

\* createMessageKey tells a message apart from every other one as soon as its topic and
\* its second, or Kafka key, do.
LEMMA OwnersKey ==
    /\ Owners \subseteq Messages
    /\ \A m \in Owners, n \in Messages : createMessageKey(n) = createMessageKey(m) => n = m
  BY DEF Owners, createMessageKey

\* What is written under the key of a message leaves the record of every other message
\* with a key of its own alone.
LEMMA OthersKeepRecord ==
    ASSUME IInv, NEW m \in Messages, NEW r,
           failedMessages' = [failedMessages EXCEPT ![createMessageKey(m)] = r]
    PROVE  /\ \A n \in Owners \ {m} : RecordFor(n)' = RecordFor(n)
           /\ RecordFor(m)' = r
  BY KeyInKeys, OwnersKey DEF IInv, TypeOK, RecordFor

\* The record found under the key of a message is its own, or that of a message that
\* has no key of its own either.
LEMMA FoundRecord ==
    ASSUME IInv, NEW m \in Messages
    PROVE  RecordFor(m) \in Owners => m = RecordFor(m)
  BY KeyInKeys, OwnersKey, MessagesAssumption DEF IInv, TypeOK, OwnKeyInv, RecordFor

LEMMA InitUInv == ASSUME Init PROVE UInv
  BY KeyInKeys, OwnersKey, MessagesAssumption DEF Init, UInv, OwnRecordInv, SnapshotInv,
         FirstFailureInv, PendingInv, CountInv, NoMessageLost, Accounted,
         AbandonedInv, AttemptCountIsOwn, InHand, Working, Held, RecordFor,
         Recorded, Threads

LEMMA NextUInv ==
    ASSUME IInv, UInv, IInv', [Next]_vars
    PROVE  UInv'
<1> USE MessagesAssumption, KeyInKeys, LimitFacts, OwnersKey
<1>0. OwnRecordInv'
  BY DEF IInv, TypeOK, OwnKeyInv, OwnRecordInv, RecordFor
<1>1. CASE Start
  <2>1. SnapshotInv'
    BY <1>1, <1>0 DEF UInv, Start, Goto, queue, SnapshotInv, Working, Held, RecordFor,
           Tracked, Recorded
  <2>2. FirstFailureInv'
    BY <1>1, <1>0 DEF UInv, Start, Goto, FirstFailureInv
  <2>3. PendingInv'
    BY <1>1, <1>0
       DEF UInv, Start, Goto, queue, history, PendingInv, InHand, Held, RecordFor, Tracked
  <2>4. CountInv'
    BY <1>1, <1>0 DEF UInv, IInv, Start, Goto, queue, history, CountInv,
           AttemptCountIsOwn, PositionsInv, InHand, RecordFor, Tracked, Recorded
  <2>5. NoMessageLost'
    BY <1>1, <1>0 DEF UInv, Start, Goto, queue, history, SnapshotInv, NoMessageLost,
           Accounted, InHand, Working, RecordFor, Tracked
  <2>6. AbandonedInv'
    BY <1>1, <1>0
       DEF UInv, Start, queue, history, AbandonedInv, RecordFor, Tracked
  <2> QED
    BY <1>0, <2>1, <2>2, <2>3, <2>4, <2>5, <2>6 DEF UInv
<1>2. ASSUME NEW m \in Messages, ForwardSucceeds(m) PROVE UInv'
  <2>1. SnapshotInv'
    BY <1>2, <1>0 DEF UInv, ForwardSucceeds, Forward, queue, SnapshotInv, RecordFor,
           Tracked, Recorded
  <2>2. FirstFailureInv'
    BY <1>2, <1>0 DEF ForwardSucceeds, Forward, FirstFailureInv, Held
  <2>3. PendingInv'
    BY <1>2, <1>0 DEF UInv, IInv, ForwardSucceeds, Forward, queue, PendingInv,
           DeliveredInv, InHand, RecordFor, Tracked
  <2>4. CountInv'
    BY <1>2, <1>0 DEF UInv, ForwardSucceeds, Forward, queue, CountInv, AttemptCountIsOwn,
           InHand, RecordFor, Tracked, Recorded
  <2>5. NoMessageLost'
    BY <1>2, <1>0 DEF UInv, IInv, ForwardSucceeds, Forward, queue, NoMessageLost,
           Accounted, TypeOK, InHand, RecordFor, Tracked
  <2>6. AbandonedInv'
    BY <1>2, <1>0 DEF UInv, ForwardSucceeds, Forward, queue, PendingInv,
           AbandonedInv, RecordFor, Tracked
  <2> QED
    BY <1>0, <2>1, <2>2, <2>3, <2>4, <2>5, <2>6 DEF UInv
<1>3. ASSUME NEW m \in Messages, ForwardFails(m) PROVE UInv'
  <2>1. SnapshotInv'
    BY <1>3, <1>0 DEF UInv, ForwardFails, Forward, Goto, queue, SnapshotInv, RecordFor,
           Tracked, Recorded
  <2>2. FirstFailureInv'
    BY <1>3, <1>0 DEF ForwardFails, Forward, Goto, FirstFailureInv, Held
  <2>3. PendingInv'
    BY <1>3, <1>0 DEF UInv, IInv, ForwardFails, Forward, Goto, queue, PendingInv, TypeOK,
           InHand, Held, RecordFor, Tracked
  <2>4. CountInv'
    BY <1>3, <1>0 DEF UInv, IInv, ForwardFails, Forward, Goto, queue, PendingInv,
           CountInv, AttemptCountIsOwn, TypeOK, FreshInv, Fresh, InHand, RecordFor,
           Tracked, Recorded
  <2>5. NoMessageLost'
    BY <1>3, <1>0 DEF UInv, IInv, ForwardFails, Forward, Goto, queue, NoMessageLost,
           Accounted, TypeOK, InHand, RecordFor, Tracked
  <2>6. AbandonedInv'
    BY <1>3, <1>0
       DEF UInv, ForwardFails, Forward, queue, AbandonedInv, RecordFor, Tracked
  <2> QED
    BY <1>0, <2>1, <2>2, <2>3, <2>4, <2>5, <2>6 DEF UInv
<1>4. ASSUME NEW t \in Threads, RecordFailure(t) PROVE UInv'
  <2>1. SnapshotInv'
    BY <1>4, <1>0 DEF UInv, IInv, RecordFailure, Goto, SnapshotInv, TypeOK, PositionsInv,
           HandInv, Working, RecordFor, Tracked, Recorded, Threads
  <2>2. FirstFailureInv'
    BY <1>4, <1>0 DEF IInv, RecordFailure, MutexFree, FirstFailureInv, PositionsInv,
           MutexInv, FreshInv, Fresh, Threads
  <2>3. PendingInv'
    BY <1>4, <1>0 DEF UInv, IInv, RecordFailure, MutexFree, Resume, Goto, history,
           OwnRecordInv, SnapshotInv, PendingInv, TypeOK, PositionsInv, MutexInv,
           AttemptsInv, LimitReached, AttemptLimit, InHand, Working, RecordFor, Tracked,
           Threads
  <2> cur[t] \in Messages
    BY <1>4 DEF IInv, RecordFailure, PositionsInv, Threads
  <2>4. CountInv'
    <3>1. CASE cur[t] \in Owners
      BY <1>4, <1>0, <3>1 DEF UInv, IInv, RecordFailure, AttemptsAfterFailure, Resume,
             Goto, history, OwnRecordInv, SnapshotInv, CountInv, AttemptCountIsOwn,
             TypeOK, FreshInv, Fresh, InHand, Working, RecordFor, Tracked, Recorded,
             Threads
    <3>2. CASE cur[t] \notin Owners
      <4>1. \A n \in Owners : RecordFor(n)' = RecordFor(n)
        BY <1>4, <3>2, OthersKeepRecord DEF RecordFailure
      <4>2. RecordFor(cur[t]) \notin Owners
        BY <3>2, FoundRecord
      <4>3. \A n \in Owners : attemptCount'[n] = attemptCount[n]
        BY <1>4, <3>2, <4>2 DEF IInv, TypeOK, RecordFailure
      <4>4. \A n \in Owners, u \in Threads : InHand(u, n)' <=> InHand(u, n)
        BY <1>4, <3>2 DEF IInv, TypeOK, RecordFailure, Goto, InHand
      <4> QED
        BY <1>4, <4>1, <4>3, <4>4 DEF UInv, RecordFailure, history, CountInv,
               AttemptCountIsOwn, Tracked, Recorded, Threads
    <3> QED
      BY <3>1, <3>2
  <2>5. NoMessageLost'
    BY <1>4, <1>0 DEF UInv, IInv, RecordFailure, Goto, history, OwnRecordInv,
           NoMessageLost, Accounted, TypeOK, InHand, RecordFor, Tracked
  <2>6. AbandonedInv'
    BY <1>4, <1>0 DEF UInv, RecordFailure, history, SnapshotInv, PendingInv,
           AbandonedInv, InHand, Working, RecordFor, Tracked, Threads
  <2> QED
    BY <1>0, <2>1, <2>2, <2>3, <2>4, <2>5, <2>6 DEF UInv
<1>5. ASSUME NEW t \in Threads, SendToKafkaTopic(t) PROVE UInv'
  <2>1. SnapshotInv'
    BY <1>5, <1>0 DEF UInv, SendToKafkaTopic, Goto, queue, SnapshotInv, Working, Held,
           RecordFor, Tracked, Recorded
  <2>2. FirstFailureInv'
    BY <1>5, <1>0 DEF UInv, SendToKafkaTopic, Goto, FirstFailureInv, Held
  <2>3. PendingInv'
    BY <1>5, <1>0 DEF UInv, SendToKafkaTopic, Goto, queue, PendingInv, InHand, Held,
           RecordFor, Tracked
  <2>4. CountInv'
    BY <1>5, <1>0 DEF UInv, SendToKafkaTopic, Goto, queue, CountInv, AttemptCountIsOwn,
           InHand, RecordFor, Tracked, Recorded
  <2>5. NoMessageLost'
    BY <1>5, <1>0
       DEF UInv, SendToKafkaTopic, Goto, queue, NoMessageLost, Accounted, InHand,
           RecordFor, Tracked
  <2>6. AbandonedInv'
    BY <1>5, <1>0
       DEF UInv, SendToKafkaTopic, queue, AbandonedInv, RecordFor, Tracked
  <2> QED
    BY <1>0, <2>1, <2>2, <2>3, <2>4, <2>5, <2>6 DEF UInv
<1>6. ASSUME NEW t \in Threads, SendToMQTTTopic(t) PROVE UInv'
  <2> cur[t] \in Messages
    BY <1>6 DEF IInv, SendToMQTTTopic, PositionsInv, Held, Threads
  <2>a. /\ \A n \in Owners \ {cur[t]} : RecordFor(n)' = RecordFor(n)
        /\ RecordFor(cur[t])' = NoMessage
    BY <1>6, OthersKeepRecord DEF SendToMQTTTopic, Without
  <2>b. RecordFor(cur[t]) \in Owners => RecordFor(cur[t]) = cur[t]
    BY FoundRecord
  <2>1. SnapshotInv'
    BY <1>6, <1>0, <2>a DEF UInv, SendToMQTTTopic, Resume, Goto, SnapshotInv,
           FirstFailureInv, PendingInv, Working, Held, Tracked, Recorded, Threads
  <2>2. FirstFailureInv'
    BY <1>6, <1>0 DEF IInv, SendToMQTTTopic, FirstFailureInv, MutexInv, Threads
  <2>3. PendingInv'
    BY <1>6, <1>0, <2>a, <2>b DEF UInv, IInv, SendToMQTTTopic, Resume, Goto, PendingInv,
           TypeOK, MutexInv, FreshInv, Fresh, InHand, Held, Tracked
  <2>4. CountInv'
    BY <1>6, <1>0 DEF UInv, SendToMQTTTopic, Without, Resume, Goto, CountInv,
           AttemptCountIsOwn, InHand, RecordFor, Tracked, Recorded
  <2>5. NoMessageLost'
    BY <1>6, <1>0
       DEF UInv, SendToMQTTTopic, Without, Goto, NoMessageLost, Accounted, InHand,
           RecordFor, Tracked
  <2>6. AbandonedInv'
    BY <1>6, <1>0, <2>a, <2>b DEF UInv, IInv, SendToMQTTTopic, FirstFailureInv,
           PendingInv, AbandonedInv, DeliveredInv, Held, Tracked, Threads
  <2> QED
    BY <1>0, <2>1, <2>2, <2>3, <2>4, <2>5, <2>6 DEF UInv
<1>7. CASE ReceiveTick
  <2>1. SnapshotInv'
    BY <1>7, <1>0 DEF UInv, ReceiveTick, Goto, queue, SnapshotInv, Working, Held,
           RecordFor, Tracked, Recorded
  <2>2. FirstFailureInv'
    BY <1>7, <1>0 DEF UInv, ReceiveTick, Goto, FirstFailureInv
  <2>3. PendingInv'
    BY <1>7, <1>0 DEF UInv, ReceiveTick, Goto, queue, history, PendingInv, InHand, Held,
           RecordFor, Tracked
  <2>4. CountInv'
    BY <1>7, <1>0 DEF UInv, ReceiveTick, Goto, queue, history, CountInv,
           AttemptCountIsOwn, InHand, RecordFor, Tracked, Recorded
  <2>5. NoMessageLost'
    BY <1>7, <1>0 DEF UInv, ReceiveTick, Goto, queue, history, NoMessageLost, Accounted,
           InHand, RecordFor, Tracked
  <2>6. AbandonedInv'
    BY <1>7, <1>0
       DEF UInv, ReceiveTick, queue, history, AbandonedInv, RecordFor, Tracked
  <2> QED
    BY <1>0, <2>1, <2>2, <2>3, <2>4, <2>5, <2>6 DEF UInv
<1>8. CASE ReceiveStop
  <2>1. SnapshotInv'
    BY <1>8, <1>0 DEF UInv, ReceiveStop, Goto, queue, SnapshotInv, Working, Held,
           RecordFor, Tracked, Recorded
  <2>2. FirstFailureInv'
    BY <1>8, <1>0 DEF UInv, ReceiveStop, Goto, FirstFailureInv
  <2>3. PendingInv'
    BY <1>8, <1>0 DEF UInv, ReceiveStop, Goto, queue, history, PendingInv, InHand, Held,
           RecordFor, Tracked
  <2>4. CountInv'
    BY <1>8, <1>0 DEF UInv, ReceiveStop, Goto, queue, history, CountInv,
           AttemptCountIsOwn, InHand, RecordFor, Tracked, Recorded
  <2>5. NoMessageLost'
    BY <1>8, <1>0 DEF UInv, ReceiveStop, Goto, queue, history, NoMessageLost, Accounted,
           InHand, RecordFor, Tracked
  <2>6. AbandonedInv'
    BY <1>8, <1>0
       DEF UInv, ReceiveStop, queue, history, AbandonedInv, RecordFor, Tracked
  <2> QED
    BY <1>0, <2>1, <2>2, <2>3, <2>4, <2>5, <2>6 DEF UInv
<1>9. CASE Snapshot
  <2>1. SnapshotInv'
    BY <1>9, <1>0
       DEF Snapshot, Recorded, Goto, queue, SnapshotInv, Working, Held, RecordFor, Tracked
  <2>2. FirstFailureInv'
    BY <1>9, <1>0 DEF IInv, Snapshot, MutexFree, queue, FirstFailureInv, MutexInv, Threads
  <2>3. PendingInv'
    BY <1>9, <1>0 DEF UInv, Snapshot, Goto, queue, history, PendingInv, InHand, Held,
           RecordFor, Tracked
  <2>4. CountInv'
    BY <1>9, <1>0 DEF UInv, Snapshot, Recorded, Goto, queue, history, CountInv,
           AttemptCountIsOwn, InHand, RecordFor, Tracked
  <2>5. NoMessageLost'
    BY <1>9, <1>0
       DEF UInv, Snapshot, Goto, queue, history, NoMessageLost, Accounted, InHand,
           RecordFor, Tracked
  <2>6. AbandonedInv'
    BY <1>9, <1>0
       DEF UInv, Snapshot, queue, history, AbandonedInv, RecordFor, Tracked
  <2> QED
    BY <1>0, <2>1, <2>2, <2>3, <2>4, <2>5, <2>6 DEF UInv
<1>10. ASSUME NEW m \in Messages, SkipRetry(m) PROVE UInv'
  <2>1. SnapshotInv'
    BY <1>10, <1>0 DEF UInv, SkipRetry, queue, SnapshotInv, RecordFor, Tracked, Recorded
  <2>2. FirstFailureInv'
    BY <1>10, <1>0 DEF UInv, SkipRetry, FirstFailureInv
  <2>3. PendingInv'
    BY <1>10, <1>0
       DEF UInv, SkipRetry, queue, history, PendingInv, InHand, RecordFor, Tracked
  <2>4. CountInv'
    BY <1>10, <1>0 DEF UInv, SkipRetry, queue, history, CountInv, AttemptCountIsOwn,
           InHand, RecordFor, Tracked, Recorded
  <2>5. NoMessageLost'
    BY <1>10, <1>0
       DEF UInv, SkipRetry, queue, history, NoMessageLost, Accounted, InHand, RecordFor,
           Tracked
  <2>6. AbandonedInv'
    BY <1>10, <1>0
       DEF UInv, SkipRetry, queue, history, AbandonedInv, RecordFor, Tracked
  <2> QED
    BY <1>0, <2>1, <2>2, <2>3, <2>4, <2>5, <2>6 DEF UInv
<1>11. ASSUME NEW m \in Messages, BeginRetry(m) PROVE UInv'
  <2>1. SnapshotInv'
    BY <1>11, <1>0 DEF UInv, IInv, BeginRetry, queue, SnapshotInv, TypeOK, RecordFor,
           Tracked, Recorded
  <2>2. FirstFailureInv'
    BY <1>11, <1>0 DEF UInv, BeginRetry, Goto, FirstFailureInv
  <2>3. PendingInv'
    BY <1>11, <1>0 DEF UInv, BeginRetry, Goto, queue, history, PendingInv, InHand, Held,
           RecordFor, Tracked
  <2>4. CountInv'
    BY <1>11, <1>0 DEF UInv, BeginRetry, Goto, queue, history, CountInv,
           AttemptCountIsOwn, InHand, RecordFor, Tracked, Recorded
  <2>5. NoMessageLost'
    BY <1>11, <1>0 DEF UInv, BeginRetry, Goto, queue, history, NoMessageLost, Accounted,
           InHand, RecordFor, Tracked
  <2>6. AbandonedInv'
    BY <1>11, <1>0
       DEF UInv, BeginRetry, queue, history, AbandonedInv, RecordFor, Tracked
  <2> QED
    BY <1>0, <2>1, <2>2, <2>3, <2>4, <2>5, <2>6 DEF UInv
<1>12. CASE RetrySucceeds
  <2>1. SnapshotInv'
    BY <1>12, <1>0 DEF UInv, RetrySucceeds, Goto, queue, SnapshotInv, Working, Held,
           RecordFor, Tracked, Recorded
  <2>2. FirstFailureInv'
    BY <1>12, <1>0 DEF UInv, RetrySucceeds, Goto, FirstFailureInv
  <2>3. PendingInv'
    BY <1>12, <1>0 DEF UInv, IInv, RetrySucceeds, Goto, queue, PendingInv, TypeOK,
           InHand, Held, RecordFor, Tracked
  <2>4. CountInv'
    BY <1>12, <1>0 DEF UInv, RetrySucceeds, Goto, queue, CountInv, AttemptCountIsOwn,
           InHand, RecordFor, Tracked, Recorded
  <2>5. NoMessageLost'
    BY <1>12, <1>0 DEF UInv, IInv, RetrySucceeds, Goto, queue, NoMessageLost, Accounted,
           DeliveredInv, InHand, RecordFor, Tracked
  <2>6. AbandonedInv'
    BY <1>12, <1>0 DEF UInv, RetrySucceeds, queue, SnapshotInv, AbandonedInv,
           Working, RecordFor, Tracked
  <2> QED
    BY <1>0, <2>1, <2>2, <2>3, <2>4, <2>5, <2>6 DEF UInv
<1>13. CASE RetryFails
  <2>1. SnapshotInv'
    BY <1>13, <1>0 DEF UInv, RetryFails, Goto, queue, SnapshotInv, Working, Held,
           RecordFor, Tracked, Recorded
  <2>2. FirstFailureInv'
    BY <1>13, <1>0 DEF UInv, RetryFails, Goto, FirstFailureInv
  <2>3. PendingInv'
    BY <1>13, <1>0 DEF UInv, IInv, RetryFails, Goto, queue, PendingInv, FreshInv, Fresh,
           InHand, Held, RecordFor, Tracked
  <2>4. CountInv'
    BY <1>13, <1>0 DEF UInv, IInv, RetryFails, Goto, queue, CountInv, AttemptCountIsOwn,
           TypeOK, FreshInv, Fresh, InHand, RecordFor, Tracked, Recorded
  <2>5. NoMessageLost'
    BY <1>13, <1>0
       DEF UInv, RetryFails, Goto, queue, NoMessageLost, Accounted, InHand, RecordFor,
           Tracked
  <2>6. AbandonedInv'
    BY <1>13, <1>0 DEF UInv, RetryFails, queue, AbandonedInv, RecordFor, Tracked
  <2> QED
    BY <1>0, <2>1, <2>2, <2>3, <2>4, <2>5, <2>6 DEF UInv
<1>14. CASE RemoveRetried
  <2> DEFINE m == cur["retrier"]
  <2>a. m \in Messages /\ m \notin messagesToRetry
    BY <1>14 DEF IInv, RemoveRetried, PositionsInv, HandInv
  <2>b. \A n \in Owners \ {m} : RecordFor(n)' = RecordFor(n)
    BY <1>14, <2>a, OthersKeepRecord DEF RemoveRetried, Without
  <2>1. SnapshotInv'
    BY <1>14, <2>a, <2>b DEF UInv, IInv, TypeOK, RemoveRetried, Goto, SnapshotInv, Working,
           Held, Tracked, Recorded
  <2>2. FirstFailureInv'
    BY <1>14, <1>0 DEF IInv, RemoveRetried, MutexFree, FirstFailureInv, MutexInv, Threads
  <2>3. PendingInv'
    BY <1>14, <1>0 DEF UInv, IInv, RemoveRetried, Without, Goto, history, PendingInv,
           TypeOK, MutexInv, InHand, RecordFor, Tracked
  <2>4. CountInv'
    BY <1>14, <1>0 DEF UInv, RemoveRetried, Without, Goto, history, CountInv,
           AttemptCountIsOwn, InHand, RecordFor, Tracked, Recorded
  <2>5. NoMessageLost'
    BY <1>14, <1>0 DEF UInv, IInv, RemoveRetried, Without, Goto, history,
           PendingInv, NoMessageLost, Accounted, PositionsInv, InHand, RecordFor, Tracked
  <2>6. AbandonedInv'
    BY <1>14, <1>0 DEF UInv, IInv, RemoveRetried, Without, history, AbandonedInv,
           TypeOK, RecordFor, Tracked
  <2> QED
    BY <1>0, <2>1, <2>2, <2>3, <2>4, <2>5, <2>6 DEF UInv
<1>15. CASE EndPass
  <2>1. SnapshotInv'
    BY <1>15, <1>0 DEF EndPass, Goto, SnapshotInv, Working
  <2>2. FirstFailureInv'
    BY <1>15, <1>0 DEF UInv, EndPass, Goto, FirstFailureInv
  <2>3. PendingInv'
    BY <1>15, <1>0 DEF UInv, EndPass, Goto, queue, history, PendingInv, InHand, Held,
           RecordFor, Tracked
  <2>4. CountInv'
    BY <1>15, <1>0 DEF UInv, EndPass, Goto, queue, history, CountInv, AttemptCountIsOwn,
           InHand, RecordFor, Tracked, Recorded
  <2>5. NoMessageLost'
    BY <1>15, <1>0
       DEF UInv, EndPass, Goto, queue, history, NoMessageLost, Accounted, InHand,
           RecordFor, Tracked
  <2>6. AbandonedInv'
    BY <1>15, <1>0
       DEF UInv, EndPass, queue, history, AbandonedInv, RecordFor, Tracked
  <2> QED
    BY <1>0, <2>1, <2>2, <2>3, <2>4, <2>5, <2>6 DEF UInv
<1>16. CASE Tick
  BY <1>16, <1>0 DEF Tick, UInv, SnapshotInv, FirstFailureInv, PendingInv, CountInv,
         NoMessageLost, Accounted, AbandonedInv, AttemptCountIsOwn, InHand, RecordFor,
         Tracked, Recorded, queue, history
<1>17. ASSUME NEW m \in Messages, Elapse(m) PROVE UInv'
  BY <1>17, <1>0 DEF Elapse, UInv, SnapshotInv, FirstFailureInv, PendingInv, CountInv,
         NoMessageLost, Accounted, AbandonedInv, AttemptCountIsOwn, InHand, RecordFor,
         Tracked, Recorded, history
<1>18. CASE CloseStopChan
  BY <1>18, <1>0 DEF CloseStopChan, UInv, SnapshotInv, FirstFailureInv, PendingInv,
         CountInv, NoMessageLost, Accounted, AbandonedInv, AttemptCountIsOwn, InHand,
         RecordFor, Tracked, Recorded, queue, history
<1>19. CASE StopTicker
  BY <1>19, <1>0 DEF StopTicker, UInv, SnapshotInv, FirstFailureInv, PendingInv,
         CountInv, NoMessageLost, Accounted, AbandonedInv, AttemptCountIsOwn, InHand,
         RecordFor, Tracked, Recorded, queue, history
<1>20. CASE StopReturns
  BY <1>20, <1>0 DEF StopReturns, UInv, SnapshotInv, FirstFailureInv, PendingInv,
         CountInv, NoMessageLost, Accounted, AbandonedInv, AttemptCountIsOwn, InHand,
         RecordFor, Tracked, Recorded, queue, history
<1>21. CASE UNCHANGED vars
  BY <1>21, <1>0 DEF vars, UInv, SnapshotInv, FirstFailureInv, PendingInv, CountInv,
         NoMessageLost, Accounted, AbandonedInv, AttemptCountIsOwn, InHand, RecordFor,
         Tracked, Recorded, queue, history
<1> QED
  BY <1>1, <1>2, <1>3, <1>4, <1>5, <1>6, <1>7, <1>8, <1>9, <1>10, <1>11, <1>12, <1>13,
     <1>14, <1>15, <1>16, <1>17, <1>18, <1>19, <1>20, <1>21
     DEF Next, Threads, Forwarder, Retrier, Stop, HandleFailedMessage, Rest

-----------------------------------------------------------------------------
(* The refinement of RetryContract. *)

\* The step neither delivers, fails nor abandons n.
Untouched(n) ==
    /\ deliveries'[n] = deliveries[n]
    /\ failures'[n] = failures[n]
    /\ n \in abandoned' <=> n \in abandoned

\* A step that neither delivers, fails nor abandons a message with a key of its own is
\* invisible: whatever becomes of the others is no part of the contract.
LEMMA InvisibleStep ==
    ASSUME \A n \in Owners : Untouched(n)
    PROVE  UNCHANGED Contract!vars
<1>1. \A n \in Owners : Outcome(n)' = Outcome(n)
  BY DEF Untouched, Outcome
<1> QED
  BY <1>1 DEF Untouched, Contract!vars

\* A delivered message is shown as delivered whatever else happened to it.
LEMMA ContractDeliver ==
    ASSUME TypeOK, NEW m \in Owners,
           deliveries[m] = 0, m \notin abandoned, failures[m] < AttemptLimit,
           deliveries' = [deliveries EXCEPT ![m] = @ + 1],
           UNCHANGED <<failures, abandoned>>
    PROVE  Contract!Deliver(m)
<1>1. Contract!Open(m)
  BY DEF Contract!Open, Outcome
<1>2. \A n \in Owners : Outcome(n)' = IF n = m THEN "delivered" ELSE Outcome(n)
  BY OwnersKey DEF TypeOK, Outcome
<1>3. [n \in Owners |-> Outcome(n)]' =
          [[n \in Owners |-> Outcome(n)] EXCEPT ![m] = "delivered"]
  BY <1>2
<1> QED
  BY <1>1, <1>3 DEF Contract!Deliver

LEMMA ContractFail ==
    ASSUME TypeOK, NEW m \in Owners,
           deliveries[m] = 0, m \notin abandoned, failures[m] < AttemptLimit,
           failures' = [failures EXCEPT ![m] = @ + 1],
           UNCHANGED <<deliveries, abandoned>>
    PROVE  Contract!Fail(m)
<1>1. Contract!Open(m)
  BY DEF Contract!Open, Outcome
<1>2. \A n \in Owners : Outcome(n)' = IF n = m THEN "retrying" ELSE Outcome(n)
  BY OwnersKey DEF TypeOK, Outcome
<1>3. [n \in Owners |-> Outcome(n)]' =
          [[n \in Owners |-> Outcome(n)] EXCEPT ![m] = "retrying"]
  BY <1>2
<1>4. [n \in Owners |-> failures[n]]' =
          [[n \in Owners |-> failures[n]] EXCEPT ![m] = @ + 1]
  BY OwnersKey DEF TypeOK
<1>5. [n \in Owners |-> failures[n]][m] < AttemptLimit
  OBVIOUS
<1> QED
  BY <1>1, <1>3, <1>4, <1>5 DEF Contract!Fail

LEMMA ContractAbandon ==
    ASSUME TypeOK, NEW m \in Owners,
           deliveries[m] = 0, m \notin abandoned, failures[m] = AttemptLimit,
           abandoned' = abandoned \cup {m},
           UNCHANGED <<deliveries, failures>>
    PROVE  Contract!Abandon(m)
<1>1. Outcome(m) = "retrying"
  BY LimitFacts DEF Outcome
<1>2. \A n \in Owners : Outcome(n)' = IF n = m THEN "abandoned" ELSE Outcome(n)
  BY DEF Outcome
<1>3. [n \in Owners |-> Outcome(n)]' =
          [[n \in Owners |-> Outcome(n)] EXCEPT ![m] = "abandoned"]
  BY <1>2
<1> QED
  BY <1>1, <1>3 DEF Contract!Abandon

\* The message the retrier sends again is undelivered and has failed fewer times
\* than the limit.
LEMMA RetriedMessage ==
    ASSUME IInv, UInv, pc["retrier"] = "resend", cur["retrier"] \in Owners
    PROVE  LET m == cur["retrier"]
           IN  /\ deliveries[m] = 0
               /\ m \notin abandoned
               /\ failures[m] < AttemptLimit
<1> DEFINE m == cur["retrier"]
<1>1. m \in Messages /\ Tracked(m) /\ deliveries[m] = 0
  BY OwnersKey DEF IInv, PositionsInv, DeliveredInv, UInv, SnapshotInv, Working
<1>2. m \notin abandoned
  BY <1>1 DEF UInv, AbandonedInv
<1>3. \A t \in Threads : pc[t] \in Held => cur[t] # m /\ cur[t] \in Messages
  BY <1>1 DEF IInv, PositionsInv, UInv, FirstFailureInv, Threads, Held
<1>4. ~LimitReached(attemptCount[m])
  BY <1>1, <1>3, OwnersKey DEF IInv, AttemptsInv
<1>5. attemptCount[m] = failures[m]
  BY <1>1 DEF IInv, TypeOK, UInv, CountInv, AttemptCountIsOwn, InHand, Recorded
<1>6. attemptCount[m] + 1 <= AttemptLimit /\ attemptCount[m] \in Nat
  BY <1>1, <1>4, LimitFacts DEF IInv, TypeOK
<1> QED
  BY <1>1, <1>2, <1>5, <1>6, LimitFacts

\* So is one the forwarder has not received yet.
LEMMA ReceivedMessage ==
    ASSUME IInv, UInv, NEW m \in Owners, Forward(m)
    PROVE  /\ deliveries[m] = 0
           /\ m \notin abandoned
           /\ failures[m] < AttemptLimit
  BY LimitFacts, OwnersKey DEF Forward, IInv, DeliveredInv, Fresh, UInv, PendingInv

\* The message a thread gives up is undelivered, and has failed as often as the limit allows.
LEMMA GivenUpMessage ==
    ASSUME IInv, UInv, NEW t \in Threads, pc[t] \in Held, cur[t] \in Owners
    PROVE  LET m == cur[t]
           IN  /\ Tracked(m)
               /\ deliveries[m] = 0
               /\ m \notin abandoned
               /\ failures[m] = AttemptLimit
<1> DEFINE m == cur[t]
<1>1. Tracked(m) /\ attemptCount[m] = AttemptLimit /\ m \notin abandoned
  BY DEF UInv, PendingInv
<1>2. pc["retrier"] = "remove" => cur["retrier"] # m
  BY DEF UInv, FirstFailureInv, Threads, Held
<1>3. deliveries[m] = 0
  BY <1>1, <1>2, OwnersKey DEF IInv, DeliveredInv
<1>4. ~InHand("retrier", m)
  BY DEF UInv, FirstFailureInv, InHand, Threads, Held
<1>5. failures[m] = AttemptLimit
  BY <1>1, <1>4, OwnersKey DEF IInv, TypeOK, UInv, CountInv, AttemptCountIsOwn, Recorded
<1> QED
  BY <1>1, <1>3, <1>5

\* Every step delivers, fails or abandons, as the contract allows it, one message with a
\* key of its own, or touches none.
LEMMA ContractStep ==
    ASSUME IInv, UInv, [Next]_vars
    PROVE  [Contract!Next]_(Contract!vars)
<1> USE DEF Contract!Next
<1>1. ASSUME NEW m \in Messages, ForwardSucceeds(m) PROVE [Contract!Next]_(Contract!vars)
  <2>1. CASE m \in Owners
    BY <1>1, <2>1, ReceivedMessage, ContractDeliver DEF ForwardSucceeds, Forward, IInv
  <2>2. CASE m \notin Owners
    BY <1>1, <2>2, InvisibleStep, OwnersKey
       DEF ForwardSucceeds, Forward, Untouched, IInv, TypeOK
  <2> QED
    BY <2>1, <2>2
<1>2. ASSUME NEW m \in Messages, ForwardFails(m) PROVE [Contract!Next]_(Contract!vars)
  <2>1. CASE m \in Owners
    BY <1>2, <2>1, ReceivedMessage, ContractFail DEF ForwardFails, Forward, IInv
  <2>2. CASE m \notin Owners
    BY <1>2, <2>2, InvisibleStep, OwnersKey
       DEF ForwardFails, Forward, Untouched, IInv, TypeOK
  <2> QED
    BY <2>1, <2>2
<1>3. CASE RetrySucceeds
  <2>1. CASE cur["retrier"] \in Owners
    BY <1>3, <2>1, RetriedMessage, ContractDeliver DEF RetrySucceeds, IInv
  <2>2. CASE cur["retrier"] \notin Owners
    BY <1>3, <2>2, InvisibleStep, OwnersKey DEF RetrySucceeds, Untouched, IInv, TypeOK
  <2> QED
    BY <2>1, <2>2
<1>4. CASE RetryFails
  <2>1. CASE cur["retrier"] \in Owners
    BY <1>4, <2>1, RetriedMessage, ContractFail DEF RetryFails, IInv
  <2>2. CASE cur["retrier"] \notin Owners
    BY <1>4, <2>2, InvisibleStep, OwnersKey DEF RetryFails, Untouched, IInv, TypeOK
  <2> QED
    BY <2>1, <2>2
<1>5. ASSUME NEW t \in Threads, SendToMQTTTopic(t) PROVE [Contract!Next]_(Contract!vars)
  <2> DEFINE m == cur[t]
  <2>1. m \in Messages
    BY <1>5 DEF SendToMQTTTopic, IInv, PositionsInv, Threads, Held
  <2>2. CASE m \in Owners
    <3>1. deliveries[m] = 0 /\ m \notin abandoned /\ failures[m] = AttemptLimit /\ Tracked(m)
      BY <1>5, <2>2, GivenUpMessage DEF SendToMQTTTopic, Held
    <3>2. Contract!Abandon(m)
      BY <1>5, <2>2, <3>1, ContractAbandon DEF SendToMQTTTopic, Tracked, IInv
    <3> QED
      BY <2>2, <3>2
  <2>3. CASE m \notin Owners
    <3>1. RecordFor(m) \notin Owners
      BY <2>1, <2>3, FoundRecord
    <3>2. \A n \in Owners : Untouched(n)
      BY <1>5, <3>1 DEF SendToMQTTTopic, Untouched
    <3> QED
      BY <3>2, InvisibleStep
  <2> QED
    BY <2>2, <2>3
<1>6. ASSUME UNCHANGED <<deliveries, failures, abandoned>>
      PROVE  [Contract!Next]_(Contract!vars)
  <2>1. \A n \in Owners : Untouched(n)
    BY <1>6 DEF Untouched
  <2> QED
    BY <2>1, InvisibleStep
<1>7. ASSUME NEW t \in Threads, RecordFailure(t) \/ SendToKafkaTopic(t)
      PROVE  [Contract!Next]_(Contract!vars)
  BY <1>6, <1>7 DEF RecordFailure, SendToKafkaTopic, history
<1>8. ASSUME NEW m \in Messages, SkipRetry(m) \/ BeginRetry(m) \/ Elapse(m)
      PROVE  [Contract!Next]_(Contract!vars)
  BY <1>6, <1>8 DEF SkipRetry, BeginRetry, Elapse, history
<1>9. CASE ReceiveTick \/ ReceiveStop \/ Snapshot \/ RemoveRetried \/ EndPass
  BY <1>6, <1>9 DEF ReceiveTick, ReceiveStop, Snapshot, RemoveRetried, EndPass, history
<1>10. CASE Start \/ Stop \/ Tick \/ Rest \/ UNCHANGED vars
  BY <1>6, <1>10
     DEF Start, Stop, CloseStopChan, StopTicker, StopReturns, Tick, Rest, vars, history
<1> QED
  BY <1>1, <1>2, <1>3, <1>4, <1>5, <1>7, <1>8, <1>9, <1>10
  DEF Next, Forwarder, Retrier, HandleFailedMessage, Threads

-----------------------------------------------------------------------------
(* The dead letter topics. *)

\* What is in a dead letter topic has failed as often as it may and is given up, or is
\* just being given up.
DeadLetterInv ==
    \A m \in Owners :
        deadLetters[m] # {} =>
            /\ deliveries[m] = 0
            /\ failures[m] = AttemptLimit
            /\ m \in abandoned \/ \E t \in Threads : pc[t] = "sendMQTT" /\ cur[t] = m

\* Only a message that is given up gets into a dead letter topic.
LEMMA GiveUpKeepsDeadLetters ==
    ASSUME IInv, UInv, DeadLetterInv,
           NEW t \in Threads, SendToKafkaTopic(t) \/ SendToMQTTTopic(t)
    PROVE  DeadLetterInv'
<1> SUFFICES ASSUME NEW m \in Owners, deadLetters'[m] # {}
             PROVE  /\ deliveries'[m] = 0
                    /\ failures'[m] = AttemptLimit
                    /\ \/ m \in abandoned'
                       \/ \E u \in Threads : pc'[u] = "sendMQTT" /\ cur'[u] = m
  BY DEF DeadLetterInv
<1> USE OwnersKey
<1>1. UNCHANGED <<deliveries, failures, cur>> /\ pc[t] \in Held /\ cur[t] \in Messages
  BY DEF SendToKafkaTopic, SendToMQTTTopic, Held, IInv, PositionsInv, Threads
<1>2. CASE cur[t] = m
  <2>1. Tracked(m) /\ deliveries[m] = 0 /\ failures[m] = AttemptLimit
    BY <1>1, <1>2, GivenUpMessage
  <2>2. m \in abandoned' \/ pc'[t] = "sendMQTT"
    BY <1>2, <2>1 DEF SendToKafkaTopic, SendToMQTTTopic, Goto, Tracked, IInv, TypeOK
  <2> QED
    BY <1>1, <1>2, <2>1, <2>2
<1>3. CASE cur[t] # m
  <2>1. RecordFor(cur[t]) # m
    BY <1>1, <1>3, FoundRecord
  <2>2. deadLetters'[m] = deadLetters[m]
    BY <2>1 DEF SendToKafkaTopic, SendToMQTTTopic, SendDeadLetter, IInv, TypeOK
  <2>3. ASSUME NEW u \in Threads, pc[u] = "sendMQTT", cur[u] = m PROVE pc'[u] = "sendMQTT"
    BY <1>3, <2>3 DEF SendToKafkaTopic, SendToMQTTTopic, Goto, IInv, TypeOK
  <2>4. m \in abandoned => m \in abandoned'
    BY DEF SendToKafkaTopic, SendToMQTTTopic
  <2> QED
    BY <1>1, <2>2, <2>3, <2>4 DEF DeadLetterInv
<1> QED
  BY <1>2, <1>3

\* A message that is sent is in no dead letter topic.
LEMMA SentIsNoDeadLetter ==
    ASSUME DeadLetterInv, NEW m \in Owners, failures[m] < AttemptLimit
    PROVE  deadLetters[m] = {}
  BY LimitFacts DEF DeadLetterInv

LEMMA NextDeadLetterInv ==
    ASSUME IInv, UInv, DeadLetterInv, [Next]_vars
    PROVE  DeadLetterInv'
<1> USE OwnersKey
<1>1. ASSUME NEW x \in Messages, ForwardSucceeds(x) \/ ForwardFails(x) PROVE DeadLetterInv'
  <2>1. x \in Owners => deadLetters[x] = {}
    BY <1>1, ReceivedMessage, SentIsNoDeadLetter DEF ForwardSucceeds, ForwardFails
  <2>2. UNCHANGED <<deadLetters, abandoned>> /\ pc["forwarder"] = "idle"
    BY <1>1 DEF ForwardSucceeds, ForwardFails, Forward
  <2>3. \A m \in Messages \ {x} : deliveries'[m] = deliveries[m] /\ failures'[m] = failures[m]
    BY <1>1 DEF ForwardSucceeds, ForwardFails, IInv, TypeOK
  <2>4. pc'["retrier"] = pc["retrier"] /\ cur'["retrier"] = cur["retrier"]
    BY <1>1 DEF ForwardSucceeds, ForwardFails, Goto, IInv, TypeOK, Threads
  <2> QED
    BY <2>1, <2>2, <2>3, <2>4 DEF DeadLetterInv, Threads
<1>2. CASE RetrySucceeds \/ RetryFails
  <2> DEFINE x == cur["retrier"]
  <2>1. x \in Owners => deadLetters[x] = {}
    BY <1>2, RetriedMessage, SentIsNoDeadLetter DEF RetrySucceeds, RetryFails
  <2>2. UNCHANGED <<deadLetters, abandoned, cur>> /\ pc["retrier"] = "resend"
    BY <1>2 DEF RetrySucceeds, RetryFails
  <2>3. \A m \in Messages \ {x} : deliveries'[m] = deliveries[m] /\ failures'[m] = failures[m]
    BY <1>2 DEF RetrySucceeds, RetryFails, IInv, TypeOK
  <2>4. pc'["forwarder"] = pc["forwarder"]
    BY <1>2 DEF RetrySucceeds, RetryFails, Goto, IInv, TypeOK, Threads
  <2> QED
    BY <2>1, <2>2, <2>3, <2>4 DEF DeadLetterInv, Threads
<1>3. ASSUME NEW t \in Threads, SendToKafkaTopic(t) \/ SendToMQTTTopic(t)
      PROVE  DeadLetterInv'
  BY <1>3, GiveUpKeepsDeadLetters
<1>4. ASSUME UNCHANGED history,
             \A t \in Threads :
                pc[t] = "sendMQTT" => pc'[t] = "sendMQTT" /\ cur'[t] = cur[t]
      PROVE  DeadLetterInv'
  BY <1>4 DEF DeadLetterInv, history
<1>5. ASSUME NEW t \in Threads, RecordFailure(t) PROVE DeadLetterInv'
  BY <1>4, <1>5 DEF RecordFailure, Goto, IInv, TypeOK
<1>6. ASSUME NEW m \in Messages, SkipRetry(m) \/ BeginRetry(m) \/ Elapse(m)
      PROVE  DeadLetterInv'
  BY <1>4, <1>6 DEF SkipRetry, BeginRetry, Elapse, Goto, IInv, TypeOK
<1>7. CASE ReceiveTick \/ ReceiveStop \/ Snapshot \/ RemoveRetried \/ EndPass
  BY <1>4, <1>7
     DEF ReceiveTick, ReceiveStop, Snapshot, RemoveRetried, EndPass, Goto, IInv, TypeOK
<1>8. CASE Start
  BY <1>4, <1>8 DEF Start, Goto, IInv, PositionsInv, TypeOK
<1>9. CASE Stop \/ Tick \/ Rest \/ UNCHANGED vars
  BY <1>4, <1>9
     DEF Stop, CloseStopChan, StopTicker, StopReturns, Tick, Rest, vars, history
<1> QED
  BY <1>1, <1>2, <1>3, <1>5, <1>6, <1>7, <1>8, <1>9
     DEF Next, Forwarder, Retrier, HandleFailedMessage, Threads

-----------------------------------------------------------------------------
THEOREM OwnKeyInvariant == SafetySpec => []UInv
<1>1. Init => UInv
  BY InitUInv
<1>2. IInv /\ UInv /\ IInv' /\ [Next]_vars => UInv'
  BY NextUInv
<1> QED
  BY <1>1, <1>2, InvariantHolds, PTL DEF SafetySpec

LEMMA DeadLetterInvariant == SafetySpec => []DeadLetterInv
<1>1. Init => DeadLetterInv
  BY OwnersKey DEF Init, DeadLetterInv
<1>2. IInv /\ UInv /\ DeadLetterInv /\ [Next]_vars => DeadLetterInv'
  BY NextDeadLetterInv
<1> QED
  BY <1>1, <1>2, InvariantHolds, OwnKeyInvariant, PTL DEF SafetySpec

\* A message with a key of its own, once handed to the bridge, is never forgotten,
\* whatever the messages that share a key do to each other's records.
THEOREM NothingLost == SafetySpec => []NoMessageLost
<1>1. UInv => NoMessageLost
  BY DEF UInv
<1> QED
  BY <1>1, OwnKeyInvariant, PTL

\* Every message is delivered at most once, and one with a key of its own is delivered or
\* ends in the dead letter topics, and never both.
THEOREM OneOutcome == SafetySpec => []AtMostOneOutcome
<1>1. UInv /\ DeadLetterInv /\ DeliveredAtMostOnce => AtMostOneOutcome
  BY DEF UInv, AbandonedInv, DeadLetterInv, DeliveredOrAbandoned, AtMostOneOutcome
<1> QED
  BY <1>1, OwnKeyInvariant, DeadLetterInvariant, AtMostOnceDelivery, PTL

\* The AttemptCount of a message with a key of its own counts its own attempts, no record of
\* any message waits that has used them up, and only what has used them up is a dead letter.
THEOREM HonestCount == SafetySpec => []HonestRecords
<1>1. UInv /\ DeadLetterInv /\ AttemptsLeft => HonestRecords
  BY DEF UInv, CountInv, DeadLetterInv, DeadLettersAreSpent, HonestRecords
<1> QED
  BY <1>1, OwnKeyInvariant, DeadLetterInvariant, RecordsHaveAttemptsLeft, PTL

\* HandleFailedMessage and retryMessage implement RetryContract for the messages with a
\* key of their own: each is delivered once, or abandoned after exactly AttemptLimit
\* failures of its own.
THEOREM Refinement == SafetySpec => KeepsContract
<1>1. Init => Contract!Init
  BY OwnersKey DEF Init, Contract!Init, Outcome
<1>2. IInv /\ UInv /\ [Next]_vars => [Contract!Next]_(Contract!vars)
  BY ContractStep
<1> QED
  BY <1>1, <1>2, InvariantHolds, OwnKeyInvariant, PTL
  DEF SafetySpec, KeepsContract, Contract!Spec
==============================================================================
