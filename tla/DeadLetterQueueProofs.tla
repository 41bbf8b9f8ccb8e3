------------------------- MODULE DeadLetterQueueProofs -------------------------
(***************************************************************************)
(* Proofs about the dead letter queue, for every set of messages, every    *)
(* assignment of keys, every max_retries and every choice of dead letter   *)
(* topics.                                                                 *)
(***************************************************************************)
EXTENDS DeadLetterQueueProperties, TLAPS

Held == {"sendKafka", "sendMQTT"}

\* A thread that handles a failure has a message in hand, and each thread keeps
\* to the labels of its own code; the retrier is not started before Start.
PositionsInv ==
    /\ pc["forwarder"] \in {"idle", "handle"} \cup Held
    /\ pc["retrier"] \in Positions \ {"idle"}
    /\ pc["forwarder"] # "idle" => cur["forwarder"] \in Messages
    /\ pc["retrier"] \in {"resend", "remove", "handle"} \cup Held
           => cur["retrier"] \in Messages
    /\ lifecycle = "created" => pc["retrier"] = "notStarted"

\* The mutex is held between two steps exactly while a record is sent to the dead
\* letter topics, and that record stays in the map meanwhile.
MutexInv ==
    \A t \in Threads :
        /\ messageMutex = t <=> pc[t] \in Held
        /\ pc[t] \in Held => RecordFor(cur[t]) \in Messages

\* A record is stored under the key of its own message.
OwnKeyInv ==
    \A m \in Messages :
        RecordFor(m) # NoMessage => createMessageKey(RecordFor(m)) = createMessageKey(m)

\* A record has attempts left, unless the thread that holds the mutex is giving it up.
AttemptsInv ==
    \A m \in Messages :
        Tracked(m) =>
            /\ attemptCount[m] > 0
            /\ \/ ~LimitReached(attemptCount[m])
               \/ \E t \in Threads :
                      pc[t] \in Held /\ createMessageKey(cur[t]) = createMessageKey(m)

\* The forwarder has not yet recorded m.
Fresh(m) ==
    \/ m \in incoming
    \/ pc["forwarder"] = "handle" /\ cur["forwarder"] = m

FreshInv ==
    /\ \A m \in Messages :
           Fresh(m) => ~Tracked(m) /\ m \notin messagesToRetry /\ cur["retrier"] # m
    /\ pc["forwarder"] = "handle" => cur["forwarder"] \notin incoming

\* The message the retrier is sending is out of the snapshot.
HandInv ==
    pc["retrier"] \in {"resend", "remove",
    "handle"} => cur["retrier"] \notin messagesToRetry

\* A delivered message is nowhere it could be sent from; its record may only be
\* the one the retrier is about to delete.
DeliveredInv ==
    \A m \in Messages :
        deliveries[m] # 0 =>
            /\ deliveries[m] = 1
            /\ ~Fresh(m)
            /\ m \notin messagesToRetry
            /\ cur["retrier"] = m => pc["retrier"] \notin {"resend", "handle"}
            /\ Tracked(m) => pc["retrier"] = "remove" /\ cur["retrier"] = m

IInv ==
    /\ TypeOK
    /\ PositionsInv
    /\ MutexInv
    /\ OwnKeyInv
    /\ AttemptsInv
    /\ FreshInv
    /\ HandInv
    /\ DeliveredInv

-----------------------------------------------------------------------------
LEMMA KeyInKeys == \A m \in Messages : createMessageKey(m) \in Keys
  BY DEF Keys

LEMMA LimitFacts ==
    /\ AttemptLimit \in Nat
    /\ 1 <= AttemptLimit
    /\ \A n \in Nat : ~LimitReached(n) => n + 1 <= AttemptLimit
  BY MaxRetriesAssumption DEF AttemptLimit, LimitReached

\* The queue starts with nothing recorded and nobody holding the mutex.
LEMMA InitIInv == Init => IInv
<1> SUFFICES ASSUME Init PROVE IInv
  OBVIOUS
<1>1. TypeOK
  <2>1. attemptCount \in [Messages -> 0..AttemptLimit]
    BY LimitFacts DEF Init
  <2>2. pc \in [Threads -> Positions] /\ cur \in [Threads -> Messages \cup {NoMessage}]
    BY DEF Init, Positions
  <2> QED
    BY <2>1, <2>2, KeyInKeys DEF Init, Threads, TypeOK
<1>2. PositionsInv /\ MutexInv
  BY DEF Init, Threads, PositionsInv, Positions, Held, MutexInv
<1>3. OwnKeyInv /\ AttemptsInv
  BY MessagesAssumption, KeyInKeys DEF Init, OwnKeyInv, RecordFor, Tracked, AttemptsInv
<1>4. FreshInv /\ HandInv
  BY MessagesAssumption, KeyInKeys
     DEF Init, Threads, FreshInv, RecordFor, Tracked, HandInv
<1>5. DeliveredInv
  BY DEF Init, DeliveredInv
<1> QED
  BY <1>1, <1>2, <1>3, <1>4, <1>5 DEF IInv

LEMMA NextIInv == IInv /\ [Next]_vars => IInv'
<1> SUFFICES ASSUME IInv, [Next]_vars PROVE IInv'
  OBVIOUS
<1>1. CASE Start
  <2>1. TypeOK'
    BY <1>1 DEF IInv, Start, Goto, queue, history, Threads, TypeOK, Positions
  <2>2. PositionsInv' /\ MutexInv'
    BY <1>1
       DEF IInv, Start, Goto, queue, PositionsInv, Positions, MutexInv, RecordFor, Held
  <2>3. OwnKeyInv' /\ AttemptsInv'
    BY <1>1 DEF IInv, Start, Goto, queue, OwnKeyInv, PositionsInv, AttemptsInv,
           RecordFor, Tracked, Held
  <2>4. FreshInv' /\ HandInv'
    BY <1>1 DEF IInv, Start, Goto, queue, FreshInv, Fresh, HandInv, RecordFor, Tracked
  <2>5. DeliveredInv'
    BY <1>1 DEF IInv, Start, Goto, queue, history, DeliveredInv, Fresh, PositionsInv,
           RecordFor, Tracked
  <2> QED
    BY <2>1, <2>2, <2>3, <2>4, <2>5 DEF IInv
<1>2. ASSUME NEW m \in Messages, ForwardSucceeds(m) PROVE IInv'
  <2>1. TypeOK'
    BY <1>2 DEF IInv, ForwardSucceeds, Forward, queue, TypeOK
  <2>2. PositionsInv' /\ MutexInv'
    BY <1>2 DEF IInv, ForwardSucceeds, Forward, queue, PositionsInv, MutexInv, RecordFor
  <2>3. OwnKeyInv' /\ AttemptsInv'
    BY <1>2 DEF IInv, ForwardSucceeds, Forward, queue, OwnKeyInv, AttemptsInv, RecordFor,
           Tracked
  <2>4. FreshInv' /\ HandInv'
    BY <1>2 DEF IInv, ForwardSucceeds, Forward, queue, FreshInv, Fresh, HandInv,
           RecordFor, Tracked
  <2>5. DeliveredInv'
    BY <1>2 DEF IInv, ForwardSucceeds, Forward, queue, DeliveredInv, Fresh, FreshInv,
           RecordFor, Tracked
  <2> QED
    BY <2>1, <2>2, <2>3, <2>4, <2>5 DEF IInv
<1>3. ASSUME NEW m \in Messages, ForwardFails(m) PROVE IInv'
  <2>1. TypeOK'
    BY <1>3 DEF IInv, ForwardFails, Forward, Goto, queue, Threads, TypeOK, Positions
  <2>2. PositionsInv' /\ MutexInv'
    BY <1>3 DEF IInv, ForwardFails, Forward, Goto, queue, PositionsInv, TypeOK, MutexInv,
           RecordFor, Held
  <2>3. OwnKeyInv' /\ AttemptsInv'
    BY <1>3 DEF IInv, ForwardFails, Forward, Goto, queue, OwnKeyInv, AttemptsInv,
           RecordFor, Tracked, Held
  <2>4. FreshInv' /\ HandInv'
    BY <1>3 DEF IInv, ForwardFails, Forward, Goto, queue, FreshInv, Fresh, TypeOK,
           HandInv, RecordFor, Tracked
  <2>5. DeliveredInv'
    BY <1>3 DEF IInv, ForwardFails, Forward, Goto, queue, DeliveredInv, Fresh, TypeOK,
           RecordFor, Tracked
  <2> QED
    BY <2>1, <2>2, <2>3, <2>4, <2>5 DEF IInv
<1>4. ASSUME NEW t \in Threads, RecordFailure(t) PROVE IInv'
  <2>1. TypeOK'
    <3> DEFINE m == cur[t]
    <3>1. m \in Messages /\ createMessageKey(m) \in Keys
      BY <1>4, KeyInKeys DEF RecordFailure, IInv, PositionsInv, Threads
    <3>2. RecordFor(m) # NoMessage => RecordFor(m) \in Messages /\ Tracked(RecordFor(m))
      BY <3>1 DEF IInv, TypeOK, OwnKeyInv, RecordFor, Tracked
    <3>3. \A u \in Threads : pc[u] \notin Held
      BY <1>4 DEF RecordFailure, MutexFree, IInv, MutexInv, Threads
    <3>4. AttemptsAfterFailure(m) \in 0..AttemptLimit
      BY <3>2, <3>3, LimitFacts DEF AttemptsAfterFailure, IInv, TypeOK, AttemptsInv
    <3> QED
      BY <1>4, <3>1, <3>2, <3>4
         DEF RecordFailure, history, IInv, TypeOK, Goto, Resume, Positions
  <2>2. PositionsInv' /\ MutexInv'
    BY <1>4, KeyInKeys DEF IInv, RecordFailure, MutexFree, Resume, Goto, Threads,
           PositionsInv, Positions, TypeOK, MutexInv, RecordFor, Held
  <2>3. OwnKeyInv' /\ AttemptsInv'
    BY <1>4 DEF IInv, RecordFailure, AttemptsAfterFailure, Goto, Threads, OwnKeyInv,
           TypeOK, PositionsInv, AttemptsInv, RecordFor, Tracked, Held
  <2>4. FreshInv' /\ HandInv'
    BY <1>4 DEF IInv, RecordFailure, Resume, Goto, Threads, FreshInv, Fresh, TypeOK,
           HandInv, RecordFor, Tracked
  <2>5. DeliveredInv'
    BY <1>4 DEF IInv, RecordFailure, Goto, history, Threads, DeliveredInv, Fresh, TypeOK,
           RecordFor, Tracked
  <2> QED
    BY <2>1, <2>2, <2>3, <2>4, <2>5 DEF IInv
<1>5. ASSUME NEW t \in Threads, SendToKafkaTopic(t) PROVE IInv'
  <2>1. TypeOK'
    BY <1>5 DEF IInv, SendToKafkaTopic, SendDeadLetter, Goto, queue, TypeOK, Positions
  <2>2. PositionsInv' /\ MutexInv'
    BY <1>5 DEF IInv, SendToKafkaTopic, Goto, queue, PositionsInv, Positions, MutexInv,
           RecordFor, Held
  <2>3. OwnKeyInv' /\ AttemptsInv'
    BY <1>5 DEF IInv, SendToKafkaTopic, Goto, queue, OwnKeyInv, AttemptsInv, RecordFor,
           Tracked, Held
  <2>4. FreshInv' /\ HandInv'
    BY <1>5 DEF IInv, SendToKafkaTopic, Goto, queue, FreshInv, Fresh, HandInv, RecordFor,
           Tracked
  <2>5. DeliveredInv'
    BY <1>5
       DEF IInv, SendToKafkaTopic, Goto, queue, DeliveredInv, Fresh, RecordFor, Tracked
  <2> QED
    BY <2>1, <2>2, <2>3, <2>4, <2>5 DEF IInv
<1>6. ASSUME NEW t \in Threads, SendToMQTTTopic(t) PROVE IInv'
  <2>1. TypeOK'
    BY <1>6, KeyInKeys DEF IInv, SendToMQTTTopic, SendDeadLetter, Without, Resume, Goto,
           Threads, TypeOK, Positions, PositionsInv, MutexInv, Held
  <2>2. PositionsInv' /\ MutexInv'
    BY <1>6 DEF IInv, SendToMQTTTopic, Resume, Goto, Threads, PositionsInv, Positions,
           TypeOK, MutexInv, Held
  <2>3. OwnKeyInv' /\ AttemptsInv'
    BY <1>6, MessagesAssumption, KeyInKeys DEF IInv, SendToMQTTTopic, Without, OwnKeyInv,
           TypeOK, MutexInv, AttemptsInv, RecordFor, Tracked, Held
  <2>4. FreshInv' /\ HandInv'
    BY <1>6, MessagesAssumption DEF IInv, SendToMQTTTopic, Without, Resume, Goto,
           FreshInv, Fresh, HandInv, RecordFor, Tracked
  <2>5. DeliveredInv'
    BY <1>6, MessagesAssumption DEF IInv, SendToMQTTTopic, Without, Resume, Goto,
           DeliveredInv, Fresh, RecordFor, Tracked
  <2> QED
    BY <2>1, <2>2, <2>3, <2>4, <2>5 DEF IInv
<1>7. CASE ReceiveTick
  <2>1. TypeOK'
    BY <1>7, MessagesAssumption, KeyInKeys, LimitFacts DEF IInv, ReceiveTick, Goto,
           queue, history, Threads, TypeOK, Positions, PositionsInv, MutexInv,
           AttemptsInv, RecordFor, Tracked, Held
  <2>2. PositionsInv' /\ MutexInv'
    BY <1>7 DEF IInv, ReceiveTick, Goto, queue, PositionsInv, Positions, MutexInv,
           RecordFor, Held
  <2>3. OwnKeyInv' /\ AttemptsInv'
    BY <1>7 DEF IInv, ReceiveTick, Goto, queue, OwnKeyInv, AttemptsInv, RecordFor,
           Tracked, Held
  <2>4. FreshInv' /\ HandInv'
    BY <1>7
       DEF IInv, ReceiveTick, Goto, queue, FreshInv, Fresh, HandInv, RecordFor, Tracked
  <2>5. DeliveredInv'
    BY <1>7 DEF IInv, ReceiveTick, Goto, queue, history, DeliveredInv, Fresh, RecordFor,
           Tracked
  <2> QED
    BY <2>1, <2>2, <2>3, <2>4, <2>5 DEF IInv
<1>8. CASE ReceiveStop
  <2>1. TypeOK'
    BY <1>8 DEF IInv, ReceiveStop, Goto, queue, history, Threads, TypeOK, Positions
  <2>2. PositionsInv' /\ MutexInv'
    BY <1>8 DEF IInv, ReceiveStop, Goto, queue, PositionsInv, Positions, MutexInv,
           RecordFor, Held
  <2>3. OwnKeyInv' /\ AttemptsInv'
    BY <1>8 DEF IInv, ReceiveStop, Goto, queue, OwnKeyInv, AttemptsInv, RecordFor,
           Tracked, Held
  <2>4. FreshInv' /\ HandInv'
    BY <1>8
       DEF IInv, ReceiveStop, Goto, queue, FreshInv, Fresh, HandInv, RecordFor, Tracked
  <2>5. DeliveredInv'
    BY <1>8 DEF IInv, ReceiveStop, Goto, queue, history, DeliveredInv, Fresh, RecordFor,
           Tracked
  <2> QED
    BY <2>1, <2>2, <2>3, <2>4, <2>5 DEF IInv
<1>9. CASE Snapshot
  <2>1. TypeOK'
    BY <1>9 DEF IInv, Snapshot, Recorded, Goto, queue, history, Threads, TypeOK, Positions
  <2>2. PositionsInv' /\ MutexInv'
    BY <1>9
       DEF IInv, Snapshot, Goto, queue, PositionsInv, Positions, MutexInv, RecordFor, Held
  <2>3. OwnKeyInv' /\ AttemptsInv'
    BY <1>9
       DEF IInv, Snapshot, Goto, queue, OwnKeyInv, AttemptsInv, RecordFor, Tracked, Held
  <2>4. FreshInv' /\ HandInv'
    BY <1>9 DEF IInv, Snapshot, Recorded, Goto, queue, FreshInv, Fresh, HandInv,
           RecordFor, Tracked
  <2>5. DeliveredInv'
    BY <1>9 DEF IInv, Snapshot, Recorded, Goto, queue, history, DeliveredInv, Fresh,
           RecordFor, Tracked
  <2> QED
    BY <2>1, <2>2, <2>3, <2>4, <2>5 DEF IInv
<1>10. ASSUME NEW m \in Messages, SkipRetry(m) PROVE IInv'
  <2>1. TypeOK'
    BY <1>10 DEF IInv, SkipRetry, queue, history, TypeOK
  <2>2. PositionsInv' /\ MutexInv'
    BY <1>10 DEF IInv, SkipRetry, queue, PositionsInv, MutexInv, RecordFor
  <2>3. OwnKeyInv' /\ AttemptsInv'
    BY <1>10 DEF IInv, SkipRetry, queue, OwnKeyInv, AttemptsInv, RecordFor, Tracked
  <2>4. FreshInv' /\ HandInv'
    BY <1>10 DEF IInv, SkipRetry, queue, FreshInv, Fresh, HandInv, RecordFor, Tracked
  <2>5. DeliveredInv'
    BY <1>10 DEF IInv, SkipRetry, queue, history, DeliveredInv, Fresh, RecordFor, Tracked
  <2> QED
    BY <2>1, <2>2, <2>3, <2>4, <2>5 DEF IInv
<1>11. ASSUME NEW m \in Messages, BeginRetry(m) PROVE IInv'
  <2>1. TypeOK'
    BY <1>11 DEF IInv, BeginRetry, Goto, queue, history, Threads, TypeOK, Positions
  <2>2. PositionsInv' /\ MutexInv'
    BY <1>11 DEF IInv, BeginRetry, Goto, queue, PositionsInv, Positions, TypeOK,
           MutexInv, RecordFor, Held
  <2>3. OwnKeyInv' /\ AttemptsInv'
    BY <1>11
       DEF IInv, BeginRetry, Goto, queue, OwnKeyInv, AttemptsInv, RecordFor, Tracked, Held
  <2>4. FreshInv' /\ HandInv'
    BY <1>11 DEF IInv, BeginRetry, Goto, queue, FreshInv, Fresh, TypeOK, HandInv,
           RecordFor, Tracked
  <2>5. DeliveredInv'
    BY <1>11 DEF IInv, BeginRetry, Goto, queue, history, DeliveredInv, Fresh, TypeOK,
           RecordFor, Tracked
  <2> QED
    BY <2>1, <2>2, <2>3, <2>4, <2>5 DEF IInv
<1>12. CASE RetrySucceeds
  <2>1. TypeOK'
    BY <1>12
       DEF IInv, RetrySucceeds, Goto, queue, Threads, TypeOK, Positions, PositionsInv
  <2>2. PositionsInv' /\ MutexInv'
    BY <1>12 DEF IInv, RetrySucceeds, Goto, queue, PositionsInv, Positions, MutexInv,
           RecordFor, Held
  <2>3. OwnKeyInv' /\ AttemptsInv'
    BY <1>12 DEF IInv, RetrySucceeds, Goto, queue, OwnKeyInv, AttemptsInv, RecordFor,
           Tracked, Held
  <2>4. FreshInv' /\ HandInv'
    BY <1>12
       DEF IInv, RetrySucceeds, Goto, queue, FreshInv, Fresh, HandInv, RecordFor, Tracked
  <2>5. DeliveredInv'
    BY <1>12 DEF IInv, RetrySucceeds, Goto, queue, Threads, DeliveredInv, Fresh, TypeOK,
           FreshInv, HandInv, RecordFor, Tracked
  <2> QED
    BY <2>1, <2>2, <2>3, <2>4, <2>5 DEF IInv
<1>13. CASE RetryFails
  <2>1. TypeOK'
    BY <1>13 DEF IInv, RetryFails, Goto, queue, Threads, TypeOK, Positions, PositionsInv
  <2>2. PositionsInv' /\ MutexInv'
    BY <1>13 DEF IInv, RetryFails, Goto, queue, PositionsInv, Positions, MutexInv,
           RecordFor, Held
  <2>3. OwnKeyInv' /\ AttemptsInv'
    BY <1>13
       DEF IInv, RetryFails, Goto, queue, OwnKeyInv, AttemptsInv, RecordFor, Tracked, Held
  <2>4. FreshInv' /\ HandInv'
    BY <1>13
       DEF IInv, RetryFails, Goto, queue, FreshInv, Fresh, HandInv, RecordFor, Tracked
  <2>5. DeliveredInv'
    BY <1>13 DEF IInv, RetryFails, Goto, queue, DeliveredInv, Fresh, RecordFor, Tracked
  <2> QED
    BY <2>1, <2>2, <2>3, <2>4, <2>5 DEF IInv
<1>14. CASE RemoveRetried
  <2>1. TypeOK'
    BY <1>14, KeyInKeys DEF IInv, RemoveRetried, Without, Goto, history, Threads, TypeOK,
           Positions, PositionsInv
  <2>2. PositionsInv' /\ MutexInv'
    BY <1>14 DEF IInv, RemoveRetried, MutexFree, Goto, Threads, PositionsInv, Positions,
           MutexInv, Held
  <2>3. OwnKeyInv' /\ AttemptsInv'
    BY <1>14, MessagesAssumption DEF IInv, RemoveRetried, Without, Goto, OwnKeyInv,
           AttemptsInv, RecordFor, Tracked, Held
  <2>4. FreshInv' /\ HandInv'
    BY <1>14, MessagesAssumption DEF IInv, RemoveRetried, Without, Goto, FreshInv, Fresh,
           HandInv, RecordFor, Tracked
  <2>5. DeliveredInv'
    BY <1>14, MessagesAssumption, KeyInKeys DEF IInv, RemoveRetried, Without, Goto,
           history, DeliveredInv, Fresh, TypeOK, RecordFor, Tracked
  <2> QED
    BY <2>1, <2>2, <2>3, <2>4, <2>5 DEF IInv
<1>15. CASE EndPass
  <2>1. TypeOK'
    BY <1>15 DEF IInv, EndPass, Goto, queue, history, Threads, TypeOK, Positions
  <2>2. PositionsInv' /\ MutexInv'
    BY <1>15
       DEF IInv, EndPass, Goto, queue, PositionsInv, Positions, MutexInv, RecordFor, Held
  <2>3. OwnKeyInv' /\ AttemptsInv'
    BY <1>15
       DEF IInv, EndPass, Goto, queue, OwnKeyInv, AttemptsInv, RecordFor, Tracked, Held
  <2>4. FreshInv' /\ HandInv'
    BY <1>15 DEF IInv, EndPass, Goto, queue, FreshInv, Fresh, HandInv, RecordFor, Tracked
  <2>5. DeliveredInv'
    BY <1>15
       DEF IInv, EndPass, Goto, queue, history, DeliveredInv, Fresh, RecordFor, Tracked
  <2> QED
    BY <2>1, <2>2, <2>3, <2>4, <2>5 DEF IInv
<1>16. CASE Tick
  BY <1>16 DEF Tick, IInv, TypeOK, PositionsInv, MutexInv, OwnKeyInv, AttemptsInv,
         FreshInv, HandInv, DeliveredInv, Fresh, RecordFor, Tracked, queue, history
<1>17. ASSUME NEW m \in Messages, Elapse(m) PROVE IInv'
  BY <1>17 DEF Elapse, IInv, TypeOK, PositionsInv, MutexInv, OwnKeyInv, AttemptsInv,
         FreshInv, HandInv, DeliveredInv, Fresh, RecordFor, Tracked, history
<1>18. CASE CloseStopChan
  BY <1>18 DEF CloseStopChan, IInv, TypeOK, PositionsInv, MutexInv, OwnKeyInv,
         AttemptsInv, FreshInv, HandInv, DeliveredInv, Fresh, RecordFor, Tracked, queue,
         history
<1>19. CASE StopTicker
  BY <1>19 DEF StopTicker, IInv, TypeOK, PositionsInv, MutexInv, OwnKeyInv, AttemptsInv,
         FreshInv, HandInv, DeliveredInv, Fresh, RecordFor, Tracked, queue, history
<1>20. CASE StopReturns
  BY <1>20 DEF StopReturns, IInv, TypeOK, PositionsInv, MutexInv, OwnKeyInv, AttemptsInv,
         FreshInv, HandInv, DeliveredInv, Fresh, RecordFor, Tracked, queue, history
<1>21. CASE UNCHANGED vars
  BY <1>21 DEF vars, IInv, TypeOK, PositionsInv, MutexInv, OwnKeyInv, AttemptsInv,
         FreshInv, HandInv, DeliveredInv, Fresh, RecordFor, Tracked, queue, history
<1> QED
  BY <1>1, <1>2, <1>3, <1>4, <1>5, <1>6, <1>7, <1>8, <1>9, <1>10, <1>11, <1>12, <1>13,
     <1>14, <1>15, <1>16, <1>17, <1>18, <1>19, <1>20, <1>21
     DEF Next, Threads, Forwarder, Retrier, Stop, HandleFailedMessage, Rest

-----------------------------------------------------------------------------
THEOREM InvariantHolds == SafetySpec => []IInv
  BY InitIInv, NextIInv, PTL DEF SafetySpec

\* Every variable keeps its type, and no record ever counts more attempts than
\* max_retries allows (HandleFailedMessage, line 119).
THEOREM TypeCorrect == SafetySpec => []TypeOK
<1>1. IInv => TypeOK
  BY DEF IInv
<1> QED
  BY <1>1, InvariantHolds, PTL

\* Whatever keys the messages have, retryMessage never sends a message that the
\* forwarder or an earlier retry has sent.
THEOREM AtMostOnceDelivery == SafetySpec => []DeliveredAtMostOnce
<1>1. IInv => DeliveredAtMostOnce
  BY DEF IInv, DeliveredInv, DeliveredAtMostOnce
<1> QED
  BY <1>1, InvariantHolds, PTL

\* Whatever keys the messages have, a record that used up max_retries is never
\* left in the map for the next pass.
THEOREM RecordsHaveAttemptsLeft == SafetySpec => []AttemptsLeft
<1>1. IInv => AttemptsLeft
  BY DEF IInv, MutexInv, AttemptsInv, AttemptsLeft, MutexFree, Recorded, Threads
<1> QED
  BY <1>1, InvariantHolds, PTL
==============================================================================
