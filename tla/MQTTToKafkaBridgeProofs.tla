------------------------ MODULE MQTTToKafkaBridgeProofs ------------------------
(***************************************************************************)
(* The queue inside the MQTT to Kafka direction behaves as the module      *)
(* DeadLetterQueue says.  Every step of the bridge calls a step of the     *)
(* queue or leaves the queue alone, except the callback, which the library *)
(* makes: that it comes only when the queue is started, and only once for  *)
(* a message, takes an invariant of Start and of the way through the       *)
(* library.  So what is proved of the queue holds here, and with the order *)
(* in the library and the log of Kafka it says what becomes of every       *)
(* message between the broker and Kafka.                                   *)
(***************************************************************************)
EXTENDS MQTTToKafkaBridgeProperties, TLAPS

LEMMA SameQueueVars == Queue!vars' = Queue!vars <=> UNCHANGED queueVars
  BY DEF Queue!vars, Queue!queue, Queue!history, queueVars

\* Start starts the queue and otherwise leaves it alone.
LEMMA StartStepOfQueue == ASSUME Start PROVE Queue!Start \/ UNCHANGED queueVars
  BY DEF Start, CallStart, ConnectClient, ConnectProducer, StartQueue, Subscribe

\* Stop stops the queue and otherwise leaves it alone.
LEMMA StopStepOfQueue == ASSUME Stop PROVE Queue!Stop \/ UNCHANGED queueVars
  BY DEF Stop, StopQueue, Disconnect, CloseProducer, Exit, Queue!Stop

\* Neither the broker nor the library touches the queue.
LEMMA LibraryStepOfQueue == ASSUME BrokerSends \/ Library PROVE UNCHANGED queueVars
  BY DEF BrokerSends, Library, ReadMessage, ReadAck, BrokerAcks, CutToken, LibraryStep

\* HandleFailedMessage is the one of the queue; a dead letter that waits for its token
\* has not ended yet.
LEMMA HandleFailedMessageOfQueue ==
  ASSUME NEW t, HandleFailedMessage(t)
  PROVE  Queue!HandleFailedMessage(t) \/ UNCHANGED queueVars
  BY DEF HandleFailedMessage, SendToKafkaTopic, PublishDeadLetter, EndDeadLetter,
         Queue!HandleFailedMessage

\* The retry goroutine is the retrier of the queue.
LEMMA RetrierOfQueue == ASSUME Retrier PROVE Queue!Retrier \/ UNCHANGED queueVars
<1>1. CASE RetryStep
  BY <1>1 DEF RetryStep, Queue!Retrier
<1>2. CASE RetrySucceeds \/ RetryFails
  BY <1>2 DEF RetrySucceeds, RetryFails, Queue!Retrier
<1>3. CASE HandleFailedMessage("retrier")
  BY <1>3, HandleFailedMessageOfQueue DEF Queue!Retrier
<1> QED
  BY <1>1, <1>2, <1>3 DEF Retrier

LEMMA TimeOfQueue ==
  ASSUME Time PROVE Queue!Tick \/ \E m \in Messages : Queue!Elapse(m)
  BY DEF Time

-----------------------------------------------------------------------------
(* What the bridge needs to know of the queue, by an invariant of the queue alone. *)

Labels == {"idle", "notStarted", "select", "snapshot", "retry", "resend", "remove",
           "handle", "sendKafka", "sendMQTT", "exited"}

\* The retry goroutine runs from Start of the queue to the end of its Stop, and what it
\* sends is a message.
QueueInv ==
    /\ pc \in [Queue!Threads -> Labels]
    /\ cur \in [Queue!Threads -> Messages \cup {NoMessage}]
    /\ pc["retrier"] = "resend" => cur["retrier"] \in Messages
    /\ lifecycle = "created" => pc["retrier"] = "notStarted"
    /\ lifecycle = "stopped" => pc["retrier"] = "exited"

LEMMA InitQueueInv == Queue!Init => QueueInv
  BY DEF Queue!Init, Queue!Threads, QueueInv, Labels

LEMMA StepQueueInv == QueueInv /\ [Queue!Next]_(Queue!vars) => QueueInv'
<1> SUFFICES ASSUME QueueInv, [Queue!Next]_(Queue!vars) PROVE QueueInv'
  OBVIOUS
<1> USE DEF QueueInv, Labels, Queue!Threads, Queue!Goto, Queue!queue, Queue!history
<1>1. CASE Queue!Start \/ Queue!Stop \/ Queue!Tick
  BY <1>1 DEF Queue!Start, Queue!Stop, Queue!CloseStopChan, Queue!StopTicker,
              Queue!StopReturns, Queue!Tick
<1>2. ASSUME NEW m \in Messages, Queue!ForwardSucceeds(m) \/ Queue!ForwardFails(m)
      PROVE  QueueInv'
  BY <1>2 DEF Queue!ForwardSucceeds, Queue!ForwardFails, Queue!Forward
<1>3. ASSUME NEW t \in Queue!Threads, Queue!HandleFailedMessage(t) PROVE QueueInv'
  <2>1. lifecycle' = lifecycle /\ cur' = cur
    BY <1>3 DEF Queue!HandleFailedMessage, Queue!RecordFailure, Queue!SendToKafkaTopic,
                Queue!SendToMQTTTopic
  <2>2. pc[t] \in {"handle", "sendKafka", "sendMQTT"}
    BY <1>3 DEF Queue!HandleFailedMessage, Queue!RecordFailure, Queue!SendToKafkaTopic,
                Queue!SendToMQTTTopic
  <2>3. PICK label \in {"idle", "retry", "sendKafka", "sendMQTT"} :
           pc' = [pc EXCEPT ![t] = label]
    BY <1>3 DEF Queue!HandleFailedMessage, Queue!RecordFailure, Queue!SendToKafkaTopic,
                Queue!SendToMQTTTopic, Queue!Resume
  <2> QED
    BY <2>1, <2>2, <2>3
<1>4. CASE Queue!ReceiveTick \/ Queue!ReceiveStop \/ Queue!Snapshot \/ Queue!EndPass
  BY <1>4 DEF Queue!ReceiveTick, Queue!ReceiveStop, Queue!Snapshot, Queue!EndPass
<1>5. ASSUME NEW m \in Messages, Queue!SkipRetry(m) \/ Queue!BeginRetry(m) \/ Queue!Elapse(m)
      PROVE  QueueInv'
  BY <1>5 DEF Queue!SkipRetry, Queue!BeginRetry, Queue!Elapse
<1>6. CASE Queue!RetrySucceeds \/ Queue!RetryFails \/ Queue!RemoveRetried
  BY <1>6 DEF Queue!RetrySucceeds, Queue!RetryFails, Queue!RemoveRetried
<1>7. CASE Queue!Rest \/ UNCHANGED Queue!vars
  BY <1>7 DEF Queue!Rest, Queue!vars
<1> QED
  BY <1>1, <1>2, <1>3, <1>4, <1>5, <1>6, <1>7
     DEF Queue!Next, Queue!Forwarder, Queue!Retrier

-----------------------------------------------------------------------------
(* The invariant of the bridge. *)

\* What Stop has taken down, and what an orderly one may rely on: Start will not start
\* the queue any more.
StopInv ==
    /\ stop = "idle" => ~orderly
    /\ orderly => start \in {"returned", "failed"}
    /\ client = "disconnected" \/ producer = "closed" =>
          stop \in {"closeProducer", "returned", "exited"}
    /\ stop \in {"disconnect", "closeProducer", "returned", "exited"} /\ orderly =>
          lifecycle \in {"created", "stopped"}

\* Start subscribes, and with that makes messages come, only when it has started the queue.
StartedInv ==
    start \in {"subscribe", "returned"} \/ client = "subscribed" \/ sent > 0 =>
        lifecycle # "created"

IInv == TypeOK /\ QueueInv /\ StopInv /\ StartedInv

LEMMA InitIInv == Init => IInv
<1> SUFFICES ASSUME Init PROVE IInv
  OBVIOUS
<1>1. QueueInv
  BY InitQueueInv DEF Init
<1>2. TypeOK
  <2>1. Len(Arrivals) \in Nat
    BY ArrivalsAssumption
  <2>2. 0 \in 0..Len(Arrivals) /\ Len(<< >>) <= InboundSlots
    BY <2>1, InboundSlotsAssumption
  <2>3. << >> \in Seq(Messages) /\ << >> \in Seq(Packets)
    OBVIOUS
  <2> QED
    BY <2>2, <2>3 DEF Init, TypeOK
<1>3. StopInv /\ StartedInv
  BY DEF Init, StopInv, StartedInv
<1> QED
  BY <1>1, <1>2, <1>3 DEF IInv

LEMMA TypesKept == ASSUME IInv, [Next]_vars PROVE TypeOK'
<1> TypeOK
  BY DEF IInv
<1>1. CASE Start
  BY <1>1 DEF Start, CallStart, ConnectClient, ConnectProducer, StartQueue, Subscribe,
              StartStep, libraryVars, TypeOK
<1>2. CASE CallStop
  <2>1. orderly' \in BOOLEAN
    BY <1>2 DEF CallStop
  <2> QED
    BY <1>2, <2>1 DEF CallStop, StopStep, libraryVars, TypeOK
<1>3. CASE Stop
  BY <1>3
     DEF Stop, StopQueue, Disconnect, CloseProducer, Exit, StopStep, libraryVars, TypeOK
<1>4. CASE BrokerSends
  <2>1. Arrivals[sent + 1] \in Messages /\ sent + 1 \in 0..Len(Arrivals)
    BY <1>4, ArrivalsAssumption DEF BrokerSends, TypeOK
  <2>2. wire' \in Seq(Packets)
    BY <1>4, <2>1 DEF BrokerSends, TypeOK, Packets
  <2> QED
    BY <1>4, <2>1, <2>2 DEF BrokerSends, LibraryStep, bridgeVars, TypeOK
<1>5. CASE Library
  <2> USE DEF LibraryStep, bridgeVars
  <2>1. CASE ReadMessage
    <3>1. Head(wire).of \in Messages /\ Tail(wire) \in Seq(Packets)
      BY <2>1 DEF ReadMessage, TypeOK, Packets
    <3> QED
      BY <2>1, <3>1, InboundSlotsAssumption DEF ReadMessage, TypeOK
  <2>2. CASE ReadAck
    BY <2>2 DEF ReadAck, TypeOK, Packets
  <2>3. ASSUME NEW t \in Queue!Threads, BrokerAcks(t) PROVE TypeOK'
    <3>1. wire' \in Seq(Packets)
      BY <2>3 DEF BrokerAcks, TypeOK, Packets
    <3> QED
      BY <2>3, <3>1 DEF BrokerAcks, TypeOK
  <2>4. ASSUME NEW t \in Queue!Threads, CutToken(t) PROVE TypeOK'
    BY <2>4 DEF CutToken, TypeOK
  <2> QED
    BY <1>5, <2>1, <2>2, <2>3, <2>4 DEF Library
<1>6. ASSUME NEW m \in Messages, HandleMessage(m) PROVE TypeOK'
  <2>1. kafkaLog' \in Seq(Messages)
    <3>1. kafkaLog' = Append(kafkaLog, m) \/ kafkaLog' = kafkaLog
      BY <1>6 DEF HandleMessage, WriteSucceeds, WriteFails, FailedSend
    <3> QED
      BY <3>1 DEF TypeOK
  <2>2. inbound' \in Seq(Messages) /\ Len(inbound') <= InboundSlots
    BY <1>6, InboundSlotsAssumption DEF HandleMessage, TakeMessage, TypeOK
  <2> QED
    BY <1>6, <2>1, <2>2 DEF HandleMessage, TakeMessage, bridgeVars, TypeOK
<1>7. ASSUME NEW t \in Queue!Threads, HandleFailedMessage(t) PROVE TypeOK'
  BY <1>7 DEF HandleFailedMessage, SendToKafkaTopic, PublishDeadLetter, EndDeadLetter,
              QueueStep, bridgeVars, libraryVars, TypeOK
<1>8. CASE RetrySucceeds \/ RetryFails
  <2>1. cur["retrier"] \in Messages
    BY <1>8
       DEF RetrySucceeds, RetryFails, Queue!RetrySucceeds, Queue!RetryFails, IInv, QueueInv
  <2>2. PICK m \in Messages : kafkaLog' = kafkaLog \/ kafkaLog' = Append(kafkaLog, m)
    BY <1>8, <2>1 DEF RetrySucceeds, RetryFails, FailedSend
  <2>3. kafkaLog' \in Seq(Messages)
    BY <2>2 DEF TypeOK
  <2> QED
    BY <1>8, <2>3 DEF RetrySucceeds, RetryFails, bridgeVars, libraryVars, TypeOK
<1>9. CASE RetryStep \/ Time \/ Rest \/ UNCHANGED vars
  BY <1>9 DEF RetryStep, Time, QueueStep, Rest, vars, bridgeVars, libraryVars, TypeOK
<1> QED
  BY <1>1, <1>2, <1>3, <1>4, <1>5, <1>6, <1>7, <1>8, <1>9
     DEF Next, Callback, Retrier, Queue!Threads

\* Outside Start and Stop no step touches what StopInv is about.
LEMMA OthersLeaveStopAlone ==
  ASSUME BrokerSends \/ Library \/ Callback \/ Retrier \/ Time \/ Rest \/ UNCHANGED vars
  PROVE  UNCHANGED <<bridgeVars, orderly, lifecycle>>
<1>1. CASE BrokerSends \/ Library
  BY <1>1 DEF BrokerSends, Library, ReadMessage, ReadAck, BrokerAcks, CutToken,
              LibraryStep, queueVars
<1>2. ASSUME NEW m, HandleMessage(m) PROVE UNCHANGED <<bridgeVars, orderly, lifecycle>>
  BY <1>2 DEF HandleMessage, TakeMessage
<1>3. ASSUME NEW t, HandleFailedMessage(t)
      PROVE  UNCHANGED <<bridgeVars, orderly, lifecycle>>
  BY <1>3 DEF HandleFailedMessage, SendToKafkaTopic, PublishDeadLetter, EndDeadLetter,
              QueueStep, queueVars, Queue!RecordFailure, Queue!SendToKafkaTopic,
              Queue!SendToMQTTTopic
<1>4. CASE RetryStep \/ RetrySucceeds \/ RetryFails
  BY <1>4 DEF RetryStep, RetrySucceeds, RetryFails, QueueStep, Queue!ReceiveTick,
              Queue!ReceiveStop,
              Queue!Snapshot, Queue!SkipRetry, Queue!BeginRetry, Queue!RetryFails,
              Queue!RemoveRetried, Queue!EndPass, Queue!RetrySucceeds
<1>5. CASE Time \/ Rest \/ UNCHANGED vars
  BY <1>5 DEF Time, QueueStep, Queue!Tick, Queue!Elapse, Rest, vars, queueVars
<1> QED
  BY <1>1, <1>2, <1>3, <1>4, <1>5 DEF Callback, Retrier

LEMMA StopInvKept == ASSUME IInv, [Next]_vars PROVE StopInv'
<1> TypeOK /\ QueueInv /\ StopInv
  BY DEF IInv
<1>1. CASE Start
  BY <1>1 DEF Start, CallStart, ConnectClient, ConnectProducer, StartQueue, Subscribe,
              StartStep, queueVars, StopInv
<1>2. CASE CallStop
  BY <1>2 DEF CallStop, StopStep, queueVars, TypeOK, StopInv
<1>3. CASE StopQueue
  <2>1. CASE lifecycle = "created" /\ UNCHANGED queueVars
    BY <1>3, <2>1 DEF StopQueue, StopStep, queueVars, TypeOK, StopInv
  <2>2. CASE Queue!CloseStopChan \/ Queue!StopTicker
    BY <1>3, <2>2
       DEF StopQueue, StopStep, Queue!CloseStopChan, Queue!StopTicker, Queue!StopReturns,
           TypeOK, StopInv
  <2>3. CASE Queue!StopReturns
    BY <1>3, <2>3 DEF StopQueue, StopStep, Queue!StopReturns, TypeOK, StopInv
  <2> QED
    BY <1>3, <2>1, <2>2, <2>3 DEF StopQueue
<1>4. CASE Disconnect \/ CloseProducer \/ Exit
  BY <1>4 DEF Disconnect, CloseProducer, Exit, StopStep, queueVars, TypeOK, StopInv
<1>5. CASE UNCHANGED <<bridgeVars, orderly, lifecycle>>
  BY <1>5 DEF bridgeVars, StopInv
<1>6. CASE BrokerSends \/ Library \/ Callback \/ Retrier \/ Time \/ Rest \/ UNCHANGED vars
  BY <1>5, <1>6, OthersLeaveStopAlone
<1> QED
  BY <1>1, <1>2, <1>3, <1>4, <1>5, <1>6 DEF Next, Stop

\* Only BrokerSends sends, and only to a client that has subscribed.
LEMMA StartedInvKept == ASSUME IInv, [Next]_vars PROVE StartedInv'
<1> TypeOK /\ StopInv /\ StartedInv
  BY DEF IInv
<1>1. CASE Start
  <2>1. UNCHANGED sent
    BY <1>1 DEF Start, CallStart, ConnectClient, ConnectProducer, StartQueue, Subscribe,
                StartStep, libraryVars
  <2> QED
    BY <1>1, <2>1
       DEF Start, CallStart, ConnectClient, ConnectProducer, StartQueue, Subscribe,
           StartStep, queueVars, Queue!Start, StartedInv
<1>2. CASE CallStop \/ StopQueue
  BY <1>2 DEF CallStop, StopQueue, StopStep, libraryVars, queueVars, Queue!CloseStopChan,
              Queue!StopTicker, Queue!StopReturns, StartedInv
<1>3. CASE Disconnect \/ CloseProducer \/ Exit
  BY <1>3 DEF Disconnect, CloseProducer, Exit, StopStep, libraryVars, queueVars, StartedInv
<1>4. CASE BrokerSends
  BY <1>4 DEF BrokerSends, LibraryStep, bridgeVars, queueVars, StartedInv
<1>5. CASE Library \/ Callback \/ Retrier \/ Time \/ Rest \/ UNCHANGED vars
  <2>1. UNCHANGED <<bridgeVars, lifecycle>>
    BY <1>5, OthersLeaveStopAlone
  <2>2. ASSUME NEW m, HandleMessage(m) PROVE UNCHANGED sent
    BY <2>2 DEF HandleMessage, TakeMessage
  <2>3. UNCHANGED sent
    BY <1>5, <2>2
       DEF Library, ReadMessage, ReadAck, BrokerAcks, CutToken, Callback,
           HandleFailedMessage, SendToKafkaTopic, PublishDeadLetter, EndDeadLetter,
           QueueStep, Retrier, RetryStep, RetrySucceeds, RetryFails, Time, Rest, vars,
           libraryVars
  <2> QED
    BY <2>1, <2>3 DEF bridgeVars, StartedInv
<1> QED
  BY <1>1, <1>2, <1>3, <1>4, <1>5 DEF Next, Stop

(***************************************************************************)
(* The order of the messages in Kafka, for every sequence of messages and  *)
(* every room in the library: a message is overtaken only by way of the    *)
(* queue.  What carries the proof is that what the library has not handed  *)
(* over is in order, and that the messages handed over, which are in Kafka *)
(* or have failed, are a beginning of what the broker has sent.            *)
(***************************************************************************)
\* What the queue has recorded or is about to send or to record has failed before.
FailedInv ==
    /\ failures \in [Messages -> Nat]
    /\ failedMessages \in [Queue!Keys -> Messages \cup {NoMessage}]
    /\ \A k \in Queue!Keys :
          failedMessages[k] \in Messages => failures[failedMessages[k]] > 0
    /\ \A m \in messagesToRetry : m \in Messages /\ failures[m] > 0
    /\ pc["forwarder"] = "handle" =>
          cur["forwarder"] \in Messages /\ failures[cur["forwarder"]] > 0
    /\ pc["retrier"] \in {"resend", "handle"} =>
          cur["retrier"] \in Messages /\ failures[cur["retrier"]] > 0

\* The callback was called for m: Kafka has it, or it failed.
Done(m) == Logged(m) \/ failures[m] > 0

InWire(p, i)    == wire[p].kind = "message" /\ wire[p].of = Arrivals[i]
InInbound(p, i) == inbound[p] = Arrivals[i]

\* What is on its way was sent, and in order.
WayInv ==
    /\ \A i \in DOMAIN Arrivals :
          /\ \A p \in DOMAIN inbound : InInbound(p, i) => i <= sent
          /\ \A p \in DOMAIN wire : InWire(p, i) => i <= sent
    /\ \A i, j \in DOMAIN Arrivals :
          /\ \A p, q \in DOMAIN inbound : p < q /\ InInbound(p, i) /\ InInbound(q, j) => i < j
          /\ \A p, q \in DOMAIN wire : p < q /\ InWire(p, i) /\ InWire(q, j) => i < j
          /\ \A p \in DOMAIN inbound, q \in DOMAIN wire :
                InInbound(p, i) /\ InWire(q, j) => i < j

OnTheWay(i) ==
    \/ \E p \in DOMAIN inbound : InInbound(p, i)
    \/ \E p \in DOMAIN wire : InWire(p, i)

\* What was sent is done or on its way, and the done ones come first.
DoneInv ==
    /\ \A i \in 1..sent : Done(Arrivals[i]) \/ OnTheWay(i)
    /\ \A i, j \in DOMAIN Arrivals : i < j /\ Done(Arrivals[j]) => Done(Arrivals[i])

\* All messages on the way are from the broker, and neither they nor those it has not sent
\* yet were handed to the callback.
HandoverInv ==
    /\ \A p \in DOMAIN inbound : \E i \in DOMAIN Arrivals : InInbound(p, i)
    /\ \A p \in DOMAIN wire :
          wire[p].kind = "message" => \E i \in DOMAIN Arrivals : InWire(p, i)
    /\ \A i \in DOMAIN Arrivals : i > sent \/ OnTheWay(i) => Arrivals[i] \in incoming

OInv == IInv /\ FailedInv /\ WayInv /\ DoneInv /\ HandoverInv

-----------------------------------------------------------------------------
(* The failures. *)

LEMMA KeyInKeys == \A m \in Messages : Queue!createMessageKey(m) \in Queue!Keys
  BY DEF Queue!Keys

\* Failures are only counted up.
LEMMA RecordKeepsFailed ==
  ASSUME QueueInv, FailedInv, NEW t \in Queue!Threads, Queue!RecordFailure(t)
  PROVE  FailedInv'
<1> USE DEF QueueInv, FailedInv, Queue!Threads
<1> DEFINE m == cur[t]
           key == Queue!createMessageKey(m)
           record == IF failedMessages[key] = NoMessage THEN m ELSE failedMessages[key]
<1>1. m \in Messages /\ failures[m] > 0 /\ key \in Queue!Keys
  BY KeyInKeys DEF Queue!RecordFailure
<1>2. record \in Messages /\ failures[record] > 0
  BY <1>1
<1>3. failedMessages' = [failedMessages EXCEPT ![key] = record]
  BY DEF Queue!RecordFailure, Queue!RecordFor
<1>4. failures' = failures /\ cur' = cur /\ messagesToRetry' = messagesToRetry
  BY DEF Queue!RecordFailure, Queue!history
<1>5. PICK label \in {"idle", "retry", "sendKafka"} : pc' = [pc EXCEPT ![t] = label]
  BY DEF Queue!RecordFailure, Queue!Goto, Queue!Resume
<1> HIDE DEF record, key, m
<1> QED
  BY <1>1, <1>2, <1>3, <1>4, <1>5

LEMMA GiveUpKeepsFailed ==
  ASSUME QueueInv, FailedInv, NEW t \in Queue!Threads,
         Queue!SendToKafkaTopic(t) \/ Queue!SendToMQTTTopic(t)
  PROVE  FailedInv'
<1> USE DEF QueueInv, FailedInv, Queue!Threads
<1>1. PICK label \in {"idle", "retry", "sendMQTT"} : pc' = [pc EXCEPT ![t] = label]
  BY DEF Queue!SendToKafkaTopic, Queue!SendToMQTTTopic, Queue!Goto, Queue!Resume
<1>2. failures' = failures /\ cur' = cur /\ messagesToRetry' = messagesToRetry
  BY DEF Queue!SendToKafkaTopic, Queue!SendToMQTTTopic
<1>3. failedMessages' = failedMessages \/ failedMessages' = Queue!Without(cur[t])
  BY DEF Queue!SendToKafkaTopic, Queue!SendToMQTTTopic, Queue!queue
<1> QED
  BY <1>1, <1>2, <1>3, QueueAssumption DEF Queue!Without

LEMMA StepFailedInv == QueueInv /\ FailedInv /\ [Queue!Next]_(Queue!vars) => FailedInv'
<1> SUFFICES ASSUME QueueInv, FailedInv, [Queue!Next]_(Queue!vars) PROVE FailedInv'
  OBVIOUS
<1> USE DEF QueueInv, FailedInv, Queue!Threads, Queue!Goto, Queue!queue, Queue!history
<1>1. CASE Queue!Start \/ Queue!Stop \/ Queue!Tick
  BY <1>1 DEF Queue!Start, Queue!Stop, Queue!CloseStopChan, Queue!StopTicker,
              Queue!StopReturns, Queue!Tick
<1>2. ASSUME NEW m \in Messages, Queue!ForwardSucceeds(m) \/ Queue!ForwardFails(m)
      PROVE  FailedInv'
  <2>1. CASE Queue!ForwardSucceeds(m)
    BY <2>1 DEF Queue!ForwardSucceeds, Queue!Forward
  <2>2. CASE Queue!ForwardFails(m)
    BY <2>2 DEF Queue!ForwardFails, Queue!Forward
  <2> QED
    BY <1>2, <2>1, <2>2
<1>3. ASSUME NEW t \in Queue!Threads, Queue!HandleFailedMessage(t) PROVE FailedInv'
  BY <1>3, RecordKeepsFailed, GiveUpKeepsFailed DEF Queue!HandleFailedMessage
<1>4. CASE Queue!ReceiveTick \/ Queue!ReceiveStop \/ Queue!EndPass
  BY <1>4 DEF Queue!ReceiveTick, Queue!ReceiveStop, Queue!EndPass
<1>5. CASE Queue!Snapshot
  <2>1. \A m \in Queue!Recorded : m \in Messages /\ failures[m] > 0
    BY KeyInKeys DEF Queue!Recorded, Queue!Tracked, Queue!RecordFor
  <2> QED
    BY <1>5, <2>1 DEF Queue!Snapshot
<1>6. ASSUME NEW m \in Messages, Queue!SkipRetry(m) \/ Queue!BeginRetry(m) \/ Queue!Elapse(m)
      PROVE  FailedInv'
  BY <1>6 DEF Queue!SkipRetry, Queue!BeginRetry, Queue!Elapse
<1>7. CASE Queue!RetrySucceeds \/ Queue!RetryFails
  BY <1>7 DEF Queue!RetrySucceeds, Queue!RetryFails
<1>8. CASE Queue!RemoveRetried
  BY <1>8, QueueAssumption DEF Queue!RemoveRetried, Queue!Without
<1>9. CASE Queue!Rest \/ UNCHANGED Queue!vars
  BY <1>9 DEF Queue!Rest, Queue!vars
<1> QED
  BY <1>1, <1>2, <1>3, <1>4, <1>5, <1>6, <1>7, <1>8, <1>9
     DEF Queue!Next, Queue!Forwarder, Queue!Retrier

-----------------------------------------------------------------------------
(* The way through the library. *)

LEMMA InitOInv == Init => OInv
<1> SUFFICES ASSUME Init PROVE OInv
  OBVIOUS
<1>1. FailedInv
  BY QueueAssumption DEF Init, Queue!Init, Queue!Threads, FailedInv
<1>2. WayInv /\ DoneInv /\ HandoverInv
  BY ArrivalsAssumption
     DEF Init, Queue!Init, WayInv, DoneInv, HandoverInv, Done, Logged
<1> QED
  BY <1>1, <1>2, InitIInv DEF OInv

\* A packet that is sent comes behind all others.
LEMMA SendKeepsOrder == ASSUME OInv, BrokerSends PROVE WayInv' /\ DoneInv' /\ HandoverInv'
<1> TypeOK /\ WayInv /\ DoneInv /\ HandoverInv
  BY DEF OInv, IInv
<1>1. PICK n \in DOMAIN Arrivals : n = sent + 1 /\ sent' = n
  BY ArrivalsAssumption DEF BrokerSends, TypeOK
<1>2. /\ DOMAIN wire' = 1..(Len(wire) + 1)
      /\ \A p \in DOMAIN wire : wire'[p] = wire[p]
      /\ wire'[Len(wire) + 1] = [kind |-> "message", of |-> Arrivals[n]]
      /\ DOMAIN wire = 1..Len(wire) /\ Len(wire) \in Nat
  BY <1>1 DEF BrokerSends, TypeOK
<1>3. UNCHANGED <<inbound, kafkaLog, failures, incoming>>
  BY DEF BrokerSends, LibraryStep, queueVars
<1>4. \A i \in DOMAIN Arrivals : Arrivals[i] = Arrivals[n] => i = n
  BY <1>1, ArrivalsAssumption
<1>5. \A i \in DOMAIN Arrivals, p \in DOMAIN wire' :
         InWire(p, i)' <=> IF p = Len(wire) + 1 THEN i = n ELSE InWire(p, i)
  BY <1>2, <1>4 DEF InWire
<1>6. \A i \in DOMAIN Arrivals, p \in DOMAIN inbound : InInbound(p, i)' <=> InInbound(p, i)
  BY <1>3 DEF InInbound
<1>7. DOMAIN Arrivals = 1..Len(Arrivals) /\ Len(Arrivals) \in Nat /\ sent \in Nat
  BY ArrivalsAssumption DEF TypeOK
<1>8. WayInv'
  BY <1>1, <1>2, <1>3, <1>5, <1>6, <1>7 DEF WayInv
<1>9. DoneInv'
  <2>1. \A m : Done(m)' <=> Done(m)
    BY <1>3 DEF Done, Logged
  <2>2. \A i \in 1..sent : OnTheWay(i) => OnTheWay(i)'
    BY <1>1, <1>2, <1>3, <1>5, <1>6, <1>7 DEF OnTheWay
  <2>3. OnTheWay(n)'
    BY <1>1, <1>2, <1>5 DEF OnTheWay
  <2> QED
    BY <1>1, <1>7, <2>1, <2>2, <2>3 DEF DoneInv
<1>10. HandoverInv'
  <2>1. \A i \in DOMAIN Arrivals : OnTheWay(i)' => OnTheWay(i) \/ i = n
    BY <1>2, <1>3, <1>5, <1>6 DEF OnTheWay
  <2>2. \A i \in DOMAIN Arrivals : i > sent' \/ OnTheWay(i)' => Arrivals[i] \in incoming'
    BY <1>1, <1>3, <1>7, <2>1 DEF HandoverInv
  <2>3. \A p \in DOMAIN wire' :
           wire'[p].kind = "message" => \E i \in DOMAIN Arrivals : InWire(p, i)'
    BY <1>1, <1>2, <1>5 DEF HandoverInv
  <2>4. \A p \in DOMAIN inbound' : \E i \in DOMAIN Arrivals : InInbound(p, i)'
    BY <1>3, <1>6 DEF HandoverInv
  <2> QED
    BY <2>2, <2>3, <2>4 DEF HandoverInv
<1> QED
  BY <1>8, <1>9, <1>10

\* An acknowledgement is no message.
LEMMA AckKeepsOrder ==
  ASSUME OInv, NEW t, BrokerAcks(t) PROVE WayInv' /\ DoneInv' /\ HandoverInv'
<1> TypeOK /\ WayInv /\ DoneInv /\ HandoverInv
  BY DEF OInv, IInv
<1>1. /\ DOMAIN wire' = 1..(Len(wire) + 1)
      /\ \A p \in DOMAIN wire : wire'[p] = wire[p]
      /\ wire'[Len(wire) + 1].kind = "ack"
      /\ DOMAIN wire = 1..Len(wire) /\ Len(wire) \in Nat
  BY DEF BrokerAcks, TypeOK
<1>2. UNCHANGED <<sent, inbound, kafkaLog, failures, incoming>>
  BY DEF BrokerAcks, LibraryStep, queueVars
<1>3. \A i \in DOMAIN Arrivals, p \in DOMAIN wire' :
         InWire(p, i)' <=> p # Len(wire) + 1 /\ InWire(p, i)
  BY <1>1 DEF InWire
<1>4. \A i \in DOMAIN Arrivals, p \in DOMAIN inbound : InInbound(p, i)' <=> InInbound(p, i)
  BY <1>2 DEF InInbound
<1>5. WayInv'
  BY <1>1, <1>2, <1>3, <1>4 DEF WayInv
<1>6. \A m : Done(m)' <=> Done(m)
  BY <1>2 DEF Done, Logged
<1>7. \A i \in DOMAIN Arrivals : OnTheWay(i)' <=> OnTheWay(i)
  BY <1>1, <1>2, <1>3, <1>4 DEF OnTheWay
<1>8. 1..sent \subseteq DOMAIN Arrivals
  BY ArrivalsAssumption DEF TypeOK
<1>9. DoneInv'
  BY <1>2, <1>6, <1>7, <1>8 DEF DoneInv
<1>10. HandoverInv'
  <2>1. \A p \in DOMAIN wire' :
           wire'[p].kind = "message" => \E i \in DOMAIN Arrivals : InWire(p, i)'
    BY <1>1, <1>3 DEF HandoverInv
  <2>2. \A p \in DOMAIN inbound' : \E i \in DOMAIN Arrivals : InInbound(p, i)'
    BY <1>2, <1>4 DEF HandoverInv
  <2> QED
    BY <1>2, <1>7, <2>1, <2>2 DEF HandoverInv
<1> QED
  BY <1>5, <1>9, <1>10

LEMMA ReadAckKeepsOrder == ASSUME OInv, ReadAck PROVE WayInv' /\ DoneInv' /\ HandoverInv'
<1> TypeOK /\ WayInv /\ DoneInv /\ HandoverInv
  BY DEF OInv, IInv
<1>1. /\ wire[1].kind = "ack"
      /\ DOMAIN wire = 1..Len(wire) /\ Len(wire) \in Nat
      /\ DOMAIN wire' = 1..(Len(wire) - 1)
      /\ \A p \in DOMAIN wire' : wire'[p] = wire[p + 1]
  BY DEF ReadAck, TypeOK
<1>2. UNCHANGED <<sent, inbound, kafkaLog, failures, incoming>>
  BY DEF ReadAck, LibraryStep, queueVars
<1>3. \A i \in DOMAIN Arrivals, p \in DOMAIN wire' : InWire(p, i)' <=> InWire(p + 1, i)
  BY <1>1 DEF InWire
<1>4. \A i \in DOMAIN Arrivals, p \in DOMAIN inbound : InInbound(p, i)' <=> InInbound(p, i)
  BY <1>2 DEF InInbound
<1>5. WayInv'
  BY <1>1, <1>2, <1>3, <1>4 DEF WayInv
<1>6. \A m : Done(m)' <=> Done(m)
  BY <1>2 DEF Done, Logged
<1>7. ASSUME NEW i \in DOMAIN Arrivals, OnTheWay(i) PROVE OnTheWay(i)'
  <2>1. CASE \E p \in DOMAIN inbound : InInbound(p, i)
    BY <1>2, <1>4, <2>1 DEF OnTheWay
  <2>2. ASSUME NEW p \in DOMAIN wire, InWire(p, i) PROVE OnTheWay(i)'
    <3>1. p # 1
      BY <1>1, <2>2 DEF InWire
    <3>2. p - 1 \in DOMAIN wire' /\ InWire(p - 1, i)'
      BY <1>1, <1>3, <2>2, <3>1
    <3> QED
      BY <3>2 DEF OnTheWay
  <2> QED
    BY <1>7, <2>1, <2>2 DEF OnTheWay
<1>8. 1..sent \subseteq DOMAIN Arrivals
  BY ArrivalsAssumption DEF TypeOK
<1>9. DoneInv'
  BY <1>2, <1>6, <1>7, <1>8 DEF DoneInv
<1>10. HandoverInv'
  <2>1. \A i \in DOMAIN Arrivals : OnTheWay(i)' => OnTheWay(i)
    BY <1>1, <1>2, <1>3, <1>4 DEF OnTheWay
  <2>2. \A p \in DOMAIN wire' :
           wire'[p].kind = "message" => \E i \in DOMAIN Arrivals : InWire(p, i)'
    BY <1>1, <1>3 DEF HandoverInv
  <2>3. \A p \in DOMAIN inbound' : \E i \in DOMAIN Arrivals : InInbound(p, i)'
    BY <1>2, <1>4 DEF HandoverInv
  <2> QED
    BY <1>2, <2>1, <2>2, <2>3 DEF HandoverInv
<1> QED
  BY <1>5, <1>9, <1>10

\* The first packet of the wire becomes the last message in the library.
LEMMA ReadKeepsOrder == ASSUME OInv, ReadMessage PROVE WayInv' /\ DoneInv' /\ HandoverInv'
<1> TypeOK /\ WayInv /\ DoneInv /\ HandoverInv
  BY DEF OInv, IInv
<1> DEFINE n == Len(inbound) + 1
<1>1. /\ wire[1].kind = "message" /\ 1 \in DOMAIN wire
      /\ DOMAIN wire = 1..Len(wire) /\ Len(wire) \in Nat
      /\ DOMAIN wire' = 1..(Len(wire) - 1)
      /\ \A p \in DOMAIN wire' : wire'[p] = wire[p + 1]
  BY DEF ReadMessage, TypeOK
<1>2. /\ DOMAIN inbound = 1..Len(inbound) /\ Len(inbound) \in Nat
      /\ DOMAIN inbound' = 1..n
      /\ \A p \in DOMAIN inbound : inbound'[p] = inbound[p]
      /\ inbound'[n] = wire[1].of
  BY DEF ReadMessage, TypeOK
<1>3. UNCHANGED <<sent, kafkaLog, failures, incoming>>
  BY DEF ReadMessage, LibraryStep, queueVars
<1>4. \A i \in DOMAIN Arrivals, p \in DOMAIN wire' : InWire(p, i)' <=> InWire(p + 1, i)
  BY <1>1 DEF InWire
<1>5. \A i \in DOMAIN Arrivals, p \in DOMAIN inbound' :
         InInbound(p, i)' <=> IF p = n THEN InWire(1, i) ELSE InInbound(p, i)
  BY <1>1, <1>2 DEF InInbound, InWire
<1>6. WayInv'
  <2>1. \A p \in DOMAIN wire' : p + 1 \in DOMAIN wire /\ 1 < p + 1 /\ p \in Nat
    BY <1>1
  <2>2. \A p \in DOMAIN inbound' : p \in DOMAIN inbound \/ p = n
    BY <1>2
  <2>3. \A p \in DOMAIN inbound : p \in Nat /\ p < n
    BY <1>2
  <2> HIDE DEF n
  <2>4. \A i, j \in DOMAIN Arrivals, p, q \in DOMAIN inbound' :
           p < q /\ InInbound(p, i)' /\ InInbound(q, j)' => i < j
    BY <1>1, <1>2, <1>5, <2>2, <2>3 DEF WayInv
  <2>5. \A i, j \in DOMAIN Arrivals, p, q \in DOMAIN wire' :
           p < q /\ InWire(p, i)' /\ InWire(q, j)' => i < j
    BY <1>4, <2>1 DEF WayInv
  <2>6. \A i, j \in DOMAIN Arrivals, p \in DOMAIN inbound', q \in DOMAIN wire' :
           InInbound(p, i)' /\ InWire(q, j)' => i < j
    BY <1>1, <1>4, <1>5, <2>1, <2>2, <2>3 DEF WayInv
  <2>7. \A i \in DOMAIN Arrivals :
           /\ \A p \in DOMAIN inbound' : InInbound(p, i)' => i <= sent'
           /\ \A p \in DOMAIN wire' : InWire(p, i)' => i <= sent'
    BY <1>1, <1>3, <1>4, <1>5, <2>1, <2>2 DEF WayInv
  <2> QED
    BY <2>4, <2>5, <2>6, <2>7 DEF WayInv
<1>7. \A m : Done(m)' <=> Done(m)
  BY <1>3 DEF Done, Logged
<1>8. ASSUME NEW i \in DOMAIN Arrivals, OnTheWay(i) PROVE OnTheWay(i)'
  <2>1. ASSUME NEW p \in DOMAIN inbound, InInbound(p, i) PROVE OnTheWay(i)'
    BY <1>2, <1>5, <2>1 DEF OnTheWay
  <2>2. ASSUME NEW p \in DOMAIN wire, InWire(p, i) PROVE OnTheWay(i)'
    <3>1. CASE p = 1
      BY <1>2, <1>5, <2>2, <3>1 DEF OnTheWay
    <3>2. CASE p # 1
      <4>1. p - 1 \in DOMAIN wire' /\ InWire(p - 1, i)'
        BY <1>1, <1>4, <2>2, <3>2
      <4> QED
        BY <4>1 DEF OnTheWay
    <3> QED
      BY <3>1, <3>2
  <2> QED
    BY <1>8, <2>1, <2>2 DEF OnTheWay
<1>9. 1..sent \subseteq DOMAIN Arrivals
  BY ArrivalsAssumption DEF TypeOK
<1>10. DoneInv'
  BY <1>3, <1>7, <1>8, <1>9 DEF DoneInv
<1>11. HandoverInv'
  <2>1. ASSUME NEW i \in DOMAIN Arrivals, OnTheWay(i)' PROVE OnTheWay(i)
    <3>1. ASSUME NEW p \in DOMAIN inbound', InInbound(p, i)' PROVE OnTheWay(i)
      <4>1. p = n => InWire(1, i)
        BY <1>5, <3>1
      <4>2. p # n => p \in DOMAIN inbound /\ InInbound(p, i)
        BY <1>2, <1>5, <3>1
      <4> QED
        BY <1>1, <4>1, <4>2 DEF OnTheWay
    <3>2. ASSUME NEW p \in DOMAIN wire', InWire(p, i)' PROVE OnTheWay(i)
      <4>1. p + 1 \in DOMAIN wire /\ InWire(p + 1, i)
        BY <1>1, <1>4, <3>2
      <4> QED
        BY <4>1 DEF OnTheWay
    <3> QED
      BY <2>1, <3>1, <3>2 DEF OnTheWay
  <2>2. \A p \in DOMAIN wire' :
           wire'[p].kind = "message" => \E i \in DOMAIN Arrivals : InWire(p, i)'
    BY <1>1, <1>4 DEF HandoverInv
  <2>3. \A p \in DOMAIN inbound' : \E i \in DOMAIN Arrivals : InInbound(p, i)'
    BY <1>1, <1>2, <1>5 DEF HandoverInv
  <2> QED
    BY <1>3, <2>1, <2>2, <2>3 DEF HandoverInv
<1> QED
  BY <1>6, <1>10, <1>11

LEMMA LogGrows ==
  ASSUME TypeOK, NEW m \in Messages, kafkaLog' = Append(kafkaLog, m)
  PROVE  \A x : Logged(x)' <=> Logged(x) \/ x = m
<1>1. /\ DOMAIN kafkaLog = 1..Len(kafkaLog) /\ Len(kafkaLog) \in Nat
      /\ DOMAIN kafkaLog' = 1..(Len(kafkaLog) + 1)
      /\ \A p \in DOMAIN kafkaLog : kafkaLog'[p] = kafkaLog[p]
      /\ kafkaLog'[Len(kafkaLog) + 1] = m
  BY DEF TypeOK
<1> QED
  BY <1>1 DEF Logged

LEMMA FailedSendLogs ==
  ASSUME TypeOK, NEW m \in Messages, FailedSend(m)
  PROVE  \A x : x # m => (Logged(x)' <=> Logged(x))
<1>1. CASE UNCHANGED kafkaLog
  BY <1>1 DEF Logged
<1>2. CASE kafkaLog' = Append(kafkaLog, m)
  BY <1>2, LogGrows
<1> QED
  BY <1>1, <1>2 DEF FailedSend

\* The message that is handled is the first one that is not done.
LEMMA HandleKeepsOrder ==
  ASSUME OInv, NEW m \in Messages, HandleMessage(m) PROVE WayInv' /\ DoneInv' /\ HandoverInv'
<1> TypeOK /\ FailedInv /\ WayInv /\ DoneInv /\ HandoverInv
  BY DEF OInv, IInv
<1>1. /\ inbound[1] = m /\ 1 \in DOMAIN inbound
      /\ DOMAIN inbound = 1..Len(inbound) /\ Len(inbound) \in Nat
      /\ DOMAIN inbound' = 1..(Len(inbound) - 1)
      /\ \A p \in DOMAIN inbound' : inbound'[p] = inbound[p + 1]
  BY DEF HandleMessage, TakeMessage, TypeOK
<1>2. UNCHANGED <<sent, wire>> /\ incoming' = incoming \ {m}
  BY DEF HandleMessage, TakeMessage
<1>3. \A i \in DOMAIN Arrivals, p \in DOMAIN inbound' :
         InInbound(p, i)' <=> InInbound(p + 1, i)
  BY <1>1 DEF InInbound
<1>4. \A i \in DOMAIN Arrivals, p \in DOMAIN wire : InWire(p, i)' <=> InWire(p, i)
  BY <1>2 DEF InWire
<1>5. WayInv'
  BY <1>1, <1>2, <1>3, <1>4 DEF WayInv
<1>6. \A x \in Messages : Done(x)' <=> Done(x) \/ x = m
  <2>1. CASE kafkaLog' = Append(kafkaLog, m) /\ UNCHANGED failures
    BY <2>1, LogGrows DEF Done
  <2>2. CASE failures' = [failures EXCEPT ![m] = @ + 1] /\ FailedSend(m)
    BY <2>2, FailedSendLogs DEF Done, FailedInv
  <2> QED
    BY <2>1, <2>2 DEF HandleMessage, WriteSucceeds, WriteFails
<1>7. ASSUME NEW i \in 1..sent PROVE Done(Arrivals[i])' \/ OnTheWay(i)'
  <2>1. i \in DOMAIN Arrivals /\ Arrivals[i] \in Messages
    BY ArrivalsAssumption DEF TypeOK
  <2>2. CASE Done(Arrivals[i])
    BY <1>6, <2>1, <2>2
  <2>3. ASSUME NEW p \in DOMAIN inbound, InInbound(p, i)
        PROVE  Done(Arrivals[i])' \/ OnTheWay(i)'
    <3>1. CASE p = 1
      BY <1>1, <1>6, <2>1, <2>3, <3>1 DEF InInbound
    <3>2. CASE p # 1
      <4>1. p - 1 \in DOMAIN inbound' /\ InInbound(p - 1, i)'
        BY <1>1, <1>3, <2>1, <2>3, <3>2
      <4> QED
        BY <4>1 DEF OnTheWay
    <3> QED
      BY <3>1, <3>2
  <2>4. ASSUME NEW p \in DOMAIN wire, InWire(p, i) PROVE OnTheWay(i)'
    BY <1>2, <1>4, <2>1, <2>4 DEF OnTheWay
  <2> QED
    BY <2>2, <2>3, <2>4 DEF DoneInv, OnTheWay
<1>8. ASSUME NEW i \in DOMAIN Arrivals, NEW j \in DOMAIN Arrivals, i < j, Done(Arrivals[j])'
      PROVE  Done(Arrivals[i])'
  <2>1. Arrivals[i] \in Messages /\ Arrivals[j] \in Messages
    BY ArrivalsAssumption
  <2>2. CASE Done(Arrivals[j])
    BY <1>6, <1>8, <2>1, <2>2 DEF DoneInv
  <2>3. CASE Arrivals[j] = m
    <3>1. InInbound(1, j)
      BY <1>1, <2>3 DEF InInbound
    <3>2. i \in 1..sent
      BY <1>1, <1>8, <3>1, ArrivalsAssumption DEF WayInv, TypeOK
    <3>3. ~OnTheWay(i)
      <4>1. ASSUME NEW p \in DOMAIN inbound, InInbound(p, i) PROVE FALSE
        <5>1. p # 1
          BY <1>8, <2>3, <4>1, <1>1, ArrivalsAssumption DEF InInbound
        <5> QED
          BY <1>1, <1>8, <3>1, <4>1, <5>1, ArrivalsAssumption DEF WayInv
      <4>2. ASSUME NEW p \in DOMAIN wire, InWire(p, i) PROVE FALSE
        BY <1>1, <1>8, <3>1, <4>2, ArrivalsAssumption DEF WayInv
      <4> QED
        BY <4>1, <4>2 DEF OnTheWay
    <3> QED
      BY <1>6, <2>1, <3>2, <3>3 DEF DoneInv
  <2> QED
    BY <1>6, <1>8, <2>1, <2>2, <2>3
<1>9. DoneInv'
  BY <1>2, <1>7, <1>8 DEF DoneInv
<1>10. HandoverInv'
  <2>1. PICK n \in DOMAIN Arrivals : InInbound(1, n)
    BY <1>1 DEF HandoverInv
  <2>2. Arrivals[n] = m /\ n <= sent
    BY <1>1, <2>1 DEF InInbound, WayInv
  <2>3. ASSUME NEW i \in DOMAIN Arrivals, i > sent \/ OnTheWay(i)'
        PROVE  Arrivals[i] \in incoming /\ i # n
    <3>1. CASE i > sent
      BY <2>2, <3>1, ArrivalsAssumption DEF HandoverInv, TypeOK
    <3>2. ASSUME NEW p \in DOMAIN inbound', InInbound(p, i)'
          PROVE  Arrivals[i] \in incoming /\ i # n
      <4>1. p + 1 \in DOMAIN inbound /\ 1 < p + 1 /\ InInbound(p + 1, i)
        BY <1>1, <1>3, <3>2
      <4>2. n < i
        BY <1>1, <2>1, <4>1 DEF WayInv
      <4> QED
        BY <4>1, <4>2, ArrivalsAssumption DEF HandoverInv, OnTheWay
    <3>3. ASSUME NEW p \in DOMAIN wire, InWire(p, i)
          PROVE  Arrivals[i] \in incoming /\ i # n
      <4>1. n < i
        BY <1>1, <2>1, <3>3 DEF WayInv
      <4> QED
        BY <3>3, <4>1, ArrivalsAssumption DEF HandoverInv, OnTheWay
    <3> QED
      BY <1>2, <1>4, <2>3, <3>1, <3>2, <3>3 DEF OnTheWay
  <2>4. \A i \in DOMAIN Arrivals : i > sent' \/ OnTheWay(i)' => Arrivals[i] \in incoming'
    BY <1>2, <2>2, <2>3, ArrivalsAssumption
  <2>5. \A p \in DOMAIN wire' :
           wire'[p].kind = "message" => \E i \in DOMAIN Arrivals : InWire(p, i)'
    BY <1>2, <1>4 DEF HandoverInv
  <2>6. \A p \in DOMAIN inbound' : \E i \in DOMAIN Arrivals : InInbound(p, i)'
    BY <1>1, <1>3 DEF HandoverInv
  <2> QED
    BY <2>4, <2>5, <2>6 DEF HandoverInv
<1> QED
  BY <1>5, <1>9, <1>10

\* Where the library is left alone, only a message that has failed is logged or fails.
LEMMA OthersKeepOrder ==
  ASSUME OInv, UNCHANGED <<sent, wire, inbound, incoming>>,
         \A m \in Messages : Done(m)' <=> Done(m)
  PROVE  WayInv' /\ DoneInv' /\ HandoverInv'
<1> TypeOK /\ WayInv /\ DoneInv /\ HandoverInv
  BY DEF OInv, IInv
<1>1. WayInv'
  BY DEF WayInv, InWire, InInbound
<1>2. \A i : OnTheWay(i)' <=> OnTheWay(i)
  BY DEF OnTheWay, InWire, InInbound
<1>3. \A i \in DOMAIN Arrivals : Arrivals[i] \in Messages
  BY ArrivalsAssumption
<1>4. 1..sent \subseteq DOMAIN Arrivals
  BY ArrivalsAssumption DEF TypeOK
<1>5. DoneInv'
  BY <1>2, <1>3, <1>4 DEF DoneInv
<1>6. HandoverInv'
  BY <1>2 DEF HandoverInv, InWire, InInbound
<1> QED
  BY <1>1, <1>5, <1>6

LEMMA RetryKeepsDone ==
  ASSUME OInv, RetrySucceeds \/ RetryFails \/ RetryStep
  PROVE  \A m \in Messages : Done(m)' <=> Done(m)
<1> TypeOK /\ FailedInv
  BY DEF OInv, IInv
<1>1. CASE RetrySucceeds
  <2>1. cur["retrier"] \in Messages /\ failures[cur["retrier"]] > 0
    BY <1>1 DEF RetrySucceeds, Queue!RetrySucceeds, FailedInv
  <2>2. kafkaLog' = Append(kafkaLog, cur["retrier"]) /\ UNCHANGED failures
    BY <1>1 DEF RetrySucceeds, Queue!RetrySucceeds
  <2> QED
    BY <2>1, <2>2, LogGrows DEF Done
<1>2. CASE RetryFails
  <2>1. cur["retrier"] \in Messages /\ failures[cur["retrier"]] > 0
    BY <1>2 DEF RetryFails, Queue!RetryFails, FailedInv
  <2>2. failures' = [failures EXCEPT ![cur["retrier"]] = @ + 1]
    BY <1>2 DEF RetryFails, Queue!RetryFails
  <2>3. FailedSend(cur["retrier"])
    BY <1>2 DEF RetryFails
  <2> QED
    BY <2>1, <2>2, <2>3, FailedSendLogs DEF Done, FailedInv
<1>3. CASE RetryStep
  <2>1. UNCHANGED <<kafkaLog, failures>>
    BY <1>3 DEF RetryStep, QueueStep, Queue!ReceiveTick, Queue!ReceiveStop, Queue!Snapshot,
                Queue!SkipRetry, Queue!BeginRetry, Queue!RemoveRetried, Queue!EndPass,
                Queue!history
  <2> QED
    BY <2>1 DEF Done, Logged
<1> QED
  BY <1>1, <1>2, <1>3

LEMMA StepKeepsOrder == ASSUME OInv, [Next]_vars PROVE WayInv' /\ DoneInv' /\ HandoverInv'
<1>1. CASE BrokerSends
  BY <1>1, SendKeepsOrder
<1>2. CASE Library
  <2>1. ASSUME NEW t, CutToken(t) PROVE WayInv' /\ DoneInv' /\ HandoverInv'
    <3>1. UNCHANGED <<sent, wire, inbound, kafkaLog, failures, incoming>>
      BY <2>1 DEF CutToken, LibraryStep, queueVars
    <3> QED
      BY <3>1, OthersKeepOrder DEF Done, Logged
  <2> QED
    BY <1>2, <2>1, AckKeepsOrder, ReadAckKeepsOrder, ReadKeepsOrder DEF Library
<1>3. ASSUME NEW m \in Messages, HandleMessage(m) PROVE WayInv' /\ DoneInv' /\ HandoverInv'
  BY <1>3, HandleKeepsOrder
<1>4. ASSUME NEW t, HandleFailedMessage(t) PROVE WayInv' /\ DoneInv' /\ HandoverInv'
  <2>1. UNCHANGED <<sent, wire, inbound, kafkaLog, failures, incoming>>
    BY <1>4 DEF HandleFailedMessage, SendToKafkaTopic, PublishDeadLetter, EndDeadLetter,
                QueueStep, queueVars, libraryVars, Queue!RecordFailure,
                Queue!SendToKafkaTopic, Queue!SendToMQTTTopic, Queue!history
  <2> QED
    BY <2>1, OthersKeepOrder DEF Done, Logged
<1>5. CASE RetrySucceeds \/ RetryFails \/ RetryStep
  <2>1. UNCHANGED <<sent, wire, inbound, incoming>>
    BY <1>5 DEF RetrySucceeds, RetryFails, RetryStep, QueueStep, libraryVars,
                Queue!RetrySucceeds, Queue!RetryFails, Queue!ReceiveTick,
                Queue!ReceiveStop, Queue!Snapshot, Queue!SkipRetry, Queue!BeginRetry,
                Queue!RemoveRetried, Queue!EndPass
  <2> QED
    BY <1>5, <2>1, RetryKeepsDone, OthersKeepOrder
<1>6. CASE Start \/ CallStop \/ Stop \/ Time \/ Rest \/ UNCHANGED vars
  <2>1. UNCHANGED <<sent, wire, inbound, kafkaLog>>
    BY <1>6 DEF Start, CallStart, ConnectClient, ConnectProducer, StartQueue, Subscribe,
                StartStep, CallStop, Stop, StopQueue, Disconnect, CloseProducer, Exit,
                StopStep, Time, QueueStep, Rest, vars, libraryVars
  <2>2. UNCHANGED <<failures, incoming>>
    <3>1. CASE Start
      BY <3>1 DEF Start, CallStart, ConnectClient, ConnectProducer, StartQueue, Subscribe,
                  queueVars, Queue!Start, Queue!history
    <3>2. CASE CallStop \/ Stop
      BY <3>2 DEF CallStop, Stop, StopQueue, Disconnect, CloseProducer, Exit, queueVars,
                  Queue!CloseStopChan, Queue!StopTicker, Queue!StopReturns, Queue!history
    <3>3. CASE Time \/ Rest \/ UNCHANGED vars
      BY <3>3 DEF Time, Queue!Tick, Queue!Elapse, Queue!history, Rest, vars, queueVars
    <3> QED
      BY <1>6, <3>1, <3>2, <3>3
  <2> QED
    BY <2>1, <2>2, OthersKeepOrder DEF Done, Logged
<1> QED
  BY <1>1, <1>2, <1>3, <1>4, <1>5, <1>6 DEF Next, Callback, Retrier

-----------------------------------------------------------------------------
(* The queue. *)

\* The message at the head of the library's was not handed over before, and the queue is
\* started, for a message was sent.
LEMMA FirstHandover ==
  ASSUME OInv, NEW m \in Messages, HandleMessage(m)
  PROVE  lifecycle # "created" /\ m \in incoming
<1> TypeOK /\ StartedInv /\ WayInv /\ HandoverInv
  BY DEF OInv, IInv
<1>1. inbound[1] = m /\ 1 \in DOMAIN inbound
  BY DEF HandleMessage, TakeMessage, TypeOK
<1>2. PICK i \in DOMAIN Arrivals : InInbound(1, i)
  BY <1>1 DEF HandoverInv
<1>3. i <= sent /\ OnTheWay(i) /\ Arrivals[i] = m
  BY <1>1, <1>2 DEF WayInv, OnTheWay, InInbound
<1>4. sent > 0
  BY <1>3, ArrivalsAssumption DEF TypeOK
<1> QED
  BY <1>3, <1>4 DEF StartedInv, HandoverInv

\* The callback is the forwarder of the queue.
LEMMA CallbackOfQueue ==
  ASSUME OInv, Callback PROVE Queue!Forwarder \/ UNCHANGED queueVars
<1>1. ASSUME NEW m \in Messages, HandleMessage(m) PROVE Queue!Forwarder
  <2>1. Queue!Forward(m)
    BY <1>1, FirstHandover
       DEF HandleMessage, TakeMessage, Queue!Forward, Queue!queue
  <2>2. Queue!ForwardSucceeds(m) \/ Queue!ForwardFails(m)
    BY <1>1, <2>1
       DEF HandleMessage, WriteSucceeds, WriteFails, Queue!ForwardSucceeds,
           Queue!ForwardFails, Queue!Goto
  <2> QED
    BY <2>2 DEF Queue!Forwarder
<1>2. CASE HandleFailedMessage("forwarder")
  BY <1>2, HandleFailedMessageOfQueue DEF Queue!Forwarder
<1> QED
  BY <1>1, <1>2 DEF Callback

LEMMA QueueStepOrStutter == ASSUME OInv, [Next]_vars PROVE [Queue!Next]_(Queue!vars)
<1>1. CASE CallStop \/ Rest \/ UNCHANGED vars
  <2>1. UNCHANGED queueVars
    BY <1>1 DEF CallStop, Rest, vars
  <2> QED
    BY <2>1, SameQueueVars
<1>2. CASE Start
  BY <1>2, StartStepOfQueue, SameQueueVars DEF Queue!Next
<1>3. CASE Stop
  BY <1>3, StopStepOfQueue, SameQueueVars DEF Queue!Next
<1>4. CASE BrokerSends \/ Library
  BY <1>4, LibraryStepOfQueue, SameQueueVars
<1>5. CASE Callback
  BY <1>5, CallbackOfQueue, SameQueueVars DEF Queue!Next
<1>6. CASE Retrier
  BY <1>6, RetrierOfQueue, SameQueueVars DEF Queue!Next
<1>7. CASE Time
  BY <1>7, TimeOfQueue DEF Queue!Next
<1> QED
  BY <1>1, <1>2, <1>3, <1>4, <1>5, <1>6, <1>7 DEF Next

LEMMA NextOInv == OInv /\ [Next]_vars => OInv'
<1> SUFFICES ASSUME OInv, [Next]_vars PROVE OInv'
  OBVIOUS
<1>1. [Queue!Next]_(Queue!vars)
  BY QueueStepOrStutter
<1>2. QueueInv' /\ FailedInv'
  BY <1>1, StepQueueInv, StepFailedInv DEF OInv, IInv
<1>3. TypeOK' /\ StopInv' /\ StartedInv'
  BY TypesKept, StopInvKept, StartedInvKept DEF OInv
<1> QED
  BY <1>2, <1>3, StepKeepsOrder DEF OInv, IInv

LEMMA Invariance == SafetySpec => []OInv
  BY InitOInv, NextOInv, PTL DEF SafetySpec

\* The bridge implements the queue: its forwarder is the callback, which is called for no
\* message twice and for none before Start has started the queue; its retrier is the
\* goroutine processRetries, and Start and Stop of the bridge call those of the queue.
THEOREM QueueImplemented == SafetySpec => KeepsQueue
<1>1. Init => Queue!Init
  BY DEF Init
<1>2. OInv /\ [Next]_vars => [Queue!Next]_(Queue!vars)
  BY QueueStepOrStutter
<1> QED
  BY <1>1, <1>2, Invariance, PTL DEF SafetySpec, KeepsQueue, Queue!SafetySpec

\* Every variable of the bridge keeps its type, and the library its room.
THEOREM TypeCorrect == SafetySpec => []TypeOK
<1>1. OInv => TypeOK
  BY DEF OInv, IInv
<1> QED
  BY <1>1, Invariance, PTL

\* An orderly Stop closes the client and the producer only when the retry goroutine has
\* ended or was never started (MQTTToKafkaBridge.Stop, DeadLetterQueue.Stop).
THEOREM RetrierOutlivesNothing == SafetySpec => []RetrierEndsFirst
<1>1. OInv => RetrierEndsFirst
  BY DEF OInv, IInv, QueueInv, StopInv, RetrierEndsFirst
<1> QED
  BY <1>1, Invariance, PTL

\* Kafka has the messages in the order of the broker, but for those that failed
\* (handleMQTTMessage, retryMessage).
THEOREM OrderKept == SafetySpec => []OnlyFailedAreOvertaken
<1>1. OInv => OnlyFailedAreOvertaken
  BY DEF OInv, DoneInv, Done, OnlyFailedAreOvertaken
<1> QED
  BY <1>1, Invariance, PTL

-----------------------------------------------------------------------------
(* The direction implements Direction. *)

LEMMA InitOfDirection == Init => Contract!Init
  BY DEF Init, Up, Contract!Init

LEMMA StartOfDirection ==
  ASSUME Start PROVE Contract!CallStart \/ Contract!EndStart \/ UNCHANGED Contract!vars
<1> USE DEF StartStep, Up, Contract!CallStart, Contract!EndStart, Contract!vars
<1>1. CASE CallStart
  BY <1>1 DEF CallStart
<1>2. CASE ConnectClient
  BY <1>2 DEF ConnectClient
<1>3. CASE ConnectProducer \/ StartQueue
  BY <1>3 DEF ConnectProducer, StartQueue
<1>4. CASE Subscribe
  BY <1>4 DEF Subscribe
<1> QED
  BY <1>1, <1>2, <1>3, <1>4 DEF Start

LEMMA StopOfDirection ==
  ASSUME TypeOK, CallStop \/ Stop
  PROVE  \/ Contract!CallStop \/ Contract!ReturnFromStop \/ Contract!Exit
         \/ UNCHANGED Contract!vars
<1> USE DEF StopStep, Up, Contract!Ended, Contract!vars
<1>1. CASE CallStop
  BY <1>1 DEF CallStop, Contract!CallStop, TypeOK
<1>2. CASE StopQueue \/ Disconnect
  BY <1>2 DEF StopQueue, Disconnect
<1>3. CASE CloseProducer
  BY <1>3 DEF CloseProducer, Contract!ReturnFromStop
<1>4. CASE Exit
  BY <1>4 DEF Exit, Contract!Exit
<1> QED
  BY <1>1, <1>2, <1>3, <1>4 DEF Stop

LEMMA StepOfDirection == IInv /\ [Next]_vars => [Contract!Next]_(Contract!vars)
<1> SUFFICES ASSUME IInv, [Next]_vars PROVE Contract!Next \/ UNCHANGED Contract!vars
  OBVIOUS
<1>1. CASE Start
  BY <1>1, StartOfDirection DEF Contract!Next
<1>2. CASE CallStop \/ Stop
  BY <1>2, StopOfDirection DEF IInv, Contract!Next
<1>3. CASE BrokerSends \/ Library \/ Callback \/ Retrier \/ Time \/ Rest \/ UNCHANGED vars
  BY <1>3, OthersLeaveStopAlone DEF bridgeVars, Up, Contract!vars
<1> QED
  BY <1>1, <1>2, <1>3 DEF Next

\* What Program builds on: Stop is called once and the process ends by itself only when
\* both calls have (the safety part of KeepsDirection; nothing panics here).
THEOREM DirectionKept == SafetySpec => Contract!Safety
<1>1. OInv => IInv
  BY DEF OInv
<1> QED
  BY <1>1, InitOfDirection, StepOfDirection, Invariance, PTL DEF SafetySpec, Contract!Safety

(***************************************************************************)
(* No message is lost between the broker and Kafka, and none has two       *)
(* outcomes.  The theorems about the queue hold of the queue inside the    *)
(* bridge, which implements it; what is left is that Kafka has exactly     *)
(* what the queue counts as delivered.                                     *)
(***************************************************************************)
QueueProofs == INSTANCE DeadLetterQueueContractProofs

\* The constants of the bridge are such as the queue assumes.
LEMMA QueueAssumptions ==
  /\ QueueProofs!MessagesAssumption
  /\ QueueProofs!KeyPartsAssumption
  /\ QueueProofs!MaxRetriesAssumption
  /\ QueueProofs!DeadLetterTopicsAssumption
  BY QueueAssumption
     DEF QueueProofs!MessagesAssumption, QueueProofs!KeyPartsAssumption,
         QueueProofs!MaxRetriesAssumption, QueueProofs!DeadLetterTopicsAssumption

\* The queue of the bridge and the one the theorems are about take the same steps.
LEMMA SameQueueInit == Queue!Init => QueueProofs!Init
  BY DEF Queue!Init, QueueProofs!Init, Queue!Keys, QueueProofs!Keys,
         Queue!createMessageKey, QueueProofs!createMessageKey, Queue!Threads,
         QueueProofs!Threads

LEMMA SameHandling ==
  ASSUME NEW t, Queue!HandleFailedMessage(t) PROVE QueueProofs!HandleFailedMessage(t)
<1> USE DEF QueueProofs!HandleFailedMessage, Queue!Goto, QueueProofs!Goto, Queue!queue,
            QueueProofs!queue, Queue!history, QueueProofs!history, Queue!MutexFree,
            QueueProofs!MutexFree
<1>1. CASE Queue!RecordFailure(t)
  BY <1>1 DEF Queue!RecordFailure, QueueProofs!RecordFailure, Queue!RecordFor,
         QueueProofs!RecordFor, Queue!createMessageKey, QueueProofs!createMessageKey,
         Queue!AttemptsAfterFailure, QueueProofs!AttemptsAfterFailure,
         Queue!LimitReached, QueueProofs!LimitReached, Queue!Resume, QueueProofs!Resume
<1>2. CASE Queue!SendToKafkaTopic(t) \/ Queue!SendToMQTTTopic(t)
  BY <1>2 DEF Queue!SendToKafkaTopic, QueueProofs!SendToKafkaTopic,
         Queue!SendToMQTTTopic, QueueProofs!SendToMQTTTopic, Queue!SendDeadLetter,
         QueueProofs!SendDeadLetter, Queue!RecordFor, QueueProofs!RecordFor,
         Queue!createMessageKey, QueueProofs!createMessageKey, Queue!Without,
         QueueProofs!Without, Queue!Resume, QueueProofs!Resume
<1> QED
  BY <1>1, <1>2 DEF Queue!HandleFailedMessage

LEMMA SameStep == Queue!Next => QueueProofs!Next
<1> SUFFICES ASSUME Queue!Next PROVE QueueProofs!Next
  OBVIOUS
<1> USE DEF Queue!Goto, QueueProofs!Goto, Queue!queue, QueueProofs!queue, Queue!history,
            QueueProofs!history, Queue!MutexFree, QueueProofs!MutexFree
<1>1. CASE Queue!Start \/ Queue!Stop \/ Queue!Tick \/ \E m \in Messages : Queue!Elapse(m)
  BY <1>1 DEF QueueProofs!Next, Queue!Start, QueueProofs!Start, Queue!Stop,
         QueueProofs!Stop, Queue!CloseStopChan, QueueProofs!CloseStopChan,
         Queue!StopTicker, QueueProofs!StopTicker, Queue!StopReturns,
         QueueProofs!StopReturns, Queue!Tick, QueueProofs!Tick, Queue!Elapse,
         QueueProofs!Elapse, Queue!Recorded, QueueProofs!Recorded, Queue!Tracked,
         QueueProofs!Tracked, Queue!RecordFor, QueueProofs!RecordFor,
         Queue!createMessageKey, QueueProofs!createMessageKey
<1>2. ASSUME NEW m \in Messages, Queue!ForwardSucceeds(m) \/ Queue!ForwardFails(m)
      PROVE  QueueProofs!Next
  BY <1>2 DEF QueueProofs!Next, QueueProofs!Forwarder, Queue!ForwardSucceeds,
         QueueProofs!ForwardSucceeds, Queue!ForwardFails, QueueProofs!ForwardFails,
         Queue!Forward, QueueProofs!Forward
<1>3. CASE Queue!HandleFailedMessage("forwarder") \/ Queue!HandleFailedMessage("retrier")
  BY <1>3, SameHandling DEF QueueProofs!Next, QueueProofs!Forwarder, QueueProofs!Retrier
<1>4. CASE Queue!ReceiveTick \/ Queue!ReceiveStop \/ Queue!EndPass
  BY <1>4 DEF QueueProofs!Next, QueueProofs!Retrier, Queue!ReceiveTick,
         QueueProofs!ReceiveTick, Queue!ReceiveStop, QueueProofs!ReceiveStop,
         Queue!EndPass, QueueProofs!EndPass
<1>5. CASE Queue!Snapshot \/ Queue!RemoveRetried
  BY <1>5 DEF QueueProofs!Next, QueueProofs!Retrier, Queue!Snapshot,
         QueueProofs!Snapshot, Queue!RemoveRetried, QueueProofs!RemoveRetried,
         Queue!Without, QueueProofs!Without, Queue!Recorded, QueueProofs!Recorded,
         Queue!Tracked, QueueProofs!Tracked, Queue!RecordFor, QueueProofs!RecordFor,
         Queue!createMessageKey, QueueProofs!createMessageKey
<1>6. ASSUME NEW m \in Messages, Queue!SkipRetry(m) \/ Queue!BeginRetry(m)
      PROVE  QueueProofs!Next
  BY <1>6 DEF QueueProofs!Next, QueueProofs!Retrier, Queue!SkipRetry,
         QueueProofs!SkipRetry, Queue!BeginRetry, QueueProofs!BeginRetry
<1>7. CASE Queue!RetrySucceeds \/ Queue!RetryFails
  BY <1>7 DEF QueueProofs!Next, QueueProofs!Retrier, Queue!RetrySucceeds,
         QueueProofs!RetrySucceeds, Queue!RetryFails, QueueProofs!RetryFails
<1>8. CASE Queue!Rest
  BY <1>8 DEF QueueProofs!Next, Queue!Rest, QueueProofs!Rest, Queue!vars, QueueProofs!vars
<1> QED
  BY <1>1, <1>2, <1>3, <1>4, <1>5, <1>6, <1>7, <1>8
     DEF Queue!Next, Queue!Forwarder, Queue!Retrier

LEMMA SameQueueVariables == QueueProofs!vars' = QueueProofs!vars <=> Queue!vars' = Queue!vars
  BY DEF Queue!vars, QueueProofs!vars, Queue!queue, QueueProofs!queue, Queue!history,
         QueueProofs!history

LEMMA QueueOfTheorems == SafetySpec => QueueProofs!SafetySpec
<1>1. Queue!Init => QueueProofs!Init
  BY SameQueueInit
<1>2. [Queue!Next]_(Queue!vars) => [QueueProofs!Next]_(QueueProofs!vars)
  BY SameStep, SameQueueVariables
<1> QED
  BY <1>1, <1>2, QueueImplemented, PTL
     DEF KeepsQueue, Queue!SafetySpec, QueueProofs!SafetySpec

\* What the theorems about the queue say of every state of the bridge.
LEMMA QueueTyped == SafetySpec => []QueueProofs!TypeOK
  BY QueueAssumptions, QueueOfTheorems, QueueProofs!TypeCorrect, PTL

LEMMA QueueForgetsNothing == SafetySpec => []QueueProofs!UInv
  BY QueueAssumptions, QueueOfTheorems, QueueProofs!OwnKeyInvariant, PTL

\* The messages with a key of their own are the same to the bridge and to the theorems.
LEMMA SameOwners == Queue!Owners = QueueProofs!Owners
  BY DEF Queue!Owners, QueueProofs!Owners

LEMMA DeadLettersOfQueue == SafetySpec => []QueueProofs!DeadLetterInv
  BY QueueAssumptions, QueueOfTheorems, QueueProofs!DeadLetterInvariant, PTL

\* Kafka has what the queue counts as delivered.
LogInv == \A m \in Messages : deliveries[m] > 0 => Logged(m)

\* A message is delivered only by a send that stores it.
LEMMA LogAndDeliveries ==
  ASSUME IInv, [Next]_vars
  PROVE  \/ UNCHANGED <<kafkaLog, deliveries>>
         \/ \E m \in Messages : FailedSend(m) /\ UNCHANGED deliveries
         \/ \E m \in Messages : /\ kafkaLog' = Append(kafkaLog, m)
                                /\ deliveries' = [deliveries EXCEPT ![m] = @ + 1]
<1>1. CASE Start \/ CallStop \/ Stop
  BY <1>1 DEF Start, CallStart, ConnectClient, ConnectProducer, StartQueue, Subscribe,
              StartStep, CallStop, Stop, StopQueue, Disconnect, CloseProducer, Exit,
              StopStep, Queue!Start, Queue!CloseStopChan, Queue!StopTicker,
              Queue!StopReturns, Queue!history, queueVars
<1>2. CASE BrokerSends \/ Library
  BY <1>2 DEF BrokerSends, Library, ReadMessage, ReadAck, BrokerAcks, CutToken, LibraryStep,
              queueVars
<1>3. ASSUME NEW m \in Messages, HandleMessage(m)
      PROVE  \/ FailedSend(m) /\ UNCHANGED deliveries
             \/ /\ kafkaLog' = Append(kafkaLog, m)
                /\ deliveries' = [deliveries EXCEPT ![m] = @ + 1]
  BY <1>3 DEF HandleMessage, WriteSucceeds, WriteFails
<1>4. ASSUME NEW t, HandleFailedMessage(t) PROVE UNCHANGED <<kafkaLog, deliveries>>
  BY <1>4 DEF HandleFailedMessage, SendToKafkaTopic, PublishDeadLetter, EndDeadLetter,
              QueueStep, queueVars, Queue!RecordFailure, Queue!SendToKafkaTopic,
              Queue!SendToMQTTTopic, Queue!history
<1>5. CASE RetryStep
  BY <1>5 DEF RetryStep, QueueStep, Queue!ReceiveTick, Queue!ReceiveStop, Queue!Snapshot,
              Queue!SkipRetry, Queue!BeginRetry, Queue!RemoveRetried, Queue!EndPass,
              Queue!history
<1>6. CASE RetrySucceeds
  BY <1>6 DEF RetrySucceeds, Queue!RetrySucceeds, IInv, QueueInv
<1>7. CASE RetryFails
  BY <1>7 DEF RetryFails, Queue!RetryFails, IInv, QueueInv
<1>8. CASE Time \/ Rest \/ UNCHANGED vars
  BY <1>8 DEF Time, QueueStep, Queue!Tick, Queue!Elapse, Queue!history, Rest, vars, queueVars
<1> QED
  BY <1>1, <1>2, <1>3, <1>4, <1>5, <1>6, <1>7, <1>8 DEF Next, Callback, Retrier

LEMMA LogInvKept ==
  ASSUME LogInv, IInv, QueueProofs!TypeOK, [Next]_vars PROVE LogInv'
<1>1. TypeOK /\ deliveries \in [Messages -> Nat]
  BY DEF IInv, QueueProofs!TypeOK
<1>2. ASSUME NEW x, Logged(x) PROVE Logged(x)'
  BY <1>1, <1>2, LogAndDeliveries, LogGrows DEF FailedSend, Logged
<1>3. CASE UNCHANGED deliveries
  BY <1>2, <1>3 DEF LogInv
<1>4. ASSUME NEW m \in Messages, kafkaLog' = Append(kafkaLog, m),
             deliveries' = [deliveries EXCEPT ![m] = @ + 1]
      PROVE  LogInv'
  <2>1. Logged(m)'
    BY <1>1, <1>4, LogGrows
  <2> QED
    BY <1>1, <1>2, <1>4, <2>1 DEF LogInv
<1> QED
  BY <1>3, <1>4, LogAndDeliveries

LEMMA LogIsDeliveries == SafetySpec => []LogInv
<1>1. Init => LogInv
  BY DEF Init, Queue!Init, LogInv
<1>2. LogInv /\ OInv /\ QueueProofs!TypeOK /\ [Next]_vars => LogInv'
  BY LogInvKept DEF OInv
<1> QED
  BY <1>1, <1>2, Invariance, QueueTyped, PTL DEF SafetySpec

\* What a step stores in Kafka is the message a thread sends.
LEMMA StoredIsSent ==
  ASSUME OInv, [Next]_vars, NEW m \in Messages, kafkaLog' = Append(kafkaLog, m)
  PROVE  \/ QueueProofs!Forward(m)
         \/ pc["retrier"] = "resend" /\ cur["retrier"] = m
<1> IInv
  BY DEF OInv
<1>1. kafkaLog' # kafkaLog
  BY DEF IInv, TypeOK
<1>2. ASSUME NEW x \in Messages, Append(kafkaLog, x) = Append(kafkaLog, m) PROVE x = m
  BY <1>2 DEF IInv, TypeOK
<1>3. ASSUME NEW x \in Messages, HandleMessage(x) PROVE QueueProofs!Forward(m)
  <2>1. x = m
    BY <1>1, <1>2, <1>3 DEF HandleMessage, WriteSucceeds, WriteFails, FailedSend
  <2> QED
    BY <1>3, <2>1, FirstHandover
       DEF HandleMessage, TakeMessage, QueueProofs!Forward, QueueProofs!queue
<1>4. CASE RetrySucceeds \/ RetryFails
  BY <1>1, <1>2, <1>4
     DEF RetrySucceeds, RetryFails, FailedSend, Queue!RetrySucceeds, Queue!RetryFails, IInv,
         QueueInv
<1>5. ASSUME NEW t, HandleFailedMessage(t) PROVE FALSE
  BY <1>1, <1>5
     DEF HandleFailedMessage, SendToKafkaTopic, PublishDeadLetter, EndDeadLetter, QueueStep
<1>6. ~(Start \/ CallStop \/ Stop \/ BrokerSends \/ Library \/ RetryStep \/ Time \/ Rest)
  BY <1>1
     DEF Start, CallStart, ConnectClient, ConnectProducer, StartQueue, Subscribe, StartStep,
         CallStop, Stop, StopQueue, Disconnect, CloseProducer, Exit, StopStep, BrokerSends,
         Library, ReadMessage, ReadAck, BrokerAcks, CutToken, LibraryStep, RetryStep, Time,
         QueueStep, Rest, vars
<1>7. vars' # vars
  BY <1>1 DEF vars
<1> QED
  BY <1>3, <1>4, <1>5, <1>6, <1>7 DEF Next, Callback, Retrier

\* Kafka gets no message again that a send has delivered, or that has reached the dead letter
\* topics and has a key of its own (handleMQTTMessage, retryMessage, HandleFailedMessage).
THEOREM OutcomeFinal == SafetySpec => OutcomeIsFinal
<1>1. ASSUME OInv, QueueProofs!IInv, QueueProofs!UInv, QueueProofs!DeadLetterInv, [Next]_vars,
             NEW m \in Messages, kafkaLog' = Append(kafkaLog, m)
      PROVE  Open(m)
  <2>1. deliveries[m] = 0
    BY <1>1, StoredIsSent
       DEF QueueProofs!IInv, QueueProofs!DeliveredInv, QueueProofs!Forward, QueueProofs!Fresh
  <2>2. ASSUME m \in Queue!Owners PROVE m \notin abandoned /\ deadLetters[m] = {}
    <3>1. m \notin abandoned /\ failures[m] < QueueProofs!AttemptLimit
      BY <1>1, <2>2, QueueAssumptions, StoredIsSent, SameOwners, QueueProofs!ReceivedMessage,
         QueueProofs!RetriedMessage
    <3> QED
      BY <1>1, <2>2, <3>1, QueueAssumptions, SameOwners, QueueProofs!SentIsNoDeadLetter
  <2> QED
    BY <2>1, <2>2 DEF Open
<1>2. /\ OInv /\ QueueProofs!IInv /\ QueueProofs!UInv /\ QueueProofs!DeadLetterInv
      /\ [Next]_vars
      => StoresOnlyOpen
  BY <1>1 DEF StoresOnlyOpen
<1>3. SafetySpec => []QueueProofs!IInv
  BY QueueAssumptions, QueueOfTheorems, QueueProofs!InvariantHolds, PTL
<1> QED
  BY <1>2, <1>3, Invariance, QueueForgetsNothing, DeadLettersOfQueue, PTL
     DEF SafetySpec, OutcomeIsFinal

\* Every message with a key of its own that the broker has sent is in the library, in
\* Kafka, in the queue or given up, at every moment of Start, Stop and the retries.
THEOREM NothingLost == SafetySpec => []EveryMessageAccounted
<1>1. OInv /\ LogInv /\ QueueProofs!TypeOK /\ QueueProofs!UInv => EveryMessageAccounted
  <2> SUFFICES ASSUME OInv, LogInv, QueueProofs!TypeOK, QueueProofs!UInv, NEW i \in 1..sent,
                      Arrivals[i] \in QueueProofs!Owners
               PROVE  LET m == Arrivals[i]
                      IN InLibrary(m) \/ Logged(m) \/ InQueue(m) \/ m \in abandoned
    BY SameOwners DEF EveryMessageAccounted
  <2> DEFINE m == Arrivals[i]
  <2>0. m \in QueueProofs!Owners
    OBVIOUS
  <2>1. m \in Messages
    BY ArrivalsAssumption DEF OInv, IInv, TypeOK
  <2>2. Done(m) \/ OnTheWay(i)
    BY DEF OInv, DoneInv
  <2>3. CASE OnTheWay(i)
    BY <2>3 DEF OnTheWay, InInbound, InWire, InLibrary
  <2>4. CASE failures[m] > 0
    <3>1. m \notin incoming
      BY <2>0, <2>1, <2>4 DEF QueueProofs!UInv, QueueProofs!PendingInv
    <3>2. deliveries[m] > 0 => Logged(m)
      BY <2>1 DEF LogInv
    <3>3. Queue!Tracked(m) <=> QueueProofs!Tracked(m)
      BY DEF Queue!Tracked, QueueProofs!Tracked, Queue!RecordFor, QueueProofs!RecordFor,
             Queue!createMessageKey, QueueProofs!createMessageKey
    <3> HIDE DEF m
    <3>4. \/ deliveries[m] > 0 \/ QueueProofs!Tracked(m) \/ m \in abandoned
          \/ \E t \in QueueProofs!Threads : QueueProofs!InHand(t, m)
      BY <2>0, <2>1, <3>1 DEF QueueProofs!UInv, QueueProofs!NoMessageLost,
             QueueProofs!Accounted
    <3>5. ASSUME NEW t \in QueueProofs!Threads, QueueProofs!InHand(t, m) PROVE InQueue(m)
      BY <3>5 DEF QueueProofs!InHand, QueueProofs!Threads, Queue!Threads, InQueue
    <3>6. QueueProofs!Tracked(m) => InQueue(m)
      BY <3>3 DEF InQueue
    <3>7. Logged(m) \/ InQueue(m) \/ m \in abandoned
      BY <3>2, <3>4, <3>5, <3>6
    <3> QED
      BY <3>7 DEF m
  <2> QED
    BY <2>2, <2>3, <2>4 DEF Done
<1> QED
  BY <1>1, Invariance, LogIsDeliveries, QueueTyped, QueueForgetsNothing, PTL
=============================================================================
