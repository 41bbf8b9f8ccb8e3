--------------------------- MODULE MessageFlowProofs ---------------------------
(***************************************************************************)
(* Whatever the topics, their mapping to Kafka and the bounds: a message   *)
(* keeps its topic and payload however often it goes round, and goes round *)
(* only where both directions meet.  The invariant says of each copy of a  *)
(* message what it owes to the place it is in: a delivery has a subscribed *)
(* topic, a record lies in the Kafka topic of its MQTT topic, and one that *)
(* has been forwarded and is back at the broker came from a Kafka topic    *)
(* that was read.                                                          *)
(***************************************************************************)
EXTENDS MessageFlowProperties, FiniteSetTheorems, SequenceTheorems, TLAPS

-----------------------------------------------------------------------------
(* The invariant. *)

TypeInv ==
    /\ filter \in Filters /\ retainOnly \in BOOLEAN
    /\ deadLetters \in SUBSET {"mqtt", "kafka"}
    /\ sent \in Seq(DeviceMessages) /\ Len(sent) <= MaxMessages
    /\ retained \in [Topics -> Messages \cup {NoMessage}]
    /\ session \in {"off", "subscribed", "lost"}
    /\ inbox \in Seq(Messages)
    /\ topic \in [KafkaTopics -> Seq(Records)]
    /\ reading \in KafkaTopics \cup {NoTopic} /\ position \in Nat
    /\ committed \in [KafkaTopics -> Nat \cup {-1}]
    /\ consumed \subseteq KafkaTopics
    /\ failed \in 0..MaxFailures /\ restarts \in 0..MaxRestarts

\* How often a message can have been forwarded when only retained ones are.
Trips == IF session = "off" THEN restarts ELSE restarts + 1

DeadLettersAreRead == DeadLetterKafka \in consumed \/ DeadLetterMQTT \in filter

\* Any copy of a message.
Copy(m) ==
    /\ m.id \in DOMAIN sent
    /\ m.failures <= failed
    /\ m.failures = 0 =>
          /\ m.topic = sent[m.id].topic
          /\ m.payload # sent[m.id].payload =>
                m.payload = "replaced" /\ sent[m.id].payload = "bytes"
          /\ m.retained => sent[m.id].retained
    /\ m.failures > 0 => ~m.retained
    /\ m.failures > 1 => DeadLettersAreRead
    /\ retainOnly => m.hops <= Trips

\* One the broker has taken.
Published(m) ==
    /\ Copy(m)
    /\ m.hops <= MaxHops
    /\ m.hops > 0 => Looping(m.topic)
    /\ m.failures > 0 /\ m.topic \in filter => DeadLetterMQTT \in filter

Delivered(m) ==
    /\ Published(m) /\ m.topic \in filter
    /\ retainOnly /\ m.retained => m.hops <= restarts

Kept(t, m) == Published(m) /\ m.topic = t /\ m.retained

Logged(k, m) ==
    /\ Copy(m)
    /\ m.topic = NoTopic => k = DeadLetterKafka /\ m.failures > 0 /\ m.hops = 0
    /\ m.topic # NoTopic =>
          /\ m.topic \in filter /\ KafkaTopicOf[m.topic] = k
          /\ m.hops > 1 => Looping(m.topic)
          /\ m.failures > 0 => DeadLetterMQTT \in filter

InboxInv    == \A m \in Range(inbox) : Delivered(m)
RetainedInv == \A t \in Topics : \A m \in {retained[t]} \ {NoMessage} : Kept(t, m)
LogInv      == \A k \in KafkaTopics : \A m \in Range(topic[k]) : Logged(k, m)
ReaderInv   == reading # NoTopic => reading \in consumed
SessionInv  == session = "off" => inbox = << >>
NewestInv   == \A t \in Topics :
                   retained[t] # NoMessage /\ retained[t].id # Newest(t) => Looping(t)

IInv == TypeInv /\ InboxInv /\ RetainedInv /\ LogInv /\ ReaderInv /\ SessionInv /\ NewestInv

-----------------------------------------------------------------------------
(* What every step only adds to: a copy stays as good as it was. *)

Grows ==
    /\ UNCHANGED configuration
    /\ DOMAIN sent \subseteq DOMAIN sent'
    /\ \A i \in DOMAIN sent : sent'[i] = sent[i]
    /\ failed <= failed' /\ failed' \in Nat
    /\ consumed \subseteq consumed'
    /\ restarts <= restarts' /\ restarts' \in Nat
    /\ Trips <= Trips' /\ Trips \in Nat /\ Trips' \in Nat

Copied == Messages \cup Records

LEMMA CopiedTypes ==
  ASSUME NEW m \in Copied
  PROVE  /\ m.topic \in Topics \cup {NoTopic} /\ m.retained \in BOOLEAN
         /\ m.payload \in {"text", "bytes", "replaced"}
         /\ m.id \in 1..MaxMessages /\ m.hops \in Nat /\ m.failures \in Nat
  BY BoundsAssumption DEF Copied, Messages, Records

LEMMA CopyStays ==
  ASSUME TypeInv, Grows, NEW m \in Copied, Copy(m)
  PROVE  Copy(m)'
<1>1. m.hops \in Nat /\ m.failures \in Nat
  BY CopiedTypes
<1>2. failed \in Nat
  BY BoundsAssumption DEF TypeInv
<1>3. DeadLettersAreRead => DeadLettersAreRead'
  BY DEF Grows, DeadLettersAreRead, configuration
<1>4. m.id \in DOMAIN sent' /\ sent'[m.id] = sent[m.id]
  BY DEF Grows, Copy
<1>5. m.failures <= failed'
  BY <1>1, <1>2 DEF Grows, Copy
<1>6. retainOnly' => m.hops <= Trips'
  BY <1>1 DEF Grows, Copy, configuration
<1> QED
  BY <1>3, <1>4, <1>5, <1>6 DEF Copy

LEMMA LoopingStays == ASSUME Grows, NEW t, Looping(t) PROVE Looping(t)'
  BY DEF Grows, Looping, configuration

LEMMA PublishedStays ==
  ASSUME TypeInv, Grows, NEW m \in Copied, Published(m)
  PROVE  Published(m)'
  BY CopyStays, LoopingStays DEF Published, Grows, configuration

LEMMA DeliveredStays ==
  ASSUME TypeInv, Grows, NEW m \in Copied, Delivered(m)
  PROVE  Delivered(m)'
<1>1. m.hops \in Nat
  BY CopiedTypes
<1>2. restarts \in Nat
  BY BoundsAssumption DEF TypeInv
<1> QED
  BY <1>1, <1>2, PublishedStays DEF Delivered, Grows, configuration

LEMMA LoggedStays ==
  ASSUME TypeInv, Grows, NEW m \in Copied, NEW k, Logged(k, m)
  PROVE  Logged(k, m)'
  BY CopyStays, LoopingStays DEF Logged, Grows, configuration

LEMMA AllGrow == ASSUME TypeInv, Next PROVE Grows
<1> USE BoundsAssumption DEF TypeInv, Trips
<1>0. restarts \in Nat /\ failed \in Nat
  OBVIOUS
<1>1. CASE DevicePublishes
  <2>1. PICK d \in DeviceMessages : sent' = Append(sent, d)
    BY <1>1 DEF DevicePublishes
  <2> QED
    BY <1>0, <1>1, <2>1 DEF DevicePublishes, Grows, consumer
<1>2. CASE Subscribe
  BY <1>0, <1>2 DEF Subscribe, Grows, consumer
<1>3. CASE LoseConnection
  BY <1>0, <1>3 DEF LoseConnection, Grows, consumer
<1>4. CASE HandleMQTTMessage
  <2>1. failed' = failed \/ failed' = failed + 1
    BY <1>4 DEF HandleMQTTMessage, Fails
  <2> QED
    BY <1>0, <1>4, <2>1 DEF HandleMQTTMessage, Grows, consumer
<1>5. CASE ConnectConsumer
  BY <1>0, <1>5 DEF ConnectConsumer, Grows
<1>6. CASE HandleKafkaMessage
  <2>1. failed' = failed \/ failed' = failed + 1
    BY <1>6 DEF HandleKafkaMessage, Fails
  <2> QED
    BY <1>0, <1>6, <2>1 DEF HandleKafkaMessage, Grows
<1>7. CASE Restart
  BY <1>0, <1>7 DEF Restart, Grows
<1> QED
  BY <1>1, <1>2, <1>3, <1>4, <1>5, <1>6, <1>7 DEF Next

-----------------------------------------------------------------------------
(* The broker takes a message. *)

LEMMA BrokerTypes ==
  ASSUME TypeInv, NEW queue \in Seq(Messages), NEW m \in Messages, Broker(queue, m)
  PROVE  /\ inbox' \in Seq(Messages)
         /\ retained' \in [Topics -> Messages \cup {NoMessage}]
         /\ \A n \in Range(inbox') :
               \/ n \in Range(queue)
               \/ /\ session = "subscribed" /\ m.topic \in filter
                  /\ n = [m EXCEPT !.retained = FALSE]
         /\ \A t \in Topics :
               \/ retained'[t] = retained[t]
               \/ m.topic = t /\ m.retained /\ retained'[t] = m
         /\ session # "subscribed" => inbox' = queue
<1>1. [m EXCEPT !.retained = FALSE] \in Messages
  BY DEF Messages
<1>2. m.topic \in Topics
  BY DEF Messages
<1> QED
  BY <1>1, <1>2 DEF Broker, TypeInv, Range

\* What is published may be delivered without its flag.
LEMMA FlagCleared ==
  ASSUME NEW m \in Messages, Published(m)', (m.topic \in filter)'
  PROVE  Delivered([m EXCEPT !.retained = FALSE])'
<1> DEFINE n == [m EXCEPT !.retained = FALSE]
<1>1. /\ n.topic = m.topic /\ n.payload = m.payload /\ n.id = m.id
      /\ n.hops = m.hops /\ n.failures = m.failures /\ n.retained = FALSE
  BY DEF Messages
<1> SUFFICES ASSUME NEW x, x = n PROVE Delivered(x)'
  OBVIOUS
<1>2. /\ x.topic = m.topic /\ x.payload = m.payload /\ x.id = m.id
      /\ x.hops = m.hops /\ x.failures = m.failures /\ x.retained = FALSE
  BY <1>1
<1> HIDE DEF n
<1>3. Copy(x)'
  BY <1>2 DEF Published, Copy
<1> QED
  BY <1>2, <1>3 DEF Published, Delivered

LEMMA BrokerStep ==
  ASSUME TypeInv, Grows, RetainedInv,
         NEW queue \in Seq(Messages), \A n \in Range(queue) : Delivered(n),
         NEW m \in Messages, Published(m)', Broker(queue, m)
  PROVE  InboxInv' /\ RetainedInv'
<1>1. ASSUME NEW n \in Range(inbox') PROVE Delivered(n)'
  <2>1. CASE n \in Range(queue)
    <3>1. n \in Copied
      BY <2>1 DEF Copied, Range
    <3> QED
      BY <2>1, <3>1, DeliveredStays
  <2>2. CASE m.topic \in filter /\ n = [m EXCEPT !.retained = FALSE]
    <3>1. (m.topic \in filter)'
      BY <2>2 DEF Grows, configuration
    <3> QED
      BY <2>2, <3>1, FlagCleared
  <2> QED
    BY <2>1, <2>2, BrokerTypes
<1>2. ASSUME NEW t \in Topics, NEW n \in {retained'[t]} \ {NoMessage} PROVE Kept(t, n)'
  <2>1. CASE n = retained[t]
    <3>1. Kept(t, n) /\ n \in Copied
      BY <1>2, <2>1 DEF RetainedInv, TypeInv, Copied
    <3> QED
      BY <3>1, PublishedStays DEF Kept
  <2>2. CASE m.topic = t /\ m.retained /\ n = m
    BY <2>2 DEF Kept
  <2> QED
    BY <2>1, <2>2, BrokerTypes
<1> QED
  BY <1>1, <1>2 DEF InboxInv, RetainedInv

-----------------------------------------------------------------------------
(* What a step leaves alone, and what it adds to Kafka. *)

LEMMA InboxStays ==
  ASSUME TypeInv, Grows, InboxInv, Range(inbox') \subseteq Range(inbox)
  PROVE  InboxInv'
<1>1. ASSUME NEW n \in Range(inbox') PROVE Delivered(n)'
  <2>1. n \in Range(inbox)
    OBVIOUS
  <2>2. n \in Copied
    BY <2>1 DEF TypeInv, Copied, Range
  <2> QED
    BY <2>1, <2>2, DeliveredStays DEF InboxInv
<1> QED
  BY <1>1 DEF InboxInv

LEMMA RetainedStays ==
  ASSUME TypeInv, Grows, RetainedInv, UNCHANGED retained
  PROVE  RetainedInv'
<1>1. ASSUME NEW t \in Topics, NEW n \in {retained'[t]} \ {NoMessage} PROVE Kept(t, n)'
  <2>1. Kept(t, n) /\ n \in Copied
    BY DEF RetainedInv, TypeInv, Copied
  <2> QED
    BY <2>1, PublishedStays DEF Kept
<1> QED
  BY <1>1 DEF RetainedInv

LEMMA LogStays ==
  ASSUME TypeInv, Grows, LogInv, UNCHANGED topic
  PROVE  LogInv'
<1>1. ASSUME NEW k \in KafkaTopics, NEW n \in Range(topic'[k]) PROVE Logged(k, n)'
  <2>1. Logged(k, n) /\ n \in Copied
    BY DEF LogInv, TypeInv, Copied, Range
  <2> QED
    BY <2>1, LoggedStays
<1> QED
  BY <1>1 DEF LogInv

LEMMA LogStep ==
  ASSUME TypeInv, Grows, LogInv, NEW k \in KafkaTopics, NEW r \in Records,
         Logged(k, r)', Log(k, r)
  PROVE  LogInv' /\ topic' \in [KafkaTopics -> Seq(Records)]
<1>1. topic' \in [KafkaTopics -> Seq(Records)]
  BY DEF Log, TypeInv
<1>2. ASSUME NEW l \in KafkaTopics, NEW n \in Range(topic'[l]) PROVE Logged(l, n)'
  <2>1. n \in Range(topic[l]) \/ (l = k /\ n = r)
    BY DEF Log, TypeInv, Range
  <2>2. CASE n \in Range(topic[l])
    <3>1. Logged(l, n) /\ n \in Copied
      BY <2>2 DEF LogInv, TypeInv, Copied, Range
    <3> QED
      BY <3>1, LoggedStays
  <2> QED
    BY <2>1, <2>2
<1> QED
  BY <1>1, <1>2 DEF LogInv

LEMMA NewestStays ==
  ASSUME TypeInv, Grows, NewestInv, UNCHANGED sent,
         \A t \in Topics : retained'[t] = retained[t] \/ Looping(t)'
  PROVE  NewestInv'
  BY LoopingStays DEF NewestInv, Newest

LEMMA FailsStep ==
  ASSUME TypeInv, Grows, RetainedInv, LogInv, NewestInv, UNCHANGED sent,
         NEW queue \in Seq(Messages), \A n \in Range(queue) : Delivered(n),
         NEW m \in Copied, Copy(m), m.failures > 0 => DeadLettersAreRead,
         Fails(queue, m)
  PROVE  /\ InboxInv' /\ RetainedInv' /\ LogInv' /\ NewestInv'
         /\ inbox' \in Seq(Messages)
         /\ retained' \in [Topics -> Messages \cup {NoMessage}]
         /\ topic' \in [KafkaTopics -> Seq(Records)]
         /\ failed' \in 0..MaxFailures
         /\ session # "subscribed" => inbox' = queue
<1>1. failed' = failed + 1 /\ failed' \in 0..MaxFailures
  BY BoundsAssumption DEF Fails, TypeInv
<1>2. m.failures \in Nat /\ m.failures + 1 <= failed' /\ m.id \in 1..MaxMessages
  BY <1>1, CopiedTypes DEF Copy, TypeInv
<1>3. (m.failures > 0 => DeadLettersAreRead)'
  BY DEF DeadLettersAreRead, Grows, configuration
<1>4. (m.id \in DOMAIN sent)'
  BY DEF Copy
<1>5. Trips' \in Nat
  BY DEF Grows
<1>6. ASSUME NEW t, NEW n, n = DeadLetter(m, t)
      PROVE  /\ Copy(n)' /\ n.topic = t /\ n.payload = "text" /\ n.retained = FALSE
             /\ n.id = m.id /\ n.hops = 0 /\ n.failures \in 1..MaxFailures
  <2>1. /\ n.topic = t /\ n.payload = "text" /\ n.retained = FALSE /\ n.id = m.id
        /\ n.hops = 0 /\ n.failures = m.failures + 1
    BY <1>6 DEF DeadLetter
  <2>2. n.failures \in 1..MaxFailures /\ n.failures <= failed'
    BY <1>1, <1>2, <2>1, BoundsAssumption
  <2>3. Copy(n)'
    BY <1>2, <1>3, <1>4, <1>5, <2>1, <2>2 DEF Copy
  <2> QED
    BY <2>1, <2>2, <2>3
<1>7. PICK targets \in SUBSET deadLetters :
        /\ IF "mqtt" \in targets THEN Broker(queue, DeadLetter(m, DeadLetterMQTT))
                                ELSE inbox' = queue /\ UNCHANGED retained
        /\ IF "kafka" \in targets THEN Log(DeadLetterKafka, DeadLetter(m, NoTopic))
                                 ELSE UNCHANGED topic
  BY DEF Fails
<1>8. /\ InboxInv' /\ RetainedInv' /\ NewestInv' /\ inbox' \in Seq(Messages)
      /\ retained' \in [Topics -> Messages \cup {NoMessage}]
      /\ session # "subscribed" => inbox' = queue
  <2>1. CASE "mqtt" \in targets
    <3>1. PICK n : n = DeadLetter(m, DeadLetterMQTT)
      OBVIOUS
    <3>2. n \in Messages
      BY <1>2, <3>1, TopicsAssumption, BoundsAssumption DEF Messages, DeadLetter, Copied, Copy,
        TypeInv, Fails
    <3>3. Published(n)'
      <4>1. Copy(n)' /\ n.topic = DeadLetterMQTT /\ n.hops = 0
        BY <1>6, <3>1
      <4> QED
        BY <4>1, BoundsAssumption DEF Published
    <3>4. Broker(queue, n) /\ ~n.retained
      BY <1>6, <1>7, <2>1, <3>1
    <3>5. InboxInv' /\ RetainedInv'
      BY <3>2, <3>3, <3>4, BrokerStep
    <3>6. UNCHANGED retained
      BY <3>4 DEF Broker
    <3>7. NewestInv'
      BY <3>6, NewestStays
    <3> QED
      BY <3>2, <3>4, <3>5, <3>7, BrokerTypes
  <2>2. CASE "mqtt" \notin targets
    <3>1. inbox' = queue /\ UNCHANGED retained
      BY <1>7, <2>2
    <3>2. RetainedInv' /\ NewestInv'
      BY <3>1, RetainedStays, NewestStays
    <3>3. ASSUME NEW n \in Range(inbox') PROVE Delivered(n)'
      <4>1. n \in Range(queue) /\ n \in Copied
        BY <3>1 DEF Copied, Range
      <4> QED
        BY <4>1, DeliveredStays
    <3> QED
      BY <3>1, <3>2, <3>3 DEF InboxInv, TypeInv
  <2> QED
    BY <2>1, <2>2
<1>9. LogInv' /\ topic' \in [KafkaTopics -> Seq(Records)]
  <2>1. CASE "kafka" \in targets
    <3>1. PICK n : n = DeadLetter(m, NoTopic)
      OBVIOUS
    <3>2. n \in Records
      BY <1>2, <3>1, BoundsAssumption DEF Records, DeadLetter, Copied, Copy, TypeInv, Fails
    <3>3. Logged(DeadLetterKafka, n)'
      <4>1. Copy(n)' /\ n.topic = NoTopic /\ n.hops = 0 /\ n.failures \in 1..MaxFailures
        BY <1>6, <3>1
      <4> QED
        BY <4>1, BoundsAssumption DEF Logged
    <3> QED
      BY <1>7, <2>1, <3>1, <3>2, <3>3, LogStep DEF KafkaTopics
  <2>2. CASE "kafka" \notin targets
    BY <1>7, <2>2, LogStays DEF TypeInv
  <2> QED
    BY <2>1, <2>2
<1> QED
  BY <1>1, <1>7, <1>8, <1>9

-----------------------------------------------------------------------------
(* Each action. *)

LEMMA DevicePublishesStep == ASSUME IInv, DevicePublishes PROVE IInv'
<1> USE DEF IInv
<1>0. Grows
  BY AllGrow DEF Next
<1>1. PICK d \in DeviceMessages :
        /\ sent' = Append(sent, d)
        /\ Broker(inbox, [topic |-> d.topic, payload |-> d.payload, retained |-> d.retained,
                          id |-> Len(sent) + 1, hops |-> 0, failures |-> 0])
  BY DEF DevicePublishes
<1>2. PICK m : m = [topic |-> d.topic, payload |-> d.payload, retained |-> d.retained,
                    id |-> Len(sent) + 1, hops |-> 0, failures |-> 0]
  OBVIOUS
<1>3. Broker(inbox, m)
  BY <1>1, <1>2
<1>4. /\ m.topic = d.topic /\ m.payload = d.payload /\ m.retained = d.retained
      /\ m.id = Len(sent) + 1 /\ m.hops = 0 /\ m.failures = 0
  BY <1>2
<1>5. Len(sent) + 1 \in 1..MaxMessages
  BY BoundsAssumption DEF DevicePublishes, TypeInv
<1>6. m \in Messages
  BY <1>2, <1>5, DeviceMessagesAssumption, BoundsAssumption DEF Messages
<1>7. sent' \in Seq(DeviceMessages) /\ Len(sent') = Len(sent) + 1
  BY <1>1 DEF TypeInv
<1>8. m.id \in DOMAIN sent' /\ sent'[m.id] = d
  BY <1>1, <1>4 DEF TypeInv
<1>9. Published(m)'
  <2>1. failed' \in Nat /\ Trips' \in Nat
    BY <1>0 DEF Grows
  <2>2. Copy(m)'
    BY <1>4, <1>8, <2>1 DEF Copy
  <2> QED
    BY <1>4, <2>2, BoundsAssumption DEF Published
<1>10. inbox \in Seq(Messages) /\ \A n \in Range(inbox) : Delivered(n)
  BY DEF TypeInv, InboxInv
<1>11. InboxInv' /\ RetainedInv'
  BY <1>0, <1>3, <1>6, <1>9, <1>10, BrokerStep
<1>12. LogInv'
  BY <1>0, LogStays DEF DevicePublishes
<1>13. TypeInv'
  BY <1>3, <1>5, <1>6, <1>7, <1>10, BrokerTypes
    DEF DevicePublishes, TypeInv, configuration, consumer
<1>14. SessionInv'
  BY <1>3, <1>6, <1>10, BrokerTypes DEF DevicePublishes, SessionInv
<1>15. ReaderInv'
  BY DEF DevicePublishes, ReaderInv, consumer
<1>16. NewestInv'
  <2> DEFINE own(t)  == {0} \cup {i \in DOMAIN sent : sent[i].topic = t /\ sent[i].retained}
             ownp(t) == {0} \cup {i \in DOMAIN sent' : sent'[i].topic = t /\ sent'[i].retained}
  <2>1. DOMAIN sent' = DOMAIN sent \cup {m.id} /\ m.id \notin DOMAIN sent
    BY <1>1, <1>4 DEF TypeInv
  <2>2. \A i \in DOMAIN sent : sent'[i] = sent[i] /\ i <= m.id
    BY <1>1, <1>4 DEF TypeInv
  <2>3. ASSUME NEW t \in Topics, retained'[t] # NoMessage, retained'[t].id # Newest(t)'
        PROVE  Looping(t)'
    <3>1. CASE m.topic = t /\ m.retained
      <4>1. retained'[t] = m
        BY <1>3, <1>6, <3>1 DEF Broker, TypeInv
      <4>2. m.id \in ownp(t)
        BY <1>4, <1>8, <3>1
      <4>3. \A j \in ownp(t) : j <= m.id
        BY <1>4, <2>1, <2>2 DEF TypeInv
      <4>4. ASSUME NEW i \in ownp(t), \A j \in ownp(t) : i >= j PROVE i = m.id
        <5>1. i \in Nat /\ m.id \in Nat
          BY <1>4, <1>7 DEF TypeInv
        <5> QED
          BY <4>2, <4>3, <4>4, <5>1
      <4>5. \A j \in ownp(t) : m.id >= j
        BY <1>4, <1>7, <4>3 DEF TypeInv
      <4>6. Max(ownp(t)) = m.id
        <5> HIDE DEF ownp
        <5> QED
          BY <4>2, <4>4, <4>5 DEF Max
      <4>7. Newest(t)' = m.id
        BY <4>6 DEF Newest
      <4> QED
        BY <2>3, <4>1, <4>7
    <3>2. CASE ~(m.topic = t /\ m.retained)
      <4>1. retained'[t] = retained[t]
        BY <1>3, <1>6, <3>2, BrokerTypes DEF TypeInv
      <4>2. ownp(t) = own(t)
        BY <1>4, <1>8, <2>1, <2>2, <3>2
      <4>3. Newest(t)' = Newest(t)
        BY <4>2 DEF Newest
      <4> QED
        BY <1>0, <2>3, <4>1, <4>3, LoopingStays DEF NewestInv
    <3> QED
      BY <3>1, <3>2
  <2> QED
    BY <2>3 DEF NewestInv
<1> QED
  BY <1>11, <1>12, <1>13, <1>14, <1>15, <1>16

LEMMA SubscribeStep == ASSUME IInv, Subscribe PROVE IInv'
<1> USE DEF IInv
<1>0. Grows
  BY AllGrow DEF Next
<1> DEFINE kept == {t \in filter : retained[t] # NoMessage}
<1>1. PICK order \in SetToSeqs(kept) :
        inbox' = inbox \o [i \in DOMAIN order |-> retained[order[i]]]
  BY DEF Subscribe
<1>2. filter \subseteq Topics
  BY TopicsAssumption DEF TypeInv
<1>3. Cardinality(kept) \in Nat
  BY <1>2, TopicsAssumption, FS_Subset, FS_CardinalityType
<1>4. order \in [1..Cardinality(kept) -> kept]
  BY DEF SetToSeqs
<1> DEFINE given == [i \in DOMAIN order |-> retained[order[i]]]
<1>5. given \in Seq(Messages) /\ Range(given) \subseteq {retained[t] : t \in kept}
  <2>1. \A t \in kept : retained[t] \in Messages
    BY <1>2 DEF TypeInv
  <2>2. DOMAIN order = 1..Cardinality(kept) /\ \A i \in DOMAIN order : order[i] \in kept
    BY <1>4
  <2> HIDE DEF kept
  <2>3. given \in [1..Cardinality(kept) -> Messages]
    BY <2>1, <2>2
  <2>4. given \in Seq(Messages)
    BY <1>3, <2>3
  <2> QED
    BY <2>2, <2>4 DEF Range
<1>6. inbox = << >>
  BY DEF Subscribe, SessionInv
<1>7. inbox' = given
  BY <1>1, <1>5, <1>6
<1> HIDE DEF given
<1>8. ASSUME NEW m \in Range(inbox') PROVE Delivered(m)'
  <2>1. PICK t \in kept : m = retained[t]
    BY <1>5, <1>7
  <2>2. Kept(t, m) /\ t \in filter /\ m \in Copied
    BY <1>2, <2>1 DEF RetainedInv, TypeInv, Copied
  <2>3. Delivered(m)
    BY <2>2 DEF Kept, Published, Copy, Trips, Delivered, Subscribe
  <2> QED
    BY <1>0, <2>2, <2>3, DeliveredStays
<1>9. InboxInv'
  BY <1>8 DEF InboxInv
<1>10. TypeInv'
  BY <1>5, <1>7 DEF Subscribe, TypeInv, configuration, consumer
<1>11. RetainedInv' /\ LogInv' /\ NewestInv'
  BY <1>0, RetainedStays, LogStays, NewestStays DEF Subscribe
<1>12. SessionInv' /\ ReaderInv'
  BY DEF Subscribe, SessionInv, ReaderInv, consumer
<1> QED
  BY <1>9, <1>10, <1>11, <1>12

LEMMA LoseConnectionStep == ASSUME IInv, LoseConnection PROVE IInv'
<1> USE DEF IInv
<1>0. Grows
  BY AllGrow DEF Next
<1>1. PICK n \in 0..Len(inbox) : inbox' = SubSeq(inbox, 1, n)
  BY DEF LoseConnection
<1>2. inbox' \in Seq(Messages) /\ Range(inbox') \subseteq Range(inbox)
  BY <1>1 DEF TypeInv, Range
<1>3. InboxInv'
  BY <1>0, <1>2, InboxStays
<1>4. TypeInv'
  BY <1>2 DEF LoseConnection, TypeInv, configuration, consumer
<1>5. RetainedInv' /\ LogInv' /\ NewestInv'
  BY <1>0, RetainedStays, LogStays, NewestStays DEF LoseConnection
<1>6. SessionInv' /\ ReaderInv'
  BY DEF LoseConnection, SessionInv, ReaderInv, consumer
<1> QED
  BY <1>3, <1>4, <1>5, <1>6

LEMMA HandleMQTTMessageStep == ASSUME IInv, HandleMQTTMessage PROVE IInv'
<1> USE DEF IInv
<1>0. Grows
  BY AllGrow DEF Next
<1>1. PICK m : m = Head(inbox)
  OBVIOUS
<1>2. inbox # << >> /\ inbox \in Seq(Messages)
  BY DEF HandleMQTTMessage, TypeInv
<1>3. m \in Messages /\ m \in Range(inbox) /\ m \in Copied
  BY <1>1, <1>2 DEF Range, Copied
<1>4. /\ Tail(inbox) \in Seq(Messages)
      /\ Range(Tail(inbox)) \subseteq Range(inbox)
  BY <1>2 DEF Range
<1>5. Delivered(m) /\ \A n \in Range(Tail(inbox)) : Delivered(n)
  BY <1>3, <1>4 DEF InboxInv
<1>6. session # "off"
  BY <1>2 DEF SessionInv
<1>7. SessionInv'
  BY <1>6 DEF SessionInv, HandleMQTTMessage
<1>8. ReaderInv'
  BY DEF ReaderInv, HandleMQTTMessage, consumer
<1>9. UNCHANGED sent
  BY DEF HandleMQTTMessage
<1>10. CASE ~Accepted(m) /\ inbox' = Tail(inbox) /\ UNCHANGED <<topic, retained, failed>>
  <2>1. InboxInv'
    BY <1>0, <1>4, <1>10, InboxStays
  <2>2. RetainedInv' /\ LogInv' /\ NewestInv'
    BY <1>0, <1>9, <1>10, RetainedStays, LogStays, NewestStays
  <2>3. TypeInv'
    BY <1>4, <1>10 DEF HandleMQTTMessage, TypeInv, configuration, consumer
  <2> QED
    BY <1>7, <1>8, <2>1, <2>2, <2>3
<1>11. CASE /\ Accepted(m) /\ Log(KafkaTopicOf[m.topic], ConvertMQTTMessage(m))
            /\ inbox' = Tail(inbox) /\ UNCHANGED <<retained, failed>>
  <2>1. PICK r : r = ConvertMQTTMessage(m)
    OBVIOUS
  <2>2. /\ r.topic = m.topic /\ r.retained = m.retained /\ r.id = m.id
        /\ r.hops = m.hops + 1 /\ r.failures = m.failures
        /\ r.payload = IF m.payload = "bytes" THEN "replaced" ELSE m.payload
    BY <1>3, <2>1 DEF ConvertMQTTMessage, Messages
  <2>3. m.hops \in Nat /\ m.hops <= MaxHops /\ m.topic \in Topics
    BY <1>3, <1>5, BoundsAssumption DEF Delivered, Published, Messages
  <2>4. r \in Records
    <3>1. m.hops + 1 \in 0..MaxHops + 1
      BY <2>3, BoundsAssumption
    <3>2. m.payload \in {"text", "bytes", "replaced"}
      BY <1>3 DEF Messages
    <3> QED
      BY <1>3, <2>1, <3>1, <3>2 DEF ConvertMQTTMessage, Messages, Records
  <2>5. Copy(r)
    <3>1. Copy(m) /\ (retainOnly => m.hops <= restarts) /\ restarts \in Nat
      BY <1>5, <1>11, BoundsAssumption DEF Delivered, Published, Accepted, TypeInv
    <3>2. retainOnly => r.hops <= Trips
      BY <1>6, <2>2, <2>3, <3>1 DEF Trips
    <3>3. m.payload \in {"text", "bytes", "replaced"}
      BY <1>3 DEF Messages
    <3> QED
      BY <2>2, <3>1, <3>2, <3>3 DEF Copy
  <2>6. m.topic \in filter /\ m.topic # NoTopic
    BY <1>5, <2>3, TopicsAssumption DEF Delivered
  <2>7. /\ m.hops > 0 => Looping(m.topic)
        /\ m.failures > 0 => DeadLetterMQTT \in filter
    BY <1>5 DEF Delivered, Published
  <2>8. Logged(KafkaTopicOf[m.topic], r)
    BY <2>2, <2>3, <2>5, <2>6, <2>7 DEF Logged
  <2>9. KafkaTopicOf[m.topic] \in KafkaTopics
    BY <2>3, TopicsAssumption DEF KafkaTopics, Range
  <2>10. Logged(KafkaTopicOf[m.topic], r)'
    BY <1>0, <2>4, <2>8, LoggedStays DEF Copied
  <2>11. LogInv' /\ topic' \in [KafkaTopics -> Seq(Records)]
    BY <1>0, <1>11, <2>1, <2>4, <2>9, <2>10, LogStep
  <2>12. InboxInv' /\ RetainedInv' /\ NewestInv'
    BY <1>0, <1>4, <1>9, <1>11, InboxStays, RetainedStays, NewestStays
  <2>13. TypeInv'
    BY <1>4, <1>11, <2>11 DEF HandleMQTTMessage, TypeInv, configuration, consumer
  <2> QED
    BY <1>7, <1>8, <2>11, <2>12, <2>13
<1>12. CASE Accepted(m) /\ Fails(Tail(inbox), m)
  <2>1. Copy(m) /\ (m.failures > 0 => DeadLettersAreRead)
    BY <1>5 DEF Delivered, Published, DeadLettersAreRead
  <2>2. /\ InboxInv' /\ RetainedInv' /\ LogInv' /\ NewestInv'
        /\ inbox' \in Seq(Messages)
        /\ retained' \in [Topics -> Messages \cup {NoMessage}]
        /\ topic' \in [KafkaTopics -> Seq(Records)]
        /\ failed' \in 0..MaxFailures
    BY <1>0, <1>3, <1>4, <1>5, <1>9, <1>12, <2>1, FailsStep
  <2>3. TypeInv'
    BY <2>2 DEF HandleMQTTMessage, TypeInv, configuration, consumer
  <2> QED
    BY <1>7, <1>8, <2>2, <2>3
<1> QED
  BY <1>1, <1>10, <1>11, <1>12 DEF HandleMQTTMessage

LEMMA ConnectConsumerStep == ASSUME IInv, ConnectConsumer PROVE IInv'
<1> USE DEF IInv
<1>0. Grows
  BY AllGrow DEF Next
<1>1. reading' \in KafkaTopics
  BY KafkaTopicsAssumption DEF ConnectConsumer, KafkaTopics
<1>2. position' \in Nat
  BY <1>1 DEF ConnectConsumer, TypeInv
<1>3. TypeInv'
  BY <1>1, <1>2 DEF ConnectConsumer, TypeInv, configuration, broker
<1>4. InboxInv' /\ RetainedInv' /\ LogInv' /\ NewestInv'
  BY <1>0, InboxStays, RetainedStays, LogStays, NewestStays DEF ConnectConsumer, broker
<1>5. SessionInv' /\ ReaderInv'
  BY DEF ConnectConsumer, SessionInv, ReaderInv, broker
<1> QED
  BY <1>3, <1>4, <1>5

LEMMA HandleKafkaMessageStep == ASSUME IInv, HandleKafkaMessage PROVE IInv'
<1> USE DEF IInv
<1>0. Grows
  BY AllGrow DEF Next
<1>1. PICK m : m = topic[reading][position + 1]
  OBVIOUS
<1>2. reading \in KafkaTopics /\ reading \in consumed
  BY DEF HandleKafkaMessage, Unread, TypeInv, ReaderInv
<1>3. m \in Range(topic[reading]) /\ m \in Records /\ m \in Copied
  BY <1>1, <1>2 DEF HandleKafkaMessage, Unread, TypeInv, Range, Copied
<1>4. Logged(reading, m)
  BY <1>2, <1>3 DEF LogInv
<1>5. inbox \in Seq(Messages) /\ \A n \in Range(inbox) : Delivered(n)
  BY DEF TypeInv, InboxInv
<1>6. committed' \in [KafkaTopics -> Nat \cup {-1}] /\ position' \in Nat
  <2>1. position' = position + 1 /\ position + 1 \in Nat
    BY DEF HandleKafkaMessage, TypeInv
  <2>2. committed' = [committed EXCEPT ![reading] = position + 1]
    BY DEF HandleKafkaMessage
  <2> QED
    BY <2>1, <2>2 DEF TypeInv
<1>7. ReaderInv'
  BY DEF HandleKafkaMessage, ReaderInv
<1>8. UNCHANGED <<sent, session, configuration>>
  BY DEF HandleKafkaMessage
<1>9. \/ UNCHANGED <<broker, topic, failed>>
      \/ /\ m.topic # NoTopic /\ ~shouldSkipTopic(m.topic) /\ m.hops < MaxHops
         /\ Broker(inbox, m) /\ UNCHANGED <<topic, failed>>
      \/ Fails(inbox, m)
  BY <1>1 DEF HandleKafkaMessage, ConvertKafkaMessage
<1>10. CASE UNCHANGED <<broker, topic, failed>>
  <2>1. TypeInv'
    BY <1>6, <1>10 DEF HandleKafkaMessage, TypeInv, configuration, broker
  <2>2. InboxInv' /\ RetainedInv' /\ LogInv' /\ NewestInv'
    BY <1>0, <1>8, <1>10, InboxStays, RetainedStays, LogStays, NewestStays DEF broker
  <2>3. SessionInv'
    BY <1>8, <1>10 DEF SessionInv, broker
  <2> QED
    BY <1>7, <2>1, <2>2, <2>3
<1>11. CASE /\ m.topic # NoTopic /\ ~shouldSkipTopic(m.topic) /\ m.hops < MaxHops
            /\ Broker(inbox, m) /\ UNCHANGED <<topic, failed>>
  <2>1. m \in Messages /\ m.hops \in Nat
    <3>1. m.topic \in Topics /\ m.hops \in 0..MaxHops + 1
      BY <1>3, <1>11 DEF Records
    <3> QED
      BY <1>3, <3>1 DEF Records, Messages
  <2>2. Looping(m.topic)
    BY <1>2, <1>4, <1>11 DEF Logged, Looping, shouldSkipTopic
  <2>3. Published(m)
    BY <1>4, <1>11, <2>1, <2>2, BoundsAssumption DEF Published, Logged
  <2>4. Published(m)'
    BY <1>0, <1>3, <2>3, PublishedStays
  <2>5. InboxInv' /\ RetainedInv'
    BY <1>0, <1>5, <1>11, <2>1, <2>4, BrokerStep
  <2>6. /\ inbox' \in Seq(Messages)
        /\ retained' \in [Topics -> Messages \cup {NoMessage}]
        /\ \A t \in Topics : retained'[t] = retained[t] \/ m.topic = t
        /\ session # "subscribed" => inbox' = inbox
    BY <1>5, <1>11, <2>1, BrokerTypes
  <2>7. Looping(m.topic)'
    BY <1>0, <2>2, LoopingStays
  <2>8. ASSUME NEW t \in Topics PROVE retained'[t] = retained[t] \/ Looping(t)'
    BY <2>6, <2>7
  <2>9. NewestInv'
    BY <1>0, <1>8, <2>8, NewestStays
  <2>10. LogInv'
    BY <1>0, <1>11, LogStays
  <2>11. TypeInv'
    BY <1>6, <1>11, <2>6 DEF HandleKafkaMessage, TypeInv, configuration
  <2>12. SessionInv'
    BY <1>8, <2>6 DEF SessionInv
  <2> QED
    BY <1>7, <2>5, <2>9, <2>10, <2>11, <2>12
<1>12. CASE Fails(inbox, m)
  <2>1. Copy(m) /\ (m.failures > 0 => DeadLettersAreRead)
    BY <1>2, <1>4 DEF Logged, DeadLettersAreRead
  <2>2. /\ InboxInv' /\ RetainedInv' /\ LogInv' /\ NewestInv'
        /\ inbox' \in Seq(Messages)
        /\ retained' \in [Topics -> Messages \cup {NoMessage}]
        /\ topic' \in [KafkaTopics -> Seq(Records)]
        /\ failed' \in 0..MaxFailures
        /\ session # "subscribed" => inbox' = inbox
    BY <1>0, <1>3, <1>5, <1>8, <1>12, <2>1, FailsStep
  <2>3. TypeInv'
    BY <1>6, <2>2 DEF HandleKafkaMessage, TypeInv, configuration
  <2>4. SessionInv'
    BY <1>8, <2>2 DEF SessionInv
  <2> QED
    BY <1>7, <2>2, <2>3, <2>4
<1> QED
  BY <1>9, <1>10, <1>11, <1>12

LEMMA RestartStep == ASSUME IInv, Restart PROVE IInv'
<1> USE DEF IInv
<1>0. Grows
  BY AllGrow DEF Next
<1>1. inbox' = << >> /\ Range(inbox') \subseteq Range(inbox)
  BY DEF Restart, Range
<1>2. InboxInv' /\ RetainedInv' /\ LogInv' /\ NewestInv'
  BY <1>0, <1>1, InboxStays, RetainedStays, LogStays, NewestStays DEF Restart
<1>3. TypeInv'
  BY BoundsAssumption DEF Restart, TypeInv, configuration
<1>4. SessionInv' /\ ReaderInv'
  BY DEF Restart, SessionInv, ReaderInv
<1> QED
  BY <1>2, <1>3, <1>4

LEMMA InitInvariant == Init => IInv
<1> SUFFICES ASSUME Init PROVE IInv
  OBVIOUS
<1>1. TypeInv
  BY BoundsAssumption DEF Init, TypeInv
<1>2. Range(<< >>) = {}
  BY DEF Range
<1>3. InboxInv /\ RetainedInv /\ LogInv /\ ReaderInv /\ SessionInv /\ NewestInv
  BY <1>2 DEF Init, InboxInv, RetainedInv, LogInv, ReaderInv, SessionInv, NewestInv
<1> QED
  BY <1>1, <1>3 DEF IInv

LEMMA StepKeepsInvariant == IInv /\ [Next]_vars => IInv'
<1> SUFFICES ASSUME IInv, [Next]_vars PROVE IInv'
  OBVIOUS
<1>1. CASE UNCHANGED vars
  <2>1. TypeInv'
    BY <1>1 DEF IInv, TypeInv, vars, configuration, broker, consumer
  <2>2. Grows
    BY <1>1, BoundsAssumption
      DEF IInv, TypeInv, Grows, Trips, vars, configuration, broker, consumer
  <2>3. InboxInv' /\ RetainedInv' /\ LogInv' /\ NewestInv'
    BY <1>1, <2>2, InboxStays, RetainedStays, LogStays, NewestStays DEF IInv, vars, broker
  <2>4. ReaderInv' /\ SessionInv'
    BY <1>1 DEF IInv, ReaderInv, SessionInv, vars, broker, consumer
  <2> QED
    BY <2>1, <2>3, <2>4 DEF IInv
<1> QED
  BY <1>1, DevicePublishesStep, SubscribeStep, LoseConnectionStep, HandleMQTTMessageStep,
    ConnectConsumerStep, HandleKafkaMessageStep, RestartStep DEF Next

LEMMA Invariance == SafetySpec => []IInv
  BY InitInvariant, StepKeepsInvariant, PTL DEF SafetySpec

-----------------------------------------------------------------------------
\* Every variable keeps its type, and only text is written to Kafka (ConvertMQTTMessage).
THEOREM TypeCorrect == SafetySpec => []TypeOK
<1>1. IInv => TypeOK
  BY DEF IInv, TypeInv, TypeOK, Range
<1> QED
  BY <1>1, Invariance, PTL

\* What holds of every copy, wherever it is.
LEMMA CopiesInv == IInv => \A m \in Copies : Copy(m)
<1> SUFFICES ASSUME IInv, NEW m \in Copies PROVE Copy(m)
  OBVIOUS
<1>1. CASE m \in Range(inbox)
  BY <1>1 DEF IInv, InboxInv, Delivered, Published
<1>2. CASE m \in Range(retained) \ {NoMessage}
  <2>1. PICK t \in Topics : m = retained[t]
    BY <1>2 DEF Range, IInv, TypeInv
  <2> QED
    BY <1>2, <2>1 DEF IInv, RetainedInv, Kept, Published
<1>3. CASE m \in UNION {Range(topic[k]) : k \in KafkaTopics}
  BY <1>3 DEF IInv, LogInv, Logged
<1> QED
  BY <1>1, <1>2, <1>3 DEF Copies

\* However often a message goes round, both conversions keep what its device gave it.
THEOREM RoundTripKept == SafetySpec => []RoundTrip
<1>1. IInv => RoundTrip
  BY CopiesInv DEF Copy, RoundTrip
<1> QED
  BY <1>1, Invariance, PTL

\* Messages, old retained values and dead letters go round only where both directions meet
\* (shouldSkipTopic, discoverKafkaTopics, onMessage, sendToDeadLetterQueue).
THEOREM LoopsAreExpected == SafetySpec => []LoopsOnlyWhereExpected
<1>1. ASSUME IInv PROVE LoopsOnlyWhereExpected
  <2>1. ASSUME NEW m \in Copies, m.hops > 1 PROVE Looping(m.topic)
    <3>1. CASE m \in Range(inbox)
      <4>1. m \in Copied /\ Delivered(m)
        BY <1>1, <3>1 DEF IInv, TypeInv, InboxInv, Copied, Range
      <4> QED
        BY <2>1, <4>1, CopiedTypes DEF Delivered, Published
    <3>2. CASE m \in Range(retained) \ {NoMessage}
      <4>1. PICK t \in Topics : m = retained[t]
        BY <1>1, <3>2 DEF Range, IInv, TypeInv
      <4>2. m \in Copied /\ Published(m)
        BY <1>1, <3>2, <4>1 DEF IInv, TypeInv, RetainedInv, Kept, Copied
      <4> QED
        BY <2>1, <4>2, CopiedTypes DEF Published
    <3>3. CASE m \in UNION {Range(topic[k]) : k \in KafkaTopics}
      <4>1. PICK k \in KafkaTopics : Logged(k, m)
        BY <1>1, <3>3 DEF IInv, LogInv
      <4> QED
        BY <2>1, <4>1 DEF Logged
    <3> QED
      BY <3>1, <3>2, <3>3 DEF Copies
  <2>2. Trips <= restarts + 1 /\ Trips \in Nat /\ restarts \in Nat
    BY <1>1, BoundsAssumption DEF IInv, TypeInv, Trips
  <2>3. ASSUME NEW m \in Copies, retainOnly PROVE m.hops <= restarts + 1
    <3>1. m.hops <= Trips
      BY <1>1, <2>3, CopiesInv DEF Copy
    <3>2. m \in Copied
      BY <1>1 DEF Copies, IInv, TypeInv, Copied, Range
    <3> QED
      BY <2>2, <3>1, <3>2, CopiedTypes
  <2>4. ASSUME NEW m \in Copies, m.failures > 1
        PROVE  DeadLetterKafka \in consumed \/ DeadLetterMQTT \in filter
    BY <1>1, <2>4, CopiesInv DEF Copy, DeadLettersAreRead
  <2> QED
    BY <1>1, <2>1, <2>3, <2>4 DEF LoopsOnlyWhereExpected, IInv, NewestInv
<1> QED
  BY <1>1, Invariance, PTL
=============================================================================
