------------------------- MODULE KafkaProducerProofs -------------------------
(***************************************************************************)
(* For every set of callers and topics: the cache avoids duplicate         *)
(* requests, a caller writes again only after its topic went through       *)
(* creation, and the producer keeps SendContract.  What carries the proof  *)
(* is that the caller in creation holds topicMutex and that its topic is   *)
(* not cached before CreateTopics answers.                                 *)
(***************************************************************************)
EXTENDS KafkaProducerProperties, TLAPS

\* The caller between the lookup and the unlock holds the mutex.
MutexInv == \A c \in Callers : pc[c] \in InCreation => topicMutex = c

\* What is cached is what was asked for, and what is about to be asked for is neither.
CacheInv ==
    /\ \A t \in Topics : asked[t] <=> t \in createdTopics
    /\ \A c \in Callers : pc[c] \in {"dial", "create"} => topic[c] \notin createdTopics
    /\ \A c \in Callers : pc[c] \in {"propagate", "rewrite"} => topic[c] \in createdTopics

\* A caller inside a call has a topic and no answer yet.
CallInv ==
    \A c \in Callers :
        /\ pc[c] # "idle" => topic[c] \in Topics
        /\ pc[c] # "idle" <=> answer[c] = "open"

IInv == TypeOK /\ MutexInv /\ CacheInv /\ CallInv

LEMMA InitInvariant == Init => IInv
  BY DEF Init, IInv, TypeOK, InCreation, MutexInv, CacheInv, CallInv

\* A caller enters the producer.
LEMMA CallKeepsInvariant ==
  ASSUME IInv, NEW c \in Callers, WriteMessage(c) \/ WriteMessages(c) PROVE IInv'
<1>1. PICK label \in {"write", "writeBatch"} : Call(c, label)
  BY DEF WriteMessage, WriteMessages
<1> USE DEF Call, Goto
<1>2. PICK t \in Topics : topic' = [topic EXCEPT ![c] = t]
  BY <1>1
<1>3. TypeOK'
  BY <1>1, <1>2 DEF IInv, TypeOK
<1>4. MutexInv'
  BY <1>1 DEF IInv, TypeOK, MutexInv, InCreation
<1>5. CacheInv'
  BY <1>1, <1>2 DEF IInv, TypeOK, CacheInv
<1>6. CallInv'
  BY <1>1, <1>2 DEF IInv, TypeOK, CallInv
<1> QED
  BY <1>3, <1>4, <1>5, <1>6 DEF IInv

\* A write, the second one and that of a batch included.
LEMMA WriteKeepsInvariant ==
  ASSUME IInv, NEW c \in Callers, FirstWrite(c) \/ SecondWrite(c) \/ WriteBatch(c)
  PROVE  IInv'
<1> USE DEF FirstWrite, SecondWrite, WriteBatch, Goto, Return
<1>1. stored' = stored \/ stored' = [stored EXCEPT ![c] = TRUE]
  BY DEF Stores, Fails
<1>2. PICK label \in {"idle", "lock"} : pc' = [pc EXCEPT ![c] = label]
  OBVIOUS
<1>3. TypeOK'
  <2>1. stored' \in [Callers -> BOOLEAN]
    BY <1>1 DEF IInv, TypeOK
  <2>2. answer' \in [Callers -> {"idle", "open", "nil", "error"}]
    BY DEF IInv, TypeOK
  <2> QED
    BY <1>2, <2>1, <2>2 DEF IInv, TypeOK
<1>4. MutexInv'
  BY <1>2 DEF IInv, TypeOK, MutexInv, InCreation
<1>5. CacheInv'
  BY <1>2 DEF IInv, TypeOK, CacheInv
<1>6. CallInv'
  BY DEF IInv, TypeOK, CallInv
<1> QED
  BY <1>3, <1>4, <1>5, <1>6 DEF IInv

\* createTopicIfNeeded.  Only the holder of the mutex is in creation, so no other caller
\* is about to ask for the topic that is cached now.
LEMMA CreationKeepsInvariant ==
  ASSUME IInv, NEW c \in Callers,
         \/ LookUp(c) \/ DialFails(c) \/ DialSucceeds(c) \/ CreateTopic(c) \/ Propagated(c)
  PROVE  IInv'
<1> USE DEF Goto, Return, InCreation
<1>1. CASE LookUp(c)
  <2>1. \A d \in Callers : pc[d] \notin InCreation
    BY <1>1, CallersAssumption DEF LookUp, MutexFree, IInv, MutexInv
  <2>2. TypeOK'
    BY <1>1 DEF LookUp, IInv, TypeOK
  <2>3. MutexInv' /\ CacheInv' /\ CallInv'
    BY <1>1, <2>1 DEF LookUp, IInv, TypeOK, MutexInv, CacheInv, CallInv
  <2> QED
    BY <2>2, <2>3 DEF IInv
<1>2. CASE DialFails(c)
  <2>1. TypeOK'
    BY <1>2 DEF DialFails, IInv, TypeOK
  <2>2. MutexInv' /\ CacheInv' /\ CallInv'
    BY <1>2 DEF DialFails, IInv, TypeOK, MutexInv, CacheInv, CallInv
  <2> QED
    BY <2>1, <2>2 DEF IInv
<1>3. CASE DialSucceeds(c)
  BY <1>3 DEF DialSucceeds, IInv, TypeOK, MutexInv, CacheInv, CallInv
<1>4. CASE CreateTopic(c)
  <2>1. topic[c] \in Topics /\ topicMutex = c
    BY <1>4 DEF CreateTopic, IInv, CallInv, MutexInv
  <2>2. TypeOK'
    BY <1>4, <2>1 DEF CreateTopic, IInv, TypeOK
  <2>3. MutexInv' /\ CallInv'
    BY <1>4 DEF CreateTopic, IInv, TypeOK, MutexInv, CallInv
  <2>4. CacheInv'
    BY <1>4, <2>1 DEF CreateTopic, IInv, TypeOK, MutexInv, CacheInv
  <2> QED
    BY <2>2, <2>3, <2>4 DEF IInv
<1>5. CASE Propagated(c)
  <2>1. TypeOK'
    BY <1>5 DEF Propagated, IInv, TypeOK
  <2>2. MutexInv' /\ CacheInv' /\ CallInv'
    BY <1>5 DEF Propagated, IInv, TypeOK, MutexInv, CacheInv, CallInv
  <2> QED
    BY <2>1, <2>2 DEF IInv
<1> QED
  BY <1>1, <1>2, <1>3, <1>4, <1>5

LEMMA OthersKeepInvariant ==
  ASSUME IInv, TopicAppears \/ Close \/ UNCHANGED vars PROVE IInv'
<1>1. TypeOK'
  BY DEF TopicAppears, Close, vars, IInv, TypeOK
<1>2. MutexInv' /\ CacheInv' /\ CallInv'
  BY DEF TopicAppears, Close, vars, IInv, MutexInv, CacheInv, CallInv
<1> QED
  BY <1>1, <1>2 DEF IInv

LEMMA StepKeepsInvariant == IInv /\ [Next]_vars => IInv'
  BY CallKeepsInvariant, WriteKeepsInvariant, CreationKeepsInvariant, OthersKeepInvariant
     DEF Next, Continue

LEMMA Invariance == SafetySpec => []IInv
  BY InitInvariant, StepKeepsInvariant, PTL DEF SafetySpec

-----------------------------------------------------------------------------
\* Every variable of the producer keeps its type (NewProducer, WriteMessage, Close).
THEOREM TypeCorrect == SafetySpec => []TypeOK
  BY Invariance, PTL DEF IInv

\* No topic is asked for twice, whichever callers saw their write fail, and no write is
\* repeated before its topic was asked for (createTopicIfNeeded, WriteMessage).
THEOREM AskedOnce == SafetySpec => OneRequestBeforeRetry
<1>1. IInv => \A c \in Callers : OneRequest(c)
  BY DEF IInv, CallInv, CacheInv, CreateTopic, SecondWrite, OneRequest
<1> QED
  BY <1>1, Invariance, PTL DEF SafetySpec, OneRequestBeforeRetry

-----------------------------------------------------------------------------
(* The producer implements SendContract. *)

LEMMA InitOfContract == Init => Contract!Init
  BY DEF Init, Contract!Init

LEMMA CallOfContract ==
  ASSUME IInv, NEW c \in Callers, WriteMessage(c) \/ WriteMessages(c)
  PROVE  Contract!Begin(c)
  BY DEF WriteMessage, WriteMessages, Call, IInv, CallInv, Contract!Begin

LEMMA WriteOfContract ==
  ASSUME IInv, NEW c \in Callers, FirstWrite(c) \/ SecondWrite(c) \/ WriteBatch(c)
  PROVE  Contract!Store(c) \/ Contract!Answer(c) \/ UNCHANGED Contract!vars
<1>1. answer[c] = "open"
  BY DEF FirstWrite, SecondWrite, WriteBatch, IInv, CallInv
<1>2. CASE Stores(c) /\ Return(c, "nil")
  BY <1>1, <1>2 DEF Stores, Return, IInv, TypeOK, Contract!Answer
<1>3. CASE Fails(c) /\ Return(c, "error")
  BY <1>1, <1>3 DEF Fails, Stores, Return, Contract!Answer
<1>4. CASE Fails(c) /\ UNCHANGED answer
  BY <1>1, <1>4 DEF Fails, Stores, Contract!Store, Contract!vars
<1> QED
  BY <1>2, <1>3, <1>4 DEF FirstWrite, SecondWrite, WriteBatch

LEMMA StepOfContract == IInv /\ [Next]_vars => [Contract!Next]_(Contract!vars)
<1> SUFFICES ASSUME IInv, [Next]_vars PROVE Contract!Next \/ UNCHANGED Contract!vars
  OBVIOUS
<1>1. ASSUME NEW c \in Callers, WriteMessage(c) \/ WriteMessages(c) PROVE Contract!Next
  BY <1>1, CallOfContract DEF Contract!Next
<1>2. ASSUME NEW c \in Callers, FirstWrite(c) \/ SecondWrite(c) \/ WriteBatch(c)
      PROVE  Contract!Next \/ UNCHANGED Contract!vars
  BY <1>2, WriteOfContract DEF Contract!Next
<1>3. ASSUME NEW c \in Callers, DialFails(c) PROVE Contract!Next
  <2>1. answer[c] = "open"
    BY <1>3 DEF DialFails, IInv, CallInv
  <2> QED
    BY <1>3, <2>1 DEF DialFails, Return, Contract!Next, Contract!Answer
<1>4. ASSUME NEW c \in Callers,
             LookUp(c) \/ DialSucceeds(c) \/ CreateTopic(c) \/ Propagated(c)
      PROVE  UNCHANGED Contract!vars
  BY <1>4 DEF LookUp, DialSucceeds, CreateTopic, Propagated, Contract!vars
<1>5. CASE TopicAppears \/ Close \/ UNCHANGED vars
  BY <1>5 DEF TopicAppears, Close, vars, Contract!vars
<1> QED
  BY <1>1, <1>2, <1>3, <1>4, <1>5 DEF Next, Continue

\* WriteMessage and WriteMessages answer nil only when the message is in its topic.
THEOREM ContractImplemented == SafetySpec => KeepsSendContract
  BY InitOfContract, StepOfContract, Invariance, PTL
     DEF SafetySpec, KeepsSendContract, Contract!Spec
=============================================================================
