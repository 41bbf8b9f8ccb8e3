----------------------- MODULE KafkaToMQTTBridgeProofs -----------------------
(***************************************************************************)
(* For every partition, every kind of message in it, every capacity of     *)
(* errorChan and any number of kills: what the Kafka to MQTT direction     *)
(* publishes, loses and takes down.  What carries the proof is that the    *)
(* message in hand is the last one committed, that everything the reader   *)
(* has passed since the group began is settled or excused, and that an     *)
(* orderly Stop finds the goroutine it waits for.  The direction           *)
(* implements Direction, provided that no goroutine gets stuck:            *)
(* NeverStuck, which is about ENABLED and is left to TLC.                  *)
(***************************************************************************)
EXTENDS KafkaToMQTTBridgeProperties, TLAPS

\* What Start has made, and the goroutine it spawned.
StartInv ==
    /\ bridge.wg = IF bridge.loop \in {"none", "done"} THEN 0 ELSE 1
    /\ bridge.loop # "none" <=> bridge.start = "returned"
    /\ bridge.cancel <=> bridge.start \in {"spawn", "returned"}
    /\ deadLetterEnabled /\ bridge.start \in {"setCancel", "spawn", "returned"} =>
          bridge.queue # "nil"
    /\ bridge.start \in {"connectClient", "startQueue", "setCancel", "spawn", "returned"} =>
          bridge.reader # "nil"
    /\ bridge.start \in {"startQueue", "setCancel", "spawn", "returned"} =>
          bridge.client # "nil"

\* What Stop has taken down, and what an orderly one may rely on.
StopInv ==
    /\ bridge.stop = "idle" => ~orderly
    /\ bridge.queue = "stopped" \/ bridge.reader = "closed" \/ bridge.client = "disconnected"
          => bridge.stop \notin {"idle", "wait", "stopQueue"}
    /\ bridge.chan = "closed" => bridge.stop = "returned"
    /\ orderly => bridge.start \in {"returned", "failed"}
    /\ orderly /\ bridge.stop # "wait" => bridge.loop \in {"none", "done"}
    /\ orderly /\ bridge.stop = "wait" /\ bridge.loop # "none" => bridge.cancelled

\* What the reader has passed since the group began is settled or excused, and what was
\* published is behind it and was committed.
OffsetsInv ==
    /\ committed <= bridge.position
    /\ joinedAt <= bridge.position
    /\ committed # 0 => joinedAt < committed
    /\ bridge.inHand # 0 <=> bridge.loop = "handle"
    /\ bridge.inHand # 0 => bridge.inHand = committed
    /\ bridge.inHand # 0 => bridge.inHand = bridge.position
    /\ process = "killed" => bridge.inHand \in excused \cup {0}
    /\ \A o \in joinedAt + 1..bridge.position : o \in settled \cup excused \/ o = bridge.inHand
    /\ \A o \in Offsets :
          published[o] # 0 => published[o] = 1 /\ o <= committed /\ o # bridge.inHand

IInv == TypeOK /\ StartInv /\ StopInv /\ OffsetsInv

LEMMA FreshMemoryType == ASSUME NEW p \in 0..LastOffset PROVE FreshMemory(p) \in Memory
<1>1. 0 \in 0..LastOffset /\ 0 \in 0..ErrorCapacity
  BY LastOffsetAssumption, ErrorCapacityAssumption
<1> QED
  BY <1>1 DEF FreshMemory, Memory

LEMMA InitInvariant == Init => IInv
<1> SUFFICES ASSUME Init PROVE IInv
  OBVIOUS
<1>1. 0 \in 0..LastOffset /\ 0 \in 0..MaxKills
  BY LastOffsetAssumption, MaxKillsAssumption
<1>2. TypeOK
  BY <1>1, FreshMemoryType DEF Init, TypeOK
<1>3. StartInv /\ StopInv
  BY DEF Init, FreshMemory, StartInv, StopInv
<1>4. OffsetsInv
  BY DEF Init, FreshMemory, OffsetsInv, Offsets
<1> QED
  BY <1>2, <1>3, <1>4 DEF IInv

LEMMA FieldsOfMemory ==
  ASSUME NEW m \in Memory
  PROVE  /\ \A x \in {"wait", "stopQueue", "closeReader",
                      "disconnect", "closeChan", "returned"} : [m EXCEPT !.stop = x] \in Memory
         /\ \A x \in {"nil", "running", "stopped"} : [m EXCEPT !.queue = x] \in Memory
         /\ \A x \in {"nil", "connected", "disconnected"} : [m EXCEPT !.client = x] \in Memory
         /\ \A x \in {"open", "closed"} : [m EXCEPT !.chan = x] \in Memory
         /\ [m EXCEPT !.start = "setCancel"] \in Memory
  BY DEF Memory

\* What each action does to the memory of the process.
LEMMA StartKeepsMemory == ASSUME IInv, Start PROVE bridge' \in Memory
<1> bridge \in Memory
  BY DEF IInv, TypeOK
<1> USE DEF Memory, StartStep
<1>1. CASE CallStart
  BY <1>1 DEF CallStart
<1>2. CASE ConnectConsumer
  <2>1. CASE bridge' = [bridge EXCEPT !.start = "connectClient", !.reader = "joining"]
    BY <2>1
  <2>2. CASE bridge' = [bridge EXCEPT !.start = "failed"]
    BY <2>2
  <2> QED
    BY <1>2, <2>1, <2>2 DEF ConnectConsumer
<1>3. CASE ConnectClient
  <2>1. CASE bridge' = [bridge EXCEPT !.start = "startQueue", !.client = "connected"]
    BY <2>1
  <2>2. CASE bridge' = [bridge EXCEPT !.start = "failed"]
    BY <2>2
  <2> QED
    BY <1>3, <2>1, <2>2 DEF ConnectClient
<1>4. CASE StartQueue
  <2>1. CASE bridge' = [bridge EXCEPT !.start = "setCancel", !.queue = "running"]
    <3> DEFINE m == [bridge EXCEPT !.start = "setCancel"]
    <3>1. bridge' = [m EXCEPT !.queue = "running"]
      BY <2>1
    <3> HIDE DEF Memory
    <3>2. m \in Memory
      BY FieldsOfMemory
    <3> HIDE DEF m
    <3> QED
      BY <3>1, <3>2, FieldsOfMemory
  <2>2. CASE bridge' = [bridge EXCEPT !.start = "failed"]
    BY <2>2
  <2>3. CASE bridge' = [bridge EXCEPT !.start = "setCancel"]
    BY <2>3
  <2> QED
    BY <1>4, <2>1, <2>2, <2>3 DEF StartQueue
<1>5. CASE SetCancel
  BY <1>5 DEF SetCancel
<1>6. CASE Spawn
  <2>1. bridge.wg + 1 \in 0..1
    BY <1>6 DEF Spawn, IInv, StartInv
  <2> QED
    BY <1>6, <2>1 DEF Spawn
<1> QED
  BY <1>1, <1>2, <1>3, <1>4, <1>5, <1>6 DEF Start

LEMMA StopKeepsMemory == ASSUME IInv, CallStop \/ Stop PROVE bridge' \in Memory
<1> bridge \in Memory
  BY DEF IInv, TypeOK
<1> USE DEF Memory
<1>1. CASE CallStop
  BY <1>1 DEF CallStop
<1>2. CASE WaitForLoop
  BY <1>2 DEF WaitForLoop
<1>3. CASE StopQueue
  <2> DEFINE m == [bridge EXCEPT !.stop = "closeReader"]
  <2>1. PICK x \in {"nil", "running", "stopped"} : bridge' = [m EXCEPT !.queue = x]
    BY <1>3 DEF StopQueue
  <2> HIDE DEF Memory
  <2>2. m \in Memory
    BY FieldsOfMemory
  <2> HIDE DEF m
  <2> QED
    BY <2>1, <2>2, FieldsOfMemory
<1>4. CASE CloseReader
  BY <1>4 DEF CloseReader
<1>5. CASE Disconnect
  <2> DEFINE m == [bridge EXCEPT !.stop = "closeChan"]
  <2>1. PICK x \in {"nil", "connected", "disconnected"} : bridge' = [m EXCEPT !.client = x]
    BY <1>5 DEF Disconnect
  <2> HIDE DEF Memory
  <2>2. m \in Memory
    BY FieldsOfMemory
  <2> HIDE DEF m
  <2> QED
    BY <2>1, <2>2, FieldsOfMemory
<1>6. CASE CloseErrorChan
  <2> DEFINE m == [bridge EXCEPT !.stop = "returned"]
  <2>1. PICK x \in {"closed"} : bridge' = [m EXCEPT !.chan = x]
    BY <1>6 DEF CloseErrorChan
  <2> HIDE DEF Memory
  <2>2. m \in Memory
    BY FieldsOfMemory
  <2> HIDE DEF m
  <2> QED
    BY <2>1, <2>2, FieldsOfMemory
<1>7. CASE Exit
  BY <1>7 DEF Exit
<1> QED
  BY <1>1, <1>2, <1>3, <1>4, <1>5, <1>6, <1>7 DEF Stop

LEMMA LoopKeepsMemory == ASSUME IInv, Loop PROVE bridge' \in Memory
<1> bridge \in Memory
  BY DEF IInv, TypeOK
<1> USE DEF Memory, LoopStep
<1>1. CASE LoopEnds
  <2>1. bridge.wg - 1 \in 0..1
    BY <1>1 DEF LoopEnds, IInv, StartInv
  <2> QED
    BY <1>1, <2>1 DEF LoopEnds
<1>2. CASE LoopContinues \/ ReadFails
  BY <1>2 DEF LoopContinues, ReadFails
<1>3. CASE ReadMessage \/ CommitFails
  <2>1. bridge.position + 1 \in 0..LastOffset
    BY <1>3, LastOffsetAssumption DEF ReadMessage, CommitFails
  <2>2. CASE ReadMessage
    BY <2>1, <2>2 DEF ReadMessage
  <2>3. CASE CommitFails
    BY <2>1, <2>3 DEF CommitFails
  <2> QED
    BY <1>3, <2>2, <2>3
<1>4. CASE Handle
  <2>1. 0 \in 0..LastOffset
    BY LastOffsetAssumption
  <2>2. PICK label \in {"select", "report"} : Settle(label)
    BY <1>4 DEF Handle, RejectMessage, SkipMessage, PublishMessage, PublishFails
  <2> QED
    BY <2>1, <2>2 DEF Settle
<1>5. CASE ReportError
  <2>1. PICK count \in 0..ErrorCapacity :
           bridge' = bridge \/ bridge' = [bridge EXCEPT !.loop = "select", !.errors = count]
    <3>1. bridge.errors < ErrorCapacity => bridge.errors + 1 \in 0..ErrorCapacity
      BY ErrorCapacityAssumption
    <3> QED
      BY <1>5, <3>1 DEF ReportError
  <2> QED
    BY <2>1
<1> QED
  BY <1>1, <1>2, <1>3, <1>4, <1>5 DEF Loop

LEMMA JoinKeepsMemory ==
  ASSUME IInv, JoinGroup
  PROVE  /\ bridge' \in Memory
         /\ \E p \in 0..LastOffset :
               bridge' = [bridge EXCEPT !.reader = "open", !.position = p]
<1> bridge \in Memory
  BY DEF IInv, TypeOK
<1>1. PICK end \in bridge.position..LastOffset :
         bridge' = [bridge EXCEPT !.reader = "open",
                                  !.position = IF committed = 0 THEN end ELSE committed]
  BY DEF JoinGroup
<1>2. (IF committed = 0 THEN end ELSE committed) \in 0..LastOffset
  BY LastOffsetAssumption DEF IInv, TypeOK, Memory
<1> QED
  BY <1>1, <1>2 DEF Memory

LEMMA TypesKept == ASSUME IInv, [Next]_vars PROVE TypeOK'
<1> USE DEF IInv, TypeOK, history
<1>1. CASE Start
  <2>1. bridge' \in Memory
    BY <1>1, StartKeepsMemory
  <2> QED
    BY <1>1, <2>1 DEF Start, CallStart, ConnectConsumer, ConnectClient, StartQueue,
                      SetCancel, Spawn, StartStep
<1>2. CASE CallStop \/ Stop
  <2>1. bridge' \in Memory
    BY <1>2, StopKeepsMemory
  <2>2. orderly' \in BOOLEAN
    <3>1. CASE CallStop
      BY <3>1 DEF CallStop
    <3>2. CASE Stop
      BY <3>2 DEF Stop, WaitForLoop, StopQueue, CloseReader, Disconnect, CloseErrorChan, Exit
    <3> QED
      BY <1>2, <3>1, <3>2
  <2> QED
    BY <1>2, <2>1, <2>2 DEF CallStop, Stop, WaitForLoop, StopQueue, CloseReader, Disconnect,
                            CloseErrorChan, Exit, StopStep
<1>3. CASE Loop
  <2>1. bridge' \in Memory
    BY <1>3, LoopKeepsMemory
  <2>2. bridge.position < LastOffset => bridge.position + 1 \in Offsets
    BY LastOffsetAssumption DEF Memory, Offsets
  <2>3. Offsets \subseteq 0..LastOffset
    BY LastOffsetAssumption DEF Offsets
  <2>4. bridge.loop = "handle" => bridge.inHand \in Offsets
    BY LastOffsetAssumption DEF Memory, Offsets, OffsetsInv
  <2>5. CASE Handle
    <3>1. bridge.inHand \in Offsets
      BY <2>4, <2>5
         DEF Handle, RejectMessage, SkipMessage, PublishMessage, PublishFails, LoopStep
    <3>2. published' \in [Offsets -> Nat]
      BY <2>5, <3>1
         DEF Handle, RejectMessage, SkipMessage, PublishMessage, PublishFails
    <3> QED
      BY <2>1, <2>5, <3>1, <3>2
         DEF Handle, RejectMessage, SkipMessage, PublishMessage, PublishFails, LoopStep, Settle
  <2>6. CASE ReadMessage \/ CommitFails
    BY <2>1, <2>2, <2>3, <2>6 DEF ReadMessage, CommitFails, LoopStep
  <2>7. CASE LoopEnds \/ LoopContinues \/ ReadFails \/ ReportError
    BY <2>1, <2>7 DEF LoopEnds, LoopContinues, ReadFails, ReportError, LoopStep
  <2> QED
    BY <1>3, <2>5, <2>6, <2>7 DEF Loop
<1>4. CASE Kill
  <2>1. bridge.inHand \in Offsets \cup {0}
    BY LastOffsetAssumption DEF Memory, Offsets
  <2>2. kills + 1 \in 0..MaxKills
    BY <1>4, MaxKillsAssumption DEF Kill
  <2> QED
    BY <1>4, <2>1, <2>2 DEF Kill
<1>5. CASE Restart
  <2>1. bridge.position \in 0..LastOffset
    BY DEF Memory
  <2>2. FreshMemory(bridge.position) \in Memory
    BY <2>1, FreshMemoryType
  <2> QED
    BY <1>5, <2>2 DEF Restart
<1>6. CASE Rest \/ UNCHANGED vars
  BY <1>6 DEF Rest, vars
<1>7. CASE JoinGroup
  <2>1. bridge' \in Memory
    BY <1>7, JoinKeepsMemory
  <2>2. joinedAt' \in 0..LastOffset
    BY <1>7, LastOffsetAssumption DEF JoinGroup, Memory
  <2> QED
    BY <1>7, <2>1, <2>2 DEF JoinGroup
<1> QED
  BY <1>1, <1>2, <1>3, <1>4, <1>5, <1>6, <1>7 DEF Next

\* Start changes nothing that the offsets depend on, and is over when an orderly Stop runs.
LEMMA StartKeepsInvariant ==
  ASSUME IInv, Start PROVE StartInv' /\ StopInv' /\ OffsetsInv'
<1> USE DEF IInv, TypeOK, Memory, StartInv, StopInv, StartStep, history
<1>1. CASE CallStart
  <2>1. StartInv' /\ StopInv'
    BY <1>1 DEF CallStart
  <2>2. OffsetsInv'
    BY <1>1 DEF CallStart, OffsetsInv
  <2> QED
    BY <2>1, <2>2
<1>2. CASE ConnectConsumer
  <2>1. StartInv' /\ StopInv'
    BY <1>2 DEF ConnectConsumer
  <2>2. OffsetsInv'
    BY <1>2 DEF ConnectConsumer, OffsetsInv
  <2> QED
    BY <2>1, <2>2
<1>3. CASE ConnectClient
  <2>1. StartInv' /\ StopInv'
    BY <1>3 DEF ConnectClient
  <2>2. OffsetsInv'
    BY <1>3 DEF ConnectClient, OffsetsInv
  <2> QED
    BY <2>1, <2>2
<1>4. CASE StartQueue
  <2>1. StartInv' /\ StopInv'
    BY <1>4 DEF StartQueue
  <2>2. OffsetsInv'
    BY <1>4 DEF StartQueue, OffsetsInv
  <2> QED
    BY <2>1, <2>2
<1>5. CASE SetCancel
  <2>1. StartInv' /\ StopInv'
    BY <1>5 DEF SetCancel
  <2>2. OffsetsInv'
    BY <1>5 DEF SetCancel, OffsetsInv
  <2> QED
    BY <2>1, <2>2
<1>6. CASE Spawn
  <2>1. StartInv' /\ StopInv'
    BY <1>6 DEF Spawn
  <2>2. OffsetsInv'
    BY <1>6, LastOffsetAssumption DEF Spawn, OffsetsInv, Offsets
  <2> QED
    BY <2>1, <2>2
<1> QED
  BY <1>1, <1>2, <1>3, <1>4, <1>5, <1>6 DEF Start

\* Without a commit nothing is in hand and nothing was published; with one the reader goes
\* back to it at most.
LEMMA JoinKeepsInvariant ==
  ASSUME IInv, JoinGroup PROVE StartInv' /\ StopInv' /\ OffsetsInv'
<1> USE DEF IInv, TypeOK, Memory
<1>1. PICK end \in bridge.position..LastOffset :
         /\ bridge' = [bridge EXCEPT !.reader = "open",
                                     !.position = IF committed = 0 THEN end ELSE committed]
         /\ joinedAt' = IF committed = 0 THEN end ELSE joinedAt
  BY DEF JoinGroup
<1>2. /\ bridge.reader \in {"joining", "open"}
      /\ UNCHANGED <<process, deadLetterEnabled, committed, published, settled, excused,
                     orderly>>
  BY DEF JoinGroup
<1>3. StartInv' /\ StopInv'
  BY <1>1, <1>2 DEF StartInv, StopInv
<1>4. CASE committed = 0
  <2>1. bridge.inHand = 0
    BY <1>4 DEF OffsetsInv
  <2>2. \A o \in Offsets : published[o] = 0
    BY <1>4, LastOffsetAssumption DEF OffsetsInv, Offsets
  <2>3. /\ bridge'.position = end /\ joinedAt' = end /\ bridge'.inHand = 0
        /\ bridge'.loop = bridge.loop
    BY <1>1, <1>4, <2>1
  <2>4. end \in Nat /\ end + 1..end = {}
    BY LastOffsetAssumption
  <2> QED
    BY <1>2, <1>3, <1>4, <2>1, <2>2, <2>3, <2>4 DEF OffsetsInv
<1>5. CASE committed # 0
  <2>1. /\ bridge'.position = committed /\ joinedAt' = joinedAt
        /\ bridge'.inHand = bridge.inHand /\ bridge'.loop = bridge.loop
    BY <1>1, <1>5
  <2>2. joinedAt + 1..committed \subseteq joinedAt + 1..bridge.position
    BY LastOffsetAssumption DEF OffsetsInv
  <2> QED
    BY <1>2, <1>3, <1>5, <2>1, <2>2, LastOffsetAssumption DEF OffsetsInv
<1> QED
  BY <1>4, <1>5

\* Stop passes the wait group only when there is no goroutine, and an orderly one knows
\* that none will come.
LEMMA StopKeepsInvariant ==
  ASSUME IInv, CallStop \/ Stop PROVE StartInv' /\ StopInv' /\ OffsetsInv'
<1> USE DEF IInv, TypeOK, Memory, StartInv, StopInv, StopStep, history
<1>1. CASE CallStop
  <2>1. StartInv' /\ StopInv'
    BY <1>1 DEF CallStop
  <2>2. OffsetsInv'
    BY <1>1 DEF CallStop, OffsetsInv
  <2> QED
    BY <2>1, <2>2
<1>2. CASE WaitForLoop
  <2>1. StartInv' /\ StopInv'
    BY <1>2 DEF WaitForLoop
  <2>2. OffsetsInv'
    BY <1>2 DEF WaitForLoop, OffsetsInv
  <2> QED
    BY <2>1, <2>2
<1>3. CASE StopQueue
  <2>1. StartInv' /\ StopInv'
    BY <1>3 DEF StopQueue
  <2>2. OffsetsInv'
    BY <1>3 DEF StopQueue, OffsetsInv
  <2> QED
    BY <2>1, <2>2
<1>4. CASE CloseReader
  <2>1. StartInv' /\ StopInv'
    BY <1>4 DEF CloseReader
  <2>2. OffsetsInv'
    BY <1>4 DEF CloseReader, OffsetsInv
  <2> QED
    BY <2>1, <2>2
<1>5. CASE Disconnect
  <2>1. StartInv' /\ StopInv'
    BY <1>5 DEF Disconnect
  <2>2. OffsetsInv'
    BY <1>5 DEF Disconnect, OffsetsInv
  <2> QED
    BY <2>1, <2>2
<1>6. CASE CloseErrorChan
  <2>1. StartInv' /\ StopInv'
    BY <1>6 DEF CloseErrorChan
  <2>2. OffsetsInv'
    BY <1>6 DEF CloseErrorChan, OffsetsInv
  <2> QED
    BY <2>1, <2>2
<1>7. CASE Exit
  <2>1. StartInv' /\ StopInv'
    BY <1>7 DEF Exit
  <2>2. OffsetsInv'
    BY <1>7 DEF Exit, OffsetsInv
  <2> QED
    BY <2>1, <2>2
<1> QED
  BY <1>1, <1>2, <1>3, <1>4, <1>5, <1>6, <1>7 DEF Stop

\* The goroutine, but for what it does with a message.
LEMMA ReadingKeepsInvariant ==
  ASSUME IInv,
         LoopEnds \/ LoopContinues \/ ReadMessage \/ CommitFails \/ ReadFails \/ ReportError
  PROVE  StartInv' /\ StopInv' /\ OffsetsInv'
<1> USE DEF IInv, TypeOK, Memory, StartInv, StopInv, LoopStep, history
<1>1. CASE LoopEnds
  <2>1. StartInv' /\ StopInv'
    BY <1>1 DEF LoopEnds
  <2>2. OffsetsInv'
    BY <1>1, LastOffsetAssumption DEF LoopEnds, OffsetsInv, Offsets
  <2> QED
    BY <2>1, <2>2
<1>2. CASE LoopContinues
  <2>1. StartInv' /\ StopInv'
    BY <1>2 DEF LoopContinues
  <2>2. OffsetsInv'
    BY <1>2 DEF LoopContinues, OffsetsInv
  <2> QED
    BY <2>1, <2>2
<1>3. CASE ReadMessage
  <2>1. StartInv' /\ StopInv'
    BY <1>3 DEF ReadMessage
  <2>2. OffsetsInv'
    BY <1>3, LastOffsetAssumption DEF ReadMessage, OffsetsInv, Offsets
  <2> QED
    BY <2>1, <2>2
<1>4. CASE CommitFails
  <2>1. StartInv' /\ StopInv'
    BY <1>4 DEF CommitFails
  <2>2. OffsetsInv'
    BY <1>4, LastOffsetAssumption DEF CommitFails, OffsetsInv, Offsets
  <2> QED
    BY <2>1, <2>2
<1>5. CASE ReadFails
  <2>1. StartInv' /\ StopInv'
    BY <1>5 DEF ReadFails
  <2>2. OffsetsInv'
    BY <1>5 DEF ReadFails, OffsetsInv
  <2> QED
    BY <2>1, <2>2
<1>6. CASE ReportError
  <2>1. StartInv' /\ StopInv'
    BY <1>6 DEF ReportError
  <2>2. OffsetsInv'
    <3>1. CASE UNCHANGED bridge
      BY <1>6, <3>1 DEF ReportError, OffsetsInv
    <3>2. CASE bridge.chan = "open"
      <4>1. UNCHANGED <<process, committed, published, settled, excused, joinedAt>>
        BY <1>6, <3>2 DEF ReportError
      <4>2. bridge.loop = "report" /\ bridge'.loop = "select"
        BY <1>6, <3>2 DEF ReportError
      <4>3. bridge'.position = bridge.position /\ bridge'.inHand = bridge.inHand
        BY <1>6, <3>2 DEF ReportError
      <4> QED
        BY <4>1, <4>2, <4>3 DEF OffsetsInv
    <3> QED
      BY <1>6, <3>1, <3>2 DEF ReportError
  <2> QED
    BY <2>1, <2>2
<1> QED
  BY <1>1, <1>2, <1>3, <1>4, <1>5, <1>6 DEF Loop

\* The message in hand is settled.  It was not published before: what was published is
\* behind the committed offset and no longer in hand.
LEMMA HandleKeepsInvariant ==
  ASSUME IInv, Handle PROVE StartInv' /\ StopInv' /\ OffsetsInv'
<1> USE DEF IInv, TypeOK, Memory, StartInv, StopInv, LoopStep, Settle
<1>1. CASE RejectMessage
  <2>1. StartInv' /\ StopInv'
    BY <1>1 DEF RejectMessage
  <2>2. OffsetsInv'
    BY <1>1, LastOffsetAssumption DEF RejectMessage, OffsetsInv, Offsets
  <2> QED
    BY <2>1, <2>2
<1>2. CASE SkipMessage
  <2>1. StartInv' /\ StopInv'
    BY <1>2 DEF SkipMessage
  <2>2. OffsetsInv'
    BY <1>2, LastOffsetAssumption DEF SkipMessage, OffsetsInv, Offsets
  <2> QED
    BY <2>1, <2>2
<1>3. CASE PublishMessage
  <2>1. StartInv' /\ StopInv'
    BY <1>3 DEF PublishMessage
  <2>2. OffsetsInv'
    BY <1>3, LastOffsetAssumption DEF PublishMessage, OffsetsInv, Offsets
  <2> QED
    BY <2>1, <2>2
<1>4. CASE PublishFails
  <2>1. StartInv' /\ StopInv'
    BY <1>4 DEF PublishFails
  <2>2. OffsetsInv'
    <3>1. CASE UNCHANGED published
      BY <1>4, <3>1, LastOffsetAssumption DEF PublishFails, OffsetsInv, Offsets
    <3>2. CASE published' = [published EXCEPT ![bridge.inHand] = @ + 1]
      BY <1>4, <3>2, LastOffsetAssumption DEF PublishFails, OffsetsInv, Offsets
    <3> QED
      BY <1>4, <3>1, <3>2 DEF PublishFails
  <2> QED
    BY <2>1, <2>2
<1> QED
  BY <1>1, <1>2, <1>3, <1>4 DEF Handle

\* The message in hand when the process is killed is excused; the next process has
\* nothing in hand.
LEMMA ProcessKeepsInvariant ==
  ASSUME IInv, Kill \/ Restart \/ Rest \/ UNCHANGED vars
  PROVE  StartInv' /\ StopInv' /\ OffsetsInv'
<1>1. CASE Kill
  BY <1>1 DEF Kill, IInv, StartInv, StopInv, OffsetsInv
<1>2. CASE Restart
  <2>1. StartInv' /\ StopInv'
    BY <1>2 DEF Restart, FreshMemory, StartInv, StopInv
  <2>2. OffsetsInv'
    <3>1. bridge'.position = bridge.position /\ bridge'.inHand = 0 /\ bridge'.loop = "none"
      BY <1>2 DEF Restart, FreshMemory
    <3>2. bridge.inHand \in excused \cup {0} /\ process' = "up"
      BY <1>2 DEF Restart, IInv, OffsetsInv
    <3>3. UNCHANGED <<committed, published, settled, excused, joinedAt>>
      BY <1>2 DEF Restart, history
    <3> QED
      BY <3>1, <3>2, <3>3 DEF IInv, OffsetsInv, Offsets
  <2> QED
    BY <2>1, <2>2
<1>3. CASE UNCHANGED vars
  BY <1>3 DEF vars, history, IInv, StartInv, StopInv, OffsetsInv
<1> QED
  BY <1>1, <1>2, <1>3 DEF Rest

LEMMA StepKeepsInvariant == IInv /\ [Next]_vars => IInv'
<1> SUFFICES ASSUME IInv, [Next]_vars PROVE IInv'
  OBVIOUS
<1>1. TypeOK'
  BY TypesKept
<1>2. StartInv' /\ StopInv' /\ OffsetsInv'
  BY StartKeepsInvariant, StopKeepsInvariant, ReadingKeepsInvariant, HandleKeepsInvariant,
     ProcessKeepsInvariant, JoinKeepsInvariant
     DEF Next, Loop
<1> QED
  BY <1>1, <1>2 DEF IInv

LEMMA Invariance == SafetySpec => []IInv
  BY InitInvariant, StepKeepsInvariant, PTL DEF SafetySpec

-----------------------------------------------------------------------------
\* Every variable keeps its type, and the offsets their bound (KafkaToMQTTBridge).
THEOREM TypeCorrect == SafetySpec => []TypeOK
  BY Invariance, PTL DEF IInv

\* No message is published twice, across any number of kills and restarts.
THEOREM AtMostOnce == SafetySpec => [](\A o \in Offsets : published[o] <= 1)
<1>1. IInv => \A o \in Offsets : published[o] <= 1
  BY DEF IInv, TypeOK, OffsetsInv
<1> QED
  BY <1>1, Invariance, PTL

\* No committed message behind the point where the group began is dropped silently, but for
\* the two losses the code accepts: a commit that failed and a kill (JoinGroup, ReadMessage).
THEOREM CommittedMeansSettled == SafetySpec => []CommittedIsSettled
<1>1. IInv => CommittedIsSettled
  BY LastOffsetAssumption DEF IInv, TypeOK, Memory, OffsetsInv, CommittedIsSettled
<1> QED
  BY <1>1, Invariance, PTL

\* The goroutine has the reader, the client, the channel and the queue for as long as it
\* runs, unless Stop was called before Start had returned.
THEOREM GoroutineIsServed == SafetySpec => []LoopHasWhatItUses
<1>1. IInv => LoopHasWhatItUses
  BY DEF IInv, TypeOK, Memory, StartInv, StopInv, LoopHasWhatItUses
<1> QED
  BY <1>1, Invariance, PTL

\* Messages are published in the order of the partition, each at most once.
THEOREM PartitionOrder == SafetySpec => PublishedInOrder
<1>1. ASSUME IInv, [Next]_vars, NEW o \in Offsets, published'[o] > published[o],
             NEW later \in o..LastOffset
      PROVE  published[later] = 0
  <2>1. o = bridge.inHand
    <3>1. CASE PublishMessage \/ PublishFails
      BY <1>1, <3>1 DEF PublishMessage, PublishFails, IInv, TypeOK
    <3>2. CASE ~PublishMessage /\ ~PublishFails
      <4>1. UNCHANGED published
        BY <1>1, <3>2
           DEF Next, JoinGroup, Start, CallStart, ConnectConsumer, ConnectClient, StartQueue,
               SetCancel, Spawn, StartStep, CallStop, Stop, WaitForLoop, StopQueue, CloseReader,
               Disconnect, CloseErrorChan, Exit, StopStep, Loop, LoopEnds, LoopContinues,
               ReadMessage, CommitFails, ReadFails, ReportError, Handle, RejectMessage,
               SkipMessage, Kill, Restart, Rest, vars, history
      <4> QED
        BY <1>1, <4>1 DEF IInv, TypeOK
    <3> QED
      BY <3>1, <3>2
  <2> QED
    BY <1>1, <2>1, LastOffsetAssumption DEF IInv, TypeOK, OffsetsInv, Offsets
<1>2. IInv /\ [Next]_vars =>
        [\A o \in Offsets : published'[o] > published[o] =>
             \A later \in o..LastOffset : published[later] = 0]_vars
  BY <1>1
<1> QED
  BY <1>2, Invariance, PTL DEF SafetySpec, PublishedInOrder

-----------------------------------------------------------------------------
(* The direction implements Direction. *)

LEMMA InitOfDirection == Init => Contract!Init
  BY DEF Init, FreshMemory, Contract!Init

LEMMA StartOfDirection ==
  ASSUME IInv, Start
  PROVE  Contract!CallStart \/ Contract!EndStart \/ UNCHANGED Contract!vars
<1> bridge \in Memory
  BY DEF IInv, TypeOK
<1> USE DEF Memory, StartStep, Contract!vars, Contract!EndStart
<1>1. CASE CallStart
  BY <1>1 DEF CallStart, Contract!CallStart
<1>2. CASE ConnectConsumer
  BY <1>2 DEF ConnectConsumer
<1>3. CASE ConnectClient
  BY <1>3 DEF ConnectClient
<1>4. CASE StartQueue
  BY <1>4 DEF StartQueue
<1>5. CASE SetCancel
  BY <1>5 DEF SetCancel
<1>6. CASE Spawn
  BY <1>6 DEF Spawn
<1> QED
  BY <1>1, <1>2, <1>3, <1>4, <1>5, <1>6 DEF Start

LEMMA StopOfDirection ==
  ASSUME IInv, CallStop \/ Stop
  PROVE  \/ Contract!CallStop \/ Contract!ReturnFromStop \/ Contract!Exit
         \/ UNCHANGED Contract!vars
<1> bridge \in Memory
  BY DEF IInv, TypeOK
<1> USE DEF Memory, StopStep, Contract!vars, Contract!Ended
<1>1. CASE CallStop
  BY <1>1 DEF CallStop, Contract!CallStop
<1>2. CASE WaitForLoop
  BY <1>2 DEF WaitForLoop
<1>3. CASE StopQueue
  BY <1>3 DEF StopQueue
<1>4. CASE CloseReader
  BY <1>4 DEF CloseReader
<1>5. CASE Disconnect
  BY <1>5 DEF Disconnect
<1>6. CASE CloseErrorChan
  BY <1>6 DEF CloseErrorChan, Contract!ReturnFromStop
<1>7. CASE Exit
  BY <1>7 DEF Exit, Contract!Exit
<1> QED
  BY <1>1, <1>2, <1>3, <1>4, <1>5, <1>6, <1>7 DEF Stop

\* Only a send on the closed errorChan is seen, and none follows an orderly Stop.
LEMMA LoopOfDirection ==
  ASSUME IInv, Loop PROVE Contract!Panic \/ UNCHANGED Contract!vars
<1> bridge \in Memory
  BY DEF IInv, TypeOK
<1> USE DEF Memory, LoopStep, Contract!vars
<1>1. CASE LoopEnds \/ LoopContinues \/ ReadMessage \/ CommitFails \/ ReadFails
  BY <1>1 DEF LoopEnds, LoopContinues, ReadMessage, CommitFails, ReadFails
<1>2. CASE Handle
  <2>1. UNCHANGED process
    BY <1>2 DEF Handle, RejectMessage, SkipMessage, PublishMessage, PublishFails
  <2>2. PICK label : Settle(label)
    BY <1>2 DEF Handle, RejectMessage, SkipMessage, PublishMessage, PublishFails
  <2>3. UNCHANGED orderly
    BY <1>2 DEF Handle, RejectMessage, SkipMessage, PublishMessage, PublishFails
  <2> QED
    BY <2>1, <2>2, <2>3 DEF Settle
<1>3. CASE ReportError
  <2>1. CASE bridge.chan = "open"
    BY <1>3, <2>1 DEF ReportError
  <2>2. CASE bridge.chan = "closed"
    BY <1>3, <2>2 DEF ReportError, IInv, StopInv, Contract!Panic
  <2> QED
    BY <1>3, <2>1, <2>2 DEF ReportError
<1> QED
  BY <1>1, <1>2, <1>3 DEF Loop

LEMMA StepOfDirection == IInv /\ [Next]_vars => [Contract!Next]_(Contract!vars)
<1> SUFFICES ASSUME IInv, [Next]_vars PROVE Contract!Next \/ UNCHANGED Contract!vars
  OBVIOUS
<1>1. CASE Start
  BY <1>1, StartOfDirection DEF Contract!Next
<1>2. CASE CallStop \/ Stop
  BY <1>2, StopOfDirection DEF Contract!Next
<1>3. CASE Loop
  BY <1>3, LoopOfDirection DEF Contract!Next
<1>4. CASE Kill
  BY <1>4 DEF Kill, Contract!Kill, Contract!Next
<1>5. CASE Restart
  BY <1>5 DEF Restart, FreshMemory, Contract!Restart, Contract!Next
<1>6. CASE Rest \/ UNCHANGED vars
  BY <1>6 DEF Rest, vars, Contract!vars
<1>7. CASE JoinGroup
  <2>1. UNCHANGED <<process, orderly>>
    BY <1>7 DEF JoinGroup
  <2>2. bridge'.start = bridge.start /\ bridge'.stop = bridge.stop
    BY <1>7, JoinKeepsMemory DEF IInv, TypeOK, Memory
  <2> QED
    BY <2>1, <2>2 DEF Contract!vars
<1> QED
  BY <1>1, <1>2, <1>3, <1>4, <1>5, <1>6, <1>7 DEF Next

\* What Program builds on: Stop is called once, no panic follows an orderly Stop, and the
\* process ends by itself only when both calls have (the safety part of KeepsDirection).
THEOREM DirectionKept == SafetySpec => Contract!Safety
  BY InitOfDirection, StepOfDirection, Invariance, PTL DEF SafetySpec, Contract!Safety

-----------------------------------------------------------------------------
(* Start ends: every step of it leads to the next one or to an end. *)

Starting(label) == process = "up" /\ bridge.start = label
StartOver == process # "up" \/ bridge.start \in {"idle", "returned", "failed"}

\* What follows a step of Start that succeeds.
After ==
    [label \in {"connectConsumer", "connectClient", "startQueue", "setCancel", "spawn"} |->
        CASE label = "connectConsumer" -> "connectClient"
          [] label = "connectClient"   -> "startQueue"
          [] label = "startQueue"      -> "setCancel"
          [] label = "setCancel"       -> "spawn"
          [] label = "spawn"           -> "returned"]

LEMMA StartSteps ==
  ASSUME IInv, NEW label \in DOMAIN After, Starting(label), Start
  PROVE  StartOver' \/ Starting(After[label])'
<1> bridge \in Memory
  BY DEF IInv, TypeOK
<1> USE DEF Memory, StartStep, Starting, StartOver, After
<1>1. ~CallStart
  BY DEF CallStart
<1>2. CASE ConnectConsumer
  BY <1>2 DEF ConnectConsumer
<1>3. CASE ConnectClient
  BY <1>3 DEF ConnectClient
<1>4. CASE StartQueue
  BY <1>4 DEF StartQueue
<1>5. CASE SetCancel
  BY <1>5 DEF SetCancel
<1>6. CASE Spawn
  BY <1>6 DEF Spawn
<1> QED
  BY <1>1, <1>2, <1>3, <1>4, <1>5, <1>6 DEF Start

\* Nothing but Start moves Start, except the end of the process.
LEMMA OthersLeaveStart ==
  ASSUME IInv, process = "up", [Next]_vars, ~Start
  PROVE  process' # "up" \/ bridge'.start = bridge.start
<1> bridge \in Memory
  BY DEF IInv, TypeOK
<1> USE DEF Memory
<1>1. CASE CallStop
  BY <1>1 DEF CallStop
<1>2. CASE Stop
  BY <1>2 DEF Stop, WaitForLoop, StopQueue, CloseReader, Disconnect, CloseErrorChan, Exit,
              StopStep
<1>3. CASE Loop
  <2>1. CASE LoopEnds \/ LoopContinues \/ ReadMessage \/ CommitFails \/ ReadFails
    BY <2>1 DEF LoopEnds, LoopContinues, ReadMessage, CommitFails, ReadFails
  <2>2. CASE Handle
    <3>1. PICK to : Settle(to)
      BY <2>2 DEF Handle, RejectMessage, SkipMessage, PublishMessage, PublishFails
    <3> QED
      BY <3>1 DEF Settle
  <2>3. CASE ReportError
    BY <2>3 DEF ReportError
  <2> QED
    BY <1>3, <2>1, <2>2, <2>3 DEF Loop
<1>4. CASE Kill \/ Restart \/ Rest \/ UNCHANGED vars
  BY <1>4 DEF Kill, Restart, Rest, vars
<1>5. CASE JoinGroup
  BY <1>5, JoinKeepsMemory DEF JoinGroup
<1> QED
  BY <1>1, <1>2, <1>3, <1>4, <1>5 DEF Next

LEMMA StartAdvances ==
  ASSUME NEW label \in DOMAIN After
  PROVE  /\ IInv /\ Starting(label) /\ [Next]_vars =>
              Starting(label)' \/ Starting(After[label])' \/ StartOver'
         /\ IInv /\ Starting(label) /\ <<Start>>_vars =>
              Starting(After[label])' \/ StartOver'
         /\ NeverStuck /\ Starting(label) => ENABLED <<Start>>_vars
<1>1. ASSUME IInv, Starting(label), [Next]_vars, ~Start
      PROVE  Starting(label)' \/ StartOver'
  BY <1>1, OthersLeaveStart DEF Starting, StartOver
<1>2. label \notin {"idle", "returned", "failed"}
  BY DEF After
<1>3. NeverStuck /\ Starting(label) => ENABLED <<Start>>_vars
  BY <1>2 DEF NeverStuck, Starting
<1> QED
  BY <1>1, <1>3, StartSteps

\* Start ends, whatever Stop and the goroutine do.
LEMMA StartComesToAnEnd == Spec /\ []NeverStuck => Contract!StartEnds
<1>1. Spec /\ []NeverStuck =>
        (Starting("connectConsumer") ~> Starting("connectClient") \/ StartOver)
  <2>1. "connectConsumer" \in DOMAIN After /\ After["connectConsumer"] = "connectClient"
    BY DEF After
  <2>2. /\ IInv /\ Starting("connectConsumer") /\ [Next]_vars =>
             Starting("connectConsumer")' \/ Starting("connectClient")' \/ StartOver'
        /\ IInv /\ Starting("connectConsumer") /\ <<Start>>_vars =>
             Starting("connectClient")' \/ StartOver'
        /\ NeverStuck /\ Starting("connectConsumer") => ENABLED <<Start>>_vars
    BY <2>1, StartAdvances
  <2> QED
    BY <2>2, Invariance, PTL DEF Spec, SafetySpec, Fairness
<1>2. Spec /\ []NeverStuck =>
        (Starting("connectClient") ~> Starting("startQueue") \/ StartOver)
  <2>1. "connectClient" \in DOMAIN After /\ After["connectClient"] = "startQueue"
    BY DEF After
  <2>2. /\ IInv /\ Starting("connectClient") /\ [Next]_vars =>
             Starting("connectClient")' \/ Starting("startQueue")' \/ StartOver'
        /\ IInv /\ Starting("connectClient") /\ <<Start>>_vars =>
             Starting("startQueue")' \/ StartOver'
        /\ NeverStuck /\ Starting("connectClient") => ENABLED <<Start>>_vars
    BY <2>1, StartAdvances
  <2> QED
    BY <2>2, Invariance, PTL DEF Spec, SafetySpec, Fairness
<1>3. Spec /\ []NeverStuck =>
        (Starting("startQueue") ~> Starting("setCancel") \/ StartOver)
  <2>1. "startQueue" \in DOMAIN After /\ After["startQueue"] = "setCancel"
    BY DEF After
  <2>2. /\ IInv /\ Starting("startQueue") /\ [Next]_vars =>
             Starting("startQueue")' \/ Starting("setCancel")' \/ StartOver'
        /\ IInv /\ Starting("startQueue") /\ <<Start>>_vars =>
             Starting("setCancel")' \/ StartOver'
        /\ NeverStuck /\ Starting("startQueue") => ENABLED <<Start>>_vars
    BY <2>1, StartAdvances
  <2> QED
    BY <2>2, Invariance, PTL DEF Spec, SafetySpec, Fairness
<1>4. Spec /\ []NeverStuck =>
        (Starting("setCancel") ~> Starting("spawn") \/ StartOver)
  <2>1. "setCancel" \in DOMAIN After /\ After["setCancel"] = "spawn"
    BY DEF After
  <2>2. /\ IInv /\ Starting("setCancel") /\ [Next]_vars =>
             Starting("setCancel")' \/ Starting("spawn")' \/ StartOver'
        /\ IInv /\ Starting("setCancel") /\ <<Start>>_vars =>
             Starting("spawn")' \/ StartOver'
        /\ NeverStuck /\ Starting("setCancel") => ENABLED <<Start>>_vars
    BY <2>1, StartAdvances
  <2> QED
    BY <2>2, Invariance, PTL DEF Spec, SafetySpec, Fairness
<1>5. Spec /\ []NeverStuck =>
        (Starting("spawn") ~> Starting("returned") \/ StartOver)
  <2>1. "spawn" \in DOMAIN After /\ After["spawn"] = "returned"
    BY DEF After
  <2>2. /\ IInv /\ Starting("spawn") /\ [Next]_vars =>
             Starting("spawn")' \/ Starting("returned")' \/ StartOver'
        /\ IInv /\ Starting("spawn") /\ <<Start>>_vars =>
             Starting("returned")' \/ StartOver'
        /\ NeverStuck /\ Starting("spawn") => ENABLED <<Start>>_vars
    BY <2>1, StartAdvances
  <2> QED
    BY <2>2, Invariance, PTL DEF Spec, SafetySpec, Fairness
<1>6. Starting("returned") => StartOver
  BY DEF Starting, StartOver
<1>7. IInv /\ ~StartOver =>
        \/ Starting("connectConsumer") \/ Starting("connectClient") \/ Starting("startQueue")
        \/ Starting("setCancel") \/ Starting("spawn")
  BY DEF IInv, TypeOK, Memory, Starting, StartOver
<1>8. Spec /\ []NeverStuck => (~StartOver ~> StartOver)
  BY <1>1, <1>2, <1>3, <1>4, <1>5, <1>6, <1>7, Invariance, PTL DEF Spec
<1>9. /\ StartOver =>
           ~Contract!Up \/ (IF bridge.start \in {"idle", "returned", "failed"}
                              THEN bridge.start ELSE "running") # "running"
      /\ Contract!Up /\ (IF bridge.start \in {"idle", "returned", "failed"}
                            THEN bridge.start ELSE "running") = "running" => ~StartOver
  BY DEF StartOver, Contract!Up
<1> QED
  BY <1>8, <1>9, PTL DEF Contract!StartEnds

-----------------------------------------------------------------------------
(* An orderly Stop returns: the goroutine it waits for finds its context cancelled after *)
(* the message in hand, and every step of Stop leads to the next one.                    *)

\* How far an orderly Stop is, and the goroutine while Stop waits for it.
Stopping(label) == process = "up" /\ orderly /\ bridge.stop = label
LoopAt(label) == Stopping("wait") /\ bridge.loop = label
LoopGone == Stopping("wait") /\ bridge.loop \in {"none", "done"}
StopOver == process # "up" \/ bridge.stop \in {"idle", "returned"}

\* What follows a step of Stop.
Below ==
    [label \in {"wait", "stopQueue", "closeReader", "disconnect", "closeChan"} |->
        CASE label = "wait"        -> "stopQueue"
          [] label = "stopQueue"   -> "closeReader"
          [] label = "closeReader" -> "disconnect"
          [] label = "disconnect"  -> "closeChan"
          [] label = "closeChan"   -> "returned"]

LEMMA StopSteps ==
  ASSUME IInv, NEW label \in DOMAIN Below, Stopping(label), Stop
  PROVE  Stopping(Below[label])'
<1> bridge \in Memory
  BY DEF IInv, TypeOK
<1> USE DEF Memory, StopStep, Stopping, Below
<1>1. CASE WaitForLoop
  BY <1>1 DEF WaitForLoop
<1>2. CASE StopQueue
  BY <1>2 DEF StopQueue
<1>3. CASE CloseReader
  BY <1>3 DEF CloseReader
<1>4. CASE Disconnect
  BY <1>4 DEF Disconnect
<1>5. CASE CloseErrorChan
  BY <1>5 DEF CloseErrorChan
<1>6. ~Exit
  BY DEF Exit
<1> QED
  BY <1>1, <1>2, <1>3, <1>4, <1>5, <1>6 DEF Stop

\* Start is over when an orderly Stop runs, and the goroutine takes nothing down.
LEMMA OthersLeaveStop ==
  ASSUME IInv, process = "up", orderly, bridge.stop # "idle", [Next]_vars, ~Stop
  PROVE  /\ process' # "up" \/ (bridge'.stop = bridge.stop /\ orderly')
         /\ process' # "up" \/ Loop \/ bridge'.loop = bridge.loop
<1> bridge \in Memory
  BY DEF IInv, TypeOK
<1> USE DEF Memory
<1>1. ~Start
  BY DEF Start, CallStart, ConnectConsumer, ConnectClient, StartQueue, SetCancel, Spawn,
         StartStep, IInv, StopInv
<1>2. ~CallStop
  BY DEF CallStop, StopStep
<1>3. CASE Loop
  <2>1. CASE LoopEnds \/ LoopContinues \/ ReadMessage \/ CommitFails \/ ReadFails
    BY <1>3, <2>1
       DEF LoopEnds, LoopContinues, ReadMessage, CommitFails, ReadFails, LoopStep
  <2>2. CASE Handle
    <3>1. PICK to : Settle(to)
      BY <2>2 DEF Handle, RejectMessage, SkipMessage, PublishMessage, PublishFails
    <3>2. UNCHANGED orderly
      BY <2>2 DEF Handle, RejectMessage, SkipMessage, PublishMessage, PublishFails, LoopStep
    <3> QED
      BY <1>3, <3>1, <3>2 DEF Settle
  <2>3. CASE ReportError
    BY <2>3, <1>3 DEF ReportError, LoopStep
  <2> QED
    BY <1>3, <2>1, <2>2, <2>3 DEF Loop
<1>4. CASE Kill \/ Restart \/ Rest \/ UNCHANGED vars
  BY <1>4 DEF Kill, Restart, Rest, vars
<1>5. CASE JoinGroup
  BY <1>5, JoinKeepsMemory DEF JoinGroup
<1> QED
  BY <1>1, <1>2, <1>3, <1>4, <1>5 DEF Next

\* Where a step of the goroutine leads while an orderly Stop waits for it.
LEMMA LoopSteps ==
  ASSUME IInv, Stopping("wait"), Loop
  PROVE  /\ bridge.loop = "read" => bridge'.loop \in {"handle", "report"}
         /\ bridge.loop = "handle" => bridge'.loop \in {"report", "select"}
         /\ bridge.loop = "report" => bridge'.loop = "select" \/ process' # "up"
         /\ bridge.loop = "select" => bridge'.loop = "done"
         /\ bridge.loop \notin {"none", "done"}
<1> bridge \in Memory
  BY DEF IInv, TypeOK
<1> USE DEF Memory, LoopStep
<1>1. CASE LoopEnds
  BY <1>1 DEF LoopEnds
<1>2. ~LoopContinues
  BY DEF LoopContinues, Stopping, IInv, StopInv
<1>3. CASE ReadMessage \/ CommitFails \/ ReadFails
  BY <1>3 DEF ReadMessage, CommitFails, ReadFails
<1>4. CASE Handle
  <2>1. PICK to \in {"report", "select"} : Settle(to)
    BY <1>4 DEF Handle, RejectMessage, SkipMessage, PublishMessage, PublishFails
  <2>2. bridge.loop = "handle"
    BY <1>4 DEF Handle, RejectMessage, SkipMessage, PublishMessage, PublishFails
  <2> QED
    BY <2>1, <2>2 DEF Settle
<1>5. CASE ReportError
  BY <1>5 DEF ReportError
<1> QED
  BY <1>1, <1>2, <1>3, <1>4, <1>5 DEF Loop

LEMMA StopAdvances ==
  ASSUME NEW label \in DOMAIN Below
  PROVE  /\ IInv /\ Stopping(label) /\ [Next]_vars =>
              Stopping(label)' \/ Stopping(Below[label])' \/ StopOver'
         /\ IInv /\ Stopping(label) /\ <<Stop>>_vars => Stopping(Below[label])'
         /\ NeverStuck /\ Stopping(label) /\ label # "wait" => ENABLED <<Stop>>_vars
<1>1. ASSUME IInv, Stopping(label), [Next]_vars, ~Stop
      PROVE  Stopping(label)' \/ StopOver'
  BY <1>1, OthersLeaveStop DEF Stopping, StopOver, Below
<1>2. NeverStuck /\ Stopping(label) /\ label # "wait" => ENABLED <<Stop>>_vars
  BY DEF NeverStuck, Stopping, Below
<1> QED
  BY <1>1, <1>2, StopSteps

\* The goroutine, while an orderly Stop waits for it.
LEMMA LoopAdvances ==
  /\ IInv /\ LoopAt("read") /\ [Next]_vars =>
       LoopAt("read")' \/ LoopAt("handle")' \/ LoopAt("report")' \/ StopOver'
  /\ IInv /\ LoopAt("read") /\ <<Loop>>_vars =>
       LoopAt("handle")' \/ LoopAt("report")' \/ StopOver'
  /\ IInv /\ LoopAt("handle") /\ [Next]_vars =>
       LoopAt("handle")' \/ LoopAt("report")' \/ LoopAt("select")' \/ StopOver'
  /\ IInv /\ LoopAt("handle") /\ <<Loop>>_vars =>
       LoopAt("report")' \/ LoopAt("select")' \/ StopOver'
  /\ IInv /\ LoopAt("report") /\ [Next]_vars =>
       LoopAt("report")' \/ LoopAt("select")' \/ StopOver'
  /\ IInv /\ LoopAt("report") /\ <<Loop>>_vars => LoopAt("select")' \/ StopOver'
  /\ IInv /\ LoopAt("select") /\ [Next]_vars => LoopAt("select")' \/ LoopGone' \/ StopOver'
  /\ IInv /\ LoopAt("select") /\ <<Loop>>_vars => LoopGone' \/ StopOver'
  /\ IInv /\ LoopGone /\ [Next]_vars => LoopGone' \/ Stopping("stopQueue")' \/ StopOver'
  /\ IInv /\ LoopGone /\ <<Stop>>_vars => Stopping("stopQueue")'
  /\ NeverStuck /\ LoopGone => ENABLED <<Stop>>_vars
  /\ NeverStuck /\ (\E label \in {"read", "handle", "report", "select"} : LoopAt(label))
       => ENABLED <<Loop>>_vars
<1>1. ASSUME IInv, Stopping("wait"), [Next]_vars
      PROVE  Stopping("wait")' \/ (Stop /\ Stopping("stopQueue")') \/ StopOver'
  <2>1. "wait" \in DOMAIN Below /\ Below["wait"] = "stopQueue"
    BY DEF Below
  <2> QED
    BY <1>1, <2>1, StopSteps, OthersLeaveStop DEF Stopping, StopOver
<1>2. ASSUME IInv, Stopping("wait"), Stop PROVE bridge.loop \in {"none", "done"}
  BY <1>2 DEF Stopping, Stop, WaitForLoop, StopQueue, CloseReader, Disconnect,
              CloseErrorChan, Exit, StopStep, IInv, StartInv
<1>3. ASSUME IInv, Stopping("wait"), [Next]_vars, ~Stop, ~Loop
      PROVE  bridge'.loop = bridge.loop \/ StopOver'
  BY <1>3, OthersLeaveStop DEF Stopping, StopOver
<1>5. \A label : NeverStuck /\ LoopAt(label) /\ label \notin {"none", "done"}
                   => ENABLED <<Loop>>_vars
  BY DEF NeverStuck, LoopAt, Stopping
<1>6. NeverStuck /\ LoopGone => ENABLED <<Stop>>_vars
  BY DEF NeverStuck, LoopGone, Stopping
<1>7. Stop \/ Loop => [Next]_vars
  BY DEF Next
<1>8. ASSUME IInv, NEW label \in {"read", "handle", "report", "select"}, LoopAt(label),
             [Next]_vars
      PROVE  /\ ~Stop
             /\ Stopping("wait")' \/ StopOver'
             /\ ~Loop => LoopAt(label)' \/ StopOver'
  BY <1>1, <1>2, <1>3, <1>8 DEF LoopAt
<1>9. ASSUME IInv, LoopAt("read"), Loop
      PROVE  LoopAt("handle")' \/ LoopAt("report")' \/ StopOver'
  BY <1>7, <1>8, <1>9, LoopSteps DEF LoopAt
<1>10. ASSUME IInv, LoopAt("handle"), Loop
       PROVE  LoopAt("report")' \/ LoopAt("select")' \/ StopOver'
  BY <1>7, <1>8, <1>10, LoopSteps DEF LoopAt
<1>11. ASSUME IInv, LoopAt("report"), Loop PROVE LoopAt("select")' \/ StopOver'
  BY <1>7, <1>8, <1>11, LoopSteps DEF LoopAt, StopOver
<1>12. ASSUME IInv, LoopAt("select"), Loop PROVE LoopGone' \/ StopOver'
  BY <1>7, <1>8, <1>12, LoopSteps DEF LoopAt, LoopGone
<1>13. ASSUME IInv, LoopGone, [Next]_vars, ~Stop PROVE LoopGone' \/ StopOver'
  <2>1. ~Loop
    BY <1>13, LoopSteps DEF LoopGone
  <2> QED
    BY <1>1, <1>3, <1>13, <2>1 DEF LoopGone
<1>14. ASSUME IInv, LoopGone, Stop PROVE Stopping("stopQueue")'
  <2>1. "wait" \in DOMAIN Below /\ Below["wait"] = "stopQueue"
    BY DEF Below
  <2> QED
    BY <1>14, <2>1, StopSteps DEF LoopGone
<1>15. "read" \notin {"none", "done"} /\ "handle" \notin {"none", "done"}
       /\ "report" \notin {"none", "done"} /\ "select" \notin {"none", "done"}
  OBVIOUS
<1> QED
  BY <1>5, <1>6, <1>8, <1>9, <1>10, <1>11, <1>12, <1>13, <1>14, <1>15

\* An orderly Stop returns, wherever the goroutine is when it is called.
LEMMA OrderlyStopComesToAnEnd == Spec /\ []NeverStuck => Contract!OrderlyStopReturns
<1>1. /\ NeverStuck /\ LoopAt("read") => ENABLED <<Loop>>_vars
      /\ NeverStuck /\ LoopAt("handle") => ENABLED <<Loop>>_vars
      /\ NeverStuck /\ LoopAt("report") => ENABLED <<Loop>>_vars
      /\ NeverStuck /\ LoopAt("select") => ENABLED <<Loop>>_vars
  BY LoopAdvances
<1>2. Spec /\ []NeverStuck =>
        (LoopAt("read") ~> LoopAt("handle") \/ LoopAt("report") \/ StopOver)
  BY <1>1, LoopAdvances, Invariance, PTL DEF Spec, SafetySpec, Fairness
<1>3. Spec /\ []NeverStuck =>
        (LoopAt("handle") ~> LoopAt("report") \/ LoopAt("select") \/ StopOver)
  BY <1>1, LoopAdvances, Invariance, PTL DEF Spec, SafetySpec, Fairness
<1>4. Spec /\ []NeverStuck => (LoopAt("report") ~> LoopAt("select") \/ StopOver)
  BY <1>1, LoopAdvances, Invariance, PTL DEF Spec, SafetySpec, Fairness
<1>5. Spec /\ []NeverStuck => (LoopAt("select") ~> LoopGone \/ StopOver)
  BY <1>1, LoopAdvances, Invariance, PTL DEF Spec, SafetySpec, Fairness
<1>6. Spec /\ []NeverStuck => (LoopGone ~> Stopping("stopQueue") \/ StopOver)
  BY LoopAdvances, Invariance, PTL DEF Spec, SafetySpec, Fairness
<1>7. Spec /\ []NeverStuck =>
        (Stopping("stopQueue") ~> Stopping("closeReader") \/ StopOver)
  <2>1. /\ "stopQueue" \in DOMAIN Below
        /\ Below["stopQueue"] = "closeReader"
        /\ "stopQueue" # "wait"
    BY DEF Below
  <2>2. /\ IInv /\ Stopping("stopQueue") /\ [Next]_vars =>
             Stopping("stopQueue")' \/ Stopping("closeReader")' \/ StopOver'
        /\ IInv /\ Stopping("stopQueue") /\ <<Stop>>_vars => Stopping("closeReader")'
        /\ NeverStuck /\ Stopping("stopQueue") => ENABLED <<Stop>>_vars
    BY <2>1, StopAdvances
  <2> QED
    BY <2>2, Invariance, PTL DEF Spec, SafetySpec, Fairness
<1>8. Spec /\ []NeverStuck =>
        (Stopping("closeReader") ~> Stopping("disconnect") \/ StopOver)
  <2>1. /\ "closeReader" \in DOMAIN Below
        /\ Below["closeReader"] = "disconnect"
        /\ "closeReader" # "wait"
    BY DEF Below
  <2>2. /\ IInv /\ Stopping("closeReader") /\ [Next]_vars =>
             Stopping("closeReader")' \/ Stopping("disconnect")' \/ StopOver'
        /\ IInv /\ Stopping("closeReader") /\ <<Stop>>_vars => Stopping("disconnect")'
        /\ NeverStuck /\ Stopping("closeReader") => ENABLED <<Stop>>_vars
    BY <2>1, StopAdvances
  <2> QED
    BY <2>2, Invariance, PTL DEF Spec, SafetySpec, Fairness
<1>9. Spec /\ []NeverStuck =>
        (Stopping("disconnect") ~> Stopping("closeChan") \/ StopOver)
  <2>1. /\ "disconnect" \in DOMAIN Below
        /\ Below["disconnect"] = "closeChan"
        /\ "disconnect" # "wait"
    BY DEF Below
  <2>2. /\ IInv /\ Stopping("disconnect") /\ [Next]_vars =>
             Stopping("disconnect")' \/ Stopping("closeChan")' \/ StopOver'
        /\ IInv /\ Stopping("disconnect") /\ <<Stop>>_vars => Stopping("closeChan")'
        /\ NeverStuck /\ Stopping("disconnect") => ENABLED <<Stop>>_vars
    BY <2>1, StopAdvances
  <2> QED
    BY <2>2, Invariance, PTL DEF Spec, SafetySpec, Fairness
<1>10. Spec /\ []NeverStuck =>
        (Stopping("closeChan") ~> Stopping("returned") \/ StopOver)
  <2>1. /\ "closeChan" \in DOMAIN Below
        /\ Below["closeChan"] = "returned"
        /\ "closeChan" # "wait"
    BY DEF Below
  <2>2. /\ IInv /\ Stopping("closeChan") /\ [Next]_vars =>
             Stopping("closeChan")' \/ Stopping("returned")' \/ StopOver'
        /\ IInv /\ Stopping("closeChan") /\ <<Stop>>_vars => Stopping("returned")'
        /\ NeverStuck /\ Stopping("closeChan") => ENABLED <<Stop>>_vars
    BY <2>1, StopAdvances
  <2> QED
    BY <2>2, Invariance, PTL DEF Spec, SafetySpec, Fairness
<1>11. Stopping("returned") => StopOver
  BY DEF Stopping, StopOver
<1>12. IInv /\ orderly /\ ~StopOver =>
         \/ LoopAt("read") \/ LoopAt("handle") \/ LoopAt("report") \/ LoopAt("select")
         \/ LoopGone
         \/ Stopping("stopQueue") \/ Stopping("closeReader") \/ Stopping("disconnect")
         \/ Stopping("closeChan")
  BY DEF IInv, TypeOK, Memory, Stopping, LoopAt, LoopGone, StopOver
<1>13. Spec /\ []NeverStuck => (orderly /\ ~StopOver ~> StopOver)
  BY <1>2, <1>3, <1>4, <1>5, <1>6, <1>7, <1>8, <1>9, <1>10, <1>11, <1>12, Invariance, PTL
     DEF Spec
<1>14. /\ StopOver =>
            ~Contract!Up \/ (IF bridge.stop \in {"idle", "returned"}
                               THEN bridge.stop ELSE "running") # "running"
       /\ Contract!Up /\ (IF bridge.stop \in {"idle", "returned"}
                            THEN bridge.stop ELSE "running") = "running" /\ orderly
            => ~StopOver
  BY DEF StopOver, Contract!Up
<1> QED
  BY <1>13, <1>14, PTL DEF Contract!OrderlyStopReturns

\* The direction implements Direction, liveness included: if no goroutine gets stuck,
\* Start ends and an orderly Stop returns (Start, Stop, consumeMessages).
THEOREM DirectionImplemented == Spec /\ []NeverStuck => KeepsDirection
  BY DirectionKept, StartComesToAnEnd, OrderlyStopComesToAnEnd, PTL
     DEF Spec, KeepsDirection, Contract!Spec
=============================================================================
