-------------------------- MODULE KafkaToMQTTBridge --------------------------
(***************************************************************************)
(* The Kafka to MQTT direction of internal/bridge/kafka_to_mqtt.go: Start, *)
(* run by a goroutine of BidirectionalBridge.Start, the goroutine          *)
(* consumeMessages it spawns, and Stop, called by main on a signal at any  *)
(* time.  The process may be killed and started again.                     *)
(*                                                                         *)
(* The consumer reads one partition with a consumer group: the reader of   *)
(* the library joins the group in the background and begins behind the     *)
(* offset it committed, or at the end of the partition if there is none;   *)
(* it commits an offset before it returns the message.  The dead letter    *)
(* queue is abstracted to the hand-over of a message to it (module         *)
(* DeadLetterQueue says what becomes of it there).                         *)
(***************************************************************************)
EXTENDS Naturals, FiniteSets

CONSTANTS
    LastOffset,         \* the partition holds the offsets 1..LastOffset
    Kind,               \* of each offset: "valid", "invalid" or "skipped"
    ErrorCapacity,      \* capacity of errorChan, 10 in the code
    MaxKills            \* bound: how often the process is killed

Offsets == 1..LastOffset

ASSUME LastOffsetAssumption == LastOffset \in Nat
ASSUME KindAssumption == Kind \in [Offsets -> {"valid", "invalid", "skipped"}]
ASSUME ErrorCapacityAssumption == ErrorCapacity \in Nat
ASSUME MaxKillsAssumption == MaxKills \in Nat

VARIABLES
    process,    \* "up", "killed", "panicked" or "exited"
    bridge,     \* the memory of the process, see FreshMemory
    deadLetterEnabled,  \* dead_letter.enabled, the same for every process
    committed,  \* the last offset committed to the consumer group, 0 if none
    (* history, read by the properties only *)
    published,  \* how often the goroutine has published each offset to MQTT
    settled,    \* offsets published, skipped, handed to the queue or dropped
    excused,    \* offsets whose commit failed, or in hand when the process was killed
    joinedAt,   \* the end of the partition when the group last began without a commit
    orderly,    \* Stop was called after Start had returned
    kills       \* how often the process was killed

history == <<published, settled, excused, joinedAt>>
vars == <<process, bridge, deadLetterEnabled, committed, history, orderly, kills>>

FreshMemory(position) ==
    [start     |-> "idle",    \* how far Start has come
     stop      |-> "idle",    \* how far Stop has come
     loop      |-> "none",    \* where the goroutine consumeMessages is
     reader    |-> "nil",     \* the Kafka reader: "joining" the group until it is "open"
     client    |-> "nil",     \* the MQTT client
     queue     |-> "nil",     \* the dead letter queue
     cancel    |-> FALSE,     \* b.cancel is set
     cancelled |-> FALSE,     \* the context of the goroutine is cancelled
     wg        |-> 0,         \* the count of b.wg
     errors    |-> 0,         \* the errors in errorChan
     chan      |-> "open",    \* errorChan itself
     position  |-> position,  \* the offset the reader reads on behind
     inHand    |-> 0]         \* the offset the goroutine handles, 0 if none

Init ==
    /\ process = "up"
    /\ bridge = FreshMemory(0)
    /\ deadLetterEnabled \in BOOLEAN
    /\ committed = 0
    /\ published = [o \in Offsets |-> 0]
    /\ settled = {}
    /\ excused = {}
    /\ joinedAt = 0
    /\ orderly = FALSE
    /\ kills = 0

-----------------------------------------------------------------------------
(* Start.  A failed step returns an error, which its goroutine only logs. *)

StartStep(from) ==
    /\ process = "up"
    /\ bridge.start = from
    /\ UNCHANGED <<process, deadLetterEnabled, committed, history, orderly, kills>>

\* Seeded fault: a second call of Start is not turned away.
CallStartAgain ==
    /\ process = "up"
    /\ bridge.start \in {"idle", "returned"}
    /\ bridge' = [bridge EXCEPT !.start = "connectConsumer"]
    /\ UNCHANGED <<process, deadLetterEnabled, committed, history, orderly, kills>>

CallStart ==
    /\ StartStep("idle")
    /\ bridge' = [bridge EXCEPT !.start = "connectConsumer"]

ConnectConsumer ==
    /\ StartStep("connectConsumer")
    /\ \/ bridge' = [bridge EXCEPT !.start = "connectClient", !.reader = "joining"]
       \/ bridge' = [bridge EXCEPT !.start = "failed"]

ConnectClient ==
    /\ StartStep("connectClient")
    /\ \/ bridge' = [bridge EXCEPT !.start = "startQueue", !.client = "connected"]
       \/ bridge' = [bridge EXCEPT !.start = "failed"]

\* The producer of the queue may fail to connect; without a queue nothing can fail.
StartQueue ==
    /\ StartStep("startQueue")
    /\ \/ /\ deadLetterEnabled
          /\ \/ bridge' = [bridge EXCEPT !.start = "setCancel", !.queue = "running"]
             \/ bridge' = [bridge EXCEPT !.start = "failed"]
       \/ /\ ~deadLetterEnabled
          /\ bridge' = [bridge EXCEPT !.start = "setCancel"]

SetCancel ==
    /\ StartStep("setCancel")
    /\ bridge' = [bridge EXCEPT !.start = "spawn", !.cancel = TRUE]

Spawn ==
    /\ StartStep("spawn")
    /\ bridge' = [bridge EXCEPT !.start = "returned", !.wg = @ + 1, !.loop = "select"]

-----------------------------------------------------------------------------
(* The reader of the library. *)

\* Seeded fault: the reader starts at the first offset, whatever is committed.
JoinFromFirst ==
    /\ process = "up"
    /\ bridge.reader \in {"joining", "open"}
    /\ bridge' = [bridge EXCEPT !.reader = "open", !.position = 0]
    /\ joinedAt' = 0
    /\ UNCHANGED <<process, deadLetterEnabled, committed, published, settled, excused, orderly,
                   kills>>

\* The reader gets its partition from the group, now or, after a rebalance, again: it reads
\* on behind the committed offset, and without one (StartOffset: kafka.LastOffset) behind
\* whatever has come to the partition so far.
JoinGroup ==
    /\ process = "up"
    /\ bridge.reader \in {"joining", "open"}
    /\ \E end \in bridge.position..LastOffset :
          /\ bridge' = [bridge EXCEPT !.reader = "open",
                                      !.position = IF committed = 0 THEN end ELSE committed]
          /\ joinedAt' = IF committed = 0 THEN end ELSE joinedAt
    /\ UNCHANGED <<process, deadLetterEnabled, committed, published, settled, excused, orderly,
                   kills>>

-----------------------------------------------------------------------------
(* Stop, and the end of BidirectionalBridge.Stop and main. *)

StopStep(from) ==
    /\ process = "up"
    /\ bridge.stop = from
    /\ UNCHANGED <<deadLetterEnabled, committed, history, kills>>

\* Cancel the goroutine if there is a cancel function by now.  The goroutine that runs
\* Start may not even have begun.
CallStop ==
    /\ StopStep("idle")
    /\ bridge' = [bridge EXCEPT !.stop = "wait", !.cancelled = bridge.cancel]
    /\ orderly' = (bridge.start \in {"returned", "failed"})
    /\ UNCHANGED process

\* Seeded fault: Stop does not wait for the goroutine.
DoNotWait ==
    /\ StopStep("wait")
    /\ bridge' = [bridge EXCEPT !.stop = "stopQueue"]
    /\ UNCHANGED <<process, orderly>>

WaitForLoop ==
    /\ StopStep("wait")
    /\ bridge.wg = 0
    /\ bridge' = [bridge EXCEPT !.stop = "stopQueue"]
    /\ UNCHANGED <<process, orderly>>

StopQueue ==
    /\ StopStep("stopQueue")
    /\ bridge' = [bridge EXCEPT !.stop = "closeReader",
                                !.queue = IF @ = "running" THEN "stopped" ELSE @]
    /\ UNCHANGED <<process, orderly>>

CloseReader ==
    /\ StopStep("closeReader")
    /\ bridge' = [bridge EXCEPT !.stop = "disconnect",
                                !.reader = IF @ = "nil" THEN "nil" ELSE "closed"]
    /\ UNCHANGED <<process, orderly>>

Disconnect ==
    /\ StopStep("disconnect")
    /\ bridge' = [bridge EXCEPT !.stop = "closeChan",
                                !.client = IF @ = "connected" THEN "disconnected" ELSE @]
    /\ UNCHANGED <<process, orderly>>

CloseErrorChan ==
    /\ StopStep("closeChan")
    /\ bridge' = [bridge EXCEPT !.stop = "returned", !.chan = "closed"]
    /\ UNCHANGED <<process, orderly>>

\* BidirectionalBridge.Stop waits for the goroutine that runs Start; main returns.
Exit ==
    /\ StopStep("returned")
    /\ bridge.start \in {"returned", "failed"}
    /\ process' = "exited"
    /\ UNCHANGED <<bridge, orderly>>

-----------------------------------------------------------------------------
(* consumeMessages and handleKafkaMessage. *)

LoopStep(from) ==
    /\ process = "up"
    /\ bridge.loop = from
    /\ UNCHANGED <<deadLetterEnabled, orderly, kills>>

LoopEnds ==
    /\ LoopStep("select")
    /\ bridge.cancelled
    /\ bridge' = [bridge EXCEPT !.loop = "done", !.wg = @ - 1]
    /\ UNCHANGED <<process, committed, history>>

LoopContinues ==
    /\ LoopStep("select")
    /\ ~bridge.cancelled
    /\ bridge' = [bridge EXCEPT !.loop = "read"]
    /\ UNCHANGED <<process, committed, history>>

\* ReadMessage fetches the next message, commits its offset and returns it.
ReadMessage ==
    /\ LoopStep("read")
    /\ bridge.reader = "open"
    /\ bridge.position < LastOffset
    /\ committed' = bridge.position + 1
    /\ bridge' = [bridge EXCEPT !.loop = "handle", !.position = @ + 1,
                                !.inHand = bridge.position + 1]
    /\ UNCHANGED <<process, history>>

\* The commit fails, or only its answer is lost: ReadMessage has fetched the message and
\* returns only an error.
CommitFails ==
    /\ LoopStep("read")
    /\ bridge.reader = "open"
    /\ bridge.position < LastOffset
    /\ committed' \in {committed, bridge.position + 1}
    /\ excused' = excused \cup {bridge.position + 1}
    /\ bridge' = [bridge EXCEPT !.loop = "report", !.position = @ + 1]
    /\ UNCHANGED <<process, published, settled, joinedAt>>

\* The broker is away, the context is cancelled, or the reader is closed.
ReadFails ==
    /\ LoopStep("read")
    /\ bridge' = [bridge EXCEPT !.loop = "report"]
    /\ UNCHANGED <<process, committed, history>>

\* The message is settled and the goroutine goes on at label.
Settle(label) ==
    /\ settled' = settled \cup {bridge.inHand}
    /\ bridge' = [bridge EXCEPT !.loop = label, !.inHand = 0]

\* It does not convert, or its MQTT topic is empty: to the queue if there is one.
RejectMessage ==
    /\ LoopStep("handle")
    /\ Kind[bridge.inHand] = "invalid"
    /\ Settle("report")
    /\ UNCHANGED <<process, committed, published, excused, joinedAt>>

\* shouldSkipTopic.
SkipMessage ==
    /\ LoopStep("handle")
    /\ Kind[bridge.inHand] = "skipped"
    /\ Settle("select")
    /\ UNCHANGED <<process, committed, published, excused, joinedAt>>

PublishMessage ==
    /\ LoopStep("handle")
    /\ Kind[bridge.inHand] = "valid"
    /\ bridge.client = "connected"
    /\ published' = [published EXCEPT ![bridge.inHand] = @ + 1]
    /\ Settle("select")
    /\ UNCHANGED <<process, committed, excused, joinedAt>>

\* Seeded fault: a failed publish is forgotten, the queue never hears of it.
ForgetMessage ==
    /\ LoopStep("handle")
    /\ Kind[bridge.inHand] = "valid"
    /\ bridge' = [bridge EXCEPT !.loop = "report", !.inHand = 0]
    /\ UNCHANGED <<process, committed, history>>

\* To the queue if there is one, else the message is dropped.  The broker may have got it
\* all the same when the error is a connection lost before the acknowledgement.
PublishFails ==
    /\ LoopStep("handle")
    /\ Kind[bridge.inHand] = "valid"
    /\ \/ UNCHANGED published
       \/ /\ bridge.client = "connected"
          /\ published' = [published EXCEPT ![bridge.inHand] = @ + 1]
    /\ Settle("report")
    /\ UNCHANGED <<process, committed, excused, joinedAt>>

\* Seeded fault: the send waits until there is room in the channel.
ReportErrorWaiting ==
    /\ LoopStep("report")
    /\ bridge.chan = "open"
    /\ bridge.errors < ErrorCapacity
    /\ bridge' = [bridge EXCEPT !.loop = "select", !.errors = @ + 1]
    /\ UNCHANGED <<process, committed, history>>

\* reportError: a full channel drops the error; a closed one panics, for a select
\* with a send on a closed channel never takes its default.
ReportError ==
    /\ LoopStep("report")
    /\ \/ /\ bridge.chan = "open"
          /\ bridge' = [bridge EXCEPT !.loop = "select",
                            !.errors = IF @ < ErrorCapacity THEN @ + 1 ELSE @]
          /\ UNCHANGED process
       \/ /\ bridge.chan = "closed"
          /\ process' = "panicked"
          /\ UNCHANGED bridge
    /\ UNCHANGED <<committed, history>>

-----------------------------------------------------------------------------
(* The process. *)

Kill ==
    /\ process = "up"
    /\ kills < MaxKills
    /\ process' = "killed"
    /\ excused' = excused \cup ({bridge.inHand} \ {0})
    /\ kills' = kills + 1
    /\ UNCHANGED <<bridge, deadLetterEnabled, committed, published, settled, joinedAt, orderly>>

\* A new process.  The partition still ends at or behind what was read of it.
Restart ==
    /\ process = "killed"
    /\ process' = "up"
    /\ bridge' = FreshMemory(bridge.position)
    /\ orderly' = FALSE
    /\ UNCHANGED <<deadLetterEnabled, committed, history, kills>>

Rest == process \in {"panicked", "exited"} /\ UNCHANGED vars

Start ==
    \/ CallStart \/ ConnectConsumer \/ ConnectClient \/ StartQueue \/ SetCancel \/ Spawn

\* Stop once it is called.
Stop ==
    \/ WaitForLoop \/ StopQueue \/ CloseReader \/ Disconnect \/ CloseErrorChan \/ Exit

Handle == RejectMessage \/ SkipMessage \/ PublishMessage \/ PublishFails

Loop ==
    \/ LoopEnds \/ LoopContinues
    \/ ReadMessage \/ CommitFails \/ ReadFails
    \/ Handle
    \/ ReportError

Next == Start \/ JoinGroup \/ CallStop \/ Stop \/ Loop \/ Kill \/ Restart \/ Rest

\* Every goroutine that can run does, and every connection attempt, read and
\* publish returns.  Nothing makes Stop be called.
Fairness == WF_vars(Start) /\ WF_vars(Stop) /\ WF_vars(Loop)

SafetySpec == Init /\ [][Next]_vars
Spec == SafetySpec /\ Fairness
=============================================================================
