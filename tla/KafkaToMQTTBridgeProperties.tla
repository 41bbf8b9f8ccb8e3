--------------------- MODULE KafkaToMQTTBridgeProperties ---------------------
(* The properties of the Kafka to MQTT direction. *)
EXTENDS KafkaToMQTTBridge

Memory ==
    [start: {"idle", "connectConsumer", "connectClient", "startQueue", "setCancel", "spawn",
             "returned", "failed"},
     stop: {"idle", "wait", "stopQueue", "closeReader", "disconnect", "closeChan",
            "returned"},
     loop: {"none", "select", "read", "handle", "report", "done"},
     reader: {"nil", "joining", "open", "closed"},
     client: {"nil", "connected", "disconnected"},
     queue: {"nil", "running", "stopped"},
     cancel: BOOLEAN, cancelled: BOOLEAN,
     wg: 0..1, errors: 0..ErrorCapacity, chan: {"open", "closed"},
     position: 0..LastOffset, inHand: 0..LastOffset]

TypeOK ==
    /\ process \in {"up", "killed", "panicked", "exited"}
    /\ bridge \in Memory
    /\ deadLetterEnabled \in BOOLEAN
    /\ committed \in 0..LastOffset
    /\ published \in [Offsets -> Nat]
    /\ settled \subseteq Offsets
    /\ excused \subseteq Offsets
    /\ joinedAt \in 0..LastOffset
    /\ orderly \in BOOLEAN
    /\ kills \in 0..MaxKills

\* Every committed message behind the point where the group began was published, skipped,
\* handed over or dropped with an error report, or is in hand, or is one of the two losses
\* the code accepts: its commit failed and a later one covered it, or the process was
\* killed with it in hand.  A group without a committed offset begins at the end of the
\* partition (StartOffset: kafka.LastOffset), each time it is joined: what came before is
\* passed over and covered by the first commit.
CommittedIsSettled ==
    \A o \in joinedAt + 1..committed : o \in settled \cup excused \/ o = bridge.inHand

\* Messages are published in the order of the partition and none twice, across any number
\* of kills and restarts: an offset is committed before it is handled.
PublishedInOrder ==
    [][\A o \in Offsets : published'[o] > published[o] =>
           \A later \in o..LastOffset : published[later] = 0]_vars

\* As long as the goroutine runs, what it uses is there: Start has made it before, and a
\* Stop that is called after Start has returned takes it down only when the goroutine has
\* ended.  No failed message is left in a queue that no longer retries.
LoopHasWhatItUses ==
    bridge.loop \notin {"none", "done"} /\ (orderly \/ bridge.stop = "idle") =>
        /\ bridge.reader \in {"joining", "open"}
        /\ bridge.client = "connected"
        /\ bridge.chan = "open"
        /\ deadLetterEnabled => bridge.queue = "running"

\* Once under way nothing gets stuck but a Stop that waits for the goroutine: Start goes
\* on, the goroutine does, also with a full errorChan and a reader that was closed, and
\* so does Stop when the goroutine has ended.
NeverStuck ==
    process = "up" =>
        /\ bridge.start \notin {"idle", "returned", "failed"} => ENABLED <<Start>>_vars
        /\ bridge.loop \notin {"none", "done"} => ENABLED <<Loop>>_vars
        /\ bridge.stop \notin {"idle", "wait", "returned"} => ENABLED <<Stop>>_vars
        /\ bridge.stop = "wait" /\ bridge.loop \in {"none", "done"} => ENABLED <<Stop>>_vars

\* The direction keeps the contract Program builds on: when Stop is called after Start
\* has ended it returns and no send on the closed errorChan panics, and Start always
\* ends.
Contract ==
    INSTANCE Direction
        WITH start <- IF bridge.start \in {"idle", "returned", "failed"}
                        THEN bridge.start ELSE "running",
             stop  <- IF bridge.stop \in {"idle", "returned"} THEN bridge.stop ELSE "running"

KeepsDirection == Contract!Spec

-----------------------------------------------------------------------------
(* Claims *)

\* "Stop gracefully shuts down the bridge" (kafka_to_mqtt.go:81): once it is called
\* the process ends, whatever Start is doing.
StopTerminates == (process = "up" /\ bridge.stop # "idle") ~> (process # "up")
=============================================================================
