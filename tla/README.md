# gom2k in TLA+

gom2k forwards messages between an MQTT broker and Kafka, in both directions. These
modules model it from the loading of its configuration to the end of its process: the
parts where goroutines, failures and restarts meet, each on its own and composed, and the
way of a message through both directions. TLC checks them on small instances, and TLAPS
proves their safety properties, and some of the liveness, for every instance.

Contents: the inventory of the system, the correspondence of modules and code, the runs,
fairness, the proofs, the disagreements met, what is left out, and the plan.

## The system

| component | state | operations | interacts with |
|---|---|---|---|
| Dead letter queue, `internal/bridge/deadletter.go` | map of records of failed messages, `messageMutex`, ticker, `stopChan` | `Start`, `Stop`, `HandleFailedMessage`, goroutine `processRetries` | called by both directions; sends through the producer and the MQTT client |
| Kafka producer, `internal/kafka/producer.go` | writer, cache of created topics, `topicMutex` | `Connect`, `WriteMessage(s)`, `createTopicIfNeeded`, `Close` | called by the MQTT callback and by the retry goroutine |
| Kafka to MQTT, `internal/bridge/kafka_to_mqtt.go` | consumer, client, queue, `cancel`, `wg`, `errorChan` | `Start`, `Stop`, goroutine `consumeMessages` | started by a goroutine of the bidirectional bridge, stopped by main |
| MQTT to Kafka, `internal/bridge/mqtt_to_kafka.go` | client, producer, queue, `errorChan` | `Start`, `Stop`, callback `handleMQTTMessage`, goroutine `monitorErrors`, topic mapping | the same |
| Kafka consumer, `internal/kafka/consumer.go` | reader, list of topics | `Connect` with topic discovery, `ReadMessage`, `Close`, conversion | used by Kafka to MQTT |
| MQTT client, `internal/mqtt/client.go` | paho client, message handler | `Connect`, `Subscribe`, `Publish`, `Disconnect`, connection callbacks | used by both directions and the queue |
| Bidirectional bridge, `internal/bridge/bidirectional.go` | both directions, `wg` | `Start`, `Stop` | called by main |
| Configuration, `internal/config`, `pkg/types` | none after loading | two loaders: decoding, workarounds, defaults, validation | read by everything |
| Validation, `pkg/validation` | none | hosts, ports, broker addresses, certificate paths, sanitizers | called by the loaders |
| Command line, `cmd/gom2k/main.go` | none | load, start, wait for a signal, stop; test modes | the loader and the bidirectional bridge |

Hard here: the retry pass works on a copy of the records while the forwarding goroutine
changes them; two critical sections do what should be one; sends are made under a mutex; a
key that need not be unique names a record; `Stop` runs in main while `Start` may still
run in its own goroutine; the MQTT callback publishes through the client that calls it;
the offset of a Kafka message is committed before the message is handled; a message comes
back to the direction that sent it; what a key of the configuration means depends on how
two libraries spell it. `PROJECT.json` lists each of these at its line under `hazards`.

What makes each part correct:

- *Dead letter queue*: a failed message is never forgotten, never sent twice, never both
  delivered and given up; attempts are counted per message, and no dead letter is made
  before they are used up; every failure is resolved while the queue runs; `Stop` returns.
- *Producer*: nil means stored; a missing topic is requested once; every call returns.
- *Kafka to MQTT*: the goroutine publishes a message at most once and in partition order
  across kills; a committed message is not silently dropped; an orderly `Stop` ends, does
  not panic and takes nothing down that is in use.
- *MQTT to Kafka*: the topic mapping; no message is lost between the broker and Kafka, or
  stored again when a send of it was answered or it was given up; only failed messages are
  overtaken; every message the broker sends is answered; `Stop` ends, and takes nothing
  down under the retrier.
- *Both directions together*: a message keeps its topic and payload; messages, dead
  letters and old retained values go round only where the configuration makes the
  directions meet; elsewhere the bridge falls silent.
- *Configuration*: what loads can be used; the two copies of the loader agree; every key
  takes effect (it does not).
- *Process*: each direction is started and stopped once, and a signal ends the program.

## The modules

How they depend on each other:

```
 RetryContract <= DeadLetterQueue <= MQTTToKafkaBridge --.
 SendContract  <= KafkaProducer                           |=> Direction <- Program <- Configuration
                                     KafkaToMQTTBridge --'
 TopicMapping                        MessageFlow (both directions over one broker and one cluster)
```

`A <= B` is a refinement that is checked and proved: B implements A, or, for the queue and
the MQTT to Kafka direction, what happens to A inside B is a behaviour of A. `Direction` is
what each direction implements and what `Program` instantiates for its two directions.
For each machine `X`, `XProperties` states the properties, `MCX` holds the instances and
`XProofs` the theorems.

### Dead letter queue

`RetryContract` is the abstract specification: message by message, tried until delivered
or failed `Limit` times, then abandoned and left alone.

`DeadLetterQueue` is the queue. Its two threads are the *forwarder*, the goroutine that
forwards a message for the first time (the MQTT callback or the consume loop), and the
*retrier*, the goroutine `processRetries`. A queue belongs to one direction, and each
direction has one forwarder: paho calls the handler of one message after the other, and
there is one consume loop.

| code | model |
|---|---|
| `failedMessages` and the records in it | `failedMessages` (key to message), `attemptCount`, `due` |
| `messageMutex` | `messageMutex`; a critical section without a send is one action, the one of `HandleFailedMessage` that sends dead letters holds the mutex over three |
| `LastAttempt` and `RetryInterval` | `due`, set by `Elapse` and reset by a failure |
| the ticker | `tick`, the one buffered element of its channel |
| the copy made by `retryFailedMessages` | `messagesToRetry`; a map has no order, so any element may be next |
| `createMessageKey` | the pair of topic and second (MQTT) or Kafka key |
| `Start`, `Stop` | `lifecycle`: `created`, `running`, `closing` (stopChan closed), `waiting` (ticker stopped), `stopped` |
| a failed send, a failed conversion | `ForwardFails`, `RetryFails` |

A record is identified by the message it was made for. That is enough: only the retrier
can make a second record of a message, after the first was deleted, and by then its
snapshot no longer holds the first. The retrier reads `LastAttempt` without the mutex; a
read that overlaps a write is taken to see the old or the new value.
`deliveries`, `failures`, `deadLetters` and `abandoned` are history variables that no
guard reads. A delivery is a send that was answered without an error.

`Owners` are the messages whose key no other message has. What the properties say of a
message, whether it is lost, tried again or given up, they say of the owners, while the
other messages overwrite and delete each other's records; only that no message is sent
twice, that no spent record waits, and what concerns the threads holds of every message.

### Kafka producer

`SendContract` is the abstract specification: a call that answers nil has stored its
message, one that answers an error may have stored it. `KafkaProducer` is the producer
shared by several callers, one action per step between two points where another goroutine
can run: the first write, the lookup under the mutex, the dial, the creation, the sleep,
the second write. The cluster is external: it may create or lose an answer, and topics
may appear on their own. `handleTopicCreationResult` turns every error of `CreateTopics`
into nil, which is why `CreateTopic` caches the topic in both cases.

### Direction

`Direction` is what `main` and the bidirectional bridge may rely on in one direction.
`Start` runs in a goroutine of its own and `Stop` in main, so `Stop` may come at any time.
Called when `Start` has ended, or will never be called, it is *orderly*: it returns and
nothing panics. Called earlier it may wait for ever, or return and leave a goroutine that
panics. `Start` always ends. Both directions implement it (`KeepsDirection`); MQTT to Kafka
only where the library can hold the messages that arrive, see below.

### Kafka to MQTT

`KafkaToMQTTBridge` composes `Start` (one step per connection), `Stop` (one step per thing
it takes down), the consume goroutine, the reader of the library, and the process, which
may be killed and restarted. The memory of the process is one record, `bridge`, which a
restart replaces. The dead letter queue appears as `nil`, `running` or `stopped` and as the
place failed messages are handed to; `Stop` of the queue is one step here and is shown to
return in `DeadLetterQueue`. The reader of the library commits the offset inside
`ReadMessage`; when the commit fails, or only its answer is lost, the message has been
fetched and is skipped until a restart (`CommitFails`). Likewise a publish that fails may
have reached the broker (`PublishFails`); that the queue then publishes the message again
is beyond this module, whose `published` counts what the goroutine publishes.

The reader joins its group in the background once `Connect` has made it, and again at every
rebalance (`JoinGroup`). It reads on behind the committed offset. A group that has
committed nothing begins at the end of the partition (`StartOffset: kafka.LastOffset`), and
the partition ends anywhere from the last offset the process has reached on. So what
arrives before the first commit, while the process is down, is passed over and then covered
by that commit. The code accepts this loss: `CommittedIsSettled` is about the messages
behind `joinedAt`, the point where the group last began without a committed offset.

### MQTT to Kafka

`MQTTToKafkaBridge` composes `Start`, `Stop` and the callback with the queue,
`Queue == INSTANCE DeadLetterQueue`, over the queue's variables. `Start`, `Stop` and the
retry goroutine call the queue's actions, as the code calls its methods. The callback is the
bridge's own (`TakeMessage`, `WriteSucceeds`, `WriteFails`): it is called when the library
has a message and the callback is idle, and asks nothing of the queue. That it fits the
queue's forwarder, which takes each message once and only from a started queue, is what
`KeepsQueue` shows: `Start` subscribes after it has started the queue, and a message is
nowhere twice on its way from the broker to the callback.

| code | model |
|---|---|
| how far `Start` and `Stop` are | `start`, `stop`; one step per connection, subscription, or thing taken down |
| `mqttClient`, `kafkaProducer` | `client`, `producer` |
| `handleMQTTMessage` up to the answer of the producer | `HandleMessage`, with `TakeMessage` and the two answers `WriteSucceeds` and `WriteFails`; the rest of a failure is `HandleFailedMessage("forwarder")` |
| `Publish` of a dead letter and `token.Wait()` in it | `PublishDeadLetter`, then `EndDeadLetter` once `token` is done |
| the MQTT library (external) | `wire`, packets not read; `inbound`, messages read and not handed over; `token` |
| the broker (external) | `BrokerSends`, `BrokerAcks` |

The library calls handlers in order, one at a time, from one stream that carries messages
and acknowledgements. While the callback is busy it holds `InboundSlots` messages and then
reads no further. `Subscribe` is one step for all topics: messages come from the first
topic on, also when the broker refuses a later one and `Start` fails; its own
acknowledgements are not put on the wire. The producer and the client may refuse a send at
any time, and do once they are closed; before that, a send to Kafka that fails may have
stored its message all the same, as `SendContract` has it (`FailedSend`). So Kafka may hold
a message twice, or one that was given up; what `OutcomeIsFinal` says is that nobody sends
a message again after a send that was answered, or after it was given up. The model has the
dead letter queue enabled: without it the callback has no state. `reportError` and
`monitorErrors` never block and only log, and are left out.

### Topic mapping

`TopicMapping` is the single pass of `mapMQTTToKafkaTopic`, one step per separator, and
`TopicMappingProperties` compares it with a recursive function, `NameOf`. A level or a
Kafka topic is a sequence of characters, of which only the dot matters: it is what a
separator becomes, and a level may hold one of its own. So `a.b` and `a/b` are one Kafka
topic; `SharedOnlyByFirstLevels` says that topics without dots are never merged before the
cut unless their first levels agree. The empty topic is one empty level and yields the
prefix and a dot.

### Configuration and program

`Configuration` is both loaders as functions of what a file sets: the decoder, the
workarounds, the defaults, the validation of hosts, ports, addresses and certificate paths,
and which connections to Kafka the loaded settings can make. A file is a record of its
state (missing, malformed, well formed) and of the keys it sets; a host is its labels, a
location is what the checks and the decoders of certificates find there. The place of a
location is within an allowed directory, beside one (in a directory whose name begins with
the allowed one's), or elsewhere: the code compares text, so it lets the first two pass,
and `LoadedIsUsable` claims no more. Its file is the one a symbolic link leads to, for
`os.Stat` follows links. Two libraries are external: the decoder, which matches keys with
the names of fields and not with their `yaml` tags (taken from the workarounds that repair
six of them), and the PKCS #12 decoder, whose two functions want a private key or forbid
one.

`Program` is `main` and the bidirectional bridge: load, launch the enabled directions,
install the signal handler, wait, stop one direction after the other, wait for the group.
Each direction is an instance of `Direction` over its own variables (`MK`, `KM`) and the
one process; whether its `Start` can succeed depends on the loaded configuration. A signal
before `Notify` kills the process, one that finds the channel full is dropped.

### Message flow

`MessageFlow` puts both directions between one broker and one cluster and follows
messages: what is retained, delivered, logged, read, skipped, published again, and made a
dead letter. A message carries how often it was forwarded and how often it was made a dead
letter, which the program does not know.

| code | model |
|---|---|
| `handleMQTTMessage`, `ConvertMQTTMessage`, the callback with `RetainOnly` | `HandleMQTTMessage`, `Accepted` |
| `handleKafkaMessage`, `ConvertKafkaMessage`, `shouldSkipTopic` | `HandleKafkaMessage` |
| `sendToDeadLetterQueue` | `Fails`, `DeadLetter` |
| `discoverKafkaTopics` and the choice of one topic | `ConnectConsumer`: any topic with the prefix, empty or not, or the default topic while none need exist |
| `Subscribe`; the connection callbacks, which only log | `Subscribe`; `LoseConnection`, after which nothing is received |
| broker, cluster, devices (external) | `retained`, `inbox`; `topic`, `committed`; `DevicePublishes` |

A handler is one step here, since the modules above say what happens inside it. Left out
are retries (a failing message becomes a dead letter or is lost), what a failed send stored
all the same, QoS and timestamps. The dead letter queue and `retain_only` may be on or off,
as the code of the bridge allows and its tests construct it; a configuration loaded from a
file never switches them on, which is `configuration_keys_ignored`.

## The runs

| run | instance | shows |
|---|---|---|
| `dead_letter_queue` | 3 messages, one with a key of its own, two that share one, 3 attempts, both dead letter topics | types, no loss, one outcome, honest counts of attempts, refinement of `RetryContract`, every failure is resolved, `Stop` returns |
| `producer_shared` | 2 callers, 2 topics, creation on and off | one request per topic, made before the retry, refinement of `SendContract`, every call returns |
| `kafka_to_mqtt_safety` | 4 offsets of every kind, 2 kills, error channel of 2, with and without a queue | order and no repetition, nothing dropped behind the point where the group began, nothing taken down under the goroutine, nothing stuck, refinement of `Direction` |
| `mqtt_to_kafka` | 2 messages of one topic, 2 attempts, a dead letter topic on MQTT, the library holds 1 message | no message before the queue is started and none twice, no loss, an outcome is final, order, shutdown, every message is answered, `Stop` ends the process, refinement of `Direction` |
| `topic_mapping` | every topic of 1 to 4 levels of 0 to 2 characters, limit 3 levels and 7 characters | the first levels are taken, exactly the names that are too long are cut, which topics share a name |
| `program` | about 950 files, 2 signals | what is loaded is usable, both loaders agree, SSL runs one direction, both directions are called as `Direction` assumes, main is never stuck after a signal, a signal ends the program |
| `message_flow` | 4 topics, 3 kinds of message, 16 configurations, 2 messages, 3 hops, 2 failures, 1 restart | what a message keeps, where it goes round, that the bridge falls silent elsewhere |
| `dlq_shared_key_loss`, `kafka_to_mqtt_stop_race`, `mqtt_to_kafka_stop_deadlock`, `configuration_keys_ignored`, `message_loop` | the same or smaller | a claim of the repository that the code does not keep, see below |

Why the bounds are enough. Two messages are the least for which a snapshot goes stale and a
key is shared; the third in `dead_letter_queue` has a key of its own beside them. Three
attempts have a first, a middle and a last failure. Two callers and two topics give
contention for one topic and for the mutex alone. Two kills allow a restart after a
restart; the four offsets hold each kind of message between two that are published.
`ErrorCapacity` is 2 instead of 10, so that the channel fills up within four offsets. A
length limit of 7 instead of 249 is short of, met and passed by the names of the instance,
with a dot at the cut in some of them. In `mqtt_to_kafka` the library holds every message
that can arrive while the callback handles another (`InboundSlots` is the number of
messages less one): under that condition every message is answered and `Stop` ends. A dead
letter goes to MQTT only, the topic that makes the callback wait; `dead_letter_queue` has
both. With one slot less the direction deadlocks, which is what
`mqtt_to_kafka_stop_deadlock` shows with three messages and one slot.

In `program` names are of at most 4 characters instead of 253 and labels of at most 2
instead of 63, with labels of up to 3 and names of up to 5 among the files: every kind of
character at every place, every limit met and passed. A file sets the least that is
accepted and, beyond it, the keys that are judged together. Two signals are one that is
received and one that finds main stopping. In `message_flow` two of the topics share a
Kafka topic and two are skipped; a message makes three hops, one more than it takes to go
round; the second failure makes a dead letter of a dead letter; the second message
overtakes the first as retained value; and one restart gives a second subscription.

No state constraint is used: `MaxKills`, `MaxSignals`, `MaxMessages`, `MaxHops`,
`MaxFailures` and `MaxRestarts` bound what would grow, in the guards; the rest are finite
inputs. A message at `MaxHops` stays unread, which can only happen where it may circulate.

Deadlock is checked in every run but three. `mqtt_to_kafka_stop_deadlock` is about one and
states it as a `Stop` that never ends; in `message_flow` and `message_loop` everything may
come to rest, for devices need not send. Elsewhere a process that may rest does so by an
action of its own (`Rest`, `Done`), enabled only where it may.

## Fairness

- *Dead letter queue*: weak fairness of the retrier, of the forwarder inside
  `HandleFailedMessage`, of `Stop` once it was called, of time (`Elapse`) and of the
  ticker. Nothing forces a message to arrive, a send to succeed or `Stop` to be called.
- *Producer*: strong fairness of each caller that is in a call. A goroutine waiting for
  `topicMutex` sees it locked and unlocked by others; Go's mutex hands itself to a waiter
  that starves, which is what strong fairness says.
- *Kafka to MQTT*: weak fairness of `Start`, of `Stop` once called, and of the consume
  goroutine.
- *MQTT to Kafka*: weak fairness of `Start`, of `Stop` once called, of the callback, of
  the retry goroutine, of time, of the library that reads, and of the broker that
  acknowledges. The callback and the retry goroutine both wait for `messageMutex`; weak
  fairness is enough, since a record is given up after finitely many attempts.
- *Program*: weak fairness of main, of the launched goroutines, of the end of each
  `Start` (brokers answer or time out), and of the return of a `Stop` that is orderly,
  which is what `Direction` promises. Nothing forces a signal.
- *Message flow*: weak fairness of both handlers. Nothing forces a device to send, a
  client to subscribe or a consumer to connect.

All of it assumes that a write to Kafka, a dial and a connection attempt return. The code
waits for MQTT tokens without a timeout. In `MQTTToKafkaBridge` that wait is modelled, with
a broker that acknowledges; in the other modules a publish is assumed to return, which for
a client that reconnects for ever is an assumption about the broker, not something the
code enforces.

## What is proved

Every safety property of the passing runs is a theorem, for all values of the constants,
but `NeverStuck`, which is about `ENABLED`. Hardly one is inductive by itself; each module
of proofs has an invariant `IInv` that is, with one lemma for each group of actions.

*Dead letter queue.* `DeadLetterQueueProofs` proves, whatever keys messages share, of every
`max_retries` and every choice of dead letter topics, `TypeOK`, that no message is
delivered twice (`AtMostOnceDelivery`) and that no spent record waits
(`RecordsHaveAttemptsLeft`). That a retry may send says nothing about why the message was
not sent before, so `IInv` adds where the threads can be, that the holder of the mutex is
the thread inside the sends, that a record lies under the key of its own message, and the
heart of it (`DeliveredInv`): a delivered message has no record, is in no snapshot and in
nobody's hand, except in the window between the successful retry and the delete that
follows it. `DeadLetterQueueContractProofs` proves `NoMessageLost`, `AtMostOneOutcome`,
`HonestRecords` and the refinement `KeepsContract`, all of them for every message with a
key of its own and whatever keys the others share: nobody else's failure reaches its
record, for a record lies under the key of its message (`OwnKeyInv`). Its second invariant,
`UInv`, relates each record to the history of its message: the count of the record is the
number of failures, a message given up has failed `AttemptLimit` times, a message with
failures and no outcome has a record or is on its way to one. That a dead letter comes
neither early nor beside a delivery takes one more (`DeadLetterInv`): a message is in a
dead letter topic only once it is given up, or while the thread that gives it up is between
the two sends, holding the mutex over a record that is spent, and in both cases it was
received and never delivered. `dlq_shared_key_loss` shows what happens to messages that do
share a key.

*Producer.* `KafkaProducerProofs` proves `TypeOK`, `OneRequestBeforeRetry` and the
refinement `KeepsSendContract`, for any number of callers and topics. Who is between lookup
and creation holds the mutex, and the cache holds exactly the topics that were asked for;
so whoever is about to ask has a topic nobody asked for.

*Kafka to MQTT.* `KafkaToMQTTBridgeProofs` proves `TypeOK`, `CommittedIsSettled`,
`LoopHasWhatItUses` and `PublishedInOrder`, for any partition and any number of kills. A
message in hand is the last one read and the last one committed; everything between the
point where the group began and the reader is settled, excused or in hand; what was
published is committed and no longer in hand, so that joining the group again, at the
committed offset or at the end, brings none of it back; and an orderly `Stop` takes nothing
down before the goroutine is gone. The whole refinement `KeepsDirection` is proved too, its
safety from the invariant (`DirectionKept`) and its liveness under the hypothesis
`[]NeverStuck` (`DirectionImplemented`): each step of `Start` leads to the next or to an
error; while an orderly `Stop` waits, the context of the goroutine is cancelled, so it goes
through the message in hand to its end and not round again; and then each step of `Stop`
leads to the next. Each of these is one use of weak fairness.

*MQTT to Kafka.* `MQTTToKafkaBridgeProofs` proves `KeepsQueue`, `TypeOK`,
`RetrierEndsFirst`, the safety part of `KeepsDirection`, and `OnlyFailedAreOvertaken`: the
messages that have not reached the callback wait in the order of their arrival, those that
have are a prefix of the arrivals, and the queue holds only messages that have failed.
`KeepsQueue` rests on two parts of the invariant: once anything is subscribed to or sent,
the queue has been started (`StartedInv`), and what the library holds are arrivals that the
callback has not had (`HandoverInv`); together they say that the callback is a step of the
queue's forwarder (`FirstHandover`). Since every behaviour of the bridge is one of the
queue, the queue's theorems hold inside it (`QueueProofs`, an instance of
`DeadLetterQueueContractProofs` over the bridge's variables), and they give
`OutcomeIsFinal` and `EveryMessageAccounted`. The bridge adds what the queue cannot know: a
delivered message is in the log of Kafka (`LogInv`; the converse fails, for a failed send
may store), whoever stores a message holds it as the queue's forwarder or retrier, and a
message that the broker has sent and the library no longer holds has reached the callback.

*Topic mapping.* `TopicMappingProofs` proves `TakesFirstLevels`, `CutToFit` and
`SharedOnlyByFirstLevels` for topics of any number of levels of any length. The recursive
function is shown to satisfy its equations by induction over the set of numbers for which
it does (`Induction`, from the well-foundedness of `<` on the naturals). That topics
without dots share a name only by their levels is shown by splitting a name at its last
dot, level by level.

*Program.* `ProgramProofs` proves, for every set of files, `TypeOK`, `DirectionsKept`,
`LoadedIsUsable`, `LoadersAgree` and `SSLStartsOneDirection`. What carries `DirectionsKept`
is where main is while a `Stop` runs (`CallsInOrder`), and that no file enables the dead
letter queue: its key is neither spelled like its field nor among the workarounds, so the
ticker, which would panic without an interval, is never made. `SignalEnds` proves `Spec /\
[]NeverStuck => SignalEndsProgram`: from the signal main goes through the two `Stop`s to
the end, each step by weak fairness, for nothing else leaves a place on this way but a
panic or a kill, which end the process too. That the next step is enabled at each place is
`NeverStuck`; the prover knows nothing of `ENABLED`, so that part is the hypothesis of the
theorem and TLC checks it in the run `program`.

*Message flow.* `MessageFlowProofs` proves `TypeOK`, `RoundTrip` and
`LoopsOnlyWhereExpected` for every set of topics, every mapping and all bounds. `IInv` says
what each copy of a message owes to the place it is in: a delivery has a subscribed topic,
a record lies in the Kafka topic of its MQTT topic, and one that was forwarded and is back
at the broker was read from a topic the process consumed. With `retain_only` a message has
been forwarded at most once for each subscription, for only a new one delivers the flag.

The proofs rest on the named assumptions of the modules and on nothing else. They say that
placeholders are not among the things they stand for (`MessagesAssumption`,
`CallersAssumption`, `TopicsAssumption`), give constants their types (`KeyPartsAssumption`,
`MaxRetriesAssumption`, `DeadLetterTopicsAssumption`, `LastOffsetAssumption`,
`KindAssumption`, `ErrorCapacityAssumption`, `MaxKillsAssumption`, `QueueAssumption`,
`InboundSlotsAssumption`, `DeviceMessagesAssumption`, `KafkaTopicsAssumption`,
`BoundsAssumption`, `LengthsAssumption`, `SignalsAssumption`, and for the topic mapping
`DotAssumption`, `PrefixAssumption`, `MaxTopicLevelsAssumption`, `MaxLengthAssumption`),
that no message arrives twice (`ArrivalsAssumption`), and that a file sets only keys there
are, with hosts that are sequences of labels (`FilesAssumption`).

Two theorems about liveness have a hypothesis that is not proved, `[]NeverStuck`. It is of
the form *here this action is enabled*; the prover takes `ENABLED` for an unknown, so TLC
checks it, in the same runs as the properties that follow from it. It is no small matter
either: a `reportError` that waited for room in the channel would break it.

Only model-checked: `NeverStuck`, and the liveness that needs induction over the records,
the arrivals or the callers under fairness (`EveryFailureResolved`, the two
`StopTerminates`, `EveryCallReturns`, `EveryMessageHandled`, `FallsSilent`, and the
liveness part of `KeepsDirection` in MQTT to Kafka, whose `Stop` waits for a pass over the
records).

## Where code and documents disagree

With a run:

- `createMessageKey creates a unique key` (`deadletter.go:260`): it is the topic and the
  *second* of an MQTT message. The second message of a topic within a second that fails
  is recorded nowhere (`dlq_shared_key_loss`).
- `Stop gracefully shuts down the bridge` (`kafka_to_mqtt.go:81`): when `Stop` looks for
  the cancel function just before `Start` sets it, it waits for ever
  (`kafka_to_mqtt_stop_race`).
- `Stop gracefully shuts down the bridge` (`mqtt_to_kafka.go:68`): the callback waits for
  the acknowledgement of a dead letter, holding `messageMutex`, while the library cannot
  read past the next message; the queue's `Stop`, which comes before `Disconnect`, waits
  for the retry goroutine, and that for the mutex (`mqtt_to_kafka_stop_deadlock`). It takes
  a dead letter topic on MQTT, and it rests on how the external library delivers messages
  in order, the default the client leaves as it is.
- `fixes viper's boolean and nested struct unmarshaling issues` (`loader_simple.go:155`):
  six keys are repaired; the others whose name differs from their field's, among them
  `use_tls`, `retain_only`, `kafka_prefix` and all of `dead_letter`, have no effect
  (`configuration_keys_ignored`).
- `Check if this topic should be republished (avoid loops)` (`kafka_to_mqtt.go:164`): only
  two prefixes are skipped; any other message that is subscribed to and consumed goes round
  for ever (`message_loop`).

Without a run of their own:

- `Retry failed messages up to 3 times` (`bridge-config-dlq-example.yaml:26`): the first
  failure counts as an attempt, so `max_retries: 3` means two retries.
- `Channel full or closed, log additional warning` (`kafka_to_mqtt.go:208`): a send on a
  closed channel panics inside a `select` too; it is the `Panic` of `Direction`.
- `(truncated at 3 levels)` (`sample-config.yaml:102`, and `README.md:63`): the prefix is
  not counted among the levels.
- `Failed messages sent to this Kafka topic` (`bridge-config-dlq-example.yaml:24`, and line
  25 for MQTT): the errors of both sends are only logged and the record is deleted all the
  same, so a message that is given up may be in no dead letter topic (`deadletter.go:122`).
- A message that fails between the `Stop` of the queue and `Disconnect` is recorded and
  never retried; a topic whose creation failed is cached as created (`producer.go:300`).
- `Start` of the bidirectional bridge neither blocks nor reports an error of a direction,
  as its comment says it does (`bidirectional.go:38`).
- `GetTopics` lists all discovered topics, one of which is read (`consumer.go:176`).
- After an automatic reconnect the client only logs (`client.go:152`): with a clean session
  nothing is subscribed to any more.
- `Preserves QoS, retain flags` (`README.md:11`): the broker delivers live messages without
  the flag, so it is lost on the way to Kafka, and a retained message that comes back
  replaces a newer one (`LoopsOnlyWhereExpected` says where).
- `Check if the file path is within the allowed directory` (`paths.go:48`): the test is
  `strings.HasPrefix` without a separator, so a path in a directory whose name begins with
  the allowed one's passes too.
- `Ensure it's a regular file (not a directory, symlink, etc.)` (`paths.go:68`): `os.Stat`
  has followed the link, so one that leads to a regular file is accepted.
- The test `TestTopicMappingEdgeCases` expects the bare prefix for the empty topic
  (`mapping_test.go:87`), but runs a copy of the mapping that returns early
  (`mapping_test.go:201`); the mapping of the bridge yields the prefix and a dot, as
  `TakesFirstLevels` says.
- The loader for test modes is said to skip validation; it skips that of the SSL files
  only.
- The protocol `ssl` in lower case is plain text to the validation and the consumer and TLS
  to the producer; with `SSL` the two directions cannot both start
  (`SSLStartsOneDirection`).

## What is not modelled

- The sanitizers of credentials and the dial options: they rewrite or hand over text that
  nothing else looks at.
- The test modes of the command line but for their loader: they connect, print and end.
- QoS and timestamps, payloads beyond whether they are text, client identifiers.
- Overlapping subscriptions: a message is delivered once for each client.
- The error channel of MQTT to Kafka and its monitor, which only log, and the counters read
  by `GetStatus` and `GetFailedMessageCount`, which change nothing.
- Sends to Kafka that never return, and the copies that the attempts of one send leave
  there (`KafkaProducer` has the two writes; in `MQTTToKafkaBridge` a send stores once or
  not at all).

Within one process the memory model of Go is taken to be sequentially consistent,
except for the unsynchronised fields named above, whose reads are separate steps.

## Plan

What is left, in order of use:

1. The clients' identifiers: two clients with one identifier take the session from each
   other, which matters once the key `client_id` takes effect.
2. `MessageFlow` with the retries of the queue, so that a message can come back while it
   waits for its retry.
3. `MQTTToKafkaBridge` without the dead letter queue, with the error channel.
4. The liveness of MQTT to Kafka under a `NeverStuck` of its own, by induction over the
   records a pass has left.
