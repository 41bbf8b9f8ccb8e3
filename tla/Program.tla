------------------------------- MODULE Program -------------------------------
(***************************************************************************)
(* The process (cmd/gom2k/main.go) and the bridge of both directions       *)
(* (internal/bridge/bidirectional.go): load the configuration, launch the  *)
(* enabled directions, wait for a signal, stop both, wait for the launched *)
(* goroutines.  Each direction behaves as Direction says, and whether its  *)
(* Start succeeds depends on the loaded configuration.  Left out: the test *)
(* modes of the command line, of which only the loader is modelled.        *)
(***************************************************************************)
EXTENDS Configuration

CONSTANTS
    Files,        \* the configuration files the path may lead to
    MaxSignals    \* bound on the signals that are sent

ASSUME SignalsAssumption == MaxSignals \in Nat
ASSUME FilesAssumption ==
    \A f \in Files :
        /\ DOMAIN f.set \subseteq Keys
        /\ "host" \in DOMAIN f.set => f.set["host"].labels \in Seq(Seq(STRING))
        /\ "brokers" \in DOMAIN f.set =>
              \A address \in Range(f.set["brokers"]) :
                  address.host.labels \in Seq(Seq(STRING))

VARIABLES
    main,        \* where the main goroutine is
    process,     \* "up", "exited", "fatal", "killed", "panickedMK" or "panickedKM"
    file,        \* the file that GetConfigPath names
    config,      \* what main loaded from it
    pending,     \* the channel of signals, which holds one, is full
    signals,     \* signals sent so far
    startMK, stopMK, orderlyMK,    \* MQTT to Kafka, as in Direction
    startKM, stopKM, orderlyKM     \* Kafka to MQTT

directionMK == <<startMK, stopMK, orderlyMK>>
directionKM == <<startKM, stopKM, orderlyKM>>
vars == <<main, process, file, config, pending, signals, directionMK, directionKM>>

\* To one direction a panic of the other, or a call of log.Fatal in main, is a kill.
SeenBy(panicked) ==
    CASE process = panicked -> "panicked"
      [] process \in {"fatal", "panickedMK", "panickedKM"} \ {panicked} -> "killed"
      [] OTHER -> process

MK == INSTANCE Direction WITH process <- SeenBy("panickedMK"), start <- startMK,
                              stop <- stopMK, orderly <- orderlyMK
KM == INSTANCE Direction WITH process <- SeenBy("panickedKM"), start <- startKM,
                              stop <- stopKM, orderly <- orderlyKM

Init ==
    /\ main = "load" /\ process = "up"
    /\ file \in Files /\ config = Zero
    /\ pending = FALSE /\ signals = 0
    /\ MK!Init /\ KM!Init

Load ==
    /\ process = "up" /\ main = "load"
    /\ \/ /\ LoadFromFile(file) = {}
          /\ process' = "fatal"
          /\ UNCHANGED <<main, config>>
       \/ /\ config' \in LoadFromFile(file)
          /\ main' = "start"
          /\ UNCHANGED process
    /\ UNCHANGED <<file, pending, signals, directionMK, directionKM>>

\* Launches a goroutine for each enabled direction: its Start may be called from now on.
StartBridge ==
    /\ process = "up" /\ main = "start"
    /\ startMK' = IF config["mqtt_to_kafka"] THEN "idle" ELSE "disabled"
    /\ startKM' = IF config["kafka_to_mqtt"] THEN "idle" ELSE "disabled"
    /\ process' = IF config["mqtt_to_kafka"] \/ config["kafka_to_mqtt"]
                    THEN process ELSE "fatal"
    /\ main' = "notify"
    /\ UNCHANGED <<file, config, pending, signals, stopMK, orderlyMK, stopKM, orderlyKM>>

Launched == process = "up" /\ main \notin {"load", "start"}

CallStartMK ==
    /\ Launched /\ UNCHANGED process
    /\ MK!CallStart
    /\ UNCHANGED <<main, file, config, pending, signals, directionKM>>

CallStartKM ==
    /\ Launched /\ UNCHANGED process
    /\ KM!CallStart
    /\ UNCHANGED <<main, file, config, pending, signals, directionMK>>

\* The dead letter queue makes a ticker, which panics without an interval.
TickerPanics == config["dead_letter_enabled"] /\ config["retry_interval"] = 0

\* Any call to a broker may fail; a connection without its files always does.
EndStartMK ==
    /\ Launched /\ startMK = "running"
    /\ \/ startMK' = "failed" /\ UNCHANGED process
       \/ /\ ProducerConnection(config) # "error"
          /\ startMK' = "returned"
          /\ process' = IF TickerPanics THEN "panickedMK" ELSE process
    /\ UNCHANGED <<main, file, config, pending, signals, stopMK, orderlyMK, directionKM>>

\* The consumer connects, and for dead letters to Kafka a producer.
EndStartKM ==
    /\ Launched /\ startKM = "running"
    /\ \/ startKM' = "failed" /\ UNCHANGED process
       \/ /\ ConsumerConnection(config) # "error"
          /\ config["dead_letter_enabled"] /\ config["dead_letter_kafka_topic"] # "" =>
                ProducerConnection(config) # "error"
          /\ startKM' = "returned"
          /\ process' = IF TickerPanics THEN "panickedKM" ELSE process
    /\ UNCHANGED <<main, file, config, pending, signals, stopKM, orderlyKM, directionMK>>

\* A failed Start is only logged; main goes on either way.
Notify ==
    /\ process = "up" /\ main = "notify"
    /\ main' = "wait"
    /\ UNCHANGED <<process, file, config, pending, signals, directionMK, directionKM>>

\* Before Notify a signal kills the process; after it a full channel drops the signal.
Signal ==
    /\ process = "up" /\ signals < MaxSignals
    /\ signals' = signals + 1
    /\ \/ /\ main \in {"load", "start", "notify"}
          /\ process' = "killed"
          /\ UNCHANGED pending
       \/ /\ main \notin {"load", "start", "notify"}
          /\ pending' = TRUE
          /\ UNCHANGED process
    /\ UNCHANGED <<main, file, config, directionMK, directionKM>>

ReceiveSignal ==
    /\ process = "up" /\ main = "wait"
    /\ pending /\ pending' = FALSE
    /\ main' = "stopMK"
    /\ UNCHANGED process
    /\ MK!CallStop
    /\ UNCHANGED <<file, config, signals, directionKM>>

StopMKReturns ==
    /\ process = "up" /\ main = "stopMK"
    /\ main' = "stopKM"
    /\ UNCHANGED process
    /\ MK!ReturnFromStop
    /\ KM!CallStop
    /\ UNCHANGED <<file, config, pending, signals>>

StopKMReturns ==
    /\ process = "up" /\ main = "stopKM"
    /\ main' = "waitGroup"
    /\ UNCHANGED process
    /\ KM!ReturnFromStop
    /\ UNCHANGED <<file, config, pending, signals, directionMK>>

\* Seeded fault: a disabled direction is added to the group, and nothing ends it.
ExitCountingDisabled ==
    /\ process = "up" /\ main = "waitGroup"
    /\ {startMK, startKM} \subseteq {"returned", "failed"}
    /\ process' = "exited"
    /\ UNCHANGED <<main, file, config, pending, signals, directionMK, directionKM>>

\* The group counts the goroutines that were launched.
Exit ==
    /\ process = "up" /\ main = "waitGroup"
    /\ {startMK, startKM} \subseteq {"disabled", "returned", "failed"}
    /\ process' = "exited"
    /\ UNCHANGED <<main, file, config, pending, signals, directionMK, directionKM>>

\* What a direction that was stopped too early has left behind.
Panic ==
    /\ process = "up"
    /\ \/ stopMK = "returned" /\ ~orderlyMK /\ process' = "panickedMK"
       \/ stopKM = "returned" /\ ~orderlyKM /\ process' = "panickedKM"
    /\ UNCHANGED <<main, file, config, pending, signals, directionMK, directionKM>>

\* The process has ended, or nothing is left to do before the next signal.
Rest ==
    /\ process # "up" \/ signals = MaxSignals
    /\ UNCHANGED vars

Next ==
    \/ Load \/ StartBridge \/ Notify \/ Signal
    \/ CallStartMK \/ CallStartKM \/ EndStartMK \/ EndStartKM
    \/ ReceiveSignal \/ StopMKReturns \/ StopKMReturns \/ Exit
    \/ Panic \/ Rest

OrderlyStopMKReturns == orderlyMK /\ StopMKReturns
OrderlyStopKMReturns == orderlyKM /\ StopKMReturns

MainStep == Load \/ StartBridge \/ Notify \/ ReceiveSignal \/ Exit

\* The scheduler runs every goroutine, the brokers answer or time out, and an orderly
\* Stop returns; one that came too early need not.
Fairness ==
    /\ WF_vars(MainStep)
    /\ WF_vars(CallStartMK) /\ WF_vars(CallStartKM)
    /\ WF_vars(EndStartMK) /\ WF_vars(EndStartKM)
    /\ WF_vars(OrderlyStopMKReturns) /\ WF_vars(OrderlyStopKMReturns)

Spec == Init /\ [][Next]_vars /\ Fairness
=============================================================================
