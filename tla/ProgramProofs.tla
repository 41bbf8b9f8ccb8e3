---------------------------- MODULE ProgramProofs ----------------------------
(***************************************************************************)
(* Whatever the configuration files, the process calls each direction as   *)
(* Direction assumes, and what happens to a direction in the process is    *)
(* what Direction allows.  What carries the proof is where main is while   *)
(* Stop runs, and that no file can enable the dead letter queue, whose     *)
(* ticker would panic without an interval.  The second half is about what  *)
(* a loaded configuration can be used for.                                 *)
(***************************************************************************)
EXTENDS ProgramProperties, TLAPS

\* The key is spelled unlike its field, and no workaround names it.
LEMMA QueueStaysOff ==
  ASSUME NEW f, NEW c \in LoadFromFile(f) PROVE c["dead_letter_enabled"] = FALSE
<1> DEFINE key == "dead_letter_enabled"
           unmarshalled == UnmarshalKey(f)
           repaired == applyViperWorkarounds(f, unmarshalled)
<1>1. key \in Keys /\ key \in Flags /\ key \notin Texts \cup Numbers
  BY DEF Keys, Texts, Numbers, Flags
<1>2. key \notin NamedAsField /\ key \notin Workarounds
  BY DEF NamedAsField, Workarounds
<1>3. Zero[key] = FALSE
  BY <1>1 DEF Zero
<1>4. unmarshalled[key] = FALSE
  BY <1>1, <1>2, <1>3 DEF UnmarshalKey, Taking
<1>5. repaired[key] = FALSE
  BY <1>1, <1>2, <1>4 DEF applyViperWorkarounds, Taking
<1>6. key \notin DOMAIN Default
  BY DEF Default
<1>7. applyDefaults(repaired)[key] = FALSE
  BY <1>1, <1>5, <1>6 DEF applyDefaults
<1>8. c = applyDefaults(repaired)
  BY DEF LoadFromFile
<1> QED
  BY <1>7, <1>8

LEMMA SomeDirectionIsOn ==
  ASSUME NEW f, NEW c \in LoadFromFile(f) PROVE c["mqtt_to_kafka"] \/ c["kafka_to_mqtt"]
  BY DEF LoadFromFile, validate

-----------------------------------------------------------------------------

Positions ==
    /\ main \in {"load", "start", "notify", "wait", "stopMK", "stopKM", "waitGroup"}
    /\ process \in {"up", "exited", "fatal", "killed", "panickedMK", "panickedKM"}

\* Start is called after main has launched it, and Stop where main waits for it.
CallsInv ==
    /\ main \in {"load", "start"} => startMK = "idle" /\ startKM = "idle"
    /\ main \in {"load", "start", "notify", "wait"} => stopMK = "idle" /\ stopKM = "idle"
    /\ main = "stopMK" => stopMK = "running" /\ stopKM = "idle"
    /\ main = "stopKM" => stopMK = "returned" /\ stopKM = "running"
    /\ main = "waitGroup" => stopMK = "returned" /\ stopKM = "returned"

ConfigurationInv ==
    /\ config["dead_letter_enabled"] = FALSE
    /\ main # "load" => config["mqtt_to_kafka"] \/ config["kafka_to_mqtt"]

IInv == Positions /\ CallsInv /\ ConfigurationInv

LEMMA InitInvariant == Init => IInv
<1>1. Zero["dead_letter_enabled"] = FALSE
  BY DEF Zero, Keys, Texts, Numbers, Flags
<1> QED
  BY <1>1 DEF Init, IInv, Positions, CallsInv, ConfigurationInv, MK!Init, KM!Init

LEMMA LoadKeepsInvariant == ASSUME IInv, Load PROVE IInv'
<1>1. config' = config \/ config' \in LoadFromFile(file)
  BY DEF Load
<1>2. config'["dead_letter_enabled"] = FALSE
  BY <1>1, QueueStaysOff DEF IInv, ConfigurationInv
<1>3. main' # "load" => config'["mqtt_to_kafka"] \/ config'["kafka_to_mqtt"]
  BY SomeDirectionIsOn DEF Load
<1> QED
  BY <1>2, <1>3
     DEF ConfigurationInv, IInv, Load, Positions, CallsInv, directionMK, directionKM

\* The steps of main after loading.
LEMMA MainKeepsInvariant ==
  ASSUME IInv,
  StartBridge \/ Notify \/ ReceiveSignal \/ StopMKReturns \/ StopKMReturns \/ Exit
  PROVE  IInv'
<1>1. CASE StartBridge
  BY <1>1 DEF IInv, StartBridge, Positions, CallsInv, ConfigurationInv
<1>2. CASE Notify
  BY <1>2
     DEF IInv, Notify, Positions, CallsInv, ConfigurationInv, directionMK, directionKM
<1>3. CASE ReceiveSignal
  BY <1>3 DEF IInv, ReceiveSignal, Positions, CallsInv, ConfigurationInv, directionKM,
         MK!CallStop
<1>4. CASE StopMKReturns
  BY <1>4 DEF IInv, StopMKReturns, Positions, CallsInv, ConfigurationInv,
         MK!ReturnFromStop, KM!CallStop
<1>5. CASE StopKMReturns
  BY <1>5 DEF IInv, StopKMReturns, Positions, CallsInv, ConfigurationInv, directionMK,
         KM!ReturnFromStop
<1>6. CASE Exit
  BY <1>6 DEF IInv, Exit, Positions, CallsInv, ConfigurationInv, directionMK, directionKM
<1> QED
  BY <1>1, <1>2, <1>3, <1>4, <1>5, <1>6

\* The steps of the goroutines and of the outside.
LEMMA OthersKeepInvariant ==
  ASSUME IInv,
         \/ CallStartMK \/ CallStartKM \/ EndStartMK \/ EndStartKM
         \/ Signal \/ Panic \/ UNCHANGED vars
  PROVE  IInv'
<1>1. CASE CallStartMK
  BY <1>1 DEF IInv, CallStartMK, Launched, Positions, CallsInv, ConfigurationInv,
         directionKM, MK!CallStart
<1>2. CASE CallStartKM
  BY <1>2 DEF IInv, CallStartKM, Launched, Positions, CallsInv, ConfigurationInv,
         directionMK, KM!CallStart
<1>3. CASE EndStartMK
  BY <1>3 DEF IInv, EndStartMK, Launched, Positions, CallsInv, ConfigurationInv,
         directionKM, TickerPanics
<1>4. CASE EndStartKM
  BY <1>4 DEF IInv, EndStartKM, Launched, Positions, CallsInv, ConfigurationInv,
         directionMK, TickerPanics
<1>5. CASE Signal
  BY <1>5
     DEF IInv, Signal, Positions, CallsInv, ConfigurationInv, directionMK, directionKM
<1>6. CASE Panic
  BY <1>6 DEF IInv, Panic, Positions, CallsInv, ConfigurationInv, directionMK, directionKM
<1>7. CASE UNCHANGED vars
  BY <1>7 DEF IInv, vars, Positions, CallsInv, ConfigurationInv, directionMK, directionKM
<1> QED
  BY <1>1, <1>2, <1>3, <1>4, <1>5, <1>6, <1>7

LEMMA StepKeepsInvariant == IInv /\ [Next]_vars => IInv'
  BY LoadKeepsInvariant, MainKeepsInvariant, OthersKeepInvariant DEF Next, Rest

\* Start is called once, by a goroutine of an enabled direction, and Stop once, one
\* direction after the other (main, BidirectionalBridge.Start and Stop).
THEOREM CallsInOrder == Spec => []IInv
  BY InitInvariant, StepKeepsInvariant, PTL DEF Spec

-----------------------------------------------------------------------------
(* Each step as one direction sees it. *)

\* Nothing happens to a direction in a step that leaves it and the process alone.
LEMMA MKUnchanged == ASSUME UNCHANGED <<process, directionMK>> PROVE UNCHANGED MK!vars
  BY DEF MK!vars, SeenBy, directionMK

LEMMA KMUnchanged == ASSUME UNCHANGED <<process, directionKM>> PROVE UNCHANGED KM!vars
  BY DEF KM!vars, SeenBy, directionKM

LEMMA StepOfMK == IInv /\ [Next]_vars => [MK!Next]_(MK!vars)
<1> SUFFICES ASSUME IInv, [Next]_vars PROVE MK!Next \/ UNCHANGED MK!vars
  OBVIOUS
<1>1. CASE Load
  <2>1. CASE process' = "fatal"
    BY <1>1, <2>1 DEF Load, SeenBy, directionMK, MK!Next, MK!Kill
  <2>2. CASE UNCHANGED process
    BY <1>1, <2>2, MKUnchanged DEF Load
  <2> QED
    BY <1>1, <2>1, <2>2 DEF Load
<1>2. CASE StartBridge
  <2>1. UNCHANGED process
    BY <1>2 DEF IInv, ConfigurationInv, StartBridge
  <2>2. startMK = "idle" /\ startMK' \in {"idle", "disabled"} /\ UNCHANGED <<stopMK, orderlyMK>>
    BY <1>2 DEF IInv, CallsInv, StartBridge
  <2>3. CASE startMK' = "idle"
    BY <2>1, <2>2, <2>3, MKUnchanged DEF directionMK
  <2>4. CASE startMK' = "disabled"
    BY <1>2, <2>1, <2>2, <2>4 DEF StartBridge, SeenBy, MK!Next, MK!Disable
  <2> QED
    BY <2>2, <2>3, <2>4
<1>3. CASE CallStartMK
  BY <1>3 DEF CallStartMK, MK!Next
<1>4. CASE EndStartMK
  BY <1>4 DEF IInv, ConfigurationInv, EndStartMK, Launched, TickerPanics, SeenBy,
              MK!Next, MK!EndStart
<1>5. CASE ReceiveSignal
  BY <1>5 DEF ReceiveSignal, MK!Next
<1>6. CASE StopMKReturns
  BY <1>6 DEF StopMKReturns, MK!Next
<1>7. CASE Notify \/ StopKMReturns \/ CallStartKM \/ Rest \/ UNCHANGED vars
  BY <1>7, MKUnchanged DEF Notify, StopKMReturns, CallStartKM, Rest, vars
<1>8. CASE EndStartKM
  BY <1>8, MKUnchanged DEF IInv, ConfigurationInv, EndStartKM, TickerPanics
<1>9. CASE Exit
  BY <1>9 DEF IInv, CallsInv, Exit, SeenBy, directionMK, MK!Next, MK!Exit, MK!Ended
<1>10. CASE Signal
  <2>1. CASE process' = "killed"
    BY <1>10, <2>1 DEF Signal, SeenBy, directionMK, MK!Next, MK!Kill
  <2>2. CASE UNCHANGED process
    BY <1>10, <2>2, MKUnchanged DEF Signal
  <2> QED
    BY <1>10, <2>1, <2>2 DEF Signal
<1>11. CASE Panic
  <2>1. CASE process' = "panickedMK"
    BY <1>11, <2>1 DEF Panic, SeenBy, directionMK, MK!Next, MK!Panic
  <2>2. CASE process' = "panickedKM"
    BY <1>11, <2>2 DEF Panic, SeenBy, directionMK, MK!Next, MK!Kill
  <2> QED
    BY <1>11, <2>1, <2>2 DEF Panic
<1> QED
  BY <1>1, <1>2, <1>3, <1>4, <1>5, <1>6, <1>7, <1>8, <1>9, <1>10, <1>11 DEF Next

LEMMA StepOfKM == IInv /\ [Next]_vars => [KM!Next]_(KM!vars)
<1> SUFFICES ASSUME IInv, [Next]_vars PROVE KM!Next \/ UNCHANGED KM!vars
  OBVIOUS
<1>1. CASE Load
  <2>1. CASE process' = "fatal"
    BY <1>1, <2>1 DEF Load, SeenBy, directionKM, KM!Next, KM!Kill
  <2>2. CASE UNCHANGED process
    BY <1>1, <2>2, KMUnchanged DEF Load
  <2> QED
    BY <1>1, <2>1, <2>2 DEF Load
<1>2. CASE StartBridge
  <2>1. UNCHANGED process
    BY <1>2 DEF IInv, ConfigurationInv, StartBridge
  <2>2. startKM = "idle" /\ startKM' \in {"idle", "disabled"} /\ UNCHANGED <<stopKM, orderlyKM>>
    BY <1>2 DEF IInv, CallsInv, StartBridge
  <2>3. CASE startKM' = "idle"
    BY <2>1, <2>2, <2>3, KMUnchanged DEF directionKM
  <2>4. CASE startKM' = "disabled"
    BY <1>2, <2>1, <2>2, <2>4 DEF StartBridge, SeenBy, KM!Next, KM!Disable
  <2> QED
    BY <2>2, <2>3, <2>4
<1>3. CASE CallStartKM
  BY <1>3 DEF CallStartKM, KM!Next
<1>4. CASE EndStartKM
  BY <1>4 DEF IInv, ConfigurationInv, EndStartKM, Launched, TickerPanics, SeenBy,
              KM!Next, KM!EndStart
<1>5. CASE StopMKReturns
  BY <1>5 DEF StopMKReturns, KM!Next
<1>6. CASE StopKMReturns
  BY <1>6 DEF StopKMReturns, KM!Next
<1>7. CASE Notify \/ ReceiveSignal \/ CallStartMK \/ Rest \/ UNCHANGED vars
  BY <1>7, KMUnchanged DEF Notify, ReceiveSignal, CallStartMK, Rest, vars
<1>8. CASE EndStartMK
  BY <1>8, KMUnchanged DEF IInv, ConfigurationInv, EndStartMK, TickerPanics
<1>9. CASE Exit
  BY <1>9 DEF IInv, CallsInv, Exit, SeenBy, directionKM, KM!Next, KM!Exit, KM!Ended
<1>10. CASE Signal
  <2>1. CASE process' = "killed"
    BY <1>10, <2>1 DEF Signal, SeenBy, directionKM, KM!Next, KM!Kill
  <2>2. CASE UNCHANGED process
    BY <1>10, <2>2, KMUnchanged DEF Signal
  <2> QED
    BY <1>10, <2>1, <2>2 DEF Signal
<1>11. CASE Panic
  <2>1. CASE process' = "panickedKM"
    BY <1>11, <2>1 DEF Panic, SeenBy, directionKM, KM!Next, KM!Panic
  <2>2. CASE process' = "panickedMK"
    BY <1>11, <2>2 DEF Panic, SeenBy, directionKM, KM!Next, KM!Kill
  <2> QED
    BY <1>11, <2>1, <2>2 DEF Panic
<1> QED
  BY <1>1, <1>2, <1>3, <1>4, <1>5, <1>6, <1>7, <1>8, <1>9, <1>10, <1>11 DEF Next

LEMMA InitOfDirections == Init => MK!Init /\ KM!Init
  BY DEF Init

\* The process keeps to Direction in both directions, whatever the configuration files: no
\* Stop is called twice, the process ends by itself only when every call has, and nothing
\* panics after an orderly Stop (main, BidirectionalBridge, the loader).
THEOREM DirectionsAreKept == Spec => DirectionsKept
<1>1. Spec => MK!Safety
  BY InitOfDirections, CallsInOrder, StepOfMK, PTL DEF Spec, MK!Safety
<1>2. Spec => KM!Safety
  BY InitOfDirections, CallsInOrder, StepOfKM, PTL DEF Spec, KM!Safety
<1> QED
  BY <1>1, <1>2 DEF DirectionsKept

-----------------------------------------------------------------------------
(* What a loaded configuration is like. *)

LEMMA Origin ==
  ASSUME NEW f, NEW c \in LoadFromFile(f), NEW key \in NamedAsField \ Workarounds,
         key \notin DOMAIN Default
  PROVE  c[key] = IF key \in DOMAIN f.set THEN f.set[key] ELSE Zero[key]
<1> DEFINE unmarshalled == UnmarshalKey(f)
           repaired == applyViperWorkarounds(f, unmarshalled)
<1>1. key \in Keys
  BY DEF NamedAsField, Keys, Texts, Numbers, Flags
<1>2. unmarshalled[key] = IF key \in DOMAIN f.set THEN f.set[key] ELSE Zero[key]
  BY <1>1 DEF UnmarshalKey, Taking
<1>3. repaired[key] = unmarshalled[key]
  BY <1>1 DEF applyViperWorkarounds, Taking
<1>4. applyDefaults(repaired)[key] = repaired[key]
  BY <1>1 DEF applyDefaults
<1>5. c = applyDefaults(repaired)
  BY DEF LoadFromFile
<1> QED
  BY <1>2, <1>3, <1>4, <1>5

LEMMA HostsAreNames ==
  ASSUME NEW f \in Files, NEW c \in LoadFromFile(f)
  PROVE  /\ c["host"].labels \in Seq(Seq(STRING))
         /\ \A address \in Range(c["brokers"]) : address.host.labels \in Seq(Seq(STRING))
<1>1. /\ "host" \in NamedAsField \ Workarounds /\ "host" \notin DOMAIN Default
      /\ "brokers" \in NamedAsField \ Workarounds /\ "brokers" \notin DOMAIN Default
  BY DEF NamedAsField, Workarounds, Default
<1>2. Zero["host"] = NoHost /\ Zero["brokers"] = << >>
  BY DEF Zero, Keys, Texts, Numbers, Flags
<1>3. NoHost.labels \in Seq(Seq(STRING))
  BY DEF NoHost
<1>4. Range(<< >>) = {}
  BY DEF Range
<1>5. c["host"].labels \in Seq(Seq(STRING))
  BY <1>1, <1>2, <1>3, Origin, FilesAssumption
<1>6. \A address \in Range(c["brokers"]) : address.host.labels \in Seq(Seq(STRING))
  BY <1>1, <1>2, <1>4, Origin, FilesAssumption
<1> QED
  BY <1>5, <1>6

\* What the checks accept is a name.
LEMMA ValidIsName ==
  ASSUME NEW labels \in Seq(Seq(STRING)), validateHostname(labels) PROVE IsName(labels)
<1>1. ASSUME NEW label \in Range(labels)
      PROVE  /\ Len(label) \in 1..MaxLabelLength
             /\ {label[1], label[Len(label)]} = {"alphanumeric"}
             /\ Range(label) \subseteq {"alphanumeric", "hyphen"}
  <2>1. label \in Seq(STRING)
    BY DEF Range
  <2>2. Len(label) \in 1..MaxLabelLength
    BY DEF validateHostname
  <2>3. 1 \in DOMAIN label /\ Len(label) \in DOMAIN label
    BY <2>1, <2>2, LengthsAssumption
  <2>4. \A i \in DOMAIN label :
           /\ i = 1 => label[i] = "alphanumeric"
           /\ i = Len(label) => label[i] # "hyphen"
           /\ label[i] \in {"alphanumeric", "hyphen"}
    BY DEF validateHostname
  <2>5. label[1] = "alphanumeric" /\ label[Len(label)] = "alphanumeric"
    BY <2>3, <2>4
  <2>6. Range(label) \subseteq {"alphanumeric", "hyphen"}
    BY <2>4 DEF Range
  <2> QED
    BY <2>2, <2>5, <2>6
<1> QED
  BY <1>1 DEF IsName, validateHostname

LEMMA ValidCanBeDialled ==
  ASSUME NEW host, NEW port, host.labels \in Seq(Seq(STRING)), ValidHost(host),
         validatePort(port)
  PROVE  Dials(host, port)
  BY ValidIsName DEF ValidHost, validatePort, Dials

LEMMA LoadedConfigurationIsUsable ==
  ASSUME NEW f \in Files, NEW c \in LoadFromFile(f)
  PROVE  /\ Dials(c["host"], c["port"])
         /\ c["brokers"] # << >>
         /\ \A address \in Range(c["brokers"]) : Dials(address.host, address.port)
         /\ c["mqtt_to_kafka"] \/ c["kafka_to_mqtt"]
         /\ c["protocol"] = "SSL" =>
               \A key \in {"truststore", "keystore"} :
                   c[key].file # "none" =>
                       c[key].place # "elsewhere" /\ c[key].file \notin {"missing", "directory"}
<1>1. validate(c, FALSE)
  BY DEF LoadFromFile
<1>2. Dials(c["host"], c["port"])
  BY <1>1, HostsAreNames, ValidCanBeDialled DEF validate, ValidateMQTTBroker
<1>3. c["brokers"] # << >>
  BY <1>1 DEF validate
<1>4. \A address \in Range(c["brokers"]) : Dials(address.host, address.port)
  BY <1>1, HostsAreNames, ValidCanBeDialled DEF validate, ValidateBrokerAddress
<1>5. ASSUME c["protocol"] = "SSL", NEW key \in {"truststore", "keystore"},
             c[key].file # "none"
      PROVE  c[key].place # "elsewhere" /\ c[key].file \notin {"missing", "directory"}
  <2>1. c[key] # NoLocation
    BY <1>5 DEF NoLocation
  <2>2. ValidateSSLFilePath(c[key])
    BY <1>1, <1>5, <2>1 DEF validate
  <2> QED
    BY <2>2 DEF ValidateSSLFilePath
<1> QED
  BY <1>2, <1>3, <1>4, <1>5, SomeDirectionIsOn

-----------------------------------------------------------------------------
\* The configuration is the one of the file, and a direction that started has connected.
LoadedInv ==
    /\ file \in Files
    /\ main # "load" => config \in LoadFromFile(file)
    /\ startMK = "returned" => ProducerConnection(config) # "error"
    /\ startKM = "returned" => ConsumerConnection(config) # "error"

LEMMA InitLoaded == Init => LoadedInv
  BY DEF Init, LoadedInv, MK!Init, KM!Init

LEMMA StepKeepsLoaded == IInv /\ LoadedInv /\ [Next]_vars => LoadedInv'
<1> SUFFICES ASSUME IInv, LoadedInv, [Next]_vars PROVE LoadedInv'
  OBVIOUS
<1> USE DEF LoadedInv, directionMK, directionKM
<1>1. CASE Load
  BY <1>1 DEF Load, IInv, CallsInv
<1>2. CASE StartBridge
  BY <1>2 DEF StartBridge
<1>3. CASE CallStartMK \/ CallStartKM
  BY <1>3 DEF CallStartMK, CallStartKM, Launched, MK!CallStart, KM!CallStart
<1>4. CASE EndStartMK \/ EndStartKM
  BY <1>4 DEF EndStartMK, EndStartKM, Launched
<1>5. CASE Notify \/ Signal \/ Exit \/ Panic \/ Rest \/ UNCHANGED vars
  BY <1>5 DEF Notify, Signal, Exit, Panic, Rest, vars
<1>6. CASE ReceiveSignal \/ StopMKReturns \/ StopKMReturns
  BY <1>6 DEF ReceiveSignal, StopMKReturns, StopKMReturns, MK!CallStop, KM!CallStop,
              MK!ReturnFromStop, KM!ReturnFromStop
<1> QED
  BY <1>1, <1>2, <1>3, <1>4, <1>5, <1>6 DEF Next

LEMMA LoadedAlways == Spec => []LoadedInv
  BY InitInvariant, StepKeepsInvariant, InitLoaded, StepKeepsLoaded, PTL DEF Spec

\* No file, whatever it sets, gets past the loader with brokers that cannot be dialled, no
\* direction to run, or an SSL file whose path does not begin with the name of an allowed
\* directory: how near to that directory it is, the loader does not tell (LoadFromFile).
THEOREM OnlyUsableIsLoaded == Spec => []LoadedIsUsable
<1>1. LoadedInv => LoadedIsUsable
  BY LoadedConfigurationIsUsable DEF LoadedInv, LoadedIsUsable
<1> QED
  BY <1>1, LoadedAlways, PTL

\* What the program loads its test modes load too (LoadFromFile and LoadForTesting).
THEOREM TestsLoadTheSame == Spec => []LoadersAgree
<1>1. \A c : validate(c, FALSE) => validate(c, TRUE)
  BY DEF validate
<1>2. LoadersAgree
  BY <1>1 DEF LoadersAgree, LoadFromFile, LoadForTesting
<1> QED
  BY <1>2, PTL

\* In SSL mode one of the directions fails to start: what the consumer needs in the
\* truststore the producer refuses (loadTLSConfig, loadTruststorePKCS12).
THEOREM OneDirectionWithSSL == Spec => []SSLStartsOneDirection
<1>1. ASSUME config["protocol"] = "SSL", ConsumerConnection(config) # "error"
      PROVE  ProducerConnection(config) = "error"
  <2>1. Decode(config["truststore"])
    BY <1>1 DEF ConsumerConnection
  <2>2. config["truststore"] # NoLocation /\ ~DecodeTrustStore(config["truststore"])
    BY <2>1 DEF Decode, DecodeTrustStore, NoLocation
  <2> QED
    BY <1>1, <2>2 DEF ProducerConnection
<1>2. LoadedInv => SSLStartsOneDirection
  BY <1>1 DEF LoadedInv, SSLStartsOneDirection
<1> QED
  BY <1>2, LoadedAlways, PTL

-----------------------------------------------------------------------------
(* Types. *)

LEMMA LoadedHasDefaults ==
  ASSUME NEW f, NEW c \in LoadFromFile(f)
  PROVE  DOMAIN c = Keys /\ \A key \in DOMAIN Default : c[key] # Zero[key]
<1> DEFINE repaired == applyViperWorkarounds(f, UnmarshalKey(f))
<1>1. c = applyDefaults(repaired)
  BY DEF LoadFromFile
<1>2. DOMAIN Default =
        {"kafka_prefix", "max_topic_levels", "default_partitions", "replication_factor"}
  BY DEF Default
<1>3. DOMAIN Default \subseteq Keys
  BY <1>2 DEF Keys, Texts, Numbers
<1>4. ASSUME NEW key \in DOMAIN Default PROVE Default[key] # Zero[key]
  <2>1. CASE key = "kafka_prefix"
    BY <2>1 DEF Default, Zero, Keys, Texts, Numbers, Flags
  <2>2. CASE key # "kafka_prefix"
    <3>1. Default[key] \in {1, 3} /\ key \in Numbers /\ key \notin Texts /\ key \in Keys
      BY <1>2, <2>2 DEF Default, Keys, Texts, Numbers
    <3>2. Zero[key] = 0
      <4>1. CASE key = "max_topic_levels"
        BY <4>1 DEF Zero, Keys, Texts, Numbers, Flags
      <4>2. CASE key = "default_partitions"
        BY <4>2 DEF Zero, Keys, Texts, Numbers, Flags
      <4>3. CASE key = "replication_factor"
        BY <4>3 DEF Zero, Keys, Texts, Numbers, Flags
      <4> QED
        BY <1>2, <2>2, <4>1, <4>2, <4>3
    <3> QED
      BY <3>1, <3>2
  <2> QED
    BY <2>1, <2>2
<1>5. ASSUME NEW key \in DOMAIN Default PROVE c[key] # Zero[key]
  BY <1>1, <1>3, <1>4 DEF applyDefaults
<1> QED
  BY <1>1, <1>5 DEF applyDefaults

LEMMA InitTypes == Init => TypeOK
<1>1. DOMAIN Zero = Keys
  BY DEF Zero
<1>2. \A f \in Files : DOMAIN f.set \subseteq Keys
  BY FilesAssumption
<1> SUFFICES ASSUME Init PROVE TypeOK
  OBVIOUS
<1>3. /\ main = "load" /\ process = "up" /\ config = Zero /\ file \in Files
      /\ pending = FALSE /\ signals = 0
  BY DEF Init
<1>4. /\ startMK = "idle" /\ startKM = "idle" /\ stopMK = "idle" /\ stopKM = "idle"
      /\ orderlyMK \in BOOLEAN /\ orderlyKM \in BOOLEAN
  BY DEF Init, MK!Init, KM!Init
<1>5. 0 \in 0..MaxSignals
  BY SignalsAssumption
<1>6. DOMAIN file.set \subseteq Keys /\ DOMAIN config = Keys
  BY <1>1, <1>2, <1>3
<1> QED
  BY <1>3, <1>4, <1>5, <1>6, Zenon DEF TypeOK

LEMMA StepKeepsTypes == TypeOK /\ [Next]_vars => TypeOK'
<1> SUFFICES ASSUME TypeOK, [Next]_vars PROVE TypeOK'
  OBVIOUS
<1> USE SignalsAssumption DEF TypeOK, directionMK, directionKM
<1>1. CASE Load
  BY <1>1, LoadedHasDefaults DEF Load
<1>2. CASE StartBridge
  BY <1>2 DEF StartBridge
<1>3. CASE CallStartMK \/ CallStartKM
  BY <1>3 DEF CallStartMK, CallStartKM, MK!CallStart, KM!CallStart
<1>4. CASE EndStartMK
  BY <1>4 DEF EndStartMK
<1>5. CASE EndStartKM
  BY <1>5 DEF EndStartKM
<1>6. CASE Notify \/ Exit \/ Panic \/ Rest \/ UNCHANGED vars
  BY <1>6 DEF Notify, Exit, Panic, Rest, vars
<1>7. CASE Signal
  <2>1. signals' \in 0..MaxSignals
    BY <1>7 DEF Signal
  <2>2. process' \in {process, "killed"} /\ pending' \in BOOLEAN
    BY <1>7 DEF Signal
  <2>3. UNCHANGED <<main, file, config, directionMK, directionKM>>
    BY <1>7 DEF Signal
  <2> QED
    BY <2>1, <2>2, <2>3
<1>8. CASE ReceiveSignal
  <2>1. pending' \in BOOLEAN /\ main' = "stopMK"
    BY <1>8 DEF ReceiveSignal
  <2>2. stopMK' = "running" /\ orderlyMK' \in BOOLEAN /\ UNCHANGED <<process, startMK>>
    BY <1>8 DEF ReceiveSignal, MK!CallStop
  <2>3. UNCHANGED <<file, config, signals, directionKM>>
    BY <1>8 DEF ReceiveSignal
  <2>4. main # "load"
    BY <1>8 DEF ReceiveSignal
  <2> QED
    BY <2>1, <2>2, <2>3, <2>4
<1>9. CASE StopMKReturns
  BY <1>9 DEF StopMKReturns, MK!ReturnFromStop, KM!CallStop
<1>10. CASE StopKMReturns
  BY <1>10 DEF StopKMReturns, KM!ReturnFromStop
<1> QED
  BY <1>1, <1>2, <1>3, <1>4, <1>5, <1>6, <1>7, <1>8, <1>9, <1>10 DEF Next

\* Every variable keeps its type, and no default is missing after loading (main, Start,
\* applyDefaults).
THEOREM TypeCorrect == Spec => []TypeOK
  BY InitTypes, StepKeepsTypes, PTL DEF Spec

-----------------------------------------------------------------------------
(* From the signal to the end of the program. *)

\* Where main is on that way, in a process that is up.
AtWait      == process = "up" /\ main = "wait" /\ pending /\ StartsEnded
AtStopMK    == process = "up" /\ main = "stopMK" /\ orderlyMK /\ StartsEnded
AtStopKM    == process = "up" /\ main = "stopKM" /\ orderlyKM /\ StartsEnded
AtWaitGroup == process = "up" /\ main = "waitGroup" /\ StartsEnded
Over        == process # "up"

\* What a step of anything but main and the signals can do once the goroutines have ended.
LEMMA GoroutinesRest ==
  ASSUME StartsEnded, CallStartMK \/ CallStartKM \/ EndStartMK \/ EndStartKM
  PROVE  FALSE
  BY DEF StartsEnded, CallStartMK, CallStartKM, EndStartMK, EndStartKM, MK!CallStart,
         KM!CallStart

LEMMA SignalIsQueued ==
  ASSUME Signal, main \notin {"load", "start", "notify"}
  PROVE  process' = process /\ pending' /\ UNCHANGED <<main, directionMK, directionKM>>
  BY DEF Signal

LEMMA FromWait ==
  /\ AtWait /\ [Next]_vars => AtWait' \/ AtStopMK' \/ Over'
  /\ AtWait /\ <<MainStep>>_vars => AtStopMK' \/ Over'
<1> USE DEF AtWait, AtStopMK, Over
<1>1. ASSUME AtWait, ReceiveSignal PROVE AtStopMK'
  BY <1>1 DEF ReceiveSignal, StartsEnded, MK!CallStop, MK!Ended, directionKM, SeenBy
<1>2. ASSUME AtWait, Load \/ StartBridge \/ Notify \/ Exit PROVE FALSE
  BY <1>2 DEF Load, StartBridge, Notify, Exit
<1>3. ASSUME AtWait, StopMKReturns \/ StopKMReturns PROVE FALSE
  BY <1>3 DEF StopMKReturns, StopKMReturns
<1>4. ASSUME AtWait, Signal PROVE AtWait'
  BY <1>4, SignalIsQueued DEF StartsEnded, directionMK, directionKM
<1>5. ASSUME Panic PROVE Over'
  BY <1>5 DEF Panic
<1>6. ASSUME AtWait, UNCHANGED vars PROVE AtWait'
  BY <1>6 DEF StartsEnded, vars, directionMK, directionKM
<1> QED
  BY <1>1, <1>2, <1>3, <1>4, <1>5, <1>6, GoroutinesRest DEF Next, MainStep, Rest

LEMMA FromStopMK ==
  /\ AtStopMK /\ [Next]_vars => AtStopMK' \/ AtStopKM' \/ Over'
  /\ AtStopMK /\ <<OrderlyStopMKReturns>>_vars => AtStopKM' \/ Over'
<1> USE DEF AtStopMK, AtStopKM, Over
<1>1. ASSUME AtStopMK, StopMKReturns PROVE AtStopKM'
  BY <1>1 DEF StopMKReturns, StartsEnded, MK!ReturnFromStop, KM!CallStop, KM!Ended, SeenBy
<1>2. ASSUME AtStopMK, MainStep \/ StopKMReturns PROVE FALSE
  BY <1>2 DEF MainStep, Load, StartBridge, Notify, ReceiveSignal, Exit, StopKMReturns
<1>3. ASSUME AtStopMK, Signal PROVE AtStopMK'
  BY <1>3, SignalIsQueued DEF StartsEnded, directionMK, directionKM
<1>4. ASSUME Panic PROVE Over'
  BY <1>4 DEF Panic
<1>5. ASSUME AtStopMK, UNCHANGED vars PROVE AtStopMK'
  BY <1>5 DEF StartsEnded, vars, directionMK, directionKM
<1> QED
  BY <1>1, <1>2, <1>3, <1>4, <1>5, GoroutinesRest
     DEF Next, MainStep, Rest, OrderlyStopMKReturns

LEMMA FromStopKM ==
  /\ AtStopKM /\ [Next]_vars => AtStopKM' \/ AtWaitGroup' \/ Over'
  /\ AtStopKM /\ <<OrderlyStopKMReturns>>_vars => AtWaitGroup' \/ Over'
<1> USE DEF AtStopKM, AtWaitGroup, Over
<1>1. ASSUME AtStopKM, StopKMReturns PROVE AtWaitGroup'
  BY <1>1 DEF StopKMReturns, StartsEnded, KM!ReturnFromStop, directionMK, SeenBy
<1>2. ASSUME AtStopKM, MainStep \/ StopMKReturns PROVE FALSE
  BY <1>2 DEF MainStep, Load, StartBridge, Notify, ReceiveSignal, Exit, StopMKReturns
<1>3. ASSUME AtStopKM, Signal PROVE AtStopKM'
  BY <1>3, SignalIsQueued DEF StartsEnded, directionMK, directionKM
<1>4. ASSUME Panic PROVE Over'
  BY <1>4 DEF Panic
<1>5. ASSUME AtStopKM, UNCHANGED vars PROVE AtStopKM'
  BY <1>5 DEF StartsEnded, vars, directionMK, directionKM
<1> QED
  BY <1>1, <1>2, <1>3, <1>4, <1>5, GoroutinesRest
     DEF Next, MainStep, Rest, OrderlyStopKMReturns

LEMMA FromWaitGroup ==
  /\ AtWaitGroup /\ [Next]_vars => AtWaitGroup' \/ Over'
  /\ AtWaitGroup /\ <<MainStep>>_vars => Over'
<1> USE DEF AtWaitGroup, Over
<1>1. ASSUME Exit \/ Panic PROVE Over'
  BY <1>1 DEF Exit, Panic
<1>2. ASSUME AtWaitGroup, Load \/ StartBridge \/ Notify \/ ReceiveSignal PROVE FALSE
  BY <1>2 DEF Load, StartBridge, Notify, ReceiveSignal
<1>3. ASSUME AtWaitGroup, StopMKReturns \/ StopKMReturns PROVE FALSE
  BY <1>3 DEF StopMKReturns, StopKMReturns
<1>4. ASSUME AtWaitGroup, Signal PROVE AtWaitGroup'
  BY <1>4, SignalIsQueued DEF StartsEnded, directionMK, directionKM
<1>5. ASSUME AtWaitGroup, UNCHANGED vars PROVE AtWaitGroup'
  BY <1>5 DEF StartsEnded, vars, directionMK, directionKM
<1> QED
  BY <1>1, <1>2, <1>3, <1>4, <1>5, GoroutinesRest DEF Next, MainStep, Rest

\* If main is nowhere stuck, a signal that comes when the launched goroutines have ended
\* ends the program, whatever the configuration and however many signals follow (main.go,
\* BidirectionalBridge.Stop).
THEOREM SignalEnds == Spec /\ []NeverStuck => SignalEndsProgram
<1>1. /\ NeverStuck /\ AtWait => ENABLED <<MainStep>>_vars
      /\ NeverStuck /\ AtStopMK => ENABLED <<OrderlyStopMKReturns>>_vars
      /\ NeverStuck /\ AtStopKM => ENABLED <<OrderlyStopKMReturns>>_vars
      /\ NeverStuck /\ AtWaitGroup => ENABLED <<MainStep>>_vars
  BY DEF NeverStuck, AtWait, AtStopMK, AtStopKM, AtWaitGroup
<1>2. Spec /\ []NeverStuck => (AtWait ~> AtStopMK \/ Over)
  BY <1>1, FromWait, PTL DEF Spec, Fairness
<1>3. Spec /\ []NeverStuck => (AtStopMK ~> AtStopKM \/ Over)
  BY <1>1, FromStopMK, PTL DEF Spec, Fairness
<1>4. Spec /\ []NeverStuck => (AtStopKM ~> AtWaitGroup \/ Over)
  BY <1>1, FromStopKM, PTL DEF Spec, Fairness
<1>5. Spec /\ []NeverStuck => (AtWaitGroup ~> Over)
  BY <1>1, FromWaitGroup, PTL DEF Spec, Fairness
<1>6. Spec /\ []NeverStuck => (AtWait ~> Over)
  BY <1>2, <1>3, <1>4, <1>5, PTL
<1> QED
  BY <1>6, PTL DEF SignalEndsProgram, AtWait, Over
=============================================================================
