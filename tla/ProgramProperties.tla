-------------------------- MODULE ProgramProperties --------------------------
EXTENDS Program

\* Every variable has its type, and a loaded configuration a value for each key that has a
\* default (main.go, bidirectional.go, applyDefaults).
TypeOK ==
    /\ main \in {"load", "start", "notify", "wait", "stopMK", "stopKM", "waitGroup"}
    /\ process \in {"up", "exited", "fatal", "killed", "panickedMK", "panickedKM"}
    /\ DOMAIN file.set \subseteq Keys /\ DOMAIN config = Keys
    /\ main # "load" => \A key \in DOMAIN Default : config[key] # Zero[key]
    /\ pending \in BOOLEAN /\ signals \in 0..MaxSignals
    /\ {startMK, startKM} \subseteq {"idle", "disabled", "running", "returned", "failed"}
    /\ {stopMK, stopKM} \subseteq {"idle", "running", "returned"}
    /\ {orderlyMK, orderlyKM} \subseteq BOOLEAN

\* A name as RFC 1123 has it: labels that begin and end with a letter or digit.
IsName(labels) ==
    /\ LengthOf(labels) <= MaxNameLength
    /\ \A label \in Range(labels) :
          /\ Len(label) \in 1..MaxLabelLength
          /\ {label[1], label[Len(label)]} = {"alphanumeric"}
          /\ Range(label) \subseteq {"alphanumeric", "hyphen"}

Dials(host, port) == (host.ip \/ IsName(host.labels)) /\ port \in 1..65535

\* Once main has a configuration, it names brokers that can be dialled, has a direction
\* to run, and every file it would open in SSL mode was there, at a path that begins with
\* the name of an allowed directory, whatever combination of keys the file had (validate
\* and pkg/validation).  That is what the code keeps, not that the file is within that
\* directory: see ValidateSSLFilePath.
LoadedIsUsable ==
    main # "load" =>
        /\ Dials(config["host"], config["port"])
        /\ config["brokers"] # << >>
        /\ \A address \in Range(config["brokers"]) : Dials(address.host, address.port)
        /\ config["mqtt_to_kafka"] \/ config["kafka_to_mqtt"]
        /\ config["protocol"] = "SSL" =>
              \A key \in {"truststore", "keystore"} :
                  config[key].file # "none" =>
                      /\ config[key].place # "elsewhere"
                      /\ config[key].file \notin {"missing", "directory"}

\* The two copies of the loader agree: what the program would run with is what its test
\* modes test (LoadFromFile and LoadForTesting).
LoadersAgree == main = "load" => LoadFromFile(file) \subseteq LoadForTesting(file)

\* In SSL mode the two directions never both run: the producer accepts only a truststore
\* without a key, the consumer only one with a key (loadTruststorePKCS12, loadTLSConfig).
SSLStartsOneDirection ==
    config["protocol"] = "SSL" => ~(startMK = "returned" /\ startKM = "returned")

\* What the process does keeps to what each direction may rely on and promises: Stop is
\* called once and tells whether it is early, the process ends by itself only when both
\* calls of both directions have, and no panic follows an orderly Stop (main, Start, Stop).
DirectionsKept == MK!Safety /\ KM!Safety

StartsEnded == {startMK, startKM} \subseteq {"disabled", "returned", "failed"}

\* A signal that comes when every launched Start has ended ends the program: both Stops
\* return and the wait group is not waited for in vain (main.go, BidirectionalBridge.Stop).
SignalEndsProgram ==
    (process = "up" /\ main = "wait" /\ pending /\ StartsEnded) ~> process # "up"

\* Main, on its way from a signal to the end of the program, is nowhere stuck: whichever
\* directions were enabled or failed, it can take the next step as soon as an orderly Stop
\* may return and the launched goroutines have ended (main.go, BidirectionalBridge.Stop).
NeverStuck ==
    process = "up" =>
        /\ main = "wait" /\ pending => ENABLED <<MainStep>>_vars
        /\ main = "stopMK" /\ orderlyMK => ENABLED <<OrderlyStopMKReturns>>_vars
        /\ main = "stopKM" /\ orderlyKM => ENABLED <<OrderlyStopKMReturns>>_vars
        /\ main = "waitGroup" /\ StartsEnded => ENABLED <<MainStep>>_vars

\* Claimed by the comments of the loader: the value of every key takes effect.  It does
\* not for the keys whose name differs from their field's (applyViperWorkarounds).
KeysTakeEffect ==
    main # "load" =>
        \A key \in DOMAIN file.set : file.set[key] \in {Zero[key], config[key]}
=============================================================================
