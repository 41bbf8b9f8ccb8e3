---------------------------- MODULE Configuration ----------------------------
(***************************************************************************)
(* How a configuration file becomes the configuration the program runs     *)
(* with (internal/config/loader_simple.go, pkg/validation, pkg/types), and *)
(* how both Kafka clients turn its security section into a connection.     *)
(*                                                                         *)
(* A file is the state it is in and a function from the keys it sets to    *)
(* their values; a configuration gives every key a value.  A host is a     *)
(* sequence of labels, a label a sequence of kinds of characters, and a    *)
(* location what the checks can tell of a path and of the file at its end: *)
(* whether the path is spelled with two dots, whether its place is within  *)
(* an allowed directory, beside one, in a directory whose name only begins *)
(* with the allowed one's, or elsewhere, and the file a symbolic link at   *)
(* its end leads to.                                                       *)
(* Left out: the sanitizers of credentials, which only rewrite text.       *)
(***************************************************************************)
EXTENDS Integers, Sequences, SequencesExt

CONSTANTS
    MaxNameLength,   \* of a host name, 253 in the code
    MaxLabelLength   \* of one label of it, 63 in the code

ASSUME LengthsAssumption == MaxNameLength \in Nat /\ MaxLabelLength \in Nat

-----------------------------------------------------------------------------
(* The keys, by the type of their value. *)

Texts ==
    {"username", "password", "client_id", "protocol", "truststore_password",
     "keystore_password", "key_password", "group_id", "partitioning", "kafka_prefix",
     "level", "dead_letter_kafka_topic", "dead_letter_mqtt_topic"}

Numbers ==
    {"port", "qos", "max_topic_levels", "connection_timeout", "default_partitions",
     "replication_factor", "max_retries", "retry_interval"}

Flags ==
    {"use_tls", "use_os_certs", "retain_only", "mqtt_to_kafka", "kafka_to_mqtt",
     "auto_create_topics", "dead_letter_enabled"}

Keys == Texts \cup Numbers \cup Flags
            \cup {"host", "brokers", "subscribe", "truststore", "keystore"}

NoLocation == [dots |-> FALSE, place |-> "elsewhere", file |-> "none"]
NoHost     == [ip |-> FALSE, labels |-> << << >> >>]

Zero == [key \in Keys |-> CASE key \in Texts   -> ""
                            [] key \in Numbers -> 0
                            [] key \in Flags   -> FALSE
                            [] key = "host"    -> NoHost
                            [] key \in {"brokers", "subscribe"}     -> << >>
                            [] OTHER -> NoLocation]

\* The keys that are spelled like the field they stand for, ignoring case.
NamedAsField ==
    {"host", "port", "username", "password", "qos", "subscribe", "brokers", "protocol",
     "truststore", "truststore_password", "keystore", "keystore_password",
     "partitioning", "level"}

Workarounds ==
    {"mqtt_to_kafka", "kafka_to_mqtt", "group_id", "auto_create_topics",
     "default_partitions", "replication_factor"}

\* The configuration with the values the file sets for some keys.
Taking(keys, file, config) ==
    [key \in Keys |-> IF key \in keys \cap DOMAIN file.set THEN file.set[key]
                                                          ELSE config[key]]

\* Seeded fault: the decoder goes by the yaml tags of the fields.
UnmarshalKeyByTag(file) == Taking(Keys, file, Zero)

\* The decoder of the library knows the names of the fields, not their yaml tags.
UnmarshalKey(file) == Taking(NamedAsField, file, Zero)

applyViperWorkarounds(file, config) == Taking(Workarounds, file, config)

Default == [kafka_prefix |-> "gom2k", max_topic_levels |-> 3,
            default_partitions |-> 3, replication_factor |-> 1]

applyDefaults(config) ==
    [key \in Keys |-> IF key \in DOMAIN Default /\ config[key] = Zero[key]
                        THEN Default[key] ELSE config[key]]

-----------------------------------------------------------------------------
(* pkg/validation *)

LengthOf(labels) ==
    FoldLeft(LAMBDA length, label : length + Len(label), Len(labels) - 1, labels)

\* Seeded fault: a label may end with a hyphen.
validateHostnameLoosely(labels) ==
    /\ LengthOf(labels) <= MaxNameLength
    /\ \A label \in Range(labels) :
          /\ Len(label) \in 1..MaxLabelLength
          /\ label[1] = "alphanumeric"
          /\ Range(label) \subseteq {"alphanumeric", "hyphen"}

validateHostname(labels) ==
    /\ LengthOf(labels) <= MaxNameLength
    /\ \A label \in Range(labels) :
          /\ Len(label) \in 1..MaxLabelLength
          /\ \A i \in DOMAIN label :
                /\ i = 1 => label[i] = "alphanumeric"
                /\ i = Len(label) => label[i] # "hyphen"
                /\ label[i] \in {"alphanumeric", "hyphen"}

validatePort(port) == port \in 1..65535

\* The checks of a host that both kinds of broker address share.
ValidHost(host) ==
    /\ host # NoHost
    /\ \A label \in Range(host.labels) : "blank" \notin Range(label)
    /\ host.ip \/ validateHostname(host.labels)

\* splits tells whether the address is a host, a colon and a port; a port that is not a
\* number is 0 here.
ValidateBrokerAddress(address) ==
    address.splits /\ ValidHost(address.host) /\ validatePort(address.port)

ValidateMQTTBroker(host, port) == ValidHost(host) /\ validatePort(port)

\* Without two dots, and a regular file that opens.  The comparison with the allowed
\* directories is one of text (strings.HasPrefix), so what is beside one passes; os.Stat
\* follows links, so a link is not told from the file.
ValidateSSLFilePath(location) ==
    /\ ~location.dots
    /\ location.place \in {"within", "beside"}
    /\ location.file \in {"keyAndCertificate", "trustStore", "undecodable"}

-----------------------------------------------------------------------------
(* internal/config *)

validate(config, testMode) ==
    /\ ValidateMQTTBroker(config["host"], config["port"])
    /\ Len(config["brokers"]) > 0
    /\ \A address \in Range(config["brokers"]) : ValidateBrokerAddress(address)
    /\ config["protocol"] = "SSL" /\ ~testMode =>
          \A key \in {"keystore", "truststore"} :
              config[key] # NoLocation => ValidateSSLFilePath(config[key])
    /\ config["mqtt_to_kafka"] \/ config["kafka_to_mqtt"]

\* The file exists, its text parses, and every value has the type of its field.
ReadInConfig(file) == file.state = "wellFormed"

\* Seeded fault: the defaults come first, so a value of zero in the file stays.
LoadFromFileAfterDefaults(file) ==
    LET config == applyViperWorkarounds(file, applyDefaults(UnmarshalKey(file)))
    IN {c \in {config} : ReadInConfig(file) /\ validate(c, FALSE)}

\* The configuration that is loaded: a set of one, or of none if the file is refused.
LoadFromFile(file) ==
    LET config == applyDefaults(applyViperWorkarounds(file, UnmarshalKey(file)))
    IN {c \in {config} : ReadInConfig(file) /\ validate(c, FALSE)}

\* Seeded fault: the copy of LoadFromFile for tests has lost the workarounds.
LoadForTestingPlainly(file) ==
    LET config == applyDefaults(UnmarshalKey(file))
    IN {c \in {config} : ReadInConfig(file) /\ validate(c, TRUE)}

LoadForTesting(file) ==
    LET config == applyDefaults(applyViperWorkarounds(file, UnmarshalKey(file)))
    IN {c \in {config} : ReadInConfig(file) /\ validate(c, TRUE)}

-----------------------------------------------------------------------------
(* The connections to Kafka: "plain", "tls", or "error" if a file does not load.  The  *)
(* library's Decode wants a private key and a certificate, its DecodeTrustStore        *)
(* certificates alone.                                                                 *)

Decode(location)           == location.file = "keyAndCertificate"
DecodeTrustStore(location) == location.file = "trustStore"

\* Seeded fault: both clients decode a truststore alike.
ProducerConnectionDecoding(config) ==
    CASE config["protocol"] \notin {"SSL", "ssl"} -> "plain"
      [] config["protocol"] \in {"SSL", "ssl"} ->
           IF /\ config["truststore"] # NoLocation => Decode(config["truststore"])
              /\ config["keystore"] # NoLocation => Decode(config["keystore"])
             THEN "tls" ELSE "error"

\* The producer compares the protocol in upper case and needs neither file.
ProducerConnection(config) ==
    CASE config["protocol"] \notin {"SSL", "ssl"} -> "plain"
      [] config["protocol"] \in {"SSL", "ssl"} ->
           IF /\ config["truststore"] # NoLocation => DecodeTrustStore(config["truststore"])
              /\ config["keystore"] # NoLocation => Decode(config["keystore"])
             THEN "tls" ELSE "error"

\* The consumer compares it as it is and needs both.
ConsumerConnection(config) ==
    CASE config["protocol"] # "SSL" -> "plain"
      [] config["protocol"] = "SSL" ->
           IF Decode(config["keystore"]) /\ Decode(config["truststore"])
             THEN "tls" ELSE "error"
=============================================================================
