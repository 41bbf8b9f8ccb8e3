------------------------------ MODULE MCProgram ------------------------------
EXTENDS ProgramProperties

\* Hosts of one label of up to three characters and of two of up to two.
Characters == {"alphanumeric", "hyphen", "blank"}
Labels(n)  == UNION {[1..k -> Characters] : k \in 0..n}
Names      == {<<label>> : label \in Labels(3)} \cup (Labels(2) \X Labels(2))
Hosts      == {[ip |-> FALSE, labels |-> name] : name \in Names}
                  \cup {[ip |-> TRUE, labels |-> << <<"other">> >>]}

Name  == [ip |-> FALSE, labels |-> << <<"alphanumeric">> >>]
Ports == {0, 1, 65535, 65536}

Addresses ==
    {[splits |-> TRUE, host |-> host, port |-> 9092] : host \in Hosts}
        \cup [splits : BOOLEAN, host : {Name, NoHost}, port : Ports]

Address == [splits |-> TRUE, host |-> Name, port |-> 9092]

Locations ==
    {[dots |-> dots, place |-> place, file |-> "trustStore"] :
         dots \in BOOLEAN, place \in {"within", "beside", "elsewhere"}}
        \cup {[dots |-> FALSE, place |-> "within", file |-> kind] :
                 kind \in {"missing", "directory", "unreadable", "undecodable",
                           "keyAndCertificate"}}

\* A file that is accepted and sets no more than it must, and what it may set instead.
Sound ==
    [key \in {"host", "port", "brokers", "mqtt_to_kafka", "kafka_to_mqtt"} |->
        CASE key = "host" -> Name [] key = "port" -> 1883
          [] key = "brokers" -> <<Address>> [] OTHER -> TRUE]

With(settings) == {[state |-> "wellFormed", set |-> set @@ Sound] : set \in settings}

MCFiles ==
    {[state |-> "missing", set |-> Sound], [state |-> "malformed", set |-> Sound]}
        \cup With([{"host"} -> Hosts])
        \cup With([{"port"} -> Ports])
        \cup With([{"brokers"} -> {<< >>} \cup {<<address>> : address \in Addresses}
                                         \cup {<<Address, address>> : address \in Addresses}])
        \cup With([{"mqtt_to_kafka", "kafka_to_mqtt"} -> BOOLEAN])
        \cup {[state |-> "wellFormed", set |-> [key \in DOMAIN Sound \ {flag} |-> Sound[key]]] :
                 flag \in {"mqtt_to_kafka", "kafka_to_mqtt"}}
        \cup With({("protocol" :> protocol @@ "truststore" :> truststore) :
                      protocol \in {"SSL", "ssl", "PLAINTEXT"}, truststore \in Locations})
        \cup With({("protocol" :> protocol @@ "keystore" :> keystore @@
                    "truststore" :> truststore) : protocol \in {"SSL", "ssl", "PLAINTEXT"},
                      keystore \in Locations, truststore \in Locations})
        \cup With({("dead_letter_enabled" :> TRUE @@ "retry_interval" :> interval) :
                      interval \in {0, 5}})
        \cup With([{"default_partitions"} -> {0, 6}])
        \cup With([{"use_tls", "retain_only"} -> BOOLEAN])
=============================================================================
