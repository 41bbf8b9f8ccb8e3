SPECIFICATION Spec
CONSTANTS
    Topics <- MCTopics
    KafkaTopicOf <- MCKafkaTopicOf
    Skipped <- MCSkipped
    DeadLetterMQTT = "gom2k/dead-letter"
    DeadLetterKafka = "gom2k.dead-letter"
    DefaultTopic = "gom2k.sensor"
    Prefixed <- MCPrefixed
    Filters <- MCFilters
    DeviceMessages <- MCDeviceMessages
    NoTopic = NoTopic
    NoMessage = NoMessage
    MaxMessages = 2
    MaxHops = 3
    MaxFailures = 2
    MaxRestarts = 1
CHECK_DEADLOCK FALSE
INVARIANTS TypeOK RoundTrip LoopsOnlyWhereExpected
PROPERTIES FallsSilent
