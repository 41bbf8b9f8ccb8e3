CONSTANTS
    Characters <- Alphabet
    MQTTTopics <- UpToFourLevels
    KafkaPrefix <- Prefix
    MaxTopicLevels = 3
    MaxLength = 7
SPECIFICATION Spec
INVARIANTS TakesFirstLevels CutToFit SharedOnlyByFirstLevels
