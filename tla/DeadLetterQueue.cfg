CONSTANTS
    m1 = m1  m2 = m2  m3 = m3  NoMessage = NoMessage
    Messages = {m1, m2, m3}
    OriginalTopic <- Topics
    Discriminator <- Seconds
    MaxRetries = 3
    DeadLetterTopics = {"kafka", "mqtt"}
SPECIFICATION Spec
INVARIANTS TypeOK NoMessageLost AtMostOneOutcome HonestRecords
PROPERTIES KeepsContract EveryFailureResolved StopTerminates
