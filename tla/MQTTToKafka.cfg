CONSTANTS
    m1 = m1  m2 = m2  m3 = m3  NoMessage = NoMessage
    Messages = {m1, m2}
    OriginalTopic <- TopicOf
    Discriminator <- SecondOf
    Arrivals <- TwoInOrder
    MaxRetries = 2
    DeadLetterTopics = {"mqtt"}
    InboundSlots = 1
SPECIFICATION Spec
INVARIANTS TypeOK OnlyFailedAreOvertaken RetrierEndsFirst EveryMessageAccounted
PROPERTIES OutcomeIsFinal KeepsQueue EveryMessageHandled StopTerminates KeepsDirection
