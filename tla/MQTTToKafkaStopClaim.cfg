CONSTANTS
    m1 = m1  m2 = m2  m3 = m3  NoMessage = NoMessage
    Messages = {m1, m2, m3}
    OriginalTopic <- TopicOf
    Discriminator <- SecondOf
    Arrivals <- ThreeInOrder
    MaxRetries = 1
    DeadLetterTopics = {"mqtt"}
    InboundSlots = 1
SPECIFICATION Spec
PROPERTIES StopShutsDown
CHECK_DEADLOCK FALSE
