CONSTANTS
    LastOffset = 4
    Kind <- EveryKind
    ErrorCapacity = 2
    MaxKills = 0
SPECIFICATION Spec
PROPERTIES StopTerminates
