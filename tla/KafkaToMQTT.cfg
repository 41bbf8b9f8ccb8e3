CONSTANTS
    LastOffset = 4
    Kind <- EveryKind
    ErrorCapacity = 2
    MaxKills = 2
SPECIFICATION Spec
INVARIANTS TypeOK CommittedIsSettled LoopHasWhatItUses NeverStuck
PROPERTIES PublishedInOrder KeepsDirection
