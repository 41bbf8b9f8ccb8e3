SPECIFICATION Spec
CONSTANTS
    MaxNameLength = 4
    MaxLabelLength = 2
    Files <- MCFiles
    MaxSignals = 2
INVARIANT KeysTakeEffect
