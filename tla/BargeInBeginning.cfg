CONSTANTS
    PreRoll = 2
    Chunk = 2
    Suppression = 4
    Confirmation = 3
    MaxLag = 1
    MaxTime = 6
    MaxFailures = 1
SPECIFICATION Spec
INVARIANT BargeInKeepsBeginning
CHECK_DEADLOCK FALSE
