CONSTANTS
    PreRoll = 3
    Chunk = 2
    Suppression = 4
    Confirmation = 4
    MaxLag = 1
    MaxTime = 9
    MaxFailures = 1
SPECIFICATION Spec
INVARIANTS DamageBounded PreRollHeld
PROPERTY WakesAreApart
CHECK_DEADLOCK FALSE
