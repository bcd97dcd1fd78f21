SPECIFICATION Spec
CONSTANTS
    Capacity = 4
    Value = {a, b}
INVARIANTS
    NoSlotRace
    SizesBracket
PROPERTY
    ImplementsBoundedQueue
