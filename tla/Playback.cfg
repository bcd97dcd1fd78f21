CONSTANTS
    FrameUnits = 2
    SinkRoom = 3
    Warmup = 1
    MaxStreams = 2
    MaxUnits = 8
SPECIFICATION RunningSpec
INVARIANTS
    TimersHeld
    PlayedInOrder
PROPERTIES
    SilencedStaysSilent
    TailPlays
    ImplementsSpeechEngine
CHECK_DEADLOCK FALSE
