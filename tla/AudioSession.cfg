CONSTANTS
    s1 = s1
    s2 = s2
    d1 = d1
    d2 = d2
    d3 = d3
    NoStream = NoStream
    Stream <- MCStream
    OutStream <- MCOutStream
    MaxInbox = 3
    LinkDrops = TRUE
    PipelineFaults = TRUE
SPECIFICATION FairSpec
INVARIANTS
    StreamingHeld
    PlaybackHeld
    BargeInNamesPlayingStream
    IdleOnlyWhenBroken
    BargeInTimerHeld
    BargeInFollowsSpeech
    ThresholdRestoredUnlessCut
PROPERTIES
    AbandonedOnlyByErrors
    ImplementsSpeechEngine
    ImplementsUploadProtocol
    EveryUploadEnds
