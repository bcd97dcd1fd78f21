CONSTANTS
    s1 = s1
    s2 = s2
    NoSession = NoSession
    Session <- MCSession
    Steps = 6
    MaxAttempt = 7
    t1 = t1
    t2 = t2
    Thread <- MCThread
    MaxRecords = 3
SPECIFICATION LogSpec
INVARIANTS SessionIsCurrent NeverStranded LogHeld
PROPERTIES BackoffFollowsSchedule ImplementsConnection Reconnects
