CONSTANTS
    q1 = q1
    q2 = q2
    q3 = q3
    ModelCount = 3
    Request <- MCRequest
    MaxRetries = 3
    MaxSessions = 3
SPECIFICATION FairSpec
INVARIANTS BuiltWithBoth NeitherComesLate
PROPERTIES VerifiedFilesStay StartSettles ModelsArrive MicRecovers
