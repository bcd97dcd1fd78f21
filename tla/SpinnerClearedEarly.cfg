CONSTANTS
    e1 = e1
    e2 = e2
    r1 = r1
    r2 = r2
    r3 = r3
    r4 = r4
    NoEpisode = NoEpisode
    Episode <- MCEpisode
    Request <- MCRequest
SPECIFICATION Spec
INVARIANT
    LoadingWhileInFlight
