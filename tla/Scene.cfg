SPECIFICATION Spec
CONSTANTS
    Plugin = {globe, space}
    Overlay = {adsb}
    Unknown = {unknown}
    First = globe
    Params = {p1, p2}
    Data = {d1, d2}
    MaxItems = 3
    Null = Null
SYMMETRY Symmetry
INVARIANTS
    CurrentHeld
    SettlesOnCurrent
    OverlaysMatch
