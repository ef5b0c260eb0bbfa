SPECIFICATION Spec
CONSTANTS
    j1 = j1
    j2 = j2
    a = a
    b = b
    Jobs = {j1, j2}
    Joinable = {j1, j2}
    Endpoints = {a, b}
    MaxInFlight = 1
    ProbeLimit = 1
    None = None
SYMMETRY MCSymmetry
INVARIANTS LedgerExact ReadsOnlyVerified NoLostWakeup ParkedHears SomebodyMoves
CHECK_DEADLOCK FALSE
