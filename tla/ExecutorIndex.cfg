SPECIFICATION IndexSpec
CONSTANTS
    old = old
    new = new
    send = send
    swap = swap
    None = None
    OpIds = {send, swap}
    Delegates = {old, new}
    Interchangeable <- MCInterchangeable
    PositionStart = 1
    PositionEnd = 2
    IndexLimit = 5
    MaxRecords = 3
SYMMETRY MCSymmetry
INVARIANTS UniqueIndex HandedKept
CHECK_DEADLOCK FALSE
