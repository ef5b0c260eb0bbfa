SPECIFICATION Spec
CONSTANTS
    swap = swap
    send = send
    swap0 = swap0
    recover0 = recover0
    swap1 = swap1
    send0 = send0
    coin = coin
    change = change
    Nothing = Nothing
    Operations = {swap, send}
    Payloads = {swap0, recover0, swap1, send0}
    Notes = {coin, change}
    Owner <- MCOwner
    NonceOf <- MCNonceOf
    Inputs <- MCInputs
    Recoveries = {recover0}
    Shielding = {recover0, swap1}
    MaxBlocks = 2
    MaxReorgs = 1
INVARIANTS OneReservation FreeNotesUnspent RunnableReserved
CHECK_DEADLOCK FALSE
CONSTRAINT OneStory
