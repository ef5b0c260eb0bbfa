SPECIFICATION QueueSpec
CONSTANTS
    balance = balance
    code = code
    nonce = nonce
    main = main
    side = side
    wallet = wallet
    dapp = dapp
    Keys = {balance, code, nonce}
    Origins = {wallet, dapp}
    Routes = {main, side}
    RouteOf <- MCRouteOf
    Batchable = {balance, code}
    MaxCalls = 2
    MaxReadyId = 4
SYMMETRY MCSymmetry
INVARIANTS LanesReachEntries TurnsBounded
CHECK_DEADLOCK FALSE
