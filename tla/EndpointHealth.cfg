SPECIFICATION FairHealthSpec
CONSTANTS
    first = first
    rebuilt = rebuilt
    shared = shared
    main = main
    r1 = r1
    r2 = r2
    Targets = {first, rebuilt}
    Sites = {shared}
    Routes = {r1, r2}
    Chains = {main}
    SiteOf <- MCSiteOf
    RouteOf <- MCRouteOf
    ChainOf <- MCChainOf
    Trusted = {rebuilt}
    Threshold = 3
    Window = 1
    Base = 1
    MaxCooldown = 4
    MaxExponent = 2
    MaxLevel = 4
    MaxProbes = 1
INVARIANTS RecoveryPending
PROPERTIES RetryBacksOff OfferedAgain
CHECK_DEADLOCK FALSE
