SPECIFICATION FairSpec
CONSTANTS
    s1 = s1
    s2 = s2
    s3 = s3
    balance = balance
    call = call
    other = other
    main = main
    void = void
    Subs = {s1, s2, s3}
    Reads = {balance, call, other}
    ReadsOf <- MCReadsOf
    TimeoutOf <- MCTimeoutOf
    RouteOf <- MCRouteOf
    GroupOf <- MCRouteOf
    Shareable = {balance, call}
    LatestReads = {balance}
    Batchable = {balance, call}
    EmptyRoutes = {void}
    Capacity = 2
    MaxCalls = 3
    MaxInFlight = 1
    Interval = 1
    Never = Never
    Anyone = Anyone
INVARIANTS ReplyInOnePlace CreditUntilRetired
PROPERTIES NoEarlyTimeout EventuallyAnswered ShutdownCompletes
CHECK_DEADLOCK FALSE
