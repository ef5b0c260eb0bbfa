SPECIFICATION FairSpec
CONSTANTS
    Publishers = {p, q}
    Tokens = {t}
    MaxTtl = 4
    Interval = 1
    Grace = 2
    MaxPublishers = 1
    MaxSkew = 2
    MaxTime = 4
    MaxRevision = 1
INVARIANT OneGeneration SignalCatchesUp
PROPERTY NeverGoesBack PendingNotStuck
CHECK_DEADLOCK FALSE
