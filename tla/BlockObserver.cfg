SPECIFICATION FairSpec
CONSTANTS
    x = x
    y = y
    Providers = {1, 2}
    NoProvider = 0
    Blocks = {1, 2, 3, 4, 5}
    NoBlock = 99
    Parent <- MCParent
    Height <- MCHeight
    TxsOf <- MCTxsOf
    Hashes = {x, y}
    Original = x
    Unsupporting = {2}
    FinalityDepth = 1
    MaxBlocksPerPoll = 2
    MaxFaults = 1
INVARIANT NothingSkipped
PROPERTY ReportsAsPromised
PROPERTY EndsOnceSettled
CHECK_DEADLOCK FALSE
