SPECIFICATION Spec
CONSTANTS
    c1 = c1
    latA = latA
    latB = latB
    pin = pin
    Chains = {c1}
    LatestReads = {latA, latB}
    PinnedReads = {pin}
    ChainOf <- MCChainOf
    Blocks = {1, 2}
    MaxGeneration = 1
    Lease = 1
    EntryLimit = 2
    MaxUnshared = 1
    None = None
SYMMETRY MCSymmetry
INVARIANTS NoStaleHit NoStaleJoin
