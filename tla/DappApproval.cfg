SPECIFICATION FairSpec
CONSTANTS
    Requests = {r1}
    Kinds = {"send", "watch", "switch"}
    Wallets = {w1, w2}
    Locked = Locked
    MaxApprovals = 1
    MaxChanges = 2
INVARIANT AnsweredOnce
PROPERTY AuthorityFence HandedOffWhileHeld EveryRequestAnswered
CHECK_DEADLOCK FALSE
