SPECIFICATION Spec
CONSTANTS
    f1 = f1
    f2 = f2
    h1 = h1
    h2 = h2
    a1 = a1
    Families = {f1, f2}
    Hashes = {h1, h2}
    Accounts = {a1}
    Scopes = {s1, s2}
    NoScope = NoScope
    TicketIds = {t1, t2}
    MaxStale = 1
    NoTicket = NoTicket
    NsIds = {n1, n2, n3}
    NoNs = NoNs
    MaxBlock = 2
    AccountOf <- OneAccount
    Attempts <- BothAttempts
INVARIANT EligibleFresh PendingHasObserver RefreshNotLost
PROPERTY ClassifiesAsPromised
SYMMETRY Interchangeable
CHECK_DEADLOCK FALSE
CONSTRAINT OneStory
