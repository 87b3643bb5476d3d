SPECIFICATION FairSpec
CONSTANTS
    c1 = c1
    c2 = c2
    c3 = c3
    c4 = c4
    Conns <- MCConns
    Closers = {g1, g2}
    RemoteHost <- MCRemoteHost
    None = None
    maxTotal = 2
    maxPerKey = 1
INVARIANTS
    SlotsNeverLost
    SocketsWithinLimits
PROPERTY
    ClosedGivesSlotBack
CHECK_DEADLOCK FALSE
