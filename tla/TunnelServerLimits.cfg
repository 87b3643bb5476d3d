SPECIFICATION Spec
CONSTANTS
    r1 = r1
    r2 = r2
    r3 = r3
    r4 = r4
    Requests <- LimitRequests
    Proto <- LimitProto
    RemoteHost <- LimitRemoteHost
    None = None
    maxTotal = 2
    maxPerKey = 1
INVARIANTS
    TunnelLimitsKept
PROPERTY
    ImplementsService
