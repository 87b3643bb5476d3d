SPECIFICATION FairSpec
CONSTANTS
    r1 = r1
    r2 = r2
    r3 = r3
    r4 = r4
    Requests <- StopRequests
    Proto <- StopProto
    RemoteHost <- StopRemoteHost
    None = None
    maxTotal = 2
    maxPerKey = 2
INVARIANTS
    RegistrySound
    NoLeak
    CleanStop
    ListenerClosed
    StopNeverStuck
PROPERTIES
    NoAddDuringWait
    StopEnds
    StopReleasesTunnels
