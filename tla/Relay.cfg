SPECIFICATION ActivityFairSpec
CONSTANTS
    Timeout = 2
    MaxCallbacks = 2
INVARIANTS
    RelaySound
    HalfCloseKeepsOther
PROPERTIES
    TimeoutOnlyWhenIdle
    IdleTunnelEnds
    InterruptedRelayEnds
