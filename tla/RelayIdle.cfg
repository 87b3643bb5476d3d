SPECIFICATION FairSpec
CONSTANTS
    Timeout = 2
    MaxCallbacks = 2
PROPERTY
    IdleTunnelCloses
