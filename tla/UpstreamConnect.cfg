SPECIFICATION FairSpec
CONSTANTS
    Mode = "environment"
    HeaderLimit = 3
    MaxSent = 4
INVARIANTS
    ConnectionSound
    BlameIsRight
    TunnelStartsAfterHeader
PROPERTIES
    SetupEnds
\* One set-up ends.
CHECK_DEADLOCK FALSE
