SPECIFICATION Spec
CONSTANTS
    Settable <- MCSettable
    InFile = 2
    InEnv = 1
    MaxNumber = 3
INVARIANTS
    ServesWhatWasGiven
    LimitsFit
    NeverContradicted
CHECK_DEADLOCK FALSE
