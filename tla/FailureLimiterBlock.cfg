SPECIFICATION Spec
CONSTANTS
    Keys = {k1}
    Workers = {w1, w2}
    maxFailures = 2
    window = 2
    block = 3
    MaxTime = 5
SYMMETRY Symmetry
PROPERTY
    BlockLasts
