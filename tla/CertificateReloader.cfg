SPECIFICATION ReloadFairSpec
CONSTANTS
    Handshakes = {h1, h2}
    MaxVersion = 3
    KeyOf <- MCKeyOf
    Interval = 2
    Nobody = Nobody
INVARIANTS
    PairMatches
PROPERTIES
    NoGoingBack
    ChecksAreSpaced
    RenewalIsServed
