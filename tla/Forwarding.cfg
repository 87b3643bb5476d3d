SPECIFICATION ForwardSpec
CONSTANTS
    Headers <- MCHeaders
    HopByHop <- MCHopByHop
    TrailerNames = {"X-Sum", "X-Late", "X-Real-Ip"}
    Private = {"Via", "X-Real-Ip"}
INVARIANTS
    NothingPrivatePasses
    TrailersArrive
    CutResponseShows
\* One request ends.
CHECK_DEADLOCK FALSE
