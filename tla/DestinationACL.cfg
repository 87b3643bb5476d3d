SPECIFICATION Spec
CONSTANTS
    name = name
    idn = idn
    local = local
    far = far
    hop = hop
    open = open
    blocked = blocked
    p1 = p1
    q1 = q1
    None = None
    Requests = {r1, r2}
    PublicIPs = {p1, p2}
    OtherIPs = {q1}
    Names = {name, idn, local, far, hop}
    LocalNames = {local}
    RespelledNames = {idn}
    ProxiedNames = {far, hop}
    BlockedPorts = {blocked}
    OpenPorts = {open}
    Targets <- MCTargets
    Proxy <- MCProxy
    MaxAnswers = 2
SYMMETRY Alike
INVARIANTS
    OnlyPublicReached
    DialsWhatWasApproved
    BlockedPortsUnreached
    EveryAddressTried
\* Requests come to an end.
CHECK_DEADLOCK FALSE
