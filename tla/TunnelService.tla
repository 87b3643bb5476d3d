---------------------------- MODULE TunnelService ----------------------------
(***************************************************************************)
(* What the proxy promises about CONNECT tunnels and its stop, without     *)
(* handlers, locks, snapshots or wait groups: tunnels are established      *)
(* within the limits until the proxy begins to stop, each request has one  *)
(* tunnel at most, and a stop that reports success has ended them all.     *)
(***************************************************************************)
EXTENDS Integers, FiniteSets

CONSTANTS
    Requests,      \* the requests clients send
    Source,        \* the address each is counted under
    MaxTunnels,    \* max_tunnels
    MaxPerSource   \* max_tunnels_per_ip

VARIABLES
    tunnel,    \* of each request: "none" yet, "up", or "over"
    stopping,  \* no tunnel is established any more
    result     \* of the proxy as a whole: "none" yet, "ok" or "error"

serviceVars == <<tunnel, stopping, result>>

Up == {r \in Requests : tunnel[r] = "up"}
UpFrom(source) == {r \in Up : Source[r] = source}

ServiceInit ==
    /\ tunnel = [r \in Requests |-> "none"]
    /\ stopping = FALSE
    /\ result = "none"

Establish(r) ==
    /\ ~stopping
    /\ tunnel[r] = "none"
    /\ Cardinality(Up) < MaxTunnels
    /\ Cardinality(UpFrom(Source[r])) < MaxPerSource
    /\ tunnel' = [tunnel EXCEPT ![r] = "up"]
    /\ UNCHANGED <<stopping, result>>

\* A tunnel ends, or a request is answered without one.
End(r) ==
    /\ tunnel[r] # "over"
    /\ tunnel' = [tunnel EXCEPT ![r] = "over"]
    /\ UNCHANGED <<stopping, result>>

Stop ==
    /\ result = "none"
    /\ stopping' = TRUE
    /\ UNCHANGED <<tunnel, result>>

Succeed ==
    /\ result = "none"
    /\ stopping /\ Up = {}
    /\ result' = "ok"
    /\ UNCHANGED <<tunnel, stopping>>

Fail ==
    /\ result = "none"
    /\ result' = "error"
    /\ UNCHANGED <<tunnel, stopping>>

ServiceNext ==
    \/ \E r \in Requests : Establish(r) \/ End(r)
    \/ Stop \/ Succeed \/ Fail

ServiceSpec == ServiceInit /\ [][ServiceNext]_serviceVars
==============================================================================
