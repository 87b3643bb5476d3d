--------------------------- MODULE MCTunnelServer ----------------------------
(* Small sets of requests for TunnelServer.                                 *)
EXTENDS TunnelServer

CONSTANTS r1, r2, r3, r4

(* Stopping: one request of each protocol.                                  *)
StopRequests == {r1, r2, r3}

StopProto == [r \in StopRequests |-> CASE r = r1 -> "h1"
                                       [] r = r2 -> "h2"
                                       [] r = r3 -> "http"]

StopRemoteHost == [r \in StopRequests |-> "10.0.0.1"]

(* Limits: two tunnels of one address, one of another and one of none.      *)
LimitRequests == {r1, r2, r3, r4}

LimitProto == [r \in LimitRequests |-> IF r \in {r2, r3} THEN "h2" ELSE "h1"]

LimitRemoteHost == [r \in LimitRequests |-> CASE r = r3 -> "10.0.0.2"
                                              [] r = r4 -> ""
                                              [] OTHER  -> "10.0.0.1"]
==============================================================================
