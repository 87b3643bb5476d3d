------------------------- MODULE MCConnectionLimits --------------------------
(* Four connections, two of one host, one of another and one without a      *)
(* host, and two goroutines that may close each of them.  With two slots    *)
(* and one per host, either limit may be the one that refuses.              *)
EXTENDS ConnectionLimits

CONSTANTS c1, c2, c3, c4

MCConns == {c1, c2, c3, c4}

MCRemoteHost ==
    [c \in MCConns |-> CASE c = c3 -> "10.0.0.2"
                         [] c = c4 -> ""
                         [] OTHER  -> "10.0.0.1"]
==============================================================================
