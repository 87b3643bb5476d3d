--------------------------- MODULE MCDestinationACL ---------------------------
(* Requests for DestinationACL: names of each sort, a blocked port and two   *)
(* literals in the IPv4-mapped spelling.                                     *)
EXTENDS DestinationACL, TLC

CONSTANTS name, idn, local, far, hop, open, blocked, p1, q1

At(h, p) == [host |-> h, port |-> p]
Literal(i) == [ip |-> i, mapped |-> TRUE]

MCProxy == At(hop, open)
MCTargets ==
    {At(h, open) : h \in {name, idn, local, far, hop, Literal(p1), Literal(q1)}}
        \cup {At(name, blocked)}

Alike == Permutations(Requests)
==============================================================================
