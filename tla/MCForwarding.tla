---------------------------- MODULE MCForwarding -----------------------------
(* Headers for Forwarding: with and without fields of each sort.            *)
EXTENDS Forwarding

H(names, listed, trailers) == [names |-> names, listed |-> listed, trailers |-> trailers]

MCHeaders == {
    H({}, {}, FALSE),
    H({"App", "Upgrade", "X-Real-Ip", "Te", "X-Sum"}, {}, FALSE),
    H({"Connection", "Te", "Via", "Content-Length"}, {"Te", "App"}, TRUE),
    H({"Connection", "X-Real-Ip", "Content-Length"}, {"X-Real-Ip", "Content-Length"}, FALSE)}

MCHopByHop == {"Connection", "Keep-Alive", "Te", "Trailer", "Upgrade"}
==============================================================================
