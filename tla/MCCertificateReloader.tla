------------------------ MODULE MCCertificateReloader ------------------------
(* Two handshakes at a time and three renewals, the last of which keeps     *)
(* the key.                                                                 *)
EXTENDS CertificateReloader

MCKeyOf == [v \in Versions |-> IF v = 3 THEN 2 ELSE v]
==============================================================================
