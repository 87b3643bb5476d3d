------------------------------- MODULE MCRelay -------------------------------
(* One tunnel, of Relay or of RelayStream.                                  *)
EXTENDS Relay
==============================================================================
