-------------------------- MODULE MCUpstreamConnect --------------------------
EXTENDS UpstreamConnect
==============================================================================
