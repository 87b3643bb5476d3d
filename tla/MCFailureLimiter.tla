-------------------------- MODULE MCFailureLimiter ---------------------------
(* Interchangeable workers serve the requests of interchangeable addresses. *)
EXTENDS FailureLimiter, TLC

Symmetry == Permutations(Workers) \cup Permutations(Keys)
==============================================================================
