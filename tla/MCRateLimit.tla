---------------------------- MODULE MCRateLimit ----------------------------
(* Small instances of RateLimit for TLC; requests are interchangeable. *)
EXTENDS RateLimit, TLC

Symmetry == Permutations(Calls)
=============================================================================
