----------------------------- MODULE MCRateLimit ----------------------------
(* RateLimit for TLC: keys and threads are interchangeable.                  *)
EXTENDS RateLimit, TLC

Symmetry == Permutations(Keys) \union Permutations(Threads)
=============================================================================
