--------------------------- MODULE MCRateLimiter ---------------------------
(* Small instances of RateLimiter for TLC. *)
EXTENDS RateLimiter, TLC

(* The sends are interchangeable. *)
Symmetry == Permutations(Callers)
=============================================================================
