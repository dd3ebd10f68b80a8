--------------------------- MODULE MCRateLimiter ---------------------------
(* Small instances of RateLimiter for TLC. *)
EXTENDS RateLimiter, TLC

(* The handlers are interchangeable. *)
Symmetry == Permutations(Handler)
=============================================================================
