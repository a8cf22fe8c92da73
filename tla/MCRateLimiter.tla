--------------------------- MODULE MCRateLimiter ---------------------------
(* RateLimiter with interchangeable requests. *)
EXTENDS RateLimiter, TLC

Symmetry == Permutations(Req)
=============================================================================
