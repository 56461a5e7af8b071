--------------------------- MODULE MCRateLimiter ---------------------------
(***************************************************************************)
(* RateLimiter for TLC: the requests of a team are alike.                  *)
(***************************************************************************)
EXTENDS RateLimiter, TLC

MCSymmetry == Permutations(Request)
=============================================================================
