---------------------------- MODULE MCRateLimiter ----------------------------
(***************************************************************************)
(* A finite instance of RateLimiter. *)
(***************************************************************************)
EXTENDS RateLimiter, TLC

(* Requests are alike, and so are keys. *)
Symmetry == Permutations(Request) \cup Permutations(Key)

=============================================================================
