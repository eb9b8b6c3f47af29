---------------------------- MODULE MCRateLimiter ----------------------------
(* An instance of RateLimiter for TLC. *)
EXTENDS RateLimiter, TLC

Anyone == Permutations(Requests) \cup Permutations(Clients)
=============================================================================
