---------------------------- MODULE MCRateLimiter ----------------------------
(* Interchangeable goroutines and clients.                                 *)
EXTENDS RateLimiter, TLC

LimiterSymmetry == Permutations(Slots) \cup Permutations(Clients)

MCWindows == {-1, 1, 2}
=============================================================================
