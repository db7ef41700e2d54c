----------------------------- MODULE MCBridge ------------------------------
(* Values of the constants of Bridge for TLC, and their symmetries. *)
EXTENDS Bridge, TLC

CONSTANTS a, b, r1, r2

MCNames == {a, b}
MCRequests == {r1, r2}
OneName == {a}

Alike == Permutations(MCNames) \cup Permutations(MCRequests)
=============================================================================
