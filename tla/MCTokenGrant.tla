---------------------------- MODULE MCTokenGrant ----------------------------
(* TokenGrant on small instances: the calls are interchangeable.            *)
EXTENDS TokenGrant, TLC

Symmetry == Permutations(Calls)
=============================================================================
