----------------------------- MODULE MCBootstrap -----------------------------
(* Values for the constants of Bootstrap. *)
EXTENDS Bootstrap, TLC

CONSTANTS k1, k2, k3

MCSymmetry == Permutations(Clients)
=============================================================================
