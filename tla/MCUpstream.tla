----------------------------- MODULE MCUpstream -----------------------------
(* Values for the constants of Upstream. *)
EXTENDS Upstream, TLC

CONSTANTS k1, k2, primary, backup

\* The bases of a TLD with two of them, and of one that shares the second.
MCTwoBases == {<<primary, backup>>, <<backup>>}

MCSymmetry == Permutations(Clients)
=============================================================================
