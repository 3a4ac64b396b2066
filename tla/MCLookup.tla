------------------------------ MODULE MCLookup ------------------------------
(* Values for the constants of Lookup. *)
EXTENDS Lookup, TLC

CONSTANTS l1, l2

\* main.go: WHOIS_ENABLED is true.
MCChain == <<"rdap", "whois">>

MCSymmetry == Permutations(Lookups)
=============================================================================
