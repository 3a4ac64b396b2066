------------------------------ MODULE MCService ------------------------------
(* Values for the constants of Service. *)
EXTENDS Service

CONSTANTS c1, c2, r1,        \* two callers of Check, one of Info
          plain, nonsense,   \* a name, and no name
          ascii

MCNameOf == [i \in Inputs |-> IF i = nonsense THEN None ELSE ascii]

\* CACHE_TTL_UNKNOWN=0 keeps unknown answers out of the cache.
MCTTL == [available |-> 1, unavailable |-> 1, unknown |-> 0]

MCChain == <<"whois">>
=============================================================================
