------------------------------ MODULE MCEngine ------------------------------
(* Values for the constants of Engine. *)
EXTENDS Engine

CONSTANTS c1, c2,                \* callers
          plain, other, nonsense,  \* two spellings of a name, and no name
          ascii

MCNameOf == [i \in Inputs |-> IF i = nonsense THEN None ELSE ascii]

\* As in the defaults of main.go, an unavailable lives longest and an unknown
\* shortest.
MCTTL == [available |-> 1, unavailable |-> 2, unknown |-> 1]
=============================================================================
