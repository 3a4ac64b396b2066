------------------------------- MODULE MCTools -------------------------------
(* Values for the constants of Tools. *)
EXTENDS Tools

MCPieces == {"data", "get", "hq", "com", "io", "co", "uk"}

\* "IO" stands for the letters of another script that have "io" for punycode.
MCTyped == MCPieces \cup {"Data", "IO"}
MCLower == [p \in MCTyped |-> IF p = "Data" THEN "data" ELSE p]
MCAscii == [MCLower EXCEPT !["IO"] = "io"]
MCAlphabet == <<"-", ".", "co", "com", "data", "get", "hq", "io", "uk">>
MCPublicSuffixes == {<<"com">>, <<"io">>, <<"uk">>, <<"co", ".", "uk">>}

Com == <<"com">>
CoUk == <<"co", ".", "uk">>

\* Hosts: plain, upper case with a trailing dot, below a long suffix, no name
\* at all (a public suffix, a label, an empty label, a hyphen at an end).
MCHosts == {<<"data", ".", "com">>, <<"Data", ".", "IO", ".">>,
            <<"get", ".", "data", ".", "co", ".", "uk">>, CoUk, <<"data">>,
            <<"data", ".", ".", "com">>, <<"data", "-", ".", "com">>, <<>>}

\* What may stand around them; hq.io is another host, named in a path or query.
Nothing == <<>>
MCPastes ==
    [scheme : {Nothing, <<" ">>, <<"hq", ":", "/", "/">>},
     user   : {Nothing, <<"get", "@">>, <<"get", ":", "hq", "@">>},
     host   : MCHosts,
     port   : {Nothing, <<":", "hq">>, <<" ">>},
     tail   : {Nothing, <<"/", "@", "hq">>, <<"/", "get", ":", "/", "/", "hq", ".", "io">>}]

MCBatches ==
    [domains : {<<>>, <<CoUk>>,
                <<<<"data", ".", "com">>, <<"data">>, <<"Data", ".", "com">>>>,
                [i \in 1 .. 4 |-> <<"data", ".", "com">>]},
     onlyAvailable : BOOLEAN]

\* Names that are affixed forms of others, or hacks of them; TLDs that repeat,
\* mean nothing, or are no suffix of their own.
MCRequests ==
    [names : {<<>>, <<<<"Data", " ", "IO">>, <<"-">>>>, <<<<"data">>, <<"get", "_", "data">>>>,
              <<<<"data", "com">>, <<"data">>>>},
     tlds : {<<>>, <<<<".", "com">>, <<"hq", ".", "io">>, Com, <<" ">>>>, <<CoUk, <<"IO">>>>},
     prefixes : {<<>>, <<<<"get">>>>},
     suffixes : {<<>>, <<<<"_">>, <<"hq">>>>},
     hyphenate : BOOLEAN,
     hacks : BOOLEAN,
     maxCandidates : {0, 9},
     limit : {0, 1},
     includeTaken : BOOLEAN]
=============================================================================
