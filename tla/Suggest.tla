------------------------------- MODULE Suggest -------------------------------
(***************************************************************************)
(* The pure parts of Engine.Suggest: which candidates a request expands    *)
(* to, in which order, and how answers on them are ranked.                 *)
(***************************************************************************)
EXTENDS Names, Integers

CONSTANT Alphabet   \* of domains, in the order of its bytes

ASSUME AlphabetAssumption ==
    /\ Alphabet \in Seq(Pieces \cup {"-", "."})
    /\ ToSet(Alphabet) = Pieces \cup {"-", "."}

\* What is not dropped, of what was normalized.
Usable(s) == Kept(s, {i \in DOMAIN s : s[i] # <<>>})

\* Only the first of each: a TLD that is asked for again keeps its place.
Unique(s) == Kept(s, {i \in DOMAIN s : s[i] # <<>> /\ \A j \in 1 .. i - 1 : s[j] # s[i]})

Bases(texts) == Usable([i \in DOMAIN texts |-> NormalizeLabel(texts[i])])
Tlds(texts) == Unique([i \in DOMAIN texts |-> NormalizeTLD(texts[i])])

\* What is tried: a label under a TLD, and what it will be ranked by.
Try(label, tld, rank, exactBase, hyphenated) ==
    [label |-> label, tld |-> tld, tldRank |-> rank,
     exactBase |-> exactBase, hyphenated |-> hyphenated]

\* An affixed label, and its hyphenated variant if that is asked for.
Affixed(first, second, tld, rank, hyphenate) ==
    <<Try(first \o second, tld, rank, FALSE, FALSE)>>
    \o IF hyphenate THEN <<Try(first \o <<"-">> \o second, tld, rank, FALSE, TRUE)>> ELSE <<>>

Variants(base, tlds, rank, req) ==
    LET prefixes == Bases(req.prefixes)
        suffixes == Bases(req.suffixes)
    IN  <<Try(base, tlds[rank], rank, TRUE, FALSE)>>
        \o FlattenSeq([i \in DOMAIN prefixes |->
               Affixed(prefixes[i], base, tlds[rank], rank, req.hyphenate)])
        \o FlattenSeq([i \in DOMAIN suffixes |->
               Affixed(base, suffixes[i], tlds[rank], rank, req.hyphenate)])

\* The tail of the base becomes the TLD.
Hacks(base, tlds) ==
    LET fits(tld) == /\ IsStrictSuffix(tld, base)
                     /\ base[Len(base) - Len(tld)] # "-"
        fitting == Kept(tlds, {i \in DOMAIN tlds : fits(tlds[i])})
    IN  [i \in DOMAIN fitting |->
            Try(SubSeq(base, 1, Len(base) - Len(fitting[i])), fitting[i],
                Len(tlds) + 1, FALSE, FALSE)]

Tries(req) ==
    LET bases == Bases(req.names)
        tlds == Tlds(req.tlds)
    IN  FlattenSeq([b \in DOMAIN bases |->
            FlattenSeq([rank \in DOMAIN tlds |-> Variants(bases[b], tlds, rank, req)])
            \o IF req.hacks THEN Hacks(bases[b], tlds) ELSE <<>>])

Candidate(try, name) ==
    [domain |-> name.ascii, tldRank |-> try.tldRank,
     exactBase |-> try.exactBase, hyphenated |-> try.hyphenated]

\* Mutant of Add: a repeated domain is a candidate again.
AddAgain(done, try) ==
    LET name == Parse(try.label \o Dot \o try.tld)
    IN  IF name # Invalid /\ Registrable(name) THEN Append(done, Candidate(try, name)) ELSE done

\* A try becomes a candidate if it can be registered and is not one yet.
Add(done, try) ==
    LET name == Parse(try.label \o Dot \o try.tld)
    IN  IF /\ name # Invalid
           /\ Registrable(name)
           /\ \A i \in DOMAIN done : done[i].domain # name.ascii
        THEN Append(done, Candidate(try, name))
        ELSE done

Expand(req) ==
    LET tries == Tries(req)
        done[n \in 0 .. Len(tries)] ==
            IF n = 0 THEN <<>> ELSE Add(done[n - 1], tries[n])
    IN  done[Len(tries)]

-----------------------------------------------------------------------------
Code(x) == FirstOf(Alphabet, x)

\* The order of strings of one length.
LexLess(s, t) ==
    \E i \in DOMAIN s : /\ Code(s[i]) < Code(t[i])
                        /\ \A j \in 1 .. i - 1 : s[j] = t[j]

Less(a, b) ==
    IF a.tldRank # b.tldRank THEN a.tldRank < b.tldRank
    ELSE IF a.exactBase # b.exactBase THEN a.exactBase
    ELSE IF a.hyphenated # b.hyphenated THEN b.hyphenated
    ELSE IF Len(a.domain) # Len(b.domain) THEN Len(a.domain) < Len(b.domain)
    ELSE LexLess(a.domain, b.domain)

\* The order of some of the candidates, by index: no two have one domain.
Ranked(candidates, I) == {p \in I \X I : Less(candidates[p[1]], candidates[p[2]])}

Wanted(checks, onlyAvailable) ==
    {i \in DOMAIN checks : onlyAvailable => checks[i].availability = "available"}

\* Mutant of Rank: the limit comes before the order.
RankLimited(checks, candidates, onlyAvailable, limit) ==
    LET kept == InOrder(Wanted(checks, onlyAvailable), Increasing(DOMAIN checks))
        n == IF limit \in 1 .. Len(kept) THEN limit ELSE Len(kept)
        order == InOrder({kept[k] : k \in 1 .. n}, Ranked(candidates, DOMAIN checks))
    IN  [k \in 1 .. n |-> checks[order[k]]]

\* Which of the answers are returned, and in which order.
Rank(checks, candidates, onlyAvailable, limit) ==
    LET order == InOrder(Wanted(checks, onlyAvailable), Ranked(candidates, DOMAIN checks))
        n == IF limit \in 1 .. Len(order) THEN limit ELSE Len(order)
    IN  [k \in 1 .. n |-> checks[order[k]]]
=============================================================================
