-------------------------------- MODULE Names --------------------------------
(***************************************************************************)
(* domainname: what a user typed or pasted, as the name registries know.   *)
(*                                                                         *)
(* A text is a sequence of tokens: a punctuation mark, or a piece of a     *)
(* label that the code never splits and whose length counts as 1.  "/"     *)
(* stands for any of / ? and #.                                            *)
(***************************************************************************)
EXTENDS SequencesExt

CONSTANTS
    Pieces,          \* of labels, in ASCII and lower case
    Typed,           \* as users may type them
    Lower,           \* in lower case
    Ascii,           \* the conversion: lower case, and punycode (IDNA)
    PublicSuffixes,  \* the public suffix list
    MaxLabel         \* the greatest length of a label

Space == " "
Underscore == "_"
Marks == {Space, ".", "-", Underscore, ":", "/", "@", "]"}

ASSUME NamesAssumption ==
    /\ Ascii \in [Typed -> Pieces] /\ Lower \in [Typed -> Typed]
    /\ Pieces \subseteq Typed /\ \A p \in Pieces : Ascii[p] = p
    /\ PublicSuffixes \subseteq Seq(Pieces \cup {"-", "."})
    /\ Typed \cap Marks = {}
    /\ MaxLabel \in Nat \ {0}

Text == Seq(Typed \cup Marks)

Dot == <<".">>

\* The elements of S in the order that a set of pairs puts them in.
InOrder(S, before) ==
    [k \in 1 .. Cardinality(S) |->
        CHOOSE x \in S : Cardinality({y \in S : <<y, x>> \in before}) = k - 1]

Increasing(I) == {p \in I \X I : p[1] < p[2]}

\* What s has at some of its indices.
Kept(s, I) ==
    LET at == InOrder(I, Increasing(I))
    IN  [k \in DOMAIN at |-> s[at[k]]]

FirstOf(s, x) == SelectInSeq(s, LAMBDA y : y = x)
LastOf(s, x) == SelectLastInSeq(s, LAMBDA y : y = x)
Behind(s, i) == SubSeq(s, i + 1, Len(s))
Before(s, i) == SubSeq(s, 1, i - 1)

\* s without the x at its ends.
Trim(s, x) ==
    LET first == SelectInSeq(s, LAMBDA y : y # x)
    IN  IF first = 0 THEN <<>>
        ELSE SubSeq(s, first, SelectLastInSeq(s, LAMBDA y : y # x))

Convert(s) == [i \in DOMAIN s |-> IF s[i] \in Typed THEN Ascii[s[i]] ELSE s[i]]

-----------------------------------------------------------------------------
(* stripURLParts *)

DropScheme(s) ==
    LET ends == {i \in 1 .. Len(s) - 2 : SubSeq(s, i, i + 2) = <<":", "/", "/">>}
    IN  IF ends = {} THEN s ELSE Behind(s, Min(ends) + 2)

DropTail(s) == IF Contains(s, "/") THEN Before(s, FirstOf(s, "/")) ELSE s

DropUser(s) == Behind(s, LastOf(s, "@"))

DropPort(s) == IF Contains(s, ":") /\ ~Contains(s, "]") THEN Before(s, LastOf(s, ":")) ELSE s

\* Mutant of StripURLParts: an "@" in a path is taken for the end of a user.
StripUserFirst(s) == Trim(DropPort(DropTail(DropUser(DropScheme(s)))), Space)

StripURLParts(s) == Trim(DropPort(DropUser(DropTail(DropScheme(s)))), Space)

-----------------------------------------------------------------------------
(* Parse *)

\* What IDNA and the checks behind it accept: letters, digits and inner
\* hyphens, in labels that are neither empty nor too long.
WellFormed(s) ==
    /\ ToSet(s) \subseteq Pieces \cup {"-", "."}
    /\ \A i \in DOMAIN s : s[i] \in {"-", "."} =>
          /\ i \notin {1, Len(s)}
          /\ s[i + 1] # "."
          /\ s[i] = "." => s[i + 1] # "-"
    /\ \A i \in 1 .. Len(s) - MaxLabel : Contains(SubSeq(s, i, i + MaxLabel), ".")

LastLabel(s) == Behind(s, LastOf(s, "."))

\* The longest of the listed suffixes; a TLD that is not listed is one itself.
SuffixOf(s) ==
    LET listed == {t \in PublicSuffixes : t = s \/ IsSuffix(Dot \o t, s)}
    IN  IF listed = {} THEN LastLabel(s)
        ELSE CHOOSE t \in listed : \A u \in listed : Len(u) <= Len(t)

Invalid == [invalid |-> TRUE]

NameOf(ascii) ==
    LET suffix == SuffixOf(ascii)
    IN  [ascii |-> ascii,
         tld |-> LastLabel(ascii),
         suffix |-> suffix,
         sld |-> LastLabel(SubSeq(ascii, 1, Len(ascii) - Len(suffix) - 1))]

\* Mutant of Parse: a public suffix is taken for a domain.
ParseSuffixToo(input) ==
    LET cleaned == StripURLParts(Trim(input, Space))
        ascii == Convert(IF IsSuffix(Dot, cleaned) THEN Front(cleaned) ELSE cleaned)
    IN  IF ascii # <<>> /\ WellFormed(ascii) /\ Contains(ascii, ".")
        THEN NameOf(ascii)
        ELSE Invalid

Parse(input) ==
    LET cleaned == StripURLParts(Trim(input, Space))
        ascii == Convert(IF IsSuffix(Dot, cleaned) THEN Front(cleaned) ELSE cleaned)
    IN  IF /\ ascii # <<>>
           /\ WellFormed(ascii)
           /\ Contains(ascii, ".")
           /\ SuffixOf(ascii) # ascii
        THEN NameOf(ascii)
        ELSE Invalid

\* Exactly one label under the public suffix.
Registrable(name) == name.ascii = name.sld \o Dot \o name.suffix

-----------------------------------------------------------------------------
(* NormalizeTLD and normalizeLabel: <<>> is an error, or nothing to use.    *)

NormalizeTLD(input) ==
    LET trimmed == Trim(input, Space)
        tld == Convert(IF IsPrefix(Dot, trimmed) THEN Tail(trimmed) ELSE trimmed)
    IN  IF ToSet(tld) \subseteq Pieces \cup {"-", "."} THEN tld ELSE <<>>

NormalizeLabel(input) ==
    LET kept == Kept(input, {i \in DOMAIN input : input[i] \notin {Space, "."}})
    IN  Trim([i \in DOMAIN kept |->
                 IF kept[i] = Underscore THEN "-"
                 ELSE IF kept[i] \in Typed THEN Lower[kept[i]] ELSE kept[i]], "-")
=============================================================================
