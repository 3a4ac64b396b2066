-------------------------------- MODULE Tools --------------------------------
(***************************************************************************)
(* The MCP tools check_domain, check_domains and suggest_domains: what     *)
(* they refuse, what they ask of the engine (Engine.CheckMany, whose       *)
(* goroutines answer in any order), and what they make of its answers.     *)
(***************************************************************************)
EXTENDS Suggest, Vocabulary, FiniteSets

CONSTANTS
    Pastes,                \* what check_domain is called with: a host, and
                           \* what was pasted around it
    Batches,               \* the inputs of check_domains
    Requests,              \* the inputs of suggest_domains
    MaxBatchSize,
    MaxSuggestCandidates,
    DefaultCandidates,     \* of suggest_domains, if it is not told how many
    DefaultLimit           \* of its results

ASSUME ToolsAssumption ==
    {MaxBatchSize, MaxSuggestCandidates, DefaultCandidates, DefaultLimit} \subseteq Nat \ {0}

ASSUME InputsAssumption ==
    /\ Batches \subseteq [domains : Seq(Text), onlyAvailable : BOOLEAN]
    /\ Requests \subseteq [names : Seq(Text), tlds : Seq(Text),
                           prefixes : Seq(Text), suffixes : Seq(Text),
                           hyphenate : BOOLEAN, hacks : BOOLEAN,
                           maxCandidates : Int, limit : Int, includeTaken : BOOLEAN]

SchemeMark == <<":", "/", "/">>
Blank(s) == ToSet(s) \subseteq {Space}
Without(s, marks) == ToSet(s) \cap marks = {}
IsScheme(s) == IsSuffix(SchemeMark, s) /\ Without(Before(s, Len(s) - 2), {":"})

\* The parts of a paste are what their names say: a scheme ends in "://" and a
\* user in "@", a port begins with ":" and a path or query with "/", and none
\* of them is within another, but for what a path or query has.
ASSUME PastesAssumption ==
    \A p \in Pastes :
        /\ {p.scheme, p.user, p.host, p.port, p.tail} \subseteq Text
        /\ Blank(p.scheme) \/ IsScheme(p.scheme)
        /\ p.user = <<>> \/ Last(p.user) = "@"
        /\ Without(p.user, {"/"})
        /\ Without(p.host, {"/", ":", "@", "]"})
        /\ \/ Blank(p.port)
           \/ /\ Len(p.port) > 1 /\ p.port[1] = ":"
              /\ Without(Tail(p.port), {":", "/", "@", "]"})
        /\ p.tail = <<>> \/ Head(p.tail) = "/"

VARIABLES
    tool,        \* which tool has been called, or "none"
    request,     \* with what
    candidates,  \* of suggest_domains: those that are checked
    generated,   \* and how many there were before they were cut
    domains,     \* what the engine is asked
    answers,     \* what it has answered so far, by index
    output       \* what the tool has returned

vars == <<tool, request, candidates, generated, domains, answers, output>>

None == [none |-> TRUE]
Error == [error |-> TRUE]

Init ==
    /\ tool = "none"
    /\ request = None
    /\ candidates = <<>>
    /\ generated = 0
    /\ domains = <<>>
    /\ answers = <<>>
    /\ output = None

\* The text of a paste, around its host.
Spell(p) == p.scheme \o p.user \o p.host \o p.port \o p.tail

\* A tool asks the engine, or refuses its input.
Engage(name, in, asked) ==
    /\ tool = "none"
    /\ tool' = name
    /\ request' = in
    /\ domains' = asked
    /\ answers' = [i \in DOMAIN asked |-> None]
    /\ output' = IF asked = <<>> THEN Error ELSE None

CheckDomain(p) ==
    /\ Engage("check_domain", p, IF Spell(p) = <<>> THEN <<>> ELSE <<Spell(p)>>)
    /\ UNCHANGED <<candidates, generated>>

\* A batch that is empty or too long is refused.
CheckDomains(in) ==
    /\ Engage("check_domains", in,
              IF Len(in.domains) > MaxBatchSize THEN <<>> ELSE in.domains)
    /\ UNCHANGED <<candidates, generated>>

Smaller(m, n) == IF m < n THEN m ELSE n

\* Mutant of Cap: what the caller asks for is not capped.
CapOnlyDefault(in) == IF in.maxCandidates > 0 THEN in.maxCandidates ELSE DefaultCandidates

Cap(in) == Smaller(MaxSuggestCandidates,
                   IF in.maxCandidates > 0 THEN in.maxCandidates ELSE DefaultCandidates)

Limit(in) == IF in.limit > 0 THEN in.limit ELSE DefaultLimit

\* The candidates are cut to what may be checked, in the order they were
\* generated in; the ranking comes after the answers.  Names or TLDs are
\* required, but there may be nothing usable among them.
SuggestDomains(in) ==
    LET refused == in.names = <<>> \/ in.tlds = <<>>
        all == IF refused THEN <<>> ELSE Expand(in)
    IN  /\ tool = "none"
        /\ tool' = "suggest_domains"
        /\ request' = in
        /\ generated' = Len(all)
        /\ candidates' = SubSeq(all, 1, Smaller(generated', Cap(in)))
        /\ domains' = [i \in DOMAIN candidates' |-> candidates'[i].domain]
        /\ answers' = [i \in DOMAIN candidates' |-> None]
        /\ output' = IF refused THEN Error ELSE None

\* Engine.Check of one domain of the batch returns: an unknown at once if it
\* is no domain name, anything otherwise.  It goes to the slot of its index.
Answer(i, availability) ==
    /\ output = None
    /\ i \in DOMAIN domains
    /\ answers[i] = None
    /\ Parse(domains[i]) = Invalid => availability = "unknown"
    /\ answers' = [answers EXCEPT ![i] = [domain |-> domains[i], availability |-> availability]]
    /\ UNCHANGED <<tool, request, candidates, generated, domains, output>>

Tally(availability) ==
    Cardinality({i \in DOMAIN answers : answers[i].availability = availability})

\* Mutant of Batch: the summary counts what is returned.
BatchOfReturned(in) ==
    LET results == Kept(answers, Wanted(answers, in.onlyAvailable))
    IN  [results |-> results,
         total |-> Len(results),
         available |-> Tally("available"),
         unavailable |-> Tally("unavailable"),
         unknown |-> Tally("unknown")]

\* What check_domains returns: the summary counts all answers, whether they
\* are among the results or not.
Batch(in) ==
    [results |-> Kept(answers, Wanted(answers, in.onlyAvailable)),
     total |-> Len(answers),
     available |-> Tally("available"),
     unavailable |-> Tally("unavailable"),
     unknown |-> Tally("unknown")]

Suggestion(in) ==
    [results |-> Rank(answers, candidates, ~in.includeTaken, Limit(in)),
     generated |-> generated,
     checked |-> Len(candidates),
     truncated |-> generated > Cap(in)]

\* CheckMany has waited for every goroutine.
Return ==
    /\ tool # "none"
    /\ output = None
    /\ \A i \in DOMAIN answers : answers[i] # None
    /\ output' = CASE tool = "check_domain" -> answers[1]
                   [] tool = "check_domains" -> Batch(request)
                   [] tool = "suggest_domains" -> Suggestion(request)
    /\ UNCHANGED <<tool, request, candidates, generated, domains, answers>>

\* The next call.
Reset ==
    /\ output # None
    /\ tool' = "none"
    /\ request' = None
    /\ candidates' = <<>>
    /\ generated' = 0
    /\ domains' = <<>>
    /\ answers' = <<>>
    /\ output' = None

Next ==
    \/ \E p \in Pastes : CheckDomain(p)
    \/ \E in \in Batches : CheckDomains(in)
    \/ \E in \in Requests : SuggestDomains(in)
    \/ \E i \in DOMAIN domains, availability \in Availability : Answer(i, availability)
    \/ Return
    \/ Reset

Spec == Init /\ [][Next]_vars

-----------------------------------------------------------------------------
Answered == output \notin {None, Error}

\* The type invariant; the engine is never asked for more than a tool allows.
TypeOK ==
    /\ tool \in {"none", "check_domain", "check_domains", "suggest_domains"}
    /\ request \in {None} \cup Pastes \cup Batches \cup Requests
    /\ generated \in Nat
    /\ DOMAIN answers = DOMAIN domains
    /\ \A i \in DOMAIN answers : answers[i] # None =>
          answers[i].domain = domains[i] /\ answers[i].availability \in Availability
    /\ Len(domains) <= IF tool = "suggest_domains" THEN MaxSuggestCandidates ELSE MaxBatchSize

\* check_domains: the summary counts every domain of the batch once, duplicates
\* and invalid ones included, and agrees with the results, which are in the
\* order of the batch whatever order they were found in.
SummaryAddsUp ==
    Answered /\ tool = "check_domains" =>
        /\ output.total = Len(request.domains)
        /\ output.total = output.available + output.unavailable + output.unknown
        /\ Len(output.results) = IF request.onlyAvailable THEN output.available ELSE output.total
        /\ \E at \in [DOMAIN output.results -> DOMAIN request.domains] :
              /\ \A j, k \in DOMAIN at : j < k => at[j] < at[k]
              /\ \A j \in DOMAIN at : output.results[j].domain = request.domains[at[j]]

\* The labels a request stands for: its names, and its names with an affix.
Labels(req) ==
    LET bases == ToSet(Bases(req.names))
        joints == {<<>>} \cup IF req.hyphenate THEN {<<"-">>} ELSE {}
    IN  bases
        \cup {p \o j \o b : p \in ToSet(Bases(req.prefixes)), j \in joints, b \in bases}
        \cup {b \o j \o s : b \in bases, j \in joints, s \in ToSet(Bases(req.suffixes))}

\* A base in two, where a dot may go.
Splits(base) ==
    {[label |-> SubSeq(base, 1, n), tail |-> SubSeq(base, n + 1, Len(base))] : n \in 1 .. Len(base) - 1}

\* "Splits of the base name whose tail is one of the requested TLDs", in
\* whichever script the tail is typed: what counts is the TLD that it stands for.
HacksOf(req) ==
    {s \in UNION {Splits(b) : b \in ToSet(Bases(req.names))} :
        req.hacks /\ Convert(s.tail) \in ToSet(Tlds(req.tlds))}

\* Those with a tail that is typed as registries know it.
AsciiHacksOf(req) == {s \in HacksOf(req) : Convert(s.tail) = s.tail}

\* Every domain a request stands for by its plain names, its affixes and some
\* hacks: what an expansion must come to, in whatever order.
Denoted(req, hacks) ==
    LET plain == {l \o Dot \o t : l \in Labels(req), t \in ToSet(Tlds(req.tlds))}
        names == {Parse(d) : d \in plain \cup {s.label \o Dot \o s.tail : s \in hacks}}
    IN  {n.ascii : n \in {m \in names : m # Invalid /\ Registrable(m)}}

\* suggest_domains checks every domain the request stands for once, however
\* many names, affixes, hacks and TLDs lead to it, and says so if it had to
\* leave some out.  Which hacks with a tail in another script are among them is
\* left open: the code, against its documentation, finds none of these.
EveryCandidateOnce ==
    tool = "suggest_domains" /\ output # Error =>
        /\ Cardinality(ToSet(domains)) = Len(domains)
        /\ \E hacks \in SUBSET HacksOf(request) :
              /\ AsciiHacksOf(request) \subseteq hacks
              /\ ToSet(domains) \subseteq Denoted(request, hacks)
              /\ generated = Cardinality(Denoted(request, hacks))
        /\ Answered => /\ output.truncated <=> output.checked < output.generated
                       /\ output.checked = Len(domains)

\* "Ranking order: requested TLD priority, plain base name, no hyphen,
\* shorter", as what each candidate is marked with has it.
Ranking(c) == <<c.tldRank, IF c.exactBase THEN 0 ELSE 1, IF c.hyphenated THEN 1 ELSE 0,
                Len(c.domain)>>
RanksBefore(c, d) ==
    \E i \in 1 .. 4 : /\ Ranking(c)[i] < Ranking(d)[i]
                      /\ \A j \in 1 .. i - 1 : Ranking(c)[j] = Ranking(d)[j]

\* The suggestions are the best of what the engine answered, best first: none
\* that is not available unless asked for, none out of order, and nothing left
\* out by the limit that ranks before what was not.
SuggestionsAreTheBest ==
    Answered /\ tool = "suggest_domains" =>
        LET wanted == {i \in DOMAIN answers :
                          answers[i].availability = "available" \/ request.includeTaken}
            n == Len(output.results)
        IN  /\ n = Smaller(Cardinality(wanted), Limit(request))
            /\ \E at \in [1 .. n -> wanted] :
                  /\ \A k \in 1 .. n : output.results[k] = answers[at[k]]
                  /\ \A j, k \in 1 .. n : j < k =>
                        at[j] # at[k] /\ ~RanksBefore(candidates[at[k]], candidates[at[j]])
                  /\ \A k \in 1 .. n, i \in wanted \ {at[j] : j \in 1 .. n} :
                        ~RanksBefore(candidates[i], candidates[at[k]])

\* A name in its canonical form stands for itself: the answers to a paste, to
\* its name and to a suggestion of it are about the same entry of the cache.
NamesAreCanonical ==
    \A i \in DOMAIN domains :
        LET name == Parse(domains[i])
        IN  name # Invalid =>
                /\ Parse(name.ascii) = name
                /\ IsSuffix(name.sld \o Dot \o name.suffix, name.ascii)
                /\ IsSuffix(name.tld, name.suffix)

\* A pasted URL, mail address or host with a port stands for its host, if it
\* begins with its scheme or has no other URL in its path or query.
URLsStandForTheirHost ==
    tool = "check_domain" =>
        (SchemeMark \in SubSeqs(request.scheme) \/ SchemeMark \notin SubSeqs(request.tail) =>
            Parse(Spell(request)) = Parse(request.host))

-----------------------------------------------------------------------------
(* What the documentation says and the code does not do. *)

\* "stripURLParts removes anything around the host part so that pasted URLs and
\* emails still resolve to the domain the user meant."
PastesStandForTheirHost ==
    tool = "check_domain" /\ Parse(request.host) # Invalid =>
        Parse(Spell(request)) = Parse(request.host)
=============================================================================
