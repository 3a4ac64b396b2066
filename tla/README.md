# A TLA+ development for domain-lens-mcp

domain-lens-mcp is a Go server that tells an LLM agent whether domains can be
registered. This directory models the engine, its sources and its tools, checks the models
with TLC, and proves the central invariants with TLAPS. Paths below are relative to the repository; `PROJECT.json` has, for
each definition, the lines it stands for.

## 1. Inventory

| Part | Code | State | Operations | What makes it correct |
| --- | --- | --- | --- | --- |
| Engine | `internal/engine/engine.go`, `cache.go` | result cache, singleflight group, slots | `Check`, `CheckMany`, `PurgeCache`, `Info` | one lookup per name at a time; each caller gets the answer to its own question; no answer older than one already given; fresh entries stay, expired ones go |
| Lookup | `engine.go` `check`, `run` | results of a lookup, slots taken | one task per corroborating provider, one chain of primary providers | no slot is lost; the chain stops at the first conclusive source; lookups end |
| Resolver | `resolver.go` | none | `resolve` | `available` only on the word of a registry or WHOIS server; conflicts are flagged; order of arrival is irrelevant |
| HostLimiter | `internal/ratelimit` | token bucket, failure count and circuit of each host | `Wait`, `ReportSuccess`, `ReportFailure`, `Backoff`, `Sleep` | a circuit opens only for cause, keeps new calls out, and closes again |
| RDAP provider | `internal/provider/rdap/rdap.go` | none of its own | `Supports`, `Check`, `query`, `do` | bases and retries are finite; every attempt waits at the limiter; only an answer settles anything |
| RDAP bootstrap | `rdap/bootstrap.go` | services by TLD, `fetchedAt`, the `refresh` lock | `BaseURLs`, `tryRefresh`, `fetch` | one fetch at a time, none while fresh or in the pause; readers do not wait; no older edition replaces a newer one |
| RDAP parsing | `rdap/parse.go` | none | `parseResponse` | no telling status is missed; data do not depend on what stands around them |
| WHOIS provider | `internal/provider/whois/whois.go` | none of its own | `Supports`, `Check`, `query` | no server, no query; a partial reply frees no domain |
| WHOIS server registry | `whois/servers.go` | server of each TLD, for 24 hours | `Server` | failures leave nothing behind; mistakes do not last |
| WHOIS parsing | `whois/parse.go` | none | `classify`, `parseInfo` | nothing unparsable is `available` |
| DNS probe | `internal/provider/dnsprobe` | none | `Check` | never reports "not registered" |
| Suggest | `suggest.go` | none | `Suggest`, `expand`, `less` | no duplicates, nothing missed, the best within the limits |
| Domain names | `internal/domainname` | none | `Parse`, `NormalizeTLD`, `Registrable` | one canonical form; a paste stands for its host |
| MCP tools | `internal/mcpserver/tools.go` | none | four tools | limits, defaults, summary |
| MCP server | `internal/mcpserver/server.go` | none | two transports | |
| Program | `cmd/domain-lens-mcp` | none | wiring, flags, the purge ticker | |

How they interact. A tool calls `Check`, or `CheckMany` (as does `Suggest`), which
calls it from one goroutine per name. `Check` parses the name and reads the
cache; on a miss it joins or starts a flight on the name in the singleflight
group, whose leader runs `check` under its own context and stores the result.
`Info` runs `check` without either. `check` runs the DNS probe alongside the chain
RDAP, WHOIS. Before a provider is asked, `Supports` consults the RDAP registry or
the WHOIS server registry, either of which may go to the network. `run` takes a
slot shared by all lookups and starts the timeout of the call. The provider
passes the limiter of its host, retries, reports to it, and turns what it
heard into a finding. `resolve` makes one answer of the findings. A ticker purges
the cache.

What is hard. The gaps between critical sections (cache and group, circuit and
bucket, age and refresh lock, `Supports` and `Check`); contexts, which end at any
moment and are the leader's while the answer is everybody's; results in order of
arrival; work done before the slot and the timeout; failures counted by whoever
reports last; replies cut anywhere and understood as far as they go; text that
means one thing in one place and another in the next. `PROJECT.json` lists these
as hazards, each with its line and the properties that watch it.

## 2. Modules

| Module | Models | Extends |
| --- | --- | --- |
| `Vocabulary` | the enumerations of `internal/core` | |
| `Engine` | `Check`, `CheckMany`, `PurgeCache`, cache and singleflight | `Vocabulary` |
| `CheckService` | abstract: what `Check` promises to its callers | `Vocabulary` |
| `Resolver` | `resolve`, and what `Info` makes of the results | `Vocabulary` |
| `Replies` | the contract between engine and providers: what a `Check` can come to | `Resolver` |
| `Lookup` | `check` and `run`: lookups that share the slots | `Replies` |
| `Service` | the composition: calls of `Check` and `Info` with their lookups | `Engine`, `Resolver`; an instance of `Lookup` |
| `HostLimiter` | the limiter's operations | |
| `Upstream` | RDAP `Check` and `query`, WHOIS `Check`, as clients of the limiter | `HostLimiter` |
| `RdapText` | what a 200 of a registry says | |
| `Rdap` | the findings and errors of RDAP `Check` | `Upstream`, `RdapText`; an instance of `Replies` |
| `Bootstrap` | the RDAP registry and its refresh | |
| `WhoisText` | what a broken connection leaves of a reply, and what a reply says | |
| `Whois` | the WHOIS provider and its registry of servers | `WhoisText`; an instance of `Replies` |
| `Names` | `domainname`, and `normalizeLabel` | |
| `Suggest` | expansion and ranking | `Names` |
| `Tools` | the tools that check and suggest | `Suggest`, `Vocabulary` |
| `EngineProofs` | theorems about `Engine`; `Engine` implements `CheckService` | `Engine` |
| `LookupProofs`, `BootstrapProofs`, `WhoisProofs` | theorems | the module they are about |
| `ServiceProofs` | theorems about `Service`, from those about its parts | `Service`, `EngineProofs`; an instance of `LookupProofs` |
| `RdapProofs` | theorems about `Upstream`, then about `Rdap` and `RdapText` | `Rdap` |
| `NamesProofs` | what the operators of `Names` and `Suggest` compute | `Suggest` |
| `ToolsProofs` | theorems about `Tools` | `Tools`, `NamesProofs` |
| `MCEngine`, `MCLookup`, `MCService`, `MCUpstream`, `MCRdap`, `MCBootstrap`, `MCWhois`, `MCTools` | values for TLC | the module they check |

The parts meet in three ways. `Service` runs `Engine` and `Lookup` together: the
flight of a leader and its lookup begin and end in one step, under one
context. `Lookup` lets providers report any reply of `Replies`, while `Rdap` and
`Whois` show that what they report is among these (`KeepsToReplies`, and `TypeOK` of
`Whois`): each side is checked with the other replaced by the contract. And
`Rdap` refines the steps of `Upstream`, of which each of its own is one together
with what is heard and reported.

### Engine

`entries` is the map of `resultCache`, `flights` the calls of the group, and the
other variables say where each caller is: `missed` between `Get` and `group.Do`,
`waiting` in another's flight, `checking` in `e.check`, `checked` before `Put`,
`stored` before `Do` returns, `answered`. Each critical section is one action:
`AskHit`/`AskMiss` is `Get` (with the deletion of an expired entry), `Lead`/`Follow`
the start of `Do`, `Store` is `Put`, `Release` the end of `Do`, with the spelling
and the payloads of each caller put in afterwards. `FinishCheck` is all of
`check`, with any availability. `Purge` reads the clock before it takes the
mutex, hence `PurgeRead` and `PurgeSweep`. `Release` lets all callers aboard
return at once; they return one by one in the code, but each only touches its
own copy of the result, and none is told anything else for being later.

A result keeps its name, its domain, availability, `CheckedAt` and whether it
carries payloads. `aborted` records that it is an unknown made under a cancelled
context. `told` and `floor` are history: the newest finding given to anyone on a
name, now and when a call began. Left out: the `Cached` flag.

`CheckService` knows nothing of caches and flights. A call opens, and some
time later is answered, possibly together with others, with a finding on its
name no older than what anyone had been told when it opened. `Engine` is shown
to implement it with `open` as "not idle and not answered" and everything
internal hidden.

### Resolver, Replies and Lookup

A finding keeps provider, registration, status, evidence (a set: the code sorts
it), source and whether it has parsed data. `Resolve` is `resolve`, `InfoOf` the
selection `Info` makes.

In `Lookup` each lookup has a task `"dns"` and a task `"chain"`. A task is `asking`
(in `Supports`), `discovering` (the WHOIS server registry asks IANA), `waiting`
for a slot, `querying`, or `over`. Any provider may report any finding it can
produce (`RdapReplies`, `WhoisReplies`, `DnsReplies`) or fail; the DNS probe turns
failures into findings.

### Service

`LeaderChecks` is the start of the function given to `group.Do`: the flight, and a
lookup under a context that may be dead already. `LeaderHasChecked` is its
return, with the availability the lookup resolved to instead of any. `GiveUp`
cancels a call and the lookup it may be leading; nobody else's. Readers call `Info`.
`settled` is history: of which name an authority was heard to have no
registration, and when. The purge is left to `Engine`: an entry it deletes is
one that no call returns.

### HostLimiter and Upstream

Each critical section of the limiter is an operator of `HostLimiter`, and
`Upstream` says in which order the providers use them. A client is at the `gate`
(about to read the circuit), in the `bucket` (waiting for a token), `sent`, or in
`backoff`. WHOIS is the case of one base and no retry. Times are relative:
`open[h]` counts down. Failures are counted up to the threshold only, since no
higher count acts differently. A tick is worth a token. A context is
live or done, by cancellation or by its deadline: the code treats both alike.
An RDAP base that is no URL fails before it reaches the limiter and is left out.
`late` is history.

### RdapText and Rdap

A body is a record of what the code reads of the JSON, arrays as sequences, a
status as a sequence of words (`strings.Contains` finds phrases). What the
code's loops find first or last is the entry with the least or the greatest
index of those that qualify. `outcome` is what
the last `Check` of a client returned; `heard`, history, the answer its query got.
`CheckWithoutBases` is the registry refreshed between `Supports` and `Check`. An open
circuit is an error of the RDAP provider (but a finding `rate_limited` of the
WHOIS provider), throttling for good is a finding.

### Bootstrap

`stage` follows a client through `BaseURLs` and `tryRefresh`; a registry is the
number of its edition. `age` is the time since `fetchedAt`, up to the first value
that is stale, so that time needs no bound. IANA's editions only increase: a
condition on the environment. `quiet` and `healthy` are history.

### WhoisText and Whois

A reply is a sequence of lines: which classes of markers a line holds, which
field it is, its value. `Heard` is what `query` may return for it, the reply or any
part of it, the last line of which may be cut anywhere: a marker can be lost but
not made, a value shortened, a date made unreadable. Statuses are kept with the
line they stand on, which is their order. `ServerIn`, `Classify` and
`InfoIn` are the code's three readers. A whole lookup is `Supports`, the wait for a
slot, `Check`, which reads the registry again, the limiter, and the query.
`entries` is the registry, with age instead of time; `cut` (did the reply it stems
from lack something?) and `whole` (what the server had to say) are history.

### Names, Suggest and Tools

A text is a sequence of tokens, punctuation marks and pieces of labels, so that
`://`, a second `@` or a TLD inside a base name can occur where they make a
difference. Lower case (`Lower`), IDNA (`Ascii`) and the public suffix list are
constants. The code's filtering loops are one operator, `Kept`, which has what a
sequence has at some of its indices; its sort is another, `InOrder`, which
enumerates a set along an order, so that a set of indices and an order on them
say what is returned.
`Suggest` has the loops of `expand` as one sequence of tries, added one by one by
a recursive function, and the rank as `InOrder` of the answers that are `Wanted`.
In `Tools` a client calls a tool, the engine
answers the domains in any order (`Answer`, with `unknown` for what is no name), and
the tool returns. Inputs are any texts (`InputsAssumption`); `PastesAssumption`
says what it is for a paste to consist of a scheme, a user, a host, a port and a
tail. `Labels`, `HacksOf` and `Denoted` say, apart from the code and without an
order, which domains a request stands for: its labels under its TLDs, and its
names split before a tail that is one of the TLDs, in whichever script either is
typed. The engine behind it is `Engine`; `get_domain_info` is a reader
of `Service`.

## 3. Runs

Passing runs:

| Run | Question | Instance | Properties |
| --- | --- | --- | --- |
| `EngineService` | does each caller get what `Check` promises, is there one flight per name, does anything go back in time? | 2 callers, 2 spellings, 1 invalid input, payloads or not, a purge, clock 0..1 | `TypeOK`, `SingleLeader`, `MonotoneReads`, `CacheNeverRegresses`, `OnlyExpiredLeave`, `ImplementsService`, `ExpiredLeave` |
| `LookupSafety` | are slots accounted for, does the chain stop, is the verdict right for all findings in all orders? | 2 lookups with RDAP, WHOIS and DNS, 1 slot | `SlotsAccounted`, `ChainStopsWhenConclusive`, `AvailableIsAuthoritative`, `ConflictIffContradiction`, `VerdictIgnoresArrival`, `InfoAgreesWithVerdict` |
| `ServiceCalls` | may whoever is told `available` believe it, and what can hold a call up? | 2 callers, 1 reader, 1 slot, WHOIS alone, unknown not cached | `AvailableIsGrounded`, `OnlyDiscoveryHangs`, `GivingUpEnds` |
| `UpstreamSafety` | whom does an open circuit let through, do bases and retries stay within bounds? | 2 clients, 2 hosts, 1 retry, threshold 2 | `TypeOK`, `OpenAfterFailures`, `OneStragglerEach`, `OpenAdmitsNobody` |
| `RdapChecks` | what does RDAP `Check` report, do circuits close and calls end? | 2 clients, 1 host as one base or as two, 1 retry, 4 bodies | `KeepsToReplies`, `OnlyAnswersSettle`, `AnswersAreWhatIsListed`, `CircuitRecovers`, `CallsEnd` |
| `BootstrapRefresh` | is the refresh exclusive, spaced and monotone, and who waits for it? | 3 callers, lifetime 3, pause 1, 3 editions, a fetch that may never end | `LockIsReturned`, `FetchesAreSpaced`, `EditionsNeverRegress`, `OthersDoNotWait` |
| `WhoisDiscovery` | what can a broken connection make of servers and domains? | 2 lookups, a TLD with a server and one without, lifetime 2, 4 replies cut anywhere | `TypeOK`, `OnlyCutRepliesMislead`, `TruncationNeverFrees`, `PartialInfoAgrees`, `MistakesExpire` |
| `ToolCalls` | do tools answer what they were asked, all of it and no more? | pastes around 8 hosts, batches of 0 to 4 with a limit of 3, suggestions over every combination of options | `TypeOK`, `SummaryAddsUp`, `EveryCandidateOnce`, `SuggestionsAreTheBest`, `NamesAreCanonical`, `URLsStandForTheirHost` |

Runs that refute a sentence of the repository (the findings of
`PROJECT.json` quote the sentence):

| Run | The trace |
| --- | --- |
| `EngineAborted` | A leads, B follows, A cancels, the lookup ends as `unknown`: B is told so |
| `LookupHang` | IANA accepts the connection and says nothing; no timeout has started |
| `WhoisForgotten` | IANA's record breaks off before its `whois:` line, and "no server" is remembered |
| `ToolPastes` | `data.com/get://hq.io` is taken for `hq.io` |

Other behaviour that a reader of the comments may not expect, all of it in the
models:

- A caller that misses the cache and reaches `group.Do` after the flight it
  might have joined has ended looks the name up again (`AskMiss`, `Lead`).
- Discovery queries IANA outside the slots and without the limiter
  (`Discover`), although `engine.go:22` has `MaxConcurrency` bound all queries.
- A client that waits for a token sends its request although the circuit has
  opened meanwhile, once (`Pass`, `Send`, `OneStragglerEach`).
- A caller's cancellation counts as a failure of the host (`Failed`).
- The refresh that `bootstrap.go:30-31` calls a background one keeps the caller
  that performs it waiting, though no other (`OthersDoNotWait`).
- A registration that WHOIS reports has confidence `high` (`ResolveWhois`), where
  `resolver.go:25` has WHOIS decide "at lower confidence".
- `Info` names the first result to arrive as its source (`FirstProvider`); the
  conflict between RDAP and a WHOIS registration (`resolver.go:64`) is out of
  reach of the chain, which stops at RDAP.
- Of several EPP statuses with a meaning, the one the registry lists first
  decides (`StatusIn`); "most-specific first" (`rdap/parse.go:47`) orders the
  table, which only matters within one status.
- A name whose tail is a requested TLD in another script is not split there
  (`Hacks`): `tldHacks` (`suggest.go:190-192`) compares the name as it was typed, in
  lower case, with the TLD in punycode, so `dataIO` under `IO`, if `IO` stands for
  letters of another script, has no hack, although `suggest.go:25`, `suggest.go:188`
  and `tools.go:61` promise one for every tail that is a requested TLD. `HacksOf`
  has these hacks, as promised; `EveryCandidateOnce` demands all those with a tail
  in ASCII and leaves the others open, as the code has none of them. TLC refutes
  the property on the requests of `ToolCalls` if it demands them all.
- The plain name ranks before all affixed ones, but a domain keeps the rank of
  the first try that leads to it, which may be an affixed one (`Add`); and
  hyphens count before length (`Less`), contrary to the order in which
  `suggest.go:103` names them.

Why the bounds are enough. The engine keeps no relation between names other
than slots, so one name shows all races on it; two callers and a purge make
every pair of critical sections meet, and what holds of more callers is proved.
The clock (`MaxTime`) has room to store, to expire and to store again. `ServiceCalls`
needs no clock: entries are hit while fresh, and unknown answers, which are not
stored, make callers look up again; one slot for three lookups is the tightest
competition, and WHOIS is the one source whose `Supports` can hang. A lookup has
at most three sources in the program, all present in `LookupSafety`. Thresholds,
bursts and retries of 1 or 2 reach every boundary; `MaxEdition` of 2 lets one
edition be in use, one in flight and one be published. A registry of servers has
one entry per TLD and TLDs only share the code, so two, that differ in having a
server, show every mix-up; replies have a field twice, a marker of each class,
and their combinations that `classify` tells apart. Pastes, batches and requests
are built from parts, each with the values the code treats differently, in all
combinations. Symmetry is used among lookups and clients where no liveness is
checked. No run switches deadlock checking off: in each model some call can
always begin or end.

Fairness, and what in the code justifies it:

- `Engine`: runnable goroutines run (`CallsGoOn`), the ticker of
  `purgeCachePeriodically` fires and its sweep gets the mutex. Nothing is assumed
  of a lookup.
- `Lookup`: `RequestTimeout` ends a query, and a channel serves blocked senders
  first come first served, hence strong fairness for `Acquire`. Discovery has no
  timeout; it is fair only once its context is cancelled, since `query` moves
  the connection's deadline then.
- `Service`: both of these, and that a call whose lookup is resolved goes on.
- `Upstream`, `Rdap`: a request is ended by the timeout of the call; `rate.Limiter`
  serves reservations in turn, hence strong fairness for `Send`. A WHOIS exchange
  ends with the deadline of its connection.
- `Bootstrap`: steps that wait for nobody. Not the fetch.
- `Whois`: time passes. Nothing else is assumed.

Each property has a mutant, an operator above the definition it replaces, that
changes the code's behaviour as a plausible bug would and violates the property.

## 4. Proofs

For every value of the constants that satisfies the modules' assumptions:

| Module | Theorems |
| --- | --- |
| `EngineProofs` | `Inductive` is an invariant, and from it `TypeOK`, `SingleLeader`, `NobodyStranded`, `AnswerEchoesCall`, `CacheNeverRegresses`, `OnlyExpiredLeave` and, if all lifetimes are positive, `MonotoneReads` and `ImplementsService` |
| `LookupProofs` | `Inductive`, and from it `TypeOK`, `SlotsAccounted`, `ChainStopsWhenConclusive`, `AvailableIsAuthoritative`, `ConflictIffContradiction`, `InfoAgreesWithVerdict`, `VerdictIgnoresArrival` |
| `ServiceProofs` | the composition is a behaviour of `Engine` and one of `Lookup`; it implements `CheckService`; `AvailableIsGrounded` |
| `RdapProofs` | of `Upstream`, `Inductive`, and from it `TypeOK`, `OpenAfterFailures`, `OneStragglerEach`, `OpenAdmitsNobody`; `Rdap` is a behaviour of `Upstream`; `ReportsWhatIsHeard`, and from it `OnlyAnswersSettle`, `KeepsToReplies`, `AnswersAreWhatIsListed` |
| `BootstrapProofs` | `Inductive`, and from it `LockIsReturned`, `FetchesAreSpaced`, `EditionsNeverRegress` |
| `WhoisProofs` | `TypeOK`, `OnlyCutRepliesMislead`, `TruncationNeverFrees`, `PartialInfoAgrees`, for any lookups, TLDs, records and replies, cut anywhere |
| `ToolsProofs`, on the lemmas of `NamesProofs` | `ToolsInv`, and from it `TypeOK`, `SummaryAddsUp`, `EveryCandidateOnce`, `SuggestionsAreTheBest`, `NamesAreCanonical`, `URLsStandForTheirHost`, for any pastes, batches, requests, limits, alphabet and public suffix list |

Why the invariants are what they are, and how the arguments go.

*Engine.* That the cache never regresses does not follow from the cache alone:
whoever is about to store must be known to hold nothing older than the entry in
place. That holds because only the leader of the name can store (`InFlight` ties
stages, group and leaders together) and because the time of its finding is not
before any stored one (`Stamped`). That reads are monotone needs, beyond this,
that all that can yet be given to a caller, the entry and the outcome of the
flight, is as new as what has been told (`Told`); with a lifetime of zero `Put`
leaves an older entry in place and this fails, hence `PositiveTTL`. `Labelled`
says that entries and outcomes are about the name they are filed under.

*Engine and `CheckService`.* Under the mapping, `AskMiss`, `Lead`, `Follow`,
`FinishCheck`, `Store`, `Cancel` and the purge hide: they leave who is open, what
is answered and the clock as they are. A hit and a refusal answer one call,
`Release` answers all aboard at once. What has to be shown is that each answer
is on the name of its call (`Labelled`), not from the future (`Stamped`), and not
older than the call's floor, which is `Told`; hence the lifetimes again.

*Lookup.* To `SlotsAccounted` and `ChainStopsWhenConclusive`, which are part of
`Inductive` themselves, it adds: `Phased`, what a lookup that is idle or resolved
can look like, and that its verdict is `Resolve` of its results; `Recorded`, that
each result is one its provider can have, and stems from a task or from a place
of the chain that has been passed; and `OnePerProvider`. The last needs that no
provider stands twice in the chain, as `buildEngine` sees to; with RDAP twice,
two results of RDAP could contradict each other and none would be flagged. From
there on the argument is about `resolve`: among results of which each provider
has at most one, and the chain at most one that is conclusive (`Consistency`), a
verdict depends on which statements are among the results and on nothing else
(`Verdicts`, `SameVerdict`); so their order is irrelevant, `available` takes an
authority that says so and none that objects, and there is a conflict exactly
if both statements are there.

*Service.* Each step of the composition is a step of `Engine` or hides from it,
and a step of `Lookup` or hides from it, given that what a lookup resolves to is
an availability `check` may return (`TakenType`). So both inductive invariants
hold, and `CheckService` is implemented by transitivity. `AvailableIsGrounded` is not
inductive: `Grounded` has it not only of answers but of entries and of the
outcomes of leaders. It takes `AvailableIsAuthoritative` where a lookup ends;
afterwards a finding only moves, with its name and its time.

*Upstream.* `late[h][c] <= 1` is not inductive. A client that has sent a late
request must not be in the bucket of that host again while the circuit is open
(`StragglersSpent`): to get there it has to pass the gate, which is shut.

*Rdap.* `ReportsWhatIsHeard` ties what `Check` reports to what its own query has
heard: nothing while the call is under way, the finding on it if there was an
answer, one of the three results that settle nothing if there was none. That the
data ignore what else is listed is a fact on sequences: leaving out entries of
which none qualifies leaves the first and the last of those that do
(lemmas on order-preserving selections in `RdapProofs`).

*Bootstrap.* `AgeTellsQuiet` ties `fetchedAt`, which a failure dates back so as to
encode the pause, to the time since the last fetch; with it the recheck under
the lock is as good as a look at the real history. `EditionsInOrder` says that
what a client has received is not older than what is in use, which needs the
lock to be exclusive.

*Whois.* `PartsDoNotFree` is about the text: what is said in a part is said in the
whole, a "no match" decides before all else, so a part that has one shows that
the whole has one. `PartsAgree` likewise: lines up to the cut are those of the
whole, so the first of a field is the same in both or was cut itself; the IANA
id, of which the last counts, is the one field a cut can change into that of
another line, which is why `Agrees` leaves it out. `OnlyCutRepliesMislead` holds by
induction together with the types, since the history of an entry travels with
the server a lookup goes by; and that findings fit the contract needs no more
than that a finding is `Classify` of something.

*Tools.* `ToolsInv` ties together what a tool was called with, what it asked of
the engine, what has been answered and what it returned: `Calls` has the domains
as a function of the request, `Answers` has each answer about the domain of its
slot, `Returned` has the output as a function of request and answers. None of the
six properties is inductive, as they look at one end of a call and not at what
leads there. TLC finds no state against `ToolsInv` on the requests of `ToolCalls` that
hyphenate and set both limits. With it each
property is a fact about the operators that `NamesProofs` provides, for any values
that the properties are about:

- `SummaryAddsUp`, by counting: the answers are parted by availability, and `Kept`
  of a set of indices is a sequence of its cardinality in increasing order
  (`WhatIsKept`).
- `EveryCandidateOnce`: the texts tried for a request are, as a set, the plain
  and hack texts of `Denoted` (`TriesTexts`, from `VariantsTexts` and `HacksTexts`), and
  what has been added after n tries are the registrable names among the first n,
  each once (`Expanded`, by induction on n over the recursive function). A hack
  needs an argument of its own, as the code looks for a TLD at the end of the base
  and leaves out bases with a hyphen before it, while `HacksOf` takes any split whose
  tail stands for a TLD and `Denoted` any text whose name can be registered; both
  come to the same if the tail is typed in ASCII, which is its own conversion
  (`HacksDenoted`). The property demands these (`AsciiHacksOf`) and leaves open which
  hacks with a tail in another script are among the candidates (section 3).
- `SuggestionsAreTheBest`: `Less` is a strict total order on candidates of distinct
  domains (`LessOrders`), which takes that the alphabet has every token and that
  texts of one length that differ do so in a first place (`LexOrders`); along such
  an order `InOrder` is an enumeration (`Enumeration`), and its first n are the n
  best (`RankTakesBest`).
- `NamesAreCanonical`: what `Parse` accepts has none of the marks that `stripURLParts`
  looks for, no blank and no dot at an end, and is its own conversion, so that `Parse` of
  it goes through all steps unchanged (`NameIsCanonical`); the suffix, listed or not,
  begins after a dot (`SuffixFollows`), and the TLD after its last one.
- `URLsStandForTheirHost`: each cut is followed as a part of the text from one
  place to another (`SchemeDropped`, `TailDropped`, `UserDropped`, `PortDropped`), so
  that after the cuts, in the order `StripURLParts` has them, what remains is the
  host but for blanks around it (`HostLeft`). The first `://` is that of the scheme if
  there is one, and there is none otherwise unless the tail has one, which is
  the condition of the property and the finding of `ToolPastes`.

The assumptions are `EngineAssumption`, `NoneAssumption`, `LookupAssumption`,
`ServiceAssumption`, `LimiterAssumption`, `UpstreamAssumption`, `BodiesAssumption`,
`BootstrapAssumption`, `WhoisAssumption`, `NamesAssumption`, `AlphabetAssumption`,
`ToolsAssumption`, `InputsAssumption`, `PastesAssumption`: types of constants, finitely many calls at
a time, at least one slot and one primary provider and none of them twice,
positive thresholds, lifetimes and durations (`NewHostLimiter` enforces them), a
`None` that is no caller and no entry; that a conversion to ASCII leaves ASCII
as it is, that tokens are no punctuation, and that the parts of a paste are what
their names say. TLC evaluates them on the instances.

Only model-checked:

- liveness and fairness, which are beyond the prover, as is ENABLED: `ExpiredLeave`,
  `OnlyDiscoveryHangs`, `GivingUpEnds`, `CircuitRecovers`, `CallsEnd`,
  `OthersDoNotWait`, `MistakesExpire`;
- `ServerIn` of `WhoisText` for its own sake. What depends on it is proved of any
  function in its place.

## 5. Not modelled

- The MCP server and its transports, HTTP, flags, the environment, the health
  probe, logging: I/O with no state of the program in it.
- The value of `Backoff`. It bounds the length of a sleep, which no property is
  about. Its doubling leaves 64 bits after 34 attempts, which takes a
  `RDAP_RETRIES` beyond that and a `REQUEST_TIMEOUT` of minutes.
- `RDAP_RETRIES` below 0: `query` then returns an empty result without an error.
  `validate` accepts it and no document says what it should do.
- Decoding of JSON and dates, IDNA, the public suffix list: tables and codecs of
  other packages, constants here. The limit of 253 bytes for a name; nameservers,
  DNSSEC and the events of registration data, which are passed on as they are.

## 6. Plan

Done, in the order of importance: `Engine` with `CheckService` and proofs;
`Resolver` and `Lookup`; `HostLimiter` and `Upstream` with proofs; `Bootstrap` with
proofs; `Whois` with proofs; `Rdap`; `Service`; `Names`, `Suggest` and `Tools`;
the proofs of `Lookup`, `Service` and `Rdap`, of the refinement of `CheckService`,
of the data of cut WHOIS replies, and of `Names`, `Suggest` and `Tools`. Every safety
property of a passing run is a theorem.

To come, with the code: whatever the hazards without a property become, such as
a limit on `RDAP_RETRIES` or on discovery, once a document says what the program
should do there.
