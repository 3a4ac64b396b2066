------------------------------- MODULE Engine -------------------------------
(***************************************************************************)
(* Engine.Check and Engine.PurgeCache: callers that share one result cache *)
(* and one singleflight group.  What a lookup does with its providers is   *)
(* the subject of Lookup; here it is a step that ends with some finding.   *)
(*                                                                         *)
(* Each of the following is a critical section in the code, and one action *)
(* here: Get and Put under the mutex of the cache, joining and ending a    *)
(* flight under the mutex of the group.  What happens between them         *)
(* interleaves.  Purge reads the clock before it takes the mutex, hence    *)
(* its two actions.                                                        *)
(***************************************************************************)
EXTENDS Integers, Vocabulary

CONSTANTS
    Callers,    \* the goroutines that call Check
    Inputs,     \* what callers type
    Names,      \* ASCII names, the keys of the cache and of the group
    NameOf,     \* domainname.Parse: the name an input stands for, or None
    Wishes,     \* the values of include_raw that callers use
    TTL,        \* the lifetime of an answer by availability
    MaxTime,    \* bound on the clock
    None        \* no entry, no flight, no result, no name

ASSUME EngineAssumption ==
    /\ None \notin Callers
    /\ None \notin Names
    /\ NameOf \in [Inputs -> Names \union {None}]
    /\ Wishes \subseteq BOOLEAN
    /\ TTL \in [Availability -> Int]
    /\ MaxTime \in Nat

Time == 0 .. MaxTime

VARIABLES
    now,        \* the clock
    entries,    \* the cache: for each name an entry, or None
    flights,    \* the group: for each name the caller that leads, or None
    stage,      \* where each caller is
    input,      \* what it asked for
    includeRaw, \* whether it asked for the payloads of the providers
    cancelled,  \* whether the context of its call has been cancelled
    leader,     \* for a caller that joined a flight, the caller that leads it
    outcome,    \* the result of the lookup a caller leads, once it has one
    answer,     \* what its last call returned, or None
    purgeAt,    \* the clock as read by a purge that has yet to sweep, or None
    told,       \* history: the newest finding any caller was given on a name
    floor       \* history: told as a caller's last call found it

cache == <<entries, purgeAt>>
calls == <<stage, input, includeRaw, cancelled>>
vars == <<now, entries, flights, stage, input, includeRaw, cancelled, leader,
          outcome, answer, purgeAt, told, floor>>

Stages == {"idle", "missed", "waiting", "checking", "checked", "stored",
           "answered"}

\* A CheckResult, reduced to what callers are told apart by.  `aborted`
\* records that it is unknown and that the context its lookup ran under was
\* cancelled before it was made.
Results == [name : Names \union {None}, domain : Inputs,
            availability : Availability, checkedAt : Time,
            aborted : BOOLEAN, raw : BOOLEAN]

Entries == [result : Results, expiresAt : Int]

ASSUME NoneAssumption == None \notin Entries

Name(c) == NameOf[input[c]]
Free(c) == stage[c] \in {"idle", "answered"}
Leads(c) == stage[c] \in {"checking", "checked", "stored"}
Lifetime(availability) == TTL[availability]
Later(s, t) == IF s < t THEN t ELSE s

\* The entry has lived its lifetime at time t.
Expired(entry, t) == ~(t < entry.expiresAt)
Fresh(n) == entries[n] # None /\ ~Expired(entries[n], now)

-----------------------------------------------------------------------------
Init ==
    /\ now = 0
    /\ entries = [n \in Names |-> None]
    /\ flights = [n \in Names |-> None]
    /\ stage = [c \in Callers |-> "idle"]
    /\ input \in [Callers -> Inputs]
    /\ includeRaw = [c \in Callers |-> FALSE]
    /\ cancelled = [c \in Callers |-> FALSE]
    /\ leader = [c \in Callers |-> None]
    /\ outcome = [c \in Callers |-> None]
    /\ answer = [c \in Callers |-> None]
    /\ purgeAt = None
    /\ told = [n \in Names |-> 0]
    /\ floor = [c \in Callers |-> 0]

\* stripRaw: payloads are left to the caller that asked for them.
StripRaw(result, raw) == [result EXCEPT !.raw = result.raw /\ raw]

\* Mutant of Addressed: the domain stays as the one who looked it up spelt it.
AddressedToLeader(result, i, raw) == StripRaw(result, raw)

\* What caller c returns when it asked for i: its own spelling of the name,
\* whoever looked it up.
Addressed(result, i, raw) == StripRaw([result EXCEPT !.domain = i], raw)

\* A call begins: c asks for i with a context of its own.
Call(c, i, raw) ==
    /\ Free(c)
    /\ input' = [input EXCEPT ![c] = i]
    /\ includeRaw' = [includeRaw EXCEPT ![c] = raw]
    /\ cancelled' = [cancelled EXCEPT ![c] = FALSE]

\* The input is no domain name: an unknown is returned without a lookup.
AskInvalid(c, i, raw) ==
    /\ Call(c, i, raw)
    /\ NameOf[i] = None
    /\ stage' = [stage EXCEPT ![c] = "answered"]
    /\ answer' = [answer EXCEPT ![c] =
          [name |-> None, domain |-> i, availability |-> "unknown",
           checkedAt |-> now, aborted |-> FALSE, raw |-> FALSE]]
    /\ floor' = [floor EXCEPT ![c] = 0]
    /\ UNCHANGED <<now, cache, flights, leader, outcome, told>>

\* Get finds a fresh entry.
AskHit(c, i, raw) ==
    LET n == NameOf[i]
        found == entries[n].result
    IN  /\ Call(c, i, raw)
        /\ n # None
        /\ Fresh(n)
        /\ stage' = [stage EXCEPT ![c] = "answered"]
        /\ answer' = [answer EXCEPT ![c] = Addressed(found, i, raw)]
        /\ floor' = [floor EXCEPT ![c] = told[n]]
        /\ told' = [told EXCEPT ![n] = Later(@, found.checkedAt)]
        /\ UNCHANGED <<now, cache, flights, leader, outcome>>

\* Get finds no fresh entry, and deletes the one that has expired.
AskMiss(c, i, raw) ==
    LET n == NameOf[i]
    IN  /\ Call(c, i, raw)
        /\ n # None
        /\ ~Fresh(n)
        /\ entries' = [entries EXCEPT ![n] = None]
        /\ stage' = [stage EXCEPT ![c] = "missed"]
        /\ answer' = [answer EXCEPT ![c] = None]
        /\ floor' = [floor EXCEPT ![c] = told[n]]
        /\ UNCHANGED <<now, purgeAt, flights, leader, outcome, told>>

\* Mutant of Lead: without the singleflight group.
LeadUnguarded(c) ==
    /\ stage[c] = "missed"
    /\ flights' = [flights EXCEPT ![Name(c)] = c]
    /\ stage' = [stage EXCEPT ![c] = "checking"]
    /\ UNCHANGED <<now, cache, input, includeRaw, cancelled, leader, outcome,
                   answer, told, floor>>

\* group.Do when no flight on the name is in the group: c flies.  The cache
\* is not read again.
Lead(c) ==
    /\ stage[c] = "missed"
    /\ flights[Name(c)] = None
    /\ flights' = [flights EXCEPT ![Name(c)] = c]
    /\ stage' = [stage EXCEPT ![c] = "checking"]
    /\ UNCHANGED <<now, cache, input, includeRaw, cancelled, leader, outcome,
                   answer, told, floor>>

\* group.Do when a flight on the name is in the group: c waits for it, and
\* for nothing else, its own context included.
Follow(c) ==
    /\ stage[c] = "missed"
    /\ flights[Name(c)] # None
    /\ leader' = [leader EXCEPT ![c] = flights[Name(c)]]
    /\ stage' = [stage EXCEPT ![c] = "waiting"]
    /\ UNCHANGED <<now, cache, flights, input, includeRaw, cancelled, outcome,
                   answer, told, floor>>

\* Mutant of FinishCheck: CheckedAt is not set.
FinishUnstamped(c, availability) ==
    /\ stage[c] = "checking"
    /\ stage' = [stage EXCEPT ![c] = "checked"]
    /\ outcome' = [outcome EXCEPT ![c] =
          [name |-> Name(c), domain |-> input[c],
           availability |-> availability, checkedAt |-> None,
           aborted |-> cancelled[c] /\ availability = "unknown",
           raw |-> TRUE]]
    /\ UNCHANGED <<now, cache, flights, input, includeRaw, cancelled, leader,
                   answer, told, floor>>

\* e.check returns under the context of the leader.  Whatever the sources
\* said, a cancelled context can turn it into an unknown.
FinishCheck(c, availability) ==
    /\ stage[c] = "checking"
    /\ stage' = [stage EXCEPT ![c] = "checked"]
    /\ outcome' = [outcome EXCEPT ![c] =
          [name |-> Name(c), domain |-> input[c],
           availability |-> availability, checkedAt |-> now,
           aborted |-> cancelled[c] /\ availability = "unknown",
           raw |-> TRUE]]
    /\ UNCHANGED <<now, cache, flights, input, includeRaw, cancelled, leader,
                   answer, told, floor>>

\* Mutant of Store: an entry that is there already stays.
StoreIfAbsent(c) ==
    LET lifetime == Lifetime(outcome[c].availability)
    IN  /\ stage[c] = "checked"
        /\ stage' = [stage EXCEPT ![c] = "stored"]
        /\ entries' =
              IF lifetime > 0 /\ entries[Name(c)] = None
              THEN [entries EXCEPT ![Name(c)] =
                       [result |-> outcome[c], expiresAt |-> now + lifetime]]
              ELSE entries
        /\ UNCHANGED <<now, purgeAt, flights, input, includeRaw, cancelled,
                       leader, outcome, answer, told, floor>>

\* Put, which skips an outcome whose lifetime is not positive.
Store(c) ==
    LET lifetime == Lifetime(outcome[c].availability)
    IN  /\ stage[c] = "checked"
        /\ stage' = [stage EXCEPT ![c] = "stored"]
        /\ entries' =
              IF lifetime > 0
              THEN [entries EXCEPT ![Name(c)] =
                       [result |-> outcome[c], expiresAt |-> now + lifetime]]
              ELSE entries
        /\ UNCHANGED <<now, purgeAt, flights, input, includeRaw, cancelled,
                       leader, outcome, answer, told, floor>>

\* Mutant of Aboard: only the leader is told.
AboardAlone(c) == {c}

\* The callers that return when the flight led by c ends.
Aboard(c) == {c} \union {f \in Callers : stage[f] = "waiting" /\ leader[f] = c}

\* The flight leaves the group and everyone aboard has its result.
Release(c) ==
    LET n == Name(c)
    IN  /\ stage[c] = "stored"
        /\ flights' = [flights EXCEPT ![n] = None]
        /\ stage' = [d \in Callers |->
              IF d \in Aboard(c) THEN "answered" ELSE stage[d]]
        /\ answer' = [d \in Callers |->
              IF d \in Aboard(c)
              THEN Addressed(outcome[c], input[d], includeRaw[d])
              ELSE answer[d]]
        /\ leader' = [d \in Callers |->
              IF d \in Aboard(c) THEN None ELSE leader[d]]
        /\ outcome' = [outcome EXCEPT ![c] = None]
        /\ told' = [told EXCEPT ![n] = Later(@, outcome[c].checkedAt)]
        /\ UNCHANGED <<now, cache, input, includeRaw, cancelled, floor>>

\* The client of c gives up.  Only the lookup c may be leading looks at it.
Cancel(c) ==
    /\ ~Free(c)
    /\ ~cancelled[c]
    /\ cancelled' = [cancelled EXCEPT ![c] = TRUE]
    /\ UNCHANGED <<now, cache, flights, stage, input, includeRaw, leader,
                   outcome, answer, told, floor>>

\* Purge reads the clock ...
PurgeRead ==
    /\ purgeAt = None
    /\ purgeAt' = now
    /\ UNCHANGED <<now, entries, flights, calls, leader, outcome, answer,
                   told, floor>>

\* Mutant of PurgeSweep: the comparison is the wrong way round.
SweepFresh ==
    /\ purgeAt # None
    /\ entries' = [n \in Names |->
          IF entries[n] # None /\ ~Expired(entries[n], purgeAt)
          THEN None ELSE entries[n]]
    /\ purgeAt' = None
    /\ UNCHANGED <<now, flights, calls, leader, outcome, answer, told, floor>>

\* ... and then, under the mutex, deletes what had expired by then.
PurgeSweep ==
    /\ purgeAt # None
    /\ entries' = [n \in Names |->
          IF entries[n] # None /\ Expired(entries[n], purgeAt)
          THEN None ELSE entries[n]]
    /\ purgeAt' = None
    /\ UNCHANGED <<now, flights, calls, leader, outcome, answer, told, floor>>

Tick ==
    /\ now < MaxTime
    /\ now' = now + 1
    /\ UNCHANGED <<cache, flights, calls, leader, outcome, answer, told, floor>>

Ask(c) == \E i \in Inputs, raw \in Wishes :
              \/ AskInvalid(c, i, raw)
              \/ AskHit(c, i, raw)
              \/ AskMiss(c, i, raw)

Next ==
    \/ \E c \in Callers :
          \/ Ask(c)
          \/ Lead(c)
          \/ Follow(c)
          \/ \E availability \in Availability : FinishCheck(c, availability)
          \/ Store(c)
          \/ Release(c)
          \/ Cancel(c)
    \/ PurgeRead
    \/ PurgeSweep
    \/ Tick

Spec == Init /\ [][Next]_vars

\* A runnable goroutine runs.  Nothing is said of a lookup: whether it ends is
\* up to the providers.
CallsGoOn ==
    \A c \in Callers : WF_vars(Lead(c) \/ Follow(c) \/ Store(c) \/ Release(c))

\* The ticker of the purge fires again and again, and its sweep gets the mutex.
Fairness ==
    /\ CallsGoOn
    /\ WF_vars(PurgeRead)
    /\ WF_vars(PurgeSweep)
    /\ WF_vars(Tick)

FairSpec == Spec /\ Fairness

-----------------------------------------------------------------------------
TypeOK ==
    /\ now \in Time
    /\ entries \in [Names -> Entries \union {None}]
    /\ flights \in [Names -> Callers \union {None}]
    /\ stage \in [Callers -> Stages]
    /\ input \in [Callers -> Inputs]
    /\ includeRaw \in [Callers -> BOOLEAN]
    /\ cancelled \in [Callers -> BOOLEAN]
    /\ leader \in [Callers -> Callers \union {None}]
    /\ outcome \in [Callers -> Results \union {None}]
    /\ answer \in [Callers -> Results \union {None}]
    /\ purgeAt \in Time \union {None}
    /\ told \in [Names -> Time]
    /\ floor \in [Callers -> Time]

\* Never two lookups of one name at once: whoever is between group.Do's call
\* of the function and its return is the one the group knows of.
SingleLeader ==
    /\ \A c \in Callers : Leads(c) => flights[Name(c)] = c
    /\ \A c, d \in Callers : Leads(c) /\ Leads(d) /\ Name(c) = Name(d) => c = d

\* Nobody waits for a flight that is over: a caller blocked in group.Do waits
\* for a caller that leads, on the name it asked for.
NobodyStranded ==
    \A f \in Callers :
        stage[f] = "waiting" =>
            /\ leader[f] \in Callers
            /\ Leads(leader[f])
            /\ Name(leader[f]) = Name(f)

\* Every lifetime is positive, as the defaults of main.go have it.
PositiveTTL == \A a \in Availability : TTL[a] > 0

\* No call goes back in time: once some caller was told a finding on a name,
\* a call on it that begins later never returns an older one, whether it is
\* served by the cache, by its own lookup or by another's.
MonotoneReads ==
    \A c \in Callers :
        stage[c] = "answered" /\ Name(c) # None =>
            answer[c].checkedAt >= floor[c]

\* However many callers share an entry or a flight, each gets a result on the
\* name it asked for, spelt as it spelt it, with the payloads if and only if
\* it asked for them.
AnswerEchoesCall ==
    \A c \in Callers :
        stage[c] = "answered" =>
            /\ answer[c].domain = input[c]
            /\ answer[c].name = Name(c)
            /\ Name(c) # None => (answer[c].raw <=> includeRaw[c])

\* An entry of the cache is only ever replaced by a newer finding.
CacheNeverRegresses ==
    [][\A n \in Names :
          entries[n] # None /\ entries'[n] # None =>
              entries'[n].result.checkedAt >= entries[n].result.checkedAt]_vars

\* An entry leaves the cache only once its lifetime is over: neither Get nor
\* a purge that read the clock early drops a fresh one, not even one that
\* was refreshed between the two steps of the purge.
OnlyExpiredLeave ==
    [][\A n \in Names : Fresh(n) => entries'[n] # None]_vars

\* "Purge drops expired entries so a long-running server does not grow
\* forever": an expired entry does not stay, asked for or not.
ExpiredLeave ==
    \A n \in Names :
        (entries[n] # None /\ ~Fresh(n)) ~> (entries[n] = None \/ Fresh(n))

-----------------------------------------------------------------------------
(* What callers see of all this. *)

Service == INSTANCE CheckService WITH open <- [c \in Callers |-> ~Free(c)]

\* With positive lifetimes, cache, flights, purges and cancelled calls are
\* invisible to the callers: Check answers as CheckService promises.
ImplementsService == Service!Spec

-----------------------------------------------------------------------------
(* The inductive invariant, from which EngineProofs derives the safety      *)
(* properties above.                                                        *)

\* The group, and the stages and leaders of the callers, agree.
InFlight ==
    /\ \A c \in Callers : ~Free(c) => Name(c) \in Names
    /\ \A c \in Callers : Leads(c) => flights[Name(c)] = c
    /\ \A n \in Names : flights[n] # None =>
          Leads(flights[n]) /\ Name(flights[n]) = n
    /\ \A f \in Callers : stage[f] = "waiting" =>
          flights[Name(f)] # None /\ leader[f] = flights[Name(f)]

\* What the cache holds, a lookup found and a call returned is about the name
\* it is filed under; the cache and the flights keep the payloads.
Labelled ==
    /\ \A n \in Names : entries[n] # None =>
          entries[n].result.name = n /\ entries[n].result.raw
    /\ \A c \in Callers : stage[c] \in {"checked", "stored"} =>
          outcome[c] \in Results /\ outcome[c].name = Name(c) /\ outcome[c].raw
    /\ \A c \in Callers : stage[c] = "answered" => answer[c] \in Results
    /\ AnswerEchoesCall

\* Findings are stamped, and a purge goes by, a time that has been, and a lookup that has yet
\* to store its outcome has one no older than the entry it will replace.
Stamped ==
    /\ purgeAt # None => purgeAt <= now
    /\ \A n \in Names : entries[n] # None => entries[n].result.checkedAt <= now
    /\ \A c \in Callers : stage[c] \in {"checked", "stored"} =>
          outcome[c].checkedAt <= now
    /\ \A c \in Callers : stage[c] = "checked" /\ entries[Name(c)] # None =>
          entries[Name(c)].result.checkedAt <= outcome[c].checkedAt

\* Whatever can still be given to a caller is as new as what callers have
\* been told: the entry of a name, and the outcome of the flight on it, which
\* once stored are the same as long as the entry stays.
Told ==
    /\ \A n \in Names : told[n] <= now
    /\ \A n \in Names : entries[n] # None =>
          told[n] <= entries[n].result.checkedAt
    /\ \A c \in Callers : stage[c] \in {"checked", "stored"} =>
          told[Name(c)] <= outcome[c].checkedAt
    /\ \A c \in Callers : stage[c] = "stored" /\ entries[Name(c)] # None =>
          entries[Name(c)].result.checkedAt = outcome[c].checkedAt
    /\ \A c \in Callers : ~Free(c) => floor[c] <= told[Name(c)]
    /\ MonotoneReads

Inductive ==
    /\ TypeOK
    /\ InFlight
    /\ Labelled
    /\ Stamped
    /\ PositiveTTL => Told

-----------------------------------------------------------------------------
(* What the documentation says and the code does not do. *)

\* "`unknown` means no source could answer": a caller that has not cancelled
\* its own call is not given an unknown that only says that somebody else did.
UnknownIsAboutSources ==
    \A c \in Callers :
        stage[c] = "answered" /\ ~cancelled[c] => ~answer[c].aborted
=============================================================================
