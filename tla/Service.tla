------------------------------- MODULE Service -------------------------------
(***************************************************************************)
(* The engine as one system: the calls of Check, which share a cache and a *)
(* singleflight group (Engine), the lookups their leaders run with their   *)
(* providers (Lookup), and the calls of Info, which look their name up     *)
(* whatever the cache holds and whoever is on it, but need the same slots. *)
(***************************************************************************)
EXTENDS Engine, Resolver, FiniteSets

CONSTANTS
    Readers,         \* the goroutines that call Info
    MaxConcurrency, Primary, Corroborating   \* as in Lookup

ASSUME ServiceAssumption ==
    /\ Readers \cap Callers = {}
    /\ IsFiniteSet(Callers \cup Readers)
    /\ MaxConcurrency \in Nat \ {0}
    /\ Primary \in Seq({"rdap", "whois"}) /\ Len(Primary) > 0
    /\ \A j, k \in DOMAIN Primary : Primary[j] = Primary[k] => j = k
    /\ Corroborating \subseteq {"dns"}

VARIABLES
    phase, at, link, results, verdict, slots,   \* as in Lookup
    context,    \* whether the context of a lookup has been cancelled
    settled     \* history: the names a registry or a WHOIS server was heard
                \* to have no registration of, and when

L == INSTANCE Lookup WITH Lookups <- Callers \cup Readers, cancelled <- context

lookups == <<phase, at, link, results, verdict, context, slots>>
all == <<vars, lookups, settled>>

ServiceInit ==
    /\ Init
    /\ L!Init
    /\ settled = {}

\* What Engine does on its own: calls, hits, waiting, the cache and the clock.
\* The purge is left to Engine: an entry it deletes is one no call returns.
EngineOnly ==
    /\ \/ \E c \in Callers : Ask(c) \/ Follow(c) \/ Store(c) \/ Release(c)
       \/ Tick
    /\ UNCHANGED <<lookups, settled>>

\* What Lookup does on its own.
LookupOnly(l) ==
    /\ \/ \E t \in L!Tasks : L!Step(l, t)
       \/ L!Finish(l)
    /\ UNCHANGED <<vars, settled>>

\* The function given to group.Do calls check, under the context of the call.
LeaderChecks(c) ==
    /\ Lead(c)
    /\ L!Start(c, cancelled[c])
    /\ UNCHANGED settled

Heard(l) ==
    \E i \in DOMAIN results[l] :
        results[l][i].provider # "dns" /\ results[l][i].registration = "not_registered"

\* check returns what was resolved, and CheckedAt is set.
LeaderHasChecked(c) ==
    /\ FinishCheck(c, verdict[c].availability)
    /\ L!Take(c)
    /\ settled' = IF Heard(c) THEN settled \cup {<<Name(c), now>>} ELSE settled

\* Mutant of GiveUp: the lookup runs on.
GiveUpAlone(c) ==
    /\ Cancel(c)
    /\ UNCHANGED <<lookups, settled>>

\* A client of Check gives up, and with it the lookup it may be leading.
GiveUp(c) ==
    /\ Cancel(c)
    /\ IF phase[c] = "running" THEN L!Cancel(c) ELSE UNCHANGED lookups
    /\ UNCHANGED settled

\* Info of a domain name; of anything else it fails at once.
InfoChecks(r) ==
    /\ \E i \in Inputs : NameOf[i] # None
    /\ L!Start(r, FALSE)
    /\ UNCHANGED <<vars, settled>>

\* What it returns is InfoOf(results[r], verdict[r]); nothing is kept.
InfoReturns(r) ==
    /\ L!Take(r)
    /\ UNCHANGED <<vars, settled>>

InfoGivesUp(r) ==
    /\ L!Cancel(r)
    /\ UNCHANGED <<vars, settled>>

ServiceNext ==
    \/ EngineOnly
    \/ \E l \in Callers \cup Readers : LookupOnly(l)
    \/ \E c \in Callers : LeaderChecks(c) \/ LeaderHasChecked(c) \/ GiveUp(c)
    \/ \E r \in Readers : InfoChecks(r) \/ InfoReturns(r) \/ InfoGivesUp(r)

ServiceSpec == ServiceInit /\ [][ServiceNext]_all

\* The fairness of the parts; a call that has its results goes on with them.
ServiceFairSpec ==
    /\ ServiceSpec
    /\ CallsGoOn
    /\ L!Fairness
    /\ \A c \in Callers : WF_all(LeaderHasChecked(c))
    /\ \A r \in Readers : WF_all(InfoReturns(r))

-----------------------------------------------------------------------------
\* Whoever is told that a name is available, by its own lookup, by another
\* caller's or from the cache: a registry or a WHOIS server was heard to have
\* no registration of that very name, when the answer says that it was checked.
\* No failure, refusal, cancelled context or missing delegation is enough.
AvailableIsGrounded ==
    \A c \in Callers :
        stage[c] = "answered" /\ answer[c].availability = "available" =>
            <<answer[c].name, answer[c].checkedAt>> \in settled

\* If the result says that a name is available, that is among what was heard.
SaysOnly(result, heard) ==
    result.availability = "available" => <<result.name, result.checkedAt>> \in heard

\* What makes AvailableIsGrounded inductive: it holds of whatever may still be
\* given to a caller.
Grounded ==
    /\ \A n \in Names : entries[n] # None => SaysOnly(entries[n].result, settled)
    /\ \A c \in Callers : stage[c] \in {"checked", "stored"} =>
          SaysOnly(outcome[c], settled)
    /\ \A c \in Callers : stage[c] = "answered" => SaysOnly(answer[c], settled)

\* The lookup a call depends on, its own or the one of its leader.
LookupOf(c) == IF stage[c] = "waiting" THEN leader[c] ELSE c
Discovering(l) == at[l]["chain"] = "discovering"

\* Every call returns unless the discovery of a WHOIS server holds up its
\* lookup or its leader's: no slot is lost for others, no flight is left that
\* nobody ends, and calls of Info and of Check cannot starve one another.
OnlyDiscoveryHangs ==
    /\ \A c \in Callers : ~Free(c) ~> Free(c) \/ Discovering(LookupOf(c))
    /\ \A r \in Readers : phase[r] # "idle" ~> phase[r] = "idle" \/ Discovering(r)

\* Whoever looks a name up and gives up returns, wherever the lookup is, and
\* so does whoever waits for it.
GivingUpEnds ==
    /\ \A c \in Callers :
          phase[LookupOf(c)] # "idle" /\ cancelled[LookupOf(c)] ~> Free(c)
    /\ \A r \in Readers : phase[r] # "idle" /\ context[r] ~> phase[r] = "idle"
=============================================================================
