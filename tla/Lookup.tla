------------------------------- MODULE Lookup -------------------------------
(***************************************************************************)
(* Engine.check and Engine.run: lookups that share the slots of an engine. *)
(* A lookup has one task per corroborating provider and one task, "chain", *)
(* that walks the primary providers until one is conclusive.  All append   *)
(* to the results of the lookup as they come.                              *)
(*                                                                         *)
(* A provider is modelled by what the engine sees of it: Supports says yes *)
(* or no, Check reports a finding or fails.  Supports of WHOIS may have to *)
(* ask IANA first, a query like any other, but one that is made before the *)
(* engine takes a slot and starts the timeout of the call.                 *)
(***************************************************************************)
EXTENDS Replies, FiniteSets

CONSTANTS
    Lookups,         \* the lookups that can be under way at once
    MaxConcurrency,  \* the number of slots
    Primary,         \* the chain, in order of authority
    Corroborating    \* the providers that run alongside

ASSUME LookupAssumption ==
    /\ IsFiniteSet(Lookups)
    /\ MaxConcurrency \in Nat \ {0}
    /\ Primary \in Seq({"rdap", "whois"}) /\ Len(Primary) > 0
    /\ \A j, k \in DOMAIN Primary : Primary[j] = Primary[k] => j = k
    /\ Corroborating \subseteq {"dns"}

Tasks == Corroborating \union {"chain"}

VARIABLES
    phase,      \* of a lookup: "idle", "running" or "resolved"
    at,         \* where each task of a lookup is
    link,       \* how far the chain of a lookup has come
    results,    \* of a lookup, in order of arrival
    verdict,    \* of a lookup that is resolved
    cancelled,  \* whether the context of a lookup has been cancelled
    slots       \* how many slots are taken

vars == <<phase, at, link, results, verdict, cancelled, slots>>

Stages == {"off", "asking", "discovering", "waiting", "querying", "over"}

NoVerdict == [availability |-> "none"]

\* The provider a task is with.
With(l, t) == IF t = "chain" THEN Primary[link[l]] ELSE t

-----------------------------------------------------------------------------
Init ==
    /\ phase = [l \in Lookups |-> "idle"]
    /\ at = [l \in Lookups |-> [t \in Tasks |-> "off"]]
    /\ link = [l \in Lookups |-> 1]
    /\ results = [l \in Lookups |-> <<>>]
    /\ verdict = [l \in Lookups |-> NoVerdict]
    /\ cancelled = [l \in Lookups |-> FALSE]
    /\ slots = 0

Move(l, t, stage) == at' = [at EXCEPT ![l][t] = stage]

\* A task is done with its provider and has not settled the matter: the chain
\* goes on with its next link, if it has one.
MoveOn(l, t) ==
    IF t = "chain" /\ link[l] < Len(Primary)
    THEN /\ Move(l, t, "asking")
         /\ link' = [link EXCEPT ![l] = @ + 1]
    ELSE /\ Move(l, t, "over")
         /\ UNCHANGED link

Append1(l, finding) == results' = [results EXCEPT ![l] = Append(@, finding)]

\* The errgroup starts the tasks, under a context that may be dead already.
Start(l, dead) ==
    /\ phase[l] = "idle"
    /\ phase' = [phase EXCEPT ![l] = "running"]
    /\ at' = [at EXCEPT ![l] = [t \in Tasks |-> "asking"]]
    /\ cancelled' = [cancelled EXCEPT ![l] = dead]
    /\ UNCHANGED <<link, results, verdict, slots>>

\* Supports says yes.
Supported(l, t) ==
    /\ at[l][t] = "asking"
    /\ Move(l, t, "waiting")
    /\ UNCHANGED <<phase, link, results, verdict, cancelled, slots>>

\* Supports says no: a TLD without RDAP service or without WHOIS server.
Unsupported(l, t) ==
    /\ at[l][t] = "asking"
    /\ t = "chain"
    /\ MoveOn(l, t)
    /\ UNCHANGED <<phase, results, verdict, cancelled, slots>>

\* Supports of WHOIS does not know the server of the TLD, and asks IANA.
Discover(l, t) ==
    /\ at[l][t] = "asking"
    /\ With(l, t) = "whois"
    /\ Move(l, t, "discovering")
    /\ UNCHANGED <<phase, link, results, verdict, cancelled, slots>>

\* IANA names a server, or does not, or the query fails.
Discovered(l, t) ==
    /\ at[l][t] = "discovering"
    /\ \/ Move(l, t, "waiting") /\ UNCHANGED link
       \/ MoveOn(l, t)
    /\ UNCHANGED <<phase, results, verdict, cancelled, slots>>

\* run takes a slot.
Acquire(l, t) ==
    /\ at[l][t] = "waiting"
    /\ slots < MaxConcurrency
    /\ slots' = slots + 1
    /\ Move(l, t, "querying")
    /\ UNCHANGED <<phase, link, results, verdict, cancelled>>

\* What becomes of an error of run: the chain records it and moves on, a
\* corroborating task ends without a trace.
RunFails(l, t) ==
    /\ IF t = "chain" THEN Append1(l, QueryFailed(With(l, t)))
                      ELSE UNCHANGED results
    /\ MoveOn(l, t)

\* run returns because the context is done before there is a slot.
GiveUp(l, t) ==
    /\ at[l][t] = "waiting"
    /\ cancelled[l]
    /\ RunFails(l, t)
    /\ UNCHANGED <<phase, verdict, cancelled, slots>>

\* Mutant of Reply: the chain asks every source.
ReplyAndMoveOn(l, t, finding) ==
    /\ at[l][t] = "querying"
    /\ slots' = slots - 1
    /\ Append1(l, finding)
    /\ MoveOn(l, t)
    /\ UNCHANGED <<phase, verdict, cancelled>>

\* The provider reports a finding, and the slot is given back.
Reply(l, t, finding) ==
    /\ at[l][t] = "querying"
    /\ slots' = slots - 1
    /\ Append1(l, finding)
    /\ IF Conclusive(finding) THEN Move(l, t, "over") /\ UNCHANGED link
                              ELSE MoveOn(l, t)
    /\ UNCHANGED <<phase, verdict, cancelled>>

\* Mutant of Fail: the slot is only given back after a reply.
FailWithSlot(l, t) ==
    /\ at[l][t] = "querying"
    /\ t = "chain"
    /\ RunFails(l, t)
    /\ UNCHANGED <<phase, verdict, cancelled, slots>>

\* The query of a primary provider fails (a refusal, a timeout, a cancelled
\* context), and the slot is given back.  The DNS probe reports its failures
\* as findings.
Fail(l, t) ==
    /\ at[l][t] = "querying"
    /\ t = "chain"
    /\ slots' = slots - 1
    /\ RunFails(l, t)
    /\ UNCHANGED <<phase, verdict, cancelled>>

\* group.Wait returns once every task is over, and the results are resolved.
Finish(l) ==
    /\ phase[l] = "running"
    /\ \A t \in Tasks : at[l][t] = "over"
    /\ phase' = [phase EXCEPT ![l] = "resolved"]
    /\ verdict' = [verdict EXCEPT ![l] = Resolve(results[l])]
    /\ UNCHANGED <<at, link, results, cancelled, slots>>

\* The caller takes the result; another lookup may follow.
Take(l) ==
    /\ phase[l] = "resolved"
    /\ phase' = [phase EXCEPT ![l] = "idle"]
    /\ at' = [at EXCEPT ![l] = [t \in Tasks |-> "off"]]
    /\ link' = [link EXCEPT ![l] = 1]
    /\ results' = [results EXCEPT ![l] = <<>>]
    /\ verdict' = [verdict EXCEPT ![l] = NoVerdict]
    /\ cancelled' = [cancelled EXCEPT ![l] = FALSE]
    /\ UNCHANGED slots

Cancel(l) ==
    /\ phase[l] = "running"
    /\ ~cancelled[l]
    /\ cancelled' = [cancelled EXCEPT ![l] = TRUE]
    /\ UNCHANGED <<phase, at, link, results, verdict, slots>>

Step(l, t) ==
    \/ Supported(l, t)
    \/ Unsupported(l, t)
    \/ Discover(l, t)
    \/ Discovered(l, t)
    \/ Acquire(l, t)
    \/ GiveUp(l, t)
    \/ \E finding \in Replies(With(l, t)) : Reply(l, t, finding)
    \/ Fail(l, t)

Next ==
    \E l \in Lookups :
        \/ \E dead \in BOOLEAN : Start(l, dead)
        \/ \E t \in Tasks : Step(l, t)
        \/ Finish(l)
        \/ Take(l)
        \/ Cancel(l)

Spec == Init /\ [][Next]_vars

\* Supports answers and RequestTimeout ends every query.  Discovery has no such
\* timeout: nothing but a cancelled context is sure to end it.
Progress(l, t) ==
    \/ Supported(l, t)
    \/ Unsupported(l, t)
    \/ Discover(l, t)
    \/ cancelled[l] /\ Discovered(l, t)
    \/ Acquire(l, t)
    \/ GiveUp(l, t)
    \/ \E finding \in Replies(With(l, t)) : Reply(l, t, finding)
    \/ Fail(l, t)

\* Whoever waits for a slot gets one in turn, as a channel serves its senders
\* first come first served.
Fairness ==
    \A l \in Lookups :
        /\ WF_vars(Finish(l))
        /\ \A t \in Tasks :
              /\ WF_vars(Progress(l, t))
              /\ SF_vars(Acquire(l, t))

FairSpec == Spec /\ Fairness

-----------------------------------------------------------------------------
TypeOK ==
    /\ phase \in [Lookups -> {"idle", "running", "resolved"}]
    /\ at \in [Lookups -> [Tasks -> Stages]]
    /\ link \in [Lookups -> DOMAIN Primary]
    /\ results \in [Lookups -> Seq(Findings)]
    /\ verdict \in [Lookups -> Resolutions \union {NoVerdict}]
    /\ cancelled \in [Lookups -> BOOLEAN]
    /\ slots \in Nat

Querying == {u \in Lookups \X Tasks : at[u[1]][u[2]] = "querying"}

\* run takes a slot for exactly the time of its query, whichever way that
\* ends: no slot is lost to a failure, a timeout or a cancelled context.
SlotsAccounted ==
    /\ slots = Cardinality(Querying)
    /\ slots <= MaxConcurrency

\* "Move on to the next source only when this one was inconclusive": once a
\* primary source was conclusive, the chain asks no other, and no result of a
\* later source comes after it.
ChainStopsWhenConclusive ==
    \A l \in Lookups : \A i \in DOMAIN results[l] :
        Conclusive(results[l][i]) /\ results[l][i].provider # "dns" =>
            /\ at[l]["chain"] = "over"
            /\ \A j \in DOMAIN results[l] :
                  j > i => results[l][j].provider = "dns"

\* A name is called available only on the word of a registry or a WHOIS
\* server, and never against the word of one: not because sources failed, were
\* throttled or were cancelled, and not because there is no delegation.
AvailableIsAuthoritative ==
    \A l \in Lookups : verdict[l].availability = "available" =>
        LET said == {results[l][i].registration : i \in {j \in DOMAIN results[l] :
                        results[l][j].provider # "dns"}}
        IN  "not_registered" \in said /\ "registered" \notin said

\* A lookup whose sources contradict each other says so, and only such a one:
\* some source found a registration or a delegation and some other found no
\* registration.
ConflictIffContradiction ==
    \A l \in Lookups : phase[l] = "resolved" =>
        LET said == {results[l][i].registration : i \in DOMAIN results[l]}
        IN  verdict[l].conflict <=> {"registered", "not_registered"} \subseteq said

\* The verdict does not depend on the order in which the concurrent tasks
\* happened to append what they found.
Reorderings(rs) ==
    LET n == Len(rs)
    IN  {[i \in 1 .. n |-> rs[p[i]]] : p \in {q \in [1 .. n -> 1 .. n] :
            \A i, j \in 1 .. n : i # j => q[i] # q[j]}}

VerdictIgnoresArrival ==
    \A l \in Lookups : phase[l] = "resolved" =>
        \A rs \in Reorderings(results[l]) : Resolve(rs) = verdict[l]

\* Info and Check agree on one set of results: registration data means that the
\* name is unavailable, a bare "not registered" that it is available, and an
\* error that no registry or WHOIS server settled the matter, or none without
\* contradiction.
InfoAgreesWithVerdict ==
    \A l \in Lookups : phase[l] = "resolved" =>
        LET info == InfoOf(results[l], verdict[l])
        IN  IF "error" \in DOMAIN info
            THEN \/ verdict[l].conflict
                 \/ \A i \in DOMAIN results[l] :
                       Conclusive(results[l][i]) => results[l][i].provider = "dns"
            ELSE verdict[l].availability =
                    (IF info.registered THEN "unavailable" ELSE "available")

-----------------------------------------------------------------------------
(* The inductive invariant of LookupProofs. *)

\* A lookup that is not running has no task under way, and no results are
\* kept from one lookup to the next.
Phased ==
    \A l \in Lookups :
        /\ phase[l] = "idle" =>
              /\ at[l] = [t \in Tasks |-> "off"]
              /\ results[l] = <<>>
        /\ phase[l] = "running" => \A t \in Tasks : at[l][t] # "off"
        /\ phase[l] = "resolved" =>
              /\ \A t \in Tasks : at[l][t] = "over"
              /\ verdict[l] = Resolve(results[l])
        /\ phase[l] # "resolved" => verdict[l] = NoVerdict

\* A result is of the DNS probe, if that is over, or of a link of the chain
\* that the chain is done with.
OfDone(l, finding) ==
    \/ /\ finding \in DnsReplies
       /\ "dns" \in Tasks
       /\ at[l]["dns"] = "over"
    \/ \E k \in 1 .. link[l] :
          /\ finding \in Replies(Primary[k]) \cup {QueryFailed(Primary[k])}
          /\ k = link[l] => at[l]["chain"] = "over"

Recorded == \A l \in Lookups : \A i \in DOMAIN results[l] : OfDone(l, results[l][i])

\* No provider has two results, as resolve takes for granted when it keeps the
\* last of each.
OnePerProvider ==
    \A l \in Lookups : \A i, j \in DOMAIN results[l] :
        results[l][i].provider = results[l][j].provider => i = j

Inductive ==
    /\ TypeOK
    /\ Phased
    /\ Recorded
    /\ OnePerProvider
    /\ ChainStopsWhenConclusive
    /\ SlotsAccounted

-----------------------------------------------------------------------------
(* What the documentation says and the code does not do. *)

\* With "REQUEST_TIMEOUT: Timeout for a single upstream query", every lookup
\* ends.
EveryLookupEnds == \A l \in Lookups : phase[l] = "running" ~> phase[l] = "resolved"
=============================================================================
