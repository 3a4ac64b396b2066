--------------------------------- MODULE Rdap ---------------------------------
(***************************************************************************)
(* Check of the RDAP provider: what the calls of Upstream report to the    *)
(* engine, with the causes of their errors and the contents of their       *)
(* answers.                                                                *)
(***************************************************************************)
EXTENDS Upstream, RdapText

CONSTANT Bodies   \* of the 200s of registries

ASSUME BodiesAssumption == Bodies \subseteq Body

Engine == INSTANCE Replies

VARIABLES
    heard,    \* the answer each client's call has had: a body, NotFound or None
    outcome   \* what its last call returned, or None

all == <<vars, heard, outcome>>
answers == <<heard, outcome>>

None == [none |-> TRUE]
NotFound == [notFound |-> TRUE]
Error == [error |-> TRUE]

RdapInit ==
    /\ Init
    /\ heard = [c \in Clients |-> None]
    /\ outcome = [c \in Clients |-> None]

Hear(c, r) == heard' = [heard EXCEPT ![c] = r]
Report(c, r) == outcome' = [outcome EXCEPT ![c] = r]

\* Mutant of FindingOn: a reserved name is taken for one without registration.
FindingOnReserved(r) ==
    LET free == IF r = NotFound THEN TRUE ELSE StatusIn(r.statuses) = "reserved"
    IN  [registration |-> IF free THEN "not_registered" ELSE "registered",
         status |-> IF r = NotFound THEN "available" ELSE StatusIn(r.statuses),
         info |-> IF r = NotFound THEN None ELSE InfoIn(r)]

\* A 404 is the word of the registry that there is no registration; a 200 says
\* that there is one, whatever its status.
FindingOn(r) ==
    IF r = NotFound
    THEN [registration |-> "not_registered", status |-> "available", info |-> None]
    ELSE [registration |-> "registered", status |-> StatusIn(r.statuses), info |-> InfoIn(r)]

RateLimited == [registration |-> "unknown", status |-> "rate_limited", info |-> None]

CheckBegins(c, p) ==
    /\ Begin(c, p)
    /\ Hear(c, None)
    /\ Report(c, None)

\* The registry of services has been refreshed since Supports read it, and has
\* none of the TLD any more.
CheckWithoutBases(c) ==
    /\ stage[c] = "idle"
    /\ Hear(c, None)
    /\ Report(c, Error)
    /\ UNCHANGED vars

CheckAnswered(c, r) ==
    /\ Answered(c)
    /\ Hear(c, r)
    /\ Report(c, FindingOn(r))

\* The error of the last base that is tried is what Check goes by.
Leaves(c, report) ==
    /\ outcome' = IF stage'[c] = "idle" THEN [outcome EXCEPT ![c] = report] ELSE outcome
    /\ UNCHANGED heard

\* An open circuit, a context that is done, a transport that fails, a status
\* nobody expects, or a body that is no JSON, for one because it is too long.
CheckFails(c) ==
    /\ Refused(c) \/ Abandon(c) \/ SleepCut(c) \/ Failed(c)
    /\ Leaves(c, Error)

\* Mutant of CheckThrottled: throttled for good is taken for an answer.
ThrottledAsFree(c) ==
    /\ Failed(c)
    /\ attempt[c] = MaxRetries \/ ctx[c] # "live"
    /\ Leaves(c, FindingOn(NotFound))

\* The host has throttled the last attempt: a finding, not an error.
CheckThrottled(c) ==
    /\ Failed(c)
    /\ attempt[c] = MaxRetries \/ ctx[c] # "live"
    /\ Leaves(c, RateLimited)

CheckGoesOn(c) ==
    /\ Pass(c) \/ Send(c) \/ Retry(c) \/ WakeUp(c) \/ ContextEnds(c)
    /\ UNCHANGED answers

RdapTick == Tick /\ UNCHANGED answers

RdapNext ==
    \/ \E c \in Clients :
          \/ \E p \in Plans : CheckBegins(c, p)
          \/ CheckWithoutBases(c)
          \/ \E r \in Bodies \cup {NotFound} : CheckAnswered(c, r)
          \/ CheckFails(c)
          \/ CheckThrottled(c)
          \/ CheckGoesOn(c)
    \/ RdapTick

RdapSpec == RdapInit /\ [][RdapNext]_all /\ Fairness

-----------------------------------------------------------------------------
\* The type invariant: what Lookup and Resolver take for granted about RDAP.
\* Registration data come with a registration and with nothing else.
KeepsToReplies ==
    \A c \in Clients : outcome[c] \notin {None, Error} =>
        \E r \in Engine!RdapReplies :
            /\ r.registration = outcome[c].registration
            /\ r.status = outcome[c].status
            /\ r.info <=> outcome[c].info # None

\* "An open circuit yields `unknown` rather than a false `available`"
\* (README.md:235), and so do throttling, failures, timeouts and an earlier
\* call's answer: only a 404 to this very call says that there is no
\* registration, and only a 200 to it that there is one.
OnlyAnswersSettle ==
    \A c \in Clients : outcome[c] \notin {None, Error} =>
        /\ outcome[c].registration = "not_registered" <=> heard[c] = NotFound
        /\ outcome[c].registration = "registered" <=> heard[c] \in Bodies

Listed(statuses) ==
    {StatusMapping[k].status : k \in UNION {Rows(statuses[i]) : i \in DOMAIN statuses}}

StatusIsListed(body, status) ==
    IF Listed(body.statuses) = {} THEN status = "registered"
                                  ELSE status \in Listed(body.statuses)

Shuffled(s) == {[i \in DOMAIN s |-> s[p[i]]] : p \in {q \in [DOMAIN s -> DOMAIN s] :
                   \A i, j \in DOMAIN s : i # j => q[i] # q[j]}}
Unambiguous(body) ==
    /\ \A i, j \in DOMAIN body.events :
          i # j /\ BadDate \notin {body.events[i].date, body.events[j].date} =>
              body.events[i].action # body.events[j].action
    /\ \A i, j \in DOMAIN body.entities :
          "registrar" \in body.entities[i].roles \cap body.entities[j].roles => i = j

InfoIgnoresListing(body, info) ==
    Unambiguous(body) =>
        \A events \in Shuffled(body.events), entities \in Shuffled(body.entities) :
            InfoIn([body EXCEPT !.events = events, !.entities = entities]) = info

\* Whatever order a registry lists things in: a registration is called plainly
\* registered only if no EPP status that is listed, wherever in the list, has a
\* meaning of its own, and else its status is that of one that is listed; and
\* its data are the same in every order of its events and entities, if each
\* action has one date that can be read and there is one registrar.
AnswersAreWhatIsListed ==
    \A c \in Clients : outcome[c] \notin {None, Error} /\ heard[c] \in Bodies =>
        /\ StatusIsListed(heard[c], outcome[c].status)
        /\ InfoIgnoresListing(heard[c], outcome[c].info)

-----------------------------------------------------------------------------
(* What the proofs in RdapProofs rest on. *)

\* What Check can report of answers, and of calls without one.
Reports == {None, Error, RateLimited} \cup {FindingOn(r) : r \in Bodies \cup {NotFound}}

\* A call that is under way has heard nothing and reported nothing yet, and one
\* that is over has reported what it heard.
ReportsWhatIsHeard ==
    /\ heard \in [Clients -> Bodies \cup {NotFound, None}]
    /\ outcome \in [Clients -> Reports]
    /\ \A c \in Clients :
          /\ stage[c] # "idle" => heard[c] = None /\ outcome[c] = None
          /\ heard[c] = None => outcome[c] \in {None, Error, RateLimited}
          /\ heard[c] # None => outcome[c] = FindingOn(heard[c])
=============================================================================
