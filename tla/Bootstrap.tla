------------------------------ MODULE Bootstrap ------------------------------
(***************************************************************************)
(* rdap.Bootstrap: the registry of RDAP services, which every caller of    *)
(* BaseURLs reads, and one of them refreshes once it is stale.  A registry *)
(* is the number of its edition; what a TLD has in it is left out.  Times  *)
(* are relative: age is how long ago fetchedAt is, up to the first age at  *)
(* which the registry is stale.                                            *)
(***************************************************************************)
EXTENDS Integers

CONSTANTS
    Clients,
    TTL,         \* of a fetched registry, in ticks
    Pause,       \* how long nobody tries again after a failure
    MaxEdition,  \* IANA publishes no more than this
    None

ASSUME BootstrapAssumption ==
    /\ TTL \in Nat /\ Pause \in 1 .. TTL
    /\ MaxEdition \in Nat
    /\ None \notin Clients

VARIABLES
    stage,     \* where each client is in BaseURLs
    holder,    \* who has the lock `refresh`
    services,  \* the edition in use; 0 is the embedded snapshot
    age,       \* time since fetchedAt
    iana,      \* the edition IANA serves
    body,      \* the edition each client has last received from it
    quiet,     \* history: time since a fetch last ended
    healthy    \* history: whether that one succeeded

vars == <<stage, holder, services, age, iana, body, quiet, healthy>>

Stages == {"idle", "trying", "rechecking", "fetching", "received", "leaving", "reading"}

Init ==
    /\ stage = [c \in Clients |-> "idle"]
    /\ holder = None
    /\ services = 0
    /\ age = TTL + 1
    /\ iana \in 0 .. MaxEdition
    /\ body = [c \in Clients |-> 0]
    /\ quiet = TTL + 1
    /\ healthy = TRUE

Stale == age > TTL

Go(c, to) == stage' = [stage EXCEPT ![c] = to]

-----------------------------------------------------------------------------
\* BaseURLs is called.
Ask(c) ==
    /\ stage[c] = "idle"
    /\ Go(c, IF Stale THEN "trying" ELSE "reading")
    /\ UNCHANGED <<holder, services, age, iana, body, quiet, healthy>>

\* Mutant of TryLock: Lock, which waits.
LockOrWait(c) ==
    /\ stage[c] = "trying"
    /\ holder = None
    /\ Go(c, "rechecking")
    /\ holder' = c
    /\ UNCHANGED <<services, age, iana, body, quiet, healthy>>

\* Mutant of TryLock: no lock.
NoLock(c) ==
    /\ stage[c] = "trying"
    /\ Go(c, "rechecking")
    /\ holder' = c
    /\ UNCHANGED <<services, age, iana, body, quiet, healthy>>

\* TryLock: whoever does not get the lock reads what there is.
TryLock(c) ==
    /\ stage[c] = "trying"
    /\ IF holder = None
       THEN Go(c, "rechecking") /\ holder' = c
       ELSE Go(c, "reading") /\ UNCHANGED holder
    /\ UNCHANGED <<services, age, iana, body, quiet, healthy>>

\* Mutant of Recheck: the age is not looked at again.
NoRecheck(c) ==
    /\ stage[c] = "rechecking"
    /\ Go(c, "fetching")
    /\ UNCHANGED <<holder, services, age, iana, body, quiet, healthy>>

\* Mutant of Recheck: a return that does not unlock.
RecheckAndLeak(c) ==
    /\ stage[c] = "rechecking"
    /\ Go(c, IF Stale THEN "fetching" ELSE "reading")
    /\ UNCHANGED <<holder, services, age, iana, body, quiet, healthy>>

\* Another client may have refreshed the registry since Ask.
Recheck(c) ==
    /\ stage[c] = "rechecking"
    /\ Go(c, IF Stale THEN "fetching" ELSE "leaving")
    /\ UNCHANGED <<holder, services, age, iana, body, quiet, healthy>>

\* fetch: IANA answers, with the edition it has at that moment.
Receive(c) ==
    /\ stage[c] = "fetching"
    /\ Go(c, "received")
    /\ body' = [body EXCEPT ![c] = iana]
    /\ UNCHANGED <<holder, services, age, iana, quiet, healthy>>

Install(c) ==
    /\ stage[c] = "received"
    /\ Go(c, "leaving")
    /\ services' = body[c]
    /\ age' = 0
    /\ quiet' = 0
    /\ healthy' = TRUE
    /\ UNCHANGED <<holder, iana, body>>

\* fetch fails: the network, the status or the document is not good, the 20
\* seconds are over, or the caller has cancelled.  The registry stays, dated
\* so as to be stale again after the pause.
FetchFails(c) ==
    /\ stage[c] = "fetching"
    /\ Go(c, "leaving")
    /\ age' = TTL - Pause
    /\ quiet' = 0
    /\ healthy' = FALSE
    /\ UNCHANGED <<holder, services, iana, body>>

\* The deferred Unlock, on every way out of tryRefresh.
Unlock(c) ==
    /\ stage[c] = "leaving"
    /\ Go(c, "reading")
    /\ holder' = None
    /\ UNCHANGED <<services, age, iana, body, quiet, healthy>>

\* The services of the TLD are looked up, and BaseURLs returns.
Read(c) ==
    /\ stage[c] = "reading"
    /\ Go(c, "idle")
    /\ UNCHANGED <<holder, services, age, iana, body, quiet, healthy>>

Older(t) == IF t > TTL THEN t ELSE t + 1

Tick ==
    /\ age' = Older(age)
    /\ quiet' = Older(quiet)
    /\ UNCHANGED <<stage, holder, services, iana, body, healthy>>

\* IANA publishes a new edition.  It never goes back to an older one.
Publish ==
    /\ iana < MaxEdition
    /\ iana' = iana + 1
    /\ UNCHANGED <<stage, holder, services, age, body, quiet, healthy>>

-----------------------------------------------------------------------------
\* What a client does without waiting for IANA.
Proceed(c) ==
    \/ TryLock(c)
    \/ Recheck(c)
    \/ Install(c)
    \/ Unlock(c)
    \/ Read(c)

Next ==
    \/ \E c \in Clients :
          \/ Ask(c)
          \/ Proceed(c)
          \/ Receive(c)
          \/ FetchFails(c)
    \/ Tick
    \/ Publish

Spec == Init /\ [][Next]_vars

\* A goroutine that waits for nobody runs on.  That a fetch ends is not
\* assumed: no one but its caller should notice.
FairSpec == Spec /\ \A c \in Clients : WF_vars(Proceed(c))

-----------------------------------------------------------------------------
TypeOK ==
    /\ stage \in [Clients -> Stages]
    /\ holder \in Clients \cup {None}
    /\ services \in 0 .. MaxEdition
    /\ age \in 0 .. TTL + 1
    /\ iana \in 0 .. MaxEdition
    /\ body \in [Clients -> 0 .. MaxEdition]
    /\ quiet \in 0 .. TTL + 1
    /\ healthy \in BOOLEAN

\* Where a client has the lock.
Refreshing(c) == stage[c] \in {"rechecking", "fetching", "received", "leaving"}

\* The lock is held by the one client that refreshes, and comes back on every
\* way out of tryRefresh: a lock that is lost ends all refreshing silently,
\* for nobody ever waits for it.
LockIsReturned == \A c \in Clients : Refreshing(c) <=> holder = c

\* A client that starts to fetch does so on a registry that is really stale,
\* and not in the pause after a failed fetch, no matter how long ago it looked
\* at the age of the registry before it got the lock.
FetchesAreSpaced ==
    [][\A c \in Clients : stage[c] # "fetching" /\ stage'[c] = "fetching" =>
          quiet > (IF healthy THEN TTL ELSE Pause)]_vars

\* A slow fetch never overwrites the edition of a later one.
EditionsNeverRegress == [][services' >= services]_vars

\* Only the client that fetches waits for IANA, even if the fetch never ends.
OthersDoNotWait ==
    \A c \in Clients : stage[c] # "idle" ~> stage[c] \in {"idle", "fetching"}

-----------------------------------------------------------------------------
(* The inductive invariant of BootstrapProofs. *)

\* What is in hand is not older than what is in use, nor newer than what IANA
\* serves.
EditionsInOrder ==
    /\ services <= iana
    /\ \A c \in Clients : stage[c] = "received" => body[c] \in services .. iana

\* fetchedAt tells the time since the last fetch, or after a failure that time
\* moved forward, so that what is left of the TTL is the pause.
AgeTellsQuiet ==
    IF healthy THEN age = quiet
    ELSE age = IF quiet > Pause THEN TTL + 1 ELSE quiet + (TTL - Pause)

\* The registry ages by the last fetch, and the one client that may install an
\* edition holds none older than the registry: both survive the gap between a
\* look at the age and the lock, in which others ask, give up and return.
Inductive ==
    /\ TypeOK
    /\ LockIsReturned
    /\ EditionsInOrder
    /\ AgeTellsQuiet
=============================================================================
