-------------------------- MODULE BootstrapProofs --------------------------
(***************************************************************************)
(* The refresh of the registry, for any clients, editions and durations.   *)
(***************************************************************************)
EXTENDS Bootstrap, TLAPS

LEMMA InductiveInit == Init => Inductive
  BY BootstrapAssumption
     DEF Init, Inductive, TypeOK, Stages, LockIsReturned, Refreshing,
         EditionsInOrder, AgeTellsQuiet

LEMMA TypeStep ==
    ASSUME TypeOK, Next
    PROVE  TypeOK'
<1> USE BootstrapAssumption DEF TypeOK, Stages, Go
<1>1. ASSUME NEW c \in Clients, Ask(c) \/ Proceed(c) \/ Receive(c) \/ FetchFails(c)
      PROVE  TypeOK'
  <2>1. CASE Ask(c) \/ TryLock(c)
    BY <2>1 DEF Ask, TryLock
  <2>2. CASE Recheck(c) \/ Unlock(c) \/ Read(c)
    BY <2>2 DEF Recheck, Unlock, Read
  <2>3. CASE Receive(c)
    BY <2>3 DEF Receive
  <2>4. CASE Install(c)
    BY <2>4 DEF Install
  <2>5. CASE FetchFails(c)
    <3>1. TTL - Pause \in 0 .. TTL + 1 /\ 0 \in 0 .. TTL + 1
      BY BootstrapAssumption
    <3>2. stage' \in [Clients -> Stages]
      BY <2>5 DEF FetchFails
    <3> QED
      BY <2>5, <3>1, <3>2 DEF FetchFails
  <2> QED
    BY <1>1, <2>1, <2>2, <2>3, <2>4, <2>5 DEF Proceed
<1>2. CASE Tick
  BY <1>2 DEF Tick, Older
<1>3. CASE Publish
  BY <1>3 DEF Publish
<1> QED
  BY <1>1, <1>2, <1>3 DEF Next

\* Mutual exclusion: the lock goes with the client into tryRefresh and comes
\* back with it.
LEMMA LockStep ==
    ASSUME TypeOK, LockIsReturned, Next
    PROVE  LockIsReturned'
<1> USE BootstrapAssumption DEF TypeOK, LockIsReturned, Refreshing, Go
<1>1. ASSUME NEW c \in Clients, Ask(c) \/ Proceed(c) \/ Receive(c) \/ FetchFails(c)
      PROVE  LockIsReturned'
  BY <1>1 DEF Ask, Proceed, Receive, FetchFails, TryLock, Recheck, Install, Unlock, Read
<1>2. CASE Tick \/ Publish
  BY <1>2 DEF Tick, Publish
<1> QED
  BY <1>1, <1>2 DEF Next

LEMMA EditionsStep ==
    ASSUME TypeOK, LockIsReturned, EditionsInOrder, Next
    PROVE  EditionsInOrder' /\ services' >= services
<1> USE BootstrapAssumption DEF TypeOK, EditionsInOrder, Go
<1>1. ASSUME NEW c \in Clients, Install(c)
      PROVE  EditionsInOrder' /\ services' >= services
  <2>1. \A d \in Clients \ {c} : stage'[d] # "received"
    BY <1>1 DEF Install, LockIsReturned, Refreshing
  <2>2. stage'[c] = "leaving" /\ services' = body[c] /\ iana' = iana
    BY <1>1 DEF Install
  <2> QED
    BY <1>1, <2>1, <2>2 DEF Install
<1>2. ASSUME NEW c \in Clients,
             \/ Ask(c) \/ TryLock(c) \/ Recheck(c) \/ Unlock(c) \/ Read(c)
             \/ Receive(c) \/ FetchFails(c)
      PROVE  EditionsInOrder' /\ services' >= services
  BY <1>2 DEF Ask, TryLock, Recheck, Unlock, Read, Receive, FetchFails
<1>3. CASE Tick \/ Publish
  BY <1>3 DEF Tick, Publish
<1> QED
  BY <1>1, <1>2, <1>3 DEF Next, Proceed

LEMMA AgeStep ==
    ASSUME TypeOK, AgeTellsQuiet, Next
    PROVE  AgeTellsQuiet'
<1> USE BootstrapAssumption DEF TypeOK, AgeTellsQuiet
<1>1. ASSUME NEW c \in Clients, Ask(c) \/ Proceed(c) \/ Receive(c) \/ FetchFails(c)
      PROVE  AgeTellsQuiet'
  BY <1>1 DEF Ask, Proceed, Receive, FetchFails, TryLock, Recheck, Install, Unlock, Read
<1>2. CASE Tick
  BY <1>2 DEF Tick, Older
<1>3. CASE Publish
  BY <1>3 DEF Publish
<1> QED
  BY <1>1, <1>2, <1>3 DEF Next

LEMMA InductiveStep == Inductive /\ [Next]_vars => Inductive'
<1>1. ASSUME Inductive, Next PROVE Inductive'
  BY <1>1, TypeStep, LockStep, EditionsStep, AgeStep DEF Inductive
<1>2. ASSUME Inductive, UNCHANGED vars PROVE Inductive'
  BY <1>2 DEF vars, Inductive, TypeOK, LockIsReturned, Refreshing,
              EditionsInOrder, AgeTellsQuiet
<1> QED
  BY <1>1, <1>2

-----------------------------------------------------------------------------
(* Theorems *)

\* The inductive invariant of the refresh holds.
THEOREM Invariance == Spec => []Inductive
<1> QED
  BY InductiveInit, InductiveStep, PTL DEF Spec

\* The refresh lock is held exactly by the client that refreshes.
THEOREM LockComesBack == Spec => []LockIsReturned
<1>1. Inductive => LockIsReturned
  BY DEF Inductive
<1> QED
  BY <1>1, Invariance, PTL

\* No fetch starts on a fresh registry or in the pause after a failed one.
THEOREM FetchesKeepApart == Spec => FetchesAreSpaced
<1> DEFINE Spaced ==
      \A c \in Clients : stage[c] # "fetching" /\ stage'[c] = "fetching" =>
          quiet > (IF healthy THEN TTL ELSE Pause)
<1>1. ASSUME Inductive, Next PROVE Spaced
  <2>1. SUFFICES ASSUME NEW c \in Clients,
                        stage[c] # "fetching", stage'[c] = "fetching"
                 PROVE  quiet > (IF healthy THEN TTL ELSE Pause)
    OBVIOUS
  <2>2. Stale
    BY <1>1, <2>1
       DEF Inductive, TypeOK, Next, Ask, Proceed, TryLock, Recheck, Install, Unlock,
           Read, Receive, FetchFails, Tick, Publish, Go
  <2> QED
    BY <1>1, <2>2, BootstrapAssumption DEF Inductive, TypeOK, AgeTellsQuiet, Stale
<1>2. ASSUME UNCHANGED vars PROVE Spaced
  BY <1>2 DEF vars
<1>3. Inductive /\ [Next]_vars => [Spaced]_vars
  BY <1>1, <1>2
<1> QED
  BY <1>3, Invariance, PTL DEF Spec, FetchesAreSpaced

\* The registry in use is never replaced by an older one.
THEOREM EditionsMoveForward == Spec => EditionsNeverRegress
<1>1. Inductive /\ [Next]_vars => [services' >= services]_vars
  BY EditionsStep DEF Inductive
<1> QED
  BY <1>1, Invariance, PTL DEF Spec, EditionsNeverRegress
=============================================================================
