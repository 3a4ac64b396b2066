---------------------------- MODULE ServiceProofs ----------------------------
(***************************************************************************)
(* The engine as one system does what Engine and Lookup say of its parts,  *)
(* and what callers are told to be available, a registry or a WHOIS server *)
(* was heard to have no registration of.                                   *)
(***************************************************************************)
EXTENDS Service, EngineProofs

LP == INSTANCE LookupProofs WITH Lookups <- Callers \cup Readers, cancelled <- context

-----------------------------------------------------------------------------
(* The lookups of Service are those of LookupProofs. *)

LEMMA SameInit == L!Init => LP!Init
BY DEF L!Init, LP!Init, L!Tasks, LP!Tasks, L!NoVerdict, LP!NoVerdict

LEMMA SameStep == \A l, t : L!Step(l, t) => LP!Step(l, t)
<1>. USE DEF L!Move, LP!Move, L!MoveOn, LP!MoveOn, L!With, LP!With,
            L!Append1, LP!Append1, L!RunFails, LP!RunFails, L!Found, LP!Found,
            L!QueryFailed, LP!QueryFailed
<1>1. \A l, t : L!Supported(l, t) => LP!Supported(l, t)
  BY DEF L!Supported, LP!Supported
<1>2. \A l, t : L!Unsupported(l, t) => LP!Unsupported(l, t)
  BY DEF L!Unsupported, LP!Unsupported
<1>3. \A l, t : L!Discover(l, t) => LP!Discover(l, t)
  BY DEF L!Discover, LP!Discover
<1>4. \A l, t : L!Discovered(l, t) => LP!Discovered(l, t)
  BY DEF L!Discovered, LP!Discovered
<1>5. \A l, t : L!Acquire(l, t) => LP!Acquire(l, t)
  BY DEF L!Acquire, LP!Acquire
<1>6. \A l, t : L!GiveUp(l, t) => LP!GiveUp(l, t)
  BY DEF L!GiveUp, LP!GiveUp
<1>7. \A l, t, f : L!Reply(l, t, f) => LP!Reply(l, t, f)
  BY DEF L!Reply, LP!Reply, L!Conclusive, LP!Conclusive
<1>8. \A l, t : L!Fail(l, t) => LP!Fail(l, t)
  BY DEF L!Fail, LP!Fail
<1>9. \A p : L!Replies(p) = LP!Replies(p)
  BY DEF L!Replies, LP!Replies, L!RdapReplies, LP!RdapReplies,
         L!WhoisReplies, LP!WhoisReplies, L!DnsReplies, LP!DnsReplies
<1>. QED
  BY <1>1, <1>2, <1>3, <1>4, <1>5, <1>6, <1>7, <1>8, <1>9 DEF L!Step, LP!Step

LEMMA SameRest ==
    ASSUME NEW l
    PROVE  /\ \A dead : L!Start(l, dead) => LP!Start(l, dead)
           /\ L!Finish(l) => LP!Finish(l)
           /\ L!Take(l) => LP!Take(l)
           /\ L!Cancel(l) => LP!Cancel(l)
<1>. USE DEF L!Tasks, LP!Tasks, L!NoVerdict, LP!NoVerdict
<1>1. \A dead : L!Start(l, dead) => LP!Start(l, dead)
  BY DEF L!Start, LP!Start
<1>2. \A rs : L!Resolve(rs) = LP!Resolve(rs)
  BY DEF L!Resolve, L!ResolveWhois, L!ResolveRest, L!Delegated, L!Resolution,
         L!Evidence, L!StatusOf, L!HasStatus, L!Says, L!IsLast,
         LP!Resolve, LP!ResolveWhois, LP!ResolveRest, LP!Delegated,
         LP!Resolution, LP!Evidence, LP!StatusOf, LP!HasStatus, LP!Says, LP!IsLast
<1>3. L!Finish(l) => LP!Finish(l)
  BY <1>2 DEF L!Finish, LP!Finish
<1>4. L!Take(l) => LP!Take(l)
  BY DEF L!Take, LP!Take
<1>5. L!Cancel(l) => LP!Cancel(l)
  BY DEF L!Cancel, LP!Cancel
<1>. QED  BY <1>1, <1>3, <1>4, <1>5

LEMMA SameFinite == \A S : IsFiniteSet(S) => LP!IsFiniteSet(S)
BY DEF IsFiniteSet, LP!IsFiniteSet

LEMMA SameTasks == L!Tasks = LP!Tasks
BY DEF L!Tasks, LP!Tasks

-----------------------------------------------------------------------------
(* Service is made of Engine and Lookup *)

\* Every step of the service is a step of the lookups, or none of theirs.
LEMMA LookupStep == TypeOK /\ [ServiceNext]_all => [LP!Next]_(LP!vars)
<1>. SUFFICES ASSUME TypeOK, [ServiceNext]_all PROVE LP!Next \/ UNCHANGED lookups
  BY DEF LP!vars, lookups
<1>. DEFINE All == Callers \cup Readers
<1>1. ASSUME NEW l \in All, NEW t \in LP!Tasks, LP!Step(l, t) PROVE LP!Next
  BY <1>1 DEF LP!Next
<1>2. ASSUME NEW l \in All, NEW dead \in BOOLEAN, LP!Start(l, dead) PROVE LP!Next
  BY <1>2 DEF LP!Next
<1>3. ASSUME NEW l \in All, LP!Finish(l) \/ LP!Take(l) \/ LP!Cancel(l)
      PROVE  LP!Next
  BY <1>3 DEF LP!Next
<1>4. CASE EngineOnly
  BY <1>4 DEF EngineOnly
<1>5. ASSUME NEW l \in All, LookupOnly(l) PROVE LP!Next
  BY <1>1, <1>3, <1>5, SameStep, SameRest, SameTasks DEF LookupOnly
<1>6. ASSUME NEW c \in Callers, LeaderChecks(c) PROVE LP!Next
  <2>1. cancelled[c] \in BOOLEAN
    BY DEF TypeOK
  <2>. QED  BY <1>2, <1>6, <2>1, SameRest DEF LeaderChecks
<1>7. ASSUME NEW c \in Callers, LeaderHasChecked(c) PROVE LP!Next
  BY <1>3, <1>7, SameRest DEF LeaderHasChecked
<1>8. ASSUME NEW c \in Callers, GiveUp(c) PROVE LP!Next \/ UNCHANGED lookups
  BY <1>3, <1>8, SameRest DEF GiveUp
<1>9. ASSUME NEW r \in Readers, InfoChecks(r) PROVE LP!Next
  BY <1>2, <1>9, SameRest DEF InfoChecks
<1>10. ASSUME NEW r \in Readers, InfoReturns(r) \/ InfoGivesUp(r) PROVE LP!Next
  BY <1>3, <1>10, SameRest DEF InfoReturns, InfoGivesUp
<1>11. CASE UNCHANGED all
  BY <1>11 DEF all
<1>. QED
  BY <1>4, <1>5, <1>6, <1>7, <1>8, <1>9, <1>10, <1>11 DEF ServiceNext

\* What a leader takes from its lookup is an availability.
LEMMA TakenType ==
    ASSUME LP!Inductive, NEW c \in Callers, L!Take(c)
    PROVE  verdict[c].availability \in Availability
<1>1. phase[c] = "resolved"
  BY DEF L!Take
<1>2. verdict[c] = LP!Resolve(results[c]) /\ results[c] \in Seq(LP!Findings)
  BY <1>1 DEF LP!Inductive, LP!Phased, LP!TypeOK
<1>3. verdict[c] \in LP!Resolutions
  BY <1>2, ServiceAssumption, SameFinite, LP!ResolveType
<1>. QED  BY <1>3 DEF LP!Resolutions, LP!Availability, Availability

\* Every step of the service is a step of the engine, or none of its.
LEMMA EngineStep == LP!Inductive /\ [ServiceNext]_all => [Next]_vars
<1>. SUFFICES ASSUME LP!Inductive, [ServiceNext]_all PROVE Next \/ UNCHANGED vars
  OBVIOUS
<1>1. CASE EngineOnly
  BY <1>1 DEF EngineOnly, Next
<1>2. ASSUME NEW l \in Callers \cup Readers, LookupOnly(l) PROVE UNCHANGED vars
  BY <1>2 DEF LookupOnly
<1>3. ASSUME NEW c \in Callers, LeaderChecks(c) PROVE Next
  BY <1>3 DEF LeaderChecks, Next
<1>4. ASSUME NEW c \in Callers, LeaderHasChecked(c) PROVE Next
  BY <1>4, TakenType DEF LeaderHasChecked, Next
<1>5. ASSUME NEW c \in Callers, GiveUp(c) PROVE Next
  BY <1>5 DEF GiveUp, Next
<1>6. ASSUME NEW r \in Readers, \/ InfoChecks(r)
                                \/ InfoReturns(r)
                                \/ InfoGivesUp(r)
      PROVE  UNCHANGED vars
  BY <1>6 DEF InfoChecks, InfoReturns, InfoGivesUp
<1>7. CASE UNCHANGED all
  BY <1>7 DEF all
<1>. QED  BY <1>1, <1>2, <1>3, <1>4, <1>5, <1>6, <1>7 DEF ServiceNext

LEMMA PartsHold == ServiceSpec => [](Inductive /\ LP!Inductive)
<1>1. ServiceInit => Inductive /\ LP!Inductive
  BY SameInit, ServiceAssumption, SameFinite, LP!InitInductive, InductiveInit
     DEF ServiceInit
<1>2. /\ Inductive /\ LP!Inductive
      /\ [ServiceNext]_all
      => (Inductive /\ LP!Inductive)'
  <2>. SUFFICES ASSUME Inductive, LP!Inductive, [ServiceNext]_all
                PROVE  Inductive' /\ LP!Inductive'
    OBVIOUS
  <2>1. [Next]_vars /\ [LP!Next]_(LP!vars)
    BY EngineStep, LookupStep DEF Inductive
  <2>. QED
    BY <2>1, InductiveStep, ServiceAssumption, SameFinite, LP!InductiveStep
<1>. QED  BY <1>1, <1>2, PTL DEF ServiceSpec

\* The engine as one system behaves as Engine, so that all that is proved of
\* Engine holds of it.
THEOREM ServiceIsEngine == ServiceSpec => Spec
<1>1. ServiceInit => Init
  BY DEF ServiceInit
<1>. QED  BY <1>1, EngineStep, PartsHold, PTL DEF ServiceSpec, Spec

\* Its lookups, of Check and of Info, behave as those of Lookup do.
THEOREM ServiceRunsLookups == ServiceSpec => LP!Spec
<1>1. ServiceInit => LP!Init
  BY SameInit DEF ServiceInit
<1>2. Inductive => TypeOK
  BY DEF Inductive
<1>. QED  BY <1>1, <1>2, LookupStep, PartsHold, PTL DEF ServiceSpec, LP!Spec
\* With real lookups behind them, callers of Check are still served as
\* CheckService promises.
THEOREM ServiceKeepsPromise == ASSUME PositiveTTL PROVE ServiceSpec => ImplementsService
BY ServiceIsEngine, EngineImplementsService, PTL

-----------------------------------------------------------------------------
(* What callers are told to be available *)

\* A result is the same finding whoever it is addressed to.
LEMMA SaysOnlyAddressed ==
    ASSUME NEW r \in Results, NEW i \in Inputs, NEW raw \in BOOLEAN, NEW heard,
           SaysOnly(r, heard)
    PROVE  SaysOnly(Addressed(r, i, raw), heard)
<1>. DEFINE s == [r EXCEPT !.domain = i]
            t == [s EXCEPT !.raw = r.raw /\ raw]
<1>1. /\ s.name = r.name /\ s.availability = r.availability
      /\ s.checkedAt = r.checkedAt /\ s.raw = r.raw /\ s \in Results
  BY DEF Results
<1>2. Addressed(r, i, raw) = t
  BY <1>1 DEF Addressed, StripRaw
<1>. HIDE DEF s
<1>3. t.name = s.name /\ t.availability = s.availability /\ t.checkedAt = s.checkedAt
  BY <1>1 DEF Results
<1>. QED  BY <1>1, <1>2, <1>3 DEF SaysOnly

\* A leader that takes "available" from its lookup has heard so.
LEMMA LeaderHeard ==
    ASSUME LP!AvailableIsAuthoritative, NEW c \in Callers,
           verdict[c].availability = "available"
    PROVE  Heard(c)
<1>1. "not_registered" \in {results[c][i].registration :
           i \in {j \in DOMAIN results[c] : results[c][j].provider # "dns"}}
  BY DEF LP!AvailableIsAuthoritative
<1>. QED  BY <1>1 DEF Heard

\* A step that gives nobody anything new.
LEMMA NothingNew ==
    ASSUME Grounded, settled \subseteq settled',
           \A n \in Names : entries'[n] \in {entries[n], None},
           \A c \in Callers : stage'[c] \in {"checked", "stored"} =>
              stage[c] \in {"checked", "stored"} /\ outcome'[c] = outcome[c],
           \A c \in Callers : stage'[c] = "answered" =>
              stage[c] = "answered" /\ answer'[c] = answer[c]
    PROVE  Grounded'
BY DEF Grounded, SaysOnly

LEMMA AskGrounded ==
    ASSUME TypeOK, Grounded, settled' = settled, NEW c \in Callers, Ask(c)
    PROVE  Grounded'
<1>. USE EngineAssumption DEF TypeOK, cache, calls
<1>1. PICK i \in Inputs, raw \in Wishes :
         \/ AskInvalid(c, i, raw)
         \/ AskHit(c, i, raw)
         \/ AskMiss(c, i, raw)
  BY DEF Ask
<1>2. CASE AskInvalid(c, i, raw)
  <2>. DEFINE a == [name |-> None, domain |-> i, availability |-> "unknown",
                    checkedAt |-> now, aborted |-> FALSE, raw |-> FALSE]
  <2>1. SaysOnly(a, settled)
    BY DEF SaysOnly
  <2>. HIDE DEF a
  <2>2. answer' = [answer EXCEPT ![c] = a]
    BY <1>2 DEF AskInvalid, a
  <2>. QED  BY <1>2, <2>1, <2>2 DEF AskInvalid, Grounded
<1>3. CASE AskHit(c, i, raw)
  <2>. DEFINE n == NameOf[i]
              a == Addressed(entries[n].result, i, raw)
  <2>1. n \in Names /\ entries[n] # None /\ entries[n].result \in Results
    BY <1>3 DEF AskHit, Fresh, Entries
  <2>2. SaysOnly(a, settled)
    BY <2>1, SaysOnlyAddressed DEF Grounded
  <2>. HIDE DEF a
  <2>3. answer' = [answer EXCEPT ![c] = a]
    BY <1>3 DEF AskHit, a
  <2>. QED  BY <1>3, <2>2, <2>3 DEF AskHit, Grounded
<1>4. CASE AskMiss(c, i, raw)
  BY <1>4, NothingNew DEF AskMiss
<1>. QED  BY <1>1, <1>2, <1>3, <1>4

LEMMA StoreGrounded ==
    ASSUME TypeOK, Grounded, settled' = settled, NEW c \in Callers, Store(c), Labelled
    PROVE  Grounded'
<1>. DEFINE e == [result |-> outcome[c],
                  expiresAt |-> now + Lifetime(outcome[c].availability)]
<1>1. SaysOnly(e.result, settled)
  BY DEF Store, Grounded
<1>. HIDE DEF e
<1>2. \A n \in Names : entries'[n] \in {entries[n], e}
  BY DEF Store, TypeOK, e
<1>. QED  BY <1>1, <1>2 DEF Store, Grounded, TypeOK

LEMMA ReleaseGrounded ==
    ASSUME TypeOK, Grounded, settled' = settled, NEW c \in Callers, Release(c), Labelled
    PROVE  Grounded'
<1>1. outcome[c] \in Results /\ SaysOnly(outcome[c], settled)
  BY DEF Release, Grounded, Labelled
<1>2. \A d \in Callers : SaysOnly(Addressed(outcome[c], input[d], includeRaw[d]), settled)
  BY <1>1, SaysOnlyAddressed DEF TypeOK
<1>3. \A d \in Callers : stage'[d] = "answered" =>
         \/ stage[d] = "answered" /\ answer'[d] = answer[d]
         \/ answer'[d] = Addressed(outcome[c], input[d], includeRaw[d])
  BY DEF Release
<1>4. \A d \in Callers : stage'[d] \in {"checked", "stored"} =>
         stage[d] \in {"checked", "stored"} /\ outcome'[d] = outcome[d]
  BY DEF Release, TypeOK, Aboard
<1>5. entries' = entries
  BY DEF Release, cache
<1>. QED  BY <1>2, <1>3, <1>4, <1>5 DEF Grounded

LEMMA TakeGrounded ==
    ASSUME TypeOK, Grounded, LP!Inductive, LP!AvailableIsAuthoritative,
           NEW c \in Callers, LeaderHasChecked(c)
    PROVE  Grounded'
<1>. DEFINE a == verdict[c].availability
            o == [name |-> Name(c), domain |-> input[c], availability |-> a,
                  checkedAt |-> now, aborted |-> cancelled[c] /\ a = "unknown",
                  raw |-> TRUE]
<1>1. settled \subseteq settled'
  BY DEF LeaderHasChecked
<1>2. SaysOnly(o, settled')
  BY LeaderHeard DEF LeaderHasChecked, SaysOnly
<1>. HIDE DEF o
<1>3. outcome' = [outcome EXCEPT ![c] = o]
  BY DEF LeaderHasChecked, FinishCheck, o
<1>4. /\ entries' = entries /\ answer' = answer
      /\ stage' = [stage EXCEPT ![c] = "checked"]
  BY DEF LeaderHasChecked, FinishCheck, cache
<1>. QED  BY <1>1, <1>2, <1>3, <1>4 DEF Grounded, SaysOnly, TypeOK

LEMMA GroundedStep ==
    ASSUME Inductive, LP!Inductive, LP!AvailableIsAuthoritative, Grounded,
           [ServiceNext]_all
    PROVE  Grounded'
<1>. USE DEF Inductive
<1>1. CASE EngineOnly
  <2>1. ASSUME NEW c \in Callers, Follow(c) PROVE Grounded'
    BY <1>1, <2>1, NothingNew DEF EngineOnly, Follow, cache, TypeOK
  <2>2. CASE Tick
    BY <1>1, <2>2, NothingNew DEF EngineOnly, Tick, cache, calls
  <2>. QED
    BY <1>1, <2>1, <2>2, AskGrounded, StoreGrounded, ReleaseGrounded DEF EngineOnly
<1>2. ASSUME UNCHANGED <<vars, settled>> PROVE Grounded'
  BY <1>2, NothingNew DEF vars
<1>3. ASSUME NEW c \in Callers, LeaderChecks(c) PROVE Grounded'
  BY <1>3, NothingNew DEF LeaderChecks, Lead, cache, TypeOK
<1>4. ASSUME NEW c \in Callers, GiveUp(c) PROVE Grounded'
  BY <1>4, NothingNew DEF GiveUp, Cancel, cache
<1>5. ASSUME \/ \E l \in Callers \cup Readers : LookupOnly(l)
             \/ \E r \in Readers : InfoChecks(r) \/ InfoReturns(r) \/ InfoGivesUp(r)
             \/ UNCHANGED all
      PROVE  Grounded'
  BY <1>2, <1>5 DEF LookupOnly, InfoChecks, InfoReturns, InfoGivesUp, all
<1>. QED
  BY <1>1, <1>3, <1>4, <1>5, TakeGrounded DEF ServiceNext

\* "Available" is never made up, shared or cached into being: whoever is told
\* so, at the time the answer gives a registry or a WHOIS server was heard to
\* have no registration of that name.
THEOREM AvailableHasGrounds == ServiceSpec => []AvailableIsGrounded
<1>1. ServiceInit => Grounded
  BY DEF ServiceInit, Init, Grounded
<1>2. Grounded => AvailableIsGrounded
  BY DEF Grounded, SaysOnly, AvailableIsGrounded
<1>3. LP!Spec => []LP!AvailableIsAuthoritative
  BY ServiceAssumption, SameFinite, LP!AvailableIsAuthorized
<1>. QED
  BY <1>1, <1>2, <1>3, GroundedStep, PartsHold, ServiceRunsLookups, PTL DEF ServiceSpec
=============================================================================
