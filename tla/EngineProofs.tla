---------------------------- MODULE EngineProofs ----------------------------
(***************************************************************************)
(* The safety of Engine, for any callers, names, lifetimes and clock; and  *)
(* Engine implements CheckService: callers are told no more of the cache,  *)
(* of the flights and of the purges than CheckService lets on.             *)
(***************************************************************************)
EXTENDS Engine, TLAPS

\* Typing of the two helpers every answer goes through.
LEMMA AddressedType ==
    ASSUME NEW r \in Results, NEW i \in Inputs, NEW raw \in BOOLEAN
    PROVE  /\ Addressed(r, i, raw) \in Results
           /\ Addressed(r, i, raw).name = r.name
           /\ Addressed(r, i, raw).domain = i
           /\ Addressed(r, i, raw).checkedAt = r.checkedAt
           /\ Addressed(r, i, raw).raw <=> r.raw /\ raw
<1> DEFINE s == [r EXCEPT !.domain = i]
<1>1. /\ s \in Results /\ s.domain = i
      /\ s.name = r.name /\ s.checkedAt = r.checkedAt /\ s.raw = r.raw
  BY DEF Results
<1>2. r.raw \in BOOLEAN /\ (r.raw /\ raw) \in BOOLEAN
  BY DEF Results
<1>3. Addressed(r, i, raw) = [s EXCEPT !.raw = s.raw /\ raw]
  BY DEF Addressed, StripRaw
<1> HIDE DEF s
<1>4. DEFINE b == s.raw /\ raw
<1>5. b \in BOOLEAN
  BY <1>2
<1>6. Addressed(r, i, raw) = [s EXCEPT !.raw = b]
  BY <1>3
<1>7. b = (r.raw /\ raw)
  BY <1>1
<1> HIDE DEF b
<1>8. /\ [s EXCEPT !.raw = b] \in Results
      /\ [s EXCEPT !.raw = b].name = s.name
      /\ [s EXCEPT !.raw = b].domain = s.domain
      /\ [s EXCEPT !.raw = b].checkedAt = s.checkedAt
      /\ [s EXCEPT !.raw = b].raw = b
  BY <1>1, <1>5 DEF Results
<1> QED
  BY <1>1, <1>6, <1>7, <1>8

\* A result that has its payloads loses them only for a caller that does not
\* want them.
LEMMA AddressedFull ==
    ASSUME NEW r \in Results, r.raw, NEW i \in Inputs, NEW raw \in BOOLEAN
    PROVE  /\ Addressed(r, i, raw) \in Results
           /\ Addressed(r, i, raw).name = r.name
           /\ Addressed(r, i, raw).domain = i
           /\ Addressed(r, i, raw).checkedAt = r.checkedAt
           /\ Addressed(r, i, raw).raw <=> raw
  BY AddressedType

LEMMA LaterType ==
    ASSUME NEW s \in Time, NEW t \in Time
    PROVE  /\ Later(s, t) \in Time
           /\ s <= Later(s, t) /\ t <= Later(s, t)
           /\ Later(s, t) \in {s, t}
  BY EngineAssumption DEF Later, Time

-----------------------------------------------------------------------------
(* Types *)

LEMMA TypeStep ==
    ASSUME TypeOK, InFlight, Labelled, Next
    PROVE  TypeOK'
<1> USE EngineAssumption DEF TypeOK, cache, calls, Stages
<1>1. ASSUME NEW c \in Callers, NEW i \in Inputs, NEW raw \in Wishes,
             AskInvalid(c, i, raw)
      PROVE  TypeOK'
  <2>1. [name |-> None, domain |-> i, availability |-> "unknown",
         checkedAt |-> now, aborted |-> FALSE, raw |-> FALSE] \in Results
    BY DEF Results, Availability
  <2>2. 0 \in Time
    BY DEF Time
  <2> QED
    BY <1>1, <2>1, <2>2 DEF AskInvalid, Call
<1>2. ASSUME NEW c \in Callers, NEW i \in Inputs, NEW raw \in Wishes,
             AskHit(c, i, raw)
      PROVE  TypeOK'
  <2> DEFINE n == NameOf[i]
             found == entries[n].result
  <2>1. n \in Names /\ found \in Results
    BY <1>2 DEF AskHit, Fresh, Entries
  <2>2. found.checkedAt \in Time
    BY <2>1 DEF Results
  <2>3. Addressed(found, i, raw) \in Results
    BY <2>1, AddressedType
  <2>4. Later(told[n], found.checkedAt) \in Time
    BY <2>1, <2>2, LaterType
  <2> QED
    BY <1>2, <2>1, <2>3, <2>4 DEF AskHit, Call
<1>3. ASSUME NEW c \in Callers, NEW i \in Inputs, NEW raw \in Wishes,
             AskMiss(c, i, raw)
      PROVE  TypeOK'
  BY <1>3 DEF AskMiss, Call
<1>4. ASSUME NEW c \in Callers, Lead(c) PROVE TypeOK'
  BY <1>4 DEF Lead
<1>5. ASSUME NEW c \in Callers, Follow(c) PROVE TypeOK'
  <2>1. Name(c) \in Names
    BY <1>5 DEF Follow, InFlight, Free
  <2> QED
    BY <1>5, <2>1 DEF Follow
<1>6. ASSUME NEW c \in Callers, NEW a \in Availability, FinishCheck(c, a)
      PROVE  TypeOK'
  <2>1. (cancelled[c] /\ a = "unknown") \in BOOLEAN
    OBVIOUS
  <2>2. [name |-> Name(c), domain |-> input[c], availability |-> a,
         checkedAt |-> now, aborted |-> cancelled[c] /\ a = "unknown",
         raw |-> TRUE] \in Results
    BY <2>1 DEF Results, Name
  <2> QED
    BY <1>6, <2>2 DEF FinishCheck
<1>7. ASSUME NEW c \in Callers, Store(c) PROVE TypeOK'
  <2>1. outcome[c] \in Results
    BY <1>7 DEF Store, Labelled
  <2>2. now + Lifetime(outcome[c].availability) \in Int
    BY <2>1 DEF Lifetime, Results, Time
  <2>3. [result |-> outcome[c],
         expiresAt |-> now + Lifetime(outcome[c].availability)] \in Entries
    BY <2>1, <2>2 DEF Entries
  <2> QED
    BY <1>7, <2>3 DEF Store
<1>8. ASSUME NEW c \in Callers, Release(c) PROVE TypeOK'
  <2>1. outcome[c] \in Results
    BY <1>8 DEF Release, Labelled
  <2>2. \A d \in Callers : Addressed(outcome[c], input[d], includeRaw[d]) \in Results
    BY <2>1, AddressedType
  <2>3. outcome[c].checkedAt \in Time
    BY <2>1 DEF Results
  <2>4. \A t \in Time : Later(t, outcome[c].checkedAt) \in Time
    BY <2>3, LaterType
  <2> QED
    BY <1>8, <2>2, <2>4 DEF Release
<1>9. ASSUME NEW c \in Callers, Cancel(c) PROVE TypeOK'
  BY <1>9 DEF Cancel
<1>10. CASE PurgeRead
  BY <1>10 DEF PurgeRead
<1>11. CASE PurgeSweep
  BY <1>11 DEF PurgeSweep
<1>12. CASE Tick
  BY <1>12 DEF Tick, Time
<1> QED
  BY <1>1, <1>2, <1>3, <1>4, <1>5, <1>6, <1>7, <1>8, <1>9, <1>10, <1>11, <1>12
     DEF Next, Ask

-----------------------------------------------------------------------------
(* The group of flights *)

LEMMA InFlightStep ==
    ASSUME TypeOK, InFlight, Next
    PROVE  InFlight'
<1> USE EngineAssumption DEF TypeOK, InFlight, Free, Leads, Name, cache, calls
<1>1. ASSUME NEW c \in Callers, NEW i \in Inputs, NEW raw \in Wishes,
             \/ AskInvalid(c, i, raw)
             \/ AskHit(c, i, raw)
      PROVE  InFlight'
  <2>1. /\ UNCHANGED <<flights, leader>>
        /\ Free(c) /\ stage' = [stage EXCEPT ![c] = "answered"]
        /\ \A d \in Callers \ {c} : input'[d] = input[d]
    BY <1>1 DEF AskInvalid, AskHit, Call
  <2> QED
    BY <2>1
<1>2. ASSUME NEW c \in Callers, NEW i \in Inputs, NEW raw \in Wishes,
             AskMiss(c, i, raw)
      PROVE  InFlight'
  BY <1>2 DEF AskMiss, Call
<1>3. ASSUME NEW c \in Callers, Lead(c) PROVE InFlight'
  BY <1>3 DEF Lead
<1>4. ASSUME NEW c \in Callers, Follow(c) PROVE InFlight'
  BY <1>4 DEF Follow
<1>5. ASSUME NEW c \in Callers, NEW a \in Availability, FinishCheck(c, a)
      PROVE  InFlight'
  BY <1>5 DEF FinishCheck
<1>6. ASSUME NEW c \in Callers, Store(c) PROVE InFlight'
  BY <1>6 DEF Store
<1>7. ASSUME NEW c \in Callers, Release(c) PROVE InFlight'
  <2>1. c \in Aboard(c) /\ Aboard(c) \subseteq Callers
    BY DEF Aboard
  <2>2. Name(c) \in Names /\ flights[Name(c)] = c
    BY <1>7 DEF Release
  <2>3. ASSUME NEW d \in Callers, d \notin Aboard(c), ~Free(d)
        PROVE  Name(d) # Name(c) \/ stage[d] = "missed"
    BY <1>7, <2>2, <2>3 DEF Aboard, Release, Stages
  <2>4. \A d \in Callers : stage'[d] = IF d \in Aboard(c) THEN "answered"
                                                         ELSE stage[d]
    BY <1>7 DEF Release
  <2>5. \A d \in Callers : Name(d)' = Name(d)
    BY <1>7 DEF Release
  <2>6. \A n \in Names : flights'[n] = IF n = Name(c) THEN None ELSE flights[n]
    BY <1>7, <2>2 DEF Release
  <2>7. \A d \in Callers : ~Free(d)' => d \notin Aboard(c) /\ ~Free(d)
    BY <2>4
  <2>8. \A d \in Callers : ~Free(d)' => Name(d)' \in Names
    BY <2>5, <2>7
  <2>9. ASSUME NEW d \in Callers, Leads(d)' PROVE flights'[Name(d)'] = d
    <3>1. d \notin Aboard(c) /\ Leads(d)
      BY <2>4, <2>9
    <3>2. Name(d) # Name(c) /\ Name(d) \in Names
      BY <2>3, <3>1
    <3> QED
      BY <2>5, <2>6, <3>1, <3>2
  <2>10. ASSUME NEW n \in Names, flights'[n] # None
         PROVE  /\ stage'[flights'[n]] \in {"checking", "checked", "stored"}
                /\ NameOf[input'[flights'[n]]] = n
    <3> DEFINE d == flights[n]
    <3>1. n # Name(c) /\ flights'[n] = d /\ d \in Callers
      BY <2>6, <2>10
    <3>2. Leads(d) /\ Name(d) = n
      BY <3>1
    <3>3. d \notin Aboard(c)
      BY <3>1, <3>2 DEF Aboard
    <3> QED
      BY <2>4, <2>5, <3>1, <3>2, <3>3
  <2>11. ASSUME NEW f \in Callers, stage'[f] = "waiting"
         PROVE  flights'[Name(f)'] # None /\ leader'[f] = flights'[Name(f)']
    <3>1. f \notin Aboard(c) /\ stage[f] = "waiting"
      BY <2>4, <2>11
    <3>2. Name(f) # Name(c) /\ Name(f) \in Names
      BY <2>3, <3>1
    <3>3. leader'[f] = leader[f]
      BY <1>7, <3>1 DEF Release
    <3> QED
      BY <2>5, <2>6, <3>1, <3>2, <3>3
  <2> QED
    BY <2>8, <2>9, <2>10, <2>11
<1>8. ASSUME NEW c \in Callers, Cancel(c) PROVE InFlight'
  BY <1>8 DEF Cancel
<1>9. CASE PurgeRead \/ PurgeSweep \/ Tick
  BY <1>9 DEF PurgeRead, PurgeSweep, Tick
<1> QED
  BY <1>1, <1>2, <1>3, <1>4, <1>5, <1>6, <1>7, <1>8, <1>9 DEF Next, Ask

-----------------------------------------------------------------------------
(* What results are about *)

\* Labelled after a step that leaves the entries alone is a matter of the
\* outcomes and the answers.
LEMMA LabelledFrame ==
    ASSUME Labelled, entries' = entries,
           \A d \in Callers : stage'[d] \in {"checked", "stored"} =>
              outcome'[d] \in Results /\ outcome'[d].name = Name(d)' /\ outcome'[d].raw,
           \A d \in Callers : stage'[d] = "answered" =>
              /\ answer'[d] \in Results
              /\ answer'[d].domain = input'[d]
              /\ answer'[d].name = Name(d)'
              /\ Name(d)' # None => (answer'[d].raw <=> includeRaw'[d])
    PROVE  Labelled'
BY DEF Labelled, AnswerEchoesCall

LEMMA LabelledStep ==
    ASSUME TypeOK, InFlight, Labelled, Next
    PROVE  Labelled'
<1> USE EngineAssumption DEF TypeOK, Labelled, AnswerEchoesCall, Free, Name,
                             cache, calls
<1>1. ASSUME NEW c \in Callers, NEW i \in Inputs, NEW raw \in Wishes,
             AskInvalid(c, i, raw)
      PROVE  Labelled'
  <2> DEFINE given == [name |-> None, domain |-> i, availability |-> "unknown",
                       checkedAt |-> now, aborted |-> FALSE, raw |-> FALSE]
  <2>1. given \in Results /\ given.name = NameOf[i] /\ given.domain = i
    BY <1>1 DEF AskInvalid, Results, Availability
  <2> HIDE DEF given
  <2>2. answer' = [answer EXCEPT ![c] = given]
    BY <1>1 DEF AskInvalid, given
  <2>3. \A d \in Callers : stage'[d] = "answered" =>
           /\ answer'[d] \in Results
           /\ answer'[d].domain = input'[d]
           /\ answer'[d].name = Name(d)'
           /\ Name(d)' # None => (answer'[d].raw <=> includeRaw'[d])
    <3>1. /\ answer'[c] \in Results /\ answer'[c].domain = input'[c]
          /\ answer'[c].name = Name(c)' /\ Name(c)' = None
      <4>1. input'[c] = i /\ NameOf[i] = None
        BY <1>1 DEF AskInvalid, Call
      <4>2. answer'[c] = given
        BY <2>2
      <4> QED
        BY <2>1, <4>1, <4>2
    <3>2. \A d \in Callers \ {c} :
             /\ stage'[d] = stage[d] /\ answer'[d] = answer[d]
             /\ input'[d] = input[d] /\ includeRaw'[d] = includeRaw[d]
      BY <1>1 DEF AskInvalid, Call
    <3> QED
      BY <3>1, <3>2
  <2>4. \A d \in Callers : stage'[d] \in {"checked", "stored"} =>
           d # c /\ stage[d] = stage'[d] /\ Name(d)' = Name(d)
    BY <1>1 DEF AskInvalid, Call
  <2>5. UNCHANGED <<entries, outcome>>
    BY <1>1 DEF AskInvalid
  <2>6. \A d \in Callers : stage'[d] \in {"checked", "stored"} =>
           outcome'[d] \in Results /\ outcome'[d].name = Name(d)' /\ outcome'[d].raw
    BY <2>4, <2>5
  <2> QED
    BY <2>3, <2>5, <2>6, LabelledFrame
<1>2. ASSUME NEW c \in Callers, NEW i \in Inputs, NEW raw \in Wishes,
             AskHit(c, i, raw)
      PROVE  Labelled'
  <2> DEFINE n == NameOf[i]
             found == entries[n].result
             given == Addressed(found, i, raw)
  <2>1. n \in Names /\ found \in Results /\ found.name = n /\ found.raw
    BY <1>2 DEF AskHit, Fresh, Entries, Results
  <2>2. raw \in BOOLEAN
    OBVIOUS
  <2>3. given \in Results /\ given.name = n /\ given.domain = i /\ (given.raw <=> raw)
    BY <2>1, <2>2, AddressedFull
  <2> HIDE DEF given
  <2>5. answer' = [answer EXCEPT ![c] = given]
    BY <1>2 DEF AskHit, given
  <2>6. \A d \in Callers : stage'[d] = "answered" =>
           /\ answer'[d] \in Results
           /\ answer'[d].domain = input'[d]
           /\ answer'[d].name = Name(d)'
           /\ Name(d)' # None => (answer'[d].raw <=> includeRaw'[d])
    BY <1>2, <2>1, <2>3, <2>5 DEF AskHit, Call
  <2>7. \A d \in Callers : stage'[d] \in {"checked", "stored"} =>
           d # c /\ stage[d] = stage'[d] /\ Name(d)' = Name(d)
    BY <1>2 DEF AskHit, Call
  <2>8. UNCHANGED <<entries, outcome>>
    BY <1>2 DEF AskHit
  <2>9. \A d \in Callers : stage'[d] \in {"checked", "stored"} =>
           outcome'[d] \in Results /\ outcome'[d].name = Name(d)' /\ outcome'[d].raw
    BY <2>7, <2>8
  <2> QED
    BY <2>6, <2>8, <2>9, LabelledFrame
<1>3. ASSUME NEW c \in Callers, NEW i \in Inputs, NEW raw \in Wishes,
             AskMiss(c, i, raw)
      PROVE  Labelled'
  BY <1>3 DEF AskMiss, Call
<1>4. ASSUME NEW c \in Callers, Lead(c) \/ Follow(c) PROVE Labelled'
  BY <1>4 DEF Lead, Follow
<1>5. ASSUME NEW c \in Callers, NEW a \in Availability, FinishCheck(c, a)
      PROVE  Labelled'
  <2> DEFINE found == [name |-> Name(c), domain |-> input[c],
                       availability |-> a, checkedAt |-> now,
                       aborted |-> cancelled[c] /\ a = "unknown", raw |-> TRUE]
  <2>1. (cancelled[c] /\ a = "unknown") \in BOOLEAN
    OBVIOUS
  <2>2. found \in Results /\ found.name = Name(c) /\ found.raw
    BY <2>1 DEF Results
  <2> HIDE DEF found
  <2>3. outcome' = [outcome EXCEPT ![c] = found]
    BY <1>5 DEF FinishCheck, found
  <2>4. \A d \in Callers : stage'[d] \in {"checked", "stored"} =>
           /\ outcome'[d] \in Results
           /\ outcome'[d].name = Name(d)
           /\ outcome'[d].raw
    <3>1. outcome'[c] = found
      BY <2>3
    <3>2. \A d \in Callers \ {c} : stage'[d] = stage[d] /\ outcome'[d] = outcome[d]
      BY <1>5, <2>3 DEF FinishCheck
    <3> QED
      BY <2>2, <3>1, <3>2
  <2>5. \A d \in Callers : stage'[d] = "answered" => stage[d] = "answered"
    BY <1>5 DEF FinishCheck
  <2>6. UNCHANGED <<entries, input, includeRaw, answer>>
    BY <1>5 DEF FinishCheck
  <2>7. \A d \in Callers : stage'[d] = "answered" =>
           /\ answer'[d] \in Results
           /\ answer'[d].domain = input'[d]
           /\ answer'[d].name = Name(d)'
           /\ Name(d)' # None => (answer'[d].raw <=> includeRaw'[d])
    BY <2>5, <2>6
  <2> QED
    BY <2>4, <2>6, <2>7, LabelledFrame
<1>6. ASSUME NEW c \in Callers, Store(c) PROVE Labelled'
  <2>1. Name(c) \in Names
    BY <1>6 DEF Store, InFlight
  <2> QED
    BY <1>6, <2>1 DEF Store
<1>7. ASSUME NEW c \in Callers, Release(c) PROVE Labelled'
  <2> DEFINE given(d) == Addressed(outcome[c], input[d], includeRaw[d])
  <2>1. /\ outcome[c] \in Results
        /\ outcome[c].name = Name(c) /\ outcome[c].raw
    BY <1>7 DEF Release, Results
  <2>2. \A d \in Aboard(c) : d \in Callers /\ Name(d) = Name(c)
    BY <1>7 DEF Aboard, Release, InFlight, Leads
  <2>3. \A d \in Aboard(c) :
           /\ given(d) \in Results
           /\ given(d).name = Name(d)
           /\ given(d).domain = input[d]
           /\ given(d).raw <=> includeRaw[d]
    BY <2>1, <2>2, AddressedFull
  <2>4. \A d \in Callers : d \in Aboard(c) => answer'[d] = given(d)
    BY <1>7 DEF Release
  <2>5. \A d \in Callers : d \notin Aboard(c) => answer'[d] = answer[d]
    BY <1>7 DEF Release
  <2>6. \A d \in Callers : stage'[d] = IF d \in Aboard(c) THEN "answered"
                                                         ELSE stage[d]
    BY <1>7 DEF Release
  <2>7. c \in Aboard(c) /\ \A d \in Callers \ {c} : outcome'[d] = outcome[d]
    BY <1>7 DEF Release, Aboard
  <2> HIDE DEF given
  <2> QED
    BY <1>7, <2>2, <2>3, <2>4, <2>5, <2>6, <2>7 DEF Release
<1>8. ASSUME NEW c \in Callers, Cancel(c) PROVE Labelled'
  BY <1>8 DEF Cancel
<1>9. CASE PurgeRead \/ PurgeSweep \/ Tick
  BY <1>9 DEF PurgeRead, PurgeSweep, Tick
<1> QED
  BY <1>1, <1>2, <1>3, <1>4, <1>5, <1>6, <1>7, <1>8, <1>9 DEF Next, Ask

-----------------------------------------------------------------------------
(* When results were found *)

\* The clock never goes back.
LEMMA Clock ==
    ASSUME TypeOK, Next
    PROVE  now \in Int /\ now' \in Int /\ now <= now'
  BY EngineAssumption
     DEF TypeOK, Time, Next, Ask, AskInvalid, AskHit, AskMiss, Lead, Follow,
         FinishCheck, Store, Release, Cancel, PurgeRead, PurgeSweep, Tick

LEMMA StampedStep ==
    ASSUME TypeOK, InFlight, Labelled, Stamped, Next
    PROVE  Stamped'
<1> USE EngineAssumption, Clock
    DEF TypeOK, Labelled, Stamped, Free, Leads, Name, cache, calls
<1>0. /\ \A n \in Names : entries[n] # None =>
              entries[n].result \in Results /\ entries[n].result.checkedAt \in Int
      /\ \A c \in Callers : stage[c] \in {"checked", "stored"} =>
              outcome[c].checkedAt \in Int
      /\ \A c \in Callers : ~Free(c) => Name(c) \in Names
      /\ purgeAt # None => purgeAt \in Int
  BY DEF Entries, Results, Time, InFlight
<1>1. ASSUME NEW c \in Callers, NEW i \in Inputs, NEW raw \in Wishes,
             \/ AskInvalid(c, i, raw)
             \/ AskHit(c, i, raw)
             \/ AskMiss(c, i, raw)
      PROVE  Stamped'
  BY <1>0, <1>1 DEF AskInvalid, AskHit, AskMiss, Call
<1>2. ASSUME NEW c \in Callers, Lead(c) \/ Follow(c) \/ Cancel(c)
      PROVE  Stamped'
  BY <1>0, <1>2 DEF Lead, Follow, Cancel
<1>3. ASSUME NEW c \in Callers, NEW a \in Availability, FinishCheck(c, a)
      PROVE  Stamped'
  BY <1>0, <1>3 DEF FinishCheck
<1>4. ASSUME NEW c \in Callers, Store(c) PROVE Stamped'
  <2>1. Name(c) \in Names
    BY <1>0, <1>4 DEF Store
  <2>2. \A d \in Callers : stage[d] = "checked" /\ Name(d) = Name(c) => d = c
    BY <1>4 DEF Store, InFlight
  <2> QED
    BY <1>0, <1>4, <2>1, <2>2 DEF Store
<1>5. ASSUME NEW c \in Callers, Release(c) PROVE Stamped'
  BY <1>0, <1>5 DEF Release, Aboard
<1>6. CASE PurgeRead \/ PurgeSweep \/ Tick
  BY <1>0, <1>6 DEF PurgeRead, PurgeSweep, Tick
<1> QED
  BY <1>1, <1>2, <1>3, <1>4, <1>5, <1>6 DEF Next, Ask

\* The order between what callers were told and what they can still be told.
\* Positive lifetimes are needed in one place: Store leaves the outcome of
\* the flight in the cache, so that no older entry outlives the flight.
LEMMA ToldStep ==
    ASSUME TypeOK, InFlight, Labelled, Stamped, PositiveTTL, Told, Next
    PROVE  Told'
<1> USE EngineAssumption, Clock
    DEF TypeOK, Labelled, Told, MonotoneReads, Free, Leads, Name, cache, calls
<1>0. /\ \A n \in Names : told[n] \in Int
      /\ \A c \in Callers : floor[c] \in Int
      /\ \A n \in Names : entries[n] # None =>
              entries[n].result \in Results /\ entries[n].result.checkedAt \in Int
      /\ \A c \in Callers : stage[c] \in {"checked", "stored"} =>
              outcome[c].checkedAt \in Int
      /\ \A c \in Callers : stage[c] = "answered" => answer[c].checkedAt \in Int
      /\ \A c \in Callers : ~Free(c) => Name(c) \in Names
  BY DEF Entries, Results, Time, InFlight
<1>1. ASSUME NEW c \in Callers, NEW i \in Inputs, NEW raw \in Wishes,
             AskInvalid(c, i, raw)
      PROVE  Told'
  BY <1>0, <1>1 DEF AskInvalid, Call
<1>2. ASSUME NEW c \in Callers, NEW i \in Inputs, NEW raw \in Wishes,
             AskHit(c, i, raw)
      PROVE  Told'
  <2> DEFINE n == NameOf[i]
             found == entries[n].result
             given == Addressed(found, i, raw)
  <2>1. n \in Names /\ found \in Results /\ found.checkedAt \in Int
    BY <1>0, <1>2 DEF AskHit, Fresh
  <2>2. given.checkedAt = found.checkedAt
    <3>1. raw \in BOOLEAN /\ i \in Inputs
      OBVIOUS
    <3> QED
      BY ONLY <2>1, <3>1, AddressedType
  <2>3. told[n] <= found.checkedAt
    BY <1>2, <2>1 DEF AskHit, Fresh
  <2>4. Later(told[n], found.checkedAt) = found.checkedAt
    BY ONLY <1>0, <2>1, <2>3 DEF Later
  <2>5. /\ found.checkedAt <= now
        /\ \A d \in Callers : stage[d] \in {"checked", "stored"} /\ Name(d) = n =>
              found.checkedAt <= outcome[d].checkedAt
    <3>1. entries[n] # None
      BY <1>2 DEF AskHit, Fresh
    <3>2. found.checkedAt <= now
      BY <2>1, <3>1 DEF Stamped
    <3>3. ASSUME NEW d \in Callers, stage[d] = "checked", Name(d) = n
          PROVE  found.checkedAt <= outcome[d].checkedAt
      BY <3>1, <3>3 DEF Stamped
    <3>4. ASSUME NEW d \in Callers, stage[d] = "stored", Name(d) = n
          PROVE  found.checkedAt <= outcome[d].checkedAt
      <4>1. found.checkedAt = outcome[d].checkedAt
        BY <3>1, <3>4
      <4> QED
        BY <1>0, <2>1, <4>1
    <3> QED
      BY <3>2, <3>3, <3>4
  <2>6. told' = [told EXCEPT ![n] = found.checkedAt]
    BY <1>2, <2>4 DEF AskHit
  <2>7. answer' = [answer EXCEPT ![c] = given]
    BY <1>2 DEF AskHit
  <2> HIDE DEF given
  <2> QED
    <3>1. \A m \in Names : told'[m] = IF m = n THEN found.checkedAt ELSE told[m]
      BY <2>1, <2>6
    <3>2. \A d \in Callers \ {c} :
             /\ stage'[d] = stage[d] /\ answer'[d] = answer[d]
             /\ Name(d)' = Name(d) /\ floor'[d] = floor[d]
      BY <1>2 DEF AskHit, Call
    <3>3. /\ stage'[c] = "answered" /\ Name(c)' = n
          /\ floor'[c] = told[n] /\ answer'[c] = given
      BY <1>2, <2>7 DEF AskHit, Call
    <3>4. UNCHANGED <<now, entries, outcome>>
      BY <1>2 DEF AskHit
    <3>5. \A m \in Names : told'[m] <= now'
      BY <2>5, <3>1, <3>4
    <3>6. \A m \in Names : entries'[m] # None =>
             told'[m] <= entries'[m].result.checkedAt
      BY <1>0, <3>1, <3>4
    <3>7. \A d \in Callers : stage'[d] \in {"checked", "stored"} =>
             told'[Name(d)'] <= outcome'[d].checkedAt
      BY <1>0, <2>5, <3>1, <3>2, <3>3, <3>4
    <3>8. \A d \in Callers : stage'[d] = "stored" /\ entries'[Name(d)'] # None =>
             entries'[Name(d)'].result.checkedAt = outcome'[d].checkedAt
      BY <3>2, <3>3, <3>4
    <3>9. \A d \in Callers : ~Free(d)' => floor'[d] <= told'[Name(d)']
      BY <1>0, <2>1, <2>3, <3>1, <3>2, <3>3
    <3>10. MonotoneReads'
      BY <1>0, <2>1, <2>2, <2>3, <3>2, <3>3
    <3> QED
      BY <3>5, <3>6, <3>7, <3>8, <3>9, <3>10
<1>3. ASSUME NEW c \in Callers, NEW i \in Inputs, NEW raw \in Wishes,
             AskMiss(c, i, raw)
      PROVE  Told'
  BY <1>0, <1>3 DEF AskMiss, Call
<1>4. ASSUME NEW c \in Callers, Lead(c) \/ Follow(c) \/ Cancel(c)
      PROVE  Told'
  BY <1>0, <1>4 DEF Lead, Follow, Cancel
<1>5. ASSUME NEW c \in Callers, NEW a \in Availability, FinishCheck(c, a)
      PROVE  Told'
  BY <1>0, <1>5 DEF FinishCheck
<1>6. ASSUME NEW c \in Callers, Store(c) PROVE Told'
  <2>1. Name(c) \in Names
    BY <1>0, <1>6 DEF Store
  <2>2. \A d \in Callers : Leads(d) /\ Name(d) = Name(c) => d = c
    BY <1>6 DEF Store, InFlight
  <2>3. Lifetime(outcome[c].availability) > 0
    BY <1>6 DEF Store, Lifetime, PositiveTTL, Results
  <2>4. \A n \in Names : entries'[n] = IF n = Name(c)
           THEN [result |-> outcome[c],
                 expiresAt |-> now + Lifetime(outcome[c].availability)]
           ELSE entries[n]
    BY <1>6, <2>1, <2>3 DEF Store
  <2> QED
    BY <1>0, <1>6, <2>1, <2>2, <2>4 DEF Store
<1>7. ASSUME NEW c \in Callers, Release(c) PROVE Told'
  <2> DEFINE given(d) == Addressed(outcome[c], input[d], includeRaw[d])
             n == Name(c)
  <2>1. outcome[c] \in Results /\ n \in Names
    BY <1>0, <1>7 DEF Release
  <2>2. \A d \in Callers : given(d).checkedAt = outcome[c].checkedAt
    BY <2>1, AddressedType
  <2>3. Later(told[n], outcome[c].checkedAt) = outcome[c].checkedAt
    <3>1. /\ told[n] \in Int /\ outcome[c].checkedAt \in Int
          /\ told[n] <= outcome[c].checkedAt
      BY <1>0, <1>7, <2>1 DEF Release
    <3> QED
      BY ONLY <3>1 DEF Later
  <2>4. told' = [told EXCEPT ![n] = outcome[c].checkedAt]
    BY <1>7, <2>3 DEF Release
  <2>5. \A d \in Aboard(c) : d \in Callers /\ Name(d) = n /\ ~Free(d)
    BY <1>7 DEF Aboard, Release, InFlight
  <2>6. \A d \in Callers :
           /\ d \in Aboard(c) => answer'[d] = given(d)
           /\ d \notin Aboard(c) => answer'[d] = answer[d]
    BY <1>7 DEF Release
  <2>7. \A d \in Callers : stage'[d] = IF d \in Aboard(c) THEN "answered"
                                                         ELSE stage[d]
    BY <1>7 DEF Release
  <2>8. \A d \in Callers : Leads(d) /\ Name(d) = n => d = c
    BY <1>7 DEF Release, InFlight
  <2>9. c \in Aboard(c) /\ \A d \in Callers \ {c} : outcome'[d] = outcome[d]
    BY <1>7 DEF Release, Aboard
  <2>10. ASSUME NEW d \in Callers, d \in Aboard(c)
         PROVE  answer'[d].checkedAt = outcome[c].checkedAt
    BY <2>2, <2>6, <2>10
  <2> HIDE DEF given
  <2> QED
    <3> DEFINE t == outcome[c].checkedAt
    <3>1. \A m \in Names : told'[m] = IF m = n THEN t ELSE told[m]
      BY <2>1, <2>4
    <3>2. UNCHANGED <<now, entries, input, floor>>
      BY <1>7 DEF Release
    <3>3. t \in Int /\ t <= now /\ told[n] <= t
      BY <1>0, <1>7, <2>1 DEF Release, Stamped
    <3>4. entries[n] # None => entries[n].result.checkedAt = t
      BY <1>7 DEF Release
    <3>5. \A d \in Callers : Leads(d)' =>
             d # c /\ Leads(d) /\ stage'[d] = stage[d] /\ Name(d) # n
      BY <2>7, <2>8, <2>9
    <3>6. \A m \in Names : told'[m] <= now'
      BY <3>1, <3>2, <3>3
    <3>7. \A m \in Names : entries'[m] # None =>
             told'[m] <= entries'[m].result.checkedAt
      BY <3>1, <3>2, <3>3, <3>4
    <3>8. \A d \in Callers : stage'[d] \in {"checked", "stored"} =>
             told'[Name(d)'] <= outcome'[d].checkedAt
      BY <1>0, <2>9, <3>1, <3>2, <3>5
    <3>9. \A d \in Callers : stage'[d] = "stored" /\ entries'[Name(d)'] # None =>
             entries'[Name(d)'].result.checkedAt = outcome'[d].checkedAt
      BY <2>9, <3>2, <3>5
    <3>10. \A d \in Callers : ~Free(d)' => floor'[d] <= told'[Name(d)']
      BY <1>0, <2>7, <3>1, <3>2, <3>3
    <3>11. MonotoneReads'
      <4>1. ASSUME NEW d \in Callers, d \in Aboard(c)
            PROVE  floor[d] <= t /\ answer'[d].checkedAt = t
        <5>1. d \in Callers /\ floor[d] <= told[n]
          BY <2>5, <4>1
        <5>2. answer'[d].checkedAt = t
          BY <2>10, <4>1, <5>1
        <5> QED
          BY <1>0, <2>1, <3>3, <5>1, <5>2
      <4>2. ASSUME NEW d \in Callers, d \notin Aboard(c)
            PROVE  stage'[d] = stage[d] /\ answer'[d] = answer[d]
        BY <2>6, <2>7, <4>2
      <4> QED
        BY <1>0, <3>2, <3>3, <4>1, <4>2
    <3> QED
      BY <3>6, <3>7, <3>8, <3>9, <3>10, <3>11
<1>8. CASE PurgeRead \/ PurgeSweep \/ Tick
  BY <1>0, <1>8 DEF PurgeRead, PurgeSweep, Tick
<1> QED
  BY <1>1, <1>2, <1>3, <1>4, <1>5, <1>6, <1>7, <1>8 DEF Next, Ask

-----------------------------------------------------------------------------
(* Theorems *)

LEMMA InductiveInit == Init => Inductive
<1> SUFFICES ASSUME Init PROVE Inductive
  OBVIOUS
<1>1. TypeOK
  BY EngineAssumption DEF Init, TypeOK, Stages, Time
<1> QED
  BY <1>1, EngineAssumption
     DEF Init, Inductive, InFlight, Labelled, AnswerEchoesCall, Stamped, Told,
         MonotoneReads, Free, Leads, Name

LEMMA InductiveStutter == Inductive /\ UNCHANGED vars => Inductive'
  BY DEF Inductive, vars, TypeOK, InFlight, Labelled, AnswerEchoesCall, Stamped,
         Told, MonotoneReads, Free, Leads, Name, PositiveTTL

LEMMA InductiveStep == Inductive /\ [Next]_vars => Inductive'
<1> SUFFICES ASSUME Inductive, Next PROVE Inductive'
  BY InductiveStutter
<1>1. TypeOK' /\ InFlight' /\ Labelled' /\ Stamped'
  BY TypeStep, InFlightStep, LabelledStep, StampedStep DEF Inductive
<1>2. PositiveTTL => Told'
  BY ToldStep DEF Inductive
<1> QED
  BY <1>1, <1>2 DEF Inductive, PositiveTTL

\* The inductive invariant of cache, group and callers holds.
THEOREM Invariance == Spec => []Inductive
<1> QED
  BY InductiveInit, InductiveStep, PTL DEF Spec

\* Every variable of the engine keeps its type: no answer, entry or outcome
\* is ever anything but a result on a name.
THEOREM TypeCorrect == Spec => []TypeOK
<1>1. Inductive => TypeOK
  BY DEF Inductive
<1> QED
  BY <1>1, Invariance, PTL

\* singleflight as Check uses it: at most one lookup of a name at a time, and
\* it is the one the group knows of.
THEOREM OneLeader == Spec => []SingleLeader
<1>1. Inductive => SingleLeader
  BY DEF Inductive, InFlight, SingleLeader
<1> QED
  BY <1>1, Invariance, PTL

\* No caller is left waiting for a flight that is over.
THEOREM NoneStranded == Spec => []NobodyStranded
<1>1. Inductive => NobodyStranded
  BY DEF Inductive, TypeOK, InFlight, NobodyStranded, Free
<1> QED
  BY <1>1, Invariance, PTL

\* A caller gets a result on its own name and input, with the payloads if and
\* only if it asked for them, however the result was shared.
THEOREM AnswersEcho == Spec => []AnswerEchoesCall
<1>1. Inductive => AnswerEchoesCall
  BY DEF Inductive, Labelled
<1> QED
  BY <1>1, Invariance, PTL

\* With positive lifetimes no call is told something older than what a caller
\* had been told before it began.
THEOREM ReadsAreMonotone == ASSUME PositiveTTL PROVE Spec => []MonotoneReads
<1>1. Inductive => MonotoneReads
  BY DEF Inductive, Told
<1> QED
  BY <1>1, Invariance, PTL

\* An entry of the cache is only ever replaced by a newer finding.
THEOREM CacheMovesForward == Spec => CacheNeverRegresses
<1> DEFINE Forward == \A n \in Names :
              entries[n] # None /\ entries'[n] # None =>
                  entries'[n].result.checkedAt >= entries[n].result.checkedAt
<1>1. ASSUME Inductive, Next PROVE Forward
  <2> USE EngineAssumption DEF cache, calls
  <2>1. \A n \in Names : entries[n] # None => entries[n].result.checkedAt \in Int
    BY <1>1 DEF Inductive, TypeOK, Entries, Results, Time
  <2>2. CASE entries' = entries
    BY <2>1, <2>2
  <2>3. ASSUME NEW c \in Callers, NEW i \in Inputs, NEW raw \in Wishes,
               AskMiss(c, i, raw)
        PROVE  Forward
    BY <1>1, <2>1, <2>3 DEF AskMiss, Inductive, TypeOK
  <2>4. ASSUME NEW c \in Callers, Store(c) PROVE Forward
    <3>1. /\ Name(c) \in Names
          /\ entries[Name(c)] # None =>
                entries[Name(c)].result.checkedAt <= outcome[c].checkedAt
          /\ outcome[c].checkedAt \in Int
      BY <1>1, <2>4 DEF Store, Inductive, InFlight, Labelled, Stamped, Free,
                        Results, Time
    <3> QED
      BY <1>1, <2>1, <2>4, <3>1 DEF Store, Inductive, TypeOK
  <2>5. CASE PurgeSweep
    BY <1>1, <2>1, <2>5 DEF PurgeSweep, Inductive, TypeOK
  <2> QED
    BY <1>1, <2>2, <2>3, <2>4, <2>5
       DEF Next, Ask, AskInvalid, AskHit, Lead, Follow, FinishCheck, Release,
           Cancel, PurgeRead, Tick
<1>2. ASSUME Inductive, UNCHANGED vars PROVE Forward
  BY <1>2 DEF vars, Inductive, TypeOK, Entries, Results, Time
<1>3. Inductive /\ [Next]_vars => [Forward]_vars
  BY <1>1, <1>2
<1> QED
  BY <1>3, Invariance, PTL DEF Spec, CacheNeverRegresses

\* Neither Get nor a purge drops an entry that is still fresh.
THEOREM FreshStay == Spec => OnlyExpiredLeave
<1> DEFINE Stay == \A n \in Names : Fresh(n) => entries'[n] # None
<1>1. ASSUME Inductive, Next PROVE Stay
  <2> USE EngineAssumption DEF Fresh, Expired, cache, calls
  <2>1. CASE entries' = entries
    BY <2>1
  <2>2. ASSUME NEW c \in Callers, NEW i \in Inputs, NEW raw \in Wishes,
               AskMiss(c, i, raw)
        PROVE  Stay
    BY <1>1, <2>2 DEF AskMiss, Inductive, TypeOK
  <2>3. ASSUME NEW c \in Callers, Store(c) PROVE Stay
    <3>1. [result |-> outcome[c],
           expiresAt |-> now + Lifetime(outcome[c].availability)] \in Entries
      <4>1. outcome[c] \in Results
        BY <1>1, <2>3 DEF Store, Inductive, Labelled
      <4>2. now + Lifetime(outcome[c].availability) \in Int
        BY <1>1, <4>1 DEF Inductive, TypeOK, Lifetime, Results, Time
      <4> QED
        BY <4>1, <4>2 DEF Entries
    <3> QED
      BY <1>1, <2>3, <3>1, NoneAssumption DEF Store, Inductive, TypeOK
  <2>4. CASE PurgeSweep
    <3>1. purgeAt \in Int /\ now \in Int /\ purgeAt <= now
      BY <1>1, <2>4 DEF PurgeSweep, Inductive, TypeOK, Stamped, Time
    <3>2. \A n \in Names : entries[n] # None => entries[n].expiresAt \in Int
      BY <1>1 DEF Inductive, TypeOK, Entries
    <3> QED
      BY <2>4, <3>1, <3>2 DEF PurgeSweep
  <2> QED
    BY <1>1, <2>1, <2>2, <2>3, <2>4
       DEF Next, Ask, AskInvalid, AskHit, Lead, Follow, FinishCheck, Release,
           Cancel, PurgeRead, Tick
<1>2. ASSUME Inductive, UNCHANGED vars PROVE Stay
  BY <1>2 DEF vars, Fresh
<1>3. Inductive /\ [Next]_vars => [Stay]_vars
  BY <1>1, <1>2
<1> QED
  BY <1>3, Invariance, PTL DEF Spec, OnlyExpiredLeave

-----------------------------------------------------------------------------
(* Engine implements CheckService. *)

\* A call is open as long as its caller is not free.
Open == [c \in Callers |-> ~Free(c)]

-----------------------------------------------------------------------------
(* How the two record what callers are told *)

\* An addressed result, field by field.
LEMMA AddressedFields ==
    ASSUME NEW r \in Results, r.raw, NEW i \in Inputs, NEW raw \in BOOLEAN
    PROVE  Addressed(r, i, raw) =
              [name |-> r.name, domain |-> i, availability |-> r.availability,
               checkedAt |-> r.checkedAt, aborted |-> r.aborted, raw |-> raw]
<1>. DEFINE s == [r EXCEPT !.domain = i]
<1>1. /\ s \in Results /\ s.domain = i /\ s.raw = r.raw
      /\ s.name = r.name /\ s.availability = r.availability
      /\ s.checkedAt = r.checkedAt /\ s.aborted = r.aborted
  BY DEF Results
<1>2. Addressed(r, i, raw) = [s EXCEPT !.raw = s.raw /\ raw]
  BY DEF Addressed, StripRaw
<1>3. (s.raw /\ raw) = raw
  BY <1>1
<1>4. Addressed(r, i, raw) = [s EXCEPT !.raw = raw]
  BY <1>2, <1>3
<1>. HIDE DEF s
<1>5. [s EXCEPT !.raw = raw] =
         [name |-> s.name, domain |-> s.domain, availability |-> s.availability,
          checkedAt |-> s.checkedAt, aborted |-> s.aborted, raw |-> raw]
  BY <1>1 DEF Results
<1>. QED  BY <1>1, <1>4, <1>5

LEMMA AnswersHold ==
    ASSUME NEW n, NEW i, NEW raw, NEW t,
           NEW availability \in Availability, NEW aborted \in BOOLEAN
    PROVE  [name |-> n, domain |-> i, availability |-> availability,
            checkedAt |-> t, aborted |-> aborted, raw |-> raw]
              \in Service!Answers(n, i, raw, t)
BY DEF Service!Answers, Service!Availability, Availability

LEMMA ToldIsNewer ==
    ASSUME NEW n \in Names, NEW t, told' = [told EXCEPT ![n] = Later(@, t)]
    PROVE  told' = Service!Newer(n, t)
BY DEF Service!Newer, Later

-----------------------------------------------------------------------------
(* The step of CheckService that each step of Engine is *)

LEMMA RequestMaps ==
    ASSUME NEW c \in Callers, NEW i \in Inputs, NEW raw \in Wishes, Call(c, i, raw)
    PROVE  Service!Request(c, i, raw)
BY DEF Call, Service!Request

LEMMA AskInvalidMaps ==
    ASSUME TypeOK, NEW c \in Callers, NEW i \in Inputs, NEW raw \in Wishes,
           AskInvalid(c, i, raw)
    PROVE  Service!Refuse(c, i, raw)
<1>1. Service!Request(c, i, raw)
  BY RequestMaps DEF AskInvalid
<1>2. Open' = Open
  BY DEF AskInvalid, Call, Free, Open, TypeOK
<1>. QED  BY <1>1, <1>2 DEF AskInvalid, Open, Service!Refuse

LEMMA AskHitMaps ==
    ASSUME Inductive, Told, NEW c \in Callers, NEW i \in Inputs, NEW raw \in Wishes,
           AskHit(c, i, raw)
    PROVE  Service!AnswerAtOnce(c, i, raw)
<1>. DEFINE n == NameOf[i]
            found == entries[n].result
            t == found.checkedAt
            given == Addressed(found, i, raw)
<1>1. Service!Request(c, i, raw)
  BY RequestMaps DEF AskHit
<1>2. Open' = Open
  BY DEF AskHit, Call, Free, Open, Inductive, TypeOK
<1>3. n \in Names /\ entries[n] # None /\ n # None
  BY EngineAssumption DEF AskHit, Fresh
<1>4. found \in Results /\ found.name = n /\ found.raw
  BY <1>3 DEF Inductive, TypeOK, Labelled, Entries
<1>5. told[n] <= t /\ t <= now
  BY <1>3 DEF Told, Inductive, Stamped
<1>6. t \in told[n] .. now
  BY <1>3, <1>4, <1>5 DEF Inductive, TypeOK, Results, Time
<1>7. given \in Service!Answers(n, i, raw, t)
  <2>1. raw \in BOOLEAN
    BY EngineAssumption
  <2>2. given = [name |-> n, domain |-> i, availability |-> found.availability,
                 checkedAt |-> t, aborted |-> found.aborted, raw |-> raw]
    BY <1>4, <2>1, AddressedFields
  <2>3. found.availability \in Availability /\ found.aborted \in BOOLEAN
    BY <1>4 DEF Results
  <2>. HIDE DEF given
  <2>. QED  BY <2>2, <2>3, AnswersHold
<1>8. told' = Service!Newer(n, t)
  BY <1>3, ToldIsNewer DEF AskHit
<1>9. /\ answer' = [answer EXCEPT ![c] = given]
      /\ floor' = [floor EXCEPT ![c] = told[n]]
      /\ now' = now
  BY DEF AskHit
<1>. HIDE DEF n, t, given
<1>10. \E s \in told[n] .. now :
          /\ \E a \in Service!Answers(n, i, raw, s) : answer' = [answer EXCEPT ![c] = a]
          /\ told' = Service!Newer(n, s)
  BY <1>6, <1>7, <1>8, <1>9
<1>. QED  BY <1>1, <1>2, <1>3, <1>9, <1>10 DEF n, Open, Service!AnswerAtOnce

LEMMA AskMissMaps ==
    ASSUME TypeOK, NEW c \in Callers, NEW i \in Inputs, NEW raw \in Wishes,
           AskMiss(c, i, raw)
    PROVE  Service!Open(c, i, raw)
<1>1. Service!Request(c, i, raw)
  BY RequestMaps DEF AskMiss
<1>2. Open' = [Open EXCEPT ![c] = TRUE]
  BY DEF AskMiss, Call, Free, Open, TypeOK
<1>. QED  BY <1>1, <1>2 DEF AskMiss, Open, Service!Open

LEMMA ReleaseMaps ==
    ASSUME Inductive, Told, NEW c \in Callers, Release(c)
    PROVE  \E S \in (SUBSET Callers) \ {{}}, n \in Names, t \in 0 .. now :
              Service!Answer(S, n, t)
<1>. DEFINE n == Name(c)
            t == outcome[c].checkedAt
            S == Aboard(c)
<1>1. /\ outcome[c] \in Results /\ outcome[c].name = n /\ outcome[c].raw
      /\ n \in Names
  BY DEF Release, Inductive, InFlight, Labelled, Free
<1>2. t \in 0 .. now
  BY <1>1 DEF Release, Inductive, TypeOK, Stamped, Results, Time
<1>3. c \in S /\ S \subseteq Callers
  BY DEF Aboard
<1>4. ASSUME NEW d \in S
      PROVE  d \in Callers /\ ~Free(d) /\ Name(d) = n /\ floor[d] <= t
  <2>1. d \in Callers /\ ~Free(d) /\ Name(d) = n
    BY <1>3, <1>4 DEF Aboard, Release, Inductive, InFlight, Leads, Free
  <2>2. floor[d] <= told[n] /\ told[n] <= t
    BY <2>1 DEF Told, Release
  <2>. QED
    BY <1>1, <1>2, <2>1, <2>2 DEF Inductive, TypeOK, Time
<1>5. Open' = [d \in Callers |-> Open[d] /\ d \notin S]
  <2>1. \A d \in Callers : Free(d)' <=> Free(d) \/ d \in S
    BY DEF Release, Free
  <2>. QED  BY <2>1 DEF Open
<1>6. answer' = [d \in Callers |->
         IF d \in S
         THEN [name |-> n, domain |-> input[d],
               availability |-> outcome[c].availability, checkedAt |-> t,
               aborted |-> outcome[c].aborted, raw |-> includeRaw[d]]
         ELSE answer[d]]
  <2>1. \A d \in Callers : Addressed(outcome[c], input[d], includeRaw[d]) =
           [name |-> n, domain |-> input[d],
            availability |-> outcome[c].availability, checkedAt |-> t,
            aborted |-> outcome[c].aborted, raw |-> includeRaw[d]]
    BY <1>1, AddressedFields DEF Inductive, TypeOK
  <2>. QED  BY <2>1 DEF Release
<1>7. outcome[c].availability \in Availability /\ outcome[c].aborted \in BOOLEAN
  BY <1>1 DEF Results
<1>8. told' = Service!Newer(n, t)
  BY <1>1, ToldIsNewer DEF Release
<1>9. UNCHANGED <<now, input, includeRaw, floor>>
  BY DEF Release
<1>10. \A d \in Callers : Service!Name(d) = Name(d)
  BY DEF Service!Name, Name
<1>. HIDE DEF n, t, S
<1>11. Service!Answer(S, n, t)
  <2>1. \A d \in S : Open[d] /\ Service!Name(d) = n /\ floor[d] <= t
    BY <1>4, <1>10 DEF Open
  <2>2. \E availability \in Availability, aborted \in BOOLEAN :
           answer' = [d \in Callers |->
              IF d \in S
              THEN [name |-> n, domain |-> input[d],
                    availability |-> availability, checkedAt |-> t,
                    aborted |-> aborted, raw |-> includeRaw[d]]
              ELSE answer[d]]
    BY <1>6, <1>7
  <2>. QED
    BY <1>5, <1>8, <1>9, <2>1, <2>2 DEF Open, Availability, Service!Answer, Service!Availability
<1>. QED  BY <1>1, <1>2, <1>3, <1>11 DEF n

-----------------------------------------------------------------------------
(* The refinement *)

\* What moves neither a call to or from the hands of its caller nor anything
\* its caller can see is no step of CheckService.
LEMMA HiddenSteps ==
    ASSUME \A c \in Callers : Free(c)' <=> Free(c),
           UNCHANGED <<now, input, includeRaw, answer, told, floor>>
    PROVE  UNCHANGED Service!vars
BY DEF Service!vars

LEMMA NextMaps ==
    ASSUME Inductive, Told, Next
    PROVE  Service!Next \/ UNCHANGED Service!vars
<1>. USE DEF cache, calls
<1>1. ASSUME NEW c \in Callers, Ask(c)
      PROVE  Service!Next
  BY <1>1, AskInvalidMaps, AskHitMaps, AskMissMaps DEF Ask, Inductive, Service!Next
<1>2. ASSUME NEW c \in Callers,
             \/ Lead(c) \/ Follow(c) \/ Store(c)
             \/ \E availability \in Availability : FinishCheck(c, availability)
      PROVE  UNCHANGED Service!vars
  <2>1. /\ ~Free(c)
        /\ \E s \in Stages \ {"idle", "answered"} : stage' = [stage EXCEPT ![c] = s]
        /\ UNCHANGED <<now, input, includeRaw, answer, told, floor>>
    BY <1>2 DEF Lead, Follow, Store, FinishCheck, Free, Stages
  <2>2. \A d \in Callers : Free(d)' <=> Free(d)
    BY <2>1 DEF Free, Inductive, TypeOK
  <2>. QED  BY <2>1, <2>2, HiddenSteps
<1>3. ASSUME NEW c \in Callers, Release(c)
      PROVE  Service!Next
  BY <1>3, ReleaseMaps DEF Service!Next
<1>4. ASSUME \/ \E c \in Callers : Cancel(c)
             \/ PurgeRead
             \/ PurgeSweep
      PROVE  UNCHANGED Service!vars
  <2>1. UNCHANGED <<now, stage, input, includeRaw, answer, told, floor>>
    BY <1>4 DEF Cancel, PurgeRead, PurgeSweep
  <2>2. \A d \in Callers : Free(d)' <=> Free(d)
    BY <2>1 DEF Free
  <2>. QED  BY <2>1, <2>2, HiddenSteps
<1>5. CASE Tick
  <2>1. now' \in 0 .. MaxTime /\ now < now'
    BY <1>5, EngineAssumption DEF Tick, Inductive, TypeOK, Time
  <2>2. \A d \in Callers : Free(d)' <=> Free(d)
    BY <1>5 DEF Tick, Free
  <2>3. Service!Tick
    BY <1>5, <2>1, <2>2 DEF Tick, Service!Tick, Service!Time
  <2>. QED  BY <2>3 DEF Service!Next
<1>. QED  BY <1>1, <1>2, <1>3, <1>4, <1>5 DEF Next

\* With positive lifetimes, Check answers its callers as CheckService promises.
THEOREM EngineImplementsService ==
    ASSUME PositiveTTL
    PROVE  Spec => ImplementsService
<1>1. Init => Service!Init
  <2>. SUFFICES ASSUME Init PROVE Service!Init
    OBVIOUS
  <2>1. \A c \in Callers : Free(c)
    BY DEF Init, Free
  <2>. QED  BY <2>1 DEF Init, Service!Init
<1>2. Inductive /\ [Next]_vars => [Service!Next]_(Service!vars)
  <2>. SUFFICES ASSUME Inductive, [Next]_vars
                PROVE  Service!Next \/ UNCHANGED Service!vars
    OBVIOUS
  <2>1. Told
    BY DEF Inductive
  <2>2. CASE UNCHANGED vars
    BY <2>2, HiddenSteps DEF vars, Free
  <2>. QED  BY <2>1, <2>2, NextMaps
<1>. QED  BY <1>1, <1>2, Invariance, PTL DEF Spec, ImplementsService, Service!Spec
=============================================================================
