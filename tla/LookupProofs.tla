---------------------------- MODULE LookupProofs ----------------------------
(***************************************************************************)
(* The safety of Lookup, for any number of lookups and slots and any chain *)
(* of primary providers.                                                   *)
(***************************************************************************)
EXTENDS Lookup, FiniteSetTheorems, TLAPS

-----------------------------------------------------------------------------
(* What providers report *)

LEMMA DnsRepliesType ==
    ASSUME NEW f \in DnsReplies
    PROVE  /\ f \in Findings
           /\ f.provider = "dns"
           /\ f.registration \in {"registered", "unknown"}
           /\ ~f.info
<1>1. f \in Findings
  BY DEF Findings
<1>. QED  BY <1>1 DEF DnsReplies, Found

\* The findings the chain can record of a provider.
OfChain(p) == Replies(p) \cup {QueryFailed(p)}

\* What the engine relies on in them: registration data come with a
\* registration and with nothing else.
Sound(f, p) ==
    /\ f.provider = p
    /\ f.registration \in RegistrationStatus
    /\ f.status \in Status
    /\ f.info <=> f.registration = "registered"

LEMMA RegistrationIsSound ==
    \A p, tags, source : \A status \in Status :
        Sound(Found(p, "registered", status, tags, source, TRUE), p)
BY DEF Found, Sound, RegistrationStatus

LEMMA OthersAreSound ==
    ASSUME NEW p, NEW tags, NEW source, NEW status \in Status,
           NEW registration \in {"not_registered", "unknown"}
    PROVE  Sound(Found(p, registration, status, tags, source, FALSE), p)
<1>1. registration \in RegistrationStatus /\ registration # "registered"
  BY DEF RegistrationStatus
<1>. QED  BY <1>1 DEF Sound, Found

LEMMA ChainRepliesType ==
    ASSUME NEW p \in {"rdap", "whois"}, NEW f \in OfChain(p)
    PROVE  f \in Findings /\ Sound(f, p)
<1>1. f \in Findings
  BY DEF OfChain, Replies, Findings
<1>2. {"available", "registered", "reserved", "blocked", "redemption",
       "pending_delete", "unknown", "rate_limited"} \subseteq Status
  BY DEF Status
<1>3. ASSUME f \in RdapReplies PROVE Sound(f, "rdap")
  <2>1. \/ \E tags, source : \E status \in Status :
              f = Found("rdap", "registered", status, tags, source, TRUE)
        \/ f = Found("rdap", "not_registered", "available", {"rdap:no_registration"},
                     "endpoint", FALSE)
        \/ f = Found("rdap", "unknown", "rate_limited", {"rdap:rate_limited"}, "", FALSE)
    BY <1>2, <1>3 DEF RdapReplies
  <2>2. CASE \E tags, source : \E status \in Status :
                f = Found("rdap", "registered", status, tags, source, TRUE)
    BY <2>2, RegistrationIsSound
  <2>. QED  BY <1>2, <2>1, <2>2, OthersAreSound
<1>4. ASSUME f \in WhoisReplies PROVE Sound(f, "whois")
  <2>1. \/ \E tags, source : \E status \in Status :
              f = Found("whois", "registered", status, tags, source, TRUE)
        \/ \E tags, source : \E status \in Status, registration \in {"not_registered", "unknown"} :
              f = Found("whois", registration, status, tags, source, FALSE)
    BY <1>2, <1>4 DEF WhoisReplies
  <2>2. CASE \E tags, source : \E status \in Status :
                f = Found("whois", "registered", status, tags, source, TRUE)
    BY <2>2, RegistrationIsSound
  <2>. QED  BY <2>1, <2>2, OthersAreSound
<1>5. ASSUME f = QueryFailed(p) PROVE Sound(f, p)
  BY <1>2, <1>5, OthersAreSound DEF QueryFailed
<1>. QED  BY <1>1, <1>3, <1>4, <1>5 DEF OfChain, Replies

\* Any finding that resolve sees has a status of the vocabulary.
LEMMA FindingsStatus ==
    ASSUME NEW f \in Findings
    PROVE  f.status \in Status
<1>1. CASE f \in DnsReplies
  BY <1>1 DEF DnsReplies, Found, Status
<1>2. CASE f \in OfChain("rdap") \/ f \in OfChain("whois")
  BY <1>2, ChainRepliesType DEF Sound
<1>. QED  BY <1>1, <1>2 DEF Findings, OfChain, Replies

LEMMA ChainOfProviders ==
    ASSUME NEW k \in DOMAIN Primary
    PROVE  Primary[k] \in {"rdap", "whois"}
BY LookupAssumption

-----------------------------------------------------------------------------
(* What a step of a task does *)

\* The findings a task can append.
Reports(l, t) == IF t = "chain" THEN OfChain(Primary[link[l]]) ELSE DnsReplies

\* Task t of lookup l moves: it is over, or goes on with its provider, or with
\* the next one; and if it appends a finding it is done with its provider, and
\* over if that was conclusive.
Moves(l, t) ==
    /\ at[l][t] \notin {"off", "over"}
    /\ UNCHANGED <<phase, verdict>>
    /\ cancelled' = cancelled
    /\ \E stage \in Stages \ {"off"} :
          /\ at' = [at EXCEPT ![l][t] = stage]
          /\ \/ link' = link
             \/ /\ t = "chain"
                /\ stage = "asking"
                /\ link[l] + 1 \in DOMAIN Primary
                /\ link' = [link EXCEPT ![l] = @ + 1]
          /\ \/ results' = results
             \/ \E f \in Reports(l, t) :
                   /\ results' = [results EXCEPT ![l] = Append(@, f)]
                   /\ stage = "over" \/ link' # link
                   /\ Conclusive(f) => stage = "over"

LEMMA TasksAre == Tasks \subseteq {"dns", "chain"} /\ "chain" \in Tasks
BY LookupAssumption DEF Tasks

LEMMA MoveOnMoves ==
    ASSUME TypeOK, NEW l \in Lookups, NEW t \in Tasks, MoveOn(l, t)
    PROVE  \/ /\ at' = [at EXCEPT ![l][t] = "over"]
              /\ link' = link
           \/ /\ t = "chain"
              /\ at' = [at EXCEPT ![l][t] = "asking"]
              /\ link[l] + 1 \in DOMAIN Primary
              /\ link' = [link EXCEPT ![l] = @ + 1]
              /\ link' # link
<1>1. /\ Len(Primary) \in Nat /\ DOMAIN Primary = 1 .. Len(Primary)
      /\ link[l] \in 1 .. Len(Primary)
      /\ l \in DOMAIN link
  BY LookupAssumption DEF TypeOK
<1>2. CASE t = "chain" /\ link[l] < Len(Primary)
  <2>1. link' = [link EXCEPT ![l] = @ + 1] /\ at' = [at EXCEPT ![l][t] = "asking"]
    BY <1>2 DEF MoveOn, Move
  <2>2. link'[l] = link[l] + 1 /\ link[l] + 1 \in DOMAIN Primary
    BY <1>1, <1>2, <2>1
  <2>3. link' # link
    BY <1>1, <2>2
  <2>. QED  BY <1>2, <2>1, <2>2, <2>3
<1>3. CASE ~(t = "chain" /\ link[l] < Len(Primary))
  BY <1>3 DEF MoveOn, Move
<1>. QED  BY <1>2, <1>3

LEMMA StepMoves ==
    ASSUME TypeOK, NEW l \in Lookups, NEW t \in Tasks, Step(l, t)
    PROVE  Moves(l, t)
<1>. USE DEF Stages
<1>1. CASE Supported(l, t) \/ Discover(l, t) \/ Acquire(l, t)
  BY <1>1 DEF Supported, Discover, Acquire, Move, Moves
<1>2. CASE Unsupported(l, t)
  BY <1>2, MoveOnMoves DEF Unsupported, Moves
<1>3. CASE Discovered(l, t)
  BY <1>3, MoveOnMoves DEF Discovered, Move, Moves
<1>4. CASE GiveUp(l, t) \/ Fail(l, t)
  <2>1. QueryFailed(With(l, t)) \in Reports(l, t) \/ t # "chain"
    BY DEF Reports, OfChain, With
  <2>2. ~Conclusive(QueryFailed(With(l, t)))
    BY DEF Conclusive, QueryFailed, Found
  <2>. QED
    BY <1>4, <2>1, <2>2, MoveOnMoves DEF GiveUp, Fail, RunFails, Append1, Moves
<1>5. ASSUME NEW f \in Replies(With(l, t)), Reply(l, t, f)
      PROVE  Moves(l, t)
  <2>1. f \in Reports(l, t)
    BY TasksAre DEF Reports, OfChain, With, Replies
  <2>. QED  BY <1>5, <2>1, MoveOnMoves DEF Reply, Append1, Move, Moves
<1>. QED  BY <1>1, <1>2, <1>3, <1>4, <1>5 DEF Step

-----------------------------------------------------------------------------
(* Types *)

LEMMA ReportsType ==
    ASSUME TypeOK, NEW l \in Lookups, NEW t \in Tasks, NEW f \in Reports(l, t)
    PROVE  f \in Findings
<1>1. Primary[link[l]] \in {"rdap", "whois"}
  BY ChainOfProviders DEF TypeOK
<1>. QED  BY <1>1, DnsRepliesType, ChainRepliesType DEF Reports

LEMMA MovesType ==
    ASSUME TypeOK, NEW l \in Lookups, NEW t \in Tasks, Moves(l, t), slots' \in Nat
    PROVE  TypeOK'
<1>1. results' \in [Lookups -> Seq(Findings)]
  <2>1. results \in [Lookups -> Seq(Findings)]
    BY DEF TypeOK
  <2>2. ASSUME NEW f \in Reports(l, t), results' = [results EXCEPT ![l] = Append(@, f)]
        PROVE  results' \in [Lookups -> Seq(Findings)]
    <3>1. Append(results[l], f) \in Seq(Findings)
      BY <2>1, ReportsType
    <3>. QED  BY <2>1, <2>2, <3>1
  <2>. QED  BY <2>1, <2>2 DEF Moves
<1>2. at' \in [Lookups -> [Tasks -> Stages]]
  BY DEF TypeOK, Moves
<1>3. link' \in [Lookups -> DOMAIN Primary]
  BY DEF TypeOK, Moves
<1>. QED  BY <1>1, <1>2, <1>3 DEF TypeOK, Moves

\* What resolve makes of any findings.
LEMMA ResolveType ==
    ASSUME NEW rs \in Seq(Findings)
    PROVE  Resolve(rs) \in Resolutions
<1>1. \A i \in DOMAIN rs : rs[i] \in Findings
  OBVIOUS
<1>2. Evidence(rs) \in SUBSET Tags
  BY <1>1 DEF Evidence, Tags
<1>3. \A p, reg : Says(rs, p, reg) => StatusOf(rs, p) \in Status
  <2>1. ASSUME NEW p, NEW reg, Says(rs, p, reg)
        PROVE  StatusOf(rs, p) \in Status
    <3>1. PICK i \in DOMAIN rs : IsLast(rs, i, p)
      BY <2>1 DEF Says
    <3>. DEFINE last == CHOOSE j \in DOMAIN rs : IsLast(rs, j, p)
    <3>2. last \in DOMAIN rs
      BY <3>1
    <3>. QED  BY <1>1, <3>2, FindingsStatus DEF StatusOf
  <2>. QED  BY <2>1
<1>4. /\ {"available", "unavailable", "unknown"} \subseteq Availability
      /\ {"high", "medium", "low"} \subseteq Confidence
      /\ {"available", "registered", "unknown", "rate_limited"} \subseteq Status
  BY DEF Availability, Confidence, Status
<1>5. \A a \in Availability, st \in Status, confidence \in Confidence :
         /\ Resolution(a, st, confidence, TRUE, rs) \in Resolutions
         /\ Resolution(a, st, confidence, FALSE, rs) \in Resolutions
  BY <1>2 DEF Resolution, Resolutions
<1>6. ResolveRest(rs) \in Resolutions
  BY <1>4, <1>5 DEF ResolveRest
<1>7. ResolveWhois(rs) \in Resolutions
  BY <1>3, <1>4, <1>5, <1>6 DEF ResolveWhois
<1>. QED
  BY <1>3, <1>4, <1>5, <1>7 DEF Resolve

-----------------------------------------------------------------------------
(* What is recorded *)

\* What the results of lookups are before and after a task of l moves.
LEMMA ResultsMove ==
    ASSUME TypeOK, NEW l \in Lookups, NEW t \in Tasks, Moves(l, t)
    PROVE  /\ \A m \in Lookups \ {l} : results'[m] = results[m]
           /\ \/ results'[l] = results[l]
              \/ LET n == Len(results[l])
                 IN  /\ n \in Nat
                     /\ DOMAIN results[l] = 1 .. n
                     /\ DOMAIN results'[l] = 1 .. n + 1
                     /\ \A i \in 1 .. n : results'[l][i] = results[l][i]
                     /\ results'[l][n + 1] \in Reports(l, t)
                     /\ at'[l][t] = "over" \/ link' # link
                     /\ Conclusive(results'[l][n + 1]) => at'[l][t] = "over"
<1>1. results \in [Lookups -> Seq(Findings)] /\ at \in [Lookups -> [Tasks -> Stages]]
  BY DEF TypeOK
<1>2. CASE results' = results
  BY <1>2
<1>3. ASSUME NEW f \in Reports(l, t), NEW stage \in Stages,
             at' = [at EXCEPT ![l][t] = stage],
             results' = [results EXCEPT ![l] = Append(@, f)],
             stage = "over" \/ link' # link,
             Conclusive(f) => stage = "over"
      PROVE  LET n == Len(results[l])
             IN  /\ \A m \in Lookups \ {l} : results'[m] = results[m]
                 /\ n \in Nat
                 /\ DOMAIN results[l] = 1 .. n
                 /\ DOMAIN results'[l] = 1 .. n + 1
                 /\ \A i \in 1 .. n : results'[l][i] = results[l][i]
                 /\ results'[l][n + 1] \in Reports(l, t)
                 /\ at'[l][t] = "over" \/ link' # link
                 /\ Conclusive(results'[l][n + 1]) => at'[l][t] = "over"
  <2>1. at'[l][t] = stage
    BY <1>1, <1>3
  <2>2. /\ results[l] \in Seq(Findings)
        /\ results'[l] = Append(results[l], f)
        /\ \A m \in Lookups \ {l} : results'[m] = results[m]
    BY <1>1, <1>3
  <2>3. LET n == Len(results[l])
        IN  /\ n \in Nat
            /\ DOMAIN results[l] = 1 .. n
            /\ DOMAIN results'[l] = 1 .. n + 1
            /\ \A i \in 1 .. n : results'[l][i] = results[l][i]
            /\ results'[l][n + 1] = f
    BY <2>2
  <2>. QED  BY <1>3, <2>1, <2>2, <2>3
<1>. QED  BY <1>2, <1>3 DEF Moves

\* A task that is over stays where it is, a chain that goes on is not over.
LEMMA TasksMove ==
    ASSUME TypeOK, NEW l \in Lookups, NEW t \in Tasks, Moves(l, t)
    PROVE  /\ \A m \in Lookups \ {l} : at'[m] = at[m] /\ link'[m] = link[m]
           /\ \A u \in Tasks \ {t} : at'[l][u] = at[l][u]
           /\ at[l][t] \notin {"off", "over"} /\ at'[l][t] # "off"
           /\ link[l] \in Nat
           /\ \/ link' = link
              \/ t = "chain" /\ link'[l] = link[l] + 1 /\ at'[l][t] # "over"
<1>1. /\ at \in [Lookups -> [Tasks -> Stages]]
      /\ link \in [Lookups -> Nat]
      /\ at[l][t] \notin {"off", "over"}
  BY LookupAssumption DEF TypeOK, Moves
<1>2. PICK stage \in Stages \ {"off"} :
         /\ at' = [at EXCEPT ![l][t] = stage]
         /\ \/ link' = link
            \/ /\ t = "chain"
               /\ stage = "asking"
               /\ link' = [link EXCEPT ![l] = @ + 1]
  BY DEF Moves
<1>3. /\ at'[l][t] = stage
      /\ \A u \in Tasks \ {t} : at'[l][u] = at[l][u]
      /\ \A m \in Lookups \ {l} : at'[m] = at[m]
  BY <1>1, <1>2
<1>4. \A m \in Lookups \ {l} : link'[m] = link[m]
  BY <1>1, <1>2
<1>5. \/ link' = link
      \/ t = "chain" /\ link'[l] = link[l] + 1 /\ at'[l][t] # "over"
  BY <1>1, <1>2, <1>3
<1>. QED  BY <1>1, <1>3, <1>4, <1>5

LEMMA PhasedMoves ==
    ASSUME TypeOK, Phased, NEW l \in Lookups, NEW t \in Tasks, Moves(l, t)
    PROVE  Phased'
<1>1. phase[l] = "running" /\ phase' = phase /\ verdict' = verdict
  BY TasksMove DEF Phased, TypeOK, Moves
<1>2. \A m \in Lookups \ {l} : at'[m] = at[m] /\ results'[m] = results[m]
  BY TasksMove, ResultsMove
<1>3. \A u \in Tasks : at'[l][u] # "off"
  BY <1>1, TasksMove DEF Phased
<1>. QED  BY <1>1, <1>2, <1>3 DEF Phased

\* What is recorded stays what it is.
LEMMA OfDoneMoves ==
    ASSUME TypeOK, NEW l \in Lookups, NEW t \in Tasks, Moves(l, t),
           NEW m \in Lookups, NEW f, OfDone(m, f)
    PROVE  OfDone(m, f)'
<1>1. CASE m # l
  BY <1>1, TasksMove DEF OfDone
<1>2. CASE m = l
  <2>1. ASSUME f \in DnsReplies, "dns" \in Tasks, at[l]["dns"] = "over"
        PROVE  at'[l]["dns"] = "over"
    BY <2>1, TasksMove
  <2>2. ASSUME NEW k \in 1 .. link[l], k = link[l] => at[l]["chain"] = "over"
        PROVE  /\ k \in 1 .. link'[l]
               /\ k = link'[l] => at'[l]["chain"] = "over"
    BY <2>2, TasksMove, TasksAre
  <2>. QED  BY <1>2, <2>1, <2>2 DEF OfDone
<1>. QED  BY <1>1, <1>2

LEMMA RecordedMoves ==
    ASSUME TypeOK, Recorded, NEW l \in Lookups, NEW t \in Tasks, Moves(l, t)
    PROVE  Recorded'
<1>1. ASSUME NEW f \in Reports(l, t), at'[l][t] = "over" \/ link' # link
      PROVE  OfDone(l, f)'
  <2>1. CASE t = "chain"
    <3>1. link[l] \in Nat \ {0}
      BY LookupAssumption DEF TypeOK
    <3>2. /\ link[l] \in 1 .. link'[l]
          /\ link[l] = link'[l] => at'[l]["chain"] = "over"
      BY <1>1, <2>1, <3>1, TasksMove
    <3>3. f \in Replies(Primary[link[l]]) \cup {QueryFailed(Primary[link[l]])}
      BY <1>1, <2>1 DEF Reports, OfChain
    <3>. QED  BY <3>2, <3>3 DEF OfDone
  <2>2. CASE t = "dns"
    BY <1>1, <2>2, TasksMove DEF Reports, OfDone
  <2>. QED  BY <2>1, <2>2, TasksAre
<1>2. \A m \in Lookups : \A f : OfDone(m, f) => OfDone(m, f)'
  BY OfDoneMoves
<1>3. ASSUME NEW m \in Lookups, NEW i \in DOMAIN results'[m]
      PROVE  \A f : f = results'[m][i] => OfDone(m, f)'
  <2>1. CASE results'[m] = results[m]
    BY <1>2, <2>1 DEF Recorded
  <2>2. CASE results'[m] # results[m]
    BY <1>1, <1>2, <2>2, ResultsMove DEF Recorded
  <2>. QED  BY <2>1, <2>2
<1>. QED  BY <1>3 DEF Recorded, OfDone

\* A task has no result yet of the provider it is with.
LEMMA FreshFinding ==
    ASSUME TypeOK, Recorded, NEW l \in Lookups, NEW t \in Tasks,
           at[l][t] # "over", NEW f \in Reports(l, t), NEW i \in DOMAIN results[l]
    PROVE  results[l][i].provider # f.provider
<1>. DEFINE g == results[l][i]
<1>1. link[l] \in DOMAIN Primary /\ DOMAIN Primary = 1 .. Len(Primary)
  BY LookupAssumption DEF TypeOK
<1>2. CASE g \in DnsReplies /\ "dns" \in Tasks /\ at[l]["dns"] = "over"
  <2>1. t = "chain" /\ g.provider = "dns"
    BY <1>2, TasksAre, DnsRepliesType
  <2>2. f.provider \in {"rdap", "whois"}
    BY <1>1, <2>1, ChainOfProviders, ChainRepliesType DEF Reports, Sound
  <2>. QED  BY <2>1, <2>2
<1>3. ASSUME NEW k \in 1 .. link[l], g \in OfChain(Primary[k]),
             k = link[l] => at[l]["chain"] = "over"
      PROVE  g.provider # f.provider
  <2>1. k \in DOMAIN Primary
    BY <1>1
  <2>2. g.provider = Primary[k] /\ Primary[k] \in {"rdap", "whois"}
    BY <1>3, <2>1, ChainOfProviders, ChainRepliesType DEF Sound
  <2>3. CASE t = "chain"
    <3>1. f.provider = Primary[link[l]]
      BY <1>1, <2>3, ChainOfProviders, ChainRepliesType DEF Reports, Sound
    <3>2. k # link[l]
      BY <1>3, <2>3
    <3>. QED  BY <1>1, <2>1, <2>2, <3>1, <3>2, LookupAssumption
  <2>4. CASE t # "chain"
    BY <2>2, <2>4, DnsRepliesType DEF Reports
  <2>. QED  BY <2>3, <2>4
<1>. QED  BY <1>2, <1>3 DEF Recorded, OfDone, OfChain

LEMMA OnePerProviderMoves ==
    ASSUME TypeOK, Recorded, OnePerProvider,
           NEW l \in Lookups, NEW t \in Tasks, Moves(l, t)
    PROVE  OnePerProvider'
<1>1. \A f \in Reports(l, t) : \A i \in DOMAIN results[l] :
         results[l][i].provider # f.provider
  BY TasksMove, FreshFinding
<1>2. ASSUME NEW m \in Lookups,
             NEW i \in DOMAIN results'[m], NEW j \in DOMAIN results'[m],
             results'[m][i].provider = results'[m][j].provider
      PROVE  i = j
  <2>1. CASE results'[m] = results[m]
    BY <1>2, <2>1 DEF OnePerProvider
  <2>2. CASE results'[m] # results[m]
    <3> DEFINE n == Len(results[l])
    <3>1. /\ m = l /\ n \in Nat /\ DOMAIN results[l] = 1 .. n
          /\ i \in 1 .. n + 1 /\ j \in 1 .. n + 1
          /\ \A k \in 1 .. n : results'[l][k] = results[l][k]
          /\ results'[l][n + 1] \in Reports(l, t)
      BY <1>2, <2>2, ResultsMove
    <3>2. \A k \in 1 .. n : results'[l][k].provider # results'[l][n + 1].provider
      BY <1>1, <3>1
    <3>3. CASE i \in 1 .. n /\ j \in 1 .. n
      BY <1>2, <3>1, <3>3 DEF OnePerProvider
    <3>4. CASE i = n + 1 \/ j = n + 1
      BY <1>2, <3>1, <3>2, <3>4
    <3>. QED  BY <3>1, <3>3, <3>4
  <2>. QED  BY <2>1, <2>2
<1>. QED  BY <1>2 DEF OnePerProvider

LEMMA ChainStopsMoves ==
    ASSUME TypeOK, Recorded, ChainStopsWhenConclusive,
           NEW l \in Lookups, NEW t \in Tasks, Moves(l, t)
    PROVE  ChainStopsWhenConclusive'
<1>1. t = "dns" => \A f \in Reports(l, t) : f.provider = "dns"
  BY DnsRepliesType DEF Reports
<1>2. ASSUME NEW m \in Lookups, NEW i \in DOMAIN results'[m],
             Conclusive(results'[m][i]), results'[m][i].provider # "dns"
      PROVE  /\ at'[m]["chain"] = "over"
             /\ \A j \in DOMAIN results'[m] :
                   j > i => results'[m][j].provider = "dns"
  <2>1. CASE m # l
    BY <1>2, <2>1, ResultsMove, TasksMove DEF ChainStopsWhenConclusive
  <2>2. CASE m = l /\ i \in DOMAIN results[l] /\ results'[l][i] = results[l][i]
    <3>1. at[l]["chain"] = "over"
      BY <1>2, <2>2 DEF ChainStopsWhenConclusive
    <3>2. t = "dns" /\ at'[l]["chain"] = "over"
      BY <3>1, TasksMove, TasksAre
    <3>3. \A j \in DOMAIN results[l] : j > i => results[l][j].provider = "dns"
      BY <1>2, <2>2 DEF ChainStopsWhenConclusive
    <3>4. \A j \in DOMAIN results'[l] :
             \/ j \in DOMAIN results[l] /\ results'[l][j] = results[l][j]
             \/ results'[l][j] \in Reports(l, t)
      BY ResultsMove
    <3>5. \A j \in DOMAIN results'[l] : j > i => results'[l][j].provider = "dns"
      BY <1>1, <3>2, <3>3, <3>4
    <3>. QED  BY <2>2, <3>2, <3>5
  <2>3. CASE m = l /\ i \notin DOMAIN results[l]
    <3>1. i = Len(results[l]) + 1 /\ results'[l] # results[l]
      BY <1>2, <2>3, ResultsMove
    <3>2. /\ results'[l][i] \in Reports(l, t)
          /\ Conclusive(results'[l][i]) => at'[l][t] = "over"
      BY <2>3, <3>1, ResultsMove
    <3>3. Conclusive(results'[l][i]) /\ results'[l][i].provider # "dns"
      BY <1>2, <2>3
    <3>4. t = "chain" /\ at'[l]["chain"] = "over"
      BY <1>1, <3>2, <3>3, TasksAre
    <3>5. i \in Nat /\ DOMAIN results'[l] = 1 .. i
      BY <2>3, <3>1, ResultsMove
    <3>. QED  BY <2>3, <3>4, <3>5
  <2>4. \/ i \in DOMAIN results[l] /\ results'[l][i] = results[l][i]
        \/ i \notin DOMAIN results[l]
        \/ m # l
    BY ResultsMove
  <2>. QED  BY <1>2, <2>1, <2>2, <2>3, <2>4
<1>. QED  BY <1>2 DEF ChainStopsWhenConclusive

-----------------------------------------------------------------------------
(* Slots *)

LEMMA QueryingIsFinite == IsFiniteSet(Querying)
<1>1. IsFiniteSet(Tasks)
  BY LookupAssumption, FS_Subset, FS_Singleton, FS_Union DEF Tasks
<1>2. IsFiniteSet(Lookups \X Tasks)
  BY <1>1, LookupAssumption, FS_Product
<1>. QED  BY <1>2, FS_Subset DEF Querying

LEMMA QueryingMoves ==
    ASSUME TypeOK, NEW l \in Lookups, NEW t \in Tasks, NEW stage \in Stages,
           at' = [at EXCEPT ![l][t] = stage]
    PROVE  /\ stage = "querying" => Querying' = Querying \cup {<<l, t>>}
           /\ stage # "querying" => Querying' = Querying \ {<<l, t>>}
<1>1. at \in [Lookups -> [Tasks -> Stages]]
  BY DEF TypeOK
<1>2. at'[l][t] = stage
  BY <1>1
<1>3. ASSUME NEW u \in Lookups \X Tasks, u # <<l, t>>
      PROVE  at'[u[1]][u[2]] = at[u[1]][u[2]]
  BY <1>1, <1>3
<1>. QED  BY <1>2, <1>3 DEF Querying

LEMMA SlotsMove ==
    ASSUME TypeOK, SlotsAccounted, NEW l \in Lookups, NEW t \in Tasks, Step(l, t)
    PROVE  slots' \in Nat /\ SlotsAccounted'
<1>. USE DEF Stages
<1>1. /\ slots \in Nat /\ slots = Cardinality(Querying) /\ slots <= MaxConcurrency
      /\ MaxConcurrency \in Nat
  BY LookupAssumption DEF TypeOK, SlotsAccounted
<1>2. <<l, t>> \in Querying <=> at[l][t] = "querying"
  BY DEF Querying
<1>3. MoveOn(l, t) => \E stage \in Stages \ {"querying"} :
                         at' = [at EXCEPT ![l][t] = stage]
  BY MoveOnMoves
<1>4. CASE Acquire(l, t)
  <2>1. Querying' = Querying \cup {<<l, t>>} /\ <<l, t>> \notin Querying
    BY <1>2, <1>4, QueryingMoves DEF Acquire, Move
  <2>2. Cardinality(Querying') = Cardinality(Querying) + 1
    BY <2>1, QueryingIsFinite, FS_AddElement
  <2>. QED  BY <1>1, <1>4, <2>2 DEF Acquire, SlotsAccounted
<1>5. ASSUME at[l][t] = "querying", slots' = slots - 1,
             NEW stage \in Stages \ {"querying"}, at' = [at EXCEPT ![l][t] = stage]
      PROVE  slots' \in Nat /\ SlotsAccounted'
  <2>1. Querying' = Querying \ {<<l, t>>} /\ <<l, t>> \in Querying
    BY <1>2, <1>5, QueryingMoves
  <2>2. Cardinality(Querying') = Cardinality(Querying) - 1
    BY <2>1, QueryingIsFinite, FS_RemoveElement
  <2>3. Cardinality(Querying') \in Nat
    BY <2>1, QueryingIsFinite, FS_RemoveElement, FS_CardinalityType
  <2>. QED  BY <1>1, <1>5, <2>2, <2>3 DEF SlotsAccounted
<1>6. CASE Fail(l, t) \/ \E f \in Replies(With(l, t)) : Reply(l, t, f)
  BY <1>3, <1>5, <1>6 DEF Fail, RunFails, Reply, Move
<1>7. ASSUME at[l][t] # "querying", slots' = slots,
             NEW stage \in Stages \ {"querying"}, at' = [at EXCEPT ![l][t] = stage]
      PROVE  slots' \in Nat /\ SlotsAccounted'
  <2>1. Querying' = Querying \ {<<l, t>>} /\ <<l, t>> \notin Querying
    BY <1>2, <1>7, QueryingMoves
  <2>2. Querying' = Querying
    BY <2>1
  <2>. QED  BY <1>1, <1>7, <2>2 DEF SlotsAccounted
<1>8. CASE \/ Supported(l, t) \/ Unsupported(l, t) \/ Discover(l, t)
           \/ Discovered(l, t) \/ GiveUp(l, t)
  BY <1>3, <1>7, <1>8
  DEF Supported, Unsupported, Discover, Discovered, GiveUp, RunFails, Move
<1>. QED  BY <1>4, <1>6, <1>8 DEF Step

-----------------------------------------------------------------------------
(* The steps of a lookup as a whole *)

LEMMA StartInductive ==
    ASSUME Inductive, NEW l \in Lookups, NEW dead \in BOOLEAN, Start(l, dead)
    PROVE  Inductive'
<1>. USE DEF Inductive
<1>1. /\ phase[l] = "idle" /\ phase' = [phase EXCEPT ![l] = "running"]
      /\ at' = [at EXCEPT ![l] = [t \in Tasks |-> "asking"]]
      /\ cancelled' = [cancelled EXCEPT ![l] = dead]
      /\ UNCHANGED <<link, results, verdict, slots>>
  BY DEF Start
<1>2. TypeOK'
  BY <1>1 DEF TypeOK, Stages
<1>3. /\ phase'[l] = "running" /\ at'[l] = [t \in Tasks |-> "asking"]
      /\ \A m \in Lookups \ {l} : phase'[m] = phase[m] /\ at'[m] = at[m]
  BY <1>1 DEF TypeOK
<1>4. at[l] = [t \in Tasks |-> "off"] /\ results[l] = <<>> /\ verdict[l] = NoVerdict
  BY <1>1 DEF Phased
<1>5. Phased'
  BY <1>1, <1>3, <1>4 DEF Phased
<1>6. Recorded'
  BY <1>1, <1>3, <1>4 DEF Recorded, OfDone
<1>7. OnePerProvider' /\ ChainStopsWhenConclusive'
  BY <1>1, <1>3, <1>4 DEF OnePerProvider, ChainStopsWhenConclusive
<1>8. Querying' = Querying
  BY <1>3, <1>4 DEF Querying
<1>. QED  BY <1>1, <1>2, <1>5, <1>6, <1>7, <1>8 DEF SlotsAccounted

LEMMA TakeInductive ==
    ASSUME Inductive, NEW l \in Lookups, Take(l)
    PROVE  Inductive'
<1>. USE DEF Inductive
<1>1. /\ phase[l] = "resolved" /\ phase' = [phase EXCEPT ![l] = "idle"]
      /\ at' = [at EXCEPT ![l] = [t \in Tasks |-> "off"]]
      /\ link' = [link EXCEPT ![l] = 1]
      /\ results' = [results EXCEPT ![l] = <<>>]
      /\ verdict' = [verdict EXCEPT ![l] = NoVerdict]
      /\ cancelled' = [cancelled EXCEPT ![l] = FALSE]
      /\ slots' = slots
  BY DEF Take
<1>2. TypeOK'
  <2>1. 1 \in DOMAIN Primary /\ <<>> \in Seq(Findings)
    BY LookupAssumption
  <2>. QED  BY <1>1, <2>1 DEF TypeOK, Stages
<1>3. /\ phase'[l] = "idle" /\ at'[l] = [t \in Tasks |-> "off"]
      /\ results'[l] = <<>> /\ verdict'[l] = NoVerdict
      /\ \A m \in Lookups \ {l} :
            /\ phase'[m] = phase[m] /\ at'[m] = at[m] /\ link'[m] = link[m]
            /\ results'[m] = results[m] /\ verdict'[m] = verdict[m]
  BY <1>1 DEF TypeOK
<1>4. \A t \in Tasks : at[l][t] = "over"
  BY <1>1 DEF Phased
<1>5. Phased'
  BY <1>3 DEF Phased
<1>6. Recorded'
  BY <1>3 DEF Recorded, OfDone
<1>7. OnePerProvider' /\ ChainStopsWhenConclusive'
  BY <1>3 DEF OnePerProvider, ChainStopsWhenConclusive
<1>8. Querying' = Querying
  BY <1>3, <1>4 DEF Querying
<1>. QED  BY <1>1, <1>2, <1>5, <1>6, <1>7, <1>8 DEF SlotsAccounted

LEMMA FinishInductive ==
    ASSUME Inductive, NEW l \in Lookups, Finish(l)
    PROVE  Inductive'
<1>. USE DEF Inductive
<1>1. /\ phase[l] = "running" /\ \A t \in Tasks : at[l][t] = "over"
      /\ phase' = [phase EXCEPT ![l] = "resolved"]
      /\ verdict' = [verdict EXCEPT ![l] = Resolve(results[l])]
      /\ UNCHANGED <<at, link, results, cancelled, slots>>
  BY DEF Finish
<1>2. TypeOK'
  BY <1>1, ResolveType DEF TypeOK
<1>3. /\ phase'[l] = "resolved" /\ verdict'[l] = Resolve(results[l])
      /\ \A m \in Lookups \ {l} : phase'[m] = phase[m] /\ verdict'[m] = verdict[m]
  BY <1>1 DEF TypeOK
<1>4. Resolve(results'[l]) = Resolve(results[l])
  BY <1>1
<1>5. Phased'
  BY <1>1, <1>3, <1>4 DEF Phased
<1>6. Recorded' /\ OnePerProvider' /\ ChainStopsWhenConclusive'
  BY <1>1 DEF Recorded, OfDone, OnePerProvider, ChainStopsWhenConclusive
<1>7. SlotsAccounted'
  BY <1>1 DEF SlotsAccounted, Querying
<1>. QED  BY <1>2, <1>5, <1>6, <1>7

LEMMA UnmovedInductive ==
    ASSUME Inductive, cancelled' \in [Lookups -> BOOLEAN],
           UNCHANGED <<phase, at, link, results, verdict, slots>>
    PROVE  Inductive'
<1>1. TypeOK'
  BY DEF Inductive, TypeOK
<1>2. Phased' /\ Recorded' /\ OnePerProvider'
  BY DEF Inductive, Phased, Recorded, OfDone, OnePerProvider
<1>3. ChainStopsWhenConclusive' /\ SlotsAccounted'
  BY DEF Inductive, ChainStopsWhenConclusive, SlotsAccounted, Querying
<1>. QED  BY <1>1, <1>2, <1>3 DEF Inductive

LEMMA InitInductive == Init => Inductive
<1>. SUFFICES ASSUME Init PROVE Inductive
  OBVIOUS
<1>. USE DEF Init
<1>1. TypeOK
  <2>1. 1 \in DOMAIN Primary /\ <<>> \in Seq(Findings)
    BY LookupAssumption
  <2>. QED  BY <2>1 DEF TypeOK, Stages
<1>2. Phased /\ Recorded /\ OnePerProvider /\ ChainStopsWhenConclusive
  BY DEF Phased, Recorded, OnePerProvider, ChainStopsWhenConclusive
<1>3. Querying = {}
  BY DEF Querying
<1>4. SlotsAccounted
  BY <1>3, FS_EmptySet, LookupAssumption DEF SlotsAccounted
<1>. QED  BY <1>1, <1>2, <1>4 DEF Inductive

LEMMA InductiveStep == Inductive /\ [Next]_vars => Inductive'
<1>. SUFFICES ASSUME Inductive, [Next]_vars PROVE Inductive'
  OBVIOUS
<1>1. ASSUME NEW l \in Lookups, NEW t \in Tasks, Step(l, t)
      PROVE  Inductive'
  <2>1. Moves(l, t) /\ slots' \in Nat /\ SlotsAccounted'
    BY <1>1, StepMoves, SlotsMove DEF Inductive
  <2>2. TypeOK' /\ Phased' /\ Recorded'
    BY <2>1, MovesType, PhasedMoves, RecordedMoves DEF Inductive
  <2>3. OnePerProvider' /\ ChainStopsWhenConclusive'
    BY <2>1, OnePerProviderMoves, ChainStopsMoves DEF Inductive
  <2>. QED  BY <2>1, <2>2, <2>3 DEF Inductive
<1>2. ASSUME NEW l \in Lookups, Cancel(l)
      PROVE  Inductive'
  <2>1. cancelled' \in [Lookups -> BOOLEAN]
    BY <1>2 DEF Cancel, Inductive, TypeOK
  <2>. QED  BY <1>2, <2>1, UnmovedInductive DEF Cancel
<1>3. CASE UNCHANGED vars
  <2>1. cancelled' \in [Lookups -> BOOLEAN]
    BY <1>3 DEF vars, Inductive, TypeOK
  <2>. QED  BY <1>3, <2>1, UnmovedInductive DEF vars
<1>. QED
  BY <1>1, <1>2, <1>3, StartInductive, TakeInductive, FinishInductive DEF Next

\* The invariant the safety of lookups rests on.
THEOREM Invariance == Spec => []Inductive
BY InitInductive, InductiveStep, PTL DEF Spec

\* Every variable of lookups keeps its type.
THEOREM TypeCorrect == Spec => []TypeOK
BY Invariance, PTL DEF Inductive

\* However a query ends, its slot is given back, and no more than
\* MaxConcurrency queries are ever under way.
THEOREM SlotsAreAccounted == Spec => []SlotsAccounted
BY Invariance, PTL DEF Inductive

\* A conclusive source is the last one that check asks.
THEOREM ChainStops == Spec => []ChainStopsWhenConclusive
BY Invariance, PTL DEF Inductive

-----------------------------------------------------------------------------
(* What resolve is given *)

\* The results of one lookup: of each provider at most one, of the DNS probe
\* never the word that a name is free, and a conclusive one of at most one
\* provider of the chain.
Single(rs) ==
    \A i, j \in DOMAIN rs : rs[i].provider = rs[j].provider => i = j

OneAuthority(rs) ==
    \A i, j \in DOMAIN rs :
        /\ Conclusive(rs[i]) /\ rs[i].provider # "dns"
        /\ Conclusive(rs[j]) /\ rs[j].provider # "dns"
        => i = j

OfProvider(f) ==
    \/ /\ f.provider = "dns"
       /\ f.registration \in {"registered", "unknown"}
       /\ ~f.info
    \/ \E p \in {"rdap", "whois"} : Sound(f, p)

Consistent(rs) ==
    /\ rs \in Seq(Findings)
    /\ Single(rs)
    /\ OneAuthority(rs)
    /\ \A i \in DOMAIN rs : OfProvider(rs[i])

LEMMA ResultsAreConsistent ==
    ASSUME Inductive, NEW l \in Lookups
    PROVE  Consistent(results[l])
<1>1. results[l] \in Seq(Findings) /\ Single(results[l])
  BY DEF Inductive, TypeOK, OnePerProvider, Single
<1>2. OneAuthority(results[l])
  <2>1. \A i \in DOMAIN results[l] : i \in Nat
    BY <1>1
  <2>. QED  BY <2>1 DEF OneAuthority, Inductive, ChainStopsWhenConclusive
<1>3. ASSUME NEW i \in DOMAIN results[l]
      PROVE  OfProvider(results[l][i])
  <2>1. OfDone(l, results[l][i])
    BY DEF Inductive, Recorded
  <2>2. CASE results[l][i] \in DnsReplies
    BY <2>2, DnsRepliesType DEF OfProvider
  <2>3. ASSUME NEW k \in 1 .. link[l], results[l][i] \in OfChain(Primary[k])
        PROVE  OfProvider(results[l][i])
    <3>1. k \in DOMAIN Primary
      BY LookupAssumption DEF Inductive, TypeOK
    <3>. QED  BY <2>3, <3>1, ChainOfProviders, ChainRepliesType DEF OfProvider
  <2>. QED  BY <2>1, <2>2, <2>3 DEF OfDone, OfChain
<1>. QED  BY <1>1, <1>2, <1>3 DEF Consistent

-----------------------------------------------------------------------------
(* What resolve makes of it *)

\* When no provider has two results, its last one is its only one.
LEMMA SaysIsAny ==
    ASSUME NEW rs \in Seq(Findings), Single(rs), NEW p
    PROVE  /\ \A i \in DOMAIN rs : IsLast(rs, i, p) <=> rs[i].provider = p
           /\ \A reg : Says(rs, p, reg) <=>
                 \E i \in DOMAIN rs : rs[i].provider = p /\ rs[i].registration = reg
           /\ \A s : HasStatus(rs, p, s) <=>
                 \E i \in DOMAIN rs : rs[i].provider = p /\ rs[i].status = s
           /\ \A i \in DOMAIN rs : rs[i].provider = p => StatusOf(rs, p) = rs[i].status
<1>1. \A i \in DOMAIN rs : i \in Nat
  OBVIOUS
<1>2. \A i \in DOMAIN rs : IsLast(rs, i, p) <=> rs[i].provider = p
  BY <1>1 DEF IsLast, Single
<1>3. ASSUME NEW i \in DOMAIN rs, rs[i].provider = p
      PROVE  StatusOf(rs, p) = rs[i].status
  <2>. DEFINE last == CHOOSE j \in DOMAIN rs : IsLast(rs, j, p)
  <2>1. last \in DOMAIN rs /\ IsLast(rs, last, p)
    BY <1>2, <1>3
  <2>2. last = i
    BY <1>2, <1>3, <2>1 DEF Single
  <2>. QED  BY <2>2 DEF StatusOf
<1>. QED  BY <1>2, <1>3 DEF Says, HasStatus

\* The verdict in terms of what each provider says.
LEMMA Verdicts ==
    ASSUME NEW rs,
           \A p : ~(Says(rs, p, "registered") /\ Says(rs, p, "not_registered"))
    PROVE  /\ Resolve(rs).availability = "available" <=>
                 \/ Says(rs, "rdap", "not_registered")
                 \/ /\ ~Says(rs, "rdap", "registered")
                    /\ Says(rs, "whois", "not_registered")
                    /\ ~Delegated(rs)
           /\ Resolve(rs).conflict <=>
                 \/ /\ Says(rs, "rdap", "not_registered")
                    /\ Delegated(rs) \/ Says(rs, "whois", "registered")
                 \/ /\ ~Says(rs, "rdap", "registered")
                    /\ ~Says(rs, "rdap", "not_registered")
                    /\ Says(rs, "whois", "not_registered")
                    /\ Delegated(rs)
           /\ \/ Says(rs, "rdap", "registered")
              \/ /\ Says(rs, "whois", "registered")
                 /\ ~Says(rs, "rdap", "not_registered")
              => Resolve(rs).availability = "unavailable"
<1>1. CASE Says(rs, "rdap", "registered")
  BY <1>1 DEF Resolve, Resolution
<1>2. CASE Says(rs, "rdap", "not_registered")
  BY <1>2 DEF Resolve, Resolution
<1>3. CASE ~Says(rs, "rdap", "registered") /\ ~Says(rs, "rdap", "not_registered")
  <2>1. Resolve(rs) = ResolveWhois(rs)
    BY <1>3 DEF Resolve
  <2>2. CASE Says(rs, "whois", "registered")
    BY <1>3, <2>1, <2>2 DEF ResolveWhois, Resolution
  <2>3. CASE Says(rs, "whois", "not_registered")
    BY <1>3, <2>1, <2>3 DEF ResolveWhois, Resolution
  <2>4. CASE ~Says(rs, "whois", "registered") /\ ~Says(rs, "whois", "not_registered")
    BY <1>3, <2>1, <2>4 DEF ResolveWhois, ResolveRest, Resolution
  <2>. QED  BY <2>2, <2>3, <2>4
<1>. QED  BY <1>1, <1>2, <1>3

\* The verdict depends on nothing else.
LEMMA SameVerdict ==
    ASSUME NEW rs, NEW ss,
           \A p : ~(Says(rs, p, "registered") /\ Says(rs, p, "not_registered")),
           \A p, reg : Says(rs, p, reg) <=> Says(ss, p, reg),
           \A p, reg : Says(rs, p, reg) => StatusOf(rs, p) = StatusOf(ss, p),
           \A p, s : HasStatus(rs, p, s) <=> HasStatus(ss, p, s),
           Evidence(rs) = Evidence(ss)
    PROVE  Resolve(rs) = Resolve(ss)
<1>1. \A a, s, confidence, b :
         Resolution(a, s, confidence, b, rs) = Resolution(a, s, confidence, b, ss)
  BY DEF Resolution
<1>2. Delegated(rs) <=> Delegated(ss)
  BY DEF Delegated
<1>3. ResolveRest(rs) = ResolveRest(ss)
  BY <1>1, <1>2 DEF ResolveRest
<1>4. ResolveWhois(rs) = ResolveWhois(ss)
  <2>1. CASE Says(rs, "whois", "registered")
    <3>. DEFINE st == StatusOf(rs, "whois")
    <3>1. /\ Says(ss, "whois", "registered") /\ StatusOf(ss, "whois") = st
          /\ ~Says(rs, "whois", "not_registered") /\ ~Says(ss, "whois", "not_registered")
      BY <2>1
    <3>. QED  BY <1>1, <2>1, <3>1 DEF ResolveWhois
  <2>2. CASE ~Says(rs, "whois", "registered")
    BY <1>1, <1>2, <1>3, <2>2 DEF ResolveWhois
  <2>. QED  BY <2>1, <2>2
<1>. QED
  <2>1. CASE Says(rs, "rdap", "registered")
    <3>. DEFINE st == StatusOf(rs, "rdap")
    <3>1. /\ Says(ss, "rdap", "registered") /\ StatusOf(ss, "rdap") = st
          /\ ~Says(rs, "rdap", "not_registered") /\ ~Says(ss, "rdap", "not_registered")
      BY <2>1
    <3>. QED  BY <1>1, <2>1, <3>1 DEF Resolve
  <2>2. CASE ~Says(rs, "rdap", "registered")
    BY <1>1, <1>2, <1>4, <2>2 DEF Resolve
  <2>. QED  BY <2>1, <2>2

\* What the providers of consistent results say.
LEMMA Consistency ==
    ASSUME NEW rs, Consistent(rs)
    PROVE  /\ \A p, reg : Says(rs, p, reg) <=>
                 \E i \in DOMAIN rs : rs[i].provider = p /\ rs[i].registration = reg
           /\ \A p : ~(Says(rs, p, "registered") /\ Says(rs, p, "not_registered"))
           /\ ~Says(rs, "dns", "not_registered")
           /\ \A i \in DOMAIN rs : rs[i].provider \in {"rdap", "whois", "dns"}
           /\ \A r1, r2 \in {"registered", "not_registered"} :
                 ~(Says(rs, "rdap", r1) /\ Says(rs, "whois", r2))
<1>1. \A p, reg : Says(rs, p, reg) <=>
         \E i \in DOMAIN rs : rs[i].provider = p /\ rs[i].registration = reg
  BY SaysIsAny DEF Consistent
<1>2. \A p : ~(Says(rs, p, "registered") /\ Says(rs, p, "not_registered"))
  BY <1>1 DEF Consistent, Single
<1>3. \A i \in DOMAIN rs : rs[i].provider \in {"rdap", "whois", "dns"}
  BY DEF Consistent, OfProvider, Sound
<1>4. ~Says(rs, "dns", "not_registered")
  BY <1>1 DEF Consistent, OfProvider, Sound
<1>5. ASSUME NEW r1 \in {"registered", "not_registered"},
             NEW r2 \in {"registered", "not_registered"},
             Says(rs, "rdap", r1), Says(rs, "whois", r2)
      PROVE  FALSE
  <2>1. PICK i \in DOMAIN rs : rs[i].provider = "rdap" /\ rs[i].registration = r1
    BY <1>1, <1>5
  <2>2. PICK j \in DOMAIN rs : rs[j].provider = "whois" /\ rs[j].registration = r2
    BY <1>1, <1>5
  <2>3. Conclusive(rs[i]) /\ Conclusive(rs[j])
    BY <2>1, <2>2 DEF Conclusive
  <2>4. i = j
    BY <2>1, <2>2, <2>3 DEF Consistent, OneAuthority
  <2>. QED  BY <2>1, <2>2, <2>4
<1>. QED  BY <1>1, <1>2, <1>3, <1>4, <1>5

LEMMA VerdictOf ==
    ASSUME Inductive, NEW l \in Lookups
    PROVE  /\ phase[l] = "resolved" => verdict[l] = Resolve(results[l])
           /\ phase[l] # "resolved" => verdict[l].availability = "none"
BY DEF Inductive, Phased, NoVerdict

\* "Available" takes the word of a registry or of a WHOIS server, and none of
\* the two against it.
THEOREM AvailableIsAuthorized == Spec => []AvailableIsAuthoritative
<1>1. Inductive => AvailableIsAuthoritative
  <2>. SUFFICES ASSUME Inductive, NEW l \in Lookups,
                       verdict[l].availability = "available"
                PROVE  LET said == {results[l][i].registration :
                                       i \in {j \in DOMAIN results[l] :
                                                results[l][j].provider # "dns"}}
                       IN  "not_registered" \in said /\ "registered" \notin said
    BY DEF AvailableIsAuthoritative
  <2>. DEFINE rs == results[l]
              said == {rs[i].registration :
                          i \in {j \in DOMAIN rs : rs[j].provider # "dns"}}
  <2>1. Consistent(rs) /\ verdict[l] = Resolve(rs)
    BY VerdictOf, ResultsAreConsistent
  <2>. HIDE DEF rs
  <2>2. \A r : r \in said <=> Says(rs, "rdap", r) \/ Says(rs, "whois", r)
    BY <2>1, Consistency
  <2>3. \/ Says(rs, "rdap", "not_registered")
        \/ /\ ~Says(rs, "rdap", "registered")
           /\ Says(rs, "whois", "not_registered")
    BY <2>1, Consistency, Verdicts
  <2>4. "not_registered" \in said /\ "registered" \notin said
    BY <2>1, <2>2, <2>3, Consistency
  <2>. QED  BY <2>4 DEF rs
<1>. QED  BY <1>1, Invariance, PTL

\* A verdict carries the conflict flag exactly when the results contradict
\* each other.
THEOREM ConflictsAreContradictions == Spec => []ConflictIffContradiction
<1>1. Inductive => ConflictIffContradiction
  <2>. SUFFICES ASSUME Inductive, NEW l \in Lookups, phase[l] = "resolved"
                PROVE  LET said == {results[l][i].registration : i \in DOMAIN results[l]}
                       IN  verdict[l].conflict <=>
                              {"registered", "not_registered"} \subseteq said
    BY DEF ConflictIffContradiction
  <2>. DEFINE rs == results[l]
              said == {rs[i].registration : i \in DOMAIN rs}
  <2>1. Consistent(rs) /\ verdict[l] = Resolve(rs)
    BY VerdictOf, ResultsAreConsistent
  <2>. HIDE DEF rs
  <2>2. \A r : r \in said <=> \/ Says(rs, "rdap", r) \/ Says(rs, "whois", r)
                              \/ Says(rs, "dns", r)
    BY <2>1, Consistency
  <2>3. Resolve(rs).conflict <=>
           \/ /\ Says(rs, "rdap", "not_registered")
              /\ Delegated(rs) \/ Says(rs, "whois", "registered")
           \/ /\ ~Says(rs, "rdap", "registered")
              /\ ~Says(rs, "rdap", "not_registered")
              /\ Says(rs, "whois", "not_registered")
              /\ Delegated(rs)
    BY <2>1, Consistency, Verdicts
  <2>4. verdict[l].conflict <=> {"registered", "not_registered"} \subseteq said
    BY <2>1, <2>2, <2>3, Consistency DEF Delegated
  <2>. QED  BY <2>4 DEF rs
<1>. QED  BY <1>1, Invariance, PTL

\* Info reports what the verdict says, or has an error to report.
THEOREM InfoAgrees == Spec => []InfoAgreesWithVerdict
<1>1. Inductive => InfoAgreesWithVerdict
  <2>. SUFFICES ASSUME Inductive, NEW l \in Lookups, phase[l] = "resolved"
                PROVE  LET info == InfoOf(results[l], verdict[l])
                       IN  IF "error" \in DOMAIN info
                           THEN \/ verdict[l].conflict
                                \/ \A i \in DOMAIN results[l] :
                                      Conclusive(results[l][i]) =>
                                         results[l][i].provider = "dns"
                           ELSE verdict[l].availability =
                                   (IF info.registered THEN "unavailable"
                                                       ELSE "available")
    BY DEF InfoAgreesWithVerdict
  <2>. DEFINE rs == results[l]
              info == InfoOf(rs, verdict[l])
              told == {i \in DOMAIN rs : rs[i].info}
  <2>1. Consistent(rs) /\ verdict[l] = Resolve(rs)
    BY VerdictOf, ResultsAreConsistent
  <2>. HIDE DEF rs
  <2>2. CASE told # {}
    <3>1. PICK i \in told : TRUE
      BY <2>2
    <3>2. /\ rs[i].provider \in {"rdap", "whois"}
          /\ rs[i].registration = "registered"
      BY <2>1, <3>1 DEF Consistent, OfProvider, Sound
    <3>3. Says(rs, "rdap", "registered") \/ Says(rs, "whois", "registered")
      BY <2>1, <3>1, <3>2, Consistency
    <3>4. verdict[l].availability = "unavailable"
      BY <2>1, <3>3, Consistency, Verdicts
    <3>5. "error" \notin DOMAIN info /\ info.registered = TRUE
      BY <2>2 DEF InfoOf
    <3>. QED  BY <3>4, <3>5 DEF rs
  <2>3. CASE told = {} /\ verdict[l].availability = "available"
    <3>1. "error" \notin DOMAIN info /\ info.registered = FALSE
      BY <2>3 DEF InfoOf
    <3>. QED  BY <2>3, <3>1 DEF rs
  <2>4. CASE told = {} /\ verdict[l].availability # "available"
    <3>1. "error" \in DOMAIN info
      BY <2>4 DEF InfoOf
    <3>2. ASSUME NEW i \in DOMAIN rs, Conclusive(rs[i]), rs[i].provider # "dns"
          PROVE  verdict[l].conflict
      <4>1. /\ rs[i].provider \in {"rdap", "whois"}
            /\ rs[i].registration \in RegistrationStatus
            /\ rs[i].registration # "registered"
        BY <2>1, <2>4, <3>2 DEF Consistent, OfProvider, Sound
      <4>2. rs[i].registration = "not_registered"
        BY <3>2, <4>1 DEF Conclusive, RegistrationStatus
      <4>3. Says(rs, "rdap", "not_registered") \/ Says(rs, "whois", "not_registered")
        BY <2>1, <4>1, <4>2, Consistency
      <4>. QED  BY <2>1, <2>4, <4>3, Consistency, Verdicts
    <3>. QED  BY <3>1, <3>2 DEF rs
  <2>. QED  BY <2>2, <2>3, <2>4
<1>. QED  BY <1>1, Invariance, PTL

\* A reordering of results has the same findings in it.
LEMMA ReorderingKeeps ==
    ASSUME NEW rs, Consistent(rs), NEW ss \in Reorderings(rs)
    PROVE  /\ ss \in Seq(Findings) /\ Single(ss)
           /\ \A i \in DOMAIN rs : \E j \in DOMAIN ss : ss[j] = rs[i]
           /\ \A j \in DOMAIN ss : \E i \in DOMAIN rs : rs[i] = ss[j]
<1>. DEFINE n == Len(rs)
            S == 1 .. n
<1>1. n \in Nat /\ rs \in [S -> Findings] /\ DOMAIN rs = S
  BY DEF Consistent
<1>2. PICK p \in [S -> S] :
         /\ \A i, j \in S : i # j => p[i] # p[j]
         /\ ss = [i \in S |-> rs[p[i]]]
  BY DEF Reorderings
<1>3. ss \in [S -> Findings] /\ DOMAIN ss = S
  BY <1>1, <1>2
<1>4. ss \in Seq(Findings)
  BY <1>1, <1>3
<1>5. Single(ss)
  BY <1>1, <1>2, <1>3 DEF Single, Consistent
<1>6. ASSUME NEW i \in S PROVE \E j \in S : p[j] = i
  <2>1. IsFiniteSet(S)
    BY <1>1, FS_Interval
  <2>2. p \in Injection(S, S)
    BY <1>2 DEF Injection, IsInjective
  <2>3. p \in Surjection(S, S)
    BY <2>1, <2>2, FS_Injection
  <2>. QED  BY <2>3 DEF Surjection
<1>7. \A i \in DOMAIN rs : \E j \in DOMAIN ss : ss[j] = rs[i]
  BY <1>1, <1>2, <1>3, <1>6
<1>8. \A j \in DOMAIN ss : \E i \in DOMAIN rs : rs[i] = ss[j]
  BY <1>1, <1>2, <1>3
<1>. QED  BY <1>4, <1>5, <1>7, <1>8

\* What one sequence of findings says, so does one that has the same in it.
LEMMA FindingsCarryOver ==
    ASSUME NEW rs \in Seq(Findings), Single(rs),
           NEW ss \in Seq(Findings), Single(ss),
           \A i \in DOMAIN rs : \E j \in DOMAIN ss : ss[j] = rs[i]
    PROVE  /\ \A p, reg : Says(rs, p, reg) => Says(ss, p, reg)
           /\ \A p, reg : Says(rs, p, reg) => StatusOf(rs, p) = StatusOf(ss, p)
           /\ \A p, s : HasStatus(rs, p, s) => HasStatus(ss, p, s)
<1>1. ASSUME NEW p, NEW reg, Says(rs, p, reg)
      PROVE  Says(ss, p, reg) /\ StatusOf(rs, p) = StatusOf(ss, p)
  <2>1. PICK i \in DOMAIN rs : rs[i].provider = p /\ rs[i].registration = reg
    BY <1>1 DEF Says, IsLast
  <2>2. PICK j \in DOMAIN ss : ss[j] = rs[i]
    BY <2>1
  <2>3. ss[j].provider = p /\ ss[j].registration = reg
    BY <2>1, <2>2
  <2>4. Says(ss, p, reg)
    BY <2>3, SaysIsAny
  <2>5. StatusOf(rs, p) = rs[i].status /\ StatusOf(ss, p) = ss[j].status
    BY <2>1, <2>3, SaysIsAny
  <2>. QED  BY <2>2, <2>4, <2>5
<1>2. ASSUME NEW p, NEW s, HasStatus(rs, p, s)
      PROVE  HasStatus(ss, p, s)
  <2>1. PICK i \in DOMAIN rs : rs[i].provider = p /\ rs[i].status = s
    BY <1>2 DEF HasStatus, IsLast
  <2>2. PICK j \in DOMAIN ss : ss[j] = rs[i]
    BY <2>1
  <2>3. ss[j].provider = p /\ ss[j].status = s
    BY <2>1, <2>2
  <2>. QED  BY <2>3, SaysIsAny
<1>. QED  BY <1>1, <1>2

\* The tasks of a lookup append in whatever order they finish; the verdict is
\* the same for all of them.
THEOREM VerdictIsOrderless == Spec => []VerdictIgnoresArrival
<1>1. Inductive => VerdictIgnoresArrival
  <2>. SUFFICES ASSUME Inductive, NEW l \in Lookups, phase[l] = "resolved",
                       NEW ss \in Reorderings(results[l])
                PROVE  Resolve(ss) = verdict[l]
    BY DEF VerdictIgnoresArrival
  <2>. DEFINE rs == results[l]
  <2>1. Consistent(rs) /\ verdict[l] = Resolve(rs)
    BY VerdictOf, ResultsAreConsistent
  <2>. HIDE DEF rs
  <2>2. /\ rs \in Seq(Findings) /\ Single(rs)
        /\ ss \in Seq(Findings) /\ Single(ss)
        /\ \A i \in DOMAIN rs : \E j \in DOMAIN ss : ss[j] = rs[i]
        /\ \A j \in DOMAIN ss : \E i \in DOMAIN rs : rs[i] = ss[j]
    BY <2>1, ReorderingKeeps DEF rs, Consistent
  <2>3. \A p, reg : Says(rs, p, reg) <=> Says(ss, p, reg)
    BY <2>2, FindingsCarryOver
  <2>4. \A p, s : HasStatus(rs, p, s) <=> HasStatus(ss, p, s)
    BY <2>2, FindingsCarryOver
  <2>5. \A p, reg : Says(rs, p, reg) => StatusOf(rs, p) = StatusOf(ss, p)
    BY <2>2, FindingsCarryOver
  <2>6. Evidence(rs) = Evidence(ss)
    BY <2>2 DEF Evidence
  <2>7. Resolve(rs) = Resolve(ss)
    BY <2>1, <2>3, <2>4, <2>5, <2>6, Consistency, SameVerdict
  <2>. QED  BY <2>1, <2>7
<1>. QED  BY <1>1, Invariance, PTL
=============================================================================
