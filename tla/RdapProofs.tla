------------------------------ MODULE RdapProofs ------------------------------
(***************************************************************************)
(* The safety of the circuit breaker, for any clients, hosts, bases,       *)
(* retries and thresholds; then what Check of the RDAP provider, which is  *)
(* such a client, reports, for any bodies and limits.                      *)
(***************************************************************************)
EXTENDS Rdap, FiniteSetTheorems, TLAPS

\* What LeaveBase does to the client that leaves, and to no other.
LEMMA Leaving ==
    ASSUME TypeOK, NEW c \in Clients, LeaveBase(c)
    PROVE  /\ stage' \in [Clients -> Stages] /\ stage'[c] \in {"gate", "idle"}
           /\ attempt' \in [Clients -> 0 .. MaxRetries]
           /\ UNCHANGED <<plan, ctx>>
           /\ base' \in [Clients -> Nat] /\ base'[c] \in DOMAIN plan[c]
           /\ \A d \in Clients \ {c} : stage'[d] = stage[d] /\ base'[d] = base[d]
<1> USE UpstreamAssumption DEF TypeOK, LeaveBase, Go, Stages
<1>1. plan[c] \in Seq(Hosts) /\ base[c] \in DOMAIN plan[c]
  OBVIOUS
<1>2. DOMAIN plan[c] = 1 .. Len(plan[c]) /\ Len(plan[c]) \in Nat
  BY <1>1
<1>3. CASE base[c] < Len(plan[c]) /\ ctx[c] = "live"
  <2>1. base[c] + 1 \in DOMAIN plan[c]
    BY <1>1, <1>2, <1>3
  <2>2. /\ stage' = [stage EXCEPT ![c] = "gate"]
        /\ base' = [base EXCEPT ![c] = @ + 1]
        /\ attempt' = [attempt EXCEPT ![c] = 0]
        /\ UNCHANGED <<plan, ctx>>
    BY <1>3
  <2>3. base'[c] = base[c] + 1 /\ base' \in [Clients -> Nat]
    BY <1>1, <2>2
  <2>4. 0 \in 0 .. MaxRetries
    OBVIOUS
  <2> QED
    BY <2>1, <2>2, <2>3, <2>4
<1>4. CASE ~(base[c] < Len(plan[c]) /\ ctx[c] = "live")
  BY <1>4
<1> QED
  BY <1>3, <1>4

LEMMA CountedType ==
    ASSUME NEW n \in 0 .. FailureThreshold
    PROVE  Counted(n) \in 0 .. FailureThreshold /\ Counted(n) >= n
  BY LimiterAssumption DEF Counted

\* The operations of the limiter keep its type, and open a circuit only at
\* the threshold.
LEMMA LimiterStep ==
    ASSUME LimiterTypeOK, OpenAfterFailures,
           \/ \E h \in Hosts : \/ TakeToken(h)
                              \/ ReportSuccess(h)
                              \/ ReportFailure(h)
           \/ LimiterTick
           \/ UNCHANGED limiter
    PROVE  LimiterTypeOK' /\ OpenAfterFailures'
<1> USE LimiterAssumption DEF LimiterTypeOK, OpenAfterFailures, IsOpen, limiter
<1>1. ASSUME NEW h \in Hosts, TakeToken(h)
      PROVE  LimiterTypeOK' /\ OpenAfterFailures'
  BY <1>1 DEF TakeToken
<1>2. ASSUME NEW h \in Hosts, ReportSuccess(h)
      PROVE  LimiterTypeOK' /\ OpenAfterFailures'
  BY <1>2 DEF ReportSuccess
<1>3. ASSUME NEW h \in Hosts, ReportFailure(h)
      PROVE  LimiterTypeOK' /\ OpenAfterFailures'
  <2>1. failures'[h] = Counted(failures[h]) /\ failures'[h] \in 0 .. FailureThreshold
    BY <1>3, CountedType DEF ReportFailure
  <2>2. failures'[h] >= failures[h]
    BY <2>1, CountedType
  <2> QED
    BY <1>3, <2>1, <2>2 DEF ReportFailure
<1>4. CASE LimiterTick
  BY <1>4 DEF LimiterTick
<1>5. CASE UNCHANGED limiter
  BY <1>5
<1> QED
  BY <1>1, <1>2, <1>3, <1>4, <1>5

LEMMA TypeStep ==
    ASSUME TypeOK, OpenAfterFailures, Next
    PROVE  TypeOK'
<1> USE UpstreamAssumption, LimiterAssumption DEF TypeOK, Stages, calls
<1>1. \A c \in Clients : Host(c) \in Hosts
  BY DEF Host
<1>2. LimiterTypeOK'
  BY <1>1, LimiterStep
     DEF Next, Begin, Refused, Pass, Send, Abandon, Responds, Answered, Retry,
         Failed, WakeUp, SleepCut, ContextEnds, Tick
<1>3. ASSUME NEW c \in Clients, NEW p \in Plans, Begin(c, p) PROVE TypeOK'
  <2>1. p \in Seq(Hosts) /\ 1 \in DOMAIN p
    OBVIOUS
  <2> QED
    BY <1>2, <1>3, <2>1 DEF Begin, Go
<1>4. ASSUME NEW c \in Clients, Refused(c) \/ Abandon(c) \/ SleepCut(c)
      PROVE  TypeOK'
  BY <1>2, <1>4, Leaving DEF Refused, Abandon, SleepCut
<1>5. ASSUME NEW c \in Clients, Pass(c) \/ WakeUp(c) PROVE TypeOK'
  BY <1>2, <1>5 DEF Pass, WakeUp, Go
<1>6. ASSUME NEW c \in Clients, Send(c) PROVE TypeOK'
  <2>1. late' \in [Hosts -> [Clients -> Nat]]
    <3> DEFINE counts == [late[Host(c)] EXCEPT ![c] = @ + 1]
    <3>1. counts \in [Clients -> Nat]
      <4>1. late[Host(c)] \in [Clients -> Nat]
        BY <1>1
      <4>2. late[Host(c)][c] + 1 \in Nat
        BY <4>1
      <4> QED
        BY <4>1, <4>2
    <3>2. [late EXCEPT ![Host(c)] = counts] \in [Hosts -> [Clients -> Nat]]
      BY <1>1, <3>1
    <3>3. [late EXCEPT ![Host(c)][c] = @ + 1] = [late EXCEPT ![Host(c)] = counts]
      OBVIOUS
    <3> QED
      BY <1>6, <3>2, <3>3 DEF Send
  <2> QED
    BY <1>2, <1>6, <2>1 DEF Send, Go
<1>7. ASSUME NEW c \in Clients, Answered(c) PROVE TypeOK'
  BY <1>1, <1>2, <1>7 DEF Answered, Go, Forget
<1>8. ASSUME NEW c \in Clients, Retry(c) PROVE TypeOK'
  BY <1>2, <1>8 DEF Retry, Go
<1>9. ASSUME NEW c \in Clients, Failed(c) PROVE TypeOK'
  BY <1>2, <1>9, Leaving DEF Failed
<1>10. ASSUME NEW c \in Clients, ContextEnds(c) PROVE TypeOK'
  BY <1>2, <1>10 DEF ContextEnds
<1>11. CASE Tick
  BY <1>2, <1>11 DEF Tick, Forget
<1> QED
  BY <1>3, <1>4, <1>5, <1>6, <1>7, <1>8, <1>9, <1>10, <1>11
     DEF Next, Responds

-----------------------------------------------------------------------------
(* Stragglers *)

\* What keeps the slate: no one gets into the bucket of a host whose circuit is
\* open, and no circuit closes on a count that stays.
LEMMA StragglersKept ==
    ASSUME StragglersSpent,
           \A d \in Clients : stage'[d] = "bucket" =>
               \/ stage[d] = "bucket" /\ plan'[d] = plan[d] /\ base'[d] = base[d]
               \/ ~(open[plan'[d][base'[d]]] > 0),
           \A h \in Hosts, d \in Clients : late'[h][d] > 0 =>
               late'[h][d] = late[h][d] /\ (open[h] > 0 => open'[h] > 0)
    PROVE  StragglersSpent'
<1>1. SUFFICES ASSUME NEW h \in Hosts, NEW d \in Clients, late'[h][d] > 0
               PROVE  /\ late'[h][d] = 1
                      /\ open'[h] > 0
                      /\ ~(stage'[d] = "bucket" /\ plan'[d][base'[d]] = h)
  BY DEF StragglersSpent, IsOpen, Host
<1>2. /\ late[h][d] = 1 /\ open[h] > 0
      /\ ~(stage[d] = "bucket" /\ plan[d][base[d]] = h)
  BY <1>1 DEF StragglersSpent, IsOpen, Host
<1> QED
  BY <1>1, <1>2

LEMMA StragglersStep ==
    ASSUME TypeOK, OpenAfterFailures, StragglersSpent, Next
    PROVE  StragglersSpent'
<1>1. /\ \A c \in Clients : Host(c) \in Hosts
      /\ \A h \in Hosts : late[h] \in [Clients -> Nat]
      /\ late \in [Hosts -> [Clients -> Nat]]
      /\ stage \in [Clients -> Stages] /\ base \in [Clients -> Nat]
      /\ plan \in [Clients -> Plans]
      /\ open \in [Hosts -> Nat]
  BY UpstreamAssumption, LimiterAssumption DEF Host, TypeOK, LimiterTypeOK
<1>2. ASSUME NEW c \in Clients, NEW p \in Plans, Begin(c, p)
      PROVE  StragglersSpent'
  BY <1>1, <1>2, StragglersKept DEF Begin, Go, limiter
<1>3. ASSUME NEW c \in Clients, Refused(c) \/ Abandon(c) \/ SleepCut(c)
      PROVE  StragglersSpent'
  <2>1. UNCHANGED <<late, open, plan>> /\ LeaveBase(c)
    BY <1>3 DEF Refused, Abandon, SleepCut, limiter, LeaveBase
  <2> QED
    BY <2>1, Leaving, StragglersKept
<1>4. ASSUME NEW c \in Clients, Pass(c) PROVE StragglersSpent'
  <2>1. /\ UNCHANGED <<late, open, plan, base>>
        /\ ~(open[plan[c][base[c]]] > 0)
        /\ \A d \in Clients \ {c} : stage'[d] = stage[d]
    BY <1>1, <1>4 DEF Pass, Go, IsOpen, limiter, Host
  <2> QED
    BY <2>1, StragglersKept
<1>5. ASSUME NEW c \in Clients, Send(c) PROVE StragglersSpent'
  <2> DEFINE h == Host(c)
  <2>1. UNCHANGED <<open, plan, base>> /\ stage' = [stage EXCEPT ![c] = "sent"]
    BY <1>5 DEF Send, TakeToken, Go
  <2>2. late[h][c] = 0
    <3>1. late[h][c] \in Nat /\ ~(late[h][c] > 0)
      BY <1>1, <1>5 DEF Send, StragglersSpent
    <3> QED
      BY <3>1
  <2>3. \A g \in Hosts, d \in Clients : g # h \/ d # c => late'[g][d] = late[g][d]
    BY <1>1, <1>5 DEF Send
  <2>4. late'[h][c] > 0 => late'[h][c] = 1 /\ open[h] > 0
    <3>1. CASE IsOpen(h)
      <4> DEFINE counts == [late[h] EXCEPT ![c] = @ + 1]
      <4>1. late' = [late EXCEPT ![h] = counts]
        BY <1>5, <3>1 DEF Send
      <4>2. late'[h] = counts
        BY ONLY <4>1, <1>1
      <4>3. counts[c] = late[h][c] + 1
        BY ONLY <1>1
      <4> HIDE DEF counts
      <4> QED
        BY <2>2, <4>2, <4>3, <3>1 DEF IsOpen
    <3>2. CASE ~IsOpen(h)
      BY <1>5, <2>2, <3>2 DEF Send
    <3> QED
      BY <3>1, <3>2
  <2>5. SUFFICES ASSUME NEW g \in Hosts, NEW d \in Clients, late'[g][d] > 0
                 PROVE  /\ late'[g][d] = 1
                        /\ open'[g] > 0
                        /\ ~(stage'[d] = "bucket" /\ plan'[d][base'[d]] = g)
    BY DEF StragglersSpent, IsOpen, Host
  <2>6. CASE g = h /\ d = c
    <3>1. stage'[d] = "sent"
      BY <1>1, <2>1, <2>6
    <3> QED
      BY <2>1, <2>4, <2>5, <2>6, <3>1
  <2>7. CASE g # h \/ d # c
    <3>1. late'[g][d] = late[g][d]
      BY <2>3, <2>7
    <3>2. /\ late[g][d] = 1 /\ open[g] > 0
          /\ ~(stage[d] = "bucket" /\ plan[d][base[d]] = g)
      BY <2>5, <3>1 DEF StragglersSpent, IsOpen, Host
    <3>3. stage'[d] = "bucket" => stage[d] = "bucket"
      BY <1>1, <2>1
    <3> QED
      BY <2>1, <3>1, <3>2, <3>3
  <2> QED
    BY <2>6, <2>7
<1>6. ASSUME NEW c \in Clients, Answered(c) PROVE StragglersSpent'
  <2>1. /\ UNCHANGED <<plan, base>> /\ stage'[c] # "bucket"
        /\ \A d \in Clients \ {c} : stage'[d] = stage[d]
    BY <1>1, <1>6 DEF Answered, Go
  <2>2. /\ \A g \in Hosts : late'[g] = IF open'[g] = 0 THEN [d \in Clients |-> 0]
                                                       ELSE late[g]
        /\ \A g \in Hosts : open'[g] \in Nat
    BY <1>1, <1>6 DEF Answered, ReportSuccess, Forget
  <2>3. \A g \in Hosts, d \in Clients : late'[g][d] > 0 =>
           late'[g][d] = late[g][d] /\ open'[g] > 0
    BY <2>2
  <2> QED
    BY <2>1, <2>3, StragglersKept
<1>7. ASSUME NEW c \in Clients, Failed(c)
      PROVE  StragglersSpent'
  <2>1. UNCHANGED late /\ LeaveBase(c) /\ ReportFailure(Host(c))
    BY <1>7 DEF Failed
  <2>2. \A g \in Hosts : open[g] > 0 => open'[g] > 0
    BY <1>1, <2>1, LimiterAssumption DEF ReportFailure
  <2> QED
    BY <2>1, <2>2, Leaving, StragglersKept
<1>8. ASSUME NEW c \in Clients,
             \/ Retry(c) \/ WakeUp(c)
             \/ ContextEnds(c)
      PROVE  StragglersSpent'
  <2>1. /\ UNCHANGED <<late, open, plan, base>>
        /\ stage'[c] # "bucket" \/ stage'[c] = stage[c]
        /\ \A d \in Clients \ {c} : stage'[d] = stage[d]
    BY <1>1, <1>8 DEF Retry, WakeUp, ContextEnds, Go, limiter
  <2> QED
    BY <2>1, StragglersKept
<1>9. CASE Tick
  <2>1. UNCHANGED <<stage, plan, base>>
    BY <1>9 DEF Tick, calls
  <2>2. /\ \A g \in Hosts : late'[g] = IF open'[g] = 0 THEN [d \in Clients |-> 0]
                                                       ELSE late[g]
        /\ \A g \in Hosts : open'[g] \in Nat
    BY <1>1, <1>9 DEF Tick, LimiterTick, Forget
  <2>3. \A g \in Hosts, d \in Clients : late'[g][d] > 0 =>
           late'[g][d] = late[g][d] /\ open'[g] > 0
    BY <2>2
  <2> QED
    BY <2>1, <2>3, StragglersKept
<1> QED
  BY <1>2, <1>3, <1>4, <1>5, <1>6, <1>7, <1>8, <1>9 DEF Next, Responds

-----------------------------------------------------------------------------
(* Theorems *)

LEMMA OpenStep ==
    ASSUME TypeOK, OpenAfterFailures, Next
    PROVE  OpenAfterFailures'
<1>1. \A c \in Clients : Host(c) \in Hosts
  BY UpstreamAssumption DEF TypeOK, Host
<1> QED
  BY <1>1, LimiterStep
     DEF TypeOK, Next, Begin, Refused, Pass, Send, Abandon, Responds, Answered,
         Retry, Failed, WakeUp, SleepCut, ContextEnds, Tick

LEMMA InductiveInit == Init => Inductive
  BY UpstreamAssumption, LimiterAssumption
     DEF Init, LimiterInit, Inductive, TypeOK, LimiterTypeOK, Stages,
         OpenAfterFailures, StragglersSpent, IsOpen

LEMMA InductiveStep == Inductive /\ [Next]_vars => Inductive'
<1>1. ASSUME Inductive, Next PROVE Inductive'
  BY <1>1, TypeStep, OpenStep, StragglersStep DEF Inductive
<1>2. ASSUME Inductive, UNCHANGED vars PROVE Inductive'
  BY <1>2 DEF vars, Inductive, TypeOK, LimiterTypeOK, OpenAfterFailures,
              StragglersSpent, IsOpen, Host
<1> QED
  BY <1>1, <1>2

\* The inductive invariant of limiter and clients holds.
THEOREM Invariance == Spec => []Inductive
<1> QED
  BY InductiveInit, InductiveStep, PTL DEF Spec

\* Every variable of limiter and clients keeps its type: no bucket is
\* overdrawn, and no call runs past its bases or its retries.
THEOREM TypeCorrect == Spec => []TypeOK
<1>1. Inductive => TypeOK
  BY DEF Inductive
<1> QED
  BY <1>1, Invariance, PTL

\* A circuit is open only after as many failures in a row as the threshold.
THEOREM OpenIsEarned == Spec => []OpenAfterFailures
<1>1. Inductive => OpenAfterFailures
  BY DEF Inductive
<1> QED
  BY <1>1, Invariance, PTL

\* An open circuit lets at most one more request of each client through.
THEOREM StragglersBounded == Spec => []OneStragglerEach
<1>1. Inductive => OneStragglerEach
  BY DEF Inductive, TypeOK, StragglersSpent, OneStragglerEach
<1> QED
  BY <1>1, Invariance, PTL

\* Nobody gets past the gate of a host while its circuit is open.
THEOREM OpenKeepsOut == Spec => OpenAdmitsNobody
<1> DEFINE Kept == \A h \in Hosts : IsOpen(h) /\ IsOpen(h)' => PastGate(h)' \subseteq PastGate(h)
<1>1. ASSUME TypeOK, Next PROVE Kept
  <2>1. SUFFICES ASSUME NEW h \in Hosts, open[h] > 0, NEW d \in Clients,
                        stage'[d] \in {"bucket", "sent"}, plan'[d][base'[d]] = h
                 PROVE  stage[d] \in {"bucket", "sent"} /\ plan[d][base[d]] = h
    BY DEF IsOpen, PastGate, Host
  <2>2. stage \in [Clients -> Stages]
    BY <1>1 DEF TypeOK
  <2>3. ASSUME NEW c \in Clients, LeaveBase(c)
        PROVE  stage[d] \in {"bucket", "sent"} /\ plan[d][base[d]] = h
    BY <1>1, <2>1, <2>3, Leaving
  <2>4. ASSUME NEW c \in Clients, NEW p \in Plans, Begin(c, p)
        PROVE  stage[d] \in {"bucket", "sent"} /\ plan[d][base[d]] = h
    <3>1. /\ stage' = [stage EXCEPT ![c] = "gate"] /\ plan' = [plan EXCEPT ![c] = p]
          /\ base' = [base EXCEPT ![c] = 1]
      BY <2>4 DEF Begin, Go
    <3>2. d # c
      BY <2>1, <2>2, <3>1
    <3>3. stage'[d] = stage[d] /\ plan'[d] = plan[d] /\ base'[d] = base[d]
      BY <1>1, <3>1, <3>2 DEF TypeOK
    <3> QED
      BY <2>1, <3>3
  <2>5. ASSUME NEW c \in Clients, Pass(c)
        PROVE  stage[d] \in {"bucket", "sent"} /\ plan[d][base[d]] = h
    BY <2>1, <2>2, <2>5 DEF Pass, Go, IsOpen, Host
  <2>6. ASSUME NEW c \in Clients,
               \/ Send(c) \/ Answered(c) \/ Retry(c) \/ WakeUp(c)
               \/ ContextEnds(c)
        PROVE  stage[d] \in {"bucket", "sent"} /\ plan[d][base[d]] = h
    <3>1. UNCHANGED <<plan, base>>
      BY <2>6 DEF Send, Answered, Retry, WakeUp, ContextEnds
    <3>2. stage'[d] \in {"bucket", "sent"} => stage[d] \in {"bucket", "sent"}
      BY <2>2, <2>6 DEF Send, Answered, Retry, WakeUp, ContextEnds, Go
    <3> QED
      BY <2>1, <3>1, <3>2
  <2>7. CASE Tick
    BY <2>1, <2>7 DEF Tick, calls
  <2> QED
    BY <1>1, <2>3, <2>4, <2>5, <2>6, <2>7
       DEF Next, Responds, Refused, Abandon, SleepCut, Failed
<1>2. ASSUME UNCHANGED vars PROVE Kept
  BY <1>2 DEF vars, IsOpen, PastGate, Host
<1>3. TypeOK /\ [Next]_vars => [Kept]_vars
  BY <1>1, <1>2
<1> QED
  BY <1>3, TypeCorrect, PTL DEF Spec, OpenAdmitsNobody

-----------------------------------------------------------------------------
(* Check of the RDAP provider *)

\* Every step of Check is a step of a client of the limiter, or none of its.
LEMMA UpstreamStep == [RdapNext]_all => [Next]_vars
<1>. SUFFICES ASSUME [RdapNext]_all PROVE Next \/ UNCHANGED vars
  OBVIOUS
<1>1. ASSUME NEW c \in Clients, NEW p \in Plans, CheckBegins(c, p) PROVE Next
  BY <1>1 DEF CheckBegins, Next
<1>2. ASSUME NEW c \in Clients, CheckWithoutBases(c) PROVE UNCHANGED vars
  BY <1>2 DEF CheckWithoutBases
<1>3. ASSUME NEW c \in Clients, NEW r, CheckAnswered(c, r) PROVE Next
  BY <1>3 DEF CheckAnswered, Next, Responds
<1>4. ASSUME NEW c \in Clients, CheckFails(c) \/ CheckThrottled(c) PROVE Next
  BY <1>4 DEF CheckFails, CheckThrottled, Next, Responds
<1>5. ASSUME NEW c \in Clients, CheckGoesOn(c) PROVE Next
  BY <1>5 DEF CheckGoesOn, Next, Responds
<1>6. CASE RdapTick
  BY <1>6 DEF RdapTick, Next
<1>7. CASE UNCHANGED all
  BY <1>7 DEF all
<1>. QED  BY <1>1, <1>2, <1>3, <1>4, <1>5, <1>6, <1>7 DEF RdapNext

\* Check of the RDAP provider is a client as Upstream has it, so that all that
\* is proved of circuits and their clients holds of it.
THEOREM CheckIsClient == RdapSpec => Spec
BY UpstreamStep, PTL DEF RdapSpec, RdapInit, Spec

-----------------------------------------------------------------------------
(* Bodies, findings and what they are not *)

LEMMA BodiesAreBodies == None \notin Bodies /\ NotFound \notin Bodies /\ None # NotFound
<1>1. \A b \in Bodies : "statuses" \in DOMAIN b
  BY BodiesAssumption DEF Body
<1>2. "statuses" \notin DOMAIN None /\ "statuses" \notin DOMAIN NotFound
  BY DEF None, NotFound
<1>3. "none" \in DOMAIN None /\ "none" \notin DOMAIN NotFound
  BY DEF None, NotFound
<1>. QED  BY <1>1, <1>2, <1>3

LEMMA FindingsAreFindings ==
    /\ RateLimited \notin {None, Error}
    /\ \A r : FindingOn(r) \notin {None, Error}
    /\ RateLimited.registration = "unknown"
    /\ FindingOn(NotFound).registration = "not_registered"
    /\ \A r \in Bodies : FindingOn(r).registration = "registered"
<1>1. "registration" \in DOMAIN RateLimited
  BY DEF RateLimited
<1>2. "registration" \notin DOMAIN None /\ "registration" \notin DOMAIN Error
  BY DEF None, Error
<1>3. \A r : "registration" \in DOMAIN FindingOn(r)
  BY DEF FindingOn
<1>. QED  BY <1>1, <1>2, <1>3, BodiesAreBodies DEF FindingOn, RateLimited

-----------------------------------------------------------------------------
(* What is heard is what is reported *)

\* A step of client c, after which it has heard h and reports o.
Speaks(c, h, o) ==
    /\ \A d \in Clients \ {c} : stage'[d] = stage[d]
    /\ heard' = [heard EXCEPT ![c] = h]
    /\ outcome' = [outcome EXCEPT ![c] = o]

\* If it fits what it does in Upstream, all is as it should be.
LEMMA SpeaksKeeps ==
    ASSUME ReportsWhatIsHeard, NEW c \in Clients,
           NEW h \in Bodies \cup {NotFound, None}, NEW o \in Reports,
           Speaks(c, h, o),
           stage'[c] # "idle" => h = None /\ o = None,
           h = None => o \in {None, Error, RateLimited},
           h # None => o = FindingOn(h)
    PROVE  ReportsWhatIsHeard'
<1>1. /\ heard' \in [Clients -> Bodies \cup {NotFound, None}]
      /\ outcome' \in [Clients -> Reports]
  BY DEF ReportsWhatIsHeard, Speaks
<1>2. \A d \in Clients : IF d = c THEN heard'[d] = h /\ outcome'[d] = o
                                  ELSE /\ stage'[d] = stage[d]
                                       /\ heard'[d] = heard[d]
                                       /\ outcome'[d] = outcome[d]
  BY DEF ReportsWhatIsHeard, Speaks
<1>. QED  BY <1>1, <1>2 DEF ReportsWhatIsHeard

\* A client that leaves a base goes on with the next or is done.
LEMMA LeavesBase ==
    ASSUME TypeOK, NEW c \in Clients,
           Refused(c) \/ Abandon(c) \/ SleepCut(c) \/ Failed(c)
    PROVE  /\ stage[c] # "idle"
           /\ \A d \in Clients \ {c} : stage'[d] = stage[d]
<1>1. stage[c] # "idle" /\ LeaveBase(c)
  BY DEF Refused, Abandon, SleepCut, Failed
<1>. QED  BY <1>1 DEF LeaveBase, Go, TypeOK

LEMMA LeavesKeeps ==
    ASSUME TypeOK, ReportsWhatIsHeard, NEW c \in Clients,
           Refused(c) \/ Abandon(c) \/ SleepCut(c) \/ Failed(c),
           NEW o \in {Error, RateLimited}, Leaves(c, o)
    PROVE  ReportsWhatIsHeard'
<1>1. heard[c] = None /\ outcome[c] = None
  BY LeavesBase DEF ReportsWhatIsHeard
<1>2. heard' = [heard EXCEPT ![c] = None]
  BY <1>1 DEF Leaves, ReportsWhatIsHeard
<1>3. CASE stage'[c] = "idle"
  <2>1. Speaks(c, None, o)
    BY <1>2, <1>3, LeavesBase DEF Leaves, Speaks
  <2>. QED  BY <1>3, <2>1, SpeaksKeeps DEF Reports
<1>4. CASE stage'[c] # "idle"
  <2>1. Speaks(c, None, None)
    BY <1>1, <1>2, <1>4, LeavesBase DEF Leaves, Speaks, ReportsWhatIsHeard
  <2>. QED  BY <2>1, SpeaksKeeps DEF Reports
<1>. QED  BY <1>3, <1>4

LEMMA GoesOnKeeps ==
    ASSUME TypeOK, ReportsWhatIsHeard, UNCHANGED answers,
           \A d \in Clients : stage[d] = "idle" => stage'[d] = "idle"
    PROVE  ReportsWhatIsHeard'
BY DEF ReportsWhatIsHeard, answers, Reports

LEMMA ReportsStep ==
    ASSUME TypeOK, ReportsWhatIsHeard, [RdapNext]_all
    PROVE  ReportsWhatIsHeard'
<1>1. ASSUME NEW c \in Clients, NEW p \in Plans, CheckBegins(c, p)
      PROVE  ReportsWhatIsHeard'
  <2>1. Speaks(c, None, None)
    BY <1>1 DEF CheckBegins, Begin, Go, Hear, Report, Speaks, TypeOK
  <2>. QED  BY <2>1, SpeaksKeeps DEF Reports
<1>2. ASSUME NEW c \in Clients, CheckWithoutBases(c)
      PROVE  ReportsWhatIsHeard'
  <2>1. Speaks(c, None, Error) /\ stage'[c] = "idle"
    BY <1>2 DEF CheckWithoutBases, Hear, Report, Speaks, vars
  <2>. QED  BY <2>1, SpeaksKeeps DEF Reports
<1>3. ASSUME NEW c \in Clients, NEW r \in Bodies \cup {NotFound}, CheckAnswered(c, r)
      PROVE  ReportsWhatIsHeard'
  <2>1. Speaks(c, r, FindingOn(r)) /\ stage'[c] = "idle"
    BY <1>3 DEF CheckAnswered, Answered, Go, Hear, Report, Speaks, TypeOK
  <2>2. r # None
    BY BodiesAreBodies
  <2>. QED  BY <2>1, <2>2, SpeaksKeeps DEF Reports
<1>4. ASSUME NEW c \in Clients, CheckFails(c) \/ CheckThrottled(c)
      PROVE  ReportsWhatIsHeard'
  BY <1>4, LeavesKeeps DEF CheckFails, CheckThrottled
<1>5. ASSUME NEW c \in Clients, CheckGoesOn(c)
      PROVE  ReportsWhatIsHeard'
  <2>1. \A d \in Clients : stage[d] = "idle" => stage'[d] = "idle"
    BY <1>5 DEF CheckGoesOn, Pass, Send, Retry, WakeUp, ContextEnds, Go, TypeOK
  <2>. QED  BY <1>5, <2>1, GoesOnKeeps DEF CheckGoesOn
<1>6. CASE RdapTick
  BY <1>6, GoesOnKeeps DEF RdapTick, Tick, calls
<1>7. CASE UNCHANGED all
  BY <1>7, GoesOnKeeps DEF all, vars, answers
<1>. QED
  BY <1>1, <1>2, <1>3, <1>4, <1>5, <1>6, <1>7 DEF RdapNext

\* A call reports what it has heard itself, and hears nothing before it is over.
THEOREM ReportsAreHeard == RdapSpec => []ReportsWhatIsHeard
<1>1. RdapInit => ReportsWhatIsHeard
  BY DEF RdapInit, ReportsWhatIsHeard, Reports
<1>. QED
  BY <1>1, ReportsStep, CheckIsClient, TypeCorrect, PTL DEF RdapSpec

\* "Not registered" takes a 404 to this very call, and "registered" a 200:
\* throttling, refusals, failures and the answers to earlier calls settle
\* nothing.
THEOREM OnlyAnswersCount == RdapSpec => []OnlyAnswersSettle
<1>1. ReportsWhatIsHeard => OnlyAnswersSettle
  <2>. SUFFICES ASSUME ReportsWhatIsHeard, NEW c \in Clients,
                       outcome[c] \notin {None, Error}
                PROVE  /\ outcome[c].registration = "not_registered" <=> heard[c] = NotFound
                       /\ outcome[c].registration = "registered" <=> heard[c] \in Bodies
    BY DEF OnlyAnswersSettle
  <2>1. CASE heard[c] = None
    BY <2>1, BodiesAreBodies, FindingsAreFindings DEF ReportsWhatIsHeard
  <2>2. CASE heard[c] = NotFound
    BY <2>2, BodiesAreBodies, FindingsAreFindings DEF ReportsWhatIsHeard
  <2>3. CASE heard[c] \in Bodies
    BY <2>3, BodiesAreBodies, FindingsAreFindings DEF ReportsWhatIsHeard
  <2>. QED  BY <2>1, <2>2, <2>3 DEF ReportsWhatIsHeard
<1>. QED  BY <1>1, ReportsAreHeard, PTL
-----------------------------------------------------------------------------
(* What is read of a 200 *)

\* The first of some indices is one of them.
LEMMA MinIsIn == \A S : S \subseteq Nat /\ S # {} => Min(S) \in S
<1>. SUFFICES ASSUME NEW S, S \subseteq Nat, S # {} PROVE Min(S) \in S
  OBVIOUS
<1>1. PICK m \in S : \A k \in S : ~(<<k, m>> \in OpToRel(<, Nat))
  BY NatLessThanWellFounded, WFMin
<1>2. \A k \in S : ~(k < m)
  BY <1>1 DEF OpToRel
<1>3. \A k \in S : m =< k
  BY <1>2
<1>. QED  BY <1>3 DEF Min

LEMMA OnlyOne == \A k \in Nat : Min({k}) = k /\ Max({k}) = k
BY DEF Min, Max

LEMMA RowsAreRows ==
    \A raw : \A k \in Rows(raw) :
        StatusMapping[k].status \in {"pending_delete", "redemption", "reserved", "blocked"}
BY DEF Rows, StatusMapping

LEMMA RowsAreNumbers == \A raw : Rows(raw) \subseteq Nat
BY DEF Rows, StatusMapping

\* The status of a registration is that of a row some listed status contains,
\* if there is one.
LEMMA StatusInIs ==
    ASSUME NEW statuses \in Seq(Seq(STRING))
    PROVE  \/ /\ StatusIn(statuses) = "registered"
              /\ Listed(statuses) = {}
           \/ /\ StatusIn(statuses) \in Listed(statuses)
              /\ StatusIn(statuses) \in {"pending_delete", "redemption", "reserved", "blocked"}
<1>. DEFINE telling == {i \in DOMAIN statuses : Rows(statuses[i]) # {}}
<1>1. CASE telling = {}
  BY <1>1 DEF StatusIn, Listed
<1>2. CASE telling # {}
  <2>. DEFINE i == Min(telling)
              k == Min(Rows(statuses[i]))
  <2>1. telling \subseteq Nat
    OBVIOUS
  <2>2. i \in telling
    <3>. HIDE DEF telling
    <3>. QED  BY <1>2, <2>1, MinIsIn
  <2>3. Rows(statuses[i]) # {} /\ i \in DOMAIN statuses
    BY <2>2
  <2>4. k \in Rows(statuses[i])
    <3>. HIDE DEF i
    <3>. QED  BY <2>3, MinIsIn, RowsAreNumbers
  <2>5. StatusIn(statuses) = StatusMapping[k].status
    BY <1>2 DEF StatusIn
  <2>. HIDE DEF i, k
  <2>. QED  BY <2>3, <2>4, <2>5, RowsAreRows DEF Listed
<1>. QED  BY <1>1, <1>2

LEMMA InfoIsInfo == \A body : InfoIn(body) # None
<1>1. \A body : "registrar" \in DOMAIN InfoIn(body)
  BY DEF InfoIn
<1>2. "registrar" \notin DOMAIN None
  BY DEF None
<1>. QED  BY <1>1, <1>2

\* Nothing that Check reports is unknown to the engine's model of RDAP.
THEOREM ChecksAreReplies == RdapSpec => []KeepsToReplies
<1>. DEFINE Fits(o) == \E r \in Engine!RdapReplies :
                          /\ r.registration = o.registration
                          /\ r.status = o.status
                          /\ r.info <=> o.info # None
<1>1. Fits(RateLimited)
  <2>1. Engine!Found("rdap", "unknown", "rate_limited", {"rdap:rate_limited"}, "", FALSE)
           \in Engine!RdapReplies
    BY DEF Engine!RdapReplies
  <2>. QED  BY <2>1 DEF RateLimited, Engine!Found
<1>2. Fits(FindingOn(NotFound))
  <2>1. Engine!Found("rdap", "not_registered", "available", {"rdap:no_registration"},
                     "endpoint", FALSE) \in Engine!RdapReplies
    BY DEF Engine!RdapReplies
  <2>. QED  BY <2>1 DEF FindingOn, Engine!Found
<1>3. ASSUME NEW b \in Bodies PROVE Fits(FindingOn(b))
  <2>. DEFINE s == StatusIn(b.statuses)
              o == [registration |-> "registered", status |-> s, info |-> InfoIn(b)]
  <2>1. s \in {"registered", "pending_delete", "redemption", "reserved", "blocked"}
    BY StatusInIs, BodiesAssumption DEF Body
  <2>2. FindingOn(b) = o
    BY BodiesAreBodies DEF FindingOn
  <2>. HIDE DEF s
  <2>3. o.registration = "registered" /\ o.status = s /\ o.info # None
    BY InfoIsInfo
  <2>4. \/ Engine!Found("rdap", "registered", s, {"rdap:registration_exists"},
                        "endpoint", TRUE) \in Engine!RdapReplies
        \/ Engine!Found("rdap", "registered", s, {"rdap:registration_exists", "rdap:status"},
                        "endpoint", TRUE) \in Engine!RdapReplies
    BY <2>1 DEF Engine!RdapReplies
  <2>5. \A tags : LET r == Engine!Found("rdap", "registered", s, tags, "endpoint", TRUE)
                  IN  r.registration = "registered" /\ r.status = s /\ r.info = TRUE
    BY DEF Engine!Found
  <2>. QED  BY <2>2, <2>3, <2>4, <2>5
<1>4. ReportsWhatIsHeard => KeepsToReplies
  <2>. HIDE DEF Fits
  <2>1. \A r \in Reports : r \in {None, Error} \/ Fits(r)
    BY <1>1, <1>2, <1>3 DEF Reports
  <2>. QED  BY <2>1 DEF ReportsWhatIsHeard, KeepsToReplies, Fits
<1>. QED  BY <1>4, ReportsAreHeard, PTL

\* A permutation takes every place from somewhere.
LEMMA ShuffledIs ==
    ASSUME NEW T, NEW s \in Seq(T), NEW t \in Shuffled(s)
    PROVE  \E p \in [DOMAIN s -> DOMAIN s] :
              /\ DOMAIN t = DOMAIN s
              /\ \A i \in DOMAIN s : t[i] = s[p[i]]
              /\ \A i, j \in DOMAIN s : i # j => p[i] # p[j]
              /\ \A j \in DOMAIN s : \E i \in DOMAIN s : p[i] = j
<1>1. PICK p \in [DOMAIN s -> DOMAIN s] :
         /\ \A i, j \in DOMAIN s : i # j => p[i] # p[j]
         /\ t = [i \in DOMAIN s |-> s[p[i]]]
  BY DEF Shuffled
<1>2. DOMAIN s = 1 .. Len(s) /\ Len(s) \in Nat
  OBVIOUS
<1>3. IsFiniteSet(DOMAIN s)
  BY <1>2, FS_Interval
<1>4. p \in Injection(DOMAIN s, DOMAIN s)
  BY <1>1 DEF Injection, IsInjective
<1>5. p \in Surjection(DOMAIN s, DOMAIN s)
  BY <1>3, <1>4, FS_Injection
<1>. QED  BY <1>1, <1>5 DEF Surjection

\* What is true of one element at most is true of the same one, or of none, in
\* a permutation.
LEMMA OneStays ==
    ASSUME NEW T, NEW s \in Seq(T), NEW t \in Shuffled(s), NEW U,
           \A i, j \in DOMAIN s : s[i] \in U /\ s[j] \in U => i = j
    PROVE  \/ /\ \A k \in DOMAIN s : s[k] \notin U
              /\ \A k \in DOMAIN t : t[k] \notin U
           \/ \E i \in DOMAIN s, j \in DOMAIN t :
                 /\ i \in Nat /\ \A k \in DOMAIN s : s[k] \in U <=> k = i
                 /\ j \in Nat /\ \A k \in DOMAIN t : t[k] \in U <=> k = j
                 /\ s[i] = t[j]
<1>1. PICK p \in [DOMAIN s -> DOMAIN s] :
              /\ DOMAIN t = DOMAIN s
              /\ \A i \in DOMAIN s : t[i] = s[p[i]]
              /\ \A i, j \in DOMAIN s : i # j => p[i] # p[j]
              /\ \A j \in DOMAIN s : \E i \in DOMAIN s : p[i] = j
  BY ShuffledIs
<1>2. CASE \A k \in DOMAIN s : s[k] \notin U
  BY <1>1, <1>2
<1>3. ASSUME NEW i \in DOMAIN s, s[i] \in U
      PROVE  \E j \in DOMAIN t :
                /\ i \in Nat /\ \A k \in DOMAIN s : s[k] \in U <=> k = i
                /\ j \in Nat /\ \A k \in DOMAIN t : t[k] \in U <=> k = j
                /\ s[i] = t[j]
  <2>1. PICK j \in DOMAIN s : p[j] = i
    BY <1>1
  <2>2. t[j] = s[i] /\ j \in DOMAIN t
    BY <1>1, <2>1
  <2>3. \A k \in DOMAIN s : s[k] \in U <=> k = i
    BY <1>3
  <2>4. \A k \in DOMAIN t : t[k] \in U <=> k = j
    BY <1>1, <2>1, <2>3
  <2>5. i \in Nat /\ j \in Nat
    OBVIOUS
  <2>. QED  BY <2>2, <2>3, <2>4, <2>5
<1>. QED  BY <1>2, <1>3

LEMMA DateStays ==
    ASSUME NEW body \in Body, Unambiguous(body),
           NEW events \in Shuffled(body.events), NEW action
    PROVE  DateOf(events, action) = DateOf(body.events, action)
<1>. DEFINE Event == [action : STRING, date : STRING]
            U == {e \in Event : e.action = action /\ e.date # BadDate}
            s == body.events
<1>1. s \in Seq(Event) /\ events \in Shuffled(s)
  BY DEF Body
<1>2. \A i, j \in DOMAIN s : s[i] \in U /\ s[j] \in U => i = j
  BY DEF Unambiguous
<1>. HIDE DEF s, Event
<1>3. DOMAIN events = DOMAIN s /\ \A i \in DOMAIN s : events[i] \in Event
  BY <1>1, ShuffledIs
<1>4. ASSUME \A k \in DOMAIN s : s[k] \notin U,
             \A k \in DOMAIN events : events[k] \notin U
      PROVE  DateOf(events, action) = DateOf(s, action)
  <2>1. /\ {k \in DOMAIN s : s[k].action = action /\ s[k].date # BadDate} = {}
        /\ {k \in DOMAIN events : events[k].action = action /\ events[k].date # BadDate} = {}
    BY <1>1, <1>3, <1>4
  <2>. QED  BY <2>1 DEF DateOf
<1>5. ASSUME NEW i \in DOMAIN s, NEW j \in DOMAIN events,
             /\ i \in Nat /\ \A k \in DOMAIN s : s[k] \in U <=> k = i
             /\ j \in Nat /\ \A k \in DOMAIN events : events[k] \in U <=> k = j
             /\ s[i] = events[j]
      PROVE  DateOf(events, action) = DateOf(s, action)
  <2>1. /\ {k \in DOMAIN s : s[k].action = action /\ s[k].date # BadDate} = {i}
        /\ {k \in DOMAIN events : events[k].action = action /\ events[k].date # BadDate} = {j}
    BY <1>1, <1>3, <1>5
  <2>2. DateOf(s, action) = s[i].date /\ DateOf(events, action) = events[j].date
    BY <1>5, <2>1, OnlyOne DEF DateOf
  <2>. QED  BY <1>5, <2>2
<1>. HIDE DEF U
<1>6. \/ /\ \A k \in DOMAIN s : s[k] \notin U
         /\ \A k \in DOMAIN events : events[k] \notin U
      \/ \E i \in DOMAIN s, j \in DOMAIN events :
            /\ i \in Nat /\ \A k \in DOMAIN s : s[k] \in U <=> k = i
            /\ j \in Nat /\ \A k \in DOMAIN events : events[k] \in U <=> k = j
            /\ s[i] = events[j]
  BY <1>1, <1>2, OneStays
<1>7. DateOf(events, action) = DateOf(s, action)
  BY <1>4, <1>5, <1>6
<1>. QED  BY <1>7 DEF s

LEMMA RegistrarStays ==
    ASSUME NEW body \in Body, Unambiguous(body),
           NEW entities \in Shuffled(body.entities)
    PROVE  Registrar(entities) = Registrar(body.entities)
<1>. DEFINE Entity == [roles : SUBSET STRING, fn : STRING, handle : STRING, ianaID : STRING]
            U == {e \in Entity : "registrar" \in e.roles}
            s == body.entities
<1>1. s \in Seq(Entity) /\ entities \in Shuffled(s)
  BY DEF Body
<1>2. \A i, j \in DOMAIN s : s[i] \in U /\ s[j] \in U => i = j
  BY DEF Unambiguous
<1>. HIDE DEF s, Entity
<1>3. DOMAIN entities = DOMAIN s /\ \A i \in DOMAIN s : entities[i] \in Entity
  BY <1>1, ShuffledIs
<1>4. ASSUME \A k \in DOMAIN s : s[k] \notin U,
             \A k \in DOMAIN entities : entities[k] \notin U
      PROVE  Registrar(entities) = Registrar(s)
  <2>1. /\ {k \in DOMAIN s : "registrar" \in s[k].roles} = {}
        /\ {k \in DOMAIN entities : "registrar" \in entities[k].roles} = {}
    BY <1>1, <1>3, <1>4
  <2>. QED  BY <2>1 DEF Registrar
<1>5. ASSUME NEW i \in DOMAIN s, NEW j \in DOMAIN entities,
             /\ i \in Nat /\ \A k \in DOMAIN s : s[k] \in U <=> k = i
             /\ j \in Nat /\ \A k \in DOMAIN entities : entities[k] \in U <=> k = j
             /\ s[i] = entities[j]
      PROVE  Registrar(entities) = Registrar(s)
  <2>1. /\ {k \in DOMAIN s : "registrar" \in s[k].roles} = {i}
        /\ {k \in DOMAIN entities : "registrar" \in entities[k].roles} = {j}
    BY <1>1, <1>3, <1>5
  <2>. QED  BY <1>5, <2>1, OnlyOne DEF Registrar
<1>. HIDE DEF U
<1>6. \/ /\ \A k \in DOMAIN s : s[k] \notin U
         /\ \A k \in DOMAIN entities : entities[k] \notin U
      \/ \E i \in DOMAIN s, j \in DOMAIN entities :
            /\ i \in Nat /\ \A k \in DOMAIN s : s[k] \in U <=> k = i
            /\ j \in Nat /\ \A k \in DOMAIN entities : entities[k] \in U <=> k = j
            /\ s[i] = entities[j]
  BY <1>1, <1>2, OneStays
<1>7. Registrar(entities) = Registrar(s)
  BY <1>4, <1>5, <1>6
<1>. QED  BY <1>7 DEF s

\* The order of a registry's lists makes no difference to the status beyond
\* which of the listed ones it is, and none to the data.
THEOREM ListingIsIgnored == RdapSpec => []AnswersAreWhatIsListed
<1>1. ASSUME NEW body \in Bodies, Unambiguous(body),
             NEW events \in Shuffled(body.events), NEW entities \in Shuffled(body.entities)
      PROVE  InfoIn([body EXCEPT !.events = events, !.entities = entities]) = InfoIn(body)
  <2>1. body \in Body
    BY BodiesAssumption
  <2>. DEFINE shuffled == [body EXCEPT !.events = events, !.entities = entities]
  <2>2. shuffled.events = events /\ shuffled.entities = entities
    BY <2>1 DEF Body
  <2>. HIDE DEF shuffled
  <2>3. \A action : DateOf(events, action) = DateOf(body.events, action)
    BY <1>1, <2>1, DateStays
  <2>4. Registrar(entities) = Registrar(body.entities)
    BY <1>1, <2>1, RegistrarStays
  <2>5. InfoIn(shuffled) = InfoIn(body)
    BY <2>2, <2>3, <2>4 DEF InfoIn
  <2>. QED  BY <2>5 DEF shuffled
<1>2. ASSUME NEW body \in Bodies PROVE StatusIsListed(body, StatusIn(body.statuses))
  <2>1. body.statuses \in Seq(Seq(STRING))
    BY BodiesAssumption DEF Body
  <2>. QED  BY <2>1, StatusInIs DEF StatusIsListed
<1>3. ASSUME NEW body \in Bodies
      PROVE  /\ FindingOn(body).status = StatusIn(body.statuses)
             /\ FindingOn(body).info = InfoIn(body)
  BY BodiesAreBodies DEF FindingOn
<1>4. ReportsWhatIsHeard => AnswersAreWhatIsListed
  <2>. SUFFICES ASSUME ReportsWhatIsHeard, NEW c \in Clients, heard[c] \in Bodies
                PROVE  /\ StatusIsListed(heard[c], outcome[c].status)
                       /\ InfoIgnoresListing(heard[c], outcome[c].info)
    BY DEF AnswersAreWhatIsListed
  <2>1. outcome[c] = FindingOn(heard[c])
    BY BodiesAreBodies DEF ReportsWhatIsHeard
  <2>. QED  BY <1>1, <1>2, <1>3, <2>1 DEF InfoIgnoresListing
<1>. QED  BY <1>4, ReportsAreHeard, PTL
=============================================================================
