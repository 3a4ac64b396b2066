----------------------------- MODULE WhoisProofs -----------------------------
(***************************************************************************)
(* For any lookups, TLDs, records and replies: what the WHOIS registry     *)
(* knows is what IANA said unless the reply was cut short, and a reply cut *)
(* short is never the reason for an `available`.                           *)
(***************************************************************************)
EXTENDS Whois, WellFoundedInduction, TLAPS

Lines == [says : SUBSET Markers, key : Keys, value : STRING]

USE DEF Places, NoEntry, NoFinding, NoReply, Nobody, Go, Return

\* What is left of a line says no more than the line.
LEMMA CutLineSaysLess ==
    ASSUME NEW l, NEW m \in CutLine(l)
    PROVE  m.says \subseteq l.says
BY DEF CutLine

\* What is left of a reply says no more than the reply (query, whois.go:126).
LEMMA CutSaysLess ==
    ASSUME NEW body \in Seq(Lines), NEW part \in Heard(body)
    PROVE  Said(part) \subseteq Said(body)
<1>1. CASE part = body
  BY <1>1
<1>2. CASE part \in Cut(body)
  <2>1. PICK n \in 0 .. Len(body) - 1 :
          \/ part = SubSeq(body, 1, n)
          \/ \E l \in CutLine(body[n + 1]) : part = Append(SubSeq(body, 1, n), l)
    BY <1>2 DEF Cut
  <2>2. /\ Len(SubSeq(body, 1, n)) = n
        /\ SubSeq(body, 1, n) \in Seq(Lines)
        /\ \A i \in 1 .. n : SubSeq(body, 1, n)[i] = body[i]
    BY <2>1
  <2>3. CASE part = SubSeq(body, 1, n)
    BY <2>2, <2>3 DEF Said
  <2>4. ASSUME NEW l \in CutLine(body[n + 1]), part = Append(SubSeq(body, 1, n), l)
        PROVE  Said(part) \subseteq Said(body)
    <3>1. l.says \subseteq body[n + 1].says
      BY <2>4, CutLineSaysLess
    <3>2. /\ DOMAIN part = 1 .. n + 1
          /\ part[n + 1] = l
          /\ \A i \in 1 .. n : part[i] = body[i]
      BY <2>2, <2>4
    <3>3. n + 1 \in DOMAIN body /\ 1 .. n \subseteq DOMAIN body
      BY <2>1
    <3>. QED  BY <3>1, <3>2, <3>3 DEF Said
  <2>. QED  BY <2>1, <2>3, <2>4
<1>. QED  BY <1>1, <1>2 DEF Heard

\* A part of a reply that counts as "no match" is part of one that does
\* (classify, parse.go:54): its order of precedence is what makes it so.
THEOREM PartsDoNotFree ==
    ASSUME NEW body \in Seq(Lines), NEW part \in Heard(body),
           Classify(part).registration = "not_registered"
    PROVE  Classify(body).registration = "not_registered"
<1>1. "not_found" \in Said(part)
  BY DEF Classify
<1>2. "not_found" \in Said(body)
  BY <1>1, CutSaysLess
<1>. QED  BY <1>2 DEF Classify

-----------------------------------------------------------------------------
(* Types, and what the registry knows. *)

LEMMA Start == Init => Typed /\ OnlyCutRepliesMislead
BY WhoisAssumption DEF Init, Typed, OnlyCutRepliesMislead, Servers, Fresh

\* A lookup that goes on with an entry keeps both facts.
LEMMA OnwardKeeps ==
    ASSUME Typed, OnlyCutRepliesMislead,
           NEW c \in Clients,
           NEW e \in [server : Servers, age : 0 .. TTL, cut : BOOLEAN],
           Onward(c, e),
           tld' \in [Clients -> Tlds],
           \A d \in Clients \ {c} : tld'[d] = tld[d],
           ~e.cut => e.server = ServerIn(Record[tld'[c]])
    PROVE  /\ place' \in [Clients -> Places]
           /\ server' \in [Clients -> [server : Servers, cut : BOOLEAN]]
           /\ \A d \in Clients : place'[d] \in {"supported", "gate", "asked"} =>
                 /\ server'[d].server # NoServer
                 /\ ~server'[d].cut => server'[d].server = ServerIn(Record[tld'[d]])
BY DEF Typed, OnlyCutRepliesMislead, Onward

\* Server answers from memory, or asks.
LEMMA ReadKeeps ==
    ASSUME Typed, OnlyCutRepliesMislead,
           NEW c \in Clients, NEW t \in Tlds,
           NEW from \in {"supports", "check"},
           KnownServer(c, t) \/ AskIANA(c, t, from),
           tld' = [tld EXCEPT ![c] = t]
    PROVE  Typed' /\ OnlyCutRepliesMislead'
<1>0. /\ entries' = entries
      /\ tld' \in [Clients -> Tlds]
      /\ tld'[c] = t
      /\ \A d \in Clients \ {c} : tld'[d] = tld[d]
  BY DEF Typed, KnownServer, AskIANA
<1>1. CASE KnownServer(c, t)
  <2>1. entries[t] \in [server : Servers, age : 0 .. TTL, cut : BOOLEAN]
    BY DEF Typed
  <2>2. Onward(c, entries[t]) /\ (~entries[t].cut => entries[t].server = ServerIn(Record[t]))
    BY <1>1 DEF KnownServer, OnlyCutRepliesMislead
  <2>3. /\ place' \in [Clients -> Places]
        /\ server' \in [Clients -> [server : Servers, cut : BOOLEAN]]
        /\ \A d \in Clients : place'[d] \in {"supported", "gate", "asked"} =>
              /\ server'[d].server # NoServer
              /\ ~server'[d].cut => server'[d].server = ServerIn(Record[tld'[d]])
    BY <1>0, <2>1, <2>2, OnwardKeeps
  <2>. QED  BY <1>0, <2>3 DEF Typed, OnlyCutRepliesMislead, Fresh
<1>2. CASE AskIANA(c, t, from)
  BY <1>0, <1>2 DEF AskIANA, Typed, OnlyCutRepliesMislead, Fresh
<1>. QED  BY <1>1, <1>2

LEMMA Preservation ==
    ASSUME Typed, OnlyCutRepliesMislead, [Next]_vars
    PROVE  Typed' /\ OnlyCutRepliesMislead'
<1>1. CASE Tick
  <2>1. entries' = [t \in Tlds |-> IF entries[t].age < TTL
                                   THEN [entries[t] EXCEPT !.age = @ + 1] ELSE entries[t]]
    BY <1>1 DEF Tick, Fresh
  <2>2. ASSUME NEW t \in Tlds
        PROVE  /\ entries'[t] \in [server : Servers, age : 0 .. TTL, cut : BOOLEAN]
               /\ entries'[t].server = entries[t].server
               /\ entries'[t].cut = entries[t].cut
               /\ entries'[t].age < TTL => entries[t].age < TTL
    <3>1. entries[t] \in [server : Servers, age : 0 .. TTL, cut : BOOLEAN]
      BY DEF Typed
    <3>2. CASE entries[t].age < TTL
      <4>1. entries'[t] = [entries[t] EXCEPT !.age = @ + 1]
        BY <2>1, <3>2
      <4>2. entries[t].age + 1 \in 0 .. TTL
        BY <3>1, <3>2, WhoisAssumption
      <4>. QED  BY <3>1, <3>2, <4>1, <4>2
    <3>3. CASE ~(entries[t].age < TTL)
      BY <2>1, <3>1, <3>3
    <3>. QED  BY <3>2, <3>3
  <2>3. UNCHANGED <<place, tld, server>>
    BY <1>1 DEF Tick
  <2>. QED  BY <2>1, <2>2, <2>3 DEF Typed, OnlyCutRepliesMislead, Fresh
<1>2. ASSUME NEW c \in Clients, NEW t \in Tlds, Supports(c, t)
      PROVE  Typed' /\ OnlyCutRepliesMislead'
  BY <1>2, ReadKeeps DEF Supports
<1>3. ASSUME NEW c \in Clients, Check(c)
      PROVE  Typed' /\ OnlyCutRepliesMislead'
  <2>1. tld[c] \in Tlds /\ tld' = [tld EXCEPT ![c] = tld[c]]
    BY <1>3 DEF Check, Typed
  <2>. QED  BY <1>3, <2>1, ReadKeeps DEF Check
<1>4. ASSUME NEW c \in Clients, NEW body \in Heard(Record[tld[c]]), Learn(c, body)
      PROVE  Typed' /\ OnlyCutRepliesMislead'
  <2> DEFINE e == [server |-> ServerIn(body), age |-> 0, cut |-> body # Record[tld[c]]]
  <2>1. e \in [server : Servers, age : 0 .. TTL, cut : BOOLEAN]
    BY WhoisAssumption, <1>4 DEF Servers, Typed
  <2>2. entries' = [entries EXCEPT ![tld[c]] = e] /\ Onward(c, e) /\ tld' = tld
    BY <1>4 DEF Learn
  <2>3. ~e.cut => e.server = ServerIn(Record[tld'[c]])
    BY <2>2
  <2>. HIDE DEF e
  <2>4. /\ place' \in [Clients -> Places]
        /\ server' \in [Clients -> [server : Servers, cut : BOOLEAN]]
        /\ \A d \in Clients : place'[d] \in {"supported", "gate", "asked"} =>
              /\ server'[d].server # NoServer
              /\ ~server'[d].cut => server'[d].server = ServerIn(Record[tld'[d]])
    BY <2>1, <2>2, <2>3, OnwardKeeps DEF Typed
  <2>. QED  BY <2>1, <2>2, <2>3, <2>4 DEF Typed, OnlyCutRepliesMislead, Fresh
<1>5. ASSUME NEW c \in Clients,
             GiveUp(c) \/ LearnFails(c) \/ Refused(c) \/ Fails(c)
               \/ \E body \in Heard(whole[c]) : Answered(c, body)
      PROVE  Typed' /\ OnlyCutRepliesMislead'
  <2>1. /\ Return(c)
        /\ UNCHANGED <<entries, tld>>
    BY <1>5 DEF GiveUp, LearnFails, Refused, Fails, Answered
  <2>2. [server |-> NoServer, cut |-> FALSE] \in [server : Servers, cut : BOOLEAN]
    BY DEF Servers
  <2>. QED  BY <2>1, <2>2 DEF Typed, OnlyCutRepliesMislead, Fresh
<1>6. ASSUME NEW c \in Clients, NEW reply \in Texts, Query(c, reply)
      PROVE  Typed' /\ OnlyCutRepliesMislead'
  BY <1>6 DEF Query, Typed, OnlyCutRepliesMislead, Fresh
<1>7. CASE UNCHANGED vars
  BY <1>7 DEF vars, Typed, OnlyCutRepliesMislead, Fresh
<1>. QED  BY <1>1, <1>2, <1>3, <1>4, <1>5, <1>6, <1>7 DEF Next, Step

\* Registry and lookups are wrong on a TLD only after a reply that was cut.
THEOREM OnlyCutsMislead == Spec => []OnlyCutRepliesMislead
BY Start, Preservation, PTL DEF Spec

-----------------------------------------------------------------------------
(* Findings. *)

\* What there is to classify is a reply of a registry, and a lookup has no
\* finding before its query is over.
RepliesKnown ==
    /\ whole \in [Clients -> Texts \cup {NoReply}]
    /\ finding = [c \in Clients |-> finding[c]]
    /\ \A c \in Clients : place[c] # "idle" => finding[c] = NoFinding
    /\ \A c \in Clients : finding[c] # NoFinding => Fits(finding[c])

LEMMA RepliesAreText == Texts \cup {NoReply} \subseteq Seq(Lines)
<1>1. Texts \subseteq Seq(Lines)
  BY WhoisAssumption DEF Lines
<1>2. NoReply \in Seq(Lines)
  OBVIOUS
<1>. QED  BY <1>1, <1>2

\* Whatever a reply says, the engine reckons with it.
LEMMA ClassifyFits == \A body : Fits(Classify(body))
<1>1. \A body : InfoIn(body) # NoInfo
  BY DEF InfoIn, NoInfo
<1>2. TAKE body
<1>. DEFINE f == Classify(body)
<1>3. CASE "not_found" \in Said(body)
  BY <1>3 DEF Classify, Fits, Engine!WhoisReplies, Engine!Found
<1>4. CASE "not_found" \notin Said(body) /\ "registered" \in Said(body)
  <2>1. f.registration = "registered" /\ f.status \in {"registered", "reserved"} /\ f.info # NoInfo
    BY <1>1, <1>4 DEF Classify
  <2>. QED  BY <2>1 DEF Fits, Engine!WhoisReplies, Engine!Found
<1>5. CASE "not_found" \notin Said(body) /\ "registered" \notin Said(body)
  <2>1. f.registration = "unknown" /\ f.status = "unknown" /\ f.info = NoInfo
    BY <1>5 DEF Classify
  <2>. QED  BY <2>1 DEF Fits, Engine!WhoisReplies, Engine!Found
<1>. QED  BY <1>3, <1>4, <1>5

LEMMA FindingsStart == Init => RepliesKnown /\ TruncationNeverFrees
BY DEF Init, RepliesKnown, TruncationNeverFrees

LEMMA FindingsPreserved ==
    ASSUME Typed, RepliesKnown, TruncationNeverFrees, [Next]_vars
    PROVE  RepliesKnown' /\ TruncationNeverFrees'
<1>1. ASSUME NEW c \in Clients, NEW t \in Tlds, Supports(c, t)
      PROVE  RepliesKnown' /\ TruncationNeverFrees'
  <2>1. /\ whole' = [whole EXCEPT ![c] = NoReply]
        /\ finding' = [finding EXCEPT ![c] = NoFinding]
        /\ \A d \in Clients \ {c} : place'[d] = place[d]
    BY <1>1 DEF Supports, KnownServer, Onward, AskIANA, Typed
  <2>. QED  BY <2>1 DEF RepliesKnown, TruncationNeverFrees
<1>2. ASSUME UNCHANGED <<whole, finding>>,
             \A d \in Clients : place'[d] # "idle" => place[d] # "idle"
      PROVE  RepliesKnown' /\ TruncationNeverFrees'
  BY <1>2 DEF RepliesKnown, TruncationNeverFrees
<1>3. ASSUME NEW c \in Clients,
             Check(c) \/ GiveUp(c) \/ LearnFails(c) \/ Fails(c)
               \/ \E body \in Heard(Record[tld[c]]) : Learn(c, body)
      PROVE  RepliesKnown' /\ TruncationNeverFrees'
  <2>1. UNCHANGED <<whole, finding>> /\ place[c] # "idle"
    BY <1>3 DEF Check, GiveUp, LearnFails, Fails, Learn
  <2>2. \A d \in Clients \ {c} : place'[d] = place[d]
    BY <1>3 DEF Check, GiveUp, LearnFails, Fails, Learn, KnownServer, AskIANA, Onward, Typed
  <2>. QED  BY <1>2, <2>1, <2>2
<1>4. ASSUME NEW c \in Clients, Refused(c)
      PROVE  RepliesKnown' /\ TruncationNeverFrees'
  <2>1. Fits([registration |-> "unknown", status |-> "rate_limited", info |-> NoInfo])
    BY DEF Fits, Engine!WhoisReplies, Engine!Found
  <2>. QED  BY <1>4, <2>1 DEF Refused, RepliesKnown, TruncationNeverFrees, Typed
<1>5. ASSUME NEW c \in Clients, NEW reply \in Texts, Query(c, reply)
      PROVE  RepliesKnown' /\ TruncationNeverFrees'
  BY <1>5 DEF Query, RepliesKnown, TruncationNeverFrees, Typed
<1>6. ASSUME NEW c \in Clients, NEW body \in Heard(whole[c]), Answered(c, body)
      PROVE  RepliesKnown' /\ TruncationNeverFrees'
  <2>1. whole[c] \in Seq(Lines)
    BY RepliesAreText DEF RepliesKnown
  <2>2. Classify(body).registration = "not_registered" =>
            Classify(whole[c]).registration = "not_registered"
    BY <1>6, <2>1, PartsDoNotFree
  <2>3. /\ finding' = [finding EXCEPT ![c] = Classify(body)]
        /\ whole' = whole
        /\ place' = [place EXCEPT ![c] = "idle"]
    BY <1>6 DEF Answered
  <2>. QED  BY <2>2, <2>3, ClassifyFits DEF RepliesKnown, TruncationNeverFrees, Typed
<1>. QED
  BY <1>1, <1>2, <1>3, <1>4, <1>5, <1>6 DEF Next, Step, Tick, vars

\* Every variable of Whois keeps its type; in particular no lookup queries
\* without a server, though Check reads the registry anew, and no finding is
\* one the engine does not reckon with.
THEOREM TypeCorrect == Spec => []TypeOK
<1>1. Typed /\ RepliesKnown => TypeOK
  BY DEF TypeOK, RepliesKnown
<1>. QED  BY <1>1, Start, Preservation, FindingsStart, FindingsPreserved, PTL DEF Spec

\* No part of a reply makes a domain `available` that the whole does not.
THEOREM CutsNeverFree == Spec => []TruncationNeverFrees
BY Start, Preservation, FindingsStart, FindingsPreserved, PTL DEF Spec
-----------------------------------------------------------------------------
(* What parseInfo takes from a part of a reply *)

\* The first of some lines.
LEMMA MinIsIn ==
    ASSUME NEW S, S \subseteq Nat, S # {}
    PROVE  Min(S) \in S /\ \A k \in S : Min(S) <= k
<1>1. PICK m \in S : \A k \in S : ~(<<k, m>> \in OpToRel(<, Nat))
  BY NatLessThanWellFounded, WFMin
<1>2. \A k \in S : ~(k < m)
  BY <1>1 DEF OpToRel
<1>3. \A k \in S : m =< k
  BY <1>2
<1>. QED  BY <1>3 DEF Min

LEMMA MinIs ==
    ASSUME NEW S, S \subseteq Nat, NEW m \in S, \A k \in S : m <= k
    PROVE  Min(S) = m
<1>1. Min(S) \in S /\ Min(S) <= m
  BY MinIsIn
<1>2. m <= Min(S) /\ m \in Nat /\ Min(S) \in Nat
  BY <1>1
<1>. QED  BY <1>1, <1>2

\* What is left of a reply: n lines as they were, and perhaps a line cut short.
LEMMA PartsOf ==
    ASSUME NEW body \in Seq(Lines), NEW part \in Heard(body)
    PROVE  \E n \in Nat :
              /\ DOMAIN part \subseteq DOMAIN body
              /\ \A i \in DOMAIN body : i <= n => i \in DOMAIN part /\ part[i] = body[i]
              /\ \A i \in DOMAIN part : i > n => i = n + 1 /\ part[i] \in CutLine(body[i])
<1>1. DOMAIN body = 1 .. Len(body) /\ Len(body) \in Nat
  OBVIOUS
<1>2. CASE part = body
  <2>1. /\ DOMAIN part \subseteq DOMAIN body
        /\ \A i \in DOMAIN body : i <= Len(body) => i \in DOMAIN part /\ part[i] = body[i]
        /\ \A i \in DOMAIN part : ~(i > Len(body))
    BY <1>1, <1>2
  <2>. QED  BY <1>1, <2>1
<1>3. CASE part \in Cut(body)
  <2>1. PICK n \in 0 .. Len(body) - 1 :
          \/ part = SubSeq(body, 1, n)
          \/ \E l \in CutLine(body[n + 1]) : part = Append(SubSeq(body, 1, n), l)
    BY <1>3 DEF Cut
  <2>2. /\ Len(SubSeq(body, 1, n)) = n
        /\ SubSeq(body, 1, n) \in Seq(Lines)
        /\ \A i \in 1 .. n : SubSeq(body, 1, n)[i] = body[i]
    BY <2>1
  <2>3. n \in Nat /\ 1 .. n \subseteq DOMAIN body /\ n + 1 \in DOMAIN body
    BY <1>1, <2>1
  <2>4. CASE part = SubSeq(body, 1, n)
    <3>1. DOMAIN part = 1 .. n
      BY <2>2, <2>3, <2>4
    <3>. QED  BY <1>1, <2>2, <2>3, <2>4, <3>1
  <2>5. ASSUME NEW l \in CutLine(body[n + 1]), part = Append(SubSeq(body, 1, n), l)
        PROVE  /\ DOMAIN part \subseteq DOMAIN body
               /\ \A i \in DOMAIN body : i <= n => i \in DOMAIN part /\ part[i] = body[i]
               /\ \A i \in DOMAIN part : i > n => i = n + 1 /\ part[i] \in CutLine(body[i])
    <3>1. /\ DOMAIN part = 1 .. n + 1
          /\ part[n + 1] = l
          /\ \A i \in 1 .. n : part[i] = body[i]
      BY <2>2, <2>3, <2>5
    <3>. HIDE DEF Lines
    <3>. QED  BY <1>1, <2>3, <3>1
  <2>. QED  BY <2>1, <2>3, <2>4, <2>5
<1>. QED  BY <1>2, <1>3 DEF Heard

\* A field that a part of a reply gives a value is one the reply gives a value,
\* and the value is the same unless the line was cut.
LEMMA FieldsOf ==
    ASSUME NEW body \in Seq(Lines), NEW part \in Heard(body), NEW key \in Keys \ {"none"}
    PROVE  \E n \in Nat :
              /\ Of(key, part) \subseteq Of(key, body)
              /\ \A i \in Of(key, body) : i <= n => i \in Of(key, part) /\ part[i] = body[i]
              /\ \A i \in Of(key, part) : i > n =>
                    /\ i = n + 1
                    /\ part[i].value = Stump \/ (key = "created" /\ part[i].value = BadDate)
<1>1. PICK n \in Nat :
              /\ DOMAIN part \subseteq DOMAIN body
              /\ \A i \in DOMAIN body : i <= n => i \in DOMAIN part /\ part[i] = body[i]
              /\ \A i \in DOMAIN part : i > n => i = n + 1 /\ part[i] \in CutLine(body[i])
  BY PartsOf
<1>2. ASSUME NEW l, NEW m \in CutLine(l), m.key = key, m.value # ""
      PROVE  /\ l.key = key /\ l.value # ""
             /\ m.value = Stump \/ (key = "created" /\ m.value = BadDate)
  <2>1. m \notin [says : SUBSET l.says, key : {"none"}, value : {""}]
    BY <1>2
  <2>2. m.key = l.key /\ m.value \in {""} \cup Beginnings(l)
    BY <2>1 DEF CutLine
  <2>. QED  BY <1>2, <2>2 DEF Beginnings
<1>3. \A i \in DOMAIN body : i \in Nat
  OBVIOUS
<1>4. \A i \in DOMAIN part : i \in Nat /\ (i <= n \/ i > n)
  BY <1>1, <1>3
<1>. QED  BY <1>1, <1>2, <1>3, <1>4 DEF Of

\* The first line that counts is, as far as the part goes, the same in both.
LEMMA FirstAgrees ==
    ASSUME NEW body, NEW part, NEW P, NEW B, NEW n \in Nat,
           P \subseteq Nat, B \subseteq Nat,
           \A i \in P : i <= n => i \in B,
           \A i \in B : i <= n => i \in P /\ part[i] = body[i],
           \A i \in P : i > n => i = n + 1 /\ part[i].value = Stump
    PROVE  FirstOf(part, P) \in {NoValue, Stump, FirstOf(body, B)}
<1>1. CASE P = {}
  BY <1>1 DEF FirstOf
<1>2. CASE P # {}
  <2>. DEFINE m == Min(P)
  <2>1. m \in P /\ \A k \in P : m <= k
    BY <1>2, MinIsIn
  <2>2. FirstOf(part, P) = part[m].value
    BY <1>2 DEF FirstOf
  <2>. HIDE DEF m
  <2>3. CASE m > n
    BY <2>1, <2>2, <2>3
  <2>4. CASE m <= n
    <3>1. m \in B /\ part[m] = body[m]
      BY <2>1, <2>4
    <3>2. \A k \in B : m <= k
      BY <2>1, <2>4
    <3>3. Min(B) = m
      BY <3>1, <3>2, MinIs
    <3>. QED  BY <2>2, <3>1, <3>3 DEF FirstOf
  <2>. QED  BY <2>1, <2>3, <2>4
<1>. QED  BY <1>1, <1>2

LEMMA OfIsNumbers ==
    ASSUME NEW key, NEW body \in Seq(Lines)
    PROVE  Of(key, body) \subseteq Nat
<1>1. DOMAIN body \subseteq Nat
  OBVIOUS
<1>. QED  BY <1>1 DEF Of

\* What parseInfo takes from a part of a reply, it takes from the whole.
THEOREM PartsAgree ==
    ASSUME NEW body \in Seq(Lines), NEW part \in Heard(body)
    PROVE  Agrees(InfoIn(part), InfoIn(body))
<1>1. FirstOf(part, Of("registrar", part))
         \in {NoValue, Stump, FirstOf(body, Of("registrar", body))}
  <2>1. PICK n \in Nat :
           /\ Of("registrar", part) \subseteq Of("registrar", body)
           /\ \A i \in Of("registrar", body) :
                 i <= n => i \in Of("registrar", part) /\ part[i] = body[i]
           /\ \A i \in Of("registrar", part) : i > n => i = n + 1 /\ part[i].value = Stump
    BY FieldsOf DEF Keys
  <2>. QED  BY <2>1, OfIsNumbers, FirstAgrees
<1>2. FirstOf(part, Dates(part)) \in {NoValue, Stump, FirstOf(body, Dates(body))}
  <2>1. PICK n \in Nat :
           /\ Of("created", part) \subseteq Of("created", body)
           /\ \A i \in Of("created", body) :
                 i <= n => i \in Of("created", part) /\ part[i] = body[i]
           /\ \A i \in Of("created", part) : i > n =>
                 i = n + 1 /\ part[i].value \in {Stump, BadDate}
    BY FieldsOf DEF Keys
  <2>2. /\ Dates(part) \subseteq Nat /\ Dates(body) \subseteq Nat
        /\ \A i \in Dates(part) : i <= n => i \in Dates(body)
        /\ \A i \in Dates(body) : i <= n => i \in Dates(part) /\ part[i] = body[i]
        /\ \A i \in Dates(part) : i > n => i = n + 1 /\ part[i].value = Stump
    BY <2>1, OfIsNumbers DEF Dates
  <2>. QED  BY <2>2, FirstAgrees
<1>3. /\ DOMAIN Statuses(part) \subseteq DOMAIN Statuses(body)
      /\ \A i \in DOMAIN Statuses(part) :
            /\ Statuses(part)[i] \in {Stump, Statuses(body)[i]}
            /\ \A j \in DOMAIN Statuses(body) : j < i => j \in DOMAIN Statuses(part)
  <2>1. PICK n \in Nat :
           /\ Of("status", part) \subseteq Of("status", body)
           /\ \A i \in Of("status", body) :
                 i <= n => i \in Of("status", part) /\ part[i] = body[i]
           /\ \A i \in Of("status", part) : i > n => i = n + 1 /\ part[i].value = Stump
    BY FieldsOf DEF Keys
  <2>2. /\ DOMAIN Statuses(part) = Of("status", part)
        /\ DOMAIN Statuses(body) = Of("status", body)
        /\ \A i \in Of("status", part) : Statuses(part)[i] = part[i].value
        /\ \A i \in Of("status", body) : Statuses(body)[i] = body[i].value
    BY DEF Statuses
  <2>3. \A i \in Of("status", body) : i \in Nat
    BY OfIsNumbers
  <2>. QED  BY <2>1, <2>2, <2>3
<1>4. \A b : /\ InfoIn(b).registrar = FirstOf(b, Of("registrar", b))
             /\ InfoIn(b).created = FirstOf(b, Dates(b))
             /\ InfoIn(b).statuses = Statuses(b)
  BY DEF InfoIn
<1>. QED  BY <1>1, <1>2, <1>3, <1>4 DEF Agrees

\* A step that leaves each finding and the reply it is from alone, or takes the
\* finding away.
LEMMA SameFindings ==
    ASSUME PartialInfoAgrees,
           \A c \in Clients : \/ finding'[c] = NoFinding
                              \/ finding'[c] = finding[c] /\ whole'[c] = whole[c]
    PROVE  PartialInfoAgrees'
BY DEF PartialInfoAgrees

LEMMA AgreementPreserved ==
    ASSUME Typed, RepliesKnown, PartialInfoAgrees, [Next]_vars
    PROVE  PartialInfoAgrees'
<1>1. ASSUME NEW c \in Clients, NEW t \in Tlds, Supports(c, t)
      PROVE  PartialInfoAgrees'
  <2>1. /\ whole' = [whole EXCEPT ![c] = NoReply]
        /\ finding' = [finding EXCEPT ![c] = NoFinding]
    BY <1>1 DEF Supports
  <2>. QED  BY <2>1, SameFindings DEF RepliesKnown
<1>2. ASSUME UNCHANGED <<whole, finding>> PROVE PartialInfoAgrees'
  BY <1>2, SameFindings
<1>3. ASSUME NEW c \in Clients, Refused(c) PROVE PartialInfoAgrees'
  <2>1. /\ whole' = whole
        /\ finding'[c].info = NoInfo
        /\ \A d \in Clients \ {c} : finding'[d] = finding[d]
    BY <1>3 DEF Refused, RepliesKnown
  <2>. QED  BY <2>1 DEF PartialInfoAgrees
<1>4. ASSUME NEW c \in Clients, NEW reply \in Texts, Query(c, reply)
      PROVE  PartialInfoAgrees'
  <2>1. /\ finding' = finding /\ finding[c] = NoFinding
        /\ \A d \in Clients \ {c} : whole'[d] = whole[d]
    BY <1>4 DEF Query, RepliesKnown
  <2>. QED  BY <2>1, SameFindings
<1>5. ASSUME NEW c \in Clients, NEW body \in Heard(whole[c]), Answered(c, body)
      PROVE  PartialInfoAgrees'
  <2>1. /\ whole' = whole
        /\ finding'[c] = Classify(body)
        /\ \A d \in Clients \ {c} : finding'[d] = finding[d]
    BY <1>5 DEF Answered, RepliesKnown
  <2>2. whole[c] \in Seq(Lines)
    BY RepliesAreText DEF RepliesKnown
  <2>3. Classify(body).info \in {NoInfo, InfoIn(body)}
    BY DEF Classify
  <2>4. Agrees(InfoIn(body), InfoIn(whole[c]))
    BY <2>2, PartsAgree
  <2>. QED  BY <2>1, <2>3, <2>4 DEF PartialInfoAgrees
<1>6. ASSUME NEW c \in Clients, Step(c) PROVE PartialInfoAgrees'
  <2>1. ASSUME \/ Check(c) \/ GiveUp(c) \/ LearnFails(c) \/ Fails(c)
               \/ \E body \in Heard(Record[tld[c]]) : Learn(c, body)
        PROVE  UNCHANGED <<whole, finding>>
    BY <2>1 DEF Check, GiveUp, LearnFails, Fails, Learn
  <2>. QED  BY <1>1, <1>2, <1>3, <1>4, <1>5, <1>6, <2>1 DEF Step
<1>. QED  BY <1>2, <1>6 DEF Next, Tick, vars

\* The data of a registration never come from elsewhere than their field in the
\* reply of the registry, however much of it was heard.
THEOREM PartialInfoIsSound == Spec => []PartialInfoAgrees
<1>1. Init => PartialInfoAgrees
  BY DEF Init, PartialInfoAgrees
<1>. QED
  BY <1>1, AgreementPreserved, Start, Preservation, FindingsStart, FindingsPreserved, PTL
     DEF Spec
=============================================================================
