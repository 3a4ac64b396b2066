-------------------------------- MODULE Whois --------------------------------
(***************************************************************************)
(* The WHOIS provider: Supports and Check of concurrent lookups over one   *)
(* serverRegistry, which asks IANA for the server of a TLD and remembers   *)
(* it.  Its mutex is held for a read or a write, never during the query.   *)
(* The limiter is modelled by what its Wait may answer; see Upstream.      *)
(***************************************************************************)
EXTENDS WhoisText, Integers

CONSTANTS
    Clients,   \* the lookups
    Tlds,
    Record,    \* what IANA's record of each TLD says
    Texts,     \* what a registry may reply, in full
    TTL        \* serverCacheTTL, in ticks

ASSUME WhoisAssumption ==
    /\ TTL \in Nat \ {0}
    /\ \A t \in Tlds : Record[t] \in Seq([says : {{}}, key : Keys, value : STRING])
    /\ Texts \subseteq Seq([says : SUBSET Markers, key : Keys, value : STRING])

Engine == INSTANCE Replies

VARIABLES
    entries,   \* the registry: of each TLD the server, how old the entry is,
               \* and, as history, whether the reply it stems from was cut
    place,     \* where each lookup is
    tld,       \* the TLD it is about
    server,    \* the server it goes by, with the history of its entry
    whole,     \* history: the full reply to its query
    finding    \* the result of its last Check

vars == <<entries, place, tld, server, whole, finding>>

NoEntry == [server |-> NoServer, age |-> TTL, cut |-> FALSE]
NoFinding == [none |-> TRUE]
Nobody == [server |-> NoServer, cut |-> FALSE]
NoReply == <<>>

Places == {"idle", "supports", "supported", "check", "gate", "asked"}

Fresh(t) == entries[t].age < TTL

Init ==
    /\ entries = [t \in Tlds |-> NoEntry]
    /\ place = [c \in Clients |-> "idle"]
    /\ tld \in [Clients -> Tlds]
    /\ server = [c \in Clients |-> Nobody]
    /\ whole = [c \in Clients |-> NoReply]
    /\ finding = [c \in Clients |-> NoFinding]

Go(c, to) == place' = [place EXCEPT ![c] = to]

Return(c) == Go(c, "idle") /\ server' = [server EXCEPT ![c] = Nobody]

\* Mutant of Onward: Check does not look whether the TLD still has a server.
OnwardUnchecked(c, e) ==
    /\ Go(c, CASE place[c] \in {"supported", "check"} -> "gate"
              [] e.server = NoServer -> "idle"
              [] OTHER -> "supported")
    /\ server' = [server EXCEPT ![c] = [server |-> e.server, cut |-> e.cut]]

\* Where a lookup gets with a server: Supports returns, or Check goes on.
Onward(c, e) ==
    /\ Go(c, CASE e.server = NoServer -> "idle"
              [] e.server # NoServer /\ place[c] \in {"supported", "check"} -> "gate"
              [] OTHER -> "supported")
    /\ server' = [server EXCEPT ![c] = [server |-> e.server, cut |-> e.cut]]

\* Mutant of KnownServer: an entry that is used gets young again.
KnownServerRenewed(c, t) ==
    /\ Fresh(t)
    /\ Onward(c, entries[t])
    /\ entries' = [entries EXCEPT ![t].age = 0]

\* Server: the entry is young enough.
KnownServer(c, t) ==
    /\ Fresh(t)
    /\ Onward(c, entries[t])
    /\ UNCHANGED entries

\* Server: it is not, or there is none, and IANA is asked.
AskIANA(c, t, from) ==
    /\ ~Fresh(t)
    /\ Go(c, from)
    /\ UNCHANGED <<entries, server>>

\* The engine asks whether the provider supports the TLD.
Supports(c, t) ==
    /\ place[c] = "idle"
    /\ tld' = [tld EXCEPT ![c] = t]
    /\ finding' = [finding EXCEPT ![c] = NoFinding]
    /\ whole' = [whole EXCEPT ![c] = NoReply]
    /\ KnownServer(c, t) \/ AskIANA(c, t, "supports")

\* It has a slot at last, and Check asks for the server again.
Check(c) ==
    /\ place[c] = "supported"
    /\ KnownServer(c, tld[c]) \/ AskIANA(c, tld[c], "check")
    /\ UNCHANGED <<tld, whole, finding>>

\* It is cancelled before it gets one.
GiveUp(c) ==
    /\ place[c] = "supported"
    /\ Return(c)
    /\ UNCHANGED <<entries, tld, whole, finding>>

\* IANA has replied, in full or not: whatever is understood is remembered.
Learn(c, body) ==
    LET e == [server |-> ServerIn(body), age |-> 0, cut |-> body # Record[tld[c]]]
    IN  /\ place[c] \in {"supports", "check"}
        /\ entries' = [entries EXCEPT ![tld[c]] = e]
        /\ Onward(c, e)
        /\ UNCHANGED <<tld, whole, finding>>

\* Mutant of LearnFails: that nothing was learnt is remembered.
LearnNothing(c) ==
    /\ place[c] \in {"supports", "check"}
    /\ entries' = [entries EXCEPT ![tld[c]] = [NoEntry EXCEPT !.age = 0]]
    /\ Return(c)
    /\ UNCHANGED <<tld, whole, finding>>

\* The query fails before there is any text: no support, or an error of Check.
LearnFails(c) ==
    /\ place[c] \in {"supports", "check"}
    /\ Return(c)
    /\ UNCHANGED <<entries, tld, whole, finding>>

\* Wait refuses because the circuit is open: a finding, not an error.
Refused(c) ==
    /\ place[c] = "gate"
    /\ Return(c)
    /\ finding' = [finding EXCEPT ![c] =
          [registration |-> "unknown", status |-> "rate_limited", info |-> NoInfo]]
    /\ UNCHANGED <<entries, tld, whole>>

\* Wait lets the query pass.
Query(c, reply) ==
    /\ place[c] = "gate"
    /\ Go(c, "asked")
    /\ whole' = [whole EXCEPT ![c] = reply]
    /\ UNCHANGED <<entries, tld, server, finding>>

\* The registry has replied, in full or not.
Answered(c, body) ==
    /\ place[c] = "asked"
    /\ Return(c)
    /\ finding' = [finding EXCEPT ![c] = Classify(body)]
    /\ UNCHANGED <<entries, tld, whole>>

\* Wait fails for another reason, or the query before there is any text.
Fails(c) ==
    /\ place[c] \in {"gate", "asked"}
    /\ Return(c)
    /\ UNCHANGED <<entries, tld, whole, finding>>

Tick ==
    /\ \E t \in Tlds : Fresh(t)
    /\ entries' = [t \in Tlds |-> IF Fresh(t) THEN [entries[t] EXCEPT !.age = @ + 1]
                                              ELSE entries[t]]
    /\ UNCHANGED <<place, tld, server, whole, finding>>

Step(c) ==
    \/ \E t \in Tlds : Supports(c, t)
    \/ Check(c)
    \/ GiveUp(c)
    \/ \E body \in Heard(Record[tld[c]]) : Learn(c, body)
    \/ LearnFails(c)
    \/ Refused(c)
    \/ \E reply \in Texts : Query(c, reply)
    \/ \E body \in Heard(whole[c]) : Answered(c, body)
    \/ Fails(c)

Next == Tick \/ \E c \in Clients : Step(c)

\* Time passes; no other fairness is needed.
Spec == Init /\ [][Next]_vars /\ WF_vars(Tick)

-----------------------------------------------------------------------------
\* Whatever servers the registry may have understood.
Servers == {NoServer} \cup {ServerIn(b) : b \in UNION {Heard(Record[t]) : t \in Tlds}}

Typed ==
    /\ entries \in [Tlds -> [server : Servers, age : 0 .. TTL, cut : BOOLEAN]]
    /\ place \in [Clients -> Places]
    /\ tld \in [Clients -> Tlds]
    /\ server \in [Clients -> [server : Servers, cut : BOOLEAN]]
    /\ \A c \in Clients : place[c] \in {"supported", "gate", "asked"} => server[c].server # NoServer

\* A finding is as one of the replies the engine reckons with.
Fits(f) ==
    \E r \in Engine!WhoisReplies :
        /\ r.registration = f.registration
        /\ r.status = f.status
        /\ r.info <=> f.info # NoInfo

\* The type invariant.  That Supports said yes means there was a server, and
\* one that is not known is never asked; and what Check finds is what Lookup
\* and Resolver take for granted about WHOIS: registration data come with a
\* record and with nothing else, however a reply was cut.
TypeOK ==
    /\ Typed
    /\ \A c \in Clients : finding[c] # NoFinding => Fits(finding[c])

\* Only a reply of IANA that was cut short can mislead the registry or a
\* lookup: a failed query leaves nothing behind, and concurrent discoveries,
\* stale entries and the two reads of Supports and Check do not mix up TLDs.
OnlyCutRepliesMislead ==
    /\ \A t \in Tlds : Fresh(t) /\ ~entries[t].cut => entries[t].server = ServerIn(Record[t])
    /\ \A c \in Clients : place[c] \in {"supported", "gate", "asked"} /\ ~server[c].cut =>
          server[c].server = ServerIn(Record[tld[c]])

\* classify takes a partial reply for a whole one, but never turns one that is
\* not about a free domain into `available`.
TruncationNeverFrees ==
    \A c \in Clients : finding[c] # NoFinding =>
        (finding[c].registration = "not_registered" =>
            Classify(whole[c]).registration = "not_registered")

\* What parseInfo takes from a partial reply agrees with the whole one as far
\* as it goes, but for what stood on the line that was cut (the Stump) and for
\* the IANA id of the registrar, of which the last one wins: no field is filled
\* from elsewhere, and of the statuses only the last ones may be missing.
Agrees(part, full) ==
    /\ part.registrar \in {NoValue, Stump, full.registrar}
    /\ part.created \in {NoValue, Stump, full.created}
    /\ DOMAIN part.statuses \subseteq DOMAIN full.statuses
    /\ \A i \in DOMAIN part.statuses :
          /\ part.statuses[i] \in {Stump, full.statuses[i]}
          /\ \A j \in DOMAIN full.statuses : j < i => j \in DOMAIN part.statuses

PartialInfoAgrees ==
    \A c \in Clients : finding[c] # NoFinding /\ finding[c].info # NoInfo =>
        Agrees(finding[c].info, InfoIn(whole[c]))

\* A wrong server, or a wrong "there is none", is forgotten in time, however
\* often it is used.
Wrong(t) == Fresh(t) /\ entries[t].server # ServerIn(Record[t])
MistakesExpire == \A t \in Tlds : Wrong(t) ~> ~Wrong(t)

\* The comment on Server (servers.go:36): "Server returns the WHOIS host for a
\* TLD, or "" when the TLD has none."
ServerIsIANAs == \A t \in Tlds : ~Wrong(t)
=============================================================================
