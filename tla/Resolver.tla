------------------------------ MODULE Resolver ------------------------------
(***************************************************************************)
(* engine.resolve: one answer from what the providers found, and what      *)
(* Engine.Info makes of the same findings.                                 *)
(*                                                                         *)
(* A finding is a ProviderResult reduced to provider, registration,        *)
(* status, evidence (a set of tags), source and whether it carries parsed  *)
(* registration data.                                                      *)
(***************************************************************************)
EXTENDS Integers, Sequences, Vocabulary

Providers == {"rdap", "whois", "dns"}

\* The loop over the results keeps the last finding of each provider.
IsLast(rs, i, p) ==
    /\ rs[i].provider = p
    /\ \A j \in DOMAIN rs : rs[j].provider = p => j <= i

\* That finding exists and reports reg.
Says(rs, p, reg) ==
    \E i \in DOMAIN rs : IsLast(rs, i, p) /\ rs[i].registration = reg

StatusOf(rs, p) == rs[CHOOSE i \in DOMAIN rs : IsLast(rs, i, p)].status
HasStatus(rs, p, s) == \E i \in DOMAIN rs : IsLast(rs, i, p) /\ rs[i].status = s

Evidence(rs) == UNION {rs[i].evidence : i \in DOMAIN rs}

Resolution(availability, status, confidence, conflict, rs) ==
    [availability |-> availability, status |-> status,
     confidence |-> confidence, conflict |-> conflict,
     evidence |-> Evidence(rs)]

\* Mutant of Delegated: DNS is expected to be the last to answer.
DelegatedLast(rs) ==
    Len(rs) > 0 /\ rs[Len(rs)].provider = "dns" /\ rs[Len(rs)].registration = "registered"

Delegated(rs) == Says(rs, "dns", "registered")

\* Mutant of ResolveRest: no delegation is taken for no registration.
RestGuessed(rs) ==
    IF Delegated(rs)
    THEN Resolution("unavailable", "registered", "medium", FALSE, rs)
    ELSE Resolution("available", "available", "low", FALSE, rs)

\* What stands when neither RDAP nor WHOIS says anything.
ResolveRest(rs) ==
    IF Delegated(rs)
    THEN Resolution("unavailable", "registered", "medium", FALSE, rs)
    ELSE Resolution("unknown",
                    IF HasStatus(rs, "rdap", "rate_limited") THEN "rate_limited"
                                                             ELSE "unknown",
                    "low", FALSE, rs)

\* Mutant of ResolveWhois: WHOIS against DNS is not called a conflict.
WhoisUndisputed(rs) ==
    CASE Says(rs, "whois", "registered") ->
            Resolution("unavailable", StatusOf(rs, "whois"), "high", FALSE, rs)
      [] Says(rs, "whois", "not_registered") ->
            IF Delegated(rs)
            THEN Resolution("unknown", "unknown", "low", FALSE, rs)
            ELSE Resolution("available", "available", "medium", FALSE, rs)
      [] OTHER -> ResolveRest(rs)

ResolveWhois(rs) ==
    CASE Says(rs, "whois", "registered") ->
            Resolution("unavailable", StatusOf(rs, "whois"), "high", FALSE, rs)
      [] Says(rs, "whois", "not_registered") ->
            IF Delegated(rs)
            THEN Resolution("unknown", "unknown", "low", TRUE, rs)
            ELSE Resolution("available", "available", "medium", FALSE, rs)
      [] OTHER -> ResolveRest(rs)

Resolve(rs) ==
    CASE Says(rs, "rdap", "registered") ->
            Resolution("unavailable", StatusOf(rs, "rdap"), "high", FALSE, rs)
      [] Says(rs, "rdap", "not_registered") ->
            IF Delegated(rs) \/ Says(rs, "whois", "registered")
            THEN Resolution("available", "available", "low", TRUE, rs)
            ELSE Resolution("available", "available", "high", FALSE, rs)
      [] OTHER -> ResolveWhois(rs)

-----------------------------------------------------------------------------
(* Engine.Info *)

FirstProvider(rs) == IF Len(rs) > 0 THEN rs[1].provider ELSE ""

FirstSource(rs) ==
    LET named == {i \in DOMAIN rs : rs[i].source # ""}
    IN  IF named = {} THEN ""
        ELSE rs[CHOOSE i \in named : \A j \in named : i <= j].source

\* Registration data if a source has some (the first that has), a bare "not
\* registered" if the name is available, an error otherwise.
InfoOf(rs, resolution) ==
    LET told == {i \in DOMAIN rs : rs[i].info}
        first == rs[CHOOSE i \in told : \A j \in told : i <= j]
    IN  IF told # {}
        THEN [registered |-> TRUE, provider |-> first.provider,
              source |-> first.source]
        ELSE IF resolution.availability = "available"
        THEN [registered |-> FALSE, provider |-> FirstProvider(rs),
              source |-> FirstSource(rs)]
        ELSE [error |-> resolution.status]
=============================================================================
