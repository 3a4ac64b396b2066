------------------------------- MODULE Replies -------------------------------
(***************************************************************************)
(* What a Check of each provider can come to: all that the engine knows of *)
(* its providers.  Rdap and Whois show that the providers keep to it.      *)
(***************************************************************************)
EXTENDS Resolver

\* The findings a query of each provider can end with.
Found(p, registration, status, tags, source, info) ==
    [provider |-> p, registration |-> registration, status |-> status,
     evidence |-> tags, source |-> source, info |-> info]

\* The tag of the EPP status that decided is left at "rdap:status".
RdapReplies ==
    {Found("rdap", "registered", "registered", {"rdap:registration_exists"},
           "endpoint", TRUE),
     Found("rdap", "not_registered", "available", {"rdap:no_registration"},
           "endpoint", FALSE),
     Found("rdap", "unknown", "rate_limited", {"rdap:rate_limited"}, "", FALSE)}
    \cup {Found("rdap", "registered", status, {"rdap:registration_exists", "rdap:status"},
                "endpoint", TRUE)
             : status \in {"pending_delete", "redemption", "reserved", "blocked"}}

WhoisReplies ==
    {Found("whois", "registered", "registered", {"whois:record_found"},
           "server", TRUE),
     Found("whois", "registered", "reserved", {"whois:record_found", "whois:reserved"},
           "server", TRUE),
     Found("whois", "not_registered", "available", {"whois:no_match"},
           "server", FALSE),
     Found("whois", "unknown", "unknown", {"whois:unparsable"},
           "server", FALSE),
     Found("whois", "unknown", "rate_limited", {"whois:circuit_open"}, "", FALSE)}

DnsReplies ==
    {Found("dns", "registered", "registered", {"dns:delegated"},
           "system-resolver", FALSE),
     Found("dns", "unknown", "unknown", {"dns:no_delegation"},
           "system-resolver", FALSE),
     Found("dns", "unknown", "unknown", {"dns:lookup_failed"},
           "system-resolver", FALSE)}

Replies(p) == CASE p = "rdap" -> RdapReplies
                [] p = "whois" -> WhoisReplies
                [] p = "dns" -> DnsReplies

\* What the chain records of a provider whose query failed.
QueryFailed(p) ==
    Found(p, "unknown", "unknown",
          {IF p = "rdap" THEN "rdap:query_failed" ELSE "whois:query_failed"},
          "", FALSE)

\* All that resolve can find among its results, and their evidence.
Findings == RdapReplies \cup WhoisReplies \cup DnsReplies
                \cup {QueryFailed("rdap"), QueryFailed("whois")}
Tags == UNION {finding.evidence : finding \in Findings}

\* What it can make of them.
Resolutions == [availability : Availability, status : Status,
                confidence : Confidence, conflict : BOOLEAN,
                evidence : SUBSET Tags]

Conclusive(finding) == finding.registration # "unknown"
=============================================================================
