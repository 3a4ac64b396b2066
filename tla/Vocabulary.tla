----------------------------- MODULE Vocabulary -----------------------------
(***************************************************************************)
(* The normalized vocabulary of internal/core: what an answer, and what a  *)
(* single source, can say about a domain.                                  *)
(***************************************************************************)

\* "Can I register this domain right now?"
Availability == {"available", "unavailable", "unknown"}

\* The detail behind an Availability.
Status == {"available", "registered", "reserved", "premium", "blocked",
           "pending_delete", "redemption", "rate_limited", "unknown"}

\* How much agreement and authority backs an Availability.
Confidence == {"high", "medium", "low"}

\* What one source reports: whether a registration object exists.
RegistrationStatus == {"registered", "not_registered", "unknown"}
=============================================================================
