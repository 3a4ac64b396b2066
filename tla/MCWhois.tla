------------------------------- MODULE MCWhois -------------------------------
(* Values for the constants of Whois. *)
EXTENDS Whois

CONSTANTS c1, c2

Line(says, key, value) == [says |-> says, key |-> key, value |-> value]

\* A TLD whose server stands behind a line without a value, and one without.
MCRecord == [t \in Tlds |->
    IF t = "ru" THEN <<Line({}, "whois", ""), Line({}, "whois", "whois.ru")>>
                ELSE <<Line({}, "none", "")>>]

\* A record with fields that repeat, one of a reserved name, a "no match" with
\* the name echoed around it, and a reply nobody understands.
MCTexts == {
    <<Line({"registered"}, "registrar", "a"), Line({}, "created", BadDate),
      Line({}, "created", "2020"), Line({}, "registrar", "b")>>,
    <<Line({"registered"}, "status", "x"), Line({"reserved"}, "status", "y")>>,
    <<Line({"not_found"}, "none", ""), Line({"registered"}, "none", "")>>,
    <<Line({"reserved"}, "none", "")>>}
=============================================================================
