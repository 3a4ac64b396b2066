------------------------------ MODULE WhoisText ------------------------------
(***************************************************************************)
(* WHOIS text, line by line: what a connection that breaks leaves of a     *)
(* reply (query), which server an IANA record names (parseIANAServer), and *)
(* what a reply says of a domain (classify, parseInfo).                    *)
(*                                                                         *)
(* A line is a record: says, the markers in it; key, what stands before    *)
(* its first colon ("none" if there is no colon, or nothing we look for);  *)
(* and value, what stands behind it ("" if nothing does).  A marker that   *)
(* spreads over two lines does not exist.                                  *)
(***************************************************************************)
EXTENDS SequencesExt

Markers == {"not_found", "registered", "reserved"}
Keys == {"none", "whois", "registrar", "registrarid", "created", "status"}

\* The beginning of a value, and what is no date in any known layout.
Stump == "stump"
BadDate == "bad date"

-----------------------------------------------------------------------------
(* query *)

\* The beginning of a date may be a date or none; there is none of no value.
Beginnings(l) ==
    {v \in {Stump, BadDate} : l.value # "" /\ (v = BadDate => l.key = "created")}

\* What may be left of a line cut short: fewer markers, and a key only if the
\* colon is still there.
CutLine(l) ==
    [says : SUBSET l.says, key : {"none"}, value : {""}]
    \cup [says : SUBSET l.says, key : {l.key}, value : {""} \cup Beginnings(l)]

\* What may be left of a reply whose connection breaks, or is closed, early.
Cut(body) ==
    UNION {{SubSeq(body, 1, n)} \cup {Append(SubSeq(body, 1, n), l) : l \in CutLine(body[n + 1])}
              : n \in 0 .. Len(body) - 1}

\* What query may return for a reply.
Heard(body) == {body} \cup Cut(body)

-----------------------------------------------------------------------------
(* parseIANAServer *)

NoServer == ""

NamesServer(l) == l.key = "whois" /\ l.value # ""

\* The first server that is named, if any is.
ServerIn(body) ==
    LET n == SelectInSeq(body, NamesServer)
    IN  IF n = 0 THEN NoServer ELSE body[n].value

-----------------------------------------------------------------------------
(* parseInfo *)

NoValue == ""

\* The lines that give a field a value.
Of(key, body) == {i \in DOMAIN body : body[i].key = key /\ body[i].value # ""}

FirstOf(body, lines) == IF lines = {} THEN NoValue ELSE body[Min(lines)].value
LastOf(body, lines) == IF lines = {} THEN NoValue ELSE body[Max(lines)].value
Dates(body) == {i \in Of("created", body) : body[i].value # BadDate}
Statuses(body) == [i \in Of("status", body) |-> body[i].value]

\* Mutant of InfoIn: the last registrar wins.
LastInfoIn(body) ==
    [registrar   |-> LastOf(body, Of("registrar", body)),
     registrarid |-> LastOf(body, Of("registrarid", body)),
     created     |-> FirstOf(body, Dates(body)),
     statuses    |-> Statuses(body)]

\* The first registrar and the first creation date that can be read win (as do
\* the other dates), the last IANA id does, and statuses add up (as name
\* servers do): each is kept by the line it stands on.
InfoIn(body) ==
    [registrar   |-> FirstOf(body, Of("registrar", body)),
     registrarid |-> LastOf(body, Of("registrarid", body)),
     created     |-> FirstOf(body, Dates(body)),
     statuses    |-> Statuses(body)]

NoInfo == [none |-> TRUE]

-----------------------------------------------------------------------------
(* classify *)

Said(body) == UNION {body[i].says : i \in DOMAIN body}

\* Mutant of Classify: a record outweighs a "no match".
ClassifyRecordFirst(body) ==
    CASE "registered" \in Said(body) ->
            [registration |-> "registered", status |-> "registered", info |-> InfoIn(body)]
      [] "registered" \notin Said(body) /\ "not_found" \in Said(body) ->
            [registration |-> "not_registered", status |-> "available", info |-> NoInfo]
      [] OTHER -> [registration |-> "unknown", status |-> "unknown", info |-> NoInfo]

\* A "no match" outweighs everything; "reserved" only qualifies a record.
Classify(body) ==
    CASE "not_found" \in Said(body) ->
            [registration |-> "not_registered", status |-> "available", info |-> NoInfo]
      [] "not_found" \notin Said(body) /\ "registered" \in Said(body) ->
            [registration |-> "registered",
             status |-> IF "reserved" \in Said(body) THEN "reserved" ELSE "registered",
             info |-> InfoIn(body)]
      [] OTHER -> [registration |-> "unknown", status |-> "unknown", info |-> NoInfo]
=============================================================================
