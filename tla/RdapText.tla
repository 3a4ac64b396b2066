------------------------------- MODULE RdapText -------------------------------
(***************************************************************************)
(* rdap.parseResponse: what a 200 of a registry says.  A body is a record  *)
(* of what the code reads of it, each JSON array a sequence; a status is a *)
(* sequence of words.  Nameservers and DNSSEC are passed on as they are,   *)
(* and left out.                                                           *)
(***************************************************************************)
EXTENDS SequencesExt

NoValue == ""
BadDate == "bad date"   \* in no layout that is known

\* What is read of a 200.
Body == [statuses : Seq(Seq(STRING)),
         events : Seq([action : STRING, date : STRING]),
         entities : Seq([roles : SUBSET STRING, fn : STRING, handle : STRING,
                         ianaID : STRING])]

\* The table, first match first.
StatusMapping ==
    <<[says |-> <<"pending", "delete">>, status |-> "pending_delete"],
      [says |-> <<"redemption", "period">>, status |-> "redemption"],
      [says |-> <<"pending", "restore">>, status |-> "redemption"],
      [says |-> <<"reserved">>, status |-> "reserved"],
      [says |-> <<"administrative", "reserved">>, status |-> "reserved"],
      [says |-> <<"blocked">>, status |-> "blocked"]>>

\* The rows that are contained in a listed status.
Rows(raw) == {k \in DOMAIN StatusMapping : StatusMapping[k].says \in SubSeqs(raw)}

\* Mutant of StatusIn: only the first listed status is looked at.
StatusOfFirst(statuses) ==
    IF statuses = <<>> \/ Rows(statuses[1]) = {} THEN "registered"
                                                ELSE StatusMapping[Min(Rows(statuses[1]))].status

\* The first row of the first listed status that has one decides.
StatusIn(statuses) ==
    LET telling == {i \in DOMAIN statuses : Rows(statuses[i]) # {}}
    IN  IF telling = {} THEN "registered"
                        ELSE StatusMapping[Min(Rows(statuses[Min(telling)]))].status

\* The last event of an action whose date can be read.
DateOf(events, action) ==
    LET dated == {i \in DOMAIN events : events[i].action = action /\ events[i].date # BadDate}
    IN  IF dated = {} THEN NoValue ELSE events[Max(dated)].date

\* Mutant of Registrar: of an entity of any role.
RegistrarOfAny(entities) ==
    IF entities = <<>> THEN [name |-> NoValue, ianaID |-> NoValue]
    ELSE [name |-> IF entities[1].fn # NoValue THEN entities[1].fn ELSE entities[1].handle,
          ianaID |-> entities[1].ianaID]

\* The first entity that is a registrar: its name, or else its handle.
Registrar(entities) ==
    LET registrars == {i \in DOMAIN entities : "registrar" \in entities[i].roles}
        first == entities[Min(registrars)]
    IN  IF registrars = {} THEN [name |-> NoValue, ianaID |-> NoValue]
        ELSE [name |-> IF first.fn # NoValue THEN first.fn ELSE first.handle,
              ianaID |-> first.ianaID]

InfoIn(body) ==
    [registration |-> DateOf(body.events, "registration"),
     expiration |-> DateOf(body.events, "expiration"),
     lastChanged |-> DateOf(body.events, "last changed"),
     registrar |-> Registrar(body.entities)]
=============================================================================
