-------------------------------- MODULE MCRdap --------------------------------
(* Values for the constants of Rdap. *)
EXTENDS Rdap

CONSTANTS k1, k2, host

\* A TLD of which one host serves both bases.
MCPlans == {<<host>>, <<host, host>>}

Entity(roles, fn, handle, ianaID) ==
    [roles |-> roles, fn |-> fn, handle |-> handle, ianaID |-> ianaID]
Event(action, date) == [action |-> action, date |-> date]

\* An ordinary registration, one that is about to end, one that is locked and
\* reserved, and a bare one.
MCBodies ==
    {[statuses |-> <<<<"active">>>>,
      events |-> <<Event("registration", "2020"), Event("expiration", BadDate), Event("expiration", "2030")>>,
      entities |-> <<Entity({"registrant"}, "someone", "s", NoValue), Entity({"registrar"}, "Example", "e", "1")>>],
     [statuses |-> <<<<"client", "hold">>, <<"pending", "restore">>, <<"pending", "delete">>>>,
      events |-> <<Event("expiration", "2024"), Event("registration", "2020"), Event("expiration", "2025")>>,
      entities |-> <<Entity({"registrar", "abuse"}, NoValue, "e", "1"), Entity({"registrar"}, "Other", "o", "2")>>],
     [statuses |-> <<<<"server", "locked">>, <<"administrative", "reserved">>>>,
      events |-> <<Event("registration", BadDate)>>,
      entities |-> <<Entity({"registrant"}, "someone", "s", NoValue)>>],
     [statuses |-> <<>>, events |-> <<>>, entities |-> <<>>]}
=============================================================================
