---------------------------- MODULE CheckService ----------------------------
(***************************************************************************)
(* What Engine.Check promises its callers, whatever cache, flights and     *)
(* purges do behind it: a call is answered with a finding on its own name, *)
(* addressed as it was asked, made no later than now and no earlier than   *)
(* the newest finding any caller had been given when the call began.       *)
(***************************************************************************)
EXTENDS Integers, Vocabulary

CONSTANTS Callers, Inputs, Names, NameOf, Wishes, MaxTime, None

Time == 0 .. MaxTime

VARIABLES
    now,
    open,       \* whether the call of a caller has yet to be answered
    input, includeRaw,
    answer,     \* what its last call returned, or None
    told,       \* the newest finding given on each name
    floor       \* told as the last call of a caller found it

vars == <<now, open, input, includeRaw, answer, told, floor>>

Name(c) == NameOf[input[c]]

\* The findings of time t on name n, addressed to a call for i.
Answers(n, i, raw, t) ==
    [name : {n}, domain : {i}, availability : Availability, checkedAt : {t},
     aborted : BOOLEAN, raw : {raw}]

Newer(n, t) == [told EXCEPT ![n] = IF @ < t THEN t ELSE @]

Init ==
    /\ now = 0
    /\ open = [c \in Callers |-> FALSE]
    /\ input \in [Callers -> Inputs]
    /\ includeRaw = [c \in Callers |-> FALSE]
    /\ answer = [c \in Callers |-> None]
    /\ told = [n \in Names |-> 0]
    /\ floor = [c \in Callers |-> 0]

Request(c, i, raw) ==
    /\ ~open[c]
    /\ input' = [input EXCEPT ![c] = i]
    /\ includeRaw' = [includeRaw EXCEPT ![c] = raw]

Refuse(c, i, raw) ==
    /\ Request(c, i, raw)
    /\ NameOf[i] = None
    /\ answer' = [answer EXCEPT ![c] =
          [name |-> None, domain |-> i, availability |-> "unknown",
           checkedAt |-> now, aborted |-> FALSE, raw |-> FALSE]]
    /\ floor' = [floor EXCEPT ![c] = 0]
    /\ UNCHANGED <<now, open, told>>

AnswerAtOnce(c, i, raw) ==
    LET n == NameOf[i]
    IN  /\ Request(c, i, raw)
        /\ n # None
        /\ \E t \in told[n] .. now :
              /\ \E a \in Answers(n, i, raw, t) : answer' = [answer EXCEPT ![c] = a]
              /\ told' = Newer(n, t)
        /\ floor' = [floor EXCEPT ![c] = told[n]]
        /\ UNCHANGED <<now, open>>

Open(c, i, raw) ==
    /\ Request(c, i, raw)
    /\ NameOf[i] # None
    /\ open' = [open EXCEPT ![c] = TRUE]
    /\ answer' = [answer EXCEPT ![c] = None]
    /\ floor' = [floor EXCEPT ![c] = told[NameOf[i]]]
    /\ UNCHANGED <<now, told>>

\* One finding answers a set of calls on its name.
Answer(S, n, t) ==
    /\ \A c \in S : open[c] /\ Name(c) = n /\ floor[c] <= t
    /\ open' = [c \in Callers |-> open[c] /\ c \notin S]
    /\ \E availability \in Availability, aborted \in BOOLEAN :
          answer' = [c \in Callers |->
              IF c \in S
              THEN [name |-> n, domain |-> input[c],
                    availability |-> availability, checkedAt |-> t,
                    aborted |-> aborted, raw |-> includeRaw[c]]
              ELSE answer[c]]
    /\ told' = Newer(n, t)
    /\ UNCHANGED <<now, input, includeRaw, floor>>

Tick ==
    /\ now' \in Time
    /\ now < now'
    /\ UNCHANGED <<open, input, includeRaw, answer, told, floor>>

Next ==
    \/ \E c \in Callers, i \in Inputs, raw \in Wishes :
          \/ Refuse(c, i, raw)
          \/ AnswerAtOnce(c, i, raw)
          \/ Open(c, i, raw)
    \/ \E S \in (SUBSET Callers) \ {{}}, n \in Names, t \in 0 .. now : Answer(S, n, t)
    \/ Tick

Spec == Init /\ [][Next]_vars
=============================================================================
