----------------------------- MODULE HostLimiter -----------------------------
(***************************************************************************)
(* ratelimit.HostLimiter: a token bucket and a circuit breaker per host.   *)
(* Each operation here is one critical section of the code; Upstream puts  *)
(* them in the order the providers do.  Times are relative: open[h] is     *)
(* what is left, in ticks, of the time the circuit of h is open for.       *)
(***************************************************************************)
EXTENDS Integers

CONSTANTS
    Hosts,
    Burst,             \* the size of a bucket
    FailureThreshold,  \* how many consecutive failures open a circuit
    OpenDuration       \* for how many ticks

\* NewHostLimiter replaces what is not positive.
ASSUME LimiterAssumption ==
    /\ Burst \in Nat \ {0}
    /\ FailureThreshold \in Nat \ {0}
    /\ OpenDuration \in Nat \ {0}

VARIABLES
    tokens,    \* of each host
    failures,  \* of each host since its last success; counted up to the
               \* threshold, beyond which no value differs from it
    open       \* for how long the circuit of each host is open yet

limiter == <<tokens, failures, open>>

LimiterInit ==
    /\ tokens = [h \in Hosts |-> Burst]
    /\ failures = [h \in Hosts |-> 0]
    /\ open = [h \in Hosts |-> 0]

LimiterTypeOK ==
    /\ tokens \in [Hosts -> 0 .. Burst]
    /\ failures \in [Hosts -> 0 .. FailureThreshold]
    /\ open \in [Hosts -> 0 .. OpenDuration]

IsOpen(h) == open[h] > 0

\* The bucket gives a token.
TakeToken(h) ==
    /\ tokens[h] > 0
    /\ tokens' = [tokens EXCEPT ![h] = @ - 1]
    /\ UNCHANGED <<failures, open>>

\* A healthy response closes the circuit, whoever it was sent by.
ReportSuccess(h) ==
    /\ failures' = [failures EXCEPT ![h] = 0]
    /\ open' = [open EXCEPT ![h] = 0]
    /\ UNCHANGED tokens

Counted(n) == IF n < FailureThreshold THEN n + 1 ELSE n

\* Mutant of ReportFailure: any failure opens the circuit.
ReportAndOpen(h) ==
    /\ failures' = [failures EXCEPT ![h] = Counted(@)]
    /\ open' = [open EXCEPT ![h] = OpenDuration]
    /\ UNCHANGED tokens

\* At the threshold and beyond, a failure opens the circuit, or keeps it open
\* anew.  The count outlives the time the circuit is open for.
ReportFailure(h) ==
    /\ failures' = [failures EXCEPT ![h] = Counted(@)]
    /\ open' = [open EXCEPT ![h] =
          IF failures'[h] >= FailureThreshold THEN OpenDuration ELSE @]
    /\ UNCHANGED tokens

\* A tick of the clock is worth a token per host.
LimiterTick ==
    /\ tokens' = [h \in Hosts |-> IF tokens[h] < Burst THEN tokens[h] + 1 ELSE Burst]
    /\ open' = [h \in Hosts |-> IF open[h] > 0 THEN open[h] - 1 ELSE 0]
    /\ UNCHANGED failures
=============================================================================
