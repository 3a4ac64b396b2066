------------------------------ MODULE Upstream ------------------------------
(***************************************************************************)
(* Calls to upstream hosts through the HostLimiter they share: Check and   *)
(* query of the RDAP provider (several bases, each with retries), and, as  *)
(* the case of one base and no retry, Check of the WHOIS provider.         *)
(***************************************************************************)
EXTENDS HostLimiter, Sequences

CONSTANTS
    Clients,     \* the goroutines that make calls
    Plans,       \* the hosts a call can be for: the RDAP bases of a TLD
    MaxRetries   \* per base

ASSUME UpstreamAssumption ==
    /\ \A p \in Plans : p \in Seq(Hosts) /\ Len(p) > 0
    /\ MaxRetries \in Nat

VARIABLES
    stage,     \* where each client is
    plan,      \* the hosts its call is for
    base,      \* the one it has got to
    attempt,   \* how often it has tried that one again
    ctx,       \* whether its context is live, or done: cancelled or too late
    late       \* history: the requests each client sent each host since the
               \* circuit of the host last opened, while it was open

calls == <<stage, plan, base, attempt, ctx>>
vars == <<tokens, failures, open, stage, plan, base, attempt, ctx, late>>

Stages == {"idle", "gate", "bucket", "sent", "backoff"}

Host(c) == plan[c][base[c]]

Init ==
    /\ LimiterInit
    /\ stage = [c \in Clients |-> "idle"]
    /\ plan \in [Clients -> Plans]
    /\ base = [c \in Clients |-> 1]
    /\ attempt = [c \in Clients |-> 0]
    /\ ctx = [c \in Clients |-> "live"]
    /\ late = [h \in Hosts |-> [c \in Clients |-> 0]]

Go(c, to) == stage' = [stage EXCEPT ![c] = to]

\* History: the slate of a host is clean once its circuit is closed.
Forget == late' = [h \in Hosts |-> IF open'[h] = 0 THEN [c \in Clients |-> 0]
                                                   ELSE late[h]]

\* Check of a provider begins.
Begin(c, p) ==
    /\ stage[c] = "idle"
    /\ Go(c, "gate")
    /\ plan' = [plan EXCEPT ![c] = p]
    /\ base' = [base EXCEPT ![c] = 1]
    /\ attempt' = [attempt EXCEPT ![c] = 0]
    /\ ctx' = [ctx EXCEPT ![c] = "live"]
    /\ UNCHANGED <<limiter, late>>

\* Mutant of LeaveBase: one base too many.
LeaveLastBase(c) ==
    /\ IF base[c] <= Len(plan[c]) /\ ctx[c] = "live"
       THEN /\ Go(c, "gate")
            /\ base' = [base EXCEPT ![c] = @ + 1]
            /\ attempt' = [attempt EXCEPT ![c] = 0]
       ELSE /\ Go(c, "idle")
            /\ UNCHANGED <<base, attempt>>
    /\ UNCHANGED <<plan, ctx>>

\* query returns an error: the next base is tried, if there is one and the
\* context is still live.  How the last error is then reported, as an error or
\* as a finding of status rate_limited, is no business of the limiter.
LeaveBase(c) ==
    /\ IF base[c] < Len(plan[c]) /\ ctx[c] = "live"
       THEN /\ Go(c, "gate")
            /\ base' = [base EXCEPT ![c] = @ + 1]
            /\ attempt' = [attempt EXCEPT ![c] = 0]
       ELSE /\ Go(c, "idle")
            /\ UNCHANGED <<base, attempt>>
    /\ UNCHANGED <<plan, ctx>>

\* Mutant of Refused: a refusal is reported as a failure of the host.
RefusedAndReported(c) ==
    /\ stage[c] = "gate"
    /\ IsOpen(Host(c))
    /\ ReportFailure(Host(c))
    /\ LeaveBase(c)
    /\ UNCHANGED late

\* Wait: the circuit is open, and the call is refused.
Refused(c) ==
    /\ stage[c] = "gate"
    /\ IsOpen(Host(c))
    /\ LeaveBase(c)
    /\ UNCHANGED <<limiter, late>>

\* Mutant of Pass: the circuit is not looked at.
PassUnchecked(c) ==
    /\ stage[c] = "gate"
    /\ Go(c, "bucket")
    /\ UNCHANGED <<limiter, plan, base, attempt, ctx, late>>

\* Wait: the circuit is closed.  From here on nobody looks at it again.
Pass(c) ==
    /\ stage[c] = "gate"
    /\ ~IsOpen(Host(c))
    /\ Go(c, "bucket")
    /\ UNCHANGED <<limiter, plan, base, attempt, ctx, late>>

\* Wait returns, and the request is sent.
Send(c) ==
    LET h == Host(c)
    IN  /\ stage[c] = "bucket"
        /\ TakeToken(h)
        /\ Go(c, "sent")
        /\ late' = IF IsOpen(h) THEN [late EXCEPT ![h][c] = @ + 1] ELSE late
        /\ UNCHANGED <<plan, base, attempt, ctx>>

\* Wait fails: the context is done, or would be before there is a token.
Abandon(c) ==
    /\ stage[c] = "bucket"
    /\ ctx[c] # "live" \/ tokens[Host(c)] = 0
    /\ LeaveBase(c)
    /\ UNCHANGED <<limiter, late>>

\* A response that settles the matter: a registration, or a 404.
Answered(c) ==
    /\ stage[c] = "sent"
    /\ ReportSuccess(Host(c))
    /\ Go(c, "idle")
    /\ Forget
    /\ UNCHANGED <<plan, base, attempt, ctx>>

\* Mutant of Retry: attempts are not counted.
RetryForever(c) ==
    /\ stage[c] = "sent"
    /\ attempt[c] < MaxRetries
    /\ ctx[c] = "live"
    /\ Go(c, "backoff")
    /\ UNCHANGED <<limiter, plan, base, attempt, ctx, late>>

\* The host throttles or the transport fails, and there is another attempt:
\* nothing is reported, and the client sleeps before it waits again.
Retry(c) ==
    /\ stage[c] = "sent"
    /\ attempt[c] < MaxRetries
    /\ ctx[c] = "live"
    /\ Go(c, "backoff")
    /\ attempt' = [attempt EXCEPT ![c] = @ + 1]
    /\ UNCHANGED <<limiter, plan, base, ctx, late>>

\* Mutant of WakeUp: a retry does not wait at the limiter's gate again.
WakeUpPastGate(c) ==
    /\ stage[c] = "backoff"
    /\ Go(c, "bucket")
    /\ UNCHANGED <<limiter, plan, base, attempt, ctx, late>>

WakeUp(c) ==
    /\ stage[c] = "backoff"
    /\ Go(c, "gate")
    /\ UNCHANGED <<limiter, plan, base, attempt, ctx, late>>

\* The context is done before the sleep is over.
SleepCut(c) ==
    /\ stage[c] = "backoff"
    /\ ctx[c] # "live"
    /\ LeaveBase(c)
    /\ UNCHANGED <<limiter, late>>

\* The last attempt fails, or one that is not worth another (an unexpected
\* status, a malformed body), or the context is done.  That the caller gave up
\* is reported as a failure of the host like any other.
Failed(c) ==
    /\ stage[c] = "sent"
    /\ ReportFailure(Host(c))
    /\ LeaveBase(c)
    /\ UNCHANGED late

\* The caller cancels, or the timeout of the call expires.
ContextEnds(c) ==
    /\ stage[c] # "idle"
    /\ ctx[c] = "live"
    /\ ctx' = [ctx EXCEPT ![c] = "done"]
    /\ UNCHANGED <<limiter, stage, plan, base, attempt, late>>

Tick ==
    /\ LimiterTick
    /\ Forget
    /\ UNCHANGED calls

Responds(c) ==
    \/ Answered(c)
    \/ Retry(c)
    \/ Failed(c)

Next ==
    \/ \E c \in Clients :
          \/ \E p \in Plans : Begin(c, p)
          \/ Refused(c)
          \/ Pass(c)
          \/ Send(c)
          \/ Abandon(c)
          \/ Responds(c)
          \/ WakeUp(c)
          \/ SleepCut(c)
          \/ ContextEnds(c)
    \/ Tick

Spec == Init /\ [][Next]_vars

\* Time passes, a bucket serves those who wait in turn, the timeout of a call
\* ends a request that is not answered, and a sleep ends.
Fairness ==
    /\ WF_vars(Tick)
    /\ \A c \in Clients :
          /\ WF_vars(Refused(c) \/ Pass(c))
          /\ SF_vars(Send(c))
          /\ WF_vars(Responds(c))
          /\ WF_vars(WakeUp(c))

FairSpec == Spec /\ Fairness

-----------------------------------------------------------------------------
TypeOK ==
    /\ LimiterTypeOK
    /\ stage \in [Clients -> Stages]
    /\ plan \in [Clients -> Plans]
    /\ base \in [Clients -> Nat] /\ \A c \in Clients : base[c] \in DOMAIN plan[c]
    /\ attempt \in [Clients -> 0 .. MaxRetries]
    /\ ctx \in [Clients -> {"live", "done"}]
    /\ late \in [Hosts -> [Clients -> Nat]]

\* A circuit is open only after FailureThreshold failures with no success in
\* between, whatever requests were under way while it opened, closed and
\* opened again.
OpenAfterFailures == \A h \in Hosts : IsOpen(h) => failures[h] >= FailureThreshold

\* An open circuit lets at most one more request of each client through, the
\* one that had passed the gate before it opened: no retry, no further base
\* and no new call gets to the host.
OneStragglerEach == \A h \in Hosts, c \in Clients : late[h][c] <= 1

\* While a circuit is open, those who can still reach the host only get fewer.
PastGate(h) == {c \in Clients : stage[c] \in {"bucket", "sent"} /\ Host(c) = h}

OpenAdmitsNobody ==
    [][\A h \in Hosts : IsOpen(h) /\ IsOpen(h)' => PastGate(h)' \subseteq PastGate(h)]_vars

\* A circuit does not stay open for good, even if every straggler fails and
\* keeps it open: refused calls do not count as failures.
CircuitRecovers == \A h \in Hosts : IsOpen(h) ~> ~IsOpen(h)

\* Every call ends: retries and bases are finite, and a bucket is refilled.
CallsEnd == \A c \in Clients : stage[c] # "idle" ~> stage[c] = "idle"

-----------------------------------------------------------------------------
(* The inductive invariant of UpstreamProofs. *)

\* A client that has sent a late request is past the bucket: to be in it
\* again, it must pass the gate, which is shut until the slate is clean.
StragglersSpent ==
    \A h \in Hosts, c \in Clients :
        late[h][c] > 0 =>
            /\ late[h][c] = 1
            /\ IsOpen(h)
            /\ ~(stage[c] = "bucket" /\ Host(c) = h)

Inductive ==
    /\ TypeOK
    /\ OpenAfterFailures
    /\ StragglersSpent
=============================================================================
