---------------------------- MODULE ModelGateway ----------------------------
(***************************************************************************)
(* ResilientModelExecutor.execute: a caller passes the circuit breaker,    *)
(* the local rate limiter and the budget of its job, calls the adapter,    *)
(* settles the usage, and retries or repairs within the policy.  Callers   *)
(* are threads that share the breaker and the limiter of one provider and  *)
(* model; each works for a job with a budget of its own.                   *)
(***************************************************************************)
EXTENDS ModelAdapters, Sequences, SequencesExt

CONSTANTS
  Callers,
  Threshold,     \* failure_threshold of the breaker
  Cooldown,      \* cooldown_seconds, in ticks
  MaxRate,       \* calls the limiter lets through in a window
  RateWindow,    \* the window, in ticks
  MaxRetries, MaxRepairs,
  MaxCalls, MaxTokens, MaxWall,    \* the budget of a job
  Estimate,      \* tokens reserved for a call
  Overrun,       \* how much a provider may exceed its reservation by
  MaxNow         \* bound on the clock

ASSUME GatewayAssumption ==
  /\ IsFiniteSet(Callers)
  /\ {Threshold, MaxRate, RateWindow, MaxCalls, MaxTokens} \subseteq Nat \ {0}
  /\ {Cooldown, MaxRetries, MaxRepairs, MaxWall, Estimate, Overrun, MaxNow}
       \subseteq Nat

VARIABLES
  time,        \* the monotonic clock
  breaker,     \* its failures, and when it opened
  passes,      \* the times the limiter holds
  budget,      \* calls and tokens charged to each caller's job
  caller,      \* where each caller is
  burst        \* history: times of the failures since the last success

gatewayVars ==
  <<time, breaker, passes, budget, caller, burst>>

Shut == -1     \* opened_at is None: calls go through

Done == [pc |-> "idle", retries |-> 0, repairs |-> 0, read |-> 0,
         code |-> "OK"]

GatewayInit ==
  /\ time = 0 /\ passes = <<>> /\ burst = <<>>
  /\ breaker = [failures |-> 0, opened |-> Shut]
  /\ budget = [c \in Callers |-> [calls |-> 0, tokens |-> 0]]
  /\ caller = [c \in Callers |-> Done]

Move(c, pc) == caller' = [caller EXCEPT ![c].pc = pc]

-----------------------------------------------------------------------------
(* Before the call                                                         *)

Execute(c) ==
  /\ caller[c].pc = "idle" /\ budget[c].calls < MaxCalls
  /\ Move(c, "gate")
  /\ UNCHANGED <<time, breaker, passes, budget, burst>>

Cooled == breaker.opened = Shut \/ time - breaker.opened >= Cooldown

\* before_call: an open circuit is shut by the first caller after the
\* cool-down, one failure short of opening again.
PassBreaker(c) ==
  /\ caller[c].pc = "gate" /\ Cooled
  /\ breaker' = IF breaker.opened = Shut THEN breaker
                ELSE [failures |-> Threshold - 1, opened |-> Shut]
  /\ caller' = [caller EXCEPT ![c].pc = "rate", ![c].read = time]
  /\ UNCHANGED <<time, passes, budget, burst>>

CircuitOpen(c) ==
  /\ caller[c].pc = "gate" /\ ~Cooled
  /\ caller' = [caller EXCEPT ![c] = Done]
  /\ UNCHANGED <<time, breaker, passes, budget, burst>>

\* acquire: the clock was read before the lock was taken.  Old passes are
\* dropped from the front.
AcquireRate(c) ==
  LET Fresh(t) == caller[c].read - t < RateWindow
      first == SelectInSeq(passes, Fresh)
      kept == IF first = 0 THEN <<>> ELSE SubSeq(passes, first, Len(passes))
  IN  /\ caller[c].pc = "rate"
      /\ IF Len(kept) < MaxRate
         THEN /\ passes' = Append(kept, caller[c].read) /\ Move(c, "reserve")
         ELSE /\ passes' = kept /\ caller' = [caller EXCEPT ![c] = Done]
      /\ UNCHANGED <<time, breaker, budget, burst>>

Affordable(c) ==
  /\ time <= MaxWall /\ budget[c].calls < MaxCalls
  /\ budget[c].tokens + Estimate <= MaxTokens

\* begin_call: the call is counted before it is made, the tokens after.
BeginCall(c) ==
  /\ caller[c].pc = "reserve"
  /\ IF Affordable(c)
     THEN /\ budget' = [budget EXCEPT ![c].calls = @ + 1] /\ Move(c, "call")
     ELSE caller' = [caller EXCEPT ![c] = Done] /\ UNCHANGED budget
  /\ UNCHANGED <<time, breaker, passes, burst>>

-----------------------------------------------------------------------------
(* The call                                                                *)

\* settle_call: what the attempt comes to when the adapter has answered with
\* u tokens used, and whether they are charged.
Settled(result, u) ==
  IF result.code # "OK" THEN [code |-> result.code, charged |-> FALSE]
  ELSE IF u > Estimate THEN [code |-> "MODEL_BUDGET_EXCEEDED", charged |-> FALSE]
  ELSE IF ~result.priced THEN [code |-> "MODEL_COST_UNKNOWN", charged |-> FALSE]
  ELSE [code |-> IF time > MaxWall THEN "MODEL_BUDGET_EXCEEDED" ELSE "OK",
        charged |-> TRUE]

\* The adapter returns or raises; only a result is settled.
AdapterReturns(c) ==
  /\ caller[c].pc = "call"
  /\ \E result \in Results, u \in 0 .. Estimate + Overrun :
       /\ u > 0 => result.worked
       /\ caller' = [caller EXCEPT ![c].pc = "returned",
                                   ![c].code = Settled(result, u).code]
       /\ budget' = IF Settled(result, u).charged
                    THEN [budget EXCEPT ![c].tokens = @ + u] ELSE budget
  /\ UNCHANGED <<time, breaker, passes, burst>>

\* An exception the gateway does not know leaves execute at once: no record,
\* nothing for the breaker.
Escape(c) ==
  /\ caller[c].pc = "returned" /\ caller[c].code = "ESCAPES"
  /\ caller' = [caller EXCEPT ![c] = Done]
  /\ UNCHANGED <<time, breaker, passes, budget, burst>>

\* Fault: a circuit opens one failure late.
OpensLate(b) ==
  [failures |-> b.failures + 1,
   opened |-> IF b.failures + 1 > Threshold THEN time ELSE b.opened]

\* record_failure; a failure after the circuit has opened opens it anew.
Failed(b) ==
  [failures |-> b.failures + 1,
   opened |-> IF b.failures + 1 >= Threshold THEN time ELSE b.opened]

\* Whether another attempt follows a failure, and which counter pays for it.
Retried(c, code) ==
  IF code = "MODEL_SCHEMA_PARSE_FAILED" /\ caller[c].repairs < MaxRepairs
  THEN [caller[c] EXCEPT !.pc = "gate", !.repairs = @ + 1]
  ELSE IF code \in Retryable /\ caller[c].retries < MaxRetries
  THEN [caller[c] EXCEPT !.pc = "gate", !.retries = @ + 1]
  ELSE Done

\* The attempt is recorded, then the breaker hears of the failure.
Fail(c) ==
  LET code == caller[c].code IN
  /\ caller[c].pc = "returned" /\ code \notin {"OK", "ESCAPES"}
  /\ breaker' = IF code \in Retryable THEN Failed(breaker) ELSE breaker
  /\ burst' = IF code \in Retryable THEN Append(burst, time) ELSE burst
  /\ caller' = [caller EXCEPT ![c] = Retried(c, code)]
  /\ UNCHANGED <<time, passes, budget>>

\* The breaker hears of the success, then the attempt is recorded.
Succeed(c) ==
  /\ caller[c].pc = "returned" /\ caller[c].code = "OK"
  /\ breaker' = [failures |-> 0, opened |-> Shut] /\ burst' = <<>>
  /\ caller' = [caller EXCEPT ![c] = Done]
  /\ UNCHANGED <<time, passes, budget>>

\* The record cannot be written: that exception takes the place of the
\* result or of the failure, and a failure never reaches the breaker.
RecordFails(c) ==
  /\ caller[c].pc = "returned" /\ caller[c].code # "ESCAPES"
  /\ IF caller[c].code = "OK"
     THEN breaker' = [failures |-> 0, opened |-> Shut] /\ burst' = <<>>
     ELSE UNCHANGED <<breaker, burst>>
  /\ caller' = [caller EXCEPT ![c] = Done]
  /\ UNCHANGED <<time, passes, budget>>

Pass ==
  /\ time < MaxNow /\ time' = time + 1
  /\ UNCHANGED <<breaker, passes, budget, caller, burst>>

GatewayNext ==
  \/ \E c \in Callers :
       \/ Execute(c) \/ PassBreaker(c) \/ CircuitOpen(c) \/ AcquireRate(c)
       \/ BeginCall(c) \/ AdapterReturns(c) \/ Escape(c) \/ Fail(c) \/ Succeed(c)
       \/ RecordFails(c)
  \/ Pass

GatewaySpec == GatewayInit /\ [][GatewayNext]_gatewayVars

-----------------------------------------------------------------------------
(* Properties                                                              *)

\* A failing provider is spared: once Threshold calls in a row have failed,
\* each other caller may still bring in the failure of a call that was under
\* way, and for a cool-down there are no more.
StormIsShort ==
  \A i \in DOMAIN burst : i >= Threshold =>
    Cardinality({j \in DOMAIN burst : j > i /\ burst[j] < burst[i] + Cooldown})
      < Cardinality(Callers)

\* The reservation holds: a job is charged neither more calls nor more
\* tokens than its budget has, whatever its providers answer.
BudgetHolds ==
  \A c \in Callers :
    budget[c].tokens <= MaxTokens /\ budget[c].calls <= MaxCalls

\* Neither a failing provider nor a long job is called without a bound
\* (CircuitBreaker, JobModelBudget).
GatewayIsBounded == StormIsShort /\ BudgetHolds

=============================================================================
