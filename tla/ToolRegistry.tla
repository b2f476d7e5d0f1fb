----------------------------- MODULE ToolRegistry -----------------------------
(***************************************************************************)
(* ToolRegistry.invoke (tools.py) and the part of BudgetTracker it uses:   *)
(* one Agent run calls a tool again and again, with and without an         *)
(* idempotency key.  Every attempt runs the handler on a thread of its     *)
(* own; a thread that is too slow is abandoned, not stopped, and may still *)
(* be running when the next attempt or the next call starts another.       *)
(***************************************************************************)
EXTENDS Naturals

CONSTANTS
  ToolKeys,         \* idempotency keys
  NoKey,            \* a call without one
  Outputs,          \* what a handler may return
  NoOutput,
  MaxAttempts,      \* ToolSpec.max_attempts
  MaxToolRetries,   \* BudgetLimits.max_tool_retries
  MaxInvocations    \* bound on calls

ASSUME ToolAssumption ==
  /\ NoKey \notin ToolKeys /\ NoOutput \notin Outputs
  /\ MaxAttempts \in Nat \ {0}
  /\ MaxToolRetries \in Nat /\ MaxInvocations \in Nat

VARIABLES
  invocation,    \* the call that waits for its handler: [key, attempts]
  toolCache,     \* ToolRegistry._cache
  toolRetries,   \* BudgetUsage.tool_retries
  deadline,      \* the deadline of the budget has passed
  abandoned,     \* threads whose attempt has timed out and that still run
  invocations,   \* calls so far
  started,       \* handler threads started so far
  toolAnswers    \* the outputs returned for every key so far

toolVars == <<invocation, toolCache, toolRetries, deadline, abandoned,
              invocations, started, toolAnswers>>

NoInvocation == [key |-> NoKey, attempts |-> 0]

ToolInit ==
  /\ invocation = NoInvocation
  /\ toolCache = [k \in ToolKeys |-> NoOutput]
  /\ toolRetries = 0 /\ deadline = FALSE
  /\ abandoned = 0 /\ invocations = 0 /\ started = 0
  /\ toolAnswers = [k \in ToolKeys |-> {}]

-----------------------------------------------------------------------------

IdleTool == invocation.attempts = 0

Attempting == invocation.attempts > 0

\* budget.check_available: the retries are compared with > .
Available == ~deadline /\ toolRetries <= MaxToolRetries

Cached(k) == k \in ToolKeys /\ toolCache[k] # NoOutput

AnswerTool(k, o) ==
  toolAnswers' = IF k = NoKey THEN toolAnswers
                 ELSE [toolAnswers EXCEPT ![k] = @ \cup {o}]

\* Unregistered, not allowed, out of budget, malformed or of another workspace.
RefuseTool ==
  /\ IdleTool /\ invocations < MaxInvocations
  /\ invocations' = invocations + 1
  /\ UNCHANGED <<invocation, toolCache, toolRetries, deadline, abandoned,
                 started, toolAnswers>>

InvokeTool(k) ==
  /\ IdleTool /\ invocations < MaxInvocations /\ Available
  /\ invocations' = invocations + 1
  /\ \/ /\ Cached(k)
        /\ AnswerTool(k, toolCache[k])
        /\ UNCHANGED <<invocation, started>>
     \/ /\ ~Cached(k)
        /\ invocation' = [key |-> k, attempts |-> 1]
        /\ started' = started + 1
        /\ UNCHANGED toolAnswers
  /\ UNCHANGED <<toolCache, toolRetries, deadline, abandoned>>

\* Fault: only the first attempt fills the cache.
RememberFirstTry(o) ==
  toolCache' = IF invocation.key = NoKey \/ invocation.attempts > 1
               THEN toolCache
               ELSE [toolCache EXCEPT ![invocation.key] = o]

Remember(o) ==
  toolCache' = IF invocation.key = NoKey THEN toolCache
               ELSE [toolCache EXCEPT ![invocation.key] = o]

\* The handler has returned in time an output of the model it declares.
HandlerReturns(o) ==
  /\ Attempting
  /\ Remember(o) /\ AnswerTool(invocation.key, o)
  /\ invocation' = NoInvocation
  /\ UNCHANGED <<toolRetries, deadline, abandoned, invocations, started>>

\* budget.before_tool_retry lets a retry go on.
RetryLeft == toolRetries < MaxToolRetries

\* Another attempt, if there is one left and the budget has a retry for it;
\* otherwise the call ends with an error.
RetryOrGiveUp ==
  /\ IF invocation.attempts < MaxAttempts /\ RetryLeft
     THEN /\ invocation' = [invocation EXCEPT !.attempts = @ + 1]
          /\ toolRetries' = toolRetries + 1
          /\ started' = started + 1
     ELSE /\ invocation' = NoInvocation
          /\ UNCHANGED <<toolRetries, started>>
  /\ UNCHANGED <<toolCache, deadline, invocations, toolAnswers>>

\* It raised, or returned what its output model does not accept.
HandlerFails ==
  /\ Attempting
  /\ RetryOrGiveUp
  /\ UNCHANGED abandoned

\* future.result has waited long enough: shutdown(wait=False) leaves the thread
\* alone.  A handler that raises TimeoutError itself leaves none.
HandlerTimesOut ==
  /\ Attempting
  /\ RetryOrGiveUp
  /\ abandoned' \in {abandoned, abandoned + 1}

\* What an abandoned thread returns, nobody reads.
AbandonedEnds ==
  /\ abandoned > 0 /\ abandoned' = abandoned - 1
  /\ UNCHANGED <<invocation, toolCache, toolRetries, deadline, invocations,
                 started, toolAnswers>>

DeadlinePasses ==
  /\ ~deadline /\ deadline' = TRUE
  /\ UNCHANGED <<invocation, toolCache, toolRetries, abandoned, invocations,
                 started, toolAnswers>>

ToolNext ==
  \/ RefuseTool
  \/ \E k \in ToolKeys \cup {NoKey} : InvokeTool(k)
  \/ \E o \in Outputs : HandlerReturns(o)
  \/ HandlerFails \/ HandlerTimesOut \/ AbandonedEnds \/ DeadlinePasses

ToolSpec == ToolInit /\ [][ToolNext]_toolVars

-----------------------------------------------------------------------------

\* A call repeated with its key is answered with the output of the first one
\* that succeeded, however many attempts were abandoned before, and however
\* late those finish.
SameKeySameAnswer ==
  \A k \in ToolKeys : \A o, p \in toolAnswers[k] : o = p

\* All calls of a run together start no more handlers than there are calls and
\* retries in its budget.
AttemptsWithinBudget == started <= invocations + MaxToolRetries

\* Retries are safe and bounded.
RetriesAreSafe == SameKeySameAnswer /\ AttemptsWithinBudget

=============================================================================
