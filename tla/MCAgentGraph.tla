----------------------------- MODULE MCAgentGraph -----------------------------
(***************************************************************************)
(* AgentGraph with the budgets and the contexts of its callers.            *)
(***************************************************************************)
EXTENDS LangGraph

\* What RuntimeWorker._context passes for every request.
WorkerRequests ==
  { {"asset_valid"} \cup f :
      f \in SUBSET {"has_audio", "barred", "high_risk", "validation_error",
                    "numeric_inconsistent"} }

\* The contexts that only other callers of the graph pass.
OtherRequests ==
  { {}, {"asset_valid", "transcript_only"},
    {"asset_valid", "transcript_only", "numeric_inconsistent"} }

AllRequests == WorkerRequests \cup OtherRequests

PersistentRequests ==
  { {"asset_valid", "numeric_inconsistent", "persistent_verifier_failure"} }

\* The defaults of BudgetLimits, no repairs, and too few steps for some ways.
SomeLimits == {[steps |-> 32, rounds |-> 2], [steps |-> 16, rounds |-> 2],
               [steps |-> 32, rounds |-> 1], [steps |-> 32, rounds |-> 0],
               [steps |-> 11, rounds |-> 1]}

DefaultLimits == {[steps |-> 32, rounds |-> 2]}
=============================================================================
