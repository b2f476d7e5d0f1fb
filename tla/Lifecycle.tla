------------------------------ MODULE Lifecycle ------------------------------
(***************************************************************************)
(* The lifecycle tables of packages/agent_runtime/state_machines.py that   *)
(* jobs and agent runs follow.                                             *)
(*                                                                         *)
(* transition(current, event, review_decision) either returns the next     *)
(* state or raises InvalidTransition.  Here each table is a set of triples *)
(* and the function is an operator that returns the set of next states:    *)
(* empty for an exception, a singleton otherwise.                          *)
(***************************************************************************)

JobStates == {"CREATED", "UPLOADING", "QUEUED", "RUNNING", "NEEDS_REVIEW",
              "SUCCEEDED", "FAILED", "CANCELLED"}

JobEvents == {"BEGIN_UPLOAD", "FINISH_UPLOAD", "START", "WORKER_STARTED",
              "REQUIRE_REVIEW", "REVIEW_APPROVED", "REVIEW_REJECTED",
              "SUCCEED", "FAIL", "CANCEL"}

RunStates == {"INITIALIZING", "INSPECTING", "PLANNING", "EXECUTING",
              "VERIFYING", "WAITING_HUMAN", "COMPLETED", "ERRORED"}

RunEvents == {"INSPECT", "PLAN", "EXECUTE", "VERIFY", "REQUEST_REVIEW",
              "RESUME", "COMPLETE", "ERROR"}

ReviewDecisions == {"APPROVED", "MODIFIED", "REJECTED", "MATERIALS_REQUESTED"}

\* The decisions that let a job that waits for a review go on.
Approving == {"APPROVED", "MODIFIED"}

-----------------------------------------------------------------------------

JobTransitions ==
  { <<"CREATED", "BEGIN_UPLOAD", "UPLOADING">>,
    <<"CREATED", "START", "QUEUED">>,
    <<"UPLOADING", "FINISH_UPLOAD", "QUEUED">>,
    <<"QUEUED", "WORKER_STARTED", "RUNNING">>,
    <<"RUNNING", "REQUIRE_REVIEW", "NEEDS_REVIEW">>,
    <<"NEEDS_REVIEW", "REVIEW_APPROVED", "RUNNING">>,
    <<"NEEDS_REVIEW", "REVIEW_REJECTED", "FAILED">>,
    <<"RUNNING", "SUCCEED", "SUCCEEDED">>,
    <<"RUNNING", "FAIL", "FAILED">> }

RunTransitions ==
  { <<"INITIALIZING", "INSPECT", "INSPECTING">>,
    <<"INSPECTING", "PLAN", "PLANNING">>,
    <<"PLANNING", "EXECUTE", "EXECUTING">>,
    <<"EXECUTING", "VERIFY", "VERIFYING">>,
    <<"EXECUTING", "REQUEST_REVIEW", "WAITING_HUMAN">>,
    <<"VERIFYING", "REQUEST_REVIEW", "WAITING_HUMAN">>,
    <<"VERIFYING", "COMPLETE", "COMPLETED">> }

Lookup(table, state, event) ==
  {t[3] : t \in {u \in table : u[1] = state /\ u[2] = event}}

\* States a CANCEL event leaves alone.
JobSettled == {"SUCCEEDED", "FAILED", "CANCELLED"}

\* Events of a worker that a cancelled job absorbs.
LateEvents == {"WORKER_STARTED", "REQUIRE_REVIEW", "SUCCEED", "FAIL"}

\* transition() for a job, with the recorded review decision.
JobNextStates(state, event, decision) ==
  IF event = "CANCEL" /\ state \notin JobSettled THEN {"CANCELLED"}
  ELSE IF state = "CANCELLED" /\ event \in LateEvents THEN {"CANCELLED"}
  ELSE IF event = "REVIEW_APPROVED" /\ decision \notin Approving THEN {}
  ELSE Lookup(JobTransitions, state, event)

\* transition() for an agent run.
RunNextStates(state, event, decision) ==
  IF event = "ERROR" /\ state \notin {"COMPLETED", "ERRORED"} THEN {"ERRORED"}
  ELSE IF state = "WAITING_HUMAN" /\ event = "RESUME"
  THEN (IF decision \in Approving THEN {"EXECUTING"} ELSE {})
       \cup (IF decision = "REJECTED" THEN {"ERRORED"} ELSE {})
  ELSE Lookup(RunTransitions, state, event)

=============================================================================
