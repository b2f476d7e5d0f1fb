---------------------------- MODULE JobLifecycle ----------------------------
(***************************************************************************)
(* What the job status promises to everyone who reads it: it starts at     *)
(* CREATED and every change is an event that state_machines.py accepts, or *)
(* one of the two client requests that put a job back in the queue (retry  *)
(* of a failed job, rerun of a finished, cancelled or waiting one).        *)
(*                                                                         *)
(* JobControl, where the status is a database row that API handlers and    *)
(* workers read and write in separate transactions, is checked against     *)
(* this specification.                                                     *)
(***************************************************************************)
EXTENDS Lifecycle

VARIABLE job

\* The states from which jobs.py lets a client ask for a new run.
Rerunnable == {"SUCCEEDED", "FAILED", "CANCELLED", "NEEDS_REVIEW"}

Init == job = "CREATED"

\* An event of the table; the reviewer's decision may be any.
Handle(event) ==
  \E decision \in ReviewDecisions : job' \in JobNextStates(job, event, decision)

\* A rerun, and the retry of a failed job.
Requeue == job \in Rerunnable /\ job' = "QUEUED"

Next == (\E event \in JobEvents : Handle(event)) \/ Requeue

Spec == Init /\ [][Next]_job
=============================================================================
