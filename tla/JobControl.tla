----------------------------- MODULE JobControl -----------------------------
(***************************************************************************)
(* One analysis job from POST /start to its final status: the rows of the  *)
(* database that describe it, the API handlers that change them on behalf  *)
(* of clients, the outbox and the Celery broker that carry work to the     *)
(* workers, and the workers that claim a run, execute the agent graph and  *)
(* write the result back.                                                  *)
(*                                                                         *)
(* Transactions.  The engine of packages/persistence/database.py sets no   *)
(* isolation level, so PostgreSQL runs at READ COMMITTED, and the sessions *)
(* are made with autoflush=False: a transaction first reads rows and later *)
(* writes, by primary key, the columns whose value differs from the one it *)
(* loaded.  A transaction that writes is therefore two steps here, the     *)
(* first keeps what it read in the process, the second is the commit; in   *)
(* between any other process may commit.  Statements with their own WHERE  *)
(* on the status (start_job and SqlReviewService.decide) test the row they *)
(* write.  With Serialized = TRUE no process moves while another one is    *)
(* between the two steps.                                                  *)
(*                                                                         *)
(* Row identities are positions: run r, outbox event e, task t and review  *)
(* v are the r-th, e-th, t-th and v-th created, so that "latest created"   *)
(* is the last one.  0 stands for none.                                    *)
(***************************************************************************)
EXTENDS Lifecycle, Naturals, Sequences

CONSTANTS
  Handlers,       \* threads of the API that serve requests
  Workers,        \* Celery worker processes
  Requests,       \* the kinds of requests clients make
  Decisions,      \* the decisions reviewers take
  Outcomes,       \* how the agent graph may end
  Structured,     \* TRUE for a job of mode "structured", which has artifacts
  Serialized,     \* TRUE if transactions never overlap
  Flaky,          \* the calls that may raise
  MaxRuns,        \* bound on agent_runs rows
  MaxEvents,      \* bound on outbox_events rows
  MaxTasks,       \* bound on messages sent to the broker
  MaxCrashes,     \* bound on deaths of a handler or a worker
  MaxDuplicates,  \* bound on redeliveries by the broker itself
  MaxFailures     \* bound on calls that raise

ASSUME ProcessesAssumption == Handlers \cap Workers = {}

ASSUME RequestsAssumption ==
  Requests \subseteq {"start", "retry", "rerun", "cancel", "decide", "replay"}

ASSUME ChoiceAssumption ==
  /\ Decisions \subseteq ReviewDecisions
  /\ Outcomes \subseteq {"SUCCEEDED", "NEEDS_REVIEW", "FAILED", "RAISED"}
  /\ "SUCCEEDED" \in Outcomes
  /\ Structured \in BOOLEAN
  /\ Serialized \in BOOLEAN
  /\ Flaky \subseteq {"send", "note", "begin", "publish", "announce", "review"}

ASSUME BoundsAssumption ==
  /\ MaxRuns \in Nat /\ MaxEvents \in Nat /\ MaxTasks \in Nat
  /\ MaxCrashes \in Nat /\ MaxDuplicates \in Nat /\ MaxFailures \in Nat

VARIABLES
  job,         \* analysis_jobs.status
  runs,        \* the agent_runs rows of the job
  touched,     \* the run with the greatest updated_at
  outbox,      \* the outbox_events rows
  reviews,     \* the review_items rows
  artifacts,   \* the runs whose artifacts are published
  tasks,       \* what was ever sent to the broker
  hs,          \* what each handler is doing and has loaded
  ws,          \* what each worker is doing and has loaded
  crashes, duplicates, failures   \* how much of each bound is used

rows == <<job, runs, touched, outbox, reviews, artifacts>>
used == <<crashes, duplicates, failures>>
vars == <<job, runs, touched, outbox, reviews, artifacts, tasks, hs, ws,
          crashes, duplicates, failures>>

-----------------------------------------------------------------------------
(* Rows and process states                                                 *)

RunRow == [status : RunStates, slot : BOOLEAN, task : Nat,
           ckpt : {"none", "step", "review"}]

EventRow == [kind : {"start", "retry", "rerun", "resume"}, run : Nat,
             status : {"PENDING", "PUBLISHING", "PUBLISHED"}]

TaskRow == [event : Nat, copies : Nat, revoked : BOOLEAN]

ReviewRow == [run : Nat, status : {"PENDING", "DECIDED"}]

\* A handler: where it is in its request, and the rows it has loaded.
HandlerState ==
  [pc : {"idle", "start", "retry", "rerun", "look", "cancel", "revoke",
         "decided", "resume", "drain", "batch", "claim", "send", "note",
         "unsend", "done"},
   job : JobStates, run : Nat, status : RunStates, slot : BOOLEAN,
   decision : ReviewDecisions, batch : SUBSET Nat, event : Nat, task : Nat]

\* A worker: the task it executes, the rows it has loaded, the graph's result.
WorkerState ==
  [pc : {"idle", "read", "claim", "drop", "load", "begin", "graph", "publish",
         "finread", "finish", "announce", "review", "failread", "fail"},
   task : Nat, job : JobStates, status : RunStates, slot : BOOLEAN,
   from : {"none", "step", "review"},
   outcome : {"SUCCEEDED", "NEEDS_REVIEW", "FAILED", "RAISED"}]

IdleHandler == [pc |-> "idle", job |-> "CREATED", run |-> 0,
                status |-> "INITIALIZING", slot |-> FALSE,
                decision |-> "APPROVED", batch |-> {}, event |-> 0, task |-> 0]

IdleWorker == [pc |-> "idle", task |-> 0, job |-> "CREATED",
               status |-> "INITIALIZING", slot |-> FALSE, from |-> "none",
               outcome |-> "RAISED"]

\* The job exists (POST /jobs has returned) and nothing has been asked of it.
Init ==
  /\ job = "CREATED"
  /\ runs = <<>> /\ touched = 0 /\ outbox = <<>> /\ reviews = <<>>
  /\ artifacts = {} /\ tasks = <<>>
  /\ hs = [h \in Handlers |-> IdleHandler]
  /\ ws = [w \in Workers |-> IdleWorker]
  /\ crashes = 0 /\ duplicates = 0 /\ failures = 0

-----------------------------------------------------------------------------
(* Helpers                                                                 *)

\* A column at commit: only a value that differs from the loaded one is sent.
Store(current, loaded, new) == IF new = loaded THEN current ELSE new

ActiveRuns == {r \in DOMAIN runs : runs[r].slot}

\* uq_one_active_run_per_job lets run r take the slot.
SlotFree(r) == ActiveRuns \subseteq {r}

\* The handler's UPDATE may give its run the slot: the column is not sent if it
\* was loaded as taken.
MayTakeSlot(h) == hs[h].slot \/ SlotFree(hs[h].run)

\* The commit of a transaction that loaded `from` of run r and set its status
\* and its active_slot.
UpdateRun(r, from, status, slot) ==
  /\ runs' = [runs EXCEPT ![r].status = Store(@, from.status, status),
                          ![r].slot = Store(@, from.slot, slot)]
  /\ touched' = IF from.status = status /\ from.slot = slot
                THEN touched ELSE r

\* Fault: only start_job writes an outbox row.
EmitForStartOnly(kind, r) ==
  IF kind = "start"
  THEN outbox' = Append(outbox, [kind |-> kind, run |-> r, status |-> "PENDING"])
  ELSE UNCHANGED outbox

\* session.add(OutboxEvent(...)) in the transaction that needs it.
Emit(kind, r) ==
  /\ Len(outbox) < MaxEvents
  /\ outbox' = Append(outbox, [kind |-> kind, run |-> r, status |-> "PENDING"])

\* session.add(AgentRun(...)) with its outbox row.
CreateRun(kind) ==
  /\ Len(runs) < MaxRuns
  /\ runs' = Append(runs, [status |-> "INITIALIZING", slot |-> TRUE,
                           task |-> 0, ckpt |-> "none"])
  /\ touched' = Len(runs) + 1
  /\ Emit(kind, Len(runs) + 1)

At(h, pc) == hs[h].pc = pc
Goto(h, pc) == hs' = [hs EXCEPT ![h].pc = pc]
Respond(h) == hs' = [hs EXCEPT ![h] = IdleHandler]
Drain(h) == hs' = [hs EXCEPT ![h] = [IdleHandler EXCEPT !.pc = "drain"]]

WAt(w, pc) == ws[w].pc = pc
WGoto(w, pc) == ws' = [ws EXCEPT ![w].pc = pc]
Ack(w) == ws' = [ws EXCEPT ![w] = IdleWorker]

\* The run a worker's task is about, and whether the task resumes it.
RunOf(w) == outbox[tasks[ws[w].task].event].run
Resuming(w) == outbox[tasks[ws[w].task].event].kind = "resume"

\* A worker loads the job and the run of its task.
WLoad(w, pc) ==
  ws' = [ws EXCEPT ![w].pc = pc, ![w].job = job,
                   ![w].status = runs[RunOf(w)].status,
                   ![w].slot = runs[RunOf(w)].slot]

\* A call outside the database raises.
Raises(call) ==
  /\ call \in Flaky /\ failures < MaxFailures
  /\ failures' = failures + 1
  /\ UNCHANGED <<crashes, duplicates>>

-----------------------------------------------------------------------------
(* POST /start, /retry and /rerun: a transaction of JobLifecycleService,   *)
(* then publish_outbox.  A request that is refused changes nothing.        *)

\* The job already has an active run: it is the answer.  Otherwise the job
\* must be CREATED.
StartRead(h) ==
  /\ "start" \in Requests /\ At(h, "idle")
  /\ \/ ActiveRuns # {} /\ Drain(h)
     \/ ActiveRuns = {} /\ job = "CREATED" /\ Goto(h, "start")
  /\ UNCHANGED <<rows, tasks, ws, used>>

\* Fault: an UPDATE by primary key alone.
StartableAlways == TRUE

\* The WHERE clause of the UPDATE that takes the job.
Startable == job = "CREATED"

\* Of two handlers one matches the row.  The other answers with the active
\* run, or fails if there is none by now.
StartCommit(h) ==
  /\ At(h, "start")
  /\ \/ /\ Startable
        /\ job' = "QUEUED" /\ CreateRun("start")
        /\ Drain(h)
        /\ UNCHANGED <<reviews, artifacts>>
     \/ /\ ~Startable
        /\ IF ActiveRuns # {} THEN Drain(h) ELSE Respond(h)
        /\ UNCHANGED rows
  /\ UNCHANGED <<tasks, ws, used>>

\* Fault: retry accepts a job that is running.
RetryableWhileRunning == job \in {"FAILED", "RUNNING"}

\* Fault: retry accepts a job that waits for a review.
RetryableWhileWaiting == job \in {"FAILED", "NEEDS_REVIEW"}

\* Only a failed job may be retried.
Retryable == job = "FAILED"

\* The run is the one created last.
RetryRead(h) ==
  /\ "retry" \in Requests /\ At(h, "idle")
  /\ Retryable /\ runs # <<>> /\ Len(outbox) < MaxEvents
  /\ LET r == Len(runs) IN
       hs' = [hs EXCEPT ![h].pc = "retry", ![h].job = job, ![h].run = r,
                        ![h].status = runs[r].status, ![h].slot = runs[r].slot]
  /\ UNCHANGED <<rows, tasks, ws, used>>

RetryCommit(h) ==
  /\ At(h, "retry")
  /\ LET r == hs[h].run IN
       \/ /\ MayTakeSlot(h)
          /\ job' = Store(job, hs[h].job, "QUEUED")
          /\ UpdateRun(r, hs[h], "INITIALIZING", TRUE)
          /\ Emit("retry", r)
          /\ Drain(h)
          /\ UNCHANGED <<reviews, artifacts>>
       \/ ~MayTakeSlot(h) /\ Respond(h) /\ UNCHANGED rows
  /\ UNCHANGED <<tasks, ws, used>>

RerunRead(h) ==
  /\ "rerun" \in Requests /\ At(h, "idle")
  /\ job \in {"SUCCEEDED", "FAILED", "CANCELLED", "NEEDS_REVIEW"}
  /\ ActiveRuns = {}
  /\ Len(runs) < MaxRuns /\ Len(outbox) < MaxEvents
  /\ hs' = [hs EXCEPT ![h].pc = "rerun", ![h].job = job]
  /\ UNCHANGED <<rows, tasks, ws, used>>

\* The new row violates uq_one_active_run_per_job if a run became active.
RerunCommit(h) ==
  /\ At(h, "rerun")
  /\ \/ /\ ActiveRuns = {}
        /\ job' = Store(job, hs[h].job, "QUEUED")
        /\ CreateRun("rerun")
        /\ Drain(h)
        /\ UNCHANGED <<reviews, artifacts>>
     \/ ActiveRuns # {} /\ Respond(h) /\ UNCHANGED rows
  /\ UNCHANGED <<tasks, ws, used>>

\* The idempotency key of an earlier start, retry or rerun comes back: the
\* stored response is returned, and publish_outbox is called all the same.
Replay(h) ==
  /\ "replay" \in Requests /\ At(h, "idle")
  /\ runs # <<>>
  /\ Drain(h)
  /\ UNCHANGED <<rows, tasks, ws, used>>

-----------------------------------------------------------------------------
(* POST /cancel: look up the task, cancel in a transaction, revoke.        *)

CancelLook(h) ==
  /\ "cancel" \in Requests /\ At(h, "idle")
  /\ \E id \in IF ActiveRuns = {} THEN {0}
               ELSE {runs[r].task : r \in ActiveRuns} :
       hs' = [hs EXCEPT ![h].pc = "look", ![h].task = id]
  /\ UNCHANGED <<rows, tasks, ws, used>>

CancelRead(h) ==
  /\ At(h, "look")
  /\ \/ /\ ActiveRuns = {}
        /\ hs' = [hs EXCEPT ![h].pc = "cancel", ![h].job = job]
     \/ \E r \in ActiveRuns :
          hs' = [hs EXCEPT ![h].pc = "cancel", ![h].job = job, ![h].run = r,
                           ![h].status = runs[r].status,
                           ![h].slot = runs[r].slot]
  /\ UNCHANGED <<rows, tasks, ws, used>>

CancelCommit(h) ==
  /\ At(h, "cancel")
  /\ job' = IF hs[h].job \in JobSettled THEN job ELSE "CANCELLED"
  /\ \/ /\ hs[h].run # 0
        /\ UpdateRun(hs[h].run, hs[h], "ERRORED", FALSE)
     \/ hs[h].run = 0 /\ UNCHANGED <<runs, touched>>
  /\ IF hs[h].task # 0 THEN Goto(h, "revoke") ELSE Respond(h)
  /\ UNCHANGED <<outbox, reviews, artifacts, tasks, ws, used>>

\* revoke(task_id, terminate=True): never delivered again, and a worker that
\* executes it may be killed (Terminate).
Revoke(h) ==
  /\ At(h, "revoke")
  /\ tasks' = [tasks EXCEPT ![hs[h].task].revoked = TRUE]
  /\ Respond(h)
  /\ UNCHANGED <<rows, ws, used>>

-----------------------------------------------------------------------------
(* POST /review-items/{id}/decision: record the decision, then, in another *)
(* transaction, move the job and its run on.                               *)

\* UPDATE ... WHERE status = 'PENDING'; the audit row follows.
Decide(h, v, decision) ==
  /\ "decide" \in Requests /\ At(h, "idle")
  /\ reviews[v].status = "PENDING" /\ Len(outbox) < MaxEvents
  /\ reviews' = [reviews EXCEPT ![v].status = "DECIDED"]
  /\ hs' = [hs EXCEPT ![h].pc = "decided", ![h].decision = decision]
  /\ UNCHANGED <<job, runs, touched, outbox, artifacts, tasks, ws, used>>

\* The run is the one of the job updated last, whichever run asked for the
\* review.  A request for materials changes nothing.
ResumeRead(h) ==
  /\ At(h, "decided")
  /\ LET waits == /\ job = "NEEDS_REVIEW" /\ touched # 0
                  /\ runs[touched].status = "WAITING_HUMAN"
                  /\ hs[h].decision # "MATERIALS_REQUESTED"
     IN \/ /\ waits
           /\ hs' = [hs EXCEPT ![h].pc = "resume", ![h].job = job,
                               ![h].run = touched,
                               ![h].status = runs[touched].status,
                               ![h].slot = runs[touched].slot]
        \/ ~waits /\ Respond(h)
  /\ UNCHANGED <<rows, tasks, ws, used>>

ResumeApproved(h) ==
  /\ At(h, "resume") /\ hs[h].decision \in Approving
  /\ LET r == hs[h].run IN
       \/ /\ MayTakeSlot(h)
          /\ job' \in JobNextStates(hs[h].job, "REVIEW_APPROVED", hs[h].decision)
          /\ \E s \in RunNextStates(hs[h].status, "RESUME", hs[h].decision) :
               UpdateRun(r, hs[h], s, TRUE)
          /\ Emit("resume", r)
          /\ Drain(h)
          /\ UNCHANGED <<reviews, artifacts>>
       \/ ~MayTakeSlot(h) /\ Respond(h) /\ UNCHANGED rows
  /\ UNCHANGED <<tasks, ws, used>>

ResumeRejected(h) ==
  /\ At(h, "resume") /\ hs[h].decision = "REJECTED"
  /\ job' \in JobNextStates(hs[h].job, "REVIEW_REJECTED", hs[h].decision)
  /\ \E s \in RunNextStates(hs[h].status, "RESUME", hs[h].decision) :
       UpdateRun(hs[h].run, hs[h], s, FALSE)
  /\ Respond(h)
  /\ UNCHANGED <<outbox, reviews, artifacts, tasks, ws, used>>

-----------------------------------------------------------------------------
(* publish_outbox: OutboxPublisher.publish_pending with the send of        *)
(* create_app, called at the end of the requests above and nowhere else.   *)

SetStatus(e, status) == outbox' = [outbox EXCEPT ![e].status = status]

\* The ids of the pending rows, oldest first.
DrainScan(h) ==
  /\ At(h, "drain")
  /\ hs' = [hs EXCEPT ![h].pc = "batch",
                      ![h].batch = {e \in DOMAIN outbox :
                                      outbox[e].status = "PENDING"}]
  /\ UNCHANGED <<rows, tasks, ws, used>>

BatchEnd(h) ==
  /\ At(h, "batch") /\ hs[h].batch = {}
  /\ Respond(h)
  /\ UNCHANGED <<rows, tasks, ws, used>>

StillPending(e) == outbox[e].status = "PENDING"

\* The first transaction for a row loads it again: it must still be PENDING.
BatchNext(h) ==
  /\ At(h, "batch")
  /\ \E e \in hs[h].batch :
       /\ \A f \in hs[h].batch : e <= f
       /\ \/ /\ StillPending(e)
             /\ hs' = [hs EXCEPT ![h].batch = @ \ {e}, ![h].event = e,
                                 ![h].pc = "claim"]
          \/ /\ ~StillPending(e)
             /\ hs' = [hs EXCEPT ![h].batch = @ \ {e}]
  /\ UNCHANGED <<rows, tasks, ws, used>>

\* ... and its commit, by primary key: no WHERE on the status.
ClaimEvent(h) ==
  /\ At(h, "claim")
  /\ SetStatus(hs[h].event, "PUBLISHING")
  /\ Goto(h, "send")
  /\ UNCHANGED <<job, runs, touched, reviews, artifacts, tasks, ws, used>>

\* queue.enqueue or queue.enqueue_resume, outside any transaction.
Send(h) ==
  /\ At(h, "send")
  /\ Len(tasks) < MaxTasks
  /\ tasks' = Append(tasks, [event |-> hs[h].event, copies |-> 1,
                             revoked |-> FALSE])
  /\ hs' = [hs EXCEPT ![h].pc = "note", ![h].task = Len(tasks) + 1]
  /\ UNCHANGED <<rows, ws, used>>

SendFails(h) ==
  /\ At(h, "send")
  /\ Raises("send")
  /\ Goto(h, "unsend")
  /\ UNCHANGED <<rows, tasks, ws>>

\* send() also writes run.worker_task_id, after the broker took the task.
Note(h) ==
  /\ At(h, "note")
  /\ LET r == outbox[hs[h].event].run IN
       /\ runs' = [runs EXCEPT ![r].task = hs[h].task]
       /\ touched' = r
  /\ Goto(h, "done")
  /\ UNCHANGED <<job, outbox, reviews, artifacts, tasks, ws, used>>

NoteFails(h) ==
  /\ At(h, "note")
  /\ Raises("note")
  /\ Goto(h, "unsend")
  /\ UNCHANGED <<rows, tasks, ws>>

\* Fault: a failed send is recorded as published.
UnsendAsSent(h) ==
  /\ At(h, "unsend")
  /\ SetStatus(hs[h].event, "PUBLISHED")
  /\ hs' = [hs EXCEPT ![h].pc = "batch", ![h].event = 0, ![h].task = 0]
  /\ UNCHANGED <<job, runs, touched, reviews, artifacts, tasks, ws, used>>

\* Any exception of send() makes the row PENDING again.
Unsend(h) ==
  /\ At(h, "unsend")
  /\ SetStatus(hs[h].event, "PENDING")
  /\ hs' = [hs EXCEPT ![h].pc = "batch", ![h].event = 0, ![h].task = 0]
  /\ UNCHANGED <<job, runs, touched, reviews, artifacts, tasks, ws, used>>

Done(h) ==
  /\ At(h, "done")
  /\ SetStatus(hs[h].event, "PUBLISHED")
  /\ hs' = [hs EXCEPT ![h].pc = "batch", ![h].event = 0, ![h].task = 0]
  /\ UNCHANGED <<job, runs, touched, reviews, artifacts, tasks, ws, used>>

\* The API process dies; a transaction that did not commit is rolled back.
HandlerCrash(h) ==
  /\ ~At(h, "idle")
  /\ crashes < MaxCrashes /\ crashes' = crashes + 1
  /\ Respond(h)
  /\ UNCHANGED <<rows, tasks, ws, duplicates, failures>>

-----------------------------------------------------------------------------
(* RuntimeWorker.run and RuntimeWorker.resume in a Celery worker.          *)

\* task_acks_late: the task is acknowledged when the worker is idle again.
Take(w, t) ==
  /\ WAt(w, "idle")
  /\ tasks[t].copies > 0 /\ ~tasks[t].revoked
  /\ tasks' = [tasks EXCEPT ![t].copies = @ - 1]
  /\ ws' = [ws EXCEPT ![w].task = t,
                      ![w].pc = IF outbox[tasks[t].event].kind = "resume"
                                THEN "load" ELSE "read"]
  /\ UNCHANGED <<rows, hs, used>>

\* Fault: the claim asks only for an active run.
ClaimableIfActive(r) == runs[r].slot

\* What _claim asks of the run and its job.
Claimable(r) ==
  runs[r].slot /\ runs[r].status = "INITIALIZING" /\ job = "QUEUED"

\* _claim: loads the run and the job and decides.
ClaimRead(w) ==
  /\ WAt(w, "read")
  /\ LET r == RunOf(w)
         dropped == runs[r].slot /\ job = "CANCELLED"
     IN \/ dropped /\ WLoad(w, "drop")
        \/ Claimable(r) /\ WLoad(w, "claim")
        \/ ~dropped /\ ~Claimable(r) /\ Ack(w)
  /\ UNCHANGED <<rows, tasks, hs, used>>

ClaimCommit(w) ==
  /\ WAt(w, "claim")
  /\ job' = Store(job, ws[w].job, "RUNNING")
  /\ UpdateRun(RunOf(w), ws[w], "INSPECTING", ws[w].slot)
  /\ WGoto(w, "begin")
  /\ UNCHANGED <<outbox, reviews, artifacts, tasks, hs, used>>

ClaimDrop(w) ==
  /\ WAt(w, "drop")
  /\ UpdateRun(RunOf(w), ws[w], "ERRORED", FALSE)
  /\ Ack(w)
  /\ UNCHANGED <<job, outbox, reviews, artifacts, tasks, hs, used>>

\* resume() only reads: it goes on if the run is EXECUTING in a RUNNING job.
ResumeLoad(w) ==
  /\ WAt(w, "load")
  /\ IF runs[RunOf(w)].status = "EXECUTING" /\ job = "RUNNING"
     THEN WGoto(w, "begin") ELSE Ack(w)
  /\ UNCHANGED <<rows, tasks, hs, used>>

\* Appends the started (or resumed) event, then starts the graph: run() from
\* a fresh state, resume() from the last checkpoint.
Begin(w) ==
  /\ WAt(w, "begin")
  /\ ws' = [ws EXCEPT ![w].pc = "graph",
                      ![w].from = IF Resuming(w) THEN runs[RunOf(w)].ckpt
                                  ELSE "none"]
  /\ UNCHANGED <<rows, tasks, hs, used>>

\* That first event is appended outside the try block: the task just fails.
BeginFails(w) ==
  /\ WAt(w, "begin")
  /\ Raises("begin")
  /\ Ack(w)
  /\ UNCHANGED <<rows, tasks, hs>>

\* A node of the graph is done and its checkpoint saved in the run's row.
SaveCheckpoint(w) ==
  /\ WAt(w, "graph")
  /\ ~(Resuming(w) /\ ws[w].from = "none")
  /\ runs' = [runs EXCEPT ![RunOf(w)].ckpt = "step"]
  /\ touched' = RunOf(w)
  /\ UNCHANGED <<job, outbox, reviews, artifacts, tasks, hs, ws, used>>

\* How a graph may end: a resumed one that waited for the review goes on to
\* the report; without a checkpoint there is nothing to restore.
Endings(w) ==
  IF Resuming(w) /\ ws[w].from = "none" THEN {"RAISED"}
  ELSE IF Resuming(w) /\ ws[w].from = "review"
  THEN Outcomes \ {"NEEDS_REVIEW", "FAILED"}
  ELSE Outcomes

\* run() publishes the artifacts of a structured analysis before it finishes.
GraphEnds(w, outcome) ==
  /\ WAt(w, "graph") /\ outcome \in Endings(w)
  /\ ws' = [ws EXCEPT ![w].outcome = outcome,
                      ![w].pc = CASE outcome = "RAISED" -> "failread"
                                  [] outcome = "SUCCEEDED" /\ Structured
                                     /\ ~Resuming(w) -> "publish"
                                  [] OTHER -> "finread"]
  /\ IF outcome = "RAISED" THEN UNCHANGED <<runs, touched>>
     ELSE /\ runs' = [runs EXCEPT ![RunOf(w)].ckpt =
                        IF outcome = "NEEDS_REVIEW" THEN "review" ELSE "step"]
          /\ touched' = RunOf(w)
  /\ UNCHANGED <<job, outbox, reviews, artifacts, tasks, hs, used>>

\* The version is "run-<id>", once per kind: a second publication raises.
Publish(w) ==
  /\ WAt(w, "publish")
  /\ artifacts' = artifacts \cup {RunOf(w)}
  /\ WGoto(w, IF RunOf(w) \in artifacts THEN "failread" ELSE "finread")
  /\ UNCHANGED <<job, runs, touched, outbox, reviews, tasks, hs, used>>

\* The evidence rows or the event after the publication raise.
PublishFails(w) ==
  /\ WAt(w, "publish") /\ RunOf(w) \notin artifacts
  /\ Raises("publish")
  /\ artifacts' = artifacts \cup {RunOf(w)}
  /\ WGoto(w, "failread")
  /\ UNCHANGED <<job, runs, touched, outbox, reviews, tasks, hs>>

\* _finish, and _fail from the handler of its exceptions, load both rows.
FinishRead(w) ==
  /\ WAt(w, "finread")
  /\ WLoad(w, "finish")
  /\ UNCHANGED <<rows, tasks, hs, used>>

JobResult(outcome) ==
  CASE outcome = "SUCCEEDED" -> "SUCCEEDED"
    [] outcome = "NEEDS_REVIEW" -> "NEEDS_REVIEW"
    [] OTHER -> "FAILED"

\* Fault: the review branch does not set the run's status.
RunResultNoReview(outcome) ==
  IF outcome = "SUCCEEDED" THEN "COMPLETED" ELSE "ERRORED"

\* Fault: a status of the other enumeration.
RunResultAsJob(outcome) == JobResult(outcome)

RunResult(outcome) ==
  CASE outcome = "SUCCEEDED" -> "COMPLETED"
    [] outcome = "NEEDS_REVIEW" -> "WAITING_HUMAN"
    [] OTHER -> "ERRORED"

\* Fault: the late result is written.
NeverLate(w) == WAt(w, "idle")

\* The job was seen CANCELLED: the result is dropped.
Late(w) == ws[w].job = "CANCELLED"

FinishCommit(w) ==
  /\ WAt(w, "finish")
  /\ \/ /\ Late(w)
        /\ UpdateRun(RunOf(w), ws[w], "ERRORED", FALSE)
        /\ Ack(w)
        /\ UNCHANGED job
     \/ /\ ~Late(w)
        /\ job' = Store(job, ws[w].job, JobResult(ws[w].outcome))
        /\ UpdateRun(RunOf(w), ws[w], RunResult(ws[w].outcome), FALSE)
        /\ WGoto(w, "announce")
  /\ UNCHANGED <<outbox, reviews, artifacts, tasks, hs, used>>

\* The event of the result.
Announce(w) ==
  /\ WAt(w, "announce")
  /\ IF ws[w].outcome = "NEEDS_REVIEW" THEN WGoto(w, "review") ELSE Ack(w)
  /\ UNCHANGED <<rows, tasks, hs, used>>

CreateReview(w) ==
  /\ WAt(w, "review")
  /\ reviews' = Append(reviews, [run |-> RunOf(w), status |-> "PENDING"])
  /\ Ack(w)
  /\ UNCHANGED <<job, runs, touched, outbox, artifacts, tasks, hs, used>>

\* _finish is inside the try block: an exception after its commit calls _fail.
AnnounceFails(w) ==
  /\ \/ WAt(w, "announce") /\ Raises("announce")
     \/ WAt(w, "review") /\ Raises("review")
  /\ WGoto(w, "failread")
  /\ UNCHANGED <<rows, tasks, hs>>

FailRead(w) ==
  /\ WAt(w, "failread")
  /\ WLoad(w, "fail")
  /\ UNCHANGED <<rows, tasks, hs, used>>

FailCommit(w) ==
  /\ WAt(w, "fail")
  /\ job' = IF Late(w) THEN job
            ELSE Store(job, ws[w].job, "FAILED")
  /\ UpdateRun(RunOf(w), ws[w], "ERRORED", FALSE)
  /\ Ack(w)
  /\ UNCHANGED <<outbox, reviews, artifacts, tasks, hs, used>>

\* task_reject_on_worker_lost: the broker delivers the task again.
WorkerCrash(w) ==
  /\ ~WAt(w, "idle")
  /\ crashes < MaxCrashes /\ crashes' = crashes + 1
  /\ tasks' = [tasks EXCEPT ![ws[w].task].copies = @ + 1]
  /\ Ack(w)
  /\ UNCHANGED <<rows, hs, duplicates, failures>>

\* revoke(..., terminate=True) kills the worker; the task is not redelivered.
Terminate(w) ==
  /\ ~WAt(w, "idle")
  /\ tasks[ws[w].task].revoked
  /\ Ack(w)
  /\ UNCHANGED <<rows, tasks, hs, used>>

\* The broker delivers at least once.
Redeliver(t) ==
  /\ tasks[t].copies = 0
  /\ duplicates < MaxDuplicates /\ duplicates' = duplicates + 1
  /\ tasks' = [tasks EXCEPT ![t].copies = 1]
  /\ UNCHANGED <<rows, hs, ws, crashes, failures>>

-----------------------------------------------------------------------------

InTx(p) ==
  IF p \in Handlers
  THEN hs[p].pc \in {"start", "retry", "rerun", "cancel", "resume", "claim"}
  ELSE ws[p].pc \in {"claim", "drop", "finish", "fail"}

\* Process p may move.
Turn(p) == Serialized => \A q \in (Handlers \cup Workers) \ {p} : ~InTx(q)

\* A client's request arrives at an idle thread of the API.
Request(h) ==
  \/ StartRead(h) \/ RetryRead(h) \/ RerunRead(h) \/ Replay(h) \/ CancelLook(h)
  \/ \E v \in DOMAIN reviews, d \in Decisions : Decide(h, v, d)

\* The handler goes on.
HandlerStep(h) ==
  \/ StartCommit(h) \/ RetryCommit(h) \/ RerunCommit(h)
  \/ CancelRead(h) \/ CancelCommit(h) \/ Revoke(h)
  \/ ResumeRead(h) \/ ResumeApproved(h) \/ ResumeRejected(h)
  \/ DrainScan(h) \/ BatchEnd(h) \/ BatchNext(h) \/ ClaimEvent(h)
  \/ Send(h) \/ Note(h) \/ Unsend(h) \/ Done(h)

HandlerFault(h) == SendFails(h) \/ NoteFails(h) \/ HandlerCrash(h)

\* The worker takes a task or goes on with the one it has.
WorkerStep(w) ==
  \/ \E t \in DOMAIN tasks : Take(w, t)
  \/ ClaimRead(w) \/ ClaimCommit(w) \/ ClaimDrop(w) \/ ResumeLoad(w)
  \/ Begin(w) \/ \E o \in Outcomes \cup {"RAISED"} : GraphEnds(w, o)
  \/ Publish(w) \/ FinishRead(w) \/ FinishCommit(w)
  \/ Announce(w) \/ CreateReview(w) \/ FailRead(w) \/ FailCommit(w)

WorkerFault(w) ==
  \/ BeginFails(w) \/ PublishFails(w) \/ AnnounceFails(w)
  \/ WorkerCrash(w) \/ Terminate(w)

Next ==
  \/ \E h \in Handlers :
       Turn(h) /\ (Request(h) \/ HandlerStep(h) \/ HandlerFault(h))
  \/ \E w \in Workers :
       Turn(w) /\ (WorkerStep(w) \/ SaveCheckpoint(w) \/ WorkerFault(w))
  \/ \E t \in DOMAIN tasks : Redeliver(t)

Spec == Init /\ [][Next]_vars

\* Threads and workers that are alive go on; the broker hands out what it has
\* and every graph ends.  Clients, checkpoints and faults are under no
\* obligation.
FairSpec ==
  /\ Spec
  /\ \A h \in Handlers : WF_vars(Turn(h) /\ HandlerStep(h))
  /\ \A w \in Workers : WF_vars(Turn(w) /\ WorkerStep(w))

-----------------------------------------------------------------------------
(* Properties                                                              *)

\* Every row has its columns and every process its local state.
TypeOK ==
  /\ job \in JobStates
  /\ runs \in Seq(RunRow) /\ touched \in Nat
  /\ outbox \in Seq(EventRow) /\ reviews \in Seq(ReviewRow)
  /\ artifacts \subseteq Nat /\ tasks \in Seq(TaskRow)
  /\ hs \in [Handlers -> HandlerState] /\ ws \in [Workers -> WorkerState]
  /\ crashes \in Nat /\ duplicates \in Nat /\ failures \in Nat

\* The outbox carries the work across: a run exists only with the event that
\* asks for it, a task only for a committed event of a committed run, and a
\* row says PUBLISHED only if its task reached the broker.
HandOff ==
  /\ \A r \in DOMAIN runs : \E e \in DOMAIN outbox : outbox[e].run = r
  /\ \A e \in DOMAIN outbox :
       /\ outbox[e].run \in DOMAIN runs
       /\ outbox[e].status = "PUBLISHED" =>
            \E t \in DOMAIN tasks : tasks[t].event = e
  /\ \A t \in DOMAIN tasks : tasks[t].event \in DOMAIN outbox

\* However many clients start the job at once, one run is created by it.
StartOnce ==
  \A d, e \in DOMAIN outbox :
    outbox[d].kind = "start" /\ outbox[e].kind = "start" => d = e

\* The worker is between its claim (or its resume) and the end of the run.
Executing(w) ==
  ws[w].pc \in {"begin", "graph", "publish", "finread", "finish",
                "failread", "fail"}

\* A run is executed by one worker at a time.
ExclusiveExecution ==
  \A v, w \in Workers :
    Executing(v) /\ Executing(w) /\ RunOf(v) = RunOf(w) => v = w

\* While a worker executes a run the rows say so: nobody has finished, failed
\* or requeued the job under it.
ExecutionOwnsJob ==
  \A w \in Workers :
    Executing(w) => /\ job = "RUNNING"
                    /\ runs[RunOf(w)].slot
                    /\ runs[RunOf(w)].status \in {"INSPECTING", "EXECUTING"}

\* Some task of run r is at the broker or in the hands of a worker that has
\* not yet claimed it.
OnItsWay(r) ==
  \/ \E t \in DOMAIN tasks :
       /\ outbox[tasks[t].event].run = r
       /\ outbox[tasks[t].event].kind # "resume"
       /\ tasks[t].copies > 0 /\ ~tasks[t].revoked
  \/ \E w \in Workers : ws[w].pc \in {"read", "claim"} /\ RunOf(w) = r

\* A queued job is never lost: its active run waits for a worker and is named
\* by an unpublished outbox row or by a task that is still to be claimed.
QueuedIsRepresented ==
  job = "QUEUED" =>
    \E r \in ActiveRuns :
      /\ runs[r].status = "INITIALIZING"
      /\ \/ OnItsWay(r)
         \/ \E e \in DOMAIN outbox :
              outbox[e].run = r /\ outbox[e].status # "PUBLISHED"

\* A job that needs a review can be resumed: the run that resume_after_review
\* will pick, the one updated last, waits at the node that asked for it.
WaitingIsResumable ==
  job = "NEEDS_REVIEW" =>
    runs[touched].status = "WAITING_HUMAN" /\ runs[touched].ckpt = "review"

\* A job that needs a review has one to decide, or is about to have it, or
\* the decision is being carried out.
NeedsReviewHasReview ==
  job = "NEEDS_REVIEW" =>
    \/ \E v \in DOMAIN reviews : reviews[v].status = "PENDING"
    \/ \E w \in Workers : ws[w].pc \in {"announce", "review"}
    \/ \E h \in Handlers : hs[h].pc \in {"decided", "resume"}

\* Two publishers that race on a batch do not both send a row.
OnePublisher ==
  \A g, h \in Handlers :
    At(g, "send") /\ At(h, "send") /\ hs[g].event = hs[h].event => g = h

\* Cancellation is final: only a rerun takes the job out of CANCELLED, never
\* the late result of a worker.
CancelledSticks ==
  [][job = "CANCELLED" =>
       job' = "CANCELLED" \/ \E h \in Handlers : RerunCommit(h)]_vars

\* A run that has ended stays as it ended unless a client retries it: the late
\* result of a worker does not reopen it.
EndedRunStaysEnded ==
  [][\A r \in DOMAIN runs :
       runs[r].status \in {"COMPLETED", "ERRORED"} =>
         \/ runs'[r].status = runs[r].status
         \/ \E h \in Handlers : RetryCommit(h)]_vars

\* A run leaves WAITING_HUMAN only when the reviews it asked for are decided.
OwnReviewDecided ==
  [][\A r \in DOMAIN runs, v \in DOMAIN reviews :
       /\ runs[r].status = "WAITING_HUMAN" /\ runs'[r].status # "WAITING_HUMAN"
       /\ reviews[v].run = r
       => reviews[v].status = "DECIDED"]_vars

\* The status row behaves as the lifecycle promises.
Promise == INSTANCE JobLifecycle
JobRefinesLifecycle == Promise!Spec

\* A queued job is taken up.
QueuedIsTaken == job = "QUEUED" ~> job # "QUEUED"

\* A running job ends, or comes to wait for a person.
RunningEnds == job = "RUNNING" ~> job # "RUNNING"

-----------------------------------------------------------------------------
(* What belongs together                                                   *)

\* Work is done by one at a time: no two workers execute a run, no two
\* publishers send an event.
OneAtATime == ExclusiveExecution /\ OnePublisher

\* A review leads on: there is one to decide, and a run that its decision can
\* resume.
ReviewsLeadOn == WaitingIsResumable /\ NeedsReviewHasReview

\* What has ended stays: a cancelled job but for a rerun, a run but for a retry.
EndsStay == CancelledSticks /\ EndedRunStaysEnded

=============================================================================
