# A TLA+ model of the evidence-class agent

The repository is a service that analyses recorded lessons: clients upload media and start an
analysis job over HTTP, a Celery worker runs an agent graph on it, a person may have to review
what the agent saw, and a report is published. This directory models the control of that service:
who may change which row when, what survives a crash, a lost or repeated message, a call that
raises, and what a client is told; and, for the stages of an analysis, what each one does to the
material it hands on.

Contents: 1 inventory, 2 modules, 3 runs, 4 fairness, 5 proofs, 6 what the code does not do,
7 what is not modelled, 8 what is left.

## 1. Inventory

| part | source | state it keeps | operations | hard behaviour | must hold |
| --- | --- | --- | --- | --- | --- |
| API control plane | `apps/api/main.py` | none of its own; threads with loaded rows | start, retry, rerun, cancel, decide, upload, ask, give feedback, drain the outbox | every handler is several transactions; threads interleave | with the parts below |
| job lifecycle, outbox | `packages/persistence/jobs.py`, `outbox.py`, `models.py` | `analysis_jobs`, `agent_runs`, `outbox_events`, `review_items` | one transaction each | READ COMMITTED, one active run, hand-off to the broker | started once, never lost, ends as promised |
| idempotency service | `packages/persistence/idempotency.py` | `idempotency_records` | `execute` | racing calls, death of the owner, timeouts | one effect per key, true answers |
| worker runtime | `apps/worker/runtime.py` | loaded rows, the graph's state | `run`, `resume`, `_claim`, `_finish`, `_fail` | redelivery, death, late results, failures after a commit | one worker executes a run and owns its rows |
| task queues | `apps/worker/queue.py`, `celery_app.py` | messages, futures | enqueue, deliver, revoke, cancel | at-least-once delivery, late acknowledgement, thread reuse | nothing of one request leaks into the next |
| agent graph | `packages/agent_runtime/graph.py`, `budget.py`, `planner.py`, `checkpoint.py` | `AgentState`, checkpoints, budget | one node per turn, resume | interruption, lost context, limits | nothing risky is published unseen |
| LangGraph adapter | `packages/agent_runtime/langgraph_runtime.py` | an envelope | nodes and edges | the routes are written twice | ends as the graph does |
| tools | `packages/agent_runtime/tools.py` | cache by key, budget | `invoke` | abandoned handlers, retries | same key, same answer; bounded attempts |
| state machines | `packages/agent_runtime/state_machines.py` | none | `transition` | the tables are not the only writer of the status | - |
| review, feedback | `packages/agent_runtime/review.py`, `packages/persistence/agent_runtime.py` | `review_items`, decisions, audit rows | create, decide | two reviewers, a decision on an old review, three transactions | audit matches decision |
| conversations | `apps/api/main.py` | messages, summaries | ask | two questions at once | the summary catches up |
| object storage | `packages/object_storage/` | objects, `media_assets`, `artifacts`, `upload_sessions` | issue, complete, publish, delete, purge | a store and a database without a common transaction | rows have objects, sets are whole, nothing is orphaned |
| admission guard | `apps/worker/admission.py` | a sliding window per process | admit, release | leaks, replays | the ceilings hold, and it heals |
| event log, SSE, client | `packages/persistence/events.py`, `apps/api/sse.py`, `event_bus.py`, `apps/web/src/api/client.ts` | append-only events, subscribers, a cursor | append, stream, reconnect | lost wake-ups, cursors, commit order | no event is skipped or repeated |
| model gateway, adapters | `packages/model_gateway/` | budgets, circuit breakers, rate limits | `execute` | retries, shared counters, exceptions nobody translates | bounded attempts, budget kept |
| retrieval | `packages/retrieval/` | documents, chunks | register, ingest, publish, search, validate | publication against retirement, deletion between search and citation | one current version, current citations |
| media pipeline | `packages/media_pipeline/` | files, timelines | sample, detect, transcribe, plan, merge | rounding, boundaries, results out of order | ordered frames, speech heard once, whole videos |
| evidence engine | `packages/evidence_engine/` | five files | `analyze_file` | a failure between two files, unknown values | whole reports, null is not zero |
| tracing | `packages/observability/tracing.py`, `correlation.py` | context of a thread, spans of a process | span, submit | reuse of threads, two processes | no span in another request's trace |
| verifier, contracts, metrics, web pages, evaluation | see `PROJECT.json` | none, or only counters | pure functions, I/O | - | - |

How they interact: a handler commits a job, a run and an outbox row together; `publish_outbox`, at
the end of the same request or of a later one, sends the row to Celery; a worker claims the run,
runs the graph (which saves a checkpoint per node in the run's row), publishes artifacts to the
object store and writes the result; a run that needs a review waits for the decision, which writes
another outbox row; cancellation writes the rows first and then revokes the task. `start`, `retry`
and `rerun` pass the admission guard and then run inside `IdempotencyService.execute`. Every change
appends to the event log and wakes the streams of its process. The stages of an analysis hand values
to each other and share nothing.

The hazards that threaten each part are the list `hazards` of `PROJECT.json`, each at its line, with
the properties that would catch it going wrong.

## 2. Modules

| module | models | run |
| --- | --- | --- |
| `Lifecycle` | the two transition tables of `state_machines.py`, as relations | through `JobControl` |
| `JobLifecycle` | abstract: what the job status promises to its readers | property of `Review`, `Cancel` |
| `JobControl` | one job: rows, API handlers, outbox, broker, workers | `Clients`, `Review`, `Cancel`, `Race`, four violations |
| `KeyedOperation` | abstract: what an idempotency key promises | property of `Services` |
| `Idempotency` | `IdempotencyService.execute` for one key | `Services` |
| `EventStream` | event log, notification bus, SSE generators, the client's cursor | `Services` |
| `QueueGuard` | the admission window with weights, pruning, release, GPU memory faults | `Services` |
| `Conversations` | the transaction of a question and the summary of a conversation | `Services` |
| `Feedback` | decisions and feedback of reviewers with their audit rows | `Services` |
| `Tracing` | spans, context variables and their hand-over with tasks | `Services` |
| `AgentGraph` | `AgentGraph.run` with budget, planner and checkpoints, for one run | `Analysis`, `PersistentFailure` |
| `LangGraph` | the compiled graph of the other engine, on the same input | `Analysis` |
| `ToolRegistry` | `ToolRegistry.invoke` for one run of the agent | `Analysis` |
| `ModelAdapters`, `ModelGateway` | what an adapter makes of a provider; `ResilientModelExecutor.execute` | `Analysis` |
| `DocumentText`, `Knowledge` | from text to chunks; registration, publication, search and citation | `Analysis` |
| `FrameSampling`, `MediaTimeline`, `SegmentMerge` | timestamps of frames; audio, speech, OCR and vision; plans and merges of long videos | `Analysis` |
| `EvidenceEngine` | metrics over unknown values and the files of a report | `Analysis` |
| `MCServices`, `MCAnalysis` | compositions for TLC, see section 3 | |
| `MCJobControl`, `MCAgentGraph`, `MCObjectStorage` | symmetry and larger constant values | |
| `*_proofs` | theorems, see section 5 | |

### JobControl

State: `job`, `runs`, `outbox`, `reviews`, `artifacts` are the rows; `touched` is the run with the
greatest `updated_at`; `tasks` is every message ever sent with the copies still to be delivered;
`hs` and `ws` are the threads of the API and the workers with the rows they have loaded. Row
identities are positions.

A transaction that reads and then writes by primary key is two steps, because the engine sets no
isolation level (`packages/persistence/database.py`; PostgreSQL then runs at READ COMMITTED) and
SQLAlchemy sends only the columns whose value differs from the loaded one: `StartRead`/`StartCommit`,
`ClaimRead`/`ClaimCommit`, `FinishRead`/`FinishCommit` and so on, with `Store` for the column
rule. The UPDATEs with a WHERE clause on the status (`start_job`, `SqlReviewService.decide`) test
the row they write. `Serialized = TRUE` means that no other process moves between the two steps:
most properties need it, and section 6 says which code relies on what the database does not give.
A chain of calls with no write in between is one step where only the last can matter: two SELECTs
of one transaction are one read step, and `Unsend`, `Done` and `Note` read and write at once,
because they write whatever they read.

Left out: wording, progress, audit rows, metrics; deletion of the job; `MODIFIED`, which goes the
way of `APPROVED`; `updated_at` is taken to follow the order of commits.

### Idempotency

One key, many calls. `record` is the row, `effects` what operations have written, `calls` the
callers. The insert that fails on the unique constraint, the operation and its response in one
transaction, the except clause with a transaction of its own, the polling loop and its deadline are
actions; so are an operation that raises, a commit whose acknowledgement is lost, and death.
`KeyedOperation` is the promise; the refinement mapping shows it the first effect and, for every
call, what it asked and was told.

### EventStream

`log` is what has committed; a producer takes its id in `Insert` and shows the row in `CommitEvent`,
so that `Ordered = FALSE` lets two commit in the other order; `Publish` wakes the generators of the
same process, and only those (`Remote` producers have no bus). A generator reads a batch after its
cursor, writes frames to the wire, waits, and ends after the terminal event; `Drop` loses the
connection and what is under way; the client comes back with the id of the last frame it received.

### QueueGuard

`entries` is the deque of the process as a set of numbered entries (two of the same moment, workspace
and weight are two), `granted` a history of what was admitted in the last window, kept apart so that a
forgotten or doubled entry shows. `Admit` is the whole of `admit_job`: weight
from minutes, mode and assets, pruning, the ceilings in the code's order. `Release`, which nothing in
the API calls, is included because the class offers it.

### Conversations, Feedback

A question is one transaction at READ COMMITTED, split where another may commit: store the question,
read what may be quoted, store the answer, read the messages, write the summary (whose row is locked
from then on). A decision is an UPDATE with a WHERE clause, the decision row and the audit row in
transactions of their own; feedback is a review item that is decided at once. A thread may die
between any two.

### Tracing

A thread has a stack of `with` blocks, each with the token that restores the context it replaced.
`Enter`, `Leave` and a block that raises are steps; `Submit` copies the context to a thread of the
pool or, in a header, to a worker process (`broker`); the pool thread sets and resets it around the
task. Spans go to the store of their process.

### AgentGraph, LangGraph

One run, one action per kind of node; a turn of the loop checks the budget, updates the state,
routes and saves. What the nodes compute is a set of flags of the context that decide the routes.
The saved state survives `Crash`; `Recover` is the same call with `resume=True` (a redelivered
resume task, or a caller that passes its context on as `faults.py` does); `Resume` is the worker's
call after a review, with the decision alone in its context. `Run` starts from a fresh state, the
first time and on a retry. STARTED checkpoints, the rubric step and the deadline are left out: no
route reads the first two, and the budget in steps stands for the third.

`LangGraph` translates the other engine's nodes and conditional edges as a function from one
envelope to the next, iterated to `END` on the input of the `AgentGraph` run. Since it keeps no state
between calls, its way is compared when the run has ended.

### ToolRegistry, ModelAdapters, ModelGateway

`ToolRegistry` counts what a handler on an abandoned thread still does. An adapter is a relation
between what its provider may do (a status code, a timeout, a malformed answer, an exception the
adapter does not expect) and the code it raises, whether the raw response is kept and whether work
was done; `ModelGateway` calls it in a loop of breaker, limiter, budget, retry and repair, for
callers that share breaker and limiter. The clock is a counter.

### Knowledge, DocumentText

A registration is a row; ingestion parses outside a transaction and writes all chunks in one;
publication reads and commits in two steps. A search ranks in any order, packs into the budget of
tokens and answers; citations are validated against the rows of that moment. `DocumentText` is the
parser: margins, headings of three kinds, and windows with overlap, a step per page, line and window.

### FrameSampling, MediaTimeline, SegmentMerge

Times are integers in the code's unit or a coarser grid (said at the head of each module); rounding
is the code's. `MediaTimeline` puts speech detection, chunking, transcription and the global clock
together; the frames above the threshold are any set, `BurstsOf` merges them as the code does, and
`CutChunk` takes the next piece off the earliest interval that is left; equipment that is missing is
degraded and reported. `SegmentMerge` has both mergers: one
with a manifest, one that knows only what the results say.

### EvidenceEngine

The metrics, with -1 for null and percentages in tenths, and the five files, each written to a
temporary name and renamed; an OS error or a death may come between any two.

### ObjectStorage

One job, one upload session, one version of its artifacts, so that concurrent completions and
publications collide where they can. Every put, copy, removal and commit may raise before or after
it took effect, and every call may die. `late` and `litter` record that a call raised after its own
commit, and that something could not be cleaned up: the properties name them as their only
exceptions. Contents are not modelled.

## 3. Runs

The bounds of a run are in its `.cfg`; each bound is a named constant of the module.
`CHECK_DEADLOCK FALSE` everywhere: all requests may have been made and all bounds used up, and then
the system rightly stops. Symmetry of processes is used only in runs with invariants and action
properties, never with `~>`.

| run | instance | shows |
| --- | --- | --- |
| `Clients` | 2 handlers, 2 workers, 2 runs, 2 messages, one crash, one redelivery, one failing call; transactions do not overlap | `OneAtATime`, `ExecutionOwnsJob`, `QueuedIsRepresented` |
| `Review` | 1 handler, 2 workers, 2 runs, 4 events, READ COMMITTED, fair | a review leads on, the job implements `JobLifecycle`, a queued job is taken and a running one ends |
| `Cancel` | 2 handlers, 2 workers, cancel, retry, decide; transactions do not overlap | what has ended stays, a review answers for its own run, `JobLifecycle` |
| `Race` | 2 handlers, 1 worker, READ COMMITTED, failing calls | types, one start, and the outbox's promise, whatever overlaps |
| `Storage` | 2 completions, 2 publications of 2 kinds, one raise, one death, deletion and purge | rows have objects, publications are whole, clean-up and purge are complete |
| `Services` | the six services of the API, one in focus | the properties of `EventStream`, `QueueGuard`, `Conversations`, `Feedback`, `Idempotency`, `Tracing` |
| `Analysis` | the nine stages of an analysis, one in focus | the properties of the modules named in section 2 |
| `LateSuccess`, `ResumedTwice`, `StaleReview`, `WorkerDies`, `PersistentFailure` | the smallest instance | the code does not do what a document says: section 6 |

**Compositions by focus.** `MCServices` and `MCAnalysis` extend the modules of components that share
no state: they have no variable in common, and no action of one has a guard or an effect in another.
The states of their product are then exactly the tuples of states of its parts, and a property that
names the variables of one part holds of the product if it holds of the part. So a behaviour chooses
one part in its initial state (`focus`) and follows it alone, while the inputs of the others are
fixed. Components that do share state (handlers, outbox, broker and workers; the two graph engines;
adapters and gateway) are composed with all their interleavings in one module.

Why the bounds are enough: the interesting races are between two actors on one row (two handlers,
or a worker and a handler, or two workers with one task), so two of each; a run has to be created,
ended and replaced or retried once, so two runs and one event more than runs; a second crash or
redelivery meets the same guards as the first. `Review` takes no crash: what a crash does to liveness
is the run `WorkerDies`. In `Services`: two events and two streams let a reconnection overlap with a
commit; the five tasks of the guard are one that leaves room, one that fills the window, one that can
never fit, one that is too long and one that is too large; three turns with a window of one let a
summary forget; three calls with two payloads let a waiting call meet a conflicting one; three spans
and two tasks are the least for a thread that serves a second request. In `Analysis`: the five budgets
of the graph include the default, the exact length of the longest way (16 nodes), and ones that stop
a run in a repair and before one; the uploads are every page of four lines of six kinds and every PDF of
three pages of one or two lines, so that a margin of two pages in three appears; the audio is every
pattern of eight frames, longer than two chunks; the videos are planned as one part, as parts with a
full and with a short last one, and their results arrive in every order, twice, or not at all.

Each property of a passing run has a mutant in `PROJECT.json`: a definition marked "Fault" that
replaces a piece of the code by a plausible mistake, under which TLC finds the property violated.

## 4. Fairness

`FairSpec` of `JobControl` asks that a thread of the API that has begun a request goes on
(`HandlerStep`) and that a live worker takes tasks and goes on (`WorkerStep`, which includes the end
of the graph: its loop is bounded by the budget). Nothing is asked of clients, checkpoints, crashes
or calls that raise. In `Idempotency` a live call goes on and the clock runs while it sleeps.
`EventStream` asks that a producer which has inserted commits or has given up, that the event loop
serves every open generator, and that a frame on a connection that lives is received. These are the
operating system's, the event loop's and Celery's scheduling, no more: no fairness makes a crash be
repaired, a lost notification come back or a client reconnect. In the compositions a part out of
focus asks for nothing, because none of its fair actions is enabled before its first request.

## 5. Proofs

`tlapm` proves the following for every value of the constants; TLC checks the same definitions on
the instances above. Every theorem about a component stands on one inductive invariant: the property
alone is almost never inductive, and what has to be added to it is the argument.

### The job

* `JobControl_proofs`: `TypeCorrect` (`Spec => []TypeOK`) and `RefsCorrect` (`Spec => []IInv`).
  `TypeOK` is not inductive: a worker reads the run of its task through `outbox[tasks[t].event].run`,
  so what it reads has a type only if every reference is valid. `IInv` adds that: `RowsOK` (rows
  refer to existing rows), `HandlersOK` (what a handler remembers exists, and the task it has sent is
  about its event), `WorkersOK`. Lemmas say what each helper (`UpdateRun`, `Emit`, `CreateRun`,
  `SetStatus`) does to the rows; rows only grow (`Grows`), so that a step of one process keeps what
  the others remember; then one step per action.
  `HandedOff` (`[]HandOff`) and `StartedOnce` (`[]StartOnce`) hold without `Serialized`, that is at
  READ COMMITTED. Each step is classified by what it does to the outbox (`EventStep`); `StartOnce`
  needs `StartedJob`: a start event exists only once the job has left `CREATED`, to which it never
  returns, and that is what the WHERE clause of `start_job` tests.
* `JobControlWork_proofs`: who does the work. `OneSends` (`[]OnePublisher`) assumes that transactions
  do not overlap; its invariant `EventsHeld` says that whoever is about to claim a row still sees it
  PENDING and whoever holds one has marked it. `WorkedOnce` (`[]OneAtATime`) and `WorkerOwnsJob`
  (`[]ExecutionOwnsJob`) assume `Undisturbed`: besides, nobody cancels or reviews and `_finish` does
  not raise after its commit. The invariant `Work` has two parts. `Calm`: no run is EXECUTING, so
  that a resume task finds nothing, and a client that is about to take the job found it not running.
  `Claims`: what a worker in a transaction has loaded is current (`Loaded`), a claim is of a queued
  job, whoever executes owns the rows, and at most one worker executes; the last is inductive only
  with the ownership, because it is the job's status, not the run's, that keeps a second worker out.
  Crashes, redeliveries and failing sends are covered, in any number.
  Its second section, the queue, proves `QueuedNeverLost` (`[]QueuedIsRepresented`) under `Undisturbed`.
  Between the send and the mark an event has both its row and its task, and a worker may consume the task before
  the publisher has marked the row. The invariant `Represented` therefore counts only the task in that
  window (`Carried`): the mark then takes nothing away, and a publisher that dies in the window leaves
  the row to count again. A worker that has read the task of a run that waits can only claim it, which
  takes the job out of QUEUED, or die, which puts the task back; a retry takes the slot that it saw
  free because nobody wrote the run since (`RetryFresh`).
* `JobControlLifecycle_proofs`: the same job when clients cancel and reviewers decide. In layers, each
  an invariant that the next one uses:
  1. `Fresh`: where transactions do not overlap, what a process has loaded is what the rows say when
     it commits, so that a commit sets one run and the status as a table of a few lines says
     (`ClientWrites`, `WorkerWritesNow`). This alone gives `CancelledStays` (`CancelledSticks`).
  2. `SlotsMean`: a run has the slot while it works. `SentOnce` (`DeliveredOnce`): an event makes one
     task, and a task is at the broker or with one worker; so an approved review is resumed once,
     although `resume` claims nothing.
  3. `Ownership`: a worker that executes owns the job, and nobody else does. It gives `OneHasTheJob`
     (`OneAtATime`), `WhatEndedStays` (`EndsStay`), and `JobKeepsPromise`: the refinement of
     `JobLifecycle`, where every commit is a step of the abstract specification or a stutter.
  4. `OnlyRun` (without a rerun the job has one run), `OneAsks` (one review at a time is asked for,
     open or carried out) and `Reported` (a run that waits is at the checkpoint that asked) give
     `OwnReviewsDecide` (`OwnReviewDecided`) and `WaitingResumes` (`WaitingIsResumable`); with
     `SomeoneAsks` they give `ReviewsLead` (`ReviewsLeadOn`).

  Their assumptions are what the code does not give itself, and the runs of section 6 show that it is
  needed. `Orderly`, for layer 3: transactions do not overlap (`Race`, `LateSuccess`), `_finish` does
  not raise after its commit, cancel and rerun do not come together (a rerun of a job cancelled under
  its worker gives it a second one), and a system with reviews has no deaths, redeliveries or sends
  that are made but not noted (`ResumedTwice`). No rerun, for layer 4 (`StaleReview`). `Attended`, for
  `ReviewsLead`: nobody dies (`WorkerDies`), nobody cancels, and no decision asks for materials, which
  leaves the job waiting with no review on purpose. The runs check the properties also outside these
  assumptions where they hold on an instance: `Review` has READ COMMITTED and a rerun, with one
  handler.

### Services

`Services_proofs`, a section for each:

* `Idempotency`: an inductive invariant around the record's owner gives `KeyedOnce`,
  `SuccessIsCommitted` and `FailureBurnsKey`, together `AnsweredTruly`, and `OneOperation` proves that
  `Idempotency` implements `KeyedOperation`, step by step. The key fact is that only the call that
  inserted the record writes it, and that record, effect and owner agree on how far the operation has
  come.
* `EventStream`: `StreamsResume` (`[]ReceivedIsPrefix`) for `Ordered = TRUE`. What a producer has still
  to commit is greater than all of the log (`CommitsInTurn`), and the batch a stream has loaded follows
  what it has sent without a gap (`FramesFollow`); so a cursor always cuts the log in two, whatever
  connection is lost and wherever. With events out of order this is false (section 6).
* `Conversations`: `SummariesCatchUp` (`[]SummaryCatchesUp`). A request's turns are its own until it
  commits (`OwnTurns`), and the stored summary was made from all that had committed when the
  transaction that wrote it began (`StoredFits`): later transactions cannot overtake it, because the
  row is locked from the write to the commit.
* `Feedback`: `DecisionsAreAudited` (`[]AuditMatchesDecision`). A decided item has its audit row, a
  thread that owes it (`AuditsAgree`, `AuditedOnce`), or a death that pays for it (`DeathsPay`): the
  decisions without an audit are never more than the deaths.
* `Tracing`: `ContextsStayApart` (`[]NoContextLeaks`) and with it `TracesStayWhole`
  (`[]TracesAreWhole`). Every context that a stack, a queue or a header holds belongs to the request of
  its holder, and a trace to one request (`TracesOfOne`); the token that a block restores is that of the
  same request, because blocks nest. `WholeInv` adds where spans are stored: a parent comes before its
  children and in the same process unless it was handed over in a header, and a process loses all its
  spans or none, so that whoever is drawn has the way up to its root.
* `QueueGuard`: `WindowStays` (`[]WindowIsKept`). The invariant `GuardInv` says that what the guard holds
  of the last window is exactly what was granted in it and kept (`WindowIsGranted`), whoever pruned last,
  and that this fits the ceilings; the totals are sums over a set, by the lemmas of `SumTheorems`.

### Object storage

`ObjectStorage_proofs`: `RowsStayTrue` (`[]RowsAreTrue`), `SetsStayWhole` (`[]WholeSet`),
`NothingIsOrphaned` (`[]NoOrphans`) and `StorageTypes`, for any number of calls, kinds, raised calls and
deaths. An id names the call that made it, so that a call only adds and removes what is its own
(`KeysAreOwn`); its pc says which of its keys are stored and whether its rows are committed
(`CallsAreTrue`), what is stored is held by a call, named by a row or counted as litter (`Accounted`);
and once the job is due no call is under way (`DueIsQuiet`), so that what the purge has listed is all
there is (`PurgeIsThorough`). `WholeSet` needs no lock: the unique constraint lets one publication
insert its rows, and the others remove only objects of their own.

### Agent graph

`AgentGraph_proofs`: `PublicationsAreEarned` (`[]PublicationIsEarned`), `ResumesAreFaithful`
(`[]ResumeIsFaithful`), `BudgetsSuffice` (`[]BudgetSuffices`) and `GraphTypes`. The invariant `GraphInv`
is about two states at once, the one in memory and the one of the latest checkpoint, since a run may go
on from either: each is at a place from which only what it still lacks can come before a publication
(`Ahead`), its context still says what has to be shown to a reviewer unless one has seen it, and its
steps plus the longest way that is left are within sixteen. The ghost `approved` is part of the state,
because a retried run may resume from a checkpoint that an earlier execution left after its approval.

`EnginesAlwaysAgree` (`[]EnginesAgree`) is a simulation. `Supersteps` says what it is for a sequence of
envelopes to be a run of LangGraph on the request; `Simulated` says of every such sequence that, after as
many supersteps as the call has taken steps, the envelope is at the node the call is at, up to the name
of the planning node, with the same flags, rounds, plan and nodes behind it (`Matches`), and that it has
ended in the same way once the call has (`EndsAlike`). One lemma per node shows that a turn of the loop
and a superstep lead from one such pair to the next. It needs `GraphInv`, for the steps: the call ends
within sixteen, the other engine gives up after twenty-five, and its end is a fixed point in between
(`EndStays`). The statement leaves out what the engines do not share: a budget that ends the call, an
interruption, a review, and a verifier that keeps failing (section 6).

### Stages of an analysis

`Analysis_proofs`, a section for each:

* `ToolRegistry`: `ToolRetriesAreSafe` (`[]RetriesAreSafe`). The invariant relates the answers
  given under a key to the cache, and the handlers started to the calls and to what the budget has
  left, while attempts are under way.
* `Knowledge`: `OnePublished` (`[]OneCurrentVersion`) for one publisher. The versions that a
  publication has read are all that are published, since only a publisher publishes; so its commit
  retires every other version of the source. With two publishers this is false (section 6).
  `CitationsAreCurrent` (`CitesCurrent`, an action property) follows under the same assumption: what
  validation tests is a condition on the rows at that moment, and a version that is published is then
  the only one.
* `DocumentText`: `ChunksStayFaithful` (`[]ChunksAreFaithful`). The parser's stack follows the headings
  that are open at the line just read (`StackFollows`): level by level it is what the definition of the
  property finds by looking back over the lines. The lines in the buffer stand under the path of the
  stack, so a section that is flushed names the headings of all its lines; and the last window of a
  section ends where the next one starts, less the overlap (`CutInv`).
* `EvidenceEngine`: `ReportsAreWhole` (`[]ReportIsWhole`). The first `written` files of the list are
  those of the call that runs, and what is renamed into place was written to the end.
  `UnknownStaysUnknown` (`[]NullNotZero`): a share is null only for a frame that does not show it, and
  the mean, a quotient of two sums over the frames that do, lies between nothing and the whole.
* `ModelGateway`: `GatewayBounded` (`[]GatewayIsBounded`). A job is charged what it has reserved and no
  more (`Reserved`). After a burst of failures has opened the breaker, the calls that have failed since
  and the calls that had passed it before are together fewer than the callers (`FewLate`): inductive
  only together, since each late failure is one of those calls; `InOrder` and `Spares` say where in the
  sequence of failures a breaker that is closed can be.
* `FrameSampling`: `FramesAreOrdered` (`[]FramesOrdered`). `BinCentres` is exact arithmetic on the
  rounded centres of the bins, a product and two divisions of unbounded integers; `RanksAreFilled`
  says that in a finite set with a strict order every rank has its one member, which makes the sorted
  scene changes strictly increasing.
* `MediaTimeline`: `SpeechStaysHeard` (`[]SpeechIsHeardOnce`). Bursts are spaced by more than the gap that
  merges them (`BurstsAreSpaced`), so intervals stay apart though they are padded; what was cut lies before
  what is left (`ChunksFollow`), no chunk overlaps another, and each interval has been cut up to one
  moment, where what is left of it starts (`IsCut`); a segment is clamped into its chunk.
* `SegmentMerge`: `PartsAreTheWhole` (`[]PartsMakeTheWhole`). `RoundedUp` and `PartsArePlanned` bound the
  last part of a plan between one unit and a full part; `RanksAreFilled` again gives the order of the
  results, so that comparing neighbours, as the code does, compares every two.

### Sums, products, and what stands in for induction

`SumTheorems` has what these proofs share. `FirstFailure`: a set of numbers that contains no number below
which it contains none is empty; it follows from the least element of a well-founded order, and stands in
for induction wherever a value is built up step by step (the bursts of the first n frames, the n-th
envelope, the terms of a sum), since the library's induction theorems take an operator. With it, the sum
that `MapThenSumSet` computes does not depend on the order in which it takes the members of a finite set,
grows by the term of a new member, and is bounded by bounds on its terms.

Assumptions: the named `ASSUME`s of the modules (disjoint sets of processes, bounds in `Nat`, a finite
set of callers, ...), which TLC evaluates in every run, and those in the theorems' statements.

Only model-checked: liveness under fairness (`QueuedIsTaken`, `RunningEnds`, `CallsAnswered`,
`EventReachesClient`), which is outside the prover's reach. Every invariant and every other action
property of a passing run is proved, some under assumptions that the run does not need on its instance:
those on `JobControl` as said above, `OnePublisher`, and `Ordered`.

## 6. What the code does not do

Shown by a run:

* `LateSuccess`: `_finish` reads the job and writes it later by primary key; a cancellation that
  commits in between is overwritten (`apps/worker/runtime.py:455-472`, against
  `docs/architecture.md:135-137`).
* `ResumedTwice`: `resume` reads the status and claims nothing, so a redelivered resume task executes
  the run a second time (`runtime.py:163`, against `docs/architecture.md:133-134`).
* `StaleReview`: after a rerun, the decision on the old review resumes the new run
  (`packages/persistence/jobs.py:383-392`, against `docs/stage-7-acceptance.md:22`).
* `WorkerDies`: a worker that dies after its claim leaves the job RUNNING for ever
  (`runtime.py:277`, against `docs/incidents/fault-injection-001.md:14`).
* `PersistentFailure`: a persistent failure of the verifier is published after one revision
  (`packages/agent_runtime/graph.py:247-248`, against `docs/stage-7-acceptance.md:24`).

The passing runs stay clear of these on purpose, with a constant of the run and nothing else: the
late write and the double claim of an outbox row by `Serialized`, the second resume by no redelivery
of resume tasks in a run with reviews, the stale review by no rerun in `Cancel`, the death by no
crash in the fair run.

Seen while modelling, kept out by a constant or named as an exception in the property:

* When a temporary object cannot be removed after the rows were committed, `complete_upload` and
  `publish_artifacts` remove the final objects as well and leave rows that name nothing
  (`packages/object_storage/service.py:174-177`, `332-337`; variable `late`). The purge assumes a
  retention that outlasts tickets and calls (action `Due`): the code accepts a retention of zero.
* `resume_after_review` takes the run with the latest `updated_at` (`packages/persistence/jobs.py:386`),
  and a publisher writes the run once its task is sent (`apps/api/main.py:458`). A publisher of a first
  run that goes on late, after a rerun has come to its review, makes the first run the latest; the
  decision then finds nothing that waits and is dropped. `Review` has a rerun and one handler;
  `ReviewsLead` assumes no rerun.
* Events that commit in another order than their ids (`Ordered = FALSE`) can be skipped for good by
  the SSE cursor (`apps/api/sse.py:62`), and an event of a worker process wakes no stream
  (`Remote`; `apps/worker/runtime_bootstrap.py:27`).
* Two publishers of one source leave two published versions (`packages/retrieval/sql_repository.py:119`,
  against `docs/architecture.md:101`).
* Attempts of the gateway that fail are not charged to the budget
  (`packages/model_gateway/resilience.py:267`, against `docs/architecture.md:114-116`).
* The queue reads the trace context before the span of the enqueueing is opened, and the API opens
  none: every task begins a trace of its own (`apps/worker/queue.py:26-27` says that the span tree
  is continuous across the queue).
* A rest of speech shorter than the minimum is dropped (`packages/media_pipeline/audio.py:194`); the
  floors of a compression plan can exceed its byte budget (`video_plan.py:45-49`, against line 29);
  without a total, missing parts at the end of a video are not noticed (`merge_segment_results.py:74`).
* `teacherGuidance` of a frame without a flag is 0, not unknown (`packages/evidence_engine/metrics.py`,
  against `result_builder.py:163`); a report of files from two runs can be left by a failure between
  two renames (`service.py:118`).

## 7. Not modelled

* `packages/agent_runtime/verifier.py`: a pure check of claims that neither graph calls.
* `packages/contracts`: data schemas.
* Metrics, logs, the injected faults of `faults.py`, and the in-memory twins of services that only
  tests construct (`ReviewService`, `JsonlTraceStore`, `RunResourceManager`).
* Routes that only read, authentication, creation of users, projects and templates: one row or none.
* The pages of the web front end, evaluation, scripts and deployment.
* Decoding, ffmpeg, embeddings, scores, prompts and the rendering of reports: I/O or a ranking that
  the models take to be any.

`PROJECT.json` gives the same for every component, with what is left out of the ones marked `partly`.

## 8. What is left

In this order: weaker assumptions for the theorems about `JobControl`, where a run shows more than is
proved (`Review` has READ COMMITTED and a rerun); an abstract log with readers that
`EventStream` implements for ordered commits, as `Idempotency` implements `KeyedOperation`; larger
instances of `Services` for two conversations and two jobs, where the code's isolation between them is a
condition in a query.
