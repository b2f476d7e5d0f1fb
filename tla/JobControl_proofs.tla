-------------------------- MODULE JobControl_proofs --------------------------
(***************************************************************************)
(* Proofs about JobControl for any sets of handlers and workers and any    *)
(* bounds.                                                                 *)
(*                                                                         *)
(* TypeOK alone is not inductive: a worker reads the run its task is       *)
(* about, through the outbox row the task carries, so the types of what it *)
(* reads depend on every reference being valid.  Refs says that they are.  *)
(***************************************************************************)
EXTENDS JobControl, SequenceTheorems, TLAPS

\* Counters and positions are numbers, and rows refer to rows that exist.
RowsOK ==
  /\ job \in JobStates
  /\ runs \in Seq(RunRow) /\ outbox \in Seq(EventRow)
  /\ reviews \in Seq(ReviewRow) /\ tasks \in Seq(TaskRow)
  /\ artifacts \subseteq Nat
  /\ crashes \in Nat /\ duplicates \in Nat /\ failures \in Nat
  /\ touched \in 0 .. Len(runs)
  /\ \A r \in 1 .. Len(runs) : runs[r].task \in 0 .. Len(tasks)
  /\ \A e \in 1 .. Len(outbox) : outbox[e].run \in 1 .. Len(runs)
  /\ \A t \in 1 .. Len(tasks) : tasks[t].event \in 1 .. Len(outbox)

\* What a handler in state s has kept, it has read in a row that exists, when
\* there are nr runs, ne events and the tasks ts.
HandlerRef(s, nr, ne, ts) ==
  /\ s.pc \in {"idle", "look"} => s.run = 0
  /\ s.pc \in {"retry", "resume"} => s.run \in 1 .. nr
  /\ s.pc = "cancel" => s.run \in 0 .. nr
  /\ s.pc \in {"look", "cancel"} => s.task \in 0 .. Len(ts)
  /\ s.pc = "revoke" => s.task \in 1 .. Len(ts)
  /\ s.batch \subseteq 1 .. ne
  /\ s.pc \in {"claim", "send", "note", "unsend", "done"} => s.event \in 1 .. ne
  /\ s.pc \in {"note", "done"} =>
       s.task \in 1 .. Len(ts) /\ ts[s.task].event = s.event

HandlersOK ==
  /\ hs \in [Handlers -> HandlerState]
  /\ \A h \in Handlers : HandlerRef(hs[h], Len(runs), Len(outbox), tasks)

\* A worker that is not idle executes a task that exists.
WorkersOK ==
  /\ ws \in [Workers -> WorkerState]
  /\ \A w \in Workers : ws[w].pc # "idle" => ws[w].task \in 1 .. Len(tasks)

IInv == RowsOK /\ HandlersOK /\ WorkersOK

\* Rows are never deleted and a task never changes its event.
Grows ==
  /\ Len(runs) <= Len(runs')
  /\ Len(outbox) <= Len(outbox')
  /\ Len(tasks) <= Len(tasks')
  /\ \A t \in 1 .. Len(tasks) : tasks'[t].event = tasks[t].event

-----------------------------------------------------------------------------
(* What the helpers of JobControl do to the rows                           *)

LEMMA UpdateRunRow ==
  ASSUME runs \in Seq(RunRow), touched \in 0 .. Len(runs),
         NEW r \in 1 .. Len(runs), NEW from,
         NEW status \in RunStates, NEW slot \in BOOLEAN,
         UpdateRun(r, from, status, slot)
  PROVE  /\ runs' \in Seq(RunRow)
         /\ Len(runs') = Len(runs)
         /\ \A q \in 1 .. Len(runs) : runs'[q].task = runs[q].task
         /\ touched' \in 0 .. Len(runs)
<1> DEFINE row == [runs[r] EXCEPT !.status = Store(@, from.status, status),
                                  !.slot = Store(@, from.slot, slot)]
<1>1. runs[r] \in RunRow
  BY ElementOfSeq
<1>2. row \in RunRow /\ row.task = runs[r].task
  BY <1>1 DEF RunRow, Store
<1>3. runs' = [runs EXCEPT ![r] = row]
  BY <1>1 DEF UpdateRun, RunRow
<1> HIDE DEF row
<1>4. /\ runs' \in Seq(RunRow)
      /\ Len(runs') = Len(runs)
      /\ \A q \in 1 .. Len(runs) : runs'[q] = IF q = r THEN row ELSE runs[q]
  BY <1>2, <1>3, ExceptSeq
<1>5. touched' \in {touched, r}
  BY DEF UpdateRun
<1>6. QED
  BY <1>2, <1>4, <1>5

LEMMA EmitRow ==
  ASSUME outbox \in Seq(EventRow),
         NEW kind \in {"start", "retry", "rerun", "resume"}, NEW r \in Nat,
         Emit(kind, r)
  PROVE  /\ outbox' \in Seq(EventRow)
         /\ Len(outbox') = Len(outbox) + 1
         /\ \A e \in 1 .. Len(outbox) : outbox'[e] = outbox[e]
         /\ outbox'[Len(outbox) + 1].run = r
         /\ outbox'[Len(outbox) + 1].kind = kind
         /\ outbox'[Len(outbox) + 1].status = "PENDING"
<1> DEFINE row == [kind |-> kind, run |-> r, status |-> "PENDING"]
<1>1. row \in EventRow
  BY DEF EventRow
<1>2. outbox' = Append(outbox, row)
  BY DEF Emit
<1>3. QED
  BY <1>1, <1>2, AppendProperties

LEMMA CreateRunRow ==
  ASSUME runs \in Seq(RunRow), outbox \in Seq(EventRow),
         NEW kind \in {"start", "retry", "rerun", "resume"},
         CreateRun(kind)
  PROVE  /\ runs' \in Seq(RunRow)
         /\ Len(runs') = Len(runs) + 1
         /\ \A q \in 1 .. Len(runs) : runs'[q] = runs[q]
         /\ runs'[Len(runs) + 1].task = 0
         /\ touched' = Len(runs) + 1
         /\ Emit(kind, Len(runs) + 1)
<1> DEFINE row == [status |-> "INITIALIZING", slot |-> TRUE, task |-> 0,
                   ckpt |-> "none"]
<1>1. row \in RunRow
  BY DEF RunRow, RunStates
<1>2. runs' = Append(runs, row)
  BY DEF CreateRun
<1>3. QED
  BY <1>1, <1>2, AppendProperties DEF CreateRun

LEMMA SetStatusRow ==
  ASSUME outbox \in Seq(EventRow), NEW e \in 1 .. Len(outbox),
         NEW status \in {"PENDING", "PUBLISHING", "PUBLISHED"},
         SetStatus(e, status)
  PROVE  /\ outbox' \in Seq(EventRow)
         /\ Len(outbox') = Len(outbox)
         /\ \A d \in 1 .. Len(outbox) :
              /\ outbox'[d].run = outbox[d].run
              /\ outbox'[d].kind = outbox[d].kind
              /\ outbox'[d].status = IF d = e THEN status ELSE outbox[d].status
<1> DEFINE row == [outbox[e] EXCEPT !.status = status]
<1>1. outbox[e] \in EventRow
  BY ElementOfSeq
<1>2. /\ row \in EventRow
      /\ row.run = outbox[e].run /\ row.kind = outbox[e].kind
      /\ row.status = status
  BY <1>1 DEF EventRow
<1>3. outbox' = [outbox EXCEPT ![e] = row]
  BY <1>1 DEF SetStatus, EventRow
<1> HIDE DEF row
<1>4. /\ outbox' \in Seq(EventRow)
      /\ Len(outbox') = Len(outbox)
      /\ \A d \in 1 .. Len(outbox) : outbox'[d] = IF d = e THEN row ELSE outbox[d]
  BY <1>2, <1>3, ExceptSeq
<1>5. QED
  BY <1>2, <1>4

\* The columns of the broker's messages that change.
LEMMA TaskRowUpdate ==
  ASSUME tasks \in Seq(TaskRow), NEW t \in 1 .. Len(tasks),
         NEW row \in TaskRow, row.event = tasks[t].event,
         tasks' = [tasks EXCEPT ![t] = row]
  PROVE  /\ tasks' \in Seq(TaskRow)
         /\ Len(tasks') = Len(tasks)
         /\ \A u \in 1 .. Len(tasks) : tasks'[u].event = tasks[u].event
BY ExceptSeq

\* The other columns of a run that change.
LEMMA RunRowUpdate ==
  ASSUME runs \in Seq(RunRow), NEW r \in 1 .. Len(runs),
         NEW row \in RunRow,
         runs' = [runs EXCEPT ![r] = row]
  PROVE  /\ runs' \in Seq(RunRow)
         /\ Len(runs') = Len(runs)
         /\ \A q \in 1 .. Len(runs) : runs'[q] = IF q = r THEN row ELSE runs[q]
BY ExceptSeq

-----------------------------------------------------------------------------
(* Moving one process while the others stay                                *)

LEMMA LengthsGrow ==
  ASSUME IInv, RowsOK', Grows
  PROVE  /\ 1 .. Len(runs) \subseteq 1 .. Len(runs')
         /\ 1 .. Len(outbox) \subseteq 1 .. Len(outbox')
         /\ 1 .. Len(tasks) \subseteq 1 .. Len(tasks')
BY DEF IInv, RowsOK, Grows

LEMMA RowsSame ==
  ASSUME IInv, UNCHANGED <<rows, tasks, used>>
  PROVE  RowsOK' /\ Grows
BY DEF IInv, RowsOK, rows, used, Grows

LEMMA HandlersStay ==
  ASSUME IInv, Grows, RowsOK', UNCHANGED hs
  PROVE  HandlersOK'
<1>1. /\ Len(runs) \in Nat /\ Len(outbox) \in Nat /\ Len(tasks) \in Nat
      /\ Len(runs') \in Nat /\ Len(outbox') \in Nat /\ Len(tasks') \in Nat
  BY DEF IInv, RowsOK
<1>2. QED
  BY <1>1 DEF IInv, HandlersOK, HandlerRef, Grows

\* What a handler has kept is not lost.
LEMMA RefsGrow ==
  ASSUME IInv, Grows, RowsOK', NEW s \in HandlerState,
         HandlerRef(s, Len(runs), Len(outbox), tasks)
  PROVE  HandlerRef(s, Len(runs'), Len(outbox'), tasks')
<1>1. /\ Len(runs) \in Nat /\ Len(outbox) \in Nat /\ Len(tasks) \in Nat
      /\ Len(runs') \in Nat /\ Len(outbox') \in Nat /\ Len(tasks') \in Nat
  BY DEF IInv, RowsOK
<1>2. s.run \in Nat /\ s.task \in Nat /\ s.event \in Nat
  BY DEF HandlerState
<1>3. /\ s.run \in 1 .. Len(runs) => s.run \in 1 .. Len(runs')
      /\ s.run \in 0 .. Len(runs) => s.run \in 0 .. Len(runs')
      /\ s.task \in 1 .. Len(tasks) => /\ s.task \in 1 .. Len(tasks')
                                      /\ tasks'[s.task].event = tasks[s.task].event
      /\ s.task \in 0 .. Len(tasks) => s.task \in 0 .. Len(tasks')
      /\ s.event \in 1 .. Len(outbox) => s.event \in 1 .. Len(outbox')
  BY <1>1, <1>2 DEF Grows
<1>4. 1 .. Len(outbox) \subseteq 1 .. Len(outbox')
  BY <1>1 DEF Grows
<1>5. QED
  BY <1>3, <1>4 DEF HandlerRef

LEMMA HandlerMoves ==
  ASSUME IInv, Grows, RowsOK',
         NEW h \in Handlers, NEW s \in HandlerState,
         HandlerRef(s, Len(runs'), Len(outbox'), tasks'),
         hs' = [hs EXCEPT ![h] = s]
  PROVE  HandlersOK'
<1>2. ASSUME NEW g \in Handlers
      PROVE  HandlerRef(hs'[g], Len(runs'), Len(outbox'), tasks')
  <2>1. CASE g = h
    BY <2>1 DEF IInv, HandlersOK
  <2>2. CASE g # h
    <3>1. hs'[g] = hs[g]
      BY <2>2 DEF IInv, HandlersOK
    <3>2. HandlerRef(hs[g], Len(runs), Len(outbox), tasks) /\ hs[g] \in HandlerState
      BY DEF IInv, HandlersOK
    <3>3. QED
      BY <3>1, <3>2, RefsGrow
  <2>3. QED
    BY <2>1, <2>2
<1>3. hs' \in [Handlers -> HandlerState]
  BY DEF IInv, HandlersOK
<1>4. QED
  BY <1>2, <1>3 DEF HandlersOK

LEMMA WorkersStay ==
  ASSUME IInv, Grows, RowsOK', UNCHANGED ws
  PROVE  WorkersOK'
<1>1. Len(tasks) \in Nat /\ Len(tasks') \in Nat /\ Len(tasks) <= Len(tasks')
  BY DEF IInv, RowsOK, Grows
<1>2. 1 .. Len(tasks) \subseteq 1 .. Len(tasks')
  BY <1>1
<1>3. QED
  BY <1>2 DEF IInv, WorkersOK

LEMMA WorkerMoves ==
  ASSUME IInv, Grows, RowsOK',
         NEW w \in Workers, NEW s \in WorkerState,
         s.pc # "idle" => s.task \in 1 .. Len(tasks'),
         ws' = [ws EXCEPT ![w] = s]
  PROVE  WorkersOK'
<1>1. Len(tasks) \in Nat /\ Len(tasks') \in Nat /\ Len(tasks) <= Len(tasks')
  BY DEF IInv, RowsOK, Grows
<1>2. /\ ws \in [Workers -> WorkerState]
      /\ \A v \in Workers : ws[v].pc # "idle" => ws[v].task \in 1 .. Len(tasks)
  BY DEF IInv, WorkersOK
<1>3. ws' \in [Workers -> WorkerState]
  BY <1>2
<1>4. ASSUME NEW v \in Workers, ws'[v].pc # "idle"
      PROVE  ws'[v].task \in 1 .. Len(tasks')
  <2>1. CASE v = w
    BY <1>2, <1>4, <2>1
  <2>2. CASE v # w
    <3>1. ws'[v] = ws[v]
      BY <1>2, <2>2
    <3>2. ws[v].task \in 1 .. Len(tasks)
      BY <1>2, <1>4, <3>1
    <3>3. QED
      BY <1>1, <3>1, <3>2
  <2>3. QED
    BY <2>1, <2>2
<1>5. QED
  BY <1>3, <1>4 DEF WorkersOK

LEMMA RespondOK ==
  ASSUME IInv, Grows, RowsOK', NEW h \in Handlers, Respond(h) \/ Drain(h)
  PROVE  HandlersOK'
<1>1. PICK s \in {IdleHandler, [IdleHandler EXCEPT !.pc = "drain"]} :
        hs' = [hs EXCEPT ![h] = s]
  BY DEF Respond, Drain
<1>2. s \in HandlerState
  <2>1. IdleHandler \in HandlerState
    BY DEF IdleHandler, HandlerState, JobStates, RunStates, ReviewDecisions
  <2>2. [IdleHandler EXCEPT !.pc = "drain"] \in HandlerState
    BY <2>1 DEF HandlerState
  <2>3. QED
    BY <1>1, <2>1, <2>2
<1>3. s.pc \in {"idle", "drain"} /\ s.batch = {} /\ s.run = 0
  BY <1>1 DEF IdleHandler
<1>4. HandlerRef(s, Len(runs'), Len(outbox'), tasks')
  BY <1>3 DEF HandlerRef
<1>5. QED
  BY <1>1, <1>2, <1>4, HandlerMoves

LEMMA GotoOK ==
  ASSUME IInv, Grows, RowsOK', NEW h \in Handlers,
         NEW pc \in {"start", "revoke", "send", "unsend", "done"},
         pc = "revoke" => hs[h].task \in 1 .. Len(tasks),
         pc \in {"send", "unsend", "done"} => hs[h].event \in 1 .. Len(outbox),
         pc = "done" => /\ hs[h].task \in 1 .. Len(tasks)
                        /\ tasks[hs[h].task].event = hs[h].event,
         Goto(h, pc)
  PROVE  HandlersOK'
<1> DEFINE s == [hs[h] EXCEPT !.pc = pc]
<1>1. hs[h] \in HandlerState
  BY DEF IInv, HandlersOK
<1>2. /\ s \in HandlerState /\ s.pc = pc /\ s.task = hs[h].task
      /\ s.event = hs[h].event /\ s.batch = hs[h].batch
  BY <1>1 DEF HandlerState
<1>3. hs' = [hs EXCEPT ![h] = s]
  BY DEF Goto
<1>4. hs[h].batch \subseteq 1 .. Len(outbox)
  BY DEF IInv, HandlersOK, HandlerRef
<1> HIDE DEF s
<1>5. /\ 1 .. Len(outbox) \subseteq 1 .. Len(outbox')
      /\ 1 .. Len(tasks) \subseteq 1 .. Len(tasks')
      /\ \A t \in 1 .. Len(tasks) : tasks'[t].event = tasks[t].event
  BY LengthsGrow DEF Grows
<1>6. HandlerRef(s, Len(runs'), Len(outbox'), tasks')
  BY <1>2, <1>4, <1>5 DEF HandlerRef
<1>7. QED
  BY <1>2, <1>3, <1>6, HandlerMoves

LEMMA AckOK ==
  ASSUME IInv, Grows, RowsOK', NEW w \in Workers, Ack(w)
  PROVE  WorkersOK'
<1>1. IdleWorker \in WorkerState /\ IdleWorker.pc = "idle"
  BY DEF IdleWorker, WorkerState, JobStates, RunStates
<1>2. QED
  BY <1>1, WorkerMoves DEF Ack

LEMMA WGotoOK ==
  ASSUME IInv, Grows, RowsOK', NEW w \in Workers, ~WAt(w, "idle"),
         NEW pc \in {"begin", "graph", "finread", "announce", "review",
                     "failread"},
         WGoto(w, pc)
  PROVE  WorkersOK'
<1> DEFINE s == [ws[w] EXCEPT !.pc = pc]
<1>1. ws[w] \in WorkerState /\ ws[w].task \in 1 .. Len(tasks)
  BY DEF IInv, WorkersOK, WAt
<1>2. s \in WorkerState /\ s.task = ws[w].task
  BY <1>1 DEF WorkerState
<1>3. ws' = [ws EXCEPT ![w] = s]
  BY DEF WGoto
<1> HIDE DEF s
<1>4. s.task \in 1 .. Len(tasks')
  BY <1>1, <1>2, LengthsGrow
<1>5. QED
  BY <1>2, <1>3, <1>4, WorkerMoves

\* A worker that is not idle knows its run.
LEMMA RunOfOK ==
  ASSUME IInv, NEW w \in Workers, ~WAt(w, "idle")
  PROVE  /\ RunOf(w) \in 1 .. Len(runs)
         /\ ws[w] \in WorkerState
         /\ ws[w].task \in 1 .. Len(tasks)
BY DEF IInv, RowsOK, WorkersOK, WAt, RunOf

LEMMA WLoadOK ==
  ASSUME IInv, Grows, RowsOK', NEW w \in Workers, ~WAt(w, "idle"),
         NEW pc \in {"claim", "drop", "finish", "fail"},
         WLoad(w, pc)
  PROVE  WorkersOK'
<1> DEFINE run == runs[RunOf(w)]
<1> DEFINE s == [ws[w] EXCEPT !.pc = pc, !.job = job, !.status = run.status,
                              !.slot = run.slot]
<1>1. run \in RunRow
  BY RunOfOK, ElementOfSeq DEF IInv, RowsOK
<1>2. s \in WorkerState /\ s.task = ws[w].task
  <2>1. run.status \in RunStates /\ run.slot \in BOOLEAN
    BY <1>1 DEF RunRow
  <2>2. job \in JobStates /\ ws[w] \in WorkerState
    BY RunOfOK DEF IInv, RowsOK
  <2> HIDE DEF run
  <2>3. QED
    BY <2>1, <2>2 DEF WorkerState
<1>3. ws' = [ws EXCEPT ![w] = s]
  BY RunOfOK DEF WLoad, IInv, WorkersOK, WorkerState
<1> HIDE DEF s
<1>4. s.task \in 1 .. Len(tasks')
  BY <1>2, RunOfOK, LengthsGrow
<1>5. QED
  BY <1>2, <1>3, <1>4, WorkerMoves

-----------------------------------------------------------------------------
(* What each kind of commit leaves of the rows                             *)

LEMMA UpdateRunOK ==
  ASSUME IInv, NEW r \in 1 .. Len(runs), NEW from,
         NEW status \in RunStates, NEW slot \in BOOLEAN,
         UpdateRun(r, from, status, slot),
         job' \in JobStates,
         UNCHANGED <<outbox, reviews, artifacts, tasks, used>>
  PROVE  RowsOK' /\ Grows
<1>1. runs \in Seq(RunRow) /\ touched \in 0 .. Len(runs)
  BY DEF IInv, RowsOK
<1>2. /\ runs' \in Seq(RunRow) /\ Len(runs') = Len(runs)
      /\ \A q \in 1 .. Len(runs) : runs'[q].task = runs[q].task
      /\ touched' \in 0 .. Len(runs)
  BY <1>1, UpdateRunRow
<1>3. \A q \in 1 .. Len(runs') : runs'[q].task \in 0 .. Len(tasks')
  BY <1>2 DEF IInv, RowsOK
<1>4. Grows
  BY <1>1, <1>2 DEF IInv, RowsOK, Grows
<1>5. QED
  BY <1>2, <1>3, <1>4 DEF IInv, RowsOK, used

LEMMA UpdateEmitOK ==
  ASSUME IInv, NEW r \in 1 .. Len(runs), NEW from,
         NEW status \in RunStates, NEW slot \in BOOLEAN,
         UpdateRun(r, from, status, slot),
         NEW kind \in {"retry", "resume"}, Emit(kind, r),
         job' \in JobStates,
         UNCHANGED <<reviews, artifacts, tasks, used>>
  PROVE  RowsOK' /\ Grows
<1>1. /\ runs \in Seq(RunRow) /\ touched \in 0 .. Len(runs)
      /\ outbox \in Seq(EventRow) /\ r \in Nat
  BY DEF IInv, RowsOK
<1>2. /\ runs' \in Seq(RunRow) /\ Len(runs') = Len(runs)
      /\ \A q \in 1 .. Len(runs) : runs'[q].task = runs[q].task
      /\ touched' \in 0 .. Len(runs)
  BY <1>1, UpdateRunRow
<1>3. /\ outbox' \in Seq(EventRow) /\ Len(outbox') = Len(outbox) + 1
      /\ \A e \in 1 .. Len(outbox) : outbox'[e] = outbox[e]
      /\ outbox'[Len(outbox) + 1].run = r
  BY <1>1, EmitRow
<1>4. \A e \in 1 .. Len(outbox') : e \in 1 .. Len(outbox) \/ e = Len(outbox) + 1
  BY <1>1, <1>3
<1>5. \A e \in 1 .. Len(outbox') : outbox'[e].run \in 1 .. Len(runs')
  BY <1>2, <1>3, <1>4 DEF IInv, RowsOK
<1>6. \A t \in 1 .. Len(tasks') : tasks'[t].event \in 1 .. Len(outbox')
  BY <1>1, <1>3 DEF IInv, RowsOK
<1>7. Len(outbox) <= Len(outbox')
  BY <1>1, <1>3
<1>8. \A q \in 1 .. Len(runs') : runs'[q].task \in 0 .. Len(tasks')
  BY <1>2 DEF IInv, RowsOK
<1>9. Grows
  BY <1>1, <1>2, <1>7 DEF IInv, RowsOK, Grows
<1>10. QED
  BY <1>2, <1>3, <1>5, <1>6, <1>8, <1>9 DEF IInv, RowsOK, used

LEMMA CreateRunOK ==
  ASSUME IInv, NEW kind \in {"start", "rerun"}, CreateRun(kind),
         job' \in JobStates,
         UNCHANGED <<reviews, artifacts, tasks, used>>
  PROVE  RowsOK' /\ Grows
<1>1. /\ runs \in Seq(RunRow) /\ outbox \in Seq(EventRow)
      /\ Len(runs) \in Nat /\ Len(outbox) \in Nat /\ Len(tasks) \in Nat
  BY DEF IInv, RowsOK
<1>2. /\ runs' \in Seq(RunRow) /\ Len(runs') = Len(runs) + 1
      /\ \A q \in 1 .. Len(runs) : runs'[q] = runs[q]
      /\ runs'[Len(runs) + 1].task = 0
      /\ touched' = Len(runs) + 1
      /\ Emit(kind, Len(runs) + 1)
  BY <1>1, CreateRunRow
<1>3. /\ outbox' \in Seq(EventRow) /\ Len(outbox') = Len(outbox) + 1
      /\ \A e \in 1 .. Len(outbox) : outbox'[e] = outbox[e]
      /\ outbox'[Len(outbox) + 1].run = Len(runs) + 1
  BY <1>1, <1>2, EmitRow
<1>4. /\ \A e \in 1 .. Len(outbox') : e \in 1 .. Len(outbox) \/ e = Len(outbox) + 1
      /\ \A q \in 1 .. Len(runs') : q \in 1 .. Len(runs) \/ q = Len(runs) + 1
  BY <1>1, <1>2, <1>3
<1>5. \A e \in 1 .. Len(outbox') : outbox'[e].run \in 1 .. Len(runs')
  <2>1. \A e \in 1 .. Len(outbox) : outbox[e].run \in 1 .. Len(runs)
    BY DEF IInv, RowsOK
  <2>2. \A e \in 1 .. Len(outbox) : outbox'[e].run \in 1 .. Len(runs')
    <3>1. 1 .. Len(runs) \subseteq 1 .. Len(runs')
      BY <1>1, <1>2
    <3>2. \A e \in 1 .. Len(outbox) : outbox'[e].run = outbox[e].run
      BY <1>3
    <3>3. QED
      BY <2>1, <3>1, <3>2
  <2>3. outbox'[Len(outbox) + 1].run \in 1 .. Len(runs')
    BY <1>1, <1>2, <1>3
  <2>4. QED
    BY <1>4, <2>2, <2>3
<1>6. \A q \in 1 .. Len(runs') : runs'[q].task \in 0 .. Len(tasks')
  BY <1>1, <1>2, <1>4 DEF IInv, RowsOK
<1>7. \A t \in 1 .. Len(tasks') : tasks'[t].event \in 1 .. Len(outbox')
  BY <1>1, <1>3 DEF IInv, RowsOK
<1>8. /\ Len(outbox) <= Len(outbox') /\ Len(runs) <= Len(runs')
      /\ touched' \in 0 .. Len(runs')
  BY <1>1, <1>2, <1>3
<1>9. Grows
  BY <1>8 DEF Grows, IInv, RowsOK
<1>10. QED
  BY <1>2, <1>3, <1>5, <1>6, <1>7, <1>8, <1>9 DEF IInv, RowsOK, used

LEMMA SetStatusOK ==
  ASSUME IInv, NEW e \in 1 .. Len(outbox),
         NEW status \in {"PENDING", "PUBLISHING", "PUBLISHED"},
         SetStatus(e, status),
         UNCHANGED <<job, runs, touched, reviews, artifacts, tasks, used>>
  PROVE  RowsOK' /\ Grows
<1>1. /\ outbox' \in Seq(EventRow) /\ Len(outbox') = Len(outbox)
      /\ \A d \in 1 .. Len(outbox) : outbox'[d].run = outbox[d].run
  BY SetStatusRow DEF IInv, RowsOK
<1>2. QED
  BY <1>1 DEF IInv, RowsOK, Grows, used

\* A column of a run other than its worker_task_id.
LEMMA CheckpointOK ==
  ASSUME IInv, NEW r \in 1 .. Len(runs), NEW c \in {"none", "step", "review"},
         runs' = [runs EXCEPT ![r].ckpt = c], touched' = r,
         UNCHANGED <<job, outbox, reviews, artifacts, tasks, used>>
  PROVE  RowsOK' /\ Grows
<1> DEFINE row == [runs[r] EXCEPT !.ckpt = c]
<1>1. runs[r] \in RunRow
  BY ElementOfSeq DEF IInv, RowsOK
<1>2. row \in RunRow /\ row.task = runs[r].task
  BY <1>1 DEF RunRow
<1>3. runs' = [runs EXCEPT ![r] = row]
  BY <1>1 DEF RunRow
<1> HIDE DEF row
<1>4. /\ runs' \in Seq(RunRow) /\ Len(runs') = Len(runs)
      /\ \A q \in 1 .. Len(runs) : runs'[q] = IF q = r THEN row ELSE runs[q]
  BY <1>2, <1>3, RunRowUpdate DEF IInv, RowsOK
<1>5. QED
  BY <1>2, <1>4 DEF IInv, RowsOK, Grows, used

\* A message of the broker changes.
LEMMA TaskOK ==
  ASSUME IInv, NEW t \in 1 .. Len(tasks),
         NEW row \in TaskRow, row.event = tasks[t].event,
         tasks' = [tasks EXCEPT ![t] = row],
         UNCHANGED rows,
         crashes' \in Nat, duplicates' \in Nat, failures' \in Nat
  PROVE  RowsOK' /\ Grows
<1>1. /\ tasks' \in Seq(TaskRow) /\ Len(tasks') = Len(tasks)
      /\ \A u \in 1 .. Len(tasks) : tasks'[u].event = tasks[u].event
  BY TaskRowUpdate DEF IInv, RowsOK
<1>2. QED
  BY <1>1 DEF IInv, RowsOK, Grows, rows

\* A fault leaves the rows alone and is counted.
LEMMA CountedOK ==
  ASSUME IInv, UNCHANGED <<rows, tasks>>,
         crashes' \in Nat, duplicates' \in Nat, failures' \in Nat
  PROVE  RowsOK' /\ Grows
BY DEF IInv, RowsOK, rows, Grows

-----------------------------------------------------------------------------
(* transition() of state_machines.py                                       *)

\* The tables lead to states of their enumeration, and never back to CREATED.
LEMMA NextStatesTyped ==
  ASSUME NEW state, NEW event, NEW decision
  PROVE  /\ JobNextStates(state, event, decision) \subseteq
              JobStates \ {"CREATED"}
         /\ RunNextStates(state, event, decision) \subseteq RunStates
<1>1. Lookup(JobTransitions, state, event) \subseteq JobStates \ {"CREATED"}
  BY DEF Lookup, JobTransitions, JobStates
<1>2. Lookup(RunTransitions, state, event) \subseteq RunStates
  BY DEF Lookup, RunTransitions, RunStates
<1>3. QED
  BY <1>1, <1>2 DEF JobNextStates, RunNextStates, JobStates, RunStates

-----------------------------------------------------------------------------
(* The handlers                                                            *)

\* Steps that only read the rows.
LEMMA HandlerReads ==
  ASSUME IInv, NEW h \in Handlers,
         \/ StartRead(h) \/ RetryRead(h) \/ RerunRead(h) \/ Replay(h)
         \/ CancelLook(h) \/ CancelRead(h) \/ ResumeRead(h)
         \/ DrainScan(h) \/ BatchEnd(h) \/ BatchNext(h)
  PROVE  IInv'
<1>1. UNCHANGED <<rows, tasks, used>> /\ UNCHANGED ws
  BY DEF StartRead, RetryRead, RerunRead, Replay, CancelLook, CancelRead,
         ResumeRead, DrainScan, BatchEnd, BatchNext
<1>2. RowsOK' /\ Grows
  BY <1>1, RowsSame
<1>3. WorkersOK'
  BY <1>1, <1>2, WorkersStay
<1>4. /\ hs[h] \in HandlerState
      /\ HandlerRef(hs[h], Len(runs), Len(outbox), tasks)
      /\ hs \in [Handlers -> HandlerState]
  BY DEF IInv, HandlersOK
<1>5. runs' = runs /\ outbox' = outbox /\ tasks' = tasks
  BY <1>1 DEF rows
<1>6. /\ job \in JobStates
      /\ \A r \in DOMAIN runs : r \in 1 .. Len(runs) /\ runs[r] \in RunRow
      /\ \A e \in DOMAIN outbox : e \in 1 .. Len(outbox)
  BY ElementOfSeq DEF IInv, RowsOK
<1>7. ASSUME NEW s \in HandlerState,
             HandlerRef(s, Len(runs), Len(outbox), tasks),
             hs' = [hs EXCEPT ![h] = s]
      PROVE  HandlersOK'
  BY <1>2, <1>5, <1>7, HandlerMoves
<1>8. HandlersOK'
  <2>1. CASE StartRead(h)
    BY <2>1, <1>2, GotoOK, RespondOK DEF StartRead
  <2>2. CASE RetryRead(h)
    <3> DEFINE r == Len(runs)
               s == [hs[h] EXCEPT !.pc = "retry", !.job = job, !.run = r,
                                  !.status = runs[r].status,
                                  !.slot = runs[r].slot]
    <3>1. r \in 1 .. Len(runs) /\ runs[r] \in RunRow
      BY <2>2, ElementOfSeq, EmptySeq DEF RetryRead, IInv, RowsOK
    <3>2. s \in HandlerState
      <4>1. runs[r].status \in RunStates /\ runs[r].slot \in BOOLEAN /\ r \in Nat
        BY <3>1 DEF RunRow
      <4>2. QED
        BY <1>4, <1>6, <4>1 DEF HandlerState
    <3>3. HandlerRef(s, Len(runs), Len(outbox), tasks)
      BY <1>4, <3>1 DEF HandlerRef, HandlerState
    <3>4. hs' = [hs EXCEPT ![h] = s]
      BY <2>2, <1>4 DEF RetryRead, HandlerState
    <3>5. QED
      BY <1>7, <3>2, <3>3, <3>4
  <2>3. CASE RerunRead(h)
    <3> DEFINE s == [hs[h] EXCEPT !.pc = "rerun", !.job = job]
    <3>1. s \in HandlerState /\ HandlerRef(s, Len(runs), Len(outbox), tasks)
      BY <1>4, <1>6 DEF HandlerState, HandlerRef
    <3>2. hs' = [hs EXCEPT ![h] = s]
      BY <2>3, <1>4 DEF RerunRead, HandlerState
    <3>3. QED
      BY <1>7, <3>1, <3>2
  <2>4. CASE Replay(h)
    BY <2>4, <1>2, RespondOK DEF Replay
  <2>5. CASE CancelLook(h)
    <3>1. PICK id \in IF ActiveRuns = {} THEN {0}
                      ELSE {runs[r].task : r \in ActiveRuns} :
            hs' = [hs EXCEPT ![h].pc = "look", ![h].task = id]
      BY <2>5 DEF CancelLook
    <3>2. id \in 0 .. Len(tasks)
      BY <3>1, <1>6 DEF ActiveRuns, IInv, RowsOK
    <3> DEFINE s == [hs[h] EXCEPT !.pc = "look", !.task = id]
    <3>3. s \in HandlerState
      <4>1. id \in Nat
        BY <3>2
      <4>2. QED
        BY <1>4, <4>1 DEF HandlerState
    <3>4. hs[h].run = 0
      BY <2>5, <1>4 DEF CancelLook, At, HandlerRef
    <3>5. HandlerRef(s, Len(runs), Len(outbox), tasks)
      BY <1>4, <3>2, <3>4 DEF HandlerState, HandlerRef
    <3>6. hs' = [hs EXCEPT ![h] = s]
      BY <3>1, <1>4 DEF HandlerState
    <3>7. QED
      BY <1>7, <3>3, <3>5, <3>6
  <2>6. CASE CancelRead(h)
    <3>1. hs[h].task \in 0 .. Len(tasks)
      BY <2>6, <1>4 DEF CancelRead, At, HandlerRef
    <3>2. CASE hs' = [hs EXCEPT ![h].pc = "cancel", ![h].job = job]
      <4> DEFINE s == [hs[h] EXCEPT !.pc = "cancel", !.job = job]
      <4>1. hs[h].run = 0
        BY <2>6, <1>4 DEF CancelRead, At, HandlerRef
      <4>2. 0 \in 0 .. Len(runs)
        BY DEF IInv, RowsOK
      <4>3. s \in HandlerState /\ HandlerRef(s, Len(runs), Len(outbox), tasks)
        BY <1>4, <1>6, <3>1, <4>1, <4>2 DEF HandlerState, HandlerRef
      <4>4. hs' = [hs EXCEPT ![h] = s]
        BY <3>2, <1>4 DEF HandlerState
      <4>5. QED
        BY <1>7, <4>3, <4>4
    <3>3. CASE \E r \in ActiveRuns :
                 hs' = [hs EXCEPT ![h].pc = "cancel", ![h].job = job,
                                  ![h].run = r, ![h].status = runs[r].status,
                                  ![h].slot = runs[r].slot]
      <4>1. PICK r \in ActiveRuns :
              hs' = [hs EXCEPT ![h].pc = "cancel", ![h].job = job,
                               ![h].run = r, ![h].status = runs[r].status,
                               ![h].slot = runs[r].slot]
        BY <3>3
      <4> DEFINE s == [hs[h] EXCEPT !.pc = "cancel", !.job = job, !.run = r,
                                    !.status = runs[r].status,
                                    !.slot = runs[r].slot]
      <4>2. r \in 1 .. Len(runs) /\ runs[r] \in RunRow
        BY <1>6 DEF ActiveRuns
      <4>3. /\ runs[r].status \in RunStates /\ runs[r].slot \in BOOLEAN
            /\ r \in 0 .. Len(runs) /\ r \in Nat
        BY <4>2 DEF RunRow
      <4>4. s \in HandlerState
        BY <1>4, <1>6, <4>3 DEF HandlerState
      <4>5. HandlerRef(s, Len(runs), Len(outbox), tasks)
        BY <1>4, <3>1, <4>3 DEF HandlerState, HandlerRef
      <4>6. hs' = [hs EXCEPT ![h] = s]
        BY <4>1, <1>4 DEF HandlerState
      <4>7. QED
        BY <1>7, <4>4, <4>5, <4>6
    <3>4. QED
      BY <2>6, <3>2, <3>3 DEF CancelRead
  <2>7. CASE ResumeRead(h)
    <3>1. CASE Respond(h)
      BY <3>1, <1>2, RespondOK
    <3>2. CASE ~Respond(h)
      <4> DEFINE s == [hs[h] EXCEPT !.pc = "resume", !.job = job,
                                    !.run = touched,
                                    !.status = runs[touched].status,
                                    !.slot = runs[touched].slot]
      <4>1. touched # 0 /\ hs' = [hs EXCEPT ![h].pc = "resume", ![h].job = job,
                                             ![h].run = touched,
                                             ![h].status = runs[touched].status,
                                             ![h].slot = runs[touched].slot]
        BY <2>7, <3>2 DEF ResumeRead
      <4>2. touched \in 1 .. Len(runs)
        BY <4>1 DEF IInv, RowsOK
      <4>3. runs[touched] \in RunRow
        BY <4>2, ElementOfSeq DEF IInv, RowsOK
      <4>4. /\ runs[touched].status \in RunStates
            /\ runs[touched].slot \in BOOLEAN /\ touched \in Nat
        BY <4>2, <4>3 DEF RunRow
      <4>5. s \in HandlerState
        BY <1>4, <1>6, <4>4 DEF HandlerState
      <4>6. HandlerRef(s, Len(runs), Len(outbox), tasks)
        BY <1>4, <4>2 DEF HandlerState, HandlerRef
      <4>7. hs' = [hs EXCEPT ![h] = s]
        BY <4>1, <1>4 DEF HandlerState
      <4>8. QED
        BY <1>7, <4>5, <4>6, <4>7
    <3>3. QED
      BY <3>1, <3>2
  <2>8. CASE DrainScan(h)
    <3> DEFINE s == [hs[h] EXCEPT !.pc = "batch",
                        !.batch = {e \in DOMAIN outbox :
                                     outbox[e].status = "PENDING"}]
    <3>1. s \in HandlerState /\ HandlerRef(s, Len(runs), Len(outbox), tasks)
      <4>1. {e \in DOMAIN outbox : outbox[e].status = "PENDING"}
              \in SUBSET (1 .. Len(outbox))
        BY <1>6
      <4>2. 1 .. Len(outbox) \subseteq Nat
        OBVIOUS
      <4>3. QED
        BY <1>4, <4>1, <4>2 DEF HandlerState, HandlerRef
    <3>2. hs' = [hs EXCEPT ![h] = s]
      BY <2>8, <1>4 DEF DrainScan, HandlerState
    <3>3. QED
      BY <1>7, <3>1, <3>2
  <2>9. CASE BatchEnd(h)
    BY <2>9, <1>2, RespondOK DEF BatchEnd
  <2>10. CASE BatchNext(h)
    <3>1. PICK e \in hs[h].batch :
            \/ hs' = [hs EXCEPT ![h].batch = @ \ {e}, ![h].event = e,
                                ![h].pc = "claim"]
            \/ hs' = [hs EXCEPT ![h].batch = @ \ {e}]
      BY <2>10 DEF BatchNext
    <3>2. /\ e \in 1 .. Len(outbox) /\ e \in Nat /\ hs[h].pc = "batch"
          /\ hs[h].batch \ {e} \subseteq 1 .. Len(outbox)
          /\ hs[h].batch \ {e} \in SUBSET Nat
      BY <2>10, <1>4 DEF BatchNext, At, HandlerRef, HandlerState
    <3>3. CASE hs' = [hs EXCEPT ![h].batch = @ \ {e}, ![h].event = e,
                                ![h].pc = "claim"]
      <4> DEFINE s == [hs[h] EXCEPT !.batch = hs[h].batch \ {e}, !.event = e,
                                    !.pc = "claim"]
      <4>1. s \in HandlerState /\ HandlerRef(s, Len(runs), Len(outbox), tasks)
        BY <1>4, <3>2 DEF HandlerState, HandlerRef
      <4>2. hs' = [hs EXCEPT ![h] = s]
        BY <3>3, <1>4 DEF HandlerState
      <4>3. QED
        BY <1>7, <4>1, <4>2
    <3>4. CASE hs' = [hs EXCEPT ![h].batch = @ \ {e}]
      <4> DEFINE s == [hs[h] EXCEPT !.batch = hs[h].batch \ {e}]
      <4>1. s \in HandlerState /\ HandlerRef(s, Len(runs), Len(outbox), tasks)
        BY <1>4, <3>2 DEF HandlerState, HandlerRef
      <4>2. hs' = [hs EXCEPT ![h] = s]
        BY <3>4, <1>4 DEF HandlerState
      <4>3. QED
        BY <1>7, <4>1, <4>2
    <3>5. QED
      BY <3>1, <3>3, <3>4
  <2>11. QED
    BY <2>1, <2>2, <2>3, <2>4, <2>5, <2>6, <2>7, <2>8, <2>9, <2>10
<1>9. QED
  BY <1>2, <1>3, <1>8 DEF IInv

\* Steps that commit, send or fail.
LEMMA HandlerWrites ==
  ASSUME IInv, NEW h \in Handlers,
         \/ StartCommit(h) \/ RetryCommit(h) \/ RerunCommit(h)
         \/ CancelCommit(h) \/ ResumeApproved(h) \/ ResumeRejected(h)
         \/ ClaimEvent(h) \/ Unsend(h) \/ Done(h)
  PROVE  IInv'
<1>1. ws' = ws /\ UNCHANGED <<tasks, used>>
  BY DEF StartCommit, RetryCommit, RerunCommit, CancelCommit, ResumeApproved,
         ResumeRejected, ClaimEvent, Unsend, Done
<1>2. /\ hs[h] \in HandlerState
      /\ HandlerRef(hs[h], Len(runs), Len(outbox), tasks)
      /\ hs \in [Handlers -> HandlerState]
  BY DEF IInv, HandlersOK
<1>3. /\ hs[h].job \in JobStates /\ hs[h].status \in RunStates
      /\ hs[h].slot \in BOOLEAN
  BY <1>2 DEF HandlerState
<1>4. job \in JobStates
  BY DEF IInv, RowsOK
<1>5. ASSUME RowsOK', Grows, HandlersOK'
      PROVE  IInv'
  BY <1>1, <1>5, WorkersStay DEF IInv
<1>6. ASSUME UNCHANGED rows PROVE RowsOK' /\ Grows
  BY <1>1, <1>6, RowsSame
<1>7. CASE StartCommit(h)
  <2>1. RowsOK' /\ Grows
    <3>1. CASE UNCHANGED rows
      BY <3>1, <1>6
    <3>2. CASE ~UNCHANGED rows
      <4>1. /\ job' = "QUEUED" /\ CreateRun("start")
            /\ UNCHANGED <<reviews, artifacts>>
        BY <1>7, <3>2 DEF StartCommit
      <4>2. QED
        BY <1>1, <4>1, CreateRunOK DEF JobStates
    <3>3. QED
      BY <3>1, <3>2
  <2>2. Respond(h) \/ Drain(h)
    BY <1>7 DEF StartCommit
  <2>3. QED
    BY <1>5, <2>1, <2>2, RespondOK
<1>8. CASE RetryCommit(h)
  <2>1. RowsOK' /\ Grows
    <3>1. CASE UNCHANGED rows
      BY <3>1, <1>6
    <3>2. CASE ~UNCHANGED rows
      <4>1. hs[h].run \in 1 .. Len(runs)
        BY <1>2, <1>8 DEF RetryCommit, At, HandlerRef
      <4>2. /\ job' = Store(job, hs[h].job, "QUEUED")
            /\ UpdateRun(hs[h].run, hs[h], "INITIALIZING", TRUE)
            /\ Emit("retry", hs[h].run)
            /\ UNCHANGED <<reviews, artifacts>>
        BY <1>8, <3>2 DEF RetryCommit
      <4>3. job' \in JobStates /\ "INITIALIZING" \in RunStates
        BY <4>2, <1>4 DEF Store, JobStates, RunStates
      <4>4. QED
        BY <1>1, <4>1, <4>2, <4>3, UpdateEmitOK
    <3>3. QED
      BY <3>1, <3>2
  <2>2. Respond(h) \/ Drain(h)
    BY <1>8 DEF RetryCommit
  <2>3. QED
    BY <1>5, <2>1, <2>2, RespondOK
<1>9. CASE RerunCommit(h)
  <2>1. RowsOK' /\ Grows
    <3>1. CASE UNCHANGED rows
      BY <3>1, <1>6
    <3>2. CASE ~UNCHANGED rows
      <4>1. /\ job' = Store(job, hs[h].job, "QUEUED") /\ CreateRun("rerun")
            /\ UNCHANGED <<reviews, artifacts>>
        BY <1>9, <3>2 DEF RerunCommit
      <4>2. job' \in JobStates
        BY <4>1, <1>4 DEF Store, JobStates
      <4>3. QED
        BY <1>1, <4>1, <4>2, CreateRunOK
    <3>3. QED
      BY <3>1, <3>2
  <2>2. Respond(h) \/ Drain(h)
    BY <1>9 DEF RerunCommit
  <2>3. QED
    BY <1>5, <2>1, <2>2, RespondOK
<1>10. CASE CancelCommit(h)
  <2>1. /\ job' \in JobStates
        /\ UNCHANGED <<outbox, reviews, artifacts>>
    BY <1>4, <1>10 DEF CancelCommit, JobStates
  <2>2. hs[h].run \in 0 .. Len(runs) /\ hs[h].task \in 0 .. Len(tasks)
    BY <1>2, <1>10 DEF CancelCommit, At, HandlerRef
  <2>3. RowsOK' /\ Grows
    <3>1. CASE hs[h].run # 0
      <4>1. UpdateRun(hs[h].run, hs[h], "ERRORED", FALSE)
        BY <3>1, <1>10 DEF CancelCommit
      <4>2. hs[h].run \in 1 .. Len(runs)
        BY <2>2, <3>1 DEF IInv, RowsOK
      <4>3. QED
        BY <1>1, <2>1, <4>1, <4>2, UpdateRunOK DEF RunStates
    <3>2. CASE hs[h].run = 0
      <4>1. UNCHANGED <<runs, touched>>
        BY <3>2, <1>10 DEF CancelCommit
      <4>2. QED
        BY <1>1, <2>1, <4>1 DEF IInv, RowsOK, Grows, used
    <3>3. QED
      BY <3>1, <3>2
  <2>4. HandlersOK'
    <3>1. CASE Respond(h)
      BY <3>1, <2>3, RespondOK
    <3>2. CASE ~Respond(h)
      <4>1. hs[h].task # 0 /\ Goto(h, "revoke")
        BY <3>2, <1>10 DEF CancelCommit
      <4>2. hs[h].task \in 1 .. Len(tasks)
        BY <2>2, <4>1 DEF IInv, RowsOK
      <4>3. QED
        BY <2>3, <4>1, <4>2, GotoOK
    <3>3. QED
      BY <3>1, <3>2
  <2>5. QED
    BY <1>5, <2>3, <2>4
<1>11. CASE ResumeApproved(h)
  <2>1. RowsOK' /\ Grows
    <3>1. CASE UNCHANGED rows
      BY <3>1, <1>6
    <3>2. CASE ~UNCHANGED rows
      <4>1. hs[h].run \in 1 .. Len(runs)
        BY <1>2, <1>11 DEF ResumeApproved, At, HandlerRef
      <4>2. PICK s \in RunNextStates(hs[h].status, "RESUME", hs[h].decision) :
              UpdateRun(hs[h].run, hs[h], s, TRUE)
        BY <1>11, <3>2 DEF ResumeApproved
      <4>3. /\ job' \in JobNextStates(hs[h].job, "REVIEW_APPROVED",
                                      hs[h].decision)
            /\ Emit("resume", hs[h].run)
            /\ UNCHANGED <<reviews, artifacts>>
        BY <1>11, <3>2 DEF ResumeApproved
      <4>4. job' \in JobStates /\ s \in RunStates
        BY <4>2, <4>3, NextStatesTyped
      <4>5. QED
        BY <1>1, <4>1, <4>2, <4>3, <4>4, UpdateEmitOK
    <3>3. QED
      BY <3>1, <3>2
  <2>2. Respond(h) \/ Drain(h)
    BY <1>11 DEF ResumeApproved
  <2>3. QED
    BY <1>5, <2>1, <2>2, RespondOK
<1>12. CASE ResumeRejected(h)
  <2>1. hs[h].run \in 1 .. Len(runs)
    BY <1>2, <1>12 DEF ResumeRejected, At, HandlerRef
  <2>2. PICK s \in RunNextStates(hs[h].status, "RESUME", hs[h].decision) :
          UpdateRun(hs[h].run, hs[h], s, FALSE)
    BY <1>12 DEF ResumeRejected
  <2>3. /\ job' \in JobNextStates(hs[h].job, "REVIEW_REJECTED", hs[h].decision)
        /\ Respond(h)
        /\ UNCHANGED <<outbox, reviews, artifacts>>
    BY <1>12 DEF ResumeRejected
  <2>4. job' \in JobStates /\ s \in RunStates
    BY <2>2, <2>3, NextStatesTyped
  <2>5. RowsOK' /\ Grows
    BY <1>1, <2>1, <2>2, <2>3, <2>4, UpdateRunOK
  <2>6. QED
    BY <1>5, <2>3, <2>5, RespondOK
<1>13. CASE ClaimEvent(h)
  <2>1. hs[h].event \in 1 .. Len(outbox)
    BY <1>2, <1>13 DEF ClaimEvent, At, HandlerRef
  <2>2. RowsOK' /\ Grows
    BY <2>1, <1>1, <1>13, SetStatusOK DEF ClaimEvent
  <2>3. HandlersOK'
    BY <2>1, <2>2, <1>13, GotoOK DEF ClaimEvent
  <2>4. QED
    BY <1>5, <2>2, <2>3
<1>14. CASE Unsend(h) \/ Done(h)
  <2>1. hs[h].event \in 1 .. Len(outbox) /\ hs[h].pc \notin {"idle", "look"}
    BY <1>2, <1>14 DEF Unsend, Done, At, HandlerRef
  <2>2. PICK status \in {"PENDING", "PUBLISHED"} : SetStatus(hs[h].event, status)
    BY <1>14 DEF Unsend, Done
  <2>3. /\ UNCHANGED <<job, runs, touched, reviews, artifacts>>
        /\ hs' = [hs EXCEPT ![h].pc = "batch", ![h].event = 0, ![h].task = 0]
    BY <1>14 DEF Unsend, Done
  <2>4. RowsOK' /\ Grows
    BY <1>1, <2>1, <2>2, <2>3, SetStatusOK
  <2> DEFINE s == [hs[h] EXCEPT !.pc = "batch", !.event = 0, !.task = 0]
  <2>5. s \in HandlerState /\ s.pc = "batch" /\ s.batch = hs[h].batch
    BY <1>2 DEF HandlerState
  <2>6. hs' = [hs EXCEPT ![h] = s]
    BY <1>2, <2>3 DEF HandlerState
  <2> HIDE DEF s
  <2>7. s.batch \subseteq 1 .. Len(outbox')
    BY <1>2, <2>4, <2>5, LengthsGrow DEF HandlerRef
  <2>8. HandlerRef(s, Len(runs'), Len(outbox'), tasks')
    BY <2>5, <2>7 DEF HandlerRef
  <2>9. QED
    BY <1>5, <2>4, <2>5, <2>6, <2>8, HandlerMoves
<1>15. QED
  BY <1>7, <1>8, <1>9, <1>10, <1>11, <1>12, <1>13, <1>14

\* The other steps: the review, the broker, the faults.
LEMMA HandlerSends ==
  ASSUME IInv, NEW h \in Handlers,
         \/ \E v \in DOMAIN reviews, d \in Decisions : Decide(h, v, d)
         \/ Revoke(h) \/ Send(h) \/ Note(h)
         \/ SendFails(h) \/ NoteFails(h) \/ HandlerCrash(h)
  PROVE  IInv'
<1>1. ws' = ws
  BY DEF Decide, Revoke, Send, Note, SendFails, NoteFails, HandlerCrash
<1>2. /\ hs[h] \in HandlerState
      /\ HandlerRef(hs[h], Len(runs), Len(outbox), tasks)
      /\ hs \in [Handlers -> HandlerState]
  BY DEF IInv, HandlersOK
<1>3. ASSUME RowsOK', Grows, HandlersOK'
      PROVE  IInv'
  BY <1>1, <1>3, WorkersStay DEF IInv
<1>4. ASSUME NEW v \in DOMAIN reviews, NEW d \in Decisions, Decide(h, v, d)
      PROVE  IInv'
  <2>1. reviews' \in Seq(ReviewRow)
    <3>1. reviews[v] \in ReviewRow /\ v \in 1 .. Len(reviews)
      BY ElementOfSeq DEF IInv, RowsOK
    <3> DEFINE row == [reviews[v] EXCEPT !.status = "DECIDED"]
    <3>2. row \in ReviewRow
      BY <3>1 DEF ReviewRow
    <3>3. reviews' = [reviews EXCEPT ![v] = row]
      BY <1>4, <3>1 DEF Decide, ReviewRow
    <3> HIDE DEF row
    <3>4. QED
      BY <3>1, <3>2, <3>3, ExceptSeq DEF IInv, RowsOK
  <2>2. RowsOK' /\ Grows
    BY <2>1, <1>4 DEF Decide, IInv, RowsOK, Grows, used
  <2> DEFINE s == [hs[h] EXCEPT !.pc = "decided", !.decision = d]
  <2>3. d \in ReviewDecisions
    BY ChoiceAssumption
  <2>4. s \in HandlerState /\ s.pc = "decided" /\ s.batch = hs[h].batch
    BY <1>2, <2>3 DEF HandlerState
  <2>5. hs' = [hs EXCEPT ![h] = s]
    BY <1>2, <1>4 DEF Decide, HandlerState
  <2> HIDE DEF s
  <2>6. s.batch \subseteq 1 .. Len(outbox')
    BY <1>2, <2>2, <2>4, LengthsGrow DEF HandlerRef
  <2>7. HandlerRef(s, Len(runs'), Len(outbox'), tasks')
    BY <2>4, <2>6 DEF HandlerRef
  <2>8. QED
    BY <1>3, <2>2, <2>4, <2>5, <2>7, HandlerMoves
<1>5. CASE Revoke(h)
  <2>1. hs[h].task \in 1 .. Len(tasks)
    BY <1>2, <1>5 DEF Revoke, At, HandlerRef
  <2>2. tasks[hs[h].task] \in TaskRow
    BY <2>1, ElementOfSeq DEF IInv, RowsOK
  <2> DEFINE row == [tasks[hs[h].task] EXCEPT !.revoked = TRUE]
  <2>3. row \in TaskRow /\ row.event = tasks[hs[h].task].event
    BY <2>2 DEF TaskRow
  <2>4. tasks' = [tasks EXCEPT ![hs[h].task] = row]
    BY <1>5, <2>2 DEF Revoke, TaskRow
  <2>5. UNCHANGED rows /\ UNCHANGED used /\ Respond(h)
    BY <1>5 DEF Revoke
  <2> HIDE DEF row
  <2>6. RowsOK' /\ Grows
    BY <2>1, <2>3, <2>4, <2>5, TaskOK DEF IInv, RowsOK, used
  <2>7. QED
    BY <1>3, <2>5, <2>6, RespondOK
<1>6. CASE Send(h)
  <2>1. hs[h].event \in 1 .. Len(outbox) /\ hs[h].pc = "send"
    BY <1>2, <1>6 DEF Send, At, HandlerRef
  <2> DEFINE row == [event |-> hs[h].event, copies |-> 1, revoked |-> FALSE]
  <2>2. tasks \in Seq(TaskRow) /\ Len(tasks) \in Nat /\ row \in TaskRow
    BY <2>1 DEF IInv, RowsOK, TaskRow
  <2>3. tasks' = Append(tasks, row)
    BY <1>6 DEF Send
  <2>4. /\ tasks' \in Seq(TaskRow) /\ Len(tasks') = Len(tasks) + 1
        /\ \A t \in 1 .. Len(tasks) : tasks'[t] = tasks[t]
        /\ tasks'[Len(tasks) + 1] = row
    BY <2>2, <2>3, AppendProperties
  <2>5. row.event = hs[h].event
    OBVIOUS
  <2> HIDE DEF row
  <2>6. \A t \in 1 .. Len(tasks') : t \in 1 .. Len(tasks) \/ t = Len(tasks) + 1
    BY <2>2, <2>4
  <2>7. /\ runs' = runs /\ outbox' = outbox /\ job' = job
        /\ UNCHANGED <<touched, reviews, artifacts, used>>
    BY <1>6 DEF Send, rows
  <2>8. \A t \in 1 .. Len(tasks') : tasks'[t].event \in 1 .. Len(outbox')
    BY <2>1, <2>4, <2>5, <2>6, <2>7 DEF IInv, RowsOK
  <2>9. \A r \in 1 .. Len(runs') : runs'[r].task \in 0 .. Len(tasks')
    BY <2>2, <2>4, <2>7 DEF IInv, RowsOK
  <2>10. Grows
    BY <2>2, <2>4, <2>7 DEF IInv, RowsOK, Grows
  <2>11. RowsOK'
    BY <2>4, <2>7, <2>8, <2>9 DEF IInv, RowsOK, used
  <2> DEFINE s == [hs[h] EXCEPT !.pc = "note", !.task = Len(tasks) + 1]
  <2>12. /\ s \in HandlerState /\ s.pc = "note" /\ s.batch = hs[h].batch
         /\ s.event = hs[h].event /\ s.task = Len(tasks) + 1
    <3>1. Len(tasks) + 1 \in Nat
      BY <2>2
    <3>2. QED
      BY <1>2, <3>1 DEF HandlerState
  <2>13. hs' = [hs EXCEPT ![h] = s]
    BY <1>2, <1>6 DEF Send, HandlerState
  <2> HIDE DEF s
  <2>14. s.task \in 1 .. Len(tasks') /\ tasks'[s.task].event = s.event
    BY <2>2, <2>4, <2>5, <2>12
  <2>15. s.batch \subseteq 1 .. Len(outbox') /\ s.event \in 1 .. Len(outbox')
    BY <1>2, <2>1, <2>7, <2>12 DEF HandlerRef
  <2>16. HandlerRef(s, Len(runs'), Len(outbox'), tasks')
    BY <2>12, <2>14, <2>15 DEF HandlerRef
  <2>17. QED
    BY <1>3, <2>10, <2>11, <2>12, <2>13, <2>16, HandlerMoves
<1>7. CASE Note(h)
  <2>1. /\ hs[h].event \in 1 .. Len(outbox) /\ hs[h].task \in 1 .. Len(tasks)
        /\ tasks[hs[h].task].event = hs[h].event
    BY <1>2, <1>7 DEF Note, At, HandlerRef
  <2> DEFINE r == outbox[hs[h].event].run
             row == [runs[r] EXCEPT !.task = hs[h].task]
  <2>2. r \in 1 .. Len(runs)
    BY <2>1 DEF IInv, RowsOK
  <2>3. runs[r] \in RunRow
    BY <2>2, ElementOfSeq DEF IInv, RowsOK
  <2>4. row \in RunRow /\ row.task = hs[h].task
    BY <2>1, <2>3 DEF RunRow
  <2>5. runs' = [runs EXCEPT ![r] = row] /\ touched' = r
    BY <1>7, <2>3 DEF Note, RunRow
  <2>6. /\ UNCHANGED <<job, outbox, reviews, artifacts, tasks, used>>
        /\ Goto(h, "done")
    BY <1>7 DEF Note
  <2> HIDE DEF r, row
  <2>7. /\ runs' \in Seq(RunRow) /\ Len(runs') = Len(runs)
        /\ \A q \in 1 .. Len(runs) : runs'[q] = IF q = r THEN row ELSE runs[q]
    BY <2>2, <2>4, <2>5, RunRowUpdate DEF IInv, RowsOK
  <2>8. \A q \in 1 .. Len(runs') : runs'[q].task \in 0 .. Len(tasks)
    <3>1. /\ Len(tasks) \in Nat
          /\ \A q \in 1 .. Len(runs) : runs[q].task \in 0 .. Len(tasks)
      BY DEF IInv, RowsOK
    <3>2. row.task \in 0 .. Len(tasks)
      BY <2>1, <2>4, <3>1
    <3>3. QED
      BY <2>7, <3>1, <3>2
  <2>9. touched' \in 0 .. Len(runs')
    BY <2>2, <2>5, <2>7
  <2>10. Grows
    BY <2>6, <2>7 DEF Grows, IInv, RowsOK
  <2>11. RowsOK'
    BY <2>6, <2>7, <2>8, <2>9 DEF IInv, RowsOK, used
  <2>12. QED
    BY <1>3, <2>1, <2>6, <2>10, <2>11, GotoOK
<1>8. CASE SendFails(h) \/ NoteFails(h)
  <2>1. hs[h].event \in 1 .. Len(outbox)
    BY <1>2, <1>8 DEF SendFails, NoteFails, At, HandlerRef
  <2>2. /\ UNCHANGED <<rows, tasks, crashes, duplicates>>
        /\ failures' = failures + 1
        /\ Goto(h, "unsend")
    BY <1>8 DEF SendFails, NoteFails, Raises
  <2>3. /\ RowsOK
        /\ crashes' \in Nat /\ duplicates' \in Nat /\ failures' \in Nat
    BY <2>2 DEF IInv, RowsOK
  <2>4. RowsOK' /\ Grows
    BY <2>2, <2>3, CountedOK
  <2>5. QED
    BY <1>3, <2>1, <2>2, <2>4, GotoOK
<1>9. CASE HandlerCrash(h)
  <2>1. /\ UNCHANGED <<rows, tasks, duplicates, failures>>
        /\ crashes' = crashes + 1
        /\ Respond(h)
    BY <1>9 DEF HandlerCrash
  <2>2. RowsOK' /\ Grows
    BY <2>1, CountedOK DEF IInv, RowsOK
  <2>3. QED
    BY <1>3, <2>1, <2>2, RespondOK
<1>10. QED
  BY <1>4, <1>5, <1>6, <1>7, <1>8, <1>9

-----------------------------------------------------------------------------
(* The workers                                                             *)

\* Steps that leave the rows of the database alone.
LEMMA WorkerReads ==
  ASSUME IInv, NEW w \in Workers,
         \/ ClaimRead(w) \/ ResumeLoad(w) \/ Begin(w) \/ BeginFails(w)
         \/ FinishRead(w) \/ Announce(w) \/ AnnounceFails(w) \/ FailRead(w)
         \/ Terminate(w)
  PROVE  IInv'
<1>1. /\ hs' = hs /\ UNCHANGED <<rows, tasks, crashes, duplicates>>
      /\ failures' \in Nat /\ ~WAt(w, "idle")
  BY DEF ClaimRead, ResumeLoad, Begin, BeginFails, FinishRead, Announce,
         AnnounceFails, FailRead, Terminate, WAt, Raises, used, IInv, RowsOK
<1>2. RowsOK' /\ Grows
  BY <1>1, CountedOK DEF IInv, RowsOK
<1>3. HandlersOK'
  BY <1>1, <1>2, HandlersStay
<1>4. WorkersOK'
  <2>1. CASE ClaimRead(w)
    BY <2>1, <1>1, <1>2, WLoadOK, AckOK DEF ClaimRead
  <2>2. CASE ResumeLoad(w)
    BY <2>2, <1>1, <1>2, WGotoOK, AckOK DEF ResumeLoad
  <2>3. CASE Begin(w)
    <3>1. runs[RunOf(w)] \in RunRow
      BY <1>1, RunOfOK, ElementOfSeq DEF IInv, RowsOK
    <3>2. PICK c \in {"none", "step", "review"} :
            ws' = [ws EXCEPT ![w].pc = "graph", ![w].from = c]
      BY <2>3, <3>1 DEF Begin, RunRow
    <3> DEFINE s == [ws[w] EXCEPT !.pc = "graph", !.from = c]
    <3>3. s \in WorkerState /\ s.task = ws[w].task
      BY <1>1, RunOfOK DEF WorkerState
    <3>4. ws' = [ws EXCEPT ![w] = s]
      BY <1>1, <3>2, RunOfOK DEF WorkerState, IInv, WorkersOK
    <3> HIDE DEF s
    <3>5. s.task \in 1 .. Len(tasks')
      BY <1>1, <1>2, <3>3, RunOfOK, LengthsGrow
    <3>6. QED
      BY <1>2, <3>3, <3>4, <3>5, WorkerMoves
  <2>4. CASE BeginFails(w)
    BY <2>4, <1>2, AckOK DEF BeginFails
  <2>5. CASE FinishRead(w)
    BY <2>5, <1>1, <1>2, WLoadOK DEF FinishRead
  <2>6. CASE Announce(w)
    BY <2>6, <1>1, <1>2, WGotoOK, AckOK DEF Announce
  <2>7. CASE AnnounceFails(w)
    BY <2>7, <1>1, <1>2, WGotoOK DEF AnnounceFails
  <2>8. CASE FailRead(w)
    BY <2>8, <1>1, <1>2, WLoadOK DEF FailRead
  <2>9. CASE Terminate(w)
    BY <2>9, <1>2, AckOK DEF Terminate
  <2>10. QED
    BY <2>1, <2>2, <2>3, <2>4, <2>5, <2>6, <2>7, <2>8, <2>9
<1>5. QED
  BY <1>2, <1>3, <1>4 DEF IInv

\* Commits of a worker.
LEMMA WorkerWrites ==
  ASSUME IInv, NEW w \in Workers,
         \/ ClaimCommit(w) \/ ClaimDrop(w) \/ SaveCheckpoint(w)
         \/ Publish(w) \/ PublishFails(w) \/ FinishCommit(w)
         \/ CreateReview(w) \/ FailCommit(w)
  PROVE  IInv'
<1>1. /\ hs' = hs /\ tasks' = tasks /\ ~WAt(w, "idle")
      /\ failures' \in Nat /\ UNCHANGED <<crashes, duplicates>>
  <2>1. hs' = hs /\ tasks' = tasks
    BY DEF ClaimCommit, ClaimDrop, SaveCheckpoint, Publish, PublishFails,
           FinishCommit, CreateReview, FailCommit
  <2>2. ~WAt(w, "idle")
    BY DEF ClaimCommit, ClaimDrop, SaveCheckpoint, Publish, PublishFails,
           FinishCommit, CreateReview, FailCommit, WAt
  <2>3. UNCHANGED used \/ Raises("publish")
    BY DEF ClaimCommit, ClaimDrop, SaveCheckpoint, Publish, PublishFails,
           FinishCommit, CreateReview, FailCommit
  <2>4. failures \in Nat
    BY DEF IInv, RowsOK
  <2>5. failures' \in Nat /\ UNCHANGED <<crashes, duplicates>>
    BY <2>3, <2>4 DEF used, Raises
  <2>6. QED
    BY <2>1, <2>2, <2>5
<1>2. /\ RunOf(w) \in 1 .. Len(runs)
      /\ ws[w] \in WorkerState /\ ws[w].slot \in BOOLEAN
      /\ job \in JobStates
  BY <1>1, RunOfOK DEF WorkerState, IInv, RowsOK
<1>3. ASSUME RowsOK', Grows, WorkersOK' PROVE IInv'
  BY <1>1, <1>3, HandlersStay DEF IInv
<1>4. \A outcome : /\ JobResult(outcome) \in JobStates
                   /\ RunResult(outcome) \in RunStates
  BY DEF JobResult, RunResult, JobStates, RunStates
<1>5. CASE ClaimCommit(w)
  <2>1. /\ job' \in JobStates
        /\ UpdateRun(RunOf(w), ws[w], "INSPECTING", ws[w].slot)
        /\ UNCHANGED <<outbox, reviews, artifacts, tasks, used>>
        /\ WGoto(w, "begin")
    BY <1>2, <1>5 DEF ClaimCommit, Store, JobStates
  <2>2. RowsOK' /\ Grows
    BY <1>2, <2>1, UpdateRunOK DEF RunStates
  <2>3. QED
    BY <1>1, <1>3, <2>1, <2>2, WGotoOK
<1>6. CASE ClaimDrop(w)
  <2>1. /\ job' \in JobStates
        /\ UpdateRun(RunOf(w), ws[w], "ERRORED", FALSE)
        /\ UNCHANGED <<outbox, reviews, artifacts, tasks, used>>
        /\ Ack(w)
    BY <1>2, <1>6 DEF ClaimDrop
  <2>2. RowsOK' /\ Grows
    BY <1>2, <2>1, UpdateRunOK DEF RunStates
  <2>3. QED
    BY <1>3, <2>1, <2>2, AckOK
<1>7. CASE SaveCheckpoint(w)
  <2>1. RowsOK' /\ Grows
    BY <1>2, <1>7, CheckpointOK DEF SaveCheckpoint
  <2>2. WorkersOK'
    BY <1>7, <2>1, WorkersStay DEF SaveCheckpoint
  <2>3. QED
    BY <1>3, <2>1, <2>2
<1>8. CASE Publish(w) \/ PublishFails(w)
  <2>a. artifacts' = artifacts \cup {RunOf(w)} /\ artifacts \subseteq Nat
    BY <1>8 DEF Publish, PublishFails, IInv, RowsOK
  <2>b. RunOf(w) \in Nat
    BY <1>2
  <2>c. artifacts' \subseteq Nat
    BY <2>a, <2>b
  <2>1. /\ artifacts' \subseteq Nat
        /\ UNCHANGED <<job, runs, touched, outbox, reviews>>
    BY <2>c, <1>8 DEF Publish, PublishFails
  <2>2. RowsOK' /\ Grows
    BY <1>1, <2>1 DEF IInv, RowsOK, Grows
  <2>3. WGoto(w, "finread") \/ WGoto(w, "failread")
    BY <1>8 DEF Publish, PublishFails
  <2>4. QED
    BY <1>1, <1>3, <2>2, <2>3, WGotoOK
<1>9. CASE FinishCommit(w)
  <2>1. PICK status \in RunStates : UpdateRun(RunOf(w), ws[w], status, FALSE)
    BY <1>4, <1>9 DEF FinishCommit, RunStates
  <2>2. /\ job' \in JobStates
        /\ UNCHANGED <<outbox, reviews, artifacts, tasks, used>>
    BY <1>2, <1>4, <1>9 DEF FinishCommit, Store
  <2>3. RowsOK' /\ Grows
    BY <1>2, <2>1, <2>2, UpdateRunOK
  <2>4. Ack(w) \/ WGoto(w, "announce")
    BY <1>9 DEF FinishCommit
  <2>5. QED
    BY <1>1, <1>3, <2>3, <2>4, WGotoOK, AckOK
<1>10. CASE CreateReview(w)
  <2> DEFINE row == [run |-> RunOf(w), status |-> "PENDING"]
  <2>1. row \in ReviewRow
    BY <1>2 DEF ReviewRow
  <2>2. reviews' = Append(reviews, row)
    BY <1>10 DEF CreateReview
  <2>3. reviews' \in Seq(ReviewRow)
    BY <2>1, <2>2, AppendProperties DEF IInv, RowsOK
  <2>4. RowsOK' /\ Grows
    BY <2>3, <1>10 DEF CreateReview, IInv, RowsOK, Grows, used
  <2>5. QED
    BY <1>3, <1>10, <2>4, AckOK DEF CreateReview
<1>11. CASE FailCommit(w)
  <2>1. /\ job' \in JobStates
        /\ UpdateRun(RunOf(w), ws[w], "ERRORED", FALSE)
        /\ UNCHANGED <<outbox, reviews, artifacts, tasks, used>>
        /\ Ack(w)
    BY <1>2, <1>11 DEF FailCommit, Store, JobStates
  <2>2. RowsOK' /\ Grows
    BY <1>2, <2>1, UpdateRunOK DEF RunStates
  <2>3. QED
    BY <1>3, <2>1, <2>2, AckOK
<1>12. QED
  BY <1>5, <1>6, <1>7, <1>8, <1>9, <1>10, <1>11

\* Tasks taken and given back, and the end of a graph.
LEMMA WorkerTakes ==
  ASSUME IInv, NEW w \in Workers,
         \/ \E t \in DOMAIN tasks : Take(w, t)
         \/ \E o \in Outcomes \cup {"RAISED"} : GraphEnds(w, o)
         \/ WorkerCrash(w)
  PROVE  IInv'
<1>1. hs' = hs
  BY DEF Take, GraphEnds, WorkerCrash
<1>2. ASSUME RowsOK', Grows, WorkersOK' PROVE IInv'
  BY <1>1, <1>2, HandlersStay DEF IInv
<1>3. ASSUME NEW t \in DOMAIN tasks, Take(w, t) PROVE IInv'
  <2>1. t \in 1 .. Len(tasks) /\ tasks[t] \in TaskRow /\ tasks[t].copies > 0
    BY <1>3, ElementOfSeq DEF Take, IInv, RowsOK
  <2> DEFINE row == [tasks[t] EXCEPT !.copies = @ - 1]
  <2>2. row \in TaskRow /\ row.event = tasks[t].event
    BY <2>1 DEF TaskRow
  <2>3. tasks' = [tasks EXCEPT ![t] = row] /\ UNCHANGED rows /\ UNCHANGED used
    BY <1>3, <2>1 DEF Take, TaskRow
  <2> HIDE DEF row
  <2>4. RowsOK' /\ Grows
    BY <2>1, <2>2, <2>3, TaskOK DEF IInv, RowsOK, used
  <2>5. PICK pc \in {"load", "read"} :
          ws' = [ws EXCEPT ![w].task = t, ![w].pc = pc]
    BY <1>3 DEF Take
  <2> DEFINE s == [ws[w] EXCEPT !.task = t, !.pc = pc]
  <2>6. ws[w] \in WorkerState /\ ws \in [Workers -> WorkerState] /\ t \in Nat
    BY <2>1 DEF IInv, WorkersOK
  <2>7. s \in WorkerState /\ s.task = t
    BY <2>6 DEF WorkerState
  <2>8. ws' = [ws EXCEPT ![w] = s]
    BY <2>5, <2>6 DEF WorkerState
  <2> HIDE DEF s
  <2>9. s.task \in 1 .. Len(tasks')
    BY <2>1, <2>4, <2>7, LengthsGrow
  <2>10. QED
    BY <1>2, <2>4, <2>7, <2>8, <2>9, WorkerMoves
<1>4. ASSUME NEW o \in Outcomes \cup {"RAISED"}, GraphEnds(w, o) PROVE IInv'
  <2>1. ~WAt(w, "idle") /\ tasks' = tasks
    BY <1>4 DEF GraphEnds, WAt
  <2>2. RowsOK' /\ Grows
    <3>1. CASE o = "RAISED"
      BY <3>1, <1>4, RowsSame DEF GraphEnds, rows
    <3>2. CASE o # "RAISED"
      <4>1. PICK c \in {"step", "review"} :
              runs' = [runs EXCEPT ![RunOf(w)].ckpt = c] /\ touched' = RunOf(w)
        BY <3>2, <1>4 DEF GraphEnds
      <4>2. QED
        BY <4>1, <1>4, <2>1, RunOfOK, CheckpointOK DEF GraphEnds
    <3>3. QED
      BY <3>1, <3>2
  <2>3. PICK pc \in {"failread", "publish", "finread"} :
          ws' = [ws EXCEPT ![w].outcome = o, ![w].pc = pc]
    BY <1>4 DEF GraphEnds
  <2> DEFINE s == [ws[w] EXCEPT !.outcome = o, !.pc = pc]
  <2>4. o \in {"SUCCEEDED", "NEEDS_REVIEW", "FAILED", "RAISED"}
    BY ChoiceAssumption
  <2>5. s \in WorkerState /\ s.task = ws[w].task
    BY <2>1, <2>4, RunOfOK DEF WorkerState
  <2>6. ws' = [ws EXCEPT ![w] = s]
    BY <2>1, <2>3, RunOfOK DEF WorkerState, IInv, WorkersOK
  <2> HIDE DEF s
  <2>7. s.task \in 1 .. Len(tasks')
    BY <2>1, <2>2, <2>5, RunOfOK, LengthsGrow
  <2>8. QED
    BY <1>2, <2>2, <2>5, <2>6, <2>7, WorkerMoves
<1>5. CASE WorkerCrash(w)
  <2> DEFINE t == ws[w].task
             row == [tasks[t] EXCEPT !.copies = @ + 1]
  <2>1. t \in 1 .. Len(tasks) /\ tasks[t] \in TaskRow
    BY <1>5, RunOfOK, ElementOfSeq DEF WorkerCrash, IInv, RowsOK
  <2>2. row \in TaskRow /\ row.event = tasks[t].event
    BY <2>1 DEF TaskRow
  <2>3. /\ tasks' = [tasks EXCEPT ![t] = row] /\ UNCHANGED rows
        /\ UNCHANGED <<duplicates, failures>> /\ crashes' = crashes + 1
        /\ Ack(w)
    BY <1>5, <2>1 DEF WorkerCrash, TaskRow
  <2> HIDE DEF t, row
  <2>c. crashes' \in Nat /\ duplicates' \in Nat /\ failures' \in Nat
    BY <2>3 DEF IInv, RowsOK
  <2>4. RowsOK' /\ Grows
    BY <2>1, <2>2, <2>3, <2>c, TaskOK
  <2>5. QED
    BY <1>2, <2>3, <2>4, AckOK
<1>6. QED
  BY <1>3, <1>4, <1>5

LEMMA RedeliverOK ==
  ASSUME IInv, NEW t \in DOMAIN tasks, Redeliver(t)
  PROVE  IInv'
<1>1. t \in 1 .. Len(tasks) /\ tasks[t] \in TaskRow
  BY ElementOfSeq DEF IInv, RowsOK
<1> DEFINE row == [tasks[t] EXCEPT !.copies = 1]
<1>2. row \in TaskRow /\ row.event = tasks[t].event
  BY <1>1 DEF TaskRow
<1>3. /\ tasks' = [tasks EXCEPT ![t] = row]
      /\ UNCHANGED rows /\ UNCHANGED <<crashes, failures>>
      /\ duplicates' = duplicates + 1
      /\ hs' = hs /\ ws' = ws
  BY <1>1 DEF Redeliver, TaskRow
<1> HIDE DEF row
<1>c. crashes' \in Nat /\ duplicates' \in Nat /\ failures' \in Nat
  BY <1>3 DEF IInv, RowsOK
<1>4. RowsOK' /\ Grows
  BY <1>1, <1>2, <1>3, <1>c, TaskOK
<1>5. QED
  BY <1>3, <1>4, HandlersStay, WorkersStay DEF IInv

-----------------------------------------------------------------------------
(* Theorems                                                                *)

\* No reference is held at the beginning.
THEOREM Initial == Init => IInv
<1> SUFFICES ASSUME Init PROVE IInv
  OBVIOUS
<1>1. RowsOK
  BY DEF Init, RowsOK, JobStates
<1>2. IdleHandler \in HandlerState
  BY DEF IdleHandler, HandlerState, JobStates, RunStates, ReviewDecisions
<1>3. IdleHandler.pc = "idle" /\ IdleHandler.batch = {} /\ IdleHandler.run = 0
  BY DEF IdleHandler
<1>4. HandlersOK
  BY <1>2, <1>3 DEF Init, HandlersOK, HandlerRef
<1>5. IdleWorker \in WorkerState /\ IdleWorker.pc = "idle"
  BY DEF IdleWorker, WorkerState, JobStates, RunStates
<1>6. WorkersOK
  BY <1>5 DEF Init, WorkersOK
<1>7. QED
  BY <1>1, <1>4, <1>6 DEF IInv

\* Every step of a client, a handler, a worker or the broker keeps references
\* valid.
THEOREM Inductive == IInv /\ [Next]_vars => IInv'
<1> SUFFICES ASSUME IInv, [Next]_vars PROVE IInv'
  OBVIOUS
<1>1. CASE UNCHANGED vars
  <2>1. UNCHANGED <<rows, tasks, used>> /\ hs' = hs /\ ws' = ws
    BY <1>1 DEF vars, rows, used
  <2>2. RowsOK' /\ Grows
    BY <2>1, RowsSame
  <2>3. QED
    BY <2>1, <2>2, HandlersStay, WorkersStay DEF IInv
<1>2. ASSUME NEW h \in Handlers,
             Request(h) \/ HandlerStep(h) \/ HandlerFault(h)
      PROVE  IInv'
  BY <1>2, HandlerReads, HandlerWrites, HandlerSends
     DEF Request, HandlerStep, HandlerFault
<1>3. ASSUME NEW w \in Workers,
             WorkerStep(w) \/ SaveCheckpoint(w) \/ WorkerFault(w)
      PROVE  IInv'
  BY <1>3, WorkerReads, WorkerWrites, WorkerTakes DEF WorkerStep, WorkerFault
<1>4. QED
  BY <1>1, <1>2, <1>3, RedeliverOK DEF Next

\* What the theorems about types, events and workers stand on: every
\* reference that a row or a process holds is valid in every reachable state.
THEOREM RefsCorrect == Spec => []IInv
BY Initial, Inductive, PTL DEF Spec

\* Every row and every process state has its type, whatever the number of
\* handlers and workers and whatever fails: in particular every row a process
\* reads through a reference exists.
THEOREM TypeCorrect == Spec => []TypeOK
<1>1. IInv => TypeOK
  BY DEF IInv, RowsOK, HandlersOK, WorkersOK, TypeOK
<1>2. QED
  BY <1>1, RefsCorrect, PTL

-----------------------------------------------------------------------------
(* The transactional outbox: however starts race one run is created by     *)
(* them, no run exists without the event that asks for it, and no event is *)
(* marked PUBLISHED before the broker has its task.                        *)

\* The rows of the outbox that a start left exist only once the job has left
\* CREATED, to which it never returns: that is why a second start finds no row
\* to update.
StartedJob ==
  /\ \A e \in DOMAIN outbox : outbox[e].kind = "start" => job # "CREATED"
  /\ StartOnce

-----------------------------------------------------------------------------
(* What one step can do to the job, the broker's messages and the outbox   *)

JobNeverBack == job' = "CREATED" => job = "CREATED"

TasksKept ==
  /\ DOMAIN tasks \subseteq DOMAIN tasks'
  /\ \A t \in DOMAIN tasks : tasks'[t].event = tasks[t].event

NoEvent == outbox' = outbox /\ DOMAIN runs' = DOMAIN runs

EventOfRun ==
  \E kind \in {"retry", "resume"}, r \in DOMAIN runs :
    Emit(kind, r) /\ DOMAIN runs' = DOMAIN runs

EventOfNewRun ==
  \E kind \in {"start", "rerun"} :
    /\ CreateRun(kind)
    /\ kind = "start" => job = "CREATED" /\ job' # "CREATED"

EventPublished ==
  \E e \in DOMAIN outbox, status \in {"PENDING", "PUBLISHING", "PUBLISHED"} :
    /\ SetStatus(e, status) /\ DOMAIN runs' = DOMAIN runs
    /\ status = "PUBLISHED" => \E t \in DOMAIN tasks : tasks[t].event = e

EventStep == NoEvent \/ EventOfRun \/ EventOfNewRun \/ EventPublished

\* Only the broker and a handler that sends touch the messages.
LEMMA TaskStep ==
  ASSUME IInv, NEW t \in DOMAIN tasks, NEW row \in TaskRow,
         row.event = tasks[t].event,
         tasks' = [tasks EXCEPT ![t] = row]
  PROVE  TasksKept
BY DEF TasksKept

LEMMA HandlerEvents ==
  ASSUME IInv, NEW h \in Handlers,
         Request(h) \/ HandlerStep(h) \/ HandlerFault(h)
  PROVE  EventStep /\ JobNeverBack /\ TasksKept
<1>1. CASE UNCHANGED <<rows, tasks>>
  BY <1>1 DEF rows, EventStep, NoEvent, JobNeverBack, TasksKept
<1>2. /\ HandlerRef(hs[h], Len(runs), Len(outbox), tasks)
      /\ runs \in Seq(RunRow) /\ outbox \in Seq(EventRow)
      /\ tasks \in Seq(TaskRow)
      /\ DOMAIN runs = 1 .. Len(runs) /\ DOMAIN outbox = 1 .. Len(outbox)
      /\ DOMAIN tasks = 1 .. Len(tasks)
  BY DEF IInv, RowsOK, HandlersOK
<1>3. ASSUME UNCHANGED tasks PROVE TasksKept
  BY <1>3 DEF TasksKept
<1>4. CASE StartCommit(h) /\ ~UNCHANGED rows
  BY <1>3, <1>4
     DEF StartCommit, Startable, JobNeverBack, EventStep, EventOfNewRun
<1>5. CASE RetryCommit(h) /\ ~UNCHANGED rows
  <2>1. hs[h].run \in DOMAIN runs
    BY <1>2, <1>5 DEF RetryCommit, At, HandlerRef
  <2>2. Emit("retry", hs[h].run) /\ DOMAIN runs' = DOMAIN runs
    BY <1>2, <1>5 DEF RetryCommit, UpdateRun
  <2>3. QED
    BY <1>3, <1>5, <2>1, <2>2
       DEF RetryCommit, Store, JobNeverBack, EventStep, EventOfRun
<1>6. CASE RerunCommit(h) /\ ~UNCHANGED rows
  BY <1>3, <1>6
     DEF RerunCommit, Store, JobNeverBack, EventStep, EventOfNewRun
<1>7. CASE CancelCommit(h)
  BY <1>2, <1>3, <1>7
     DEF CancelCommit, UpdateRun, JobNeverBack, EventStep, NoEvent
<1>8. CASE ResumeApproved(h) /\ ~UNCHANGED rows
  <2>1. hs[h].run \in DOMAIN runs
    BY <1>2, <1>8 DEF ResumeApproved, At, HandlerRef
  <2>2. Emit("resume", hs[h].run) /\ DOMAIN runs' = DOMAIN runs
    BY <1>2, <1>8 DEF ResumeApproved, UpdateRun
  <2>3. job' # "CREATED"
    BY <1>8, NextStatesTyped DEF ResumeApproved
  <2>4. QED
    BY <1>3, <1>8, <2>1, <2>2, <2>3
       DEF ResumeApproved, JobNeverBack, EventStep, EventOfRun
<1>9. CASE ResumeRejected(h)
  <2>1. job' # "CREATED"
    BY <1>9, NextStatesTyped DEF ResumeRejected
  <2>2. QED
    BY <1>2, <1>3, <1>9, <2>1
       DEF ResumeRejected, UpdateRun, JobNeverBack, EventStep, NoEvent
<1>10. CASE ClaimEvent(h) \/ Unsend(h) \/ Done(h)
  <2>1. hs[h].event \in DOMAIN outbox
    BY <1>2, <1>10 DEF ClaimEvent, Unsend, Done, At, HandlerRef
  <2>2. Done(h) => \E t \in DOMAIN tasks : tasks[t].event = hs[h].event
    BY <1>2 DEF Done, At, HandlerRef
  <2>3. /\ UNCHANGED <<job, runs, tasks>>
        /\ \/ SetStatus(hs[h].event, "PUBLISHING")
           \/ SetStatus(hs[h].event, "PENDING")
           \/ Done(h) /\ SetStatus(hs[h].event, "PUBLISHED")
    BY <1>10 DEF ClaimEvent, Unsend, Done
  <2>4. EventPublished
    BY <2>1, <2>2, <2>3 DEF EventPublished
  <2>5. QED
    BY <1>3, <2>3, <2>4 DEF JobNeverBack, EventStep
<1>11. CASE Note(h) \/ \E v \in DOMAIN reviews, d \in Decisions : Decide(h, v, d)
  BY <1>2, <1>3, <1>11 DEF Note, Decide, JobNeverBack, EventStep, NoEvent
<1>12. CASE Revoke(h)
  <2>1. hs[h].task \in DOMAIN tasks
    BY <1>2, <1>12 DEF Revoke, At, HandlerRef
  <2> DEFINE row == [tasks[hs[h].task] EXCEPT !.revoked = TRUE]
  <2>2. row \in TaskRow /\ row.event = tasks[hs[h].task].event
    <3>1. tasks[hs[h].task] \in TaskRow
      BY <1>2, <2>1, ElementOfSeq
    <3>2. QED
      BY <3>1 DEF TaskRow
  <2>3. tasks' = [tasks EXCEPT ![hs[h].task] = row] /\ UNCHANGED rows
    BY <1>12 DEF Revoke
  <2> HIDE DEF row
  <2>4. QED
    BY <2>1, <2>2, <2>3, TaskStep DEF rows, JobNeverBack, EventStep, NoEvent
<1>13. CASE Send(h)
  <2> DEFINE row == [event |-> hs[h].event, copies |-> 1, revoked |-> FALSE]
  <2>1. hs[h].event \in Nat
    BY <1>2, <1>13 DEF Send, At, HandlerRef
  <2>2. row \in TaskRow
    BY <2>1 DEF TaskRow
  <2>3. tasks' = Append(tasks, row) /\ UNCHANGED rows
    BY <1>13 DEF Send
  <2> HIDE DEF row
  <2>4. TasksKept
    BY <1>2, <2>2, <2>3, AppendProperties DEF TasksKept
  <2>5. QED
    BY <2>3, <2>4 DEF rows, JobNeverBack, EventStep, NoEvent
<1>14. \/ UNCHANGED <<rows, tasks>>
       \/ StartCommit(h) /\ ~UNCHANGED rows
       \/ RetryCommit(h) /\ ~UNCHANGED rows
       \/ RerunCommit(h) /\ ~UNCHANGED rows
       \/ CancelCommit(h)
       \/ ResumeApproved(h) /\ ~UNCHANGED rows
       \/ ResumeRejected(h)
       \/ ClaimEvent(h) \/ Unsend(h) \/ Done(h)
       \/ Note(h) \/ \E v \in DOMAIN reviews, d \in Decisions : Decide(h, v, d)
       \/ Revoke(h) \/ Send(h)
  <2>1. CASE Request(h)
    BY <2>1 DEF Request, StartRead, RetryRead, RerunRead, Replay, CancelLook
  <2>2. CASE HandlerFault(h)
    BY <2>2 DEF HandlerFault, SendFails, NoteFails, HandlerCrash
  <2>3. CASE HandlerStep(h)
    <3>1. ASSUME StartCommit(h) \/ RetryCommit(h) \/ RerunCommit(h)
                 \/ ResumeApproved(h)
          PROVE  UNCHANGED tasks
      BY <3>1 DEF StartCommit, RetryCommit, RerunCommit, ResumeApproved
    <3>2. ASSUME CancelRead(h) \/ ResumeRead(h) \/ DrainScan(h)
                 \/ BatchEnd(h) \/ BatchNext(h)
          PROVE  UNCHANGED <<rows, tasks>>
      BY <3>2 DEF CancelRead, ResumeRead, DrainScan, BatchEnd, BatchNext
    <3>3. QED
      BY <2>3, <3>1, <3>2 DEF HandlerStep
  <2>4. QED
    BY <2>1, <2>2, <2>3
<1>15. QED
  BY <1>1, <1>4, <1>5, <1>6, <1>7, <1>8, <1>9, <1>10, <1>11, <1>12, <1>13,
     <1>14

LEMMA WorkerEvents ==
  ASSUME IInv, NEW w \in Workers,
         WorkerStep(w) \/ SaveCheckpoint(w) \/ WorkerFault(w)
  PROVE  EventStep /\ JobNeverBack /\ TasksKept
<1>1. CASE UNCHANGED <<rows, tasks>>
  BY <1>1 DEF rows, EventStep, NoEvent, JobNeverBack, TasksKept
<1>2. runs \in Seq(RunRow) /\ tasks \in Seq(TaskRow)
  BY DEF IInv, RowsOK
<1>3. ASSUME UNCHANGED tasks PROVE TasksKept
  BY <1>3 DEF TasksKept
<1>4. CASE ClaimCommit(w) \/ ClaimDrop(w) \/ FailCommit(w)
  BY <1>2, <1>3, <1>4
     DEF ClaimCommit, ClaimDrop, FailCommit, UpdateRun, Store, JobNeverBack,
         EventStep, NoEvent
<1>5. CASE FinishCommit(w)
  <2>1. \A outcome : JobResult(outcome) # "CREATED"
    BY DEF JobResult
  <2>2. DOMAIN runs' = DOMAIN runs
    BY <1>2, <1>5 DEF FinishCommit, UpdateRun
  <2>3. JobNeverBack
    BY <1>5, <2>1 DEF FinishCommit, Store, JobNeverBack
  <2>4. QED
    BY <1>3, <1>5, <2>2, <2>3 DEF FinishCommit, EventStep, NoEvent
<1>6. CASE \/ SaveCheckpoint(w)
           \/ \E o \in Outcomes \cup {"RAISED"} : GraphEnds(w, o)
  BY <1>2, <1>3, <1>6
     DEF SaveCheckpoint, GraphEnds, JobNeverBack, EventStep, NoEvent
<1>7. CASE Publish(w) \/ PublishFails(w) \/ CreateReview(w)
  BY <1>3, <1>7 DEF Publish, PublishFails, CreateReview, JobNeverBack,
                    EventStep, NoEvent
<1>8. ASSUME NEW t \in DOMAIN tasks, NEW c \in Nat,
             tasks' = [tasks EXCEPT ![t].copies = c], UNCHANGED rows
      PROVE  EventStep /\ JobNeverBack /\ TasksKept
  <2> DEFINE row == [tasks[t] EXCEPT !.copies = c]
  <2>1. tasks[t] \in TaskRow
    BY <1>2, ElementOfSeq
  <2>2. row \in TaskRow /\ row.event = tasks[t].event
    BY <2>1 DEF TaskRow
  <2>3. tasks' = [tasks EXCEPT ![t] = row]
    BY <1>8
  <2> HIDE DEF row
  <2>4. QED
    BY <1>8, <2>2, <2>3, TaskStep DEF rows, JobNeverBack, EventStep, NoEvent
<1>9. CASE \E t \in DOMAIN tasks : Take(w, t)
  <2>1. PICK t \in DOMAIN tasks : Take(w, t)
    BY <1>9
  <2>2. tasks[t] \in TaskRow /\ tasks[t].copies > 0
    BY <1>2, <2>1, ElementOfSeq DEF Take
  <2>3. tasks[t].copies - 1 \in Nat
    BY <2>2 DEF TaskRow
  <2>4. /\ tasks' = [tasks EXCEPT ![t].copies = tasks[t].copies - 1]
        /\ UNCHANGED rows
    BY <2>1 DEF Take
  <2>5. QED
    BY <1>8, <2>3, <2>4
<1>10. CASE WorkerCrash(w)
  <2> DEFINE t == ws[w].task
  <2>1. t \in DOMAIN tasks
    BY <1>2, <1>10, RunOfOK DEF WorkerCrash
  <2>2. tasks[t] \in TaskRow
    BY <1>2, <2>1, ElementOfSeq
  <2>3. tasks[t].copies + 1 \in Nat
    BY <2>2 DEF TaskRow
  <2>4. /\ tasks' = [tasks EXCEPT ![t].copies = tasks[t].copies + 1]
        /\ UNCHANGED rows
    BY <1>10 DEF WorkerCrash
  <2>5. QED
    BY <1>8, <2>1, <2>3, <2>4
<1>11. ASSUME \/ ClaimRead(w) \/ ResumeLoad(w) \/ Begin(w) \/ FinishRead(w)
              \/ Announce(w) \/ FailRead(w) \/ BeginFails(w)
              \/ AnnounceFails(w) \/ Terminate(w)
       PROVE  UNCHANGED <<rows, tasks>>
  BY <1>11 DEF ClaimRead, ResumeLoad, Begin, FinishRead, Announce, FailRead,
               BeginFails, AnnounceFails, Terminate
<1>12. QED
  BY <1>1, <1>4, <1>5, <1>6, <1>7, <1>9, <1>10, <1>11
     DEF WorkerStep, WorkerFault

\* A step adds at most one event, always with or for a run that exists, and
\* only says PUBLISHED of an event whose task was sent.
LEMMA EveryStep ==
  ASSUME IInv, [Next]_vars
  PROVE  EventStep /\ JobNeverBack /\ TasksKept
<1>1. CASE UNCHANGED vars
  BY <1>1 DEF vars, EventStep, NoEvent, JobNeverBack, TasksKept
<1>2. CASE \E t \in DOMAIN tasks : Redeliver(t)
  <2>1. PICK t \in DOMAIN tasks : Redeliver(t)
    BY <1>2
  <2> DEFINE row == [tasks[t] EXCEPT !.copies = 1]
  <2>2. tasks[t] \in TaskRow
    BY ElementOfSeq DEF IInv, RowsOK
  <2>3. row \in TaskRow /\ row.event = tasks[t].event
    BY <2>2 DEF TaskRow
  <2>4. tasks' = [tasks EXCEPT ![t] = row] /\ UNCHANGED rows
    BY <2>1 DEF Redeliver
  <2> HIDE DEF row
  <2>5. QED
    BY <2>3, <2>4, TaskStep DEF rows, JobNeverBack, EventStep, NoEvent
<1>3. QED
  BY <1>1, <1>2, HandlerEvents, WorkerEvents DEF Next

-----------------------------------------------------------------------------
(* Theorems                                                                *)

\* The three shapes an outbox can take in a step, in terms of its rows.
LEMMA OutboxGrows ==
  ASSUME IInv, IInv', EventStep
  PROVE  /\ DOMAIN outbox \subseteq DOMAIN outbox'
         /\ \A e \in DOMAIN outbox :
              /\ outbox'[e].run = outbox[e].run
              /\ outbox'[e].kind = outbox[e].kind
              /\ \/ outbox'[e].status # "PUBLISHED"
                 \/ outbox[e].status = "PUBLISHED"
                 \/ \E t \in DOMAIN tasks : tasks[t].event = e
         /\ \A e \in DOMAIN outbox' \ DOMAIN outbox :
              /\ outbox'[e].status = "PENDING"
              /\ e = Len(outbox) + 1
              /\ outbox'[e].kind = "start" =>
                   job = "CREATED" /\ job' # "CREATED"
         /\ \/ DOMAIN runs' = DOMAIN runs
            \/ /\ DOMAIN runs' = DOMAIN runs \cup {Len(runs) + 1}
               /\ \E e \in DOMAIN outbox' : outbox'[e].run = Len(runs) + 1
<1>1. /\ outbox \in Seq(EventRow) /\ runs \in Seq(RunRow)
      /\ Len(runs) \in Nat /\ Len(outbox) \in Nat
      /\ DOMAIN runs = 1 .. Len(runs) /\ DOMAIN outbox = 1 .. Len(outbox)
  BY DEF IInv, RowsOK
<1>2. CASE NoEvent
  BY <1>2 DEF NoEvent
<1>3. CASE EventOfRun
  <2>1. PICK kind \in {"retry", "resume"}, r \in DOMAIN runs :
          Emit(kind, r) /\ DOMAIN runs' = DOMAIN runs
    BY <1>3 DEF EventOfRun
  <2>2. r \in Nat
    BY <1>1
  <2>3. /\ outbox' \in Seq(EventRow)
        /\ Len(outbox') = Len(outbox) + 1
        /\ \A e \in 1 .. Len(outbox) : outbox'[e] = outbox[e]
        /\ outbox'[Len(outbox) + 1].kind = kind
        /\ outbox'[Len(outbox) + 1].status = "PENDING"
    BY <1>1, <2>1, <2>2, EmitRow
  <2>4. DOMAIN outbox' = DOMAIN outbox \cup {Len(outbox) + 1}
    BY <1>1, <2>3
  <2>5. QED
    BY <1>1, <2>1, <2>3, <2>4
<1>4. CASE EventOfNewRun
  <2>1. PICK kind \in {"start", "rerun"} :
          /\ CreateRun(kind)
          /\ kind = "start" => job = "CREATED" /\ job' # "CREATED"
    BY <1>4 DEF EventOfNewRun
  <2>2. /\ runs' \in Seq(RunRow) /\ Len(runs') = Len(runs) + 1
        /\ Emit(kind, Len(runs) + 1)
    BY <1>1, <2>1, CreateRunRow
  <2>3. /\ outbox' \in Seq(EventRow)
        /\ Len(outbox') = Len(outbox) + 1
        /\ \A e \in 1 .. Len(outbox) : outbox'[e] = outbox[e]
        /\ outbox'[Len(outbox) + 1].run = Len(runs) + 1
        /\ outbox'[Len(outbox) + 1].kind = kind
        /\ outbox'[Len(outbox) + 1].status = "PENDING"
    BY <1>1, <2>2, EmitRow
  <2>4. /\ DOMAIN outbox' = DOMAIN outbox \cup {Len(outbox) + 1}
        /\ DOMAIN runs' = DOMAIN runs \cup {Len(runs) + 1}
    BY <1>1, <2>2, <2>3
  <2>5. QED
    BY <1>1, <2>1, <2>3, <2>4
<1>5. CASE EventPublished
  <2>1. PICK e \in DOMAIN outbox,
             status \in {"PENDING", "PUBLISHING", "PUBLISHED"} :
          /\ SetStatus(e, status) /\ DOMAIN runs' = DOMAIN runs
          /\ status = "PUBLISHED" => \E t \in DOMAIN tasks : tasks[t].event = e
    BY <1>5 DEF EventPublished
  <2>2. /\ outbox' \in Seq(EventRow)
        /\ Len(outbox') = Len(outbox)
        /\ \A d \in 1 .. Len(outbox) :
             /\ outbox'[d].run = outbox[d].run
             /\ outbox'[d].kind = outbox[d].kind
             /\ outbox'[d].status = IF d = e THEN status ELSE outbox[d].status
    BY <1>1, <2>1, SetStatusRow
  <2>3. DOMAIN outbox' = DOMAIN outbox
    BY <1>1, <2>2
  <2>4. QED
    BY <1>1, <2>1, <2>2, <2>3
<1>6. QED
  BY <1>2, <1>3, <1>4, <1>5 DEF EventStep

\* start_job: of any number of simultaneous starts, with retries, reruns,
\* cancellations and crashes in between, one creates a run; the others find
\* that the job has left CREATED for good.
THEOREM StartedOnce == Spec => []StartOnce
<1>1. Init => StartedJob
  BY DEF Init, StartedJob, StartOnce
<1>2. IInv /\ IInv' /\ StartedJob /\ [Next]_vars => StartedJob'
  <2> SUFFICES ASSUME IInv, IInv', StartedJob, [Next]_vars PROVE StartedJob'
    OBVIOUS
  <2>1. EventStep /\ JobNeverBack
    BY EveryStep
  <2>2. /\ \A e \in DOMAIN outbox : outbox'[e].kind = outbox[e].kind
        /\ \A e \in DOMAIN outbox' \ DOMAIN outbox :
             /\ e = Len(outbox) + 1
             /\ outbox'[e].kind = "start" =>
                  job = "CREATED" /\ job' # "CREATED"
    BY <2>1, OutboxGrows
  <2>3. ASSUME NEW e \in DOMAIN outbox', outbox'[e].kind = "start"
        PROVE  job' # "CREATED"
    BY <2>1, <2>2, <2>3 DEF StartedJob, JobNeverBack
  <2>4. ASSUME NEW d \in DOMAIN outbox', NEW e \in DOMAIN outbox',
               outbox'[d].kind = "start", outbox'[e].kind = "start"
        PROVE  d = e
    BY <2>2, <2>4 DEF StartedJob, StartOnce
  <2>5. QED
    BY <2>3, <2>4 DEF StartedJob, StartOnce
<1>3. StartedJob => StartOnce
  BY DEF StartedJob
<1>4. QED
  BY <1>1, <1>2, <1>3, RefsCorrect, PTL DEF Spec

\* The outbox pattern of ADR 0001: a run and the event that asks for it are
\* committed together, a message at the broker is always about a committed run,
\* and an event is PUBLISHED only if its message was sent, whatever raises,
\* crashes or is redelivered.
THEOREM HandedOff == Spec => []HandOff
<1>1. Init => HandOff
  BY DEF Init, HandOff
<1>2. IInv /\ IInv' /\ HandOff /\ [Next]_vars => HandOff'
  <2> SUFFICES ASSUME IInv, IInv', HandOff, [Next]_vars PROVE HandOff'
    OBVIOUS
  <2>1. EventStep /\ TasksKept
    BY EveryStep
  <2>2. ASSUME NEW r \in DOMAIN runs'
        PROVE  \E e \in DOMAIN outbox' : outbox'[e].run = r
    BY <2>1, OutboxGrows DEF HandOff
  <2>3. ASSUME NEW e \in DOMAIN outbox', outbox'[e].status = "PUBLISHED"
        PROVE  \E t \in DOMAIN tasks' : tasks'[t].event = e
    <3>1. e \in DOMAIN outbox
      BY <2>1, <2>3, OutboxGrows
    <3>2. \E t \in DOMAIN tasks : tasks[t].event = e
      BY <2>1, <2>3, <3>1, OutboxGrows DEF HandOff
    <3>3. QED
      BY <2>1, <3>2 DEF TasksKept
  <2>4. /\ \A e \in DOMAIN outbox' : outbox'[e].run \in DOMAIN runs'
        /\ \A t \in DOMAIN tasks' : tasks'[t].event \in DOMAIN outbox'
    <3>1. RowsOK'
      BY DEF IInv
    <3>2. /\ DOMAIN runs' = 1 .. Len(runs') /\ DOMAIN outbox' = 1 .. Len(outbox')
          /\ DOMAIN tasks' = 1 .. Len(tasks')
      BY <3>1, LenProperties DEF RowsOK
    <3>3. QED
      BY <3>1, <3>2 DEF RowsOK
  <2>5. QED
    BY <2>2, <2>3, <2>4 DEF HandOff
<1>3. QED
  BY <1>1, <1>2, RefsCorrect, PTL DEF Spec
=============================================================================
