------------------------ MODULE JobControlWork_proofs ------------------------
(***************************************************************************)
(* Who does the work, for any sets of handlers and workers and any bounds, *)
(* when transactions do not overlap: no event is sent by two publishers    *)
(* and, while nobody cancels or reviews, no run is executed by two workers,*)
(* the rows agree with the one that executes it, and a queued job is never *)
(* lost. Overlapping transactions, a cancellation under way, a redelivered *)
(* resume task and an exception after _finish's commit each break this:    *)
(* the runs LateSuccess and ResumedTwice show how.                         *)
(***************************************************************************)
EXTENDS JobControl_proofs

\* Nobody takes a run away from its worker, or hands one to a second worker.
Undisturbed ==
  /\ Serialized
  /\ Requests \cap {"cancel", "decide"} = {}
  /\ Flaky \cap {"announce", "review"} = {}

-----------------------------------------------------------------------------
(* The publishers                                                          *)

Holding(h) == hs[h].pc \in {"send", "note", "unsend", "done"}

\* A handler that is about to claim a row still sees it PENDING; whoever holds
\* a row has marked it PUBLISHING, and holds it alone.
EventsHeld ==
  /\ \A h \in Handlers :
       /\ At(h, "claim") => outbox[hs[h].event].status = "PENDING"
       /\ Holding(h) => outbox[hs[h].event].status = "PUBLISHING"
  /\ \A g, h \in Handlers :
       Holding(g) /\ Holding(h) /\ hs[g].event = hs[h].event => g = h

EventsSame == \A e \in DOMAIN outbox : outbox'[e].status = outbox[e].status

\* While p moves, nobody else has loaded what it has not yet written.
LEMMA Alone ==
  ASSUME Serialized, NEW p \in Handlers \cup Workers, Turn(p)
  PROVE  /\ \A h \in Handlers \ {p} :
              hs[h].pc \notin {"start", "retry", "rerun", "cancel", "resume", "claim"}
         /\ \A w \in Workers \ {p} :
              ws[w].pc \notin {"claim", "drop", "finish", "fail"}
BY ProcessesAssumption DEF Turn, InTx

LEMMA EmitSame ==
  ASSUME IInv, NEW kind \in {"start", "retry", "rerun", "resume"}, NEW r \in Nat,
         Emit(kind, r)
  PROVE  EventsSame
BY EmitRow DEF IInv, RowsOK, EventsSame

\* Rows of the outbox change status only where a publisher writes them.
LEMMA HandlerEventsSame ==
  ASSUME IInv, NEW h \in Handlers,
         Request(h) \/ HandlerStep(h) \/ HandlerFault(h),
         ~(ClaimEvent(h) \/ Unsend(h) \/ Done(h))
  PROVE  EventsSame
<1>1. CASE UNCHANGED outbox
  BY <1>1 DEF EventsSame
<1>2. HandlerRef(hs[h], Len(runs), Len(outbox), tasks) /\ Len(runs) \in Nat
  BY DEF IInv, RowsOK, HandlersOK
<1>3. CASE StartCommit(h) \/ RerunCommit(h)
  BY <1>1, <1>2, <1>3, EmitSame DEF StartCommit, RerunCommit, CreateRun, rows
<1>4. CASE RetryCommit(h) \/ ResumeApproved(h)
  <2>1. hs[h].pc \in {"retry", "resume"}
    BY <1>4 DEF RetryCommit, ResumeApproved, At
  <2>. hs[h].run \in Nat
    BY <1>2, <2>1 DEF HandlerRef
  <2>2. UNCHANGED outbox \/ Emit("retry", hs[h].run) \/ Emit("resume", hs[h].run)
    BY <1>4 DEF RetryCommit, ResumeApproved, rows
  <2>3. QED
    BY <1>1, <2>2, EmitSame
<1>5. CASE Request(h) \/ HandlerFault(h)
  BY <1>1, <1>5
  DEF Request, StartRead, RetryRead, RerunRead, Replay, CancelLook, Decide,
      HandlerFault, SendFails, NoteFails, HandlerCrash, rows
<1>6. CASE \/ CancelRead(h) \/ CancelCommit(h) \/ Revoke(h) \/ ResumeRead(h)
           \/ ResumeRejected(h) \/ DrainScan(h) \/ BatchEnd(h) \/ BatchNext(h)
           \/ Send(h) \/ Note(h)
  BY <1>1, <1>6
  DEF CancelRead, CancelCommit, Revoke, ResumeRead, ResumeRejected, DrainScan,
      BatchEnd, BatchNext, Send, Note, rows
<1>7. QED
  BY <1>3, <1>4, <1>5, <1>6 DEF HandlerStep

LEMMA WorkerEventsSame ==
  ASSUME NEW w \in Workers, WorkerStep(w) \/ SaveCheckpoint(w) \/ WorkerFault(w)
  PROVE  UNCHANGED <<outbox, hs>>
<1>1. CASE WorkerStep(w)
  BY <1>1
  DEF WorkerStep, Take, ClaimRead, ClaimCommit, ClaimDrop, ResumeLoad, Begin,
      GraphEnds, Publish, FinishRead, FinishCommit, Announce, CreateReview,
      FailRead, FailCommit, rows
<1>2. CASE SaveCheckpoint(w) \/ WorkerFault(w)
  BY <1>2
  DEF SaveCheckpoint, WorkerFault, BeginFails, PublishFails, AnnounceFails,
      WorkerCrash, Terminate, rows
<1>3. QED
  BY <1>1, <1>2

\* Which step brought a handler to where it is.
LEMMA HandlerArrives ==
  ASSUME IInv, NEW h \in Handlers,
         Request(h) \/ HandlerStep(h) \/ HandlerFault(h)
  PROVE  /\ \A g \in Handlers \ {h} : hs'[g] = hs[g]
         /\ At(h, "claim")' => BatchNext(h) /\ StillPending(hs'[h].event)
         /\ Holding(h)' =>
              /\ hs'[h].event = hs[h].event
              /\ ClaimEvent(h) \/ Holding(h)
<1>0. hs \in [Handlers -> HandlerState]
  BY DEF IInv, HandlersOK
<1> USE DEF Goto, Respond, Drain, IdleHandler, At, Holding, HandlerState
<1>1. CASE Request(h)
  <2>1. CASE StartRead(h) \/ Replay(h)
    BY <1>0, <2>1 DEF StartRead, Replay
  <2>2. CASE RetryRead(h)
    BY <1>0, <2>2 DEF RetryRead
  <2>3. CASE RerunRead(h) \/ CancelLook(h)
    BY <1>0, <2>3 DEF RerunRead, CancelLook
  <2>4. CASE \E v \in DOMAIN reviews, d \in Decisions : Decide(h, v, d)
    BY <1>0, <2>4 DEF Decide
  <2>5. QED
    BY <1>1, <2>1, <2>2, <2>3, <2>4 DEF Request
<1>2. ASSUME Drain(h) \/ Respond(h) \/ Goto(h, "revoke")
      PROVE  /\ \A g \in Handlers \ {h} : hs'[g] = hs[g]
             /\ hs'[h].pc \in {"idle", "drain", "revoke"}
  BY <1>0, <1>2
<1>3. CASE \/ StartCommit(h) \/ RetryCommit(h) \/ RerunCommit(h)
           \/ CancelCommit(h) \/ Revoke(h)
           \/ ResumeApproved(h) \/ ResumeRejected(h)
  <2>1. Drain(h) \/ Respond(h) \/ Goto(h, "revoke")
    BY <1>3
    DEF StartCommit, RetryCommit, RerunCommit, CancelCommit, Revoke,
        ResumeApproved, ResumeRejected
  <2>2. QED
    BY <1>2, <2>1
<1>12. CASE CancelRead(h)
  <2>1. CASE hs' = [hs EXCEPT ![h].pc = "cancel", ![h].job = job]
    BY <1>0, <2>1
  <2>2. ASSUME NEW r \in ActiveRuns,
               hs' = [hs EXCEPT ![h].pc = "cancel", ![h].job = job, ![h].run = r,
                                ![h].status = runs[r].status,
                                ![h].slot = runs[r].slot]
        PROVE  (\A g \in Handlers \ {h} : hs'[g] = hs[g]) /\ hs'[h].pc = "cancel"
    <3> DEFINE run == runs[r]
               s == [hs[h] EXCEPT !.pc = "cancel", !.job = job, !.run = r,
                                  !.status = run.status, !.slot = run.slot]
    <3>1. hs' = [hs EXCEPT ![h] = s]
      BY <1>0, <2>2
    <3>2. s.pc = "cancel"
      BY <1>0
    <3> HIDE DEF s
    <3>3. QED
      BY <1>0, <3>1, <3>2
  <2>3. QED
    BY <1>12, <2>1, <2>2 DEF CancelRead
<1>13. CASE ResumeRead(h)
  <2> DEFINE run == runs[touched]
             s == [hs[h] EXCEPT !.pc = "resume", !.job = job, !.run = touched,
                                !.status = run.status, !.slot = run.slot]
  <2>1. Respond(h) \/ hs' = [hs EXCEPT ![h] = s]
    BY <1>0, <1>13 DEF ResumeRead
  <2>2. s.pc = "resume"
    BY <1>0
  <2> HIDE DEF s
  <2>3. QED
    BY <1>0, <1>2, <2>1, <2>2
<1>4. CASE DrainScan(h) \/ BatchEnd(h)
  BY <1>0, <1>4 DEF DrainScan, BatchEnd
<1>5. CASE BatchNext(h)
  <2>1. PICK e \in hs[h].batch :
          \/ /\ StillPending(e)
             /\ hs' = [hs EXCEPT ![h] = [hs[h] EXCEPT !.batch = hs[h].batch \ {e},
                                                     !.event = e, !.pc = "claim"]]
          \/ hs' = [hs EXCEPT ![h] = [hs[h] EXCEPT !.batch = hs[h].batch \ {e}]]
    BY <1>0, <1>5 DEF BatchNext
  <2>2. hs[h].pc = "batch"
    BY <1>5 DEF BatchNext
  <2>3. QED
    BY <1>0, <1>5, <2>1, <2>2
<1>6. CASE ClaimEvent(h) \/ Note(h)
  BY <1>0, <1>6 DEF ClaimEvent, Note
<1>7. CASE Send(h)
  BY <1>0, <1>7 DEF Send
<1>8. CASE Unsend(h) \/ Done(h)
  BY <1>0, <1>8 DEF Unsend, Done
<1>9. CASE SendFails(h) \/ NoteFails(h)
  BY <1>0, <1>9 DEF SendFails, NoteFails
<1>10. CASE HandlerCrash(h)
  BY <1>0, <1>10 DEF HandlerCrash
<1>11. QED
  BY <1>1, <1>2, <1>3, <1>4, <1>5, <1>6, <1>7, <1>8, <1>9, <1>10,
     <1>12, <1>13
  DEF HandlerStep, HandlerFault

\* What a handler holds is a row that exists.
LEMMA HeldExists ==
  ASSUME IInv, NEW h \in Handlers, At(h, "claim") \/ Holding(h)
  PROVE  hs[h].event \in DOMAIN outbox
<1>1. HandlerRef(hs[h], Len(runs), Len(outbox), tasks) /\ outbox \in Seq(EventRow)
  BY DEF IInv, HandlersOK, RowsOK
<1>2. QED
  BY <1>1 DEF At, Holding, HandlerRef

LEMMA EventsHeldStep ==
  ASSUME Serialized, IInv, IInv', EventsHeld, [Next]_vars
  PROVE  EventsHeld'
<1>1. ASSUME EventsSame, UNCHANGED hs
      PROVE  EventsHeld'
  BY <1>1, HeldExists DEF EventsHeld, EventsSame, Holding, At
<1>2. CASE UNCHANGED vars \/ \E t \in DOMAIN tasks : Redeliver(t)
  BY <1>1, <1>2 DEF vars, Redeliver, rows, EventsSame
<1>3. ASSUME NEW w \in Workers, WorkerStep(w) \/ SaveCheckpoint(w) \/ WorkerFault(w)
      PROVE  EventsHeld'
  BY <1>1, <1>3, WorkerEventsSame DEF EventsSame
<1>4. ASSUME NEW h \in Handlers, Turn(h),
             Request(h) \/ HandlerStep(h) \/ HandlerFault(h)
      PROVE  EventsHeld'
  <2>1. /\ \A g \in Handlers \ {h} : hs'[g] = hs[g] /\ ~At(g, "claim")
        /\ At(h, "claim")' => BatchNext(h) /\ StillPending(hs'[h].event)
        /\ Holding(h)' => /\ hs'[h].event = hs[h].event
                          /\ ClaimEvent(h) \/ Holding(h)
    BY <1>4, HandlerArrives, Alone DEF At
  <2>2. CASE ~(ClaimEvent(h) \/ Unsend(h) \/ Done(h))
    <3>1. EventsSame
      BY <1>4, <2>2, HandlerEventsSame
    <3>2. BatchNext(h) => UNCHANGED outbox
      BY DEF BatchNext, rows
    <3>3. QED
      BY <2>1, <2>2, <3>1, <3>2, HeldExists
      DEF EventsHeld, EventsSame, Holding, At, StillPending
  <2>3. CASE ClaimEvent(h) \/ Unsend(h) \/ Done(h)
    <3>1. PICK status \in {"PENDING", "PUBLISHING", "PUBLISHED"} :
            /\ SetStatus(hs[h].event, status)
            /\ ClaimEvent(h) => status = "PUBLISHING"
      BY <2>3 DEF ClaimEvent, Unsend, Done, At
    <3>2. At(h, "claim") \/ Holding(h)
      BY <2>3 DEF ClaimEvent, Unsend, Done, At, Holding
    <3>. outbox \in Seq(EventRow) /\ DOMAIN outbox = 1 .. Len(outbox)
      BY DEF IInv, RowsOK
    <3>3. hs[h].event \in 1 .. Len(outbox)
      BY <3>2, HeldExists
    <3>4. \A e \in DOMAIN outbox :
            outbox'[e].status = IF e = hs[h].event THEN status ELSE outbox[e].status
      BY <3>1, <3>3, SetStatusRow
    <3>5. ASSUME NEW g \in Handlers \ {h}, Holding(g)
          PROVE  hs[g].event # hs[h].event
      BY <3>2, <3>5 DEF EventsHeld, At
    <3>6. ~At(h, "claim")'
      BY <2>1, <3>2 DEF BatchNext, At, Holding
    <3>7. Holding(h)' => ClaimEvent(h)
      <4>1. ASSUME Unsend(h) \/ Done(h) PROVE hs'[h].pc = "batch"
        BY <4>1 DEF Unsend, Done, IInv, HandlersOK, HandlerState
      <4>2. QED
        BY <2>3, <4>1 DEF Holding
    <3>8. QED
      BY <2>1, <3>1, <3>3, <3>4, <3>5, <3>6, <3>7, HeldExists
      DEF EventsHeld, Holding, At
  <2>4. QED
    BY <2>2, <2>3
<1>5. QED
  BY <1>2, <1>3, <1>4 DEF Next

LEMMA EventsHeldHolds ==
  ASSUME Serialized
  PROVE  Spec => []EventsHeld
<1>1. Init => EventsHeld
  BY DEF Init, EventsHeld, Holding, At, IdleHandler
<1>2. IInv /\ IInv' /\ EventsHeld /\ [Next]_vars => EventsHeld'
  BY EventsHeldStep
<1>3. QED
  BY <1>1, <1>2, RefsCorrect, PTL DEF Spec

\* An outbox row is sent by one publisher at a time: of those that find it
\* PENDING in their batch, one claims it and the others pass it over.
THEOREM OneSends ==
  ASSUME Serialized
  PROVE  Spec => []OnePublisher
<1>1. EventsHeld => OnePublisher
  BY DEF EventsHeld, OnePublisher, Holding, At
<1>2. QED
  BY <1>1, EventsHeldHolds, PTL
-----------------------------------------------------------------------------
(* The workers                                                             *)

\* Where a handler is that cancels a run or has decided a review.
Disturbing == {"look", "cancel", "revoke", "decided", "resume"}

\* What a worker in a transaction has loaded is what the rows say.
Loaded(w) ==
  /\ ws[w].job = job
  /\ ws[w].status = runs[RunOf(w)].status
  /\ ws[w].slot = runs[RunOf(w)].slot

\* The rows belong to the worker.
Owns(w) ==
  /\ job = "RUNNING"
  /\ runs[RunOf(w)].slot
  /\ runs[RunOf(w)].status = "INSPECTING"

\* Nobody resumes a run, and a client that takes the job does not find it
\* running.
Calm ==
  /\ \A r \in DOMAIN runs : runs[r].status # "EXECUTING"
  /\ \A h \in Handlers :
       /\ hs[h].pc \notin Disturbing
       /\ At(h, "retry") => hs[h].job = "FAILED" /\ job = "FAILED"
       /\ At(h, "rerun") => job # "RUNNING"

\* At most one worker executes, and it owns the rows: the claim asks for a
\* queued job and leaves it running, which no second claim accepts.
Claims ==
  /\ \A w \in Workers :
       /\ InTx(w) => Loaded(w)
       /\ WAt(w, "claim") => job = "QUEUED" /\ runs[RunOf(w)].slot
       /\ WAt(w, "drop") => job = "CANCELLED"
       /\ Executing(w) => Owns(w)
  /\ \A v, w \in Workers : Executing(v) /\ Executing(w) => v = w

Work == Calm /\ Claims

\* The status and the slot of every run are left alone.
RunsSame ==
  /\ DOMAIN runs' = DOMAIN runs
  /\ \A r \in DOMAIN runs :
       runs'[r].status = runs[r].status /\ runs'[r].slot = runs[r].slot

\* The commit of a transaction whose loaded row is still the current one.
LEMMA FreshUpdate ==
  ASSUME runs \in Seq(RunRow), NEW r \in 1 .. Len(runs), NEW from,
         from.status = runs[r].status, from.slot = runs[r].slot,
         NEW status \in RunStates, NEW slot \in BOOLEAN,
         UpdateRun(r, from, status, slot)
  PROVE  /\ DOMAIN runs' = DOMAIN runs
         /\ runs'[r].status = status /\ runs'[r].slot = slot
         /\ \A q \in DOMAIN runs \ {r} : runs'[q] = runs[q]
<1> DEFINE row == [runs[r] EXCEPT !.status = status, !.slot = slot]
<1>1. runs[r] \in RunRow
  BY ElementOfSeq
<1>2. row.status = status /\ row.slot = slot
  BY <1>1 DEF RunRow
<1>3. Store(runs[r].status, from.status, status) = status
  BY DEF Store
<1>4. Store(runs[r].slot, from.slot, slot) = slot
  BY DEF Store
<1>5. runs' = [runs EXCEPT ![r] = row]
  BY <1>1, <1>3, <1>4 DEF UpdateRun, RunRow
<1> HIDE DEF row
<1>6. r \in DOMAIN runs
  OBVIOUS
<1>7. QED
  BY <1>2, <1>5, <1>6

\* A client that neither cancels nor decides.
LEMMA CalmHandler ==
  ASSUME IInv, Undisturbed, Calm, NEW h \in Handlers,
         Request(h) \/ HandlerStep(h) \/ HandlerFault(h)
  PROVE  /\ \/ StartRead(h) \/ Replay(h) \/ RetryRead(h) \/ RerunRead(h)
            \/ StartCommit(h) \/ RetryCommit(h) \/ RerunCommit(h)
            \/ DrainScan(h) \/ BatchEnd(h) \/ BatchNext(h) \/ ClaimEvent(h)
            \/ Send(h) \/ Note(h) \/ Unsend(h) \/ Done(h)
            \/ SendFails(h) \/ NoteFails(h) \/ HandlerCrash(h)
         /\ hs'[h].pc \notin Disturbing
         /\ At(h, "retry")' => RetryRead(h)
         /\ At(h, "rerun")' => RerunRead(h)
         /\ At(h, "note")' => Send(h)
         /\ At(h, "done")' => Note(h)
<1>0. hs[h] \in HandlerState /\ hs \in [Handlers -> HandlerState]
  BY DEF IInv, HandlersOK
<1>1. \/ StartRead(h) \/ Replay(h) \/ RetryRead(h) \/ RerunRead(h)
      \/ StartCommit(h) \/ RetryCommit(h) \/ RerunCommit(h)
      \/ DrainScan(h) \/ BatchEnd(h) \/ BatchNext(h) \/ ClaimEvent(h)
      \/ Send(h) \/ Note(h) \/ Unsend(h) \/ Done(h)
      \/ SendFails(h) \/ NoteFails(h) \/ HandlerCrash(h)
  <2>1. ~CancelLook(h) /\ \A v \in DOMAIN reviews, d \in Decisions : ~Decide(h, v, d)
    BY DEF Undisturbed, CancelLook, Decide
  <2>2. ~CancelRead(h) /\ ~CancelCommit(h) /\ ~Revoke(h)
    BY DEF Calm, Disturbing, CancelRead, CancelCommit, Revoke, At
  <2>3. ~ResumeRead(h) /\ ~ResumeApproved(h) /\ ~ResumeRejected(h)
    BY DEF Calm, Disturbing, ResumeRead, ResumeApproved, ResumeRejected, At
  <2>4. QED
    BY <2>1, <2>2, <2>3 DEF Request, HandlerStep, HandlerFault
<1>2. ASSUME Drain(h) \/ Respond(h) PROVE hs'[h].pc \in {"idle", "drain"}
  BY <1>0, <1>2 DEF Drain, Respond, IdleHandler
<1>3. ASSUME NEW pc \in {"start", "send", "unsend", "done"}, Goto(h, pc)
      PROVE  hs'[h].pc = pc
  BY <1>0, <1>3 DEF Goto, HandlerState
<1>4. CASE \/ Replay(h) \/ StartCommit(h) \/ RetryCommit(h) \/ RerunCommit(h)
           \/ BatchEnd(h) \/ HandlerCrash(h)
  BY <1>1, <1>2, <1>4
  DEF Replay, StartCommit, RetryCommit, RerunCommit, BatchEnd, HandlerCrash,
      At, Disturbing
<1>5. CASE StartRead(h) \/ ClaimEvent(h) \/ Note(h) \/ SendFails(h) \/ NoteFails(h)
  BY <1>1, <1>2, <1>3, <1>5
  DEF StartRead, ClaimEvent, Note, SendFails, NoteFails, At, Disturbing
<1>6. ASSUME RetryRead(h) \/ RerunRead(h)
      PROVE  hs'[h].pc = IF RetryRead(h) THEN "retry" ELSE "rerun"
  <2>1. CASE RetryRead(h)
    <3> DEFINE run == runs[Len(runs)]
               s == [hs[h] EXCEPT !.pc = "retry", !.job = job, !.run = Len(runs),
                                  !.status = run.status, !.slot = run.slot]
    <3>1. hs' = [hs EXCEPT ![h] = s]
      BY <1>0, <2>1 DEF RetryRead, HandlerState
    <3>2. s.pc = "retry"
      BY <1>0 DEF HandlerState
    <3> HIDE DEF s
    <3>3. QED
      BY <1>0, <2>1, <3>1, <3>2
  <2>2. CASE RerunRead(h) /\ ~RetryRead(h)
    BY <1>0, <2>2 DEF RerunRead, HandlerState
  <2>3. QED
    BY <1>6, <2>1, <2>2
<1>7. ASSUME DrainScan(h) \/ BatchNext(h) \/ Send(h) \/ Unsend(h) \/ Done(h)
      PROVE  \/ hs'[h].pc \in {"batch", "claim"}
             \/ Send(h) /\ hs'[h].pc = "note"
  <2>1. CASE DrainScan(h)
    BY <1>0, <2>1 DEF DrainScan, HandlerState
  <2>2. CASE BatchNext(h)
    <3>1. PICK e \in hs[h].batch :
            \/ hs' = [hs EXCEPT ![h] = [hs[h] EXCEPT !.batch = hs[h].batch \ {e},
                                                     !.event = e, !.pc = "claim"]]
            \/ hs' = [hs EXCEPT ![h] = [hs[h] EXCEPT !.batch = hs[h].batch \ {e}]]
      BY <1>0, <2>2 DEF BatchNext, HandlerState
    <3>2. hs[h].pc = "batch"
      BY <2>2 DEF BatchNext, At
    <3>3. QED
      BY <1>0, <3>1, <3>2 DEF HandlerState
  <2>3. CASE Send(h)
    BY <1>0, <2>3 DEF Send, HandlerState
  <2>4. CASE Unsend(h) \/ Done(h)
    BY <1>0, <2>4 DEF Unsend, Done, HandlerState
  <2>5. QED
    BY <1>7, <2>1, <2>2, <2>3, <2>4
<1>8. QED
  BY <1>1, <1>4, <1>5, <1>6, <1>7 DEF At, Disturbing

\* What such a client does to the rows of the job and of its runs.
LEMMA CalmRows ==
  ASSUME IInv, Undisturbed, Calm, NEW h \in Handlers,
         Request(h) \/ HandlerStep(h) \/ HandlerFault(h)
  PROVE  /\ UNCHANGED ws
         /\ job = "RUNNING" => job' = job
         /\ DOMAIN runs \subseteq DOMAIN runs'
         /\ job = "RUNNING" =>
              \A r \in DOMAIN runs : /\ runs'[r].status = runs[r].status
                                     /\ runs'[r].slot = runs[r].slot
         /\ \A r \in DOMAIN runs' : runs'[r].status # "EXECUTING"
         /\ RetryRead(h) => hs'[h].job = "FAILED" /\ job' = "FAILED"
         /\ RerunRead(h) => job' # "RUNNING"
<1>0. /\ hs[h] \in HandlerState /\ hs \in [Handlers -> HandlerState]
      /\ HandlerRef(hs[h], Len(runs), Len(outbox), tasks)
      /\ runs \in Seq(RunRow) /\ outbox \in Seq(EventRow)
      /\ touched \in 0 .. Len(runs)
      /\ DOMAIN runs = 1 .. Len(runs)
  BY DEF IInv, HandlersOK, RowsOK
<1>1. UNCHANGED ws
  BY CalmHandler
  DEF StartRead, Replay, RetryRead, RerunRead, StartCommit, RetryCommit,
      RerunCommit, DrainScan, BatchEnd, BatchNext, ClaimEvent, Send, Note,
      Unsend, Done, SendFails, NoteFails, HandlerCrash
<1>2. RerunRead(h) => job' # "RUNNING"
  BY DEF RerunRead, rows
<1>3. RetryRead(h) => hs'[h].job = "FAILED" /\ job' = "FAILED"
  <2> SUFFICES ASSUME RetryRead(h) PROVE hs'[h].job = "FAILED" /\ job' = "FAILED"
    OBVIOUS
  <2> DEFINE run == runs[Len(runs)]
             s == [hs[h] EXCEPT !.pc = "retry", !.job = job, !.run = Len(runs),
                                !.status = run.status, !.slot = run.slot]
  <2>1. hs' = [hs EXCEPT ![h] = s]
    BY <1>0 DEF RetryRead, HandlerState
  <2>2. s.job = job
    BY <1>0 DEF HandlerState
  <2>3. job = "FAILED" /\ job' = job
    BY DEF RetryRead, Retryable, rows
  <2> HIDE DEF s
  <2>4. QED
    BY <1>0, <2>1, <2>2, <2>3
<1>4. CASE UNCHANGED <<job, runs>>
  BY <1>1, <1>2, <1>3, <1>4 DEF Calm
<1>5. ASSUME NEW kind \in {"start", "rerun"}, CreateRun(kind)
      PROVE  /\ DOMAIN runs \subseteq DOMAIN runs'
             /\ \A r \in DOMAIN runs : runs'[r] = runs[r]
             /\ \A r \in DOMAIN runs' : runs'[r].status # "EXECUTING"
  <2>1. Len(runs) \in Nat
    BY <1>0
  <2>2. /\ runs' = Append(runs, [status |-> "INITIALIZING", slot |-> TRUE,
                                 task |-> 0, ckpt |-> "none"])
        /\ Len(runs') = Len(runs) + 1 /\ runs' \in Seq(RunRow)
        /\ \A q \in 1 .. Len(runs) : runs'[q] = runs[q]
    BY <1>0, <1>5, CreateRunRow DEF CreateRun
  <2>3. DOMAIN runs' = 1 .. (Len(runs) + 1)
    BY <2>2
  <2>4. runs'[Len(runs) + 1].status = "INITIALIZING"
    BY <1>0, <2>2, <2>1
  <2>5. QED
    BY <1>0, <2>1, <2>2, <2>3, <2>4 DEF Calm
<1>6. CASE StartCommit(h)
  <2>1. CASE Startable /\ job' = "QUEUED" /\ CreateRun("start")
    BY <1>1, <1>2, <1>3, <1>5, <2>1 DEF Startable
  <2>2. CASE UNCHANGED rows
    BY <1>4, <2>2 DEF rows
  <2>3. QED
    BY <1>6, <2>1, <2>2 DEF StartCommit
<1>7. CASE RerunCommit(h)
  <2>1. job # "RUNNING"
    BY <1>7 DEF RerunCommit, Calm
  <2>2. CASE CreateRun("rerun")
    BY <1>1, <1>2, <1>3, <1>5, <2>1, <2>2
  <2>3. QED
    BY <1>4, <1>7, <2>2 DEF RerunCommit, rows
<1>8. CASE RetryCommit(h)
  <2>1. job # "RUNNING"
    BY <1>8 DEF RetryCommit, Calm
  <2>2. hs[h].run \in 1 .. Len(runs)
    BY <1>0, <1>8 DEF RetryCommit, HandlerRef, At
  <2>3. ASSUME UpdateRun(hs[h].run, hs[h], "INITIALIZING", TRUE)
        PROVE  /\ DOMAIN runs' = DOMAIN runs
               /\ \A r \in DOMAIN runs' : runs'[r].status # "EXECUTING"
    <3> DEFINE status == Store(runs[hs[h].run].status, hs[h].status, "INITIALIZING")
               slot == Store(runs[hs[h].run].slot, hs[h].slot, TRUE)
               row == [runs[hs[h].run] EXCEPT !.status = status, !.slot = slot]
    <3>1. runs[hs[h].run] \in RunRow
      BY <1>0, <2>2, ElementOfSeq
    <3>2. status # "EXECUTING"
      BY <1>0, <2>2 DEF Store, Calm
    <3>3. runs' = [runs EXCEPT ![hs[h].run] = row]
      BY <2>3, <3>1 DEF UpdateRun, RunRow
    <3>4. row.status = status
      BY <3>1 DEF RunRow
    <3> HIDE DEF row, status
    <3>5. QED
      BY <1>0, <2>2, <3>2, <3>3, <3>4 DEF Calm
  <2>4. CASE UpdateRun(hs[h].run, hs[h], "INITIALIZING", TRUE)
    BY <1>1, <1>2, <1>3, <2>1, <2>3, <2>4
  <2>5. QED
    BY <1>4, <1>8, <2>4 DEF RetryCommit, rows
<1>9. CASE Note(h)
  <2> DEFINE r == outbox[hs[h].event].run
             row == [runs[r] EXCEPT !.task = hs[h].task]
  <2>1. r \in 1 .. Len(runs)
    BY <1>0, <1>9 DEF Note, At, HandlerRef, IInv, RowsOK
  <2>2. runs[r] \in RunRow
    BY <1>0, <2>1, ElementOfSeq
  <2>3. row.status = runs[r].status /\ row.slot = runs[r].slot
    BY <2>2 DEF RunRow
  <2>4. runs' = [runs EXCEPT ![r] = row] /\ job' = job
    BY <1>9, <2>2 DEF Note, RunRow
  <2> HIDE DEF row
  <2>5. DOMAIN runs' = DOMAIN runs
        /\ \A q \in DOMAIN runs : /\ runs'[q].status = runs[q].status
                                  /\ runs'[q].slot = runs[q].slot
    BY <1>0, <2>1, <2>3, <2>4
  <2>6. QED
    BY <1>1, <1>2, <1>3, <2>4, <2>5 DEF Calm
<1>10. CASE \/ StartRead(h) \/ Replay(h) \/ RetryRead(h) \/ RerunRead(h)
            \/ DrainScan(h) \/ BatchEnd(h) \/ BatchNext(h) \/ ClaimEvent(h)
            \/ Send(h) \/ Unsend(h) \/ Done(h)
            \/ SendFails(h) \/ NoteFails(h) \/ HandlerCrash(h)
  BY <1>4, <1>10
  DEF StartRead, Replay, RetryRead, RerunRead, DrainScan, BatchEnd, BatchNext,
      ClaimEvent, Send, Unsend, Done, SendFails, NoteFails, HandlerCrash, rows
<1>11. QED
  BY <1>6, <1>7, <1>8, <1>9, <1>10, CalmHandler

LEMMA RunExists ==
  ASSUME IInv, NEW w \in Workers, ~WAt(w, "idle")
  PROVE  RunOf(w) \in DOMAIN runs
<1>1. RunOf(w) \in 1 .. Len(runs) /\ runs \in Seq(RunRow)
  BY RunOfOK DEF IInv, RowsOK
<1>2. QED
  BY <1>1

\* A worker's task stays about the run it was about.
LEMMA RunKept ==
  ASSUME IInv, IInv', EventStep, TasksKept,
         NEW w \in Workers, ~WAt(w, "idle"), ws'[w].task = ws[w].task
  PROVE  RunOf(w)' = RunOf(w)
<1> DEFINE t == ws[w].task
           e == tasks[t].event
<1>0. /\ t \in 1 .. Len(tasks) /\ tasks \in Seq(TaskRow)
      /\ outbox \in Seq(EventRow)
      /\ \A u \in 1 .. Len(tasks) : tasks[u].event \in 1 .. Len(outbox)
  BY DEF IInv, RowsOK, WorkersOK, WAt
<1>1. t \in DOMAIN tasks /\ e \in DOMAIN outbox
  BY <1>0
<1>2. tasks'[t].event = e
  BY <1>1 DEF TasksKept
<1>3. outbox'[e].run = outbox[e].run
  BY <1>1, OutboxGrows
<1>4. RunOf(w)' = outbox'[tasks'[t].event].run
  BY DEF RunOf
<1>5. QED
  BY <1>2, <1>3, <1>4 DEF RunOf

\* While a client moves, the workers keep what they have.
LEMMA ClientsTurn ==
  ASSUME IInv, IInv', EventStep, TasksKept, Undisturbed, Work,
         NEW h \in Handlers, Turn(h),
         Request(h) \/ HandlerStep(h) \/ HandlerFault(h)
  PROVE  Work'
<1>1. Calm'
  <2>1. \A g \in Handlers \ {h} : /\ hs'[g] = hs[g]
                                  /\ hs[g].pc \notin {"retry", "rerun"}
    BY Alone, HandlerArrives DEF Undisturbed
  <2>2. QED
    BY <2>1, CalmHandler, CalmRows DEF Calm, Work, At
<1>2. \A w \in Workers : ~InTx(w)
  BY Alone, ProcessesAssumption DEF Turn, Undisturbed, InTx
<1>3. \A w \in Workers : ws'[w] = ws[w]
  BY CalmRows DEF Work
<1>4. ASSUME NEW w \in Workers, Executing(w)
      PROVE  Owns(w)' /\ RunOf(w)' = RunOf(w)
  <2>1. ~WAt(w, "idle")
    BY <1>4 DEF Executing, WAt
  <2>2. RunOf(w) \in DOMAIN runs
    BY <2>1, RunExists
  <2>3. RunOf(w)' = RunOf(w)
    BY <1>3, <2>1, RunKept
  <2>4. Owns(w)
    BY <1>4 DEF Work, Claims
  <2>5. QED
    BY <2>2, <2>3, <2>4, CalmRows DEF Owns, Work
<1>5. QED
  BY <1>1, <1>2, <1>3, <1>4, ProcessesAssumption
  DEF Work, Claims, InTx, Executing, WAt

\* What a worker does in a step: the others and the clients stay, and it comes
\* to hold a transaction or a run only from where the code leads there.
LEMMA WorkerArrives ==
  ASSUME IInv, Undisturbed, Calm, NEW w \in Workers,
         WorkerStep(w) \/ SaveCheckpoint(w) \/ WorkerFault(w)
  PROVE  /\ \A v \in Workers \ {w} : ws'[v] = ws[v]
         /\ ws'[w].pc # "idle" /\ ws[w].pc # "idle" => ws'[w].task = ws[w].task
         /\ InTx(w)' => /\ ws'[w].job = job
                        /\ ws'[w].status = runs[RunOf(w)].status
                        /\ ws'[w].slot = runs[RunOf(w)].slot
                        /\ ~WAt(w, "idle")
                        /\ ClaimRead(w) \/ FinishRead(w) \/ FailRead(w)
         /\ WAt(w, "claim")' => Claimable(RunOf(w))
         /\ WAt(w, "drop")' => job = "CANCELLED"
         /\ Executing(w)' => Executing(w) \/ ClaimCommit(w)
<1>0. /\ ws \in [Workers -> WorkerState] /\ ws[w] \in WorkerState
      /\ w \notin Handlers
  BY ProcessesAssumption DEF IInv, WorkersOK
<1> USE DEF WAt
<1>1. ASSUME Ack(w)
      PROVE  (\A v \in Workers \ {w} : ws'[v] = ws[v]) /\ ws'[w].pc = "idle"
  BY <1>0, <1>1 DEF Ack, IdleWorker
<1>2. ASSUME NEW pc \in {"begin", "graph", "finread", "announce", "review",
                         "failread"},
             WGoto(w, pc)
      PROVE  /\ \A v \in Workers \ {w} : ws'[v] = ws[v]
             /\ ws'[w].pc = pc /\ ws'[w].task = ws[w].task
  BY <1>0, <1>2 DEF WGoto, WorkerState
<1>3. ASSUME NEW pc \in {"claim", "drop", "finish", "fail"}, WLoad(w, pc)
      PROVE  /\ \A v \in Workers \ {w} : ws'[v] = ws[v]
             /\ ws'[w].pc = pc /\ ws'[w].task = ws[w].task
             /\ ws'[w].job = job
             /\ ws'[w].status = runs[RunOf(w)].status
             /\ ws'[w].slot = runs[RunOf(w)].slot
  <2> DEFINE run == runs[RunOf(w)]
             s == [ws[w] EXCEPT !.pc = pc, !.job = job, !.status = run.status,
                                !.slot = run.slot]
  <2>1. ws' = [ws EXCEPT ![w] = s]
    BY <1>0, <1>3 DEF WLoad, WorkerState
  <2>2. /\ s.pc = pc /\ s.task = ws[w].task /\ s.job = job
        /\ s.status = run.status /\ s.slot = run.slot
    BY <1>0 DEF WorkerState
  <2> HIDE DEF s
  <2>3. QED
    BY <1>0, <2>1, <2>2
<1>4. CASE \/ ClaimDrop(w) \/ CreateReview(w) \/ FailCommit(w) \/ BeginFails(w)
           \/ WorkerCrash(w) \/ Terminate(w)
  <2>1. Ack(w)
    BY <1>4
    DEF ClaimDrop, CreateReview, FailCommit, BeginFails, WorkerCrash, Terminate
  <2>2. QED
    BY <1>0, <1>1, <2>1 DEF InTx, Executing
<1>5. CASE ClaimRead(w)
  <2>1. ws[w].pc = "read"
    BY <1>5 DEF ClaimRead
  <2>2. \/ WLoad(w, "drop") /\ job = "CANCELLED"
        \/ WLoad(w, "claim") /\ Claimable(RunOf(w))
        \/ Ack(w)
    BY <1>5 DEF ClaimRead
  <2>3. QED
    BY <1>0, <1>1, <1>3, <1>5, <2>1, <2>2 DEF InTx, Executing
<1>6. CASE FinishRead(w) \/ FailRead(w)
  <2>1. /\ ws[w].pc \in {"finread", "failread"}
        /\ WLoad(w, "finish") \/ WLoad(w, "fail")
    BY <1>6 DEF FinishRead, FailRead
  <2>2. QED
    BY <1>0, <1>3, <1>6, <2>1 DEF InTx, Executing
<1>7. CASE ResumeLoad(w)
  <2>1. ws[w].pc = "load"
    BY <1>7 DEF ResumeLoad
  <2>2. runs[RunOf(w)].status # "EXECUTING"
    <3>1. RunOf(w) \in DOMAIN runs
      BY <2>1, RunExists DEF WAt
    <3>2. QED
      BY <3>1 DEF Calm
  <2>3. Ack(w)
    BY <1>7, <2>2 DEF ResumeLoad
  <2>4. QED
    BY <1>0, <1>1, <2>3 DEF InTx, Executing
<1>8. CASE AnnounceFails(w)
  BY <1>8 DEF AnnounceFails, Raises, Undisturbed
<1>9. CASE ClaimCommit(w)
  <2>1. WGoto(w, "begin")
    BY <1>9 DEF ClaimCommit
  <2>2. QED
    BY <1>0, <1>2, <1>9, <2>1 DEF InTx, Executing
<1>10. CASE FinishCommit(w) \/ Announce(w)
  <2>1. Ack(w) \/ WGoto(w, "announce") \/ WGoto(w, "review")
    BY <1>10 DEF FinishCommit, Announce
  <2>2. QED
    BY <1>0, <1>1, <1>2, <2>1 DEF InTx, Executing
<1>11. CASE Publish(w) \/ PublishFails(w)
  <2>1. /\ WGoto(w, "failread") \/ WGoto(w, "finread")
        /\ ws[w].pc = "publish"
    BY <1>11 DEF Publish, PublishFails
  <2>2. QED
    BY <1>0, <1>2, <2>1 DEF InTx, Executing
<1>12. CASE Begin(w)
  <2> DEFINE from == IF Resuming(w) THEN runs[RunOf(w)].ckpt ELSE "none"
             s == [ws[w] EXCEPT !.pc = "graph", !.from = from]
  <2>1. ws' = [ws EXCEPT ![w] = s] /\ ws[w].pc = "begin"
    BY <1>0, <1>12 DEF Begin, WorkerState
  <2>2. s.pc = "graph" /\ s.task = ws[w].task
    BY <1>0 DEF WorkerState
  <2> HIDE DEF s
  <2>3. QED
    BY <1>0, <2>1, <2>2 DEF InTx, Executing
<1>13. CASE \E o \in Outcomes \cup {"RAISED"} : GraphEnds(w, o)
  <2>1. PICK o : GraphEnds(w, o)
    BY <1>13
  <2>2. PICK pc \in {"failread", "publish", "finread"} :
          /\ ws[w].pc = "graph"
          /\ ws' = [ws EXCEPT ![w] = [ws[w] EXCEPT !.outcome = o, !.pc = pc]]
    BY <1>0, <2>1 DEF GraphEnds, WorkerState
  <2> DEFINE s == [ws[w] EXCEPT !.outcome = o, !.pc = pc]
  <2>3. s.pc = pc /\ s.task = ws[w].task
    BY <1>0 DEF WorkerState
  <2>4. ws' = [ws EXCEPT ![w] = s]
    BY <2>2
  <2> HIDE DEF s
  <2>5. QED
    BY <1>0, <2>2, <2>3, <2>4 DEF InTx, Executing
<1>14. CASE \E t \in DOMAIN tasks : Take(w, t)
  <2>1. PICK t \in DOMAIN tasks : Take(w, t)
    BY <1>14
  <2> DEFINE pc == IF outbox[tasks[t].event].kind = "resume" THEN "load" ELSE "read"
             s == [ws[w] EXCEPT !.task = t, !.pc = pc]
  <2>2. s.pc \in {"load", "read"} /\ ws' = [ws EXCEPT ![w] = s] /\ ws[w].pc = "idle"
    BY <1>0, <2>1 DEF Take, WorkerState
  <2> HIDE DEF s
  <2>3. QED
    BY <1>0, <2>1, <2>2 DEF InTx, Executing
<1>15. CASE SaveCheckpoint(w)
  BY <1>0, <1>15 DEF SaveCheckpoint, InTx, Executing
<1>16. QED
  BY <1>4, <1>5, <1>6, <1>7, <1>8, <1>9, <1>10, <1>11, <1>12, <1>13, <1>14, <1>15
  DEF WorkerStep, WorkerFault

\* Outside the four commits of a worker its step leaves the rows' states alone.
LEMMA WorkerSpares ==
  ASSUME IInv, NEW w \in Workers,
         WorkerStep(w) \/ SaveCheckpoint(w) \/ WorkerFault(w),
         ~(ClaimCommit(w) \/ ClaimDrop(w) \/ FinishCommit(w) \/ FailCommit(w))
  PROVE  job' = job /\ RunsSame
<1>1. CASE UNCHANGED <<job, runs>>
  BY <1>1 DEF RunsSame
<1>2. ASSUME NEW c \in {"none", "step", "review"}, ~WAt(w, "idle"),
             job' = job, runs' = [runs EXCEPT ![RunOf(w)].ckpt = c]
      PROVE  RunsSame
  <2> DEFINE r == RunOf(w)
             row == [runs[r] EXCEPT !.ckpt = c]
  <2>1. r \in 1 .. Len(runs) /\ runs \in Seq(RunRow)
    BY <1>2, RunOfOK DEF IInv, RowsOK
  <2>2. runs[r] \in RunRow
    BY <2>1, ElementOfSeq
  <2>3. row.status = runs[r].status /\ row.slot = runs[r].slot
    BY <2>2 DEF RunRow
  <2>4. runs' = [runs EXCEPT ![r] = row]
    BY <1>2, <2>2 DEF RunRow
  <2> HIDE DEF row, r
  <2>5. QED
    BY <2>1, <2>3, <2>4 DEF RunsSame
<1>3. CASE SaveCheckpoint(w)
  BY <1>2, <1>3 DEF SaveCheckpoint, WAt
<1>4. CASE \E o \in Outcomes \cup {"RAISED"} : GraphEnds(w, o)
  <2>1. PICK o : GraphEnds(w, o)
    BY <1>4
  <2>2. \/ UNCHANGED <<job, runs>>
        \/ \E c \in {"none", "step", "review"} :
             /\ ~WAt(w, "idle") /\ job' = job
             /\ runs' = [runs EXCEPT ![RunOf(w)].ckpt = c]
    BY <2>1 DEF GraphEnds, WAt
  <2>3. QED
    BY <1>1, <1>2, <2>2
<1>5. CASE \/ \E t \in DOMAIN tasks : Take(w, t)
           \/ ClaimRead(w) \/ ResumeLoad(w) \/ Begin(w) \/ Publish(w)
           \/ FinishRead(w) \/ Announce(w) \/ CreateReview(w) \/ FailRead(w)
           \/ WorkerFault(w)
  BY <1>1, <1>5
  DEF Take, ClaimRead, ResumeLoad, Begin, Publish, FinishRead, Announce,
      CreateReview, FailRead, WorkerFault, BeginFails, PublishFails,
      AnnounceFails, WorkerCrash, Terminate, rows
<1>6. QED
  BY <1>3, <1>4, <1>5 DEF WorkerStep

\* The four commits, on rows that are as the worker loaded them.
LEMMA WorkerCommits ==
  ASSUME IInv, NEW w \in Workers, Loaded(w),
         ClaimCommit(w) \/ ClaimDrop(w) \/ FinishCommit(w) \/ FailCommit(w)
  PROVE  /\ DOMAIN runs' = DOMAIN runs
         /\ \A q \in DOMAIN runs \ {RunOf(w)} : runs'[q] = runs[q]
         /\ runs'[RunOf(w)].status # "EXECUTING"
         /\ ClaimCommit(w) =>
              /\ job' = "RUNNING"
              /\ runs'[RunOf(w)].status = "INSPECTING"
              /\ runs'[RunOf(w)].slot = runs[RunOf(w)].slot
         /\ ~ClaimCommit(w) => ws'[w].pc \in {"idle", "announce"}
<1> DEFINE r == RunOf(w)
<1>0. /\ ~WAt(w, "idle") /\ r \in 1 .. Len(runs) /\ runs \in Seq(RunRow)
      /\ ws[w] \in WorkerState /\ ws \in [Workers -> WorkerState]
      /\ ws[w].status = runs[r].status /\ ws[w].slot = runs[r].slot
      /\ ws[w].slot \in BOOLEAN
  <2>1. ~WAt(w, "idle")
    BY DEF ClaimCommit, ClaimDrop, FinishCommit, FailCommit, WAt
  <2>2. QED
    BY <2>1, RunOfOK DEF IInv, RowsOK, WorkersOK, Loaded, WorkerState
<1>1. PICK status \in {"INSPECTING", "ERRORED", "COMPLETED", "WAITING_HUMAN"},
            slot \in BOOLEAN :
        /\ UpdateRun(r, ws[w], status, slot)
        /\ ClaimCommit(w) => status = "INSPECTING" /\ slot = ws[w].slot
  <2>1. CASE ClaimCommit(w)
    BY <1>0, <2>1 DEF ClaimCommit
  <2>2. CASE (ClaimDrop(w) \/ FailCommit(w)) /\ ~ClaimCommit(w)
    BY <1>0, <2>2 DEF ClaimDrop, FailCommit
  <2>3. CASE FinishCommit(w) /\ ~ClaimCommit(w)
    <3>1. RunResult(ws[w].outcome) \in {"ERRORED", "COMPLETED", "WAITING_HUMAN"}
      BY DEF RunResult
    <3>2. QED
      BY <1>0, <2>3, <3>1 DEF FinishCommit
  <2>4. QED
    BY <2>1, <2>2, <2>3
<1>2. status \in RunStates
  BY DEF RunStates
<1>3. /\ DOMAIN runs' = DOMAIN runs
      /\ runs'[r].status = status /\ runs'[r].slot = slot
      /\ \A q \in DOMAIN runs \ {r} : runs'[q] = runs[q]
  BY <1>0, <1>1, <1>2, FreshUpdate
<1>4. ClaimCommit(w) => job' = "RUNNING"
  BY DEF ClaimCommit, Store, Loaded
<1>5. ~ClaimCommit(w) => ws'[w].pc \in {"idle", "announce"}
  <2>1. ~ClaimCommit(w) => Ack(w) \/ WGoto(w, "announce")
    BY DEF ClaimDrop, FinishCommit, FailCommit
  <2>2. QED
    BY <1>0, <2>1 DEF Ack, WGoto, IdleWorker, WorkerState
<1>6. QED
  BY <1>0, <1>1, <1>3, <1>4, <1>5

\* While a worker moves, it keeps what it owns and takes what nobody owns.
LEMMA WorkersTurn ==
  ASSUME IInv, IInv', EventStep, TasksKept, Undisturbed, Work,
         NEW w \in Workers, Turn(w),
         WorkerStep(w) \/ SaveCheckpoint(w) \/ WorkerFault(w)
  PROVE  Work'
<1> DEFINE commits == \/ ClaimCommit(w) \/ ClaimDrop(w)
                      \/ FinishCommit(w) \/ FailCommit(w)
<1>1. /\ \A v \in Workers \ {w} : ws'[v] = ws[v] /\ ~InTx(v)
      /\ \A h \in Handlers : hs'[h] = hs[h] /\ ~At(h, "retry") /\ ~At(h, "rerun")
  BY Alone, WorkerArrives, WorkerEventsSame, ProcessesAssumption
  DEF Work, Undisturbed, InTx, At
<1>2. commits => Loaded(w) /\ ~WAt(w, "idle") /\ RunOf(w) \in DOMAIN runs
  <2>1. commits => InTx(w) /\ ~WAt(w, "idle")
    BY ProcessesAssumption
    DEF ClaimCommit, ClaimDrop, FinishCommit, FailCommit, InTx, WAt
  <2>2. QED
    BY <2>1, RunExists DEF Work, Claims
<1>3. ~commits => job' = job /\ RunsSame
  BY WorkerSpares
<1>4. Calm'
  <2>1. \A r \in DOMAIN runs' : runs'[r].status # "EXECUTING"
    BY <1>2, <1>3, WorkerCommits DEF Work, Calm, RunsSame
  <2>2. QED
    BY <1>1, <2>1 DEF Work, Calm, At
<1>5. ASSUME NEW v \in Workers \ {w}, Executing(v)
      PROVE  /\ ~commits /\ ~Executing(w)
             /\ Owns(v)'
  <2>1. ~WAt(v, "idle") /\ Owns(v) /\ ~Executing(w)
    BY <1>5 DEF Executing, WAt, Work, Claims
  <2>2. ~commits
    BY <2>1 DEF Owns, Work, Claims, ClaimCommit, ClaimDrop, FinishCommit,
                FailCommit, Executing, WAt
  <2>3. RunOf(v)' = RunOf(v) /\ RunOf(v) \in DOMAIN runs
    BY <1>1, <2>1, RunKept, RunExists
  <2>4. QED
    BY <1>3, <2>1, <2>2, <2>3 DEF Owns, RunsSame
<1>6. ASSUME Executing(w)', Executing(w)
      PROVE  Owns(w)'
  <2>1. /\ ~WAt(w, "idle") /\ Owns(w) /\ ws'[w].pc # "idle"
        /\ ~ClaimCommit(w)
    BY <1>6 DEF Executing, WAt, Work, Claims, ClaimCommit
  <2>2. ~commits
    BY <1>2, <1>6, <2>1, WorkerCommits DEF Executing
  <2>3. RunOf(w)' = RunOf(w) /\ RunOf(w) \in DOMAIN runs
    <3>1. ws'[w].task = ws[w].task
      BY <2>1, WorkerArrives DEF WAt, Work
    <3>2. QED
      BY <2>1, <3>1, RunKept, RunExists
  <2>4. QED
    BY <1>3, <2>1, <2>2, <2>3 DEF Owns, RunsSame
<1>7. ASSUME ClaimCommit(w)
      PROVE  /\ Owns(w)'
             /\ \A v \in Workers : ~Executing(v)
  <2>1. /\ WAt(w, "claim") /\ job = "QUEUED" /\ runs[RunOf(w)].slot
        /\ ~WAt(w, "idle")
    BY <1>7 DEF ClaimCommit, Work, Claims, WAt
  <2>2. RunOf(w)' = RunOf(w)
    <3>1. ws'[w].pc # "idle"
      BY <1>7 DEF ClaimCommit, WGoto, IInv, WorkersOK, WorkerState
    <3>2. QED
      BY <2>1, <3>1, RunKept, WorkerArrives DEF WAt, Work
  <2>3. \A v \in Workers : ~Executing(v)
    BY <2>1 DEF Work, Claims, Owns
  <2>4. QED
    BY <1>2, <1>7, <2>1, <2>2, <2>3, WorkerCommits DEF Owns
<1>8. InTx(w)' =>
        /\ Loaded(w)'
        /\ WAt(w, "claim")' => job' = "QUEUED" /\ runs'[RunOf(w)'].slot
        /\ WAt(w, "drop")' => job' = "CANCELLED"
  <2> SUFFICES ASSUME InTx(w)' PROVE
        /\ Loaded(w)'
        /\ WAt(w, "claim")' => job' = "QUEUED" /\ runs'[RunOf(w)'].slot
        /\ WAt(w, "drop")' => job' = "CANCELLED"
    OBVIOUS
  <2>1. /\ ws'[w].job = job
        /\ ws'[w].status = runs[RunOf(w)].status
        /\ ws'[w].slot = runs[RunOf(w)].slot
        /\ ~WAt(w, "idle")
        /\ ClaimRead(w) \/ FinishRead(w) \/ FailRead(w)
    BY WorkerArrives DEF Work
  <2>2. UNCHANGED <<job, runs>>
    BY <2>1 DEF ClaimRead, FinishRead, FailRead, rows
  <2>3. ws'[w].pc # "idle"
    BY ProcessesAssumption DEF InTx
  <2>4. RunOf(w)' = RunOf(w)
    BY <2>1, <2>3, RunKept, WorkerArrives DEF WAt, Work
  <2>5. QED
    BY <2>1, <2>2, <2>4, WorkerArrives DEF Loaded, Claimable, Work
<1>9. Claims'
  <2>1. ASSUME NEW v \in Workers
        PROVE  /\ InTx(v)' => Loaded(v)'
               /\ WAt(v, "claim")' => job' = "QUEUED" /\ runs'[RunOf(v)'].slot
               /\ WAt(v, "drop")' => job' = "CANCELLED"
               /\ Executing(v)' => Owns(v)'
    <3>1. CASE v = w
      <4>1. WAt(w, "claim")' \/ WAt(w, "drop")' => InTx(w)'
        BY ProcessesAssumption DEF InTx, WAt
      <4>2. Executing(w)' => Owns(w)'
        BY <1>6, <1>7, WorkerArrives DEF Work
      <4>3. QED
        BY <1>8, <3>1, <4>1, <4>2
    <3>2. CASE v # w
      <4>1. ws'[v] = ws[v] /\ ~InTx(v)
        BY <1>1, <3>2
      <4>2. ~InTx(v)' /\ ~WAt(v, "claim")' /\ ~WAt(v, "drop")'
        BY <4>1, ProcessesAssumption DEF InTx, WAt
      <4>3. Executing(v)' => Executing(v)
        BY <4>1 DEF Executing
      <4>4. QED
        BY <1>5, <3>2, <4>2, <4>3
    <3>3. QED
      BY <3>1, <3>2
  <2>2. ASSUME NEW u \in Workers, NEW v \in Workers, Executing(u)', Executing(v)'
        PROVE  u = v
    <3>1. \A x \in Workers \ {w} : Executing(x)' => Executing(x)
      BY <1>1 DEF Executing
    <3>2. Executing(w)' => Executing(w) \/ ClaimCommit(w)
      BY WorkerArrives DEF Work
    <3>3. QED
      BY <1>5, <1>7, <2>2, <3>1, <3>2 DEF Work, Claims
  <2>3. QED
    BY <2>1, <2>2 DEF Claims
<1>10. QED
  BY <1>4, <1>9 DEF Work

LEMMA WorkStep ==
  ASSUME Undisturbed, IInv, IInv', Work, [Next]_vars
  PROVE  Work'
<1>1. EventStep /\ TasksKept
  BY EveryStep
<1>2. CASE UNCHANGED vars
  BY <1>2
  DEF vars, Work, Calm, Claims, At, WAt, Executing, Owns, Loaded, RunOf, InTx
<1>3. CASE \E t \in DOMAIN tasks : Redeliver(t)
  <2>1. UNCHANGED <<job, runs, hs, ws, outbox>>
    BY <1>3 DEF Redeliver, rows
  <2>2. ASSUME NEW w \in Workers, ~WAt(w, "idle")
        PROVE  RunOf(w)' = RunOf(w)
    BY <1>1, <2>1, <2>2, RunKept
  <2>3. Calm'
    BY <2>1 DEF Work, Calm, At
  <2>4. ASSUME NEW w \in Workers
        PROVE  /\ InTx(w)' => Loaded(w)'
               /\ WAt(w, "claim")' => job' = "QUEUED" /\ runs'[RunOf(w)'].slot
               /\ WAt(w, "drop")' => job' = "CANCELLED"
               /\ Executing(w)' => Owns(w)'
    <3>1. InTx(w) \/ WAt(w, "claim") \/ Executing(w) => ~WAt(w, "idle")
      BY ProcessesAssumption DEF InTx, WAt, Executing
    <3>2. /\ InTx(w)' <=> InTx(w)
          /\ Executing(w)' <=> Executing(w)
          /\ \A pc \in {"claim", "drop"} : WAt(w, pc)' <=> WAt(w, pc)
      BY <2>1 DEF InTx, Executing, WAt
    <3>3. QED
      BY <2>1, <2>2, <3>1, <3>2 DEF Work, Claims, Loaded, Owns
  <2>5. QED
    BY <2>1, <2>3, <2>4 DEF Work, Claims, Executing
<1>4. ASSUME NEW h \in Handlers, Turn(h),
             Request(h) \/ HandlerStep(h) \/ HandlerFault(h)
      PROVE  Work'
  BY <1>1, <1>4, ClientsTurn
<1>5. ASSUME NEW w \in Workers, Turn(w),
             WorkerStep(w) \/ SaveCheckpoint(w) \/ WorkerFault(w)
      PROVE  Work'
  BY <1>1, <1>5, WorkersTurn
<1>6. QED
  BY <1>2, <1>3, <1>4, <1>5 DEF Next

LEMMA WorkHolds ==
  ASSUME Undisturbed
  PROVE  Spec => []Work
<1>1. Init => Work
  BY DEF Init, Work, Calm, Claims, IdleHandler, IdleWorker, At, WAt, InTx,
         Executing, Disturbing
<1>2. IInv /\ IInv' /\ Work /\ [Next]_vars => Work'
  BY WorkStep
<1>3. QED
  BY <1>1, <1>2, RefsCorrect, PTL DEF Spec

\* A run is executed by one worker at a time and an event is sent by one
\* publisher, whatever the broker delivers twice and whoever dies.
THEOREM WorkedOnce ==
  ASSUME Undisturbed
  PROVE  Spec => []OneAtATime
<1>1. Work => ExclusiveExecution
  BY DEF Work, Claims, ExclusiveExecution
<1>2. Serialized
  BY DEF Undisturbed
<1>3. Spec => []OnePublisher
  BY <1>2, OneSends
<1>4. QED
  BY <1>1, <1>3, WorkHolds, PTL DEF OneAtATime

\* The rows agree with the worker that executes a run: nobody finishes, fails
\* or requeues the job under it.
THEOREM WorkerOwnsJob ==
  ASSUME Undisturbed
  PROVE  Spec => []ExecutionOwnsJob
<1>1. Work => ExecutionOwnsJob
  BY DEF Work, Claims, ExecutionOwnsJob, Owns
<1>2. QED
  BY <1>1, WorkHolds, PTL

-----------------------------------------------------------------------------
(* The queue                                                               *)

\* The row and the task of an event overlap between the send and the mark.
\* The invariant counts only the task in that window: the mark then takes
\* nothing away, whoever has consumed the task meanwhile, and a publisher
\* that dies in it gives the row back.

\* A task about event e is at the broker, or with a worker that has not yet
\* claimed its run.
InTransit(e) ==
  \/ \E t \in DOMAIN tasks : tasks[t].event = e /\ tasks[t].copies > 0
  \/ \E w \in Workers :
       ws[w].pc \in {"read", "claim"} /\ tasks[ws[w].task].event = e

\* A publisher has sent event e and has not yet marked it.
Sent(e) == \E h \in Handlers : hs[h].pc \in {"note", "done"} /\ hs[h].event = e

\* Event e will reach a worker: between the send and the mark it counts only
\* by its task, so that the mark takes nothing away.
Carried(e) ==
  \/ InTransit(e)
  \/ outbox[e].status # "PUBLISHED" /\ ~Sent(e)

\* Run r can be claimed when the job is queued.
Waits(r) == runs[r].slot /\ runs[r].status = "INITIALIZING"

\* Nothing is resumed or revoked.
NoResume == \A e \in DOMAIN outbox : outbox[e].kind # "resume"
NoRevoke == \A t \in DOMAIN tasks : ~tasks[t].revoked
Plain == NoResume /\ NoRevoke

\* A client that retries a run has loaded what its row says.
RetryFresh ==
  \A h \in Handlers :
    At(h, "retry") => /\ hs[h].status = runs[hs[h].run].status
                      /\ hs[h].slot = runs[hs[h].run].slot

Represented ==
  job = "QUEUED" =>
    \E e \in DOMAIN outbox : Waits(outbox[e].run) /\ Carried(e)

Queue == Plain /\ RetryFresh /\ Represented

-----------------------------------------------------------------------------
(* Clients                                                                 *)

\* The row of an event that was just added, by a handler that goes on to drain.
LEMMA NewEventCarried ==
  ASSUME IInv, IInv', NEW h \in Handlers,
         NEW kind \in {"start", "retry", "rerun"}, NEW r \in Nat,
         Emit(kind, r), Drain(h)
  PROVE  \E e \in DOMAIN outbox' : outbox'[e].run = r /\ Carried(e)'
<1> PICK e : e = Len(outbox) + 1
  OBVIOUS
<1>1. /\ outbox \in Seq(EventRow) /\ outbox' \in Seq(EventRow)
      /\ hs \in [Handlers -> HandlerState]
      /\ \A g \in Handlers : HandlerRef(hs[g], Len(runs), Len(outbox), tasks)
  BY DEF IInv, RowsOK, HandlersOK
<1>2. /\ Len(outbox') = e /\ Len(outbox) \in Nat
      /\ outbox'[e].run = r /\ outbox'[e].status = "PENDING"
  BY <1>1, EmitRow
<1>3. e \in DOMAIN outbox'
  BY <1>1, <1>2
<1>4. \A g \in Handlers : hs'[g].pc \in {"note", "done"} => hs'[g].event # e
  <2>1. ASSUME NEW g \in Handlers \ {h}, hs'[g].pc \in {"note", "done"}
        PROVE  hs'[g].event # e
    <3>1. hs'[g] = hs[g]
      BY <1>1 DEF Drain
    <3>2. hs[g].event \in 1 .. Len(outbox)
      BY <1>1, <2>1, <3>1 DEF HandlerRef
    <3>3. QED
      BY <1>2, <3>1, <3>2
  <2>2. hs'[h].pc = "drain"
    BY <1>1 DEF Drain, IdleHandler
  <2>3. QED
    BY <2>1, <2>2
<1>5. Carried(e)'
  BY <1>2, <1>4 DEF Carried, Sent
<1>6. QED
  BY <1>2, <1>3, <1>5

\* A client that takes the job leaves it represented.
LEMMA TakesJob ==
  ASSUME IInv, IInv', Undisturbed, Work, RetryFresh, NEW h \in Handlers,
         StartCommit(h) \/ RetryCommit(h) \/ RerunCommit(h),
         ~UNCHANGED rows
  PROVE  Represented'
<1>0. /\ runs \in Seq(RunRow) /\ runs' \in Seq(RunRow) /\ outbox \in Seq(EventRow)
      /\ Len(runs) \in Nat
      /\ HandlerRef(hs[h], Len(runs), Len(outbox), tasks)
  BY DEF IInv, RowsOK, HandlersOK
<1>1. ASSUME NEW kind \in {"start", "rerun"}, CreateRun(kind), Drain(h)
      PROVE  Represented'
  <2>1. /\ runs' = Append(runs, [status |-> "INITIALIZING", slot |-> TRUE,
                                 task |-> 0, ckpt |-> "none"])
        /\ Emit(kind, Len(runs) + 1)
    BY <1>1 DEF CreateRun
  <2>2. /\ runs'[Len(runs) + 1].status = "INITIALIZING"
        /\ runs'[Len(runs) + 1].slot
    BY <1>0, <2>1
  <2>3. PICK e \in DOMAIN outbox' : outbox'[e].run = Len(runs) + 1 /\ Carried(e)'
    BY <1>0, <1>1, <2>1, NewEventCarried
  <2>4. QED
    BY <2>2, <2>3 DEF Represented, Waits
<1>2. CASE StartCommit(h)
  <2>1. CreateRun("start") /\ Drain(h)
    BY <1>2 DEF StartCommit
  <2>2. QED
    BY <1>1, <2>1
<1>3. CASE RerunCommit(h)
  <2>1. CreateRun("rerun") /\ Drain(h)
    BY <1>3 DEF RerunCommit
  <2>2. QED
    BY <1>1, <2>1
<1>4. CASE RetryCommit(h)
  <2> DEFINE r == hs[h].run
  <2>1. /\ UpdateRun(r, hs[h], "INITIALIZING", TRUE) /\ Emit("retry", r) /\ Drain(h)
        /\ r \in 1 .. Len(runs)
        /\ hs[h].status = runs[r].status /\ hs[h].slot = runs[r].slot
    BY <1>0, <1>4 DEF RetryCommit, RetryFresh, HandlerRef, At
  <2>2. runs'[r].status = "INITIALIZING" /\ runs'[r].slot = TRUE
    BY <1>0, <2>1, FreshUpdate DEF RunStates
  <2>3. r \in Nat
    BY <1>0, <2>1
  <2>4. PICK e \in DOMAIN outbox' : outbox'[e].run = r /\ Carried(e)'
    BY <2>1, <2>3, NewEventCarried
  <2>5. QED
    BY <2>2, <2>4 DEF Represented, Waits
<1>5. QED
  BY <1>2, <1>3, <1>4

\* An event that was on its way stays on its way while a client moves.
LEMMA ClientsCarry ==
  ASSUME IInv, IInv', Undisturbed, Work, NEW h \in Handlers,
         Request(h) \/ HandlerStep(h) \/ HandlerFault(h),
         NEW e \in DOMAIN outbox, Carried(e)
  PROVE  Carried(e)'
<1>0. /\ UNCHANGED ws
      /\ \A g \in Handlers \ {h} : hs'[g] = hs[g]
      /\ Holding(h)' => hs'[h].event = hs[h].event
      /\ At(h, "note")' => Send(h)
      /\ At(h, "done")' => Note(h)
  BY CalmHandler, CalmRows, HandlerArrives DEF Work
<1>1. UNCHANGED tasks \/ Send(h)
  BY CalmHandler
  DEF Work, StartRead, Replay, RetryRead, RerunRead, StartCommit, RetryCommit,
      RerunCommit, DrainScan, BatchEnd, BatchNext, ClaimEvent, Note, Unsend,
      Done, SendFails, NoteFails, HandlerCrash
<1>2. ASSUME Send(h)
      PROVE  /\ \A t \in DOMAIN tasks : t \in DOMAIN tasks' /\ tasks'[t] = tasks[t]
             /\ \E t \in DOMAIN tasks' :
                  tasks'[t].event = hs[h].event /\ tasks'[t].copies > 0
  <2> DEFINE task == [event |-> hs[h].event, copies |-> 1, revoked |-> FALSE]
  <2>1. tasks \in Seq(TaskRow) /\ Len(tasks) \in Nat
        /\ hs[h].event \in Nat /\ tasks' = Append(tasks, task)
    <3>1. hs[h] \in HandlerState /\ tasks \in Seq(TaskRow)
      BY DEF IInv, RowsOK, HandlersOK
    <3>2. QED
      BY <1>2, <3>1 DEF HandlerState, Send
  <2>2. task \in TaskRow /\ task.event = hs[h].event /\ task.copies > 0
    BY <2>1 DEF TaskRow
  <2> HIDE DEF task
  <2>3. /\ Len(tasks') = Len(tasks) + 1 /\ tasks'[Len(tasks) + 1] = task
        /\ \A t \in 1 .. Len(tasks) : tasks'[t] = tasks[t]
        /\ tasks' \in Seq(TaskRow)
    BY <2>1, <2>2, AppendProperties
  <2>4. /\ DOMAIN tasks = 1 .. Len(tasks)
        /\ DOMAIN tasks' = 1 .. (Len(tasks) + 1)
        /\ Len(tasks) + 1 \in DOMAIN tasks'
    BY <2>1, <2>3
  <2>5. QED
    BY <2>1, <2>2, <2>3, <2>4
<1>3. CASE InTransit(e)
  <2>1. CASE UNCHANGED tasks
    BY <1>0, <1>3, <2>1 DEF InTransit, Carried
  <2>2. CASE Send(h)
    <3>1. CASE \E t \in DOMAIN tasks : tasks[t].event = e /\ tasks[t].copies > 0
      BY <1>2, <2>2, <3>1 DEF InTransit, Carried
    <3>2. ASSUME NEW w \in Workers, ws[w].pc \in {"read", "claim"},
                 tasks[ws[w].task].event = e
          PROVE  InTransit(e)'
      <4>1. ws[w].task \in DOMAIN tasks
        <5>1. ws[w].task \in 1 .. Len(tasks) /\ tasks \in Seq(TaskRow)
          BY <3>2 DEF IInv, RowsOK, WorkersOK
        <5>2. QED
          BY <5>1
      <4>2. tasks'[ws'[w].task].event = e /\ ws'[w].pc \in {"read", "claim"}
        BY <1>0, <1>2, <2>2, <3>2, <4>1
      <4>3. QED
        BY <4>2 DEF InTransit
    <3>3. QED
      BY <1>3, <3>1, <3>2 DEF InTransit, Carried
  <2>3. QED
    BY <1>1, <2>1, <2>2
<1>4. CASE outbox[e].status # "PUBLISHED" /\ ~Sent(e)
  <2>1. CASE Send(h) /\ hs[h].event = e
    BY <1>2, <2>1 DEF InTransit, Carried
  <2>2. CASE ~(Send(h) /\ hs[h].event = e)
    <3>1. ~Sent(e)'
      <4>1. ASSUME NEW g \in Handlers, hs'[g].pc \in {"note", "done"},
                   hs'[g].event = e
            PROVE  FALSE
        <5>1. CASE g # h
          BY <1>0, <1>4, <4>1, <5>1 DEF Sent
        <5>2. CASE g = h /\ At(h, "note")'
          BY <1>0, <2>2, <4>1, <5>2 DEF Holding, At
        <5>3. CASE g = h /\ At(h, "done")'
          BY <1>0, <1>4, <4>1, <5>3 DEF Sent, Holding, Note, At
        <5>4. QED
          BY <4>1, <5>1, <5>2, <5>3 DEF At
      <4>2. QED
        BY <4>1 DEF Sent
    <3>2. outbox'[e].status # "PUBLISHED"
      <4>1. CASE ~(ClaimEvent(h) \/ Unsend(h) \/ Done(h))
        BY <1>4, <4>1, HandlerEventsSame DEF EventsSame
      <4>2. CASE ClaimEvent(h) \/ Unsend(h) \/ Done(h)
        <5>1. PICK status \in {"PENDING", "PUBLISHING", "PUBLISHED"} :
                /\ SetStatus(hs[h].event, status)
                /\ status = "PUBLISHED" => hs[h].pc = "done"
          BY <4>2 DEF ClaimEvent, Unsend, Done, At
        <5>2. At(h, "claim") \/ Holding(h)
          BY <4>2 DEF ClaimEvent, Unsend, Done, At, Holding
        <5>. outbox \in Seq(EventRow) /\ DOMAIN outbox = 1 .. Len(outbox)
          BY DEF IInv, RowsOK
        <5>3. hs[h].event \in 1 .. Len(outbox)
          BY <5>2, HeldExists
        <5>4. outbox'[e].status = IF e = hs[h].event THEN status
                                  ELSE outbox[e].status
          BY <5>1, <5>3, SetStatusRow
        <5>5. QED
          BY <1>4, <5>1, <5>4 DEF Sent
      <4>3. QED
        BY <4>1, <4>2
    <3>3. QED
      BY <3>1, <3>2 DEF Carried
  <2>3. QED
    BY <2>1, <2>2
<1>5. QED
  BY <1>3, <1>4 DEF Carried

\* A client's step keeps a queued job represented.
LEMMA ClientsRepresent ==
  ASSUME IInv, IInv', EventStep, Undisturbed, Work, RetryFresh, Represented,
         NEW h \in Handlers, Request(h) \/ HandlerStep(h) \/ HandlerFault(h)
  PROVE  Represented'
<1>1. CASE \/ (StartCommit(h) \/ RetryCommit(h) \/ RerunCommit(h)) /\ ~UNCHANGED rows
  BY <1>1, TakesJob
<1>2. ASSUME job' = job, RunsSame
      PROVE  Represented'
  <2> SUFFICES ASSUME job' = "QUEUED" PROVE
        \E e \in DOMAIN outbox' : Waits(outbox[e].run)' /\ Carried(e)'
    BY DEF Represented
  <2>1. PICK e \in DOMAIN outbox : Waits(outbox[e].run) /\ Carried(e)
    BY <1>2 DEF Represented
  <2>2. Carried(e)'
    BY <2>1, ClientsCarry
  <2>3. e \in DOMAIN outbox' /\ outbox'[e].run = outbox[e].run
    BY <2>1, OutboxGrows
  <2>4. outbox[e].run \in DOMAIN runs
    <3>1. e \in 1 .. Len(outbox) /\ outbox[e].run \in 1 .. Len(runs)
          /\ runs \in Seq(RunRow)
      BY <2>1 DEF IInv, RowsOK
    <3>2. QED
      BY <3>1
  <2>5. QED
    BY <1>2, <2>1, <2>2, <2>3, <2>4 DEF Waits, RunsSame
<1>3. CASE Note(h)
  <2> DEFINE r == outbox[hs[h].event].run
             row == [runs[r] EXCEPT !.task = hs[h].task]
  <2>1. r \in 1 .. Len(runs) /\ runs \in Seq(RunRow)
    <3>1. hs[h].event \in 1 .. Len(outbox)
      BY <1>3 DEF Note, At, HandlerRef, IInv, HandlersOK
    <3>2. QED
      BY <3>1 DEF IInv, RowsOK
  <2>2. runs[r] \in RunRow
    BY <2>1, ElementOfSeq
  <2>3. row.status = runs[r].status /\ row.slot = runs[r].slot
    BY <2>2 DEF RunRow
  <2>4. runs' = [runs EXCEPT ![r] = row] /\ job' = job
    BY <1>3, <2>2 DEF Note, RunRow
  <2> HIDE DEF row
  <2>5. RunsSame
    BY <2>1, <2>3, <2>4 DEF RunsSame
  <2>6. QED
    BY <1>2, <2>4, <2>5
<1>4. CASE \/ StartRead(h) \/ Replay(h) \/ RetryRead(h) \/ RerunRead(h)
           \/ DrainScan(h) \/ BatchEnd(h) \/ BatchNext(h) \/ ClaimEvent(h)
           \/ Send(h) \/ Unsend(h) \/ Done(h)
           \/ SendFails(h) \/ NoteFails(h) \/ HandlerCrash(h)
           \/ UNCHANGED rows
  <2>1. UNCHANGED <<job, runs>>
    BY <1>4
    DEF StartRead, Replay, RetryRead, RerunRead, DrainScan, BatchEnd, BatchNext,
        ClaimEvent, Send, Unsend, Done, SendFails, NoteFails, HandlerCrash, rows
  <2>2. QED
    BY <1>2, <2>1 DEF RunsSame
<1>5. QED
  BY <1>1, <1>3, <1>4, CalmHandler DEF Work

\* What a client that retries has loaded.
LEMMA ClientsFresh ==
  ASSUME IInv, Undisturbed, Work, NEW h \in Handlers, Turn(h),
         Request(h) \/ HandlerStep(h) \/ HandlerFault(h)
  PROVE  RetryFresh'
<1>1. \A g \in Handlers \ {h} : ~At(g, "retry")'
  BY Alone, HandlerArrives DEF Undisturbed, At
<1>2. ASSUME RetryRead(h)
      PROVE  /\ hs'[h].status = runs'[hs'[h].run].status
             /\ hs'[h].slot = runs'[hs'[h].run].slot
  <2> DEFINE r == Len(runs)
             run == runs[r]
             s == [hs[h] EXCEPT !.pc = "retry", !.job = job, !.run = r,
                                !.status = run.status, !.slot = run.slot]
  <2>0. hs[h] \in HandlerState /\ hs \in [Handlers -> HandlerState]
    BY DEF IInv, HandlersOK
  <2>1. hs' = [hs EXCEPT ![h] = s]
    BY <1>2, <2>0 DEF RetryRead, HandlerState
  <2>2. s.run = r /\ s.status = run.status /\ s.slot = run.slot
    BY <2>0 DEF HandlerState
  <2>3. runs' = runs
    BY <1>2 DEF RetryRead, rows
  <2> HIDE DEF s
  <2>4. hs'[h] = s
    BY <2>0, <2>1
  <2>5. QED
    BY <2>2, <2>3, <2>4
<1>3. At(h, "retry")' => RetryRead(h)
  BY CalmHandler DEF Work
<1>4. QED
  BY <1>1, <1>2, <1>3 DEF RetryFresh, At

\* Clients that do not decide a review resume nothing.
LEMMA ClientsReturn ==
  ASSUME IInv, IInv', EventStep, Undisturbed, Work, Plain, NEW h \in Handlers,
         Request(h) \/ HandlerStep(h) \/ HandlerFault(h)
  PROVE  NoResume'
<1>1. ASSUME NEW kind \in {"start", "retry", "rerun"}, NEW r \in Nat, Emit(kind, r)
      PROVE  NoResume'
  <2>1. /\ outbox \in Seq(EventRow) /\ Len(outbox) \in Nat
        /\ outbox' = Append(outbox, [kind |-> kind, run |-> r, status |-> "PENDING"])
    BY <1>1 DEF IInv, RowsOK, Emit
  <2> DEFINE row == [kind |-> kind, run |-> r, status |-> "PENDING"]
  <2>2. row \in EventRow /\ row.kind # "resume"
    BY DEF EventRow
  <2> HIDE DEF row
  <2>3. /\ outbox' \in Seq(EventRow) /\ Len(outbox') = Len(outbox) + 1
        /\ outbox'[Len(outbox) + 1] = row
        /\ \A e \in 1 .. Len(outbox) : outbox'[e] = outbox[e]
    BY <2>1, <2>2, AppendProperties DEF row
  <2>4. /\ DOMAIN outbox = 1 .. Len(outbox)
        /\ DOMAIN outbox' = 1 .. (Len(outbox) + 1)
    BY <2>1, <2>3
  <2>5. QED
    BY <2>1, <2>2, <2>3, <2>4 DEF Plain, NoResume
<1>2. CASE UNCHANGED outbox
  BY <1>2 DEF Plain, NoResume
<1>3. CASE StartCommit(h) \/ RetryCommit(h) \/ RerunCommit(h)
  <2>1. hs[h].run \in Nat /\ Len(runs) + 1 \in Nat
    <3>1. hs[h] \in HandlerState
      BY DEF IInv, HandlersOK
    <3>2. hs[h].run \in Nat
      BY <3>1 DEF HandlerState
    <3>3. runs \in Seq(RunRow)
      BY DEF IInv, RowsOK
    <3>4. Len(runs) \in Nat
      BY <3>3
    <3>5. QED
      BY <3>2, <3>4
  <2>2. \/ UNCHANGED outbox
        \/ Emit("start", Len(runs) + 1) \/ Emit("rerun", Len(runs) + 1)
        \/ Emit("retry", hs[h].run)
    BY <1>3 DEF StartCommit, RetryCommit, RerunCommit, CreateRun, rows
  <2>3. QED
    BY <1>1, <1>2, <2>1, <2>2
<1>4. CASE ClaimEvent(h) \/ Unsend(h) \/ Done(h)
  <2>1. PICK status \in {"PENDING", "PUBLISHING", "PUBLISHED"} :
          SetStatus(hs[h].event, status)
    BY <1>4 DEF ClaimEvent, Unsend, Done
  <2>2. At(h, "claim") \/ Holding(h)
    BY <1>4 DEF ClaimEvent, Unsend, Done, At, Holding
  <2>3. outbox \in Seq(EventRow) /\ hs[h].event \in 1 .. Len(outbox)
    <3>1. outbox \in Seq(EventRow) /\ hs[h].event \in DOMAIN outbox
      BY <2>2, HeldExists DEF IInv, RowsOK
    <3>2. QED
      BY <3>1
  <2>4. /\ outbox' \in Seq(EventRow) /\ Len(outbox') = Len(outbox)
        /\ \A e \in 1 .. Len(outbox) : outbox'[e].kind = outbox[e].kind
    BY <2>1, <2>3, SetStatusRow
  <2>5. DOMAIN outbox' = 1 .. Len(outbox) /\ DOMAIN outbox = 1 .. Len(outbox)
    BY <2>3, <2>4
  <2>6. QED
    BY <2>4, <2>5 DEF Plain, NoResume
<1>5. CASE \/ StartRead(h) \/ Replay(h) \/ RetryRead(h) \/ RerunRead(h)
           \/ DrainScan(h) \/ BatchEnd(h) \/ BatchNext(h) \/ Send(h) \/ Note(h)
           \/ SendFails(h) \/ NoteFails(h) \/ HandlerCrash(h)
  BY <1>2, <1>5
  DEF StartRead, Replay, RetryRead, RerunRead, DrainScan, BatchEnd, BatchNext,
      Send, Note, SendFails, NoteFails, HandlerCrash, rows
<1>6. QED
  BY <1>3, <1>4, <1>5, CalmHandler DEF Work

\* Clients that do not cancel revoke nothing.
LEMMA ClientsRevoke ==
  ASSUME IInv, Undisturbed, Work, Plain, NEW h \in Handlers,
         Request(h) \/ HandlerStep(h) \/ HandlerFault(h)
  PROVE  NoRevoke'
<1>1. CASE UNCHANGED tasks
  BY <1>1 DEF Plain, NoRevoke
<1>2. CASE Send(h)
  <2> DEFINE task == [event |-> hs[h].event, copies |-> 1, revoked |-> FALSE]
  <2>1. /\ tasks \in Seq(TaskRow) /\ Len(tasks) \in Nat
        /\ hs[h].event \in Nat /\ tasks' = Append(tasks, task)
    <3>1. hs[h] \in HandlerState /\ tasks \in Seq(TaskRow)
      BY DEF IInv, RowsOK, HandlersOK
    <3>2. QED
      BY <1>2, <3>1 DEF HandlerState, Send
  <2>2. task \in TaskRow /\ ~task.revoked
    BY <2>1 DEF TaskRow
  <2> HIDE DEF task
  <2>3. /\ Len(tasks') = Len(tasks) + 1 /\ tasks'[Len(tasks) + 1] = task
        /\ \A t \in 1 .. Len(tasks) : tasks'[t] = tasks[t]
        /\ tasks' \in Seq(TaskRow)
    BY <2>1, <2>2, AppendProperties
  <2>4. /\ DOMAIN tasks = 1 .. Len(tasks)
        /\ DOMAIN tasks' = 1 .. (Len(tasks) + 1)
    BY <2>1, <2>3
  <2>5. QED
    BY <2>1, <2>2, <2>3, <2>4 DEF Plain, NoRevoke
<1>3. UNCHANGED tasks \/ Send(h)
  BY CalmHandler
  DEF Work, StartRead, Replay, RetryRead, RerunRead, StartCommit, RetryCommit,
      RerunCommit, DrainScan, BatchEnd, BatchNext, ClaimEvent, Note, Unsend,
      Done, SendFails, NoteFails, HandlerCrash
<1>4. QED
  BY <1>1, <1>2, <1>3

-----------------------------------------------------------------------------
(* Workers                                                                 *)

\* A worker takes one delivery off the broker; if it dies the broker has it
\* again.
LEMMA WorkerTasks ==
  ASSUME IInv, NEW w \in Workers,
         WorkerStep(w) \/ SaveCheckpoint(w) \/ WorkerFault(w)
  PROVE  /\ DOMAIN tasks' = DOMAIN tasks
         /\ \A t \in DOMAIN tasks :
              /\ tasks'[t].event = tasks[t].event
              /\ tasks'[t].revoked = tasks[t].revoked
              /\ tasks[t].copies > 0 => tasks'[t].copies > 0 \/ Take(w, t)
         /\ WorkerCrash(w) => /\ ws[w].task \in DOMAIN tasks
                              /\ tasks'[ws[w].task].copies > 0
<1>0. tasks \in Seq(TaskRow)
  BY DEF IInv, RowsOK
<1>1. ASSUME NEW t \in DOMAIN tasks, NEW c \in Nat,
             tasks' = [tasks EXCEPT ![t].copies = c]
      PROVE  /\ DOMAIN tasks' = DOMAIN tasks
             /\ \A u \in DOMAIN tasks : /\ tasks'[u].event = tasks[u].event
                                        /\ tasks'[u].revoked = tasks[u].revoked
             /\ \A u \in DOMAIN tasks \ {t} : tasks'[u] = tasks[u]
             /\ tasks'[t].copies = c
  <2> DEFINE row == [tasks[t] EXCEPT !.copies = c]
  <2>1. tasks[t] \in TaskRow
    BY <1>0, ElementOfSeq
  <2>2. /\ row.event = tasks[t].event /\ row.revoked = tasks[t].revoked
        /\ row.copies = c
    BY <2>1 DEF TaskRow
  <2>3. tasks' = [tasks EXCEPT ![t] = row]
    BY <1>1
  <2> HIDE DEF row
  <2>4. QED
    BY <1>0, <2>2, <2>3
<1>2. WorkerCrash(w) => ws[w].task \in DOMAIN tasks
  BY <1>0, RunOfOK DEF WorkerCrash
<1>3. CASE \E t \in DOMAIN tasks : Take(w, t)
  <2>1. PICK t \in DOMAIN tasks : Take(w, t)
    BY <1>3
  <2>2. tasks[t] \in TaskRow /\ tasks[t].copies > 0
    BY <1>0, <2>1, ElementOfSeq DEF Take
  <2>3. tasks[t].copies - 1 \in Nat
    BY <2>2 DEF TaskRow
  <2>4. tasks' = [tasks EXCEPT ![t].copies = tasks[t].copies - 1]
    BY <2>1 DEF Take
  <2>5. ~WorkerCrash(w)
    BY <2>1 DEF Take, WorkerCrash, WAt
  <2>6. QED
    BY <1>1, <2>1, <2>3, <2>4, <2>5
<1>4. CASE WorkerCrash(w)
  <2>0. PICK t \in DOMAIN tasks : t = ws[w].task
    BY <1>2, <1>4
  <2>1. tasks[t] \in TaskRow
    BY <1>0, ElementOfSeq
  <2>2. tasks[t].copies + 1 \in Nat /\ tasks[t].copies + 1 > 0
    BY <2>1 DEF TaskRow
  <2>3. tasks' = [tasks EXCEPT ![t].copies = tasks[t].copies + 1]
    BY <1>4, <2>0 DEF WorkerCrash
  <2>4. PICK m \in Nat : m = tasks[t].copies + 1
    BY <2>2
  <2>5. tasks' = [tasks EXCEPT ![t].copies = m] /\ m > 0
    BY <2>2, <2>3, <2>4
  <2>6. /\ DOMAIN tasks' = DOMAIN tasks
        /\ \A u \in DOMAIN tasks : /\ tasks'[u].event = tasks[u].event
                                   /\ tasks'[u].revoked = tasks[u].revoked
        /\ \A u \in DOMAIN tasks \ {t} : tasks'[u] = tasks[u]
        /\ tasks'[t].copies = m
    BY <1>1, <2>5
  <2>7. \A u \in DOMAIN tasks : tasks[u].copies > 0 => tasks'[u].copies > 0
    BY <2>5, <2>6
  <2>8. tasks'[ws[w].task].copies > 0 /\ ws[w].task \in DOMAIN tasks
    BY <2>0, <2>5, <2>6
  <2>9. QED
    BY <2>6, <2>7, <2>8
<1>5. CASE UNCHANGED tasks /\ ~WorkerCrash(w)
  BY <1>5
<1>6. ASSUME ~(\E t \in DOMAIN tasks : Take(w, t)), ~WorkerCrash(w)
      PROVE  UNCHANGED tasks
  <2>1. CASE WorkerStep(w)
    BY <1>6, <2>1
    DEF WorkerStep, ClaimRead, ClaimCommit, ClaimDrop, ResumeLoad, Begin,
        GraphEnds, Publish, FinishRead, FinishCommit, Announce, CreateReview,
        FailRead, FailCommit
  <2>2. CASE SaveCheckpoint(w) \/ WorkerFault(w)
    BY <1>6, <2>2
    DEF SaveCheckpoint, WorkerFault, BeginFails, PublishFails, AnnounceFails,
        Terminate
  <2>3. QED
    BY <2>1, <2>2
<1>7. QED
  BY <1>3, <1>4, <1>5, <1>6

\* A worker that takes a task reads the run it is about, since none resumes.
LEMMA TakesToRead ==
  ASSUME IInv, Plain, NEW w \in Workers, NEW t \in DOMAIN tasks, Take(w, t)
  PROVE  ws'[w].pc = "read" /\ ws'[w].task = t
<1>0. ws \in [Workers -> WorkerState] /\ ws[w] \in WorkerState
  BY DEF IInv, WorkersOK
<1>1. outbox[tasks[t].event].kind # "resume"
  <2>1. tasks \in Seq(TaskRow) /\ outbox \in Seq(EventRow)
        /\ \A u \in 1 .. Len(tasks) : tasks[u].event \in 1 .. Len(outbox)
    BY DEF IInv, RowsOK
  <2>2. tasks[t].event \in DOMAIN outbox
    BY <2>1
  <2>3. QED
    BY <2>2 DEF Plain, NoResume
<1> DEFINE s == [ws[w] EXCEPT !.task = t, !.pc = "read"]
<1>2. ws' = [ws EXCEPT ![w] = s]
  BY <1>0, <1>1 DEF Take, WorkerState
<1>3. s.pc = "read" /\ s.task = t
  BY <1>0 DEF WorkerState
<1> HIDE DEF s
<1>4. QED
  BY <1>0, <1>2, <1>3

\* A task about a run that waits is only lost to a worker that claims the run.
LEMMA WorkersCarry ==
  ASSUME IInv, IInv', Undisturbed, Work, Plain, NEW w \in Workers,
         WorkerStep(w) \/ SaveCheckpoint(w) \/ WorkerFault(w),
         NEW e \in DOMAIN outbox, job = "QUEUED", Waits(outbox[e].run),
         Carried(e), ~ClaimCommit(w)
  PROVE  Carried(e)'
<1>0. /\ ws \in [Workers -> WorkerState] /\ tasks \in Seq(TaskRow)
      /\ UNCHANGED <<outbox, hs>>
      /\ \A v \in Workers \ {w} : ws'[v] = ws[v]
      /\ ws'[w].pc # "idle" /\ ws[w].pc # "idle" => ws'[w].task = ws[w].task
  BY WorkerEventsSame, WorkerArrives DEF IInv, RowsOK, WorkersOK, Work
<1>1. CASE outbox[e].status # "PUBLISHED" /\ ~Sent(e)
  BY <1>0, <1>1 DEF Carried, Sent
<1>2. ASSUME NEW t \in DOMAIN tasks, tasks[t].event = e, tasks[t].copies > 0
      PROVE  InTransit(e)'
  <2>1. CASE Take(w, t)
    <3>1. ws'[w].pc = "read" /\ tasks'[ws'[w].task].event = e
      BY <1>2, <2>1, TakesToRead, WorkerTasks
    <3>2. QED
      BY <3>1 DEF InTransit
  <2>2. CASE ~Take(w, t)
    BY <1>2, <2>2, WorkerTasks DEF InTransit
  <2>3. QED
    BY <2>1, <2>2
<1>3. ASSUME NEW v \in Workers, ws[v].pc \in {"read", "claim"},
             tasks[ws[v].task].event = e
      PROVE  InTransit(e)'
  <2>1. ws[v].task \in DOMAIN tasks
    <3>1. ws[v].task \in 1 .. Len(tasks)
      BY <1>3 DEF IInv, WorkersOK
    <3>2. QED
      BY <1>0, <3>1
  <2>2. tasks'[ws[v].task].event = e /\ ws[v].task \in DOMAIN tasks'
    BY <1>3, <2>1, WorkerTasks
  <2>3. CASE v # w
    BY <1>0, <1>3, <2>2, <2>3 DEF InTransit
  <2>4. CASE v = w /\ WorkerCrash(w)
    BY <2>2, <2>4, WorkerTasks DEF InTransit
  <2>5. CASE v = w /\ ClaimRead(w)
    <3>1. RunOf(w) = outbox[e].run
      BY <1>3, <2>5 DEF RunOf
    <3>2. Claimable(RunOf(w)) /\ job # "CANCELLED"
      BY <3>1 DEF Claimable, Waits
    <3>3. WLoad(w, "claim")
      BY <2>5, <3>2 DEF ClaimRead
    <3>4. ws'[w].pc = "claim"
      <4> DEFINE run == runs[RunOf(w)]
                 s == [ws[w] EXCEPT !.pc = "claim", !.job = job,
                                    !.status = run.status, !.slot = run.slot]
      <4>1. ws' = [ws EXCEPT ![w] = s] /\ ws[w] \in WorkerState
        BY <1>0, <3>3 DEF WLoad, WorkerState
      <4>2. s.pc = "claim"
        BY <4>1 DEF WorkerState
      <4> HIDE DEF s
      <4>3. QED
        BY <1>0, <4>1, <4>2
    <3>5. tasks'[ws'[w].task].event = e
      BY <1>0, <1>3, <2>2, <2>5, <3>4
    <3>6. QED
      BY <3>4, <3>5 DEF InTransit
  <2>6. CASE v = w /\ ~WorkerCrash(w) /\ ~ClaimRead(w)
    <3>1. ~Terminate(w)
      BY <2>1, <2>6 DEF Terminate, Plain, NoRevoke
    <3>2. ws[w].pc \in {"read", "claim"}
      BY <1>3, <2>6
    <3>3. QED
      BY <2>6, <3>1, <3>2
      DEF WorkerStep, Take, ClaimCommit, ClaimDrop, ResumeLoad, Begin, GraphEnds,
          Publish, FinishRead, FinishCommit, Announce, CreateReview, FailRead,
          FailCommit, SaveCheckpoint, WorkerFault, BeginFails, PublishFails,
          AnnounceFails, WAt
  <2>7. QED
    BY <2>3, <2>4, <2>5, <2>6
<1>4. QED
  BY <1>1, <1>2, <1>3 DEF Carried, InTransit

\* Nor does a worker put the job back in the queue.
LEMMA WorkersRepresent ==
  ASSUME IInv, IInv', Undisturbed, Work, Plain, Represented, NEW w \in Workers,
         WorkerStep(w) \/ SaveCheckpoint(w) \/ WorkerFault(w)
  PROVE  Represented'
<1> SUFFICES ASSUME job' = "QUEUED" PROVE Represented'
  BY DEF Represented
<1>1. ClaimCommit(w) \/ ClaimDrop(w) \/ FinishCommit(w) \/ FailCommit(w) =>
        Loaded(w) /\ InTx(w) /\ RunOf(w) \in DOMAIN runs
  <2>1. ClaimCommit(w) \/ ClaimDrop(w) \/ FinishCommit(w) \/ FailCommit(w) =>
          InTx(w) /\ ~WAt(w, "idle")
    BY ProcessesAssumption
    DEF ClaimCommit, ClaimDrop, FinishCommit, FailCommit, InTx, WAt
  <2>2. QED
    BY <2>1, RunExists DEF Work, Claims
<1>2. ~ClaimCommit(w)
  BY <1>1, WorkerCommits
<1>3. ~FinishCommit(w)
  <2> SUFFICES ASSUME FinishCommit(w) PROVE FALSE
    OBVIOUS
  <2>1. job = "RUNNING" /\ ws[w].job = "RUNNING"
    BY <1>1 DEF FinishCommit, WAt, Work, Claims, Executing, Owns, Loaded
  <2>2. JobResult(ws[w].outcome) # "QUEUED"
    BY DEF JobResult
  <2>3. QED
    BY <2>1, <2>2 DEF FinishCommit, Late, Store
<1>4. ~FailCommit(w)
  <2> SUFFICES ASSUME FailCommit(w) PROVE FALSE
    OBVIOUS
  <2>1. job = "RUNNING" /\ ws[w].job = "RUNNING"
    BY <1>1 DEF FailCommit, WAt, Work, Claims, Executing, Owns, Loaded
  <2>2. QED
    BY <2>1 DEF FailCommit, Late, Store
<1>5. ~ClaimDrop(w)
  BY DEF ClaimDrop, WAt, Work, Claims
<1>6. job' = job /\ RunsSame
  BY <1>2, <1>3, <1>4, <1>5, WorkerSpares
<1>7. PICK e \in DOMAIN outbox : Waits(outbox[e].run) /\ Carried(e)
  BY <1>6 DEF Represented
<1>8. Carried(e)' /\ outbox' = outbox
  BY <1>2, <1>6, <1>7, WorkersCarry, WorkerEventsSame
<1>9. outbox[e].run \in DOMAIN runs
  <2>1. e \in 1 .. Len(outbox) /\ outbox[e].run \in 1 .. Len(runs)
        /\ runs \in Seq(RunRow)
    BY <1>7 DEF IInv, RowsOK
  <2>2. QED
    BY <2>1
<1>10. QED
  BY <1>6, <1>7, <1>8, <1>9 DEF Represented, Waits, RunsSame

-----------------------------------------------------------------------------

LEMMA QueueStep ==
  ASSUME Undisturbed, IInv, IInv', Work, Queue, [Next]_vars
  PROVE  Queue'
<1>1. EventStep
  BY EveryStep
<1>2. CASE UNCHANGED vars
  BY <1>2
  DEF vars, Queue, Plain, NoResume, NoRevoke, RetryFresh, Represented, Waits,
      Carried, InTransit, Sent, At
<1>3. CASE \E t \in DOMAIN tasks : Redeliver(t)
  <2>1. PICK t \in DOMAIN tasks : Redeliver(t)
    BY <1>3
  <2> DEFINE row == [tasks[t] EXCEPT !.copies = 1]
  <2>2. tasks[t] \in TaskRow /\ tasks \in Seq(TaskRow)
    BY ElementOfSeq DEF IInv, RowsOK
  <2>3. /\ row.event = tasks[t].event /\ row.revoked = tasks[t].revoked
        /\ row.copies = 1
    BY <2>2 DEF TaskRow
  <2>4. tasks' = [tasks EXCEPT ![t] = row] /\ UNCHANGED <<job, runs, outbox, hs, ws>>
    BY <2>1 DEF Redeliver, rows
  <2> HIDE DEF row
  <2>5. /\ DOMAIN tasks' = DOMAIN tasks
        /\ \A u \in DOMAIN tasks :
             /\ tasks'[u].event = tasks[u].event
             /\ tasks'[u].revoked = tasks[u].revoked
             /\ tasks[u].copies > 0 => tasks'[u].copies > 0
    BY <2>2, <2>3, <2>4
  <2>6. \A w \in Workers : ws[w].pc # "idle" => ws[w].task \in DOMAIN tasks
    <3>1. \A w \in Workers : ws[w].pc # "idle" => ws[w].task \in 1 .. Len(tasks)
      BY DEF IInv, WorkersOK
    <3>2. QED
      BY <2>2, <3>1
  <2>7. \A e \in DOMAIN outbox : Carried(e) => Carried(e)'
    <3>1. \A e \in DOMAIN outbox : InTransit(e) => InTransit(e)'
      BY <2>4, <2>5, <2>6 DEF InTransit
    <3>2. QED
      BY <2>4, <3>1 DEF Carried, Sent
  <2>8. Represented'
    BY <2>4, <2>7 DEF Queue, Represented, Waits
  <2>9. Plain' /\ RetryFresh'
    BY <2>4, <2>5 DEF Queue, Plain, NoResume, NoRevoke, RetryFresh, At
  <2>10. QED
    BY <2>8, <2>9 DEF Queue
<1>4. ASSUME NEW h \in Handlers, Turn(h),
             Request(h) \/ HandlerStep(h) \/ HandlerFault(h)
      PROVE  Queue'
  BY <1>1, <1>4, ClientsRepresent, ClientsFresh, ClientsReturn, ClientsRevoke
  DEF Queue, Plain
<1>5. ASSUME NEW w \in Workers, Turn(w),
             WorkerStep(w) \/ SaveCheckpoint(w) \/ WorkerFault(w)
      PROVE  Queue'
  <2>1. Plain'
    BY <1>5, WorkerTasks, WorkerEventsSame DEF Queue, Plain, NoResume, NoRevoke
  <2>2. RetryFresh'
    BY <1>5, Alone, WorkerEventsSame, ProcessesAssumption
    DEF Undisturbed, RetryFresh, At
  <2>3. Represented'
    BY <1>5, WorkersRepresent DEF Queue
  <2>4. QED
    BY <2>1, <2>2, <2>3 DEF Queue
<1>6. QED
  BY <1>2, <1>3, <1>4, <1>5 DEF Next

\* A queued job is never lost: whoever dies, whatever send raises and whatever
\* the broker delivers twice, an unsent row or a task that is still to be
\* claimed names the run that waits.
THEOREM QueuedNeverLost ==
  ASSUME Undisturbed
  PROVE  Spec => []QueuedIsRepresented
<1>1. Init => Queue
  BY DEF Init, Queue, Plain, NoResume, NoRevoke, RetryFresh, Represented,
         IdleHandler, At
<1>2. IInv /\ IInv' /\ Work /\ Queue /\ [Next]_vars => Queue'
  BY QueueStep
<1>3. IInv /\ Queue => QueuedIsRepresented
  <2> SUFFICES ASSUME IInv, Queue, job = "QUEUED" PROVE QueuedIsRepresented
    BY DEF QueuedIsRepresented
  <2>1. PICK e \in DOMAIN outbox : Waits(outbox[e].run) /\ Carried(e)
    BY DEF Queue, Represented
  <2> DEFINE r == outbox[e].run
  <2>2. r \in ActiveRuns /\ runs[r].status = "INITIALIZING"
    <3>1. e \in 1 .. Len(outbox) /\ r \in 1 .. Len(runs)
          /\ runs \in Seq(RunRow)
      BY <2>1 DEF IInv, RowsOK
    <3>2. r \in DOMAIN runs
      BY <3>1
    <3>3. QED
      BY <2>1, <3>2 DEF Waits, ActiveRuns
  <2>3. CASE InTransit(e)
    <3>0. outbox[e].kind # "resume" /\ \A t \in DOMAIN tasks : ~tasks[t].revoked
      BY <2>1 DEF Queue, Plain, NoResume, NoRevoke
    <3>1. ASSUME NEW t \in DOMAIN tasks, tasks[t].event = e, tasks[t].copies > 0
          PROVE  OnItsWay(r)
      BY <3>0, <3>1 DEF OnItsWay
    <3>2. ASSUME NEW w \in Workers, ws[w].pc \in {"read", "claim"},
                 tasks[ws[w].task].event = e
          PROVE  OnItsWay(r)
      BY <3>2 DEF OnItsWay, RunOf
    <3>3. OnItsWay(r)
      BY <2>3, <3>1, <3>2 DEF InTransit
    <3>4. QED
      BY <2>2, <3>3 DEF QueuedIsRepresented
  <2>4. CASE outbox[e].status # "PUBLISHED"
    BY <2>1, <2>2, <2>4 DEF QueuedIsRepresented
  <2>5. QED
    BY <2>1, <2>3, <2>4 DEF Carried
<1>4. QED
  BY <1>1, <1>2, <1>3, WorkHolds, RefsCorrect, PTL DEF Spec

=============================================================================
