---------------------- MODULE JobControlLifecycle_proofs ----------------------
(***************************************************************************)
(* The status row keeps the promise of JobLifecycle, a worker has the job  *)
(* for itself also where clients cancel and reviewers decide, what has     *)
(* ended stays, and a review leads on, for any sets of handlers and        *)
(* workers and any bounds.                                                 *)
(*                                                                         *)
(* The argument is in layers.  Where transactions do not overlap, what a   *)
(* process has loaded is what the rows say when it commits (Fresh), so a   *)
(* commit sets one run and the status to what a table of a few lines lists *)
(* (ClientWrites, WorkerWritesNow).  A run has the slot while it works     *)
(* (SlotsMean).  An event makes one task and one worker has it (SentOnce), *)
(* so an approved review is resumed once.  With these, a worker that       *)
(* executes owns the job, and nobody else does (Ownership): its result is  *)
(* written to a job that runs, or was cancelled.  Without a rerun the run  *)
(* that waits is the only one (OnlyRun), at the checkpoint that asked      *)
(* (Reported); one review at a time is asked for, open or carried out      *)
(* (OneAsks), and while the job needs one there is one (SomeoneAsks).      *)
(***************************************************************************)
EXTENDS JobControlWork_proofs

-----------------------------------------------------------------------------
(* Transactions                                                            *)

\* What a handler has loaded of its run is what the row says.
LoadedRun(h) ==
  /\ hs[h].status = runs[hs[h].run].status
  /\ hs[h].slot = runs[hs[h].run].slot

\* What a handler has loaded is what the rows say, and what it asked of them
\* before it loaded them still holds.
HandlerFresh(h) ==
  /\ At(h, "retry") => hs[h].job = job /\ job = "FAILED" /\ LoadedRun(h)
  /\ At(h, "rerun") => hs[h].job = job /\ job \in Promise!Rerunnable
  /\ At(h, "cancel") =>
       /\ hs[h].job = job
       /\ IF hs[h].run = 0 THEN ActiveRuns = {}
          ELSE hs[h].run \in ActiveRuns /\ LoadedRun(h)
  /\ At(h, "resume") =>
       /\ hs[h].job = job /\ job = "NEEDS_REVIEW" /\ LoadedRun(h)
       /\ hs[h].status = "WAITING_HUMAN"
       /\ hs[h].decision # "MATERIALS_REQUESTED"

WorkerFresh(w) ==
  /\ InTx(w) => Loaded(w)
  /\ WAt(w, "claim") => Claimable(RunOf(w))
  /\ WAt(w, "drop") => job = "CANCELLED" /\ runs[RunOf(w)].slot

Fresh ==
  /\ \A h \in Handlers : HandlerFresh(h)
  /\ \A w \in Workers : WorkerFresh(w)

\* Where a step leaves a handler, and by which action if it matters.
HandlerIsNow(h) ==
  \/ hs'[h].pc \in {"idle", "start", "drain", "batch", "note", "done"}
  \/ hs'[h].pc = "look" /\ CancelLook(h)
  \/ hs'[h].pc = "decided" /\ \E v \in DOMAIN reviews, d \in Decisions : Decide(h, v, d)
  \/ hs'[h].pc = "revoke" /\ CancelCommit(h)
  \/ hs'[h].pc = "claim" /\ BatchNext(h)
  \/ hs'[h].pc = "send" /\ ClaimEvent(h)
  \/ hs'[h].pc = "unsend" /\ (SendFails(h) \/ NoteFails(h))
  \/ /\ hs'[h].pc = "retry" /\ RetryRead(h)
     /\ hs'[h].job = job /\ hs'[h].run = Len(runs)
     /\ hs'[h].status = runs[Len(runs)].status
     /\ hs'[h].slot = runs[Len(runs)].slot
  \/ hs'[h].pc = "rerun" /\ RerunRead(h) /\ hs'[h].job = job
  \/ /\ hs'[h].pc = "cancel" /\ CancelRead(h) /\ hs'[h].job = job
     /\ \/ hs'[h].run = 0 /\ ActiveRuns = {}
        \/ /\ hs'[h].run \in ActiveRuns
           /\ hs'[h].status = runs[hs'[h].run].status
           /\ hs'[h].slot = runs[hs'[h].run].slot
  \/ /\ hs'[h].pc = "resume" /\ ResumeRead(h)
     /\ hs'[h].job = job /\ job = "NEEDS_REVIEW" /\ hs'[h].run = touched
     /\ hs'[h].status = runs[touched].status
     /\ hs'[h].slot = runs[touched].slot
     /\ hs'[h].status = "WAITING_HUMAN"
     /\ hs'[h].decision = hs[h].decision
     /\ hs[h].decision # "MATERIALS_REQUESTED"

LEMMA HandlerGoes ==
  ASSUME IInv, NEW h \in Handlers,
         Request(h) \/ HandlerStep(h) \/ HandlerFault(h)
  PROVE  /\ \A g \in Handlers \ {h} : hs'[g] = hs[g]
         /\ HandlerIsNow(h)
<1>0. /\ hs[h] \in HandlerState /\ hs \in [Handlers -> HandlerState]
      /\ hs[h].pc = "look" => hs[h].run = 0
  BY DEF IInv, HandlersOK, HandlerRef
<1> DEFINE others == \A g \in Handlers \ {h} : hs'[g] = hs[g]
<1>1. ASSUME Drain(h) \/ Respond(h)
      PROVE  others /\ hs'[h].pc \in {"idle", "drain"}
  BY <1>0, <1>1 DEF Drain, Respond, IdleHandler
<1>2. ASSUME NEW pc \in {"start", "send", "unsend", "done", "revoke"}, Goto(h, pc)
      PROVE  others /\ hs'[h].pc = pc
  BY <1>0, <1>2 DEF Goto, HandlerState
<1>3. CASE \/ Replay(h) \/ StartCommit(h) \/ RetryCommit(h) \/ RerunCommit(h)
           \/ BatchEnd(h) \/ HandlerCrash(h) \/ Revoke(h) \/ ResumeApproved(h)
           \/ ResumeRejected(h)
  <2>1. Drain(h) \/ Respond(h)
    BY <1>3
    DEF Replay, StartCommit, RetryCommit, RerunCommit, BatchEnd, HandlerCrash,
        Revoke, ResumeApproved, ResumeRejected
  <2>2. QED
    BY <1>1, <2>1 DEF HandlerIsNow
<1>4. CASE \/ StartRead(h) \/ ClaimEvent(h) \/ Note(h) \/ SendFails(h)
           \/ NoteFails(h) \/ CancelCommit(h)
  <2>1. CASE StartRead(h)
    BY <1>1, <1>2, <2>1 DEF StartRead, HandlerIsNow
  <2>2. CASE ClaimEvent(h)
    BY <1>2, <2>2 DEF ClaimEvent, HandlerIsNow
  <2>3. CASE Note(h)
    BY <1>2, <2>3 DEF Note, HandlerIsNow
  <2>4. CASE SendFails(h) \/ NoteFails(h)
    <3>1. Goto(h, "unsend")
      BY <2>4 DEF SendFails, NoteFails
    <3>2. QED
      BY <1>2, <2>4, <3>1 DEF HandlerIsNow
  <2>5. CASE CancelCommit(h)
    <3>1. Respond(h) \/ Goto(h, "revoke")
      BY <2>5 DEF CancelCommit
    <3>2. QED
      BY <1>1, <1>2, <2>5, <3>1 DEF HandlerIsNow
  <2>6. QED
    BY <1>4, <2>1, <2>2, <2>3, <2>4, <2>5
<1>5. CASE CancelLook(h)
  <2>1. PICK id : hs' = [hs EXCEPT ![h] = [hs[h] EXCEPT !.pc = "look", !.task = id]]
    BY <1>0, <1>5 DEF CancelLook, HandlerState
  <2>2. QED
    BY <1>0, <1>5, <2>1 DEF HandlerState, HandlerIsNow
<1>6. CASE \E v \in DOMAIN reviews, d \in Decisions : Decide(h, v, d)
  <2>1. PICK v \in DOMAIN reviews, d \in Decisions : Decide(h, v, d)
    BY <1>6
  <2>2. hs' = [hs EXCEPT ![h] = [hs[h] EXCEPT !.pc = "decided", !.decision = d]]
    BY <1>0, <2>1 DEF Decide, HandlerState
  <2>3. others /\ hs'[h].pc = "decided"
    BY <1>0, <2>2 DEF HandlerState
  <2>4. QED
    BY <1>6, <2>3 DEF HandlerIsNow
<1>7. CASE DrainScan(h) \/ Unsend(h) \/ Done(h)
  <2>1. others /\ hs'[h].pc = "batch"
    BY <1>0, <1>7 DEF DrainScan, Unsend, Done, HandlerState
  <2>2. QED
    BY <2>1 DEF HandlerIsNow
<1>8. CASE Send(h)
  <2>1. others /\ hs'[h].pc = "note"
    BY <1>0, <1>8 DEF Send, HandlerState
  <2>2. QED
    BY <2>1 DEF HandlerIsNow
<1>9. CASE BatchNext(h)
  <2>1. PICK e \in hs[h].batch :
          \/ hs' = [hs EXCEPT ![h] = [hs[h] EXCEPT !.batch = hs[h].batch \ {e},
                                                   !.event = e, !.pc = "claim"]]
          \/ hs' = [hs EXCEPT ![h] = [hs[h] EXCEPT !.batch = hs[h].batch \ {e}]]
    BY <1>0, <1>9 DEF BatchNext, HandlerState
  <2>2. hs[h].pc = "batch"
    BY <1>9 DEF BatchNext, At
  <2>3. others /\ hs'[h].pc \in {"batch", "claim"}
    BY <1>0, <2>1, <2>2 DEF HandlerState
  <2>4. QED
    BY <1>9, <2>3 DEF HandlerIsNow
<1>10. CASE RetryRead(h)
  <2> DEFINE run == runs[Len(runs)]
             s == [hs[h] EXCEPT !.pc = "retry", !.job = job, !.run = Len(runs),
                                !.status = run.status, !.slot = run.slot]
  <2>1. hs' = [hs EXCEPT ![h] = s]
    BY <1>0, <1>10 DEF RetryRead, HandlerState
  <2>2. /\ s.pc = "retry" /\ s.job = job /\ s.run = Len(runs)
        /\ s.status = runs[Len(runs)].status /\ s.slot = runs[Len(runs)].slot
    BY <1>0 DEF HandlerState
  <2> HIDE DEF s
  <2>3. others /\ hs'[h] = s
    BY <1>0, <2>1
  <2>4. QED
    BY <1>10, <2>2, <2>3 DEF HandlerIsNow
<1>11. CASE RerunRead(h)
  <2>1. others /\ hs'[h].pc = "rerun" /\ hs'[h].job = job
    BY <1>0, <1>11 DEF RerunRead, HandlerState
  <2>2. QED
    BY <1>11, <2>1 DEF HandlerIsNow
<1>12. CASE CancelRead(h)
  <2>1. CASE ActiveRuns = {} /\ hs' = [hs EXCEPT ![h].pc = "cancel", ![h].job = job]
    <3>1. others /\ hs'[h].pc = "cancel" /\ hs'[h].job = job /\ hs'[h].run = hs[h].run
      BY <1>0, <2>1 DEF HandlerState
    <3>2. hs[h].run = 0
      BY <1>0, <1>12 DEF CancelRead, At
    <3>3. QED
      BY <1>12, <2>1, <3>1, <3>2 DEF HandlerIsNow
  <2>2. ASSUME NEW r \in ActiveRuns,
               hs' = [hs EXCEPT ![h].pc = "cancel", ![h].job = job, ![h].run = r,
                                ![h].status = runs[r].status,
                                ![h].slot = runs[r].slot]
        PROVE  others /\ HandlerIsNow(h)
    <3> DEFINE run == runs[r]
               s == [hs[h] EXCEPT !.pc = "cancel", !.job = job, !.run = r,
                                  !.status = run.status, !.slot = run.slot]
    <3>1. hs' = [hs EXCEPT ![h] = s]
      BY <1>0, <2>2
    <3>2. /\ s.pc = "cancel" /\ s.job = job /\ s.run = r
          /\ s.status = runs[r].status /\ s.slot = runs[r].slot
      BY <1>0 DEF HandlerState
    <3> HIDE DEF s
    <3>3. others /\ hs'[h] = s
      BY <1>0, <3>1
    <3>4. QED
      BY <1>12, <3>2, <3>3 DEF HandlerIsNow
  <2>3. QED
    BY <1>12, <2>1, <2>2 DEF CancelRead
<1>13. CASE ResumeRead(h)
  <2> DEFINE run == runs[touched]
             s == [hs[h] EXCEPT !.pc = "resume", !.job = job, !.run = touched,
                                !.status = run.status, !.slot = run.slot]
  <2>1. \/ Respond(h)
        \/ /\ job = "NEEDS_REVIEW" /\ run.status = "WAITING_HUMAN"
           /\ hs[h].decision # "MATERIALS_REQUESTED"
           /\ hs' = [hs EXCEPT ![h] = s]
    BY <1>0, <1>13 DEF ResumeRead
  <2>2. /\ s.pc = "resume" /\ s.job = job /\ s.run = touched
        /\ s.status = runs[touched].status /\ s.slot = runs[touched].slot
        /\ s.decision = hs[h].decision
    BY <1>0 DEF HandlerState
  <2> HIDE DEF s
  <2>3. CASE Respond(h)
    BY <1>1, <2>3 DEF HandlerIsNow
  <2>4. CASE ~Respond(h)
    <3>1. others /\ hs'[h] = s
      BY <1>0, <2>1, <2>4
    <3>2. QED
      BY <1>13, <2>1, <2>2, <2>4, <3>1 DEF HandlerIsNow
  <2>5. QED
    BY <2>3, <2>4
<1>14. QED
  BY <1>3, <1>4, <1>5, <1>6, <1>7, <1>8, <1>9, <1>10, <1>11, <1>12, <1>13
  DEF Request, HandlerStep, HandlerFault


\* What a worker has just loaded.
LoadsNow(w) ==
  /\ ws'[w].job = job
  /\ ws'[w].status = runs[RunOf(w)].status
  /\ ws'[w].slot = runs[RunOf(w)].slot

\* Where a step leaves a worker, and by which action if it matters.
WorkerIsNow(w) ==
  \/ ws'[w].pc = "idle"
  \/ \E t \in DOMAIN tasks :
       /\ Take(w, t) /\ ws'[w].task = t
       /\ ws'[w].pc = IF outbox[tasks[t].event].kind = "resume" THEN "load" ELSE "read"
  \/ /\ ws'[w].task = ws[w].task /\ ws[w].pc # "idle"
     /\ \/ ws'[w].pc = "claim" /\ ClaimRead(w) /\ Claimable(RunOf(w)) /\ LoadsNow(w)
        \/ /\ ws'[w].pc = "drop" /\ ClaimRead(w) /\ LoadsNow(w)
           /\ job = "CANCELLED" /\ runs[RunOf(w)].slot
        \/ ws'[w].pc = "finish" /\ FinishRead(w) /\ LoadsNow(w)
        \/ ws'[w].pc = "fail" /\ FailRead(w) /\ LoadsNow(w)
        \/ ws'[w].pc = "begin" /\ ClaimCommit(w)
        \/ /\ ws'[w].pc = "begin" /\ ResumeLoad(w)
           /\ runs[RunOf(w)].status = "EXECUTING" /\ job = "RUNNING"
        \/ ws'[w].pc = "failread" /\ AnnounceFails(w)
        \/ /\ ws'[w].pc \in {"graph", "publish", "finread", "failread"}
           /\ ws[w].pc \in {"begin", "graph", "publish"}
        \/ /\ ws'[w].pc = "announce" /\ FinishCommit(w) /\ ~Late(w)
           /\ ws'[w].outcome = ws[w].outcome
        \/ /\ ws'[w].pc = "review" /\ Announce(w)
           /\ ws'[w].outcome = "NEEDS_REVIEW" /\ ws[w].outcome = "NEEDS_REVIEW"

LEMMA WorkerGoes ==
  ASSUME IInv, NEW w \in Workers,
         WorkerStep(w) \/ SaveCheckpoint(w) \/ WorkerFault(w)
  PROVE  /\ \A v \in Workers \ {w} : ws'[v] = ws[v]
         /\ WorkerIsNow(w)
<1>0. ws[w] \in WorkerState /\ ws \in [Workers -> WorkerState]
  BY DEF IInv, WorkersOK
<1> DEFINE others == \A v \in Workers \ {w} : ws'[v] = ws[v]
<1>1. ASSUME Ack(w) PROVE others /\ ws'[w].pc = "idle"
  BY <1>0, <1>1 DEF Ack, IdleWorker
<1>2. ASSUME NEW pc \in {"begin", "finread", "announce", "review", "failread"},
             WGoto(w, pc)
      PROVE  /\ others /\ ws'[w].pc = pc /\ ws'[w].task = ws[w].task
             /\ ws'[w].outcome = ws[w].outcome
  BY <1>0, <1>2 DEF WGoto, WorkerState
<1>3. ASSUME NEW pc \in {"claim", "drop", "finish", "fail"}, WLoad(w, pc)
      PROVE  /\ others /\ ws'[w].pc = pc /\ ws'[w].task = ws[w].task
             /\ LoadsNow(w)
  <2> DEFINE run == runs[RunOf(w)]
             s == [ws[w] EXCEPT !.pc = pc, !.job = job, !.status = run.status,
                                !.slot = run.slot]
  <2>1. ws' = [ws EXCEPT ![w] = s]
    BY <1>0, <1>3 DEF WLoad, WorkerState
  <2>2. /\ s.pc = pc /\ s.task = ws[w].task /\ s.job = job
        /\ s.status = runs[RunOf(w)].status /\ s.slot = runs[RunOf(w)].slot
    BY <1>0 DEF WorkerState
  <2> HIDE DEF s
  <2>3. others /\ ws'[w] = s
    BY <1>0, <2>1
  <2>4. QED
    BY <2>2, <2>3 DEF LoadsNow
<1>4. CASE \/ ClaimDrop(w) \/ CreateReview(w) \/ FailCommit(w) \/ BeginFails(w)
           \/ WorkerCrash(w) \/ Terminate(w)
  <2>1. Ack(w)
    BY <1>4
    DEF ClaimDrop, CreateReview, FailCommit, BeginFails, WorkerCrash, Terminate
  <2>2. QED
    BY <1>1, <2>1 DEF WorkerIsNow
<1>5. CASE ClaimRead(w)
  <2>1. ws[w].pc = "read"
    BY <1>5 DEF ClaimRead, WAt
  <2>2. \/ WLoad(w, "drop") /\ job = "CANCELLED" /\ runs[RunOf(w)].slot
        \/ WLoad(w, "claim") /\ Claimable(RunOf(w))
        \/ Ack(w)
    BY <1>5 DEF ClaimRead
  <2>3. QED
    BY <1>1, <1>3, <1>5, <2>1, <2>2 DEF WorkerIsNow
<1>6. CASE FinishRead(w) \/ FailRead(w)
  <2>1. /\ ws[w].pc \in {"finread", "failread"}
        /\ \/ WLoad(w, "finish") /\ FinishRead(w)
           \/ WLoad(w, "fail") /\ FailRead(w)
    BY <1>6 DEF FinishRead, FailRead, WAt
  <2>2. QED
    BY <1>3, <2>1 DEF WorkerIsNow
<1>7. CASE ResumeLoad(w)
  <2>1. /\ ws[w].pc = "load"
        /\ \/ Ack(w)
           \/ /\ WGoto(w, "begin")
              /\ runs[RunOf(w)].status = "EXECUTING" /\ job = "RUNNING"
    BY <1>7 DEF ResumeLoad, WAt
  <2>2. QED
    BY <1>1, <1>2, <1>7, <2>1 DEF WorkerIsNow
<1>8. CASE AnnounceFails(w)
  <2>1. ws[w].pc \in {"announce", "review"} /\ WGoto(w, "failread")
    BY <1>8 DEF AnnounceFails, WAt
  <2>2. QED
    BY <1>2, <1>8, <2>1 DEF WorkerIsNow
<1>9. CASE ClaimCommit(w)
  <2>1. ws[w].pc = "claim" /\ WGoto(w, "begin")
    BY <1>9 DEF ClaimCommit, WAt
  <2>2. QED
    BY <1>2, <1>9, <2>1 DEF WorkerIsNow
<1>10. CASE FinishCommit(w)
  <2>1. ws[w].pc = "finish" /\ (Ack(w) \/ (WGoto(w, "announce") /\ ~Late(w)))
    BY <1>10 DEF FinishCommit, WAt
  <2>2. QED
    BY <1>1, <1>2, <1>10, <2>1 DEF WorkerIsNow
<1>11. CASE Announce(w)
  <2>1. /\ ws[w].pc = "announce"
        /\ \/ Ack(w)
           \/ WGoto(w, "review") /\ ws[w].outcome = "NEEDS_REVIEW"
    BY <1>11 DEF Announce, WAt
  <2>2. QED
    BY <1>1, <1>2, <1>11, <2>1 DEF WorkerIsNow
<1>12. CASE Publish(w) \/ PublishFails(w)
  <2>1. /\ WGoto(w, "failread") \/ WGoto(w, "finread")
        /\ ws[w].pc = "publish"
    BY <1>12 DEF Publish, PublishFails, WAt
  <2>2. QED
    BY <1>2, <2>1 DEF WorkerIsNow
<1>13. CASE Begin(w)
  <2> DEFINE from == IF Resuming(w) THEN runs[RunOf(w)].ckpt ELSE "none"
             s == [ws[w] EXCEPT !.pc = "graph", !.from = from]
  <2>1. ws' = [ws EXCEPT ![w] = s] /\ ws[w].pc = "begin"
    BY <1>0, <1>13 DEF Begin, WorkerState, WAt
  <2>2. s.pc = "graph" /\ s.task = ws[w].task
    BY <1>0 DEF WorkerState
  <2> HIDE DEF s
  <2>3. others /\ ws'[w] = s
    BY <1>0, <2>1
  <2>4. QED
    BY <2>1, <2>2, <2>3 DEF WorkerIsNow
<1>14. CASE \E o \in Outcomes \cup {"RAISED"} : GraphEnds(w, o)
  <2>1. PICK o : GraphEnds(w, o)
    BY <1>14
  <2>2. PICK pc \in {"failread", "publish", "finread"} :
          /\ ws[w].pc = "graph"
          /\ ws' = [ws EXCEPT ![w] = [ws[w] EXCEPT !.outcome = o, !.pc = pc]]
    BY <1>0, <2>1 DEF GraphEnds, WorkerState, WAt
  <2> DEFINE s == [ws[w] EXCEPT !.outcome = o, !.pc = pc]
  <2>3. s.pc = pc /\ s.task = ws[w].task
    BY <1>0 DEF WorkerState
  <2>4. ws' = [ws EXCEPT ![w] = s]
    BY <2>2
  <2> HIDE DEF s
  <2>5. others /\ ws'[w] = s
    BY <1>0, <2>4
  <2>6. QED
    BY <2>2, <2>3, <2>5 DEF WorkerIsNow
<1>15. CASE \E t \in DOMAIN tasks : Take(w, t)
  <2>1. PICK t \in DOMAIN tasks : Take(w, t)
    BY <1>15
  <2> DEFINE pc == IF outbox[tasks[t].event].kind = "resume" THEN "load" ELSE "read"
             s == [ws[w] EXCEPT !.task = t, !.pc = pc]
  <2>2. s.pc = pc /\ s.task = t
    BY <1>0 DEF WorkerState
  <2>3. ws' = [ws EXCEPT ![w] = s]
    BY <1>0, <2>1 DEF Take, WorkerState
  <2> HIDE DEF s
  <2>4. others /\ ws'[w] = s
    BY <1>0, <2>3
  <2>5. QED
    BY <2>1, <2>2, <2>4 DEF WorkerIsNow
<1>16. CASE SaveCheckpoint(w)
  <2>1. UNCHANGED ws /\ ws[w].pc = "graph"
    BY <1>16 DEF SaveCheckpoint, WAt
  <2>2. QED
    BY <2>1 DEF WorkerIsNow
<1>17. QED
  BY <1>4, <1>5, <1>6, <1>7, <1>8, <1>9, <1>10, <1>11, <1>12, <1>13, <1>14,
     <1>15, <1>16
  DEF WorkerStep, WorkerFault

\* Actions that load rows write none.
LEMMA ReadsOnly ==
  /\ \A h \in Handlers :
       RetryRead(h) \/ RerunRead(h) \/ CancelRead(h) \/ ResumeRead(h) =>
         UNCHANGED <<job, runs>>
  /\ \A w \in Workers :
       ClaimRead(w) \/ FinishRead(w) \/ FailRead(w) => UNCHANGED <<job, runs>>
BY DEF RetryRead, RerunRead, CancelRead, ResumeRead, ClaimRead, FinishRead,
       FailRead, rows

LEMMA HandlersLeaveWorkers ==
  ASSUME NEW h \in Handlers, Request(h) \/ HandlerStep(h) \/ HandlerFault(h)
  PROVE  UNCHANGED ws
<1>1. CASE Request(h) \/ HandlerFault(h)
  BY <1>1
  DEF Request, HandlerFault, StartRead, RetryRead, RerunRead, Replay, CancelLook,
      Decide, SendFails, NoteFails, HandlerCrash
<1>2. CASE HandlerStep(h)
  BY <1>2
  DEF HandlerStep, StartCommit, RetryCommit, RerunCommit, CancelRead, CancelCommit,
      Revoke, ResumeRead, ResumeApproved, ResumeRejected, DrainScan, BatchEnd,
      BatchNext, ClaimEvent, Send, Note, Unsend, Done
<1>3. QED
  BY <1>1, <1>2

LEMMA FreshStart == Init => Fresh
BY DEF Init, Fresh, HandlerFresh, WorkerFresh, At, WAt, InTx, IdleHandler,
       IdleWorker

LEMMA FreshStep ==
  ASSUME Serialized, IInv, IInv', Fresh, [Next]_vars
  PROVE  Fresh'
<1>0. EventStep /\ TasksKept
  BY EveryStep
<1>1. CASE UNCHANGED <<job, runs, outbox, hs, ws>>
  <2>1. \A w \in Workers : InTx(w) => RunOf(w)' = RunOf(w)
    BY <1>0, <1>1, RunKept, ProcessesAssumption DEF InTx, WAt
  <2>2. \A w \in Workers : InTx(w)' <=> InTx(w)
    BY <1>1, ProcessesAssumption DEF InTx
  <2>3. ASSUME NEW w \in Workers PROVE WorkerFresh(w)'
    <3>1. WAt(w, "claim") \/ WAt(w, "drop") => InTx(w)
      BY ProcessesAssumption DEF InTx, WAt
    <3>2. QED
      BY <1>1, <2>1, <2>2, <3>1 DEF Fresh, WorkerFresh, Loaded, WAt, Claimable
  <2>4. \A h \in Handlers : HandlerFresh(h)'
    BY <1>1 DEF Fresh, HandlerFresh, LoadedRun, At, ActiveRuns
  <2>5. QED
    BY <2>3, <2>4 DEF Fresh
<1>2. CASE UNCHANGED vars \/ \E t \in DOMAIN tasks : Redeliver(t)
  BY <1>1, <1>2 DEF vars, Redeliver, rows
<1>3. ASSUME NEW h \in Handlers, Turn(h),
             Request(h) \/ HandlerStep(h) \/ HandlerFault(h)
      PROVE  Fresh'
  <2>1. /\ \A g \in Handlers \ {h} : hs'[g] = hs[g]
        /\ HandlerIsNow(h)
        /\ UNCHANGED ws
    BY <1>3, HandlerGoes, HandlersLeaveWorkers
  <2>2. ASSUME NEW g \in Handlers \ {h} PROVE HandlerFresh(g)'
    BY <1>3, <2>1, Alone DEF HandlerFresh, At
  <2>3. HandlerFresh(h)'
    <3>1. CASE hs'[h].pc \notin {"retry", "rerun", "cancel", "resume"}
      BY <3>1 DEF HandlerFresh, At
    <3>2. CASE hs'[h].pc \in {"retry", "rerun", "cancel", "resume"}
      <4>1. RetryRead(h) \/ RerunRead(h) \/ CancelRead(h) \/ ResumeRead(h)
        BY <2>1, <3>2 DEF HandlerIsNow
      <4>2. UNCHANGED <<job, runs, ActiveRuns>>
        BY <4>1, ReadsOnly DEF ActiveRuns
      <4>3. CASE hs'[h].pc = "retry"
        BY <2>1, <4>2, <4>3
        DEF HandlerIsNow, HandlerFresh, LoadedRun, At, RetryRead, Retryable
      <4>4. CASE hs'[h].pc = "rerun"
        BY <2>1, <4>2, <4>4
        DEF HandlerIsNow, HandlerFresh, At, RerunRead, Promise!Rerunnable
      <4>5. CASE hs'[h].pc = "cancel"
        <5>1. 0 \notin ActiveRuns
          BY DEF ActiveRuns, IInv, RowsOK
        <5>2. QED
          BY <2>1, <4>2, <4>5, <5>1 DEF HandlerIsNow, HandlerFresh, LoadedRun, At
      <4>6. CASE hs'[h].pc = "resume"
        BY <2>1, <4>2, <4>6 DEF HandlerIsNow, HandlerFresh, LoadedRun, At
      <4>7. QED
        BY <3>2, <4>3, <4>4, <4>5, <4>6
    <3>3. QED
      BY <3>1, <3>2
  <2>4. ASSUME NEW w \in Workers PROVE WorkerFresh(w)'
    <3>1. w \in Workers \ {h}
      BY ProcessesAssumption
    <3>2. ws'[w].pc \notin {"claim", "drop", "finish", "fail"}
      BY <1>3, <2>1, <3>1, Alone
    <3>3. QED
      BY <3>2, ProcessesAssumption DEF WorkerFresh, InTx, WAt
  <2>5. QED
    BY <2>2, <2>3, <2>4 DEF Fresh
<1>4. ASSUME NEW w \in Workers, Turn(w),
             WorkerStep(w) \/ SaveCheckpoint(w) \/ WorkerFault(w)
      PROVE  Fresh'
  <2>1. /\ \A v \in Workers \ {w} : ws'[v] = ws[v]
        /\ WorkerIsNow(w)
        /\ UNCHANGED hs
    BY <1>4, WorkerGoes, WorkerEventsSame
  <2>2. ASSUME NEW h \in Handlers PROVE HandlerFresh(h)'
    <3>1. h \in Handlers \ {w}
      BY ProcessesAssumption
    <3>2. QED
      BY <1>4, <2>1, <3>1, Alone DEF HandlerFresh, At
  <2>3. ASSUME NEW v \in Workers \ {w} PROVE WorkerFresh(v)'
    BY <1>4, <2>1, Alone, ProcessesAssumption DEF WorkerFresh, InTx, WAt
  <2>4. WorkerFresh(w)'
    <3>1. CASE ws'[w].pc \notin {"claim", "drop", "finish", "fail"}
      BY <3>1, ProcessesAssumption DEF WorkerFresh, InTx, WAt
    <3>2. CASE ws'[w].pc \in {"claim", "drop", "finish", "fail"}
      <4>1. /\ ws'[w].task = ws[w].task /\ ws[w].pc # "idle" /\ LoadsNow(w)
            /\ ClaimRead(w) \/ FinishRead(w) \/ FailRead(w)
            /\ ws'[w].pc = "claim" => Claimable(RunOf(w))
            /\ ws'[w].pc = "drop" => job = "CANCELLED" /\ runs[RunOf(w)].slot
        BY <2>1, <3>2 DEF WorkerIsNow
      <4>2. UNCHANGED <<job, runs>>
        BY <4>1, ReadsOnly
      <4>3. RunOf(w)' = RunOf(w)
        BY <1>0, <4>1, RunKept DEF WAt
      <4>4. QED
        BY <3>2, <4>1, <4>2, <4>3
        DEF WorkerFresh, InTx, WAt, Loaded, LoadsNow, Claimable
    <3>3. QED
      BY <3>1, <3>2
  <2>5. QED
    BY <2>2, <2>3, <2>4 DEF Fresh
<1>5. QED
  BY <1>2, <1>3, <1>4 DEF Next

LEMMA FreshHolds ==
  ASSUME Serialized
  PROVE  Spec => []Fresh
<1>1. IInv /\ IInv' /\ Fresh /\ [Next]_vars => Fresh'
  BY FreshStep
<1>2. QED
  BY <1>1, FreshStart, RefsCorrect, PTL DEF Spec

-----------------------------------------------------------------------------
(* What a transaction writes when the rows are as it loaded them           *)

Quiet == job' = job /\ RunsSame

\* Run r is given a status and takes or leaves the slot.
SetRun(r, status, slot) ==
  /\ r \in DOMAIN runs /\ DOMAIN runs' = DOMAIN runs
  /\ runs'[r].status = status /\ runs'[r].slot = slot
  /\ \A q \in DOMAIN runs \ {r} : runs'[q] = runs[q]

\* The active run, if there is one, is r.
Alternative(r) == r \in ActiveRuns \/ ActiveRuns \subseteq {r}

ClientWrites(h) ==
  \/ Quiet /\ ~RerunCommit(h)
  \/ StartCommit(h) /\ job = "CREATED" /\ job' = "QUEUED" /\ CreateRun("start")
  \/ /\ RerunCommit(h)
     /\ \/ Quiet
        \/ /\ job \in Promise!Rerunnable /\ ActiveRuns = {}
           /\ job' = "QUEUED" /\ CreateRun("rerun")
  \/ /\ RetryCommit(h) /\ job = "FAILED" /\ job' = "QUEUED"
     /\ \E r \in DOMAIN runs : Alternative(r) /\ SetRun(r, "INITIALIZING", TRUE)
  \/ /\ CancelCommit(h)
     /\ job' = IF job \in JobSettled THEN job ELSE "CANCELLED"
     /\ \/ ActiveRuns = {} /\ RunsSame
        \/ \E r \in ActiveRuns : SetRun(r, "ERRORED", FALSE)
  \/ /\ ResumeApproved(h) /\ job = "NEEDS_REVIEW" /\ job' = "RUNNING"
     /\ \E r \in DOMAIN runs :
          /\ runs[r].status = "WAITING_HUMAN" /\ Alternative(r)
          /\ SetRun(r, "EXECUTING", TRUE) /\ Emit("resume", r)
  \/ /\ ResumeRejected(h) /\ job = "NEEDS_REVIEW" /\ job' = "FAILED"
     /\ \E r \in DOMAIN runs :
          runs[r].status = "WAITING_HUMAN" /\ SetRun(r, "ERRORED", FALSE)

\* An UPDATE of a handler whose loaded run is current.
LEMMA LoadedUpdate ==
  ASSUME IInv, NEW h \in Handlers, LoadedRun(h), hs[h].run \in DOMAIN runs,
         NEW status \in RunStates, NEW slot \in BOOLEAN,
         UpdateRun(hs[h].run, hs[h], status, slot)
  PROVE  SetRun(hs[h].run, status, slot)
<1> DEFINE r == hs[h].run
<1>1. runs \in Seq(RunRow) /\ r \in 1 .. Len(runs)
  BY DEF IInv, RowsOK
<1>2. hs[h].status = runs[r].status /\ hs[h].slot = runs[r].slot
  BY DEF LoadedRun
<1>3. UpdateRun(r, hs[h], status, slot)
  OBVIOUS
<1>4. /\ DOMAIN runs' = DOMAIN runs
      /\ runs'[r].status = status /\ runs'[r].slot = slot
      /\ \A q \in DOMAIN runs \ {r} : runs'[q] = runs[q]
  BY <1>1, <1>2, <1>3, FreshUpdate
<1>5. QED
  BY <1>4 DEF SetRun

LEMMA NotedQuiet ==
  ASSUME IInv, NEW r \in DOMAIN runs, NEW t, job' = job,
         runs' = [runs EXCEPT ![r].task = t]
  PROVE  Quiet
<1> DEFINE row == [runs[r] EXCEPT !.task = t]
<1>1. runs \in Seq(RunRow) /\ r \in 1 .. Len(runs)
  BY DEF IInv, RowsOK
<1>2. runs[r] \in RunRow
  BY <1>1, ElementOfSeq
<1>3. row.status = runs[r].status /\ row.slot = runs[r].slot
  BY <1>2 DEF RunRow
<1>4. runs' = [runs EXCEPT ![r] = row]
  BY <1>2 DEF RunRow
<1> HIDE DEF row
<1>5. QED
  BY <1>1, <1>3, <1>4 DEF Quiet, RunsSame

LEMMA ClientsWrite ==
  ASSUME IInv, Fresh, NEW h \in Handlers,
         Request(h) \/ HandlerStep(h) \/ HandlerFault(h)
  PROVE  ClientWrites(h)
<1>0. /\ HandlerFresh(h) /\ hs[h] \in HandlerState
      /\ HandlerRef(hs[h], Len(runs), Len(outbox), tasks)
      /\ runs \in Seq(RunRow) /\ outbox \in Seq(EventRow)
      /\ DOMAIN runs = 1 .. Len(runs)
  BY DEF Fresh, IInv, HandlersOK, RowsOK
<1>1. CASE UNCHANGED <<job, runs>> /\ ~RerunCommit(h)
  BY <1>1 DEF ClientWrites, Quiet, RunsSame
<1>2. CASE StartCommit(h)
  <2>1. ~RerunCommit(h)
    BY <1>2 DEF StartCommit, RerunCommit, At
  <2>2. QED
    BY <1>1, <1>2, <2>1 DEF StartCommit, Startable, ClientWrites, rows
<1>3. CASE RerunCommit(h)
  <2>1. hs[h].job = job /\ job \in Promise!Rerunnable
    BY <1>0, <1>3 DEF RerunCommit, HandlerFresh
  <2>2. CASE ActiveRuns = {} /\ job' = Store(job, hs[h].job, "QUEUED") /\ CreateRun("rerun")
    <3>1. job' = "QUEUED"
      BY <2>1, <2>2 DEF Store
    <3>2. QED
      BY <1>3, <2>1, <2>2, <3>1 DEF ClientWrites
  <2>3. CASE UNCHANGED <<job, runs>>
    BY <1>3, <2>3 DEF ClientWrites, Quiet, RunsSame
  <2>4. QED
    BY <1>3, <2>2, <2>3 DEF RerunCommit, rows
<1>4. CASE RetryCommit(h)
  <2>1. /\ At(h, "retry") /\ hs[h].job = job /\ job = "FAILED" /\ LoadedRun(h)
        /\ hs[h].run \in DOMAIN runs /\ ~RerunCommit(h)
    BY <1>0, <1>4 DEF RetryCommit, RerunCommit, HandlerFresh, HandlerRef, At
  <2>2. CASE UNCHANGED <<job, runs>>
    BY <1>1, <2>1, <2>2
  <2>3. CASE /\ MayTakeSlot(h) /\ job' = Store(job, hs[h].job, "QUEUED")
             /\ UpdateRun(hs[h].run, hs[h], "INITIALIZING", TRUE)
    <3>1. job' = "QUEUED"
      BY <2>1, <2>3 DEF Store
    <3>2. SetRun(hs[h].run, "INITIALIZING", TRUE)
      BY <2>1, <2>3, LoadedUpdate DEF RunStates
    <3>3. Alternative(hs[h].run)
      BY <2>1, <2>3 DEF MayTakeSlot, SlotFree, LoadedRun, Alternative, ActiveRuns
    <3>4. QED
      BY <1>4, <2>1, <3>1, <3>2, <3>3 DEF ClientWrites
  <2>4. QED
    BY <1>4, <2>2, <2>3 DEF RetryCommit, rows
<1>5. CASE CancelCommit(h)
  <2>1. /\ At(h, "cancel") /\ hs[h].job = job
        /\ IF hs[h].run = 0 THEN ActiveRuns = {}
           ELSE hs[h].run \in ActiveRuns /\ LoadedRun(h)
    BY <1>0, <1>5 DEF CancelCommit, HandlerFresh
  <2>2. job' = IF job \in JobSettled THEN job ELSE "CANCELLED"
    BY <1>5, <2>1 DEF CancelCommit
  <2>3. CASE hs[h].run = 0
    <3>1. RunsSame
      BY <1>5, <2>3 DEF CancelCommit, RunsSame
    <3>2. QED
      BY <1>5, <2>1, <2>2, <2>3, <3>1 DEF ClientWrites
  <2>4. CASE hs[h].run # 0
    <3>1. UpdateRun(hs[h].run, hs[h], "ERRORED", FALSE)
      BY <1>5, <2>4 DEF CancelCommit
    <3>2. hs[h].run \in ActiveRuns /\ LoadedRun(h) /\ hs[h].run \in DOMAIN runs
      BY <2>1, <2>4 DEF ActiveRuns
    <3>3. SetRun(hs[h].run, "ERRORED", FALSE)
      BY <3>1, <3>2, LoadedUpdate DEF RunStates
    <3>4. QED
      BY <1>5, <2>2, <3>2, <3>3 DEF ClientWrites
  <2>5. QED
    BY <2>3, <2>4
<1>6. ASSUME At(h, "resume")
      PROVE  /\ hs[h].job = job /\ job = "NEEDS_REVIEW" /\ LoadedRun(h)
             /\ hs[h].status = "WAITING_HUMAN" /\ hs[h].run \in DOMAIN runs
             /\ runs[hs[h].run].status = "WAITING_HUMAN" /\ ~RerunCommit(h)
  BY <1>0, <1>6 DEF HandlerFresh, HandlerRef, At, LoadedRun, RerunCommit
<1>7. CASE ResumeApproved(h)
  <2>1. At(h, "resume") /\ hs[h].decision \in Approving
    BY <1>7 DEF ResumeApproved
  <2>2. CASE UNCHANGED <<job, runs>>
    BY <1>1, <1>6, <2>1, <2>2
  <2>3. CASE /\ MayTakeSlot(h)
             /\ job' \in JobNextStates(hs[h].job, "REVIEW_APPROVED", hs[h].decision)
             /\ \E s \in RunNextStates(hs[h].status, "RESUME", hs[h].decision) :
                  UpdateRun(hs[h].run, hs[h], s, TRUE)
             /\ Emit("resume", hs[h].run)
    <3>1. job' = "RUNNING"
      BY <1>6, <2>1, <2>3
      DEF JobNextStates, Lookup, JobTransitions, Approving, JobSettled, LateEvents
    <3>2. UpdateRun(hs[h].run, hs[h], "EXECUTING", TRUE)
      BY <1>6, <2>1, <2>3 DEF RunNextStates, Approving
    <3>3. SetRun(hs[h].run, "EXECUTING", TRUE)
      BY <1>6, <2>1, <3>2, LoadedUpdate DEF RunStates
    <3>4. Alternative(hs[h].run)
      BY <1>6, <2>1, <2>3 DEF MayTakeSlot, SlotFree, LoadedRun, Alternative, ActiveRuns
    <3>5. QED
      BY <1>6, <1>7, <2>1, <2>3, <3>1, <3>3, <3>4 DEF ClientWrites
  <2>4. QED
    BY <1>7, <2>2, <2>3 DEF ResumeApproved, rows
<1>8. CASE ResumeRejected(h)
  <2>1. At(h, "resume") /\ hs[h].decision = "REJECTED"
    BY <1>8 DEF ResumeRejected
  <2>2. job' = "FAILED"
    BY <1>6, <1>8, <2>1
    DEF ResumeRejected, JobNextStates, Lookup, JobTransitions, JobSettled, LateEvents
  <2>3. UpdateRun(hs[h].run, hs[h], "ERRORED", FALSE)
    BY <1>6, <1>8, <2>1 DEF ResumeRejected, RunNextStates, Approving
  <2>4. SetRun(hs[h].run, "ERRORED", FALSE)
    BY <1>6, <2>1, <2>3, LoadedUpdate DEF RunStates
  <2>5. QED
    BY <1>6, <1>8, <2>1, <2>2, <2>4 DEF ClientWrites
<1>9. CASE Note(h)
  <2>1. /\ hs[h].event \in 1 .. Len(outbox) /\ ~RerunCommit(h)
    BY <1>0, <1>9 DEF Note, HandlerRef, At, RerunCommit
  <2>2. outbox[hs[h].event].run \in DOMAIN runs
    BY <1>0, <2>1 DEF IInv, RowsOK
  <2>3. Quiet
    BY <1>9, <2>2, NotedQuiet DEF Note
  <2>4. QED
    BY <2>1, <2>3 DEF ClientWrites
<1>10. CASE Request(h) \/ HandlerFault(h)
  <2>1. UNCHANGED <<job, runs>>
    BY <1>10
    DEF Request, HandlerFault, StartRead, RetryRead, RerunRead, Replay, CancelLook,
        Decide, SendFails, NoteFails, HandlerCrash, rows
  <2>2. QED
    BY <1>3, <1>1, <2>1
<1>11. CASE \/ CancelRead(h) \/ Revoke(h) \/ ResumeRead(h) \/ DrainScan(h)
            \/ BatchEnd(h) \/ BatchNext(h) \/ ClaimEvent(h) \/ Send(h)
            \/ Unsend(h) \/ Done(h)
  <2>1. UNCHANGED <<job, runs>>
    BY <1>11
    DEF CancelRead, Revoke, ResumeRead, DrainScan, BatchEnd, BatchNext, ClaimEvent,
        Send, Unsend, Done, rows
  <2>2. QED
    BY <1>3, <1>1, <2>1
<1>12. QED
  BY <1>2, <1>3, <1>4, <1>5, <1>7, <1>8, <1>9, <1>10, <1>11
  DEF HandlerStep

WorkerWritesNow(w) ==
  \/ Quiet
  \/ /\ ClaimCommit(w) /\ Claimable(RunOf(w)) /\ job' = "RUNNING"
     /\ SetRun(RunOf(w), "INSPECTING", TRUE)
  \/ /\ ClaimDrop(w) /\ job = "CANCELLED" /\ job' = job /\ runs[RunOf(w)].slot
     /\ SetRun(RunOf(w), "ERRORED", FALSE)
  \/ /\ FinishCommit(w) \/ FailCommit(w)
     /\ job = "CANCELLED" /\ job' = job /\ SetRun(RunOf(w), "ERRORED", FALSE)
  \/ /\ FinishCommit(w) /\ job # "CANCELLED" /\ job' = JobResult(ws[w].outcome)
     /\ SetRun(RunOf(w), RunResult(ws[w].outcome), FALSE)
  \/ /\ FailCommit(w) /\ job # "CANCELLED" /\ job' = "FAILED"
     /\ SetRun(RunOf(w), "ERRORED", FALSE)

LEMMA WorkersWrite ==
  ASSUME IInv, Fresh, NEW w \in Workers,
         WorkerStep(w) \/ SaveCheckpoint(w) \/ WorkerFault(w)
  PROVE  WorkerWritesNow(w)
<1>0. WorkerFresh(w) /\ ws[w] \in WorkerState
  BY DEF Fresh, IInv, WorkersOK
<1>1. CASE ~(ClaimCommit(w) \/ ClaimDrop(w) \/ FinishCommit(w) \/ FailCommit(w))
  BY <1>1, WorkerSpares DEF WorkerWritesNow, Quiet
<1>2. CASE ClaimCommit(w) \/ ClaimDrop(w) \/ FinishCommit(w) \/ FailCommit(w)
  <2>1. InTx(w) /\ ~WAt(w, "idle")
    BY <1>2, ProcessesAssumption
    DEF ClaimCommit, ClaimDrop, FinishCommit, FailCommit, InTx, WAt
  <2>2. /\ ws[w].job = job /\ ws[w].status = runs[RunOf(w)].status
        /\ ws[w].slot = runs[RunOf(w)].slot /\ RunOf(w) \in DOMAIN runs
    BY <1>0, <2>1, RunExists DEF WorkerFresh, Loaded
  <2>3. ASSUME NEW status \in RunStates, NEW slot \in BOOLEAN,
               UpdateRun(RunOf(w), ws[w], status, slot)
        PROVE  SetRun(RunOf(w), status, slot)
    <3>1. runs \in Seq(RunRow) /\ RunOf(w) \in 1 .. Len(runs)
      BY <2>2 DEF IInv, RowsOK
    <3>2. /\ DOMAIN runs' = DOMAIN runs
          /\ runs'[RunOf(w)].status = status /\ runs'[RunOf(w)].slot = slot
          /\ \A q \in DOMAIN runs \ {RunOf(w)} : runs'[q] = runs[q]
      BY <2>2, <2>3, <3>1, FreshUpdate
    <3>3. QED
      BY <2>2, <3>2 DEF SetRun
  <2>4. CASE ClaimCommit(w)
    <3>1. Claimable(RunOf(w)) /\ job' = "RUNNING"
      BY <1>0, <2>2, <2>4 DEF ClaimCommit, WorkerFresh, Claimable, Store
    <3>2. UpdateRun(RunOf(w), ws[w], "INSPECTING", TRUE)
      BY <2>2, <2>4, <3>1 DEF ClaimCommit, Claimable
    <3>3. QED
      BY <2>3, <2>4, <3>1, <3>2 DEF WorkerWritesNow, RunStates
  <2>5. CASE ClaimDrop(w)
    <3>1. job = "CANCELLED" /\ job' = job /\ runs[RunOf(w)].slot
      BY <1>0, <2>5 DEF ClaimDrop, WorkerFresh
    <3>2. UpdateRun(RunOf(w), ws[w], "ERRORED", FALSE)
      BY <2>5 DEF ClaimDrop
    <3>3. QED
      BY <2>3, <2>5, <3>1, <3>2 DEF WorkerWritesNow, RunStates
  <2>6. CASE FinishCommit(w)
    <3>1. CASE job = "CANCELLED"
      <4>1. UpdateRun(RunOf(w), ws[w], "ERRORED", FALSE) /\ job' = job
        BY <2>2, <2>6, <3>1 DEF FinishCommit, Late
      <4>2. QED
        BY <2>3, <2>6, <3>1, <4>1 DEF WorkerWritesNow, RunStates
    <3>2. CASE job # "CANCELLED"
      <4>1. /\ UpdateRun(RunOf(w), ws[w], RunResult(ws[w].outcome), FALSE)
            /\ job' = JobResult(ws[w].outcome)
        BY <2>2, <2>6, <3>2 DEF FinishCommit, Late, Store
      <4>2. RunResult(ws[w].outcome) \in RunStates
        BY DEF RunResult, RunStates
      <4>3. QED
        BY <2>3, <2>6, <3>2, <4>1, <4>2 DEF WorkerWritesNow
    <3>3. QED
      BY <3>1, <3>2
  <2>7. CASE FailCommit(w)
    <3>1. /\ UpdateRun(RunOf(w), ws[w], "ERRORED", FALSE)
          /\ job' = IF job = "CANCELLED" THEN job ELSE "FAILED"
      BY <2>2, <2>7 DEF FailCommit, Late, Store
    <3>2. QED
      BY <2>3, <2>7, <3>1 DEF WorkerWritesNow, RunStates
  <2>8. QED
    BY <1>2, <2>4, <2>5, <2>6, <2>7
<1>3. QED
  BY <1>1, <1>2

\* A cancelled job is left only by a rerun: every transaction that could write
\* another status has seen CANCELLED, and keeps it.
LEMMA CancelledStep ==
  ASSUME Serialized, IInv, Fresh, [Next]_vars, job = "CANCELLED"
  PROVE  job' = "CANCELLED" \/ \E h \in Handlers : RerunCommit(h)
<1>1. CASE UNCHANGED vars \/ \E t \in DOMAIN tasks : Redeliver(t)
  BY <1>1 DEF vars, Redeliver, rows
<1>2. ASSUME NEW h \in Handlers, Request(h) \/ HandlerStep(h) \/ HandlerFault(h)
      PROVE  job' = "CANCELLED" \/ RerunCommit(h)
  BY <1>2, ClientsWrite DEF ClientWrites, Quiet, JobSettled
<1>3. ASSUME NEW w \in Workers, WorkerStep(w) \/ SaveCheckpoint(w) \/ WorkerFault(w)
      PROVE  job' = "CANCELLED"
  BY <1>3, WorkersWrite DEF WorkerWritesNow, Quiet, Claimable
<1>4. QED
  BY <1>1, <1>2, <1>3 DEF Next

\* Whatever clients ask, whoever dies and whatever fails, as long as
\* transactions do not overlap a cancelled job stays cancelled until a client
\* asks for a rerun.
THEOREM CancelledStays ==
  ASSUME Serialized
  PROVE  Spec => CancelledSticks
<1>1. IInv /\ Fresh /\ [Next]_vars =>
        [job = "CANCELLED" =>
           job' = "CANCELLED" \/ \E h \in Handlers : RerunCommit(h)]_vars
  BY CancelledStep
<1>2. QED
  BY <1>1, FreshHolds, RefsCorrect, PTL DEF Spec, CancelledSticks

-----------------------------------------------------------------------------
(* One worker has the job                                                  *)

\* Nobody takes a job from the worker that has it: no rerun of a job that was
\* cancelled under its worker, no failure after the result, and, when reviews
\* resume runs, no task that is delivered twice.
Orderly ==
  /\ Serialized
  /\ ~({"cancel", "rerun"} \subseteq Requests)
  /\ Flaky \cap {"announce", "review"} = {}
  /\ "decide" \in Requests =>
       MaxCrashes = 0 /\ MaxDuplicates = 0 /\ "note" \notin Flaky

\* What is under way, or was done, has been asked for.
AskedFor ==
  /\ \A h \in Handlers :
       /\ hs[h].pc \in {"look", "cancel", "revoke"} => "cancel" \in Requests
       /\ hs[h].pc \in {"decided", "resume"} => "decide" \in Requests
       /\ hs[h].pc = "rerun" => "rerun" \in Requests
  /\ job = "CANCELLED" => "cancel" \in Requests
  /\ \A e \in DOMAIN outbox : outbox[e].kind = "resume" => "decide" \in Requests

Working(status) == status \in {"INITIALIZING", "INSPECTING", "EXECUTING"}

\* A run has the slot while it works, and one run at a time has it.
SlotsMean ==
  /\ \A r \in DOMAIN runs : runs[r].slot <=> Working(runs[r].status)
  /\ \A r, s \in ActiveRuns : r = s
  /\ job = "CREATED" => ActiveRuns = {}

\* Only an approved review asks for a resume.
LEMMA ResumesByReview ==
  ASSUME IInv, NEW h \in Handlers,
         Request(h) \/ HandlerStep(h) \/ HandlerFault(h),
         ~ResumeApproved(h)
  PROVE  \A e \in DOMAIN outbox' \ DOMAIN outbox : outbox'[e].kind # "resume"
<1>0. /\ HandlerRef(hs[h], Len(runs), Len(outbox), tasks)
      /\ runs \in Seq(RunRow) /\ outbox \in Seq(EventRow) /\ Len(runs) \in Nat
  BY DEF IInv, HandlersOK, RowsOK
<1>1. ASSUME NEW kind \in {"start", "retry", "rerun"}, NEW r \in Nat, Emit(kind, r)
      PROVE  \A e \in DOMAIN outbox' \ DOMAIN outbox : outbox'[e].kind # "resume"
  <2>1. /\ outbox' \in Seq(EventRow) /\ Len(outbox') = Len(outbox) + 1
        /\ outbox'[Len(outbox) + 1].kind = kind
    BY <1>0, <1>1, EmitRow
  <2>2. Len(outbox) \in Nat
    BY <1>0
  <2>3. \A e \in DOMAIN outbox' \ DOMAIN outbox : e = Len(outbox) + 1
    BY <1>0, <2>1, <2>2
  <2>4. QED
    BY <2>1, <2>3
<1>2. CASE StartCommit(h) \/ RerunCommit(h)
  <2>1. UNCHANGED outbox \/ CreateRun("start") \/ CreateRun("rerun")
    BY <1>2 DEF StartCommit, RerunCommit, rows
  <2>2. \/ UNCHANGED outbox
        \/ \E kind \in {"start", "rerun"}, r \in Nat : Emit(kind, r)
    BY <1>0, <2>1 DEF CreateRun
  <2>3. QED
    BY <1>1, <2>2
<1>3. CASE RetryCommit(h)
  <2>1. hs[h].run \in Nat
    BY <1>0, <1>3 DEF RetryCommit, At, HandlerRef
  <2>2. UNCHANGED outbox \/ Emit("retry", hs[h].run)
    BY <1>3 DEF RetryCommit, rows
  <2>3. QED
    BY <1>1, <2>1, <2>2
<1>4. CASE ClaimEvent(h) \/ Unsend(h) \/ Done(h)
  <2>1. DOMAIN outbox' = DOMAIN outbox
    BY <1>4 DEF ClaimEvent, Unsend, Done, SetStatus
  <2>2. QED
    BY <2>1
<1>5. CASE Request(h) \/ HandlerFault(h)
  BY <1>5
  DEF Request, StartRead, RetryRead, RerunRead, Replay, CancelLook, Decide,
      HandlerFault, SendFails, NoteFails, HandlerCrash, rows
<1>6. CASE \/ CancelRead(h) \/ CancelCommit(h) \/ Revoke(h) \/ ResumeRead(h)
           \/ ResumeRejected(h) \/ DrainScan(h) \/ BatchEnd(h) \/ BatchNext(h)
           \/ Send(h) \/ Note(h)
  BY <1>6
  DEF CancelRead, CancelCommit, Revoke, ResumeRead, ResumeRejected, DrainScan,
      BatchEnd, BatchNext, Send, Note, rows
<1>7. QED
  BY <1>2, <1>3, <1>4, <1>5, <1>6 DEF HandlerStep

LEMMA AskedForStep ==
  ASSUME IInv, IInv', Serialized, Fresh, AskedFor, [Next]_vars
  PROVE  AskedFor'
<1>0. /\ DOMAIN outbox \subseteq DOMAIN outbox'
      /\ \A e \in DOMAIN outbox : outbox'[e].kind = outbox[e].kind
  BY EveryStep, OutboxGrows
<1>1. CASE UNCHANGED vars \/ \E t \in DOMAIN tasks : Redeliver(t)
  BY <1>1 DEF vars, Redeliver, rows, AskedFor
<1>2. ASSUME NEW h \in Handlers, Request(h) \/ HandlerStep(h) \/ HandlerFault(h)
      PROVE  AskedFor'
  <2>1. (\A g \in Handlers \ {h} : hs'[g] = hs[g]) /\ HandlerIsNow(h)
    BY <1>2, HandlerGoes
  <2>2. /\ hs'[h].pc \in {"look", "cancel", "revoke"} => "cancel" \in Requests
        /\ hs'[h].pc \in {"decided", "resume"} => "decide" \in Requests
        /\ hs'[h].pc = "rerun" => "rerun" \in Requests
    BY <2>1
    DEF HandlerIsNow, AskedFor, CancelLook, CancelRead, CancelCommit, Decide,
        ResumeRead, RerunRead, At
  <2>3. job' = "CANCELLED" => "cancel" \in Requests
    <3>1. CancelCommit(h) => "cancel" \in Requests
      BY DEF CancelCommit, At, AskedFor
    <3>2. QED
      BY <1>2, <3>1, ClientsWrite DEF ClientWrites, Quiet, AskedFor
  <2>4. \A e \in DOMAIN outbox' : outbox'[e].kind = "resume" => "decide" \in Requests
    <3>1. ResumeApproved(h) => "decide" \in Requests
      BY DEF ResumeApproved, At, AskedFor
    <3>2. QED
      BY <1>0, <1>2, <3>1, ResumesByReview DEF AskedFor
  <2>5. QED
    BY <2>1, <2>2, <2>3, <2>4 DEF AskedFor
<1>3. ASSUME NEW w \in Workers, WorkerStep(w) \/ SaveCheckpoint(w) \/ WorkerFault(w)
      PROVE  AskedFor'
  <2>1. UNCHANGED <<outbox, hs>>
    BY <1>3, WorkerEventsSame
  <2>2. job' = "CANCELLED" => job = "CANCELLED"
    BY <1>3, WorkersWrite DEF WorkerWritesNow, Quiet, JobResult
  <2>3. QED
    BY <2>1, <2>2 DEF AskedFor
<1>4. QED
  BY <1>1, <1>2, <1>3 DEF Next

LEMMA QuietSlots ==
  ASSUME SlotsMean, RunsSame, job' = "CREATED" => job = "CREATED"
  PROVE  SlotsMean'
BY DEF SlotsMean, RunsSame, ActiveRuns

LEMMA SetSlots ==
  ASSUME SlotsMean, NEW r, NEW status, SetRun(r, status, Working(status)),
         Working(status) => Alternative(r),
         job' # "CREATED"
  PROVE  SlotsMean'
<1>1. /\ r \in DOMAIN runs /\ DOMAIN runs' = DOMAIN runs
      /\ runs'[r].status = status /\ runs'[r].slot = Working(status)
      /\ \A q \in DOMAIN runs \ {r} : runs'[q] = runs[q]
  BY DEF SetRun
<1>2. \A q \in DOMAIN runs' : runs'[q].slot <=> Working(runs'[q].status)
  BY <1>1 DEF SlotsMean
<1>3. \A q \in DOMAIN runs' : runs'[q].slot => \/ q = r /\ Working(status)
                                               \/ q # r /\ q \in ActiveRuns
  BY <1>1 DEF ActiveRuns
<1>4. \A p, q \in {q \in DOMAIN runs' : runs'[q].slot} : p = q
  BY <1>3 DEF SlotsMean, Alternative
<1>5. QED
  BY <1>2, <1>4 DEF SlotsMean, ActiveRuns

LEMMA CreateSlots ==
  ASSUME IInv, IInv', SlotsMean, NEW kind, CreateRun(kind), ActiveRuns = {},
         job' # "CREATED"
  PROVE  SlotsMean'
<1> DEFINE row == [status |-> "INITIALIZING", slot |-> TRUE, task |-> 0,
                   ckpt |-> "none"]
<1>1. runs \in Seq(RunRow) /\ row \in RunRow /\ runs' = Append(runs, row)
  BY DEF IInv, RowsOK, RunRow, RunStates, CreateRun
<1>2. row.status = "INITIALIZING" /\ row.slot = TRUE
  OBVIOUS
<1> HIDE DEF row
<1>3. /\ Len(runs) \in Nat /\ DOMAIN runs = 1 .. Len(runs)
      /\ DOMAIN runs' = 1 .. (Len(runs) + 1)
      /\ \A q \in DOMAIN runs : runs'[q] = runs[q]
      /\ runs'[Len(runs) + 1] = row
  BY <1>1, AppendProperties
<1>4. \A q \in DOMAIN runs' : q = Len(runs) + 1 \/ q \in DOMAIN runs
  BY <1>3
<1>5. \A q \in DOMAIN runs' : runs'[q].slot <=> Working(runs'[q].status)
  BY <1>2, <1>3, <1>4 DEF SlotsMean, Working
<1>6. \A q \in DOMAIN runs' : runs'[q].slot => q = Len(runs) + 1
  BY <1>3, <1>4 DEF ActiveRuns
<1>7. QED
  BY <1>5, <1>6 DEF SlotsMean, ActiveRuns

LEMMA SlotsStep ==
  ASSUME IInv, IInv', Serialized, Fresh, SlotsMean, [Next]_vars
  PROVE  SlotsMean'
<1>0. /\ Working("INITIALIZING") = TRUE /\ Working("INSPECTING") = TRUE
      /\ Working("EXECUTING") = TRUE /\ Working("ERRORED") = FALSE
      /\ Working("COMPLETED") = FALSE /\ Working("WAITING_HUMAN") = FALSE
  BY DEF Working
<1>1. CASE UNCHANGED <<job, runs>>
  BY <1>1, QuietSlots DEF RunsSame
<1>2. CASE UNCHANGED vars \/ \E t \in DOMAIN tasks : Redeliver(t)
  BY <1>1, <1>2 DEF vars, Redeliver, rows
<1>3. ASSUME NEW h \in Handlers, Request(h) \/ HandlerStep(h) \/ HandlerFault(h)
      PROVE  SlotsMean'
  <2>1. ClientWrites(h)
    BY <1>3, ClientsWrite
  <2>2. CASE Quiet
    BY <2>2, QuietSlots DEF Quiet
  <2>3. CASE job = "CREATED" /\ job' = "QUEUED" /\ CreateRun("start")
    BY <2>3, CreateSlots DEF SlotsMean
  <2>4. CASE ActiveRuns = {} /\ job' = "QUEUED" /\ CreateRun("rerun")
    BY <2>4, CreateSlots
  <2>5. CASE /\ job' = "QUEUED"
             /\ \E r \in DOMAIN runs : Alternative(r) /\ SetRun(r, "INITIALIZING", TRUE)
    BY <1>0, <2>5, SetSlots
  <2>6. CASE /\ job' = IF job \in JobSettled THEN job ELSE "CANCELLED"
             /\ \/ ActiveRuns = {} /\ RunsSame
                \/ \E r \in ActiveRuns : SetRun(r, "ERRORED", FALSE)
    <3>1. job' # "CREATED"
      BY <2>6 DEF JobSettled
    <3>2. QED
      BY <1>0, <2>6, <3>1, SetSlots, QuietSlots
  <2>7. CASE /\ job' = "RUNNING"
             /\ \E r \in DOMAIN runs : Alternative(r) /\ SetRun(r, "EXECUTING", TRUE)
    BY <1>0, <2>7, SetSlots
  <2>8. CASE job' = "FAILED" /\ \E r \in DOMAIN runs : SetRun(r, "ERRORED", FALSE)
    BY <1>0, <2>8, SetSlots
  <2>9. QED
    BY <2>1, <2>2, <2>3, <2>4, <2>5, <2>6, <2>7, <2>8 DEF ClientWrites
<1>4. ASSUME NEW w \in Workers, WorkerStep(w) \/ SaveCheckpoint(w) \/ WorkerFault(w)
      PROVE  SlotsMean'
  <2>1. WorkerWritesNow(w)
    BY <1>4, WorkersWrite
  <2>2. CASE Quiet
    BY <2>2, QuietSlots DEF Quiet
  <2>3. CASE /\ Claimable(RunOf(w)) /\ job' = "RUNNING"
             /\ SetRun(RunOf(w), "INSPECTING", TRUE)
    <3>1. RunOf(w) \in ActiveRuns
      BY <2>3 DEF Claimable, SetRun, ActiveRuns
    <3>2. QED
      BY <1>0, <2>3, <3>1, SetSlots DEF Alternative
  <2>4. CASE job' # "CREATED" /\ SetRun(RunOf(w), "ERRORED", FALSE)
    BY <1>0, <2>4, SetSlots
  <2>5. CASE /\ job' = JobResult(ws[w].outcome)
             /\ SetRun(RunOf(w), RunResult(ws[w].outcome), FALSE)
    <3>1. Working(RunResult(ws[w].outcome)) = FALSE /\ job' # "CREATED"
      BY <2>5 DEF Working, RunResult, JobResult
    <3>2. QED
      BY <2>5, <3>1, SetSlots
  <2>6. QED
    BY <2>1, <2>2, <2>3, <2>4, <2>5 DEF WorkerWritesNow
<1>5. QED
  BY <1>2, <1>3, <1>4 DEF Next

-----------------------------------------------------------------------------
(* Delivery                                                                *)

\* Nobody dies, the broker delivers once, and a task that was sent is noted.
Reliable == MaxCrashes = 0 /\ MaxDuplicates = 0 /\ "note" \notin Flaky

\* An event makes one task, and a task is at the broker or with one worker.
SentOnce ==
  /\ \A s, t \in DOMAIN tasks : tasks[s].event = tasks[t].event => s = t
  /\ \A t \in DOMAIN tasks :
       tasks[t].copies \in {0, 1} /\ outbox[tasks[t].event].status # "PENDING"
  /\ \A w \in Workers : ~WAt(w, "idle") => tasks[ws[w].task].copies = 0
  /\ \A v, w \in Workers :
       ~WAt(v, "idle") /\ ~WAt(w, "idle") /\ ws[v].task = ws[w].task => v = w
  /\ \A h \in Handlers, t \in DOMAIN tasks :
       hs[h].pc \in {"claim", "send", "unsend"} => tasks[t].event # hs[h].event

LEMMA HandlerTasks ==
  ASSUME NEW h \in Handlers, Request(h) \/ HandlerStep(h) \/ HandlerFault(h),
         ~Send(h), ~Revoke(h)
  PROVE  UNCHANGED tasks
<1>1. CASE Request(h) \/ HandlerFault(h)
  BY <1>1
  DEF Request, HandlerFault, StartRead, RetryRead, RerunRead, Replay, CancelLook,
      Decide, SendFails, NoteFails, HandlerCrash
<1>2. CASE HandlerStep(h)
  BY <1>2
  DEF HandlerStep, StartCommit, RetryCommit, RerunCommit, CancelRead, CancelCommit,
      ResumeRead, ResumeApproved, ResumeRejected, DrainScan, BatchEnd, BatchNext,
      ClaimEvent, Note, Unsend, Done
<1>3. QED
  BY <1>1, <1>2

LEMMA RevokedTasks ==
  ASSUME IInv, NEW h \in Handlers, Revoke(h)
  PROVE  /\ DOMAIN tasks' = DOMAIN tasks
         /\ \A t \in DOMAIN tasks : /\ tasks'[t].event = tasks[t].event
                                    /\ tasks'[t].copies = tasks[t].copies
<1> DEFINE t == hs[h].task
           row == [tasks[t] EXCEPT !.revoked = TRUE]
<1>1. t \in 1 .. Len(tasks) /\ tasks \in Seq(TaskRow)
  BY DEF IInv, HandlersOK, RowsOK, HandlerRef, Revoke, At
<1>2. tasks[t] \in TaskRow
  BY <1>1, ElementOfSeq
<1>3. row.event = tasks[t].event /\ row.copies = tasks[t].copies
  BY <1>2 DEF TaskRow
<1>4. tasks' = [tasks EXCEPT ![t] = row]
  BY <1>2 DEF Revoke, TaskRow
<1> HIDE DEF row
<1>5. QED
  BY <1>1, <1>3, <1>4

LEMMA SentTask ==
  ASSUME IInv, NEW h \in Handlers, Send(h)
  PROVE  /\ Len(tasks) \in Nat
         /\ DOMAIN tasks = 1 .. Len(tasks)
         /\ DOMAIN tasks' = 1 .. (Len(tasks) + 1)
         /\ \A t \in DOMAIN tasks : tasks'[t] = tasks[t]
         /\ tasks'[Len(tasks) + 1].event = hs[h].event
         /\ tasks'[Len(tasks) + 1].copies = 1
<1> DEFINE row == [event |-> hs[h].event, copies |-> 1, revoked |-> FALSE]
<1>1. hs[h].event \in Nat /\ tasks \in Seq(TaskRow)
  BY DEF IInv, HandlersOK, RowsOK, HandlerState
<1>2. row \in TaskRow /\ row.event = hs[h].event /\ row.copies = 1
  BY <1>1 DEF TaskRow
<1>3. tasks' = Append(tasks, row)
  BY DEF Send
<1> HIDE DEF row
<1>4. QED
  BY <1>1, <1>2, <1>3, AppendProperties

LEMMA TakenTask ==
  ASSUME IInv, NEW w \in Workers, NEW t \in DOMAIN tasks, Take(w, t)
  PROVE  /\ DOMAIN tasks' = DOMAIN tasks
         /\ \A s \in DOMAIN tasks : tasks'[s].event = tasks[s].event
         /\ \A s \in DOMAIN tasks \ {t} : tasks'[s] = tasks[s]
         /\ tasks[t].copies > 0 /\ tasks'[t].copies = tasks[t].copies - 1
         /\ ws'[w].task = t /\ ws[w].pc = "idle"
         /\ ws'[w].pc = IF outbox[tasks[t].event].kind = "resume" THEN "load" ELSE "read"
<1> DEFINE row == [tasks[t] EXCEPT !.copies = @ - 1]
           pc == IF outbox[tasks[t].event].kind = "resume" THEN "load" ELSE "read"
           s == [ws[w] EXCEPT !.task = t, !.pc = pc]
<1>1. tasks \in Seq(TaskRow) /\ t \in 1 .. Len(tasks)
  BY DEF IInv, RowsOK
<1>2. tasks[t] \in TaskRow
  BY <1>1, ElementOfSeq
<1>3. row.event = tasks[t].event /\ row.copies = tasks[t].copies - 1
  BY <1>2 DEF TaskRow
<1>4. tasks' = [tasks EXCEPT ![t] = row]
  BY <1>2 DEF Take, TaskRow
<1>5. s.task = t /\ s.pc = pc
  BY DEF IInv, WorkersOK, WorkerState
<1>6. ws' = [ws EXCEPT ![w] = s] /\ ws \in [Workers -> WorkerState]
  BY DEF Take, IInv, WorkersOK, WorkerState
<1>7. tasks[t].copies > 0 /\ ws[w].pc = "idle"
  BY DEF Take, WAt
<1> HIDE DEF row, s
<1>8. QED
  BY <1>1, <1>3, <1>4, <1>5, <1>6, <1>7

LEMMA WorkerTasksStay ==
  ASSUME NEW w \in Workers, WorkerStep(w) \/ SaveCheckpoint(w) \/ WorkerFault(w),
         ~WorkerCrash(w), \A t \in DOMAIN tasks : ~Take(w, t)
  PROVE  UNCHANGED tasks
<1>1. CASE WorkerStep(w)
  BY <1>1
  DEF WorkerStep, ClaimRead, ClaimCommit, ClaimDrop, ResumeLoad, Begin, GraphEnds,
      Publish, FinishRead, FinishCommit, Announce, CreateReview, FailRead, FailCommit
<1>2. CASE SaveCheckpoint(w) \/ WorkerFault(w)
  BY <1>2
  DEF SaveCheckpoint, WorkerFault, BeginFails, PublishFails, AnnounceFails, Terminate
<1>3. QED
  BY <1>1, <1>2

LEMMA NoFaults ==
  ASSUME Reliable, IInv
  PROVE  /\ \A h \in Handlers : ~HandlerCrash(h) /\ ~NoteFails(h)
         /\ \A w \in Workers : ~WorkerCrash(w)
         /\ \A t \in DOMAIN tasks : ~Redeliver(t)
<1>1. ~(crashes < MaxCrashes) /\ ~(duplicates < MaxDuplicates)
  BY DEF Reliable, IInv, RowsOK
<1>2. QED
  BY <1>1 DEF HandlerCrash, NoteFails, WorkerCrash, Redeliver, Raises, Reliable

LEMMA SentOnceStep ==
  ASSUME Reliable, Serialized, IInv, IInv', EventsHeld, SentOnce, [Next]_vars
  PROVE  SentOnce'
<1>a. /\ tasks \in Seq(TaskRow) /\ outbox \in Seq(EventRow)
      /\ \A t \in 1 .. Len(tasks) : tasks[t].event \in 1 .. Len(outbox)
      /\ \A w \in Workers : ws[w].pc # "idle" => ws[w].task \in 1 .. Len(tasks)
  BY DEF IInv, RowsOK, WorkersOK
<1>b. DOMAIN tasks = 1 .. Len(tasks) /\ DOMAIN outbox = 1 .. Len(outbox)
  BY <1>a
<1>0. /\ tasks \in Seq(TaskRow) /\ outbox \in Seq(EventRow)
      /\ DOMAIN tasks = 1 .. Len(tasks) /\ DOMAIN outbox = 1 .. Len(outbox)
      /\ \A t \in DOMAIN tasks : tasks[t].event \in DOMAIN outbox
      /\ \A w \in Workers : ~WAt(w, "idle") => ws[w].task \in DOMAIN tasks
  BY <1>a, <1>b DEF WAt
<1>1. CASE UNCHANGED vars
  BY <1>1 DEF vars, SentOnce, WAt
<1>2. ASSUME NEW h \in Handlers, Turn(h),
             Request(h) \/ HandlerStep(h) \/ HandlerFault(h)
      PROVE  SentOnce'
  <2>1. /\ \A g \in Handlers \ {h} : hs'[g] = hs[g] /\ ~At(g, "claim")
        /\ HandlerIsNow(h) /\ UNCHANGED ws
        /\ At(h, "claim")' => StillPending(hs'[h].event) /\ BatchNext(h)
        /\ Holding(h)' => hs'[h].event = hs[h].event
    BY <1>2, HandlerArrives, HandlerGoes, HandlersLeaveWorkers, Alone DEF At
  <2>2. CASE Send(h)
    <3> PICK n : n = Len(tasks) + 1
      OBVIOUS
    <3>0. /\ Len(tasks) \in Nat
          /\ DOMAIN tasks = 1 .. Len(tasks) /\ DOMAIN tasks' = 1 .. n
          /\ \A t \in DOMAIN tasks : tasks'[t] = tasks[t]
          /\ tasks'[n].event = hs[h].event /\ tasks'[n].copies = 1
      BY <2>2, SentTask
    <3>i. 1 .. n = (1 .. Len(tasks)) \cup {n} /\ n \notin 1 .. Len(tasks)
      BY <3>0
    <3>1. /\ DOMAIN tasks' = DOMAIN tasks \cup {n} /\ n \notin DOMAIN tasks
          /\ \A t \in DOMAIN tasks : tasks'[t] = tasks[t]
          /\ tasks'[n].event = hs[h].event /\ tasks'[n].copies = 1
      BY <3>0, <3>i
    <3>2. /\ UNCHANGED outbox /\ Holding(h) /\ hs[h].pc = "send"
          /\ outbox[hs[h].event].status = "PUBLISHING"
      BY <2>2 DEF Send, rows, Holding, At, EventsHeld
    <3>3. \A t \in DOMAIN tasks : tasks[t].event # hs[h].event
      BY <3>2 DEF SentOnce
    <3>4. \A s, t \in DOMAIN tasks' : tasks'[s].event = tasks'[t].event => s = t
      BY <3>1, <3>3 DEF SentOnce
    <3>5. \A t \in DOMAIN tasks' : /\ tasks'[t].copies \in {0, 1}
                                   /\ outbox'[tasks'[t].event].status # "PENDING"
      BY <3>1, <3>2 DEF SentOnce
    <3>6. /\ \A w \in Workers : ~WAt(w, "idle")' => tasks'[ws'[w].task].copies = 0
          /\ \A v, w \in Workers :
               ~WAt(v, "idle")' /\ ~WAt(w, "idle")' /\ ws'[v].task = ws'[w].task => v = w
      BY <1>0, <2>1, <3>1 DEF SentOnce, WAt
    <3>7. ASSUME NEW g \in Handlers, NEW t \in DOMAIN tasks',
                 hs'[g].pc \in {"claim", "send", "unsend"}
          PROVE  tasks'[t].event # hs'[g].event
      <4>0. hs'[h].pc = "note"
        <5> DEFINE s == [hs[h] EXCEPT !.pc = "note", !.task = n]
        <5>1. hs[h] \in HandlerState /\ hs \in [Handlers -> HandlerState]
          BY DEF IInv, HandlersOK
        <5>2. s.pc = "note"
          BY <5>1 DEF HandlerState
        <5>3. hs' = [hs EXCEPT ![h] = s]
          BY <2>2, <5>1 DEF Send, HandlerState
        <5> HIDE DEF s
        <5>4. QED
          BY <5>1, <5>2, <5>3
      <4>1. g # h
        BY <3>7, <4>0
      <4>2. hs'[g] = hs[g] /\ Holding(g)
        BY <2>1, <3>7, <4>1 DEF At, Holding
      <4>3. hs[g].event # hs[h].event
        BY <3>2, <4>1, <4>2 DEF EventsHeld
      <4>4. QED
        BY <3>1, <3>7, <4>2, <4>3 DEF SentOnce
    <3>8. QED
      BY <3>4, <3>5, <3>6, <3>7 DEF SentOnce
  <2>3. CASE ~Send(h)
    <3>1. /\ DOMAIN tasks' = DOMAIN tasks
          /\ \A t \in DOMAIN tasks : /\ tasks'[t].event = tasks[t].event
                                     /\ tasks'[t].copies = tasks[t].copies
      BY <1>2, <2>3, HandlerTasks, RevokedTasks
    <3>2. \A t \in DOMAIN tasks : outbox'[tasks[t].event].status # "PENDING"
      <4>1. CASE ~(ClaimEvent(h) \/ Unsend(h) \/ Done(h))
        BY <1>0, <1>2, <4>1, HandlerEventsSame DEF EventsSame, SentOnce
      <4>2. CASE ClaimEvent(h) \/ Unsend(h) \/ Done(h)
        <5>1. PICK status \in {"PENDING", "PUBLISHING", "PUBLISHED"} :
                /\ SetStatus(hs[h].event, status)
                /\ status = "PENDING" => Unsend(h)
          BY <4>2 DEF ClaimEvent, Unsend, Done, At
        <5>2. hs[h].event \in 1 .. Len(outbox)
          BY <4>2, HeldExists, <1>0 DEF ClaimEvent, Unsend, Done, At, Holding
        <5>3. \A e \in DOMAIN outbox :
                outbox'[e].status = IF e = hs[h].event THEN status ELSE outbox[e].status
          BY <1>0, <5>1, <5>2, SetStatusRow
        <5>4. Unsend(h) => \A t \in DOMAIN tasks : tasks[t].event # hs[h].event
          BY DEF Unsend, At, SentOnce
        <5>5. QED
          BY <1>0, <5>1, <5>3, <5>4 DEF SentOnce
      <4>3. QED
        BY <4>1, <4>2
    <3>3. ASSUME NEW g \in Handlers, NEW t \in DOMAIN tasks,
                 hs'[g].pc \in {"claim", "send", "unsend"}
          PROVE  tasks[t].event # hs'[g].event
      <4>1. CASE g # h
        BY <2>1, <3>3, <4>1 DEF SentOnce
      <4>2. CASE g = h /\ hs'[h].pc = "claim"
        BY <2>1, <4>2 DEF At, StillPending, SentOnce
      <4>3. CASE g = h /\ hs'[h].pc \in {"send", "unsend"}
        <5>1. hs[h].pc \in {"claim", "send"}
          BY <2>1, <4>3, NoFaults DEF HandlerIsNow, ClaimEvent, SendFails, At
        <5>2. hs'[h].event = hs[h].event
          BY <2>1, <4>3 DEF Holding
        <5>3. QED
          BY <4>3, <5>1, <5>2 DEF SentOnce
      <4>4. QED
        BY <3>3, <4>1, <4>2, <4>3
    <3>4. /\ \A w \in Workers : ~WAt(w, "idle")' => tasks'[ws'[w].task].copies = 0
          /\ \A v, w \in Workers :
               ~WAt(v, "idle")' /\ ~WAt(w, "idle")' /\ ws'[v].task = ws'[w].task => v = w
      BY <1>0, <2>1, <3>1 DEF SentOnce, WAt
    <3>5. QED
      BY <3>1, <3>2, <3>3, <3>4 DEF SentOnce
  <2>4. QED
    BY <2>2, <2>3
<1>3. ASSUME NEW w \in Workers, WorkerStep(w) \/ SaveCheckpoint(w) \/ WorkerFault(w)
      PROVE  SentOnce'
  <2>1. /\ UNCHANGED <<outbox, hs>> /\ ~WorkerCrash(w) /\ WorkerIsNow(w)
        /\ \A v \in Workers \ {w} : ws'[v] = ws[v]
    BY <1>3, WorkerEventsSame, WorkerGoes, NoFaults
  <2>2. CASE \E t \in DOMAIN tasks : Take(w, t)
    <3>1. PICK t \in DOMAIN tasks : Take(w, t)
      BY <2>2
    <3>2. /\ DOMAIN tasks' = DOMAIN tasks
          /\ \A s \in DOMAIN tasks : tasks'[s].event = tasks[s].event
          /\ \A s \in DOMAIN tasks \ {t} : tasks'[s] = tasks[s]
          /\ tasks[t].copies > 0 /\ tasks'[t].copies = tasks[t].copies - 1
          /\ ws'[w].task = t
      BY <3>1, TakenTask
    <3>3. tasks[t].copies = 1 /\ tasks'[t].copies = 0
      BY <3>2 DEF SentOnce
    <3>4. \A v \in Workers \ {w} :
            ~WAt(v, "idle") => ws[v].task # t /\ ws[v].task \in DOMAIN tasks
      BY <1>0, <3>3 DEF SentOnce
    <3>5. \A s \in DOMAIN tasks : tasks'[s].copies \in {0, 1}
      BY <3>2, <3>3 DEF SentOnce
    <3>6. \A v \in Workers : ~WAt(v, "idle")' => tasks'[ws'[v].task].copies = 0
      BY <2>1, <3>2, <3>3, <3>4 DEF SentOnce, WAt
    <3>7. \A u, v \in Workers :
            ~WAt(u, "idle")' /\ ~WAt(v, "idle")' /\ ws'[u].task = ws'[v].task => u = v
      BY <2>1, <3>2, <3>4 DEF SentOnce, WAt
    <3>8. QED
      BY <2>1, <3>2, <3>5, <3>6, <3>7 DEF SentOnce
  <2>3. CASE \A t \in DOMAIN tasks : ~Take(w, t)
    <3>1. UNCHANGED tasks
      BY <1>3, <2>1, <2>3, WorkerTasksStay
    <3>2. ws'[w].pc = "idle" \/ (ws'[w].task = ws[w].task /\ ws[w].pc # "idle")
      BY <2>1, <2>3 DEF WorkerIsNow
    <3>3. QED
      BY <2>1, <3>1, <3>2 DEF SentOnce, WAt
  <2>4. QED
    BY <2>2, <2>3
<1>4. QED
  BY <1>1, <1>2, <1>3, NoFaults DEF Next

\* Where no process dies, the broker does not repeat itself and every send is
\* noted, an event makes one task and one worker has it.
THEOREM DeliveredOnce ==
  ASSUME Reliable, Serialized
  PROVE  Spec => []SentOnce
<1>1. Init => SentOnce
  BY DEF Init, SentOnce, WAt, IdleWorker, IdleHandler
<1>2. IInv /\ IInv' /\ EventsHeld /\ SentOnce /\ [Next]_vars => SentOnce'
  BY SentOnceStep
<1>3. QED
  BY <1>1, <1>2, EventsHeldHolds, RefsCorrect, PTL DEF Spec

-----------------------------------------------------------------------------
(* Who has the job                                                         *)

EventOf(w) == tasks[ws[w].task].event

\* The job runs and the run is being worked on, or both were cancelled under
\* the worker.
Owned(w) ==
  \/ job = "RUNNING" /\ runs[RunOf(w)].status \in {"INSPECTING", "EXECUTING"}
  \/ job = "CANCELLED" /\ runs[RunOf(w)].status = "ERRORED"

OneWorks ==
  /\ \A w \in Workers : Executing(w) => Owned(w)
  /\ \A v, w \in Workers : Executing(v) /\ Executing(w) => v = w

\* An approved review asked for event e and no worker has resumed its run yet.
ToResume(e) ==
  /\ outbox[e].kind = "resume"
  /\ \/ \A t \in DOMAIN tasks : tasks[t].event # e
     \/ \E t \in DOMAIN tasks : tasks[t].event = e /\ tasks[t].copies > 0
     \/ \E w \in Workers : WAt(w, "load") /\ EventOf(w) = e

\* A run that is to be resumed waits for that worker, and it is the only one.
OneResumes ==
  /\ \A e \in DOMAIN outbox :
       ToResume(e) =>
         \/ job = "CANCELLED"
         \/ /\ job = "RUNNING" /\ runs[outbox[e].run].status = "EXECUTING"
            /\ \A w \in Workers : ~Executing(w)
  /\ \A d, e \in DOMAIN outbox : ToResume(d) /\ ToResume(e) => d = e
  /\ \A w \in Workers : WAt(w, "load") => Resuming(w)

Delivered == "decide" \in Requests => SentOnce

Ownership == AskedFor /\ SlotsMean /\ Delivered /\ OneWorks /\ OneResumes

\* A task stays about the event it was about.
LEMMA EventKept ==
  ASSUME IInv, IInv', EventStep, TasksKept,
         NEW w \in Workers, ~WAt(w, "idle"), ws'[w].task = ws[w].task
  PROVE  /\ EventOf(w)' = EventOf(w) /\ EventOf(w) \in DOMAIN outbox
         /\ RunOf(w)' = RunOf(w) /\ RunOf(w) \in DOMAIN runs
         /\ Resuming(w)' <=> Resuming(w)
<1> DEFINE t == ws[w].task
           e == tasks[t].event
<1>1. /\ t \in 1 .. Len(tasks) /\ tasks \in Seq(TaskRow)
      /\ outbox \in Seq(EventRow)
      /\ \A u \in 1 .. Len(tasks) : tasks[u].event \in 1 .. Len(outbox)
  BY DEF IInv, RowsOK, WorkersOK, WAt
<1>2. t \in DOMAIN tasks /\ e \in DOMAIN outbox
  BY <1>1
<1>3. tasks'[t].event = e
  BY <1>2 DEF TasksKept
<1>4. outbox'[e].kind = outbox[e].kind
  BY <1>2, OutboxGrows
<1>5. RunOf(w)' = RunOf(w) /\ RunOf(w) \in DOMAIN runs
  BY RunKept, RunExists
<1>6. QED
  BY <1>2, <1>3, <1>4, <1>5 DEF EventOf, Resuming

\* Nobody has a job that is neither running nor cancelled.
LEMMA NobodyHas ==
  ASSUME OneWorks, OneResumes, job \notin {"RUNNING", "CANCELLED"}
  PROVE  /\ \A w \in Workers : ~Executing(w)
         /\ \A e \in DOMAIN outbox : ~ToResume(e)
BY DEF OneWorks, OneResumes, Owned

\* A review that finds the job changed asks for nothing.
LEMMA ResumeWrites ==
  ASSUME IInv, Fresh, NEW h \in Handlers, ResumeApproved(h), job' = job
  PROVE  UNCHANGED rows
<1>1. /\ hs[h].job = job /\ job = "NEEDS_REVIEW" /\ hs[h].decision \in Approving
  BY DEF ResumeApproved, Fresh, HandlerFresh
<1>2. job' \notin JobNextStates(hs[h].job, "REVIEW_APPROVED", hs[h].decision)
  BY <1>1
  DEF JobNextStates, Lookup, JobTransitions, Approving, JobSettled, LateEvents
<1>3. QED
  BY <1>2 DEF ResumeApproved

LEMMA DeliveredStep ==
  ASSUME Orderly, IInv, IInv', EventsHeld, Delivered, [Next]_vars
  PROVE  Delivered'
BY SentOnceStep DEF Orderly, Reliable, Delivered

\* Events that were there are not asked for again by a client's step.
LEMMA ClientsResume ==
  ASSUME IInv, IInv', AskedFor, Delivered, EventStep, TasksKept,
         NEW h \in Handlers, Request(h) \/ HandlerStep(h) \/ HandlerFault(h),
         NEW e \in DOMAIN outbox, ToResume(e)'
  PROVE  ToResume(e)
<1>0. outbox[e].kind = "resume" /\ "decide" \in Requests
  BY OutboxGrows DEF ToResume, AskedFor
<1>1. UNCHANGED ws
  BY HandlersLeaveWorkers
<1>2. CASE \E w \in Workers : WAt(w, "load")' /\ EventOf(w)' = e
  <2>1. PICK w \in Workers : WAt(w, "load")' /\ EventOf(w)' = e
    BY <1>2
  <2>2. WAt(w, "load") /\ ~WAt(w, "idle") /\ ws'[w].task = ws[w].task
    BY <1>1, <2>1 DEF WAt
  <2>3. EventOf(w) = e
    BY <2>1, <2>2, EventKept
  <2>4. QED
    BY <1>0, <2>2, <2>3 DEF ToResume
<1>3. CASE Send(h)
  <2> PICK n : n = Len(tasks) + 1
    OBVIOUS
  <2>1. /\ Len(tasks) \in Nat
        /\ DOMAIN tasks = 1 .. Len(tasks) /\ DOMAIN tasks' = 1 .. n
        /\ \A t \in DOMAIN tasks : tasks'[t] = tasks[t]
        /\ tasks'[n].event = hs[h].event
    BY <1>3, SentTask
  <2>2. \A t \in 1 .. n : t \in 1 .. Len(tasks) \/ t = n
    BY <2>1
  <2>3. 1 .. Len(tasks) \subseteq 1 .. n
    BY <2>1
  <2>4. CASE e = hs[h].event
    <3>1. \A t \in DOMAIN tasks : tasks[t].event # e
      BY <1>0, <1>3, <2>4 DEF Delivered, SentOnce, Send, At
    <3>2. QED
      BY <1>0, <3>1 DEF ToResume
  <2>5. CASE e # hs[h].event
    <3>1. CASE \A t \in DOMAIN tasks' : tasks'[t].event # e
      <4>1. \A t \in DOMAIN tasks : tasks[t].event # e
        BY <2>1, <2>3, <3>1
      <4>2. QED
        BY <1>0, <4>1 DEF ToResume
    <3>2. CASE \E t \in DOMAIN tasks' : tasks'[t].event = e /\ tasks'[t].copies > 0
      <4>1. PICK t \in DOMAIN tasks' : tasks'[t].event = e /\ tasks'[t].copies > 0
        BY <3>2
      <4>2. t \in DOMAIN tasks
        BY <2>1, <2>2, <2>5, <4>1
      <4>3. QED
        BY <1>0, <2>1, <4>1, <4>2 DEF ToResume
    <3>3. QED
      BY <1>2, <3>1, <3>2 DEF ToResume
  <2>6. QED
    BY <2>4, <2>5
<1>4. CASE ~Send(h)
  <2>1. /\ DOMAIN tasks' = DOMAIN tasks
        /\ \A t \in DOMAIN tasks : /\ tasks'[t].event = tasks[t].event
                                   /\ tasks'[t].copies = tasks[t].copies
    BY <1>4, HandlerTasks, RevokedTasks
  <2>2. QED
    BY <1>0, <1>2, <2>1 DEF ToResume
<1>5. QED
  BY <1>3, <1>4

\* ... nor by a worker's: a task that is taken is on its way already, and a
\* worker that resumed is no longer at its start.
LEMMA WorkersResume ==
  ASSUME Orderly, IInv, IInv', AskedFor, EventStep, TasksKept,
         NEW w \in Workers, WorkerStep(w) \/ SaveCheckpoint(w) \/ WorkerFault(w),
         NEW e \in DOMAIN outbox, ToResume(e)'
  PROVE  ToResume(e)
<1>0. /\ outbox[e].kind = "resume" /\ "decide" \in Requests /\ Reliable
  BY OutboxGrows DEF ToResume, AskedFor, Orderly, Reliable
<1>1. /\ \A v \in Workers \ {w} : ws'[v] = ws[v]
      /\ WorkerIsNow(w) /\ UNCHANGED outbox /\ ~WorkerCrash(w)
  BY <1>0, WorkerGoes, WorkerEventsSame, NoFaults
<1>2. ASSUME NEW v \in Workers, WAt(v, "load"), ws'[v].task = ws[v].task,
             EventOf(v)' = e
      PROVE  ToResume(e)
  <2>1. ~WAt(v, "idle")
    BY <1>2 DEF WAt
  <2>2. EventOf(v) = e
    BY <1>2, <2>1, EventKept
  <2>3. QED
    BY <1>0, <1>2, <2>2 DEF ToResume
<1>3. CASE \E t \in DOMAIN tasks : Take(w, t)
  <2>1. PICK t \in DOMAIN tasks : Take(w, t)
    BY <1>3
  <2>2. /\ DOMAIN tasks' = DOMAIN tasks
        /\ \A s \in DOMAIN tasks : tasks'[s].event = tasks[s].event
        /\ \A s \in DOMAIN tasks \ {t} : tasks'[s] = tasks[s]
        /\ tasks[t].copies > 0 /\ tasks'[t].copies = tasks[t].copies - 1
        /\ ws'[w].task = t
    BY <2>1, TakenTask
  <2>3. CASE tasks[t].event = e
    BY <1>0, <2>2, <2>3 DEF ToResume
  <2>4. CASE tasks[t].event # e
    <3>1. CASE \A s \in DOMAIN tasks' : tasks'[s].event # e
      BY <1>0, <2>2, <3>1 DEF ToResume
    <3>2. CASE \E s \in DOMAIN tasks' : tasks'[s].event = e /\ tasks'[s].copies > 0
      BY <1>0, <2>2, <2>4, <3>2 DEF ToResume
    <3>3. CASE \E v \in Workers : WAt(v, "load")' /\ EventOf(v)' = e
      <4>1. PICK v \in Workers : WAt(v, "load")' /\ EventOf(v)' = e
        BY <3>3
      <4>2. v # w
        BY <2>2, <2>4, <4>1 DEF EventOf
      <4>3. QED
        BY <1>1, <1>2, <4>1, <4>2 DEF WAt
    <3>4. QED
      BY <3>1, <3>2, <3>3 DEF ToResume
  <2>5. QED
    BY <2>3, <2>4
<1>4. CASE \A t \in DOMAIN tasks : ~Take(w, t)
  <2>1. UNCHANGED tasks /\ ~WAt(w, "load")'
    BY <1>1, <1>4, WorkerTasksStay DEF WorkerIsNow, WAt
  <2>2. CASE \E v \in Workers : WAt(v, "load")' /\ EventOf(v)' = e
    <3>1. PICK v \in Workers : WAt(v, "load")' /\ EventOf(v)' = e
      BY <2>2
    <3>2. v # w
      BY <2>1, <3>1
    <3>3. QED
      BY <1>1, <1>2, <3>1, <3>2 DEF WAt
  <2>3. QED
    BY <1>0, <2>1, <2>2 DEF ToResume
<1>5. QED
  BY <1>3, <1>4

\* A client's step leaves the job to the worker that has it, or cancels both.
LEMMA ClientsOwn ==
  ASSUME Orderly, IInv, IInv', Fresh, Ownership, EventStep, TasksKept,
         NEW h \in Handlers, Request(h) \/ HandlerStep(h) \/ HandlerFault(h)
  PROVE  OneWorks'
<1>1. UNCHANGED ws /\ ClientWrites(h)
  BY HandlersLeaveWorkers, ClientsWrite DEF Ownership
<1>2. \A w \in Workers : Executing(w)' <=> Executing(w)
  BY <1>1 DEF Executing
<1>3. SUFFICES ASSUME NEW w \in Workers, Executing(w)
               PROVE  Owned(w)'
  BY <1>2 DEF Ownership, OneWorks
<1>4. /\ RunOf(w)' = RunOf(w) /\ RunOf(w) \in DOMAIN runs /\ Owned(w)
  <2>1. ~WAt(w, "idle") /\ ws'[w].task = ws[w].task
    BY <1>1, <1>3 DEF Executing, WAt
  <2>2. QED
    BY <1>3, <2>1, EventKept DEF Ownership, OneWorks
<1>5. job \in {"RUNNING", "CANCELLED"}
  BY <1>4 DEF Owned
<1>6. job = "RUNNING" => RunOf(w) \in ActiveRuns
  BY <1>4 DEF Owned, Ownership, SlotsMean, ActiveRuns, Working
<1>7. CASE Quiet
  BY <1>4, <1>7 DEF Owned, Quiet, RunsSame
<1>8. CASE RerunCommit(h) /\ job \in Promise!Rerunnable
  <2>1. "cancel" \in Requests /\ "rerun" \in Requests
    BY <1>5, <1>8 DEF Promise!Rerunnable, RerunCommit, At, Ownership, AskedFor
  <2>2. QED
    BY <2>1 DEF Orderly
<1>9. CASE /\ job' = IF job \in JobSettled THEN job ELSE "CANCELLED"
           /\ \/ ActiveRuns = {} /\ RunsSame
              \/ \E r \in ActiveRuns : SetRun(r, "ERRORED", FALSE)
  <2>1. job' = "CANCELLED"
    BY <1>5, <1>9 DEF JobSettled
  <2>2. runs'[RunOf(w)].status = "ERRORED"
    <3>1. CASE job = "RUNNING"
      <4>1. PICK r \in ActiveRuns : SetRun(r, "ERRORED", FALSE)
        BY <1>6, <1>9, <3>1
      <4>2. r = RunOf(w)
        BY <1>6, <3>1 DEF Ownership, SlotsMean
      <4>3. QED
        BY <4>1, <4>2 DEF SetRun
    <3>2. CASE job = "CANCELLED"
      <4>1. runs[RunOf(w)].status = "ERRORED"
        BY <1>4, <3>2 DEF Owned
      <4>2. QED
        BY <1>4, <1>9, <4>1 DEF SetRun, RunsSame
    <3>3. QED
      BY <1>5, <3>1, <3>2
  <2>3. QED
    BY <1>4, <2>1, <2>2 DEF Owned
<1>10. QED
  BY <1>1, <1>5, <1>7, <1>8, <1>9 DEF ClientWrites

\* Only an approved review makes a run to resume, and then nobody has the job.
LEMMA ClientsOneResumes ==
  ASSUME Orderly, IInv, IInv', Fresh, Ownership, EventStep, TasksKept,
         NEW h \in Handlers, Request(h) \/ HandlerStep(h) \/ HandlerFault(h)
  PROVE  OneResumes'
<1>1. /\ UNCHANGED ws /\ ClientWrites(h)
      /\ outbox \in Seq(EventRow) /\ DOMAIN outbox = 1 .. Len(outbox)
  BY HandlersLeaveWorkers, ClientsWrite DEF Ownership, IInv, RowsOK
<1>2. /\ \A w \in Workers : Executing(w)' <=> Executing(w)
  BY <1>1 DEF Executing
<1>3. \A w \in Workers : WAt(w, "load")' => Resuming(w)'
  <2>1. SUFFICES ASSUME NEW w \in Workers, WAt(w, "load") PROVE Resuming(w)'
    BY <1>1 DEF WAt
  <2>2. ~WAt(w, "idle") /\ ws'[w].task = ws[w].task /\ Resuming(w)
    BY <1>1, <2>1 DEF WAt, Ownership, OneResumes
  <2>3. QED
    BY <2>2, EventKept
<1>4. \A e \in DOMAIN outbox : ToResume(e)' => ToResume(e)
  BY ClientsResume DEF Ownership
<1>5. /\ DOMAIN outbox \subseteq DOMAIN outbox'
      /\ \A e \in DOMAIN outbox : outbox'[e].run = outbox[e].run
      /\ \A e \in DOMAIN outbox : outbox[e].run \in DOMAIN runs
  <2>1. \A e \in 1 .. Len(outbox) : outbox[e].run \in 1 .. Len(runs)
    BY DEF IInv, RowsOK
  <2>2. DOMAIN runs = 1 .. Len(runs)
    BY DEF IInv, RowsOK
  <2>3. QED
    BY <1>1, <2>1, <2>2, OutboxGrows
<1>6. CASE \A e \in DOMAIN outbox' : ToResume(e)' => e \in DOMAIN outbox
  <2>1. \A d, e \in DOMAIN outbox' : ToResume(d)' /\ ToResume(e)' => d = e
    BY <1>4, <1>6 DEF Ownership, OneResumes
  <2>2. ASSUME NEW e \in DOMAIN outbox', ToResume(e)'
        PROVE  \/ job' = "CANCELLED"
               \/ /\ job' = "RUNNING" /\ runs'[outbox'[e].run].status = "EXECUTING"
                  /\ \A w \in Workers : ~Executing(w)'
    <3>1. e \in DOMAIN outbox /\ ToResume(e)
      BY <1>4, <1>6, <2>2
    <3>2. /\ outbox'[e].run = outbox[e].run /\ outbox[e].run \in DOMAIN runs
          /\ \/ job = "CANCELLED"
             \/ /\ job = "RUNNING" /\ runs[outbox[e].run].status = "EXECUTING"
                /\ \A w \in Workers : ~Executing(w)
      BY <1>5, <3>1 DEF Ownership, OneResumes
    <3>3. CASE Quiet
      BY <1>2, <3>2, <3>3 DEF Quiet, RunsSame
    <3>4. CASE RerunCommit(h) /\ job \in Promise!Rerunnable
      <4>1. "cancel" \in Requests /\ "rerun" \in Requests
        BY <3>2, <3>4 DEF Promise!Rerunnable, RerunCommit, At, Ownership, AskedFor
      <4>2. QED
        BY <4>1 DEF Orderly
    <3>5. CASE job' = IF job \in JobSettled THEN job ELSE "CANCELLED"
      BY <3>2, <3>5 DEF JobSettled
    <3>6. QED
      BY <1>1, <3>2, <3>3, <3>4, <3>5 DEF ClientWrites
  <2>3. QED
    BY <1>3, <2>1, <2>2 DEF OneResumes
<1>7. CASE ~(\A e \in DOMAIN outbox' : ToResume(e)' => e \in DOMAIN outbox)
  <2>1. PICK n \in DOMAIN outbox' \ DOMAIN outbox : ToResume(n)'
    BY <1>7
  <2>2. ResumeApproved(h)
    BY <2>1, ResumesByReview DEF ToResume
  <2>3. job # job'
    BY <2>1, <2>2, ResumeWrites DEF Ownership, rows
  <2>4. /\ job = "NEEDS_REVIEW" /\ job' = "RUNNING"
        /\ \E r \in DOMAIN runs : SetRun(r, "EXECUTING", TRUE) /\ Emit("resume", r)
    <3>1. At(h, "resume")
      BY <2>2 DEF ResumeApproved
    <3>2. /\ ~StartCommit(h) /\ ~RerunCommit(h) /\ ~RetryCommit(h)
          /\ ~CancelCommit(h) /\ ~ResumeRejected(h)
      BY <2>2, <3>1
      DEF StartCommit, RerunCommit, RetryCommit, CancelCommit, ResumeRejected,
          ResumeApproved, At, Approving
    <3>3. QED
      BY <1>1, <2>3, <3>2 DEF ClientWrites, Quiet
  <2>5. PICK r \in DOMAIN runs : SetRun(r, "EXECUTING", TRUE) /\ Emit("resume", r)
    BY <2>4
  <2>6. r \in Nat /\ Len(outbox) \in Nat
    BY <1>1 DEF IInv, RowsOK
  <2>7. /\ Len(outbox') = Len(outbox) + 1 /\ outbox' \in Seq(EventRow)
        /\ outbox'[Len(outbox) + 1].run = r
    BY <1>1, <2>5, <2>6, EmitRow
  <2>8. \A e \in DOMAIN outbox' \ DOMAIN outbox : e = Len(outbox) + 1
    BY <1>1, <2>6, <2>7
  <2>9. /\ \A w \in Workers : ~Executing(w)
        /\ \A e \in DOMAIN outbox : ~ToResume(e)
    BY <2>4, NobodyHas DEF Ownership
  <2>10. \A e \in DOMAIN outbox' : ToResume(e)' => e = Len(outbox) + 1
    BY <1>4, <2>8, <2>9
  <2>11. runs'[r].status = "EXECUTING"
    BY <2>5 DEF SetRun
  <2>12. QED
    BY <1>2, <1>3, <2>4, <2>7, <2>9, <2>10, <2>11 DEF OneResumes
<1>8. QED
  BY <1>6, <1>7

\* A worker begins to execute only by a claim or a resume.
LEMMA WorkersBegin ==
  ASSUME Orderly, IInv, NEW w \in Workers,
         WorkerStep(w) \/ SaveCheckpoint(w) \/ WorkerFault(w),
         Executing(w)', ~Executing(w)
  PROVE  /\ ~WAt(w, "idle") /\ ws'[w].task = ws[w].task
         /\ \/ ClaimCommit(w)
            \/ /\ ResumeLoad(w) /\ WAt(w, "load")
               /\ runs[RunOf(w)].status = "EXECUTING" /\ job = "RUNNING"
<1>1. /\ WorkerIsNow(w)
      /\ ws'[w].pc \in {"begin", "graph", "publish", "finread", "finish",
                        "failread", "fail"}
  BY WorkerGoes DEF Executing
<1>2. ~AnnounceFails(w)
  BY DEF AnnounceFails, Raises, Orderly
<1>3. ~FinishRead(w) /\ ~FailRead(w)
  BY DEF FinishRead, FailRead, WAt, Executing
<1>4. ws[w].pc \notin {"begin", "graph", "publish"}
  BY DEF Executing
<1>5. ResumeLoad(w) => WAt(w, "load")
  BY DEF ResumeLoad
<1>6. QED
  BY <1>1, <1>2, <1>3, <1>4, <1>5 DEF WorkerIsNow, WAt

\* A worker that resumes is the one that was to resume, and nobody else is.
LEMMA ResumedNow ==
  ASSUME Orderly, IInv, IInv', Ownership, EventStep, TasksKept,
         NEW w \in Workers, WorkerStep(w) \/ SaveCheckpoint(w) \/ WorkerFault(w),
         ResumeLoad(w), WAt(w, "load"), Executing(w)', ws'[w].task = ws[w].task
  PROVE  /\ ToResume(EventOf(w)) /\ EventOf(w) \in DOMAIN outbox
         /\ \A e \in DOMAIN outbox : ~ToResume(e)'
<1>1. /\ ~WAt(w, "idle") /\ Resuming(w)
      /\ UNCHANGED <<tasks, outbox>> /\ \A v \in Workers \ {w} : ws'[v] = ws[v]
  BY WorkerGoes DEF WAt, Ownership, OneResumes, ResumeLoad, rows
<1>2. /\ EventOf(w) \in DOMAIN outbox /\ EventOf(w)' = EventOf(w)
  BY <1>1, EventKept
<1>3. ToResume(EventOf(w))
  BY <1>1 DEF ToResume, EventOf, Resuming
<1>4. SentOnce
  <2>1. outbox[EventOf(w)].kind = "resume"
    BY <1>3 DEF ToResume
  <2>2. QED
    BY <1>2, <2>1 DEF Ownership, AskedFor, Delivered
<1>5. ws[w].task \in DOMAIN tasks /\ tasks[ws[w].task].copies = 0
  <2>1. ws[w].task \in 1 .. Len(tasks) /\ DOMAIN tasks = 1 .. Len(tasks)
    BY <1>1 DEF IInv, WorkersOK, RowsOK, WAt
  <2>2. QED
    BY <1>1, <1>4, <2>1 DEF SentOnce
<1>6. \A v \in Workers \ {w} : ~WAt(v, "idle") => ws[v].task \in DOMAIN tasks
  <2>1. \A v \in Workers : ws[v].pc # "idle" => ws[v].task \in 1 .. Len(tasks)
    BY DEF IInv, WorkersOK
  <2>2. DOMAIN tasks = 1 .. Len(tasks)
    BY DEF IInv, RowsOK
  <2>3. QED
    BY <2>1, <2>2 DEF WAt
<1>7. \A t \in DOMAIN tasks : tasks[t].event = EventOf(w) => t = ws[w].task
  BY <1>4, <1>5 DEF SentOnce, EventOf
<1>8. ASSUME NEW e \in DOMAIN outbox, e = EventOf(w) PROVE ~ToResume(e)'
  <2>1. ~(\A t \in DOMAIN tasks : tasks[t].event # EventOf(w))
    BY <1>5 DEF EventOf
  <2>2. ~(\E t \in DOMAIN tasks : tasks[t].event = EventOf(w) /\ tasks[t].copies > 0)
    BY <1>5, <1>7
  <2>3. \A v \in Workers : WAt(v, "load")' => v # w
    BY DEF WAt, Executing
  <2>4. \A v \in Workers \ {w} : WAt(v, "load") => EventOf(v) # EventOf(w)
    BY <1>1, <1>4, <1>6, <1>7 DEF SentOnce, EventOf, WAt
  <2>5. \A v \in Workers \ {w} : /\ WAt(v, "load")' => WAt(v, "load")
                                 /\ EventOf(v)' = EventOf(v)
    BY <1>1 DEF WAt, EventOf
  <2>6. \A v \in Workers : WAt(v, "load")' => EventOf(v)' # EventOf(w)
    BY <2>3, <2>4, <2>5
  <2>7. QED
    BY <1>1, <1>8, <2>1, <2>2, <2>6 DEF ToResume
<1>9. ASSUME NEW e \in DOMAIN outbox, ToResume(e)' PROVE FALSE
  <2>1. ToResume(e)
    BY <1>9, WorkersResume DEF Ownership
  <2>2. e = EventOf(w)
    BY <1>2, <1>3, <2>1 DEF Ownership, OneResumes
  <2>3. QED
    BY <1>8, <1>9, <2>2
<1>10. QED
  BY <1>2, <1>3, <1>9

LEMMA WorkersOwn ==
  ASSUME Orderly, IInv, IInv', Fresh, Ownership, EventStep, TasksKept,
         NEW w \in Workers, WorkerStep(w) \/ SaveCheckpoint(w) \/ WorkerFault(w)
  PROVE  OneWorks' /\ OneResumes'
<1>1. /\ WorkerWritesNow(w) /\ WorkerIsNow(w) /\ UNCHANGED outbox
      /\ \A v \in Workers \ {w} : ws'[v] = ws[v]
  BY WorkersWrite, WorkerGoes, WorkerEventsSame
<1>2. \A v \in Workers \ {w} :
        /\ Executing(v)' <=> Executing(v)
        /\ WAt(v, "load")' <=> WAt(v, "load")
        /\ Executing(v) \/ WAt(v, "load") => ~WAt(v, "idle")
  BY <1>1 DEF Executing, WAt
<1>3. \A v \in Workers \ {w} :
        ~WAt(v, "idle") =>
          /\ RunOf(v)' = RunOf(v) /\ RunOf(v) \in DOMAIN runs
          /\ Resuming(v)' <=> Resuming(v)
  BY <1>1, EventKept
<1>4. \A e \in DOMAIN outbox : ToResume(e)' => ToResume(e)
  BY WorkersResume DEF Ownership
<1>5. \A e \in DOMAIN outbox : outbox[e].run \in DOMAIN runs
  <2>1. \A e \in 1 .. Len(outbox) : outbox[e].run \in 1 .. Len(runs)
    BY DEF IInv, RowsOK
  <2>2. DOMAIN runs = 1 .. Len(runs) /\ DOMAIN outbox = 1 .. Len(outbox)
    BY DEF IInv, RowsOK
  <2>3. QED
    BY <2>1, <2>2
<1>6. \A v \in Workers : WAt(v, "load")' => Resuming(v)'
  <2>1. WAt(w, "load")' => Resuming(w)'
    <3>1. SUFFICES ASSUME WAt(w, "load")' PROVE Resuming(w)'
      OBVIOUS
    <3>2. PICK t \in DOMAIN tasks :
            /\ Take(w, t) /\ ws'[w].task = t
            /\ ws'[w].pc = IF outbox[tasks[t].event].kind = "resume"
                           THEN "load" ELSE "read"
      BY <1>1, <3>1 DEF WorkerIsNow, WAt
    <3>3. outbox[tasks[t].event].kind = "resume" /\ tasks'[t].event = tasks[t].event
      BY <3>1, <3>2, TakenTask DEF WAt
    <3>4. QED
      BY <1>1, <3>2, <3>3 DEF Resuming
  <2>2. QED
    BY <1>2, <1>3, <2>1 DEF Ownership, OneResumes
<1>7. \A d, e \in DOMAIN outbox' : ToResume(d)' /\ ToResume(e)' => d = e
  BY <1>1, <1>4 DEF Ownership, OneResumes
<1>8. ASSUME NEW v \in Workers, Executing(v)
      PROVE  /\ Owned(v) /\ ~WAt(v, "idle") /\ RunOf(v) \in DOMAIN runs
             /\ \A u \in Workers : Executing(u) => u = v
             /\ \A e \in DOMAIN outbox : ToResume(e) => job = "CANCELLED"
             /\ v # w \/ ws'[w].task = ws[w].task => RunOf(v)' = RunOf(v)
  <2>1. ~WAt(v, "idle")
    BY <1>8 DEF Executing, WAt
  <2>2. v # w \/ ws'[w].task = ws[w].task => RunOf(v)' = RunOf(v)
    BY <1>3, <2>1, EventKept
  <2>3. QED
    BY <1>8, <2>1, <2>2, RunExists DEF Ownership, OneWorks, OneResumes
<1>9. ASSUME Executing(w)', Executing(w) PROVE ws'[w].task = ws[w].task
  BY <1>1, <1>9 DEF WorkerIsNow, Executing
\* Nothing begins and nothing ends.
<1>10. CASE Executing(w)' => Executing(w)
  <2>1. \A u, v \in Workers : Executing(u)' /\ Executing(v)' => u = v
    BY <1>2, <1>10 DEF Ownership, OneWorks
  <2>2. ASSUME NEW v \in Workers, Executing(v)'
        PROVE  /\ Executing(v) /\ RunOf(v)' = RunOf(v) /\ RunOf(v) \in DOMAIN runs
               /\ Owned(v) /\ \A e \in DOMAIN outbox : ToResume(e) => job = "CANCELLED"
    <3>1. Executing(v)
      BY <1>2, <1>10, <2>2
    <3>2. v # w \/ ws'[w].task = ws[w].task
      BY <1>9, <2>2, <3>1
    <3>3. QED
      BY <1>8, <3>1, <3>2
  <2>3. CASE Quiet
    <3>1. \A v \in Workers : Executing(v)' => Owned(v)'
      BY <2>2, <2>3 DEF Owned, Quiet, RunsSame
    <3>2. ASSUME NEW e \in DOMAIN outbox', ToResume(e)'
          PROVE  \/ job' = "CANCELLED"
                 \/ /\ job' = "RUNNING" /\ runs'[outbox'[e].run].status = "EXECUTING"
                    /\ \A v \in Workers : ~Executing(v)'
      <4>1. e \in DOMAIN outbox /\ ToResume(e) /\ outbox'[e].run = outbox[e].run
        BY <1>1, <1>4, <3>2
      <4>2. \/ job = "CANCELLED"
            \/ /\ job = "RUNNING" /\ runs[outbox[e].run].status = "EXECUTING"
               /\ \A v \in Workers : ~Executing(v)
        BY <4>1 DEF Ownership, OneResumes
      <4>3. QED
        BY <1>5, <2>2, <2>3, <4>1, <4>2 DEF Quiet, RunsSame
    <3>3. QED
      BY <1>6, <1>7, <2>1, <3>1, <3>2 DEF OneWorks, OneResumes
  <2>4. CASE /\ job = "CANCELLED" /\ job' = job
             /\ SetRun(RunOf(w), "ERRORED", FALSE)
    <3>1. \A v \in Workers : Executing(v)' => Owned(v)'
      BY <2>2, <2>4 DEF Owned, SetRun
    <3>2. QED
      BY <1>6, <1>7, <2>1, <2>4, <3>1 DEF OneWorks, OneResumes
  <2>5. CASE ClaimCommit(w) /\ Claimable(RunOf(w))
    <3>1. /\ \A v \in Workers : ~Executing(v)
          /\ \A e \in DOMAIN outbox : ~ToResume(e)
      BY <2>5, NobodyHas DEF Ownership, Claimable
    <3>2. QED
      BY <1>1, <1>4, <1>6, <1>7, <2>2, <3>1 DEF OneWorks, OneResumes
  <2>6. CASE job # "CANCELLED" /\ (FinishCommit(w) \/ FailCommit(w))
    <3>1. Executing(w)
      BY <2>6 DEF FinishCommit, FailCommit, WAt, Executing
    <3>2. ~Executing(w)'
      <4>1. ws'[w].pc \in {"idle", "announce"}
        <5>1. ws[w].pc \in {"finish", "fail"}
          BY <2>6 DEF FinishCommit, FailCommit, WAt
        <5>2. /\ \A t \in DOMAIN tasks : ~Take(w, t)
              /\ ~ClaimRead(w) /\ ~FinishRead(w) /\ ~FailRead(w) /\ ~ClaimCommit(w)
              /\ ~ResumeLoad(w) /\ ~AnnounceFails(w) /\ ~Announce(w)
          BY <5>1
          DEF Take, ClaimRead, FinishRead, FailRead, ClaimCommit, ResumeLoad,
              AnnounceFails, Announce, WAt
        <5>3. QED
          BY <1>1, <5>1, <5>2 DEF WorkerIsNow
      <4>2. QED
        BY <4>1 DEF Executing
    <3>3. \A v \in Workers : ~Executing(v)'
      BY <1>2, <1>8, <3>1, <3>2
    <3>4. \A e \in DOMAIN outbox : ~ToResume(e)
      BY <1>8, <2>6, <3>1
    <3>5. QED
      BY <1>1, <1>4, <1>6, <1>7, <3>3, <3>4 DEF OneWorks, OneResumes
  <2>7. QED
    BY <1>1, <2>3, <2>4, <2>5, <2>6 DEF WorkerWritesNow
\* The worker begins.
<1>11. CASE Executing(w)' /\ ~Executing(w)
  <2>1. /\ ~WAt(w, "idle") /\ ws'[w].task = ws[w].task
        /\ \/ ClaimCommit(w)
           \/ /\ ResumeLoad(w) /\ WAt(w, "load")
              /\ runs[RunOf(w)].status = "EXECUTING" /\ job = "RUNNING"
    BY <1>11, WorkersBegin
  <2>2. RunOf(w)' = RunOf(w) /\ RunOf(w) \in DOMAIN runs
    BY <2>1, EventKept
  <2>3. SUFFICES ASSUME /\ \A v \in Workers : ~Executing(v)
                        /\ \A e \in DOMAIN outbox : ~ToResume(e)'
                        /\ Owned(w)'
                 PROVE  OneWorks' /\ OneResumes'
    <3>1. CASE ClaimCommit(w)
      <4>1. ~Quiet /\ ~ClaimDrop(w) /\ ~FinishCommit(w) /\ ~FailCommit(w)
        <5>1. job = "QUEUED" /\ job' = "RUNNING"
          BY <3>1, ProcessesAssumption
          DEF ClaimCommit, Store, Fresh, WorkerFresh, Claimable, InTx, Loaded, WAt
        <5>2. QED
          BY <3>1, <5>1
          DEF Quiet, ClaimCommit, ClaimDrop, FinishCommit, FailCommit, WAt
      <4>2. /\ Claimable(RunOf(w)) /\ job' = "RUNNING"
            /\ SetRun(RunOf(w), "INSPECTING", TRUE)
        BY <1>1, <4>1 DEF WorkerWritesNow
      <4>3. /\ \A v \in Workers : ~Executing(v)
            /\ \A e \in DOMAIN outbox : ~ToResume(e)
        BY <4>2, NobodyHas DEF Ownership, Claimable
      <4>4. Owned(w)'
        BY <2>2, <4>2 DEF Owned, SetRun
      <4>5. QED
        BY <1>4, <2>3, <4>3, <4>4
    <3>2. CASE /\ ResumeLoad(w) /\ WAt(w, "load")
               /\ runs[RunOf(w)].status = "EXECUTING" /\ job = "RUNNING"
      <4>1. /\ ToResume(EventOf(w)) /\ EventOf(w) \in DOMAIN outbox
            /\ \A e \in DOMAIN outbox : ~ToResume(e)'
        BY <1>11, <2>1, <3>2, ResumedNow
      <4>2. \A v \in Workers : ~Executing(v)
        BY <3>2, <4>1 DEF Ownership, OneResumes
      <4>3. UNCHANGED <<job, runs>>
        BY <3>2 DEF ResumeLoad, rows
      <4>4. Owned(w)'
        BY <2>2, <3>2, <4>3 DEF Owned
      <4>5. QED
        BY <2>3, <4>1, <4>2, <4>4
    <3>3. QED
      BY <2>1, <3>1, <3>2
  <2>4. \A v \in Workers : Executing(v)' => v = w
    BY <1>2, <2>3
  <2>5. QED
    BY <1>1, <1>6, <1>7, <2>3, <2>4 DEF OneWorks, OneResumes
<1>12. QED
  BY <1>10, <1>11

LEMMA OwnershipStep ==
  ASSUME Orderly, IInv, IInv', EventsHeld, Fresh, Ownership, [Next]_vars
  PROVE  Ownership'
<1>0. /\ EventStep /\ TasksKept /\ Serialized
      /\ AskedFor /\ SlotsMean /\ Delivered /\ OneWorks /\ OneResumes
  BY EveryStep DEF Orderly, Ownership
<1>1. AskedFor' /\ SlotsMean' /\ Delivered'
  BY <1>0, AskedForStep, SlotsStep, DeliveredStep
<1>2. CASE UNCHANGED vars
  <2>1. UNCHANGED <<job, runs, outbox, tasks, ws>>
    BY <1>2 DEF vars
  <2>2. OneWorks'
    BY <1>0, <2>1 DEF OneWorks, Owned, Executing, RunOf
  <2>3. OneResumes'
    BY <1>0, <2>1 DEF OneResumes, Executing, ToResume, EventOf, Resuming, WAt
  <2>4. QED
    BY <1>1, <2>2, <2>3 DEF Ownership
<1>3. CASE \E t \in DOMAIN tasks : Redeliver(t)
  <2>1. PICK t \in DOMAIN tasks : Redeliver(t)
    BY <1>3
  <2>2. UNCHANGED <<job, runs, outbox, hs, ws>>
    BY <2>1 DEF Redeliver, rows
  <2>3. \A e \in DOMAIN outbox : outbox[e].kind # "resume"
    <3>1. "decide" \notin Requests
      BY <2>1, NoFaults DEF Orderly, Reliable
    <3>2. QED
      BY <1>0, <3>1 DEF AskedFor
  <2>4. \A w \in Workers : Executing(w)' => Owned(w)'
    <3>1. ASSUME NEW w \in Workers, Executing(w) PROVE Owned(w)'
      <4>1. ~WAt(w, "idle") /\ ws'[w].task = ws[w].task
        BY <2>2, <3>1 DEF Executing, WAt
      <4>2. RunOf(w)' = RunOf(w)
        BY <1>0, <4>1, EventKept
      <4>3. QED
        BY <1>0, <2>2, <3>1, <4>2 DEF OneWorks, Owned
    <3>2. QED
      BY <2>2, <3>1 DEF Executing
  <2>5. \A w \in Workers : ~WAt(w, "load")'
    <3>1. ASSUME NEW w \in Workers, WAt(w, "load") PROVE FALSE
      <4>1. Resuming(w) /\ ~WAt(w, "idle") /\ ws'[w].task = ws[w].task
        BY <1>0, <2>2, <3>1 DEF OneResumes, WAt
      <4>2. EventOf(w) \in DOMAIN outbox
        BY <1>0, <4>1, EventKept
      <4>3. QED
        BY <2>3, <4>1, <4>2 DEF EventOf, Resuming
    <3>2. QED
      BY <2>2, <3>1 DEF WAt
  <2>6. OneWorks'
    BY <1>0, <2>2, <2>4 DEF OneWorks, Executing
  <2>7. OneResumes'
    BY <2>2, <2>3, <2>5 DEF OneResumes, ToResume
  <2>8. QED
    BY <1>1, <2>6, <2>7 DEF Ownership
<1>4. ASSUME NEW h \in Handlers, Request(h) \/ HandlerStep(h) \/ HandlerFault(h)
      PROVE  Ownership'
  <2>1. OneWorks' /\ OneResumes'
    BY <1>0, <1>4, ClientsOwn, ClientsOneResumes
  <2>2. QED
    BY <1>1, <2>1 DEF Ownership
<1>5. ASSUME NEW w \in Workers, WorkerStep(w) \/ SaveCheckpoint(w) \/ WorkerFault(w)
      PROVE  Ownership'
  <2>1. OneWorks' /\ OneResumes'
    BY <1>0, <1>5, WorkersOwn
  <2>2. QED
    BY <1>1, <2>1 DEF Ownership
<1>6. QED
  BY <1>2, <1>3, <1>4, <1>5 DEF Next

LEMMA OwnershipStart == Init => Ownership
BY DEF Init, Ownership, AskedFor, SlotsMean, Delivered, SentOnce, OneWorks,
       OneResumes, Executing, ActiveRuns, IdleHandler, IdleWorker, WAt

LEMMA OwnershipHolds ==
  ASSUME Orderly
  PROVE  Spec => []Ownership
<1>1. Serialized
  BY DEF Orderly
<1>2. Spec => []EventsHeld
  BY <1>1, EventsHeldHolds
<1>3. Spec => []Fresh
  BY <1>1, FreshHolds
<1>4. /\ IInv /\ IInv' /\ EventsHeld /\ Fresh /\ Ownership /\ [Next]_vars
      => Ownership'
  BY OwnershipStep
<1>5. QED
  BY <1>2, <1>3, <1>4, OwnershipStart, RefsCorrect, PTL DEF Spec

\* One worker at a time executes the job, and one publisher sends an event, also
\* where clients cancel and reviewers decide.
THEOREM OneHasTheJob ==
  ASSUME Orderly
  PROVE  Spec => []OneAtATime
<1>1. Serialized
  BY DEF Orderly
<1>2. Spec => []OnePublisher
  BY <1>1, OneSends
<1>3. Ownership => ExclusiveExecution
  BY DEF Ownership, OneWorks, ExclusiveExecution
<1>4. OnePublisher /\ ExclusiveExecution => OneAtATime
  BY DEF OneAtATime
<1>5. QED
  BY <1>2, <1>3, <1>4, OwnershipHolds, PTL

-----------------------------------------------------------------------------
(* The promise of the status                                               *)

LEMMA PromiseStart == Init => Promise!Init
BY DEF Init, Promise!Init

\* A triple of the table is a transition.
LEMMA Listed ==
  ASSUME NEW state, NEW event, NEW next, <<state, event, next>> \in JobTransitions,
         NEW decision, event = "REVIEW_APPROVED" => decision \in Approving
  PROVE  next \in JobNextStates(state, event, decision)
<1> DEFINE t == <<state, event, next>>
<1>1. t[1] = state /\ t[2] = event /\ t[3] = next /\ t \in JobTransitions
  OBVIOUS
<1>2. next \in Lookup(JobTransitions, state, event)
  <2> HIDE DEF t
  <2>1. QED
    BY <1>1 DEF Lookup
<1>3. event # "CANCEL" /\ state # "CANCELLED"
  BY DEF JobTransitions
<1>4. QED
  BY <1>2, <1>3 DEF JobNextStates

LEMMA PromiseTable ==
  ASSUME NEW state, NEW event, NEW decision
  PROVE  Promise!JobNextStates(state, event, decision)
           = JobNextStates(state, event, decision)
BY DEF Promise!JobNextStates, Promise!JobSettled, Promise!LateEvents,
       Promise!Approving, Promise!Lookup, Promise!JobTransitions,
       JobNextStates, JobSettled, LateEvents, Approving, Lookup, JobTransitions

\* Every change of the status is an event of the table, a retry or a rerun.
LEMMA PromiseStep ==
  ASSUME Orderly, IInv, Fresh, Ownership, [Next]_vars
  PROVE  [Promise!Next]_job
<1>1. CASE UNCHANGED job
  BY <1>1
<1>2. ASSUME NEW event \in JobEvents, NEW decision \in ReviewDecisions,
             job' \in JobNextStates(job, event, decision)
      PROVE  [Promise!Next]_job
  <2>1. event \in Promise!JobEvents /\ decision \in Promise!ReviewDecisions
    BY DEF JobEvents, ReviewDecisions, Promise!JobEvents, Promise!ReviewDecisions
  <2>2. job' \in Promise!JobNextStates(job, event, decision)
    BY <1>2, PromiseTable
  <2>3. QED
    BY <2>1, <2>2 DEF Promise!Next, Promise!Handle
<1>3. /\ "START" \in JobEvents /\ "CANCEL" \in JobEvents /\ "FAIL" \in JobEvents
      /\ "WORKER_STARTED" \in JobEvents /\ "SUCCEED" \in JobEvents
      /\ "REQUIRE_REVIEW" \in JobEvents /\ "REVIEW_APPROVED" \in JobEvents
      /\ "REVIEW_REJECTED" \in JobEvents
      /\ "APPROVED" \in ReviewDecisions /\ "REJECTED" \in ReviewDecisions
  BY DEF JobEvents, ReviewDecisions
<1>4. ASSUME NEW h \in Handlers, Request(h) \/ HandlerStep(h) \/ HandlerFault(h)
      PROVE  [Promise!Next]_job
  <2>1. ClientWrites(h)
    BY <1>4, ClientsWrite
  <2>2. CASE job \in Promise!Rerunnable /\ job' = "QUEUED"
    BY <2>2 DEF Promise!Next, Promise!Requeue
  <2>3. CASE job = "FAILED" /\ job' = "QUEUED"
    BY <2>3 DEF Promise!Next, Promise!Requeue, Promise!Rerunnable
  <2>4. CASE job = "CREATED" /\ job' = "QUEUED"
    <3>1. job' \in JobNextStates(job, "START", "APPROVED")
      BY <2>4, Listed DEF JobTransitions
    <3>2. QED
      BY <1>2, <1>3, <3>1
  <2>5. CASE job' = IF job \in JobSettled THEN job ELSE "CANCELLED"
    <3>1. CASE job \in JobSettled
      BY <1>1, <2>5, <3>1
    <3>2. CASE job \notin JobSettled
      <4>1. job' \in JobNextStates(job, "CANCEL", "APPROVED")
        BY <2>5, <3>2 DEF JobNextStates
      <4>2. QED
        BY <1>2, <1>3, <4>1
    <3>3. QED
      BY <3>1, <3>2
  <2>6. CASE job = "NEEDS_REVIEW" /\ job' = "RUNNING"
    <3>1. job' \in JobNextStates(job, "REVIEW_APPROVED", "APPROVED")
      BY <2>6, Listed DEF JobTransitions, Approving
    <3>2. QED
      BY <1>2, <1>3, <3>1
  <2>7. CASE job = "NEEDS_REVIEW" /\ job' = "FAILED"
    <3>1. job' \in JobNextStates(job, "REVIEW_REJECTED", "REJECTED")
      BY <2>7, Listed DEF JobTransitions
    <3>2. QED
      BY <1>2, <1>3, <3>1
  <2>8. QED
    BY <1>1, <2>1, <2>2, <2>3, <2>4, <2>5, <2>6, <2>7 DEF ClientWrites, Quiet
<1>5. ASSUME NEW w \in Workers, WorkerStep(w) \/ SaveCheckpoint(w) \/ WorkerFault(w)
      PROVE  [Promise!Next]_job
  <2>1. WorkerWritesNow(w)
    BY <1>5, WorkersWrite
  <2>2. CASE Claimable(RunOf(w)) /\ job' = "RUNNING"
    <3>1. job' \in JobNextStates(job, "WORKER_STARTED", "APPROVED")
      BY <2>2, Listed DEF Claimable, JobTransitions
    <3>2. QED
      BY <1>2, <1>3, <3>1
  <2>3. CASE (FinishCommit(w) \/ FailCommit(w)) /\ job # "CANCELLED"
    <3>1. job = "RUNNING"
      BY <2>3
      DEF Ownership, OneWorks, Owned, Executing, FinishCommit, FailCommit, WAt
    <3>2. job' \in {"SUCCEEDED", "NEEDS_REVIEW", "FAILED"}
      <4>1. \/ ~Late(w) /\ job' = Store(job, ws[w].job, JobResult(ws[w].outcome))
            \/ ~Late(w) /\ job' = Store(job, ws[w].job, "FAILED")
        <5>1. InTx(w) => ws[w].job = job
          BY DEF Fresh, WorkerFresh, Loaded
        <5>2. InTx(w)
          BY <2>3, ProcessesAssumption DEF InTx, FinishCommit, FailCommit, WAt
        <5>3. ~Late(w)
          BY <2>3, <5>1, <5>2 DEF Late
        <5>4. QED
          BY <2>3, <5>3 DEF FinishCommit, FailCommit
      <4>2. ws[w].job = "RUNNING"
        BY <2>3, <3>1, ProcessesAssumption
        DEF Fresh, WorkerFresh, Loaded, InTx, FinishCommit, FailCommit, WAt
      <4>3. QED
        BY <3>1, <4>1, <4>2 DEF JobResult, Store
    <3>3. /\ "SUCCEEDED" \in JobNextStates(job, "SUCCEED", "APPROVED")
          /\ "NEEDS_REVIEW" \in JobNextStates(job, "REQUIRE_REVIEW", "APPROVED")
          /\ "FAILED" \in JobNextStates(job, "FAIL", "APPROVED")
      BY <3>1, Listed DEF JobTransitions
    <3>4. QED
      BY <1>2, <1>3, <3>2, <3>3
  <2>4. QED
    BY <1>1, <2>1, <2>2, <2>3 DEF WorkerWritesNow, Quiet
<1>6. CASE UNCHANGED vars \/ \E t \in DOMAIN tasks : Redeliver(t)
  BY <1>1, <1>6 DEF vars, Redeliver, rows
<1>7. QED
  BY <1>4, <1>5, <1>6 DEF Next

\* The status row of the database, with its handlers, its workers and their
\* transactions, implements the lifecycle of state_machines.py.
THEOREM JobKeepsPromise ==
  ASSUME Orderly
  PROVE  Spec => JobRefinesLifecycle
<1>1. Serialized
  BY DEF Orderly
<1>2. Spec => []Fresh
  BY <1>1, FreshHolds
<1>3. IInv /\ Fresh /\ Ownership /\ [Next]_vars => [Promise!Next]_job
  BY PromiseStep
<1>4. QED
  BY <1>2, <1>3, PromiseStart, OwnershipHolds, RefsCorrect, PTL
  DEF Spec, JobRefinesLifecycle, Promise!Spec

-----------------------------------------------------------------------------
(* What has ended                                                          *)

Ended(status) == status \in {"COMPLETED", "ERRORED"}

\* Each transaction that writes a run finds it working or waiting, or cancelled
\* under its worker and then ERRORED already; only a retry finds it ended.
LEMMA EndedStep ==
  ASSUME Orderly, IInv, Fresh, Ownership, [Next]_vars,
         NEW r \in DOMAIN runs, Ended(runs[r].status)
  PROVE  \/ runs'[r].status = runs[r].status
         \/ \E h \in Handlers : RetryCommit(h)
<1>1. CASE UNCHANGED runs
  BY <1>1
<1>2. CASE UNCHANGED vars \/ \E t \in DOMAIN tasks : Redeliver(t)
  BY <1>1, <1>2 DEF vars, Redeliver, rows
<1>3. r \notin ActiveRuns /\ ~Working(runs[r].status)
  BY DEF Ownership, SlotsMean, ActiveRuns, Working, Ended
<1>4. ASSUME Quiet PROVE runs'[r].status = runs[r].status
  BY <1>4 DEF Quiet, RunsSame
<1>5. ASSUME NEW q, NEW status, NEW slot, SetRun(q, status, slot), q # r
      PROVE  runs'[r].status = runs[r].status
  BY <1>5 DEF SetRun
<1>6. ASSUME NEW h \in Handlers, Request(h) \/ HandlerStep(h) \/ HandlerFault(h)
      PROVE  runs'[r].status = runs[r].status \/ RetryCommit(h)
  <2>1. ClientWrites(h)
    BY <1>6, ClientsWrite
  <2>2. ASSUME NEW kind, CreateRun(kind) PROVE runs'[r] = runs[r]
    <3> DEFINE row == [status |-> "INITIALIZING", slot |-> TRUE, task |-> 0,
                       ckpt |-> "none"]
    <3>1. runs \in Seq(RunRow) /\ row \in RunRow /\ runs' = Append(runs, row)
      BY <2>2 DEF IInv, RowsOK, RunRow, RunStates, CreateRun
    <3> HIDE DEF row
    <3>2. QED
      BY <3>1, AppendProperties
  <2>3. CASE \E q \in ActiveRuns : SetRun(q, "ERRORED", FALSE)
    BY <1>3, <1>5, <2>3
  <2>4. CASE \E q \in DOMAIN runs : /\ runs[q].status = "WAITING_HUMAN"
                                    /\ \/ SetRun(q, "ERRORED", FALSE)
                                       \/ SetRun(q, "EXECUTING", TRUE)
    BY <1>5, <2>4 DEF Ended
  <2>5. CASE RunsSame
    BY <2>5 DEF RunsSame
  <2>6. \/ Quiet \/ RetryCommit(h) \/ CreateRun("start") \/ CreateRun("rerun")
        \/ RunsSame \/ \E q \in ActiveRuns : SetRun(q, "ERRORED", FALSE)
        \/ \E q \in DOMAIN runs : /\ runs[q].status = "WAITING_HUMAN"
                                 /\ \/ SetRun(q, "ERRORED", FALSE)
                                    \/ SetRun(q, "EXECUTING", TRUE)
    BY <2>1, Zenon DEF ClientWrites
  <2>7. QED
    BY <1>4, <2>2, <2>3, <2>4, <2>5, <2>6
<1>7. ASSUME NEW w \in Workers, WorkerStep(w) \/ SaveCheckpoint(w) \/ WorkerFault(w)
      PROVE  runs'[r].status = runs[r].status
  <2>1. WorkerWritesNow(w)
    BY <1>7, WorkersWrite
  <2>2. CASE Claimable(RunOf(w)) /\ SetRun(RunOf(w), "INSPECTING", TRUE)
    BY <1>5, <2>2 DEF Claimable, Ended
  <2>3. CASE runs[RunOf(w)].slot /\ SetRun(RunOf(w), "ERRORED", FALSE)
    BY <1>3, <1>5, <2>3 DEF ActiveRuns
  <2>4. CASE /\ FinishCommit(w) \/ FailCommit(w)
             /\ \E status : SetRun(RunOf(w), status, FALSE)
             /\ job = "CANCELLED" => SetRun(RunOf(w), "ERRORED", FALSE)
    <3>1. Owned(w)
      BY <2>4 DEF Ownership, OneWorks, Executing, FinishCommit, FailCommit, WAt
    <3>2. CASE job = "CANCELLED"
      BY <1>5, <2>4, <3>1, <3>2 DEF Owned, SetRun
    <3>3. CASE job = "RUNNING"
      BY <1>3, <1>5, <2>4, <3>1, <3>3 DEF Owned, Working
    <3>4. QED
      BY <3>1, <3>2, <3>3 DEF Owned
  <2>5. \/ Quiet
        \/ Claimable(RunOf(w)) /\ SetRun(RunOf(w), "INSPECTING", TRUE)
        \/ runs[RunOf(w)].slot /\ SetRun(RunOf(w), "ERRORED", FALSE)
        \/ /\ FinishCommit(w) \/ FailCommit(w)
           /\ \E status : SetRun(RunOf(w), status, FALSE)
           /\ job = "CANCELLED" => SetRun(RunOf(w), "ERRORED", FALSE)
    <3>1. \/ FinishCommit(w) \/ FailCommit(w)
          \/ \/ Quiet
             \/ Claimable(RunOf(w)) /\ SetRun(RunOf(w), "INSPECTING", TRUE)
             \/ runs[RunOf(w)].slot /\ SetRun(RunOf(w), "ERRORED", FALSE)
      BY <2>1 DEF WorkerWritesNow
    <3>2. CASE FinishCommit(w) \/ FailCommit(w)
      <4>1. ~ClaimCommit(w) /\ ~ClaimDrop(w)
        BY <3>2 DEF FinishCommit, FailCommit, ClaimCommit, ClaimDrop, WAt
      <4>2. \/ Quiet
            \/ /\ \E status : SetRun(RunOf(w), status, FALSE)
               /\ job = "CANCELLED" => SetRun(RunOf(w), "ERRORED", FALSE)
        BY <2>1, <4>1 DEF WorkerWritesNow
      <4>3. QED
        BY <3>2, <4>2
    <3>3. QED
      BY <3>1, <3>2
  <2>6. QED
    BY <1>4, <2>2, <2>3, <2>4, <2>5
<1>8. QED
  BY <1>2, <1>6, <1>7 DEF Next

\* A cancelled job stays cancelled but for a rerun, and a run that has ended
\* stays as it ended but for a retry: no late result reopens it.
THEOREM WhatEndedStays ==
  ASSUME Orderly
  PROVE  Spec => EndsStay
<1>1. Serialized
  BY DEF Orderly
<1>2. Spec => []Fresh
  BY <1>1, FreshHolds
<1>3. Spec => CancelledSticks
  BY <1>1, CancelledStays
<1>4. IInv /\ Fresh /\ Ownership /\ [Next]_vars =>
        [\A r \in DOMAIN runs :
           runs[r].status \in {"COMPLETED", "ERRORED"} =>
             \/ runs'[r].status = runs[r].status
             \/ \E h \in Handlers : RetryCommit(h)]_vars
  BY EndedStep DEF Ended
<1>5. Spec => EndedRunStaysEnded
  BY <1>2, <1>4, OwnershipHolds, RefsCorrect, PTL DEF Spec, EndedRunStaysEnded
<1>6. QED
  BY <1>3, <1>5, PTL DEF EndsStay

-----------------------------------------------------------------------------
(* Checkpoints, the run touched last, and the reviews                      *)

\* No checkpoint changes, and the run touched last exists if anything does.
Written ==
  /\ \A r \in DOMAIN runs : runs'[r].ckpt = runs[r].ckpt
  /\ \/ touched' = touched /\ DOMAIN runs' = DOMAIN runs
     \/ touched' \in DOMAIN runs'

LEMMA RowWritten ==
  ASSUME IInv, NEW r \in DOMAIN runs, NEW row \in RunRow, row.ckpt = runs[r].ckpt,
         runs' = [runs EXCEPT ![r] = row], touched' \in {touched, r}
  PROVE  Written
<1>1. runs \in Seq(RunRow) /\ r \in 1 .. Len(runs)
  BY DEF IInv, RowsOK
<1>2. QED
  BY <1>1 DEF Written

LEMMA UpdateWritten ==
  ASSUME IInv, NEW r \in DOMAIN runs, NEW from, NEW status \in RunStates,
         NEW slot \in BOOLEAN, UpdateRun(r, from, status, slot)
  PROVE  Written
<1> DEFINE row == [runs[r] EXCEPT !.status = Store(@, from.status, status),
                                  !.slot = Store(@, from.slot, slot)]
<1>1. runs \in Seq(RunRow) /\ r \in 1 .. Len(runs)
  BY DEF IInv, RowsOK
<1>2. runs[r] \in RunRow
  BY <1>1, ElementOfSeq
<1>3. row \in RunRow /\ row.ckpt = runs[r].ckpt
  BY <1>2 DEF RunRow, Store
<1>4. runs' = [runs EXCEPT ![r] = row] /\ touched' \in {touched, r}
  BY <1>2 DEF UpdateRun, RunRow
<1> HIDE DEF row
<1>5. QED
  BY <1>3, <1>4, RowWritten

LEMMA CreateWritten ==
  ASSUME IInv, NEW kind, CreateRun(kind)
  PROVE  Written
<1> DEFINE row == [status |-> "INITIALIZING", slot |-> TRUE, task |-> 0,
                   ckpt |-> "none"]
<1>1. /\ runs \in Seq(RunRow) /\ row \in RunRow /\ runs' = Append(runs, row)
      /\ touched' = Len(runs) + 1
  BY DEF IInv, RowsOK, RunRow, RunStates, CreateRun
<1> HIDE DEF row
<1>2. /\ Len(runs) \in Nat /\ DOMAIN runs' = 1 .. (Len(runs) + 1)
      /\ \A q \in DOMAIN runs : runs'[q] = runs[q]
  BY <1>1, AppendProperties
<1>3. touched' \in DOMAIN runs'
  BY <1>1, <1>2
<1>4. QED
  BY <1>2, <1>3 DEF Written

LEMMA ClientsWritten ==
  ASSUME IInv, NEW h \in Handlers, Request(h) \/ HandlerStep(h) \/ HandlerFault(h)
  PROVE  Written
<1>0. /\ HandlerRef(hs[h], Len(runs), Len(outbox), tasks) /\ hs[h] \in HandlerState
      /\ runs \in Seq(RunRow) /\ DOMAIN runs = 1 .. Len(runs)
      /\ DOMAIN outbox = 1 .. Len(outbox)
  BY DEF IInv, HandlersOK, RowsOK
<1>1. CASE UNCHANGED <<runs, touched>>
  BY <1>1 DEF Written
<1>2. CASE StartCommit(h) \/ RerunCommit(h)
  <2>1. UNCHANGED <<runs, touched>> \/ CreateRun("start") \/ CreateRun("rerun")
    BY <1>2 DEF StartCommit, RerunCommit, rows
  <2>2. QED
    BY <1>1, <2>1, CreateWritten
<1>3. CASE RetryCommit(h)
  <2>1. hs[h].run \in DOMAIN runs
    BY <1>0, <1>3 DEF RetryCommit, HandlerRef, At
  <2>2. \/ UNCHANGED <<runs, touched>>
        \/ UpdateRun(hs[h].run, hs[h], "INITIALIZING", TRUE)
    BY <1>3 DEF RetryCommit, rows
  <2>3. QED
    BY <1>1, <2>1, <2>2, UpdateWritten DEF RunStates
<1>4. CASE CancelCommit(h)
  <2>1. CASE hs[h].run # 0 /\ UpdateRun(hs[h].run, hs[h], "ERRORED", FALSE)
    <3>1. hs[h].run \in DOMAIN runs
      BY <1>0, <1>4, <2>1 DEF CancelCommit, HandlerRef, At
    <3>2. QED
      BY <2>1, <3>1, UpdateWritten DEF RunStates
  <2>2. QED
    BY <1>1, <1>4, <2>1 DEF CancelCommit
<1>5. CASE ResumeApproved(h) \/ ResumeRejected(h)
  <2>1. hs[h].run \in DOMAIN runs
    BY <1>0, <1>5 DEF ResumeApproved, ResumeRejected, HandlerRef, At
  <2>2. \/ UNCHANGED <<runs, touched>>
        \/ \E s \in RunNextStates(hs[h].status, "RESUME", hs[h].decision) :
             \/ UpdateRun(hs[h].run, hs[h], s, TRUE)
             \/ UpdateRun(hs[h].run, hs[h], s, FALSE)
    BY <1>5 DEF ResumeApproved, ResumeRejected, rows
  <2>3. RunNextStates(hs[h].status, "RESUME", hs[h].decision) \subseteq RunStates
    BY NextStatesTyped
  <2>4. QED
    BY <1>1, <2>1, <2>2, <2>3, UpdateWritten
<1>6. CASE Note(h)
  <2> DEFINE r == outbox[hs[h].event].run
             row == [runs[r] EXCEPT !.task = hs[h].task]
  <2>1. hs[h].event \in 1 .. Len(outbox)
    BY <1>0, <1>6 DEF Note, HandlerRef, At
  <2>2. r \in 1 .. Len(runs) /\ hs[h].task \in Nat
    BY <1>0, <2>1 DEF IInv, RowsOK, HandlerState
  <2>3. runs[r] \in RunRow
    BY <1>0, <2>2, ElementOfSeq
  <2>4. row \in RunRow /\ row.ckpt = runs[r].ckpt
    BY <2>2, <2>3 DEF RunRow
  <2>5. runs' = [runs EXCEPT ![r] = row] /\ touched' = r
    BY <1>6, <2>3 DEF Note, RunRow
  <2>6. r \in DOMAIN runs
    BY <1>0, <2>2
  <2> HIDE DEF row, r
  <2>7. QED
    BY <2>4, <2>5, <2>6, RowWritten
<1>7. CASE Request(h) \/ HandlerFault(h)
  BY <1>1, <1>7
  DEF Request, HandlerFault, StartRead, RetryRead, RerunRead, Replay, CancelLook,
      Decide, SendFails, NoteFails, HandlerCrash, rows
<1>8. CASE \/ CancelRead(h) \/ Revoke(h) \/ ResumeRead(h) \/ DrainScan(h)
           \/ BatchEnd(h) \/ BatchNext(h) \/ ClaimEvent(h) \/ Send(h)
           \/ Unsend(h) \/ Done(h)
  BY <1>1, <1>8
  DEF CancelRead, Revoke, ResumeRead, DrainScan, BatchEnd, BatchNext, ClaimEvent,
      Send, Unsend, Done, rows
<1>9. QED
  BY <1>2, <1>3, <1>4, <1>5, <1>6, <1>7, <1>8 DEF HandlerStep

\* A worker changes the checkpoint of its run when the graph saves one.
Saves(w) == SaveCheckpoint(w) \/ \E o \in Outcomes \cup {"RAISED"} : GraphEnds(w, o)

LEMMA WorkersWritten ==
  ASSUME IInv, NEW w \in Workers,
         WorkerStep(w) \/ SaveCheckpoint(w) \/ WorkerFault(w)
  PROVE  /\ ~Saves(w) => Written
         /\ \/ touched' = touched /\ DOMAIN runs' = DOMAIN runs
            \/ touched' \in DOMAIN runs'
<1>1. CASE UNCHANGED <<runs, touched>>
  BY <1>1 DEF Written
<1>2. CASE Saves(w)
  <2>1. ~WAt(w, "idle")
    BY <1>2 DEF Saves, SaveCheckpoint, GraphEnds, WAt
  <2>2. RunOf(w) \in DOMAIN runs
    BY <2>1, RunExists
  <2>3. DOMAIN runs' = DOMAIN runs /\ touched' \in {touched, RunOf(w)}
    <3>1. CASE SaveCheckpoint(w)
      BY <3>1 DEF SaveCheckpoint
    <3>2. CASE \E o \in Outcomes \cup {"RAISED"} : GraphEnds(w, o)
      <4>1. PICK o : GraphEnds(w, o)
        BY <3>2
      <4>2. QED
        BY <4>1 DEF GraphEnds
    <3>3. QED
      BY <1>2, <3>1, <3>2 DEF Saves
  <2>4. QED
    BY <1>2, <2>2, <2>3
<1>3. CASE ClaimCommit(w) \/ ClaimDrop(w) \/ FinishCommit(w) \/ FailCommit(w)
  <2>1. RunOf(w) \in DOMAIN runs /\ ws[w] \in WorkerState
    <3>1. ~WAt(w, "idle")
      BY <1>3 DEF ClaimCommit, ClaimDrop, FinishCommit, FailCommit, WAt
    <3>2. QED
      BY <3>1, RunExists DEF IInv, WorkersOK
  <2>2. ws[w].slot \in BOOLEAN /\ RunResult(ws[w].outcome) \in RunStates
    BY <2>1 DEF WorkerState, RunResult, RunStates
  <2>3. \E status \in RunStates, slot \in BOOLEAN :
          UpdateRun(RunOf(w), ws[w], status, slot)
    <3>1. "INSPECTING" \in RunStates /\ "ERRORED" \in RunStates
      BY DEF RunStates
    <3>2. CASE ClaimCommit(w)
      BY <2>2, <3>1, <3>2 DEF ClaimCommit
    <3>3. CASE ClaimDrop(w) \/ FailCommit(w)
      BY <3>1, <3>3 DEF ClaimDrop, FailCommit
    <3>4. CASE FinishCommit(w)
      BY <2>2, <3>1, <3>4 DEF FinishCommit
    <3>5. QED
      BY <1>3, <3>2, <3>3, <3>4
  <2>4. Written
    BY <2>1, <2>3, UpdateWritten
  <2>5. QED
    BY <2>4 DEF Written
<1>4. CASE \/ \E t \in DOMAIN tasks : Take(w, t)
           \/ ClaimRead(w) \/ ResumeLoad(w) \/ Begin(w) \/ Publish(w)
           \/ FinishRead(w) \/ Announce(w) \/ CreateReview(w) \/ FailRead(w)
           \/ WorkerFault(w)
  BY <1>1, <1>4
  DEF Take, ClaimRead, ResumeLoad, Begin, Publish, FinishRead, Announce,
      CreateReview, FailRead, WorkerFault, BeginFails, PublishFails,
      AnnounceFails, WorkerCrash, Terminate, rows
<1>5. QED
  BY <1>2, <1>3, <1>4 DEF WorkerStep, Saves

\* Reviews are decided by clients and created by workers.
LEMMA ReviewsWritten ==
  /\ \A h \in Handlers :
       Request(h) \/ HandlerStep(h) \/ HandlerFault(h) =>
         UNCHANGED reviews \/ \E v \in DOMAIN reviews, d \in Decisions : Decide(h, v, d)
  /\ \A w \in Workers :
       WorkerStep(w) \/ SaveCheckpoint(w) \/ WorkerFault(w) =>
         UNCHANGED reviews \/ CreateReview(w)
<1>1. ASSUME NEW h \in Handlers, Request(h) \/ HandlerFault(h)
      PROVE  UNCHANGED reviews \/ \E v \in DOMAIN reviews, d \in Decisions : Decide(h, v, d)
  BY <1>1
  DEF Request, HandlerFault, StartRead, RetryRead, RerunRead, Replay, CancelLook,
      SendFails, NoteFails, HandlerCrash, rows
<1>2. ASSUME NEW h \in Handlers, HandlerStep(h) PROVE UNCHANGED reviews
  BY <1>2
  DEF HandlerStep, StartCommit, RetryCommit, RerunCommit, CancelRead, CancelCommit,
      Revoke, ResumeRead, ResumeApproved, ResumeRejected, DrainScan, BatchEnd,
      BatchNext, ClaimEvent, Send, Note, Unsend, Done, rows
<1>3. ASSUME NEW w \in Workers, WorkerStep(w), ~CreateReview(w)
      PROVE  UNCHANGED reviews
  BY <1>3
  DEF WorkerStep, Take, ClaimRead, ClaimCommit, ClaimDrop, ResumeLoad, Begin,
      GraphEnds, Publish, FinishRead, FinishCommit, Announce, FailRead, FailCommit,
      rows
<1>4. ASSUME NEW w \in Workers, SaveCheckpoint(w) \/ WorkerFault(w)
      PROVE  UNCHANGED reviews
  BY <1>4
  DEF SaveCheckpoint, WorkerFault, BeginFails, PublishFails, AnnounceFails,
      WorkerCrash, Terminate, rows
<1>5. QED
  BY <1>1, <1>2, <1>3, <1>4

-----------------------------------------------------------------------------
(* The review of a run                                                     *)

\* A run waits while its job needs a review, and there is one run.
OnlyRun ==
  /\ \A q, r \in DOMAIN runs : q = r
  /\ job = "CREATED" => DOMAIN runs = {}
  /\ \A r \in DOMAIN runs :
       runs[r].status = "WAITING_HUMAN" => job \in {"NEEDS_REVIEW", "CANCELLED"}
  /\ job = "NEEDS_REVIEW" =>
       DOMAIN runs # {} /\ \A r \in DOMAIN runs : runs[r].status = "WAITING_HUMAN"

\* A review is about to be created, is open, or is being carried out.
Asking(w) == ws[w].pc \in {"announce", "review"} /\ ws[w].outcome = "NEEDS_REVIEW"
Pending(v) == reviews[v].status = "PENDING"
Deciding(h) == hs[h].pc \in {"decided", "resume"}

NoneAsks ==
  /\ \A w \in Workers : ~Asking(w)
  /\ \A v \in DOMAIN reviews : ~Pending(v)
  /\ \A h \in Handlers : ~Deciding(h)

OneOfThem ==
  /\ \A v, w \in Workers : Asking(v) /\ Asking(w) => v = w
  /\ \A u, v \in DOMAIN reviews : Pending(u) /\ Pending(v) => u = v
  /\ \A g, h \in Handlers : Deciding(g) /\ Deciding(h) => g = h
  /\ \A v \in DOMAIN reviews, w \in Workers : ~(Pending(v) /\ Asking(w))
  /\ \A v \in DOMAIN reviews, h \in Handlers : ~(Pending(v) /\ Deciding(h))
  /\ \A w \in Workers, h \in Handlers : ~(Asking(w) /\ Deciding(h))

\* One review at a time is under way, while the job needs it.
OneAsks ==
  /\ \A w \in Workers : WAt(w, "review") => ws[w].outcome = "NEEDS_REVIEW"
  /\ job # "CANCELLED" => OneOfThem
  /\ job \notin {"NEEDS_REVIEW", "CANCELLED"} => NoneAsks

\* Nothing begins to be under way.
FewerAsk ==
  /\ \A w \in Workers : Asking(w)' => Asking(w)
  /\ \A v \in DOMAIN reviews' : v \in DOMAIN reviews /\ (Pending(v)' => Pending(v))
  /\ \A h \in Handlers : Deciding(h)' => Deciding(h)

LEMMA FewerIsFine ==
  ASSUME FewerAsk
  PROVE  (OneOfThem => OneOfThem') /\ (NoneAsks => NoneAsks')
BY DEF FewerAsk, OneOfThem, NoneAsks

LEMMA OnlyRunStep ==
  ASSUME Orderly, "rerun" \notin Requests, IInv, IInv', Fresh, Ownership, OnlyRun,
         [Next]_vars
  PROVE  OnlyRun'
<1>0. job' = "CREATED" => job = "CREATED"
  BY EveryStep DEF JobNeverBack
<1>1. CASE Quiet
  BY <1>1 DEF Quiet, RunsSame, OnlyRun
<1>2. CASE UNCHANGED vars \/ \E t \in DOMAIN tasks : Redeliver(t)
  BY <1>2 DEF vars, Redeliver, rows, OnlyRun
<1>3. ASSUME NEW r \in DOMAIN runs, NEW status, NEW slot, SetRun(r, status, slot),
             status = "WAITING_HUMAN" <=> job' = "NEEDS_REVIEW"
      PROVE  OnlyRun'
  BY <1>0, <1>3 DEF SetRun, OnlyRun
<1>4. ASSUME NEW h \in Handlers, Request(h) \/ HandlerStep(h) \/ HandlerFault(h)
      PROVE  OnlyRun'
  <2>1. ClientWrites(h) /\ ~RerunCommit(h)
    BY <1>4, ClientsWrite DEF RerunCommit, At, Ownership, AskedFor
  <2>2. CASE job = "CREATED" /\ job' = "QUEUED" /\ CreateRun("start")
    <3> DEFINE row == [status |-> "INITIALIZING", slot |-> TRUE, task |-> 0,
                       ckpt |-> "none"]
    <3>1. runs \in Seq(RunRow) /\ row \in RunRow /\ runs' = Append(runs, row)
      BY <2>2 DEF IInv, RowsOK, RunRow, RunStates, CreateRun
    <3>2. row.status = "INITIALIZING"
      OBVIOUS
    <3> HIDE DEF row
    <3>3. /\ Len(runs) \in Nat /\ DOMAIN runs' = 1 .. (Len(runs) + 1)
          /\ runs'[Len(runs) + 1] = row /\ DOMAIN runs = 1 .. Len(runs)
      BY <3>1, AppendProperties
    <3>4. Len(runs) = 0
      BY <2>2, <3>3 DEF OnlyRun
    <3>5. DOMAIN runs' = {1} /\ runs'[1].status = "INITIALIZING"
      BY <3>2, <3>3, <3>4
    <3>6. QED
      BY <2>2, <3>5 DEF OnlyRun
  <2>3. CASE job' = "QUEUED" /\ \E r \in DOMAIN runs : SetRun(r, "INITIALIZING", TRUE)
    BY <1>3, <2>3
  <2>4. CASE /\ job' = IF job \in JobSettled THEN job ELSE "CANCELLED"
             /\ \/ ActiveRuns = {} /\ RunsSame
                \/ \E r \in ActiveRuns : SetRun(r, "ERRORED", FALSE)
    <3>1. job' \in {"SUCCEEDED", "FAILED", "CANCELLED"}
      BY <2>4 DEF JobSettled
    <3>2. CASE RunsSame
      BY <2>4, <3>1, <3>2 DEF OnlyRun, RunsSame, JobSettled
    <3>3. CASE \E r \in ActiveRuns : SetRun(r, "ERRORED", FALSE)
      BY <1>3, <3>1, <3>3 DEF ActiveRuns
    <3>4. QED
      BY <2>4, <3>2, <3>3
  <2>5. CASE job' = "RUNNING" /\ \E r \in DOMAIN runs : SetRun(r, "EXECUTING", TRUE)
    BY <1>3, <2>5
  <2>6. CASE job' = "FAILED" /\ \E r \in DOMAIN runs : SetRun(r, "ERRORED", FALSE)
    BY <1>3, <2>6
  <2>7. QED
    BY <1>1, <2>1, <2>2, <2>3, <2>4, <2>5, <2>6 DEF ClientWrites
<1>5. ASSUME NEW w \in Workers, WorkerStep(w) \/ SaveCheckpoint(w) \/ WorkerFault(w)
      PROVE  OnlyRun'
  <2>1. WorkerWritesNow(w)
    BY <1>5, WorkersWrite
  <2>2. ASSUME NEW status, NEW slot, SetRun(RunOf(w), status, slot),
               status = "WAITING_HUMAN" <=> job' = "NEEDS_REVIEW"
        PROVE  OnlyRun'
    BY <1>3, <2>2 DEF SetRun
  <2>3. CASE job' = "RUNNING" /\ SetRun(RunOf(w), "INSPECTING", TRUE)
    BY <2>2, <2>3
  <2>4. CASE job = "CANCELLED" /\ job' = job /\ SetRun(RunOf(w), "ERRORED", FALSE)
    BY <2>2, <2>4
  <2>5. CASE /\ job' = JobResult(ws[w].outcome)
             /\ SetRun(RunOf(w), RunResult(ws[w].outcome), FALSE)
    <3>1. RunResult(ws[w].outcome) = "WAITING_HUMAN" <=> job' = "NEEDS_REVIEW"
      BY <2>5 DEF RunResult, JobResult
    <3>2. QED
      BY <2>2, <2>5, <3>1
  <2>6. CASE job' = "FAILED" /\ SetRun(RunOf(w), "ERRORED", FALSE)
    BY <2>2, <2>6
  <2>7. QED
    BY <1>1, <2>1, <2>3, <2>4, <2>5, <2>6 DEF WorkerWritesNow
<1>6. QED
  BY <1>2, <1>4, <1>5 DEF Next

\* A decision takes the open review's place; carried out, it ends the wait.
LEMMA ClientsAsk ==
  ASSUME Orderly, "rerun" \notin Requests, IInv, IInv', Fresh, Ownership, OneAsks,
         NEW h \in Handlers, Request(h) \/ HandlerStep(h) \/ HandlerFault(h),
         job = "CANCELLED" => job' = "CANCELLED"
  PROVE  OneAsks'
<1>1. /\ UNCHANGED ws /\ HandlerIsNow(h) /\ ClientWrites(h) /\ ~RerunCommit(h)
      /\ \A g \in Handlers \ {h} : hs'[g] = hs[g]
  BY HandlersLeaveWorkers, HandlerGoes, ClientsWrite
  DEF RerunCommit, At, Ownership, AskedFor
<1>2. \A w \in Workers : WAt(w, "review")' => ws'[w].outcome = "NEEDS_REVIEW"
  BY <1>1 DEF OneAsks, WAt
<1>3. CASE job' = "CANCELLED"
  BY <1>2, <1>3 DEF OneAsks
<1>4. CASE job' # "CANCELLED" /\ \E v \in DOMAIN reviews, d \in Decisions : Decide(h, v, d)
  <2>1. PICK v \in DOMAIN reviews, d \in Decisions : Decide(h, v, d)
    BY <1>4
  <2>2. /\ Pending(v) /\ UNCHANGED job /\ job # "CANCELLED"
        /\ reviews' = [reviews EXCEPT ![v].status = "DECIDED"]
    BY <1>4, <2>1 DEF Decide, Pending
  <2>3. job = "NEEDS_REVIEW" /\ OneOfThem
    BY <2>2 DEF OneAsks, NoneAsks
  <2>4. /\ \A w \in Workers : ~Asking(w)'
        /\ \A g \in Handlers \ {h} : ~Deciding(g)'
    BY <1>1, <2>2, <2>3 DEF OneOfThem, Asking, Deciding
  <2>5. \A u \in DOMAIN reviews' : ~Pending(u)'
    <3> DEFINE row == [reviews[v] EXCEPT !.status = "DECIDED"]
    <3>1. reviews \in Seq(ReviewRow) /\ v \in 1 .. Len(reviews)
      BY DEF IInv, RowsOK
    <3>2. reviews[v] \in ReviewRow
      BY <3>1, ElementOfSeq
    <3>3. row.status = "DECIDED"
      BY <3>2 DEF ReviewRow
    <3>4. reviews' = [reviews EXCEPT ![v] = row]
      BY <2>2, <3>2 DEF ReviewRow
    <3> HIDE DEF row
    <3>5. reviews'[v].status = "DECIDED" /\ DOMAIN reviews' = DOMAIN reviews
      BY <3>3, <3>4
    <3>6. \A u \in DOMAIN reviews \ {v} : reviews'[u] = reviews[u] /\ ~Pending(u)
      BY <2>2, <2>3, <3>4 DEF OneOfThem
    <3>7. QED
      BY <3>5, <3>6 DEF Pending
  <2>6. OneOfThem'
    <3>1. \A f, g \in Handlers : Deciding(f)' /\ Deciding(g)' => f = g
      BY <2>4
    <3>2. QED
      BY <2>4, <2>5, <3>1 DEF OneOfThem
  <2>7. QED
    BY <1>2, <2>2, <2>3, <2>6 DEF OneAsks
<1>5. CASE /\ job' # "CANCELLED"
           /\ ~(\E v \in DOMAIN reviews, d \in Decisions : Decide(h, v, d))
  <2>1. UNCHANGED reviews
    BY <1>5, ReviewsWritten
  <2>2. hs'[h].pc # "decided" /\ (hs'[h].pc = "resume" => hs[h].pc = "decided")
    BY <1>1, <1>5 DEF HandlerIsNow, ResumeRead, At
  <2>3. FewerAsk
    BY <1>1, <2>1, <2>2 DEF FewerAsk, Asking, Pending, Deciding
  <2>4. OneOfThem'
    BY <1>5, <2>3, FewerIsFine DEF OneAsks
  <2>5. CASE job # "NEEDS_REVIEW"
    BY <1>2, <1>5, <2>3, <2>4, <2>5, FewerIsFine DEF OneAsks
  <2>6. CASE job' = "NEEDS_REVIEW"
    BY <1>2, <2>4, <2>6 DEF OneAsks
  <2>7. CASE job = "NEEDS_REVIEW" /\ job' # "NEEDS_REVIEW"
    <3>1. ResumeApproved(h) \/ ResumeRejected(h)
      BY <1>1, <1>5, <2>7 DEF ClientWrites, Quiet, JobSettled
    <3>2. hs[h].pc = "resume"
      BY <3>1 DEF ResumeApproved, ResumeRejected, At
    <3>3. Deciding(h) /\ ~Deciding(h)' /\ OneOfThem
      BY <2>2, <2>7, <3>2 DEF Deciding, OneAsks
    <3>4. NoneAsks'
      BY <1>1, <2>1, <3>3 DEF NoneAsks, OneOfThem, Asking, Pending, Deciding
    <3>5. QED
      BY <1>2, <2>4, <3>4 DEF OneAsks
  <2>8. QED
    BY <2>5, <2>6, <2>7
<1>6. QED
  BY <1>3, <1>4, <1>5

\* A result that asks for a review finds none under way; its review then is it.
LEMMA WorkersAsk ==
  ASSUME Orderly, IInv, IInv', Fresh, Ownership, OneAsks,
         NEW w \in Workers, WorkerStep(w) \/ SaveCheckpoint(w) \/ WorkerFault(w),
         job = "CANCELLED" => job' = "CANCELLED"
  PROVE  OneAsks'
<1>1. /\ UNCHANGED hs /\ WorkerIsNow(w) /\ WorkerWritesNow(w)
      /\ \A v \in Workers \ {w} : ws'[v] = ws[v]
  BY WorkerEventsSame, WorkerGoes, WorkersWrite
<1>2. \A v \in Workers : WAt(v, "review")' => ws'[v].outcome = "NEEDS_REVIEW"
  BY <1>1 DEF OneAsks, WAt, WorkerIsNow
<1>3. CASE job' = "CANCELLED"
  BY <1>2, <1>3 DEF OneAsks
<1>4. job # "CANCELLED" /\ (FinishCommit(w) \/ FailCommit(w)) => job = "RUNNING"
  BY DEF Ownership, OneWorks, Owned, Executing, FinishCommit, FailCommit, WAt
<1>5. ASSUME job = "NEEDS_REVIEW" PROVE job' = "NEEDS_REVIEW"
  <2>1. ~FinishCommit(w) /\ ~FailCommit(w)
    BY <1>4, <1>5
  <2>2. ~Claimable(RunOf(w))
    BY <1>5 DEF Claimable
  <2>3. QED
    BY <1>1, <1>5, <2>1, <2>2 DEF WorkerWritesNow, Quiet
<1>6. CASE job' # "CANCELLED" /\ CreateReview(w)
  <2>1. /\ WAt(w, "review") /\ UNCHANGED job /\ job # "CANCELLED"
    BY <1>6 DEF CreateReview
  <2>2. Asking(w)
    BY <2>1 DEF OneAsks, Asking, WAt
  <2>3. job = "NEEDS_REVIEW" /\ OneOfThem
    BY <2>1, <2>2 DEF OneAsks, NoneAsks
  <2>4. ~Asking(w)'
    BY <1>1, <2>1 DEF WorkerIsNow, Asking, WAt, FinishCommit, Announce
  <2>5. /\ \A v \in Workers : ~Asking(v)'
        /\ \A h \in Handlers : ~Deciding(h)'
    BY <1>1, <2>2, <2>3, <2>4 DEF OneOfThem, Asking, Deciding
  <2>6. \A u, v \in DOMAIN reviews' : Pending(u)' /\ Pending(v)' => u = v
    <3> DEFINE row == [run |-> RunOf(w), status |-> "PENDING"]
    <3>1. RunOf(w) \in Nat
      <4>1. ~WAt(w, "idle")
        BY <2>1 DEF WAt
      <4>2. QED
        BY <4>1, RunOfOK
    <3>2. /\ reviews \in Seq(ReviewRow) /\ row \in ReviewRow
          /\ reviews' = Append(reviews, row)
      BY <1>6, <3>1 DEF CreateReview, IInv, RowsOK, ReviewRow
    <3> HIDE DEF row
    <3>3. /\ Len(reviews) \in Nat /\ DOMAIN reviews = 1 .. Len(reviews)
          /\ DOMAIN reviews' = 1 .. (Len(reviews) + 1)
          /\ \A v \in DOMAIN reviews : reviews'[v] = reviews[v]
      BY <3>2, AppendProperties
    <3>4. \A v \in DOMAIN reviews : ~Pending(v)
      BY <2>2, <2>3 DEF OneOfThem
    <3>5. \A v \in DOMAIN reviews' : Pending(v)' => v = Len(reviews) + 1
      BY <3>3, <3>4 DEF Pending
    <3>6. QED
      BY <3>5
  <2>7. OneOfThem'
    BY <2>5, <2>6 DEF OneOfThem
  <2>8. QED
    BY <1>2, <1>5, <2>3, <2>7 DEF OneAsks
<1>7. CASE job' # "CANCELLED" /\ ~CreateReview(w) /\ ~FinishCommit(w)
  <2>1. UNCHANGED reviews
    BY <1>7, ReviewsWritten
  <2>2. Asking(w)' => Asking(w)
    BY <1>1, <1>7 DEF WorkerIsNow, Asking, Announce, WAt
  <2>3. FewerAsk
    BY <1>1, <2>1, <2>2 DEF FewerAsk, Asking, Pending, Deciding
  <2>4. QED
    BY <1>2, <1>5, <1>7, <2>3, FewerIsFine DEF OneAsks
<1>8. CASE job' # "CANCELLED" /\ FinishCommit(w)
  <2>1. job = "RUNNING" /\ NoneAsks
    BY <1>4, <1>8 DEF OneAsks
  <2>2. UNCHANGED reviews
    BY <1>8 DEF FinishCommit
  <2>3. /\ \A v \in DOMAIN reviews' : ~Pending(v)'
        /\ \A h \in Handlers : ~Deciding(h)'
        /\ \A v \in Workers \ {w} : ~Asking(v)'
    BY <1>1, <2>1, <2>2 DEF NoneAsks, Pending, Deciding, Asking
  <2>4. OneOfThem'
    BY <2>3 DEF OneOfThem
  <2>5. Asking(w)' => job' = "NEEDS_REVIEW"
    <3>1. SUFFICES ASSUME Asking(w)' PROVE job' = "NEEDS_REVIEW"
      OBVIOUS
    <3>2. ws[w].outcome = "NEEDS_REVIEW" /\ ~Late(w)
      BY <1>1, <1>8, <3>1 DEF WorkerIsNow, Asking, FinishCommit, Announce, WAt
    <3>3. ws[w].job = "RUNNING"
      BY <1>8, <2>1, ProcessesAssumption
      DEF Fresh, WorkerFresh, Loaded, InTx, FinishCommit, WAt
    <3>4. QED
      BY <1>8, <2>1, <3>2, <3>3 DEF FinishCommit, Store, JobResult
  <2>6. job' # "NEEDS_REVIEW" => NoneAsks'
    BY <2>3, <2>5 DEF NoneAsks
  <2>7. QED
    BY <1>2, <2>4, <2>6 DEF OneAsks
<1>9. QED
  BY <1>3, <1>6, <1>7, <1>8

\* A run stops waiting when a decision is carried out, and at no other time.
LEMMA WaitingLeft ==
  ASSUME Orderly, "rerun" \notin Requests, IInv, Fresh, Ownership, OnlyRun,
         [Next]_vars, NEW r \in DOMAIN runs, runs[r].status = "WAITING_HUMAN",
         runs'[r].status # "WAITING_HUMAN"
  PROVE  job = "NEEDS_REVIEW" /\ \E h \in Handlers : Deciding(h)
<1>1. ~Quiet /\ ~RunsSame
  BY DEF Quiet, RunsSame
<1>2. CASE UNCHANGED vars \/ \E t \in DOMAIN tasks : Redeliver(t)
  BY <1>2 DEF vars, Redeliver, rows
<1>3. r \notin ActiveRuns /\ job \in {"NEEDS_REVIEW", "CANCELLED"}
  BY DEF Ownership, SlotsMean, ActiveRuns, Working, OnlyRun
<1>4. \A q, status, slot : SetRun(q, status, slot) => q = r
  BY DEF SetRun
<1>5. ASSUME NEW h \in Handlers, Request(h) \/ HandlerStep(h) \/ HandlerFault(h)
      PROVE  job = "NEEDS_REVIEW" /\ Deciding(h)
  <2>1. ClientWrites(h) /\ ~RerunCommit(h)
    BY <1>5, ClientsWrite DEF RerunCommit, At, Ownership, AskedFor
  <2>2. ~(\E q \in ActiveRuns : SetRun(q, "ERRORED", FALSE))
    BY <1>3, <1>4
  <2>3. job = "NEEDS_REVIEW" /\ (ResumeApproved(h) \/ ResumeRejected(h))
    BY <1>1, <1>3, <2>1, <2>2 DEF ClientWrites
  <2>4. QED
    BY <2>3 DEF ResumeApproved, ResumeRejected, At, Deciding
<1>6. ASSUME NEW w \in Workers, WorkerStep(w) \/ SaveCheckpoint(w) \/ WorkerFault(w)
      PROVE  FALSE
  <2>1. WorkerWritesNow(w)
    BY <1>6, WorkersWrite
  <2>2. CASE ClaimDrop(w)
    <3>1. InTx(w) /\ RunOf(w) \in DOMAIN runs
      <4>1. WAt(w, "drop") /\ ~WAt(w, "idle")
        BY <2>2 DEF ClaimDrop, WAt
      <4>2. QED
        BY <4>1, RunExists, ProcessesAssumption DEF InTx, WAt
    <3>2. runs[RunOf(w)].slot
      BY <2>2 DEF ClaimDrop, Fresh, WorkerFresh
    <3>3. RunOf(w) = r
      BY <3>1 DEF OnlyRun
    <3>4. QED
      BY <1>3, <3>1, <3>2, <3>3 DEF ActiveRuns
  <2>3. CASE FinishCommit(w) \/ FailCommit(w)
    <3>1. Owned(w) /\ RunOf(w) \in DOMAIN runs
      <4>1. Executing(w) /\ ~WAt(w, "idle")
        BY <2>3 DEF Executing, FinishCommit, FailCommit, WAt
      <4>2. QED
        BY <4>1, RunExists DEF Ownership, OneWorks
    <3>2. RunOf(w) = r
      BY <3>1 DEF OnlyRun
    <3>3. QED
      BY <3>1, <3>2 DEF Owned
  <2>4. CASE Claimable(RunOf(w))
    BY <1>3, <2>4 DEF Claimable
  <2>5. QED
    BY <1>1, <2>1, <2>2, <2>3, <2>4 DEF WorkerWritesNow
<1>7. QED
  BY <1>2, <1>5, <1>6 DEF Next

LEMMA ReviewsHold ==
  ASSUME Orderly, "rerun" \notin Requests
  PROVE  Spec => [](OnlyRun /\ OneAsks)
<1>1. Serialized
  BY DEF Orderly
<1>2. Spec => []Fresh
  BY <1>1, FreshHolds
<1>3. Init => OnlyRun /\ OneAsks
  BY DEF Init, OnlyRun, OneAsks, OneOfThem, NoneAsks, Asking, Pending, Deciding,
         WAt, IdleHandler, IdleWorker
<1>4. ASSUME IInv, IInv', Fresh, Ownership, OnlyRun, OneAsks, [Next]_vars
      PROVE  OnlyRun' /\ OneAsks'
  <2>1. OnlyRun'
    BY <1>4, OnlyRunStep
  <2>2. job = "CANCELLED" => job' = "CANCELLED"
    <3>1. \A h \in Handlers : ~RerunCommit(h)
      BY <1>4 DEF RerunCommit, At, Ownership, AskedFor
    <3>2. QED
      BY <1>1, <1>4, <3>1, CancelledStep
  <2>3. CASE UNCHANGED <<job, reviews, hs, ws>>
    BY <1>4, <2>1, <2>3
    DEF OneAsks, OneOfThem, NoneAsks, Asking, Pending, Deciding, WAt
  <2>4. CASE UNCHANGED vars \/ \E t \in DOMAIN tasks : Redeliver(t)
    BY <2>3, <2>4 DEF vars, Redeliver, rows
  <2>5. ASSUME NEW h \in Handlers, Request(h) \/ HandlerStep(h) \/ HandlerFault(h)
        PROVE  OneAsks'
    BY <1>4, <2>2, <2>5, ClientsAsk
  <2>6. ASSUME NEW w \in Workers, WorkerStep(w) \/ SaveCheckpoint(w) \/ WorkerFault(w)
        PROVE  OneAsks'
    BY <1>4, <2>2, <2>6, WorkersAsk
  <2>7. QED
    BY <1>4, <2>1, <2>4, <2>5, <2>6 DEF Next
<1>5. /\ IInv /\ IInv' /\ Fresh /\ Ownership /\ OnlyRun /\ OneAsks /\ [Next]_vars
      => OnlyRun' /\ OneAsks'
  BY <1>4
<1>6. QED
  BY <1>2, <1>3, <1>5, OwnershipHolds, RefsCorrect, PTL DEF Spec

\* Without a rerun a run leaves WAITING_HUMAN only when the reviews it asked for
\* are decided, however cancels, retries and decisions meet.
THEOREM OwnReviewsDecide ==
  ASSUME Orderly, "rerun" \notin Requests
  PROVE  Spec => OwnReviewDecided
<1>1. Serialized
  BY DEF Orderly
<1>2. Spec => []Fresh
  BY <1>1, FreshHolds
<1>3. ASSUME IInv, Fresh, Ownership, OnlyRun, OneAsks, [Next]_vars,
             NEW r \in DOMAIN runs, NEW v \in DOMAIN reviews,
             runs[r].status = "WAITING_HUMAN", runs'[r].status # "WAITING_HUMAN"
      PROVE  reviews[v].status = "DECIDED"
  <2>1. PICK h \in Handlers : job = "NEEDS_REVIEW" /\ Deciding(h)
    BY <1>3, WaitingLeft
  <2>2. ~Pending(v)
    BY <1>3, <2>1 DEF OneAsks, OneOfThem
  <2>3. reviews[v] \in ReviewRow
    <3>1. reviews \in Seq(ReviewRow) /\ v \in 1 .. Len(reviews)
      BY <1>3 DEF IInv, RowsOK
    <3>2. QED
      BY <3>1, ElementOfSeq
  <2>4. QED
    BY <2>2, <2>3 DEF Pending, ReviewRow
<1>4. IInv /\ Fresh /\ Ownership /\ OnlyRun /\ OneAsks /\ [Next]_vars =>
        [\A r \in DOMAIN runs, v \in DOMAIN reviews :
           /\ runs[r].status = "WAITING_HUMAN" /\ runs'[r].status # "WAITING_HUMAN"
           /\ reviews[v].run = r
           => reviews[v].status = "DECIDED"]_vars
  BY <1>3
<1>5. QED
  BY <1>2, <1>4, ReviewsHold, OwnershipHolds, RefsCorrect, PTL
  DEF Spec, OwnReviewDecided

-----------------------------------------------------------------------------
(* A review leads on                                                       *)

\* The checkpoint of a run that asks for a review is the one to resume from.
Reported ==
  /\ DOMAIN runs # {} => touched \in DOMAIN runs
  /\ \A w \in Workers :
       /\ WAt(w, "publish") => ws[w].outcome # "NEEDS_REVIEW"
       /\ ws[w].pc \in {"finread", "finish"} /\ ws[w].outcome = "NEEDS_REVIEW" =>
            runs[RunOf(w)].ckpt = "review"
  /\ job = "NEEDS_REVIEW" => \A r \in DOMAIN runs : runs[r].ckpt = "review"

\* A worker comes to report a review when the graph ends with one.
LEMMA WorkersReport ==
  ASSUME IInv, NEW w \in Workers,
         WorkerStep(w) \/ SaveCheckpoint(w) \/ WorkerFault(w)
  PROVE  /\ ws'[w].pc = "publish" =>
              \/ ws'[w].outcome # "NEEDS_REVIEW"
              \/ WAt(w, "publish") /\ ws'[w].outcome = ws[w].outcome
         /\ ws'[w].pc \in {"finread", "finish"} /\ ws'[w].outcome = "NEEDS_REVIEW" =>
              \/ GraphEnds(w, "NEEDS_REVIEW") /\ ws'[w].task = ws[w].task
              \/ /\ ws[w].pc \in {"publish", "finread", "finish"} /\ ~Saves(w)
                 /\ ws[w].outcome = "NEEDS_REVIEW" /\ ws'[w].task = ws[w].task
<1>0. ws[w] \in WorkerState /\ ws \in [Workers -> WorkerState]
  BY DEF IInv, WorkersOK
<1>1. CASE ws'[w].pc \notin {"publish", "finread", "finish"}
  BY <1>1
<1>2. CASE \E o \in Outcomes \cup {"RAISED"} : GraphEnds(w, o)
  <2>1. PICK o \in Outcomes \cup {"RAISED"} : GraphEnds(w, o)
    BY <1>2
  <2> DEFINE pc == CASE o = "RAISED" -> "failread"
                     [] o = "SUCCEEDED" /\ Structured /\ ~Resuming(w) -> "publish"
                     [] OTHER -> "finread"
             s == [ws[w] EXCEPT !.outcome = o, !.pc = pc]
  <2>2. s.pc = pc /\ s.outcome = o /\ s.task = ws[w].task
    BY <1>0 DEF WorkerState
  <2>3. ws' = [ws EXCEPT ![w] = s]
    BY <1>0, <2>1 DEF GraphEnds, WorkerState
  <2>4. pc = "publish" => o # "NEEDS_REVIEW"
    OBVIOUS
  <2> HIDE DEF s, pc
  <2>5. ws'[w] = s
    BY <1>0, <2>3
  <2>6. QED
    BY <2>1, <2>2, <2>4, <2>5
<1>3. CASE FinishRead(w)
  <2> DEFINE run == runs[RunOf(w)]
             s == [ws[w] EXCEPT !.pc = "finish", !.job = job, !.status = run.status,
                                !.slot = run.slot]
  <2>1. ws' = [ws EXCEPT ![w] = s] /\ ws[w].pc = "finread"
    BY <1>0, <1>3 DEF FinishRead, WLoad, WorkerState, WAt
  <2>2. s.pc = "finish" /\ s.outcome = ws[w].outcome /\ s.task = ws[w].task
    BY <1>0 DEF WorkerState
  <2> HIDE DEF s
  <2>3. ws'[w] = s
    BY <1>0, <2>1
  <2>4. ~Saves(w)
    BY <2>1 DEF Saves, SaveCheckpoint, GraphEnds, WAt
  <2>5. QED
    BY <2>1, <2>2, <2>3, <2>4
<1>4. CASE Publish(w) \/ PublishFails(w)
  <2>1. /\ ws[w].pc = "publish"
        /\ \E pc \in {"failread", "finread"} : ws' = [ws EXCEPT ![w] = [ws[w] EXCEPT !.pc = pc]]
    BY <1>0, <1>4 DEF Publish, PublishFails, WGoto, WAt, WorkerState
  <2>2. PICK pc \in {"failread", "finread"} :
          ws' = [ws EXCEPT ![w] = [ws[w] EXCEPT !.pc = pc]]
    BY <2>1
  <2>3. /\ ws'[w].pc = pc /\ ws'[w].outcome = ws[w].outcome
        /\ ws'[w].task = ws[w].task
    BY <1>0, <2>2 DEF WorkerState
  <2>4. ~Saves(w)
    BY <2>1 DEF Saves, SaveCheckpoint, GraphEnds, WAt
  <2>5. QED
    BY <2>1, <2>2, <2>3, <2>4
<1>5. CASE SaveCheckpoint(w)
  BY <1>1, <1>5 DEF SaveCheckpoint, WAt
<1>6. CASE /\ ~FinishRead(w) /\ ~Publish(w) /\ ~PublishFails(w) /\ ~SaveCheckpoint(w)
           /\ ~(\E o \in Outcomes \cup {"RAISED"} : GraphEnds(w, o))
  <2>1. ASSUME Ack(w) PROVE ws'[w].pc = "idle"
    BY <1>0, <2>1 DEF Ack, IdleWorker
  <2>2. ASSUME NEW pc \in {"begin", "announce", "review", "failread"}, WGoto(w, pc)
        PROVE  ws'[w].pc = pc
    BY <1>0, <2>2 DEF WGoto, WorkerState
  <2>3. CASE \/ ClaimDrop(w) \/ CreateReview(w) \/ FailCommit(w) \/ BeginFails(w)
             \/ WorkerCrash(w) \/ Terminate(w)
    <3>1. Ack(w)
      BY <2>3
      DEF ClaimDrop, CreateReview, FailCommit, BeginFails, WorkerCrash, Terminate
    <3>2. QED
      BY <1>1, <2>1, <3>1
  <2>4. CASE ClaimRead(w) \/ FailRead(w)
    <3>1. WorkerIsNow(w)
      BY <2>4, WorkerGoes DEF WorkerStep
    <3>2. ws[w].pc \in {"read", "failread"}
      BY <2>4 DEF ClaimRead, FailRead, WAt
    <3>3. QED
      BY <1>1, <1>6, <3>1, <3>2 DEF WorkerIsNow
  <2>5. CASE \E t \in DOMAIN tasks : Take(w, t)
    <3>1. PICK t \in DOMAIN tasks : Take(w, t)
      BY <2>5
    <3>2. ws'[w].pc \in {"load", "read"}
      BY <3>1, TakenTask
    <3>3. QED
      BY <1>1, <3>2
  <2>6. CASE ResumeLoad(w) \/ Announce(w) \/ FinishCommit(w) \/ ClaimCommit(w) \/ AnnounceFails(w)
    <3>1. Ack(w) \/ \E pc \in {"begin", "announce", "review", "failread"} : WGoto(w, pc)
      BY <2>6 DEF ResumeLoad, Announce, FinishCommit, ClaimCommit, AnnounceFails
    <3>2. QED
      BY <1>1, <2>1, <2>2, <3>1
  <2>7. CASE Begin(w)
    <3> DEFINE from == IF Resuming(w) THEN runs[RunOf(w)].ckpt ELSE "none"
               s == [ws[w] EXCEPT !.pc = "graph", !.from = from]
    <3>1. ws' = [ws EXCEPT ![w] = s]
      BY <1>0, <2>7 DEF Begin, WorkerState
    <3>2. s.pc = "graph"
      BY <1>0 DEF WorkerState
    <3> HIDE DEF s
    <3>3. ws'[w] = s
      BY <1>0, <3>1
    <3>4. QED
      BY <1>1, <3>2, <3>3
  <2>8. QED
    BY <1>6, <2>3, <2>4, <2>5, <2>6, <2>7 DEF WorkerStep, WorkerFault
<1>7. QED
  BY <1>2, <1>3, <1>4, <1>5, <1>6

LEMMA ReportedStep ==
  ASSUME Orderly, "rerun" \notin Requests, IInv, IInv', Fresh, Ownership, OnlyRun,
         Reported, [Next]_vars
  PROVE  Reported'
<1>0. EventStep /\ TasksKept
  BY EveryStep
<1>1. CASE UNCHANGED vars
  BY <1>1 DEF vars, Reported, WAt, RunOf
<1>2. ASSUME UNCHANGED ws, Written, job' = "NEEDS_REVIEW" => job = "NEEDS_REVIEW" /\ RunsSame
      PROVE  Reported'
  <2>1. DOMAIN runs' # {} => touched' \in DOMAIN runs'
    BY <1>2 DEF Reported, Written
  <2>2. ASSUME NEW w \in Workers, ws[w].pc \in {"finread", "finish"},
               ws[w].outcome = "NEEDS_REVIEW"
        PROVE  runs'[RunOf(w)'].ckpt = "review"
    <3>1. ~WAt(w, "idle") /\ ws'[w].task = ws[w].task
      BY <1>2, <2>2 DEF WAt
    <3>2. RunOf(w)' = RunOf(w) /\ RunOf(w) \in DOMAIN runs
      BY <1>0, <3>1, EventKept
    <3>3. QED
      BY <1>2, <2>2, <3>2 DEF Reported, Written
  <2>3. job' = "NEEDS_REVIEW" => \A r \in DOMAIN runs' : runs'[r].ckpt = "review"
    BY <1>2 DEF Reported, Written, RunsSame
  <2>4. QED
    BY <1>2, <2>1, <2>2, <2>3 DEF Reported, WAt
<1>3. CASE \E t \in DOMAIN tasks : Redeliver(t)
  <2>1. UNCHANGED <<job, runs, touched, ws>>
    BY <1>3 DEF Redeliver, rows
  <2>2. QED
    BY <1>2, <2>1 DEF Written, RunsSame
<1>4. ASSUME NEW h \in Handlers, Request(h) \/ HandlerStep(h) \/ HandlerFault(h)
      PROVE  Reported'
  <2>1. UNCHANGED ws /\ Written /\ ClientWrites(h)
    BY <1>4, HandlersLeaveWorkers, ClientsWritten, ClientsWrite
  <2>2. job' = "NEEDS_REVIEW" => job = "NEEDS_REVIEW" /\ RunsSame
    BY <2>1 DEF ClientWrites, Quiet, JobSettled
  <2>3. QED
    BY <1>2, <2>1, <2>2
<1>5. ASSUME NEW w \in Workers, WorkerStep(w) \/ SaveCheckpoint(w) \/ WorkerFault(w)
      PROVE  Reported'
  <2>1. /\ WorkerWritesNow(w) /\ \A v \in Workers \ {w} : ws'[v] = ws[v]
        /\ ~Saves(w) => Written
        /\ \/ touched' = touched /\ DOMAIN runs' = DOMAIN runs
           \/ touched' \in DOMAIN runs'
    BY <1>5, WorkersWrite, WorkerGoes, WorkersWritten
  <2>2. DOMAIN runs' # {} => touched' \in DOMAIN runs'
    BY <2>1 DEF Reported
  <2>3. DOMAIN runs' = DOMAIN runs
    BY <2>1 DEF WorkerWritesNow, Quiet, RunsSame, SetRun
  <2>4. Saves(w) => /\ Executing(w) /\ Owned(w) /\ ~FinishCommit(w)
                    /\ RunOf(w) \in DOMAIN runs
    <3>1. Saves(w) => Executing(w) /\ ~WAt(w, "idle") /\ ~FinishCommit(w)
      BY DEF Saves, SaveCheckpoint, GraphEnds, FinishCommit, Executing, WAt
    <3>2. QED
      BY <3>1, RunExists DEF Ownership, OneWorks
  <2>5. ASSUME NEW v \in Workers \ {w}, ws[v].pc \in {"finread", "finish"},
               ws[v].outcome = "NEEDS_REVIEW"
        PROVE  runs'[RunOf(v)'].ckpt = "review"
    <3>1. ~WAt(v, "idle") /\ ws'[v].task = ws[v].task /\ Executing(v)
      BY <2>1, <2>5 DEF WAt, Executing
    <3>2. RunOf(v)' = RunOf(v) /\ RunOf(v) \in DOMAIN runs
      BY <1>0, <3>1, EventKept
    <3>3. ~Saves(w)
      BY <2>4, <3>1 DEF Ownership, OneWorks
    <3>4. QED
      BY <2>1, <2>5, <3>2, <3>3 DEF Reported, Written
  <2>6. ASSUME ws'[w].pc \in {"finread", "finish"}, ws'[w].outcome = "NEEDS_REVIEW"
        PROVE  runs'[RunOf(w)'].ckpt = "review"
    <3>1. CASE GraphEnds(w, "NEEDS_REVIEW") /\ ws'[w].task = ws[w].task
      <4>1. ~WAt(w, "idle") /\ runs' = [runs EXCEPT ![RunOf(w)].ckpt = "review"]
        BY <3>1 DEF GraphEnds, WAt
      <4>2. RunOf(w)' = RunOf(w) /\ RunOf(w) \in DOMAIN runs
        BY <1>0, <3>1, <4>1, EventKept
      <4>3. runs[RunOf(w)] \in RunRow
        <5>1. runs \in Seq(RunRow) /\ RunOf(w) \in 1 .. Len(runs)
          BY <4>2 DEF IInv, RowsOK
        <5>2. QED
          BY <5>1, ElementOfSeq
      <4>4. [runs[RunOf(w)] EXCEPT !.ckpt = "review"].ckpt = "review"
        BY <4>3 DEF RunRow
      <4>5. QED
        BY <4>1, <4>2, <4>4
    <3>2. CASE /\ ws[w].pc \in {"publish", "finread", "finish"} /\ ~Saves(w)
               /\ ws[w].outcome = "NEEDS_REVIEW" /\ ws'[w].task = ws[w].task
      <4>1. ~WAt(w, "idle")
        BY <3>2 DEF WAt
      <4>2. RunOf(w)' = RunOf(w) /\ RunOf(w) \in DOMAIN runs
        BY <1>0, <3>2, <4>1, EventKept
      <4>3. runs[RunOf(w)].ckpt = "review"
        BY <3>2 DEF Reported, WAt
      <4>4. QED
        BY <2>1, <3>2, <4>2, <4>3 DEF Written
    <3>3. QED
      BY <1>5, <2>6, <3>1, <3>2, WorkersReport
  <2>7. \A v \in Workers : WAt(v, "publish")' => ws'[v].outcome # "NEEDS_REVIEW"
    <3>1. WAt(w, "publish")' => ws'[w].outcome # "NEEDS_REVIEW"
      BY <1>5, WorkersReport DEF Reported, WAt
    <3>2. QED
      BY <2>1, <3>1 DEF Reported, WAt
  <2>8. job' = "NEEDS_REVIEW" => \A r \in DOMAIN runs' : runs'[r].ckpt = "review"
    <3>1. CASE job' = "NEEDS_REVIEW" /\ job = "NEEDS_REVIEW"
      <4>1. ~Saves(w)
        BY <2>4, <3>1 DEF Owned
      <4>2. QED
        BY <2>1, <2>3, <3>1, <4>1 DEF Reported, Written
    <3>2. CASE job' = "NEEDS_REVIEW" /\ job # "NEEDS_REVIEW"
      <4>1. FinishCommit(w) /\ job # "CANCELLED" /\ job' = JobResult(ws[w].outcome)
        BY <2>1, <3>2 DEF WorkerWritesNow, Quiet
      <4>2. ws[w].outcome = "NEEDS_REVIEW" /\ ws[w].pc = "finish" /\ ~WAt(w, "idle")
        BY <3>2, <4>1 DEF JobResult, FinishCommit, WAt
      <4>3. runs[RunOf(w)].ckpt = "review" /\ RunOf(w) \in DOMAIN runs
        BY <4>2, RunExists DEF Reported
      <4>4. ~Saves(w)
        BY <4>2 DEF Saves, SaveCheckpoint, GraphEnds, WAt
      <4>5. QED
        BY <2>1, <2>3, <4>3, <4>4 DEF Written, OnlyRun
    <3>3. QED
      BY <3>1, <3>2
  <2>9. QED
    BY <2>1, <2>2, <2>5, <2>6, <2>7, <2>8 DEF Reported
<1>6. QED
  BY <1>1, <1>3, <1>4, <1>5 DEF Next

LEMMA ReportedHolds ==
  ASSUME Orderly, "rerun" \notin Requests
  PROVE  Spec => []Reported
<1>1. Serialized
  BY DEF Orderly
<1>2. Spec => []Fresh
  BY <1>1, FreshHolds
<1>3. Init => Reported
  BY DEF Init, Reported, WAt, IdleWorker
<1>4. /\ IInv /\ IInv' /\ Fresh /\ Ownership /\ OnlyRun /\ Reported /\ [Next]_vars
      => Reported'
  BY ReportedStep
<1>5. QED
  BY <1>2, <1>3, <1>4, ReviewsHold, OwnershipHolds, RefsCorrect, PTL DEF Spec

\* Without a rerun the run that resume_after_review picks is the one that waits,
\* at the node that asked for the review.
THEOREM WaitingResumes ==
  ASSUME Orderly, "rerun" \notin Requests
  PROVE  Spec => []WaitingIsResumable
<1>1. OnlyRun /\ Reported => WaitingIsResumable
  BY DEF OnlyRun, Reported, WaitingIsResumable
<1>2. QED
  BY <1>1, ReviewsHold, ReportedHolds, PTL

\* A decision that asks for materials leaves the job waiting with no review, and
\* so may the death of who should create one or carry its decision out.
Attended ==
  /\ Orderly /\ Reliable
  /\ Requests \cap {"cancel", "rerun"} = {}
  /\ "MATERIALS_REQUESTED" \notin Decisions

Attending ==
  \/ \E v \in DOMAIN reviews : Pending(v)
  \/ \E w \in Workers : Asking(w)
  \/ \E h \in Handlers : Deciding(h)

\* Nobody kills the worker that asks, and every decision is carried out.
SomeoneAsks ==
  /\ \A t \in DOMAIN tasks : ~tasks[t].revoked
  /\ \A h \in Handlers : Deciding(h) => hs[h].decision # "MATERIALS_REQUESTED"
  /\ job = "NEEDS_REVIEW" => Attending

\* Who carries a decision out does so while the only run waits for it.
LEMMA ResumesGo ==
  ASSUME IInv, Fresh, OnlyRun, NEW h \in Handlers,
         ResumeApproved(h) \/ ResumeRejected(h)
  PROVE  job' # "NEEDS_REVIEW"
<1>0. hs[h].pc = "resume"
  BY DEF ResumeApproved, ResumeRejected, At
<1>1. hs[h].job = job /\ job = "NEEDS_REVIEW"
  BY <1>0 DEF Fresh, HandlerFresh, At
<1>2. CASE ResumeRejected(h)
  <2>1. job' \in JobNextStates(hs[h].job, "REVIEW_REJECTED", hs[h].decision)
    BY <1>2 DEF ResumeRejected
  <2>2. "NEEDS_REVIEW" \notin JobNextStates("NEEDS_REVIEW", "REVIEW_REJECTED", hs[h].decision)
    BY DEF JobNextStates, Lookup, JobTransitions, JobSettled, LateEvents
  <2>3. QED
    BY <1>1, <2>1, <2>2
<1>3. CASE ResumeApproved(h)
  <2>1. hs[h].run \in DOMAIN runs
    <3>1. runs \in Seq(RunRow) /\ HandlerRef(hs[h], Len(runs), Len(outbox), tasks)
      BY DEF IInv, RowsOK, HandlersOK
    <3>2. QED
      BY <1>0, <3>1 DEF HandlerRef
  <2>2. MayTakeSlot(h)
    BY <2>1 DEF MayTakeSlot, SlotFree, ActiveRuns, OnlyRun
  <2>3. job' \in JobNextStates(hs[h].job, "REVIEW_APPROVED", hs[h].decision)
    BY <1>3, <2>2 DEF ResumeApproved
  <2>4. "NEEDS_REVIEW" \notin JobNextStates("NEEDS_REVIEW", "REVIEW_APPROVED", hs[h].decision)
    BY DEF JobNextStates, Lookup, JobTransitions, JobSettled, LateEvents
  <2>5. QED
    BY <1>1, <2>3, <2>4
<1>4. QED
  BY <1>2, <1>3

\* A task is revoked by a cancel.
LEMMA NeverRevoked ==
  ASSUME IInv, IInv', Attended, Ownership, [Next]_vars,
         \A t \in DOMAIN tasks : ~tasks[t].revoked
  PROVE  \A t \in DOMAIN tasks' : ~tasks'[t].revoked
<1>1. CASE UNCHANGED tasks
  BY <1>1
<1>2. CASE UNCHANGED vars
  BY <1>1, <1>2 DEF vars
<1>3. CASE \E t \in DOMAIN tasks : Redeliver(t)
  BY <1>3, NoFaults DEF Attended
<1>4. ASSUME NEW h \in Handlers, Request(h) \/ HandlerStep(h) \/ HandlerFault(h)
      PROVE  \A t \in DOMAIN tasks' : ~tasks'[t].revoked
  <2>1. ~Revoke(h)
    BY DEF Revoke, At, Attended, Ownership, AskedFor
  <2>2. CASE Send(h)
    <3> DEFINE row == [event |-> hs[h].event, copies |-> 1, revoked |-> FALSE]
    <3>1. hs[h].event \in Nat /\ tasks \in Seq(TaskRow)
      BY DEF IInv, HandlersOK, RowsOK, HandlerState
    <3>2. row \in TaskRow /\ ~row.revoked
      BY <3>1 DEF TaskRow
    <3>3. tasks' = Append(tasks, row)
      BY <2>2 DEF Send
    <3> HIDE DEF row
    <3>4. /\ Len(tasks) \in Nat /\ DOMAIN tasks = 1 .. Len(tasks)
          /\ DOMAIN tasks' = 1 .. (Len(tasks) + 1)
          /\ \A t \in DOMAIN tasks : tasks'[t] = tasks[t]
          /\ tasks'[Len(tasks) + 1] = row
      BY <3>1, <3>2, <3>3, AppendProperties
    <3>5. \A t \in DOMAIN tasks' : t = Len(tasks) + 1 \/ t \in DOMAIN tasks
      BY <3>4
    <3>6. QED
      BY <3>2, <3>4, <3>5
  <2>3. QED
    BY <1>1, <1>4, <2>1, <2>2, HandlerTasks
<1>5. ASSUME NEW w \in Workers, WorkerStep(w) \/ SaveCheckpoint(w) \/ WorkerFault(w)
      PROVE  \A t \in DOMAIN tasks' : ~tasks'[t].revoked
  <2>1. ~WorkerCrash(w)
    BY NoFaults DEF Attended
  <2>2. ASSUME NEW t \in DOMAIN tasks, Take(w, t)
        PROVE  \A u \in DOMAIN tasks' : ~tasks'[u].revoked
    <3> DEFINE row == [tasks[t] EXCEPT !.copies = @ - 1]
    <3>1. tasks \in Seq(TaskRow) /\ t \in 1 .. Len(tasks)
      BY DEF IInv, RowsOK
    <3>2. tasks[t] \in TaskRow
      BY <3>1, ElementOfSeq
    <3>3. row.revoked = tasks[t].revoked
      BY <3>2 DEF TaskRow
    <3>4. tasks' = [tasks EXCEPT ![t] = row]
      BY <2>2, <3>2 DEF Take, TaskRow
    <3> HIDE DEF row
    <3>5. QED
      BY <3>1, <3>3, <3>4
  <2>3. QED
    BY <1>1, <1>5, <2>1, <2>2, WorkerTasksStay
<1>6. QED
  BY <1>2, <1>3, <1>4, <1>5 DEF Next

\* A review that is decided is carried out by who decided it.
LEMMA ClientsAttend ==
  ASSUME Attended, IInv, Fresh, Ownership, OnlyRun, Reported, SomeoneAsks,
         NEW h \in Handlers, Request(h) \/ HandlerStep(h) \/ HandlerFault(h)
  PROVE  /\ \A g \in Handlers : Deciding(g)' => hs'[g].decision # "MATERIALS_REQUESTED"
         /\ job' = "NEEDS_REVIEW" => Attending'
<1>0. hs[h] \in HandlerState /\ hs \in [Handlers -> HandlerState]
  BY DEF IInv, HandlersOK
<1>1. /\ UNCHANGED ws /\ HandlerIsNow(h) /\ ClientWrites(h) /\ ~RerunCommit(h)
      /\ \A g \in Handlers \ {h} : hs'[g] = hs[g]
  BY HandlersLeaveWorkers, HandlerGoes, ClientsWrite
  DEF RerunCommit, At, Ownership, AskedFor, Attended
<1>2. job' = "NEEDS_REVIEW" => job = "NEEDS_REVIEW"
  BY <1>1 DEF ClientWrites, Quiet, JobSettled
<1>3. CASE \E v \in DOMAIN reviews, d \in Decisions : Decide(h, v, d)
  <2>1. PICK v \in DOMAIN reviews, d \in Decisions : Decide(h, v, d)
    BY <1>3
  <2> DEFINE s == [hs[h] EXCEPT !.pc = "decided", !.decision = d]
  <2>2. s.pc = "decided" /\ s.decision = d
    BY <1>0 DEF HandlerState
  <2>3. hs' = [hs EXCEPT ![h] = s]
    BY <1>0, <2>1 DEF Decide, HandlerState
  <2> HIDE DEF s
  <2>4. hs'[h] = s
    BY <1>0, <2>3
  <2>5. Deciding(h)' /\ hs'[h].decision # "MATERIALS_REQUESTED"
    BY <2>2, <2>4 DEF Deciding, Attended
  <2>6. QED
    BY <1>1, <2>5 DEF Deciding, SomeoneAsks, Attending
<1>4. CASE ~(\E v \in DOMAIN reviews, d \in Decisions : Decide(h, v, d))
  <2>1. UNCHANGED reviews
    BY <1>4, ReviewsWritten
  <2>2. Deciding(h)' => Deciding(h) /\ hs'[h].decision = hs[h].decision
    BY <1>1, <1>4 DEF HandlerIsNow, Deciding, ResumeRead, At
  <2>3. \A g \in Handlers : Deciding(g)' => hs'[g].decision # "MATERIALS_REQUESTED"
    BY <1>1, <2>2 DEF Deciding, SomeoneAsks
  <2>4. ASSUME job' = "NEEDS_REVIEW", Deciding(h) PROVE Deciding(h)'
    <3>1. ResumeRead(h)
      <4>1. ResumeRead(h) \/ ResumeApproved(h) \/ ResumeRejected(h)
        <5>1. ~HandlerCrash(h)
          BY NoFaults DEF Attended
        <5>2. ~Request(h)
          BY <2>4
          DEF Deciding, Request, StartRead, RetryRead, RerunRead, Replay,
              CancelLook, Decide, At
        <5>3. CASE HandlerFault(h)
          BY <2>4, <5>1, <5>3 DEF Deciding, HandlerFault, SendFails, NoteFails, At
        <5>4. CASE HandlerStep(h)
          BY <2>4, <5>4
          DEF Deciding, HandlerStep, StartCommit, RetryCommit, RerunCommit,
              CancelRead, CancelCommit, Revoke, DrainScan, BatchEnd, BatchNext,
              ClaimEvent, Send, Note, Unsend, Done, At
        <5>5. QED
          BY <5>2, <5>3, <5>4
      <4>2. ~ResumeApproved(h) /\ ~ResumeRejected(h)
        BY <2>4, ResumesGo
      <4>3. QED
        BY <4>1, <4>2
    <3>2. job = "NEEDS_REVIEW" /\ hs[h].decision # "MATERIALS_REQUESTED"
      BY <1>2, <2>4 DEF SomeoneAsks
    <3>3. touched \in DOMAIN runs /\ runs[touched].status = "WAITING_HUMAN"
      BY <3>2 DEF OnlyRun, Reported
    <3>4. touched # 0
      BY <3>3 DEF IInv, RowsOK
    <3> DEFINE run == runs[touched]
               s == [hs[h] EXCEPT !.pc = "resume", !.job = job, !.run = touched,
                                  !.status = run.status, !.slot = run.slot]
    <3>5. hs' = [hs EXCEPT ![h] = s]
      BY <1>0, <3>1, <3>2, <3>3, <3>4 DEF ResumeRead, HandlerState
    <3>6. s.pc = "resume"
      BY <1>0 DEF HandlerState
    <3> HIDE DEF s, run
    <3>7. hs'[h] = s
      BY <1>0, <3>5
    <3>8. QED
      BY <3>6, <3>7 DEF Deciding
  <2>5. ASSUME job' = "NEEDS_REVIEW" PROVE Attending'
    <3>1. Attending
      BY <1>2, <2>5 DEF SomeoneAsks
    <3>2. CASE \E v \in DOMAIN reviews : Pending(v)
      BY <2>1, <3>2 DEF Attending, Pending
    <3>3. CASE \E w \in Workers : Asking(w)
      BY <1>1, <3>3 DEF Attending, Asking
    <3>4. ASSUME NEW g \in Handlers, Deciding(g) PROVE Attending'
      <4>1. Deciding(g)'
        BY <1>1, <2>4, <2>5, <3>4 DEF Deciding
      <4>2. QED
        BY <4>1 DEF Attending
    <3>5. QED
      BY <3>1, <3>2, <3>3, <3>4 DEF Attending
  <2>6. QED
    BY <2>3, <2>5
<1>5. QED
  BY <1>3, <1>4

\* A result that asks for a review is followed by the review it asks for.
LEMMA WorkersAttend ==
  ASSUME Attended, IInv, Fresh, Ownership, OneAsks, SomeoneAsks,
         NEW w \in Workers, WorkerStep(w) \/ SaveCheckpoint(w) \/ WorkerFault(w)
  PROVE  job' = "NEEDS_REVIEW" => Attending'
<1>0. ws[w] \in WorkerState /\ ws \in [Workers -> WorkerState]
  BY DEF IInv, WorkersOK
<1>1. /\ UNCHANGED hs /\ WorkerWritesNow(w)
      /\ \A v \in Workers \ {w} : ws'[v] = ws[v]
  BY WorkerEventsSame, WorkerGoes, WorkersWrite
<1>2. ASSUME NEW pc \in {"announce", "review"}, WGoto(w, pc)
      PROVE  ws'[w].pc = pc /\ ws'[w].outcome = ws[w].outcome
  BY <1>0, <1>2 DEF WGoto, WorkerState
<1>3. CASE job # "NEEDS_REVIEW"
  <2>1. SUFFICES ASSUME job' = "NEEDS_REVIEW" PROVE Attending'
    OBVIOUS
  <2>2. FinishCommit(w) /\ job # "CANCELLED" /\ job' = JobResult(ws[w].outcome)
    BY <1>1, <1>3, <2>1 DEF WorkerWritesNow, Quiet
  <2>3. ws[w].outcome = "NEEDS_REVIEW"
    BY <2>1, <2>2 DEF JobResult
  <2>4. ws[w].job = job
    BY <2>2, ProcessesAssumption
    DEF Fresh, WorkerFresh, Loaded, InTx, FinishCommit, WAt
  <2>5. WGoto(w, "announce")
    BY <2>2, <2>4 DEF FinishCommit, Late
  <2>6. Asking(w)'
    BY <1>2, <2>3, <2>5 DEF Asking
  <2>7. QED
    BY <2>6 DEF Attending
<1>4. CASE CreateReview(w)
  <2> DEFINE row == [run |-> RunOf(w), status |-> "PENDING"]
  <2>1. RunOf(w) \in Nat
    <3>1. ~WAt(w, "idle")
      BY <1>4 DEF CreateReview, WAt
    <3>2. QED
      BY <3>1, RunOfOK
  <2>2. /\ reviews \in Seq(ReviewRow) /\ row \in ReviewRow
        /\ reviews' = Append(reviews, row)
    BY <1>4, <2>1 DEF CreateReview, IInv, RowsOK, ReviewRow
  <2>3. row.status = "PENDING"
    OBVIOUS
  <2> HIDE DEF row
  <2>4. /\ Len(reviews) \in Nat /\ DOMAIN reviews' = 1 .. (Len(reviews) + 1)
        /\ reviews'[Len(reviews) + 1] = row
    BY <2>2, AppendProperties
  <2>5. Len(reviews) + 1 \in DOMAIN reviews'
    BY <2>4
  <2>6. \E v \in DOMAIN reviews' : reviews'[v].status = "PENDING"
    BY <2>3, <2>4, <2>5
  <2>7. QED
    BY <2>6 DEF Attending, Pending
<1>5. CASE job = "NEEDS_REVIEW" /\ ~CreateReview(w)
  <2>1. UNCHANGED reviews /\ Attending
    BY <1>5, ReviewsWritten DEF SomeoneAsks
  <2>2. CASE \E v \in DOMAIN reviews : Pending(v)
    BY <2>1, <2>2 DEF Attending, Pending
  <2>3. CASE \E h \in Handlers : Deciding(h)
    BY <1>1, <2>3 DEF Attending, Deciding
  <2>4. ASSUME NEW v \in Workers \ {w}, Asking(v) PROVE Attending'
    BY <1>1, <2>4 DEF Attending, Asking
  <2>5. ASSUME Asking(w) PROVE Attending'
    <3>1. ~WorkerCrash(w)
      BY NoFaults DEF Attended
    <3>2. ~Terminate(w)
      <4>1. ws[w].task \in DOMAIN tasks
        <5>1. tasks \in Seq(TaskRow) /\ ws[w].task \in 1 .. Len(tasks)
          BY <2>5 DEF IInv, RowsOK, WorkersOK, Asking
        <5>2. QED
          BY <5>1
      <4>2. QED
        BY <4>1 DEF Terminate, SomeoneAsks
    <3>3. ~AnnounceFails(w)
      BY DEF AnnounceFails, Raises, Attended, Orderly
    <3>4. CASE WorkerFault(w) \/ SaveCheckpoint(w)
      BY <2>5, <3>1, <3>2, <3>3, <3>4
      DEF Asking, WorkerFault, BeginFails, PublishFails, SaveCheckpoint, WAt
    <3>5. CASE WorkerStep(w)
      <4>1. Announce(w)
        BY <1>5, <2>5, <3>5
        DEF Asking, WorkerStep, Take, ClaimRead, ClaimCommit, ClaimDrop, ResumeLoad,
            Begin, GraphEnds, Publish, FinishRead, FinishCommit, FailRead,
            FailCommit, WAt
      <4>2. WGoto(w, "review")
        BY <2>5, <4>1 DEF Announce, Asking
      <4>3. Asking(w)'
        BY <1>2, <2>5, <4>2 DEF Asking
      <4>4. QED
        BY <4>3 DEF Attending
    <3>6. QED
      BY <3>4, <3>5
  <2>6. QED
    BY <2>1, <2>2, <2>3, <2>4, <2>5 DEF Attending
<1>6. QED
  BY <1>3, <1>4, <1>5

\* Where every decision approves or rejects, and who asks or decides goes on, a
\* job that needs a review has one to decide, and the run it resumes is the one
\* that waits.
THEOREM ReviewsLead ==
  ASSUME Attended
  PROVE  Spec => []ReviewsLeadOn
<1>1. Orderly /\ Serialized /\ "rerun" \notin Requests
  BY DEF Attended, Orderly
<1>2. Spec => []Fresh
  BY <1>1, FreshHolds
<1>3. Spec => [](OnlyRun /\ OneAsks)
  BY <1>1, ReviewsHold
<1>4. Spec => []Reported
  BY <1>1, ReportedHolds
<1>5. Spec => []Ownership
  BY <1>1, OwnershipHolds
<1>6. Init => SomeoneAsks
  BY DEF Init, SomeoneAsks, Deciding, IdleHandler
<1>7. ASSUME IInv, IInv', Fresh, Ownership, OnlyRun, OneAsks, Reported, SomeoneAsks,
             [Next]_vars
      PROVE  SomeoneAsks'
  <2>1. \A t \in DOMAIN tasks' : ~tasks'[t].revoked
    BY <1>7, NeverRevoked DEF SomeoneAsks
  <2>2. CASE UNCHANGED vars
    BY <1>7, <2>2 DEF vars, SomeoneAsks, Attending, Pending, Asking, Deciding
  <2>3. CASE \E t \in DOMAIN tasks : Redeliver(t)
    BY <1>7, <2>3, NoFaults DEF Attended
  <2>4. ASSUME NEW h \in Handlers, Request(h) \/ HandlerStep(h) \/ HandlerFault(h)
        PROVE  SomeoneAsks'
    <3>1. /\ \A g \in Handlers : Deciding(g)' => hs'[g].decision # "MATERIALS_REQUESTED"
          /\ job' = "NEEDS_REVIEW" => Attending'
      BY <1>7, <2>4, ClientsAttend
    <3>2. QED
      BY <2>1, <3>1 DEF SomeoneAsks
  <2>5. ASSUME NEW w \in Workers, WorkerStep(w) \/ SaveCheckpoint(w) \/ WorkerFault(w)
        PROVE  SomeoneAsks'
    <3>1. job' = "NEEDS_REVIEW" => Attending'
      BY <1>7, <2>5, WorkersAttend
    <3>2. UNCHANGED hs
      BY <2>5, WorkerEventsSame
    <3>3. QED
      BY <1>7, <2>1, <3>1, <3>2 DEF SomeoneAsks, Deciding
  <2>6. QED
    BY <1>7, <2>2, <2>3, <2>4, <2>5 DEF Next
<1>8. /\ IInv /\ IInv' /\ Fresh /\ Ownership /\ OnlyRun /\ OneAsks /\ Reported
      /\ SomeoneAsks /\ [Next]_vars
      => SomeoneAsks'
  BY <1>7
<1>9. OnlyRun /\ Reported /\ SomeoneAsks => ReviewsLeadOn
  BY DEF OnlyRun, Reported, SomeoneAsks, Attending, Pending, Asking, Deciding,
         ReviewsLeadOn, WaitingIsResumable, NeedsReviewHasReview, WAt
<1>10. QED
  BY <1>2, <1>3, <1>4, <1>5, <1>6, <1>8, <1>9, RefsCorrect, PTL DEF Spec
=============================================================================
