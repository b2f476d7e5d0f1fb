-------------------------------- MODULE Tracing --------------------------------
(***************************************************************************)
(* The tracer, and how its context crosses the task queue.  A thread has a *)
(* current span in a ContextVar; a "with" block replaces it and holds the  *)
(* token that restores it.  The context goes with a task, to a thread of   *)
(* the pool in the same process or, in a header, to a worker process, and  *)
(* the spans of a process are kept in its own store.                       *)
(***************************************************************************)
EXTENDS Naturals, Sequences, SequencesExt, FiniteSets, FiniteSetsExt

CONSTANTS
  ApiThreads,    \* threads that serve requests
  PoolThreads,   \* threads of InProcessTaskQueue, in the same process
  BrokerThreads, \* worker processes, one thread each
  MaxSpans,      \* bound on spans
  MaxSubmits,    \* bound on tasks
  MaxDepth,      \* bound on nested blocks
  MaxLostWorkers \* bound on workers that die

ASSUME TracingAssumption ==
  /\ {MaxSpans, MaxSubmits, MaxDepth, MaxLostWorkers} \subseteq Nat
  /\ BrokerThreads \cap (ApiThreads \cup PoolThreads \cup {"api"}) = {}

VARIABLES
  broker,    \* TRUE for CeleryTaskQueue, FALSE for InProcessTaskQueue
  spans,     \* the spans in the order of their start: [trace, parent, request]
  serving,   \* per thread, the request it works for; 0 if none
  task,      \* per thread, the task it runs, if any
  inScope,   \* per thread, the span in the ContextVar; 0 for None
  blocks,    \* per thread, its open "with" blocks: [span, remote, token]
  submitted, \* tasks nobody has started: [id, request, context]
  store,     \* per process, the spans its TraceStore holds
  submits, served, workersLost   \* how much of the bounds is used

tracingVars == <<broker, spans, serving, task, inScope, blocks, submitted, store,
                 submits, served, workersLost>>

TracedThreads   == ApiThreads \cup PoolThreads \cup BrokerThreads
Home(t)   == IF t \in BrokerThreads THEN t ELSE "api"
Homes     == {Home(t) : t \in TracedThreads}
Unstarted == [id |-> 0, request |-> 0, context |-> 0]

TracingInit ==
  /\ broker \in BOOLEAN
  /\ spans = <<>>
  /\ serving = [t \in TracedThreads |-> 0] /\ task = [t \in TracedThreads |-> Unstarted]
  /\ inScope = [t \in TracedThreads |-> 0] /\ blocks = [t \in TracedThreads |-> <<>>]
  /\ submitted = {} /\ store = [h \in Homes |-> {}]
  /\ submits = 0 /\ served = 0 /\ workersLost = 0

-----------------------------------------------------------------------------

\* The current span of t becomes n for the length of a block.
Enter(t, n, isRemote) ==
  /\ inScope' = [inScope EXCEPT ![t] = n]
  /\ blocks'  = [blocks EXCEPT
                   ![t] = Append(@, [span |-> n, remote |-> isRemote,
                                     token |-> inScope[t]])]

\* ContextVar.reset puts back what the token holds.
Restore(t) == inScope' = [inScope EXCEPT ![t] = Last(blocks[t]).token]

\* Tracer.span: the current span is the parent, and its trace goes on.
NewSpan(t) ==
  /\ Len(spans) < MaxSpans /\ Len(blocks[t]) < MaxDepth
  /\ spans' = Append(spans,
       [trace   |-> IF inScope[t] = 0 THEN Len(spans) + 1 ELSE spans[inScope[t]].trace,
        parent  |-> inScope[t],
        request |-> serving[t]])
  /\ Enter(t, Len(spans) + 1, FALSE)

\* A span around some work of the thread.
OpenSpan(t) ==
  /\ serving[t] # 0
  /\ NewSpan(t)
  /\ UNCHANGED <<broker, serving, task, submitted, store, submits, served, workersLost>>

\* Fault: a block that raises is left before its span is recorded.
RecordReturned(t, raised) ==
  store' = IF raised THEN store
           ELSE [store EXCEPT ![Home(t)] = @ \cup {Last(blocks[t]).span}]

\* A span is recorded when its block is left, whether the block raised or not.
Record(t, raised) ==
  store' = [store EXCEPT ![Home(t)] = @ \cup {Last(blocks[t]).span}]

CloseSpan(t) ==
  /\ blocks[t] # <<>> /\ ~Last(blocks[t]).remote
  /\ \E raised \in BOOLEAN : Record(t, raised)
  /\ Restore(t)
  /\ blocks' = [blocks EXCEPT ![t] = Front(@)]
  /\ UNCHANGED <<broker, spans, serving, task, submitted, submits, served, workersLost>>

\* The block of resume_from_context; its remote span is recorded by nobody.
EndResume(t) ==
  /\ blocks[t] # <<>> /\ Last(blocks[t]).remote
  /\ Restore(t)
  /\ blocks' = [blocks EXCEPT ![t] = Front(@)]
  /\ UNCHANGED <<broker, spans, serving, task, submitted, store, submits, served,
                 workersLost>>

-----------------------------------------------------------------------------
(* Requests and tasks                                                      *)

BeginRequest(t) ==
  /\ serving[t] = 0 /\ served < MaxSubmits
  /\ served' = served + 1
  /\ serving' = [serving EXCEPT ![t] = served + 1]
  /\ UNCHANGED <<broker, spans, task, inScope, blocks, submitted, store, submits,
                 workersLost>>

\* A queue sends the context that was current before it: InProcessTaskQueue
\* reads it, and opens the span of the enqueueing afterwards.
Submit(t) ==
  /\ serving[t] # 0 /\ submits < MaxSubmits
  /\ submits' = submits + 1
  /\ submitted' = submitted \cup
       {[id |-> submits + 1, request |-> serving[t], context |-> inScope[t]]}
  /\ UNCHANGED <<broker, serving, task, store, served, workersLost>>

EnqueueInProcess(t) == ~broker /\ Submit(t) /\ NewSpan(t)

EnqueueCelery(t) == broker /\ Submit(t) /\ UNCHANGED <<spans, inScope, blocks>>

\* Future.cancel and revoke take back a task that has not been started.
CancelTask(w) ==
  /\ w \in submitted
  /\ submitted' = submitted \ {w}
  /\ UNCHANGED <<broker, spans, serving, task, inScope, blocks, store, submits,
                 served, workersLost>>

\* A task is run under the context it brings; without one, under no block.
RunTask(t, w) ==
  /\ w \in submitted /\ serving[t] = 0
  /\ t \in IF broker THEN BrokerThreads ELSE PoolThreads
  /\ submitted' = submitted \ {w}
  /\ serving' = [serving EXCEPT ![t] = w.request]
  /\ task' = [task EXCEPT ![t] = w]
  /\ IF w.context = 0 THEN UNCHANGED <<inScope, blocks>> ELSE Enter(t, w.context, TRUE)
  /\ UNCHANGED <<broker, spans, store, submits, served, workersLost>>

\* The request is answered, or the task has ended: the thread is free again.
EndWork(t) ==
  /\ serving[t] # 0 /\ blocks[t] = <<>>
  /\ serving' = [serving EXCEPT ![t] = 0]
  /\ task' = [task EXCEPT ![t] = Unstarted]
  /\ UNCHANGED <<broker, spans, inScope, blocks, submitted, store, submits, served,
                 workersLost>>

\* A worker process is lost with its open spans and its store; a task it had
\* not ended is delivered again.
WorkerLost(t) ==
  /\ t \in BrokerThreads /\ workersLost < MaxLostWorkers
  /\ workersLost' = workersLost + 1
  /\ submitted' = submitted \cup (IF serving[t] = 0 THEN {} ELSE {task[t]})
  /\ serving' = [serving EXCEPT ![t] = 0] /\ task' = [task EXCEPT ![t] = Unstarted]
  /\ inScope' = [inScope EXCEPT ![t] = 0] /\ blocks' = [blocks EXCEPT ![t] = <<>>]
  /\ store' = [store EXCEPT ![Home(t)] = {}]
  /\ UNCHANGED <<broker, spans, submits, served>>

TracingNext ==
  \/ \E t \in ApiThreads : BeginRequest(t) \/ EnqueueInProcess(t) \/ EnqueueCelery(t)
  \/ \E t \in TracedThreads : OpenSpan(t) \/ CloseSpan(t) \/ EndResume(t) \/ EndWork(t)
  \/ \E t \in PoolThreads \cup BrokerThreads : \E w \in submitted : RunTask(t, w)
  \/ \E w \in submitted : CancelTask(w)
  \/ \E t \in BrokerThreads : WorkerLost(t)

TracingSpec == TracingInit /\ [][TracingNext]_tracingVars

-----------------------------------------------------------------------------
(* What a reader of a trace is shown                                       *)

\* _render_tree draws the children of what it has drawn, from the roots; if
\* no root was recorded, from the span that started first.
Roots(S) ==
  LET roots == {n \in S : spans[n].parent = 0}
  IN IF roots # {} \/ S = {} THEN roots ELSE {Min(S)}

\* What is drawn: the least set with the roots and the children of its members.
Drawn(S) ==
  {n \in S : \A T \in SUBSET S :
     Roots(S) \subseteq T /\ (\A k \in S : spans[k].parent \in T => k \in T) => n \in T}

OfTrace(h, trace) == {n \in store[h] : spans[n].trace = trace}

Open(h) == UNION {{blocks[t][k].span : k \in DOMAIN blocks[t]}
                   : t \in {x \in TracedThreads : Home(x) = h}}

\* Where a trace was started, every span of it is drawn once all have ended:
\* none hangs below a parent that was never recorded.
ShownWhole ==
  \A h \in Homes : \A root \in store[h] :
    LET S == OfTrace(h, spans[root].trace)
    IN (spans[root].parent = 0 /\ \A n \in Open(h) : spans[n].trace # spans[root].trace)
         => Drawn(S) = S

\* A thread of a pool serves one request after another, and no context of the
\* one is left for the next: the spans of a trace belong to one request.
NoContextLeaks ==
  \A m, n \in DOMAIN spans :
    spans[m].trace = spans[n].trace => spans[m].request = spans[n].request

\* A trace tells the whole story of one request: every span of it can be drawn
\* where it started, and none belongs to another request (Tracer.span,
\* resume_from_context, InProcessTaskQueue).
TracesAreWhole == ShownWhole /\ NoContextLeaks
=============================================================================
