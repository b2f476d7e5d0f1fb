----------------------------- MODULE EventStream -----------------------------
(***************************************************************************)
(* The progress events of one job: producers append rows to the event log  *)
(* and wake the streams of their process through the notification bus; the *)
(* SSE generator replays the rows after the client's cursor and then tails *)
(* the log; the web client keeps the id of the last frame it has received  *)
(* and comes back with it.                                                 *)
(*                                                                         *)
(* An event is its id.  The database gives the id when the row is inserted *)
(* and shows the row when the transaction commits, so that two producers   *)
(* may commit in the other order: Ordered = TRUE says they never do.  A    *)
(* producer in Remote runs in another process than the API (a Celery       *)
(* worker): its event service has no bus.                                  *)
(***************************************************************************)
EXTENDS Naturals, FiniteSets, FiniteSetsExt, SequencesExt

CONSTANTS
  Producers,     \* threads that append events of the job
  Remote,        \* those that run in another process than the streams
  Streams,       \* generators that may be open at the same time
  None,          \* no stream
  Batch,         \* how many rows one read of the log returns at most
  Ordered,       \* TRUE if events commit in the order of their ids
  MaxIds,        \* bound on the rows inserted
  MaxLosses      \* bound on connections lost and appends that fail

ASSUME StreamAssumption ==
  /\ Remote \subseteq Producers /\ None \notin Streams
  /\ Batch \in Nat \ {0} /\ Ordered \in BOOLEAN
  /\ MaxIds \in Nat /\ MaxLosses \in Nat

VARIABLES
  ids,         \* the greatest id given out
  log,         \* the committed events
  terminal,    \* the events that close a stream
  producer,    \* what each producer is doing
  stream,      \* the generators
  current,     \* the stream the client reads from, or None
  wire,        \* frames the client has not received yet
  received,    \* the events the client has received, in order
  losses       \* how much of the bound is used

streamVars ==
  <<ids, log, terminal, producer, stream, current, wire, received, losses>>

Ids == 1 .. MaxIds

Closed == [pc |-> "closed", last |-> 0, rows |-> {}, ends |-> FALSE,
           wakes |-> 0]

StreamInit ==
  /\ ids = 0 /\ log = {} /\ terminal = {}
  /\ producer = [p \in Producers |-> [pc |-> "idle", id |-> 0]]
  /\ stream = [s \in Streams |-> Closed]
  /\ current = None /\ wire = {} /\ received = <<>> /\ losses = 0

-----------------------------------------------------------------------------
(* Producers                                                               *)

\* append() inserts and flushes: the row has its id, nobody else sees it.
Insert(p) ==
  /\ producer[p].pc = "idle" /\ ids < MaxIds
  /\ ids' = ids + 1
  /\ \E ending \in BOOLEAN :
       terminal' = IF ending THEN terminal \cup {ids'} ELSE terminal
  /\ producer' = [producer EXCEPT ![p] = [pc |-> "inserted", id |-> ids']]
  /\ UNCHANGED <<log, stream, current, wire, received, losses>>

InTurn(p) ==
  \A q \in Producers \ {p} :
    producer[q].pc = "inserted" => producer[q].id > producer[p].id

\* The transaction of append() commits.
CommitEvent(p) ==
  /\ producer[p].pc = "inserted"
  /\ Ordered => InTurn(p)
  /\ log' = log \cup {producer[p].id}
  /\ producer' = [producer EXCEPT ![p].pc =
                    IF p \in Remote THEN "idle" ELSE "committed"]
  /\ UNCHANGED <<ids, terminal, stream, current, wire, received, losses>>

\* The transaction fails: the id is lost.
AbortEvent(p) ==
  /\ producer[p].pc = "inserted"
  /\ losses < MaxLosses /\ losses' = losses + 1
  /\ producer' = [producer EXCEPT ![p].pc = "idle"]
  /\ terminal' = terminal \ {producer[p].id}
  /\ UNCHANGED <<ids, log, stream, current, wire, received>>

Subscribed(s) == stream[s].pc # "closed"

\* Fault: only a stream that waits is woken.
PublishToWaiting(p) ==
  /\ producer[p].pc = "committed"
  /\ stream' = [s \in Streams |->
                  IF stream[s].pc = "wait"
                  THEN [stream[s] EXCEPT !.wakes = @ + 1] ELSE stream[s]]
  /\ producer' = [producer EXCEPT ![p].pc = "idle"]
  /\ UNCHANGED <<ids, log, terminal, current, wire, received, losses>>

\* NotificationBus.publish: a token for every subscriber of the job.
Publish(p) ==
  /\ producer[p].pc = "committed"
  /\ stream' = [s \in Streams |->
                  IF Subscribed(s)
                  THEN [stream[s] EXCEPT !.wakes = @ + 1] ELSE stream[s]]
  /\ producer' = [producer EXCEPT ![p].pc = "idle"]
  /\ UNCHANGED <<ids, log, terminal, current, wire, received, losses>>

-----------------------------------------------------------------------------
(* The generator                                                           *)

Least(n, S) == {e \in S : Cardinality({f \in S : f < e}) < n}

\* list_after: the rows after the cursor, a batch of them.
ListAfter(last) == Least(Batch, {e \in log : e > last})

\* What the generator holds after a read of the log.
Loaded(s, pc) ==
  LET rows == ListAfter(stream[s].last) IN
  [stream[s] EXCEPT !.pc = pc, !.rows = rows,
                    !.ends = rows \cap terminal # {}]

Serve(s, to) ==
  /\ stream' = [stream EXCEPT ![s] = to]
  /\ UNCHANGED <<ids, log, terminal, producer, current, received, losses>>

\* The first read, after the subscription.
Replay(s) ==
  /\ stream[s].pc = "open"
  /\ Serve(s, Loaded(s, "replay"))
  /\ UNCHANGED wire

\* While it replays, and not in the tail, the generator asks before every
\* frame whether the client is still there.
Send(s) ==
  /\ stream[s].pc \in {"replay", "tail"} /\ stream[s].rows # {}
  /\ stream[s].pc = "tail" \/ current = s
  /\ LET e == Min(stream[s].rows) IN
     /\ Serve(s, [stream[s] EXCEPT !.rows = @ \ {e}, !.last = e])
     /\ wire' = IF current = s THEN wire \cup {e} ELSE wire

\* After the rows of a read: the end, if a terminal event was among them.
Sent(s) ==
  /\ stream[s].pc \in {"replay", "tail"} /\ stream[s].rows = {}
  /\ Serve(s, IF stream[s].ends THEN Closed ELSE [stream[s] EXCEPT !.pc = "loop"])
  /\ UNCHANGED wire

\* The client has gone: the generator returns and unsubscribes.
Leave(s) ==
  /\ current # s
  /\ \/ stream[s].pc = "loop"
     \/ stream[s].pc = "replay" /\ stream[s].rows # {}
  /\ Serve(s, Closed)
  /\ UNCHANGED wire

Wait(s) ==
  /\ stream[s].pc = "loop" /\ current = s
  /\ Serve(s, [stream[s] EXCEPT !.pc = "wait"])
  /\ UNCHANGED wire

Wake(s) ==
  /\ stream[s].pc = "wait" /\ stream[s].wakes > 0
  /\ Serve(s, [Loaded(s, "tail") EXCEPT !.wakes = @ - 1])
  /\ UNCHANGED wire

\* The bus has been quiet for heartbeat_seconds: a comment, and no read.
Heartbeat(s) ==
  /\ stream[s].pc = "wait" /\ stream[s].wakes = 0
  /\ Serve(s, [stream[s] EXCEPT !.pc = "loop"])
  /\ UNCHANGED wire

StreamStep(s) ==
  \/ Replay(s) \/ Send(s) \/ Sent(s) \/ Leave(s) \/ Wait(s) \/ Wake(s)
  \/ Heartbeat(s)

-----------------------------------------------------------------------------
(* The client                                                              *)

\* Fault: the stream starts after what was sent, received or not.
SentBefore ==
  Max({0} \cup {stream[s].last : s \in Streams}
          \cup {received[i] : i \in DOMAIN received})

\* Last-Event-ID, which the browser keeps across connections.
Cursor == IF received = <<>> THEN 0 ELSE Last(received)

\* A request for the events: the generator subscribes, then reads.
Connect(s) ==
  /\ current = None /\ stream[s].pc = "closed"
  /\ current' = s /\ wire' = {}
  /\ stream' = [stream EXCEPT ![s] = [Closed EXCEPT !.pc = "open",
                                                    !.last = Cursor]]
  /\ UNCHANGED <<ids, log, terminal, producer, received, losses>>

Receive ==
  /\ current # None /\ wire # {}
  /\ received' = Append(received, Min(wire))
  /\ wire' = wire \ {Min(wire)}
  /\ UNCHANGED <<ids, log, terminal, producer, stream, current, losses>>

\* The body has ended and all of it has been received.
EndOfStream ==
  /\ current # None /\ stream[current].pc = "closed" /\ wire = {}
  /\ current' = None
  /\ UNCHANGED <<ids, log, terminal, producer, stream, wire, received, losses>>

\* The connection is lost, with the frames under way.
Drop ==
  /\ current # None /\ losses < MaxLosses
  /\ losses' = losses + 1 /\ current' = None /\ wire' = {}
  /\ UNCHANGED <<ids, log, terminal, producer, stream, received>>

StreamNext ==
  \/ \E p \in Producers :
       Insert(p) \/ CommitEvent(p) \/ AbortEvent(p) \/ Publish(p)
  \/ \E s \in Streams : StreamStep(s) \/ Connect(s)
  \/ Receive \/ EndOfStream \/ Drop

\* The event loop serves every open stream and the bus delivers its tokens;
\* a frame that was sent arrives unless the connection is lost.
StreamFairness ==
  /\ \A p \in Producers : WF_streamVars(CommitEvent(p) \/ Publish(p))
  /\ \A s \in Streams : WF_streamVars(StreamStep(s))
  /\ WF_streamVars(Receive \/ EndOfStream)

StreamSafety == StreamInit /\ [][StreamNext]_streamVars

StreamSpec == StreamSafety /\ StreamFairness

-----------------------------------------------------------------------------
(* Properties                                                              *)

\* Whatever is lost, repeated or late, the client has received exactly the
\* events up to its cursor, each once and in order: coming back with
\* Last-Event-ID neither skips nor repeats one.
ReceivedIsPrefix ==
  /\ \A i, j \in DOMAIN received : i < j => received[i] < received[j]
  /\ Range(received) = {e \in log : e <= Cursor}

\* An event of the job reaches a client that stays connected.
EventReachesClient ==
  \A e \in Ids : (e \in log /\ current # None) ~>
                 (current = None \/ \E i \in DOMAIN received : received[i] = e)

=============================================================================
