------------------------------- MODULE Feedback -------------------------------
(***************************************************************************)
(* Human decisions about one job and the audit of them.  A reviewer        *)
(* decides an item that waits (POST /review-items/{id}/decision), or hands *)
(* in feedback (POST /jobs/{id}/feedback): an item of its own that the     *)
(* same request decides at once.  Both write the item, the decision and    *)
(* the audit row in transactions of their own, one after the other, so     *)
(* that other requests, or the death of the process, come in between.      *)
(*                                                                         *)
(* A request is who decides what; the reason stands with the decision.     *)
(***************************************************************************)
EXTENDS Naturals, Sequences, FiniteSets

CONSTANTS
  Threads,        \* threads of the API
  People,         \* the users who decide
  Verdicts,       \* decisions with their reasons
  MaxItems,       \* bound on the review items
  MaxDeaths       \* bound on processes that die

ASSUME FeedbackAssumption ==
  /\ MaxItems \in Nat /\ MaxDeaths \in Nat
  /\ Verdicts # {} /\ People # {}

VARIABLES
  items,       \* review_items of the job, in order of creation
  audits,      \* review_audits of the job, in order of creation
  thread,      \* what each thread is doing
  deaths       \* how much of the bound is used

feedbackVars == <<items, audits, thread, deaths>>

Somebody == CHOOSE p \in People : TRUE
SomeVerdict == CHOOSE v \in Verdicts : TRUE

Pending == [status |-> "PENDING", by |-> Somebody, verdict |-> SomeVerdict,
            revision |-> 0]

Resting == [pc |-> "idle", feedback |-> FALSE, by |-> Somebody,
            verdict |-> SomeVerdict, item |-> 0, revision |-> 0]

\* The graph has stopped the run and asked for a review.
FeedbackInit ==
  /\ items = <<Pending>> /\ audits = <<>>
  /\ thread = [h \in Threads |-> Resting]
  /\ deaths = 0

Goto(h, pc) == thread' = [thread EXCEPT ![h].pc = pc]

-----------------------------------------------------------------------------
(* The requests                                                            *)

\* review_decision: the item is read, in whatever state it is.
ReadItem(h) ==
  /\ thread[h].pc = "idle"
  /\ \E p \in People, v \in Verdicts, i \in DOMAIN items :
       thread' = [thread EXCEPT ![h] =
                    [pc |-> "decide", feedback |-> FALSE, by |-> p,
                     verdict |-> v, item |-> i,
                     revision |-> items[i].revision + 1]]
  /\ UNCHANGED <<items, audits, deaths>>

Recorded(p, v) == \E a \in DOMAIN audits : audits[a].by = p /\ audits[a].verdict = v

\* create_feedback: refused if the audit already holds this decision of this
\* reviewer.
CheckDuplicate(h) ==
  /\ thread[h].pc = "idle" /\ Len(items) < MaxItems
  /\ \E p \in People, v \in Verdicts :
       /\ ~Recorded(p, v)
       /\ thread' = [thread EXCEPT ![h] =
                       [pc |-> "create", feedback |-> TRUE, by |-> p,
                        verdict |-> v, item |-> 0, revision |-> 0]]
  /\ UNCHANGED <<items, audits, deaths>>

CreateItem(h) ==
  /\ thread[h].pc = "create" /\ Len(items) < MaxItems
  /\ items' = Append(items, Pending)
  /\ thread' = [thread EXCEPT ![h].pc = "decide", ![h].item = Len(items')]
  /\ UNCHANGED <<audits, deaths>>

\* Fault: the item that was read as waiting is decided.
Decidable(i) == TRUE

\* SqlReviewService.decide: UPDATE ... WHERE status = 'PENDING'.
Waiting(i) == items[i].status = "PENDING"

Decide(h) ==
  LET i == thread[h].item IN
  /\ thread[h].pc = "decide" /\ Waiting(i)
  /\ items' = [items EXCEPT ![i] =
                 [status |-> "DECIDED", by |-> thread[h].by,
                  verdict |-> thread[h].verdict,
                  revision |-> items[i].revision + 1]]
  /\ Goto(h, "audit")
  /\ UNCHANGED <<audits, deaths>>

\* REVIEW_ALREADY_DECIDED; feedback meets it too, when somebody has decided
\* its item first.
Refused(h) ==
  /\ thread[h].pc = "decide" /\ ~Waiting(thread[h].item)
  /\ thread' = [thread EXCEPT ![h] = Resting]
  /\ UNCHANGED <<items, audits, deaths>>

\* The revision is the one worked out before the decision, or the item's own
\* for feedback.
Audit(h) ==
  LET i == thread[h].item IN
  /\ thread[h].pc = "audit"
  /\ audits' = Append(audits,
                 [item |-> i, by |-> thread[h].by, verdict |-> thread[h].verdict,
                  revision |-> IF thread[h].feedback THEN items[i].revision
                               ELSE thread[h].revision])
  /\ thread' = [thread EXCEPT ![h] = Resting]
  /\ UNCHANGED <<items, deaths>>

\* The process dies; what it had committed stays.
Die(h) ==
  /\ thread[h].pc # "idle" /\ deaths < MaxDeaths
  /\ deaths' = deaths + 1
  /\ thread' = [thread EXCEPT ![h] = Resting]
  /\ UNCHANGED <<items, audits>>

FeedbackNext ==
  \E h \in Threads :
    \/ ReadItem(h) \/ CheckDuplicate(h) \/ CreateItem(h) \/ Decide(h)
    \/ Refused(h) \/ Audit(h) \/ Die(h)

FeedbackSpec == FeedbackInit /\ [][FeedbackNext]_feedbackVars

-----------------------------------------------------------------------------
(* Properties                                                              *)

AuditsOf(i) == {a \in DOMAIN audits : audits[a].item = i}

Owed(i) == {h \in Threads : thread[h].pc = "audit" /\ thread[h].item = i}

\* Whoever decides at the same time, an item is decided once: it has at most
\* one audit row, written or about to be, which says what the item says; and
\* a decision without one is the work of a process that died.
AuditMatchesDecision ==
  /\ \A i \in DOMAIN items : Cardinality(AuditsOf(i)) + Cardinality(Owed(i)) <= 1
  /\ \A a \in DOMAIN audits :
       LET i == audits[a].item IN
       /\ items[i].status = "DECIDED" /\ audits[a].by = items[i].by
       /\ audits[a].verdict = items[i].verdict
       /\ audits[a].revision = items[i].revision
  /\ Cardinality({i \in DOMAIN items : items[i].status = "DECIDED" /\
                    AuditsOf(i) \cup Owed(i) = {}}) <= deaths

=============================================================================
