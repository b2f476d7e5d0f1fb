---------------------------- MODULE Conversations ----------------------------
(***************************************************************************)
(* One conversation about a job.  A question is answered in one database   *)
(* transaction: it stores the question, reads what may be quoted, stores   *)
(* the answer, reads every message back and rewrites the summary of the    *)
(* conversation.  The database runs at READ COMMITTED (see JobControl), so *)
(* each of these reads sees what has committed by then; the summary row is *)
(* locked only from the moment it is written.                              *)
(*                                                                         *)
(* A turn, a question and its answer, is the position of its question in   *)
(* the order of created_at.                                                *)
(***************************************************************************)
EXTENDS Naturals, FiniteSets, FiniteSetsExt

CONSTANTS
  Requests,     \* threads of the API that serve this conversation
  Evidence,     \* evidence items the job may come to have
  Knowledge,    \* chunks of published and authorized documents
  Questions,    \* "plain", "other_job" or "verdict": what questions ask for
  Window,       \* how many turns a summary keeps
  MaxCited,     \* how many sources an answer cites
  MaxTurns      \* bound on the questions

ASSUME ConversationAssumption ==
  /\ Evidence \cap Knowledge = {}
  /\ Questions \subseteq {"plain", "other_job", "verdict"}
  /\ {Window, MaxCited} \subseteq Nat \ {0} /\ MaxTurns \in Nat

VARIABLES
  exists,      \* the conversation has not been deleted
  turns,       \* the committed turns: their numbers
  cites,       \* what the answer of each turn quotes
  stored,      \* the summary columns of the conversation
  evidence,    \* evidence_items of the job
  asked,       \* how many questions were ever begun
  request      \* what each thread is doing

conversationVars == <<exists, turns, cites, stored, evidence, asked, request>>

\* A summary: its version, the turns it was made from, the sources it lists,
\* and the turns that had committed when its transaction began.
NoSummary == [version |-> 0, of |-> {}, sources |-> {}, since |-> {}]

NoRequest == [pc |-> "idle", turn |-> 0, question |-> "plain", cites |-> {},
              loaded |-> NoSummary, since |-> {}, summary |-> NoSummary]

ConversationInit ==
  /\ exists = TRUE /\ turns = {} /\ evidence = {} /\ asked = 0
  /\ cites = [t \in 1 .. MaxTurns |-> {}]
  /\ stored = NoSummary
  /\ request = [r \in Requests |-> NoRequest]

-----------------------------------------------------------------------------
(* Helpers                                                                 *)

\* The n newest of a set of turns.
Newest(n, T) == {t \in T : Cardinality({u \in T : u > t}) < n}

UpTo(n, S) == {C \in SUBSET S : Cardinality(C) = Min({n, Cardinality(S)})}

\* _answer_for_question: the job's evidence, else knowledge, else nothing;
\* nothing for a question about another job or about a person.
Sources(question) ==
  IF question # "plain" THEN {}
  ELSE IF evidence # {} THEN evidence
  ELSE Knowledge

\* Fault: the new summary is the old one and this turn.
SummaryExtended(r) ==
  LET of == request[r].loaded.of \cup ({request[r].turn} \ {0})
      Cited(t) == IF t = request[r].turn THEN request[r].cites ELSE cites[t]
  IN  [version |-> request[r].loaded.version + 1, of |-> of,
       sources |-> UNION {Cited(t) : t \in Newest(Window, of)},
       since |-> request[r].since]

\* _refresh_summary: made from all the messages the transaction can see.
SummaryOf(r) ==
  LET of == turns \cup ({request[r].turn} \ {0})
      Cited(t) == IF t = request[r].turn THEN request[r].cites ELSE cites[t]
  IN  [version |-> request[r].loaded.version + 1, of |-> of,
       sources |-> UNION {Cited(t) : t \in Newest(Window, of)},
       since |-> request[r].since]

\* The row of the conversation, once written, is locked until the commit.
RowLocked == \E r \in Requests : request[r].pc = "written"

-----------------------------------------------------------------------------
(* POST .../messages and .../ask                                           *)

\* The conversation is loaded, the question inserted: from here on the
\* foreign key keeps the conversation from being deleted.
Ask(r) ==
  /\ request[r].pc = "idle" /\ exists /\ asked < MaxTurns
  /\ asked' = asked + 1
  /\ \E q \in Questions :
       request' = [request EXCEPT ![r] =
                     [NoRequest EXCEPT !.pc = "asked", !.turn = asked',
                        !.question = q, !.loaded = stored, !.since = turns]]
  /\ UNCHANGED <<exists, turns, cites, stored, evidence>>

Respond(r) ==
  /\ request[r].pc = "asked"
  /\ \E C \in UpTo(MaxCited, Sources(request[r].question)) :
       request' = [request EXCEPT ![r].pc = "answered", ![r].cites = C]
  /\ UNCHANGED <<exists, turns, cites, stored, evidence, asked>>

\* The messages are read for the summary.
Summarize(r) ==
  /\ request[r].pc = "answered"
  /\ request' = [request EXCEPT ![r].pc = "summed", ![r].summary = SummaryOf(r)]
  /\ UNCHANGED <<exists, turns, cites, stored, evidence, asked>>

\* The summary columns are written, behind any other writer of the row.
WriteSummary(r) ==
  /\ request[r].pc = "summed" /\ exists /\ ~RowLocked
  /\ request' = [request EXCEPT ![r].pc = "written"]
  /\ UNCHANGED <<exists, turns, cites, stored, evidence, asked>>

CommitTurn(r) ==
  /\ request[r].pc = "written"
  /\ stored' = request[r].summary
  /\ turns' = turns \cup ({request[r].turn} \ {0})
  /\ cites' = IF request[r].turn = 0 THEN cites
              ELSE [cites EXCEPT ![request[r].turn] = request[r].cites]
  /\ request' = [request EXCEPT ![r] = NoRequest]
  /\ UNCHANGED <<exists, evidence, asked>>

\* The transaction fails, or its thread dies: everything is rolled back.
RollBack(r) ==
  /\ request[r].pc # "idle"
  /\ request' = [request EXCEPT ![r] = NoRequest]
  /\ UNCHANGED <<exists, turns, cites, stored, evidence, asked>>

-----------------------------------------------------------------------------
(* The other operations                                                    *)

\* GET .../summary makes the summary that is missing.  The conversation is
\* loaded first and the messages are read later.
ReadSummary(r) ==
  /\ request[r].pc = "idle" /\ exists /\ stored.version = 0
  /\ request' = [request EXCEPT ![r] =
                   [NoRequest EXCEPT !.pc = "reading", !.since = turns]]
  /\ UNCHANGED <<exists, turns, cites, stored, evidence, asked>>

MakeMissing(r) ==
  /\ request[r].pc = "reading"
  /\ request' = [request EXCEPT ![r] =
                   IF turns = {} THEN NoRequest
                   ELSE [@ EXCEPT !.pc = "summed", !.summary = SummaryOf(r)]]
  /\ UNCHANGED <<exists, turns, cites, stored, evidence, asked>>

\* The messages go with the conversation.
DeleteConversation ==
  /\ exists /\ \A r \in Requests : request[r].turn = 0 /\ ~RowLocked
  /\ exists' = FALSE /\ turns' = {} /\ stored' = NoSummary
  /\ UNCHANGED <<cites, evidence, asked, request>>

\* A worker stores an evidence item of the job.
AddEvidence(e) ==
  /\ e \notin evidence
  /\ evidence' = evidence \cup {e}
  /\ UNCHANGED <<exists, turns, cites, stored, asked, request>>

ConversationNext ==
  \/ \E r \in Requests :
       \/ Ask(r) \/ Respond(r) \/ Summarize(r) \/ WriteSummary(r)
       \/ CommitTurn(r) \/ RollBack(r) \/ ReadSummary(r) \/ MakeMissing(r)
  \/ DeleteConversation
  \/ \E e \in Evidence : AddEvidence(e)

ConversationSpec == ConversationInit /\ [][ConversationNext]_conversationVars

-----------------------------------------------------------------------------
(* Properties                                                              *)

\* A summary may miss a turn that was answered while it was made, and the
\* next one does not: whatever overlaps, the stored summary covers every turn
\* that had committed when its own transaction began, and lists no source
\* that none of the turns it keeps has quoted.
SummaryCatchesUp ==
  exists => /\ stored.since \cap turns \subseteq stored.of
            /\ stored.of \subseteq turns
            /\ stored.sources \subseteq
                 UNION {cites[t] : t \in Newest(Window, stored.of)}

=============================================================================
