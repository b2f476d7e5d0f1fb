--------------------------- MODULE Analysis_proofs ---------------------------
(***************************************************************************)
(* Parts that an analysis calls.                                           *)
(*   ToolRegistry: what invoke promises whoever repeats a call, for any    *)
(* keys, outputs, attempts, retries and number of calls.                   *)
(*   Knowledge: the published versions, for any documents, ingesters and   *)
(* readers, when one process at a time publishes; two publishers break the *)
(* result, as each reads the published versions before the other has       *)
(* committed.                                                              *)
(*   DocumentText: the headings and the windows of the chunks of any       *)
(* document, whatever its lines.                                           *)
(*   EvidenceEngine: whose files a reader of a report finds, wherever a    *)
(* run stops, and which shares of students are unknown.                    *)
(*   ModelGateway: how often a failing provider is called, and what a job  *)
(* is charged, for any callers, policies, budgets and clocks.              *)
(*   FrameSampling: the times of the frames, for any medium.               *)
(*   MediaTimeline: which speech reaches the model and where it lies in    *)
(* the lesson, for any bursts and any answers of the model.                *)
(*   SegmentMerge: the parts of a long video and what is merged, for any   *)
(* video and any order, repetition or loss of the results.                 *)
(***************************************************************************)
EXTENDS ToolRegistry, Knowledge, DocumentText, EvidenceEngine, ModelGateway,
        FrameSampling, MediaTimeline, SegmentMerge, SequenceTheorems, SumTheorems

-----------------------------------------------------------------------------
(* The tool registry                                                       *)

ToolTypes ==
  /\ invocation \in [key : ToolKeys \cup {NoKey}, attempts : Nat]
  /\ toolCache \in [ToolKeys -> Outputs \cup {NoOutput}]
  /\ toolAnswers \in [ToolKeys -> SUBSET Outputs]
  /\ toolRetries \in Nat /\ invocations \in Nat /\ started \in Nat

\* What a key was answered with is what the cache still holds.
AnsweredFromCache ==
  \A k \in ToolKeys : \A o \in toolAnswers[k] : toolCache[k] = o

\* A handler runs only for a key that has no output yet.
WaitingIsUncached ==
  Attempting /\ invocation.key # NoKey => toolCache[invocation.key] = NoOutput

\* Every handler started was paid for, by a call or by a retry.
AttemptsArePaid ==
  started <= invocations + toolRetries /\ toolRetries <= MaxToolRetries

ToolInv == ToolTypes /\ AnsweredFromCache /\ WaitingIsUncached /\ AttemptsArePaid

LEMMA ToolStart == ToolInit => ToolInv
BY ToolAssumption
DEF ToolInit, ToolInv, ToolTypes, AnsweredFromCache, WaitingIsUncached,
    AttemptsArePaid, Attempting, NoInvocation

\* A call: answered from the cache, or its first handler starts.
LEMMA InvokeStep ==
  ASSUME ToolInv, NEW k \in ToolKeys \cup {NoKey}, InvokeTool(k)
  PROVE  ToolInv'
<1> USE ToolAssumption
<1>1. CASE Cached(k) /\ AnswerTool(k, toolCache[k]) /\ UNCHANGED <<invocation, started>>
  <2>1. k \in ToolKeys /\ toolCache[k] \in Outputs
    BY <1>1 DEF Cached, ToolInv, ToolTypes
  <2>2. toolAnswers' = [toolAnswers EXCEPT ![k] = @ \cup {toolCache[k]}]
    BY <1>1, <2>1 DEF AnswerTool
  <2>3. ToolTypes'
    BY <1>1, <2>1, <2>2 DEF InvokeTool, ToolInv, ToolTypes
  <2>4. AnsweredFromCache'
    BY <2>1, <2>2 DEF InvokeTool, ToolInv, ToolTypes, AnsweredFromCache
  <2>5. WaitingIsUncached' /\ AttemptsArePaid'
    BY <1>1 DEF InvokeTool, ToolInv, ToolTypes, WaitingIsUncached,
                AttemptsArePaid, Attempting
  <2>6. QED
    BY <2>3, <2>4, <2>5 DEF ToolInv
<1>2. CASE /\ ~Cached(k) /\ invocation' = [key |-> k, attempts |-> 1]
           /\ started' = started + 1 /\ UNCHANGED toolAnswers
  <2>1. ToolTypes'
    BY <1>2 DEF InvokeTool, ToolInv, ToolTypes
  <2>2. AnsweredFromCache'
    BY <1>2 DEF InvokeTool, ToolInv, AnsweredFromCache
  <2>3. WaitingIsUncached'
    BY <1>2 DEF InvokeTool, Cached, WaitingIsUncached, Attempting
  <2>4. AttemptsArePaid'
    BY <1>2 DEF InvokeTool, ToolInv, ToolTypes, AttemptsArePaid
  <2>5. QED
    BY <2>1, <2>2, <2>3, <2>4 DEF ToolInv
<1>3. QED
  BY <1>1, <1>2 DEF InvokeTool

\* The handler that is waited for answers: the cache takes its output before
\* anybody else can be answered.
LEMMA ReturnStep ==
  ASSUME ToolInv, NEW o \in Outputs, HandlerReturns(o)
  PROVE  ToolInv'
<1> USE ToolAssumption
<1>1. ToolTypes' /\ WaitingIsUncached' /\ AttemptsArePaid'
  BY DEF HandlerReturns, Remember, AnswerTool, NoInvocation, Attempting,
         ToolInv, ToolTypes, WaitingIsUncached, AttemptsArePaid
<1>2. CASE invocation.key = NoKey
  BY <1>1, <1>2 DEF HandlerReturns, Remember, AnswerTool, ToolInv, AnsweredFromCache
<1>3. CASE invocation.key # NoKey
  <2>1. invocation.key \in ToolKeys /\ toolCache[invocation.key] = NoOutput
    BY <1>3 DEF HandlerReturns, ToolInv, ToolTypes, WaitingIsUncached
  <2>2. toolAnswers[invocation.key] = {}
    BY <2>1 DEF ToolInv, ToolTypes, AnsweredFromCache
  <2>3. AnsweredFromCache'
    BY <1>3, <2>1, <2>2
    DEF HandlerReturns, Remember, AnswerTool, ToolInv, ToolTypes, AnsweredFromCache
  <2>4. QED
    BY <1>1, <2>3 DEF ToolInv
<1>4. QED
  BY <1>2, <1>3

\* A failed or abandoned attempt answers nothing; a retry is charged.
LEMMA RetryStep ==
  ASSUME ToolInv, Attempting, RetryOrGiveUp
  PROVE  ToolInv'
<1>1. CASE invocation.attempts < MaxAttempts /\ RetryLeft
  BY <1>1, ToolAssumption
  DEF RetryOrGiveUp, RetryLeft, Attempting, ToolInv, ToolTypes,
      AnsweredFromCache, WaitingIsUncached, AttemptsArePaid
<1>2. CASE ~(invocation.attempts < MaxAttempts /\ RetryLeft)
  BY <1>2, ToolAssumption
  DEF RetryOrGiveUp, NoInvocation, Attempting, ToolInv, ToolTypes,
      AnsweredFromCache, WaitingIsUncached, AttemptsArePaid
<1>3. QED
  BY <1>1, <1>2

LEMMA ToolStep == ToolInv /\ [ToolNext]_toolVars => ToolInv'
<1> SUFFICES ASSUME ToolInv, [ToolNext]_toolVars
             PROVE  ToolInv'
  OBVIOUS
<1> USE DEF ToolInv, ToolTypes, AnsweredFromCache, WaitingIsUncached,
            AttemptsArePaid, Attempting
<1>1. CASE RefuseTool
  BY <1>1, ToolAssumption DEF RefuseTool
<1>2. CASE \E k \in ToolKeys \cup {NoKey} : InvokeTool(k)
  BY <1>2, InvokeStep
<1>3. CASE \E o \in Outputs : HandlerReturns(o)
  BY <1>3, ReturnStep
<1>4. CASE HandlerFails \/ HandlerTimesOut
  BY <1>4, RetryStep DEF HandlerFails, HandlerTimesOut
<1>5. CASE AbandonedEnds \/ DeadlinePasses \/ UNCHANGED toolVars
  BY <1>5 DEF AbandonedEnds, DeadlinePasses, toolVars
<1>6. QED
  BY <1>1, <1>2, <1>3, <1>4, <1>5 DEF ToolNext

\* A call repeated with its key gets the output of the first one that
\* succeeded, and all calls of a run start no more handlers than its calls and
\* its retries, however many attempts time out and are left running.
THEOREM ToolRetriesAreSafe == ToolSpec => []RetriesAreSafe
<1>1. ToolInv => RetriesAreSafe
  BY ToolAssumption
  DEF ToolInv, ToolTypes, AnsweredFromCache, AttemptsArePaid, RetriesAreSafe,
      SameKeySameAnswer, AttemptsWithinBudget
<1>2. QED
  BY <1>1, ToolStart, ToolStep, PTL DEF ToolSpec

-----------------------------------------------------------------------------
(* The knowledge base                                                      *)

\* There is at most one process that publishes.
OnePublisher == \A p, q \in Publishers : p = q

Pieces == UNION {d.pieces : d \in Documents}

RowType == [status : {"NONE", "REGISTERED", "PARSED", "PUBLISHED", "SUPERSEDED"},
            error : BOOLEAN, chunks : SUBSET Pieces]

KnowledgeTypes ==
  /\ rows \in [Documents -> RowType]
  /\ DOMAIN publishing = Publishers
  /\ \A p \in Publishers : publishing[p].at = "commit" => publishing[p].doc \in Documents
  /\ ingest \in [Ingesters -> {NoIngestion} \cup
                   [at : {"read", "write", "raised"}, doc : Documents]]

\* Whatever may be read passed the gate that its publication read.
PublishedIsAllowed ==
  /\ \A d \in Documents : rows[d].status = "PUBLISHED" => d.licensed /\ d.authorized
  /\ \A p \in Publishers : publishing[p].at = "commit" =>
       publishing[p].doc.licensed /\ publishing[p].doc.authorized

\* A publication about to commit knows every version it has to retire.
PreviousIsKnown ==
  \A p \in Publishers : publishing[p].at = "commit" =>
    \A e \in Documents :
      /\ e # publishing[p].doc /\ SameSource(publishing[p].doc, e)
      /\ rows[e].status = "PUBLISHED"
      => e \in publishing[p].previous

KnowledgeInv ==
  KnowledgeTypes /\ PublishedIsAllowed /\ PreviousIsKnown /\ OneCurrentVersion

\* A reader's answer has a place.
AnswersPlaced ==
  DOMAIN answers = Readers /\ \A r \in Readers : "at" \in DOMAIN answers[r]

LEMMA PiecesOfDocument == \A d \in Documents : d.pieces \subseteq Pieces
BY DEF Pieces

LEMMA KnowledgeStart == KnowledgeInit => KnowledgeInv
BY DEF KnowledgeInit, KnowledgeInv, KnowledgeTypes, RowType, PublishedIsAllowed,
       PreviousIsKnown, OneCurrentVersion, Unregistered, NoPublication, NoIngestion

\* Nothing but a publication's commit publishes: other steps may take a
\* document out of circulation, or leave its status alone.
LEMMA Unpublishing ==
  ASSUME KnowledgeInv, KnowledgeTypes', UNCHANGED publishing,
         \A d \in Documents : rows'[d].status = "PUBLISHED" => rows[d].status = "PUBLISHED"
  PROVE  KnowledgeInv'
BY DEF KnowledgeInv, PublishedIsAllowed, PreviousIsKnown, OneCurrentVersion, SameSource

LEMMA IngestStep ==
  ASSUME KnowledgeInv, NEW i \in Ingesters,
         \/ \E d \in Documents : Register(i, d)
         \/ Read(i) \/ WriteChunks(i) \/ WriteRaises(i) \/ RecordFailure(i) \/ Die(i)
  PROVE  KnowledgeInv'
<1> USE DEF KnowledgeInv, KnowledgeTypes, RowType
<1>1. CASE \E d \in Documents : Register(i, d)
  <2>1. PICK d \in Documents : Register(i, d)
    BY <1>1
  <2>2. KnowledgeTypes'
    BY <2>1 DEF Register
  <2>3. \A e \in Documents : rows'[e].status = "PUBLISHED" => rows[e].status = "PUBLISHED"
    BY <2>1 DEF Register
  <2>4. QED
    BY <2>1, <2>2, <2>3, Unpublishing DEF Register
<1>2. CASE Read(i) \/ WriteRaises(i)
  <2>1. ingest[i] \in [at : {"read", "write", "raised"}, doc : Documents]
    BY <1>2 DEF Read, WriteRaises, NoIngestion
  <2>2. PICK place \in {"write", "raised"} : ingest' = [ingest EXCEPT ![i].at = place]
    BY <1>2 DEF Read, WriteRaises, Goto
  <2>3. KnowledgeTypes'
    BY <1>2, <2>1, <2>2 DEF Read, WriteRaises
  <2>4. QED
    BY <1>2, <2>3, Unpublishing DEF Read, WriteRaises
<1>3. CASE WriteChunks(i)
  <2>1. ingest[i] \in [at : {"read", "write", "raised"}, doc : Documents]
    BY <1>3 DEF WriteChunks, NoIngestion
  <2>2. rows' \in [Documents -> RowType]
    BY <1>3, <2>1, PiecesOfDocument DEF WriteChunks, ParsedRow
  <2>3. \A e \in Documents : rows'[e].status = "PUBLISHED" => rows[e].status = "PUBLISHED"
    BY <1>3, <2>1 DEF WriteChunks, ParsedRow
  <2>4. ingest' = [ingest EXCEPT ![i] = NoIngestion] \/ ingest' = [ingest EXCEPT ![i].at = "raised"]
    BY <1>3 DEF WriteChunks, Goto
  <2>5. KnowledgeTypes'
    BY <1>3, <2>1, <2>2, <2>4 DEF WriteChunks
  <2>6. QED
    BY <1>3, <2>5, <2>3, Unpublishing DEF WriteChunks
<1>4. CASE RecordFailure(i)
  <2>1. ingest[i].doc \in Documents
    BY <1>4 DEF RecordFailure, NoIngestion
  <2>2. KnowledgeTypes'
    <3>1. CASE rows' = [rows EXCEPT ![ingest[i].doc].error = TRUE]
      BY <1>4, <2>1, <3>1 DEF RecordFailure
    <3>2. CASE UNCHANGED rows
      BY <1>4, <3>2 DEF RecordFailure
    <3>3. QED
      BY <1>4, <3>1, <3>2 DEF RecordFailure
  <2>3. \A e \in Documents : rows'[e].status = "PUBLISHED" => rows[e].status = "PUBLISHED"
    BY <1>4, <2>1 DEF RecordFailure
  <2>4. QED
    BY <1>4, <2>2, <2>3, Unpublishing DEF RecordFailure
<1>5. CASE Die(i)
  BY <1>5, Unpublishing DEF Die, NoIngestion
<1>6. QED
  BY <1>1, <1>2, <1>3, <1>4, <1>5

LEMMA GateStep ==
  ASSUME KnowledgeInv, NEW p \in Publishers, NEW d \in Documents, CheckGate(p, d)
  PROVE  KnowledgeInv'
<1>1. KnowledgeTypes' /\ OneCurrentVersion'
  BY DEF CheckGate, KnowledgeInv, KnowledgeTypes, OneCurrentVersion, SameSource
<1>2. PublishedIsAllowed'
  BY DEF CheckGate, Publishable, KnowledgeInv, KnowledgeTypes, PublishedIsAllowed
<1>3. PreviousIsKnown'
  BY DEF CheckGate, Previous, KnowledgeInv, KnowledgeTypes, PreviousIsKnown, SameSource
<1>4. QED
  BY <1>1, <1>2, <1>3 DEF KnowledgeInv

\* The commit: what it retires is all that was published of the source, since
\* nobody else has published in between.
LEMMA CommitStep ==
  ASSUME KnowledgeInv, OnePublisher, NEW p \in Publishers, CommitPublication(p)
  PROVE  KnowledgeInv'
<1> DEFINE c == publishing[p]
<1>1. c.at = "commit" /\ c.doc \in Documents
  BY DEF CommitPublication, KnowledgeInv, KnowledgeTypes
<1>2. \A q \in Publishers : publishing'[q].at # "commit"
  BY DEF CommitPublication, OnePublisher, NoPublication, KnowledgeInv, KnowledgeTypes
<1>3. KnowledgeTypes'
  BY <1>1, <1>2 DEF CommitPublication, NoPublication, KnowledgeInv, KnowledgeTypes, RowType
<1>4. ASSUME NEW d \in Documents, rows'[d].status = "PUBLISHED"
      PROVE  d = c.doc \/ (rows[d].status = "PUBLISHED" /\ d \notin c.previous)
  BY <1>4 DEF CommitPublication, KnowledgeInv, KnowledgeTypes
<1>5. PublishedIsAllowed'
  BY <1>1, <1>2, <1>4 DEF KnowledgeInv, PublishedIsAllowed
<1>6. OneCurrentVersion'
  BY <1>1, <1>4 DEF KnowledgeInv, PreviousIsKnown, OneCurrentVersion, SameSource
<1>7. PreviousIsKnown'
  BY <1>2 DEF PreviousIsKnown
<1>8. QED
  BY <1>3, <1>5, <1>6, <1>7 DEF KnowledgeInv

LEMMA KnowledgeStep ==
  ASSUME KnowledgeInv, OnePublisher, [KnowledgeNext]_knowledgeVars
  PROVE  KnowledgeInv'
<1>1. CASE \E p \in Publishers : AbortPublication(p)
  BY <1>1
  DEF AbortPublication, NoPublication, KnowledgeInv, KnowledgeTypes,
      PublishedIsAllowed, PreviousIsKnown, OneCurrentVersion, SameSource
<1>2. CASE \E d \in Documents, piece \in UNION {e.pieces : e \in Documents} : DeleteChunk(d, piece)
  <2>1. PICK d \in Documents, piece \in Pieces : DeleteChunk(d, piece)
    BY <1>2 DEF Pieces
  <2>2. KnowledgeTypes'
    BY <2>1 DEF DeleteChunk, KnowledgeInv, KnowledgeTypes, RowType
  <2>3. \A e \in Documents : rows'[e].status = "PUBLISHED" => rows[e].status = "PUBLISHED"
    BY <2>1 DEF DeleteChunk, KnowledgeInv, KnowledgeTypes, RowType
  <2>4. QED
    BY <2>1, <2>2, <2>3, Unpublishing DEF DeleteChunk
<1>3. CASE \E r \in Readers : \/ \E w \in Workspaces : Retrieve(r, w)
                              \/ Cite(r) \/ Validate(r) \/ Close(r)
  BY <1>3, Unpublishing
  DEF Retrieve, Cite, Validate, Close, KnowledgeInv, KnowledgeTypes
<1>4. CASE UNCHANGED knowledgeVars
  BY <1>4, Unpublishing DEF knowledgeVars, KnowledgeInv, KnowledgeTypes
<1>5. QED
  BY <1>1, <1>2, <1>3, <1>4, IngestStep, GateStep, CommitStep DEF KnowledgeNext

LEMMA KnowledgeInvariant ==
  ASSUME OnePublisher
  PROVE  KnowledgeSpec => []KnowledgeInv
<1>1. KnowledgeInv /\ [KnowledgeNext]_knowledgeVars => KnowledgeInv'
  BY KnowledgeStep
<1>2. QED
  BY <1>1, KnowledgeStart, PTL DEF KnowledgeSpec

\* Publishing a version retires the one before: with one publisher, no source
\* ever has two published versions, whatever is registered, parsed, deleted or
\* fails between the publication's read and its commit.
THEOREM OnePublished ==
  ASSUME OnePublisher
  PROVE  KnowledgeSpec => []OneCurrentVersion
<1>1. KnowledgeInv => OneCurrentVersion
  BY DEF KnowledgeInv
<1>2. QED
  BY <1>1, KnowledgeInvariant, PTL

LEMMA AnswersPlacedStep ==
  ASSUME AnswersPlaced, [KnowledgeNext]_knowledgeVars
  PROVE  AnswersPlaced'
<1>1. CASE \E r \in Readers : \E w \in Workspaces : Retrieve(r, w)
  BY <1>1 DEF Retrieve, AnswersPlaced
<1>2. CASE \E r \in Readers : Cite(r)
  BY <1>2 DEF Cite, AnswersPlaced
<1>3. CASE \E r \in Readers : Validate(r)
  BY <1>3 DEF Validate, NoDraft, AnswersPlaced
<1>4. CASE \E r \in Readers : Close(r)
  BY <1>4 DEF Close, NoDraft, AnswersPlaced
<1>5. CASE UNCHANGED answers
  BY <1>5 DEF AnswersPlaced
<1>6. QED
  BY <1>1, <1>2, <1>3, <1>4, <1>5
  DEF KnowledgeNext, knowledgeVars, Register, Read, WriteChunks, WriteRaises,
      RecordFailure, Die, CheckGate, CommitPublication, AbortPublication, DeleteChunk

\* An answer is accepted by the validator only.
LEMMA AcceptedByValidator ==
  ASSUME AnswersPlaced, [KnowledgeNext]_knowledgeVars, NEW r \in Readers,
         answers[r].at # "accepted", answers'[r].at = "accepted"
  PROVE  \A c \in answers[r].cited : Valid(c, answers[r].workspace)
<1>1. CASE \E q \in Readers : \E w \in Workspaces : Retrieve(q, w)
  BY <1>1 DEF Retrieve, AnswersPlaced
<1>2. CASE \E q \in Readers : Cite(q)
  BY <1>2 DEF Cite, AnswersPlaced
<1>3. CASE \E q \in Readers : Validate(q)
  BY <1>3 DEF Validate, NoDraft, AnswersPlaced
<1>4. CASE \E q \in Readers : Close(q)
  BY <1>4 DEF Close, NoDraft, AnswersPlaced
<1>5. CASE UNCHANGED answers
  BY <1>5
<1>6. QED
  BY <1>1, <1>2, <1>3, <1>4, <1>5
  DEF KnowledgeNext, knowledgeVars, Register, Read, WriteChunks, WriteRaises,
      RecordFailure, Die, CheckGate, CommitPublication, AbortPublication, DeleteChunk

\* With one publisher, and whatever is published, retired or deleted between the
\* search and the validation, an answer that is accepted cites only what is there,
\* of its workspace, licensed, authorized and of the version that is current.
THEOREM CitationsAreCurrent ==
  ASSUME OnePublisher
  PROVE  KnowledgeSpec => CitesCurrent
<1> DEFINE Sound(r) ==
      answers[r].at # "accepted" /\ answers'[r].at = "accepted" =>
        \A c \in answers[r].cited :
          /\ c.piece \in rows[c.doc].chunks /\ c.doc.workspace = answers[r].workspace
          /\ c.doc.licensed /\ c.doc.authorized
          /\ rows[c.doc].status = "PUBLISHED"
          /\ \A e \in Documents : SameSource(e, c.doc) /\ e # c.doc =>
                                    rows[e].status # "PUBLISHED"
<1>1. ASSUME KnowledgeInv, AnswersPlaced, [KnowledgeNext]_knowledgeVars
      PROVE  \A r \in Readers : Sound(r)
  <2>1. ASSUME NEW r \in Readers, NEW c \in answers[r].cited,
               answers[r].at # "accepted", answers'[r].at = "accepted"
        PROVE  /\ c.piece \in rows[c.doc].chunks /\ c.doc.workspace = answers[r].workspace
               /\ c.doc.licensed /\ c.doc.authorized
               /\ rows[c.doc].status = "PUBLISHED"
               /\ \A e \in Documents : SameSource(e, c.doc) /\ e # c.doc =>
                                         rows[e].status # "PUBLISHED"
    <3>1. Valid(c, answers[r].workspace)
      BY <1>1, <2>1, AcceptedByValidator
    <3>2. QED
      BY <1>1, <3>1 DEF Valid, KnowledgeInv, PublishedIsAllowed, OneCurrentVersion
  <2>2. QED
    BY <2>1
<1>2. KnowledgeInit => AnswersPlaced
  BY DEF KnowledgeInit, NoDraft, AnswersPlaced
<1>3. KnowledgeInv /\ AnswersPlaced /\ [KnowledgeNext]_knowledgeVars
        => [\A r \in Readers : Sound(r)]_knowledgeVars
  BY <1>1
<1>4. QED
  BY <1>2, <1>3, AnswersPlacedStep, KnowledgeInvariant, PTL DEF KnowledgeSpec, CitesCurrent

-----------------------------------------------------------------------------
(* The text of a document                                                  *)

Names == STRING \cup {Fallback}
WindowType == [section : Nat \ {0}, first : Int, last : Int]
SectionType == [page : Nat \ {0}, heading : Seq(Names), lines : Seq(LineType), tokens : Nat]

Greatest(js) == IF js = {} THEN 0 ELSE CHOOSE j \in js : \A i \in js : i <= j
HeadingsBefore(lines, k) == {j \in 1 .. k - 1 : lines[j].kind # "text"}
HashesBefore(lines, k, level) ==
  {j \in 1 .. k - 1 : lines[j].kind = "hash" /\ lines[j].level <= level}

\* The heading of a level that is open above a line, and the whole path.
OpenAt(lines, k, level) ==
  LET a == Greatest(HashesBefore(lines, k, level))
  IN IF a > 0 /\ lines[a].level = level THEN lines[a].text ELSE Fallback
PathAt(lines, j) ==
  IF j = 0 THEN <<Fallback>>
  ELSE IF lines[j].kind = "numbered" THEN <<lines[j].text>>
  ELSE Append([level \in 1 .. lines[j].level - 1 |-> OpenAt(lines, j, level)], lines[j].text)

StandsUnder(lines, l, path) ==
  \E k \in DOMAIN lines : lines[k] = l /\ HeadingAbove(lines, k) = path

LEMMA LineFacts ==
  ASSUME NEW l \in LineType
  PROVE  /\ l.kind \in {"text", "hash", "numbered"} /\ l.tokens \in Nat /\ l.text \in STRING
         /\ l.level \in Nat
         /\ l.kind = "hash" => l.level >= 1
BY DEF LineType

LEMMA AboveIsPath ==
  ASSUME NEW lines, NEW k \in Nat
  PROVE  HeadingAbove(lines, k) = PathAt(lines, Greatest(HeadingsBefore(lines, k)))
BY DEF HeadingAbove, Nearest, PathAt, OpenAt, Greatest, HeadingsBefore, HashesBefore

\* A number above all others of a set is its greatest.
LEMMA GreatestAdded ==
  ASSUME NEW n \in Nat \ {0}, NEW js \in SUBSET (1 .. n - 1)
  PROVE  Greatest(js \cup {n}) = n
<1>1. /\ n \in js \cup {n} /\ \A i \in js \cup {n} : i <= n
      /\ js \cup {n} # {}
  OBVIOUS
<1>2. \A m \in js \cup {n} : (\A i \in js \cup {n} : i <= m) => m = n
  OBVIOUS
<1>3. QED
  BY <1>1, <1>2 DEF Greatest

\* What is above the next line: this one too, where it is a heading.
LEMMA NextLine ==
  ASSUME NEW lines \in Seq(LineType), NEW k \in DOMAIN lines
  PROVE  /\ lines[k].kind = "text" => HeadingAbove(lines, k + 1) = HeadingAbove(lines, k)
         /\ lines[k].kind = "numbered" => HeadingAbove(lines, k + 1) = <<lines[k].text>>
         /\ lines[k].kind = "hash" =>
              HeadingAbove(lines, k + 1) =
                Append([level \in 1 .. lines[k].level - 1 |-> OpenAt(lines, k, level)],
                       lines[k].text)
         /\ \A level \in Nat :
              OpenAt(lines, k + 1, level) =
                IF lines[k].kind # "hash" \/ lines[k].level > level THEN OpenAt(lines, k, level)
                ELSE IF lines[k].level = level THEN lines[k].text ELSE Fallback
<1>1. k \in Nat \ {0} /\ k + 1 \in Nat /\ lines[k] \in LineType
  OBVIOUS
<1>2. /\ lines[k].kind \in {"text", "hash", "numbered"} /\ lines[k].level \in Nat
  BY <1>1, LineFacts
<1>3. /\ HeadingAbove(lines, k) = PathAt(lines, Greatest(HeadingsBefore(lines, k)))
      /\ HeadingAbove(lines, k + 1) = PathAt(lines, Greatest(HeadingsBefore(lines, k + 1)))
  BY <1>1, AboveIsPath
<1>4. CASE lines[k].kind = "text"
  <2>1. HeadingsBefore(lines, k + 1) = HeadingsBefore(lines, k)
    BY <1>1, <1>4 DEF HeadingsBefore
  <2>2. ASSUME NEW level \in Nat
        PROVE  HashesBefore(lines, k + 1, level) = HashesBefore(lines, k, level)
    BY <1>1, <1>4 DEF HashesBefore
  <2>3. QED
    BY <1>3, <1>4, <2>1, <2>2 DEF OpenAt
<1>5. ASSUME lines[k].kind # "text"
      PROVE  HeadingAbove(lines, k + 1) = PathAt(lines, k)
  <2>1. HeadingsBefore(lines, k + 1) = HeadingsBefore(lines, k) \cup {k}
    BY <1>1, <1>5 DEF HeadingsBefore
  <2>2. HeadingsBefore(lines, k) \in SUBSET (1 .. k - 1)
    BY DEF HeadingsBefore
  <2>3. Greatest(HeadingsBefore(lines, k + 1)) = k
    BY <1>1, <2>1, <2>2, GreatestAdded
  <2>4. QED
    BY <1>3, <2>3
<1>6. CASE lines[k].kind = "numbered"
  <2>1. ASSUME NEW level \in Nat
        PROVE  HashesBefore(lines, k + 1, level) = HashesBefore(lines, k, level)
    BY <1>1, <1>6 DEF HashesBefore
  <2>2. QED
    BY <1>1, <1>5, <1>6, <2>1 DEF OpenAt, PathAt
<1>7. CASE lines[k].kind = "hash"
  <2>1. ASSUME NEW level \in Nat
        PROVE  OpenAt(lines, k + 1, level) =
                 IF lines[k].level > level THEN OpenAt(lines, k, level)
                 ELSE IF lines[k].level = level THEN lines[k].text ELSE Fallback
    <3>1. CASE lines[k].level > level
      <4>1. HashesBefore(lines, k + 1, level) = HashesBefore(lines, k, level)
        BY <1>1, <1>2, <3>1 DEF HashesBefore
      <4>2. QED
        BY <3>1, <4>1 DEF OpenAt
    <3>2. CASE ~(lines[k].level > level)
      <4>1. HashesBefore(lines, k + 1, level) = HashesBefore(lines, k, level) \cup {k}
        BY <1>1, <1>2, <1>7, <3>2 DEF HashesBefore
      <4>2. HashesBefore(lines, k, level) \in SUBSET (1 .. k - 1)
        BY DEF HashesBefore
      <4>3. Greatest(HashesBefore(lines, k + 1, level)) = k
        BY <1>1, <4>1, <4>2, GreatestAdded
      <4>4. QED
        BY <1>1, <1>2, <3>2, <4>3 DEF OpenAt
    <3>3. QED
      BY <3>1, <3>2
  <2>2. PathAt(lines, k) =
          Append([level \in 1 .. lines[k].level - 1 |-> OpenAt(lines, k, level)], lines[k].text)
    BY <1>1, <1>7 DEF PathAt
  <2>3. QED
    BY <1>5, <1>7, <2>1, <2>2
<1>8. QED
  BY <1>2, <1>4, <1>6, <1>7

\* Nothing is above the first line.
LEMMA FirstLine ==
  ASSUME NEW lines
  PROVE  /\ HeadingAbove(lines, 1) = <<Fallback>>
         /\ \A level \in Nat : OpenAt(lines, 1, level) = Fallback
<1>1. HeadingAbove(lines, 1) = PathAt(lines, Greatest(HeadingsBefore(lines, 1)))
  BY AboveIsPath
<1>2. HeadingsBefore(lines, 1) = {} /\ \A level \in Nat : HashesBefore(lines, 1, level) = {}
  BY DEF HeadingsBefore, HashesBefore
<1>3. QED
  BY <1>1, <1>2 DEF OpenAt, PathAt, Greatest

\* Taking the margins away leaves lines.
LEMMA BodyIsLines ==
  ASSUME NEW lines \in Seq(LineType)
  PROVE  Body(lines) \in Seq(LineType)
<1>1. lines # <<>> => Tail(lines) \in Seq(LineType)
  OBVIOUS
<1>2. ASSUME NEW tail \in Seq(LineType), tail # <<>>
      PROVE  Front(tail) \in Seq(LineType)
  BY <1>2 DEF Front
<1>3. QED
  BY <1>1, <1>2 DEF Body

\* The stack holds the headings that are open above a line.
StackFollows ==
  \A level \in Nat \ {0} :
    OpenAt(Lines, line, level) = IF level <= Len(stack) THEN stack[level] ELSE Fallback

Reading ==
  /\ page <= Len(document.pages) /\ line <= Len(Lines) + 1
  /\ StackFollows /\ heading = HeadingAbove(Lines, line)
  /\ \A l \in DOMAIN buffer : StandsUnder(Lines, buffer[l], heading)

Enclosed(section_) ==
  \A l \in DOMAIN section_.lines :
    StandsUnder(Body(document.pages[section_.page]), section_.lines[l], section_.heading)
SectionsEnclose == \A s \in DOMAIN sections : Enclosed(sections[s])

ParserTypes ==
  /\ document \in Uploads /\ page \in Nat \ {0} /\ line \in Nat \ {0}
  /\ parsing \in {"page", "line", "cut", "done", "failed"}
  /\ stack \in Seq(Names) /\ heading \in Seq(Names)
  /\ buffer \in Seq(LineType) /\ tokens \in Nat /\ sections \in Seq(SectionType)

\* Of a section that is being cut, what the last window leaves.
CutTypes ==
  /\ section \in Nat \ {0} /\ start \in Int
  /\ windows \in Seq(WindowType)
  /\ parsing \notin {"cut", "done"} =>
       /\ section = 1 /\ start = 0 /\ windows = <<>>

CutInv ==
  /\ section <= Len(sections) + 1
  /\ \A k \in DOMAIN windows : windows[k].section <= section
  /\ IF windows # <<>> /\ Last(windows).section = section
     THEN /\ start = Last(windows).last - Overlap
          /\ section <= Len(sections) /\ Last(windows).last < Size(section)
     ELSE start = 0

TextInv ==
  /\ ParserTypes /\ (parsing = "line" => Reading) /\ SectionsEnclose
  /\ CutTypes /\ CutInv /\ WindowsCover

LEMMA TextStart == TextInit => TextInv
<1> SUFFICES ASSUME TextInit PROVE TextInv
  OBVIOUS
<1>1. ParserTypes
  <2>1. stack \in Seq(Names) /\ buffer \in Seq(LineType) /\ sections \in Seq(SectionType)
    BY DEF TextInit
  <2>2. heading \in Seq(Names)
    BY DEF TextInit, Names
  <2>3. QED
    BY <2>1, <2>2 DEF TextInit, ParserTypes
<1>2. parsing # "line" /\ SectionsEnclose
  BY DEF TextInit, SectionsEnclose
<1>3. CutTypes
  BY DEF TextInit, CutTypes
<1>4. CutInv /\ WindowsCover
  BY DEF TextInit, CutInv, WindowsCover
<1>5. QED
  BY <1>1, <1>2, <1>3, <1>4 DEF TextInv

LEMMA LinesAreLines ==
  ASSUME ParserTypes, page <= Len(document.pages)
  PROVE  Lines \in Seq(LineType)
<1>1. document.pages \in Seq(Seq(LineType)) /\ page \in 1 .. Len(document.pages)
  BY TextAssumption DEF ParserTypes
<1>2. document.pages[page] \in Seq(LineType)
  BY <1>1
<1>3. QED
  BY <1>2, BodyIsLines DEF Lines

\* Until the text is cut there are no windows.
LEMMA NoWindows ==
  ASSUME CutTypes, parsing \notin {"cut", "done"}, ParserTypes',
         UNCHANGED <<section, start, windows>>
  PROVE  CutTypes' /\ CutInv' /\ WindowsCover'
<1>1. section = 1 /\ start = 0 /\ windows = <<>>
  BY DEF CutTypes
<1>2. section' = 1 /\ start' = 0 /\ windows' = <<>>
  BY <1>1
<1>3. CutTypes'
  BY <1>2 DEF CutTypes
<1>4. CutInv'
  BY <1>2 DEF CutInv, ParserTypes
<1>5. WindowsCover'
  BY <1>2 DEF WindowsCover
<1>6. QED
  BY <1>3, <1>4, <1>5

\* What a section was cut from does not change.
LEMMA EnclosedStay ==
  ASSUME document' = document, NEW ss, sections' = ss, \A s \in DOMAIN ss : Enclosed(ss[s])
  PROVE  SectionsEnclose'
<1>1. Headers' = Headers /\ Footers' = Footers
  BY DEF Headers, Footers, Written
<1>2. ASSUME NEW x, Enclosed(x)
      PROVE  Enclosed(x)'
  <2>1. document.pages[x.page]' = document.pages[x.page]
    OBVIOUS
  <2>2. Body(document.pages[x.page])' = Body(document.pages[x.page])
    BY <1>1, <2>1 DEF Body, Repeats
  <2>3. QED
    BY <1>2, <2>2 DEF Enclosed
<1>3. \A s \in DOMAIN ss : Enclosed(ss[s])'
  BY <1>2
<1>4. QED
  BY <1>3 DEF SectionsEnclose, Enclosed

\* A section that is flushed takes its lines and their path along.
LEMMA FlushKeeps ==
  ASSUME ParserTypes, Reading, SectionsEnclose, sections' = Flushed, document' = document
  PROVE  sections' \in Seq(SectionType) /\ SectionsEnclose'
<1> DEFINE new == [page |-> page, heading |-> heading, lines |-> buffer, tokens |-> tokens]
<1>1. new \in SectionType
  BY DEF ParserTypes, SectionType
<1>2. Enclosed(new)
  BY DEF Reading, Enclosed, Lines
<1>3. sections \in Seq(SectionType) /\ \A s \in DOMAIN sections : Enclosed(sections[s])
  BY DEF ParserTypes, SectionsEnclose
<1> HIDE DEF new
<1>4. CASE sections' = sections
  BY <1>3, <1>4, EnclosedStay
<1>5. CASE sections' = Append(sections, new)
  <2>1. Append(sections, new) \in Seq(SectionType)
    BY <1>1, <1>3
  <2>2. ASSUME NEW s \in DOMAIN Append(sections, new)
        PROVE  Enclosed(Append(sections, new)[s])
    <3>1. CASE s = Len(sections) + 1
      BY <1>2, <1>3, <3>1
    <3>2. CASE s # Len(sections) + 1
      <4>1. s \in DOMAIN sections /\ Append(sections, new)[s] = sections[s]
        BY <1>3, <3>2
      <4>2. QED
        BY <1>3, <4>1
    <3>3. QED
      BY <3>1, <3>2
  <2>3. QED
    BY <1>5, <2>1, <2>2, EnclosedStay
<1>6. QED
  BY <1>4, <1>5 DEF Flushed, new

\* A page that is opened has nothing above its first line.
LEMMA OpenPageStep == TextInv /\ OpenPage => TextInv'
<1> SUFFICES ASSUME TextInv, OpenPage PROVE TextInv'
  OBVIOUS
<1>1. /\ ParserTypes /\ SectionsEnclose /\ CutTypes
      /\ parsing = "page" /\ page <= Len(document.pages)
  BY DEF TextInv, OpenPage
<1>2. ParserTypes'
  <2>1. heading' = <<Fallback>> /\ <<Fallback>> \in Seq(Names)
    BY DEF OpenPage, Names
  <2>2. stack' = <<>> /\ buffer' = <<>> /\ stack' \in Seq(Names) /\ buffer' \in Seq(LineType)
    BY DEF OpenPage
  <2>3. QED
    BY <1>1, <2>1, <2>2 DEF OpenPage, ParserTypes
<1>3. parsing' \notin {"cut", "done"} /\ UNCHANGED <<section, start, windows>>
  BY DEF OpenPage
<1>4. CutTypes' /\ CutInv' /\ WindowsCover'
  BY <1>1, <1>2, <1>3, NoWindows
<1>5. SectionsEnclose'
  BY <1>1, EnclosedStay DEF OpenPage, SectionsEnclose
<1>6. Reading'
  <2>1. /\ page' <= Len(document.pages') /\ line' = 1 /\ stack' = <<>> /\ buffer' = <<>>
        /\ heading' = <<Fallback>> /\ document' = document /\ page' = page
    BY <1>1 DEF OpenPage
  <2>2. Lines' = Lines
    BY <2>1 DEF Lines, Body, Repeats, Headers, Footers, Written
  <2>3. Lines \in Seq(LineType)
    BY <1>1, LinesAreLines
  <2>4. /\ HeadingAbove(Lines, 1) = <<Fallback>>
        /\ \A level \in Nat : OpenAt(Lines, 1, level) = Fallback
    BY FirstLine
  <2>5. heading' = HeadingAbove(Lines', line') /\ line' <= Len(Lines') + 1
    BY <2>1, <2>2, <2>3, <2>4
  <2>6. StackFollows'
    BY <2>1, <2>2, <2>4 DEF StackFollows
  <2>7. QED
    BY <2>1, <2>5, <2>6 DEF Reading
<1>7. QED
  BY <1>2, <1>4, <1>5, <1>6 DEF TextInv

\* A line: a hash heading takes the place of those it ends, a numbered one
\* leaves the stack alone, and a text line stands under the path.
LEMMA ReadLineStep == TextInv /\ ReadLine => TextInv'
<1> SUFFICES ASSUME TextInv, ReadLine PROVE TextInv'
  OBVIOUS
<1>1. /\ ParserTypes /\ SectionsEnclose /\ CutTypes /\ Reading
      /\ parsing = "line" /\ parsing' = parsing /\ line <= Len(Lines) /\ line' = line + 1
      /\ document' = document /\ page' = page
      /\ UNCHANGED <<section, start, windows>>
  BY DEF TextInv, ReadLine
<1>2. /\ Lines \in Seq(LineType) /\ page <= Len(document.pages)
      /\ line \in Nat \ {0} /\ line \in DOMAIN Lines
  <2>1. Lines \in Seq(LineType)
    BY <1>1, LinesAreLines DEF Reading
  <2>2. QED
    BY <1>1, <2>1 DEF ParserTypes, Reading
<1>3. Current \in LineType /\ Current = Lines[line]
  BY <1>2 DEF Current
<1>4. /\ Current.text \in STRING /\ Current.tokens \in Nat /\ Current.level \in Nat
      /\ Current.kind = "hash" => Current.level >= 1
  BY <1>3, LineFacts
<1>5. Lines' = Lines
  BY <1>1 DEF Lines, Body, Repeats, Headers, Footers, Written
<1>6. /\ stack \in Seq(Names) /\ heading \in Seq(Names) /\ buffer \in Seq(LineType)
      /\ tokens \in Nat /\ Current.text \in Names
  BY <1>1, <1>4 DEF ParserTypes, Names
<1>7. \A level \in Nat \ {0} :
        OpenAt(Lines, line, level) = IF level <= Len(stack) THEN stack[level] ELSE Fallback
  BY <1>1 DEF Reading, StackFollows
<1>8. /\ stack' \in Seq(Names) /\ heading' \in Seq(Names) /\ buffer' \in Seq(LineType)
      /\ tokens' \in Nat /\ sections' \in Seq(SectionType) /\ SectionsEnclose'
      /\ \A level \in Nat \ {0} :
           OpenAt(Lines, line + 1, level) =
             IF level <= Len(stack') THEN stack'[level] ELSE Fallback
      /\ heading' = HeadingAbove(Lines, line + 1)
      /\ \A l \in DOMAIN buffer' : StandsUnder(Lines, buffer'[l], heading')
  <2>1. CASE HashHeading
    <3>1. /\ Current.kind = "hash" /\ stack' = Append(Enclosing(Current.level), Current.text)
          /\ heading' = stack' /\ sections' = Flushed /\ buffer' = <<>> /\ tokens' = 0
      BY <2>1 DEF HashHeading
    <3>2. PICK n \in Nat : n = Current.level /\ n >= 1
      BY <1>4, <3>1
    <3>3. Enclosing(n) = [level \in 1 .. n - 1 |-> OpenAt(Lines, line, level)]
      BY <1>7, <3>2 DEF Enclosing
    <3>4. Enclosing(n) \in Seq(Names) /\ Len(Enclosing(n)) = n - 1
      <4>1. \A k \in 1 .. n - 1 : Enclosing(n)[k] \in Names
        BY <1>6, <3>2 DEF Enclosing, Names
      <4>2. Enclosing(n) \in [1 .. n - 1 -> Names]
        BY <4>1 DEF Enclosing
      <4>3. n - 1 \in Nat
        BY <3>2
      <4>4. QED
        BY <4>2, <4>3
    <3>5. /\ stack' \in Seq(Names) /\ Len(stack') = n /\ stack'[n] = Current.text
          /\ \A k \in 1 .. n - 1 : stack'[k] = Enclosing(n)[k]
      BY <1>6, <3>1, <3>2, <3>4
    <3>6. ASSUME NEW level \in Nat \ {0}
          PROVE  OpenAt(Lines, line + 1, level) =
                   IF level <= Len(stack') THEN stack'[level] ELSE Fallback
      <4>1. OpenAt(Lines, line + 1, level) =
              IF n > level THEN OpenAt(Lines, line, level)
              ELSE IF n = level THEN Current.text ELSE Fallback
        BY <1>2, <1>3, <3>1, <3>2, NextLine
      <4>2. CASE n > level
        <5>1. level \in 1 .. n - 1
          BY <3>2, <4>2
        <5>2. /\ stack'[level] = Enclosing(n)[level]
              /\ Enclosing(n)[level] = OpenAt(Lines, line, level)
          BY <3>3, <3>5, <5>1
        <5>3. QED
          BY <3>2, <3>5, <4>1, <4>2, <5>2
      <4>3. CASE ~(n > level)
        BY <3>2, <3>5, <4>1, <4>3
      <4>4. QED
        BY <4>2, <4>3
    <3>7. heading' = HeadingAbove(Lines, line + 1)
      <4>1. HeadingAbove(Lines, line + 1) =
              Append([level \in 1 .. n - 1 |-> OpenAt(Lines, line, level)], Current.text)
        BY <1>2, <1>3, <3>1, <3>2, NextLine
      <4>2. QED
        BY <3>1, <3>2, <3>3, <4>1
    <3>8. sections' \in Seq(SectionType) /\ SectionsEnclose'
      BY <1>1, <3>1, FlushKeeps
    <3>9. QED
      BY <3>1, <3>5, <3>6, <3>7, <3>8
  <2>2. CASE NumberedHeading
    <3>1. /\ Current.kind = "numbered" /\ stack' = stack /\ heading' = <<Current.text>>
          /\ sections' = Flushed /\ buffer' = <<>> /\ tokens' = 0
      BY <2>2 DEF NumberedHeading
    <3>2. sections' \in Seq(SectionType) /\ SectionsEnclose'
      BY <1>1, <3>1, FlushKeeps
    <3>3. /\ heading' = HeadingAbove(Lines, line + 1)
          /\ \A level \in Nat : OpenAt(Lines, line + 1, level) = OpenAt(Lines, line, level)
      BY <1>2, <1>3, <3>1, NextLine
    <3>4. <<Current.text>> \in Seq(Names)
      BY <1>6
    <3>5. QED
      BY <1>6, <1>7, <3>1, <3>2, <3>3, <3>4
  <2>3. CASE TextLine
    <3>1. /\ Current.kind = "text" /\ stack' = stack /\ heading' = heading
          /\ sections' = sections /\ buffer' = Append(buffer, Current)
          /\ tokens' = tokens + Current.tokens
      BY <2>3 DEF TextLine
    <3>2. sections' \in Seq(SectionType) /\ SectionsEnclose'
      BY <1>1, <3>1, EnclosedStay DEF ParserTypes, SectionsEnclose
    <3>3. /\ HeadingAbove(Lines, line + 1) = heading
          /\ \A level \in Nat : OpenAt(Lines, line + 1, level) = OpenAt(Lines, line, level)
      BY <1>1, <1>2, <1>3, <3>1, NextLine DEF Reading
    <3>4. ASSUME NEW l \in DOMAIN buffer'
          PROVE  StandsUnder(Lines, buffer'[l], heading')
      <4>1. CASE l = Len(buffer) + 1
        <5>1. buffer'[l] = Lines[line] /\ HeadingAbove(Lines, line) = heading'
          BY <1>1, <1>3, <1>6, <3>1, <4>1 DEF Reading
        <5>2. QED
          BY <1>2, <5>1 DEF StandsUnder
      <4>2. CASE l # Len(buffer) + 1
        <5>1. l \in DOMAIN buffer /\ buffer'[l] = buffer[l]
          BY <1>3, <1>6, <3>1, <4>2
        <5>2. QED
          BY <1>1, <3>1, <5>1 DEF Reading
      <4>3. QED
        BY <4>1, <4>2
    <3>5. buffer' \in Seq(LineType) /\ tokens' \in Nat
      BY <1>3, <1>4, <1>6, <3>1
    <3>6. QED
      BY <1>6, <1>7, <3>1, <3>2, <3>3, <3>4, <3>5
  <2>4. QED
    BY <2>1, <2>2, <2>3 DEF ReadLine
<1>9. ParserTypes'
  BY <1>1, <1>2, <1>8 DEF ParserTypes
<1>10. CutTypes' /\ CutInv' /\ WindowsCover'
  <2>1. parsing \notin {"cut", "done"}
    BY <1>1
  <2>2. QED
    BY <1>1, <1>9, <2>1, NoWindows
<1>11. Reading'
  <2>1. page' <= Len(document.pages') /\ line' <= Len(Lines') + 1
    BY <1>1, <1>2, <1>5
  <2>2. StackFollows'
    BY <1>1, <1>5, <1>8 DEF StackFollows
  <2>3. heading' = HeadingAbove(Lines', line')
    BY <1>1, <1>5, <1>8
  <2>4. \A l \in DOMAIN buffer' : StandsUnder(Lines', buffer'[l], heading')
    BY <1>5, <1>8
  <2>5. QED
    BY <2>1, <2>2, <2>3, <2>4 DEF Reading
<1>12. QED
  BY <1>8, <1>9, <1>10, <1>11 DEF TextInv

LEMMA ClosePageStep == TextInv /\ ClosePage => TextInv'
<1> SUFFICES ASSUME TextInv, ClosePage PROVE TextInv'
  OBVIOUS
<1>1. /\ ParserTypes /\ SectionsEnclose /\ CutTypes /\ Reading
      /\ parsing = "line" /\ parsing' = "page" /\ document' = document /\ page' = page + 1
      /\ sections' = Flushed /\ buffer' = <<>> /\ tokens' = 0
      /\ UNCHANGED <<line, stack, heading>> /\ UNCHANGED <<section, start, windows>>
  BY DEF TextInv, ClosePage
<1>2. sections' \in Seq(SectionType) /\ SectionsEnclose'
  BY <1>1, FlushKeeps
<1>3. ParserTypes'
  BY <1>1, <1>2 DEF ParserTypes
<1>4. CutTypes' /\ CutInv' /\ WindowsCover'
  <2>1. parsing \notin {"cut", "done"}
    BY <1>1
  <2>2. QED
    BY <1>1, <1>3, <2>1, NoWindows
<1>5. QED
  BY <1>1, <1>2, <1>3, <1>4 DEF TextInv

\* The end of the text, or of the parser: nothing was cut yet.
LEMMA LastPageStep == TextInv /\ (LastPage \/ Unreadable) => TextInv'
<1> SUFFICES ASSUME TextInv, LastPage \/ Unreadable PROVE TextInv'
  OBVIOUS
<1>1. /\ ParserTypes /\ SectionsEnclose /\ CutTypes
      /\ parsing = "page" /\ parsing' \in {"failed", "cut"} /\ document' = document
      /\ UNCHANGED <<page, line, stack, heading, buffer, tokens, sections>>
      /\ UNCHANGED <<section, start, windows>>
  BY DEF TextInv, LastPage, Unreadable
<1>2. ParserTypes'
  BY <1>1 DEF ParserTypes
<1>3. SectionsEnclose'
  BY <1>1, EnclosedStay DEF SectionsEnclose
<1>4. CutTypes' /\ CutInv' /\ WindowsCover'
  <2>1. parsing \notin {"cut", "done"}
    BY <1>1
  <2>2. QED
    BY <1>1, <1>2, <2>1, NoWindows
<1>5. QED
  BY <1>1, <1>2, <1>3, <1>4 DEF TextInv

\* The chunker leaves what was parsed alone.
LEMMA CutsOnly ==
  ASSUME TextInv, parsing = "cut", parsing' \in {"cut", "done"},
         UNCHANGED <<document, page, line, stack, heading, buffer, tokens, sections>>
  PROVE  ParserTypes' /\ SectionsEnclose' /\ parsing' # "line"
<1>1. ParserTypes'
  BY DEF TextInv, ParserTypes
<1>2. SectionsEnclose'
  BY EnclosedStay DEF TextInv, SectionsEnclose
<1>3. QED
  BY <1>1, <1>2

LEMMA SkipSectionStep == TextInv /\ SkipSection => TextInv'
<1> SUFFICES ASSUME TextInv, SkipSection PROVE TextInv'
  OBVIOUS
<1>1. /\ ParserTypes /\ CutTypes /\ CutInv /\ WindowsCover
      /\ parsing = "cut" /\ parsing' = parsing /\ section <= Len(sections) /\ Size(section) = 0
      /\ section' = section + 1 /\ start' = 0 /\ windows' = windows /\ sections' = sections
  BY DEF TextInv, SkipSection
<1>2. ParserTypes' /\ SectionsEnclose' /\ parsing' # "line"
  BY <1>1, CutsOnly DEF SkipSection
<1>3. /\ section \in Nat \ {0} /\ windows \in Seq(WindowType)
      /\ sections \in Seq(SectionType)
  BY <1>1 DEF CutTypes, ParserTypes
<1>4. CutTypes'
  BY <1>1, <1>3 DEF CutTypes
<1>5. CutInv'
  <2>1. ASSUME NEW k \in DOMAIN windows
        PROVE  windows[k].section < section' /\ windows[k].section <= section'
    <3>1. windows[k].section \in Nat
      <4>1. windows[k] \in WindowType
        BY <1>3
      <4>2. QED
        BY <4>1 DEF WindowType
    <3>2. windows[k].section <= section
      BY <1>1 DEF CutInv
    <3>3. QED
      BY <1>1, <1>3, <3>1, <3>2
  <2>2. ~(windows' # <<>> /\ Last(windows').section = section')
    BY <1>1, <1>3, <2>1 DEF Last
  <2>3. section' <= Len(sections') + 1 /\ \A k \in DOMAIN windows' : windows'[k].section <= section'
    <3>1. Len(sections) \in Nat
      BY <1>3
    <3>2. QED
      BY <1>1, <1>3, <2>1, <3>1
  <2>4. QED
    BY <1>1, <2>2, <2>3 DEF CutInv
<1>6. WindowsCover'
  <2>1. \A s \in 1 .. section' - 1 : s \in 1 .. section - 1 \/ Size(s) = 0
    BY <1>1, <1>3
  <2>2. QED
    BY <1>1, <2>1 DEF WindowsCover, Size
<1>7. QED
  BY <1>2, <1>4, <1>5, <1>6 DEF TextInv

LEMMA FinishStep == TextInv /\ Finish => TextInv'
<1> SUFFICES ASSUME TextInv, Finish PROVE TextInv'
  OBVIOUS
<1>1. /\ CutTypes /\ CutInv /\ WindowsCover
      /\ parsing = "cut" /\ parsing' = "done"
      /\ section' = section /\ start' = start /\ windows' = windows /\ sections' = sections
  BY DEF TextInv, Finish
<1>2. ParserTypes' /\ SectionsEnclose' /\ parsing' # "line"
  BY <1>1, CutsOnly DEF Finish
<1>3. CutTypes' /\ CutInv' /\ WindowsCover'
  BY <1>1 DEF CutTypes, CutInv, WindowsCover, Size
<1>4. QED
  BY <1>2, <1>3 DEF TextInv

\* A window starts where the one before it left the overlap, and ends later.
LEMMA CutWindowStep == TextInv /\ CutWindow => TextInv'
<1> SUFFICES ASSUME TextInv, CutWindow PROVE TextInv'
  OBVIOUS
<1> DEFINE new == [section |-> section, first |-> start + 1, last |-> LastToken]
<1>1. /\ ParserTypes /\ CutTypes /\ CutInv /\ WindowsCover
      /\ parsing = "cut" /\ parsing' = parsing /\ section <= Len(sections) /\ Size(section) > 0
      /\ windows' = Append(windows, new) /\ sections' = sections
      /\ IF EndsSection THEN section' = section + 1 /\ start' = 0
         ELSE section' = section /\ start' = LastToken - Overlap
  BY DEF TextInv, CutWindow
<1>2. ParserTypes' /\ SectionsEnclose' /\ parsing' # "line"
  BY <1>1, CutsOnly DEF CutWindow
<1>3. /\ section \in Nat \ {0} /\ start \in Int /\ windows \in Seq(WindowType)
      /\ sections \in Seq(SectionType)
      /\ MaxChunkTokens \in Nat /\ Overlap \in Nat /\ Overlap < MaxChunkTokens
  BY <1>1, TextAssumption DEF CutTypes, ParserTypes
<1>4. Size(section) \in Nat
  <2>1. section \in DOMAIN sections
    BY <1>1, <1>3
  <2>2. sections[section] \in SectionType
    BY <1>3, <2>1
  <2>3. QED
    BY <2>2 DEF Size, SectionType
<1>5. /\ LastToken \in Int /\ LastToken <= start + MaxChunkTokens /\ LastToken <= Size(section)
      /\ LastToken = start + MaxChunkTokens \/ LastToken = Size(section)
  BY <1>3, <1>4 DEF LastToken
<1>6. new \in WindowType /\ new.section = section /\ new.first = start + 1 /\ new.last = LastToken
  BY <1>3, <1>5 DEF WindowType
<1> HIDE DEF new
<1>7. /\ windows' \in Seq(WindowType) /\ Len(windows') = Len(windows) + 1 /\ Last(windows') = new
      /\ windows'[Len(windows) + 1] = new /\ windows' # <<>>
      /\ \A k \in DOMAIN windows : windows'[k] = windows[k]
      /\ \A k \in DOMAIN windows' : k \in DOMAIN windows \/ k = Len(windows) + 1
      /\ DOMAIN windows \subseteq DOMAIN windows' /\ Len(windows) + 1 \in DOMAIN windows'
      /\ Len(windows) \in Nat
  BY <1>1, <1>3, <1>6 DEF Last
<1>8. EndsSection <=> LastToken = Size(section)
  BY DEF EndsSection
<1>9. CutTypes'
  <2>1. section' \in Nat \ {0} /\ start' \in Int
    BY <1>1, <1>3, <1>5
  <2>2. QED
    BY <1>1, <1>7, <2>1 DEF CutTypes
<1>10. CutInv'
  <2>1. \A k \in DOMAIN windows' : windows'[k].section <= section
    BY <1>1, <1>3, <1>6, <1>7 DEF CutInv
  <2>2. CASE EndsSection
    <3>1. section' = section + 1 /\ start' = 0
      BY <1>1, <2>2
    <3>2. ASSUME NEW k \in DOMAIN windows' PROVE windows'[k].section <= section'
      <4>1. windows'[k].section \in Nat
        <5>1. windows'[k] \in WindowType
          BY <1>7
        <5>2. QED
          BY <5>1 DEF WindowType
      <4>2. QED
        BY <1>3, <2>1, <3>1, <4>1
    <3>3. section' <= Len(sections') + 1
      <4>1. Len(sections) \in Nat
        BY <1>3
      <4>2. QED
        BY <1>1, <1>3, <3>1, <4>1
    <3>4. Last(windows').section # section'
      BY <1>3, <1>6, <1>7, <3>1
    <3>5. QED
      BY <3>1, <3>2, <3>3, <3>4 DEF CutInv
  <2>3. CASE ~EndsSection
    <3>1. section' = section /\ start' = LastToken - Overlap /\ LastToken < Size(section)
      BY <1>1, <1>4, <1>5, <1>8, <2>3
    <3>2. Size(section)' = Size(section)
      BY <1>1, <3>1 DEF Size
    <3>3. QED
      BY <1>1, <1>3, <1>6, <1>7, <2>1, <3>1, <3>2 DEF CutInv
  <2>4. QED
    BY <2>2, <2>3
<1>11. WindowsCover'
  <2>1. ASSUME NEW k \in DOMAIN windows'
        PROVE  /\ windows'[k].last - windows'[k].first < MaxChunkTokens
               /\ IF k > 1 /\ windows'[k - 1].section = windows'[k].section
                  THEN /\ windows'[k].first = windows'[k - 1].last - Overlap + 1
                       /\ windows'[k].last > windows'[k - 1].last
                  ELSE windows'[k].first = 1
    <3>1. CASE k \in DOMAIN windows
      <4>1. windows'[k] = windows[k] /\ (k > 1 => windows'[k - 1] = windows[k - 1])
        BY <1>3, <1>7, <3>1
      <4>2. QED
        BY <1>1, <3>1, <4>1 DEF WindowsCover
    <3>2. CASE k = Len(windows) + 1
      <4>1. windows'[k] = new /\ new.last - new.first < MaxChunkTokens
        BY <1>3, <1>5, <1>6, <1>7, <3>2
      <4>2. CASE k > 1 /\ windows'[k - 1].section = section
        <5>1. windows # <<>> /\ Last(windows) = windows[k - 1] /\ windows'[k - 1] = windows[k - 1]
          BY <1>3, <1>7, <3>2, <4>2 DEF Last
        <5>2. windows[k - 1].last \in Int
          <6>1. k - 1 \in DOMAIN windows
            BY <1>3, <1>7, <3>2, <4>2
          <6>2. windows[k - 1] \in WindowType
            BY <1>3, <6>1
          <6>3. QED
            BY <6>2 DEF WindowType
        <5>3. /\ start = windows[k - 1].last - Overlap
              /\ windows[k - 1].last < Size(section)
          BY <1>1, <4>2, <5>1 DEF CutInv
        <5>4. new.first = windows[k - 1].last - Overlap + 1 /\ new.last > windows[k - 1].last
          <6>1. PICK n \in Int : n = windows[k - 1].last
            BY <5>2
          <6>2. PICK t \in Int : t = LastToken
            BY <1>5
          <6>3. PICK size \in Nat : size = Size(section)
            BY <1>4
          <6>4. start = n - Overlap /\ n < size
            BY <5>3, <6>1, <6>3
          <6>5. t = start + MaxChunkTokens \/ t = size
            BY <1>5, <6>2, <6>3
          <6>6. start + 1 = n - Overlap + 1 /\ t > n
            BY <1>3, <6>4, <6>5
          <6>7. QED
            BY <1>6, <6>1, <6>2, <6>6
        <5>5. QED
          BY <1>6, <4>1, <4>2, <5>1, <5>4
      <4>3. CASE ~(k > 1 /\ windows'[k - 1].section = section)
        <5>1. ~(windows # <<>> /\ Last(windows).section = section)
          BY <1>3, <1>7, <3>2, <4>3 DEF Last
        <5>2. start = 0
          BY <1>1, <5>1 DEF CutInv
        <5>3. QED
          BY <1>6, <4>1, <4>3, <5>2
      <4>4. QED
        BY <4>2, <4>3
    <3>3. QED
      BY <1>7, <3>1, <3>2
  <2>2. ASSUME NEW s \in 1 .. section' - 1, Size(s)' > 0
        PROVE  \E k \in DOMAIN windows' : windows'[k].section = s /\ windows'[k].last = Size(s)'
    <3>1. Size(s)' = Size(s)
      BY <1>1 DEF Size
    <3>2. CASE s \in 1 .. section - 1
      <4>1. PICK k \in DOMAIN windows : windows[k].section = s /\ windows[k].last = Size(s)
        BY <1>1, <2>2, <3>1, <3>2 DEF WindowsCover
      <4>2. QED
        BY <1>7, <3>1, <4>1
    <3>3. CASE s \notin 1 .. section - 1
      <4>1. s = section /\ EndsSection
        BY <1>1, <1>3, <3>3
      <4>2. QED
        BY <1>6, <1>7, <1>8, <3>1, <4>1
    <3>4. QED
      BY <3>2, <3>3
  <2>3. QED
    BY <2>1, <2>2 DEF WindowsCover, Size
<1>12. QED
  BY <1>2, <1>9, <1>10, <1>11 DEF TextInv

LEMMA TextStep == TextInv /\ [TextNext]_textVars => TextInv'
<1> SUFFICES ASSUME TextInv, [TextNext]_textVars PROVE TextInv'
  OBVIOUS
<1>1. CASE UNCHANGED textVars
  <2>1. /\ UNCHANGED <<document, parsing, page, line, stack, heading, buffer, tokens, sections>>
        /\ UNCHANGED <<section, start, windows>>
    BY <1>1 DEF textVars
  <2>2. ParserTypes' /\ CutTypes' /\ CutInv' /\ WindowsCover'
    BY <2>1 DEF TextInv, ParserTypes, CutTypes, CutInv, WindowsCover, Size
  <2>3. SectionsEnclose'
    BY <2>1, EnclosedStay DEF TextInv, SectionsEnclose
  <2>4. Reading => Reading'
    <3>1. Lines' = Lines
      BY <2>1 DEF Lines, Body, Repeats, Headers, Footers, Written
    <3>2. QED
      BY <2>1, <3>1 DEF Reading, StackFollows
  <2>5. QED
    BY <2>1, <2>2, <2>3, <2>4 DEF TextInv
<1>2. QED
  BY <1>1, OpenPageStep, LastPageStep, ReadLineStep, ClosePageStep, SkipSectionStep,
     CutWindowStep, FinishStep DEF TextNext

\* Whatever the lines, margins and headings of a document and however long its
\* sections: each line is in a section that names the headings it is under, and the
\* chunks of a section cover it with exactly the overlap.
THEOREM ChunksStayFaithful == TextSpec => []ChunksAreFaithful
<1>1. TextInv => ChunksAreFaithful
  <2>1. TextInv => HeadingsEnclose
    <3>1. SUFFICES ASSUME TextInv, NEW s \in DOMAIN sections,
                          NEW l \in DOMAIN sections[s].lines
                   PROVE  LET body == Body(document.pages[sections[s].page])
                              here == {k \in DOMAIN body : body[k] = sections[s].lines[l]}
                          IN \E k \in here : HeadingAbove(body, k) = sections[s].heading
      BY DEF HeadingsEnclose
    <3>2. StandsUnder(Body(document.pages[sections[s].page]), sections[s].lines[l],
                      sections[s].heading)
      BY <3>1 DEF TextInv, SectionsEnclose, Enclosed
    <3>3. QED
      BY <3>2 DEF StandsUnder
  <2>2. QED
    BY <2>1 DEF TextInv, ChunksAreFaithful
<1>2. QED
  BY <1>1, TextStart, TextStep, PTL DEF TextSpec

-----------------------------------------------------------------------------
(* The files of a report                                                   *)

Filing == engine \in {"write", "fill", "rename", "returned"}

Saved == [of : Int, whole : BOOLEAN]

\* Each file is a whole one, and the first files are those of the call that runs.
FilesInv ==
  /\ runs \in Nat /\ written \in 0 .. Len(Files)
  /\ disk \in [Range(Files) -> Saved] /\ scratch \in Saved
  /\ \A f \in Range(Files) : disk[f].whole
  /\ engine \in {"fill", "rename"} => written < Len(Files)
  /\ engine = "rename" => scratch.of = runs /\ scratch.whole
  /\ engine = "returned" => written = Len(Files)
  /\ Filing => \A k \in 1 .. written : disk[Files[k]].of = runs

LEMMA FiveFiles ==
  /\ Len(Files) = 5 /\ DOMAIN Files = 1 .. 5
  /\ \A k \in 1 .. 5 : Files[k] \in Range(Files)
  /\ \A f \in Range(Files) : \E k \in 1 .. 5 : f = Files[k]
<1>1. Len(Files) = 5 /\ DOMAIN Files = 1 .. 5
  BY DEF Files
<1>2. QED
  BY <1>1 DEF Range

LEMMA FilesStart == EngineInit => FilesInv
<1> SUFFICES ASSUME EngineInit PROVE FilesInv
  OBVIOUS
<1>1. Absent \in Saved /\ Absent.whole
  BY DEF Absent, Saved, Null
<1>2. /\ disk \in [Range(Files) -> Saved] /\ scratch \in Saved
      /\ \A f \in Range(Files) : disk[f].whole
  BY <1>1 DEF EngineInit
<1>3. engine = "idle" /\ runs = 0 /\ written = 0
  BY DEF EngineInit
<1>4. QED
  BY <1>2, <1>3, FiveFiles DEF FilesInv, Filing

LEMMA FilesStep == FilesInv /\ [EngineNext]_engineVars => FilesInv'
<1> SUFFICES ASSUME FilesInv, [EngineNext]_engineVars PROVE FilesInv'
  OBVIOUS
<1>0. Len(Files) = 5
  BY FiveFiles
<1>1. CASE UNCHANGED engineVars
  BY <1>1 DEF engineVars, FilesInv, Filing
<1>2. ASSUME NEW p \in Payloads, Analyze(p) PROVE FilesInv'
  <2>1. engine' \in {"write", "refused"} /\ written' = 0 /\ runs' = runs + 1
    BY <1>2 DEF Analyze
  <2>2. UNCHANGED <<disk, scratch>>
    BY <1>2 DEF Analyze
  <2>3. QED
    BY <1>0, <2>1, <2>2 DEF FilesInv, Filing
<1>3. CASE OpenTemporary \/ FillTemporary
  <2> DEFINE part == [of |-> runs, whole |-> FALSE]
             whole == [of |-> runs, whole |-> TRUE]
  <2>1. part \in Saved /\ whole \in Saved /\ whole.of = runs /\ whole.whole
    BY DEF FilesInv, Saved
  <2>2. \/ scratch' = part /\ engine = "write" /\ engine' = "fill" /\ written < Len(Files)
        \/ scratch' = whole /\ engine = "fill" /\ engine' = "rename"
    BY <1>3 DEF OpenTemporary, FillTemporary, Fill
  <2>3. UNCHANGED <<disk, written, runs>>
    BY <1>3 DEF OpenTemporary, FillTemporary, Fill
  <2> HIDE DEF part, whole
  <2>4. QED
    BY <2>1, <2>2, <2>3 DEF FilesInv, Filing
<1>4. CASE Rename
  <2>1. /\ Target \in Range(Files) /\ engine = "rename" /\ engine' = "write"
        /\ Target = Files[written + 1]
        /\ written < Len(Files) /\ written' = written + 1 /\ runs' = runs
    BY <1>4, FiveFiles DEF Rename, Target, FilesInv
  <2>2. scratch.of = runs /\ scratch.whole /\ scratch \in Saved
    BY <2>1 DEF FilesInv
  <2>3. /\ disk' \in [Range(Files) -> Saved] /\ disk'[Target] = scratch
        /\ \A f \in Range(Files) \ {Target} : disk'[f] = disk[f]
    BY <1>4, <2>1, <2>2 DEF Rename, FilesInv
  <2>4. scratch' \in Saved
    BY <1>4 DEF Rename, Absent, Saved, Null
  <2>5. \A f \in Range(Files) : disk'[f].whole
    BY <2>2, <2>3 DEF FilesInv
  <2>6. \A k \in 1 .. written' : disk'[Files[k]].of = runs'
    <3>1. SUFFICES ASSUME NEW k \in 1 .. written + 1 PROVE disk'[Files[k]].of = runs
      BY <2>1
    <3>2. k \in 1 .. 5 /\ Files[k] \in Range(Files)
      BY <1>0, <2>1, FiveFiles DEF FilesInv
    <3>3. CASE Files[k] = Target
      BY <2>2, <2>3, <3>3
    <3>4. CASE Files[k] # Target
      <4>1. k \in 1 .. written
        BY <2>1, <3>4 DEF FilesInv
      <4>2. disk[Files[k]].of = runs
        BY <2>1, <4>1 DEF FilesInv, Filing
      <4>3. QED
        BY <2>3, <3>2, <3>4, <4>2
    <3>5. QED
      BY <3>3, <3>4
  <2>7. written' \in 0 .. Len(Files)
    BY <1>0, <2>1 DEF FilesInv
  <2>8. QED
    BY <2>1, <2>3, <2>4, <2>5, <2>6, <2>7 DEF FilesInv
<1>5. CASE PutRaises \/ EngineDies
  <2>1. engine' \in {"failed", "dead"} /\ UNCHANGED <<disk, written, runs>>
    BY <1>5 DEF PutRaises, EngineDies
  <2>2. scratch' \in Saved
    <3>1. Absent \in Saved /\ scratch \in Saved
      BY DEF Absent, Saved, Null, FilesInv
    <3>2. scratch' = Absent \/ scratch' = scratch
      BY <1>5 DEF PutRaises, EngineDies
    <3>3. QED
      BY <3>1, <3>2
  <2>3. QED
    BY <2>1, <2>2 DEF FilesInv, Filing
<1>6. CASE Summarize
  BY <1>6 DEF Summarize, FilesInv, Filing
<1>7. QED
  BY <1>1, <1>2, <1>3, <1>4, <1>5, <1>6 DEF EngineNext

\* However many calls fail or die before, between or after its renames, a call
\* that returns has put all five files of its own result in place, and no file
\* is ever half a result.
THEOREM ReportsAreWhole == EngineSpec => []ReportIsWhole
<1>1. FilesInv => ReportIsWhole
  <2> SUFFICES ASSUME FilesInv PROVE ReportIsWhole
    OBVIOUS
  <2>1. DOMAIN disk = Range(Files)
    BY DEF FilesInv
  <2>2. QED
    BY <2>1, FiveFiles DEF FilesInv, Filing, ReportIsWhole
<1>2. QED
  BY <1>1, FilesStart, FilesStep, PTL DEF EngineSpec

-----------------------------------------------------------------------------
(* The metrics                                                             *)

Share == 0 .. 1000

\* A share in tenths of a percent, rounded, is one.
LEMMA RoundedShare ==
  ASSUME NEW n \in Nat, NEW d \in Nat \ {0}, n <= 1000 * d
  PROVE  Round(n, d) \in Share
<1> DEFINE q == (2 * n + d) \div (2 * d)
<1>1. 2 * n + d \in Nat /\ 2 * d \in Nat \ {0}
  OBVIOUS
<1>2. q \in Nat /\ (2 * d) * q <= 2 * n + d
  BY <1>1, Division
<1>3. Round(n, d) = q
  BY DEF Round
<1> HIDE DEF q
<1>4. ~(q >= 1001)
  <2> SUFFICES ASSUME q >= 1001 PROVE FALSE
    OBVIOUS
  <2>1. PICK r \in Nat : q = 1001 + r
    <3>1. q - 1001 \in Nat /\ q = 1001 + (q - 1001)
      BY <1>2
    <3>2. QED
      BY <3>1
  <2>2. (2 * d) * q = 2002 * d + (2 * d) * r /\ (2 * d) * r \in Nat
    BY <2>1
  <2>3. 2 * n + d <= 2001 * d
    OBVIOUS
  <2>4. QED
    BY <1>2, <2>2, <2>3
<1>5. QED
  BY <1>2, <1>3, <1>4 DEF Share

LEMMA PercentageIs ==
  ASSUME NEW n \in Count, NEW d \in Count
  PROVE  /\ Percentage(n, d) \in Share \cup {Null}
         /\ Percentage(n, d) # Null <=> n # Null /\ d > 0
<1>1. Null \notin Share /\ Null \notin Nat /\ ~(Null > 0)
  BY DEF Null, Share
<1>2. CASE n = Null \/ d = Null \/ d <= 0
  <2>1. Percentage(n, d) = Null
    BY <1>2 DEF Percentage
  <2>2. ~(n # Null /\ d > 0)
    BY <1>1, <1>2 DEF Count
  <2>3. QED
    BY <2>1, <2>2
<1>3. CASE n # Null /\ d # Null /\ ~(d <= 0)
  <2>1. n \in Nat /\ d \in Nat \ {0}
    BY <1>3 DEF Count
  <2>2. Percentage(n, d) = IF n > d THEN 1000 ELSE Round(1000 * n, d)
    BY <1>3 DEF Percentage
  <2>3. ~(n > d) => 1000 * n \in Nat /\ 1000 * n <= 1000 * d
    BY <2>1
  <2>4. ~(n > d) => Round(1000 * n, d) \in Share
    BY <2>1, <2>3, RoundedShare
  <2>5. 1000 \in Share
    BY DEF Share
  <2>6. QED
    BY <1>1, <1>3, <2>1, <2>2, <2>4, <2>5
<1>4. QED
  BY <1>2, <1>3

LEMMA MaxOfCounts ==
  ASSUME NEW S \in SUBSET Nat, NEW a, NEW b, NEW c, S \subseteq {a, b, c}, S # {}
  PROVE  Max(S) \in S
<1>1. \E x \in S : \A y \in S : x >= y
  <2>1. PICK x \in S : TRUE
    OBVIOUS
  <2>2. PICK y \in S : y >= x /\ \A z \in S : z \in {a, b} => y >= z
    <3>1. CASE a \in S /\ b \in S
      BY <2>1, <3>1
    <3>2. CASE ~(a \in S /\ b \in S)
      BY <2>1, <3>2
    <3>3. QED
      BY <3>1, <3>2
  <2>3. CASE c \in S /\ c > y
    BY <2>2, <2>3
  <2>4. CASE ~(c \in S /\ c > y)
    BY <2>2, <2>4
  <2>5. QED
    BY <2>3, <2>4
<1>2. QED
  BY <1>1 DEF Max

\* The least number of people that show one of up to three behaviours.
LEMMA LowerBoundIs ==
  ASSUME NEW a \in Count, NEW b \in Count, NEW c \in Count,
         NEW S \in SUBSET {a, b, c}, S # {}
  PROVE  LowerBound(S) \in Count /\ (LowerBound(S) # Null <=> S # {Null})
<1> DEFINE known == S \ {Null}
<1>1. Null \notin Nat /\ known \in SUBSET Nat /\ known \subseteq {a, b, c}
  BY DEF Null, Count
<1>2. CASE known = {}
  <2>1. LowerBound(S) = Null /\ S = {Null}
    BY <1>2 DEF LowerBound
  <2>2. QED
    BY <2>1 DEF Count
<1>3. CASE known # {}
  <2>1. LowerBound(S) = Max(known) /\ S # {Null}
    BY <1>3 DEF LowerBound
  <2> HIDE DEF known
  <2>2. Max(known) \in known
    BY <1>1, <1>3, MaxOfCounts
  <2>3. QED
    BY <1>1, <2>1, <2>2 DEF Count
<1>4. QED
  BY <1>2, <1>3

\* What a frame counts for a metric.
Counted(f, key) ==
  CASE key = "focus" -> {f.focused}
    [] key = "participation" -> {f.hands, f.discussion, f.writing}
    [] key = "interaction" -> {f.hands, f.discussion}
    [] OTHER -> {f.distracted}

OfStudents == SummaryMetrics \ {"teacherGuidance"}

\* A frame shows a metric if it counts somebody in a class that is not empty.
Shows(p, f, key) == Counted(f, key) # {Null} /\ Total(p, f) > 0

LEMMA FrameMetricIs ==
  ASSUME NEW p \in Payloads, NEW k \in DOMAIN p.frames, NEW key \in OfStudents
  PROVE  /\ FrameMetrics(p, p.frames[k])[key] \in Share \cup {Null}
         /\ FrameMetrics(p, p.frames[k])[key] # Null <=> Shows(p, p.frames[k], key)
<1> DEFINE f == p.frames[k]
<1>1. /\ f.visible \in Count /\ f.estimated \in Count /\ p.students \in Count
      /\ f.focused \in Count /\ f.writing \in Count /\ f.hands \in Count
      /\ f.discussion \in Count /\ f.distracted \in Count
  BY EngineAssumption DEF NumbersOf
<1> HIDE DEF f
<1>2. Total(p, f) \in Count
  BY <1>1 DEF Total
<1>3. Whole(p, f) \in Count /\ (Whole(p, f) > 0 <=> Total(p, f) > 0)
  BY <1>2 DEF Whole, Count, Null
<1>4. key \in {"focus", "participation", "interaction", "abnormalRate"}
  BY DEF OfStudents, SummaryMetrics
<1>5. CASE key = "focus"
  <2>1. FrameMetrics(p, f)[key] = Percentage(f.focused, Whole(p, f))
    BY <1>5 DEF FrameMetrics
  <2>2. Counted(f, key) = {f.focused}
    BY <1>5 DEF Counted
  <2>3. QED
    BY <1>1, <1>3, <2>1, <2>2, PercentageIs DEF Shows, f
<1>6. CASE key = "abnormalRate"
  <2>1. FrameMetrics(p, f)[key] = Percentage(f.distracted, Whole(p, f))
    BY <1>6 DEF FrameMetrics
  <2>2. Counted(f, key) = {f.distracted}
    BY <1>6 DEF Counted
  <2>3. QED
    BY <1>1, <1>3, <2>1, <2>2, PercentageIs DEF Shows, f
<1>7. CASE key = "participation"
  <2> DEFINE S == {f.hands, f.discussion, f.writing}
  <2>1. FrameMetrics(p, f)[key] = Percentage(LowerBound(S), Whole(p, f))
    BY <1>7 DEF FrameMetrics
  <2>2. Counted(f, key) = S
    BY <1>7 DEF Counted
  <2>3. LowerBound(S) \in Count /\ (LowerBound(S) # Null <=> S # {Null})
    <3>1. S \in SUBSET {f.hands, f.discussion, f.writing} /\ S # {}
      OBVIOUS
    <3> HIDE DEF S
    <3>2. QED
      BY <1>1, <3>1, LowerBoundIs
  <2> HIDE DEF S
  <2>4. QED
    BY <1>3, <2>1, <2>2, <2>3, PercentageIs DEF Shows, f
<1>8. CASE key = "interaction"
  <2> DEFINE S == {f.hands, f.discussion}
  <2>1. FrameMetrics(p, f)[key] = Percentage(LowerBound(S), Whole(p, f))
    BY <1>8 DEF FrameMetrics
  <2>2. Counted(f, key) = S
    BY <1>8 DEF Counted
  <2>3. LowerBound(S) \in Count /\ (LowerBound(S) # Null <=> S # {Null})
    <3>1. S \in SUBSET {f.hands, f.discussion, f.writing} /\ S # {}
      OBVIOUS
    <3> HIDE DEF S
    <3>2. QED
      BY <1>1, <3>1, LowerBoundIs
  <2> HIDE DEF S
  <2>4. QED
    BY <1>3, <2>1, <2>2, <2>3, PercentageIs DEF Shows, f
<1>9. QED
  BY <1>4, <1>5, <1>6, <1>7, <1>8

-----------------------------------------------------------------------------
(* The mean over the frames                                                *)

\* The weights of the frames that show a metric, and their terms.
WeightOfFrame(p) == [k \in DOMAIN p.frames |-> WeightOf(p.frames[k])]
TermOfFrame(p, key) ==
  [k \in DOMAIN p.frames |-> FrameMetrics(p, p.frames[k])[key] * WeightOf(p.frames[k])]

LEMMA SumOfWeights ==
  ASSUME NEW p, NEW S \in SUBSET DOMAIN p.frames, IsFiniteSet(S)
  PROVE  MapThenSumSet(LAMBDA k : WeightOf(p.frames[k]), S) = SumOf(WeightOfFrame(p), S)
<1> DEFINE P(f) == f = [s \in SUBSET S |-> IF s = {} THEN 0
                          ELSE WeightOf(p.frames[AnyOf(s)]) + f[s \ {AnyOf(s)}]]
<1>1. MapThenSumSet(LAMBDA k : WeightOf(p.frames[k]), S) = (CHOOSE f : P(f))[S]
  BY DEF MapThenSumSet, MapThenFoldSet, AnyOf
<1>2. ASSUME NEW f
      PROVE  P(f) <=> Adder(f, S, WeightOfFrame(p))
  <2>1. \A s \in SUBSET S : s # {} => WeightOfFrame(p)[AnyOf(s)] = WeightOf(p.frames[AnyOf(s)])
    BY AnyIsOne DEF WeightOfFrame
  <2>2. QED
    BY <2>1 DEF Adder, Adds
<1>3. \E f : P(f)
  <2>1. \E f : Adder(f, S, WeightOfFrame(p))
    BY AddsExist
  <2>2. QED
    BY <1>2, <2>1
<1>4. PICK f : P(f) /\ (CHOOSE g : P(g))[S] = f[S]
  <2> HIDE DEF P
  <2>1. P(CHOOSE g : P(g))
    BY <1>3
  <2>2. QED
    BY <2>1
<1>5. Adder(f, S, WeightOfFrame(p)) /\ S \in SUBSET S
      /\ Alike(WeightOfFrame(p), WeightOfFrame(p), S)
  BY <1>2, <1>4 DEF Alike
<1>6. f[S] = SumOf(WeightOfFrame(p), S)
  BY <1>5, SumFound
<1>7. QED
  BY <1>1, <1>4, <1>6

LEMMA SumOfTerms ==
  ASSUME NEW p, NEW key, NEW S \in SUBSET DOMAIN p.frames, IsFiniteSet(S)
  PROVE  MapThenSumSet(LAMBDA k : FrameMetrics(p, p.frames[k])[key] * WeightOf(p.frames[k]), S)
           = SumOf(TermOfFrame(p, key), S)
<1> DEFINE term(k) == FrameMetrics(p, p.frames[k])[key] * WeightOf(p.frames[k])
           P(f) == f = [s \in SUBSET S |-> IF s = {} THEN 0
                          ELSE term(AnyOf(s)) + f[s \ {AnyOf(s)}]]
<1>1. MapThenSumSet(LAMBDA k : FrameMetrics(p, p.frames[k])[key] * WeightOf(p.frames[k]), S)
        = (CHOOSE f : P(f))[S]
  BY DEF MapThenSumSet, MapThenFoldSet, AnyOf
<1>2. ASSUME NEW f
      PROVE  P(f) <=> Adder(f, S, TermOfFrame(p, key))
  <2>1. \A s \in SUBSET S : s # {} => TermOfFrame(p, key)[AnyOf(s)] = term(AnyOf(s))
    BY AnyIsOne DEF TermOfFrame
  <2>2. QED
    BY <2>1 DEF Adder, Adds
<1>3. \E f : P(f)
  <2>1. \E f : Adder(f, S, TermOfFrame(p, key))
    BY AddsExist
  <2>2. QED
    BY <1>2, <2>1
<1>4. PICK f : P(f) /\ (CHOOSE g : P(g))[S] = f[S]
  <2> HIDE DEF P
  <2>1. P(CHOOSE g : P(g))
    BY <1>3
  <2>2. QED
    BY <2>1
<1>5. Adder(f, S, TermOfFrame(p, key)) /\ S \in SUBSET S
      /\ Alike(TermOfFrame(p, key), TermOfFrame(p, key), S)
  BY <1>2, <1>4 DEF Alike
<1>6. f[S] = SumOf(TermOfFrame(p, key), S)
  BY <1>5, SumFound
<1>7. QED
  BY <1>1, <1>4, <1>6

\* The mean is known where a frame shows the metric, and between nought and all.
LEMMA AggregateIs ==
  ASSUME NEW p \in Payloads, PayloadValid(p), NEW key \in OfStudents
  PROVE  /\ Aggregate(p, key) \in Share \cup {Null}
         /\ Aggregate(p, key) # Null <=>
              \E k \in DOMAIN p.frames : Shows(p, p.frames[k], key)
<1> DEFINE known == {k \in DOMAIN p.frames : FrameMetrics(p, p.frames[k])[key] # Null}
           v == TermOfFrame(p, key)
           w == WeightOfFrame(p)
<1>1. known \in SUBSET DOMAIN p.frames /\ IsFiniteSet(known)
  <2>1. IsFiniteSet(DOMAIN p.frames)
    BY EngineAssumption, FS_Interval
  <2>2. QED
    BY <2>1, FS_Subset
<1>2. known # {} <=> \E k \in DOMAIN p.frames : Shows(p, p.frames[k], key)
  BY FrameMetricIs
<1>3. Aggregate(p, key) = IF known = {} THEN Null ELSE Round(SumOf(v, known), SumOf(w, known))
  BY <1>1, SumOfWeights, SumOfTerms DEF Aggregate
<1>4. ASSUME NEW k \in known
      PROVE  w[k] \in Nat \ {0} /\ v[k] \in Nat /\ v[k] <= 1000 * w[k]
  <2>1. k \in DOMAIN p.frames /\ FrameMetrics(p, p.frames[k])[key] \in Share
    BY FrameMetricIs
  <2>2. p.frames[k].duration \in Count /\ p.frames[k].duration # 0
    BY <2>1, EngineAssumption DEF NumbersOf, PayloadValid, FrameValid
  <2>3. WeightOf(p.frames[k]) \in Nat \ {0}
    BY <2>2 DEF WeightOf, Count
  <2>4. PICK a \in Nat, b \in Nat \ {0} :
          /\ a = FrameMetrics(p, p.frames[k])[key] /\ a <= 1000
          /\ b = WeightOf(p.frames[k])
    <3> DEFINE x == FrameMetrics(p, p.frames[k])[key]
               y == WeightOf(p.frames[k])
    <3>1. x \in Nat /\ x <= 1000 /\ y \in Nat \ {0}
      <4> HIDE DEF x, y
      <4>1. x \in Share /\ y \in Nat \ {0}
        BY <2>1, <2>3 DEF x, y
      <4>2. QED
        BY <4>1 DEF Share
    <3> HIDE DEF x, y
    <3>2. \E a \in Nat, b \in Nat \ {0} : a = x /\ a <= 1000 /\ b = y
      BY <3>1
    <3>3. QED
      BY <3>2 DEF x, y
  <2>5. v[k] = a * b /\ w[k] = b
    BY <2>1, <2>4 DEF TermOfFrame, WeightOfFrame
  <2>6. a * b \in Nat /\ a * b <= 1000 * b
    <3>1. PICK c \in Nat : 1000 = a + c
      <4>1. 1000 - a \in Nat /\ 1000 = a + (1000 - a)
        BY <2>4
      <4>2. QED
        BY <4>1
    <3>2. 1000 * b = a * b + c * b /\ c * b \in Nat /\ a * b \in Nat
      BY <3>1
    <3>3. QED
      BY <3>2
  <2>7. QED
    BY <2>5, <2>6
<1> HIDE DEF known, v, w
<1>5. CASE known = {}
  BY <1>2, <1>3, <1>5
<1>6. CASE known # {}
  <2>1. Weighed(v, known) /\ Weighed(w, known)
    BY <1>1, <1>4 DEF Weighed
  <2>2. SumOf(v, known) \in Nat /\ SumOf(w, known) \in Nat
    BY <2>1, SumIsNatural
  <2>3. SumOf(v, known) <= 1000 * SumOf(w, known)
    BY <1>4, <2>1, SumIsBounded
  <2>4. SumOf(w, known) # 0
    <3>1. PICK k \in known : TRUE
      BY <1>6
    <3>2. SumOf(w, known) = w[k] + SumOf(w, known \ {k})
      BY <2>1, SumWithout
    <3>3. Weighed(w, known \ {k})
      BY <2>1, FS_Subset DEF Weighed
    <3>4. SumOf(w, known \ {k}) \in Nat /\ w[k] \in Nat \ {0}
      BY <1>4, <3>3, SumIsNatural
    <3>5. QED
      BY <3>2, <3>4
  <2>5. Aggregate(p, key) \in Share
    BY <1>3, <1>6, <2>2, <2>3, <2>4, RoundedShare
  <2>6. Null \notin Share
    BY DEF Null, Share
  <2>7. QED
    BY <1>2, <1>6, <2>5, <2>6
<1>7. QED
  BY <1>5, <1>6

\* The result is that of the payload while the files are written.
ResultInv ==
  engine \in {"write", "fill", "rename"} =>
    payload \in Payloads /\ PayloadValid(payload) /\ result = ResultOf(payload)

LEMMA ResultStep == ResultInv /\ [EngineNext]_engineVars => ResultInv'
<1> SUFFICES ASSUME ResultInv, [EngineNext]_engineVars PROVE ResultInv'
  OBVIOUS
<1>1. CASE \E p \in Payloads : Analyze(p)
  <2>1. PICK p \in Payloads : Analyze(p)
    BY <1>1
  <2>2. CASE PayloadValid(p)
    BY <2>1, <2>2 DEF Analyze, ResultInv
  <2>3. CASE ~PayloadValid(p)
    BY <2>1, <2>3 DEF Analyze, ResultInv
  <2>4. QED
    BY <2>2, <2>3
<1>2. CASE /\ payload' = payload /\ result' = result
           /\ engine' \in {"write", "fill", "rename"} => engine \in {"write", "fill", "rename"}
  BY <1>2 DEF ResultInv
<1>3. CASE UNCHANGED engineVars
  BY <1>2, <1>3 DEF engineVars
<1>4. CASE OpenTemporary \/ FillTemporary \/ Rename
  BY <1>2, <1>4 DEF OpenTemporary, FillTemporary, Rename
<1>5. CASE PutRaises \/ EngineDies \/ Summarize
  BY <1>2, <1>5 DEF PutRaises, EngineDies, Summarize
<1>6. QED
  BY <1>1, <1>3, <1>4, <1>5 DEF EngineNext

\* For any frames, counts and durations, a share of students is null exactly
\* when no frame shows it, and the mean over the frames stays within the whole.
THEOREM UnknownStaysUnknown == EngineSpec => []NullNotZero
<1>1. EngineInit => ResultInv
  BY DEF EngineInit, ResultInv
<1>2. ResultInv => NullNotZero
  <2> SUFFICES ASSUME ResultInv, engine = "write", NEW key \in SummaryMetrics \ {"teacherGuidance"}
               PROVE  /\ (result.metrics[key] # Null) =
                           (\E k \in DOMAIN payload.frames :
                              /\ Counted(payload.frames[k], key) # {Null}
                              /\ Total(payload, payload.frames[k]) > 0)
                      /\ result.metrics[key] <= 1000
    BY DEF NullNotZero, Counted
  <2>1. payload \in Payloads /\ PayloadValid(payload) /\ result = ResultOf(payload)
    BY DEF ResultInv
  <2>2. key \in OfStudents /\ key \in SummaryMetrics
    BY DEF OfStudents
  <2>3. result.metrics[key] = Aggregate(payload, key)
    BY <2>1, <2>2 DEF ResultOf
  <2>4. /\ Aggregate(payload, key) \in Share \cup {Null}
        /\ Aggregate(payload, key) # Null <=>
             \E k \in DOMAIN payload.frames : Shows(payload, payload.frames[k], key)
    BY <2>1, <2>2, AggregateIs
  <2>5. result.metrics[key] <= 1000
    BY <2>3, <2>4 DEF Share, Null
  <2>6. (result.metrics[key] # Null) =
          (\E k \in DOMAIN payload.frames : Shows(payload, payload.frames[k], key))
    BY <2>3, <2>4
  <2>7. (result.metrics[key] # Null) =
          (\E k \in DOMAIN payload.frames :
             /\ Counted(payload.frames[k], key) # {Null}
             /\ Total(payload, payload.frames[k]) > 0)
    BY <2>6 DEF Shows
  <2>8. QED
    BY <2>5, <2>7
<1>3. QED
  BY <1>1, <1>2, ResultStep, PTL DEF EngineSpec

-----------------------------------------------------------------------------
(* The model gateway                                                       *)

Codes == {r.code : r \in Results} \cup
         {"OK", "MODEL_BUDGET_EXCEEDED", "MODEL_COST_UNKNOWN"}

Calling == {"rate", "reserve", "call", "returned"}

CallerState ==
  [pc : {"idle", "gate"} \cup Calling, retries : Nat, repairs : Nat, read : Nat,
   code : Codes]

GatewayTyped ==
  /\ time \in Nat
  /\ breaker \in [failures : Nat, opened : Nat \cup {Shut}]
  /\ budget \in [Callers -> [calls : Nat, tokens : Nat]]
  /\ caller \in [Callers -> CallerState]
  /\ burst \in Seq(Nat)

\* The callers that have passed the breaker and whose call has not come to an end.
FlyingIn(cl) == {c \in Callers : cl[c].pc \in Calling}
Flying == FlyingIn(caller)

\* What is about to be charged is affordable.
Reserved ==
  \A c \in Callers :
    /\ budget[c].tokens <= MaxTokens /\ budget[c].calls <= MaxCalls
    /\ caller[c].pc = "call" => budget[c].tokens + Estimate <= MaxTokens

\* The failures in a row are in the order of the clock.
InOrder ==
  /\ \A i \in DOMAIN burst : burst[i] <= time
  /\ \A i, j \in DOMAIN burst : i <= j => burst[i] <= burst[j]

\* After Threshold failures in a row the circuit is open from the last one on,
\* for a cool-down.
Spares ==
  /\ Len(burst) < Threshold => breaker.failures >= Len(burst)
  /\ Len(burst) >= Threshold =>
       /\ breaker.failures >= Threshold - 1
       /\ breaker.opened = Shut => time >= burst[Len(burst)] + Cooldown
       /\ breaker.opened # Shut => breaker.opened = burst[Len(burst)]

\* The failures within a cool-down of failure i.
LateIn(b, i) == {j \in DOMAIN b : j > i /\ b[j] < b[i] + Cooldown}
Late(i) == LateIn(burst, i)

\* Those that came late, and those that may, are fewer than the callers.
FewLate ==
  \A i \in DOMAIN burst : i >= Threshold =>
    /\ Cardinality(Late(i)) < Cardinality(Callers)
    /\ time < burst[i] + Cooldown =>
         Cardinality(Late(i)) + Cardinality(Flying) < Cardinality(Callers)

GatewayInv == GatewayTyped /\ Reserved /\ InOrder /\ Spares /\ FewLate

CallerStep(c) ==
  \/ Execute(c) \/ PassBreaker(c) \/ CircuitOpen(c) \/ AcquireRate(c)
  \/ BeginCall(c) \/ AdapterReturns(c) \/ Escape(c) \/ Fail(c) \/ Succeed(c)
  \/ RecordFails(c)

Moves(c, s) ==
  /\ caller' = [caller EXCEPT ![c] = s] /\ s \in CallerState

LEMMA GatewayNumbers ==
  /\ IsFiniteSet(Callers) /\ Threshold \in Nat \ {0} /\ Cooldown \in Nat
  /\ MaxCalls \in Nat /\ MaxTokens \in Nat /\ Estimate \in Nat /\ Overrun \in Nat
BY GatewayAssumption

LEMMA DoneState == Done \in CallerState /\ Done.pc = "idle"
BY DEF Done, CallerState, Codes, Calling

\* What becomes of a caller.
LEMMA CallerMoves ==
  ASSUME GatewayTyped, NEW c \in Callers, CallerStep(c)
  PROVE  /\ caller' \in [Callers -> CallerState]
         /\ \A d \in Callers \ {c} : caller'[d] = caller[d]
         /\ caller'[c].pc \in Calling => caller[c].pc \in Calling \/ PassBreaker(c)
         /\ caller'[c].pc = "call" => BeginCall(c) /\ Affordable(c)
         /\ Fail(c) => caller[c].pc \in Calling /\ caller'[c].pc \notin Calling
<1>0. caller[c] \in CallerState /\ caller \in [Callers -> CallerState] /\ time \in Nat
  BY DEF GatewayTyped
<1> DEFINE goal(pc) ==
      /\ caller' \in [Callers -> CallerState]
      /\ \A d \in Callers \ {c} : caller'[d] = caller[d]
      /\ caller'[c].pc = pc
<1>1. ASSUME caller' = [caller EXCEPT ![c] = Done] PROVE goal("idle")
  BY <1>0, <1>1, DoneState
<1>2. ASSUME NEW pc \in {"gate", "reserve", "call"}, Move(c, pc) PROVE goal(pc)
  <2> DEFINE s == [caller[c] EXCEPT !.pc = pc]
  <2>1. s \in CallerState /\ s.pc = pc
    BY <1>0 DEF CallerState, Calling
  <2>2. caller' = [caller EXCEPT ![c] = s]
    BY <1>0, <1>2 DEF Move, CallerState
  <2> HIDE DEF s
  <2>3. QED
    BY <1>0, <2>1, <2>2
<1>3. CASE CircuitOpen(c) \/ Escape(c) \/ Succeed(c) \/ RecordFails(c)
  <2>1. caller' = [caller EXCEPT ![c] = Done]
    BY <1>3 DEF CircuitOpen, Escape, Succeed, RecordFails
  <2>2. ~Fail(c) \/ caller[c].pc = "returned"
    BY DEF Fail
  <2>3. QED
    BY <1>1, <2>1, <2>2 DEF Calling
<1>4. CASE Execute(c)
  BY <1>2, <1>4 DEF Execute, Calling, Fail
<1>5. CASE PassBreaker(c)
  <2> DEFINE s == [caller[c] EXCEPT !.pc = "rate", !.read = time]
  <2>1. s \in CallerState /\ s.pc = "rate"
    BY <1>0 DEF CallerState, Calling
  <2>2. caller' = [caller EXCEPT ![c] = s]
    BY <1>0, <1>5 DEF PassBreaker, CallerState
  <2> HIDE DEF s
  <2>3. goal("rate")
    BY <1>0, <2>1, <2>2
  <2>4. QED
    BY <1>5, <2>3 DEF PassBreaker, Fail
<1>6. CASE AcquireRate(c)
  <2>1. caller[c].pc = "rate" /\ (Move(c, "reserve") \/ caller' = [caller EXCEPT ![c] = Done])
    BY <1>6 DEF AcquireRate
  <2>2. QED
    BY <1>1, <1>2, <2>1 DEF Calling, Fail
<1>7. CASE BeginCall(c)
  <2>1. CASE Affordable(c)
    <3>1. Move(c, "call") /\ caller[c].pc = "reserve"
      BY <1>7, <2>1 DEF BeginCall
    <3>2. QED
      BY <1>2, <1>7, <2>1, <3>1 DEF Calling, Fail
  <2>2. CASE ~Affordable(c)
    <3>1. caller' = [caller EXCEPT ![c] = Done] /\ caller[c].pc = "reserve"
      BY <1>7, <2>2 DEF BeginCall
    <3>2. QED
      BY <1>1, <3>1 DEF Calling, Fail
  <2>3. QED
    BY <2>1, <2>2
<1>8. CASE AdapterReturns(c)
  <2>1. PICK res \in Results, u \in 0 .. Estimate + Overrun :
          caller' = [caller EXCEPT ![c].pc = "returned",
                                   ![c].code = Settled(res, u).code]
    BY <1>8 DEF AdapterReturns
  <2>2. Settled(res, u).code \in Codes
    BY DEF Settled, Codes
  <2>3. PICK code \in Codes : code = Settled(res, u).code
    BY <2>2
  <2> DEFINE s == [caller[c] EXCEPT !.pc = "returned", !.code = code]
  <2>4. s \in CallerState /\ s.pc = "returned"
    BY <1>0, <2>3 DEF CallerState, Calling
  <2>5. caller' = [caller EXCEPT ![c] = s]
    BY <1>0, <2>1, <2>3 DEF CallerState
  <2> HIDE DEF s
  <2>6. goal("returned")
    BY <1>0, <2>4, <2>5
  <2>7. caller[c].pc = "call"
    BY <1>8 DEF AdapterReturns
  <2>8. QED
    BY <2>6, <2>7 DEF Calling, Fail
<1>9. CASE Fail(c)
  <2> DEFINE s == Retried(c, caller[c].code)
  <2>1. caller' = [caller EXCEPT ![c] = s] /\ caller[c].pc = "returned"
    BY <1>9 DEF Fail
  <2>2. s \in CallerState /\ s.pc \in {"idle", "gate"}
    <3>1. PICK p, q : p = caller[c].repairs + 1 /\ q = caller[c].retries + 1
      OBVIOUS
    <3>2. p \in Nat /\ q \in Nat
      BY <1>0, <3>1 DEF CallerState
    <3>3. [caller[c] EXCEPT !.pc = "gate", !.repairs = p] \in CallerState
      BY <1>0, <3>2 DEF CallerState, Calling
    <3>4. [caller[c] EXCEPT !.pc = "gate", !.retries = q] \in CallerState
      BY <1>0, <3>2 DEF CallerState, Calling
    <3>5. /\ [caller[c] EXCEPT !.pc = "gate", !.repairs = p].pc = "gate"
          /\ [caller[c] EXCEPT !.pc = "gate", !.retries = q].pc = "gate"
      BY <1>0 DEF CallerState
    <3>6. \/ s = [caller[c] EXCEPT !.pc = "gate", !.repairs = p]
          \/ s = [caller[c] EXCEPT !.pc = "gate", !.retries = q]
          \/ s = Done
      BY <1>0, <3>1 DEF Retried, CallerState
    <3>7. QED
      BY <3>3, <3>4, <3>5, <3>6, DoneState
  <2> HIDE DEF s
  <2>3. QED
    BY <1>0, <2>1, <2>2 DEF Calling
<1>10. QED
  BY <1>3, <1>4, <1>5, <1>6, <1>7, <1>8, <1>9 DEF CallerStep

\* The counts that FewLate compares.
LEMMA LateCounts ==
  ASSUME NEW b \in Seq(Nat), NEW i \in DOMAIN b
  PROVE  /\ IsFiniteSet(LateIn(b, i)) /\ Cardinality(LateIn(b, i)) \in Nat
         /\ Len(b) + 1 \notin LateIn(b, i)
<1>1. DOMAIN b = 1 .. Len(b) /\ Len(b) \in Nat
  OBVIOUS
<1>2. IsFiniteSet(1 .. Len(b))
  BY <1>1, FS_Interval
<1>3. LateIn(b, i) \subseteq 1 .. Len(b)
  BY <1>1 DEF LateIn
<1>4. IsFiniteSet(LateIn(b, i))
  BY <1>2, <1>3, FS_Subset
<1>5. QED
  BY <1>1, <1>3, <1>4, FS_CardinalityType

LEMMA LateAppended ==
  ASSUME NEW b \in Seq(Nat), NEW t \in Nat, NEW i \in DOMAIN b
  PROVE  /\ t < b[i] + Cooldown =>
              Cardinality(LateIn(Append(b, t), i)) = Cardinality(LateIn(b, i)) + 1
         /\ ~(t < b[i] + Cooldown) => LateIn(Append(b, t), i) = LateIn(b, i)
<1>1. DOMAIN b = 1 .. Len(b) /\ Len(b) \in Nat
  OBVIOUS
<1>2. PICK d : d = Append(b, t)
  OBVIOUS
<1>3. /\ DOMAIN d = 1 .. Len(b) + 1 /\ d[Len(b) + 1] = t
      /\ \A j \in 1 .. Len(b) : d[j] = b[j]
  BY <1>2
<1>4. d[i] = b[i] /\ i < Len(b) + 1 /\ b[i] \in Nat /\ i \in Nat
  BY <1>1, <1>3, ElementOfSeq
<1>5. CASE t < b[i] + Cooldown
  <2>1. LateIn(d, i) = LateIn(b, i) \cup {Len(b) + 1}
    BY <1>1, <1>3, <1>4, <1>5 DEF LateIn
  <2>2. QED
    BY <1>2, <1>5, <2>1, LateCounts, FS_AddElement
<1>6. CASE ~(t < b[i] + Cooldown)
  <2>1. LateIn(d, i) = LateIn(b, i)
    BY <1>1, <1>3, <1>4, <1>6 DEF LateIn
  <2>2. QED
    BY <1>2, <1>6, <2>1
<1>7. QED
  BY <1>5, <1>6

LEMMA FlyingCounts ==
  ASSUME NEW cl
  PROVE  /\ IsFiniteSet(FlyingIn(cl)) /\ Cardinality(FlyingIn(cl)) \in Nat
         /\ Cardinality(Callers) \in Nat
         /\ \A c \in Callers : c \notin FlyingIn(cl) =>
              Cardinality(FlyingIn(cl)) < Cardinality(Callers)
<1>1. FlyingIn(cl) \subseteq Callers /\ IsFiniteSet(Callers)
  BY GatewayNumbers DEF FlyingIn
<1>2. IsFiniteSet(FlyingIn(cl)) /\ Cardinality(FlyingIn(cl)) <= Cardinality(Callers)
  BY <1>1, FS_Subset
<1>3. Cardinality(FlyingIn(cl)) \in Nat /\ Cardinality(Callers) \in Nat
  BY <1>1, <1>2, FS_CardinalityType
<1>4. ASSUME NEW c \in Callers, c \notin FlyingIn(cl)
      PROVE  Cardinality(FlyingIn(cl)) < Cardinality(Callers)
  <2>1. FlyingIn(cl) # Callers
    BY <1>4
  <2>2. Cardinality(FlyingIn(cl)) # Cardinality(Callers)
    BY <1>1, <2>1, FS_Subset
  <2>3. QED
    BY <1>2, <1>3, <2>2
<1>5. QED
  BY <1>2, <1>3, <1>4

LEMMA FewerFly ==
  ASSUME NEW cl, NEW dl, FlyingIn(dl) \subseteq FlyingIn(cl)
  PROVE  /\ Cardinality(FlyingIn(dl)) <= Cardinality(FlyingIn(cl))
         /\ FlyingIn(dl) # FlyingIn(cl) =>
              Cardinality(FlyingIn(dl)) < Cardinality(FlyingIn(cl))
<1>1. Cardinality(FlyingIn(dl)) \in Nat /\ Cardinality(FlyingIn(cl)) \in Nat
  BY FlyingCounts
<1>2. /\ Cardinality(FlyingIn(dl)) <= Cardinality(FlyingIn(cl))
      /\ FlyingIn(dl) # FlyingIn(cl) =>
           Cardinality(FlyingIn(dl)) # Cardinality(FlyingIn(cl))
  BY FlyingCounts, FS_Subset
<1>3. QED
  BY <1>1, <1>2

\* What becomes of the clock, the breaker and the failures in a row.
BreakerShuts ==
  breaker' = [failures |-> 0, opened |-> Shut] /\ burst' = <<>> /\ time' = time

BreakerHears ==
  breaker' = Failed(breaker) /\ burst' = Append(burst, time) /\ time' = time

LEMMA BreakerMoves ==
  ASSUME [GatewayNext]_gatewayVars
  PROVE  \/ UNCHANGED <<time, breaker, burst>>
         \/ time' = time + 1 /\ UNCHANGED <<breaker, burst, caller>>
         \/ BreakerShuts
         \/ \E c \in Callers : PassBreaker(c)
         \/ \E c \in Callers : Fail(c) /\ BreakerHears
<1>1. CASE UNCHANGED gatewayVars
  BY <1>1 DEF gatewayVars
<1>2. CASE Pass
  BY <1>2 DEF Pass
<1>3. ASSUME NEW c \in Callers, CallerStep(c)
      PROVE  \/ UNCHANGED <<time, breaker, burst>>
             \/ BreakerShuts
             \/ PassBreaker(c)
             \/ Fail(c) /\ BreakerHears
  <2>1. CASE Execute(c) \/ CircuitOpen(c) \/ Escape(c)
    BY <2>1 DEF Execute, CircuitOpen, Escape
  <2>2. CASE AcquireRate(c)
    BY <2>2 DEF AcquireRate
  <2>3. CASE BeginCall(c)
    BY <2>3 DEF BeginCall
  <2>4. CASE AdapterReturns(c)
    BY <2>4 DEF AdapterReturns
  <2>5. CASE Fail(c)
    BY <2>5 DEF Fail, BreakerHears
  <2>6. CASE Succeed(c) \/ RecordFails(c)
    BY <2>6 DEF Succeed, RecordFails, BreakerShuts
  <2>7. QED
    BY <1>3, <2>1, <2>2, <2>3, <2>4, <2>5, <2>6 DEF CallerStep
<1>4. CASE \E c \in Callers : CallerStep(c)
  BY <1>3, <1>4
<1>5. QED
  BY <1>1, <1>2, <1>4 DEF GatewayNext, CallerStep

\* Failed, field by field.
LEMMA FailedFields ==
  ASSUME GatewayTyped
  PROVE  /\ Failed(breaker).failures = breaker.failures + 1
         /\ breaker.failures + 1 >= Threshold => Failed(breaker).opened = time
         /\ ~(breaker.failures + 1 >= Threshold) =>
              Failed(breaker).opened = breaker.opened
         /\ Failed(breaker) \in [failures : Nat, opened : Nat \cup {Shut}]
<1>1. PICK p : p = breaker.failures + 1
  OBVIOUS
<1>2. /\ p \in Nat /\ time \in Nat /\ breaker.opened \in Nat \cup {Shut}
  BY <1>1 DEF GatewayTyped
<1>3. QED
  BY <1>1, <1>2 DEF Failed

LEMMA BreakerTyped ==
  ASSUME GatewayTyped, [GatewayNext]_gatewayVars
  PROVE  /\ time' \in Nat /\ burst' \in Seq(Nat)
         /\ breaker' \in [failures : Nat, opened : Nat \cup {Shut}]
<1>1. /\ time \in Nat /\ burst \in Seq(Nat)
      /\ breaker \in [failures : Nat, opened : Nat \cup {Shut}]
  BY DEF GatewayTyped
<1>2. Threshold - 1 \in Nat
  BY GatewayNumbers
<1>3. CASE UNCHANGED <<time, breaker, burst>>
  BY <1>1, <1>3
<1>4. CASE time' = time + 1 /\ UNCHANGED <<breaker, burst, caller>>
  BY <1>1, <1>4
<1>5. CASE BreakerShuts
  BY <1>1, <1>5 DEF BreakerShuts
<1>6. CASE \E c \in Callers : PassBreaker(c)
  BY <1>1, <1>2, <1>6 DEF PassBreaker
<1>7. CASE \E c \in Callers : Fail(c) /\ BreakerHears
  <2>1. breaker' \in [failures : Nat, opened : Nat \cup {Shut}]
    BY <1>7, FailedFields DEF BreakerHears
  <2>2. Append(burst, time) \in Seq(Nat)
    BY <1>1
  <2>3. QED
    BY <1>1, <1>7, <2>1, <2>2 DEF BreakerHears
<1>8. QED
  BY <1>3, <1>4, <1>5, <1>6, <1>7, BreakerMoves

LEMMA InOrderKept ==
  ASSUME GatewayTyped, InOrder, [GatewayNext]_gatewayVars
  PROVE  InOrder'
<1>1. time \in Nat /\ burst \in Seq(Nat) /\ DOMAIN burst = 1 .. Len(burst)
  BY DEF GatewayTyped
<1>2. CASE UNCHANGED <<time, burst>>
  BY <1>2 DEF InOrder
<1>3. CASE time' = time + 1 /\ UNCHANGED burst
  <2>1. \A i \in DOMAIN burst : burst[i] \in Nat
    BY <1>1, ElementOfSeq
  <2>2. QED
    BY <1>1, <1>3, <2>1 DEF InOrder
<1>4. CASE burst' = <<>>
  BY <1>4 DEF InOrder
<1>5. CASE burst' = Append(burst, time) /\ time' = time
  <2>1. /\ DOMAIN burst' = 1 .. Len(burst) + 1 /\ burst'[Len(burst) + 1] = time
        /\ \A j \in 1 .. Len(burst) : burst'[j] = burst[j]
    BY <1>1, <1>5
  <2>2. \A i \in DOMAIN burst' : i \in 1 .. Len(burst) \/ i = Len(burst) + 1
    BY <1>1, <2>1
  <2>3. \A i \in DOMAIN burst' : burst'[i] <= time
    BY <1>1, <2>1, <2>2 DEF InOrder
  <2>4. ASSUME NEW i \in DOMAIN burst', NEW j \in DOMAIN burst', i <= j
        PROVE  burst'[i] <= burst'[j]
    <3>1. CASE j = Len(burst) + 1
      BY <2>1, <2>3, <3>1
    <3>2. CASE j \in 1 .. Len(burst)
      <4>1. i \in 1 .. Len(burst)
        BY <1>1, <2>2, <2>4, <3>2
      <4>2. QED
        BY <1>1, <2>1, <2>4, <3>2, <4>1 DEF InOrder
    <3>3. QED
      BY <2>2, <3>1, <3>2
  <2>5. QED
    BY <1>5, <2>3, <2>4 DEF InOrder
<1>6. QED
  BY <1>2, <1>3, <1>4, <1>5, BreakerMoves DEF BreakerShuts, BreakerHears, PassBreaker

LEMMA SparesKept ==
  ASSUME GatewayTyped, Spares, [GatewayNext]_gatewayVars
  PROVE  Spares'
<1>1. /\ time \in Nat /\ burst \in Seq(Nat) /\ Len(burst) \in Nat
      /\ breaker.failures \in Nat /\ breaker.opened \in Nat \cup {Shut}
      /\ Threshold \in Nat \ {0} /\ Cooldown \in Nat
  BY GatewayNumbers DEF GatewayTyped
<1>2. Len(burst) >= Threshold => burst[Len(burst)] \in Nat
  BY <1>1, ElementOfSeq
<1>3. CASE UNCHANGED <<time, breaker, burst>>
  BY <1>3 DEF Spares
<1>4. CASE time' = time + 1 /\ UNCHANGED <<breaker, burst>>
  BY <1>1, <1>2, <1>4 DEF Spares
<1>5. CASE BreakerShuts
  <2>1. breaker'.failures = 0 /\ Len(burst') = 0
    BY <1>5 DEF BreakerShuts
  <2>2. QED
    BY <1>1, <2>1 DEF Spares
<1>6. CASE \E c \in Callers : PassBreaker(c)
  <2>1. CASE breaker.opened = Shut
    BY <1>6, <2>1 DEF Spares, PassBreaker
  <2>2. CASE breaker.opened # Shut
    <3>1. /\ breaker'.failures = Threshold - 1 /\ breaker'.opened = Shut
          /\ time - breaker.opened >= Cooldown /\ time' = time /\ burst' = burst
      BY <1>6, <2>2 DEF PassBreaker, Cooled
    <3>2. breaker.opened \in Nat
      BY <1>1, <2>2
    <3>3. Len(burst) >= Threshold => time >= burst[Len(burst)] + Cooldown
      BY <1>1, <1>2, <2>2, <3>1, <3>2 DEF Spares
    <3>4. QED
      BY <1>1, <3>1, <3>3 DEF Spares
  <2>3. QED
    BY <2>1, <2>2
<1>7. CASE \E c \in Callers : Fail(c) /\ BreakerHears
  <2>1. /\ breaker'.failures = breaker.failures + 1
        /\ breaker.failures + 1 >= Threshold => breaker'.opened = time
        /\ Len(burst') = Len(burst) + 1 /\ burst'[Len(burst) + 1] = time
    BY <1>1, <1>7, FailedFields DEF BreakerHears
  <2>2. breaker'.failures >= Threshold => breaker'.opened = time
    BY <1>1, <2>1
  <2>3. Len(burst') < Threshold => breaker'.failures >= Len(burst')
    BY <1>1, <2>1 DEF Spares
  <2>4. Len(burst') >= Threshold => breaker'.failures >= Threshold
    BY <1>1, <2>1 DEF Spares
  <2>5. time # Shut
    BY <1>1 DEF Shut
  <2>6. QED
    BY <1>1, <2>1, <2>2, <2>3, <2>4, <2>5 DEF Spares
<1>8. QED
  BY <1>3, <1>4, <1>5, <1>6, <1>7, BreakerMoves

\* What becomes of the budgets.
LEMMA BudgetMoves ==
  ASSUME GatewayTyped, Reserved, NEW c \in Callers, CallerStep(c)
  PROVE  /\ budget' \in [Callers -> [calls : Nat, tokens : Nat]]
         /\ \A d \in Callers \ {c} : budget'[d] = budget[d]
         /\ budget'[c].tokens <= MaxTokens /\ budget'[c].calls <= MaxCalls
         /\ BeginCall(c) => budget'[c].tokens = budget[c].tokens
<1>1. /\ budget \in [Callers -> [calls : Nat, tokens : Nat]]
      /\ budget[c].calls \in Nat /\ budget[c].tokens \in Nat
      /\ budget[c].tokens <= MaxTokens /\ budget[c].calls <= MaxCalls
  BY DEF GatewayTyped, Reserved
<1>2. CASE UNCHANGED budget
  BY <1>1, <1>2
<1>3. CASE BeginCall(c) /\ Affordable(c)
  <2>1. PICK p : p = budget[c].calls + 1
    OBVIOUS
  <2>2. p \in Nat /\ p <= MaxCalls
    BY <1>1, <1>3, <2>1, GatewayNumbers DEF Affordable
  <2> DEFINE s == [budget[c] EXCEPT !.calls = p]
  <2>3. /\ s \in [calls : Nat, tokens : Nat]
        /\ s.calls = p /\ s.tokens = budget[c].tokens
    BY <1>1, <2>2
  <2>4. budget' = [budget EXCEPT ![c] = s]
    BY <1>1, <1>3, <2>1 DEF BeginCall
  <2> HIDE DEF s
  <2>5. QED
    BY <1>1, <2>2, <2>3, <2>4
<1>4. CASE AdapterReturns(c)
  <2>1. PICK res \in Results, u \in 0 .. Estimate + Overrun :
          budget' = IF Settled(res, u).charged
                    THEN [budget EXCEPT ![c].tokens = @ + u] ELSE budget
    BY <1>4 DEF AdapterReturns
  <2>2. CASE Settled(res, u).charged
    <3>1. u <= Estimate /\ u \in Nat
      BY <2>2, GatewayNumbers DEF Settled
    <3>2. PICK p : p = budget[c].tokens + u
      OBVIOUS
    <3>3. caller[c].pc = "call"
      BY <1>4 DEF AdapterReturns
    <3>4. p \in Nat /\ p <= MaxTokens
      BY <1>1, <3>1, <3>2, <3>3, GatewayNumbers DEF Reserved
    <3> DEFINE s == [budget[c] EXCEPT !.tokens = p]
    <3>5. /\ s \in [calls : Nat, tokens : Nat]
          /\ s.calls = budget[c].calls /\ s.tokens = p
      BY <1>1, <3>4
    <3>6. budget' = [budget EXCEPT ![c] = s]
      BY <1>1, <2>1, <2>2, <3>2
    <3> HIDE DEF s
    <3>7. ~BeginCall(c)
      BY <3>3 DEF BeginCall
    <3>8. QED
      BY <1>1, <3>4, <3>5, <3>6, <3>7
  <2>3. CASE ~Settled(res, u).charged
    BY <1>2, <2>1, <2>3
  <2>4. QED
    BY <2>2, <2>3
<1>5. BeginCall(c) /\ ~Affordable(c) => UNCHANGED budget
  BY DEF BeginCall
<1>6. \/ UNCHANGED budget
      \/ BeginCall(c) \/ AdapterReturns(c)
  <2>1. CASE AcquireRate(c)
    BY <2>1 DEF AcquireRate
  <2>2. CASE Fail(c)
    BY <2>2 DEF Fail
  <2>3. CASE Execute(c) \/ PassBreaker(c) \/ CircuitOpen(c)
    BY <2>3 DEF Execute, PassBreaker, CircuitOpen
  <2>4. CASE Escape(c) \/ Succeed(c) \/ RecordFails(c)
    BY <2>4 DEF Escape, Succeed, RecordFails
  <2>5. QED
    BY <2>1, <2>2, <2>3, <2>4 DEF CallerStep
<1>7. QED
  BY <1>2, <1>3, <1>4, <1>5, <1>6

LEMMA ReservedKept ==
  ASSUME GatewayTyped, Reserved, NEW c \in Callers, CallerStep(c)
  PROVE  Reserved'
<1>1. /\ \A d \in Callers \ {c} : caller'[d] = caller[d]
      /\ caller'[c].pc = "call" => BeginCall(c) /\ Affordable(c)
  BY CallerMoves
<1>2. /\ \A d \in Callers \ {c} : budget'[d] = budget[d]
      /\ budget'[c].tokens <= MaxTokens /\ budget'[c].calls <= MaxCalls
      /\ BeginCall(c) => budget'[c].tokens = budget[c].tokens
  BY BudgetMoves
<1>3. caller'[c].pc = "call" => budget'[c].tokens + Estimate <= MaxTokens
  BY <1>1, <1>2 DEF Affordable
<1>4. ASSUME NEW d \in Callers
      PROVE  /\ budget'[d].tokens <= MaxTokens /\ budget'[d].calls <= MaxCalls
             /\ caller'[d].pc = "call" => budget'[d].tokens + Estimate <= MaxTokens
  <2>1. CASE d = c
    BY <1>2, <1>3, <2>1
  <2>2. CASE d # c
    BY <1>1, <1>2, <2>2 DEF Reserved
  <2>3. QED
    BY <2>1, <2>2
<1>5. QED
  BY <1>4 DEF Reserved

\* FewLate in terms of the two sets it counts.
FewLateIn(b, cl, t) ==
  \A i \in DOMAIN b : i >= Threshold =>
    /\ Cardinality(LateIn(b, i)) < Cardinality(Callers)
    /\ t < b[i] + Cooldown =>
         Cardinality(LateIn(b, i)) + Cardinality(FlyingIn(cl)) < Cardinality(Callers)

LEMMA FewLateStep ==
  ASSUME NEW b \in Seq(Nat), NEW cl, NEW dl, NEW t \in Nat, NEW u \in Nat,
         FewLateIn(b, cl, t), t <= u,
         \/ FlyingIn(dl) \subseteq FlyingIn(cl)
         \/ \A i \in DOMAIN b : i >= Threshold => ~(t < b[i] + Cooldown)
  PROVE  FewLateIn(b, dl, u)
<1> SUFFICES ASSUME NEW i \in DOMAIN b, i >= Threshold
             PROVE  /\ Cardinality(LateIn(b, i)) < Cardinality(Callers)
                    /\ u < b[i] + Cooldown =>
                         Cardinality(LateIn(b, i)) + Cardinality(FlyingIn(dl))
                           < Cardinality(Callers)
  BY DEF FewLateIn
<1>1. b[i] \in Nat /\ Cooldown \in Nat
  BY GatewayNumbers, ElementOfSeq
<1>2. u < b[i] + Cooldown => t < b[i] + Cooldown
  BY <1>1
<1>3. /\ Cardinality(LateIn(b, i)) < Cardinality(Callers)
      /\ t < b[i] + Cooldown =>
           Cardinality(LateIn(b, i)) + Cardinality(FlyingIn(cl)) < Cardinality(Callers)
  BY DEF FewLateIn
<1>4. CASE FlyingIn(dl) \subseteq FlyingIn(cl)
  <2>1. /\ Cardinality(LateIn(b, i)) \in Nat /\ Cardinality(Callers) \in Nat
        /\ Cardinality(FlyingIn(cl)) \in Nat /\ Cardinality(FlyingIn(dl)) \in Nat
    BY LateCounts, FlyingCounts
  <2>2. Cardinality(FlyingIn(dl)) <= Cardinality(FlyingIn(cl))
    BY <1>4, FewerFly
  <2>3. QED
    BY <1>2, <1>3, <2>1, <2>2
<1>5. CASE ~(t < b[i] + Cooldown)
  BY <1>2, <1>3, <1>5
<1>6. QED
  BY <1>4, <1>5

LEMMA FewLateFail ==
  ASSUME NEW b \in Seq(Nat), NEW cl, NEW dl, NEW t \in Nat,
         FewLateIn(b, cl, t), NEW c \in Callers,
         c \in FlyingIn(cl), c \notin FlyingIn(dl), FlyingIn(dl) \subseteq FlyingIn(cl)
  PROVE  FewLateIn(Append(b, t), dl, t)
<1>1. PICK d : d = Append(b, t)
  OBVIOUS
<1>2. /\ d \in Seq(Nat) /\ DOMAIN d = 1 .. Len(b) + 1 /\ d[Len(b) + 1] = t
      /\ DOMAIN b = 1 .. Len(b) /\ Len(b) \in Nat
      /\ \A j \in 1 .. Len(b) : d[j] = b[j]
  BY <1>1
<1>3. /\ Cardinality(Callers) \in Nat /\ Cardinality(FlyingIn(cl)) \in Nat
      /\ Cardinality(FlyingIn(dl)) \in Nat
      /\ Cardinality(FlyingIn(dl)) < Cardinality(Callers)
      /\ Cardinality(FlyingIn(dl)) < Cardinality(FlyingIn(cl))
  <2>1. FlyingIn(dl) # FlyingIn(cl)
    OBVIOUS
  <2>2. QED
    BY <2>1, FlyingCounts, FewerFly
<1> SUFFICES ASSUME NEW i \in DOMAIN d, i >= Threshold
             PROVE  /\ Cardinality(LateIn(d, i)) < Cardinality(Callers)
                    /\ t < d[i] + Cooldown =>
                         Cardinality(LateIn(d, i)) + Cardinality(FlyingIn(dl))
                           < Cardinality(Callers)
  BY <1>1 DEF FewLateIn
<1>4. CASE i = Len(b) + 1
  <2>1. LateIn(d, i) = {}
    BY <1>2, <1>4 DEF LateIn
  <2>2. Cardinality(LateIn(d, i)) = 0
    BY <2>1, FS_EmptySet
  <2>3. QED
    BY <1>3, <2>2
<1>5. CASE i \in DOMAIN b
  <2>1. /\ Cardinality(LateIn(b, i)) < Cardinality(Callers)
        /\ t < b[i] + Cooldown =>
             Cardinality(LateIn(b, i)) + Cardinality(FlyingIn(cl)) < Cardinality(Callers)
    BY <1>5 DEF FewLateIn
  <2>2. Cardinality(LateIn(b, i)) \in Nat
    BY <1>5, LateCounts
  <2>3. /\ t < b[i] + Cooldown =>
             Cardinality(LateIn(d, i)) = Cardinality(LateIn(b, i)) + 1
        /\ ~(t < b[i] + Cooldown) => LateIn(d, i) = LateIn(b, i)
    BY <1>1, <1>5, LateAppended
  <2>4. d[i] = b[i]
    BY <1>2, <1>5
  <2>5. QED
    BY <1>3, <2>1, <2>2, <2>3, <2>4
<1>6. QED
  BY <1>2, <1>4, <1>5

LEMMA FewLateKept ==
  ASSUME GatewayTyped, InOrder, Spares, FewLate, [GatewayNext]_gatewayVars
  PROVE  FewLate'
<1>1. /\ time \in Nat /\ burst \in Seq(Nat) /\ DOMAIN burst = 1 .. Len(burst)
      /\ Len(burst) \in Nat /\ breaker.opened \in Nat \cup {Shut}
      /\ Threshold \in Nat \ {0} /\ Cooldown \in Nat
  BY GatewayNumbers DEF GatewayTyped
<1>2. FewLateIn(burst, caller, time)
  BY DEF FewLate, FewLateIn, Late, Flying
<1>3. SUFFICES FewLateIn(burst', caller', time')
  BY DEF FewLate, FewLateIn, Late, Flying
<1>4. ASSUME NEW c \in Callers, CallerStep(c), ~PassBreaker(c)
      PROVE  /\ FlyingIn(caller') \subseteq FlyingIn(caller)
             /\ Fail(c) => c \in FlyingIn(caller) /\ c \notin FlyingIn(caller')
  <2>1. /\ \A d \in Callers \ {c} : caller'[d] = caller[d]
        /\ caller'[c].pc \in Calling => caller[c].pc \in Calling \/ PassBreaker(c)
        /\ Fail(c) => caller[c].pc \in Calling /\ caller'[c].pc \notin Calling
    BY <1>4, CallerMoves
  <2>2. QED
    BY <1>4, <2>1 DEF FlyingIn
<1>5. ASSUME NEW c \in Callers, PassBreaker(c)
      PROVE  FewLateIn(burst', caller', time')
  <2>1. burst' = burst /\ time' = time
    BY <1>5 DEF PassBreaker
  <2>2. ASSUME NEW i \in DOMAIN burst, i >= Threshold
        PROVE  ~(time < burst[i] + Cooldown)
    <3>1. /\ Len(burst) >= Threshold /\ Len(burst) \in DOMAIN burst /\ i <= Len(burst)
          /\ i \in Nat
      BY <1>1, <2>2
    <3>2. burst[i] \in Nat /\ burst[Len(burst)] \in Nat
      BY <1>1, <3>1, ElementOfSeq
    <3>3. burst[i] <= burst[Len(burst)]
      BY <3>1 DEF InOrder
    <3>4. time >= burst[Len(burst)] + Cooldown
      <4>1. CASE breaker.opened = Shut
        BY <3>1, <4>1 DEF Spares
      <4>2. CASE breaker.opened # Shut
        <5>1. breaker.opened = burst[Len(burst)] /\ time - breaker.opened >= Cooldown
          BY <1>5, <3>1, <4>2 DEF Spares, PassBreaker, Cooled
        <5>2. QED
          BY <1>1, <3>2, <5>1
      <4>3. QED
        BY <4>1, <4>2
    <3>5. QED
      BY <1>1, <3>2, <3>3, <3>4
  <2>3. FewLateIn(burst, caller', time)
    <3>1. time <= time
      BY <1>1
    <3>2. \A i \in DOMAIN burst : i >= Threshold => ~(time < burst[i] + Cooldown)
      BY <2>2
    <3>3. QED
      BY <1>1, <1>2, <3>1, <3>2, FewLateStep
  <2>4. QED
    BY <2>1, <2>3
<1>6. CASE UNCHANGED gatewayVars
  BY <1>2, <1>6 DEF gatewayVars
<1>7. CASE Pass
  <2>1. burst' = burst /\ caller' = caller /\ time' = time + 1
    BY <1>7 DEF Pass
  <2>2. FewLateIn(burst, caller, time + 1)
    <3>1. time <= time + 1 /\ time + 1 \in Nat
      BY <1>1
    <3>2. FlyingIn(caller) \subseteq FlyingIn(caller)
      OBVIOUS
    <3>3. QED
      BY <1>1, <1>2, <3>1, <3>2, FewLateStep
  <2>3. QED
    BY <2>1, <2>2
<1>8. ASSUME NEW c \in Callers, CallerStep(c), ~PassBreaker(c)
      PROVE  FewLateIn(burst', caller', time')
  <2>1. [GatewayNext]_gatewayVars
    OBVIOUS
  <2>2. CASE burst' = burst /\ time' = time
    <3>1. FewLateIn(burst, caller', time)
      <4>1. time <= time
        BY <1>1
      <4>2. FlyingIn(caller') \subseteq FlyingIn(caller)
        BY <1>4, <1>8
      <4>3. QED
        BY <1>1, <1>2, <4>1, <4>2, FewLateStep
    <3>2. QED
      BY <2>2, <3>1
  <2>3. CASE burst' = <<>>
    BY <2>3 DEF FewLateIn
  <2>4. CASE Fail(c) /\ burst' = Append(burst, time) /\ time' = time
    <3>1. /\ c \in FlyingIn(caller) /\ c \notin FlyingIn(caller')
          /\ FlyingIn(caller') \subseteq FlyingIn(caller)
      BY <1>4, <1>8, <2>4
    <3>2. FewLateIn(Append(burst, time), caller', time)
      BY <1>1, <1>2, <3>1, FewLateFail
    <3>3. QED
      BY <2>4, <3>2
  <2>5. \/ burst' = burst /\ time' = time
        \/ burst' = <<>>
        \/ Fail(c) /\ burst' = Append(burst, time) /\ time' = time
    <3>1. CASE AcquireRate(c)
      BY <3>1 DEF AcquireRate
    <3>2. CASE BeginCall(c)
      BY <3>2 DEF BeginCall
    <3>3. CASE AdapterReturns(c)
      BY <3>3 DEF AdapterReturns
    <3>4. CASE Fail(c)
      BY <3>4 DEF Fail
    <3>5. CASE Execute(c) \/ CircuitOpen(c) \/ Escape(c)
      BY <3>5 DEF Execute, CircuitOpen, Escape
    <3>6. CASE Succeed(c) \/ RecordFails(c)
      BY <3>6 DEF Succeed, RecordFails
    <3>7. QED
      BY <1>8, <3>1, <3>2, <3>3, <3>4, <3>5, <3>6 DEF CallerStep
  <2>6. QED
    BY <2>2, <2>3, <2>4, <2>5
<1>9. QED
  BY <1>5, <1>6, <1>7, <1>8 DEF GatewayNext, CallerStep

LEMMA GatewayStart ==
  ASSUME GatewayInit
  PROVE  GatewayInv
<1>1. GatewayTyped
  BY DoneState DEF GatewayInit, GatewayTyped, CallerState
<1>2. Reserved
  BY GatewayNumbers, DoneState DEF GatewayInit, Reserved
<1>3. InOrder /\ FewLate
  BY DEF GatewayInit, InOrder, FewLate
<1>4. Spares
  BY GatewayNumbers DEF GatewayInit, Spares
<1>5. QED
  BY <1>1, <1>2, <1>3, <1>4 DEF GatewayInv

LEMMA GatewayStep ==
  ASSUME GatewayInv, [GatewayNext]_gatewayVars
  PROVE  GatewayInv'
<1>1. GatewayTyped /\ Reserved /\ InOrder /\ Spares /\ FewLate
  BY DEF GatewayInv
<1>2. InOrder' /\ Spares' /\ FewLate'
  BY <1>1, InOrderKept, SparesKept, FewLateKept
<1>3. /\ time' \in Nat /\ burst' \in Seq(Nat)
      /\ breaker' \in [failures : Nat, opened : Nat \cup {Shut}]
  BY <1>1, BreakerTyped
<1>4. CASE UNCHANGED <<caller, budget>>
  <2>1. GatewayTyped'
    BY <1>1, <1>3, <1>4 DEF GatewayTyped
  <2>2. Reserved'
    BY <1>1, <1>4 DEF Reserved
  <2>3. QED
    BY <1>2, <2>1, <2>2 DEF GatewayInv
<1>5. ASSUME NEW c \in Callers, CallerStep(c)
      PROVE  GatewayInv'
  <2>1. Reserved'
    BY <1>1, <1>5, ReservedKept
  <2>2. caller' \in [Callers -> CallerState]
    BY <1>1, <1>5, CallerMoves
  <2>3. budget' \in [Callers -> [calls : Nat, tokens : Nat]]
    BY <1>1, <1>5, BudgetMoves
  <2>4. GatewayTyped'
    BY <1>3, <2>2, <2>3 DEF GatewayTyped
  <2>5. QED
    BY <1>2, <2>1, <2>4 DEF GatewayInv
<1>6. QED
  BY <1>4, <1>5 DEF GatewayNext, CallerStep, Pass, gatewayVars

\* However many callers share a provider and whatever it answers: once Threshold
\* calls in a row have failed, fewer failures than there are callers follow within
\* a cool-down, and no job is charged more calls or tokens than its budget has.
THEOREM GatewayBounded == GatewaySpec => []GatewayIsBounded
<1>1. GatewayInv => GatewayIsBounded
  <2>1. FewLate => StormIsShort
    BY DEF FewLate, Late, LateIn, StormIsShort
  <2>2. Reserved => BudgetHolds
    BY DEF Reserved, BudgetHolds
  <2>3. QED
    BY <2>1, <2>2 DEF GatewayInv, GatewayIsBounded
<1>2. QED
  BY <1>1, GatewayStart, GatewayStep, PTL DEF GatewaySpec

-----------------------------------------------------------------------------
(* Ranks in a finite set                                                   *)

\* How many members of S the relation R puts before t.
RankIn(S, R, t) == Cardinality({s \in S : <<s, t>> \in R})

Orders(R, S) ==
  /\ \A s \in S : <<s, s>> \notin R
  /\ \A s, t, u \in S : <<s, t>> \in R /\ <<t, u>> \in R => <<s, u>> \in R
  /\ \A s, t \in S : s = t \/ <<s, t>> \in R \/ <<t, s>> \in R

\* In a finite set with a strict order there is one member of every rank.
LEMMA RanksAreFilled ==
  ASSUME NEW S, IsFiniteSet(S), NEW R, Orders(R, S)
  PROVE  /\ Cardinality(S) \in Nat
         /\ \A t \in S : RankIn(S, R, t) \in 0 .. Cardinality(S) - 1
         /\ \A t, u \in S : <<t, u>> \in R => RankIn(S, R, t) < RankIn(S, R, u)
         /\ \A k \in 1 .. Cardinality(S) : \E t \in S : RankIn(S, R, t) = k - 1
<1> DEFINE under(t) == {s \in S : <<s, t>> \in R}
<1>1. ASSUME NEW t \in S
      PROVE  /\ IsFiniteSet(under(t)) /\ Cardinality(under(t)) \in Nat
             /\ Cardinality(under(t)) < Cardinality(S) /\ Cardinality(S) \in Nat
  <2>1. under(t) \subseteq S /\ under(t) # S
    BY DEF Orders
  <2>2. /\ IsFiniteSet(under(t)) /\ Cardinality(under(t)) <= Cardinality(S)
        /\ Cardinality(S) # Cardinality(under(t))
    BY <2>1, FS_Subset
  <2> HIDE DEF under
  <2>3. Cardinality(under(t)) \in Nat /\ Cardinality(S) \in Nat
    BY <2>2, FS_CardinalityType
  <2>4. QED
    BY <2>2, <2>3
<1>2. ASSUME NEW t \in S, NEW u \in S, <<t, u>> \in R
      PROVE  Cardinality(under(t)) < Cardinality(under(u))
  <2>1. under(t) \subseteq under(u) /\ t \in under(u) /\ t \notin under(t)
    BY <1>2 DEF Orders
  <2>2. /\ Cardinality(under(t)) \in Nat /\ Cardinality(under(u)) \in Nat
        /\ IsFiniteSet(under(u))
    BY <1>1
  <2> HIDE DEF under
  <2>3. /\ Cardinality(under(t)) <= Cardinality(under(u))
        /\ Cardinality(under(u)) # Cardinality(under(t))
    BY <2>1, <2>2, FS_Subset
  <2>4. QED
    BY <2>2, <2>3
<1>3. Cardinality(S) \in Nat
  BY FS_CardinalityType
<1>4. ASSUME NEW k \in 1 .. Cardinality(S)
      PROVE  \E t \in S : Cardinality(under(t)) = k - 1
  <2> DEFINE n == Cardinality(S)
             T == 0 .. n - 1
             f == [t \in S |-> Cardinality(under(t))]
  <2>1. ASSUME NEW t \in S, NEW u \in S, Cardinality(under(t)) = Cardinality(under(u))
        PROVE  t = u
    <3>1. Cardinality(under(t)) \in Nat
      BY <1>1
    <3>2. ~(<<t, u>> \in R) /\ ~(<<u, t>> \in R)
      <4> HIDE DEF under
      <4>1. QED
        BY <1>2, <2>1, <3>1
    <3>3. QED
      BY <3>2 DEF Orders
  <2>2. \A t \in S : Cardinality(under(t)) \in T
    <3> HIDE DEF under
    <3>1. QED
      BY <1>1, <1>3
  <2> HIDE DEF under
  <2>3. f \in Injection(S, T)
    BY <2>1, <2>2 DEF Injection, IsInjective
  <2>4. IsFiniteSet(T) /\ Cardinality(T) = Cardinality(S)
    <3>1. 0 \in Int /\ n - 1 \in Int /\ (0 > n - 1 => n = 0)
      BY <1>3
    <3>2. IsFiniteSet(T) /\ Cardinality(T) = IF 0 > n - 1 THEN 0 ELSE n - 1 - 0 + 1
      BY <3>1, FS_Interval
    <3>3. QED
      BY <1>3, <3>1, <3>2
  <2>5. f \in Surjection(S, T)
    <3> HIDE DEF f, T
    <3>1. QED
      BY <2>3, <2>4, FS_Injection
  <2>6. k - 1 \in T
    BY <1>3
  <2>7. \E t \in S : f[t] = k - 1
    BY <2>5, <2>6 DEF Surjection
  <2>8. QED
    BY <2>7
<1>5. QED
  <2>1. \A t \in S : RankIn(S, R, t) = Cardinality(under(t))
    BY DEF RankIn
  <2> HIDE DEF under
  <2>2. QED
    BY <1>1, <1>2, <1>3, <1>4, <2>1

-----------------------------------------------------------------------------
(* The frame sampler                                                       *)

\* The bins' centres are inside the medium, and of different times.
LEMMA BinCentres ==
  ASSUME NEW d \in Nat, NEW count \in 1 .. d
  PROVE  /\ \A k \in 1 .. count : BinCentre(d, count, k) \in 0 .. d - 1
         /\ \A k \in 2 .. count : BinCentre(d, count, k - 1) < BinCentre(d, count, k)
<1> DEFINE m == 2 * count
           a(k) == (2 * (k - 1) + 1) * d
           q(k) == a(k) \div m
<1>1. m \in Nat \ {0} /\ 2 * d >= m
  OBVIOUS
<1>2. ASSUME NEW k \in 1 .. count
      PROVE  q(k) \in Nat /\ m * q(k) <= a(k) /\ a(k) < m * (q(k) + 1) /\ a(k) \in Nat
  <2>1. a(k) \in Nat
    <3>1. 2 * (k - 1) + 1 \in Nat
      OBVIOUS
    <3>2. QED
      BY <3>1
  <2> HIDE DEF m, a
  <2>2. QED
    BY <1>1, <2>1, Division
<1>3. ASSUME NEW k \in 1 .. count
      PROVE  q(k) \in 0 .. d - 1
  <2>1. a(k) < m * d
    <3>1. PICK r \in Nat : m = 2 * (k - 1) + 1 + 1 + r
      <4>1. m - 2 * k \in Nat /\ m = 2 * (k - 1) + 1 + 1 + (m - 2 * k)
        OBVIOUS
      <4>2. QED
        BY <4>1
    <3>2. m * d = a(k) + d + r * d
      BY <3>1
    <3>3. r * d >= 0 /\ d > 0
      OBVIOUS
    <3>4. a(k) \in Nat
      BY <1>2
    <3> HIDE DEF m, a
    <3>5. QED
      BY <3>2, <3>3, <3>4
  <2>2. q(k) \in Nat /\ m * q(k) <= a(k) /\ a(k) \in Nat
    BY <1>2
  <2> HIDE DEF a, q
  <2>3. m * q(k) < m * d
    BY <1>1, <2>1, <2>2
  <2> HIDE DEF m
  <2>4. q(k) < d
    BY <1>1, <2>2, <2>3, Products
  <2>5. QED
    BY <2>2, <2>4
<1>4. ASSUME NEW k \in 2 .. count
      PROVE  q(k - 1) < q(k)
  <2>1. k \in 1 .. count /\ k - 1 \in 1 .. count
    OBVIOUS
  <2>2. a(k) = a(k - 1) + 2 * d
    OBVIOUS
  <2>3. /\ q(k) \in Nat /\ a(k) < m * (q(k) + 1) /\ a(k) \in Nat
        /\ q(k - 1) \in Nat /\ m * q(k - 1) <= a(k - 1) /\ a(k - 1) \in Nat
    BY <1>2, <2>1
  <2>4. m * (q(k - 1) + 1) = m * q(k - 1) + m
    BY <2>3
  <2> HIDE DEF a, q
  <2>5. m * (q(k - 1) + 1) < m * (q(k) + 1)
    BY <1>1, <2>2, <2>3, <2>4
  <2> HIDE DEF m
  <2>6. q(k - 1) + 1 < q(k) + 1
    BY <1>1, <2>3, <2>5, Products
  <2>7. QED
    BY <2>3, <2>6
<1>5. ASSUME NEW k \in 1 .. count
      PROVE  BinCentre(d, count, k) = q(k)
  <2>1. BinCentre(d, count, k) = Least(d - 1, q(k))
    BY DEF BinCentre
  <2>2. q(k) \in 0 .. d - 1
    BY <1>3
  <2> HIDE DEF q
  <2>3. QED
    BY <2>1, <2>2 DEF Least
<1> HIDE DEF q
<1>6. \A k \in 2 .. count : k \in 1 .. count /\ k - 1 \in 1 .. count
  OBVIOUS
<1>7. QED
  BY <1>3, <1>4, <1>5, <1>6

\* Different times of the medium, in their order.
Sound(s, d) ==
  /\ s \in Seq(Int)
  /\ \A k \in 1 .. Len(s) : s[k] \in 0 .. d - 1
  /\ \A k \in 2 .. Len(s) : s[k - 1] < s[k]

LEMMA SoundFunctions ==
  ASSUME NEW d \in Nat, NEW n \in Nat, NEW s \in [1 .. n -> 0 .. d - 1],
         \A k \in 2 .. n : s[k - 1] < s[k]
  PROVE  Sound(s, d)
<1>1. s \in [1 .. n -> Int]
  OBVIOUS
<1>2. s \in Seq(Int) /\ Len(s) = n
  BY <1>1
<1>3. QED
  BY <1>2 DEF Sound

LEMMA UniformIsSound ==
  ASSUME NEW d \in Nat \ {0}, NEW n \in Nat \ {0}
  PROVE  Sound(UniformTimestamps(d, n), d) /\ UniformTimestamps(d, n)[1] \in 0 .. d - 1
<1>1. PICK c : c = FrameCount(d, n)
  OBVIOUS
<1>2. c \in 1 .. d
  BY <1>1 DEF FrameCount, Least
<1>3. PICK s : s = [k \in 1 .. c |-> BinCentre(d, c, k)]
  OBVIOUS
<1>4. UniformTimestamps(d, n) = s
  BY <1>1, <1>3 DEF UniformTimestamps
<1>5. /\ \A k \in 1 .. c : s[k] \in 0 .. d - 1
      /\ \A k \in 2 .. c : s[k - 1] < s[k]
  <2>1. /\ \A k \in 1 .. c : BinCentre(d, c, k) \in 0 .. d - 1
        /\ \A k \in 2 .. c : BinCentre(d, c, k - 1) < BinCentre(d, c, k)
    BY <1>2, BinCentres
  <2>2. \A k \in 2 .. c : k \in 1 .. c /\ k - 1 \in 1 .. c
    BY <1>2
  <2>3. QED
    BY <1>3, <2>1, <2>2
<1>6. s \in [1 .. c -> 0 .. d - 1] /\ c \in Nat /\ 1 \in 1 .. c
  BY <1>2, <1>3, <1>5
<1>7. QED
  BY <1>4, <1>5, <1>6, SoundFunctions

LEMMA SceneIsSound ==
  ASSUME NEW d \in Nat \ {0}, NEW raw \in SUBSET Int
  PROVE  Sound(SceneTimestamps(d, raw), d)
<1>1. PICK points : points = {Clamped(d, t) : t \in raw}
  OBVIOUS
<1>2. points \subseteq 0 .. d - 1
  BY <1>1 DEF Clamped, Least
<1>3. IsFiniteSet(points)
  <2>1. IsFiniteSet(0 .. d - 1)
    BY FS_Interval
  <2>2. QED
    BY <1>2, <2>1, FS_Subset
<1>4. CASE points = {}
  <2>1. SceneTimestamps(d, raw) = <<UniformTimestamps(d, 1)[1]>>
    BY <1>1, <1>4 DEF SceneTimestamps
  <2>2. PICK t : t = UniformTimestamps(d, 1)[1]
    OBVIOUS
  <2>3. t \in 0 .. d - 1
    BY <2>2, UniformIsSound
  <2>4. Sound(<<t>>, d)
    BY <2>3 DEF Sound
  <2>5. QED
    BY <2>1, <2>2, <2>4
<1>5. CASE points # {}
  <2> DEFINE R == {p \in points \X points : p[1] < p[2]}
  <2>1. \A s, t \in points : <<s, t>> \in R <=> s < t
    OBVIOUS
  <2>2. Orders(R, points)
    BY <1>2, <2>1 DEF Orders
  <2>3. \A t \in points : RankIn(points, R, t) = Cardinality({s \in points : s < t})
    <3>1. \A t \in points : {s \in points : <<s, t>> \in R} = {s \in points : s < t}
      BY <2>1
    <3>2. QED
      BY <3>1 DEF RankIn
  <2> HIDE DEF R
  <2>4. /\ Cardinality(points) \in Nat
        /\ \A t, u \in points : <<t, u>> \in R =>
             RankIn(points, R, t) < RankIn(points, R, u)
        /\ \A k \in 1 .. Cardinality(points) :
             \E t \in points : RankIn(points, R, t) = k - 1
    BY <1>3, <2>2, RanksAreFilled
  <2>5. ASSUME NEW k \in 1 .. Cardinality(points)
        PROVE  /\ Nth(points, k) \in points
               /\ RankIn(points, R, Nth(points, k)) = k - 1
    BY <2>3, <2>4 DEF Nth
  <2>6. ASSUME NEW k \in 2 .. Cardinality(points)
        PROVE  Nth(points, k - 1) < Nth(points, k)
    <3>1. PICK t, u : t = Nth(points, k - 1) /\ u = Nth(points, k)
      OBVIOUS
    <3>2. k \in 1 .. Cardinality(points) /\ k - 1 \in 1 .. Cardinality(points)
      BY <2>4
    <3>3. /\ t \in points /\ u \in points
          /\ RankIn(points, R, t) = k - 2 /\ RankIn(points, R, u) = k - 1
      BY <2>5, <3>1, <3>2
    <3>4. t # u /\ ~(u < t)
      <4>1. u < t => RankIn(points, R, u) < RankIn(points, R, t)
        BY <2>1, <2>4, <3>3
      <4>2. k \in Nat
        OBVIOUS
      <4>3. QED
        BY <3>3, <4>1, <4>2
    <3>5. QED
      BY <1>2, <3>1, <3>3, <3>4
  <2>7. PICK n : n = Least(MaxSceneFrames, Cardinality(points))
    OBVIOUS
  <2>8. n \in Nat /\ n <= Cardinality(points)
    BY <2>4, <2>7, SamplingAssumption DEF Least
  <2>9. PICK s : s = [k \in 1 .. n |-> Nth(points, k)]
    OBVIOUS
  <2>10. SceneTimestamps(d, raw) = s
    BY <1>1, <1>5, <2>7, <2>9 DEF SceneTimestamps
  <2>11. \A k \in 1 .. n : k \in 1 .. Cardinality(points)
    BY <2>4, <2>8
  <2>12. \A k \in 1 .. n : s[k] \in 0 .. d - 1
    BY <1>2, <2>5, <2>9, <2>11
  <2>13. \A k \in 2 .. n : /\ k \in 1 .. n /\ k - 1 \in 1 .. n
                           /\ k \in 2 .. Cardinality(points)
    BY <2>4, <2>8
  <2>14. \A k \in 2 .. n : s[k - 1] < s[k]
    BY <2>6, <2>9, <2>13
  <2>15. s \in [1 .. n -> 0 .. d - 1]
    BY <2>9, <2>12
  <2>16. QED
    BY <2>8, <2>10, <2>14, <2>15, SoundFunctions
<1>6. QED
  BY <1>4, <1>5

\* The frames of a call are those of its first timestamps.
SamplingInv ==
  /\ duration \in Nat \ {0}
  /\ Sound(stamps, duration)
  /\ frames \in Seq([local : Int, global : Int]) /\ Len(frames) <= Len(stamps)
  /\ \A k \in 1 .. Len(frames) :
       frames[k].local = stamps[k] /\ frames[k].global = Offset + stamps[k]
  /\ sampling # "unordered"

LEMMA NoFrames ==
  <<>> \in Seq([local : Int, global : Int]) /\ Len(<<>>) = 0
OBVIOUS

LEMMA SamplingStart == SamplingInit => SamplingInv
<1> SUFFICES ASSUME SamplingInit PROVE SamplingInv
  OBVIOUS
<1>1. duration \in Nat \ {0}
  BY SamplingAssumption DEF SamplingInit
<1>2. Sound(<<>>, duration)
  BY DEF Sound
<1>3. QED
  BY <1>1, <1>2, NoFrames DEF SamplingInit, SamplingInv

LEMMA SamplingStep == SamplingInv /\ [SamplingNext]_samplingVars => SamplingInv'
<1> SUFFICES ASSUME SamplingInv, [SamplingNext]_samplingVars PROVE SamplingInv'
  OBVIOUS
<1>0. /\ Offset \in Int /\ duration \in Nat \ {0} /\ stamps \in Seq(Int)
      /\ frames \in Seq([local : Int, global : Int])
      /\ Len(frames) \in Nat /\ Len(stamps) \in Nat /\ Len(frames) <= Len(stamps)
      /\ \A k \in 2 .. Len(stamps) : stamps[k - 1] < stamps[k]
      /\ \A k \in 1 .. Len(frames) :
           frames[k].local = stamps[k] /\ frames[k].global = Offset + stamps[k]
  BY SamplingAssumption DEF SamplingInv, Sound
<1>1. CASE UNCHANGED samplingVars
  BY <1>1 DEF samplingVars, SamplingInv
<1>2. CASE PlanFrames
  <2>1. Sound(stamps', duration)
    <3>1. ASSUME NEW n \in SampleCounts, stamps' = UniformTimestamps(duration, n)
          PROVE  Sound(stamps', duration)
      <4>1. n \in Nat \ {0}
        BY SamplingAssumption
      <4>2. QED
        BY <1>0, <3>1, <4>1, UniformIsSound
    <3>2. ASSUME NEW raw \in SceneChanges, stamps' = SceneTimestamps(duration, raw)
          PROVE  Sound(stamps', duration)
      <4>1. raw \in SUBSET Int
        BY SamplingAssumption
      <4>2. QED
        BY <1>0, <3>2, <4>1, SceneIsSound
    <3>3. QED
      BY <1>2, <3>1, <3>2 DEF PlanFrames
  <2>2. duration' = duration /\ frames' = <<>> /\ sampling' = "extract"
    BY <1>2 DEF PlanFrames
  <2>3. Len(stamps') \in Nat
    BY <2>1 DEF Sound
  <2>4. QED
    BY <1>0, <2>1, <2>2, <2>3, NoFrames DEF SamplingInv
<1>3. CASE ExtractOne
  <2>1. PICK t : t = stamps[Len(frames) + 1]
    OBVIOUS
  <2>2. /\ frames' = Append(frames, [local |-> t, global |-> Offset + t])
        /\ Len(frames) < Len(stamps)
        /\ UNCHANGED <<duration, sampling, stamps>>
    BY <1>3, <2>1 DEF ExtractOne
  <2>3. t \in Int
    <3>1. Len(frames) + 1 \in 1 .. Len(stamps)
      BY <1>0, <2>2
    <3>2. QED
      BY <1>0, <2>1, <3>1, ElementOfSeq
  <2>4. PICK f : f = [local |-> t, global |-> Offset + t]
    OBVIOUS
  <2>5. f \in [local : Int, global : Int] /\ f.local = t /\ f.global = Offset + t
    BY <1>0, <2>3, <2>4
  <2>6. /\ frames' \in Seq([local : Int, global : Int])
        /\ Len(frames') = Len(frames) + 1
        /\ frames'[Len(frames) + 1] = f
        /\ \A k \in 1 .. Len(frames) : frames'[k] = frames[k]
    BY <1>0, <2>2, <2>4, <2>5
  <2>7. \A k \in 1 .. Len(frames') : k \in 1 .. Len(frames) \/ k = Len(frames) + 1
    BY <1>0, <2>6
  <2>8. \A k \in 1 .. Len(frames') :
          frames'[k].local = stamps[k] /\ frames'[k].global = Offset + stamps[k]
    BY <1>0, <2>1, <2>5, <2>6, <2>7
  <2>9. Len(frames') <= Len(stamps)
    BY <1>0, <2>2, <2>6
  <2>10. QED
    BY <2>2, <2>6, <2>8, <2>9 DEF SamplingInv
<1>4. CASE ExtractFails
  <2>1. /\ frames' = <<>> /\ sampling' = "idle" /\ UNCHANGED <<duration, stamps>>
    BY <1>4 DEF ExtractFails
  <2>2. QED
    BY <1>0, <2>1, NoFrames DEF SamplingInv
<1>5. CASE ReturnFrames
  <2>1. Ordered(frames)
    <3>1. SUFFICES ASSUME NEW k \in 2 .. Len(frames)
                   PROVE  frames[k - 1].global <= frames[k].global
      BY DEF Ordered
    <3>2. /\ k \in 1 .. Len(frames) /\ k - 1 \in 1 .. Len(frames)
          /\ k \in 2 .. Len(stamps)
          /\ k \in 1 .. Len(stamps) /\ k - 1 \in 1 .. Len(stamps)
      BY <1>0
    <3>3. stamps[k - 1] \in Int /\ stamps[k] \in Int
      BY <1>0, <3>2, ElementOfSeq
    <3>4. stamps[k - 1] < stamps[k]
      BY <1>0, <3>2
    <3>5. /\ frames[k - 1].global = Offset + stamps[k - 1]
          /\ frames[k].global = Offset + stamps[k]
      BY <1>0, <3>2
    <3>6. PICK a, b : a = stamps[k - 1] /\ b = stamps[k]
      OBVIOUS
    <3>7. a \in Int /\ b \in Int /\ a < b
      BY <3>3, <3>4, <3>6
    <3>8. Offset + a <= Offset + b
      BY <1>0, <3>7
    <3>9. QED
      BY <3>5, <3>6, <3>8
  <2>2. sampling' = "sampled" /\ UNCHANGED <<duration, stamps, frames>>
    BY <1>5, <2>1 DEF ReturnFrames
  <2>3. QED
    BY <2>2 DEF SamplingInv
<1>6. CASE Forget
  BY <1>6 DEF Forget, SamplingInv
<1>7. QED
  BY <1>1, <1>2, <1>3, <1>4, <1>5, <1>6 DEF SamplingNext

\* Of any medium, any number of frames asked for and any scene changes: the frames
\* are of different times, in order, inside the medium, and the order check that
\* ends a call never fails one.
THEOREM FramesAreOrdered == SamplingSpec => []FramesOrdered
<1>1. SamplingInv => FramesOrdered
  <2>1. SUFFICES ASSUME SamplingInv PROVE FramesOrdered
    OBVIOUS
  <2>0. /\ stamps \in Seq(Int) /\ frames \in Seq([local : Int, global : Int])
        /\ Sound(stamps, duration)
    BY <2>1 DEF SamplingInv, Sound
  <2>2. /\ DOMAIN frames = 1 .. Len(frames) /\ Len(frames) \in Nat
        /\ Len(stamps) \in Nat /\ Len(frames) <= Len(stamps)
        /\ \A k \in 1 .. Len(stamps) : stamps[k] \in 0 .. duration - 1
        /\ \A k \in 2 .. Len(stamps) : stamps[k - 1] < stamps[k]
        /\ \A k \in 1 .. Len(frames) :
             frames[k].local = stamps[k] /\ frames[k].global = Offset + stamps[k]
    BY <2>0, <2>1 DEF SamplingInv, Sound
  <2>3. \A k \in 1 .. Len(frames) : k \in 1 .. Len(stamps)
    BY <2>2
  <2>4. \A k \in 2 .. Len(frames) : /\ k \in 1 .. Len(frames) /\ k - 1 \in 1 .. Len(frames)
                                    /\ k \in 2 .. Len(stamps)
    BY <2>2
  <2>5. QED
    BY <2>1, <2>2, <2>3, <2>4 DEF FramesOrdered, SamplingInv
<1>2. QED
  BY <1>1, SamplingStart, SamplingStep, PTL DEF SamplingSpec

-----------------------------------------------------------------------------
(* Bursts of speech                                                        *)

Interval == [start : Nat, end : Nat]

\* Bursts of the frames below a bound: the gaps between them are too long to join.
Spaced(bursts, n) ==
  /\ bursts \in Seq(Interval)
  /\ \A k \in DOMAIN bursts :
       /\ bursts[k].start < bursts[k].end /\ bursts[k].end <= n
       /\ \A j \in 1 .. k - 1 : bursts[j].end + MergeGap < bursts[k].start

\* What a frame does to the bursts of the frames before it.
NextBursts(active, bursts, n) ==
  IF n = 0 THEN <<>> ELSE IF n - 1 \in active THEN Joined(bursts, n - 1) ELSE bursts
ListsBursts(active, g, n) == g = [m \in 0 .. n |-> NextBursts(active, g[m - 1], m)]

LEMMA JoinedAreSpaced ==
  ASSUME NEW n \in Nat, NEW bursts, Spaced(bursts, n)
  PROVE  Spaced(Joined(bursts, n), n + 1)
<1>1. bursts \in Seq(Interval) /\ MergeGap \in Nat
  BY MediaAssumption DEF Spaced
<1>2. ASSUME NEW k \in DOMAIN bursts
      PROVE  /\ bursts[k] \in Interval /\ bursts[k].start \in Nat /\ bursts[k].end \in Nat
             /\ bursts[k].start < bursts[k].end /\ bursts[k].end <= n
             /\ \A j \in 1 .. k - 1 : bursts[j].end + MergeGap < bursts[k].start
  <2>1. bursts[k] \in Interval
    BY <1>1
  <2>2. QED
    BY <2>1 DEF Spaced, Interval
<1>3. CASE bursts # <<>> /\ n - Last(bursts).end <= MergeGap
  <2>1. PICK size \in Nat \ {0} : size = Len(bursts)
    BY <1>1, <1>3
  <2>2. size \in DOMAIN bursts /\ Last(bursts) = bursts[size]
    BY <1>1, <2>1 DEF Last
  <2> DEFINE new == [start |-> Last(bursts).start, end |-> n + 1]
             joined == Append(Front(bursts), new)
  <2>3. new \in Interval /\ new.start = bursts[size].start /\ new.end = n + 1
    BY <1>2, <2>2 DEF Interval
  <2> HIDE DEF new
  <2>4. /\ joined \in Seq(Interval) /\ Len(joined) = size /\ joined[size] = new
        /\ \A k \in 1 .. size - 1 : k \in DOMAIN bursts /\ joined[k] = bursts[k]
    <3>1. Front(bursts) \in Seq(Interval) /\ Len(Front(bursts)) = size - 1
          /\ \A k \in 1 .. size - 1 : k \in DOMAIN bursts /\ Front(bursts)[k] = bursts[k]
      BY <1>1, <2>1 DEF Front
    <3>2. QED
      BY <2>1, <2>3, <3>1
  <2> HIDE DEF joined
  <2>5. ASSUME NEW k \in DOMAIN joined
        PROVE  /\ joined[k].start < joined[k].end /\ joined[k].end <= n + 1
               /\ \A j \in 1 .. k - 1 : joined[j].end + MergeGap < joined[k].start
    <3>1. k \in 1 .. size /\ k \in DOMAIN bursts
      BY <1>1, <2>1, <2>4
    <3>2. joined[k].start = bursts[k].start
      BY <2>3, <2>4, <3>1
    <3>3. joined[k].end = n + 1 \/ joined[k].end = bursts[k].end
      BY <2>3, <2>4, <3>1
    <3>4. \A j \in 1 .. k - 1 : joined[j] = bursts[j]
      BY <2>4, <3>1
    <3>5. QED
      BY <1>2, <3>1, <3>2, <3>3, <3>4
  <2>6. Joined(bursts, n) = joined
    BY <1>3 DEF Joined, joined, new
  <2>7. QED
    BY <2>4, <2>5, <2>6 DEF Spaced
<1>4. CASE ~(bursts # <<>> /\ n - Last(bursts).end <= MergeGap)
  <2>1. PICK size \in Nat : size = Len(bursts)
    BY <1>1
  <2> DEFINE new == [start |-> n, end |-> n + 1]
             joined == Append(bursts, new)
  <2>2. new \in Interval /\ new.start = n /\ new.end = n + 1
    BY DEF Interval
  <2> HIDE DEF new
  <2>3. /\ joined \in Seq(Interval) /\ Len(joined) = size + 1 /\ joined[size + 1] = new
        /\ \A k \in DOMAIN joined : k = size + 1 \/ (k \in DOMAIN bursts /\ joined[k] = bursts[k])
        /\ \A k \in 1 .. size : k \in DOMAIN bursts /\ joined[k] = bursts[k]
    BY <1>1, <2>1, <2>2
  <2> HIDE DEF joined
  <2>4. ASSUME NEW j \in DOMAIN bursts
        PROVE  bursts[j].end + MergeGap < n
    <3>1. size \in DOMAIN bursts /\ size >= 1 /\ bursts # <<>> /\ Last(bursts) = bursts[size]
      BY <1>1, <2>1 DEF Last
    <3>2. bursts[size].end + MergeGap < n
      BY <1>1, <1>2, <1>4, <3>1
    <3>3. CASE j = size
      BY <3>2, <3>3
    <3>4. CASE j # size
      <4>1. j \in 1 .. size - 1
        BY <1>1, <2>1, <3>4
      <4>2. bursts[j].end + MergeGap < bursts[size].start
        BY <1>2, <3>1, <4>1
      <4>3. bursts[size].start < bursts[size].end
        BY <1>2, <3>1
      <4>4. QED
        BY <1>1, <1>2, <3>1, <3>2, <4>2, <4>3
    <3>5. QED
      BY <3>3, <3>4
  <2>5. ASSUME NEW k \in DOMAIN joined
        PROVE  /\ joined[k].start < joined[k].end /\ joined[k].end <= n + 1
               /\ \A j \in 1 .. k - 1 : joined[j].end + MergeGap < joined[k].start
    <3>1. CASE k = size + 1
      <4>1. joined[k] = new /\ \A j \in 1 .. k - 1 : j \in DOMAIN bursts /\ joined[j] = bursts[j]
        BY <2>1, <2>3, <3>1
      <4>2. QED
        BY <2>2, <2>4, <4>1
    <3>2. CASE k # size + 1
      <4>1. k \in DOMAIN bursts /\ joined[k] = bursts[k] /\ k \in 1 .. size
        BY <1>1, <2>1, <2>3, <3>2
      <4>2. \A j \in 1 .. k - 1 : joined[j] = bursts[j]
        BY <2>1, <2>3, <4>1
      <4>3. QED
        BY <1>2, <4>1, <4>2
    <3>3. QED
      BY <3>1, <3>2
  <2>6. Joined(bursts, n) = joined
    BY <1>4 DEF Joined, joined, new
  <2>7. QED
    BY <2>3, <2>5, <2>6 DEF Spaced
<1>5. QED
  BY <1>3, <1>4

\* However many frames there are, there is a list of their bursts.
LEMMA BurstsExist ==
  ASSUME NEW active, NEW size \in Nat
  PROVE  \E g : ListsBursts(active, g, size)
<1> DEFINE Bad == {n \in Nat : ~ \E g : ListsBursts(active, g, n)}
<1>1. ASSUME NEW n \in Nat, \A k \in 0 .. n - 1 : k \notin Bad
      PROVE  n \notin Bad
  <2>1. CASE n = 0
    <3>1. ListsBursts(active, [m \in 0 .. 0 |-> <<>>], 0)
      BY DEF ListsBursts, NextBursts
    <3>2. QED
      BY <2>1, <3>1
  <2>2. CASE n # 0
    <3>1. n - 1 \in 0 .. n - 1 /\ n - 1 \in Nat
      BY <2>2
    <3>2. PICK g : ListsBursts(active, g, n - 1)
      BY <1>1, <3>1
    <3> DEFINE h == [m \in 0 .. n |-> IF m = n THEN NextBursts(active, g[n - 1], n) ELSE g[m]]
    <3>3. ASSUME NEW m \in 0 .. n
          PROVE  h[m] = NextBursts(active, h[m - 1], m)
      <4>1. CASE m = n
        BY <2>2, <3>1, <4>1
      <4>2. CASE m # n
        <5>1. m \in 0 .. n - 1 /\ h[m] = g[m]
          BY <2>2, <4>2
        <5>2. g[m] = NextBursts(active, g[m - 1], m)
          BY <3>2, <5>1 DEF ListsBursts
        <5>3. m # 0 => h[m - 1] = g[m - 1]
          BY <2>2, <5>1
        <5>4. QED
          BY <5>1, <5>2, <5>3 DEF NextBursts
      <4>3. QED
        BY <4>1, <4>2
    <3>4. h = [m \in 0 .. n |-> NextBursts(active, h[m - 1], m)]
      BY <3>3
    <3>5. QED
      BY <3>4 DEF ListsBursts
  <2>3. QED
    BY <2>1, <2>2
<1>2. Bad = {}
  <2> HIDE DEF Bad
  <2>1. Bad \in SUBSET Nat
    BY DEF Bad
  <2>2. QED
    BY <1>1, <2>1, FirstFailure
<1>3. QED
  BY <1>2

\* The bursts of any frames lie in the lesson, in order and apart.
LEMMA BurstsAreSpaced ==
  ASSUME NEW active
  PROVE  Spaced(BurstsOf(active), Length)
<1>1. Length \in Nat /\ MergeGap \in Nat
  BY MediaAssumption
<1> DEFINE up == CHOOSE g : ListsBursts(active, g, Length)
<1>2. ListsBursts(active, up, Length)
  BY <1>1, BurstsExist
<1>3. BurstsOf(active) = up[Length]
  BY DEF BurstsOf, ListsBursts, NextBursts
<1> HIDE DEF up
<1> DEFINE Bad == {n \in Nat : n <= Length /\ ~Spaced(up[n], n)}
<1>4. ASSUME NEW n \in Nat, \A k \in 0 .. n - 1 : k \notin Bad
      PROVE  n \notin Bad
  <2>1. SUFFICES ASSUME n <= Length PROVE Spaced(up[n], n)
    OBVIOUS
  <2>2. up[n] = NextBursts(active, up[n - 1], n)
    BY <1>1, <1>2, <2>1 DEF ListsBursts
  <2>3. CASE n = 0
    BY <2>2, <2>3 DEF NextBursts, Spaced
  <2>4. CASE n # 0
    <3>1. PICK m \in Nat : n = m + 1 /\ m \in 0 .. n - 1 /\ m <= Length /\ m = n - 1
      BY <1>1, <2>1, <2>4
    <3>2. Spaced(up[m], m)
      BY <1>4, <3>1
    <3>3. Spaced(Joined(up[m], m), m + 1)
      BY <3>1, <3>2, JoinedAreSpaced
    <3>4. Spaced(up[m], m + 1)
      <4>1. up[m] \in Seq(Interval) /\ \A k \in DOMAIN up[m] : up[m][k].end <= m
        BY <3>2 DEF Spaced
      <4>2. ASSUME NEW k \in DOMAIN up[m] PROVE up[m][k].end <= m + 1
        <5>1. up[m][k] \in Interval
          BY <4>1
        <5>2. up[m][k].end \in Nat
          BY <5>1 DEF Interval
        <5>3. QED
          BY <3>1, <4>1, <5>2
      <4>3. QED
        BY <3>2, <4>2 DEF Spaced
    <3>5. up[n] = Joined(up[m], m) \/ up[n] = up[m]
      BY <2>2, <2>4, <3>1 DEF NextBursts
    <3>6. QED
      BY <3>1, <3>3, <3>4, <3>5
  <2>5. QED
    BY <2>3, <2>4
<1>5. Bad = {}
  <2> HIDE DEF Bad
  <2>1. Bad \in SUBSET Nat
    BY DEF Bad
  <2>2. QED
    BY <1>4, <2>1, FirstFailure
<1>6. Spaced(up[Length], Length)
  BY <1>1, <1>5
<1>7. QED
  BY <1>3, <1>6

Apart(p, q) == p.end <= q.start \/ q.end <= p.start

\* A padded burst holds the burst, and not the next one.
LEMMA PaddedIs ==
  ASSUME NEW b \in Interval, b.start < b.end, b.end <= Length
  PROVE  /\ Padded(b) \in Interval /\ Padded(b).start < Padded(b).end
         /\ Padded(b).end <= Length /\ b.end <= Padded(b).end /\ Padded(b).end <= b.end + Pad
         /\ Padded(b).start <= b.start /\ b.start <= Padded(b).start + Pad
<1>1. b.start \in Nat /\ b.end \in Nat /\ Length \in Nat /\ Pad \in Nat
  BY MediaAssumption DEF Interval
<1>2. /\ Padded(b).start = Upper(0, b.start - Pad) /\ Padded(b).end = Lower(Length, b.end + Pad)
      /\ Upper(0, b.start - Pad) \in Nat /\ Lower(Length, b.end + Pad) \in Nat
  BY <1>1 DEF Padded, Upper, Lower
<1>3. Padded(b) \in Interval
  BY <1>2 DEF Padded, Interval
<1>4. QED
  BY <1>1, <1>2, <1>3 DEF Upper, Lower

LEMMA SpeechIs ==
  /\ Speech \subseteq Interval
  /\ \A p \in Speech : p.start < p.end /\ p.end <= Length /\ p.end - p.start >= MinSpeech
  /\ \A p, q \in Speech : p # q => Apart(p, q)
  /\ \A k \in DOMAIN Bursts :
       Bursts[k].end - Bursts[k].start >= MinSpeech =>
         \E p \in Speech : /\ p.start <= Bursts[k].start /\ Bursts[k].start <= p.start + Pad
                           /\ Bursts[k].end <= p.end
<1>1. /\ {Length, MinSpeech, MergeGap, Pad} \subseteq Nat /\ MergeGap >= 2 * Pad
  BY MediaAssumption
<1>2. /\ Bursts \in Seq(Interval)
      /\ \A k \in DOMAIN Bursts :
           /\ Bursts[k].start < Bursts[k].end /\ Bursts[k].end <= Length
           /\ \A j \in 1 .. k - 1 : Bursts[j].end + MergeGap < Bursts[k].start
  BY BurstsAreSpaced DEF Bursts, Spaced
<1>3. ASSUME NEW k \in DOMAIN Bursts
      PROVE  /\ Bursts[k] \in Interval /\ Bursts[k].start \in Nat /\ Bursts[k].end \in Nat
             /\ Padded(Bursts[k]) \in Interval
             /\ Padded(Bursts[k]).start \in Nat /\ Padded(Bursts[k]).end \in Nat
             /\ Padded(Bursts[k]).start < Padded(Bursts[k]).end
             /\ Padded(Bursts[k]).end <= Length /\ Bursts[k].end <= Padded(Bursts[k]).end
             /\ Padded(Bursts[k]).end <= Bursts[k].end + Pad
             /\ Padded(Bursts[k]).start <= Bursts[k].start
             /\ Bursts[k].start <= Padded(Bursts[k]).start + Pad
  <2>1. Bursts[k] \in Interval
    BY <1>2
  <2>2. Bursts[k].start < Bursts[k].end /\ Bursts[k].end <= Length
    BY <1>2
  <2>3. Padded(Bursts[k]) \in Interval
    BY <2>1, <2>2, PaddedIs
  <2>4. QED
    BY <2>1, <2>2, <2>3, PaddedIs DEF Interval
<1>4. ASSUME NEW p \in Speech
      PROVE  \E k \in DOMAIN Bursts :
               p = Padded(Bursts[k]) /\ Bursts[k].end - Bursts[k].start >= MinSpeech
  BY DEF Speech, Range, LongEnough
<1>5. ASSUME NEW p \in Speech
      PROVE  /\ p \in Interval /\ p.start < p.end /\ p.end <= Length
             /\ p.end - p.start >= MinSpeech
  <2>1. PICK k \in DOMAIN Bursts :
          p = Padded(Bursts[k]) /\ Bursts[k].end - Bursts[k].start >= MinSpeech
    BY <1>4
  <2>2. QED
    BY <1>1, <1>3, <2>1
<1>6. ASSUME NEW j \in DOMAIN Bursts, NEW k \in DOMAIN Bursts, j < k
      PROVE  Padded(Bursts[j]).end <= Padded(Bursts[k]).start
  <2>1. j \in 1 .. k - 1
    BY <1>2, <1>6
  <2>2. Bursts[j].end + MergeGap < Bursts[k].start
    BY <1>2, <2>1
  <2>3. QED
    BY <1>1, <1>3, <2>2
<1>7. ASSUME NEW p \in Speech, NEW q \in Speech, p # q
      PROVE  Apart(p, q)
  <2>1. PICK j \in DOMAIN Bursts : p = Padded(Bursts[j])
    BY <1>4
  <2>2. PICK k \in DOMAIN Bursts : q = Padded(Bursts[k])
    BY <1>4
  <2>3. j < k \/ k < j
    BY <1>2, <1>7, <2>1, <2>2
  <2>4. QED
    BY <1>6, <2>1, <2>2, <2>3 DEF Apart
<1>8. ASSUME NEW k \in DOMAIN Bursts, Bursts[k].end - Bursts[k].start >= MinSpeech
      PROVE  \E p \in Speech : /\ p.start <= Bursts[k].start /\ Bursts[k].start <= p.start + Pad
                               /\ Bursts[k].end <= p.end
  <2>1. Padded(Bursts[k]) \in Speech
    BY <1>8 DEF Speech, Range, LongEnough
  <2>2. QED
    BY <1>3, <2>1
<1>9. QED
  BY <1>5, <1>7, <1>8

-----------------------------------------------------------------------------
(* Chunks and transcripts                                                  *)

\* Chunks are in the lesson, one after the other.
ChunksFollow ==
  /\ chunks \in Seq(Interval)
  /\ \A d \in DOMAIN chunks :
       /\ chunks[d].start < chunks[d].end /\ chunks[d].end <= Length
       /\ \A c \in 1 .. d - 1 : chunks[c].end <= chunks[d].start

\* What is left to cut lies behind every chunk.
RestFollows ==
  /\ intervals \subseteq Interval
  /\ \A p \in intervals :
       /\ p.start < p.end /\ p.end <= Length
       /\ \A q \in intervals : p # q => Apart(p, q)
       /\ \A c \in DOMAIN chunks : chunks[c].end <= p.start

\* A segment lies in the chunk it was heard in.
HeardInChunk ==
  /\ heard \in Nat /\ heard <= Len(chunks)
  /\ \A s \in transcript :
       /\ s.chunk \in 1 .. heard /\ s.start \in Int /\ s.end \in Int /\ s.start < s.end
       /\ GlobalOffset + chunks[s.chunk].start <= s.start
       /\ s.end <= GlobalOffset + chunks[s.chunk].end

\* A speech interval is cut up to a frame: before it every frame is in a chunk,
\* behind it the rest is still to cut, or too short.
InChunk(f) == \E c \in DOMAIN chunks : chunks[c].start <= f /\ f < chunks[c].end
CutUpTo(p, f) ==
  /\ f = p.start \/ f = p.end \/ f >= p.start + MaxChunk
  /\ \A g \in p.start .. f - 1 : InChunk(g)
  /\ [start |-> f, end |-> p.end] \in intervals \/ p.end - f < MinSpeech
IsCut(p) == \E f \in p.start .. p.end : CutUpTo(p, f)

MediaInv ==
  /\ ChunksFollow /\ RestFollows /\ HeardInChunk
  /\ media \in {"probe", "sample", "audio"} => chunks = <<>> /\ intervals = {}
  /\ media \in {"cut", "listen"} => \A p \in Speech : IsCut(p)
  /\ media = "listen" => intervals = {}

LEMMA MediaStart == MediaInit => MediaInv
BY DEF MediaInit, MediaInv, ChunksFollow, RestFollows, HeardInChunk

\* A step that cuts and hears nothing.
LEMMA MediaMoves ==
  ASSUME MediaInv, UNCHANGED <<loud, intervals, chunks, heard, transcript>>,
         media' \in {"probe", "sample", "audio"} => media \in {"probe", "sample", "audio"},
         media' \in {"cut", "listen"} => media \in {"cut", "listen"},
         media' = "listen" => intervals = {}
  PROVE  MediaInv'
<1>1. ChunksFollow' /\ RestFollows' /\ HeardInChunk'
  BY DEF MediaInv, ChunksFollow, RestFollows, HeardInChunk
<1>2. Speech' = Speech
  BY DEF Speech, Bursts
<1>3. ASSUME NEW p, IsCut(p) PROVE IsCut(p)'
  BY <1>3 DEF IsCut, CutUpTo, InChunk
<1>4. QED
  BY <1>1, <1>2, <1>3 DEF MediaInv

LEMMA DetectSpeechStep == MediaInv /\ DetectSpeech => MediaInv'
<1> SUFFICES ASSUME MediaInv, DetectSpeech PROVE MediaInv'
  OBVIOUS
<1>1. /\ chunks = <<>> /\ chunks' = chunks /\ intervals' = Speech /\ loud' = loud
      /\ heard' = heard /\ transcript' = transcript /\ media' = "cut"
  BY DEF MediaInv, DetectSpeech
<1>2. Speech' = Speech
  BY <1>1 DEF Speech, Bursts
<1>3. ChunksFollow' /\ HeardInChunk'
  BY <1>1 DEF MediaInv, ChunksFollow, HeardInChunk
<1>4. RestFollows'
  BY <1>1, SpeechIs DEF RestFollows
<1>5. ASSUME NEW p \in Speech PROVE IsCut(p)'
  <2>1. p \in Interval /\ p.start < p.end
    BY SpeechIs
  <2>2. p = [start |-> p.start, end |-> p.end] /\ p.start \in p.start .. p.end
        /\ p.start .. p.start - 1 = {}
    BY <2>1 DEF Interval
  <2>3. CutUpTo(p, p.start)'
    BY <1>1, <2>2 DEF CutUpTo
  <2>4. QED
    BY <2>2, <2>3 DEF IsCut
<1>6. QED
  BY <1>1, <1>2, <1>3, <1>4, <1>5 DEF MediaInv

\* The earliest interval loses a piece, which becomes a chunk if it is long enough.
LEMMA CutChunkStep == MediaInv /\ CutChunk => MediaInv'
<1> SUFFICES ASSUME MediaInv, CutChunk PROVE MediaInv'
  OBVIOUS
<1>1. PICK whole \in intervals :
        LET end == Lower(whole.end, whole.start + MaxChunk)
            rest == IF end < whole.end THEN {[start |-> end, end |-> whole.end]} ELSE {} IN
        /\ \A other \in intervals : whole.start <= other.start
        /\ chunks' = IF LongEnough(end - whole.start)
                     THEN Append(chunks, [start |-> whole.start, end |-> end]) ELSE chunks
        /\ intervals' = (intervals \ {whole}) \cup rest
  BY DEF CutChunk
<1> DEFINE end == Lower(whole.end, whole.start + MaxChunk)
           rest == IF end < whole.end THEN {[start |-> end, end |-> whole.end]} ELSE {}
           new == [start |-> whole.start, end |-> end]
<1>2. /\ \A other \in intervals : whole.start <= other.start
      /\ chunks' = IF LongEnough(end - whole.start) THEN Append(chunks, new) ELSE chunks
      /\ intervals' = (intervals \ {whole}) \cup rest
  BY <1>1
<1>3. /\ media = "cut" /\ UNCHANGED <<media, loud, heard, transcript>>
      /\ ChunksFollow /\ RestFollows /\ HeardInChunk /\ \A p \in Speech : IsCut(p)
      /\ \A p \in Speech : p \in Interval /\ p.start < p.end
  BY SpeechIs DEF MediaInv, CutChunk
<1>4. /\ {Length, MinSpeech, MaxChunk, GlobalOffset} \subseteq Nat /\ MaxChunk > 0 /\ MinSpeech > 0
      /\ MaxChunk >= MinSpeech
  BY MediaAssumption
<1>5. ASSUME NEW p \in intervals
      PROVE  /\ p \in Interval /\ p.start \in Nat /\ p.end \in Nat
             /\ p.start < p.end /\ p.end <= Length /\ whole.start <= p.start
             /\ (p # whole => Apart(whole, p))
             /\ \A c \in DOMAIN chunks : chunks[c].end <= p.start
  <2>1. p \in Interval
    BY <1>3 DEF RestFollows
  <2>2. QED
    BY <1>2, <1>3, <2>1 DEF RestFollows, Interval
<1>6. /\ end \in Nat /\ whole.start < end /\ end <= whole.end
      /\ (end = whole.end \/ end = whole.start + MaxChunk)
      /\ end < whole.end => end = whole.start + MaxChunk
  BY <1>4, <1>5 DEF Lower
<1>7. new \in Interval /\ new.start = whole.start /\ new.end = end
  BY <1>5, <1>6 DEF Interval
<1>8. \A p \in rest : p \in Interval /\ p.start = end /\ p.end = whole.end /\ end < whole.end
  BY <1>5, <1>6 DEF Interval
<1>9. end < whole.end => [start |-> end, end |-> whole.end] \in intervals'
  BY <1>2
<1> HIDE DEF end, rest, new
<1>10. /\ chunks \in Seq(Interval) /\ chunks' \in Seq(Interval) /\ Len(chunks') >= Len(chunks)
       /\ \A c \in DOMAIN chunks : c \in DOMAIN chunks' /\ chunks'[c] = chunks[c]
       /\ \A d \in DOMAIN chunks' :
            d \in DOMAIN chunks \/ (d = Len(chunks) + 1 /\ chunks'[d] = new)
       /\ LongEnough(end - whole.start) =>
            Len(chunks) + 1 \in DOMAIN chunks' /\ chunks'[Len(chunks) + 1] = new
       /\ Len(chunks) \in Nat
  <2>1. chunks \in Seq(Interval)
    BY <1>3 DEF ChunksFollow
  <2>2. CASE LongEnough(end - whole.start)
    BY <1>2, <1>7, <2>1, <2>2
  <2>3. CASE ~LongEnough(end - whole.start)
    BY <1>2, <2>1, <2>3
  <2>4. QED
    BY <2>2, <2>3
<1>11. ChunksFollow'
  <2>1. ASSUME NEW d \in DOMAIN chunks'
        PROVE  /\ chunks'[d].start < chunks'[d].end /\ chunks'[d].end <= Length
               /\ \A c \in 1 .. d - 1 : chunks'[c].end <= chunks'[d].start
    <3>1. CASE d \in DOMAIN chunks
      <4>1. chunks'[d] = chunks[d] /\ \A c \in 1 .. d - 1 : chunks'[c] = chunks[c]
        BY <1>10, <3>1
      <4>2. QED
        BY <1>3, <3>1, <4>1 DEF ChunksFollow
    <3>2. CASE d = Len(chunks) + 1 /\ chunks'[d] = new
      <4>1. \A c \in 1 .. d - 1 : c \in DOMAIN chunks /\ chunks'[c] = chunks[c]
        BY <1>10, <3>2
      <4>2. \A c \in DOMAIN chunks : chunks[c].end <= whole.start
        BY <1>5
      <4>3. end <= Length
        BY <1>4, <1>5, <1>6
      <4>4. QED
        BY <1>6, <1>7, <3>2, <4>1, <4>2, <4>3
    <3>3. QED
      BY <1>10, <3>1, <3>2
  <2>2. QED
    BY <1>10, <2>1 DEF ChunksFollow
<1>12. ASSUME NEW p \in intervals'
       PROVE  \/ p \in intervals /\ p # whole /\ end <= p.start
              \/ p \in rest /\ p.start = end /\ p.end = whole.end /\ end < whole.end
  <2>1. CASE p \in rest
    BY <1>8, <2>1
  <2>2. CASE p \in intervals /\ p # whole
    <3>1. /\ Apart(whole, p) /\ p.start < p.end /\ whole.start <= p.start
          /\ p.start \in Nat /\ p.end \in Nat /\ whole.start \in Nat /\ whole.end \in Nat
      BY <1>5, <2>2
    <3>2. whole.end <= p.start
      BY <3>1 DEF Apart
    <3>3. end <= p.start
      BY <1>6, <3>1, <3>2
    <3>4. QED
      BY <2>2, <3>3
  <2>3. QED
    BY <1>2, <2>1, <2>2
<1>13. RestFollows'
  <2>1. ASSUME NEW p \in intervals'
        PROVE  /\ p \in Interval /\ p.start \in Nat /\ p.end \in Nat
               /\ p.start < p.end /\ p.end <= Length /\ end <= p.start
    <3>1. CASE p \in intervals /\ p # whole /\ end <= p.start
      BY <1>5, <3>1
    <3>2. CASE p \in rest /\ p.start = end /\ p.end = whole.end /\ end < whole.end
      <4>1. p \in Interval
        BY <1>8, <3>2
      <4>2. QED
        BY <1>5, <1>6, <3>2, <4>1
    <3>3. QED
      BY <1>12, <3>1, <3>2
  <2>2. ASSUME NEW p \in intervals', NEW q \in intervals', p # q
        PROVE  Apart(p, q)
    <3>1. CASE p \in intervals /\ q \in intervals
      BY <1>3, <2>2, <3>1 DEF RestFollows
    <3>2. CASE p \in rest /\ q \in rest
      <4>1. p = q
        BY <3>2 DEF rest
      <4>2. QED
        BY <2>2, <4>1
    <3>3. ASSUME NEW a \in intervals, a # whole, end <= a.start, NEW b \in rest
          PROVE  Apart(a, b) /\ Apart(b, a)
      <4>1. b.start = end /\ b.end = whole.end
        BY <1>8
      <4>2. Apart(whole, a) /\ whole.start <= a.start /\ a.start < a.end
            /\ a.start \in Nat /\ a.end \in Nat /\ whole.start \in Nat /\ whole.end \in Nat
        BY <1>5, <3>3
      <4>3. whole.end <= a.start
        BY <4>2 DEF Apart
      <4>4. QED
        BY <4>1, <4>3 DEF Apart
    <3>4. QED
      BY <1>12, <2>2, <3>1, <3>2, <3>3
  <2>3. ASSUME NEW p \in intervals', NEW c \in DOMAIN chunks'
        PROVE  chunks'[c].end <= p.start
    <3>1. CASE c \in DOMAIN chunks
      <4>1. chunks'[c] = chunks[c] /\ chunks[c].end <= whole.start
        BY <1>5, <1>10, <3>1
      <4>2. chunks[c].end \in Nat
        <5>1. chunks[c] \in Interval
          BY <1>10, <3>1
        <5>2. QED
          BY <5>1 DEF Interval
      <4>3. QED
        BY <1>5, <1>6, <2>1, <4>1, <4>2
    <3>2. CASE chunks'[c] = new
      BY <1>7, <2>1, <3>2
    <3>3. QED
      BY <1>10, <3>1, <3>2
  <2>4. QED
    BY <2>1, <2>2, <2>3 DEF RestFollows
<1>14. HeardInChunk'
  <2>1. ASSUME NEW s \in transcript
        PROVE  s.chunk \in 1 .. heard /\ chunks'[s.chunk] = chunks[s.chunk]
    <3>1. s.chunk \in 1 .. heard /\ heard \in Nat /\ heard <= Len(chunks)
      BY <1>3 DEF HeardInChunk
    <3>2. s.chunk \in DOMAIN chunks
      BY <1>10, <3>1
    <3>3. QED
      BY <1>10, <3>1, <3>2
  <2>2. heard <= Len(chunks')
    BY <1>3, <1>10 DEF HeardInChunk
  <2>3. QED
    BY <1>3, <2>1, <2>2 DEF HeardInChunk
<1>15. ASSUME NEW f, InChunk(f) PROVE InChunk(f)'
  BY <1>10, <1>15 DEF InChunk
<1>16. ASSUME NEW f \in whole.start .. end - 1, LongEnough(end - whole.start)
       PROVE  InChunk(f)'
  <2>1. new.start <= f /\ f < new.end
    BY <1>5, <1>6, <1>7
  <2>2. QED
    BY <1>10, <1>16, <2>1 DEF InChunk
<1>17. ASSUME NEW p \in Speech PROVE IsCut(p)'
  <2>1. p.start \in Nat /\ p.end \in Nat /\ p.start < p.end
    BY <1>3 DEF Interval
  <2>2. PICK f \in p.start .. p.end : CutUpTo(p, f)
    BY <1>3 DEF IsCut
  <2>3. \A g \in p.start .. f - 1 : InChunk(g)'
    BY <1>15, <2>2 DEF CutUpTo
  <2>4. CASE p.end - f < MinSpeech
    <3>1. CutUpTo(p, f)'
      BY <2>2, <2>3, <2>4 DEF CutUpTo
    <3>2. QED
      BY <2>2, <3>1 DEF IsCut
  <2>5. CASE [start |-> f, end |-> p.end] \in intervals /\ [start |-> f, end |-> p.end] # whole
    <3>1. [start |-> f, end |-> p.end] \in intervals'
      BY <1>2, <2>5
    <3>2. CutUpTo(p, f)'
      BY <2>2, <2>3, <3>1 DEF CutUpTo
    <3>3. QED
      BY <2>2, <3>2 DEF IsCut
  <2>6. CASE [start |-> f, end |-> p.end] = whole
    <3>1. whole.start = f /\ whole.end = p.end
      BY <2>6
    <3>2. CASE ~LongEnough(end - whole.start)
      <4>1. end = p.end /\ p.end - f < MinSpeech
        BY <1>4, <1>5, <1>6, <3>1, <3>2 DEF LongEnough
      <4>2. CutUpTo(p, f)'
        BY <2>2, <2>3, <4>1 DEF CutUpTo
      <4>3. QED
        BY <2>2, <4>2 DEF IsCut
    <3>3. CASE LongEnough(end - whole.start)
      <4>1. ASSUME NEW g \in p.start .. end - 1 PROVE InChunk(g)'
        <5>1. g \in p.start .. f - 1 \/ g \in f .. end - 1
          BY <1>6, <2>1, <2>2
        <5>2. QED
          BY <1>16, <2>3, <3>1, <3>3, <5>1
      <4>2. end \in p.start .. p.end
        BY <1>6, <2>1, <2>2, <3>1
      <4>3. end = p.end \/ end >= p.start + MaxChunk
        BY <1>4, <1>6, <2>1, <2>2, <3>1
      <4>4. [start |-> end, end |-> p.end] \in intervals' \/ p.end - end < MinSpeech
        <5>1. CASE end < whole.end
          BY <1>9, <3>1, <5>1
        <5>2. CASE ~(end < whole.end)
          BY <1>4, <1>6, <2>1, <3>1, <5>2
        <5>3. QED
          BY <5>1, <5>2
      <4>5. QED
        BY <4>1, <4>2, <4>3, <4>4 DEF IsCut, CutUpTo
    <3>4. QED
      BY <3>2, <3>3
  <2>7. QED
    BY <2>2, <2>4, <2>5, <2>6 DEF CutUpTo
<1>18. Speech' = Speech
  BY <1>3 DEF Speech, Bursts
<1>19. QED
  BY <1>3, <1>11, <1>13, <1>14, <1>17, <1>18 DEF MediaInv

\* A segment is clamped to its chunk.
LEMMA ClampedIs ==
  ASSUME NEW u \in Utterances, NEW c \in Interval, c.start < c.end
  PROVE  /\ Clamp(u, c).from \in Nat /\ Clamp(u, c).to \in Nat
         /\ Clamp(u, c).to <= c.end - c.start
<1>1. u.start \in Int /\ u.end \in Int /\ c.start \in Nat /\ c.end \in Nat
  BY MediaAssumption DEF Interval
<1>2. QED
  BY <1>1 DEF Clamp, Clip, Upper, Lower

LEMMA TranscribeStep == MediaInv /\ Transcribe => MediaInv'
<1> SUFFICES ASSUME MediaInv, Transcribe PROVE MediaInv'
  OBVIOUS
<1>1. /\ media = "listen" /\ heard < Len(chunks) /\ heard' = heard + 1
      /\ UNCHANGED <<media, loud, intervals, chunks>>
      /\ chunks \in Seq(Interval) /\ heard \in Nat /\ HeardInChunk
      /\ GlobalOffset \in Nat
  BY MediaAssumption DEF MediaInv, Transcribe, ChunksFollow, HeardInChunk
<1>2. PICK us \in {{u} : u \in Utterances} \cup {{}} :
        transcript' = transcript \cup SegmentsOf(us, chunks[heard'], heard')
  BY DEF Transcribe
<1>3. /\ us \subseteq Utterances /\ heard' \in 1 .. Len(chunks) /\ heard' \in DOMAIN chunks
      /\ Len(chunks) \in Nat
  BY <1>1
<1>4. PICK c \in Interval : /\ c = chunks[heard'] /\ c.start < c.end
                            /\ c.start \in Nat /\ c.end \in Nat
  <2>1. chunks[heard'] \in Interval
    BY <1>1, <1>3
  <2>2. QED
    BY <1>3, <2>1 DEF MediaInv, ChunksFollow, Interval
<1>5. ASSUME NEW s \in SegmentsOf(us, c, heard')
      PROVE  /\ s.chunk = heard' /\ s.start \in Int /\ s.end \in Int /\ s.start < s.end
             /\ GlobalOffset + c.start <= s.start /\ s.end <= GlobalOffset + c.end
  <2>1. PICK u \in us : /\ Clamp(u, c).to > Clamp(u, c).from
                        /\ s = [start |-> GlobalOffset + c.start + Clamp(u, c).from,
                                end |-> GlobalOffset + c.start + Clamp(u, c).to,
                                chunk |-> heard']
    BY DEF SegmentsOf
  <2>2. PICK from \in Nat, to \in Nat :
          from = Clamp(u, c).from /\ to = Clamp(u, c).to /\ to <= c.end - c.start
    BY <1>3, <1>4, ClampedIs
  <2>3. /\ s.chunk = heard' /\ s.start = GlobalOffset + c.start + from
        /\ s.end = GlobalOffset + c.start + to /\ from < to
    BY <2>1, <2>2
  <2>4. PICK a \in Nat, b \in Nat : a = c.start /\ b = c.end
    BY <1>4
  <2>5. s.start = GlobalOffset + a + from /\ s.end = GlobalOffset + a + to /\ to <= b - a
    BY <2>2, <2>3, <2>4
  <2>6. PICK n \in Nat : n = GlobalOffset
    BY <1>1
  <2>7. s.start = n + a + from /\ s.end = n + a + to /\ from < to /\ to <= b - a
    BY <2>3, <2>5, <2>6
  <2>8. s.start \in Int /\ s.end \in Int /\ s.start < s.end
    BY <2>7
  <2>9. n + a <= s.start /\ s.end <= n + b
    BY <2>7
  <2>10. QED
    BY <2>3, <2>4, <2>6, <2>8, <2>9
<1>6. HeardInChunk'
  <2>1. ASSUME NEW s \in transcript'
        PROVE  /\ s.chunk \in 1 .. heard' /\ s.start \in Int /\ s.end \in Int /\ s.start < s.end
               /\ GlobalOffset + chunks[s.chunk].start <= s.start
               /\ s.end <= GlobalOffset + chunks[s.chunk].end
    <3>1. CASE s \in transcript
      BY <1>1, <3>1 DEF HeardInChunk
    <3>2. CASE s \in SegmentsOf(us, c, heard')
      BY <1>3, <1>4, <1>5, <3>2
    <3>3. QED
      BY <1>2, <1>4, <3>1, <3>2
  <2>2. heard' \in Nat /\ heard' <= Len(chunks')
    BY <1>1, <1>3
  <2>3. QED
    BY <1>1, <2>1, <2>2 DEF HeardInChunk
<1>7. ChunksFollow' /\ RestFollows'
  BY <1>1 DEF MediaInv, ChunksFollow, RestFollows
<1>8. Speech' = Speech
  BY <1>1 DEF Speech, Bursts
<1>9. ASSUME NEW p, IsCut(p) PROVE IsCut(p)'
  BY <1>1, <1>9 DEF IsCut, CutUpTo, InChunk
<1>10. QED
  BY <1>1, <1>6, <1>7, <1>8, <1>9 DEF MediaInv

LEMMA MediaStep == MediaInv /\ [MediaNext]_mediaVars => MediaInv'
<1> SUFFICES ASSUME MediaInv, [MediaNext]_mediaVars PROVE MediaInv'
  OBVIOUS
<1>1. CASE UNCHANGED mediaVars
  <2>1. UNCHANGED <<media, loud, intervals, chunks, heard, transcript>>
    BY <1>1 DEF mediaVars
  <2>2. QED
    BY <2>1, MediaMoves DEF MediaInv
<1>2. CASE Raises \/ Inspect \/ Sample \/ SkipAudio \/ ReadFrames \/ ReturnMedia \/ Transcribed
  <2>1. /\ UNCHANGED <<loud, intervals, chunks, heard, transcript>>
        /\ media' \in {"failed", "sample", "audio", "ocr", "look", "done"}
        /\ media' \in {"sample", "audio"} => media \in {"probe", "sample", "audio"}
    BY <1>2 DEF Raises, Inspect, Sample, SkipAudio, ReadFrames, ReturnMedia, Transcribed
  <2>2. QED
    BY <2>1, MediaMoves
<1>3. CASE ChunksWritten
  <2>1. /\ UNCHANGED <<loud, intervals, chunks, heard, transcript>>
        /\ media = "cut" /\ media' = "listen" /\ intervals = {}
    BY <1>3 DEF ChunksWritten
  <2>2. QED
    BY <2>1, MediaMoves
<1>4. CASE \E f \in Frames : LookAt(f)
  <2>1. /\ UNCHANGED <<loud, intervals, chunks, heard, transcript>>
        /\ media' \in {"look", "failed"}
    BY <1>4 DEF LookAt
  <2>2. QED
    BY <2>1, MediaMoves
<1>5. QED
  BY <1>1, <1>2, <1>3, <1>4, DetectSpeechStep, CutChunkStep, TranscribeStep DEF MediaNext

\* However bursts merge, pad and are cut and whatever times the model reports: no
\* moment is transcribed twice, and every burst that lasts the minimum reaches the
\* model, but for a last piece of a long interval that is shorter than that.
THEOREM SpeechStaysHeard == MediaSpec => []SpeechIsHeardOnce
<1>1. MediaInv => TranscribedOnce
  <2>1. SUFFICES ASSUME MediaInv, NEW s \in transcript
                 PROVE  /\ GlobalOffset <= s.start /\ s.start < s.end
                        /\ s.end <= GlobalOffset + Length
                        /\ \A t \in transcript :
                             t.chunk # s.chunk => t.end <= s.start \/ s.end <= t.start
    BY DEF TranscribedOnce
  <2>2. ASSUME NEW t \in transcript
        PROVE  /\ t.chunk \in DOMAIN chunks /\ t.start \in Int /\ t.end \in Int
               /\ chunks[t.chunk].start \in Nat /\ chunks[t.chunk].end \in Nat
               /\ chunks[t.chunk].end <= Length /\ t.start < t.end
               /\ GlobalOffset + chunks[t.chunk].start <= t.start
               /\ t.end <= GlobalOffset + chunks[t.chunk].end
               /\ \A c \in 1 .. t.chunk - 1 : chunks[c].end <= chunks[t.chunk].start
    <3>1. /\ heard \in Nat /\ heard <= Len(chunks) /\ t.chunk \in 1 .. heard
          /\ chunks \in Seq(Interval)
      BY <2>1 DEF MediaInv, HeardInChunk, ChunksFollow
    <3>2. t.chunk \in DOMAIN chunks /\ chunks[t.chunk] \in Interval
      BY <3>1
    <3>3. QED
      BY <2>1, <3>1, <3>2 DEF MediaInv, HeardInChunk, ChunksFollow, Interval
  <2>3. GlobalOffset \in Nat /\ Length \in Nat /\ chunks \in Seq(Interval)
    BY <2>1, MediaAssumption DEF MediaInv, ChunksFollow
  <2>4. ASSUME NEW t \in transcript, t.chunk # s.chunk
        PROVE  t.end <= s.start \/ s.end <= t.start
    <3>1. t.chunk \in 1 .. s.chunk - 1 \/ s.chunk \in 1 .. t.chunk - 1
      BY <2>2, <2>3, <2>4
    <3>2. \/ chunks[t.chunk].end <= chunks[s.chunk].start
          \/ chunks[s.chunk].end <= chunks[t.chunk].start
      BY <2>2, <3>1
    <3>3. ASSUME NEW u \in transcript, NEW v \in transcript,
                 chunks[u.chunk].end <= chunks[v.chunk].start
          PROVE  u.end <= v.start
      <4>1. PICK x \in Int, y \in Int : x = chunks[u.chunk].end /\ y = chunks[v.chunk].start
        BY <2>2
      <4>2. u.end <= GlobalOffset + x /\ GlobalOffset + y <= v.start /\ x <= y
        BY <2>2, <3>3, <4>1
      <4>3. u.end \in Int /\ v.start \in Int
        BY <2>2
      <4>4. QED
        BY <2>3, <4>2, <4>3
    <3>4. QED
      BY <3>2, <3>3
  <2>5. PICK x \in Nat, y \in Nat :
          x = chunks[s.chunk].start /\ y = chunks[s.chunk].end /\ y <= Length
    BY <2>2
  <2>6. GlobalOffset + x <= s.start /\ s.end <= GlobalOffset + y /\ s.start < s.end
        /\ s.start \in Int /\ s.end \in Int
    BY <2>2, <2>5
  <2>7. GlobalOffset <= s.start /\ s.end <= GlobalOffset + Length
    BY <2>3, <2>5, <2>6
  <2>8. QED
    BY <2>4, <2>6, <2>7
<1>2. MediaInv => SpeechReachesAsr
  <2> SUFFICES ASSUME MediaInv, media = "listen", NEW k \in DOMAIN Bursts,
                      Bursts[k].end - Bursts[k].start >= MinSpeech
               PROVE  LET b == Bursts[k]
                          lost == {f \in b.start .. b.end - 1 :
                                     \A c \in DOMAIN chunks :
                                       f < chunks[c].start \/ chunks[c].end <= f}
                      IN /\ Cardinality(lost) < MinSpeech
                         /\ \A f \in lost : f >= b.start + MaxChunk - Pad
    BY DEF SpeechReachesAsr
  <2>1. /\ Bursts[k].start \in Nat /\ Bursts[k].end \in Nat
        /\ {MinSpeech, MaxChunk, Pad} \subseteq Nat
    <3>1. Bursts[k] \in Interval
      BY BurstsAreSpaced DEF Bursts, Spaced
    <3>2. QED
      BY <3>1, MediaAssumption DEF Interval
  <2>2. PICK p \in Speech : /\ p.start <= Bursts[k].start /\ Bursts[k].start <= p.start + Pad
                            /\ Bursts[k].end <= p.end
    BY SpeechIs
  <2>3. p \in Interval /\ p.start \in Nat /\ p.end \in Nat /\ p.end - p.start >= MinSpeech
    BY SpeechIs DEF Interval
  <2>4. PICK q \in p.start .. p.end : CutUpTo(p, q)
    BY DEF MediaInv, IsCut
  <2>5. /\ p.end - q < MinSpeech /\ q # p.start
        /\ q = p.end \/ q >= p.start + MaxChunk
        /\ \A g \in p.start .. q - 1 : InChunk(g)
    BY <2>1, <2>3, <2>4 DEF MediaInv, CutUpTo
  <2> DEFINE lost == {f \in Bursts[k].start .. Bursts[k].end - 1 :
                        \A c \in DOMAIN chunks : f < chunks[c].start \/ chunks[c].end <= f}
  <2>6. ASSUME NEW f \in lost
        PROVE  f \in q .. p.end - 1
    <3>1. ~InChunk(f)
      <4>1. ASSUME NEW c \in DOMAIN chunks, chunks[c].start <= f, f < chunks[c].end PROVE FALSE
        <5>1. chunks[c] \in Interval
          BY DEF MediaInv, ChunksFollow
        <5>2. QED
          BY <2>1, <4>1, <5>1 DEF Interval
      <4>2. QED
        BY <4>1 DEF InChunk
    <3>2. f \in p.start .. p.end - 1
      BY <2>1, <2>2, <2>3
    <3>3. QED
      BY <2>3, <2>4, <2>5, <3>1, <3>2
  <2>7. Cardinality(lost) < MinSpeech
    <3>1. lost \subseteq q .. p.end - 1 /\ q \in Nat /\ p.end - 1 \in Int
      BY <2>3, <2>4, <2>6
    <3>2. IsFiniteSet(q .. p.end - 1)
          /\ Cardinality(q .. p.end - 1) = IF q > p.end - 1 THEN 0 ELSE p.end - 1 - q + 1
      BY <3>1, FS_Interval
    <3>3. Cardinality(lost) <= Cardinality(q .. p.end - 1) /\ Cardinality(lost) \in Nat
      BY <3>1, <3>2, FS_Subset, FS_CardinalityType
    <3> HIDE DEF lost
    <3>4. QED
      BY <2>1, <2>3, <2>4, <2>5, <3>2, <3>3
  <2>8. ASSUME NEW f \in lost PROVE f >= Bursts[k].start + MaxChunk - Pad
    <3>1. f \in q .. p.end - 1
      BY <2>6
    <3>2. QED
      BY <2>1, <2>2, <2>3, <2>4, <2>5, <3>1
  <2>9. QED
    BY <2>7, <2>8
<1>3. QED
  BY <1>1, <1>2, MediaStart, MediaStep, PTL DEF MediaSpec, SpeechIsHeardOnce

-----------------------------------------------------------------------------
(* Long videos                                                             *)

LEMMA PartLengths ==
  ASSUME NEW v \in Videos
  PROVE  PartSeconds(v) \in Nat \ {0} /\ v.seconds \in Nat \ {0}
<1>1. /\ v.seconds \in Nat \ {0} /\ v.limit \in Nat \ {0} /\ v.minimum \in Nat \ {0}
      /\ v.target \in Nat \ {0}
  BY MergeAssumption
<1>2. SafeBytes(v) \in Int /\ FullRate(v) \in Int
  <2>1. SafeBytes(v) \in Int
    BY <1>1 DEF SafeBytes
  <2>2. v.seconds * 1000 \in Nat \ {0}
    BY <1>1
  <2>3. QED
    BY <2>1, <2>2 DEF FullRate
<1>3. Rate(v) \in Nat \ {0}
  BY <1>1, <1>2 DEF Rate, Greater
<1>4. (SafeBytes(v) * 8) \div (Rate(v) * 1000) \in Int
  BY <1>2, <1>3
<1>5. QED
  BY <1>1, <1>4 DEF PartSeconds, Greater

\* Rounded up: the last part is neither empty nor too long.
LEMMA RoundedUp ==
  ASSUME NEW a \in Nat \ {0}, NEW m \in Nat \ {0}
  PROVE  /\ CeilDiv(a, m) \in Nat \ {0}
         /\ (CeilDiv(a, m) - 1) * m < a /\ a <= CeilDiv(a, m) * m
<1>1. PICK q : q = (a + m - 1) \div m
  OBVIOUS
<1>2. a + m - 1 \in Nat
  OBVIOUS
<1>3. q \in Nat /\ m * q <= a + m - 1 /\ a + m - 1 < m * (q + 1)
  BY <1>1, <1>2, Division
<1>4. m * (q + 1) = m * q + m /\ (q - 1) * m = m * q - m /\ q * m = m * q
  BY <1>3
<1>5. q # 0
  BY <1>3, <1>4
<1>6. QED
  BY <1>1, <1>3, <1>4, <1>5 DEF CeilDiv

\* What the parts of a plan look like: equal but for the last.
Planned(ps, v) ==
  /\ ps \in Seq([start : Nat, duration : Nat \ {0}]) /\ Len(ps) > 0
  /\ ps[1].start = 0
  /\ \A k \in 2 .. Len(ps) : ps[k].start = ps[k - 1].start + ps[k - 1].duration
  /\ ps[Len(ps)].start + ps[Len(ps)].duration = v.seconds
  /\ \A j, k \in 1 .. Len(ps) : j < k => ps[k].start >= ps[j].start + ps[j].duration

LEMMA PartsArePlanned ==
  ASSUME NEW v \in Videos
  PROVE  Planned(PartsOf(v), v)
<1>1. PICK m \in Nat \ {0} : m = PartSeconds(v)
  BY PartLengths
<1>2. PICK a \in Nat \ {0} : a = v.seconds
  BY PartLengths
<1>3. CASE OneFile(v)
  <2>1. PICK q : q = [start |-> 0, duration |-> v.seconds]
    OBVIOUS
  <2>2. q \in [start : Nat, duration : Nat \ {0}] /\ q.start = 0 /\ q.duration = a
    BY <1>2, <2>1
  <2>3. PICK s : s = <<q>>
    OBVIOUS
  <2>4. /\ s \in Seq([start : Nat, duration : Nat \ {0}]) /\ Len(s) = 1 /\ s[1] = q
    BY <2>2, <2>3
  <2>5. PartsOf(v) = s
    BY <1>3, <2>1, <2>3 DEF PartsOf
  <2>6. Planned(s, v)
    BY <1>2, <2>2, <2>4 DEF Planned
  <2>7. QED
    BY <2>5, <2>6
<1>4. CASE ~OneFile(v)
  <2>1. PICK c \in Nat \ {0} : c = PartCount(v) /\ (c - 1) * m < a /\ a <= c * m
    BY <1>1, <1>2, RoundedUp DEF PartCount
  <2>2. PICK s : s = [k \in 1 .. c |-> [start |-> (k - 1) * m,
                                       duration |-> Smaller(m, a - (k - 1) * m)]]
    OBVIOUS
  <2>3. PartsOf(v) = s
    BY <1>1, <1>2, <1>4, <2>1, <2>2 DEF PartsOf
  <2>4. ASSUME NEW k \in 1 .. c
        PROVE  /\ (k - 1) * m \in Nat
               /\ (k - 1) * m < a
               /\ k < c => a - (k - 1) * m > m
    <3>1. PICK r \in Nat : c = k + r
      <4>1. c - k \in Nat /\ c = k + (c - k)
        OBVIOUS
      <4>2. QED
        BY <4>1
    <3>2. PICK i \in Nat : k = i + 1
      <4>1. k - 1 \in Nat /\ k = (k - 1) + 1
        OBVIOUS
      <4>2. QED
        BY <4>1
    <3>3. (c - 1) * m = i * m + r * m /\ r * m >= 0 /\ i * m \in Nat
      BY <3>1, <3>2
    <3>4. i * m < a
      BY <2>1, <3>3
    <3>5. r > 0 => r * m >= m
      OBVIOUS
    <3>6. k < c => i * m + m < a
      BY <2>1, <3>1, <3>3, <3>5
    <3>7. k - 1 = i
      BY <3>2
    <3>8. QED
      BY <3>3, <3>4, <3>6, <3>7
  <2>5. ASSUME NEW k \in 1 .. c
        PROVE  /\ s[k] \in [start : Nat, duration : Nat \ {0}]
               /\ s[k].start = (k - 1) * m
               /\ s[k].duration <= m
               /\ k < c => s[k].duration = m
               /\ k = c => s[k].start + s[k].duration = a
    <3>1. PICK p \in Nat : p = (k - 1) * m
      BY <2>4
    <3>2. p < a /\ (k < c => a - p > m)
      BY <2>4, <3>1
    <3>3. PICK d : d = Smaller(m, a - p)
      OBVIOUS
    <3>4. d \in Nat \ {0} /\ d <= m /\ (k < c => d = m)
      BY <3>2, <3>3 DEF Smaller
    <3>5. k = c => a <= p + m
      <4>1. c * m = (c - 1) * m + m
        OBVIOUS
      <4>2. QED
        BY <2>1, <3>1, <4>1
    <3>6. k = c => p + d = a
      BY <3>2, <3>3, <3>5 DEF Smaller
    <3>7. s[k] = [start |-> p, duration |-> d]
      BY <2>2, <3>1, <3>3
    <3>8. QED
      BY <3>1, <3>4, <3>6, <3>7
  <2>6. s \in Seq([start : Nat, duration : Nat \ {0}]) /\ Len(s) = c
    <3>1. PICK T : T = [start : Nat, duration : Nat \ {0}]
      OBVIOUS
    <3>2. s \in [1 .. c -> T]
      BY <2>2, <2>5, <3>1
    <3>3. s \in Seq(T) /\ Len(s) = c
      BY <3>2
    <3>4. QED
      BY <3>1, <3>3
  <2>7. s[1].start = 0
    <3>1. 1 \in 1 .. c /\ (1 - 1) * m = 0
      OBVIOUS
    <3>2. QED
      BY <2>5, <3>1
  <2>8. ASSUME NEW k \in 2 .. c
        PROVE  s[k].start = s[k - 1].start + s[k - 1].duration
    <3>1. k \in 1 .. c /\ k - 1 \in 1 .. c /\ k - 1 < c
      OBVIOUS
    <3>2. s[k].start = (k - 1) * m /\ s[k - 1].start = (k - 1 - 1) * m
          /\ s[k - 1].duration = m
      BY <2>5, <3>1
    <3>3. (k - 1) * m = (k - 1 - 1) * m + m
      OBVIOUS
    <3>4. QED
      BY <3>2, <3>3
  <2>9. s[c].start + s[c].duration = a
    <3>1. c \in 1 .. c
      OBVIOUS
    <3>2. QED
      BY <2>5, <3>1
  <2>10. ASSUME NEW j \in 1 .. c, NEW k \in 1 .. c, j < k
         PROVE  s[k].start >= s[j].start + s[j].duration
    <3>1. PICK r \in Nat : k = j + 1 + r
      <4>1. k - j - 1 \in Nat /\ k = j + 1 + (k - j - 1)
        BY <2>10
      <4>2. QED
        BY <4>1
    <3>2. (k - 1) * m = (j - 1) * m + m + r * m /\ r * m >= 0
      BY <3>1
    <3>3. /\ s[k].start = (k - 1) * m /\ s[j].start = (j - 1) * m
          /\ s[j].duration <= m /\ s[j].duration \in Nat /\ s[j].start \in Nat
      BY <2>5
    <3>4. r * m \in Nat
      OBVIOUS
    <3>5. QED
      BY <3>2, <3>3, <3>4
  <2>11. Planned(s, v)
    BY <1>2, <2>6, <2>7, <2>8, <2>9, <2>10 DEF Planned
  <2>12. QED
    BY <2>3, <2>11
<1>5. QED
  BY <1>3, <1>4

LEMMA PlannedIsValid ==
  ASSUME parts # <<>>, Planned(parts, video)
  PROVE  ManifestValid
<1>1. /\ parts \in Seq([start : Nat, duration : Nat \ {0}]) /\ Len(parts) > 0
      /\ DOMAIN parts = 1 .. Len(parts) /\ Len(parts) \in Nat
  BY DEF Planned
<1>2. \A k \in 1 .. Len(parts) : parts[k] \in [start : Nat, duration : Nat \ {0}]
  BY <1>1, ElementOfSeq
<1>3. Last(parts).start + Last(parts).duration = video.seconds
  BY DEF Planned, Last
<1>4. \A k \in DOMAIN parts :
        parts[k].start = (IF k = 1 THEN 0 ELSE parts[k - 1].start + parts[k - 1].duration)
  <2>1. \A k \in 1 .. Len(parts) : k = 1 \/ k \in 2 .. Len(parts)
    BY <1>1
  <2>2. QED
    BY <1>1, <2>1 DEF Planned
<1>5. QED
  BY <1>1, <1>2, <1>3, <1>4 DEF ManifestValid

\* A result that is kept is one of its own part.
KeptAreOwn ==
  /\ DOMAIN kept \subseteq 1 .. Len(parts)
  /\ \A i \in DOMAIN kept :
       /\ kept[i].index = i /\ kept[i].expected = Len(parts)
       /\ kept[i].start \in Nat /\ kept[i].duration = 2 * parts[i].duration

\* No two results of a part overlap another's by more than half a second.
InTurn(rs) ==
  \A r, s \in rs : r.index < s.index => s.start + 1 >= r.start + r.duration

MergeInv ==
  /\ video \in Videos /\ verdict \in {"plan", "open", "refused", "merged"}
  /\ verdict = "plan" => DOMAIN kept = {} /\ received = {}
  /\ verdict # "plan" => /\ parts # <<>> /\ Planned(parts, video)
                         /\ KeptAreOwn
  /\ verdict # "refused" => received = Kept
  /\ verdict = "merged" => /\ DOMAIN kept = DOMAIN parts /\ merged = Merged(Kept)
                           /\ InTurn(Kept)

LEMMA ResultFields ==
  ASSUME Planned(parts, video), NEW r \in PartResults
  PROVE  /\ r.index \in 1 .. Len(parts) /\ r.expected = Len(parts)
         /\ r.start \in Nat /\ r.duration = 2 * parts[r.index].duration
<1>1. PICK i \in DOMAIN parts, shift \in Shifts, n \in Counts, t \in Locals :
        r = [index |-> i, start |-> Greater(0, 2 * parts[i].start - shift),
             duration |-> 2 * parts[i].duration, expected |-> Len(parts),
             count |-> n, evidence |-> t]
  BY DEF PartResults
<1>2. parts \in Seq([start : Nat, duration : Nat \ {0}]) /\ DOMAIN parts = 1 .. Len(parts)
  BY DEF Planned
<1>3. parts[i].start \in Nat /\ shift \in Nat
  <2>1. parts[i] \in [start : Nat, duration : Nat \ {0}]
    BY <1>2, ElementOfSeq
  <2>2. QED
    BY <2>1, MergeAssumption
<1>4. PICK q : q = Greater(0, 2 * parts[i].start - shift)
  OBVIOUS
<1>5. q \in Nat
  BY <1>3, <1>4 DEF Greater
<1>6. QED
  BY <1>1, <1>2, <1>4, <1>5

LEMMA ReceiveKeeps ==
  ASSUME MergeInv, NEW r \in PartResults, Receive(r)
  PROVE  MergeInv'
<1>1. /\ verdict = "open" /\ UNCHANGED <<video, parts>> /\ received = Kept
      /\ Planned(parts, video) /\ KeptAreOwn /\ parts # <<>> /\ video \in Videos
  BY DEF MergeInv, Receive
<1>2. CASE Conflicts(r)
  <2>1. verdict' = "refused" /\ kept' = kept
    BY <1>2 DEF Receive
  <2>2. QED
    BY <1>1, <2>1 DEF MergeInv, KeptAreOwn
<1>3. CASE ~Conflicts(r)
  <2>1. /\ verdict' = "open" /\ received' = received \cup {r}
        /\ kept' = [i \in DOMAIN kept \cup {r.index} |-> IF i = r.index THEN r ELSE kept[i]]
    BY <1>1, <1>3 DEF Receive
  <2>2. /\ r.index \in 1 .. Len(parts) /\ r.expected = Len(parts)
        /\ r.start \in Nat /\ r.duration = 2 * parts[r.index].duration
    BY <1>1, ResultFields
  <2>3. /\ DOMAIN kept' = DOMAIN kept \cup {r.index} /\ kept'[r.index] = r
        /\ \A i \in DOMAIN kept : i # r.index => kept'[i] = kept[i]
        /\ r.index \in DOMAIN kept => kept[r.index] = r
    BY <1>3, <2>1 DEF Conflicts
  <2>4. KeptAreOwn'
    BY <1>1, <2>2, <2>3 DEF KeptAreOwn
  <2>5. Kept' = Kept \cup {r}
    <3>1. \A i \in DOMAIN kept : kept'[i] = kept[i]
      BY <2>3
    <3>2. QED
      BY <2>3, <3>1 DEF Kept
  <2>6. QED
    BY <1>1, <2>1, <2>4, <2>5 DEF MergeInv
<1>4. QED
  BY <1>2, <1>3

LEMMA KeptIsFinite ==
  ASSUME KeptAreOwn, Planned(parts, video)
  PROVE  IsFiniteSet(Kept)
<1>1. Len(parts) \in Nat
  BY DEF Planned
<1>2. IsFiniteSet(1 .. Len(parts))
  BY <1>1, FS_Interval
<1>3. IsFiniteSet(DOMAIN kept)
  BY <1>2, FS_Subset DEF KeptAreOwn
<1>4. PICK D, f : D = DOMAIN kept /\ f = [i \in D |-> kept[i]]
  OBVIOUS
<1>5. f \in Surjection(D, Kept)
  BY <1>4 DEF Kept, Surjection
<1>6. QED
  BY <1>3, <1>4, <1>5, FS_Surjection

\* What the check of the results among themselves comes to.
LEMMA RankedResults ==
  ASSUME KeptAreOwn, Planned(parts, video), DOMAIN kept # {}, Sequenced,
         \A k \in 2 .. Len(Ranked) : Follows(Ranked[k - 1], Ranked[k])
  PROVE  DOMAIN kept = 1 .. Len(parts) /\ InTurn(Kept)
<1>1. IsFiniteSet(Kept)
  BY KeptIsFinite
<1>2. /\ \A r \in Kept : /\ r.index \in DOMAIN kept /\ r = kept[r.index]
                         /\ r.expected = Len(parts) /\ r.start \in Nat /\ r.index \in Nat
                         /\ r.duration \in Nat
      /\ \A i \in DOMAIN kept : kept[i] \in Kept
  <2>1. \A i \in 1 .. Len(parts) : parts[i].duration \in Nat
    <3>1. parts \in Seq([start : Nat, duration : Nat \ {0}])
      BY DEF Planned
    <3>2. \A i \in 1 .. Len(parts) : parts[i] \in [start : Nat, duration : Nat \ {0}]
      BY <3>1, ElementOfSeq
    <3>3. QED
      BY <3>2
  <2>2. Len(parts) \in Nat
    BY DEF Planned
  <2>3. QED
    BY <2>1, <2>2 DEF Kept, KeptAreOwn
<1>3. PICK R : R = {p \in Kept \X Kept : Before(p[1], p[2])}
  OBVIOUS
<1>4. \A r, s \in Kept : <<r, s>> \in R <=> Before(r, s)
  BY <1>3
<1>5. Orders(R, Kept)
  <2>1. \A r, s \in Kept : r.index = s.index => r = s
    BY <1>2
  <2>2. \A r \in Kept : ~Before(r, r)
    BY <1>2 DEF Before
  <2>3. \A r, s, t \in Kept : Before(r, s) /\ Before(s, t) => Before(r, t)
    BY <1>2 DEF Before
  <2>4. \A r, s \in Kept : r = s \/ Before(r, s) \/ Before(s, r)
    BY <1>2, <2>1 DEF Before
  <2>5. QED
    BY <1>4, <2>2, <2>3, <2>4 DEF Orders
<1>6. /\ Cardinality(Kept) \in Nat
      /\ \A t \in Kept : RankIn(Kept, R, t) \in 0 .. Cardinality(Kept) - 1
      /\ \A t, u \in Kept : <<t, u>> \in R => RankIn(Kept, R, t) < RankIn(Kept, R, u)
      /\ \A k \in 1 .. Cardinality(Kept) : \E t \in Kept : RankIn(Kept, R, t) = k - 1
  BY <1>1, <1>5, RanksAreFilled
<1>7. \A t \in Kept : RankIn(Kept, R, t) = Cardinality({s \in Kept : Before(s, t)})
  <2>1. \A t \in Kept : {s \in Kept : <<s, t>> \in R} = {s \in Kept : Before(s, t)}
    BY <1>4
  <2>2. QED
    BY <2>1 DEF RankIn
<1>8. PICK n \in Nat : n = Cardinality(Kept)
  BY <1>6
<1>9. /\ DOMAIN Ranked = 1 .. n /\ Len(Ranked) = n
      /\ \A k \in 1 .. n : Ranked[k] \in Kept /\ RankIn(Kept, R, Ranked[k]) = k - 1
  <2>1. \A k \in 1 .. n : \E t \in Kept : Cardinality({s \in Kept : Before(s, t)}) = k - 1
    BY <1>6, <1>7, <1>8
  <2>2. PICK q : q = [k \in 1 .. n |->
               CHOOSE r \in Kept : Cardinality({s \in Kept : Before(s, r)}) = k - 1]
    OBVIOUS
  <2>3. Ranked = q
    BY <1>8, <2>2 DEF Ranked
  <2>4. \A k \in 1 .. n : q[k] \in Kept /\ Cardinality({s \in Kept : Before(s, q[k])}) = k - 1
    BY <2>1, <2>2
  <2>5. DOMAIN q = 1 .. n /\ Len(q) = n
    <3>1. q \in [1 .. n -> Kept]
      BY <2>2, <2>4
    <3>2. QED
      BY <3>1
  <2>6. QED
    BY <1>7, <2>3, <2>4, <2>5
<1>10. \A k \in 1 .. n : Ranked[k].index = k
  BY <1>9 DEF Sequenced
<1>11. n = Len(parts)
  BY <1>2, <1>9 DEF Sequenced
<1>12. ASSUME NEW r \in Kept
       PROVE  r.index \in 1 .. n /\ Ranked[r.index] = r
  <2>1. PICK k \in 1 .. n : k - 1 = RankIn(Kept, R, r)
    <3>1. RankIn(Kept, R, r) + 1 \in 1 .. n
      BY <1>6, <1>8
    <3>2. QED
      BY <1>6, <3>1
  <2>2. Ranked[k] = r
    <3>1. RankIn(Kept, R, Ranked[k]) = RankIn(Kept, R, r) /\ Ranked[k] \in Kept
      BY <1>9, <2>1
    <3>2. ~(<<Ranked[k], r>> \in R) /\ ~(<<r, Ranked[k]>> \in R)
      BY <1>6, <2>1, <3>1
    <3>3. QED
      BY <1>5, <3>1, <3>2 DEF Orders
  <2>3. QED
    BY <1>10, <2>2
<1>13. DOMAIN kept = 1 .. Len(parts)
  <2>1. \A k \in 1 .. n : k \in DOMAIN kept
    BY <1>2, <1>9, <1>10
  <2>2. QED
    BY <1>11, <2>1 DEF KeptAreOwn
<1>14. ASSUME NEW r \in Kept, NEW s \in Kept, r.index < s.index
       PROVE  s.start + 1 >= r.start + r.duration
  <2>1. PICK i \in 1 .. n, j \in 1 .. n : i = r.index /\ j = s.index
    BY <1>12
  <2>2. i < j /\ i + 1 \in 2 .. n /\ i + 1 \in 1 .. n /\ i + 1 - 1 = i
    BY <1>14, <2>1
  <2>3. PICK t \in Kept : t = Ranked[i + 1] /\ RankIn(Kept, R, t) = i
    BY <1>9, <2>2
  <2>4. Follows(r, t)
    <3>1. Follows(Ranked[i + 1 - 1], Ranked[i + 1])
      BY <1>9, <2>2
    <3>2. Ranked[i] = r
      BY <1>12, <2>1
    <3>3. QED
      BY <2>2, <2>3, <3>1, <3>2
  <2>5. RankIn(Kept, R, s) = j - 1
    BY <1>9, <1>12, <2>1
  <2>6. ~Before(s, t)
    <3>1. <<s, t>> \in R => j - 1 < i
      BY <1>6, <2>3, <2>5
    <3>2. ~(j - 1 < i)
      BY <2>2
    <3>3. QED
      BY <1>4, <3>1, <3>2
  <2>7. t.start <= s.start
    BY <1>2, <2>6 DEF Before
  <2>8. QED
    BY <1>2, <2>4, <2>7 DEF Follows
<1>15. QED
  BY <1>13, <1>14 DEF InTurn

LEMMA ManifestResults ==
  ASSUME KeptAreOwn, Planned(parts, video), DOMAIN kept = DOMAIN parts,
         \A r \in Kept : r.start = 2 * parts[r.index].start
  PROVE  InTurn(Kept)
<1> SUFFICES ASSUME NEW r \in Kept, NEW s \in Kept, r.index < s.index
             PROVE  s.start + 1 >= r.start + r.duration
  BY DEF InTurn
<1>1. PICK i \in DOMAIN kept, j \in DOMAIN kept : r = kept[i] /\ s = kept[j]
  BY DEF Kept
<1>2. /\ i \in 1 .. Len(parts) /\ j \in 1 .. Len(parts) /\ r.index = i /\ s.index = j
      /\ r.duration = 2 * parts[i].duration
  BY <1>1 DEF KeptAreOwn
<1>3. r.start = 2 * parts[i].start /\ s.start = 2 * parts[j].start
  BY <1>2
<1>4. parts[i] \in [start : Nat, duration : Nat \ {0}]
      /\ parts[j] \in [start : Nat, duration : Nat \ {0}]
  <2>1. PICK T : T = [start : Nat, duration : Nat \ {0}]
    OBVIOUS
  <2>2. parts \in Seq(T)
    BY <2>1 DEF Planned
  <2>3. parts[i] \in T /\ parts[j] \in T
    BY <1>2, <2>2, ElementOfSeq
  <2>4. QED
    BY <2>1, <2>3
<1>5. parts[j].start >= parts[i].start + parts[i].duration
  BY <1>2 DEF Planned
<1>6. PICK a, b, d \in Nat : a = parts[i].start /\ b = parts[j].start /\ d = parts[i].duration
  BY <1>4
<1>7. b >= a + d
  BY <1>5, <1>6
<1>8. 2 * b + 1 >= 2 * a + 2 * d
  BY <1>7
<1>9. QED
  BY <1>2, <1>3, <1>6, <1>8

LEMMA MergeStart == MergeInit => MergeInv
BY DEF MergeInit, MergeInv, Kept

LEMMA MergeStep == MergeInv /\ [MergeNext]_mergeVars => MergeInv'
<1> SUFFICES ASSUME MergeInv, [MergeNext]_mergeVars PROVE MergeInv'
  OBVIOUS
<1>1. CASE UNCHANGED mergeVars
  BY <1>1 DEF mergeVars, MergeInv, KeptAreOwn, Kept
<1>2. CASE BuildPlan
  <2>1. /\ video' = video /\ verdict' = "open" /\ parts' = PartsOf(video)
        /\ verdict = "plan" /\ kept' = kept /\ received' = received
    BY <1>2 DEF BuildPlan
  <2>2. Planned(parts', video) /\ video \in Videos
    BY <2>1, PartsArePlanned DEF MergeInv
  <2>3. parts' # <<>>
    BY <2>2 DEF Planned
  <2>4. KeptAreOwn'
    BY <2>1 DEF MergeInv, KeptAreOwn
  <2>5. received' = Kept'
    BY <2>1 DEF MergeInv, Kept
  <2>6. QED
    BY <2>1, <2>2, <2>3, <2>4, <2>5 DEF MergeInv
<1>3. CASE MergeByManifest \/ MergeByFiles
  <2>1. /\ verdict = "open" /\ UNCHANGED <<video, parts, kept, received>>
        /\ verdict' = "refused" \/ (verdict' = "merged" /\ merged' = Merged(Kept))
    BY <1>3 DEF MergeByManifest, MergeByFiles, Refuse, Accept
  <2>2. /\ Planned(parts, video) /\ KeptAreOwn /\ parts # <<>> /\ received = Kept
        /\ video \in Videos /\ DOMAIN parts = 1 .. Len(parts)
    <3>1. Planned(parts, video)
      BY <2>1 DEF MergeInv
    <3>2. parts \in Seq([start : Nat, duration : Nat \ {0}])
      BY <3>1 DEF Planned
    <3>3. DOMAIN parts = 1 .. Len(parts)
      BY <3>2
    <3>4. QED
      BY <2>1, <3>1, <3>3 DEF MergeInv
  <2>3. /\ KeptAreOwn' /\ Kept' = Kept
    BY <2>1, <2>2 DEF KeptAreOwn, Kept
  <2>4. CASE verdict' = "refused"
    BY <2>1, <2>2, <2>3, <2>4 DEF MergeInv
  <2>5. CASE verdict' = "merged"
    <3>1. DOMAIN kept = DOMAIN parts /\ InTurn(Kept)
      <4>1. CASE MergeByManifest
        <5>1. /\ DOMAIN kept = DOMAIN parts
              /\ \A r \in Kept : r.start = 2 * parts[r.index].start
          BY <2>5, <4>1 DEF MergeByManifest, Refuse
        <5>2. QED
          BY <2>2, <5>1, ManifestResults
      <4>2. CASE MergeByFiles
        <5>1. /\ DOMAIN kept # {} /\ Sequenced
              /\ \A k \in 2 .. Len(Ranked) : Follows(Ranked[k - 1], Ranked[k])
          BY <2>5, <4>2 DEF MergeByFiles, Refuse
        <5>2. QED
          BY <2>2, <5>1, RankedResults
      <4>3. QED
        BY <1>3, <4>1, <4>2
    <3>2. merged' = Merged(Kept)
      BY <2>1, <2>5
    <3>3. InTurn(Kept') /\ merged' = Merged(Kept')
      BY <2>3, <3>1, <3>2
    <3>4. QED
      BY <2>1, <2>2, <2>3, <2>5, <3>1, <3>3 DEF MergeInv
  <2>6. QED
    BY <2>1, <2>4, <2>5
<1>4. CASE \E r \in PartResults : Receive(r)
  BY <1>4, ReceiveKeeps
<1>5. QED
  BY <1>1, <1>2, <1>3, <1>4 DEF MergeNext

\* However long a video is and however its rates and lengths are rounded, the parts
\* of its plan cover it once; and whatever results arrive, in any order, again or
\* never, a merge that succeeds is one of exactly one result of every part.
THEOREM PartsAreTheWhole == MergeSpec => []PartsMakeTheWhole
<1>1. MergeInv => PlanCovers
  BY PlannedIsValid DEF MergeInv, PlanCovers
<1>2. MergeInv => MergeIsExact
  <2>1. SUFFICES ASSUME MergeInv, verdict = "merged"
                 PROVE  /\ \A i \in DOMAIN parts :
                             Cardinality({r \in received : r.index = i}) = 1
                        /\ merged = Merged(received)
                        /\ \A r, s \in received :
                             r.index < s.index => s.start + 1 >= r.start + r.duration
    BY DEF MergeIsExact
  <2>2. /\ received = Kept /\ DOMAIN kept = DOMAIN parts /\ merged = Merged(Kept)
        /\ InTurn(Kept) /\ KeptAreOwn
    BY <2>1 DEF MergeInv
  <2>3. ASSUME NEW i \in DOMAIN parts
        PROVE  Cardinality({r \in received : r.index = i}) = 1
    <3>1. {r \in received : r.index = i} = {kept[i]}
      BY <2>2 DEF Kept, KeptAreOwn
    <3>2. QED
      BY <3>1, FS_Singleton
  <2>4. merged = Merged(received)
    BY <2>2
  <2>5. QED
    BY <2>2, <2>3, <2>4 DEF InTurn
<1>3. QED
  BY <1>1, <1>2, MergeStart, MergeStep, PTL DEF MergeSpec, PartsMakeTheWhole

=============================================================================
