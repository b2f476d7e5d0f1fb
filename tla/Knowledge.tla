------------------------------- MODULE Knowledge -------------------------------
(***************************************************************************)
(* The knowledge base.  A source is registered before it is read, so that  *)
(* every failure has a row; it is parsed, cut and embedded outside a       *)
(* transaction and its chunks are written in one; a publication reads the  *)
(* rows, checks the gate and commits later.  A reader searches the         *)
(* published chunks of its workspace, packs what was ranked best into a    *)
(* budget of tokens, and its answer passes a citation gate that looks at   *)
(* the rows again.  The in-memory repository of the offline evaluation is  *)
(* the case in which nothing happens between two steps of one call.        *)
(***************************************************************************)
EXTENDS Integers, Sequences, FiniteSets, SequencesExt

CONSTANTS
  Documents,     \* registrations: [id, workspace, source, version, licensed, authorized, pieces]
  Ingesters, Publishers, Readers,
  ContextK,      \* context_k: how many ranked chunks are considered
  ContextBudget, \* context_token_budget
  MaxDeaths      \* bound on the processes that die

\* A piece of a document is [text, tokens]: two documents may share a text.
ASSUME KnowledgeAssumption ==
  /\ \A d \in Documents : /\ {d.licensed, d.authorized} \subseteq BOOLEAN
                          /\ \A piece \in d.pieces : piece.tokens \in Nat \ {0}
  /\ {ContextK, ContextBudget} \subseteq Nat \ {0} /\ MaxDeaths \in Nat

VARIABLES
  rows,       \* document -> its row and the chunks that refer to it
  ingest,     \* the ingestion each ingester is in
  publishing, \* the publication each publisher is in
  answers,    \* what each reader retrieved and cites
  deaths

knowledgeVars == <<rows, ingest, publishing, answers, deaths>>

Unregistered == [status |-> "NONE", error |-> FALSE, chunks |-> {}]
NoIngestion == [at |-> "idle"]
NoPublication == [at |-> "idle"]
NoDraft == [at |-> "idle"]

Workspaces == {d.workspace : d \in Documents}

KnowledgeInit ==
  /\ rows = [d \in Documents |-> Unregistered]
  /\ ingest = [i \in Ingesters |-> NoIngestion]
  /\ publishing = [p \in Publishers |-> NoPublication]
  /\ answers = [r \in Readers |-> NoDraft]
  /\ deaths = 0

-----------------------------------------------------------------------------
(* Ingestion                                                               *)

SameSource(d, e) == d.workspace = e.workspace /\ d.source = e.source

\* uq_knowledge_source_version, which a second document id does not evade.
Registered(d) ==
  \E e \in Documents : /\ rows[e].status # "NONE"
                       /\ SameSource(d, e) /\ d.version = e.version

\* register(): refused, with no trace, when the version has a row already,
\* the row of an ingestion that failed included.
Register(i, d) ==
  /\ ingest[i].at = "idle" /\ ~Registered(d)
  /\ rows' = [rows EXCEPT ![d].status = "REGISTERED"]
  /\ ingest' = [ingest EXCEPT ![i] = [at |-> "read", doc |-> d]]
  /\ UNCHANGED <<publishing, answers, deaths>>

Goto(i, place) == ingest' = [ingest EXCEPT ![i].at = place]

\* The hash is checked, the file parsed and cut, the chunks embedded in
\* batches; each of these may raise.
Read(i) ==
  /\ ingest[i].at = "read"
  /\ Goto(i, "write") \/ Goto(i, "raised")
  /\ UNCHANGED <<rows, publishing, answers, deaths>>

ParsedRow(d) == [status |-> "PARSED", error |-> FALSE, chunks |-> d.pieces]

\* mark_parsed(): one transaction; a document without a chunk is refused.
WriteChunks(i) ==
  LET d == ingest[i].doc IN
  /\ ingest[i].at = "write" /\ d.pieces # {}
  /\ rows' = [rows EXCEPT ![d] = ParsedRow(d)]
  /\ \/ ingest' = [ingest EXCEPT ![i] = NoIngestion]
     \/ Goto(i, "raised")                  \* committed, and the answer is lost
  /\ UNCHANGED <<publishing, answers, deaths>>

WriteRaises(i) ==
  /\ ingest[i].at = "write" /\ Goto(i, "raised")
  /\ UNCHANGED <<rows, publishing, answers, deaths>>

\* mark_parse_failed() keeps the status; it may raise like any transaction.
RecordFailure(i) ==
  /\ ingest[i].at = "raised"
  /\ \/ rows' = [rows EXCEPT ![ingest[i].doc].error = TRUE]
     \/ UNCHANGED rows
  /\ ingest' = [ingest EXCEPT ![i] = NoIngestion]
  /\ UNCHANGED <<publishing, answers, deaths>>

Die(i) ==
  /\ ingest[i].at # "idle" /\ deaths < MaxDeaths
  /\ ingest' = [ingest EXCEPT ![i] = NoIngestion]
  /\ deaths' = deaths + 1
  /\ UNCHANGED <<rows, publishing, answers>>

-----------------------------------------------------------------------------
(* Publication                                                             *)

\* Fault: only an earlier row of the same version is looked for.
PreviousSameVersion(d) ==
  {e \in Documents : /\ e # d /\ rows[e].status = "PUBLISHED"
                     /\ SameSource(d, e) /\ e.version = d.version}

Previous(d) ==
  {e \in Documents : /\ e # d /\ rows[e].status = "PUBLISHED" /\ SameSource(d, e)}

Publishable(d) ==
  /\ rows[d].status = "PARSED" /\ rows[d].chunks # {}
  /\ d.authorized /\ d.licensed

\* publish() reads the row, its chunks and the versions published now ...
CheckGate(p, d) ==
  /\ publishing[p].at = "idle" /\ Publishable(d)
  /\ publishing' = [publishing EXCEPT ![p] =
                      [at |-> "commit", doc |-> d, previous |-> Previous(d)]]
  /\ UNCHANGED <<rows, ingest, answers, deaths>>

\* ... and writes the statuses when its session commits.
CommitPublication(p) ==
  LET c == publishing[p] IN
  /\ c.at = "commit"
  /\ rows' = [d \in Documents |->
                IF d = c.doc THEN [rows[d] EXCEPT !.status = "PUBLISHED"]
                ELSE IF d \in c.previous THEN [rows[d] EXCEPT !.status = "SUPERSEDED"]
                ELSE rows[d]]
  /\ publishing' = [publishing EXCEPT ![p] = NoPublication]
  /\ UNCHANGED <<ingest, answers, deaths>>

AbortPublication(p) ==
  /\ publishing[p].at = "commit"
  /\ publishing' = [publishing EXCEPT ![p] = NoPublication]
  /\ UNCHANGED <<rows, ingest, answers, deaths>>

\* delete_chunk().
DeleteChunk(d, piece) ==
  /\ piece \in rows[d].chunks
  /\ rows' = [rows EXCEPT ![d].chunks = @ \ {piece}]
  /\ UNCHANGED <<ingest, publishing, answers, deaths>>

-----------------------------------------------------------------------------
(* Retrieval and the citation gate                                         *)

\* The filters of the SQL query: workspace and status come before the score.
Searchable(w) ==
  {c \in UNION {{[doc |-> d, piece |-> piece] : piece \in rows[d].chunks} : d \in Documents} :
     c.doc.workspace = w /\ rows[c.doc].status = "PUBLISHED"}

\* The scores are the embedding's and the reranker's: any order may come out.
Rankings(w) ==
  LET found == Searchable(w)
      wanted == IF Cardinality(found) < ContextK THEN Cardinality(found) ELSE ContextK
  IN {ranked \in [1 .. wanted -> found] : IsInjective(ranked)}

Texts(contexts) == {contexts[k].chunk.piece.text : k \in DOMAIN contexts}

Used(contexts) == FoldSeq(LAMBDA x, sum : x.tokens + sum, 0, contexts)

\* A chunk that does not fit is cut to what is left.
Included(tokens, left) == IF tokens <= left THEN tokens ELSE left

\* _budget(): a text is presented once, and nothing once the budget is spent.
Packed(ranked) ==
  FoldLeft(LAMBDA contexts, chunk :
             LET left == ContextBudget - Used(contexts) IN
             IF chunk.piece.text \in Texts(contexts) \/ left <= 0 THEN contexts
             ELSE Append(contexts,
                    [chunk |-> chunk, tokens |-> Included(chunk.piece.tokens, left)]),
           <<>>, ranked)

Retrieve(r, w) ==
  /\ answers[r].at = "idle"
  /\ \E ranked \in Rankings(w) :
       answers' = [answers EXCEPT ![r] =
                     [at |-> "retrieved", workspace |-> w, contexts |-> Packed(ranked),
                      cited |-> {}]]
  /\ UNCHANGED <<rows, ingest, publishing, deaths>>

\* The model cites what it was given, or makes a citation up.
Citations ==
  {[doc |-> d, piece |-> piece] : d \in Documents, piece \in UNION {e.pieces : e \in Documents}}

Cite(r) ==
  /\ answers[r].at = "retrieved"
  /\ \E cited \in {{}} \cup {{c} : c \in Citations}
                  \cup {{answers[r].contexts[k].chunk : k \in DOMAIN answers[r].contexts}} :
       answers' = [answers EXCEPT ![r].at = "drafted", ![r].cited = cited]
  /\ UNCHANGED <<rows, ingest, publishing, deaths>>

\* Fault: a chunk that is stored is good enough.
StoredAt(c, w) == c.piece \in rows[c.doc].chunks /\ c.doc.workspace = w

\* What the validator asks of a citation: chunk and document are there, the
\* version and page are the ones cited, of this workspace, and published.
Valid(c, w) ==
  /\ c.doc \in Documents /\ c.piece \in rows[c.doc].chunks /\ c.doc.workspace = w
  /\ rows[c.doc].status = "PUBLISHED"

\* A knowledge claim without a citation is an error too.
Validate(r) ==
  LET a == answers[r] IN
  /\ a.at = "drafted"
  /\ answers' = [answers EXCEPT ![r] =
       IF a.cited # {} /\ \A c \in a.cited : Valid(c, a.workspace)
       THEN [a EXCEPT !.at = "accepted"] ELSE NoDraft]
  /\ UNCHANGED <<rows, ingest, publishing, deaths>>

Close(r) ==
  /\ answers[r].at = "accepted"
  /\ answers' = [answers EXCEPT ![r] = NoDraft]
  /\ UNCHANGED <<rows, ingest, publishing, deaths>>

KnowledgeNext ==
  \/ \E i \in Ingesters : \/ \E d \in Documents : Register(i, d)
                          \/ Read(i) \/ WriteChunks(i) \/ WriteRaises(i)
                          \/ RecordFailure(i) \/ Die(i)
  \/ \E p \in Publishers : \/ \E d \in Documents : CheckGate(p, d)
                           \/ CommitPublication(p) \/ AbortPublication(p)
  \/ \E d \in Documents, piece \in UNION {e.pieces : e \in Documents} : DeleteChunk(d, piece)
  \/ \E r \in Readers : \/ \E w \in Workspaces : Retrieve(r, w)
                        \/ Cite(r) \/ Validate(r) \/ Close(r)

KnowledgeSpec == KnowledgeInit /\ [][KnowledgeNext]_knowledgeVars

-----------------------------------------------------------------------------
(* What must hold                                                          *)

\* A source has at most one published version: publishing a newer one marks
\* the prior one SUPERSEDED, however registrations, failures and deletions
\* interleave with the publication's read and commit.
OneCurrentVersion ==
  \A d, e \in Documents :
    SameSource(d, e) /\ rows[d].status = "PUBLISHED" /\ rows[e].status = "PUBLISHED" => d = e

\* An answer passes the citation gate only when, at that moment, all it cites
\* is stored, is of its own workspace, may be used, and is of the one version
\* that is current, whatever was published or deleted since it searched.
CitesCurrent ==
  [][\A r \in Readers :
       answers[r].at # "accepted" /\ answers'[r].at = "accepted" =>
         \A c \in answers[r].cited :
           /\ c.piece \in rows[c.doc].chunks /\ c.doc.workspace = answers[r].workspace
           /\ c.doc.licensed /\ c.doc.authorized
           /\ rows[c.doc].status = "PUBLISHED"
           /\ \A e \in Documents : SameSource(e, c.doc) /\ e # c.doc =>
                                     rows[e].status # "PUBLISHED"]_knowledgeVars

=============================================================================
