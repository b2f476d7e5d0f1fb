------------------------------ MODULE MCAnalysis ------------------------------
(***************************************************************************)
(* The parts of an analysis, for TLC: the Agent graph and its LangGraph    *)
(* twin, the model gateway, the tools, the knowledge base and its text,    *)
(* the media path, long videos and the evidence engine.  They share no     *)
(* state, so that a product of them would only repeat the behaviours of    *)
(* each: a behaviour follows the one in focus, and the inputs of the       *)
(* others are fixed.                                                       *)
(***************************************************************************)
EXTENDS MCAgentGraph, ModelGateway, ToolRegistry, Knowledge, DocumentText,
        FrameSampling, MediaTimeline, SegmentMerge, EvidenceEngine

LOCAL INSTANCE TLC

VARIABLE focus

Parts == {"graph", "gateway", "tools", "knowledge", "text", "frames", "media",
          "merge", "engine"}

analysisVars ==
  <<focus, vars, gatewayVars, toolVars, knowledgeVars, textVars, samplingVars,
    mediaVars, mergeVars, engineVars>>

-----------------------------------------------------------------------------
(* Inputs                                                                  *)

\* Rows the OCR engine finds: a good one, a blank one and one out of bounds.
MCRows == {[from |-> 0, to |-> 2, blank |-> FALSE],
           [from |-> 1, to |-> 3, blank |-> TRUE],
           [from |-> 3, to |-> 4, blank |-> FALSE]}

\* Two versions of one source, which share a text, and a source of another
\* workspace that nobody has authorized.
Piece(text, n) == [text |-> text, tokens |-> n]
SourceOf(workspace, version, authorized, pieces) ==
  [id |-> <<workspace, version>>, workspace |-> workspace, source |-> "a",
   version |-> version, licensed |-> TRUE, authorized |-> authorized, pieces |-> pieces]
MCDocuments == {SourceOf("w1", 1, TRUE, {Piece("x", 2)}),
                SourceOf("w1", 2, TRUE, {Piece("x", 2), Piece("y", 2)}),
                SourceOf("w2", 1, FALSE, {Piece("z", 1)})}

\* A page of headings and text in any order, and three pages of a PDF some of
\* whose lines repeat.  No two lines of a page with a text have the same one.
Line(kind, level, text, n) ==
  [kind |-> kind, level |-> level, text |-> text, tokens |-> n]
Structured ==
  {Line("hash", 1, "A", 1), Line("hash", 2, "B", 1), Line("hash", 3, "C", 1),
   Line("numbered", 0, "1.", 1), Line("text", 0, "t", 9), Line("text", 0, "", 0)}
Short == {Line("text", 0, "t", 2), Line("text", 0, "header", 4), Line("text", 0, "-", 0)}
Told(p) == [k \in DOMAIN p |->
              IF p[k].text = "" THEN p[k] ELSE [p[k] EXCEPT !.text = ToString(k)]]
MCUploads ==
  {[pdf |-> FALSE, pages |-> <<Told(p)>>] : p \in [1..4 -> Structured]}
  \cup {[pdf |-> TRUE, pages |-> <<p, q, r>>] : p, q, r \in UNION {[1..n -> Short] : n \in 1..2}}

\* A segment longer than any chunk, one that starts too early, one inside.
MCUtterances == {[start |-> 0, end |-> 9], [start |-> -1, end |-> 2],
                 [start |-> 1, end |-> 2]}

\* A count with the regions it needs, more hands than persons, no region.
MCShown ==
  {[person |-> n,
    labels |-> [l \in Labels |-> IF l = "raise_hand" THEN hands
                                 ELSE [count |-> 0, somewhere |-> FALSE]]]
     : n \in {Unknown, 1},
       hands \in {[count |-> 2, somewhere |-> TRUE], [count |-> 1, somewhere |-> FALSE]}}

\* One file that is large enough, ordered parts with and without a full last
\* one, and one file because it was asked for.
MCVideos ==
  {[seconds |-> 150, limit |-> 2000000, strategy |-> "split", minimum |-> 100, target |-> 200],
   [seconds |-> 240, limit |-> 3000000, strategy |-> "auto", minimum |-> 500, target |-> 300],
   [seconds |-> 61, limit |-> 3000000, strategy |-> "compress", minimum |-> 100, target |-> 300],
   [seconds |-> 170, limit |-> 2000000, strategy |-> "auto", minimum |-> 100, target |-> 200]}

\* Pictures with every mixture of known and unknown counts, and videos of two
\* frames that last for different times.
Shot(visible, estimated, focused, hands, seconds, patrolling) ==
  [id |-> Null, visible |-> visible, estimated |-> estimated, focused |-> focused,
   writing |-> Null, hands |-> hands, discussion |-> Null, distracted |-> Null,
   duration |-> seconds, patrolling |-> patrolling, guiding |-> Null,
   questioning |-> Null]
Stills == {Shot(v, Null, f, h, Null, Null) : v \in {Null, 0, 2}, f \in {Null, 1, 2}, h \in {Null, 0}}
          \cup {Shot(Null, 1, f, Null, Null, Null) : f \in {Null, 1}}
Clips == {Shot(Null, Null, 1, 0, Null, Null), Shot(2, Null, 1, Null, 3, Null),
          Shot(0, Null, Null, 0, 3, Null), Shot(3, Null, 2, 1, 4, 1)}
Regions == <<[visibility |-> "partial", focus |-> 400, interaction |-> Null],
             [visibility |-> "not_visible", focus |-> Null, interaction |-> Null]>>
Report(kind, students, shots) ==
  [mode |-> kind, students |-> students, frames |-> shots, regions |-> Regions,
   durations |-> <<>>, weights |-> [focus |-> 1, participation |-> 1]]
MCPayloads == {Report("image", n, <<f>>) : n \in {Null, 3}, f \in Stills}
              \cup {Report("video", Null, <<f, g>>) : f, g \in Clips}

-----------------------------------------------------------------------------

\* The inputs of a part out of focus do not vary.
Inputs(part, S) == IF focus = part THEN S ELSE {CHOOSE x \in S : TRUE}

AnalysisInit ==
  /\ focus \in Parts
  /\ focus # "text" => document = CHOOSE d \in Uploads : TRUE
  /\ TextInit
  /\ GatewayInit /\ ToolInit /\ KnowledgeInit /\ EngineInit
  /\ duration \in Inputs("frames", Durations) /\ SamplingInit
  /\ video \in Inputs("merge", Videos) /\ MergeInit
  /\ loud \in Inputs("media", SUBSET (0 .. Length - 1))
  /\ equipment \in Inputs("media", SUBSET {"track", "asr", "ocr", "vision"})
  /\ MediaInit
  /\ mode \in Inputs("graph", Modes) /\ request \in Inputs("graph", Requests)
  /\ limits \in Inputs("graph", Limits)
  /\ Init

AnalysisNext ==
  /\ UNCHANGED focus
  /\ \/ /\ focus = "graph" /\ Next
        /\ UNCHANGED <<gatewayVars, toolVars, knowledgeVars, textVars, samplingVars,
                       mediaVars, mergeVars, engineVars>>
     \/ /\ focus = "gateway" /\ GatewayNext
        /\ UNCHANGED <<vars, toolVars, knowledgeVars, textVars, samplingVars,
                       mediaVars, mergeVars, engineVars>>
     \/ /\ focus = "tools" /\ ToolNext
        /\ UNCHANGED <<vars, gatewayVars, knowledgeVars, textVars, samplingVars,
                       mediaVars, mergeVars, engineVars>>
     \/ /\ focus = "knowledge" /\ KnowledgeNext
        /\ UNCHANGED <<vars, gatewayVars, toolVars, textVars, samplingVars,
                       mediaVars, mergeVars, engineVars>>
     \/ /\ focus = "text" /\ TextNext
        /\ UNCHANGED <<vars, gatewayVars, toolVars, knowledgeVars, samplingVars,
                       mediaVars, mergeVars, engineVars>>
     \/ /\ focus = "frames" /\ SamplingNext
        /\ UNCHANGED <<vars, gatewayVars, toolVars, knowledgeVars, textVars,
                       mediaVars, mergeVars, engineVars>>
     \/ /\ focus = "media" /\ MediaNext
        /\ UNCHANGED <<vars, gatewayVars, toolVars, knowledgeVars, textVars,
                       samplingVars, mergeVars, engineVars>>
     \/ /\ focus = "merge" /\ MergeNext
        /\ UNCHANGED <<vars, gatewayVars, toolVars, knowledgeVars, textVars,
                       samplingVars, mediaVars, engineVars>>
     \/ /\ focus = "engine" /\ EngineNext
        /\ UNCHANGED <<vars, gatewayVars, toolVars, knowledgeVars, textVars,
                       samplingVars, mediaVars, mergeVars>>

AnalysisSpec == AnalysisInit /\ [][AnalysisNext]_analysisVars
=============================================================================
