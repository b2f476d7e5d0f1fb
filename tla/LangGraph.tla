------------------------------- MODULE LangGraph -------------------------------
(***************************************************************************)
(* The same analysis compiled by LangGraph (langgraph_runtime.py): one     *)
(* function from an envelope, the Agent state and its context, to the next *)
(* one, iterated until END.  It keeps no budget and is resumed by nobody.  *)
(* The model runs it on the input of an AgentGraph run and compares where  *)
(* the two engines end.                                                    *)
(***************************************************************************)
EXTENDS AgentGraph

\* In the names of AgentGraph but for the one node that plans for all modes.
LangNodes == (Nodes \ Plans) \cup {"plan", "END"}

Envelope == [node : LangNodes, done : SUBSET LangNodes, rounds : Nat,
             plan : SUBSET (Nodes \cup {"inspect_media", "extract_frames"}),
             requires_review : BOOLEAN,
             final : {"none", "SUCCEEDED", "NEEDS_REVIEW", "FAILED"},
             flags : SUBSET Flags]

LangStart == [node |-> "initialize", done |-> {}, rounds |-> 0, plan |-> {},
              requires_review |-> FALSE, final |-> "none", flags |-> request]

\* Unlike AgentGraph, which plans a structured job as a video.
LangPlanOf(e) ==
  (IF "transcript_only" \in e.flags THEN {"ingest_transcript"}
   ELSE {"inspect_media"} \cup
     CASE mode = "image" -> {"observe_image"}
       [] mode = "video" /\ "has_audio" \in e.flags ->
            {"extract_frames", "observe_media", "transcribe_audio"}
       [] mode = "video" /\ "has_audio" \notin e.flags ->
            {"extract_frames", "observe_media"}
       [] OTHER -> {})
  \cup {"validate_observations", "compute_metrics", "narrate_report",
        "verify_claims", "publish_report"}

\* What the node writes into the envelope, before the edge out of it is taken.
LangNode(e) ==
  LET d == [e EXCEPT !.done = @ \cup {e.node}]
  IN CASE e.node = "plan" /\ "barred" \in e.flags ->
            [d EXCEPT !.final = "FAILED"]
       [] e.node = "plan" /\ "barred" \notin e.flags ->
            [d EXCEPT !.plan = LangPlanOf(e)]
       [] e.node = "repair_observations" ->
            [d EXCEPT !.rounds = @ + 1, !.flags = @ \ {"validation_error"}]
       [] e.node = "revise_report" ->
            [d EXCEPT !.rounds = @ + 1,
                      !.flags = IF "persistent_verifier_failure" \in @ THEN @
                                ELSE @ \ {"numeric_inconsistent"}]
       [] e.node = "create_review_items" ->
            [d EXCEPT !.requires_review = TRUE, !.final = "NEEDS_REVIEW"]
       [] e.node = "publish_report" -> [d EXCEPT !.final = "SUCCEEDED"]
       [] e.node = "fail_job" -> [d EXCEPT !.final = "FAILED"]
       [] OTHER -> d

LangRoundsLeft(e) == e.rounds < limits.rounds

AfterPlan(e) ==
  CASE e.final = "FAILED" -> "fail_job"
    [] e.final # "FAILED" /\ "transcript_only" \in e.flags ->
         "ingest_transcript"
    [] e.final # "FAILED" /\ "transcript_only" \notin e.flags ->
         CASE mode = "image" -> "observe_image"
           [] mode = "video" /\ "has_audio" \in e.flags -> "transcribe_audio"
           [] OTHER -> "observe_media"

\* Fault: observations are never repaired.
NeverRepaired(e) ==
  IF "high_risk" \in e.flags THEN "create_review_items" ELSE "compute_metrics"

AfterValidation(e) ==
  CASE "high_risk" \in e.flags -> "create_review_items"
    [] "high_risk" \notin e.flags /\ "validation_error" \in e.flags
         /\ LangRoundsLeft(e) -> "repair_observations"
    [] OTHER -> "compute_metrics"

AfterVerification(e) ==
  CASE "numeric_inconsistent" \notin e.flags -> "publish_report"
    [] "numeric_inconsistent" \in e.flags /\ LangRoundsLeft(e) ->
         "revise_report"
    [] OTHER -> "create_review_items"

\* The edges: of a node that has one successor, and the conditional ones.
LangEdge(e) ==
  CASE e.node \in DOMAIN Plain -> Plain[e.node]
    [] e.node = "inspect_assets" ->
         IF "asset_valid" \in e.flags THEN "capability_router" ELSE "fail_job"
    [] e.node = "capability_router" -> "plan"
    [] e.node = "plan" -> AfterPlan(e)
    [] e.node \in Looks \cup {"repair_observations"} -> "validate_observations"
    [] e.node = "validate_observations" -> AfterValidation(e)
    [] e.node = "verify_claims" -> AfterVerification(e)
    [] e.node = "revise_report" -> "narrate_report"
    [] OTHER -> "END"

LangStep(e) ==
  IF e.node = "END" THEN e
  ELSE [LangNode(e) EXCEPT !.node = LangEdge(LangNode(e))]

\* The envelope after n supersteps; LangGraph gives up after twenty-five.
RecursionLimit == 25

LangAfter[n \in 0..RecursionLimit] ==
  IF n = 0 THEN LangStart ELSE LangStep(LangAfter[n - 1])

LangResult == LangAfter[RecursionLimit]

-----------------------------------------------------------------------------

\* The nodes that were completed, whatever the planning node is called.
SameWay(done, other) ==
  /\ done \ Plans = other \ {"plan"}
  /\ done \cap Plans # {} <=> "plan" \in other

\* A job ends the same way in both engines: with the same status, after as many
\* repairs, through the same nodes and, but for structured jobs, with the same
\* plan.  The budget, which only AgentGraph keeps, and a verifier failure that
\* persists, which AgentGraph forgets, are the differences.
EnginesAgree ==
  /\ phase = "ended" /\ decision = "none" /\ crashes = 0
  /\ state.final # "BUDGET_EXCEEDED"
  /\ "persistent_verifier_failure" \notin request
  =>
  LET e == LangResult IN
    /\ e.node = "END" /\ e \in Envelope
    /\ e.final = state.final /\ e.rounds = state.rounds
    /\ e.requires_review = state.requires_review
    /\ SameWay(state.done, e.done)
    /\ mode # "structured" => e.plan = state.plan
=============================================================================
