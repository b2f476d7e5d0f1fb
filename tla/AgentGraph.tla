------------------------------ MODULE AgentGraph ------------------------------
(***************************************************************************)
(* AgentGraph.run: the nodes an analysis goes through, the decisions that  *)
(* route it, its budget, and the checkpoint after every node from which a  *)
(* later call with resume=True goes on, after a review or after the        *)
(* interruption of the first call.                                         *)
(*                                                                         *)
(* What a node computes is left out: the flags of the context say how the  *)
(* observations and the report come out ("numeric_inconsistent" stands for *)
(* verifier_failures > 0 as well, "barred" for what the planner rejects:   *)
(* identity recognition, or full frames of a long recording).  One run is  *)
(* followed, from its first execution through reviews, interruptions and   *)
(* retries.                                                                *)
(***************************************************************************)
EXTENDS Naturals, FiniteSets

CONSTANTS
  Modes,         \* modes of the job
  Requests,      \* the contexts a run may be started with
  Limits,        \* the budgets: [steps, rounds]
  Decisions,     \* decisions a run may be resumed with
  MaxCrashes     \* bound on interruptions

Flags == {"asset_valid", "transcript_only", "has_audio", "barred", "high_risk",
          "validation_error", "numeric_inconsistent",
          "persistent_verifier_failure"}

ASSUME InputsAssumption ==
  /\ Modes \subseteq {"image", "video", "structured"}
  /\ Requests \subseteq SUBSET Flags
  /\ Limits \subseteq [steps : Nat, rounds : Nat]
  /\ Decisions \subseteq {"APPROVED", "MODIFIED", "REJECTED"}
  /\ MaxCrashes \in Nat

Plans == {"plan_image_analysis", "plan_video_analysis", "plan_transcript"}
Looks == {"observe_media", "observe_image"}

Nodes == Plans \cup Looks \cup
  {"initialize", "inspect_assets", "capability_router", "transcribe_audio",
   "ingest_transcript", "validate_observations", "repair_observations",
   "create_review_items", "compute_metrics", "narrate_report", "verify_claims",
   "revise_report", "publish_report", "fail_job"}

VARIABLES
  mode, request, limits,   \* what the run is about: never change
  phase,      \* of the call of graph.run
  context,    \* the flags of the context dict of that call that are TRUE
  decision,   \* its review_decision
  state,      \* the AgentState in memory
  saved,      \* the AgentState of the latest SUCCEEDED checkpoint, if any
  usage,      \* BudgetTracker.usage of the call: [steps, rounds]
  looks,      \* how often the media has been observed since the run started
  crashes     \* how much of the bound is used

vars == <<mode, request, limits, phase, context, decision, state, saved, usage,
          looks, crashes>>

\* The AgentState, and for the properties whether it descends from one that a
\* reviewer has let go on.
StateType ==
  [node : Nodes, done : SUBSET Nodes,
   plan : SUBSET (Nodes \cup {"inspect_media", "extract_frames"}),
   rounds : Nat, requires_review : BOOLEAN, approved : BOOLEAN,
   final : {"none", "SUCCEEDED", "NEEDS_REVIEW", "FAILED", "BUDGET_EXCEEDED"}]

Fresh == [node |-> "initialize", done |-> {}, plan |-> {}, rounds |-> 0,
          requires_review |-> FALSE, approved |-> FALSE, final |-> "none"]

\* The same with no checkpoint: no node is done.
NoCheckpoint == Fresh

Init ==
  /\ mode \in Modes /\ request \in Requests /\ limits \in Limits
  /\ phase = "new" /\ context = {} /\ decision = "none"
  /\ state = Fresh /\ saved = NoCheckpoint
  /\ usage = [steps |-> 0, rounds |-> 0]
  /\ looks = 0 /\ crashes = 0

-----------------------------------------------------------------------------
(* route(), whose answers depend on the state and the context              *)

Has(flag) == flag \in context

RouteCapability ==
  IF mode = "image" THEN "plan_image_analysis"
  ELSE IF Has("transcript_only") THEN "plan_transcript"
  ELSE "plan_video_analysis"

RoutePlan ==
  CASE state.node = "plan_transcript" \/ Has("transcript_only") ->
         "ingest_transcript"
    [] state.node = "plan_image_analysis" /\ ~Has("transcript_only") ->
         "observe_image"
    [] OTHER -> IF mode = "video" /\ Has("has_audio")
                THEN "transcribe_audio" ELSE "observe_media"

\* Fault: the limit is compared with <= .
RoundsLeftOrEqual == state.rounds <= limits.rounds

RoundsLeft == state.rounds < limits.rounds

RouteValidation ==
  CASE Has("high_risk") -> "create_review_items"
    [] ~Has("high_risk") /\ Has("validation_error") /\ RoundsLeft ->
         "repair_observations"
    [] OTHER -> "compute_metrics"

RouteVerification ==
  CASE Has("numeric_inconsistent") /\ RoundsLeft -> "revise_report"
    [] Has("numeric_inconsistent") /\ ~RoundsLeft -> "create_review_items"
    [] OTHER -> "publish_report"

\* The steps of the plan accepted at node n.
PlanOf(n) ==
  (IF Has("transcript_only") THEN {"ingest_transcript"}
   ELSE IF n = "plan_image_analysis" THEN {"inspect_media", "observe_image"}
   ELSE {"inspect_media", "extract_frames", "observe_media"} \cup
        (IF Has("has_audio") THEN {"transcribe_audio"} ELSE {}))
  \cup {"validate_observations", "compute_metrics", "narrate_report",
        "verify_claims", "publish_report"}

-----------------------------------------------------------------------------
(* One turn of the loop of run()                                           *)

\* before_step, or before_repair, raises BudgetExceeded.
Exhausted ==
  \/ usage.steps >= limits.steps
  \/ /\ state.node \in {"repair_observations", "revise_report"}
     /\ usage.rounds >= limits.rounds

Starts(n) == phase = "running" /\ state.node = n /\ ~Exhausted

\* checkpoints.save_succeeded
Save(s) == saved' = s

Completed(n) == [state EXCEPT !.node = n, !.done = @ \cup {n}]

\* The node has updated the state to s and the loop goes on at node next.
Continue(s, next) ==
  /\ state' = [s EXCEPT !.node = next]
  /\ Save([s EXCEPT !.node = next])
  /\ usage' = [usage EXCEPT !.steps = @ + 1]
  /\ UNCHANGED <<mode, request, limits, phase, decision, crashes>>

\* The node is the last one of this call.
Return(s) ==
  /\ state' = s /\ saved' = s
  /\ phase' = "ended"
  /\ usage' = [usage EXCEPT !.steps = @ + 1]
  /\ UNCHANGED <<mode, request, limits, context, decision, looks, crashes>>

\* A node with one successor and nothing else to say.
Plain == [initialize |-> "inspect_assets", transcribe_audio |-> "observe_media",
          ingest_transcript |-> "narrate_report",
          compute_metrics |-> "narrate_report",
          narrate_report |-> "verify_claims"]

PlainNode ==
  \E n \in DOMAIN Plain :
    /\ Starts(n)
    /\ Continue(Completed(n), Plain[n])
    /\ UNCHANGED <<context, looks>>

InspectAssets ==
  /\ Starts("inspect_assets")
  /\ IF Has("asset_valid")
     THEN Continue(Completed("inspect_assets"), "capability_router")
     ELSE Continue([Completed("inspect_assets") EXCEPT !.final = "FAILED"],
                   "fail_job")
  /\ UNCHANGED <<context, looks>>

\* The nodes whose successor route() chooses.
RoutedNode ==
  /\ \/ /\ Starts("capability_router")
        /\ Continue(Completed("capability_router"), RouteCapability)
     \/ /\ Starts("validate_observations")
        /\ Continue(Completed("validate_observations"), RouteValidation)
     \/ /\ Starts("verify_claims")
        /\ Continue(Completed("verify_claims"), RouteVerification)
  /\ UNCHANGED <<context, looks>>

\* The planner rejects identity recognition and long full-frame analysis.
Plan ==
  /\ \E n \in Plans :
       /\ Starts(n)
       /\ IF Has("barred")
          THEN Continue([Completed(n) EXCEPT !.final = "FAILED"], "fail_job")
          ELSE Continue([Completed(n) EXCEPT !.plan = PlanOf(n)], RoutePlan)
  /\ UNCHANGED <<context, looks>>

Observe ==
  /\ \E n \in Looks :
       Starts(n) /\ Continue(Completed(n), "validate_observations")
  /\ looks' = looks + 1
  /\ UNCHANGED context

\* Observations and reports are repaired in place: the context is told so.
Repair ==
  /\ Starts("repair_observations")
  /\ state' = [Completed("repair_observations") EXCEPT
                 !.rounds = @ + 1, !.node = "validate_observations"]
  /\ Save(state')
  /\ usage' = [steps |-> usage.steps + 1, rounds |-> usage.rounds + 1]
  /\ context' = context \ {"validation_error"}
  /\ UNCHANGED <<mode, request, limits, phase, decision, looks, crashes>>

Revise ==
  /\ Starts("revise_report")
  /\ state' = [Completed("revise_report") EXCEPT
                 !.rounds = @ + 1, !.node = "narrate_report"]
  /\ Save(state')
  /\ usage' = [steps |-> usage.steps + 1, rounds |-> usage.rounds + 1]
  /\ context' = context \ {"numeric_inconsistent"}
  /\ UNCHANGED <<mode, request, limits, phase, decision, looks, crashes>>

\* Fault: the final status is set but not the flag that blocks publication.
ReviewWithoutFlag ==
  /\ Starts("create_review_items")
  /\ Return([Completed("create_review_items") EXCEPT !.final = "NEEDS_REVIEW"])

CreateReviewItems ==
  /\ Starts("create_review_items")
  /\ Return([Completed("create_review_items") EXCEPT
               !.requires_review = TRUE, !.final = "NEEDS_REVIEW"])

PublishReport ==
  /\ Starts("publish_report")
  /\ Return([Completed("publish_report") EXCEPT
               !.final = IF state.requires_review THEN "NEEDS_REVIEW"
                         ELSE "SUCCEEDED"])

FailJob ==
  /\ Starts("fail_job")
  /\ Return([Completed("fail_job") EXCEPT !.final = "FAILED"])

\* The node that could not start counts as completed.
OutOfBudget ==
  /\ phase = "running" /\ Exhausted
  /\ state' = [Completed(state.node) EXCEPT !.final = "BUDGET_EXCEEDED"]
  /\ saved' = state'
  /\ phase' = "ended"
  /\ UNCHANGED <<mode, request, limits, context, decision, usage, looks, crashes>>

-----------------------------------------------------------------------------
(* The calls of run()                                                      *)

\* A worker executes the run from a fresh state: the first time, and when the
\* client retries the failed job.  The checkpoints stay.
Run ==
  /\ \/ phase = "new"
     \/ phase = "ended" /\ state.final \in {"FAILED", "BUDGET_EXCEEDED"}
  /\ phase' = "running"
  /\ state' = Fresh /\ context' = request /\ decision' = "none"
  /\ usage' = [steps |-> 0, rounds |-> 0]
  /\ looks' = 0
  /\ UNCHANGED <<mode, request, limits, saved, crashes>>

\* Fault: the decision is not asked for.
PassesUnasked(d) == d # "REJECTED"

Passes(d) == d \in {"APPROVED", "MODIFIED"}

\* run(resume=True) with the review decision d of its context, or "none".
Restore(d) ==
  /\ saved # NoCheckpoint
  /\ \/ /\ ~saved.requires_review
        /\ phase' = "running" /\ state' = saved
        /\ UNCHANGED saved
     \/ /\ saved.requires_review /\ Passes(d)
        /\ phase' = "running"
        /\ state' = [saved EXCEPT !.requires_review = FALSE, !.final = "none",
                                  !.node = "compute_metrics",
                                  !.approved = (d # "none")]
        /\ UNCHANGED saved
     \/ /\ saved.requires_review /\ d = "REJECTED"
        /\ phase' = "ended"
        /\ state' = [saved EXCEPT !.node = "fail_job", !.final = "FAILED",
                                  !.done = @ \cup {"fail_job"}]
        /\ saved' = state'
     \/ /\ saved.requires_review /\ ~Passes(d) /\ d # "REJECTED"
        /\ phase' = "ended" /\ state' = saved
        /\ UNCHANGED saved
  /\ decision' = d
  /\ usage' = [steps |-> 0, rounds |-> 0]
  /\ UNCHANGED <<mode, request, limits, looks>>

\* The worker resumes the run that waits for a review.  Of the context it had
\* nothing is left.
Resume ==
  /\ phase = "ended" /\ state.final = "NEEDS_REVIEW"
  /\ \E d \in Decisions : Restore(d)
  /\ context' = {}
  /\ UNCHANGED crashes

\* The process is interrupted, or dies before it has recorded the result.
Crash ==
  /\ phase \in {"running", "ended"}
  /\ crashes < MaxCrashes /\ crashes' = crashes + 1
  /\ phase' = "dead"
  /\ UNCHANGED <<mode, request, limits, context, decision, state, saved, usage,
                 looks>>

\* The same call again with resume=True: the resume task is redelivered, or
\* the caller passes its context on after WorkerInterrupted.
Recover ==
  /\ phase = "dead"
  /\ Restore(decision)
  /\ UNCHANGED <<context, crashes>>

Next ==
  \/ PlainNode \/ InspectAssets \/ RoutedNode \/ Plan \/ Observe
  \/ Repair \/ Revise \/ CreateReviewItems \/ PublishReport \/ FailJob
  \/ OutOfBudget
  \/ Run \/ Resume \/ Crash \/ Recover

Spec == Init /\ [][Next]_vars

-----------------------------------------------------------------------------
(* Properties                                                              *)

\* The state, its checkpoint and the budget have their fields.
TypeOK ==
  /\ mode \in Modes /\ request \in Requests /\ limits \in Limits
  /\ phase \in {"new", "running", "ended", "dead"}
  /\ context \subseteq Flags
  /\ decision \in Decisions \cup {"none"}
  /\ state \in StateType /\ saved \in StateType
  /\ usage \in [steps : Nat, rounds : Nat]
  /\ looks \in Nat /\ crashes \in Nat

Published == state.final = "SUCCEEDED"

\* Observations of high risk are published only if a reviewer has approved
\* them, whatever was interrupted and resumed in between.
RiskNeedsApproval ==
  Published /\ "high_risk" \in request
            /\ "validate_observations" \in state.done => state.approved

\* A report whose numbers do not agree is revised or seen by a reviewer
\* before it is published.
WrongNumbersNotPublished ==
  Published /\ "numeric_inconsistent" \in request =>
    state.approved \/ "revise_report" \in state.done

\* Going on from a checkpoint never observes the media a second time.
ObservedOnce == looks <= 1

\* However a run is interrupted, it is not repaired more often than allowed.
RepairsBounded == state.rounds <= limits.rounds

\* The longest way through the graph, with two repairs, is sixteen nodes.
LongestWay == 16

\* A budget for the longest way always suffices: the default of 32 steps never
\* stops a run.
BudgetSuffices ==
  limits.steps >= LongestWay => state.final # "BUDGET_EXCEEDED"

\* A published analysis of an image or a video has gone through every node of
\* the plan it accepted.
PlanIsCarriedOut ==
  Published /\ mode # "structured" /\ "transcript_only" \notin request =>
    state.plan \cap Nodes \subseteq state.done

\* A run that says it needs a review is saved as such: the resume task finds it
\* waiting, and goes on only with the decision.
WaitingIsSaved ==
  phase = "ended" /\ state.final = "NEEDS_REVIEW" =>
    saved = state /\ saved.requires_review

\* A failure of the verifier that persists is not published unseen.
PersistentFailureReviewed ==
  Published /\ {"numeric_inconsistent", "persistent_verifier_failure"} \subseteq request
    => state.approved

\* A publication is earned: by approval of what is risky, revision of what is
\* inconsistent and execution of what was planned.
PublicationIsEarned ==
  RiskNeedsApproval /\ WrongNumbersNotPublished /\ PlanIsCarriedOut

\* A run that is interrupted or resumed goes on where it was saved: nothing is
\* observed twice or repaired too often, and a run that waits is found waiting.
ResumeIsFaithful == ObservedOnce /\ RepairsBounded /\ WaitingIsSaved

=============================================================================
