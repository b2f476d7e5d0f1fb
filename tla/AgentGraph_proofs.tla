--------------------------- MODULE AgentGraph_proofs ---------------------------
(***************************************************************************)
(* What AgentGraph.run promises of every run, for any requests, budgets,   *)
(* decisions and number of interruptions, and that LangGraph ends a job as *)
(* AgentGraph does.                                                        *)
(*                                                                         *)
(* The argument speaks of two states, the one in memory and the one of the *)
(* latest checkpoint: a run may go on from either, and a retried run from  *)
(* the checkpoint of an earlier execution.  Each is at a place from which  *)
(* only what it still lacks can come before a publication; and the context *)
(* still says what has to be shown to a reviewer, unless one has seen it.  *)
(*                                                                         *)
(* The two engines are compared step by step: after as many nodes as the   *)
(* call has executed, LangGraph is about to execute the same node and      *)
(* knows the same.                                                         *)
(***************************************************************************)
EXTENDS LangGraph, SumTheorems, TLAPS

BeforePlan == Plans \cup {"initialize", "inspect_assets", "capability_router"}

\* The nodes after the media was observed.
Observed == Nodes \ (BeforePlan \cup Looks \cup {"transcribe_audio", "ingest_transcript"})

Final == {"narrate_report", "verify_claims", "publish_report"}

Rest == Final \cup {"validate_observations", "compute_metrics"}

\* What is still executed between node n, itself included, and a publication.
Ahead(n) ==
  CASE n = "publish_report" -> {"publish_report"}
    [] n = "verify_claims" -> {"verify_claims", "publish_report"}
    [] n \in {"narrate_report", "revise_report"} -> Final
    [] n \in {"compute_metrics", "create_review_items"} ->
         Final \cup {"compute_metrics"}
    [] n \in {"validate_observations", "repair_observations"} -> Rest
    [] n \in {"observe_image", "observe_media"} -> Rest \cup {n}
    [] n = "transcribe_audio" -> Rest \cup {"observe_media", "transcribe_audio"}
    [] OTHER -> Nodes

\* The plans that the graph can carry out.
Analysed == mode # "structured" /\ "transcript_only" \notin request

\* Where s is agrees with the request and with what s has behind it.
OnTheWay(s) ==
  /\ s.node \in {"plan_transcript", "ingest_transcript"} => "transcript_only" \in request
  /\ s.node = "plan_video_analysis" => mode # "image"
  /\ Analysed /\ s.node \notin BeforePlan \cup {"fail_job"} =>
       s.plan \cap Nodes \subseteq s.done \cup Ahead(s.node)
  /\ Analysed /\ s.requires_review =>
       s.plan \cap Nodes \subseteq s.done \cup Ahead("compute_metrics")
  /\ s.rounds <= limits.rounds
  /\ s.node \in {"repair_observations", "revise_report"} => s.rounds < limits.rounds

\* The final status agrees with the node.
EndsThere(s) ==
  /\ s.final = "SUCCEEDED" => s.node = "publish_report" /\ "publish_report" \in s.done
  /\ s.final = "FAILED" => s.node = "fail_job"
  /\ s.final = "NEEDS_REVIEW" => s.requires_review
  /\ s.requires_review => s.node \in {"create_review_items", "fail_job"}
  /\ limits.steps >= LongestWay => s.final # "BUDGET_EXCEEDED"

Seen(s) == s.approved \/ s.requires_review

\* Observations of high risk stop where a reviewer is asked.
RiskStopped(s) ==
  "high_risk" \in request /\ "validate_observations" \in s.done /\ ~Seen(s) =>
    s.node \in {"validate_observations", "create_review_items", "fail_job"}

\* Wrong numbers get to the last node only by a revision.
WrongStopped(s) ==
  "numeric_inconsistent" \in request /\ s.node = "publish_report" /\ ~Seen(s) =>
    "revise_report" \in s.done

\* What no reviewer has seen the context still tells, or it was revised.
Told(s) ==
  \/ Seen(s)
  \/ /\ "high_risk" \in request => "high_risk" \in context
     /\ "numeric_inconsistent" \in request =>
          "numeric_inconsistent" \in context \/ "revise_report" \in s.done

GoodState(s) == OnTheWay(s) /\ EndsThere(s) /\ RiskStopped(s) /\ WrongStopped(s)

\* The nodes from n to the end, at most: the way over a revision is three
\* nodes longer, the one over a repair two.
Left(n, revision, repair) ==
  CASE n \in {"publish_report", "fail_job", "create_review_items"} -> 1
    [] n = "verify_claims" -> 2 + revision
    [] n = "narrate_report" -> 3 + revision
    [] n = "revise_report" -> 4
    [] n \in {"compute_metrics", "ingest_transcript"} -> 4 + revision
    [] n = "validate_observations" -> 5 + revision + repair
    [] n = "repair_observations" -> 6 + revision
    [] n \in Looks -> 6 + revision + repair
    [] n = "transcribe_audio" -> 7 + revision + repair
    [] n \in Plans -> 8 + revision + repair
    [] n = "capability_router" -> 9 + revision + repair
    [] n = "inspect_assets" -> 10 + revision + repair
    [] OTHER -> 11 + revision + repair

RevisionLeft == IF "numeric_inconsistent" \in context THEN 3 ELSE 0
RepairLeft == IF "validation_error" \in context THEN 2 ELSE 0

\* The budget of this call has paid for the nodes behind.
Paid ==
  /\ usage.rounds <= state.rounds
  /\ usage.steps + Left(state.node, RevisionLeft, RepairLeft) <= LongestWay

\* The context is what was requested; before the plan all of it that matters.
ContextIsRequest ==
  /\ context \subseteq request
  /\ \A s \in {state, saved} :
       phase # "new" /\ s.node \in BeforePlan =>
         request \ {"validation_error", "numeric_inconsistent"} \subseteq context

\* The media was observed once, before the state in memory and its checkpoint.
LookedBefore ==
  looks <= 1 /\ (looks = 1 => state.node \in Observed /\ saved.node \in Observed)

GraphInv ==
  /\ TypeOK
  /\ GoodState(state) /\ GoodState(saved)
  /\ phase # "new" => Told(saved)
  /\ phase = "running" => Told(state) /\ ~state.requires_review /\ Paid
  /\ phase = "ended" => saved = state
  /\ ContextIsRequest /\ LookedBefore

-----------------------------------------------------------------------------
(* What the tables say                                                     *)

LEMMA FieldsOfState ==
  ASSUME NEW s \in StateType
  PROVE  /\ s.node \in Nodes /\ s.done \in SUBSET Nodes
         /\ s.plan \in SUBSET (Nodes \cup {"inspect_media", "extract_frames"})
         /\ s.rounds \in Nat /\ s.requires_review \in BOOLEAN
         /\ s.approved \in BOOLEAN
         /\ s.final \in {"none", "SUCCEEDED", "NEEDS_REVIEW", "FAILED",
                         "BUDGET_EXCEEDED"}
BY DEF StateType

LEMMA LeftIsShort ==
  ASSUME NEW n \in Nodes, NEW r \in {0, 3}, NEW v \in {0, 2}
  PROVE  Left(n, r, v) \in 1..LongestWay
BY DEF Left, LongestWay, Nodes, Plans, Looks

LEMMA AllowancesAre == RevisionLeft \in {0, 3} /\ RepairLeft \in {0, 2}
BY DEF RevisionLeft, RepairLeft

LEMMA GraphStart == Init => GraphInv
<1> SUFFICES ASSUME Init PROVE GraphInv
  OBVIOUS
<1> USE DEF Init, Fresh, NoCheckpoint
<1>1. TypeOK
  BY InputsAssumption DEF TypeOK, StateType, Nodes
<1>2. GoodState(state) /\ GoodState(saved)
  <2>1. limits.rounds \in Nat
    BY InputsAssumption
  <2>2. OnTheWay(state)
    BY <2>1 DEF OnTheWay, BeforePlan
  <2>3. QED
    BY <2>2 DEF GoodState, EndsThere, RiskStopped, WrongStopped, OnTheWay
<1>3. ContextIsRequest /\ LookedBefore
  BY DEF ContextIsRequest, LookedBefore
<1>4. QED
  BY <1>1, <1>2, <1>3 DEF GraphInv

-----------------------------------------------------------------------------
(* One turn of the loop                                                    *)

\* Node n is done, and the loop goes on at node next.
Goes(n, next) ==
  /\ state' \in StateType /\ saved' = state'
  /\ state'.node = next /\ state'.done = state.done \cup {n}
  /\ state'.requires_review = state.requires_review
  /\ state'.approved = state.approved
  /\ usage' \in [steps : Nat, rounds : Nat] /\ usage'.steps = usage.steps + 1
  /\ UNCHANGED <<mode, request, limits, phase, decision, crashes>>

Keeps == state'.plan = state.plan /\ state'.rounds = state.rounds
         /\ usage'.rounds = usage.rounds

LEMMA ContinueGoes ==
  ASSUME TypeOK, NEW n \in Nodes, NEW next \in Nodes, Continue(Completed(n), next)
  PROVE  Goes(n, next) /\ Keeps /\ state'.final = state.final
<1>1. state \in StateType /\ usage \in [steps : Nat, rounds : Nat]
  BY DEF TypeOK
<1>2. usage' \in [steps : Nat, rounds : Nat] /\ usage'.steps = usage.steps + 1
      /\ usage'.rounds = usage.rounds
  BY <1>1 DEF Continue
<1>3. /\ state' \in StateType /\ saved' = state'
      /\ state'.node = next /\ state'.done = state.done \cup {n}
      /\ state'.requires_review = state.requires_review
      /\ state'.approved = state.approved /\ state'.final = state.final
      /\ state'.plan = state.plan /\ state'.rounds = state.rounds
  BY <1>1 DEF Continue, Completed, Save, StateType
<1>4. QED
  BY <1>2, <1>3 DEF Goes, Keeps, Continue

LEMMA FailureGoes ==
  ASSUME TypeOK, NEW n \in Nodes,
         Continue([Completed(n) EXCEPT !.final = "FAILED"], "fail_job")
  PROVE  Goes(n, "fail_job") /\ Keeps /\ state'.final = "FAILED"
<1>1. state \in StateType /\ usage \in [steps : Nat, rounds : Nat]
  BY DEF TypeOK
<1>2. usage' \in [steps : Nat, rounds : Nat] /\ usage'.steps = usage.steps + 1
      /\ usage'.rounds = usage.rounds
  BY <1>1 DEF Continue
<1>3. /\ state' \in StateType /\ saved' = state'
      /\ state'.node = "fail_job" /\ state'.done = state.done \cup {n}
      /\ state'.requires_review = state.requires_review
      /\ state'.approved = state.approved /\ state'.final = "FAILED"
      /\ state'.plan = state.plan /\ state'.rounds = state.rounds
  BY <1>1 DEF Continue, Completed, Save, StateType, Nodes
<1>4. QED
  BY <1>2, <1>3 DEF Goes, Keeps, Continue

\* No node is left out on the way from n to next.
Follows(n, next) ==
  /\ n \in Nodes \ {"publish_report", "fail_job", "create_review_items"}
  /\ next \in Nodes
  /\ next \in BeforePlan => n \in BeforePlan
  /\ n \in Observed => next \in Observed
  /\ n = "validate_observations" /\ "high_risk" \in context =>
       next = "create_review_items"
  /\ next = "publish_report" => "numeric_inconsistent" \notin context

\* What the node leaves in the context.
Leaves(n) ==
  \/ context' = context
  \/ n \notin BeforePlan /\ context' = context \ {"validation_error"}
  \/ n = "revise_report" /\ context' = context \ {"numeric_inconsistent"}

LEMMA GoingOn ==
  ASSUME GraphInv, NEW n \in Nodes, NEW next \in Nodes, Starts(n),
         Goes(n, next), Follows(n, next), Leaves(n),
         OnTheWay(state)', EndsThere(state)', Paid',
         looks' = looks \/ (n \in Looks /\ looks' = looks + 1 /\ next \in Observed)
  PROVE  GraphInv'
<1>1. /\ TypeOK /\ GoodState(state) /\ Told(state) /\ ~state.requires_review
      /\ phase = "running" /\ state.node = n
  BY DEF GraphInv, Starts
<1>2. /\ mode' = mode /\ request' = request /\ limits' = limits /\ phase' = phase
      /\ decision' = decision /\ crashes' = crashes
      /\ saved' = state' /\ state'.node = next /\ state'.done = state.done \cup {n}
      /\ state'.requires_review = state.requires_review
      /\ state'.approved = state.approved
  BY DEF Goes
<1>3. state' \in StateType /\ usage' \in [steps : Nat, rounds : Nat]
  BY DEF Goes
<1>4. context' \subseteq context
  BY DEF Leaves
<1>5. looks' \in Nat
  BY <1>1 DEF TypeOK
<1>6. TypeOK'
  BY <1>1, <1>2, <1>3, <1>4, <1>5 DEF TypeOK
<1>7. RiskStopped(state)'
  <2> SUFFICES ASSUME "high_risk" \in request, ~Seen(state)',
                      "validate_observations" \in state'.done
               PROVE  next \in {"validate_observations", "create_review_items",
                                "fail_job"}
    BY <1>2 DEF RiskStopped
  <2>1. ~Seen(state) /\ "high_risk" \in context
    BY <1>1, <1>2 DEF Seen, Told
  <2>2. n \notin {"create_review_items", "fail_job"}
    BY DEF Follows
  <2>3. "validate_observations" \in state.done => n = "validate_observations"
    BY <1>1, <2>1, <2>2 DEF GoodState, RiskStopped
  <2>4. QED
    BY <1>2, <2>1, <2>3 DEF Follows
<1>8. WrongStopped(state)'
  <2> SUFFICES ASSUME "numeric_inconsistent" \in request, ~Seen(state)',
                      next = "publish_report"
               PROVE  "revise_report" \in state'.done
    BY <1>2 DEF WrongStopped
  <2>1. ~Seen(state) /\ "numeric_inconsistent" \notin context
    BY <1>2 DEF Seen, Follows
  <2>2. QED
    BY <1>1, <1>2, <2>1 DEF Told
<1>9. Told(state)'
  <2>1. Seen(state) => Seen(state)'
    BY <1>2 DEF Seen
  <2>2. "high_risk" \in context => "high_risk" \in context'
    BY DEF Leaves
  <2>3. "numeric_inconsistent" \in context =>
          "numeric_inconsistent" \in context' \/ "revise_report" \in state'.done
    BY <1>2 DEF Leaves
  <2>4. QED
    BY <1>1, <1>2, <2>1, <2>2, <2>3 DEF Told
<1>10. GoodState(state)'
  BY <1>7, <1>8 DEF GoodState
<1>11. GoodState(saved)' /\ Told(saved)'
  BY <1>2, <1>9, <1>10
  DEF GoodState, OnTheWay, EndsThere, RiskStopped, WrongStopped, Told, Seen
<1>12. ContextIsRequest'
  <2>1. next \in BeforePlan =>
          /\ n \in BeforePlan /\ n # "revise_report"
          /\ request \ {"validation_error", "numeric_inconsistent"} \subseteq context
    BY <1>1 DEF GraphInv, ContextIsRequest, Follows, BeforePlan, Plans
  <2>2. next \in BeforePlan =>
          request' \ {"validation_error", "numeric_inconsistent"} \subseteq context'
    BY <1>2, <2>1 DEF Leaves
  <2>3. context' \subseteq request'
    BY <1>2, <1>4 DEF GraphInv, ContextIsRequest
  <2>4. QED
    BY <1>2, <2>2, <2>3 DEF ContextIsRequest
<1>13. LookedBefore'
  <2>1. looks \in Nat /\ looks <= 1 /\ (looks = 1 => n \in Observed)
    BY <1>1 DEF GraphInv, LookedBefore, TypeOK
  <2>2. n \in Looks => n \notin Observed
    BY DEF Observed
  <2>3. looks' <= 1 /\ (looks' = 1 => next \in Observed)
    BY <2>1, <2>2 DEF Follows
  <2>4. QED
    BY <1>2, <2>3 DEF LookedBefore
<1>14. QED
  BY <1>1, <1>2, <1>6, <1>9, <1>10, <1>11, <1>12, <1>13 DEF GraphInv

\* The edge from n to next is on the way to a publication, and paid for.
Leads(n, next) ==
  /\ next \in {"plan_transcript", "ingest_transcript"} => "transcript_only" \in request
  /\ next = "plan_video_analysis" => mode # "image"
  /\ \/ ~Analysed
     \/ next \in BeforePlan \cup {"fail_job"}
     \/ n \notin BeforePlan \cup {"fail_job"} /\ Ahead(n) \subseteq Ahead(next) \cup {n}
  /\ next \in {"repair_observations", "revise_report"} => state.rounds < limits.rounds
  /\ Left(next, RevisionLeft, RepairLeft) < Left(n, RevisionLeft, RepairLeft)

LEMMA PaidOn ==
  ASSUME GraphInv, NEW n \in Nodes, NEW next \in Nodes, Starts(n), Goes(n, next),
         context' = context, state'.rounds = state.rounds, usage'.rounds = usage.rounds,
         Left(next, RevisionLeft, RepairLeft) < Left(n, RevisionLeft, RepairLeft)
  PROVE  Paid'
<1> DEFINE r == RevisionLeft
           v == RepairLeft
<1>1. usage.rounds <= state.rounds /\ usage.steps + Left(n, r, v) <= LongestWay
  BY DEF GraphInv, Starts, Paid
<1>2. usage.steps \in Nat
  BY DEF GraphInv, TypeOK
<1>3. Left(n, r, v) \in 1..LongestWay /\ Left(next, r, v) \in 1..LongestWay
  BY LeftIsShort, AllowancesAre
<1>4. r' = r /\ v' = v
  BY DEF RevisionLeft, RepairLeft
<1>5. usage'.steps + Left(next, r, v) <= LongestWay
  BY <1>1, <1>2, <1>3 DEF Goes, LongestWay
<1>6. Left(next, r', v') = Left(next, r, v)
  BY <1>4
<1>7. usage'.rounds <= state'.rounds
  BY <1>1
<1>8. QED
  BY <1>5, <1>6, <1>7 DEF Paid, Goes

LEMMA EndsOn ==
  ASSUME GraphInv, NEW n \in Nodes, NEW next \in Nodes, Starts(n), Goes(n, next),
         Follows(n, next), state'.final = state.final
  PROVE  EndsThere(state)'
<1>1. EndsThere(state) /\ ~state.requires_review /\ state.node = n
  BY DEF GraphInv, GoodState, Starts
<1>2. n \notin {"publish_report", "fail_job"}
  BY DEF Follows
<1>3. limits' = limits /\ ~state'.requires_review
  BY <1>1 DEF Goes
<1>4. state.final \notin {"SUCCEEDED", "FAILED", "NEEDS_REVIEW"}
  BY <1>1, <1>2 DEF EndsThere
<1>5. QED
  BY <1>1, <1>3, <1>4 DEF EndsThere

LEMMA Continuing ==
  ASSUME GraphInv, NEW n \in Nodes, NEW next \in Nodes, Starts(n),
         Continue(Completed(n), next), context' = context,
         looks' = looks \/ (n \in Looks /\ looks' = looks + 1 /\ next \in Observed),
         Follows(n, next), Leads(n, next)
  PROVE  GraphInv'
<1>1. TypeOK /\ OnTheWay(state) /\ state.node = n /\ ~state.requires_review
  BY DEF GraphInv, GoodState, Starts
<1>2. Goes(n, next) /\ Keeps /\ state'.final = state.final
  BY <1>1, ContinueGoes
<1>3. OnTheWay(state)'
  <2>1. /\ state'.node = next /\ state'.done = state.done \cup {n}
        /\ state'.plan = state.plan /\ state'.rounds = state.rounds
        /\ mode' = mode /\ request' = request /\ limits' = limits
    BY <1>2 DEF Goes, Keeps
  <2>2. Analysed' = Analysed
    BY <2>1 DEF Analysed
  <2>3. Analysed /\ next \notin BeforePlan \cup {"fail_job"} =>
          state.plan \cap Nodes \subseteq (state.done \cup {n}) \cup Ahead(next)
    <3> SUFFICES ASSUME Analysed, next \notin BeforePlan \cup {"fail_job"}
                 PROVE  state.plan \cap Nodes \subseteq (state.done \cup {n}) \cup Ahead(next)
      OBVIOUS
    <3>1. n \notin BeforePlan \cup {"fail_job"} /\ Ahead(n) \subseteq Ahead(next) \cup {n}
      BY DEF Leads
    <3>2. state.plan \cap Nodes \subseteq state.done \cup Ahead(n)
      BY <1>1, <3>1 DEF OnTheWay
    <3>3. QED
      BY <3>1, <3>2
  <2>4. Analysed' /\ state'.node \notin BeforePlan \cup {"fail_job"} =>
          state'.plan \cap Nodes \subseteq state'.done \cup Ahead(state'.node)
    BY <2>1, <2>2, <2>3
  <2>5. state.rounds <= limits.rounds
    BY <1>1 DEF OnTheWay
  <2>6. ~state'.requires_review
    BY <1>1, <1>2 DEF Goes
  <2>7. QED
    BY <2>1, <2>4, <2>5, <2>6 DEF OnTheWay, Leads
<1>4. EndsThere(state)'
  BY <1>2, EndsOn
<1>5. Paid'
  BY <1>2, PaidOn DEF Leads, Keeps
<1>6. Leaves(n)
  BY DEF Leaves
<1>7. QED
  BY <1>2, <1>3, <1>4, <1>5, <1>6, GoingOn

LEMMA Failing ==
  ASSUME GraphInv, NEW n \in BeforePlan, Starts(n), context' = context, looks' = looks,
         Continue([Completed(n) EXCEPT !.final = "FAILED"], "fail_job")
  PROVE  GraphInv'
<1>1. TypeOK /\ OnTheWay(state) /\ ~state.requires_review
  BY DEF GraphInv, GoodState, Starts
<1>2. n \in Nodes /\ "fail_job" \in Nodes
  BY DEF BeforePlan, Nodes
<1>3. Goes(n, "fail_job") /\ Keeps /\ state'.final = "FAILED"
  BY <1>1, <1>2, FailureGoes
<1>4. Follows(n, "fail_job")
  BY <1>2 DEF Follows, BeforePlan, Plans, Observed, Looks
<1>5. OnTheWay(state)'
  BY <1>1, <1>3 DEF OnTheWay, Goes, Keeps
<1>6. EndsThere(state)'
  BY <1>3 DEF EndsThere, Goes
<1>7. Paid'
  <2>1. Left("fail_job", RevisionLeft, RepairLeft) < Left(n, RevisionLeft, RepairLeft)
    BY <1>2, AllowancesAre DEF Left, BeforePlan, Plans, Looks
  <2>2. QED
    BY <1>2, <1>3, <2>1, PaidOn DEF Keeps
<1>8. Leaves(n)
  BY DEF Leaves
<1>9. QED
  BY <1>2, <1>3, <1>4, <1>5, <1>6, <1>7, <1>8, GoingOn

-----------------------------------------------------------------------------
(* The nodes                                                               *)

LEMMA AtNode ==
  ASSUME GraphInv, NEW n, Starts(n)
  PROVE  /\ TypeOK /\ OnTheWay(state) /\ EndsThere(state) /\ RiskStopped(state)
         /\ WrongStopped(state) /\ Told(state) /\ Paid
         /\ ~state.requires_review /\ state.node = n /\ phase = "running"
         /\ context \subseteq request
BY DEF GraphInv, GoodState, Starts, ContextIsRequest

LEMMA PlainNodeKeeps == ASSUME GraphInv, PlainNode PROVE GraphInv'
<1>1. PICK n \in DOMAIN Plain :
        /\ Starts(n) /\ Continue(Completed(n), Plain[n])
        /\ context' = context /\ looks' = looks
  BY DEF PlainNode
<1>2. state.node = n /\ OnTheWay(state)
  BY <1>1, AtNode
<1>3. \/ n = "initialize" /\ Plain[n] = "inspect_assets"
      \/ n = "transcribe_audio" /\ Plain[n] = "observe_media"
      \/ n = "ingest_transcript" /\ Plain[n] = "narrate_report"
      \/ n = "compute_metrics" /\ Plain[n] = "narrate_report"
      \/ n = "narrate_report" /\ Plain[n] = "verify_claims"
  BY <1>1 DEF Plain
<1>4. n \in Nodes /\ Plain[n] \in Nodes
  BY <1>3 DEF Nodes, Looks
<1>5. Follows(n, Plain[n])
  BY <1>3, <1>4 DEF Follows, BeforePlan, Plans, Observed, Looks
<1>6. Left(Plain[n], RevisionLeft, RepairLeft) < Left(n, RevisionLeft, RepairLeft)
  BY <1>3, AllowancesAre DEF Left, Looks, Plans
<1>7. \/ ~Analysed
      \/ Plain[n] \in BeforePlan \cup {"fail_job"}
      \/ n \notin BeforePlan \cup {"fail_job"} /\ Ahead(n) \subseteq Ahead(Plain[n]) \cup {n}
  <2>1. n = "ingest_transcript" => ~Analysed
    BY <1>2 DEF OnTheWay, Analysed
  <2>2. QED
    BY <1>3, <2>1 DEF BeforePlan, Plans, Ahead, Rest, Final
<1>8. Leads(n, Plain[n])
  BY <1>3, <1>6, <1>7 DEF Leads
<1>9. QED
  BY <1>1, <1>4, <1>5, <1>8, Continuing

LEMMA InspectAssetsKeeps == ASSUME GraphInv, InspectAssets PROVE GraphInv'
<1> DEFINE n == "inspect_assets"
<1>1. Starts(n) /\ context' = context /\ looks' = looks
  BY DEF InspectAssets
<1>2. CASE Has("asset_valid")
  <2> DEFINE next == "capability_router"
  <2>1. Continue(Completed(n), next) /\ n \in Nodes /\ next \in Nodes
    BY <1>2 DEF InspectAssets, Nodes
  <2>2. Follows(n, next)
    BY DEF Follows, BeforePlan, Observed, Nodes
  <2>3. Leads(n, next)
    BY AllowancesAre DEF Leads, BeforePlan, Left, Looks, Plans
  <2>4. QED
    BY <1>1, <2>1, <2>2, <2>3, Continuing
<1>3. CASE ~Has("asset_valid")
  <2>1. Continue([Completed(n) EXCEPT !.final = "FAILED"], "fail_job")
    BY <1>3 DEF InspectAssets
  <2>2. n \in BeforePlan
    BY DEF BeforePlan
  <2>3. QED
    BY <1>1, <2>1, <2>2, Failing
<1>4. QED
  BY <1>2, <1>3

LEMMA RouteFrom ==
  ASSUME GraphInv, NEW n \in Nodes, NEW next \in Nodes, Starts(n),
         \/ n = "capability_router" /\ next = RouteCapability
         \/ n = "validate_observations" /\ next = RouteValidation
         \/ n = "verify_claims" /\ next = RouteVerification
  PROVE  Follows(n, next) /\ Leads(n, next)
<1>1. context \subseteq request
  BY AtNode
<1>2. CASE n = "capability_router" /\ next = RouteCapability
  <2>1. next \in Plans /\ (next = "plan_transcript" => "transcript_only" \in request)
        /\ (next = "plan_video_analysis" => mode # "image")
    BY <1>1, <1>2 DEF RouteCapability, Has, Plans
  <2>2. Follows(n, next)
    BY <1>2, <2>1 DEF Follows, BeforePlan, Observed, Plans
  <2>3. QED
    BY <1>2, <2>1, <2>2, AllowancesAre DEF Leads, BeforePlan, Left, Looks, Plans
<1>3. CASE n = "validate_observations" /\ next = RouteValidation
  <2>1. \/ next = "create_review_items"
        \/ /\ next = "repair_observations" /\ "high_risk" \notin context
           /\ "validation_error" \in context /\ state.rounds < limits.rounds
        \/ next = "compute_metrics" /\ "high_risk" \notin context
    <3>1. CASE "high_risk" \in context
      BY <1>3, <3>1 DEF RouteValidation, Has
    <3>2. CASE "high_risk" \notin context /\ "validation_error" \in context /\ RoundsLeft
      BY <1>3, <3>2 DEF RouteValidation, Has, RoundsLeft
    <3>3. CASE "high_risk" \notin context /\ ~("validation_error" \in context /\ RoundsLeft)
      BY <1>3, <3>3 DEF RouteValidation, Has
    <3>4. QED
      BY <3>1, <3>2, <3>3
  <2>2. Follows(n, next)
    BY <1>3, <2>1 DEF Follows, BeforePlan, Observed, Plans, Looks
  <2>3. Left(next, RevisionLeft, RepairLeft) < Left(n, RevisionLeft, RepairLeft)
    <3>1. "validation_error" \in context => RepairLeft = 2
      BY DEF RepairLeft
    <3>2. QED
      BY <1>3, <2>1, <3>1, AllowancesAre DEF Left, Looks, Plans
  <2>4. Ahead(n) \subseteq Ahead(next) \cup {n} /\ n \notin BeforePlan \cup {"fail_job"}
    BY <1>3, <2>1 DEF Ahead, Rest, Final, BeforePlan, Plans
  <2>5. QED
    BY <1>3, <2>1, <2>2, <2>3, <2>4 DEF Leads
<1>4. CASE n = "verify_claims" /\ next = RouteVerification
  <2>1. \/ next = "create_review_items"
        \/ /\ next = "revise_report" /\ "numeric_inconsistent" \in context
           /\ state.rounds < limits.rounds
        \/ next = "publish_report" /\ "numeric_inconsistent" \notin context
    BY <1>4 DEF RouteVerification, Has, RoundsLeft
  <2>2. Follows(n, next)
    BY <1>4, <2>1 DEF Follows, BeforePlan, Observed, Plans, Looks
  <2>3. Left(next, RevisionLeft, RepairLeft) < Left(n, RevisionLeft, RepairLeft)
    <3>1. "numeric_inconsistent" \in context => RevisionLeft = 3
      BY DEF RevisionLeft
    <3>2. QED
      BY <1>4, <2>1, <3>1, AllowancesAre DEF Left, Looks, Plans
  <2>4. Ahead(n) \subseteq Ahead(next) \cup {n} /\ n \notin BeforePlan \cup {"fail_job"}
    BY <1>4, <2>1 DEF Ahead, Rest, Final, BeforePlan, Plans
  <2>5. QED
    BY <1>4, <2>1, <2>2, <2>3, <2>4 DEF Leads
<1>5. QED
  BY <1>2, <1>3, <1>4

LEMMA RoutedNodeKeeps == ASSUME GraphInv, RoutedNode PROVE GraphInv'
<1>1. PICK n \in Nodes, next \in Nodes :
        /\ Starts(n) /\ Continue(Completed(n), next)
        /\ \/ n = "capability_router" /\ next = RouteCapability
           \/ n = "validate_observations" /\ next = RouteValidation
           \/ n = "verify_claims" /\ next = RouteVerification
  <2>1. RouteCapability \in Nodes /\ RouteValidation \in Nodes /\ RouteVerification \in Nodes
    BY DEF RouteCapability, RouteValidation, RouteVerification, Nodes, Plans
  <2>2. {"capability_router", "validate_observations", "verify_claims"} \subseteq Nodes
    BY DEF Nodes
  <2>3. QED
    BY <2>1, <2>2 DEF RoutedNode
<1>2. context' = context /\ looks' = looks
  BY DEF RoutedNode
<1>3. Follows(n, next) /\ Leads(n, next)
  BY <1>1, RouteFrom
<1>4. QED
  BY <1>1, <1>2, <1>3, Continuing

LEMMA ObserveKeeps == ASSUME GraphInv, Observe PROVE GraphInv'
<1> DEFINE next == "validate_observations"
<1>1. PICK n \in Looks : Starts(n) /\ Continue(Completed(n), next)
  BY DEF Observe
<1>2. context' = context /\ looks' = looks + 1
  BY DEF Observe
<1>3. n \in Nodes /\ next \in Nodes
  BY DEF Nodes, Looks
<1>4. Follows(n, next) /\ next \in Observed
  BY <1>3 DEF Follows, BeforePlan, Observed, Plans, Looks
<1>5. Left(next, RevisionLeft, RepairLeft) < Left(n, RevisionLeft, RepairLeft)
  BY AllowancesAre DEF Left, Looks, Plans
<1>6. Ahead(n) \subseteq Ahead(next) \cup {n} /\ n \notin BeforePlan \cup {"fail_job"}
  BY DEF Ahead, Rest, Final, BeforePlan, Plans, Looks
<1>7. Leads(n, next)
  BY <1>5, <1>6 DEF Leads
<1>8. QED
  BY <1>1, <1>2, <1>3, <1>4, <1>7, Continuing

LEMMA PlanGoes ==
  ASSUME TypeOK, NEW n \in Nodes, NEW next \in Nodes,
         NEW p \in SUBSET (Nodes \cup {"inspect_media", "extract_frames"}),
         Continue([Completed(n) EXCEPT !.plan = p], next)
  PROVE  Goes(n, next) /\ state'.plan = p /\ state'.rounds = state.rounds
         /\ state'.final = state.final /\ usage'.rounds = usage.rounds
<1>1. state \in StateType /\ usage \in [steps : Nat, rounds : Nat]
  BY DEF TypeOK
<1>2. usage' \in [steps : Nat, rounds : Nat] /\ usage'.steps = usage.steps + 1
      /\ usage'.rounds = usage.rounds
  BY <1>1 DEF Continue
<1>3. /\ state' \in StateType /\ saved' = state'
      /\ state'.node = next /\ state'.done = state.done \cup {n}
      /\ state'.requires_review = state.requires_review
      /\ state'.approved = state.approved /\ state'.final = state.final
      /\ state'.plan = p /\ state'.rounds = state.rounds
  BY <1>1 DEF Continue, Completed, Save, StateType
<1>4. QED
  BY <1>2, <1>3 DEF Goes, Continue

\* The accepted plan is what the way from its first node to the end executes.
LEMMA PlanLeads ==
  ASSUME GraphInv, NEW n \in Plans, Starts(n), NEW next, next = RoutePlan
  PROVE  /\ next \in {"ingest_transcript", "observe_image", "observe_media", "transcribe_audio"}
         /\ next = "ingest_transcript" => "transcript_only" \in request
         /\ Analysed => PlanOf(n) \cap Nodes \subseteq Ahead(next)
<1>1. context \subseteq request /\ OnTheWay(state) /\ state.node = n
  BY AtNode
<1>2. (n = "plan_transcript" => "transcript_only" \in request)
      /\ (n = "plan_video_analysis" => mode # "image")
  BY <1>1 DEF OnTheWay
<1>3. CASE n = "plan_transcript" \/ "transcript_only" \in context
  <2>1. next = "ingest_transcript"
    BY <1>1, <1>3 DEF RoutePlan, Has
  <2>2. "transcript_only" \in request
    BY <1>1, <1>2, <1>3
  <2>3. QED
    BY <2>1, <2>2 DEF Analysed
<1>4. CASE n = "plan_image_analysis" /\ "transcript_only" \notin context
  <2>1. next = "observe_image"
    BY <1>1, <1>4 DEF RoutePlan, Has
  <2>2. PlanOf(n) \cap Nodes \subseteq Rest \cup {"observe_image"}
    BY <1>4 DEF PlanOf, Has, Nodes, Plans, Looks, Rest, Final
  <2>3. Ahead(next) = Rest \cup {"observe_image"}
    BY <2>1 DEF Ahead
  <2>4. QED
    BY <2>1, <2>2, <2>3
<1>5. CASE n = "plan_video_analysis" /\ "transcript_only" \notin context
  <2>1. next = IF mode = "video" /\ "has_audio" \in context
               THEN "transcribe_audio" ELSE "observe_media"
    BY <1>1, <1>5 DEF RoutePlan, Has
  <2>2. Analysed => mode = "video"
    <3>1. mode \in {"image", "video", "structured"}
      BY InputsAssumption DEF GraphInv, TypeOK
    <3>2. QED
      BY <1>2, <1>5, <3>1 DEF Analysed
  <2>3. CASE "has_audio" \in context
    <3>1. PlanOf(n) \cap Nodes \subseteq Rest \cup {"observe_media", "transcribe_audio"}
      BY <1>5, <2>3 DEF PlanOf, Has, Nodes, Plans, Looks, Rest, Final
    <3>2. Analysed => Ahead(next) = Rest \cup {"observe_media", "transcribe_audio"}
      BY <2>1, <2>2, <2>3 DEF Ahead
    <3>3. QED
      BY <2>1, <3>1, <3>2
  <2>4. CASE "has_audio" \notin context
    <3>1. PlanOf(n) \cap Nodes \subseteq Rest \cup {"observe_media"}
      BY <1>5, <2>4 DEF PlanOf, Has, Nodes, Plans, Looks, Rest, Final
    <3>2. next = "observe_media" /\ Ahead(next) = Rest \cup {"observe_media"}
      BY <2>1, <2>4 DEF Ahead
    <3>3. QED
      BY <3>1, <3>2
  <2>5. QED
    BY <2>3, <2>4
<1>6. QED
  BY <1>3, <1>4, <1>5 DEF Plans

LEMMA PlanKeeps == ASSUME GraphInv, Plan PROVE GraphInv'
<1>1. PICK n \in Plans :
        /\ Starts(n)
        /\ IF Has("barred")
           THEN Continue([Completed(n) EXCEPT !.final = "FAILED"], "fail_job")
           ELSE Continue([Completed(n) EXCEPT !.plan = PlanOf(n)], RoutePlan)
  BY DEF Plan
<1>2. context' = context /\ looks' = looks
  BY DEF Plan
<1>3. n \in Nodes /\ n \in BeforePlan
  BY DEF Nodes, BeforePlan
<1>4. CASE Has("barred")
  BY <1>1, <1>2, <1>3, <1>4, Failing
<1>5. CASE ~Has("barred")
  <2> DEFINE next == RoutePlan
             p == PlanOf(n)
  <2>1. Continue([Completed(n) EXCEPT !.plan = p], next)
    BY <1>1, <1>5
  <2>2. p \in SUBSET (Nodes \cup {"inspect_media", "extract_frames"})
    BY DEF PlanOf, Nodes, Looks
  <2>3. /\ next \in {"ingest_transcript", "observe_image", "observe_media", "transcribe_audio"}
        /\ next = "ingest_transcript" => "transcript_only" \in request
        /\ Analysed => p \cap Nodes \subseteq Ahead(next)
    BY <1>1, PlanLeads
  <2> HIDE DEF next, p
  <2>4. next \in Nodes
    BY <2>3 DEF Nodes, Looks
  <2>5. TypeOK /\ OnTheWay(state) /\ state.node = n /\ ~state.requires_review
    BY <1>1, AtNode
  <2>6. /\ Goes(n, next) /\ state'.plan = p /\ state'.rounds = state.rounds
        /\ state'.final = state.final /\ usage'.rounds = usage.rounds
    BY <1>3, <2>1, <2>2, <2>4, <2>5, PlanGoes
  <2>7. Follows(n, next)
    BY <1>3, <2>3, <2>4 DEF Follows, BeforePlan, Plans, Observed
  <2>8. OnTheWay(state)'
    <3>1. /\ state'.node = next /\ mode' = mode /\ request' = request /\ limits' = limits
          /\ ~state'.requires_review
      BY <2>5, <2>6 DEF Goes
    <3>2. Analysed' = Analysed
      BY <3>1 DEF Analysed
    <3>3. Analysed' => state'.plan \cap Nodes \subseteq state'.done \cup Ahead(state'.node)
      BY <2>3, <2>6, <3>1, <3>2
    <3>4. QED
      BY <2>3, <2>5, <2>6, <3>1, <3>3 DEF OnTheWay
  <2>9. EndsThere(state)'
    BY <1>1, <1>3, <2>4, <2>6, <2>7, EndsOn
  <2>10. Paid'
    <3>1. Left(next, RevisionLeft, RepairLeft) < Left(n, RevisionLeft, RepairLeft)
      BY <2>3, AllowancesAre DEF Left, Plans, Looks
    <3>2. QED
      BY <1>1, <1>2, <1>3, <2>4, <2>6, <3>1, PaidOn
  <2>11. Leaves(n)
    BY <1>2 DEF Leaves
  <2>12. QED
    BY <1>1, <1>2, <1>3, <2>4, <2>6, <2>7, <2>8, <2>9, <2>10, <2>11, GoingOn
<1>6. QED
  BY <1>4, <1>5

LEMMA CompletedFields ==
  ASSUME TypeOK, NEW n \in Nodes
  PROVE  /\ Completed(n) \in StateType /\ Completed(n).node = n
         /\ Completed(n).done = state.done \cup {n}
         /\ Completed(n).plan = state.plan /\ Completed(n).rounds = state.rounds
         /\ Completed(n).requires_review = state.requires_review
         /\ Completed(n).approved = state.approved /\ Completed(n).final = state.final
<1>1. state \in StateType
  BY DEF TypeOK
<1>2. QED
  BY <1>1 DEF Completed, StateType

LEMMA RepairIs ==
  ASSUME TypeOK, NEW n \in Nodes, NEW next \in Nodes,
         state' = [Completed(n) EXCEPT !.rounds = @ + 1, !.node = next],
         Save(state'),
         usage' = [steps |-> usage.steps + 1, rounds |-> usage.rounds + 1],
         UNCHANGED <<mode, request, limits, phase, decision, looks, crashes>>
  PROVE  /\ Goes(n, next)
         /\ state'.plan = state.plan /\ state'.rounds = state.rounds + 1
         /\ state'.final = state.final /\ usage'.rounds = usage.rounds + 1
<1> DEFINE c == Completed(n)
<1>1. state.rounds \in Nat /\ usage \in [steps : Nat, rounds : Nat]
  BY DEF TypeOK, StateType
<1>2. /\ c \in StateType /\ c.done = state.done \cup {n}
      /\ c.requires_review = state.requires_review /\ c.approved = state.approved
      /\ c.final = state.final /\ c.plan = state.plan /\ c.rounds = state.rounds
  BY CompletedFields
<1>3. PICK m \in Nat : m = c.rounds + 1
  BY <1>1, <1>2
<1>4. state' = [c EXCEPT !.rounds = m, !.node = next]
  BY <1>3
<1> HIDE DEF c
<1>5. /\ state' \in StateType /\ state'.node = next /\ state'.rounds = m
      /\ state'.done = c.done /\ state'.requires_review = c.requires_review
      /\ state'.approved = c.approved /\ state'.final = c.final /\ state'.plan = c.plan
  BY <1>2, <1>4 DEF StateType
<1>6. usage' \in [steps : Nat, rounds : Nat] /\ usage'.steps = usage.steps + 1
      /\ usage'.rounds = usage.rounds + 1
  BY <1>1
<1>7. QED
  BY <1>2, <1>3, <1>5, <1>6 DEF Goes, Save

\* A repair is on the way as long as one is left.
LEMMA RepairGoes ==
  ASSUME GraphInv, NEW n \in {"repair_observations", "revise_report"},
         NEW next \in {"validate_observations", "narrate_report"}, Starts(n),
         state' = [Completed(n) EXCEPT !.rounds = @ + 1, !.node = next],
         Save(state'),
         usage' = [steps |-> usage.steps + 1, rounds |-> usage.rounds + 1],
         UNCHANGED <<mode, request, limits, phase, decision, looks, crashes>>,
         Ahead(n) \subseteq Ahead(next) \cup {n},
         next = "validate_observations" \/ n = "revise_report",
         Left(next, RevisionLeft', RepairLeft') < Left(n, RevisionLeft, RepairLeft),
         Leaves(n)
  PROVE  GraphInv'
<1>1. /\ TypeOK /\ OnTheWay(state) /\ EndsThere(state) /\ Paid
      /\ ~state.requires_review /\ state.node = n
  BY AtNode
<1>2. state \in StateType /\ usage \in [steps : Nat, rounds : Nat]
      /\ limits.rounds \in Nat /\ state.rounds \in Nat
  BY <1>1, InputsAssumption DEF TypeOK, StateType
<1>3. n \in Nodes /\ next \in Nodes
  BY DEF Nodes
<1>4. /\ Goes(n, next)
      /\ state'.plan = state.plan /\ state'.rounds = state.rounds + 1
      /\ state'.final = state.final /\ usage'.rounds = usage.rounds + 1
  BY <1>1, <1>3, RepairIs
<1>5. /\ state'.node = next /\ state'.done = state.done \cup {n}
      /\ state'.requires_review = state.requires_review
      /\ usage' \in [steps : Nat, rounds : Nat] /\ usage'.steps = usage.steps + 1
  BY <1>4 DEF Goes
<1>6. Goes(n, next)
  BY <1>4
<1>7. Follows(n, next)
  BY <1>3 DEF Follows, BeforePlan, Plans, Observed, Looks
<1>8. OnTheWay(state)'
  <2>1. state'.rounds <= limits'.rounds
    BY <1>1, <1>2, <1>4 DEF OnTheWay
  <2>2. Analysed' = Analysed
    BY DEF Analysed
  <2>3. Analysed => state.plan \cap Nodes \subseteq state.done \cup Ahead(n)
    BY <1>1 DEF OnTheWay, BeforePlan, Plans
  <2>4. Analysed' => state'.plan \cap Nodes \subseteq state'.done \cup Ahead(state'.node)
    BY <1>4, <1>5, <2>2, <2>3
  <2>5. QED
    BY <1>1, <1>4, <1>5, <2>1, <2>4 DEF OnTheWay
<1>9. EndsThere(state)'
  BY <1>3, <1>4, <1>6, <1>7, EndsOn
<1>10. Paid'
  <2>1. usage.rounds <= state.rounds
        /\ usage.steps + Left(n, RevisionLeft, RepairLeft) <= LongestWay
    BY <1>1 DEF Paid
  <2>2. Left(n, RevisionLeft, RepairLeft) \in 1..LongestWay
    BY <1>3, LeftIsShort, AllowancesAre
  <2>3. Left(next, RevisionLeft', RepairLeft') \in 1..LongestWay
    <3>1. RevisionLeft' \in {0, 3} /\ RepairLeft' \in {0, 2}
      BY DEF RevisionLeft, RepairLeft
    <3>2. QED
      BY <1>3, <3>1, LeftIsShort
  <2>4. usage'.steps + Left(next, RevisionLeft', RepairLeft') <= LongestWay
    BY <1>2, <1>5, <2>1, <2>2, <2>3 DEF LongestWay
  <2>5. usage'.rounds <= state'.rounds
    BY <1>2, <1>4, <1>5, <2>1
  <2>6. QED
    BY <1>5, <2>4, <2>5 DEF Paid
<1>11. QED
  BY <1>3, <1>6, <1>7, <1>8, <1>9, <1>10, GoingOn

LEMMA RepairKeeps == ASSUME GraphInv, Repair PROVE GraphInv'
<1> DEFINE n == "repair_observations"
           next == "validate_observations"
<1>1. /\ Starts(n) /\ Save(state')
      /\ state' = [Completed(n) EXCEPT !.rounds = @ + 1, !.node = next]
      /\ usage' = [steps |-> usage.steps + 1, rounds |-> usage.rounds + 1]
      /\ context' = context \ {"validation_error"}
      /\ UNCHANGED <<mode, request, limits, phase, decision, looks, crashes>>
  BY DEF Repair
<1>2. Ahead(n) \subseteq Ahead(next) \cup {n}
  BY DEF Ahead
<1>3. Leaves(n)
  BY <1>1 DEF Leaves, BeforePlan, Plans
<1>4. RepairLeft' = 0 /\ RevisionLeft' = RevisionLeft
  BY <1>1 DEF RepairLeft, RevisionLeft
<1>5. Left(next, RevisionLeft', RepairLeft') < Left(n, RevisionLeft, RepairLeft)
  BY <1>4, AllowancesAre DEF Left, Plans, Looks
<1>6. QED
  BY <1>1, <1>2, <1>3, <1>5, RepairGoes

LEMMA ReviseKeeps == ASSUME GraphInv, Revise PROVE GraphInv'
<1> DEFINE n == "revise_report"
           next == "narrate_report"
<1>1. /\ Starts(n) /\ Save(state')
      /\ state' = [Completed(n) EXCEPT !.rounds = @ + 1, !.node = next]
      /\ usage' = [steps |-> usage.steps + 1, rounds |-> usage.rounds + 1]
      /\ context' = context \ {"numeric_inconsistent"}
      /\ UNCHANGED <<mode, request, limits, phase, decision, looks, crashes>>
  BY DEF Revise
<1>2. Ahead(n) \subseteq Ahead(next) \cup {n}
  BY DEF Ahead
<1>3. Leaves(n)
  BY <1>1 DEF Leaves
<1>4. RepairLeft' = RepairLeft /\ RevisionLeft' = 0
  BY <1>1 DEF RepairLeft, RevisionLeft
<1>5. Left(next, RevisionLeft', RepairLeft') < Left(n, RevisionLeft, RepairLeft)
  BY <1>4, AllowancesAre DEF Left, Plans, Looks
<1>6. QED
  BY <1>1, <1>2, <1>3, <1>5, RepairGoes

\* The call ends at node n, which counts as done.
LEMMA Ending ==
  ASSUME GraphInv, NEW n \in Nodes, phase = "running", state.node = n,
         state' \in StateType, saved' = state', state'.node = n,
         state'.done = state.done \cup {n}, state'.plan = state.plan,
         state'.rounds = state.rounds, state'.approved = state.approved,
         state'.requires_review => n = "create_review_items",
         EndsThere(state)', phase' = "ended",
         usage' \in [steps : Nat, rounds : Nat],
         UNCHANGED <<mode, request, limits, context, decision, looks, crashes>>
  PROVE  GraphInv'
<1>1. TypeOK /\ GoodState(state) /\ Told(state) /\ ~state.requires_review
  BY DEF GraphInv
<1>2. TypeOK'
  BY <1>1 DEF TypeOK
<1>3. Analysed' = Analysed
  BY DEF Analysed
<1>4. OnTheWay(state)'
  <2>1. Analysed' /\ n \notin BeforePlan \cup {"fail_job"} =>
          state'.plan \cap Nodes \subseteq state'.done \cup Ahead(n)
    BY <1>1, <1>3 DEF GoodState, OnTheWay
  <2>2. Analysed' /\ state'.requires_review =>
          state'.plan \cap Nodes \subseteq state'.done \cup Ahead("compute_metrics")
    BY <2>1 DEF Ahead, BeforePlan, Plans
  <2>3. QED
    BY <1>1, <2>1, <2>2 DEF GoodState, OnTheWay
<1>5. Seen(state) => Seen(state)'
  BY <1>1 DEF Seen
<1>6. RiskStopped(state)'
  BY <1>1, <1>5 DEF GoodState, RiskStopped
<1>7. WrongStopped(state)'
  BY <1>1, <1>5 DEF GoodState, WrongStopped
<1>8. Told(state)'
  BY <1>1, <1>5 DEF Told
<1>9. GoodState(state)'
  BY <1>4, <1>6, <1>7 DEF GoodState
<1>10. GoodState(saved)' /\ Told(saved)'
  BY <1>8, <1>9
  DEF GoodState, OnTheWay, EndsThere, RiskStopped, WrongStopped, Told, Seen
<1>11. ContextIsRequest'
  BY DEF GraphInv, ContextIsRequest
<1>12. LookedBefore'
  BY DEF GraphInv, LookedBefore
<1>13. QED
  BY <1>2, <1>9, <1>10, <1>11, <1>12 DEF GraphInv

LEMMA ReturnEnds ==
  ASSUME GraphInv, NEW n \in Nodes, Starts(n), NEW b \in BOOLEAN,
         NEW f \in {"SUCCEEDED", "NEEDS_REVIEW", "FAILED"},
         state' \in StateType, state'.node = n,
         state'.done = state.done \cup {n}, state'.plan = state.plan,
         state'.rounds = state.rounds, state'.approved = state.approved,
         state'.requires_review = b, state'.final = f,
         saved' = state', phase' = "ended",
         usage' = [usage EXCEPT !.steps = @ + 1],
         UNCHANGED <<mode, request, limits, context, decision, looks, crashes>>,
         \/ n = "create_review_items" /\ b = TRUE /\ f = "NEEDS_REVIEW"
         \/ n = "publish_report" /\ b = FALSE /\ f = "SUCCEEDED"
         \/ n = "fail_job" /\ b = FALSE /\ f = "FAILED"
  PROVE  GraphInv'
<1>1. phase = "running" /\ state.node = n /\ TypeOK
  BY AtNode
<1>2. usage' \in [steps : Nat, rounds : Nat]
  BY <1>1 DEF TypeOK
<1>3. EndsThere(state)'
  BY DEF EndsThere
<1>4. QED
  BY <1>1, <1>2, <1>3, Ending

LEMMA CreateReviewItemsKeeps == ASSUME GraphInv, CreateReviewItems PROVE GraphInv'
<1> DEFINE n == "create_review_items"
           c == Completed(n)
<1>1. Starts(n) /\ n \in Nodes
  BY DEF CreateReviewItems, Nodes
<1>2. TypeOK
  BY DEF GraphInv
<1>3. /\ c \in StateType /\ c.node = n /\ c.done = state.done \cup {n}
      /\ c.plan = state.plan /\ c.rounds = state.rounds /\ c.approved = state.approved
  BY <1>1, <1>2, CompletedFields
<1>4. /\ state' = [c EXCEPT !.requires_review = TRUE, !.final = "NEEDS_REVIEW"]
      /\ saved' = state' /\ phase' = "ended" /\ usage' = [usage EXCEPT !.steps = @ + 1]
      /\ UNCHANGED <<mode, request, limits, context, decision, looks, crashes>>
  BY DEF CreateReviewItems, Return
<1> HIDE DEF c
<1>5. /\ state' \in StateType /\ state'.node = n /\ state'.done = state.done \cup {n}
      /\ state'.plan = state.plan /\ state'.rounds = state.rounds
      /\ state'.approved = state.approved
      /\ state'.requires_review = TRUE /\ state'.final = "NEEDS_REVIEW"
  BY <1>3, <1>4 DEF StateType
<1>6. QED
  BY <1>1, <1>4, <1>5, ReturnEnds

LEMMA PublishReportKeeps == ASSUME GraphInv, PublishReport PROVE GraphInv'
<1> DEFINE n == "publish_report"
           c == Completed(n)
<1>1. Starts(n) /\ n \in Nodes
  BY DEF PublishReport, Nodes
<1>2. TypeOK /\ ~state.requires_review
  BY <1>1, AtNode
<1>3. /\ c \in StateType /\ c.node = n /\ c.done = state.done \cup {n}
      /\ c.plan = state.plan /\ c.rounds = state.rounds /\ c.approved = state.approved
      /\ c.requires_review = state.requires_review
  BY <1>1, <1>2, CompletedFields
<1>4. /\ state' = [c EXCEPT !.final = "SUCCEEDED"]
      /\ saved' = state' /\ phase' = "ended" /\ usage' = [usage EXCEPT !.steps = @ + 1]
      /\ UNCHANGED <<mode, request, limits, context, decision, looks, crashes>>
  BY <1>2 DEF PublishReport, Return
<1> HIDE DEF c
<1>5. /\ state' \in StateType /\ state'.node = n /\ state'.done = state.done \cup {n}
      /\ state'.plan = state.plan /\ state'.rounds = state.rounds
      /\ state'.approved = state.approved
      /\ state'.requires_review = c.requires_review /\ state'.final = "SUCCEEDED"
  BY <1>3, <1>4 DEF StateType
<1>6. state'.requires_review = FALSE
  <2>1. state'.requires_review \in BOOLEAN
    BY <1>5 DEF StateType
  <2>2. QED
    BY <1>2, <1>3, <1>5, <2>1
<1>7. QED
  BY <1>1, <1>4, <1>5, <1>6, ReturnEnds

LEMMA FailJobKeeps == ASSUME GraphInv, FailJob PROVE GraphInv'
<1> DEFINE n == "fail_job"
           c == Completed(n)
<1>1. Starts(n) /\ n \in Nodes
  BY DEF FailJob, Nodes
<1>2. TypeOK /\ ~state.requires_review
  BY <1>1, AtNode
<1>3. /\ c \in StateType /\ c.node = n /\ c.done = state.done \cup {n}
      /\ c.plan = state.plan /\ c.rounds = state.rounds /\ c.approved = state.approved
      /\ c.requires_review = state.requires_review
  BY <1>1, <1>2, CompletedFields
<1>4. /\ state' = [c EXCEPT !.final = "FAILED"]
      /\ saved' = state' /\ phase' = "ended" /\ usage' = [usage EXCEPT !.steps = @ + 1]
      /\ UNCHANGED <<mode, request, limits, context, decision, looks, crashes>>
  BY DEF FailJob, Return
<1> HIDE DEF c
<1>5. /\ state' \in StateType /\ state'.node = n /\ state'.done = state.done \cup {n}
      /\ state'.plan = state.plan /\ state'.rounds = state.rounds
      /\ state'.approved = state.approved
      /\ state'.requires_review = c.requires_review /\ state'.final = "FAILED"
  BY <1>3, <1>4 DEF StateType
<1>6. state'.requires_review = FALSE
  <2>1. state'.requires_review \in BOOLEAN
    BY <1>5 DEF StateType
  <2>2. QED
    BY <1>2, <1>3, <1>5, <2>1
<1>7. QED
  BY <1>1, <1>4, <1>5, <1>6, ReturnEnds

\* A budget for the longest way has steps for the rest of it.
LEMMA BudgetLasts ==
  ASSUME GraphInv, phase = "running", limits.steps >= LongestWay
  PROVE  ~Exhausted
<1>1. TypeOK /\ Paid /\ OnTheWay(state)
  BY DEF GraphInv, GoodState
<1>2. /\ usage.steps \in Nat /\ usage.rounds \in Nat /\ limits.steps \in Nat
      /\ limits.rounds \in Nat /\ state.rounds \in Nat /\ state.node \in Nodes
  BY <1>1, InputsAssumption DEF TypeOK, StateType
<1>3. Left(state.node, RevisionLeft, RepairLeft) \in 1..LongestWay
  BY <1>2, LeftIsShort, AllowancesAre
<1>4. usage.steps < limits.steps
  BY <1>1, <1>2, <1>3 DEF Paid, LongestWay
<1>5. state.node \in {"repair_observations", "revise_report"} => usage.rounds < limits.rounds
  BY <1>1, <1>2 DEF Paid, OnTheWay
<1>6. QED
  BY <1>2, <1>4, <1>5 DEF Exhausted

LEMMA OutOfBudgetKeeps == ASSUME GraphInv, OutOfBudget PROVE GraphInv'
<1> DEFINE n == state.node
           c == Completed(n)
<1>1. TypeOK /\ phase = "running" /\ ~state.requires_review
  BY DEF GraphInv, OutOfBudget
<1>2. n \in Nodes /\ state.node = n
  BY <1>1 DEF TypeOK, StateType
<1>3. /\ c \in StateType /\ c.node = n /\ c.done = state.done \cup {n}
      /\ c.plan = state.plan /\ c.rounds = state.rounds /\ c.approved = state.approved
      /\ c.requires_review = state.requires_review
  BY <1>1, <1>2, CompletedFields
<1>4. /\ state' = [c EXCEPT !.final = "BUDGET_EXCEEDED"]
      /\ saved' = state' /\ phase' = "ended" /\ usage' = usage
      /\ UNCHANGED <<mode, request, limits, context, decision, looks, crashes>>
  BY DEF OutOfBudget
<1> HIDE DEF n, c
<1>5. /\ state' \in StateType /\ state'.node = n /\ state'.done = state.done \cup {n}
      /\ state'.plan = state.plan /\ state'.rounds = state.rounds
      /\ state'.approved = state.approved
      /\ state'.requires_review = state.requires_review
      /\ state'.final = "BUDGET_EXCEEDED"
  BY <1>3, <1>4 DEF StateType
<1>6. ~(limits.steps >= LongestWay)
  BY <1>1, BudgetLasts DEF OutOfBudget
<1>7. EndsThere(state)'
  BY <1>1, <1>4, <1>5, <1>6 DEF EndsThere
<1>8. usage' \in [steps : Nat, rounds : Nat]
  BY <1>1, <1>4 DEF TypeOK
<1>9. QED
  BY <1>1, <1>2, <1>4, <1>5, <1>7, <1>8, Ending

-----------------------------------------------------------------------------
(* The calls                                                               *)

LEMMA RunKeeps == ASSUME GraphInv, Run PROVE GraphInv'
<1>1. /\ phase' = "running" /\ state' = Fresh /\ context' = request /\ decision' = "none"
      /\ usage' = [steps |-> 0, rounds |-> 0] /\ looks' = 0
      /\ mode' = mode /\ request' = request /\ limits' = limits
      /\ saved' = saved /\ crashes' = crashes
  BY DEF Run
<1>2. TypeOK /\ limits.rounds \in Nat /\ request \subseteq Flags
  BY InputsAssumption DEF GraphInv, TypeOK
<1>3. /\ Fresh \in StateType /\ Fresh.node = "initialize" /\ Fresh.done = {}
      /\ Fresh.plan = {} /\ Fresh.rounds = 0 /\ Fresh.final = "none"
      /\ ~Fresh.requires_review /\ ~Fresh.approved
  BY DEF Fresh, StateType, Nodes
<1>4. TypeOK'
  BY <1>1, <1>2, <1>3 DEF TypeOK
<1>5. GoodState(state)'
  <2>1. OnTheWay(state)'
    BY <1>1, <1>2, <1>3 DEF OnTheWay, BeforePlan
  <2>2. EndsThere(state)' /\ RiskStopped(state)' /\ WrongStopped(state)'
    BY <1>1, <1>3 DEF EndsThere, RiskStopped, WrongStopped
  <2>3. QED
    BY <2>1, <2>2 DEF GoodState
<1>6. GoodState(saved)'
  BY <1>1 DEF GraphInv, GoodState, OnTheWay, EndsThere, RiskStopped, WrongStopped, Seen,
              Analysed
<1>7. Told(state)' /\ Told(saved)'
  BY <1>1 DEF Told
<1>8. Paid'
  <2>1. RevisionLeft' \in {0, 3} /\ RepairLeft' \in {0, 2}
    BY DEF RevisionLeft, RepairLeft
  <2>2. Left("initialize", RevisionLeft', RepairLeft') \in 1..LongestWay
    BY <2>1, LeftIsShort DEF Nodes
  <2>3. QED
    BY <1>1, <1>3, <2>2 DEF Paid, LongestWay
<1>9. ContextIsRequest' /\ LookedBefore'
  BY <1>1 DEF ContextIsRequest, LookedBefore
<1>10. QED
  BY <1>1, <1>3, <1>4, <1>5, <1>6, <1>7, <1>8, <1>9 DEF GraphInv

\* The run goes on, or ends, from its checkpoint.
LEMMA RestoreKeeps ==
  ASSUME GraphInv, phase # "new", NEW d \in Decisions \cup {"none"}, Restore(d),
         context' = context \/ (saved.requires_review /\ context' = {}),
         crashes' = crashes
  PROVE  GraphInv'
<1>1. /\ TypeOK /\ GoodState(saved) /\ Told(saved)
  BY DEF GraphInv
<1>2. /\ saved \in StateType /\ saved.node \in Nodes /\ saved.rounds \in Nat
      /\ saved.requires_review \in BOOLEAN
  BY <1>1 DEF TypeOK, StateType
<1>3. /\ decision' = d /\ usage' = [steps |-> 0, rounds |-> 0]
      /\ mode' = mode /\ request' = request /\ limits' = limits /\ looks' = looks
  BY DEF Restore
<1>4. context' \subseteq context
  OBVIOUS
<1>5. saved.requires_review => saved.node \in {"create_review_items", "fail_job"}
  BY <1>1 DEF GoodState, EndsThere
<1>6. state' \in StateType /\ saved' \in StateType /\ phase' \in {"running", "ended"} => TypeOK'
  BY <1>1, <1>3, <1>4 DEF TypeOK
<1>7. CASE ~saved.requires_review /\ phase' = "running" /\ state' = saved /\ saved' = saved
  <2>1. TypeOK'
    BY <1>2, <1>6, <1>7
  <2>2. context' = context
    BY <1>7
  <2>3. GoodState(state)' /\ GoodState(saved)'
    BY <1>1, <1>3, <1>7
    DEF GoodState, OnTheWay, EndsThere, RiskStopped, WrongStopped, Seen, Analysed
  <2>4. Told(state)' /\ Told(saved)'
    BY <1>1, <1>3, <1>7, <2>2 DEF Told, Seen
  <2>5. Paid'
    <3>1. RevisionLeft' \in {0, 3} /\ RepairLeft' \in {0, 2}
      BY DEF RevisionLeft, RepairLeft
    <3>2. Left(saved.node, RevisionLeft', RepairLeft') \in 1..LongestWay
      BY <1>2, <3>1, LeftIsShort
    <3>3. QED
      BY <1>2, <1>3, <1>7, <3>2 DEF Paid, LongestWay
  <2>6. ContextIsRequest'
    BY <1>3, <1>7, <2>2 DEF GraphInv, ContextIsRequest
  <2>7. LookedBefore'
    BY <1>3, <1>7 DEF GraphInv, LookedBefore
  <2>8. QED
    BY <1>7, <2>1, <2>3, <2>4, <2>5, <2>6, <2>7 DEF GraphInv
<1> DEFINE Stops == {"create_review_items", "compute_metrics", "fail_job"}
<1>8. ASSUME state'.node \in Stops, saved'.node \in Stops
      PROVE  ContextIsRequest' /\ LookedBefore'
  <2>1. Stops \cap BeforePlan = {} /\ Stops \subseteq Observed
    BY DEF BeforePlan, Plans, Looks, Observed, Nodes
  <2>2. looks <= 1 /\ context' \subseteq request'
    BY <1>3, <1>4 DEF GraphInv, LookedBefore, ContextIsRequest
  <2>3. QED
    BY <1>3, <1>8, <2>1, <2>2 DEF ContextIsRequest, LookedBefore
<1>9. CASE saved.requires_review /\ Passes(d) /\ phase' = "running" /\ saved' = saved
           /\ state' = [saved EXCEPT !.requires_review = FALSE, !.final = "none",
                                     !.node = "compute_metrics", !.approved = (d # "none")]
  <2>1. /\ state' \in StateType /\ state'.node = "compute_metrics"
        /\ state'.done = saved.done /\ state'.plan = saved.plan
        /\ state'.rounds = saved.rounds /\ state'.final = "none"
        /\ state'.requires_review = FALSE /\ state'.approved = (d # "none")
    BY <1>2, <1>9 DEF StateType, Nodes
  <2>2. state'.approved
    BY <1>9, <2>1 DEF Passes
  <2>3. TypeOK'
    BY <1>2, <1>6, <1>9, <2>1
  <2>4. OnTheWay(state)'
    <3>1. /\ Analysed' = Analysed
          /\ Analysed =>
               saved.plan \cap Nodes \subseteq saved.done \cup Ahead("compute_metrics")
      BY <1>1, <1>3, <1>9 DEF Analysed, GoodState, OnTheWay
    <3>2. Analysed' => state'.plan \cap Nodes \subseteq state'.done \cup Ahead(state'.node)
      BY <2>1, <3>1
    <3>3. state'.rounds <= limits'.rounds
      BY <1>1, <1>3, <2>1 DEF GoodState, OnTheWay
    <3>4. QED
      BY <2>1, <3>2, <3>3 DEF OnTheWay
  <2>5. EndsThere(state)' /\ RiskStopped(state)' /\ WrongStopped(state)' /\ Told(state)'
    BY <2>1, <2>2 DEF EndsThere, RiskStopped, WrongStopped, Told, Seen
  <2>6. GoodState(saved)' /\ Told(saved)'
    BY <1>1, <1>3, <1>9
    DEF GoodState, OnTheWay, EndsThere, RiskStopped, WrongStopped, Seen, Analysed, Told
  <2>7. Paid'
    <3>1. RevisionLeft' \in {0, 3} /\ RepairLeft' \in {0, 2}
      BY DEF RevisionLeft, RepairLeft
    <3>2. Left("compute_metrics", RevisionLeft', RepairLeft') \in 1..LongestWay
      BY <3>1, LeftIsShort DEF Nodes
    <3>3. QED
      BY <1>2, <1>3, <2>1, <3>2 DEF Paid, LongestWay
  <2>8. ContextIsRequest' /\ LookedBefore'
    BY <1>5, <1>8, <1>9, <2>1
  <2>9. QED
    BY <1>9, <2>1, <2>3, <2>4, <2>5, <2>6, <2>7, <2>8 DEF GraphInv, GoodState
<1>10. CASE saved.requires_review /\ phase' = "ended" /\ saved' = state'
            /\ state' = [saved EXCEPT !.node = "fail_job", !.final = "FAILED",
                                      !.done = @ \cup {"fail_job"}]
  <2>1. /\ state' \in StateType /\ state'.node = "fail_job"
        /\ state'.done = saved.done \cup {"fail_job"} /\ state'.plan = saved.plan
        /\ state'.rounds = saved.rounds /\ state'.final = "FAILED"
        /\ state'.requires_review = saved.requires_review
    BY <1>2, <1>10 DEF StateType, Nodes
  <2>2. state'.requires_review
    BY <1>10, <2>1
  <2>3. TypeOK'
    BY <1>6, <1>10, <2>1
  <2>4. OnTheWay(state)'
    <3>1. /\ Analysed' = Analysed
          /\ Analysed =>
               saved.plan \cap Nodes \subseteq saved.done \cup Ahead("compute_metrics")
      BY <1>1, <1>3, <1>10 DEF Analysed, GoodState, OnTheWay
    <3>2. Analysed' => state'.plan \cap Nodes \subseteq state'.done \cup Ahead("compute_metrics")
      BY <2>1, <3>1
    <3>3. state'.rounds <= limits'.rounds
      BY <1>1, <1>3, <2>1 DEF GoodState, OnTheWay
    <3>4. QED
      BY <2>1, <3>2, <3>3 DEF OnTheWay
  <2>5. EndsThere(state)' /\ RiskStopped(state)' /\ WrongStopped(state)' /\ Told(state)'
    BY <2>1, <2>2 DEF EndsThere, RiskStopped, WrongStopped, Told, Seen
  <2>6. GoodState(state)'
    BY <2>4, <2>5 DEF GoodState
  <2>7. GoodState(saved)' /\ Told(saved)'
    BY <1>10, <2>5, <2>6
    DEF GoodState, OnTheWay, EndsThere, RiskStopped, WrongStopped, Seen, Told
  <2>8. ContextIsRequest' /\ LookedBefore'
    BY <1>8, <1>10, <2>1
  <2>9. QED
    BY <1>10, <2>3, <2>6, <2>7, <2>8 DEF GraphInv
<1>11. CASE saved.requires_review /\ phase' = "ended" /\ state' = saved /\ saved' = saved
  <2>1. TypeOK'
    BY <1>2, <1>6, <1>11
  <2>2. GoodState(state)' /\ GoodState(saved)'
    BY <1>1, <1>3, <1>11
    DEF GoodState, OnTheWay, EndsThere, RiskStopped, WrongStopped, Seen, Analysed
  <2>3. Told(saved)'
    BY <1>11 DEF Told, Seen
  <2>4. ContextIsRequest' /\ LookedBefore'
    BY <1>5, <1>8, <1>11
  <2>5. QED
    BY <1>11, <2>1, <2>2, <2>3, <2>4 DEF GraphInv
<1>12. QED
  BY <1>7, <1>9, <1>10, <1>11 DEF Restore

LEMMA ResumeKeeps == ASSUME GraphInv, Resume PROVE GraphInv'
<1>1. PICK d \in Decisions : Restore(d)
  BY DEF Resume
<1>2. phase = "ended" /\ state.final = "NEEDS_REVIEW" /\ context' = {} /\ crashes' = crashes
  BY DEF Resume
<1>3. saved.requires_review
  BY <1>2 DEF GraphInv, GoodState, EndsThere
<1>4. QED
  BY <1>1, <1>2, <1>3, RestoreKeeps

LEMMA RecoverKeeps == ASSUME GraphInv, Recover PROVE GraphInv'
<1>1. phase = "dead" /\ Restore(decision) /\ context' = context /\ crashes' = crashes
  BY DEF Recover
<1>2. decision \in Decisions \cup {"none"}
  BY DEF GraphInv, TypeOK
<1>3. QED
  BY <1>1, <1>2, RestoreKeeps

LEMMA CrashKeeps == ASSUME GraphInv, Crash PROVE GraphInv'
<1>1. /\ phase \in {"running", "ended"} /\ phase' = "dead" /\ crashes' = crashes + 1
      /\ mode' = mode /\ request' = request /\ limits' = limits /\ context' = context
      /\ decision' = decision /\ state' = state /\ saved' = saved /\ usage' = usage
      /\ looks' = looks
  BY DEF Crash
<1>2. TypeOK'
  BY <1>1 DEF GraphInv, TypeOK
<1>3. GoodState(state)' /\ GoodState(saved)' /\ Told(saved)'
  BY <1>1
  DEF GraphInv, GoodState, OnTheWay, EndsThere, RiskStopped, WrongStopped, Seen,
      Analysed, Told
<1>4. ContextIsRequest' /\ LookedBefore'
  BY <1>1 DEF GraphInv, ContextIsRequest, LookedBefore
<1>5. QED
  BY <1>1, <1>2, <1>3, <1>4 DEF GraphInv

LEMMA GraphStutter == ASSUME GraphInv, UNCHANGED vars PROVE GraphInv'
<1>1. /\ phase' = phase /\ crashes' = crashes
      /\ mode' = mode /\ request' = request /\ limits' = limits /\ context' = context
      /\ decision' = decision /\ state' = state /\ saved' = saved /\ usage' = usage
      /\ looks' = looks
  BY DEF vars
<1>2. TypeOK'
  BY <1>1 DEF GraphInv, TypeOK
<1>3. GoodState(state)' /\ GoodState(saved)'
  BY <1>1
  DEF GraphInv, GoodState, OnTheWay, EndsThere, RiskStopped, WrongStopped, Seen, Analysed
<1>4. (Told(state) => Told(state)') /\ (Told(saved) => Told(saved)')
  BY <1>1 DEF Told, Seen
<1>5. Paid => Paid'
  BY <1>1 DEF Paid, RevisionLeft, RepairLeft
<1>6. ContextIsRequest' /\ LookedBefore'
  BY <1>1 DEF GraphInv, ContextIsRequest, LookedBefore
<1>7. QED
  BY <1>1, <1>2, <1>3, <1>4, <1>5, <1>6 DEF GraphInv

-----------------------------------------------------------------------------
(* The theorems                                                            *)

\* However often a run is interrupted, resumed, reviewed and retried, its state
\* and its checkpoint stay on the way the request and the reviewers allow.
THEOREM GraphInvariant == Spec => []GraphInv
<1>1. Init => GraphInv
  BY GraphStart
<1>2. GraphInv /\ [Next]_vars => GraphInv'
  <2> SUFFICES ASSUME GraphInv, [Next]_vars PROVE GraphInv'
    OBVIOUS
  <2>1. CASE PlainNode \/ InspectAssets \/ RoutedNode \/ Plan \/ Observe
    BY <2>1, PlainNodeKeeps, InspectAssetsKeeps, RoutedNodeKeeps, PlanKeeps, ObserveKeeps
  <2>2. CASE Repair \/ Revise \/ CreateReviewItems \/ PublishReport \/ FailJob \/ OutOfBudget
    BY <2>2, RepairKeeps, ReviseKeeps, CreateReviewItemsKeeps, PublishReportKeeps,
       FailJobKeeps, OutOfBudgetKeeps
  <2>3. CASE Run \/ Resume \/ Crash \/ Recover
    BY <2>3, RunKeeps, ResumeKeeps, CrashKeeps, RecoverKeeps
  <2>4. CASE UNCHANGED vars
    BY <2>4, GraphStutter
  <2>5. QED
    BY <2>1, <2>2, <2>3, <2>4 DEF Next
<1>3. QED
  BY <1>1, <1>2, PTL DEF Spec

\* The state, its checkpoint and the budget keep their types.
THEOREM GraphTypes == Spec => []TypeOK
<1>1. GraphInv => TypeOK
  BY DEF GraphInv
<1>2. QED
  BY <1>1, GraphInvariant, PTL

\* A report is published only if a reviewer approved what is of high risk, its
\* wrong numbers were revised or approved, and every node of its plan is done:
\* also over the checkpoints of interrupted calls and earlier executions.
THEOREM PublicationsAreEarned == Spec => []PublicationIsEarned
<1>1. GraphInv => PublicationIsEarned
  <2> SUFFICES ASSUME GraphInv, Published PROVE PublicationIsEarned
    BY DEF PublicationIsEarned, RiskNeedsApproval, WrongNumbersNotPublished, PlanIsCarriedOut
  <2>1. GoodState(state) /\ state.final = "SUCCEEDED"
    BY DEF GraphInv, Published
  <2>2. /\ state.node = "publish_report" /\ "publish_report" \in state.done
        /\ ~state.requires_review
    BY <2>1 DEF GoodState, EndsThere
  <2>3. RiskNeedsApproval
    BY <2>1, <2>2 DEF RiskNeedsApproval, GoodState, RiskStopped, Seen
  <2>4. WrongNumbersNotPublished
    BY <2>1, <2>2 DEF WrongNumbersNotPublished, GoodState, WrongStopped, Seen
  <2>5. PlanIsCarriedOut
    <3>1. Analysed => state.plan \cap Nodes \subseteq state.done \cup {"publish_report"}
      BY <2>1, <2>2 DEF GoodState, OnTheWay, BeforePlan, Plans, Ahead
    <3>2. QED
      BY <2>2, <3>1 DEF PlanIsCarriedOut, Analysed
  <2>6. QED
    BY <2>3, <2>4, <2>5 DEF PublicationIsEarned
<1>2. QED
  BY <1>1, GraphInvariant, PTL

\* Going on from a checkpoint observes nothing a second time and repairs no more
\* than allowed, and what waits for a review is saved as it waits.
THEOREM ResumesAreFaithful == Spec => []ResumeIsFaithful
<1>1. GraphInv => ResumeIsFaithful
  <2> SUFFICES ASSUME GraphInv PROVE ResumeIsFaithful
    OBVIOUS
  <2>1. ObservedOnce /\ RepairsBounded
    BY DEF GraphInv, LookedBefore, GoodState, OnTheWay, ObservedOnce, RepairsBounded
  <2>2. WaitingIsSaved
    BY DEF GraphInv, GoodState, EndsThere, WaitingIsSaved
  <2>3. QED
    BY <2>1, <2>2 DEF ResumeIsFaithful
<1>2. QED
  BY <1>1, GraphInvariant, PTL

\* A budget of sixteen steps or more never stops a run: no way through the graph
\* is longer, and each call has the budget anew.
THEOREM BudgetsSuffice == Spec => []BudgetSuffices
<1>1. GraphInv => BudgetSuffices
  BY DEF GraphInv, GoodState, EndsThere, BudgetSuffices
<1>2. QED
  BY <1>1, GraphInvariant, PTL

-----------------------------------------------------------------------------
(* One superstep of LangGraph                                              *)

EnvelopePlans == SUBSET (Nodes \cup {"inspect_media", "extract_frames"})

LEMMA FieldsOfEnvelope ==
  ASSUME NEW e \in Envelope
  PROVE  /\ e.node \in LangNodes /\ e.done \in SUBSET LangNodes /\ e.rounds \in Nat
         /\ e.plan \in EnvelopePlans /\ e.requires_review \in BOOLEAN
         /\ e.final \in {"none", "SUCCEEDED", "NEEDS_REVIEW", "FAILED"}
         /\ e.flags \in SUBSET Flags
BY DEF Envelope, EnvelopePlans

LEMMA LangPlanIs ==
  ASSUME NEW e
  PROVE  LangPlanOf(e) \in EnvelopePlans
BY DEF LangPlanOf, EnvelopePlans, Nodes, Looks

\* What a node writes.
Writes(e, d) ==
  /\ d \in Envelope /\ d.node = e.node /\ d.done = e.done \cup {e.node}
  /\ d.rounds = IF e.node \in {"repair_observations", "revise_report"}
                THEN e.rounds + 1 ELSE e.rounds
  /\ d.plan = IF e.node = "plan" /\ "barred" \notin e.flags THEN LangPlanOf(e) ELSE e.plan
  /\ d.requires_review = (e.node = "create_review_items" \/ e.requires_review)
  /\ d.final = CASE e.node = "plan" /\ "barred" \in e.flags -> "FAILED"
                 [] e.node = "create_review_items" -> "NEEDS_REVIEW"
                 [] e.node = "publish_report" -> "SUCCEEDED"
                 [] e.node = "fail_job" -> "FAILED"
                 [] OTHER -> e.final
  /\ "persistent_verifier_failure" \notin e.flags =>
       d.flags = CASE e.node = "repair_observations" -> e.flags \ {"validation_error"}
                   [] e.node = "revise_report" -> e.flags \ {"numeric_inconsistent"}
                   [] OTHER -> e.flags

LEMMA NodeIs ==
  ASSUME NEW e \in Envelope, e.node # "END"
  PROVE  Writes(e, LangNode(e))
<1> DEFINE d == [e EXCEPT !.done = @ \cup {e.node}]
<1>1. /\ d \in Envelope /\ d.node = e.node /\ d.done = e.done \cup {e.node}
      /\ d.rounds = e.rounds /\ d.plan = e.plan /\ d.requires_review = e.requires_review
      /\ d.final = e.final /\ d.flags = e.flags
  BY DEF Envelope
<1>2. LangNode(e) =
        CASE e.node = "plan" /\ "barred" \in e.flags -> [d EXCEPT !.final = "FAILED"]
          [] e.node = "plan" /\ "barred" \notin e.flags -> [d EXCEPT !.plan = LangPlanOf(e)]
          [] e.node = "repair_observations" ->
               [d EXCEPT !.rounds = @ + 1, !.flags = @ \ {"validation_error"}]
          [] e.node = "revise_report" ->
               [d EXCEPT !.rounds = @ + 1,
                         !.flags = IF "persistent_verifier_failure" \in @ THEN @
                                   ELSE @ \ {"numeric_inconsistent"}]
          [] e.node = "create_review_items" ->
               [d EXCEPT !.requires_review = TRUE, !.final = "NEEDS_REVIEW"]
          [] e.node = "publish_report" -> [d EXCEPT !.final = "SUCCEEDED"]
          [] e.node = "fail_job" -> [d EXCEPT !.final = "FAILED"]
          [] OTHER -> d
  BY DEF LangNode
<1>3. /\ d.rounds \in Nat /\ d.flags \in SUBSET Flags /\ d.plan \in EnvelopePlans
      /\ d.requires_review \in BOOLEAN /\ LangPlanOf(e) \in EnvelopePlans
  BY <1>1, FieldsOfEnvelope, LangPlanIs
<1> HIDE DEF d
<1>4. CASE e.node = "plan" /\ "barred" \in e.flags
  <2>1. LangNode(e) = [d EXCEPT !.final = "FAILED"]
    BY <1>2, <1>4
  <2>2. QED
    BY <1>1, <1>4, <2>1 DEF Writes, Envelope
<1>5. CASE e.node = "plan" /\ "barred" \notin e.flags
  <2>1. PICK p \in EnvelopePlans : p = LangPlanOf(e)
    BY <1>3
  <2>2. LangNode(e) = [d EXCEPT !.plan = p]
    BY <1>2, <1>5, <2>1
  <2>3. LangNode(e) \in Envelope
    BY <1>1, <2>2 DEF Envelope, EnvelopePlans
  <2>4. QED
    BY <1>1, <1>5, <2>1, <2>2, <2>3 DEF Writes, Envelope
<1>6. CASE e.node = "repair_observations"
  <2>1. PICK m \in Nat : m = d.rounds + 1
    BY <1>3
  <2>2. PICK fs \in SUBSET Flags : fs = d.flags \ {"validation_error"}
    BY <1>3
  <2>3. LangNode(e) = [d EXCEPT !.rounds = m, !.flags = fs]
    BY <1>2, <1>6, <2>1, <2>2
  <2>4. QED
    BY <1>1, <1>6, <2>1, <2>2, <2>3 DEF Writes, Envelope
<1>7. CASE e.node = "revise_report"
  <2>1. PICK m \in Nat : m = d.rounds + 1
    BY <1>3
  <2>2. PICK fs \in SUBSET Flags :
          fs = IF "persistent_verifier_failure" \in d.flags THEN d.flags
               ELSE d.flags \ {"numeric_inconsistent"}
    BY <1>3
  <2>3. LangNode(e) = [d EXCEPT !.rounds = m, !.flags = fs]
    BY <1>2, <1>7, <2>1, <2>2
  <2>4. QED
    BY <1>1, <1>7, <2>1, <2>2, <2>3 DEF Writes, Envelope
<1>8. CASE e.node = "create_review_items"
  <2>1. LangNode(e) = [d EXCEPT !.requires_review = TRUE, !.final = "NEEDS_REVIEW"]
    BY <1>2, <1>8
  <2>2. QED
    BY <1>1, <1>8, <2>1 DEF Writes, Envelope
<1>9. CASE e.node = "publish_report" \/ e.node = "fail_job"
  <2>1. LangNode(e) =
          [d EXCEPT !.final = IF e.node = "publish_report" THEN "SUCCEEDED" ELSE "FAILED"]
    BY <1>2, <1>9
  <2>2. QED
    BY <1>1, <1>3, <1>9, <2>1 DEF Writes, Envelope
<1>10. CASE e.node \notin {"plan", "repair_observations", "revise_report",
                           "create_review_items", "publish_report", "fail_job"}
  <2>1. LangNode(e) = d
    BY <1>2, <1>10
  <2>2. QED
    BY <1>1, <1>3, <1>10, <2>1 DEF Writes
<1>11. QED
  BY <1>4, <1>5, <1>6, <1>7, <1>8, <1>9, <1>10

\* A superstep writes, and then follows the edge.
LEMMA StepIs ==
  ASSUME NEW e \in Envelope, e.node # "END", NEW d, d = LangNode(e), NEW next \in LangNodes,
         LangEdge(d) = next
  PROVE  /\ LangStep(e) \in Envelope /\ LangStep(e).node = next
         /\ LangStep(e).done = d.done /\ LangStep(e).rounds = d.rounds
         /\ LangStep(e).plan = d.plan /\ LangStep(e).requires_review = d.requires_review
         /\ LangStep(e).final = d.final /\ LangStep(e).flags = d.flags
<1>1. d \in Envelope
  BY NodeIs DEF Writes
<1>2. LangStep(e) = [d EXCEPT !.node = next]
  BY DEF LangStep
<1>3. QED
  BY <1>1, <1>2 DEF Envelope

\* The graph depends on the job, the flags and the limits, which never change.
LEMMA GraphIsFixed ==
  ASSUME UNCHANGED <<mode, request, limits>>, NEW e
  PROVE  LangStep(e)' = LangStep(e) /\ LangStart' = LangStart
<1>1. LangNode(e)' = LangNode(e)
  BY DEF LangNode, LangPlanOf
<1>2. ASSUME NEW d PROVE LangEdge(d)' = LangEdge(d)
  BY DEF LangEdge, AfterPlan, AfterValidation, AfterVerification, LangRoundsLeft
<1>3. LangEdge(LangNode(e))' = LangEdge(LangNode(e))
  BY <1>1, <1>2
<1>4. QED
  BY <1>1, <1>3 DEF LangStep, LangStart

-----------------------------------------------------------------------------
(* Step by step                                                            *)

\* Runs of LangGraph: the n-th envelope is the one after n supersteps.
Supersteps(g) ==
  g[0] = LangStart /\ \A n \in 1 .. RecursionLimit : g[n] = LangStep(g[n - 1])

InLang(n) == IF n \in Plans THEN "plan" ELSE n

SamePlan(e) == mode # "structured" => e.plan = state.plan

\* Both are about to execute the same node, knowing the same.
Matches(e) ==
  /\ e \in Envelope /\ e.node = InLang(state.node) /\ e.flags = context
  /\ e.rounds = state.rounds /\ ~e.requires_review /\ SameWay(state.done, e.done)
  /\ SamePlan(e)
  /\ state.node # "fail_job" => e.final = "none"
  /\ state.node \in Plans => state.node = RouteCapability

\* Both have ended, in the same way.
EndsAlike(e) ==
  /\ e \in Envelope /\ e.node = "END" /\ e.final = state.final /\ e.rounds = state.rounds
  /\ e.requires_review = state.requires_review /\ SameWay(state.done, e.done)
  /\ SamePlan(e)

LEMMA LangNames ==
  ASSUME NEW n \in Nodes
  PROVE  InLang(n) \in LangNodes /\ InLang(n) # "END" /\ n # "plan"
BY DEF InLang, LangNodes, Nodes, Plans, Looks

LEMMA WaysStaySame ==
  ASSUME NEW done, NEW other, SameWay(done, other), NEW n \in Nodes
  PROVE  SameWay(done \cup {n}, other \cup {InLang(n)})
<1>1. n # "plan"
  BY LangNames
<1>2. CASE n \in Plans
  BY <1>1, <1>2 DEF SameWay, InLang
<1>3. CASE n \notin Plans
  BY <1>1, <1>3 DEF SameWay, InLang
<1>4. QED
  BY <1>2, <1>3

\* The loop goes on from n where the superstep does.
LEMMA Together ==
  ASSUME GraphInv, NEW n \in Nodes, NEW next \in Nodes, Starts(n), Goes(n, next),
         NEW e, Matches(e), NEW d, d = LangNode(e), Writes(e, d), LangEdge(d) = InLang(next),
         d.rounds = state'.rounds, d.flags = context', mode # "structured" => d.plan = state'.plan,
         n # "create_review_items", next # "fail_job" => d.final = "none",
         next \in Plans => next = RouteCapability',
         NEW x, x = LangStep(e)
  PROVE  Matches(x)'
<1>1. /\ e \in Envelope /\ e.node = InLang(n) /\ ~e.requires_review
      /\ SameWay(state.done, e.done)
  BY DEF Matches, Starts
<1>2. InLang(n) # "END" /\ InLang(next) \in LangNodes
  BY LangNames
<1>3. /\ x \in Envelope /\ x.node = InLang(next) /\ x.done = d.done /\ x.rounds = d.rounds
      /\ x.plan = d.plan /\ x.requires_review = d.requires_review
      /\ x.final = d.final /\ x.flags = d.flags
  BY <1>1, <1>2, StepIs
<1>4. x.done = e.done \cup {InLang(n)} /\ ~x.requires_review
  <2>1. e.node # "create_review_items"
    BY <1>1 DEF InLang, Plans
  <2>2. QED
    BY <1>1, <1>3, <2>1 DEF Writes
<1>5. /\ state'.node = next /\ state'.done = state.done \cup {n} /\ mode' = mode
  BY DEF Goes
<1>6. SameWay(state'.done, x.done)
  BY <1>1, <1>4, <1>5, WaysStaySame
<1>7. SamePlan(x)'
  BY <1>3, <1>5 DEF SamePlan
<1>8. QED
  BY <1>3, <1>4, <1>5, <1>6, <1>7 DEF Matches

\* What both know at a node.
LEMMA BothAt ==
  ASSUME GraphInv, NEW n \in Nodes, Starts(n), NEW e, Matches(e),
         "persistent_verifier_failure" \notin request
  PROVE  /\ e \in Envelope /\ e.node = InLang(n) /\ e.node # "END" /\ e.flags = context
         /\ e.rounds = state.rounds /\ ~e.requires_review /\ state.node = n
         /\ Writes(e, LangNode(e)) /\ TypeOK
         /\ "persistent_verifier_failure" \notin e.flags
         /\ SamePlan(e) /\ (n # "fail_job" => e.final = "none")
         /\ n \in Plans => n = RouteCapability
<1>1. context \subseteq request /\ TypeOK /\ state.node = n
  BY AtNode
<1>2. e \in Envelope /\ e.node = InLang(n)
  BY <1>1 DEF Matches
<1>3. e.node # "END"
  BY <1>2, LangNames
<1>4. Writes(e, LangNode(e))
  BY <1>2, <1>3, NodeIs
<1>5. QED
  BY <1>1, <1>2, <1>3, <1>4 DEF Matches

\* A node that keeps the plan, the rounds and the context.
LEMMA QuietTogether ==
  ASSUME GraphInv, NEW n \in Nodes, NEW next \in Nodes, Starts(n), Goes(n, next), Keeps,
         context' = context, NEW e, Matches(e),
         "persistent_verifier_failure" \notin request,
         n \notin Plans, n \notin {"repair_observations", "revise_report"},
         n \notin {"create_review_items", "publish_report", "fail_job"},
         LangEdge(LangNode(e)) = InLang(next),
         next \in Plans => next = RouteCapability,
         NEW x, x = LangStep(e)
  PROVE  Matches(x)'
<1> DEFINE d == LangNode(e)
<1>1. /\ e \in Envelope /\ e.node = InLang(n) /\ e.flags = context /\ e.rounds = state.rounds
      /\ Writes(e, d) /\ "persistent_verifier_failure" \notin e.flags /\ SamePlan(e)
      /\ e.final = "none"
  BY BothAt
<1>2. e.node = n /\ n # "plan"
  BY <1>1, LangNames DEF InLang
<1> HIDE DEF d
<1>3. /\ d.rounds = e.rounds /\ d.plan = e.plan /\ d.final = e.final /\ d.flags = e.flags
  BY <1>1, <1>2 DEF Writes
<1>4. /\ d.rounds = state'.rounds /\ d.flags = context'
      /\ mode # "structured" => d.plan = state'.plan
  BY <1>1, <1>3 DEF Keeps, SamePlan
<1>5. RouteCapability' = RouteCapability
  BY DEF RouteCapability, Has, Goes
<1>6. LangEdge(d) = InLang(next) /\ d = LangNode(e)
  BY DEF d
<1>7. QED
  BY <1>1, <1>3, <1>4, <1>5, <1>6, Together

LEMMA PlainTogether ==
  ASSUME GraphInv, PlainNode, NEW e, Matches(e),
         "persistent_verifier_failure" \notin request, NEW x, x = LangStep(e)
  PROVE  Matches(x)'
<1>1. PICK n \in DOMAIN Plain :
        /\ Starts(n) /\ Continue(Completed(n), Plain[n]) /\ context' = context
  BY DEF PlainNode
<1>2. /\ n \in {"initialize", "transcribe_audio", "ingest_transcript", "compute_metrics",
                "narrate_report"}
      /\ Plain[n] \in {"inspect_assets", "observe_media", "narrate_report", "verify_claims"}
  BY <1>1 DEF Plain
<1>3. n \in Nodes /\ Plain[n] \in Nodes /\ n \notin Plans /\ Plain[n] \notin Plans
  BY <1>2 DEF Nodes, Looks, Plans
<1>4. TypeOK
  BY DEF GraphInv
<1>5. Goes(n, Plain[n]) /\ Keeps
  BY <1>1, <1>3, <1>4, ContinueGoes
<1>6. e.node = n /\ LangNode(e).node = n
  BY <1>1, <1>3, BothAt DEF InLang, Writes
<1>7. LangEdge(LangNode(e)) = InLang(Plain[n])
  <2>1. InLang(Plain[n]) = Plain[n]
    BY <1>3 DEF InLang
  <2>2. PICK d : d = LangNode(e)
    OBVIOUS
  <2>3. d.node = n /\ n \in DOMAIN Plain
    BY <1>1, <1>6, <2>2
  <2>4. LangEdge(d) = Plain[d.node]
    BY <2>3 DEF LangEdge, Looks, Plain
  <2>5. QED
    BY <2>1, <2>2, <2>3, <2>4
<1>8. QED
  BY <1>1, <1>2, <1>3, <1>5, <1>7, QuietTogether

LEMMA InspectAssetsTogether ==
  ASSUME GraphInv, InspectAssets, NEW e, Matches(e),
         "persistent_verifier_failure" \notin request, NEW x, x = LangStep(e)
  PROVE  Matches(x)'
<1> DEFINE n == "inspect_assets"
           d == LangNode(e)
<1>1. Starts(n) /\ context' = context
  BY DEF InspectAssets
<1>2. n \in Nodes /\ n \notin Plans /\ "capability_router" \in Nodes /\ "fail_job" \in Nodes
      /\ "capability_router" \notin Plans /\ "fail_job" \notin Plans
  BY DEF Nodes, Plans
<1>3. /\ e.node = n /\ e.flags = context /\ e.rounds = state.rounds /\ Writes(e, d) /\ TypeOK
      /\ "persistent_verifier_failure" \notin e.flags /\ SamePlan(e)
  BY <1>1, <1>2, BothAt DEF InLang
<1> HIDE DEF d
<1>4. /\ d.node = n /\ d.rounds = e.rounds /\ d.plan = e.plan /\ d.flags = e.flags
  BY <1>3 DEF Writes
<1>5. LangEdge(d) = IF "asset_valid" \in d.flags THEN "capability_router" ELSE "fail_job"
  BY <1>4 DEF LangEdge, Plain, Looks
<1>6. CASE Has("asset_valid")
  <2>1. Goes(n, "capability_router") /\ Keeps
    BY <1>2, <1>3, <1>6, ContinueGoes DEF InspectAssets
  <2>2. LangEdge(LangNode(e)) = InLang("capability_router")
    BY <1>2, <1>3, <1>4, <1>5, <1>6 DEF Has, InLang, d
  <2>3. QED
    BY <1>1, <1>2, <2>1, <2>2, QuietTogether
<1>7. CASE ~Has("asset_valid")
  <2>1. Goes(n, "fail_job") /\ Keeps
    BY <1>2, <1>3, <1>7, FailureGoes DEF InspectAssets
  <2>2. LangEdge(d) = InLang("fail_job")
    BY <1>2, <1>3, <1>4, <1>5, <1>7 DEF Has, InLang
  <2>3. /\ d.rounds = state'.rounds /\ d.flags = context'
        /\ mode # "structured" => d.plan = state'.plan
    BY <1>1, <1>3, <1>4, <2>1 DEF Keeps, SamePlan
  <2>4. d = LangNode(e)
    BY DEF d
  <2>5. QED
    BY <1>1, <1>2, <1>3, <2>1, <2>2, <2>3, <2>4, Together
<1>8. QED
  BY <1>6, <1>7

\* The two route alike where they know the same.
LEMMA RoutesAlike ==
  ASSUME NEW d, d.flags = context, d.rounds = state.rounds
  PROVE  AfterValidation(d) = RouteValidation /\ AfterVerification(d) = RouteVerification
<1>1. LangRoundsLeft(d) = RoundsLeft
  BY DEF LangRoundsLeft, RoundsLeft
<1>2. AfterValidation(d) = RouteValidation
  BY <1>1 DEF AfterValidation, RouteValidation, Has
<1>3. AfterVerification(d) = RouteVerification
  <2>1. CASE "numeric_inconsistent" \notin context
    BY <2>1 DEF AfterVerification, RouteVerification, Has
  <2>2. CASE "numeric_inconsistent" \in context /\ RoundsLeft
    BY <1>1, <2>2 DEF AfterVerification, RouteVerification, Has
  <2>3. CASE "numeric_inconsistent" \in context /\ ~RoundsLeft
    BY <1>1, <2>3 DEF AfterVerification, RouteVerification, Has
  <2>4. QED
    BY <2>1, <2>2, <2>3
<1>4. QED
  BY <1>2, <1>3

LEMMA RoutedTogether ==
  ASSUME GraphInv, RoutedNode, NEW e, Matches(e),
         "persistent_verifier_failure" \notin request, NEW x, x = LangStep(e)
  PROVE  Matches(x)'
<1>1. PICK n \in Nodes, next \in Nodes :
        /\ Starts(n) /\ Continue(Completed(n), next)
        /\ \/ n = "capability_router" /\ next = RouteCapability
           \/ n = "validate_observations" /\ next = RouteValidation
           \/ n = "verify_claims" /\ next = RouteVerification
  <2>1. RouteCapability \in Nodes /\ RouteValidation \in Nodes /\ RouteVerification \in Nodes
    BY DEF RouteCapability, RouteValidation, RouteVerification, Nodes, Plans
  <2>2. {"capability_router", "validate_observations", "verify_claims"} \subseteq Nodes
    BY DEF Nodes
  <2>3. QED
    BY <2>1, <2>2 DEF RoutedNode
<1>2. context' = context /\ TypeOK
  BY DEF RoutedNode, GraphInv
<1>3. Goes(n, next) /\ Keeps
  BY <1>1, <1>2, ContinueGoes
<1>4. n \notin Plans /\ InLang(n) = n
  BY <1>1 DEF Plans, InLang
<1> DEFINE d == LangNode(e)
<1>5. /\ e.node = n /\ e.flags = context /\ e.rounds = state.rounds /\ Writes(e, d)
      /\ "persistent_verifier_failure" \notin e.flags
  BY <1>1, <1>4, BothAt
<1> HIDE DEF d
<1>6. d.node = n /\ d.flags = context /\ d.rounds = state.rounds
  BY <1>1, <1>5 DEF Writes
<1>7. /\ LangEdge(d) = InLang(next)
      /\ next \in Plans => next = RouteCapability
  <2>1. CASE n = "capability_router" /\ next = RouteCapability
    <3>1. next \in Plans
      BY <2>1 DEF RouteCapability, Plans
    <3>2. LangEdge(d) = "plan"
      BY <1>6, <2>1 DEF LangEdge, Plain, Looks
    <3>3. QED
      BY <2>1, <3>1, <3>2 DEF InLang
  <2>2. CASE n = "validate_observations" /\ next = RouteValidation
    <3>1. LangEdge(d) = AfterValidation(d)
      BY <1>6, <2>2 DEF LangEdge, Plain, Looks
    <3>2. next \notin Plans
      BY <2>2 DEF RouteValidation, Plans
    <3>3. LangEdge(d) = next
      BY <1>6, <2>2, <3>1, RoutesAlike
    <3>4. QED
      BY <3>2, <3>3 DEF InLang
  <2>3. CASE n = "verify_claims" /\ next = RouteVerification
    <3>1. LangEdge(d) = AfterVerification(d)
      BY <1>6, <2>3 DEF LangEdge, Plain, Looks
    <3>2. next \notin Plans
      BY <2>3 DEF RouteVerification, Plans
    <3>3. LangEdge(d) = next
      BY <1>6, <2>3, <3>1, RoutesAlike
    <3>4. QED
      BY <3>2, <3>3 DEF InLang
  <2>4. QED
    BY <1>1, <2>1, <2>2, <2>3
<1>8. LangEdge(LangNode(e)) = InLang(next)
  BY <1>7 DEF d
<1>9. QED
  BY <1>1, <1>2, <1>3, <1>4, <1>7, <1>8, QuietTogether

LEMMA ObserveTogether ==
  ASSUME GraphInv, Observe, NEW e, Matches(e),
         "persistent_verifier_failure" \notin request, NEW x, x = LangStep(e)
  PROVE  Matches(x)'
<1> DEFINE next == "validate_observations"
<1>1. PICK n \in Looks : Starts(n) /\ Continue(Completed(n), next)
  BY DEF Observe
<1>2. context' = context /\ TypeOK
  BY DEF Observe, GraphInv
<1>3. n \in Nodes /\ next \in Nodes /\ n \notin Plans /\ next \notin Plans
  BY DEF Nodes, Looks, Plans
<1>4. Goes(n, next) /\ Keeps
  BY <1>1, <1>2, <1>3, ContinueGoes
<1> DEFINE d == LangNode(e)
<1>5. e.node = n /\ d.node = n
  BY <1>1, <1>3, BothAt DEF InLang, Writes
<1> HIDE DEF d
<1>6. LangEdge(d) = next
  BY <1>5 DEF LangEdge, Looks, Plain
<1>7. LangEdge(LangNode(e)) = InLang(next)
  BY <1>3, <1>6 DEF InLang, d
<1>8. n \notin {"repair_observations", "revise_report"}
      /\ n \notin {"create_review_items", "publish_report", "fail_job"}
  BY DEF Looks
<1>9. QED
  BY <1>1, <1>2, <1>3, <1>4, <1>7, <1>8, QuietTogether
\* Both accept the same plan and go on to the same node from it.
LEMMA PlansAlike ==
  ASSUME GraphInv, NEW n \in Plans, state.node = n, n = RouteCapability,
         NEW e, e.flags = context, NEW d, d.flags = context, d.final = "none"
  PROVE  /\ AfterPlan(d) = RoutePlan
         /\ mode # "structured" => LangPlanOf(e) = PlanOf(n)
<1>1. mode \in {"image", "video", "structured"}
  BY InputsAssumption DEF GraphInv, TypeOK
<1>2. CASE "transcript_only" \in context
  <2>1. AfterPlan(d) = RoutePlan
    BY <1>2 DEF AfterPlan, RoutePlan, Has
  <2>2. LangPlanOf(e) = PlanOf(n)
    BY <1>2 DEF LangPlanOf, PlanOf, Has
  <2>3. QED
    BY <2>1, <2>2
<1>3. CASE "transcript_only" \notin context /\ mode = "image"
  <2>1. n = "plan_image_analysis"
    BY <1>3 DEF RouteCapability
  <2>2. AfterPlan(d) = RoutePlan
    BY <1>3, <2>1 DEF AfterPlan, RoutePlan, Has
  <2>3. LangPlanOf(e) = PlanOf(n)
    BY <1>3, <2>1 DEF LangPlanOf, PlanOf, Has
  <2>4. QED
    BY <2>2, <2>3
<1>4. CASE "transcript_only" \notin context /\ mode # "image"
  <2>1. n = "plan_video_analysis"
    BY <1>4 DEF RouteCapability, Has
  <2>2. AfterPlan(d) = RoutePlan
    <3>1. CASE mode = "video" /\ "has_audio" \in context
      BY <1>4, <2>1, <3>1 DEF AfterPlan, RoutePlan, Has
    <3>2. CASE ~(mode = "video" /\ "has_audio" \in context)
      BY <1>4, <2>1, <3>2 DEF AfterPlan, RoutePlan, Has
    <3>3. QED
      BY <3>1, <3>2
  <2>3. mode = "video" => LangPlanOf(e) = PlanOf(n)
    <3>1. CASE mode = "video" /\ "has_audio" \in context
      BY <1>4, <2>1, <3>1 DEF LangPlanOf, PlanOf, Has
    <3>2. CASE mode = "video" /\ "has_audio" \notin context
      BY <1>4, <2>1, <3>2 DEF LangPlanOf, PlanOf, Has
    <3>3. QED
      BY <3>1, <3>2
  <2>4. QED
    BY <1>1, <1>4, <2>2, <2>3
<1>5. QED
  BY <1>2, <1>3, <1>4

LEMMA PlanTogether ==
  ASSUME GraphInv, Plan, NEW e, Matches(e),
         "persistent_verifier_failure" \notin request, NEW x, x = LangStep(e)
  PROVE  Matches(x)'
<1>1. PICK n \in Plans :
        /\ Starts(n)
        /\ IF Has("barred")
           THEN Continue([Completed(n) EXCEPT !.final = "FAILED"], "fail_job")
           ELSE Continue([Completed(n) EXCEPT !.plan = PlanOf(n)], RoutePlan)
  BY DEF Plan
<1>2. context' = context /\ TypeOK
  BY DEF Plan, GraphInv
<1>3. n \in Nodes /\ "fail_job" \in Nodes /\ n # "create_review_items" /\ InLang(n) = "plan"
  BY DEF Nodes, Plans, InLang
<1> DEFINE d == LangNode(e)
<1>4. /\ e.node = "plan" /\ e.flags = context /\ e.rounds = state.rounds /\ Writes(e, d)
      /\ "persistent_verifier_failure" \notin e.flags /\ SamePlan(e) /\ state.node = n
      /\ e.final = "none" /\ n = RouteCapability
  BY <1>1, <1>3, BothAt DEF Plans
<1>5. d = LangNode(e)
  OBVIOUS
<1> HIDE DEF d
<1>6. d.node = "plan" /\ d.flags = context /\ d.rounds = state.rounds
  BY <1>4 DEF Writes
<1>7. LangEdge(d) = AfterPlan(d)
  BY <1>6 DEF LangEdge, Plain, Looks
<1>8. CASE Has("barred")
  <2>1. Goes(n, "fail_job") /\ Keeps
    BY <1>1, <1>2, <1>3, <1>8, FailureGoes
  <2>2. d.final = "FAILED" /\ d.plan = e.plan
    BY <1>4, <1>8 DEF Writes, Has
  <2>3. LangEdge(d) = InLang("fail_job")
    BY <1>7, <2>2 DEF AfterPlan, InLang, Plans
  <2>4. /\ d.rounds = state'.rounds /\ d.flags = context'
        /\ mode # "structured" => d.plan = state'.plan
    BY <1>2, <1>4, <1>6, <2>1, <2>2 DEF Keeps, SamePlan
  <2>5. "fail_job" \notin Plans
    BY DEF Plans
  <2>6. QED
    BY <1>1, <1>3, <1>4, <1>5, <2>1, <2>3, <2>4, <2>5, Together
<1>9. CASE ~Has("barred")
  <2> DEFINE next == RoutePlan
             p == PlanOf(n)
  <2>1. Continue([Completed(n) EXCEPT !.plan = p], next)
    BY <1>1, <1>9
  <2>2. p \in SUBSET (Nodes \cup {"inspect_media", "extract_frames"})
    BY DEF PlanOf, Nodes, Looks
  <2>3. next \in {"ingest_transcript", "observe_image", "observe_media", "transcribe_audio"}
    BY <1>1, PlanLeads
  <2>4. d.final = "none" /\ d.plan = LangPlanOf(e)
    BY <1>4, <1>9 DEF Writes, Has
  <2>5. AfterPlan(d) = next /\ (mode # "structured" => d.plan = p)
    BY <1>4, <1>6, <2>4, PlansAlike
  <2> HIDE DEF next, p
  <2>6. next \in Nodes /\ next \notin Plans
    BY <2>3 DEF Nodes, Looks, Plans
  <2>7. Goes(n, next) /\ state'.plan = p /\ state'.rounds = state.rounds
    BY <1>2, <1>3, <2>1, <2>2, <2>6, PlanGoes
  <2>8. LangEdge(d) = InLang(next)
    BY <1>7, <2>5, <2>6 DEF InLang
  <2>9. /\ d.rounds = state'.rounds /\ d.flags = context'
        /\ mode # "structured" => d.plan = state'.plan
    BY <1>2, <1>6, <2>5, <2>7
  <2>10. QED
    BY <1>1, <1>3, <1>4, <1>5, <2>4, <2>6, <2>7, <2>8, <2>9, Together
<1>10. QED
  BY <1>8, <1>9

\* A repair or a revision.
LEMMA RepairTogether ==
  ASSUME GraphInv, Repair \/ Revise, NEW e, Matches(e),
         "persistent_verifier_failure" \notin request, NEW x, x = LangStep(e)
  PROVE  Matches(x)'
<1>1. PICK n \in {"repair_observations", "revise_report"},
           next \in {"validate_observations", "narrate_report"},
           flag \in {"validation_error", "numeric_inconsistent"} :
        /\ Starts(n) /\ Save(state')
        /\ state' = [Completed(n) EXCEPT !.rounds = @ + 1, !.node = next]
        /\ usage' = [steps |-> usage.steps + 1, rounds |-> usage.rounds + 1]
        /\ context' = context \ {flag}
        /\ UNCHANGED <<mode, request, limits, phase, decision, looks, crashes>>
        /\ \/ /\ n = "repair_observations" /\ next = "validate_observations"
              /\ flag = "validation_error"
           \/ /\ n = "revise_report" /\ next = "narrate_report"
              /\ flag = "numeric_inconsistent"
  <2>1. CASE Repair
    BY <2>1 DEF Repair
  <2>2. CASE Revise
    BY <2>2 DEF Revise
  <2>3. QED
    BY <2>1, <2>2
<1>2. n \in Nodes /\ next \in Nodes /\ n \notin Plans /\ next \notin Plans
  BY DEF Nodes, Plans
<1> DEFINE d == LangNode(e)
<1>3. /\ e.node = n /\ e.flags = context /\ e.rounds = state.rounds /\ Writes(e, d)
      /\ "persistent_verifier_failure" \notin e.flags /\ SamePlan(e) /\ TypeOK
      /\ e.final = "none"
  BY <1>1, <1>2, BothAt DEF InLang
<1>4. d = LangNode(e)
  OBVIOUS
<1> HIDE DEF d
<1>5. /\ d.node = n /\ d.flags = context \ {flag} /\ d.rounds = state.rounds + 1
      /\ d.plan = e.plan /\ d.final = "none"
  BY <1>1, <1>3 DEF Writes
<1>6. Goes(n, next) /\ state'.plan = state.plan /\ state'.rounds = state.rounds + 1
  BY <1>1, <1>2, <1>3, RepairIs
<1>7. LangEdge(d) = InLang(next)
  BY <1>1, <1>2, <1>5 DEF LangEdge, InLang, Plain, Looks
<1>8. /\ d.rounds = state'.rounds /\ d.flags = context'
      /\ mode # "structured" => d.plan = state'.plan
  BY <1>1, <1>3, <1>5, <1>6 DEF SamePlan
<1>9. QED
  BY <1>1, <1>2, <1>3, <1>4, <1>5, <1>6, <1>7, <1>8, Together
\* The last node of a call.
LEMMA ReturnTogether ==
  ASSUME GraphInv, NEW n \in Nodes, Starts(n), NEW b \in BOOLEAN,
         NEW f \in {"SUCCEEDED", "NEEDS_REVIEW", "FAILED"},
         state'.done = state.done \cup {n}, state'.plan = state.plan,
         state'.rounds = state.rounds, state'.requires_review = b, state'.final = f,
         mode' = mode,
         \/ n = "create_review_items" /\ b = TRUE /\ f = "NEEDS_REVIEW"
         \/ n = "publish_report" /\ b = FALSE /\ f = "SUCCEEDED"
         \/ n = "fail_job" /\ b = FALSE /\ f = "FAILED",
         NEW e, Matches(e), "persistent_verifier_failure" \notin request,
         NEW x, x = LangStep(e)
  PROVE  EndsAlike(x)'
<1> DEFINE d == LangNode(e)
<1>1. n \notin Plans /\ InLang(n) = n
  BY DEF InLang, Plans
<1>2. /\ e \in Envelope /\ e.node = n /\ e.node # "END" /\ e.rounds = state.rounds
      /\ ~e.requires_review /\ Writes(e, d) /\ SamePlan(e)
  BY <1>1, BothAt
<1>3. SameWay(state.done, e.done) /\ e.requires_review \in BOOLEAN
  BY <1>2, FieldsOfEnvelope DEF Matches
<1>4. d = LangNode(e)
  OBVIOUS
<1> HIDE DEF d
<1>5. /\ d.node = n /\ d.done = e.done \cup {n} /\ d.rounds = e.rounds /\ d.plan = e.plan
      /\ d.requires_review = b /\ d.final = f
  BY <1>2, <1>3 DEF Writes
<1>6. LangEdge(d) = "END"
  BY <1>5 DEF LangEdge, Plain, Looks
<1>7. "END" \in LangNodes
  BY DEF LangNodes
<1>8. /\ x \in Envelope /\ x.node = "END" /\ x.done = d.done /\ x.rounds = d.rounds
      /\ x.plan = d.plan /\ x.requires_review = d.requires_review /\ x.final = d.final
  BY <1>2, <1>4, <1>6, <1>7, StepIs
<1>9. SameWay(state'.done, x.done)
  <2>1. SameWay(state.done \cup {n}, e.done \cup {InLang(n)})
    BY <1>3, WaysStaySame
  <2>2. QED
    BY <1>1, <1>5, <1>8, <2>1
<1>10. SamePlan(x)'
  BY <1>2, <1>5, <1>8 DEF SamePlan
<1>11. QED
  BY <1>2, <1>5, <1>8, <1>9, <1>10 DEF EndsAlike

LEMMA EndsTogether ==
  ASSUME GraphInv, CreateReviewItems \/ PublishReport \/ FailJob, NEW e, Matches(e),
         "persistent_verifier_failure" \notin request, NEW x, x = LangStep(e)
  PROVE  EndsAlike(x)' /\ phase' = "ended" /\ usage'.steps = usage.steps + 1
<1>1. TypeOK /\ usage \in [steps : Nat, rounds : Nat] /\ state \in StateType
  BY DEF GraphInv, TypeOK
<1>2. PICK n \in {"create_review_items", "publish_report", "fail_job"}, s \in {state'} :
        /\ Starts(n) /\ Return(s)
        /\ n = "create_review_items" =>
             s = [Completed(n) EXCEPT !.requires_review = TRUE, !.final = "NEEDS_REVIEW"]
        /\ n = "publish_report" =>
             s = [Completed(n) EXCEPT !.final = IF state.requires_review THEN "NEEDS_REVIEW"
                                                ELSE "SUCCEEDED"]
        /\ n = "fail_job" => s = [Completed(n) EXCEPT !.final = "FAILED"]
  <2>1. CASE CreateReviewItems
    BY <2>1 DEF CreateReviewItems, Return
  <2>2. CASE PublishReport
    BY <2>2 DEF PublishReport, Return
  <2>3. CASE FailJob
    BY <2>3 DEF FailJob, Return
  <2>4. QED
    BY <2>1, <2>2, <2>3
<1>3. n \in Nodes
  BY DEF Nodes
<1>4. state.requires_review = FALSE
  <2>1. ~state.requires_review /\ state.requires_review \in BOOLEAN
    BY <1>1, <1>2, AtNode DEF StateType
  <2>2. QED
    BY <2>1
<1>5. state' = s /\ phase' = "ended" /\ mode' = mode /\ usage'.steps = usage.steps + 1
  BY <1>1, <1>2 DEF Return
<1> DEFINE c == Completed(n)
<1>6. /\ c \in StateType /\ c.done = state.done \cup {n}
      /\ c.requires_review = state.requires_review
      /\ c.plan = state.plan /\ c.rounds = state.rounds
  BY <1>1, <1>3, CompletedFields
<1>7. /\ n = "create_review_items" =>
           s = [c EXCEPT !.requires_review = TRUE, !.final = "NEEDS_REVIEW"]
      /\ n = "publish_report" => s = [c EXCEPT !.final = "SUCCEEDED"]
      /\ n = "fail_job" => s = [c EXCEPT !.final = "FAILED"]
  BY <1>2, <1>4
<1> HIDE DEF c
<1>8. PICK b \in BOOLEAN, f \in {"SUCCEEDED", "NEEDS_REVIEW", "FAILED"} :
        /\ s.done = c.done /\ s.plan = c.plan /\ s.rounds = c.rounds
        /\ s.requires_review = b /\ s.final = f
        /\ \/ n = "create_review_items" /\ b = TRUE /\ f = "NEEDS_REVIEW"
           \/ n = "publish_report" /\ b = FALSE /\ f = "SUCCEEDED"
           \/ n = "fail_job" /\ b = FALSE /\ f = "FAILED"
  <2>1. CASE n = "create_review_items"
    BY <1>6, <1>7, <2>1 DEF StateType
  <2>2. CASE n = "publish_report"
    BY <1>4, <1>6, <1>7, <2>2 DEF StateType
  <2>3. CASE n = "fail_job"
    BY <1>4, <1>6, <1>7, <2>3 DEF StateType
  <2>4. QED
    BY <2>1, <2>2, <2>3
<1>9. /\ state'.done = state.done \cup {n} /\ state'.plan = state.plan
      /\ state'.rounds = state.rounds /\ state'.requires_review = b /\ state'.final = f
  BY <1>5, <1>6, <1>8
<1>10. EndsAlike(x)'
  BY <1>2, <1>3, <1>5, <1>8, <1>9, ReturnTogether
<1>11. QED
  BY <1>5, <1>10

-----------------------------------------------------------------------------
(* The runs of LangGraph                                                   *)

\* As long as no reviewer and no interruption intervenes, the call has come as
\* far as LangGraph after as many supersteps, or was stopped by its budget.
Simulated ==
  decision = "none" /\ crashes = 0 /\ "persistent_verifier_failure" \notin request =>
    \A g : Supersteps(g) =>
      /\ phase = "running" => Matches(g[usage.steps])
      /\ phase = "ended" /\ state.final # "BUDGET_EXCEEDED" => EndsAlike(g[usage.steps])

EngineInv ==
  /\ GraphInv /\ usage.steps <= LongestWay
  /\ phase = "dead" => crashes > 0
  /\ Simulated

LEMMA SuperstepsStay ==
  ASSUME UNCHANGED <<mode, request, limits>>, NEW g, Supersteps(g)'
  PROVE  Supersteps(g)
<1>1. g[0] = LangStart
  BY GraphIsFixed DEF Supersteps
<1>2. ASSUME NEW n \in 1 .. RecursionLimit PROVE g[n] = LangStep(g[n - 1])
  <2>1. PICK e : e = g[n - 1]
    OBVIOUS
  <2>2. g[n] = LangStep(e)'
    BY <2>1 DEF Supersteps, RecursionLimit
  <2>3. QED
    BY <2>1, <2>2, GraphIsFixed
<1>3. QED
  BY <1>1, <1>2 DEF Supersteps

\* A running call has steps of the longest way left.
LEMMA StepsAreFew ==
  ASSUME GraphInv, phase = "running"
  PROVE  usage.steps \in Nat /\ usage.steps + 1 \in 1 .. LongestWay
<1>1. TypeOK /\ Paid
  BY DEF GraphInv
<1>2. usage.steps \in Nat /\ state.node \in Nodes
  BY <1>1 DEF TypeOK, StateType
<1>3. Left(state.node, RevisionLeft, RepairLeft) \in 1 .. LongestWay
  BY <1>2, LeftIsShort, AllowancesAre
<1>4. QED
  BY <1>1, <1>2, <1>3 DEF Paid, LongestWay

\* A step of the call is a superstep.
LEMMA NodeKeeps ==
  ASSUME EngineInv, GraphInv', phase = "running",
         UNCHANGED <<mode, request, limits, decision, crashes>>,
         usage'.steps = usage.steps + 1, phase' \in {"running", "ended"},
         \A e : \A x :
           Matches(e) /\ x = LangStep(e) /\ "persistent_verifier_failure" \notin request =>
             /\ phase' = "running" => Matches(x)'
             /\ phase' = "ended" => EndsAlike(x)'
  PROVE  EngineInv'
<1>1. usage.steps \in Nat /\ usage.steps + 1 \in 1 .. LongestWay
  BY StepsAreFew DEF EngineInv
<1>2. Simulated'
  <2> SUFFICES ASSUME decision = "none", crashes = 0,
                      "persistent_verifier_failure" \notin request,
                      NEW g, Supersteps(g)'
               PROVE  /\ phase' = "running" => Matches(g[usage.steps])'
                      /\ phase' = "ended" => EndsAlike(g[usage.steps])'
    BY DEF Simulated
  <2>1. Supersteps(g)
    BY SuperstepsStay
  <2>2. Matches(g[usage.steps])
    BY <2>1 DEF EngineInv, Simulated
  <2>3. g[usage.steps + 1] = LangStep(g[usage.steps])
    <3>1. usage.steps + 1 \in 1 .. RecursionLimit /\ (usage.steps + 1) - 1 = usage.steps
      BY <1>1 DEF RecursionLimit, LongestWay
    <3>2. QED
      BY <2>1, <3>1 DEF Supersteps
  <2>4. PICK e, x : e = g[usage.steps] /\ x = g[usage.steps + 1]
    OBVIOUS
  <2>5. /\ phase' = "running" => Matches(x)'
        /\ phase' = "ended" => EndsAlike(x)'
    BY <2>2, <2>3, <2>4
  <2>6. x = g[usage'.steps]
    BY <2>4
  <2>7. QED
    BY <2>5, <2>6
<1>3. usage'.steps <= LongestWay /\ phase' # "dead"
  BY <1>1 DEF LongestWay
<1>4. QED
  BY <1>2, <1>3 DEF EngineInv
\* What one step makes of the state in memory is a superstep of LangGraph.
LEMMA NodesKeep ==
  ASSUME EngineInv, PlainNode \/ InspectAssets \/ RoutedNode \/ Plan \/ Observe \/ Repair
                    \/ Revise \/ CreateReviewItems \/ PublishReport \/ FailJob,
         GraphInv'
  PROVE  EngineInv'
<1>1. GraphInv /\ usage \in [steps : Nat, rounds : Nat]
  BY DEF EngineInv, GraphInv, TypeOK
<1>2. CASE PlainNode \/ InspectAssets \/ RoutedNode \/ Plan \/ Observe \/ Repair \/ Revise
  <2>1. /\ phase = "running" /\ phase' = "running"
        /\ UNCHANGED <<mode, request, limits, decision, crashes>>
        /\ usage'.steps = usage.steps + 1
    <3>1. CASE PlainNode \/ InspectAssets
      BY <1>1, <3>1 DEF PlainNode, InspectAssets, Starts, Continue
    <3>2. CASE RoutedNode \/ Plan \/ Observe
      BY <1>1, <3>2 DEF RoutedNode, Plan, Observe, Starts, Continue
    <3>3. CASE Repair \/ Revise
      BY <1>1, <3>3 DEF Repair, Revise, Starts
    <3>4. QED
      BY <1>2, <3>1, <3>2, <3>3
  <2>2. ASSUME NEW e, NEW x, Matches(e), x = LangStep(e),
               "persistent_verifier_failure" \notin request
        PROVE  Matches(x)'
    <3>1. CASE PlainNode \/ InspectAssets \/ RoutedNode \/ Plan
      BY <1>1, <2>2, <3>1, PlainTogether, InspectAssetsTogether, RoutedTogether, PlanTogether
    <3>2. CASE Observe \/ Repair \/ Revise
      BY <1>1, <2>2, <3>2, ObserveTogether, RepairTogether
    <3>3. QED
      BY <1>2, <3>1, <3>2
  <2>3. QED
    BY <2>1, <2>2, NodeKeeps
<1>3. CASE CreateReviewItems \/ PublishReport \/ FailJob
  <2>1. /\ phase = "running" /\ phase' = "ended"
        /\ UNCHANGED <<mode, request, limits, decision, crashes>>
        /\ usage'.steps = usage.steps + 1
    BY <1>1, <1>3 DEF CreateReviewItems, PublishReport, FailJob, Starts, Return
  <2>2. ASSUME NEW e, NEW x, Matches(e), x = LangStep(e),
               "persistent_verifier_failure" \notin request
        PROVE  EndsAlike(x)'
    BY <1>1, <1>3, <2>2, EndsTogether
  <2>3. QED
    BY <2>1, <2>2, NodeKeeps
<1>4. QED
  BY <1>2, <1>3

LEMMA OutOfBudgetStays == ASSUME EngineInv, OutOfBudget, GraphInv' PROVE EngineInv'
<1>1. phase' = "ended" /\ usage' = usage
  BY DEF OutOfBudget
<1>2. state'.final = "BUDGET_EXCEEDED"
  <2>1. TypeOK /\ state.node \in Nodes
    BY DEF EngineInv, GraphInv, TypeOK, StateType
  <2>2. Completed(state.node) \in StateType
    BY <2>1, CompletedFields
  <2>3. QED
    BY <2>2 DEF OutOfBudget, StateType
<1>3. QED
  BY <1>1, <1>2 DEF EngineInv, Simulated

LEMMA RunStarts == ASSUME EngineInv, Run, GraphInv' PROVE EngineInv'
<1>1. /\ phase' = "running" /\ state' = Fresh /\ context' = request
      /\ usage' = [steps |-> 0, rounds |-> 0] /\ request' = request
  BY DEF Run
<1>2. request \subseteq Flags
  BY InputsAssumption DEF EngineInv, GraphInv, TypeOK
<1>3. Matches(LangStart)'
  <2>1. LangStart' = LangStart
    BY <1>1 DEF LangStart
  <2>2. /\ LangStart \in Envelope /\ LangStart.node = "initialize" /\ LangStart.done = {}
        /\ LangStart.rounds = 0 /\ LangStart.plan = {} /\ ~LangStart.requires_review
        /\ LangStart.final = "none" /\ LangStart.flags = request
    BY <1>2 DEF LangStart, Envelope, LangNodes, Nodes, Plans
  <2> DEFINE e == LangStart
  <2> HIDE DEF e
  <2>3. e' = e
    BY <2>1 DEF e
  <2>4. /\ Fresh.node = "initialize" /\ Fresh.done = {} /\ Fresh.rounds = 0
        /\ Fresh.plan = {} /\ Fresh.final = "none"
    BY DEF Fresh
  <2>5. "initialize" \notin Plans /\ SameWay({}, {})
    BY DEF Plans, SameWay
  <2>6. Matches(e)'
    BY <1>1, <2>2, <2>3, <2>4, <2>5 DEF Matches, SamePlan, InLang, e
  <2>7. QED
    BY <2>6 DEF e
<1>4. Simulated'
  BY <1>1, <1>3 DEF Simulated, Supersteps
<1>5. QED
  BY <1>1, <1>4 DEF EngineInv, LongestWay

LEMMA CallsStay ==
  ASSUME EngineInv, Resume \/ Crash \/ Recover, GraphInv'
  PROVE  EngineInv'
<1>1. crashes \in Nat /\ usage.steps <= LongestWay
  BY DEF EngineInv, GraphInv, TypeOK
<1>2. CASE Resume
  <2>1. PICK d \in Decisions : Restore(d)
    BY <1>2 DEF Resume
  <2>2. d # "none" /\ decision' = d /\ phase' # "dead" /\ usage'.steps = 0
    BY <2>1, InputsAssumption DEF Restore
  <2>3. QED
    BY <2>2 DEF EngineInv, Simulated, LongestWay
<1>3. CASE Crash
  BY <1>1, <1>3 DEF Crash, EngineInv, Simulated
<1>4. CASE Recover
  <2>1. crashes' = crashes /\ crashes > 0 /\ phase' # "dead" /\ usage'.steps = 0
    BY <1>4 DEF Recover, Restore, EngineInv
  <2>2. QED
    BY <2>1 DEF EngineInv, Simulated, LongestWay
<1>5. QED
  BY <1>2, <1>3, <1>4

LEMMA EngineStutters == ASSUME EngineInv, UNCHANGED vars, GraphInv' PROVE EngineInv'
<1>1. UNCHANGED <<mode, request, limits, phase, context, decision, state, usage, crashes>>
  BY DEF vars
<1>2. ASSUME NEW e PROVE (Matches(e) => Matches(e)') /\ (EndsAlike(e) => EndsAlike(e)')
  <2>1. RouteCapability' = RouteCapability
    BY <1>1 DEF RouteCapability, Has
  <2>2. QED
    BY <1>1, <2>1 DEF Matches, EndsAlike, SamePlan
<1>3. Simulated'
  <2> SUFFICES ASSUME decision = "none", crashes = 0,
                      "persistent_verifier_failure" \notin request,
                      NEW g, Supersteps(g)'
               PROVE  /\ phase = "running" => Matches(g[usage.steps])'
                      /\ phase = "ended" /\ state.final # "BUDGET_EXCEEDED" =>
                           EndsAlike(g[usage.steps])'
    BY <1>1 DEF Simulated
  <2>1. Supersteps(g)
    BY <1>1, SuperstepsStay
  <2>2. PICK e : e = g[usage.steps]
    OBVIOUS
  <2>3. e = g[usage'.steps]
    BY <1>1, <2>2
  <2>4. /\ phase = "running" => Matches(e)
        /\ phase = "ended" /\ state.final # "BUDGET_EXCEEDED" => EndsAlike(e)
    BY <2>1, <2>2 DEF EngineInv, Simulated
  <2>5. /\ phase = "running" => Matches(e)'
        /\ phase = "ended" /\ state.final # "BUDGET_EXCEEDED" => EndsAlike(e)'
    BY <1>2, <2>4
  <2>6. QED
    BY <2>3, <2>5
<1>4. QED
  BY <1>1, <1>3 DEF EngineInv

LEMMA EngineSteps == ASSUME EngineInv, [Next]_vars, GraphInv' PROVE EngineInv'
<1>1. CASE OutOfBudget \/ Run
  BY <1>1, OutOfBudgetStays, RunStarts
<1>2. CASE Resume \/ Crash \/ Recover
  BY <1>2, CallsStay
<1>3. CASE UNCHANGED vars
  BY <1>3, EngineStutters
<1>4. CASE PlainNode \/ InspectAssets \/ RoutedNode \/ Plan \/ Observe \/ Repair
           \/ Revise \/ CreateReviewItems \/ PublishReport \/ FailJob
  BY <1>4, NodesKeep
<1>5. QED
  BY <1>1, <1>2, <1>3, <1>4 DEF Next

\* The envelopes of LangGraph, one superstep after another.
NextEnvelope(e, n) == IF n = 0 THEN LangStart ELSE LangStep(e)

ListsEnvelopes(g, size) == g = [n \in 0 .. size |-> NextEnvelope(g[n - 1], n)]

LEMMA EnvelopesExist ==
  ASSUME NEW size \in Nat
  PROVE  \E g : ListsEnvelopes(g, size)
<1> DEFINE Bad == {n \in Nat : ~ \E g : ListsEnvelopes(g, n)}
<1>1. ASSUME NEW n \in Nat, \A k \in 0 .. n - 1 : k \notin Bad
      PROVE  n \notin Bad
  <2>1. CASE n = 0
    <3>1. ListsEnvelopes([m \in 0 .. 0 |-> LangStart], 0)
      BY DEF ListsEnvelopes, NextEnvelope
    <3>2. QED
      BY <2>1, <3>1
  <2>2. CASE n # 0
    <3>1. n - 1 \in 0 .. n - 1 /\ n - 1 \in Nat
      BY <2>2
    <3>2. PICK g : ListsEnvelopes(g, n - 1)
      BY <1>1, <3>1
    <3> DEFINE h == [m \in 0 .. n |-> IF m = n THEN NextEnvelope(g[n - 1], n) ELSE g[m]]
    <3>3. ASSUME NEW m \in 0 .. n
          PROVE  h[m] = NextEnvelope(h[m - 1], m)
      <4>1. CASE m = n
        BY <2>2, <3>1, <4>1
      <4>2. CASE m # n
        <5>1. m \in 0 .. n - 1 /\ h[m] = g[m]
          BY <2>2, <4>2
        <5>2. g[m] = NextEnvelope(g[m - 1], m)
          BY <3>2, <5>1 DEF ListsEnvelopes
        <5>3. m # 0 => h[m - 1] = g[m - 1]
          BY <2>2, <5>1
        <5>4. QED
          BY <5>1, <5>2, <5>3 DEF NextEnvelope
      <4>3. QED
        BY <4>1, <4>2
    <3>4. h = [m \in 0 .. n |-> NextEnvelope(h[m - 1], m)]
      BY <3>3
    <3>5. QED
      BY <3>4 DEF ListsEnvelopes
  <2>3. QED
    BY <2>1, <2>2
<1>2. Bad = {}
  <2> HIDE DEF Bad
  <2>1. Bad \in SUBSET Nat
    BY DEF Bad
  <2>2. QED
    BY <1>1, <2>1, FirstFailure
<1>3. QED
  BY <1>2

LEMMA LangAfterIs == Supersteps(LangAfter)
<1> DEFINE g == CHOOSE h : ListsEnvelopes(h, RecursionLimit)
<1>1. ListsEnvelopes(g, RecursionLimit)
  BY EnvelopesExist DEF RecursionLimit
<1>2. LangAfter = g
  BY DEF LangAfter, ListsEnvelopes, NextEnvelope
<1> HIDE DEF g
<1>3. g[0] = LangStart
  BY <1>1 DEF ListsEnvelopes, NextEnvelope, RecursionLimit
<1>4. ASSUME NEW n \in 1 .. RecursionLimit PROVE g[n] = LangStep(g[n - 1])
  BY <1>1 DEF ListsEnvelopes, NextEnvelope, RecursionLimit
<1>5. QED
  BY <1>2, <1>3, <1>4 DEF Supersteps

\* Nothing follows the end.
LEMMA EndStays ==
  ASSUME NEW g, Supersteps(g), NEW k \in 0 .. RecursionLimit, g[k].node = "END"
  PROVE  g[RecursionLimit] = g[k]
<1> DEFINE Bad == {n \in Nat : n \in k .. RecursionLimit /\ g[n] # g[k]}
<1>1. ASSUME NEW n \in Nat, \A m \in 0 .. n - 1 : m \notin Bad
      PROVE  n \notin Bad
  <2>1. SUFFICES ASSUME n \in k .. RecursionLimit, n # k PROVE g[n] = g[k]
    OBVIOUS
  <2>2. n - 1 \in 0 .. n - 1 /\ n - 1 \in Nat /\ n - 1 \in k .. RecursionLimit
        /\ n \in 1 .. RecursionLimit
    BY <2>1 DEF RecursionLimit
  <2>3. g[n - 1] = g[k]
    BY <1>1, <2>2
  <2>4. g[n] = LangStep(g[n - 1])
    BY <2>2 DEF Supersteps
  <2>5. QED
    BY <2>3, <2>4 DEF LangStep
<1>2. Bad = {}
  <2> HIDE DEF Bad
  <2>1. Bad \in SUBSET Nat
    BY DEF Bad
  <2>2. QED
    BY <1>1, <2>1, FirstFailure
<1>3. RecursionLimit \in k .. RecursionLimit /\ RecursionLimit \in Nat
  BY DEF RecursionLimit
<1>4. QED
  BY <1>2, <1>3

\* However a job is routed and repaired, a call that ran to its end without an
\* interruption, a review or the end of its budget went through the nodes that
\* LangGraph goes through, and ended as LangGraph does before it gives up.
THEOREM EnginesAlwaysAgree == Spec => []EnginesAgree
<1>1. Init => EngineInv
  BY GraphStart DEF Init, EngineInv, Simulated, LongestWay
<1>2. EngineInv /\ GraphInv' /\ [Next]_vars => EngineInv'
  BY EngineSteps
<1>3. EngineInv => EnginesAgree
  <2> SUFFICES ASSUME EngineInv, phase = "ended", decision = "none", crashes = 0,
                      state.final # "BUDGET_EXCEEDED",
                      "persistent_verifier_failure" \notin request
               PROVE  EndsAlike(LangResult)
    BY DEF EnginesAgree, EndsAlike, SamePlan
  <2>1. EndsAlike(LangAfter[usage.steps])
    BY LangAfterIs DEF EngineInv, Simulated
  <2>2. usage.steps \in 0 .. RecursionLimit
    BY DEF EngineInv, GraphInv, TypeOK, RecursionLimit, LongestWay
  <2>3. LangAfter[RecursionLimit] = LangAfter[usage.steps]
    BY <2>1, <2>2, LangAfterIs, EndStays DEF EndsAlike
  <2>4. QED
    BY <2>1, <2>3 DEF LangResult
<1>4. QED
  BY <1>1, <1>2, <1>3, GraphInvariant, PTL DEF Spec
===============================================================================
