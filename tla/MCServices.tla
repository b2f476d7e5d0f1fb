------------------------------ MODULE MCServices ------------------------------
(***************************************************************************)
(* The services of the API around the life of a job, for TLC: the event    *)
(* stream, admission, conversations, human feedback, the idempotency of    *)
(* requests and the traces they leave.  They share no state, so that a     *)
(* product of them would only repeat the behaviours of each: a behaviour   *)
(* follows the one in focus.                                               *)
(***************************************************************************)
EXTENDS EventStream, QueueGuard, Conversations, Feedback, Idempotency, Tracing

VARIABLE focus

serviceVars == <<focus, streamVars, guardVars, conversationVars, feedbackVars, vars,
                 tracingVars>>

\* A short video, one that fills the window, one that never fits in it, one
\* that is too long, and more pictures than there is memory for.
MCTasks ==
  {[mode |-> "video", minutes |-> 10, assets |-> 1],
   [mode |-> "video", minutes |-> 30, assets |-> 2],
   [mode |-> "video", minutes |-> 46, assets |-> 2],
   [mode |-> "video", minutes |-> 61, assets |-> 1],
   [mode |-> "image", minutes |-> 0, assets |-> 60]}

ServicesInit ==
  /\ focus \in {"stream", "guard", "conversation", "feedback", "key", "trace"}
  /\ StreamInit /\ GuardInit /\ ConversationInit /\ FeedbackInit /\ Init
  /\ broker \in (IF focus = "trace" THEN BOOLEAN ELSE {FALSE}) /\ TracingInit

ServicesNext ==
  /\ UNCHANGED focus
  /\ \/ /\ focus = "stream" /\ StreamNext
        /\ UNCHANGED <<guardVars, conversationVars, feedbackVars, vars, tracingVars>>
     \/ /\ focus = "guard" /\ GuardNext
        /\ UNCHANGED <<streamVars, conversationVars, feedbackVars, vars, tracingVars>>
     \/ /\ focus = "conversation" /\ ConversationNext
        /\ UNCHANGED <<streamVars, guardVars, feedbackVars, vars, tracingVars>>
     \/ /\ focus = "feedback" /\ FeedbackNext
        /\ UNCHANGED <<streamVars, guardVars, conversationVars, vars, tracingVars>>
     \/ /\ focus = "key" /\ Next
        /\ UNCHANGED <<streamVars, guardVars, conversationVars, feedbackVars, tracingVars>>
     \/ /\ focus = "trace" /\ TracingNext
        /\ UNCHANGED <<streamVars, guardVars, conversationVars, feedbackVars, vars>>

\* The fairness of a service out of focus asks for nothing: none of its fair
\* actions is enabled before the first request.
ServicesSpec ==
  /\ ServicesInit /\ [][ServicesNext]_serviceVars
  /\ StreamFairness /\ \A c \in Calls : WF_vars(Step(c))
=============================================================================
