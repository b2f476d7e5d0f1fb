-------------------------- MODULE Services_proofs --------------------------
(***************************************************************************)
(* What the services around a job keep, for any number of clients, threads *)
(* and rows: an operation with a key is performed once (Idempotency), the  *)
(* event stream shows a prefix of the log (EventStream), the summary of a  *)
(* conversation catches up with its turns (Conversations), every decision  *)
(* has its audit (Feedback), the tracer's context stays with the request   *)
(* it belongs to and every trace is whole (Tracing), and admission keeps   *)
(* its ceilings over every window (QueueGuard).  One section each, with    *)
(* its types, its inductive invariant, a lemma per action and the theorems.*)
(*                                                                         *)
(* None of the properties is inductive by itself.  Idempotency: the call   *)
(* that inserted the record is the only one that may write it, and record, *)
(* effects and owner agree on how far the operation has come.  EventStream:*)
(* what is still to be committed is greater than all that is, and what a   *)
(* stream has loaded follows what it has sent.  Conversations: a request's *)
(* summary is made from turns it has seen.  Feedback: a decided item has   *)
(* its audit, a thread that owes it, or a death.  Tracing: a context that  *)
(* travels with a task belongs to the request that submitted it.           *)
(* QueueGuard: what the window holds is what was granted in it and kept.   *)
(***************************************************************************)
EXTENDS Idempotency, EventStream, Conversations, Feedback, Tracing, QueueGuard,
        SequenceTheorems, SumTheorems

-----------------------------------------------------------------------------
(* Idempotency                                                            *)

Owns(c) == calls[c].pc \in {"own", "except"}

\* The columns of the row, and that an unreserved key has no history.
RecordOK ==
  /\ record.status = "none" =>
       record = Free /\ effects = {} /\ \A c \in Calls : calls[c] = NewCall
  /\ record.status # "none" => record.hash \in Payloads

\* The record tells what was written.
EffectsOK ==
  /\ record.status = "PROCESSING" => effects = {}
  /\ record.status = "SUCCEEDED" =>
       /\ record.response \in Calls
       /\ effects = {[call |-> record.response, payload |-> record.hash]}
  /\ \/ effects = {}
     \/ \E d \in Calls, p \in Payloads : effects = {[call |-> d, payload |-> p]}

\* The owner is alone, and the record is still its own to decide.
OwnersOK ==
  /\ \A c, d \in Calls : Owns(c) /\ Owns(d) => c = d
  /\ \A c \in Calls :
       /\ calls[c].pc = "own" =>
            record.status = "PROCESSING" /\ record.hash = calls[c].payload
       /\ calls[c].pc = "except" =>
            /\ record.status \in {"PROCESSING", "SUCCEEDED"}
            /\ lost = 0 => record.status = "PROCESSING"

\* A burnt key had no effect, unless an acknowledgement was lost.
FailedOK == record.status = "FAILED" /\ lost = 0 => effects = {}

\* What a call has been told agrees with the record.
AnswersOK ==
  \A c \in Calls :
    /\ calls[c].pc = "new" <=> calls[c].payload = NoCall
    /\ calls[c].pc = "answered" <=> calls[c].answer # "none"
    /\ calls[c].answer = "ok" =>
         [call |-> calls[c].response, payload |-> calls[c].payload] \in effects
    /\ calls[c].answer # "ok" => calls[c].response = NoCall
    /\ calls[c].answer \in {"raised", "previous_failure"} =>
         record.status = "FAILED"

IInv == TypeOK /\ RecordOK /\ EffectsOK /\ OwnersOK /\ FailedOK /\ AnswersOK

-----------------------------------------------------------------------------

\* The initial state satisfies the invariant.
THEOREM Initial == Init => IInv
BY NoCallAssumption
DEF Init, IInv, TypeOK, RecordType, CallType, Free, NewCall, RecordOK,
    EffectsOK, OwnersOK, FailedOK, AnswersOK, Owns

LEMMA CallStarts ==
  ASSUME calls \in [Calls -> CallType], NEW c \in Calls, NEW p \in Payloads,
         NEW k \in {"own", "wait"},
         calls' = [calls EXCEPT ![c].pc = k, ![c].payload = p]
  PROVE  calls' \in [Calls -> CallType]
<1> DEFINE q == [calls[c] EXCEPT !.pc = k, !.payload = p]
<1>1. q \in CallType
  <2>1. PICK r \in CallType : r = calls[c]
    OBVIOUS
  <2>2. [r EXCEPT !.pc = k, !.payload = p] \in CallType
    BY DEF CallType
  <2>3. QED
    BY <2>1, <2>2
<1>2. calls' = [calls EXCEPT ![c] = q]
  OBVIOUS
<1> HIDE DEF q
<1>3. QED
  BY <1>1, <1>2

\* Insertion of the record, or the refusal of the constraint.
LEMMA ReserveStep ==
  ASSUME IInv, NEW c \in Calls, NEW p \in Payloads, Reserve(c, p)
  PROVE  IInv'
<1>1. /\ calls[c].pc = "new" /\ UNCHANGED <<effects, raises, crashes, lost>>
      /\ calls \in [Calls -> CallType] /\ NoCall \notin Payloads
  BY NoCallAssumption DEF Reserve, At, used, IInv, TypeOK
<1>2. CASE Reservable
  <2>1. /\ record' = [status |-> "PROCESSING", hash |-> p, response |-> NoCall]
        /\ calls' = [calls EXCEPT ![c].pc = "own", ![c].payload = p]
        /\ record.status = "none"
    BY <1>2 DEF Reserve, Reservable, Free
  <2>2. effects = {} /\ \A d \in Calls : calls[d] = NewCall
    BY <2>1 DEF IInv, RecordOK
  <2>3. TypeOK'
    <3>1. record' \in RecordType
      BY <2>1 DEF RecordType
    <3>2. calls' \in [Calls -> CallType]
      BY <1>1, <2>1, CallStarts
    <3>3. QED
      BY <1>1, <3>1, <3>2 DEF IInv, TypeOK
  <2>4. RecordOK' /\ EffectsOK' /\ FailedOK'
    BY <1>1, <2>1, <2>2 DEF RecordOK, EffectsOK, FailedOK
  <2>5. OwnersOK' /\ AnswersOK'
    BY <1>1, <2>1, <2>2 DEF OwnersOK, AnswersOK, Owns, NewCall, CallType
  <2>6. QED
    BY <2>3, <2>4, <2>5 DEF IInv
<1>3. CASE ~Reservable
  <2>1. /\ record' = record /\ record # Free
        /\ calls' = [calls EXCEPT ![c].pc = "wait", ![c].payload = p]
    BY <1>3 DEF Reserve, Reservable
  <2>2. TypeOK'
    <3>1. calls' \in [Calls -> CallType]
      BY <1>1, <2>1, CallStarts
    <3>2. QED
      BY <1>1, <2>1, <3>1 DEF IInv, TypeOK
  <2>3. RecordOK' /\ EffectsOK' /\ FailedOK'
    BY <1>1, <2>1 DEF IInv, RecordOK, EffectsOK, FailedOK
  <2>4. OwnersOK'
    BY <1>1, <2>1 DEF IInv, OwnersOK, Owns, CallType
  <2>5. AnswersOK'
    BY <1>1, <2>1 DEF IInv, AnswersOK, CallType
  <2>6. QED
    BY <2>2, <2>3, <2>4, <2>5 DEF IInv
<1>4. QED
  BY <1>2, <1>3

\* The owner commits, whether or not it hears of it.
LEMMA CommitStep ==
  ASSUME IInv, NEW c \in Calls, Commit(c) \/ CommitLost(c)
  PROVE  IInv'
<1> DEFINE e == [call |-> c, payload |-> calls[c].payload]
<1>1. /\ calls[c].pc = "own" /\ calls[c].payload \in Payloads
      /\ calls[c].answer = "none" /\ calls[c].response = NoCall
      /\ record.status = "PROCESSING" /\ record.hash = calls[c].payload
      /\ effects = {}
  BY DEF Commit, CommitLost, At, IInv, TypeOK, CallType, RecordOK, EffectsOK,
         OwnersOK, AnswersOK
<1>2. \A d \in Calls \ {c} : ~Owns(d)
  BY <1>1 DEF IInv, OwnersOK, Owns
<1>3. \A d \in Calls : calls[d].answer # "ok"
  BY <1>1 DEF IInv, AnswersOK
<1>4. /\ effects' = {e}
      /\ record' = [record EXCEPT !.status = "SUCCEEDED", !.response = c]
      /\ \/ /\ calls' = [calls EXCEPT ![c].pc = "answered",
                                      ![c].answer = "ok", ![c].response = c]
            /\ lost' = lost
         \/ /\ calls' = [calls EXCEPT ![c].pc = "except"]
            /\ lost' = lost + 1
      /\ UNCHANGED <<raises, crashes>>
  BY <1>1 DEF Commit, CommitLost, Decided, Answer, used
<1>5. TypeOK'
  <2>1. calls' \in [Calls -> CallType]
    BY <1>4 DEF IInv, TypeOK, CallType
  <2>2. record' \in RecordType
    BY <1>4 DEF IInv, TypeOK, RecordType
  <2>3. effects' \subseteq [call : Calls, payload : Payloads]
    BY <1>1, <1>4
  <2>4. raises' \in Nat /\ crashes' \in Nat /\ lost' \in Nat
    BY <1>4 DEF IInv, TypeOK
  <2>5. QED
    BY <2>1, <2>2, <2>3, <2>4 DEF TypeOK
<1>6. /\ record'.status = "SUCCEEDED" /\ record'.response = c
      /\ record'.hash = calls[c].payload
      /\ lost' \in Nat /\ (lost' = 0 => calls'[c].pc = "answered")
  BY <1>1, <1>4 DEF IInv, TypeOK, RecordType, CallType
<1>7. /\ \A d \in Calls \ {c} : calls'[d] = calls[d]
      /\ calls'[c].pc \in {"answered", "except"}
      /\ calls'[c].payload = calls[c].payload
      /\ \/ /\ calls'[c].pc = "answered" /\ calls'[c].answer = "ok"
            /\ calls'[c].response = c
         \/ /\ calls'[c].pc = "except" /\ calls'[c].answer = "none"
            /\ calls'[c].response = NoCall
  BY <1>1, <1>4 DEF IInv, TypeOK, CallType
<1> HIDE DEF e
<1>8. RecordOK' /\ FailedOK'
  BY <1>1, <1>6 DEF RecordOK, FailedOK
<1>9. EffectsOK'
  BY <1>1, <1>4, <1>6 DEF EffectsOK, e
<1>10. OwnersOK'
  BY <1>2, <1>6, <1>7 DEF OwnersOK, Owns
<1>11. AnswersOK'
  BY <1>1, <1>3, <1>4, <1>6, <1>7, NoCallAssumption DEF IInv, AnswersOK, e
<1>12. QED
  BY <1>5, <1>8, <1>9, <1>10, <1>11 DEF IInv

\* The operation raises, and the except clause burns the key.
LEMMA FailureStep ==
  ASSUME IInv, NEW c \in Calls, OperationRaises(c) \/ MarkFailed(c)
  PROVE  IInv'
<1>1. CASE OperationRaises(c)
  BY <1>1, NoCallAssumption, MaxAssumption
  DEF OperationRaises, At, used, Free, NewCall, IInv, TypeOK, RecordType, CallType,
      RecordOK, EffectsOK, OwnersOK, FailedOK, AnswersOK, Owns
<1>2. CASE MarkFailed(c)
  <2>1. /\ calls \in [Calls -> CallType] /\ record \in RecordType
        /\ calls[c].pc = "except" /\ calls[c].answer # "ok"
        /\ calls[c].payload # NoCall /\ record.status \in {"PROCESSING", "SUCCEEDED"}
        /\ lost = 0 => record.status = "PROCESSING"
        /\ record.status = "PROCESSING" => effects = {}
    BY <1>2 DEF MarkFailed, At, IInv, TypeOK, EffectsOK, OwnersOK, AnswersOK
  <2>2. /\ record' \in RecordType /\ record'.status = "FAILED"
        /\ record'.hash = record.hash /\ effects' = effects
        /\ UNCHANGED <<raises, crashes, lost>>
    BY <1>2, <2>1 DEF MarkFailed, Failed, RecordType, used
  <2>3. /\ calls' \in [Calls -> CallType]
        /\ \A d \in Calls \ {c} : calls'[d] = calls[d]
        /\ calls'[c].pc = "answered" /\ calls'[c].answer = "raised"
        /\ calls'[c].response = NoCall /\ calls'[c].payload = calls[c].payload
    BY <1>2, <2>1 DEF MarkFailed, Answer, CallType
  <2>4. \A d \in Calls : Owns(d)' => d # c /\ Owns(d)
    BY <2>3 DEF Owns
  <2>5. \A d \in Calls : ~Owns(d)'
    BY <2>1, <2>4 DEF IInv, OwnersOK, Owns
  <2>6. TypeOK'
    BY <2>2, <2>3 DEF IInv, TypeOK
  <2>7. RecordOK' /\ EffectsOK' /\ FailedOK'
    BY <2>1, <2>2 DEF IInv, RecordOK, EffectsOK, FailedOK
  <2>8. OwnersOK'
    BY <2>5 DEF OwnersOK, Owns
  <2>9. AnswersOK'
    BY <2>1, <2>2, <2>3 DEF IInv, AnswersOK
  <2>10. QED
    BY <2>6, <2>7, <2>8, <2>9 DEF IInv
<1>3. QED
  BY <1>1, <1>2

\* A call that waits reads the record or gives up.
LEMMA WaitStep ==
  ASSUME IInv, NEW c \in Calls, Poll(c) \/ Timeout(c)
  PROVE  IInv'
BY NoCallAssumption
DEF Poll, Timeout, TimedOut, SamePayload, Answer, At, used, Free, NewCall, IInv,
    TypeOK, RecordType, CallType, RecordOK, EffectsOK, OwnersOK, FailedOK,
    AnswersOK, Owns

\* A call dies.
LEMMA CrashStep ==
  ASSUME IInv, NEW c \in Calls, Crash(c)
  PROVE  IInv'
BY NoCallAssumption, MaxAssumption
DEF Crash, At, used, Free, NewCall, IInv, TypeOK, RecordType, CallType,
    RecordOK, EffectsOK, OwnersOK, FailedOK, AnswersOK, Owns

\* Every step keeps the invariant.
THEOREM Inductive == IInv /\ [Next]_vars => IInv'
<1> SUFFICES ASSUME IInv, [Next]_vars PROVE IInv'
  OBVIOUS
<1>1. CASE Next
  <2>1. PICK c \in Calls :
          \/ \E p \in Payloads : Reserve(c, p)
          \/ Step(c) \/ CommitLost(c) \/ OperationRaises(c) \/ Crash(c)
    BY <1>1 DEF Next
  <2>2. QED
    BY <2>1, ReserveStep, CommitStep, FailureStep, WaitStep, CrashStep DEF Step
<1>2. CASE UNCHANGED vars
  BY <1>2
  DEF vars, IInv, TypeOK, RecordOK, EffectsOK, OwnersOK, FailedOK, AnswersOK,
      Owns
<1>3. QED
  BY <1>1, <1>2

\* The invariant holds in every reachable state.
THEOREM Correct == Spec => []IInv
<1>1. Init => IInv
  BY Initial
<1>2. IInv /\ [Next]_vars => IInv'
  BY Inductive
<1>3. QED
  BY <1>1, <1>2, PTL DEF Spec

\* Every key is good for one effect at most (TypeOK: the record and the calls
\* keep their fields).
THEOREM KeyedOnce == Spec => [](TypeOK /\ AtMostOnce)
<1>1. IInv => TypeOK /\ AtMostOnce
  BY DEF IInv, EffectsOK, AtMostOnce
<1>2. QED
  BY <1>1, Correct, PTL

\* A success that is reported was committed, for the payload of the call that
\* hears of it.
THEOREM SuccessIsCommitted == Spec => []RepliesAgree
<1>1. IInv => RepliesAgree
  BY DEF IInv, AnswersOK, RepliesAgree
<1>2. QED
  BY <1>1, Correct, PTL

\* A failure that is reported leaves no effect, now or later.
THEOREM FailureBurnsKey == Spec => []FailureIsFinal
<1>1. IInv => FailureIsFinal
  BY DEF IInv, AnswersOK, FailedOK, FailureIsFinal
<1>2. QED
  BY <1>1, Correct, PTL

\* Whatever a call is told about the operation of its key is true.
THEOREM AnsweredTruly == Spec => []AnswersAreTrue
BY SuccessIsCommitted, FailureBurnsKey, PTL DEF AnswersAreTrue

-----------------------------------------------------------------------------
(* The refinement                                                          *)

\* What the abstract specification sees of one call.
Seen(c) == [asked |-> calls[c].payload, told |-> told[calls[c].answer],
            response |-> calls[c].response]

\* A step that changes one call changes one abstract reply.
LEMMA OneReply ==
  ASSUME NEW c \in Calls,
         \A d \in Calls \ {c} : calls'[d] = calls[d]
  PROVE  repliesSeen' = [repliesSeen EXCEPT ![c] = Seen(c)']
BY DEF repliesSeen, Seen

\* What the abstract specification sees of the effects.
LEMMA OneEffect ==
  /\ effects = {} => effectSeen = [call |-> NoCall, payload |-> NoCall]
  /\ \A e : effects = {e} => effectSeen = e
BY DEF effectSeen

\* No call, no effect: a real one is not mistaken for it.
LEMMA RealEffect ==
  ASSUME NEW d \in Calls, NEW p \in Payloads
  PROVE  [call |-> d, payload |-> p] # [call |-> NoCall, payload |-> NoCall]
BY NoCallAssumption

\* The reply of a call that has not been answered.
LEMMA Unanswered ==
  ASSUME IInv, NEW c \in Calls, calls[c].pc # "answered"
  PROVE  /\ repliesSeen[c].told = "nothing"
         /\ repliesSeen[c].asked = calls[c].payload
         /\ repliesSeen[c].response = NoCall
         /\ calls[c].pc = "new" => repliesSeen[c] = Promise!Silent
         /\ calls[c].pc # "new" => calls[c].payload \in Payloads
<1>1. /\ calls[c].answer = "none" /\ calls[c].response = NoCall
      /\ calls[c].payload \in Payloads \cup {NoCall}
      /\ calls[c].pc = "new" <=> calls[c].payload = NoCall
  BY DEF IInv, TypeOK, CallType, AnswersOK
<1>2. repliesSeen[c] = [asked |-> calls[c].payload, told |-> "nothing",
                        response |-> NoCall]
  BY <1>1 DEF repliesSeen, told
<1>3. QED
  BY <1>1, <1>2 DEF Promise!Silent

\* An answer that changes no effect, as the abstract reply.
LEMMA AnswerSeen ==
  ASSUME IInv, NEW c \in Calls, NEW a \in DOMAIN told, NEW r,
         calls[c].pc # "answered", Answer(c, a, r), UNCHANGED effects
  PROVE  /\ repliesSeen' = [repliesSeen EXCEPT
                              ![c] = [asked |-> calls[c].payload,
                                      told |-> told[a], response |-> r]]
         /\ UNCHANGED effectSeen
<1>1. /\ \A d \in Calls \ {c} : calls'[d] = calls[d]
      /\ calls'[c].payload = calls[c].payload
      /\ calls'[c].answer = a /\ calls'[c].response = r
  BY DEF IInv, TypeOK, CallType, Answer
<1>2. repliesSeen' = [repliesSeen EXCEPT ![c] = Seen(c)']
  BY <1>1, OneReply
<1>3. Seen(c)' = [asked |-> calls[c].payload, told |-> told[a], response |-> r]
  BY <1>1 DEF Seen, told
<1>4. QED
  BY <1>2, <1>3 DEF effectSeen

\* A refusal, and the replay of the committed response.
LEMMA RefuseStep ==
  ASSUME IInv, NEW c \in Calls, calls[c].pc \notin {"new", "answered"},
         NEW a \in {"raised", "conflict", "previous_failure", "timeout"},
         Answer(c, a, NoCall), UNCHANGED effects
  PROVE  Promise!Refuse(c)
<1>1. a \in DOMAIN told /\ told[a] = "refusal"
  BY DEF told
<1>2. /\ repliesSeen' = [repliesSeen EXCEPT
                           ![c] = [asked |-> calls[c].payload,
                                   told |-> "refusal", response |-> NoCall]]
      /\ UNCHANGED effectSeen
  BY <1>1, AnswerSeen
<1>3. repliesSeen' = [repliesSeen EXCEPT ![c].told = "refusal"]
  BY <1>2, Unanswered DEF repliesSeen
<1>4. QED
  BY <1>2, <1>3, Unanswered DEF Promise!Refuse

LEMMA ReplayStep ==
  ASSUME IInv, NEW c \in Calls, calls[c].pc \notin {"new", "answered"},
         record.status = "SUCCEEDED", record.hash = calls[c].payload,
         Answer(c, "ok", record.response), UNCHANGED effects
  PROVE  Promise!Replay(c)
<1> DEFINE e == [call |-> record.response, payload |-> record.hash]
<1>1. /\ effects = {e} /\ record.response \in Calls
      /\ record.hash \in Payloads
  BY DEF IInv, EffectsOK, RecordOK
<1>2. effectSeen = e
  BY <1>1, OneEffect
<1>3. /\ effectSeen.call = record.response /\ effectSeen.payload = record.hash
      /\ effectSeen # Promise!NoEffect
  BY <1>1, <1>2, RealEffect DEF Promise!NoEffect
<1>4. /\ repliesSeen' = [repliesSeen EXCEPT
                           ![c] = [asked |-> calls[c].payload,
                                   told |-> "success",
                                   response |-> record.response]]
      /\ UNCHANGED effectSeen
  BY AnswerSeen DEF told
<1>5. repliesSeen' = [repliesSeen EXCEPT ![c].told = "success",
                                         ![c].response = record.response]
  BY <1>4, Unanswered DEF repliesSeen
<1>6. QED
  BY <1>3, <1>4, <1>5, Unanswered DEF Promise!Replay

\* The arrival of a call.
LEMMA AskStep ==
  ASSUME IInv, NEW c \in Calls, NEW p \in Payloads, Reserve(c, p)
  PROVE  Promise!Ask(c, p)
<1>1. /\ calls[c].pc = "new" /\ UNCHANGED effectSeen
      /\ \A d \in Calls \ {c} : calls'[d] = calls[d]
      /\ calls'[c].payload = p /\ calls'[c].answer = calls[c].answer
      /\ calls'[c].response = calls[c].response
  BY DEF Reserve, At, IInv, TypeOK, CallType, effectSeen
<1>2. repliesSeen' = [repliesSeen EXCEPT ![c] = Seen(c)']
  BY <1>1, OneReply
<1>3. repliesSeen' = [repliesSeen EXCEPT ![c].asked = p]
  BY <1>1, <1>2 DEF Seen, repliesSeen, told
<1>4. QED
  BY <1>1, <1>3, Unanswered DEF Promise!Ask

\* The one effect.
LEMMA PerformStep ==
  ASSUME IInv, NEW c \in Calls, Commit(c) \/ CommitLost(c)
  PROVE  Promise!Perform(c)
<1> DEFINE e == [call |-> c, payload |-> calls[c].payload]
<1>1. /\ calls[c].pc = "own" /\ effects = {} /\ calls[c].payload \in Payloads
  BY Unanswered
  DEF Commit, CommitLost, At, IInv, EffectsOK, OwnersOK
<1>2. effects' = {e}
  BY <1>1 DEF Commit, CommitLost
<1>3. effectSeen = Promise!NoEffect /\ effectSeen' = e
  BY <1>1, <1>2, OneEffect DEF Promise!NoEffect, effectSeen
<1>4. repliesSeen[c].asked = calls[c].payload /\ repliesSeen[c].told = "nothing"
  BY <1>1, Unanswered
<1>5. \/ UNCHANGED repliesSeen
      \/ repliesSeen' = [repliesSeen EXCEPT ![c].told = "success",
                                            ![c].response = c]
  <2>1. /\ \A d \in Calls \ {c} : calls'[d] = calls[d]
        /\ calls'[c].payload = calls[c].payload
    BY DEF Commit, CommitLost, Answer, IInv, TypeOK, CallType
  <2>2. repliesSeen' = [repliesSeen EXCEPT ![c] = Seen(c)']
    BY <2>1, OneReply
  <2>3. CASE Commit(c)
    <3>1. calls'[c].answer = "ok" /\ calls'[c].response = c
      BY <2>3 DEF Commit, Answer, IInv, TypeOK, CallType
    <3>2. Seen(c)' = [asked |-> calls[c].payload, told |-> "success",
                      response |-> c]
      BY <2>1, <3>1 DEF Seen, told
    <3>3. QED
      BY <2>2, <3>2 DEF repliesSeen
  <2>4. CASE CommitLost(c)
    <3>1. /\ calls'[c].answer = calls[c].answer
          /\ calls'[c].response = calls[c].response
      BY <2>4 DEF CommitLost, IInv, TypeOK, CallType
    <3>2. QED
      BY <2>1, <2>2, <3>1 DEF Seen, repliesSeen
  <2>5. QED
    BY <2>3, <2>4
<1>6. QED
  BY <1>1, <1>3, <1>4, <1>5 DEF Promise!Perform

\* A step that answers nobody and writes nothing is invisible.
LEMMA SilentStep ==
  ASSUME IInv, UNCHANGED effects, NEW c \in Calls, NEW pc,
         calls' = [calls EXCEPT ![c].pc = pc]
  PROVE  UNCHANGED <<effectSeen, repliesSeen>>
<1>1. \A d \in Calls : /\ calls'[d].payload = calls[d].payload
                       /\ calls'[d].answer = calls[d].answer
                       /\ calls'[d].response = calls[d].response
  BY DEF IInv, TypeOK, CallType
<1>2. QED
  BY <1>1 DEF effectSeen, repliesSeen

\* Every step is an abstract step or a stutter.
LEMMA StepRefines ==
  ASSUME IInv, [Next]_vars
  PROVE  [Promise!Next]_<<effectSeen, repliesSeen>>
<1>1. ASSUME NEW c \in Calls, NEW p \in Payloads, Reserve(c, p)
      PROVE  Promise!Next
  BY <1>1, AskStep DEF Promise!Next
<1>2. ASSUME NEW c \in Calls, Commit(c) \/ CommitLost(c)
      PROVE  Promise!Next
  BY <1>2, PerformStep DEF Promise!Next
<1>3. ASSUME NEW c \in Calls, MarkFailed(c) \/ Timeout(c)
      PROVE  Promise!Next
  BY <1>3, RefuseStep
  DEF MarkFailed, Timeout, TimedOut, At, Promise!Next
<1>4. ASSUME NEW c \in Calls, Poll(c)
      PROVE  Promise!Next \/ UNCHANGED <<effectSeen, repliesSeen>>
  <2>1. calls[c].pc \in {"wait", "sleep"} /\ UNCHANGED effects
    BY <1>4 DEF Poll, At
  <2>2. CASE Answer(c, "conflict", NoCall) \/ Answer(c, "previous_failure", NoCall)
    BY <2>1, <2>2, RefuseStep DEF Promise!Next
  <2>3. CASE /\ SamePayload(c) /\ record.status = "SUCCEEDED"
             /\ Answer(c, "ok", record.response)
    BY <2>1, <2>3, ReplayStep DEF SamePayload, Promise!Next
  <2>4. CASE calls' = [calls EXCEPT ![c].pc = "sleep"]
    BY <2>1, <2>4, SilentStep
  <2>5. QED
    BY <1>4, <2>2, <2>3, <2>4 DEF Poll
<1>5. ASSUME NEW c \in Calls, OperationRaises(c) \/ Crash(c)
      PROVE  UNCHANGED <<effectSeen, repliesSeen>>
  BY <1>5, SilentStep DEF OperationRaises, Crash
<1>6. CASE UNCHANGED vars
  BY <1>6 DEF vars, effectSeen, repliesSeen
<1>7. QED
  BY <1>1, <1>2, <1>3, <1>4, <1>5, <1>6 DEF Next, Step

\* IdempotencyService.execute makes of all the calls with one key a single
\* operation that happens at most once and is answered consistently.
THEOREM OneOperation == Spec => KeyIsOneOperation
<1>1. Init => Promise!Init
  BY OneEffect
  DEF Init, NewCall, Promise!Init, Promise!NoEffect, Promise!Silent,
      repliesSeen, told, effectSeen
<1>2. IInv /\ [Next]_vars => [Promise!Next]_<<effectSeen, repliesSeen>>
  BY StepRefines
<1>3. QED
  BY <1>1, <1>2, Correct, PTL DEF Spec, KeyIsOneOperation, Promise!Spec

-----------------------------------------------------------------------------
(* The event stream                                                        *)

StreamRow ==
  [pc : {"closed", "open", "replay", "loop", "wait", "tail"}, last : Nat,
   rows : SUBSET Nat, ends : BOOLEAN, wakes : Nat]

ProducerRow == [pc : {"idle", "inserted", "committed"}, id : Nat]

StreamTypes ==
  /\ ids \in Nat /\ log \in SUBSET (1 .. ids)
  /\ producer \in [Producers -> ProducerRow] /\ stream \in [Streams -> StreamRow]
  /\ current \in Streams \cup {None} /\ wire \in SUBSET Nat /\ received \in Seq(Nat)

\* What commits next is greater than all that has committed.
CommitsInTurn ==
  /\ \A p \in Producers : producer[p].pc = "inserted" =>
       producer[p].id \in 1 .. ids /\ \A e \in log : e < producer[p].id
  /\ \A p, q \in Producers :
       producer[p].pc = "inserted" /\ producer[q].pc = "inserted" /\ p # q =>
         producer[p].id # producer[q].id

Got == {received[i] : i \in DOMAIN received}

\* A set of events that leaves out none before its last one.
PrefixOfLog(S) == S \subseteq log /\ \A e \in log, f \in S : e < f => e \in S

\* The frames under way follow what has been received.
FramesFollow ==
  /\ \A i, j \in DOMAIN received : i < j => received[i] < received[j]
  /\ PrefixOfLog(Got) /\ PrefixOfLog(Got \cup wire)
  /\ \A e \in Got, f \in wire : e < f

\* The stream that the client reads from has sent it all up to the last event,
\* and goes on with the rows that follow.
StreamFits(q) ==
  q.pc # "closed" =>
    /\ q.last \in log \cup {0}
    /\ Got \cup wire = {e \in log : e <= q.last}
    /\ q.rows \subseteq {e \in log : e > q.last}
    /\ \A e \in log, f \in q.rows : q.last < e /\ e < f => e \in q.rows

StreamInv ==
  /\ StreamTypes /\ CommitsInTurn /\ FramesFollow
  /\ current # None => StreamFits(stream[current])

LEMMA ClosedRow == Closed \in StreamRow /\ Closed.pc = "closed" /\ Closed.rows = {}
BY DEF Closed, StreamRow

LEMMA StreamStart == StreamInit => StreamInv
<1> SUFFICES ASSUME StreamInit PROVE StreamInv
  OBVIOUS
<1>1. StreamTypes
  BY ClosedRow DEF StreamInit, StreamTypes, ProducerRow
<1>2. CommitsInTurn
  BY DEF StreamInit, CommitsInTurn
<1>3. FramesFollow
  BY DEF StreamInit, FramesFollow, PrefixOfLog, Got
<1>4. QED
  BY <1>1, <1>2, <1>3 DEF StreamInv, StreamInit

LEMMA LeastNatural ==
  ASSUME NEW S \in SUBSET Nat, S # {}
  PROVE  Min(S) \in S /\ \A x \in S : Min(S) <= x
<1>1. \E m \in S : \A x \in S : m <= x
  BY LeastOfNumbers
<1>2. QED
  BY <1>1 DEF Min

\* The n least of a set leave out none before one they hold.
LEMMA LeastIsPrefix ==
  ASSUME NEW S, IsFiniteSet(S), S \subseteq Nat, NEW n \in Nat,
         NEW e \in S, NEW f \in Least(n, S), e < f
  PROVE  e \in Least(n, S)
<1>1. f \in S /\ Cardinality({g \in S : g < f}) < n
  BY DEF Least
<1>2. {g \in S : g < e} \in SUBSET {g \in S : g < f}
  <2> SUFFICES ASSUME NEW g \in S, g < e PROVE g < f
    OBVIOUS
  <2>1. g \in Nat /\ e \in Nat /\ f \in Nat
    BY <1>1
  <2>2. QED
    BY <2>1
<1>3. IsFiniteSet({g \in S : g < f})
  BY FS_Subset
<1>4. Cardinality({g \in S : g < e}) <= Cardinality({g \in S : g < f})
  BY <1>2, <1>3, FS_Subset
<1>5. Cardinality({g \in S : g < e}) \in Nat /\ Cardinality({g \in S : g < f}) \in Nat
  BY <1>2, <1>3, FS_Subset, FS_CardinalityType
<1>6. QED
  BY <1>1, <1>4, <1>5 DEF Least

LEMMA RowsFollow ==
  ASSUME StreamTypes, NEW last \in Nat
  PROVE  /\ ListAfter(last) \subseteq {e \in log : e > last}
         /\ \A e \in log, f \in ListAfter(last) : last < e /\ e < f => e \in ListAfter(last)
<1> DEFINE S == {e \in log : e > last}
<1>1. IsFiniteSet(S) /\ S \subseteq Nat
  <2>1. IsFiniteSet(1 .. ids)
    BY FS_Interval DEF StreamTypes
  <2>2. S \in SUBSET (1 .. ids)
    BY DEF StreamTypes
  <2>3. S \subseteq Nat
    BY <2>2
  <2> HIDE DEF S
  <2>4. QED
    BY <2>1, <2>2, <2>3, FS_Subset
<1>2. Batch \in Nat
  BY StreamAssumption
<1>3. ListAfter(last) = Least(Batch, S)
  BY DEF ListAfter
<1>4. Least(Batch, S) \subseteq S
  BY DEF Least
<1>5. ASSUME NEW e \in log, NEW f \in Least(Batch, S), last < e, e < f
      PROVE  e \in Least(Batch, S)
  <2>1. e \in S
    BY <1>5 DEF StreamTypes
  <2> HIDE DEF S
  <2>2. QED
    BY <1>1, <1>2, <1>5, <2>1, LeastIsPrefix
<1>6. QED
  BY <1>3, <1>4, <1>5

\* Only stream s moves, and fits if the client reads from it.
LEMMA StreamMoves ==
  ASSUME StreamInv, NEW s \in Streams, NEW q \in StreamRow,
         stream' = [stream EXCEPT ![s] = q], current = s => StreamFits(q),
         UNCHANGED <<ids, log, producer, current, wire, received>>
  PROVE  StreamInv'
<1>1. StreamTypes'
  BY DEF StreamInv, StreamTypes
<1>2. CommitsInTurn'
  BY DEF StreamInv, CommitsInTurn
<1>3. Got' = Got
  BY DEF Got
<1>4. FramesFollow'
  BY <1>3 DEF StreamInv, FramesFollow, PrefixOfLog
<1>5. current # None => StreamFits(stream[current])'
  <2> SUFFICES ASSUME current # None PROVE StreamFits(stream[current])'
    OBVIOUS
  <2>1. current \in Streams
    BY DEF StreamInv, StreamTypes
  <2>2. PICK r : r = stream'[current]
    OBVIOUS
  <2>3. StreamFits(r)
    BY <2>1, <2>2 DEF StreamInv, StreamTypes
  <2>4. StreamFits(r)'
    BY <1>3, <2>3 DEF StreamFits
  <2>5. QED
    BY <2>2, <2>4
<1>6. QED
  BY <1>1, <1>2, <1>4, <1>5 DEF StreamInv

LEMMA StreamFields ==
  ASSUME StreamTypes, NEW s \in Streams
  PROVE  /\ stream[s] \in StreamRow
         /\ stream[s].pc \in {"closed", "open", "replay", "loop", "wait", "tail"}
         /\ stream[s].last \in Nat /\ stream[s].rows \in SUBSET Nat
         /\ stream[s].wakes \in Nat /\ stream[s].ends \in BOOLEAN
<1>1. stream[s] \in StreamRow
  BY DEF StreamTypes
<1>2. QED
  BY <1>1 DEF StreamRow

LEMMA StreamNow ==
  ASSUME StreamInv, NEW s \in Streams, current = s PROVE StreamFits(stream[s])
BY StreamAssumption DEF StreamInv

\* A stream reads the log and holds the rows after its cursor.
LEMMA LoadKeeps ==
  ASSUME StreamInv, NEW s \in Streams, NEW q \in StreamRow,
         stream[s].pc # "closed", stream' = [stream EXCEPT ![s] = q],
         q.last = stream[s].last, q.rows = ListAfter(stream[s].last),
         UNCHANGED <<ids, log, producer, current, wire, received>>
  PROVE  StreamInv'
<1>1. StreamTypes /\ stream[s].last \in Nat
  BY StreamFields DEF StreamInv
<1>2. PICK l \in Nat : l = stream[s].last
  BY <1>1
<1>3. /\ q.rows \subseteq {e \in log : e > l}
      /\ \A e \in log, f \in q.rows : l < e /\ e < f => e \in q.rows
  BY <1>1, <1>2, RowsFollow
<1>4. current = s => StreamFits(q)
  BY <1>2, <1>3, StreamNow DEF StreamFits
<1>5. QED
  BY <1>4, StreamMoves

LEMMA LoadedIs ==
  ASSUME StreamTypes, NEW s \in Streams,
         NEW pc \in {"replay", "tail"}
  PROVE  /\ Loaded(s, pc) \in StreamRow
         /\ Loaded(s, pc).last = stream[s].last /\ Loaded(s, pc).wakes = stream[s].wakes
         /\ Loaded(s, pc).rows = ListAfter(stream[s].last)
<1>1. stream[s] \in StreamRow /\ stream[s].last \in Nat
  BY StreamFields
<1>2. PICK rows : rows = ListAfter(stream[s].last)
  OBVIOUS
<1>3. rows \in SUBSET Nat
  <2>1. rows \subseteq {e \in log : e > stream[s].last}
    BY <1>1, <1>2, RowsFollow
  <2>2. log \subseteq Nat
    BY DEF StreamTypes
  <2>3. QED
    BY <2>1, <2>2
<1>4. PICK ends \in BOOLEAN : ends = (rows \cap terminal # {})
  OBVIOUS
<1> DEFINE a == [stream[s] EXCEPT !.pc = pc]
           b == [a EXCEPT !.rows = rows]
           c == [b EXCEPT !.ends = ends]
<1>5. Loaded(s, pc) = c
  BY <1>2, <1>4 DEF Loaded
<1>6. a \in StreamRow /\ a.last = stream[s].last /\ a.wakes = stream[s].wakes
  BY <1>1 DEF StreamRow
<1> HIDE DEF a
<1>7. b \in StreamRow /\ b.last = stream[s].last /\ b.wakes = stream[s].wakes /\ b.rows = rows
  BY <1>3, <1>6 DEF StreamRow
<1> HIDE DEF b
<1>8. c \in StreamRow /\ c.last = stream[s].last /\ c.wakes = stream[s].wakes /\ c.rows = rows
  BY <1>4, <1>7 DEF StreamRow
<1>9. QED
  BY <1>2, <1>5, <1>8

LEMMA ReplayKeeps == ASSUME StreamInv, NEW s \in Streams, Replay(s) PROVE StreamInv'
<1>1. PICK q : q = Loaded(s, "replay")
  OBVIOUS
<1>2. /\ stream' = [stream EXCEPT ![s] = q] /\ stream[s].pc # "closed"
      /\ UNCHANGED <<ids, log, producer, current, wire, received>>
  BY <1>1 DEF Replay, Serve
<1>3. q \in StreamRow /\ q.last = stream[s].last /\ q.rows = ListAfter(stream[s].last)
  BY <1>1, LoadedIs DEF StreamInv
<1>4. QED
  BY <1>2, <1>3, LoadKeeps

LEMMA WakeKeeps == ASSUME StreamInv, NEW s \in Streams, Wake(s) PROVE StreamInv'
<1>1. PICK a : a = Loaded(s, "tail")
  OBVIOUS
<1>2. /\ stream' = [stream EXCEPT ![s] = [a EXCEPT !.wakes = a.wakes - 1]]
      /\ stream[s].pc # "closed" /\ stream[s].wakes > 0
      /\ UNCHANGED <<ids, log, producer, current, wire, received>>
  BY <1>1 DEF Wake, Serve
<1>3. /\ a \in StreamRow /\ a.last = stream[s].last /\ a.rows = ListAfter(stream[s].last)
      /\ a.wakes = stream[s].wakes
  BY <1>1, LoadedIs DEF StreamInv
<1>4. a.wakes \in Nat /\ a.wakes > 0
  BY <1>2, <1>3, StreamFields DEF StreamInv
<1> DEFINE q == [a EXCEPT !.wakes = a.wakes - 1]
<1>5. q \in StreamRow /\ q.last = a.last /\ q.rows = a.rows
  BY <1>3, <1>4 DEF StreamRow
<1> HIDE DEF q
<1>6. stream' = [stream EXCEPT ![s] = q]
  BY <1>2 DEF q
<1>7. q.last = stream[s].last /\ q.rows = ListAfter(stream[s].last)
  BY <1>3, <1>5
<1>8. stream[s].pc # "closed" /\ q \in StreamRow
  BY <1>2, <1>5
<1>9. UNCHANGED <<ids, log, producer, current, wire, received>>
  BY <1>2
<1>10. QED
  BY <1>6, <1>7, <1>8, <1>9, LoadKeeps

\* A stream goes on with what it holds, or is closed.
LEMMA GoOnKeeps ==
  ASSUME StreamInv, NEW s \in Streams, NEW pc \in {"loop", "wait"},
         stream[s].pc # "closed",
         \/ stream' = [stream EXCEPT ![s] = [stream[s] EXCEPT !.pc = pc]]
         \/ stream' = [stream EXCEPT ![s] = Closed],
         UNCHANGED <<ids, log, producer, current, wire, received>>
  PROVE  StreamInv'
<1>1. stream[s] \in StreamRow
  BY StreamFields DEF StreamInv
<1>2. CASE stream' = [stream EXCEPT ![s] = Closed]
  <2>1. Closed \in StreamRow /\ StreamFits(Closed)
    BY ClosedRow DEF StreamFits
  <2>2. QED
    BY <1>2, <2>1, StreamMoves
<1>3. CASE stream' = [stream EXCEPT ![s] = [stream[s] EXCEPT !.pc = pc]]
  <2> DEFINE q == [stream[s] EXCEPT !.pc = pc]
  <2>1. q \in StreamRow /\ q.last = stream[s].last /\ q.rows = stream[s].rows
    BY <1>1 DEF StreamRow
  <2>2. stream' = [stream EXCEPT ![s] = q]
    BY <1>3
  <2> HIDE DEF q
  <2>3. current = s => StreamFits(q)
    BY <2>1, StreamNow DEF StreamFits
  <2>4. QED
    BY <2>1, <2>2, <2>3, StreamMoves
<1>4. QED
  BY <1>2, <1>3

LEMMA SentKeeps == ASSUME StreamInv, NEW s \in Streams, Sent(s) PROVE StreamInv'
<1>1. /\ stream[s].pc # "closed" /\ "loop" \in {"loop", "wait"}
      /\ \/ stream' = [stream EXCEPT ![s] = [stream[s] EXCEPT !.pc = "loop"]]
         \/ stream' = [stream EXCEPT ![s] = Closed]
      /\ UNCHANGED <<ids, log, producer, current, wire, received>>
  BY DEF Sent, Serve
<1>2. QED
  BY <1>1, GoOnKeeps

LEMMA LeaveStreamKeeps == ASSUME StreamInv, NEW s \in Streams, Leave(s) PROVE StreamInv'
<1>1. /\ stream[s].pc # "closed" /\ "loop" \in {"loop", "wait"}
      /\ stream' = [stream EXCEPT ![s] = Closed]
      /\ UNCHANGED <<ids, log, producer, current, wire, received>>
  BY DEF Leave, Serve
<1>2. QED
  BY <1>1, GoOnKeeps

LEMMA WaitKeeps ==
  ASSUME StreamInv, NEW s \in Streams, Wait(s) \/ Heartbeat(s) PROVE StreamInv'
<1>1. PICK pc \in {"loop", "wait"} :
        stream' = [stream EXCEPT ![s] = [stream[s] EXCEPT !.pc = pc]]
  BY DEF Wait, Heartbeat, Serve
<1>2. /\ stream[s].pc # "closed"
      /\ UNCHANGED <<ids, log, producer, current, wire, received>>
  BY DEF Wait, Heartbeat, Serve
<1>3. QED
  BY <1>1, <1>2, GoOnKeeps

LEMMA SendKeeps == ASSUME StreamInv, NEW s \in Streams, Send(s) PROVE StreamInv'
<1>1. StreamTypes /\ stream[s] \in StreamRow /\ stream[s].rows \in SUBSET Nat
      /\ stream[s].last \in Nat /\ FramesFollow /\ CommitsInTurn
  BY StreamFields DEF StreamInv
<1>2. PICK e : e = Min(stream[s].rows)
  OBVIOUS
<1>3. /\ stream[s].rows # {} /\ stream[s].pc # "closed"
      /\ stream' = [stream EXCEPT ![s] =
                      [stream[s] EXCEPT !.rows = stream[s].rows \ {e}, !.last = e]]
      /\ wire' = IF current = s THEN wire \cup {e} ELSE wire
      /\ UNCHANGED <<ids, log, producer, current, received>>
  BY <1>2 DEF Send, Serve
<1>4. e \in stream[s].rows /\ e \in Nat /\ \A x \in stream[s].rows : e <= x
  BY <1>1, <1>2, <1>3, LeastNatural
<1> DEFINE a == [stream[s] EXCEPT !.rows = stream[s].rows \ {e}]
           q == [a EXCEPT !.last = e]
<1>5. a \in StreamRow /\ a.rows = stream[s].rows \ {e} /\ a.pc = stream[s].pc
  BY <1>1 DEF StreamRow
<1>6. stream' = [stream EXCEPT ![s] = q]
  BY <1>3
<1> HIDE DEF a
<1>7. q \in StreamRow /\ q.rows = stream[s].rows \ {e} /\ q.last = e /\ q.pc = stream[s].pc
  BY <1>4, <1>5 DEF StreamRow
<1> HIDE DEF q
<1>8. CASE current # s
  BY <1>3, <1>6, <1>7, <1>8, StreamMoves
<1>9. CASE current = s
  <2>0. PICK r \in StreamRow : r = q
    BY <1>7
  <2>1. PICK l \in Nat : l = stream[s].last
    BY <1>1
  <2>2. /\ Got \cup wire = {x \in log : x <= l} /\ log \subseteq Nat
        /\ stream[s].rows \subseteq {x \in log : x > l}
        /\ \A x \in log, y \in stream[s].rows : l < x /\ x < y => x \in stream[s].rows
    BY <1>1, <1>3, <1>9, <2>1, StreamNow DEF StreamFits, StreamTypes
  <2>3. wire' = wire \cup {e} /\ e \in log /\ e > l /\ Got' = Got
    BY <1>3, <1>4, <1>9, <2>2 DEF Got
  <2>4. \A x \in log : x <= e <=> x <= l \/ x = e
    <3> SUFFICES ASSUME NEW x \in log, x <= e, ~(x <= l), x # e PROVE FALSE
      BY <1>4, <2>2, <2>3
    <3>1. x \in Nat /\ l < x /\ x < e
      BY <1>4, <2>2
    <3>2. x \in stream[s].rows
      BY <1>4, <2>2, <3>1
    <3>3. QED
      BY <1>4, <3>1, <3>2
  <2>5. Got \cup wire' = {x \in log : x <= e}
    BY <2>2, <2>3, <2>4
  <2>6. FramesFollow'
    <3>1. \A i, j \in DOMAIN received' : i < j => received'[i] < received'[j]
      BY <1>1, <1>3 DEF FramesFollow
    <3>2. PrefixOfLog(Got)'
      BY <1>1, <1>3, <2>3 DEF FramesFollow, PrefixOfLog
    <3>3. PrefixOfLog(Got \cup wire)'
      BY <1>3, <1>4, <2>2, <2>3, <2>5 DEF PrefixOfLog
    <3>4. \A x \in Got, y \in wire' : x < y
      <4>1. \A x \in Got : x \in log /\ x <= l
        BY <2>2
      <4>2. \A x \in Got : x < e
        <5> SUFFICES ASSUME NEW x \in Got PROVE x < e
          OBVIOUS
        <5>1. x \in Nat /\ x <= l
          BY <2>2, <4>1
        <5>2. QED
          BY <1>4, <2>3, <5>1
      <4>3. QED
        BY <1>1, <2>3, <4>2 DEF FramesFollow
    <3>5. QED
      BY <2>3, <3>1, <3>2, <3>3, <3>4 DEF FramesFollow
  <2>7. stream'[current'] = r
    BY <1>1, <1>3, <1>6, <1>9, <2>0 DEF StreamTypes
  <2>8. StreamFits(r)'
    <3>1. r.rows \subseteq {x \in log : x > e}
      <4> SUFFICES ASSUME NEW x \in stream[s].rows, x # e PROVE x \in log /\ x > e
        BY <1>7, <2>0
      <4>1. x \in log /\ x \in Nat /\ e <= x
        BY <1>4, <2>2
      <4>2. QED
        BY <1>4, <4>1
    <3>2. \A x \in log, y \in r.rows : e < x /\ x < y => x \in r.rows
      BY <1>4, <1>7, <2>0, <2>1, <2>2, <2>3
    <3>3. log' = log /\ Got' \cup wire' = {x \in log : x <= e}
      BY <1>3, <2>3, <2>5
    <3>4. r.last \in log' \cup {0} /\ Got' \cup wire' = {x \in log' : x <= r.last}
      BY <1>7, <2>0, <2>3, <3>3
    <3>5. r.rows \subseteq {x \in log' : x > r.last}
      BY <1>7, <2>0, <3>1, <3>3
    <3>6. \A x \in log', y \in r.rows : r.last < x /\ x < y => x \in r.rows
      BY <1>7, <2>0, <3>2, <3>3
    <3>7. QED
      BY <3>4, <3>5, <3>6 DEF StreamFits
  <2>9. StreamTypes'
    BY <1>1, <1>3, <1>4, <1>6, <1>7, <2>3 DEF StreamTypes
  <2>10. CommitsInTurn'
    BY <1>1, <1>3 DEF CommitsInTurn
  <2>11. StreamFits(stream[current])'
    BY <2>7, <2>8
  <2>12. QED
    BY <2>6, <2>9, <2>10, <2>11 DEF StreamInv
<1>10. QED
  BY <1>8, <1>9

LEMMA ProducerFields ==
  ASSUME StreamTypes, NEW p \in Producers
  PROVE  producer[p] \in ProducerRow /\ producer[p].id \in Nat
<1>1. producer[p] \in ProducerRow
  BY DEF StreamTypes
<1>2. QED
  BY <1>1 DEF ProducerRow

\* A producer that does not hold a row moves, and the log stands.
LEMMA ProducerRests ==
  ASSUME StreamInv, NEW p \in Producers, NEW d \in ProducerRow, d.pc # "inserted",
         producer' = [producer EXCEPT ![p] = d], stream' \in [Streams -> StreamRow],
         \A s \in Streams : /\ stream'[s].pc = stream[s].pc
                            /\ stream'[s].last = stream[s].last
                            /\ stream'[s].rows = stream[s].rows,
         UNCHANGED <<ids, log, current, wire, received>>
  PROVE  StreamInv'
<1>1. StreamTypes'
  BY DEF StreamInv, StreamTypes
<1>2. producer'[p] = d /\ \A q \in Producers : q # p => producer'[q] = producer[q]
  BY DEF StreamInv, StreamTypes
<1>3. CommitsInTurn'
  BY <1>2 DEF StreamInv, CommitsInTurn
<1>4. Got' = Got
  BY DEF Got
<1>5. FramesFollow'
  BY <1>4 DEF StreamInv, FramesFollow, PrefixOfLog
<1>6. current # None => StreamFits(stream[current])'
  <2> SUFFICES ASSUME current # None PROVE StreamFits(stream[current])'
    OBVIOUS
  <2>1. current \in Streams /\ StreamFits(stream[current])
    BY DEF StreamInv, StreamTypes
  <2>2. PICK a, b : a = stream[current] /\ b = stream'[current]
    OBVIOUS
  <2>3. StreamFits(a) /\ b.pc = a.pc /\ b.last = a.last /\ b.rows = a.rows
    BY <2>1, <2>2
  <2>4. StreamFits(b)'
    BY <1>4, <2>3 DEF StreamFits
  <2>5. QED
    BY <2>2, <2>4
<1>7. QED
  BY <1>1, <1>3, <1>5, <1>6 DEF StreamInv

LEMMA AbortKeeps == ASSUME StreamInv, NEW p \in Producers, AbortEvent(p) PROVE StreamInv'
<1> DEFINE d == [producer[p] EXCEPT !.pc = "idle"]
<1>1. producer[p] \in ProducerRow /\ StreamTypes
  BY ProducerFields DEF StreamInv
<1>2. d \in ProducerRow /\ d.pc = "idle"
  BY <1>1 DEF ProducerRow
<1>3. producer' = [producer EXCEPT ![p] = d] /\ stream' = stream
      /\ UNCHANGED <<ids, log, current, wire, received>>
  BY DEF AbortEvent
<1> HIDE DEF d
<1>4. stream' \in [Streams -> StreamRow]
  BY <1>1, <1>3 DEF StreamTypes
<1>5. QED
  BY <1>2, <1>3, <1>4, ProducerRests

LEMMA PublishKeeps == ASSUME StreamInv, NEW p \in Producers, Publish(p) PROVE StreamInv'
<1> DEFINE d == [producer[p] EXCEPT !.pc = "idle"]
<1>1. producer[p] \in ProducerRow /\ StreamTypes
  BY ProducerFields DEF StreamInv
<1>2. d \in ProducerRow /\ d.pc = "idle"
  BY <1>1 DEF ProducerRow
<1>3. producer' = [producer EXCEPT ![p] = d]
      /\ UNCHANGED <<ids, log, current, wire, received>>
  BY DEF Publish
<1> HIDE DEF d
<1>4. ASSUME NEW s \in Streams
      PROVE  /\ stream'[s] \in StreamRow /\ stream'[s].pc = stream[s].pc
             /\ stream'[s].last = stream[s].last /\ stream'[s].rows = stream[s].rows
  <2>1. stream'[s] = IF Subscribed(s) THEN [stream[s] EXCEPT !.wakes = stream[s].wakes + 1]
                     ELSE stream[s]
    BY DEF Publish
  <2>2. stream[s] \in StreamRow /\ stream[s].wakes + 1 \in Nat
    BY <1>1, StreamFields
  <2>3. QED
    BY <2>1, <2>2 DEF StreamRow
<1>5. stream' \in [Streams -> StreamRow]
  <2>1. stream' = [s \in Streams |-> stream'[s]]
    BY DEF Publish
  <2>2. QED
    BY <1>4, <2>1
<1>6. QED
  BY <1>2, <1>3, <1>4, <1>5, ProducerRests

LEMMA InsertKeeps == ASSUME StreamInv, NEW p \in Producers, Insert(p) PROVE StreamInv'
<1>1. PICK n : n = ids + 1
  OBVIOUS
<1> DEFINE d == [pc |-> "inserted", id |-> n]
<1>2. /\ ids' = n /\ producer' = [producer EXCEPT ![p] = d]
      /\ UNCHANGED <<log, stream, current, wire, received>>
  BY <1>1 DEF Insert
<1>3. StreamTypes /\ ids \in Nat /\ n \in Nat
  BY <1>1 DEF StreamInv, StreamTypes
<1>4. d \in ProducerRow /\ d.pc = "inserted" /\ d.id = n
  BY <1>3 DEF ProducerRow
<1> HIDE DEF d
<1>5. producer'[p] = d /\ \A q \in Producers : q # p => producer'[q] = producer[q]
  BY <1>2, <1>3 DEF StreamTypes
<1>6. StreamTypes'
  BY <1>1, <1>2, <1>3, <1>4 DEF StreamTypes
<1>7. \A e \in log : e < n
  BY <1>1, <1>3 DEF StreamTypes
<1>8. \A q \in Producers : producer[q].pc = "inserted" =>
        producer[q].id \in 1 .. n /\ producer[q].id < n
  BY <1>1, <1>3 DEF StreamInv, CommitsInTurn
<1>9. CommitsInTurn'
  <2>1. \A q \in Producers : producer'[q].pc = "inserted" =>
          producer'[q].id \in 1 .. n /\ \A e \in log : e < producer'[q].id
    <3> SUFFICES ASSUME NEW q \in Producers, producer'[q].pc = "inserted"
                 PROVE  producer'[q].id \in 1 .. n /\ \A e \in log : e < producer'[q].id
      OBVIOUS
    <3>1. CASE q = p
      BY <1>1, <1>3, <1>4, <1>5, <1>7, <3>1
    <3>2. CASE q # p
      BY <1>5, <1>8, <3>2 DEF StreamInv, CommitsInTurn
    <3>3. QED
      BY <3>1, <3>2
  <2>2. \A q, r \in Producers :
          producer'[q].pc = "inserted" /\ producer'[r].pc = "inserted" /\ q # r =>
            producer'[q].id # producer'[r].id
    <3> SUFFICES ASSUME NEW q \in Producers, NEW r \in Producers, q # r,
                        producer'[q].pc = "inserted", producer'[r].pc = "inserted"
                 PROVE  producer'[q].id # producer'[r].id
      OBVIOUS
    <3>1. CASE q = p
      BY <1>3, <1>4, <1>5, <1>8, <3>1
    <3>2. CASE r = p
      BY <1>3, <1>4, <1>5, <1>8, <3>2
    <3>3. CASE q # p /\ r # p
      BY <1>5, <3>3 DEF StreamInv, CommitsInTurn
    <3>4. QED
      BY <3>1, <3>2, <3>3
  <2>3. QED
    BY <1>2, <2>1, <2>2 DEF CommitsInTurn
<1>10. Got' = Got
  BY <1>2 DEF Got
<1>11. FramesFollow'
  BY <1>2, <1>10 DEF StreamInv, FramesFollow, PrefixOfLog
<1>12. (current # None => StreamFits(stream[current]))'
  BY <1>2, <1>10 DEF StreamInv, StreamFits
<1>13. QED
  BY <1>6, <1>9, <1>11, <1>12 DEF StreamInv

\* What commits follows all that has committed.
LEMMA CommitKeeps ==
  ASSUME StreamInv, Ordered = TRUE, NEW p \in Producers, CommitEvent(p) PROVE StreamInv'
<1>1. PICK n : n = producer[p].id
  OBVIOUS
<1>2. PICK pc \in {"idle", "committed"} : pc = IF p \in Remote THEN "idle" ELSE "committed"
  OBVIOUS
<1> DEFINE d == [producer[p] EXCEPT !.pc = pc]
<1>3. /\ producer[p].pc = "inserted" /\ InTurn(p) /\ log' = log \cup {n}
      /\ producer' = [producer EXCEPT ![p] = d]
      /\ UNCHANGED <<ids, stream, current, wire, received>>
  BY <1>1, <1>2 DEF CommitEvent
<1>4. /\ StreamTypes /\ CommitsInTurn /\ FramesFollow /\ producer[p] \in ProducerRow
      /\ ids \in Nat /\ log \subseteq Nat
  BY ProducerFields DEF StreamInv, StreamTypes
<1>5. d \in ProducerRow /\ d.pc # "inserted"
  BY <1>2, <1>4 DEF ProducerRow
<1> HIDE DEF d
<1>6. producer'[p] = d /\ \A q \in Producers : q # p => producer'[q] = producer[q]
  BY <1>3, <1>4 DEF StreamTypes
<1>7. n \in 1 .. ids /\ n \in Nat /\ \A e \in log : e < n
  BY <1>1, <1>3, <1>4 DEF CommitsInTurn
<1>8. StreamTypes'
  BY <1>3, <1>4, <1>5, <1>7 DEF StreamTypes
<1>9. CommitsInTurn'
  <2>1. \A q \in Producers : producer'[q].pc = "inserted" =>
          producer'[q].id \in 1 .. ids /\ \A e \in log' : e < producer'[q].id
    <3> SUFFICES ASSUME NEW q \in Producers, producer'[q].pc = "inserted"
                 PROVE  producer'[q].id \in 1 .. ids /\ \A e \in log' : e < producer'[q].id
      OBVIOUS
    <3>1. q # p /\ producer'[q] = producer[q]
      BY <1>5, <1>6
    <3>2. n < producer[q].id
      BY <1>1, <1>3, <3>1 DEF InTurn
    <3>3. QED
      BY <1>3, <1>4, <3>1, <3>2 DEF CommitsInTurn
  <2>2. \A q, r \in Producers :
          producer'[q].pc = "inserted" /\ producer'[r].pc = "inserted" /\ q # r =>
            producer'[q].id # producer'[r].id
    BY <1>4, <1>5, <1>6 DEF CommitsInTurn
  <2>3. QED
    BY <1>3, <2>1, <2>2 DEF CommitsInTurn
<1>10. Got' = Got /\ wire' = wire
  BY <1>3 DEF Got
<1>11. ASSUME NEW S, PrefixOfLog(S) PROVE PrefixOfLog(S)'
  <2>1. S \subseteq log' /\ \A f \in S : f \in Nat /\ f < n
    BY <1>3, <1>4, <1>7, <1>11 DEF PrefixOfLog
  <2>2. ASSUME NEW e \in log', NEW f \in S, e < f PROVE e \in S
    <3>1. e # n
      BY <1>7, <2>1, <2>2
    <3>2. QED
      BY <1>3, <1>11, <2>2, <3>1 DEF PrefixOfLog
  <2>3. QED
    BY <2>1, <2>2 DEF PrefixOfLog
<1>12. FramesFollow'
  <2>1. PICK A, B : A = Got /\ B = Got \cup wire
    OBVIOUS
  <2>2. PrefixOfLog(A)' /\ PrefixOfLog(B)' /\ A = Got' /\ B = Got' \cup wire'
    BY <1>4, <1>10, <1>11, <2>1 DEF FramesFollow
  <2>3. PrefixOfLog(Got)' /\ PrefixOfLog(Got \cup wire)'
    BY <2>2
  <2>4. QED
    BY <1>3, <1>4, <1>10, <2>3 DEF FramesFollow
<1>13. current # None => StreamFits(stream[current])'
  <2> SUFFICES ASSUME current # None PROVE StreamFits(stream[current])'
    OBVIOUS
  <2>1. PICK q : q = stream[current]
    OBVIOUS
  <2>2. StreamFits(q)
    BY <2>1 DEF StreamInv
  <2>3. CASE q.pc = "closed"
    <3>1. StreamFits(q)'
      BY <2>3 DEF StreamFits
    <3>2. QED
      BY <1>3, <2>1, <3>1
  <2>4. CASE q.pc # "closed"
    <3>1. PICK l : l = q.last
      OBVIOUS
    <3>2. /\ l \in log \cup {0} /\ Got \cup wire = {e \in log : e <= l}
          /\ q.rows \subseteq {e \in log : e > l}
          /\ \A e \in log, f \in q.rows : l < e /\ e < f => e \in q.rows
      BY <2>2, <2>4, <3>1 DEF StreamFits
    <3>3. l \in Nat /\ l < n /\ ~(n <= l)
      BY <1>4, <1>7, <3>2
    <3>4. l \in log' \cup {0} /\ Got' \cup wire' = {e \in log' : e <= l}
      BY <1>3, <1>10, <3>2, <3>3
    <3>5. q.rows \subseteq {e \in log' : e > l} /\ \A f \in q.rows : f \in log
      BY <1>3, <3>2
    <3>6. \A e \in log', f \in q.rows : l < e /\ e < f => e \in q.rows
      <4> SUFFICES ASSUME NEW e \in log', NEW f \in q.rows, l < e, e < f PROVE e \in q.rows
        OBVIOUS
      <4>1. f < n /\ f \in Nat
        BY <1>4, <1>7, <3>5
      <4>2. e # n
        BY <1>7, <4>1
      <4>3. QED
        BY <1>3, <3>2, <4>2
    <3>7. StreamFits(q)'
      BY <3>1, <3>4, <3>5, <3>6 DEF StreamFits
    <3>8. QED
      BY <1>3, <2>1, <3>7
  <2>5. QED
    BY <2>3, <2>4
<1>14. (current # None => StreamFits(stream[current]))'
  BY <1>3, <1>13
<1>15. QED
  BY <1>8, <1>9, <1>12, <1>14 DEF StreamInv

\* What has been received is what has committed up to the cursor.
LEMMA CursorIs ==
  ASSUME StreamTypes, FramesFollow
  PROVE  Cursor \in log \cup {0} /\ Cursor \in Nat /\ Got = {e \in log : e <= Cursor}
<1>1. log \subseteq Nat /\ \A e \in log : e >= 1
  BY DEF StreamTypes
<1>2. /\ received \in Seq(Nat) /\ Len(received) \in Nat /\ DOMAIN received = 1 .. Len(received)
      /\ \A i \in DOMAIN received : received[i] \in Nat
  BY LenProperties, ElementOfSeq DEF StreamTypes
<1>3. CASE received = <<>>
  <2>1. Cursor = 0 /\ Got = {}
    BY <1>3 DEF Cursor, Got
  <2>2. \A e \in log : ~(e <= 0)
    BY <1>1
  <2>3. {e \in log : e <= 0} = {}
    BY <2>2
  <2>4. QED
    BY <2>1, <2>3
<1>4. CASE received # <<>>
  <2>1. PICK l \in Nat : l = Len(received)
    BY <1>2
  <2>2. l \in DOMAIN received /\ Cursor = received[l]
    BY <1>2, <1>4, <2>1 DEF Cursor, Last
  <2>3. PICK c \in Nat : c = received[l]
    BY <1>2, <2>2
  <2>4. \A i \in DOMAIN received : received[i] <= c
    <3> SUFFICES ASSUME NEW i \in DOMAIN received PROVE received[i] <= c
      OBVIOUS
    <3>1. CASE i = l
      BY <2>3, <3>1
    <3>2. CASE i # l
      <4>1. i < l
        BY <1>2, <2>1, <3>2
      <4>2. received[i] < received[l] /\ received[i] \in Nat
        BY <1>2, <2>2, <4>1 DEF FramesFollow
      <4>3. QED
        BY <2>3, <4>2
    <3>3. QED
      BY <3>1, <3>2
  <2>5. c \in Got /\ \A e \in Got : e <= c
    BY <2>2, <2>3, <2>4 DEF Got
  <2>6. Got \subseteq log /\ \A e \in log : e < c => e \in Got
    BY <2>5 DEF FramesFollow, PrefixOfLog
  <2>7. \A e \in log : e <= c => e \in Got
    <3> SUFFICES ASSUME NEW e \in log, e <= c PROVE e \in Got
      OBVIOUS
    <3>1. e \in Nat /\ (e < c \/ e = c)
      BY <1>1
    <3>2. QED
      BY <2>5, <2>6, <3>1
  <2>8. Got = {e \in log : e <= c}
    BY <2>5, <2>6, <2>7
  <2>9. QED
    BY <2>2, <2>3, <2>5, <2>6, <2>8
<1>5. QED
  BY <1>3, <1>4

LEMMA ConnectKeeps == ASSUME StreamInv, NEW s \in Streams, Connect(s) PROVE StreamInv'
<1>1. StreamTypes /\ FramesFollow /\ CommitsInTurn
  BY DEF StreamInv
<1>2. PICK c \in Nat : c = Cursor
  BY <1>1, CursorIs
<1>3. c \in log \cup {0} /\ Got = {e \in log : e <= c}
  BY <1>1, <1>2, CursorIs
<1>4. /\ current' = s /\ wire' = {} /\ UNCHANGED <<ids, log, producer, received>>
      /\ stream' = [stream EXCEPT ![s] = [Closed EXCEPT !.pc = "open", !.last = c]]
  BY <1>2 DEF Connect
<1>5. PICK q \in StreamRow : q = [Closed EXCEPT !.pc = "open", !.last = c]
                             /\ q.last = c /\ q.rows = {}
  <2> DEFINE a == [Closed EXCEPT !.pc = "open"]
             b == [a EXCEPT !.last = c]
  <2>1. a \in StreamRow /\ a.rows = {}
    BY ClosedRow DEF StreamRow
  <2>2. b = [Closed EXCEPT !.pc = "open", !.last = c]
    OBVIOUS
  <2> HIDE DEF a
  <2>3. b \in StreamRow /\ b.last = c /\ b.rows = {}
    BY <2>1 DEF StreamRow
  <2>4. QED
    BY <2>2, <2>3
<1>6. stream' \in [Streams -> StreamRow] /\ stream'[s] = q
  BY <1>1, <1>4, <1>5 DEF StreamTypes
<1>7. StreamTypes'
  BY <1>1, <1>4, <1>6 DEF StreamTypes
<1>8. CommitsInTurn'
  BY <1>1, <1>4 DEF CommitsInTurn
<1>9. Got' = Got /\ Got \cup wire' = Got
  BY <1>4 DEF Got
<1>10. FramesFollow'
  BY <1>1, <1>4, <1>9 DEF FramesFollow, PrefixOfLog
<1>11. StreamFits(q)'
  BY <1>3, <1>4, <1>5, <1>9 DEF StreamFits
<1>12. StreamFits(stream[current])'
  BY <1>4, <1>6, <1>11
<1>13. QED
  BY <1>7, <1>8, <1>10, <1>12 DEF StreamInv

LEMMA ReceiveKeeps == ASSUME StreamInv, Receive PROVE StreamInv'
<1>1. StreamTypes /\ FramesFollow /\ CommitsInTurn
  BY DEF StreamInv
<1>2. PICK m : m = Min(wire)
  OBVIOUS
<1>3. /\ wire # {} /\ received' = Append(received, m) /\ wire' = wire \ {m}
      /\ UNCHANGED <<ids, log, producer, stream, current>>
  BY <1>2 DEF Receive
<1>4. wire \in SUBSET Nat
  BY <1>1 DEF StreamTypes
<1>5. m \in wire /\ m \in Nat /\ \A x \in wire : m <= x
  BY <1>2, <1>3, <1>4, LeastNatural
<1>6. PICK l \in Nat : l = Len(received) /\ DOMAIN received = 1 .. l
  BY <1>1, LenProperties DEF StreamTypes
<1>7. /\ received' \in Seq(Nat) /\ Len(received') = l + 1 /\ received'[l + 1] = m
      /\ \A i \in 1 .. l : received'[i] = received[i]
  BY <1>1, <1>3, <1>5, <1>6, AppendProperties DEF StreamTypes
<1>8. DOMAIN received' = 1 .. l + 1
  BY <1>7, LenProperties
<1>9. Got' = Got \cup {m}
  <2>1. \A x \in Got' : x \in Got \cup {m}
    <3> SUFFICES ASSUME NEW i \in 1 .. l + 1 PROVE received'[i] \in Got \cup {m}
      BY <1>8 DEF Got
    <3>1. CASE i = l + 1
      BY <1>7, <3>1
    <3>2. CASE i # l + 1
      <4>1. i \in 1 .. l
        BY <3>2
      <4>2. QED
        BY <1>6, <1>7, <4>1 DEF Got
    <3>3. QED
      BY <3>1, <3>2
  <2>2. m \in Got'
    <3>1. l + 1 \in DOMAIN received'
      BY <1>8
    <3>2. QED
      BY <1>7, <3>1 DEF Got
  <2>3. \A i \in 1 .. l : received[i] \in Got'
    <3> SUFFICES ASSUME NEW i \in 1 .. l PROVE received[i] \in Got'
      OBVIOUS
    <3>1. i \in DOMAIN received' /\ received'[i] = received[i]
      BY <1>7, <1>8
    <3>2. QED
      BY <3>1 DEF Got
  <2>4. \A x \in Got : x \in Got'
    BY <1>6, <2>3 DEF Got
  <2>5. QED
    BY <2>1, <2>2, <2>4
<1>10. Got' \cup wire' = Got \cup wire
  BY <1>3, <1>5, <1>9
<1>11. \A e \in Got : e < m /\ e \in Nat
  BY <1>1, <1>5 DEF FramesFollow, PrefixOfLog, StreamTypes
<1>12. FramesFollow'
  <2>1. \A i, j \in DOMAIN received' : i < j => received'[i] < received'[j]
    <3> SUFFICES ASSUME NEW i \in 1 .. l + 1, NEW j \in 1 .. l + 1, i < j
                 PROVE  received'[i] < received'[j]
      BY <1>8
    <3>1. i \in 1 .. l
      OBVIOUS
    <3>2. CASE j = l + 1
      <4>1. received[i] \in Got
        BY <1>6, <3>1 DEF Got
      <4>2. QED
        BY <1>7, <1>11, <3>1, <3>2, <4>1
    <3>3. CASE j # l + 1
      <4>1. j \in 1 .. l
        BY <3>3
      <4>2. QED
        BY <1>1, <1>6, <1>7, <3>1, <4>1 DEF FramesFollow
    <3>4. QED
      BY <3>2, <3>3
  <2>2. PrefixOfLog(Got \cup wire)'
    BY <1>1, <1>3, <1>10 DEF FramesFollow, PrefixOfLog
  <2>3. PrefixOfLog(Got)'
    <3>1. Got' \subseteq log
      BY <1>1, <1>5, <1>9 DEF FramesFollow, PrefixOfLog
    <3>2. ASSUME NEW e \in log, NEW f \in Got', e < f PROVE e \in Got'
      <4>1. CASE f \in Got
        BY <1>1, <1>9, <3>2, <4>1 DEF FramesFollow, PrefixOfLog
      <4>2. CASE f = m
        <5>1. e \in Got \cup wire
          BY <1>1, <1>5, <3>2, <4>2 DEF FramesFollow, PrefixOfLog
        <5>2. e \notin wire
          <6> SUFFICES ASSUME e \in wire PROVE FALSE
            OBVIOUS
          <6>1. e \in Nat /\ m <= e /\ e < m
            BY <1>4, <1>5, <3>2, <4>2
          <6>2. QED
            BY <1>5, <6>1
        <5>3. QED
          BY <1>9, <5>1, <5>2
      <4>3. QED
        BY <1>9, <4>1, <4>2
    <3>3. QED
      BY <1>3, <3>1, <3>2 DEF PrefixOfLog
  <2>4. \A e \in Got', f \in wire' : e < f
    <3> SUFFICES ASSUME NEW e \in Got', NEW f \in wire' PROVE e < f
      OBVIOUS
    <3>1. f \in wire /\ f # m /\ m <= f /\ f \in Nat
      BY <1>3, <1>4, <1>5
    <3>2. CASE e \in Got
      BY <1>1, <3>1, <3>2 DEF FramesFollow
    <3>3. CASE e = m
      BY <1>5, <3>1, <3>3
    <3>4. QED
      BY <1>9, <3>2, <3>3
  <2>5. QED
    BY <2>1, <2>2, <2>3, <2>4 DEF FramesFollow
<1>13. StreamTypes'
  BY <1>1, <1>3, <1>7 DEF StreamTypes
<1>14. CommitsInTurn'
  BY <1>1, <1>3 DEF CommitsInTurn
<1>15. (current # None => StreamFits(stream[current]))'
  BY <1>3, <1>10 DEF StreamInv, StreamFits
<1>16. QED
  BY <1>12, <1>13, <1>14, <1>15 DEF StreamInv

\* The client has no stream any more, and no frames under way.
LEMMA GoneKeeps ==
  ASSUME StreamInv, current' = None, wire' = {},
         UNCHANGED <<ids, log, producer, stream, received>>
  PROVE  StreamInv'
<1>1. Got' = Got /\ Got \cup wire' = Got
  BY DEF Got
<1>2. FramesFollow'
  BY <1>1 DEF StreamInv, FramesFollow, PrefixOfLog
<1>3. StreamTypes' /\ CommitsInTurn'
  BY DEF StreamInv, StreamTypes, CommitsInTurn
<1>4. QED
  BY <1>2, <1>3 DEF StreamInv

LEMMA StreamStepKeeps ==
  Ordered = TRUE /\ StreamInv /\ [StreamNext]_streamVars => StreamInv'
<1> SUFFICES ASSUME Ordered = TRUE, StreamInv, [StreamNext]_streamVars PROVE StreamInv'
  OBVIOUS
<1>1. ASSUME NEW p \in Producers, Insert(p) \/ CommitEvent(p) \/ AbortEvent(p) \/ Publish(p)
      PROVE  StreamInv'
  BY <1>1, InsertKeeps, CommitKeeps, AbortKeeps, PublishKeeps
<1>2. ASSUME NEW s \in Streams, StreamStep(s) PROVE StreamInv'
  BY <1>2, ReplayKeeps, SendKeeps, SentKeeps, LeaveStreamKeeps, WaitKeeps, WakeKeeps
  DEF StreamStep
<1>3. CASE EndOfStream \/ Drop
  <2>1. current' = None /\ wire' = {} /\ UNCHANGED <<ids, log, producer, stream, received>>
    BY <1>3 DEF EndOfStream, Drop
  <2>2. QED
    BY <2>1, GoneKeeps
<1>4. CASE UNCHANGED streamVars
  <2>1. UNCHANGED <<ids, log, producer, stream, current, wire, received>>
    BY <1>4 DEF streamVars
  <2>2. Got' = Got
    BY <2>1 DEF Got
  <2>3. StreamTypes' /\ CommitsInTurn'
    BY <2>1 DEF StreamInv, StreamTypes, CommitsInTurn
  <2>4. FramesFollow' /\ (current # None => StreamFits(stream[current]))'
    BY <2>1, <2>2 DEF StreamInv, FramesFollow, PrefixOfLog, StreamFits
  <2>5. QED
    BY <2>3, <2>4 DEF StreamInv
<1>5. QED
  BY <1>1, <1>2, <1>3, <1>4, ConnectKeeps, ReceiveKeeps DEF StreamNext

\* While events commit in the order of their ids, as they do from one worker,
\* and whatever is lost, woken late or aborted, the client has received
\* exactly the events up to its cursor, each once and in order.
THEOREM StreamsResume == ASSUME Ordered = TRUE PROVE StreamSafety => []ReceivedIsPrefix
<1>1. StreamInv => ReceivedIsPrefix
  <2> SUFFICES ASSUME StreamInv PROVE ReceivedIsPrefix
    OBVIOUS
  <2>1. Got = {e \in log : e <= Cursor} /\ Got = Range(received)
    BY CursorIs DEF StreamInv, Got, Range
  <2>2. QED
    BY <2>1 DEF StreamInv, FramesFollow, ReceivedIsPrefix
<1>2. StreamInv /\ [StreamNext]_streamVars => StreamInv'
  BY StreamStepKeeps
<1>3. QED
  BY <1>1, <1>2, StreamStart, PTL DEF StreamSafety

-----------------------------------------------------------------------------
(* Conversations                                                           *)

SummaryState == [version : Nat, of : SUBSET (1 .. MaxTurns),
                 sources : SUBSET (Evidence \cup Knowledge),
                 since : SUBSET (1 .. MaxTurns)]

RequestState ==
  [pc : {"idle", "asked", "answered", "reading", "summed", "written"},
   turn : 0 .. MaxTurns, question : Questions \cup {"plain"},
   cites : SUBSET (Evidence \cup Knowledge), loaded : SummaryState,
   since : SUBSET (1 .. MaxTurns), summary : SummaryState]

ConversationTypes ==
  /\ exists \in BOOLEAN /\ asked \in 0 .. MaxTurns /\ turns \in SUBSET (1 .. asked)
  /\ cites \in [1 .. MaxTurns -> SUBSET (Evidence \cup Knowledge)]
  /\ evidence \in SUBSET Evidence
  /\ stored \in SummaryState /\ request \in [Requests -> RequestState]

\* What request q takes turn t to have quoted.
CitedBy(q, t) == IF t = q.turn THEN q.cites ELSE cites[t]

\* The summary that q made covers what had committed when q began, nothing but
\* committed turns and its own, and quotes the turns it keeps.
MadeWell(q) ==
  /\ q.summary.since = q.since /\ q.since \subseteq q.summary.of
  /\ q.summary.of \subseteq turns \cup ({q.turn} \ {0})
  /\ \A x \in q.summary.sources :
       \E t \in Newest(Window, q.summary.of) : x \in CitedBy(q, t)

\* A question in progress has a turn that has not committed.
RequestFits(q) ==
  /\ q.turn <= asked /\ q.turn \notin turns
  /\ exists => q.since \subseteq turns
  /\ exists /\ q.pc \in {"summed", "written"} => MadeWell(q)

RequestsFit == \A r \in Requests : RequestFits(request[r])

OwnTurns ==
  \A r, s \in Requests : request[r].turn = request[s].turn /\ request[r].turn # 0 => r = s

StoredFits ==
  exists =>
    /\ stored.since \subseteq stored.of /\ stored.of \subseteq turns
    /\ \A x \in stored.sources : \E t \in Newest(Window, stored.of) : x \in cites[t]

ConversationInv == ConversationTypes /\ RequestsFit /\ OwnTurns /\ StoredFits

LEMMA NewestAmong == ASSUME NEW n, NEW T PROVE Newest(n, T) \subseteq T
BY DEF Newest

LEMMA EmptyRequest ==
  /\ NoSummary \in SummaryState /\ NoSummary.since = {} /\ NoSummary.of = {}
  /\ NoSummary.sources = {}
  /\ NoRequest \in RequestState /\ NoRequest.turn = 0 /\ NoRequest.since = {}
  /\ NoRequest.pc = "idle"
<1>1. /\ NoSummary \in SummaryState /\ NoSummary.since = {} /\ NoSummary.of = {}
      /\ NoSummary.sources = {}
  BY DEF NoSummary, SummaryState
<1>2. MaxTurns \in Nat
  BY ConversationAssumption
<1>3. QED
  BY <1>1, <1>2 DEF NoRequest, RequestState

LEMMA NoRequestFits ==
  ASSUME ConversationTypes PROVE RequestFits(NoRequest)
<1>1. 0 <= asked /\ 0 \notin turns
  BY ConversationAssumption DEF ConversationTypes
<1>2. QED
  BY <1>1, EmptyRequest DEF RequestFits

LEMMA ConversationStart == ConversationInit => ConversationInv
<1> SUFFICES ASSUME ConversationInit PROVE ConversationInv
  OBVIOUS
<1>1. /\ exists = TRUE /\ turns = {} /\ evidence = {} /\ asked = 0
      /\ cites = [t \in 1 .. MaxTurns |-> {}]
      /\ stored = NoSummary
      /\ request = [r \in Requests |-> NoRequest]
  BY DEF ConversationInit
<1>2. ConversationTypes
  BY <1>1, EmptyRequest, ConversationAssumption DEF ConversationTypes
<1>3. RequestsFit
  BY <1>1, <1>2, NoRequestFits DEF RequestsFit
<1>4. OwnTurns
  BY <1>1, EmptyRequest DEF OwnTurns
<1>5. StoredFits
  BY <1>1, EmptyRequest DEF StoredFits
<1>6. QED
  BY <1>2, <1>3, <1>4, <1>5 DEF ConversationInv

\* Request r becomes q, and no other changes.
MovesRequest(r, q) ==
  /\ request' \in [Requests -> RequestState] /\ request'[r] = q
  /\ \A s \in Requests \ {r} : request'[s] = request[s]

LEMMA RequestMoves ==
  ASSUME ConversationTypes, NEW r \in Requests, NEW q \in RequestState,
         request' = [request EXCEPT ![r] = q]
  PROVE  MovesRequest(r, q)
BY DEF ConversationTypes, MovesRequest

\* Nothing is committed: what holds of the request that moved is enough.
LEMMA RequestStep ==
  ASSUME ConversationInv, NEW r \in Requests, NEW q \in RequestState, MovesRequest(r, q),
         exists' = exists, turns' = turns, cites' = cites, stored' = stored,
         evidence' = evidence, asked' \in asked .. MaxTurns, RequestFits(q)',
         q.turn \in {0, request[r].turn} \/ q.turn > asked
  PROVE  ConversationInv'
<1>1. asked \in Nat /\ asked' \in Nat /\ asked <= asked' /\ asked' <= MaxTurns /\ MaxTurns \in Nat
  BY ConversationAssumption DEF ConversationInv, ConversationTypes
<1>2. ConversationTypes'
  BY <1>1 DEF ConversationInv, ConversationTypes, MovesRequest
<1>3. request'[r] = q /\ \A s \in Requests : s # r => request'[s] = request[s]
  BY DEF MovesRequest
<1>4. \A s \in Requests : /\ request[s].turn \in Nat /\ request[s].turn <= asked
  BY <1>1 DEF ConversationInv, ConversationTypes, RequestState, RequestsFit, RequestFits
<1>5. RequestsFit'
  <2> SUFFICES ASSUME NEW s \in Requests, s # r PROVE RequestFits(request[s])'
    BY <1>3 DEF RequestsFit
  <2>1. PICK p : p = request[s]
    OBVIOUS
  <2>2. RequestFits(p) /\ request'[s] = p /\ p.turn \in Nat
    BY <1>3, <1>4, <2>1 DEF ConversationInv, RequestsFit
  <2>3. MadeWell(p) => MadeWell(p)'
    BY DEF MadeWell, CitedBy
  <2>4. RequestFits(p)'
    BY <1>1, <2>2, <2>3 DEF RequestFits
  <2>5. QED
    BY <2>2, <2>4
<1>6. OwnTurns'
  <2> SUFFICES ASSUME NEW s \in Requests, NEW t \in Requests,
                      request'[s].turn = request'[t].turn, request'[s].turn # 0
               PROVE  s = t
    BY DEF OwnTurns
  <2>1. q.turn \in Nat
    BY <1>1 DEF RequestState
  <2>2. \A u \in Requests : u # r /\ q.turn # 0 => request[u].turn # q.turn
    BY <1>1, <1>4, <2>1 DEF ConversationInv, OwnTurns
  <2>3. CASE s = r \/ t = r
    BY <1>3, <2>2, <2>3
  <2>4. CASE s # r /\ t # r
    BY <1>3, <2>4 DEF ConversationInv, OwnTurns
  <2>5. QED
    BY <2>3, <2>4
<1>7. StoredFits'
  BY DEF ConversationInv, StoredFits
<1>8. QED
  BY <1>2, <1>5, <1>6, <1>7 DEF ConversationInv

LEMMA AskKeeps == ASSUME ConversationInv, NEW r \in Requests, Ask(r) PROVE ConversationInv'
<1>1. PICK x \in Questions :
        request' = [request EXCEPT ![r] =
                      [NoRequest EXCEPT !.pc = "asked", !.turn = asked',
                         !.question = x, !.loaded = stored, !.since = turns]]
  BY DEF Ask
<1>2. /\ exists' = exists /\ turns' = turns /\ cites' = cites /\ stored' = stored
      /\ evidence' = evidence /\ asked' = asked + 1 /\ asked < MaxTurns
  BY DEF Ask
<1>3. /\ ConversationTypes /\ asked \in Nat /\ MaxTurns \in Nat /\ stored \in SummaryState
      /\ turns \in SUBSET (1 .. asked)
  BY ConversationAssumption DEF ConversationInv, ConversationTypes
<1>6. PICK n : n = asked + 1
  OBVIOUS
<1>4. PICK q \in RequestState :
        /\ q = [NoRequest EXCEPT !.pc = "asked", !.turn = n, !.question = x,
                  !.loaded = stored, !.since = turns]
        /\ q.turn = n /\ q.pc = "asked" /\ q.since = turns
  <2> DEFINE a == [NoRequest EXCEPT !.pc = "asked"]
             b == [a EXCEPT !.turn = n]
             c == [b EXCEPT !.question = x]
             d == [c EXCEPT !.loaded = stored]
             e == [d EXCEPT !.since = turns]
  <2>1. a \in RequestState /\ a.pc = "asked"
    BY EmptyRequest DEF RequestState
  <2>2. e = [NoRequest EXCEPT !.pc = "asked", !.turn = n, !.question = x,
                  !.loaded = stored, !.since = turns]
    OBVIOUS
  <2> HIDE DEF a
  <2>3. b \in RequestState /\ b.pc = "asked" /\ b.turn = n
    BY <1>2, <1>3, <1>6, <2>1 DEF RequestState
  <2> HIDE DEF b
  <2>4. c \in RequestState /\ c.pc = "asked" /\ c.turn = n
    BY <2>3 DEF RequestState
  <2> HIDE DEF c
  <2>5. d \in RequestState /\ d.pc = "asked" /\ d.turn = n
    BY <1>3, <2>4 DEF RequestState
  <2> HIDE DEF d
  <2>6. e \in RequestState /\ e.pc = "asked" /\ e.turn = n /\ e.since = turns
    BY <1>2, <1>3, <2>5 DEF RequestState
  <2>7. QED
    BY <2>2, <2>6
<1>5. request' = [request EXCEPT ![r] = q]
  BY <1>1, <1>2, <1>4, <1>6
<1>7. MovesRequest(r, q)
  BY <1>3, <1>4, <1>5, RequestMoves
<1>8. RequestFits(q)'
  <2>1. q.turn <= asked' /\ q.turn \notin turns'
    BY <1>2, <1>3, <1>4, <1>6
  <2>2. QED
    BY <1>2, <1>4, <2>1 DEF RequestFits
<1>9. asked' \in asked .. MaxTurns /\ q.turn > asked
  BY <1>2, <1>3, <1>4, <1>6
<1>10. QED
  BY <1>2, <1>4, <1>7, <1>8, <1>9, RequestStep

\* A request whose answer or progress changes, and nothing it has summed.
LEMMA ProgressKeeps ==
  ASSUME ConversationInv, NEW r \in Requests, NEW q \in RequestState,
         request' = [request EXCEPT ![r] = q],
         q.turn = request[r].turn, q.since = request[r].since,
         exists /\ q.pc \in {"summed", "written"} => MadeWell(q),
         UNCHANGED <<exists, turns, cites, stored, evidence, asked>>
  PROVE  ConversationInv'
<1>1. ConversationTypes /\ RequestFits(request[r])
  BY DEF ConversationInv, RequestsFit
<1>2. MovesRequest(r, q)
  BY <1>1, RequestMoves
<1>3. /\ exists' = exists /\ turns' = turns /\ cites' = cites /\ stored' = stored
      /\ evidence' = evidence /\ asked' = asked
  OBVIOUS
<1>4. MadeWell(q) => MadeWell(q)'
  BY <1>3 DEF MadeWell, CitedBy
<1>5. RequestFits(q)'
  BY <1>1, <1>3, <1>4 DEF RequestFits
<1>6. asked' \in asked .. MaxTurns
  BY <1>1, <1>3, ConversationAssumption DEF ConversationTypes
<1>7. q.turn \in {0, request[r].turn}
  OBVIOUS
<1>8. QED
  BY <1>2, <1>3, <1>5, <1>6, <1>7, RequestStep

LEMMA RequestFields ==
  ASSUME ConversationTypes, NEW r \in Requests
  PROVE  /\ request[r] \in RequestState /\ request[r].turn \in 0 .. MaxTurns
         /\ request[r].cites \in SUBSET (Evidence \cup Knowledge)
         /\ request[r].loaded \in SummaryState /\ request[r].loaded.version \in Nat
         /\ request[r].since \in SUBSET (1 .. MaxTurns)
         /\ request[r].summary \in SummaryState
<1>1. request[r] \in RequestState
  BY DEF ConversationTypes
<1>2. /\ request[r].turn \in 0 .. MaxTurns /\ request[r].loaded \in SummaryState
      /\ request[r].cites \in SUBSET (Evidence \cup Knowledge)
      /\ request[r].since \in SUBSET (1 .. MaxTurns)
      /\ request[r].summary \in SummaryState
  BY <1>1 DEF RequestState
<1>3. request[r].loaded.version \in Nat
  BY <1>2 DEF SummaryState
<1>4. QED
  BY <1>1, <1>2, <1>3

LEMMA RespondKeeps ==
  ASSUME ConversationInv, NEW r \in Requests, Respond(r) PROVE ConversationInv'
<1>1. PICK C \in UpTo(MaxCited, Sources(request[r].question)) :
        request' = [request EXCEPT ![r].pc = "answered", ![r].cites = C]
  BY DEF Respond
<1>2. ConversationTypes /\ request[r] \in RequestState
  BY RequestFields DEF ConversationInv
<1>3. C \in SUBSET (Evidence \cup Knowledge)
  BY <1>2 DEF UpTo, Sources, ConversationTypes
<1> DEFINE c == [request[r] EXCEPT !.pc = "answered"]
           q == [c EXCEPT !.cites = C]
<1>4. /\ c \in RequestState /\ c.pc = "answered" /\ c.turn = request[r].turn
      /\ c.since = request[r].since
  BY <1>2 DEF RequestState
<1>5. request' = [request EXCEPT ![r] = q]
  BY <1>1, <1>2 DEF ConversationTypes
<1> HIDE DEF c
<1>6. /\ q \in RequestState /\ q.pc = "answered" /\ q.turn = request[r].turn
      /\ q.since = request[r].since
  BY <1>3, <1>4 DEF RequestState
<1> HIDE DEF q
<1>7. UNCHANGED <<exists, turns, cites, stored, evidence, asked>>
  BY DEF Respond
<1>8. QED
  BY <1>5, <1>6, <1>7, ProgressKeeps

\* What _refresh_summary makes is made well.
LEMMA SummaryIs ==
  ASSUME ConversationInv, NEW r \in Requests
  PROVE  /\ SummaryOf(r) \in SummaryState
         /\ SummaryOf(r).since = request[r].since
         /\ exists => request[r].since \subseteq SummaryOf(r).of
         /\ SummaryOf(r).of = turns \cup ({request[r].turn} \ {0})
         /\ \A x \in SummaryOf(r).sources :
              \E t \in Newest(Window, SummaryOf(r).of) : x \in CitedBy(request[r], t)
<1>1. ConversationTypes /\ RequestFits(request[r]) /\ asked \in Nat /\ asked <= MaxTurns
  BY ConversationAssumption DEF ConversationInv, RequestsFit, ConversationTypes
<1> DEFINE of == turns \cup ({request[r].turn} \ {0})
           cited == UNION {CitedBy(request[r], t) : t \in Newest(Window, of)}
<1>2. /\ request[r].turn \in 0 .. MaxTurns /\ request[r].loaded.version \in Nat
      /\ request[r].since \in SUBSET (1 .. MaxTurns)
      /\ request[r].cites \in SUBSET (Evidence \cup Knowledge)
  BY <1>1, RequestFields
<1>3. of \in SUBSET (1 .. MaxTurns)
  <2>1. turns \subseteq 1 .. MaxTurns
    BY <1>1, ConversationAssumption DEF ConversationTypes
  <2>2. {request[r].turn} \ {0} \subseteq 1 .. MaxTurns
    BY <1>2
  <2>3. QED
    BY <2>1, <2>2
<1>4. Newest(Window, of) \subseteq of
  BY NewestAmong
<1>5. \A t \in of : CitedBy(request[r], t) \in SUBSET (Evidence \cup Knowledge)
  BY <1>1, <1>2, <1>3 DEF CitedBy, ConversationTypes
<1>6. SummaryOf(r) = [version |-> request[r].loaded.version + 1, of |-> of,
                      sources |-> cited, since |-> request[r].since]
  BY DEF SummaryOf, CitedBy
<1> HIDE DEF of
<1>7. cited \in SUBSET (Evidence \cup Knowledge)
  BY <1>4, <1>5
<1>8. \A x \in cited : \E t \in Newest(Window, of) : x \in CitedBy(request[r], t)
  OBVIOUS
<1> HIDE DEF cited
<1>9. /\ SummaryOf(r).since = request[r].since /\ SummaryOf(r).of = of
      /\ SummaryOf(r).sources = cited
  BY <1>6
<1>10. SummaryOf(r) \in SummaryState
  BY <1>2, <1>3, <1>6, <1>7 DEF SummaryState
<1>11. of = turns \cup ({request[r].turn} \ {0})
  BY DEF of
<1>12. exists => request[r].since \subseteq of
  BY <1>1, <1>11 DEF RequestFits
<1>13. QED
  BY <1>8, <1>9, <1>10, <1>11, <1>12

LEMMA SumKeeps ==
  ASSUME ConversationInv, NEW r \in Requests,
         request' = [request EXCEPT ![r].pc = "summed", ![r].summary = SummaryOf(r)],
         UNCHANGED <<exists, turns, cites, stored, evidence, asked>>
  PROVE  ConversationInv'
<1>1. ConversationTypes /\ request[r] \in RequestState
  BY RequestFields DEF ConversationInv
<1> DEFINE c == [request[r] EXCEPT !.pc = "summed"]
           q == [c EXCEPT !.summary = SummaryOf(r)]
<1>2. /\ c \in RequestState /\ c.pc = "summed" /\ c.turn = request[r].turn
      /\ c.since = request[r].since /\ c.cites = request[r].cites
  BY <1>1 DEF RequestState
<1>3. request' = [request EXCEPT ![r] = q]
  BY <1>1 DEF ConversationTypes
<1> HIDE DEF c
<1>4. PICK m : m = SummaryOf(r)
  OBVIOUS
<1>5. m \in SummaryState
  BY <1>4, SummaryIs
<1>6. /\ q \in RequestState /\ q.pc = "summed" /\ q.turn = request[r].turn
      /\ q.since = request[r].since /\ q.cites = request[r].cites /\ q.summary = m
  BY <1>2, <1>4, <1>5 DEF RequestState
<1> HIDE DEF q
<1>7. /\ m.since = q.since /\ m.of = turns \cup ({q.turn} \ {0})
      /\ exists => q.since \subseteq m.of
      /\ \A x \in m.sources :
           \E t \in Newest(Window, m.of) : x \in CitedBy(request[r], t)
  BY <1>4, <1>6, SummaryIs
<1>8. \A t : CitedBy(q, t) = CitedBy(request[r], t)
  BY <1>6 DEF CitedBy
<1>9. exists => MadeWell(q)
  <2>1. \A x \in m.sources : \E t \in Newest(Window, m.of) : x \in CitedBy(q, t)
    BY <1>7, <1>8
  <2>2. QED
    BY <1>6, <1>7, <2>1 DEF MadeWell
<1>10. QED
  BY <1>3, <1>6, <1>9, ProgressKeeps

LEMMA WriteSummaryKeeps ==
  ASSUME ConversationInv, NEW r \in Requests, WriteSummary(r) PROVE ConversationInv'
<1>1. ConversationTypes /\ request[r] \in RequestState /\ RequestFits(request[r])
      /\ request[r].pc = "summed"
  BY RequestFields DEF ConversationInv, RequestsFit, WriteSummary
<1> DEFINE q == [request[r] EXCEPT !.pc = "written"]
<1>2. /\ q \in RequestState /\ q.turn = request[r].turn /\ q.since = request[r].since
      /\ q.cites = request[r].cites /\ q.summary = request[r].summary
  BY <1>1 DEF RequestState
<1>3. request' = [request EXCEPT ![r] = q]
  BY <1>1 DEF WriteSummary, ConversationTypes
<1> HIDE DEF q
<1>4. \A t : CitedBy(q, t) = CitedBy(request[r], t)
  BY <1>2 DEF CitedBy
<1>5. exists => MadeWell(q)
  BY <1>1, <1>2, <1>4 DEF RequestFits, MadeWell
<1>6. UNCHANGED <<exists, turns, cites, stored, evidence, asked>>
  BY DEF WriteSummary
<1>7. QED
  BY <1>2, <1>3, <1>5, <1>6, ProgressKeeps

\* A request that ends without a commit, or has not begun, asks for nothing.
LEMMA EndKeeps ==
  ASSUME ConversationInv, NEW r \in Requests,
         request' = [request EXCEPT ![r] = NoRequest],
         UNCHANGED <<exists, turns, cites, stored, evidence, asked>>
  PROVE  ConversationInv'
<1>1. ConversationTypes /\ NoRequest \in RequestState /\ NoRequest.turn = 0
  BY EmptyRequest DEF ConversationInv
<1>2. MovesRequest(r, NoRequest)
  BY <1>1, RequestMoves
<1>3. /\ exists' = exists /\ turns' = turns /\ cites' = cites /\ stored' = stored
      /\ evidence' = evidence /\ asked' = asked
  OBVIOUS
<1>4. RequestFits(NoRequest)'
  BY <1>1, <1>3, NoRequestFits DEF RequestFits, MadeWell, CitedBy
<1>5. asked' \in asked .. MaxTurns
  BY <1>1, <1>3, ConversationAssumption DEF ConversationTypes
<1>6. QED
  BY <1>1, <1>2, <1>3, <1>4, <1>5, RequestStep

LEMMA ReadSummaryKeeps ==
  ASSUME ConversationInv, NEW r \in Requests, ReadSummary(r) PROVE ConversationInv'
<1>1. request' = [request EXCEPT ![r] = [NoRequest EXCEPT !.pc = "reading", !.since = turns]]
      /\ exists' = exists /\ turns' = turns /\ cites' = cites /\ stored' = stored
      /\ evidence' = evidence /\ asked' = asked
  BY DEF ReadSummary
<1>0. PICK t : t = turns
  OBVIOUS
<1> DEFINE c == [NoRequest EXCEPT !.pc = "reading"]
           q == [c EXCEPT !.since = t]
<1>2. ConversationTypes /\ turns \in SUBSET (1 .. MaxTurns) /\ asked \in Nat /\ 0 \notin turns
      /\ asked \in asked .. MaxTurns
  BY ConversationAssumption DEF ConversationInv, ConversationTypes
<1>3. c \in RequestState /\ c.pc = "reading" /\ c.turn = 0
  BY EmptyRequest DEF RequestState
<1>4. request' = [request EXCEPT ![r] = q]
  BY <1>0, <1>1
<1> HIDE DEF c
<1>5. q \in RequestState /\ q.pc = "reading" /\ q.turn = 0 /\ q.since = turns
  BY <1>0, <1>2, <1>3 DEF RequestState
<1> HIDE DEF q
<1>6. MovesRequest(r, q)
  BY <1>2, <1>4, <1>5, RequestMoves
<1>7. RequestFits(q)'
  BY <1>1, <1>2, <1>5 DEF RequestFits
<1>8. QED
  BY <1>1, <1>2, <1>5, <1>6, <1>7, RequestStep

LEMMA MakeMissingKeeps ==
  ASSUME ConversationInv, NEW r \in Requests, MakeMissing(r) PROVE ConversationInv'
<1>1. UNCHANGED <<exists, turns, cites, stored, evidence, asked>>
  BY DEF MakeMissing
<1>2. CASE turns = {}
  BY <1>1, <1>2, EndKeeps DEF MakeMissing
<1>3. CASE turns # {}
  <2>1. request' = [request EXCEPT ![r].pc = "summed", ![r].summary = SummaryOf(r)]
    BY <1>3 DEF MakeMissing
  <2>2. QED
    BY <1>1, <2>1, SumKeeps
<1>4. QED
  BY <1>2, <1>3

LEMMA CommitTurnKeeps ==
  ASSUME ConversationInv, NEW r \in Requests, CommitTurn(r) PROVE ConversationInv'
<1>1. PICK p : p = request[r]
  OBVIOUS
<1>2. /\ p.pc = "written" /\ stored' = p.summary
      /\ turns' = turns \cup ({p.turn} \ {0})
      /\ cites' = IF p.turn = 0 THEN cites ELSE [cites EXCEPT ![p.turn] = p.cites]
      /\ request' = [request EXCEPT ![r] = NoRequest]
      /\ exists' = exists /\ evidence' = evidence /\ asked' = asked
  BY <1>1 DEF CommitTurn
<1>3. /\ ConversationTypes /\ RequestsFit /\ RequestFits(p) /\ OwnTurns
      /\ asked \in Nat /\ MaxTurns \in Nat /\ asked <= MaxTurns
  BY <1>1, ConversationAssumption DEF ConversationInv, RequestsFit, ConversationTypes
<1>4. /\ p.turn \in 0 .. MaxTurns /\ p.cites \in SUBSET (Evidence \cup Knowledge)
      /\ p.summary \in SummaryState
  BY <1>1, <1>3, RequestFields
<1>5. NoRequest \in RequestState /\ NoRequest.turn = 0 /\ NoRequest.pc = "idle"
      /\ NoRequest.since = {}
  BY EmptyRequest
<1>6. MovesRequest(r, NoRequest)
  BY <1>2, <1>3, <1>5, RequestMoves
<1>7. /\ request'[r] = NoRequest
      /\ \A s \in Requests : s # r => request'[s] = request[s]
  BY <1>6 DEF MovesRequest
<1>8. /\ turns \subseteq turns' /\ turns' \in SUBSET (1 .. asked) /\ 0 \notin turns'
      /\ turns' \in SUBSET (1 .. MaxTurns)
  <2>1. p.turn # 0 => p.turn \in 1 .. asked
    BY <1>3, <1>4 DEF RequestFits
  <2>2. turns \in SUBSET (1 .. asked)
    BY <1>3 DEF ConversationTypes
  <2>3. \A t \in turns' : t \in 1 .. asked
    BY <1>2, <2>1, <2>2
  <2>4. turns \subseteq turns'
    BY <1>2
  <2>5. QED
    BY <1>3, <2>3, <2>4
<1>9. cites' \in [1 .. MaxTurns -> SUBSET (Evidence \cup Knowledge)]
  BY <1>2, <1>3, <1>4 DEF ConversationTypes
<1>10. \A t \in turns : cites'[t] = cites[t]
  <2>1. \A t \in turns : t # p.turn /\ t \in 1 .. MaxTurns
    BY <1>3, <1>8 DEF RequestFits
  <2>2. QED
    BY <1>2, <1>3, <2>1 DEF ConversationTypes
<1>11. \A t \in turns' : cites'[t] = CitedBy(p, t)
  <2> SUFFICES ASSUME NEW t \in turns' PROVE cites'[t] = CitedBy(p, t)
    OBVIOUS
  <2>1. CASE t = p.turn
    BY <1>2, <1>3, <1>8, <2>1 DEF CitedBy, ConversationTypes
  <2>2. CASE t # p.turn
    BY <1>2, <1>10, <2>2 DEF CitedBy
  <2>3. QED
    BY <2>1, <2>2
<1>12. ConversationTypes'
  BY <1>2, <1>3, <1>4, <1>6, <1>8, <1>9 DEF ConversationTypes, MovesRequest
<1>13. RequestsFit'
  <2> SUFFICES ASSUME NEW s \in Requests PROVE RequestFits(request[s])'
    BY DEF RequestsFit
  <2>1. CASE s = r
    BY <1>5, <1>7, <1>8, <2>1, <1>2, <1>3 DEF RequestFits
  <2>2. CASE s # r
    <3>1. PICK u : u = request[s]
      OBVIOUS
    <3>2. request'[s] = u /\ RequestFits(u) /\ u.turn \in Nat
      BY <1>3, <1>7, <2>2, <3>1, RequestFields DEF RequestsFit
    <3>3. u.turn \notin turns'
      BY <1>1, <1>2, <1>3, <2>2, <3>1, <3>2 DEF OwnTurns, RequestFits
    <3>4. MadeWell(u) => MadeWell(u)'
      <4> SUFFICES ASSUME MadeWell(u) PROVE MadeWell(u)'
        OBVIOUS
      <4>1. /\ u.summary.since = u.since /\ u.since \subseteq u.summary.of
            /\ u.summary.of \subseteq turns' \cup ({u.turn} \ {0})
        BY <1>8 DEF MadeWell
      <4>2. \A t \in Newest(Window, u.summary.of) : CitedBy(u, t)' = CitedBy(u, t)
        <5> SUFFICES ASSUME NEW t \in Newest(Window, u.summary.of)
                     PROVE  CitedBy(u, t)' = CitedBy(u, t)
          OBVIOUS
        <5>1. t \in u.summary.of
          BY NewestAmong
        <5>2. t = u.turn \/ t \in turns
          BY <5>1 DEF MadeWell
        <5>3. QED
          BY <1>10, <5>2 DEF CitedBy
      <4>3. \A x \in u.summary.sources :
              \E t \in Newest(Window, u.summary.of) : x \in CitedBy(u, t)'
        BY <4>2 DEF MadeWell
      <4>4. QED
        BY <4>1, <4>3 DEF MadeWell
    <3>5. RequestFits(u)'
      BY <1>2, <1>8, <3>2, <3>3, <3>4 DEF RequestFits
    <3>6. QED
      BY <3>2, <3>5
  <2>3. QED
    BY <2>1, <2>2
<1>14. OwnTurns'
  BY <1>3, <1>5, <1>7 DEF OwnTurns
<1>15. StoredFits'
  <2> SUFFICES ASSUME exists
               PROVE  /\ p.summary.since \subseteq p.summary.of
                      /\ p.summary.of \subseteq turns'
                      /\ \A x \in p.summary.sources :
                           \E t \in Newest(Window, p.summary.of) : x \in cites'[t]
    BY <1>2 DEF StoredFits
  <2>1. MadeWell(p)
    BY <1>2, <1>3 DEF RequestFits
  <2>2. p.summary.since \subseteq p.summary.of /\ p.summary.of \subseteq turns'
    BY <1>2, <2>1 DEF MadeWell
  <2>3. \A t \in Newest(Window, p.summary.of) : cites'[t] = CitedBy(p, t)
    BY <1>11, <2>2, NewestAmong
  <2>4. QED
    BY <2>1, <2>2, <2>3 DEF MadeWell
<1>16. QED
  BY <1>12, <1>13, <1>14, <1>15 DEF ConversationInv

LEMMA DeleteKeeps == ASSUME ConversationInv, DeleteConversation PROVE ConversationInv'
<1>1. /\ exists' = FALSE /\ turns' = {} /\ stored' = NoSummary /\ cites' = cites
      /\ evidence' = evidence /\ asked' = asked /\ request' = request
  BY DEF DeleteConversation
<1>2. ConversationTypes'
  BY <1>1, EmptyRequest DEF ConversationInv, ConversationTypes
<1>3. RequestsFit'
  <2> SUFFICES ASSUME NEW s \in Requests PROVE RequestFits(request[s])'
    BY DEF RequestsFit
  <2>1. QED
    BY <1>1 DEF ConversationInv, RequestsFit, RequestFits
<1>4. OwnTurns' /\ StoredFits'
  BY <1>1 DEF ConversationInv, OwnTurns, StoredFits
<1>5. QED
  BY <1>2, <1>3, <1>4 DEF ConversationInv

\* Only the evidence changes, or nothing does.
LEMMA EvidenceKeeps ==
  ASSUME ConversationInv, evidence' \in SUBSET Evidence,
         UNCHANGED <<exists, turns, cites, stored, asked, request>>
  PROVE  ConversationInv'
<1>1. /\ exists' = exists /\ turns' = turns /\ stored' = stored /\ cites' = cites
      /\ asked' = asked /\ request' = request
  OBVIOUS
<1>2. ConversationTypes'
  BY <1>1 DEF ConversationInv, ConversationTypes
<1>3. RequestsFit'
  BY <1>1 DEF ConversationInv, RequestsFit, RequestFits, MadeWell, CitedBy
<1>4. OwnTurns' /\ StoredFits'
  BY <1>1 DEF ConversationInv, OwnTurns, StoredFits
<1>5. QED
  BY <1>2, <1>3, <1>4 DEF ConversationInv

LEMMA ConversationStep ==
  ConversationInv /\ [ConversationNext]_conversationVars => ConversationInv'
<1> SUFFICES ASSUME ConversationInv, [ConversationNext]_conversationVars
             PROVE  ConversationInv'
  OBVIOUS
<1>1. ASSUME NEW r \in Requests, Ask(r) \/ Respond(r) \/ WriteSummary(r) \/ CommitTurn(r)
                                 \/ ReadSummary(r) \/ MakeMissing(r)
      PROVE  ConversationInv'
  BY <1>1, AskKeeps, RespondKeeps, WriteSummaryKeeps, CommitTurnKeeps, ReadSummaryKeeps,
     MakeMissingKeeps
<1>2. ASSUME NEW r \in Requests, Summarize(r) PROVE ConversationInv'
  BY <1>2, SumKeeps DEF Summarize
<1>3. ASSUME NEW r \in Requests, RollBack(r) PROVE ConversationInv'
  BY <1>3, EndKeeps DEF RollBack
<1>4. ASSUME NEW e \in Evidence, AddEvidence(e) PROVE ConversationInv'
  BY <1>4, EvidenceKeeps DEF AddEvidence, ConversationInv, ConversationTypes
<1>5. CASE UNCHANGED conversationVars
  BY <1>5, EvidenceKeeps DEF conversationVars, ConversationInv, ConversationTypes
<1>6. QED
  BY <1>1, <1>2, <1>3, <1>4, <1>5, DeleteKeeps DEF ConversationNext

\* Whatever questions, deletions and rollbacks overlap, the stored summary
\* covers every turn that had committed when its transaction began, speaks of
\* no turn that has not committed, and lists only sources that the turns it
\* keeps have quoted.
THEOREM SummariesCatchUp == ConversationSpec => []SummaryCatchesUp
<1>1. ConversationInv => SummaryCatchesUp
  <2> SUFFICES ASSUME ConversationInv, exists
               PROVE  /\ stored.since \cap turns \subseteq stored.of
                      /\ stored.of \subseteq turns
                      /\ stored.sources \subseteq
                           UNION {cites[t] : t \in Newest(Window, stored.of)}
    BY DEF SummaryCatchesUp
  <2>1. QED
    BY DEF ConversationInv, StoredFits
<1>2. QED
  BY <1>1, ConversationStart, ConversationStep, PTL DEF ConversationSpec

-----------------------------------------------------------------------------
(* Feedback and its audit                                                  *)

ItemRow == [status : {"PENDING", "DECIDED"}, by : People, verdict : Verdicts,
            revision : Nat]

AuditRow == [item : Nat, by : People, verdict : Verdicts, revision : Nat]

ThreadState == [pc : {"idle", "decide", "create", "audit"}, feedback : BOOLEAN,
                by : People, verdict : Verdicts, item : Nat, revision : Nat]

FeedbackTypes ==
  /\ items \in Seq(ItemRow) /\ audits \in Seq(AuditRow)
  /\ thread \in [Threads -> ThreadState] /\ deaths \in Nat

IsDecided(i) == items[i].status = "DECIDED"

\* A request that decides an item, or has decided it, knows what the item says.
ThreadKnows(h) ==
  /\ thread[h].pc \in {"decide", "audit"} => thread[h].item \in DOMAIN items
  /\ thread[h].pc = "decide" /\ ~thread[h].feedback /\ ~IsDecided(thread[h].item) =>
       thread[h].revision = items[thread[h].item].revision + 1
  /\ thread[h].pc = "create" => thread[h].feedback
  /\ thread[h].pc = "audit" =>
       /\ IsDecided(thread[h].item)
       /\ thread[h].by = items[thread[h].item].by
       /\ thread[h].verdict = items[thread[h].item].verdict
       /\ thread[h].feedback \/ thread[h].revision = items[thread[h].item].revision

ThreadsKnow == \A h \in Threads : ThreadKnows(h)

\* An audit row says what its item says.
AuditsAgree ==
  \A a \in DOMAIN audits :
    LET i == audits[a].item IN
    /\ i \in DOMAIN items /\ IsDecided(i)
    /\ audits[a].by = items[i].by /\ audits[a].verdict = items[i].verdict
    /\ audits[a].revision = items[i].revision

\* The decision of an item is audited once, or will be.
AuditedOnce ==
  /\ \A a, b \in DOMAIN audits : audits[a].item = audits[b].item => a = b
  /\ \A g, h \in Threads :
       thread[g].pc = "audit" /\ thread[h].pc = "audit" /\ thread[g].item = thread[h].item
         => g = h
  /\ \A h \in Threads, a \in DOMAIN audits :
       thread[h].pc = "audit" => audits[a].item # thread[h].item

\* Items whose decision nobody audits.
Unaudited == {i \in DOMAIN items : IsDecided(i) /\ AuditsOf(i) \cup Owed(i) = {}}

DeathsPay == Cardinality(Unaudited) <= deaths

FeedbackInv ==
  FeedbackTypes /\ ThreadsKnow /\ AuditsAgree /\ AuditedOnce /\ DeathsPay

LEMMA SomebodyIs == Somebody \in People /\ SomeVerdict \in Verdicts
BY FeedbackAssumption DEF Somebody, SomeVerdict

LEMMA FeedbackRows == Pending \in ItemRow /\ Resting \in ThreadState
BY SomebodyIs DEF Pending, Resting, ItemRow, ThreadState

LEMMA UnauditedFinite ==
  ASSUME FeedbackTypes
  PROVE  IsFiniteSet(Unaudited) /\ Cardinality(Unaudited) \in Nat
<1>1. Len(items) \in Nat /\ DOMAIN items = 1 .. Len(items)
  BY LenProperties DEF FeedbackTypes
<1>2. IsFiniteSet(1 .. Len(items))
  BY <1>1, FS_Interval
<1>3. Unaudited \in SUBSET (1 .. Len(items))
  BY <1>1 DEF Unaudited
<1>4. IsFiniteSet(Unaudited)
  BY <1>2, <1>3, FS_Subset
<1>5. QED
  BY <1>4, FS_CardinalityType

LEMMA FeedbackStart == FeedbackInit => FeedbackInv
<1> SUFFICES ASSUME FeedbackInit PROVE FeedbackInv
  OBVIOUS
<1>1. items = <<Pending>> /\ audits = <<>> /\ deaths = 0
      /\ thread = [h \in Threads |-> Resting]
  BY DEF FeedbackInit
<1>2. Pending \in ItemRow /\ Pending.status = "PENDING" /\ Resting.pc = "idle"
      /\ Resting \in ThreadState
  BY FeedbackRows DEF Pending, Resting
<1>3. FeedbackTypes
  BY <1>1, <1>2 DEF FeedbackTypes
<1>4. ThreadsKnow /\ AuditsAgree /\ AuditedOnce
  BY <1>1, <1>2 DEF ThreadsKnow, ThreadKnows, AuditsAgree, AuditedOnce
<1>5. Unaudited = {}
  BY <1>1, <1>2 DEF Unaudited, IsDecided
<1>6. DeathsPay
  BY <1>1, <1>5, FS_EmptySet DEF DeathsPay
<1>7. QED
  BY <1>3, <1>4, <1>6 DEF FeedbackInv

LEMMA ThreadFields ==
  ASSUME FeedbackTypes, NEW h \in Threads
  PROVE  /\ thread[h].pc \in {"idle", "decide", "create", "audit"}
         /\ thread[h].feedback \in BOOLEAN /\ thread[h].by \in People
         /\ thread[h].verdict \in Verdicts /\ thread[h].item \in Nat
         /\ thread[h].revision \in Nat /\ thread[h] \in ThreadState
<1>1. thread[h] \in ThreadState
  BY DEF FeedbackTypes
<1>2. QED
  BY <1>1 DEF ThreadState

LEMMA ItemFields ==
  ASSUME FeedbackTypes, NEW i \in DOMAIN items
  PROVE  /\ items[i] \in ItemRow /\ items[i].status \in {"PENDING", "DECIDED"}
         /\ items[i].revision \in Nat /\ i \in Nat
<1>1. i \in 1 .. Len(items) /\ items[i] \in ItemRow
  BY LenProperties, ElementOfSeq DEF FeedbackTypes
<1>2. QED
  BY <1>1 DEF ItemRow

LEMMA Lengths ==
  ASSUME FeedbackTypes
  PROVE  /\ Len(items) \in Nat /\ DOMAIN items = 1 .. Len(items)
         /\ Len(audits) \in Nat /\ DOMAIN audits = 1 .. Len(audits)
BY LenProperties DEF FeedbackTypes

\* Thread h moves to state s, and no other moves.
MovesThread(h, s) ==
  /\ thread' \in [Threads -> ThreadState] /\ thread'[h] = s
  /\ \A g \in Threads \ {h} : thread'[g] = thread[g]

LEMMA ThreadMoves ==
  ASSUME FeedbackTypes, NEW h \in Threads, NEW s \in ThreadState,
         thread' = [thread EXCEPT ![h] = s]
  PROVE  MovesThread(h, s)
BY DEF FeedbackTypes, MovesThread

\* Nothing is decided, audited or owed but what was.
LEMMA QuietStep ==
  ASSUME FeedbackInv, NEW h \in Threads, NEW s \in ThreadState, MovesThread(h, s),
         thread[h].pc # "audit", s.pc # "audit", items' = items, audits' = audits,
         deaths' \in Nat, deaths' >= deaths, ThreadKnows(h)'
  PROVE  FeedbackInv'
<1>1. FeedbackTypes'
  BY DEF FeedbackInv, FeedbackTypes, MovesThread
<1>2. /\ thread'[h] = s /\ \A g \in Threads \ {h} : thread'[g] = thread[g]
  BY DEF MovesThread
<1>3. ThreadsKnow'
  <2> SUFFICES ASSUME NEW g \in Threads, g # h PROVE ThreadKnows(g)'
    BY DEF ThreadsKnow
  <2>1. QED
    BY <1>2 DEF FeedbackInv, ThreadsKnow, ThreadKnows, IsDecided
<1>4. AuditsAgree'
  BY DEF FeedbackInv, AuditsAgree, IsDecided
<1>5. AuditedOnce'
  BY <1>2 DEF FeedbackInv, AuditedOnce
<1>6. \A i \in DOMAIN items : AuditsOf(i)' = AuditsOf(i) /\ Owed(i)' = Owed(i)
  BY <1>2 DEF AuditsOf, Owed
<1>7. Unaudited' = Unaudited
  BY <1>6 DEF Unaudited, IsDecided
<1>8. DeathsPay'
  BY <1>7, UnauditedFinite DEF FeedbackInv, FeedbackTypes, DeathsPay
<1>9. QED
  BY <1>1, <1>3, <1>4, <1>5, <1>8 DEF FeedbackInv

LEMMA ReadItemKeeps == ASSUME FeedbackInv, NEW h \in Threads, ReadItem(h) PROVE FeedbackInv'
<1>1. PICK p \in People, v \in Verdicts, i \in DOMAIN items :
        thread' = [thread EXCEPT ![h] =
                     [pc |-> "decide", feedback |-> FALSE, by |-> p,
                      verdict |-> v, item |-> i, revision |-> items[i].revision + 1]]
  BY DEF ReadItem
<1> DEFINE s == [pc |-> "decide", feedback |-> FALSE, by |-> p,
                 verdict |-> v, item |-> i, revision |-> items[i].revision + 1]
<1>2. FeedbackTypes /\ items[i].revision \in Nat /\ i \in Nat
  BY ItemFields DEF FeedbackInv
<1>3. s \in ThreadState /\ s.pc = "decide" /\ s.item = i /\ s.revision = items[i].revision + 1
  BY <1>2 DEF ThreadState
<1>4. thread' = [thread EXCEPT ![h] = s]
  BY <1>1
<1> HIDE DEF s
<1>5. MovesThread(h, s)
  BY <1>2, <1>3, <1>4, ThreadMoves
<1>6. thread[h].pc = "idle" /\ items' = items /\ audits' = audits /\ deaths' = deaths
      /\ deaths \in Nat
  BY <1>2 DEF ReadItem, FeedbackTypes
<1>7. ThreadKnows(h)'
  BY <1>3, <1>5, <1>6 DEF ThreadKnows, IsDecided, MovesThread
<1>8. deaths' \in Nat /\ deaths' >= deaths
  BY <1>6
<1>9. QED
  BY <1>3, <1>5, <1>6, <1>7, <1>8, QuietStep

LEMMA CheckDuplicateKeeps ==
  ASSUME FeedbackInv, NEW h \in Threads, CheckDuplicate(h) PROVE FeedbackInv'
<1>1. PICK p \in People, v \in Verdicts :
        thread' = [thread EXCEPT ![h] =
                     [pc |-> "create", feedback |-> TRUE, by |-> p,
                      verdict |-> v, item |-> 0, revision |-> 0]]
  BY DEF CheckDuplicate
<1> DEFINE s == [pc |-> "create", feedback |-> TRUE, by |-> p,
                 verdict |-> v, item |-> 0, revision |-> 0]
<1>2. s \in ThreadState /\ s.pc = "create" /\ s.feedback
  BY DEF ThreadState
<1>3. thread' = [thread EXCEPT ![h] = s] /\ FeedbackTypes
  BY <1>1 DEF FeedbackInv
<1> HIDE DEF s
<1>4. MovesThread(h, s)
  BY <1>2, <1>3, ThreadMoves
<1>5. thread[h].pc = "idle" /\ items' = items /\ audits' = audits /\ deaths' = deaths
      /\ deaths \in Nat
  BY <1>3 DEF CheckDuplicate, FeedbackTypes
<1>6. ThreadKnows(h)'
  BY <1>2, <1>4 DEF ThreadKnows, MovesThread
<1>7. deaths' \in Nat /\ deaths' >= deaths
  BY <1>5
<1>8. QED
  BY <1>2, <1>4, <1>5, <1>6, <1>7, QuietStep

\* A thread that has not decided rests, or dies.
LEMMA RestKeeps ==
  ASSUME FeedbackInv, NEW h \in Threads, thread' = [thread EXCEPT ![h] = Resting],
         thread[h].pc # "audit", items' = items, audits' = audits,
         deaths' = deaths \/ deaths' = deaths + 1
  PROVE  FeedbackInv'
<1>1. Resting \in ThreadState /\ Resting.pc = "idle" /\ FeedbackTypes
  BY FeedbackRows DEF Resting, FeedbackInv
<1>2. MovesThread(h, Resting)
  BY <1>1, ThreadMoves
<1>3. ThreadKnows(h)'
  BY <1>1, <1>2 DEF ThreadKnows, MovesThread
<1>4. deaths' \in Nat /\ deaths' >= deaths
  BY <1>1 DEF FeedbackTypes
<1>5. QED
  BY <1>1, <1>2, <1>3, <1>4, QuietStep

LEMMA RefusedKeeps == ASSUME FeedbackInv, NEW h \in Threads, Refused(h) PROVE FeedbackInv'
BY RestKeeps DEF Refused

\* A thread that dies before it has decided leaves nothing; one that has
\* decided leaves a decision without an audit row.
LEMMA DieKeeps == ASSUME FeedbackInv, NEW h \in Threads, Die(h) PROVE FeedbackInv'
<1>1. thread' = [thread EXCEPT ![h] = Resting] /\ deaths' = deaths + 1
      /\ items' = items /\ audits' = audits /\ deaths \in Nat
  BY DEF Die, FeedbackInv, FeedbackTypes
<1>2. Resting \in ThreadState /\ Resting.pc = "idle" /\ FeedbackTypes
  BY FeedbackRows DEF Resting, FeedbackInv
<1>3. CASE thread[h].pc # "audit"
  BY <1>1, <1>3, RestKeeps
<1>4. CASE thread[h].pc = "audit"
  <2>1. /\ thread'[h] = Resting /\ \A g \in Threads \ {h} : thread'[g] = thread[g]
        /\ thread' \in [Threads -> ThreadState]
    BY <1>1, <1>2, ThreadMoves DEF MovesThread
  <2>2. FeedbackTypes'
    BY <1>1, <1>2, <2>1 DEF FeedbackTypes
  <2>3. ThreadsKnow'
    <3> SUFFICES ASSUME NEW g \in Threads PROVE ThreadKnows(g)'
      BY DEF ThreadsKnow
    <3>1. CASE g = h
      BY <1>2, <2>1, <3>1 DEF ThreadKnows
    <3>2. CASE g # h
      BY <1>1, <2>1, <3>2 DEF FeedbackInv, ThreadsKnow, ThreadKnows, IsDecided
    <3>3. QED
      BY <3>1, <3>2
  <2>4. AuditsAgree'
    BY <1>1 DEF FeedbackInv, AuditsAgree, IsDecided
  <2>5. AuditedOnce'
    BY <1>1, <1>2, <2>1 DEF FeedbackInv, AuditedOnce
  <2> DEFINE i == thread[h].item
  <2>6. Unaudited' \in SUBSET (Unaudited \cup {i})
    <3>1. \A j \in DOMAIN items : AuditsOf(j)' = AuditsOf(j)
      BY <1>1 DEF AuditsOf
    <3>2. \A j \in DOMAIN items : j # i => Owed(j)' = Owed(j)
      BY <1>2, <2>1 DEF Owed
    <3>3. QED
      BY <1>1, <3>1, <3>2 DEF Unaudited, IsDecided
  <2> HIDE DEF i
  <2>7. IsFiniteSet(Unaudited) /\ Cardinality(Unaudited) \in Nat
    BY <1>2, UnauditedFinite
  <2>8. IsFiniteSet(Unaudited \cup {i}) /\ Cardinality(Unaudited \cup {i}) <= Cardinality(Unaudited) + 1
        /\ Cardinality(Unaudited \cup {i}) \in Nat
    BY <2>7, FS_AddElement
  <2>9. Cardinality(Unaudited') <= Cardinality(Unaudited \cup {i})
        /\ Cardinality(Unaudited') \in Nat
    BY <2>6, <2>8, FS_Subset, FS_CardinalityType
  <2>10. Cardinality(Unaudited) <= deaths
    BY DEF FeedbackInv, DeathsPay
  <2>11. DeathsPay'
    BY <1>1, <2>7, <2>8, <2>9, <2>10 DEF DeathsPay
  <2>12. QED
    BY <2>2, <2>3, <2>4, <2>5, <2>11 DEF FeedbackInv
<1>5. QED
  BY <1>3, <1>4

LEMMA CreateItemKeeps == ASSUME FeedbackInv, NEW h \in Threads, CreateItem(h) PROVE FeedbackInv'
<1> DEFINE c == [thread[h] EXCEPT !.pc = "decide"]
           s == [c EXCEPT !.item = Len(items) + 1]
<1>1. /\ items' = Append(items, Pending) /\ audits' = audits /\ deaths' = deaths
      /\ thread[h].pc = "create"
      /\ thread' = [thread EXCEPT ![h].pc = "decide", ![h].item = Len(items')]
  BY DEF CreateItem
<1>2. FeedbackTypes /\ items \in Seq(ItemRow) /\ Len(items) \in Nat /\ DOMAIN items = 1 .. Len(items)
  BY Lengths DEF FeedbackInv, FeedbackTypes
<1>3. Pending \in ItemRow /\ Pending.status = "PENDING"
  BY FeedbackRows DEF Pending
<1>4. /\ items' \in Seq(ItemRow) /\ Len(items') = Len(items) + 1
      /\ items'[Len(items) + 1] = Pending
      /\ \A i \in 1 .. Len(items) : items'[i] = items[i]
  BY <1>1, <1>2, <1>3, AppendProperties
<1>5. DOMAIN items' = 1 .. Len(items) + 1
  BY <1>4, LenProperties
<1>6. thread[h] \in ThreadState
  BY <1>2, ThreadFields
<1>7. s \in ThreadState /\ s.pc = "decide" /\ s.item = Len(items) + 1
      /\ s.feedback = thread[h].feedback
  <2>1. c \in ThreadState /\ c.pc = "decide" /\ c.feedback = thread[h].feedback
    BY <1>6 DEF ThreadState
  <2> HIDE DEF c
  <2>2. QED
    BY <1>2, <2>1 DEF ThreadState
<1>8. thread' = [thread EXCEPT ![h] = s]
  BY <1>1, <1>2, <1>4 DEF FeedbackTypes
<1> HIDE DEF s
<1>9. MovesThread(h, s)
  BY <1>2, <1>7, <1>8, ThreadMoves
<1>10. thread[h].feedback
  BY <1>1 DEF FeedbackInv, ThreadsKnow, ThreadKnows
<1>11. FeedbackTypes'
  BY <1>1, <1>2, <1>4, <1>9 DEF FeedbackTypes, MovesThread
<1>12. \A i \in DOMAIN items : i \in DOMAIN items' /\ items'[i] = items[i]
  BY <1>2, <1>4, <1>5
<1>13. ThreadsKnow'
  <2> SUFFICES ASSUME NEW g \in Threads PROVE ThreadKnows(g)'
    BY DEF ThreadsKnow
  <2>1. CASE g = h
    <3>1. s.item \in DOMAIN items'
      BY <1>2, <1>5, <1>7
    <3>2. QED
      BY <1>7, <1>9, <1>10, <2>1, <3>1 DEF ThreadKnows, MovesThread
  <2>2. CASE g # h
    <3>1. thread'[g] = thread[g] /\ ThreadKnows(g)
      BY <1>9, <2>2 DEF MovesThread, FeedbackInv, ThreadsKnow
    <3>2. QED
      BY <1>12, <3>1 DEF ThreadKnows, IsDecided
  <2>3. QED
    BY <2>1, <2>2
<1>14. AuditsAgree'
  BY <1>1, <1>12 DEF FeedbackInv, AuditsAgree, IsDecided
<1>15. AuditedOnce'
  BY <1>1, <1>7, <1>9 DEF FeedbackInv, AuditedOnce, MovesThread
<1>16. Unaudited' = Unaudited
  <2>1. \A i \in DOMAIN items : AuditsOf(i)' = AuditsOf(i) /\ Owed(i)' = Owed(i)
    BY <1>1, <1>7, <1>9 DEF AuditsOf, Owed, MovesThread
  <2>2. PICK n : n = Len(items) + 1
    OBVIOUS
  <2>0. ~IsDecided(n)'
    BY <1>3, <1>4, <2>2 DEF IsDecided
  <2>3. \A i \in DOMAIN items : IsDecided(i)' = IsDecided(i)
    BY <1>12 DEF IsDecided
  <2>4. \A i : i \in DOMAIN items' <=> i \in DOMAIN items \/ i = n
    BY <1>2, <1>5, <2>2
  <2>5. QED
    BY <2>0, <2>1, <2>3, <2>4 DEF Unaudited
<1>17. DeathsPay'
  BY <1>1, <1>16 DEF FeedbackInv, DeathsPay
<1>18. QED
  BY <1>11, <1>13, <1>14, <1>15, <1>17 DEF FeedbackInv

LEMMA DecideKeeps == ASSUME FeedbackInv, NEW h \in Threads, Decide(h) PROVE FeedbackInv'
<1>0. PICK i : i = thread[h].item
  OBVIOUS
<1> DEFINE row == [status |-> "DECIDED", by |-> thread[h].by, verdict |-> thread[h].verdict,
                   revision |-> items[i].revision + 1]
           s == [thread[h] EXCEPT !.pc = "audit"]
<1>1. /\ thread[h].pc = "decide" /\ items[i].status = "PENDING"
      /\ items' = [items EXCEPT ![i] = row] /\ thread' = [thread EXCEPT ![h].pc = "audit"]
      /\ audits' = audits /\ deaths' = deaths
  BY <1>0 DEF Decide, Waiting, Goto
<1>2. /\ FeedbackTypes /\ ThreadKnows(h) /\ ThreadsKnow /\ AuditsAgree /\ AuditedOnce
      /\ items \in Seq(ItemRow) /\ Len(items) \in Nat /\ DOMAIN items = 1 .. Len(items)
  BY Lengths DEF FeedbackInv, FeedbackTypes, ThreadsKnow
<1>3. i \in DOMAIN items /\ i \in 1 .. Len(items) /\ ~IsDecided(i)
  BY <1>0, <1>1, <1>2 DEF ThreadKnows, IsDecided
<1>4. thread[h] \in ThreadState /\ thread[h].by \in People /\ thread[h].verdict \in Verdicts
  BY <1>2, ThreadFields
<1>5. items[i].revision \in Nat
  BY <1>2, <1>3, ItemFields
<1>6. /\ row \in ItemRow /\ row.status = "DECIDED" /\ row.by = thread[h].by
      /\ row.verdict = thread[h].verdict /\ row.revision = items[i].revision + 1
  BY <1>4, <1>5 DEF ItemRow
<1>7. /\ s \in ThreadState /\ s.pc = "audit" /\ s.item = i /\ s.by = thread[h].by
      /\ s.verdict = thread[h].verdict /\ s.revision = thread[h].revision
      /\ s.feedback = thread[h].feedback
  BY <1>0, <1>4 DEF ThreadState
<1>8. thread' = [thread EXCEPT ![h] = s]
  BY <1>1, <1>2 DEF FeedbackTypes
<1> HIDE DEF s, row
<1>9. MovesThread(h, s)
  BY <1>2, <1>7, <1>8, ThreadMoves
<1>10. /\ items' \in Seq(ItemRow) /\ Len(items') = Len(items)
       /\ \A j \in 1 .. Len(items) : items'[j] = IF j = i THEN row ELSE items[j]
  BY <1>1, <1>2, <1>3, <1>6, ExceptSeq
<1>11. DOMAIN items' = DOMAIN items
  BY <1>2, <1>10, LenProperties
<1>12. items'[i] = row /\ \A j \in DOMAIN items : j # i => items'[j] = items[j]
  BY <1>2, <1>3, <1>10
<1>13. FeedbackTypes'
  BY <1>1, <1>2, <1>9, <1>10 DEF FeedbackTypes, MovesThread
<1>14. ThreadsKnow'
  <2> SUFFICES ASSUME NEW g \in Threads PROVE ThreadKnows(g)'
    BY DEF ThreadsKnow
  <2>1. CASE g = h
    <3>1. thread[h].feedback \/ thread[h].revision = items[i].revision + 1
      BY <1>0, <1>1, <1>2, <1>3 DEF ThreadKnows
    <3>2. thread'[g] = s
      BY <1>9, <2>1 DEF MovesThread
    <3>3. QED
      BY <1>3, <1>6, <1>7, <1>11, <1>12, <3>1, <3>2 DEF ThreadKnows, IsDecided
  <2>2. CASE g # h
    <3>1. thread'[g] = thread[g] /\ ThreadKnows(g)
      BY <1>2, <1>9, <2>2 DEF MovesThread, ThreadsKnow
    <3>2. CASE thread[g].item = i
      BY <1>3, <1>6, <1>11, <1>12, <3>1, <3>2 DEF ThreadKnows, IsDecided
    <3>3. CASE thread[g].item # i
      BY <1>11, <1>12, <3>1, <3>3 DEF ThreadKnows, IsDecided
    <3>4. QED
      BY <3>2, <3>3
  <2>3. QED
    BY <2>1, <2>2
<1>15. \A a \in DOMAIN audits : audits[a].item # i
  BY <1>2, <1>3 DEF AuditsAgree
<1>16. \A g \in Threads : thread[g].pc = "audit" => thread[g].item # i
  BY <1>2, <1>3 DEF ThreadsKnow, ThreadKnows
<1>17. AuditsAgree'
  BY <1>1, <1>2, <1>11, <1>12, <1>15 DEF AuditsAgree, IsDecided
<1>18. AuditedOnce'
  <2>1. \A a, b \in DOMAIN audits' : audits'[a].item = audits'[b].item => a = b
    BY <1>1, <1>2 DEF AuditedOnce
  <2>2. /\ thread'[h] = s /\ s.item = i
        /\ \A g \in Threads : g # h => thread'[g] = thread[g]
    BY <1>7, <1>9 DEF MovesThread
  <2>3. ASSUME NEW f \in Threads, NEW g \in Threads, thread'[f].pc = "audit",
               thread'[g].pc = "audit", thread'[f].item = thread'[g].item
        PROVE  f = g
    <3>1. CASE f = h \/ g = h
      BY <1>16, <2>2, <2>3, <3>1
    <3>2. CASE f # h /\ g # h
      BY <1>2, <2>2, <2>3, <3>2 DEF AuditedOnce
    <3>3. QED
      BY <3>1, <3>2
  <2>4. ASSUME NEW g \in Threads, NEW a \in DOMAIN audits, thread'[g].pc = "audit"
        PROVE  audits[a].item # thread'[g].item
    <3>1. CASE g = h
      BY <1>15, <2>2, <3>1
    <3>2. CASE g # h
      BY <1>2, <2>2, <2>4, <3>2 DEF AuditedOnce
    <3>3. QED
      BY <3>1, <3>2
  <2>5. QED
    BY <1>1, <2>1, <2>3, <2>4 DEF AuditedOnce
<1>19. Unaudited' = Unaudited
  <2>1. \A j \in DOMAIN items : AuditsOf(j)' = AuditsOf(j)
    BY <1>1 DEF AuditsOf
  <2>2. h \in Owed(i)'
    BY <1>7, <1>9 DEF Owed, MovesThread
  <2>3. \A j \in DOMAIN items : j # i => Owed(j)' = Owed(j) /\ (IsDecided(j)' <=> IsDecided(j))
    BY <1>1, <1>7, <1>9, <1>12 DEF Owed, MovesThread, IsDecided
  <2>4. QED
    BY <1>3, <1>11, <2>1, <2>2, <2>3 DEF Unaudited
<1>20. DeathsPay'
  BY <1>1, <1>19 DEF FeedbackInv, DeathsPay
<1>21. QED
  BY <1>13, <1>14, <1>17, <1>18, <1>20 DEF FeedbackInv

LEMMA AuditKeeps == ASSUME FeedbackInv, NEW h \in Threads, Audit(h) PROVE FeedbackInv'
<1>0. PICK i : i = thread[h].item
  OBVIOUS
<1> DEFINE row == [item |-> i, by |-> thread[h].by, verdict |-> thread[h].verdict,
                   revision |-> IF thread[h].feedback THEN items[i].revision
                                ELSE thread[h].revision]
<1>1. /\ thread[h].pc = "audit" /\ audits' = Append(audits, row)
      /\ thread' = [thread EXCEPT ![h] = Resting] /\ items' = items /\ deaths' = deaths
  BY <1>0 DEF Audit
<1>2. /\ FeedbackTypes /\ ThreadKnows(h) /\ ThreadsKnow /\ AuditsAgree /\ AuditedOnce
      /\ audits \in Seq(AuditRow) /\ Len(audits) \in Nat /\ DOMAIN audits = 1 .. Len(audits)
  BY Lengths DEF FeedbackInv, FeedbackTypes, ThreadsKnow
<1>3. /\ i \in DOMAIN items /\ IsDecided(i) /\ thread[h].by = items[i].by
      /\ thread[h].verdict = items[i].verdict
      /\ thread[h].feedback \/ thread[h].revision = items[i].revision
  BY <1>0, <1>1, <1>2 DEF ThreadKnows
<1>4. /\ thread[h].by \in People /\ thread[h].verdict \in Verdicts /\ i \in Nat
      /\ items[i].revision \in Nat
  BY <1>0, <1>2, <1>3, ThreadFields, ItemFields
<1>5. /\ row \in AuditRow /\ row.item = i /\ row.by = items[i].by
      /\ row.verdict = items[i].verdict /\ row.revision = items[i].revision
  BY <1>3, <1>4 DEF AuditRow
<1>6. Resting \in ThreadState /\ Resting.pc = "idle"
  BY FeedbackRows DEF Resting
<1> HIDE DEF row
<1>7. MovesThread(h, Resting)
  BY <1>1, <1>2, <1>6, ThreadMoves
<1>8. /\ audits' \in Seq(AuditRow) /\ Len(audits') = Len(audits) + 1
      /\ audits'[Len(audits) + 1] = row
      /\ \A a \in 1 .. Len(audits) : audits'[a] = audits[a]
  BY <1>1, <1>2, <1>5, AppendProperties
<1>9. DOMAIN audits' = 1 .. Len(audits) + 1
  BY <1>8, LenProperties
<1>10. \A a \in DOMAIN audits' :
         \/ a = Len(audits) + 1 /\ audits'[a] = row
         \/ a \in DOMAIN audits /\ audits'[a] = audits[a]
  BY <1>2, <1>8, <1>9
<1>11. FeedbackTypes'
  BY <1>1, <1>2, <1>7, <1>8 DEF FeedbackTypes, MovesThread
<1>12. ThreadsKnow'
  <2> SUFFICES ASSUME NEW g \in Threads PROVE ThreadKnows(g)'
    BY DEF ThreadsKnow
  <2>1. CASE g = h
    BY <1>6, <1>7, <2>1 DEF ThreadKnows, MovesThread
  <2>2. CASE g # h
    BY <1>1, <1>2, <1>7, <2>2 DEF ThreadsKnow, ThreadKnows, IsDecided, MovesThread
  <2>3. QED
    BY <2>1, <2>2
<1>13. AuditsAgree'
  <2> SUFFICES ASSUME NEW a \in DOMAIN audits'
               PROVE  /\ audits'[a].item \in DOMAIN items
                      /\ items[audits'[a].item].status = "DECIDED"
                      /\ audits'[a].by = items[audits'[a].item].by
                      /\ audits'[a].verdict = items[audits'[a].item].verdict
                      /\ audits'[a].revision = items[audits'[a].item].revision
    BY <1>1 DEF AuditsAgree, IsDecided
  <2>1. CASE audits'[a] = row
    BY <1>3, <1>5, <2>1 DEF IsDecided
  <2>2. CASE a \in DOMAIN audits /\ audits'[a] = audits[a]
    BY <1>2, <2>2 DEF AuditsAgree, IsDecided
  <2>3. QED
    BY <1>10, <2>1, <2>2
<1>14. \A a \in DOMAIN audits : audits[a].item # i
  BY <1>0, <1>1, <1>2 DEF AuditedOnce
<1>15. AuditedOnce'
  <2>1. \A a, b \in DOMAIN audits' : audits'[a].item = audits'[b].item => a = b
    BY <1>2, <1>5, <1>10, <1>14 DEF AuditedOnce
  <2>2. \A f, g \in Threads :
          thread'[f].pc = "audit" /\ thread'[g].pc = "audit" /\ thread'[f].item = thread'[g].item
            => f = g
    BY <1>2, <1>6, <1>7 DEF AuditedOnce, MovesThread
  <2>3. \A g \in Threads, a \in DOMAIN audits' :
          thread'[g].pc = "audit" => audits'[a].item # thread'[g].item
    <3> SUFFICES ASSUME NEW g \in Threads, NEW a \in DOMAIN audits', thread'[g].pc = "audit"
                 PROVE  audits'[a].item # thread'[g].item
      OBVIOUS
    <3>1. g # h /\ thread'[g] = thread[g]
      BY <1>6, <1>7 DEF MovesThread
    <3>2. thread[g].item # i
      BY <1>0, <1>1, <1>2, <3>1 DEF AuditedOnce
    <3>3. QED
      BY <1>2, <1>5, <1>10, <3>1, <3>2 DEF AuditedOnce
  <2>4. QED
    BY <2>1, <2>2, <2>3 DEF AuditedOnce
<1>16. Unaudited' = Unaudited
  <2>1. \A j \in DOMAIN items : j # i => AuditsOf(j)' = AuditsOf(j) /\ Owed(j)' = Owed(j)
    <3>1. \A j \in DOMAIN items : j # i => AuditsOf(j)' = AuditsOf(j)
      BY <1>2, <1>5, <1>8, <1>9, <1>10 DEF AuditsOf
    <3>2. \A j \in DOMAIN items : j # i => Owed(j)' = Owed(j)
      BY <1>0, <1>6, <1>7 DEF Owed, MovesThread
    <3>3. QED
      BY <3>1, <3>2
  <2>2. h \in Owed(i)
    BY <1>0, <1>1 DEF Owed
  <2>3. Len(audits) + 1 \in AuditsOf(i)'
    BY <1>2, <1>5, <1>8, <1>9 DEF AuditsOf
  <2>4. QED
    BY <1>1, <1>3, <2>1, <2>2, <2>3 DEF Unaudited, IsDecided
<1>17. DeathsPay'
  BY <1>1, <1>16 DEF FeedbackInv, DeathsPay
<1>18. QED
  BY <1>11, <1>12, <1>13, <1>15, <1>17 DEF FeedbackInv

LEMMA FeedbackStep == FeedbackInv /\ [FeedbackNext]_feedbackVars => FeedbackInv'
<1> SUFFICES ASSUME FeedbackInv, [FeedbackNext]_feedbackVars PROVE FeedbackInv'
  OBVIOUS
<1>1. CASE FeedbackNext
  BY <1>1, ReadItemKeeps, CheckDuplicateKeeps, CreateItemKeeps, DecideKeeps,
     RefusedKeeps, AuditKeeps, DieKeeps DEF FeedbackNext
<1>2. CASE UNCHANGED feedbackVars
  <2>1. items' = items /\ audits' = audits /\ thread' = thread /\ deaths' = deaths
    BY <1>2 DEF feedbackVars
  <2>2. Unaudited' = Unaudited
    BY <2>1 DEF Unaudited, IsDecided, AuditsOf, Owed
  <2>3. FeedbackTypes' /\ ThreadsKnow' /\ AuditsAgree' /\ AuditedOnce'
    BY <2>1
    DEF FeedbackInv, FeedbackTypes, ThreadsKnow, ThreadKnows, AuditsAgree, AuditedOnce, IsDecided
  <2>4. DeathsPay'
    BY <2>1, <2>2 DEF FeedbackInv, DeathsPay
  <2>5. QED
    BY <2>3, <2>4 DEF FeedbackInv
<1>3. QED
  BY <1>1, <1>2

\* However requests overlap and processes die, an item is decided once, its
\* audit row says what it says, and each decision that has none is the work of
\* a process of its own that died.
THEOREM DecisionsAreAudited == FeedbackSpec => []AuditMatchesDecision
<1>1. FeedbackInv => AuditMatchesDecision
  <2> SUFFICES ASSUME FeedbackInv PROVE AuditMatchesDecision
    OBVIOUS
  <2>1. ASSUME NEW i \in DOMAIN items
        PROVE  Cardinality(AuditsOf(i)) + Cardinality(Owed(i)) <= 1
    <3>1. \A a, b \in AuditsOf(i) : a = b
      BY DEF FeedbackInv, AuditedOnce, AuditsOf
    <3>2. \A g, h \in Owed(i) : g = h
      BY DEF FeedbackInv, AuditedOnce, Owed
    <3>3. AuditsOf(i) = {} \/ Owed(i) = {}
      BY DEF FeedbackInv, AuditedOnce, AuditsOf, Owed
    <3>4. AuditsOf(i) = {} \/ \E a : AuditsOf(i) = {a}
      BY <3>1
    <3>5. Owed(i) = {} \/ \E g : Owed(i) = {g}
      BY <3>2
    <3>6. Cardinality({}) = 0 /\ \A x : Cardinality({x}) = 1
      BY FS_EmptySet, FS_Singleton
    <3>7. CASE AuditsOf(i) = {}
      <4>1. Cardinality(Owed(i)) \in {0, 1}
        BY <3>5, <3>6
      <4>2. QED
        BY <3>6, <3>7, <4>1
    <3>8. CASE Owed(i) = {}
      <4>1. Cardinality(AuditsOf(i)) \in {0, 1}
        BY <3>4, <3>6
      <4>2. QED
        BY <3>6, <3>8, <4>1
    <3>9. QED
      BY <3>3, <3>7, <3>8
  <2>2. Cardinality({i \in DOMAIN items : items[i].status = "DECIDED" /\
                       AuditsOf(i) \cup Owed(i) = {}}) <= deaths
    BY DEF FeedbackInv, DeathsPay, Unaudited, IsDecided
  <2>3. QED
    BY <2>1, <2>2 DEF FeedbackInv, AuditsAgree, IsDecided, AuditMatchesDecision
<1>2. QED
  BY <1>1, FeedbackStart, FeedbackStep, PTL DEF FeedbackSpec

-----------------------------------------------------------------------------
(* Tracing                                                                 *)

SpanRow  == [trace : Nat, parent : Nat, request : Nat]
BlockRow == [span : Nat, remote : BOOLEAN, token : Nat]
TaskRow  == [id : Nat, request : Nat, context : Nat]

TracingTypes ==
  /\ broker \in BOOLEAN /\ spans \in Seq(SpanRow)
  /\ serving \in [TracedThreads -> Nat] /\ inScope \in [TracedThreads -> Nat]
  /\ blocks \in [TracedThreads -> Seq(BlockRow)]
  /\ task \in [TracedThreads -> TaskRow] /\ submitted \in SUBSET TaskRow
  /\ submits \in Nat /\ served \in Nat

\* The root of a span's trace works for the same request.
TraceOfOne(n) ==
  /\ spans[n].trace \in DOMAIN spans
  /\ spans[spans[n].trace].request = spans[n].request

TracesOfOne == \A n \in DOMAIN spans : TraceOfOne(n)

\* Whatever is under span n is done for request q; under no span, for anyone.
Carries(n, q) == n # 0 => n \in DOMAIN spans /\ spans[n].request = q /\ q # 0

\* The context of a thread belongs to the request it serves, so do those it
\* will restore, and what it restores last is no span.
ThreadFits(t) ==
  /\ Carries(inScope[t], serving[t])
  /\ \A k \in DOMAIN blocks[t] : Carries(blocks[t][k].token, serving[t])
  /\ IF blocks[t] = <<>> THEN inScope[t] = 0 ELSE blocks[t][1].token = 0
  /\ serving[t] = 0 => blocks[t] = <<>>
  /\ Carries(task[t].context, task[t].request)

ThreadsFit == \A t \in TracedThreads : ThreadFits(t)

TasksFit == \A w \in submitted : Carries(w.context, w.request)

TracingInv == TracingTypes /\ TracesOfOne /\ ThreadsFit /\ TasksFit

LEMMA UnstartedIs == Unstarted \in TaskRow /\ Unstarted.context = 0
BY DEF Unstarted, TaskRow

LEMMA TracingStart == TracingInit => TracingInv
<1> SUFFICES ASSUME TracingInit PROVE TracingInv
  OBVIOUS
<1>1. TracingTypes
  BY UnstartedIs DEF TracingInit, TracingTypes
<1>2. TracesOfOne /\ TasksFit
  BY DEF TracingInit, TracesOfOne, TasksFit
<1>3. ThreadsFit
  BY UnstartedIs DEF TracingInit, ThreadsFit, ThreadFits, Carries
<1>4. QED
  BY <1>1, <1>2, <1>3 DEF TracingInv

\* The same, once the step is done.
CarriesNext(n, q) == n # 0 => n \in DOMAIN spans' /\ spans'[n].request = q /\ q # 0

\* The spans there were are there.
Grow == \A n \in DOMAIN spans : n \in DOMAIN spans' /\ spans'[n] = spans[n]

LEMMA CarriesOn == ASSUME Grow, NEW n, NEW q, Carries(n, q) PROVE Carries(n, q)'
BY DEF Grow, Carries

LEMMA BlocksOf ==
  ASSUME TracingTypes, NEW t \in TracedThreads
  PROVE  /\ blocks[t] \in Seq(BlockRow) /\ Len(blocks[t]) \in Nat
         /\ DOMAIN blocks[t] = 1 .. Len(blocks[t])
         /\ serving[t] \in Nat /\ inScope[t] \in Nat /\ task[t] \in TaskRow
<1>1. blocks[t] \in Seq(BlockRow) /\ serving[t] \in Nat /\ inScope[t] \in Nat
      /\ task[t] \in TaskRow
  BY DEF TracingTypes
<1>2. QED
  BY <1>1, LenProperties

LEMMA SpansOf ==
  ASSUME TracingTypes
  PROVE  /\ Len(spans) \in Nat /\ DOMAIN spans = 1 .. Len(spans)
         /\ \A n \in DOMAIN spans : spans[n] \in SpanRow /\ spans[n].trace \in Nat
                                    /\ spans[n].request \in Nat /\ n # 0
<1>1. Len(spans) \in Nat /\ DOMAIN spans = 1 .. Len(spans)
  BY LenProperties DEF TracingTypes
<1>2. \A n \in DOMAIN spans : spans[n] \in SpanRow
  BY <1>1, ElementOfSeq DEF TracingTypes
<1>3. QED
  BY <1>1, <1>2 DEF SpanRow

\* Thread t moves, the others stay, and the spans only grow.
OnlyThread(t) ==
  \A x \in TracedThreads \ {t} :
    /\ serving'[x] = serving[x] /\ task'[x] = task[x]
    /\ inScope'[x] = inScope[x] /\ blocks'[x] = blocks[x]

LEMMA TracingMove ==
  ASSUME TracingInv, NEW t \in TracedThreads, TracingTypes', Grow, OnlyThread(t),
         ThreadFits(t)', TracesOfOne', TasksFit'
  PROVE  TracingInv'
<1>1. ThreadsFit'
  <2> SUFFICES ASSUME NEW x \in TracedThreads, x # t PROVE ThreadFits(x)'
    BY DEF ThreadsFit
  <2>1. /\ serving'[x] = serving[x] /\ task'[x] = task[x]
        /\ inScope'[x] = inScope[x] /\ blocks'[x] = blocks[x]
    BY DEF OnlyThread
  <2>2. ThreadFits(x)
    BY DEF TracingInv, ThreadsFit
  <2>3. \A n, q : Carries(n, q) => Carries(n, q)'
    BY DEF Grow, Carries
  <2>4. QED
    BY <2>1, <2>2, <2>3 DEF ThreadFits
<1>2. QED
  BY <1>1 DEF TracingInv

LEMMA EnterDoes ==
  ASSUME TracingTypes, NEW t \in TracedThreads, NEW n \in Nat, NEW b \in BOOLEAN,
         Enter(t, n, b)
  PROVE  /\ inScope' \in [TracedThreads -> Nat] /\ inScope'[t] = n
         /\ blocks' \in [TracedThreads -> Seq(BlockRow)]
         /\ \A x \in TracedThreads \ {t} : inScope'[x] = inScope[x] /\ blocks'[x] = blocks[x]
         /\ Len(blocks'[t]) = Len(blocks[t]) + 1
         /\ DOMAIN blocks'[t] = 1 .. Len(blocks[t]) + 1
         /\ blocks'[t][Len(blocks[t]) + 1].token = inScope[t]
         /\ blocks'[t][Len(blocks[t]) + 1].span = n
         /\ blocks'[t][Len(blocks[t]) + 1].remote = b
         /\ \A k \in 1 .. Len(blocks[t]) : blocks'[t][k] = blocks[t][k]
<1> DEFINE row == [span |-> n, remote |-> b, token |-> inScope[t]]
           s == Append(blocks[t], row)
<1>1. inScope' = [inScope EXCEPT ![t] = n] /\ blocks' = [blocks EXCEPT ![t] = s]
  BY DEF Enter, TracingTypes
<1>2. blocks[t] \in Seq(BlockRow) /\ inScope[t] \in Nat /\ Len(blocks[t]) \in Nat
  BY BlocksOf
<1>3. row \in BlockRow /\ row.token = inScope[t] /\ row.span = n /\ row.remote = b
  BY <1>2 DEF BlockRow
<1> HIDE DEF row
<1>4. /\ s \in Seq(BlockRow) /\ Len(s) = Len(blocks[t]) + 1
      /\ s[Len(blocks[t]) + 1] = row
      /\ \A k \in 1 .. Len(blocks[t]) : s[k] = blocks[t][k]
  BY <1>2, <1>3, AppendProperties
<1>5. DOMAIN s = 1 .. Len(blocks[t]) + 1
  BY <1>4, LenProperties
<1> HIDE DEF s
<1>6. inScope' \in [TracedThreads -> Nat] /\ inScope'[t] = n
      /\ \A x \in TracedThreads \ {t} : inScope'[x] = inScope[x]
  BY <1>1 DEF TracingTypes
<1>7. blocks' \in [TracedThreads -> Seq(BlockRow)] /\ blocks'[t] = s
      /\ \A x \in TracedThreads \ {t} : blocks'[x] = blocks[x]
  BY <1>1, <1>4 DEF TracingTypes
<1>8. QED
  BY <1>3, <1>4, <1>5, <1>6, <1>7

\* A block is entered for the request that the thread serves, or is to serve.
LEMMA EnterFits ==
  ASSUME TracingInv, NEW t \in TracedThreads, NEW n \in Nat, NEW b \in BOOLEAN,
         Enter(t, n, b), Grow, serving'[t] # 0, CarriesNext(n, serving'[t]),
         CarriesNext(task'[t].context, task'[t].request),
         blocks[t] = <<>> \/ serving'[t] = serving[t]
  PROVE  ThreadFits(t)'
<1>1. TracingTypes /\ ThreadFits(t)
  BY DEF TracingInv, ThreadsFit
<1>2. blocks[t] \in Seq(BlockRow) /\ Len(blocks[t]) \in Nat
      /\ DOMAIN blocks[t] = 1 .. Len(blocks[t])
  BY <1>1, BlocksOf
<1>3. PICK l \in Nat : l = Len(blocks[t])
  BY <1>2
<1>4. /\ inScope'[t] = n /\ DOMAIN blocks'[t] = 1 .. l + 1
      /\ blocks'[t][l + 1].token = inScope[t]
      /\ \A k \in 1 .. l : blocks'[t][k] = blocks[t][k]
  BY <1>1, <1>3, EnterDoes
<1>5. blocks'[t] # <<>>
  BY <1>3, <1>4
<1>6. CASE blocks[t] = <<>>
  <2>1. l = 0 /\ inScope[t] = 0
    BY <1>1, <1>2, <1>3, <1>6 DEF ThreadFits
  <2>2. \A k \in DOMAIN blocks'[t] : k = 1 /\ blocks'[t][k].token = 0
    BY <1>4, <2>1
  <2>3. \A k \in DOMAIN blocks'[t] : CarriesNext(blocks'[t][k].token, serving'[t])
    BY <2>2 DEF CarriesNext
  <2>4. 1 \in DOMAIN blocks'[t]
    BY <1>4, <2>1
  <2>5. QED
    BY <1>4, <1>5, <2>2, <2>3, <2>4 DEF ThreadFits, Carries, CarriesNext
<1>7. CASE blocks[t] # <<>> /\ serving'[t] = serving[t]
  <2>1. l # 0
    BY <1>2, <1>3, <1>7
  <2>2. \A m, q : Carries(m, q) => CarriesNext(m, q)
    BY DEF Grow, Carries, CarriesNext
  <2>3. \A k \in 1 .. l : Carries(blocks[t][k].token, serving[t])
    BY <1>1, <1>2, <1>3 DEF ThreadFits
  <2>4. \A k \in DOMAIN blocks'[t] : CarriesNext(blocks'[t][k].token, serving'[t])
    <3> SUFFICES ASSUME NEW k \in 1 .. l + 1
                 PROVE  CarriesNext(blocks'[t][k].token, serving'[t])
      BY <1>4
    <3>1. CASE k = l + 1
      BY <1>1, <1>4, <1>7, <2>2, <3>1 DEF ThreadFits
    <3>2. CASE k # l + 1
      <4>1. k \in 1 .. l
        BY <3>2
      <4>2. QED
        BY <1>4, <1>7, <2>2, <2>3, <4>1
    <3>3. QED
      BY <3>1, <3>2
  <2>5. blocks'[t][1].token = 0
    BY <1>1, <1>4, <1>7, <2>1 DEF ThreadFits
  <2>6. QED
    BY <1>4, <1>5, <2>4, <2>5 DEF ThreadFits, Carries, CarriesNext
<1>8. QED
  BY <1>6, <1>7

LEMMA NewSpanDoes ==
  ASSUME TracingInv, NEW t \in TracedThreads, serving[t] # 0, NewSpan(t),
         serving' = serving, task' = task
  PROVE  /\ spans' \in Seq(SpanRow) /\ Grow /\ TracesOfOne' /\ ThreadFits(t)'
         /\ inScope' \in [TracedThreads -> Nat]
         /\ blocks' \in [TracedThreads -> Seq(BlockRow)]
         /\ OnlyThread(t)
<1> DEFINE row == [trace |-> IF inScope[t] = 0 THEN Len(spans) + 1
                             ELSE spans[inScope[t]].trace,
                   parent |-> inScope[t], request |-> serving[t]]
<1>0. TracingTypes /\ ThreadFits(t) /\ TracesOfOne /\ Carries(inScope[t], serving[t])
  BY DEF TracingInv, ThreadsFit, ThreadFits
<1>1. PICK n : n = Len(spans) + 1
  OBVIOUS
<1>2. spans' = Append(spans, row) /\ Enter(t, n, FALSE)
  BY <1>1 DEF NewSpan
<1>3. /\ spans \in Seq(SpanRow) /\ Len(spans) \in Nat /\ DOMAIN spans = 1 .. Len(spans)
      /\ \A m \in DOMAIN spans : spans[m] \in SpanRow /\ spans[m].trace \in Nat
      /\ inScope[t] \in Nat /\ serving[t] \in Nat
  BY <1>0, SpansOf, BlocksOf DEF TracingTypes
<1>4. row \in SpanRow /\ row.request = serving[t]
      /\ row.trace = IF inScope[t] = 0 THEN n ELSE spans[inScope[t]].trace
  BY <1>0, <1>1, <1>3 DEF SpanRow, Carries
<1> HIDE DEF row
<1>5. /\ spans' \in Seq(SpanRow) /\ Len(spans') = n /\ spans'[n] = row
      /\ \A m \in 1 .. Len(spans) : spans'[m] = spans[m]
  BY <1>1, <1>2, <1>3, <1>4, AppendProperties
<1>6. DOMAIN spans' = 1 .. n
  BY <1>5, LenProperties
<1>7. Grow
  BY <1>1, <1>3, <1>5, <1>6 DEF Grow
<1>8. TracesOfOne'
  <2> SUFFICES ASSUME NEW m \in 1 .. n PROVE TraceOfOne(m)'
    BY <1>6 DEF TracesOfOne
  <2>1. CASE m # n
    <3>1. m \in DOMAIN spans
      BY <1>1, <1>3, <2>1
    <3>2. QED
      BY <1>0, <1>7, <3>1 DEF TracesOfOne, TraceOfOne, Grow
  <2>2. CASE m = n /\ inScope[t] = 0
    BY <1>1, <1>3, <1>4, <1>5, <1>6, <2>2 DEF TraceOfOne
  <2>3. CASE m = n /\ inScope[t] # 0
    <3>1. /\ inScope[t] \in DOMAIN spans /\ spans[inScope[t]].request = serving[t]
          /\ TraceOfOne(inScope[t]) /\ row.trace = spans[inScope[t]].trace
      BY <1>0, <1>4, <2>3 DEF Carries, TracesOfOne
    <3>2. row.trace \in DOMAIN spans /\ spans[row.trace].request = serving[t]
      BY <3>1 DEF TraceOfOne
    <3>3. row.trace \in DOMAIN spans' /\ spans'[row.trace].request = serving[t]
      BY <1>7, <3>2 DEF Grow
    <3>4. QED
      BY <1>4, <1>5, <2>3, <3>3 DEF TraceOfOne
  <2>4. QED
    BY <2>1, <2>2, <2>3
<1>9. n \in Nat
  BY <1>1, <1>3
<1>10. CarriesNext(n, serving'[t])
  BY <1>1, <1>3, <1>4, <1>5, <1>6 DEF CarriesNext
<1>11. CarriesNext(task'[t].context, task'[t].request)
  BY <1>0, <1>7 DEF ThreadFits, Carries, CarriesNext, Grow
<1>12. serving'[t] # 0 /\ serving'[t] = serving[t] /\ FALSE \in BOOLEAN
  OBVIOUS
<1>13. ThreadFits(t)'
  BY <1>2, <1>7, <1>9, <1>10, <1>11, <1>12, EnterFits
<1>14. /\ inScope' \in [TracedThreads -> Nat]
       /\ blocks' \in [TracedThreads -> Seq(BlockRow)]
       /\ \A x \in TracedThreads \ {t} : inScope'[x] = inScope[x] /\ blocks'[x] = blocks[x]
  BY <1>0, <1>2, <1>9, <1>12, EnterDoes
<1>15. OnlyThread(t)
  BY <1>14 DEF OnlyThread
<1>16. QED
  BY <1>5, <1>7, <1>8, <1>13, <1>14, <1>15

LEMMA OpenSpanKeeps ==
  ASSUME TracingInv, NEW t \in TracedThreads, OpenSpan(t) PROVE TracingInv'
<1>1. /\ serving[t] # 0 /\ NewSpan(t) /\ serving' = serving /\ task' = task
      /\ broker' = broker /\ submitted' = submitted /\ submits' = submits /\ served' = served
  BY DEF OpenSpan
<1>2. /\ spans' \in Seq(SpanRow) /\ Grow /\ TracesOfOne' /\ ThreadFits(t)'
      /\ inScope' \in [TracedThreads -> Nat]
      /\ blocks' \in [TracedThreads -> Seq(BlockRow)]
      /\ OnlyThread(t)
  BY <1>1, NewSpanDoes
<1>3. TracingTypes'
  BY <1>1, <1>2 DEF TracingInv, TracingTypes
<1>4. TasksFit'
  BY <1>1, <1>2, CarriesOn DEF TracingInv, TasksFit
<1>5. QED
  BY <1>2, <1>3, <1>4, TracingMove

\* What is submitted brings the context of its sender.
LEMMA SubmitFits ==
  ASSUME TracingInv, NEW t \in TracedThreads, Submit(t), Grow
  PROVE  submitted' \in SUBSET TaskRow /\ TasksFit' /\ submits' \in Nat
<1> DEFINE w == [id |-> submits + 1, request |-> serving[t], context |-> inScope[t]]
<1>1. submitted' = submitted \cup {w} /\ submits' = submits + 1
  BY DEF Submit
<1>2. TracingTypes /\ Carries(inScope[t], serving[t]) /\ submits \in Nat
  BY DEF TracingInv, ThreadsFit, ThreadFits, TracingTypes
<1>3. w \in TaskRow /\ w.request = serving[t] /\ w.context = inScope[t]
  BY <1>2, BlocksOf DEF TaskRow
<1> HIDE DEF w
<1>4. Carries(w.context, w.request)
  BY <1>2, <1>3
<1>5. TasksFit'
  BY <1>1, <1>4, CarriesOn DEF TracingInv, TasksFit
<1>6. QED
  BY <1>1, <1>2, <1>3, <1>5 DEF TracingTypes

LEMMA EnqueueInProcessKeeps ==
  ASSUME TracingInv, NEW t \in TracedThreads, EnqueueInProcess(t) PROVE TracingInv'
<1>1. /\ serving[t] # 0 /\ Submit(t) /\ NewSpan(t) /\ serving' = serving /\ task' = task
      /\ broker' = broker /\ served' = served
  BY DEF EnqueueInProcess, Submit
<1>2. /\ spans' \in Seq(SpanRow) /\ Grow /\ TracesOfOne' /\ ThreadFits(t)'
      /\ inScope' \in [TracedThreads -> Nat]
      /\ blocks' \in [TracedThreads -> Seq(BlockRow)]
      /\ OnlyThread(t)
  BY <1>1, NewSpanDoes
<1>3. submitted' \in SUBSET TaskRow /\ TasksFit' /\ submits' \in Nat
  BY <1>1, <1>2, SubmitFits
<1>4. TracingTypes'
  BY <1>1, <1>2, <1>3 DEF TracingInv, TracingTypes
<1>5. QED
  BY <1>2, <1>3, <1>4, TracingMove

\* The threads and the spans are as they were.
LEMMA SpansStand ==
  ASSUME TracingInv, UNCHANGED <<spans, serving, task, inScope, blocks>>,
         TracingTypes', TasksFit'
  PROVE  TracingInv'
<1>1. TracesOfOne'
  BY DEF TracingInv, TracesOfOne, TraceOfOne
<1>2. ThreadsFit'
  BY DEF TracingInv, ThreadsFit, ThreadFits, Carries
<1>3. QED
  BY <1>1, <1>2 DEF TracingInv

LEMMA EnqueueCeleryKeeps ==
  ASSUME TracingInv, NEW t \in TracedThreads, EnqueueCelery(t) PROVE TracingInv'
<1>1. Submit(t) /\ UNCHANGED <<spans, serving, task, inScope, blocks, broker, served>>
  BY DEF EnqueueCelery, Submit
<1>2. Grow
  BY <1>1 DEF Grow
<1>3. submitted' \in SUBSET TaskRow /\ TasksFit' /\ submits' \in Nat
  BY <1>1, <1>2, SubmitFits
<1>4. TracingTypes'
  BY <1>1, <1>3 DEF TracingInv, TracingTypes
<1>5. QED
  BY <1>1, <1>3, <1>4, SpansStand

LEMMA CancelTaskKeeps ==
  ASSUME TracingInv, NEW w \in submitted, CancelTask(w) PROVE TracingInv'
<1>1. /\ submitted' = submitted \ {w} /\ submits' = submits
      /\ UNCHANGED <<spans, serving, task, inScope, blocks, broker, served>>
  BY DEF CancelTask
<1>2. TracingTypes'
  BY <1>1 DEF TracingInv, TracingTypes
<1>3. TasksFit'
  BY <1>1 DEF TracingInv, TasksFit, Carries
<1>4. QED
  BY <1>1, <1>2, <1>3, SpansStand

\* The innermost block of t is left.
Leaves(t) ==
  /\ blocks[t] # <<>> /\ Restore(t)
  /\ blocks' = [blocks EXCEPT ![t] = Front(@)]

LEMMA LeaveDoes ==
  ASSUME TracingTypes, NEW t \in TracedThreads, Leaves(t)
  PROVE  /\ Len(blocks[t]) \in Nat \ {0} /\ DOMAIN blocks[t] = 1 .. Len(blocks[t])
         /\ inScope' \in [TracedThreads -> Nat]
         /\ inScope'[t] = blocks[t][Len(blocks[t])].token
         /\ blocks' \in [TracedThreads -> Seq(BlockRow)]
         /\ Len(blocks'[t]) = Len(blocks[t]) - 1
         /\ DOMAIN blocks'[t] = 1 .. Len(blocks[t]) - 1
         /\ \A k \in 1 .. Len(blocks[t]) - 1 : blocks'[t][k] = blocks[t][k]
         /\ \A x \in TracedThreads \ {t} : inScope'[x] = inScope[x] /\ blocks'[x] = blocks[x]
<1>0. blocks[t] # <<>> /\ Restore(t) /\ blocks' = [blocks EXCEPT ![t] = Front(@)]
  BY DEF Leaves
<1>2. blocks[t] \in Seq(BlockRow) /\ Len(blocks[t]) \in Nat
      /\ DOMAIN blocks[t] = 1 .. Len(blocks[t])
      /\ \A k \in DOMAIN blocks[t] : blocks[t][k] \in BlockRow
  BY BlocksOf, ElementOfSeq
<1>3. PICK l \in Nat : l = Len(blocks[t])
  BY <1>2
<1>4. l >= 1
  BY <1>0, <1>2, <1>3
<1>5. PICK s : s = Front(blocks[t])
  OBVIOUS
<1>6. PICK n : n = blocks[t][l].token
  OBVIOUS
<1>7. s = SubSeq(blocks[t], 1, l - 1)
  BY <1>3, <1>5 DEF Front
<1>8. \A k \in 1 .. l - 1 : blocks[t][k] \in BlockRow
  BY <1>2, <1>3
<1>9. /\ s \in Seq(BlockRow) /\ Len(s) = l - 1
      /\ \A k \in 1 .. l - 1 : s[k] = blocks[t][k]
  <2>1. 1 \in Int /\ l - 1 \in Int
    OBVIOUS
  <2>2. /\ s \in Seq(BlockRow) /\ Len(s) = IF 1 <= l - 1 THEN l - 1 - 1 + 1 ELSE 0
        /\ \A k \in 1 .. l - 1 - 1 + 1 : s[k] = blocks[t][1 + k - 1]
    BY <1>7, <1>8, <2>1, SubSeqProperties
  <2>3. QED
    BY <1>4, <2>2
<1>10. DOMAIN s = 1 .. l - 1
  BY <1>9, LenProperties
<1>11. n \in Nat
  BY <1>2, <1>3, <1>4, <1>6 DEF BlockRow
<1>12. /\ inScope' \in [TracedThreads -> Nat] /\ inScope'[t] = n
       /\ \A x \in TracedThreads \ {t} : inScope'[x] = inScope[x]
  <2>1. inScope' = [inScope EXCEPT ![t] = n]
    BY <1>0, <1>3, <1>6 DEF Restore, Last
  <2>2. QED
    BY <1>11, <2>1 DEF TracingTypes
<1>13. /\ blocks' \in [TracedThreads -> Seq(BlockRow)] /\ blocks'[t] = s
       /\ \A x \in TracedThreads \ {t} : blocks'[x] = blocks[x]
  <2>1. blocks' = [blocks EXCEPT ![t] = s]
    BY <1>0, <1>5
  <2>2. QED
    BY <1>9, <2>1 DEF TracingTypes
<1>14. Len(blocks[t]) \in Nat \ {0} /\ inScope'[t] = blocks[t][Len(blocks[t])].token
  BY <1>2, <1>3, <1>4, <1>6, <1>12
<1>15. /\ Len(blocks'[t]) = Len(blocks[t]) - 1
       /\ DOMAIN blocks'[t] = 1 .. Len(blocks[t]) - 1
       /\ \A k \in 1 .. Len(blocks[t]) - 1 : blocks'[t][k] = blocks[t][k]
  BY <1>3, <1>9, <1>10, <1>13
<1>16. QED
  BY <1>2, <1>12, <1>13, <1>14, <1>15

LEMMA LeaveKeeps ==
  ASSUME TracingInv, NEW t \in TracedThreads, Leaves(t),
         UNCHANGED <<broker, spans, serving, task, submitted, submits, served>>
  PROVE  TracingInv'
<1>1. TracingTypes /\ ThreadFits(t) /\ TasksFit /\ TracesOfOne /\ blocks[t] # <<>>
  BY DEF TracingInv, ThreadsFit, Leaves
<1>2. PICK l \in Nat \ {0} : l = Len(blocks[t])
  BY <1>1, LeaveDoes
<1>3. PICK s \in Seq(BlockRow) : s = blocks'[t]
  BY <1>1, LeaveDoes
<1>4. PICK n : n = blocks[t][l].token
  OBVIOUS
<1>5. /\ DOMAIN blocks[t] = 1 .. l
      /\ inScope' \in [TracedThreads -> Nat] /\ inScope'[t] = n
      /\ blocks' \in [TracedThreads -> Seq(BlockRow)]
      /\ Len(s) = l - 1 /\ DOMAIN s = 1 .. l - 1
      /\ \A k \in 1 .. l - 1 : s[k] = blocks[t][k]
      /\ \A x \in TracedThreads \ {t} : inScope'[x] = inScope[x] /\ blocks'[x] = blocks[x]
  BY <1>1, <1>2, <1>3, <1>4, LeaveDoes
<1>6. Carries(n, serving[t])
  <2>1. l \in DOMAIN blocks[t]
    BY <1>2, <1>5
  <2>2. QED
    BY <1>1, <1>4, <2>1 DEF ThreadFits
<1>7. TracingTypes'
  BY <1>1, <1>5 DEF TracingTypes
<1>8. Grow /\ OnlyThread(t)
  BY <1>5 DEF Grow, OnlyThread
<1>9. TracesOfOne' /\ TasksFit'
  BY <1>1 DEF TracesOfOne, TraceOfOne, TasksFit, Carries
<1>10. ThreadFits(t)'
  <2>1. \A k \in DOMAIN s : CarriesNext(s[k].token, serving[t])
    BY <1>1, <1>5 DEF ThreadFits, Carries, CarriesNext
  <2>2. IF s = <<>> THEN n = 0 ELSE s[1].token = 0
    <3>1. CASE l = 1
      BY <1>1, <1>4, <1>5, <3>1 DEF ThreadFits
    <3>2. CASE l # 1
      <4>0. l \in Nat /\ l # 0 /\ l # 1
        BY <1>2, <3>2
      <4>1. 1 \in 1 .. l - 1
        BY <4>0
      <4>2. 1 \in DOMAIN s
        BY <1>5, <4>1
      <4>3. s # <<>>
        BY <4>2
      <4>4. QED
        BY <1>1, <1>5, <4>1, <4>3 DEF ThreadFits
    <3>3. QED
      BY <3>1, <3>2
  <2>3. serving[t] # 0
    BY <1>1 DEF ThreadFits
  <2>4. CarriesNext(n, serving[t]) /\ CarriesNext(task[t].context, task[t].request)
    BY <1>1, <1>6 DEF ThreadFits, Carries, CarriesNext
  <2>5. QED
    BY <1>3, <1>5, <2>1, <2>2, <2>3, <2>4 DEF ThreadFits, Carries, CarriesNext
<1>11. QED
  BY <1>7, <1>8, <1>9, <1>10, TracingMove

LEMMA CloseSpanKeeps ==
  ASSUME TracingInv, NEW t \in TracedThreads, CloseSpan(t) PROVE TracingInv'
BY LeaveKeeps DEF CloseSpan, Leaves

LEMMA EndResumeKeeps ==
  ASSUME TracingInv, NEW t \in TracedThreads, EndResume(t) PROVE TracingInv'
BY LeaveKeeps DEF EndResume, Leaves

\* A thread under no block takes a request, or leaves it.
LEMMA ServeKeeps ==
  ASSUME TracingInv, NEW t \in TracedThreads, blocks[t] = <<>>,
         NEW q \in Nat, NEW w \in TaskRow, Carries(w.context, w.request),
         serving' = [serving EXCEPT ![t] = q], task' = [task EXCEPT ![t] = w],
         served' \in Nat, submitted' \in SUBSET submitted,
         UNCHANGED <<broker, spans, inScope, blocks, submits>>
  PROVE  TracingInv'
<1>1. TracingTypes /\ ThreadFits(t) /\ TasksFit /\ TracesOfOne
  BY DEF TracingInv, ThreadsFit
<1>2. /\ serving' \in [TracedThreads -> Nat] /\ task' \in [TracedThreads -> TaskRow]
      /\ serving'[t] = q /\ task'[t] = w
      /\ \A x \in TracedThreads \ {t} : serving'[x] = serving[x] /\ task'[x] = task[x]
  BY <1>1 DEF TracingTypes
<1>3. TracingTypes'
  BY <1>1, <1>2 DEF TracingTypes
<1>4. Grow /\ OnlyThread(t)
  BY <1>2 DEF Grow, OnlyThread
<1>5. TracesOfOne' /\ TasksFit'
  BY <1>1 DEF TracesOfOne, TraceOfOne, TasksFit, Carries
<1>6. DOMAIN blocks[t] = {} /\ inScope[t] = 0
  BY <1>1 DEF ThreadFits
<1>7. ThreadFits(t)'
  BY <1>2, <1>6 DEF ThreadFits, Carries
<1>8. QED
  BY <1>3, <1>4, <1>5, <1>7, TracingMove

LEMMA BeginRequestKeeps ==
  ASSUME TracingInv, NEW t \in TracedThreads, BeginRequest(t) PROVE TracingInv'
<1>1. /\ serving[t] = 0 /\ served' = served + 1 /\ submitted' = submitted
      /\ serving' = [serving EXCEPT ![t] = served + 1] /\ task' = task
      /\ UNCHANGED <<broker, spans, inScope, blocks, submits>>
  BY DEF BeginRequest
<1>2. TracingTypes /\ ThreadFits(t) /\ served \in Nat /\ task[t] \in TaskRow
  BY DEF TracingInv, ThreadsFit, TracingTypes
<1>3. blocks[t] = <<>> /\ Carries(task[t].context, task[t].request)
  BY <1>1, <1>2 DEF ThreadFits
<1>4. task' = [task EXCEPT ![t] = task[t]] /\ served + 1 \in Nat
  BY <1>1, <1>2 DEF TracingTypes
<1>5. QED
  BY <1>1, <1>2, <1>3, <1>4, ServeKeeps

LEMMA EndWorkKeeps ==
  ASSUME TracingInv, NEW t \in TracedThreads, EndWork(t) PROVE TracingInv'
<1>1. /\ blocks[t] = <<>> /\ served' = served /\ submitted' = submitted
      /\ serving' = [serving EXCEPT ![t] = 0] /\ task' = [task EXCEPT ![t] = Unstarted]
      /\ UNCHANGED <<broker, spans, inScope, blocks, submits>>
  BY DEF EndWork
<1>2. Unstarted \in TaskRow /\ Carries(Unstarted.context, Unstarted.request) /\ served \in Nat
  BY UnstartedIs DEF Carries, TracingInv, TracingTypes
<1>3. QED
  BY <1>1, <1>2, ServeKeeps

LEMMA RunTaskKeeps ==
  ASSUME TracingInv, NEW t \in TracedThreads, NEW w \in submitted, RunTask(t, w)
  PROVE  TracingInv'
<1>1. /\ serving[t] = 0 /\ submitted' = submitted \ {w} /\ served' = served
      /\ serving' = [serving EXCEPT ![t] = w.request] /\ task' = [task EXCEPT ![t] = w]
      /\ UNCHANGED <<broker, spans, submits>>
  BY DEF RunTask
<1>2. TracingTypes /\ ThreadFits(t) /\ TasksFit /\ TracesOfOne /\ served \in Nat
      /\ w \in TaskRow
  BY DEF TracingInv, ThreadsFit, TracingTypes
<1>3. w.request \in Nat /\ w.context \in Nat /\ Carries(w.context, w.request)
      /\ blocks[t] = <<>>
  BY <1>1, <1>2 DEF TaskRow, TasksFit, ThreadFits
<1>4. CASE w.context = 0
  <2>1. UNCHANGED <<broker, spans, inScope, blocks, submits>>
    BY <1>1, <1>4 DEF RunTask
  <2>2. submitted' \in SUBSET submitted /\ served' \in Nat
    BY <1>1, <1>2
  <2>3. QED
    BY <1>1, <1>2, <1>3, <2>1, <2>2, ServeKeeps
<1>5. CASE w.context # 0
  <2>1. PICK n \in Nat : n = w.context
    BY <1>3
  <2>2. Enter(t, n, TRUE) /\ TRUE \in BOOLEAN
    BY <1>5, <2>1 DEF RunTask
  <2>3. /\ serving' \in [TracedThreads -> Nat] /\ task' \in [TracedThreads -> TaskRow]
        /\ serving'[t] = w.request /\ task'[t] = w
        /\ \A x \in TracedThreads \ {t} : serving'[x] = serving[x] /\ task'[x] = task[x]
    BY <1>1, <1>2, <1>3 DEF TracingTypes
  <2>4. Grow
    BY <1>1 DEF Grow
  <2>5. CarriesNext(n, serving'[t]) /\ serving'[t] # 0
        /\ CarriesNext(task'[t].context, task'[t].request)
    BY <1>1, <1>3, <1>5, <2>1, <2>3 DEF Carries, CarriesNext
  <2>6. ThreadFits(t)'
    BY <1>3, <2>1, <2>2, <2>4, <2>5, EnterFits
  <2>7. /\ inScope' \in [TracedThreads -> Nat]
        /\ blocks' \in [TracedThreads -> Seq(BlockRow)]
        /\ \A x \in TracedThreads \ {t} : inScope'[x] = inScope[x] /\ blocks'[x] = blocks[x]
    BY <1>2, <2>2, EnterDoes
  <2>8. OnlyThread(t)
    BY <2>3, <2>7 DEF OnlyThread
  <2>9. TracingTypes'
    BY <1>1, <1>2, <2>3, <2>7 DEF TracingTypes
  <2>10. TracesOfOne' /\ TasksFit'
    BY <1>1, <1>2 DEF TracesOfOne, TraceOfOne, TasksFit, Carries
  <2>11. QED
    BY <2>4, <2>6, <2>8, <2>9, <2>10, TracingMove
<1>6. QED
  BY <1>4, <1>5

LEMMA WorkerLostKeeps ==
  ASSUME TracingInv, NEW t \in TracedThreads, WorkerLost(t) PROVE TracingInv'
<1>1. /\ submitted' = submitted \cup (IF serving[t] = 0 THEN {} ELSE {task[t]})
      /\ serving' = [serving EXCEPT ![t] = 0] /\ task' = [task EXCEPT ![t] = Unstarted]
      /\ inScope' = [inScope EXCEPT ![t] = 0] /\ blocks' = [blocks EXCEPT ![t] = <<>>]
      /\ UNCHANGED <<broker, spans, submits, served>>
  BY DEF WorkerLost
<1>2. TracingTypes /\ ThreadFits(t) /\ TasksFit /\ TracesOfOne /\ task[t] \in TaskRow
  BY DEF TracingInv, ThreadsFit, TracingTypes
<1>3. Unstarted \in TaskRow /\ Unstarted.context = 0
  BY UnstartedIs
<1>4. /\ serving' \in [TracedThreads -> Nat] /\ task' \in [TracedThreads -> TaskRow]
      /\ inScope' \in [TracedThreads -> Nat]
      /\ blocks' \in [TracedThreads -> Seq(BlockRow)]
      /\ serving'[t] = 0 /\ task'[t] = Unstarted /\ inScope'[t] = 0 /\ blocks'[t] = <<>>
  BY <1>1, <1>2, <1>3 DEF TracingTypes
<1>5. OnlyThread(t)
  BY <1>1, <1>2 DEF OnlyThread, TracingTypes
<1>6. Grow
  BY <1>1 DEF Grow
<1>7. Carries(task[t].context, task[t].request)
  BY <1>2 DEF ThreadFits
<1>8. TasksFit'
  BY <1>1, <1>2, <1>7 DEF TasksFit, Carries
<1>9. TracesOfOne'
  BY <1>1, <1>2 DEF TracesOfOne, TraceOfOne
<1>10. TracingTypes'
  BY <1>1, <1>2, <1>4 DEF TracingTypes
<1>11. ThreadFits(t)'
  BY <1>3, <1>4 DEF ThreadFits, Carries
<1>12. QED
  BY <1>5, <1>6, <1>8, <1>9, <1>10, <1>11, TracingMove

LEMMA TracingStep == TracingInv /\ [TracingNext]_tracingVars => TracingInv'
<1> SUFFICES ASSUME TracingInv, [TracingNext]_tracingVars PROVE TracingInv'
  OBVIOUS
<1>1. ASSUME NEW t \in ApiThreads,
             BeginRequest(t) \/ EnqueueInProcess(t) \/ EnqueueCelery(t)
      PROVE  TracingInv'
  BY <1>1, BeginRequestKeeps, EnqueueInProcessKeeps, EnqueueCeleryKeeps DEF TracedThreads
<1>2. ASSUME NEW t \in TracedThreads,
             OpenSpan(t) \/ CloseSpan(t) \/ EndResume(t) \/ EndWork(t)
      PROVE  TracingInv'
  BY <1>2, OpenSpanKeeps, CloseSpanKeeps, EndResumeKeeps, EndWorkKeeps
<1>3. ASSUME NEW t \in PoolThreads \cup BrokerThreads, NEW w \in submitted, RunTask(t, w)
      PROVE  TracingInv'
  BY <1>3, RunTaskKeeps DEF TracedThreads
<1>4. ASSUME NEW t \in BrokerThreads, WorkerLost(t) PROVE TracingInv'
  BY <1>4, WorkerLostKeeps DEF TracedThreads
<1>5. CASE UNCHANGED tracingVars
  <2>1. UNCHANGED <<spans, serving, task, inScope, blocks, broker, submitted, submits, served>>
    BY <1>5 DEF tracingVars
  <2>2. TracingTypes'
    BY <2>1 DEF TracingInv, TracingTypes
  <2>3. TasksFit'
    BY <2>1 DEF TracingInv, TasksFit, Carries
  <2>4. QED
    BY <2>1, <2>2, <2>3, SpansStand
<1>6. QED
  BY <1>1, <1>2, <1>3, <1>4, <1>5, CancelTaskKeeps DEF TracingNext

\* Whatever threads are reused, tasks cancelled and worker processes lost, a
\* trace never holds the spans of two requests.
THEOREM ContextsStayApart == TracingSpec => []NoContextLeaks
<1>1. TracingInv => NoContextLeaks
  BY DEF TracingInv, TracesOfOne, TraceOfOne, NoContextLeaks
<1>2. QED
  BY <1>1, TracingStart, TracingStep, PTL DEF TracingSpec

-----------------------------------------------------------------------------
(* Traces                                                                  *)

\* The spans of a home: those in its store, and those of its open blocks.
Local(t) == {blocks[t][k].span : k \in {j \in DOMAIN blocks[t] : ~blocks[t][j].remote}}

Here(h) ==
  {n \in DOMAIN spans : \/ h \in Homes /\ n \in store[h]
                        \/ \E t \in TracedThreads : Home(t) = h /\ n \in Local(t)}

\* A span follows its parent in the same trace, and a root gives it its name.
ParentsPrecede ==
  \A n \in DOMAIN spans :
    IF spans[n].parent = 0 THEN spans[n].trace = n
    ELSE /\ spans[n].parent \in DOMAIN spans /\ spans[n].parent < n
         /\ spans[spans[n].parent].trace = spans[n].trace

StoresFit ==
  /\ store \in [Homes -> SUBSET DOMAIN spans]
  /\ \A t \in TracedThreads : \A k \in DOMAIN blocks[t] : blocks[t][k].span \in DOMAIN spans

\* Where the root of a trace is, no parent is missing.
ParentsAreHere ==
  \A h \in Homes : \A n \in Here(h) :
    spans[n].parent # 0 /\ spans[n].trace \in Here(h) => spans[n].parent \in Here(h)

\* The traces of the API's process begin there, and a span is of one process.
ApiBegins == \A n \in Here("api") : spans[n].trace \in Here("api")

HomesApart == \A g, h \in Homes : g # h => Here(g) \cap Here(h) = {}

\* What a thread has in hand is of its own process, or came from the API's.
InHand(n, t) == n \in {0} \cup Here("api") \cup Here(Home(t))

\* The same, once the step is done.
InHandNext(n, t) == n \in {0} \cup Here("api")' \cup Here(Home(t))'

ThreadHolds(t) ==
  /\ InHand(inScope[t], t)
  /\ \A k \in DOMAIN blocks[t] : InHand(blocks[t][k].token, t) /\ InHand(blocks[t][k].span, t)
  /\ task[t].context \in {0} \cup Here("api")

ContextsHeld ==
  /\ \A t \in TracedThreads : ThreadHolds(t)
  /\ \A w \in submitted : w.context \in {0} \cup Here("api")

WholeInv ==
  /\ ParentsPrecede /\ StoresFit /\ ParentsAreHere /\ ApiBegins /\ HomesApart
  /\ ContextsHeld

\* A home is never lost but with its worker; the API's home is no worker.
LEMMA HomesAre ==
  /\ \A t \in TracedThreads : Home(t) \in Homes
  /\ \A t \in ApiThreads \cup PoolThreads : Home(t) = "api" /\ t \in TracedThreads
  /\ \A t \in BrokerThreads : Home(t) = t /\ t # "api" /\ t \in TracedThreads
  /\ \A t, x \in TracedThreads : t \in BrokerThreads /\ Home(x) = Home(t) => x = t
BY TracingAssumption DEF Home, Homes, TracedThreads

\* The spans of thread t: those its home has stored, and those it has open.
Owned(t) == store[Home(t)] \cup Local(t)

\* What t opens, it has at home; no other home changes.
LEMMA HereFollows ==
  ASSUME StoresFit, NEW t \in TracedThreads, NEW D, Owned(t)' = Owned(t) \cup D,
         DOMAIN spans' = DOMAIN spans \cup D,
         \A x \in TracedThreads \ {t} : blocks'[x] = blocks[x],
         \A g \in Homes \ {Home(t)} : store'[g] = store[g]
  PROVE  \A h : Here(h)' = Here(h) \cup (IF h = Home(t) THEN D ELSE {})
<1> SUFFICES ASSUME NEW h
             PROVE  Here(h)' = Here(h) \cup (IF h = Home(t) THEN D ELSE {})
  OBVIOUS
<1>1. \A x \in TracedThreads \ {t} : Local(x)' = Local(x)
  BY DEF Local
<1>2. \A x \in TracedThreads : Local(x) \subseteq DOMAIN spans
  BY DEF StoresFit, Local
<1>3. Home(t) \in Homes /\ \A g \in Homes : store[g] \subseteq DOMAIN spans
  BY HomesAre DEF StoresFit
<1>4. \A n : n \in Here(h) <=> /\ n \in DOMAIN spans
                               /\ \/ h \in Homes /\ n \in store[h]
                                  \/ \E x \in TracedThreads : Home(x) = h /\ n \in Local(x)
  BY DEF Here
<1>5. \A n : n \in Here(h)' <=> /\ n \in DOMAIN spans'
                                /\ \/ h \in Homes /\ n \in store'[h]
                                   \/ \E x \in TracedThreads : Home(x) = h /\ n \in Local(x)'
  BY DEF Here
<1>6. CASE h # Home(t)
  <2>1. \A x \in TracedThreads : Home(x) = h => Local(x)' = Local(x)
    BY <1>1, <1>6
  <2>2. h \in Homes => store'[h] = store[h]
    BY <1>6
  <2>3. QED
    BY <1>2, <1>3, <1>4, <1>5, <1>6, <2>1, <2>2
<1>7. CASE h = Home(t)
  <2>1. \A n : n \in Here(h) <=> /\ n \in DOMAIN spans
                                 /\ \/ n \in Owned(t)
                                    \/ \E x \in TracedThreads \ {t} : Home(x) = h /\ n \in Local(x)
    BY <1>3, <1>4, <1>7 DEF Owned
  <2>2. \A n : n \in Here(h)' <=> /\ n \in DOMAIN spans'
                                  /\ \/ n \in Owned(t)'
                                     \/ \E x \in TracedThreads \ {t} : Home(x) = h /\ n \in Local(x)
    BY <1>1, <1>3, <1>5, <1>7 DEF Owned
  <2>3. Owned(t) \subseteq DOMAIN spans
    BY <1>2, <1>3 DEF Owned
  <2>4. QED
    BY <1>2, <1>7, <2>1, <2>2, <2>3
<1>8. QED
  BY <1>6, <1>7

\* The spans stand, and so does where they are.
LEMMA HereStands ==
  ASSUME WholeInv, UNCHANGED spans, \A h : Here(h)' = Here(h)
  PROVE  ParentsPrecede' /\ ParentsAreHere' /\ ApiBegins' /\ HomesApart'
<1>1. ParentsPrecede'
  BY DEF WholeInv, ParentsPrecede
<1>2. ParentsAreHere'
  BY DEF WholeInv, ParentsAreHere
<1>3. ApiBegins'
  BY DEF WholeInv, ApiBegins
<1>4. HomesApart'
  BY DEF WholeInv, HomesApart
<1>5. QED
  BY <1>1, <1>2, <1>3, <1>4

\* Who does nothing keeps what it holds.
LEMMA HoldsOn ==
  ASSUME NEW x \in TracedThreads, ThreadHolds(x),
         \A h \in {"api", Home(x)} : Here(h) \subseteq Here(h)',
         inScope'[x] = inScope[x], blocks'[x] = blocks[x], task'[x] = task[x]
  PROVE  ThreadHolds(x)'
BY DEF ThreadHolds, InHand

LEMMA LocalEntered ==
  ASSUME TracingTypes, NEW t \in TracedThreads, NEW n \in Nat, NEW b \in BOOLEAN, Enter(t, n, b)
  PROVE  Local(t)' = Local(t) \cup (IF b THEN {} ELSE {n})
<1>1. PICK l \in Nat : l = Len(blocks[t])
  BY BlocksOf
<1>2. /\ DOMAIN blocks[t] = 1 .. l /\ DOMAIN blocks'[t] = 1 .. l + 1
      /\ blocks'[t][l + 1].span = n /\ blocks'[t][l + 1].remote = b
      /\ \A k \in 1 .. l : blocks'[t][k] = blocks[t][k]
  BY <1>1, BlocksOf, EnterDoes
<1>3. \A k : k \in 1 .. l + 1 <=> k \in 1 .. l \/ k = l + 1
  BY <1>1
<1>4. \A m : m \in Local(t) <=> \E k \in 1 .. l : ~blocks[t][k].remote /\ blocks[t][k].span = m
  BY <1>2 DEF Local
<1>5. \A m : m \in Local(t)' <=>
        \E k \in 1 .. l + 1 : ~blocks'[t][k].remote /\ blocks'[t][k].span = m
  BY <1>2 DEF Local
<1>6. \A m, k : k \in 1 .. l =>
        ((~blocks'[t][k].remote /\ blocks'[t][k].span = m) <=>
         (~blocks[t][k].remote /\ blocks[t][k].span = m))
  BY <1>2
<1>7. \A m : m \in Local(t)' <=>
        \/ \E k \in 1 .. l : ~blocks'[t][k].remote /\ blocks'[t][k].span = m
        \/ ~blocks'[t][l + 1].remote /\ blocks'[t][l + 1].span = m
  BY <1>3, <1>5
<1>8. \A m : m \in Local(t)' <=> m \in Local(t) \/ (~b /\ m = n)
  BY <1>2, <1>4, <1>6, <1>7
<1>9. QED
  BY <1>8

LEMMA LocalLeft ==
  ASSUME TracingTypes, NEW t \in TracedThreads, Leaves(t)
  PROVE  Local(t) = Local(t)' \cup
           (IF Last(blocks[t]).remote THEN {} ELSE {Last(blocks[t]).span})
<1>1. PICK l \in Nat \ {0} : l = Len(blocks[t])
  BY LeaveDoes
<1>2. /\ DOMAIN blocks[t] = 1 .. l /\ DOMAIN blocks'[t] = 1 .. l - 1
      /\ Last(blocks[t]) = blocks[t][l]
      /\ \A k \in 1 .. l - 1 : blocks'[t][k] = blocks[t][k]
  BY <1>1, LeaveDoes DEF Last
<1>3. \A k : k \in 1 .. l <=> k \in 1 .. l - 1 \/ k = l
  BY <1>1
<1>4. \A m : m \in Local(t) <=> \E k \in 1 .. l : ~blocks[t][k].remote /\ blocks[t][k].span = m
  BY <1>2 DEF Local
<1>5. \A m : m \in Local(t)' <=>
        \E k \in 1 .. l - 1 : ~blocks'[t][k].remote /\ blocks'[t][k].span = m
  BY <1>2 DEF Local
<1>6. \A k \in 1 .. l - 1 : blocks'[t][k] = blocks[t][k]
  BY <1>2
<1>7. \A m : m \in Local(t) <=>
        \/ \E k \in 1 .. l - 1 : ~blocks[t][k].remote /\ blocks[t][k].span = m
        \/ ~blocks[t][l].remote /\ blocks[t][l].span = m
  BY <1>3, <1>4
<1>8. \A m : m \in Local(t)' <=>
        \E k \in 1 .. l - 1 : ~blocks[t][k].remote /\ blocks[t][k].span = m
  <2> SUFFICES ASSUME NEW m
               PROVE  m \in Local(t)' <=>
                 \E k \in 1 .. l - 1 : ~blocks[t][k].remote /\ blocks[t][k].span = m
    OBVIOUS
  <2>1. m \in Local(t)' <=>
          \E k \in 1 .. l - 1 : ~blocks'[t][k].remote /\ blocks'[t][k].span = m
    BY <1>5
  <2>2. QED
    BY <1>6, <2>1
<1>9. \A m : m \in Local(t) <=>
        m \in Local(t)' \/ (~blocks[t][l].remote /\ m = blocks[t][l].span)
  BY <1>7, <1>8
<1>10. QED
  BY <1>2, <1>9

LEMMA WholeStart == TracingInit => WholeInv
<1> SUFFICES ASSUME TracingInit PROVE WholeInv
  OBVIOUS
<1>1. spans = <<>> /\ DOMAIN spans = {} /\ \A h : Here(h) = {}
  BY DEF TracingInit, Here
<1>2. ParentsPrecede /\ ParentsAreHere /\ ApiBegins /\ HomesApart
  BY <1>1 DEF ParentsPrecede, ParentsAreHere, ApiBegins, HomesApart
<1>3. StoresFit
  BY <1>1 DEF TracingInit, StoresFit
<1>4. ContextsHeld
  BY UnstartedIs DEF TracingInit, ContextsHeld, ThreadHolds, InHand
<1>5. QED
  BY <1>2, <1>3, <1>4 DEF WholeInv

LEMMA ApiIsHome == ASSUME NEW n, n \in Here("api") PROVE "api" \in Homes
BY HomesAre DEF Here

\* A new span of thread t, its number, its parent and where it is.
LEMMA SpanIsNew ==
  ASSUME TracingInv, WholeInv, NEW t \in TracedThreads, NewSpan(t), store' = store
  PROVE  LET n == Len(spans) + 1 IN
         /\ n \in Nat /\ n # 0 /\ n \notin DOMAIN spans /\ DOMAIN spans' = DOMAIN spans \cup {n}
         /\ \A m \in DOMAIN spans : m \in Nat /\ m < n /\ spans'[m] = spans[m]
         /\ spans'[n].parent = inScope[t]
         /\ spans'[n].trace = IF inScope[t] = 0 THEN n ELSE spans[inScope[t]].trace
         /\ Enter(t, n, FALSE)
         /\ \A h : Here(h)' = Here(h) \cup (IF h = Home(t) THEN {n} ELSE {})
<1> DEFINE row == [trace |-> IF inScope[t] = 0 THEN Len(spans) + 1
                             ELSE spans[inScope[t]].trace,
                   parent |-> inScope[t], request |-> serving[t]]
<1>0. TracingTypes /\ Carries(inScope[t], serving[t])
  BY DEF TracingInv, ThreadsFit, ThreadFits
<1>1. PICK n : n = Len(spans) + 1
  OBVIOUS
<1>2. spans' = Append(spans, row) /\ Enter(t, n, FALSE)
  BY <1>1 DEF NewSpan
<1>3. /\ spans \in Seq(SpanRow) /\ Len(spans) \in Nat /\ DOMAIN spans = 1 .. Len(spans)
      /\ \A m \in DOMAIN spans : spans[m].trace \in Nat
      /\ inScope[t] \in Nat /\ serving[t] \in Nat
  BY <1>0, SpansOf, BlocksOf DEF TracingTypes
<1>4. row \in SpanRow /\ row.parent = inScope[t]
      /\ row.trace = IF inScope[t] = 0 THEN n ELSE spans[inScope[t]].trace
  BY <1>0, <1>1, <1>3 DEF SpanRow, Carries
<1> HIDE DEF row
<1>5. /\ spans' \in Seq(SpanRow) /\ Len(spans') = n /\ spans'[n] = row
      /\ \A m \in 1 .. Len(spans) : spans'[m] = spans[m]
  BY <1>1, <1>2, <1>3, <1>4, AppendProperties
<1>6. DOMAIN spans' = 1 .. n
  BY <1>5, LenProperties
<1>7. /\ n \in Nat /\ n # 0 /\ n \notin DOMAIN spans /\ DOMAIN spans' = DOMAIN spans \cup {n}
      /\ \A m \in DOMAIN spans : m \in Nat /\ m < n /\ spans'[m] = spans[m]
  BY <1>1, <1>3, <1>5, <1>6
<1>8. Local(t)' = Local(t) \cup {n}
  BY <1>0, <1>2, <1>7, LocalEntered
<1>9. Owned(t)' = Owned(t) \cup {n}
  BY <1>8 DEF Owned
<1>10. \A x \in TracedThreads \ {t} : blocks'[x] = blocks[x]
  BY <1>0, <1>2, <1>7, EnterDoes
<1>11. StoresFit
  BY DEF WholeInv
<1>12. \A h : Here(h)' = Here(h) \cup (IF h = Home(t) THEN {n} ELSE {})
  BY <1>7, <1>9, <1>10, <1>11, HereFollows
<1>13. QED
  BY <1>1, <1>2, <1>4, <1>5, <1>7, <1>12

LEMMA NewSpanWhole ==
  ASSUME TracingInv, WholeInv, NEW t \in TracedThreads, NewSpan(t), store' = store,
         task' = task, \A w \in submitted' : w.context \in {0} \cup Here("api")
  PROVE  WholeInv'
<1>1. PICK n \in Nat :
         /\ n # 0 /\ n \notin DOMAIN spans /\ DOMAIN spans' = DOMAIN spans \cup {n}
         /\ \A m \in DOMAIN spans : m \in Nat /\ m < n /\ spans'[m] = spans[m]
         /\ spans'[n].parent = inScope[t]
         /\ spans'[n].trace = IF inScope[t] = 0 THEN n ELSE spans[inScope[t]].trace
         /\ Enter(t, n, FALSE)
         /\ \A h : Here(h)' = Here(h) \cup (IF h = Home(t) THEN {n} ELSE {})
  BY SpanIsNew
<1>2. TracingTypes /\ ThreadHolds(t)
  BY DEF TracingInv, WholeInv, ContextsHeld
<1>3. PICK p \in Nat : p = inScope[t]
  BY <1>2, BlocksOf
<1>4. \A h : Here(h) \subseteq DOMAIN spans
  BY DEF Here
<1>5. p \in {0} \cup Here("api") \cup Here(Home(t))
  BY <1>2, <1>3 DEF ThreadHolds, InHand
<1>6. p # 0 => p \in DOMAIN spans
  BY <1>4, <1>5
<1>7. \A m \in DOMAIN spans : spans[m].trace \in DOMAIN spans
  BY DEF TracingInv, TracesOfOne, TraceOfOne
<1>8. ParentsPrecede'
  <2> SUFFICES ASSUME NEW m \in DOMAIN spans'
               PROVE  IF spans'[m].parent = 0 THEN spans'[m].trace = m
                      ELSE /\ spans'[m].parent \in DOMAIN spans' /\ spans'[m].parent < m
                           /\ spans'[spans'[m].parent].trace = spans'[m].trace
    BY DEF ParentsPrecede
  <2>1. CASE m # n
    BY <1>1, <2>1 DEF WholeInv, ParentsPrecede
  <2>2. CASE m = n
    BY <1>1, <1>3, <1>6, <2>2
  <2>3. QED
    BY <2>1, <2>2
<1>9. StoresFit'
  <2>1. store' \in [Homes -> SUBSET DOMAIN spans']
    BY <1>1 DEF WholeInv, StoresFit
  <2>2. ASSUME NEW x \in TracedThreads, NEW k \in DOMAIN blocks'[x]
        PROVE  blocks'[x][k].span \in DOMAIN spans'
    <3>1. PICK l \in Nat : l = Len(blocks[t])
      BY <1>2, BlocksOf
    <3>2. /\ DOMAIN blocks[t] = 1 .. l /\ DOMAIN blocks'[t] = 1 .. l + 1
          /\ blocks'[t][l + 1].span = n
          /\ \A j \in 1 .. l : blocks'[t][j] = blocks[t][j]
          /\ \A y \in TracedThreads \ {t} : blocks'[y] = blocks[y]
      BY <1>1, <1>2, <3>1, BlocksOf, EnterDoes
    <3>3. \A y \in TracedThreads : \A j \in DOMAIN blocks[y] : blocks[y][j].span \in DOMAIN spans'
      BY <1>1 DEF WholeInv, StoresFit
    <3>4. CASE x # t
      BY <2>2, <3>2, <3>3, <3>4
    <3>5. CASE x = t /\ k = l + 1
      BY <1>1, <3>2, <3>5
    <3>6. CASE x = t /\ k # l + 1
      <4>1. k \in 1 .. l
        BY <2>2, <3>1, <3>2, <3>6
      <4>2. QED
        BY <3>2, <3>3, <3>6, <4>1
    <3>7. QED
      BY <3>4, <3>5, <3>6
  <2>3. QED
    BY <2>1, <2>2 DEF StoresFit
<1>10. p # 0 /\ p \notin Here(Home(t)) => spans[p].trace \notin Here(Home(t))
  <2> SUFFICES ASSUME p # 0, p \notin Here(Home(t)), spans[p].trace \in Here(Home(t))
               PROVE  FALSE
    OBVIOUS
  <2>1. p \in Here("api") /\ Home(t) # "api"
    BY <1>5
  <2>2. spans[p].trace \in Here("api")
    BY <2>1 DEF WholeInv, ApiBegins
  <2>3. "api" \in Homes /\ Home(t) \in Homes
    BY <2>1, ApiIsHome, HomesAre
  <2>4. QED
    BY <2>1, <2>2, <2>3 DEF WholeInv, HomesApart
<1>11. ParentsAreHere'
  <2> SUFFICES ASSUME NEW h \in Homes, NEW m \in Here(h)',
                      spans'[m].parent # 0, spans'[m].trace \in Here(h)'
               PROVE  spans'[m].parent \in Here(h)'
    BY DEF ParentsAreHere
  <2>1. CASE m # n
    <3>1. m \in Here(h) /\ m \in DOMAIN spans /\ spans'[m] = spans[m]
      BY <1>1, <1>4, <2>1
    <3>2. spans[m].trace \in Here(h)
      BY <1>1, <1>7, <3>1
    <3>3. spans[m].parent \in Here(h)
      BY <3>1, <3>2 DEF WholeInv, ParentsAreHere
    <3>4. QED
      BY <1>1, <3>1, <3>3
  <2>2. CASE m = n
    <3>1. h = Home(t)
      BY <1>1, <1>4, <2>2
    <3>2. p # 0 /\ spans'[m].parent = p /\ spans'[m].trace = spans[p].trace
      BY <1>1, <1>3, <2>2
    <3>3. spans[p].trace \in Here(h)
      BY <1>1, <1>6, <1>7, <3>2
    <3>4. p \in Here(h)
      BY <1>10, <3>1, <3>2, <3>3
    <3>5. QED
      BY <1>1, <3>2, <3>4
  <2>3. QED
    BY <2>1, <2>2
<1>12. ApiBegins'
  <2> SUFFICES ASSUME NEW m \in Here("api")' PROVE spans'[m].trace \in Here("api")'
    BY DEF ApiBegins
  <2>1. CASE m # n
    <3>1. m \in Here("api") /\ m \in DOMAIN spans /\ spans'[m] = spans[m]
      BY <1>1, <1>4, <2>1
    <3>2. spans[m].trace \in Here("api")
      BY <3>1 DEF WholeInv, ApiBegins
    <3>3. QED
      BY <1>1, <3>1, <3>2
  <2>2. CASE m = n /\ p = 0
    BY <1>1, <1>3, <2>2
  <2>3. CASE m = n /\ p # 0
    <3>1. Home(t) = "api"
      BY <1>1, <1>4, <2>3
    <3>2. p \in Here("api")
      BY <1>5, <2>3, <3>1
    <3>3. spans[p].trace \in Here("api") /\ spans'[n].trace = spans[p].trace
      BY <1>1, <1>3, <2>3, <3>2 DEF WholeInv, ApiBegins
    <3>4. QED
      BY <1>1, <2>3, <3>3
  <2>4. QED
    BY <2>1, <2>2, <2>3
<1>13. HomesApart'
  BY <1>1, <1>4 DEF WholeInv, HomesApart
<1>14. \A h : Here(h) \subseteq Here(h)'
  BY <1>1
<1>15. ThreadHolds(t)'
  <2>1. PICK l \in Nat : l = Len(blocks[t])
    BY <1>2, BlocksOf
  <2>2. /\ DOMAIN blocks[t] = 1 .. l /\ DOMAIN blocks'[t] = 1 .. l + 1
        /\ blocks'[t][l + 1].span = n /\ blocks'[t][l + 1].token = p
        /\ \A k \in 1 .. l : blocks'[t][k] = blocks[t][k]
        /\ inScope'[t] = n
    BY <1>1, <1>2, <1>3, <2>1, BlocksOf, EnterDoes
  <2>3. \A m : InHand(m, t) => InHandNext(m, t)
    BY <1>14 DEF InHand, InHandNext
  <2>4. InHandNext(n, t) /\ InHandNext(p, t)
    BY <1>1, <1>2, <1>3, <2>3 DEF InHandNext, ThreadHolds
  <2>5. ASSUME NEW k \in DOMAIN blocks'[t]
        PROVE  InHandNext(blocks'[t][k].token, t) /\ InHandNext(blocks'[t][k].span, t)
    <3>1. CASE k = l + 1
      BY <2>2, <2>4, <3>1
    <3>2. CASE k # l + 1
      <4>1. k \in 1 .. l
        BY <2>1, <2>2, <2>5, <3>2
      <4>2. QED
        BY <1>2, <2>2, <2>3, <4>1 DEF ThreadHolds
    <3>3. QED
      BY <3>1, <3>2
  <2>6. task'[t].context \in {0} \cup Here("api")'
    BY <1>2, <1>14 DEF ThreadHolds
  <2>7. QED
    BY <2>2, <2>4, <2>5, <2>6 DEF ThreadHolds, InHand, InHandNext
<1>16. ASSUME NEW x \in TracedThreads, x # t PROVE ThreadHolds(x)'
  <2>1. inScope'[x] = inScope[x] /\ blocks'[x] = blocks[x]
    BY <1>1, <1>2, <1>16, EnterDoes
  <2>2. ThreadHolds(x)
    BY DEF WholeInv, ContextsHeld
  <2>3. QED
    BY <1>14, <2>1, <2>2, HoldsOn
<1>17. ContextsHeld'
  BY <1>14, <1>15, <1>16 DEF ContextsHeld
<1>18. QED
  BY <1>8, <1>9, <1>11, <1>12, <1>13, <1>17 DEF WholeInv

LEMMA ServedWhole ==
  ASSUME TracingInv, WholeInv, NEW t \in TracedThreads,
         UNCHANGED <<spans, inScope, blocks, store>>,
         \A x \in TracedThreads \ {t} : task'[x] = task[x],
         task'[t].context \in {0} \cup Here("api"),
         \A w \in submitted' : w.context \in {0} \cup Here("api")
  PROVE  WholeInv'
<1>1. \A h : Here(h)' = Here(h)
  BY DEF Here, Local
<1>2. ParentsPrecede' /\ ParentsAreHere' /\ ApiBegins' /\ HomesApart'
  BY <1>1, HereStands
<1>3. StoresFit'
  BY DEF WholeInv, StoresFit
<1>4. ContextsHeld'
  BY <1>1 DEF WholeInv, ContextsHeld, ThreadHolds, InHand
<1>5. QED
  BY <1>2, <1>3, <1>4 DEF WholeInv

LEMMA LeaveWhole ==
  ASSUME TracingInv, WholeInv, NEW t \in TracedThreads, Leaves(t),
         UNCHANGED <<spans, task, submitted>>,
         store' = [store EXCEPT ![Home(t)] = @ \cup
                     (IF Last(blocks[t]).remote THEN {} ELSE {Last(blocks[t]).span})]
  PROVE  WholeInv'
<1>1. TracingTypes /\ StoresFit /\ ThreadHolds(t)
  BY DEF TracingInv, WholeInv, ContextsHeld
<1>2. PICK l \in Nat \ {0} : l = Len(blocks[t])
  BY <1>1, LeaveDoes
<1>3. PICK D : D = IF Last(blocks[t]).remote THEN {} ELSE {Last(blocks[t]).span}
  OBVIOUS
<1>4. /\ DOMAIN blocks[t] = 1 .. l /\ DOMAIN blocks'[t] = 1 .. l - 1
      /\ inScope'[t] = blocks[t][l].token
      /\ \A k \in 1 .. l - 1 : blocks'[t][k] = blocks[t][k]
      /\ \A x \in TracedThreads \ {t} : inScope'[x] = inScope[x] /\ blocks'[x] = blocks[x]
  BY <1>1, <1>2, LeaveDoes
<1>5. l \in DOMAIN blocks[t] /\ Last(blocks[t]) = blocks[t][l] /\ 1 .. l - 1 \subseteq 1 .. l
  BY <1>2, <1>4 DEF Last
<1>6. D \subseteq DOMAIN spans
  BY <1>1, <1>3, <1>5 DEF StoresFit
<1>7. Home(t) \in Homes
  BY HomesAre
<1>8. /\ store' \in [Homes -> SUBSET DOMAIN spans]
      /\ store'[Home(t)] = store[Home(t)] \cup D
      /\ \A g \in Homes \ {Home(t)} : store'[g] = store[g]
  BY <1>1, <1>3, <1>6, <1>7 DEF StoresFit
<1>9. Local(t) = Local(t)' \cup D
  BY <1>1, <1>3, LocalLeft
<1>10. Owned(t)' = Owned(t) \cup {}
  BY <1>8, <1>9 DEF Owned
<1>11. \A h : Here(h)' = Here(h) \cup (IF h = Home(t) THEN {} ELSE {})
  <2>1. DOMAIN spans' = DOMAIN spans \cup {}
    OBVIOUS
  <2>2. QED
    BY <1>1, <1>4, <1>8, <1>10, <2>1, HereFollows
<1>12. \A h : Here(h)' = Here(h)
  BY <1>11
<1>13. ParentsPrecede' /\ ParentsAreHere' /\ ApiBegins' /\ HomesApart'
  BY <1>12, HereStands
<1>14. StoresFit'
  <2>1. \A x \in TracedThreads : \A k \in DOMAIN blocks'[x] : blocks'[x][k].span \in DOMAIN spans
    <3> SUFFICES ASSUME NEW x \in TracedThreads, NEW k \in DOMAIN blocks'[x]
                 PROVE  blocks'[x][k].span \in DOMAIN spans
      OBVIOUS
    <3>1. CASE x = t
      BY <1>1, <1>4, <1>5, <3>1 DEF StoresFit
    <3>2. CASE x # t
      BY <1>1, <1>4, <3>2 DEF StoresFit
    <3>3. QED
      BY <3>1, <3>2
  <2>2. QED
    BY <1>8, <2>1 DEF StoresFit
<1>15. \A n, x : InHand(n, x) => InHandNext(n, x)
  BY <1>12 DEF InHand, InHandNext
<1>16. ThreadHolds(t)'
  <2>1. InHandNext(inScope'[t], t)
    BY <1>1, <1>4, <1>5, <1>15 DEF ThreadHolds
  <2>2. \A k \in 1 .. l - 1 : InHandNext(blocks'[t][k].token, t) /\ InHandNext(blocks'[t][k].span, t)
    BY <1>1, <1>4, <1>5, <1>15 DEF ThreadHolds
  <2>3. task'[t].context \in {0} \cup Here("api")'
    BY <1>1, <1>12 DEF ThreadHolds
  <2>4. QED
    BY <1>4, <2>1, <2>2, <2>3 DEF ThreadHolds, InHand, InHandNext
<1>17. ASSUME NEW x \in TracedThreads, x # t PROVE ThreadHolds(x)'
  BY <1>4, <1>12, <1>17, HoldsOn DEF WholeInv, ContextsHeld
<1>18. ContextsHeld'
  BY <1>12, <1>16, <1>17 DEF WholeInv, ContextsHeld
<1>19. QED
  BY <1>13, <1>14, <1>18 DEF WholeInv

LEMMA CloseSpanWhole ==
  ASSUME TracingInv, WholeInv, NEW t \in TracedThreads, CloseSpan(t) PROVE WholeInv'
<1>1. ~Last(blocks[t]).remote /\ store' = [store EXCEPT ![Home(t)] = @ \cup {Last(blocks[t]).span}]
  BY DEF CloseSpan, Record
<1>2. Leaves(t) /\ UNCHANGED <<spans, task, submitted>>
  BY DEF CloseSpan, Leaves
<1>3. QED
  BY <1>1, <1>2, LeaveWhole

LEMMA EndResumeWhole ==
  ASSUME TracingInv, WholeInv, NEW t \in TracedThreads, EndResume(t) PROVE WholeInv'
<1>1. Last(blocks[t]).remote /\ store' = store
  BY DEF EndResume
<1>2. Leaves(t) /\ UNCHANGED <<spans, task, submitted>>
  BY DEF EndResume, Leaves
<1>3. store' = [store EXCEPT ![Home(t)] = @ \cup {}]
  BY <1>1 DEF WholeInv, StoresFit
<1>4. QED
  BY <1>1, <1>2, <1>3, LeaveWhole

\* What is submitted has a context of the API's process.
LEMMA SubmitHeld ==
  ASSUME TracingInv, WholeInv, NEW t \in ApiThreads, Submit(t)
  PROVE  /\ \A w \in submitted' : w.context \in {0} \cup Here("api")
         /\ store' = store /\ task' = task /\ t \in TracedThreads
<1>1. Home(t) = "api" /\ t \in TracedThreads
  BY HomesAre
<1>2. inScope[t] \in {0} \cup Here("api")
  BY <1>1 DEF WholeInv, ContextsHeld, ThreadHolds, InHand
<1>3. \A w \in submitted' : w \in submitted \/ w.context = inScope[t]
  BY DEF Submit
<1>4. QED
  BY <1>1, <1>2, <1>3 DEF Submit, WholeInv, ContextsHeld

LEMMA RunTaskWhole ==
  ASSUME TracingInv, WholeInv, NEW t \in TracedThreads, NEW w \in submitted, RunTask(t, w)
  PROVE  WholeInv'
<1>1. /\ submitted' = submitted \ {w} /\ task' = [task EXCEPT ![t] = w]
      /\ UNCHANGED <<spans, store>>
  BY DEF RunTask
<1>2. TracingTypes /\ StoresFit /\ ThreadHolds(t) /\ w \in TaskRow
  BY DEF TracingInv, WholeInv, ContextsHeld, TracingTypes
<1>3. w.context \in Nat /\ w.context \in {0} \cup Here("api")
  BY <1>2 DEF TaskRow, WholeInv, ContextsHeld
<1>4. task'[t] = w /\ \A x \in TracedThreads \ {t} : task'[x] = task[x]
  BY <1>1, <1>2 DEF TracingTypes
<1>5. \A v \in submitted' : v.context \in {0} \cup Here("api")
  BY <1>1 DEF WholeInv, ContextsHeld
<1>6. CASE w.context = 0
  <2>1. UNCHANGED <<spans, inScope, blocks, store>>
    BY <1>1, <1>6 DEF RunTask
  <2>2. QED
    BY <1>3, <1>4, <1>5, <2>1, ServedWhole
<1>7. CASE w.context # 0
  <2>1. PICK n \in Nat : n = w.context
    BY <1>3
  <2>2. Enter(t, n, TRUE) /\ TRUE \in BOOLEAN
    BY <1>7, <2>1 DEF RunTask
  <2>3. PICK l \in Nat : l = Len(blocks[t])
    BY <1>2, BlocksOf
  <2>4. /\ DOMAIN blocks[t] = 1 .. l /\ DOMAIN blocks'[t] = 1 .. l + 1
        /\ blocks'[t][l + 1].span = n /\ blocks'[t][l + 1].token = inScope[t]
        /\ inScope'[t] = n
        /\ \A k \in 1 .. l : blocks'[t][k] = blocks[t][k]
        /\ \A x \in TracedThreads \ {t} : inScope'[x] = inScope[x] /\ blocks'[x] = blocks[x]
    BY <1>2, <2>2, <2>3, BlocksOf, EnterDoes
  <2>5. \A k : k \in 1 .. l + 1 <=> k \in 1 .. l \/ k = l + 1
    BY <2>3
  <2>6. Local(t)' = Local(t)
    <3>1. Local(t)' = Local(t) \cup (IF TRUE THEN {} ELSE {n})
      BY <1>2, <2>2, LocalEntered
    <3>2. QED
      BY <3>1
  <2>7. Owned(t)' = Owned(t) \cup {}
    BY <1>1, <2>6 DEF Owned
  <2>8. \A h : Here(h)' = Here(h) \cup (IF h = Home(t) THEN {} ELSE {})
    <3>1. DOMAIN spans' = DOMAIN spans \cup {}
      BY <1>1
    <3>2. QED
      BY <1>1, <1>2, <2>4, <2>7, <3>1, HereFollows
  <2>9. \A h : Here(h)' = Here(h)
    BY <2>8
  <2>10. ParentsPrecede' /\ ParentsAreHere' /\ ApiBegins' /\ HomesApart'
    BY <1>1, <2>9, HereStands
  <2>11. n \in Here("api") /\ n \in DOMAIN spans
    BY <1>3, <1>7, <2>1 DEF Here
  <2>12. StoresFit'
    <3>1. ASSUME NEW x \in TracedThreads, NEW k \in DOMAIN blocks'[x]
          PROVE  blocks'[x][k].span \in DOMAIN spans
      <4>1. CASE x = t
        BY <1>2, <2>4, <2>5, <2>11, <3>1, <4>1 DEF StoresFit
      <4>2. CASE x # t
        BY <1>2, <2>4, <3>1, <4>2 DEF StoresFit
      <4>3. QED
        BY <4>1, <4>2
    <3>2. QED
      BY <1>1, <1>2, <3>1 DEF StoresFit
  <2>13. \A m, x : InHand(m, x) => InHandNext(m, x)
    BY <2>9 DEF InHand, InHandNext
  <2>14. ThreadHolds(t)'
    <3>1. InHandNext(n, t) /\ InHandNext(inScope[t], t)
      BY <1>2, <2>11, <2>13 DEF InHand, ThreadHolds
    <3>2. \A k \in 1 .. l + 1 : InHandNext(blocks'[t][k].token, t) /\ InHandNext(blocks'[t][k].span, t)
      BY <1>2, <2>4, <2>5, <2>13, <3>1 DEF ThreadHolds
    <3>3. task'[t].context \in {0} \cup Here("api")'
      BY <1>3, <1>4, <2>9
    <3>4. QED
      BY <2>4, <3>1, <3>2, <3>3 DEF ThreadHolds, InHand, InHandNext
  <2>15. ASSUME NEW x \in TracedThreads, x # t PROVE ThreadHolds(x)'
    BY <1>4, <2>4, <2>9, <2>15, HoldsOn DEF WholeInv, ContextsHeld
  <2>16. ContextsHeld'
    BY <1>5, <2>9, <2>14, <2>15 DEF ContextsHeld
  <2>17. QED
    BY <2>10, <2>12, <2>16 DEF WholeInv
<1>8. QED
  BY <1>6, <1>7

\* A worker takes what its process has with it, and nothing else.
LEMMA WorkerLostWhole ==
  ASSUME TracingInv, WholeInv, NEW t \in BrokerThreads, WorkerLost(t) PROVE WholeInv'
<1>1. /\ submitted' \subseteq submitted \cup {task[t]}
      /\ task' = [task EXCEPT ![t] = Unstarted]
      /\ inScope' = [inScope EXCEPT ![t] = 0] /\ blocks' = [blocks EXCEPT ![t] = <<>>]
      /\ store' = [store EXCEPT ![Home(t)] = {}] /\ spans' = spans
  BY DEF WorkerLost
<1>2. TracingTypes /\ StoresFit /\ ThreadHolds(t) /\ t \in TracedThreads
  BY HomesAre DEF TracingInv, WholeInv, ContextsHeld
<1>3. Home(t) = t /\ t # "api" /\ t \in Homes /\ \A x \in TracedThreads : Home(x) = t => x = t
  BY <1>2, HomesAre
<1>4. /\ task'[t] = Unstarted /\ inScope'[t] = 0 /\ blocks'[t] = <<>> /\ DOMAIN blocks'[t] = {}
      /\ \A x \in TracedThreads \ {t} :
           task'[x] = task[x] /\ inScope'[x] = inScope[x] /\ blocks'[x] = blocks[x]
  BY <1>1, <1>2 DEF TracingTypes
<1>5. /\ store' \in [Homes -> SUBSET DOMAIN spans] /\ store'[t] = {}
      /\ \A g \in Homes \ {t} : store'[g] = store[g]
  BY <1>1, <1>2, <1>3 DEF StoresFit
<1>6. Local(t)' = {} /\ \A x \in TracedThreads \ {t} : Local(x)' = Local(x)
  BY <1>4 DEF Local
<1>7. Here(t)' = {} /\ \A h : h # t => Here(h)' = Here(h)
  <2>1. Here(t)' = {}
    BY <1>3, <1>5, <1>6 DEF Here
  <2>2. ASSUME NEW h, h # t PROVE Here(h)' = Here(h)
    BY <1>1, <1>3, <1>5, <1>6, <2>2 DEF Here
  <2>3. QED
    BY <2>1, <2>2
<1>8. ParentsPrecede' /\ ParentsAreHere' /\ ApiBegins' /\ HomesApart'
  <2>1. ParentsPrecede'
    BY <1>1 DEF WholeInv, ParentsPrecede
  <2>2. ParentsAreHere'
    BY <1>1, <1>7 DEF WholeInv, ParentsAreHere
  <2>3. ApiBegins'
    BY <1>1, <1>3, <1>7 DEF WholeInv, ApiBegins
  <2>4. HomesApart'
    BY <1>7 DEF WholeInv, HomesApart
  <2>5. QED
    BY <2>1, <2>2, <2>3, <2>4
<1>9. StoresFit'
  <2>1. ASSUME NEW x \in TracedThreads, NEW k \in DOMAIN blocks'[x]
        PROVE  blocks'[x][k].span \in DOMAIN spans
    BY <1>2, <1>4, <2>1 DEF StoresFit
  <2>2. QED
    BY <1>1, <1>5, <2>1 DEF StoresFit
<1>10. Here("api")' = Here("api")
  BY <1>3, <1>7
<1>11. ThreadHolds(t)'
  BY <1>4, UnstartedIs DEF ThreadHolds, InHand
<1>12. ASSUME NEW x \in TracedThreads, x # t PROVE ThreadHolds(x)'
  <2>1. Home(x) # t
    BY <1>3, <1>12
  <2>2. Here(Home(x))' = Here(Home(x))
    BY <1>7, <2>1
  <2>3. QED
    BY <1>4, <1>10, <1>12, <2>2, HoldsOn DEF WholeInv, ContextsHeld
<1>13. \A w \in submitted' : w.context \in {0} \cup Here("api")'
  BY <1>1, <1>2, <1>10 DEF WholeInv, ContextsHeld, ThreadHolds
<1>14. QED
  BY <1>8, <1>9, <1>11, <1>12, <1>13 DEF WholeInv, ContextsHeld

LEMMA WholeStep ==
  ASSUME TracingInv, WholeInv, [TracingNext]_tracingVars
  PROVE  WholeInv'
<1>1. ASSUME NEW t \in ApiThreads, BeginRequest(t) PROVE WholeInv'
  <2>1. t \in TracedThreads /\ UNCHANGED <<spans, inScope, blocks, store, task, submitted>>
    BY <1>1, HomesAre DEF BeginRequest
  <2>2. QED
    BY <2>1, ServedWhole DEF WholeInv, ContextsHeld, ThreadHolds
<1>2. ASSUME NEW t \in ApiThreads, EnqueueInProcess(t) PROVE WholeInv'
  BY <1>2, SubmitHeld, NewSpanWhole DEF EnqueueInProcess
<1>3. ASSUME NEW t \in ApiThreads, EnqueueCelery(t) PROVE WholeInv'
  <2>1. UNCHANGED <<spans, inScope, blocks>> /\ Submit(t)
    BY <1>3 DEF EnqueueCelery
  <2>2. /\ \A w \in submitted' : w.context \in {0} \cup Here("api")
        /\ store' = store /\ task' = task /\ t \in TracedThreads
    BY <2>1, SubmitHeld
  <2>3. QED
    BY <2>1, <2>2, ServedWhole DEF WholeInv, ContextsHeld, ThreadHolds
<1>4. ASSUME NEW t \in TracedThreads, OpenSpan(t) PROVE WholeInv'
  BY <1>4, NewSpanWhole DEF OpenSpan, WholeInv, ContextsHeld
<1>5. ASSUME NEW t \in TracedThreads, EndWork(t) PROVE WholeInv'
  <2>1. UNCHANGED <<spans, inScope, blocks, store, submitted>> /\ task' = [task EXCEPT ![t] = Unstarted]
    BY <1>5 DEF EndWork
  <2>2. task'[t].context = 0 /\ \A x \in TracedThreads \ {t} : task'[x] = task[x]
    BY <2>1, UnstartedIs DEF TracingInv, TracingTypes
  <2>3. QED
    BY <2>1, <2>2, ServedWhole DEF WholeInv, ContextsHeld
<1>6. ASSUME NEW t \in PoolThreads \cup BrokerThreads, NEW w \in submitted, RunTask(t, w)
      PROVE  WholeInv'
  BY <1>6, HomesAre, RunTaskWhole
<1>7. ASSUME UNCHANGED <<spans, inScope, blocks, store, task>>, submitted' \subseteq submitted
      PROVE  WholeInv'
  <2>1. \A h : Here(h)' = Here(h)
    BY <1>7 DEF Here, Local
  <2>2. ParentsPrecede' /\ ParentsAreHere' /\ ApiBegins' /\ HomesApart'
    BY <1>7, <2>1, HereStands
  <2>3. StoresFit' /\ ContextsHeld'
    BY <1>7, <2>1 DEF WholeInv, StoresFit, ContextsHeld, ThreadHolds, InHand
  <2>4. QED
    BY <2>2, <2>3 DEF WholeInv
<1>8. CASE \E w \in submitted : CancelTask(w)
  BY <1>7, <1>8 DEF CancelTask
<1>9. CASE UNCHANGED tracingVars
  BY <1>7, <1>9 DEF tracingVars
<1>10. QED
  BY <1>1, <1>2, <1>3, <1>4, <1>5, <1>6, <1>8, <1>9, CloseSpanWhole, EndResumeWhole,
     WorkerLostWhole
  DEF TracingNext

\* Where a trace was started and all its spans have ended, each is drawn: of those
\* that are not, the first would have a parent that is drawn.
LEMMA AllAreDrawn ==
  ASSUME TracingInv, WholeInv, NEW h \in Homes, NEW root \in store[h],
         spans[root].parent = 0, \A n \in Open(h) : spans[n].trace # spans[root].trace
  PROVE  Drawn(OfTrace(h, spans[root].trace)) = OfTrace(h, spans[root].trace)
<1> DEFINE S == OfTrace(h, spans[root].trace)
<1>1. store[h] \subseteq DOMAIN spans /\ DOMAIN spans \subseteq Nat
  BY SpansOf DEF WholeInv, StoresFit, TracingInv
<1>2. spans[root].trace = root /\ store[h] \subseteq Here(h)
  BY <1>1 DEF WholeInv, ParentsPrecede, Here
<1>3. \A n \in S : n \in store[h] /\ n \in Nat /\ spans[n].trace = root
  BY <1>1, <1>2 DEF OfTrace
<1>4. ASSUME NEW n \in Here(h), spans[n].trace = root PROVE n \in S
  <2>1. ~\E t \in TracedThreads : Home(t) = h /\ n \in Local(t)
    BY <1>2, <1>4 DEF Local, Open
  <2>2. n \in store[h]
    BY <1>4, <2>1 DEF Here
  <2>3. QED
    BY <1>2, <1>4, <2>2 DEF OfTrace
<1>5. ASSUME NEW n \in S, spans[n].parent # 0
      PROVE  spans[n].parent \in S /\ spans[n].parent < n
  <2>1. n \in Here(h) /\ n \in DOMAIN spans /\ spans[n].trace \in Here(h)
    BY <1>1, <1>2, <1>3
  <2>2. /\ spans[n].parent \in Here(h) /\ spans[n].parent < n
        /\ spans[spans[n].parent].trace = root
    BY <1>3, <1>5, <2>1 DEF WholeInv, ParentsAreHere, ParentsPrecede
  <2>3. QED
    BY <1>4, <2>2
<1>6. root \in S
  BY <1>2, <1>4
<1>7. \A n \in S : spans[n].parent = 0 => n \in Roots(S)
  BY DEF Roots
<1> HIDE DEF S
<1>8. ASSUME NEW T \in SUBSET S, Roots(S) \subseteq T,
             \A k \in S : spans[k].parent \in T => k \in T
      PROVE  S \subseteq T
  <2> SUFFICES ASSUME S \ T # {} PROVE FALSE
    OBVIOUS
  <2>1. S \ T \in SUBSET Nat
    BY <1>3
  <2>2. PICK n \in S \ T : \A x \in S \ T : n <= x
    BY <2>1, LeastNatural
  <2>3. spans[n].parent # 0
    BY <1>7, <1>8
  <2>4. spans[n].parent \in S /\ spans[n].parent < n
    BY <1>5, <2>3
  <2>5. spans[n].parent \in Nat /\ n \in Nat
    BY <1>3, <2>4
  <2>6. spans[n].parent \in T
    BY <2>2, <2>4, <2>5
  <2>7. QED
    BY <1>8, <2>6
<1>9. Drawn(S) = S
  BY <1>8 DEF Drawn
<1>10. QED
  BY <1>9 DEF S

\* Whatever threads are reused, tasks cancelled and worker processes lost, a trace
\* holds the spans of one request, and where it was started every span of it that
\* was recorded hangs below its root.
THEOREM TracesStayWhole == TracingSpec => []TracesAreWhole
<1>1. TracingInv /\ WholeInv => ShownWhole
  BY AllAreDrawn DEF ShownWhole
<1>2. TracingInv /\ WholeInv /\ [TracingNext]_tracingVars => WholeInv'
  BY WholeStep
<1>3. TracingSpec => []TracingInv
  BY TracingStart, TracingStep, PTL DEF TracingSpec
<1>4. QED
  BY <1>1, <1>2, <1>3, WholeStart, ContextsStayApart, PTL DEF TracingSpec, TracesAreWhole

-----------------------------------------------------------------------------
(* Admission control                                                       *)

Weights(S) == [e \in S |-> e.weight]

\* A finite set of entries that have a weight.
Entries(S) == IsFiniteSet(S) /\ \A e \in S : e.weight \in Nat

\* The function by which Total adds up.
TotalAdds(f, S) ==
  f = [s \in SUBSET S |-> IF s = {} THEN 0 ELSE AnyOf(s).weight + f[s \ {AnyOf(s)}]]

LEMMA TotalIsSum ==
  ASSUME NEW S, IsFiniteSet(S)
  PROVE  Total(S) = SumOf(Weights(S), S)
<1>1. Total(S) = (CHOOSE f : TotalAdds(f, S))[S]
  BY DEF Total, MapThenSumSet, MapThenFoldSet, TotalAdds, AnyOf
<1>2. ASSUME NEW f
      PROVE  TotalAdds(f, S) <=> Adder(f, S, Weights(S))
  <2>1. \A s \in SUBSET S : s # {} => Weights(S)[AnyOf(s)] = AnyOf(s).weight
    BY AnyIsOne DEF Weights
  <2>2. QED
    BY <2>1 DEF TotalAdds, Adder, Adds
<1>3. \E f : TotalAdds(f, S)
  <2>1. \E f : Adder(f, S, Weights(S))
    BY AddsExist
  <2>2. QED
    BY <1>2, <2>1
<1>4. PICK f : TotalAdds(f, S) /\ Total(S) = f[S]
  BY <1>1, <1>3
<1>5. Adder(f, S, Weights(S)) /\ Alike(Weights(S), Weights(S), S) /\ S \in SUBSET S
  BY <1>2, <1>4 DEF Alike
<1>6. f[S] = SumOf(Weights(S), S)
  BY <1>5, SumFound
<1>7. QED
  BY <1>4, <1>6

\* The total of a window, by the sum of its weights and those of its parts.
LEMMA TotalFacts ==
  ASSUME NEW S, Entries(S)
  PROVE  /\ Total(S) \in Nat
         /\ \A T \in SUBSET S : Entries(T) /\ Total(T) <= Total(S)
         /\ \A e \in S : Total(S) = e.weight + Total(S \ {e})
<1>1. IsFiniteSet(S) /\ Weighed(Weights(S), S)
  BY DEF Entries, Weighed, Weights
<1>2. Total(S) = SumOf(Weights(S), S)
  BY <1>1, TotalIsSum
<1>3. ASSUME NEW T \in SUBSET S
      PROVE  Entries(T) /\ Total(T) = SumOf(Weights(S), T)
  <2>1. IsFiniteSet(T) /\ Entries(T)
    BY FS_Subset DEF Entries
  <2>2. Alike(Weights(T), Weights(S), T)
    BY DEF Alike, Weights
  <2>3. SumOf(Weights(T), T) = SumOf(Weights(S), T)
    BY <2>1, <2>2, SumSame
  <2>4. QED
    BY <2>1, <2>3, TotalIsSum
<1>4. Total(S) \in Nat
  BY <1>1, <1>2, SumIsNatural
<1>5. ASSUME NEW T \in SUBSET S PROVE Total(T) <= Total(S)
  BY <1>1, <1>2, <1>3, SumOfPart
<1>6. ASSUME NEW e \in S PROVE Total(S) = e.weight + Total(S \ {e})
  <2>1. SumOf(Weights(S), S) = Weights(S)[e] + SumOf(Weights(S), S \ {e})
    BY <1>1, SumWithout
  <2>2. Weights(S)[e] = e.weight /\ S \ {e} \in SUBSET S
    BY DEF Weights
  <2>3. QED
    BY <1>2, <1>3, <2>1, <2>2
<1>7. QED
  BY <1>3, <1>4, <1>5, <1>6

\* What the guard holds in its window was admitted by now and has a weight.
EntriesOK ==
  /\ now \in Nat /\ Entries(entries)
  /\ \A e \in entries : e.at \in 0 .. now

\* Whatever pruned the window last, what it holds of the last Ttl ticks is what
\* was granted in them and kept.
WindowIsGranted == granted = Pruned(entries)

GuardInv == EntriesOK /\ WindowIsGranted /\ WindowHolds

LEMMA WeightIsNatural ==
  ASSUME NEW t \in Tasks
  PROVE  Weight(t) \in Nat
<1>1. t.minutes \in Nat /\ t.assets \in Nat
  BY GuardAssumption
<1>2. CASE t.mode = "image"
  <2>1. Weight(t) = (1 + t.minutes) * 10 + t.assets
    BY <1>2 DEF Weight, PerAsset
  <2>2. QED
    BY <1>1, <2>1
<1>3. CASE t.mode # "image"
  <2>1. Weight(t) = (1 + t.minutes) * 6 + t.assets
    BY <1>3 DEF Weight, PerAsset
  <2>2. QED
    BY <1>1, <2>1
<1>4. QED
  BY <1>2, <1>3

LEMMA EmptyWindow ==
  /\ Total({}) = 0 /\ Entries({})
  /\ \A w : OfWorkspace({}, w) = {} /\ Cardinality(OfWorkspace({}, w)) = 0
<1>1. IsFiniteSet({}) /\ Cardinality({}) = 0
  BY FS_EmptySet
<1>2. Total({}) = 0
  BY <1>1, TotalIsSum, SumOfNone
<1>3. QED
  BY <1>1, <1>2 DEF Entries, OfWorkspace

\* The ceilings hold of every part of a window that keeps them.
LEMMA PartsFit ==
  ASSUME WindowHolds, Entries(granted), NEW S \in SUBSET granted
  PROVE  /\ Total(S) <= MaxWeight
         /\ \A w \in Workspaces : Cardinality(OfWorkspace(S, w)) <= MaxQueued
<1>1. Total(S) <= MaxWeight
  <2>1. Entries(S)
    BY FS_Subset DEF Entries
  <2>2. Total(S) <= Total(granted) /\ Total(S) \in Nat /\ Total(granted) \in Nat
    BY <2>1, TotalFacts
  <2>3. MaxWeight \in Nat /\ Total(granted) <= MaxWeight
    BY GuardAssumption DEF WindowHolds
  <2>4. QED
    BY <2>2, <2>3
<1>2. ASSUME NEW w \in Workspaces
      PROVE  Cardinality(OfWorkspace(S, w)) <= MaxQueued
  <2>1. IsFiniteSet(OfWorkspace(granted, w))
    BY FS_Subset DEF Entries, OfWorkspace
  <2>2. OfWorkspace(S, w) \in SUBSET OfWorkspace(granted, w)
    BY DEF OfWorkspace
  <2>3. /\ Cardinality(OfWorkspace(S, w)) <= Cardinality(OfWorkspace(granted, w))
        /\ IsFiniteSet(OfWorkspace(S, w))
    BY <2>1, <2>2, FS_Subset
  <2>4. /\ Cardinality(OfWorkspace(S, w)) \in Nat
        /\ Cardinality(OfWorkspace(granted, w)) \in Nat
    BY <2>1, <2>3, FS_CardinalityType
  <2>5. MaxQueued \in Nat /\ Cardinality(OfWorkspace(granted, w)) <= MaxQueued
    BY GuardAssumption DEF WindowHolds
  <2>6. QED
    BY <2>3, <2>4, <2>5
<1>3. QED
  BY <1>1, <1>2

\* One entry more, when the window has room for its weight and its workspace.
LEMMA OneMoreFits ==
  ASSUME WindowHolds, Entries(granted), NEW e, e.weight \in Nat,
         e.workspace \in Workspaces,
         Cardinality(OfWorkspace(granted, e.workspace)) < MaxQueued,
         Total(granted) + e.weight <= MaxWeight
  PROVE  /\ Entries(granted \cup {e})
         /\ Total(granted \cup {e}) <= MaxWeight
         /\ \A w \in Workspaces :
              Cardinality(OfWorkspace(granted \cup {e}, w)) <= MaxQueued
<1> DEFINE S == granted \cup {e}
<1>1. Entries(S)
  BY FS_AddElement DEF Entries
<1>2. Total(S) <= MaxWeight
  <2>1. CASE e \in granted
    <3>1. S = granted
      BY <2>1
    <3>2. QED
      BY <3>1 DEF WindowHolds
  <2>2. CASE e \notin granted
    <3>1. e \in S /\ S \ {e} = granted
      BY <2>2
    <3> HIDE DEF S
    <3>2. Total(S) = e.weight + Total(granted)
      BY <1>1, <3>1, TotalFacts
    <3>3. Total(granted) \in Nat
      BY TotalFacts
    <3>4. QED
      BY <3>2, <3>3
  <2>3. QED
    BY <2>1, <2>2
<1>3. ASSUME NEW w \in Workspaces
      PROVE  Cardinality(OfWorkspace(S, w)) <= MaxQueued
  <2>1. CASE w # e.workspace
    <3>1. OfWorkspace(S, w) = OfWorkspace(granted, w)
      BY <2>1 DEF OfWorkspace
    <3>2. QED
      BY <3>1 DEF WindowHolds
  <2>2. CASE w = e.workspace
    <3> DEFINE G == OfWorkspace(granted, w)
    <3>1. OfWorkspace(S, w) = G \cup {e}
      BY <2>2 DEF OfWorkspace
    <3>2. IsFiniteSet(G)
      BY FS_Subset DEF Entries, OfWorkspace
    <3>3. Cardinality(G) < MaxQueued
      BY <2>2
    <3> HIDE DEF G
    <3>4. /\ Cardinality(G \cup {e}) = IF e \in G THEN Cardinality(G) ELSE Cardinality(G) + 1
          /\ Cardinality(G) \in Nat
      BY <3>2, FS_AddElement, FS_CardinalityType
    <3>5. MaxQueued \in Nat
      BY GuardAssumption
    <3>6. Cardinality(G \cup {e}) <= MaxQueued
      <4>1. PICK c \in Nat : c = Cardinality(G)
        BY <3>4
      <4>2. c <= MaxQueued /\ c + 1 <= MaxQueued
        BY <3>3, <3>5, <4>1
      <4>3. Cardinality(G \cup {e}) \in {c, c + 1}
        BY <3>4, <4>1
      <4>4. QED
        BY <4>2, <4>3
    <3>7. QED
      BY <3>1, <3>6
  <2>3. QED
    BY <2>1, <2>2
<1>4. QED
  BY <1>1, <1>2, <1>3

LEMMA GuardStart == GuardInit => GuardInv
<1> SUFFICES ASSUME GuardInit PROVE GuardInv
  OBVIOUS
<1>1. EntriesOK
  BY EmptyWindow DEF GuardInit, EntriesOK
<1>2. WindowIsGranted
  BY DEF GuardInit, WindowIsGranted, Pruned
<1>3. WindowHolds
  BY EmptyWindow, GuardAssumption DEF GuardInit, WindowHolds
<1>4. QED
  BY <1>1, <1>2, <1>3 DEF GuardInv

\* What is in the window has not reached the age of the next pruning.
LEMMA WindowAges ==
  ASSUME GuardInv
  PROVE  /\ Ttl \in Nat /\ Entries(granted) /\ granted \in SUBSET entries
         /\ \A e \in granted : e.at \in Nat /\ ~(e.at < now - Ttl)
<1>1. granted = {e \in entries : ~(e.at < now - Ttl)}
  BY DEF GuardInv, WindowIsGranted, Pruned
<1>2. Entries(granted)
  BY <1>1, FS_Subset DEF GuardInv, EntriesOK, Entries
<1>3. \A e \in granted : e.at \in 0 .. now /\ now \in Nat
  BY <1>1 DEF GuardInv, EntriesOK
<1>4. QED
  BY <1>1, <1>2, <1>3, GuardAssumption

LEMMA AdmitKeepsWindow ==
  ASSUME GuardInv, NEW w \in Workspaces, NEW t \in Tasks, Admit(w, t)
  PROVE  GuardInv'
<1> DEFINE r == [nr |-> FreeNumber(entries \cup granted), at |-> now, workspace |-> w,
                 weight |-> Weight(t)]
<1>1. PICK e : /\ e.at = now /\ e.workspace = w /\ e.weight = Weight(t)
               /\ LET new == IF Verdict(w, t) = "ADMITTED" THEN {e} ELSE {}
                  IN  entries' = granted \cup new /\ granted' = granted \cup new
               /\ now' = now
  <2>1. r.at = now /\ r.workspace = w /\ r.weight = Weight(t)
    OBVIOUS
  <2>2. LET new == IF Verdict(w, t) = "ADMITTED" THEN {r} ELSE {}
        IN  entries' = Pruned(entries) \cup new /\ granted' = granted \cup new
    BY DEF Admit
  <2> HIDE DEF r
  <2>3. now' = now /\ Pruned(entries) = granted
    BY DEF Admit, GuardInv, WindowIsGranted
  <2>4. QED
    BY <2>1, <2>2, <2>3
<1>2. now \in Nat /\ Ttl \in Nat /\ e.weight \in Nat
  BY <1>1, WeightIsNatural, GuardAssumption DEF GuardInv, EntriesOK
<1>3. /\ granted \in SUBSET entries /\ Entries(granted)
      /\ \A f \in granted : f.at \in 0 .. now /\ ~(f.at < now - Ttl)
  BY WindowAges DEF GuardInv, EntriesOK
<1>4. entries' = granted' /\ \A f \in granted' : f \in granted \/ f = e
  BY <1>1
<1>5. e.at \in 0 .. now /\ ~(e.at < now - Ttl)
  BY <1>1, <1>2
<1>6. \A f \in granted' : f.at \in 0 .. now' /\ ~(f.at < now' - Ttl)
  BY <1>1, <1>3, <1>4, <1>5
<1>7. WindowIsGranted'
  BY <1>4, <1>6 DEF WindowIsGranted, Pruned
<1>8. Entries(granted') /\ WindowHolds'
  <2>1. CASE Verdict(w, t) # "ADMITTED"
    <3>1. granted' = granted
      BY <1>1, <2>1
    <3>2. QED
      BY <1>3, <3>1 DEF GuardInv, WindowHolds
  <2>2. CASE Verdict(w, t) = "ADMITTED"
    <3>1. granted' = granted \cup {e}
      BY <1>1, <2>2
    <3>2. /\ ~(Cardinality(OfWorkspace(granted, w)) >= MaxQueued)
          /\ ~(Total(granted) + Weight(t) > MaxWeight)
      BY <2>2 DEF Verdict, GuardInv, WindowIsGranted
    <3>3. Cardinality(OfWorkspace(granted, w)) \in Nat
      <4>1. IsFiniteSet(OfWorkspace(granted, w))
        BY <1>3, FS_Subset DEF Entries, OfWorkspace
      <4>2. QED
        BY <4>1, FS_CardinalityType
    <3>4. Total(granted) \in Nat
      BY <1>3, TotalFacts
    <3>5. MaxQueued \in Nat /\ MaxWeight \in Nat
      BY GuardAssumption
    <3>6. /\ Cardinality(OfWorkspace(granted, e.workspace)) < MaxQueued
          /\ Total(granted) + e.weight <= MaxWeight
      BY <1>1, <1>2, <3>2, <3>3, <3>4, <3>5
    <3>7. WindowHolds /\ e.workspace \in Workspaces
      BY <1>1 DEF GuardInv
    <3>8. /\ Entries(granted \cup {e})
          /\ Total(granted \cup {e}) <= MaxWeight
          /\ \A v \in Workspaces :
               Cardinality(OfWorkspace(granted \cup {e}, v)) <= MaxQueued
      BY <1>2, <1>3, <3>6, <3>7, OneMoreFits
    <3>9. QED
      BY <3>1, <3>8 DEF WindowHolds
  <2>3. QED
    BY <2>1, <2>2
<1>9. EntriesOK'
  BY <1>1, <1>2, <1>4, <1>6, <1>8 DEF EntriesOK, Entries
<1>10. QED
  BY <1>7, <1>8, <1>9 DEF GuardInv

\* Entries leave, and what is granted is still what the window holds.
LEMMA FewerKeepWindow ==
  ASSUME GuardInv, now' \in Nat, now <= now', entries' \in SUBSET entries,
         granted' \in SUBSET granted, WindowIsGranted'
  PROVE  GuardInv'
<1>1. Entries(granted) /\ WindowHolds
  BY WindowAges DEF GuardInv
<1>2. /\ Total(granted') <= MaxWeight
      /\ \A w \in Workspaces : Cardinality(OfWorkspace(granted', w)) <= MaxQueued
  BY <1>1, PartsFit
<1>3. WindowHolds'
  BY <1>2 DEF WindowHolds
<1>4. now \in Nat /\ \A e \in entries' : e.at \in 0 .. now
  BY DEF GuardInv, EntriesOK
<1>5. \A e \in entries' : e.at \in 0 .. now'
  BY <1>4
<1>6. Entries(entries')
  BY FS_Subset DEF GuardInv, EntriesOK, Entries
<1>7. EntriesOK'
  BY <1>5, <1>6 DEF EntriesOK, Entries
<1>8. QED
  BY <1>3, <1>7 DEF GuardInv

LEMMA ReleaseKeepsWindow ==
  ASSUME GuardInv, NEW w \in Workspaces, NEW t \in Tasks \cup {NoTask}, Release(w, t)
  PROVE  GuardInv'
<1>1. now' = now /\ now \in Nat /\ granted = Pruned(entries)
  BY DEF Release, GuardInv, EntriesOK, WindowIsGranted
<1>2. entries' \in SUBSET entries /\ granted' \in SUBSET granted
  BY DEF Release
<1>3. WindowIsGranted'
  BY <1>1 DEF Release, WindowIsGranted, Pruned
<1>4. QED
  BY <1>1, <1>2, <1>3, FewerKeepWindow

LEMMA SnapshotKeepsWindow ==
  ASSUME GuardInv, Snapshot
  PROVE  GuardInv'
<1>1. now' = now /\ now \in Nat /\ granted' = granted /\ granted = Pruned(entries)
  BY DEF Snapshot, GuardInv, EntriesOK, WindowIsGranted
<1>2. entries' \in SUBSET entries
  BY DEF Snapshot, Pruned
<1>3. WindowIsGranted'
  BY <1>1 DEF Snapshot, WindowIsGranted, Pruned
<1>4. QED
  BY <1>1, <1>2, <1>3, FewerKeepWindow

LEMMA TickKeepsWindow ==
  ASSUME GuardInv, Tick
  PROVE  GuardInv'
<1>1. /\ now \in Nat /\ now' = now + 1 /\ entries' = entries /\ Ttl \in Nat
      /\ granted' = {e \in granted : now' - e.at <= Ttl}
      /\ granted = {e \in entries : ~(e.at < now - Ttl)}
  BY GuardAssumption DEF Tick, GuardInv, EntriesOK, WindowIsGranted, Pruned
<1>2. now' \in Nat /\ now <= now'
  BY <1>1
<1>3. ASSUME NEW e \in entries
      PROVE  e \in granted' <=> ~(e.at < now' - Ttl)
  <2>1. e.at \in Nat /\ now \in Nat /\ now' \in Nat /\ now <= now' /\ Ttl \in Nat
    BY <1>1, <1>2 DEF GuardInv, EntriesOK
  <2>2. /\ now' - e.at <= Ttl <=> ~(e.at < now' - Ttl)
        /\ ~(e.at < now' - Ttl) => ~(e.at < now - Ttl)
    BY <2>1
  <2>3. e \in granted' <=> e \in granted /\ now' - e.at <= Ttl
    BY <1>1
  <2>4. e \in granted <=> ~(e.at < now - Ttl)
    BY <1>1
  <2>5. QED
    BY <2>2, <2>3, <2>4
<1>4. WindowIsGranted'
  BY <1>1, <1>3 DEF WindowIsGranted, Pruned
<1>5. QED
  BY <1>1, <1>2, <1>4, FewerKeepWindow

LEMMA GuardInvNext ==
  ASSUME GuardInv, [GuardNext]_guardVars
  PROVE  GuardInv'
<1>1. CASE \E w \in Workspaces, t \in Tasks : Admit(w, t)
  BY <1>1, AdmitKeepsWindow
<1>2. CASE \E w \in Workspaces, t \in Tasks \cup {NoTask} : Release(w, t)
  BY <1>2, ReleaseKeepsWindow
<1>3. CASE Snapshot
  BY <1>3, SnapshotKeepsWindow
<1>4. CASE Tick
  BY <1>4, TickKeepsWindow
<1>5. CASE UNCHANGED <<now, entries, granted>>
  BY <1>5 DEF GuardInv, EntriesOK, WindowIsGranted, WindowHolds, Pruned, Entries
<1>6. CASE \E w \in Workspaces : GpuOom(w) \/ ResetOom(w)
  BY <1>5, <1>6 DEF GpuOom, ResetOom
<1>7. CASE UNCHANGED guardVars
  BY <1>5, <1>7 DEF guardVars
<1>8. QED
  BY <1>1, <1>2, <1>3, <1>4, <1>6, <1>7 DEF GuardNext

\* A window that holds nothing leaves every ceiling to the task that asks.
LEMMA IdleIsOpen ==
  ASSUME GuardInv
  PROVE  IdleAdmits
<1> SUFFICES ASSUME granted = {}, NEW w \in Workspaces, NEW t \in Tasks,
                    Permitted(t), Weight(t) <= MaxWeight
             PROVE  Verdict(w, t) = "ADMITTED"
  BY DEF IdleAdmits
<1>1. Pruned(entries) = {}
  BY DEF GuardInv, WindowIsGranted
<1>2. Total({}) = 0 /\ Cardinality(OfWorkspace({}, w)) = 0
  BY EmptyWindow
<1>3. Weight(t) \in Nat /\ MaxQueued \in Nat \ {0} /\ MaxWeight \in Nat
  BY WeightIsNatural, GuardAssumption
<1>4. ~(Cardinality(OfWorkspace({}, w)) >= MaxQueued)
  BY <1>2, <1>3
<1>5. ~(Total({}) + Weight(t) > MaxWeight)
  BY <1>2, <1>3
<1>6. ~(Minutes(t) > MaxMinutes) /\ ~(Memory(t) > MaxMemory)
  <2>1. t.minutes \in Nat /\ t.assets \in Nat /\ MaxMinutes \in Nat /\ MaxMemory \in Nat
    BY GuardAssumption
  <2>2. Minutes(t) \in Nat /\ Memory(t) \in Nat
    BY <2>1 DEF Minutes, Memory
  <2>3. QED
    BY <2>1, <2>2 DEF Permitted
<1>7. QED
  BY <1>1, <1>4, <1>5, <1>6 DEF Verdict

\* Over any window of the guard's length a workspace is granted at most its
\* number of tasks and all together at most the total weight, for any number of
\* workspaces, any ceilings and a clock that runs on, and a guard that granted
\* nothing for a window admits whatever fits: admit, release, snapshot and the
\* pruning of every one of them (admission.py).
THEOREM WindowStays == GuardSpec => []WindowIsKept
<1>1. GuardInit => GuardInv
  BY GuardStart
<1>2. GuardInv /\ [GuardNext]_guardVars => GuardInv'
  BY GuardInvNext
<1>3. GuardInv => WindowIsKept
  BY IdleIsOpen DEF GuardInv, WindowIsKept
<1>4. QED
  BY <1>1, <1>2, <1>3, PTL DEF GuardSpec

=============================================================================
