----------------------------- MODULE Idempotency -----------------------------
(***************************************************************************)
(* IdempotencyService.execute for one (workspace, endpoint, key): every    *)
(* call that carries the key tries to insert the record; the one that does *)
(* executes the operation and stores its response in the same transaction, *)
(* the others poll the record until it is decided or their wait times out. *)
(*                                                                         *)
(* A call is one HTTP request; a client that asks again is another call.   *)
(* The response is named after the call that produced it (it holds an id   *)
(* of the new row), its payload stands for the request fingerprint.        *)
(***************************************************************************)
EXTENDS Naturals, FiniteSets

CONSTANTS
  Calls,          \* the calls that carry the key
  Payloads,       \* what they may ask for
  NoCall,         \* no call, no payload
  MaxRaises,      \* bound on operations that raise
  MaxCrashes,     \* bound on calls whose process dies
  MaxLost         \* bound on commits whose acknowledgement is lost

ASSUME NoCallAssumption == NoCall \notin Calls /\ NoCall \notin Payloads

ASSUME MaxAssumption ==
  MaxRaises \in Nat /\ MaxCrashes \in Nat /\ MaxLost \in Nat

VARIABLES
  record,    \* the idempotency_records row
  effects,   \* what the operation has written: set of [call, payload]
  calls,     \* where each call is, what it asks for and what it is told
  raises, crashes, lost    \* how much of each bound is used

vars == <<record, effects, calls, raises, crashes, lost>>
used == <<raises, crashes, lost>>

Free == [status |-> "none", hash |-> NoCall, response |-> NoCall]

RecordType == [status : {"none", "PROCESSING", "SUCCEEDED", "FAILED"},
               hash : Payloads \cup {NoCall}, response : Calls \cup {NoCall}]

CallType == [pc : {"new", "own", "except", "wait", "sleep", "answered", "dead"},
             payload : Payloads \cup {NoCall},
             answer : {"none", "ok", "raised", "conflict", "previous_failure",
                       "timeout"},
             response : Calls \cup {NoCall}]

NewCall == [pc |-> "new", payload |-> NoCall, answer |-> "none",
            response |-> NoCall]

Init ==
  /\ record = Free
  /\ effects = {}
  /\ calls = [c \in Calls |-> NewCall]
  /\ raises = 0 /\ crashes = 0 /\ lost = 0

At(c, pc) == calls[c].pc = pc

Answer(c, answer, response) ==
  calls' = [calls EXCEPT ![c].pc = "answered", ![c].answer = answer,
                         ![c].response = response]

-----------------------------------------------------------------------------

\* Fault: the insert is preceded by a look-up instead of relying on the
\* unique constraint, and nobody is turned away.
ReserveAlways == TRUE

\* uq_idempotency_scope accepts one row.
Reservable == record = Free

\* _reserve commits the PROCESSING record, or fails on the constraint.
Reserve(c, p) ==
  /\ At(c, "new")
  /\ \/ /\ Reservable
        /\ record' = [status |-> "PROCESSING", hash |-> p, response |-> NoCall]
        /\ calls' = [calls EXCEPT ![c].pc = "own", ![c].payload = p]
     \/ /\ ~Reservable
        /\ calls' = [calls EXCEPT ![c].pc = "wait", ![c].payload = p]
        /\ UNCHANGED record
  /\ UNCHANGED <<effects, used>>

\* The record as the operation's own transaction leaves it.
Decided(c) == [record EXCEPT !.status = "SUCCEEDED", !.response = c]

\* The operation and its response are committed together.
Commit(c) ==
  /\ At(c, "own")
  /\ effects' = effects \cup {[call |-> c, payload |-> calls[c].payload]}
  /\ record' = Decided(c)
  /\ Answer(c, "ok", c)
  /\ UNCHANGED used

\* The commit reaches the database but the connection fails before it says
\* so: session.begin() raises as if nothing had been written.
CommitLost(c) ==
  /\ At(c, "own")
  /\ lost < MaxLost /\ lost' = lost + 1
  /\ effects' = effects \cup {[call |-> c, payload |-> calls[c].payload]}
  /\ record' = Decided(c)
  /\ calls' = [calls EXCEPT ![c].pc = "except"]
  /\ UNCHANGED <<raises, crashes>>

\* The operation raises and its transaction is rolled back.
OperationRaises(c) ==
  /\ At(c, "own")
  /\ raises < MaxRaises /\ raises' = raises + 1
  /\ calls' = [calls EXCEPT ![c].pc = "except"]
  /\ UNCHANGED <<record, effects, crashes, lost>>

\* The record of an operation that raised.
Failed(c) == [record EXCEPT !.status = "FAILED"]

\* The except clause: another transaction burns the key.
MarkFailed(c) ==
  /\ At(c, "except")
  /\ record' = Failed(c)
  /\ Answer(c, "raised", NoCall)
  /\ UNCHANGED <<effects, used>>

\* Fault: the fingerprint is not compared.
AnyPayload(c) == TRUE

\* The record is about the same request.
SamePayload(c) == record.hash = calls[c].payload

\* One turn of _await_existing.
Poll(c) ==
  /\ At(c, "wait") \/ At(c, "sleep")
  /\ \/ ~SamePayload(c) /\ Answer(c, "conflict", NoCall)
     \/ /\ SamePayload(c) /\ record.status = "SUCCEEDED"
        /\ Answer(c, "ok", record.response)
     \/ /\ SamePayload(c) /\ record.status = "FAILED"
        /\ Answer(c, "previous_failure", NoCall)
     \/ /\ SamePayload(c) /\ record.status = "PROCESSING"
        /\ calls' = [calls EXCEPT ![c].pc = "sleep"]
  /\ UNCHANGED <<record, effects, used>>

\* Fault: the wait has no deadline.
NeverTimesOut(c) == FALSE

\* The deadline passes while the call sleeps, whatever the record says by now.
TimedOut(c) == At(c, "sleep")

Timeout(c) ==
  /\ TimedOut(c)
  /\ Answer(c, "timeout", NoCall)
  /\ UNCHANGED <<record, effects, used>>

\* The process dies; what it committed stays.
Crash(c) ==
  /\ calls[c].pc \in {"own", "except", "wait", "sleep"}
  /\ crashes < MaxCrashes /\ crashes' = crashes + 1
  /\ calls' = [calls EXCEPT ![c].pc = "dead"]
  /\ UNCHANGED <<record, effects, raises, lost>>

Step(c) == Commit(c) \/ MarkFailed(c) \/ Poll(c) \/ Timeout(c)

Next ==
  \E c \in Calls :
    \/ \E p \in Payloads : Reserve(c, p)
    \/ Step(c)
    \/ CommitLost(c) \/ OperationRaises(c) \/ Crash(c)

Spec == Init /\ [][Next]_vars

\* A live call goes on, and the clock runs while it waits.
FairSpec == Spec /\ \A c \in Calls : WF_vars(Step(c))

-----------------------------------------------------------------------------
(* Properties                                                              *)

\* The record and every call have their fields.
TypeOK ==
  /\ record \in RecordType
  /\ effects \subseteq [call : Calls, payload : Payloads]
  /\ calls \in [Calls -> CallType]
  /\ raises \in Nat /\ crashes \in Nat /\ lost \in Nat

\* A key is good for one effect, whatever crashes, raises or is asked again.
AtMostOnce == \A d, e \in effects : d = e

\* Who is told that the request succeeded gets the response of an operation
\* that was committed, and that did what this call asked for.
RepliesAgree ==
  \A c \in Calls :
    calls[c].answer = "ok" =>
      [call |-> calls[c].response, payload |-> calls[c].payload] \in effects

\* Who is told that the operation failed may rely on it: nothing was written
\* and, under this key, nothing will be (unless a commit's acknowledgement was
\* lost, when the key is burnt although the operation took effect).
FailureIsFinal ==
  lost = 0 /\ (\E c \in Calls : calls[c].answer \in {"raised", "previous_failure"})
    => effects = {}

\* The key behaves as one operation that happens at most once.
told == [none |-> "nothing", ok |-> "success", raised |-> "refusal",
         conflict |-> "refusal", previous_failure |-> "refusal",
         timeout |-> "refusal"]

effectSeen ==
  IF effects = {} THEN [call |-> NoCall, payload |-> NoCall]
  ELSE CHOOSE e \in effects : TRUE

repliesSeen ==
  [c \in Calls |-> [asked |-> calls[c].payload, told |-> told[calls[c].answer],
                    response |-> calls[c].response]]

Promise == INSTANCE KeyedOperation WITH
             effect <- effectSeen, replies <- repliesSeen
KeyIsOneOperation == Promise!Spec

\* Every call is answered, unless its process dies: one that waits for an owner
\* that died gives up at its deadline.
CallsAnswered ==
  \A c \in Calls : calls[c].pc # "new" ~> calls[c].pc \in {"answered", "dead"}

\* Who is answered may believe it: a success names the operation that was
\* committed for this payload, a failure means that nothing was written.
AnswersAreTrue == RepliesAgree /\ FailureIsFinal

=============================================================================
