---------------------------- MODULE KeyedOperation ----------------------------
(***************************************************************************)
(* What an Idempotency-Key promises to the calls that carry it: the        *)
(* operation takes effect at most once, for the payload of one of them,    *)
(* and whoever is told that it succeeded asked for that payload and gets   *)
(* that one response.  Any call may be refused instead.                    *)
(***************************************************************************)
CONSTANTS Calls, Payloads, NoCall

VARIABLES
  effect,    \* the call whose operation was committed and what it asked for
  replies    \* per call: what it asked for and what it was told

NoEffect == [call |-> NoCall, payload |-> NoCall]

\* Nothing asked and nothing told.
Silent == [asked |-> NoCall, told |-> "nothing", response |-> NoCall]

Init ==
  /\ effect = NoEffect
  /\ replies = [c \in Calls |-> Silent]

\* A call arrives.
Ask(c, p) ==
  /\ replies[c] = Silent
  /\ replies' = [replies EXCEPT ![c].asked = p]
  /\ UNCHANGED effect

\* The one effect, with or without the reply.
Perform(c) ==
  /\ effect = NoEffect
  /\ replies[c].asked \in Payloads /\ replies[c].told = "nothing"
  /\ effect' = [call |-> c, payload |-> replies[c].asked]
  /\ \/ UNCHANGED replies
     \/ replies' = [replies EXCEPT ![c].told = "success", ![c].response = c]

\* The response of the one effect, for the same payload.
Replay(c) ==
  /\ effect # NoEffect
  /\ replies[c].told = "nothing" /\ replies[c].asked = effect.payload
  /\ replies' = [replies EXCEPT ![c].told = "success",
                                ![c].response = effect.call]
  /\ UNCHANGED effect

Refuse(c) ==
  /\ replies[c].told = "nothing" /\ replies[c].asked \in Payloads
  /\ replies' = [replies EXCEPT ![c].told = "refusal"]
  /\ UNCHANGED effect

Next ==
  \E c \in Calls :
    (\E p \in Payloads : Ask(c, p)) \/ Perform(c) \/ Replay(c) \/ Refuse(c)

Spec == Init /\ [][Next]_<<effect, replies>>
===============================================================================
