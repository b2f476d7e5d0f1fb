------------------------------ MODULE QueueGuard ------------------------------
(***************************************************************************)
(* Admission control of the API.  Every start, retry and rerun asks the    *)
(* guard before it reaches the idempotency service: the guard estimates a  *)
(* weight from the duration the client declares, forgets the entries that  *)
(* are older than its window, and admits the task, turns it away for good  *)
(* or asks the client to come back.  Nothing of the API releases an entry: *)
(* a slot comes back when it is old enough.                                *)
(***************************************************************************)
EXTENDS Integers, FiniteSets, FiniteSetsExt

CONSTANTS
  Workspaces,
  Tasks,          \* what clients ask for: [mode, minutes, assets]
  NoTask,
  MaxQueued,      \* max_queued_per_workspace
  MaxWeight,      \* max_total_weight
  MaxMinutes,     \* max_task_seconds
  MaxMemory,      \* max_task_memory_mb
  Ttl,            \* in_flight_ttl_seconds, in ticks of the clock
  Escalation,     \* gpu_oom_escalation_threshold
  MaxTime         \* bound on the clock

ASSUME GuardAssumption ==
  /\ NoTask \notin Tasks
  /\ \A t \in Tasks : t.mode \in {"video", "image"} /\ t.minutes \in Nat
                      /\ t.assets \in Nat \ {0}
  /\ {MaxQueued, MaxWeight, MaxMinutes} \subseteq Nat \ {0}
  /\ {MaxMemory, Ttl, Escalation, MaxTime} \subseteq Nat

VARIABLES
  now,        \* the monotonic clock
  entries,    \* the window: [nr, at, workspace, weight]
  granted,    \* history: what the last Ttl ticks admitted and kept
  oom         \* GPU out-of-memory errors of each workspace since the reset

guardVars == <<now, entries, granted, oom>>

GuardInit ==
  /\ now = 0 /\ entries = {} /\ granted = {}
  /\ oom = [w \in Workspaces |-> 0]

-----------------------------------------------------------------------------
(* The estimate                                                            *)

PerAsset(t) == IF t.mode = "image" THEN 10 ELSE 6

Weight(t) == (1 + t.minutes) * PerAsset(t) + t.assets

\* A task that declares no duration is taken to last a minute.
Minutes(t) == IF t.minutes > 0 THEN t.minutes ELSE 1

Memory(t) == 256 + 64 * t.assets + 8 * t.minutes

-----------------------------------------------------------------------------
(* The window                                                              *)

\* Fault: an entry of exactly the window's age goes too.
PrunedEarly(es) == {e \in es : e.at > now - Ttl}

\* _prune: entries are in the order of the clock, so what is popped from the
\* front is every entry older than the window.
Pruned(es) == {e \in es : ~(e.at < now - Ttl)}

Total(es) == MapThenSumSet(LAMBDA e : e.weight, es)

OfWorkspace(es, w) == {e \in es : e.workspace = w}

\* Two entries of the same moment, workspace and weight are two.
FreeNumber(es) == CHOOSE n \in 1 .. Cardinality(es) + 1 : \A e \in es : e.nr # n

\* admit(): what the guard says to task t of workspace w.
Verdict(w, t) ==
  LET es == Pruned(entries) IN
  IF Minutes(t) > MaxMinutes THEN "TOO_LONG"
  ELSE IF Memory(t) > MaxMemory THEN "TOO_LARGE"
  ELSE IF \/ Cardinality(OfWorkspace(es, w)) >= MaxQueued
          \/ Total(es) + Weight(t) > MaxWeight THEN "BACKPRESSURE"
  ELSE "ADMITTED"

\* admit_job, before start, retry and rerun.
Admit(w, t) ==
  LET e == [nr |-> FreeNumber(entries \cup granted), at |-> now, workspace |-> w,
            weight |-> Weight(t)]
      admitted == IF Verdict(w, t) = "ADMITTED" THEN {e} ELSE {}
  IN  /\ entries' = Pruned(entries) \cup admitted
      /\ granted' = granted \cup admitted
      /\ UNCHANGED <<now, oom>>

\* release(): every entry of the workspace, or those of one weight.  One
\* finished task of two that weigh the same gives both slots back.
Release(w, t) ==
  LET Kept(e) == ~(e.workspace = w /\ t \in {NoTask} \cup
                    {u \in Tasks : Weight(u) = e.weight})
  IN  /\ entries' = {e \in entries : Kept(e)}
      /\ granted' = {e \in granted : Kept(e)}
      /\ entries' # entries
      /\ UNCHANGED <<now, oom>>

\* queue_status, and the gauges after every decision.
Snapshot ==
  /\ entries' = Pruned(entries)
  /\ UNCHANGED <<now, granted, oom>>

\* on_gpu_oom: a smaller batch first, a person from the threshold on.
GpuOom(w) ==
  /\ oom[w] < Escalation
  /\ oom' = [oom EXCEPT ![w] = @ + 1]
  /\ UNCHANGED <<now, entries, granted>>

ResetOom(w) ==
  /\ oom[w] > 0
  /\ oom' = [oom EXCEPT ![w] = 0]
  /\ UNCHANGED <<now, entries, granted>>

Tick ==
  /\ now < MaxTime /\ now' = now + 1
  /\ granted' = {e \in granted : now' - e.at <= Ttl}
  /\ UNCHANGED <<entries, oom>>

GuardNext ==
  \/ \E w \in Workspaces, t \in Tasks : Admit(w, t)
  \/ \E w \in Workspaces, t \in Tasks \cup {NoTask} : Release(w, t)
  \/ \E w \in Workspaces : GpuOom(w) \/ ResetOom(w)
  \/ Snapshot \/ Tick

GuardSpec == GuardInit /\ [][GuardNext]_guardVars

-----------------------------------------------------------------------------
(* Properties                                                              *)

\* Over any window of Ttl ticks, however calls, releases and the clock
\* interleave, a workspace is granted at most MaxQueued tasks and all of them
\* together at most MaxWeight.
WindowHolds ==
  /\ Total(granted) <= MaxWeight
  /\ \A w \in Workspaces : Cardinality(OfWorkspace(granted, w)) <= MaxQueued

Permitted(t) == Minutes(t) <= MaxMinutes /\ Memory(t) <= MaxMemory

\* The queue heals itself: when nothing was granted for a whole window, every
\* task that fits under the ceiling is admitted, whatever was never released.
IdleAdmits ==
  granted = {} =>
    \A w \in Workspaces, t \in Tasks :
      Permitted(t) /\ Weight(t) <= MaxWeight => Verdict(w, t) = "ADMITTED"

\* Admission is neither too generous nor too strict: the ceilings hold over
\* every window, and what finished runs never give back is free after one.
WindowIsKept == WindowHolds /\ IdleAdmits

=============================================================================
