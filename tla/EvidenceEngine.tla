---------------------------- MODULE EvidenceEngine ----------------------------
(***************************************************************************)
(* The deterministic engine: a payload is validated, metrics, evidence and *)
(* a comparison of regions are computed from it, and five files are        *)
(* rendered from the result and put in place one after the other, each by  *)
(* a temporary file and a rename.  A number is an integer, percentages are *)
(* counted in tenths, and -1 is null.                                      *)
(***************************************************************************)
EXTENDS Integers, Sequences, FiniteSets, FiniteSetsExt, SequencesExt

CONSTANTS
  Payloads,     \* [mode, students, frames, regions, weights]
  MaxRuns,      \* bound on the calls of analyze_file
  MaxOsErrors   \* bound on writes that raise

Null == -1

\* What _non_negative_number lets pass.
Count == Nat \cup {Null}

\* The numbers of a frame.
NumbersOf(f) == {f.visible, f.estimated, f.focused, f.writing, f.hands, f.discussion,
              f.distracted, f.duration}

ASSUME EngineAssumption ==
  /\ MaxRuns \in Nat /\ MaxOsErrors \in Nat
  /\ \A p \in Payloads :
       /\ p.mode \in {"image", "video"} /\ p.students \in Count
       /\ Len(p.frames) \in Nat /\ DOMAIN p.frames = 1 .. Len(p.frames)
       /\ \A k \in DOMAIN p.frames : NumbersOf(p.frames[k]) \subseteq Count

Files == <<"dashboard.html", "classroom_analysis_report.md", "evidence_ledger.csv",
           "action_and_retest.csv", "analysis_data.json">>
Absent == [of |-> Null, whole |-> TRUE]

VARIABLES
  payload, result,  \* of the call that runs, or of the last one
  engine,           \* its phase
  written,          \* how many of the five files it has put in place
  disk,             \* file -> what is there
  scratch,          \* the temporary file, if there is one
  runs, osErrors

engineVars == <<payload, result, engine, written, disk, scratch, runs, osErrors>>

NoResult == [metrics |-> <<>>]

EngineInit ==
  /\ payload = (CHOOSE p \in Payloads : TRUE) /\ result = NoResult /\ engine = "idle" /\ written = 0
  /\ disk = [f \in Range(Files) |-> Absent] /\ scratch = Absent
  /\ runs = 0 /\ osErrors = 0

-----------------------------------------------------------------------------
(* Validation                                                              *)

Behaviours == {"focused", "writing", "hands", "discussion", "distracted"}

\* The visible students of a frame, its estimate, or the class.
Total(p, f) == IF f.visible # Null THEN f.visible
               ELSE IF f.estimated # Null THEN f.estimated ELSE p.students

\* No behaviour exceeds the visible count; a still image asserts no event
\* that takes time.
FrameValid(p, f) ==
  /\ \A b \in Behaviours : Total(p, f) # Null => f[b] <= Total(p, f)
  /\ f.duration # 0
  /\ p.mode = "image" => f.questioning # 1

RegionValid(r) ==
  /\ r.visibility = "not_visible" => r.focus = Null /\ r.interaction = Null
  /\ r.focus <= 1000 /\ r.interaction <= 1000

PayloadValid(p) ==
  /\ p.frames # <<>> /\ (p.mode = "image" => Len(p.frames) = 1 /\ p.durations = <<>>)
  /\ \A k \in DOMAIN p.frames : FrameValid(p, p.frames[k])
  /\ \A k \in DOMAIN p.regions : RegionValid(p.regions[k])

-----------------------------------------------------------------------------
(* Metrics                                                                 *)

Round(n, d) == (2 * n + d) \div (2 * d)

\* Fault: a share of nobody is nought.
ZeroOfNobody(n, d) ==
  IF n = Null \/ d = Null \/ d <= 0 THEN 0 ELSE IF n > d THEN 1000 ELSE Round(1000 * n, d)

\* safe_percentage(): null when either side is unknown or the whole is empty.
Percentage(n, d) ==
  IF n = Null \/ d = Null \/ d <= 0 THEN Null
  ELSE IF n > d THEN 1000 ELSE Round(1000 * n, d)

\* People may show several behaviours: the largest count is a lower bound.
LowerBound(S) == LET known == S \ {Null} IN IF known = {} THEN Null ELSE Max(known)

\* Nobody counted at all leaves a class of none.
Whole(p, f) == IF Total(p, f) = Null THEN 0 ELSE Total(p, f)

FrameMetrics(p, f) ==
  [focus |-> Percentage(f.focused, Whole(p, f)),
   participation |-> Percentage(LowerBound({f.hands, f.discussion, f.writing}), Whole(p, f)),
   interaction |-> Percentage(LowerBound({f.hands, f.discussion}), Whole(p, f)),
   teacherGuidance |-> IF f.patrolling = 1 \/ f.guiding = 1 THEN 1000
                       ELSE IF p.mode = "video" THEN 0 ELSE Null,
   abnormalRate |-> Percentage(f.distracted, Whole(p, f))]

SummaryMetrics == {"focus", "participation", "interaction", "teacherGuidance", "abnormalRate"}

\* A frame without a duration weighs one second.
WeightOf(f) == IF f.duration = Null THEN 1 ELSE f.duration

\* The mean over the frames in which the metric is known, by their duration.
Aggregate(p, key) ==
  LET known == {k \in DOMAIN p.frames : FrameMetrics(p, p.frames[k])[key] # Null}
      weight == MapThenSumSet(LAMBDA k : WeightOf(p.frames[k]), known)
      sum == MapThenSumSet(LAMBDA k : FrameMetrics(p, p.frames[k])[key] * WeightOf(p.frames[k]),
                           known)
  IN IF known = {} THEN Null ELSE Round(sum, weight)

\* Only regions that were seen and measured are compared, and only two or more.
Comparable(p, key) ==
  {k \in DOMAIN p.regions : p.regions[k].visibility # "not_visible" /\ p.regions[k][key] # Null}

Gap(p, key) ==
  LET values == {p.regions[k][key] : k \in Comparable(p, key)}
  IN IF Cardinality(Comparable(p, key)) < 2 THEN Null ELSE Max(values) - Min(values)

\* A score needs every metric that has a weight.
Scored(p, metrics) ==
  LET keys == DOMAIN p.weights
      weight == MapThenSumSet(LAMBDA k : p.weights[k], keys)
  IN IF weight = 0 \/ \E k \in keys : p.weights[k] > 0 /\ metrics[k] = Null THEN Null
     ELSE Round(MapThenSumSet(LAMBDA k : p.weights[k] * metrics[k], keys), weight)

\* The frame a fact refers to: its own id, or its place.
SourceRef(p, k) == IF p.frames[k].id # Null THEN p.frames[k].id ELSE k

FrameFacts(p) == {[source |-> SourceRef(p, k), frame |-> k] : k \in DOMAIN p.frames}

ResultOf(p) ==
  LET metrics == [key \in SummaryMetrics |-> Aggregate(p, key)] IN
  [metrics |-> metrics,
   overall |-> Scored(p, metrics),
   comparisons |-> [key \in {"focus", "interaction"} |-> Gap(p, key)],
   evidence |-> FrameFacts(p)]

-----------------------------------------------------------------------------
(* The files                                                               *)

Analyze(p) ==
  /\ engine \in {"idle", "returned", "refused", "failed", "dead"} /\ runs < MaxRuns
  /\ payload' = p /\ runs' = runs + 1 /\ written' = 0
  /\ IF PayloadValid(p) THEN result' = ResultOf(p) /\ engine' = "write"
     ELSE engine' = "refused" /\ result' = NoResult
  /\ UNCHANGED <<disk, scratch, osErrors>>

Target == Files[written + 1]

\* The temporary file is opened, which empties it, and then filled.
OpenTemporary ==
  /\ engine = "write" /\ written < Len(Files)
  /\ scratch' = [of |-> runs, whole |-> FALSE] /\ engine' = "fill"
  /\ UNCHANGED <<payload, result, written, disk, runs, osErrors>>

\* Fault: the file itself is written.
InPlace == /\ disk' = [disk EXCEPT ![Target] = [of |-> runs, whole |-> FALSE]]
           /\ scratch' = [of |-> runs, whole |-> TRUE]

Fill == scratch' = [of |-> runs, whole |-> TRUE] /\ UNCHANGED disk

FillTemporary ==
  /\ engine = "fill" /\ Fill /\ engine' = "rename"
  /\ UNCHANGED <<payload, result, written, runs, osErrors>>

Rename ==
  /\ engine = "rename"
  /\ disk' = [disk EXCEPT ![Target] = scratch] /\ scratch' = Absent
  /\ written' = written + 1 /\ engine' = "write"
  /\ UNCHANGED <<payload, result, runs, osErrors>>

\* An OSError ends the call; the temporary file goes, what was put stays.
PutRaises ==
  /\ engine \in {"write", "fill", "rename"} /\ written < Len(Files) /\ osErrors < MaxOsErrors
  /\ engine' = "failed" /\ scratch' = Absent /\ osErrors' = osErrors + 1
  /\ UNCHANGED <<payload, result, written, disk, runs>>

\* The process dies; the temporary file stays until the next call opens it.
EngineDies ==
  /\ engine \in {"write", "fill", "rename"} /\ osErrors < MaxOsErrors
  /\ engine' = "dead" /\ osErrors' = osErrors + 1
  /\ UNCHANGED <<payload, result, written, disk, scratch, runs>>

\* The summary names the hashes of what is on the disk now.
Summarize ==
  /\ engine = "write" /\ written = Len(Files) /\ engine' = "returned"
  /\ UNCHANGED <<payload, result, written, disk, scratch, runs, osErrors>>

EngineNext ==
  \/ \E p \in Payloads : Analyze(p)
  \/ OpenTemporary \/ FillTemporary \/ Rename \/ PutRaises \/ EngineDies \/ Summarize

EngineSpec == EngineInit /\ [][EngineNext]_engineVars

-----------------------------------------------------------------------------
(* What must hold                                                          *)

\* A call that returns a summary has put all five files of its own result in
\* place, over whatever calls that failed or died before left there; and no
\* file is ever half a result, whenever a process stops.
ReportIsWhole ==
  /\ (engine = "returned") => \A f \in DOMAIN disk : disk[f].of = runs
  /\ \A f \in DOMAIN disk : disk[f].whole

\* A share of students is null exactly when no frame shows it: nothing is
\* made up where a count or the class is unknown or empty, a frame that shows
\* it is not lost to others that do not, and the mean stays in bounds.
NullNotZero ==
  engine = "write" =>
    \A key \in SummaryMetrics \ {"teacherGuidance"} :
      LET counts(f) == CASE key = "focus" -> {f.focused}
                         [] key = "participation" -> {f.hands, f.discussion, f.writing}
                         [] key = "interaction" -> {f.hands, f.discussion}
                         [] OTHER -> {f.distracted}
          shown == \E k \in DOMAIN payload.frames :
                     /\ counts(payload.frames[k]) # {Null}
                     /\ Total(payload, payload.frames[k]) > 0
      IN (result.metrics[key] # Null) = shown /\ result.metrics[key] <= 1000

=============================================================================
