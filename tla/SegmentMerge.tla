---------------------------- MODULE SegmentMerge ----------------------------
(***************************************************************************)
(* A long video is planned as one file or as ordered parts, each part is   *)
(* analysed on its own, and the results, which arrive in any order, twice, *)
(* or never, are merged onto one timeline.  There are two mergers: one     *)
(* checks the results against a manifest, the other one only has the       *)
(* segment data the results carry.  Time is counted in half seconds.       *)
(***************************************************************************)
EXTENDS Integers, Sequences, FiniteSets, FiniteSetsExt, SequencesExt

CONSTANTS
  Videos,      \* [seconds, limit, strategy, minimum, target]: bytes and kbit/s
  Counts,      \* what a result counts in its segment
  Locals,      \* times of a piece of evidence inside its segment
  Shifts,      \* how much too early the start of a result may be
  MaxResults   \* bound on the results that arrive

ASSUME MergeAssumption ==
  /\ \A v \in Videos : /\ {v.seconds, v.limit, v.minimum, v.target} \subseteq Nat \ {0}
                       /\ v.strategy \in {"auto", "compress", "split"}
  /\ Counts \subseteq Nat /\ Locals \subseteq Nat /\ Shifts \subseteq Nat /\ MaxResults \in Nat

VARIABLES
  video, parts,        \* the plan: [start, duration] of each part
  kept,                \* index -> the result that is kept for it
  received,            \* every distinct result that arrived
  ignored,             \* duplicate inputs ignored
  verdict, merged

mergeVars == <<video, parts, kept, received, ignored, verdict, merged>>

NotMerged == [count |-> 0, seconds |-> 0, evidence |-> {}]

MergeInit ==
  /\ video \in Videos /\ parts = <<>>
  /\ kept = <<>> /\ received = {} /\ ignored = 0
  /\ verdict = "plan" /\ merged = NotMerged

-----------------------------------------------------------------------------
(* The plan                                                                *)

Greater(a, b) == IF a > b THEN a ELSE b
Smaller(a, b) == IF a < b THEN a ELSE b
CeilDiv(a, b) == (a + b - 1) \div b

SafeBytes(v) == (v.limit * 9) \div 10

\* The rate at which the whole video fits in the safe size.
FullRate(v) == (SafeBytes(v) * 8) \div (v.seconds * 1000)

OneFile(v) == v.strategy = "compress" \/ (v.strategy = "auto" /\ FullRate(v) >= v.minimum)

Rate(v) == IF OneFile(v) THEN Greater(FullRate(v), 96) ELSE Greater(v.target, v.minimum)

PartSeconds(v) == Greater(60, (SafeBytes(v) * 8) \div (Rate(v) * 1000))

PartCount(v) == CeilDiv(v.seconds, PartSeconds(v))

PartsOf(v) ==
  IF OneFile(v) THEN <<[start |-> 0, duration |-> v.seconds]>>
  ELSE [k \in 1 .. PartCount(v) |->
          LET start == (k - 1) * PartSeconds(v)
          IN [start |-> start, duration |-> Smaller(PartSeconds(v), v.seconds - start)]]

BuildPlan ==
  /\ verdict = "plan" /\ verdict' = "open"
  /\ parts' = PartsOf(video)
  /\ UNCHANGED <<video, kept, received, ignored, merged>>

-----------------------------------------------------------------------------
(* The results                                                             *)

PartResults ==
  {[index |-> i, start |-> Greater(0, 2 * parts[i].start - shift), duration |-> 2 * parts[i].duration,
    expected |-> Len(parts), count |-> n, evidence |-> t]
     : i \in DOMAIN parts, shift \in Shifts, n \in Counts, t \in Locals}

\* Fault: the last result of an index wins.
LastWins(r) == FALSE

\* Another result of an index that is not the same to the byte.
Conflicts(r) == r.index \in DOMAIN kept /\ kept[r.index] # r

Receive(r) ==
  /\ verdict = "open" /\ Cardinality(received) + ignored < MaxResults
  /\ received' = received \cup {r}
  /\ IF Conflicts(r) THEN verdict' = "refused" /\ UNCHANGED <<kept, ignored>>
     ELSE /\ kept' = [i \in DOMAIN kept \cup {r.index} |-> IF i = r.index THEN r ELSE kept[i]]
          /\ ignored' = ignored + (IF r.index \in DOMAIN kept THEN 1 ELSE 0)
          /\ UNCHANGED verdict
  /\ UNCHANGED <<video, parts, merged>>

\* Totals over the results that are kept, and evidence on the global timeline.
Merged(rs) ==
  [count |-> MapThenSumSet(LAMBDA r : r.count, rs),
   seconds |-> MapThenSumSet(LAMBDA r : r.duration, rs),
   evidence |-> {[index |-> r.index, at |-> r.start + r.evidence] : r \in rs}]

Kept == {kept[i] : i \in DOMAIN kept}

Refuse == verdict' = "refused" /\ UNCHANGED merged
Accept == verdict' = "merged" /\ merged' = Merged(Kept)

-----------------------------------------------------------------------------
(* Merging against a manifest                                              *)

\* The manifest's own checks: indexes from one, no gap, the declared total.
ManifestValid ==
  /\ \A k \in DOMAIN parts :
       parts[k].start = (IF k = 1 THEN 0 ELSE parts[k - 1].start + parts[k - 1].duration)
  /\ parts # <<>> /\ Last(parts).start + Last(parts).duration = video.seconds
  /\ \A k \in DOMAIN parts : parts[k].duration > 0

\* The evidence of a result must lie in its segment, which is where the
\* manifest says.
MergeByManifest ==
  /\ verdict = "open" /\ parts # <<>> /\ ManifestValid
  /\ \A r \in Kept : r.start = 2 * parts[r.index].start
  /\ IF DOMAIN kept = DOMAIN parts /\ \A r \in Kept : r.evidence <= r.duration
     THEN Accept ELSE Refuse
  /\ UNCHANGED <<video, parts, kept, received, ignored>>

-----------------------------------------------------------------------------
(* Merging what the results say of themselves                              *)

Before(r, s) == r.start < s.start \/ (r.start = s.start /\ r.index < s.index)

Ranked ==
  [k \in 1 .. Cardinality(Kept) |->
     CHOOSE r \in Kept : Cardinality({s \in Kept : Before(s, r)}) = k - 1]

\* Fault: neighbours may overlap by any length.
AnyOverlap(r, s) == TRUE

\* Half a second of overlap is tolerated.
Follows(r, s) == s.start + 1 >= r.start + r.duration

\* In the order of their starts the indexes must be 1, 2, ... up to the
\* number of segments that is declared.
Sequenced ==
  /\ \A k \in DOMAIN Ranked : Ranked[k].index = k
  /\ \A r \in Kept : r.expected = Len(Ranked)

MergeByFiles ==
  /\ verdict = "open" /\ DOMAIN kept # {}
  /\ IF Sequenced /\ \A k \in 2 .. Len(Ranked) : Follows(Ranked[k - 1], Ranked[k])
     THEN Accept ELSE Refuse
  /\ UNCHANGED <<video, parts, kept, received, ignored>>

MergeNext ==
  \/ BuildPlan \/ MergeByManifest \/ MergeByFiles
  \/ \E r \in PartResults : Receive(r)

MergeSpec == MergeInit /\ [][MergeNext]_mergeVars

-----------------------------------------------------------------------------
(* What must hold                                                          *)

\* The parts of a plan cover the video once: no gap, no overlap, none empty,
\* whatever the rounding of rates and lengths, so the manifest check passes.
PlanCovers == verdict # "plan" => ManifestValid

\* A merge that succeeds says what one result per part says, in whatever
\* order and however often the results arrived: no part is missing, none is
\* counted twice, no two versions of a part were seen, and parts that
\* overlap by more than half a second are not added up.
MergeIsExact ==
  verdict = "merged" =>
    /\ \A i \in DOMAIN parts : Cardinality({r \in received : r.index = i}) = 1
    /\ merged = Merged(received)
    /\ \A r, s \in received : r.index < s.index => s.start + 1 >= r.start + r.duration

\* A long video is analysed as a whole: its parts cover it, and what is merged
\* is one result of each.
PartsMakeTheWhole == PlanCovers /\ MergeIsExact

=============================================================================
