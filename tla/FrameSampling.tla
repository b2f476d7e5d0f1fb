---------------------------- MODULE FrameSampling ----------------------------
(***************************************************************************)
(* The frame sampler: a policy and a duration give the timestamps, one     *)
(* frame is extracted per timestamp and put into a sink whose names are a  *)
(* function of the time and of the bytes.  A call may be repeated after it *)
(* failed half way.                                                        *)
(***************************************************************************)
EXTENDS Integers, Sequences, FiniteSets

CONSTANTS
  Durations,       \* durations of a medium, in milliseconds
  SampleCounts,
  SceneChanges,    \* sets of times at which ffmpeg reports a scene change
  MaxSceneFrames,
  Offset,          \* global_offset_ms
  MaxSamplings     \* bound on the calls

ASSUME SamplingAssumption ==
  /\ Durations \subseteq Nat \ {0} /\ SampleCounts \subseteq Nat \ {0}
  /\ \A raw \in SceneChanges : raw \subseteq Int
  /\ MaxSceneFrames \in Nat \ {0} /\ Offset \in Nat /\ MaxSamplings \in Nat

VARIABLES
  duration, sampling, \* phase of the call
  stamps,             \* the timestamps of the call
  frames,             \* the frames it extracted
  sink,               \* the objects that were put, over all calls
  samplings           \* calls made

samplingVars == <<duration, sampling, stamps, frames, sink, samplings>>

SamplingInit ==
  /\ duration \in Durations /\ sampling = "idle" /\ stamps = <<>> /\ frames = <<>>
  /\ sink = {} /\ samplings = 0

Least(a, b) == IF a < b THEN a ELSE b

\* Fault: as many frames as were asked for, however short the medium.
AsAsked(d, n) == n

\* There are no more frames than milliseconds.
FrameCount(d, n) == Least(d, n)

\* The centre of the k-th of `count` bins, in integer arithmetic.
BinCentre(d, count, k) == Least(d - 1, ((2 * (k - 1) + 1) * d) \div (2 * count))

UniformTimestamps(d, n) == [k \in 1 .. FrameCount(d, n) |-> BinCentre(d, FrameCount(d, n), k)]

\* Scene changes are clamped to the medium; without any, its middle is taken.
Clamped(d, t) == IF t < 0 THEN 0 ELSE Least(d - 1, t)

\* The k-th of a set of times.
Nth(points, k) ==
  CHOOSE t \in points : Cardinality({s \in points : s < t}) = k - 1

SceneTimestamps(d, raw) ==
  LET points == {Clamped(d, t) : t \in raw}
  IN IF points = {} THEN <<UniformTimestamps(d, 1)[1]>>
     ELSE [k \in 1 .. Least(MaxSceneFrames, Cardinality(points)) |-> Nth(points, k)]

PlanFrames ==
  /\ sampling = "idle" /\ samplings < MaxSamplings
  /\ \/ \E n \in SampleCounts : stamps' = UniformTimestamps(duration, n)
     \/ \E raw \in SceneChanges : stamps' = SceneTimestamps(duration, raw)
  /\ frames' = <<>> /\ sampling' = "extract" /\ samplings' = samplings + 1
  /\ UNCHANGED <<duration, sink>>

\* The bytes of a frame are those of its time: a repeated call finds its
\* object there and writes nothing.
ExtractOne ==
  LET t == stamps[Len(frames) + 1] IN
  /\ sampling = "extract" /\ Len(frames) < Len(stamps)
  /\ frames' = Append(frames, [local |-> t, global |-> Offset + t])
  /\ sink' = sink \cup {Offset + t}
  /\ UNCHANGED <<duration, sampling, stamps, samplings>>

\* FFmpeg fails, or the scene scan does: what was put stays.
ExtractFails ==
  /\ sampling = "extract" /\ Len(frames) < Len(stamps)
  /\ sampling' = "idle" /\ frames' = <<>>
  /\ UNCHANGED <<duration, stamps, sink, samplings>>

Ordered(fs) == \A k \in 2 .. Len(fs) : fs[k - 1].global <= fs[k].global

ReturnFrames ==
  /\ sampling = "extract" /\ Len(frames) = Len(stamps)
  /\ sampling' = IF Ordered(frames) THEN "sampled" ELSE "unordered"
  /\ UNCHANGED <<duration, stamps, frames, sink, samplings>>

Forget ==
  /\ sampling = "sampled" /\ sampling' = "idle"
  /\ UNCHANGED <<duration, stamps, frames, sink, samplings>>

SamplingNext == PlanFrames \/ ExtractOne \/ ExtractFails \/ ReturnFrames \/ Forget

SamplingSpec == SamplingInit /\ [][SamplingNext]_samplingVars

-----------------------------------------------------------------------------
(* What must hold                                                          *)

\* The frames of a call are of different times, in order, inside the medium,
\* whatever the rounding of the bins does: a short medium asked for many
\* frames, or for one.  So the order check at the end never fails a call.
FramesOrdered ==
  /\ \A k \in DOMAIN frames : /\ frames[k].local \in 0 .. duration - 1
                              /\ frames[k].global = Offset + frames[k].local
  /\ \A k \in 2 .. Len(frames) : frames[k - 1].local < frames[k].local
  /\ sampling # "unordered"

=============================================================================
