---------------------------- MODULE MediaTimeline ----------------------------
(***************************************************************************)
(* The media path: a probe that refuses what it cannot decode, sampled     *)
(* frames, 16 kHz audio, an energy VAD that cuts speech into padded        *)
(* chunks, speech recognition chunk by chunk onto the global timeline,     *)
(* OCR and a vision model over the frames.  Time is counted in VAD frames. *)
(* What an absent track or model leaves out is reported, any other error   *)
(* ends the run.  FrameSampling models how the frames are chosen.          *)
(***************************************************************************)
EXTENDS Integers, Sequences, FiniteSets, SequencesExt

CONSTANTS
  Length,        \* duration of the audio
  MinSpeech, MergeGap, Pad, MaxChunk,
  GlobalOffset,
  Utterances,    \* [start, end] a model reports relative to its chunk, clamped or not
  Frames,        \* sampled frames
  Shown          \* what a vision model may answer: [person, labels]

ASSUME MediaAssumption ==
  /\ {Length, MinSpeech, MaxChunk} \subseteq Nat \ {0}
  /\ {MergeGap, Pad, GlobalOffset} \subseteq Nat
  /\ MaxChunk >= MinSpeech
  \* The constructor does not ask for this; its defaults (300 ms, 120 ms) do.
  /\ MergeGap >= 2 * Pad
  /\ \A u \in Utterances : u.start \in Int /\ u.end \in Int

VARIABLES
  media,       \* phase of the run
  loud,        \* the VAD frames above the threshold
  equipment,   \* which of the audio track and the three models there are
  intervals,   \* what is still to cut of the speech intervals
  chunks,      \* speech chunks in the order they were written
  heard,       \* how many of them were transcribed
  transcript,  \* segments on the global timeline
  seen,        \* frame -> accepted observation
  unavailable  \* outputs reported as unavailable

mediaVars == <<media, loud, equipment, intervals, chunks, heard, transcript, seen,
               unavailable>>

MediaInit ==
  /\ media = "probe" /\ loud \in SUBSET (0 .. Length - 1)
  /\ equipment \in SUBSET {"track", "asr", "ocr", "vision"}
  /\ intervals = {} /\ chunks = <<>> /\ heard = 0
  /\ transcript = {} /\ seen = <<>> /\ unavailable = {}

Raises ==
  /\ media \in {"probe", "sample", "audio", "cut", "listen", "ocr", "look"}
  /\ media' = "failed"
  /\ UNCHANGED <<loud, equipment, intervals, chunks, heard, transcript, seen, unavailable>>

-----------------------------------------------------------------------------
(* Probe, frames and audio track                                           *)

\* inspect(): path, size, container, streams, codec, dimensions, rate and
\* duration are checked before anything is decoded; Raises is each refusal.
Inspect ==
  /\ media = "probe" /\ media' = "sample"
  /\ UNCHANGED <<loud, equipment, intervals, chunks, heard, transcript, seen, unavailable>>

Sample ==
  /\ media = "sample" /\ media' = "audio"
  /\ UNCHANGED <<loud, equipment, intervals, chunks, heard, transcript, seen, unavailable>>

-----------------------------------------------------------------------------
(* Voice activity                                                          *)

Lower(a, b) == IF a < b THEN a ELSE b
Upper(a, b) == IF a > b THEN a ELSE b
Clip(x, limit) == Upper(0, Lower(limit, x))

\* A loud frame joins the burst before it unless the gap is too long.
Joined(bursts, f) ==
  IF bursts # <<>> /\ f - Last(bursts).end <= MergeGap
  THEN Append(Front(bursts), [start |-> Last(bursts).start, end |-> f + 1])
  ELSE Append(bursts, [start |-> f, end |-> f + 1])

\* The bursts of the active frames: upTo[n] are those of the first n frames.
BurstsOf(active) ==
  LET upTo[n \in 0 .. Length] ==
        IF n = 0 THEN <<>>
        ELSE IF n - 1 \in active THEN Joined(upTo[n - 1], n - 1) ELSE upTo[n - 1]
  IN upTo[Length]

Bursts == BurstsOf(loud)

LongEnough(n) == n >= MinSpeech

Padded(b) == [start |-> Upper(0, b.start - Pad), end |-> Lower(Length, b.end + Pad)]

\* A burst that is too short is dropped before it is padded.
Speech == {Padded(b) : b \in {c \in Range(Bursts) : LongEnough(c.end - c.start)}}

\* No audio track and no model are told apart; either way there is no transcript.
SkipAudio ==
  /\ media = "audio" /\ ~({"track", "asr"} \subseteq equipment)
  /\ unavailable' = unavailable \cup
       {IF "track" \in equipment THEN "asr:model_not_configured" ELSE "asr:no_audio_track"}
  /\ media' = "ocr"
  /\ UNCHANGED <<loud, equipment, intervals, chunks, heard, transcript, seen>>

DetectSpeech ==
  /\ media = "audio" /\ {"track", "asr"} \subseteq equipment
  /\ intervals' = Speech /\ media' = "cut"
  /\ UNCHANGED <<loud, equipment, chunks, heard, transcript, seen, unavailable>>

\* The earliest of the intervals loses a piece.  A piece that is shorter than
\* the minimum is dropped, the last one of a long interval included.
CutChunk ==
  /\ media = "cut"
  /\ \E whole \in intervals :
       LET end == Lower(whole.end, whole.start + MaxChunk)
           rest == IF end < whole.end THEN {[start |-> end, end |-> whole.end]} ELSE {} IN
       /\ \A other \in intervals : whole.start <= other.start
       /\ chunks' = IF LongEnough(end - whole.start)
                    THEN Append(chunks, [start |-> whole.start, end |-> end]) ELSE chunks
       /\ intervals' = (intervals \ {whole}) \cup rest
  /\ UNCHANGED <<media, loud, equipment, heard, transcript, seen, unavailable>>

ChunksWritten ==
  /\ media = "cut" /\ intervals = {} /\ media' = "listen"
  /\ UNCHANGED <<loud, equipment, intervals, chunks, heard, transcript, seen, unavailable>>

-----------------------------------------------------------------------------
(* Speech recognition                                                      *)

\* Fault: what the model says of the end of a segment is believed.
Believed(u, c) == [from |-> Upper(0, u.start), to |-> Upper(0, u.end)]

\* Times are clamped to the chunk.
Clamp(u, c) == LET n == c.end - c.start IN [from |-> Clip(u.start, n), to |-> Clip(u.end, n)]

\* A segment that is empty after that is left out.
SegmentsOf(us, c, index) ==
  {[start |-> GlobalOffset + c.start + Clamp(u, c).from,
    end |-> GlobalOffset + c.start + Clamp(u, c).to, chunk |-> index]
     : u \in {v \in us : Clamp(v, c).to > Clamp(v, c).from}}

Transcribe ==
  /\ media = "listen" /\ heard < Len(chunks)
  /\ heard' = heard + 1
  /\ \E us \in {{u} : u \in Utterances} \cup {{}} :
       transcript' = transcript \cup SegmentsOf(us, chunks[heard'], heard')
  /\ UNCHANGED <<media, loud, equipment, intervals, chunks, seen, unavailable>>

Transcribed ==
  /\ media = "listen" /\ heard = Len(chunks) /\ media' = "ocr"
  /\ UNCHANGED <<loud, equipment, intervals, chunks, heard, transcript, seen, unavailable>>

-----------------------------------------------------------------------------
(* The frames                                                              *)

\* recognize(): an item of a frame nobody asked about, or no frame at all, is
\* an error (Raises); what is below the threshold is kept and marked.
ReadFrames ==
  /\ media = "ocr"
  /\ "ocr" \in equipment => Frames # {}
  /\ unavailable' = IF "ocr" \in equipment THEN unavailable
                    ELSE unavailable \cup {"ocr:model_not_configured"}
  /\ media' = "look"
  /\ UNCHANGED <<loud, equipment, intervals, chunks, heard, transcript, seen>>

Teacher == {"teacher_at_podium", "teacher_patrolling_visible"}
Labels == Teacher \cup {"raise_hand", "standing", "reading_or_writing_visible",
                        "group_discussion_visible"}
Unknown == -1

\* One count: unknown or zero shows no region, a positive one shows where.
CountAccepted(label, c) ==
  /\ label \in Teacher => c.count <= 1
  /\ (c.count > 0) = c.somewhere

Accepted(inference) ==
  /\ DOMAIN inference.labels = Labels
  /\ \A l \in Labels : CountAccepted(l, inference.labels[l])
  /\ inference.person # Unknown =>
       \A l \in Labels \ Teacher : inference.labels[l].count <= inference.person

\* The frame, asset and time come from the system, the rest from the model.
LookAt(f) ==
  /\ media = "look" /\ "vision" \in equipment /\ f \notin DOMAIN seen
  /\ \E inference \in Shown :
       IF Accepted(inference)
       THEN /\ seen' = [g \in DOMAIN seen \cup {f} |-> IF g = f THEN inference ELSE seen[g]]
            /\ UNCHANGED media
       ELSE media' = "failed" /\ UNCHANGED seen
  /\ UNCHANGED <<loud, equipment, intervals, chunks, heard, transcript, unavailable>>

ReturnMedia ==
  /\ media = "look" /\ ("vision" \in equipment => DOMAIN seen = Frames)
  /\ unavailable' = IF "vision" \in equipment THEN unavailable
                    ELSE unavailable \cup {"vision:model_not_configured"}
  /\ media' = "done"
  /\ UNCHANGED <<loud, equipment, intervals, chunks, heard, transcript, seen>>

MediaNext ==
  \/ Raises \/ Inspect \/ Sample \/ SkipAudio \/ DetectSpeech \/ CutChunk \/ ChunksWritten
  \/ Transcribe \/ Transcribed \/ ReadFrames \/ ReturnMedia
  \/ \E f \in Frames : LookAt(f)

MediaSpec == MediaInit /\ [][MediaNext]_mediaVars

-----------------------------------------------------------------------------
(* What must hold                                                          *)

\* No moment of the lesson is transcribed twice, however bursts merge, pad
\* and are cut and whatever times the model reports: segments of different
\* chunks do not overlap, and each lies in the lesson.
TranscribedOnce ==
  \A s \in transcript :
    /\ GlobalOffset <= s.start /\ s.start < s.end /\ s.end <= GlobalOffset + Length
    /\ \A t \in transcript : t.chunk # s.chunk => t.end <= s.start \/ s.end <= t.start

\* Every burst of speech that lasts the minimum reaches the model, but for a
\* last piece that is shorter than the minimum: the cut of a long interval
\* may leave one, and that much speech is never transcribed.
SpeechReachesAsr ==
  media = "listen" =>
    \A k \in DOMAIN Bursts :
      LET b == Bursts[k]
          lost == {f \in b.start .. b.end - 1 :
                     \A c \in DOMAIN chunks : f < chunks[c].start \/ chunks[c].end <= f} IN
      b.end - b.start >= MinSpeech =>
        /\ Cardinality(lost) < MinSpeech
        /\ \A f \in lost : f >= b.start + MaxChunk - Pad

\* Speech is heard, and each moment of it once.
SpeechIsHeardOnce == TranscribedOnce /\ SpeechReachesAsr

=============================================================================
