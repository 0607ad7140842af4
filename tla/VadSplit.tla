------------------------------ MODULE VadSplit ------------------------------
(***************************************************************************)
(* vad_split of util/audio.py: how transcribe.py cuts a recording into     *)
(* segments of speech.  A frame is its index; whether it is speech is the  *)
(* choice of the voice activity detector (webrtcvad, external).  Times are *)
(* counted in frames.                                                      *)
(***************************************************************************)
EXTENDS Integers, Sequences, FiniteSets, SequencesExt

CONSTANTS
  num_padding_frames,   \* length of the ring buffer
  ThresholdNum,         \* threshold is ThresholdNum / ThresholdDen
  ThresholdDen,
  MaxFrames             \* bound: frames of the recording

\* What is assumed of the constants.
VadAssumption ==
  /\ num_padding_frames \in Nat \ {0} /\ MaxFrames \in Nat
  /\ ThresholdNum \in Nat /\ ThresholdDen \in Nat \ {0} /\ ThresholdNum < ThresholdDen

VARIABLES
  speech,          \* what the detector said of the frames so far (history)
  ring_buffer,     \* frames and whether they are speech
  triggered,
  voiced_frames,   \* frames of the segment being collected
  segments,        \* what was yielded: frames, start and end
  ended            \* the recording is over

vars == <<speech, ring_buffer, triggered, voiced_frames, segments, ended>>

frame_index == Len(speech)   \* of the frame a step looks at

\* append to a deque of maxlen num_padding_frames
Push(frame) ==
  LET all == Append(ring_buffer, frame)
  IN  IF Len(all) > num_padding_frames THEN Tail(all) ELSE all

\* More frames than the threshold are of one kind.
Most(buffer, kind) ==
  Cardinality({i \in DOMAIN buffer : buffer[i].speech = kind}) * ThresholdDen
    > ThresholdNum * num_padding_frames

Init ==
  /\ speech = << >> /\ ring_buffer = << >> /\ triggered = FALSE
  /\ voiced_frames = << >> /\ segments = << >> /\ ended = FALSE

\* Fault: only the frame that triggers is kept.
Untriggered_NoPadding(is_speech) ==
  LET ring == Push([frame |-> frame_index, speech |-> is_speech])
  IN  /\ ~triggered
      /\ IF Most(ring, TRUE)
         THEN /\ triggered' = TRUE
              /\ voiced_frames' = Append(voiced_frames, frame_index)
              /\ ring_buffer' = << >>
         ELSE ring_buffer' = ring /\ UNCHANGED <<triggered, voiced_frames>>
      /\ UNCHANGED segments

\* Not in a segment: enough speech in the ring buffer starts one with it.
Untriggered(is_speech) ==
  LET ring == Push([frame |-> frame_index, speech |-> is_speech])
  IN  /\ ~triggered
      /\ IF Most(ring, TRUE)
         THEN /\ triggered' = TRUE
              /\ voiced_frames' = voiced_frames \o [i \in DOMAIN ring |-> ring[i].frame]
              /\ ring_buffer' = << >>
         ELSE ring_buffer' = ring /\ UNCHANGED <<triggered, voiced_frames>>
      /\ UNCHANGED segments

\* ring_buffer.clear() at the end of a segment
Cleared(ring) == << >>

\* max(0, frame_index - len(voiced_frames))
Start(voiced) == IF frame_index > Len(voiced) THEN frame_index - Len(voiced) ELSE 0

\* In a segment: enough silence in the ring buffer ends it.
Triggered(is_speech) ==
  LET ring == Push([frame |-> frame_index, speech |-> is_speech])
      voiced == Append(voiced_frames, frame_index)
  IN  /\ triggered
      /\ IF Most(ring, FALSE)
         THEN /\ triggered' = FALSE
              /\ segments' = Append(segments, [frames |-> voiced, start |-> Start(voiced),
                                               end |-> frame_index])
              /\ ring_buffer' = Cleared(ring)
              /\ voiced_frames' = << >>
         ELSE /\ ring_buffer' = ring
              /\ voiced_frames' = voiced
              /\ UNCHANGED <<triggered, segments>>

\* One frame of the recording.
Frame(is_speech) ==
  /\ ~ended /\ Len(speech) < MaxFrames
  /\ Untriggered(is_speech) \/ Triggered(is_speech)
  /\ speech' = Append(speech, is_speech)
  /\ UNCHANGED ended

\* The end of the recording: what is collected is the last segment.  The loop
\* variable still has the index of the last frame.
End ==
  /\ ~ended
  /\ ended' = TRUE
  /\ LET last == Len(speech) - 1
     IN  segments' = IF voiced_frames = << >> THEN segments
                     ELSE Append(segments, [frames |-> voiced_frames,
                                            start |-> last - Len(voiced_frames),
                                            end |-> last + 1])
  /\ UNCHANGED <<speech, ring_buffer, triggered, voiced_frames>>

Next ==
  \/ \E is_speech \in BOOLEAN : Frame(is_speech)
  \/ End

Spec == Init /\ [][Next]_vars
-----------------------------------------------------------------------------
(* Properties *)

\* Type invariant of the splitter.
TypeOK ==
  /\ speech \in Seq(BOOLEAN)
  /\ Len(ring_buffer) <= num_padding_frames
  /\ triggered \in BOOLEAN /\ ended \in BOOLEAN
  /\ voiced_frames \in Seq(Nat)
  /\ \A i \in DOMAIN segments : segments[i].start \in Int /\ segments[i].end \in Nat

\* Segments are uninterrupted and no frame is in two of them, also not when
\* one starts right after another: together they are in the order of the
\* recording.
SegmentsWhole ==
  LET collected == [i \in DOMAIN segments |-> segments[i].frames]
      parts == IF ended THEN collected ELSE Append(collected, voiced_frames)
  IN  /\ \A i \in DOMAIN parts : \A j \in 2 .. Len(parts[i]) :
           parts[i][j] = parts[i][j - 1] + 1
      /\ \A i \in DOMAIN segments : i < Len(parts) /\ parts[i + 1] # << >> =>
           Last(parts[i]) < Head(parts[i + 1])

\* No speech is lost: as many frames in a row as the ring buffer has, most of
\* them speech, are all in segments, unless a segment ends among them.
SpeechKept ==
  LET kept == (UNION {Range(segments[i].frames) : i \in DOMAIN segments})
                \cup Range(voiced_frames)
      ends == {Last(segments[i].frames) : i \in DOMAIN segments}
  IN  \A from \in 0 .. Len(speech) - num_padding_frames :
        LET window == from .. from + num_padding_frames - 1
            voiced == {f \in window : speech[f + 1]}
        IN  Cardinality(voiced) * ThresholdDen > ThresholdNum * num_padding_frames =>
              window \subseteq kept \/ window \cap ends # {}

\* The times of a segment are those of its frames up to one frame, and they
\* tell the segments apart: transcribe.py gets them back in two batches and
\* sorts them by their start.
TimesTell ==
  \A i \in DOMAIN segments :
    LET s == segments[i]
    IN  /\ s.start \in Head(s.frames) - 1 .. Head(s.frames)
        /\ s.end \in Last(s.frames) .. Last(s.frames) + 1
        /\ i > 1 => segments[i - 1].start < s.start /\ segments[i - 1].end <= s.start

=============================================================================
