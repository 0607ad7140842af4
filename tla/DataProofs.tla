----------------------------- MODULE DataProofs -----------------------------
(***************************************************************************)
(* Theorems about the data of training: the alphabet on its way into the   *)
(* client, the Sample DB file, the cutting of a recording, all three of    *)
(* DataFormats, and the pool that augments samples, for every value of     *)
(* their constants.                                                        *)
(*                                                                         *)
(* The conversions are loops over data.  Their recursive functions are     *)
(* shown to exist with Recursion, what they compute with UpTo, which takes *)
(* the induction hypothesis as a set instead of an operator.               *)
(***************************************************************************)
EXTENDS DataFormats, LimitingPool, Integers, SequencesExt, FiniteSets, FiniteSetTheorems,
        SequenceTheorems, WellFoundedInduction, TLAPS

-----------------------------------------------------------------------------
(* Induction and recursive functions *)

\* Induction up to m: a set with 0 and with the successors of its members.
LEMMA UpTo ==
  ASSUME NEW m \in Nat, NEW S, 0 \in S, \A n \in 0 .. m - 1 : n \in S => n + 1 \in S
  PROVE  \A n \in 0 .. m : n \in S
<1> DEFINE B == {n \in 0 .. m : n \notin S}
           R == OpToRel(<, Nat)
<1> SUFFICES ASSUME B # {} PROVE FALSE
  OBVIOUS
<1>1. \A s, t \in Nat : t < s => <<t, s>> \in R
  BY DEF OpToRel
<1>a. IsWellFoundedOn(R, Nat)
  BY NatLessThanWellFounded
<1>b. B \subseteq Nat
  OBVIOUS
<1> HIDE DEF R
<1>3. PICK n \in B : \A k \in B : <<k, n>> \notin R
  <2> HIDE DEF B
  <2> QED BY <1>a, <1>b, WFMin
<1>4. n \in 1 .. m /\ n - 1 \in 0 .. m - 1 /\ n - 1 \in 0 .. m /\ n - 1 < n
  BY <1>3
<1>5. n - 1 \notin B
  <2>1. n \in Nat /\ n - 1 \in Nat
    BY <1>4
  <2>2. <<n - 1, n>> \in R
    BY <1>1, <1>4, <2>1
  <2> HIDE DEF B
  <2> QED BY <1>3, <2>2
<1>6. (n - 1) + 1 = n /\ n - 1 \in S
  BY <1>4, <1>5
<1> QED BY <1>3, <1>4, <1>6

\* f starts with b and goes on with g.
Iterates(f, m, V, b, g) ==
  f \in [0 .. m -> V] /\ f[0] = b /\ \A i \in 1 .. m : f[i] = g[<<f[i - 1], i>>]

\* A function on 0 .. m may be defined by recursion on its argument.
LEMMA Recursion ==
  ASSUME NEW m \in Nat, NEW V, NEW b \in V, NEW g \in [V \X (1 .. m) -> V]
  PROVE  \E f : Iterates(f, m, V, b, g)
<1> DEFINE Def(f, n) == f[0] = b /\ \A i \in 1 .. n : f[i] = g[<<f[i - 1], i>>]
           S == {n \in 0 .. m : \E f \in [0 .. n -> V] : Def(f, n)}
<1>1. 0 \in S
  <2> DEFINE f == [i \in 0 .. 0 |-> b]
  <2>1. f \in [0 .. 0 -> V] /\ Def(f, 0)
    OBVIOUS
  <2>2. \E h \in [0 .. 0 -> V] : Def(h, 0)
    BY <2>1
  <2> QED BY <2>2
<1>2. ASSUME NEW n \in 0 .. m - 1, n \in S PROVE n + 1 \in S
  <2>1. PICK f \in [0 .. n -> V] : Def(f, n)
    BY <1>2
  <2>2. n + 1 \in 1 .. m /\ n + 1 \in 0 .. m /\ f[n] \in V
    BY <2>1
  <2> DEFINE h == [i \in 0 .. n + 1 |-> IF i = n + 1 THEN g[<<f[n], n + 1>>] ELSE f[i]]
  <2>3. g[<<f[n], n + 1>>] \in V
    BY <2>2
  <2>4. h \in [0 .. n + 1 -> V] /\ h[0] = b
    BY <2>1, <2>3
  <2>5. ASSUME NEW i \in 1 .. n + 1 PROVE h[i] = g[<<h[i - 1], i>>]
    <3>1. CASE i = n + 1
      <4>1. i - 1 = n /\ h[n] = f[n] /\ h[n + 1] = g[<<f[n], n + 1>>]
        BY <3>1
      <4> HIDE DEF h
      <4> QED BY <3>1, <4>1
    <3>2. CASE i # n + 1
      <4>1. i \in 1 .. n /\ h[i] = f[i] /\ h[i - 1] = f[i - 1]
        BY <3>2
      <4> QED BY <2>1, <4>1
    <3> QED BY <3>1, <3>2
  <2>6. \E u \in [0 .. n + 1 -> V] : Def(u, n + 1)
    BY <2>4, <2>5
  <2> HIDE DEF Def
  <2> QED BY <2>2, <2>6
<1>3. m \in 0 .. m /\ (m \in S => \E f \in [0 .. m -> V] : Def(f, m))
  OBVIOUS
<1> HIDE DEF S
<1>4. m \in S
  BY <1>1, <1>2, <1>3, UpTo
<1> QED BY <1>3, <1>4 DEF Iterates

-----------------------------------------------------------------------------
(* The cutting of a recording *)

\* Frames that follow each other in the recording.
Consecutive(frames) == \A j \in 1 .. Len(frames) : frames[j] = frames[1] + j - 1

\* The last frame of the last segment yielded so far.
LastKept == IF segments = << >> THEN -1 ELSE Last(segments[Len(segments)].frames)

\* The ring buffer holds the newest frames, with what the detector said of them.
RingTail ==
  /\ ring_buffer \in Seq([frame : Nat, speech : BOOLEAN])
  /\ Len(ring_buffer) <= num_padding_frames /\ Len(ring_buffer) <= Len(speech)
  /\ \A i \in 1 .. Len(ring_buffer) :
       /\ ring_buffer[i].frame = Len(speech) - Len(ring_buffer) + i - 1
       /\ ring_buffer[i].speech = speech[Len(speech) - Len(ring_buffer) + i]

\* The frames being collected are the newest ones.
VoicedTail ==
  /\ voiced_frames \in Seq(Nat) /\ Len(voiced_frames) <= Len(speech)
  /\ \A j \in 1 .. Len(voiced_frames) :
       voiced_frames[j] = Len(speech) - Len(voiced_frames) + j - 1

\* Outside a segment the ring buffer reaches back to the last segment unless it
\* is full; a segment starts with such a ring buffer.
Reach ==
  LET since == Len(speech) - (LastKept + 1)
  IN  /\ since >= 0
      /\ ~triggered => /\ voiced_frames = << >>
                       /\ Len(ring_buffer) <= since
                       /\ Len(ring_buffer) = num_padding_frames \/ Len(ring_buffer) = since
      /\ triggered => /\ voiced_frames # << >>
                      /\ Len(voiced_frames) <= since
                      /\ Len(voiced_frames) >= num_padding_frames \/ Len(voiced_frames) = since

\* A segment and its times.
SegmentOK(s) ==
  /\ s \in [frames : Seq(Nat), start : Int, end : Nat]
  /\ s.frames # << >> /\ Consecutive(s.frames)
  /\ s.start \in s.frames[1] - 1 .. s.frames[1]
  /\ s.end \in Last(s.frames) .. Last(s.frames) + 1

\* A segment that silence ended has its end where it should be, and the frame
\* that triggered it as well as the one that ended it.
ClosedOK(s) == s.end = Last(s.frames) /\ Len(s.frames) >= 2

SegmentsOK ==
  /\ segments \in Seq([frames : Seq(Nat), start : Int, end : Nat])
  /\ \A i \in 1 .. Len(segments) : SegmentOK(segments[i])
  /\ \A i \in 1 .. Len(segments) : i < Len(segments) \/ ~ended => ClosedOK(segments[i])
  /\ \A i \in 2 .. Len(segments) :
       Last(segments[i - 1].frames) < segments[i].frames[1]

\* The inductive invariant; what happens after the recording's end is nothing.
VadInv ==
  /\ speech \in Seq(BOOLEAN) /\ triggered \in BOOLEAN /\ ended \in BOOLEAN
  /\ RingTail /\ VoicedTail /\ SegmentsOK
  /\ ~ended => Reach
  /\ Splitting!SpeechKept

LEMMA VadConstants ==
  /\ num_padding_frames \in Nat \ {0} /\ MaxFrames \in Nat
  /\ ThresholdNum \in Nat /\ ThresholdDen \in Nat \ {0}
BY DataAssumption DEF Splitting!VadAssumption

LEMMA VadInit == Splitting!Init => VadInv
<1> SUFFICES ASSUME Splitting!Init PROVE VadInv
  OBVIOUS
<1> USE VadConstants DEF Splitting!Init
<1>1. RingTail /\ VoicedTail
  BY DEF RingTail, VoicedTail
<1>2. SegmentsOK
  BY DEF SegmentsOK
<1>3. Reach
  BY DEF Reach, LastKept
<1>4. Splitting!SpeechKept
  <2>1. 0 .. Len(speech) - num_padding_frames = {}
    OBVIOUS
  <2> QED BY <2>1 DEF Splitting!SpeechKept
<1>5. speech \in Seq(BOOLEAN)
  OBVIOUS
<1>6. triggered \in BOOLEAN /\ ended \in BOOLEAN
  BY Zenon
<1> QED BY <1>1, <1>2, <1>3, <1>4, <1>5, <1>6 DEF VadInv

\* What the invariant says of the segments, one by one.
LEMMA VadSegments ==
  ASSUME VadInv
  PROVE  /\ segments \in Seq([frames : Seq(Nat), start : Int, end : Nat])
         /\ Len(segments) \in Nat /\ DOMAIN segments = 1 .. Len(segments)
BY DEF VadInv, SegmentsOK

LEMMA VadSegment ==
  ASSUME VadInv, NEW i \in 1 .. Len(segments)
  PROVE  /\ segments[i].frames \in Seq(Nat) /\ segments[i].frames # << >>
         /\ Len(segments[i].frames) \in Nat \ {0} /\ segments[i].frames[1] \in Nat
         /\ \A j \in 1 .. Len(segments[i].frames) :
              segments[i].frames[j] = segments[i].frames[1] + j - 1
         /\ Last(segments[i].frames) = segments[i].frames[1] + Len(segments[i].frames) - 1
         /\ Head(segments[i].frames) = segments[i].frames[1]
<1>1. SegmentOK(segments[i])
  BY DEF VadInv, SegmentsOK
<1>2. segments[i].frames \in Seq(Nat) /\ segments[i].frames # << >>
  BY <1>1 DEF SegmentOK
<1>3. /\ Len(segments[i].frames) \in Nat \ {0} /\ segments[i].frames[1] \in Nat
      /\ Head(segments[i].frames) = segments[i].frames[1]
  BY <1>2
<1>4. \A j \in 1 .. Len(segments[i].frames) :
        segments[i].frames[j] = segments[i].frames[1] + j - 1
  BY <1>1 DEF SegmentOK, Consecutive
<1>5. Last(segments[i].frames) = segments[i].frames[1] + Len(segments[i].frames) - 1
  <2> DEFINE f == segments[i].frames
  <2>1. Len(f) \in 1 .. Len(f)
    BY <1>3
  <2>2. \A j \in 1 .. Len(f) : f[j] = f[1] + j - 1
    BY <1>4
  <2> HIDE DEF f
  <2>3. f[Len(f)] = f[1] + Len(f) - 1
    BY <2>1, <2>2, Zenon
  <2> QED BY <2>3, Zenon DEF Last, f
<1> QED BY <1>2, <1>3, <1>4, <1>5

LEMMA VadTimes ==
  ASSUME VadInv, NEW i \in 1 .. Len(segments)
  PROVE  /\ segments[i].start \in Int /\ segments[i].end \in Nat
         /\ segments[i].start \in segments[i].frames[1] - 1 .. segments[i].frames[1]
         /\ segments[i].end \in Last(segments[i].frames) .. Last(segments[i].frames) + 1
         /\ i < Len(segments) \/ ~ended =>
              /\ segments[i].end = Last(segments[i].frames)
              /\ Len(segments[i].frames) >= 2
<1>1. SegmentOK(segments[i])
  BY DEF VadInv, SegmentsOK
<1>2. i < Len(segments) \/ ~ended => ClosedOK(segments[i])
  BY DEF VadInv, SegmentsOK
<1> QED BY <1>1, <1>2 DEF SegmentOK, ClosedOK

LEMMA VadOrder ==
  ASSUME VadInv, NEW i \in 2 .. Len(segments)
  PROVE  /\ i \in 1 .. Len(segments) /\ i - 1 \in 1 .. Len(segments)
         /\ Last(segments[i - 1].frames) < segments[i].frames[1]
<1>1. Last(segments[i - 1].frames) < segments[i].frames[1]
  BY DEF VadInv, SegmentsOK
<1>2. Len(segments) \in Nat
  BY VadSegments
<1> QED BY <1>1, <1>2

\* The invariant says what the run checks.
LEMMA VadSound == VadInv => SegmentsSound
<1> SUFFICES ASSUME VadInv PROVE SegmentsSound
  OBVIOUS
<1> USE VadConstants
<1>1. Splitting!TypeOK
  <2>1. \A i \in DOMAIN segments : segments[i].start \in Int /\ segments[i].end \in Nat
    BY VadTimes, VadSegments
  <2> QED BY <2>1 DEF VadInv, Splitting!TypeOK, RingTail, VoicedTail
<1>2. Splitting!SegmentsWhole
  <2> DEFINE collected == [i \in DOMAIN segments |-> segments[i].frames]
             parts == IF ended THEN collected ELSE Append(collected, voiced_frames)
  <2>0. voiced_frames \in Seq(Nat)
    BY DEF VadInv, VoicedTail
  <2>1. /\ collected \in Seq(Seq(Nat)) /\ Len(collected) = Len(segments)
        /\ \A i \in 1 .. Len(segments) : collected[i] = segments[i].frames
    <3>1. \A i \in DOMAIN segments : segments[i].frames \in Seq(Nat)
      BY VadSegments, VadSegment
    <3> QED BY <3>1, VadSegments
  <2>2. /\ parts \in Seq(Seq(Nat))
        /\ \A i \in 1 .. Len(segments) : parts[i] = segments[i].frames
        /\ Len(parts) = IF ended THEN Len(segments) ELSE Len(segments) + 1
        /\ ~ended => parts[Len(segments) + 1] = voiced_frames
    BY <2>0, <2>1, VadSegments
  <2> HIDE DEF parts
  <2>3. ASSUME NEW i \in DOMAIN parts, NEW j \in 2 .. Len(parts[i])
        PROVE  parts[i][j] = parts[i][j - 1] + 1
    <3>1. CASE i \in 1 .. Len(segments)
      <4>1. parts[i] = segments[i].frames
        BY <3>1, <2>2
      <4>2. Len(segments[i].frames) \in Nat
        BY <3>1, VadSegment
      <4>3. j \in 1 .. Len(segments[i].frames) /\ j - 1 \in 1 .. Len(segments[i].frames)
        BY <4>1, <4>2
      <4>4. /\ segments[i].frames[j] = segments[i].frames[1] + j - 1
            /\ segments[i].frames[j - 1] = segments[i].frames[1] + (j - 1) - 1
            /\ segments[i].frames[1] \in Nat
        BY <3>1, <4>3, VadSegment
      <4> QED BY <4>1, <4>4, <4>2
    <3>2. CASE i \notin 1 .. Len(segments)
      <4>1. ~ended /\ parts[i] = voiced_frames
        <5>a. DOMAIN parts = 1 .. Len(parts)
          BY <2>2, LenProperties, Zenon
        <5>b. i \in 1 .. Len(parts)
          BY <5>a, Zenon
        <5>1. Len(segments) \in Nat /\ i \in 1 .. Len(parts)
          BY <5>b, VadSegments, Zenon
        <5>2. ~ended
          BY <3>2, <2>2, <5>1
        <5>3. i = Len(segments) + 1
          BY <3>2, <2>2, <5>1, <5>2
        <5> QED BY <2>2, <5>2, <5>3, Zenon
      <4>2. j \in 1 .. Len(voiced_frames) /\ j - 1 \in 1 .. Len(voiced_frames)
        BY <4>1, <2>0
      <4> QED BY <4>1, <4>2, <2>0 DEF VadInv, VoicedTail
    <3> QED BY <3>1, <3>2
  <2>4. ASSUME NEW i \in DOMAIN segments, i < Len(parts), parts[i + 1] # << >>
        PROVE  Last(parts[i]) < Head(parts[i + 1])
    <3>0. i \in 1 .. Len(segments) /\ parts[i] = segments[i].frames
      BY <2>2, VadSegments
    <3>1. CASE i < Len(segments)
      <4>1. i + 1 \in 2 .. Len(segments) /\ i + 1 \in 1 .. Len(segments) /\ i + 1 - 1 = i
        BY <3>0, <3>1, VadSegments
      <4>2. Last(segments[i].frames) < segments[i + 1].frames[1]
        BY <4>1, VadOrder
      <4>3. Head(segments[i + 1].frames) = segments[i + 1].frames[1]
        BY <4>1, VadSegment
      <4> QED BY <3>0, <4>1, <4>2, <4>3, <2>2
    <3>2. CASE i = Len(segments)
      <4>1. ~ended /\ parts[i + 1] = voiced_frames /\ segments # << >>
        BY <3>0, <3>2, <2>4, <2>2, VadSegments
      <4>2. Last(parts[i]) = LastKept
        BY <4>1, <3>0, <3>2 DEF LastKept
      <4>3. Head(voiced_frames) = Len(speech) - Len(voiced_frames)
        BY <4>1, <2>4 DEF VadInv, VoicedTail
      <4>4. LastKept \in Int
        BY <4>2, <3>0, VadSegment
      <4> QED BY <4>1, <4>2, <4>3, <4>4, <2>4 DEF VadInv, Reach, VoicedTail
    <3> QED BY <3>0, <3>1, <3>2, VadSegments
  <2>5. \A i \in DOMAIN parts : \A j \in 2 .. Len(parts[i]) :
           parts[i][j] = parts[i][j - 1] + 1
    BY <2>3
  <2>6. \A i \in DOMAIN segments : i < Len(parts) /\ parts[i + 1] # << >> =>
           Splitting!Last(parts[i]) < Head(parts[i + 1])
    BY <2>4 DEF Last, Splitting!Last
  <2> QED BY <2>5, <2>6, Zenon DEF Splitting!SegmentsWhole, parts
<1>3. Splitting!TimesTell
  <2> SUFFICES ASSUME NEW i \in 1 .. Len(segments)
               PROVE  /\ segments[i].start \in Head(segments[i].frames) - 1 .. Head(segments[i].frames)
                      /\ segments[i].end \in Last(segments[i].frames) .. Last(segments[i].frames) + 1
                      /\ i > 1 => /\ segments[i - 1].start < segments[i].start
                                  /\ segments[i - 1].end <= segments[i].start
    BY VadSegments DEF Splitting!TimesTell, Last, Splitting!Last
  <2>1. ASSUME i > 1
        PROVE  /\ segments[i - 1].start < segments[i].start
               /\ segments[i - 1].end <= segments[i].start
    <3>1. i \in 2 .. Len(segments) /\ i - 1 \in 1 .. Len(segments) /\ i - 1 < Len(segments)
      BY <2>1, VadSegments
    <3>2. /\ segments[i - 1].start <= segments[i - 1].frames[1]
          /\ segments[i - 1].end = Last(segments[i - 1].frames)
          /\ Len(segments[i - 1].frames) >= 2
          /\ segments[i - 1].start \in Int /\ segments[i - 1].frames[1] \in Nat
      BY <3>1, VadTimes, VadSegment
    <3>3. /\ Last(segments[i - 1].frames) = segments[i - 1].frames[1] + Len(segments[i - 1].frames) - 1
          /\ Len(segments[i - 1].frames) \in Nat
      BY <3>1, VadSegment
    <3>4. Last(segments[i - 1].frames) < segments[i].frames[1] /\ segments[i].frames[1] \in Nat
      BY <3>1, VadOrder, VadSegment
    <3>5. segments[i].start \in segments[i].frames[1] - 1 .. segments[i].frames[1]
      BY VadTimes
    <3>6. segments[i].frames[1] - 1 <= segments[i].start /\ segments[i].start \in Int
      BY <3>5, <3>4
    <3>7. segments[i - 1].end < segments[i].frames[1]
      BY <3>2, <3>4
    <3>8. segments[i - 1].start < segments[i - 1].end /\ segments[i - 1].end \in Int
      BY <3>2, <3>3
    <3> QED BY <3>2, <3>4, <3>6, <3>7, <3>8
  <2> QED BY <2>1, VadSegment, VadTimes
<1> QED BY <1>1, <1>2, <1>3 DEF SegmentsSound, VadInv

-----------------------------------------------------------------------------
\* The frames in segments, the frames that ended one, and a window of the
\* recording with the speech in it.
Kept ==
  (UNION {Range(segments[i].frames) : i \in DOMAIN segments}) \cup Range(voiced_frames)
Ends == {Last(segments[i].frames) : i \in DOMAIN segments}
Window(from) == from .. from + num_padding_frames - 1
Voiced(from) == {f \in Window(from) : speech[f + 1]}
MostlyVoiced(from) ==
  Splitting!Cardinality(Voiced(from)) * ThresholdDen > ThresholdNum * num_padding_frames
WindowKept(from) ==
  MostlyVoiced(from) => Window(from) \subseteq Kept \/ Window(from) \cap Ends # {}

\* The splitter's cardinality is the library's.
LEMMA SameCardinality == \A S : Splitting!Cardinality(S) = Cardinality(S)
BY Zenon DEF Splitting!Cardinality, Cardinality

LEMMA SpeechKeptWindows ==
  Splitting!SpeechKept <=> \A from \in 0 .. Len(speech) - num_padding_frames : WindowKept(from)
<1>1. /\ Kept = (UNION {Splitting!Range(segments[i].frames) : i \in DOMAIN segments})
                   \cup Splitting!Range(voiced_frames)
      /\ Ends = {Splitting!Last(segments[i].frames) : i \in DOMAIN segments}
  BY Zenon DEF Kept, Ends, Range, Last, Splitting!Range, Splitting!Last
<1>2. Splitting!SpeechKept <=>
        \A from \in 0 .. Len(speech) - num_padding_frames :
          Splitting!Cardinality({f \in from .. from + num_padding_frames - 1 : speech[f + 1]}) * ThresholdDen
              > ThresholdNum * num_padding_frames =>
            \/ from .. from + num_padding_frames - 1 \subseteq Kept
            \/ (from .. from + num_padding_frames - 1) \cap Ends # {}
  BY <1>1 DEF Splitting!SpeechKept
<1> QED BY <1>2 DEF WindowKept, MostlyVoiced, Voiced, Window

\* Only the window that the new frame completes is new.
LEMMA WindowsStep ==
  ASSUME VadInv, NEW is_speech \in BOOLEAN, speech' = Append(speech, is_speech),
         Kept \subseteq Kept', Ends \subseteq Ends',
         \A from \in Nat : from = Len(speech) + 1 - num_padding_frames => WindowKept(from)'
  PROVE  Splitting!SpeechKept'
<1> USE VadConstants
<1>1. speech \in Seq(BOOLEAN) /\ Len(speech) \in Nat /\ Len(speech') = Len(speech) + 1
  BY DEF VadInv
<1>2. ASSUME NEW from \in 0 .. Len(speech') - num_padding_frames PROVE WindowKept(from)'
  <2>1. CASE from = Len(speech) + 1 - num_padding_frames
    BY <2>1, <1>1
  <2>2. CASE from # Len(speech) + 1 - num_padding_frames
    <3>1. from \in 0 .. Len(speech) - num_padding_frames
      BY <2>2, <1>1
    <3>2. WindowKept(from)
      BY <3>1, SpeechKeptWindows DEF VadInv
    <3>3. ASSUME NEW f \in Window(from) PROVE speech'[f + 1] = speech[f + 1]
      <4>1. f + 1 \in 1 .. Len(speech)
        BY <3>1, <1>1 DEF Window
      <4> QED BY <4>1, <1>1
    <3>4. Voiced(from)' = Voiced(from) /\ Window(from)' = Window(from)
      BY <3>3 DEF Voiced, Window
    <3> QED BY <3>2, <3>4 DEF WindowKept, MostlyVoiced
  <2> QED BY <2>1, <2>2
<1>3. (Splitting!SpeechKept <=>
         \A from \in 0 .. Len(speech) - num_padding_frames : WindowKept(from))'
  BY SpeechKeptWindows, PTL
<1> QED BY <1>2, <1>3

\* What push leaves in the ring buffer: the newest frames, one more if it was
\* not full.
LEMMA PushOK ==
  ASSUME VadInv, NEW is_speech \in BOOLEAN, NEW ring,
         ring = Splitting!Push([frame |-> Splitting!frame_index, speech |-> is_speech])
  PROVE  /\ ring \in Seq([frame : Nat, speech : BOOLEAN]) /\ Len(ring) \in Nat \ {0}
         /\ Len(ring) <= num_padding_frames /\ Len(ring) <= Len(speech) + 1
         /\ Len(ring) = num_padding_frames \/ Len(ring) = Len(ring_buffer) + 1
         /\ Len(ring) <= Len(ring_buffer) + 1
         /\ \A i \in 1 .. Len(ring) :
              /\ ring[i].frame = (Len(speech) + 1) - Len(ring) + i - 1
              /\ ring[i].speech = Append(speech, is_speech)[(Len(speech) + 1) - Len(ring) + i]
<1> USE VadConstants
<1> DEFINE item == [frame |-> Len(speech), speech |-> is_speech]
           all == Append(ring_buffer, item)
           R == [frame : Nat, speech : BOOLEAN]
           now == Append(speech, is_speech)
<1>1. /\ ring_buffer \in Seq(R) /\ speech \in Seq(BOOLEAN) /\ Len(speech) \in Nat
      /\ Len(ring_buffer) \in Nat /\ Len(ring_buffer) <= Len(speech)
      /\ Len(ring_buffer) <= num_padding_frames
  BY DEF VadInv, RingTail
<1>2. item \in R
  BY <1>1
<1>3. ring = IF Len(all) > num_padding_frames THEN Tail(all) ELSE all
  BY DEF Splitting!Push, Splitting!frame_index
<1>4. /\ all \in Seq(R) /\ Len(all) = Len(ring_buffer) + 1
      /\ \A i \in 1 .. Len(ring_buffer) : all[i] = ring_buffer[i]
      /\ all[Len(ring_buffer) + 1] = item
  BY <1>1, <1>2
<1>5. /\ now \in Seq(BOOLEAN) /\ Len(now) = Len(speech) + 1
      /\ \A k \in 1 .. Len(speech) : now[k] = speech[k]
      /\ now[Len(speech) + 1] = is_speech
  BY <1>1
<1>6. ASSUME NEW i \in 1 .. Len(all)
      PROVE  /\ all[i].frame = (Len(speech) + 1) - Len(all) + i - 1
             /\ all[i].speech = now[(Len(speech) + 1) - Len(all) + i]
  <2>1. CASE i = Len(ring_buffer) + 1
    BY <2>1, <1>1, <1>4, <1>5
  <2>2. CASE i # Len(ring_buffer) + 1
    <3>1. i \in 1 .. Len(ring_buffer)
      BY <2>2, <1>1, <1>4
    <3>2. /\ ring_buffer[i].frame = Len(speech) - Len(ring_buffer) + i - 1
          /\ ring_buffer[i].speech = speech[Len(speech) - Len(ring_buffer) + i]
      BY <3>1 DEF VadInv, RingTail
    <3>3. Len(speech) - Len(ring_buffer) + i \in 1 .. Len(speech)
      BY <3>1, <1>1
    <3>4. (Len(speech) + 1) - Len(all) + i = Len(speech) - Len(ring_buffer) + i
      BY <1>1, <1>4, <3>1
    <3> QED BY <3>1, <3>2, <3>3, <3>4, <1>4, <1>5
  <2> QED BY <2>1, <2>2
<1> HIDE DEF item, all, now
<1>7. CASE Len(all) > num_padding_frames
  <2>a. ring = Tail(all)
    BY <1>3, <1>7, Zenon
  <2>b. Len(all) \in Nat /\ Len(all) # 0
    BY <1>1, <1>4
  <2>c. Len(<< >>) = 0
    OBVIOUS
  <2>1. ring = Tail(all) /\ all # << >> /\ Len(all) \in Nat
    BY <2>a, <2>b, <2>c, Zenon
  <2>2. /\ ring \in Seq(R) /\ Len(ring) = Len(all) - 1
        /\ \A i \in 1 .. Len(ring) : ring[i] = all[i + 1] /\ i + 1 \in 1 .. Len(all)
    <3>1. /\ Tail(all) \in Seq(R) /\ Len(Tail(all)) = Len(all) - 1
          /\ \A i \in 1 .. Len(Tail(all)) : Tail(all)[i] = all[i + 1]
      <4> HIDE DEF R
      <4> QED BY <2>1, <1>4, HeadTailProperties, Zenon
    <3>2. Len(ring) = Len(all) - 1 /\ Len(all) \in Nat
      BY <3>1, <2>1
    <3>3. \A i \in 1 .. Len(ring) : i + 1 \in 1 .. Len(all)
      BY <3>2
    <3> QED BY <3>1, <3>2, <3>3, <2>1
  <2>3. Len(ring) = num_padding_frames
    BY <2>2, <1>7, <1>1, <1>4
  <2>4. ASSUME NEW i \in 1 .. Len(ring)
        PROVE  /\ ring[i].frame = (Len(speech) + 1) - Len(ring) + i - 1
               /\ ring[i].speech = now[(Len(speech) + 1) - Len(ring) + i]
    <3>1. (Len(speech) + 1) - Len(all) + (i + 1) = (Len(speech) + 1) - Len(ring) + i
      <4>1. Len(ring) = Len(all) - 1 /\ Len(all) \in Int /\ i \in Int /\ Len(speech) \in Int
        BY <2>1, <2>2, <1>1
      <4> QED BY <4>1
    <3>2. /\ all[i + 1].frame = (Len(speech) + 1) - Len(all) + (i + 1) - 1
          /\ all[i + 1].speech = now[(Len(speech) + 1) - Len(all) + (i + 1)]
      BY <2>2, <1>6
    <3> QED BY <3>1, <3>2, <2>2
  <2>5. /\ Len(ring) \in Nat \ {0} /\ Len(ring) <= Len(speech) + 1
        /\ Len(ring) <= Len(ring_buffer) + 1
    BY <2>3, <1>1, <1>4, <1>7
  <2>6. \A i \in 1 .. Len(ring) :
          /\ ring[i].frame = (Len(speech) + 1) - Len(ring) + i - 1
          /\ ring[i].speech = Append(speech, is_speech)[(Len(speech) + 1) - Len(ring) + i]
    BY <2>4, Zenon DEF now
  <2>7. Len(ring) <= num_padding_frames
    BY <2>3
  <2> QED BY <2>2, <2>3, <2>5, <2>6, <2>7, Zenon
<1>8. CASE ~(Len(all) > num_padding_frames)
  <2>1. ring = all
    BY <1>3, <1>8
  <2>2. /\ Len(ring) \in Nat \ {0} /\ Len(ring) <= Len(speech) + 1
        /\ Len(ring) = Len(ring_buffer) + 1 /\ Len(ring) <= num_padding_frames
    BY <2>1, <1>8, <1>1, <1>4
  <2>3. ring \in Seq(R)
    BY <2>1, <1>4
  <2>4. \A i \in 1 .. Len(ring) :
          /\ ring[i].frame = (Len(speech) + 1) - Len(ring) + i - 1
          /\ ring[i].speech = now[(Len(speech) + 1) - Len(ring) + i]
    BY <2>1, <1>6
  <2>5. \A i \in 1 .. Len(ring) :
          /\ ring[i].frame = (Len(speech) + 1) - Len(ring) + i - 1
          /\ ring[i].speech = Append(speech, is_speech)[(Len(speech) + 1) - Len(ring) + i]
    BY <2>4, Zenon DEF now
  <2>6. Len(ring) <= Len(ring_buffer) + 1
    BY <2>2
  <2> QED BY <2>2, <2>3, <2>5, <2>6, Zenon
<1> QED BY <1>7, <1>8

LEMMA LastKeptInt ==
  ASSUME VadInv
  PROVE  LastKept \in Int /\ (LastKept # -1 => LastKept \in Ends)
<1>1. CASE segments = << >>
  BY <1>1 DEF LastKept
<1>2. CASE segments # << >>
  <2>1. Len(segments) \in 1 .. Len(segments) /\ DOMAIN segments = 1 .. Len(segments)
    BY <1>2, VadSegments
  <2>2. LastKept = Last(segments[Len(segments)].frames)
    BY <1>2 DEF LastKept
  <2>3. LastKept \in Int
    BY <2>1, <2>2, VadSegment
  <2> QED BY <2>1, <2>2, <2>3 DEF Ends
<1> QED BY <1>1, <1>2

\* Counted over a full ring buffer or over the window of its frames, speech is
\* the same.
LEMMA RingCount ==
  ASSUME VadInv, NEW is_speech \in BOOLEAN, NEW ring,
         ring = Splitting!Push([frame |-> Splitting!frame_index, speech |-> is_speech]),
         Len(ring) = num_padding_frames, speech' = Append(speech, is_speech),
         NEW from \in Nat, from = Len(speech) + 1 - num_padding_frames
  PROVE  MostlyVoiced(from)' <=> Splitting!Most(ring, TRUE)
<1> USE VadConstants
<1> DEFINE S == {i \in DOMAIN ring : ring[i].speech = TRUE}
           T == {f \in Window(from) : speech'[f + 1]}
           g == [i \in S |-> from + i - 1]
<1>1. /\ Len(speech) \in Nat /\ ring \in Seq([frame : Nat, speech : BOOLEAN])
      /\ DOMAIN ring = 1 .. num_padding_frames
      /\ \A i \in 1 .. num_padding_frames : ring[i].speech \in BOOLEAN
  <2>1. ring \in Seq([frame : Nat, speech : BOOLEAN])
    BY PushOK
  <2>2. Len(speech) \in Nat
    BY DEF VadInv
  <2>3. DOMAIN ring = 1 .. num_padding_frames
    BY <2>1
  <2>4. \A i \in 1 .. num_padding_frames : ring[i] \in [frame : Nat, speech : BOOLEAN]
    <3> DEFINE R == [frame : Nat, speech : BOOLEAN]
    <3> HIDE DEF R
    <3>1. ring \in Seq(R)
      BY <2>1 DEF R
    <3>2. \A i \in 1 .. num_padding_frames : ring[i] \in R
      BY <3>1
    <3> QED BY <3>2 DEF R
  <2>5. \A i \in 1 .. num_padding_frames : ring[i].speech \in BOOLEAN
    BY <2>4, Zenon
  <2> QED BY <2>1, <2>2, <2>3, <2>5, Zenon
<1>2. \A i \in 1 .. num_padding_frames : ring[i].speech = speech'[from + i]
  <2> SUFFICES ASSUME NEW i \in 1 .. num_padding_frames PROVE ring[i].speech = speech'[from + i]
    OBVIOUS
  <2>a. Len(speech) \in Nat
    BY <1>1, Zenon
  <2>1. (Len(speech) + 1) - Len(ring) + i = from + i
    BY <2>a
  <2>2. ring[i].speech = Append(speech, is_speech)[(Len(speech) + 1) - Len(ring) + i]
    BY PushOK
  <2> QED BY <2>1, <2>2, Zenon
<1>a. \A f \in Window(from) : f - from + 1 \in 1 .. num_padding_frames /\ from + (f - from + 1) = f + 1
  BY DEF Window
<1>b. \A i \in 1 .. num_padding_frames : from + i - 1 \in Window(from) /\ (from + i - 1) + 1 = from + i
  BY DEF Window
<1>3. \A i \in S : g[i] \in T
  <2> SUFFICES ASSUME NEW i \in S PROVE g[i] \in T
    OBVIOUS
  <2>1. i \in 1 .. num_padding_frames /\ ring[i].speech = TRUE /\ g[i] = from + i - 1
    BY <1>1
  <2>2. speech'[(from + i - 1) + 1] = TRUE
    BY <2>1, <1>2, <1>b, Zenon
  <2>3. from + i - 1 \in Window(from)
    BY <2>1, <1>b
  <2> QED BY <2>1, <2>2, <2>3, Zenon
<1>4. \A i, j \in S : g[i] = g[j] => i = j
  BY <1>1
<1>5. \A f \in T : \E i \in S : g[i] = f
  <2> SUFFICES ASSUME NEW f \in T PROVE \E i \in S : g[i] = f
    OBVIOUS
  <2>1. f - from + 1 \in 1 .. num_padding_frames /\ speech'[f + 1] /\ f \in Int
    BY <1>a DEF Window
  <2>2. ring[f - from + 1].speech = speech'[f + 1]
    BY <2>1, <1>2, <1>a
  <2>3. ring[f - from + 1].speech \in BOOLEAN
    BY <2>1, <1>1, Zenon
  <2>4. f - from + 1 \in S
    BY <2>1, <2>2, <2>3, <1>1
  <2>5. from + (f - from + 1) - 1 = f
    BY <2>1
  <2> QED BY <2>4, <2>5
<1>6. g \in Bijection(S, T)
  BY <1>3, <1>4, <1>5 DEF Bijection, Injection, Surjection, IsInjective
<1>7. IsFiniteSet(S)
  <2>1. IsFiniteSet(1 .. num_padding_frames)
    BY FS_Interval
  <2> QED BY <2>1, <1>1, FS_Subset
<1>8. Cardinality(S) = Cardinality(T)
  BY <1>6, <1>7, FS_Bijection, Zenon DEF ExistsBijection
<1>9. Voiced(from)' = T
  BY DEF Voiced, Window
<1> QED BY <1>8, <1>9, SameCardinality DEF MostlyVoiced, Splitting!Most

\* The last frames that a full ring buffer or the collected frames do not hold
\* belong to a segment that ended among them.
LEMMA EndInWindow ==
  ASSUME VadInv, NEW from \in Nat, from = Len(speech) + 1 - num_padding_frames,
         NEW n \in Nat, n < num_padding_frames, n = Len(speech) - LastKept
  PROVE  Window(from) \cap Ends # {}
<1>1. Len(speech) \in Nat /\ LastKept \in Int
  BY LastKeptInt DEF VadInv
<1>2. LastKept \in Window(from) /\ LastKept # -1
  BY <1>1, VadConstants DEF Window
<1> QED BY <1>2, LastKeptInt

LEMMA VadUntriggered ==
  ASSUME VadInv, NEW is_speech \in BOOLEAN, Splitting!Frame(is_speech),
         Splitting!Untriggered(is_speech)
  PROVE  VadInv'
<1> USE VadConstants
<1> DEFINE ring == Splitting!Push([frame |-> Splitting!frame_index, speech |-> is_speech])
           v == [i \in DOMAIN ring |-> ring[i].frame]
<1>1. /\ ~ended /\ ended' = ended /\ ~triggered /\ segments' = segments
      /\ speech' = Append(speech, is_speech)
  BY DEF Splitting!Frame, Splitting!Untriggered
<1>2. /\ speech \in Seq(BOOLEAN) /\ Len(speech) \in Nat
      /\ speech' \in Seq(BOOLEAN) /\ Len(speech') = Len(speech) + 1
  BY <1>1 DEF VadInv
<1>3. /\ LastKept' = LastKept /\ LastKept \in Int /\ SegmentsOK'
  BY <1>1, LastKeptInt DEF VadInv, SegmentsOK, LastKept
<1>4. /\ voiced_frames = << >> /\ Len(ring_buffer) \in Nat
      /\ Len(ring_buffer) <= Len(speech) - (LastKept + 1)
      /\ \/ Len(ring_buffer) = num_padding_frames
         \/ Len(ring_buffer) = Len(speech) - (LastKept + 1)
  BY <1>1 DEF VadInv, Reach, RingTail
<1>5. /\ ring \in Seq([frame : Nat, speech : BOOLEAN]) /\ Len(ring) \in Nat \ {0}
      /\ Len(ring) <= num_padding_frames /\ Len(ring) <= Len(speech) + 1
      /\ Len(ring) = num_padding_frames \/ Len(ring) = Len(ring_buffer) + 1
      /\ Len(ring) <= Len(ring_buffer) + 1
  BY PushOK
<1>6. \A i \in 1 .. Len(ring) :
        /\ ring[i].frame = Len(speech') - Len(ring) + i - 1
        /\ ring[i].speech = speech'[Len(speech') - Len(ring) + i]
  <2>1. \A i \in 1 .. Len(ring) :
          /\ ring[i].frame = (Len(speech) + 1) - Len(ring) + i - 1
          /\ ring[i].speech = Append(speech, is_speech)[(Len(speech) + 1) - Len(ring) + i]
    BY PushOK
  <2> HIDE DEF ring
  <2>2. Len(speech') = Len(speech) + 1 /\ speech' = Append(speech, is_speech)
    BY <1>1, <1>2
  <2> QED BY <2>1, <2>2, Zenon
<1>7. \/ Len(ring) = num_padding_frames
      \/ Len(ring) < num_padding_frames /\ Len(ring) = Len(speech) - LastKept
  BY <1>2, <1>3, <1>4, <1>5
<1>8. Len(ring) <= Len(speech) - LastKept
  BY <1>2, <1>3, <1>4, <1>5
<1>9. triggered' \in BOOLEAN /\ ended' \in BOOLEAN
  <2>1. triggered' = TRUE \/ triggered' = triggered
    BY DEF Splitting!Untriggered
  <2> QED BY <1>1, <2>1, Zenon DEF VadInv
<1> HIDE DEF ring
<1>10. ASSUME NEW from \in Nat, from = Len(speech) + 1 - num_padding_frames,
              Len(ring) # num_padding_frames
       PROVE  Window(from) \cap Ends # {}
  BY <1>10, <1>5, <1>7, EndInWindow
<1>11. Ends' = Ends /\ Kept \subseteq Kept'
  <2>1. Range(<< >>) = {}
    BY DEF Range
  <2> QED BY <1>1, <1>4, <2>1 DEF Ends, Kept
<1>12. CASE Splitting!Most(ring, TRUE)
  <2>1. /\ triggered' = TRUE /\ ring_buffer' = << >> /\ voiced_frames' = << >> \o v
    BY <1>12, <1>4 DEF Splitting!Untriggered, ring
  <2>2. /\ v \in Seq(Nat) /\ Len(v) = Len(ring)
        /\ \A j \in 1 .. Len(v) : v[j] = Len(speech') - Len(v) + j - 1
    <3>1. \A i \in 1 .. Len(ring) : ring[i].frame = Len(speech') - Len(ring) + i - 1
      BY <1>6
    <3>2. DOMAIN ring = 1 .. Len(ring)
      BY <1>5
    <3>3. \A i \in 1 .. Len(ring) : ring[i].frame \in Nat
      BY <3>1, <1>5, <1>2
    <3>4. Len(ring) \in Nat
      BY <1>5
    <3>5. v = [i \in 1 .. Len(ring) |-> ring[i].frame]
      BY <3>2
    <3>6. v \in Seq(Nat) /\ Len(v) = Len(ring)
      BY <3>3, <3>4, <3>5
    <3> QED BY <3>1, <3>5, <3>6
  <2> HIDE DEF v
  <2>3. voiced_frames' = v
    BY <2>1, <2>2
  <2>4. RingTail'
    BY <1>2, <2>1 DEF RingTail
  <2>5. VoicedTail'
    BY <1>2, <1>5, <2>2, <2>3 DEF VoicedTail
  <2>6. Reach'
    <3>1. voiced_frames' # << >>
      BY <2>2, <2>3, <1>5
    <3> QED BY <1>2, <1>3, <1>5, <1>7, <1>8, <2>1, <2>2, <2>3, <3>1 DEF Reach
  <2>7. ASSUME NEW from \in Nat, from = Len(speech) + 1 - num_padding_frames
        PROVE  WindowKept(from)'
    <3>1. CASE Len(ring) = num_padding_frames
      <4>1. ASSUME NEW f \in Window(from) PROVE f \in Range(v)
        <5>1. f - from + 1 \in 1 .. Len(v) /\ f \in Int
          BY <3>1, <2>2, <1>5 DEF Window
        <5>2. v[f - from + 1] = f
          BY <5>1, <2>2, <2>7, <1>2, <3>1
        <5>3. f - from + 1 \in DOMAIN v
          BY <5>1, <2>2
        <5> QED BY <5>2, <5>3 DEF Range
      <4>2. Range(v) \subseteq Kept'
        BY <2>3 DEF Kept
      <4>3. Window(from)' = Window(from)
        BY DEF Window
      <4> QED BY <4>1, <4>2, <4>3 DEF WindowKept
    <3>2. CASE Len(ring) # num_padding_frames
      <4>1. Window(from)' = Window(from)
        BY DEF Window
      <4> QED BY <4>1, <3>2, <2>7, <1>10, <1>11 DEF WindowKept
    <3> QED BY <3>1, <3>2
  <2>8. Splitting!SpeechKept'
    BY <2>7, <1>1, <1>11, WindowsStep
  <2> QED BY <1>2, <1>3, <1>9, <2>4, <2>5, <2>6, <2>8 DEF VadInv
<1>13. CASE ~Splitting!Most(ring, TRUE)
  <2>1. /\ triggered' = triggered /\ ring_buffer' = ring /\ voiced_frames' = voiced_frames
    BY <1>13 DEF Splitting!Untriggered, ring
  <2>4. RingTail'
    BY <1>2, <1>5, <1>6, <2>1 DEF RingTail
  <2>5. VoicedTail'
    BY <1>2, <1>4, <2>1 DEF VoicedTail
  <2>6. Reach'
    BY <1>1, <1>2, <1>3, <1>4, <1>5, <1>7, <1>8, <2>1 DEF Reach
  <2>7. ASSUME NEW from \in Nat, from = Len(speech) + 1 - num_padding_frames
        PROVE  WindowKept(from)'
    <3>1. CASE Len(ring) = num_padding_frames
      <4>1. ~MostlyVoiced(from)'
        BY <3>1, <2>7, <1>1, <1>13, RingCount DEF ring
      <4> QED BY <4>1 DEF WindowKept
    <3>2. CASE Len(ring) # num_padding_frames
      <4>1. Window(from)' = Window(from)
        BY DEF Window
      <4> QED BY <4>1, <3>2, <2>7, <1>10, <1>11 DEF WindowKept
    <3> QED BY <3>1, <3>2
  <2>8. Splitting!SpeechKept'
    BY <2>7, <1>1, <1>11, WindowsStep
  <2> QED BY <1>2, <1>3, <1>9, <2>4, <2>5, <2>6, <2>8 DEF VadInv
<1> QED BY <1>12, <1>13

\* One more segment, after all others.
LEMMA AppendSegment ==
  ASSUME VadInv, ~ended, NEW s, SegmentOK(s), segments' = Append(segments, s),
         LastKept < s.frames[1], ended' \in BOOLEAN, ~ended' => ClosedOK(s)
  PROVE  /\ SegmentsOK' /\ LastKept' = Last(s.frames) /\ Ends \subseteq Ends'
         /\ Kept \subseteq Kept' \cup Range(voiced_frames) /\ Range(s.frames) \subseteq Kept'
<1> DEFINE R == [frames : Seq(Nat), start : Int, end : Nat]
           n == Len(segments)
<1>1. segments \in Seq(R) /\ n \in Nat /\ DOMAIN segments = 1 .. n /\ s \in R
  BY VadSegments DEF SegmentOK
<1> HIDE DEF R
<1>2. /\ segments' \in Seq(R) /\ Len(segments') = n + 1 /\ DOMAIN segments' = 1 .. n + 1
      /\ segments'[n + 1] = s /\ \A i \in 1 .. n : segments'[i] = segments[i]
      /\ segments' # << >>
  BY <1>1
<1>3. SegmentsOK'
  <2>1. ASSUME NEW i \in 1 .. n + 1 PROVE SegmentOK(segments'[i])
    <3>1. CASE i = n + 1
      BY <3>1, <1>2
    <3>2. CASE i # n + 1
      <4>1. i \in 1 .. n
        BY <3>2, <1>1
      <4> QED BY <4>1, <1>2 DEF VadInv, SegmentsOK
    <3> QED BY <3>1, <3>2
  <2>2. ASSUME NEW i \in 1 .. n + 1, i < n + 1 \/ ~ended' PROVE ClosedOK(segments'[i])
    <3>1. CASE i = n + 1
      BY <3>1, <2>2, <1>1, <1>2
    <3>2. CASE i # n + 1
      <4>1. i \in 1 .. n
        BY <3>2, <1>1
      <4> QED BY <4>1, <1>2 DEF VadInv, SegmentsOK
    <3> QED BY <3>1, <3>2
  <2>3. ASSUME NEW i \in 2 .. n + 1
        PROVE  Last(segments'[i - 1].frames) < segments'[i].frames[1]
    <3>1. CASE i = n + 1
      <4>1. segments # << >> /\ i - 1 = n /\ n \in 1 .. n
        BY <3>1, <1>1
      <4>2. LastKept = Last(segments'[n].frames)
        BY <4>1, <1>2 DEF LastKept
      <4> QED BY <4>1, <4>2, <3>1, <1>2
    <3>2. CASE i # n + 1
      <4>1. i \in 2 .. n /\ i \in 1 .. n /\ i - 1 \in 1 .. n
        BY <3>2, <1>1
      <4> QED BY <4>1, <1>2, VadOrder
    <3> QED BY <3>1, <3>2
  <2>4. segments' \in Seq([frames : Seq(Nat), start : Int, end : Nat])
    BY <1>2 DEF R
  <2>5. /\ \A i \in 1 .. Len(segments') : SegmentOK(segments'[i])
        /\ \A i \in 1 .. Len(segments') : i < Len(segments') \/ ~ended' => ClosedOK(segments'[i])
        /\ \A i \in 2 .. Len(segments') :
             Last(segments'[i - 1].frames) < segments'[i].frames[1]
    BY <2>1, <2>2, <2>3, <1>2
  <2> QED BY <2>4, <2>5, Zenon DEF SegmentsOK, SegmentOK, ClosedOK, Consecutive, Last
<1>4. LastKept' = Last(s.frames)
  BY <1>2 DEF LastKept, Last
<1>5. Ends \subseteq Ends'
  <2> SUFFICES ASSUME NEW i \in 1 .. n PROVE Last(segments[i].frames) \in Ends'
    BY <1>1 DEF Ends
  <2>1. segments'[i] = segments[i] /\ i \in DOMAIN segments'
    BY <1>1, <1>2
  <2> QED BY <2>1 DEF Ends, Last
<1>6. ASSUME NEW i \in 1 .. n PROVE Range(segments[i].frames) \subseteq Kept'
  <2>1. segments'[i] = segments[i] /\ i \in DOMAIN segments'
    BY <1>1, <1>2
  <2>2. Range(segments'[i].frames) \in {Range(segments'[k].frames) : k \in DOMAIN segments'}
    BY <2>1
  <2> QED BY <2>1, <2>2 DEF Kept, Range
<1>7. Range(s.frames) \subseteq Kept'
  <2>1. segments'[n + 1] = s /\ n + 1 \in DOMAIN segments'
    BY <1>1, <1>2
  <2>2. Range(segments'[n + 1].frames) \in {Range(segments'[k].frames) : k \in DOMAIN segments'}
    BY <2>1
  <2> QED BY <2>1, <2>2 DEF Kept, Range
<1>8. Kept \subseteq Kept' \cup Range(voiced_frames)
  <2> SUFFICES ASSUME NEW f \in Kept, f \notin Range(voiced_frames) PROVE f \in Kept'
    OBVIOUS
  <2>1. PICK i \in 1 .. n : f \in Range(segments[i].frames)
    BY <1>1, Zenon DEF Kept
  <2> QED BY <2>1, <1>6
<1> QED BY <1>3, <1>4, <1>5, <1>7, <1>8

LEMMA VadTriggered ==
  ASSUME VadInv, NEW is_speech \in BOOLEAN, Splitting!Frame(is_speech),
         Splitting!Triggered(is_speech)
  PROVE  VadInv'
<1> USE VadConstants
<1> DEFINE ring == Splitting!Push([frame |-> Splitting!frame_index, speech |-> is_speech])
           v == Append(voiced_frames, Len(speech))
<1>1. /\ ~ended /\ ended' = ended /\ triggered /\ speech' = Append(speech, is_speech)
  BY DEF Splitting!Frame, Splitting!Triggered
<1>2. /\ speech \in Seq(BOOLEAN) /\ Len(speech) \in Nat
      /\ speech' \in Seq(BOOLEAN) /\ Len(speech') = Len(speech) + 1
  BY <1>1 DEF VadInv
<1>3. LastKept \in Int
  BY LastKeptInt
<1>4. /\ voiced_frames \in Seq(Nat) /\ Len(voiced_frames) \in Nat \ {0}
      /\ Len(voiced_frames) <= Len(speech) - (LastKept + 1)
      /\ \/ Len(voiced_frames) >= num_padding_frames
         \/ Len(voiced_frames) = Len(speech) - (LastKept + 1)
      /\ Len(voiced_frames) <= Len(speech)
  BY <1>1 DEF VadInv, Reach, VoicedTail
<1>5. /\ ring \in Seq([frame : Nat, speech : BOOLEAN]) /\ Len(ring) \in Nat \ {0}
      /\ Len(ring) <= num_padding_frames /\ Len(ring) <= Len(speech) + 1
  BY PushOK
<1>6. \A i \in 1 .. Len(ring) :
        /\ ring[i].frame = Len(speech') - Len(ring) + i - 1
        /\ ring[i].speech = speech'[Len(speech') - Len(ring) + i]
  <2>1. \A i \in 1 .. Len(ring) :
          /\ ring[i].frame = (Len(speech) + 1) - Len(ring) + i - 1
          /\ ring[i].speech = Append(speech, is_speech)[(Len(speech) + 1) - Len(ring) + i]
    BY PushOK
  <2> HIDE DEF ring
  <2>2. Len(speech') = Len(speech) + 1 /\ speech' = Append(speech, is_speech)
    BY <1>1, <1>2
  <2> QED BY <2>1, <2>2, Zenon
<1>7. /\ v \in Seq(Nat) /\ Len(v) = Len(voiced_frames) + 1 /\ v # << >>
      /\ \A j \in 1 .. Len(v) : v[j] = Len(speech') - Len(v) + j - 1
  <2>1. /\ v \in Seq(Nat) /\ Len(v) = Len(voiced_frames) + 1 /\ v # << >>
        /\ \A j \in 1 .. Len(voiced_frames) : v[j] = voiced_frames[j]
        /\ v[Len(voiced_frames) + 1] = Len(speech)
    BY <1>2, <1>4
  <2>2. \A j \in 1 .. Len(voiced_frames) :
          voiced_frames[j] = Len(speech) - Len(voiced_frames) + j - 1
    BY DEF VadInv, VoicedTail
  <2> HIDE DEF v
  <2>3. ASSUME NEW j \in 1 .. Len(v) PROVE v[j] = Len(speech') - Len(v) + j - 1
    <3>1. CASE j = Len(voiced_frames) + 1
      BY <3>1, <2>1, <1>2, <1>4
    <3>2. CASE j # Len(voiced_frames) + 1
      <4>1. j \in 1 .. Len(voiced_frames)
        BY <3>2, <2>1, <1>4
      <4>2. Len(speech') - Len(v) = Len(speech) - Len(voiced_frames)
        BY <2>1, <1>2, <1>4
      <4> QED BY <4>1, <4>2, <2>1, <2>2
    <3> QED BY <3>1, <3>2
  <2> QED BY <2>1, <2>3
<1>8. triggered' \in BOOLEAN /\ ended' \in BOOLEAN
  <2>1. triggered' = FALSE \/ triggered' = triggered
    BY DEF Splitting!Triggered
  <2> QED BY <1>1, <2>1, Zenon DEF VadInv
<1>9. Range(voiced_frames) \subseteq Range(v)
  <2> SUFFICES ASSUME NEW j \in DOMAIN voiced_frames PROVE voiced_frames[j] \in Range(v)
    BY DEF Range
  <2>1. j \in DOMAIN v /\ v[j] = voiced_frames[j]
    BY <1>2, <1>4
  <2> QED BY <2>1 DEF Range
<1> HIDE DEF ring, v
<1>a. Len(v) \in Nat /\ Len(v) <= Len(speech') /\ Len(v) >= 2
  BY <1>2, <1>4, <1>7
<1>10. ASSUME NEW from \in Nat, from = Len(speech) + 1 - num_padding_frames
       PROVE  Window(from) \subseteq Range(v) \/ Window(from) \cap Ends # {}
  <2>1. CASE Len(v) >= num_padding_frames
    <3>1. ASSUME NEW f \in Window(from) PROVE f \in Range(v)
      <4> DEFINE j == f - (Len(speech') - Len(v)) + 1
      <4>1. j \in 1 .. Len(v) /\ f \in Int
        BY <2>1, <1>7, <1>2, <1>10, <1>4 DEF Window
      <4>2. v[j] = Len(speech') - Len(v) + j - 1
        BY <4>1, <1>7
      <4>3. v[j] = f
        BY <4>1, <4>2, <1>7, <1>2, <1>4
      <4>4. j \in DOMAIN v
        BY <4>1, <1>7
      <4> HIDE DEF j
      <4> QED BY <4>3, <4>4 DEF Range
    <3> QED BY <3>1
  <2>2. CASE ~(Len(v) >= num_padding_frames)
    <3>1. Len(v) \in Nat /\ Len(v) < num_padding_frames /\ Len(v) = Len(speech) - LastKept
      BY <2>2, <1>2, <1>3, <1>4, <1>7
    <3> QED BY <3>1, <1>10, EndInWindow
  <2> QED BY <2>1, <2>2
<1>11. CASE Splitting!Most(ring, FALSE)
  <2> DEFINE s == [frames |-> v, start |-> Splitting!Start(v), end |-> Len(speech)]
  <2>1. /\ triggered' = FALSE /\ ring_buffer' = << >> /\ voiced_frames' = << >>
        /\ segments' = Append(segments, s)
    BY <1>11 DEF Splitting!Triggered, Splitting!Cleared, Splitting!frame_index, ring, v
  <2>2. /\ v[1] = Len(speech) - Len(voiced_frames) /\ v[1] \in Nat
        /\ Last(v) = Len(speech) /\ Len(v) >= 2
    <3>1. 1 \in 1 .. Len(v) /\ Len(v) \in 1 .. Len(v)
      BY <1>a
    <3>2. /\ v[1] = Len(speech') - Len(v) + 1 - 1
          /\ v[Len(v)] = Len(speech') - Len(v) + Len(v) - 1
      BY <3>1, <1>7
    <3>3. Len(v) = Len(voiced_frames) + 1
      BY <1>7
    <3> QED BY <3>2, <3>3, <1>a, <1>2, <1>4 DEF Last
  <2>3. Splitting!Start(v) \in v[1] - 1 .. v[1] /\ Splitting!Start(v) \in Int
    BY <2>2, <1>2, <1>4, <1>7 DEF Splitting!Start, Splitting!frame_index
  <2>4. Consecutive(v)
    BY <1>2, <1>4, <1>7, <2>2 DEF Consecutive
  <2>5. SegmentOK(s) /\ ClosedOK(s)
    BY <1>2, <1>7, <2>2, <2>3, <2>4 DEF SegmentOK, ClosedOK
  <2>6. LastKept < s.frames[1]
    BY <1>2, <1>3, <1>4, <2>2
  <2>7. /\ SegmentsOK' /\ LastKept' = Last(s.frames) /\ Ends \subseteq Ends'
        /\ Kept \subseteq Kept' \cup Range(voiced_frames) /\ Range(s.frames) \subseteq Kept'
    <3> HIDE DEF s
    <3> QED BY <1>1, <1>8, <2>1, <2>5, <2>6, AppendSegment
  <2>8. Kept \subseteq Kept' /\ Range(v) \subseteq Kept'
    BY <2>7, <1>9
  <2>9. RingTail' /\ VoicedTail'
    BY <1>2, <2>1 DEF RingTail, VoicedTail
  <2>10. Reach'
    BY <1>2, <2>1, <2>2, <2>7 DEF Reach
  <2>11. ASSUME NEW from \in Nat, from = Len(speech) + 1 - num_padding_frames
         PROVE  WindowKept(from)'
    <3>1. Window(from)' = Window(from)
      BY DEF Window
    <3> QED BY <3>1, <2>7, <2>8, <2>11, <1>10 DEF WindowKept
  <2>12. Splitting!SpeechKept'
    BY <2>7, <2>8, <2>11, <1>1, WindowsStep
  <2> QED BY <1>2, <1>8, <2>7, <2>9, <2>10, <2>12 DEF VadInv
<1>12. CASE ~Splitting!Most(ring, FALSE)
  <2>1. /\ triggered' = triggered /\ ring_buffer' = ring /\ voiced_frames' = v
        /\ segments' = segments
    BY <1>12 DEF Splitting!Triggered, Splitting!frame_index, ring, v
  <2>2. SegmentsOK' /\ LastKept' = LastKept /\ Ends' = Ends
    BY <1>1, <2>1 DEF VadInv, SegmentsOK, LastKept, Ends
  <2>3. Kept \subseteq Kept' /\ Range(v) \subseteq Kept'
    BY <1>9, <2>1 DEF Kept
  <2>4. RingTail'
    BY <1>2, <1>5, <1>6, <2>1 DEF RingTail
  <2>5. VoicedTail'
    BY <1>7, <1>a, <2>1 DEF VoicedTail
  <2>6. Reach'
    <3>1. Len(v) = Len(voiced_frames) + 1 /\ v # << >>
      BY <1>7
    <3>2. Len(speech') - (LastKept' + 1) = Len(speech) - (LastKept + 1) + 1
      BY <1>2, <1>3, <2>2
    <3>3. /\ Len(v) <= Len(speech') - (LastKept' + 1)
          /\ \/ Len(v) >= num_padding_frames
             \/ Len(v) = Len(speech') - (LastKept' + 1)
          /\ Len(speech') - (LastKept' + 1) >= 0
      BY <1>2, <1>3, <1>4, <3>1, <3>2
    <3> QED BY <1>1, <3>1, <3>3, <2>1, Zenon DEF Reach
  <2>7. ASSUME NEW from \in Nat, from = Len(speech) + 1 - num_padding_frames
         PROVE  WindowKept(from)'
    <3>1. Window(from)' = Window(from)
      BY DEF Window
    <3> QED BY <3>1, <2>2, <2>3, <2>7, <1>10 DEF WindowKept
  <2>8. Splitting!SpeechKept'
    BY <2>2, <2>3, <2>7, <1>1, WindowsStep
  <2> QED BY <1>2, <1>8, <2>2, <2>4, <2>5, <2>6, <2>8 DEF VadInv
<1> QED BY <1>11, <1>12

LEMMA VadEnd == ASSUME VadInv, Splitting!End PROVE VadInv'
<1> USE VadConstants
<1>1. /\ ~ended /\ ended' = TRUE
      /\ UNCHANGED <<speech, ring_buffer, triggered, voiced_frames>>
  BY DEF Splitting!End
<1>2. RingTail' /\ VoicedTail' /\ speech' \in Seq(BOOLEAN)
  BY <1>1 DEF VadInv, RingTail, VoicedTail
<1>3. triggered' \in BOOLEAN /\ ended' \in BOOLEAN
  BY <1>1, Zenon DEF VadInv
<1>4. ASSUME SegmentsOK', Ends \subseteq Ends', Kept \subseteq Kept' PROVE VadInv'
  <2>1. (Splitting!SpeechKept <=>
           \A from \in 0 .. Len(speech) - num_padding_frames : WindowKept(from))'
    BY SpeechKeptWindows, PTL
  <2>2. ASSUME NEW from \in 0 .. Len(speech) - num_padding_frames PROVE WindowKept(from)'
    <3>1. WindowKept(from)
      BY SpeechKeptWindows DEF VadInv
    <3>2. Window(from)' = Window(from) /\ Voiced(from)' = Voiced(from)
      BY <1>1 DEF Window, Voiced
    <3> QED BY <3>1, <3>2, <1>4 DEF WindowKept, MostlyVoiced
  <2> QED BY <1>1, <1>2, <1>3, <1>4, <2>1, <2>2 DEF VadInv
<1>5. CASE voiced_frames = << >>
  <2>1. segments' = segments
    BY <1>5 DEF Splitting!End
  <2>2. SegmentsOK'
    BY <1>1, <2>1 DEF VadInv, SegmentsOK
  <2> QED BY <1>1, <1>4, <2>1, <2>2 DEF Ends, Kept
<1>6. CASE voiced_frames # << >>
  <2> DEFINE n == Len(voiced_frames)
             s == [frames |-> voiced_frames, start |-> (Len(speech) - 1) - n,
                   end |-> (Len(speech) - 1) + 1]
  <2>1. segments' = Append(segments, s)
    BY <1>6 DEF Splitting!End
  <2>2. /\ voiced_frames \in Seq(Nat) /\ n \in Nat \ {0} /\ n <= Len(speech) /\ Len(speech) \in Nat
        /\ \A j \in 1 .. n : voiced_frames[j] = Len(speech) - n + j - 1
    BY <1>6 DEF VadInv, VoicedTail
  <2>3. /\ voiced_frames[1] = Len(speech) - n /\ Last(voiced_frames) = Len(speech) - 1
    BY <2>2 DEF Last
  <2>4. Consecutive(voiced_frames)
    BY <2>2, <2>3 DEF Consecutive
  <2>5. SegmentOK(s)
    BY <1>6, <2>2, <2>3, <2>4 DEF SegmentOK
  <2>6. triggered /\ LastKept < s.frames[1]
    <3>1. Reach /\ triggered
      BY <1>1, <1>6 DEF VadInv, Reach
    <3> QED BY <3>1, <2>2, <2>3, LastKeptInt DEF Reach
  <2>7. /\ SegmentsOK' /\ Ends \subseteq Ends' /\ Kept \subseteq Kept' \cup Range(voiced_frames)
    <3> HIDE DEF s
    <3> QED BY <1>1, <1>3, <2>1, <2>5, <2>6, AppendSegment
  <2>8. Range(voiced_frames) \subseteq Kept'
    BY <1>1 DEF Kept
  <2> QED BY <1>4, <2>7, <2>8
<1> QED BY <1>5, <1>6

LEMMA VadStep == VadInv /\ [Splitting!Next]_vadVars => VadInv'
<1> SUFFICES ASSUME VadInv, [Splitting!Next]_vadVars PROVE VadInv'
  OBVIOUS
<1>1. CASE Splitting!Next
  BY <1>1, VadUntriggered, VadTriggered, VadEnd DEF Splitting!Next, Splitting!Frame
<1>2. CASE UNCHANGED vadVars
  <2> USE <1>2 DEF vadVars
  <2>1. RingTail' /\ VoicedTail'
    BY DEF VadInv, RingTail, VoicedTail
  <2>2. SegmentsOK' /\ (~ended => Reach)'
    BY DEF VadInv, SegmentsOK, Reach, LastKept
  <2>3. Splitting!SpeechKept'
    BY DEF VadInv, Splitting!SpeechKept
  <2> QED BY <2>1, <2>2, <2>3 DEF VadInv
<1> QED BY <1>1, <1>2
-----------------------------------------------------------------------------
\* The splitter's part of the composed specification.
LEMMA VadPart ==
  /\ DataInit => VadInv
  /\ VadInv /\ [DataNext]_dataVars => VadInv'
BY VadInit, VadStep DEF DataInit, DataNext, dataVars, vadVars

\* The segments that vad_split yields are uninterrupted, apart and in order with
\* their times, and no window of speech is lost, for every recording, padding
\* and threshold.
THEOREM SegmentsAreSound == DataSpec => []SegmentsSound
BY VadPart, VadSound, PTL DEF DataSpec
-----------------------------------------------------------------------------
(* The alphabet *)

LEMMA AlphabetConstants ==
  /\ Files \subseteq Seq(DOMAIN Size)
  /\ \A f \in Files : Len(f) < Alphabets!Uint16Values
  /\ \A f \in Files : \A i \in DOMAIN f : Alphabets!Unescaped(f[i]) \in DOMAIN Size
  /\ \A f \in Files : \A i \in DOMAIN f : Size[Alphabets!Unescaped(f[i])] \in 0 .. Alphabets!Uint16Values - 1
<1> USE DataAssumption DEF Alphabets!AlphabetAssumption
<1>1. Files \subseteq Seq(DOMAIN Size) /\ \A f \in Files : Len(f) < Alphabets!Uint16Values
  OBVIOUS
<1>2. ASSUME NEW f \in Files, NEW i \in DOMAIN f
      PROVE  /\ Alphabets!Unescaped(f[i]) \in DOMAIN Size
             /\ Size[Alphabets!Unescaped(f[i])] \in 0 .. Alphabets!Uint16Values - 1
  <2>1. f[i] \in Alphabets!Range(f)
    BY DEF Alphabets!Range
  <2> QED BY <2>1
<1> QED BY <1>1, <1>2

\* The offsets of the fields of a buffer are the sums of the sizes before them.
LEMMA OffsetsProps ==
  ASSUME NEW fields, Len(fields) \in Nat, \A n \in 1 .. Len(fields) : fields[n].size \in Nat
  PROVE  /\ Alphabets!Offsets(fields) \in [0 .. Len(fields) -> Nat]
         /\ Alphabets!Offsets(fields)[0] = 0
         /\ \A n \in 1 .. Len(fields) :
              Alphabets!Offsets(fields)[n] = Alphabets!Offsets(fields)[n - 1] + fields[n].size
<1> DEFINE m == Len(fields)
           g == [x \in Nat \X (1 .. m) |-> x[1] + fields[x[2]].size]
<1>1. g \in [Nat \X (1 .. m) -> Nat]
  OBVIOUS
<1>2. PICK f \in [0 .. m -> Nat] : f[0] = 0 /\ \A i \in 1 .. m : f[i] = g[<<f[i - 1], i>>]
  <2> HIDE DEF g, m
  <2>1. m \in Nat /\ 0 \in Nat
    BY DEF m
  <2>2. \E f : Iterates(f, m, Nat, 0, g)
    BY <1>1, <2>1, Recursion
  <2> QED BY <2>2 DEF Iterates
<1>3. \A i \in 1 .. m : f[i] = f[i - 1] + fields[i].size
  <2> SUFFICES ASSUME NEW i \in 1 .. m PROVE f[i] = f[i - 1] + fields[i].size
    OBVIOUS
  <2>1. <<f[i - 1], i>> \in Nat \X (1 .. m)
    BY <1>2
  <2> QED BY <2>1, <1>2
<1>4. f = [n \in 0 .. m |-> IF n = 0 THEN 0 ELSE f[n - 1] + fields[n].size]
  BY <1>2, <1>3
<1> HIDE DEF m, g
<1>5. Alphabets!Offsets(fields) =
        [n \in 0 .. m |-> IF n = 0 THEN 0 ELSE Alphabets!Offsets(fields)[n - 1] + fields[n].size]
  BY <1>4 DEF Alphabets!Offsets, m
<1> DEFINE a == Alphabets!Offsets(fields)
<1> HIDE DEF a
<1>6. a = [n \in 0 .. m |-> IF n = 0 THEN 0 ELSE a[n - 1] + fields[n].size]
  BY <1>5 DEF a
<1>7. a[0] = 0 /\ \A n \in 1 .. m : a[n] = a[n - 1] + fields[n].size
  <2>1. m \in Nat
    BY DEF m
  <2> QED BY <1>6, <2>1
<1> DEFINE S == {n \in 0 .. m : a[n] \in Nat}
<1>8. \A n \in 0 .. m : n \in S
  <2>1. m \in Nat /\ 0 \in S
    BY <1>7 DEF m
  <2>2. ASSUME NEW n \in 0 .. m - 1, n \in S PROVE n + 1 \in S
    <3>1. n + 1 \in 1 .. m /\ n + 1 \in 0 .. m /\ (n + 1) - 1 = n /\ a[n] \in Nat
      BY <2>1, <2>2
    <3>2. a[n + 1] = a[n] + fields[n + 1].size /\ fields[n + 1].size \in Nat
      BY <3>1, <1>7 DEF m
    <3> QED BY <3>1, <3>2
  <2> HIDE DEF S
  <2> QED BY <2>1, <2>2, UpTo
<1>9. a \in [0 .. m -> Nat]
  BY <1>6, <1>8
<1> QED BY <1>7, <1>9 DEF a, m

\* The two maps of an alphabet agree, up to strings with several labels, and
\* the space has a label of the string " ".
Consistent(a) ==
  /\ a.label_to_str = [l \in DOMAIN a.label_to_str |-> a.label_to_str[l]]
  /\ a.str_to_label = [str \in DOMAIN a.str_to_label |-> a.str_to_label[str]]
  /\ DOMAIN a.str_to_label = {a.label_to_str[l] : l \in DOMAIN a.label_to_str}
  /\ \A str \in DOMAIN a.str_to_label :
       /\ a.str_to_label[str] \in DOMAIN a.label_to_str
       /\ a.label_to_str[a.str_to_label[str]] = str
  /\ " " \in DOMAIN a.str_to_label => a.space_label = a.str_to_label[" "]

\* The training side: labels without gaps, few and short enough for 16 bits.
SourceOK ==
  /\ source.size \in Nat /\ lines \in Seq(DOMAIN Size)
  /\ source.size + Len(lines) < Alphabets!Uint16Values
  /\ \A i \in DOMAIN lines :
       /\ Alphabets!Unescaped(lines[i]) \in DOMAIN Size
       /\ Size[Alphabets!Unescaped(lines[i])] \in 0 .. Alphabets!Uint16Values - 1
  /\ DOMAIN source.label_to_str = 0 .. source.size - 1
  /\ \A l \in 0 .. source.size - 1 :
       /\ source.label_to_str[l] # ""
       /\ source.label_to_str[l] \in DOMAIN Size
       /\ Size[source.label_to_str[l]] \in 0 .. Alphabets!Uint16Values - 1
  /\ Consistent(source)

\* The pairs in the buffer, and the label of the t-th.
Fields == [kind : {"uint16", "string"}, value : Nat \cup DOMAIN Size, size : Nat]
Pairs == source.size - Cardinality(pending)
LabelAt(t) == buffer[3 * t - 1].value
PairAt(t) ==
  /\ LabelAt(t) \in (0 .. source.size - 1) \ pending
  /\ buffer[3 * t - 1].kind = "uint16" /\ buffer[3 * t].kind = "uint16"
  /\ buffer[3 * t + 1].kind = "string"
  /\ buffer[3 * t + 1].value = source.label_to_str[LabelAt(t)]

\* What Serialize wrote: every label that is not pending, once.
BufferOK ==
  /\ lines = << >> /\ pending \subseteq 0 .. source.size - 1
  /\ buffer \in Seq(Fields) /\ Len(buffer) = 1 + 3 * Pairs
  /\ buffer[1].kind = "uint16" /\ buffer[1].value = source.size
  /\ \A t \in 1 .. Pairs : PairAt(t)
  /\ \A t, u \in 1 .. Pairs : LabelAt(t) = LabelAt(u) => t = u
  /\ \A l \in (0 .. source.size - 1) \ pending : \E t \in 1 .. Pairs : LabelAt(t) = l

\* The client before it reads anything.
TargetEmpty ==
  /\ target.size = 0 /\ target.label_to_str = Alphabets!Empty
  /\ target.str_to_label = Alphabets!Empty
  /\ offset = 0 /\ next = 1 /\ buffer_size = 0

\* Deserialize between two fields: it has entered the pairs it has read.
TargetOK ==
  /\ pending = {}
  /\ buffer_size \in 0 .. Alphabets!Length(buffer)
  /\ next \in 1 .. Len(buffer) + 1
  /\ offset = Alphabets!Offsets(buffer)[next - 1] /\ offset <= buffer_size
  /\ target.size = (IF next = 1 THEN 0 ELSE source.size)
  /\ DOMAIN target.label_to_str = {LabelAt(t) : t \in {u \in 1 .. source.size : 3 * u + 1 < next}}
  /\ \A l \in DOMAIN target.label_to_str : target.label_to_str[l] = source.label_to_str[l]
  /\ Consistent(target)

\* A record with the members of an Alphabet.
IsAlphabet(a) ==
  a = [size |-> a.size, space_label |-> a.space_label, label_to_str |-> a.label_to_str,
       str_to_label |-> a.str_to_label]

\* The inductive invariant.
AlphabetInv ==
  /\ pc \in {"init", "serialize", "deserialize", "ok", "error"}
  /\ IsAlphabet(target)
  /\ SourceOK
  /\ pc = "init" => buffer = << >>
  /\ pc # "init" => BufferOK
  /\ pc \in {"init", "serialize"} => TargetEmpty
  /\ pc \in {"deserialize", "ok", "error"} => TargetOK
  /\ pc = "ok" => next = Len(buffer) + 1

\* The fields of a buffer have sizes, so that they have offsets.
LEMMA BufferOffsets ==
  ASSUME buffer \in Seq(Fields)
  PROVE  /\ Len(buffer) \in Nat /\ \A n \in 1 .. Len(buffer) : buffer[n].size \in Nat
         /\ Alphabets!Offsets(buffer) \in [0 .. Len(buffer) -> Nat]
         /\ Alphabets!Offsets(buffer)[0] = 0
         /\ \A n \in 1 .. Len(buffer) :
              Alphabets!Offsets(buffer)[n] = Alphabets!Offsets(buffer)[n - 1] + buffer[n].size
         /\ Alphabets!Length(buffer) = Alphabets!Offsets(buffer)[Len(buffer)]
<1>1. Len(buffer) \in Nat /\ \A n \in 1 .. Len(buffer) : buffer[n] \in Fields
  OBVIOUS
<1>2. \A n \in 1 .. Len(buffer) : buffer[n].size \in Nat
  BY <1>1 DEF Fields
<1> QED BY <1>1, <1>2, OffsetsProps DEF Alphabets!Length

LEMMA AlphabetInit == Alphabets!Init => AlphabetInv
<1> SUFFICES ASSUME Alphabets!Init PROVE AlphabetInv
  OBVIOUS
<1> USE DEF Alphabets!Init
<1>1. lines \in Files /\ lines \in Seq(DOMAIN Size) /\ Len(lines) \in Nat
  BY AlphabetConstants
<1>2. /\ source.size = 0 /\ source.label_to_str = Alphabets!Empty
      /\ source.str_to_label = Alphabets!Empty
  OBVIOUS
<1>3. DOMAIN Alphabets!Empty = {}
  BY DEF Alphabets!Empty
<1>4. Consistent(source)
  BY <1>2, <1>3 DEF Consistent, Alphabets!Empty
<1>5. SourceOK
  BY <1>1, <1>2, <1>3, <1>4, AlphabetConstants DEF SourceOK
<1>6. IsAlphabet(target) /\ TargetEmpty
  BY <1>2 DEF IsAlphabet, TargetEmpty
<1> QED BY <1>5, <1>6 DEF AlphabetInv

\* The invariant says what the run checks.
LEMMA AlphabetSound == AlphabetInv => AlphabetRestored
<1> SUFFICES ASSUME AlphabetInv PROVE AlphabetRestored
  OBVIOUS
<1>a. SourceOK
  BY DEF AlphabetInv
<1>1. Alphabets!TypeOK
  <2>1. pc \in {"init", "serialize"} => offset \in Nat /\ next \in 1 .. Len(buffer) + 1
    <3>1. pc = "init" => Len(buffer) = 0
      BY DEF AlphabetInv
    <3>2. pc = "serialize" => Len(buffer) \in Nat
      BY DEF AlphabetInv, BufferOK
    <3> QED BY <3>1, <3>2 DEF AlphabetInv, TargetEmpty
  <2>2. pc \in {"deserialize", "ok", "error"} => offset \in Nat /\ next \in 1 .. Len(buffer) + 1
    <3> SUFFICES ASSUME pc \in {"deserialize", "ok", "error"}
                 PROVE  offset \in Nat /\ next \in 1 .. Len(buffer) + 1
      OBVIOUS
    <3>1. BufferOK /\ TargetOK
      BY DEF AlphabetInv
    <3>2. buffer \in Seq(Fields) /\ next \in 1 .. Len(buffer) + 1
      BY <3>1 DEF BufferOK, TargetOK
    <3>3. Len(buffer) \in Nat
      BY <3>2
    <3>4. offset = Alphabets!Offsets(buffer)[next - 1] /\ next - 1 \in 0 .. Len(buffer)
      BY <3>1, <3>2, <3>3 DEF TargetOK
    <3> QED BY <3>2, <3>3, <3>4, BufferOffsets
  <2> QED BY <1>a, <2>1, <2>2 DEF AlphabetInv, SourceOK, Alphabets!TypeOK
<1>2. ASSUME pc = "ok" PROVE BufferOK /\ TargetOK /\ next = Len(buffer) + 1
  BY <1>2 DEF AlphabetInv
<1>3. Alphabets!CutBuffersRefused
  <2>1. pc \in {"deserialize", "ok", "error"} => offset <= buffer_size
    BY DEF AlphabetInv, TargetOK
  <2>2. ASSUME pc = "ok" PROVE buffer_size = Alphabets!Length(buffer)
    <3>1. buffer \in Seq(Fields) /\ Len(buffer) \in Nat
      BY <1>2, <2>2 DEF BufferOK
    <3>2. offset = Alphabets!Length(buffer)
      <4>1. next - 1 = Len(buffer)
        BY <1>2, <2>2, <3>1
      <4> QED BY <1>2, <2>2, <4>1 DEF TargetOK, Alphabets!Length
    <3>4. Alphabets!Length(buffer) \in Nat
      BY <3>1, BufferOffsets
    <3> QED BY <1>2, <2>2, <3>2, <3>4 DEF TargetOK
  <2> QED BY <2>1, <2>2 DEF Alphabets!CutBuffersRefused
<1>4. ASSUME pc = "ok" PROVE Consistent(source) /\ Consistent(target) /\ target.size = source.size
                             /\ target.label_to_str = source.label_to_str
  <2> USE <1>4
  <2>1. Consistent(source) /\ Consistent(target)
    BY <1>2, <1>a DEF TargetOK, SourceOK
  <2>2. Pairs = source.size /\ source.size \in Nat /\ next = 2 + 3 * source.size
    <3>1. Cardinality(pending) = 0 /\ source.size \in Nat
      BY <1>2, <1>a, FS_EmptySet DEF TargetOK, SourceOK
    <3>2. Pairs = source.size
      BY <3>1 DEF Pairs
    <3>3. Len(buffer) = 1 + 3 * source.size
      BY <1>2, <3>2 DEF BufferOK
    <3> QED BY <1>2, <3>1, <3>2, <3>3
  <2>3. {u \in 1 .. source.size : 3 * u + 1 < next} = 1 .. source.size
    BY <2>2
  <2>4. DOMAIN target.label_to_str = 0 .. source.size - 1
    <3>1. DOMAIN target.label_to_str = {LabelAt(t) : t \in 1 .. source.size}
      BY <1>2, <2>3 DEF TargetOK
    <3>2. \A t \in 1 .. source.size : LabelAt(t) \in 0 .. source.size - 1
      BY <1>2, <2>2 DEF BufferOK, PairAt
    <3>3. \A l \in 0 .. source.size - 1 : \E t \in 1 .. source.size : LabelAt(t) = l
      BY <1>2, <2>2 DEF BufferOK, TargetOK
    <3> QED BY <3>1, <3>2, <3>3
  <2>5. target.label_to_str = source.label_to_str
    <3>1. \A l \in 0 .. source.size - 1 : target.label_to_str[l] = source.label_to_str[l]
      BY <1>2, <2>4 DEF TargetOK
    <3>2. DOMAIN source.label_to_str = 0 .. source.size - 1
      BY <1>a DEF SourceOK
    <3>3. /\ source.label_to_str = [l \in 0 .. source.size - 1 |-> source.label_to_str[l]]
          /\ target.label_to_str = [l \in 0 .. source.size - 1 |-> target.label_to_str[l]]
      BY <2>1, <2>4, <3>2, Zenon DEF Consistent
    <3> QED BY <3>1, <3>3
  <2>6. target.size = source.size
    BY <1>2, <2>2 DEF TargetOK
  <2> QED BY <2>1, <2>5, <2>6
<1>5. Alphabets!RoundTrip
  <2> SUFFICES ASSUME pc = "ok"
               PROVE  /\ target.size = source.size
                      /\ target.label_to_str = source.label_to_str
                      /\ DOMAIN target.str_to_label = DOMAIN source.str_to_label
                      /\ \A str \in DOMAIN target.str_to_label :
                           /\ target.str_to_label[str] \in DOMAIN source.label_to_str
                           /\ source.label_to_str[target.str_to_label[str]] = str
                      /\ " " \in DOMAIN source.str_to_label =>
                           target.space_label = target.str_to_label[" "]
                      /\ Alphabets!IsInjective(source.label_to_str) =>
                           /\ target.str_to_label = source.str_to_label
                           /\ " " \in DOMAIN source.str_to_label =>
                                target.space_label = source.space_label
    BY DEF Alphabets!RoundTrip
  <2>1. DOMAIN target.str_to_label = DOMAIN source.str_to_label
    <3>1. /\ DOMAIN source.str_to_label =
               {source.label_to_str[l] : l \in DOMAIN source.label_to_str}
          /\ DOMAIN target.str_to_label =
               {target.label_to_str[l] : l \in DOMAIN target.label_to_str}
      BY <1>4, Zenon DEF Consistent
    <3> QED BY <1>4, <3>1, Zenon
  <2>2. \A str \in DOMAIN target.str_to_label :
          /\ target.str_to_label[str] \in DOMAIN source.label_to_str
          /\ source.label_to_str[target.str_to_label[str]] = str
    <3>1. \A str \in DOMAIN target.str_to_label :
            /\ target.str_to_label[str] \in DOMAIN target.label_to_str
            /\ target.label_to_str[target.str_to_label[str]] = str
      BY <1>4 DEF Consistent
    <3> QED BY <1>4, <3>1, Zenon
  <2>3. ASSUME Alphabets!IsInjective(source.label_to_str)
        PROVE  target.str_to_label = source.str_to_label
    <3>1. ASSUME NEW str \in DOMAIN source.str_to_label
          PROVE  target.str_to_label[str] = source.str_to_label[str]
      <4>1. /\ source.str_to_label[str] \in DOMAIN source.label_to_str
            /\ source.label_to_str[source.str_to_label[str]] = str
        BY <1>4 DEF Consistent
      <4>2. /\ target.str_to_label[str] \in DOMAIN source.label_to_str
            /\ source.label_to_str[target.str_to_label[str]] = str
        BY <2>1, <2>2
      <4> QED BY <4>1, <4>2, <2>3 DEF Alphabets!IsInjective
    <3> QED BY <2>1, <3>1, <1>4 DEF Consistent
  <2>4. " " \in DOMAIN source.str_to_label =>
           /\ target.space_label = target.str_to_label[" "]
           /\ source.space_label = source.str_to_label[" "]
    BY <2>1, <1>4 DEF Consistent
  <2> QED BY <1>4, <2>1, <2>2, <2>3, <2>4
<1> QED BY <1>1, <1>3, <1>5 DEF AlphabetRestored

\* A new label keeps the maps of an alphabet in agreement.
Entered(a, b, label, str) ==
  /\ label \notin DOMAIN a.label_to_str
  /\ b.label_to_str = Alphabets!Put(a.label_to_str, label, str)
  /\ b.str_to_label = Alphabets!Put(a.str_to_label, str, label)
  /\ b.space_label = IF str = " " THEN label ELSE a.space_label

LEMMA NewLabel ==
  ASSUME NEW a, NEW b, NEW label, NEW str, Consistent(a), Entered(a, b, label, str)
  PROVE  /\ Consistent(b)
         /\ DOMAIN b.label_to_str = DOMAIN a.label_to_str \cup {label}
         /\ b.label_to_str[label] = str
         /\ \A l \in DOMAIN a.label_to_str : b.label_to_str[l] = a.label_to_str[l]
<1> DEFINE f == a.label_to_str
           g == a.str_to_label
<1>1. /\ b.label_to_str = [z \in DOMAIN f \cup {label} |-> IF z = label THEN str ELSE f[z]]
      /\ b.str_to_label = [z \in DOMAIN g \cup {str} |-> IF z = str THEN label ELSE g[z]]
  BY DEF Alphabets!Put, Entered
<1> DEFINE u == b.label_to_str
           v == b.str_to_label
<1>2. /\ DOMAIN g = {f[l] : l \in DOMAIN f}
      /\ \A x \in DOMAIN g : g[x] \in DOMAIN f /\ f[g[x]] = x
      /\ " " \in DOMAIN g => a.space_label = g[" "]
  BY DEF Consistent
<1> HIDE DEF f, g
<1>3. /\ DOMAIN u = DOMAIN f \cup {label} /\ u[label] = str
      /\ \A l \in DOMAIN f : u[l] = f[l]
  <2>1. label \notin DOMAIN f
    BY DEF f, Entered
  <2> QED BY <1>1, <2>1
<1>4. /\ DOMAIN v = DOMAIN g \cup {str} /\ v[str] = label
      /\ \A x \in DOMAIN g : x # str => v[x] = g[x]
  BY <1>1
<1>5. /\ b.label_to_str = [l \in DOMAIN b.label_to_str |-> b.label_to_str[l]]
      /\ b.str_to_label = [x \in DOMAIN b.str_to_label |-> b.str_to_label[x]]
  BY <1>1
<1> HIDE DEF u, v
<1>6. DOMAIN v = {u[l] : l \in DOMAIN u}
  <2>1. ASSUME NEW x \in DOMAIN v PROVE \E l \in DOMAIN u : u[l] = x
    <3>1. CASE x = str
      BY <3>1, <1>3
    <3>2. CASE x # str
      <4>1. x \in DOMAIN g
        BY <3>2, <1>4
      <4> QED BY <4>1, <1>2, <1>3
    <3> QED BY <3>1, <3>2
  <2>2. ASSUME NEW l \in DOMAIN u PROVE u[l] \in DOMAIN v
    <3>1. CASE l = label
      BY <3>1, <1>3, <1>4
    <3>2. CASE l # label
      <4>1. l \in DOMAIN f /\ u[l] = f[l]
        BY <3>2, <1>3
      <4>2. f[l] \in DOMAIN g
        BY <4>1, <1>2
      <4> QED BY <4>1, <4>2, <1>4
    <3> QED BY <3>1, <3>2
  <2> QED BY <2>1, <2>2
<1>7. \A x \in DOMAIN v : v[x] \in DOMAIN u /\ u[v[x]] = x
  <2> SUFFICES ASSUME NEW x \in DOMAIN v PROVE v[x] \in DOMAIN u /\ u[v[x]] = x
    OBVIOUS
  <2>1. CASE x = str
    BY <2>1, <1>3, <1>4
  <2>2. CASE x # str
    <3>1. x \in DOMAIN g /\ v[x] = g[x]
      BY <2>2, <1>4
    <3> QED BY <3>1, <1>2, <1>3
  <2> QED BY <2>1, <2>2
<1>8. " " \in DOMAIN v => b.space_label = v[" "]
  <2>1. CASE str = " "
    BY <2>1, <1>4 DEF Entered
  <2>2. CASE str # " "
    <3>1. b.space_label = a.space_label
      BY <2>2 DEF Entered
    <3> QED BY <2>2, <3>1, <1>2, <1>4
  <2> QED BY <2>1, <2>2
<1> QED BY <1>3, <1>5, <1>6, <1>7, <1>8 DEF Consistent, f, u, v

LEMMA AlphabetReadLine == ASSUME AlphabetInv, Alphabets!ReadLine PROVE AlphabetInv'
<1>1. /\ pc = "init" /\ pc' = pc /\ lines # << >> /\ lines' = Tail(lines)
      /\ UNCHANGED <<pending, buffer, buffer_size, offset, next, target>>
  BY DEF Alphabets!ReadLine
<1>a. SourceOK /\ Consistent(source)
  BY DEF AlphabetInv, SourceOK
<1>b. /\ lines \in Seq(DOMAIN Size) /\ source.size \in Nat
      /\ source.size + Len(lines) < Alphabets!Uint16Values
      /\ DOMAIN source.label_to_str = 0 .. source.size - 1
  BY <1>a DEF SourceOK
<1>2. lines \in Seq(DOMAIN Size) /\ source.size \in Nat /\ Len(lines) \in Nat
  BY <1>b
<1>3. /\ lines' \in Seq(DOMAIN Size) /\ Len(lines') = Len(lines) - 1
      /\ \A i \in DOMAIN lines' : i + 1 \in DOMAIN lines /\ lines'[i] = lines[i + 1]
      /\ Head(lines) = lines[1] /\ 1 \in DOMAIN lines /\ lines[1] \in DOMAIN Size
  BY <1>1, <1>2
<1>4. \A i \in DOMAIN lines' :
        /\ Alphabets!Unescaped(lines'[i]) \in DOMAIN Size
        /\ Size[Alphabets!Unescaped(lines'[i])] \in 0 .. Alphabets!Uint16Values - 1
  BY <1>a, <1>3 DEF SourceOK
<1>5. SourceOK'
  <2>1. CASE Alphabets!Comment(Head(lines))
    <3>1. source' = source
      BY <2>1 DEF Alphabets!ReadLine
    <3>2. Consistent(source)'
      <4>1. Consistent(source')
        BY <3>1, <1>a, Zenon
      <4> QED BY <4>1 DEF Consistent
    <3>3. source'.size + Len(lines') < Alphabets!Uint16Values
      BY <3>1, <1>2, <1>3, <1>b DEF Alphabets!Uint16Values
    <3> QED BY <3>1, <3>2, <3>3, <1>a, <1>3, <1>4, ZenonT(30)
            DEF SourceOK, Alphabets!Uint16Values, Alphabets!Unescaped
  <2>2. CASE ~Alphabets!Comment(Head(lines))
    <3> DEFINE str == Alphabets!Unescaped(lines[1])
               label == source.size
    <3>1. source' = [size |-> label + 1,
                     space_label |-> IF str = " " THEN label ELSE source.space_label,
                     label_to_str |-> Alphabets!Put(source.label_to_str, label, str),
                     str_to_label |-> Alphabets!Put(source.str_to_label, str, label)]
      BY <2>2, <1>3 DEF Alphabets!ReadLine
    <3>2. str # ""
      <4>1. lines[1] # ""
        BY <2>2, <1>3 DEF Alphabets!Comment
      <4>2. str = "#" \/ str = lines[1]
        BY DEF Alphabets!Unescaped
      <4> HIDE DEF str
      <4> QED BY <4>1, <4>2
    <3>3. str \in DOMAIN Size /\ Size[str] \in 0 .. Alphabets!Uint16Values - 1
      BY <1>a, <1>3 DEF SourceOK
    <3>4. label \notin DOMAIN source.label_to_str /\ DOMAIN source.label_to_str = 0 .. label - 1
      BY <1>b
    <3> HIDE DEF str
    <3>5. /\ source'.size = label + 1
          /\ source'.label_to_str = Alphabets!Put(source.label_to_str, label, str)
          /\ source'.str_to_label = Alphabets!Put(source.str_to_label, str, label)
          /\ source'.space_label = IF str = " " THEN label ELSE source.space_label
      BY <3>1
    <3>6. /\ Consistent(source')
          /\ DOMAIN source'.label_to_str = DOMAIN source.label_to_str \cup {label}
          /\ source'.label_to_str[label] = str
          /\ \A l \in DOMAIN source.label_to_str : source'.label_to_str[l] = source.label_to_str[l]
      <4>1. label \notin DOMAIN source.label_to_str /\ Consistent(source)
        BY <1>a, <3>4
      <4>2. /\ source'.label_to_str = Alphabets!Put(source.label_to_str, label, str)
            /\ source'.str_to_label = Alphabets!Put(source.str_to_label, str, label)
            /\ source'.space_label = IF str = " " THEN label ELSE source.space_label
        BY <3>5
      <4> HIDE DEF label
      <4>3. PICK s : s = source'
        OBVIOUS
      <4>4. Entered(source, s, label, str)
        BY <4>1, <4>2, <4>3 DEF Entered
      <4>5. /\ Consistent(s) /\ DOMAIN s.label_to_str = DOMAIN source.label_to_str \cup {label}
            /\ s.label_to_str[label] = str
            /\ \A l \in DOMAIN source.label_to_str : s.label_to_str[l] = source.label_to_str[l]
        BY <4>1, <4>4, NewLabel
      <4> QED BY <4>3, <4>5, Zenon
    <3>a. source'.size = source.size + 1 /\ source'.size \in Nat /\ source'.size - 1 = source.size
      <4>1. source'.size = source.size + 1
        BY <3>1
      <4> QED BY <4>1, <1>2
    <3>7. DOMAIN source'.label_to_str = 0 .. source'.size - 1
      <4>1. DOMAIN source'.label_to_str = (0 .. source.size - 1) \cup {source.size}
        BY <3>4, <3>6
      <4> QED BY <4>1, <3>a, <1>2
    <3>8. ASSUME NEW l \in 0 .. source'.size - 1
          PROVE  /\ source'.label_to_str[l] # ""
                 /\ source'.label_to_str[l] \in DOMAIN Size
                 /\ Size[source'.label_to_str[l]] \in 0 .. Alphabets!Uint16Values - 1
      <4>1. CASE l = label
        BY <4>1, <3>2, <3>3, <3>6
      <4>2. CASE l # label
        <5>1. l \in 0 .. source.size - 1
          BY <4>2, <3>a, <1>2
        <5> QED BY <5>1, <3>4, <3>6, <1>a DEF SourceOK
      <4> QED BY <4>1, <4>2
    <3>9. source'.size \in Nat /\ source'.size + Len(lines') < Alphabets!Uint16Values
      <4>1. Len(lines') = Len(lines) - 1
        BY <1>3
      <4>2. Alphabets!Uint16Values \in Nat
        BY DEF Alphabets!Uint16Values
      <4> QED BY <3>a, <4>1, <4>2, <1>2, <1>b
    <3>10. Consistent(source)'
      BY <3>6 DEF Consistent
    <3>11. (\A l \in 0 .. source.size - 1 :
              /\ source.label_to_str[l] # ""
              /\ source.label_to_str[l] \in DOMAIN Size
              /\ Size[source.label_to_str[l]] \in 0 .. Alphabets!Uint16Values - 1)'
      BY <3>8 DEF Alphabets!Uint16Values
    <3>12. (\A i \in DOMAIN lines :
              /\ Alphabets!Unescaped(lines[i]) \in DOMAIN Size
              /\ Size[Alphabets!Unescaped(lines[i])] \in 0 .. Alphabets!Uint16Values - 1)'
      BY <1>4 DEF Alphabets!Uint16Values, Alphabets!Unescaped
    <3> QED BY <1>3, <3>7, <3>9, <3>10, <3>11, <3>12 DEF SourceOK, Alphabets!Uint16Values
  <2> QED BY <2>1, <2>2, Zenon
<1>6. TargetEmpty' /\ IsAlphabet(target)'
  BY <1>1 DEF AlphabetInv, TargetEmpty, IsAlphabet, Alphabets!Empty
<1> QED BY <1>1, <1>5, <1>6 DEF AlphabetInv

\* What the actions after init leave alone.
LEMMA SourceKept ==
  ASSUME SourceOK, UNCHANGED <<lines, source>> PROVE SourceOK'
<1> DEFINE OK(a, ls) ==
      /\ a.size \in Nat /\ ls \in Seq(DOMAIN Size)
      /\ a.size + Len(ls) < Alphabets!Uint16Values
      /\ \A i \in DOMAIN ls :
           /\ Alphabets!Unescaped(ls[i]) \in DOMAIN Size
           /\ Size[Alphabets!Unescaped(ls[i])] \in 0 .. Alphabets!Uint16Values - 1
      /\ DOMAIN a.label_to_str = 0 .. a.size - 1
      /\ \A l \in 0 .. a.size - 1 :
           /\ a.label_to_str[l] # ""
           /\ a.label_to_str[l] \in DOMAIN Size
           /\ Size[a.label_to_str[l]] \in 0 .. Alphabets!Uint16Values - 1
      /\ Consistent(a)
<1>1. OK(source, lines)
  BY Zenon DEF SourceOK
<1>2. lines' = lines /\ source' = source
  BY Zenon
<1>3. OK(source', lines')
  <2> HIDE DEF OK
  <2> QED BY <1>1, <1>2, Zenon
<1> QED BY <1>3, Zenon DEF SourceOK

LEMMA Uint16Keeps ==
  \A n \in Nat : n < Alphabets!Uint16Values =>
     Alphabets!uint16(n) = [kind |-> "uint16", value |-> n, size |-> 2]
BY DEF Alphabets!uint16, Alphabets!Uint16Values

LEMMA Uint16Field ==
  \A n \in Nat : /\ Alphabets!uint16(n) \in Fields
                 /\ Alphabets!uint16(n).kind = "uint16"
<1> SUFFICES ASSUME NEW n \in Nat
             PROVE Alphabets!uint16(n) \in Fields /\ Alphabets!uint16(n).kind = "uint16"
  OBVIOUS
<1>1. n % Alphabets!Uint16Values \in Nat
  BY DEF Alphabets!Uint16Values
<1> QED BY <1>1 DEF Alphabets!uint16, Fields

LEMMA AlphabetBegin == ASSUME AlphabetInv, Alphabets!BeginSerialize PROVE AlphabetInv'
<1>1. /\ pc = "init" /\ lines = << >> /\ pc' = "serialize"
      /\ buffer' = <<Alphabets!uint16(source.size)>> /\ pending' = DOMAIN source.label_to_str
      /\ UNCHANGED <<lines, source, buffer_size, offset, next, target>>
  BY DEF Alphabets!BeginSerialize
<1>2. /\ SourceOK /\ source.size \in Nat /\ source.size < Alphabets!Uint16Values
      /\ DOMAIN source.label_to_str = 0 .. source.size - 1
  <2>1. /\ SourceOK /\ source.size \in Nat /\ source.size + Len(lines) < Alphabets!Uint16Values
        /\ DOMAIN source.label_to_str = 0 .. source.size - 1
    BY DEF AlphabetInv, SourceOK
  <2>2. Len(lines) = 0
    BY <1>1
  <2> QED BY <2>1, <2>2
<1>3. SourceOK'
  BY <1>1, <1>2, SourceKept
<1>4. TargetEmpty' /\ IsAlphabet(target)'
  BY <1>1 DEF AlphabetInv, TargetEmpty, IsAlphabet, Alphabets!Empty
<1>5. Cardinality(pending') = source.size
  <2>1. 0 \in Int /\ source.size - 1 \in Int
    BY <1>2
  <2>2. Cardinality(0 .. source.size - 1) =
          IF 0 > source.size - 1 THEN 0 ELSE source.size - 1 - 0 + 1
    BY <2>1, FS_Interval
  <2> QED BY <1>1, <1>2, <2>2
<1>6. Pairs' = 0
  BY <1>1, <1>2, <1>5 DEF Pairs
<1>7. /\ buffer' \in Seq(Fields) /\ Len(buffer') = 1
      /\ buffer'[1].kind = "uint16" /\ buffer'[1].value = source.size
  <2>1. Alphabets!uint16(source.size) \in Fields
    BY <1>2, Uint16Field
  <2>2. Alphabets!uint16(source.size).value = source.size
    BY <1>2, Uint16Keeps
  <2>3. Alphabets!uint16(source.size).kind = "uint16"
    BY <1>2, Uint16Field
  <2> QED BY <1>1, <2>1, <2>2, <2>3
<1>8. BufferOK'
  <2>1. 1 .. Pairs' = {} /\ Len(buffer') = 1 + 3 * Pairs'
    BY <1>6, <1>7
  <2>2. (0 .. source'.size - 1) \ pending' = {} /\ pending' \subseteq 0 .. source'.size - 1
    BY <1>1, <1>2
  <2> QED BY <1>1, <1>7, <2>1, <2>2 DEF BufferOK
<1> QED BY <1>1, <1>3, <1>4, <1>8 DEF AlphabetInv

LEMMA AlphabetPair ==
  ASSUME AlphabetInv, NEW label \in pending, Alphabets!SerializePair(label)
  PROVE  AlphabetInv'
<1> DEFINE str == source.label_to_str[label]
           x == Alphabets!uint16(label)
           y == Alphabets!uint16(Size[str])
           z == [kind |-> "string", value |-> str, size |-> Size[str]]
           n == Len(buffer)
<1>1. /\ pc = "serialize" /\ pc' = pc /\ pending' = pending \ {label}
      /\ buffer' = buffer \o <<x, y, z>>
      /\ UNCHANGED <<lines, source, buffer_size, offset, next, target>>
  BY DEF Alphabets!SerializePair
<1>2. SourceOK /\ BufferOK
  BY <1>1 DEF AlphabetInv
<1>3. /\ source.size \in Nat /\ source.size < Alphabets!Uint16Values
      /\ pending \subseteq 0 .. source.size - 1
  <2>1. /\ source.size \in Nat /\ source.size + Len(lines) < Alphabets!Uint16Values
        /\ lines = << >>
    BY <1>2 DEF SourceOK, BufferOK
  <2> QED BY <2>1, <1>2 DEF BufferOK
<1>4. label \in Nat /\ label \in 0 .. source.size - 1 /\ label < Alphabets!Uint16Values
  BY <1>3 DEF Alphabets!Uint16Values
<1>5. str \in DOMAIN Size /\ Size[str] \in Nat
  <2>1. str \in DOMAIN Size /\ Size[str] \in 0 .. Alphabets!Uint16Values - 1
    BY <1>2, <1>4 DEF SourceOK
  <2> QED BY <2>1
<1>6. /\ x \in Fields /\ y \in Fields /\ z \in Fields /\ x.kind = "uint16" /\ x.value = label
      /\ y.kind = "uint16" /\ z.kind = "string" /\ z.value = str
  <2>1. x \in Fields /\ y \in Fields /\ x.kind = "uint16" /\ y.kind = "uint16"
    BY <1>4, <1>5, Uint16Field
  <2>2. x.value = label
    BY <1>4, Uint16Keeps
  <2>3. z \in Fields
    BY <1>5 DEF Fields
  <2> QED BY <2>1, <2>2, <2>3
<1> HIDE DEF x, y, z, str
<1>7. buffer \in Seq(Fields) /\ n \in Nat /\ n = 1 + 3 * Pairs
  BY <1>2 DEF BufferOK
<1>8. /\ buffer' \in Seq(Fields) /\ Len(buffer') = n + 3
      /\ buffer'[n + 1] = x /\ buffer'[n + 2] = y /\ buffer'[n + 3] = z
      /\ \A i \in 1 .. n : buffer'[i] = buffer[i]
  BY <1>1, <1>6, <1>7
<1>9. /\ Cardinality(pending) \in Nat /\ Cardinality(pending') = Cardinality(pending) - 1
  <2>1. IsFiniteSet(pending)
    <3>1. 0 \in Int /\ source.size - 1 \in Int
      BY <1>3
    <3>2. IsFiniteSet(0 .. source.size - 1)
      BY <3>1, FS_Interval
    <3> QED BY <1>3, <3>2, FS_Subset
  <2> QED BY <2>1, <1>1, FS_RemoveElement, FS_CardinalityType
<1>10. Pairs' = Pairs + 1 /\ Pairs \in Nat
  <2>0. Pairs = source.size - Cardinality(pending) /\ Pairs' = source'.size - Cardinality(pending')
    BY DEF Pairs
  <2>1. Pairs \in Int /\ Pairs' = Pairs + 1
    <3>1. source' = source
      BY <1>1
    <3> QED BY <1>3, <1>9, <2>0, <3>1
  <2> QED BY <2>1, <1>7
<1>11. ASSUME NEW t \in 1 .. Pairs
       PROVE  /\ LabelAt(t)' = LabelAt(t) /\ PairAt(t)' /\ LabelAt(t) \notin pending
              /\ LabelAt(t) \in 0 .. source.size - 1
  <2>1. 3 * t - 1 \in 1 .. n /\ 3 * t \in 1 .. n /\ 3 * t + 1 \in 1 .. n
    BY <1>7, <1>10
  <2>2. /\ buffer'[3 * t - 1] = buffer[3 * t - 1] /\ buffer'[3 * t] = buffer[3 * t]
        /\ buffer'[3 * t + 1] = buffer[3 * t + 1]
    BY <1>8, <2>1
  <2>3. PairAt(t)
    BY <1>2 DEF BufferOK
  <2> QED BY <1>1, <2>2, <2>3 DEF PairAt, LabelAt
<1>12. \A t \in 1 .. Pairs' : t = Pairs + 1 \/ t \in 1 .. Pairs
  BY <1>10
<1>13. ASSUME NEW t, t = Pairs + 1 PROVE PairAt(t)' /\ LabelAt(t)' = label
  <2>1. 3 * t - 1 = n + 1 /\ 3 * t = n + 2 /\ 3 * t + 1 = n + 3
    BY <1>7, <1>10, <1>13
  <2>2. buffer'[3 * t - 1] = x /\ buffer'[3 * t] = y /\ buffer'[3 * t + 1] = z
    BY <1>8, <2>1
  <2> QED BY <1>1, <1>4, <1>6, <2>2 DEF PairAt, LabelAt, str
<1>14. BufferOK'
  <2>1. \A t \in 1 .. Pairs' : PairAt(t)'
    BY <1>11, <1>12, <1>13
  <2>2. ASSUME NEW t \in 1 .. Pairs', NEW u \in 1 .. Pairs', LabelAt(t)' = LabelAt(u)'
        PROVE  t = u
    <3>1. CASE t \in 1 .. Pairs /\ u \in 1 .. Pairs
      <4>1. LabelAt(t) = LabelAt(u)
        BY <2>2, <3>1, <1>11
      <4> QED BY <3>1, <4>1, <1>2 DEF BufferOK
    <3>2. CASE t \in 1 .. Pairs /\ u = Pairs + 1
      BY <2>2, <3>2, <1>11, <1>13
    <3>3. CASE t = Pairs + 1 /\ u \in 1 .. Pairs
      BY <2>2, <3>3, <1>11, <1>13
    <3> QED BY <3>1, <3>2, <3>3, <1>12
  <2>3. ASSUME NEW l \in (0 .. source.size - 1) \ pending'
        PROVE  \E t \in 1 .. Pairs' : LabelAt(t)' = l
    <3>1. CASE l = label
      <4>1. Pairs + 1 \in 1 .. Pairs'
        BY <1>10
      <4> QED BY <3>1, <4>1, <1>13
    <3>2. CASE l # label
      <4>1. l \in (0 .. source.size - 1) \ pending
        BY <3>2, <1>1
      <4>2. PICK t \in 1 .. Pairs : LabelAt(t) = l
        BY <4>1, <1>2 DEF BufferOK
      <4>3. t \in 1 .. Pairs'
        BY <1>10
      <4> QED BY <4>2, <4>3, <1>11
    <3> QED BY <3>1, <3>2
  <2>4. lines' = << >> /\ pending' \subseteq 0 .. source'.size - 1
    BY <1>1, <1>2, <1>3 DEF BufferOK
  <2>5. Len(buffer') = 1 + 3 * Pairs'
    BY <1>7, <1>8, <1>10
  <2>6. buffer'[1] = buffer[1] /\ buffer[1].kind = "uint16" /\ buffer[1].value = source.size
    BY <1>2, <1>7, <1>8, <1>10 DEF BufferOK
  <2>7. (\A t \in 1 .. Pairs : PairAt(t))'
    BY <2>1
  <2>8. (\A t, u \in 1 .. Pairs : LabelAt(t) = LabelAt(u) => t = u)'
    BY <2>2
  <2>9. (\A l \in (0 .. source.size - 1) \ pending : \E t \in 1 .. Pairs : LabelAt(t) = l)'
    BY <2>3, <1>1
  <2> QED BY <1>1, <1>8, <2>4, <2>5, <2>6, <2>7, <2>8, <2>9 DEF BufferOK, Fields
<1>15. SourceOK'
  BY <1>1, <1>2, SourceKept
<1>16. TargetEmpty' /\ IsAlphabet(target)'
  BY <1>1 DEF AlphabetInv, TargetEmpty, IsAlphabet, Alphabets!Empty
<1> QED BY <1>1, <1>14, <1>15, <1>16 DEF AlphabetInv

LEMMA ConsistentSame ==
  ASSUME NEW a, NEW b, Consistent(a), b.label_to_str = a.label_to_str,
         b.str_to_label = a.str_to_label, b.space_label = a.space_label
  PROVE  Consistent(b)
<1>1. /\ b.label_to_str = [l \in DOMAIN b.label_to_str |-> b.label_to_str[l]]
      /\ b.str_to_label = [str \in DOMAIN b.str_to_label |-> b.str_to_label[str]]
  BY DEF Consistent
<1>2. DOMAIN b.str_to_label = {b.label_to_str[l] : l \in DOMAIN b.label_to_str}
  <2>1. DOMAIN a.str_to_label = {a.label_to_str[l] : l \in DOMAIN a.label_to_str}
    BY DEF Consistent
  <2>2. {a.label_to_str[l] : l \in DOMAIN a.label_to_str} =
          {b.label_to_str[l] : l \in DOMAIN b.label_to_str}
    OBVIOUS
  <2> QED BY <2>1, <2>2
<1>3. \A str \in DOMAIN b.str_to_label :
       /\ b.str_to_label[str] \in DOMAIN b.label_to_str
       /\ b.label_to_str[b.str_to_label[str]] = str
  BY DEF Consistent
<1>4. " " \in DOMAIN b.str_to_label => b.space_label = b.str_to_label[" "]
  BY DEF Consistent
<1> QED BY <1>1, <1>2, <1>3, <1>4 DEF Consistent

LEMMA AlphabetLoad ==
  ASSUME AlphabetInv, NEW n \in 0 .. Alphabets!Length(buffer), NEW space, Alphabets!Load(n, space)
  PROVE  AlphabetInv'
<1>1. /\ pc = "serialize" /\ pending = {} /\ pc' = "deserialize" /\ buffer_size' = n
      /\ target' = [target EXCEPT !.space_label = space]
      /\ UNCHANGED <<lines, source, pending, buffer, offset, next>>
  BY DEF Alphabets!Load
<1>2. SourceOK /\ BufferOK /\ TargetEmpty /\ IsAlphabet(target)
  BY <1>1 DEF AlphabetInv
<1>3. SourceOK'
  BY <1>1, <1>2, SourceKept
<1>4. BufferOK'
  BY <1>1, <1>2 DEF BufferOK, Pairs, PairAt, LabelAt, Fields
<1>5. /\ IsAlphabet(target)' /\ target'.size = 0 /\ target'.label_to_str = Alphabets!Empty
      /\ target'.str_to_label = Alphabets!Empty
  BY <1>1, <1>2 DEF IsAlphabet, TargetEmpty
<1>6. TargetOK'
  <2>1. buffer \in Seq(Fields) /\ Len(buffer) \in Nat /\ Alphabets!Length(buffer) \in Nat
    BY <1>2, BufferOffsets DEF BufferOK
  <2>2. DOMAIN Alphabets!Empty = {}
    BY DEF Alphabets!Empty
  <2>3. Consistent(target)'
    BY <1>5, <2>2 DEF Consistent, Alphabets!Empty
  <2>4. next' = 1 /\ offset' = 0
    BY <1>1, <1>2 DEF TargetEmpty
  <2>5. Alphabets!Offsets(buffer)[0] = 0
    BY <2>1, BufferOffsets
  <2>6. buffer_size' \in 0 .. Alphabets!Length(buffer)' /\ offset' <= buffer_size'
    <3>1. Alphabets!Length(buffer)' = Alphabets!Length(buffer)
      BY <1>1 DEF Alphabets!Length, Alphabets!Offsets
    <3> QED BY <1>1, <2>1, <2>4, <3>1
  <2>7. offset' = Alphabets!Offsets(buffer)'[next' - 1]
    <3>1. Alphabets!Offsets(buffer)' = Alphabets!Offsets(buffer)
      BY <1>1 DEF Alphabets!Offsets
    <3> QED BY <3>1, <2>4, <2>5
  <2>8. next' \in 1 .. Len(buffer') + 1
    BY <1>1, <2>1, <2>4
  <2>9. {LabelAt(t)' : t \in {u \in 1 .. source'.size : 3 * u + 1 < next'}} = {}
    <3>1. {u \in 1 .. source'.size : 3 * u + 1 < next'} = {}
      BY <2>4
    <3> QED BY <3>1
  <2>10. /\ DOMAIN target'.label_to_str =
              {LabelAt(t)' : t \in {u \in 1 .. source'.size : 3 * u + 1 < next'}}
         /\ \A l \in DOMAIN target'.label_to_str :
              target'.label_to_str[l] = source'.label_to_str[l]
    BY <1>5, <2>2, <2>9
  <2> QED BY <1>1, <1>5, <2>3, <2>4, <2>6, <2>7, <2>8, <2>10 DEF TargetOK
<1> QED BY <1>1, <1>3, <1>4, <1>5, <1>6 DEF AlphabetInv

LEMMA AlphabetStops ==
  ASSUME AlphabetInv, Alphabets!Refuse \/ Alphabets!Done
  PROVE  AlphabetInv'
<1>1. /\ pc = "deserialize" /\ pc' \in {"error", "ok"}
      /\ UNCHANGED <<lines, source, pending, buffer, buffer_size, offset, next, target>>
  BY DEF Alphabets!Refuse, Alphabets!Done
<1>2. SourceOK /\ BufferOK /\ TargetOK /\ IsAlphabet(target)
  BY <1>1 DEF AlphabetInv
<1>3. SourceOK' /\ BufferOK' /\ IsAlphabet(target)'
  BY <1>1, <1>2, SourceKept DEF BufferOK, Pairs, PairAt, LabelAt, Fields, IsAlphabet
<1>4. TargetOK'
  <2>1. Consistent(target)'
    <3>1. Consistent(target)
      BY <1>2 DEF TargetOK
    <3>2. Consistent(target')
      BY <3>1, <1>1, Zenon
    <3> QED BY <3>2 DEF Consistent
  <2> QED BY <1>1, <1>2, <2>1
          DEF TargetOK, LabelAt, Alphabets!Length, Alphabets!Offsets
<1>5. ASSUME pc' = "ok" PROVE next' = Len(buffer') + 1
  <2>1. next > 1 + 3 * target.size
    BY <1>1, <1>5 DEF Alphabets!Refuse, Alphabets!Done
  <2>2. /\ source.size \in Nat /\ Pairs = source.size /\ Len(buffer) = 1 + 3 * Pairs
        /\ next \in 1 .. Len(buffer) + 1 /\ target.size = (IF next = 1 THEN 0 ELSE source.size)
    <3>1. Cardinality(pending) = 0 /\ source.size \in Nat
      BY <1>2, FS_EmptySet DEF TargetOK, SourceOK
    <3>2. Pairs = source.size
      BY <3>1 DEF Pairs
    <3> QED BY <3>1, <3>2, <1>2 DEF BufferOK, TargetOK
  <2> QED BY <1>1, <2>1, <2>2
<1> QED BY <1>1, <1>3, <1>4, <1>5 DEF AlphabetInv

LEMMA AlphabetField == ASSUME AlphabetInv, Alphabets!ReadField PROVE AlphabetInv'
<1> DEFINE field == buffer[next]
<1>1. /\ pc = "deserialize" /\ pc' = pc /\ next <= 1 + 3 * target.size
      /\ field.size <= buffer_size - offset
      /\ offset' = offset + field.size /\ next' = next + 1
      /\ target' = IF next = 1 THEN [target EXCEPT !.size = field.value]
                   ELSE IF field.kind = "string" THEN Alphabets!Enter(field) ELSE target
      /\ UNCHANGED <<lines, source, pending, buffer, buffer_size>>
  BY DEF Alphabets!ReadField, Alphabets!Fits
<1>2. SourceOK /\ BufferOK /\ TargetOK /\ IsAlphabet(target)
  BY <1>1 DEF AlphabetInv
<1>3. SourceOK' /\ BufferOK'
  BY <1>1, <1>2, SourceKept DEF BufferOK, Pairs, PairAt, LabelAt, Fields
<1>4. /\ source.size \in Nat /\ Pairs = source.size /\ buffer \in Seq(Fields)
      /\ Len(buffer) = 1 + 3 * source.size /\ next \in 1 .. Len(buffer)
      /\ target.size = (IF next = 1 THEN 0 ELSE source.size)
  <2>1. Cardinality(pending) = 0 /\ source.size \in Nat
    BY <1>2, FS_EmptySet DEF TargetOK, SourceOK
  <2>2. Pairs = source.size
    BY <2>1 DEF Pairs
  <2>3. /\ buffer \in Seq(Fields) /\ Len(buffer) = 1 + 3 * source.size
        /\ next \in 1 .. Len(buffer) + 1
        /\ target.size = (IF next = 1 THEN 0 ELSE source.size)
    BY <1>2, <2>2 DEF BufferOK, TargetOK
  <2> QED BY <1>1, <2>1, <2>2, <2>3
<1>5. /\ Alphabets!Offsets(buffer)' = Alphabets!Offsets(buffer)
      /\ Alphabets!Length(buffer)' = Alphabets!Length(buffer)
  BY <1>1 DEF Alphabets!Length, Alphabets!Offsets
<1>6. /\ buffer_size' \in 0 .. Alphabets!Length(buffer)' /\ next' \in 1 .. Len(buffer') + 1
      /\ offset' = Alphabets!Offsets(buffer)'[next' - 1] /\ offset' <= buffer_size'
  <2>1. /\ field.size \in Nat /\ next - 1 \in 0 .. Len(buffer)
        /\ Alphabets!Offsets(buffer)[next - 1] \in Nat
        /\ Alphabets!Offsets(buffer)[next] = Alphabets!Offsets(buffer)[next - 1] + field.size
    <3>1. next - 1 \in 0 .. Len(buffer) /\ field \in Fields
      BY <1>4
    <3>2. field.size \in Nat
      BY <3>1 DEF Fields
    <3>3. Alphabets!Offsets(buffer)[next - 1] \in Nat
      BY <1>4, <3>1, BufferOffsets
    <3>4. Alphabets!Offsets(buffer)[next] = Alphabets!Offsets(buffer)[next - 1] + field.size
      BY <1>4, BufferOffsets
    <3> QED BY <3>1, <3>2, <3>3, <3>4
  <2>2. Alphabets!Length(buffer) \in Nat
    BY <1>4, BufferOffsets
  <2>3. /\ offset = Alphabets!Offsets(buffer)[next - 1]
        /\ buffer_size \in 0 .. Alphabets!Length(buffer)
    BY <1>2 DEF TargetOK
  <2>4. next' - 1 = next /\ next' \in 1 .. Len(buffer') + 1
    <3>1. next' = next + 1 /\ buffer' = buffer
      BY <1>1
    <3>2. Len(buffer) \in Nat /\ next \in 1 .. Len(buffer)
      BY <1>4
    <3> QED BY <3>1, <3>2
  <2>5. offset' = Alphabets!Offsets(buffer)[next] /\ offset' <= buffer_size
    BY <1>1, <2>1, <2>2, <2>3
  <2> QED BY <1>1, <1>5, <2>3, <2>4, <2>5
<1>7. /\ pending' = {} /\ \A t : LabelAt(t)' = LabelAt(t)
  BY <1>1, <1>2 DEF TargetOK, LabelAt
<1> DEFINE Done(n) == {u \in 1 .. source.size : 3 * u + 1 < n}
<1>8. /\ DOMAIN target.label_to_str = {LabelAt(t) : t \in Done(next)}
      /\ \A l \in DOMAIN target.label_to_str : target.label_to_str[l] = source.label_to_str[l]
      /\ Consistent(target)
  BY <1>2 DEF TargetOK
<1>9. SUFFICES /\ IsAlphabet(target') /\ target'.size = source.size
               /\ DOMAIN target'.label_to_str = {LabelAt(t) : t \in Done(next + 1)}
               /\ \A l \in DOMAIN target'.label_to_str :
                    target'.label_to_str[l] = source.label_to_str[l]
               /\ Consistent(target')
  <2>1. target'.size = (IF next' = 1 THEN 0 ELSE source'.size)
    BY <1>1, <1>4, <1>9
  <2>2. /\ DOMAIN target'.label_to_str =
             {LabelAt(t)' : t \in {u \in 1 .. source'.size : 3 * u + 1 < next'}}
        /\ \A l \in DOMAIN target'.label_to_str :
             target'.label_to_str[l] = source'.label_to_str[l]
    BY <1>1, <1>7, <1>9
  <2>3. Consistent(target)' /\ IsAlphabet(target)'
    BY <1>9 DEF Consistent, IsAlphabet
  <2>4. TargetOK'
    BY <1>6, <1>7, <2>1, <2>2, <2>3 DEF TargetOK
  <2> QED BY <1>1, <1>3, <2>3, <2>4 DEF AlphabetInv
<1>10. CASE next = 1
  <2>1. field.value = source.size
    BY <1>2, <1>10 DEF BufferOK
  <2>2. target' = [target EXCEPT !.size = source.size]
    BY <1>1, <1>10, <2>1
  <2>3. /\ IsAlphabet(target') /\ target'.size = source.size
        /\ target'.label_to_str = target.label_to_str /\ target'.str_to_label = target.str_to_label
        /\ target'.space_label = target.space_label
    BY <1>2, <2>2 DEF IsAlphabet
  <2>4. Done(next + 1) = Done(next)
    BY <1>4, <1>10
  <2>5. Consistent(target')
    <3>1. Consistent(target)
      BY <1>8
    <3>2. /\ target'.label_to_str = target.label_to_str
          /\ target'.str_to_label = target.str_to_label
          /\ target'.space_label = target.space_label
      BY <2>3
    <3> QED BY <3>1, <3>2, ConsistentSame
  <2> QED BY <1>8, <2>3, <2>4, <2>5
<1>11. CASE next # 1 /\ field.kind # "string"
  <2>1. target' = target /\ target.size = source.size
    BY <1>1, <1>4, <1>11
  <2>2. Done(next + 1) = Done(next)
    <3>1. ASSUME NEW u \in 1 .. source.size, 3 * u + 1 = next PROVE FALSE
      <4>1. PairAt(u)
        BY <1>2, <1>4 DEF BufferOK
      <4> QED BY <3>1, <4>1, <1>11 DEF PairAt
    <3> QED BY <3>1, <1>4
  <2> QED BY <1>2, <1>8, <2>1, <2>2
<1>12. CASE next # 1 /\ field.kind = "string"
  <2>1. PICK t \in 1 .. source.size : 3 * t + 1 = next
    <3>1. PICK t \in 1 .. source.size : next = 3 * t - 1 \/ next = 3 * t \/ next = 3 * t + 1
      <4>1. (next + 1) \div 3 \in 1 .. source.size
        BY <1>4, <1>12
      <4>2. \/ next = 3 * ((next + 1) \div 3) - 1 \/ next = 3 * ((next + 1) \div 3)
            \/ next = 3 * ((next + 1) \div 3) + 1
        BY <1>4
      <4> QED BY <4>1, <4>2
    <3>2. PairAt(t)
      BY <1>2, <1>4 DEF BufferOK
    <3>3. next # 3 * t - 1 /\ next # 3 * t
      BY <3>2, <1>12 DEF PairAt
    <3> QED BY <3>1, <3>3
  <2>2. /\ next - 2 = 3 * t - 1 /\ buffer[next - 2].value = LabelAt(t)
        /\ field.value = source.label_to_str[LabelAt(t)]
    <3>1. PairAt(t)
      BY <1>2, <1>4 DEF BufferOK
    <3>2. next - 2 = 3 * t - 1
      BY <2>1
    <3> QED BY <2>1, <3>1, <3>2 DEF PairAt, LabelAt
  <2> DEFINE label == LabelAt(t)
             str == source.label_to_str[label]
  <2>3. target' = [target EXCEPT !.label_to_str = Alphabets!Put(target.label_to_str, label, str),
                                 !.str_to_label = Alphabets!Put(target.str_to_label, str, label),
                                 !.space_label = IF str = " " THEN label ELSE target.space_label]
    BY <1>1, <1>12, <2>2 DEF Alphabets!Enter
  <2>4. label \notin DOMAIN target.label_to_str
    <3> SUFFICES ASSUME NEW u \in Done(next), LabelAt(u) = label PROVE FALSE
      BY <1>8
    <3>1. u = t
      BY <1>2, <1>4 DEF BufferOK
    <3> QED BY <3>1, <2>1
  <2> HIDE DEF label, str
  <2>5. /\ IsAlphabet(target') /\ target'.size = target.size
        /\ target'.label_to_str = Alphabets!Put(target.label_to_str, label, str)
        /\ target'.str_to_label = Alphabets!Put(target.str_to_label, str, label)
        /\ target'.space_label = IF str = " " THEN label ELSE target.space_label
    BY <1>2, <2>3 DEF IsAlphabet
  <2>6. Entered(target, target', label, str)
    BY <2>4, <2>5 DEF Entered
  <2>7. /\ Consistent(target')
        /\ DOMAIN target'.label_to_str = DOMAIN target.label_to_str \cup {label}
        /\ target'.label_to_str[label] = str
        /\ \A l \in DOMAIN target.label_to_str : target'.label_to_str[l] = target.label_to_str[l]
    <3>1. Consistent(target)
      BY <1>8
    <3>2. PICK s : s = target'
      OBVIOUS
    <3>3. Entered(target, s, label, str)
      BY <2>6, <3>2, Zenon
    <3>4. /\ Consistent(s) /\ DOMAIN s.label_to_str = DOMAIN target.label_to_str \cup {label}
          /\ s.label_to_str[label] = str
          /\ \A l \in DOMAIN target.label_to_str : s.label_to_str[l] = target.label_to_str[l]
      BY <3>1, <3>3, NewLabel
    <3> QED BY <3>2, <3>4, Zenon
  <2>8. Done(next + 1) = Done(next) \cup {t}
    BY <1>4, <2>1
  <2>9. DOMAIN target'.label_to_str = {LabelAt(u) : u \in Done(next + 1)}
    BY <1>8, <2>7, <2>8 DEF label
  <2>10. \A l \in DOMAIN target'.label_to_str :
           target'.label_to_str[l] = source.label_to_str[l]
    BY <1>8, <2>7 DEF str
  <2>11. target'.size = source.size
    BY <1>4, <1>12, <2>5
  <2> QED BY <2>5, <2>7, <2>9, <2>10, <2>11
<1> QED BY <1>10, <1>11, <1>12

LEMMA AlphabetStep == AlphabetInv /\ [Alphabets!Next]_alphabetVars => AlphabetInv'
<1> SUFFICES ASSUME AlphabetInv, [Alphabets!Next]_alphabetVars PROVE AlphabetInv'
  OBVIOUS
<1>1. CASE Alphabets!Next
  BY <1>1, AlphabetReadLine, AlphabetBegin, AlphabetPair, AlphabetLoad, AlphabetStops,
     AlphabetField DEF Alphabets!Next
<1>2. CASE UNCHANGED alphabetVars
  <2>1. UNCHANGED <<pc, lines, source, pending, buffer, buffer_size, offset, next, target>>
    BY <1>2 DEF alphabetVars
  <2>2. SourceOK' /\ IsAlphabet(target)' /\ (TargetEmpty' <=> TargetEmpty)
    BY <2>1, SourceKept DEF AlphabetInv, IsAlphabet, TargetEmpty, Alphabets!Empty
  <2>3. BufferOK' <=> BufferOK
    BY <2>1 DEF BufferOK, Pairs, PairAt, LabelAt, Fields
  <2>4. Consistent(target)' <=> Consistent(target)
    BY <2>1 DEF Consistent
  <2>5. TargetOK' <=> TargetOK
    BY <2>1, <2>4 DEF TargetOK, LabelAt, Alphabets!Length, Alphabets!Offsets
  <2> QED BY <2>1, <2>2, <2>3, <2>5 DEF AlphabetInv
<1> QED BY <1>1, <1>2

LEMMA AlphabetPart ==
  /\ DataInit => AlphabetInv
  /\ AlphabetInv /\ [DataNext]_dataVars => AlphabetInv'
BY AlphabetInit, AlphabetStep DEF DataInit, DataNext, dataVars, alphabetVars

\* The client's alphabet is the training side's for every alphabet of less than
\* 65536 labels, whatever the order of the pairs, and cut buffers are refused.
THEOREM AlphabetIsRestored == DataSpec => []AlphabetRestored
BY AlphabetPart, AlphabetSound, PTL DEF DataSpec

-----------------------------------------------------------------------------
(* Numbers as bytes *)

LEMMA ShiftedProps ==
  ASSUME NEW n \in Nat, NEW size \in Nat
  PROVE  /\ SampleDBs!Shifted(n, size) \in [0 .. size -> Nat]
         /\ SampleDBs!Shifted(n, size)[0] = n
         /\ \A i \in 1 .. size :
              SampleDBs!Shifted(n, size)[i] = SampleDBs!Shifted(n, size)[i - 1] \div 256
<1> DEFINE g == [x \in Nat \X (1 .. size) |-> x[1] \div 256]
<1>1. g \in [Nat \X (1 .. size) -> Nat]
  OBVIOUS
<1>2. PICK f \in [0 .. size -> Nat] : f[0] = n /\ \A i \in 1 .. size : f[i] = g[<<f[i - 1], i>>]
  <2> HIDE DEF g
  <2>1. \E f : Iterates(f, size, Nat, n, g)
    BY <1>1, Recursion
  <2> QED BY <2>1 DEF Iterates
<1>3. \A i \in 1 .. size : f[i] = f[i - 1] \div 256
  <2> SUFFICES ASSUME NEW i \in 1 .. size PROVE f[i] = f[i - 1] \div 256
    OBVIOUS
  <2>1. <<f[i - 1], i>> \in Nat \X (1 .. size)
    BY <1>2
  <2> QED BY <2>1, <1>2
<1>4. f = [i \in 0 .. size |-> IF i = 0 THEN n ELSE f[i - 1] \div 256]
  BY <1>2, <1>3
<1> HIDE DEF g
<1>5. SampleDBs!Shifted(n, size) =
        [i \in 0 .. size |-> IF i = 0 THEN n ELSE SampleDBs!Shifted(n, size)[i - 1] \div 256]
  BY <1>4 DEF SampleDBs!Shifted
<1> DEFINE a == SampleDBs!Shifted(n, size)
<1> HIDE DEF a
<1>6. a = [i \in 0 .. size |-> IF i = 0 THEN n ELSE a[i - 1] \div 256]
  BY <1>5 DEF a
<1>7. a[0] = n /\ \A i \in 1 .. size : a[i] = a[i - 1] \div 256
  BY <1>6
<1> DEFINE S == {i \in 0 .. size : a[i] \in Nat}
<1>8. \A i \in 0 .. size : i \in S
  <2>1. 0 \in S
    BY <1>7
  <2>2. ASSUME NEW i \in 0 .. size - 1, i \in S PROVE i + 1 \in S
    <3>1. i + 1 \in 1 .. size /\ i + 1 \in 0 .. size /\ (i + 1) - 1 = i /\ a[i] \in Nat
      BY <2>2
    <3>2. a[i + 1] = a[i] \div 256
      BY <3>1, <1>7
    <3> QED BY <3>1, <3>2
  <2> HIDE DEF S
  <2> QED BY <2>1, <2>2, UpTo
<1>9. a \in [0 .. size -> Nat]
  BY <1>6, <1>8
<1> QED BY <1>7, <1>9 DEF a

LEMMA ValuesProps ==
  ASSUME NEW bytes \in Seq(SampleDBs!Byte)
  PROVE  /\ SampleDBs!Values(bytes) \in [0 .. Len(bytes) -> Nat]
         /\ SampleDBs!Values(bytes)[0] = 0
         /\ \A i \in 1 .. Len(bytes) :
              SampleDBs!Values(bytes)[i] = 256 * SampleDBs!Values(bytes)[i - 1] + bytes[i]
<1> DEFINE m == Len(bytes)
           g == [x \in Nat \X (1 .. m) |-> 256 * x[1] + bytes[x[2]]]
<1>a. m \in Nat /\ \A i \in 1 .. m : bytes[i] \in Nat
  <2>1. m \in Nat /\ \A i \in 1 .. m : bytes[i] \in SampleDBs!Byte
    OBVIOUS
  <2>2. SampleDBs!Byte \subseteq Nat
    BY DEF SampleDBs!Byte
  <2> QED BY <2>1, <2>2
<1> HIDE DEF m
<1>1. g \in [Nat \X (1 .. m) -> Nat]
  BY <1>a
<1>2. PICK f \in [0 .. m -> Nat] : f[0] = 0 /\ \A i \in 1 .. m : f[i] = g[<<f[i - 1], i>>]
  <2> HIDE DEF g
  <2>1. \E f : Iterates(f, m, Nat, 0, g)
    BY <1>1, <1>a, Recursion
  <2> QED BY <2>1 DEF Iterates
<1>3. \A i \in 1 .. m : f[i] = 256 * f[i - 1] + bytes[i]
  <2> SUFFICES ASSUME NEW i \in 1 .. m PROVE f[i] = 256 * f[i - 1] + bytes[i]
    OBVIOUS
  <2>1. <<f[i - 1], i>> \in Nat \X (1 .. m)
    BY <1>2, <1>a
  <2> QED BY <2>1, <1>2
<1>4. f = [i \in 0 .. m |-> IF i = 0 THEN 0 ELSE 256 * f[i - 1] + bytes[i]]
  BY <1>2, <1>3
<1> HIDE DEF g
<1>5. SampleDBs!Values(bytes) =
        [i \in 0 .. m |-> IF i = 0 THEN 0 ELSE 256 * SampleDBs!Values(bytes)[i - 1] + bytes[i]]
  BY <1>4 DEF SampleDBs!Values, m
<1> DEFINE a == SampleDBs!Values(bytes)
<1> HIDE DEF a
<1>6. a = [i \in 0 .. m |-> IF i = 0 THEN 0 ELSE 256 * a[i - 1] + bytes[i]]
  BY <1>5 DEF a
<1>7. a[0] = 0 /\ \A i \in 1 .. m : a[i] = 256 * a[i - 1] + bytes[i]
  BY <1>6, <1>a
<1> DEFINE S == {i \in 0 .. m : a[i] \in Nat}
<1>8. \A i \in 0 .. m : i \in S
  <2>1. 0 \in S
    BY <1>7, <1>a
  <2>2. ASSUME NEW i \in 0 .. m - 1, i \in S PROVE i + 1 \in S
    <3>1. i + 1 \in 1 .. m /\ i + 1 \in 0 .. m /\ (i + 1) - 1 = i /\ a[i] \in Nat
      BY <2>2, <1>a
    <3>2. a[i + 1] = 256 * a[i] + bytes[i + 1] /\ bytes[i + 1] \in Nat
      BY <3>1, <1>7, <1>a
    <3> QED BY <3>1, <3>2
  <2> HIDE DEF S
  <2> QED BY <2>1, <2>2, <1>a, UpTo
<1>9. a \in [0 .. m -> Nat]
  BY <1>6, <1>8
<1> QED BY <1>7, <1>9 DEF a, m

\* to_bytes gives size bytes.
LEMMA ToBytes ==
  ASSUME NEW n \in Nat, NEW size \in Nat
  PROVE  /\ SampleDBs!to_bytes(n, size) \in Seq(SampleDBs!Byte)
         /\ Len(SampleDBs!to_bytes(n, size)) = size
         /\ \A i \in 1 .. size :
              SampleDBs!to_bytes(n, size)[i] = SampleDBs!Shifted(n, size)[size - i] % 256
<1>1. ASSUME NEW i \in 1 .. size PROVE SampleDBs!Shifted(n, size)[size - i] % 256 \in SampleDBs!Byte
  <2>1. size - i \in 0 .. size
    OBVIOUS
  <2>2. SampleDBs!Shifted(n, size)[size - i] \in Nat
    BY <2>1, ShiftedProps
  <2> QED BY <2>2 DEF SampleDBs!Byte
<1> QED BY <1>1 DEF SampleDBs!to_bytes

\* from_bytes inverts to_bytes where that does not raise.
LEMMA BytesRoundTrip ==
  ASSUME NEW n \in Nat, NEW size \in Nat, SampleDBs!Fits(n, size)
  PROVE  SampleDBs!from_bytes(SampleDBs!to_bytes(n, size)) = n
<1> DEFINE bytes == SampleDBs!to_bytes(n, size)
           rest == SampleDBs!Shifted(n, size)
           value == SampleDBs!Values(bytes)
<1>1. /\ bytes \in Seq(SampleDBs!Byte) /\ Len(bytes) = size
      /\ \A i \in 1 .. size : bytes[i] = rest[size - i] % 256
  BY ToBytes
<1>2. /\ rest \in [0 .. size -> Nat] /\ rest[0] = n
      /\ \A i \in 1 .. size : rest[i] = rest[i - 1] \div 256
  <2>1. rest \in [0 .. size -> Nat] /\ rest[0] = n
    BY ShiftedProps
  <2>2. \A i \in 1 .. size : rest[i] = rest[i - 1] \div 256
    BY ShiftedProps
  <2> QED BY <2>1, <2>2
<1> HIDE DEF bytes
<1>3. /\ value \in [0 .. size -> Nat] /\ value[0] = 0
      /\ \A i \in 1 .. size : value[i] = 256 * value[i - 1] + bytes[i]
  BY <1>1, ValuesProps
<1>4. rest[size] = 0
  BY DEF SampleDBs!Fits
<1> HIDE DEF rest, value
<1> DEFINE S == {i \in 0 .. size : value[i] = rest[size - i]}
<1>5. \A i \in 0 .. size : i \in S
  <2>1. 0 \in S
    BY <1>3, <1>4
  <2>2. ASSUME NEW i \in 0 .. size - 1, i \in S PROVE i + 1 \in S
    <3> DEFINE q == size - (i + 1)
    <3>1. i + 1 \in 1 .. size /\ i + 1 \in 0 .. size /\ (i + 1) - 1 = i /\ value[i] = rest[size - i]
      BY <2>2
    <3>2. q \in 0 .. size /\ q + 1 \in 1 .. size /\ q + 1 = size - i /\ (q + 1) - 1 = q
      BY <2>2
    <3> HIDE DEF q
    <3>3. rest[size - i] = rest[q] \div 256 /\ rest[q] \in Nat
      BY <1>2, <3>2
    <3>4. value[i + 1] = 256 * (rest[q] \div 256) + (rest[q] % 256)
      BY <1>1, <1>3, <3>1, <3>3 DEF q
    <3>5. value[i + 1] = rest[q]
      <4>1. \A x \in Nat : 256 * (x \div 256) + (x % 256) = x
        OBVIOUS
      <4> QED BY <3>3, <3>4, <4>1
    <3> QED BY <3>1, <3>5 DEF q
  <2> HIDE DEF S
  <2> QED BY <2>1, <2>2, UpTo
<1>6. value[size] = rest[size - size]
  BY <1>5
<1> QED BY <1>1, <1>2, <1>6 DEF SampleDBs!from_bytes, bytes, value

\* What fits leaves room for less.
LEMMA FitsLess ==
  ASSUME NEW n \in Nat, NEW m \in 0 .. n, NEW size \in Nat, SampleDBs!Fits(n, size)
  PROVE  SampleDBs!Fits(m, size)
<1> DEFINE a == SampleDBs!Shifted(m, size)
           b == SampleDBs!Shifted(n, size)
<1>a. m \in Nat
  OBVIOUS
<1>1. /\ a \in [0 .. size -> Nat] /\ a[0] = m
      /\ \A i \in 1 .. size : a[i] = a[i - 1] \div 256
  <2>1. a \in [0 .. size -> Nat] /\ a[0] = m
    BY <1>a, ShiftedProps
  <2>2. \A i \in 1 .. size : a[i] = a[i - 1] \div 256
    BY <1>a, ShiftedProps
  <2> QED BY <2>1, <2>2
<1>2. /\ b \in [0 .. size -> Nat] /\ b[0] = n
      /\ \A i \in 1 .. size : b[i] = b[i - 1] \div 256
  <2>1. b \in [0 .. size -> Nat] /\ b[0] = n
    BY ShiftedProps
  <2>2. \A i \in 1 .. size : b[i] = b[i - 1] \div 256
    BY ShiftedProps
  <2> QED BY <2>1, <2>2
<1>3. b[size] = 0
  BY DEF SampleDBs!Fits
<1> HIDE DEF a, b
<1> DEFINE S == {i \in 0 .. size : a[i] <= b[i]}
<1>4. \A i \in 0 .. size : i \in S
  <2>1. 0 \in S
    BY <1>1, <1>2
  <2>2. ASSUME NEW i \in 0 .. size - 1, i \in S PROVE i + 1 \in S
    <3>1. i + 1 \in 1 .. size /\ i + 1 \in 0 .. size /\ (i + 1) - 1 = i /\ a[i] <= b[i]
      BY <2>2
    <3>2. a[i] \in Nat /\ b[i] \in Nat /\ a[i + 1] = a[i] \div 256 /\ b[i + 1] = b[i] \div 256
      BY <1>1, <1>2, <3>1
    <3> QED BY <3>1, <3>2
  <2> HIDE DEF S
  <2> QED BY <2>1, <2>2, UpTo
<1>5. a[size] <= b[size] /\ a[size] \in Nat
  BY <1>1, <1>4
<1> QED BY <1>3, <1>5 DEF SampleDBs!Fits, a

-----------------------------------------------------------------------------
(* The Sample DB file *)

LEMMA SdbConstants ==
  /\ Samples \subseteq [audio : Seq(SampleDBs!Byte), transcript : Seq(SampleDBs!Byte)]
  /\ BIGINT_SIZE \in Nat /\ BIGINT_SIZE > 0 /\ INT_SIZE \in Nat /\ INT_SIZE > 0
  /\ SampleDBs!Fits(1 + 2 * BIGINT_SIZE, BIGINT_SIZE)
BY DataAssumption DEF SampleDBs!SdbAssumption, SampleDBs!offset_samples

\* The bytes are at position at of the file f.
Holds(f, at, bytes) ==
  at + Len(bytes) <= Len(f) /\ \A k \in 1 .. Len(bytes) : f[at + k] = bytes[k]

LEMMA WriteLen ==
  ASSUME NEW f \in Seq(SampleDBs!Byte), NEW at \in Nat, NEW bytes \in Seq(SampleDBs!Byte)
  PROVE  /\ SampleDBs!write(f, at, bytes) \in Seq(SampleDBs!Byte)
         /\ Len(SampleDBs!write(f, at, bytes)) =
              IF at + Len(bytes) > Len(f) THEN at + Len(bytes) ELSE Len(f)
         /\ \A i \in 1 .. Len(SampleDBs!write(f, at, bytes)) :
              SampleDBs!write(f, at, bytes)[i] =
                IF i > at /\ i <= at + Len(bytes) THEN bytes[i - at]
                ELSE IF i <= Len(f) THEN f[i] ELSE 0
<1> DEFINE n == IF at + Len(bytes) > Len(f) THEN at + Len(bytes) ELSE Len(f)
           v(i) == IF i > at /\ i <= at + Len(bytes) THEN bytes[i - at]
                   ELSE IF i <= Len(f) THEN f[i] ELSE 0
<1>1. n \in Nat
  OBVIOUS
<1>2. ASSUME NEW i \in 1 .. n PROVE v(i) \in SampleDBs!Byte
  <2>1. 0 \in SampleDBs!Byte
    BY DEF SampleDBs!Byte
  <2>2. CASE i > at /\ i <= at + Len(bytes)
    <3>1. i - at \in 1 .. Len(bytes)
      BY <2>2
    <3> QED BY <2>2, <3>1
  <2>3. CASE ~(i > at /\ i <= at + Len(bytes))
    BY <2>1, <2>3
  <2> QED BY <2>2, <2>3
<1>3. SampleDBs!write(f, at, bytes) = [i \in 1 .. n |-> v(i)]
  BY DEF SampleDBs!write
<1> HIDE DEF n, v
<1>4. /\ SampleDBs!write(f, at, bytes) \in Seq(SampleDBs!Byte)
      /\ Len(SampleDBs!write(f, at, bytes)) = n
  BY <1>1, <1>2, <1>3
<1>5. \A i \in 1 .. n : SampleDBs!write(f, at, bytes)[i] = v(i)
  BY <1>3
<1> QED BY <1>4, <1>5 DEF n, v

\* A write leaves its bytes in the file and nothing else is lost.
LEMMA Write ==
  ASSUME NEW f \in Seq(SampleDBs!Byte), NEW at \in Nat, NEW bytes \in Seq(SampleDBs!Byte)
  PROVE  /\ SampleDBs!write(f, at, bytes) \in Seq(SampleDBs!Byte)
         /\ Holds(SampleDBs!write(f, at, bytes), at, bytes)
         /\ \A from \in Nat : \A c \in Seq(SampleDBs!Byte) :
              Holds(f, from, c) /\ (from + Len(c) <= at \/ at + Len(bytes) <= from)
                => Holds(SampleDBs!write(f, at, bytes), from, c)
<1> DEFINE w == SampleDBs!write(f, at, bytes)
<1>1. /\ w \in Seq(SampleDBs!Byte) /\ Len(w) \in Nat /\ Len(f) \in Nat /\ Len(bytes) \in Nat
      /\ Len(w) = IF at + Len(bytes) > Len(f) THEN at + Len(bytes) ELSE Len(f)
  BY WriteLen
<1>2. \A i \in 1 .. Len(w) : w[i] = IF i > at /\ i <= at + Len(bytes) THEN bytes[i - at]
                                    ELSE IF i <= Len(f) THEN f[i] ELSE 0
  BY WriteLen
<1> HIDE DEF w
<1>3. Holds(w, at, bytes)
  <2>1. ASSUME NEW k \in 1 .. Len(bytes) PROVE w[at + k] = bytes[k]
    <3>1. at + k \in 1 .. Len(w) /\ at + k > at /\ at + k <= at + Len(bytes) /\ (at + k) - at = k
      BY <1>1
    <3> QED BY <3>1, <1>2
  <2> QED BY <1>1, <2>1 DEF Holds
<1>4. ASSUME NEW from \in Nat, NEW c \in Seq(SampleDBs!Byte), Holds(f, from, c),
             from + Len(c) <= at \/ at + Len(bytes) <= from
      PROVE  Holds(w, from, c)
  <2>1. Len(c) \in Nat /\ from + Len(c) <= Len(f)
    BY <1>4 DEF Holds
  <2>2. ASSUME NEW k \in 1 .. Len(c) PROVE w[from + k] = c[k]
    <3>1. /\ from + k \in 1 .. Len(w) /\ from + k <= Len(f)
          /\ ~(from + k > at /\ from + k <= at + Len(bytes))
      BY <1>1, <1>4, <2>1
    <3>2. f[from + k] = c[k]
      BY <1>4 DEF Holds
    <3> QED BY <3>1, <3>2, <1>2
  <2> QED BY <1>1, <2>1, <2>2 DEF Holds
<1> QED BY <1>1, <1>3, <1>4 DEF w

\* What the file holds is read.
LEMMA Read ==
  ASSUME file \in Seq(SampleDBs!Byte), NEW at \in Nat, NEW c \in Seq(SampleDBs!Byte),
         Holds(file, at, c)
  PROVE  SampleDBs!read(at, Len(c)) = c
<1> DEFINE n == Len(c)
<1>1. n \in Nat /\ Len(file) \in Nat /\ at + n <= Len(file)
  BY DEF Holds
<1>2. SampleDBs!read(at, n) = SubSeq(file, at + 1, at + n)
  BY <1>1 DEF SampleDBs!read
<1>3. \A k \in 1 .. n : file[at + k] = c[k]
  BY DEF Holds
<1>4. SubSeq(file, at + 1, at + n) = [k \in 1 .. n |-> file[at + k]]
  <2>1. SubSeq(file, at + 1, at + n) =
          [k \in 1 .. (at + n - (at + 1) + 1) |-> file[k + (at + 1) - 1]]
    BY <1>1
  <2>2. at + n - (at + 1) + 1 = n
    BY <1>1
  <2>3. \A k \in 1 .. n : k + (at + 1) - 1 = at + k
    BY <1>1
  <2> HIDE DEF n
  <2> QED BY <2>1, <2>2, <2>3
<1>5. c = [k \in 1 .. n |-> c[k]]
  OBVIOUS
<1> QED BY <1>2, <1>3, <1>4, <1>5

\* A number that was written is read.
LEMMA ReadNumber ==
  ASSUME file \in Seq(SampleDBs!Byte), NEW at \in Nat, NEW n \in Nat, NEW size \in Nat,
         SampleDBs!Fits(n, size), Holds(file, at, SampleDBs!to_bytes(n, size))
  PROVE  SampleDBs!from_bytes(SampleDBs!read(at, size)) = n
<1>1. /\ SampleDBs!to_bytes(n, size) \in Seq(SampleDBs!Byte)
      /\ Len(SampleDBs!to_bytes(n, size)) = size
  BY ToBytes
<1>2. SampleDBs!read(at, size) = SampleDBs!to_bytes(n, size)
  BY <1>1, Read
<1> QED BY <1>2, BytesRoundTrip

\* The parts of what a file holds.
LEMMA HoldsParts ==
  ASSUME NEW f \in Seq(SampleDBs!Byte), NEW at \in Nat, NEW a \in Seq(SampleDBs!Byte),
         NEW b \in Seq(SampleDBs!Byte), Holds(f, at, a \o b)
  PROVE  Holds(f, at, a) /\ Holds(f, at + Len(a), b)
<1> DEFINE c == a \o b
<1>1. /\ Len(a) \in Nat /\ Len(b) \in Nat /\ Len(c) = Len(a) + Len(b) /\ Len(f) \in Nat
      /\ \A k \in 1 .. Len(a) : k \in 1 .. Len(c) /\ c[k] = a[k]
      /\ \A k \in 1 .. Len(b) : Len(a) + k \in 1 .. Len(c) /\ c[Len(a) + k] = b[k]
  OBVIOUS
<1>2. at + Len(c) <= Len(f) /\ \A k \in 1 .. Len(c) : f[at + k] = c[k]
  BY DEF Holds
<1> HIDE DEF c
<1>3. Holds(f, at, a)
  BY <1>1, <1>2 DEF Holds
<1>4. \A k \in 1 .. Len(b) : f[(at + Len(a)) + k] = b[k]
  <2> SUFFICES ASSUME NEW k \in 1 .. Len(b) PROVE f[(at + Len(a)) + k] = b[k]
    OBVIOUS
  <2>1. (at + Len(a)) + k = at + (Len(a) + k)
    BY <1>1
  <2> QED BY <2>1, <1>1, <1>2
<1> QED BY <1>1, <1>2, <1>3, <1>4 DEF Holds

\* The byte that stands for magic and schema.
Schema == <<IF labeled THEN 1 ELSE 0>>

SdbTypes ==
  /\ labeled \in BOOLEAN /\ open \in BOOLEAN /\ raised \in BOOLEAN
  /\ file \in Seq(SampleDBs!Byte) /\ pos \in Nat
  /\ offsets \in Seq(Nat) /\ num_samples = Len(added) /\ added \in Seq(Samples)

\* Every sample counted has an offset, and no number is too large for its bytes:
\* an entry takes at least a byte.
Offsets ==
  /\ Len(added) <= Len(offsets) /\ Len(added) < pos /\ pos >= 1 + 2 * BIGINT_SIZE
  /\ ~raised => Len(added) = Len(offsets)
  /\ SampleDBs!Fits(pos, BIGINT_SIZE)
  /\ \A i \in 1 .. Len(offsets) : offsets[i] <= pos

\* The entry of a sample is in f, between the lengths and the index.
Stored(f, s, at) ==
  /\ 1 + 2 * BIGINT_SIZE <= at /\ at + Len(SampleDBs!Entry(s)) <= pos
  /\ SampleDBs!Fits(Len(SampleDBs!Columns(s)), INT_SIZE)
  /\ Holds(f, at, SampleDBs!Entry(s))

Entries(f) ==
  /\ Holds(f, 0, Schema)
  /\ \A i \in 1 .. Len(added) : Stored(f, added[i], offsets[i])

\* The lengths and the index, once close() has written them.
Closed(f) ==
  /\ Holds(f, 1, SampleDBs!to_bytes(pos - 1 - BIGINT_SIZE, BIGINT_SIZE))
  /\ Holds(f, pos + BIGINT_SIZE, SampleDBs!to_bytes(Len(added), BIGINT_SIZE))
  /\ \A i \in 1 .. Len(offsets) :
       Holds(f, pos + (1 + i) * BIGINT_SIZE, SampleDBs!to_bytes(offsets[i], BIGINT_SIZE))

SdbInv ==
  /\ SdbTypes /\ Offsets /\ Entries(file)
  /\ open => Len(file) <= pos
  /\ ~open => Closed(file)

\* The entry of a sample: its length, then the columns.
LEMMA EntryProps ==
  ASSUME labeled \in BOOLEAN, NEW s \in Samples
  PROVE  /\ s.audio \in Seq(SampleDBs!Byte) /\ s.transcript \in Seq(SampleDBs!Byte)
         /\ SampleDBs!Columns(s) \in Seq(SampleDBs!Byte)
         /\ SampleDBs!Entry(s) \in Seq(SampleDBs!Byte) /\ Len(SampleDBs!Entry(s)) > 0
         /\ SampleDBs!to_bytes(Len(SampleDBs!Columns(s)), INT_SIZE) \in Seq(SampleDBs!Byte)
         /\ Len(SampleDBs!to_bytes(Len(SampleDBs!Columns(s)), INT_SIZE)) = INT_SIZE
         /\ SampleDBs!Entry(s) =
              SampleDBs!to_bytes(Len(SampleDBs!Columns(s)), INT_SIZE) \o SampleDBs!Columns(s)
<1>1. s.audio \in Seq(SampleDBs!Byte) /\ s.transcript \in Seq(SampleDBs!Byte) /\ INT_SIZE \in Nat
  BY SdbConstants
<1>2. Len(s.audio) \in Nat /\ Len(s.transcript) \in Nat
  BY <1>1
<1>3. /\ SampleDBs!to_bytes(Len(s.audio), INT_SIZE) \in Seq(SampleDBs!Byte)
      /\ SampleDBs!to_bytes(Len(s.transcript), INT_SIZE) \in Seq(SampleDBs!Byte)
  BY <1>1, <1>2, ToBytes
<1>4. SampleDBs!Columns(s) \in Seq(SampleDBs!Byte)
  BY <1>1, <1>3 DEF SampleDBs!Columns
<1>5. Len(SampleDBs!Columns(s)) \in Nat
  BY <1>4
<1>6. /\ SampleDBs!to_bytes(Len(SampleDBs!Columns(s)), INT_SIZE) \in Seq(SampleDBs!Byte)
      /\ Len(SampleDBs!to_bytes(Len(SampleDBs!Columns(s)), INT_SIZE)) = INT_SIZE
  BY <1>1, <1>5, ToBytes
<1>7. SampleDBs!Entry(s) =
        SampleDBs!to_bytes(Len(SampleDBs!Columns(s)), INT_SIZE) \o SampleDBs!Columns(s)
  BY DEF SampleDBs!Entry
<1>8. SampleDBs!Entry(s) \in Seq(SampleDBs!Byte) /\ Len(SampleDBs!Entry(s)) > 0
  BY <1>4, <1>5, <1>6, <1>7, SdbConstants
<1> QED BY <1>1, <1>4, <1>6, <1>7, <1>8

LEMMA Concat ==
  ASSUME NEW a \in Seq(SampleDBs!Byte), NEW b \in Seq(SampleDBs!Byte)
  PROVE  a \o b \in Seq(SampleDBs!Byte) /\ Len(a \o b) = Len(a) + Len(b)
OBVIOUS

\* A stored sample is read back.
LEMMA StoredRead ==
  ASSUME SdbTypes, NEW s \in Samples, NEW at \in Nat, Stored(file, s, at), Holds(file, 0, Schema)
  PROVE  SampleDBs!ReadRow(at) = [s EXCEPT !.transcript = IF labeled THEN @ ELSE << >>]
<1> DEFINE columns == SampleDBs!Columns(s)
           a == SampleDBs!to_bytes(Len(s.audio), INT_SIZE)
           b == SampleDBs!to_bytes(Len(s.transcript), INT_SIZE)
           audio == at + INT_SIZE
           text == audio + INT_SIZE + Len(s.audio)
<1>1. /\ labeled \in BOOLEAN /\ file \in Seq(SampleDBs!Byte) /\ INT_SIZE \in Nat
      /\ s \in [audio : Seq(SampleDBs!Byte), transcript : Seq(SampleDBs!Byte)]
  BY SdbConstants DEF SdbTypes
<1>2. /\ s.audio \in Seq(SampleDBs!Byte) /\ s.transcript \in Seq(SampleDBs!Byte)
      /\ Len(s.audio) \in Nat /\ Len(s.transcript) \in Nat /\ columns \in Seq(SampleDBs!Byte)
      /\ Len(columns) \in Nat /\ audio \in Nat /\ text \in Nat
  BY <1>1, EntryProps
<1>3. /\ a \in Seq(SampleDBs!Byte) /\ Len(a) = INT_SIZE
      /\ b \in Seq(SampleDBs!Byte) /\ Len(b) = INT_SIZE
  BY <1>1, <1>2, ToBytes
<1>4. Holds(file, audio, columns)
  <2>1. Holds(file, at, SampleDBs!to_bytes(Len(columns), INT_SIZE) \o columns)
    BY <1>1, EntryProps DEF Stored
  <2>2. /\ SampleDBs!to_bytes(Len(columns), INT_SIZE) \in Seq(SampleDBs!Byte)
        /\ Len(SampleDBs!to_bytes(Len(columns), INT_SIZE)) = INT_SIZE
    BY <1>1, EntryProps
  <2> QED BY <1>1, <1>2, <2>1, <2>2, HoldsParts
<1>5. SampleDBs!Fits(Len(columns), INT_SIZE)
  BY DEF Stored
<1>6. columns = IF labeled THEN (a \o s.audio) \o (b \o s.transcript) ELSE a \o s.audio
  BY DEF SampleDBs!Columns
<1> HIDE DEF columns, a, b
<1>7. /\ a \o s.audio \in Seq(SampleDBs!Byte) /\ Len(a \o s.audio) = INT_SIZE + Len(s.audio)
      /\ b \o s.transcript \in Seq(SampleDBs!Byte)
      /\ Len(b \o s.transcript) = INT_SIZE + Len(s.transcript)
  <2>1. a \o s.audio \in Seq(SampleDBs!Byte) /\ Len(a \o s.audio) = Len(a) + Len(s.audio)
    BY <1>2, <1>3, Concat
  <2>2. /\ b \o s.transcript \in Seq(SampleDBs!Byte)
        /\ Len(b \o s.transcript) = Len(b) + Len(s.transcript)
    BY <1>2, <1>3, Concat
  <2> QED BY <2>1, <2>2, <1>3
<1>8. Holds(file, audio, a \o s.audio) /\ (labeled => Holds(file, text, b \o s.transcript))
  <2>1. CASE labeled
    <3>1. Holds(file, audio, (a \o s.audio) \o (b \o s.transcript))
      BY <2>1, <1>4, <1>6
    <3>2. /\ Holds(file, audio, a \o s.audio)
          /\ Holds(file, audio + Len(a \o s.audio), b \o s.transcript)
      BY <3>1, <1>1, <1>2, <1>7, HoldsParts
    <3>3. audio + Len(a \o s.audio) = text
      BY <1>1, <1>2, <1>7
    <3> QED BY <3>2, <3>3
  <2>2. CASE ~labeled
    BY <2>2, <1>4, <1>6
  <2> QED BY <2>1, <2>2
<1>9. Holds(file, audio, a) /\ Holds(file, audio + INT_SIZE, s.audio)
  BY <1>1, <1>2, <1>3, <1>8, HoldsParts
<1>10. SampleDBs!Fits(Len(s.audio), INT_SIZE) /\ (labeled => SampleDBs!Fits(Len(s.transcript), INT_SIZE))
  <2>1. Len(columns) = IF labeled THEN (INT_SIZE + Len(s.audio)) + (INT_SIZE + Len(s.transcript))
                       ELSE INT_SIZE + Len(s.audio)
    <3>1. CASE labeled
      BY <3>1, <1>6, <1>7, Concat
    <3>2. CASE ~labeled
      BY <3>2, <1>6, <1>7
    <3> QED BY <3>1, <3>2
  <2>2. Len(s.audio) \in 0 .. Len(columns) /\ (labeled => Len(s.transcript) \in 0 .. Len(columns))
    BY <1>1, <1>2, <2>1
  <2> QED BY <1>1, <1>2, <1>5, <2>2, FitsLess
<1>11. SampleDBs!read_int(audio) = Len(s.audio)
  BY <1>1, <1>2, <1>9, <1>10, ReadNumber DEF SampleDBs!read_int, a
<1>12. SampleDBs!read(audio + INT_SIZE, Len(s.audio)) = s.audio
  <2>1. audio + INT_SIZE \in Nat
    BY <1>1, <1>2
  <2> QED BY <1>1, <1>2, <1>9, <2>1, Read
<1>13. file[1] = IF labeled THEN 1 ELSE 0
  <2>1. Len(Schema) = 1 /\ Schema[1] = IF labeled THEN 1 ELSE 0
    BY DEF Schema
  <2>2. file[0 + 1] = Schema[1]
    BY <2>1 DEF Holds
  <2> QED BY <2>1, <2>2
<1>14. ASSUME labeled
       PROVE  /\ SampleDBs!read_int(text) = Len(s.transcript)
              /\ SampleDBs!read(text + INT_SIZE, Len(s.transcript)) = s.transcript
  <2>1. Holds(file, text, b) /\ Holds(file, text + INT_SIZE, s.transcript)
    BY <1>1, <1>2, <1>3, <1>8, <1>14, HoldsParts
  <2>2. text + INT_SIZE \in Nat
    BY <1>1, <1>2
  <2>3. SampleDBs!read_int(text) = Len(s.transcript)
    BY <1>1, <1>2, <2>1, <1>10, <1>14, ReadNumber DEF SampleDBs!read_int, b
  <2>4. SampleDBs!read(text + INT_SIZE, Len(s.transcript)) = s.transcript
    BY <1>1, <1>2, <2>1, <2>2, Read
  <2> QED BY <2>3, <2>4
<1>15. SampleDBs!ReadRow(at) =
         [audio |-> SampleDBs!read(audio + INT_SIZE, Len(s.audio)),
          transcript |-> IF file[1] = 1
                         THEN SampleDBs!read(text + INT_SIZE, SampleDBs!read_int(text))
                         ELSE << >>]
  BY <1>11 DEF SampleDBs!ReadRow
<1>16. SampleDBs!ReadRow(at) =
         [audio |-> s.audio, transcript |-> IF labeled THEN s.transcript ELSE << >>]
  BY <1>12, <1>13, <1>14, <1>15
<1>17. [s EXCEPT !.transcript = IF labeled THEN @ ELSE << >>] =
         [audio |-> s.audio, transcript |-> IF labeled THEN s.transcript ELSE << >>]
  BY <1>1
<1> QED BY <1>16, <1>17

LEMMA SdbInit == SampleDBs!Init => SdbInv
<1> SUFFICES ASSUME SampleDBs!Init PROVE SdbInv
  OBVIOUS
<1>1. /\ labeled \in BOOLEAN /\ file = Schema /\ pos = 1 + 2 * BIGINT_SIZE
      /\ offsets = << >> /\ num_samples = 0 /\ open = TRUE /\ raised = FALSE /\ added = << >>
  BY DEF SampleDBs!Init, SampleDBs!offset_samples, Schema
<1>2. BIGINT_SIZE \in Nat /\ SampleDBs!Fits(pos, BIGINT_SIZE)
  BY <1>1, SdbConstants
<1>3. Schema \in Seq(SampleDBs!Byte) /\ Len(Schema) = 1
  BY <1>1 DEF Schema, SampleDBs!Byte
<1>4. SdbTypes
  <2>1. labeled \in BOOLEAN /\ open \in BOOLEAN /\ raised \in BOOLEAN
    BY <1>1
  <2>2. /\ file \in Seq(SampleDBs!Byte) /\ pos \in Nat
        /\ offsets \in Seq(Nat) /\ num_samples = Len(added) /\ added \in Seq(Samples)
    BY <1>1, <1>2, <1>3
  <2> QED BY <2>1, <2>2 DEF SdbTypes
<1>5. Offsets
  BY <1>1, <1>2 DEF Offsets
<1>6. Entries(file)
  BY <1>1, <1>3 DEF Entries, Holds
<1> QED BY <1>1, <1>2, <1>3, <1>4, <1>5, <1>6 DEF SdbInv

\* The reader's view of a closed file.
LEMMA SdbSound == SdbInv => SamplesRead
<1> SUFFICES ASSUME SdbInv PROVE SamplesRead
  OBVIOUS
<1>1. SdbTypes /\ Offsets /\ Entries(file)
  BY DEF SdbInv
<1>2. SampleDBs!TypeOK
  BY <1>1 DEF SdbTypes, SampleDBs!TypeOK
<1> DEFINE written == [i \in DOMAIN added |->
                         [added[i] EXCEPT !.transcript = IF labeled THEN @ ELSE << >>]]
<1>3. ASSUME ~open
      PROVE  SampleDBs!ReadAll(FALSE) = written /\ SampleDBs!ReadAll(TRUE) = SampleDBs!Reverse(written)
  <2> DEFINE n == Len(added)
             index == pos + BIGINT_SIZE
  <2>1. /\ file \in Seq(SampleDBs!Byte) /\ pos \in Nat /\ offsets \in Seq(Nat)
        /\ added \in Seq(Samples) /\ n \in Nat /\ Len(offsets) \in Nat /\ n <= Len(offsets)
        /\ n < pos /\ BIGINT_SIZE \in Nat /\ DOMAIN added = 1 .. n
        /\ pos >= 1 + 2 * BIGINT_SIZE
    BY <1>1, SdbConstants DEF SdbTypes, Offsets
  <2>2. Closed(file)
    BY <1>3 DEF SdbInv
  <2>3. SampleDBs!Fits(pos, BIGINT_SIZE)
    BY <1>1 DEF Offsets
  <2>4. SampleDBs!read_big_int(1) = pos - 1 - BIGINT_SIZE
    <3>1. pos - 1 - BIGINT_SIZE \in Nat /\ pos - 1 - BIGINT_SIZE \in 0 .. pos
      BY <2>1
    <3>2. SampleDBs!Fits(pos - 1 - BIGINT_SIZE, BIGINT_SIZE)
      BY <2>1, <2>3, <3>1, FitsLess
    <3>3. Holds(file, 1, SampleDBs!to_bytes(pos - 1 - BIGINT_SIZE, BIGINT_SIZE))
      BY <2>2 DEF Closed
    <3> QED BY <2>1, <3>1, <3>2, <3>3, ReadNumber DEF SampleDBs!read_big_int
  <2>5. 1 + BIGINT_SIZE + (pos - 1 - BIGINT_SIZE) + BIGINT_SIZE = index /\ index \in Nat
    BY <2>1
  <2>6. SampleDBs!read_big_int(index) = n
    <3>1. n \in 0 .. pos
      BY <2>1
    <3>2. SampleDBs!Fits(n, BIGINT_SIZE)
      BY <2>1, <2>3, <3>1, FitsLess
    <3>3. Holds(file, index, SampleDBs!to_bytes(n, BIGINT_SIZE))
      BY <2>2 DEF Closed
    <3> QED BY <2>1, <2>5, <3>2, <3>3, ReadNumber DEF SampleDBs!read_big_int
  <2>7. ASSUME NEW i \in 1 .. n PROVE SampleDBs!read_big_int(index + i * BIGINT_SIZE) = offsets[i]
    <3>1. i \in 1 .. Len(offsets) /\ offsets[i] \in Nat /\ i \in Nat
      BY <2>1
    <3>2. offsets[i] \in 0 .. pos
      BY <2>1, <3>1, <1>1 DEF Offsets
    <3>3. SampleDBs!Fits(offsets[i], BIGINT_SIZE)
      BY <2>1, <2>3, <3>2, FitsLess
    <3>4. i * BIGINT_SIZE \in Nat /\ index + i * BIGINT_SIZE = pos + (1 + i) * BIGINT_SIZE
      BY <2>1, <3>1
    <3>5. Holds(file, pos + (1 + i) * BIGINT_SIZE, SampleDBs!to_bytes(offsets[i], BIGINT_SIZE))
      BY <2>2, <3>1 DEF Closed
    <3>6. index + i * BIGINT_SIZE \in Nat
      BY <2>5, <3>4
    <3>7. Holds(file, index + i * BIGINT_SIZE, SampleDBs!to_bytes(offsets[i], BIGINT_SIZE))
      BY <3>4, <3>5
    <3> QED BY <2>1, <3>1, <3>3, <3>6, <3>7, ReadNumber DEF SampleDBs!read_big_int
  <2> DEFINE found == [i \in 1 .. n |-> offsets[i]]
  <2>8. /\ SampleDBs!ReadOffsets(FALSE) = found
        /\ SampleDBs!ReadOffsets(TRUE) = SampleDBs!Reverse(found)
    <3> DEFINE f == [i \in 1 .. SampleDBs!read_big_int(index) |->
                       SampleDBs!read_big_int(index + i * BIGINT_SIZE)]
    <3>1. f = found
      BY <2>6, <2>7
    <3>2. 1 + BIGINT_SIZE + SampleDBs!read_big_int(1) + BIGINT_SIZE = index
      BY <2>4, <2>5
    <3>3. /\ SampleDBs!ReadOffsets(FALSE) = f
          /\ SampleDBs!ReadOffsets(TRUE) = SampleDBs!Reverse(f)
      BY <3>2 DEF SampleDBs!ReadOffsets, SampleDBs!offset_samples
    <3> QED BY <3>1, <3>3
  <2>9. ASSUME NEW i \in 1 .. n PROVE SampleDBs!ReadRow(offsets[i]) = written[i]
    <3>1. Stored(file, added[i], offsets[i]) /\ Holds(file, 0, Schema)
      BY <1>1 DEF Entries
    <3>2. added[i] \in Samples /\ offsets[i] \in Nat
      BY <2>1
    <3>3. SampleDBs!ReadRow(offsets[i]) =
            [added[i] EXCEPT !.transcript = IF labeled THEN @ ELSE << >>]
      BY <1>1, <3>1, <3>2, StoredRead
    <3> QED BY <2>1, <3>3
  <2>10. DOMAIN written = 1 .. n /\ written = [i \in 1 .. n |-> written[i]]
    BY <2>1
  <2> HIDE DEF written
  <2>11. Len(written) = n /\ Len(found) = n
    BY <2>1, <2>10
  <2>12. SampleDBs!ReadAll(FALSE) = written
    <3>1. SampleDBs!ReadAll(FALSE) = [i \in DOMAIN found |-> SampleDBs!ReadRow(found[i])]
      BY <2>8 DEF SampleDBs!ReadAll
    <3>2. DOMAIN found = 1 .. n /\ \A i \in 1 .. n : SampleDBs!ReadRow(found[i]) = written[i]
      BY <2>9
    <3> QED BY <3>1, <3>2, <2>10
  <2>13. SampleDBs!ReadAll(TRUE) = SampleDBs!Reverse(written)
    <3> DEFINE back == SampleDBs!Reverse(found)
    <3>1. back = [i \in 1 .. n |-> found[(n - i) + 1]]
      BY <2>11 DEF SampleDBs!Reverse
    <3>2. \A i \in 1 .. n : (n - i) + 1 \in 1 .. n
      BY <2>1
    <3>3. \A i \in 1 .. n : SampleDBs!ReadRow(back[i]) = written[(n - i) + 1]
      BY <3>1, <3>2, <2>9
    <3>4. DOMAIN back = 1 .. n
      BY <3>1
    <3> HIDE DEF back
    <3>5. SampleDBs!ReadAll(TRUE) = [i \in 1 .. n |-> SampleDBs!ReadRow(back[i])]
      BY <2>8, <3>4 DEF SampleDBs!ReadAll, back
    <3>6. SampleDBs!Reverse(written) = [i \in 1 .. n |-> written[(n - i) + 1]]
      BY <2>11 DEF SampleDBs!Reverse
    <3> QED BY <3>3, <3>5, <3>6
  <2> QED BY <2>12, <2>13
<1>4. SampleDBs!ReadsWhatWasAdded
  <2> DEFINE Same == SampleDBs!ReadAll(FALSE) = written
                     /\ SampleDBs!ReadAll(TRUE) = SampleDBs!Reverse(written)
  <2>1. SampleDBs!ReadsWhatWasAdded = (~open => Same)
    BY DEF SampleDBs!ReadsWhatWasAdded
  <2> HIDE DEF Same
  <2>2. ~open => Same
    BY <1>3 DEF Same
  <2> QED BY <2>1, <2>2
<1> QED BY <1>2, <1>4 DEF SamplesRead

\* Adding i-th offsets one after the other loses nothing written before.
LEMMA IndexedProps ==
  ASSUME offsets \in Seq(Nat), NEW f \in Seq(SampleDBs!Byte), NEW at \in Nat
  PROVE  /\ SampleDBs!Indexed(f, at)[0] = f
         /\ \A i \in 1 .. Len(offsets) :
              SampleDBs!Indexed(f, at)[i] =
                SampleDBs!write(SampleDBs!Indexed(f, at)[i - 1], at + (1 + i) * BIGINT_SIZE,
                                SampleDBs!to_bytes(offsets[i], BIGINT_SIZE))
<1> DEFINE V == Seq(SampleDBs!Byte)
           m == Len(offsets)
           w(g, i) == SampleDBs!write(g, at + (1 + i) * BIGINT_SIZE,
                                      SampleDBs!to_bytes(offsets[i], BIGINT_SIZE))
           g == [x \in V \X (1 .. m) |-> w(x[1], x[2])]
<1>1. m \in Nat /\ f \in V
  OBVIOUS
<1>2. ASSUME NEW h \in V, NEW i \in 1 .. m PROVE w(h, i) \in V
  <2>1. offsets[i] \in Nat /\ BIGINT_SIZE \in Nat
    BY SdbConstants
  <2>2. at + (1 + i) * BIGINT_SIZE \in Nat
    <3>1. (1 + i) * BIGINT_SIZE \in Nat
      BY <2>1
    <3> QED BY <3>1
  <2>3. SampleDBs!to_bytes(offsets[i], BIGINT_SIZE) \in V
    BY <2>1, ToBytes
  <2> QED BY <2>2, <2>3, Write
<1> HIDE DEF w, V, m
<1>3. g \in [V \X (1 .. m) -> V]
  BY <1>2
<1>4. PICK h \in [0 .. m -> V] : h[0] = f /\ \A i \in 1 .. m : h[i] = g[<<h[i - 1], i>>]
  <2> HIDE DEF g
  <2>1. \E h : Iterates(h, m, V, f, g)
    BY <1>1, <1>3, Recursion
  <2> QED BY <2>1 DEF Iterates
<1>5. \A i \in 1 .. m : h[i] = w(h[i - 1], i)
  <2> SUFFICES ASSUME NEW i \in 1 .. m PROVE h[i] = w(h[i - 1], i)
    OBVIOUS
  <2>1. <<h[i - 1], i>> \in V \X (1 .. m)
    BY <1>4, <1>1
  <2> QED BY <2>1, <1>4
<1>6. h = [i \in 0 .. m |-> IF i = 0 THEN f ELSE w(h[i - 1], i)]
  BY <1>1, <1>4, <1>5
<1> HIDE DEF g
<1> DEFINE a == SampleDBs!Indexed(f, at)
<1>7. a = [i \in 0 .. m |-> IF i = 0 THEN f ELSE w(a[i - 1], i)]
  <2>1. \E y : y = [i \in 0 .. m |-> IF i = 0 THEN f ELSE w(y[i - 1], i)]
    BY <1>6
  <2>2. a = CHOOSE y : y = [i \in 0 .. m |-> IF i = 0 THEN f ELSE w(y[i - 1], i)]
    BY DEF SampleDBs!Indexed, m, w
  <2> HIDE DEF a
  <2> QED BY <2>1, <2>2
<1> HIDE DEF a
<1>8. a[0] = f /\ \A i \in 1 .. m : a[i] = w(a[i - 1], i)
  BY <1>7, <1>1
<1> QED BY <1>8 DEF a, m, w

\* What a write far enough leaves of a file.
LEMMA WriteKeeps ==
  ASSUME NEW f \in Seq(SampleDBs!Byte), NEW at \in Nat, NEW n \in Nat,
         NEW from \in Nat, NEW c \in Seq(SampleDBs!Byte), Holds(f, from, c),
         from + Len(c) <= at \/ at + BIGINT_SIZE <= from
  PROVE  Holds(SampleDBs!write(f, at, SampleDBs!to_bytes(n, BIGINT_SIZE)), from, c)
<1>1. /\ SampleDBs!to_bytes(n, BIGINT_SIZE) \in Seq(SampleDBs!Byte)
      /\ Len(SampleDBs!to_bytes(n, BIGINT_SIZE)) = BIGINT_SIZE
  BY SdbConstants, ToBytes
<1> QED BY <1>1, Write

\* A big int that was written is there.
LEMMA WriteHolds ==
  ASSUME NEW f \in Seq(SampleDBs!Byte), NEW at \in Nat, NEW n \in Nat
  PROVE  /\ SampleDBs!write(f, at, SampleDBs!to_bytes(n, BIGINT_SIZE)) \in Seq(SampleDBs!Byte)
         /\ Holds(SampleDBs!write(f, at, SampleDBs!to_bytes(n, BIGINT_SIZE)), at,
                  SampleDBs!to_bytes(n, BIGINT_SIZE))
<1>1. SampleDBs!to_bytes(n, BIGINT_SIZE) \in Seq(SampleDBs!Byte)
  BY SdbConstants, ToBytes
<1> QED BY <1>1, Write

LEMMA Products ==
  ASSUME NEW b \in Nat, NEW i \in Nat, NEW j \in Nat, i <= j
  PROVE  i * b \in Nat /\ j * b \in Nat /\ i * b <= j * b /\ (i + 1) * b = i * b + b
<1>1. PICK d \in Nat : j = i + d
  <2>1. j - i \in Nat /\ j = i + (j - i)
    OBVIOUS
  <2> QED BY <2>1
<1>2. i * b \in Nat /\ d * b \in Nat
  OBVIOUS
<1>3. j * b = i * b + d * b
  BY <1>1
<1> QED BY <1>2, <1>3

\* The loop of close() keeps what comes before the offsets in the file, and
\* leaves the offsets.
LEMMA IndexedHolds ==
  ASSUME offsets \in Seq(Nat), NEW f \in Seq(SampleDBs!Byte), NEW at \in Nat
  PROVE  /\ SampleDBs!Indexed(f, at)[Len(offsets)] \in Seq(SampleDBs!Byte)
         /\ \A from \in Nat : \A c \in Seq(SampleDBs!Byte) :
              Holds(f, from, c) /\ from + Len(c) <= at + 2 * BIGINT_SIZE
                => Holds(SampleDBs!Indexed(f, at)[Len(offsets)], from, c)
         /\ \A i \in 1 .. Len(offsets) :
              Holds(SampleDBs!Indexed(f, at)[Len(offsets)], at + (1 + i) * BIGINT_SIZE,
                    SampleDBs!to_bytes(offsets[i], BIGINT_SIZE))
<1> DEFINE m == Len(offsets)
           a == SampleDBs!Indexed(f, at)
           p(i) == at + (1 + i) * BIGINT_SIZE
           t(i) == SampleDBs!to_bytes(offsets[i], BIGINT_SIZE)
           Kept_(n) == \A from \in Nat : \A c \in Seq(SampleDBs!Byte) :
                         Holds(f, from, c) /\ from + Len(c) <= at + 2 * BIGINT_SIZE
                           => Holds(a[n], from, c)
           There(n) == \A i \in 1 .. n : Holds(a[n], p(i), t(i))
           S == {n \in 0 .. m : a[n] \in Seq(SampleDBs!Byte) /\ Kept_(n) /\ There(n)}
<1>1. m \in Nat /\ BIGINT_SIZE \in Nat /\ \A i \in 1 .. m : offsets[i] \in Nat
  BY SdbConstants
<1>2. a[0] = f /\ \A i \in 1 .. m : a[i] = SampleDBs!write(a[i - 1], p(i), t(i))
  BY IndexedProps
<1>3. ASSUME NEW i \in 1 .. m
      PROVE  p(i) \in Nat /\ t(i) \in Seq(SampleDBs!Byte) /\ Len(t(i)) = BIGINT_SIZE
             /\ at + 2 * BIGINT_SIZE <= p(i)
  <2>1. t(i) \in Seq(SampleDBs!Byte) /\ Len(t(i)) = BIGINT_SIZE
    BY <1>1, ToBytes
  <2>2. 2 \in Nat /\ 1 + i \in Nat /\ 2 <= 1 + i
    BY <1>1
  <2>3. (1 + i) * BIGINT_SIZE \in Nat /\ 2 * BIGINT_SIZE <= (1 + i) * BIGINT_SIZE
        /\ 2 * BIGINT_SIZE \in Nat
    BY <1>1, <2>2, Products
  <2>4. PICK x \in Nat : x = (1 + i) * BIGINT_SIZE
    BY <2>3
  <2>5. PICK y \in Nat : y = 2 * BIGINT_SIZE
    BY <2>3
  <2>6. y <= x /\ p(i) = at + x
    BY <2>3, <2>4, <2>5, Zenon
  <2> HIDE DEF t, p
  <2>7. p(i) \in Nat /\ at + y <= p(i)
    BY <2>6
  <2> QED BY <2>1, <2>5, <2>7, Zenon
<1>4. ASSUME NEW j \in 1 .. m, NEW i \in 1 .. j - 1 PROVE p(i) + BIGINT_SIZE <= p(j)
  <2>1. 1 + i \in Nat /\ 2 + i \in Nat /\ 1 + j \in Nat /\ 2 + i <= 1 + j /\ 2 + i = (1 + i) + 1
    BY <1>1
  <2>2. (1 + i) * BIGINT_SIZE \in Nat /\ ((1 + i) + 1) * BIGINT_SIZE = (1 + i) * BIGINT_SIZE + BIGINT_SIZE
    BY <1>1, <2>1, Products
  <2>3. (2 + i) * BIGINT_SIZE <= (1 + j) * BIGINT_SIZE /\ (1 + j) * BIGINT_SIZE \in Nat
    BY <1>1, <2>1, Products
  <2>4. (2 + i) * BIGINT_SIZE = (1 + i) * BIGINT_SIZE + BIGINT_SIZE
    BY <2>1, <2>2
  <2> QED BY <1>1, <2>2, <2>3, <2>4
<1> HIDE DEF m, a, p, t
<1>5. 0 \in S
  BY <1>1, <1>2
<1>6. ASSUME NEW n \in 0 .. m - 1, n \in S PROVE n + 1 \in S
  <2> DEFINE j == n + 1
  <2>1. j \in 1 .. m /\ j \in 0 .. m /\ j - 1 = n
    BY <1>1
  <2>2. a[n] \in Seq(SampleDBs!Byte) /\ Kept_(n) /\ There(n)
    BY <1>6
  <2>3. a[j] = SampleDBs!write(a[n], p(j), t(j))
    BY <1>2, <2>1
  <2>4. p(j) \in Nat /\ t(j) \in Seq(SampleDBs!Byte) /\ Len(t(j)) = BIGINT_SIZE
        /\ at + 2 * BIGINT_SIZE <= p(j)
    BY <1>3, <2>1
  <2> HIDE DEF j
  <2>5. /\ a[j] \in Seq(SampleDBs!Byte) /\ Holds(a[j], p(j), t(j))
        /\ \A from \in Nat : \A c \in Seq(SampleDBs!Byte) :
             Holds(a[n], from, c) /\ (from + Len(c) <= p(j) \/ p(j) + Len(t(j)) <= from)
               => Holds(a[j], from, c)
    <3> DEFINE g == a[n]
               at_ == p(j)
               c_ == t(j)
    <3>1. g \in Seq(SampleDBs!Byte) /\ at_ \in Nat /\ c_ \in Seq(SampleDBs!Byte)
      BY <2>2, <2>4
    <3> HIDE DEF g, at_, c_
    <3>2. /\ SampleDBs!write(g, at_, c_) \in Seq(SampleDBs!Byte)
          /\ Holds(SampleDBs!write(g, at_, c_), at_, c_)
          /\ \A from \in Nat : \A c \in Seq(SampleDBs!Byte) :
               Holds(g, from, c) /\ (from + Len(c) <= at_ \/ at_ + Len(c_) <= from)
                 => Holds(SampleDBs!write(g, at_, c_), from, c)
      BY <3>1, Write
    <3> QED BY <3>2, <2>3 DEF g, at_, c_
  <2>6. Kept_(j)
    <3> SUFFICES ASSUME NEW from \in Nat, NEW c \in Seq(SampleDBs!Byte), Holds(f, from, c),
                        from + Len(c) <= at + 2 * BIGINT_SIZE
                 PROVE  Holds(a[j], from, c)
      OBVIOUS
    <3>1. Holds(a[n], from, c)
      BY <2>2
    <3>2. from + Len(c) <= p(j)
      BY <1>1, <2>4
    <3> QED BY <2>5, <3>1, <3>2
  <2>7. There(j)
    <3> SUFFICES ASSUME NEW i \in 1 .. j PROVE Holds(a[j], p(i), t(i))
      OBVIOUS
    <3>1. CASE i = j
      BY <3>1, <2>5
    <3>2. CASE i # j
      <4>1. i \in 1 .. n /\ i \in 1 .. m /\ i \in 1 .. j - 1
        BY <3>2, <2>1, <1>1 DEF j
      <4>2. Holds(a[n], p(i), t(i))
        BY <4>1, <2>2
      <4>3. p(i) \in Nat /\ t(i) \in Seq(SampleDBs!Byte) /\ Len(t(i)) = BIGINT_SIZE
        BY <4>1, <1>3
      <4>4. p(i) + BIGINT_SIZE <= p(j)
        BY <4>1, <2>1, <1>4
      <4>5. p(i) + Len(t(i)) <= p(j)
        BY <4>3, <4>4
      <4> QED BY <4>2, <4>3, <4>5, <2>5
    <3> QED BY <3>1, <3>2
  <2> HIDE DEF Kept_, There
  <2> QED BY <2>1, <2>5, <2>6, <2>7 DEF j
<1>7. m \in S
  <2> HIDE DEF S
  <2>1. \A n \in 0 .. m : n \in S
    BY <1>1, <1>5, <1>6, UpTo
  <2> QED BY <1>1, <2>1
<1> QED BY <1>7 DEF m, a, p, t

\* The file that close() leaves.
LEMMA IndexHolds ==
  ASSUME SdbInv, open
  PROVE  /\ SampleDBs!Index(pos) \in Seq(SampleDBs!Byte)
         /\ Entries(SampleDBs!Index(pos)) /\ Closed(SampleDBs!Index(pos))
<1> DEFINE B == BIGINT_SIZE
           V == Seq(SampleDBs!Byte)
           num(n) == SampleDBs!to_bytes(n, B)
           n0 == pos - 1 - B
           n1 == Len(added)
           n2 == (1 + Len(offsets)) * B
           f1 == SampleDBs!write(file, 1, num(n0))
           f2 == SampleDBs!write(f1, 1 + B, num(n1))
           f3 == SampleDBs!write(f2, pos + B, num(n1))
           f4 == SampleDBs!Indexed(f3, pos)[Len(offsets)]
           f5 == SampleDBs!write(f4, pos, num(n2))
<1>1. /\ file \in V /\ pos \in Nat /\ B \in Nat /\ B > 0 /\ offsets \in Seq(Nat)
      /\ Len(offsets) \in Nat /\ num_samples = n1 /\ n1 \in Nat /\ pos >= 1 + 2 * B
      /\ added \in Seq(Samples) /\ labeled \in BOOLEAN
  BY SdbConstants DEF SdbInv, SdbTypes, Offsets
<1>2. n0 \in Nat /\ n2 \in Nat /\ 1 + B \in Nat /\ pos + B \in Nat
  BY <1>1
<1>3. SampleDBs!Index(pos) = f5
  BY <1>1 DEF SampleDBs!Index, SampleDBs!Counted, SampleDBs!Header, SampleDBs!offset_samples
<1> HIDE DEF n0, n1, n2
<1>4. \A n \in Nat : num(n) \in V /\ Len(num(n)) = B
  BY <1>1, ToBytes
<1>5. f1 \in V /\ Holds(f1, 1, num(n0))
  BY <1>1, <1>2, WriteHolds
<1> HIDE DEF f1
<1>6. f2 \in V /\ Holds(f2, 1 + B, num(n1))
  BY <1>1, <1>2, <1>5, WriteHolds
<1> HIDE DEF f2
<1>7. f3 \in V /\ Holds(f3, pos + B, num(n1))
  BY <1>1, <1>2, <1>6, WriteHolds
<1> HIDE DEF f3
<1>8. /\ f4 \in V
      /\ \A from \in Nat : \A c \in V :
           Holds(f3, from, c) /\ from + Len(c) <= pos + 2 * B => Holds(f4, from, c)
      /\ \A i \in 1 .. Len(offsets) : Holds(f4, pos + (1 + i) * B, num(offsets[i]))
  BY <1>1, <1>7, IndexedHolds
<1> HIDE DEF f4
<1>9. f5 \in V
  BY <1>1, <1>2, <1>8, WriteHolds
\* What is left of the bytes that come before the end of the samples.
<1>10. ASSUME NEW from \in Nat, NEW c \in V, Holds(f2, from, c), from + Len(c) <= pos
       PROVE  Holds(f5, from, c)
  <2>1. Len(c) \in Nat /\ from + Len(c) <= pos + B /\ from + Len(c) <= pos + 2 * B
    BY <1>1, <1>10
  <2>2. Holds(f3, from, c)
    BY <1>1, <1>2, <1>6, <1>10, <2>1, WriteKeeps DEF f3
  <2>3. Holds(f4, from, c)
    BY <1>8, <2>1, <2>2
  <2> QED BY <1>1, <1>2, <1>8, <1>10, <2>3, WriteKeeps
\* What is left of the index.
<1>11. ASSUME NEW from \in Nat, NEW c \in V, Holds(f4, from, c), pos + B <= from
       PROVE  Holds(f5, from, c)
  BY <1>1, <1>2, <1>8, <1>11, WriteKeeps
<1>12. Holds(f5, 1, num(n0))
  <2>1. 1 \in Nat /\ num(n0) \in V /\ Len(num(n0)) = B /\ 1 + B <= pos
    BY <1>1, <1>2, <1>4
  <2>2. Holds(f2, 1, num(n0))
    BY <1>1, <1>2, <1>5, <2>1, WriteKeeps DEF f2
  <2> QED BY <1>10, <2>1, <2>2
<1>13. Holds(f5, pos + B, num(n1))
  <2>1. num(n1) \in V /\ Len(num(n1)) = B /\ (pos + B) + Len(num(n1)) <= pos + 2 * B
    BY <1>1, <1>4
  <2>2. Holds(f4, pos + B, num(n1))
    BY <1>2, <1>7, <1>8, <2>1
  <2> QED BY <1>1, <1>2, <1>11, <2>1, <2>2
<1>14. ASSUME NEW i \in 1 .. Len(offsets) PROVE Holds(f5, pos + (1 + i) * B, num(offsets[i]))
  <2>1. 1 + i \in Nat /\ 1 \in Nat /\ 1 <= 1 + i /\ offsets[i] \in Nat
    BY <1>1
  <2>2. 1 * B <= (1 + i) * B /\ (1 + i) * B \in Nat
    BY <1>1, <2>1, Products
  <2>3. pos + (1 + i) * B \in Nat /\ pos + B <= pos + (1 + i) * B
    <3>1. PICK z \in Nat : z = (1 + i) * B
      BY <2>2
    <3>2. B <= z
      BY <1>1, <2>2, <3>1
    <3>3. pos + z \in Nat /\ pos + B <= pos + z
      BY <1>1, <3>2
    <3> QED BY <3>1, <3>3, Zenon
  <2>4. num(offsets[i]) \in V
    BY <1>4, <2>1
  <2>5. Holds(f4, pos + (1 + i) * B, num(offsets[i]))
    BY <1>8
  <2> HIDE DEF num
  <2> QED BY <1>11, <2>3, <2>4, <2>5
<1>15. Closed(f5)
  BY <1>1, <1>12, <1>13, <1>14 DEF Closed, n0, n1
\* The schema and the entries are before the lengths and behind them.
<1>16. ASSUME NEW from \in Nat, NEW c \in V, Holds(file, from, c), from + Len(c) <= pos,
              from + Len(c) <= 1 \/ 1 + 2 * B <= from
       PROVE  Holds(f5, from, c)
  <2>1. Len(c) \in Nat
    OBVIOUS
  <2>2. Holds(f1, from, c)
    <3>1. from + Len(c) <= 1 \/ 1 + B <= from
      BY <1>1, <1>16, <2>1
    <3> QED BY <1>1, <1>2, <1>16, <3>1, WriteKeeps DEF f1
  <2>3. Holds(f2, from, c)
    <3>1. from + Len(c) <= 1 + B \/ (1 + B) + B <= from
      BY <1>1, <1>16, <2>1
    <3> QED BY <1>1, <1>2, <1>5, <2>2, <3>1, WriteKeeps DEF f2
  <2> QED BY <1>10, <1>16, <2>3
<1> HIDE DEF f5
<1>17. Entries(f5)
  <2>1. Entries(file)
    BY DEF SdbInv
  <2>2. Holds(f5, 0, Schema)
    <3>1. Schema \in V /\ Len(Schema) = 1
      BY <1>1 DEF Schema, SampleDBs!Byte
    <3>2. Holds(file, 0, Schema)
      BY <2>1 DEF Entries
    <3>3. 0 \in Nat /\ 0 + Len(Schema) <= pos /\ 0 + Len(Schema) <= 1
      BY <1>1, <3>1
    <3> QED BY <1>16, <3>1, <3>2, <3>3
  <2>3. ASSUME NEW i \in 1 .. Len(added) PROVE Stored(f5, added[i], offsets[i])
    <3>1. Stored(file, added[i], offsets[i])
      BY <2>1 DEF Entries
    <3>2. added[i] \in Samples /\ offsets[i] \in Nat
      <4>1. Len(added) <= Len(offsets)
        BY DEF SdbInv, Offsets
      <4> QED BY <1>1, <4>1
    <3> DEFINE s == added[i]
               from == offsets[i]
               c == SampleDBs!Entry(s)
    <3> HIDE DEF s, from
    <3>3. c \in V
      BY <1>1, <3>2, EntryProps DEF s
    <3>4. /\ 1 + 2 * B <= from /\ from + Len(c) <= pos /\ Holds(file, from, c)
          /\ SampleDBs!Fits(Len(SampleDBs!Columns(s)), INT_SIZE)
      BY <3>1 DEF Stored, s, from
    <3>5. Holds(f5, from, c)
      <4> HIDE DEF c
      <4>1. from \in Nat
        BY <3>2 DEF from
      <4> QED BY <1>16, <3>3, <3>4, <4>1
    <3> QED BY <3>4, <3>5 DEF Stored, s, from
  <2> QED BY <2>2, <2>3 DEF Entries
<1> QED BY <1>3, <1>9, <1>15, <1>17

\* The file once add() has written an entry.
LEMMA AddHolds ==
  ASSUME SdbInv, open, NEW s \in Samples, SampleDBs!Storable(s)
  PROVE  LET f == SampleDBs!write(file, pos, SampleDBs!Entry(s))
         IN  /\ f \in Seq(SampleDBs!Byte) /\ Len(f) = pos + Len(SampleDBs!Entry(s))
             /\ Holds(f, pos, SampleDBs!Entry(s)) /\ Entries(f)
<1> DEFINE V == Seq(SampleDBs!Byte)
           e == SampleDBs!Entry(s)
           f == SampleDBs!write(file, pos, e)
<1>1. /\ file \in V /\ pos \in Nat /\ offsets \in Seq(Nat) /\ added \in Seq(Samples)
      /\ labeled \in BOOLEAN /\ Len(added) \in Nat /\ Len(offsets) \in Nat
      /\ Len(added) <= Len(offsets) /\ pos >= 1 + 2 * BIGINT_SIZE /\ Len(file) <= pos
      /\ BIGINT_SIZE \in Nat
  BY SdbConstants DEF SdbInv, SdbTypes, Offsets
<1>2. e \in V /\ Len(e) \in Nat
  BY <1>1, EntryProps
<1>3. /\ f \in V /\ Holds(f, pos, e) /\ Len(f) = pos + Len(e)
      /\ \A from \in Nat : \A c \in V : Holds(file, from, c) /\ from + Len(c) <= pos => Holds(f, from, c)
  <2> HIDE DEF e
  <2>1. /\ f \in V /\ Holds(f, pos, e)
        /\ \A from \in Nat : \A c \in V :
             Holds(file, from, c) /\ (from + Len(c) <= pos \/ pos + Len(e) <= from) => Holds(f, from, c)
    BY <1>1, <1>2, Write
  <2>2. Len(f) = IF pos + Len(e) > Len(file) THEN pos + Len(e) ELSE Len(file)
    BY <1>1, <1>2, WriteLen
  <2>3. Len(f) = pos + Len(e)
    <3>1. Len(file) \in Nat
      BY <1>1
    <3> QED BY <1>1, <1>2, <2>2, <3>1
  <2> QED BY <2>1, <2>3
<1> HIDE DEF f
<1>4. Entries(f)
  <2>1. Entries(file)
    BY DEF SdbInv
  <2>2. Holds(f, 0, Schema)
    <3>1. Schema \in V /\ Len(Schema) = 1
      BY <1>1 DEF Schema, SampleDBs!Byte
    <3>2. Holds(file, 0, Schema)
      BY <2>1 DEF Entries
    <3>3. 0 \in Nat /\ 0 + Len(Schema) <= pos
      BY <1>1, <3>1
    <3> QED BY <1>3, <3>1, <3>2, <3>3
  <2>3. ASSUME NEW i \in 1 .. Len(added) PROVE Stored(f, added[i], offsets[i])
    <3>1. Stored(file, added[i], offsets[i])
      BY <2>1 DEF Entries
    <3>2. added[i] \in Samples /\ offsets[i] \in Nat
      BY <1>1
    <3> DEFINE r == added[i]
               from == offsets[i]
               c == SampleDBs!Entry(r)
    <3> HIDE DEF r, from
    <3>3. c \in V
      BY <1>1, <3>2, EntryProps DEF r
    <3>4. /\ 1 + 2 * BIGINT_SIZE <= from /\ from + Len(c) <= pos /\ Holds(file, from, c)
          /\ SampleDBs!Fits(Len(SampleDBs!Columns(r)), INT_SIZE)
      BY <3>1 DEF Stored, r, from
    <3>5. Holds(f, from, c)
      <4> HIDE DEF c
      <4>1. from \in Nat
        BY <3>2 DEF from
      <4> QED BY <1>3, <3>3, <3>4, <4>1
    <3> QED BY <3>4, <3>5 DEF Stored, r, from
  <2> QED BY <2>2, <2>3 DEF Entries
<1> QED BY <1>3, <1>4 DEF f

\* What depends on the writer's flag alone stays while that stays.
LEMMA FlagKept ==
  ASSUME labeled' = labeled
  PROVE  /\ \A s : SampleDBs!Entry(s)' = SampleDBs!Entry(s)
         /\ \A s : SampleDBs!Columns(s)' = SampleDBs!Columns(s)
         /\ Schema' = Schema
BY DEF SampleDBs!Entry, SampleDBs!Columns, Schema

LEMMA SdbAdd ==
  ASSUME SdbInv, NEW s \in Samples, SampleDBs!Add(s) \/ SampleDBs!InterruptedAdd(s)
  PROVE  SdbInv'
<1> DEFINE e == SampleDBs!Entry(s)
           f == SampleDBs!write(file, pos, e)
<1>1. /\ open /\ SampleDBs!Storable(s) /\ offsets' = Append(offsets, pos)
      /\ labeled' = labeled /\ open' = open
  BY DEF SampleDBs!Add, SampleDBs!InterruptedAdd
<1>2. /\ SdbTypes /\ Offsets /\ Entries(file) /\ Len(file) <= pos /\ ~raised
  BY <1>1 DEF SdbInv, SampleDBs!Add, SampleDBs!InterruptedAdd
<1>3. /\ f \in Seq(SampleDBs!Byte) /\ Len(f) = pos + Len(e) /\ Holds(f, pos, e) /\ Entries(f)
      /\ SampleDBs!Fits(Len(SampleDBs!Columns(s)), INT_SIZE)
      /\ SampleDBs!Fits(pos + Len(e), BIGINT_SIZE)
  BY <1>1, AddHolds DEF SampleDBs!Storable
<1>4. /\ labeled \in BOOLEAN /\ pos \in Nat /\ offsets \in Seq(Nat) /\ added \in Seq(Samples)
      /\ Len(added) \in Nat /\ Len(offsets) \in Nat /\ Len(added) = Len(offsets)
      /\ Len(added) < pos /\ pos >= 1 + 2 * BIGINT_SIZE /\ BIGINT_SIZE \in Nat
      /\ num_samples = Len(added) /\ file \in Seq(SampleDBs!Byte) /\ raised \in BOOLEAN
      /\ open \in BOOLEAN
  BY <1>2, SdbConstants DEF SdbTypes, Offsets
<1>5. e \in Seq(SampleDBs!Byte) /\ Len(e) \in Nat /\ Len(e) > 0
  BY <1>4, EntryProps
<1>6. /\ offsets' \in Seq(Nat) /\ Len(offsets') = Len(offsets) + 1
      /\ offsets'[Len(offsets) + 1] = pos
      /\ \A i \in 1 .. Len(offsets) : offsets'[i] = offsets[i] /\ offsets[i] \in Nat
      /\ \A i \in 1 .. Len(offsets') : i = Len(offsets) + 1 \/ i \in 1 .. Len(offsets)
  BY <1>1, <1>4
<1>7. \A i \in 1 .. Len(offsets) : offsets[i] <= pos
  BY <1>2 DEF Offsets
<1>8. /\ \A r : SampleDBs!Entry(r)' = SampleDBs!Entry(r)
      /\ \A r : SampleDBs!Columns(r)' = SampleDBs!Columns(r)
      /\ Schema' = Schema
  BY <1>1, FlagKept
<1>9. \/ file' = f /\ pos' = pos + Len(e)
      \/ file' = file /\ pos' = pos /\ added' = added
  BY DEF SampleDBs!Add, SampleDBs!InterruptedAdd
<1>10. \/ /\ added' = Append(added, s) /\ num_samples' = num_samples + 1 /\ raised' = raised
          /\ file' = f /\ pos' = pos + Len(e)
       \/ added' = added /\ num_samples' = num_samples /\ raised' = TRUE
  BY DEF SampleDBs!Add, SampleDBs!InterruptedAdd
<1> HIDE DEF e, f
<1>11. pos' \in Nat /\ pos <= pos' /\ file' \in Seq(SampleDBs!Byte) /\ Len(file') <= pos'
       /\ Entries(file') /\ SampleDBs!Fits(pos', BIGINT_SIZE)
  <2>1. CASE file' = f /\ pos' = pos + Len(e)
    BY <2>1, <1>3, <1>4, <1>5
  <2>2. CASE file' = file /\ pos' = pos
    <3>1. SampleDBs!Fits(pos, BIGINT_SIZE)
      BY <1>2 DEF Offsets
    <3> QED BY <2>2, <3>1, <1>2, <1>4
  <2> QED BY <1>9, <2>1, <2>2
<1>12. ASSUME NEW i \in 1 .. Len(offsets')
       PROVE  offsets'[i] <= pos'
  <2>1. CASE i = Len(offsets) + 1
    BY <2>1, <1>6, <1>11
  <2>2. CASE i \in 1 .. Len(offsets)
    BY <2>2, <1>4, <1>6, <1>7, <1>11
  <2> QED BY <1>6, <2>1, <2>2
\* Entries that were in the file still are.
<1>13. ASSUME NEW i \in 1 .. Len(added)
       PROVE  /\ 1 + 2 * BIGINT_SIZE <= offsets'[i]
              /\ offsets'[i] + Len(SampleDBs!Entry(added[i])) <= pos'
              /\ SampleDBs!Fits(Len(SampleDBs!Columns(added[i])), INT_SIZE)
              /\ Holds(file', offsets'[i], SampleDBs!Entry(added[i]))
  <2>1. Stored(file', added[i], offsets[i])
    BY <1>11 DEF Entries
  <2>2. i \in 1 .. Len(offsets) /\ offsets'[i] = offsets[i] /\ offsets[i] \in Nat
    BY <1>4, <1>6
  <2>3. added[i] \in Samples
    BY <1>4
  <2>4. Len(SampleDBs!Entry(added[i])) \in Nat
    BY <2>3, <1>4, EntryProps
  <2>5. /\ 1 + 2 * BIGINT_SIZE <= offsets[i]
        /\ offsets[i] + Len(SampleDBs!Entry(added[i])) <= pos
        /\ SampleDBs!Fits(Len(SampleDBs!Columns(added[i])), INT_SIZE)
        /\ Holds(file', offsets[i], SampleDBs!Entry(added[i]))
    BY <2>1 DEF Stored
  <2> QED BY <2>2, <2>4, <2>5, <1>4, <1>11
<1>14. Holds(file', 0, Schema)
  BY <1>11 DEF Entries
<1>15. CASE added' = added /\ num_samples' = num_samples /\ raised' = TRUE
  <2>1. SdbTypes'
    <3>1. labeled' \in BOOLEAN /\ open' \in BOOLEAN /\ raised' \in BOOLEAN
      BY <1>1, <1>4, <1>15
    <3>2. /\ file' \in Seq(SampleDBs!Byte) /\ pos' \in Nat /\ offsets' \in Seq(Nat)
          /\ num_samples' = Len(added') /\ added' \in Seq(Samples)
      BY <1>4, <1>6, <1>11, <1>15
    <3> QED BY <3>1, <3>2 DEF SdbTypes, SampleDBs!Byte
  <2>2. Offsets'
    <3>1. Len(added') <= Len(offsets') /\ Len(added') < pos' /\ pos' >= 1 + 2 * BIGINT_SIZE
      BY <1>4, <1>6, <1>11, <1>15
    <3> QED BY <3>1, <1>11, <1>12, <1>15 DEF Offsets
  <2>3. ASSUME NEW i \in 1 .. Len(added') PROVE Stored(file, added[i], offsets[i])'
    BY <1>8, <1>13, <1>15 DEF Stored
  <2>4. Entries(file)'
    BY <1>8, <1>14, <2>3 DEF Entries
  <2> QED BY <1>1, <1>11, <2>1, <2>2, <2>4 DEF SdbInv
<1>16. CASE /\ added' = Append(added, s) /\ num_samples' = num_samples + 1 /\ raised' = raised
            /\ file' = f /\ pos' = pos + Len(e)
  <2>a. /\ added' \in Seq(Samples) /\ Len(added') = Len(added) + 1 /\ added'[Len(added) + 1] = s
        /\ \A i \in 1 .. Len(added) : added'[i] = added[i]
        /\ \A i \in 1 .. Len(added') : i = Len(added) + 1 \/ i \in 1 .. Len(added)
    BY <1>4, <1>16
  <2>1. SdbTypes'
    <3>1. labeled' \in BOOLEAN /\ open' \in BOOLEAN /\ raised' \in BOOLEAN
      BY <1>1, <1>4, <1>16
    <3>2. /\ file' \in Seq(SampleDBs!Byte) /\ pos' \in Nat /\ offsets' \in Seq(Nat)
          /\ num_samples' = Len(added') /\ added' \in Seq(Samples)
      BY <1>4, <1>6, <1>11, <1>16, <2>a
    <3> QED BY <3>1, <3>2 DEF SdbTypes, SampleDBs!Byte
  <2>2. Offsets'
    <3>1. /\ Len(added') = Len(offsets') /\ Len(added') <= Len(offsets')
          /\ Len(added') < pos' /\ pos' >= 1 + 2 * BIGINT_SIZE
      BY <1>4, <1>5, <1>6, <1>11, <1>16, <2>a
    <3> QED BY <3>1, <1>11, <1>12, <1>16 DEF Offsets
  <2>3. ASSUME NEW i \in 1 .. Len(added') PROVE Stored(file, added[i], offsets[i])'
    <3>1. CASE i = Len(added) + 1
      <4>1. added'[i] = s /\ offsets'[i] = pos
        BY <3>1, <2>a, <1>4, <1>6
      <4>2. pos + Len(SampleDBs!Entry(s)) <= pos' /\ Holds(file', pos, SampleDBs!Entry(s))
        BY <1>3, <1>4, <1>5, <1>16 DEF e
      <4> QED BY <4>1, <4>2, <1>3, <1>4, <1>8 DEF Stored
    <3>2. CASE i \in 1 .. Len(added)
      <4>1. added'[i] = added[i]
        BY <3>2, <2>a
      <4> QED BY <3>2, <4>1, <1>8, <1>13 DEF Stored
    <3> QED BY <2>a, <3>1, <3>2
  <2>4. Entries(file)'
    BY <1>8, <1>14, <2>3 DEF Entries
  <2> QED BY <1>1, <1>11, <2>1, <2>2, <2>4 DEF SdbInv
<1> QED BY <1>10, <1>15, <1>16

LEMMA SdbOther ==
  ASSUME SdbInv, SampleDBs!Raise \/ UNCHANGED sdbVars
  PROVE  SdbInv'
<1>1. /\ UNCHANGED <<labeled, file, pos, offsets, num_samples, open, added>>
      /\ raised' = TRUE \/ raised' = raised
  BY DEF SampleDBs!Raise, sdbVars
<1>2. SdbTypes /\ Offsets /\ Entries(file)
  BY DEF SdbInv
<1>3. SdbTypes'
  <2>1. labeled' \in BOOLEAN /\ open' \in BOOLEAN /\ raised' \in BOOLEAN
    BY <1>1, <1>2 DEF SdbTypes
  <2> QED BY <2>1, <1>1, <1>2 DEF SdbTypes, SampleDBs!Byte
<1>4. Offsets'
  <2>1. ~raised' => ~raised
    BY <1>1
  <2> QED BY <2>1, <1>1, <1>2 DEF Offsets
<1>5. Entries(file)'
  <2>1. /\ \A r : SampleDBs!Entry(r)' = SampleDBs!Entry(r)
        /\ \A r : SampleDBs!Columns(r)' = SampleDBs!Columns(r)
        /\ Schema' = Schema
    BY <1>1, FlagKept
  <2>2. Holds(file', 0, Schema)
    BY <1>1, <1>2 DEF Entries
  <2>3. ASSUME NEW i \in 1 .. Len(added') PROVE Stored(file, added[i], offsets[i])'
    <3>1. Stored(file, added[i], offsets[i])
      BY <1>1, <1>2 DEF Entries
    <3> QED BY <3>1, <2>1, <1>1 DEF Stored
  <2> QED BY <2>1, <2>2, <2>3 DEF Entries
<1>6. (open' => Len(file') <= pos') /\ (~open' => Closed(file)')
  BY <1>1 DEF SdbInv, Closed
<1> QED BY <1>3, <1>4, <1>5, <1>6 DEF SdbInv

LEMMA SdbClose == ASSUME SdbInv, SampleDBs!Close PROVE SdbInv'
<1>1. /\ open /\ open' = FALSE /\ file' = SampleDBs!Index(pos)
      /\ UNCHANGED <<labeled, pos, offsets, num_samples, raised, added>>
  BY DEF SampleDBs!Close
<1>2. SdbTypes /\ Offsets
  BY DEF SdbInv
<1>3. file' \in Seq(SampleDBs!Byte) /\ Entries(file') /\ Closed(file')
  BY <1>1, IndexHolds
<1>4. SdbTypes'
  <2>1. labeled' \in BOOLEAN /\ open' \in BOOLEAN /\ raised' \in BOOLEAN
    BY <1>1, <1>2 DEF SdbTypes
  <2> QED BY <2>1, <1>1, <1>2, <1>3 DEF SdbTypes, SampleDBs!Byte
<1>5. Offsets'
  BY <1>1, <1>2 DEF Offsets
<1>6. Entries(file)'
  <2>1. /\ \A r : SampleDBs!Entry(r)' = SampleDBs!Entry(r)
        /\ \A r : SampleDBs!Columns(r)' = SampleDBs!Columns(r)
        /\ Schema' = Schema
    BY <1>1, FlagKept
  <2>2. Holds(file', 0, Schema)
    BY <1>3 DEF Entries
  <2>3. ASSUME NEW i \in 1 .. Len(added') PROVE Stored(file, added[i], offsets[i])'
    <3>1. Stored(file', added[i], offsets[i])
      BY <1>1, <1>3 DEF Entries
    <3> QED BY <3>1, <2>1, <1>1 DEF Stored
  <2> QED BY <2>1, <2>2, <2>3 DEF Entries
<1>7. Closed(file)'
  BY <1>1, <1>3 DEF Closed
<1> QED BY <1>1, <1>4, <1>5, <1>6, <1>7 DEF SdbInv

LEMMA SdbPart ==
  /\ DataInit => SdbInv
  /\ SdbInv /\ [DataNext]_dataVars => SdbInv'
<1>1. DataInit => SdbInv
  BY SdbInit DEF DataInit
<1>2. ASSUME SdbInv, [DataNext]_dataVars PROVE SdbInv'
  <2>1. SampleDBs!Next \/ UNCHANGED sdbVars
    BY <1>2 DEF DataNext, dataVars
  <2> QED BY <1>2, <2>1, SdbAdd, SdbOther, SdbClose DEF SampleDBs!Next
<1> QED BY <1>1, <1>2

\* SDB reads back the samples that DirectSDBWriter counted and no other, forwards
\* and backwards, whatever samples are added and wherever an exception ends the
\* with statement.
THEOREM SamplesAreRead == DataSpec => []SamplesRead
BY SdbPart, SdbSound, PTL DEF DataSpec

-----------------------------------------------------------------------------
(* The pool of processes that augments samples *)

\* Samples are in the pool only after they were handed over.
InPool ==
    /\ tasks \in Seq(1..Items) /\ \A k \in DOMAIN tasks : tasks[k] <= handed
    /\ work \in [Workers -> {"idle", "overlay", "finish"} \X (0..Items)]
    /\ \A w \in Workers : work[w][1] # "idle" => work[w][2] >= 1 /\ work[w][2] <= handed
    /\ \A r \in results : r <= handed

\* What the feeder and the caller have established where they are.
FeederAt ==
    /\ fpc \in {"inc", "store"} => handed < Items
    /\ fpc = "put" => handed >= 1
CallerAt ==
    /\ consumed <= handed
    /\ cpc \in {"dec", "store"} => consumed + 1 \in results

\* If no update of it is lost, the counter is the number of samples inside, and
\* the feeder's test of it still holds when the feeder increments it.
CounterExact ==
    ~preemptible => /\ fpc # "store" /\ cpc # "store"
                    /\ processed = handed - consumed
                    /\ fpc = "inc" => processed < Ahead

\* The inductive invariant.
PoolInv ==
    /\ TypeOK /\ preemptible \in BOOLEAN
    /\ InPool /\ FeederAt /\ CallerAt /\ CounterExact
-----------------------------------------------------------------------------
LEMMA PoolInit == Init => PoolInv
<1> USE PoolAssumption
<1> SUFFICES ASSUME Init PROVE PoolInv
  OBVIOUS
<1>1. TypeOK
  <2>1. 0 \in 0..Items /\ 0 \in 0..QueueSize
    OBVIOUS
  <2> QED BY <2>1 DEF Init, TypeOK
<1>2. InPool
  <2>1. tasks \in Seq(1..Items) /\ DOMAIN tasks = {}
    BY DEF Init
  <2>2. Idle \in {"idle", "overlay", "finish"} \X (0..Items) /\ Idle[1] = "idle"
    BY DEF Idle
  <2> QED BY <2>1, <2>2 DEF Init, InPool
<1>3. FeederAt /\ CallerAt /\ CounterExact /\ preemptible \in BOOLEAN
  BY DEF Init, FeederAt, CallerAt, CounterExact
<1> QED BY <1>1, <1>2, <1>3 DEF PoolInv

\* The pool's contents stay within the samples handed over when more of them are.
LEMMA InPoolKept ==
    ASSUME PoolInv, UNCHANGED <<tasks, work, results>>, handed' \in Nat, handed <= handed'
    PROVE  InPool'
<1> USE PoolAssumption DEF PoolInv, TypeOK, InPool
<1>1. \A k \in DOMAIN tasks : tasks[k] \in Int
  OBVIOUS
<1>2. \A w \in Workers : work[w][2] \in Int
  OBVIOUS
<1> QED BY <1>1, <1>2

\* The feeder thread: the test, the increment, whole or in halves, and the task.
LEMMA PoolFeeder == ASSUME PoolInv, Feeder PROVE PoolInv'
<1> USE PoolAssumption DEF PoolInv, caller, pool, aug
<1>0. TypeOK /\ preemptible' = preemptible
  BY DEF Feeder, Limit, Increment, LoadInc, StoreInc, HandOver, Put
<1>1. CASE Limit
  <2>1. TypeOK' /\ InPool'
    BY <1>0, <1>1, InPoolKept DEF Limit, TypeOK
  <2>2. FeederAt' /\ CallerAt' /\ CounterExact'
    BY <1>0, <1>1 DEF Limit, MayProceed, TypeOK, FeederAt, CallerAt, CounterExact
  <2> QED BY <1>0, <2>1, <2>2
<1>2. CASE Increment \/ StoreInc
  <2>1. handed' = handed + 1 /\ handed' \in 0..Items /\ handed \in Nat /\ handed' >= 1
    BY <1>2 DEF Increment, StoreInc, HandOver, TypeOK, FeederAt
  <2>a. processed' \in Int
    BY <1>2 DEF Increment, StoreInc, HandOver, TypeOK
  <2>2. TypeOK'
    BY <1>0, <1>2, <2>1, <2>a DEF Increment, StoreInc, HandOver, TypeOK
  <2>3. InPool'
    BY <1>2, <2>1, InPoolKept DEF Increment, StoreInc, HandOver
  <2>4. FeederAt' /\ CallerAt'
    BY <1>2, <2>1 DEF Increment, StoreInc, HandOver, TypeOK, FeederAt, CallerAt
  <2>5. CounterExact'
    BY <1>2, <2>1 DEF Increment, StoreInc, HandOver, TypeOK, CounterExact
  <2> QED BY <1>0, <2>2, <2>3, <2>4, <2>5
<1>3. CASE LoadInc
  <2>1. TypeOK' /\ InPool'
    BY <1>0, <1>3, InPoolKept DEF LoadInc, TypeOK
  <2>2. FeederAt' /\ CallerAt' /\ CounterExact'
    BY <1>0, <1>3 DEF LoadInc, TypeOK, FeederAt, CallerAt, CounterExact
  <2> QED BY <1>0, <2>1, <2>2
<1>4. CASE Put
  <2>1. handed \in 1..Items /\ tasks \in Seq(1..Items)
    BY <1>4 DEF Put, TypeOK, FeederAt, InPool
  <2>2. tasks' \in Seq(1..Items)
    BY <1>4, <2>1 DEF Put
  <2>3. \A k \in DOMAIN tasks' : tasks'[k] <= handed
    BY <1>4, <2>1 DEF Put, InPool
  <2>4. InPool'
    BY <1>4, <2>2, <2>3 DEF Put, InPool
  <2>5. TypeOK' /\ FeederAt' /\ CallerAt' /\ CounterExact'
    BY <1>0, <1>4 DEF Put, TypeOK, FeederAt, CallerAt, CounterExact
  <2> QED BY <1>0, <2>4, <2>5
<1> QED BY <1>1, <1>2, <1>3, <1>4 DEF Feeder

\* The workers and the overlay process leave the counter, the feeder and the
\* caller alone; results only grow.
LEMMA PoolWorkers ==
    ASSUME PoolInv, Enqueue \/ EnqueueFails \/ \E w \in Workers : Worker(w)
    PROVE  PoolInv'
<1> USE PoolAssumption DEF PoolInv
<1>0. UNCHANGED <<preemptible, processed, fpc, ftmp, handed, cpc, ctmp, consumed>>
  BY DEF Enqueue, EnqueueFails, Worker, TakeTask, Overlay, Finish, feeder, caller
<1>1. CASE Enqueue
  <2>1. overlays' \in 0..QueueSize
    BY <1>1 DEF Enqueue, TypeOK
  <2>2. TypeOK'
    BY <1>0, <1>1, <2>1 DEF Enqueue, TypeOK, pool
  <2>3. InPool'
    BY <1>0, <1>1, InPoolKept DEF Enqueue, TypeOK, pool
  <2>4. FeederAt' /\ CallerAt' /\ CounterExact'
    BY <1>0, <1>1 DEF Enqueue, pool, FeederAt, CallerAt, CounterExact
  <2> QED BY <1>0, <2>2, <2>3, <2>4
<1>a. CASE EnqueueFails
  <2>1. TypeOK'
    BY <1>0, <1>a DEF EnqueueFails, TypeOK, pool
  <2>2. InPool'
    BY <1>0, <1>a, InPoolKept DEF EnqueueFails, TypeOK, pool
  <2>3. FeederAt' /\ CallerAt' /\ CounterExact'
    BY <1>0, <1>a DEF EnqueueFails, pool, FeederAt, CallerAt, CounterExact
  <2> QED BY <1>0, <2>1, <2>2, <2>3
<1>2. ASSUME NEW w \in Workers, TakeTask(w) PROVE PoolInv'
  <2> USE <1>2
  <2>1. /\ tasks # <<>> /\ tasks \in Seq(1..Items)
        /\ Head(tasks) \in 1..Items /\ Head(tasks) <= handed
    BY DEF TakeTask, InPool
  <2>2. tasks' \in Seq(1..Items) /\ \A k \in DOMAIN tasks' : tasks'[k] <= handed
    BY <2>1 DEF TakeTask, InPool
  <2>a. Head(tasks) \in 0..Items
    BY <2>1
  <2>3. work' \in [Workers -> {"idle", "overlay", "finish"} \X (0..Items)]
    BY <2>a DEF TakeTask, InPool
  <2>4. \A x \in Workers : work'[x][1] # "idle" => work'[x][2] >= 1 /\ work'[x][2] <= handed
    BY <2>1 DEF TakeTask, InPool
  <2>5. InPool'
    BY <1>0, <2>2, <2>3, <2>4 DEF TakeTask, InPool
  <2>6. TypeOK'
    BY <1>0 DEF TakeTask, TypeOK, aug
  <2>7. FeederAt' /\ CallerAt' /\ CounterExact'
    BY <1>0 DEF TakeTask, FeederAt, CallerAt, CounterExact
  <2> QED BY <1>0, <2>5, <2>6, <2>7
<1>3. ASSUME NEW w \in Workers, Overlay(w) PROVE PoolInv'
  <2> USE <1>3
  <2>1. overlays' \in 0..QueueSize
    BY DEF Overlay, TypeOK
  <2>2. /\ work[w][2] \in 0..Items /\ work[w][2] >= 1 /\ work[w][2] <= handed
        /\ work' = [work EXCEPT ![w] = <<"finish", work[w][2]>>]
    BY DEF Overlay, InPool
  <2>3. work' \in [Workers -> {"idle", "overlay", "finish"} \X (0..Items)]
    BY <2>2 DEF InPool
  <2>4. \A x \in Workers : work'[x][1] # "idle" => work'[x][2] >= 1 /\ work'[x][2] <= handed
    BY <2>2 DEF InPool
  <2>5. InPool'
    BY <1>0, <2>3, <2>4 DEF Overlay, InPool
  <2>6. TypeOK'
    BY <1>0, <2>1 DEF Overlay, TypeOK
  <2>7. FeederAt' /\ CallerAt' /\ CounterExact'
    BY <1>0 DEF Overlay, FeederAt, CallerAt, CounterExact
  <2> QED BY <1>0, <2>5, <2>6, <2>7
<1>4. ASSUME NEW w \in Workers, Finish(w) PROVE PoolInv'
  <2> USE <1>4
  <2>1. work[w][2] \in 1..Items /\ work[w][2] <= handed
    BY DEF Finish, InPool
  <2>2. results' \subseteq 1..Items /\ failed' \subseteq results'
    BY <2>1 DEF Finish, TypeOK
  <2>3. \A r \in results' : r <= handed
    BY <2>1 DEF Finish, InPool
  <2>4. Idle \in {"idle", "overlay", "finish"} \X (0..Items) /\ Idle[1] = "idle"
    BY DEF Idle
  <2>5. work' \in [Workers -> {"idle", "overlay", "finish"} \X (0..Items)]
    BY <2>4 DEF Finish, InPool
  <2>6. \A x \in Workers : work'[x][1] # "idle" => work'[x][2] >= 1 /\ work'[x][2] <= handed
    BY <2>4 DEF Finish, InPool
  <2>7. InPool'
    BY <1>0, <2>3, <2>5, <2>6 DEF Finish, InPool
  <2>8. TypeOK'
    BY <1>0, <2>2 DEF Finish, TypeOK, aug
  <2>9. FeederAt' /\ CallerAt' /\ CounterExact'
    BY <1>0 DEF Finish, FeederAt, CallerAt, CounterExact
  <2> QED BY <1>0, <2>7, <2>8, <2>9
<1> QED BY <1>1, <1>a, <1>2, <1>3, <1>4 DEF Worker

\* The caller: the next result, the decrement, whole or in halves, and the end.
LEMMA PoolCaller == ASSUME PoolInv, Caller \/ Abandon PROVE PoolInv'
<1> USE PoolAssumption DEF PoolInv, feeder, pool
<1>0. UNCHANGED <<preemptible, fpc, ftmp, handed, tasks, work, results, failed, overlays>>
  BY DEF Caller, NextResult, Decrement, LoadDec, StoreDec, Abandon, aug
<1>1. InPool'
  BY <1>0, InPoolKept DEF TypeOK
<1>2. CASE NextResult \/ Abandon
  <2>1. TypeOK'
    BY <1>0, <1>2 DEF NextResult, Abandon, Leave, TypeOK
  <2>2. FeederAt' /\ CallerAt' /\ CounterExact'
    BY <1>0, <1>2 DEF NextResult, Abandon, Leave, TypeOK, FeederAt, CallerAt, CounterExact
  <2> QED BY <1>0, <1>1, <2>1, <2>2
<1>3. CASE Decrement \/ StoreDec
  <2>1. consumed' = consumed + 1 /\ consumed' <= handed /\ consumed' \in 0..Items
    BY <1>3 DEF Decrement, StoreDec, Give, CallerAt, InPool, TypeOK
  <2>2. processed' \in Int
    BY <1>3 DEF Decrement, StoreDec, Give, TypeOK
  <2>3. TypeOK'
    BY <1>0, <1>3, <2>1, <2>2 DEF Decrement, StoreDec, Give, TypeOK, aug
  <2>4. FeederAt' /\ CallerAt'
    BY <1>0, <1>3, <2>1 DEF Decrement, StoreDec, Give, FeederAt, CallerAt
  <2>5. CounterExact'
    BY <1>0, <1>3, <2>1 DEF Decrement, StoreDec, Give, TypeOK, CounterExact
  <2> QED BY <1>0, <1>1, <2>3, <2>4, <2>5
<1>4. CASE LoadDec
  <2>1. TypeOK'
    BY <1>0, <1>4 DEF LoadDec, TypeOK, aug
  <2>2. FeederAt' /\ CallerAt' /\ CounterExact'
    BY <1>0, <1>4 DEF LoadDec, FeederAt, CallerAt, CounterExact
  <2> QED BY <1>0, <1>1, <2>1, <2>2
<1> QED BY <1>2, <1>3, <1>4 DEF Caller

LEMMA PoolStep == PoolInv /\ [Next]_vars => PoolInv'
<1> SUFFICES ASSUME PoolInv, [Next]_vars PROVE PoolInv'
  OBVIOUS
<1>1. CASE Next
  BY <1>1, PoolFeeder, PoolCaller, PoolWorkers DEF Next
<1>2. CASE UNCHANGED vars
  <2> USE <1>2 DEF vars, feeder, caller, pool, aug, PoolInv
  <2>1. TypeOK'
    BY DEF TypeOK
  <2>2. InPool'
    BY DEF InPool
  <2>3. FeederAt' /\ CallerAt' /\ CounterExact'
    BY DEF FeederAt, CallerAt, CounterExact
  <2> QED BY <2>1, <2>2, <2>3
<1> QED BY <1>1, <1>2
-----------------------------------------------------------------------------
(* The refinement *)

BufferLimit == IF preemptible THEN Items ELSE Ahead

\* The initial states of the pool are initial states of the buffer.
LEMMA BufferInit == Init => Buffer!Init
BY PoolAssumption DEF Init, Buffer!Init

\* Where the feeder increments, the buffer has room; where the caller decrements,
\* it holds something; every other step leaves the buffer alone.
LEMMA BufferStep ==
    PoolInv /\ [Next]_vars => [Buffer!Next]_<<BufferLimit, handed, consumed>>
<1> USE PoolAssumption DEF PoolInv, BufferLimit
<1> SUFFICES ASSUME PoolInv, [Next]_vars
             PROVE  Buffer!Next \/ UNCHANGED <<BufferLimit, handed, consumed>>
  OBVIOUS
<1>1. preemptible' = preemptible /\ BufferLimit' = BufferLimit
  BY DEF Next, Feeder, Limit, Increment, LoadInc, StoreInc, Put, Caller, NextResult, Decrement,
         LoadDec, StoreDec, Abandon, Enqueue, EnqueueFails, Worker, TakeTask, Overlay, Finish, vars
<1>2. CASE Increment \/ StoreInc
  <2>1. handed < Items /\ handed - consumed < BufferLimit
    BY <1>2 DEF Increment, StoreInc, TypeOK, FeederAt, CallerAt, CounterExact
  <2>2. handed' = handed + 1 /\ UNCHANGED consumed
    BY <1>2 DEF Increment, StoreInc, HandOver, caller
  <2> QED BY <1>1, <2>1, <2>2 DEF Buffer!Next, Buffer!Hand
<1>3. CASE Decrement \/ StoreDec
  <2>1. consumed < handed
    BY <1>3 DEF Decrement, StoreDec, TypeOK, CallerAt, InPool
  <2>2. consumed' = consumed + 1 /\ UNCHANGED handed
    BY <1>3 DEF Decrement, StoreDec, Give, feeder
  <2> QED BY <1>1, <2>1, <2>2 DEF Buffer!Next, Buffer!Consume
<1>4. CASE ~(Increment \/ StoreInc) /\ ~(Decrement \/ StoreDec)
  BY <1>1, <1>4 DEF Next, Feeder, Limit, LoadInc, Put, Caller, NextResult, LoadDec, Abandon,
                    Enqueue, EnqueueFails, Worker, TakeTask, Overlay, Finish, vars, feeder, caller
<1> QED BY <1>2, <1>3, <1>4

\* Every reachable state of the pool satisfies the inductive invariant.
THEOREM PoolInvariant == Spec => []PoolInv
BY PoolInit, PoolStep, PTL DEF Spec

\* LimitingPool keeps its promise to apply_sample_augmentations: at most
\* process_ahead samples are inside while no update of the counter is lost,
\* and samples go in and come out one by one in any case.
THEOREM PoolImplementsBuffer == Spec => ImplementsBuffer
<1>1. PoolInv => TypeOK
  BY DEF PoolInv
<1>2. Init => Buffer!Init
  BY BufferInit
<1>3. PoolInv /\ [Next]_vars => [Buffer!Next]_<<IF preemptible THEN Items ELSE Ahead, handed, consumed>>
  BY BufferStep DEF BufferLimit
<1> QED BY <1>1, <1>2, <1>3, PoolInvariant, PTL DEF Spec, ImplementsBuffer, Buffer!Spec
=============================================================================
