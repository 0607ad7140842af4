---------------------------- MODULE DataFormats ----------------------------
(***************************************************************************)
(* The sequential conversions of data, side by side: the alphabet on its   *)
(* way into the client, the Sample DB file, and the cutting of a           *)
(* recording.  They share nothing; a behaviour is one of one of them.      *)
(***************************************************************************)
EXTENDS Naturals, Sequences

CONSTANTS
  Files, Size, Garbage, NoSpace,                             \* Alphabet
  Samples, BIGINT_SIZE, INT_SIZE, MaxSamples,                   \* SampleDB
  num_padding_frames, ThresholdNum, ThresholdDen, MaxFrames     \* VadSplit

VARIABLES
  part,     \* the conversion of this behaviour
  pc, lines, source, pending, buffer, buffer_size, offset, next, target,
  labeled, file, pos, offsets, num_samples, open, raised, added,
  speech, ring_buffer, triggered, voiced_frames, segments, ended

alphabetVars == <<pc, lines, source, pending, buffer, buffer_size, offset, next, target>>
sdbVars      == <<labeled, file, pos, offsets, num_samples, open, raised, added>>
vadVars      == <<speech, ring_buffer, triggered, voiced_frames, segments, ended>>
dataVars     == <<part, alphabetVars, sdbVars, vadVars>>

Alphabets == INSTANCE Alphabet
SampleDBs == INSTANCE SampleDB
Splitting == INSTANCE VadSplit

ASSUME DataAssumption ==
  /\ Alphabets!AlphabetAssumption
  /\ SampleDBs!SdbAssumption
  /\ Splitting!VadAssumption

DataInit ==
  /\ part \in {"alphabet", "sample_db", "vad"}
  /\ Alphabets!Init /\ (part # "alphabet" => lines = << >>)
  /\ SampleDBs!Init /\ (part # "sample_db" => labeled)
  /\ Splitting!Init

DataNext ==
  \/ part = "alphabet" /\ Alphabets!Next
     /\ UNCHANGED <<part, sdbVars, vadVars>>
  \/ part = "sample_db" /\ SampleDBs!Next
     /\ UNCHANGED <<part, alphabetVars, vadVars>>
  \/ part = "vad" /\ Splitting!Next
     /\ UNCHANGED <<part, alphabetVars, sdbVars>>

DataSpec == DataInit /\ [][DataNext]_dataVars
-----------------------------------------------------------------------------
\* The client's alphabet is the training side's, whatever the order of the
\* pairs in the buffer; Deserialize reads nothing beyond the buffer and refuses
\* every buffer that is not complete.
AlphabetRestored ==
  /\ Alphabets!TypeOK
  /\ Alphabets!CutBuffersRefused
  /\ Alphabets!RoundTrip

\* SDB reads the samples that DirectSDBWriter counted and no other, also after
\* an exception in the middle of add().
SamplesRead ==
  /\ SampleDBs!TypeOK
  /\ SampleDBs!ReadsWhatWasAdded

\* The segments of vad_split are uninterrupted, do not overlap and lose no window
\* of speech; their times are those of their frames, in order.
SegmentsSound ==
  /\ Splitting!TypeOK
  /\ Splitting!SegmentsWhole
  /\ Splitting!SpeechKept
  /\ Splitting!TimesTell
=============================================================================
