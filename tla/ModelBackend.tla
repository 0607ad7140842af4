---------------------------- MODULE ModelBackend ----------------------------
(***************************************************************************)
(* The back end of a model shared by its streams: compute_mfcc and infer   *)
(* of tfmodelstate.cc (a TensorFlow session, USE_TFLITE = FALSE) and of    *)
(* tflitemodelstate.cc (one TFLite interpreter, whose input tensors keep   *)
(* their contents from one run to the next).                               *)
(*                                                                         *)
(* A caller interleaves calls on several streams of one model.  A sample   *)
(* is <<stream, position>>.  A feature frame is the contents of            *)
(* input_samples it was computed from.  The LSTM state is the sequence of  *)
(* the rows of input_node the network has consumed, and the logits of a    *)
(* row are the rows the network had consumed by then.                      *)
(*                                                                         *)
(* Context frames are left to StreamingState: this is the model for        *)
(* n_context = 0 and windows that do not overlap, where each frame is one  *)
(* row of a batch.                                                         *)
(*                                                                         *)
(* The parts of the specification have names of their own, BackendInit and *)
(* so on: BackendProofs extends this module and ExecPlan.                  *)
(***************************************************************************)
EXTENDS Naturals, Sequences, Functions

CONSTANTS
  Streams,         \* the streams of one model
  audio_win_len,   \* samples in an audio window
  n_steps,         \* rows of input_node
  MaxWindows,      \* bound: full windows fed to one stream
  Zero,            \* a sample or a row of zeros
  Junk             \* what AllocateTensors leaves in a tensor

ASSUME BackendAssumption ==
  /\ audio_win_len \in Nat \ {0}
  /\ n_steps \in Nat \ {0}
  /\ MaxWindows \in Nat
  /\ Zero # Junk

VARIABLES
  USE_TFLITE,      \* which back end is compiled in
  stage,           \* of a stream: "none", "live" or "done"
  batch_buffer,    \* of a stream: frames of the batch being collected
  previous_state,  \* of a stream: rows its LSTM state has consumed
  logits,          \* of a stream: the logits its decoder was given
  input_samples,   \* tensor of the TFLite interpreter: one window
  input_node,      \* tensor of the TFLite interpreter: one batch
  sent,            \* of a stream: windows whose features were computed (history)
  frames,          \* of a stream: those features (history)
  fed,             \* of a stream: samples consumed (history)
  failed           \* streams some run of the back end failed for (history)

backendVars ==
  <<USE_TFLITE, stage, batch_buffer, previous_state, logits, input_samples, input_node,
    sent, frames, fed, failed>>

-----------------------------------------------------------------------------
(* Tensors *)

\* tfmodelstate.cc: a new tensor, padded with zeros to its shape.
tensor_from_vector(vec, size) ==
  [i \in 1 .. size |-> IF i <= Len(vec) THEN vec[i] ELSE Zero]

\* tflitemodelstate.cc: overwrites the tensor up to num_elements, and leaves
\* what it held beyond.
copy_vector_to_tensor(vec, tensor, num_elements) ==
  [i \in DOMAIN tensor |->
     IF i <= Len(vec) THEN vec[i] ELSE IF i <= num_elements THEN Zero ELSE tensor[i]]

\* Fault: the TensorFlow window is padded only as far as the samples go.
SamplesTensor_Shared(samples) ==
  copy_vector_to_tensor(samples, input_samples, Len(samples))

\* input_samples as compute_mfcc feeds it.
SamplesTensor(samples) ==
  IF USE_TFLITE THEN copy_vector_to_tensor(samples, input_samples, Len(samples))
                ELSE tensor_from_vector(samples, audio_win_len)

\* input_node as infer feeds it for n_frames rows.
NodeTensor(mfcc, n_frames) ==
  IF USE_TFLITE THEN copy_vector_to_tensor(mfcc, input_node, n_frames)
                ELSE tensor_from_vector(mfcc, n_steps)

\* The logits copied out of a run that started in state: n_frames rows.
LogitsOut(state, tensor, n_frames) ==
  [i \in 1 .. n_frames |-> state \o SubSeq(tensor, 1, i)]

\* Fault: the new state is not copied out.
StateOut_Stale(state, tensor, n_frames) == state

\* The state copied out: the TensorFlow graph stops at input_lengths, the
\* TFLite graph has no such input and consumes every row of the tensor.
StateOut(state, tensor, n_frames) ==
  state \o SubSeq(tensor, 1, IF USE_TFLITE THEN n_steps ELSE n_frames)

-----------------------------------------------------------------------------
(* Calls *)

BackendInit ==
  /\ USE_TFLITE \in BOOLEAN
  /\ stage = [s \in Streams |-> "none"]
  /\ batch_buffer = [s \in Streams |-> << >>]
  /\ previous_state = [s \in Streams |-> << >>]
  /\ logits = [s \in Streams |-> << >>]
  /\ input_samples = [i \in 1 .. audio_win_len |-> Junk]
  /\ input_node = [i \in 1 .. n_steps |-> Junk]
  /\ sent = [s \in Streams |-> << >>]
  /\ frames = [s \in Streams |-> << >>]
  /\ fed = [s \in Streams |-> 0]
  /\ failed = {}

\* A stream starts with an empty batch and the zero state.
DS_CreateStream(s) ==
  /\ stage[s] = "none"
  /\ stage' = [stage EXCEPT ![s] = "live"]
  /\ UNCHANGED <<USE_TFLITE, batch_buffer, previous_state, logits, input_samples, input_node,
                 sent, frames, fed, failed>>

\* compute_mfcc on a window, leaving batch for processBatch.  The tensor is
\* written before the run; a run that fails yields no features.
compute_mfcc(s, samples, batch) ==
  LET tensor == SamplesTensor(samples)
  IN  /\ input_samples' = IF USE_TFLITE THEN tensor ELSE input_samples
      /\ \/ /\ batch = Append(batch_buffer[s], tensor)
            /\ sent' = [sent EXCEPT ![s] = Append(@, samples)]
            /\ frames' = [frames EXCEPT ![s] = Append(@, tensor)]
         \/ /\ batch = batch_buffer[s]
            /\ UNCHANGED <<sent, frames>>

\* infer on a batch, then the decoder.  A run that fails yields no logits and
\* leaves the state as it was.
processBatch(s, batch, ok) ==
  LET n_frames == Len(batch)
      tensor == NodeTensor(batch, n_frames)
  IN  /\ input_node' = IF USE_TFLITE THEN tensor ELSE input_node
      /\ batch_buffer' = [batch_buffer EXCEPT ![s] = << >>]
      /\ IF ok
         THEN /\ logits' = [logits EXCEPT
                              ![s] = @ \o LogitsOut(previous_state[s], tensor, n_frames)]
              /\ previous_state' = [previous_state EXCEPT
                                      ![s] = StateOut(@, tensor, n_frames)]
         ELSE UNCHANGED <<logits, previous_state>>

\* processAudioWindow, with the batch it may complete; the final window also
\* processes a batch that is not full.
processAudioWindow(s, samples, final) ==
  \E batch \in {batch_buffer[s], Append(batch_buffer[s], SamplesTensor(samples))},
     ok \in BOOLEAN :
    /\ compute_mfcc(s, samples, batch)
    /\ IF Len(batch) = n_steps \/ (final /\ Len(batch) > 0)
       THEN processBatch(s, batch, ok)
       ELSE /\ ok
            /\ batch_buffer' = [batch_buffer EXCEPT ![s] = batch]
            /\ UNCHANGED <<previous_state, logits, input_node>>
    /\ failed' = IF ok /\ batch # batch_buffer[s] THEN failed ELSE failed \cup {s}
    /\ fed' = [fed EXCEPT ![s] = @ + Len(samples)]

\* The next n samples of a stream.
Samples(s, n) == [i \in 1 .. n |-> <<s, fed[s] + i>>]

\* DS_FeedAudioContent with the samples of one full window.
FeedWindow(s) ==
  /\ stage[s] = "live"
  /\ fed[s] < MaxWindows * audio_win_len
  /\ processAudioWindow(s, Samples(s, audio_win_len), FALSE)
  /\ UNCHANGED <<USE_TFLITE, stage>>

\* DS_FinishStream with n samples in the audio buffer.
DS_FinishStream(s, n) ==
  /\ stage[s] = "live"
  /\ processAudioWindow(s, Samples(s, n), TRUE)
  /\ stage' = [stage EXCEPT ![s] = "done"]
  /\ UNCHANGED USE_TFLITE

DS_FreeStream(s) ==
  /\ stage[s] = "live"
  /\ stage' = [stage EXCEPT ![s] = "done"]
  /\ UNCHANGED <<USE_TFLITE, batch_buffer, previous_state, logits, input_samples, input_node,
                 sent, frames, fed, failed>>

BackendNext ==
  \E s \in Streams :
    \/ DS_CreateStream(s)
    \/ FeedWindow(s)
    \/ \E n \in 0 .. audio_win_len - 1 : DS_FinishStream(s, n)
    \/ DS_FreeStream(s)

BackendSpec == BackendInit /\ [][BackendNext]_backendVars

-----------------------------------------------------------------------------
(* Properties *)

\* Type invariant of the back end: a batch that is waiting is never full.
BackendTypeOK ==
  /\ stage \in [Streams -> {"none", "live", "done"}]
  /\ \A s \in Streams : Len(batch_buffer[s]) \in 0 .. n_steps - 1
  /\ DOMAIN input_samples = 1 .. audio_win_len
  /\ DOMAIN input_node = 1 .. n_steps
  /\ \A s \in Streams : Len(sent[s]) = Len(frames[s])
  /\ failed \subseteq Streams

\* The features of a full window are those of its own samples, whatever other
\* streams, and runs that failed after writing the tensor, left there.
FullWindowIntact ==
  \A s \in Streams : \A j \in DOMAIN sent[s] :
    Len(sent[s][j]) = audio_win_len => frames[s][j] = sent[s][j]

\* The features of every window are those of its samples padded with zeros:
\* the samples that DS_FinishStream flushes see no other audio.
WindowPadded ==
  \A s \in Streams : \A j \in DOMAIN sent[s] :
    frames[s][j] = tensor_from_vector(sent[s][j], audio_win_len)

\* The TensorFlow back end pads every window, whatever other streams feed.
FlushPadded == ~USE_TFLITE => WindowPadded

\* What reaches the graph of either back end: tensors of their sizes, full
\* windows as they are, and on TensorFlow every window padded with zeros.
WindowInv ==
  /\ BackendTypeOK
  /\ FullWindowIntact
  /\ FlushPadded

\* A stream none of whose runs failed gets the logits it would get alone on
\* the model: those of its frames in order, from the zero state.  The rows a
\* short final batch leaves in the tensor, and the state they spoil, reach
\* no logits.
LogitsOwn ==
  \A s \in Streams \ failed : \A t \in DOMAIN logits[s] :
    logits[s][t] = SubSeq(frames[s], 1, t)

\* Even where runs failed, nothing but the stream's own frames contributes to
\* its logits.
LogitsIsolated ==
  \A s \in Streams : \A t \in DOMAIN logits[s] :
    Range(logits[s][t]) \subseteq Range(frames[s])

\* What a stream gets from a shared model: its own logits, or after a failed
\* run at least none of another stream's.
LogitsSound ==
  /\ LogitsOwn
  /\ LogitsIsolated

=============================================================================
