--------------------------- MODULE StreamingState ---------------------------
(***************************************************************************)
(* The streaming inference pipeline of native_client/deepspeech.cc: struct *)
(* StreamingState and the DS_* calls that drive one stream.                *)
(*                                                                         *)
(* Samples flow through three buffers.  audio_buffer collects a window of  *)
(* audio_win_len samples and then slides by audio_win_step; mfcc_buffer    *)
(* collects 2*n_context+1 feature frames and then slides by one frame;     *)
(* batch_buffer collects n_steps timesteps and is then emptied into the    *)
(* acoustic model, whose logits go to the decoder.                         *)
(*                                                                         *)
(* Data is abstracted to what the properties tell apart.  A sample is its  *)
(* position in the audio (1, 2, ...).  A feature frame is the samples it   *)
(* was computed from, or the zero frame.  A timestep is the sequence of    *)
(* its 2*n_context+1 frames.  The decoder state, and the transcript that a *)
(* decode returns, is the sequence of timesteps whose logits it has seen.  *)
(* The unit of mfcc_buffer is one frame of n_features floats and that of   *)
(* batch_buffer one timestep: every push in the code is a whole frame.     *)
(*                                                                         *)
(* One call of the API is a run of steps, one per loop iteration of the    *)
(* code; while it runs no other call on the same stream is possible.       *)
(***************************************************************************)
EXTENDS Naturals, Sequences

CONSTANTS
  audio_win_len,   \* samples in an audio window
  audio_win_step,  \* samples the window slides by
  n_context,       \* frames of context on each side of a timestep
  n_steps,         \* timesteps in a batch of the acoustic model
  MaxSamples,      \* bound: samples fed to one stream
  MaxFailures      \* bound: failing runs of the interpreter in one stream

\* A model whose window slides by more than its length would make
\* shift_buffer_left rotate past the end of the buffer; the exporter's
\* feature_win_step is below its feature_win_len.
ASSUME ModelAssumption ==
  /\ audio_win_len \in Nat \ {0}
  /\ audio_win_step \in Nat \ {0}
  /\ audio_win_step <= audio_win_len
  /\ n_context \in Nat
  /\ n_steps \in Nat \ {0}
  /\ MaxSamples \in Nat
  /\ MaxFailures \in Nat

VARIABLES
  pc,             \* where the stream is in its current call
  stt,            \* the call is DS_SpeechToText: create, feed, finish in one
  todo,           \* buffer_size of feedAudioContent: samples still to consume
  fed,            \* samples consumed so far, the position of *buffer
  zeros,          \* loop counter of finalizeStream
  audio_buffer,   \* samples of the window being collected
  mfcc_buffer,    \* frames of the timestep being collected
  batch_buffer,   \* timesteps of the batch being collected
  decoder_state,  \* timesteps whose logits DecoderState::next was given
  transcript,     \* what the last decode of the stream returned
  windows,        \* calls of processAudioWindow so far
  failures        \* runs of the interpreter that failed so far

vars == <<pc, stt, todo, fed, zeros, audio_buffer, mfcc_buffer, batch_buffer,
          decoder_state, transcript, windows, failures>>

\* The variables of the feature pipeline behind audio_buffer.
pipe == <<mfcc_buffer, batch_buffer, decoder_state, failures>>

-----------------------------------------------------------------------------
(* Frames and buffers *)

\* The features of a window, told apart by the samples they come from.
compute_mfcc(buf) == [zero |-> FALSE, samples |-> buf]

\* The frame of zeros that pads the context at both ends of the audio.
zero_buffer == [zero |-> TRUE, samples |-> << >>]

shift_buffer_left(buf, shift_amount) == SubSeq(buf, shift_amount + 1, Len(buf))

mfcc_frames_per_timestep == 2 * n_context + 1

\* A run of the TFLite interpreter (or TensorFlow session) that returns an
\* error: the code prints it and carries on with an empty output vector.
InvokeFails ==
  /\ failures < MaxFailures
  /\ failures' = failures + 1

\* Fault: a failing run leaves the logits of the batch before in the vector.
processBatch_StaleLogits(batch) ==
  \/ /\ decoder_state' = decoder_state \o batch
     /\ UNCHANGED failures
  \/ /\ InvokeFails
     /\ LET d == Len(decoder_state)
            n == IF Len(batch) <= d THEN Len(batch) ELSE d
        IN  decoder_state' = decoder_state \o SubSeq(decoder_state, d - n + 1, d)

\* infer, then DecoderState::next on the frames its logits hold: all of the
\* batch, or none when the run failed.
processBatch(batch) ==
  \/ /\ decoder_state' = decoder_state \o batch
     /\ UNCHANGED failures
  \/ /\ InvokeFails
     /\ UNCHANGED decoder_state

processMfccWindow(timestep) ==
  LET batch == Append(batch_buffer, timestep)
  IN  IF Len(batch) = n_steps
      THEN /\ processBatch(batch)
           /\ batch_buffer' = << >>
      ELSE /\ batch_buffer' = batch
           /\ UNCHANGED <<decoder_state, failures>>

\* Fault: the context window is emptied instead of shifted by one frame.
pushMfccBuffer_Cleared(frame) ==
  LET buf == Append(mfcc_buffer, frame)
  IN  IF Len(buf) = mfcc_frames_per_timestep
      THEN /\ processMfccWindow(buf)
           /\ mfcc_buffer' = << >>
      ELSE /\ mfcc_buffer' = buf
           /\ UNCHANGED <<batch_buffer, decoder_state, failures>>

pushMfccBuffer(frame) ==
  LET buf == Append(mfcc_buffer, frame)
  IN  IF Len(buf) = mfcc_frames_per_timestep
      THEN /\ processMfccWindow(buf)
           /\ mfcc_buffer' = shift_buffer_left(buf, 1)
      ELSE /\ mfcc_buffer' = buf
           /\ UNCHANGED <<batch_buffer, decoder_state, failures>>

\* compute_mfcc and pushMfccBuffer; a failing run yields no features, and
\* pushing the empty vector does nothing.
processAudioWindow(buf) ==
  /\ windows' = windows + 1
  /\ \/ pushMfccBuffer(compute_mfcc(buf))
     \/ /\ InvokeFails
        /\ UNCHANGED <<mfcc_buffer, batch_buffer, decoder_state>>

-----------------------------------------------------------------------------
(* The calls *)

Init ==
  /\ pc = "none"
  /\ stt = FALSE
  /\ todo = 0 /\ fed = 0 /\ zeros = 0 /\ windows = 0 /\ failures = 0
  /\ audio_buffer = << >>
  /\ mfcc_buffer = << >>
  /\ batch_buffer = << >>
  /\ decoder_state = << >>
  /\ transcript = << >>

\* The fields of a new StreamingState: n_context zero frames of past context,
\* the other buffers empty, a decoder that has seen nothing.
NewStream ==
  /\ pc \in {"none", "done", "freed"}
  /\ fed' = 0 /\ zeros' = 0 /\ windows' = 0 /\ failures' = 0
  /\ audio_buffer' = << >>
  /\ mfcc_buffer' = [i \in 1 .. n_context |-> zero_buffer]
  /\ batch_buffer' = << >>
  /\ decoder_state' = << >>
  /\ transcript' = << >>

DS_CreateStream ==
  /\ NewStream
  /\ pc' = "idle"
  /\ stt' = FALSE
  /\ todo' = 0

\* CreateStreamAndFeedAudioContent followed by DS_FinishStream.
DS_SpeechToText(buffer_size) ==
  /\ NewStream
  /\ pc' = "feed"
  /\ stt' = TRUE
  /\ todo' = buffer_size

DS_FeedAudioContent(buffer_size) ==
  /\ pc = "idle"
  /\ fed + buffer_size <= MaxSamples
  /\ todo' = buffer_size
  /\ pc' = "feed"
  /\ UNCHANGED <<stt, fed, zeros, audio_buffer, windows, transcript, pipe>>

\* One iteration of the inner loop of feedAudioContent.
PushSample ==
  /\ pc = "feed"
  /\ todo > 0
  /\ Len(audio_buffer) < audio_win_len
  /\ audio_buffer' = Append(audio_buffer, fed + 1)
  /\ fed' = fed + 1
  /\ todo' = todo - 1
  /\ UNCHANGED <<pc, stt, zeros, windows, transcript, pipe>>

\* The buffer is full: process and shift it.
ProcessFullWindow ==
  /\ pc = "feed"
  /\ Len(audio_buffer) = audio_win_len
  /\ processAudioWindow(audio_buffer)
  /\ audio_buffer' = shift_buffer_left(audio_buffer, audio_win_step)
  /\ UNCHANGED <<pc, stt, todo, fed, zeros, transcript>>

\* Fault: the outer loop waits for a full window, not for the end of the data.
FeedReturn_WaitsForWindow ==
  /\ pc = "feed"
  /\ todo = 0
  /\ Len(audio_buffer) < audio_win_len
  /\ pc' = IF Len(audio_buffer) > 0 THEN pc ELSE IF stt THEN "flush" ELSE "idle"
  /\ UNCHANGED <<stt, todo, fed, zeros, audio_buffer, windows, transcript, pipe>>

\* All the data that was passed in is consumed.  DS_SpeechToText goes on to
\* finish the stream, DS_FeedAudioContent returns.
FeedReturn ==
  /\ pc = "feed"
  /\ todo = 0
  /\ Len(audio_buffer) < audio_win_len
  /\ pc' = IF stt THEN "flush" ELSE "idle"
  /\ UNCHANGED <<stt, todo, fed, zeros, audio_buffer, windows, transcript, pipe>>

\* Fault: an intermediate decode consumes the decoder state.
DS_IntermediateDecode_Consumes ==
  /\ pc = "idle"
  /\ transcript' = decoder_state
  /\ decoder_state' = << >>
  /\ UNCHANGED <<pc, stt, todo, fed, zeros, audio_buffer, windows, mfcc_buffer,
                 batch_buffer, failures>>

\* Reads the decoder, changes nothing of the stream.
DS_IntermediateDecode ==
  /\ pc = "idle"
  /\ transcript' = decoder_state
  /\ UNCHANGED <<pc, stt, todo, fed, zeros, audio_buffer, windows, pipe>>

DS_FinishStream ==
  /\ pc = "idle"
  /\ pc' = "flush"
  /\ UNCHANGED <<stt, todo, fed, zeros, audio_buffer, windows, transcript, pipe>>

\* finalizeStream: the samples that do not fill a window are a last window.
FlushAudio ==
  /\ pc = "flush"
  /\ processAudioWindow(audio_buffer)
  /\ pc' = "zeros"
  /\ zeros' = 0
  /\ UNCHANGED <<stt, todo, fed, audio_buffer, transcript>>

addZeroMfccWindow ==
  /\ pc = "zeros"
  /\ zeros < n_context
  /\ pushMfccBuffer(zero_buffer)
  /\ zeros' = zeros + 1
  /\ UNCHANGED <<pc, stt, todo, fed, audio_buffer, windows, transcript>>

\* Fault: the batch that the end of the audio left incomplete is dropped.
ProcessFinalBatch_Dropped ==
  /\ pc = "zeros"
  /\ zeros = n_context
  /\ IF Len(batch_buffer) = n_steps
     THEN processBatch(batch_buffer)
     ELSE UNCHANGED <<decoder_state, failures>>
  /\ transcript' = decoder_state'
  /\ pc' = "done"
  /\ UNCHANGED <<stt, todo, fed, zeros, audio_buffer, mfcc_buffer, batch_buffer,
                 windows>>

\* The rest of finalizeStream, the final decode and DS_FreeStream.
ProcessFinalBatch ==
  /\ pc = "zeros"
  /\ zeros = n_context
  /\ IF Len(batch_buffer) > 0
     THEN processBatch(batch_buffer)
     ELSE UNCHANGED <<decoder_state, failures>>
  /\ transcript' = decoder_state'
  /\ pc' = "done"
  /\ UNCHANGED <<stt, todo, fed, zeros, audio_buffer, mfcc_buffer, batch_buffer,
                 windows>>

\* Destroys the stream without decoding it.
DS_FreeStream ==
  /\ pc = "idle"
  /\ pc' = "freed"
  /\ UNCHANGED <<stt, todo, fed, zeros, audio_buffer, windows, transcript, pipe>>

\* The caller's choices and the steps of a call in progress.
Call ==
  \/ DS_CreateStream
  \/ \E n \in 0 .. MaxSamples : DS_SpeechToText(n) \/ DS_FeedAudioContent(n)
  \/ DS_IntermediateDecode
  \/ DS_FinishStream
  \/ DS_FreeStream

Step ==
  \/ PushSample
  \/ ProcessFullWindow
  \/ FeedReturn
  \/ FlushAudio
  \/ addZeroMfccWindow
  \/ ProcessFinalBatch

Next == Call \/ Step

Spec == Init /\ [][Next]_vars

\* A call that has begun runs on the caller's thread until it returns.
FairSpec == Spec /\ WF_vars(Step)

-----------------------------------------------------------------------------
(* Reference definitions: what the pipeline should have computed, as a     *)
(* function of the number of samples alone.                                *)

\* The samples before the j-th window.
WindowStart(j) == (j - 1) * audio_win_step

\* The j-th window has audio_win_len samples, or those the audio still has.
WindowSize(j) ==
  IF WindowStart(j) + audio_win_len <= fed
  THEN audio_win_len
  ELSE fed - WindowStart(j)

Frame(j) ==
  IF j \in 1 .. windows
  THEN compute_mfcc([i \in 1 .. WindowSize(j) |-> WindowStart(j) + i])
  ELSE zero_buffer

\* The frames in the order mfcc_buffer receives them: n_context zero frames,
\* the windows, zero frames again.
PaddedFrame(k) ==
  IF k <= n_context THEN zero_buffer ELSE Frame(k - n_context)

\* The t-th timestep is centred on the t-th window.
Timestep(t) ==
  [i \in 1 .. mfcc_frames_per_timestep |-> PaddedFrame(t + i - 1)]

\* The windows that n samples fill.
FullWindows(n) ==
  IF n < audio_win_len THEN 0 ELSE (n - audio_win_len) \div audio_win_step + 1

-----------------------------------------------------------------------------
(* Properties *)

Frames == [zero : BOOLEAN, samples : Seq(Nat)]

Timesteps == Seq(Frames)

\* Type invariant of the stream.
TypeOK ==
  /\ pc \in {"none", "idle", "feed", "flush", "zeros", "done", "freed"}
  /\ stt \in BOOLEAN
  /\ todo \in Nat /\ fed \in Nat /\ zeros \in Nat
  /\ windows \in Nat /\ failures \in Nat
  /\ audio_buffer \in Seq(Nat)
  /\ mfcc_buffer \in Seq(Frames)
  /\ batch_buffer \in Seq(Timesteps)
  /\ decoder_state \in Seq(Timesteps)
  /\ transcript \in Seq(Timesteps)

\* No buffer outgrows its reservation, whatever fails: the asserts after the
\* two copy_up_to_n calls (deepspeech.cc:215, :235), and audio_buffer never
\* leaves feedAudioContent full, so that the next call can make progress.
BuffersBounded ==
  /\ Len(audio_buffer) <= audio_win_len
  /\ pc # "feed" => Len(audio_buffer) < audio_win_len
  /\ Len(mfcc_buffer) < mfcc_frames_per_timestep
  /\ Len(batch_buffer) < n_steps

\* However the audio is cut into calls, the audio buffer holds exactly the
\* samples from the start of the next window on: feedAudioContent and
\* shift_buffer_left neither skip nor repeat a sample.
AudioContiguous ==
  pc \in {"idle", "feed", "flush"} =>
    LET start == WindowStart(windows + 1)
    IN  /\ Len(audio_buffer) = fed - start
        /\ \A i \in 1 .. Len(audio_buffer) : audio_buffer[i] = start + i

\* As long as no run of the interpreter failed, the decoder has seen the
\* timesteps 1, 2, ... in order, each centred on its window with n_context
\* frames on both sides, padded by zeros at the ends of the audio.
TimestepsCentred ==
  failures = 0 =>
    \A t \in 1 .. Len(decoder_state) : decoder_state[t] = Timestep(t)

\* DS_FinishStream and DS_SpeechToText return a transcript of every window
\* of the audio, the last and partial one included, once each and in order;
\* it depends on the samples and not on how they were cut into calls.
FinishDecodesAll ==
  (pc = "done" /\ failures = 0) =>
    /\ windows = FullWindows(fed) + 1
    /\ Len(transcript) = windows
    /\ \A t \in 1 .. windows : transcript[t] = Timestep(t)

\* The strengthening that makes the two properties above inductive: what the
\* buffers hold between two steps of a call, as long as no run failed.
\* Frames pushed so far to mfcc_buffer, the initial context included.
pushed == n_context + windows + zeros

\* The windows processed before the flush were full; the flushed one is not.
WindowsFull ==
  /\ pc \in {"idle", "feed", "flush"} =>
       /\ zeros = 0
       /\ \A j \in 1 .. windows : WindowStart(j) + audio_win_len <= fed
  /\ pc \in {"zeros", "done"} =>
       /\ windows >= 1
       /\ zeros <= n_context
       /\ WindowStart(windows) <= fed
       /\ fed < WindowStart(windows) + audio_win_len
       /\ \A j \in 1 .. windows - 1 : WindowStart(j) + audio_win_len <= fed

\* mfcc_buffer holds the last frames pushed, and the decoder and batch_buffer
\* hold together one timestep per frame pushed beyond the first 2*n_context.
PipelineHolds ==
  (failures = 0 /\ pc \in {"idle", "feed", "flush", "zeros"}) =>
    /\ Len(mfcc_buffer) = IF pushed < 2 * n_context THEN pushed ELSE 2 * n_context
    /\ \A i \in 1 .. Len(mfcc_buffer) :
         mfcc_buffer[i] = PaddedFrame(pushed - Len(mfcc_buffer) + i)
    /\ Len(decoder_state) + Len(batch_buffer) =
         IF pushed > 2 * n_context THEN pushed - 2 * n_context ELSE 0
    /\ \A i \in 1 .. Len(batch_buffer) :
         batch_buffer[i] = Timestep(Len(decoder_state) + i)

\* What the last decode returned is what the decoder has seen.
DoneHolds ==
  (failures = 0 /\ pc = "done") =>
    /\ Len(decoder_state) = windows
    /\ transcript = decoder_state

\* The inductive invariant of StreamingStateProofs.
StreamInv ==
  /\ TypeOK
  /\ BuffersBounded
  /\ AudioContiguous
  /\ WindowsFull
  /\ PipelineHolds
  /\ TimestepsCentred
  /\ DoneHolds

\* The centre of a timestep is audio of a later window than the centre of
\* the timestep before it, even when runs of the interpreter fail: an error
\* drops frames or batches but never repeats, reorders or invents one.
CentresAdvance ==
  LET Centre(t) == decoder_state[t][n_context + 1]
  IN  \A t \in 1 .. Len(decoder_state) :
        /\ ~Centre(t).zero
        /\ t > 1 => /\ Centre(t - 1).samples # << >>
                    /\ Centre(t).samples # << >> =>
                         Centre(t - 1).samples[1] < Centre(t).samples[1]

\* While a stream lives, a later decode extends an earlier one: what
\* DS_IntermediateDecode reported is never taken back by the pipeline.
TranscriptExtends ==
  [][(pc \in {"idle", "feed", "flush", "zeros"}) =>
       /\ Len(transcript) <= Len(transcript')
       /\ SubSeq(transcript', 1, Len(transcript)) = transcript]_vars

\* Feeding and finishing return: the loops of feedAudioContent and
\* finalizeStream end.
CallsReturn ==
  /\ (pc = "feed") ~> (pc \in {"idle", "done"})
  /\ (pc = "flush") ~> (pc = "done")

=============================================================================
