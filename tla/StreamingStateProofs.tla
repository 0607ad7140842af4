------------------------ MODULE StreamingStateProofs ------------------------
(***************************************************************************)
(* Proofs about StreamingState, for every window length and step, every    *)
(* context and batch size, every amount of audio and however it is cut     *)
(* into calls.                                                             *)
(***************************************************************************)
EXTENDS StreamingState, SequenceTheorems, TLAPS

-----------------------------------------------------------------------------
(* Arithmetic of the windows *)

\* The first window starts the audio, the others start later.
LEMMA WindowStartType ==
  /\ WindowStart(1) = 0
  /\ \A j \in Nat \ {0} : WindowStart(j) \in Nat
BY ModelAssumption DEF WindowStart

\* Consecutive windows start audio_win_step apart.
LEMMA WindowStartStep ==
  ASSUME NEW j \in Nat \ {0}
  PROVE  WindowStart(j + 1) = WindowStart(j) + audio_win_step
BY ModelAssumption DEF WindowStart

\* A later window starts no earlier.
LEMMA WindowStartMonotone ==
  ASSUME NEW i \in Nat \ {0}, NEW j \in Nat \ {0}, i <= j
  PROVE  WindowStart(i) <= WindowStart(j)
<1>1. (j - i) * audio_win_step >= 0
  BY ModelAssumption
<1>2. (j - 1) * audio_win_step = (i - 1) * audio_win_step + (j - i) * audio_win_step
  BY ModelAssumption
<1>. QED
  BY <1>1, <1>2, ModelAssumption DEF WindowStart

\* The quotient is the only number whose multiple is that close below a.
LEMMA DivUnique ==
  ASSUME NEW a \in Nat, NEW s \in Nat \ {0}, NEW q \in Nat,
         q * s <= a, a < q * s + s
  PROVE  a \div s = q
<1>. DEFINE d == a \div s
<1>1. d \in Nat /\ d * s <= a /\ a < d * s + s
  OBVIOUS
<1>2. ASSUME d < q PROVE FALSE
  <2>1. q * s = (d + 1) * s + (q - d - 1) * s
    BY <1>1
  <2>2. (q - d - 1) * s >= 0
    BY <1>1, <1>2
  <2>3. (d + 1) * s = d * s + s
    BY <1>1
  <2>. QED
    BY <1>1, <2>1, <2>2, <2>3
<1>3. ASSUME q < d PROVE FALSE
  <2>1. d * s = (q + 1) * s + (d - q - 1) * s
    BY <1>1
  <2>2. (d - q - 1) * s >= 0
    BY <1>1, <1>3
  <2>3. (q + 1) * s = q * s + s
    OBVIOUS
  <2>. QED
    BY <1>1, <2>1, <2>2, <2>3
<1>. QED
  BY <1>1, <1>2, <1>3

-----------------------------------------------------------------------------
(* Sequences *)

\* What std::rotate and resize leave of a buffer.
LEMMA ShiftProperties ==
  ASSUME NEW S, NEW buf \in Seq(S), NEW n \in Nat, n <= Len(buf)
  PROVE  /\ shift_buffer_left(buf, n) \in Seq(S)
         /\ Len(shift_buffer_left(buf, n)) = Len(buf) - n
         /\ \A i \in 1 .. Len(buf) - n : shift_buffer_left(buf, n)[i] = buf[n + i]
<1>1. Len(buf) \in Nat /\ \A i \in n + 1 .. Len(buf) : buf[i] \in S
  BY ElementOfSeq, LenProperties
<1>. HIDE DEF shift_buffer_left
<1>2. /\ SubSeq(buf, n + 1, Len(buf)) \in Seq(S)
      /\ Len(SubSeq(buf, n + 1, Len(buf))) =
           IF n + 1 <= Len(buf) THEN Len(buf) - (n + 1) + 1 ELSE 0
      /\ \A i \in 1 .. Len(buf) - (n + 1) + 1 :
           SubSeq(buf, n + 1, Len(buf))[i] = buf[n + 1 + i - 1]
  BY <1>1, SubSeqProperties
<1>. QED
  BY <1>1, <1>2 DEF shift_buffer_left

\* Features and zeros are frames.
LEMMA FrameType ==
  /\ zero_buffer \in Frames
  /\ \A buf \in Seq(Nat) : compute_mfcc(buf) \in Frames
BY EmptySeq DEF zero_buffer, compute_mfcc, Frames

-----------------------------------------------------------------------------
(* Type correctness *)

\* The pipeline behind audio_buffer.
PipeType ==
  /\ mfcc_buffer \in Seq(Frames)
  /\ batch_buffer \in Seq(Timesteps)
  /\ decoder_state \in Seq(Timesteps)
  /\ failures \in Nat

\* A batch goes to the decoder whole or not at all.
LEMMA BatchType ==
  ASSUME PipeType, NEW batch \in Seq(Timesteps), processBatch(batch)
  PROVE  decoder_state' \in Seq(Timesteps) /\ failures' \in Nat
<1>1. decoder_state \o batch \in Seq(Timesteps)
  BY ConcatProperties DEF PipeType
<1>2. CASE decoder_state' = decoder_state \o batch /\ UNCHANGED failures
  BY <1>1, <1>2 DEF PipeType
<1>3. CASE InvokeFails /\ UNCHANGED decoder_state
  BY <1>3 DEF PipeType, InvokeFails
<1>. QED
  BY <1>2, <1>3 DEF processBatch

\* Pushing a frame keeps the types of the pipeline.
LEMMA PushType ==
  ASSUME PipeType, NEW frame \in Frames, pushMfccBuffer(frame)
  PROVE  PipeType'
<1>. DEFINE buf == Append(mfcc_buffer, frame)
            batch == Append(batch_buffer, buf)
<1>1. buf \in Seq(Frames) /\ Len(buf) \in Nat /\ Len(buf) >= 1
  BY DEF PipeType
<1>2. batch \in Seq(Timesteps)
  BY <1>1 DEF PipeType, Timesteps
<1>3. CASE Len(buf) = mfcc_frames_per_timestep
  <2>1. processMfccWindow(buf) /\ mfcc_buffer' = shift_buffer_left(buf, 1)
    BY <1>3 DEF pushMfccBuffer
  <2>2. mfcc_buffer' \in Seq(Frames)
    BY <1>1, <2>1, ShiftProperties
  <2>3. CASE Len(batch) = n_steps
    <3>1. processBatch(batch) /\ batch_buffer' = << >>
      BY <2>1, <2>3 DEF processMfccWindow
    <3>. QED
      BY <1>2, <2>2, <3>1, BatchType, EmptySeq DEF PipeType
  <2>4. CASE Len(batch) # n_steps
    <3>1. batch_buffer' = batch /\ UNCHANGED <<decoder_state, failures>>
      BY <2>1, <2>4 DEF processMfccWindow
    <3>. QED
      BY <1>2, <2>2, <3>1 DEF PipeType
  <2>. QED
    BY <2>3, <2>4
<1>4. CASE Len(buf) # mfcc_frames_per_timestep
  BY <1>1, <1>4 DEF pushMfccBuffer, PipeType
<1>. QED
  BY <1>3, <1>4

\* So does a window, whether its features are computed or not.
LEMMA WindowType ==
  ASSUME PipeType, windows \in Nat, NEW buf \in Seq(Nat), processAudioWindow(buf)
  PROVE  PipeType' /\ windows' \in Nat
<1>1. windows' \in Nat
  BY DEF processAudioWindow
<1>2. CASE pushMfccBuffer(compute_mfcc(buf))
  BY <1>1, <1>2, PushType, FrameType
<1>3. CASE InvokeFails /\ UNCHANGED <<mfcc_buffer, batch_buffer, decoder_state>>
  BY <1>1, <1>3 DEF InvokeFails, PipeType
<1>. QED
  BY <1>2, <1>3 DEF processAudioWindow

\* Every step of every call keeps the types.
LEMMA TypeStep ==
  ASSUME TypeOK, [Next]_vars
  PROVE  TypeOK'
<1>. USE ModelAssumption
<1>0. PipeType /\ windows \in Nat /\ audio_buffer \in Seq(Nat)
  BY DEF TypeOK, PipeType
<1>1. ASSUME NewStream, todo' \in Nat, stt' \in BOOLEAN, pc' \in {"idle", "feed"}
      PROVE  TypeOK'
  <2>1. mfcc_buffer' \in Seq(Frames)
    BY <1>1, FrameType DEF NewStream
  <2>. QED
    BY <1>1, <2>1, EmptySeq DEF NewStream, TypeOK
<1>2. CASE DS_CreateStream
  BY <1>1, <1>2 DEF DS_CreateStream
<1>3. ASSUME NEW n \in 0 .. MaxSamples, DS_SpeechToText(n)
      PROVE  TypeOK'
  BY <1>1, <1>3 DEF DS_SpeechToText
<1>4. ASSUME NEW n \in 0 .. MaxSamples, DS_FeedAudioContent(n)
      PROVE  TypeOK'
  BY <1>4 DEF DS_FeedAudioContent, TypeOK, pipe
<1>5. CASE DS_IntermediateDecode
  BY <1>5 DEF DS_IntermediateDecode, TypeOK, pipe
<1>6. CASE DS_FinishStream \/ DS_FreeStream
  BY <1>6 DEF DS_FinishStream, DS_FreeStream, TypeOK, pipe
<1>7. CASE PushSample
  BY <1>7 DEF PushSample, TypeOK, pipe
<1>8. CASE ProcessFullWindow
  <2>1. PipeType' /\ windows' \in Nat
    BY <1>0, <1>8, WindowType DEF ProcessFullWindow
  <2>2. audio_buffer' \in Seq(Nat)
    BY <1>0, <1>8, ShiftProperties DEF ProcessFullWindow
  <2>. QED
    BY <1>8, <2>1, <2>2 DEF ProcessFullWindow, TypeOK, PipeType
<1>9. CASE FeedReturn
  BY <1>9 DEF FeedReturn, TypeOK, pipe
<1>10. CASE FlushAudio
  <2>1. PipeType' /\ windows' \in Nat
    BY <1>0, <1>10, WindowType DEF FlushAudio
  <2>. QED
    BY <1>10, <2>1 DEF FlushAudio, TypeOK, PipeType
<1>11. CASE addZeroMfccWindow
  <2>1. PipeType'
    BY <1>0, <1>11, PushType, FrameType DEF addZeroMfccWindow
  <2>. QED
    BY <1>11, <2>1 DEF addZeroMfccWindow, TypeOK, PipeType
<1>12. CASE ProcessFinalBatch
  <2>1. decoder_state' \in Seq(Timesteps) /\ failures' \in Nat
    <3>1. CASE processBatch(batch_buffer)
      BY <1>0, <3>1, BatchType DEF PipeType
    <3>2. CASE UNCHANGED <<decoder_state, failures>>
      BY <1>0, <3>2 DEF PipeType
    <3>. QED
      BY <1>12, <3>1, <3>2 DEF ProcessFinalBatch
  <2>. QED
    BY <1>12, <2>1 DEF ProcessFinalBatch, TypeOK
<1>13. CASE UNCHANGED vars
  BY <1>13 DEF TypeOK, vars
<1>. QED
  BY <1>2, <1>3, <1>4, <1>5, <1>6, <1>7, <1>8, <1>9, <1>10, <1>11, <1>12, <1>13
     DEF Next, Call, Step

\* Initial states are typed.
LEMMA TypeInit == Init => TypeOK
<1>1. << >> \in Seq(Nat) /\ << >> \in Seq(Frames) /\ << >> \in Seq(Timesteps)
  BY EmptySeq
<1>2. 0 \in Nat
  OBVIOUS
<1>. QED
  BY <1>1, <1>2, Zenon DEF Init, TypeOK

\* The fields of StreamingState keep their types through every call.
THEOREM TypeCorrect == Spec => []TypeOK
BY TypeInit, TypeStep, PTL DEF Spec

-----------------------------------------------------------------------------
(* The audio buffer *)

\* The part of the invariant that is about audio_buffer and the windows.
AudioInv ==
  /\ Len(audio_buffer) <= audio_win_len
  /\ pc # "feed" => Len(audio_buffer) < audio_win_len
  /\ AudioContiguous
  /\ WindowsFull

\* Every step keeps it: samples are appended one by one, a full window is
\* shifted by the distance between two windows.
LEMMA AudioStep ==
  ASSUME TypeOK, TypeOK', AudioInv, [Next]_vars
  PROVE  AudioInv'
<1>. USE ModelAssumption, WindowStartType
<1>. HIDE DEF WindowStart
<1>. DEFINE start == WindowStart(windows + 1)
<1>0. /\ windows \in Nat /\ fed \in Nat /\ zeros \in Nat
      /\ windows' \in Nat /\ fed' \in Nat /\ zeros' \in Nat
      /\ audio_buffer \in Seq(Nat) /\ Len(audio_buffer) \in Nat
  BY DEF TypeOK
<1>00. windows + 1 \in Nat \ {0}
  BY <1>0
<1>01. start \in Nat /\ WindowStart(windows + 1 + 1) = start + audio_win_step
  BY <1>00, WindowStartStep
<1>. HIDE DEF start
<1>1. ASSUME NewStream, pc' \in {"idle", "feed"}
      PROVE  AudioInv'
  <2>1. /\ fed' = 0 /\ windows' = 0 /\ zeros' = 0 /\ Len(audio_buffer') = 0
    BY <1>1, EmptySeq DEF NewStream
  <2>2. AudioContiguous'
    BY <1>1, <2>1 DEF AudioContiguous
  <2>3. WindowsFull'
    BY <1>1, <2>1 DEF WindowsFull
  <2>. QED
    BY <1>1, <2>1, <2>2, <2>3 DEF AudioInv
<1>2. CASE DS_CreateStream
  BY <1>1, <1>2 DEF DS_CreateStream
<1>3. ASSUME NEW n \in 0 .. MaxSamples, DS_SpeechToText(n)
      PROVE  AudioInv'
  BY <1>1, <1>3 DEF DS_SpeechToText
<1>4. ASSUME UNCHANGED <<audio_buffer, fed, windows, zeros>>,
             \/ UNCHANGED pc
             \/ pc \in {"idle", "flush"} /\ pc' \in {"idle", "feed", "flush"}
             \/ pc = "feed" /\ pc' \in {"idle", "flush"}
                 /\ Len(audio_buffer) < audio_win_len
             \/ pc = "zeros" /\ pc' = "done"
             \/ pc = "idle" /\ pc' = "freed"
      PROVE  AudioInv'
  BY <1>0, <1>4 DEF AudioInv, AudioContiguous, WindowsFull
<1>5. ASSUME NEW n \in 0 .. MaxSamples, DS_FeedAudioContent(n)
      PROVE  AudioInv'
  BY <1>4, <1>5 DEF DS_FeedAudioContent
<1>6. CASE DS_IntermediateDecode
  BY <1>4, <1>6 DEF DS_IntermediateDecode
<1>7. CASE DS_FinishStream \/ DS_FreeStream
  BY <1>4, <1>7 DEF DS_FinishStream, DS_FreeStream
<1>8. CASE FeedReturn
  BY <1>4, <1>8 DEF FeedReturn
<1>9. CASE PushSample
  <2>1. /\ pc = "feed" /\ pc' = "feed" /\ windows' = windows /\ zeros' = zeros
        /\ fed' = fed + 1 /\ Len(audio_buffer) < audio_win_len
        /\ audio_buffer' = Append(audio_buffer, fed + 1)
    BY <1>9 DEF PushSample
  <2>2. Len(audio_buffer) = fed - start
        /\ \A i \in 1 .. Len(audio_buffer) : audio_buffer[i] = start + i
    BY <2>1 DEF AudioInv, AudioContiguous, start
  <2>3. Len(audio_buffer') = Len(audio_buffer) + 1
        /\ \A i \in 1 .. Len(audio_buffer') :
             audio_buffer'[i] = IF i <= Len(audio_buffer) THEN audio_buffer[i] ELSE fed + 1
    BY <1>0, <1>00, <1>01, <2>1
  <2>4. AudioContiguous'
    <3>1. Len(audio_buffer') = fed' - start
      BY <1>0, <1>01, <2>1, <2>2, <2>3
    <3>2. ASSUME NEW i \in 1 .. Len(audio_buffer')
          PROVE  audio_buffer'[i] = start + i
      <4>1. CASE i <= Len(audio_buffer)
        BY <1>0, <2>2, <2>3, <4>1
      <4>2. CASE i = Len(audio_buffer) + 1
        <5>1. audio_buffer'[i] = fed + 1
          BY <1>0, <2>3, <4>2
        <5>2. start + i = fed + 1
          BY <1>0, <1>01, <2>2, <4>2
        <5>. QED
          BY <5>1, <5>2
      <4>3. i <= Len(audio_buffer) \/ i = Len(audio_buffer) + 1
        BY <1>0, <2>3
      <4>. QED
        BY <4>1, <4>2, <4>3
    <3>. QED
      BY <2>1, <3>1, <3>2 DEF AudioContiguous, start
  <2>5. WindowsFull'
    <3>1. zeros = 0 /\ \A j \in 1 .. windows : WindowStart(j) + audio_win_len <= fed
      BY <2>1 DEF AudioInv, WindowsFull
    <3>2. ASSUME NEW j \in 1 .. windows
          PROVE  WindowStart(j) + audio_win_len <= fed + 1
      <4>. WindowStart(j) \in Nat /\ WindowStart(j) + audio_win_len <= fed
        BY <3>1, <1>0
      <4>. QED
        BY <1>0
    <3>. QED
      BY <2>1, <3>1, <3>2 DEF WindowsFull
  <2>. QED
    BY <1>0, <1>00, <1>01, <2>1, <2>3, <2>4, <2>5 DEF AudioInv
<1>10. CASE ProcessFullWindow
  <2>1. /\ pc = "feed" /\ pc' = "feed" /\ windows' = windows + 1 /\ zeros' = zeros
        /\ fed' = fed /\ Len(audio_buffer) = audio_win_len
        /\ audio_buffer' = shift_buffer_left(audio_buffer, audio_win_step)
    BY <1>10 DEF ProcessFullWindow, processAudioWindow
  <2>2. Len(audio_buffer) = fed - start
        /\ \A i \in 1 .. Len(audio_buffer) : audio_buffer[i] = start + i
    BY <2>1 DEF AudioInv, AudioContiguous, start
  <2>3. Len(audio_buffer') = audio_win_len - audio_win_step
        /\ \A i \in 1 .. audio_win_len - audio_win_step :
             audio_buffer'[i] = audio_buffer[audio_win_step + i]
    BY <1>0, <1>00, <1>01, <2>1, ShiftProperties
  <2>4. AudioContiguous'
    <3>1. WindowStart(windows' + 1) = start + audio_win_step
      BY <1>01, <2>1
    <3>2. Len(audio_buffer') = fed' - (start + audio_win_step)
      <4>1. fed - start = audio_win_len
        BY <2>1, <2>2
      <4>2. Len(audio_buffer') = audio_win_len - audio_win_step /\ fed' = fed
        BY <2>1, <2>3
      <4>. QED
        BY <1>0, <1>01, <4>1, <4>2
    <3>3. ASSUME NEW i \in 1 .. Len(audio_buffer')
          PROVE  audio_buffer'[i] = (start + audio_win_step) + i
      <4>1. /\ i \in 1 .. audio_win_len - audio_win_step
            /\ audio_win_step + i \in 1 .. Len(audio_buffer)
        BY <1>0, <2>1, <2>3
      <4>2. audio_buffer'[i] = start + (audio_win_step + i)
        BY <2>2, <2>3, <4>1
      <4>. QED
        BY <1>01, <4>1, <4>2
    <3>. DEFINE next == WindowStart(windows' + 1)
    <3>4. /\ Len(audio_buffer') = fed' - next
          /\ \A i \in 1 .. Len(audio_buffer') : audio_buffer'[i] = next + i
      BY <3>1, <3>2, <3>3
    <3>. QED
      BY <3>4 DEF AudioContiguous
  <2>5. WindowsFull'
    <3>1. zeros = 0 /\ \A j \in 1 .. windows : WindowStart(j) + audio_win_len <= fed
      BY <2>1 DEF AudioInv, WindowsFull
    <3>2. ASSUME NEW j \in 1 .. windows + 1
          PROVE  WindowStart(j) + audio_win_len <= fed
      <4>1. CASE j = windows + 1
        BY <1>0, <1>01, <2>1, <2>2, <4>1 DEF start
      <4>2. CASE j # windows + 1
        BY <1>0, <3>1, <4>2
      <4>. QED
        BY <4>1, <4>2
    <3>. QED
      BY <2>1, <3>1, <3>2 DEF WindowsFull
  <2>. QED
    BY <1>0, <1>00, <1>01, <2>1, <2>3, <2>4, <2>5 DEF AudioInv
<1>11. CASE FlushAudio
  <2>1. /\ pc = "flush" /\ pc' = "zeros" /\ windows' = windows + 1 /\ zeros' = 0
        /\ fed' = fed /\ audio_buffer' = audio_buffer
    BY <1>11 DEF FlushAudio, processAudioWindow
  <2>2. Len(audio_buffer) = fed - start /\ Len(audio_buffer) < audio_win_len
    BY <2>1 DEF AudioInv, AudioContiguous, start
  <2>3. WindowsFull'
    <3>1. \A j \in 1 .. windows' - 1 : WindowStart(j) + audio_win_len <= fed'
      <4>1. \A j \in 1 .. windows : WindowStart(j) + audio_win_len <= fed
        BY <2>1 DEF AudioInv, WindowsFull
      <4>2. windows' - 1 = windows
        BY <1>0, <2>1
      <4>. QED
        BY <2>1, <4>1, <4>2
    <3>2. WindowStart(windows') <= fed' /\ fed' < WindowStart(windows') + audio_win_len
      BY <1>0, <1>01, <2>1, <2>2 DEF start
    <3>. QED
      BY <1>0, <2>1, <3>1, <3>2 DEF WindowsFull
  <2>. QED
    BY <1>0, <1>00, <1>01, <2>1, <2>2, <2>3 DEF AudioInv, AudioContiguous
<1>12. CASE addZeroMfccWindow
  BY <1>0, <1>12 DEF addZeroMfccWindow, AudioInv, AudioContiguous, WindowsFull
<1>13. CASE ProcessFinalBatch
  BY <1>4, <1>13 DEF ProcessFinalBatch
<1>14. CASE UNCHANGED vars
  BY <1>4, <1>14 DEF vars
<1>. QED
  BY <1>2, <1>3, <1>5, <1>6, <1>7, <1>8, <1>9, <1>10, <1>11, <1>12, <1>13, <1>14
     DEF Next, Call, Step

-----------------------------------------------------------------------------
(* The feature pipeline *)

\* The part of BuffersBounded that is about the feature pipeline.
PipeBounded ==
  /\ Len(mfcc_buffer) < mfcc_frames_per_timestep
  /\ Len(batch_buffer) < n_steps

\* A full context window is shifted, a full batch is emptied.
LEMMA PushBounded ==
  ASSUME PipeType, PipeBounded, NEW frame \in Frames, pushMfccBuffer(frame)
  PROVE  PipeBounded'
<1>. USE ModelAssumption
<1>. DEFINE buf == Append(mfcc_buffer, frame)
            batch == Append(batch_buffer, buf)
<1>1. /\ buf \in Seq(Frames)
      /\ Len(mfcc_buffer) \in Nat /\ Len(buf) = Len(mfcc_buffer) + 1
  BY DEF PipeType
<1>2. Len(batch_buffer) \in Nat /\ Len(batch) = Len(batch_buffer) + 1
  BY <1>1 DEF PipeType
<1>3. mfcc_frames_per_timestep \in Nat
  BY DEF mfcc_frames_per_timestep
<1>4. CASE Len(buf) = mfcc_frames_per_timestep
  <2>1. processMfccWindow(buf) /\ mfcc_buffer' = shift_buffer_left(buf, 1)
    BY <1>4 DEF pushMfccBuffer
  <2>2. Len(mfcc_buffer') = Len(buf) - 1
    <3>1. 1 \in Nat /\ 1 <= Len(buf)
      BY <1>1
    <3>. QED
      BY <1>1, <2>1, <3>1, ShiftProperties
  <2>3. CASE Len(batch) = n_steps
    <3>1. Len(batch_buffer') = 0
      BY <2>1, <2>3 DEF processMfccWindow
    <3>. QED
      BY <1>1, <1>3, <1>4, <2>2, <3>1 DEF PipeBounded
  <2>4. CASE Len(batch) # n_steps
    <3>1. batch_buffer' = batch
      BY <2>1, <2>4 DEF processMfccWindow
    <3>. QED
      BY <1>1, <1>2, <1>3, <1>4, <2>2, <2>4, <3>1 DEF PipeBounded
  <2>. QED
    BY <2>3, <2>4
<1>5. CASE Len(buf) # mfcc_frames_per_timestep
  <2>1. mfcc_buffer' = buf /\ batch_buffer' = batch_buffer
    BY <1>5 DEF pushMfccBuffer
  <2>. QED
    BY <1>1, <1>3, <1>5, <2>1 DEF PipeBounded
<1>. QED
  BY <1>4, <1>5

\* No step of a call resets the count of failing runs.
LEMMA PushFailures ==
  ASSUME PipeType, NEW frame, pushMfccBuffer(frame), failures' = 0
  PROVE  failures = 0
<1>1. ASSUME InvokeFails PROVE failures = 0
  BY <1>1 DEF InvokeFails, PipeType
<1>. QED
  BY <1>1 DEF pushMfccBuffer, processMfccWindow, processBatch

\* The frames F[t] .. F[t + 2*n_context].
Slice(F, t) == [j \in 1 .. mfcc_frames_per_timestep |-> F[t + j - 1]]

\* The pipeline has been given the first m frames of F: mfcc_buffer holds the
\* last ones, decoder and batch_buffer a timestep for every other one.
PipeHolds(F, m) ==
  /\ Len(mfcc_buffer) = IF m < 2 * n_context THEN m ELSE 2 * n_context
  /\ \A i \in 1 .. Len(mfcc_buffer) : mfcc_buffer[i] = F[m - Len(mfcc_buffer) + i]
  /\ Len(decoder_state) + Len(batch_buffer) =
       IF m > 2 * n_context THEN m - 2 * n_context ELSE 0
  /\ \A i \in 1 .. Len(batch_buffer) : batch_buffer[i] = Slice(F, Len(decoder_state) + i)
  /\ \A t \in 1 .. Len(decoder_state) : decoder_state[t] = Slice(F, t)

\* Pushing the next frame of F.
LEMMA PushHolds ==
  ASSUME PipeType, NEW F, NEW m \in Nat, PipeHolds(F, m), F[m + 1] \in Frames,
         pushMfccBuffer(F[m + 1]), failures = 0, failures' = 0
  PROVE  PipeHolds(F, m + 1)'
<1>. USE ModelAssumption
<1>. DEFINE buf == Append(mfcc_buffer, F[m + 1])
            batch == Append(batch_buffer, buf)
            d == Len(decoder_state)
            n == Len(mfcc_buffer)
<1>1. /\ n \in Nat /\ d \in Nat /\ Len(batch_buffer) \in Nat
      /\ n = IF m < 2 * n_context THEN m ELSE 2 * n_context
      /\ d + Len(batch_buffer) = IF m > 2 * n_context THEN m - 2 * n_context ELSE 0
  BY DEF PipeType, PipeHolds
<1>2. /\ buf \in Seq(Frames)
      /\ Len(buf) = n + 1
      /\ \A i \in 1 .. n + 1 : buf[i] = IF i <= n THEN mfcc_buffer[i] ELSE F[m + 1]
  BY DEF PipeType
<1>3. \A i \in 1 .. n + 1 : buf[i] = F[m - n + i]
  <2>1. ASSUME NEW i \in 1 .. n + 1, i <= n
        PROVE  buf[i] = F[m - n + i]
    BY <1>1, <1>2, <2>1 DEF PipeHolds
  <2>2. ASSUME NEW i \in 1 .. n + 1, ~(i <= n)
        PROVE  buf[i] = F[m - n + i]
    <3>1. m - n + i = m + 1
      BY <1>1, <2>2
    <3>. QED
      BY <1>2, <2>2, <3>1
  <2>. QED
    BY <2>1, <2>2
<1>4. CASE Len(buf) # mfcc_frames_per_timestep
  <2>1. mfcc_buffer' = buf /\ UNCHANGED <<batch_buffer, decoder_state>>
    BY <1>4 DEF pushMfccBuffer
  <2>2. m < 2 * n_context /\ n = m
    BY <1>1, <1>2, <1>4 DEF mfcc_frames_per_timestep
  <2>3. \A i \in 1 .. Len(mfcc_buffer') : mfcc_buffer'[i] = F[m + 1 - Len(mfcc_buffer') + i]
    BY <1>1, <1>2, <1>3, <2>1, <2>2
  <2>4. /\ \A i \in 1 .. Len(batch_buffer') :
             batch_buffer'[i] = Slice(F, Len(decoder_state') + i)
        /\ \A t \in 1 .. Len(decoder_state') : decoder_state'[t] = Slice(F, t)
    BY <2>1 DEF PipeHolds
  <2>5. Len(mfcc_buffer') = IF m + 1 < 2 * n_context THEN m + 1 ELSE 2 * n_context
    BY <1>1, <1>2, <2>1, <2>2
  <2>6. Len(decoder_state') + Len(batch_buffer') =
          IF m + 1 > 2 * n_context THEN m + 1 - 2 * n_context ELSE 0
    BY <1>1, <2>1, <2>2
  <2>. QED
    BY <2>3, <2>4, <2>5, <2>6 DEF PipeHolds, Slice
<1>5. CASE Len(buf) = mfcc_frames_per_timestep
  <2>1. /\ processMfccWindow(buf) /\ mfcc_buffer' = shift_buffer_left(buf, 1)
    BY <1>5 DEF pushMfccBuffer
  <2>2. n = 2 * n_context /\ m >= n /\ mfcc_frames_per_timestep = n + 1
    BY <1>1, <1>2, <1>5 DEF mfcc_frames_per_timestep
  <2>3. /\ Len(mfcc_buffer') = n
        /\ \A i \in 1 .. n : mfcc_buffer'[i] = F[m + 1 - n + i]
    <3>1. Len(mfcc_buffer') = n /\ \A i \in 1 .. n : mfcc_buffer'[i] = buf[1 + i]
      <4>1. 1 \in Nat /\ 1 <= Len(buf) /\ Len(buf) - 1 = n
        BY <1>1, <1>2
      <4>2. /\ Len(mfcc_buffer') = Len(buf) - 1
            /\ \A i \in 1 .. Len(buf) - 1 : mfcc_buffer'[i] = buf[1 + i]
        BY <1>2, <2>1, <4>1, ShiftProperties
      <4>. QED
        BY <4>1, <4>2
    <3>2. ASSUME NEW i \in 1 .. n PROVE mfcc_buffer'[i] = F[m + 1 - n + i]
      <4>1. 1 + i \in 1 .. n + 1 /\ m - n + (1 + i) = m + 1 - n + i
        BY <1>1
      <4>. QED
        BY <1>3, <3>1, <4>1
    <3>. QED
      BY <3>1, <3>2
  <2>4. buf = Slice(F, m - n + 1)
    <3>1. buf = [i \in 1 .. n + 1 |-> buf[i]]
      BY <1>1, <1>2
    <3>2. ASSUME NEW i \in 1 .. n + 1 PROVE buf[i] = F[(m - n + 1) + i - 1]
      <4>1. (m - n + 1) + i - 1 = m - n + i
        BY <1>1
      <4>. QED
        BY <1>3, <4>1
    <3>. QED
      BY <2>2, <3>1, <3>2 DEF Slice
  <2>5. /\ batch \in Seq(Timesteps)
        /\ Len(batch) = Len(batch_buffer) + 1
        /\ \A i \in 1 .. Len(batch) : batch[i] = Slice(F, d + i)
    <3>1. /\ batch \in Seq(Timesteps)
          /\ Len(batch) = Len(batch_buffer) + 1
          /\ \A i \in 1 .. Len(batch_buffer) : batch[i] = batch_buffer[i]
          /\ batch[Len(batch_buffer) + 1] = buf
      BY <1>2 DEF PipeType, Timesteps
    <3>2. m - n + 1 = d + Len(batch_buffer) + 1
      BY <1>1, <2>2
    <3>3. ASSUME NEW i \in 1 .. Len(batch_buffer) + 1 PROVE batch[i] = Slice(F, d + i)
      <4>1. CASE i = Len(batch_buffer) + 1
        <5>1. d + i = m - n + 1
          BY <1>1, <3>2, <4>1
        <5>. QED
          BY <2>4, <3>1, <4>1, <5>1
      <4>2. CASE i # Len(batch_buffer) + 1
        <5>1. i \in 1 .. Len(batch_buffer)
          BY <1>1, <4>2
        <5>. QED
          BY <3>1, <5>1 DEF PipeHolds
      <4>. QED
        BY <4>1, <4>2
    <3>. QED
      BY <3>1, <3>3
  <2>6. d + Len(batch) = m + 1 - 2 * n_context /\ m + 1 > 2 * n_context
    <3>1. d + Len(batch_buffer) = m - 2 * n_context
      BY <1>1, <2>2
    <3>2. Len(batch) = Len(batch_buffer) + 1
      BY <2>5
    <3>. HIDE DEF batch
    <3>. QED
      BY <1>1, <2>2, <3>1, <3>2
  <2>7. \A t \in 1 .. d : decoder_state[t] = Slice(F, t)
    BY DEF PipeHolds
  <2>8. CASE Len(batch) = n_steps
    <3>1. decoder_state' = decoder_state \o batch /\ batch_buffer' = << >>
      <4>1. processBatch(batch) /\ batch_buffer' = << >>
        BY <2>1, <2>8 DEF processMfccWindow
      <4>2. ~InvokeFails
        BY DEF InvokeFails
      <4>. QED
        BY <4>1, <4>2 DEF processBatch
    <3>2. /\ Len(decoder_state') = d + Len(batch)
          /\ \A t \in 1 .. d + Len(batch) :
               decoder_state'[t] = IF t <= d THEN decoder_state[t] ELSE batch[t - d]
      BY <2>5, <3>1, ConcatProperties DEF PipeType
    <3>3. ASSUME NEW t \in 1 .. Len(decoder_state') PROVE decoder_state'[t] = Slice(F, t)
      <4>1. CASE t <= d
        <5>1. t \in 1 .. d /\ t \in 1 .. d + Len(batch)
          BY <1>1, <3>2, <4>1
        <5>. QED
          BY <2>7, <3>2, <4>1, <5>1
      <4>2. CASE ~(t <= d)
        <5>1. t - d \in 1 .. Len(batch) /\ d + (t - d) = t /\ t \in 1 .. d + Len(batch)
          BY <1>1, <2>5, <3>2, <4>2
        <5>. QED
          BY <2>5, <3>2, <4>2, <5>1
      <4>. QED
        BY <4>1, <4>2
    <3>4. Len(batch_buffer') = 0
      BY <3>1
    <3>5. Len(mfcc_buffer') = 2 * n_context /\ 2 * n_context <= m
      BY <2>2, <2>3
    <3>6. Len(decoder_state') + Len(batch_buffer') = m + 1 - 2 * n_context
      BY <1>1, <2>5, <2>6, <3>2, <3>4
    <3>7. \A i \in 1 .. Len(mfcc_buffer') :
            mfcc_buffer'[i] = F[m + 1 - Len(mfcc_buffer') + i]
      BY <2>3
    <3>8. /\ Len(mfcc_buffer') = IF m + 1 < 2 * n_context THEN m + 1 ELSE 2 * n_context
          /\ Len(decoder_state') + Len(batch_buffer') =
               IF m + 1 > 2 * n_context THEN m + 1 - 2 * n_context ELSE 0
      BY <2>6, <3>5, <3>6
    <3>9. \A i \in 1 .. Len(batch_buffer') :
            batch_buffer'[i] = Slice(F, Len(decoder_state') + i)
      BY <3>4
    <3>. QED
      BY <3>3, <3>7, <3>8, <3>9 DEF PipeHolds, Slice
  <2>9. CASE Len(batch) # n_steps
    <3>1. batch_buffer' = batch /\ decoder_state' = decoder_state
      BY <2>1, <2>9 DEF processMfccWindow
    <3>5. Len(mfcc_buffer') = 2 * n_context /\ 2 * n_context <= m
      BY <2>2, <2>3
    <3>7. \A i \in 1 .. Len(mfcc_buffer') :
            mfcc_buffer'[i] = F[m + 1 - Len(mfcc_buffer') + i]
      BY <2>3
    <3>8. /\ Len(mfcc_buffer') = IF m + 1 < 2 * n_context THEN m + 1 ELSE 2 * n_context
          /\ Len(decoder_state') + Len(batch_buffer') =
               IF m + 1 > 2 * n_context THEN m + 1 - 2 * n_context ELSE 0
      BY <2>6, <3>1, <3>5
    <3>9. \A i \in 1 .. Len(batch_buffer') :
            batch_buffer'[i] = Slice(F, Len(decoder_state') + i)
      BY <2>5, <3>1
    <3>10. \A t \in 1 .. Len(decoder_state') : decoder_state'[t] = Slice(F, t)
      BY <2>7, <3>1
    <3>. QED
      BY <3>7, <3>8, <3>9, <3>10 DEF PipeHolds, Slice
  <2>. QED
    BY <2>8, <2>9
<1>. QED
  BY <1>4, <1>5

-----------------------------------------------------------------------------
(* The reference frames while the audio grows *)

\* A frame that has been pushed does not change when samples or a window are
\* added, since the windows before the last are full.
LEMMA FramesStable ==
  ASSUME TypeOK, TypeOK', windows' \in {windows, windows + 1}, fed' >= fed,
         fed' # fed => \A j \in 1 .. windows : WindowStart(j) + audio_win_len <= fed
  PROVE  \A k \in 1 .. n_context + windows : PaddedFrame(k)' = PaddedFrame(k)
<1>. USE ModelAssumption
<1>0. windows \in Nat /\ fed \in Nat /\ windows' \in Nat /\ fed' \in Nat
  BY DEF TypeOK
<1>. SUFFICES ASSUME NEW k \in 1 .. n_context + windows
              PROVE  PaddedFrame(k)' = PaddedFrame(k)
  OBVIOUS
<1>1. CASE k <= n_context
  BY <1>1 DEF PaddedFrame, zero_buffer
<1>2. CASE ~(k <= n_context)
  <2>. DEFINE j == k - n_context
  <2>1. j \in 1 .. windows /\ j \in 1 .. windows'
    BY <1>0, <1>2
  <2>2. WindowStart(j) \in Nat
    BY <1>0, <2>1, WindowStartType
  <2>. HIDE DEF j
  <2>3. WindowSize(j)' = WindowSize(j)
    <3>1. CASE fed' = fed
      BY <3>1 DEF WindowSize, WindowStart
    <3>2. CASE fed' # fed
      <4>1. WindowStart(j) + audio_win_len <= fed
        BY <2>1, <3>2
      <4>2. WindowStart(j) + audio_win_len <= fed'
        BY <1>0, <2>2, <4>1
      <4>3. WindowSize(j) = audio_win_len
        BY <4>1 DEF WindowSize
      <4>4. WindowSize(j)' = audio_win_len
        BY <4>2 DEF WindowSize, WindowStart
      <4>. QED
        BY <4>3, <4>4
    <3>. QED
      BY <3>1, <3>2
  <2>4. Frame(j)' = Frame(j)
    BY <2>1, <2>3 DEF Frame, compute_mfcc, WindowStart
  <2>. QED
    BY <1>2, <2>4 DEF PaddedFrame, j
<1>. QED
  BY <1>1, <1>2

\* The audio buffer is the next window.
LEMMA NextWindow ==
  ASSUME TypeOK, TypeOK', NEW w, w = windows + 1, windows' = w, fed' = fed,
         AudioContiguous, pc \in {"feed", "flush"},
         Len(audio_buffer) <= audio_win_len
  PROVE  PaddedFrame(n_context + w)' = compute_mfcc(audio_buffer)
<1>. USE ModelAssumption
<1>. DEFINE start == WindowStart(w)
<1>0. /\ w \in Nat \ {0} /\ fed \in Nat
      /\ audio_buffer \in Seq(Nat) /\ Len(audio_buffer) \in Nat
  BY DEF TypeOK
<1>1. start \in Nat
  BY <1>0, WindowStartType
<1>2. /\ Len(audio_buffer) = fed - start
      /\ \A i \in 1 .. Len(audio_buffer) : audio_buffer[i] = start + i
  BY DEF AudioContiguous
<1>. HIDE DEF start
<1>3. Len(audio_buffer) = IF start + audio_win_len <= fed THEN audio_win_len ELSE fed - start
  BY <1>0, <1>1, <1>2
<1>4. WindowSize(w)' = Len(audio_buffer)
  BY <1>3 DEF WindowSize, WindowStart, start
<1>5. audio_buffer = [i \in 1 .. Len(audio_buffer) |-> start + i]
  BY <1>0, <1>2
<1>6. Frame(w)' = compute_mfcc(audio_buffer)
  <2>1. w \in 1 .. windows'
    BY <1>0
  <2>2. Frame(w)' = compute_mfcc([i \in 1 .. WindowSize(w)' |-> start + i])
    BY <2>1 DEF Frame, compute_mfcc, WindowStart, start
  <2>. QED
    BY <1>4, <1>5, <2>2
<1>7. ~(n_context + w <= n_context) /\ (n_context + w) - n_context = w
  BY <1>0
<1>. QED
  BY <1>6, <1>7 DEF PaddedFrame

-----------------------------------------------------------------------------
(* Between the invariant and PipeHolds *)

\* The invariant says that the pipeline holds the frames pushed.
LEMMA HoldsIn ==
  ASSUME TypeOK, PipelineHolds, TimestepsCentred, failures = 0,
         pc \in {"idle", "feed", "flush", "zeros"},
         NEW F, \A k \in 1 .. pushed : F[k] = PaddedFrame(k)
  PROVE  PipeHolds(F, pushed)
<1>. USE ModelAssumption
<1>. DEFINE d == Len(decoder_state)
            n == Len(mfcc_buffer)
            b == Len(batch_buffer)
<1>0. d \in Nat /\ n \in Nat /\ b \in Nat /\ pushed \in Nat
  BY DEF TypeOK, pushed
<1>1. /\ n = IF pushed < 2 * n_context THEN pushed ELSE 2 * n_context
      /\ \A i \in 1 .. n : mfcc_buffer[i] = PaddedFrame(pushed - n + i)
      /\ d + b = IF pushed > 2 * n_context THEN pushed - 2 * n_context ELSE 0
      /\ \A i \in 1 .. b : batch_buffer[i] = Timestep(d + i)
      /\ \A t \in 1 .. d : decoder_state[t] = Timestep(t)
  BY DEF PipelineHolds, TimestepsCentred
<1>. HIDE DEF d, n, b
<1>2. ASSUME NEW i \in 1 .. n PROVE mfcc_buffer[i] = F[pushed - n + i]
  <2>1. pushed - n + i \in 1 .. pushed
    BY <1>0, <1>1
  <2>. QED
    BY <1>1, <2>1
<1>3. ASSUME NEW t \in 1 .. d + b PROVE Timestep(t) = Slice(F, t)
  <2>1. ASSUME NEW i \in 1 .. mfcc_frames_per_timestep PROVE t + i - 1 \in 1 .. pushed
    BY <1>0, <1>1 DEF mfcc_frames_per_timestep
  <2>2. \A i \in 1 .. mfcc_frames_per_timestep : PaddedFrame(t + i - 1) = F[t + i - 1]
    BY <2>1
  <2>. QED
    BY <2>2 DEF Timestep, Slice
<1>4. ASSUME NEW i \in 1 .. b PROVE batch_buffer[i] = Slice(F, d + i)
  <2>1. d + i \in 1 .. d + b
    BY <1>0
  <2>. QED
    BY <1>1, <1>3, <2>1
<1>5. ASSUME NEW t \in 1 .. d PROVE decoder_state[t] = Slice(F, t)
  <2>1. t \in 1 .. d + b
    BY <1>0
  <2>. QED
    BY <1>1, <1>3, <2>1
<1>. QED
  BY <1>1, <1>2, <1>4, <1>5 DEF PipeHolds, d, n, b

\* The frames that mfcc_buffer holds have been pushed.
LEMMA FrameIndex ==
  ASSUME NEW m \in Nat, NEW n \in Nat, NEW i \in 1 .. n,
         n = IF m < 2 * n_context THEN m ELSE 2 * n_context
  PROVE  m - n + i \in 1 .. m
BY ModelAssumption

\* So have the frames of a timestep that is in the batch or decoded.
LEMMA TimestepIndex ==
  ASSUME NEW m \in Nat, NEW d \in Nat, NEW b \in Nat, NEW t \in 1 .. d + b,
         d + b = IF m > 2 * n_context THEN m - 2 * n_context ELSE 0,
         NEW i \in 1 .. mfcc_frames_per_timestep
  PROVE  t + i - 1 \in 1 .. m
BY ModelAssumption DEF mfcc_frames_per_timestep

\* And conversely, in the state a step leads to.
LEMMA HoldsOut ==
  ASSUME TypeOK', NEW F, NEW m \in Nat, m = pushed', PipeHolds(F, m)',
         \A k \in 1 .. m : F[k] = PaddedFrame(k)'
  PROVE  PipelineHolds' /\ TimestepsCentred'
<1>. USE ModelAssumption
<1>a. PICK d : d = Len(decoder_state')
  OBVIOUS
<1>b. PICK n : n = Len(mfcc_buffer')
  OBVIOUS
<1>c. PICK b : b = Len(batch_buffer')
  OBVIOUS
<1>0. d \in Nat /\ n \in Nat /\ b \in Nat /\ m \in Nat
  BY <1>a, <1>b, <1>c DEF TypeOK
<1>1. /\ n = IF m < 2 * n_context THEN m ELSE 2 * n_context
      /\ \A i \in 1 .. n : mfcc_buffer'[i] = F[m - n + i]
      /\ d + b = IF m > 2 * n_context THEN m - 2 * n_context ELSE 0
      /\ \A i \in 1 .. b : batch_buffer'[i] = Slice(F, d + i)
      /\ \A t \in 1 .. d : decoder_state'[t] = Slice(F, t)
  BY <1>a, <1>b, <1>c DEF PipeHolds, Slice
<1>2. ASSUME NEW i \in 1 .. n PROVE mfcc_buffer'[i] = PaddedFrame(m - n + i)'
  <2>1. m - n + i \in 1 .. m
    BY <1>0, <1>1, FrameIndex
  <2>. QED
    BY <1>1, <2>1
<1>3. ASSUME NEW t \in 1 .. d + b PROVE Timestep(t)' = Slice(F, t)
  <2>1. ASSUME NEW i \in 1 .. mfcc_frames_per_timestep PROVE t + i - 1 \in 1 .. m
    BY <1>0, <1>1, TimestepIndex
  <2>2. \A i \in 1 .. mfcc_frames_per_timestep : PaddedFrame(t + i - 1)' = F[t + i - 1]
    BY <2>1
  <2>. QED
    BY <2>2 DEF Timestep, Slice, mfcc_frames_per_timestep
<1>4. ASSUME NEW i \in 1 .. b PROVE batch_buffer'[i] = Timestep(d + i)'
  <2>1. d + i \in 1 .. d + b
    BY <1>0
  <2>. QED
    BY <1>1, <1>3, <2>1
<1>5. ASSUME NEW t \in 1 .. d PROVE decoder_state'[t] = Timestep(t)'
  <2>1. t \in 1 .. d + b
    BY <1>0
  <2>. QED
    BY <1>1, <1>3, <2>1
<1>. QED
  BY <1>a, <1>b, <1>c, <1>1, <1>2, <1>4, <1>5 DEF PipelineHolds, TimestepsCentred

-----------------------------------------------------------------------------
(* The pipeline through every step *)

Live == {"idle", "feed", "flush", "zeros"}

\* A step that pushes the next frame of the reference.
LEMMA PushStep ==
  ASSUME TypeOK, TypeOK', PipelineHolds, TimestepsCentred, pc \in Live,
         NEW m \in Nat, m = pushed, pushed' = m + 1,
         NEW f \in Frames, pushMfccBuffer(f), PaddedFrame(m + 1)' = f,
         \A k \in 1 .. m : PaddedFrame(k)' = PaddedFrame(k)
  PROVE  PipelineHolds' /\ TimestepsCentred'
<1>0. PipeType
  BY DEF TypeOK, PipeType
<1>1. CASE failures' # 0
  BY <1>1 DEF PipelineHolds, TimestepsCentred
<1>2. CASE failures' = 0
  <2>1. failures = 0
    BY <1>0, <1>2, PushFailures
  <2>2. PICK F : F = [k \in Nat |-> PaddedFrame(k)']
    OBVIOUS
  <2>3. \A k \in 1 .. m : F[k] = PaddedFrame(k)
    BY <2>2
  <2>4. F[m + 1] = f /\ \A k \in 1 .. m + 1 : F[k] = PaddedFrame(k)'
    BY <2>2
  <2>5. PipeHolds(F, pushed)
    BY <2>1, <2>3, HoldsIn DEF Live
  <2>6. PipeHolds(F, m + 1)'
    BY <1>0, <1>2, <2>1, <2>4, <2>5, PushHolds
  <2>. QED
    BY <2>4, <2>6, HoldsOut
<1>. QED
  BY <1>1, <1>2

\* A step that leaves the pipeline alone.
LEMMA QuietStep ==
  ASSUME TypeOK, TypeOK', PipelineHolds, TimestepsCentred, pc \in Live,
         UNCHANGED pipe, NEW m \in Nat, m = pushed, pushed' = m,
         \A k \in 1 .. m : PaddedFrame(k)' = PaddedFrame(k)
  PROVE  PipelineHolds' /\ TimestepsCentred'
<1>1. CASE failures # 0
  BY <1>1 DEF PipelineHolds, TimestepsCentred, pipe
<1>2. CASE failures = 0
  <2>2. PICK F : F = [k \in Nat |-> PaddedFrame(k)']
    OBVIOUS
  <2>3. \A k \in 1 .. m : F[k] = PaddedFrame(k) /\ F[k] = PaddedFrame(k)'
    BY <2>2
  <2>4. PipeHolds(F, m)
    BY <1>2, <2>3, HoldsIn DEF Live
  <2>5. PipeHolds(F, m)'
    BY <2>4 DEF PipeHolds, Slice, pipe, mfcc_frames_per_timestep
  <2>. QED
    BY <2>3, <2>5, HoldsOut
<1>. QED
  BY <1>1, <1>2

\* A new stream has been given its n_context frames of past context.
LEMMA NewStreamHolds ==
  ASSUME TypeOK', NewStream
  PROVE  PipelineHolds' /\ TimestepsCentred'
<1>. USE ModelAssumption
<1>1. PICK F : F = [k \in Nat |-> PaddedFrame(k)']
  OBVIOUS
<1>2. /\ mfcc_buffer' = [i \in 1 .. n_context |-> zero_buffer]
      /\ Len(mfcc_buffer') = n_context
      /\ Len(decoder_state') = 0 /\ Len(batch_buffer') = 0
      /\ n_context = pushed'
  BY DEF NewStream, pushed
<1>3. \A k \in 1 .. n_context : F[k] = zero_buffer /\ F[k] = PaddedFrame(k)'
  BY <1>1 DEF PaddedFrame, zero_buffer
<1>4. PipeHolds(F, n_context)'
  <2>1. \A i \in 1 .. Len(mfcc_buffer') :
          mfcc_buffer'[i] = F[n_context - Len(mfcc_buffer') + i]
    BY <1>2, <1>3
  <2>2. /\ Len(mfcc_buffer') =
             IF n_context < 2 * n_context THEN n_context ELSE 2 * n_context
        /\ Len(decoder_state') + Len(batch_buffer') =
             IF n_context > 2 * n_context THEN n_context - 2 * n_context ELSE 0
    <3>1. /\ n_context = IF n_context < 2 * n_context THEN n_context ELSE 2 * n_context
          /\ ~(n_context > 2 * n_context)
          /\ 0 + 0 = 0
      OBVIOUS
    <3>. QED
      BY <1>2, <3>1, Zenon
  <2>3. /\ \A i \in 1 .. Len(batch_buffer') :
             batch_buffer'[i] = Slice(F, Len(decoder_state') + i)
        /\ \A t \in 1 .. Len(decoder_state') : decoder_state'[t] = Slice(F, t)
    BY <1>2
  <2>. QED
    BY <2>1, <2>2, <2>3 DEF PipeHolds, Slice
<1>. QED
  BY <1>2, <1>3, <1>4, HoldsOut

\* The last batch completes the transcript.
LEMMA FinalBatch ==
  ASSUME TypeOK, TypeOK', WindowsFull, PipelineHolds, TimestepsCentred,
         ProcessFinalBatch
  PROVE  TimestepsCentred' /\ DoneHolds'
<1>. USE ModelAssumption
<1>1. CASE failures' # 0
  BY <1>1 DEF TimestepsCentred, DoneHolds
<1>2. CASE failures' = 0
  <2>0. /\ pc = "zeros" /\ zeros = n_context /\ transcript' = decoder_state'
        /\ UNCHANGED <<windows, fed>>
    BY DEF ProcessFinalBatch
  <2>1. failures = 0 /\ decoder_state' = decoder_state \o batch_buffer
    <3>0. ~InvokeFails
      BY <1>2 DEF InvokeFails, TypeOK
    <3>1. CASE Len(batch_buffer) > 0
      BY <3>0, <3>1, <1>2 DEF ProcessFinalBatch, processBatch
    <3>2. CASE ~(Len(batch_buffer) > 0)
      <4>1. batch_buffer = << >>
        BY <3>2, EmptySeq DEF TypeOK
      <4>2. decoder_state \o << >> = decoder_state
        BY ConcatEmptySeq DEF TypeOK
      <4>. QED
        BY <1>2, <3>2, <4>1, <4>2 DEF ProcessFinalBatch
    <3>. QED
      BY <3>1, <3>2
  <2>. DEFINE d == Len(decoder_state)
              b == Len(batch_buffer)
  <2>2. /\ d \in Nat /\ b \in Nat
        /\ Len(decoder_state') = d + b
        /\ \A t \in 1 .. d + b :
             decoder_state'[t] = IF t <= d THEN decoder_state[t] ELSE batch_buffer[t - d]
    BY <2>1, ConcatProperties DEF TypeOK
  <2>3. d + b = windows
    <3>1. windows \in Nat /\ windows >= 1 /\ pushed = windows + 2 * n_context
      BY <2>0 DEF pushed, WindowsFull, TypeOK
    <3>2. d + b = IF pushed > 2 * n_context THEN pushed - 2 * n_context ELSE 0
      BY <2>0, <2>1 DEF PipelineHolds
    <3>. QED
      BY <3>1, <3>2
  <2>4. ASSUME NEW t \in 1 .. d + b PROVE decoder_state'[t] = Timestep(t)
    <3>1. CASE t <= d
      <4>1. t \in 1 .. d
        BY <2>2, <3>1
      <4>. QED
        BY <2>1, <2>2, <3>1, <4>1 DEF TimestepsCentred
    <3>2. CASE ~(t <= d)
      <4>1. t - d \in 1 .. b /\ d + (t - d) = t
        BY <2>2, <3>2
      <4>2. batch_buffer[t - d] = Timestep(d + (t - d))
        BY <2>0, <2>1, <4>1 DEF PipelineHolds
      <4>. QED
        BY <2>2, <3>2, <4>1, <4>2
    <3>. QED
      BY <3>1, <3>2
  <2>5. ASSUME NEW t PROVE Timestep(t)' = Timestep(t)
    BY <2>0 DEF Timestep, PaddedFrame, Frame, WindowSize, WindowStart, compute_mfcc,
                zero_buffer, mfcc_frames_per_timestep
  <2>6. TimestepsCentred'
    BY <2>2, <2>4, <2>5 DEF TimestepsCentred
  <2>7. DoneHolds'
    BY <2>0, <2>2, <2>3 DEF DoneHolds
  <2>. QED
    BY <2>6, <2>7
<1>. QED
  BY <1>1, <1>2

\* Every step keeps what the pipeline holds.
LEMMA PipeStep ==
  ASSUME TypeOK, TypeOK', AudioInv, PipelineHolds, TimestepsCentred, DoneHolds,
         [Next]_vars
  PROVE  PipelineHolds' /\ TimestepsCentred' /\ DoneHolds'
<1>. USE ModelAssumption
<1>0. /\ windows \in Nat /\ fed \in Nat /\ zeros \in Nat
      /\ audio_buffer \in Seq(Nat) /\ failures \in Nat
  BY DEF TypeOK
<1>1. ASSUME NewStream, pc' # "done"
      PROVE  PipelineHolds' /\ TimestepsCentred' /\ DoneHolds'
  BY <1>1, NewStreamHolds DEF DoneHolds
<1>2. CASE DS_CreateStream
  BY <1>1, <1>2 DEF DS_CreateStream
<1>3. ASSUME NEW n \in 0 .. MaxSamples, DS_SpeechToText(n)
      PROVE  PipelineHolds' /\ TimestepsCentred' /\ DoneHolds'
  BY <1>1, <1>3 DEF DS_SpeechToText
<1>4. ASSUME UNCHANGED <<pipe, windows, fed, zeros>>, pc \in Live, pc' # "done"
      PROVE  PipelineHolds' /\ TimestepsCentred' /\ DoneHolds'
  <2>1. PICK m \in Nat : m = pushed
    BY <1>0 DEF pushed
  <2>2. pushed' = m
    BY <1>4, <2>1 DEF pushed
  <2>3. \A k \in 1 .. m : PaddedFrame(k)' = PaddedFrame(k)
    BY <1>4 DEF PaddedFrame, Frame, WindowSize, WindowStart, compute_mfcc, zero_buffer
  <2>. QED
    BY <1>4, <2>1, <2>2, <2>3, QuietStep DEF DoneHolds
<1>5. ASSUME NEW n \in 0 .. MaxSamples, DS_FeedAudioContent(n)
      PROVE  PipelineHolds' /\ TimestepsCentred' /\ DoneHolds'
  BY <1>4, <1>5 DEF DS_FeedAudioContent, Live
<1>6. CASE DS_IntermediateDecode
  BY <1>4, <1>6 DEF DS_IntermediateDecode, Live
<1>7. CASE DS_FinishStream \/ DS_FreeStream
  BY <1>4, <1>7 DEF DS_FinishStream, DS_FreeStream, Live
<1>8. CASE FeedReturn
  BY <1>4, <1>8 DEF FeedReturn, Live
<1>9. CASE PushSample
  <2>0. /\ pc = "feed" /\ pc' = "feed" /\ windows' = windows /\ zeros' = zeros
        /\ fed' = fed + 1 /\ UNCHANGED pipe
    BY <1>9 DEF PushSample
  <2>1. /\ zeros = 0
        /\ \A j \in 1 .. windows : WindowStart(j) + audio_win_len <= fed
    BY <2>0 DEF AudioInv, WindowsFull
  <2>2. PICK m \in Nat : m = pushed /\ m = n_context + windows
    BY <1>0, <2>1 DEF pushed
  <2>3. pushed' = m
    BY <2>0, <2>2 DEF pushed
  <2>4. fed' >= fed /\ windows' \in {windows, windows + 1}
    BY <1>0, <2>0
  <2>5. \A k \in 1 .. m : PaddedFrame(k)' = PaddedFrame(k)
    BY <2>1, <2>2, <2>4, FramesStable
  <2>. QED
    BY <2>0, <2>2, <2>3, <2>5, QuietStep DEF DoneHolds, Live
\* A window is processed: at the feed or at the flush.
<1>10. ASSUME pc \in {"feed", "flush"}, pc' \in {"feed", "zeros"},
              processAudioWindow(audio_buffer), zeros' = 0, fed' = fed
       PROVE  PipelineHolds' /\ TimestepsCentred' /\ DoneHolds'
  <2>0. DoneHolds'
    BY <1>10 DEF DoneHolds
  <2>1. CASE InvokeFails
    <3>1. failures' # 0
      BY <1>0, <2>1 DEF InvokeFails
    <3>. QED
      BY <2>0, <3>1 DEF PipelineHolds, TimestepsCentred
  <2>2. CASE pushMfccBuffer(compute_mfcc(audio_buffer))
    <3>1. windows' = windows + 1 /\ zeros = 0 /\ Len(audio_buffer) <= audio_win_len
          /\ AudioContiguous
      BY <1>10 DEF processAudioWindow, AudioInv, WindowsFull
    <3>2. PICK m \in Nat : m = pushed /\ m = n_context + windows
      BY <1>0, <3>1 DEF pushed
    <3>3. PICK w : w = windows + 1
      OBVIOUS
    <3>4. pushed' = m + 1 /\ m + 1 = n_context + w
      BY <1>0, <1>10, <3>1, <3>2, <3>3 DEF pushed
    <3>5. PaddedFrame(n_context + w)' = compute_mfcc(audio_buffer)
      BY <1>10, <3>1, <3>3, NextWindow
    <3>6. fed' >= fed /\ ~(fed' # fed) /\ windows' \in {windows, windows + 1}
      BY <1>0, <1>10, <3>1
    <3>7. \A k \in 1 .. m : PaddedFrame(k)' = PaddedFrame(k)
      BY <3>2, <3>6, FramesStable
    <3>8. compute_mfcc(audio_buffer) \in Frames
      BY <1>0, FrameType
    <3>9. PaddedFrame(m + 1)' = compute_mfcc(audio_buffer)
      BY <3>4, <3>5
    <3>10. pc \in Live
      BY <1>10 DEF Live
    <3>. QED
      BY <2>0, <2>2, <3>2, <3>4, <3>7, <3>8, <3>9, <3>10, PushStep
  <2>. QED
    BY <1>10, <2>1, <2>2 DEF processAudioWindow
<1>11. CASE ProcessFullWindow
  <2>1. pc = "feed" /\ zeros' = zeros /\ zeros = 0
    BY <1>11 DEF ProcessFullWindow, AudioInv, WindowsFull
  <2>. QED
    BY <1>10, <1>11, <2>1 DEF ProcessFullWindow
<1>12. CASE FlushAudio
  BY <1>10, <1>12 DEF FlushAudio
<1>13. CASE addZeroMfccWindow
  <2>0. /\ pc = "zeros" /\ pc' = "zeros" /\ zeros' = zeros + 1
        /\ UNCHANGED <<windows, fed>> /\ pushMfccBuffer(zero_buffer)
    BY <1>13 DEF addZeroMfccWindow
  <2>1. PICK m \in Nat : m = pushed
    BY <1>0 DEF pushed
  <2>2. pushed' = m + 1
    BY <1>0, <2>0, <2>1 DEF pushed
  <2>3. \A k \in 1 .. m : PaddedFrame(k)' = PaddedFrame(k)
    BY <2>0 DEF PaddedFrame, Frame, WindowSize, WindowStart, compute_mfcc, zero_buffer
  <2>4. PaddedFrame(m + 1)' = zero_buffer
    <3>1. ~(m + 1 - n_context \in 1 .. windows')
      BY <1>0, <2>0, <2>1 DEF pushed
    <3>. QED
      BY <3>1 DEF PaddedFrame, Frame, zero_buffer
  <2>. QED
    BY <2>0, <2>1, <2>2, <2>3, <2>4, FrameType, PushStep DEF DoneHolds, Live
<1>14. CASE ProcessFinalBatch
  <2>1. PipelineHolds'
    BY <1>14 DEF ProcessFinalBatch, PipelineHolds
  <2>. QED
    BY <1>14, <2>1, FinalBatch DEF AudioInv
<1>15. CASE UNCHANGED vars
  <2>1. ASSUME NEW t PROVE Timestep(t)' = Timestep(t) /\ PaddedFrame(t)' = PaddedFrame(t)
    BY <1>15 DEF vars, Timestep, PaddedFrame, Frame, WindowSize, WindowStart,
                 compute_mfcc, zero_buffer, mfcc_frames_per_timestep
  <2>2. TimestepsCentred' /\ DoneHolds'
    BY <1>15, <2>1 DEF vars, TimestepsCentred, DoneHolds
  <2>3. CASE pc \in Live
    BY <1>4, <1>15, <2>3 DEF vars, pipe, Live
  <2>4. CASE pc \notin Live
    BY <1>15, <2>2, <2>4 DEF vars, PipelineHolds, Live
  <2>. QED
    BY <2>3, <2>4
<1>. QED
  BY <1>2, <1>3, <1>5, <1>6, <1>7, <1>8, <1>9, <1>11, <1>12, <1>13, <1>14, <1>15
     DEF Next, Call, Step

\* Every step keeps the pipeline's buffers below their capacity.
LEMMA BoundedStep ==
  ASSUME TypeOK, PipeBounded, [Next]_vars
  PROVE  PipeBounded'
<1>. USE ModelAssumption
<1>0. PipeType /\ audio_buffer \in Seq(Nat)
  BY DEF TypeOK, PipeType
<1>1. ASSUME NewStream PROVE PipeBounded'
  <2>1. Len(mfcc_buffer') = n_context /\ Len(batch_buffer') = 0
    BY <1>1 DEF NewStream
  <2>. QED
    BY <2>1 DEF PipeBounded, mfcc_frames_per_timestep
<1>2. ASSUME UNCHANGED <<mfcc_buffer, batch_buffer>> PROVE PipeBounded'
  BY <1>2 DEF PipeBounded, mfcc_frames_per_timestep
<1>3. ASSUME processAudioWindow(audio_buffer) PROVE PipeBounded'
  <2>1. CASE pushMfccBuffer(compute_mfcc(audio_buffer))
    BY <1>0, <2>1, PushBounded, FrameType
  <2>2. CASE UNCHANGED <<mfcc_buffer, batch_buffer, decoder_state>>
    BY <1>2, <2>2
  <2>. QED
    BY <1>3, <2>1, <2>2 DEF processAudioWindow
<1>4. CASE addZeroMfccWindow
  BY <1>0, <1>4, PushBounded, FrameType DEF addZeroMfccWindow
<1>5. CASE DS_CreateStream \/ \E n \in 0 .. MaxSamples : DS_SpeechToText(n)
  BY <1>1, <1>5 DEF DS_CreateStream, DS_SpeechToText
<1>6. CASE ProcessFullWindow \/ FlushAudio
  BY <1>3, <1>6 DEF ProcessFullWindow, FlushAudio
<1>7. CASE \/ \E n \in 0 .. MaxSamples : DS_FeedAudioContent(n)
           \/ DS_IntermediateDecode \/ DS_FinishStream \/ DS_FreeStream
           \/ PushSample \/ FeedReturn \/ ProcessFinalBatch \/ UNCHANGED vars
  BY <1>2, <1>7 DEF DS_FeedAudioContent, DS_IntermediateDecode, DS_FinishStream,
     DS_FreeStream, PushSample, FeedReturn, ProcessFinalBatch, vars, pipe
<1>. QED
  BY <1>4, <1>5, <1>6, <1>7 DEF Next, Call, Step

-----------------------------------------------------------------------------
(* The theorems *)

\* Before the first stream is created the invariant holds of empty buffers.
LEMMA InvInit == Init => StreamInv
<1>. SUFFICES ASSUME Init PROVE StreamInv
  OBVIOUS
<1>1. TypeOK
  BY TypeInit
<1>2. /\ pc = "none" /\ Len(audio_buffer) = 0 /\ Len(mfcc_buffer) = 0
      /\ Len(batch_buffer) = 0 /\ Len(decoder_state) = 0
  BY DEF Init
<1>3. BuffersBounded
  BY <1>2, ModelAssumption DEF BuffersBounded, mfcc_frames_per_timestep
<1>4. AudioContiguous /\ WindowsFull /\ PipelineHolds /\ DoneHolds
  BY <1>2 DEF AudioContiguous, WindowsFull, PipelineHolds, DoneHolds
<1>5. TimestepsCentred
  BY <1>2 DEF TimestepsCentred
<1>. QED
  BY <1>1, <1>3, <1>4, <1>5 DEF StreamInv

\* Every step of every call keeps the inductive invariant.
LEMMA InvStep == StreamInv /\ [Next]_vars => StreamInv'
<1>. SUFFICES ASSUME StreamInv, [Next]_vars PROVE StreamInv'
  OBVIOUS
<1>1. TypeOK'
  BY TypeStep DEF StreamInv
<1>2. AudioInv /\ PipeBounded
  BY DEF StreamInv, BuffersBounded, AudioInv, PipeBounded
<1>3. AudioInv'
  BY <1>1, <1>2, AudioStep DEF StreamInv
<1>4. PipeBounded'
  BY <1>2, BoundedStep DEF StreamInv
<1>5. PipelineHolds' /\ TimestepsCentred' /\ DoneHolds'
  BY <1>1, <1>2, PipeStep DEF StreamInv
<1>6. BuffersBounded'
  BY <1>3, <1>4 DEF BuffersBounded, AudioInv, PipeBounded
<1>. QED
  BY <1>1, <1>3, <1>5, <1>6 DEF StreamInv, AudioInv

\* The buffers of StreamingState hold, between any two steps, exactly the
\* samples, frames and timesteps that the audio fed so far prescribes.
THEOREM StreamInvariant == Spec => []StreamInv
BY InvInit, InvStep, PTL DEF Spec

\* The asserts of pushMfccBuffer and processMfccWindow never fire, and a call
\* of feedAudioContent never leaves a full window behind.
THEOREM BuffersStayBounded == Spec => []BuffersBounded
<1>1. StreamInv => BuffersBounded
  BY DEF StreamInv
<1>. QED
  BY <1>1, StreamInvariant, PTL

\* No sample is skipped or repeated between windows, however the caller cuts
\* the audio into calls.
THEOREM AudioStaysContiguous == Spec => []AudioContiguous
<1>1. StreamInv => AudioContiguous
  BY DEF StreamInv
<1>. QED
  BY <1>1, StreamInvariant, PTL

\* The acoustic model sees the timesteps of the audio in order, each centred
\* on its window, as long as no run of the interpreter failed.
THEOREM DecodedTimestepsCentred == Spec => []TimestepsCentred
<1>1. StreamInv => TimestepsCentred
  BY DEF StreamInv
<1>. QED
  BY <1>1, StreamInvariant, PTL

\* Finishing a stream decodes every window once, the partial one included.
LEMMA InvFinish == StreamInv => FinishDecodesAll
<1>. SUFFICES ASSUME StreamInv, pc = "done", failures = 0
              PROVE  /\ windows = FullWindows(fed) + 1
                     /\ Len(transcript) = windows
                     /\ \A t \in 1 .. windows : transcript[t] = Timestep(t)
  BY DEF FinishDecodesAll
<1>. USE ModelAssumption
<1>0. windows \in Nat /\ fed \in Nat
  BY DEF StreamInv, TypeOK
<1>1. Len(decoder_state) = windows /\ transcript = decoder_state
  BY DEF StreamInv, DoneHolds
<1>2. \A t \in 1 .. windows : transcript[t] = Timestep(t)
  BY <1>1 DEF StreamInv, TimestepsCentred
<1>3. /\ windows >= 1
      /\ WindowStart(windows) <= fed
      /\ fed < WindowStart(windows) + audio_win_len
      /\ \A j \in 1 .. windows - 1 : WindowStart(j) + audio_win_len <= fed
  BY DEF StreamInv, WindowsFull
<1>4. CASE windows = 1
  <2>1. fed < audio_win_len
    BY <1>0, <1>3, <1>4, WindowStartType
  <2>. QED
    BY <1>1, <1>2, <1>4, <2>1 DEF FullWindows
<1>5. CASE windows # 1
  <2>. DEFINE q == windows - 2
              a == fed - audio_win_len
  <2>1. q \in Nat /\ windows - 1 \in 1 .. windows - 1
    BY <1>0, <1>3, <1>5
  <2>2. WindowStart(windows - 1) = q * audio_win_step
    BY <1>0 DEF WindowStart
  <2>3. WindowStart(windows) = q * audio_win_step + audio_win_step
    BY <1>0, <2>1 DEF WindowStart
  <2>4. q * audio_win_step \in Nat
    BY <2>1
  <2>5. q * audio_win_step + audio_win_len <= fed
    BY <1>3, <2>1, <2>2
  <2>6. fed < q * audio_win_step + audio_win_step + audio_win_len
    BY <1>3, <2>3
  <2>7. /\ a \in Nat
        /\ q * audio_win_step <= a
        /\ a < q * audio_win_step + audio_win_step
    BY <1>0, <2>4, <2>5, <2>6
  <2>8. a \div audio_win_step = q
    BY <2>1, <2>7, DivUnique
  <2>9. ~(fed < audio_win_len)
    BY <1>0, <2>7
  <2>10. FullWindows(fed) = q + 1
    BY <2>8, <2>9 DEF FullWindows
  <2>. QED
    BY <1>0, <1>1, <1>2, <2>10
<1>. QED
  BY <1>4, <1>5

\* DS_FinishStream and DS_SpeechToText transcribe all of the audio: what the
\* final decode saw depends on the samples, not on how they were fed.
THEOREM FinishTranscribesAll == Spec => []FinishDecodesAll
BY InvFinish, StreamInvariant, PTL

-----------------------------------------------------------------------------
(* The order of the centres, whatever fails *)

\* One frame is of earlier audio than another; only the last can be empty.
Before(f, g) ==
  /\ f.samples # << >>
  /\ g.samples # << >> => f.samples[1] < g.samples[1]

\* No frame of s is padding.
Audio(s) == \A i \in 1 .. Len(s) : ~s[i].zero

\* The frames of s are in the order of the audio.
Rising(s) == \A i, j \in 1 .. Len(s) : i < j => Before(s[i], s[j])

\* The frames of s are of earlier audio than those of t.
Precede(s, t) == \A i \in 1 .. Len(s) : \A j \in 1 .. Len(t) : Before(s[i], t[j])

\* The frames of s start no later than sample n.
Early(s, n) == \A i \in 1 .. Len(s) : s[i].samples # << >> /\ s[i].samples[1] <= n

\* Frames that are given to the decoder, that wait in a batch and that wait
\* for their context are in the order of the audio.
Line(d, b, p) ==
  /\ d \in Seq(Frames) /\ b \in Seq(Frames) /\ p \in Seq(Frames)
  /\ Audio(d) /\ Audio(b) /\ Audio(p)
  /\ Rising(d) /\ Rising(b) /\ Rising(p)
  /\ Precede(d, b) /\ Precede(d, p) /\ Precede(b, p)

\* So they are without those of a batch that was lost,
LEMMA LineLost ==
  ASSUME NEW d, NEW b, NEW p, Line(d, b, p)
  PROVE  Line(d, << >>, p)
<1>1. Len(<< >>) = 0 /\ << >> \in Seq(Frames) /\ 1 .. 0 = {}
  OBVIOUS
<1>2. Audio(<< >>) /\ Rising(<< >>) /\ Precede(d, << >>) /\ Precede(<< >>, p)
  BY <1>1 DEF Audio, Rising, Precede
<1> QED BY <1>1, <1>2 DEF Line

\* when a batch reaches the decoder,
LEMMA LineDecoded ==
  ASSUME NEW d, NEW b, NEW p, Line(d, b, p)
  PROVE  Line(d \o b, << >>, p)
<1> DEFINE e == d \o b
           n == Len(d)
<1>1. d \in Seq(Frames) /\ b \in Seq(Frames) /\ n \in Nat /\ Len(b) \in Nat
  BY DEF Line
<1>2. /\ e \in Seq(Frames) /\ Len(e) = n + Len(b)
      /\ \A i \in 1 .. Len(e) : e[i] = IF i <= n THEN d[i] ELSE b[i - n]
  BY <1>1, ConcatProperties
<1>3. Len(<< >>) = 0 /\ << >> \in Seq(Frames) /\ 1 .. 0 = {}
  OBVIOUS
<1> HIDE DEF e, n
<1>4. Audio(<< >>) /\ Rising(<< >>) /\ Precede(e, << >>) /\ Precede(<< >>, p)
  BY <1>3 DEF Audio, Rising, Precede
<1>5. \A i \in 1 .. Len(e) : \/ i \in 1 .. n /\ e[i] = d[i]
                             \/ i > n /\ i - n \in 1 .. Len(b) /\ e[i] = b[i - n]
  BY <1>1, <1>2
<1>6. Audio(e)
  BY <1>5 DEF Line, Audio, n
<1>7. Precede(e, p)
  BY <1>5 DEF Line, Precede, n
<1>8. Rising(e)
  <2> SUFFICES ASSUME NEW i \in 1 .. Len(e), NEW j \in 1 .. Len(e), i < j
               PROVE  Before(e[i], e[j])
    BY DEF Rising
  <2>1. CASE i \in 1 .. n /\ e[i] = d[i] /\ j \in 1 .. n /\ e[j] = d[j]
    BY <2>1 DEF Line, Rising, n
  <2>2. CASE i \in 1 .. n /\ e[i] = d[i] /\ j - n \in 1 .. Len(b) /\ e[j] = b[j - n]
    BY <2>2 DEF Line, Precede, n
  <2>3. CASE i > n /\ i - n \in 1 .. Len(b) /\ e[i] = b[i - n] /\ j > n
    <3>1. j - n \in 1 .. Len(b) /\ e[j] = b[j - n]
      BY <1>1, <1>2, <1>5, <2>3
    <3>2. i - n < j - n
      BY <1>1, <1>2
    <3> QED BY <2>3, <3>1, <3>2 DEF Line, Rising
  <2>4. i > n => j > n
    BY <1>1, <1>2
  <2> QED BY <1>5, <2>1, <2>2, <2>3, <2>4
<1> QED BY <1>2, <1>3, <1>4, <1>6, <1>7, <1>8 DEF Line, e

\* when the first frame gets its context
LEMMA LineMoved ==
  ASSUME NEW d, NEW b, NEW p, Line(d, b, p), p # << >>
  PROVE  Line(d, Append(b, p[1]), Tail(p))
<1> DEFINE c == Append(b, p[1])
           q == Tail(p)
<1>1. /\ d \in Seq(Frames) /\ b \in Seq(Frames) /\ p \in Seq(Frames)
      /\ Len(d) \in Nat /\ Len(b) \in Nat /\ Len(p) \in Nat /\ Len(p) > 0 /\ p[1] \in Frames
  BY DEF Line
<1>2. /\ c \in Seq(Frames) /\ Len(c) = Len(b) + 1 /\ c[Len(b) + 1] = p[1]
      /\ \A i \in 1 .. Len(b) : c[i] = b[i]
  BY <1>1
<1>3. q \in Seq(Frames) /\ Len(q) = Len(p) - 1 /\ \A i \in 1 .. Len(q) : q[i] = p[i + 1]
  BY <1>1
<1> HIDE DEF c, q
<1>4. \A i \in 1 .. Len(c) : \/ i \in 1 .. Len(b) /\ c[i] = b[i]
                             \/ i = Len(b) + 1 /\ c[i] = p[1]
  BY <1>1, <1>2
<1>5. \A i \in 1 .. Len(q) : i + 1 \in 1 .. Len(p) /\ 1 < i + 1 /\ q[i] = p[i + 1]
  BY <1>1, <1>3
<1>6. 1 \in 1 .. Len(p)
  BY <1>1
<1>7. Audio(c) /\ Audio(q)
  BY <1>4, <1>5, <1>6 DEF Line, Audio
<1>8. Precede(d, c)
  BY <1>4, <1>6 DEF Line, Precede
<1>9. Precede(d, q)
  BY <1>5 DEF Line, Precede
<1>10. Precede(c, q)
  BY <1>4, <1>5, <1>6 DEF Line, Precede, Rising
<1>11. Rising(c)
  <2> SUFFICES ASSUME NEW i \in 1 .. Len(c), NEW j \in 1 .. Len(c), i < j
               PROVE  Before(c[i], c[j])
    BY DEF Rising
  <2>1. i \in 1 .. Len(b) /\ c[i] = b[i]
    BY <1>1, <1>2
  <2>2. CASE j \in 1 .. Len(b) /\ c[j] = b[j]
    BY <2>1, <2>2 DEF Line, Rising
  <2>3. CASE c[j] = p[1]
    BY <1>6, <2>1, <2>3 DEF Line, Precede
  <2> QED BY <1>4, <2>2, <2>3
<1>12. Rising(q)
  <2> SUFFICES ASSUME NEW i \in 1 .. Len(q), NEW j \in 1 .. Len(q), i < j
               PROVE  Before(q[i], q[j])
    BY DEF Rising
  <2>1. i + 1 < j + 1
    BY <1>1, <1>3
  <2> QED BY <1>5, <2>1 DEF Line, Rising
<1> QED BY <1>1, <1>2, <1>3, <1>7, <1>8, <1>9, <1>10, <1>11, <1>12 DEF Line, c, q

\* and when a later window joins them.
LEMMA LineJoined ==
  ASSUME NEW d, NEW b, NEW p, Line(d, b, p), NEW n \in Nat,
         Early(d, n), Early(b, n), Early(p, n),
         NEW f \in Frames, ~f.zero, f.samples # << >> => f.samples[1] > n
  PROVE  Line(d, b, Append(p, f))
<1> DEFINE q == Append(p, f)
<1>1. d \in Seq(Frames) /\ b \in Seq(Frames) /\ p \in Seq(Frames) /\ Len(p) \in Nat
  BY DEF Line
<1>2. /\ q \in Seq(Frames) /\ Len(q) = Len(p) + 1
      /\ \A i \in 1 .. Len(q) : \/ i \in 1 .. Len(p) /\ q[i] = p[i]
                                \/ i = Len(p) + 1 /\ q[i] = f
  BY <1>1
<1> HIDE DEF q
<1>3. ASSUME NEW g \in Frames, g.samples # << >>, g.samples[1] <= n PROVE Before(g, f)
  <2>1. f.samples \in Seq(Nat) /\ g.samples \in Seq(Nat)
    BY DEF Frames
  <2>2. CASE f.samples # << >>
    <3>1. f.samples[1] \in Nat /\ g.samples[1] \in Nat
      BY <1>3, <2>1, <2>2
    <3>2. g.samples[1] < f.samples[1]
      BY <1>3, <2>2, <3>1
    <3> QED BY <1>3, <3>2 DEF Before
  <2> QED BY <1>3, <2>2 DEF Before
<1>4. /\ \A i \in 1 .. Len(d) : Before(d[i], f)
      /\ \A i \in 1 .. Len(b) : Before(b[i], f)
      /\ \A i \in 1 .. Len(p) : Before(p[i], f)
  BY <1>1, <1>3 DEF Early
<1>5. Audio(q)
  BY <1>2 DEF Line, Audio
<1>6. Precede(d, q) /\ Precede(b, q)
  BY <1>2, <1>4 DEF Line, Precede
<1>7. Rising(q)
  <2> SUFFICES ASSUME NEW i \in 1 .. Len(q), NEW j \in 1 .. Len(q), i < j
               PROVE  Before(q[i], q[j])
    BY DEF Rising
  <2>1. i \in 1 .. Len(p) /\ q[i] = p[i]
    BY <1>1, <1>2
  <2>2. CASE j \in 1 .. Len(p) /\ q[j] = p[j]
    BY <2>1, <2>2 DEF Line, Rising
  <2>3. CASE q[j] = f
    BY <1>4, <2>1, <2>3
  <2> QED BY <1>2, <2>2, <2>3
<1> QED BY <1>2, <1>5, <1>6, <1>7 DEF Line, q

\* All of them start no later than sample n.
Ahead(d, b, p, n) == Early(d, n) /\ Early(b, n) /\ Early(p, n)

\* What the moves above do to that.
LEMMA AheadMoves ==
  ASSUME NEW d \in Seq(Frames), NEW b \in Seq(Frames), NEW p \in Seq(Frames), NEW n,
         Ahead(d, b, p, n)
  PROVE  /\ Ahead(d, << >>, p, n) /\ Ahead(d \o b, << >>, p, n)
         /\ p # << >> => Ahead(d, Append(b, p[1]), Tail(p), n)
<1>1. Early(<< >>, n)
  <2>1. Len(<< >>) = 0 /\ 1 .. 0 = {}
    OBVIOUS
  <2> QED BY <2>1 DEF Early
<1>2. Early(d \o b, n)
  <2> DEFINE e == d \o b
  <2>1. Len(d) \in Nat /\ Len(b) \in Nat
    OBVIOUS
  <2>2. Len(e) = Len(d) + Len(b) /\ \A i \in 1 .. Len(e) : e[i] = IF i <= Len(d) THEN d[i] ELSE b[i - Len(d)]
    BY ConcatProperties
  <2> HIDE DEF e
  <2>3. \A i \in 1 .. Len(e) : \/ i \in 1 .. Len(d) /\ e[i] = d[i]
                               \/ i - Len(d) \in 1 .. Len(b) /\ e[i] = b[i - Len(d)]
    BY <2>1, <2>2
  <2>4. Early(e, n)
    BY <2>3 DEF Ahead, Early
  <2> QED BY <2>4 DEF e
<1>3. ASSUME p # << >> PROVE Early(Append(b, p[1]), n) /\ Early(Tail(p), n)
  <2> DEFINE c == Append(b, p[1])
             q == Tail(p)
  <2>1. 1 \in 1 .. Len(p) /\ Len(p) \in Nat /\ Len(b) \in Nat
    BY <1>3
  <2>2. \A i \in 1 .. Len(c) : (i \in 1 .. Len(b) /\ c[i] = b[i]) \/ c[i] = p[1]
    BY <1>3
  <2>3. \A i \in 1 .. Len(q) : i + 1 \in 1 .. Len(p) /\ q[i] = p[i + 1]
    BY <1>3
  <2> HIDE DEF c, q
  <2>4. Early(c, n) /\ Early(q, n)
    BY <2>1, <2>2, <2>3 DEF Ahead, Early
  <2> QED BY <2>4 DEF c, q
<1> QED BY <1>1, <1>2, <1>3 DEF Ahead

\* A frame that has samples has a first one.
LEMMA StartType ==
  ASSUME NEW f \in Frames, f.samples # << >>
  PROVE  f.samples[1] \in Nat
<1>1. f.samples \in Seq(Nat)
  BY DEF Frames
<1> QED BY <1>1

\* The audio goes on.
LEMMA AheadLater ==
  ASSUME NEW d \in Seq(Frames), NEW b \in Seq(Frames), NEW p \in Seq(Frames),
         NEW m \in Nat, NEW n \in Nat, m <= n, Ahead(d, b, p, m)
  PROVE  Ahead(d, b, p, n)
<1>1. ASSUME NEW s \in Seq(Frames), Early(s, m) PROVE Early(s, n)
  <2> SUFFICES ASSUME NEW i \in 1 .. Len(s) PROVE s[i].samples # << >> /\ s[i].samples[1] <= n
    BY DEF Early
  <2>1. s[i] \in Frames
    OBVIOUS
  <2>2. s[i].samples # << >> /\ s[i].samples[1] <= m
    BY <1>1 DEF Early
  <2>3. s[i].samples[1] \in Nat
    BY <2>1, <2>2, StartType
  <2> QED BY <2>2, <2>3
<1> QED BY <1>1 DEF Ahead

\* A frame of the next window joins them.
LEMMA AheadJoined ==
  ASSUME NEW d \in Seq(Frames), NEW b \in Seq(Frames), NEW p \in Seq(Frames),
         NEW m \in Nat, NEW n \in Nat, m <= n, Ahead(d, b, p, m),
         NEW f \in Frames, f.samples # << >>, f.samples[1] <= n
  PROVE  Ahead(d, b, Append(p, f), n)
<1>1. Ahead(d, b, p, n)
  BY AheadLater
<1>2. Early(Append(p, f), n)
  <2> DEFINE q == Append(p, f)
  <2>1. \A i \in 1 .. Len(q) : (i \in 1 .. Len(p) /\ q[i] = p[i]) \/ q[i] = f
    OBVIOUS
  <2> HIDE DEF q
  <2>2. Early(q, n)
    BY <1>1, <2>1 DEF Ahead, Early
  <2> QED BY <2>2 DEF q
<1> QED BY <1>1, <1>2 DEF Ahead

\* The centres of timesteps.
CentreOf(s) == [i \in 1 .. Len(s) |-> s[i][n_context + 1]]

\* The frames of mfcc_buffer that will be the centre of a timestep: those
\* after the context, without the z zero frames that finalizeStream pushed.
Pending(m, z) == SubSeq(m, n_context + 1, Len(m) - z)

\* The centres of a longer batch,
LEMMA CentreAppend ==
  ASSUME NEW S, NEW s \in Seq(S), NEW x \in S,
         CentreOf(s) \in Seq(Frames), x[n_context + 1] \in Frames
  PROVE  CentreOf(Append(s, x)) = Append(CentreOf(s), x[n_context + 1])
<1> DEFINE n == Len(s)
           y == x[n_context + 1]
           u == CentreOf(s)
           v == CentreOf(Append(s, x))
<1>1. /\ n \in Nat /\ Len(Append(s, x)) = n + 1 /\ Append(s, x)[n + 1] = x
      /\ \A i \in 1 .. n : Append(s, x)[i] = s[i]
  OBVIOUS
<1>2. u = [i \in 1 .. n |-> s[i][n_context + 1]]
  BY DEF CentreOf
<1>3. v = [i \in 1 .. n + 1 |-> IF i = n + 1 THEN y ELSE s[i][n_context + 1]]
  BY <1>1 DEF CentreOf
<1> HIDE DEF n, y, u, v
<1>4. u \in Seq(Frames) /\ Len(u) = n /\ y \in Frames
  BY <1>1, <1>2 DEF u, y
<1>5. \A i \in 1 .. n : u[i] \in Frames /\ u[i] = s[i][n_context + 1]
  <2>1. \A i \in 1 .. n : u[i] = s[i][n_context + 1]
    BY <1>2
  <2>2. \A i \in 1 .. n : u[i] \in Frames
    BY <1>4, ElementOfSeq
  <2> QED BY <2>1, <2>2
<1>6. v \in [1 .. n + 1 -> Frames]
  BY <1>1, <1>3, <1>4, <1>5
<1>7. v \in Seq(Frames) /\ Len(v) = n + 1
  <2>1. n + 1 \in Nat
    BY <1>1
  <2>2. v \in Seq(Frames)
    BY <1>6, <2>1, SeqDef
  <2> QED BY <1>6, <2>1, <2>2
<1>8. /\ Append(u, y) \in Seq(Frames) /\ Len(Append(u, y)) = n + 1
      /\ \A i \in 1 .. n + 1 : Append(u, y)[i] = IF i = n + 1 THEN y ELSE u[i]
  BY <1>1, <1>4
<1>9. \A i \in 1 .. n + 1 : v[i] = Append(u, y)[i]
  BY <1>1, <1>3, <1>5, <1>8
<1>10. v = Append(u, y)
  BY <1>7, <1>8, <1>9, SeqEqual
<1> QED BY <1>10 DEF u, v, y

\* and of what the decoder has seen when it gets a batch.
LEMMA CentreConcat ==
  ASSUME NEW S, NEW s \in Seq(S), NEW t \in Seq(S),
         CentreOf(s) \in Seq(Frames), CentreOf(t) \in Seq(Frames)
  PROVE  CentreOf(s \o t) = CentreOf(s) \o CentreOf(t)
<1> DEFINE n == Len(s)
           k == Len(t)
           u == CentreOf(s)
           w == CentreOf(t)
           v == CentreOf(s \o t)
<1>1. /\ n \in Nat /\ k \in Nat /\ Len(s \o t) = n + k
      /\ \A i \in 1 .. n + k : (s \o t)[i] = IF i <= n THEN s[i] ELSE t[i - n]
  BY ConcatProperties
<1>2. /\ u = [i \in 1 .. n |-> s[i][n_context + 1]]
      /\ w = [i \in 1 .. k |-> t[i][n_context + 1]]
      /\ v = [i \in 1 .. n + k |-> (s \o t)[i][n_context + 1]]
  BY <1>1 DEF CentreOf
<1>3. u \in Seq(Frames) /\ w \in Seq(Frames)
  OBVIOUS
<1> HIDE DEF n, k, u, w, v
<1>4. Len(u) = n /\ Len(w) = k
  BY <1>1, <1>2, <1>3
<1>5. /\ u \o w \in Seq(Frames) /\ Len(u \o w) = n + k
      /\ \A i \in 1 .. n + k : (u \o w)[i] = IF i <= n THEN u[i] ELSE w[i - n]
  BY <1>3, <1>4, ConcatProperties
<1>6. \A i \in 1 .. n + k : v[i] = (u \o w)[i]
  <2> SUFFICES ASSUME NEW i \in 1 .. n + k PROVE v[i] = (u \o w)[i]
    OBVIOUS
  <2>1. CASE i <= n
    <3>1. i \in 1 .. n
      BY <1>1, <2>1
    <3> QED BY <1>1, <1>2, <1>5, <2>1, <3>1
  <2>2. CASE ~(i <= n)
    <3>1. i - n \in 1 .. k
      BY <1>1, <2>2
    <3> QED BY <1>1, <1>2, <1>5, <2>2, <3>1
  <2> QED BY <2>1, <2>2
<1>7. v \in Seq(Frames) /\ Len(v) = n + k
  <2>1. n + k \in Nat
    BY <1>1
  <2>2. v = [i \in 1 .. n + k |-> (u \o w)[i]]
    BY <1>2, <1>6
  <2>3. v \in [1 .. n + k -> Frames]
    BY <1>5, <2>2
  <2>4. v \in Seq(Frames)
    BY <2>1, <2>3, SeqDef
  <2> QED BY <2>1, <2>3, <2>4
<1>8. v = u \o w
  BY <1>5, <1>6, <1>7, SeqEqual
<1> QED BY <1>8 DEF u, v, w

\* A window joins the pending frames, a zero frame does not.
LEMMA PendingPush ==
  ASSUME NEW m \in Seq(Frames), NEW f \in Frames, NEW z \in Nat, n_context + z <= Len(m)
  PROVE  /\ Pending(m, z) \in Seq(Frames)
         /\ Pending(Append(m, f), z + 1) = Pending(m, z)
         /\ z = 0 => Pending(Append(m, f), 0) = Append(Pending(m, 0), f)
<1> USE ModelAssumption
<1> DEFINE n == Len(m)
           g == Append(m, f)
           c == n_context + 1
<1>1. /\ n \in Nat /\ c \in Nat \ {0} /\ c + z <= n + 1
      /\ g \in Seq(Frames) /\ Len(g) = n + 1 /\ g[n + 1] = f /\ \A i \in 1 .. n : g[i] = m[i]
      /\ \A i \in 1 .. n : m[i] \in Frames
  OBVIOUS
<1> HIDE DEF n, g, c
<1>2. ASSUME NEW k \in Nat, c <= k + 1, k <= n
      PROVE  /\ SubSeq(m, c, k) \in Seq(Frames) /\ Len(SubSeq(m, c, k)) = k - c + 1
             /\ \A i \in 1 .. k - c + 1 : SubSeq(m, c, k)[i] = m[c + i - 1]
  <2>1. c \in Int /\ k \in Int /\ \A i \in c .. k : m[i] \in Frames
    BY <1>1, <1>2
  <2>2. k - c + 1 = IF c <= k THEN k - c + 1 ELSE 0
    BY <1>1, <1>2
  <2> QED BY <2>1, <2>2, SubSeqProperties
<1>3. ASSUME NEW k \in Nat, c <= k + 1, k <= n + 1
      PROVE  /\ SubSeq(g, c, k) \in Seq(Frames) /\ Len(SubSeq(g, c, k)) = k - c + 1
             /\ \A i \in 1 .. k - c + 1 : SubSeq(g, c, k)[i] = g[c + i - 1]
  <2>1. c \in Int /\ k \in Int /\ \A i \in c .. k : g[i] \in Frames
    BY <1>1, <1>3
  <2>2. k - c + 1 = IF c <= k THEN k - c + 1 ELSE 0
    BY <1>1, <1>3
  <2> QED BY <2>1, <2>2, SubSeqProperties
<1>4. PICK k \in Nat : k = n - z /\ c <= k + 1 /\ k <= n /\ k = n + 1 - (z + 1)
  BY <1>1
<1>5. Pending(m, z) = SubSeq(m, c, k) /\ Pending(g, z + 1) = SubSeq(g, c, k)
  BY <1>1, <1>4 DEF Pending, n, c
<1>6. SubSeq(g, c, k) = SubSeq(m, c, k)
  <2>1. k <= n + 1 /\ \A i \in 1 .. k - c + 1 : c + i - 1 \in 1 .. n
    BY <1>1, <1>4
  <2>2. \A i \in 1 .. k - c + 1 : SubSeq(g, c, k)[i] = SubSeq(m, c, k)[i]
    BY <1>1, <1>2, <1>3, <1>4, <2>1
  <2>3. SubSeq(g, c, k) \in Seq(Frames) /\ Len(SubSeq(g, c, k)) = k - c + 1
    BY <1>3, <1>4, <2>1
  <2>4. SubSeq(m, c, k) \in Seq(Frames) /\ Len(SubSeq(m, c, k)) = k - c + 1
    BY <1>2, <1>4
  <2> QED BY <2>2, <2>3, <2>4, SeqEqual
<1>7. ASSUME z = 0 PROVE Pending(g, 0) = Append(Pending(m, 0), f)
  <2> DEFINE u == SubSeq(m, c, n)
             v == SubSeq(g, c, n + 1)
             l == n - c + 1
  <2>1. Pending(m, 0) = u /\ Pending(g, 0) = v /\ l \in Nat /\ c <= n + 1 /\ n + 1 \in Nat /\ n <= n
    BY <1>1, <1>7 DEF Pending, n, c
  <2>2. u \in Seq(Frames) /\ Len(u) = l /\ \A i \in 1 .. l : u[i] = m[c + i - 1]
    BY <1>1, <1>2, <2>1
  <2>3. v \in Seq(Frames) /\ Len(v) = l + 1 /\ \A i \in 1 .. l + 1 : v[i] = g[c + i - 1]
    <3>1. n + 1 - c + 1 = l + 1 /\ c <= n + 1 + 1 /\ n + 1 <= n + 1
      BY <1>1, <2>1
    <3>2. PICK k1 \in Nat : k1 = n + 1
      BY <1>1
    <3>3. /\ SubSeq(g, c, k1) \in Seq(Frames) /\ Len(SubSeq(g, c, k1)) = k1 - c + 1
          /\ \A i \in 1 .. k1 - c + 1 : SubSeq(g, c, k1)[i] = g[c + i - 1]
      BY <1>3, <3>1, <3>2
    <3>4. k1 - c + 1 = l + 1
      BY <1>1, <3>1, <3>2
    <3>5. v = SubSeq(g, c, k1)
      BY <3>2, Zenon
    <3> HIDE DEF l, v
    <3> QED BY <3>3, <3>4, <3>5
  <2> HIDE DEF u, v
  <2>4. /\ Append(u, f) \in Seq(Frames) /\ Len(Append(u, f)) = l + 1
        /\ \A i \in 1 .. l + 1 : Append(u, f)[i] = IF i = l + 1 THEN f ELSE u[i]
    <3> HIDE DEF l
    <3> QED BY <2>1, <2>2
  <2>5. \A i \in 1 .. l + 1 : Append(u, f)[i] = v[i]
    <3> SUFFICES ASSUME NEW i \in 1 .. l + 1 PROVE Append(u, f)[i] = v[i]
      OBVIOUS
    <3>1. CASE i = l + 1
      <4>1. c + i - 1 = n + 1
        BY <1>1, <3>1
      <4> QED BY <1>1, <2>3, <2>4, <3>1, <4>1
    <3>2. CASE i # l + 1
      <4>1. i \in 1 .. l /\ c + i - 1 \in 1 .. n
        BY <1>1, <2>1, <3>2
      <4> QED BY <1>1, <2>2, <2>3, <2>4, <3>2, <4>1
    <3> QED BY <3>1, <3>2
  <2>6. Append(u, f) = v
    BY <2>3, <2>4, <2>5, SeqEqual
  <2> QED BY <2>1, <2>6
<1> QED BY <1>2, <1>4, <1>5, <1>6, <1>7 DEF g

\* A full context window: its centre is the first of the pending frames, and
\* the shift leaves the others.
LEMMA PendingShift ==
  ASSUME NEW buf \in Seq(Frames), NEW z \in 0 .. n_context,
         Len(buf) = mfcc_frames_per_timestep
  PROVE  LET p == Pending(buf, z)
             m == shift_buffer_left(buf, 1)
         IN  /\ p \in Seq(Frames) /\ p # << >> /\ p[1] = buf[n_context + 1]
             /\ m \in Seq(Frames) /\ Len(m) = 2 * n_context
             /\ Pending(m, z) = Tail(p)
<1> USE ModelAssumption
<1> DEFINE c == n_context + 1
           l == n_context + 1 - z
           m == shift_buffer_left(buf, 1)
           p == Pending(buf, z)
           q == Pending(m, z)
<1>1. /\ Len(buf) = 2 * n_context + 1 /\ 1 <= Len(buf) /\ c \in Nat /\ l \in Nat /\ l >= 1
      /\ z \in Nat
  BY DEF mfcc_frames_per_timestep
<1>2. /\ m \in Seq(Frames) /\ Len(m) = 2 * n_context
      /\ \A i \in 1 .. 2 * n_context : m[i] = buf[i + 1]
  <2>1. /\ m \in Seq(Frames) /\ Len(m) = Len(buf) - 1
        /\ \A i \in 1 .. Len(buf) - 1 : m[i] = buf[1 + i]
    <3>1. 1 \in Nat
      OBVIOUS
    <3> QED BY <1>1, <3>1, ShiftProperties, Zenon
  <2> HIDE DEF m
  <2> QED BY <1>1, <2>1
<1> HIDE DEF m
<1>3. p \in Seq(Frames) /\ Len(p) = l /\ \A i \in 1 .. l : p[i] = buf[c + i - 1]
  <2> DEFINE k == 2 * n_context + 1 - z
  <2>1. p = SubSeq(buf, c, k)
    BY <1>1 DEF Pending
  <2>2. c \in Int /\ k \in Int /\ c <= k /\ k - c + 1 = l /\ \A i \in c .. k : i \in 1 .. Len(buf)
    BY <1>1
  <2>3. \A i \in c .. k : buf[i] \in Frames
    BY <2>2
  <2> HIDE DEF k, c, l
  <2>4. /\ SubSeq(buf, c, k) \in Seq(Frames)
        /\ Len(SubSeq(buf, c, k)) = IF c <= k THEN k - c + 1 ELSE 0
        /\ \A i \in 1 .. k - c + 1 : SubSeq(buf, c, k)[i] = buf[c + i - 1]
    BY <2>2, <2>3, SubSeqProperties
  <2> QED BY <2>1, <2>2, <2>4
<1>4. q \in Seq(Frames) /\ Len(q) = l - 1 /\ \A i \in 1 .. l - 1 : q[i] = m[c + i - 1]
  <2> DEFINE k == 2 * n_context - z
  <2>1. q = SubSeq(m, c, k)
    BY <1>2 DEF Pending
  <2>2. /\ c \in Int /\ k \in Int /\ k - c + 1 = l - 1 /\ (IF c <= k THEN k - c + 1 ELSE 0) = l - 1
        /\ \A i \in c .. k : i \in 1 .. Len(m)
    BY <1>1, <1>2
  <2>3. \A i \in c .. k : m[i] \in Frames
    BY <1>2, <2>2, ElementOfSeq
  <2> HIDE DEF k, c, l
  <2>4. /\ SubSeq(m, c, k) \in Seq(Frames)
        /\ Len(SubSeq(m, c, k)) = IF c <= k THEN k - c + 1 ELSE 0
        /\ \A i \in 1 .. k - c + 1 : SubSeq(m, c, k)[i] = m[c + i - 1]
    BY <2>2, <2>3, SubSeqProperties
  <2> QED BY <2>1, <2>2, <2>4
<1> HIDE DEF p, q
<1>5. 1 \in 1 .. l /\ c + 1 - 1 = c
  BY <1>1
<1>6. p # << >> /\ p[1] = buf[c]
  <2>1. p[1] = buf[c]
    BY <1>3, <1>5
  <2>2. Len(p) # 0
    BY <1>1, <1>3
  <2> QED BY <2>1, <2>2
<1>7. Tail(p) \in Seq(Frames) /\ Len(Tail(p)) = l - 1 /\ \A i \in 1 .. l - 1 : Tail(p)[i] = p[i + 1]
  BY <1>1, <1>3, <1>6
<1>8. \A i \in 1 .. l - 1 : q[i] = Tail(p)[i]
  <2> SUFFICES ASSUME NEW i \in 1 .. l - 1 PROVE q[i] = Tail(p)[i]
    OBVIOUS
  <2>1. /\ i + 1 \in 1 .. l /\ c + (i + 1) - 1 = c + i - 1 + 1
        /\ c + i - 1 \in 1 .. 2 * n_context
    BY <1>1
  <2> QED BY <1>2, <1>3, <1>4, <1>7, <2>1
<1>9. q = Tail(p)
  BY <1>4, <1>7, <1>8, SeqEqual
<1> QED BY <1>2, <1>3, <1>6, <1>9 DEF p, q, m, c

\* pushMfccBuffer: whatever it completes and whatever fails, the centres stay
\* in line.
LEMMA PushOrder ==
  ASSUME PipeType, NEW frame \in Frames, pushMfccBuffer(frame), NEW z \in 0 .. n_context,
         n_context + z <= Len(mfcc_buffer) + 1, Len(mfcc_buffer) < mfcc_frames_per_timestep,
         Line(CentreOf(decoder_state), CentreOf(batch_buffer), Pending(Append(mfcc_buffer, frame), z))
  PROVE  /\ n_context + z <= Len(mfcc_buffer')
         /\ Line(CentreOf(decoder_state'), CentreOf(batch_buffer'), Pending(mfcc_buffer', z))
         /\ \A n : Ahead(CentreOf(decoder_state), CentreOf(batch_buffer),
                         Pending(Append(mfcc_buffer, frame), z), n)
                   => Ahead(CentreOf(decoder_state'), CentreOf(batch_buffer'),
                            Pending(mfcc_buffer', z), n)
<1> USE ModelAssumption
<1> DEFINE buf == Append(mfcc_buffer, frame)
           batch == Append(batch_buffer, buf)
           d == CentreOf(decoder_state)
           b == CentreOf(batch_buffer)
           p == Pending(buf, z)
<1>1. /\ buf \in Seq(Frames) /\ Len(buf) = Len(mfcc_buffer) + 1 /\ Len(mfcc_buffer) \in Nat
      /\ batch_buffer \in Seq(Timesteps) /\ decoder_state \in Seq(Timesteps)
  BY DEF PipeType
<1>2. Line(d, b, p)
  OBVIOUS
<1>3. d \in Seq(Frames) /\ b \in Seq(Frames) /\ p \in Seq(Frames)
  BY <1>2 DEF Line
<1> HIDE DEF buf, d, b, p
<1>4. CASE Len(buf) # mfcc_frames_per_timestep
  <2>1. mfcc_buffer' = buf /\ UNCHANGED <<batch_buffer, decoder_state>>
    BY <1>4 DEF pushMfccBuffer, buf
  <2>2. CentreOf(decoder_state') = d /\ CentreOf(batch_buffer') = b /\ Pending(mfcc_buffer', z) = p
    BY <2>1 DEF d, b, p
  <2>3. n_context + z <= Len(mfcc_buffer')
    BY <1>1, <2>1
  <2> QED BY <1>2, <2>2, <2>3 DEF d, b, p, buf
<1>5. CASE Len(buf) = mfcc_frames_per_timestep
  <2> DEFINE m == shift_buffer_left(buf, 1)
             e == Append(b, p[1])
             q == Tail(p)
  <2>1. processMfccWindow(buf) /\ mfcc_buffer' = m
    BY <1>5 DEF pushMfccBuffer, buf
  <2>2. /\ p # << >> /\ p[1] = buf[n_context + 1] /\ Len(m) = 2 * n_context
        /\ Pending(m, z) = q
    BY <1>1, <1>5, PendingShift DEF p
  <2> HIDE DEF m
  <2>3. n_context + z <= Len(mfcc_buffer')
    BY <2>1, <2>2
  <2>4. batch \in Seq(Timesteps) /\ CentreOf(batch) = e
    <3>1. buf \in Timesteps /\ buf[n_context + 1] \in Frames
      <4>1. n_context + 1 \in 1 .. Len(buf)
        BY <1>5 DEF mfcc_frames_per_timestep
      <4> QED BY <1>1, <4>1, ElementOfSeq DEF Timesteps
    <3>2. CentreOf(batch) = Append(b, buf[n_context + 1])
      BY <1>1, <1>3, <3>1, CentreAppend DEF b
    <3>3. batch \in Seq(Timesteps)
      BY <1>1, <3>1
    <3> QED BY <2>2, <3>2, <3>3
  <2>5. Line(d, e, q)
    BY <1>2, <2>2, LineMoved
  <2>6. ASSUME NEW n, Ahead(d, b, p, n) PROVE Ahead(d, e, q, n)
    BY <1>3, <2>2, <2>6, AheadMoves
  <2> HIDE DEF e, q, batch
  <2>7. e \in Seq(Frames) /\ q \in Seq(Frames)
    BY <2>5 DEF Line
  <2>8. Pending(mfcc_buffer', z) = q
    BY <2>1, <2>2
  <2>9. ASSUME \/ CentreOf(decoder_state') = d /\ CentreOf(batch_buffer') = e
               \/ CentreOf(decoder_state') = d \o e /\ CentreOf(batch_buffer') = << >>
               \/ CentreOf(decoder_state') = d /\ CentreOf(batch_buffer') = << >>
        PROVE  /\ Line(CentreOf(decoder_state'), CentreOf(batch_buffer'), q)
               /\ \A n : Ahead(d, b, p, n) => Ahead(CentreOf(decoder_state'), CentreOf(batch_buffer'), q, n)
    <3>1. Line(d \o e, << >>, q) /\ Line(d, << >>, q)
      BY <2>5, LineDecoded, LineLost
    <3>2. ASSUME NEW n, Ahead(d, b, p, n) PROVE Ahead(d \o e, << >>, q, n) /\ Ahead(d, << >>, q, n)
      BY <1>3, <2>6, <2>7, <3>2, AheadMoves
    <3> QED BY <2>5, <2>6, <2>9, <3>1, <3>2
  <2>10. CentreOf(<< >>) = << >>
    BY DEF CentreOf
  <2>11. CASE Len(batch) # n_steps
    <3>1. batch_buffer' = batch /\ decoder_state' = decoder_state
      BY <2>1, <2>11 DEF processMfccWindow, batch
    <3>2. CentreOf(decoder_state') = d /\ CentreOf(batch_buffer') = e
      BY <2>4, <3>1 DEF d
    <3>3. /\ Line(CentreOf(decoder_state'), CentreOf(batch_buffer'), q)
          /\ \A n : Ahead(d, b, p, n) => Ahead(CentreOf(decoder_state'), CentreOf(batch_buffer'), q, n)
      BY <2>9, <3>2
    <3> QED BY <2>3, <2>8, <3>3 DEF d, b, p, buf
  <2>12. CASE Len(batch) = n_steps
    <3>1. processBatch(batch) /\ batch_buffer' = << >>
      BY <2>1, <2>12 DEF processMfccWindow, batch
    <3>2. decoder_state' = decoder_state \o batch \/ decoder_state' = decoder_state
      BY <3>1 DEF processBatch
    <3>3. CentreOf(decoder_state \o batch) = d \o e
      BY <1>1, <1>3, <2>4, <2>7, CentreConcat DEF d
    <3> QED BY <2>3, <2>8, <2>9, <2>10, <3>1, <3>2, <3>3 DEF d, b, p, buf
  <2> QED BY <2>11, <2>12
<1> QED BY <1>4, <1>5

\* Between DS_CreateStream and the flush.
Open == {"idle", "feed", "flush"}

\* The decoder has seen the centres in the order of the audio, and the frames
\* still in the buffers are later ones; until the flush, all of them are of
\* windows that have been processed.
OrderInv ==
  LET d == CentreOf(decoder_state)
      b == CentreOf(batch_buffer)
      p == Pending(mfcc_buffer, zeros)
  IN  /\ d \in Seq(Frames) /\ Audio(d) /\ Rising(d)
      /\ pc \in Live => n_context + zeros <= Len(mfcc_buffer) /\ Line(d, b, p)
      /\ pc \in Open => Ahead(d, b, p, WindowStart(windows + 1))

\* A step that leaves the buffers alone.
LEMMA OrderQuiet ==
  ASSUME OrderInv,
         UNCHANGED <<decoder_state, batch_buffer, mfcc_buffer, zeros, windows>>,
         pc' \in Live => pc \in Live, pc' \in Open => pc \in Open
  PROVE  OrderInv'
<1>1. /\ CentreOf(decoder_state') = CentreOf(decoder_state)
      /\ CentreOf(batch_buffer') = CentreOf(batch_buffer)
      /\ Pending(mfcc_buffer', zeros') = Pending(mfcc_buffer, zeros)
      /\ WindowStart(windows' + 1) = WindowStart(windows + 1)
  OBVIOUS
<1>2. Len(mfcc_buffer') = Len(mfcc_buffer) /\ zeros' = zeros
  OBVIOUS
<1> HIDE DEF CentreOf, Pending, WindowStart
<1> QED BY <1>1, <1>2 DEF OrderInv

\* A new stream has nothing but the zero frames of its past context.
LEMMA OrderNew ==
  ASSUME NewStream, pc' \in {"idle", "feed"}
  PROVE  OrderInv'
<1> USE ModelAssumption
<1>1. /\ decoder_state' = << >> /\ batch_buffer' = << >> /\ zeros' = 0
      /\ mfcc_buffer' \in Seq(Frames) /\ Len(mfcc_buffer') = n_context
  <2>1. mfcc_buffer' = [i \in 1 .. n_context |-> zero_buffer]
    BY DEF NewStream
  <2>2. mfcc_buffer' \in [1 .. n_context -> Frames]
    BY <2>1, FrameType
  <2>3. mfcc_buffer' \in Seq(Frames)
    BY <2>2, SeqDef
  <2>4. Len(mfcc_buffer') = n_context
    BY <2>2, <2>3
  <2> QED BY <2>3, <2>4 DEF NewStream
<1>2. CentreOf(<< >>) = << >>
  BY DEF CentreOf
<1>3. Pending(mfcc_buffer', 0) = << >>
  <2>1. Len(mfcc_buffer') - 0 = n_context /\ n_context \in Int /\ n_context + 1 \in Int
        /\ ~(n_context + 1 <= n_context) /\ n_context + 1 .. n_context = {}
    BY <1>1
  <2>2. Pending(mfcc_buffer', 0) = SubSeq(mfcc_buffer', n_context + 1, n_context)
    BY <2>1 DEF Pending
  <2>3. SubSeq(mfcc_buffer', n_context + 1, n_context) \in Seq(Frames)
        /\ Len(SubSeq(mfcc_buffer', n_context + 1, n_context)) = 0
    <3>1. \A i \in n_context + 1 .. n_context : mfcc_buffer'[i] \in Frames
      BY <2>1
    <3> QED BY <2>1, <3>1, SubSeqProperties
  <2> QED BY <2>2, <2>3
<1>4. << >> \in Seq(Frames) /\ Len(<< >>) = 0 /\ 1 .. 0 = {}
  OBVIOUS
<1>5. Line(<< >>, << >>, << >>) /\ \A n : Ahead(<< >>, << >>, << >>, n)
  BY <1>4 DEF Line, Audio, Rising, Precede, Ahead, Early
<1>6. n_context + 0 <= n_context
  OBVIOUS
<1>7. /\ CentreOf(decoder_state') = << >> /\ CentreOf(batch_buffer') = << >>
      /\ Pending(mfcc_buffer', zeros') = << >> /\ n_context + zeros' <= Len(mfcc_buffer')
  BY <1>1, <1>2, <1>3, <1>6
<1>8. << >> \in Seq(Frames) /\ Audio(<< >>) /\ Rising(<< >>)
  BY <1>5 DEF Line
<1> HIDE DEF CentreOf, Pending, WindowStart
<1> QED BY <1>5, <1>7, <1>8 DEF OrderInv

\* A window is processed, at the feed or at the flush.
LEMMA OrderWindow ==
  ASSUME TypeOK, AudioInv, PipeBounded, OrderInv, pc \in {"feed", "flush"},
         processAudioWindow(audio_buffer), zeros' = 0,
         \/ pc' = "zeros"
         \/ pc' = "feed" /\ Len(audio_buffer) = audio_win_len
  PROVE  OrderInv'
<1> USE ModelAssumption
<1> DEFINE d == CentreOf(decoder_state)
           b == CentreOf(batch_buffer)
           p == Pending(mfcc_buffer, 0)
           n == WindowStart(windows + 1)
           f == compute_mfcc(audio_buffer)
<1>1. /\ windows \in Nat /\ windows' = windows + 1 /\ zeros = 0 /\ audio_buffer \in Seq(Nat)
      /\ mfcc_buffer \in Seq(Frames) /\ PipeType
      /\ Len(mfcc_buffer) \in Nat /\ Len(mfcc_buffer) < mfcc_frames_per_timestep
  BY DEF TypeOK, PipeType, processAudioWindow, AudioInv, WindowsFull, PipeBounded
<1>2. n \in Nat /\ WindowStart(windows' + 1) = n + audio_win_step
  <2>1. windows + 1 \in Nat \ {0}
    BY <1>1
  <2> QED BY <1>1, <2>1, WindowStartType, WindowStartStep
<1>3. /\ Line(d, b, p) /\ Ahead(d, b, p, n) /\ n_context <= Len(mfcc_buffer)
      /\ d \in Seq(Frames) /\ Audio(d) /\ Rising(d)
  <2>1. pc \in Live /\ pc \in Open
    BY DEF Live, Open
  <2>2. n_context + 0 = n_context
    OBVIOUS
  <2> QED BY <1>1, <2>1, <2>2 DEF OrderInv
<1>4. b \in Seq(Frames) /\ p \in Seq(Frames)
  BY <1>3 DEF Line
<1>5. f \in Frames /\ ~f.zero /\ f.samples = audio_buffer
  BY <1>1, FrameType DEF compute_mfcc
<1>6. audio_buffer # << >> => audio_buffer[1] = n + 1
  <2>1. pc \in {"idle", "feed", "flush"}
    OBVIOUS
  <2>2. \A i \in 1 .. Len(audio_buffer) : audio_buffer[i] = n + i
    BY <2>1 DEF AudioInv, AudioContiguous
  <2>3. audio_buffer # << >> => 1 \in 1 .. Len(audio_buffer)
    BY <1>1
  <2> QED BY <2>2, <2>3
<1>7. pc' \in Open => audio_buffer # << >>
  <2>1. pc' \in Open => pc' = "feed"
    BY DEF Open
  <2>2. Len(audio_buffer) = audio_win_len => audio_buffer # << >>
    BY <1>1
  <2> QED BY <2>1, <2>2
<1> HIDE DEF n, f, d, b, p
<1>8. CASE UNCHANGED <<mfcc_buffer, batch_buffer, decoder_state>>
  <2>1. /\ CentreOf(decoder_state') = d /\ CentreOf(batch_buffer') = b
        /\ Pending(mfcc_buffer', zeros') = p /\ n_context + zeros' <= Len(mfcc_buffer')
    BY <1>3, <1>8 DEF d, b, p
  <2>2. n + audio_win_step \in Nat /\ n <= n + audio_win_step
    BY <1>2
  <2>3. Ahead(d, b, p, n + audio_win_step)
    BY <1>2, <1>3, <1>4, <2>2, AheadLater
  <2> QED BY <1>2, <1>3, <2>1, <2>3 DEF OrderInv
<1>9. CASE pushMfccBuffer(f)
  <2> DEFINE x == Append(p, f)
             k == n + audio_win_step
  <2>1. Pending(Append(mfcc_buffer, f), 0) = x
    <3>1. n_context + 0 <= Len(mfcc_buffer) /\ 0 \in Nat
      BY <1>3
    <3> QED BY <1>1, <1>5, <3>1, PendingPush DEF p
  <2>2. f.samples # << >> => f.samples[1] > n
    BY <1>2, <1>5, <1>6
  <2>3. Line(d, b, x)
    BY <1>2, <1>3, <1>5, <2>2, LineJoined DEF Ahead
  <2>4. pc' \in Open => Ahead(d, b, x, k)
    <3>1. k \in Nat /\ n <= k /\ n + 1 <= k
      BY <1>2
    <3>2. audio_buffer # << >> => Ahead(d, b, x, k)
      BY <1>2, <1>3, <1>4, <1>5, <1>6, <3>1, AheadJoined
    <3> QED BY <1>7, <3>2
  <2> HIDE DEF x, k
  <2>5. /\ n_context + 0 <= Len(mfcc_buffer')
        /\ Line(CentreOf(decoder_state'), CentreOf(batch_buffer'), Pending(mfcc_buffer', 0))
        /\ Ahead(d, b, x, k) =>
             Ahead(CentreOf(decoder_state'), CentreOf(batch_buffer'), Pending(mfcc_buffer', 0), k)
    <3>1. 0 \in 0 .. n_context /\ n_context + 0 <= Len(mfcc_buffer) + 1
      BY <1>1, <1>3
    <3> QED BY <1>1, <1>5, <1>9, <2>1, <2>3, <3>1, PushOrder DEF d, b
  <2>6. /\ CentreOf(decoder_state') \in Seq(Frames) /\ Audio(CentreOf(decoder_state'))
        /\ Rising(CentreOf(decoder_state'))
    BY <2>5 DEF Line
  <2> QED BY <1>2, <2>4, <2>5, <2>6 DEF OrderInv, k
<1> QED BY <1>8, <1>9 DEF processAudioWindow, f

\* A zero frame gives the next pending frame its context, and never becomes a
\* centre itself.
LEMMA OrderZero ==
  ASSUME TypeOK, AudioInv, PipeBounded, OrderInv, addZeroMfccWindow
  PROVE  OrderInv'
<1> USE ModelAssumption
<1> DEFINE d == CentreOf(decoder_state)
           b == CentreOf(batch_buffer)
           p == Pending(mfcc_buffer, zeros)
           f == zero_buffer
<1>1. /\ pc = "zeros" /\ pc' = "zeros" /\ zeros \in Nat /\ zeros < n_context /\ zeros' = zeros + 1
      /\ PipeType /\ mfcc_buffer \in Seq(Frames) /\ Len(mfcc_buffer) \in Nat
      /\ Len(mfcc_buffer) < mfcc_frames_per_timestep /\ pushMfccBuffer(f) /\ f \in Frames
  BY FrameType DEF TypeOK, PipeType, PipeBounded, addZeroMfccWindow
<1>2. Line(d, b, p) /\ n_context + zeros <= Len(mfcc_buffer)
  BY <1>1 DEF OrderInv, Live
<1>3. Pending(Append(mfcc_buffer, f), zeros + 1) = p
  BY <1>1, <1>2, PendingPush
<1>4. zeros + 1 \in 0 .. n_context /\ n_context + (zeros + 1) <= Len(mfcc_buffer) + 1
  BY <1>1, <1>2
<1> HIDE DEF f, p
<1>5. /\ n_context + (zeros + 1) <= Len(mfcc_buffer')
      /\ Line(CentreOf(decoder_state'), CentreOf(batch_buffer'), Pending(mfcc_buffer', zeros + 1))
  BY <1>1, <1>2, <1>3, <1>4, PushOrder
<1>6. /\ CentreOf(decoder_state') \in Seq(Frames) /\ Audio(CentreOf(decoder_state'))
      /\ Rising(CentreOf(decoder_state'))
  BY <1>5 DEF Line
<1>7. pc' \notin Open
  BY <1>1 DEF Open
<1> QED BY <1>1, <1>5, <1>6, <1>7 DEF OrderInv

\* The final batch follows what the decoder has seen.
LEMMA OrderFinal ==
  ASSUME TypeOK, OrderInv, ProcessFinalBatch
  PROVE  OrderInv'
<1> DEFINE d == CentreOf(decoder_state)
           b == CentreOf(batch_buffer)
           p == Pending(mfcc_buffer, zeros)
<1>1. /\ pc = "zeros" /\ pc' = "done"
      /\ decoder_state' = decoder_state \o batch_buffer \/ decoder_state' = decoder_state
  BY DEF ProcessFinalBatch, processBatch
<1>2. Line(d, b, p)
  BY <1>1 DEF OrderInv, Live
<1>3. d \in Seq(Frames) /\ b \in Seq(Frames) /\ Audio(d) /\ Rising(d)
  BY <1>2 DEF Line
<1>4. CentreOf(decoder_state \o batch_buffer) = d \o b
  BY <1>3, CentreConcat DEF TypeOK
<1>5. Line(d \o b, << >>, p)
  BY <1>2, LineDecoded
<1>6. d \o b \in Seq(Frames) /\ Audio(d \o b) /\ Rising(d \o b)
  BY <1>5 DEF Line
<1>7. pc' \notin Live /\ pc' \notin Open
  BY <1>1 DEF Live, Open
<1> QED BY <1>1, <1>3, <1>4, <1>6, <1>7 DEF OrderInv

\* Every step keeps the order.
LEMMA OrderStep ==
  ASSUME StreamInv, OrderInv, [Next]_vars
  PROVE  OrderInv'
<1>0. TypeOK /\ AudioInv /\ PipeBounded
  BY DEF StreamInv, BuffersBounded, AudioInv, PipeBounded
<1>1. CASE DS_CreateStream \/ \E n \in 0 .. MaxSamples : DS_SpeechToText(n)
  BY <1>1, OrderNew DEF DS_CreateStream, DS_SpeechToText
<1>2. ASSUME NEW n \in 0 .. MaxSamples, DS_FeedAudioContent(n) PROVE OrderInv'
  BY <1>2, OrderQuiet DEF DS_FeedAudioContent, Live, Open, pipe
<1>3. CASE DS_IntermediateDecode \/ DS_FinishStream \/ DS_FreeStream
  BY <1>3, OrderQuiet DEF DS_IntermediateDecode, DS_FinishStream, DS_FreeStream, Live, Open, pipe
<1>4. CASE PushSample \/ FeedReturn
  BY <1>4, OrderQuiet DEF PushSample, FeedReturn, Live, Open, pipe
<1>5. CASE ProcessFullWindow
  <2>1. /\ pc = "feed" /\ pc' = "feed" /\ zeros' = 0 /\ Len(audio_buffer) = audio_win_len
        /\ processAudioWindow(audio_buffer)
    BY <1>0, <1>5 DEF ProcessFullWindow, AudioInv, WindowsFull
  <2> QED BY <1>0, <2>1, OrderWindow
<1>6. CASE FlushAudio
  BY <1>0, <1>6, OrderWindow DEF FlushAudio
<1>7. CASE addZeroMfccWindow
  BY <1>0, <1>7, OrderZero
<1>8. CASE ProcessFinalBatch
  BY <1>0, <1>8, OrderFinal
<1>9. CASE UNCHANGED vars
  BY <1>9, OrderQuiet DEF vars
<1> QED
  BY <1>1, <1>2, <1>3, <1>4, <1>5, <1>6, <1>7, <1>8, <1>9 DEF Next, Call, Step

\* Even where runs of the interpreter fail, the decoder sees the windows in the
\* order of the audio, none of them twice and no padding among them.
THEOREM CentresInOrder == Spec => []CentresAdvance
<1>1. Init => OrderInv
  <2> SUFFICES ASSUME Init PROVE OrderInv
    OBVIOUS
  <2>1. decoder_state = << >> /\ pc = "none"
    BY DEF Init
  <2>2. CentreOf(<< >>) = << >>
    BY DEF CentreOf
  <2>3. << >> \in Seq(Frames) /\ Len(<< >>) = 0 /\ 1 .. 0 = {}
    OBVIOUS
  <2>4. Audio(<< >>) /\ Rising(<< >>)
    BY <2>3 DEF Audio, Rising
  <2> QED BY <2>1, <2>2, <2>3, <2>4 DEF OrderInv, Live, Open
<1>2. StreamInv /\ OrderInv /\ [Next]_vars => OrderInv'
  BY OrderStep
<1>3. StreamInv /\ OrderInv => CentresAdvance
  <2> SUFFICES ASSUME StreamInv, OrderInv PROVE CentresAdvance
    OBVIOUS
  <2> DEFINE d == CentreOf(decoder_state)
             n == Len(decoder_state)
  <2>1. d = [t \in 1 .. n |-> decoder_state[t][n_context + 1]] /\ n \in Nat
    BY DEF CentreOf, StreamInv, TypeOK
  <2>2. d \in Seq(Frames) /\ Audio(d) /\ Rising(d)
    BY DEF OrderInv
  <2> HIDE DEF d, n
  <2>3. Len(d) = n /\ \A t \in 1 .. n : d[t] = decoder_state[t][n_context + 1]
    BY <2>1, <2>2
  <2> SUFFICES ASSUME NEW t \in 1 .. n
               PROVE  /\ ~d[t].zero
                      /\ t > 1 => /\ d[t - 1].samples # << >>
                                  /\ d[t].samples # << >> => d[t - 1].samples[1] < d[t].samples[1]
    <3>1. \A t \in 1 .. n : t > 1 => t - 1 \in 1 .. n
      BY <2>1
    <3> QED BY <2>3, <3>1 DEF CentresAdvance, n
  <2>4. ~d[t].zero
    BY <2>2, <2>3 DEF Audio
  <2>5. ASSUME t > 1 PROVE Before(d[t - 1], d[t])
    <3>1. t - 1 \in 1 .. n /\ t - 1 < t
      BY <2>1, <2>5
    <3> QED BY <2>2, <2>3, <3>1 DEF Rising
  <2> QED BY <2>4, <2>5 DEF Before
<1> QED BY <1>1, <1>2, <1>3, StreamInvariant, PTL DEF Spec

-----------------------------------------------------------------------------
(* Intermediate decodes *)

\* One sequence is a beginning of another.
Extends(s, t) == Len(s) <= Len(t) /\ SubSeq(t, 1, Len(s)) = s

\* What was decoded last is a beginning of what the decoder has seen.
DecodedInv == pc \in Live => Extends(transcript, decoder_state)

\* A sequence extends itself, and a longer one extends what it extended.
LEMMA ExtendsConcat ==
  ASSUME NEW S, NEW s \in Seq(S), NEW t \in Seq(S), NEW u \in Seq(S), Extends(s, t)
  PROVE  Extends(t, t) /\ Extends(s, t \o u)
<1> DEFINE v == t \o u
           n == Len(s)
<1>1. n \in Nat /\ Len(t) \in Nat /\ n <= Len(t) /\ Len(u) \in Nat
  BY DEF Extends
<1>2. v \in Seq(S) /\ Len(v) = Len(t) + Len(u) /\ \A i \in 1 .. Len(t) : v[i] = t[i]
  <2>1. /\ v \in Seq(S) /\ Len(v) = Len(t) + Len(u)
        /\ \A i \in 1 .. Len(t) + Len(u) : v[i] = IF i <= Len(t) THEN t[i] ELSE u[i - Len(t)]
    BY ConcatProperties
  <2>2. \A i \in 1 .. Len(t) : i \in 1 .. Len(t) + Len(u) /\ i <= Len(t)
    BY <1>1
  <2> QED BY <2>1, <2>2
<1> HIDE DEF v, n
<1>3. ASSUME NEW w \in Seq(S), NEW k \in Nat, k <= Len(w)
      PROVE  /\ SubSeq(w, 1, k) \in Seq(S) /\ Len(SubSeq(w, 1, k)) = k
             /\ \A i \in 1 .. k : SubSeq(w, 1, k)[i] = w[i]
  <2>1. 1 \in Int /\ k \in Int /\ \A i \in 1 .. k : w[i] \in S
    BY <1>3
  <2>2. /\ SubSeq(w, 1, k) \in Seq(S)
        /\ Len(SubSeq(w, 1, k)) = IF 1 <= k THEN k - 1 + 1 ELSE 0
        /\ \A i \in 1 .. k - 1 + 1 : SubSeq(w, 1, k)[i] = w[1 + i - 1]
    BY <2>1, SubSeqProperties
  <2>3. k - 1 + 1 = k /\ (IF 1 <= k THEN k - 1 + 1 ELSE 0) = k /\ \A i \in 1 .. k : 1 + i - 1 = i
    BY <1>3
  <2> QED BY <2>2, <2>3
<1>4. Extends(t, t)
  <2>1. Len(t) <= Len(t)
    BY <1>1
  <2>2. SubSeq(t, 1, Len(t)) = t
    BY <1>1, <1>3, <2>1, SeqEqual
  <2> QED BY <2>1, <2>2 DEF Extends
<1>5. SubSeq(v, 1, n) = SubSeq(t, 1, n)
  <2>1. n <= Len(v) /\ \A i \in 1 .. n : i \in 1 .. Len(t)
    BY <1>1, <1>2
  <2>2. /\ SubSeq(v, 1, n) \in Seq(S) /\ Len(SubSeq(v, 1, n)) = n
        /\ \A i \in 1 .. n : SubSeq(v, 1, n)[i] = v[i]
    BY <1>1, <1>2, <1>3, <2>1
  <2>3. /\ SubSeq(t, 1, n) \in Seq(S) /\ Len(SubSeq(t, 1, n)) = n
        /\ \A i \in 1 .. n : SubSeq(t, 1, n)[i] = t[i]
    BY <1>1, <1>3
  <2>4. \A i \in 1 .. n : SubSeq(v, 1, n)[i] = SubSeq(t, 1, n)[i]
    BY <1>2, <2>1, <2>2, <2>3
  <2> QED BY <2>2, <2>3, <2>4, SeqEqual
<1>6. SubSeq(t, 1, n) = s /\ n <= Len(v)
  BY <1>1, <1>2 DEF Extends, n
<1> QED BY <1>4, <1>5, <1>6 DEF Extends, v, n

\* While a stream lives, its decoder only ever sees more.
LEMMA DecoderGrows ==
  ASSUME TypeOK, pc \in Live, [Next]_vars
  PROVE  \E u \in Seq(Timesteps) : decoder_state' = decoder_state \o u
<1>1. << >> \in Seq(Timesteps) /\ decoder_state \o << >> = decoder_state
  BY EmptySeq, ConcatEmptySeq DEF TypeOK
<1>2. ASSUME decoder_state' = decoder_state
      PROVE  \E u \in Seq(Timesteps) : decoder_state' = decoder_state \o u
  BY <1>1, <1>2
<1>3. ASSUME NEW batch \in Seq(Timesteps), processBatch(batch)
      PROVE  \E u \in Seq(Timesteps) : decoder_state' = decoder_state \o u
  BY <1>2, <1>3 DEF processBatch
<1>4. ASSUME NEW f \in Frames, pushMfccBuffer(f)
      PROVE  \E u \in Seq(Timesteps) : decoder_state' = decoder_state \o u
  <2> DEFINE buf == Append(mfcc_buffer, f)
             batch == Append(batch_buffer, buf)
  <2>1. batch \in Seq(Timesteps)
    BY DEF TypeOK, Timesteps
  <2>2. processBatch(batch) \/ decoder_state' = decoder_state
    BY <1>4 DEF pushMfccBuffer, processMfccWindow
  <2> HIDE DEF batch
  <2> QED BY <1>2, <1>3, <2>1, <2>2
<1>5. ASSUME processAudioWindow(audio_buffer)
      PROVE  \E u \in Seq(Timesteps) : decoder_state' = decoder_state \o u
  <2>1. compute_mfcc(audio_buffer) \in Frames
    BY FrameType DEF TypeOK
  <2> QED BY <1>2, <1>4, <1>5, <2>1 DEF processAudioWindow
<1>6. CASE ProcessFullWindow \/ FlushAudio
  BY <1>5, <1>6 DEF ProcessFullWindow, FlushAudio
<1>7. CASE addZeroMfccWindow
  BY <1>4, <1>7, FrameType DEF addZeroMfccWindow
<1>8. CASE ProcessFinalBatch
  BY <1>2, <1>3, <1>8 DEF ProcessFinalBatch, TypeOK
<1>9. ~NewStream
  BY DEF NewStream, Live
<1>10. CASE \/ \E n \in 0 .. MaxSamples : DS_FeedAudioContent(n)
            \/ DS_IntermediateDecode \/ DS_FinishStream \/ DS_FreeStream
            \/ PushSample \/ FeedReturn \/ UNCHANGED vars
  BY <1>2, <1>10 DEF DS_FeedAudioContent, DS_IntermediateDecode, DS_FinishStream, DS_FreeStream,
     PushSample, FeedReturn, vars, pipe
<1> QED
  BY <1>6, <1>7, <1>8, <1>9, <1>10 DEF Next, Call, Step, DS_CreateStream, DS_SpeechToText

\* What a step does to the transcript of a live stream.
LEMMA TranscriptStep ==
  ASSUME TypeOK, TypeOK', DecodedInv, [Next]_vars
  PROVE  /\ DecodedInv'
         /\ pc \in Live => Extends(transcript, transcript')
<1>1. CASE pc \notin Live
  <2>1. CASE NewStream
    <3>1. transcript' = << >> /\ decoder_state' = << >>
      BY <2>1 DEF NewStream
    <3>2. Extends(<< >>, << >>)
      BY DEF Extends
    <3> QED BY <1>1, <3>1, <3>2 DEF DecodedInv
  <2>2. CASE UNCHANGED vars
    BY <1>1, <2>2 DEF vars, DecodedInv
  <2>3. NewStream \/ UNCHANGED vars
    BY <1>1 DEF Next, Call, Step, Live, DS_CreateStream, DS_SpeechToText, DS_FeedAudioContent,
       DS_IntermediateDecode, DS_FinishStream, DS_FreeStream, PushSample, ProcessFullWindow, FeedReturn,
       FlushAudio, addZeroMfccWindow, ProcessFinalBatch
  <2> QED BY <2>1, <2>2, <2>3
<1>2. CASE pc \in Live
  <2>1. PICK u \in Seq(Timesteps) : decoder_state' = decoder_state \o u
    BY <1>2, DecoderGrows
  <2>2. Extends(transcript, decoder_state)
    BY <1>2 DEF DecodedInv
  <2>3. /\ transcript \in Seq(Timesteps) /\ decoder_state \in Seq(Timesteps)
        /\ decoder_state' \in Seq(Timesteps) /\ << >> \in Seq(Timesteps)
    BY EmptySeq DEF TypeOK
  <2>4. Extends(transcript, decoder_state')
    BY <2>1, <2>2, <2>3, ExtendsConcat
  <2>5. Extends(transcript, transcript)
    <3>1. Extends(<< >>, transcript)
      <4>1. Len(<< >>) = 0 /\ 0 <= Len(transcript) /\ SubSeq(transcript, 1, 0) = << >>
        BY <2>3
      <4> QED BY <4>1 DEF Extends
    <3> QED BY <2>3, <3>1, ExtendsConcat
  <2>6. Extends(decoder_state', decoder_state')
    BY <2>3, <2>4, ExtendsConcat
  <2>7. transcript' \in {transcript, decoder_state, decoder_state'}
    BY <1>2 DEF Next, Call, Step, Live, DS_CreateStream, DS_SpeechToText, DS_FeedAudioContent,
       DS_IntermediateDecode, DS_FinishStream, DS_FreeStream, PushSample, ProcessFullWindow, FeedReturn,
       FlushAudio, addZeroMfccWindow, ProcessFinalBatch, NewStream, vars
  <2>8. Extends(decoder_state, decoder_state')
    <3>1. Extends(decoder_state, decoder_state)
      BY <2>2, <2>3, ExtendsConcat
    <3> QED BY <2>1, <2>3, <3>1, ExtendsConcat
  <2> QED BY <2>2, <2>4, <2>5, <2>6, <2>7, <2>8 DEF DecodedInv
<1> QED BY <1>1, <1>2

\* What DS_IntermediateDecode reported is a beginning of every later decode of
\* the stream, the final one included.
THEOREM DecodesExtend == Spec => TranscriptExtends
<1>1. Init => DecodedInv
  BY DEF Init, DecodedInv, Live
<1>2. TypeOK /\ TypeOK' /\ DecodedInv /\ [Next]_vars => DecodedInv'
  BY TranscriptStep
<1>3. TypeOK /\ TypeOK' /\ DecodedInv /\ [Next]_vars =>
        [(pc \in {"idle", "feed", "flush", "zeros"}) =>
           /\ Len(transcript) <= Len(transcript')
           /\ SubSeq(transcript', 1, Len(transcript)) = transcript]_vars
  BY TranscriptStep DEF Extends, Live
<1> QED BY <1>1, <1>2, <1>3, TypeCorrect, PTL DEF Spec, TranscriptExtends

=============================================================================
