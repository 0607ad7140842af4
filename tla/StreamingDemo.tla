---------------------------- MODULE StreamingDemo ----------------------------
(***************************************************************************)
(* The Android streaming demo (MainActivity.java): the UI thread handles   *)
(* the button and the end of the activity, every start runs transcribe()   *)
(* on a thread of its own, and all of them share the fields of the         *)
(* activity: streamContext, model, decoded, lastDecoded, repeatCount.      *)
(* Recording and the native calls are external; a native stream is live    *)
(* until finishStream frees it.  A transcript is Null, Empty or a text.    *)
(***************************************************************************)
EXTENDS Integers, FiniteSets

CONSTANTS
    Workers,       \* threads that may be started
    MaxStreams,    \* bound on the native streams that exist at a time
    Warm,          \* chunks of audio before a stream decodes anything
    RepeatAny, RepeatEmpty   \* repeats after which a stream is recreated

\* A chunk of 2048 samples holds six of the 25 feature frames the first window
\* needs: a stream never decodes anything after its first chunk.
ASSUME DemoAssumption ==
    /\ Warm \in Nat /\ Warm >= 2 /\ MaxStreams \in Nat
    /\ RepeatAny \in Nat /\ RepeatEmpty \in Nat
    /\ IsFiniteSet(Workers)

Null  == -1
Empty == 0
Short == 1
Long  == 2         \* a text of more than 1024 characters
Texts == {Empty, Short, Long}

VARIABLES
    patient,                  \* the user waits for the button's label to change
    isRecording, label,       \* the flag, and the text of the button
    model,                    \* "live" or "freed"
    streamContext, streams,   \* current stream; per stream its fed chunks, or Freed
    decoded, lastDecoded, repeatCount,
    worker                    \* per thread: its location in transcribe()

ui     == <<patient, isRecording, label, model>>
native == <<streamContext, streams>>
text   == <<decoded, lastDecoded, repeatCount>>
vars   == <<ui, native, text, worker>>

Freed == -1
At(w, l)   == worker[w] = l
Goto(w, l) == worker' = [worker EXCEPT ![w] = l]
Alive(s)   == s # 0 /\ streams[s] # Freed
Busy       == {w \in Workers : worker[w] \notin {"new", "ended"}}
-----------------------------------------------------------------------------
(* UI thread *)

\* startListening: compareAndSet, then a new thread.
StartListening ==
    /\ model = "live" /\ ~isRecording
    /\ patient => label = "Start"
    /\ isRecording' = TRUE
    /\ \E w \in Workers : At(w, "new") /\ Goto(w, "begin")
    /\ UNCHANGED <<patient, label, model, native, text>>

StopListening ==
    /\ model = "live" /\ isRecording
    /\ patient => label = "Stop"
    /\ isRecording' = FALSE
    /\ UNCHANGED <<patient, label, model, native, text, worker>>

\* onDestroy: freeModel, whatever the threads are doing.  What the library does
\* with the streams of a freed model is left out.
OnDestroy ==
    /\ model = "live"
    /\ model' = "freed"
    /\ UNCHANGED <<patient, isRecording, label, native, text, worker>>
-----------------------------------------------------------------------------
(* transcribe() on thread w; every native call is a step *)

\* createStream stores the new stream in the field all threads share.  The name
\* of a freed stream is used again only once the field no longer holds it.
Unused == {s \in 1..MaxStreams : ~Alive(s) /\ s # streamContext}
CreateStream ==
    /\ Unused # {}
    /\ streamContext' = CHOOSE s \in Unused : \A t \in Unused : s <= t
    /\ streams' = [streams EXCEPT ![streamContext'] = 0]

\* finishStream frees the stream and returns its transcript.
FinishStream ==
    /\ streams' = [streams EXCEPT ![streamContext] = Freed]
    /\ \E t \in Texts : decoded' = t

Begin(w) ==
    /\ At(w, "begin") /\ Goto(w, "loop")
    /\ label' = "Stop"
    /\ CreateStream
    /\ UNCHANGED <<patient, isRecording, model, text>>

\* Fault: recording goes on until the activity ends.
KeepsRecording == TRUE
StillRecording == isRecording

Loop(w) ==
    /\ At(w, "loop")
    /\ IF StillRecording THEN Goto(w, "feed") ELSE Goto(w, "finish")
    /\ UNCHANGED <<ui, native, text>>

\* recorder.read, feedAudioContent
Feed(w) ==
    /\ At(w, "feed") /\ Goto(w, "decode")
    /\ streams' = IF Alive(streamContext)
                  THEN [streams EXCEPT ![streamContext] = IF @ < Warm THEN @ + 1 ELSE @]
                  ELSE streams
    /\ UNCHANGED <<ui, streamContext, text>>

\* Without Warm chunks no window of features was complete.
Decodings == IF Alive(streamContext) /\ streams[streamContext] < Warm THEN {Empty} ELSE Texts

\* intermediateDecode
Decode(w) ==
    /\ At(w, "decode") /\ Goto(w, "compare")
    /\ \E t \in Decodings : decoded' = t
    /\ UNCHANGED <<ui, native, lastDecoded, repeatCount>>

\* Fault: silence is not remembered.
RememberText == lastDecoded' = IF decoded = Empty THEN lastDecoded ELSE decoded
Remember == lastDecoded' = decoded

\* Compares with the last transcript, which throws if there is none and the new
\* one has text; too many repeats or a long text call for a new stream.
Exhausted(n) == decoded = Long \/ n > RepeatAny \/ (n > RepeatEmpty /\ decoded = Empty)

Compare(w) ==
    /\ At(w, "compare")
    /\ IF decoded # Empty /\ lastDecoded = Null
       THEN Goto(w, "thrown") /\ UNCHANGED <<lastDecoded, repeatCount>>
       ELSE IF lastDecoded # decoded
       THEN Goto(w, "loop") /\ Remember /\ UNCHANGED repeatCount
       ELSE IF Exhausted(repeatCount + 1)
       THEN Goto(w, "refinish") /\ repeatCount' = repeatCount + 1 /\ UNCHANGED lastDecoded
       ELSE Goto(w, "loop") /\ repeatCount' = repeatCount + 1 /\ UNCHANGED lastDecoded
    /\ UNCHANGED <<ui, native, decoded>>

\* The stream is finished and a new one takes its place.
Refinish(w) ==
    /\ At(w, "refinish") /\ Goto(w, "recreate")
    /\ FinishStream
    /\ UNCHANGED <<ui, streamContext, lastDecoded, repeatCount>>

\* Fault: the finished stream is used on.
NoNewStream == UNCHANGED <<streamContext, streams>>
NewStream == CreateStream

ResetCount == repeatCount' = 0

Recreate(w) ==
    /\ At(w, "recreate") /\ Goto(w, "loop")
    /\ NewStream
    /\ ResetCount /\ Remember
    /\ UNCHANGED <<ui, decoded>>

\* finishStream, the label, recorder.release.
Finish(w) ==
    /\ At(w, "finish") /\ Goto(w, "ended")
    /\ FinishStream /\ label' = "Start"
    /\ UNCHANGED <<patient, isRecording, model, streamContext, lastDecoded, repeatCount>>

Init ==
    /\ patient \in BOOLEAN
    /\ isRecording = FALSE /\ label = "Start" /\ model = "live"
    /\ streamContext = 0 /\ streams = [s \in 1..MaxStreams |-> Freed]
    /\ decoded = Null /\ lastDecoded = Null /\ repeatCount = 0
    /\ worker = [w \in Workers |-> "new"]

Transcribe(w) ==
    Begin(w) \/ Loop(w) \/ Feed(w) \/ Decode(w) \/ Compare(w)
    \/ Refinish(w) \/ Recreate(w) \/ Finish(w)

Next == StartListening \/ StopListening \/ OnDestroy \/ \E w \in Workers : Transcribe(w)

\* Threads are scheduled; nothing makes a user press the button.
Spec == Init /\ [][Next]_vars /\ \A w \in Workers : WF_vars(Transcribe(w))
-----------------------------------------------------------------------------
(* Properties *)

\* The locations of the workers, the streams and the counters have their types:
\* every thread counts at most one repeat more than calls for a new stream.
TypeOK ==
    /\ isRecording \in BOOLEAN /\ label \in {"Start", "Stop"} /\ model \in {"live", "freed"}
    /\ streamContext \in 0..MaxStreams /\ streams \in [1..MaxStreams -> Freed..Warm]
    /\ {decoded, lastDecoded} \subseteq Texts \cup {Null}
    /\ repeatCount \in 0..(RepeatAny + Cardinality(Workers))
    /\ worker \in [Workers -> {"new", "begin", "loop", "feed", "decode", "compare",
                               "thrown", "refinish", "recreate", "finish", "ended"}]

NativeCalls == {"feed", "decode", "refinish", "finish"}

\* No thread is about to pass a stream to the library after finishStream freed
\* it, if the user starts again only once the button says so: two workers at a
\* time share the field that holds the stream.
NoUseAfterFinish ==
    patient => \A w \in Workers : worker[w] \in NativeCalls => Alive(streamContext)

\* Once all threads have ended, every stream that was created has been freed,
\* if there was one of them at a time.
EveryStreamFreed == patient /\ Busy = {} => \A s \in 1..MaxStreams : ~Alive(s)

\* The streams of a patient user's sessions: types, no use after the end, no leak.
StreamsOwned ==
    /\ TypeOK
    /\ NoUseAfterFinish
    /\ EveryStreamFreed

\* The comparison never meets a missing last transcript: a new stream decodes to
\* nothing until Warm chunks, by when lastDecoded is set.
NeverThrows == patient => \A w \in Workers : worker[w] # "thrown"

\* After a stop the button offers a start again to a user who waits for it.
StopCompletes == (patient /\ ~isRecording /\ label = "Stop") ~> (label = "Start")
=============================================================================
