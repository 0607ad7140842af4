---------------------------- MODULE ClientProofs ----------------------------
(***************************************************************************)
(* The clients of the library, for any number of threads and streams: the  *)
(* Android demo (StreamingDemo) and the Python binding (PythonStream)      *)
(* never pass a stream to the library after it was freed.                  *)
(***************************************************************************)
EXTENDS StreamingDemo, PythonStream, FiniteSetTheorems, WellFoundedInduction, TLAPS
-----------------------------------------------------------------------------
(* The demo *)

Locations == {"new", "begin", "loop", "feed", "decode", "compare",
              "thrown", "refinish", "recreate", "finish", "ended"}

\* Locations at which the thread's stream is in streamContext, and live.
Streaming == {"loop", "feed", "decode", "compare", "refinish", "finish"}

\* Threads that have counted a repeat and not yet reset the count.
Counting == {w \in Workers : worker[w] \in {"refinish", "recreate"}}
CountBounded == repeatCount \in Nat /\ repeatCount <= RepeatAny + Cardinality(Counting)

\* There is at most one thread in transcribe(),
OneAtATime == \A v, w \in Busy : v = w

\* the flag and the button say where it is,
ButtonTells ==
    /\ Busy = {} => ~isRecording /\ label = "Start"
    /\ \A w \in Workers :
         /\ worker[w] = "begin" => isRecording /\ label = "Start"
         /\ worker[w] \in Streaming \cup {"recreate"} => label = "Stop"
         /\ worker[w] = "finish" => ~isRecording

\* the live stream is the one in streamContext, and has a thread,
OneStream ==
    /\ \A w \in Workers : worker[w] \in Streaming => Alive(streamContext)
    /\ \A s \in 1..MaxStreams : Alive(s) => /\ s = streamContext
                                            /\ \E w \in Workers : worker[w] \in Streaming

\* and until something was decoded, the stream has been fed one chunk at most.
NothingDecoded ==
    \A w \in Workers :
       /\ worker[w] # "thrown"
       /\ lastDecoded = Null =>
            /\ worker[w] \in {"loop", "feed"} => streams[streamContext] = 0
            /\ worker[w] = "decode" => streams[streamContext] <= 1
            /\ worker[w] = "compare" => decoded = Empty

\* The inductive invariant: what holds whatever the user does, and the session
\* of a user who waits for the button.
DemoInv ==
    /\ TypeOK /\ patient \in BOOLEAN
    /\ CountBounded
    /\ \A w \in Workers : worker[w] \in {"compare", "refinish", "recreate"} => decoded # Null
    /\ patient => OneAtATime /\ ButtonTells /\ OneStream /\ NothingDecoded

LEMMA CountingFinite ==
    /\ IsFiniteSet(Counting) /\ Cardinality(Counting) \in Nat
    /\ Cardinality(Counting) <= Cardinality(Workers) /\ Cardinality(Workers) \in Nat
<1>1. Counting \in SUBSET Workers
  BY DEF Counting
<1> QED BY <1>1, DemoAssumption, FS_Subset, FS_CardinalityType

\* The smallest unused name: createStream returns a stream that was not alive,
\* and not the one in streamContext.
LEMMA CreatedFresh ==
    ASSUME TypeOK, CreateStream
    PROVE  /\ streamContext' \in 1..MaxStreams /\ streamContext' # streamContext
           /\ streams[streamContext'] = Freed
           /\ streams' = [streams EXCEPT ![streamContext'] = 0]
<1>1. Unused \subseteq Nat /\ Unused # {}
  BY DemoAssumption DEF CreateStream, Unused
<1> DEFINE R == OpToRel(<, Nat)
<1>2. \A s, t \in Nat : t < s => <<t, s>> \in R
  BY DEF OpToRel
<1>3. \E s \in Unused : \A t \in Unused : s <= t
  <2>1. IsWellFoundedOn(R, Nat)
    BY NatLessThanWellFounded
  <2> HIDE DEF R, Unused
  <2>2. PICK s \in Unused : \A t \in Unused : <<t, s>> \notin R
    BY <1>1, <2>1, WFMin
  <2>3. ASSUME NEW t \in Unused PROVE s <= t
    <3>1. s \in Nat /\ t \in Nat
      BY <1>1
    <3>2. ~(t < s)
      BY <1>2, <2>2, <3>1
    <3> QED BY <3>1, <3>2
  <2> QED BY <2>3
<1>4. streamContext' \in Unused
  BY <1>3 DEF CreateStream
<1> QED BY <1>4 DEF CreateStream, Unused, Alive

LEMMA DemoInit == Init => DemoInv
<1> USE DemoAssumption
<1> SUFFICES ASSUME Init PROVE DemoInv
  OBVIOUS
<1>1. CountBounded
  BY CountingFinite DEF Init, CountBounded
<1>2. TypeOK
  <2>1. repeatCount \in 0..(RepeatAny + Cardinality(Workers))
    BY CountingFinite DEF Init
  <2>2. Freed \in Freed..Warm /\ 0 \in 0..MaxStreams
    BY DEF Freed
  <2> QED BY <2>1, <2>2 DEF Init, TypeOK
<1>3. OneAtATime /\ ButtonTells /\ NothingDecoded
  BY DEF Init, OneAtATime, ButtonTells, NothingDecoded, Busy, Streaming
<1>4. OneStream
  BY DEF Init, OneStream, Alive, Streaming
<1> QED BY <1>1, <1>2, <1>3, <1>4 DEF Init, DemoInv

\* A step of transcribe() on thread w moves w alone, and in the session of a
\* patient user no other thread is in transcribe().
LEMMA ThreadMoves ==
    ASSUME DemoInv, NEW w \in Workers, NEW l \in Locations, w \in Busy, Goto(w, l), UNCHANGED patient
    PROVE  /\ worker' \in [Workers -> Locations] /\ worker'[w] = l
           /\ \A x \in Workers : x # w => worker'[x] = worker[x]
           /\ patient => \A x \in Workers : x # w => worker'[x] \in {"new", "ended"}
           /\ patient' => OneAtATime'
<1>1. worker' = [worker EXCEPT ![w] = l] /\ worker \in [Workers -> Locations]
  BY DEF Goto, DemoInv, TypeOK, Locations
<1>2. patient => \A x \in Workers : x # w => worker[x] \in {"new", "ended"}
  BY DEF DemoInv, OneAtATime, Busy
<1>3. patient' => OneAtATime'
  BY <1>1, <1>2 DEF OneAtATime, Busy
<1> QED BY <1>1, <1>2, <1>3

\* The count of repeats, and with it its type, if the counting threads are as before.
LEMMA CountKept ==
    ASSUME DemoInv, Counting' = Counting, UNCHANGED repeatCount
    PROVE  CountBounded' /\ repeatCount' \in 0..(RepeatAny + Cardinality(Workers))
BY CountingFinite, DemoAssumption DEF DemoInv, CountBounded, TypeOK

LEMMA DemoUi ==
    ASSUME DemoInv, StartListening \/ StopListening \/ OnDestroy
    PROVE  DemoInv'
<1> USE DemoAssumption DEF DemoInv, native, text
<1>1. CASE StartListening
  <2> PICK w \in Workers : At(w, "new") /\ Goto(w, "begin")
    BY <1>1 DEF StartListening
  <2>1. /\ worker' = [worker EXCEPT ![w] = "begin"] /\ worker[w] = "new"
        /\ worker \in [Workers -> Locations]
    BY DEF Goto, At, TypeOK, Locations
  <2>2. Counting' = Counting
    BY <2>1 DEF Counting
  <2>3. CountBounded' /\ repeatCount' \in 0..(RepeatAny + Cardinality(Workers))
    BY <1>1, <2>2, CountKept DEF StartListening
  <2>4. worker' \in [Workers -> Locations]
    BY <2>1 DEF Locations
  <2>5. TypeOK'
    BY <1>1, <2>3, <2>4 DEF StartListening, TypeOK, Locations
  <2>6. ASSUME patient PROVE (OneAtATime /\ ButtonTells /\ OneStream /\ NothingDecoded)'
    <3>1. \A x \in Workers : worker[x] \in {"new", "ended"}
      <4> SUFFICES ASSUME NEW x \in Workers, worker[x] \notin {"new", "ended"} PROVE FALSE
        OBVIOUS
      <4>1. worker[x] \in Locations
        BY <2>1
      <4> QED BY <1>1, <2>6, <4>1 DEF StartListening, ButtonTells, Streaming, NothingDecoded, Locations
    <3>2. OneAtATime'
      BY <2>1, <3>1 DEF OneAtATime, Busy
    <3>3. ButtonTells'
      BY <1>1, <2>1, <2>6, <3>1 DEF StartListening, ButtonTells, Busy, Streaming
    <3>4. OneStream'
      BY <1>1, <2>1, <2>6, <3>1 DEF StartListening, OneStream, Alive, Streaming
    <3>5. NothingDecoded'
      BY <1>1, <2>1, <2>6, <3>1 DEF StartListening, NothingDecoded
    <3> QED BY <3>2, <3>3, <3>4, <3>5
  <2> QED BY <1>1, <2>1, <2>3, <2>5, <2>6 DEF StartListening
<1>2. CASE StopListening \/ OnDestroy
  <2>0. UNCHANGED <<patient, label, streamContext, streams, decoded, lastDecoded, repeatCount, worker>>
    BY <1>2 DEF StopListening, OnDestroy
  <2>1. TypeOK'
    BY <1>2, <2>0 DEF StopListening, OnDestroy, TypeOK
  <2>2. CountBounded'
    BY <2>0 DEF CountBounded, Counting
  <2>3. patient => ButtonTells'
    BY <1>2, <2>0 DEF StopListening, OnDestroy, ButtonTells, Busy, Streaming
  <2>4. patient => OneAtATime' /\ OneStream' /\ NothingDecoded'
    BY <2>0 DEF OneAtATime, OneStream, NothingDecoded, Alive, Busy
  <2> QED BY <2>0, <2>1, <2>2, <2>3, <2>4
<1> QED BY <1>1, <1>2

\* The thread creates its stream.
LEMMA DemoBegin == ASSUME DemoInv, NEW w \in Workers, Begin(w) PROVE DemoInv'
<1> USE DemoAssumption DEF DemoInv, text
<1>0. /\ worker[w] = "begin" /\ UNCHANGED <<patient, isRecording, model, decoded, lastDecoded, repeatCount>>
      /\ w \in Busy /\ label' = "Stop" /\ TypeOK /\ CreateStream /\ Goto(w, "loop")
  BY DEF Begin, At, Busy
<1>1. /\ streamContext' \in 1..MaxStreams
      /\ streams' = [streams EXCEPT ![streamContext'] = 0]
  BY <1>0, CreatedFresh
<1>2. /\ worker' \in [Workers -> Locations] /\ worker'[w] = "loop"
      /\ \A x \in Workers : x # w => worker'[x] = worker[x]
      /\ patient => \A x \in Workers : x # w => worker'[x] \in {"new", "ended"}
      /\ patient' => OneAtATime'
  BY <1>0, ThreadMoves DEF Locations
<1>3. CountBounded' /\ repeatCount' \in 0..(RepeatAny + Cardinality(Workers))
  <2>1. Counting' = Counting
    BY <1>0, <1>2 DEF Counting
  <2> QED BY <1>0, <2>1, CountKept
<1>4. streams' \in [1..MaxStreams -> Freed..Warm] /\ streamContext' \in 0..MaxStreams
  BY <1>1 DEF TypeOK, Freed
<1>5. TypeOK'
  BY <1>0, <1>2, <1>3, <1>4 DEF TypeOK, Locations
<1>6. ASSUME patient PROVE (ButtonTells /\ OneStream /\ NothingDecoded)'
  <2>1. ButtonTells'
    BY <1>0, <1>2, <1>6 DEF ButtonTells, Busy, Streaming
  <2>2. OneStream'
    <3>1. \A s \in 1..MaxStreams : streams[s] = Freed
      <4> SUFFICES ASSUME NEW s \in 1..MaxStreams, streams[s] # Freed PROVE FALSE
        OBVIOUS
      <4>1. PICK x \in Workers : worker[x] \in Streaming
        BY <1>6 DEF OneStream, Alive
      <4> QED BY <1>0, <1>2, <1>6, <4>1 DEF Streaming
    <3> QED BY <1>1, <1>2, <3>1 DEF OneStream, Alive, Streaming, Freed, TypeOK
  <2>3. NothingDecoded'
    <3>1. streams'[streamContext'] = 0
      BY <1>1 DEF TypeOK
    <3> QED BY <1>2, <1>6, <3>1 DEF NothingDecoded
  <2> QED BY <2>1, <2>2, <2>3
<1> QED BY <1>0, <1>2, <1>3, <1>5, <1>6

\* The thread reads the flag.
LEMMA DemoLoop == ASSUME DemoInv, NEW w \in Workers, Loop(w) PROVE DemoInv'
<1> USE DemoAssumption DEF DemoInv, ui, native, text
<1> DEFINE l == IF isRecording THEN "feed" ELSE "finish"
<1>0. /\ worker[w] = "loop" /\ w \in Busy /\ Goto(w, l) /\ l \in Locations
      /\ UNCHANGED <<patient, isRecording, label, model, streamContext, streams,
                     decoded, lastDecoded, repeatCount>>
  BY DEF Loop, At, Busy, Locations, StillRecording
<1>2. /\ worker' \in [Workers -> Locations] /\ worker'[w] = l
      /\ \A x \in Workers : x # w => worker'[x] = worker[x]
      /\ patient => \A x \in Workers : x # w => worker'[x] \in {"new", "ended"}
      /\ patient' => OneAtATime'
  <2> HIDE DEF l
  <2> QED BY <1>0, ThreadMoves
<1>3. CountBounded' /\ repeatCount' \in 0..(RepeatAny + Cardinality(Workers))
  <2>1. Counting' = Counting
    BY <1>0, <1>2 DEF Counting
  <2> QED BY <1>0, <2>1, CountKept
<1>5. TypeOK'
  BY <1>0, <1>2, <1>3 DEF TypeOK, Locations
<1>6. ASSUME patient PROVE (ButtonTells /\ OneStream /\ NothingDecoded)'
  <2>1. ButtonTells'
    BY <1>0, <1>2, <1>6 DEF ButtonTells, Busy, Streaming
  <2>2. OneStream'
    BY <1>0, <1>2, <1>6 DEF OneStream, Alive, Streaming
  <2>3. NothingDecoded'
    BY <1>0, <1>2, <1>6 DEF NothingDecoded
  <2> QED BY <2>1, <2>2, <2>3
<1> QED BY <1>0, <1>2, <1>3, <1>5, <1>6

\* The thread feeds the stream.
LEMMA DemoFeed == ASSUME DemoInv, NEW w \in Workers, Feed(w) PROVE DemoInv'
<1> USE DemoAssumption DEF DemoInv, ui, text
<1>0. /\ worker[w] = "feed" /\ w \in Busy /\ Goto(w, "decode") /\ "decode" \in Locations
      /\ UNCHANGED <<patient, isRecording, label, model, streamContext,
                     decoded, lastDecoded, repeatCount>>
  BY DEF Feed, At, Busy, Locations
<1>1. \/ ~Alive(streamContext) /\ streams' = streams
      \/ /\ Alive(streamContext) /\ streamContext \in 1..MaxStreams
         /\ streams[streamContext] \in 0..Warm
         /\ \E n \in 0..Warm : /\ streams' = [streams EXCEPT ![streamContext] = n]
                               /\ n <= streams[streamContext] + 1
  <2>1. CASE Alive(streamContext)
    <3>1. streamContext \in 1..MaxStreams /\ streams[streamContext] \in 0..Warm
      BY <2>1 DEF Alive, TypeOK, Freed
    <3> DEFINE n == IF streams[streamContext] < Warm THEN streams[streamContext] + 1
                                                     ELSE streams[streamContext]
    <3>2. n \in 0..Warm /\ n <= streams[streamContext] + 1
      BY <3>1
    <3>3. streams' = [streams EXCEPT ![streamContext] = n]
      BY <2>1 DEF Feed
    <3> QED BY <2>1, <3>1, <3>2, <3>3
  <2> QED BY <2>1 DEF Feed
<1>2. /\ worker' \in [Workers -> Locations] /\ worker'[w] = "decode"
      /\ \A x \in Workers : x # w => worker'[x] = worker[x]
      /\ patient => \A x \in Workers : x # w => worker'[x] \in {"new", "ended"}
      /\ patient' => OneAtATime'
  BY <1>0, ThreadMoves
<1>3. CountBounded' /\ repeatCount' \in 0..(RepeatAny + Cardinality(Workers))
  <2>1. Counting' = Counting
    BY <1>0, <1>2 DEF Counting
  <2> QED BY <1>0, <2>1, CountKept
<1>4. /\ streams' \in [1..MaxStreams -> Freed..Warm]
      /\ \A s \in 1..MaxStreams : (streams'[s] = Freed) <=> (streams[s] = Freed)
  <2>1. CASE streams' = streams
    BY <2>1 DEF TypeOK
  <2>2. ASSUME NEW n \in 0..Warm, streams' = [streams EXCEPT ![streamContext] = n],
               streamContext \in 1..MaxStreams, Alive(streamContext)
        PROVE  /\ streams' \in [1..MaxStreams -> Freed..Warm]
               /\ \A s \in 1..MaxStreams : (streams'[s] = Freed) <=> (streams[s] = Freed)
    <3>1. n \in Freed..Warm /\ n # Freed
      BY DEF Freed
    <3>2. streams' \in [1..MaxStreams -> Freed..Warm]
      BY <2>2, <3>1 DEF TypeOK
    <3> QED BY <2>2, <3>1, <3>2 DEF TypeOK, Alive
  <2> QED BY <1>1, <2>1, <2>2
<1>5. TypeOK'
  BY <1>0, <1>2, <1>3, <1>4 DEF TypeOK, Locations
<1>6. ASSUME patient PROVE (ButtonTells /\ OneStream /\ NothingDecoded)'
  <2>1. ButtonTells'
    BY <1>0, <1>2, <1>6 DEF ButtonTells, Busy, Streaming
  <2>2. OneStream'
    BY <1>0, <1>2, <1>4, <1>6 DEF OneStream, Alive, Streaming, TypeOK
  <2>3. NothingDecoded'
    <3>1. Alive(streamContext)
      BY <1>0, <1>6 DEF OneStream, Streaming
    <3>2. lastDecoded = Null => streams'[streamContext] <= 1
      BY <1>0, <1>1, <1>6, <3>1 DEF NothingDecoded, TypeOK
    <3> QED BY <1>0, <1>2, <1>6, <3>2 DEF NothingDecoded
  <2> QED BY <2>1, <2>2, <2>3
<1> QED BY <1>0, <1>2, <1>3, <1>5, <1>6

\* The thread decodes: before anything was decoded, a stream with one chunk
\* decodes to nothing.
LEMMA DemoDecode == ASSUME DemoInv, NEW w \in Workers, Decode(w) PROVE DemoInv'
<1> USE DemoAssumption DEF DemoInv, ui, native
<1>0. /\ worker[w] = "decode" /\ w \in Busy /\ Goto(w, "compare") /\ "compare" \in Locations
      /\ UNCHANGED <<patient, isRecording, label, model, streamContext, streams,
                     lastDecoded, repeatCount>>
  BY DEF Decode, At, Busy, Locations
<1>1. /\ decoded' \in Texts /\ decoded' # Null
      /\ Alive(streamContext) /\ streams[streamContext] < Warm => decoded' = Empty
  BY DEF Decode, Decodings, Texts, Empty, Short, Long, Null
<1>2. /\ worker' \in [Workers -> Locations] /\ worker'[w] = "compare"
      /\ \A x \in Workers : x # w => worker'[x] = worker[x]
      /\ patient => \A x \in Workers : x # w => worker'[x] \in {"new", "ended"}
      /\ patient' => OneAtATime'
  BY <1>0, ThreadMoves
<1>3. CountBounded' /\ repeatCount' \in 0..(RepeatAny + Cardinality(Workers))
  <2>1. Counting' = Counting
    BY <1>0, <1>2 DEF Counting
  <2> QED BY <1>0, <2>1, CountKept
<1>5. TypeOK'
  BY <1>0, <1>1, <1>2, <1>3 DEF TypeOK, Locations
<1>6. ASSUME patient PROVE (ButtonTells /\ OneStream /\ NothingDecoded)'
  <2>1. ButtonTells'
    BY <1>0, <1>2, <1>6 DEF ButtonTells, Busy, Streaming
  <2>2. OneStream'
    BY <1>0, <1>2, <1>6 DEF OneStream, Alive, Streaming
  <2>3. NothingDecoded'
    <3>1. Alive(streamContext) /\ streams[streamContext] \in Int
      BY <1>0, <1>6 DEF OneStream, Streaming, Alive, TypeOK, Freed
    <3>2. lastDecoded = Null => decoded' = Empty
      BY <1>0, <1>1, <1>6, <3>1 DEF NothingDecoded
    <3> QED BY <1>0, <1>2, <1>6, <3>2 DEF NothingDecoded
  <2> QED BY <2>1, <2>2, <2>3
<1> QED BY <1>0, <1>1, <1>2, <1>3, <1>5, <1>6

\* The thread compares, and throws if there is nothing to compare with.
LEMMA DemoCompare == ASSUME DemoInv, NEW w \in Workers, Compare(w) PROVE DemoInv'
<1> USE DemoAssumption DEF DemoInv, ui, native
<1>0. /\ worker[w] = "compare" /\ w \in Busy /\ decoded # Null
      /\ UNCHANGED <<patient, isRecording, label, model, streamContext, streams, decoded>>
  BY DEF Compare, At, Busy
<1>a. w \notin Counting
  BY <1>0 DEF Counting
<1>1. ASSUME NEW l \in {"loop", "thrown", "refinish"}, Goto(w, l),
             patient => l # "thrown" /\ lastDecoded' # Null,
             lastDecoded' \in {lastDecoded, decoded},
             CountBounded' /\ repeatCount' \in 0..(RepeatAny + Cardinality(Workers))
      PROVE  DemoInv'
  <2>1. l \in Locations
    BY DEF Locations
  <2>2. /\ worker' \in [Workers -> Locations] /\ worker'[w] = l
        /\ \A x \in Workers : x # w => worker'[x] = worker[x]
        /\ patient => \A x \in Workers : x # w => worker'[x] \in {"new", "ended"}
        /\ patient' => OneAtATime'
    BY <1>0, <1>1, <2>1, ThreadMoves
  <2>3. TypeOK'
    BY <1>0, <1>1, <2>2 DEF TypeOK, Locations
  <2>4. ASSUME patient PROVE (ButtonTells /\ OneStream /\ NothingDecoded)'
    <3>1. ButtonTells'
      BY <1>0, <1>1, <2>2, <2>4 DEF ButtonTells, Busy, Streaming
    <3>2. OneStream'
      BY <1>0, <1>1, <2>2, <2>4 DEF OneStream, Alive, Streaming
    <3>3. NothingDecoded'
      BY <1>0, <1>1, <2>2, <2>4 DEF NothingDecoded
    <3> QED BY <3>1, <3>2, <3>3
  <2> QED BY <1>0, <1>1, <2>2, <2>3, <2>4
<1>2. ASSUME NEW l \in {"loop", "thrown"}, Goto(w, l) PROVE Counting' = Counting
  BY <1>0, <1>a, <1>2 DEF Goto, Counting, TypeOK
<1>3. CASE decoded # Empty /\ lastDecoded = Null
  <2>1. Goto(w, "thrown") /\ UNCHANGED <<lastDecoded, repeatCount>>
    BY <1>3 DEF Compare
  <2>2. ~patient
    BY <1>0, <1>3 DEF NothingDecoded
  <2>3. CountBounded' /\ repeatCount' \in 0..(RepeatAny + Cardinality(Workers))
    BY <1>2, <2>1, CountKept
  <2> QED BY <1>1, <2>1, <2>2, <2>3
<1>4. CASE ~(decoded # Empty /\ lastDecoded = Null) /\ lastDecoded # decoded
  <2>1. Goto(w, "loop") /\ lastDecoded' = decoded /\ UNCHANGED repeatCount
    BY <1>4 DEF Compare, Remember
  <2>2. CountBounded' /\ repeatCount' \in 0..(RepeatAny + Cardinality(Workers))
    BY <1>2, <2>1, CountKept
  <2> QED BY <1>0, <1>1, <2>1, <2>2
<1>5. CASE /\ ~(decoded # Empty /\ lastDecoded = Null) /\ lastDecoded = decoded
           /\ Exhausted(repeatCount + 1)
  <2>1. Goto(w, "refinish") /\ repeatCount' = repeatCount + 1 /\ UNCHANGED lastDecoded
    BY <1>5 DEF Compare
  <2>2. Counting' = Counting \cup {w}
    BY <2>1, <1>0 DEF Goto, Counting, TypeOK
  <2>3. /\ IsFiniteSet(Counting) /\ Cardinality(Counting) \in Nat
        /\ IsFiniteSet(Workers) /\ Cardinality(Workers) \in Nat
    BY CountingFinite
  <2>4. Cardinality(Counting') = Cardinality(Counting) + 1
    <3> HIDE DEF Counting
    <3> QED BY <1>a, <2>2, <2>3, FS_AddElement
  <2>5. Cardinality(Counting') <= Cardinality(Workers)
    <3>1. Counting' \in SUBSET Workers
      BY DEF Counting
    <3> HIDE DEF Counting
    <3> QED BY <2>3, <3>1, FS_Subset
  <2>6. CountBounded' /\ repeatCount' \in 0..(RepeatAny + Cardinality(Workers))
    BY <2>1, <2>3, <2>4, <2>5 DEF CountBounded
  <2> QED BY <1>0, <1>1, <1>5, <2>1, <2>6
<1>6. CASE /\ ~(decoded # Empty /\ lastDecoded = Null) /\ lastDecoded = decoded
           /\ ~Exhausted(repeatCount + 1)
  <2>1. Goto(w, "loop") /\ repeatCount' = repeatCount + 1 /\ UNCHANGED lastDecoded
    BY <1>6 DEF Compare
  <2>2. Counting' = Counting
    BY <1>2, <2>1
  <2>3. repeatCount + 1 <= RepeatAny
    BY <1>6 DEF Exhausted, CountBounded
  <2>4. CountBounded' /\ repeatCount' \in 0..(RepeatAny + Cardinality(Workers))
    <3> HIDE DEF Counting
    <3> QED BY <2>1, <2>2, <2>3, CountingFinite DEF CountBounded
  <2> QED BY <1>0, <1>1, <1>6, <2>1, <2>4
<1> QED BY <1>3, <1>4, <1>5, <1>6

\* The thread finishes its stream to replace it.
LEMMA DemoRefinish == ASSUME DemoInv, NEW w \in Workers, Refinish(w) PROVE DemoInv'
<1> USE DemoAssumption DEF DemoInv, ui
<1>0. /\ worker[w] = "refinish" /\ w \in Busy /\ Goto(w, "recreate") /\ "recreate" \in Locations
      /\ UNCHANGED <<patient, isRecording, label, model, streamContext, lastDecoded, repeatCount>>
      /\ streams' = [streams EXCEPT ![streamContext] = Freed]
  BY DEF Refinish, FinishStream, At, Busy, Locations
<1>1. decoded' \in Texts /\ decoded' # Null
  BY DEF Refinish, FinishStream, Texts, Empty, Short, Long, Null
<1>2. /\ worker' \in [Workers -> Locations] /\ worker'[w] = "recreate"
      /\ \A x \in Workers : x # w => worker'[x] = worker[x]
      /\ patient => \A x \in Workers : x # w => worker'[x] \in {"new", "ended"}
      /\ patient' => OneAtATime'
  BY <1>0, ThreadMoves
<1>3. CountBounded' /\ repeatCount' \in 0..(RepeatAny + Cardinality(Workers))
  <2>1. Counting' = Counting
    BY <1>0, <1>2 DEF Counting
  <2> QED BY <1>0, <2>1, CountKept
<1>4. streams' \in [1..MaxStreams -> Freed..Warm]
  <2>1. Freed \in Freed..Warm
    BY DEF Freed
  <2> QED BY <1>0, <2>1 DEF TypeOK
<1>5. TypeOK'
  BY <1>0, <1>1, <1>2, <1>3, <1>4 DEF TypeOK, Locations
<1>6. ASSUME patient PROVE (ButtonTells /\ OneStream /\ NothingDecoded)'
  <2>1. ButtonTells'
    BY <1>0, <1>2, <1>6 DEF ButtonTells, Busy, Streaming
  <2>2. OneStream'
    BY <1>0, <1>2, <1>6 DEF OneStream, Alive, Streaming, TypeOK
  <2>3. NothingDecoded'
    BY <1>0, <1>2, <1>6 DEF NothingDecoded
  <2> QED BY <2>1, <2>2, <2>3
<1> QED BY <1>0, <1>1, <1>2, <1>3, <1>5, <1>6

\* The new stream takes its place.
LEMMA DemoRecreate == ASSUME DemoInv, NEW w \in Workers, Recreate(w) PROVE DemoInv'
<1> USE DemoAssumption DEF DemoInv, ui
<1>0. /\ worker[w] = "recreate" /\ w \in Busy /\ Goto(w, "loop") /\ "loop" \in Locations
      /\ UNCHANGED <<patient, isRecording, label, model, decoded>>
      /\ TypeOK /\ CreateStream
  BY DEF Recreate, NewStream, At, Busy, Locations
<1>a. repeatCount' = 0 /\ lastDecoded' = decoded /\ decoded # Null
  BY <1>0 DEF Recreate, ResetCount, Remember
<1>1. /\ streamContext' \in 1..MaxStreams
      /\ streams' = [streams EXCEPT ![streamContext'] = 0]
  BY <1>0, CreatedFresh
<1>2. /\ worker' \in [Workers -> Locations] /\ worker'[w] = "loop"
      /\ \A x \in Workers : x # w => worker'[x] = worker[x]
      /\ patient => \A x \in Workers : x # w => worker'[x] \in {"new", "ended"}
      /\ patient' => OneAtATime'
  BY <1>0, ThreadMoves
<1>3. CountBounded' /\ repeatCount' \in 0..(RepeatAny + Cardinality(Workers))
  <2>1. IsFiniteSet(Workers) /\ Counting' \in SUBSET Workers
    BY DEF Counting
  <2>2. Cardinality(Counting') \in Nat
    <3> HIDE DEF Counting
    <3> QED BY <2>1, FS_Subset, FS_CardinalityType
  <2> HIDE DEF Counting
  <2> QED BY <1>a, <2>2, CountingFinite DEF CountBounded
<1>4. streams' \in [1..MaxStreams -> Freed..Warm] /\ streamContext' \in 0..MaxStreams
  BY <1>1 DEF TypeOK, Freed
<1>5. TypeOK'
  BY <1>0, <1>a, <1>2, <1>3, <1>4 DEF TypeOK, Locations
<1>6. ASSUME patient PROVE (ButtonTells /\ OneStream /\ NothingDecoded)'
  <2>1. ButtonTells'
    BY <1>0, <1>2, <1>6 DEF ButtonTells, Busy, Streaming
  <2>2. OneStream'
    <3>1. \A s \in 1..MaxStreams : streams[s] = Freed
      <4> SUFFICES ASSUME NEW s \in 1..MaxStreams, streams[s] # Freed PROVE FALSE
        OBVIOUS
      <4>1. PICK x \in Workers : worker[x] \in Streaming
        BY <1>6 DEF OneStream, Alive
      <4> QED BY <1>0, <1>2, <1>6, <4>1 DEF Streaming
    <3> QED BY <1>1, <1>2, <3>1 DEF OneStream, Alive, Streaming, Freed, TypeOK
  <2>3. NothingDecoded'
    BY <1>a, <1>2, <1>6 DEF NothingDecoded
  <2> QED BY <2>1, <2>2, <2>3
<1> QED BY <1>0, <1>a, <1>2, <1>3, <1>5, <1>6

\* The thread finishes its stream and ends.
LEMMA DemoFinish == ASSUME DemoInv, NEW w \in Workers, Finish(w) PROVE DemoInv'
<1> USE DemoAssumption DEF DemoInv
<1>0. /\ worker[w] = "finish" /\ w \in Busy /\ Goto(w, "ended") /\ "ended" \in Locations
      /\ UNCHANGED <<patient, isRecording, model, streamContext, lastDecoded, repeatCount>>
      /\ label' = "Start" /\ streams' = [streams EXCEPT ![streamContext] = Freed]
  BY DEF Finish, FinishStream, At, Busy, Locations
<1>1. decoded' \in Texts /\ decoded' # Null
  BY DEF Finish, FinishStream, Texts, Empty, Short, Long, Null
<1>2. /\ worker' \in [Workers -> Locations] /\ worker'[w] = "ended"
      /\ \A x \in Workers : x # w => worker'[x] = worker[x]
      /\ patient => \A x \in Workers : x # w => worker'[x] \in {"new", "ended"}
      /\ patient' => OneAtATime'
  BY <1>0, ThreadMoves
<1>3. CountBounded' /\ repeatCount' \in 0..(RepeatAny + Cardinality(Workers))
  <2>1. Counting' = Counting
    BY <1>0, <1>2 DEF Counting
  <2> QED BY <1>0, <2>1, CountKept
<1>4. streams' \in [1..MaxStreams -> Freed..Warm]
  <2>1. Freed \in Freed..Warm
    BY DEF Freed
  <2> QED BY <1>0, <2>1 DEF TypeOK
<1>5. TypeOK'
  BY <1>0, <1>1, <1>2, <1>3, <1>4 DEF TypeOK, Locations
<1>6. ASSUME patient PROVE (ButtonTells /\ OneStream /\ NothingDecoded)'
  <2>1. ButtonTells'
    BY <1>0, <1>2, <1>6 DEF ButtonTells, Busy, Streaming
  <2>2. OneStream'
    BY <1>0, <1>2, <1>6 DEF OneStream, Alive, Streaming, TypeOK
  <2>3. NothingDecoded'
    BY <1>0, <1>2, <1>6 DEF NothingDecoded
  <2> QED BY <2>1, <2>2, <2>3
<1> QED BY <1>0, <1>1, <1>2, <1>3, <1>5, <1>6

LEMMA DemoStep == DemoInv /\ [Next]_vars => DemoInv'
<1> SUFFICES ASSUME DemoInv, [Next]_vars PROVE DemoInv'
  OBVIOUS
<1>1. CASE StartListening \/ StopListening \/ OnDestroy
  BY <1>1, DemoUi
<1>2. ASSUME NEW w \in Workers, Transcribe(w) PROVE DemoInv'
  BY <1>2, DemoBegin, DemoLoop, DemoFeed, DemoDecode, DemoCompare, DemoRefinish, DemoRecreate,
     DemoFinish DEF Transcribe
<1>3. CASE UNCHANGED vars
  <2> USE <1>3 DEF vars, ui, native, text, DemoInv
  <2>1. TypeOK' /\ CountBounded'
    BY DEF TypeOK, CountBounded, Counting
  <2>2. patient => OneAtATime' /\ ButtonTells' /\ OneStream' /\ NothingDecoded'
    BY DEF OneAtATime, ButtonTells, OneStream, NothingDecoded, Alive, Busy
  <2> QED BY <2>1, <2>2
<1> QED BY <1>1, <1>2, <1>3 DEF Next

\* Every reachable state of the demo satisfies the inductive invariant.
THEOREM DemoInvariant == Spec => []DemoInv
BY DemoInit, DemoStep, PTL DEF Spec

\* With a user who waits for the button, transcribe() never passes a finished
\* stream to the library, and no stream is left when the threads have ended.
THEOREM DemoStreamsOwned == Spec => []StreamsOwned
<1>1. DemoInv => StreamsOwned
  <2> SUFFICES ASSUME DemoInv PROVE StreamsOwned
    OBVIOUS
  <2>1. NoUseAfterFinish
    BY DEF DemoInv, OneStream, NoUseAfterFinish, NativeCalls, Streaming
  <2>2. EveryStreamFreed
    BY DEF DemoInv, OneStream, EveryStreamFreed, Busy, Streaming
  <2> QED BY <2>1, <2>2 DEF DemoInv, StreamsOwned
<1> QED BY <1>1, DemoInvariant, PTL

\* lastDecoded.equals is never called on null for such a user, because the first
\* transcript of a session is empty.
THEOREM DemoNeverThrows == Spec => []NeverThrows
<1>1. DemoInv => NeverThrows
  BY DEF DemoInv, NothingDecoded, NeverThrows
<1> QED BY <1>1, DemoInvariant, PTL
-----------------------------------------------------------------------------
(* The Python binding *)

\* The thread is in a method of the stream.
In(t, s) == call[t] # Idle /\ call[t].stream = s

\* The method has destroyed the native stream and not yet reset _impl.
Resetting(t, s) == In(t, s) /\ call[t].phase = "after" /\ call[t].op # "use"

\* The inductive invariant: if the methods of a stream are called one at a time,
\* _impl is out of date only while the method that destroyed the stream runs.
PyInv ==
    /\ PyTypeOK
    /\ serialises =>
         /\ \A t \in Threads : call[t].phase = "native" => native_stream[call[t].stream] = "live"
         /\ \A s \in Streams : \A t, u \in Threads : In(t, s) /\ In(u, s) => t = u
         /\ \A s \in Streams : impl[s] /\ native_stream[s] # "live" => \E t \in Threads : Resetting(t, s)

LEMMA PyStart == PyInit => PyInv
<1> SUFFICES ASSUME PyInit PROVE PyInv
  OBVIOUS
<1>1. PyTypeOK
  BY DEF PyInit, PyTypeOK
<1> QED BY <1>1 DEF PyInit, PyInv, Idle, In

\* Facts about frames: an idle thread is in no method, a running one in one.
LEMMA PyFrames ==
    ASSUME PyTypeOK, NEW t \in Threads
    PROVE  /\ call[t].phase \in {"native", "after"} <=> call[t] # Idle
           /\ call[t] # Idle => /\ call[t].stream \in Streams /\ call[t].op \in Ops
                                   /\ call[t].phase \in {"native", "after"}
BY DEF PyTypeOK, Idle

\* Objects come and go; a native stream goes only when no thread is in its methods.
LEMMA PyObjects ==
    ASSUME PyInv, NEW s \in Streams, createStream(s) \/ Drop(s) \/ Del(s)
    PROVE  PyInv'
<1> USE DEF PyInv
<1>0. UNCHANGED <<serialises, call>> /\ \A t \in Threads, x \in Streams : In(t, x)' = In(t, x)
  BY DEF createStream, Drop, Del, In, Idle
<1>1. PyTypeOK'
  BY DEF createStream, Drop, Del, PyTypeOK
<1>2. \A x \in Streams : x # s => native_stream'[x] = native_stream[x] /\ impl'[x] = impl[x]
  BY DEF createStream, Drop, Del, PyTypeOK
<1>3. \/ impl'[s] = impl[s] /\ native_stream'[s] = native_stream[s]
      \/ native_stream'[s] = "live"
      \/ ~impl'[s] /\ \A t \in Threads : call[t].stream # s
  BY DEF createStream, Drop, Del, PyTypeOK, Calls
<1>4. ASSUME serialises, NEW t \in Threads, call'[t].phase = "native"
      PROVE  native_stream'[call'[t].stream] = "live"
  BY <1>0, <1>2, <1>3, <1>4, PyFrames
<1>5. ASSUME serialises, NEW x \in Streams, impl'[x] /\ native_stream'[x] # "live"
      PROVE  \E t \in Threads : Resetting(t, x)'
  <2>1. impl[x] /\ native_stream[x] # "live"
    BY <1>2, <1>3, <1>5
  <2>2. PICK t \in Threads : Resetting(t, x)
    BY <1>5, <2>1
  <2> QED BY <1>0, <2>2 DEF Resetting
<1> QED BY <1>0, <1>1, <1>4, <1>5

\* A method passes the test of _impl: no other runs, so the native stream lives.
LEMMA PyEnter ==
    ASSUME PyInv, NEW t \in Threads, NEW op \in Ops, NEW s \in Streams, Enter(t, op, s)
    PROVE  PyInv'
<1> USE DEF PyInv
<1> DEFINE frame == [op |-> op, stream |-> s, phase |-> "native"]
<1>0. /\ UNCHANGED <<serialises, native_model, model_held, native_stream, impl, held>>
      /\ call[t] = Idle /\ impl[s] /\ call' = [call EXCEPT ![t] = frame]
  BY DEF Enter, Valid
<1>1. PyTypeOK'
  BY <1>0 DEF PyTypeOK
<1>2. /\ call'[t] = frame /\ frame # Idle
      /\ \A u \in Threads : u # t => call'[u] = call[u]
  BY <1>0 DEF PyTypeOK, Idle
<1>3. ASSUME serialises PROVE \A u \in Threads : call[u].stream # s
  BY <1>3 DEF Enter, Calls
<1>4. ASSUME serialises PROVE native_stream[s] = "live"
  <2> SUFFICES ASSUME native_stream[s] # "live" PROVE FALSE
    OBVIOUS
  <2>1. PICK u \in Threads : Resetting(u, s)
    BY <1>0, <1>4
  <2> QED BY <1>3, <1>4, <2>1 DEF Resetting, In
<1>5. ASSUME serialises, NEW u \in Threads, call'[u].phase = "native"
      PROVE  native_stream[call'[u].stream] = "live"
  BY <1>2, <1>4, <1>5
<1>6. ASSUME serialises, NEW x \in Streams, NEW u \in Threads, NEW v \in Threads, In(u, x)', In(v, x)'
      PROVE  u = v
  BY <1>2, <1>3, <1>6 DEF In, Idle
<1>7. ASSUME serialises, NEW x \in Streams, impl[x] /\ native_stream[x] # "live"
      PROVE  \E u \in Threads : Resetting(u, x)'
  <2>1. PICK u \in Threads : Resetting(u, x)
    BY <1>7
  <2>2. u # t
    BY <1>0, <2>1 DEF Resetting, In
  <2> QED BY <1>2, <2>1, <2>2 DEF Resetting, In, Idle
<1> QED BY <1>0, <1>1, <1>5, <1>6, <1>7

\* The native call: a destroyed stream has this method, and no other, left.
LEMMA PyNative == ASSUME PyInv, NEW t \in Threads, Native(t) PROVE PyInv'
<1> USE DEF PyInv
<1> DEFINE s == call[t].stream
<1>0. /\ UNCHANGED <<serialises, native_model, model_held, impl, held>>
      /\ call[t].phase = "native" /\ call' = [call EXCEPT ![t] = [call[t] EXCEPT !.phase = "after"]]
      /\ native_stream' = IF call[t].op = "use" THEN native_stream ELSE [native_stream EXCEPT ![s] = "freed"]
  BY DEF Native
<1>1. call[t] # Idle /\ s \in Streams /\ call[t].op \in Ops
  BY <1>0, PyFrames
<1>2. /\ call'[t] = [op |-> call[t].op, stream |-> s, phase |-> "after"]
      /\ call'[t] # Idle
      /\ \A u \in Threads : u # t => call'[u] = call[u]
  BY <1>0, <1>1 DEF PyTypeOK, Idle
<1>3. PyTypeOK'
  BY <1>0, <1>1, <1>2 DEF PyTypeOK
<1>4. \A u \in Threads, x \in Streams : In(u, x)' <=> In(u, x)
  BY <1>1, <1>2 DEF In, Idle
<1>5. ASSUME serialises, NEW u \in Threads, call'[u].phase = "native"
      PROVE  native_stream'[call'[u].stream] = "live"
  <2>1. u # t /\ call'[u] = call[u] /\ call[u] # Idle /\ call[u].stream \in Streams
    BY <1>2, <1>5, PyFrames
  <2>2. call[u].stream # s
    BY <1>1, <1>5, <2>1 DEF In
  <2> QED BY <1>0, <1>1, <1>5, <2>1, <2>2 DEF PyTypeOK
<1>6. ASSUME serialises, NEW x \in Streams, impl[x] /\ native_stream'[x] # "live"
      PROVE  \E u \in Threads : Resetting(u, x)'
  <2>1. CASE native_stream[x] # "live"
    <3>1. PICK u \in Threads : Resetting(u, x)
      BY <1>6, <2>1
    <3>2. u # t
      BY <1>0, <3>1 DEF Resetting
    <3> QED BY <1>2, <1>4, <3>1, <3>2 DEF Resetting
  <2>2. CASE native_stream[x] = "live"
    <3>1. x = s /\ call[t].op # "use"
      BY <1>0, <1>1, <1>6, <2>2 DEF PyTypeOK
    <3>2. Resetting(t, x)'
      BY <1>2, <3>1 DEF Resetting, In, Idle
    <3> QED BY <3>2
  <2> QED BY <2>1, <2>2
<1> QED BY <1>0, <1>3, <1>4, <1>5, <1>6

\* The method resets _impl if it destroyed the stream, and returns.
LEMMA PyLeave == ASSUME PyInv, NEW t \in Threads, Leave(t) PROVE PyInv'
<1> USE DEF PyInv
<1> DEFINE s == call[t].stream
<1>0. /\ UNCHANGED <<serialises, native_model, model_held, native_stream, held>>
      /\ call[t].phase = "after" /\ call' = [call EXCEPT ![t] = Idle]
      /\ impl' = IF call[t].op = "use" THEN impl ELSE [impl EXCEPT ![s] = FALSE]
  BY DEF Leave
<1>1. call[t] # Idle /\ s \in Streams
  BY <1>0, PyFrames
<1>2. call'[t] = Idle /\ \A u \in Threads : u # t => call'[u] = call[u]
  BY <1>0 DEF PyTypeOK
<1>3. PyTypeOK'
  BY <1>0, <1>1 DEF PyTypeOK
<1>4. ASSUME serialises, NEW u \in Threads, call'[u].phase = "native"
      PROVE  native_stream[call'[u].stream] = "live"
  BY <1>2, <1>4 DEF Idle
<1>5. \A u \in Threads, x \in Streams : In(u, x)' => In(u, x)
  BY <1>2 DEF In, Idle
<1>6. ASSUME serialises, NEW x \in Streams, impl'[x] /\ native_stream[x] # "live"
      PROVE  \E u \in Threads : Resetting(u, x)'
  <2>1. impl[x]
    BY <1>0, <1>1, <1>6 DEF PyTypeOK
  <2>2. PICK u \in Threads : Resetting(u, x)
    BY <1>6, <2>1
  <2>3. u # t
    BY <1>0, <1>1, <1>6, <2>2 DEF Resetting, In, PyTypeOK
  <2> QED BY <1>2, <2>2, <2>3 DEF Resetting, In, Idle
<1> QED BY <1>0, <1>3, <1>4, <1>5, <1>6

LEMMA PyStep == PyInv /\ [PyNext]_pyVars => PyInv'
<1> SUFFICES ASSUME PyInv, [PyNext]_pyVars PROVE PyInv'
  OBVIOUS
<1>1. CASE DropModel \/ DelModel \/ UNCHANGED pyVars
  <2>1. UNCHANGED <<serialises, native_stream, impl, held, call>>
    BY <1>1 DEF DropModel, DelModel, pyVars
  <2>2. PyTypeOK'
    BY <1>1, <2>1 DEF PyInv, DropModel, DelModel, pyVars, PyTypeOK
  <2> QED BY <2>1, <2>2 DEF PyInv, In, Resetting, Idle
<1> QED BY <1>1, PyObjects, PyEnter, PyNative, PyLeave DEF PyNext

\* A native call of the Python binding gets a live stream, for any number of
\* threads and streams, if the methods of a stream are called one at a time.
THEOREM PyImplInv == PySpec => []ImplInv
<1>1. PyInv => ImplInv
  BY DEF PyInv, ImplInv, NoUseAfterFree
<1> QED BY <1>1, PyStart, PyStep, PTL DEF PySpec

=============================================================================
