---------------------------- MODULE PythonStream ----------------------------
(***************************************************************************)
(* The Python binding, native_client/python/__init__.py: Model and Stream  *)
(* objects over native pointers.  The SWIG module is built with            *)
(* threads="1", so the interpreter lock is released around every native    *)
(* call: a method is a test of _impl, the native call, and what follows    *)
(* it, and other threads run in between.  A test that fails raises         *)
(* RuntimeError and changes nothing.  __del__ runs some time after the     *)
(* last reference is gone.                                                 *)
(*                                                                         *)
(* The parts of the specification have names of their own, PyInit and so   *)
(* on: ClientProofs extends this module and StreamingDemo.                 *)
(***************************************************************************)
EXTENDS Naturals, FiniteSets

CONSTANTS
  Threads,     \* the program's threads
  Streams      \* the Stream objects it creates

VARIABLES
  serialises,    \* the program calls the methods of one stream one at a time
  native_model,  \* the native model: "live" or "freed"
  model_held,    \* the program refers to the Model object
  native_stream, \* per stream: the native state, "none", "live" or "freed"
  impl,          \* per stream: self._impl is set
  held,          \* per stream: the program refers to the Stream object
  call           \* per thread: the method it is in

pyVars == <<serialises, native_model, model_held, native_stream, impl, held, call>>

Idle == [op |-> "none", stream |-> "none", phase |-> "idle"]

\* feedAudioContent and intermediateDecode leave the stream, finishStream and
\* freeStream (and their variants) destroy it.
Ops == {"use", "finish", "free"}

Calls(s) == {t \in Threads : call[t].stream = s}
-----------------------------------------------------------------------------
PyInit ==
  /\ serialises \in BOOLEAN
  /\ native_model = "live" /\ model_held = TRUE
  /\ native_stream = [s \in Streams |-> "none"]
  /\ impl = [s \in Streams |-> FALSE]
  /\ held = [s \in Streams |-> FALSE]
  /\ call = [t \in Threads |-> Idle]

\* Model.createStream, when it succeeds; the Stream does not refer to the Model.
createStream(s) ==
  /\ model_held /\ native_stream[s] = "none"
  /\ native_stream' = [native_stream EXCEPT ![s] = "live"]
  /\ impl' = [impl EXCEPT ![s] = TRUE]
  /\ held' = [held EXCEPT ![s] = TRUE]
  /\ UNCHANGED <<serialises, native_model, model_held, call>>

\* if not self._impl: raise RuntimeError
Valid(s) == impl[s]

\* A thread calls a method of a stream and passes the test.
Enter(t, op, s) ==
  /\ call[t] = Idle /\ held[s] /\ Valid(s)
  /\ serialises => Calls(s) = {}
  /\ call' = [call EXCEPT ![t] = [op |-> op, stream |-> s, phase |-> "native"]]
  /\ UNCHANGED <<serialises, native_model, model_held, native_stream, impl, held>>

\* The native call, without the interpreter lock.
Native(t) ==
  /\ call[t].phase = "native"
  /\ LET s == call[t].stream
     IN  native_stream' = IF call[t].op = "use" THEN native_stream
                                                ELSE [native_stream EXCEPT ![s] = "freed"]
  /\ call' = [call EXCEPT ![t].phase = "after"]
  /\ UNCHANGED <<serialises, native_model, model_held, impl, held>>

\* Fault: freeStream and finishStream leave _impl as it is.
Leave_KeepImpl(t) ==
  /\ call[t].phase = "after"
  /\ call' = [call EXCEPT ![t] = Idle]
  /\ UNCHANGED <<serialises, native_model, model_held, native_stream, held, impl>>

\* self._impl = None, and return.
Leave(t) ==
  /\ call[t].phase = "after"
  /\ LET s == call[t].stream
     IN  impl' = IF call[t].op = "use" THEN impl ELSE [impl EXCEPT ![s] = FALSE]
  /\ call' = [call EXCEPT ![t] = Idle]
  /\ UNCHANGED <<serialises, native_model, model_held, native_stream, held>>

\* The program lets go of a stream, and of the model, which no stream keeps.
Drop(s) ==
  /\ held[s]
  /\ held' = [held EXCEPT ![s] = FALSE]
  /\ UNCHANGED <<serialises, native_model, model_held, native_stream, impl, call>>

DropModel ==
  /\ model_held
  /\ model_held' = FALSE
  /\ UNCHANGED <<serialises, native_model, native_stream, impl, held, call>>

\* Fault: the destructor forgets the native stream.
Del_Nothing(s) ==
  /\ ~held[s] /\ Calls(s) = {} /\ impl[s]
  /\ impl' = [impl EXCEPT ![s] = FALSE]
  /\ UNCHANGED <<serialises, native_model, model_held, native_stream, held, call>>

\* Stream.__del__, once neither the program nor a running method refers to it.
Del(s) ==
  /\ ~held[s] /\ Calls(s) = {} /\ impl[s]
  /\ native_stream' = [native_stream EXCEPT ![s] = "freed"]
  /\ impl' = [impl EXCEPT ![s] = FALSE]
  /\ UNCHANGED <<serialises, native_model, model_held, held, call>>

\* Model.__del__
DelModel ==
  /\ ~model_held /\ native_model = "live"
  /\ native_model' = "freed"
  /\ UNCHANGED <<serialises, model_held, native_stream, impl, held, call>>

PyNext ==
  \/ \E s \in Streams : createStream(s) \/ Drop(s) \/ Del(s)
  \/ \E t \in Threads, op \in Ops, s \in Streams : Enter(t, op, s)
  \/ \E t \in Threads : Native(t) \/ Leave(t)
  \/ DropModel
  \/ DelModel

\* Native calls return, and the interpreter collects what nobody refers to.
Fairness ==
  /\ \A t \in Threads : WF_pyVars(Native(t)) /\ WF_pyVars(Leave(t))
  /\ \A s \in Streams : WF_pyVars(Del(s))
  /\ WF_pyVars(DelModel)

PySpec == PyInit /\ [][PyNext]_pyVars /\ Fairness
-----------------------------------------------------------------------------
(* Properties *)

\* Type invariant of the binding.
PyTypeOK ==
  /\ serialises \in BOOLEAN /\ native_model \in {"live", "freed"} /\ model_held \in BOOLEAN
  /\ native_stream \in [Streams -> {"none", "live", "freed"}]
  /\ impl \in [Streams -> BOOLEAN] /\ held \in [Streams -> BOOLEAN]
  /\ call \in [Threads -> {Idle} \cup [op : Ops, stream : Streams, phase : {"native", "after"}]]

\* A native call gets a stream that is still allocated: a method of a finished
\* or freed stream raises instead (":throws: RuntimeError if the stream object
\* is not valid"), and no stream is freed twice, if its methods are called one
\* at a time: the test and the reset of _impl are far apart otherwise.
NoUseAfterFree ==
  serialises => \A t \in Threads : call[t].phase = "native" => native_stream[call[t].stream] = "live"

\* Objects and frames have their types, and native calls get live streams.
ImplInv ==
  /\ PyTypeOK
  /\ NoUseAfterFree

\* A stream the program has let go of is destroyed, whether it was finished,
\* freed or forgotten.
NoLeak == \A s \in Streams : native_stream[s] = "live" /\ ~held[s] ~> native_stream[s] = "freed"

=============================================================================
