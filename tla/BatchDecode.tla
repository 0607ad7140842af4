----------------------------- MODULE BatchDecode -----------------------------
(***************************************************************************)
(* ctc_beam_search_decoder_batch: one decoding task per sample of a batch  *)
(* on a ThreadPool that lives as long as the call, futures collected in    *)
(* order.  A task is the index of its sample and its result that index or  *)
(* an exception, which the future stores and get() rethrows.  The scorer   *)
(* is only read by the tasks.                                              *)
(***************************************************************************)
EXTENDS Integers, Sequences, FiniteSets

CONSTANTS
    Batch,     \* batch_size
    Threads    \* num_processes threads

ASSUME BatchAssumption == Batch \in Nat /\ IsFiniteSet(Threads) /\ Threads # {}

VARIABLES
    pc, i,           \* the calling thread, and the sample it is at
    batch_results,   \* results collected
    tasks, stop,     \* ThreadPool members
    worker, task,    \* per thread: "check", "wait", "run" or "exit"; the task it runs
    future           \* per sample: "none", "pending", "value" or "exception"

main == <<pc, i, batch_results>>
vars == <<main, tasks, stop, worker, task, future>>

Samples == 1..Batch
Waiting == {w \in Threads : worker[w] = "wait"}
Wake(S) == worker' = [w \in Threads |-> IF w \in S THEN "check" ELSE worker[w]]
-----------------------------------------------------------------------------
(* ThreadPool::enqueue, once per sample *)

InBatch == i <= Batch

Enqueue ==
    /\ pc = "enqueue" /\ InBatch
    /\ tasks' = Append(tasks, i)
    /\ future' = [future EXCEPT ![i] = "pending"]
    /\ pc' = "notify"
    /\ UNCHANGED <<i, batch_results, stop, worker, task>>

\* condition.notify_one(), after the lock is released.
Notify ==
    /\ pc = "notify" /\ pc' = "enqueue" /\ i' = i + 1
    /\ IF Waiting = {} THEN UNCHANGED worker ELSE \E w \in Waiting : Wake({w})
    /\ UNCHANGED <<batch_results, tasks, stop, task, future>>

Enqueued ==
    /\ pc = "enqueue" /\ ~InBatch
    /\ pc' = "get" /\ i' = 1
    /\ UNCHANGED <<batch_results, tasks, stop, worker, task, future>>

\* Fault: whichever result is ready.
GetReady ==
    /\ pc = "get" /\ i <= Batch
    /\ \E j \in Samples \ {batch_results[n] : n \in DOMAIN batch_results} :
          future[j] = "value" /\ batch_results' = Append(batch_results, j)
    /\ i' = i + 1 /\ UNCHANGED <<pc, tasks, stop, worker, task, future>>

\* res[i].get(); an exception leaves the function, which destroys the pool.
Get ==
    /\ pc = "get" /\ i <= Batch
    /\ \/ /\ future[i] = "value"
          /\ batch_results' = Append(batch_results, i) /\ i' = i + 1 /\ UNCHANGED pc
       \/ future[i] = "exception" /\ pc' = "stop" /\ UNCHANGED <<batch_results, i>>
    /\ UNCHANGED <<tasks, stop, worker, task, future>>

Got ==
    /\ pc = "get" /\ i > Batch /\ pc' = "stop"
    /\ UNCHANGED <<i, batch_results, tasks, stop, worker, task, future>>
-----------------------------------------------------------------------------
(* ThreadPool::~ThreadPool *)

Stop ==
    /\ pc = "stop" /\ stop' = TRUE /\ pc' = "wake"
    /\ UNCHANGED <<i, batch_results, tasks, worker, task, future>>

\* Fault: notify_one.
NotifyOnce ==
    /\ pc = "wake" /\ pc' = "join"
    /\ IF Waiting = {} THEN UNCHANGED worker ELSE \E w \in Waiting : Wake({w})
    /\ UNCHANGED <<i, batch_results, tasks, stop, task, future>>

NotifyAll ==
    /\ pc = "wake" /\ pc' = "join"
    /\ Wake(Waiting)
    /\ UNCHANGED <<i, batch_results, tasks, stop, task, future>>

\* Fault: threads are detached.
Detached == TRUE
Joined == \A w \in Threads : worker[w] = "exit"

Join ==
    /\ pc = "join" /\ Joined /\ pc' = "returned"
    /\ UNCHANGED <<i, batch_results, tasks, stop, worker, task, future>>
-----------------------------------------------------------------------------
(* A worker thread.  Under the lock: wait, leave, or take a task. *)

MayLeave == stop /\ tasks = <<>>

Check(w) ==
    /\ worker[w] = "check"
    /\ \/ ~stop /\ tasks = <<>> /\ worker' = [worker EXCEPT ![w] = "wait"] /\ UNCHANGED <<tasks, task>>
       \/ MayLeave /\ worker' = [worker EXCEPT ![w] = "exit"] /\ UNCHANGED <<tasks, task>>
       \/ /\ ~MayLeave /\ tasks # <<>>
          /\ worker' = [worker EXCEPT ![w] = "run"]
          /\ task' = [task EXCEPT ![w] = Head(tasks)] /\ tasks' = Tail(tasks)
    /\ UNCHANGED <<main, stop, future>>

\* A condition variable may wake without a notification.
Spurious(w) ==
    /\ worker[w] = "wait" /\ Wake({w})
    /\ UNCHANGED <<main, tasks, stop, task, future>>

\* ctc_beam_search_decoder on the worker, reading the caller's probs.
Run(w) ==
    /\ worker[w] = "run"
    /\ \E r \in {"value", "exception"} : future' = [future EXCEPT ![task[w]] = r]
    /\ worker' = [worker EXCEPT ![w] = "check"]
    /\ UNCHANGED <<main, tasks, stop, task>>

Init ==
    /\ pc = "enqueue" /\ i = 1 /\ batch_results = <<>>
    /\ tasks = <<>> /\ stop = FALSE
    /\ worker = [w \in Threads |-> "check"] /\ task = [w \in Threads |-> 0]
    /\ future = [j \in Samples |-> "none"]

Main == Enqueue \/ Notify \/ Enqueued \/ Get \/ Got \/ Stop \/ NotifyAll \/ Join

Next == Main \/ \E w \in Threads : Check(w) \/ Run(w) \/ Spurious(w)

\* Threads are scheduled; nothing makes a condition variable wake spuriously.
Spec == /\ Init /\ [][Next]_vars
        /\ WF_vars(Main) /\ \A w \in Threads : WF_vars(Check(w) \/ Run(w))
-----------------------------------------------------------------------------
(* Properties *)

\* Queue, results and the locations of the threads have their types: only
\* utterances of the batch are ever queued.
TypeOK ==
    /\ pc \in {"enqueue", "notify", "get", "stop", "wake", "join", "returned"}
    /\ i \in 1..(Batch + 1) /\ stop \in BOOLEAN
    /\ worker \in [Threads -> {"check", "wait", "run", "exit"}] /\ task \in [Threads -> 0..Batch]
    /\ future \in [Samples -> {"none", "pending", "value", "exception"}]
    /\ tasks \in Seq(Samples) /\ batch_results \in Seq(Samples)

\* Result n of the batch is the decoding of sample n, whatever order the threads
\* finish in; after a normal return there is one for every sample.
ResultsInOrder ==
    /\ \A n \in DOMAIN batch_results : batch_results[n] = n
    /\ pc = "returned" => Len(batch_results) = Batch
                          \/ \E j \in Samples : future[j] = "exception"

\* When the call returns or throws, no thread still decodes: the caller
\* may free probs.
NoReadAfterReturn ==
    pc = "returned" => \A w \in Threads : worker[w] = "exit"

\* A failing sample does not keep the others from being decoded: at the return
\* every future of the batch is settled.
EveryTaskRuns == pc = "returned" => \A j \in Samples : future[j] \in {"value", "exception"}

\* What the caller may rely on when the call ends, normally or not: the types of
\* the pool, every task run and none running.
TasksSettled ==
    /\ TypeOK
    /\ NoReadAfterReturn
    /\ EveryTaskRuns

\* The call returns: no wake-up is lost between a thread that goes to wait and
\* the caller that enqueues or stops the pool.
BatchReturns == <>(pc = "returned")
=============================================================================
