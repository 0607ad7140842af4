-------------------------- MODULE BatchDecodeProofs --------------------------
(***************************************************************************)
(* For any batch and any number of threads: results are in the order of    *)
(* the samples, and when the call ends every task has run and no thread is *)
(* left.                                                                   *)
(***************************************************************************)
EXTENDS BatchDecode, TLAPS

\* The thread decodes the sample.
Runs(w, j) == worker[w] = "run" /\ task[w] = j

\* Where the calling thread is: how far it has enqueued, and collected.
MainAt ==
    /\ pc = "notify" => i <= Batch
    /\ pc \in {"enqueue", "notify"} => batch_results = <<>>
    /\ pc = "get" => Len(batch_results) = i - 1
    /\ pc \notin {"enqueue", "notify", "get"} =>
         Len(batch_results) = Batch \/ \E j \in Samples : future[j] = "exception"
    /\ stop <=> pc \in {"wake", "join", "returned"}
    /\ \A n \in DOMAIN batch_results : batch_results[n] = n

\* The futures that exist are those of the samples enqueued so far.
FuturesMade ==
    \A j \in Samples : future[j] = "none" <=> \/ pc = "enqueue" /\ j >= i
                                              \/ pc = "notify" /\ j > i

\* A pending future has exactly one task, in the queue or on a thread, and every
\* task has a pending future.
NoTaskLost ==
    \A j \in Samples : future[j] = "pending" =>
        (\E k \in DOMAIN tasks : tasks[k] = j) \/ (\E w \in Threads : Runs(w, j))
TasksPending ==
    /\ \A k \in DOMAIN tasks : future[tasks[k]] = "pending"
    /\ \A w \in Threads : worker[w] = "run" => task[w] \in Samples /\ future[task[w]] = "pending"
TaskOnce ==
    /\ \A k, l \in DOMAIN tasks : tasks[k] = tasks[l] => k = l
    /\ \A w \in Threads, k \in DOMAIN tasks : worker[w] = "run" => task[w] # tasks[k]
    /\ \A w, x \in Threads : worker[w] = "run" /\ worker[x] = "run" /\ task[w] = task[x] => w = x

\* A thread leaves only after the stop, when nothing is left to do.
ExitLast ==
    /\ \A w \in Threads : worker[w] = "exit" => stop /\ tasks = <<>>
    /\ NoReadAfterReturn

\* The inductive invariant.
BatchInv ==
    /\ TypeOK /\ MainAt /\ FuturesMade
    /\ NoTaskLost /\ TasksPending /\ TaskOnce /\ ExitLast
-----------------------------------------------------------------------------
LEMMA BatchInit == Init => BatchInv
<1> USE BatchAssumption DEF Samples
<1> SUFFICES ASSUME Init PROVE BatchInv
  OBVIOUS
<1>1. TypeOK
  <2>1. tasks \in Seq(Samples) /\ batch_results \in Seq(Samples)
    BY DEF Init
  <2>2. i \in 1..(Batch + 1) /\ 0 \in 0..Batch
    BY DEF Init
  <2>3. /\ task \in [Threads -> 0..Batch] /\ stop \in BOOLEAN
        /\ worker \in [Threads -> {"check", "wait", "run", "exit"}]
        /\ future \in [Samples -> {"none", "pending", "value", "exception"}]
    BY <2>2 DEF Init
  <2> QED BY <2>1, <2>2, <2>3 DEF Init, TypeOK
<1>2. MainAt
  BY DEF Init, MainAt
<1>a. FuturesMade
  BY DEF Init, FuturesMade
<1>3. NoTaskLost /\ TasksPending /\ TaskOnce
  BY DEF Init, NoTaskLost, TasksPending, TaskOnce, Runs
<1>4. ExitLast
  BY DEF Init, ExitLast, NoReadAfterReturn
<1> QED BY <1>1, <1>2, <1>a, <1>3, <1>4 DEF BatchInv

\* enqueue: the new task is the last of the queue, and its future was not made.
LEMMA BatchEnqueue == BatchInv /\ Enqueue => BatchInv'
<1> USE BatchAssumption DEF Samples, InBatch
<1> SUFFICES ASSUME BatchInv, Enqueue PROVE BatchInv'
  OBVIOUS
<1> USE DEF BatchInv
<1>0. i \in Samples /\ i <= Batch /\ future[i] = "none" /\ ~stop
  BY DEF Enqueue, TypeOK, FuturesMade, MainAt
<1>a. \A k \in DOMAIN tasks : tasks[k] \in Samples /\ tasks[k] # i
  BY <1>0 DEF TypeOK, TasksPending
<1>b. \A w \in Threads : worker[w] = "run" => task[w] # i
  BY <1>0 DEF TypeOK, TasksPending
<1>c. /\ DOMAIN tasks' = 1..(Len(tasks) + 1) /\ DOMAIN tasks = 1..Len(tasks)
      /\ Len(tasks) \in Nat
      /\ tasks'[Len(tasks) + 1] = i /\ \A k \in DOMAIN tasks : tasks'[k] = tasks[k]
  BY <1>0 DEF Enqueue, TypeOK
<1>1. TypeOK'
  BY <1>0 DEF Enqueue, TypeOK
<1>2. MainAt'
  BY <1>0 DEF Enqueue, TypeOK, MainAt
<1>3. FuturesMade'
  BY <1>0 DEF Enqueue, TypeOK, FuturesMade
<1>4. NoTaskLost'
  <2> SUFFICES ASSUME NEW j \in Samples, future'[j] = "pending",
                      ~ \E k \in DOMAIN tasks' : tasks'[k] = j
               PROVE  \E w \in Threads : Runs(w, j)'
    BY DEF NoTaskLost
  <2>0. Len(tasks) + 1 \in DOMAIN tasks'
    BY <1>c
  <2>1. j # i /\ future[j] = "pending"
    BY <2>0, <1>0, <1>c DEF Enqueue, TypeOK
  <2>2. ~ \E k \in DOMAIN tasks : tasks[k] = j
    BY <1>c
  <2> QED BY <2>1, <2>2 DEF NoTaskLost, Runs, Enqueue
<1>5. TasksPending'
  BY <1>0, <1>a, <1>b, <1>c DEF Enqueue, TypeOK, TasksPending
<1>6. TaskOnce'
  <2>1. \A k, l \in DOMAIN tasks' : tasks'[k] = tasks'[l] => k = l
    BY <1>a, <1>c DEF TaskOnce
  <2>2. \A w \in Threads, k \in DOMAIN tasks' : worker'[w] = "run" => task'[w] # tasks'[k]
    BY <1>b, <1>c DEF TaskOnce, Enqueue
  <2> QED BY <2>1, <2>2 DEF TaskOnce, Enqueue
<1>7. ExitLast'
  BY <1>0 DEF ExitLast, NoReadAfterReturn, Enqueue
<1> QED BY <1>1, <1>2, <1>3, <1>4, <1>5, <1>6, <1>7

\* A step that leaves queue, tasks and futures alone, and neither starts nor
\* stops a task, keeps what is said of them.
LEMMA TasksKept ==
    ASSUME BatchInv, UNCHANGED <<tasks, task, future>>,
           \A w \in Threads : worker'[w] = "run" <=> worker[w] = "run"
    PROVE  NoTaskLost' /\ TasksPending' /\ TaskOnce'
<1>1. NoTaskLost'
  BY DEF BatchInv, NoTaskLost, Runs
<1>2. TasksPending'
  BY DEF BatchInv, TasksPending
<1>3. TaskOnce'
  BY DEF BatchInv, TaskOnce
<1> QED BY <1>1, <1>2, <1>3

\* The other steps of the calling thread, up to the stop.
LEMMA BatchNotify == BatchInv /\ Notify => BatchInv'
<1> USE BatchAssumption DEF Samples
<1> SUFFICES ASSUME BatchInv, Notify PROVE BatchInv'
  OBVIOUS
<1> USE DEF BatchInv
<1>0. \A w \in Threads : \/ worker'[w] = worker[w]
                         \/ worker[w] = "wait" /\ worker'[w] = "check"
  BY DEF Notify, Wake, Waiting, TypeOK
<1>a. worker' \in [Threads -> {"check", "wait", "run", "exit"}]
  BY DEF Notify, Wake, Waiting, TypeOK
<1>1. TypeOK'
  BY <1>a DEF Notify, TypeOK, MainAt
<1>2. MainAt'
  BY DEF Notify, TypeOK, MainAt
<1>3. FuturesMade'
  BY DEF Notify, TypeOK, FuturesMade
<1>4. NoTaskLost' /\ TasksPending' /\ TaskOnce'
  BY <1>0, TasksKept DEF Notify
<1>5. ExitLast'
  BY <1>0 DEF ExitLast, NoReadAfterReturn, Notify
<1> QED BY <1>1, <1>2, <1>3, <1>4, <1>5

LEMMA BatchCollect ==
    ASSUME BatchInv, Enqueued \/ Get \/ Got \/ Stop
    PROVE  BatchInv'
<1> USE BatchAssumption DEF Samples, InBatch, BatchInv
<1>0. UNCHANGED <<tasks, worker, task, future>>
  BY DEF Enqueued, Get, Got, Stop
<1>a. i' \in 1..(Batch + 1)
  BY DEF Enqueued, Get, Got, Stop, TypeOK
<1>c. stop' \in BOOLEAN
  BY DEF Enqueued, Get, Got, Stop, TypeOK
<1>b. batch_results' \in Seq(Samples)
  <2>1. CASE batch_results' = batch_results
    BY <2>1 DEF TypeOK
  <2>2. CASE i \in Samples /\ batch_results' = Append(batch_results, i)
    BY <2>2 DEF TypeOK
  <2> QED BY <2>1, <2>2 DEF Enqueued, Get, Got, Stop, TypeOK
<1>1. TypeOK'
  BY <1>0, <1>a, <1>b, <1>c DEF Enqueued, Get, Got, Stop, TypeOK
<1>2. MainAt'
  <2>1. CASE Enqueued
    BY <2>1 DEF Enqueued, TypeOK, MainAt
  <2>2. CASE Get
    <3>1. CASE future[i] = "value" /\ batch_results' = Append(batch_results, i)
               /\ i' = i + 1 /\ UNCHANGED pc
      <4>1. Len(batch_results) = i - 1 /\ Len(batch_results') = i
        BY <2>2, <3>1 DEF Get, TypeOK, MainAt
      <4>2. \A n \in DOMAIN batch_results' : batch_results'[n] = n
        BY <2>2, <3>1, <4>1 DEF Get, TypeOK, MainAt
      <4> QED BY <2>2, <3>1, <4>1, <4>2 DEF Get, TypeOK, MainAt
    <3>2. CASE future[i] = "exception" /\ pc' = "stop" /\ UNCHANGED <<batch_results, i>>
      BY <2>2, <3>2 DEF Get, TypeOK, MainAt
    <3> QED BY <2>2, <3>1, <3>2 DEF Get
  <2>3. CASE Got
    BY <2>3 DEF Got, TypeOK, MainAt
  <2>4. CASE Stop
    BY <2>4 DEF Stop, TypeOK, MainAt
  <2> QED BY <2>1, <2>2, <2>3, <2>4
<1>3. FuturesMade'
  BY DEF Enqueued, Get, Got, Stop, TypeOK, FuturesMade
<1>4. NoTaskLost' /\ TasksPending' /\ TaskOnce'
  BY <1>0, TasksKept
<1>5. ExitLast'
  BY <1>0 DEF ExitLast, NoReadAfterReturn, Enqueued, Get, Got, Stop
<1> QED BY <1>1, <1>2, <1>3, <1>4, <1>5

\* notify_all, and the join: nobody is left.
LEMMA BatchJoin ==
    ASSUME BatchInv, NotifyAll \/ Join
    PROVE  BatchInv'
<1> USE BatchAssumption DEF Samples, BatchInv
<1>0. \A w \in Threads : \/ worker'[w] = worker[w]
                         \/ worker[w] = "wait" /\ worker'[w] = "check"
  BY DEF NotifyAll, Join, Wake, Waiting, TypeOK
<1>a. worker' \in [Threads -> {"check", "wait", "run", "exit"}]
  BY DEF NotifyAll, Join, Wake, Waiting, TypeOK
<1>b. UNCHANGED <<i, batch_results, tasks, stop, task, future>>
  BY DEF NotifyAll, Join
<1>1. TypeOK'
  BY <1>a, <1>b DEF NotifyAll, Join, TypeOK
<1>2. MainAt'
  BY <1>b DEF NotifyAll, Join, TypeOK, MainAt
<1>3. FuturesMade'
  BY <1>b DEF NotifyAll, Join, TypeOK, FuturesMade
<1>4. NoTaskLost' /\ TasksPending' /\ TaskOnce'
  BY <1>0, <1>b, TasksKept
<1>5. ExitLast'
  BY <1>0, <1>b DEF ExitLast, NoReadAfterReturn, NotifyAll, Join, Joined
<1> QED BY <1>1, <1>2, <1>3, <1>4, <1>5

\* A thread waits, leaves, wakes up.
LEMMA BatchIdle ==
    ASSUME BatchInv, NEW w \in Threads,
           UNCHANGED <<main, tasks, stop, task, future>>,
           \/ worker[w] = "check" /\ worker' = [worker EXCEPT ![w] = "wait"]
           \/ worker[w] = "check" /\ worker' = [worker EXCEPT ![w] = "exit"] /\ MayLeave
           \/ worker[w] = "wait" /\ worker' = [worker EXCEPT ![w] = "check"]
    PROVE  BatchInv'
<1> USE DEF BatchInv, main
<1>1. TypeOK' /\ MainAt'
  BY DEF TypeOK, MainAt
<1>2. FuturesMade'
  BY DEF FuturesMade
<1>3. NoTaskLost' /\ TasksPending' /\ TaskOnce'
  BY TasksKept DEF TypeOK
<1>4. ExitLast'
  BY DEF ExitLast, NoReadAfterReturn, TypeOK, MayLeave
<1> QED BY <1>1, <1>2, <1>3, <1>4

\* A thread takes the first task of the queue.
LEMMA BatchTake ==
    ASSUME BatchInv, NEW w \in Threads, worker[w] = "check", tasks # <<>>,
           UNCHANGED <<main, stop, future>>,
           worker' = [worker EXCEPT ![w] = "run"],
           task' = [task EXCEPT ![w] = Head(tasks)], tasks' = Tail(tasks)
    PROVE  BatchInv'
<1> USE BatchAssumption DEF BatchInv, main, Samples
<1>0. /\ Len(tasks) \in Nat /\ Len(tasks) > 0 /\ DOMAIN tasks = 1..Len(tasks)
      /\ Head(tasks) = tasks[1] /\ Head(tasks) \in Samples
      /\ DOMAIN tasks' = 1..(Len(tasks) - 1)
      /\ \A k \in DOMAIN tasks' : k + 1 \in DOMAIN tasks /\ tasks'[k] = tasks[k + 1]
  BY DEF TypeOK
<1>1. TypeOK'
  BY <1>0 DEF TypeOK
<1>2. MainAt' /\ FuturesMade'
  BY DEF MainAt, FuturesMade
<1>3. NoTaskLost'
  <2> SUFFICES ASSUME NEW j \in Samples, future[j] = "pending"
               PROVE  (\E k \in DOMAIN tasks' : tasks'[k] = j) \/ (\E x \in Threads : Runs(x, j)')
    BY DEF NoTaskLost
  <2>1. CASE \E x \in Threads : Runs(x, j)
    <3> PICK x \in Threads : Runs(x, j)
      BY <2>1
    <3> QED BY DEF Runs, TypeOK
  <2>2. CASE \E k \in DOMAIN tasks : tasks[k] = j
    <3> PICK k \in DOMAIN tasks : tasks[k] = j
      BY <2>2
    <3>1. CASE k = 1
      BY <1>0, <3>1 DEF Runs, TypeOK
    <3>2. CASE k # 1
      <4>1. k - 1 \in DOMAIN tasks' /\ tasks'[k - 1] = j
        BY <1>0, <3>2
      <4> QED BY <4>1
    <3> QED BY <3>1, <3>2
  <2> QED BY <2>1, <2>2 DEF NoTaskLost
<1>b. \A x \in Threads : worker'[x] = "run" =>
        \/ x = w /\ task'[x] = tasks[1]
        \/ x # w /\ worker[x] = "run" /\ task'[x] = task[x]
  BY <1>0 DEF TypeOK
<1>4. TasksPending'
  BY <1>0, <1>b DEF TasksPending
<1>5. TaskOnce'
  <2>1. \A k, l \in DOMAIN tasks' : tasks'[k] = tasks'[l] => k = l
    BY <1>0 DEF TaskOnce
  <2>2. ASSUME NEW x \in Threads, NEW k \in DOMAIN tasks', worker'[x] = "run"
        PROVE  task'[x] # tasks'[k]
    BY <1>0, <1>b, <2>2 DEF TaskOnce
  <2>3. ASSUME NEW x \in Threads, NEW y \in Threads, worker'[x] = "run", worker'[y] = "run",
               task'[x] = task'[y]
        PROVE  x = y
    BY <1>0, <1>b, <2>3 DEF TaskOnce
  <2> QED BY <2>1, <2>2, <2>3 DEF TaskOnce
<1>6. ExitLast'
  BY DEF ExitLast, NoReadAfterReturn, TypeOK
<1> QED BY <1>1, <1>2, <1>3, <1>4, <1>5, <1>6

LEMMA BatchCheck == ASSUME BatchInv, NEW w \in Threads, Check(w) PROVE BatchInv'
BY BatchIdle, BatchTake DEF Check

LEMMA BatchSpurious == ASSUME BatchInv, NEW w \in Threads, Spurious(w) PROVE BatchInv'
<1>1. worker' = [worker EXCEPT ![w] = "check"]
  BY DEF Spurious, Wake, BatchInv, TypeOK
<1> QED BY <1>1, BatchIdle DEF Spurious

\* The future of a decoded sample is settled; it was pending, so no exception
\* is overwritten.
LEMMA BatchRun == ASSUME BatchInv, NEW w \in Threads, Run(w) PROVE BatchInv'
<1> USE BatchAssumption DEF BatchInv, main, Samples
<1> PICK r \in {"value", "exception"} : future' = [future EXCEPT ![task[w]] = r]
  BY DEF Run
<1>0. task[w] \in Samples /\ future[task[w]] = "pending"
  BY DEF Run, TasksPending
<1>1. TypeOK'
  BY <1>0 DEF Run, TypeOK
<1>2. MainAt'
  BY <1>0 DEF Run, MainAt, TypeOK
<1>3. FuturesMade'
  BY <1>0 DEF Run, FuturesMade, TypeOK
<1>4. NoTaskLost'
  <2> SUFFICES ASSUME NEW j \in Samples, future'[j] = "pending"
               PROVE  (\E k \in DOMAIN tasks : tasks[k] = j) \/ (\E x \in Threads : Runs(x, j)')
    BY DEF NoTaskLost, Run
  <2>1. j # task[w] /\ future[j] = "pending"
    BY <1>0 DEF TypeOK
  <2>2. CASE \E x \in Threads : Runs(x, j)
    <3> PICK x \in Threads : Runs(x, j)
      BY <2>2
    <3> QED BY <2>1 DEF Runs, Run, TypeOK
  <2> QED BY <2>1, <2>2 DEF NoTaskLost
<1>5. TasksPending'
  <2>1. ASSUME NEW k \in DOMAIN tasks' PROVE future'[tasks'[k]] = "pending"
    BY <1>0, <2>1 DEF TasksPending, TaskOnce, Run, TypeOK
  <2>2. ASSUME NEW x \in Threads, worker'[x] = "run"
        PROVE  task'[x] \in Samples /\ future'[task'[x]] = "pending"
    BY <1>0, <2>2 DEF TasksPending, TaskOnce, Run, TypeOK
  <2> QED BY <2>1, <2>2 DEF TasksPending
<1>6. TaskOnce'
  BY DEF TaskOnce, Run, TypeOK
<1>7. ExitLast'
  BY DEF ExitLast, NoReadAfterReturn, Run, TypeOK
<1> QED BY <1>1, <1>2, <1>3, <1>4, <1>5, <1>6, <1>7

LEMMA BatchStep == BatchInv /\ [Next]_vars => BatchInv'
<1> SUFFICES ASSUME BatchInv, [Next]_vars PROVE BatchInv'
  OBVIOUS
<1>1. CASE Main
  BY <1>1, BatchEnqueue, BatchNotify, BatchCollect, BatchJoin DEF Main
<1>2. ASSUME NEW w \in Threads, Check(w) \/ Run(w) \/ Spurious(w) PROVE BatchInv'
  BY <1>2, BatchCheck, BatchRun, BatchSpurious
<1>3. CASE UNCHANGED vars
  <2> USE <1>3 DEF vars, main, BatchInv
  <2>1. TypeOK' /\ MainAt' /\ FuturesMade'
    BY DEF TypeOK, MainAt, FuturesMade
  <2>2. NoTaskLost' /\ TasksPending' /\ TaskOnce'
    BY TasksKept
  <2>3. ExitLast'
    BY DEF ExitLast, NoReadAfterReturn
  <2> QED BY <2>1, <2>2, <2>3
<1> QED BY <1>1, <1>2, <1>3 DEF Next

\* Every reachable state of the batch call satisfies the inductive invariant.
THEOREM BatchInvariant == Spec => []BatchInv
BY BatchInit, BatchStep, PTL DEF Spec

\* Whatever order the threads decode in, result n of ctc_beam_search_decoder_batch
\* is that of sample n, and a return without all of them rethrew an exception.
THEOREM BatchOrdered == Spec => []ResultsInOrder
<1>1. BatchInv => ResultsInOrder
  BY DEF BatchInv, MainAt, ResultsInOrder
<1> QED BY <1>1, BatchInvariant, PTL

\* When the call ends, normally or by an exception, the destructor of the pool
\* has let every queued task run and every thread end.
THEOREM BatchSettled == Spec => []TasksSettled
<1>1. BatchInv => TasksSettled
  <2> SUFFICES ASSUME BatchInv, pc = "returned", NEW j \in Samples
               PROVE  future[j] \in {"value", "exception"}
    BY DEF BatchInv, ExitLast, TasksSettled, EveryTaskRuns
  <2>1. PICK w \in Threads : worker[w] = "exit"
    BY BatchAssumption DEF BatchInv, ExitLast, NoReadAfterReturn
  <2>2. tasks = <<>> /\ \A x \in Threads : worker[x] # "run"
    BY <2>1 DEF BatchInv, ExitLast, NoReadAfterReturn
  <2>3. future[j] # "none"
    BY DEF BatchInv, FuturesMade
  <2>4. future[j] # "pending"
    BY <2>2 DEF BatchInv, NoTaskLost, Runs
  <2> QED BY <2>3, <2>4 DEF BatchInv, TypeOK
<1> QED BY <1>1, BatchInvariant, PTL
=============================================================================
