---------------------------- MODULE LimitingPool ----------------------------
(***************************************************************************)
(* Augmentation of training samples in a pool of processes                 *)
(* (apply_sample_augmentations): LimitingPool around multiprocessing.Pool, *)
(* whose feeder thread pulls samples through _limit, and the Overlay       *)
(* augmentation, whose own process fills a bounded queue the workers take  *)
(* from.  Samples are the numbers 1..Items.  multiprocessing is external:  *)
(* a task queue, workers, and results handed out in order.                 *)
(*                                                                         *)
(* `processed' is incremented on the feeder thread and decremented by the  *)
(* caller without a lock.  preemptible says whether the interpreter may    *)
(* switch threads between the load and the store of such a statement.      *)
(***************************************************************************)
EXTENDS Integers, Sequences, FiniteSets

CONSTANTS
    Items,        \* number of samples
    Ahead,        \* process_ahead
    Workers,      \* worker processes
    QueueSize     \* size of the overlay queue

ASSUME PoolAssumption ==
    /\ Items \in Nat /\ Ahead \in Nat \ {0} /\ QueueSize \in Nat \ {0}
    /\ IsFiniteSet(Workers)

VARIABLES
    preemptible,
    processed,          \* LimitingPool.processed
    fpc, ftmp,          \* feeder thread in _limit, and its loaded value
    handed,             \* samples given to the pool
    cpc, ctmp,          \* caller in imap, and its loaded value
    consumed,           \* samples the caller got
    tasks,              \* the pool's task queue
    work,               \* per worker: <<location, sample>>
    results, failed,    \* finished samples; those whose augmentation raised
    overlays, enqueuing \* filling of the overlay queue; its process fills it

feeder == <<fpc, ftmp, handed>>
caller == <<cpc, ctmp, consumed>>
aug    == <<overlays, enqueuing>>
pool   == <<tasks, work, results, failed>>
vars   == <<preemptible, processed, feeder, caller, pool, aug>>

Idle == <<"idle", 0>>
-----------------------------------------------------------------------------
(* _limit, run by the pool's feeder thread *)

\* Fault: one sample more than allowed.
MayProceedMore == processed <= Ahead
MayProceed == processed < Ahead

\* `for obj in it', `while self.processed >= self.process_ahead: sleep'
Limit ==
    /\ fpc = "test" /\ handed < Items
    /\ MayProceed
    /\ fpc' = "inc"
    /\ UNCHANGED <<preemptible, processed, ftmp, handed, caller, pool, aug>>

\* `self.processed += 1'; `yield obj' hands the sample over.
HandOver(p) ==
    /\ processed' = p
    /\ handed' = handed + 1 /\ fpc' = "put"

Increment ==
    /\ fpc = "inc" /\ ~preemptible
    /\ HandOver(processed + 1)
    /\ UNCHANGED <<preemptible, ftmp, caller, pool, aug>>

LoadInc ==
    /\ fpc = "inc" /\ preemptible
    /\ ftmp' = processed /\ fpc' = "store"
    /\ UNCHANGED <<preemptible, processed, handed, caller, pool, aug>>

StoreInc ==
    /\ fpc = "store"
    /\ HandOver(ftmp + 1)
    /\ UNCHANGED <<preemptible, ftmp, caller, pool, aug>>

\* External: the feeder queues the task.
Put ==
    /\ fpc = "put" /\ fpc' = "test"
    /\ tasks' = Append(tasks, handed)
    /\ UNCHANGED <<preemptible, processed, ftmp, handed, caller, work, results, failed, aug>>

Feeder == Limit \/ Increment \/ LoadInc \/ StoreInc \/ Put
-----------------------------------------------------------------------------
(* The workers: _load_and_augment_sample with an Overlay augmentation *)

\* External: a free worker takes the next task.
TakeTask(w) ==
    /\ work[w] = Idle /\ tasks # <<>>
    /\ work' = [work EXCEPT ![w] = <<"overlay", Head(tasks)>>]
    /\ tasks' = Tail(tasks)
    /\ UNCHANGED <<preemptible, processed, feeder, caller, results, failed, aug>>

\* Overlay.apply: blocks until the queue has an overlay sample (one layer, and
\* overlay samples as long as the samples).
Overlay(w) ==
    /\ work[w][1] = "overlay" /\ overlays > 0
    /\ overlays' = overlays - 1
    /\ work' = [work EXCEPT ![w] = <<"finish", @[2]>>]
    /\ UNCHANGED <<preemptible, processed, feeder, caller, tasks, results, failed, enqueuing>>

\* External: the result reaches the iterator, a value or an exception.
Finish(w) ==
    /\ work[w][1] = "finish"
    /\ results' = results \cup {work[w][2]}
    /\ failed' \in {failed, failed \cup {work[w][2]}}
    /\ work' = [work EXCEPT ![w] = Idle]
    /\ UNCHANGED <<preemptible, processed, feeder, caller, tasks, aug>>

\* _enqueue_overlay_samples: queue.put, over and over again.
Enqueue ==
    /\ enqueuing /\ overlays < QueueSize
    /\ overlays' = overlays + 1
    /\ UNCHANGED <<preemptible, processed, feeder, caller, pool, enqueuing>>

\* The process puts nothing any more: samples_from_source or a sample raised and
\* it died, or the source is empty and it loops.  Nobody looks after it.
EnqueueFails ==
    /\ enqueuing /\ enqueuing' = FALSE
    /\ UNCHANGED <<preemptible, processed, feeder, caller, pool, overlays>>
-----------------------------------------------------------------------------
(* imap and apply_sample_augmentations, run by the caller *)

\* The finally of apply_sample_augmentations: Overlay.stop for every augmentation.
Leave(l) == cpc' = l /\ enqueuing' = FALSE

\* The pool's iterator yields results in the order of the tasks; an exception
\* of the worker is raised here and ends the iteration.
NextResult ==
    /\ cpc = "next"
    /\ \/ /\ consumed + 1 \in results \ failed
          /\ cpc' = "dec" /\ UNCHANGED enqueuing
       \/ consumed + 1 \in results \cap failed /\ Leave("raised")
       \/ consumed = Items /\ Leave("end")
    /\ UNCHANGED <<preemptible, processed, feeder, ctmp, consumed, pool, overlays>>

\* Fault: never decremented.
GiveNoDecrement(p) == consumed' = consumed + 1 /\ cpc' = "next" /\ UNCHANGED processed

\* `self.processed -= 1'; `yield obj'.
Give(p) ==
    /\ processed' = p
    /\ consumed' = consumed + 1 /\ cpc' = "next"

Decrement ==
    /\ cpc = "dec" /\ ~preemptible
    /\ Give(processed - 1)
    /\ UNCHANGED <<preemptible, feeder, ctmp, pool, aug>>

LoadDec ==
    /\ cpc = "dec" /\ preemptible
    /\ ctmp' = processed /\ cpc' = "store"
    /\ UNCHANGED <<preemptible, processed, feeder, consumed, pool, aug>>

StoreDec ==
    /\ cpc = "store"
    /\ Give(ctmp - 1)
    /\ UNCHANGED <<preemptible, feeder, ctmp, pool, aug>>

\* The caller stops iterating (enough samples): the generators are closed,
\* LimitingPool.__exit__ closes the pool for new tasks.
Abandon ==
    /\ cpc = "next" /\ consumed > 0
    /\ Leave("closed")
    /\ UNCHANGED <<preemptible, processed, feeder, ctmp, consumed, pool, overlays>>

Caller == NextResult \/ Decrement \/ LoadDec \/ StoreDec

Init ==
    /\ preemptible \in BOOLEAN
    /\ processed = 0
    /\ fpc = "test" /\ ftmp = 0 /\ handed = 0
    /\ cpc = "next" /\ ctmp = 0 /\ consumed = 0
    /\ tasks = <<>> /\ work = [w \in Workers |-> Idle] /\ results = {} /\ failed = {}
    /\ overlays = 0 /\ enqueuing = TRUE

Worker(w) == TakeTask(w) \/ Overlay(w) \/ Finish(w)

Next == Feeder \/ Caller \/ Abandon \/ Enqueue \/ EnqueueFails \/ \E w \in Workers : Worker(w)

\* Threads and processes are scheduled, and the caller goes on iterating unless
\* it abandons the iteration.  Nothing is assumed of the overlay process once it
\* failed.
Fairness ==
    /\ WF_vars(Feeder) /\ WF_vars(Caller) /\ WF_vars(Enqueue)
    /\ \A w \in Workers : WF_vars(Worker(w))

Spec == Init /\ [][Next]_vars /\ Fairness
-----------------------------------------------------------------------------
(* Properties *)

\* Program counters, counts and queues have their types; the overlay queue
\* neither overflows nor is read when it is empty.
TypeOK ==
    /\ processed \in Int /\ ftmp \in Int /\ ctmp \in Int
    /\ fpc \in {"test", "inc", "store", "put"}
    /\ cpc \in {"next", "dec", "store", "raised", "end", "closed"}
    /\ handed \in 0..Items /\ consumed \in 0..Items
    /\ failed \subseteq results /\ results \subseteq 1..Items /\ overlays \in 0..QueueSize /\ enqueuing \in BOOLEAN

Buffer == INSTANCE BoundedAhead WITH limit <- IF preemptible THEN Items ELSE Ahead

\* The pool with its feeder thread, workers and counter implements the bounded
\* buffer its caller relies on: at most process_ahead samples are handed to the
\* pool and not yet consumed, as long as no update of the counter is lost, and
\* they come back in order in any case.  The overlay queue is bounded as well
\* (TypeOK).
ImplementsBuffer == []TypeOK /\ Buffer!Spec

Ended == cpc \in {"raised", "end", "closed"}

\* As long as the overlay process fills its queue, the iteration comes to its
\* end, by the last sample, by the exception of a bad one or because the caller
\* has enough: neither the limit nor the overlay queue leaves everyone waiting,
\* not even when updates of the counter are lost.  If the overlay process fails,
\* the workers may wait in queue.get for ever; nothing is claimed then.
IterationEnds == [](enqueuing \/ Ended) => <>Ended
=============================================================================
