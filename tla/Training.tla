------------------------------ MODULE Training ------------------------------
(***************************************************************************)
(* The optimisation loop of train() (train.py) with its checkpoints        *)
(* (checkpoints.py, and TensorFlow's Saver which stores them), over        *)
(* several runs of the program that may crash or be interrupted anywhere.  *)
(*                                                                         *)
(* The weights are abstracted to the validation loss they would score, so  *)
(* a checkpoint is a record of global step, that loss and the number of    *)
(* times the learning rate has been reduced.  Validation and metrics sets  *)
(* only read the weights.  All other data (batches, gradients) is left     *)
(* out.  Load and save directory may differ (transfer learning).           *)
(***************************************************************************)
EXTENDS Integers, Sequences, FiniteSets, Functions, SequencesExt

CONSTANTS
    Epochs,          \* each run's FLAGS.epochs
    Steps,           \* batches of one pass over the training set
    Losses,          \* finite validation losses
    NonFinite,       \* subset of {Infinite, NaN}: losses of a broken batch
    MinDelta,        \* FLAGS.es_min_delta
    EarlyStop, EsEpochs,
    ReduceLR, PlateauEpochs,
    MaxToKeep,       \* FLAGS.max_to_keep
    Methods,         \* each run's method_order (FLAGS.load_train)
    ForceLR,         \* FLAGS.force_initialize_learning_rate
    Source,          \* checkpoints of a separate load directory
    FeatureCache,    \* FLAGS.feature_cache is given
    CacheForEpochs,  \* settings of FLAGS.cache_for_epochs
    TimedEpochs,     \* bound: epochs in which a checkpoint may be due (checkpoint_secs)
    MaxRuns          \* bound on the runs of the program

Infinite == 1000     \* float('inf')
NaN      == -1
None     == <<>>     \* no checkpoint path
NoIndex  == -1       \* no index file of a feature cache

ASSUME TrainingAssumption ==
    /\ Steps \in Nat \ {0} /\ MaxRuns \in Nat \ {0} /\ Epochs \in [1..MaxRuns -> Nat]
    /\ Losses \subseteq 0..(Infinite - 1) /\ NonFinite \subseteq {Infinite, NaN}
    /\ MinDelta \in Nat /\ EsEpochs \in Nat /\ PlateauEpochs \in Nat \ {0}
    /\ MaxToKeep \in Nat /\ CacheForEpochs \subseteq Nat
    /\ {EarlyStop, ReduceLR, ForceLR, FeatureCache} \subseteq BOOLEAN
    /\ Methods \in [1..MaxRuns -> Seq({"best", "last", "init"})]
    /\ \A n \in {"train", "best_dev"} :
         Source[n] \subseteq [step : Nat, loss : Losses \cup NonFinite, lr : Nat]

VARIABLES
    same_dir,        \* load_checkpoint_dir = save_checkpoint_dir
    pc, ret,         \* location in train(), and where a save returns to
    runs, epoch, k,  \* run of the program, epoch, batches done in the epoch
    session,         \* variables of the TensorFlow session
    best_dev_loss, dev_losses, epochs_without_improvement,
    saving,          \* <<saver, step>> of the save under way
    kept, doomed,    \* each Saver's _last_checkpoints, _checkpoints_to_be_deleted
    files, latest,   \* disk: checkpoint files, and the state file per saver
    box,             \* ExceptionBox holds an exception of the generator
    cache_for_epochs,
    data,            \* batches the training set has in this epoch
    cached, age,     \* batches in the feature cache (disk); epochs its features served
    lock             \* disk: a killed process left the lockfile of the cache

loop  == <<best_dev_loss, dev_losses, epochs_without_improvement>>
saver == <<saving, kept, doomed, ret>>
disk  == <<files, latest>>
cache == <<cache_for_epochs, data, cached, age, lock>>
vars  == <<same_dir, pc, runs, epoch, k, session, loop, saver, disk, box, cache>>

Savers    == {"train", "best_dev"}
AllLosses == Losses \cup NonFinite
Fresh(l)  == [step |-> 0, loss |-> l, lr |-> 0]
SavePCs   == {"write", "state", "delete"}

\* Comparisons of Python floats.
Gt(a, b)   == a # NaN /\ a > b
Lt(a, b)   == a # NaN /\ a < b
Less(a)    == IF a = Infinite THEN Infinite ELSE a - MinDelta
-----------------------------------------------------------------------------
(* checkpoints.py *)

\* _checkpoint_path_or_none followed by load_checkpoint: the set holding the
\* checkpoint the state file in the load directory names, empty if there is none.
Loadable(name) ==
    IF ~same_dir THEN Source[name]
    ELSE IF latest[name] = None THEN {} ELSE {files[latest[name]]}

\* _load_or_init_impl: the first method that yields something; {} is sys.exit(1).
LoadOrInit(order) ==
    LET yields(m) == CASE m = "best" -> Loadable("best_dev")
                       [] m = "last" -> Loadable("train")
                       [] m = "init" -> {Fresh(l) : l \in AllLosses}
        usable    == {i \in DOMAIN order : yields(order[i]) # {}}
    IN  IF usable = {} THEN {}
        ELSE yields(order[CHOOSE i \in usable : \A j \in usable : i <= j])

\* load_or_init_graph_for_training.  Layers dropped from a source model are
\* initialised afresh, so its weights score some other loss.
Load ==
    /\ pc = "load"
    /\ IF LoadOrInit(Methods[runs]) = {}
       THEN pc' = "down" /\ UNCHANGED <<session, loop, epoch>>
       ELSE /\ \E c \in LoadOrInit(Methods[runs]) :
                  \E l \in IF same_dir THEN {c.loss} ELSE AllLosses :
                     session' = [c EXCEPT !.loss = l, !.lr = IF ForceLR THEN 0 ELSE @]
            /\ pc' = "epoch" /\ epoch' = 0
            /\ best_dev_loss' = Infinite /\ dev_losses' = <<>>
            /\ epochs_without_improvement' = 0
    /\ UNCHANGED <<same_dir, runs, k, saver, disk, box, cache>>

\* Fault: the best checkpoint keeps its old learning rate.
PlateauNoSave(s) == pc' = "epoch" /\ UNCHANGED <<saving, ret>>

\* reload_best_checkpoint, reduce_learning_rate_op, and the save of the result.
PlateauSave(s) ==
    /\ saving' = <<"best_dev", s.step>> /\ ret' = "epoch" /\ pc' = "write"

Reload ==
    /\ pc = "plateau"
    /\ IF LoadOrInit(<<"best">>) = {}
       THEN pc' = "down" /\ UNCHANGED <<session, saving, ret, epoch>>
       ELSE \E c \in LoadOrInit(<<"best">>) :
              /\ session' = [c EXCEPT !.lr = @ + 1]
              /\ PlateauSave(c)
              /\ epoch' = epoch + 1
    /\ UNCHANGED <<same_dir, runs, k, loop, kept, doomed, disk, box, cache>>
-----------------------------------------------------------------------------
(* Saver.save: the files, then the state file, then the surplus files. *)

Write ==
    /\ pc = "write" /\ pc' = "state"
    /\ files' = [p \in DOMAIN files \cup {saving} |-> IF p = saving THEN session ELSE files[p]]
    /\ UNCHANGED <<same_dir, runs, epoch, k, session, loop, saver, latest, box, cache>>

\* Fault: a path used again stays in the list.
RecordedTwice(list, p) == Append(list, p)

\* _RecordLastCheckpoint: a path used before leaves the list, the new one is put
\* at the end.
Recorded(list, p) ==
    LET at == {i \in DOMAIN list : list[i] = p}
    IN  Append(IF at = {} THEN list ELSE RemoveAt(list, CHOOSE i \in at : TRUE), p)

Limit(name)       == IF name = "train" THEN MaxToKeep ELSE 1

UpdateState ==
    LET name == saving[1]
        list == Recorded(kept[name], saving)
    IN  /\ pc = "state" /\ pc' = "delete"
        /\ latest' = [latest EXCEPT ![name] = saving]
        /\ IF Limit(name) = 0 THEN UNCHANGED <<kept, doomed>>
           ELSE IF Len(list) > Limit(name)
                THEN /\ kept' = [kept EXCEPT ![name] = Tail(list)]
                     /\ doomed' = <<Head(list)>>
                ELSE kept' = [kept EXCEPT ![name] = list] /\ UNCHANGED doomed
        /\ UNCHANGED <<same_dir, runs, epoch, k, session, loop, saving, ret, files, box, cache>>

\* _MaybeDeleteOldCheckpoints
DeleteOld ==
    /\ pc = "delete" /\ pc' = ret
    /\ files' = Restrict(files, DOMAIN files \ Range(doomed))
    /\ doomed' = <<>>
    /\ UNCHANGED <<same_dir, runs, epoch, k, session, loop, saving, kept, ret, latest, box, cache>>
-----------------------------------------------------------------------------
(* run_set *)

InRange == epoch < Epochs[runs]

\* Fault: only the first epoch of a run invalidates.
ExpiredOnce == cache_for_epochs > 0 /\ epoch = 0
Expired == cache_for_epochs > 0 /\ epoch % cache_for_epochs = 0

\* Start of an epoch: the feature cache is invalidated.  An index that is still
\* there serves what it holds, otherwise the generator runs and its features are
\* cached, which the lockfile of a process that was killed there prevents.
EpochStart ==
    LET index == IF Expired THEN NoIndex ELSE cached
    IN  /\ pc = "epoch"
        /\ IF InRange
           THEN /\ k' = 0 /\ cached' = index
                /\ \/ index # NoIndex /\ data' = index /\ age' = age + 1 /\ pc' = "batch"
                   \/ index = NoIndex /\ ~lock /\ data' = Steps /\ age' = 1 /\ pc' = "batch"
                   \/ index = NoIndex /\ lock /\ pc' = "down" /\ UNCHANGED <<data, age>>
                /\ UNCHANGED <<cache_for_epochs, lock>>
           ELSE pc' = "done" /\ UNCHANGED <<k, cache>>
        /\ UNCHANGED <<same_dir, runs, epoch, session, loop, saver, disk, box>>

\* One batch.  global_step is fetched together with the update that increments
\* it, so the step in the name of a timed checkpoint may be the one before.
Batch ==
    /\ pc = "batch" /\ k < data
    /\ k' = k + 1
    /\ \E l \in AllLosses : session' = [session EXCEPT !.step = @ + 1, !.loss = l]
    /\ \/ box /\ pc' = "down" /\ UNCHANGED <<saving, ret>>
       \/ ~box /\ pc' = "batch" /\ UNCHANGED <<saving, ret>>
       \/ /\ ~box /\ epoch \in TimedEpochs
          /\ \E s \in {session.step, session.step + 1} : saving' = <<"train", s>>
          /\ ret' = "batch" /\ pc' = "write"
    /\ UNCHANGED <<same_dir, runs, epoch, loop, kept, doomed, disk, box, cache>>

\* A training pass is under way.
InPass == pc = "batch" \/ (pc \in SavePCs /\ ret = "batch")

\* The generator raises: remember_exception ends the data early.  It does not run
\* in an epoch that the feature cache serves, nor once its features are cached.
GeneratorFails ==
    /\ ~box /\ box' = TRUE
    /\ \/ pc = "dev" /\ UNCHANGED data
       \/ InPass /\ cached = NoIndex /\ data' \in k..Steps
    /\ UNCHANGED <<same_dir, pc, runs, epoch, k, session, loop, saver, disk,
                   cache_for_epochs, cached, age, lock>>

\* The generator's end reaches dataset.cache, on a thread that prefetches: the
\* index is written, whether the data ended regularly or by an exception.
CacheFinish ==
    /\ FeatureCache /\ InPass /\ cached = NoIndex
    /\ cached' = data
    /\ UNCHANGED <<same_dir, pc, runs, epoch, k, session, loop, saver, disk, box,
                   cache_for_epochs, data, age, lock>>

\* All batches are through, and with them the end of the data.
PassOver == k = data /\ (FeatureCache => cached # NoIndex)

\* Fault: no raise_if_set when the data ends.
EpochEndQuiet ==
    /\ pc = "batch" /\ PassOver
    /\ saving' = <<"train", session.step>> /\ ret' = "dev" /\ pc' = "write"
    /\ UNCHANGED <<same_dir, runs, epoch, k, session, loop, kept, doomed, disk, box, cache>>

\* OutOfRangeError ends the pass; raise_if_set; the epoch's checkpoint.
EpochEnd ==
    /\ pc = "batch" /\ PassOver
    /\ IF box THEN pc' = "down" /\ UNCHANGED <<saving, ret>>
       ELSE saving' = <<"train", session.step>> /\ ret' = "dev" /\ pc' = "write"
    /\ UNCHANGED <<same_dir, runs, epoch, k, session, loop, kept, doomed, disk, box, cache>>

\* Fault: the best model is the one that improved by es_min_delta.
NewBestByDelta(dev_loss) == ~Gt(dev_loss, Less(best_dev_loss))

\* Validation, the count of epochs without improvement, the new best model.
Counted(dev_loss) ==
    IF Gt(dev_loss, Less(best_dev_loss)) THEN epochs_without_improvement + 1 ELSE 0

NewBest(dev_loss) == Lt(dev_loss, best_dev_loss)

Validate ==
    /\ pc = "dev"
    /\ IF box THEN pc' = "down" /\ UNCHANGED <<saving, ret, loop>>
       ELSE LET dev_loss == session.loss
            IN  /\ dev_losses' = Append(dev_losses, dev_loss)
                /\ epochs_without_improvement' = Counted(dev_loss)
                /\ IF NewBest(dev_loss)
                   THEN /\ best_dev_loss' = dev_loss
                        /\ saving' = <<"best_dev", session.step>>
                        /\ ret' = "stop" /\ pc' = "write"
                   ELSE pc' = "stop" /\ UNCHANGED <<best_dev_loss, saving, ret>>
    /\ UNCHANGED <<same_dir, runs, epoch, k, session, kept, doomed, disk, box, cache>>

\* Fault: off by one.
StopLate == EarlyStop /\ epochs_without_improvement > EsEpochs

\* Early stopping, or a plateau, or the next epoch.
StopNow == EarlyStop /\ epochs_without_improvement = EsEpochs
Plateau == /\ ReduceLR /\ epochs_without_improvement > 0
           /\ epochs_without_improvement % PlateauEpochs = 0

Decide ==
    /\ pc = "stop"
    /\ \/ StopNow /\ pc' = "done" /\ UNCHANGED epoch
       \/ ~StopNow /\ Plateau /\ pc' = "plateau" /\ UNCHANGED epoch
       \/ ~StopNow /\ ~Plateau /\ pc' = "epoch" /\ epoch' = epoch + 1
    /\ UNCHANGED <<same_dir, runs, k, session, loop, saver, disk, box, cache>>
-----------------------------------------------------------------------------
(* The process dies, is interrupted (KeyboardInterrupt), and is run again. *)

\* What a process keeps in memory.
Forget ==
    /\ saving' = None /\ kept' = [n \in Savers |-> <<>>] /\ doomed' = <<>> /\ ret' = "load"
    /\ epoch' = 0 /\ k' = 0 /\ data' = 0 /\ session' = Fresh(Infinite) /\ box' = FALSE
    /\ best_dev_loss' = Infinite /\ dev_losses' = <<>> /\ epochs_without_improvement' = 0

\* Killed while features are being cached, the process may leave the lockfile.
Crash ==
    /\ pc \notin {"down", "done"} /\ pc' = "down"
    /\ Forget
    /\ IF FeatureCache /\ InPass /\ cached = NoIndex THEN lock' \in BOOLEAN ELSE UNCHANGED lock
    /\ UNCHANGED <<same_dir, runs, disk, cache_for_epochs, cached, age>>

Interrupt ==
    /\ pc \notin {"load", "down", "done"} /\ pc' = "done"
    /\ Forget
    /\ UNCHANGED <<same_dir, runs, disk, cache_for_epochs, cached, age, lock>>

\* A new process: everything but the disk starts afresh.
Restart ==
    /\ pc \in {"down", "done"} /\ runs < MaxRuns
    /\ runs' = runs + 1 /\ pc' = "load"
    /\ Forget
    /\ UNCHANGED <<same_dir, disk, cache_for_epochs, cached, age, lock>>

Init ==
    /\ same_dir \in BOOLEAN
    /\ pc = "load" /\ ret = "load" /\ runs = 1 /\ epoch = 0 /\ k = 0
    /\ session = Fresh(Infinite)
    /\ best_dev_loss = Infinite /\ dev_losses = <<>> /\ epochs_without_improvement = 0
    /\ saving = None /\ kept = [n \in Savers |-> <<>>] /\ doomed = <<>>
    /\ files = [p \in {} |-> Fresh(0)] /\ latest = [n \in Savers |-> None]
    /\ box = FALSE
    /\ cache_for_epochs \in CacheForEpochs /\ data = 0 /\ cached = NoIndex /\ age = 0 /\ lock = FALSE

Next == Load \/ EpochStart \/ Batch \/ EpochEnd \/ Validate \/ Decide \/ Reload
        \/ Write \/ UpdateState \/ DeleteOld
        \/ GeneratorFails \/ CacheFinish \/ Crash \/ Interrupt \/ Restart

Spec == Init /\ [][Next]_vars
-----------------------------------------------------------------------------
(* Properties *)

\* The variables of the loop, the savers and the disk have their types; losses
\* that were never measured are not saved.
TypeOK ==
    /\ pc \in {"load", "epoch", "batch", "dev", "stop", "plateau", "done", "down"} \cup SavePCs
    /\ ret \in {"load", "batch", "dev", "stop", "epoch"}
    /\ runs \in 1..MaxRuns /\ epoch \in 0..Epochs[runs] /\ k \in 0..Steps
    /\ session.loss \in AllLosses \cup {Infinite} /\ session.step \in Nat /\ session.lr \in Nat
    /\ best_dev_loss \in AllLosses \cup {Infinite}
    /\ \A p \in DOMAIN files : p[1] \in Savers /\ files[p].loss \in AllLosses
    /\ box \in BOOLEAN /\ lock \in BOOLEAN /\ data \in 0..Steps /\ cached \in NoIndex..Steps

\* A checkpoint state file only ever names files that exist, wherever in a save
\* the process dies, and although a plateau takes the global step back, so that
\* names of earlier checkpoints are used again while surplus ones are deleted.
StateNamesFiles == \A n \in Savers : latest[n] # None => latest[n] \in DOMAIN files

\* Session, counters and checkpoints have their types, and the state files name
\* checkpoints that are there.
CheckpointInv ==
    /\ TypeOK
    /\ StateNamesFiles

Running    == pc \notin {"load", "down", "done"}
SavingBest == pc \in {"write", "state"} /\ saving[1] = "best_dev"
Finite     == Range(dev_losses) \cap Losses

\* While a run trains, the best_dev checkpoint on disk holds the weights with the
\* lowest validation loss of this run, also after plateaus rewrote it (from the
\* same directory: with two of them a plateau puts the source model there).
BestIsBest ==
    same_dir /\ Running /\ ~SavingBest /\ Finite # {} =>
        /\ latest["best_dev"] # None
        /\ files[latest["best_dev"]].loss = best_dev_loss
        /\ best_dev_loss \in Finite /\ \A l \in Finite : best_dev_loss <= l

\* A plateau finds a best checkpoint to reload: the run never ends in
\* "All initialization methods failed" although training itself went well,
\* unless a load directory of its own has no best checkpoint.
PlateauFindsBest ==
    pc = "plateau" /\ (same_dir \/ Source["best_dev"] # {}) => LoadOrInit(<<"best">>) # {}

\* The best checkpoint is the best of the run and is there when a plateau needs
\* it, with losses that are infinite or not a number among the others.
BestKept ==
    /\ BestIsBest
    /\ PlateauFindsBest

\* A plateau goes on from the weights that scored the best loss of the run, if
\* they are loaded from where they were saved.
PlateauUsesBestWeights ==
    [][same_dir /\ pc = "plateau" /\ pc' \notin {"down", "done"} => session'.loss = best_dev_loss]_vars

\* Every plateau reduces the learning rate in use once more, although it first
\* goes back to a checkpoint saved under an earlier learning rate.
PlateauLowersRate ==
    [][same_dir /\ pc = "plateau" /\ pc' \notin {"down", "done"} => session'.lr = session.lr + 1]_vars

\* A plateau trains on with the best weights of the run at a lower rate.
PlateauRestarts ==
    /\ PlateauUsesBestWeights
    /\ PlateauLowersRate

Improves(i) ==
    /\ dev_losses[i] \in Losses
    /\ \A j \in 1..(i - 1) : dev_losses[j] \in Losses => dev_losses[i] < dev_losses[j] - MinDelta

\* Some loss is lower than an earlier one by es_min_delta exactly.
OnTheEdge ==
    \E i \in DOMAIN dev_losses : \E j \in 1..(i - 1) : dev_losses[i] = dev_losses[j] - MinDelta

\* With early stopping no epoch starts after es_epochs epochs in a row of which
\* none improved on all earlier ones by more than es_min_delta, as long as the
\* losses are finite (a NaN compares as no deterioration) and no improvement is
\* es_min_delta exactly: that one counts, although the comment at the comparison
\* says it has to be greater.
EarlyStopInTime ==
    pc = "batch" /\ EarlyStop /\ 0 < EsEpochs /\ EsEpochs <= Len(dev_losses)
    /\ Range(dev_losses) \subseteq Losses /\ ~OnTheEdge =>
        \E i \in (Len(dev_losses) - EsEpochs + 1)..Len(dev_losses) : Improves(i)

\* Nothing ever removes the feature cache an earlier run left behind, and it
\* serves this epoch.
Inherited == cache_for_epochs = 0 /\ runs > 1 /\ age > 1

\* An epoch the generator cut short by an exception is never validated nor
\* becomes the checkpoint of that epoch, and with an expiring cache, or in a
\* first run, no later epoch is short because of it: the cache the failure
\* finished is gone before it could serve.  An inherited cache may hold such a
\* short epoch; then it is trained on as far as it goes.
EpochsWhole ==
    (pc \in SavePCs /\ ret = "dev") \/ pc = "dev" =>
        k = IF Inherited THEN cached ELSE Steps

\* Cached features serve at most cache_for_epochs epochs, across restarts too.
CacheExpires == FeatureCache /\ cache_for_epochs > 0 => age <= cache_for_epochs
=============================================================================
