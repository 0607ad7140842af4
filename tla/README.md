# A verification project for the DeepSpeech inference engine

TLA+ models of the native client of DeepSpeech (`native_client/`), of the parts
of its training code that keep state, and of two of its callers, checked by TLC
on small instances. Nearly all of their safety properties are also proved, by
TLAPS, for every instance.

## 1. Inventory

The repository is a speech-to-text engine. A C library (`native_client/`) loads
an acoustic model (TensorFlow or TFLite) and an optional language model, and
turns 16-bit audio into text; Python code (`training/`) trains and exports the
acoustic model; bindings and Android demos call the C library.

| Part | State | Operations | Interacts with |
|---|---|---|---|
| Streaming pipeline, `deepspeech.cc` | `audio_buffer_`, `mfcc_buffer_`, `batch_buffer_`, LSTM state, decoder | create, feed, intermediate decode, finish, free, `DS_SpeechToText` | calls the back end and the decoder synchronously on the caller's thread |
| Decoder, `ctcdecode/ctc_beam_search_decoder.cpp` | beam `prefixes_`, time, `start_expanding_` | `init`, `next`, `decode` | owns a prefix trie, shares a scorer |
| Prefix trie, `ctcdecode/path_trie.*` | nodes with probabilities, `exists_`, timesteps tree | `get_path_trie`, `iterate_to_vec`, `remove` | raw pointers held by the decoder |
| Back ends, `tfmodelstate.cc`, `tflitemodelstate.cc` | session or interpreter with its tensors | `init`, `compute_mfcc`, `infer` | one per model, shared by all its streams |
| Model API, `deepspeech.cc` | model, scorer, hot words, beam width | `DS_CreateModel` ... `DS_FreeModel` | streams hold a raw pointer to the model and share the scorer |
| Scorer, `ctcdecode/scorer.cpp` | language model, dictionary, alpha, beta | load, boundary test, n-gram, conditional probability | called from inside the beam search |
| Alphabet, `alphabet.cc` | label table, space label | load, (de)serialize, encode, decode | everywhere |
| Batch decoding, `ctc_beam_search_decoder_batch`, `ThreadPool.h` | task queue, futures | one decode per sample | threads share a scorer and the caller's buffer |
| Training loop, `train.py`, `checkpoints.py` | best loss, counters, checkpoints on disk | epoch, validate, save, reload | restarts from checkpoints |
| Data feeding, `util/helpers.py`, `util/augmentations.py` | `LimitingPool.processed`, overlay queue | `imap`, `_limit`, `apply` | pool threads and processes |
| Sample DB, `util/sample_collections.py` | file, offsets | `add`, `close`, read | writer and reader agree on the layout |
| Voice activity splitting, `util/audio.py` | ring buffer, collected frames | one frame | `transcribe.py` sorts its segments |
| Python binding, `python/__init__.py` | `_impl` of models and streams | stream methods, `__del__` | releases the interpreter lock in native calls |
| Android streaming demo | recorder thread, UI thread, `streamContext` | start, stop, destroy | calls the API from several threads |

What is hard here: audio cut arbitrarily into calls against three buffers of
different sizes; interpreter runs that fail and are only printed; tensors that
keep the data of another stream; raw pointers into a trie that is pruned in an
unspecified order; dynamic-programming bookkeeping (timesteps) that depends on
the order of the loops; words that must be scored once, now or at the end;
training that dies between any two steps and goes on from what is on disk;
counters and pointers shared between threads without a lock. Every hazard is listed with its line, and the
properties that watch it, in `PROJECT.json`.

What makes each part correct: the pipeline transcribes every window once, in
order and with the right context; the beam search computes CTC probabilities
and one increasing time per token, on a trie without dangling or dead nodes;
a stream gets from a shared back end what it would get from its own; training
never loses its best model and stops when it should; a caller's threads never
use what another has freed.

## 2. Modules

| Module | Models | Checked by | Proved in |
|---|---|---|---|
| `StreamingState` | one stream and its calls | `stream` | `StreamingStateProofs` |
| `ModelApi` | the calls on a model and what its streams share | `api` | `ModelApiProofs` |
| `PathTrie` | the prefix trie, as operators | `decoder` | `DecoderStateProofs` |
| `Scorer` | dictionary, n-grams and word scores, as operators | `decoder` | `DecoderStateProofs` |
| `DecoderState` | the beam search, extends `PathTrie` and `Scorer` | `decoder` | `DecoderStateProofs` |
| `BatchDecode` | batch decoding on a thread pool | `batch` | `BatchDecodeProofs` |
| `ModelBackend` | both back ends under several streams | `backend`, `backend_flush` | `BackendProofs` |
| `ExecPlan` | the search for the execution plan of the MFCC nodes | `exec_plan` | `BackendProofs` |
| `PythonStream` | the Python objects over native pointers | `python` | `ClientProofs` |
| `StreamingDemo` | the Android demo, a caller with several threads | `demo` | `ClientProofs` |
| `Training` | the training loop and its checkpoints, over restarts | `training` | `TrainingProofs` |
| `BoundedAhead` | abstract: a buffer of bounded size | (refined by `LimitingPool`) | `DataProofs` |
| `LimitingPool` | the pool of augmentation workers | `pool` | `DataProofs` |
| `Alphabet` | the alphabet from its file to the client | `data` | `DataProofs` |
| `SampleDB` | the Sample DB file, writer and reader | `data` | `DataProofs` |
| `VadSplit` | cutting a recording into segments of speech | `data` | `DataProofs` |
| `DataFormats` | the last three side by side, an execution runs one of them | `data` | `DataProofs` |

`MC*.tla` instantiate them; the `.cfg` files give the constants. There is one
run per module or group: what distinguishes one use of a module from another
(the back end, the arguments of a decoder, whether a user is patient) is a
variable that `Init` chooses and no action changes, so a run covers every use
and a property says for which it holds. The invariants are conjunctions of
named parts (`TrieInv`, `WindowInv`, `TasksSettled`, ...) that begin with the
module's `TypeOK`; the README speaks of the parts. Definitions
whose comment starts with "Fault:" are not part of a specification: each is a
plausible bug in the definition that follows it, and TLC refutes one property
when it takes that definition's place.

### StreamingState

A variable per field of `struct StreamingState`, plus `pc`, `todo` and `zeros`
for the position inside a call and the histories `fed`, `windows` and
`failures`. A sample is its position, a frame is the samples it was computed
from, a timestep is the sequence of its `2*n_context+1` frames, the decoder
state is the sequence of timesteps it was given. So the properties can say
exactly which audio each timestep covers. `feedAudioContent` is three actions
(`PushSample`, `ProcessFullWindow`, `FeedReturn`), `finalizeStream` three more
(`FlushAudio`, `addZeroMfccWindow`, `ProcessFinalBatch`, which also does the
final decode and the free). `processAudioWindow` and `processBatch` have a
second outcome, the run that fails. The `_WithMetadata` calls take the same
path and differ in the conversion of the result only.

Run `stream` (`audio_win_len` 3, `audio_win_step` 2, `n_context` 1, `n_steps`
2, 12 samples, 2 failures): overlapping windows, context on both sides, six
windows, so that several batches fill and the last one is partial or empty
depending on the length of the audio. `StreamInv` (with its parts `TypeOK`,
`BuffersBounded`, `AudioContiguous` and `TimestepsCentred`) and
`FinishDecodesAll`; `CentresAdvance` (errors drop but never repeat or reorder)
and `TranscriptExtends`; `CallsReturn`, which alone is not proved. Fairness: weak fairness of `Step`, the continuation of a call that has
begun on the caller's thread; the calls themselves are not fair.

### ModelApi

The fields of `ModelState` that calls change, the `Scorer` objects on the heap
with the use counts of their `shared_ptr` (external), and per stream what
`DS_CreateStream` hands to `DecoderState::init`: a copy of beam width and hot
words, and a share of the scorer. A freed scorer's memory may be given to the
next one, so a pointer kept without a share would be seen to change. A call
that fails is an action of its own, or the error branch of its action. A client
may free a stream whose model is gone but not use it (`stage` "orphan").

Run `api` (2 streams, memory for 4 scorers, 2 scorer files, 2 settings of alpha
and beta, 1 hot word with 2 boosts): two streams and the model can hold three
different scorers while a fourth is loaded, so allocation never blocks. The beam
width is a plain copy and has one value. The names are interchangeable, and all
properties treat them so (symmetry). The types and the inductive invariant
`ApiInv` are proved, not checked again.

### PathTrie, Scorer and DecoderState

A trie node is named by its path, so parent and children need no pointers and
"dangling" is membership in the domain of `trie`. Probabilities are natural
numbers instead of logarithms: `-NUM_FLT_INF` is 0, addition of logarithms is
multiplication, `log_sum_exp` is addition; rows are not normalised, and the
0.999 of the delayed expansion is the ratio `QuietNum/QuietDen`. Rounding of
floats is therefore not modelled. A time step is one action: the loops over
classes and prefixes only add to sums that are independent of their order,
except for the timesteps, whose dependence on the order (`Advances`,
`AfterBlank`, `Ties`) is modelled with every order the sorts may produce.
`nth_element` and `partial_sort` return any outcome the comparison allows
(`Best`). `Prune` removes one doomed prefix at a time in any order.

With `ext_scorer` the decoder also uses `Scorer`: `get_path_trie` refuses a path
that leaves the dictionary, a space multiplies the path by the score of the word
before it, a full beam cuts off what cannot survive (`CutOff`), and `decode`
scores the last word of a transcript that ends in none. The dictionary automaton
is the set of words itself: where a path stands in it depends on its last word.
A word's factor is `e^beta` times a power of a probability, here a whole number
over `LmUnit` and at most `beta`; `Scale` is the common denominator that keeps
the scores of up to `MaxWords` words whole. KenLM is the constant operator
`BaseScore`, and an unknown word has a finite penalty. Without `ext_scorer` the
model is the plain search. UTF-8 scorers, which score every codepoint, are left
out, and so are negative `alpha`, which would turn the penalty of an unlikely
word into a bonus.

Run `decoder` covers five settings (`Arguments`), on a space, a letter and the
blank and rows from four distributions:

- beams of 3 and 4 without a scorer, four rows: beams overflow from the second
  row on, prefixes are pruned, kept as dead ancestors and revived. The third row
  gives the first chance that a repeated label follows a blank, the fourth that
  a revived prefix is extended again. With the beam of 3 a row has more classes
  than `cutoff_top_n`, so that it is sorted (`cutoff_prob` is 1, which cuts none);
- a beam of 2 with a scorer, five rows: two words, of which one begins the
  other, with their spaces and the start of a third, under a bigram model;
- beams of 100, more than there are prefixes, without a scorer and with scorer
  and hot words: nothing is pruned.

`TrieInv` is about the trie in any order of the removals. `ScoresSound` bounds
every score by the sum over all alignments times the factors of the words read
from the left, a definition that shares nothing with the algorithm: pruning may
lose alignments, reviving must not count one twice. As long as nothing was pruned
it demands equality, in `next`, and `ResultsScoreWords` after `decode` (every
word once). `TimestepsSound` is one increasing time per token; that a blank
keeps the timesteps is asked of rows that are not sorted only (section 5).
`CutoffSound` says that a prefix that the cutoff skips would not have come before
any prefix that is kept; it excludes hot words, whose boost is not part of the
bound. `WordsInVocabulary` and `BestHasHistory` as their comments say.

### BatchDecode

The calling thread enqueues a task per sample, collects the futures in order and
leaves through the destructor of the pool, also when a future rethrows. Each
lock region of `ThreadPool.h` is a step; notification is a step of its own, as
the lock is released before it; a waiting thread may wake for no reason. A task
is its sample, since the scorer is only read and decoding itself is
`DecoderState`.

Run `batch` (4 samples, 3 threads): more tasks than threads and threads that
never get one. Fairness: the threads are scheduled; spurious wakeups are not
fair, so `BatchReturns` does not depend on them.

### ModelBackend

Several streams of one model. The tensors `input_samples` and `input_node` of
the TFLite interpreter persist; `copy_vector_to_tensor` leaves what lies beyond
`num_elements`. The LSTM state and the logits are the sequences of rows they
were computed from. That the TFLite graph consumes every row of the batch while
the TensorFlow graph stops at `input_lengths` is the exporter's doing
(`train.py`, `create_inference_graph`). Context and overlap are left to
`StreamingState`; calls on different streams interleave, threads do not.

Run `backend` (either back end, 2 interchangeable streams, windows of 2
samples, batches of 2 rows, 3 full windows and a flush each): enough for a
full batch, a partial batch behind stale rows, and a stream that starts after
another has finished or failed. `WindowInv` (full windows intact, on TensorFlow
all windows padded) and `LogitsSound`. Run `backend_flush` asks that TFLite pads
as well and is refuted: the stale tail of a partial window.

### ExecPlan

`find_parent_node_ids` searches backwards from a tensor. A node is numbered by
its place in a topological order and has one output, the tensor of the same
number, as the nodes of the MFCC part have; 0 is a tensor without a node. One
iteration over the frontier is `PopProduced` or `PopInput`, the inner loop is
`PushInput` and `PushDone`. The test in `push_back_if_not_present` is against
the frontier only, so a tensor is pushed again when a longer path leads to it;
`PlanRunnable` depends on exactly that, and `Terminates` and `PlanExact` (the
nodes of the plan are those the target depends on) must survive it.

Run `exec_plan`: all graphs of four nodes with one or two inputs per node, all
targets; four nodes give paths of different lengths to the same node through a
node that is itself reached twice. Fairness: a loop on the caller's thread.

### PythonStream

A method of `Stream` is three steps: the test of `_impl`, the native call, during
which the interpreter lock is released, and the reset. Objects are collected some
time after the last reference, running methods included, is gone. Run `python` (2
threads, 3 streams) has programs that call the methods of one stream one at a time
(`serialises`) and programs that do not; `NoUseAfterFree` (in `ImplInv`) is about
the former, `NoLeak` about all. Fairness: native calls return and the interpreter
collects.

### StreamingDemo

The UI thread and the workers running `transcribe()`, which share the fields of
the activity; every native call is a step. A transcript is empty, short or too
long. That a stream decodes to nothing before `Warm` chunks is due to the window
and the context of the acoustic model, and `NeverThrows` rests on it. The repeat
limits 200 and 50 are 3 and 1. Run `demo` (2 workers, 4 streams) has users who
wait for the label of the button (`patient`) and users who do not, and activities
that end anywhere; the properties are about the former. Fairness: worker threads
are scheduled, users are not.

### Training

The weights are what they would score in validation, a checkpoint is global step,
loss and number of learning rate reductions. `pc` walks through `train()`; a save
is three steps of TensorFlow's `Saver` (files, state file, deletion), so a crash
can fall between them. A process that ends forgets everything but the disk
(`Forget`). Losses include infinity and NaN with Python's comparisons. `same_dir` says
whether checkpoints are loaded from where they are saved. Validation sets are
one, since they only add up; the metrics sets read only.

The feature cache is the number of batches its index covers (`cached`, or
`NoIndex`), how often its features have served (`age`) and a lockfile. An index
that is there serves what it holds. Otherwise the generator runs, and its end
reaches `dataset.cache` on a prefetching thread at any time of the pass
(`CacheFinish`). An exception of the generator is such an end
(`remember_exception`): `GeneratorFails` cuts `data`, and the index is finished over
the part that came, before or after `raise_if_set` ends the run. A process killed
while it caches may leave the lockfile, which makes later epochs without an index
fail.

Run `training` (4 epochs, then 2 in a second run of the program with `load_train`
"last"; `cache_for_epochs` 0, the default, and 2; finite losses 1, 2 and 4 with
`es_min_delta` 2, and 2 others; `es_epochs` 2, `plateau_epochs` 1, `max_to_keep` 2,
timed saves in one epoch): enough for a plateau, an improvement after it and a later
stop, for improvements below, at and above `es_min_delta`, for surplus checkpoints,
for names used again after a plateau took the step back, and for a cache that one
run leaves and the next is served. One batch per epoch, so a cut epoch has none:
more would only lengthen the loop. `CheckpointInv` (state files name files that
exist) and `CacheExpires` hold across restarts. `BestKept` and `EarlyStopInTime` are
stated over all losses of the run, not over the counters of the code; `BestIsBest`
and `PlateauRestarts` assume one directory, `EarlyStopInTime` finite losses of which
none is better than an earlier one by exactly `es_min_delta` (`OnTheEdge`).
`EpochsWhole` asks for whole epochs where an epoch is validated or saved, with one
exception: if the cache never expires and an earlier run left it (`Inherited`), the
epoch has what the cache holds.

### LimitingPool and BoundedAhead

The pool's task thread in `_limit`, the caller in `imap`, the workers with an
`Overlay` augmentation and the process that fills its queue, which may die or find
no samples at any time (`EnqueueFails`). `multiprocessing` is
external: a task queue, workers, results in order; workers are not killed. If `preemptible`, an update of
`processed` is a load and a store.

`BoundedAhead` is what the class promises: items go in and out one by one, at most
`limit` inside. Run `pool` (6 samples, 3 ahead, 2 workers, a queue of 1) shows that
`LimitingPool` implements it with `limit` 3 as long as updates are not split, and
as an unbounded buffer otherwise. `IterationEnds` holds in both cases, for behaviours
in which the overlay process goes on until the iteration is over: lost updates
shift the limit by less than it takes to block with three samples ahead of six. It
says nothing of longer iterations, in which lost decrements may add up. Fairness:
threads and processes are scheduled and the caller goes on iterating; that the
overlay process does not fail is the premise of `IterationEnds`, not an assumption
of the specification.

### Alphabet, SampleDB, VadSplit and DataFormats

`Alphabet`: `init` reads a line per step, `Serialize` writes the pairs in any order
(a hash map), `Deserialize` reads a field per step from a buffer of which any
number of bytes arrives. A new `Alphabet` has an uninitialised `space_label_`, any
value of `Garbage`.

`SampleDB`: the file is a sequence of bytes; magic and schema are one byte. A
number is written by `to_bytes` in `BIGINT_SIZE` or `INT_SIZE` bytes, most
significant first, or not at all if it does not fit (`OverflowError`, so `Add` asks
that a sample is `Storable`). `Add` may be interrupted where it has noted the
offset and not yet counted the sample, and `close` runs all the same (`with`). The
reader is a function of the file.

`VadSplit`: a step per frame, with any verdict of the detector.

They are small and share no state, so `DataFormats` puts them in one specification,
whose `Init` chooses the part, and run `data` checks all three:

- alphabet files with comments, an escaped `#`, empty lines, a letter of two bytes,
  a line twice, with and without a space;
- up to three samples, with a `BIGINT_SIZE` of 2 and an `INT_SIZE` of 1 (8 and 4 in
  the code), among them one whose length just fits and one that is too long to be stored;
- all recordings of up to 13 frames with a ring buffer of four, three times its
  length, so that segments start, end and start again.

Times of a segment may be one frame early: the code subtracts the number of frames,
the current one included, from the index. For a recording that is speech from the
first frame to the last the start is one frame before zero (line 282 has no `max`).
`TimesTell` allows for that and shows that the order is right.

## 3. Proofs

Every theorem is `Spec => []P` or `Spec => [][A]_vars` for all values of the
constants that satisfy the named assumption of the module. Bounds such as
`MaxSamples` or `MaxRuns` are constants like any other, so what is proved holds
for streams, trainings and batches of any length. None of the properties is
inductive alone; what follows is what had to be added and why. An inductive
invariant is a conjunction of named parts, and there is one step, or one lemma,
per action. `BackendProofs`, `ClientProofs` and `DataProofs` extend two components
each, which is why `ModelBackend`, `PythonStream` and `DataFormats` name their
specifications `BackendSpec`, `PySpec` and `DataSpec`.

| Component | Property of a run | Theorem | Inductive invariant |
|---|---|---|---|
| Stream | `StreamInv` | `StreamInvariant` | itself |
| | `FinishDecodesAll` | `FinishTranscribesAll` | `StreamInv` |
| | `CentresAdvance` | `CentresInOrder` | `OrderInv` |
| | `TranscriptExtends` | `DecodesExtend` | `DecodedInv` |
| API | `ScorerOwned`, `StreamKeepsScorer` | `ScorersOwned`, `StreamsKeepScorer` | `ApiInv` |
| | `ErrorsChangeNothing`, `WeightsReachOwnScorer` | `FailedCallsChangeNothing`, `WeightsStayWithScorer` | `ApiInv` |
| Decoder | `TrieInv`, `TimestepsSound` | `TrieSafe`, `TimestepsHold` | `DecoderInv` |
| | `CutoffSound` | `CutoffLosesNothing` | `DecoderInv`, `SumOK` |
| | `BestHasHistory` | `BestKeepsHistory` | `DecoderInv`, `HistoryOK` |
| | `WordsInVocabulary` | `VocabularyKept` | `DecoderInv`, `DictOK` |
| | `ScoresSound`, `ResultsScoreWords` | `ScoresAreSums`, `ResultsAreSums` | `DecoderInv`, `ScoresOK` |
| Batch | `ResultsInOrder`, `TasksSettled` | `BatchOrdered`, `BatchSettled` | `BatchInv` |
| Plan | `PlanRunnable` | `PlanIsRunnable` | `PlanInv` |
| | `PlanExact` | `PlanIsExact` | `PlanInv`, `ReachInv` |
| Back end | `WindowInv`, `LogitsSound` | `WindowsReachGraph`, `LogitsUnmixed` | `BackendInv` |
| Python | `ImplInv` | `PyImplInv` | `PyInv` |
| Demo | `StreamsOwned`, `NeverThrows` | `DemoStreamsOwned`, `DemoNeverThrows` | `DemoInv` |
| Training | `CheckpointInv` | `CheckpointsNamed` | `SaveInv` |
| | `EpochsWhole` | `WholeEpochs` | `SaveInv`, `WholeInv` |
| | `CacheExpires` | `CacheExpiresInTime` | `CacheInv` |
| | `BestKept`, `PlateauRestarts` | `BestCheckpointKept`, `PlateauRestartsBest` | `BestInv` |
| | `EarlyStopInTime` | `EarlyStopHolds` | `StopInv` |
| Data | `AlphabetRestored` | `AlphabetIsRestored` | `AlphabetInv` |
| | `SamplesRead` | `SamplesAreRead` | `SdbInv` |
| | `SegmentsSound` | `SegmentsAreSound` | `VadInv` |
| Pool | `ImplementsBuffer` (refinement) | `PoolImplementsBuffer` | `PoolInv` |

### The stream (`StreamingStateProofs`)

`ModelAssumption` asks that the window is not empty, that it slides by at least
one sample and by no more than its length, and that a batch is not empty.

`StreamInv` adds what lies between the steps: `AudioContiguous` places the audio
buffer, `WindowsFull` says which windows were full when they were processed and
that the flushed one was not, `PipelineHolds` says that `mfcc_buffer` is the last
frames pushed and that decoder and batch buffer together hold one timestep per
frame beyond the first `2*n_context`, and `DoneHolds` carries this over the final
decode. The argument for a step is: `FramesStable` (a frame once computed is not
changed by audio fed later), `HoldsIn`, `FrameIndex`, `TimestepIndex` and
`HoldsOut` (a push moves the pipeline by one frame), then one case per action in
`InvStep`. `InvFinish` derives `FinishDecodesAll`: the number of windows follows
from the bounds in `WindowsFull` by uniqueness of the quotient (`DivUnique`).

`StreamInv` says nothing of what the buffers hold once a run has failed, so the
order of the centres has an invariant of its own. `OrderInv` lines up the centres
the decoder has seen, those in the batch and the frames that will still become
centres: each of these sequences rises, and each precedes the next (`Line`). Until
the flush all of them start no later than the last processed window (`Ahead`), so
the next window comes behind all. A lost batch or window only removes from the
line. `DecodedInv` says that the last transcript is a beginning of
`decoder_state`; `TranscriptExtends` is its effect on a decode.

### The API (`ModelApiProofs`)

For any finite set of streams and any set of scorers (`ApiAssumption`).
`ScorerOwned` needs `IdleHoldsNothing`, since `DS_CreateModel` and
`DS_CreateStream` overwrite pointers without releasing them, and even `TypeOK`
needs `ScorerOwned`, since a use count stays natural only if every release has an
owner. `CountReleased` and `CountAcquired` relate one changed pointer to the
cardinality of the owners; `OwnedAfter` and `KeptAfter` turn exact counts into a
correct heap and into streams that keep their file; there is one lemma per kind of
pointer change.

### The decoder (`DecoderStateProofs`)

For any alphabet, beam, rows of positive probabilities, vocabulary of non-empty
words, language model and boosts (`DecoderAssumption`, `ScorerAssumption`).

`DecoderInv` has four parts besides `BlankKeepsTimesteps`. `BeamOK` is the shape
of the trie between any two removals: the parent of a node is a node, every node is
on the way to one that exists, and what exists is the beam and the prefixes still
to be removed. `RemoveProps` shows that `remove()` keeps this for any prefix, and
so in any order, as long as another one exists; the beam is never empty.
`AlignedOK` gives a prefix that may be expanded one time per label,
increasing and before the current row; the order of the loops matters only for
which of the permitted times it is. `SettingsOK` and `CountersOK` are types.

`CutoffSound` needs that a score is the sum of its two parts (`SumOK`): then every
prefix of a full beam keeps at least the least score times the blank
(`BlankKeepsScore`), so that the new beam has nothing below that, and what the
cutoff skips stays below it with the largest factor of a word (`CutOffBound`).

`BestHasHistory` is the deepest: some prefix must keep a positive score through
every row (`PosOK`). Blanks are positive, so a prefix survives by its blank unless
the beam is full of better ones; but a scorer divides by `LmUnit` at every space,
and whole numbers could round to nothing. `LowerOK` shows that a positive score is
at least the power of `LmUnit` that the words still to come can use up, and
`LengthOK` that there are at most `MaxWords` of them, since a word takes a letter
and a space. That the language model of the code never returns zero is part of
`ScorerAssumption`.

`WordsInVocabulary` is about `Words`, which reads a path from the left;
`get_path_trie` tests the last word only. `DictOK` keeps the test of every
beginning of a path, and `Words` is computed from it label by label.

`ScoresSound` and `ResultsScoreWords` compare the scores, which the search carries
from row to row, with a sum over all alignments. The argument has three parts.

- *Alignments.* `MassB` and `MassN` are the weights of the alignments of a
  transcript that end in a blank and of those that do not. `MassBlank` and
  `MassLabel` say what one more row makes of them: they split the alignments by the
  last class, show that each part is a copy of a set of shorter alignments
  (`CollapseAppend`, `MassExtend`) and add up (`SumParts`, `SumScaled`). What a
  prefix hands on (`Handed`) depends on whether the label repeats its last one.
- *Words.* `Gain` is the factor of the words that a space has ended. On a path that
  the dictionary allows (`Legal`), `make_ngram`, which walks back from the end,
  reads the same words as `Words` from the left (`NgramIs`), so that a space
  multiplies the gain by what `WordFactor` says (`ScoredGain`), and `decode` does so
  for the last word (`RescoredGain`). The divisions by `LmUnit` leave no remainder:
  a transcript of k words still has `MaxWords - k` powers of it (`TimesForm`).
- *Beam.* `BelowOK` bounds both parts of a score by mass times gain. A node that the
  beam dropped starts again from zero, so a revived prefix has less (`RowBounds`).
  `ExactOK` says that while nothing was pruned the bounds are equalities, and that a
  transcript outside the beam has no alignment: without the second half the parent
  of a new prefix could have lost what it should hand on (`RowNone`, `RowExact`).

`CTCIs`, `CTCEnding` and `ReferenceIs` lead from masses and gains back to the
definitions that TLC evaluates.

### Batch decoding (`BatchDecodeProofs`)

`MainAt` and `FuturesMade` say how far the calling thread is. `NoTaskLost`,
`TasksPending` and `TaskOnce` say that pending futures and tasks, queued or
running, correspond to one another: without "once", a second thread could set a
future again and a task might vanish with its twin. `ExitLast` says that a thread
leaves only after `stop` with an empty queue, so that the last to leave has left no
task behind.

### The back ends (`BackendProofs`)

Plan: the plan is only known to be runnable at the end, so the induction needs
`InputsPending`: an input of a planned node that no earlier node writes is still in
the frontier or is about to be pushed. One lemma per action (`PendingPop`,
`PendingInput`, `PendingPush`, `PendingDone`). For `PlanExact`, `ReachInv` gives one
inclusion. The other is by contradiction at the end of the search: the largest
node that the target depends on and that is missing has a user that is larger,
hence planned, hence has its inputs in the plan. `Parents` is a recursive function
over node numbers; `ParentsFix` characterises it as a fixed point.

Streams: `BackendInv` has the types, `WindowsFit` (each window starts with the
samples it was sent), `Isolated` (nothing but frames of the stream in its batch,
state and logits) and `Complete` (in order and without a gap, as long as no run
failed). The tensors themselves need no invariant beyond their types: after
`copy_vector_to_tensor` a tensor starts with the batch whatever it held (`Starts`),
and the rows behind it reach the state only. Isolation of the state is therefore
claimed until the stream is done: only a short batch is followed by stale rows, and
only the final batch is short.

### Callers (`ClientProofs`)

Demo: for a user who waits for the button there is one worker in `transcribe()`
(`OneAtATime`), the flag and the label tell where it is (`ButtonTells`), the one
live stream is in `streamContext` and has that worker (`OneStream`).
`NothingDecoded` carries the argument of `NeverThrows`: until something was
decoded the stream has at most one chunk, so its transcript is empty. It rests on
`Warm >= 2` in `DemoAssumption`: the demo's first chunk of 2048 samples is less
than the acoustic model needs for its first timestep. `CountBounded` is needed for
the types: the repeat counter is reset only after the stream was replaced.

Python: if methods of one stream are called one at a time, `_impl` is out of date
only while the method that destroyed the stream still runs (`PyInv`).

### Training (`TrainingProofs`)

For any number of epochs, batches and runs, any losses, flags and load orders
(`TrainingAssumption`). `SaveInv` keeps, per `Saver`, that the state file names one
of its files, that its list has no path twice, and where a save stands
(`SavingOK`): a path used again after a plateau leaves the list before it is put at
the end, else the new checkpoint could be deleted under its old name. `WholeInv`
follows a short epoch: an index over less than the whole set is there only while the
exception is in the box or the run has ended, or after a restart until epoch 0
removes it, or for good if caches do not expire (`FailureOK`); a pass has the whole
set or the inherited cache before it unless an exception is in the box (`PassOK`).
`CacheInv` ties the age of the cache to the epoch modulo its lifetime.
`BestInv` says that `best_dev_loss` is the least finite loss of the run and that the
state file of the best checkpoint names one with this loss and the learning rate in
use, or that such a checkpoint is on its way there (`DiskOK`). `StopInv` says that
the last epoch that improved is exactly `epochs_without_improvement` epochs back,
which relates the counter of the code to the losses the property speaks of.

### The data (`DataProofs`)

Alphabet: for any files of fewer than 65536 lines, each shorter than 65536 bytes,
the bounds of the `uint16_t` fields (`AlphabetAssumption`). `AlphabetInv` has the
table while it is read (`SourceOK`), the buffer with each pair that is not pending,
once (`BufferOK`), and the pairs that `Deserialize` has entered into the new table
(`TargetOK`); `Consistent` relates the two directions of a table. That a buffer is refused when it is cut anywhere comes from the
offset: it is the length of the fields read so far, and with all of them read it is
the length of the whole buffer.

Sample DB: for any samples and sizes of numbers (`SdbAssumption`). What is needed is
that reading undoes writing: `from_bytes` undoes `to_bytes` for a number that fits
(`BytesRoundTrip`), a part of the file that holds some bytes (`Holds`) keeps them under a
write that does not touch it, and read returns them. `SdbInv` says where every entry
lies (`Offsets`), that the file holds it there (`Entries`), and what a closed file
holds besides (`Closed`). An interrupted `add` leaves one offset more than samples:
the index then has an entry behind the ones that its count covers, which the reader
never reaches.

Segments: `VadInv` describes the ring buffer as the last frames of the recording
(`RingTail`) and the collected frames as the uninterrupted stretch up to the current
one (`VoicedTail`), with the segments before them in order. `Reach` says that nothing
lies between the last segment and the ring buffer unless the buffer is full. So a
window of speech that has just been read is the ring buffer, which triggers, or
reaches back to the end of a segment, or is being collected: this is `SpeechKept`.

Pool: the refinement mapping is `handed` and `consumed`. `CounterExact` ties `processed`
to their difference while updates are not split, and keeps the feeder's test of it
true until the increment: between them only the caller moves, and it decrements.
Otherwise the limit is the number of samples, and what is proved is the order:
`CallerAt` (`consumed <= handed`) and `InPool` (no result before its sample was
handed over).

### Left to TLC

- Liveness, out of the prover's reach: `CallsReturn`, `BatchReturns`, `Terminates`,
  `NoLeak`, `StopCompletes`, `IterationEnds`.

Every invariant and every other action property of a passing run is stated by a theorem.

There is no induction rule the provers can use on an operator, so induction over
data is written out where it is needed: as a smallest counterexample (`Smallest`,
`UpTo`), with the predicate as a set. What a recursive function or a fold computes
is derived from its definition as a choice of a function (`Iterates`, `FoldsSets`,
`Sums`), and for a fold along a sequence as the chain of its values (`FoldChain`).

## 4. Findings

Run `backend_flush` refutes what a comment in the source says: on TFLite the last
window of a stream is completed with stale samples instead of zeros. Details in
`PROJECT.json`.

## 5. Other disagreements met while modelling

Each was seen in a counterexample of TLC; the properties that hold exclude them by
a condition, named here, so dropping the condition shows the case again.

- `StreamingState`: a failing interpreter run makes the position of all later
  tokens early by the timesteps lost (`TimestepsCentred` speaks of streams without
  failures).
- `ModelApi`: `DS_Version` returns a static buffer that the header and the command
  line client pass to `DS_FreeString`.
- `DecoderState`: with more classes than `cutoff_top_n` rows are sorted and the
  blank is not visited last, against the comment in `next` (`BlankKeepsTimesteps`
  asks for `cutoff_top_n > alphabet_size`).
- `decode` may walk the null history of a prefix of probability zero when more
  results are asked for than there are prefixes of positive probability
  (`BestHasHistory` asks for one result, what the plain calls ask for).
- The last word of a transcript gets no hot-word boost, and the cutoff of a full
  beam does not allow for boosts (`ResultsScoreWords` counts the boosts of closed
  words, `CutoffSound` excludes hot words).
- `Alphabet`: without a space in the file the space label is restored
  uninitialised (`RoundTrip` compares it only if there is one); with a line twice,
  the label that a string is encoded as may be another one after `Deserialize`, which
  inserts the pairs in the order of a hash map (`RoundTrip` compares that direction
  only for files without).
- `PythonStream`: a method may pass a stream to the library that another thread's
  `finishStream` has freed (`serialises`); and a stream does not keep its model
  alive (`DropModel` and `DelModel` while it lives).
- `StreamingDemo`: stop and start before the worker has ended make two workers
  share one stream (`patient`); `onDestroy` frees the model under a worker.
- `Training`: with separate checkpoint directories a plateau reloads the source
  model and saves it as the best one (`same_dir`); a NaN loss resets the count of
  early stopping (`EarlyStopInTime`, finite losses), and so does an improvement of
  exactly `es_min_delta`, where the comment in `train.py` 626 says that it "has to be
  greater" and the help text (`flags.py`, "Minimum change in loss to qualify") that
  it need not (`OnTheEdge`); an exception in the data leaves a feature cache over the
  part that came, which a later run with `cache_for_epochs` 0 trains on as if it were
  the whole set (`Inherited`); the lockfile of a run killed while caching makes later
  runs fail until it is deleted; a restarted training replaces
  a better best checkpoint, since `best_dev_loss` starts at infinity (`BestIsBest`
  speaks of one run), and with `load_train` "auto" goes back from the last
  checkpoint to the best one. Not in the model: epochs served from the feature
  cache do not advance the augmentation clock.
- `LimitingPool`: `processed` is updated by two threads without a lock, and lost
  updates let more than `process_ahead` samples in (`preemptible`). If the process
  that fills the overlay queue raises, or its source is empty, nobody notices: the
  workers block in `queue.get`, and the iteration never ends (the premise of
  `IterationEnds`).

## 6. Not modelled

- Vendored code: TensorFlow, KenLM, OpenFst and the rest of the third-party
  directories. They are nearly all of the 1.6 million lines in the repository;
  the project's own code is about 4,000 lines of library and 5,000 of training.
  Of TensorFlow, only the part of `Saver` on which recovery depends and the index and
  lockfile of `dataset.cache` are modelled.
- Loading of models, scorers and files beyond its failures; float rounding; the
  language model and the neural network as functions.
- UTF-8 scorers and alphabets: another boundary test on the same search.
- Threads inside one TFLite interpreter: no lock protects it and no document
  promises that it may be shared, so calls on a back end are atomic here.
- Graph construction, `test()`, `export()`, the augmentations' arithmetic and
  audio conversion: no state that outlives a call.
- Command line clients, generated bindings, importers and scorer tools: glue and
  I/O.

## 7. Plan

1. An abstract stream, a function from audio to the timesteps decoded, that
   `StreamingState` implements; `FinishDecodesAll` is the step that matters.
2. Threads inside one TFLite interpreter, if a document comes to promise anything
   about them.
