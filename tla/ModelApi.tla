------------------------------ MODULE ModelApi ------------------------------
(***************************************************************************)
(* The calls of the C API that change a model, and what the streams of the *)
(* model copy from it and share with it: deepspeech.cc.                    *)
(*                                                                         *)
(* One model.  A Scorer is an object on the heap with the use count of its *)
(* shared_ptr; the memory of a freed scorer may be given to the next one.  *)
(* The audio in a stream is the business of StreamingState: here a stream  *)
(* is what DS_CreateStream gives to DecoderState::init.  After             *)
(* DS_FreeModel the client may only free the streams that are left.        *)
(***************************************************************************)
EXTENDS Naturals, FiniteSets

CONSTANTS
  Streams,         \* streams the client may have at a time
  Scorers,         \* memory for scorers
  Paths,           \* scorer files that load
  Weights,         \* values of alpha and beta
  PackagedWeights, \* the alpha and beta in a scorer file
  BeamWidths,      \* beam widths the client may set
  ModelBeamWidth,  \* the one in the model file
  Words, Boosts,   \* hot words
  Null

ASSUME ApiAssumption ==
  /\ IsFiniteSet(Streams)
  /\ PackagedWeights \in Weights
  /\ ModelBeamWidth \in BeamWidths
  /\ Null \notin Scorers \cup Paths \cup Boosts \cup Streams

VARIABLES
  alive,       \* the model exists
  beam_width,  \* ModelState::beam_width_
  scorer,      \* ModelState::scorer_
  hot_words,   \* ModelState::hot_words_, the boost of each word or Null
  lm,          \* file a scorer was loaded from, Null for free memory
  weights,     \* alpha and beta of a scorer
  refs,        \* use count of a scorer
  stage,       \* stream: "none", "live", or "orphan" once its model is freed
  decoder,     \* stream: what DecoderState copied at creation
  created,     \* history: the scorer file in force when a stream was created
  err,         \* what the last call returned
  strings,     \* kinds of strings the client holds
  freed        \* kind of the string given to free by the last DS_FreeString

modelVars == <<alive, beam_width, scorer, hot_words>>
scorerVars == <<lm, weights, refs>>
streamVars == <<stage, decoder, created>>
stringVars == <<strings, freed>>
vars == <<modelVars, scorerVars, streamVars, stringVars, err>>

NoHotWords == [w \in Words |-> Null]

Settings == [beam_size  : BeamWidths,
             ext_scorer : Scorers \cup {Null},
             hot_words  : [Words -> Boosts \cup {Null}]]

NoDecoder == [beam_size |-> ModelBeamWidth, ext_scorer |-> Null, hot_words |-> NoHotWords]

-----------------------------------------------------------------------------
(* shared_ptr<Scorer> *)

Acquired(r, x) == IF x = Null THEN r ELSE [r EXCEPT ![x] = @ + 1]

\* Fault: the last owner is forgotten.
Released_Leaks(r, x) ==
  IF x = Null \/ r[x] = 1 THEN r ELSE [r EXCEPT ![x] = @ - 1]

Released(r, x) == IF x = Null THEN r ELSE [r EXCEPT ![x] = @ - 1]

\* The use counts become r, and scorers that nobody uses are deleted.
Recount(r) ==
  /\ refs' = r
  /\ lm' = [x \in Scorers |-> IF r[x] = 0 THEN Null ELSE lm[x]]
  /\ weights' = [x \in Scorers |-> IF r[x] = 0 THEN PackagedWeights ELSE weights[x]]

-----------------------------------------------------------------------------
(* Model *)

Init ==
  /\ alive = FALSE
  /\ beam_width = ModelBeamWidth
  /\ scorer = Null
  /\ hot_words = NoHotWords
  /\ lm = [x \in Scorers |-> Null]
  /\ weights = [x \in Scorers |-> PackagedWeights]
  /\ refs = [x \in Scorers |-> 0]
  /\ stage = [s \in Streams |-> "none"]
  /\ decoder = [s \in Streams |-> NoDecoder]
  /\ created = [s \in Streams |-> Null]
  /\ err = "DS_ERR_OK"
  /\ strings = {}
  /\ freed = "nothing"

\* The path is empty, or the file does not load: there is no model.
DS_CreateModel_Fails ==
  /\ ~alive
  /\ err' \in {"DS_ERR_NO_MODEL", "DS_ERR_FAIL_INIT"}
  /\ UNCHANGED <<modelVars, scorerVars, streamVars, stringVars>>

DS_CreateModel ==
  /\ ~alive
  /\ alive' = TRUE
  /\ beam_width' = ModelBeamWidth
  /\ scorer' = Null
  /\ hot_words' = NoHotWords
  /\ err' = "DS_ERR_OK"
  /\ UNCHANGED <<scorerVars, streamVars, stringVars>>

\* Deletes the model, which gives up its scorer.  The streams keep theirs.
DS_FreeModel ==
  /\ alive
  /\ alive' = FALSE
  /\ beam_width' = ModelBeamWidth
  /\ scorer' = Null
  /\ hot_words' = NoHotWords
  /\ Recount(Released(refs, scorer))
  /\ stage' = [s \in Streams |-> IF stage[s] = "live" THEN "orphan" ELSE stage[s]]
  /\ err' = "DS_ERR_OK"
  /\ UNCHANGED <<decoder, created, stringVars>>

DS_SetModelBeamWidth(width) ==
  /\ alive
  /\ beam_width' = width
  /\ err' = "DS_ERR_OK"
  /\ UNCHANGED <<alive, scorer, hot_words, scorerVars, streamVars, stringVars>>

-----------------------------------------------------------------------------
(* Scorer *)

\* Every call below but DS_EnableExternalScorer needs a scorer.
SCORER_NOT_ENABLED ==
  /\ alive
  /\ scorer = Null
  /\ err' = "DS_ERR_SCORER_NOT_ENABLED"
  /\ UNCHANGED <<modelVars, scorerVars, streamVars, stringVars>>

\* Fault: the scorer in use is given up before the new file is loaded.
DS_EnableExternalScorer_Fails_Reset ==
  /\ alive
  /\ err' = "DS_ERR_INVALID_SCORER"
  /\ scorer' = Null
  /\ Recount(Released(refs, scorer))
  /\ UNCHANGED <<alive, beam_width, hot_words, streamVars, stringVars>>

\* The file does not load, for whatever reason: the model keeps its scorer.
DS_EnableExternalScorer_Fails ==
  /\ alive
  /\ err' = "DS_ERR_INVALID_SCORER"
  /\ UNCHANGED <<modelVars, scorerVars, streamVars, stringVars>>

\* Fault: the new file is loaded into the scorer in use.
DS_EnableExternalScorer_InPlace(path, x) ==
  /\ alive
  /\ lm[x] = Null \/ x = scorer
  /\ scorer # Null => x = scorer
  /\ scorer' = x
  /\ refs' = IF scorer = Null THEN [refs EXCEPT ![x] = 1] ELSE refs
  /\ lm' = [lm EXCEPT ![x] = path]
  /\ weights' = [weights EXCEPT ![x] = PackagedWeights]
  /\ err' = "DS_ERR_OK"
  /\ UNCHANGED <<alive, beam_width, hot_words, streamVars, stringVars>>

\* A scorer x is loaded and takes the place of the model's.
DS_EnableExternalScorer(path, x) ==
  /\ alive
  /\ lm[x] = Null
  /\ scorer' = x
  /\ refs' = [Released(refs, scorer) EXCEPT ![x] = 1]
  /\ lm' = [y \in Scorers |-> IF y = x THEN path ELSE IF refs'[y] = 0 THEN Null ELSE lm[y]]
  /\ weights' = [y \in Scorers |-> IF refs'[y] = 0 \/ y = x THEN PackagedWeights ELSE weights[y]]
  /\ err' = "DS_ERR_OK"
  /\ UNCHANGED <<alive, beam_width, hot_words, streamVars, stringVars>>

\* The hot words stay.
DS_DisableExternalScorer ==
  /\ alive
  /\ scorer # Null
  /\ scorer' = Null
  /\ Recount(Released(refs, scorer))
  /\ err' = "DS_ERR_OK"
  /\ UNCHANGED <<alive, beam_width, hot_words, streamVars, stringVars>>

\* Fault: the weights of every scorer are set.
DS_SetScorerAlphaBeta_All(w) ==
  /\ alive
  /\ scorer # Null
  /\ weights' = [x \in Scorers |-> IF lm[x] = Null THEN weights[x] ELSE w]
  /\ err' = "DS_ERR_OK"
  /\ UNCHANGED <<modelVars, lm, refs, streamVars, stringVars>>

DS_SetScorerAlphaBeta(w) ==
  /\ alive
  /\ scorer # Null
  /\ weights' = [weights EXCEPT ![scorer] = w]
  /\ err' = "DS_ERR_OK"
  /\ UNCHANGED <<modelVars, lm, refs, streamVars, stringVars>>

-----------------------------------------------------------------------------
(* Hot words *)

\* unordered_map::insert leaves a word alone that is there.
DS_AddHotWord(word, boost) ==
  /\ alive
  /\ scorer # Null
  /\ IF hot_words[word] = Null
     THEN /\ hot_words' = [hot_words EXCEPT ![word] = boost]
          /\ err' = "DS_ERR_OK"
     ELSE /\ err' = "DS_ERR_FAIL_INSERT_HOTWORD"
          /\ UNCHANGED hot_words
  /\ UNCHANGED <<alive, beam_width, scorer, scorerVars, streamVars, stringVars>>

DS_EraseHotWord(word) ==
  /\ alive
  /\ scorer # Null
  /\ hot_words' = [hot_words EXCEPT ![word] = Null]
  /\ err' = IF hot_words[word] = Null THEN "DS_ERR_FAIL_ERASE_HOTWORD" ELSE "DS_ERR_OK"
  /\ UNCHANGED <<alive, beam_width, scorer, scorerVars, streamVars, stringVars>>

DS_ClearHotWords ==
  /\ alive
  /\ scorer # Null
  /\ hot_words' = NoHotWords
  /\ err' = "DS_ERR_OK"
  /\ UNCHANGED <<alive, beam_width, scorer, scorerVars, streamVars, stringVars>>

-----------------------------------------------------------------------------
(* Streams *)

DS_CreateStream(s) ==
  /\ alive
  /\ stage[s] = "none"
  /\ stage' = [stage EXCEPT ![s] = "live"]
  /\ decoder' = [decoder EXCEPT ![s] =
       [beam_size |-> beam_width, ext_scorer |-> scorer, hot_words |-> hot_words]]
  /\ created' = [created EXCEPT ![s] = IF scorer = Null THEN Null ELSE lm[scorer]]
  /\ Recount(Acquired(refs, scorer))
  /\ err' = "DS_ERR_OK"
  /\ UNCHANGED <<modelVars, stringVars>>

\* The stream is deleted with its decoder.
DeleteStream(s) ==
  /\ stage' = [stage EXCEPT ![s] = "none"]
  /\ decoder' = [decoder EXCEPT ![s] = NoDecoder]
  /\ created' = [created EXCEPT ![s] = Null]
  /\ Recount(Released(refs, decoder[s].ext_scorer))
  /\ err' = "DS_ERR_OK"
  /\ UNCHANGED modelVars

DS_FreeStream(s) ==
  /\ stage[s] # "none"
  /\ DeleteStream(s)
  /\ UNCHANGED stringVars

\* The result is a copy made by strdup.
DS_FinishStream(s) ==
  /\ stage[s] = "live"
  /\ DeleteStream(s)
  /\ strings' = strings \cup {"strdup"}
  /\ UNCHANGED freed

DS_IntermediateDecode(s) ==
  /\ stage[s] = "live"
  /\ strings' = strings \cup {"strdup"}
  /\ err' = "DS_ERR_OK"
  /\ UNCHANGED <<modelVars, scorerVars, streamVars, freed>>

\* Creates a stream, feeds it and finishes it in one call.
DS_SpeechToText ==
  /\ alive
  /\ strings' = strings \cup {"strdup"}
  /\ err' = "DS_ERR_OK"
  /\ UNCHANGED <<modelVars, scorerVars, streamVars, freed>>

-----------------------------------------------------------------------------
(* Strings *)

\* The result is a static buffer.
DS_Version ==
  /\ strings' = strings \cup {"versionString"}
  /\ err' = "DS_ERR_OK"
  /\ UNCHANGED <<modelVars, scorerVars, streamVars, freed>>

DS_ErrorCodeToErrorMessage ==
  /\ strings' = strings \cup {"strdup"}
  /\ err' = "DS_ERR_OK"
  /\ UNCHANGED <<modelVars, scorerVars, streamVars, freed>>

DS_FreeString(string) ==
  /\ string \in strings
  /\ strings' = strings \ {string}
  /\ freed' = string
  /\ err' = "DS_ERR_OK"
  /\ UNCHANGED <<modelVars, scorerVars, streamVars>>

StringCall ==
  \/ DS_Version
  \/ DS_ErrorCodeToErrorMessage
  \/ DS_SpeechToText
  \/ \E s \in Streams : DS_IntermediateDecode(s)
  \/ \E string \in strings : DS_FreeString(string)

ModelCall ==
  \/ DS_CreateModel_Fails
  \/ DS_CreateModel
  \/ DS_FreeModel
  \/ \E width \in BeamWidths : DS_SetModelBeamWidth(width)

ScorerCall ==
  \/ SCORER_NOT_ENABLED
  \/ DS_EnableExternalScorer_Fails
  \/ \E path \in Paths, x \in Scorers : DS_EnableExternalScorer(path, x)
  \/ DS_DisableExternalScorer
  \/ \E w \in Weights : DS_SetScorerAlphaBeta(w)
  \/ \E word \in Words, boost \in Boosts : DS_AddHotWord(word, boost)
  \/ \E word \in Words : DS_EraseHotWord(word)
  \/ DS_ClearHotWords

StreamCall ==
  \E s \in Streams : DS_CreateStream(s) \/ DS_FreeStream(s) \/ DS_FinishStream(s)

Next == ModelCall \/ ScorerCall \/ StreamCall \/ StringCall

Spec == Init /\ [][Next]_vars

-----------------------------------------------------------------------------
(* Properties *)

ErrorCodes ==
  {"DS_ERR_OK", "DS_ERR_NO_MODEL", "DS_ERR_FAIL_INIT", "DS_ERR_INVALID_SCORER",
   "DS_ERR_SCORER_NOT_ENABLED", "DS_ERR_FAIL_INSERT_HOTWORD", "DS_ERR_FAIL_ERASE_HOTWORD"}

\* Type invariant of the API.
TypeOK ==
  /\ alive \in BOOLEAN
  /\ beam_width \in BeamWidths
  /\ scorer \in Scorers \cup {Null}
  /\ hot_words \in [Words -> Boosts \cup {Null}]
  /\ lm \in [Scorers -> Paths \cup {Null}]
  /\ weights \in [Scorers -> Weights]
  /\ refs \in [Scorers -> Nat]
  /\ stage \in [Streams -> {"none", "live", "orphan"}]
  /\ decoder \in [Streams -> Settings]
  /\ created \in [Streams -> Paths \cup {Null}]
  /\ err \in ErrorCodes
  /\ strings \subseteq {"strdup", "versionString"}
  /\ freed \in {"nothing", "strdup", "versionString"}

\* Who may own a scorer: the streams, and the model as Null.
Holders == Streams \cup {Null}

Pointers == [o \in Holders |-> IF o = Null THEN scorer ELSE decoder[o].ext_scorer]

Owners(x) == {o \in Holders : Pointers[o] = x}

\* The use count of a scorer is the number of its owners, and a scorer is on
\* the heap as long as it has one: none is deleted under a stream that
\* outlives the model or the scorer's replacement, and none is leaked.
ScorerOwned ==
  /\ \A x \in Scorers : refs[x] = Cardinality(Owners(x))
  /\ \A x \in Scorers : lm[x] = Null <=> refs[x] = 0

\* A stream decodes with the scorer file that was in force when it was
\* created, whatever is enabled, disabled or freed on the model later.
StreamKeepsScorer ==
  \A s \in Streams :
    created[s] = IF decoder[s].ext_scorer = Null THEN Null ELSE lm[decoder[s].ext_scorer]

\* Without a model nothing is enabled, and a deleted stream owns nothing.
IdleHoldsNothing ==
  /\ ~alive => scorer = Null
  /\ \A s \in Streams : stage[s] = "none" => decoder[s].ext_scorer = Null

\* The inductive invariant of ModelApiProofs.
ApiInv == TypeOK /\ ScorerOwned /\ StreamKeepsScorer /\ IdleHoldsNothing

\* A call that returns an error leaves the model, its scorer and the streams
\* as they were.
ErrorsChangeNothing ==
  [][err' # "DS_ERR_OK" => UNCHANGED <<modelVars, scorerVars, streamVars>>]_vars

\* A stream's alpha and beta only change with those of the model's scorer of
\* the moment: a stream on a replaced scorer is out of reach of the calls.
WeightsReachOwnScorer ==
  [][\A s \in Streams :
       LET x == decoder[s].ext_scorer IN
       /\ stage[s] # "none" /\ stage'[s] # "none"
       /\ x # Null /\ weights'[x] # weights[x]
       => x = scorer]_vars

=============================================================================
