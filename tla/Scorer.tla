------------------------------- MODULE Scorer -------------------------------
(***************************************************************************)
(* The word based external scorer, ctcdecode/scorer.cpp: the dictionary    *)
(* that restricts the paths of the trie, and the score of a word after the *)
(* words before it.                                                        *)
(*                                                                         *)
(* A word is the sequence of its labels.  Scores are factors on a path's   *)
(* probability, as in PathTrie; a word changes it by a fraction, some      *)
(* whole number over LmUnit.  The language model (KenLM) is external: any  *)
(* factor up to beta, since a log probability is at most zero.             *)
(***************************************************************************)
EXTENDS Naturals, Sequences, FiniteSetsExt, SequencesExt

CONSTANTS
  space_id,         \* the label of the space
  vocabulary,       \* the words of the language model
  max_order,        \* the order of its n-grams
  LmUnit,           \* the factor of a word that changes nothing
  beta,             \* the bonus of a word (e^beta)
  OOV_SCORE,        \* the factor of an n-gram with an unknown word
  BaseScore(_, _)   \* the factor, beta included, of the last word of an n-gram

ASSUME ScorerAssumption ==
  /\ space_id \in Nat /\ vocabulary # {}
  /\ \A word \in vocabulary :
       word \in Seq(Nat) /\ word # << >> /\ space_id \notin Range(word)
  /\ max_order \in Nat \ {0} /\ LmUnit \in Nat \ {0}
  /\ beta \in Nat \ {0} /\ OOV_SCORE \in 1 .. beta
  /\ \A ngram \in BoundedSeq(vocabulary, max_order), bos \in BOOLEAN :
       BaseScore(ngram, bos) \in 1 .. beta

\* get_prev_word: the position of the space before the last word of path.
SpaceBefore(path) == Max({i \in DOMAIN path : path[i] = space_id} \cup {0})

LastWord(path) == SubSeq(path, SpaceBefore(path) + 1, Len(path))

\* Fault: a space may follow the beginning of a word.
InDictionary_AnySpace(path) ==
  \E word \in vocabulary :
    IF Last(path) = space_id THEN IsPrefix(LastWord(Front(path)), word)
                             ELSE IsPrefix(LastWord(path), word)

\* The automaton that fill_dictionary makes of the words, each followed by a
\* space: where a path stands in it depends on its last word only.
InDictionary(path) ==
  \E word \in vocabulary :
    IF Last(path) = space_id THEN LastWord(Front(path)) = word
                             ELSE IsPrefix(LastWord(path), word)

\* make_ngram: at most max_order words, walking back from the end of path.
make_ngram(path) ==
  LET walk[order \in 0 .. max_order] ==
        IF order = 0 THEN [rest |-> path, ngram |-> << >>]
        ELSE LET seen == walk[order - 1]
             IN  IF seen.rest = << >> THEN seen
                 ELSE [rest |-> SubSeq(seen.rest, 1, SpaceBefore(seen.rest) - 1),
                       ngram |-> <<LastWord(seen.rest)>> \o seen.ngram]
  IN  walk[max_order].ngram

\* The sentence starts with the n-gram if the n-gram is a short one.
Bos(ngram) == Len(ngram) < max_order

\* get_log_cond_prob, with alpha and beta.
CondProb(ngram) ==
  IF Range(ngram) \subseteq vocabulary THEN BaseScore(ngram, Bos(ngram)) ELSE OOV_SCORE

\* Fault: only the word that was just completed counts.
HotBoost_LastWord(hot_words, ngram) ==
  IF ngram # << >> /\ Last(ngram) \in DOMAIN hot_words THEN hot_words[Last(ngram)] ELSE 1

\* hot_boost: every hot word of the n-gram counts.
HotBoost(hot_words, ngram) ==
  FoldLeft(LAMBDA boost, word :
             boost * IF word \in DOMAIN hot_words THEN hot_words[word] ELSE 1,
           1, ngram)

\* is_scoring_boundary
Boundary(label) == label = space_id

=============================================================================
