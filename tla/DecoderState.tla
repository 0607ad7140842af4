---------------------------- MODULE DecoderState ----------------------------
(***************************************************************************)
(* DecoderState of ctcdecode/ctc_beam_search_decoder.cpp: the CTC prefix   *)
(* beam search, with or without an external scorer.                        *)
(*                                                                         *)
(* next() runs one TimeStep per row of probabilities.  A row gives a       *)
(* weight to every label and to the blank; all are positive, since the     *)
(* decoder adds NUM_FLT_MIN before it takes logarithms.  Pruning the beam  *)
(* removes one node of the trie after the other (Prune).                   *)
(*                                                                         *)
(* The scorer multiplies a path by a fraction at every space.  Scale is a  *)
(* common denominator, so that the fractions stay whole numbers as long as *)
(* a transcript has at most MaxWords words.                                *)
(***************************************************************************)
EXTENDS PathTrie, Scorer

CONSTANTS
  alphabet_size,   \* labels are 0 .. alphabet_size - 1
  Arguments,       \* what init may be given: beam_size, cutoff_top_n,
                   \*   ext_scorer and hot_words
  Emissions,       \* the rows the acoustic model may produce
  QuietNum,        \* expansion is delayed while the blank's share of the row
  QuietDen,        \*   is at least QuietNum / QuietDen (0.999 in the code)
  MaxSteps(_),     \* bound: rows given to a decoder without or with a scorer
  MaxWords,        \* bound: words of a transcript that are scored
  MaxResults       \* bound: num_results of decode

blank_id == alphabet_size

Labels == 0 .. alphabet_size - 1

Classes == 0 .. alphabet_size

\* The powers of LmUnit.
power[n \in 0 .. MaxWords] == IF n = 0 THEN 1 ELSE LmUnit * power[n - 1]

Scale == power[MaxWords]

ASSUME DecoderAssumption ==
  /\ alphabet_size \in Nat \ {0} /\ alphabet_size < ROOT
  /\ \A a \in Arguments :
       /\ a.beam_size \in Nat \ {0} /\ a.cutoff_top_n \in Nat /\ a.ext_scorer \in BOOLEAN
       /\ \A word \in DOMAIN a.hot_words : a.hot_words[word] \in Nat \ {0}
  /\ Emissions \subseteq [Classes -> Nat \ {0}]
  /\ QuietNum \in Nat /\ QuietDen \in Nat \ {0}
  /\ \A scorer \in BOOLEAN : MaxSteps(scorer) \in Nat
  /\ MaxResults \in Nat /\ MaxWords \in Nat /\ (MaxSteps(TRUE) + 1) \div 2 <= MaxWords
  /\ Null \notin Seq(Nat)

VARIABLES
  beam_size,        \* prefixes kept after a time step
  cutoff_top_n,     \* rows of more classes than this are sorted by weight
  ext_scorer,       \* a scorer is enabled
  hot_words,        \* the words with a boost, and the boosts
  abs_time_step,    \* rows seen
  start_expanding,  \* a row with a low enough blank has been seen
  trie,             \* the nodes below prefix_root_
  prefixes,         \* the paths in prefixes_
  doomed,           \* paths beyond the beam, not yet removed
  results,          \* what the last decode returned
  rows,             \* the rows that expanded the beam (history)
  pruned            \* the beam or the cutoff has dropped something (history)

settings == <<beam_size, cutoff_top_n, ext_scorer, hot_words>>

vars == <<settings, abs_time_step, start_expanding, trie, prefixes, doomed, results, rows,
          pruned>>

-----------------------------------------------------------------------------
(* One time step *)

\* prob[blank_id_] < 0.999 for normalised rows.
LowBlank(w) ==
  w[blank_id] * QuietDen < QuietNum * SumFunction(w)

\* Fault: the bonus of a word is forgotten.
CutOff_NoBeta(w, c, p) ==
  /\ ext_scorer /\ Cardinality(prefixes) = beam_size
  /\ w[c] * trie[p].score < w[blank_id] * Min({trie[q].score : q \in prefixes})

\* min_cutoff: with a scorer and a full beam, what even the largest factor of
\* a word (max(0.0, beta)) keeps below the worst prefix followed by a blank.
CutOff(w, c, p) ==
  /\ ext_scorer /\ Cardinality(prefixes) = beam_size
  /\ w[c] * trie[p].score * Max({LmUnit, beta})
       < w[blank_id] * Min({trie[q].score : q \in prefixes}) * LmUnit

\* The prefixes that the inner loop combines with class c: those of
\* probability zero are skipped.
Active(w, c) == {p \in prefixes : trie[p].score > 0 /\ ~CutOff(w, c, p)}

\* The paths get_path_trie is asked for and does not refuse.
Extensions(w) ==
  {q \in UNION {{Append(p, c) : p \in Active(w, c)} : c \in Labels} :
     ext_scorer => InDictionary(q)}

\* The three ways a prefix collects probability from a row w: the blank, a
\* repeated last label, a new label after its parent.  The same label twice
\* needs a blank in between.
FromBlank(w, q) ==
  IF q \in Active(w, blank_id) THEN w[blank_id] * trie[q].score ELSE 0

FromRepeat(w, q) ==
  IF q # << >> /\ q \in Active(w, Last(q)) THEN w[Last(q)] * trie[q].log_prob_nb_prev
                                           ELSE 0

\* The language model scores the word before a space, not the space.
Scored(prob, q) ==
  IF ext_scorer /\ Boundary(Last(q))
  THEN LET ngram == make_ngram(Front(q))
       IN  (prob * CondProb(ngram) * HotBoost(hot_words, ngram)) \div LmUnit
  ELSE prob

\* The probability that the parent of q gives it.
Extended(w, q) ==
  LET p == Front(q)
  IN  Scored(w[Last(q)] * IF character(p) = Last(q) THEN trie[p].log_prob_b_prev
                                                    ELSE trie[p].score, q)

FromParent(w, q) == IF q \in Extensions(w) THEN Extended(w, q) ELSE 0

\* Rows are visited in the order of the classes, the blank last, unless
\* get_pruned_log_probs sorts them: the sets of labels that can come after
\* the blank.  cutoff_prob is 1.0, so that no class is cut off.
AfterBlank(w) ==
  IF cutoff_top_n < alphabet_size + 1
  THEN {S \in SUBSET Labels : \A c \in Labels :
          /\ w[c] < w[blank_id] => c \in S
          /\ w[c] > w[blank_id] => c \notin S}
  ELSE {{}}

\* previous_timesteps is set when the extension of the parent beats the
\* repetition (a tie goes to the one visited first), and reset when the blank
\* beats both, if it is visited after the label.
Advances(w, q, late, parentFirst) ==
  LET ext == FromParent(w, q)
      rep == FromRepeat(w, q)
  IN  /\ ext > rep \/ (ext = rep /\ ext > 0 /\ q \in parentFirst)
      /\ FromBlank(w, q) > ext + rep => Last(q) \in late

\* Prefixes whose timesteps depend on the order of prefixes_.
Ties(w) == {q \in Extensions(w) : FromParent(w, q) = FromRepeat(w, q) /\ FromParent(w, q) > 0}

\* Fault: parents are updated before their children.
iterate_to_vec_ParentsFirst(w, late, parentFirst) ==
  LET grown == get_path_trie(trie, Extensions(w))
      Times(q) == IF q # << >> /\ Advances(w, q, late, parentFirst)
                  THEN Append(trie[Front(q)].timesteps, abs_time_step)
                  ELSE grown[q].timesteps
      Update(q) ==
        LET b == FromBlank(w, q)
            nb == FromRepeat(w, q) + FromParent(w, q)
        IN  [exists |-> TRUE, log_prob_b_prev |-> b, log_prob_nb_prev |-> nb,
             score |-> b + nb,
             timesteps |-> IF q # << >> /\ Advances(w, q, late, parentFirst)
                           THEN Append(Times(Front(q)), abs_time_step)
                           ELSE grown[q].timesteps]
  IN  [q \in DOMAIN grown |-> IF grown[q].exists THEN Update(q) ELSE grown[q]]

\* iterate_to_vec: the sums of the row become the probabilities of the node.
iterate_to_vec(w, late, parentFirst) ==
  LET grown == get_path_trie(trie, Extensions(w))
      Update(q) ==
        LET b == FromBlank(w, q)
            nb == FromRepeat(w, q) + FromParent(w, q)
        IN  [exists |-> TRUE, log_prob_b_prev |-> b, log_prob_nb_prev |-> nb,
             score |-> b + nb,
             timesteps |-> IF Advances(w, q, late, parentFirst)
                           THEN Append(trie[Front(q)].timesteps, abs_time_step)
                           ELSE grown[q].timesteps]
  IN  [q \in DOMAIN grown |-> IF grown[q].exists THEN Update(q) ELSE grown[q]]

-----------------------------------------------------------------------------
(* Operations *)

\* init
Init ==
  /\ \E a \in Arguments : /\ beam_size = a.beam_size /\ cutoff_top_n = a.cutoff_top_n
                         /\ ext_scorer = a.ext_scorer /\ hot_words = a.hot_words
  /\ abs_time_step = 0
  /\ start_expanding = FALSE
  /\ trie = [q \in {<< >>} |-> [NewPathTrie EXCEPT !.score = Scale,
                                                  !.log_prob_b_prev = Scale,
                                                  !.timesteps = << >>]]
  /\ prefixes = {<< >>}
  /\ doomed = {}
  /\ results = {}
  /\ rows = << >>
  /\ pruned = FALSE

\* A row before the beam starts expanding: only the time advances.
Skip(w) ==
  /\ ~start_expanding
  /\ ~LowBlank(w)
  /\ UNCHANGED <<start_expanding, trie, prefixes, doomed, rows, pruned>>

\* A row that expands the beam.  The best beam_size prefixes stay.
Expand(w) ==
  /\ start_expanding \/ LowBlank(w)
  /\ start_expanding' = TRUE
  /\ \E late \in AfterBlank(w), parentFirst \in SUBSET Ties(w) :
       trie' = iterate_to_vec(w, late, parentFirst)
  /\ LET all == Existing(trie')
         n == IF Cardinality(all) > beam_size THEN beam_size ELSE Cardinality(all)
     IN  \E K \in Best(trie', all, n) :
           /\ prefixes' = K
           /\ doomed' = all \ K
           /\ pruned' = (pruned \/ all # K \/ \E p \in prefixes, c \in Classes : CutOff(w, c, p))
  /\ rows' = Append(rows, w)

\* One iteration of the loop over time in next().
TimeStep(w) ==
  /\ doomed = {}
  /\ abs_time_step < MaxSteps(ext_scorer)
  /\ Skip(w) \/ Expand(w)
  /\ abs_time_step' = abs_time_step + 1
  /\ results' = {}
  /\ UNCHANGED settings

\* prefixes_[i]->remove() for one i beyond the beam; nth_element leaves them
\* in no particular order.
Prune(q) ==
  /\ q \in doomed
  /\ trie' = remove(trie, q)
  /\ doomed' = doomed \ {q}
  /\ UNCHANGED <<settings, abs_time_step, start_expanding, prefixes, results, rows, pruned>>

\* Fault: every prefix has its last word scored, after a space too.
Rescored_Always(q) ==
  IF ext_scorer /\ q # << >>
  THEN (trie[q].score * CondProb(make_ngram(q))) \div LmUnit
  ELSE trie[q].score

\* The score of a prefix with its last word, unless it ends with a space.
Rescored(q) ==
  IF ext_scorer /\ q # << >> /\ ~Boundary(Last(q))
  THEN (trie[q].score * CondProb(make_ngram(q))) \div LmUnit
  ELSE trie[q].score

\* decode: the best num_results prefixes with their times and confidence.
decode(num_results) ==
  /\ doomed = {}
  /\ LET scores == [q \in prefixes |-> [score |-> Rescored(q)]]
         size == Cardinality(prefixes)
         n == IF num_results < size THEN num_results ELSE size
     IN  \E K \in Best(scores, prefixes, n) :
           results' = {[tokens |-> q, timesteps |-> trie[q].timesteps,
                        confidence |-> scores[q].score] : q \in K}
  /\ UNCHANGED <<settings, abs_time_step, start_expanding, trie, prefixes, doomed, rows, pruned>>

Next ==
  \/ \E w \in Emissions : TimeStep(w)
  \/ \E q \in doomed : Prune(q)
  \/ \E n \in 1 .. MaxResults : decode(n)

Spec == Init /\ [][Next]_vars

-----------------------------------------------------------------------------
(* Reference: the CTC probability of a transcript *)

\* The transcript of an alignment, a class per row: repetitions merged, then
\* blanks dropped.
Collapse(alignment) ==
  FoldLeftDomain(LAMBDA q, i :
                   IF alignment[i] = blank_id \/ (i > 1 /\ alignment[i - 1] = alignment[i])
                   THEN q ELSE Append(q, alignment[i]),
                 << >>, alignment)

Weight(alignment) ==
  FoldLeftDomain(LAMBDA weight, i : weight * rows[i][alignment[i]], 1, alignment)

\* Every alignment with its transcript, and the total weight of those of q.
Collapsed == {<<a, Collapse(a)>> : a \in [1 .. Len(rows) -> Classes]}

CTC(collapsed, q) ==
  SumFunction([pair \in {pair \in collapsed : pair[2] = q} |-> Weight(pair[1])])

\* The words of a transcript, read from the left: the ones a space ends, and
\* what follows the last space.
Words(q) ==
  FoldLeft(LAMBDA read, c :
             IF c = space_id THEN [done |-> Append(read.done, read.open), open |-> << >>]
                             ELSE [read EXCEPT !.open = Append(@, c)],
           [done |-> << >>, open |-> << >>], q)

\* The factor of word i: its probability after the words before it, and the
\* boost of every hot word among them and itself if a space follows it.
WordFactor(words, i, spaced) ==
  LET from == IF i > max_order THEN i - max_order + 1 ELSE 1
      read == SubSeq(words, from, i)
      boost == FoldLeft(LAMBDA x, word :
                          x * IF word \in DOMAIN hot_words THEN hot_words[word] ELSE 1,
                        1, read)
  IN  (IF Range(read) \subseteq vocabulary THEN BaseScore(read, i < max_order) ELSE OOV_SCORE)
        * (IF spaced THEN boost ELSE 1)

\* prob with the factors of the words: the first n are followed by a space.
TimesLm(prob, words, n) ==
  FoldLeftDomain(LAMBDA acc, i : (acc * WordFactor(words, i, i <= n)) \div LmUnit,
                 prob * Scale, words)

\* The probability of the transcript with the language model's.
Reference(collapsed, q) ==
  LET done == IF ext_scorer THEN Words(q).done ELSE << >>
  IN  TimesLm(CTC(collapsed, q), done, Len(done))

-----------------------------------------------------------------------------
(* Properties *)

Paths == Seq(Labels)

Nodes ==
  [exists : BOOLEAN, log_prob_b_prev : Nat, log_prob_nb_prev : Nat, score : Nat,
   timesteps : Seq(Nat) \cup {Null}]

\* Type invariant of the decoder.
TypeOK ==
  /\ abs_time_step \in Nat
  /\ start_expanding \in BOOLEAN
  /\ \A q \in DOMAIN trie : q \in Paths /\ trie[q] \in Nodes
  /\ prefixes \subseteq Paths
  /\ doomed \subseteq Paths
  /\ rows \in Seq(Emissions)
  /\ pruned \in BOOLEAN

\* remove() never leaves a dangling pointer: whatever the order of the
\* removals, prefixes_ and the prefixes still to be removed point to nodes
\* that are allocated and exist, every node has its parent, and the root,
\* which has no parent to be removed from, stays.
NoDanglingPrefix ==
  /\ << >> \in DOMAIN trie
  /\ \A q \in DOMAIN trie \ {<< >>} : Front(q) \in DOMAIN trie
  /\ prefixes \cup doomed = Existing(trie)

\* Between two time steps the trie holds no dead branch: every node leads to
\* a prefix of the beam, and the beam has at most beam_size of them.
BeamOwnsTrie ==
  doomed = {} =>
    /\ prefixes # {} /\ Cardinality(prefixes) <= beam_size
    /\ \A q \in DOMAIN trie : \E p \in prefixes : IsPrefix(q, p)

\* The trie between any two steps of the search and of its pruning: types, no
\* dangling pointer, no dead branch.
TrieInv ==
  /\ TypeOK
  /\ NoDanglingPrefix
  /\ BeamOwnsTrie

\* Pruning can only lose probability: the score of a prefix never counts an
\* alignment twice or one of another transcript, not even after the prefix
\* was dropped from the beam and revived.
ScoresBelowCTC ==
  LET collapsed == Collapsed
  IN  \A q \in prefixes : trie[q].score <= Reference(collapsed, q)

\* As long as nothing was pruned, the score of every prefix is the exact CTC
\* probability of its transcript, split by whether it ends in a blank.
ScoresAreCTC ==
  ~pruned =>
    LET collapsed == Collapsed
        Ending(blank) ==
          {pair \in collapsed :
             IF pair[1] = << >> THEN blank ELSE (Last(pair[1]) = blank_id) = blank}
    IN  \A q \in prefixes :
          /\ trie[q].log_prob_b_prev = Reference(Ending(TRUE), q)
          /\ trie[q].log_prob_nb_prev = Reference(Ending(FALSE), q)
          /\ trie[q].score = trie[q].log_prob_b_prev + trie[q].log_prob_nb_prev

\* The scores of the beam against the sum over all alignments: a bound always,
\* an equality as long as nothing was pruned.
ScoresSound ==
  /\ ScoresBelowCTC
  /\ ScoresAreCTC

\* A prefix that can be expanded has a history (the assert of next()), with
\* one time per token, in strictly increasing order.
TimestepsAligned ==
  \A q \in prefixes : trie[q].score > 0 =>
    /\ trie[q].timesteps # Null
    /\ Len(trie[q].timesteps) = Len(q)
    /\ \A i \in 1 .. Len(q) :
         /\ trie[q].timesteps[i] < abs_time_step
         /\ i > 1 => trie[q].timesteps[i - 1] < trie[q].timesteps[i]

\* The best transcript always has a history, so a decode of one result, what
\* DS_IntermediateDecode and DS_FinishStream ask for, never meets a null.
BestHasHistory ==
  Cardinality(results) = 1 =>
    \A r \in results :
      r.confidence > 0 /\ r.timesteps # Null /\ Len(r.timesteps) = Len(r.tokens)

\* A prefix that most probably ended in a blank was not timed at this row:
\* next() keeps the current timesteps when the blank beats the label.  Its
\* comment relies on the blank coming last, so on rows that are not sorted.
BlankKeepsTimesteps ==
  cutoff_top_n > alphabet_size => \A q \in prefixes \ {<< >>} :
    trie[q].log_prob_b_prev > trie[q].log_prob_nb_prev =>
      Last(trie[q].timesteps) # abs_time_step - 1

\* The times of a prefix: one per token, increasing, and not the row at which
\* the prefix most probably ended in a blank.
TimestepsSound ==
  /\ TimestepsAligned
  /\ BlankKeepsTimesteps

\* The dictionary holds along every path: the trie knows only words of the
\* vocabulary, each followed by one space, and the beginning of another one.
WordsInVocabulary ==
  ext_scorer => \A q \in DOMAIN trie :
    LET words == Words(q)
    IN  /\ Range(words.done) \subseteq vocabulary
        /\ \E word \in vocabulary : IsPrefix(words.open, word)

\* decode scores every word of a transcript exactly once, the last one too,
\* whether or not a space follows it: the confidence is the probability of
\* the transcript times that of its sentence, as long as nothing was pruned.
\* Hot words raise it at the space that follows, so never as the last word.
ResultsScoreWords ==
  ext_scorer /\ ~pruned =>
    LET collapsed == Collapsed
    IN  \A r \in results :
          LET words == Words(r.tokens)
          IN  r.confidence =
                TimesLm(CTC(collapsed, r.tokens),
                        IF words.open = << >> THEN words.done
                                              ELSE Append(words.done, words.open),
                        Len(words.done))

\* The cutoff loses no transcript: a new prefix that it skips would not have
\* come before any of the prefixes that are kept.  It knows nothing of the
\* boosts of hot words.
CutoffSound ==
  [][\A w \in Emissions : DOMAIN hot_words = {} /\ rows' = Append(rows, w) =>
       \A p \in prefixes, c \in Labels :
         LET q == Append(p, c)
         IN  CutOff(w, c, p) /\ q \notin prefixes /\ InDictionary(q) =>
               \A kept \in prefixes' : trie'[kept].score >= Extended(w, q)]_vars

=============================================================================
