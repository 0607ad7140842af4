--------------------------- MODULE MCDecoderState ---------------------------
(* Instance of DecoderState for TLC: a space, a letter and the blank. *)
EXTENDS DecoderState

Row(space, a, blank) == [c \in 0 .. 2 |-> <<space, a, blank>>[c + 1]]

\* A clear space, an undecided row, a row the blank dominates, and one in
\* which it dominates enough to delay the expansion.
MCEmissions == {Row(3, 1, 1), Row(1, 2, 2), Row(1, 1, 3), Row(1, 1, 8)}

\* One word is the beginning of another.
MCVocabulary == {<<1>>, <<1, 1>>}

\* A bigram model: the start of the sentence prefers the short word, a
\* repeated word is unlikely.
MCBaseScore(ngram, bos) ==
  CASE ngram = << >> -> 1
    [] bos -> IF Last(ngram) = <<1>> THEN 16 ELSE 4
    [] OTHER -> IF Len(ngram) > 1 /\ ngram[1] = ngram[2] THEN 2 ELSE 9

NoHotWords == [word \in {} |-> 1]

MCHotWords == [word \in {<<1>>} |-> 2]

\* With a scorer, rows for three words: more than max_order.
MCMaxSteps(scorer) == IF scorer THEN 5 ELSE 4

Given(beam, top_n, scorer, hot) ==
  [beam_size |-> beam, cutoff_top_n |-> top_n, ext_scorer |-> scorer, hot_words |-> hot]

\* Beams that prune and beams that hold every prefix, without a scorer and
\* with one, hot words too; and a row of more classes than cutoff_top_n.
MCArguments ==
  {Given(4, 3, FALSE, NoHotWords), Given(100, 3, FALSE, NoHotWords),
   Given(3, 2, FALSE, NoHotWords),
   Given(2, 3, TRUE, NoHotWords), Given(100, 3, TRUE, MCHotWords)}

=============================================================================
