------------------------------ MODULE PathTrie ------------------------------
(***************************************************************************)
(* The prefix trie of the CTC beam search, ctcdecode/path_trie.cpp.        *)
(*                                                                         *)
(* A node is named by the labels on the way to it (get_path_vec), so a     *)
(* trie is a function from the paths of its allocated nodes to the fields  *)
(* of the nodes: the parent of a node is its path without the last label,  *)
(* its children_ are the paths one label longer.                           *)
(*                                                                         *)
(* Log probabilities are modelled by the probabilities themselves, scaled  *)
(* to natural numbers: -NUM_FLT_INF is 0, a sum of logarithms is a product *)
(* and log_sum_exp is a sum.  Between two time steps log_prob_b_cur and    *)
(* log_prob_nb_cur are -NUM_FLT_INF and previous_timesteps is null in      *)
(* every node, so a node keeps log_prob_b_prev, log_prob_nb_prev, score,   *)
(* exists_ and timesteps.                                                  *)
(*                                                                         *)
(* The timesteps tree shares one node per parent and time and never frees  *)
(* one, so a pointer into it is the sequence of times on the way to it     *)
(* (get_history); Null is the null pointer.                                *)
(***************************************************************************)
EXTENDS Naturals, Sequences, FiniteSets, FiniteSetsExt, Functions, SequencesExt

CONSTANT Null   \* the null TimestepTreeNode pointer

\* ROOT_ is -1 in an unsigned field: all that matters is that the root's
\* character is above every label.
ROOT == 2147483647

character(path) == IF path = << >> THEN ROOT ELSE Last(path)

\* A node as the constructor makes it.
NewPathTrie ==
  [exists |-> TRUE, log_prob_b_prev |-> 0, log_prob_nb_prev |-> 0, score |-> 0,
   timesteps |-> Null]

Children(trie, path) == {q \in DOMAIN trie : Len(q) = Len(path) + 1 /\ IsPrefix(path, q)}

\* The nodes that iterate_to_vec collects.
Existing(trie) == {q \in DOMAIN trie : trie[q].exists}

\* The trie after get_path_trie was asked for every path of the set paths:
\* an absent node is allocated, a removed one comes back with its log
\* probabilities reset and with the timesteps it had.
get_path_trie(trie, paths) ==
  [q \in DOMAIN trie \cup paths |->
     IF q \notin DOMAIN trie THEN NewPathTrie
     ELSE IF q \in paths /\ ~trie[q].exists
          THEN [trie[q] EXCEPT !.exists = TRUE,
                               !.log_prob_b_prev = 0,
                               !.log_prob_nb_prev = 0]
          ELSE trie[q]]

\* Fault: the recursion on the parent does not look at its exists_ flag.
Deleted_AnyParent(trie, path) ==
  {a \in DOMAIN trie :
     /\ IsPrefix(a, path)
     /\ \A q \in DOMAIN trie : IsPrefix(a, q) => IsPrefix(q, path)}

\* The nodes that remove() deletes: the node if it has no children, then each
\* ancestor that this leaves without children, up to the first that exists.
Deleted(trie, path) ==
  {a \in DOMAIN trie :
     /\ IsPrefix(a, path)
     /\ \A q \in DOMAIN trie : IsPrefix(a, q) => IsPrefix(q, path)
     /\ \A q \in DOMAIN trie :
          IsPrefix(a, q) /\ q # path => ~trie[q].exists}

\* remove(): the node no longer exists and branches left dead are deleted.
remove(trie, path) ==
  LET marked == [trie EXCEPT ![path].exists = FALSE]
  IN  [q \in DOMAIN trie \ Deleted(marked, path) |-> marked[q]]

\* Fault: the worst prefixes go first.
prefix_compare_Ascending(trie, x, y) ==
  \/ trie[x].score < trie[y].score
  \/ /\ trie[x].score = trie[y].score
     /\ character(x) < character(y)

\* The order of decoder_utils.cpp: by score, then by label.
prefix_compare(trie, x, y) ==
  \/ trie[x].score > trie[y].score
  \/ /\ trie[x].score = trie[y].score
     /\ character(x) < character(y)

\* The outcomes of nth_element and partial_sort: n elements of S that nothing
\* left out goes before.  Among elements the order does not tell apart, at
\* the edge of the n best, any may be taken.
Best(trie, S, n) ==
  LET Sure == {x \in S : Cardinality({y \in S : ~prefix_compare(trie, x, y)}) <= n}
      Tied == {x \in S \ Sure : Cardinality({y \in S : prefix_compare(trie, y, x)}) < n}
  IN  {Sure \cup T : T \in kSubset(n - Cardinality(Sure), Tied)}

=============================================================================
