------------------------------ MODULE ExecPlan ------------------------------
(***************************************************************************)
(* find_parent_node_ids of tflitemodelstate.cc: the backwards breadth      *)
(* first search that builds the execution plan of the MFCC part of the     *)
(* TFLite graph.                                                           *)
(*                                                                         *)
(* Nodes are numbered as the interpreter numbers them, 1 .. N here, in an  *)
(* order in which they can run.  Node n writes tensor n and reads the      *)
(* tensors inputs[n]; a tensor without a node, an input of the graph or a  *)
(* constant, is 0.  Nodes have one output each, like those the search meets *)
(* here: the MFCC nodes and the metadata constants of the exported graph.  *)
(***************************************************************************)
EXTENDS Naturals, Sequences

CONSTANTS
  N,        \* nodes of the graph
  GraphSet  \* the graphs considered: the input tensors of every node

Nodes == 1 .. N

Tensors == 0 .. N

\* The order of the nodes is topological, as the converter leaves it.
ASSUME GraphAssumption ==
  /\ N \in Nat \ {0}
  /\ GraphSet \subseteq [Nodes -> Seq(Tensors)]
  /\ \A g \in GraphSet : \A n \in Nodes : \A j \in 1 .. Len(g[n]) : g[n][j] < n

VARIABLES
  inputs,    \* the graph
  target,    \* the tensor whose parents are collected
  frontier,  \* tensors whose producers are still to be found
  parents,   \* the plan built so far, from front to back
  j          \* input of Head(parents) to push next, 0 outside the loop

vars == <<inputs, target, frontier, parents, j>>

-----------------------------------------------------------------------------

Has(list, value) == \E i \in 1 .. Len(list) : list[i] = value

\* Fault: a tensor is not looked at again once its node is in the plan.
push_back_if_not_present_Visited(list, value) ==
  IF Has(list, value) \/ Has(parents, value) THEN list ELSE Append(list, value)

\* Tests the frontier only: a tensor that has left it is pushed again.
push_back_if_not_present(list, value) ==
  IF Has(list, value) THEN list ELSE Append(list, value)

Init ==
  /\ inputs \in GraphSet
  /\ target \in Nodes
  /\ frontier = <<target>>
  /\ parents = << >>
  /\ j = 0

\* The next tensor of the frontier has a node: the node goes to the front.
PopProduced ==
  /\ j = 0
  /\ frontier # << >>
  /\ Head(frontier) \in Nodes
  /\ parents' = <<Head(frontier)>> \o parents
  /\ frontier' = Tail(frontier)
  /\ j' = 1
  /\ UNCHANGED <<inputs, target>>

\* The next tensor of the frontier has no node.
PopInput ==
  /\ j = 0
  /\ frontier # << >>
  /\ Head(frontier) \notin Nodes
  /\ frontier' = Tail(frontier)
  /\ UNCHANGED <<inputs, target, parents, j>>

\* Fault: the first input of a node is taken for its name.
PushInput_SkipsFirst ==
  /\ j > 0
  /\ j <= Len(inputs[Head(parents)])
  /\ frontier' = IF j = 1 THEN frontier
                 ELSE push_back_if_not_present(frontier, inputs[Head(parents)][j])
  /\ j' = j + 1
  /\ UNCHANGED <<inputs, target, parents>>

\* An input tensor of the node just found joins the frontier.
PushInput ==
  /\ j > 0
  /\ j <= Len(inputs[Head(parents)])
  /\ frontier' = push_back_if_not_present(frontier, inputs[Head(parents)][j])
  /\ j' = j + 1
  /\ UNCHANGED <<inputs, target, parents>>

\* Fault: the loop over the inputs starts over.
PushDone_Again ==
  /\ j > 0
  /\ j > Len(inputs[Head(parents)])
  /\ j' = IF Len(inputs[Head(parents)]) > 1 THEN 1 ELSE 0
  /\ UNCHANGED <<inputs, target, frontier, parents>>

PushDone ==
  /\ j > 0
  /\ j > Len(inputs[Head(parents)])
  /\ j' = 0
  /\ UNCHANGED <<inputs, target, frontier, parents>>

Next == PopProduced \/ PopInput \/ PushInput \/ PushDone

Spec == Init /\ [][Next]_vars

\* A loop on the caller's thread.
FairSpec == Spec /\ WF_vars(Next)

-----------------------------------------------------------------------------
(* Properties *)

\* The search is over: parents is the plan it returns.
Done == j = 0 /\ frontier = << >>

\* Type invariant of the search.
TypeOK ==
  /\ inputs \in GraphSet
  /\ target \in Nodes
  /\ frontier \in Seq(Tensors)
  /\ parents \in Seq(Nodes)
  /\ j \in Nat
  /\ j > 0 => parents # << >>

\* The node of tensor u runs before position i of the plan.
ProducedBefore(u, i) == \E k \in 1 .. i - 1 : parents[k] = u

\* The plan can be run from front to back: whatever path leads to a node
\* first, every node finds the tensors it reads written by a node before it,
\* unless they are inputs of the graph.
PlanRunnable ==
  Done =>
    \A i \in 1 .. Len(parents) : \A m \in 1 .. Len(inputs[parents[i]]) :
      inputs[parents[i]][m] # 0 => ProducedBefore(inputs[parents[i]][m], i)

\* What makes it so: an input of a planned node that no earlier node of the
\* plan writes is in the frontier, or is about to be pushed there.
InputsPending ==
  \A i \in 1 .. Len(parents) : \A m \in 1 .. Len(inputs[parents[i]]) :
    \/ inputs[parents[i]][m] = 0
    \/ ProducedBefore(inputs[parents[i]][m], i)
    \/ Has(frontier, inputs[parents[i]][m])
    \/ i = 1 /\ j > 0 /\ j <= m

\* The inductive invariant of BackendProofs.
PlanInv == TypeOK /\ InputsPending

\* The nodes from which tensor t is computed, by the number of the node.
Parents(t) ==
  LET reach[n \in Nodes] ==
        IF n = t THEN TRUE
        ELSE \E m \in n + 1 .. N : Has(inputs[m], n) /\ reach[m]
  IN  {n \in Nodes : reach[n]}

\* The plan runs just the nodes that the target depends on, and ends with the
\* node of the target.
PlanExact ==
  Done =>
    /\ {parents[i] : i \in 1 .. Len(parents)} = Parents(target)
    /\ parents[Len(parents)] = target

\* The search ends although tensors are pushed again.
Terminates == <>Done

=============================================================================
