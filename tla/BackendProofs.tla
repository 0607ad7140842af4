--------------------------- MODULE BackendProofs ---------------------------
(***************************************************************************)
(* The back end of a model.  For every graph, the plan that                *)
(* find_parent_node_ids builds holds exactly the nodes that produce the    *)
(* target and can be run from front to back (ExecPlan).  For any number    *)
(* of streams, no audio of one reaches the logits of another               *)
(* (ModelBackend).                                                         *)
(***************************************************************************)
EXTENDS ExecPlan, ModelBackend, SequenceTheorems, WellFoundedInduction, TLAPS
-----------------------------------------------------------------------------
(* The plan *)

\* Prepending a node moves the plan by one position.
LEMMA PrependPositions ==
  ASSUME NEW S, NEW e \in S, NEW s \in Seq(S)
  PROVE  /\ <<e>> \o s \in Seq(S)
         /\ Len(<<e>> \o s) = Len(s) + 1
         /\ (<<e>> \o s)[1] = e
         /\ \A i \in 1 .. Len(s) : (<<e>> \o s)[i + 1] = s[i]
         /\ Head(<<e>> \o s) = e
         /\ <<e>> \o s # << >>
  OBVIOUS

\* What is in a frontier is its head or in its tail.
LEMMA HeadOrTail ==
  ASSUME NEW S, NEW s \in Seq(S), s # << >>, NEW v, Has(s, v)
  PROVE  v = Head(s) \/ Has(Tail(s), v)
<1>1. PICK i \in 1 .. Len(s) : s[i] = v
  BY DEF Has
<1>2. CASE i = 1
  BY <1>1, <1>2
<1>3. CASE i > 1
  <2>1. i - 1 \in 1 .. Len(Tail(s)) /\ Tail(s)[i - 1] = v
    BY <1>1, <1>3
  <2> QED BY <2>1 DEF Has
<1> QED BY <1>1, <1>2, <1>3

\* A push keeps what the frontier has and adds the value.
LEMMA PushHas ==
  ASSUME NEW S, NEW s \in Seq(S), NEW value \in S
  PROVE  /\ push_back_if_not_present(s, value) \in Seq(S)
         /\ Has(push_back_if_not_present(s, value), value)
         /\ \A v : Has(s, v) => Has(push_back_if_not_present(s, value), v)
<1>1. CASE Has(s, value)
  BY <1>1 DEF push_back_if_not_present
<1>2. CASE ~Has(s, value)
  <2>1. push_back_if_not_present(s, value) = Append(s, value)
    BY <1>2 DEF push_back_if_not_present
  <2>2. Append(s, value) \in Seq(S) /\ Len(Append(s, value)) = Len(s) + 1
    OBVIOUS
  <2>3. Append(s, value)[Len(s) + 1] = value
    OBVIOUS
  <2>4. \A i \in 1 .. Len(s) : Append(s, value)[i] = s[i]
    OBVIOUS
  <2> QED BY <2>1, <2>2, <2>3, <2>4 DEF Has
<1> QED BY <1>1, <1>2

\* Every step keeps the types.
LEMMA TypeStep ==
  ASSUME TypeOK, [Next]_vars
  PROVE  TypeOK'
<1> USE DEF TypeOK
<1>1. CASE PopProduced
  <2>1. Head(frontier) \in Nodes /\ Tail(frontier) \in Seq(Tensors)
    BY <1>1 DEF PopProduced
  <2>2. <<Head(frontier)>> \o parents \in Seq(Nodes)
        /\ <<Head(frontier)>> \o parents # << >>
    BY <2>1, PrependPositions
  <2> QED BY <1>1, <2>1, <2>2 DEF PopProduced
<1>2. CASE PopInput
  BY <1>2 DEF PopInput
<1>3. CASE PushInput
  <2>1. Head(parents) \in Nodes
    BY <1>3 DEF PushInput
  <2>2. inputs[Head(parents)] \in Seq(Tensors)
    BY <2>1, GraphAssumption
  <2>3. inputs[Head(parents)][j] \in Tensors
    BY <1>3, <2>2 DEF PushInput
  <2>4. frontier' \in Seq(Tensors)
    BY <1>3, <2>3, PushHas DEF PushInput
  <2> QED BY <1>3, <2>4 DEF PushInput
<1>4. CASE PushDone
  BY <1>4 DEF PushDone
<1>5. CASE UNCHANGED vars
  BY <1>5 DEF vars
<1> QED BY <1>1, <1>2, <1>3, <1>4, <1>5 DEF Next

\* The types hold in every reachable state, for every graph.
THEOREM TypeCorrect == Spec => []TypeOK
<1>1. Init => TypeOK
  BY GraphAssumption DEF Init, TypeOK, Nodes, Tensors
<1> QED BY <1>1, TypeStep, PTL DEF Spec

\* What InputsPending says of the next state, with every prime in place.
LEMMA PendingNext ==
  ASSUME \A i \in 1 .. Len(parents') : \A m \in 1 .. Len(inputs'[parents'[i]]) :
           \/ inputs'[parents'[i]][m] = 0
           \/ \E k \in 1 .. i - 1 : parents'[k] = inputs'[parents'[i]][m]
           \/ Has(frontier', inputs'[parents'[i]][m])
           \/ i = 1 /\ j' > 0 /\ j' <= m
  PROVE  InputsPending'
BY DEF InputsPending, ProducedBefore, Has

\* A node that goes to the front writes its tensor before every node planned
\* so far, and its own inputs are about to be pushed.
LEMMA PendingPop ==
  ASSUME TypeOK, InputsPending, PopProduced
  PROVE  InputsPending'
<1> DEFINE h == Head(frontier)
<1>1. /\ h \in Nodes
      /\ parents' = <<h>> \o parents
      /\ frontier' = Tail(frontier)
      /\ j' = 1 /\ inputs' = inputs
  BY DEF PopProduced
<1>2. parents \in Seq(Nodes) /\ frontier \in Seq(Tensors) /\ frontier # << >>
  BY DEF TypeOK, PopProduced
<1> HIDE DEF h
<1>3. /\ Len(parents') = Len(parents) + 1
      /\ parents'[1] = h
      /\ \A i \in 1 .. Len(parents) : parents'[i + 1] = parents[i]
  BY <1>1, <1>2, PrependPositions
<1>4. SUFFICES ASSUME NEW i \in 1 .. Len(parents'),
                      NEW m \in 1 .. Len(inputs[parents'[i]])
               PROVE  \/ inputs[parents'[i]][m] = 0
                      \/ \E k \in 1 .. i - 1 : parents'[k] = inputs[parents'[i]][m]
                      \/ Has(frontier', inputs[parents'[i]][m])
                      \/ i = 1 /\ j' > 0 /\ j' <= m
  <2>1. inputs' = inputs
    BY <1>1
  <2> QED BY <2>1, PendingNext, Zenon
<1>5. CASE i = 1
  BY <1>1, <1>5
<1>6. CASE i > 1
  <2>1. Len(parents) \in Nat
    BY <1>2
  <2>2. i - 1 \in 1 .. Len(parents) /\ i = (i - 1) + 1
    BY <1>3, <1>6, <2>1
  <2>3. parents'[i] = parents[i - 1]
    BY <1>3, <2>2
  <2> DEFINE u == inputs[parents[i - 1]][m]
  <2>4. \/ u = 0
        \/ \E k \in 1 .. (i - 1) - 1 : parents[k] = u
        \/ Has(frontier, u)
        \/ j > 0
    BY <2>2, <2>3 DEF InputsPending, ProducedBefore
  <2>5. j = 0
    BY DEF PopProduced
  <2> HIDE DEF u
  <2>6. CASE \E k \in 1 .. (i - 1) - 1 : parents[k] = u
    <3>1. PICK k \in 1 .. (i - 1) - 1 : parents[k] = u
      BY <2>6
    <3>2. k \in 1 .. Len(parents) /\ k + 1 \in 1 .. i - 1
      BY <2>1, <2>2, <1>6
    <3>3. parents'[k + 1] = u
      BY <1>3, <3>1, <3>2
    <3> QED BY <2>3, <3>2, <3>3 DEF u
  <2>7. CASE Has(frontier, u)
    <3>1. u = h \/ Has(Tail(frontier), u)
      BY <1>2, <2>7, HeadOrTail DEF h
    <3>2. 1 \in 1 .. i - 1
      BY <1>6
    <3> QED BY <1>1, <1>3, <2>3, <3>1, <3>2 DEF u
  <2> QED BY <2>3, <2>4, <2>5, <2>6, <2>7 DEF u
<1> QED BY <1>3, <1>2, <1>5, <1>6

\* A tensor without a node leaves the frontier: nothing waits for it.
LEMMA PendingInput ==
  ASSUME TypeOK, InputsPending, PopInput
  PROVE  InputsPending'
<1>1. /\ parents' = parents /\ inputs' = inputs /\ j' = j
      /\ frontier' = Tail(frontier) /\ j = 0
  BY DEF PopInput
<1>2. frontier \in Seq(Tensors) /\ frontier # << >>
  BY DEF TypeOK, PopInput
<1>3. Head(frontier) = 0
  <2>1. Head(frontier) \in Tensors /\ Head(frontier) \notin Nodes
    BY <1>2 DEF PopInput
  <2> QED BY <2>1, GraphAssumption DEF Tensors, Nodes
<1>4. \A u : Has(frontier, u) => u = 0 \/ Has(Tail(frontier), u)
  BY <1>2, <1>3, HeadOrTail
<1> QED BY <1>1, <1>4, PendingNext DEF InputsPending, ProducedBefore

\* A push takes an input from the loop to the frontier.
LEMMA PendingPush ==
  ASSUME TypeOK, InputsPending, PushInput
  PROVE  InputsPending'
<1> DEFINE value == inputs[Head(parents)][j]
<1>1. /\ parents' = parents /\ inputs' = inputs /\ j' = j + 1
      /\ frontier' = push_back_if_not_present(frontier, value)
      /\ j > 0 /\ j \in 1 .. Len(inputs[Head(parents)])
  BY DEF PushInput, TypeOK
<1>2. /\ parents \in Seq(Nodes) /\ parents # << >>
      /\ frontier \in Seq(Tensors) /\ j \in Nat
  BY <1>1 DEF TypeOK
<1>3. Head(parents) = parents[1] /\ Head(parents) \in Nodes
  BY <1>2
<1>4. value \in Tensors
  <2>1. inputs[Head(parents)] \in Seq(Tensors)
    BY <1>3, GraphAssumption DEF TypeOK
  <2> QED BY <1>1, <2>1
<1>5. Has(frontier', value) /\ \A u : Has(frontier, u) => Has(frontier', u)
  <2> HIDE DEF value
  <2> QED BY <1>1, <1>2, <1>4, PushHas
<1>6. SUFFICES ASSUME NEW i \in 1 .. Len(parents),
                      NEW m \in 1 .. Len(inputs[parents[i]])
               PROVE  \/ inputs[parents[i]][m] = 0
                      \/ ProducedBefore(inputs[parents[i]][m], i)
                      \/ Has(frontier', inputs[parents[i]][m])
                      \/ i = 1 /\ j' > 0 /\ j' <= m
  BY <1>1, PendingNext DEF ProducedBefore
<1>7. \/ inputs[parents[i]][m] = 0
      \/ ProducedBefore(inputs[parents[i]][m], i)
      \/ Has(frontier, inputs[parents[i]][m])
      \/ i = 1 /\ j > 0 /\ j <= m
  BY DEF InputsPending
<1>8. CASE i = 1 /\ j = m
  BY <1>3, <1>5, <1>8
<1>9. CASE i = 1 /\ j > 0 /\ j < m
  <2>1. m \in Nat
    OBVIOUS
  <2> QED BY <1>1, <1>2, <1>9, <2>1
<1>10. m \in Nat
  OBVIOUS
<1> QED BY <1>2, <1>5, <1>7, <1>8, <1>9, <1>10

\* The loop over the inputs ends when all of them were pushed.
LEMMA PendingDone ==
  ASSUME TypeOK, InputsPending, PushDone
  PROVE  InputsPending'
<1>1. /\ parents' = parents /\ inputs' = inputs /\ frontier' = frontier /\ j' = 0
      /\ j > Len(inputs[Head(parents)])
  BY DEF PushDone
<1>2. /\ parents \in Seq(Nodes) /\ parents # << >> /\ j \in Nat
  BY DEF TypeOK, PushDone
<1>3. Head(parents) = parents[1] /\ Head(parents) \in Nodes
  BY <1>2
<1>4. Len(inputs[parents[1]]) \in Nat
  BY <1>3, GraphAssumption DEF TypeOK
<1>5. \A m \in 1 .. Len(inputs[parents[1]]) : ~(j <= m)
  BY <1>1, <1>2, <1>3, <1>4
<1> QED BY <1>1, <1>5 DEF InputsPending, ProducedBefore, Has

\* Every step keeps the inductive invariant.
LEMMA InvStep ==
  ASSUME PlanInv, [Next]_vars
  PROVE  PlanInv'
<1>1. TypeOK /\ InputsPending
  BY DEF PlanInv
<1>2. TypeOK'
  BY <1>1, TypeStep
<1>3. CASE UNCHANGED vars
  BY <1>1, <1>2, <1>3 DEF vars, PlanInv, InputsPending, ProducedBefore, Has
<1>4. InputsPending' \/ UNCHANGED vars
  BY <1>1, PendingPop, PendingInput, PendingPush, PendingDone DEF Next
<1> QED BY <1>2, <1>3, <1>4 DEF PlanInv

\* PlanInv is an invariant of the search in every graph.
THEOREM PlanInvariant == Spec => []PlanInv
<1>1. Init => PlanInv
  <2>1. Init => TypeOK
    BY GraphAssumption DEF Init, TypeOK, Nodes, Tensors
  <2>2. Init => InputsPending
    BY DEF Init, InputsPending
  <2> QED BY <2>1, <2>2 DEF PlanInv
<1> QED BY <1>1, InvStep, PTL DEF Spec

\* The plan that find_parent_node_ids returns can be run from front to back.
THEOREM PlanIsRunnable == Spec => []PlanRunnable
<1>1. PlanInv => PlanRunnable
  BY DEF PlanInv, InputsPending, PlanRunnable, Done, Has, ProducedBefore
<1> QED BY <1>1, PlanInvariant, PTL

-----------------------------------------------------------------------------
(* The plan is exact *)

\* The recursion of Parents has a solution, the least set that holds t and
\* what its members read, and so Parents satisfies it.
LEMMA ParentsFix ==
  ASSUME TypeOK, NEW t \in Nodes
  PROVE  /\ Parents(t) \subseteq Nodes
         /\ \A n \in Nodes : n \in Parents(t) <=>
              n = t \/ \E m \in n + 1 .. N : Has(inputs[m], n) /\ m \in Parents(t)
<1> DEFINE F(X) == {n \in Nodes : n = t \/ \E m \in n + 1 .. N : Has(inputs[m], n) /\ m \in X}
           R == {n \in Nodes : \A X \in SUBSET Nodes : F(X) \subseteq X => n \in X}
<1>1. F(R) = R
  <2>1. \A X \in SUBSET Nodes : F(X) \subseteq X => R \subseteq X
    OBVIOUS
  <2>2. \A X, Y : X \subseteq Y => F(X) \subseteq F(Y)
    OBVIOUS
  <2>3. F(R) \subseteq R
    <3> SUFFICES ASSUME NEW n \in F(R), NEW X \in SUBSET Nodes, F(X) \subseteq X PROVE n \in X
      OBVIOUS
    <3>1. R \subseteq X
      BY <2>1
    <3> HIDE DEF R
    <3>2. F(R) \subseteq F(X)
      BY <2>2, <3>1
    <3> HIDE DEF F
    <3> QED BY <3>2
  <2> HIDE DEF R
  <2>4. F(F(R)) \subseteq F(R)
    BY <2>2, <2>3
  <2>5. F(R) \in SUBSET Nodes
    OBVIOUS
  <2>6. R \subseteq F(R)
    <3> HIDE DEF F
    <3> QED BY <2>1, <2>4, <2>5
  <2> QED BY <2>3, <2>6
<1> DEFINE Body(f, n) == IF n = t THEN TRUE ELSE \E m \in n + 1 .. N : Has(inputs[m], n) /\ f[m]
           Solves(f) == f = [n \in Nodes |-> Body(f, n)]
           reach == CHOOSE f : Solves(f)
           f0 == [n \in Nodes |-> n \in R]
<1>2. \A n \in Nodes : \A m \in n + 1 .. N : m \in Nodes
  BY GraphAssumption DEF Nodes
<1>3. Solves(f0)
  <2> HIDE DEF R
  <2>1. ASSUME NEW n \in Nodes PROVE f0[n] = Body(f0, n)
    <3>1. n \in R <=> n = t \/ \E m \in n + 1 .. N : Has(inputs[m], n) /\ m \in R
      BY <1>1
    <3>2. \A m \in n + 1 .. N : f0[m] <=> m \in R
      BY <1>2
    <3>3. f0[n] <=> n \in R
      OBVIOUS
    <3> HIDE DEF f0
    <3>4. Body(f0, n) <=> n \in R
      BY <3>1, <3>2
    <3>5. f0[n] \in BOOLEAN
      BY DEF f0
    <3> QED BY <3>3, <3>4, <3>5
  <2>2. f0 = [n \in Nodes |-> f0[n]]
    OBVIOUS
  <2> HIDE DEF f0, Body
  <2> QED BY <2>1, <2>2
<1>4. Solves(reach)
  <2> HIDE DEF f0
  <2> QED BY <1>3
<1>5. Parents(t) = {n \in Nodes : reach[n]}
  BY DEF Parents
<1> HIDE DEF reach
<1>6. ASSUME NEW n \in Nodes
      PROVE  reach[n] <=> n = t \/ \E m \in n + 1 .. N : Has(inputs[m], n) /\ reach[m]
  <2>1. reach[n] = Body(reach, n)
    <3> HIDE DEF Body
    <3> QED BY <1>4
  <2> QED BY <2>1
<1>7. \A n \in Nodes : \A m \in n + 1 .. N : m \in Parents(t) <=> reach[m]
  BY <1>2, <1>5
<1>8. ASSUME NEW n \in Nodes
      PROVE  n \in Parents(t) <=> n = t \/ \E m \in n + 1 .. N : Has(inputs[m], n) /\ m \in Parents(t)
  BY <1>5, <1>6, <1>7
<1> QED BY <1>5, <1>8
\* The search only ever meets what the target depends on, and the first node
\* it finds, the last of the plan, is that of the target.
ReachInv ==
  /\ \A i \in 1 .. Len(parents) : parents[i] \in Parents(target)
  /\ \A u : Has(frontier, u) => u = 0 \/ u \in Parents(target)
  /\ \/ parents = << >> /\ frontier = <<target>> /\ j = 0
     \/ parents # << >> /\ parents[Len(parents)] = target

LEMMA ReachStep ==
  ASSUME TypeOK, ReachInv, [Next]_vars
  PROVE  ReachInv'
<1> DEFINE P == Parents(target)
<1>1. inputs' = inputs /\ target' = target
  BY DEF Next, PopProduced, PopInput, PushInput, PushDone, vars
<1>2. P' = P
  BY <1>1 DEF Parents, Has
<1>3. /\ \A i \in 1 .. Len(parents) : parents[i] \in P
      /\ \A u : Has(frontier, u) => u = 0 \/ u \in P
      /\ \/ parents = << >> /\ frontier = <<target>> /\ j = 0
         \/ parents # << >> /\ parents[Len(parents)] = target
  BY DEF ReachInv
<1>4. /\ parents \in Seq(Nodes) /\ frontier \in Seq(Tensors) /\ target \in Nodes /\ j \in Nat
      /\ inputs \in GraphSet /\ (j > 0 => parents # << >>)
  BY DEF TypeOK
<1>5. \A s \in Seq(Tensors) : s # << >> =>
        Has(s, Head(s)) /\ \A u : Has(Tail(s), u) => Has(s, u)
  <2> SUFFICES ASSUME NEW s \in Seq(Tensors), s # << >>
               PROVE  Has(s, Head(s)) /\ \A u : Has(Tail(s), u) => Has(s, u)
    OBVIOUS
  <2>1. 1 \in 1 .. Len(s) /\ s[1] = Head(s)
    OBVIOUS
  <2>2. \A i \in 1 .. Len(Tail(s)) : Tail(s)[i] = s[i + 1] /\ i + 1 \in 1 .. Len(s)
    OBVIOUS
  <2> QED BY <2>1, <2>2 DEF Has
<1> SUFFICES /\ \A i \in 1 .. Len(parents') : parents'[i] \in P
             /\ \A u : Has(frontier', u) => u = 0 \/ u \in P
             /\ \/ parents' = << >> /\ frontier' = <<target>> /\ j' = 0
                \/ parents' # << >> /\ parents'[Len(parents')] = target
  <2> HIDE DEF P
  <2>1. \A u : Has(frontier, u)' <=> Has(frontier', u)
    BY DEF Has
  <2>2. /\ \A i \in 1 .. Len(parents') : parents'[i] \in P'
        /\ \A u : Has(frontier', u) => u = 0 \/ u \in P'
        /\ \/ parents' = << >> /\ frontier' = <<target'>> /\ j' = 0
           \/ parents' # << >> /\ parents'[Len(parents')] = target'
    BY <1>1, <1>2
  <2> QED BY <2>2 DEF ReachInv, P, Has
<1> HIDE DEF P
<1>6. CASE PopProduced
  <2> DEFINE h == Head(frontier)
  <2>1. /\ h \in Nodes /\ parents' = <<h>> \o parents /\ frontier' = Tail(frontier)
        /\ frontier # << >> /\ j = 0
    BY <1>6 DEF PopProduced
  <2>2. h \in P
    <3>1. Has(frontier, h)
      BY <1>4, <1>5, <2>1
    <3>2. h # 0
      BY <2>1, GraphAssumption DEF Nodes
    <3> QED BY <1>3, <3>1, <3>2
  <2>3. \A u : Has(frontier', u) => u = 0 \/ u \in P
    BY <1>3, <1>4, <1>5, <2>1
  <2> HIDE DEF h
  <2>4. /\ Len(parents') = Len(parents) + 1 /\ parents'[1] = h /\ parents' # << >>
        /\ \A i \in 1 .. Len(parents) : parents'[i + 1] = parents[i]
    BY <1>4, <2>1, PrependPositions
  <2>5. ASSUME NEW i \in 1 .. Len(parents') PROVE parents'[i] \in P
    <3>1. CASE i = 1
      BY <2>2, <2>4, <3>1
    <3>2. CASE i # 1
      <4>1. i - 1 \in 1 .. Len(parents) /\ i = (i - 1) + 1
        BY <1>4, <2>4, <3>2
      <4> QED BY <1>3, <2>4, <4>1
    <3> QED BY <3>1, <3>2
  <2>6. parents'[Len(parents')] = target
    <3>1. CASE parents = << >>
      <4>1. Len(parents) = 0 /\ h = target
        BY <1>3, <3>1 DEF h
      <4> QED BY <2>4, <4>1
    <3>2. CASE parents # << >>
      <4>1. Len(parents) \in 1 .. Len(parents) /\ Len(parents') = Len(parents) + 1
        BY <1>4, <2>4, <3>2
      <4> QED BY <1>3, <2>4, <3>2, <4>1
    <3> QED BY <3>1, <3>2
  <2> QED BY <2>3, <2>4, <2>5, <2>6
<1>7. CASE PopInput
  <2>1. /\ Head(frontier) \notin Nodes /\ parents' = parents /\ frontier' = Tail(frontier)
        /\ frontier # << >>
    BY <1>7 DEF PopInput
  <2>2. frontier # <<target>>
    BY <1>4, <2>1
  <2>3. \A u : Has(frontier', u) => u = 0 \/ u \in P
    BY <1>3, <1>4, <1>5, <2>1
  <2> QED BY <1>3, <2>1, <2>2, <2>3
<1>8. CASE PushInput
  <2> DEFINE m == Head(parents)
             v == inputs[m][j]
  <2>1. /\ parents' = parents /\ j > 0 /\ j <= Len(inputs[m])
        /\ frontier' = push_back_if_not_present(frontier, v)
    BY <1>8 DEF PushInput
  <2>2. parents # << >> /\ m \in Nodes /\ m \in P
    <3>1. parents # << >> /\ m = parents[1] /\ 1 \in 1 .. Len(parents)
      BY <1>4, <2>1
    <3> QED BY <1>3, <1>4, <3>1
  <2>3. /\ inputs[m] \in Seq(Tensors) /\ j \in 1 .. Len(inputs[m]) /\ v \in Tensors /\ v < m
        /\ Has(inputs[m], v)
    <3>1. inputs[m] \in Seq(Tensors)
      BY <1>4, <2>2, GraphAssumption
    <3>2. j \in 1 .. Len(inputs[m])
      BY <1>4, <2>1, <3>1
    <3>3. inputs[m][j] < m
      BY <1>4, <2>2, <3>2, GraphAssumption
    <3> HIDE DEF m
    <3> QED BY <3>1, <3>2, <3>3 DEF Has
  <2>4. v = 0 \/ v \in P
    <3> HIDE DEF m, v
    <3> SUFFICES ASSUME v # 0 PROVE v \in P
      OBVIOUS
    <3>1. v \in Nodes /\ m \in v + 1 .. N
      BY <2>2, <2>3, GraphAssumption DEF Nodes, Tensors
    <3> QED BY <1>4, <2>2, <2>3, <3>1, ParentsFix DEF P
  <2>5. \A u : Has(frontier', u) => Has(frontier, u) \/ u = v
    <3> HIDE DEF m, v
    <3>1. CASE Has(frontier, v)
      BY <2>1, <3>1 DEF push_back_if_not_present
    <3>2. CASE ~Has(frontier, v)
      <4>1. frontier' = Append(frontier, v)
        BY <2>1, <3>2 DEF push_back_if_not_present
      <4>2. /\ Len(frontier') = Len(frontier) + 1 /\ Len(frontier) \in Nat
            /\ frontier'[Len(frontier) + 1] = v
            /\ \A i \in 1 .. Len(frontier) : frontier'[i] = frontier[i]
        BY <1>4, <2>3, <4>1
      <4>3. \A i \in 1 .. Len(frontier') : i = Len(frontier) + 1 \/ i \in 1 .. Len(frontier)
        BY <4>2
      <4> QED BY <4>2, <4>3 DEF Has
    <3> QED BY <3>1, <3>2
  <2> HIDE DEF m, v
  <2>6. \A u : Has(frontier', u) => u = 0 \/ u \in P
    BY <1>3, <2>4, <2>5
  <2> QED BY <1>3, <2>1, <2>2, <2>6
<1>9. CASE PushDone
  BY <1>3, <1>4, <1>9 DEF PushDone
<1>10. CASE UNCHANGED vars
  BY <1>3, <1>10 DEF vars
<1> QED BY <1>6, <1>7, <1>8, <1>9, <1>10 DEF Next

\* A non-empty set of naturals has a smallest element.
LEMMA Smallest ==
  ASSUME NEW S \in SUBSET Nat, S # {}
  PROVE  \E s \in S : \A t \in S : s <= t
<1> DEFINE R == OpToRel(<, Nat)
<1>1. \A s, t \in Nat : t < s => <<t, s>> \in R
  BY DEF OpToRel
<1>2. IsWellFoundedOn(R, Nat)
  BY NatLessThanWellFounded
<1> HIDE DEF R
<1>3. PICK s \in S : \A t \in S : <<t, s>> \notin R
  BY <1>2, WFMin
<1>4. ASSUME NEW t \in S PROVE s <= t
  <2>1. s \in Nat /\ t \in Nat
    OBVIOUS
  <2>2. ~(t < s)
    BY <1>1, <1>3, <2>1
  <2> QED BY <2>1, <2>2
<1> QED BY <1>4

\* At the end no node that the target depends on is missing: the largest one
\* that was would be read by a larger one, whose inputs the plan runs before it.
LEMMA NothingMissing ==
  ASSUME TypeOK, ReachInv, PlanRunnable, Done
  PROVE  \A n \in Parents(target) : \E i \in 1 .. Len(parents) : parents[i] = n
<1> DEFINE P == Parents(target)
           Planned(n) == \E i \in 1 .. Len(parents) : parents[i] = n
           Missing == {n \in P : ~Planned(n)}
<1>1. /\ parents \in Seq(Nodes) /\ target \in Nodes /\ inputs \in GraphSet
      /\ N \in Nat /\ Nodes = 1 .. N
  BY GraphAssumption DEF TypeOK, Nodes
<1>2. /\ P \subseteq Nodes
      /\ \A n \in Nodes : n \in P <=> n = target \/ \E m \in n + 1 .. N : Has(inputs[m], n) /\ m \in P
  BY <1>1, ParentsFix
<1>3. Planned(target)
  <2>1. parents # << >> /\ parents[Len(parents)] = target
    BY <1>1 DEF ReachInv, Done
  <2>2. Len(parents) \in 1 .. Len(parents)
    BY <1>1, <2>1
  <2> QED BY <2>1, <2>2
<1>4. ASSUME NEW n \in Missing PROVE \E m \in Missing : m > n
  <2>1. n \in Nodes /\ n # target /\ n \in P
    BY <1>2, <1>3
  <2>2. PICK m \in n + 1 .. N : Has(inputs[m], n) /\ m \in P
    BY <1>2, <2>1
  <2>3. m > n
    BY <1>1, <2>1
  <2>4. ~Planned(m)
    <3> SUFFICES ASSUME NEW i \in 1 .. Len(parents), parents[i] = m PROVE Planned(n)
      OBVIOUS
    <3>1. PICK k \in 1 .. Len(inputs[m]) : inputs[m][k] = n
      BY <2>2 DEF Has
    <3>2. n # 0
      BY <1>1, <2>1
    <3>3. ProducedBefore(n, i)
      BY <3>1, <3>2 DEF PlanRunnable
    <3>4. \A l \in 1 .. i - 1 : l \in 1 .. Len(parents)
      BY <1>1
    <3> QED BY <3>3, <3>4 DEF ProducedBefore
  <2> QED BY <2>2, <2>3, <2>4
<1>5. Missing = {}
  <2> SUFFICES ASSUME Missing # {} PROVE FALSE
    OBVIOUS
  <2> DEFINE T == {k \in Nat : \E n \in Missing : k = N - n}
  <2>1. T # {} /\ T \subseteq Nat
    <3>1. PICK n \in Missing : TRUE
      OBVIOUS
    <3>2. N - n \in Nat
      BY <1>1, <1>2
    <3> QED BY <3>1, <3>2
  <2>2. PICK k \in T : \A l \in T : k <= l
    <3> HIDE DEF T
    <3> QED BY <2>1, Smallest
  <2>3. PICK n \in Missing : k = N - n
    OBVIOUS
  <2>4. PICK m \in Missing : m > n
    BY <1>4
  <2>5. m \in 1 .. N /\ n \in 1 .. N
    BY <1>1, <1>2
  <2>6. N - m \in T /\ N - m < k
    BY <1>1, <2>3, <2>4, <2>5
  <2>7. k <= N - m
    BY <2>2, <2>6
  <2>8. k \in Nat /\ N - m \in Nat
    BY <2>6
  <2> QED BY <2>6, <2>7, <2>8
<1> QED BY <1>5

\* The plan holds just the nodes that the target depends on, and ends with the
\* node of the target, in every acyclic graph.
THEOREM PlanIsExact == Spec => []PlanExact
<1>1. Init => ReachInv
  <2> SUFFICES ASSUME Init PROVE ReachInv
    OBVIOUS
  <2>1. TypeOK
    BY GraphAssumption DEF Init, TypeOK, Nodes, Tensors
  <2>2. target \in Parents(target)
    BY <2>1, ParentsFix DEF Init
  <2>3. parents = << >> /\ frontier = <<target>> /\ j = 0 /\ Len(parents) = 0 /\ Len(frontier) = 1
    BY DEF Init
  <2>4. \A u : Has(frontier, u) => u = target
    BY <2>3 DEF Has
  <2> QED BY <2>2, <2>3, <2>4 DEF ReachInv
<1>2. TypeOK /\ ReachInv /\ PlanRunnable => PlanExact
  <2> SUFFICES ASSUME TypeOK, ReachInv, PlanRunnable, Done
               PROVE  /\ {parents[i] : i \in 1 .. Len(parents)} = Parents(target)
                      /\ parents[Len(parents)] = target
    BY DEF PlanExact
  <2>1. parents[Len(parents)] = target
    BY DEF ReachInv, Done
  <2>2. \A i \in 1 .. Len(parents) : parents[i] \in Parents(target)
    BY DEF ReachInv
  <2>3. \A n \in Parents(target) : \E i \in 1 .. Len(parents) : parents[i] = n
    BY NothingMissing
  <2> QED BY <2>1, <2>2, <2>3
<1> QED BY <1>1, <1>2, ReachStep, TypeCorrect, PlanIsRunnable, PTL DEF Spec
-----------------------------------------------------------------------------
(* The rows of a batch *)

\* A longer alphabet keeps the sequences over the shorter one.
LEMMA SeqMonotone ==
  ASSUME NEW A, NEW B, A \subseteq B
  PROVE  Seq(A) \subseteq Seq(B)
OBVIOUS

\* The rows that infer feeds start with those of the batch.
Starts(tensor, batch) == \A k \in 1 .. Len(batch) : tensor[k] = batch[k]

\* The first rows of a tensor that starts with a batch.
LEMMA FirstRows ==
  ASSUME NEW D, NEW batch \in Seq(D), NEW tensor, NEW i \in 0 .. Len(batch),
         Starts(tensor, batch)
  PROVE  /\ SubSeq(tensor, 1, i) \in Seq(D) /\ Len(SubSeq(tensor, 1, i)) = i
         /\ \A k \in 1 .. i : SubSeq(tensor, 1, i)[k] = batch[k]
<1>1. 1 \in Int /\ i \in Int /\ \A k \in 1 .. i : tensor[k] \in D /\ tensor[k] = batch[k]
  BY DEF Starts
<1>2. /\ SubSeq(tensor, 1, i) \in Seq(D)
      /\ Len(SubSeq(tensor, 1, i)) = IF 1 <= i THEN i - 1 + 1 ELSE 0
      /\ \A k \in 1 .. i - 1 + 1 : SubSeq(tensor, 1, i)[k] = tensor[1 + k - 1]
  BY <1>1, SubSeqProperties
<1>3. i - 1 + 1 = i /\ (IF 1 <= i THEN i - 1 + 1 ELSE 0) = i /\ \A k \in 1 .. i : 1 + k - 1 = k
  OBVIOUS
<1> QED BY <1>1, <1>2, <1>3

\* A batch starts with itself.
LEMMA StartsItself == \A s : Starts(s, s)
BY DEF Starts

\* The frames of a stream have reached its decoder, or wait in its batch.
Own(fr, lg, bb) ==
  /\ Len(fr) = Len(lg) + Len(bb)
  /\ \A i \in 1 .. Len(bb) : bb[i] = fr[Len(lg) + i]
  /\ \A t \in 1 .. Len(lg) : lg[t] = SubSeq(fr, 1, t)

\* The state that has consumed what the decoder was given.
Seen(fr, lg) == SubSeq(fr, 1, Len(lg))

\* A stream none of whose runs failed.
Kept(fr, lg, bb, st) == Own(fr, lg, bb) /\ st = Seen(fr, lg)

\* A new frame joins the batch.
LEMMA OwnAppend ==
  ASSUME NEW D, NEW fr \in Seq(D), NEW lg \in Seq(Seq(D)), NEW bb \in Seq(D), NEW x \in D,
         Own(fr, lg, bb)
  PROVE  /\ Own(Append(fr, x), lg, Append(bb, x))
         /\ Seen(Append(fr, x), lg) = Seen(fr, lg)
<1> DEFINE f == Append(fr, x)
           b == Append(bb, x)
<1>1. Len(fr) \in Nat /\ Len(lg) \in Nat /\ Len(bb) \in Nat /\ Len(fr) = Len(lg) + Len(bb)
  BY DEF Own
<1>2. /\ f \in Seq(D) /\ Len(f) = Len(fr) + 1 /\ f[Len(fr) + 1] = x
      /\ \A i \in 1 .. Len(fr) : f[i] = fr[i]
  OBVIOUS
<1>3. /\ b \in Seq(D) /\ Len(b) = Len(bb) + 1 /\ b[Len(bb) + 1] = x
      /\ \A i \in 1 .. Len(bb) : b[i] = bb[i]
  OBVIOUS
<1> HIDE DEF f, b
<1>4. ASSUME NEW t \in 0 .. Len(fr) PROVE SubSeq(f, 1, t) = SubSeq(fr, 1, t)
  <2>1. /\ SubSeq(f, 1, t) \in Seq(D) /\ Len(SubSeq(f, 1, t)) = t
        /\ \A k \in 1 .. t : SubSeq(f, 1, t)[k] = fr[k]
    BY <1>2, FirstRows DEF Starts
  <2>2. /\ SubSeq(fr, 1, t) \in Seq(D) /\ Len(SubSeq(fr, 1, t)) = t
        /\ \A k \in 1 .. t : SubSeq(fr, 1, t)[k] = fr[k]
    BY FirstRows, StartsItself
  <2> QED BY <2>1, <2>2, SeqEqual
<1>5. ASSUME NEW i \in 1 .. Len(b) PROVE b[i] = f[Len(lg) + i]
  <2>1. CASE i = Len(bb) + 1
    <3>1. Len(lg) + i = Len(fr) + 1
      BY <1>1, <2>1
    <3> QED BY <1>2, <1>3, <2>1, <3>1
  <2>2. CASE i # Len(bb) + 1
    <3>1. i \in 1 .. Len(bb) /\ Len(lg) + i \in 1 .. Len(fr)
      BY <1>1, <1>3, <2>2
    <3> QED BY <1>2, <1>3, <3>1 DEF Own
  <2> QED BY <2>1, <2>2
<1>6. \A t \in 1 .. Len(lg) : lg[t] = SubSeq(f, 1, t)
  <2>1. \A t \in 1 .. Len(lg) : t \in 0 .. Len(fr)
    BY <1>1
  <2> QED BY <1>4, <2>1 DEF Own
<1>7. Len(f) = Len(lg) + Len(b) /\ Len(lg) \in 0 .. Len(fr)
  BY <1>1, <1>2, <1>3
<1> QED BY <1>4, <1>5, <1>6, <1>7 DEF Own, Seen, f, b

\* A state that has consumed the first frames, and the rows that follow them,
\* are together a longer beginning of the frames.
LEMMA Joined ==
  ASSUME NEW D, NEW fr \in Seq(D), NEW st \in Seq(D), NEW r \in Seq(D),
         Len(st) + Len(r) <= Len(fr),
         \A k \in 1 .. Len(st) : st[k] = fr[k],
         \A k \in 1 .. Len(r) : r[k] = fr[Len(st) + k]
  PROVE  st \o r = SubSeq(fr, 1, Len(st) + Len(r))
<1> DEFINE l == Len(st)
           i == Len(r)
           u == SubSeq(fr, 1, l + i)
           v == st \o r
<1>1. l \in Nat /\ i \in Nat /\ Len(fr) \in Nat
  OBVIOUS
<1>2. u \in Seq(D) /\ Len(u) = l + i /\ \A k \in 1 .. l + i : u[k] = fr[k]
  <2>1. l + i \in 0 .. Len(fr)
    BY <1>1
  <2> HIDE DEF l, i
  <2> QED BY <2>1, FirstRows, StartsItself
<1>3. /\ v \in Seq(D) /\ Len(v) = l + i
      /\ \A k \in 1 .. l + i : v[k] = IF k <= l THEN st[k] ELSE r[k - l]
  BY ConcatProperties
<1> HIDE DEF u, v
<1>4. ASSUME NEW k \in 1 .. l + i PROVE v[k] = u[k]
  <2>1. CASE k <= l
    BY <1>1, <1>2, <1>3, <2>1
  <2>2. CASE ~(k <= l)
    <3>1. k - l \in 1 .. i /\ l + (k - l) = k
      BY <1>1, <2>2
    <3> QED BY <1>2, <1>3, <2>2, <3>1
  <2> QED BY <2>1, <2>2
<1>5. u = v
  BY <1>2, <1>3, <1>4, SeqEqual
<1> QED BY <1>5 DEF u, v

\* infer: the logits of a batch are those of the stream's frames up to each row.
LEMMA OwnBatch ==
  ASSUME NEW D, NEW fr \in Seq(D), NEW lg \in Seq(Seq(D)), NEW batch \in Seq(D), NEW st, NEW tensor,
         Kept(fr, lg, batch, st), Starts(tensor, batch)
  PROVE  Kept(fr, lg \o LogitsOut(st, tensor, Len(batch)), << >>,
              st \o SubSeq(tensor, 1, Len(batch)))
<1> DEFINE n == Len(batch)
           l == Len(lg)
           out == LogitsOut(st, tensor, n)
           new == lg \o out
<1>1. n \in Nat /\ l \in Nat /\ Len(fr) = l + n /\ \A i \in 1 .. n : batch[i] = fr[l + i]
  <2>1. Own(fr, lg, batch)
    BY DEF Kept
  <2>2. n \in Nat /\ l \in Nat
    OBVIOUS
  <2> QED BY <2>1, <2>2 DEF Own
<1>2. st \in Seq(D) /\ Len(st) = l /\ \A k \in 1 .. l : st[k] = fr[k]
  <2>1. l \in 0 .. Len(fr)
    BY <1>1
  <2> HIDE DEF l
  <2>2. st = SubSeq(fr, 1, l)
    BY DEF l, Seen, Kept
  <2> QED BY <2>1, <2>2, FirstRows, StartsItself
<1> HIDE DEF n, l, out, new
<1>3. ASSUME NEW i \in 0 .. n PROVE st \o SubSeq(tensor, 1, i) = SubSeq(fr, 1, l + i)
  <2> DEFINE r == SubSeq(tensor, 1, i)
  <2>1. r \in Seq(D) /\ Len(r) = i /\ \A k \in 1 .. i : r[k] = batch[k]
    <3>1. i \in 0 .. Len(batch)
      BY DEF n
    <3> QED BY <3>1, FirstRows
  <2> HIDE DEF r
  <2>2. i \in Nat /\ l + i <= Len(fr) /\ \A k \in 1 .. i : r[k] = fr[l + k]
    BY <1>1, <2>1
  <2>3. st \o r = SubSeq(fr, 1, Len(st) + Len(r))
    BY <1>2, <2>1, <2>2, Joined
  <2> QED BY <1>2, <2>1, <2>3 DEF r
<1>4. out = [i \in 1 .. n |-> st \o SubSeq(tensor, 1, i)]
  BY DEF LogitsOut, out
<1>5. out \in Seq(Seq(D)) /\ Len(out) = n /\ \A i \in 1 .. n : out[i] = SubSeq(fr, 1, l + i)
  <2>1. \A i \in 1 .. n : i \in 0 .. n
    BY <1>1
  <2>2. \A i \in 1 .. n : out[i] = SubSeq(fr, 1, l + i)
    BY <1>3, <1>4, <2>1
  <2>3. \A i \in 1 .. n : SubSeq(fr, 1, l + i) \in Seq(D)
    <3>1. \A i \in 1 .. n : l + i \in 0 .. Len(fr)
      BY <1>1
    <3> QED BY <3>1, FirstRows, StartsItself
  <2>4. out = [i \in 1 .. n |-> out[i]] /\ \A i \in 1 .. n : out[i] \in Seq(D)
    BY <1>4, <2>2, <2>3
  <2>5. out \in Seq(Seq(D)) /\ Len(out) = n
    <3>1. out \in [1 .. n -> Seq(D)]
      BY <2>4
    <3>2. out \in Seq(Seq(D))
      BY <1>1, <3>1, SeqDef
    <3> QED BY <1>1, <3>1, <3>2
  <2> QED BY <2>2, <2>5
<1>6. /\ new \in Seq(Seq(D)) /\ Len(new) = l + n
      /\ \A t \in 1 .. l + n : new[t] = IF t <= l THEN lg[t] ELSE out[t - l]
  <2>1. Len(lg) = l
    BY DEF l
  <2> QED BY <1>1, <1>5, <2>1, ConcatProperties DEF new
<1>7. ASSUME NEW t \in 1 .. l + n PROVE new[t] = SubSeq(fr, 1, t)
  <2>1. CASE t <= l
    <3>1. t \in 1 .. l
      BY <1>1, <2>1
    <3> QED BY <1>6, <2>1, <3>1 DEF Own, Kept, l
  <2>2. CASE ~(t <= l)
    <3>1. t - l \in 1 .. n /\ l + (t - l) = t
      BY <1>1, <2>2
    <3> QED BY <1>5, <1>6, <2>2, <3>1
  <2> QED BY <2>1, <2>2
<1>8. Own(fr, new, << >>)
  <2>1. Len(<< >>) = 0
    OBVIOUS
  <2>2. Len(fr) = Len(new) + 0 /\ \A t \in 1 .. Len(new) : new[t] = SubSeq(fr, 1, t)
    BY <1>1, <1>6, <1>7
  <2>3. 1 .. 0 = {}
    OBVIOUS
  <2> QED BY <2>1, <2>2, <2>3 DEF Own
<1>9. st \o SubSeq(tensor, 1, n) = SubSeq(fr, 1, l + n)
  <2>1. n \in 0 .. n
    BY <1>1
  <2> QED BY <1>3, <2>1
<1>10. Len(new) = l + n
  BY <1>6
<1> QED BY <1>8, <1>9, <1>10 DEF Kept, Seen, new, out, n

\* Rows from a set give logits and a state from that set.
LEMMA RowsStay ==
  ASSUME NEW R, NEW st \in Seq(R), NEW lg \in Seq(Seq(R)), NEW batch \in Seq(R), NEW tensor,
         Starts(tensor, batch)
  PROVE  /\ lg \o LogitsOut(st, tensor, Len(batch)) \in Seq(Seq(R))
         /\ st \o SubSeq(tensor, 1, Len(batch)) \in Seq(R)
<1> DEFINE n == Len(batch)
           out == LogitsOut(st, tensor, n)
<1>1. \A i \in 0 .. n : SubSeq(tensor, 1, i) \in Seq(R)
  BY FirstRows
<1>2. n \in Nat
  OBVIOUS
<1> HIDE DEF n
<1>3. \A i \in 0 .. n : st \o SubSeq(tensor, 1, i) \in Seq(R)
  BY <1>1, ConcatProperties
<1>4. out \in [1 .. n -> Seq(R)]
  <2>1. out = [i \in 1 .. n |-> st \o SubSeq(tensor, 1, i)]
    BY DEF LogitsOut
  <2>2. \A i \in 1 .. n : i \in 0 .. n
    BY <1>2
  <2> QED BY <1>3, <2>1, <2>2
<1> HIDE DEF out
<1>5. out \in Seq(Seq(R))
  BY <1>2, <1>4, SeqDef
<1>6. n \in 0 .. n
  BY <1>2
<1>7. lg \o out \in Seq(Seq(R))
  BY <1>5, ConcatProperties
<1> QED BY <1>3, <1>6, <1>7 DEF out, n
-----------------------------------------------------------------------------
(* The tensors *)

\* What a tensor can hold: samples of any stream, padding, or garbage.
Values == (Streams \X Nat) \cup {Zero, Junk}

\* The contents of input_samples.
Windows == [1 .. audio_win_len -> Values]

\* The type invariant, with what the sequences are made of.
BackendTypes ==
  /\ USE_TFLITE \in BOOLEAN
  /\ stage \in [Streams -> {"none", "live", "done"}]
  /\ batch_buffer \in [Streams -> Seq(Windows)]
  /\ logits \in [Streams -> Seq(Seq(Windows))]
  /\ DOMAIN previous_state = Streams
  /\ input_samples \in Windows
  /\ DOMAIN input_node = 1 .. n_steps
  /\ sent \in [Streams -> Seq(Seq(Values))]
  /\ frames \in [Streams -> Seq(Windows)]
  /\ fed \in [Streams -> Nat]
  /\ failed \subseteq Streams
  /\ \A s \in Streams : Len(batch_buffer[s]) < n_steps /\ Len(sent[s]) = Len(frames[s])

\* The features of a window: of the samples, if there are enough of them.
Fits(window, samples) ==
  /\ Len(samples) = audio_win_len => window = samples
  /\ ~USE_TFLITE => window = tensor_from_vector(samples, audio_win_len)

\* compute_mfcc feeds a window that fits its samples, whatever the tensor held.
LEMMA WindowFed ==
  ASSUME BackendTypes, NEW s \in Streams, NEW n \in 0 .. audio_win_len
  PROVE  LET samples == Samples(s, n)
             window == SamplesTensor(samples)
         IN  /\ samples \in Seq(Values) /\ Len(samples) = n
             /\ window \in Windows /\ Fits(window, samples)
<1> DEFINE samples == Samples(s, n)
           window == SamplesTensor(samples)
<1>1. audio_win_len \in Nat /\ n \in Nat /\ fed[s] \in Nat /\ n <= audio_win_len
  BY BackendAssumption DEF BackendTypes
<1>2. samples = [i \in 1 .. n |-> <<s, fed[s] + i>>]
  BY DEF Samples
<1>3. samples \in [1 .. n -> Values]
  BY <1>1, <1>2 DEF Values
<1> HIDE DEF samples
<1>4. samples \in Seq(Values)
  BY <1>1, <1>3, SeqDef
<1>5. Len(samples) = n
  BY <1>1, <1>3, <1>4
<1>6. input_samples \in [1 .. audio_win_len -> Values] /\ Zero \in Values
  BY DEF BackendTypes, Windows, Values
<1>7. \A i \in 1 .. audio_win_len : i <= n => i \in 1 .. n
  BY <1>1
<1>8. ASSUME USE_TFLITE PROVE window \in Windows /\ Fits(window, samples)
  <2>1. window = [i \in 1 .. audio_win_len |->
                    IF i <= n THEN samples[i] ELSE IF i <= n THEN Zero ELSE input_samples[i]]
    BY <1>5, <1>6, <1>8 DEF SamplesTensor, copy_vector_to_tensor
  <2>2. window \in Windows
    BY <1>3, <1>6, <1>7, <2>1 DEF Windows
  <2>3. ASSUME n = audio_win_len PROVE window = samples
    <3>1. \A i \in 1 .. audio_win_len : i <= n
      BY <1>1, <2>3
    <3> QED BY <1>3, <2>1, <2>3, <3>1
  <2> QED BY <1>5, <1>8, <2>2, <2>3 DEF Fits
<1>9. ASSUME ~USE_TFLITE PROVE window \in Windows /\ Fits(window, samples)
  <2>1. window = tensor_from_vector(samples, audio_win_len)
    BY <1>9 DEF SamplesTensor
  <2>2. window = [i \in 1 .. audio_win_len |-> IF i <= n THEN samples[i] ELSE Zero]
    BY <1>5, <2>1 DEF tensor_from_vector
  <2>3. window \in Windows
    BY <1>3, <1>6, <1>7, <2>2 DEF Windows
  <2>4. ASSUME n = audio_win_len PROVE window = samples
    <3>1. \A i \in 1 .. audio_win_len : i <= n
      BY <1>1, <2>4
    <3> QED BY <1>3, <2>2, <2>4, <3>1
  <2> QED BY <1>5, <2>1, <2>3, <2>4 DEF Fits
<1> QED BY <1>4, <1>5, <1>8, <1>9 DEF samples

\* infer feeds a tensor that starts with the batch, whatever the tensor held.
LEMMA RowsFed ==
  ASSUME BackendTypes, NEW D, NEW batch \in Seq(D), Len(batch) <= n_steps
  PROVE  LET tensor == NodeTensor(batch, Len(batch))
         IN  DOMAIN tensor = 1 .. n_steps /\ Starts(tensor, batch)
<1> DEFINE n == Len(batch)
           tensor == NodeTensor(batch, n)
<1>1. n \in Nat /\ n_steps \in Nat /\ n <= n_steps /\ DOMAIN input_node = 1 .. n_steps
  BY BackendAssumption DEF BackendTypes
<1>2. \A k \in 1 .. n : k \in 1 .. n_steps /\ k <= n
  BY <1>1
<1> HIDE DEF n
<1>3. CASE USE_TFLITE
  <2>1. tensor = [i \in 1 .. n_steps |->
                    IF i <= n THEN batch[i] ELSE IF i <= n THEN Zero ELSE input_node[i]]
    BY <1>1, <1>3 DEF NodeTensor, copy_vector_to_tensor, n
  <2>2. DOMAIN tensor = 1 .. n_steps /\ \A k \in 1 .. n : tensor[k] = batch[k]
    BY <1>2, <2>1
  <2> QED BY <2>2 DEF Starts, n
<1>4. CASE ~USE_TFLITE
  <2>1. tensor = [i \in 1 .. n_steps |-> IF i <= n THEN batch[i] ELSE Zero]
    BY <1>1, <1>4 DEF NodeTensor, tensor_from_vector, n
  <2>2. DOMAIN tensor = 1 .. n_steps /\ \A k \in 1 .. n : tensor[k] = batch[k]
    BY <1>2, <2>1
  <2> QED BY <2>2 DEF Starts, n
<1> QED BY <1>3, <1>4 DEF n
-----------------------------------------------------------------------------
(* The streams *)

\* Nothing but the frames of the stream is in its batch, its logits and, until
\* a short batch spoils it, its state.
Isolated ==
  \A s \in Streams :
    LET R == Range(frames[s])
    IN  /\ batch_buffer[s] \in Seq(R) /\ logits[s] \in Seq(Seq(R))
        /\ stage[s] # "done" => previous_state[s] \in Seq(R)

\* As long as no run failed, they are there in order and without a gap.
Complete ==
  \A s \in Streams \ failed :
    /\ Own(frames[s], logits[s], batch_buffer[s])
    /\ stage[s] # "done" => previous_state[s] = Seen(frames[s], logits[s])

\* Every window fits the samples it was computed from.
WindowsFit ==
  \A s \in Streams : \A i \in 1 .. Len(sent[s]) : Fits(frames[s][i], sent[s][i])

\* The inductive invariant of the back end.
BackendInv == BackendTypes /\ WindowsFit /\ Isolated /\ Complete

\* The frames so far stay among the frames.
LEMMA RangeAppend ==
  ASSUME NEW D, NEW fr \in Seq(D), NEW x \in D
  PROVE  /\ Range(fr) \subseteq D /\ Range(Append(fr, x)) \subseteq D
         /\ Range(fr) \subseteq Range(Append(fr, x)) /\ x \in Range(Append(fr, x))
         /\ fr \in Seq(Range(fr))
<1> DEFINE f == Append(fr, x)
<1>1. /\ f \in Seq(D) /\ Len(fr) \in Nat /\ DOMAIN f = 1 .. Len(fr) + 1 /\ DOMAIN fr = 1 .. Len(fr)
      /\ f[Len(fr) + 1] = x /\ \A i \in 1 .. Len(fr) : f[i] = fr[i]
  OBVIOUS
<1>2. (\A i \in DOMAIN f : f[i] \in D) /\ \A i \in DOMAIN fr : fr[i] \in D
  OBVIOUS
<1> HIDE DEF f
<1>3. /\ \A i \in DOMAIN fr : i \in DOMAIN f /\ f[i] = fr[i]
      /\ Len(fr) + 1 \in DOMAIN f
  BY <1>1
<1>4. fr \in Seq(Range(fr))
  <2>1. fr = [i \in 1 .. Len(fr) |-> fr[i]]
    BY <1>1
  <2>2. \A i \in 1 .. Len(fr) : fr[i] \in Range(fr)
    BY <1>1 DEF Range
  <2>3. fr \in [1 .. Len(fr) -> Range(fr)]
    BY <2>1, <2>2
  <2> QED BY <1>1, <2>3, SeqDef
<1> QED BY <1>1, <1>2, <1>3, <1>4 DEF Range, f

\* The window is computed, or its run fails: the batch for infer, and what is
\* known of the stream with it.
LEMMA Computed ==
  ASSUME BackendInv, NEW s \in Streams, stage[s] = "live",
         NEW n \in 0 .. audio_win_len,
         NEW batch, compute_mfcc(s, Samples(s, n), batch)
  PROVE  LET fr == frames'[s]
             R == Range(fr)
         IN  /\ input_samples' \in Windows
             /\ sent' \in [Streams -> Seq(Seq(Values))] /\ frames' \in [Streams -> Seq(Windows)]
             /\ \A r \in Streams : Len(sent'[r]) = Len(frames'[r])
             /\ \A r \in Streams : \A i \in 1 .. Len(sent'[r]) : Fits(frames'[r][i], sent'[r][i])
             /\ \A r \in Streams \ {s} : sent'[r] = sent[r] /\ frames'[r] = frames[r]
             /\ R \subseteq Windows /\ batch \in Seq(R) /\ Len(batch) <= n_steps
             /\ logits[s] \in Seq(Seq(R)) /\ previous_state[s] \in Seq(R)
             /\ s \notin failed /\ batch # batch_buffer[s] =>
                  Own(fr, logits[s], batch) /\ previous_state[s] = Seen(fr, logits[s])
<1> DEFINE samples == Samples(s, n)
           window == SamplesTensor(samples)
           bb == batch_buffer[s]
           lg == logits[s]
           st == previous_state[s]
           old == frames[s]
           Q == Range(old)
<1>1. samples \in Seq(Values) /\ window \in Windows /\ Fits(window, samples)
  BY WindowFed DEF BackendInv
<1> HIDE DEF samples, window
<1>2. /\ input_samples' = IF USE_TFLITE THEN window ELSE input_samples
      /\ \/ /\ batch = Append(bb, window)
            /\ sent' = [sent EXCEPT ![s] = Append(@, samples)]
            /\ frames' = [frames EXCEPT ![s] = Append(@, window)]
         \/ batch = bb /\ sent' = sent /\ frames' = frames
  BY DEF compute_mfcc, samples, window
<1>3. /\ sent \in [Streams -> Seq(Seq(Values))] /\ frames \in [Streams -> Seq(Windows)]
      /\ input_samples \in Windows /\ n_steps \in Nat
      /\ \A r \in Streams : Len(sent[r]) = Len(frames[r])
      /\ old \in Seq(Windows) /\ sent[s] \in Seq(Seq(Values)) /\ bb \in Seq(Windows)
      /\ lg \in Seq(Seq(Windows)) /\ Len(bb) < n_steps
  BY BackendAssumption DEF BackendInv, BackendTypes
<1>4. \A r \in Streams : \A i \in 1 .. Len(sent[r]) : Fits(frames[r][i], sent[r][i])
  BY DEF BackendInv, WindowsFit
<1>5. bb \in Seq(Q) /\ lg \in Seq(Seq(Q)) /\ st \in Seq(Q) /\ Q \subseteq Windows
  <2>1. bb \in Seq(Q) /\ lg \in Seq(Seq(Q)) /\ st \in Seq(Q)
    BY DEF BackendInv, Isolated
  <2> QED BY <1>1, <1>3, <2>1, RangeAppend
<1>6. s \notin failed => Own(old, lg, bb) /\ st = Seen(old, lg)
  BY DEF BackendInv, Complete
<1>7. input_samples' \in Windows
  BY <1>1, <1>2, <1>3
<1> HIDE DEF bb, lg, st, old, Q
<1>8. CASE batch = bb /\ sent' = sent /\ frames' = frames
  <2>1. Range(frames'[s]) = Q
    BY <1>8 DEF Q, old
  <2> QED BY <1>3, <1>4, <1>5, <1>7, <1>8, <2>1 DEF bb, lg, st
<1>9. CASE /\ batch = Append(bb, window)
           /\ sent' = [sent EXCEPT ![s] = Append(@, samples)]
           /\ frames' = [frames EXCEPT ![s] = Append(@, window)]
  <2> DEFINE fr == Append(old, window)
             se == Append(sent[s], samples)
             R == Range(fr)
  <2>1. frames'[s] = fr /\ sent'[s] = se /\ \A r \in Streams \ {s} : sent'[r] = sent[r] /\ frames'[r] = frames[r]
    BY <1>3, <1>9 DEF old
  <2>2. fr \in Seq(Windows) /\ se \in Seq(Seq(Values))
    BY <1>1, <1>3
  <2>3. sent' \in [Streams -> Seq(Seq(Values))] /\ frames' \in [Streams -> Seq(Windows)]
    <3> HIDE DEF fr, se
    <3>1. /\ sent' = [sent EXCEPT ![s] = se] /\ frames' = [frames EXCEPT ![s] = fr]
      BY <1>3, <1>9 DEF se, fr, old
    <3> QED BY <1>3, <2>2, <3>1
  <2>4. Len(se) = Len(fr) /\ Len(fr) = Len(old) + 1 /\ Len(old) \in Nat /\ Len(sent[s]) = Len(old)
    <3>1. Len(sent[s]) = Len(old)
      BY <1>3 DEF old
    <3>2. old \in Seq(Windows) /\ Len(fr) = Len(old) + 1
      BY <1>1, <1>3
    <3>3. sent[s] \in Seq(Seq(Values)) /\ Len(se) = Len(sent[s]) + 1
      BY <1>1, <1>3
    <3> QED BY <3>1, <3>2, <3>3
  <2>5. ASSUME NEW i \in 1 .. Len(se) PROVE Fits(fr[i], se[i])
    <3>1. CASE i = Len(old) + 1
      <4>1. fr[i] = window /\ se[i] = samples
        BY <1>1, <1>3, <2>4, <3>1
      <4> QED BY <1>1, <4>1
    <3>2. CASE i # Len(old) + 1
      <4>1. i \in 1 .. Len(old) /\ i \in 1 .. Len(sent[s])
        BY <2>4, <3>2
      <4>2. fr[i] = old[i] /\ se[i] = sent[s][i]
        BY <1>1, <1>3, <4>1
      <4> QED BY <1>4, <4>1, <4>2 DEF old
    <3> QED BY <3>1, <3>2
  <2>6. R \subseteq Windows /\ Q \subseteq R /\ window \in R
    BY <1>1, <1>3, RangeAppend DEF Q
  <2> HIDE DEF R
  <2>7. bb \in Seq(R) /\ lg \in Seq(Seq(R)) /\ st \in Seq(R)
    <3>1. Seq(Q) \subseteq Seq(R) /\ Seq(Seq(Q)) \subseteq Seq(Seq(R))
      BY <2>6, SeqMonotone
    <3> QED BY <1>5, <3>1
  <2>8. batch \in Seq(R) /\ Len(batch) <= n_steps
    BY <1>3, <1>9, <2>6, <2>7
  <2>9. s \notin failed => Own(fr, lg, batch) /\ st = Seen(fr, lg)
    BY <1>1, <1>3, <1>6, <1>9, OwnAppend
  <2>10. \A r \in Streams : Len(sent'[r]) = Len(frames'[r])
    BY <1>3, <2>1, <2>4
  <2>11. \A r \in Streams : \A i \in 1 .. Len(sent'[r]) : Fits(frames'[r][i], sent'[r][i])
    BY <1>4, <2>1, <2>5
  <2>12. Range(frames'[s]) = R
    BY <2>1 DEF R
  <2> HIDE DEF fr, se
  <2> QED BY <1>7, <2>1, <2>3, <2>6, <2>7, <2>8, <2>9, <2>10, <2>11, <2>12 DEF lg, st
<1> QED BY <1>2, <1>8, <1>9

\* One stream's value changes.
Becomes(f, g, s, x) ==
  DOMAIN g = DOMAIN f /\ g[s] = x /\ \A r \in DOMAIN f \ {s} : g[r] = f[r]

\* What a window leaves of stream s: its batch, its logits and its state.
Outcome(s, final, bb, lg, st) ==
  LET fr == frames'[s]
      R == Range(fr)
  IN  /\ batch_buffer' = [batch_buffer EXCEPT ![s] = bb]
      /\ logits' = [logits EXCEPT ![s] = lg]
      /\ Becomes(previous_state, previous_state', s, st)
      /\ DOMAIN input_node' = 1 .. n_steps
      /\ failed' \in {failed, failed \cup {s}}
      /\ bb \in Seq(R) /\ Len(bb) < n_steps /\ lg \in Seq(Seq(R))
      /\ ~final => st \in Seq(R)
      /\ s \notin failed' => Own(fr, lg, bb) /\ (~final => st = Seen(fr, lg))

\* The batch is collected further, run, or lost to a run that fails.
LEMMA Inferred ==
  ASSUME BackendInv, NEW s \in Streams, stage[s] = "live",
         NEW n \in 0 .. audio_win_len, NEW final \in BOOLEAN,
         processAudioWindow(s, Samples(s, n), final)
  PROVE  \E bb, lg, st : Outcome(s, final, bb, lg, st)
<1> DEFINE samples == Samples(s, n)
           fr == frames'[s]
           R == Range(fr)
           lg0 == logits[s]
           st0 == previous_state[s]
<1>1. PICK batch \in {batch_buffer[s], Append(batch_buffer[s], SamplesTensor(samples))},
           ok \in BOOLEAN :
        /\ compute_mfcc(s, samples, batch)
        /\ IF Len(batch) = n_steps \/ (final /\ Len(batch) > 0)
           THEN processBatch(s, batch, ok)
           ELSE /\ ok
                /\ batch_buffer' = [batch_buffer EXCEPT ![s] = batch]
                /\ UNCHANGED <<previous_state, logits, input_node>>
        /\ failed' = IF ok /\ batch # batch_buffer[s] THEN failed ELSE failed \cup {s}
  BY Zenon DEF processAudioWindow
<1>2. /\ frames' \in [Streams -> Seq(Windows)]
      /\ R \subseteq Windows /\ batch \in Seq(R) /\ Len(batch) <= n_steps
      /\ lg0 \in Seq(Seq(R)) /\ st0 \in Seq(R)
      /\ s \notin failed /\ batch # batch_buffer[s] => Own(fr, lg0, batch) /\ st0 = Seen(fr, lg0)
  BY <1>1, Computed
<1> HIDE DEF samples, fr, R, lg0, st0
<1>3. /\ n_steps \in Nat \ {0} /\ DOMAIN input_node = 1 .. n_steps
      /\ batch_buffer \in [Streams -> Seq(Windows)]
      /\ DOMAIN previous_state = Streams /\ logits \in [Streams -> Seq(Seq(Windows))]
  BY BackendAssumption DEF BackendInv, BackendTypes
<1>4. failed' \in {failed, failed \cup {s}}
  BY <1>1
<1>5. s \notin failed' => s \notin failed /\ ok /\ batch # batch_buffer[s]
  BY <1>1
<1>6. fr \in Seq(Windows) /\ batch \in Seq(Windows) /\ lg0 \in Seq(Seq(Windows))
  <2>1. Seq(R) \subseteq Seq(Windows)
    BY <1>2, SeqMonotone
  <2>2. Seq(Seq(R)) \subseteq Seq(Seq(Windows))
    BY <2>1, SeqMonotone
  <2>3. fr \in Seq(Windows)
    BY <1>2 DEF fr
  <2> QED BY <1>2, <2>1, <2>2, <2>3
<1>7. Len(batch) \in Nat
  BY <1>6
<1>8. Becomes(previous_state, previous_state, s, st0) /\ logits = [logits EXCEPT ![s] = lg0]
  BY <1>3 DEF lg0, st0, Becomes
<1>9. CASE ~(Len(batch) = n_steps \/ (final /\ Len(batch) > 0))
  <2>1. /\ batch_buffer' = [batch_buffer EXCEPT ![s] = batch]
        /\ Becomes(previous_state, previous_state', s, st0)
        /\ logits' = [logits EXCEPT ![s] = lg0] /\ input_node' = input_node
    BY <1>1, <1>8, <1>9
  <2>2. Len(batch) < n_steps
    BY <1>2, <1>3, <1>7, <1>9
  <2>3. Outcome(s, final, batch, lg0, st0)
    BY <1>2, <1>3, <1>4, <1>5, <2>1, <2>2 DEF fr, R, Outcome
  <2> QED BY <2>3
<1>10. CASE Len(batch) = n_steps \/ (final /\ Len(batch) > 0)
  <2> DEFINE m == Len(batch)
             tensor == NodeTensor(batch, m)
             lg == lg0 \o LogitsOut(st0, tensor, m)
             st == StateOut(st0, tensor, m)
  <2>1. processBatch(s, batch, ok)
    BY <1>1, <1>10
  <2>2. DOMAIN tensor = 1 .. n_steps /\ Starts(tensor, batch)
    BY <1>2, RowsFed DEF BackendInv
  <2>3. /\ input_node' = IF USE_TFLITE THEN tensor ELSE input_node
        /\ batch_buffer' = [batch_buffer EXCEPT ![s] = << >>]
        /\ ok => /\ logits' = [logits EXCEPT ![s] = lg]
                 /\ previous_state' = [previous_state EXCEPT ![s] = st]
        /\ ~ok => logits' = logits /\ previous_state' = previous_state
    BY <2>1 DEF processBatch, lg0, st0
  <2>4. DOMAIN input_node' = 1 .. n_steps
    BY <1>3, <2>2, <2>3
  <2>5. << >> \in Seq(R) /\ Len(<< >>) < n_steps
    BY <1>3
  <2>6. ~final => st = st0 \o SubSeq(tensor, 1, m)
    BY <1>10 DEF StateOut
  <2> HIDE DEF tensor
  <2>7. lg \in Seq(Seq(R)) /\ st0 \o SubSeq(tensor, 1, m) \in Seq(R)
    BY <1>2, <2>2, RowsStay
  <2>8. s \notin failed' =>
          Own(fr, lg, << >>) /\ st0 \o SubSeq(tensor, 1, m) = Seen(fr, lg)
    <3>1. SUFFICES ASSUME s \notin failed'
                   PROVE  Own(fr, lg, << >>) /\ st0 \o SubSeq(tensor, 1, m) = Seen(fr, lg)
      OBVIOUS
    <3>2. Kept(fr, lg0, batch, st0)
      BY <1>2, <1>5, <3>1 DEF Kept
    <3>3. Kept(fr, lg, << >>, st0 \o SubSeq(tensor, 1, m))
      BY <1>6, <2>2, <3>2, OwnBatch
    <3> QED BY <3>3 DEF Kept
  <2> HIDE DEF lg, st
  <2>9. CASE ok
    <3>1. logits' = [logits EXCEPT ![s] = lg] /\ Becomes(previous_state, previous_state', s, st)
      BY <1>3, <2>3, <2>9 DEF Becomes
    <3>2. Outcome(s, final, << >>, lg, st)
      BY <1>4, <2>3, <2>4, <2>5, <2>6, <2>7, <2>8, <3>1 DEF fr, R, Outcome
    <3> QED BY <3>2
  <2>10. CASE ~ok
    <3>1. logits' = [logits EXCEPT ![s] = lg0] /\ Becomes(previous_state, previous_state', s, st0)
      BY <1>8, <2>3, <2>10
    <3>2. s \in failed'
      BY <1>5, <2>10
    <3>3. Outcome(s, final, << >>, lg0, st0)
      BY <1>2, <1>4, <2>3, <2>4, <2>5, <3>1, <3>2 DEF fr, R, Outcome
    <3> QED BY <3>3
  <2> QED BY <2>9, <2>10
<1> QED BY <1>9, <1>10

\* A window reaches the back end: no stream but s sees any of it.
LEMMA WindowStep ==
  ASSUME BackendInv, NEW s \in Streams, stage[s] = "live",
         NEW n \in 0 .. audio_win_len, NEW final \in BOOLEAN,
         processAudioWindow(s, Samples(s, n), final),
         USE_TFLITE' = USE_TFLITE,
         stage' = IF final THEN [stage EXCEPT ![s] = "done"] ELSE stage
  PROVE  BackendInv'
<1> DEFINE samples == Samples(s, n)
           fr == frames'[s]
           R == Range(fr)
<1>1. PICK batch \in {batch_buffer[s], Append(batch_buffer[s], SamplesTensor(samples))} :
        /\ compute_mfcc(s, samples, batch)
        /\ fed' = [fed EXCEPT ![s] = @ + Len(samples)]
  BY DEF processAudioWindow
<1>2. /\ input_samples' \in Windows
      /\ sent' \in [Streams -> Seq(Seq(Values))] /\ frames' \in [Streams -> Seq(Windows)]
      /\ \A r \in Streams : Len(sent'[r]) = Len(frames'[r])
      /\ \A r \in Streams : \A i \in 1 .. Len(sent'[r]) : Fits(frames'[r][i], sent'[r][i])
      /\ \A r \in Streams \ {s} : frames'[r] = frames[r]
      /\ R \subseteq Windows
  BY <1>1, Computed
<1>0. PICK bb, lg, st : Outcome(s, final, bb, lg, st)
  BY Inferred
<1>3. /\ batch_buffer' = [batch_buffer EXCEPT ![s] = bb]
      /\ logits' = [logits EXCEPT ![s] = lg]
      /\ Becomes(previous_state, previous_state', s, st)
      /\ DOMAIN input_node' = 1 .. n_steps
      /\ failed' \in {failed, failed \cup {s}}
      /\ bb \in Seq(R) /\ Len(bb) < n_steps /\ lg \in Seq(Seq(R))
      /\ ~final => st \in Seq(R)
      /\ s \notin failed' => Own(fr, lg, bb) /\ (~final => st = Seen(fr, lg))
  BY <1>0 DEF Outcome
<1>4. samples \in Seq(Values)
  BY WindowFed DEF BackendInv
<1> HIDE DEF samples, R, fr
<1>5. /\ USE_TFLITE \in BOOLEAN /\ stage \in [Streams -> {"none", "live", "done"}]
      /\ batch_buffer \in [Streams -> Seq(Windows)] /\ logits \in [Streams -> Seq(Seq(Windows))]
      /\ DOMAIN previous_state = Streams /\ fed \in [Streams -> Nat] /\ failed \subseteq Streams
      /\ \A r \in Streams : Len(batch_buffer[r]) < n_steps
  BY DEF BackendInv, BackendTypes
<1>6. bb \in Seq(Windows) /\ lg \in Seq(Seq(Windows))
  <2>1. Seq(R) \subseteq Seq(Windows)
    BY <1>2, SeqMonotone
  <2>2. Seq(Seq(R)) \subseteq Seq(Seq(Windows))
    BY <2>1, SeqMonotone
  <2> QED BY <1>3, <2>1, <2>2
<1>7. /\ batch_buffer'[s] = bb /\ logits'[s] = lg /\ previous_state'[s] = st
      /\ \A r \in Streams \ {s} : /\ batch_buffer'[r] = batch_buffer[r] /\ logits'[r] = logits[r]
                                  /\ previous_state'[r] = previous_state[r] /\ stage'[r] = stage[r]
      /\ stage'[s] # "done" => ~final
  BY <1>3, <1>5 DEF Becomes
<1>8. BackendTypes'
  <2>1. fed' \in [Streams -> Nat]
    <3>1. Len(samples) \in Nat
      BY <1>4
    <3> QED BY <1>1, <1>5, <3>1
  <2>2. stage' \in [Streams -> {"none", "live", "done"}]
    BY <1>5
  <2>3. /\ batch_buffer' \in [Streams -> Seq(Windows)] /\ logits' \in [Streams -> Seq(Seq(Windows))]
        /\ DOMAIN previous_state' = Streams /\ failed' \subseteq Streams
    BY <1>3, <1>5, <1>6 DEF Becomes
  <2>4. \A r \in Streams : Len(batch_buffer'[r]) < n_steps
    BY <1>3, <1>5, <1>7
  <2> QED BY <1>2, <1>3, <1>5, <2>1, <2>2, <2>3, <2>4 DEF BackendTypes, Windows, Values
<1>9. WindowsFit'
  BY <1>2 DEF WindowsFit, Fits
<1>10. Isolated'
  <2>1. ASSUME NEW r \in Streams
        PROVE  /\ batch_buffer'[r] \in Seq(Range(frames'[r]))
               /\ logits'[r] \in Seq(Seq(Range(frames'[r])))
               /\ stage'[r] # "done" => previous_state'[r] \in Seq(Range(frames'[r]))
    <3>1. CASE r = s
      <4>1. Range(frames'[r]) = R
        BY <3>1 DEF R, fr
      <4> QED BY <1>3, <1>7, <3>1, <4>1
    <3>2. CASE r # s
      <4>1. /\ batch_buffer[r] \in Seq(Range(frames[r]))
            /\ logits[r] \in Seq(Seq(Range(frames[r])))
            /\ stage[r] # "done" => previous_state[r] \in Seq(Range(frames[r]))
        BY DEF BackendInv, Isolated
      <4>2. frames'[r] = frames[r]
        BY <1>2, <3>2
      <4> QED BY <1>7, <3>2, <4>1, <4>2
    <3> QED BY <3>1, <3>2
  <2> QED BY <2>1, Zenon DEF Isolated, Range
<1>11. Complete'
  <2>1. ASSUME NEW r \in Streams \ failed'
        PROVE  /\ Own(frames'[r], logits'[r], batch_buffer'[r])
               /\ stage'[r] # "done" => previous_state'[r] = Seen(frames'[r], logits'[r])
    <3>1. CASE r = s
      BY <1>3, <1>7, <3>1 DEF fr
    <3>2. CASE r # s
      <4>1. r \in Streams \ failed
        BY <1>3
      <4>2. /\ Own(frames[r], logits[r], batch_buffer[r])
            /\ stage[r] # "done" => previous_state[r] = Seen(frames[r], logits[r])
        BY <4>1 DEF BackendInv, Complete
      <4>3. frames'[r] = frames[r]
        BY <1>2, <3>2
      <4> QED BY <1>7, <3>2, <4>2, <4>3
    <3> QED BY <3>1, <3>2
  <2> QED BY <2>1 DEF Complete, Own, Seen
<1> QED BY <1>8, <1>9, <1>10, <1>11 DEF BackendInv

\* Every step keeps the invariant.
LEMMA BackendStep ==
  ASSUME BackendInv, [BackendNext]_backendVars
  PROVE  BackendInv'
<1>1. CASE UNCHANGED backendVars
  <2>0. UNCHANGED <<USE_TFLITE, stage, batch_buffer, previous_state, logits, input_samples, input_node,
                    sent, frames, fed, failed>>
    BY <1>1 DEF backendVars
  <2>1. BackendTypes'
    BY <2>0 DEF BackendInv, BackendTypes, Windows, Values
  <2>2. WindowsFit'
    BY <2>0 DEF BackendInv, WindowsFit, Fits
  <2>3. Isolated'
    BY <2>0 DEF BackendInv, Isolated, Range
  <2>4. Complete'
    BY <2>0 DEF BackendInv, Complete, Own, Seen
  <2> QED BY <2>1, <2>2, <2>3, <2>4 DEF BackendInv
<1>2. ASSUME NEW s \in Streams, NEW new \in {"live", "done"},
             stage[s] # "done", stage' = [stage EXCEPT ![s] = new],
             UNCHANGED <<USE_TFLITE, batch_buffer, previous_state, logits, input_samples, input_node,
                         sent, frames, fed, failed>>
      PROVE  BackendInv'
  <2>1. /\ stage' \in [Streams -> {"none", "live", "done"}]
        /\ \A r \in Streams : stage'[r] # "done" => stage[r] # "done"
    BY <1>2 DEF BackendInv, BackendTypes
  <2>2. BackendTypes'
    BY <1>2, <2>1 DEF BackendInv, BackendTypes, Windows, Values
  <2>3. WindowsFit'
    BY <1>2 DEF BackendInv, WindowsFit, Fits
  <2>4. Isolated'
    BY <1>2, <2>1 DEF BackendInv, Isolated, Range
  <2>5. Complete'
    BY <1>2, <2>1 DEF BackendInv, Complete, Own, Seen
  <2> QED BY <2>2, <2>3, <2>4, <2>5 DEF BackendInv
<1>3. ASSUME NEW s \in Streams, DS_CreateStream(s) PROVE BackendInv'
  BY <1>2, <1>3 DEF DS_CreateStream
<1>4. ASSUME NEW s \in Streams, FeedWindow(s) PROVE BackendInv'
  <2>1. audio_win_len \in 0 .. audio_win_len
    BY BackendAssumption
  <2>2. /\ stage[s] = "live" /\ processAudioWindow(s, Samples(s, audio_win_len), FALSE)
        /\ USE_TFLITE' = USE_TFLITE /\ stage' = stage
    BY <1>4 DEF FeedWindow
  <2> QED BY <2>1, <2>2, WindowStep
<1>5. ASSUME NEW s \in Streams, NEW n \in 0 .. audio_win_len - 1, DS_FinishStream(s, n)
      PROVE  BackendInv'
  <2>1. n \in 0 .. audio_win_len
    BY BackendAssumption
  <2>2. /\ stage[s] = "live" /\ processAudioWindow(s, Samples(s, n), TRUE)
        /\ USE_TFLITE' = USE_TFLITE /\ stage' = [stage EXCEPT ![s] = "done"]
    BY <1>5 DEF DS_FinishStream
  <2> QED BY <2>1, <2>2, WindowStep
<1>6. ASSUME NEW s \in Streams, DS_FreeStream(s) PROVE BackendInv'
  BY <1>2, <1>6 DEF DS_FreeStream
<1> QED BY <1>1, <1>3, <1>4, <1>5, <1>6 DEF BackendNext

\* A new model has no streams.
LEMMA BackendStart ==
  ASSUME BackendInit PROVE BackendInv
<1>1. n_steps \in Nat \ {0} /\ audio_win_len \in Nat \ {0}
  BY BackendAssumption
<1>2. input_samples \in Windows
  BY DEF BackendInit, Windows, Values
<1>3. Len(<< >>) = 0 /\ (\A D : << >> \in Seq(D)) /\ 1 .. 0 = {}
  OBVIOUS
<1>4. BackendTypes
  BY <1>1, <1>2, <1>3 DEF BackendInit, BackendTypes
<1>5. WindowsFit
  BY <1>3 DEF BackendInit, WindowsFit
<1>6. Isolated
  BY <1>3 DEF BackendInit, Isolated
<1>7. Complete
  <2>1. Own(<< >>, << >>, << >>) /\ << >> = Seen(<< >>, << >>)
    BY DEF Own, Seen
  <2> QED BY <2>1 DEF BackendInit, Complete
<1> QED BY <1>4, <1>5, <1>6, <1>7 DEF BackendInv

\* The back end, for any number of streams, any window and batch size, and
\* runs of the graph that fail at any point.
THEOREM BackendInvariant == BackendSpec => []BackendInv
<1>1. BackendInit => BackendInv
  BY BackendStart
<1>2. BackendInv /\ [BackendNext]_backendVars => BackendInv'
  BY BackendStep
<1> QED BY <1>1, <1>2, PTL DEF BackendSpec

\* The windows that reach the graph: a full window as it is, and on the
\* TensorFlow back end every window padded with zeros, whatever the other
\* streams of the model, or a failed run, left in input_samples.
THEOREM WindowsReachGraph == BackendSpec => []WindowInv
<1>1. BackendInv => WindowInv
  <2> SUFFICES ASSUME BackendInv PROVE WindowInv
    OBVIOUS
  <2>1. \A s \in Streams : DOMAIN sent[s] = 1 .. Len(sent[s])
    BY DEF BackendInv, BackendTypes
  <2>2. FullWindowIntact
    BY <2>1 DEF BackendInv, WindowsFit, Fits, FullWindowIntact
  <2>3. FlushPadded
    BY <2>1 DEF BackendInv, WindowsFit, Fits, FlushPadded, WindowPadded
  <2>4. BackendTypeOK
    <3>1. n_steps \in Nat
      BY BackendAssumption
    <3>2. \A s \in Streams : Len(batch_buffer[s]) \in Nat /\ Len(batch_buffer[s]) < n_steps
      BY DEF BackendInv, BackendTypes
    <3>3. \A s \in Streams : Len(batch_buffer[s]) \in 0 .. n_steps - 1
      BY <3>1, <3>2
    <3> QED BY <3>3 DEF BackendInv, BackendTypes, Windows, BackendTypeOK
  <2> QED BY <2>2, <2>3, <2>4 DEF WindowInv
<1> QED BY <1>1, BackendInvariant, PTL

\* compute_mfcc and infer for interleaved streams: no frame of another stream
\* contributes to the logits of a stream, and without a failed run they are
\* those of its own frames in order.
THEOREM LogitsUnmixed == BackendSpec => []LogitsSound
<1>1. BackendInv => LogitsSound
  <2> SUFFICES ASSUME BackendInv PROVE LogitsSound
    OBVIOUS
  <2>1. LogitsOwn
    <3>1. \A s \in Streams : DOMAIN logits[s] = 1 .. Len(logits[s])
      BY DEF BackendInv, BackendTypes
    <3> QED BY <3>1 DEF BackendInv, Complete, Own, LogitsOwn
  <2>2. LogitsIsolated
    <3> SUFFICES ASSUME NEW s \in Streams, NEW t \in DOMAIN logits[s]
                 PROVE  Range(logits[s][t]) \subseteq Range(frames[s])
      BY DEF LogitsIsolated
    <3> DEFINE R == Range(frames[s])
    <3>1. logits[s] \in Seq(Seq(R))
      BY DEF BackendInv, Isolated
    <3> HIDE DEF R
    <3>2. logits[s][t] \in Seq(R)
      BY <3>1
    <3>3. Range(logits[s][t]) \subseteq R
      BY <3>2 DEF Range
    <3> QED BY <3>3 DEF R
  <2> QED BY <2>1, <2>2 DEF LogitsSound
<1> QED BY <1>1, BackendInvariant, PTL

=============================================================================
