------------------------- MODULE DecoderStateProofs -------------------------
(***************************************************************************)
(* The beam search of DecoderState, for any alphabet, beam, rows of        *)
(* probabilities, vocabulary and language model.                           *)
(***************************************************************************)
EXTENDS DecoderState, FiniteSetTheorems, SequenceTheorems, WellFoundedInduction, TLAPS

-----------------------------------------------------------------------------
(* Induction and recursive functions *)

\* A non-empty set of naturals has a smallest element.
LEMMA Smallest ==
  ASSUME NEW S \in SUBSET Nat, S # {}
  PROVE  \E s \in S : \A t \in S : s <= t
<1> DEFINE R == OpToRel(<, Nat)
<1>1. \A s, t \in Nat : t < s => <<t, s>> \in R
  BY DEF OpToRel
<1>2. IsWellFoundedOn(R, Nat)
  BY NatLessThanWellFounded
<1> HIDE DEF R
<1>3. PICK s \in S : \A t \in S : <<t, s>> \notin R
  BY <1>2, WFMin
<1>4. ASSUME NEW t \in S PROVE s <= t
  <2>1. s \in Nat /\ t \in Nat
    OBVIOUS
  <2>2. ~(t < s)
    BY <1>1, <1>3, <2>1
  <2> QED BY <2>1, <2>2
<1> QED BY <1>4

\* Induction up to m: a set with 0 and with the successors of its members.
LEMMA UpTo ==
  ASSUME NEW m \in Nat, NEW S, 0 \in S, \A n \in 0 .. m - 1 : n \in S => n + 1 \in S
  PROVE  \A n \in 0 .. m : n \in S
<1> SUFFICES ASSUME {n \in 0 .. m : n \notin S} # {} PROVE FALSE
  OBVIOUS
<1> DEFINE B == {n \in 0 .. m : n \notin S}
<1>1. B \in SUBSET Nat
  OBVIOUS
<1>2. PICK n \in B : \A k \in B : n <= k
  BY <1>1, Smallest
<1>3. n \in 1 .. m /\ n - 1 \in 0 .. m - 1 /\ n - 1 \in 0 .. m
  BY <1>2
<1>4. n - 1 \notin B
  BY <1>2, <1>3
<1>5. (n - 1) + 1 = n /\ n - 1 \in S
  BY <1>3, <1>4
<1> QED BY <1>2, <1>3, <1>5

\* A non-empty set of integers with an upper bound has a maximum.
LEMMA MaxProps ==
  ASSUME NEW m \in Nat, NEW S \in SUBSET (0 .. m), S # {}
  PROVE  Max(S) \in S /\ \A x \in S : x <= Max(S)
<1> DEFINE T == {m - x : x \in S}
<1>0. \A x \in S : m - x \in Nat
  OBVIOUS
<1>1. T \in SUBSET Nat /\ T # {}
  BY <1>0
<1>2. PICK t \in T : \A u \in T : t <= u
  BY <1>1, Smallest
<1>3. PICK x \in S : t = m - x
  BY <1>2
<1>4. \A y \in S : y \in Int /\ m - y \in T
  OBVIOUS
<1>5. \A y \in S : x >= y
  <2>1. \A y \in S : m - x <= m - y
    BY <1>2, <1>3, <1>4
  <2> QED BY <1>4, <2>1
<1>6. \E z \in S : \A y \in S : z >= y
  BY <1>5
<1>7. Max(S) \in S /\ \A y \in S : Max(S) >= y
  BY <1>6 DEF Max
<1> QED BY <1>4, <1>7

\* f starts with b and goes on with g.
Iterates(f, m, V, b, g) ==
  f \in [0 .. m -> V] /\ f[0] = b /\ \A n \in 1 .. m : f[n] = g[f[n - 1]]

\* A function on 0 .. m may be defined by recursion on its argument.
LEMMA RecursionExists ==
  ASSUME NEW m \in Nat, NEW V, NEW b \in V, NEW g \in [V -> V]
  PROVE  \E f : Iterates(f, m, V, b, g)
<1> DEFINE Def(f, n) == f[0] = b /\ \A i \in 1 .. n : f[i] = g[f[i - 1]]
           S == {n \in 0 .. m : \E f \in [0 .. n -> V] : Def(f, n)}
<1>1. 0 \in S
  <2> DEFINE f == [i \in 0 .. 0 |-> b]
  <2>1. f \in [0 .. 0 -> V] /\ Def(f, 0)
    OBVIOUS
  <2>2. \E h \in [0 .. 0 -> V] : Def(h, 0)
    BY <2>1
  <2> QED BY <2>2
<1>2. ASSUME NEW n \in 0 .. m - 1, n \in S PROVE n + 1 \in S
  <2>1. PICK f \in [0 .. n -> V] : Def(f, n)
    BY <1>2
  <2> DEFINE h == [i \in 0 .. n + 1 |-> IF i = n + 1 THEN g[f[n]] ELSE f[i]]
  <2>2. h \in [0 .. n + 1 -> V] /\ h[0] = b
    BY <2>1
  <2>3. ASSUME NEW i \in 1 .. n + 1 PROVE h[i] = g[h[i - 1]]
    <3>1. CASE i = n + 1
      BY <3>1
    <3>2. CASE i # n + 1
      <4>1. i \in 1 .. n /\ h[i] = f[i] /\ h[i - 1] = f[i - 1]
        BY <3>2
      <4> QED BY <2>1, <4>1
    <3> QED BY <3>1, <3>2
  <2>4. \E u \in [0 .. n + 1 -> V] : Def(u, n + 1)
    BY <2>2, <2>3
  <2>5. n + 1 \in 0 .. m
    OBVIOUS
  <2> HIDE DEF Def
  <2> QED BY <2>4, <2>5
<1>3. m \in 0 .. m /\ (m \in S => \E f \in [0 .. m -> V] : Def(f, m))
  OBVIOUS
<1> HIDE DEF S
<1>4. m \in S
  BY <1>1, <1>2, <1>3, UpTo
<1> QED BY <1>3, <1>4 DEF Iterates

\* The powers of LmUnit are positive, each LmUnit times the one before.
LEMMA PowerProps ==
  \A n \in 0 .. MaxWords :
    power[n] \in Nat \ {0} /\ power[0] = 1 /\ (n > 0 => power[n] = LmUnit * power[n - 1])
<1>0. MaxWords \in Nat /\ LmUnit \in Nat \ {0}
  BY DecoderAssumption, ScorerAssumption
<1> DEFINE g == [v \in Nat |-> LmUnit * v]
<1>1. g \in [Nat -> Nat]
  BY <1>0
<1>2. PICK f \in [0 .. MaxWords -> Nat] :
        f[0] = 1 /\ \A n \in 1 .. MaxWords : f[n] = g[f[n - 1]]
  <2> HIDE DEF g
  <2>1. \E f : Iterates(f, MaxWords, Nat, 1, g)
    BY <1>0, <1>1, RecursionExists
  <2> QED BY <2>1 DEF Iterates
<1>3. f = [n \in 0 .. MaxWords |-> IF n = 0 THEN 1 ELSE LmUnit * f[n - 1]]
  <2>1. ASSUME NEW n \in 0 .. MaxWords PROVE f[n] = IF n = 0 THEN 1 ELSE LmUnit * f[n - 1]
    <3>1. CASE n = 0
      BY <1>2, <3>1
    <3>2. CASE n # 0
      <4>1. n \in 1 .. MaxWords /\ n - 1 \in 0 .. MaxWords
        BY <1>0, <3>2
      <4> QED BY <1>2, <3>2, <4>1
    <3> QED BY <3>1, <3>2
  <2> QED BY <2>1
<1>4. power = [n \in 0 .. MaxWords |-> IF n = 0 THEN 1 ELSE LmUnit * power[n - 1]]
  BY <1>3 DEF power
<1> DEFINE S == {n \in Nat : power[n] \in Nat \ {0}}
<1>5. 0 \in S
  BY <1>0, <1>4
<1>6. ASSUME NEW n \in 0 .. MaxWords - 1, n \in S PROVE n + 1 \in S
  <2>1. power[n + 1] = LmUnit * power[n]
    BY <1>0, <1>4
  <2>2. \A a, b \in Nat \ {0} : a * b \in Nat \ {0}
    OBVIOUS
  <2> QED BY <1>0, <1>6, <2>1, <2>2
<1>a. \A n \in S : power[n] \in Nat \ {0}
  OBVIOUS
<1> HIDE DEF S
<1>7. \A n \in 0 .. MaxWords : n \in S
  BY <1>0, <1>5, <1>6, UpTo
<1>8. power[0] = 1 /\ \A n \in 0 .. MaxWords : n > 0 => power[n] = LmUnit * power[n - 1]
  BY <1>0, <1>4
<1> QED BY <1>7, <1>8, <1>a
-----------------------------------------------------------------------------
(* Words *)

\* The place of the last space of a path.
LEMMA SpaceProps ==
  ASSUME NEW q \in Seq(Nat)
  PROVE  /\ SpaceBefore(q) \in 0 .. Len(q)
         /\ SpaceBefore(q) # 0 => q[SpaceBefore(q)] = space_id
         /\ \A i \in DOMAIN q : q[i] = space_id => i <= SpaceBefore(q)
<1> DEFINE S == {i \in DOMAIN q : q[i] = space_id} \cup {0}
<1>1. Len(q) \in Nat /\ S \in SUBSET (0 .. Len(q)) /\ S # {}
  OBVIOUS
<1>2. Max(S) \in S /\ \A x \in S : x <= Max(S)
  BY <1>1, MaxProps
<1>3. SpaceBefore(q) = Max(S)
  BY DEF SpaceBefore
<1> QED BY <1>1, <1>2, <1>3

\* make_ngram yields at most max_order words.
LEMMA NgramType ==
  ASSUME NEW path \in Seq(Nat)
  PROVE  make_ngram(path) \in Seq(Seq(Nat)) /\ Len(make_ngram(path)) <= max_order
<1>0. max_order \in Nat
  BY ScorerAssumption
<1> DEFINE W == [rest : Seq(Nat), ngram : Seq(Seq(Nat))]
           b == [rest |-> path, ngram |-> << >>]
           step(seen) == IF seen.rest = << >> THEN seen
                         ELSE [rest |-> SubSeq(seen.rest, 1, SpaceBefore(seen.rest) - 1),
                               ngram |-> <<LastWord(seen.rest)>> \o seen.ngram]
           g == [seen \in W |-> step(seen)]
           Walks(f) == f = [order \in 0 .. max_order |->
                              IF order = 0 THEN b ELSE step(f[order - 1])]
           walk == CHOOSE f : Walks(f)
<1>1. ASSUME NEW seen \in W
      PROVE  step(seen) \in W /\ Len(step(seen).ngram) <= Len(seen.ngram) + 1
  <2>1. CASE seen.rest = << >>
    BY <2>1
  <2>2. CASE seen.rest # << >>
    <3> DEFINE r == seen.rest
               n == SpaceBefore(r)
    <3>1. r \in Seq(Nat) /\ n \in 0 .. Len(r) /\ Len(r) \in Nat
      BY SpaceProps
    <3> HIDE DEF n
    <3>2. \A i \in 1 .. n - 1 : r[i] \in Nat
      BY <3>1
    <3>3. SubSeq(r, 1, n - 1) \in Seq(Nat)
      BY <3>1, <3>2, SubSeqProperties
    <3>4. \A i \in n + 1 .. Len(r) : r[i] \in Nat
      BY <3>1
    <3>5. LastWord(r) \in Seq(Nat)
      BY <3>1, <3>4, SubSeqProperties DEF LastWord, n
    <3> HIDE DEF r
    <3>6. <<LastWord(r)>> \in Seq(Seq(Nat)) /\ Len(<<LastWord(r)>>) = 1
      BY <3>5
    <3>7. /\ <<LastWord(r)>> \o seen.ngram \in Seq(Seq(Nat))
          /\ Len(<<LastWord(r)>> \o seen.ngram) = Len(seen.ngram) + 1
      BY <3>6, ConcatProperties
    <3>8. step(seen) = [rest |-> SubSeq(r, 1, n - 1), ngram |-> <<LastWord(r)>> \o seen.ngram]
      BY <2>2 DEF r, n
    <3> HIDE DEF step
    <3> QED BY <3>3, <3>7, <3>8
  <2> QED BY <2>1, <2>2
<1>2. b \in W
  OBVIOUS
<1> HIDE DEF step, b
<1>3. g \in [W -> W] /\ \A seen \in W : g[seen] = step(seen)
  BY <1>1
<1>4. PICK f \in [0 .. max_order -> W] :
        f[0] = b /\ \A n \in 1 .. max_order : f[n] = g[f[n - 1]]
  <2> HIDE DEF g, W
  <2>1. \E f : Iterates(f, max_order, W, b, g)
    BY <1>0, <1>2, <1>3, RecursionExists
  <2> QED BY <2>1 DEF Iterates
<1>5. Walks(f)
  <2>1. ASSUME NEW n \in 0 .. max_order PROVE f[n] = IF n = 0 THEN b ELSE step(f[n - 1])
    <3>1. CASE n = 0
      BY <1>4, <3>1
    <3>2. CASE n # 0
      <4>1. n \in 1 .. max_order /\ n - 1 \in 0 .. max_order
        BY <1>0, <3>2
      <4> QED BY <1>3, <1>4, <3>2, <4>1
    <3> QED BY <3>1, <3>2
  <2> QED BY <2>1
<1>6. Walks(walk)
  BY <1>5
<1> DEFINE S == {n \in Nat : walk[n] \in W /\ Len(walk[n].ngram) <= n}
<1> HIDE DEF walk
<1>7. 0 \in S
  <2>1. walk[0] = b
    BY <1>0, <1>6
  <2>2. Len(b.ngram) <= 0
    BY DEF b
  <2> QED BY <1>2, <2>1, <2>2
<1>8. ASSUME NEW n \in 0 .. max_order - 1, n \in S PROVE n + 1 \in S
  <2>1. walk[n + 1] = step(walk[n])
    BY <1>0, <1>6
  <2>2. walk[n] \in W /\ Len(walk[n].ngram) <= n
    BY <1>8
  <2>3. walk[n + 1] \in W /\ Len(walk[n + 1].ngram) <= Len(walk[n].ngram) + 1
    BY <1>1, <2>1, <2>2
  <2>4. Len(walk[n].ngram) \in Nat /\ Len(walk[n + 1].ngram) \in Nat
    BY <2>2, <2>3
  <2>5. \A x, y \in Nat : x <= y + 1 /\ y <= n => x <= n + 1
    BY <1>0
  <2>6. Len(walk[n + 1].ngram) <= n + 1
    BY <2>2, <2>3, <2>4, <2>5, Zenon
  <2> QED BY <1>0, <2>3, <2>6
<1>a. \A n \in S : walk[n] \in W /\ Len(walk[n].ngram) <= n
  OBVIOUS
<1> HIDE DEF S
<1>9. max_order \in S
  <2> max_order \in 0 .. max_order
    BY <1>0
  <2> QED BY <1>0, <1>7, <1>8, UpTo
<1>10. make_ngram(path) = walk[max_order].ngram
  BY DEF make_ngram, walk, step, b
<1> QED BY <1>9, <1>a, <1>10

\* The factor of an n-gram is at least one and at most beta.
LEMMA CondProbType ==
  ASSUME NEW path \in Seq(Nat)
  PROVE  CondProb(make_ngram(path)) \in 1 .. beta
<1> DEFINE ngram == make_ngram(path)
<1>1. ngram \in Seq(Seq(Nat)) /\ Len(ngram) \in 0 .. max_order
  BY NgramType
<1> HIDE DEF ngram
<1>2. CASE Range(ngram) \subseteq vocabulary
  <2>1. ngram \in [1 .. Len(ngram) -> vocabulary]
    BY <1>1, <1>2 DEF Range
  <2>2. ngram \in BoundedSeq(vocabulary, max_order)
    BY <1>1, <2>1 DEF BoundedSeq, SeqOf
  <2>3. Bos(ngram) \in BOOLEAN
    BY DEF Bos
  <2> QED BY <1>2, <2>2, <2>3, ScorerAssumption DEF CondProb, ngram
<1>3. CASE ~(Range(ngram) \subseteq vocabulary)
  BY <1>3, ScorerAssumption DEF CondProb, ngram
<1> QED BY <1>2, <1>3
-----------------------------------------------------------------------------
(* Folds of a sequence *)

\* f folds the subsets of 1 .. n with h, starting with b.
FoldsSets(f, n, V, b, h) ==
  /\ f \in [SUBSET (1 .. n) -> V] /\ f[{}] = b
  /\ \A s \in SUBSET (1 .. n) : s # {} => f[s] = h[<<Max(s), f[s \ {Max(s)}]>>]

LEMMA MaxOf ==
  ASSUME NEW n \in Nat, NEW s \in SUBSET (1 .. n), s # {}
  PROVE  Max(s) \in s /\ (n \in s => Max(s) = n)
<1>1. s \in SUBSET (0 .. n)
  OBVIOUS
<1>2. Max(s) \in s /\ \A x \in s : x <= Max(s)
  BY <1>1, MaxProps
<1>3. Max(s) \in 1 .. n
  BY <1>2
<1>4. ASSUME n \in s PROVE Max(s) = n
  <2>1. n <= Max(s)
    BY <1>2, <1>4
  <2> QED BY <1>3, <2>1
<1> QED BY <1>2, <1>4

LEMMA FoldExists ==
  ASSUME NEW m \in Nat, NEW V, NEW b \in V, NEW h \in [(1 .. m) \X V -> V]
  PROVE  \E f : FoldsSets(f, m, V, b, h)
<1> DEFINE S == {n \in 0 .. m : \E f : FoldsSets(f, n, V, b, h)}
<1>1. 0 \in S
  <2> DEFINE f == [s \in SUBSET (1 .. 0) |-> b]
  <2>1. \A s \in SUBSET (1 .. 0) : s = {}
    OBVIOUS
  <2>2. FoldsSets(f, 0, V, b, h)
    BY <2>1 DEF FoldsSets
  <2> HIDE DEF f
  <2> QED BY <2>2
<1>2. ASSUME NEW n \in 0 .. m - 1, n \in S PROVE n + 1 \in S
  <2>1. PICK f : FoldsSets(f, n, V, b, h)
    BY <1>2
  <2> DEFINE T == SUBSET (1 .. n + 1)
             u == [s \in T |-> IF n + 1 \in s THEN h[<<n + 1, f[s \ {n + 1}]>>] ELSE f[s]]
  <2>2. \A s \in T : n + 1 \notin s => s \in SUBSET (1 .. n)
    OBVIOUS
  <2>3. \A s \in T : s \ {n + 1} \in SUBSET (1 .. n)
    OBVIOUS
  <2>4. n + 1 \in 1 .. m /\ n + 1 \in Nat /\ n \in Nat
    OBVIOUS
  <2>5. \A s \in T : u[s] \in V
    BY <2>1, <2>2, <2>3, <2>4 DEF FoldsSets
  <2>6. u \in [T -> V] /\ u[{}] = b
    BY <2>1, <2>5 DEF FoldsSets
  <2>7. ASSUME NEW s \in T, s # {} PROVE u[s] = h[<<Max(s), u[s \ {Max(s)}]>>]
    <3> DEFINE r == s \ {Max(s)}
    <3>1. r \in T
      OBVIOUS
    <3>2. CASE n + 1 \in s
      <4>1. Max(s) = n + 1
        BY <2>4, <2>7, <3>2, MaxOf
      <4>2. u[r] = f[r] /\ u[s] = h[<<n + 1, f[r]>>]
        BY <3>1, <3>2, <4>1
      <4> QED BY <4>1, <4>2
    <3>3. CASE n + 1 \notin s
      <4>1. s \in SUBSET (1 .. n) /\ n + 1 \notin r
        BY <2>2, <3>3
      <4>2. u[s] = f[s] /\ u[r] = f[r]
        BY <3>1, <3>3, <4>1
      <4>3. f[s] = h[<<Max(s), f[r]>>]
        BY <2>1, <2>7, <4>1 DEF FoldsSets
      <4> QED BY <4>2, <4>3
    <3> QED BY <3>2, <3>3
  <2> HIDE DEF u
  <2>8. FoldsSets(u, n + 1, V, b, h)
    BY <2>6, <2>7 DEF FoldsSets
  <2> QED BY <2>4, <2>8
<1>3. m \in 0 .. m /\ (m \in S => \E f : FoldsSets(f, m, V, b, h))
  OBVIOUS
<1> HIDE DEF S
<1>4. m \in S
  BY <1>1, <1>2, <1>3, UpTo
<1> QED BY <1>3, <1>4

\* What the fold gives for the first j positions.
LEMMA FoldValues ==
  ASSUME NEW m \in Nat, NEW V, NEW b, NEW h, NEW f,
         f[{}] = b,
         \A s \in SUBSET (1 .. m) : s # {} => f[s] = h[<<Max(s), f[s \ {Max(s)}]>>]
  PROVE  f[1 .. 0] = b /\ \A j \in 1 .. m : f[1 .. j] = h[<<j, f[1 .. j - 1]>>]
<1>1. 1 .. 0 = {}
  OBVIOUS
<1>2. ASSUME NEW j \in 1 .. m PROVE f[1 .. j] = h[<<j, f[1 .. j - 1]>>]
  <2>1. j \in Nat /\ 1 .. j \in SUBSET (1 .. j) /\ 1 .. j # {} /\ j \in 1 .. j
    OBVIOUS
  <2>2. Max(1 .. j) = j
    BY <2>1, MaxOf
  <2>3. (1 .. j) \ {j} = 1 .. j - 1 /\ 1 .. j \in SUBSET (1 .. m)
    OBVIOUS
  <2> QED BY <2>1, <2>2, <2>3
<1> QED BY <1>1, <1>2

\* The boosts of an n-gram multiply to a positive factor.
LEMMA HotBoostType ==
  ASSUME NEW hw, \A word \in DOMAIN hw : hw[word] \in Nat \ {0},
         NEW D, NEW ngram \in Seq(D)
  PROVE  HotBoost(hw, ngram) \in Nat \ {0} /\ (DOMAIN hw = {} => HotBoost(hw, ngram) = 1)
<1> DEFINE m == Len(ngram)
           F(i) == IF ngram[i] \in DOMAIN hw THEN hw[ngram[i]] ELSE 1
           Body(f, s) == IF s = {} THEN 1 ELSE f[s \ {Max(s)}] * F(Max(s))
           Iter(f) == f = [s \in SUBSET (1 .. m) |-> Body(f, s)]
           iter == CHOOSE f : Iter(f)
           h == [p \in (1 .. m) \X Nat |-> p[2] * F(p[1])]
<1>1. m \in Nat /\ DOMAIN ngram = 1 .. m
  OBVIOUS
<1>2. HotBoost(hw, ngram) = iter[1 .. m]
  BY <1>1 DEF HotBoost, FoldLeft, MapThenFoldSet
<1>3. \A i \in 1 .. m : F(i) \in Nat \ {0} /\ (DOMAIN hw = {} => F(i) = 1)
  OBVIOUS
<1> HIDE DEF F, m
<1>4. \A a, c \in Nat : a * c \in Nat
  OBVIOUS
<1>5. h \in [(1 .. m) \X Nat -> Nat] /\ \A i \in 1 .. m, v \in Nat : h[<<i, v>>] = v * F(i)
  BY <1>3, <1>4
<1>6. PICK f : FoldsSets(f, m, Nat, 1, h)
  <2> HIDE DEF h
  <2> QED BY <1>1, <1>5, FoldExists
<1> HIDE DEF h
<1>7. Iter(f)
  <2>1. ASSUME NEW s \in SUBSET (1 .. m) PROVE f[s] = Body(f, s)
    <3>1. CASE s = {}
      BY <1>6, <3>1 DEF FoldsSets
    <3>2. CASE s # {}
      <4>1. Max(s) \in 1 .. m
        BY <1>1, <3>2, MaxOf
      <4>2. s \ {Max(s)} \in SUBSET (1 .. m)
        OBVIOUS
      <4>3. f[s \ {Max(s)}] \in Nat /\ f[s] = h[<<Max(s), f[s \ {Max(s)}]>>]
        BY <1>6, <3>2, <4>2 DEF FoldsSets
      <4> QED BY <1>5, <3>2, <4>1, <4>3
    <3> QED BY <3>1, <3>2
  <2> HIDE DEF Body
  <2> QED BY <1>6, <2>1 DEF FoldsSets
<1>8. Iter(iter)
  BY <1>7
<1> DEFINE P(v) == v \in Nat \ {0} /\ (DOMAIN hw = {} => v = 1)
           S == {n \in Nat : P(iter[1 .. n])}
<1> HIDE DEF iter
<1>9. 0 \in S
  <2>1. 1 .. 0 = {} /\ {} \in SUBSET (1 .. m)
    OBVIOUS
  <2> QED BY <1>8, <2>1
<1>10. ASSUME NEW n \in 0 .. m - 1, n \in S PROVE n + 1 \in S
  <2>0. PICK j \in 1 .. m : j = n + 1 /\ n = j - 1 /\ n \in Nat
    BY <1>1
  <2>1. j \in Nat /\ 1 .. j \in SUBSET (1 .. j) /\ 1 .. j # {} /\ j \in 1 .. j
    BY <1>1, <2>0
  <2>2. Max(1 .. j) = j
    BY <2>1, MaxOf
  <2>3. (1 .. j) \ {j} = 1 .. n /\ 1 .. j \in SUBSET (1 .. m)
    BY <1>1, <2>0
  <2>4. iter[1 .. j] = Body(iter, 1 .. j)
    BY <1>8, <2>3
  <2>5. iter[1 .. j] = iter[1 .. n] * F(j)
    BY <2>1, <2>2, <2>3, <2>4
  <2>6. \A a, c : P(a) /\ P(c) => P(a * c)
    OBVIOUS
  <2>7. P(iter[1 .. n]) /\ P(F(j))
    BY <1>3, <1>10, <2>0
  <2> HIDE DEF P
  <2> QED BY <2>0, <2>1, <2>5, <2>6, <2>7
<1>11. \A n \in S : P(iter[1 .. n])
  OBVIOUS
<1> HIDE DEF S
<1>12. m \in S
  <2>1. m \in 0 .. m
    BY <1>1
  <2> QED BY <1>1, <1>9, <1>10, <2>1, UpTo
<1> QED BY <1>2, <1>11, <1>12
-----------------------------------------------------------------------------
(* The trie *)

\* Prefixes, element by element.
LEMMA PrefixPointwise ==
  ASSUME NEW D, NEW s \in Seq(D), NEW t \in Seq(D)
  PROVE  IsPrefix(s, t) <=> Len(s) <= Len(t) /\ \A i \in 1 .. Len(s) : s[i] = t[i]
<1>1. Len(s) \in Nat /\ Len(t) \in Nat
  OBVIOUS
<1>2. SubSeq(s, 1, Len(s)) = s
  BY SubSeqFull
<1>3. ASSUME Len(s) <= Len(t)
      PROVE  SubSeq(t, 1, Len(s)) = s <=> \A i \in 1 .. Len(s) : s[i] = t[i]
  <2> DEFINE u == SubSeq(t, 1, Len(s))
  <2>1. \A i \in 1 .. Len(s) : t[i] \in D
    BY <1>1, <1>3
  <2>2. u \in Seq(D) /\ Len(u) = Len(s) /\ \A i \in 1 .. Len(s) : u[i] = t[i]
    <3>1. /\ u \in Seq(D) /\ Len(u) = IF 1 <= Len(s) THEN Len(s) - 1 + 1 ELSE 0
          /\ \A i \in 1 .. Len(s) - 1 + 1 : u[i] = t[1 + i - 1]
      BY <1>1, <2>1, SubSeqProperties
    <3>2. \A i \in 1 .. Len(s) : i \in 1 .. Len(s) - 1 + 1 /\ 1 + i - 1 = i
      BY <1>1
    <3> QED BY <1>1, <3>1, <3>2
  <2> HIDE DEF u
  <2> QED BY <2>2, SeqEqual DEF u
<1> QED BY <1>2, <1>3 DEF IsPrefix

LEMMA PrefixProps ==
  ASSUME NEW D
  PROVE  /\ \A s \in Seq(D) : IsPrefix(s, s) /\ IsPrefix(<< >>, s)
         /\ \A s, t, u \in Seq(D) : IsPrefix(s, t) /\ IsPrefix(t, u) => IsPrefix(s, u)
<1>1. << >> \in Seq(D) /\ Len(<< >>) = 0
  OBVIOUS
<1>2. \A s \in Seq(D) : Len(s) \in Nat
  OBVIOUS
<1>3. ASSUME NEW s \in Seq(D) PROVE IsPrefix(s, s) /\ IsPrefix(<< >>, s)
  <2>1. Len(<< >>) <= Len(s) /\ \A i \in 1 .. Len(<< >>) : << >>[i] = s[i]
    BY <1>1, <1>2
  <2>2. IsPrefix(<< >>, s)
    BY <1>1, <2>1, PrefixPointwise
  <2>3. IsPrefix(s, s)
    BY <1>2, PrefixPointwise
  <2> QED BY <2>2, <2>3
<1>4. ASSUME NEW s \in Seq(D), NEW t \in Seq(D), NEW u \in Seq(D), IsPrefix(s, t), IsPrefix(t, u)
      PROVE  IsPrefix(s, u)
  <2>1. /\ Len(s) <= Len(t) /\ \A i \in 1 .. Len(s) : s[i] = t[i]
        /\ Len(t) <= Len(u) /\ \A i \in 1 .. Len(t) : t[i] = u[i]
    BY <1>4, PrefixPointwise
  <2>2. Len(s) <= Len(u) /\ \A i \in 1 .. Len(s) : s[i] = u[i]
    BY <1>2, <2>1
  <2> QED BY <2>2, PrefixPointwise
<1> QED BY <1>3, <1>4

\* The parent of a path.
LEMMA FrontProps ==
  ASSUME NEW D, NEW q \in Seq(D), q # << >>
  PROVE  /\ Front(q) \in Seq(D) /\ Len(Front(q)) = Len(q) - 1 /\ Last(q) \in D
         /\ \A i \in 1 .. Len(q) - 1 : Front(q)[i] = q[i]
         /\ IsPrefix(Front(q), q) /\ q = Append(Front(q), Last(q))
<1> DEFINE n == Len(q) - 1
<1>1. n \in Nat /\ n + 1 = Len(q) /\ Len(q) \in 1 .. Len(q)
  OBVIOUS
<1>2. Front(q) = SubSeq(q, 1, n)
  BY DEF Front
<1> HIDE DEF n
<1>3. \A i \in 1 .. n : q[i] \in D /\ i \in 1 .. Len(q)
  BY <1>1
<1>4. Front(q) \in Seq(D) /\ Len(Front(q)) = n /\ \A i \in 1 .. n : Front(q)[i] = q[i]
  <2>1. /\ Front(q) \in Seq(D) /\ Len(Front(q)) = IF 1 <= n THEN n - 1 + 1 ELSE 0
        /\ \A i \in 1 .. n - 1 + 1 : Front(q)[i] = q[1 + i - 1]
    BY <1>1, <1>2, <1>3, SubSeqProperties
  <2>2. \A i \in 1 .. n : i \in 1 .. n - 1 + 1 /\ 1 + i - 1 = i
    BY <1>1
  <2> QED BY <1>1, <2>1, <2>2
<1>5. Last(q) \in D
  BY <1>1 DEF Last
<1>6. IsPrefix(Front(q), q)
  BY <1>1, <1>4, PrefixPointwise
<1>7. q = Append(Front(q), Last(q))
  <2> DEFINE r == Append(Front(q), Last(q))
  <2>1. r \in Seq(D) /\ Len(r) = n + 1 /\ r[n + 1] = Last(q) /\ \A i \in 1 .. n : r[i] = q[i]
    BY <1>4, <1>5, AppendProperties
  <2>2. \A i \in 1 .. n + 1 : i = n + 1 \/ i \in 1 .. n
    BY <1>1
  <2>3. \A i \in 1 .. n + 1 : r[i] = q[i]
    BY <1>1, <2>1, <2>2 DEF Last
  <2> HIDE DEF r
  <2>4. r = q
    BY <1>1, <2>1, <2>3, SeqEqual
  <2> QED BY <2>4 DEF r
<1> QED BY <1>4, <1>5, <1>6, <1>7 DEF n

LEMMA AppendProps ==
  ASSUME NEW D, NEW p \in Seq(D), NEW c \in D
  PROVE  /\ Append(p, c) \in Seq(D) /\ Append(p, c) # << >> /\ Len(Append(p, c)) = Len(p) + 1
         /\ Front(Append(p, c)) = p /\ Last(Append(p, c)) = c
<1> DEFINE q == Append(p, c)
<1>1. /\ q \in Seq(D) /\ q # << >> /\ Len(q) = Len(p) + 1 /\ Len(p) \in Nat
      /\ q[Len(p) + 1] = c /\ \A i \in 1 .. Len(p) : q[i] = p[i]
  OBVIOUS
<1> HIDE DEF q
<1>2. Front(q) \in Seq(D) /\ Len(Front(q)) = Len(p) /\ \A i \in 1 .. Len(p) : Front(q)[i] = p[i]
  BY <1>1, FrontProps
<1>3. Front(q) = p
  BY <1>2, SeqEqual
<1> QED BY <1>1, <1>3 DEF q, Last

\* The trie: finite, with the parent of every node, and every node leads to one
\* that exists.
TrieOK(tr) ==
  /\ IsFiniteSet(DOMAIN tr)
  /\ \A q \in DOMAIN tr : q \in Paths /\ tr[q] \in Nodes
  /\ << >> \in DOMAIN tr
  /\ \A q \in DOMAIN tr \ {<< >>} : Front(q) \in DOMAIN tr
  /\ \A q \in DOMAIN tr : \E p \in Existing(tr) : IsPrefix(q, p)

\* remove() leaves such a trie, without dead branches, if another node exists.
LEMMA RemoveProps ==
  ASSUME NEW tr, TrieOK(tr), NEW path \in Existing(tr), NEW other \in Existing(tr), other # path
  PROVE  /\ TrieOK(remove(tr, path))
         /\ Existing(remove(tr, path)) = Existing(tr) \ {path}
         /\ \A q \in Existing(tr) \ {path} : remove(tr, path)[q] = tr[q]
<1> DEFINE m == [tr EXCEPT ![path].exists = FALSE]
           gone == Deleted(m, path)
           new == remove(tr, path)
<1>1. /\ DOMAIN m = DOMAIN tr /\ path \in DOMAIN tr
      /\ m[path] = [tr[path] EXCEPT !.exists = FALSE]
      /\ \A q \in DOMAIN tr : q # path => m[q] = tr[q]
  BY DEF Existing
<1>2. /\ \A q \in DOMAIN m : m[q] \in Nodes /\ q \in Paths
      /\ \A q \in DOMAIN m : m[q].exists <=> q # path /\ tr[q].exists
  <2>1. tr[path] \in Nodes
    BY <1>1 DEF TrieOK
  <2>2. m[path] \in Nodes /\ m[path].exists = FALSE
    BY <1>1, <2>1 DEF Nodes
  <2> QED BY <1>1, <2>2 DEF TrieOK
<1>3. new = [q \in DOMAIN tr \ gone |-> m[q]]
  BY DEF remove
<1> HIDE DEF m, new
<1>4. \A a \in DOMAIN m :
        a \in gone <=> /\ IsPrefix(a, path)
                       /\ \A q \in DOMAIN m : IsPrefix(a, q) => IsPrefix(q, path)
                       /\ \A q \in DOMAIN m : IsPrefix(a, q) /\ q # path => ~m[q].exists
  BY DEF Deleted
<1> HIDE DEF gone
<1>5. \A q \in Existing(tr) \ {path} : q \in DOMAIN m /\ q \notin gone
  BY <1>1, <1>2, <1>4, PrefixProps DEF Existing, Paths
<1>6. Existing(new) = Existing(tr) \ {path}
  BY <1>1, <1>2, <1>3, <1>5 DEF Existing
<1>7. \A q \in Existing(tr) \ {path} : new[q] = tr[q]
  BY <1>1, <1>3, <1>5
<1>8. << >> \in DOMAIN new
  <2>1. << >> \in DOMAIN m /\ other \in DOMAIN m /\ m[other].exists /\ IsPrefix(<< >>, other)
    BY <1>1, <1>2, PrefixProps DEF TrieOK, Existing, Paths
  <2> QED BY <1>1, <1>3, <1>4, <2>1
<1>9. ASSUME NEW q \in DOMAIN new \ {<< >>} PROVE Front(q) \in DOMAIN new
  <2>1. q \in DOMAIN m /\ q \notin gone /\ Front(q) \in DOMAIN m
    BY <1>1, <1>3 DEF TrieOK
  <2>2. q \in Paths /\ Front(q) \in Paths /\ IsPrefix(Front(q), q)
    BY <1>2, <2>1, FrontProps DEF Paths
  <2>3. ASSUME Front(q) \in gone PROVE q \in gone
    <3>1. IsPrefix(q, path)
      BY <1>4, <2>1, <2>2, <2>3
    <3>2. \A r \in DOMAIN m : IsPrefix(q, r) => IsPrefix(Front(q), r)
      BY <1>2, <2>2, PrefixProps DEF Paths
    <3> QED BY <1>4, <2>1, <2>3, <3>1, <3>2
  <2> QED BY <1>1, <1>3, <2>1, <2>3
<1>10. ASSUME NEW a \in DOMAIN new PROVE \E p \in Existing(new) : IsPrefix(a, p)
  <2>1. a \in DOMAIN m /\ a \notin gone /\ a \in Paths
    BY <1>1, <1>2, <1>3
  <2>2. PICK p \in Existing(tr) : IsPrefix(a, p)
    BY <1>1, <2>1 DEF TrieOK
  <2>3. CASE p # path
    BY <1>6, <2>2, <2>3
  <2>4. CASE p = path
    <3>1. PICK q \in DOMAIN m : IsPrefix(a, q) /\ (~IsPrefix(q, path) \/ (q # path /\ m[q].exists))
      BY <1>4, <2>1, <2>2, <2>4
    <3>2. CASE q # path /\ m[q].exists
      BY <1>1, <1>2, <1>6, <3>1, <3>2 DEF Existing
    <3>3. CASE ~IsPrefix(q, path)
      <4>1. PICK r \in Existing(tr) : IsPrefix(q, r)
        BY <1>1 DEF TrieOK
      <4>2. r # path /\ r \in Paths /\ q \in Paths
        BY <1>1, <1>2, <3>3, <4>1 DEF Existing
      <4>3. IsPrefix(a, r)
        BY <2>1, <3>1, <4>1, <4>2, PrefixProps DEF Paths
      <4> QED BY <1>6, <4>2, <4>3
    <3> QED BY <3>1, <3>2, <3>3
  <2> QED BY <2>3, <2>4
<1>11. IsFiniteSet(DOMAIN new)
  <2>1. DOMAIN new \in SUBSET DOMAIN tr
    BY <1>3
  <2> QED BY <2>1, FS_Subset DEF TrieOK
<1>12. \A q \in DOMAIN new : q \in Paths /\ new[q] \in Nodes
  BY <1>1, <1>2, <1>3
<1> QED BY <1>6, <1>7, <1>8, <1>9, <1>10, <1>11, <1>12 DEF TrieOK, new

LEMMA PathTypes == Labels \subseteq Nat /\ Paths \subseteq Seq(Nat)
<1>1. Labels \subseteq Nat
  BY DecoderAssumption DEF Labels
<1>2. Seq(Labels) \subseteq Seq(Nat)
  <2> HIDE DEF Labels
  <2> QED BY <1>1, SeqMonotonic
<1> QED BY <1>1, <1>2 DEF Paths

\* nth_element and partial_sort: n of the paths, none of them worse than one
\* that is left out.
LEMMA BestProps ==
  ASSUME NEW tr, NEW S, IsFiniteSet(S), \A x \in S : tr[x].score \in Nat /\ x \in Paths,
         NEW n \in Nat, NEW K \in Best(tr, S, n)
  PROVE  /\ K \subseteq S /\ IsFiniteSet(K) /\ Cardinality(K) = n
         /\ \A x \in S \ K, y \in K : tr[x].score <= tr[y].score
<1> DEFINE Before(x, y) == prefix_compare(tr, x, y)
           NotAfter(x) == {y \in S : ~Before(x, y)}
           Earlier(x) == {y \in S : Before(y, x)}
           Sure == {x \in S : Cardinality(NotAfter(x)) <= n}
           Tied == {x \in S \ Sure : Cardinality(Earlier(x)) < n}
<1>1. PICK T \in SUBSET Tied : K = Sure \cup T /\ Cardinality(T) = n - Cardinality(Sure)
  BY DEF Best, kSubset
<1>2. \A x \in S : character(x) \in Nat
  <2>1. ASSUME NEW x \in S, x # << >> PROVE Last(x) \in Nat
    <3>1. Last(x) \in Labels
      BY <2>1, FrontProps DEF Paths
    <3> QED BY <3>1, PathTypes
  <2> QED BY <2>1 DEF character, ROOT
<1>3. ASSUME NEW x \in S, NEW y \in S, NEW z \in S, Before(x, y)
      PROVE  (Before(y, z) => Before(x, z)) /\ (~Before(x, z) => Before(z, y))
  BY <1>2, <1>3 DEF prefix_compare
<1>4. \A x \in S, y \in S : Before(x, y) \/ tr[x].score <= tr[y].score
  BY <1>2 DEF prefix_compare
<1> HIDE DEF Before
<1>5. \A U \in SUBSET S : IsFiniteSet(U) /\ Cardinality(U) \in Nat
  BY FS_Subset, FS_CardinalityType
<1>6. ASSUME NEW x \in S \ K, NEW y \in K, Before(x, y) PROVE FALSE
  <2>0. x \in S /\ y \in S /\ x \notin Sure
    BY <1>1, <1>6
  <2>1. ~(Cardinality(NotAfter(x)) <= n)
    BY <2>0
  <2>2. CASE y \in Sure
    <3>1. NotAfter(x) \in SUBSET NotAfter(y) /\ NotAfter(y) \in SUBSET S
      BY <1>3, <1>6, <2>0
    <3>2. Cardinality(NotAfter(x)) <= Cardinality(NotAfter(y)) /\ Cardinality(NotAfter(y)) <= n
      BY <1>5, <2>2, <3>1, FS_Subset
    <3>3. Cardinality(NotAfter(x)) \in Nat /\ Cardinality(NotAfter(y)) \in Nat
      BY <1>5
    <3> HIDE DEF NotAfter
    <3> QED BY <2>1, <3>2, <3>3
  <2>3. CASE y \in T
    <3>1. NotAfter(x) \in SUBSET Earlier(y) /\ Earlier(y) \in SUBSET S
      BY <1>3, <1>6, <2>0
    <3>2. Cardinality(NotAfter(x)) <= Cardinality(Earlier(y)) /\ Cardinality(Earlier(y)) < n
      BY <1>1, <1>5, <2>3, <3>1, FS_Subset
    <3>3. Cardinality(NotAfter(x)) \in Nat /\ Cardinality(Earlier(y)) \in Nat
      BY <1>5
    <3> HIDE DEF NotAfter, Earlier
    <3> QED BY <2>1, <3>2, <3>3
  <2> QED BY <1>1, <2>2, <2>3
<1>7. K \subseteq S
  BY <1>1
<1>8. \A x \in S \ K, y \in K : tr[x].score <= tr[y].score
  BY <1>4, <1>6, <1>7
<1>9. Cardinality(K) = n
  <2>1. Sure \in SUBSET S /\ T \in SUBSET S /\ Sure \cap T = {}
    BY <1>1
  <2> HIDE DEF Sure, Tied
  <2>2. Cardinality(Sure \cup T) = Cardinality(Sure) + Cardinality(T) - Cardinality({})
    BY <1>5, <2>1, FS_Union
  <2>3. Cardinality(Sure) \in Nat /\ Cardinality(T) \in Nat /\ Cardinality({}) = 0
    BY <1>5, <2>1, FS_EmptySet
  <2> QED BY <1>1, <2>2, <2>3
<1> QED BY <1>5, <1>7, <1>8, <1>9
-----------------------------------------------------------------------------
(* A time step *)

\* The settings of the decoder.
SettingsOK ==
  /\ beam_size \in Nat \ {0} /\ cutoff_top_n \in Nat /\ ext_scorer \in BOOLEAN
  /\ \A word \in DOMAIN hot_words : hot_words[word] \in Nat \ {0}

\* The trie and the beam.
BeamOK ==
  /\ TrieOK(trie)
  /\ prefixes \cup doomed = Existing(trie)
  /\ prefixes \cap doomed = {}
  /\ prefixes # {} /\ Cardinality(prefixes) <= beam_size

\* The scores of a row are natural numbers.
LEMMA ScoreTypes ==
  ASSUME SettingsOK, BeamOK, NEW w \in Emissions, NEW q \in Paths
  PROVE  /\ FromBlank(w, q) \in Nat /\ FromRepeat(w, q) \in Nat /\ FromParent(w, q) \in Nat
         /\ q \in Extensions(w) =>
              /\ q # << >> /\ Front(q) \in prefixes /\ trie[Front(q)].score > 0
              /\ Front(q) \in Active(w, Last(q))
              /\ FromParent(w, q) = Extended(w, q)
         /\ q \in Active(w, blank_id) => q \in prefixes /\ trie[q].score > 0
<1>1. \A c \in Classes : w[c] \in Nat \ {0}
  BY DecoderAssumption
<1>2. blank_id \in Classes /\ Labels \subseteq Classes /\ Labels \subseteq Nat
  BY DecoderAssumption DEF blank_id, Classes, Labels
<1>3. \A p \in prefixes : p \in Paths /\ trie[p] \in Nodes
  BY DEF BeamOK, TrieOK, Existing
<1>4. \A p \in prefixes : /\ trie[p].score \in Nat /\ trie[p].log_prob_nb_prev \in Nat
                          /\ trie[p].log_prob_b_prev \in Nat
  BY <1>3 DEF Nodes
<1>5. \A c : Active(w, c) \subseteq prefixes /\ \A p \in Active(w, c) : trie[p].score > 0
  BY DEF Active
<1>6. \A a, b \in Nat : a * b \in Nat
  OBVIOUS
<1>7. FromBlank(w, q) \in Nat
  BY <1>1, <1>2, <1>4, <1>5, <1>6 DEF FromBlank
<1>8. FromRepeat(w, q) \in Nat
  <2>1. CASE q # << >>
    <3>1. Last(q) \in Labels
      BY <2>1, FrontProps DEF Paths
    <3> QED BY <1>1, <1>2, <1>4, <1>5, <1>6, <3>1 DEF FromRepeat
  <2>2. CASE q = << >>
    BY <2>2 DEF FromRepeat
  <2> QED BY <2>1, <2>2
<1>9. ASSUME q \in Extensions(w)
      PROVE  /\ q # << >> /\ Front(q) \in prefixes /\ trie[Front(q)].score > 0
             /\ Front(q) \in Active(w, Last(q)) /\ Last(q) \in Labels
  <2>0. PICK c \in Labels : \E p \in Active(w, c) : q = Append(p, c)
    BY <1>9 DEF Extensions
  <2>1. PICK p \in Active(w, c) : q = Append(p, c)
    BY <2>0
  <2>2. q # << >> /\ Front(q) = p /\ Last(q) = c
    BY <1>3, <1>5, <2>1, AppendProps DEF Paths
  <2> QED BY <1>5, <2>0, <2>1, <2>2
<1>10. ASSUME q \in Extensions(w) PROVE Extended(w, q) \in Nat
  <2> DEFINE p == Front(q)
             base == IF character(p) = Last(q) THEN trie[p].log_prob_b_prev ELSE trie[p].score
             prob == w[Last(q)] * base
             ngram == make_ngram(p)
  <2>1. Extended(w, q) = Scored(prob, q)
    BY DEF Extended
  <2>2. base \in Nat
    BY <1>4, <1>9, <1>10
  <2>3. prob \in Nat
    <3> HIDE DEF base
    <3> QED BY <1>1, <1>2, <1>6, <1>9, <1>10, <2>2
  <2>4. p \in Paths /\ Paths \subseteq Seq(Nat)
    BY <1>3, <1>9, <1>10, PathTypes
  <2>5. CondProb(ngram) \in Nat
    BY <2>4, CondProbType, ScorerAssumption
  <2>6. HotBoost(hot_words, ngram) \in Nat
    BY <2>4, NgramType, HotBoostType DEF SettingsOK
  <2> HIDE DEF prob
  <2>7. Scored(prob, q) = prob \/ Scored(prob, q) = (prob * CondProb(ngram) * HotBoost(hot_words, ngram)) \div LmUnit
    BY DEF Scored
  <2> HIDE DEF ngram
  <2>8. prob * CondProb(ngram) * HotBoost(hot_words, ngram) \in Nat
    BY <1>6, <2>3, <2>5, <2>6
  <2>9. \A a \in Nat, b \in Nat \ {0} : a \div b \in Nat
    OBVIOUS
  <2> QED BY <2>1, <2>3, <2>7, <2>8, <2>9, ScorerAssumption
<1> QED BY <1>5, <1>7, <1>8, <1>9, <1>10 DEF FromParent

\* One time per label, increasing, before now.
Timed(ts, q, now) ==
  /\ ts \in Seq(Nat) /\ Len(ts) = Len(q)
  /\ \A i \in 1 .. Len(q) : ts[i] < now /\ (i > 1 => ts[i - 1] < ts[i])

AlignedOK ==
  \A q \in prefixes : trie[q].score > 0 => Timed(trie[q].timesteps, q, abs_time_step)

LEMMA TimedLater ==
  ASSUME NEW now \in Nat, NEW ts, NEW q \in Paths, Timed(ts, q, now)
  PROVE  Timed(ts, q, now + 1) /\ (q # << >> => Last(ts) # now)
<1>1. ts \in Seq(Nat) /\ Len(ts) = Len(q) /\ Len(q) \in Nat /\ \A i \in 1 .. Len(q) : ts[i] \in Nat
  BY DEF Timed, Paths
<1>2. \A i \in 1 .. Len(q) : ts[i] < now + 1 /\ (i > 1 => ts[i - 1] < ts[i])
  BY <1>1 DEF Timed
<1>3. ASSUME q # << >> PROVE Last(ts) # now
  <2>1. Len(ts) \in 1 .. Len(q)
    BY <1>1, <1>3 DEF Paths
  <2>2. ts[Len(ts)] < now /\ ts[Len(ts)] \in Nat
    BY <1>1, <2>1 DEF Timed
  <2> QED BY <2>2 DEF Last
<1> QED BY <1>1, <1>2, <1>3 DEF Timed

LEMMA TimedAppend ==
  ASSUME NEW now \in Nat, NEW ts, NEW q \in Paths, q # << >>, Timed(ts, Front(q), now)
  PROVE  Timed(Append(ts, now), q, now + 1)
<1> DEFINE n == Len(q) - 1
           u == Append(ts, now)
<1>1. n \in Nat /\ Len(Front(q)) = n /\ Len(q) = n + 1
  <2>1. Len(Front(q)) = Len(q) - 1
    BY FrontProps DEF Paths
  <2> QED BY <2>1 DEF Paths
<1>2. ts \in Seq(Nat) /\ Len(ts) = n /\ \A i \in 1 .. n : ts[i] \in Nat /\ ts[i] < now /\ (i > 1 => ts[i - 1] < ts[i])
  BY <1>1 DEF Timed
<1>3. u \in Seq(Nat) /\ Len(u) = n + 1 /\ u[n + 1] = now /\ \A i \in 1 .. n : u[i] = ts[i]
  BY <1>2
<1> HIDE DEF u, n
<1>4. ASSUME NEW i \in 1 .. n + 1 PROVE u[i] < now + 1 /\ (i > 1 => u[i - 1] < u[i])
  <2>1. CASE i = n + 1
    <3>1. i > 1 => i - 1 \in 1 .. n
      BY <1>1, <2>1
    <3> QED BY <1>2, <1>3, <2>1, <3>1
  <2>2. CASE i # n + 1
    <3>1. i \in 1 .. n /\ (i > 1 => i - 1 \in 1 .. n)
      BY <1>1, <2>2
    <3> QED BY <1>2, <1>3, <3>1
  <2> QED BY <2>1, <2>2
<1> QED BY <1>1, <1>3, <1>4 DEF Timed, u

\* There are finitely many extensions, each of a prefix of the beam.
LEMMA ExtensionsProps ==
  ASSUME BeamOK, NEW w
  PROVE  /\ IsFiniteSet(Extensions(w)) /\ Extensions(w) \subseteq Paths
         /\ \A q \in Extensions(w) : q # << >> /\ Front(q) \in prefixes
<1>1. \A p \in prefixes : p \in Paths /\ p \in Seq(Labels)
  BY DEF BeamOK, TrieOK, Existing, Paths
<1>2. ASSUME NEW q \in Extensions(w)
      PROVE  \E c \in Labels : \E p \in prefixes : q = Append(p, c)
  <2>1. PICK c \in Labels : \E p \in Active(w, c) : q = Append(p, c)
    BY DEF Extensions
  <2> QED BY <2>1 DEF Active
<1>3. \A q \in Extensions(w) : q \in Paths /\ q # << >> /\ Front(q) \in prefixes
  <2> SUFFICES ASSUME NEW q \in Extensions(w) PROVE q \in Paths /\ q # << >> /\ Front(q) \in prefixes
    OBVIOUS
  <2>1. PICK c \in Labels : \E p \in prefixes : q = Append(p, c)
    BY <1>2
  <2>2. PICK p \in prefixes : q = Append(p, c)
    BY <2>1
  <2> QED BY <1>1, <2>2, AppendProps DEF Paths
<1>4. IsFiniteSet(Extensions(w))
  <2> DEFINE S == Labels \X prefixes
             f == [x \in S |-> Append(x[2], x[1])]
             T == {f[x] : x \in S}
  <2>1. IsFiniteSet(Labels)
    BY FS_Interval, DecoderAssumption DEF Labels
  <2>2. IsFiniteSet(prefixes)
    <3>1. prefixes \in SUBSET DOMAIN trie
      BY DEF BeamOK, Existing
    <3> QED BY <3>1, FS_Subset DEF BeamOK, TrieOK
  <2>3. IsFiniteSet(S)
    BY <2>1, <2>2, FS_Product
  <2>4. f \in Surjection(S, T)
    BY DEF Surjection
  <2>5. IsFiniteSet(T)
    <3> HIDE DEF S, f, T
    <3> QED BY <2>3, <2>4, FS_Surjection
  <2>6. Extensions(w) \in SUBSET T
    <3> SUFFICES ASSUME NEW q \in Extensions(w) PROVE q \in T
      OBVIOUS
    <3>1. PICK c \in Labels : \E p \in prefixes : q = Append(p, c)
      BY <1>2
    <3>2. PICK p \in prefixes : q = Append(p, c)
      BY <3>1
    <3>3. <<c, p>> \in S /\ f[<<c, p>>] = q
      BY <3>2
    <3> HIDE DEF f, S
    <3> QED BY <3>3
  <2> QED BY <2>5, <2>6, FS_Subset
<1> QED BY <1>3, <1>4

\* What a row makes of a node that exists.
Updated(node, w, q) ==
  /\ node.log_prob_b_prev = FromBlank(w, q)
  /\ node.log_prob_nb_prev = FromRepeat(w, q) + FromParent(w, q)
  /\ node.score = FromBlank(w, q) + (FromRepeat(w, q) + FromParent(w, q))

\* iterate_to_vec: the nodes that exist, with their sums and their times.
LEMMA GrowProps ==
  ASSUME SettingsOK, BeamOK, AlignedOK, abs_time_step \in Nat, doomed = {},
         NEW w \in Emissions, NEW late, NEW parentFirst,
         NEW new, new = iterate_to_vec(w, late, parentFirst)
  PROVE  /\ TrieOK(new) /\ Existing(new) = prefixes \cup Extensions(w)
         /\ \A q \in Existing(new) :
              /\ Updated(new[q], w, q)
              /\ new[q].score > 0 => Timed(new[q].timesteps, q, abs_time_step + 1)
              /\ late = {} /\ q # << >> /\ FromBlank(w, q) > FromRepeat(w, q) + FromParent(w, q) =>
                   Last(new[q].timesteps) # abs_time_step
<1> DEFINE E == Extensions(w)
           grown == get_path_trie(trie, E)
           b(q) == FromBlank(w, q)
           nb(q) == FromRepeat(w, q) + FromParent(w, q)
           Times(q) == IF Advances(w, q, late, parentFirst)
                       THEN Append(trie[Front(q)].timesteps, abs_time_step)
                       ELSE grown[q].timesteps
           Upd(q) == [exists |-> TRUE, log_prob_b_prev |-> b(q), log_prob_nb_prev |-> nb(q),
                      score |-> b(q) + nb(q), timesteps |-> Times(q)]
<1>1. E \subseteq Paths /\ IsFiniteSet(E) /\ \A q \in E : q # << >> /\ Front(q) \in prefixes
  BY ExtensionsProps
<1>2. Existing(trie) = prefixes /\ prefixes \subseteq DOMAIN trie
  BY DEF BeamOK, Existing
<1>3. \A q \in DOMAIN trie : q \in Paths /\ trie[q] \in Nodes
  BY DEF BeamOK, TrieOK
<1>4. /\ DOMAIN grown = DOMAIN trie \cup E
      /\ \A q \in DOMAIN grown : /\ grown[q].exists <=> q \in prefixes \cup E
                                 /\ q \in prefixes => grown[q] = trie[q]
                                 /\ q \in Paths /\ grown[q] \in Nodes
  <2>1. DOMAIN grown = DOMAIN trie \cup E
    BY DEF get_path_trie
  <2>2. ASSUME NEW q \in DOMAIN trie \cup E
        PROVE  /\ grown[q].exists <=> q \in prefixes \cup E
               /\ q \in prefixes => grown[q] = trie[q]
               /\ q \in Paths /\ grown[q] \in Nodes
    <3>1. CASE q \notin DOMAIN trie
      <4>1. grown[q] = NewPathTrie
        BY <3>1 DEF get_path_trie
      <4> QED BY <1>1, <1>2, <3>1, <4>1 DEF NewPathTrie, Nodes
    <3>2. CASE q \in DOMAIN trie /\ q \in E /\ ~trie[q].exists
      <4>1. grown[q] = [trie[q] EXCEPT !.exists = TRUE, !.log_prob_b_prev = 0, !.log_prob_nb_prev = 0]
        BY <3>2 DEF get_path_trie
      <4> HIDE DEF grown
      <4>2. q \notin prefixes
        BY <1>2, <3>2 DEF Existing
      <4>3. \A n \in Nodes :
              [n EXCEPT !.exists = TRUE, !.log_prob_b_prev = 0, !.log_prob_nb_prev = 0] \in Nodes
        BY DEF Nodes
      <4>4. \A n \in Nodes :
              [n EXCEPT !.exists = TRUE, !.log_prob_b_prev = 0, !.log_prob_nb_prev = 0].exists
        BY DEF Nodes
      <4> QED BY <1>3, <3>2, <4>1, <4>2, <4>3, <4>4
    <3>3. CASE q \in DOMAIN trie /\ ~(q \in E /\ ~trie[q].exists)
      <4>1. grown[q] = trie[q]
        BY <3>3 DEF get_path_trie
      <4> HIDE DEF grown
      <4> QED BY <1>2, <1>3, <3>3, <4>1 DEF Existing
    <3> QED BY <3>1, <3>2, <3>3
  <2> HIDE DEF grown
  <2> QED BY <2>1, <2>2
<1>5. new = [q \in DOMAIN grown |-> IF grown[q].exists THEN Upd(q) ELSE grown[q]]
  BY DEF iterate_to_vec
<1> HIDE DEF grown, Times
<1>6. DOMAIN new = DOMAIN trie \cup E /\ Existing(new) = prefixes \cup E
  <2>1. \A q \in DOMAIN grown : new[q].exists <=> grown[q].exists
    BY <1>5
  <2> QED BY <1>2, <1>4, <1>5, <2>1 DEF Existing
<1>7. \A q \in prefixes \cup E : new[q] = Upd(q) /\ q \in Paths
  BY <1>2, <1>4, <1>5
<1>8. ASSUME NEW q \in Paths
      PROVE  /\ FromBlank(w, q) \in Nat /\ FromRepeat(w, q) \in Nat /\ FromParent(w, q) \in Nat
             /\ q \in E => trie[Front(q)].score > 0
             /\ FromParent(w, q) > 0 => q \in E
             /\ FromBlank(w, q) > 0 \/ FromRepeat(w, q) > 0 => q \in prefixes /\ trie[q].score > 0
  <2>1. /\ FromBlank(w, q) \in Nat /\ FromRepeat(w, q) \in Nat /\ FromParent(w, q) \in Nat
        /\ q \in E => trie[Front(q)].score > 0
    BY ScoreTypes
  <2>2. FromParent(w, q) > 0 => q \in E
    BY DEF FromParent
  <2>3. FromBlank(w, q) > 0 => q \in Active(w, blank_id)
    BY DEF FromBlank
  <2>4. FromRepeat(w, q) > 0 => q \in Active(w, Last(q))
    BY DEF FromRepeat
  <2> QED BY <2>1, <2>2, <2>3, <2>4 DEF Active
<1>9. ASSUME NEW q \in prefixes \cup E, Advances(w, q, late, parentFirst)
      PROVE  Timed(Times(q), q, abs_time_step + 1)
  <2>0. FromParent(w, q) \in Nat /\ FromRepeat(w, q) \in Nat
    BY <1>7, <1>8
  <2>1. FromParent(w, q) > 0
    BY <1>9, <2>0 DEF Advances
  <2>2. q \in E /\ q \in Paths /\ q # << >> /\ Front(q) \in prefixes /\ trie[Front(q)].score > 0
    BY <1>1, <1>7, <1>8, <2>1
  <2>3. Timed(trie[Front(q)].timesteps, Front(q), abs_time_step)
    BY <2>2 DEF AlignedOK
  <2>4. Timed(Append(trie[Front(q)].timesteps, abs_time_step), q, abs_time_step + 1)
    BY <2>2, <2>3, TimedAppend
  <2> QED BY <1>9, <2>4 DEF Times
<1>10. ASSUME NEW q \in prefixes \cup E, ~Advances(w, q, late, parentFirst), b(q) + nb(q) > 0
       PROVE  Timed(Times(q), q, abs_time_step)
  <2>1. q \in prefixes /\ trie[q].score > 0
    <3>1. CASE FromBlank(w, q) > 0 \/ FromRepeat(w, q) > 0
      BY <1>7, <1>8, <3>1
    <3>2. CASE ~(FromBlank(w, q) > 0 \/ FromRepeat(w, q) > 0)
      <4>0. FromBlank(w, q) \in Nat /\ FromRepeat(w, q) \in Nat /\ FromParent(w, q) \in Nat
        BY <1>7, <1>8
      <4>1. FromBlank(w, q) = 0 /\ FromRepeat(w, q) = 0 /\ FromParent(w, q) > 0
        BY <1>10, <3>2, <4>0
      <4> QED BY <1>10, <4>0, <4>1 DEF Advances
    <3> QED BY <3>1, <3>2
  <2>2. Times(q) = trie[q].timesteps
    BY <1>2, <1>4, <1>10, <2>1 DEF Times
  <2> QED BY <2>1, <2>2 DEF AlignedOK
<1>11. ASSUME NEW q \in prefixes \cup E
       PROVE  /\ Updated(new[q], w, q) /\ new[q] \in Nodes
              /\ new[q].score > 0 => Timed(new[q].timesteps, q, abs_time_step + 1)
              /\ late = {} /\ q # << >> /\ FromBlank(w, q) > FromRepeat(w, q) + FromParent(w, q) =>
                   Last(new[q].timesteps) # abs_time_step
  <2>1. q \in Paths /\ new[q] = Upd(q) /\ q \in DOMAIN grown
    BY <1>2, <1>4, <1>7
  <2>2. b(q) \in Nat /\ nb(q) \in Nat /\ b(q) + nb(q) \in Nat
    BY <1>8, <2>1
  <2>3. Times(q) \in Seq(Nat) \cup {Null}
    <3>1. CASE Advances(w, q, late, parentFirst)
      BY <1>9, <3>1 DEF Timed
    <3>2. CASE ~Advances(w, q, late, parentFirst)
      BY <1>4, <2>1, <3>2 DEF Times, Nodes
    <3> QED BY <3>1, <3>2
  <2>4. b(q) + nb(q) > 0 => Timed(Times(q), q, abs_time_step + 1)
    BY <1>9, <1>10, <2>1, TimedLater
  <2>5. ASSUME late = {}, q # << >>, b(q) > nb(q) PROVE Last(Times(q)) # abs_time_step
    <3>1. ~Advances(w, q, late, parentFirst)
      <4> SUFFICES ASSUME Advances(w, q, late, parentFirst) PROVE FALSE
        OBVIOUS
      <4>1. FromParent(w, q) + FromRepeat(w, q) = FromRepeat(w, q) + FromParent(w, q)
        BY <1>8, <2>1
      <4> QED BY <2>5, <4>1 DEF Advances
    <3>2. b(q) + nb(q) > 0
      BY <2>2, <2>5
    <3> QED BY <1>10, <2>1, <2>5, <3>1, <3>2, TimedLater
  <2> HIDE DEF b, nb
  <2>6. /\ new[q] \in Nodes /\ new[q].log_prob_b_prev = b(q) /\ new[q].log_prob_nb_prev = nb(q)
        /\ new[q].score = b(q) + nb(q) /\ new[q].timesteps = Times(q)
    BY <2>1, <2>2, <2>3 DEF Nodes
  <2> QED BY <2>4, <2>5, <2>6 DEF Updated, b, nb
<1>12. TrieOK(new)
  <2>1. IsFiniteSet(DOMAIN new)
    <3>1. IsFiniteSet(DOMAIN trie)
      BY DEF BeamOK, TrieOK
    <3> HIDE DEF E
    <3> QED BY <1>1, <1>6, <3>1, FS_Union
  <2>2. \A q \in DOMAIN new : q \in Paths /\ new[q] \in Nodes
    <3> HIDE DEF Upd
    <3> QED BY <1>4, <1>5, <1>11
  <2>3. << >> \in DOMAIN new
    BY <1>6 DEF BeamOK, TrieOK
  <2>4. \A q \in DOMAIN new \ {<< >>} : Front(q) \in DOMAIN new
    BY <1>1, <1>2, <1>6 DEF BeamOK, TrieOK
  <2>5. ASSUME NEW q \in DOMAIN new PROVE \E p \in Existing(new) : IsPrefix(q, p)
    <3>1. CASE q \in DOMAIN trie
      BY <1>2, <1>6, <3>1 DEF BeamOK, TrieOK
    <3>2. CASE q \in E
      BY <1>1, <1>6, <3>2, PrefixProps DEF Paths
    <3> QED BY <1>6, <3>1, <3>2
  <2> QED BY <2>1, <2>2, <2>3, <2>4, <2>5 DEF TrieOK
<1> QED BY <1>6, <1>11, <1>12
-----------------------------------------------------------------------------
(* The invariant *)

\* The counters, and a decoder that has not started.
CountersOK ==
  /\ abs_time_step \in Nat /\ start_expanding \in BOOLEAN /\ pruned \in BOOLEAN
  /\ rows \in Seq(Emissions)
  /\ ~start_expanding => prefixes = {<< >>}

DecoderInv == SettingsOK /\ CountersOK /\ BeamOK /\ AlignedOK /\ BlankKeepsTimesteps

LEMMA DecoderInit == Init => DecoderInv
<1> SUFFICES ASSUME Init PROVE DecoderInv
  OBVIOUS
<1>1. SettingsOK
  BY DecoderAssumption DEF Init, SettingsOK
<1>0. << >> \in Seq(Emissions) /\ << >> \in Seq(Nat) /\ Len(<< >>) = 0
  OBVIOUS
<1>2. CountersOK
  BY <1>0, Zenon DEF Init, CountersOK
<1> DEFINE node == [NewPathTrie EXCEPT !.score = Scale, !.log_prob_b_prev = Scale, !.timesteps = << >>]
<1>3. trie = [q \in {<< >>} |-> node] /\ prefixes = {<< >>} /\ doomed = {} /\ abs_time_step = 0
  BY DEF Init
<1>4. Scale \in Nat
  BY PowerProps, DecoderAssumption DEF Scale
<1>5. node \in Nodes /\ node.exists /\ node.timesteps = << >>
  <2>1. NewPathTrie \in Nodes /\ NewPathTrie.exists
    BY DEF NewPathTrie, Nodes
  <2>2. ASSUME NEW n \in Nodes, NEW ts \in Seq(Nat)
        PROVE  LET r == [n EXCEPT !.score = Scale, !.log_prob_b_prev = Scale, !.timesteps = ts]
               IN  r \in Nodes /\ r.exists = n.exists /\ r.timesteps = ts
    BY <1>4 DEF Nodes
  <2> QED BY <1>0, <2>1, <2>2
<1> HIDE DEF node
<1>6. << >> \in Paths /\ IsPrefix(<< >>, << >>)
  <2>1. << >> \in Paths
    BY DEF Paths
  <2> QED BY <2>1, PrefixProps DEF Paths
<1>7. IsFiniteSet({<< >>}) /\ Cardinality({<< >>}) = 1
  BY FS_Singleton
<1>8. DOMAIN trie = {<< >>} /\ trie[<< >>] = node /\ Existing(trie) = {<< >>}
  BY <1>3, <1>5 DEF Existing
<1>9. TrieOK(trie)
  BY <1>5, <1>6, <1>7, <1>8 DEF TrieOK
<1>10. BeamOK
  BY <1>1, <1>3, <1>7, <1>8, <1>9 DEF BeamOK, SettingsOK
<1>11. AlignedOK
  <2>1. Timed(<< >>, << >>, 0)
    BY <1>0 DEF Timed
  <2> QED BY <1>3, <1>5, <1>8, <2>1 DEF AlignedOK
<1>12. BlankKeepsTimesteps
  BY <1>3 DEF BlankKeepsTimesteps
<1> QED BY <1>1, <1>2, <1>10, <1>11, <1>12 DEF DecoderInv

LEMMA BeamPaths ==
  ASSUME BeamOK
  PROVE  /\ IsFiniteSet(prefixes) /\ prefixes \subseteq DOMAIN trie
         /\ \A q \in prefixes : q \in Paths /\ trie[q] \in Nodes /\ trie[q].score \in Nat
<1>1. prefixes \in SUBSET DOMAIN trie
  BY DEF BeamOK, Existing
<1>2. IsFiniteSet(prefixes)
  BY <1>1, FS_Subset DEF BeamOK, TrieOK
<1> QED BY <1>1, <1>2 DEF BeamOK, TrieOK, Nodes

LEMMA DecoderSkip ==
  ASSUME DecoderInv, NEW w \in Emissions, TimeStep(w), Skip(w)
  PROVE  DecoderInv'
<1> USE DEF DecoderInv
<1>1. /\ UNCHANGED <<beam_size, cutoff_top_n, ext_scorer, hot_words, start_expanding, trie, prefixes,
                     doomed, rows, pruned>>
      /\ abs_time_step' = abs_time_step + 1 /\ prefixes = {<< >>} /\ abs_time_step \in Nat
  BY DEF TimeStep, Skip, settings, CountersOK
<1>2. SettingsOK'
  BY <1>1 DEF SettingsOK
<1>3. CountersOK'
  BY <1>1 DEF CountersOK
<1>4. BeamOK'
  BY <1>1 DEF BeamOK
<1>5. AlignedOK'
  <2> SUFFICES ASSUME NEW q \in prefixes, trie[q].score > 0
               PROVE  Timed(trie[q].timesteps, q, abs_time_step + 1)
    BY <1>1 DEF AlignedOK
  <2>1. q \in Paths
    BY BeamPaths
  <2> QED BY <1>1, <2>1, TimedLater DEF AlignedOK
<1>6. BlankKeepsTimesteps'
  BY <1>1 DEF BlankKeepsTimesteps
<1> QED BY <1>2, <1>3, <1>4, <1>5, <1>6

\* What Expand makes of the beam, for one choice of the order of the classes.
LEMMA Expanded ==
  ASSUME DecoderInv, NEW w \in Emissions, TimeStep(w), Expand(w)
  PROVE  /\ TrieOK(trie') /\ Existing(trie') = prefixes \cup Extensions(w)
         /\ \A q \in Existing(trie') :
              /\ Updated(trie'[q], w, q)
              /\ trie'[q].score > 0 => Timed(trie'[q].timesteps, q, abs_time_step + 1)
              /\ cutoff_top_n > alphabet_size /\ q # << >>
                 /\ FromBlank(w, q) > FromRepeat(w, q) + FromParent(w, q) =>
                   Last(trie'[q].timesteps) # abs_time_step
         /\ IsFiniteSet(Existing(trie')) /\ prefixes' \subseteq Existing(trie')
         /\ doomed' = Existing(trie') \ prefixes'
         /\ Cardinality(prefixes') = IF Cardinality(Existing(trie')) > beam_size THEN beam_size
                                     ELSE Cardinality(Existing(trie'))
         /\ \A x \in Existing(trie') \ prefixes', y \in prefixes' : trie'[x].score <= trie'[y].score
<1> USE DEF DecoderInv
<1>1. PICK late \in AfterBlank(w), parentFirst \in SUBSET Ties(w) :
        trie' = iterate_to_vec(w, late, parentFirst)
  BY DEF Expand
<1>2. cutoff_top_n > alphabet_size => late = {}
  <2>1. cutoff_top_n \in Nat /\ alphabet_size \in Nat
    BY DecoderAssumption DEF SettingsOK
  <2>2. cutoff_top_n > alphabet_size => ~(cutoff_top_n < alphabet_size + 1)
    BY <2>1
  <2> QED BY <2>2 DEF AfterBlank
<1>3. doomed = {} /\ abs_time_step \in Nat
  BY DEF TimeStep, CountersOK
<1>4. PICK new : new = iterate_to_vec(w, late, parentFirst)
  OBVIOUS
<1>5. /\ TrieOK(new) /\ Existing(new) = prefixes \cup Extensions(w)
      /\ \A q \in Existing(new) :
           /\ Updated(new[q], w, q)
           /\ new[q].score > 0 => Timed(new[q].timesteps, q, abs_time_step + 1)
           /\ late = {} /\ q # << >> /\ FromBlank(w, q) > FromRepeat(w, q) + FromParent(w, q) =>
                Last(new[q].timesteps) # abs_time_step
  BY <1>3, <1>4, GrowProps
<1>6. trie' = new
  BY <1>1, <1>4
<1> DEFINE all == Existing(new)
           n == IF Cardinality(all) > beam_size THEN beam_size ELSE Cardinality(all)
<1>7. PICK K \in Best(new, all, n) : prefixes' = K /\ doomed' = all \ K
  BY <1>6 DEF Expand
<1>8. IsFiniteSet(all) /\ \A q \in all : q \in Paths /\ new[q].score \in Nat
  <2>1. all \in SUBSET DOMAIN new
    BY DEF Existing
  <2>2. IsFiniteSet(all)
    BY <1>5, <2>1, FS_Subset DEF TrieOK
  <2> QED BY <1>5, <2>1, <2>2 DEF TrieOK, Nodes
<1>9. n \in Nat
  BY <1>8, FS_CardinalityType DEF SettingsOK
<1>10. /\ K \subseteq all /\ IsFiniteSet(K) /\ Cardinality(K) = n
       /\ \A x \in all \ K, y \in K : new[x].score <= new[y].score
  <2> HIDE DEF all, n
  <2> QED BY <1>7, <1>8, <1>9, BestProps
<1> QED BY <1>2, <1>5, <1>6, <1>7, <1>8, <1>10

LEMMA DecoderExpand ==
  ASSUME DecoderInv, NEW w \in Emissions, TimeStep(w), Expand(w)
  PROVE  DecoderInv'
<1> USE DEF DecoderInv
<1> DEFINE all == Existing(trie')
<1>1. /\ UNCHANGED <<beam_size, cutoff_top_n, ext_scorer, hot_words>>
      /\ abs_time_step' = abs_time_step + 1 /\ abs_time_step \in Nat
      /\ start_expanding' = TRUE /\ rows' = Append(rows, w) /\ pruned' \in BOOLEAN
  BY DEF TimeStep, Expand, settings, CountersOK
<1>2. SettingsOK'
  BY <1>1 DEF SettingsOK
<1>3. CountersOK'
  BY <1>1 DEF CountersOK
<1>4. BeamOK'
  <2>1. /\ TrieOK(trie') /\ IsFiniteSet(all) /\ prefixes' \subseteq all /\ doomed' = all \ prefixes'
        /\ Cardinality(prefixes') = IF Cardinality(all) > beam_size THEN beam_size ELSE Cardinality(all)
        /\ prefixes \subseteq all
    BY Expanded
  <2>2. all # {}
    BY <2>1 DEF BeamOK
  <2>3. Cardinality(all) \in Nat \ {0}
    BY <2>1, <2>2, FS_CardinalityType, FS_EmptySet
  <2>4. Cardinality(prefixes') # 0 /\ Cardinality(prefixes') <= beam_size
    BY <2>1, <2>3 DEF SettingsOK
  <2>5. prefixes' # {}
    BY <2>4, FS_EmptySet
  <2> QED BY <1>1, <2>1, <2>4, <2>5 DEF BeamOK
<1>5. AlignedOK'
  BY <1>1, Expanded DEF AlignedOK
<1>6. BlankKeepsTimesteps'
  <2> SUFFICES ASSUME cutoff_top_n > alphabet_size, NEW q \in prefixes' \ {<< >>},
                      trie'[q].log_prob_b_prev > trie'[q].log_prob_nb_prev
               PROVE  Last(trie'[q].timesteps) # abs_time_step
    BY <1>1 DEF BlankKeepsTimesteps
  <2>1. q \in all /\ Updated(trie'[q], w, q)
    BY Expanded
  <2> QED BY <2>1, Expanded DEF Updated
<1> QED BY <1>2, <1>3, <1>4, <1>5, <1>6

LEMMA DecoderPrune ==
  ASSUME DecoderInv, NEW q \in doomed, Prune(q)
  PROVE  DecoderInv'
<1> USE DEF DecoderInv
<1>1. /\ UNCHANGED <<beam_size, cutoff_top_n, ext_scorer, hot_words, abs_time_step, start_expanding,
                     prefixes, rows, pruned>>
      /\ trie' = remove(trie, q) /\ doomed' = doomed \ {q}
  BY DEF Prune, settings
<1>2. PICK other \in prefixes : other # q
  BY DEF BeamOK
<1>3. /\ TrieOK(trie') /\ Existing(trie') = Existing(trie) \ {q}
      /\ \A p \in Existing(trie) \ {q} : trie'[p] = trie[p]
  <2>1. q \in Existing(trie) /\ other \in Existing(trie) /\ TrieOK(trie)
    BY DEF BeamOK
  <2> QED BY <1>1, <1>2, <2>1, RemoveProps
<1>4. \A p \in prefixes : trie'[p] = trie[p]
  BY <1>3 DEF BeamOK
<1>5. SettingsOK' /\ CountersOK'
  BY <1>1 DEF SettingsOK, CountersOK
<1>6. BeamOK'
  BY <1>1, <1>3 DEF BeamOK
<1>7. AlignedOK'
  BY <1>1, <1>4 DEF AlignedOK
<1>8. BlankKeepsTimesteps'
  BY <1>1, <1>4 DEF BlankKeepsTimesteps
<1> QED BY <1>5, <1>6, <1>7, <1>8

LEMMA DecoderStep == DecoderInv /\ [Next]_vars => DecoderInv'
<1> SUFFICES ASSUME DecoderInv, [Next]_vars PROVE DecoderInv'
  OBVIOUS
<1>1. ASSUME NEW w \in Emissions, TimeStep(w) PROVE DecoderInv'
  BY <1>1, DecoderSkip, DecoderExpand DEF TimeStep
<1>2. ASSUME NEW q \in doomed, Prune(q) PROVE DecoderInv'
  BY <1>2, DecoderPrune
<1>3. ASSUME NEW n \in 1 .. MaxResults, decode(n) PROVE DecoderInv'
  BY <1>3 DEF decode, settings, DecoderInv, SettingsOK, CountersOK, BeamOK, AlignedOK, BlankKeepsTimesteps
<1>4. CASE UNCHANGED vars
  BY <1>4 DEF vars, settings, DecoderInv, SettingsOK, CountersOK, BeamOK, AlignedOK, BlankKeepsTimesteps
<1> QED BY <1>1, <1>2, <1>3, <1>4 DEF Next

\* Every reachable state of the decoder satisfies its invariant.
THEOREM DecoderInvariant == Spec => []DecoderInv
<1> QED BY DecoderInit, DecoderStep, PTL DEF Spec

\* remove() leaves no dangling pointer and no dead branch, whatever the order in
\* which the prefixes beyond the beam are removed.
THEOREM TrieSafe == Spec => []TrieInv
<1>1. DecoderInv => TrieInv
  <2> SUFFICES ASSUME DecoderInv PROVE TrieInv
    OBVIOUS
  <2> USE DEF DecoderInv
  <2>1. TypeOK
    BY DEF TypeOK, CountersOK, BeamOK, TrieOK, Existing
  <2>2. NoDanglingPrefix
    BY DEF NoDanglingPrefix, BeamOK, TrieOK
  <2>3. BeamOwnsTrie
    BY DEF BeamOwnsTrie, BeamOK, TrieOK
  <2> QED BY <2>1, <2>2, <2>3 DEF TrieInv
<1> QED BY <1>1, DecoderInvariant, PTL

\* A prefix that can be expanded has one time per label, in increasing order, and
\* was not timed at a row where it most probably ended in a blank.
THEOREM TimestepsHold == Spec => []TimestepsSound
<1>1. DecoderInv => TimestepsSound
  <2> SUFFICES ASSUME DecoderInv PROVE TimestepsAligned
    BY DEF TimestepsSound, DecoderInv
  <2>1. Null \notin Seq(Nat)
    BY DecoderAssumption
  <2> QED BY <2>1 DEF DecoderInv, AlignedOK, Timed, TimestepsAligned
<1> QED BY <1>1, DecoderInvariant, PTL
-----------------------------------------------------------------------------
(* Arithmetic *)

LEMMA MulMono == \A x, y, u, v \in Nat : x <= y /\ u <= v => x * u <= y * v
OBVIOUS

LEMMA MulCancel == \A x, y, z \in Nat : x * z < y * z => x < y
OBVIOUS

LEMMA MulPos == \A x, y \in Nat : x * y \in Nat /\ (x * y > 0 <=> x > 0 /\ y > 0)
OBVIOUS

LEMMA DivProps ==
  \A x, b \in Nat, L \in Nat \ {0} :
    x \div L \in Nat /\ (x < b * L => x \div L < b) /\ (b * L <= x => b <= x \div L)
<1>1. \A x, b \in Nat, L \in Nat \ {0} : x \div L \in Nat /\ (x < b * L => x \div L < b)
  OBVIOUS
<1>2. \A x, b \in Nat, L \in Nat \ {0} : b * L <= x => b <= x \div L
  OBVIOUS
<1> QED BY <1>1, <1>2

-----------------------------------------------------------------------------
(* The scores of the beam *)

\* The score is the sum of its two parts.
SumOK ==
  \A q \in prefixes : trie[q].score = trie[q].log_prob_b_prev + trie[q].log_prob_nb_prev

\* The least score of a beam.
LEMMA LeastScore ==
  ASSUME BeamOK
  PROVE  LET least == Min({trie[q].score : q \in prefixes})
         IN  least \in Nat /\ \A q \in prefixes : least <= trie[q].score
<1> DEFINE S == {trie[q].score : q \in prefixes}
<1>1. S \in SUBSET Nat /\ S # {}
  BY BeamPaths DEF BeamOK
<1>2. \E s \in S : \A r \in S : s <= r
  BY <1>1, Smallest
<1>3. Min(S) \in S /\ \A r \in S : Min(S) <= r
  BY <1>2 DEF Min
<1> QED BY <1>1, <1>3

LEMMA LargestFactor ==
  /\ LmUnit \in Nat \ {0} /\ beta \in Nat \ {0} /\ Max({LmUnit, beta}) \in Nat
  /\ LmUnit <= Max({LmUnit, beta}) /\ beta <= Max({LmUnit, beta})
<1>1. LmUnit \in Nat \ {0} /\ beta \in Nat \ {0}
  BY ScorerAssumption
<1>2. \E x \in {LmUnit, beta} : \A y \in {LmUnit, beta} : x >= y
  BY <1>1
<1>3. Max({LmUnit, beta}) \in {LmUnit, beta} /\ \A y \in {LmUnit, beta} : Max({LmUnit, beta}) >= y
  BY <1>2 DEF Max
<1> QED BY <1>1, <1>3

LEMMA RowTypes ==
  ASSUME NEW w \in Emissions
  PROVE  /\ blank_id \in Classes /\ Labels \subseteq Classes /\ w[blank_id] \in Nat \ {0}
         /\ \A c \in Classes : w[c] \in Nat \ {0}
<1>1. \A c \in Classes : w[c] \in Nat \ {0}
  BY DecoderAssumption
<1>2. blank_id \in Classes /\ Labels \subseteq Classes
  BY DecoderAssumption DEF blank_id, Classes, Labels
<1> QED BY <1>1, <1>2

\* The blank is never cut off: a prefix with a score keeps at least its least.
LEMMA BlankKeepsScore ==
  ASSUME DecoderInv, NEW w \in Emissions, NEW p \in prefixes, trie[p].score > 0
  PROVE  FromBlank(w, p) = w[blank_id] * trie[p].score
<1> DEFINE least == Min({trie[q].score : q \in prefixes})
           X == Max({LmUnit, beta})
           s == trie[p].score
<1>1. least \in Nat /\ least <= s /\ s \in Nat
  BY LeastScore, BeamPaths DEF DecoderInv
<1>2. w[blank_id] \in Nat \ {0} /\ LmUnit \in Nat \ {0} /\ X \in Nat /\ LmUnit <= X
  BY RowTypes, LargestFactor
<1>3. ~CutOff(w, blank_id, p)
  <2> HIDE DEF X, s, least
  <2>1. w[blank_id] * least <= w[blank_id] * s
    BY <1>1, <1>2, MulMono
  <2>2. w[blank_id] * least \in Nat /\ w[blank_id] * s \in Nat
    BY <1>1, <1>2, MulPos
  <2>3. w[blank_id] * least * LmUnit <= w[blank_id] * s * X
    BY <1>2, <2>1, <2>2, MulMono
  <2>4. w[blank_id] * least * LmUnit \in Nat /\ w[blank_id] * s * X \in Nat
    BY <1>2, <2>2, MulPos
  <2>5. ~(w[blank_id] * s * X < w[blank_id] * least * LmUnit)
    BY <2>3, <2>4
  <2> QED BY <2>5 DEF CutOff, X, s, least
<1>4. p \in Active(w, blank_id)
  BY <1>3 DEF Active
<1> QED BY <1>4 DEF FromBlank

\* What the parent gives a path that the cutoff skips.
LEMMA CutOffBound ==
  ASSUME DecoderInv, SumOK, DOMAIN hot_words = {}, NEW w \in Emissions, NEW p \in prefixes,
         NEW c \in Labels, CutOff(w, c, p)
  PROVE  LET least == Min({trie[q].score : q \in prefixes})
             e == Extended(w, Append(p, c))
         IN  e \in Nat /\ e < w[blank_id] * least /\ least > 0
<1> DEFINE least == Min({trie[q].score : q \in prefixes})
           X == Max({LmUnit, beta})
           q == Append(p, c)
           s == trie[p].score
           base == IF character(p) = c THEN trie[p].log_prob_b_prev ELSE s
           wb == w[blank_id]
           ngram == make_ngram(p)
           k == CondProb(ngram)
<1>1. least \in Nat /\ s \in Nat /\ base \in Nat /\ base <= s
  <2>1. least \in Nat /\ s \in Nat /\ trie[p] \in Nodes
    BY LeastScore, BeamPaths DEF DecoderInv
  <2>2. trie[p].log_prob_b_prev \in Nat /\ trie[p].log_prob_nb_prev \in Nat
    BY <2>1 DEF Nodes
  <2>3. trie[p].log_prob_b_prev <= s
    BY <2>2 DEF SumOK
  <2> QED BY <2>1, <2>2, <2>3
<1>2. wb \in Nat \ {0} /\ w[c] \in Nat \ {0} /\ LmUnit \in Nat \ {0} /\ X \in Nat /\ LmUnit <= X /\ beta <= X
      /\ beta \in Nat
  BY RowTypes, LargestFactor
<1>3. w[c] * s * X < wb * least * LmUnit
  BY DEF CutOff
<1>4. p \in Paths /\ p \in Seq(Nat) /\ Front(q) = p /\ Last(q) = c
  <2>1. p \in Paths
    BY BeamPaths DEF DecoderInv
  <2> QED BY <2>1, PathTypes, AppendProps DEF Paths
<1>5. k \in Nat /\ k <= beta
  BY <1>2, <1>4, CondProbType
<1>6. HotBoost(hot_words, ngram) = 1
  BY <1>4, NgramType, HotBoostType
<1>7. Extended(w, q) = IF ext_scorer /\ Boundary(c) THEN ((w[c] * base) * k * 1) \div LmUnit
                       ELSE w[c] * base
  BY <1>4, <1>6 DEF Extended, Scored
<1> HIDE DEF least, X, q, s, base, wb, ngram, k
<1>8. w[c] * base \in Nat /\ w[c] * s \in Nat /\ wb * least \in Nat /\ w[c] * base <= w[c] * s
  BY <1>1, <1>2, MulMono, MulPos
<1>9. /\ (w[c] * base) * k \in Nat /\ (w[c] * s) * X \in Nat /\ (wb * least) * LmUnit \in Nat
      /\ (w[c] * base) * LmUnit \in Nat
  BY <1>2, <1>5, <1>8, MulPos
<1>10. (w[c] * base) * k < (wb * least) * LmUnit
  <2>1. k <= X
    BY <1>2, <1>5
  <2>2. (w[c] * base) * k <= (w[c] * s) * X
    BY <1>2, <1>5, <1>8, <2>1, MulMono
  <2> QED BY <1>3, <1>9, <2>2
<1>11. (w[c] * base) * LmUnit < (wb * least) * LmUnit
  <2>1. (w[c] * base) * LmUnit <= (w[c] * s) * X
    BY <1>2, <1>8, MulMono
  <2> QED BY <1>3, <1>9, <2>1
<1>12. w[c] * base < wb * least
  BY <1>2, <1>8, <1>11, MulCancel
<1>13. ((w[c] * base) * k) \div LmUnit < wb * least /\ ((w[c] * base) * k) \div LmUnit \in Nat
  BY <1>2, <1>8, <1>9, <1>10, DivProps
<1>14. (w[c] * base) * k * 1 = (w[c] * base) * k
  BY <1>9
<1>15. Extended(w, q) \in Nat /\ Extended(w, q) < wb * least
  BY <1>7, <1>8, <1>12, <1>13, <1>14
<1>16. least > 0
  BY <1>1, <1>2, <1>8, <1>12, MulPos
<1> QED BY <1>15, <1>16 DEF least, q, wb

\* The sums of a row, as natural numbers.
LEMMA UpdatedTypes ==
  ASSUME DecoderInv, NEW w \in Emissions, NEW q \in Paths, NEW node, Updated(node, w, q)
  PROVE  /\ node.log_prob_b_prev \in Nat /\ node.log_prob_nb_prev \in Nat
         /\ node.score = node.log_prob_b_prev + node.log_prob_nb_prev
         /\ FromBlank(w, q) \in Nat /\ FromRepeat(w, q) \in Nat /\ FromParent(w, q) \in Nat
         /\ FromBlank(w, q) <= node.score
<1>1. FromBlank(w, q) \in Nat /\ FromRepeat(w, q) \in Nat /\ FromParent(w, q) \in Nat
  BY ScoreTypes DEF DecoderInv
<1> QED BY <1>1 DEF Updated

\* No prefix that a row keeps comes after one that the cutoff skips.
LEMMA CutoffExpand ==
  ASSUME DecoderInv, SumOK, DOMAIN hot_words = {}, NEW w \in Emissions, TimeStep(w), Expand(w),
         NEW p \in prefixes, NEW c \in Labels, CutOff(w, c, p), NEW kept \in prefixes'
  PROVE  trie'[kept].score >= Extended(w, Append(p, c))
<1> DEFINE least == Min({trie[q].score : q \in prefixes})
           wb == w[blank_id]
           e == Extended(w, Append(p, c))
           all == Existing(trie')
<1>1. e \in Nat /\ e < wb * least /\ least > 0
  BY CutOffBound
<1>2. least \in Nat /\ \A q \in prefixes : least <= trie[q].score /\ trie[q].score \in Nat
  BY LeastScore, BeamPaths DEF DecoderInv
<1>3. wb \in Nat \ {0}
  BY RowTypes
<1>4. /\ all = prefixes \cup Extensions(w) /\ IsFiniteSet(all) /\ prefixes' \subseteq all
      /\ \A q \in all : Updated(trie'[q], w, q)
      /\ Cardinality(prefixes') = IF Cardinality(all) > beam_size THEN beam_size ELSE Cardinality(all)
      /\ \A x \in all \ prefixes', y \in prefixes' : trie'[x].score <= trie'[y].score
  BY Expanded
<1>5. \A q \in all : q \in Paths /\ trie'[q].score \in Nat
  <2>1. TrieOK(trie')
    BY Expanded
  <2> QED BY <2>1 DEF TrieOK, Existing, Nodes
<1> HIDE DEF all, e
<1>6. ASSUME NEW r \in prefixes PROVE e <= trie'[r].score
  <2>1. r \in all /\ Updated(trie'[r], w, r)
    BY <1>4
  <2>2. trie[r].score > 0
    BY <1>1, <1>2
  <2>3. FromBlank(w, r) = wb * trie[r].score
    BY <2>2, BlankKeepsScore
  <2>4. FromBlank(w, r) <= trie'[r].score /\ FromBlank(w, r) \in Nat
    BY <1>5, <2>1, UpdatedTypes
  <2> HIDE DEF least, wb
  <2>5. wb * least <= wb * trie[r].score /\ wb * least \in Nat
    BY <1>2, <1>3, MulMono, MulPos
  <2> QED BY <1>1, <1>5, <2>1, <2>3, <2>4, <2>5
<1>7. CASE kept \in prefixes
  BY <1>1, <1>4, <1>5, <1>6, <1>7 DEF e
<1>8. CASE kept \notin prefixes
  <2>1. Cardinality(prefixes) = beam_size
    BY DEF CutOff
  <2>2. prefixes \in SUBSET all
    BY <1>4
  <2>3. Cardinality(prefixes) <= Cardinality(all) /\ Cardinality(all) \in Nat
    BY <1>4, <2>2, FS_Subset, FS_CardinalityType
  <2>4. Cardinality(prefixes') = Cardinality(prefixes)
    BY <1>4, <2>1, <2>3 DEF DecoderInv, SettingsOK
  <2>5. IsFiniteSet(prefixes')
    <3>1. prefixes' \in SUBSET all
      BY <1>4
    <3> QED BY <1>4, <3>1, FS_Subset
  <2>6. ASSUME prefixes \subseteq prefixes' PROVE FALSE
    <3>1. prefixes \in SUBSET prefixes'
      BY <2>6
    <3>2. prefixes' = prefixes
      BY <2>4, <2>5, <3>1, FS_Subset
    <3> QED BY <1>8, <3>2
  <2>7. PICK r \in prefixes : r \notin prefixes'
    BY <2>6
  <2>8. trie'[r].score <= trie'[kept].score /\ trie'[r].score \in Nat /\ trie'[kept].score \in Nat
    BY <1>4, <1>5, <2>2, <2>7
  <2>9. e <= trie'[r].score
    BY <1>6, <2>7
  <2> QED BY <1>1, <2>8, <2>9 DEF e
<1> QED BY <1>7, <1>8

LEMMA SumInit == Init => SumOK
<1> SUFFICES ASSUME Init PROVE SumOK
  OBVIOUS
<1>1. Scale \in Nat
  BY PowerProps, DecoderAssumption DEF Scale
<1>2. prefixes = {<< >>} /\ trie[<< >>] = [NewPathTrie EXCEPT !.score = Scale, !.log_prob_b_prev = Scale,
                                                              !.timesteps = << >>]
  BY DEF Init
<1>3. /\ trie[<< >>].score = Scale /\ trie[<< >>].log_prob_b_prev = Scale
      /\ trie[<< >>].log_prob_nb_prev = 0
  BY <1>2 DEF NewPathTrie
<1>4. Scale = Scale + 0
  BY <1>1
<1> QED BY <1>2, <1>3, <1>4, Zenon DEF SumOK

\* Prune and decode leave the nodes of the beam as they are.
LEMMA BeamUnchanged ==
  ASSUME DecoderInv, [Next]_vars
  PROVE  \/ \E w \in Emissions : TimeStep(w)
         \/ /\ UNCHANGED <<beam_size, cutoff_top_n, ext_scorer, hot_words, abs_time_step, prefixes, rows>>
            /\ \A q \in prefixes : trie'[q] = trie[q]
            /\ results' = results \/ \E n \in 1 .. MaxResults : decode(n)
<1>1. ASSUME NEW q \in doomed, Prune(q)
      PROVE  /\ UNCHANGED <<beam_size, cutoff_top_n, ext_scorer, hot_words, abs_time_step, prefixes, rows>>
             /\ \A p \in prefixes : trie'[p] = trie[p]
             /\ results' = results
  <2> USE <1>1 DEF DecoderInv
  <2>1. PICK other \in prefixes : other # q
    BY DEF BeamOK
  <2>2. q \in Existing(trie) /\ other \in Existing(trie) /\ TrieOK(trie)
    BY DEF BeamOK
  <2>3. \A p \in Existing(trie) \ {q} : trie'[p] = trie[p]
    BY <2>1, <2>2, RemoveProps DEF Prune
  <2> QED BY <2>3 DEF Prune, settings, BeamOK
<1>2. ASSUME NEW n \in 1 .. MaxResults, decode(n)
      PROVE  /\ UNCHANGED <<beam_size, cutoff_top_n, ext_scorer, hot_words, abs_time_step, prefixes, rows>>
             /\ trie' = trie
  BY <1>2 DEF decode, settings
<1>3. CASE UNCHANGED vars
  BY <1>3 DEF vars, settings
<1> QED BY <1>1, <1>2, <1>3 DEF Next

LEMMA SumStep == DecoderInv /\ SumOK /\ [Next]_vars => SumOK'
<1> SUFFICES ASSUME DecoderInv, SumOK, [Next]_vars PROVE SumOK'
  OBVIOUS
<1>1. ASSUME NEW w \in Emissions, TimeStep(w), Expand(w) PROVE SumOK'
  <2> SUFFICES ASSUME NEW q \in prefixes'
               PROVE  trie'[q].score = trie'[q].log_prob_b_prev + trie'[q].log_prob_nb_prev
    BY DEF SumOK
  <2>1. q \in Existing(trie') /\ Updated(trie'[q], w, q) /\ TrieOK(trie')
    BY <1>1, Expanded
  <2>2. q \in Paths
    BY <2>1 DEF TrieOK, Existing
  <2> QED BY <2>1, <2>2, UpdatedTypes
<1>2. ASSUME NEW w \in Emissions, TimeStep(w), Skip(w) PROVE SumOK'
  BY <1>2 DEF Skip, SumOK
<1> QED BY <1>1, <1>2, BeamUnchanged DEF TimeStep, SumOK

\* The cutoff loses no transcript: what it skips would not have come before any
\* of the prefixes that are kept.
THEOREM CutoffLosesNothing == Spec => CutoffSound
<1> DEFINE Sound ==
      \A w \in Emissions : DOMAIN hot_words = {} /\ rows' = Append(rows, w) =>
        \A p \in prefixes, c \in Labels :
          LET q == Append(p, c)
          IN  CutOff(w, c, p) /\ q \notin prefixes /\ InDictionary(q) =>
                \A kept \in prefixes' : trie'[kept].score >= Extended(w, q)
<1>1. DecoderInv /\ SumOK /\ [Next]_vars => [Sound]_vars
  <2> SUFFICES ASSUME DecoderInv, SumOK, [Next]_vars, NEW w \in Emissions, DOMAIN hot_words = {},
                      rows' = Append(rows, w),
                      NEW p \in prefixes, NEW c \in Labels, CutOff(w, c, p), NEW kept \in prefixes'
               PROVE  trie'[kept].score >= Extended(w, Append(p, c))
    BY Zenon
  <2>1. rows \in Seq(Emissions)
    BY DEF DecoderInv, CountersOK
  <2>2. rows' # rows
    BY <2>1
  <2>3. PICK v \in Emissions : TimeStep(v)
    BY <2>2, BeamUnchanged
  <2>4. Expand(v) /\ rows' = Append(rows, v)
    BY <2>2, <2>3 DEF TimeStep, Skip, Expand
  <2>5. v = w
    <3>1. Append(rows, v) = Append(rows, w)
      BY <2>4
    <3>2. Append(rows, v)[Len(rows) + 1] = v /\ Append(rows, w)[Len(rows) + 1] = w
      BY <2>1, AppendProperties
    <3> QED BY <3>1, <3>2
  <2> QED BY <2>3, <2>4, <2>5, CutoffExpand
<1>2. Spec => []SumOK
  BY SumInit, SumStep, DecoderInvariant, PTL DEF Spec
<1> QED BY <1>1, <1>2, DecoderInvariant, PTL DEF Spec, CutoffSound
-----------------------------------------------------------------------------
(* The best transcript *)

Spaces(q) == Cardinality({i \in DOMAIN q : q[i] = space_id})

\* Some prefix of the beam has a score.
PosOK == \E q \in prefixes : trie[q].score > 0

\* A prefix has at most a label per row, and a letter before every space.
LengthOK ==
  /\ abs_time_step <= MaxSteps(ext_scorer)
  /\ \A q \in prefixes :
       /\ Len(q) <= abs_time_step
       /\ ext_scorer => /\ 2 * Spaces(q) <= Len(q)
                        /\ q # << >> /\ ~Boundary(Last(q)) => 2 * Spaces(q) + 1 <= Len(q)

\* A score is large enough to be divided by LmUnit for every word that may come.
LargeEnough(prob, q) == prob > 0 => power[MaxWords - Spaces(q)] <= prob
LowerOK ==
  ext_scorer => \A q \in prefixes :
    LargeEnough(trie[q].log_prob_b_prev, q) /\ LargeEnough(trie[q].log_prob_nb_prev, q)

LEMMA SpacesAppend ==
  ASSUME NEW p \in Seq(Nat), NEW c \in Nat
  PROVE  /\ Spaces(p) \in Nat /\ Spaces(<< >>) = 0
         /\ Spaces(Append(p, c)) = IF c = space_id THEN Spaces(p) + 1 ELSE Spaces(p)
<1> DEFINE S == {i \in DOMAIN p : p[i] = space_id}
           T == {i \in DOMAIN Append(p, c) : Append(p, c)[i] = space_id}
           n == Len(p) + 1
<1>1. /\ DOMAIN p = 1 .. Len(p) /\ Len(p) \in Nat /\ DOMAIN Append(p, c) = 1 .. n
      /\ Append(p, c)[n] = c /\ \A i \in 1 .. Len(p) : Append(p, c)[i] = p[i]
  OBVIOUS
<1>2. IsFiniteSet(S) /\ Cardinality(S) \in Nat
  <2>1. IsFiniteSet(1 .. Len(p)) /\ S \in SUBSET (1 .. Len(p))
    BY <1>1, FS_Interval
  <2>2. IsFiniteSet(S)
    BY <2>1, FS_Subset
  <2> QED BY <2>2, FS_CardinalityType
<1>3. n \notin S /\ \A i \in 1 .. n : i = n \/ i \in 1 .. Len(p)
  BY <1>1
<1>4. T = IF c = space_id THEN S \cup {n} ELSE S
  <2>1. \A i : i \in 1 .. n <=> i = n \/ i \in 1 .. Len(p)
    BY <1>1
  <2> HIDE DEF n
  <2> QED BY <1>1, <2>1
<1>5. Cardinality(S \cup {n}) = Cardinality(S) + 1
  <2> HIDE DEF S, n
  <2> QED BY <1>2, <1>3, FS_AddElement
<1>6. Spaces(<< >>) = 0
  <2>1. {i \in DOMAIN << >> : << >>[i] = space_id} = {}
    OBVIOUS
  <2> QED BY <2>1, FS_EmptySet DEF Spaces
<1> QED BY <1>2, <1>4, <1>5, <1>6 DEF Spaces

\* A word ends with a letter.
LEMMA LastWordEnd ==
  ASSUME NEW p \in Seq(Nat), LastWord(p) # << >>
  PROVE  p # << >> /\ Last(p) # space_id
<1> DEFINE n == SpaceBefore(p)
<1>1. n \in 0 .. Len(p) /\ Len(p) \in Nat /\ \A i \in DOMAIN p : p[i] = space_id => i <= n
  BY SpaceProps
<1>2. n # Len(p)
  <2> SUFFICES ASSUME n = Len(p) PROVE FALSE
    OBVIOUS
  <2>1. SubSeq(p, n + 1, Len(p)) = << >>
    BY <1>1, SubSeqEmpty
  <2> QED BY <2>1 DEF LastWord
<1> HIDE DEF n
<1>3. Len(p) \in DOMAIN p
  BY <1>1, <1>2
<1> QED BY <1>1, <1>2, <1>3 DEF Last

\* A word is a letter and a space: half the labels bound the words.
LEMMA HalfTheLabels ==
  ASSUME NEW k \in Nat, NEW l \in Nat, NEW t \in Nat, l <= t, t <= MaxSteps(TRUE), 2 * k <= l + 1
  PROVE  k <= MaxWords
<1>1. PICK n \in Nat : n = MaxSteps(TRUE) /\ (n + 1) \div 2 <= MaxWords
  BY DecoderAssumption, Zenon
<1>2. t <= n
  BY <1>1, Zenon
<1>3. k <= (n + 1) \div 2
  BY <1>2
<1>4. (n + 1) \div 2 \in Nat /\ MaxWords \in Nat
  BY DecoderAssumption
<1>5. (n + 1) \div 2 <= MaxWords
  BY <1>1, Zenon
<1> QED BY <1>3, <1>4, <1>5

\* A prefix has room for a further word if it does not end with a space.
LEMMA RoomForWords ==
  ASSUME DecoderInv, LengthOK, ext_scorer, NEW q \in prefixes
  PROVE  /\ q \in Seq(Nat) /\ Spaces(q) \in Nat /\ Spaces(q) <= MaxWords
         /\ q # << >> /\ ~Boundary(Last(q)) => Spaces(q) + 1 <= MaxWords
<1>1. q \in Seq(Nat) /\ Len(q) \in Nat
  BY BeamPaths, PathTypes DEF DecoderInv
<1>2. Spaces(q) \in Nat
  BY <1>1, SpacesAppend
<1>4. abs_time_step <= MaxSteps(TRUE) /\ Len(q) <= abs_time_step /\ abs_time_step \in Nat
  <2>1. ext_scorer = TRUE
    BY DEF DecoderInv, SettingsOK
  <2> QED BY <2>1 DEF LengthOK, DecoderInv, CountersOK
<1>5. ASSUME NEW k \in Nat, 2 * k <= Len(q) + 1 PROVE k <= MaxWords
  BY <1>1, <1>4, <1>5, HalfTheLabels
<1>6. 2 * Spaces(q) <= Len(q) /\ (q # << >> /\ ~Boundary(Last(q)) => 2 * Spaces(q) + 1 <= Len(q))
  BY DEF LengthOK
<1>7. Spaces(q) <= MaxWords
  <2>1. 2 * Spaces(q) <= Len(q) + 1
    BY <1>1, <1>2, <1>6
  <2> QED BY <1>2, <1>5, <2>1
<1>8. ASSUME q # << >>, ~Boundary(Last(q)) PROVE Spaces(q) + 1 <= MaxWords
  <2>1. 2 * (Spaces(q) + 1) <= Len(q) + 1 /\ Spaces(q) + 1 \in Nat
    BY <1>1, <1>2, <1>6, <1>8
  <2> QED BY <1>5, <2>1
<1> QED BY <1>1, <1>2, <1>7, <1>8

\* Dividing by LmUnit at a space leaves enough.
LEMMA PowerDown ==
  ASSUME NEW k \in 1 .. MaxWords, NEW x \in Nat, power[k] <= x
  PROVE  power[k - 1] <= x \div LmUnit /\ x \div LmUnit \in Nat /\ x \div LmUnit > 0
<1>1. /\ power[k] = LmUnit * power[k - 1] /\ power[k - 1] \in Nat \ {0} /\ LmUnit \in Nat \ {0}
  <2>1. k \in 0 .. MaxWords /\ k - 1 \in 0 .. MaxWords /\ k > 0
    BY DecoderAssumption
  <2> QED BY <2>1, PowerProps, ScorerAssumption
<1>2. power[k - 1] * LmUnit = LmUnit * power[k - 1]
  BY <1>1
<1>3. power[k - 1] <= x \div LmUnit /\ x \div LmUnit \in Nat
  BY <1>1, <1>2, DivProps
<1> QED BY <1>1, <1>3

\* A positive score is at least the power its prefix needs.
LEMMA ScoreLarge ==
  ASSUME DecoderInv, SumOK, LowerOK, LengthOK, ext_scorer, NEW q \in prefixes,
         NEW base \in {trie[q].score, trie[q].log_prob_b_prev, trie[q].log_prob_nb_prev}, base > 0
  PROVE  power[MaxWords - Spaces(q)] <= base
<1> DEFINE d == MaxWords - Spaces(q)
<1>1. /\ trie[q].log_prob_b_prev \in Nat /\ trie[q].log_prob_nb_prev \in Nat
      /\ trie[q].score = trie[q].log_prob_b_prev + trie[q].log_prob_nb_prev
  BY BeamPaths DEF DecoderInv, Nodes, SumOK
<1>2. LargeEnough(trie[q].log_prob_b_prev, q) /\ LargeEnough(trie[q].log_prob_nb_prev, q)
  BY DEF LowerOK
<1>3. d \in 0 .. MaxWords
  BY RoomForWords, DecoderAssumption
<1>4. power[d] \in Nat
  BY <1>3, PowerProps
<1> HIDE DEF d
<1>5. /\ trie[q].log_prob_b_prev > 0 => power[d] <= trie[q].log_prob_b_prev
      /\ trie[q].log_prob_nb_prev > 0 => power[d] <= trie[q].log_prob_nb_prev
  BY <1>2 DEF LargeEnough, d
<1>6. power[d] <= base
  BY <1>1, <1>4, <1>5
<1> QED BY <1>6 DEF d

\* decode: a prefix with a score has one with its last word too.
LEMMA RescoredProps ==
  ASSUME DecoderInv, SumOK, LengthOK, LowerOK, NEW q \in prefixes
  PROVE  Rescored(q) \in Nat /\ (Rescored(q) > 0 <=> trie[q].score > 0)
<1> DEFINE s == trie[q].score
           k == CondProb(make_ngram(q))
<1>1. s \in Nat /\ q \in Paths /\ q \in Seq(Nat)
  BY BeamPaths, PathTypes DEF DecoderInv
<1>2. k \in Nat \ {0}
  BY <1>1, CondProbType, ScorerAssumption
<1>3. LmUnit \in Nat \ {0}
  BY ScorerAssumption
<1> HIDE DEF k, s
<1>4. CASE ext_scorer /\ q # << >> /\ ~Boundary(Last(q))
  <2>1. Rescored(q) = (s * k) \div LmUnit
    BY <1>4 DEF Rescored, s, k
  <2>2. CASE s = 0
    <3>1. (0 * k) \div LmUnit = 0
      BY <1>2, <1>3
    <3> QED BY <2>1, <2>2, <3>1 DEF s
  <2>3. CASE s > 0
    <3> DEFINE d == MaxWords - Spaces(q)
    <3>1. d \in 1 .. MaxWords /\ d \in 0 .. MaxWords
      BY <1>4, RoomForWords, DecoderAssumption
    <3>2. power[d] <= s
      BY <1>4, <2>3, ScoreLarge DEF s
    <3>3. s * k \in Nat /\ s <= s * k
      BY <1>1, <1>2, MulPos
    <3>4. power[d] <= s * k
      BY <1>1, <3>1, <3>2, <3>3, PowerProps
    <3>5. (s * k) \div LmUnit \in Nat /\ (s * k) \div LmUnit > 0
      <4> HIDE DEF d
      <4> QED BY <3>1, <3>3, <3>4, PowerDown
    <3> QED BY <2>1, <2>3, <3>5 DEF s
  <2> QED BY <1>1, <2>2, <2>3
<1>5. CASE ~(ext_scorer /\ q # << >> /\ ~Boundary(Last(q)))
  BY <1>1, <1>5 DEF Rescored, s
<1> QED BY <1>4, <1>5
LEMMA HistoryInit == Init => PosOK /\ LengthOK /\ LowerOK
<1> SUFFICES ASSUME Init PROVE PosOK /\ LengthOK /\ LowerOK
  OBVIOUS
<1>1. /\ prefixes = {<< >>} /\ abs_time_step = 0
      /\ trie[<< >>] = [NewPathTrie EXCEPT !.score = Scale, !.log_prob_b_prev = Scale,
                                           !.timesteps = << >>]
  BY DEF Init
<1>2. /\ trie[<< >>].score = Scale /\ trie[<< >>].log_prob_b_prev = Scale
      /\ trie[<< >>].log_prob_nb_prev = 0
  BY <1>1 DEF NewPathTrie
<1>3. Scale \in Nat \ {0}
  BY PowerProps, DecoderAssumption DEF Scale
<1>4. Spaces(<< >>) = 0 /\ Len(<< >>) = 0 /\ MaxWords - 0 = MaxWords /\ MaxWords \in Nat
  <2>1. << >> \in Seq(Nat) /\ 0 \in Nat /\ Len(<< >>) = 0
    OBVIOUS
  <2>2. Spaces(<< >>) = 0
    BY <2>1, SpacesAppend, Zenon
  <2>3. MaxWords \in Nat
    BY DecoderAssumption
  <2> QED BY <2>1, <2>2, <2>3
<1>5. PosOK
  <2>1. Scale > 0
    BY <1>3
  <2> QED BY <1>1, <1>2, <2>1, Zenon DEF PosOK
<1>6. LengthOK
  <2>1. ext_scorer \in BOOLEAN
    BY DecoderInit DEF DecoderInv, SettingsOK
  <2>2. MaxSteps(ext_scorer) \in Nat
    BY <2>1, DecoderAssumption
  <2>3. 0 <= MaxSteps(ext_scorer)
    BY <2>2
  <2>4. 2 * 0 <= 0 /\ 0 <= 0
    OBVIOUS
  <2> QED BY <1>1, <1>4, <2>3, <2>4, Zenon DEF LengthOK
<1>7. LowerOK
  <2>1. LargeEnough(Scale, << >>) /\ LargeEnough(0, << >>)
    <3>1. Scale <= Scale /\ ~(0 > 0)
      BY <1>3
    <3>2. power[MaxWords - Spaces(<< >>)] = Scale
      BY <1>4 DEF Scale
    <3> QED BY <3>1, <3>2, Zenon DEF LargeEnough
  <2> QED BY <1>1, <1>2, <2>1 DEF LowerOK
<1> QED BY <1>5, <1>6, <1>7

\* The prefix with a score keeps one through its blank, and if it is dropped,
\* those that are kept score no less.
LEMMA PosExpand ==
  ASSUME DecoderInv, SumOK, PosOK, NEW w \in Emissions, TimeStep(w), Expand(w)
  PROVE  PosOK'
<1>1. PICK p \in prefixes : trie[p].score > 0
  BY DEF PosOK
<1>2. p \in Existing(trie') /\ Updated(trie'[p], w, p) /\ TrieOK(trie')
  BY Expanded
<1>3. p \in Paths /\ trie[p].score \in Nat
  BY BeamPaths DEF DecoderInv
<1>4. FromBlank(w, p) \in Nat /\ FromBlank(w, p) > 0
  BY <1>1, <1>3, BlankKeepsScore, RowTypes, MulPos
<1>5. trie'[p].score >= FromBlank(w, p) /\ trie'[p].score \in Nat
  BY <1>2, <1>3, UpdatedTypes
<1>6. trie'[p].score > 0
  BY <1>4, <1>5
<1>7. Next
  BY DEF Next
<1>8. DecoderInv'
  BY <1>7, DecoderStep
<1>9. PICK y \in prefixes' : TRUE
  BY <1>8 DEF DecoderInv, BeamOK
<1>10. trie'[y].score \in Nat
  <2>1. y \in Existing(trie')
    BY Expanded
  <2> QED BY <1>2, <2>1 DEF TrieOK, Existing, Nodes
<1>11. p \in prefixes' \/ trie'[p].score <= trie'[y].score
  BY <1>2, Expanded
<1>12. p \in prefixes' \/ trie'[y].score > 0
  BY <1>5, <1>6, <1>10, <1>11
<1> QED BY <1>6, <1>12 DEF PosOK

\* Where an extension comes from.
LEMMA ExtensionParts ==
  ASSUME DecoderInv, NEW w \in Emissions, NEW q \in Extensions(w)
  PROVE  /\ q \in Paths /\ q # << >> /\ Front(q) \in prefixes /\ Last(q) \in Labels
         /\ Front(q) \in Seq(Nat) /\ Last(q) \in Nat /\ q = Append(Front(q), Last(q))
         /\ Len(q) = Len(Front(q)) + 1 /\ Len(Front(q)) \in Nat
         /\ ext_scorer => InDictionary(q)
<1>1. q \in Paths /\ q # << >> /\ Front(q) \in prefixes /\ (ext_scorer => InDictionary(q))
  <2>1. ext_scorer => InDictionary(q)
    BY DEF Extensions
  <2>2. BeamOK
    BY DEF DecoderInv
  <2> QED BY <2>1, <2>2, ExtensionsProps
<1>2. /\ Front(q) \in Seq(Labels) /\ Len(Front(q)) = Len(q) - 1 /\ Last(q) \in Labels
      /\ q = Append(Front(q), Last(q)) /\ Len(q) \in Nat
  BY <1>1, FrontProps DEF Paths
<1>3. Front(q) \in Seq(Nat) /\ Last(q) \in Nat
  BY <1>2, PathTypes DEF Paths
<1> QED BY <1>1, <1>2, <1>3

LEMMA LengthExpand ==
  ASSUME DecoderInv, LengthOK, NEW w \in Emissions, TimeStep(w), Expand(w)
  PROVE  LengthOK'
<1>1. ext_scorer' = ext_scorer /\ abs_time_step' = abs_time_step + 1 /\ abs_time_step \in Nat
  BY DEF TimeStep, settings, DecoderInv, CountersOK
<1>2. abs_time_step' <= MaxSteps(ext_scorer')
  <2>1. ext_scorer \in BOOLEAN
    BY DEF DecoderInv, SettingsOK
  <2>2. MaxSteps(ext_scorer) \in Nat
    BY <2>1, DecoderAssumption
  <2>3. abs_time_step < MaxSteps(ext_scorer)
    BY DEF TimeStep
  <2>4. abs_time_step + 1 <= MaxSteps(ext_scorer)
    BY <1>1, <2>2, <2>3
  <2> QED BY <1>1, <2>4, Zenon
<1> DEFINE Fits(q) == /\ Len(q) <= abs_time_step + 1
                      /\ ext_scorer => /\ 2 * Spaces(q) <= Len(q)
                                       /\ q # << >> /\ ~Boundary(Last(q)) => 2 * Spaces(q) + 1 <= Len(q)
<1>3. ASSUME NEW q \in prefixes PROVE Fits(q)
  <2>1. Len(q) \in Nat
    BY BeamPaths, PathTypes DEF DecoderInv
  <2>2. Len(q) <= abs_time_step
    BY DEF LengthOK
  <2>3. Len(q) <= abs_time_step + 1
    BY <1>1, <2>1, <2>2
  <2> QED BY <2>3 DEF LengthOK
<1>4. ASSUME NEW q \in Extensions(w) PROVE Fits(q)
  <2> DEFINE p == Front(q)
             c == Last(q)
  <2>1. /\ p \in prefixes /\ p \in Seq(Nat) /\ c \in Nat /\ q = Append(p, c)
        /\ Len(q) = Len(p) + 1 /\ Len(p) \in Nat
        /\ ext_scorer => InDictionary(q)
    BY ExtensionParts
  <2>2. Len(p) <= abs_time_step
    BY <2>1 DEF LengthOK
  <2>3. Len(q) <= abs_time_step + 1
    BY <1>1, <2>1, <2>2
  <2>4. /\ Spaces(p) \in Nat /\ Spaces(q) = IF c = space_id THEN Spaces(p) + 1 ELSE Spaces(p)
    <3> HIDE DEF p, c
    <3>1. Spaces(Append(p, c)) = IF c = space_id THEN Spaces(p) + 1 ELSE Spaces(p)
      BY <2>1, SpacesAppend
    <3>2. Spaces(p) \in Nat
      BY <2>1, SpacesAppend
    <3> QED BY <2>1, <3>1, <3>2
  <2>5. ASSUME ext_scorer, c = space_id
        PROVE  2 * Spaces(q) <= Len(q) /\ Boundary(Last(q))
    <3>1. PICK word \in vocabulary : LastWord(p) = word
      BY <2>1, <2>5 DEF InDictionary
    <3>2. LastWord(p) # << >>
      BY <3>1, ScorerAssumption
    <3>3. p # << >> /\ Last(p) # space_id
      BY <2>1, <3>2, LastWordEnd
    <3>4. 2 * Spaces(p) + 1 <= Len(p)
      BY <2>1, <2>5, <3>3 DEF LengthOK, Boundary
    <3>5. 2 * (Spaces(p) + 1) <= Len(p) + 1
      BY <2>1, <2>4, <3>4
    <3>6. Spaces(q) = Spaces(p) + 1 /\ Boundary(Last(q))
      BY <2>4, <2>5 DEF Boundary
    <3> QED BY <2>1, <3>5, <3>6
  <2>6. ASSUME ext_scorer, c # space_id
        PROVE  2 * Spaces(q) <= Len(q) /\ 2 * Spaces(q) + 1 <= Len(q)
    <3>1. 2 * Spaces(p) <= Len(p)
      BY <2>1, <2>6 DEF LengthOK
    <3>2. Spaces(q) = Spaces(p)
      BY <2>4, <2>6
    <3> QED BY <2>1, <2>4, <3>1, <3>2
  <2> QED BY <2>3, <2>5, <2>6
<1>5. prefixes' \subseteq prefixes \cup Extensions(w)
  BY Expanded
<1>6. \A q \in prefixes' : Fits(q)
  BY <1>3, <1>4, <1>5
<1> HIDE DEF Fits
<1> QED BY <1>1, <1>2, <1>6 DEF LengthOK, Fits
\* The parent gives an extension a large enough score.
LEMMA ExtendedLarge ==
  ASSUME DecoderInv, SumOK, LowerOK, LengthOK, ext_scorer, NEW w \in Emissions,
         NEW q \in Extensions(w)
  PROVE  LargeEnough(Extended(w, q), q)
<1> DEFINE p == Front(q)
           c == Last(q)
           base == IF character(p) = c THEN trie[p].log_prob_b_prev ELSE trie[p].score
           x == w[c] * base
           k == CondProb(make_ngram(p))
           h == HotBoost(hot_words, make_ngram(p))
<1>1. p \in prefixes /\ p \in Seq(Nat) /\ c \in Labels /\ c \in Nat /\ q = Append(p, c)
  BY ExtensionParts
<1>2. /\ base \in {trie[p].score, trie[p].log_prob_b_prev, trie[p].log_prob_nb_prev}
      /\ base \in Nat
  BY <1>1, BeamPaths DEF DecoderInv, Nodes
<1>3. w[c] \in Nat \ {0}
  BY <1>1, RowTypes
<1>4. k \in Nat \ {0}
  BY <1>1, CondProbType, ScorerAssumption
<1>5. h \in Nat \ {0}
  <2>1. make_ngram(p) \in Seq(Seq(Nat))
    BY <1>1, NgramType
  <2> QED BY <2>1, HotBoostType DEF DecoderInv, SettingsOK
<1>6. Extended(w, q) = IF Boundary(c) THEN (x * k * h) \div LmUnit ELSE x
  BY DEF Extended, Scored
<1>7. /\ Spaces(p) \in Nat /\ Spaces(q) = IF c = space_id THEN Spaces(p) + 1 ELSE Spaces(p)
  <2>1. /\ Spaces(p) \in Nat
        /\ Spaces(Append(p, c)) = IF c = space_id THEN Spaces(p) + 1 ELSE Spaces(p)
    <3> HIDE DEF p, c
    <3> QED BY <1>1, SpacesAppend
  <2> QED BY <1>1, <2>1
<1>8. LmUnit \in Nat \ {0} /\ MaxWords \in Nat
  BY ScorerAssumption, DecoderAssumption
<1> DEFINE d == MaxWords - Spaces(p)
<1>9. base > 0 => power[d] <= base
  BY <1>1, <1>2, ScoreLarge
<1>10. d \in 0 .. MaxWords /\ power[d] \in Nat
  BY <1>1, RoomForWords, PowerProps, DecoderAssumption
<1> HIDE DEF base, k, h
<1>11. x \in Nat /\ (base = 0 => x = 0) /\ (base > 0 => power[d] <= x)
  <2>1. x \in Nat /\ base <= x
    BY <1>2, <1>3
  <2>2. base = 0 => x = 0
    BY <1>3
  <2> HIDE DEF x, d
  <2> QED BY <1>2, <1>9, <1>10, <2>1, <2>2
<1>12. CASE ~Boundary(c)
  <2>1. Extended(w, q) = x /\ Spaces(q) = Spaces(p)
    BY <1>6, <1>7, <1>12 DEF Boundary
  <2>2. x > 0 => power[d] <= x
    BY <1>2, <1>11
  <2> QED BY <2>1, <2>2 DEF LargeEnough
<1>13. CASE Boundary(c)
  <2> DEFINE y == x * k * h
  <2>1. Extended(w, q) = y \div LmUnit /\ Spaces(q) = Spaces(p) + 1
    BY <1>6, <1>7, <1>13 DEF Boundary
  <2>2. y \in Nat /\ x <= y /\ (x = 0 => y = 0)
    <3> HIDE DEF x
    <3>1. x * k \in Nat /\ x <= x * k /\ (x = 0 => x * k = 0)
      BY <1>4, <1>11
    <3> DEFINE z == x * k
    <3> HIDE DEF z
    <3>2. z * h \in Nat /\ z <= z * h /\ (z = 0 => z * h = 0)
      BY <1>5, <3>1 DEF z
    <3> QED BY <1>11, <3>1, <3>2 DEF z
  <2>3. 0 \div LmUnit = 0
    BY <1>8
  <2>4. CASE base = 0
    <3>1. Extended(w, q) = 0
      BY <1>11, <2>1, <2>2, <2>3, <2>4, Zenon
    <3> QED BY <3>1 DEF LargeEnough
  <2>5. CASE base > 0
    <3>1. d \in 1 .. MaxWords
      <4>1. InDictionary(q)
        BY ExtensionParts
      <4>2. PICK word \in vocabulary : LastWord(p) = word
        BY <1>13, <4>1 DEF InDictionary, Boundary
      <4>3. LastWord(p) # << >>
        BY <4>2, ScorerAssumption
      <4>4. p # << >> /\ Last(p) # space_id
        BY <1>1, <4>3, LastWordEnd
      <4>5. Spaces(p) + 1 <= MaxWords
        BY <1>1, <4>4, RoomForWords DEF Boundary
      <4> QED BY <1>7, <1>8, <4>5
    <3>2. power[d] <= y
      <4> HIDE DEF d, x, y
      <4> QED BY <1>10, <1>11, <2>2, <2>5
    <3>3. power[d - 1] <= y \div LmUnit
      <4> HIDE DEF d, x, y
      <4> QED BY <2>2, <3>1, <3>2, PowerDown
    <3>4. MaxWords - Spaces(q) = d - 1
      BY <1>7, <1>8, <2>1
    <3> HIDE DEF d, y
    <3> QED BY <2>1, <3>3, <3>4 DEF LargeEnough
  <2> QED BY <1>2, <2>4, <2>5
<1> QED BY <1>12, <1>13

LEMMA LowerExpand ==
  ASSUME DecoderInv, SumOK, LengthOK, LowerOK, NEW w \in Emissions, TimeStep(w), Expand(w)
  PROVE  LowerOK'
<1> SUFFICES ASSUME ext_scorer, NEW q \in prefixes'
             PROVE  /\ LargeEnough(trie'[q].log_prob_b_prev, q)
                    /\ LargeEnough(trie'[q].log_prob_nb_prev, q)
  BY DEF LowerOK, TimeStep, settings
<1> DEFINE least == power[MaxWords - Spaces(q)]
<1>1. q \in Existing(trie') /\ Updated(trie'[q], w, q) /\ TrieOK(trie')
  BY Expanded
<1>2. q \in Paths
  BY <1>1 DEF TrieOK, Existing
<1>3. FromBlank(w, q) \in Nat /\ FromRepeat(w, q) \in Nat /\ FromParent(w, q) \in Nat
  BY <1>1, <1>2, UpdatedTypes
<1>4. ASSUME NEW base \in {trie[q].score, trie[q].log_prob_nb_prev}, NEW v \in Nat \ {0},
             q \in prefixes, v * base > 0
      PROVE  least <= v * base
  <2>1. base \in Nat
    BY <1>4, BeamPaths DEF DecoderInv, Nodes
  <2>2. base > 0 /\ base <= v * base /\ v * base \in Nat
    BY <1>4, <2>1
  <2>3. least <= base
    BY <1>4, <2>2, ScoreLarge
  <2>4. least \in Nat
    <3>1. MaxWords - Spaces(q) \in 0 .. MaxWords
      BY <1>4, RoomForWords, DecoderAssumption
    <3> QED BY <3>1, PowerProps
  <2> DEFINE z == v * base
  <2> HIDE DEF least, z
  <2>5. least <= z
    BY <2>1, <2>2, <2>3, <2>4 DEF z
  <2> QED BY <2>5 DEF z
<1>5. FromBlank(w, q) > 0 => least <= FromBlank(w, q)
  <2> SUFFICES ASSUME FromBlank(w, q) > 0 PROVE least <= FromBlank(w, q)
    OBVIOUS
  <2>1. q \in Active(w, blank_id) /\ FromBlank(w, q) = w[blank_id] * trie[q].score
    BY DEF FromBlank
  <2>2. q \in prefixes /\ w[blank_id] \in Nat \ {0}
    BY <2>1, RowTypes DEF Active
  <2> HIDE DEF least
  <2> QED BY <1>4, <2>1, <2>2
<1>6. FromRepeat(w, q) > 0 => least <= FromRepeat(w, q)
  <2> SUFFICES ASSUME FromRepeat(w, q) > 0 PROVE least <= FromRepeat(w, q)
    OBVIOUS
  <2>1. q # << >> /\ q \in Active(w, Last(q)) /\ FromRepeat(w, q) = w[Last(q)] * trie[q].log_prob_nb_prev
    BY DEF FromRepeat
  <2>2. q \in prefixes /\ w[Last(q)] \in Nat \ {0}
    <3>1. Last(q) \in Labels
      BY <1>2, <2>1, FrontProps DEF Paths
    <3> QED BY <2>1, <3>1, RowTypes DEF Active
  <2> HIDE DEF least
  <2> QED BY <1>4, <2>1, <2>2
<1>7. FromParent(w, q) > 0 => least <= FromParent(w, q)
  <2> SUFFICES ASSUME FromParent(w, q) > 0 PROVE least <= FromParent(w, q)
    OBVIOUS
  <2>1. q \in Extensions(w) /\ FromParent(w, q) = Extended(w, q)
    BY DEF FromParent
  <2> QED BY <2>1, ExtendedLarge DEF LargeEnough
<1>8. least \in Nat
  <2>1. Next
    BY DEF Next
  <2>2. LengthOK' /\ ext_scorer' /\ ext_scorer' = TRUE /\ abs_time_step' \in Nat
    BY <2>1, DecoderStep, LengthExpand DEF TimeStep, settings, DecoderInv, SettingsOK, CountersOK
  <2>3. /\ abs_time_step' <= MaxSteps(TRUE) /\ Len(q) <= abs_time_step'
        /\ 2 * Spaces(q) <= Len(q)
    BY <2>2 DEF LengthOK
  <2>4. q \in Seq(Nat) /\ Len(q) \in Nat
    BY <1>2, PathTypes
  <2>5. Spaces(q) \in Nat
    BY <2>4, SpacesAppend
  <2>6. 2 * Spaces(q) <= Len(q) + 1
    BY <2>3, <2>4, <2>5
  <2>7. Spaces(q) <= MaxWords
    BY <2>2, <2>3, <2>4, <2>5, <2>6, HalfTheLabels
  <2>8. MaxWords - Spaces(q) \in 0 .. MaxWords
    BY <2>5, <2>7, DecoderAssumption
  <2> QED BY <2>8, PowerProps
<1> HIDE DEF least
<1>9. /\ trie'[q].log_prob_b_prev = FromBlank(w, q)
      /\ trie'[q].log_prob_nb_prev = FromRepeat(w, q) + FromParent(w, q)
  BY <1>1 DEF Updated
<1>10. FromRepeat(w, q) + FromParent(w, q) > 0 => least <= FromRepeat(w, q) + FromParent(w, q)
  BY <1>3, <1>6, <1>7, <1>8
<1> QED BY <1>5, <1>9, <1>10 DEF LargeEnough, least
HistoryOK == SumOK /\ PosOK /\ LengthOK /\ LowerOK

LEMMA HistoryStep == DecoderInv /\ HistoryOK /\ [Next]_vars => HistoryOK'
<1> SUFFICES ASSUME DecoderInv, HistoryOK, [Next]_vars PROVE HistoryOK'
  OBVIOUS
<1>1. SumOK'
  BY SumStep DEF HistoryOK
<1>2. ASSUME NEW w \in Emissions, TimeStep(w), Expand(w) PROVE HistoryOK'
  BY <1>1, <1>2, PosExpand, LengthExpand, LowerExpand DEF HistoryOK
<1>3. ASSUME NEW w \in Emissions, TimeStep(w), Skip(w) PROVE HistoryOK'
  <2>1. /\ ext_scorer' = ext_scorer /\ prefixes' = prefixes /\ trie' = trie
        /\ abs_time_step' = abs_time_step + 1 /\ abs_time_step \in Nat
        /\ abs_time_step < MaxSteps(ext_scorer)
    BY <1>3 DEF TimeStep, Skip, settings, DecoderInv, CountersOK
  <2>2. PosOK' /\ LowerOK'
    BY <2>1 DEF HistoryOK, PosOK, LowerOK
  <2>3. abs_time_step' <= MaxSteps(ext_scorer')
    <3>1. MaxSteps(ext_scorer) \in Nat
      BY DecoderAssumption DEF DecoderInv, SettingsOK
    <3>2. abs_time_step + 1 <= MaxSteps(ext_scorer)
      BY <2>1, <3>1
    <3> QED BY <2>1, <3>2, Zenon
  <2>4. ASSUME NEW q \in prefixes PROVE Len(q) <= abs_time_step'
    <3>1. Len(q) \in Nat /\ Len(q) <= abs_time_step
      BY BeamPaths, PathTypes DEF DecoderInv, HistoryOK, LengthOK
    <3> QED BY <2>1, <3>1
  <2>5. LengthOK'
    BY <2>1, <2>3, <2>4 DEF HistoryOK, LengthOK
  <2> QED BY <1>1, <2>2, <2>5 DEF HistoryOK
<1>4. ASSUME UNCHANGED <<beam_size, cutoff_top_n, ext_scorer, hot_words, abs_time_step, prefixes, rows>>,
             \A q \in prefixes : trie'[q] = trie[q]
      PROVE  HistoryOK'
  <2>1. PosOK' /\ LowerOK'
    BY <1>4 DEF HistoryOK, PosOK, LowerOK
  <2>2. LengthOK'
    BY <1>4 DEF HistoryOK, LengthOK
  <2> QED BY <1>1, <2>1, <2>2 DEF HistoryOK
<1> QED BY <1>2, <1>3, <1>4, BeamUnchanged DEF TimeStep

\* The only transcript that decode returns is the best one: it has a score.
LEMMA DecodeBest ==
  ASSUME DecoderInv, HistoryOK, NEW n \in 1 .. MaxResults, decode(n), Cardinality(results') = 1,
         NEW r \in results'
  PROVE  r.confidence > 0 /\ r.timesteps # Null /\ Len(r.timesteps) = Len(r.tokens)
<1> DEFINE scores == [q \in prefixes |-> [score |-> Rescored(q)]]
           size == Cardinality(prefixes)
           m == IF n < size THEN n ELSE size
           res(q) == [tokens |-> q, timesteps |-> trie[q].timesteps, confidence |-> scores[q].score]
<1>1. PICK K \in Best(scores, prefixes, m) : results' = {res(q) : q \in K}
  BY DEF decode
<1>2. IsFiniteSet(prefixes) /\ size \in Nat /\ m \in Nat
  <2>1. IsFiniteSet(prefixes)
    BY BeamPaths DEF DecoderInv
  <2>2. size \in Nat
    BY <2>1, FS_CardinalityType
  <2>3. n \in Nat
    OBVIOUS
  <2> HIDE DEF size
  <2> QED BY <2>1, <2>2, <2>3
<1>3. \A x \in prefixes : /\ scores[x].score = Rescored(x) /\ scores[x].score \in Nat /\ x \in Paths
                          /\ (Rescored(x) > 0 <=> trie[x].score > 0)
  BY RescoredProps, BeamPaths DEF DecoderInv, HistoryOK
<1>4. /\ K \subseteq prefixes /\ IsFiniteSet(K)
      /\ \A x \in prefixes \ K, y \in K : scores[x].score <= scores[y].score
  <2> HIDE DEF scores, m
  <2> QED BY <1>1, <1>2, <1>3, BestProps
<1>5. PICK q \in K : r = res(q)
  BY <1>1
<1>6. \A x \in K : x = q
  <2> DEFINE f == [x \in K |-> res(x)]
  <2>1. f \in Surjection(K, results')
    BY <1>1 DEF Surjection
  <2>2. IsFiniteSet(results')
    BY <1>4, <2>1, FS_Surjection
  <2>3. PICK e : results' = {e}
    BY <2>2, FS_Singleton
  <2>4. \A x \in K : res(x) = res(q)
    BY <1>1, <2>3, Zenon
  <2> QED BY <2>4
<1>7. PICK p \in prefixes : trie[p].score > 0
  BY DEF HistoryOK, PosOK
<1> HIDE DEF scores
<1>8. scores[q].score > 0
  <2>1. scores[p].score > 0 /\ scores[p].score \in Nat /\ scores[q].score \in Nat
    BY <1>3, <1>4, <1>7
  <2>2. p = q \/ scores[p].score <= scores[q].score
    BY <1>4, <1>6
  <2> QED BY <2>1, <2>2
<1>9. trie[q].score > 0 /\ q \in prefixes
  BY <1>3, <1>4, <1>8
<1>10. Timed(trie[q].timesteps, q, abs_time_step)
  BY <1>9 DEF DecoderInv, AlignedOK
<1>11. trie[q].timesteps # Null /\ Len(trie[q].timesteps) = Len(q)
  BY <1>10, DecoderAssumption DEF Timed
<1> QED BY <1>5, <1>8, <1>11

\* DS_IntermediateDecode and DS_FinishStream ask for one result: its score is
\* positive and its times are there, one per token.  Over all beam widths,
\* alphabets, vocabularies, hot words and rows.
THEOREM BestKeepsHistory == Spec => []BestHasHistory
<1>1. Init => HistoryOK /\ BestHasHistory
  <2> SUFFICES ASSUME Init PROVE HistoryOK /\ BestHasHistory
    OBVIOUS
  <2>1. BestHasHistory
    BY DEF Init, BestHasHistory
  <2> QED BY <2>1, SumInit, HistoryInit DEF HistoryOK
<1>2. DecoderInv /\ HistoryOK /\ BestHasHistory /\ [Next]_vars => HistoryOK' /\ BestHasHistory'
  <2> SUFFICES ASSUME DecoderInv, HistoryOK, BestHasHistory, [Next]_vars
               PROVE  HistoryOK' /\ BestHasHistory'
    OBVIOUS
  <2>1. results' = results => BestHasHistory'
    BY DEF BestHasHistory
  <2>2. (\E w \in Emissions : TimeStep(w)) => BestHasHistory'
    BY DEF TimeStep, BestHasHistory
  <2>3. (\E n \in 1 .. MaxResults : decode(n)) => BestHasHistory'
    BY DecodeBest DEF BestHasHistory
  <2> QED BY <2>1, <2>2, <2>3, BeamUnchanged, HistoryStep
<1> QED BY <1>1, <1>2, DecoderInvariant, PTL DEF Spec
-----------------------------------------------------------------------------
(* The dictionary *)

\* A space ends the last word, any other label goes on with it.
LEMMA LastWordAppend ==
  ASSUME NEW p \in Seq(Nat), NEW c \in Nat
  PROVE  /\ LastWord(p) \in Seq(Nat) /\ LastWord(<< >>) = << >>
         /\ LastWord(Append(p, c)) = IF c = space_id THEN << >> ELSE Append(LastWord(p), c)
<1> DEFINE q == Append(p, c)
           n == SpaceBefore(p)
           l == Len(p)
<1>1. /\ l \in Nat /\ q \in Seq(Nat) /\ Len(q) = l + 1 /\ q[l + 1] = c
      /\ DOMAIN p = 1 .. l /\ DOMAIN q = 1 .. l + 1 /\ \A i \in 1 .. l : q[i] = p[i]
  OBVIOUS
<1>2. /\ n \in 0 .. l /\ (n # 0 => p[n] = space_id)
      /\ \A i \in 1 .. l : p[i] = space_id => i <= n
  BY <1>1, SpaceProps
<1>3. PICK m \in 0 .. l + 1 : /\ m = SpaceBefore(q) /\ (m # 0 => q[m] = space_id)
                              /\ \A i \in 1 .. l + 1 : q[i] = space_id => i <= m
  <2> HIDE DEF q
  <2> QED BY <1>1, SpaceProps
<1>4. LastWord(p) = SubSeq(p, n + 1, l) /\ LastWord(q) = SubSeq(q, m + 1, l + 1)
  <2>1. LastWord(p) = SubSeq(p, n + 1, l)
    BY DEF LastWord
  <2>2. LastWord(q) = SubSeq(q, SpaceBefore(q) + 1, Len(q))
    BY DEF LastWord
  <2> QED BY <1>1, <1>3, <2>1, <2>2, Zenon
<1> HIDE DEF n, q, l
<1>5. /\ SubSeq(p, n + 1, l) \in Seq(Nat)
      /\ Len(SubSeq(p, n + 1, l)) = l - n
      /\ \A i \in 1 .. l - n : SubSeq(p, n + 1, l)[i] = p[n + i]
  <2>1. n + 1 \in Int /\ l \in Int /\ \A i \in n + 1 .. l : p[i] \in Nat
    BY <1>1, <1>2
  <2>2. /\ SubSeq(p, n + 1, l) \in Seq(Nat)
        /\ Len(SubSeq(p, n + 1, l)) = IF n + 1 <= l THEN l - (n + 1) + 1 ELSE 0
        /\ \A i \in 1 .. l - (n + 1) + 1 : SubSeq(p, n + 1, l)[i] = p[(n + 1) + i - 1]
    BY <2>1, SubSeqProperties
  <2>3. l - (n + 1) + 1 = l - n /\ \A i \in 1 .. l - n : (n + 1) + i - 1 = n + i
    BY <1>1, <1>2
  <2>4. (IF n + 1 <= l THEN l - (n + 1) + 1 ELSE 0) = l - n
    BY <1>1, <1>2
  <2> QED BY <2>2, <2>3, <2>4
<1>6. LastWord(<< >>) = << >>
  <2>1. << >> \in Seq(Nat) /\ Len(<< >>) = 0
    OBVIOUS
  <2>2. SpaceBefore(<< >>) \in 0 .. 0
    BY <2>1, SpaceProps
  <2>3. SubSeq(<< >>, SpaceBefore(<< >>) + 1, 0) = << >>
    BY <2>2, SubSeqEmpty
  <2> QED BY <2>1, <2>3 DEF LastWord
<1>7. ASSUME c = space_id PROVE LastWord(q) = << >>
  <2>1. m = l + 1
    BY <1>1, <1>3, <1>7
  <2>2. SubSeq(q, m + 1, l + 1) = << >>
    BY <1>1, <2>1, SubSeqEmpty
  <2> QED BY <1>4, <2>2
<1>8. ASSUME c # space_id PROVE LastWord(q) = Append(LastWord(p), c)
  <2>1. m = n
    <3>1. m # l + 1
      BY <1>1, <1>3, <1>8
    <3>2. m <= n
      BY <1>1, <1>2, <1>3, <3>1
    <3>3. n <= m
      BY <1>1, <1>2, <1>3
    <3> QED BY <1>2, <3>2, <3>3
  <2> DEFINE s == SubSeq(q, n + 1, l + 1)
             t == Append(SubSeq(p, n + 1, l), c)
  <2>2. /\ s \in Seq(Nat) /\ Len(s) = l + 1 - n
        /\ \A i \in 1 .. l + 1 - n : s[i] = q[n + i]
    <3>1. n + 1 \in Int /\ l + 1 \in Int /\ \A i \in n + 1 .. l + 1 : q[i] \in Nat
      BY <1>1, <1>2
    <3>2. /\ s \in Seq(Nat)
          /\ Len(s) = IF n + 1 <= l + 1 THEN (l + 1) - (n + 1) + 1 ELSE 0
          /\ \A i \in 1 .. (l + 1) - (n + 1) + 1 : s[i] = q[(n + 1) + i - 1]
      BY <3>1, SubSeqProperties
    <3>3. (l + 1) - (n + 1) + 1 = l + 1 - n /\ \A i \in 1 .. l + 1 - n : (n + 1) + i - 1 = n + i
      BY <1>1, <1>2
    <3>4. n + 1 <= l + 1
      BY <1>1, <1>2
    <3> QED BY <3>2, <3>3, <3>4
  <2>3. /\ t \in Seq(Nat) /\ Len(t) = l + 1 - n /\ t[l + 1 - n] = c
        /\ \A i \in 1 .. l - n : t[i] = p[n + i]
    <3> DEFINE u == SubSeq(p, n + 1, l)
    <3>1. Len(u) = l - n /\ l - n \in Nat /\ l + 1 - n = (l - n) + 1
      BY <1>1, <1>2, <1>5
    <3> HIDE DEF u
    <3>2. u \in Seq(Nat) /\ \A i \in 1 .. l - n : u[i] = p[n + i]
      BY <1>5 DEF u
    <3>3. /\ Append(u, c) \in Seq(Nat) /\ Len(Append(u, c)) = l + 1 - n
          /\ Append(u, c)[l + 1 - n] = c /\ \A i \in 1 .. l - n : Append(u, c)[i] = u[i]
      BY <3>1, <3>2
    <3> QED BY <3>2, <3>3 DEF u
  <2>4. ASSUME NEW i \in 1 .. l + 1 - n PROVE s[i] = t[i]
    <3>1. CASE i = l + 1 - n
      <4>1. n + i = l + 1
        BY <1>1, <1>2, <3>1
      <4> QED BY <1>1, <2>2, <2>3, <3>1, <4>1
    <3>2. CASE i # l + 1 - n
      <4>1. i \in 1 .. l - n /\ n + i \in 1 .. l
        BY <1>1, <1>2, <3>2
      <4> QED BY <1>1, <2>2, <2>3, <4>1
    <3> QED BY <3>1, <3>2
  <2>5. s = t
    <3> HIDE DEF s, t
    <3> QED BY <2>2, <2>3, <2>4, SeqEqual
  <2> QED BY <1>4, <2>1, <2>5
<1> QED BY <1>4, <1>5, <1>6, <1>7, <1>8 DEF q
\* The beginnings of a path.
LEMMA Beginnings ==
  ASSUME NEW q \in Seq(Nat)
  PROVE  /\ SubSeq(q, 1, 0) = << >> /\ SubSeq(q, 1, Len(q)) = q
         /\ \A n \in 1 .. Len(q) : /\ SubSeq(q, 1, n) \in Seq(Nat) /\ SubSeq(q, 1, n - 1) \in Seq(Nat)
                                   /\ SubSeq(q, 1, n) = Append(SubSeq(q, 1, n - 1), q[n])
                                   /\ q[n] \in Nat
<1>1. SubSeq(q, 1, 0) = << >>
  BY SubSeqEmpty
<1>2. SubSeq(q, 1, Len(q)) = q
  BY SubSeqFull
<1>3. ASSUME NEW n \in 0 .. Len(q)
      PROVE  /\ SubSeq(q, 1, n) \in Seq(Nat) /\ Len(SubSeq(q, 1, n)) = n
             /\ \A i \in 1 .. n : SubSeq(q, 1, n)[i] = q[i]
  <2>1. 1 \in Int /\ n \in Int /\ \A i \in 1 .. n : q[i] \in Nat
    OBVIOUS
  <2>2. /\ SubSeq(q, 1, n) \in Seq(Nat) /\ Len(SubSeq(q, 1, n)) = IF 1 <= n THEN n - 1 + 1 ELSE 0
        /\ \A i \in 1 .. n - 1 + 1 : SubSeq(q, 1, n)[i] = q[1 + i - 1]
    BY <2>1, SubSeqProperties
  <2>3. n - 1 + 1 = n /\ (IF 1 <= n THEN n - 1 + 1 ELSE 0) = n /\ \A i \in 1 .. n : 1 + i - 1 = i
    OBVIOUS
  <2> QED BY <2>2, <2>3
<1>4. ASSUME NEW n \in 1 .. Len(q)
      PROVE  SubSeq(q, 1, n) = Append(SubSeq(q, 1, n - 1), q[n]) /\ q[n] \in Nat
  <2> DEFINE s == SubSeq(q, 1, n)
             u == SubSeq(q, 1, n - 1)
             t == Append(u, q[n])
  <2>1. n \in 0 .. Len(q) /\ n - 1 \in 0 .. Len(q) /\ q[n] \in Nat
    OBVIOUS
  <2>2. s \in Seq(Nat) /\ Len(s) = n /\ \A i \in 1 .. n : s[i] = q[i]
    BY <1>3, <2>1
  <2>3. u \in Seq(Nat) /\ Len(u) = n - 1 /\ \A i \in 1 .. n - 1 : u[i] = q[i]
    BY <1>3, <2>1
  <2> HIDE DEF s, u
  <2>4. t \in Seq(Nat) /\ Len(t) = n /\ t[n] = q[n] /\ \A i \in 1 .. n - 1 : t[i] = u[i]
    BY <2>1, <2>3
  <2> HIDE DEF t
  <2>5. \A i \in 1 .. n : i = n \/ i \in 1 .. n - 1
    OBVIOUS
  <2>6. \A i \in 1 .. n : s[i] = t[i]
    BY <2>2, <2>3, <2>4, <2>5
  <2>7. s = t
    BY <2>2, <2>4, <2>6, SeqEqual
  <2> QED BY <2>1, <2>7 DEF s, t, u
<1>5. ASSUME NEW n \in 1 .. Len(q)
      PROVE  SubSeq(q, 1, n) \in Seq(Nat) /\ SubSeq(q, 1, n - 1) \in Seq(Nat)
  <2>1. n \in 0 .. Len(q) /\ n - 1 \in 0 .. Len(q)
    OBVIOUS
  <2> QED BY <1>3, <2>1
<1> QED BY <1>1, <1>2, <1>4, <1>5

LEMMA Initial ==
  ASSUME NEW m \in Nat, NEW j \in 1 .. m
  PROVE  /\ j \in Nat /\ 1 .. j \in SUBSET (1 .. j) /\ 1 .. j # {} /\ j \in 1 .. j
         /\ (1 .. j) \ {j} = 1 .. j - 1 /\ 1 .. j \in SUBSET (1 .. m)
OBVIOUS

\* What Words reads of a path that the dictionary allows at every place: whole
\* words of the vocabulary, and the last word.
LEMMA WordsRead ==
  ASSUME NEW q \in Seq(Nat), \A i \in 1 .. Len(q) : InDictionary(SubSeq(q, 1, i))
  PROVE  Range(Words(q).done) \subseteq vocabulary /\ Words(q).open = LastWord(q)
<1> DEFINE m == Len(q)
           V == [done : Seq(Seq(Nat)), open : Seq(Nat)]
           b == [done |-> << >>, open |-> << >>]
           Op(read, c) == IF c = space_id THEN [done |-> Append(read.done, read.open), open |-> << >>]
                                          ELSE [read EXCEPT !.open = Append(@, c)]
           Body(f, s) == IF s = {} THEN b ELSE Op(f[s \ {Max(s)}], q[Max(s)])
           Iter(f) == f = [s \in SUBSET (1 .. m) |-> Body(f, s)]
           iter == CHOOSE f : Iter(f)
           h == [p \in (1 .. m) \X V |-> Op(p[2], q[p[1]])]
<1>1. m \in Nat /\ DOMAIN q = 1 .. m /\ \A i \in 1 .. m : q[i] \in Nat
  OBVIOUS
<1>2. Words(q) = iter[1 .. m]
  BY <1>1 DEF Words, FoldLeft, MapThenFoldSet
<1>3. b \in V /\ \A v \in V, c \in Nat : Op(v, c) \in V
  <2>1. b \in V
    OBVIOUS
  <2>2. ASSUME NEW v \in V, NEW c \in Nat PROVE Op(v, c) \in V
    <3>1. v.done \in Seq(Seq(Nat)) /\ v.open \in Seq(Nat)
      OBVIOUS
    <3>2. Append(v.done, v.open) \in Seq(Seq(Nat)) /\ Append(v.open, c) \in Seq(Nat) /\ << >> \in Seq(Nat)
      BY <3>1
    <3>3. ASSUME NEW o \in Seq(Nat) PROVE [v EXCEPT !.open = o] \in V
      BY <3>3
    <3> QED BY <3>1, <3>2, <3>3
  <2> QED BY <2>1, <2>2
<1> HIDE DEF Op, m, b
<1>4. h \in [(1 .. m) \X V -> V] /\ \A i \in 1 .. m, v \in V : h[<<i, v>>] = Op(v, q[i])
  <2> HIDE DEF V
  <2> QED BY <1>1, <1>3
<1>5. PICK f : FoldsSets(f, m, V, b, h)
  <2> HIDE DEF h, V
  <2> QED BY <1>1, <1>3, <1>4, FoldExists
<1> HIDE DEF h
<1>6. Iter(f)
  <2>1. ASSUME NEW s \in SUBSET (1 .. m) PROVE f[s] = Body(f, s)
    <3>1. CASE s = {}
      BY <1>5, <3>1 DEF FoldsSets
    <3>2. CASE s # {}
      <4>1. Max(s) \in 1 .. m
        BY <1>1, <3>2, MaxOf
      <4>2. s \ {Max(s)} \in SUBSET (1 .. m)
        OBVIOUS
      <4>3. f[s \ {Max(s)}] \in V /\ f[s] = h[<<Max(s), f[s \ {Max(s)}]>>]
        BY <1>5, <3>2, <4>2 DEF FoldsSets
      <4> HIDE DEF V
      <4> QED BY <1>4, <3>2, <4>1, <4>3
    <3> QED BY <3>1, <3>2
  <2> HIDE DEF Body
  <2> QED BY <1>5, <2>1 DEF FoldsSets
<1>7. Iter(iter)
  BY <1>6
<1> DEFINE P(v, n) == v \in V /\ Range(v.done) \subseteq vocabulary /\ v.open = LastWord(SubSeq(q, 1, n))
           S == {n \in Nat : P(iter[1 .. n], n)}
<1> HIDE DEF iter
<1>8. 0 \in S
  <2>1. 1 .. 0 = {} /\ {} \in SUBSET (1 .. m) /\ 0 \in Nat
    OBVIOUS
  <2>2. iter[{}] = b
    BY <1>7, <2>1
  <2>3. SubSeq(q, 1, 0) = << >> /\ LastWord(<< >>) = << >>
    BY Beginnings, LastWordAppend
  <2>4. Range(b.done) \subseteq vocabulary /\ b.open = << >>
    BY DEF b, Range
  <2> QED BY <1>3, <2>1, <2>2, <2>3, <2>4
<1>9. ASSUME NEW n \in 0 .. m - 1, n \in S PROVE n + 1 \in S
  <2>0. PICK j \in 1 .. m : j = n + 1 /\ n = j - 1 /\ n \in Nat
    BY <1>1
  <2>1. j \in Nat /\ 1 .. j \in SUBSET (1 .. j) /\ 1 .. j # {} /\ j \in 1 .. j
    BY <1>1, <2>0, Initial
  <2>2. Max(1 .. j) = j
    BY <2>1, MaxOf
  <2>3. (1 .. j) \ {j} = 1 .. n /\ 1 .. j \in SUBSET (1 .. m)
    BY <1>1, <2>0, Initial
  <2>4. iter[1 .. j] = Body(iter, 1 .. j)
    BY <1>7, <2>3
  <2>5. iter[1 .. j] = Op(iter[1 .. n], q[j])
    BY <2>1, <2>2, <2>3, <2>4
  <2> DEFINE v == iter[1 .. n]
             u == Op(v, q[j])
             p == SubSeq(q, 1, n)
  <2>6. v \in V /\ Range(v.done) \subseteq vocabulary /\ v.open = LastWord(p)
    BY <1>9
  <2>7. p \in Seq(Nat) /\ SubSeq(q, 1, j) = Append(p, q[j]) /\ q[j] \in Nat
    BY <2>0, Beginnings DEF m
  <2>8. u \in V
    <3> HIDE DEF V, v
    <3> QED BY <1>3, <2>6, <2>7
  <2>9. LastWord(Append(p, q[j])) = IF q[j] = space_id THEN << >> ELSE Append(LastWord(p), q[j])
    BY <2>7, LastWordAppend
  <2> HIDE DEF v, p
  <2>10. u.open = LastWord(SubSeq(q, 1, j))
    BY <2>6, <2>7, <2>9 DEF Op
  <2>11. Range(u.done) \subseteq vocabulary
    <3>1. CASE q[j] # space_id
      <4>1. u.done = v.done
        BY <2>6, <3>1 DEF Op
      <4> QED BY <2>6, <4>1
    <3>2. CASE q[j] = space_id
      <4>1. u.done = Append(v.done, v.open)
        BY <2>6, <3>2 DEF Op
      <4>2. v.done \in Seq(Seq(Nat))
        BY <2>6
      <4>3. InDictionary(Append(p, q[j]))
        BY <2>7 DEF m
      <4>4. Front(Append(p, q[j])) = p /\ Last(Append(p, q[j])) = q[j]
        BY <2>7, AppendProps
      <4>5. v.open \in vocabulary
        BY <2>6, <3>2, <4>3, <4>4 DEF InDictionary
      <4>6. \A e \in Range(Append(v.done, v.open)) : e \in Range(v.done) \/ e = v.open
        <5> DEFINE d == v.done
        <5> HIDE DEF d
        <5>1. d \in Seq(Seq(Nat))
          BY <4>2 DEF d
        <5>2. /\ DOMAIN Append(d, v.open) = 1 .. Len(d) + 1 /\ DOMAIN d = 1 .. Len(d)
              /\ \A i \in 1 .. Len(d) + 1 :
                   Append(d, v.open)[i] = IF i = Len(d) + 1 THEN v.open ELSE d[i]
          BY <5>1
        <5>3. \A i \in 1 .. Len(d) + 1 : i = Len(d) + 1 \/ i \in 1 .. Len(d)
          BY <5>1
        <5>4. \A e \in Range(Append(d, v.open)) : e \in Range(d) \/ e = v.open
          BY <5>2, <5>3 DEF Range
        <5> QED BY <5>4 DEF d
      <4> QED BY <2>6, <4>1, <4>5, <4>6
    <3> QED BY <3>1, <3>2
  <2> HIDE DEF u, V
  <2>12. P(u, j)
    BY <2>8, <2>10, <2>11
  <2> HIDE DEF P
  <2> QED BY <2>0, <2>1, <2>5, <2>12 DEF u, v
<1>10. \A n \in S : P(iter[1 .. n], n)
  OBVIOUS
<1> HIDE DEF S
<1>11. m \in S
  <2>1. m \in 0 .. m
    BY <1>1
  <2> QED BY <1>1, <1>8, <1>9, <2>1, UpTo
<1>12. SubSeq(q, 1, m) = q
  BY Beginnings DEF m
<1> QED BY <1>2, <1>10, <1>11, <1>12
\* The dictionary has let every path of the trie pass, label by label.
DictOK ==
  ext_scorer => \A q \in DOMAIN trie : \A i \in 1 .. Len(q) : InDictionary(SubSeq(q, 1, i))

\* The beginnings of an extended path are those of the path, and itself.
LEMMA BeginningsAppend ==
  ASSUME NEW p \in Seq(Nat), NEW c \in Nat
  PROVE  /\ SubSeq(Append(p, c), 1, Len(p) + 1) = Append(p, c)
         /\ \A i \in 1 .. Len(p) : SubSeq(Append(p, c), 1, i) = SubSeq(p, 1, i)
<1> DEFINE q == Append(p, c)
<1>1. q \in Seq(Nat) /\ Len(q) = Len(p) + 1 /\ Len(p) \in Nat /\ \A i \in 1 .. Len(p) : q[i] = p[i]
  OBVIOUS
<1> HIDE DEF q
<1>2. SubSeq(q, 1, Len(p) + 1) = q
  BY <1>1, SubSeqFull
<1>3. ASSUME NEW i \in 1 .. Len(p) PROVE SubSeq(q, 1, i) = SubSeq(p, 1, i)
  <2>1. 1 \in Int /\ i \in Int /\ \A k \in 1 .. i : q[k] \in Nat /\ p[k] \in Nat /\ q[k] = p[k]
    BY <1>1
  <2>2. i - 1 + 1 = i /\ 1 <= i /\ \A k \in 1 .. i : 1 + k - 1 = k
    OBVIOUS
  <2>3. /\ SubSeq(q, 1, i) \in Seq(Nat) /\ Len(SubSeq(q, 1, i)) = i
        /\ \A k \in 1 .. i : SubSeq(q, 1, i)[k] = q[k]
    <3>1. /\ SubSeq(q, 1, i) \in Seq(Nat) /\ Len(SubSeq(q, 1, i)) = IF 1 <= i THEN i - 1 + 1 ELSE 0
          /\ \A k \in 1 .. i - 1 + 1 : SubSeq(q, 1, i)[k] = q[1 + k - 1]
      BY <2>1, SubSeqProperties
    <3> QED BY <2>2, <3>1
  <2>4. /\ SubSeq(p, 1, i) \in Seq(Nat) /\ Len(SubSeq(p, 1, i)) = i
        /\ \A k \in 1 .. i : SubSeq(p, 1, i)[k] = p[k]
    <3>1. /\ SubSeq(p, 1, i) \in Seq(Nat) /\ Len(SubSeq(p, 1, i)) = IF 1 <= i THEN i - 1 + 1 ELSE 0
          /\ \A k \in 1 .. i - 1 + 1 : SubSeq(p, 1, i)[k] = p[1 + k - 1]
      BY <2>1, SubSeqProperties
    <3> QED BY <2>2, <3>1
  <2> DEFINE s == SubSeq(q, 1, i)
             t == SubSeq(p, 1, i)
  <2>5. s \in Seq(Nat) /\ t \in Seq(Nat) /\ Len(s) = i /\ Len(t) = i /\ \A k \in 1 .. i : s[k] = t[k]
    BY <2>1, <2>3, <2>4
  <2> HIDE DEF s, t
  <2>6. s = t
    BY <2>5, SeqEqual
  <2> QED BY <2>6 DEF s, t
<1> QED BY <1>2, <1>3 DEF q

LEMMA DictStep == DecoderInv /\ DictOK /\ [Next]_vars => DictOK'
<1> SUFFICES ASSUME DecoderInv, DictOK, [Next]_vars, ext_scorer', NEW q \in DOMAIN trie',
                    NEW i \in 1 .. Len(q)
             PROVE  InDictionary(SubSeq(q, 1, i))
  BY DEF DictOK
<1>1. ext_scorer
  <2>1. ext_scorer' = ext_scorer
    BY DEF Next, TimeStep, Prune, decode, settings, vars
  <2> QED BY <2>1
<1>2. CASE q \in DOMAIN trie
  BY <1>1, <1>2 DEF DictOK
<1>3. ASSUME NEW w \in Emissions, TimeStep(w) PROVE q \in DOMAIN trie \cup Extensions(w)
  <2>1. CASE Skip(w)
    BY <2>1 DEF Skip
  <2>2. CASE Expand(w)
    <3>1. PICK late \in AfterBlank(w), parentFirst \in SUBSET Ties(w) :
            trie' = iterate_to_vec(w, late, parentFirst)
      BY <2>2 DEF Expand
    <3>2. DOMAIN trie' = DOMAIN get_path_trie(trie, Extensions(w))
      BY <3>1 DEF iterate_to_vec
    <3> QED BY <3>2 DEF get_path_trie
  <2> QED BY <1>3, <2>1, <2>2 DEF TimeStep
<1>4. ASSUME NEW w \in Emissions, q \in Extensions(w) PROVE InDictionary(SubSeq(q, 1, i))
  <2> DEFINE p == Front(q)
             c == Last(q)
  <2>1. /\ p \in prefixes /\ p \in Seq(Nat) /\ c \in Nat /\ q = Append(p, c)
        /\ Len(q) = Len(p) + 1 /\ Len(p) \in Nat /\ InDictionary(q)
    BY <1>1, <1>4, ExtensionParts
  <2>2. p \in DOMAIN trie
    BY <2>1, BeamPaths DEF DecoderInv
  <2>3. /\ SubSeq(Append(p, c), 1, Len(p) + 1) = Append(p, c)
        /\ \A k \in 1 .. Len(p) : SubSeq(Append(p, c), 1, k) = SubSeq(p, 1, k)
    <3> HIDE DEF p, c
    <3> QED BY <2>1, BeginningsAppend
  <2>4. CASE i = Len(p) + 1
    BY <2>1, <2>3, <2>4
  <2>5. CASE i # Len(p) + 1
    <3>1. i \in 1 .. Len(p)
      BY <2>1, <2>5
    <3>2. InDictionary(SubSeq(p, 1, i))
      BY <1>1, <2>2, <3>1 DEF DictOK
    <3> QED BY <2>1, <2>3, <3>1, <3>2
  <2> QED BY <2>4, <2>5
<1>5. ASSUME NEW r \in doomed, Prune(r) PROVE q \in DOMAIN trie
  BY <1>5 DEF Prune, remove
<1>6. ASSUME NEW n \in 1 .. MaxResults, decode(n) PROVE q \in DOMAIN trie
  BY <1>6 DEF decode
<1>7. CASE UNCHANGED vars
  BY <1>2, <1>7 DEF vars
<1> QED BY <1>2, <1>3, <1>4, <1>5, <1>6, <1>7 DEF Next

\* Every path of the trie consists of words of the vocabulary, each with its
\* space, and the beginning of one: no prefix that the decoder holds, revives
\* or returns leaves the dictionary.
THEOREM VocabularyKept == Spec => []WordsInVocabulary
<1>1. Init => DictOK
  <2> SUFFICES ASSUME Init, NEW q \in DOMAIN trie, NEW i \in 1 .. Len(q) PROVE FALSE
    BY DEF DictOK
  <2>1. q = << >> /\ Len(<< >>) = 0
    BY DEF Init
  <2> QED BY <2>1
<1>2. DecoderInv /\ DictOK => WordsInVocabulary
  <2> SUFFICES ASSUME DecoderInv, DictOK, ext_scorer, NEW q \in DOMAIN trie
               PROVE  /\ Range(Words(q).done) \subseteq vocabulary
                      /\ \E word \in vocabulary : IsPrefix(Words(q).open, word)
    BY DEF WordsInVocabulary
  <2>1. q \in Seq(Nat) /\ Len(q) \in Nat
    BY PathTypes DEF DecoderInv, BeamOK, TrieOK
  <2>2. \A i \in 1 .. Len(q) : InDictionary(SubSeq(q, 1, i))
    BY DEF DictOK
  <2>3. Range(Words(q).done) \subseteq vocabulary /\ Words(q).open = LastWord(q)
    BY <2>1, <2>2, WordsRead
  <2>4. \A word \in vocabulary : IsPrefix(<< >>, word)
    <3> SUFFICES ASSUME NEW word \in vocabulary PROVE IsPrefix(<< >>, word)
      OBVIOUS
    <3>1. word \in Seq(Nat) /\ << >> \in Seq(Nat)
      BY ScorerAssumption
    <3> QED BY <3>1, PrefixProps
  <2>5. vocabulary # {}
    BY ScorerAssumption
  <2>6. CASE q = << >>
    <3>1. LastWord(q) = << >>
      BY <2>1, <2>6, LastWordAppend
    <3> QED BY <2>3, <2>4, <2>5, <3>1
  <2>7. CASE q # << >>
    <3>1. InDictionary(q)
      <4>1. Len(q) \in 1 .. Len(q) /\ SubSeq(q, 1, Len(q)) = q
        BY <2>1, <2>7, Beginnings
      <4> QED BY <2>2, <4>1
    <3>2. CASE Last(q) # space_id
      BY <2>3, <3>1, <3>2 DEF InDictionary
    <3>3. CASE Last(q) = space_id
      <4>1. Front(q) \in Seq(Nat) /\ Last(q) \in Nat /\ q = Append(Front(q), Last(q))
        BY <2>1, <2>7, FrontProps
      <4>2. LastWord(Append(Front(q), Last(q))) = << >>
        BY <3>3, <4>1, LastWordAppend
      <4>3. LastWord(q) = << >>
        BY <4>1, <4>2
      <4> QED BY <2>3, <2>4, <2>5, <4>3
    <3> QED BY <3>2, <3>3
  <2> QED BY <2>3, <2>6, <2>7
<1> QED BY <1>1, <1>2, DictStep, DecoderInvariant, PTL DEF Spec
-----------------------------------------------------------------------------
(* Sums over finite sets *)

\* Of some subsets of a finite set, one has no smaller one inside.
LEMMA SmallestSet ==
  ASSUME NEW S, IsFiniteSet(S), NEW Bad \in SUBSET (SUBSET S), Bad # {}
  PROVE  \E T \in Bad : \A x \in T : T \ {x} \notin Bad
<1> DEFINE B == {Cardinality(T) : T \in Bad}
<1>1. \A T \in SUBSET S : IsFiniteSet(T) /\ Cardinality(T) \in Nat
  BY FS_Subset, FS_CardinalityType
<1>2. B \in SUBSET Nat /\ B # {}
  BY <1>1
<1>3. PICK n \in B : \A k \in B : n <= k
  BY <1>2, Smallest
<1>4. PICK T \in Bad : n = Cardinality(T)
  BY <1>3
<1>5. ASSUME NEW x \in T, T \ {x} \in Bad PROVE FALSE
  <2> DEFINE R == T \ {x}
  <2>1. IsFiniteSet(T) /\ n \in Nat
    BY <1>1, <1>2, <1>4
  <2>2. Cardinality(R) = n - 1
    BY <1>4, <2>1, FS_RemoveElement
  <2>3. n <= Cardinality(R)
    BY <1>3, <1>5
  <2> QED BY <2>1, <2>2, <2>3
<1> QED BY <1>5

\* Induction over the subsets of a finite set, with the predicate as a set.
LEMMA SetInduction ==
  ASSUME NEW S, IsFiniteSet(S), NEW P, {} \in P,
         \A T \in SUBSET S : \A x \in S \ T : T \in P => T \cup {x} \in P
  PROVE  \A T \in SUBSET S : T \in P
<1> DEFINE Bad == {T \in SUBSET S : T \notin P}
<1> SUFFICES ASSUME Bad # {} PROVE FALSE
  OBVIOUS
<1>1. Bad \in SUBSET (SUBSET S)
  OBVIOUS
<1>2. PICK T \in Bad : \A x \in T : T \ {x} \notin Bad
  <2> HIDE DEF Bad
  <2> QED BY <1>1, SmallestSet
<1>3. PICK x \in T : TRUE
  BY <1>2
<1> DEFINE R == T \ {x}
<1>4. R \in SUBSET S /\ x \in S \ R /\ R \cup {x} = T
  OBVIOUS
<1> QED BY <1>2, <1>3, <1>4

\* f adds up the values of g on the subsets of S, in whatever order.
Sums(f, S, g) ==
  /\ f \in [SUBSET S -> Nat] /\ f[{}] = 0
  /\ \A s \in SUBSET S : \A x \in s : f[s] = g[x] + f[s \ {x}]

LEMMA SumExists ==
  ASSUME NEW S, IsFiniteSet(S), NEW g \in [S -> Nat]
  PROVE  \E f : Sums(f, S, g)
<1> DEFINE P == {T \in SUBSET S : \E f : Sums(f, T, g)}
<1>1. {} \in P
  <2> DEFINE f == [s \in SUBSET {} |-> 0]
  <2>1. Sums(f, {}, g)
    BY DEF Sums
  <2> HIDE DEF f
  <2> QED BY <2>1
<1>2. ASSUME NEW T \in SUBSET S, NEW z \in S \ T, T \in P PROVE T \cup {z} \in P
  <2>1. PICK f : Sums(f, T, g)
    BY <1>2
  <2> DEFINE U == T \cup {z}
             e == [s \in SUBSET U |-> IF z \in s THEN g[z] + f[s \ {z}] ELSE f[s]]
  <2>2. \A s \in SUBSET U : s \ {z} \in SUBSET T /\ (z \notin s => s \in SUBSET T)
    OBVIOUS
  <2>3. \A s \in SUBSET T : f[s] \in Nat
    BY <2>1 DEF Sums
  <2>4. \A x \in U : g[x] \in Nat
    OBVIOUS
  <2>5. e \in [SUBSET U -> Nat] /\ e[{}] = 0
    <3>1. \A s \in SUBSET U : e[s] \in Nat
      BY <2>2, <2>3, <2>4
    <3>2. e[{}] = 0
      BY <2>1 DEF Sums
    <3> QED BY <3>1, <3>2
  <2>6. ASSUME NEW s \in SUBSET U, NEW x \in s PROVE e[s] = g[x] + e[s \ {x}]
    <3>1. CASE x = z
      <4>1. e[s \ {x}] = f[s \ {x}]
        BY <3>1
      <4> QED BY <3>1, <4>1
    <3>2. CASE x # z /\ z \in s
      <4> DEFINE r == s \ {z}
                 t == r \ {x}
      <4>1. r \in SUBSET T /\ x \in r /\ t \in SUBSET T /\ (s \ {x}) \ {z} = t /\ z \in s \ {x}
        BY <3>2
      <4>2. f[r] = g[x] + f[t]
        BY <2>1, <4>1 DEF Sums
      <4>3. e[s] = g[z] + f[r] /\ e[s \ {x}] = g[z] + f[t]
        BY <3>2, <4>1
      <4>4. f[t] \in Nat /\ g[x] \in Nat /\ g[z] \in Nat
        BY <2>3, <2>4, <4>1
      <4> HIDE DEF e, r, t
      <4> QED BY <4>2, <4>3, <4>4
    <3>3. CASE x # z /\ z \notin s
      <4>1. s \in SUBSET T /\ z \notin s \ {x}
        BY <3>3
      <4>2. e[s] = f[s] /\ e[s \ {x}] = f[s \ {x}]
        BY <3>3, <4>1
      <4> QED BY <2>1, <4>1, <4>2 DEF Sums
    <3> QED BY <3>1, <3>2, <3>3
  <2> HIDE DEF e
  <2>7. Sums(e, U, g)
    BY <2>5, <2>6 DEF Sums
  <2>8. U \in SUBSET S
    OBVIOUS
  <2> QED BY <2>7, <2>8
<1>3. S \in SUBSET S /\ (S \in P => \E f : Sums(f, S, g))
  OBVIOUS
<1> HIDE DEF P
<1>4. S \in P
  BY <1>1, <1>2, <1>3, SetInduction
<1> QED BY <1>3, <1>4

\* SumFunction adds up the values of a function, whatever it chooses first.
LEMMA SumIs ==
  ASSUME NEW S, IsFiniteSet(S), NEW g \in [S -> Nat], NEW f, Sums(f, S, g)
  PROVE  SumFunction(g) = f[S] /\ SumFunction(g) \in Nat
<1> DEFINE Body(h, s) == IF s = {} THEN 0
                         ELSE LET x == CHOOSE x \in s : TRUE IN g[x] + h[s \ {x}]
           Iter(h) == h = [s \in SUBSET S |-> Body(h, s)]
           iter == CHOOSE h : Iter(h)
<1>1. DOMAIN g = S
  OBVIOUS
<1>2. SumFunction(g) = iter[S]
  BY <1>1 DEF SumFunction, SumFunctionOnSet, FoldFunctionOnSet, MapThenFoldSet
<1>3. \A s : s # {} => (CHOOSE x \in s : TRUE) \in s
  OBVIOUS
<1>4. Iter(f)
  <2>1. ASSUME NEW s \in SUBSET S PROVE f[s] = Body(f, s)
    <3>1. CASE s = {}
      BY <3>1 DEF Sums
    <3>2. CASE s # {}
      <4>1. PICK x \in s : x = CHOOSE y \in s : TRUE
        BY <1>3, <3>2
      <4>2. f[s] = g[x] + f[s \ {x}]
        BY <4>1 DEF Sums
      <4> QED BY <3>2, <4>1, <4>2
    <3> QED BY <3>1, <3>2
  <2> HIDE DEF Body
  <2> QED BY <2>1 DEF Sums
<1>5. Iter(iter)
  BY <1>4
<1> HIDE DEF iter
<1>6. \A s \in SUBSET S : iter[s] = Body(iter, s)
  BY <1>5
<1> DEFINE Bad == {s \in SUBSET S : iter[s] # f[s]}
<1>7. ASSUME Bad # {} PROVE FALSE
  <2>1. Bad \in SUBSET (SUBSET S)
    OBVIOUS
  <2>2. PICK s \in Bad : \A x \in s : s \ {x} \notin Bad
    <3> HIDE DEF Bad
    <3> QED BY <1>7, <2>1, SmallestSet
  <2>3. s # {}
    BY <1>6 DEF Sums
  <2>4. PICK x \in s : x = CHOOSE y \in s : TRUE
    BY <1>3, <2>3
  <2>5. iter[s] = g[x] + iter[s \ {x}]
    BY <1>6, <2>3, <2>4
  <2>6. f[s] = g[x] + f[s \ {x}] /\ iter[s \ {x}] = f[s \ {x}]
    BY <2>2, <2>4 DEF Sums
  <2> QED BY <2>5, <2>6
<1>8. S \in SUBSET S
  OBVIOUS
<1>9. iter[S] = f[S] /\ f[S] \in Nat
  BY <1>7, <1>8 DEF Sums
<1> QED BY <1>2, <1>9

\* A sum is that of a part and that of the rest.
LEMMA SumParts ==
  ASSUME NEW S, IsFiniteSet(S), NEW g \in [S -> Nat], NEW A \in SUBSET S
  PROVE  LET a == [x \in A |-> g[x]]
             b == [x \in S \ A |-> g[x]]
         IN  /\ SumFunction(a) \in Nat /\ SumFunction(b) \in Nat
             /\ SumFunction(g) = SumFunction(a) + SumFunction(b)
<1> DEFINE a == [x \in A |-> g[x]]
           R == S \ A
           b == [x \in R |-> g[x]]
<1>1. IsFiniteSet(A) /\ IsFiniteSet(R) /\ R \in SUBSET S /\ a \in [A -> Nat] /\ b \in [R -> Nat]
  BY FS_Subset
<1>2. PICK f : Sums(f, S, g)
  BY SumExists
<1>3. ASSUME NEW T \in SUBSET S, NEW h, h = [x \in T |-> g[x]]
      PROVE  SumFunction(h) = f[T] /\ SumFunction(h) \in Nat
  <2> DEFINE e == [s \in SUBSET T |-> f[s]]
  <2>1. Sums(e, T, h)
    <3>1. e \in [SUBSET T -> Nat] /\ e[{}] = 0
      BY <1>2 DEF Sums
    <3>2. ASSUME NEW s \in SUBSET T, NEW x \in s PROVE e[s] = h[x] + e[s \ {x}]
      <4>1. s \in SUBSET S /\ s \ {x} \in SUBSET T /\ x \in T
        OBVIOUS
      <4>2. f[s] = g[x] + f[s \ {x}]
        BY <1>2, <4>1 DEF Sums
      <4> QED BY <1>3, <4>1, <4>2
    <3> HIDE DEF e
    <3> QED BY <3>1, <3>2 DEF Sums
  <2>2. e[T] = f[T] /\ IsFiniteSet(T) /\ h \in [T -> Nat]
    BY <1>3, FS_Subset
  <2> HIDE DEF e
  <2> QED BY <2>1, <2>2, SumIs
<1> DEFINE P == {T \in SUBSET R : f[A \cup T] = f[A] + f[T]}
<1>4. \A s \in SUBSET S : f[s] \in Nat
  BY <1>2 DEF Sums
<1>5. {} \in P
  <2>1. f[{}] = 0 /\ A \cup {} = A /\ f[A] \in Nat
    BY <1>2, <1>4 DEF Sums
  <2> QED BY <2>1
<1>6. ASSUME NEW T \in SUBSET R, NEW x \in R \ T, T \in P PROVE T \cup {x} \in P
  <2> DEFINE U == T \cup {x}
  <2>1. /\ A \cup U \in SUBSET S /\ x \in A \cup U /\ (A \cup U) \ {x} = A \cup T
        /\ U \in SUBSET S /\ x \in U /\ U \ {x} = T /\ T \in SUBSET S /\ A \cup T \in SUBSET S
    OBVIOUS
  <2>2. f[A \cup U] = g[x] + f[A \cup T] /\ f[U] = g[x] + f[T]
    <3> HIDE DEF U
    <3> QED BY <1>2, <2>1 DEF Sums
  <2>3. f[A \cup T] = f[A] + f[T] /\ f[A] \in Nat /\ f[T] \in Nat /\ g[x] \in Nat
    BY <1>4, <1>6, <2>1
  <2>4. f[A \cup U] = f[A] + f[U]
    BY <2>2, <2>3
  <2>5. U \in SUBSET R
    OBVIOUS
  <2> QED BY <2>4, <2>5
<1>7. R \in SUBSET R /\ (R \in P => f[A \cup R] = f[A] + f[R])
  OBVIOUS
<1> HIDE DEF P
<1>8. R \in P
  <2> HIDE DEF R
  <2> QED BY <1>1, <1>5, <1>6, <1>7, SetInduction
<1>9. A \cup R = S
  OBVIOUS
<1>10. /\ SumFunction(a) = f[A] /\ SumFunction(a) \in Nat /\ SumFunction(b) = f[R]
       /\ SumFunction(b) \in Nat
  BY <1>1, <1>3
<1>11. SumFunction(g) = f[S]
  BY <1>2, SumIs
<1> QED BY <1>7, <1>8, <1>9, <1>10, <1>11

\* h maps S onto T, one to one, and k has at h[x] the value c * g[x].
Scales(h, S, g, T, k, c) ==
  /\ g \in [S -> Nat] /\ k \in [T -> Nat] /\ h \in [S -> T] /\ c \in Nat
  /\ \A x, y \in S : h[x] = h[y] => x = y
  /\ \A y \in T : \E x \in S : y = h[x]
  /\ \A x \in S : k[h[x]] = c * g[x]

\* A sum over the image of a set, each value a multiple of the one it comes from.
LEMMA SumScaled ==
  ASSUME NEW S, IsFiniteSet(S), NEW g, NEW T, NEW k, NEW h, NEW c, Scales(h, S, g, T, k, c)
  PROVE  SumFunction(k) = c * SumFunction(g) /\ SumFunction(g) \in Nat
<1> USE DEF Scales
<1> DEFINE Im(A) == {h[x] : x \in A}
<1>1. Im(S) = T
  OBVIOUS
<1>2. IsFiniteSet(T)
  <2>1. h \in Surjection(S, T)
    BY DEF Surjection
  <2> QED BY <2>1, FS_Surjection
<1>3. PICK f : Sums(f, S, g)
  BY SumExists
<1>4. PICK e : Sums(e, T, k)
  BY <1>2, SumExists
<1> DEFINE P == {A \in SUBSET S : e[Im(A)] = c * f[A]}
<1>5. {} \in P
  <2>1. Im({}) = {} /\ c * 0 = 0
    OBVIOUS
  <2> QED BY <1>3, <1>4, <2>1 DEF Sums
<1>6. ASSUME NEW A \in SUBSET S, NEW x \in S \ A, A \in P PROVE A \cup {x} \in P
  <2> DEFINE B == A \cup {x}
  <2>1. Im(B) \in SUBSET T /\ h[x] \in Im(B) /\ Im(B) \ {h[x]} = Im(A)
    OBVIOUS
  <2>2. B \in SUBSET S /\ x \in B /\ B \ {x} = A
    OBVIOUS
  <2>3. e[Im(B)] = k[h[x]] + e[Im(A)]
    <3>1. PICK s : s = Im(B)
      OBVIOUS
    <3>2. PICK y : y = h[x]
      OBVIOUS
    <3>3. s \in SUBSET T /\ y \in s /\ s \ {y} = Im(A)
      BY <2>1, <3>1, <3>2
    <3> HIDE DEF Im
    <3>4. e[s] = k[y] + e[s \ {y}]
      BY <1>4, <3>3 DEF Sums
    <3> QED BY <3>1, <3>2, <3>3, <3>4, Zenon
  <2>4. f[B] = g[x] + f[A] /\ f[A] \in Nat /\ g[x] \in Nat
    <3> HIDE DEF B
    <3> QED BY <1>3, <2>2 DEF Sums
  <2>5. e[Im(A)] = c * f[A] /\ k[h[x]] = c * g[x]
    BY <1>6
  <2>6. \A u, v \in Nat : c * u + c * v = c * (u + v)
    OBVIOUS
  <2>7. e[Im(B)] = c * f[B]
    <3> HIDE DEF Im, B
    <3> QED BY <2>3, <2>4, <2>5, <2>6
  <2> QED BY <2>2, <2>7
<1>7. S \in SUBSET S /\ (S \in P => e[Im(S)] = c * f[S])
  OBVIOUS
<1> HIDE DEF P
<1>8. S \in P
  BY <1>5, <1>6, <1>7, SetInduction
<1>9. SumFunction(g) = f[S] /\ SumFunction(g) \in Nat
  BY <1>3, SumIs
<1>10. SumFunction(k) = e[T]
  BY <1>2, <1>4, SumIs
<1> QED BY <1>1, <1>7, <1>8, <1>9, <1>10

-----------------------------------------------------------------------------
(* Folds, position by position *)

\* c is what a fold has after each of m positions.
Chain(c, m, V, b, h) ==
  /\ c \in [0 .. m -> V] /\ c[0] = b
  /\ \A j \in 1 .. m : c[j] = h[<<j, c[j - 1]>>]

\* The chain of a function on sets that takes off the largest position.
LEMMA FoldChain ==
  ASSUME NEW m \in Nat, NEW V, NEW b \in V, NEW h \in [(1 .. m) \X V -> V], NEW it, it[{}] = b,
         \A s \in SUBSET (1 .. m) : s # {} /\ it[s \ {Max(s)}] \in V =>
           it[s] = h[<<Max(s), it[s \ {Max(s)}]>>]
  PROVE  Chain([j \in 0 .. m |-> it[1 .. j]], m, V, b, h)
<1>0. ASSUME NEW j \in 1 .. m, it[1 .. j - 1] \in V
      PROVE  it[1 .. j] = h[<<j, it[1 .. j - 1]>>] /\ it[1 .. j] \in V
  <2>1. /\ j \in Nat /\ 1 .. j \in SUBSET (1 .. j) /\ 1 .. j # {} /\ j \in 1 .. j
        /\ (1 .. j) \ {j} = 1 .. j - 1 /\ 1 .. j \in SUBSET (1 .. m)
    BY Initial
  <2>2. Max(1 .. j) = j
    BY <2>1, MaxOf
  <2>3. it[1 .. j] = h[<<j, it[1 .. j - 1]>>]
    BY <1>0, <2>1, <2>2
  <2>4. <<j, it[1 .. j - 1]>> \in (1 .. m) \X V
    BY <1>0
  <2> QED BY <2>3, <2>4
<1> DEFINE S == {n \in Nat : it[1 .. n] \in V}
<1>1. 0 \in S
  <2>1. 1 .. 0 = {} /\ 0 \in Nat
    OBVIOUS
  <2> QED BY <2>1
<1>2. ASSUME NEW n \in 0 .. m - 1, n \in S PROVE n + 1 \in S
  <2>1. PICK j \in 1 .. m : j = n + 1 /\ n = j - 1 /\ n + 1 \in Nat
    OBVIOUS
  <2>2. it[1 .. j - 1] \in V
    BY <1>2, <2>1
  <2> QED BY <1>0, <2>1, <2>2
<1>3. \A n \in S : it[1 .. n] \in V
  OBVIOUS
<1> HIDE DEF S
<1>4. \A n \in 0 .. m : n \in S
  BY <1>1, <1>2, UpTo
<1> DEFINE c == [j \in 0 .. m |-> it[1 .. j]]
<1>5. c \in [0 .. m -> V]
  BY <1>3, <1>4
<1>6. c[0] = b
  <2>1. 1 .. 0 = {} /\ 0 \in 0 .. m
    OBVIOUS
  <2> QED BY <2>1
<1>7. ASSUME NEW j \in 1 .. m PROVE c[j] = h[<<j, c[j - 1]>>]
  <2>1. j \in 0 .. m /\ j - 1 \in 0 .. m
    OBVIOUS
  <2>2. it[1 .. j - 1] \in V
    BY <1>3, <1>4, <2>1
  <2> QED BY <1>0, <2>1, <2>2
<1> HIDE DEF c
<1>8. Chain(c, m, V, b, h)
  BY <1>5, <1>6, <1>7 DEF Chain
<1> QED BY <1>8 DEF c

\* Chains whose steps agree have the same values.
LEMMA ChainSame ==
  ASSUME NEW m \in Nat, NEW n \in Nat, m <= n, NEW V, NEW b, NEW h, NEW k, NEW c, NEW d,
         Chain(c, m, V, b, h), Chain(d, n, V, b, k),
         \A j \in 1 .. m : \A v \in V : h[<<j, v>>] = k[<<j, v>>]
  PROVE  \A j \in 0 .. m : c[j] = d[j]
<1> DEFINE S == {j \in 0 .. m : c[j] = d[j]}
<1>1. 0 \in S
  BY DEF Chain
<1>2. ASSUME NEW i \in 0 .. m - 1, i \in S PROVE i + 1 \in S
  <2>1. PICK j \in 1 .. m : j = i + 1 /\ i = j - 1 /\ j \in 1 .. n /\ j - 1 \in 0 .. m /\ j \in 0 .. m
    OBVIOUS
  <2>2. c[j - 1] = d[j - 1] /\ c[j - 1] \in V
    BY <1>2, <2>1 DEF Chain
  <2>3. c[j] = h[<<j, c[j - 1]>>] /\ d[j] = k[<<j, d[j - 1]>>]
    BY <2>1 DEF Chain
  <2>4. c[j] = d[j]
    BY <2>2, <2>3
  <2> QED BY <2>1, <2>4
<1>3. \A j \in S : c[j] = d[j]
  OBVIOUS
<1> HIDE DEF S
<1> QED BY <1>1, <1>2, <1>3, UpTo
-----------------------------------------------------------------------------
(* Alignments *)

\* One row of the fold of Collapse.
CollapseStep(a) ==
  [p \in (1 .. Len(a)) \X Seq(Classes) |->
     IF a[p[1]] = blank_id \/ (p[1] > 1 /\ a[p[1] - 1] = a[p[1]]) THEN p[2]
                                                                 ELSE Append(p[2], a[p[1]])]

LEMMA CollapseChain ==
  ASSUME NEW a \in Seq(Classes)
  PROVE  \E c : Chain(c, Len(a), Seq(Classes), << >>, CollapseStep(a)) /\ Collapse(a) = c[Len(a)]
<1> DEFINE m == Len(a)
           V == Seq(Classes)
           Op(v, i) == IF a[i] = blank_id \/ (i > 1 /\ a[i - 1] = a[i]) THEN v ELSE Append(v, a[i])
           at == [i \in 1 .. m |-> i]
           Body(f, s) == IF s = {} THEN << >> ELSE Op(f[s \ {Max(s)}], at[Max(s)])
           Iter(f) == f = [s \in SUBSET (1 .. m) |-> Body(f, s)]
           iter == CHOOSE f : Iter(f)
           h == CollapseStep(a)
<1>1. m \in Nat /\ DOMAIN a = 1 .. m /\ \A i \in 1 .. m : a[i] \in Classes
  OBVIOUS
<1>2. Collapse(a) = iter[1 .. m]
  <2>1. DOMAIN at = 1 .. m
    OBVIOUS
  <2> QED BY <1>1, <2>1 DEF Collapse, FoldLeftDomain, FoldLeft, MapThenFoldSet
<1>3. << >> \in V /\ \A i \in 1 .. m, v \in V : Op(v, i) \in V /\ at[i] = i
  BY <1>1
<1>4. h \in [(1 .. m) \X V -> V] /\ \A i \in 1 .. m, v \in V : h[<<i, v>>] = Op(v, i)
  BY <1>3 DEF CollapseStep
<1> HIDE DEF Op, m, h, V, at
<1>5. PICK f : FoldsSets(f, m, V, << >>, h)
  BY <1>1, <1>3, <1>4, FoldExists
<1>6. ASSUME NEW s \in SUBSET (1 .. m), s # {}
      PROVE  Max(s) \in 1 .. m /\ s \ {Max(s)} \in SUBSET (1 .. m)
  BY <1>1, <1>6, MaxOf
<1>7. Iter(f)
  <2>1. ASSUME NEW s \in SUBSET (1 .. m) PROVE f[s] = Body(f, s)
    <3>1. CASE s = {}
      BY <1>5, <3>1 DEF FoldsSets
    <3>2. CASE s # {}
      <4>1. f[s \ {Max(s)}] \in V /\ f[s] = h[<<Max(s), f[s \ {Max(s)}]>>]
        BY <1>5, <1>6, <3>2 DEF FoldsSets
      <4>2. PICK x : x = Max(s)
        OBVIOUS
      <4>3. PICK v : v = f[s \ {x}]
        OBVIOUS
      <4>4. x \in 1 .. m /\ v \in V /\ at[x] = x /\ f[s] = h[<<x, v>>]
        BY <1>3, <1>6, <3>2, <4>1, <4>2, <4>3, Zenon
      <4>5. f[s] = Op(v, x)
        BY <1>4, <4>4
      <4> QED BY <3>2, <4>2, <4>3, <4>4, <4>5, Zenon
    <3> QED BY <3>1, <3>2
  <2> HIDE DEF Body
  <2> QED BY <1>5, <2>1 DEF FoldsSets
<1>8. Iter(iter)
  BY <1>7
<1> HIDE DEF iter
<1>9. iter[{}] = << >>
  <2>1. {} \in SUBSET (1 .. m)
    OBVIOUS
  <2> QED BY <1>8, <2>1
<1>10. \A s \in SUBSET (1 .. m) : s # {} /\ iter[s \ {Max(s)}] \in V =>
         iter[s] = h[<<Max(s), iter[s \ {Max(s)}]>>]
  <2> SUFFICES ASSUME NEW s \in SUBSET (1 .. m), s # {}, iter[s \ {Max(s)}] \in V
               PROVE  iter[s] = h[<<Max(s), iter[s \ {Max(s)}]>>]
    OBVIOUS
  <2>1. iter[s] = Body(iter, s)
    BY <1>8
  <2>2. PICK x : x = Max(s)
    OBVIOUS
  <2>3. PICK v : v = iter[s \ {x}]
    OBVIOUS
  <2>4. x \in 1 .. m /\ v \in V /\ at[x] = x
    BY <1>3, <1>6, <2>2, <2>3, Zenon
  <2>5. iter[s] = Op(v, x)
    BY <2>1, <2>2, <2>3, <2>4, Zenon
  <2>6. iter[s] = h[<<x, v>>]
    BY <1>4, <2>4, <2>5
  <2> QED BY <2>2, <2>3, <2>6, Zenon
<1> DEFINE c == [j \in 0 .. m |-> iter[1 .. j]]
<1>11. Chain(c, m, V, << >>, h)
  <2> HIDE DEF Iter, Body
  <2> QED BY <1>1, <1>3, <1>4, <1>9, <1>10, FoldChain
<1>12. c[m] = iter[1 .. m]
  BY <1>1
<1> HIDE DEF c
<1> QED BY <1>2, <1>11, <1>12 DEF m, V, h

\* The weight of an alignment in the rows rs.
WeightOf(rs, a) == FoldLeftDomain(LAMBDA weight, i : weight * rs[i][a[i]], 1, a)

WeightStep(rs, a) == [p \in (1 .. Len(a)) \X Nat |-> p[2] * rs[p[1]][a[p[1]]]]

LEMMA WeightChain ==
  ASSUME NEW a \in Seq(Classes), NEW rs, \A i \in 1 .. Len(a) : rs[i] \in [Classes -> Nat]
  PROVE  \E c : Chain(c, Len(a), Nat, 1, WeightStep(rs, a)) /\ WeightOf(rs, a) = c[Len(a)]
<1> DEFINE m == Len(a)
           V == Nat
           Op(v, i) == v * rs[i][a[i]]
           at == [i \in 1 .. m |-> i]
           Body(f, s) == IF s = {} THEN 1 ELSE Op(f[s \ {Max(s)}], at[Max(s)])
           Iter(f) == f = [s \in SUBSET (1 .. m) |-> Body(f, s)]
           iter == CHOOSE f : Iter(f)
           h == WeightStep(rs, a)
<1>1. m \in Nat /\ DOMAIN a = 1 .. m /\ \A i \in 1 .. m : rs[i][a[i]] \in Nat
  OBVIOUS
<1>2. WeightOf(rs, a) = iter[1 .. m]
  <2>1. DOMAIN at = 1 .. m
    OBVIOUS
  <2> QED BY <1>1, <2>1 DEF WeightOf, FoldLeftDomain, FoldLeft, MapThenFoldSet
<1>3. 1 \in V /\ \A i \in 1 .. m, v \in V : Op(v, i) \in V /\ at[i] = i
  <2>1. \A x, y \in Nat : x * y \in Nat
    OBVIOUS
  <2> QED BY <1>1, <2>1
<1>4. h \in [(1 .. m) \X V -> V] /\ \A i \in 1 .. m, v \in V : h[<<i, v>>] = Op(v, i)
  BY <1>3 DEF WeightStep
<1> HIDE DEF Op, m, h, V, at
<1>5. PICK f : FoldsSets(f, m, V, 1, h)
  BY <1>1, <1>3, <1>4, FoldExists
<1>6. ASSUME NEW s \in SUBSET (1 .. m), s # {}
      PROVE  Max(s) \in 1 .. m /\ s \ {Max(s)} \in SUBSET (1 .. m)
  BY <1>1, <1>6, MaxOf
<1>7. Iter(f)
  <2>1. ASSUME NEW s \in SUBSET (1 .. m) PROVE f[s] = Body(f, s)
    <3>1. CASE s = {}
      BY <1>5, <3>1 DEF FoldsSets
    <3>2. CASE s # {}
      <4>1. f[s \ {Max(s)}] \in V /\ f[s] = h[<<Max(s), f[s \ {Max(s)}]>>]
        BY <1>5, <1>6, <3>2 DEF FoldsSets
      <4>2. PICK x : x = Max(s)
        OBVIOUS
      <4>3. PICK v : v = f[s \ {x}]
        OBVIOUS
      <4>4. x \in 1 .. m /\ v \in V /\ at[x] = x /\ f[s] = h[<<x, v>>]
        BY <1>3, <1>6, <3>2, <4>1, <4>2, <4>3, Zenon
      <4>5. f[s] = Op(v, x)
        BY <1>4, <4>4
      <4> QED BY <3>2, <4>2, <4>3, <4>4, <4>5, Zenon
    <3> QED BY <3>1, <3>2
  <2> HIDE DEF Body
  <2> QED BY <1>5, <2>1 DEF FoldsSets
<1>8. Iter(iter)
  BY <1>7
<1> HIDE DEF iter
<1>9. iter[{}] = 1
  <2>1. {} \in SUBSET (1 .. m)
    OBVIOUS
  <2> QED BY <1>8, <2>1
<1>10. \A s \in SUBSET (1 .. m) : s # {} /\ iter[s \ {Max(s)}] \in V =>
         iter[s] = h[<<Max(s), iter[s \ {Max(s)}]>>]
  <2> SUFFICES ASSUME NEW s \in SUBSET (1 .. m), s # {}, iter[s \ {Max(s)}] \in V
               PROVE  iter[s] = h[<<Max(s), iter[s \ {Max(s)}]>>]
    OBVIOUS
  <2>1. iter[s] = Body(iter, s)
    BY <1>8
  <2>2. PICK x : x = Max(s)
    OBVIOUS
  <2>3. PICK v : v = iter[s \ {x}]
    OBVIOUS
  <2>4. x \in 1 .. m /\ v \in V /\ at[x] = x
    BY <1>3, <1>6, <2>2, <2>3, Zenon
  <2>5. iter[s] = Op(v, x)
    BY <2>1, <2>2, <2>3, <2>4, Zenon
  <2>6. iter[s] = h[<<x, v>>]
    BY <1>4, <2>4, <2>5
  <2> QED BY <2>2, <2>3, <2>6, Zenon
<1> DEFINE c == [j \in 0 .. m |-> iter[1 .. j]]
<1>11. Chain(c, m, V, 1, h)
  <2> HIDE DEF Iter, Body
  <2> QED BY <1>1, <1>3, <1>4, <1>9, <1>10, FoldChain
<1>12. c[m] = iter[1 .. m]
  BY <1>1
<1> HIDE DEF c
<1> QED BY <1>2, <1>11, <1>12 DEF m, V, h
\* Steps that are the same for the first n positions.
Agree(g, h, n, V) == \A j \in 1 .. n : \A v \in V : g[<<j, v>>] = h[<<j, v>>]

\* Where two such chains are the same, and how a chain goes on.
LEMMA ChainPart ==
  ASSUME NEW m \in Nat, NEW n \in Nat, m <= n, NEW V, NEW b, NEW g, NEW h, NEW c, NEW d,
         Chain(c, m, V, b, g), Chain(d, n, V, b, h), Agree(g, h, m, V)
  PROVE  c[m] \in V /\ d[m] = c[m]
<1>1. m \in 0 .. m
  OBVIOUS
<1>2. \A j \in 0 .. m : c[j] = d[j]
  BY ChainSame DEF Agree
<1> QED BY <1>1, <1>2 DEF Chain

LEMMA ChainEnd ==
  ASSUME NEW n \in Nat, NEW V, NEW b, NEW h, NEW d, Chain(d, n + 1, V, b, h)
  PROVE  d[n + 1] = h[<<n + 1, d[n]>>]
<1>1. n + 1 \in 1 .. n + 1 /\ (n + 1) - 1 = n
  OBVIOUS
<1>2. d[n + 1] = h[<<n + 1, d[(n + 1) - 1]>>]
  BY <1>1 DEF Chain
<1> QED BY <1>1, <1>2

\* An alignment with one more class.
LEMMA CollapseAppend ==
  ASSUME NEW a \in Seq(Classes), NEW x \in Classes
  PROVE  /\ Collapse(a) \in Seq(Classes) /\ Collapse(<< >>) = << >>
         /\ Collapse(Append(a, x)) = IF x = blank_id \/ (a # << >> /\ Last(a) = x)
                                     THEN Collapse(a) ELSE Append(Collapse(a), x)
<1> DEFINE n == Len(a)
           e == Append(a, x)
           V == Seq(Classes)
<1>1. /\ n \in Nat /\ e \in Seq(Classes) /\ Len(e) = n + 1 /\ e[n + 1] = x
      /\ \A i \in 1 .. n : e[i] = a[i]
  OBVIOUS
<1>2. PICK c : Chain(c, n, V, << >>, CollapseStep(a)) /\ Collapse(a) = c[n]
  BY CollapseChain
<1>3. PICK d : Chain(d, n + 1, V, << >>, CollapseStep(e)) /\ Collapse(e) = d[n + 1]
  <2> HIDE DEF e, n
  <2>1. PICK d : Chain(d, Len(e), V, << >>, CollapseStep(e)) /\ Collapse(e) = d[Len(e)]
    BY <1>1, CollapseChain
  <2> QED BY <1>1, <2>1
<1>4. \A j \in 1 .. n : \A v \in V : CollapseStep(a)[<<j, v>>] = CollapseStep(e)[<<j, v>>]
  <2> SUFFICES ASSUME NEW j \in 1 .. n, NEW v \in V
               PROVE  CollapseStep(a)[<<j, v>>] = CollapseStep(e)[<<j, v>>]
    OBVIOUS
  <2>1. j \in 1 .. n + 1 /\ (j > 1 => j - 1 \in 1 .. n) /\ e[j] = a[j]
    BY <1>1
  <2>2. j > 1 => e[j - 1] = a[j - 1]
    BY <1>1, <2>1
  <2> HIDE DEF e
  <2> QED BY <1>1, <2>1, <2>2 DEF CollapseStep
<1>5. Collapse(a) \in V /\ d[n + 1] = CollapseStep(e)[<<n + 1, Collapse(a)>>]
  <2>1. Agree(CollapseStep(a), CollapseStep(e), n, V)
    BY <1>4 DEF Agree
  <2>2. n + 1 \in Nat /\ n <= n + 1
    BY <1>1
  <2>3. c[n] \in V /\ d[n] = c[n]
    <3> HIDE DEF e, n, V
    <3> QED BY <1>1, <1>2, <1>3, <2>1, <2>2, ChainPart
  <2>4. d[n + 1] = CollapseStep(e)[<<n + 1, d[n]>>]
    <3> HIDE DEF e, n, V
    <3> QED BY <1>1, <1>3, ChainEnd
  <2> QED BY <1>2, <2>3, <2>4
<1>7. CollapseStep(e)[<<n + 1, Collapse(a)>>] = IF x = blank_id \/ (a # << >> /\ Last(a) = x)
                                         THEN Collapse(a) ELSE Append(Collapse(a), x)
  <2>1. <<n + 1, Collapse(a)>> \in (1 .. n + 1) \X V
    BY <1>1, <1>5
  <2>2. CollapseStep(e)[<<n + 1, Collapse(a)>>] =
          IF e[n + 1] = blank_id \/ (n + 1 > 1 /\ e[(n + 1) - 1] = e[n + 1]) THEN Collapse(a)
                                                                        ELSE Append(Collapse(a), e[n + 1])
    <3> HIDE DEF e
    <3> QED BY <1>1, <2>1 DEF CollapseStep
  <2>3. (n + 1 > 1 <=> a # << >>) /\ (n + 1) - 1 = n /\ (a # << >> => e[n] = Last(a))
    BY <1>1 DEF Last
  <2> HIDE DEF e, n
  <2> QED BY <1>1, <2>2, <2>3
<1>8. Collapse(<< >>) = << >>
  <2>1. << >> \in Seq(Classes) /\ Len(<< >>) = 0
    OBVIOUS
  <2>2. PICK k : Chain(k, 0, V, << >>, CollapseStep(<< >>)) /\ Collapse(<< >>) = k[0]
    BY <2>1, CollapseChain
  <2> QED BY <2>2 DEF Chain
<1> QED BY <1>3, <1>5, <1>7, <1>8

LEMMA WeightAppend ==
  ASSUME NEW a \in Seq(Classes), NEW x \in Classes, NEW rs \in Seq([Classes -> Nat]),
         NEW w \in [Classes -> Nat], Len(a) = Len(rs)
  PROVE  /\ WeightOf(rs, a) \in Nat /\ WeightOf(<< >>, << >>) = 1
         /\ WeightOf(Append(rs, w), Append(a, x)) = w[x] * WeightOf(rs, a)
<1> DEFINE n == Len(a)
           e == Append(a, x)
           r == Append(rs, w)
<1>1. /\ n \in Nat /\ e \in Seq(Classes) /\ Len(e) = n + 1 /\ e[n + 1] = x
      /\ \A i \in 1 .. n : e[i] = a[i]
  OBVIOUS
<1>2. /\ r[n + 1] = w /\ (\A i \in 1 .. n : r[i] = rs[i] /\ rs[i] \in [Classes -> Nat])
      /\ \A i \in 1 .. n + 1 : r[i] \in [Classes -> Nat]
  <2> DEFINE R == [Classes -> Nat]
  <2>1. rs \in Seq(R) /\ w \in R
    OBVIOUS
  <2> HIDE DEF R
  <2>2. /\ r[n + 1] = w /\ (\A i \in 1 .. n : r[i] = rs[i] /\ rs[i] \in R)
        /\ \A i \in 1 .. n + 1 : r[i] \in R
    BY <1>1, <2>1
  <2> QED BY <2>2 DEF R
<1> HIDE DEF e, n, r
<1>3. PICK c : Chain(c, n, Nat, 1, WeightStep(rs, a)) /\ WeightOf(rs, a) = c[n]
  BY <1>2, WeightChain DEF n
<1>4. PICK d : Chain(d, n + 1, Nat, 1, WeightStep(r, e)) /\ WeightOf(r, e) = d[n + 1]
  <2>1. PICK d : Chain(d, Len(e), Nat, 1, WeightStep(r, e)) /\ WeightOf(r, e) = d[Len(e)]
    BY <1>1, <1>2, WeightChain
  <2> QED BY <1>1, <2>1
<1>5. \A j \in 1 .. n : \A v \in Nat : WeightStep(rs, a)[<<j, v>>] = WeightStep(r, e)[<<j, v>>]
  <2> SUFFICES ASSUME NEW j \in 1 .. n, NEW v \in Nat
               PROVE  WeightStep(rs, a)[<<j, v>>] = WeightStep(r, e)[<<j, v>>]
    OBVIOUS
  <2>1. j \in 1 .. n + 1 /\ e[j] = a[j] /\ r[j] = rs[j]
    BY <1>1, <1>2
  <2> QED BY <1>1, <2>1 DEF WeightStep, n
<1>6. WeightOf(rs, a) \in Nat /\ d[n + 1] = WeightStep(r, e)[<<n + 1, WeightOf(rs, a)>>]
  <2> DEFINE V == Nat
             b == 1
             g == WeightStep(rs, a)
             h == WeightStep(r, e)
  <2>1. Chain(c, n, V, b, g) /\ Chain(d, n + 1, V, b, h)
    BY <1>3, <1>4
  <2>2. \A j \in 1 .. n : \A v \in V : g[<<j, v>>] = h[<<j, v>>]
    BY <1>5
  <2>3. n \in Nat
    BY <1>1
  <2>4. n + 1 \in Nat /\ n <= n + 1
    BY <1>1
  <2>5. Agree(g, h, n, V)
    BY <2>2 DEF Agree
  <2> HIDE DEF V, b, g, h
  <2>6. c[n] \in V /\ d[n] = c[n]
    BY <2>1, <2>3, <2>4, <2>5, ChainPart
  <2>7. d[n + 1] = h[<<n + 1, d[n]>>]
    BY <2>1, <2>3, ChainEnd
  <2> QED BY <1>3, <2>6, <2>7 DEF V, h
<1>8. WeightStep(r, e)[<<n + 1, WeightOf(rs, a)>>] = WeightOf(rs, a) * w[x]
  <2>1. <<n + 1, WeightOf(rs, a)>> \in (1 .. n + 1) \X Nat
    BY <1>1, <1>6
  <2>2. WeightStep(r, e)[<<n + 1, WeightOf(rs, a)>>] = WeightOf(rs, a) * r[n + 1][e[n + 1]]
    BY <1>1, <2>1 DEF WeightStep
  <2> QED BY <1>1, <1>2, <2>2
<1>9. WeightOf(rs, a) * w[x] = w[x] * WeightOf(rs, a)
  <2>1. w[x] \in Nat /\ WeightOf(rs, a) \in Nat
    BY <1>6
  <2>2. \A u, v \in Nat : u * v = v * u
    OBVIOUS
  <2> QED BY <2>1, <2>2
<1>10. WeightOf(<< >>, << >>) = 1
  <2>1. << >> \in Seq(Classes) /\ Len(<< >>) = 0 /\ 1 .. 0 = {}
    OBVIOUS
  <2>2. \A i \in 1 .. Len(<< >>) : << >>[i] \in [Classes -> Nat]
    BY <2>1
  <2>3. PICK k : Chain(k, Len(<< >>), Nat, 1, WeightStep(<< >>, << >>)) /\ WeightOf(<< >>, << >>) = k[Len(<< >>)]
    BY <2>1, <2>2, WeightChain
  <2> QED BY <2>1, <2>3 DEF Chain
<1> QED BY <1>4, <1>6, <1>8, <1>9, <1>10 DEF e, r
-----------------------------------------------------------------------------
(* The words of a transcript *)

\* What Words has read, and how it reads one more label.
Readings == [done : Seq(Seq(Nat)), open : Seq(Nat)]
NothingRead == [done |-> << >>, open |-> << >>]
ReadLabel(read, c) ==
  IF c = space_id THEN [done |-> Append(read.done, read.open), open |-> << >>]
                  ELSE [read EXCEPT !.open = Append(@, c)]
WordsStep(q) == [p \in (1 .. Len(q)) \X Readings |-> ReadLabel(p[2], q[p[1]])]

LEMMA ReadLabelType ==
  /\ NothingRead \in Readings
  /\ \A v \in Readings, c \in Nat : ReadLabel(v, c) \in Readings
<1>1. NothingRead \in Readings
  BY DEF NothingRead, Readings
<1>2. ASSUME NEW v \in Readings, NEW c \in Nat PROVE ReadLabel(v, c) \in Readings
  <2>1. v.done \in Seq(Seq(Nat)) /\ v.open \in Seq(Nat)
    BY DEF Readings
  <2>2. Append(v.done, v.open) \in Seq(Seq(Nat)) /\ Append(v.open, c) \in Seq(Nat) /\ << >> \in Seq(Nat)
    BY <2>1
  <2>3. ASSUME NEW o \in Seq(Nat) PROVE [v EXCEPT !.open = o] \in Readings
    BY <2>3 DEF Readings
  <2> QED BY <2>1, <2>2, <2>3 DEF ReadLabel, Readings
<1> QED BY <1>1, <1>2

LEMMA WordsChain ==
  ASSUME NEW q \in Seq(Nat)
  PROVE  \E c : Chain(c, Len(q), Readings, NothingRead, WordsStep(q)) /\ Words(q) = c[Len(q)]
<1> DEFINE m == Len(q)
           V == Readings
           b == NothingRead
           Op(v, i) == ReadLabel(v, q[i])
           Body(f, s) == IF s = {} THEN b ELSE Op(f[s \ {Max(s)}], Max(s))
           Iter(f) == f = [s \in SUBSET (1 .. m) |-> Body(f, s)]
           iter == CHOOSE f : Iter(f)
           h == WordsStep(q)
<1>1. m \in Nat /\ DOMAIN q = 1 .. m /\ \A i \in 1 .. m : q[i] \in Nat
  OBVIOUS
<1>2. Words(q) = iter[1 .. m]
  BY <1>1 DEF Words, FoldLeft, MapThenFoldSet, ReadLabel, NothingRead
<1>3. b \in V /\ \A i \in 1 .. m, v \in V : Op(v, i) \in V
  BY <1>1, ReadLabelType
<1>4. h \in [(1 .. m) \X V -> V] /\ \A i \in 1 .. m, v \in V : h[<<i, v>>] = Op(v, i)
  <2> HIDE DEF V
  <2> QED BY <1>3 DEF WordsStep, V
<1> HIDE DEF Op, m, h, V, b
<1>5. PICK f : FoldsSets(f, m, V, b, h)
  BY <1>1, <1>3, <1>4, FoldExists
<1>6. ASSUME NEW s \in SUBSET (1 .. m), s # {}
      PROVE  Max(s) \in 1 .. m /\ s \ {Max(s)} \in SUBSET (1 .. m)
  BY <1>1, <1>6, MaxOf
<1>7. Iter(f)
  <2>1. ASSUME NEW s \in SUBSET (1 .. m) PROVE f[s] = Body(f, s)
    <3>1. CASE s = {}
      BY <1>5, <3>1 DEF FoldsSets
    <3>2. CASE s # {}
      <4>1. f[s \ {Max(s)}] \in V /\ f[s] = h[<<Max(s), f[s \ {Max(s)}]>>]
        BY <1>5, <1>6, <3>2 DEF FoldsSets
      <4>2. PICK x : x = Max(s)
        OBVIOUS
      <4>3. PICK v : v = f[s \ {x}]
        OBVIOUS
      <4>4. x \in 1 .. m /\ v \in V /\ f[s] = h[<<x, v>>]
        BY <1>3, <1>6, <3>2, <4>1, <4>2, <4>3, Zenon
      <4>5. f[s] = Op(v, x)
        BY <1>4, <4>4
      <4> QED BY <3>2, <4>2, <4>3, <4>4, <4>5, Zenon
    <3> QED BY <3>1, <3>2
  <2> HIDE DEF Body
  <2> QED BY <1>5, <2>1 DEF FoldsSets
<1>8. Iter(iter)
  BY <1>7
<1> HIDE DEF iter
<1>9. iter[{}] = b
  <2>1. {} \in SUBSET (1 .. m)
    OBVIOUS
  <2> QED BY <1>8, <2>1
<1>10. \A s \in SUBSET (1 .. m) : s # {} /\ iter[s \ {Max(s)}] \in V =>
         iter[s] = h[<<Max(s), iter[s \ {Max(s)}]>>]
  <2> SUFFICES ASSUME NEW s \in SUBSET (1 .. m), s # {}, iter[s \ {Max(s)}] \in V
               PROVE  iter[s] = h[<<Max(s), iter[s \ {Max(s)}]>>]
    OBVIOUS
  <2>1. iter[s] = Body(iter, s)
    BY <1>8
  <2>2. PICK x : x = Max(s)
    OBVIOUS
  <2>3. PICK v : v = iter[s \ {x}]
    OBVIOUS
  <2>4. x \in 1 .. m /\ v \in V
    BY <1>3, <1>6, <2>2, <2>3, Zenon
  <2>5. iter[s] = Op(v, x)
    BY <2>1, <2>2, <2>3, <2>4, Zenon
  <2>6. iter[s] = h[<<x, v>>]
    BY <1>4, <2>4, <2>5
  <2> QED BY <2>2, <2>3, <2>6, Zenon
<1> DEFINE c == [j \in 0 .. m |-> iter[1 .. j]]
<1>11. Chain(c, m, V, b, h)
  <2> HIDE DEF Iter, Body
  <2> QED BY <1>1, <1>3, <1>4, <1>9, <1>10, FoldChain
<1>12. c[m] = iter[1 .. m]
  BY <1>1
<1> HIDE DEF c
<1> QED BY <1>2, <1>11, <1>12 DEF m, V, h, b

\* Words reads a transcript label by label.
LEMMA WordsAppend ==
  ASSUME NEW p \in Seq(Nat), NEW x \in Nat
  PROVE  /\ Words(p) \in Readings /\ Words(<< >>) = NothingRead
         /\ Words(Append(p, x)) = ReadLabel(Words(p), x)
<1> DEFINE n == Len(p)
           e == Append(p, x)
<1>1. /\ n \in Nat /\ e \in Seq(Nat) /\ Len(e) = n + 1 /\ e[n + 1] = x
      /\ \A i \in 1 .. n : e[i] = p[i]
  OBVIOUS
<1> HIDE DEF e
<1>2. PICK c : Chain(c, n, Readings, NothingRead, WordsStep(p)) /\ Words(p) = c[n]
  BY WordsChain
<1> HIDE DEF n
<1>3. PICK d : Chain(d, n + 1, Readings, NothingRead, WordsStep(e)) /\ Words(e) = d[n + 1]
  <2>1. PICK d : Chain(d, Len(e), Readings, NothingRead, WordsStep(e)) /\ Words(e) = d[Len(e)]
    BY <1>1, WordsChain
  <2> QED BY <1>1, <2>1
<1>4. Agree(WordsStep(p), WordsStep(e), n, Readings)
  <2> SUFFICES ASSUME NEW j \in 1 .. n, NEW v \in Readings
               PROVE  WordsStep(p)[<<j, v>>] = WordsStep(e)[<<j, v>>]
    BY DEF Agree
  <2>1. j \in 1 .. n + 1 /\ e[j] = p[j]
    BY <1>1
  <2> QED BY <1>1, <2>1 DEF WordsStep, n
<1>5. n + 1 \in Nat /\ n <= n + 1
  BY <1>1
<1>6. c[n] \in Readings /\ d[n] = c[n]
  BY <1>1, <1>2, <1>3, <1>4, <1>5, ChainPart
<1>7. d[n + 1] = WordsStep(e)[<<n + 1, d[n]>>]
  BY <1>1, <1>3, ChainEnd
<1>8. WordsStep(e)[<<n + 1, d[n]>>] = ReadLabel(d[n], x)
  <2>1. n + 1 \in 1 .. n + 1
    BY <1>1
  <2> QED BY <1>1, <1>6, <2>1 DEF WordsStep
<1>9. Words(<< >>) = NothingRead
  <2>1. << >> \in Seq(Nat) /\ Len(<< >>) = 0
    OBVIOUS
  <2>2. PICK k : Chain(k, 0, Readings, NothingRead, WordsStep(<< >>)) /\ Words(<< >>) = k[0]
    BY <2>1, WordsChain
  <2> QED BY <2>2 DEF Chain
<1> QED BY <1>2, <1>3, <1>6, <1>7, <1>8, <1>9 DEF e
-----------------------------------------------------------------------------
(* The factors of the words *)

\* WordFactor and TimesLm, with the hot words as a parameter.
Factor(hw, words, i, spaced) ==
  LET from == IF i > max_order THEN i - max_order + 1 ELSE 1
      read == SubSeq(words, from, i)
      boost == FoldLeft(LAMBDA x, word : x * IF word \in DOMAIN hw THEN hw[word] ELSE 1, 1, read)
  IN  (IF Range(read) \subseteq vocabulary THEN BaseScore(read, i < max_order) ELSE OOV_SCORE)
        * (IF spaced THEN boost ELSE 1)

Times(hw, prob, words, n) ==
  FoldLeftDomain(LAMBDA acc, i : (acc * Factor(hw, words, i, i <= n)) \div LmUnit,
                 prob * Scale, words)

LEMMA TimesIs ==
  ASSUME NEW prob, NEW words, NEW n
  PROVE  TimesLm(prob, words, n) = Times(hot_words, prob, words, n)
BY DEF TimesLm, Times, WordFactor, Factor, FoldLeftDomain, FoldLeft, MapThenFoldSet

\* A part of a sequence depends on its positions only.
LEMMA SubSeqSame ==
  ASSUME NEW D, NEW s, NEW t, NEW m \in Nat, NEW n \in Nat, m <= n + 1,
         \A i \in m .. n : s[i] \in D /\ t[i] = s[i]
  PROVE  /\ SubSeq(s, m, n) = SubSeq(t, m, n) /\ SubSeq(s, m, n) \in Seq(D)
         /\ Len(SubSeq(s, m, n)) = n - m + 1
         /\ \A i \in 1 .. n - m + 1 : SubSeq(s, m, n)[i] = s[m + i - 1]
<1> DEFINE u == SubSeq(s, m, n)
           v == SubSeq(t, m, n)
<1>1. m \in Int /\ n \in Int /\ (IF m <= n THEN n - m + 1 ELSE 0) = n - m + 1
  OBVIOUS
<1>2. /\ u \in Seq(D) /\ Len(u) = (IF m <= n THEN n - m + 1 ELSE 0)
      /\ \A i \in 1 .. n - m + 1 : u[i] = s[m + i - 1]
  BY <1>1, SubSeqProperties
<1>3. \A i \in m .. n : t[i] \in D
  OBVIOUS
<1>4. /\ v \in Seq(D) /\ Len(v) = (IF m <= n THEN n - m + 1 ELSE 0)
      /\ \A i \in 1 .. n - m + 1 : v[i] = t[m + i - 1]
  BY <1>1, <1>3, SubSeqProperties
<1>5. \A i \in 1 .. n - m + 1 : m + i - 1 \in m .. n
  OBVIOUS
<1>6. \A i \in 1 .. n - m + 1 : u[i] = v[i]
  BY <1>2, <1>4, <1>5
<1> HIDE DEF u, v
<1>7. Len(u) = n - m + 1 /\ Len(v) = n - m + 1
  BY <1>1, <1>2, <1>4
<1>8. u = v
  BY <1>2, <1>4, <1>6, <1>7, SeqEqual
<1> QED BY <1>2, <1>7, <1>8 DEF u, v

\* The words that word i is scored after, with it.
ReadOf(words, i) == SubSeq(words, IF i > max_order THEN i - max_order + 1 ELSE 1, i)

LEMMA ReadProps ==
  ASSUME NEW words \in Seq(Seq(Nat)), NEW i \in 1 .. Len(words)
  PROVE  /\ ReadOf(words, i) \in Seq(Seq(Nat))
         /\ Len(ReadOf(words, i)) \in 0 .. max_order /\ (Bos(ReadOf(words, i)) <=> i < max_order)
         /\ \A v \in Seq(Nat) : ReadOf(Append(words, v), i) = ReadOf(words, i)
<1> DEFINE from == IF i > max_order THEN i - max_order + 1 ELSE 1
<1> DEFINE read == SubSeq(words, from, i)
<1>1. max_order \in Nat \ {0} /\ i \in Nat /\ Len(words) \in Nat
  BY ScorerAssumption
<1>2. from \in Nat \ {0} /\ from <= i /\ i - from + 1 \in 0 .. max_order
      /\ (i - from + 1 < max_order <=> i < max_order)
  BY <1>1
<1>3. \A j \in from .. i : j \in 1 .. Len(words) /\ words[j] \in Seq(Nat)
  BY <1>1, <1>2
<1>4. from <= i + 1
  BY <1>1, <1>2
<1>5. read \in Seq(Seq(Nat)) /\ Len(read) = i - from + 1
  <2> DEFINE D == Seq(Nat)
  <2>1. \A j \in from .. i : words[j] \in D /\ words[j] = words[j]
    BY <1>3
  <2>2. from \in Nat
    BY <1>2
  <2> HIDE DEF D
  <2>3. SubSeq(words, from, i) \in Seq(D) /\ Len(SubSeq(words, from, i)) = i - from + 1
    BY <1>1, <1>4, <2>1, <2>2, SubSeqSame
  <2> QED BY <2>3 DEF D
<1>6. ASSUME NEW v \in Seq(Nat) PROVE SubSeq(Append(words, v), from, i) = read
  <2> DEFINE D == Seq(Nat)
             w == Append(words, v)
  <2>1. \A j \in 1 .. Len(words) : w[j] = words[j]
    OBVIOUS
  <2> HIDE DEF w
  <2>2. \A j \in from .. i : words[j] \in D /\ w[j] = words[j]
    BY <1>3, <2>1
  <2>3. from \in Nat
    BY <1>2
  <2> HIDE DEF D
  <2>4. SubSeq(words, from, i) = SubSeq(w, from, i)
    BY <1>1, <1>4, <2>2, <2>3, SubSeqSame
  <2> QED BY <2>4 DEF w
<1>7. Bos(read) <=> i < max_order
  BY <1>2, <1>5 DEF Bos
<1> QED BY <1>2, <1>5, <1>6, <1>7 DEF ReadOf

LEMMA FactorDef ==
  ASSUME NEW hw, NEW words, NEW i, NEW spaced
  PROVE  Factor(hw, words, i, spaced) =
           (IF Range(ReadOf(words, i)) \subseteq vocabulary THEN BaseScore(ReadOf(words, i), i < max_order)
                                                           ELSE OOV_SCORE)
             * (IF spaced THEN HotBoost(hw, ReadOf(words, i)) ELSE 1)
BY DEF Factor, HotBoost, FoldLeft, MapThenFoldSet, ReadOf

LEMMA CondProbOf ==
  ASSUME NEW ngram \in Seq(Seq(Nat)), Len(ngram) \in 0 .. max_order
  PROVE  CondProb(ngram) \in Nat \ {0}
<1>1. beta \in Nat /\ \A x \in 1 .. beta : x \in Nat \ {0}
  BY ScorerAssumption
<1>2. CASE Range(ngram) \subseteq vocabulary
  <2>1. ngram \in [1 .. Len(ngram) -> vocabulary]
    BY <1>2 DEF Range
  <2>2. ngram \in BoundedSeq(vocabulary, max_order)
    BY <2>1 DEF BoundedSeq, SeqOf
  <2>3. Bos(ngram) \in BOOLEAN
    BY DEF Bos
  <2>4. CondProb(ngram) \in 1 .. beta
    BY <1>2, <2>2, <2>3, ScorerAssumption DEF CondProb
  <2> QED BY <1>1, <2>4
<1>3. CASE ~(Range(ngram) \subseteq vocabulary)
  <2>1. CondProb(ngram) \in 1 .. beta
    BY <1>3, ScorerAssumption DEF CondProb
  <2> QED BY <1>1, <2>1
<1> QED BY <1>2, <1>3

\* The factor of a word is that of get_log_cond_prob, and of the hot words.
LEMMA FactorIs ==
  ASSUME NEW hw, \A word \in DOMAIN hw : hw[word] \in Nat \ {0},
         NEW words \in Seq(Seq(Nat)), NEW i \in 1 .. Len(words), NEW spaced
  PROVE  /\ Factor(hw, words, i, spaced) =
               CondProb(ReadOf(words, i)) * (IF spaced THEN HotBoost(hw, ReadOf(words, i)) ELSE 1)
         /\ CondProb(ReadOf(words, i)) \in Nat \ {0} /\ HotBoost(hw, ReadOf(words, i)) \in Nat \ {0}
         /\ Factor(hw, words, i, spaced) \in Nat \ {0}
<1> DEFINE read == ReadOf(words, i)
<1>1. read \in Seq(Seq(Nat)) /\ Len(read) \in 0 .. max_order /\ (Bos(read) <=> i < max_order)
  BY ReadProps
<1>2. Bos(read) = (i < max_order)
  BY <1>1 DEF Bos
<1>3. CondProb(read) = IF Range(read) \subseteq vocabulary THEN BaseScore(read, i < max_order) ELSE OOV_SCORE
  BY <1>2, Zenon DEF CondProb
<1>4. Factor(hw, words, i, spaced) = CondProb(read) * (IF spaced THEN HotBoost(hw, read) ELSE 1)
  BY <1>3, FactorDef
<1>5. CondProb(read) \in Nat \ {0}
  BY <1>1, CondProbOf
<1>6. HotBoost(hw, read) \in Nat \ {0}
  BY <1>1, HotBoostType
<1>7. Factor(hw, words, i, spaced) \in Nat \ {0}
  <2>1. \A x, y \in Nat \ {0} : x * y \in Nat \ {0}
    OBVIOUS
  <2>2. (IF spaced THEN HotBoost(hw, read) ELSE 1) \in Nat \ {0}
    BY <1>6
  <2> QED BY <1>4, <1>5, <2>1, <2>2
<1> QED BY <1>4, <1>5, <1>6, <1>7
-----------------------------------------------------------------------------
(* The product of the factors *)

HotOK(hw) == \A word \in DOMAIN hw : hw[word] \in Nat \ {0}

LEMMA FactorNat ==
  ASSUME NEW hw, HotOK(hw), NEW words \in Seq(Seq(Nat)), NEW i \in 1 .. Len(words), NEW spaced
  PROVE  Factor(hw, words, i, spaced) \in Nat \ {0}
BY FactorIs DEF HotOK

TimesStep(hw, words, n) ==
  [p \in (1 .. Len(words)) \X Nat |-> (p[2] * Factor(hw, words, p[1], p[1] <= n)) \div LmUnit]

LEMMA TimesChain ==
  ASSUME NEW hw, HotOK(hw), NEW prob \in Nat,
         NEW words \in Seq(Seq(Nat)), NEW n \in Nat
  PROVE  \E c : /\ Chain(c, Len(words), Nat, prob * Scale, TimesStep(hw, words, n))
               /\ Times(hw, prob, words, n) = c[Len(words)]
<1> DEFINE m == Len(words)
           V == Nat
           Op(v, i) == (v * Factor(hw, words, i, i <= n)) \div LmUnit
           b == prob * Scale
           at == [i \in 1 .. m |-> i]
           Body(f, s) == IF s = {} THEN b ELSE Op(f[s \ {Max(s)}], at[Max(s)])
           Iter(f) == f = [s \in SUBSET (1 .. m) |-> Body(f, s)]
           iter == CHOOSE f : Iter(f)
           h == TimesStep(hw, words, n)
<1>1. m \in Nat /\ DOMAIN words = 1 .. m /\ \A i \in 1 .. m : Factor(hw, words, i, i <= n) \in Nat
  BY FactorNat
<1>2. Times(hw, prob, words, n) = iter[1 .. m]
  <2>1. DOMAIN at = 1 .. m
    OBVIOUS
  <2> QED BY <1>1, <2>1 DEF Times, FoldLeftDomain, FoldLeft, MapThenFoldSet
<1>3. b \in V /\ \A i \in 1 .. m, v \in V : Op(v, i) \in V /\ at[i] = i
  <2>1. \A x, y \in Nat : x * y \in Nat
    OBVIOUS
  <2>2. \A x \in Nat : x \div LmUnit \in Nat
    BY DivProps, ScorerAssumption
  <2>3. Scale \in Nat
    BY PowerProps, DecoderAssumption DEF Scale
  <2> QED BY <1>1, <2>1, <2>2, <2>3
<1>4. h \in [(1 .. m) \X V -> V] /\ \A i \in 1 .. m, v \in V : h[<<i, v>>] = Op(v, i)
  BY <1>3 DEF TimesStep
<1> HIDE DEF Op, m, h, V, at, b
<1>5. PICK f : FoldsSets(f, m, V, b, h)
  BY <1>1, <1>3, <1>4, FoldExists
<1>6. ASSUME NEW s \in SUBSET (1 .. m), s # {}
      PROVE  Max(s) \in 1 .. m /\ s \ {Max(s)} \in SUBSET (1 .. m)
  BY <1>1, <1>6, MaxOf
<1>7. Iter(f)
  <2>1. ASSUME NEW s \in SUBSET (1 .. m) PROVE f[s] = Body(f, s)
    <3>1. CASE s = {}
      BY <1>5, <3>1 DEF FoldsSets
    <3>2. CASE s # {}
      <4>1. f[s \ {Max(s)}] \in V /\ f[s] = h[<<Max(s), f[s \ {Max(s)}]>>]
        BY <1>5, <1>6, <3>2 DEF FoldsSets
      <4>2. PICK x : x = Max(s)
        OBVIOUS
      <4>3. PICK v : v = f[s \ {x}]
        OBVIOUS
      <4>4. x \in 1 .. m /\ v \in V /\ at[x] = x /\ f[s] = h[<<x, v>>]
        BY <1>3, <1>6, <3>2, <4>1, <4>2, <4>3, Zenon
      <4>5. f[s] = Op(v, x)
        BY <1>4, <4>4
      <4> QED BY <3>2, <4>2, <4>3, <4>4, <4>5, Zenon
    <3> QED BY <3>1, <3>2
  <2> HIDE DEF Body
  <2> QED BY <1>5, <2>1 DEF FoldsSets
<1>8. Iter(iter)
  BY <1>7
<1> HIDE DEF iter
<1>9. iter[{}] = b
  <2>1. {} \in SUBSET (1 .. m)
    OBVIOUS
  <2> QED BY <1>8, <2>1
<1>10. \A s \in SUBSET (1 .. m) : s # {} /\ iter[s \ {Max(s)}] \in V =>
         iter[s] = h[<<Max(s), iter[s \ {Max(s)}]>>]
  <2> SUFFICES ASSUME NEW s \in SUBSET (1 .. m), s # {}, iter[s \ {Max(s)}] \in V
               PROVE  iter[s] = h[<<Max(s), iter[s \ {Max(s)}]>>]
    OBVIOUS
  <2>1. iter[s] = Body(iter, s)
    BY <1>8
  <2>2. PICK x : x = Max(s)
    OBVIOUS
  <2>3. PICK v : v = iter[s \ {x}]
    OBVIOUS
  <2>4. x \in 1 .. m /\ v \in V /\ at[x] = x
    BY <1>3, <1>6, <2>2, <2>3, Zenon
  <2>5. iter[s] = Op(v, x)
    BY <2>1, <2>2, <2>3, <2>4, Zenon
  <2>6. iter[s] = h[<<x, v>>]
    BY <1>4, <2>4, <2>5
  <2> QED BY <2>2, <2>3, <2>6, Zenon
<1> DEFINE c == [j \in 0 .. m |-> iter[1 .. j]]
<1>11. Chain(c, m, V, b, h)
  <2> HIDE DEF Iter, Body
  <2> HIDE DEF h, b, V, m
  <2> QED BY <1>1, <1>3, <1>4, <1>9, <1>10, FoldChain, ZenonT(40)
<1>12. c[m] = iter[1 .. m]
  BY <1>1
<1> HIDE DEF c
<1> QED BY <1>2, <1>11, <1>12 DEF m, V, h, b

LEMMA TimesNone ==
  ASSUME NEW hw, HotOK(hw), NEW prob \in Nat, NEW n \in Nat
  PROVE  Times(hw, prob, << >>, n) = prob * Scale
<1>1. << >> \in Seq(Seq(Nat)) /\ Len(<< >>) = 0
  OBVIOUS
<1>2. PICK f : /\ Chain(f, Len(<< >>), Nat, prob * Scale, TimesStep(hw, << >>, n))
               /\ Times(hw, prob, << >>, n) = f[Len(<< >>)]
  BY <1>1, TimesChain
<1> QED BY <1>1, <1>2 DEF Chain

\* n and k tell the same words of m to be followed by a space.
SameSpaced(m, n, k) == \A i \in 1 .. m : (i <= n) <=> (i <= k)

LEMMA TimesAppend ==
  ASSUME NEW hw, HotOK(hw), NEW prob \in Nat,
         NEW words \in Seq(Seq(Nat)), NEW v \in Seq(Nat), NEW n \in Nat, NEW k \in Nat,
         SameSpaced(Len(words), n, k)
  PROVE  /\ Times(hw, prob, words, n) \in Nat
         /\ Times(hw, prob, Append(words, v), k) =
              (Times(hw, prob, words, n) * Factor(hw, Append(words, v), Len(words) + 1, Len(words) + 1 <= k))
                \div LmUnit
<1> DEFINE m == Len(words)
           e == Append(words, v)
           b == prob * Scale
           g == TimesStep(hw, words, n)
           h == TimesStep(hw, e, k)
           V == Nat
<1>1. m \in Nat /\ e \in Seq(Seq(Nat)) /\ Len(e) = m + 1
  OBVIOUS
<1>2. PICK c : Chain(c, m, V, b, g) /\ Times(hw, prob, words, n) = c[m]
  BY TimesChain
<1>3. PICK d : Chain(d, m + 1, V, b, h) /\ Times(hw, prob, e, k) = d[m + 1]
  <2> HIDE DEF e
  <2>1. PICK d : Chain(d, Len(e), Nat, b, TimesStep(hw, e, k)) /\ Times(hw, prob, e, k) = d[Len(e)]
    BY <1>1, TimesChain
  <2> QED BY <1>1, <2>1
<1>4. \A j \in 1 .. m : \A u \in V : g[<<j, u>>] = h[<<j, u>>]
  <2> SUFFICES ASSUME NEW j \in 1 .. m, NEW u \in Nat PROVE g[<<j, u>>] = h[<<j, u>>]
    OBVIOUS
  <2>1. j \in 1 .. m + 1 /\ (j <= n <=> j <= k)
    BY <1>1 DEF SameSpaced
  <2>2. (j <= n) = (j <= k) /\ (j <= n) \in BOOLEAN
    BY <2>1
  <2>3. Factor(hw, e, j, j <= n) = Factor(hw, words, j, j <= n)
    <3>1. ReadOf(e, j) = ReadOf(words, j)
      BY ReadProps
    <3> HIDE DEF e
    <3> QED BY <3>1, FactorDef
  <2>4. g[<<j, u>>] = (u * Factor(hw, words, j, j <= n)) \div LmUnit
    BY DEF TimesStep
  <2>5. h[<<j, u>>] = (u * Factor(hw, e, j, j <= k)) \div LmUnit
    <3> HIDE DEF e
    <3> QED BY <1>1, <2>1 DEF TimesStep
  <2> HIDE DEF e, g, h
  <2> QED BY <2>2, <2>3, <2>4, <2>5
<1>5. Agree(g, h, m, V)
  BY <1>4 DEF Agree
<1>6. m + 1 \in Nat /\ m <= m + 1
  BY <1>1
<1>7. c[m] \in V /\ d[m] = c[m]
  <2> HIDE DEF e, g, h, b, V, m
  <2> QED BY <1>1, <1>2, <1>3, <1>5, <1>6, ChainPart
<1>8. d[m + 1] = h[<<m + 1, d[m]>>]
  <2> HIDE DEF e, g, h, b, V, m
  <2> QED BY <1>1, <1>3, ChainEnd
<1>9. h[<<m + 1, d[m]>>] = (d[m] * Factor(hw, e, m + 1, m + 1 <= k)) \div LmUnit
  <2>1. <<m + 1, d[m]>> \in (1 .. m + 1) \X Nat
    BY <1>1, <1>7
  <2> HIDE DEF e
  <2> QED BY <1>1, <2>1 DEF TimesStep
<1> HIDE DEF g, h, b
<1> QED BY <1>2, <1>3, <1>7, <1>8, <1>9
LEMMA Exact == \A y \in Nat, L \in Nat \ {0} : (L * y) \div L = y
<1> SUFFICES ASSUME NEW y \in Nat, NEW L \in Nat \ {0} PROVE (L * y) \div L = y
  OBVIOUS
<1>1. L * y \in Nat /\ y * L <= L * y /\ L * y < (y + 1) * L /\ y + 1 \in Nat
  OBVIOUS
<1>2. (L * y) \div L \in Nat /\ y <= (L * y) \div L /\ (L * y) \div L < y + 1
  BY <1>1, DivProps
<1> QED BY <1>2

LEMMA MulNat ==
  /\ \A x, y \in Nat : x * y \in Nat
  /\ \A x, y \in Nat \ {0} : x * y \in Nat \ {0}
OBVIOUS

\* The product of the factors is linear in the probability and, as long as
\* there are at most MaxWords words, no division rounds.
LEMMA TimesForm ==
  ASSUME NEW hw, HotOK(hw), NEW words \in Seq(Seq(Nat)), NEW n \in Nat, Len(words) <= MaxWords
  PROVE  \E u \in Nat \ {0} : \A prob \in Nat :
           Times(hw, prob, words, n) = prob * (u * power[MaxWords - Len(words)])
<1> DEFINE W == Seq(Seq(Nat))
           Form(ws, u) == \A prob \in Nat : Times(hw, prob, ws, n) = prob * (u * power[MaxWords - Len(ws)])
           Good(ws) == \E u \in Nat \ {0} : Form(ws, u)
           S == {k \in 0 .. MaxWords : \A ws \in W : Len(ws) = k => Good(ws)}
<1>1. MaxWords \in Nat /\ LmUnit \in Nat \ {0}
  BY DecoderAssumption, ScorerAssumption
<1>2. 0 \in S
  <2> SUFFICES ASSUME NEW ws \in W, Len(ws) = 0 PROVE Good(ws)
    BY <1>1
  <2>1. ws = << >> /\ MaxWords - Len(ws) = MaxWords
    BY <1>1
  <2>3. \A prob \in Nat : Times(hw, prob, << >>, n) = prob * Scale
    BY TimesNone
  <2>4. Scale \in Nat /\ 1 * Scale = Scale
    BY <1>1, PowerProps DEF Scale
  <2>5. Form(ws, 1)
    BY <2>1, <2>3, <2>4 DEF Scale
  <2> QED BY <2>5
<1>3. ASSUME NEW k \in 0 .. MaxWords - 1, k \in S PROVE k + 1 \in S
  <2> SUFFICES ASSUME NEW ws \in W, Len(ws) = k + 1 PROVE Good(ws)
    BY <1>1
  <2>1. PICK ps \in W, v \in Seq(Nat) : ws = Append(ps, v) /\ Len(ps) = k
    <3> DEFINE D == Seq(Nat)
    <3>1. ws \in Seq(D) /\ ws # << >>
      BY <1>1
    <3> HIDE DEF D
    <3>2. Front(ws) \in Seq(D) /\ Len(Front(ws)) = Len(ws) - 1 /\ Last(ws) \in D /\ ws = Append(Front(ws), Last(ws))
      BY <3>1, FrontProps
    <3>3. Len(ws) - 1 = k
      BY <1>1
    <3> QED BY <3>2, <3>3 DEF D
  <2>2. PICK u \in Nat \ {0} : Form(ps, u)
    BY <1>3, <2>1
  <2>3. PICK F : F = Factor(hw, ws, k + 1, k + 1 <= n)
    OBVIOUS
  <2>4. F \in Nat \ {0}
    <3>1. k + 1 \in 1 .. Len(ws)
      BY <1>1
    <3> QED BY <2>3, <3>1, FactorNat
  <2>5. PICK P : P = power[MaxWords - (k + 1)]
    OBVIOUS
  <2>6. P \in Nat \ {0} /\ power[MaxWords - k] = LmUnit * P
    <3>1. /\ MaxWords - k \in 0 .. MaxWords /\ MaxWords - k > 0 /\ (MaxWords - k) - 1 = MaxWords - (k + 1)
          /\ MaxWords - (k + 1) \in 0 .. MaxWords
      BY <1>1
    <3> QED BY <2>5, <3>1, PowerProps
  <2>7. u * F \in Nat \ {0}
    BY <2>4, MulNat
  <2>8. ASSUME NEW prob \in Nat PROVE Times(hw, prob, ws, n) = prob * ((u * F) * P)
    <3>1. Times(hw, prob, ps, n) = prob * (u * (LmUnit * P))
      BY <2>1, <2>2, <2>6
    <3>2. Times(hw, prob, Append(ps, v), n) =
            (Times(hw, prob, ps, n) * Factor(hw, Append(ps, v), Len(ps) + 1, Len(ps) + 1 <= n)) \div LmUnit
      <4>1. SameSpaced(Len(ps), n, n)
        BY DEF SameSpaced
      <4> QED BY <2>1, <4>1, TimesAppend
    <3>3. Times(hw, prob, ws, n) = (Times(hw, prob, ps, n) * F) \div LmUnit
      BY <2>1, <2>3, <3>2, Zenon
    <3>4. (prob * (u * (LmUnit * P))) * F = LmUnit * (prob * ((u * F) * P))
      <4>1. \A x, y, z, a, b \in Nat : (x * (y * (z * a))) * b = z * (x * ((y * b) * a))
        OBVIOUS
      <4> QED BY <1>1, <2>4, <2>6, <4>1
    <3>5. prob * ((u * F) * P) \in Nat
      BY <2>6, <2>7, MulNat
    <3> QED BY <1>1, <3>1, <3>3, <3>4, <3>5, Exact
  <2>9. Form(ws, u * F)
    BY <2>5, <2>8
  <2> QED BY <2>7, <2>9
<1>4. \A k \in 0 .. MaxWords : k \in S
  <2> HIDE DEF S
  <2> QED BY <1>1, <1>2, <1>3, UpTo
<1>5. Len(words) \in 0 .. MaxWords
  BY <1>1
<1>6. Good(words)
  BY <1>4, <1>5
<1> QED BY <1>6
-----------------------------------------------------------------------------
(* make_ngram reads the last words of the transcript *)

\* A path that the dictionary let pass, label by label.
Legal(q) == q \in Seq(Nat) /\ \A i \in 1 .. Len(q) : InDictionary(SubSeq(q, 1, i))

AllWords(q) == Append(Words(q).done, Words(q).open)

LEMMA Cut ==
  ASSUME NEW D, NEW q \in Seq(D), NEW n \in 0 .. Len(q)
  PROVE  /\ SubSeq(q, 1, n) \in Seq(D) /\ Len(SubSeq(q, 1, n)) = n
         /\ \A i \in 1 .. n : SubSeq(q, 1, n)[i] = q[i]
<1>1. 1 \in Nat /\ n \in Nat /\ 1 <= n + 1 /\ n - 1 + 1 = n /\ \A i \in 1 .. n : 1 + i - 1 = i
  OBVIOUS
<1>2. \A i \in 1 .. n : q[i] \in D /\ q[i] = q[i]
  OBVIOUS
<1>3. /\ SubSeq(q, 1, n) \in Seq(D) /\ Len(SubSeq(q, 1, n)) = n - 1 + 1
      /\ \A i \in 1 .. n - 1 + 1 : SubSeq(q, 1, n)[i] = q[1 + i - 1]
  BY <1>1, <1>2, SubSeqSame
<1> QED BY <1>1, <1>3

\* The beginnings of a beginning.
LEMMA CutCut ==
  ASSUME NEW D, NEW q \in Seq(D), NEW n \in 0 .. Len(q), NEW i \in 0 .. n
  PROVE  SubSeq(SubSeq(q, 1, n), 1, i) = SubSeq(q, 1, i)
<1> DEFINE p == SubSeq(q, 1, n)
           s == SubSeq(p, 1, i)
           t == SubSeq(q, 1, i)
<1>1. p \in Seq(D) /\ Len(p) = n /\ \A j \in 1 .. n : p[j] = q[j]
  BY Cut
<1>2. i \in 0 .. Len(q) /\ \A j \in 1 .. i : j \in 1 .. n
  OBVIOUS
<1> HIDE DEF p
<1>3. s \in Seq(D) /\ Len(s) = i /\ \A j \in 1 .. i : s[j] = p[j]
  BY <1>1, Cut
<1>4. t \in Seq(D) /\ Len(t) = i /\ \A j \in 1 .. i : t[j] = q[j]
  BY <1>2, Cut
<1>5. \A j \in 1 .. i : s[j] = t[j]
  BY <1>1, <1>2, <1>3, <1>4
<1> HIDE DEF s, t
<1>6. s = t
  BY <1>3, <1>4, <1>5, SeqEqual
<1> QED BY <1>6 DEF s, t, p

\* Words reads whole sequences of labels.
LEMMA WordsType ==
  ASSUME NEW q \in Seq(Nat)
  PROVE  /\ Words(q).done \in Seq(Seq(Nat)) /\ Words(q).open \in Seq(Nat)
         /\ AllWords(q) \in Seq(Seq(Nat)) /\ Len(AllWords(q)) = Len(Words(q).done) + 1
         /\ AllWords(q)[Len(AllWords(q))] = Words(q).open
<1>1. 0 \in Nat
  OBVIOUS
<1>2. Words(q) \in Readings
  BY <1>1, WordsAppend
<1>3. Words(q).done \in Seq(Seq(Nat)) /\ Words(q).open \in Seq(Nat)
  BY <1>2 DEF Readings
<1> DEFINE D == Seq(Nat)
           d == Words(q).done
           o == Words(q).open
<1>4. d \in Seq(D) /\ o \in D
  BY <1>3
<1> HIDE DEF D, d, o
<1>5. Append(d, o) \in Seq(D) /\ Len(Append(d, o)) = Len(d) + 1 /\ Append(d, o)[Len(d) + 1] = o
  BY <1>4
<1> QED BY <1>3, <1>5 DEF AllWords, D, d, o

\* The space after the words that are done: nothing follows but the last word.
LEMMA DoneBefore ==
  ASSUME NEW r \in Seq(Nat)
  PROVE  Words(r).done = Words(SubSeq(r, 1, SpaceBefore(r))).done
<1> DEFINE m == Len(r)
           b == SpaceBefore(r)
           D(n) == Words(SubSeq(r, 1, n)).done
           S == {n \in 0 .. m - b : D(b + n) = D(b)}
<1>1. m \in Nat /\ b \in 0 .. m /\ \A i \in 1 .. m : r[i] = space_id => i <= b
  BY SpaceProps
<1> HIDE DEF b
<1>2. 0 \in S
  BY <1>1
<1>3. ASSUME NEW n \in 0 .. (m - b) - 1, n \in S PROVE n + 1 \in S
  <2>1. PICK j \in 1 .. m : j = b + n + 1 /\ j - 1 = b + n /\ j > b /\ n + 1 \in 0 .. m - b
    BY <1>1
  <2>2. SubSeq(r, 1, j - 1) \in Seq(Nat) /\ SubSeq(r, 1, j) = Append(SubSeq(r, 1, j - 1), r[j]) /\ r[j] \in Nat
    BY Beginnings
  <2>3. r[j] # space_id
    BY <1>1, <2>1
  <2>4. PICK p \in Seq(Nat) : p = SubSeq(r, 1, j - 1)
    BY <2>2
  <2>5. Words(Append(p, r[j])) = ReadLabel(Words(p), r[j]) /\ Words(p) \in Readings
    BY <2>2, WordsAppend
  <2>6. ReadLabel(Words(p), r[j]).done = Words(p).done
    BY <2>3, <2>5 DEF ReadLabel, Readings
  <2>7. D(j) = D(j - 1)
    BY <2>2, <2>4, <2>5, <2>6
  <2>8. D(b + n) = D(b)
    BY <1>3
  <2> HIDE DEF D
  <2>9. b + (n + 1) = j
    BY <1>1, <2>1
  <2>10. D(b + (n + 1)) = D(b)
    BY <2>1, <2>7, <2>8, <2>9
  <2> QED BY <2>1, <2>10
<1>4. m - b \in S
  <2>1. m - b \in Nat /\ m - b \in 0 .. m - b
    BY <1>1
  <2> HIDE DEF S, m
  <2> QED BY <1>2, <1>3, <2>1, UpTo
<1>5. D(b + (m - b)) = D(b)
  BY <1>4
<1>6. b + (m - b) = m
  BY <1>1
<1>7. SubSeq(r, 1, m) = r
  BY Beginnings
<1> HIDE DEF m
<1> QED BY <1>5, <1>6, <1>7 DEF b

\* What is left of a path without its last word.
LEMMA WordsBack ==
  ASSUME NEW r, Legal(r)
  PROVE  LET b == SpaceBefore(r)
             t == SubSeq(r, 1, b - 1)
         IN  IF b = 0 THEN t = << >> /\ Words(r).done = << >>
             ELSE Legal(t) /\ LastWord(t) # << >> /\ AllWords(t) = Words(r).done
<1> DEFINE b == SpaceBefore(r)
           t == SubSeq(r, 1, b - 1)
           D(n) == Words(SubSeq(r, 1, n)).done
<1>1. r \in Seq(Nat) /\ b \in 0 .. Len(r) /\ Len(r) \in Nat /\ (b # 0 => r[b] = space_id)
  BY SpaceProps DEF Legal
<1>2. Words(r).done = D(b)
  BY <1>1, DoneBefore
<1> HIDE DEF b
<1>3. CASE b = 0
  <2>1. SubSeq(r, 1, 0) = << >>
    BY <1>1, Beginnings
  <2>2. D(b) = << >>
    <3>1. << >> \in Seq(Nat) /\ 0 \in Nat
      OBVIOUS
    <3>2. Words(<< >>) = NothingRead
      BY <3>1, WordsAppend
    <3>3. SubSeq(r, 1, b) = << >>
      BY <1>3, <2>1
    <3>4. NothingRead.done = << >>
      BY DEF NothingRead
    <3> QED BY <3>2, <3>3, <3>4, Zenon
  <2>3. t = << >>
    <3>1. b - 1 = -1
      BY <1>3
    <3>2. SubSeq(r, 1, -1) = << >>
      BY <1>1
    <3> QED BY <3>1, <3>2
  <2> QED BY <1>2, <1>3, <2>2, <2>3 DEF b
<1>4. CASE b # 0
  <2>1. b \in 1 .. Len(r) /\ b - 1 \in 0 .. Len(r)
    BY <1>1, <1>4
  <2>2. t \in Seq(Nat) /\ SubSeq(r, 1, b) = Append(t, space_id) /\ Len(t) = b - 1
    <3>1. SubSeq(r, 1, b) = Append(SubSeq(r, 1, b - 1), r[b])
      BY <1>1, <2>1, Beginnings
    <3>2. SubSeq(r, 1, b - 1) \in Seq(Nat) /\ Len(SubSeq(r, 1, b - 1)) = b - 1
      BY <1>1, <2>1, Cut
    <3> QED BY <1>1, <1>4, <3>1, <3>2
  <2>3. space_id \in Nat
    BY ScorerAssumption
  <2>4. ASSUME NEW i \in 1 .. Len(t) PROVE InDictionary(SubSeq(t, 1, i))
    <3>1. i \in 1 .. Len(r) /\ i \in 0 .. b - 1
      BY <1>1, <2>1, <2>2
    <3>2. SubSeq(t, 1, i) = SubSeq(r, 1, i)
      BY <1>1, <2>1, <3>1, CutCut
    <3> QED BY <3>1, <3>2 DEF Legal
  <2>5. Legal(t)
    BY <2>2, <2>4 DEF Legal
  <2>6. LastWord(t) # << >>
    <3>1. InDictionary(Append(t, space_id))
      BY <2>1, <2>2 DEF Legal
    <3>2. Front(Append(t, space_id)) = t /\ Last(Append(t, space_id)) = space_id
      BY <2>2, <2>3, AppendProps
    <3>3. LastWord(t) \in vocabulary
      BY <3>1, <3>2 DEF InDictionary
    <3> QED BY <3>3, ScorerAssumption
  <2>7. D(b) = AllWords(t)
    <3> HIDE DEF t
    <3>1. Words(Append(t, space_id)) = ReadLabel(Words(t), space_id)
      BY <2>2, <2>3, WordsAppend
    <3>2. ReadLabel(Words(t), space_id).done = AllWords(t)
      BY DEF ReadLabel, AllWords
    <3>3. SubSeq(r, 1, b) = Append(t, space_id)
      BY <2>2
    <3> QED BY <3>1, <3>2, <3>3, Zenon
  <2> QED BY <1>2, <1>4, <2>5, <2>6, <2>7 DEF b
<1> QED BY <1>3, <1>4
\* One word back.
Back(seen) ==
  IF seen.rest = << >> THEN seen
  ELSE [rest |-> SubSeq(seen.rest, 1, SpaceBefore(seen.rest) - 1),
        ngram |-> <<LastWord(seen.rest)>> \o seen.ngram]

\* The walk of make_ngram.
Walked(walk, path) ==
  /\ walk[0] = [rest |-> path, ngram |-> << >>]
  /\ \A n \in 1 .. max_order : walk[n] = Back(walk[n - 1])
  /\ make_ngram(path) = walk[max_order].ngram

LEMMA NgramWalk ==
  ASSUME NEW path \in Seq(Nat)
  PROVE  \E walk : Walked(walk, path)
<1>0. max_order \in Nat
  BY ScorerAssumption
<1> DEFINE W == [rest : Seq(Nat), ngram : Seq(Seq(Nat))]
           b == [rest |-> path, ngram |-> << >>]
           step(seen) == Back(seen)
           g == [seen \in W |-> step(seen)]
           Walks(f) == f = [order \in 0 .. max_order |->
                              IF order = 0 THEN b ELSE step(f[order - 1])]
           walk == CHOOSE f : Walks(f)
<1>1. ASSUME NEW seen \in W
      PROVE  step(seen) \in W /\ Len(step(seen).ngram) <= Len(seen.ngram) + 1
  <2>1. CASE seen.rest = << >>
    BY <2>1 DEF Back
  <2>2. CASE seen.rest # << >>
    <3> DEFINE r == seen.rest
               n == SpaceBefore(r)
    <3>1. r \in Seq(Nat) /\ n \in 0 .. Len(r) /\ Len(r) \in Nat
      BY SpaceProps
    <3> HIDE DEF n
    <3>2. \A i \in 1 .. n - 1 : r[i] \in Nat
      BY <3>1
    <3>3. SubSeq(r, 1, n - 1) \in Seq(Nat)
      BY <3>1, <3>2, SubSeqProperties
    <3>4. \A i \in n + 1 .. Len(r) : r[i] \in Nat
      BY <3>1
    <3>5. LastWord(r) \in Seq(Nat)
      BY <3>1, <3>4, SubSeqProperties DEF LastWord, n
    <3> HIDE DEF r
    <3>6. <<LastWord(r)>> \in Seq(Seq(Nat)) /\ Len(<<LastWord(r)>>) = 1
      BY <3>5
    <3>7. /\ <<LastWord(r)>> \o seen.ngram \in Seq(Seq(Nat))
          /\ Len(<<LastWord(r)>> \o seen.ngram) = Len(seen.ngram) + 1
      BY <3>6, ConcatProperties
    <3>8. step(seen) = [rest |-> SubSeq(r, 1, n - 1), ngram |-> <<LastWord(r)>> \o seen.ngram]
      BY <2>2 DEF r, n, Back
    <3> HIDE DEF step
    <3> QED BY <3>3, <3>7, <3>8
  <2> QED BY <2>1, <2>2
<1>2. b \in W
  OBVIOUS
<1> HIDE DEF step, b
<1>3. g \in [W -> W] /\ \A seen \in W : g[seen] = step(seen)
  BY <1>1
<1>4. PICK f \in [0 .. max_order -> W] :
        f[0] = b /\ \A n \in 1 .. max_order : f[n] = g[f[n - 1]]
  <2> HIDE DEF g, W
  <2>1. \E f : Iterates(f, max_order, W, b, g)
    BY <1>0, <1>2, <1>3, RecursionExists
  <2> QED BY <2>1 DEF Iterates
<1>5. Walks(f)
  <2>1. ASSUME NEW n \in 0 .. max_order PROVE f[n] = IF n = 0 THEN b ELSE step(f[n - 1])
    <3>1. CASE n = 0
      BY <1>4, <3>1
    <3>2. CASE n # 0
      <4>1. n \in 1 .. max_order /\ n - 1 \in 0 .. max_order
        BY <1>0, <3>2
      <4> QED BY <1>3, <1>4, <3>2, <4>1
    <3> QED BY <3>1, <3>2
  <2> QED BY <2>1
<1>6. Walks(walk)
  BY <1>5
<1>7. make_ngram(path) = walk[max_order].ngram
  BY DEF make_ngram, walk, step, b, Back
<1> HIDE DEF walk
<1>8. walk[0] = b /\ \A n \in 1 .. max_order : walk[n] = Back(walk[n - 1])
  BY <1>0, <1>6 DEF step
<1>9. Walked(walk, path)
  BY <1>7, <1>8 DEF b, Walked
<1> QED BY <1>9

LEMMA ConsSub ==
  ASSUME NEW D, NEW ws \in Seq(D), NEW k, k = Len(ws), NEW i \in 1 .. k
  PROVE  <<ws[i]>> \o SubSeq(ws, i + 1, k) = SubSeq(ws, i, k)
<1> DEFINE a == <<ws[i]>>
           t == SubSeq(ws, i + 1, k)
           u == SubSeq(ws, i, k)
           s == a \o t
<1>1. /\ k \in Nat /\ i \in Nat /\ i + 1 \in Nat /\ i + 1 <= k + 1 /\ i <= k + 1
      /\ k - (i + 1) + 1 = k - i
  OBVIOUS
<1>2. \A j \in i .. k : ws[j] \in D /\ ws[j] = ws[j]
  BY <1>1
<1>3. \A j \in i + 1 .. k : ws[j] \in D /\ ws[j] = ws[j]
  BY <1>1
<1>4. t \in Seq(D) /\ Len(t) = k - i /\ \A j \in 1 .. k - i : t[j] = ws[i + 1 + j - 1]
  BY <1>1, <1>3, SubSeqSame
<1>5. u \in Seq(D) /\ Len(u) = k - i + 1 /\ \A j \in 1 .. k - i + 1 : u[j] = ws[i + j - 1]
  BY <1>1, <1>2, SubSeqSame
<1>6. a \in Seq(D) /\ Len(a) = 1 /\ a[1] = ws[i]
  BY <1>1
<1> HIDE DEF a, t, u
<1>0. /\ s \in Seq(D) /\ Len(s) = Len(a) + Len(t)
      /\ \A j \in 1 .. Len(a) + Len(t) : s[j] = IF j <= Len(a) THEN a[j] ELSE t[j - Len(a)]
  BY <1>4, <1>6, ConcatProperties
<1> HIDE DEF s
<1>7. s \in Seq(D) /\ Len(s) = k - i + 1
  BY <1>0, <1>1, <1>4, <1>6
<1>8. ASSUME NEW j \in 1 .. k - i + 1 PROVE s[j] = u[j]
  <2>1. CASE j = 1
    <3>1. s[1] = a[1] /\ u[1] = ws[i + 1 - 1] /\ i + 1 - 1 = i
      BY <1>0, <1>1, <1>4, <1>5, <1>6
    <3> QED BY <1>6, <2>1, <3>1
  <2>2. CASE j # 1
    <3>1. j - 1 \in 1 .. k - i /\ i + 1 + (j - 1) - 1 = i + j - 1
      BY <1>1, <2>2
    <3>2. s[j] = t[j - 1]
      <4>1. j \in 1 .. Len(a) + Len(t) /\ ~(j <= Len(a)) /\ j - Len(a) = j - 1
        BY <1>1, <1>4, <1>6, <2>2
      <4> QED BY <1>0, <4>1
    <3> QED BY <1>4, <1>5, <3>1, <3>2
  <2> QED BY <2>1, <2>2
<1>9. s = u
  BY <1>5, <1>7, <1>8, SeqEqual
<1> QED BY <1>9 DEF s, a, t, u

\* The last words of a legal path, as Words reads them from the left.
LEMMA NgramIs ==
  ASSUME NEW path, Legal(path), LastWord(path) # << >>
  PROVE  make_ngram(path) = ReadOf(AllWords(path), Len(Words(path).done) + 1)
<1> DEFINE ws == AllWords(path)
           k == Len(Words(path).done) + 1
           I(j) == IF j > k THEN 0 ELSE k - j
<1>1. path \in Seq(Nat) /\ max_order \in Nat
  BY ScorerAssumption DEF Legal
<1>2. ws \in Seq(Seq(Nat)) /\ Len(ws) = k /\ k \in Nat /\ k >= 1
  BY <1>1, WordsType
<1>a. PICK walk : Walked(walk, path)
  BY <1>1, NgramWalk
<1>3. /\ walk[0] = [rest |-> path, ngram |-> << >>]
      /\ \A n \in 1 .. max_order : walk[n] = Back(walk[n - 1])
      /\ make_ngram(path) = walk[max_order].ngram
  BY <1>a DEF Walked
<1> HIDE DEF ws, k
<1> DEFINE Ready(r, i) == IF i = 0 THEN r = << >>
                          ELSE Legal(r) /\ LastWord(r) # << >> /\ AllWords(r) = SubSeq(ws, 1, i)
           At(j) == walk[j].ngram = SubSeq(ws, I(j) + 1, k) /\ Ready(walk[j].rest, I(j))
           S == {j \in 0 .. max_order : At(j)}
<1>4. 0 \in S
  <2>1. I(0) = k /\ k # 0
    BY <1>2
  <2>2. SubSeq(ws, k + 1, k) = << >>
    BY <1>2
  <2>3. SubSeq(ws, 1, k) = ws
    <3> DEFINE D == Seq(Nat)
    <3>1. ws \in Seq(D)
      BY <1>2
    <3> HIDE DEF D
    <3> QED BY <1>2, <3>1, SubSeqFull
  <2>4. walk[0].rest = path /\ walk[0].ngram = << >>
    BY <1>3
  <2>5. Ready(path, k)
    BY <2>1, <2>3 DEF ws
  <2> HIDE DEF Ready
  <2>6. At(0)
    BY <2>1, <2>2, <2>4, <2>5
  <2> HIDE DEF At
  <2> QED BY <1>1, <2>6
<1>5. ASSUME NEW j \in 0 .. max_order - 1, j \in S PROVE j + 1 \in S
  <2>1. /\ j \in Nat /\ j + 1 \in 0 .. max_order /\ j + 1 \in 1 .. max_order /\ (j + 1) - 1 = j
        /\ I(j) \in 0 .. k
    BY <1>1, <1>2
  <2> DEFINE r == walk[j].rest
             g == walk[j].ngram
             i == I(j)
             b == SpaceBefore(r)
             t == SubSeq(r, 1, b - 1)
  <2>2. walk[j + 1] = Back(walk[j])
    BY <1>3, <2>1
  <2>3. g = SubSeq(ws, i + 1, k) /\ Ready(r, i)
    BY <1>5
  <2>4. CASE i = 0
    <3>1. I(j + 1) = 0
      BY <1>2, <2>1, <2>4
    <3>2. r = << >>
      BY <2>3, <2>4
    <3>3. walk[j + 1] = walk[j]
      BY <2>2, <3>2 DEF Back
    <3>4. At(j + 1)
      <4> HIDE DEF Ready
      <4> QED BY <2>3, <2>4, <3>1, <3>3
    <3> HIDE DEF At
    <3> QED BY <2>1, <3>4
  <2>5. CASE i # 0
    <3>1. I(j + 1) = i - 1 /\ i \in 1 .. k /\ (i - 1) + 1 = i /\ i - 1 \in 0 .. k
      BY <1>2, <2>1, <2>5
    <3>2. Legal(r) /\ LastWord(r) # << >> /\ AllWords(r) = SubSeq(ws, 1, i)
      BY <2>3, <2>5
    <3>3. r \in Seq(Nat) /\ r # << >>
      BY <3>2, LastWordEnd DEF Legal
    <3> HIDE DEF i
    <3>4. /\ SubSeq(ws, 1, i) \in Seq(Seq(Nat)) /\ Len(SubSeq(ws, 1, i)) = i
          /\ \A n \in 1 .. i : SubSeq(ws, 1, i)[n] = ws[n]
      <4> DEFINE D == Seq(Nat)
      <4>1. ws \in Seq(D) /\ i \in 0 .. Len(ws)
        BY <1>2, <3>1
      <4> HIDE DEF D
      <4>2. /\ SubSeq(ws, 1, i) \in Seq(D) /\ Len(SubSeq(ws, 1, i)) = i
            /\ \A n \in 1 .. i : SubSeq(ws, 1, i)[n] = ws[n]
        BY <4>1, Cut
      <4> QED BY <4>2 DEF D
    <3>5. LastWord(r) = ws[i]
      <4>1. Words(r).open = LastWord(r)
        BY <3>2, <3>3, WordsRead DEF Legal
      <4>2. AllWords(r)[Len(AllWords(r))] = Words(r).open
        BY <3>3, WordsType
      <4>3. AllWords(r)[i] = ws[i] /\ Len(AllWords(r)) = i
        BY <3>1, <3>2, <3>4
      <4> QED BY <4>1, <4>2, <4>3, Zenon
    <3>6. walk[j + 1] = [rest |-> t, ngram |-> <<LastWord(r)>> \o g]
      BY <2>2, <3>3 DEF Back
    <3>7. <<LastWord(r)>> \o g = SubSeq(ws, (i - 1) + 1, k)
      <4> DEFINE D == Seq(Nat)
      <4>1. ws \in Seq(D)
        BY <1>2
      <4> HIDE DEF D
      <4>2. <<ws[i]>> \o SubSeq(ws, i + 1, k) = SubSeq(ws, i, k)
        BY <1>2, <3>1, <4>1, ConsSub
      <4> HIDE DEF g, r
      <4> QED BY <2>3, <3>1, <3>5, <4>2
    <3>8. Len(Words(r).done) = i - 1 /\ Words(r).done \in Seq(Seq(Nat))
      <4>1. Len(AllWords(r)) = Len(Words(r).done) + 1 /\ Words(r).done \in Seq(Seq(Nat))
        BY <3>3, WordsType
      <4>2. Len(AllWords(r)) = i
        BY <3>2, <3>4
      <4>3. Len(Words(r).done) \in Nat
        BY <4>1
      <4> QED BY <3>1, <4>1, <4>2, <4>3
    <3>9. Ready(t, i - 1)
      <4>1. CASE b = 0
        <5>1. t = << >> /\ Words(r).done = << >>
          BY <3>2, <4>1, WordsBack
        <5>2. i - 1 = 0
          BY <3>8, <5>1
        <5> HIDE DEF t
        <5> QED BY <5>1, <5>2
      <4>2. CASE b # 0
        <5>1. Legal(t) /\ LastWord(t) # << >> /\ AllWords(t) = Words(r).done
          BY <3>2, <4>2, WordsBack
        <5>2. Len(AllWords(t)) = Len(Words(t).done) + 1 /\ Words(t).done \in Seq(Seq(Nat))
          BY <5>1, WordsType DEF Legal
        <5>3. i - 1 # 0
          BY <3>8, <5>1, <5>2
        <5>4. Words(r).done = SubSeq(ws, 1, i - 1)
          <6> DEFINE D == Seq(Nat)
                     d == Words(r).done
                     o == Words(r).open
          <6>1. d \in Seq(D) /\ Len(d) = i - 1 /\ o \in D
            BY <3>3, <3>8, WordsType
          <6>2. Append(d, o) = SubSeq(ws, 1, i)
            BY <3>2 DEF AllWords
          <6>3. ws \in Seq(D) /\ i - 1 \in 0 .. Len(ws)
            BY <1>2, <3>1
          <6> HIDE DEF D, d, o
          <6>4. \A n \in 1 .. i - 1 : Append(d, o)[n] = d[n] /\ n \in 1 .. i
            BY <3>1, <6>1
          <6>5. /\ SubSeq(ws, 1, i - 1) \in Seq(D) /\ Len(SubSeq(ws, 1, i - 1)) = i - 1
                /\ \A n \in 1 .. i - 1 : SubSeq(ws, 1, i - 1)[n] = ws[n]
            BY <6>3, Cut
          <6> DEFINE e == SubSeq(ws, 1, i - 1)
          <6>6. \A n \in 1 .. i - 1 : d[n] = e[n]
            BY <3>4, <6>2, <6>4, <6>5
          <6>7. e \in Seq(D) /\ Len(e) = i - 1
            BY <6>5
          <6> HIDE DEF e
          <6>8. d = e
            BY <6>1, <6>6, <6>7, SeqEqual
          <6> QED BY <6>8 DEF d, e
        <5> HIDE DEF t
        <5> QED BY <5>1, <5>3, <5>4
      <4> QED BY <4>1, <4>2
    <3>10. At(j + 1)
      <4> DEFINE h == <<LastWord(r)>> \o g
      <4> HIDE DEF Ready, t, h
      <4>1. walk[j + 1].rest = t /\ walk[j + 1].ngram = h
        BY <3>6 DEF h
      <4> QED BY <3>1, <3>7, <3>9, <4>1 DEF h
    <3> HIDE DEF At
    <3> QED BY <2>1, <3>10
  <2> QED BY <2>4, <2>5
<1>6. max_order \in S
  <2>1. max_order \in 0 .. max_order
    BY <1>1
  <2> HIDE DEF S
  <2> QED BY <1>1, <1>4, <1>5, <2>1, UpTo
<1>7. walk[max_order].ngram = SubSeq(ws, I(max_order) + 1, k)
  BY <1>6
<1>8. I(max_order) + 1 = IF k > max_order THEN k - max_order + 1 ELSE 1
  BY <1>1, <1>2
<1>9. make_ngram(path) = ReadOf(ws, k)
  <2> HIDE DEF I, S, At
  <2> QED BY <1>3, <1>7, <1>8 DEF ReadOf
<1> QED BY <1>9 DEF ws, k
-----------------------------------------------------------------------------
(* The language model's share of a score *)

\* A space ends every word that is done.
LEMMA WordsCounted ==
  ASSUME NEW q \in Seq(Nat)
  PROVE  Len(Words(q).done) = Spaces(q)
<1> DEFINE P(r) == Len(Words(r).done) = Spaces(r)
           m == Len(q)
           S == {n \in 0 .. m : P(SubSeq(q, 1, n))}
<1>1. m \in Nat /\ SubSeq(q, 1, 0) = << >> /\ SubSeq(q, 1, m) = q
  BY Beginnings
<1>2. 0 \in S
  <2>1. << >> \in Seq(Nat) /\ 0 \in Nat
    OBVIOUS
  <2>2. Words(<< >>) = NothingRead /\ Spaces(<< >>) = 0
    BY <2>1, WordsAppend, SpacesAppend
  <2>3. P(<< >>)
    BY <2>2 DEF NothingRead
  <2> HIDE DEF P
  <2>4. P(SubSeq(q, 1, 0))
    BY <1>1, <2>3, Zenon
  <2>5. 0 \in 0 .. m
    BY <1>1
  <2> QED BY <2>4, <2>5, Zenon
<1>3. ASSUME NEW n \in 0 .. m - 1, n \in S PROVE n + 1 \in S
  <2>1. PICK j \in 1 .. m : j = n + 1 /\ n = j - 1
    BY <1>1
  <2>2. SubSeq(q, 1, j - 1) \in Seq(Nat) /\ SubSeq(q, 1, j) = Append(SubSeq(q, 1, j - 1), q[j]) /\ q[j] \in Nat
    BY Beginnings
  <2>3. PICK p \in Seq(Nat) : p = SubSeq(q, 1, j - 1)
    BY <2>2
  <2>4. P(p)
    BY <1>3, <2>1, <2>3
  <2>5. PICK x \in Nat : x = q[j]
    BY <2>2
  <2>6. P(Append(p, x))
    <3>1. Words(p) \in Readings /\ Words(Append(p, x)) = ReadLabel(Words(p), x)
      BY WordsAppend
    <3>2. Spaces(p) \in Nat /\ Spaces(Append(p, x)) = IF x = space_id THEN Spaces(p) + 1 ELSE Spaces(p)
      BY SpacesAppend
    <3>3. Words(p).done \in Seq(Seq(Nat)) /\ Len(AllWords(p)) = Len(Words(p).done) + 1
      BY WordsType
    <3>4. CASE x = space_id
      <4>1. Words(Append(p, x)).done = AllWords(p)
        BY <3>1, <3>4 DEF ReadLabel, AllWords
      <4> QED BY <2>4, <3>2, <3>3, <3>4, <4>1
    <3>5. CASE x # space_id
      <4>1. Words(Append(p, x)).done = Words(p).done
        BY <3>1, <3>5 DEF ReadLabel, Readings
      <4> QED BY <2>4, <3>2, <3>5, <4>1
    <3> QED BY <3>4, <3>5
  <2>7. SubSeq(q, 1, j) = Append(p, x)
    BY <2>2, <2>3, <2>5
  <2> HIDE DEF P
  <2>8. j \in 0 .. m
    BY <1>1
  <2>9. j \in S
    BY <2>6, <2>7, <2>8, Zenon
  <2> QED BY <2>1, <2>9
<1>4. m \in S
  <2>1. m \in 0 .. m
    BY <1>1
  <2> HIDE DEF S, m
  <2> QED BY <1>1, <1>2, <1>3, <2>1, UpTo
<1>5. P(SubSeq(q, 1, m))
  BY <1>4
<1> QED BY <1>1, <1>5

\* The factor of the words that are done, on the scale of the scores.
Gain(hw, scorer, q) ==
  IF scorer THEN Times(hw, 1, Words(q).done, Len(Words(q).done)) ELSE Scale

LEMMA TimesLinear ==
  ASSUME NEW hw, HotOK(hw), NEW words \in Seq(Seq(Nat)), NEW n \in Nat, Len(words) <= MaxWords,
         NEW prob \in Nat
  PROVE  /\ Times(hw, 1, words, n) \in Nat \ {0}
         /\ Times(hw, prob, words, n) = prob * Times(hw, 1, words, n)
<1>1. PICK u \in Nat \ {0} : \A x \in Nat :
        Times(hw, x, words, n) = x * (u * power[MaxWords - Len(words)])
  BY TimesForm
<1>2. PICK g : g = u * power[MaxWords - Len(words)]
  OBVIOUS
<1>3. g \in Nat \ {0}
  <2>1. MaxWords - Len(words) \in 0 .. MaxWords
    BY DecoderAssumption
  <2>2. power[MaxWords - Len(words)] \in Nat \ {0}
    BY <2>1, PowerProps
  <2> QED BY <1>2, <2>2, MulNat
<1>4. \A x \in Nat : Times(hw, x, words, n) = x * g
  BY <1>1, <1>2, Zenon
<1>5. 1 \in Nat /\ 1 * g = g
  BY <1>3
<1> QED BY <1>3, <1>4, <1>5

LEMMA GainType ==
  ASSUME NEW hw, HotOK(hw), NEW scorer, NEW q \in Seq(Nat), scorer => Spaces(q) <= MaxWords
  PROVE  Gain(hw, scorer, q) \in Nat \ {0}
<1>1. CASE scorer
  <2>1. Words(q).done \in Seq(Seq(Nat)) /\ Len(Words(q).done) <= MaxWords /\ Len(Words(q).done) \in Nat /\ 1 \in Nat
    BY <1>1, WordsType, WordsCounted
  <2> QED BY <1>1, <2>1, TimesLinear DEF Gain
<1>2. CASE ~scorer
  <2>1. MaxWords \in 0 .. MaxWords
    BY DecoderAssumption
  <2> QED BY <1>2, <2>1, PowerProps DEF Gain, Scale
<1> QED BY <1>1, <1>2

\* One more word: the factor that the scorer gives it.
LEMMA NextWord ==
  ASSUME NEW hw, HotOK(hw), NEW p, Legal(p), LastWord(p) # << >>, Spaces(p) + 1 <= MaxWords,
         NEW n \in Nat, Len(Words(p).done) <= n, NEW x \in Nat
  PROVE  LET ngram == make_ngram(p)
             F == CondProb(ngram) * IF Len(Words(p).done) < n THEN HotBoost(hw, ngram) ELSE 1
         IN  /\ CondProb(ngram) \in Nat \ {0} /\ HotBoost(hw, ngram) \in Nat \ {0} /\ F \in Nat \ {0}
             /\ Times(hw, x, AllWords(p), n) = ((x * Gain(hw, TRUE, p)) * F) \div LmUnit
<1> DEFINE d == Words(p).done
           k == Len(d) + 1
           ws == AllWords(p)
           F == CondProb(ReadOf(ws, k)) * IF k <= n THEN HotBoost(hw, ReadOf(ws, k)) ELSE 1
<1>1. /\ d \in Seq(Seq(Nat)) /\ Words(p).open \in Seq(Nat) /\ ws = Append(d, Words(p).open)
      /\ ws \in Seq(Seq(Nat)) /\ Len(ws) = k /\ Len(d) \in Nat /\ p \in Seq(Nat)
  BY WordsType DEF Legal, AllWords
<1>2. k \in 1 .. Len(ws)
  BY <1>1
<1>3. make_ngram(p) = ReadOf(ws, k)
  BY NgramIs
<1>4. Len(d) <= MaxWords
  <2>1. Spaces(p) \in Nat /\ Len(d) = Spaces(p) /\ MaxWords \in Nat
    BY <1>1, WordsCounted, DecoderAssumption
  <2> QED BY <2>1
<1>5. Times(hw, x, d, Len(d)) = x * Gain(hw, TRUE, p)
  BY <1>1, <1>4, TimesLinear DEF Gain
<1>6. SameSpaced(Len(d), Len(d), n)
  BY <1>1 DEF SameSpaced
<1>7. Times(hw, x, Append(d, Words(p).open), n) =
        (Times(hw, x, d, Len(d)) * Factor(hw, Append(d, Words(p).open), Len(d) + 1, Len(d) + 1 <= n)) \div LmUnit
  <2> DEFINE o == Words(p).open
  <2>1. o \in Seq(Nat)
    BY <1>1
  <2> HIDE DEF d, o
  <2> QED BY <1>1, <1>6, <2>1, TimesAppend
<1> HIDE DEF ws
<1>8. /\ Factor(hw, ws, k, k <= n) = F /\ F \in Nat \ {0}
      /\ CondProb(ReadOf(ws, k)) \in Nat \ {0} /\ HotBoost(hw, ReadOf(ws, k)) \in Nat \ {0}
  <2>1. \A word \in DOMAIN hw : hw[word] \in Nat \ {0}
    BY DEF HotOK
  <2>2. ASSUME NEW spaced
        PROVE  /\ Factor(hw, ws, k, spaced) =
                    CondProb(ReadOf(ws, k)) * (IF spaced THEN HotBoost(hw, ReadOf(ws, k)) ELSE 1)
               /\ CondProb(ReadOf(ws, k)) \in Nat \ {0} /\ HotBoost(hw, ReadOf(ws, k)) \in Nat \ {0}
               /\ Factor(hw, ws, k, spaced) \in Nat \ {0}
    <3> HIDE DEF k
    <3>1. ws \in Seq(Seq(Nat))
      BY <1>1
    <3> QED BY <1>2, <2>1, <3>1, FactorIs
  <2> QED BY <2>2, Zenon
<1>9. Times(hw, x, ws, n) = ((x * Gain(hw, TRUE, p)) * F) \div LmUnit
  <2> HIDE DEF F
  <2> QED BY <1>1, <1>5, <1>7, <1>8, Zenon
<1>10. (k <= n) = (Len(d) < n)
  BY <1>1
<1> HIDE DEF d
<1> QED BY <1>3, <1>8, <1>9, <1>10 DEF ws, d
\* Only a space completes a word.
LEMMA GainLabel ==
  ASSUME NEW hw, NEW scorer, NEW p \in Seq(Nat), NEW c \in Nat, c # space_id
  PROVE  Gain(hw, scorer, Append(p, c)) = Gain(hw, scorer, p)
<1>1. Words(p) \in Readings /\ Words(Append(p, c)) = ReadLabel(Words(p), c)
  BY WordsAppend
<1>2. Words(Append(p, c)).done = Words(p).done
  BY <1>1 DEF ReadLabel, Readings
<1> QED BY <1>2, Zenon DEF Gain

\* A legal path before a space ends with a word.
LEMMA BeforeSpace ==
  ASSUME NEW p \in Seq(Nat), Legal(Append(p, space_id))
  PROVE  Legal(p) /\ LastWord(p) # << >> /\ Words(Append(p, space_id)).done = AllWords(p)
<1> DEFINE q == Append(p, space_id)
<1>1. space_id \in Nat /\ Len(p) \in Nat /\ Len(q) = Len(p) + 1
  BY ScorerAssumption
<1>2. /\ SubSeq(q, 1, Len(p) + 1) = q
      /\ \A i \in 1 .. Len(p) : SubSeq(q, 1, i) = SubSeq(p, 1, i)
  BY <1>1, BeginningsAppend
<1>3. Front(q) = p /\ Last(q) = space_id
  BY <1>1, AppendProps
<1>4. Words(q).done = AllWords(p)
  <2>1. Words(q) = ReadLabel(Words(p), space_id)
    BY <1>1, WordsAppend
  <2> QED BY <2>1 DEF ReadLabel, AllWords
<1> HIDE DEF q
<1>5. \A i \in 1 .. Len(q) : InDictionary(SubSeq(q, 1, i))
  BY DEF Legal, q
<1>6. \A i \in 1 .. Len(p) : InDictionary(SubSeq(p, 1, i))
  <2> SUFFICES ASSUME NEW i \in 1 .. Len(p) PROVE InDictionary(SubSeq(p, 1, i))
    OBVIOUS
  <2>1. i \in 1 .. Len(q)
    BY <1>1
  <2>2. InDictionary(SubSeq(q, 1, i)) /\ SubSeq(q, 1, i) = SubSeq(p, 1, i)
    BY <1>2, <1>5, <2>1
  <2> QED BY <2>2, Zenon
<1>7. InDictionary(q)
  <2>1. Len(p) + 1 \in 1 .. Len(q)
    BY <1>1
  <2>2. InDictionary(SubSeq(q, 1, Len(p) + 1))
    BY <1>5, <2>1
  <2> QED BY <1>2, <2>2, Zenon
<1>8. LastWord(p) \in vocabulary
  BY <1>3, <1>7 DEF InDictionary
<1>9. LastWord(p) # << >>
  BY <1>8, ScorerAssumption
<1> QED BY <1>4, <1>6, <1>9 DEF Legal, q

LEMMA DivMono == \A x, y \in Nat, L \in Nat \ {0} : x <= y => x \div L <= y \div L
<1> SUFFICES ASSUME NEW x \in Nat, NEW y \in Nat, NEW L \in Nat \ {0}, x <= y PROVE x \div L <= y \div L
  OBVIOUS
<1>1. y \div L \in Nat /\ x \div L \in Nat
  BY DivProps
<1>2. PICK d \in Nat : d = x \div L
  BY <1>1
<1>3. d * L <= x
  <2>1. ~(x < d * L) \/ d < d
    BY <1>2, DivProps
  <2>2. d * L \in Nat
    OBVIOUS
  <2> QED BY <2>1, <2>2
<1>4. d * L \in Nat /\ d * L <= y
  BY <1>3
<1>5. d <= y \div L
  BY <1>4, DivProps
<1> QED BY <1>2, <1>5

\* What the scorer makes of a bound on a probability is the bound with one
\* more word, and it makes the exact value of the exact one.
LEMMA ScoredGain ==
  ASSUME SettingsOK, NEW p \in Seq(Nat), NEW c \in Nat,
         ext_scorer => Legal(Append(p, c)) /\ Spaces(Append(p, c)) <= MaxWords,
         NEW prob \in Nat, NEW x \in Nat
  PROVE  LET g == Gain(hot_words, ext_scorer, p)
             G == Gain(hot_words, ext_scorer, Append(p, c))
             s == Scored(prob, Append(p, c))
         IN  /\ s \in Nat /\ g \in Nat /\ G \in Nat
             /\ prob <= x * g => s <= x * G
             /\ prob = x * g => s = x * G
<1> DEFINE q == Append(p, c)
           g == Gain(hot_words, ext_scorer, p)
           G == Gain(hot_words, ext_scorer, q)
           s == Scored(prob, q)
           ngram == make_ngram(p)
           CP == CondProb(ngram)
           HB == HotBoost(hot_words, ngram)
<1>1. HotOK(hot_words) /\ ext_scorer \in BOOLEAN /\ LmUnit \in Nat \ {0} /\ space_id \in Nat /\ MaxWords \in Nat
  BY ScorerAssumption, DecoderAssumption DEF SettingsOK, HotOK
<1>2. Front(q) = p /\ Last(q) = c /\ q \in Seq(Nat)
  BY AppendProps
<1>3. Spaces(p) \in Nat /\ Spaces(q) = IF c = space_id THEN Spaces(p) + 1 ELSE Spaces(p)
  BY SpacesAppend
<1>4. (ext_scorer => Spaces(p) <= MaxWords) /\ (ext_scorer => Spaces(q) <= MaxWords)
  BY <1>1, <1>3
<1> HIDE DEF q
<1>5. g \in Nat /\ G \in Nat
  BY <1>1, <1>2, <1>4, GainType
<1>6. CASE ~(ext_scorer /\ c = space_id)
  <2>1. s = prob
    BY <1>2, <1>6 DEF Scored, Boundary
  <2>2. G = g
    <3>1. CASE c # space_id
      BY <3>1, GainLabel DEF q
    <3>2. CASE ~ext_scorer
      BY <3>2 DEF Gain
    <3> QED BY <1>6, <3>1, <3>2
  <2> HIDE DEF s, g, G
  <2>3. s \in Nat /\ (prob <= x * g => s <= x * G) /\ (prob = x * g => s = x * G)
    BY <2>1, <2>2
  <2> QED BY <1>5, <2>3 DEF s, g, G, q
<1>7. CASE ext_scorer /\ c = space_id
  <2>1. s = (prob * CP * HB) \div LmUnit
    BY <1>2, <1>7 DEF Scored, Boundary
  <2>2. Legal(Append(p, space_id)) /\ Spaces(p) + 1 <= MaxWords
    BY <1>1, <1>3, <1>7 DEF q
  <2>3. Legal(p) /\ LastWord(p) # << >> /\ Words(q).done = AllWords(p)
    BY <1>7, <2>2, BeforeSpace DEF q
  <2>4. PICK n \in Nat : n = Len(Words(p).done) + 1
    BY WordsType
  <2>5. Len(Words(p).done) <= n /\ (Len(Words(p).done) < n) = TRUE /\ Len(AllWords(p)) = n
        /\ AllWords(p) \in Seq(Seq(Nat)) /\ n <= MaxWords
    <3>1. Len(Words(p).done) \in Nat /\ Len(AllWords(p)) = Len(Words(p).done) + 1 /\ AllWords(p) \in Seq(Seq(Nat))
      BY WordsType
    <3>2. Len(Words(p).done) = Spaces(p)
      BY WordsCounted
    <3> QED BY <2>2, <2>4, <3>1, <3>2
  <2>6. /\ CP \in Nat \ {0} /\ HB \in Nat \ {0} /\ CP * HB \in Nat \ {0}
        /\ Times(hot_words, x, AllWords(p), n) = ((x * Gain(hot_words, TRUE, p)) * (CP * HB)) \div LmUnit
    BY <1>1, <2>2, <2>3, <2>5, NextWord
  <2>7. g = Gain(hot_words, TRUE, p)
    BY <1>7 DEF Gain
  <2>8. G = Times(hot_words, 1, AllWords(p), n)
    <3>1. G = Times(hot_words, 1, Words(q).done, Len(Words(q).done))
      BY <1>7 DEF Gain
    <3> QED BY <2>3, <2>5, <3>1, Zenon
  <2>9. Times(hot_words, x, AllWords(p), n) = x * G
    BY <1>1, <2>5, <2>8, TimesLinear
  <2> HIDE DEF s, g, G, CP, HB
  <2>10. x * G = ((x * g) * (CP * HB)) \div LmUnit
    BY <2>6, <2>7, <2>9, Zenon
  <2>11. prob * CP * HB = prob * (CP * HB) /\ prob * (CP * HB) \in Nat
    BY <2>6
  <2>12. s = (prob * (CP * HB)) \div LmUnit
    BY <2>1, <2>11, Zenon
  <2>13. s \in Nat
    BY <1>1, <2>11, <2>12, DivProps
  <2>14. prob = x * g => s = x * G
    BY <2>10, <2>12, Zenon
  <2>15. ASSUME prob <= x * g PROVE s <= x * G
    <3>1. x * g \in Nat /\ (x * g) * (CP * HB) \in Nat
      BY <1>5, <2>6, MulNat
    <3>2. CP * HB \in Nat /\ CP * HB <= CP * HB
      BY <2>6
    <3>3. prob * (CP * HB) <= (x * g) * (CP * HB)
      BY <2>15, <3>1, <3>2, MulMono
    <3>4. (prob * (CP * HB)) \div LmUnit <= ((x * g) * (CP * HB)) \div LmUnit
      BY <1>1, <2>11, <3>1, <3>3, DivMono
    <3> QED BY <2>10, <2>12, <3>4
  <2> QED BY <1>5, <2>13, <2>14, <2>15 DEF s, g, G, q
<1> QED BY <1>6, <1>7
\* decode gives the word at the end its factor, without a boost.
LEMMA RescoredGain ==
  ASSUME SettingsOK, ext_scorer, NEW q, Legal(q), NEW x \in Nat, Spaces(q) <= MaxWords,
         q # << >> /\ ~Boundary(Last(q)) => Spaces(q) + 1 <= MaxWords,
         trie[q].score = x * Gain(hot_words, ext_scorer, q)
  PROVE  Rescored(q) = Times(hot_words, x,
                             IF Words(q).open = << >> THEN Words(q).done
                                                      ELSE Append(Words(q).done, Words(q).open),
                             Len(Words(q).done))
<1> DEFINE d == Words(q).done
           o == Words(q).open
           n == Len(d)
           g == Gain(hot_words, TRUE, q)
<1>1. HotOK(hot_words) /\ q \in Seq(Nat) /\ d \in Seq(Seq(Nat)) /\ n \in Nat /\ n = Spaces(q) /\ n <= MaxWords
  BY WordsType, WordsCounted DEF SettingsOK, HotOK, Legal
<1>2. trie[q].score = x * g
  BY DEF Gain
<1>3. Times(hot_words, x, d, n) = x * g
  BY <1>1, TimesLinear DEF Gain
<1>4. g \in Nat
  BY <1>1, GainType
<1>5. o = LastWord(q)
  BY <1>1, WordsRead DEF Legal
<1>6. CASE q = << >> \/ Last(q) = space_id
  <2>1. Rescored(q) = trie[q].score
    BY <1>6 DEF Rescored, Boundary
  <2>2. o = << >>
    <3>1. CASE q = << >>
      <4>1. 0 \in Nat /\ << >> \in Seq(Nat)
        OBVIOUS
      <4>2. LastWord(<< >>) = << >>
        BY <4>1, LastWordAppend
      <4> QED BY <1>5, <3>1, <4>2
    <3>2. CASE q # << >>
      <4>1. Front(q) \in Seq(Nat) /\ Last(q) \in Nat /\ q = Append(Front(q), Last(q))
        BY <1>1, <3>2, FrontProps
      <4>2. LastWord(Append(Front(q), Last(q))) = << >>
        BY <1>6, <3>2, <4>1, LastWordAppend
      <4> QED BY <1>5, <4>1, <4>2
    <3> QED BY <3>1, <3>2
  <2> HIDE DEF d, o, g, n
  <2>3. Rescored(q) = Times(hot_words, x, IF o = << >> THEN d ELSE Append(d, o), n)
    BY <1>2, <1>3, <2>1, <2>2, Zenon
  <2> QED BY <2>3 DEF d, o, n
<1>7. CASE q # << >> /\ Last(q) # space_id
  <2>1. Rescored(q) = (trie[q].score * CondProb(make_ngram(q))) \div LmUnit
    BY <1>7 DEF Rescored, Boundary
  <2>2. Spaces(q) + 1 <= MaxWords
    BY <1>7 DEF Boundary
  <2>3. LastWord(q) # << >>
    <3>1. Front(q) \in Seq(Nat) /\ Last(q) \in Nat /\ q = Append(Front(q), Last(q))
      BY <1>1, <1>7, FrontProps
    <3>2. /\ LastWord(Append(Front(q), Last(q))) = Append(LastWord(Front(q)), Last(q))
          /\ LastWord(Front(q)) \in Seq(Nat)
      BY <1>7, <3>1, LastWordAppend
    <3>3. PICK l \in Seq(Nat) : l = LastWord(Front(q))
      BY <3>2
    <3>4. Append(l, Last(q)) # << >>
      BY <3>1, AppendProps
    <3> QED BY <3>1, <3>2, <3>3, <3>4, Zenon
  <2>4. n <= n /\ ~(n < n)
    BY <1>1
  <2> DEFINE CP == CondProb(make_ngram(q))
  <2>5. /\ CP \in Nat \ {0}
        /\ Times(hot_words, x, AllWords(q), n) = ((x * g) * (CP * 1)) \div LmUnit
    BY <1>1, <2>2, <2>3, <2>4, NextWord
  <2>6. o # << >> /\ AllWords(q) = Append(d, o)
    BY <1>5, <2>3 DEF AllWords
  <2> HIDE DEF d, o, g, n, CP
  <2>7. CP * 1 = CP
    BY <2>5
  <2>8. Rescored(q) = Times(hot_words, x, IF o = << >> THEN d ELSE Append(d, o), n)
    <3>1. Rescored(q) = ((x * g) * CP) \div LmUnit
      BY <1>2, <2>1, Zenon DEF CP
    <3> QED BY <2>5, <2>6, <2>7, <3>1, Zenon
  <2> QED BY <2>8 DEF d, o, n
<1> QED BY <1>6, <1>7
-----------------------------------------------------------------------------
(* The alignments of a transcript *)

Alignments(n) == {a \in Seq(Classes) : Len(a) = n}

LEMMA AlignmentsAre ==
  ASSUME NEW n \in Nat
  PROVE  [1 .. n -> Classes] = Alignments(n)
<1>1. ASSUME NEW a \in [1 .. n -> Classes] PROVE a \in Seq(Classes) /\ Len(a) = n
  BY <1>1
<1>2. ASSUME NEW a \in Seq(Classes), Len(a) = n PROVE a \in [1 .. n -> Classes]
  BY <1>2
<1> QED BY <1>1, <1>2 DEF Alignments

LEMMA AlignmentsFinite ==
  ASSUME NEW n \in Nat
  PROVE  IsFiniteSet(Alignments(n))
<1> DEFINE S == {k \in 0 .. n : IsFiniteSet(Alignments(k))}
<1>1. 0 \in S
  <2>1. \A a \in Seq(Classes) : Len(a) = 0 => a = << >>
    OBVIOUS
  <2>2. Alignments(0) \subseteq {<< >>} /\ IsFiniteSet({<< >>})
    BY <2>1, FS_Singleton DEF Alignments
  <2>3. IsFiniteSet(Alignments(0))
    BY <2>2, FS_Subset
  <2> QED BY <2>3
<1>2. ASSUME NEW k \in 0 .. n - 1, k \in S PROVE k + 1 \in S
  <2> DEFINE A == Alignments(k)
             P == A \X Classes
             T == Alignments(k + 1)
             f == [p \in P |-> Append(p[1], p[2])]
  <2>1. IsFiniteSet(A) /\ k \in Nat
    BY <1>2
  <2>2. IsFiniteSet(Classes)
    BY FS_Interval, DecoderAssumption DEF Classes
  <2>3. IsFiniteSet(P)
    <3> HIDE DEF A
    <3> QED BY <2>1, <2>2, FS_Product
  <2>4. ASSUME NEW a \in A, NEW c \in Classes PROVE Append(a, c) \in T
    BY <2>1, AppendProps DEF Alignments
  <2>5. f \in [P -> T]
    <3> HIDE DEF A, T
    <3> QED BY <2>4
  <2>6. ASSUME NEW t \in T PROVE \E p \in P : f[p] = t
    <3>1. t \in Seq(Classes) /\ t # << >> /\ Len(t) = k + 1
      BY <2>1 DEF Alignments
    <3>2. Front(t) \in Seq(Classes) /\ Len(Front(t)) = Len(t) - 1 /\ Last(t) \in Classes /\ t = Append(Front(t), Last(t))
      BY <3>1, FrontProps
    <3>3. Front(t) \in A
      BY <2>1, <3>1, <3>2 DEF Alignments
    <3>4. <<Front(t), Last(t)>> \in P /\ f[<<Front(t), Last(t)>>] = Append(Front(t), Last(t))
      <4> HIDE DEF A
      <4> QED BY <3>2, <3>3
    <3> HIDE DEF P, f
    <3> QED BY <3>2, <3>4
  <2> HIDE DEF P, T, f
  <2>7. f \in Surjection(P, T)
    BY <2>5, <2>6 DEF Surjection
  <2>8. IsFiniteSet(T)
    BY <2>3, <2>7, FS_Surjection
  <2> QED BY <2>8 DEF T
<1>3. n \in S
  <2>1. n \in 0 .. n
    OBVIOUS
  <2> HIDE DEF S
  <2> QED BY <1>1, <1>2, <2>1, UpTo
<1> QED BY <1>3

\* An alignment that ends in a label has a transcript that ends in it.
LEMMA CollapseLast ==
  ASSUME NEW a \in Seq(Classes), a # << >>, Last(a) # blank_id
  PROVE  Collapse(a) \in Seq(Classes) /\ Collapse(a) # << >> /\ Last(Collapse(a)) = Last(a)
<1> DEFINE Good(b) == b # << >> /\ Last(b) # blank_id =>
                        Collapse(b) \in Seq(Classes) /\ Collapse(b) # << >> /\ Last(Collapse(b)) = Last(b)
           S == {n \in 0 .. Len(a) : \A b \in Alignments(n) : Good(b)}
<1>1. 0 \in S
  <2>1. \A b \in Seq(Classes) : Len(b) = 0 => b = << >>
    OBVIOUS
  <2> QED BY <2>1 DEF Alignments
<1>2. ASSUME NEW n \in 0 .. Len(a) - 1, n \in S PROVE n + 1 \in S
  <2> SUFFICES ASSUME NEW b \in Alignments(n + 1), Last(b) # blank_id
               PROVE  Collapse(b) \in Seq(Classes) /\ Collapse(b) # << >> /\ Last(Collapse(b)) = Last(b)
    OBVIOUS
  <2>1. b \in Seq(Classes) /\ b # << >> /\ Len(b) = n + 1
    BY DEF Alignments
  <2>2. PICK p \in Seq(Classes), x \in Classes : b = Append(p, x) /\ Len(p) = n /\ x = Last(b)
    <3>1. Front(b) \in Seq(Classes) /\ Len(Front(b)) = Len(b) - 1 /\ Last(b) \in Classes /\ b = Append(Front(b), Last(b))
      BY <2>1, FrontProps
    <3>2. Len(Front(b)) = n
      BY <2>1, <3>1
    <3> QED BY <3>1, <3>2
  <2>3. /\ Collapse(p) \in Seq(Classes)
        /\ Collapse(Append(p, x)) = IF x = blank_id \/ (p # << >> /\ Last(p) = x)
                                    THEN Collapse(p) ELSE Append(Collapse(p), x)
    BY CollapseAppend
  <2>4. CASE p # << >> /\ Last(p) = x
    <3>1. Good(p)
      BY <1>2, <2>2 DEF Alignments
    <3>2. Collapse(b) = Collapse(p)
      BY <2>2, <2>3, <2>4
    <3> QED BY <2>2, <2>4, <3>1, <3>2
  <2>5. CASE ~(p # << >> /\ Last(p) = x)
    <3>1. Collapse(b) = Append(Collapse(p), x)
      BY <2>2, <2>3, <2>5
    <3>2. PICK q \in Seq(Classes) : q = Collapse(p)
      BY <2>3
    <3>3. Append(q, x) \in Seq(Classes) /\ Append(q, x) # << >> /\ Last(Append(q, x)) = x
      BY AppendProps
    <3> QED BY <2>2, <3>1, <3>2, <3>3, Zenon
  <2> QED BY <2>4, <2>5
<1>3. Len(a) \in S
  <2>1. Len(a) \in Nat /\ Len(a) \in 0 .. Len(a)
    OBVIOUS
  <2> HIDE DEF S
  <2> QED BY <1>1, <1>2, <2>1, UpTo
<1>4. Good(a)
  BY <1>3 DEF Alignments
<1> QED BY <1>4
\* The total weight of some alignments in the rows rs.
Mass(rs, A) == SumFunction([a \in A |-> WeightOf(rs, a)])

RowSeqs == Seq([Classes -> Nat])

LEMMA WeightNat ==
  ASSUME NEW rs \in RowSeqs, NEW a \in Alignments(Len(rs))
  PROVE  WeightOf(rs, a) \in Nat
<1>1. a \in Seq(Classes) /\ Len(a) = Len(rs) /\ rs \in Seq([Classes -> Nat])
  BY DEF Alignments, RowSeqs
<1>2. PICK w \in [Classes -> Nat] : w = [c \in Classes |-> 0]
  OBVIOUS
<1>3. blank_id \in Classes
  BY DecoderAssumption DEF blank_id, Classes
<1> QED BY <1>1, <1>2, <1>3, WeightAppend

LEMMA MassType ==
  ASSUME NEW rs \in RowSeqs, NEW A \in SUBSET Alignments(Len(rs))
  PROVE  IsFiniteSet(A) /\ [a \in A |-> WeightOf(rs, a)] \in [A -> Nat] /\ Mass(rs, A) \in Nat
<1>1. Len(rs) \in Nat
  BY DEF RowSeqs
<1>2. IsFiniteSet(A)
  BY <1>1, AlignmentsFinite, FS_Subset
<1> DEFINE g == [a \in A |-> WeightOf(rs, a)]
<1>3. g \in [A -> Nat]
  BY WeightNat
<1> HIDE DEF g
<1>4. PICK f : Sums(f, A, g)
  BY <1>2, <1>3, SumExists
<1>5. SumFunction(g) \in Nat
  BY <1>2, <1>3, <1>4, SumIs
<1> QED BY <1>2, <1>3, <1>5 DEF Mass, g

LEMMA MassNone == \A rs : Mass(rs, {}) = 0
<1> SUFFICES ASSUME NEW rs PROVE Mass(rs, {}) = 0
  OBVIOUS
<1> DEFINE S == {}
           g == [a \in S |-> WeightOf(rs, a)]
           f == [s \in SUBSET S |-> 0]
<1>1. IsFiniteSet(S) /\ g \in [S -> Nat]
  BY FS_EmptySet
<1>2. Sums(f, S, g) /\ f[S] = 0
  BY DEF Sums
<1> HIDE DEF f, g, S
<1>3. SumFunction(g) = 0
  BY <1>1, <1>2, SumIs
<1> QED BY <1>3 DEF Mass, g, S

LEMMA MassUnion ==
  ASSUME NEW rs \in RowSeqs, NEW A \in SUBSET Alignments(Len(rs)), NEW B \in SUBSET Alignments(Len(rs)),
         A \cap B = {}
  PROVE  Mass(rs, A \cup B) = Mass(rs, A) + Mass(rs, B)
<1> DEFINE S == A \cup B
           g == [a \in S |-> WeightOf(rs, a)]
           u == [a \in A |-> WeightOf(rs, a)]
           v == [a \in B |-> WeightOf(rs, a)]
<1>1. S \in SUBSET Alignments(Len(rs)) /\ A \in SUBSET S /\ S \ A = B
  OBVIOUS
<1>2. IsFiniteSet(S) /\ g \in [S -> Nat]
  <2> HIDE DEF S
  <2> QED BY <1>1, MassType
<1>3. u = [x \in A |-> g[x]] /\ v = [x \in S \ A |-> g[x]]
  <2>1. \A x \in A : g[x] = WeightOf(rs, x)
    OBVIOUS
  <2>2. \A x \in B : g[x] = WeightOf(rs, x)
    OBVIOUS
  <2> HIDE DEF g
  <2>3. v = [x \in B |-> g[x]]
    BY <2>2
  <2> HIDE DEF v
  <2> QED BY <1>1, <2>1, <2>3
<1> HIDE DEF g, S
<1>4. SumFunction(g) = SumFunction([x \in A |-> g[x]]) + SumFunction([x \in S \ A |-> g[x]])
  BY <1>1, <1>2, SumParts
<1> HIDE DEF u, v
<1>5. SumFunction(g) = SumFunction(u) + SumFunction(v)
  BY <1>3, <1>4, Zenon
<1> QED BY <1>5 DEF Mass, g, u, v, S

\* One more row, with the same class in all alignments.
LEMMA MassExtend ==
  ASSUME NEW rs \in RowSeqs, NEW A \in SUBSET Alignments(Len(rs)), NEW w \in [Classes -> Nat],
         NEW c \in Classes
  PROVE  Mass(Append(rs, w), {Append(a, c) : a \in A}) = w[c] * Mass(rs, A)
<1> DEFINE T == {Append(a, c) : a \in A}
           r == Append(rs, w)
           g == [a \in A |-> WeightOf(rs, a)]
           k == [t \in T |-> WeightOf(r, t)]
           h == [a \in A |-> Append(a, c)]
<1>1. IsFiniteSet(A) /\ g \in [A -> Nat] /\ rs \in Seq([Classes -> Nat]) /\ w[c] \in Nat
  BY MassType DEF RowSeqs
<1>2. ASSUME NEW a \in A
      PROVE  /\ a \in Seq(Classes) /\ Len(a) = Len(rs) /\ h[a] = Append(a, c)
             /\ WeightOf(rs, a) \in Nat
             /\ WeightOf(r, Append(a, c)) = w[c] * WeightOf(rs, a)
  <2>1. a \in Seq(Classes) /\ Len(a) = Len(rs)
    BY DEF Alignments
  <2> QED BY <1>1, <2>1, WeightAppend
<1>3. h \in [A -> T] /\ \A y \in T : \E x \in A : y = h[x]
  OBVIOUS
<1>4. \A x, y \in A : h[x] = h[y] => x = y
  <2> SUFFICES ASSUME NEW x \in A, NEW y \in A, h[x] = h[y] PROVE x = y
    OBVIOUS
  <2>1. Append(x, c) = Append(y, c) /\ x \in Seq(Classes) /\ y \in Seq(Classes)
    BY <1>2
  <2>2. Front(Append(x, c)) = x
    BY <2>1, AppendProps
  <2>3. Front(Append(y, c)) = y
    BY <2>1, AppendProps
  <2> QED BY <2>1, <2>2, <2>3, Zenon
<1>5. k \in [T -> Nat] /\ \A x \in A : k[h[x]] = w[c] * g[x]
  <2>1. \A x, y \in Nat : x * y \in Nat
    OBVIOUS
  <2>2. ASSUME NEW t \in T PROVE WeightOf(r, t) \in Nat
    <3>1. PICK a \in A : t = Append(a, c)
      OBVIOUS
    <3>2. w[c] * WeightOf(rs, a) \in Nat
      BY <1>1, <1>2, <2>1
    <3> QED BY <1>2, <3>1, <3>2, Zenon
  <2>3. ASSUME NEW x \in A PROVE k[h[x]] = w[c] * g[x]
    <3>1. Append(x, c) \in T
      OBVIOUS
    <3> HIDE DEF T
    <3>2. k[Append(x, c)] = WeightOf(r, Append(x, c))
      BY <3>1, Zenon
    <3>3. g[x] = WeightOf(rs, x) /\ h[x] = Append(x, c)
      BY Zenon
    <3> QED BY <1>2, <3>2, <3>3, Zenon
  <2> QED BY <2>2, <2>3
<1> HIDE DEF T, h, g, k
<1>6. SumFunction(k) = w[c] * SumFunction(g)
  <2>1. Scales(h, A, g, T, k, w[c])
    BY <1>1, <1>3, <1>4, <1>5 DEF Scales
  <2> QED BY <1>1, <2>1, SumScaled
<1> QED BY <1>6 DEF Mass, k, g, T
\* The alignments of q that end in a blank, or not, and their weights.
EndsBlank(a) == a = << >> \/ Last(a) = blank_id

AlB(n, q) == {a \in Alignments(n) : Collapse(a) = q /\ EndsBlank(a)}

AlN(n, q) == {a \in Alignments(n) : Collapse(a) = q /\ ~EndsBlank(a)}

MassB(rs, q) == Mass(rs, AlB(Len(rs), q))

MassN(rs, q) == Mass(rs, AlN(Len(rs), q))

LEMMA MassNat ==
  ASSUME NEW rs \in RowSeqs, NEW q
  PROVE  MassB(rs, q) \in Nat /\ MassN(rs, q) \in Nat
<1>1. AlB(Len(rs), q) \in SUBSET Alignments(Len(rs)) /\ AlN(Len(rs), q) \in SUBSET Alignments(Len(rs))
  BY DEF AlB, AlN
<1> QED BY <1>1, MassType DEF MassB, MassN

\* An alignment of one more row.
LEMMA OneMore ==
  ASSUME NEW n \in Nat
  PROVE  /\ \A a \in Alignments(n), x \in Classes :
              /\ Append(a, x) \in Alignments(n + 1) /\ (EndsBlank(Append(a, x)) <=> x = blank_id)
              /\ Collapse(Append(a, x)) = IF x = blank_id \/ (a # << >> /\ Last(a) = x)
                                          THEN Collapse(a) ELSE Append(Collapse(a), x)
              /\ Collapse(a) \in Seq(Classes)
         /\ \A b \in Alignments(n + 1) : \E a \in Alignments(n), x \in Classes : b = Append(a, x)
<1>1. ASSUME NEW a \in Alignments(n), NEW x \in Classes
      PROVE  /\ Append(a, x) \in Alignments(n + 1) /\ (EndsBlank(Append(a, x)) <=> x = blank_id)
             /\ Collapse(Append(a, x)) = IF x = blank_id \/ (a # << >> /\ Last(a) = x)
                                         THEN Collapse(a) ELSE Append(Collapse(a), x)
             /\ Collapse(a) \in Seq(Classes)
  <2>1. a \in Seq(Classes) /\ Len(a) = n
    BY DEF Alignments
  <2>2. PICK b : b = Append(a, x)
    OBVIOUS
  <2>3. b \in Seq(Classes) /\ b # << >> /\ Len(b) = n + 1 /\ Last(b) = x
    BY <2>1, <2>2, AppendProps
  <2>4. b \in Alignments(n + 1) /\ (EndsBlank(b) <=> x = blank_id)
    BY <2>3 DEF Alignments, EndsBlank
  <2>5. /\ Collapse(Append(a, x)) = IF x = blank_id \/ (a # << >> /\ Last(a) = x)
                                    THEN Collapse(a) ELSE Append(Collapse(a), x)
        /\ Collapse(a) \in Seq(Classes)
    BY <2>1, CollapseAppend
  <2> QED BY <2>2, <2>4, <2>5, Zenon
<1>2. ASSUME NEW b \in Alignments(n + 1) PROVE \E a \in Alignments(n), x \in Classes : b = Append(a, x)
  <2>1. b \in Seq(Classes) /\ b # << >> /\ Len(b) = n + 1
    BY DEF Alignments
  <2>2. Front(b) \in Seq(Classes) /\ Len(Front(b)) = Len(b) - 1 /\ Last(b) \in Classes /\ b = Append(Front(b), Last(b))
    BY <2>1, FrontProps
  <2>3. Front(b) \in Alignments(n)
    BY <2>1, <2>2 DEF Alignments
  <2> QED BY <2>2, <2>3, Zenon
<1> QED BY <1>1, <1>2

LEMMA MoreRows ==
  ASSUME NEW rs \in RowSeqs, NEW w \in [Classes -> Nat]
  PROVE  Append(rs, w) \in RowSeqs /\ Len(Append(rs, w)) = Len(rs) + 1 /\ Len(rs) \in Nat
<1> DEFINE R == [Classes -> Nat]
<1>1. rs \in Seq(R) /\ w \in R
  BY DEF RowSeqs
<1> HIDE DEF R
<1>2. Append(rs, w) \in Seq(R) /\ Len(Append(rs, w)) = Len(rs) + 1 /\ Len(rs) \in Nat
  BY <1>1
<1> QED BY <1>2 DEF R, RowSeqs

LEMMA MassBlank ==
  ASSUME NEW rs \in RowSeqs, NEW w \in [Classes -> Nat], NEW q
  PROVE  MassB(Append(rs, w), q) = w[blank_id] * (MassB(rs, q) + MassN(rs, q))
<1> DEFINE n == Len(rs)
           A == AlB(n, q)
           B == AlN(n, q)
           U == A \cup B
<1>1. n \in Nat /\ Len(Append(rs, w)) = n + 1
  BY MoreRows
<1>2. blank_id \in Classes
  BY DecoderAssumption DEF blank_id, Classes
<1>3. /\ A \in SUBSET Alignments(n) /\ B \in SUBSET Alignments(n) /\ U \in SUBSET Alignments(n)
      /\ A \cap B = {}
  BY DEF AlB, AlN
<1>4. \A a \in Alignments(n) : a \in U <=> Collapse(a) = q
  BY DEF AlB, AlN
<1> HIDE DEF A, B, U
<1>5. AlB(n + 1, q) = {Append(a, blank_id) : a \in U}
  <2>1. ASSUME NEW b \in AlB(n + 1, q) PROVE \E a \in U : b = Append(a, blank_id)
    <3>1. b \in Alignments(n + 1) /\ Collapse(b) = q /\ EndsBlank(b)
      BY DEF AlB
    <3>2. PICK a \in Alignments(n), x \in Classes : b = Append(a, x)
      BY <1>1, <3>1, OneMore
    <3>3. x = blank_id
      BY <1>1, <3>1, <3>2, OneMore
    <3>4. Collapse(a) = q
      BY <1>1, <3>1, <3>2, <3>3, OneMore
    <3> QED BY <1>4, <3>2, <3>3, <3>4
  <2>2. ASSUME NEW a \in U PROVE Append(a, blank_id) \in AlB(n + 1, q)
    <3>1. a \in Alignments(n) /\ Collapse(a) = q
      BY <1>3, <1>4
    <3>2. /\ Append(a, blank_id) \in Alignments(n + 1) /\ EndsBlank(Append(a, blank_id))
          /\ Collapse(Append(a, blank_id)) = Collapse(a)
      BY <1>1, <1>2, <3>1, OneMore
    <3> QED BY <3>1, <3>2, Zenon DEF AlB
  <2> QED BY <2>1, <2>2, Zenon
<1>6. Mass(Append(rs, w), {Append(a, blank_id) : a \in U}) = w[blank_id] * Mass(rs, U)
  BY <1>2, <1>3, MassExtend
<1>7. Mass(rs, U) = Mass(rs, A) + Mass(rs, B)
  BY <1>3, MassUnion DEF U
<1> QED BY <1>1, <1>5, <1>6, <1>7, Zenon DEF MassB, MassN, A, B

\* Before the first row, and the empty transcript.
LEMMA MassFirst ==
  /\ MassB(<< >>, << >>) = 1
  /\ \A q : MassN(<< >>, q) = 0 /\ (q # << >> => MassB(<< >>, q) = 0)
<1>1. /\ Len(<< >>) = 0 /\ << >> \in RowSeqs /\ << >> \in Seq(Classes)
      /\ \A a \in Seq(Classes) : Len(a) = 0 => a = << >>
  BY DEF RowSeqs
<1>2. Alignments(0) = {<< >>}
  BY <1>1 DEF Alignments
<1>3. blank_id \in Classes
  BY DecoderAssumption DEF blank_id, Classes
<1>4. Collapse(<< >>) = << >>
  BY <1>1, <1>3, CollapseAppend
<1>5. AlB(0, << >>) = {<< >>} /\ \A q : AlN(0, q) = {} /\ (q # << >> => AlB(0, q) = {})
  BY <1>2, <1>4 DEF AlB, AlN, EndsBlank
<1>6. Mass(<< >>, {<< >>}) = 1
  <2> DEFINE S == {<< >>}
             g == [a \in S |-> WeightOf(<< >>, a)]
             f == [s \in SUBSET S |-> IF s = {} THEN 0 ELSE 1]
  <2>1. WeightOf(<< >>, << >>) = 1
    <3>1. PICK w \in [Classes -> Nat] : w = [c \in Classes |-> 0]
      OBVIOUS
    <3>2. << >> \in Seq([Classes -> Nat])
      OBVIOUS
    <3> QED BY <1>1, <1>3, <3>1, <3>2, WeightAppend
  <2>2. IsFiniteSet(S) /\ g \in [S -> Nat] /\ \A x \in S : g[x] = 1
    BY <2>1, FS_Singleton
  <2>3. f \in [SUBSET S -> Nat] /\ f[{}] = 0 /\ f[S] = 1
    OBVIOUS
  <2>4. ASSUME NEW s \in SUBSET S, NEW x \in s PROVE f[s] = g[x] + f[s \ {x}]
    <3>1. s \ {x} = {} /\ s # {} /\ x \in S /\ {} \in SUBSET S
      OBVIOUS
    <3>2. f[s] = 1 /\ f[s \ {x}] = 0
      BY <3>1
    <3> QED BY <2>2, <3>1, <3>2
  <2> HIDE DEF f, g, S
  <2>5. Sums(f, S, g)
    BY <2>3, <2>4 DEF Sums
  <2>6. SumFunction(g) = f[S]
    BY <2>2, <2>5, SumIs
  <2> QED BY <2>3, <2>6 DEF Mass, g, S
<1> QED BY <1>1, <1>5, <1>6, MassNone, Zenon DEF MassB, MassN
\* No alignment of the empty transcript ends in a label.
LEMMA MassEmpty ==
  ASSUME NEW rs \in RowSeqs
  PROVE  MassN(rs, << >>) = 0
<1>1. ASSUME NEW a \in AlN(Len(rs), << >>) PROVE FALSE
  <2>1. a \in Seq(Classes) /\ Collapse(a) = << >> /\ a # << >> /\ Last(a) # blank_id
    BY DEF AlN, Alignments, EndsBlank
  <2> QED BY <2>1, CollapseLast
<1>2. AlN(Len(rs), << >>) = {}
  BY <1>1
<1> QED BY <1>2, MassNone, Zenon DEF MassN

LEMMA MassLabel ==
  ASSUME NEW rs \in RowSeqs, NEW w \in [Classes -> Nat], NEW p \in Paths, NEW c \in Labels
  PROVE  MassN(Append(rs, w), Append(p, c)) =
           w[c] * MassN(rs, Append(p, c))
             + w[c] * (IF character(p) = c THEN MassB(rs, p) ELSE MassB(rs, p) + MassN(rs, p))
<1> DEFINE n == Len(rs)
           q == Append(p, c)
           A == AlN(n, q)
           B == AlB(n, p)
           C == AlN(n, p)
           P == IF character(p) = c THEN B ELSE B \cup C
           U == A \cup P
<1>1. n \in Nat /\ Len(Append(rs, w)) = n + 1
  BY MoreRows
<1>2. c \in Classes /\ c # blank_id /\ Labels \subseteq Classes /\ c # ROOT
  BY DecoderAssumption DEF blank_id, Classes, Labels, ROOT
<1>3. p \in Seq(Classes) /\ q \in Seq(Classes) /\ q # << >> /\ Last(q) = c /\ q # p /\ Front(q) = p
  <2>1. p \in Seq(Labels)
    BY DEF Paths
  <2>2. p \in Seq(Classes)
    BY <1>2, <2>1
  <2>3. q \in Seq(Classes) /\ q # << >> /\ Last(q) = c /\ Front(q) = p /\ Len(q) = Len(p) + 1
    BY <1>2, <2>2, AppendProps
  <2>4. Len(p) \in Nat
    BY <2>2
  <2> HIDE DEF q
  <2> QED BY <2>2, <2>3, <2>4
<1>4. /\ A \in SUBSET Alignments(n) /\ B \in SUBSET Alignments(n) /\ C \in SUBSET Alignments(n)
      /\ P \in SUBSET Alignments(n) /\ U \in SUBSET Alignments(n)
      /\ B \cap C = {} /\ A \cap P = {}
  BY <1>3 DEF AlB, AlN
<1>5. ASSUME NEW a \in Alignments(n)
      PROVE  /\ a \in A <=> Collapse(a) = q /\ ~EndsBlank(a)
             /\ a \in B <=> Collapse(a) = p /\ EndsBlank(a)
             /\ a \in C <=> Collapse(a) = p /\ ~EndsBlank(a)
             /\ ~EndsBlank(a) => a # << >> /\ Last(a) # blank_id /\ Collapse(a) # << >> /\ Last(Collapse(a)) = Last(a)
             /\ EndsBlank(a) => a = << >> \/ Last(a) = blank_id
  <2>1. a \in Seq(Classes)
    BY DEF Alignments
  <2> QED BY <2>1, CollapseLast DEF AlB, AlN, EndsBlank
<1>6. character(p) = c <=> p # << >> /\ Last(p) = c
  BY <1>2 DEF character
<1> HIDE DEF A, B, C, q
<1>7. ASSUME NEW a \in Alignments(n)
      PROVE  a \in U <=> /\ Collapse(Append(a, c)) = q
                         /\ ~EndsBlank(Append(a, c)) /\ Append(a, c) \in Alignments(n + 1)
  <2>1. /\ Append(a, c) \in Alignments(n + 1) /\ ~EndsBlank(Append(a, c))
        /\ Collapse(Append(a, c)) = IF a # << >> /\ Last(a) = c THEN Collapse(a) ELSE Append(Collapse(a), c)
        /\ Collapse(a) \in Seq(Classes)
    BY <1>1, <1>2, OneMore
  <2>2. CASE a # << >> /\ Last(a) = c
    <3>1. Collapse(Append(a, c)) = Collapse(a)
      BY <2>1, <2>2
    <3>2. ~EndsBlank(a) /\ Last(Collapse(a)) = c /\ Collapse(a) # << >>
      BY <1>2, <1>5, <2>2
    <3>3. a \in P => character(p) # c /\ Collapse(a) = p
      BY <1>5, <3>2
    <3>4. a \notin P
      BY <1>6, <3>2, <3>3
    <3>5. a \in U <=> Collapse(a) = q
      BY <1>5, <3>2, <3>4
    <3> QED BY <2>1, <3>1, <3>5, Zenon
  <2>3. CASE ~(a # << >> /\ Last(a) = c)
    <3>1. Collapse(Append(a, c)) = Append(Collapse(a), c)
      BY <2>1, <2>3
    <3>2. Collapse(Append(a, c)) = q <=> Collapse(a) = p
      <4>1. PICK r \in Seq(Classes) : r = Collapse(a)
        BY <2>1
      <4>2. Front(Append(r, c)) = r
        BY <1>2, AppendProps
      <4>3. Append(r, c) = q => r = p
        BY <1>3, <4>2
      <4>4. r = p => Append(r, c) = q
        BY DEF q
      <4> QED BY <3>1, <4>1, <4>3, <4>4, Zenon
    <3>3. a \notin A
      BY <1>3, <1>5, <2>3
    <3>4. ASSUME Collapse(a) = p PROVE a \in P
      BY <1>5, <1>6, <2>3, <3>4
    <3>5. a \in P => Collapse(a) = p
      BY <1>5
    <3> HIDE DEF P
    <3> QED BY <2>1, <3>2, <3>3, <3>4, <3>5, Zenon
  <2> QED BY <2>2, <2>3
<1> HIDE DEF U
<1>8. AlN(n + 1, q) = {Append(a, c) : a \in U}
  <2>1. ASSUME NEW b \in AlN(n + 1, q) PROVE \E a \in U : b = Append(a, c)
    <3>1. b \in Alignments(n + 1) /\ Collapse(b) = q /\ ~EndsBlank(b)
      BY DEF AlN
    <3>2. PICK a \in Alignments(n), x \in Classes : b = Append(a, x)
      BY <1>1, <3>1, OneMore
    <3>3. x = c
      <4>1. x # blank_id /\ a \in Seq(Classes)
        BY <1>1, <3>1, <3>2, OneMore DEF Alignments
      <4>2. b \in Seq(Classes) /\ b # << >> /\ Last(b) = x
        BY <3>2, <4>1, AppendProps
      <4>3. Last(Collapse(b)) = x
        BY <4>1, <4>2, CollapseLast
      <4> QED BY <1>3, <3>1, <4>3
    <3>4. a \in U
      BY <1>7, <3>1, <3>2, <3>3, Zenon
    <3> QED BY <3>2, <3>3, <3>4, Zenon
  <2>2. ASSUME NEW a \in U PROVE Append(a, c) \in AlN(n + 1, q)
    <3>1. a \in Alignments(n)
      BY <1>4
    <3> QED BY <1>7, <3>1, Zenon DEF AlN
  <2> QED BY <2>1, <2>2, Zenon
<1>9. Mass(Append(rs, w), {Append(a, c) : a \in U}) = w[c] * Mass(rs, U)
  BY <1>2, <1>4, MassExtend
<1>10. Mass(rs, U) = Mass(rs, A) + Mass(rs, P)
  <2> HIDE DEF P
  <2> QED BY <1>4, MassUnion DEF U
<1>11. Mass(rs, P) = IF character(p) = c THEN Mass(rs, B) ELSE Mass(rs, B) + Mass(rs, C)
  <2>1. Mass(rs, B \cup C) = Mass(rs, B) + Mass(rs, C)
    BY <1>4, MassUnion
  <2>2. CASE character(p) = c
    BY <2>2
  <2>3. CASE character(p) # c
    BY <2>1, <2>3
  <2> QED BY <2>2, <2>3
<1>12. Mass(rs, A) \in Nat /\ Mass(rs, P) \in Nat /\ w[c] \in Nat
  <2> HIDE DEF P
  <2> QED BY <1>2, <1>4, MassType
<1>13. w[c] * (Mass(rs, A) + Mass(rs, P)) = w[c] * Mass(rs, A) + w[c] * Mass(rs, P)
  <2>1. \A x, y, z \in Nat : x * (y + z) = x * y + x * z
    OBVIOUS
  <2> HIDE DEF P
  <2> QED BY <1>12, <2>1
<1>14. MassN(Append(rs, w), q) = w[c] * Mass(rs, A) + w[c] * Mass(rs, P)
  <2> HIDE DEF P
  <2> QED BY <1>1, <1>8, <1>9, <1>10, <1>13, Zenon DEF MassN
<1>15. Mass(rs, A) = MassN(rs, q) /\ Mass(rs, B) = MassB(rs, p) /\ Mass(rs, C) = MassN(rs, p)
  BY DEF MassN, MassB, A, B, C
<1> HIDE DEF P
<1> QED BY <1>11, <1>14, <1>15, Zenon DEF q
-----------------------------------------------------------------------------
(* The scores of the beam *)

\* No score is above the weight of the alignments, times the factor of the
\* words.
BelowOK ==
  \A q \in prefixes :
    /\ trie[q].log_prob_b_prev <= MassB(rows, q) * Gain(hot_words, ext_scorer, q)
    /\ trie[q].log_prob_nb_prev <= MassN(rows, q) * Gain(hot_words, ext_scorer, q)

\* As long as nothing was pruned, every score is exact, and the transcripts
\* that the beam does not hold have no alignment of their own.
ExactOK ==
  ~pruned =>
    /\ \A q \in prefixes :
         /\ trie[q].log_prob_b_prev = MassB(rows, q) * Gain(hot_words, ext_scorer, q)
         /\ trie[q].log_prob_nb_prev = MassN(rows, q) * Gain(hot_words, ext_scorer, q)
    /\ \A q \in Paths \ prefixes :
         (ext_scorer => Legal(q)) => MassB(rows, q) = 0 /\ MassN(rows, q) = 0

LEMMA ScoresInit == Init => BelowOK /\ ExactOK
<1> SUFFICES ASSUME Init PROVE BelowOK /\ ExactOK
  OBVIOUS
<1>1. rows = << >> /\ prefixes = {<< >>} /\ trie[<< >>].log_prob_b_prev = Scale /\ trie[<< >>].log_prob_nb_prev = 0
  BY DEF Init, NewPathTrie
<1>2. HotOK(hot_words)
  BY DecoderAssumption DEF Init, HotOK
<1>3. Gain(hot_words, ext_scorer, << >>) = Scale /\ Scale \in Nat
  <2>1. Scale \in Nat
    <3>1. MaxWords \in 0 .. MaxWords
      BY DecoderAssumption
    <3> QED BY <3>1, PowerProps DEF Scale
  <2>2. Words(<< >>).done = << >>
    <3>1. << >> \in Seq(Nat) /\ 0 \in Nat
      OBVIOUS
    <3>2. Words(<< >>) = NothingRead
      BY <3>1, WordsAppend
    <3> QED BY <3>2 DEF NothingRead
  <2>3. Len(<< >>) \in Nat /\ 1 \in Nat /\ 1 * Scale = Scale
    BY <2>1
  <2>4. Times(hot_words, 1, << >>, Len(<< >>)) = 1 * Scale
    BY <1>2, <2>3, TimesNone
  <2> QED BY <2>1, <2>2, <2>3, <2>4, Zenon DEF Gain
<1>4. /\ MassB(rows, << >>) = 1 /\ MassN(rows, << >>) = 0
      /\ \A q : q # << >> => MassB(rows, q) = 0 /\ MassN(rows, q) = 0
  BY <1>1, MassFirst
<1> QED BY <1>1, <1>3, <1>4 DEF BelowOK, ExactOK

LEMMA RowsTyped ==
  ASSUME DecoderInv
  PROVE  rows \in RowSeqs /\ Len(rows) \in Nat
<1> DEFINE R == [Classes -> Nat]
<1>1. Emissions \subseteq R
  BY DecoderAssumption
<1>2. rows \in Seq(Emissions)
  BY DEF DecoderInv, CountersOK
<1> HIDE DEF R
<1>3. rows \in Seq(R) /\ Len(rows) \in Nat
  BY <1>1, <1>2
<1> QED BY <1>3 DEF R, RowSeqs

LEMMA RowsAre ==
  ASSUME DecoderInv, NEW w \in Emissions
  PROVE  rows \in RowSeqs /\ w \in [Classes -> Nat]
<1>1. Emissions \subseteq [Classes -> Nat]
  BY DecoderAssumption
<1> QED BY <1>1, RowsTyped

\* The factors of the prefixes, and what is legal.
LEMMA BeamGains ==
  ASSUME DecoderInv, LengthOK, DictOK, NEW q \in prefixes
  PROVE  /\ q \in Paths /\ q \in Seq(Nat) /\ HotOK(hot_words)
         /\ Gain(hot_words, ext_scorer, q) \in Nat \ {0}
         /\ ext_scorer => Legal(q) /\ Spaces(q) <= MaxWords
         /\ trie[q].log_prob_b_prev \in Nat /\ trie[q].log_prob_nb_prev \in Nat
<1>1. q \in Paths /\ q \in Seq(Nat) /\ q \in DOMAIN trie /\ trie[q] \in Nodes
  BY BeamPaths, PathTypes DEF DecoderInv
<1>2. HotOK(hot_words)
  BY DEF DecoderInv, SettingsOK, HotOK
<1>3. ext_scorer => Spaces(q) <= MaxWords
  BY RoomForWords
<1>4. ext_scorer => Legal(q)
  BY <1>1 DEF DictOK, Legal
<1>5. Gain(hot_words, ext_scorer, q) \in Nat \ {0}
  BY <1>1, <1>2, <1>3, GainType
<1> QED BY <1>1, <1>2, <1>3, <1>4, <1>5 DEF Nodes

LEMMA ExtensionGains ==
  ASSUME DecoderInv, LengthOK, DictOK, NEW w \in Emissions, NEW q \in Extensions(w)
  PROVE  /\ q \in Seq(Nat) /\ Gain(hot_words, ext_scorer, q) \in Nat \ {0}
         /\ ext_scorer => Legal(q) /\ Spaces(q) <= MaxWords
<1> DEFINE p == Front(q)
           c == Last(q)
<1>1. /\ q \in Paths /\ p \in prefixes /\ p \in Seq(Nat) /\ c \in Nat /\ q = Append(p, c)
      /\ Len(q) = Len(p) + 1 /\ Len(p) \in Nat /\ (ext_scorer => InDictionary(q))
  BY ExtensionParts
<1>2. q \in Seq(Nat) /\ HotOK(hot_words) /\ MaxWords \in Nat
  BY <1>1, PathTypes, DecoderAssumption DEF DecoderInv, SettingsOK, HotOK
<1> HIDE DEF p, c
<1>3. ASSUME ext_scorer PROVE Legal(q) /\ Spaces(q) <= MaxWords
  <2>1. /\ SubSeq(Append(p, c), 1, Len(p) + 1) = Append(p, c)
        /\ \A k \in 1 .. Len(p) : SubSeq(Append(p, c), 1, k) = SubSeq(p, 1, k)
    BY <1>1, BeginningsAppend
  <2>2. Legal(p) /\ Spaces(p) <= MaxWords
    BY <1>1, <1>3, BeamGains
  <2>3. ASSUME NEW i \in 1 .. Len(q) PROVE InDictionary(SubSeq(q, 1, i))
    <3>1. CASE i = Len(p) + 1
      BY <1>1, <1>3, <2>1, <3>1
    <3>2. CASE i # Len(p) + 1
      <4>1. i \in 1 .. Len(p)
        BY <1>1, <3>2
      <4>2. InDictionary(SubSeq(p, 1, i))
        BY <2>2, <4>1 DEF Legal
      <4> QED BY <1>1, <2>1, <4>1, <4>2
    <3> QED BY <3>1, <3>2
  <2>4. Legal(q)
    BY <1>2, <2>3 DEF Legal
  <2>5. Spaces(p) \in Nat /\ Spaces(Append(p, c)) = IF c = space_id THEN Spaces(p) + 1 ELSE Spaces(p)
    BY <1>1, SpacesAppend
  <2>6. CASE c # space_id
    BY <1>1, <2>2, <2>4, <2>5, <2>6
  <2>7. CASE c = space_id
    <3>1. LastWord(p) # << >>
      BY <1>1, <2>4, <2>7, BeforeSpace
    <3>2. p # << >> /\ ~Boundary(Last(p))
      BY <1>1, <3>1, LastWordEnd DEF Boundary
    <3>3. Spaces(p) + 1 <= MaxWords
      BY <1>1, <1>3, <3>2, RoomForWords
    <3> QED BY <1>1, <2>4, <2>5, <2>7, <3>3
  <2> QED BY <2>6, <2>7
<1>4. Gain(hot_words, ext_scorer, q) \in Nat \ {0}
  BY <1>2, <1>3, GainType
<1> QED BY <1>2, <1>3, <1>4
\* What a prefix hands on to a child: all it has, or for the same label again
\* what ended in a blank.
Handed(rs, p, c) == IF character(p) = c THEN MassB(rs, p) ELSE MassB(rs, p) + MassN(rs, p)

LEMMA Distribute ==
  \A x, y, z \in Nat : /\ (x + y) * z = x * z + y * z /\ x * (y + z) = x * y + x * z
                       /\ x * (y * z) = (x * y) * z
OBVIOUS

LEMMA BaseBound ==
  ASSUME DecoderInv, SumOK, LengthOK, DictOK, BelowOK, NEW p \in prefixes, NEW c,
         rows \in RowSeqs
  PROVE  LET base == IF character(p) = c THEN trie[p].log_prob_b_prev ELSE trie[p].score
             g == Gain(hot_words, ext_scorer, p)
         IN  /\ base \in Nat /\ Handed(rows, p, c) \in Nat /\ base <= Handed(rows, p, c) * g
             /\ trie[p].log_prob_b_prev = MassB(rows, p) * g /\ trie[p].log_prob_nb_prev = MassN(rows, p) * g
                  => base = Handed(rows, p, c) * g
             /\ trie[p].score <= (MassB(rows, p) + MassN(rows, p)) * g
             /\ trie[p].log_prob_b_prev = MassB(rows, p) * g /\ trie[p].log_prob_nb_prev = MassN(rows, p) * g
                  => trie[p].score = (MassB(rows, p) + MassN(rows, p)) * g
<1> DEFINE g == Gain(hot_words, ext_scorer, p)
           b == trie[p].log_prob_b_prev
           n == trie[p].log_prob_nb_prev
           s == trie[p].score
           B == MassB(rows, p)
           N == MassN(rows, p)
<1>1. g \in Nat /\ b \in Nat /\ n \in Nat
  BY BeamGains
<1>2. B \in Nat /\ N \in Nat
  BY MassNat
<1>3. s = b + n /\ b <= B * g /\ n <= N * g
  BY DEF SumOK, BelowOK
<1>4. Handed(rows, p, c) = IF character(p) = c THEN B ELSE B + N
  BY DEF Handed
<1> HIDE DEF g, b, n, s, B, N
<1>5. (B + N) * g = B * g + N * g /\ B * g \in Nat /\ N * g \in Nat
  BY <1>1, <1>2, Distribute
<1>6. s <= (B + N) * g /\ (b = B * g /\ n = N * g => s = (B + N) * g)
  BY <1>1, <1>3, <1>5
<1>7. s \in Nat /\ B + N \in Nat
  BY <1>1, <1>2, <1>3
<1>8. CASE character(p) = c
  <2>1. b \in Nat /\ B \in Nat /\ b <= B * g /\ (b = B * g /\ n = N * g => b = B * g)
    BY <1>1, <1>2, <1>3
  <2> QED BY <1>4, <1>6, <1>8, <2>1, Zenon DEF g, b, n, s, B, N
<1>9. CASE character(p) # c
  BY <1>4, <1>6, <1>7, <1>9, Zenon DEF g, b, n, s, B, N
<1> QED BY <1>8, <1>9

LEMMA ExtendedBound ==
  ASSUME DecoderInv, SumOK, LengthOK, DictOK, BelowOK, NEW w \in Emissions, NEW q \in Extensions(w)
  PROVE  LET p == Front(q)
             x == w[Last(q)] * Handed(rows, p, Last(q))
             g == Gain(hot_words, ext_scorer, p)
             G == Gain(hot_words, ext_scorer, q)
         IN  /\ Extended(w, q) \in Nat /\ Extended(w, q) <= x * G
             /\ trie[p].log_prob_b_prev = MassB(rows, p) * g /\ trie[p].log_prob_nb_prev = MassN(rows, p) * g
                  => Extended(w, q) = x * G
<1> DEFINE p == Front(q)
           c == Last(q)
           h == Handed(rows, p, c)
           x == w[c] * h
           g == Gain(hot_words, ext_scorer, p)
           G == Gain(hot_words, ext_scorer, q)
           base == IF character(p) = c THEN trie[p].log_prob_b_prev ELSE trie[p].score
           prob == w[c] * base
           exact == trie[p].log_prob_b_prev = MassB(rows, p) * g /\ trie[p].log_prob_nb_prev = MassN(rows, p) * g
<1>1. /\ q \in Paths /\ p \in prefixes /\ p \in Seq(Nat) /\ c \in Nat /\ c \in Labels /\ q = Append(p, c)
  BY ExtensionParts
<1>2. rows \in RowSeqs /\ w[c] \in Nat
  BY <1>1, RowsAre, RowTypes
<1>3. ext_scorer => Legal(q) /\ Spaces(q) <= MaxWords
  BY ExtensionGains
<1>4. Extended(w, q) = Scored(prob, q)
  BY DEF Extended
<1> HIDE DEF p, c
<1>5. base \in Nat /\ h \in Nat /\ base <= h * g /\ (exact => base = h * g)
  BY <1>1, <1>2, BaseBound
<1>6. g \in Nat
  BY <1>1, BeamGains
<1> HIDE DEF base, h, exact
<1>7. prob \in Nat /\ x \in Nat /\ prob <= x * g /\ (base = h * g => prob = x * g)
  <2> HIDE DEF g
  <2> DEFINE v == w[c]
  <2>1. v \in Nat
    BY <1>2
  <2> HIDE DEF v
  <2>2. v * base \in Nat /\ v * h \in Nat /\ h * g \in Nat
    BY <1>5, <1>6, <2>1, MulNat
  <2>3. v <= v
    BY <2>1
  <2>4. v * base <= v * (h * g)
    BY <1>5, <2>1, <2>2, <2>3, MulMono
  <2>5. v * (h * g) = (v * h) * g
    BY <1>5, <1>6, <2>1, Distribute
  <2>6. v * base <= (v * h) * g
    BY <2>4, <2>5
  <2>7. base = h * g => v * base = (v * h) * g
    BY <2>5
  <2> QED BY <2>2, <2>6, <2>7 DEF v
<1> HIDE DEF prob, x
<1>8. /\ Scored(prob, Append(p, c)) \in Nat
      /\ prob <= x * g => Scored(prob, Append(p, c)) <= x * Gain(hot_words, ext_scorer, Append(p, c))
      /\ prob = x * g => Scored(prob, Append(p, c)) = x * Gain(hot_words, ext_scorer, Append(p, c))
  <2>1. ext_scorer => Legal(Append(p, c)) /\ Spaces(Append(p, c)) <= MaxWords
    BY <1>1, <1>3
  <2>2. SettingsOK
    BY DEF DecoderInv
  <2> QED BY <1>1, <1>7, <2>1, <2>2, ScoredGain
<1>9. Scored(prob, q) \in Nat /\ Scored(prob, q) <= x * G /\ (exact => Scored(prob, q) = x * G)
  BY <1>1, <1>5, <1>7, <1>8, Zenon
<1> QED BY <1>4, <1>9, Zenon DEF p, c, x, h, exact
LEMMA ScaledBound ==
  \A v, x, m, g \in Nat : x <= m * g => v * x <= (v * m) * g /\ v * x \in Nat /\ (v * m) * g \in Nat
<1> SUFFICES ASSUME NEW v \in Nat, NEW x \in Nat, NEW m \in Nat, NEW g \in Nat, x <= m * g
             PROVE  v * x <= (v * m) * g /\ v * x \in Nat /\ (v * m) * g \in Nat
  OBVIOUS
<1>1. m * g \in Nat /\ v <= v /\ v * (m * g) = (v * m) * g /\ v * x \in Nat /\ v * m \in Nat
  BY Distribute, MulNat
<1>2. v * x <= v * (m * g)
  BY <1>1, MulMono
<1>3. (v * m) * g \in Nat
  BY <1>1, MulNat
<1> QED BY <1>1, <1>2, <1>3

\* The paths that a row leaves in the trie.
LEMMA PathAfter ==
  ASSUME DecoderInv, LengthOK, DictOK, NEW w \in Emissions, NEW q \in prefixes \cup Extensions(w)
  PROVE  /\ q \in Paths /\ Gain(hot_words, ext_scorer, q) \in Nat \ {0} /\ (ext_scorer => Legal(q))
         /\ q # << >> => /\ Front(q) \in Paths /\ Last(q) \in Labels /\ q = Append(Front(q), Last(q))
                         /\ Last(q) \in Classes
<1>1. q \in Paths
  BY BeamGains, ExtensionParts
<1>2. Gain(hot_words, ext_scorer, q) \in Nat \ {0} /\ (ext_scorer => Legal(q))
  BY BeamGains, ExtensionGains
<1>3. ASSUME q # << >>
      PROVE  /\ Front(q) \in Paths /\ Last(q) \in Labels /\ q = Append(Front(q), Last(q))
             /\ Last(q) \in Classes
  <2>1. q \in Seq(Labels)
    BY <1>1 DEF Paths
  <2>2. Front(q) \in Seq(Labels) /\ Last(q) \in Labels /\ q = Append(Front(q), Last(q))
    BY <1>3, <2>1, FrontProps
  <2>3. Last(q) \in Classes
    BY <2>2, RowTypes
  <2> QED BY <2>2, <2>3 DEF Paths
<1> QED BY <1>1, <1>2, <1>3

\* What the row adds to the alignments of a path.
LEMMA MassAfter ==
  ASSUME NEW rs \in RowSeqs, NEW w \in [Classes -> Nat], NEW q \in Paths, q # << >>
  PROVE  /\ w[Last(q)] \in Nat /\ Handed(rs, Front(q), Last(q)) \in Nat
         /\ MassN(Append(rs, w), q) = w[Last(q)] * MassN(rs, q) + w[Last(q)] * Handed(rs, Front(q), Last(q))
<1> DEFINE p == Front(q)
           c == Last(q)
<1>1. q \in Seq(Labels)
  BY DEF Paths
<1>2. p \in Paths /\ c \in Labels /\ q = Append(p, c)
  BY <1>1, FrontProps DEF Paths
<1>3. c \in Classes
  BY <1>2, DecoderAssumption DEF Labels, Classes
<1> HIDE DEF p, c
<1>4. MassB(rs, p) \in Nat /\ MassN(rs, p) \in Nat
  BY MassNat
<1>5. Handed(rs, p, c) \in Nat /\ w[c] \in Nat
  BY <1>3, <1>4 DEF Handed
<1>6. MassN(Append(rs, w), Append(p, c)) = w[c] * MassN(rs, Append(p, c)) + w[c] * Handed(rs, p, c)
  BY <1>2, MassLabel DEF Handed
<1>7. MassN(Append(rs, w), q) = w[c] * MassN(rs, q) + w[c] * Handed(rs, p, c)
  BY <1>2, <1>6, Zenon
<1> QED BY <1>5, <1>7 DEF p, c

LEMMA RowBounds ==
  ASSUME DecoderInv, SumOK, LengthOK, DictOK, BelowOK, NEW w \in Emissions,
         NEW q \in prefixes \cup Extensions(w)
  PROVE  LET G == Gain(hot_words, ext_scorer, q)
         IN  /\ FromBlank(w, q) <= MassB(Append(rows, w), q) * G
             /\ FromRepeat(w, q) + FromParent(w, q) <= MassN(Append(rows, w), q) * G
<1> DEFINE G == Gain(hot_words, ext_scorer, q)
           r == Append(rows, w)
           B == MassB(rows, q)
           N == MassN(rows, q)
<1>1. rows \in RowSeqs /\ w \in [Classes -> Nat] /\ r \in RowSeqs
  BY RowsAre, MoreRows
<1>2. q \in Paths /\ G \in Nat \ {0}
  BY PathAfter
<1>3. B \in Nat /\ N \in Nat /\ MassB(r, q) \in Nat /\ MassN(r, q) \in Nat
  BY <1>1, MassNat
<1>4. w[blank_id] \in Nat
  BY RowTypes
<1>5. MassB(r, q) = w[blank_id] * (B + N)
  BY <1>1, MassBlank
<1>6. FromBlank(w, q) <= MassB(r, q) * G
  <2>1. CASE q \in Active(w, blank_id)
    <3>1. q \in prefixes /\ FromBlank(w, q) = w[blank_id] * trie[q].score
      BY <2>1 DEF FromBlank, Active
    <3>2. trie[q].score <= (B + N) * G /\ trie[q].score \in Nat
      <4>1. trie[q].score <= (B + N) * G
        BY <1>1, <3>1, BaseBound
      <4>2. trie[q].score \in Nat
        BY <3>1, BeamPaths DEF DecoderInv
      <4> QED BY <4>1, <4>2
    <3> HIDE DEF G, B, N, r
    <3>3. B + N \in Nat
      BY <1>3
    <3>4. w[blank_id] * trie[q].score <= (w[blank_id] * (B + N)) * G
      BY <1>2, <1>4, <3>2, <3>3, ScaledBound
    <3> QED BY <1>5, <3>1, <3>4, Zenon
  <2>2. CASE q \notin Active(w, blank_id)
    <3>1. FromBlank(w, q) = 0
      BY <2>2 DEF FromBlank
    <3>2. MassB(r, q) * G \in Nat
      BY <1>2, <1>3, MulNat
    <3> QED BY <3>1, <3>2
  <2> QED BY <2>1, <2>2
<1>7. FromRepeat(w, q) + FromParent(w, q) <= MassN(r, q) * G
  <2>1. FromRepeat(w, q) \in Nat /\ FromParent(w, q) \in Nat
    BY <1>2, ScoreTypes DEF DecoderInv
  <2>2. CASE q = << >>
    <3>1. FromRepeat(w, q) = 0
      BY <2>2 DEF FromRepeat
    <3>2. FromParent(w, q) = 0
      BY <2>2, ExtensionParts DEF FromParent
    <3>3. MassN(r, q) * G \in Nat
      BY <1>2, <1>3, MulNat
    <3> QED BY <3>1, <3>2, <3>3
  <2>3. CASE q # << >>
    <3> DEFINE v == w[Last(q)]
               h == Handed(rows, Front(q), Last(q))
    <3>1. v \in Nat /\ h \in Nat /\ MassN(r, q) = v * N + v * h
      BY <1>1, <1>2, <2>3, MassAfter
    <3>2. FromRepeat(w, q) <= (v * N) * G
      <4>1. CASE q \in Active(w, Last(q))
        <5>1. q \in prefixes /\ FromRepeat(w, q) = v * trie[q].log_prob_nb_prev
          BY <2>3, <4>1 DEF FromRepeat, Active
        <5>2. trie[q].log_prob_nb_prev \in Nat /\ trie[q].log_prob_nb_prev <= N * G
          BY <5>1, BeamGains DEF BelowOK
        <5> HIDE DEF v, N, G
        <5> QED BY <1>2, <1>3, <3>1, <5>1, <5>2, ScaledBound
      <4>2. CASE q \notin Active(w, Last(q))
        <5>1. FromRepeat(w, q) = 0
          BY <4>2 DEF FromRepeat
        <5>2. (v * N) * G \in Nat
          BY <1>2, <1>3, <3>1, MulNat
        <5> QED BY <5>1, <5>2
      <4> QED BY <4>1, <4>2
    <3>3. FromParent(w, q) <= (v * h) * G
      <4>1. CASE q \in Extensions(w)
        <5>1. FromParent(w, q) = Extended(w, q)
          BY <4>1 DEF FromParent
        <5>2. Extended(w, q) <= (v * h) * G
          BY <4>1, ExtendedBound
        <5> QED BY <5>1, <5>2
      <4>2. CASE q \notin Extensions(w)
        <5>1. FromParent(w, q) = 0
          BY <4>2 DEF FromParent
        <5>2. (v * h) * G \in Nat
          BY <1>2, <3>1, MulNat
        <5> QED BY <5>1, <5>2
      <4> QED BY <4>1, <4>2
    <3> HIDE DEF v, h, G, N, r
    <3>4. v * N \in Nat /\ v * h \in Nat
      BY <1>3, <3>1, MulNat
    <3>5. (v * N + v * h) * G = (v * N) * G + (v * h) * G /\ (v * N) * G \in Nat /\ (v * h) * G \in Nat
      BY <1>2, <3>4, Distribute, MulNat
    <3>6. FromRepeat(w, q) + FromParent(w, q) <= (v * N) * G + (v * h) * G
      BY <2>1, <3>2, <3>3, <3>5
    <3> QED BY <3>1, <3>5, <3>6, Zenon
  <2> QED BY <2>2, <2>3
<1> QED BY <1>6, <1>7
\* A legal path is a legal one with a label that the dictionary allows.
LEMMA LegalParts ==
  ASSUME NEW p \in Seq(Nat), NEW c \in Nat, Legal(Append(p, c))
  PROVE  Legal(p) /\ InDictionary(Append(p, c))
<1> DEFINE q == Append(p, c)
<1>1. Len(p) \in Nat /\ Len(q) = Len(p) + 1
  OBVIOUS
<1>2. /\ SubSeq(q, 1, Len(p) + 1) = q
      /\ \A i \in 1 .. Len(p) : SubSeq(q, 1, i) = SubSeq(p, 1, i)
  BY BeginningsAppend
<1> HIDE DEF q
<1>3. \A i \in 1 .. Len(q) : InDictionary(SubSeq(q, 1, i))
  BY DEF Legal, q
<1>4. \A i \in 1 .. Len(p) : InDictionary(SubSeq(p, 1, i))
  <2> SUFFICES ASSUME NEW i \in 1 .. Len(p) PROVE InDictionary(SubSeq(p, 1, i))
    OBVIOUS
  <2>1. i \in 1 .. Len(q)
    BY <1>1
  <2>2. InDictionary(SubSeq(q, 1, i)) /\ SubSeq(q, 1, i) = SubSeq(p, 1, i)
    BY <1>2, <1>3, <2>1
  <2> QED BY <2>2, Zenon
<1>5. InDictionary(q)
  <2>1. Len(p) + 1 \in 1 .. Len(q)
    BY <1>1
  <2>2. InDictionary(SubSeq(q, 1, Len(p) + 1))
    BY <1>3, <2>1
  <2> QED BY <1>2, <2>2, Zenon
<1> QED BY <1>4, <1>5 DEF Legal, q

\* What is not extended has nothing to hand on.
LEMMA NothingHanded ==
  ASSUME DecoderInv, SumOK, LengthOK, DictOK, BelowOK, ExactOK, ~pruned, NEW w \in Emissions,
         \A p \in prefixes, c \in Classes : ~CutOff(w, c, p),
         NEW q \in Paths, q # << >>, ext_scorer => Legal(q), q \notin Extensions(w)
  PROVE  Handed(rows, Front(q), Last(q)) = 0
<1> DEFINE p == Front(q)
           c == Last(q)
           B == MassB(rows, p)
           N == MassN(rows, p)
           g == Gain(hot_words, ext_scorer, p)
<1>1. q \in Seq(Labels)
  BY DEF Paths
<1>2. p \in Paths /\ c \in Labels /\ q = Append(p, c)
  BY <1>1, FrontProps DEF Paths
<1>3. c \in Classes /\ p \in Seq(Nat) /\ c \in Nat
  BY <1>2, RowTypes, PathTypes
<1>4. rows \in RowSeqs
  BY RowsAre
<1> HIDE DEF p, c
<1>5. ext_scorer => Legal(p) /\ InDictionary(q)
  BY <1>2, <1>3, LegalParts
<1>6. B \in Nat /\ N \in Nat
  BY <1>4, MassNat
<1>7. B = 0 /\ N = 0
  <2>1. CASE p \notin prefixes
    BY <1>2, <1>5, <2>1 DEF ExactOK
  <2>2. CASE p \in prefixes
    <3>1. p \notin Active(w, c)
      <4> SUFFICES ASSUME p \in Active(w, c) PROVE FALSE
        OBVIOUS
      <4>1. q \in UNION {{Append(u, e) : u \in Active(w, e)} : e \in Labels}
        <5>1. q \in {Append(u, c) : u \in Active(w, c)}
          BY <1>2
        <5> QED BY <1>2, <5>1, Zenon
      <4>2. q \in Extensions(w)
        BY <1>5, <4>1 DEF Extensions
      <4> QED BY <4>2
    <3>2. trie[p].score \in Nat
      BY <2>2, BeamPaths DEF DecoderInv
    <3>3. trie[p].score = 0
      BY <1>3, <2>2, <3>1, <3>2 DEF Active
    <3>4. trie[p].log_prob_b_prev = B * g /\ trie[p].log_prob_nb_prev = N * g
      BY <2>2 DEF ExactOK
    <3>5. trie[p].score = (B + N) * g
      BY <1>4, <2>2, <3>4, BaseBound
    <3>6. g \in Nat /\ g > 0
      BY <2>2, BeamGains
    <3> HIDE DEF B, N, g
    <3>7. B + N \in Nat /\ ~(B + N > 0)
      BY <1>6, <3>3, <3>5, <3>6, MulPos
    <3> QED BY <1>6, <3>7
  <2> QED BY <2>1, <2>2
<1>8. Handed(rows, p, c) = 0
  BY <1>7 DEF Handed
<1> QED BY <1>8 DEF p, c

LEMMA RowNone ==
  ASSUME DecoderInv, SumOK, LengthOK, DictOK, BelowOK, ExactOK, ~pruned, NEW w \in Emissions,
         \A p \in prefixes, c \in Classes : ~CutOff(w, c, p),
         NEW q \in Paths, ext_scorer => Legal(q), q \notin prefixes, q \notin Extensions(w)
  PROVE  MassB(Append(rows, w), q) = 0 /\ MassN(Append(rows, w), q) = 0
<1>1. rows \in RowSeqs /\ w \in [Classes -> Nat] /\ Append(rows, w) \in RowSeqs
  BY RowsAre, MoreRows
<1>2. MassB(rows, q) = 0 /\ MassN(rows, q) = 0
  BY DEF ExactOK
<1>3. MassB(Append(rows, w), q) = 0
  <2>1. MassB(Append(rows, w), q) = w[blank_id] * (MassB(rows, q) + MassN(rows, q))
    BY <1>1, MassBlank
  <2>2. w[blank_id] \in Nat
    BY RowTypes
  <2>3. \A v \in Nat : v * (0 + 0) = 0
    OBVIOUS
  <2> QED BY <1>2, <2>1, <2>2, <2>3, Zenon
<1>4. MassN(Append(rows, w), q) = 0
  <2>1. CASE q = << >>
    BY <1>1, <2>1, MassEmpty
  <2>2. CASE q # << >>
    <3>1. /\ w[Last(q)] \in Nat
          /\ MassN(Append(rows, w), q) = w[Last(q)] * MassN(rows, q) + w[Last(q)] * Handed(rows, Front(q), Last(q))
      BY <1>1, <2>2, MassAfter
    <3>2. Handed(rows, Front(q), Last(q)) = 0
      BY <2>2, NothingHanded
    <3>3. \A v \in Nat : v * 0 + v * 0 = 0
      OBVIOUS
    <3> QED BY <1>2, <3>1, <3>2, <3>3, Zenon
  <2> QED BY <2>1, <2>2
<1> QED BY <1>3, <1>4

LEMMA RowExact ==
  ASSUME DecoderInv, SumOK, LengthOK, DictOK, BelowOK, ExactOK, ~pruned, NEW w \in Emissions,
         \A p \in prefixes, c \in Classes : ~CutOff(w, c, p),
         NEW q \in prefixes \cup Extensions(w)
  PROVE  LET G == Gain(hot_words, ext_scorer, q)
         IN  /\ FromBlank(w, q) = MassB(Append(rows, w), q) * G
             /\ FromRepeat(w, q) + FromParent(w, q) = MassN(Append(rows, w), q) * G
<1> DEFINE G == Gain(hot_words, ext_scorer, q)
           r == Append(rows, w)
           B == MassB(rows, q)
           N == MassN(rows, q)
<1>1. rows \in RowSeqs /\ w \in [Classes -> Nat] /\ r \in RowSeqs
  BY RowsAre, MoreRows
<1>2. q \in Paths /\ G \in Nat /\ (ext_scorer => Legal(q)) /\ (q # << >> => Last(q) \in Classes)
  BY PathAfter
<1>3. B \in Nat /\ N \in Nat /\ B + N \in Nat
  BY <1>1, MassNat
<1>4. w[blank_id] \in Nat /\ blank_id \in Classes
  BY RowTypes
<1>5. MassB(r, q) = w[blank_id] * (B + N)
  BY <1>1, MassBlank
<1>6. /\ q \notin prefixes => B = 0 /\ N = 0
      /\ q \in prefixes => /\ trie[q].log_prob_nb_prev = N * G /\ trie[q].score = (B + N) * G
                           /\ trie[q].score \in Nat /\ trie[q].log_prob_nb_prev \in Nat
                           /\ trie[q].score >= trie[q].log_prob_nb_prev
  <2>1. ASSUME q \notin prefixes PROVE B = 0 /\ N = 0
    BY <1>2, <2>1 DEF ExactOK
  <2>2. ASSUME q \in prefixes
        PROVE  /\ trie[q].log_prob_nb_prev = N * G /\ trie[q].score = (B + N) * G
               /\ trie[q].score \in Nat /\ trie[q].log_prob_nb_prev \in Nat
               /\ trie[q].score >= trie[q].log_prob_nb_prev
    <3>1. trie[q].log_prob_b_prev = B * G /\ trie[q].log_prob_nb_prev = N * G
      BY <2>2 DEF ExactOK
    <3>2. trie[q].score = (B + N) * G
      BY <1>1, <2>2, <3>1, BaseBound
    <3>3. trie[q].log_prob_b_prev \in Nat /\ trie[q].log_prob_nb_prev \in Nat
      BY <2>2, BeamGains
    <3>4. trie[q].score = trie[q].log_prob_b_prev + trie[q].log_prob_nb_prev
      BY <2>2 DEF SumOK
    <3>5. trie[q].score \in Nat /\ trie[q].score >= trie[q].log_prob_nb_prev
      BY <3>3, <3>4
    <3> QED BY <3>1, <3>2, <3>3, <3>5
  <2> QED BY <2>1, <2>2
<1> HIDE DEF G, B, N, r
<1>7. FromBlank(w, q) = w[blank_id] * ((B + N) * G)
  <2>1. CASE q \in prefixes /\ trie[q].score > 0
    BY <1>4, <1>6, <2>1 DEF FromBlank, Active
  <2>2. CASE ~(q \in prefixes /\ trie[q].score > 0)
    <3>1. FromBlank(w, q) = 0
      BY <2>2 DEF FromBlank, Active
    <3>2. (B + N) * G = 0
      <4>1. CASE q \in prefixes
        BY <1>6, <2>2, <4>1
      <4>2. CASE q \notin prefixes
        BY <1>2, <1>6, <4>2
      <4> QED BY <4>1, <4>2
    <3> QED BY <1>4, <3>1, <3>2
  <2> QED BY <2>1, <2>2
<1>8. FromBlank(w, q) = MassB(r, q) * G
  <2>1. w[blank_id] * ((B + N) * G) = (w[blank_id] * (B + N)) * G
    BY <1>2, <1>3, <1>4, Distribute
  <2> QED BY <1>5, <1>7, <2>1, Zenon
<1>9. FromRepeat(w, q) + FromParent(w, q) = MassN(r, q) * G
  <2>1. CASE q = << >>
    <3>1. FromRepeat(w, q) = 0
      BY <2>1 DEF FromRepeat
    <3>2. FromParent(w, q) = 0
      BY <2>1, ExtensionParts DEF FromParent
    <3>3. MassN(r, q) = 0
      BY <1>1, <2>1, MassEmpty
    <3>4. 0 * G = 0
      BY <1>2
    <3> QED BY <3>1, <3>2, <3>3, <3>4
  <2>2. CASE q # << >>
    <3> DEFINE v == w[Last(q)]
               h == Handed(rows, Front(q), Last(q))
    <3>1. v \in Nat /\ h \in Nat /\ MassN(r, q) = v * N + v * h
      BY <1>1, <1>2, <2>2, MassAfter DEF r, N
    <3>2. FromRepeat(w, q) = v * (N * G)
      <4>1. CASE q \in prefixes /\ trie[q].score > 0
        BY <1>2, <1>6, <2>2, <4>1 DEF FromRepeat, Active
      <4>2. CASE ~(q \in prefixes /\ trie[q].score > 0)
        <5>1. FromRepeat(w, q) = 0
          BY <4>2 DEF FromRepeat, Active
        <5>2. N * G = 0
          <6>1. CASE q \in prefixes
            BY <1>6, <4>2, <6>1
          <6>2. CASE q \notin prefixes
            BY <1>2, <1>6, <6>2
          <6> QED BY <6>1, <6>2
        <5> HIDE DEF v
        <5> QED BY <3>1, <5>1, <5>2
      <4> QED BY <4>1, <4>2
    <3>3. FromParent(w, q) = (v * h) * G
      <4>1. CASE q \in Extensions(w)
        <5>1. FromParent(w, q) = Extended(w, q) /\ Front(q) \in prefixes
          BY <4>1, ExtensionParts DEF FromParent
        <5>2. /\ trie[Front(q)].log_prob_b_prev = MassB(rows, Front(q)) * Gain(hot_words, ext_scorer, Front(q))
              /\ trie[Front(q)].log_prob_nb_prev = MassN(rows, Front(q)) * Gain(hot_words, ext_scorer, Front(q))
          BY <5>1 DEF ExactOK
        <5>3. Extended(w, q) = (v * h) * G
          BY <4>1, <5>2, ExtendedBound DEF G
        <5> QED BY <5>1, <5>3
      <4>2. CASE q \notin Extensions(w)
        <5>1. FromParent(w, q) = 0
          BY <4>2 DEF FromParent
        <5>2. h = 0
          BY <1>2, <2>2, <4>2, NothingHanded
        <5> HIDE DEF v, h
        <5>3. v * 0 = 0 /\ 0 * G = 0
          BY <1>2, <3>1
        <5> QED BY <5>1, <5>2, <5>3, Zenon
      <4> QED BY <4>1, <4>2
    <3> HIDE DEF v, h
    <3>4. v * N \in Nat /\ v * h \in Nat
      BY <1>3, <3>1, MulNat
    <3>5. (v * N + v * h) * G = (v * N) * G + (v * h) * G /\ v * (N * G) = (v * N) * G
      BY <1>2, <1>3, <3>1, <3>4, Distribute
    <3> QED BY <3>1, <3>2, <3>3, <3>5, Zenon
  <2> QED BY <2>1, <2>2
<1> QED BY <1>8, <1>9 DEF G, r
LEMMA PrunedSame ==
  ASSUME [Next]_vars, ~(\E w \in Emissions : TimeStep(w))
  PROVE  pruned' = pruned
BY DEF Next, Prune, decode, vars

\* A row keeps the bounds, and the equalities if neither the beam nor the
\* cutoff drops anything.
LEMMA ScoresExpand ==
  ASSUME DecoderInv, HistoryOK, DictOK, BelowOK, ExactOK, NEW w \in Emissions, TimeStep(w), Expand(w)
  PROVE  BelowOK' /\ ExactOK'
<1> USE DEF HistoryOK
<1>1. /\ Existing(trie') = prefixes \cup Extensions(w) /\ prefixes' \subseteq Existing(trie')
      /\ \A q \in Existing(trie') : Updated(trie'[q], w, q)
  BY Expanded
<1>2. rows' = Append(rows, w) /\ hot_words' = hot_words /\ ext_scorer' = ext_scorer
  BY DEF TimeStep, Expand, settings
<1>3. \A q \in prefixes' : /\ q \in prefixes \cup Extensions(w)
                           /\ trie'[q].log_prob_b_prev = FromBlank(w, q)
                           /\ trie'[q].log_prob_nb_prev = FromRepeat(w, q) + FromParent(w, q)
  BY <1>1 DEF Updated
<1>4. BelowOK'
  <2> SUFFICES ASSUME NEW q \in prefixes'
               PROVE  /\ trie'[q].log_prob_b_prev <= MassB(rows', q) * Gain(hot_words', ext_scorer', q)
                      /\ trie'[q].log_prob_nb_prev <= MassN(rows', q) * Gain(hot_words', ext_scorer', q)
    BY DEF BelowOK
  <2>1. /\ FromBlank(w, q) <= MassB(Append(rows, w), q) * Gain(hot_words, ext_scorer, q)
        /\ FromRepeat(w, q) + FromParent(w, q) <= MassN(Append(rows, w), q) * Gain(hot_words, ext_scorer, q)
    BY <1>3, RowBounds
  <2> QED BY <1>2, <1>3, <2>1
<1>5. ASSUME ~pruned' PROVE ExactOK'
  <2>1. ~pruned /\ prefixes' = Existing(trie') /\ \A p \in prefixes, c \in Classes : ~CutOff(w, c, p)
    <3> DEFINE all == Existing(trie')
               n == IF Cardinality(all) > beam_size THEN beam_size ELSE Cardinality(all)
    <3>1. \E K \in Best(trie', all, n) :
            /\ prefixes' = K
            /\ pruned' = (pruned \/ all # K \/ \E p \in prefixes, c \in Classes : CutOff(w, c, p))
      BY DEF Expand
    <3> HIDE DEF all
    <3>2. pruned' = (pruned \/ all # prefixes' \/ \E p \in prefixes, c \in Classes : CutOff(w, c, p))
      BY <3>1, Zenon
    <3> QED BY <1>5, <3>2, Zenon DEF all
  <2>2. ASSUME NEW q \in prefixes'
        PROVE  /\ trie'[q].log_prob_b_prev = MassB(rows', q) * Gain(hot_words', ext_scorer', q)
               /\ trie'[q].log_prob_nb_prev = MassN(rows', q) * Gain(hot_words', ext_scorer', q)
    <3>1. /\ FromBlank(w, q) = MassB(Append(rows, w), q) * Gain(hot_words, ext_scorer, q)
          /\ FromRepeat(w, q) + FromParent(w, q) = MassN(Append(rows, w), q) * Gain(hot_words, ext_scorer, q)
      BY <1>3, <2>1, <2>2, RowExact
    <3> QED BY <1>2, <1>3, <2>2, <3>1
  <2>3. ASSUME NEW q \in Paths \ prefixes', ext_scorer' => Legal(q)
        PROVE  MassB(rows', q) = 0 /\ MassN(rows', q) = 0
    <3>1. q \notin prefixes /\ q \notin Extensions(w) /\ (ext_scorer => Legal(q))
      BY <1>1, <1>2, <2>1, <2>3
    <3>2. MassB(Append(rows, w), q) = 0 /\ MassN(Append(rows, w), q) = 0
      BY <2>1, <2>3, <3>1, RowNone
    <3> QED BY <1>2, <3>2
  <2> QED BY <2>2, <2>3 DEF ExactOK
<1>6. CASE pruned'
  BY <1>4, <1>6, Zenon DEF ExactOK
<1> QED BY <1>4, <1>5, <1>6

LEMMA ScoresStep ==
  DecoderInv /\ HistoryOK /\ DictOK /\ BelowOK /\ ExactOK /\ [Next]_vars => BelowOK' /\ ExactOK'
<1> SUFFICES ASSUME DecoderInv, HistoryOK, DictOK, BelowOK, ExactOK, [Next]_vars
             PROVE  BelowOK' /\ ExactOK'
  OBVIOUS
<1>1. ASSUME UNCHANGED <<ext_scorer, hot_words, prefixes, rows, pruned>>,
             \A q \in prefixes : trie'[q] = trie[q]
      PROVE  BelowOK' /\ ExactOK'
  BY <1>1 DEF BelowOK, ExactOK
<1>2. ASSUME NEW w \in Emissions, TimeStep(w) PROVE BelowOK' /\ ExactOK'
  <2>1. CASE Skip(w)
    BY <1>1, <1>2, <2>1 DEF TimeStep, Skip, settings
  <2>2. CASE Expand(w)
    BY <1>2, <2>2, ScoresExpand
  <2> QED BY <1>2, <2>1, <2>2 DEF TimeStep
<1>3. ASSUME ~(\E w \in Emissions : TimeStep(w)) PROVE BelowOK' /\ ExactOK'
  <2>1. pruned' = pruned
    BY <1>3, PrunedSame
  <2>2. /\ UNCHANGED <<ext_scorer, hot_words, prefixes, rows>>
        /\ \A q \in prefixes : trie'[q] = trie[q]
    BY <1>3, BeamUnchanged
  <2> QED BY <1>1, <2>1, <2>2
<1> QED BY <1>2, <1>3

-----------------------------------------------------------------------------
(* What decode returns *)

\* The confidence of a result, as the weight of its alignments times the
\* factor of its words.
Confidence(hw, rs, q) ==
  Times(hw, MassB(rs, q) + MassN(rs, q),
        IF Words(q).open = << >> THEN Words(q).done ELSE Append(Words(q).done, Words(q).open),
        Len(Words(q).done))

ResultsOK ==
  ext_scorer /\ ~pruned => \A r \in results :
    r.confidence = Confidence(hot_words, rows, r.tokens)

LEMMA RescoredIs ==
  ASSUME DecoderInv, HistoryOK, DictOK, BelowOK, ExactOK, ext_scorer, ~pruned, NEW q \in prefixes
  PROVE  Rescored(q) = Confidence(hot_words, rows, q)
<1> USE DEF HistoryOK
<1>1. rows \in RowSeqs
  BY RowsTyped
<1> DEFINE g == Gain(hot_words, ext_scorer, q)
           x == MassB(rows, q) + MassN(rows, q)
<1>2. trie[q].log_prob_b_prev = MassB(rows, q) * g /\ trie[q].log_prob_nb_prev = MassN(rows, q) * g
  BY DEF ExactOK
<1>3. trie[q].score = x * g
  BY <1>1, <1>2, BaseBound
<1>4. Legal(q)
  BY BeamGains
<1>5. Spaces(q) <= MaxWords /\ (q # << >> /\ ~Boundary(Last(q)) => Spaces(q) + 1 <= MaxWords)
  BY RoomForWords
<1>6. x \in Nat
  BY <1>1, MassNat
<1>7. SettingsOK
  BY DEF DecoderInv
<1> HIDE DEF x
<1>8. Rescored(q) = Times(hot_words, x,
                          IF Words(q).open = << >> THEN Words(q).done
                                                   ELSE Append(Words(q).done, Words(q).open),
                          Len(Words(q).done))
  BY <1>3, <1>4, <1>5, <1>6, <1>7, RescoredGain
<1> QED BY <1>8, Zenon DEF x, Confidence

LEMMA ResultsDecode ==
  ASSUME DecoderInv, HistoryOK, DictOK, BelowOK, ExactOK, NEW n \in 1 .. MaxResults, decode(n)
  PROVE  ResultsOK'
<1> DEFINE scores == [q \in prefixes |-> [score |-> Rescored(q)]]
           size == Cardinality(prefixes)
           m == IF n < size THEN n ELSE size
           res(q) == [tokens |-> q, timesteps |-> trie[q].timesteps, confidence |-> scores[q].score]
<1>1. PICK K \in Best(scores, prefixes, m) : results' = {res(q) : q \in K}
  BY DEF decode
<1>2. IsFiniteSet(prefixes) /\ size \in Nat /\ m \in Nat
  <2>1. IsFiniteSet(prefixes)
    BY BeamPaths DEF DecoderInv
  <2>2. size \in Nat
    BY <2>1, FS_CardinalityType
  <2>3. n \in Nat
    OBVIOUS
  <2> HIDE DEF size
  <2> QED BY <2>1, <2>2, <2>3
<1>3. \A x \in prefixes : scores[x].score = Rescored(x) /\ scores[x].score \in Nat /\ x \in Paths
  BY RescoredProps, BeamPaths DEF DecoderInv, HistoryOK
<1>4. K \subseteq prefixes
  <2> HIDE DEF scores, m
  <2> QED BY <1>1, <1>2, <1>3, BestProps
<1>5. UNCHANGED <<ext_scorer, hot_words, rows, pruned>>
  BY DEF decode, settings
<1>6. ASSUME ext_scorer, ~pruned, NEW r \in results'
      PROVE  r.confidence = Confidence(hot_words, rows, r.tokens)
  <2>1. PICK q \in K : r = res(q)
    BY <1>1, <1>6
  <2>2. r.tokens = q /\ r.confidence = Rescored(q) /\ q \in prefixes
    BY <1>3, <1>4, <2>1
  <2>3. Rescored(q) = Confidence(hot_words, rows, q)
    BY <1>6, <2>2, RescoredIs
  <2> QED BY <2>2, <2>3
<1> QED BY <1>5, <1>6 DEF ResultsOK

LEMMA ResultsStep ==
  DecoderInv /\ HistoryOK /\ DictOK /\ BelowOK /\ ExactOK /\ ResultsOK /\ [Next]_vars => ResultsOK'
<1> SUFFICES ASSUME DecoderInv, HistoryOK, DictOK, BelowOK, ExactOK, ResultsOK, [Next]_vars
             PROVE  ResultsOK'
  OBVIOUS
<1>1. CASE \E w \in Emissions : TimeStep(w)
  BY <1>1 DEF TimeStep, ResultsOK
<1>2. CASE \E n \in 1 .. MaxResults : decode(n)
  BY <1>2, ResultsDecode
<1>3. ASSUME ~(\E w \in Emissions : TimeStep(w)), ~(\E n \in 1 .. MaxResults : decode(n))
      PROVE  ResultsOK'
  <2>1. pruned' = pruned
    BY <1>3, PrunedSame
  <2>2. UNCHANGED <<ext_scorer, hot_words, rows, results>>
    BY <1>3, BeamUnchanged
  <2> QED BY <2>1, <2>2 DEF ResultsOK
<1> QED BY <1>1, <1>2, <1>3
-----------------------------------------------------------------------------
(* The reference, as sums over alignments *)

\* CTC adds the weights of the alignments of a set that collapse to q.
LEMMA CTCIs ==
  ASSUME rows \in RowSeqs, NEW E \in SUBSET Alignments(Len(rows)), NEW q
  PROVE  CTC({<<a, Collapse(a)>> : a \in E}, q) = Mass(rows, {a \in E : Collapse(a) = q})
<1> DEFINE S == {a \in E : Collapse(a) = q}
           P == {<<a, Collapse(a)>> : a \in E}
           T == {pair \in P : pair[2] = q}
           f == [a \in S |-> WeightOf(rows, a)]
           k == [pair \in T |-> Weight(pair[1])]
           h == [a \in S |-> <<a, Collapse(a)>>]
<1>1. IsFiniteSet(S) /\ f \in [S -> Nat] /\ S \in SUBSET Alignments(Len(rows))
  <2>1. S \in SUBSET Alignments(Len(rows))
    OBVIOUS
  <2> HIDE DEF S
  <2> QED BY <2>1, MassType
<1>2. \A a : Weight(a) = WeightOf(rows, a)
  BY DEF Weight, WeightOf
<1>3. \A y \in T : \E x \in S : y = <<x, Collapse(x)>>
  OBVIOUS
<1>4. \A x \in S : <<x, Collapse(x)>> \in T
  OBVIOUS
<1> HIDE DEF S, T
<1>5. \A x \in S : k[h[x]] = WeightOf(rows, x) /\ h[x] \in T /\ h[x] = <<x, Collapse(x)>>
  BY <1>2, <1>4
<1>6. \A x \in S : f[x] = WeightOf(rows, x) /\ f[x] \in Nat
  BY <1>1
<1>7. k \in [T -> Nat]
  <2> SUFFICES ASSUME NEW y \in T PROVE k[y] \in Nat
    OBVIOUS
  <2>1. PICK x \in S : y = <<x, Collapse(x)>>
    BY <1>3
  <2>2. k[y] = WeightOf(rows, x)
    BY <1>2, <2>1
  <2> QED BY <1>6, <2>2
<1>8. h \in [S -> T] /\ \A x, y \in S : h[x] = h[y] => x = y
  BY <1>5
<1>9. \A y \in T : \E x \in S : y = h[x]
  BY <1>3, <1>5
<1>10. \A x \in S : k[h[x]] = 1 * f[x]
  BY <1>5, <1>6
<1> HIDE DEF f, k, h
<1>11. Scales(h, S, f, T, k, 1)
  BY <1>1, <1>7, <1>8, <1>9, <1>10 DEF Scales
<1>12. SumFunction(k) = 1 * SumFunction(f) /\ SumFunction(f) \in Nat
  BY <1>1, <1>11, SumScaled
<1>13. SumFunction(k) = SumFunction(f)
  BY <1>12
<1>14. CTC(P, q) = SumFunction(k)
  BY DEF CTC, k, T
<1>15. Mass(rows, S) = SumFunction(f)
  BY DEF Mass, f
<1> QED BY <1>13, <1>14, <1>15 DEF S

LEMMA CollapsedIs ==
  ASSUME rows \in RowSeqs, Len(rows) \in Nat
  PROVE  Collapsed = {<<a, Collapse(a)>> : a \in Alignments(Len(rows))}
<1>1. [1 .. Len(rows) -> Classes] = Alignments(Len(rows))
  BY AlignmentsAre
<1> QED BY <1>1 DEF Collapsed

\* The alignments that end in a blank, and the ones that do not, are all.
LEMMA CTCAll ==
  ASSUME rows \in RowSeqs, Len(rows) \in Nat, NEW q
  PROVE  CTC(Collapsed, q) = MassB(rows, q) + MassN(rows, q)
<1> DEFINE n == Len(rows)
           A == AlB(n, q)
           B == AlN(n, q)
<1>1. A \in SUBSET Alignments(n) /\ B \in SUBSET Alignments(n) /\ A \cap B = {}
  BY DEF AlB, AlN
<1>2. A \cup B = {a \in Alignments(n) : Collapse(a) = q}
  BY DEF AlB, AlN
<1>3. Mass(rows, A \cup B) = Mass(rows, A) + Mass(rows, B)
  <2> HIDE DEF A, B
  <2> QED BY <1>1, MassUnion
<1>4. CTC({<<a, Collapse(a)>> : a \in Alignments(n)}, q) = Mass(rows, {a \in Alignments(n) : Collapse(a) = q})
  BY CTCIs
<1>5. CTC(Collapsed, q) = Mass(rows, A \cup B)
  BY <1>2, <1>4, CollapsedIs
<1> QED BY <1>3, <1>5 DEF MassB, MassN

\* The set that ScoresAreCTC splits the alignments by.
EndingOf(blank) ==
  {pair \in Collapsed :
     IF pair[1] = << >> THEN blank ELSE (Last(pair[1]) = blank_id) = blank}

LEMMA CTCEnding ==
  ASSUME rows \in RowSeqs, Len(rows) \in Nat, NEW q
  PROVE  CTC(EndingOf(TRUE), q) = MassB(rows, q) /\ CTC(EndingOf(FALSE), q) = MassN(rows, q)
<1> DEFINE n == Len(rows)
           A == {a \in Alignments(n) : EndsBlank(a)}
           B == {a \in Alignments(n) : ~EndsBlank(a)}
<1>1. Collapsed = {<<a, Collapse(a)>> : a \in Alignments(n)}
  BY CollapsedIs
<1> DEFINE ends(a, blank) == IF a = << >> THEN blank ELSE (Last(a) = blank_id) = blank
<1>2. \A a : (ends(a, TRUE) <=> EndsBlank(a)) /\ (ends(a, FALSE) <=> ~EndsBlank(a))
  BY Zenon DEF EndsBlank
<1>3. /\ EndingOf(TRUE) = {pair \in Collapsed : ends(pair[1], TRUE)}
      /\ EndingOf(FALSE) = {pair \in Collapsed : ends(pair[1], FALSE)}
  BY DEF EndingOf
<1> HIDE DEF ends
<1>4. /\ EndingOf(TRUE) = {pair \in Collapsed : EndsBlank(pair[1])}
      /\ EndingOf(FALSE) = {pair \in Collapsed : ~EndsBlank(pair[1])}
  BY <1>2, <1>3, Zenon
<1>5. EndingOf(TRUE) = {<<a, Collapse(a)>> : a \in A}
  BY <1>1, <1>4
<1>6. EndingOf(FALSE) = {<<a, Collapse(a)>> : a \in B}
  BY <1>1, <1>4
<1>7. A \in SUBSET Alignments(n) /\ B \in SUBSET Alignments(n)
  OBVIOUS
<1>8. AlB(n, q) = {a \in A : Collapse(a) = q} /\ AlN(n, q) = {a \in B : Collapse(a) = q}
  BY DEF AlB, AlN
<1> HIDE DEF A, B
<1>9. /\ CTC({<<a, Collapse(a)>> : a \in A}, q) = Mass(rows, {a \in A : Collapse(a) = q})
      /\ CTC({<<a, Collapse(a)>> : a \in B}, q) = Mass(rows, {a \in B : Collapse(a) = q})
  BY <1>7, CTCIs
<1> QED BY <1>5, <1>6, <1>8, <1>9 DEF MassB, MassN

\* The factor of the words is that of Gain.
LEMMA ReferenceIs ==
  ASSUME DecoderInv, LengthOK, DictOK, NEW q \in prefixes, NEW pairs, NEW x \in Nat, CTC(pairs, q) = x
  PROVE  Reference(pairs, q) = x * Gain(hot_words, ext_scorer, q)
<1> DEFINE done == IF ext_scorer THEN Words(q).done ELSE << >>
<1>1. q \in Seq(Nat) /\ HotOK(hot_words) /\ (ext_scorer => Spaces(q) <= MaxWords)
  BY BeamGains
<1>2. Reference(pairs, q) = Times(hot_words, x, done, Len(done))
  <2>1. Reference(pairs, q) = TimesLm(CTC(pairs, q), done, Len(done))
    BY DEF Reference
  <2>2. TimesLm(x, done, Len(done)) = Times(hot_words, x, done, Len(done))
    BY TimesIs
  <2> QED BY <2>1, <2>2
<1>3. CASE ext_scorer
  <2> DEFINE words == Words(q).done
  <2>1. words \in Seq(Seq(Nat)) /\ Len(words) = Spaces(q) /\ Len(words) \in Nat
    BY <1>1, WordsType, WordsCounted
  <2> HIDE DEF words
  <2>2. Len(words) <= MaxWords
    BY <1>1, <1>3, <2>1
  <2>3. Times(hot_words, x, words, Len(words)) = x * Times(hot_words, 1, words, Len(words))
    BY <1>1, <2>1, <2>2, TimesLinear
  <2>4. done = words /\ Gain(hot_words, ext_scorer, q) = Times(hot_words, 1, words, Len(words))
    BY <1>3 DEF words, Gain
  <2> QED BY <1>2, <2>3, <2>4
<1>4. CASE ~ext_scorer
  <2>1. done = << >> /\ Gain(hot_words, ext_scorer, q) = Scale /\ Len(<< >>) = 0
    BY <1>4 DEF Gain
  <2> HIDE DEF done
  <2>2. Times(hot_words, x, << >>, 0) = x * Scale
    BY <1>1, TimesNone
  <2> QED BY <1>2, <2>1, <2>2
<1> QED BY <1>3, <1>4
LEMMA BoundsReference ==
  ASSUME DecoderInv, HistoryOK, DictOK, BelowOK, ExactOK
  PROVE  ScoresSound
<1> USE DEF HistoryOK
<1>1. rows \in RowSeqs /\ Len(rows) \in Nat
  BY RowsTyped
<1>2. \A q : MassB(rows, q) \in Nat /\ MassN(rows, q) \in Nat /\ MassB(rows, q) + MassN(rows, q) \in Nat
  BY <1>1, MassNat
<1>3. ScoresBelowCTC
  <2> SUFFICES ASSUME NEW q \in prefixes PROVE trie[q].score <= Reference(Collapsed, q)
    BY DEF ScoresBelowCTC
  <2>1. CTC(Collapsed, q) = MassB(rows, q) + MassN(rows, q)
    BY <1>1, CTCAll
  <2>2. Reference(Collapsed, q) = (MassB(rows, q) + MassN(rows, q)) * Gain(hot_words, ext_scorer, q)
    BY <1>2, <2>1, ReferenceIs
  <2>3. trie[q].score <= (MassB(rows, q) + MassN(rows, q)) * Gain(hot_words, ext_scorer, q)
    BY <1>1, BaseBound
  <2> QED BY <2>2, <2>3
<1>4. ScoresAreCTC
  <2> SUFFICES ASSUME ~pruned, NEW q \in prefixes
               PROVE  /\ trie[q].log_prob_b_prev = Reference(EndingOf(TRUE), q)
                      /\ trie[q].log_prob_nb_prev = Reference(EndingOf(FALSE), q)
                      /\ trie[q].score = trie[q].log_prob_b_prev + trie[q].log_prob_nb_prev
    BY DEF ScoresAreCTC, EndingOf
  <2>1. CTC(EndingOf(TRUE), q) = MassB(rows, q) /\ CTC(EndingOf(FALSE), q) = MassN(rows, q)
    BY <1>1, CTCEnding
  <2>2. /\ Reference(EndingOf(TRUE), q) = MassB(rows, q) * Gain(hot_words, ext_scorer, q)
        /\ Reference(EndingOf(FALSE), q) = MassN(rows, q) * Gain(hot_words, ext_scorer, q)
    BY <1>2, <2>1, ReferenceIs
  <2>3. /\ trie[q].log_prob_b_prev = MassB(rows, q) * Gain(hot_words, ext_scorer, q)
        /\ trie[q].log_prob_nb_prev = MassN(rows, q) * Gain(hot_words, ext_scorer, q)
    BY DEF ExactOK
  <2>4. trie[q].score = trie[q].log_prob_b_prev + trie[q].log_prob_nb_prev
    BY DEF SumOK
  <2> QED BY <2>2, <2>3, <2>4
<1> QED BY <1>3, <1>4 DEF ScoresSound

\* What the scores rest on, and that it holds in every reachable state.
ScoresOK == HistoryOK /\ DictOK /\ BelowOK /\ ExactOK /\ ResultsOK

LEMMA ScoresInvariant == Spec => [](DecoderInv /\ ScoresOK)
<1>1. Init => ScoresOK
  <2> SUFFICES ASSUME Init PROVE ScoresOK
    OBVIOUS
  <2>1. DictOK
    <3> SUFFICES ASSUME NEW q \in DOMAIN trie, NEW i \in 1 .. Len(q) PROVE FALSE
      BY DEF DictOK
    <3>1. q = << >> /\ Len(<< >>) = 0
      BY DEF Init
    <3> QED BY <3>1
  <2>2. ResultsOK
    BY DEF Init, ResultsOK
  <2> QED BY <2>1, <2>2, SumInit, HistoryInit, ScoresInit DEF HistoryOK, ScoresOK
<1>2. DecoderInv /\ ScoresOK /\ [Next]_vars => ScoresOK'
  BY HistoryStep, DictStep, ScoresStep, ResultsStep DEF ScoresOK
<1> QED BY <1>1, <1>2, DecoderInvariant, PTL DEF Spec

\* The score that next() keeps for a prefix never exceeds the sum of the weights
\* of all alignments of its transcript times the language model's factor, even
\* for a prefix that left the beam and came back, and equals it, split by the
\* last class, as long as the beam and min_cutoff dropped nothing.  Over all
\* alphabets, rows, beam widths, vocabularies and hot words.
THEOREM ScoresAreSums == Spec => []ScoresSound
<1>1. DecoderInv /\ ScoresOK => ScoresSound
  BY BoundsReference DEF ScoresOK
<1> QED BY <1>1, ScoresInvariant, PTL

\* The confidence that decode returns counts every word of the transcript once,
\* the last one with or without its space, and hot words at their spaces only.
THEOREM ResultsAreSums == Spec => []ResultsScoreWords
<1>1. ASSUME DecoderInv, ScoresOK PROVE ResultsScoreWords
  <2> SUFFICES ASSUME ext_scorer, ~pruned, NEW r \in results
               PROVE  r.confidence =
                        TimesLm(CTC(Collapsed, r.tokens),
                                IF Words(r.tokens).open = << >> THEN Words(r.tokens).done
                                ELSE Append(Words(r.tokens).done, Words(r.tokens).open),
                                Len(Words(r.tokens).done))
    BY DEF ResultsScoreWords
  <2> DEFINE q == r.tokens
             x == MassB(rows, q) + MassN(rows, q)
             ws == IF Words(q).open = << >> THEN Words(q).done ELSE Append(Words(q).done, Words(q).open)
             n == Len(Words(q).done)
  <2>1. rows \in RowSeqs /\ Len(rows) \in Nat
    BY <1>1, RowsTyped
  <2>2. CTC(Collapsed, q) = x
    BY <2>1, CTCAll
  <2>3. r.confidence = Times(hot_words, x, ws, n)
    BY <1>1 DEF ScoresOK, ResultsOK, Confidence
  <2>4. TimesLm(x, ws, n) = Times(hot_words, x, ws, n)
    BY TimesIs
  <2> HIDE DEF x, ws, n
  <2>5. r.confidence = TimesLm(CTC(Collapsed, q), ws, n)
    BY <2>2, <2>3, <2>4, Zenon
  <2> QED BY <2>5, Zenon DEF ws, n
<1> QED BY <1>1, ScoresInvariant, PTL
=============================================================================
