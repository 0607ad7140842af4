--------------------------- MODULE ModelApiProofs ---------------------------
(***************************************************************************)
(* For any number of streams and scorers, a scorer lives exactly as long   *)
(* as somebody owns it, and streams keep the scorer they started with.     *)
(***************************************************************************)
EXTENDS ModelApi, FiniteSetTheorems, TLAPS

\* The owners of a scorer are finitely many.
LEMMA OwnersFinite ==
  ASSUME NEW S \in SUBSET Holders
  PROVE  IsFiniteSet(S) /\ Cardinality(S) \in Nat
<1>1. IsFiniteSet(Holders)
  BY ApiAssumption, FS_AddElement DEF Holders
<1>2. IsFiniteSet(S)
  BY <1>1, FS_Subset
<1> QED BY <1>2, FS_CardinalityType

\* An owner that gives up its pointer is counted down.
LEMMA CountReleased ==
  ASSUME NEW p \in [Holders -> Scorers \cup {Null}], NEW e \in Holders,
         NEW r \in [Scorers -> Nat],
         \A x \in Scorers : r[x] = Cardinality({o \in Holders : p[o] = x})
  PROVE  \A x \in Scorers :
           /\ Released(r, p[e])[x] = Cardinality({o \in Holders : [p EXCEPT ![e] = Null][o] = x})
           /\ Released(r, p[e])[x] # 0 => r[x] # 0
<1> SUFFICES ASSUME NEW x \in Scorers
             PROVE  /\ Released(r, p[e])[x] = Cardinality({o \in Holders : [p EXCEPT ![e] = Null][o] = x})
                    /\ Released(r, p[e])[x] # 0 => r[x] # 0
  OBVIOUS
<1> DEFINE Old == {o \in Holders : p[o] = x}
           New == {o \in Holders : [p EXCEPT ![e] = Null][o] = x}
<1>0. x # Null
  BY ApiAssumption
<1>1. IsFiniteSet(Old) /\ Cardinality(Old) \in Nat
  <2>1. Old \in SUBSET Holders
    OBVIOUS
  <2> HIDE DEF Old
  <2> QED BY <2>1, OwnersFinite
<1>2. CASE p[e] = x
  <2>1. New = Old \ {e} /\ e \in Old
    BY <1>0, <1>2
  <2>2. Cardinality(New) = Cardinality(Old) - 1
    BY <1>1, <2>1, FS_RemoveElement
  <2>3. Cardinality(Old) # 0
    BY <1>1, <2>1, FS_EmptySet
  <2>4. Released(r, p[e])[x] = r[x] - 1
    BY <1>0, <1>2 DEF Released
  <2> QED BY <2>2, <2>3, <2>4
<1>3. CASE p[e] # x
  <2>1. New = Old
    BY <1>0, <1>3
  <2>2. Released(r, p[e])[x] = r[x]
    BY <1>3 DEF Released
  <2> QED BY <2>1, <2>2
<1> QED BY <1>2, <1>3

\* A new owner is counted.
LEMMA CountAcquired ==
  ASSUME NEW p \in [Holders -> Scorers \cup {Null}], NEW e \in Holders, p[e] = Null,
         NEW b \in Scorers \cup {Null},
         NEW r \in [Scorers -> Nat],
         \A x \in Scorers : r[x] = Cardinality({o \in Holders : p[o] = x})
  PROVE  \A x \in Scorers :
           /\ Acquired(r, b)[x] = Cardinality({o \in Holders : [p EXCEPT ![e] = b][o] = x})
           /\ x # b => Acquired(r, b)[x] = r[x]
<1> SUFFICES ASSUME NEW x \in Scorers
             PROVE  /\ Acquired(r, b)[x] = Cardinality({o \in Holders : [p EXCEPT ![e] = b][o] = x})
                    /\ x # b => Acquired(r, b)[x] = r[x]
  OBVIOUS
<1> DEFINE Old == {o \in Holders : p[o] = x}
           New == {o \in Holders : [p EXCEPT ![e] = b][o] = x}
<1>0. x # Null
  BY ApiAssumption
<1>1. IsFiniteSet(Old) /\ Cardinality(Old) \in Nat
  <2>1. Old \in SUBSET Holders
    OBVIOUS
  <2> HIDE DEF Old
  <2> QED BY <2>1, OwnersFinite
<1>2. CASE b = x
  <2>1. New = Old \cup {e} /\ e \notin Old
    BY <1>0, <1>2
  <2>2. Cardinality(New) = Cardinality(Old) + 1
    BY <1>1, <2>1, FS_AddElement
  <2>3. Acquired(r, b)[x] = r[x] + 1
    BY <1>0, <1>2 DEF Acquired
  <2> QED BY <1>2, <2>2, <2>3
<1>3. CASE b # x
  <2>1. New = Old
    BY <1>0, <1>3
  <2>2. Acquired(r, b)[x] = r[x]
    BY <1>3 DEF Acquired
  <2> QED BY <2>1, <2>2
<1> QED BY <1>2, <1>3

\* A scorer somebody points to is on the heap.
LEMMA PointedLives ==
  ASSUME ScorerOwned, NEW o \in Holders, NEW x \in Scorers, Pointers[o] = x
  PROVE  refs[x] # 0 /\ lm[x] # Null
<1>1. o \in Owners(x) /\ IsFiniteSet(Owners(x))
  BY OwnersFinite DEF Owners
<1>2. Cardinality(Owners(x)) # 0
  BY <1>1, FS_EmptySet
<1> QED BY <1>2 DEF ScorerOwned

\* The pointers have their type.
LEMMA PointersType ==
  ASSUME TypeOK
  PROVE  Pointers \in [Holders -> Scorers \cup {Null}]
BY DEF TypeOK, Pointers, Holders, Settings

\* When the counts are those of the new pointers, the scorers on the heap are
\* the ones in use, and the ones in use are not touched.
LEMMA OwnedAfter ==
  ASSUME TypeOK, ScorerOwned,
         NEW r, r = [x \in Scorers |-> r[x]], Recount(r),
         \A x \in Scorers : r[x] = Cardinality({o \in Holders : Pointers'[o] = x}),
         \A x \in Scorers : r[x] # 0 => refs[x] # 0
  PROVE  /\ ScorerOwned'
         /\ refs' \in [Scorers -> Nat]
         /\ lm' \in [Scorers -> Paths \cup {Null}]
         /\ weights' \in [Scorers -> Weights]
         /\ \A x \in Scorers : refs'[x] # 0 => lm'[x] = lm[x]
<1>1. refs' = r
  BY DEF Recount
<1>2. \A x \in Scorers : r[x] \in Nat
  <2> SUFFICES ASSUME NEW x \in Scorers PROVE r[x] \in Nat
    OBVIOUS
  <2> DEFINE S == {o \in Holders : Pointers'[o] = x}
  <2>1. r[x] = Cardinality(S) /\ S \in SUBSET Holders
    OBVIOUS
  <2> HIDE DEF S
  <2> QED BY <2>1, OwnersFinite
<1>3. refs' \in [Scorers -> Nat]
  BY <1>1, <1>2
<1>4. \A x \in Scorers : refs'[x] = Cardinality(Owners(x)')
  BY <1>1 DEF Owners, Holders
<1>5. \A x \in Scorers : lm'[x] = IF r[x] = 0 THEN Null ELSE lm[x]
  BY DEF Recount
<1>6. \A x \in Scorers : lm'[x] = Null <=> refs'[x] = 0
  BY <1>1, <1>5 DEF ScorerOwned
<1>7. lm' \in [Scorers -> Paths \cup {Null}]
  BY DEF Recount, TypeOK
<1>8. weights' \in [Scorers -> Weights]
  BY ApiAssumption DEF Recount, TypeOK
<1>9. ScorerOwned'
  BY <1>4, <1>6 DEF ScorerOwned
<1> QED BY <1>1, <1>3, <1>5, <1>7, <1>8, <1>9

\* A scorer that a stream points to after a step is counted.
LEMMA PointedNext ==
  ASSUME ScorerOwned', NEW s \in Streams, NEW x \in Scorers, decoder'[s].ext_scorer = x
  PROVE  refs'[x] # 0
<1> DEFINE S == {o \in Holders : Pointers'[o] = x}
<1>1. s \in Holders /\ s # Null
  BY ApiAssumption DEF Holders
<1>2. Pointers'[s] = x
  BY <1>1 DEF Pointers, Holders
<1>3. S \in SUBSET Holders /\ S # {}
  BY <1>1, <1>2
<1>4. refs'[x] = Cardinality(S)
  BY DEF ScorerOwned, Owners, Holders
<1> HIDE DEF S
<1>5. Cardinality(S) # 0
  BY <1>3, OwnersFinite, FS_EmptySet
<1> QED BY <1>4, <1>5

\* Streams keep their files when the scorers in use are not touched.
LEMMA KeptAfter ==
  ASSUME ScorerOwned', decoder' \in [Streams -> Settings],
         \A x \in Scorers : refs'[x] # 0 => lm'[x] = lm[x],
         \A s \in Streams :
           created'[s] = IF decoder'[s].ext_scorer = Null THEN Null
                         ELSE lm[decoder'[s].ext_scorer]
  PROVE  StreamKeepsScorer'
<1> SUFFICES ASSUME NEW s \in Streams
             PROVE  created'[s] = IF decoder'[s].ext_scorer = Null THEN Null
                                  ELSE lm'[decoder'[s].ext_scorer]
  BY DEF StreamKeepsScorer
<1>1. CASE decoder'[s].ext_scorer = Null
  BY <1>1
<1>2. CASE decoder'[s].ext_scorer # Null
  <2>1. PICK x \in Scorers : decoder'[s].ext_scorer = x
    BY <1>2 DEF Settings
  <2>2. refs'[x] # 0
    BY <2>1, PointedNext
  <2> QED BY <1>2, <2>1, <2>2
<1> QED BY <1>1, <1>2

\* The pointers of model and streams, one by one.
LEMMA PointerOf ==
  /\ Pointers[Null] = scorer
  /\ \A s \in Streams : Pointers[s] = decoder[s].ext_scorer
  /\ Null \in Holders /\ Streams \subseteq Holders
BY ApiAssumption DEF Pointers, Holders

\* A call that leaves pointers and scorers alone keeps the ownership.
LEMMA QuietStep ==
  ASSUME ApiInv, UNCHANGED <<scorer, lm, refs, decoder, created>>
  PROVE  ScorerOwned' /\ StreamKeepsScorer'
<1>1. Pointers' = Pointers
  BY DEF Pointers, Holders
<1>2. \A x \in Scorers : Owners(x)' = Owners(x)
  BY <1>1 DEF Owners, Holders
<1>3. ScorerOwned'
  BY <1>2 DEF ApiInv, ScorerOwned
<1>4. StreamKeepsScorer'
  BY DEF ApiInv, StreamKeepsScorer
<1> QED BY <1>3, <1>4

\* The model gives up its scorer.
LEMMA ModelReleases ==
  ASSUME ApiInv, scorer' = Null, Recount(Released(refs, scorer)),
         UNCHANGED <<decoder, created>>
  PROVE  /\ ScorerOwned' /\ StreamKeepsScorer'
         /\ refs' \in [Scorers -> Nat]
         /\ lm' \in [Scorers -> Paths \cup {Null}]
         /\ weights' \in [Scorers -> Weights]
<1> USE DEF ApiInv
<1> DEFINE r == Released(refs, scorer)
<1>1. Pointers \in [Holders -> Scorers \cup {Null}] /\ refs \in [Scorers -> Nat]
  BY PointersType DEF TypeOK
<1>2. Pointers' = [Pointers EXCEPT ![Null] = Null]
  BY DEF Pointers, Holders
<1>3. \A x \in Scorers : refs[x] = Cardinality({o \in Holders : Pointers[o] = x})
  BY DEF ScorerOwned, Owners
<1>4. \A x \in Scorers :
        /\ r[x] = Cardinality({o \in Holders : Pointers'[o] = x})
        /\ r[x] # 0 => refs[x] # 0
  <2>1. Null \in Holders /\ Pointers[Null] = scorer
    BY PointerOf
  <2>2. \A x \in Scorers :
          /\ Released(refs, Pointers[Null])[x] =
               Cardinality({o \in Holders : [Pointers EXCEPT ![Null] = Null][o] = x})
          /\ Released(refs, Pointers[Null])[x] # 0 => refs[x] # 0
    BY <1>1, <1>3, <2>1, CountReleased, Zenon
  <2> QED BY <1>2, <2>1, <2>2
<1>5. r = [x \in Scorers |-> r[x]]
  BY <1>1 DEF Released
<1> HIDE DEF r
<1>6. Recount(r)
  BY DEF r
<1>7. /\ ScorerOwned'
      /\ refs' \in [Scorers -> Nat]
      /\ lm' \in [Scorers -> Paths \cup {Null}]
      /\ weights' \in [Scorers -> Weights]
      /\ \A x \in Scorers : refs'[x] # 0 => lm'[x] = lm[x]
  BY <1>4, <1>5, <1>6, OwnedAfter
<1>8. StreamKeepsScorer'
  BY <1>7, KeptAfter DEF TypeOK, StreamKeepsScorer
<1> QED BY <1>7, <1>8

\* A deleted stream gives up its scorer.
LEMMA StreamReleases ==
  ASSUME ApiInv, NEW s \in Streams, DeleteStream(s)
  PROVE  /\ ScorerOwned' /\ StreamKeepsScorer'
         /\ refs' \in [Scorers -> Nat]
         /\ lm' \in [Scorers -> Paths \cup {Null}]
         /\ weights' \in [Scorers -> Weights]
<1> USE DEF ApiInv
<1> DEFINE r == Released(refs, decoder[s].ext_scorer)
<1>1. Pointers \in [Holders -> Scorers \cup {Null}] /\ refs \in [Scorers -> Nat]
  BY PointersType DEF TypeOK
<1>2. /\ scorer' = scorer
      /\ decoder' = [decoder EXCEPT ![s] = NoDecoder]
      /\ created' = [created EXCEPT ![s] = Null]
  BY DEF DeleteStream, modelVars
<1>3. Pointers' = [Pointers EXCEPT ![s] = Null]
  BY <1>2, ApiAssumption DEF Pointers, Holders, TypeOK, NoDecoder
<1>4. \A x \in Scorers : refs[x] = Cardinality({o \in Holders : Pointers[o] = x})
  BY DEF ScorerOwned, Owners
<1>5. \A x \in Scorers :
        /\ r[x] = Cardinality({o \in Holders : Pointers'[o] = x})
        /\ r[x] # 0 => refs[x] # 0
  <2>1. s \in Holders /\ Pointers[s] = decoder[s].ext_scorer
    BY PointerOf
  <2>2. \A x \in Scorers :
          /\ Released(refs, Pointers[s])[x] =
               Cardinality({o \in Holders : [Pointers EXCEPT ![s] = Null][o] = x})
          /\ Released(refs, Pointers[s])[x] # 0 => refs[x] # 0
    BY <1>1, <1>4, <2>1, CountReleased, Zenon
  <2> QED BY <1>3, <2>1, <2>2
<1>6. r = [x \in Scorers |-> r[x]]
  BY <1>1 DEF Released
<1>7. decoder' \in [Streams -> Settings]
  BY <1>2, ApiAssumption DEF TypeOK, NoDecoder, Settings, NoHotWords
<1> HIDE DEF r
<1>8. Recount(r)
  BY DEF r, DeleteStream
<1>9. /\ ScorerOwned'
      /\ refs' \in [Scorers -> Nat]
      /\ lm' \in [Scorers -> Paths \cup {Null}]
      /\ weights' \in [Scorers -> Weights]
      /\ \A x \in Scorers : refs'[x] # 0 => lm'[x] = lm[x]
  BY <1>5, <1>6, <1>8, OwnedAfter
<1>10. \A t \in Streams :
         created'[t] = IF decoder'[t].ext_scorer = Null THEN Null
                       ELSE lm[decoder'[t].ext_scorer]
  BY <1>2 DEF TypeOK, StreamKeepsScorer, NoDecoder
<1>11. StreamKeepsScorer'
  BY <1>7, <1>9, <1>10, KeptAfter
<1> QED BY <1>9, <1>11

\* A new stream shares the model's scorer.
LEMMA StreamAcquires ==
  ASSUME ApiInv, NEW s \in Streams, DS_CreateStream(s)
  PROVE  /\ ScorerOwned' /\ StreamKeepsScorer'
         /\ refs' \in [Scorers -> Nat]
         /\ lm' \in [Scorers -> Paths \cup {Null}]
         /\ weights' \in [Scorers -> Weights]
<1> USE DEF ApiInv
<1> DEFINE r == Acquired(refs, scorer)
           new == [beam_size |-> beam_width, ext_scorer |-> scorer, hot_words |-> hot_words]
<1>1. /\ Pointers \in [Holders -> Scorers \cup {Null}]
      /\ refs \in [Scorers -> Nat]
      /\ scorer \in Scorers \cup {Null}
  BY PointersType DEF TypeOK
<1>2. /\ scorer' = scorer
      /\ decoder' = [decoder EXCEPT ![s] = new]
      /\ created' = [created EXCEPT ![s] = IF scorer = Null THEN Null ELSE lm[scorer]]
  BY DEF DS_CreateStream, modelVars
<1>3. Pointers' = [Pointers EXCEPT ![s] = scorer]
  BY <1>2, ApiAssumption DEF Pointers, Holders, TypeOK
<1>4. \A x \in Scorers : refs[x] = Cardinality({o \in Holders : Pointers[o] = x})
  BY DEF ScorerOwned, Owners
<1>5. s \in Holders /\ Pointers[s] = Null
  BY PointerOf DEF IdleHoldsNothing, DS_CreateStream
<1>6. \A x \in Scorers :
        /\ r[x] = Cardinality({o \in Holders : Pointers'[o] = x})
        /\ x # scorer => r[x] = refs[x]
  BY <1>1, <1>3, <1>4, <1>5, CountAcquired
<1>7. \A x \in Scorers : r[x] # 0 => refs[x] # 0
  <2>1. \A x \in Scorers : x = scorer => refs[x] # 0
    BY PointerOf, PointedLives
  <2> QED BY <1>6, <2>1
<1>8. r = [x \in Scorers |-> r[x]]
  BY <1>1 DEF Acquired
<1>9. decoder' \in [Streams -> Settings]
  BY <1>2 DEF TypeOK, Settings
<1> HIDE DEF r
<1>10. Recount(r)
  BY DEF r, DS_CreateStream
<1>11. /\ ScorerOwned'
       /\ refs' \in [Scorers -> Nat]
       /\ lm' \in [Scorers -> Paths \cup {Null}]
       /\ weights' \in [Scorers -> Weights]
       /\ \A x \in Scorers : refs'[x] # 0 => lm'[x] = lm[x]
  BY <1>6, <1>7, <1>8, <1>10, OwnedAfter
<1>12. \A t \in Streams :
         created'[t] = IF decoder'[t].ext_scorer = Null THEN Null
                       ELSE lm[decoder'[t].ext_scorer]
  BY <1>2 DEF TypeOK, StreamKeepsScorer
<1>13. StreamKeepsScorer'
  BY <1>9, <1>11, <1>12, KeptAfter
<1> QED BY <1>11, <1>13

\* A new scorer takes the place of the model's.
LEMMA ModelReplaces ==
  ASSUME ApiInv, NEW path \in Paths, NEW x \in Scorers, DS_EnableExternalScorer(path, x)
  PROVE  /\ ScorerOwned' /\ StreamKeepsScorer'
         /\ refs' \in [Scorers -> Nat]
         /\ lm' \in [Scorers -> Paths \cup {Null}]
         /\ weights' \in [Scorers -> Weights]
<1> USE DEF ApiInv
<1> DEFINE p == [Pointers EXCEPT ![Null] = Null]
           r == Released(refs, scorer)
<1>1. /\ Pointers \in [Holders -> Scorers \cup {Null}] /\ refs \in [Scorers -> Nat]
      /\ lm \in [Scorers -> Paths \cup {Null}] /\ weights \in [Scorers -> Weights]
      /\ decoder \in [Streams -> Settings]
  BY PointersType DEF TypeOK
<1>2. /\ scorer' = x /\ lm[x] = Null /\ refs' = [r EXCEPT ![x] = 1]
      /\ decoder' = decoder /\ created' = created
      /\ lm' = [y \in Scorers |-> IF y = x THEN path
                                  ELSE IF refs'[y] = 0 THEN Null ELSE lm[y]]
      /\ weights' = [y \in Scorers |-> IF refs'[y] = 0 \/ y = x THEN PackagedWeights
                                       ELSE weights[y]]
  BY DEF DS_EnableExternalScorer, streamVars
<1>3. Null \in Holders /\ Pointers[Null] = scorer
  BY PointerOf
<1>4. Pointers' = [p EXCEPT ![Null] = x]
  BY <1>2 DEF Pointers, Holders
<1>5. \A y \in Scorers : refs[y] = Cardinality({o \in Holders : Pointers[o] = y})
  BY DEF ScorerOwned, Owners
<1>6. \A y \in Scorers :
        /\ r[y] = Cardinality({o \in Holders : p[o] = y})
        /\ r[y] # 0 => refs[y] # 0
  <2>1. \A y \in Scorers :
          /\ Released(refs, Pointers[Null])[y] =
               Cardinality({o \in Holders : [Pointers EXCEPT ![Null] = Null][o] = y})
          /\ Released(refs, Pointers[Null])[y] # 0 => refs[y] # 0
    BY <1>1, <1>3, <1>5, CountReleased, Zenon
  <2> QED BY <1>3, <2>1
<1>7. p \in [Holders -> Scorers \cup {Null}] /\ p[Null] = Null
  BY <1>1, <1>3
<1>8. r \in [Scorers -> Nat]
  <2>1. r = [y \in Scorers |-> r[y]]
    BY <1>1 DEF Released
  <2>2. \A y \in Scorers : r[y] \in Nat
    <3> SUFFICES ASSUME NEW y \in Scorers PROVE r[y] \in Nat
      OBVIOUS
    <3> DEFINE S == {o \in Holders : p[o] = y}
    <3>1. r[y] = Cardinality(S) /\ S \in SUBSET Holders
      BY <1>6
    <3> HIDE DEF S, r
    <3> QED BY <3>1, OwnersFinite
  <2> HIDE DEF r
  <2> QED BY <2>1, <2>2
<1>9. r[x] = 0
  <2>1. refs[x] = 0
    BY <1>2 DEF ScorerOwned
  <2> QED BY <1>6, <1>8, <2>1
<1> HIDE DEF p, r
<1>10. refs' = Acquired(r, x)
  <2>1. x # Null
    BY ApiAssumption
  <2> QED BY <1>2, <1>8, <1>9, <2>1 DEF Acquired
<1>11. \A y \in Scorers : refs'[y] = Cardinality({o \in Holders : Pointers'[o] = y})
  <2>1. \A y \in Scorers :
          /\ Acquired(r, x)[y] = Cardinality({o \in Holders : [p EXCEPT ![Null] = x][o] = y})
          /\ y # x => Acquired(r, x)[y] = r[y]
    <3>1. \A y \in Scorers : r[y] = Cardinality({o \in Holders : p[o] = y})
      BY <1>6
    <3>2. x \in Scorers \cup {Null}
      OBVIOUS
    <3> QED BY <1>3, <1>7, <1>8, <3>1, <3>2, CountAcquired, Zenon
  <2> QED BY <1>4, <1>10, <2>1
<1>12. refs' \in [Scorers -> Nat]
  BY <1>2, <1>8
<1>13. /\ lm' \in [Scorers -> Paths \cup {Null}]
       /\ weights' \in [Scorers -> Weights]
  BY <1>1, <1>2, ApiAssumption
<1>14. \A y \in Scorers : y # x /\ refs'[y] # 0 => refs[y] # 0
  BY <1>2, <1>6, <1>8
<1>15. \A y \in Scorers : lm'[y] = Null <=> refs'[y] = 0
  <2> SUFFICES ASSUME NEW y \in Scorers PROVE lm'[y] = Null <=> refs'[y] = 0
    OBVIOUS
  <2>1. CASE y = x
    <3>1. lm'[y] = path /\ refs'[y] = 1
      BY <1>2, <1>8, <2>1
    <3> QED BY <3>1, ApiAssumption
  <2>2. CASE y # x
    <3>1. lm'[y] = IF refs'[y] = 0 THEN Null ELSE lm[y]
      BY <1>2, <2>2
    <3> QED BY <1>14, <2>2, <3>1 DEF ScorerOwned
  <2> QED BY <2>1, <2>2
<1>16. ScorerOwned'
  BY <1>11, <1>15 DEF ScorerOwned, Owners, Holders
<1>17. StreamKeepsScorer'
  <2> SUFFICES ASSUME NEW s \in Streams
               PROVE  created[s] = IF decoder[s].ext_scorer = Null THEN Null
                                   ELSE lm'[decoder[s].ext_scorer]
    BY <1>2 DEF StreamKeepsScorer
  <2>1. created[s] = IF decoder[s].ext_scorer = Null THEN Null ELSE lm[decoder[s].ext_scorer]
    BY DEF StreamKeepsScorer
  <2>2. CASE decoder[s].ext_scorer # Null
    <3>1. PICK y \in Scorers : decoder[s].ext_scorer = y
      BY <1>1, <2>2 DEF Settings
    <3>2. lm[y] # Null
      BY <3>1, PointerOf, PointedLives
    <3>3. refs'[y] # 0
      BY <1>2, <1>16, <3>1, PointedNext
    <3>4. lm'[y] = lm[y]
      BY <1>2, <3>2, <3>3
    <3> QED BY <2>1, <2>2, <3>1, <3>4
  <2> QED BY <2>1, <2>2
<1> QED BY <1>12, <1>13, <1>16, <1>17

\* Every call keeps the inductive invariant.
LEMMA InvStep ==
  ASSUME ApiInv, [Next]_vars
  PROVE  ApiInv'
<1> USE DEF ApiInv
<1>q. ASSUME UNCHANGED <<scorer, scorerVars, decoder, created>>
      PROVE  ScorerOwned' /\ StreamKeepsScorer'
  BY <1>q, QuietStep DEF scorerVars
<1>1. CASE DS_CreateModel_Fails
  BY <1>1, <1>q DEF DS_CreateModel_Fails, TypeOK, IdleHoldsNothing, ErrorCodes,
                    modelVars, scorerVars, streamVars, stringVars
<1>2. CASE DS_CreateModel
  <2>1. UNCHANGED <<scorer, scorerVars, decoder, created>>
    BY <1>2 DEF DS_CreateModel, IdleHoldsNothing, streamVars
  <2>2. TypeOK'
    BY <1>2, ApiAssumption DEF DS_CreateModel, TypeOK, NoHotWords, ErrorCodes,
                               scorerVars, streamVars, stringVars
  <2>3. IdleHoldsNothing'
    BY <1>2 DEF DS_CreateModel, IdleHoldsNothing, streamVars
  <2> QED BY <1>q, <2>1, <2>2, <2>3
<1>3. CASE DS_FreeModel
  <2>1. /\ ScorerOwned' /\ StreamKeepsScorer'
        /\ refs' \in [Scorers -> Nat]
        /\ lm' \in [Scorers -> Paths \cup {Null}]
        /\ weights' \in [Scorers -> Weights]
    BY <1>3, ModelReleases DEF DS_FreeModel
  <2>2. TypeOK'
    BY <1>3, <2>1, ApiAssumption DEF DS_FreeModel, TypeOK, NoHotWords, ErrorCodes, stringVars
  <2>3. IdleHoldsNothing'
    BY <1>3 DEF DS_FreeModel, IdleHoldsNothing
  <2> QED BY <2>1, <2>2, <2>3
<1>4. ASSUME NEW width \in BeamWidths, DS_SetModelBeamWidth(width)
      PROVE  ApiInv'
  BY <1>4, <1>q DEF DS_SetModelBeamWidth, TypeOK, IdleHoldsNothing, ErrorCodes,
                    scorerVars, streamVars, stringVars
<1>5. CASE SCORER_NOT_ENABLED \/ DS_EnableExternalScorer_Fails
  BY <1>5, <1>q DEF SCORER_NOT_ENABLED, DS_EnableExternalScorer_Fails, TypeOK,
                    IdleHoldsNothing, ErrorCodes, modelVars, scorerVars, streamVars, stringVars
<1>6. ASSUME NEW path \in Paths, NEW x \in Scorers, DS_EnableExternalScorer(path, x)
      PROVE  ApiInv'
  <2>1. /\ ScorerOwned' /\ StreamKeepsScorer'
        /\ refs' \in [Scorers -> Nat]
        /\ lm' \in [Scorers -> Paths \cup {Null}]
        /\ weights' \in [Scorers -> Weights]
    BY <1>6, ModelReplaces
  <2>2. TypeOK'
    BY <1>6, <2>1 DEF DS_EnableExternalScorer, TypeOK, ErrorCodes, streamVars, stringVars
  <2>3. IdleHoldsNothing'
    BY <1>6 DEF DS_EnableExternalScorer, IdleHoldsNothing, streamVars
  <2> QED BY <2>1, <2>2, <2>3
<1>7. CASE DS_DisableExternalScorer
  <2>1. /\ ScorerOwned' /\ StreamKeepsScorer'
        /\ refs' \in [Scorers -> Nat]
        /\ lm' \in [Scorers -> Paths \cup {Null}]
        /\ weights' \in [Scorers -> Weights]
    BY <1>7, ModelReleases DEF DS_DisableExternalScorer, streamVars
  <2>2. TypeOK'
    BY <1>7, <2>1 DEF DS_DisableExternalScorer, TypeOK, ErrorCodes, streamVars, stringVars
  <2>3. IdleHoldsNothing'
    BY <1>7 DEF DS_DisableExternalScorer, IdleHoldsNothing, streamVars
  <2> QED BY <2>1, <2>2, <2>3
<1>8. ASSUME NEW w \in Weights, DS_SetScorerAlphaBeta(w)
      PROVE  ApiInv'
  <2>1. UNCHANGED <<scorer, lm, refs, decoder, created>>
    BY <1>8 DEF DS_SetScorerAlphaBeta, modelVars, streamVars
  <2>2. TypeOK'
    BY <1>8 DEF DS_SetScorerAlphaBeta, TypeOK, ErrorCodes, modelVars, streamVars, stringVars
  <2>3. IdleHoldsNothing'
    BY <1>8 DEF DS_SetScorerAlphaBeta, IdleHoldsNothing, modelVars, streamVars
  <2> QED BY <2>1, <2>2, <2>3, QuietStep
<1>9. ASSUME NEW word \in Words, NEW boost \in Boosts, DS_AddHotWord(word, boost)
      PROVE  ApiInv'
  BY <1>9, <1>q DEF DS_AddHotWord, TypeOK, IdleHoldsNothing, ErrorCodes,
                    scorerVars, streamVars, stringVars
<1>10. ASSUME NEW word \in Words, DS_EraseHotWord(word)
       PROVE  ApiInv'
  BY <1>10, <1>q DEF DS_EraseHotWord, TypeOK, IdleHoldsNothing, ErrorCodes,
                     scorerVars, streamVars, stringVars
<1>11. CASE DS_ClearHotWords
  BY <1>11, <1>q DEF DS_ClearHotWords, TypeOK, IdleHoldsNothing, ErrorCodes, NoHotWords,
                     scorerVars, streamVars, stringVars
<1>12. ASSUME NEW s \in Streams, DS_CreateStream(s)
       PROVE  ApiInv'
  <2>1. /\ ScorerOwned' /\ StreamKeepsScorer'
        /\ refs' \in [Scorers -> Nat]
        /\ lm' \in [Scorers -> Paths \cup {Null}]
        /\ weights' \in [Scorers -> Weights]
    BY <1>12, StreamAcquires
  <2>2. /\ stage' \in [Streams -> {"none", "live", "orphan"}]
        /\ decoder' \in [Streams -> Settings]
        /\ created' \in [Streams -> Paths \cup {Null}]
    BY <1>12 DEF DS_CreateStream, TypeOK, Settings
  <2>3. TypeOK'
    BY <1>12, <2>1, <2>2 DEF DS_CreateStream, TypeOK, ErrorCodes, modelVars, stringVars
  <2>4. IdleHoldsNothing'
    BY <1>12 DEF DS_CreateStream, IdleHoldsNothing, TypeOK, modelVars
  <2> QED BY <2>1, <2>3, <2>4
<1>13. ASSUME NEW s \in Streams, DS_FreeStream(s) \/ DS_FinishStream(s)
       PROVE  ApiInv'
  <2>1. DeleteStream(s)
    BY <1>13 DEF DS_FreeStream, DS_FinishStream
  <2>2. /\ ScorerOwned' /\ StreamKeepsScorer'
        /\ refs' \in [Scorers -> Nat]
        /\ lm' \in [Scorers -> Paths \cup {Null}]
        /\ weights' \in [Scorers -> Weights]
    BY <2>1, StreamReleases
  <2>3. /\ stage' \in [Streams -> {"none", "live", "orphan"}]
        /\ decoder' \in [Streams -> Settings]
        /\ created' \in [Streams -> Paths \cup {Null}]
    BY <2>1, ApiAssumption DEF DeleteStream, TypeOK, Settings, NoDecoder, NoHotWords
  <2>4. /\ strings' \subseteq {"strdup", "versionString"}
        /\ freed' \in {"nothing", "strdup", "versionString"}
    BY <1>13 DEF DS_FreeStream, DS_FinishStream, TypeOK, stringVars
  <2>5. TypeOK'
    BY <2>1, <2>2, <2>3, <2>4 DEF DeleteStream, TypeOK, ErrorCodes, modelVars
  <2>6. IdleHoldsNothing'
    BY <2>1 DEF DeleteStream, IdleHoldsNothing, TypeOK, NoDecoder, modelVars
  <2> QED BY <2>2, <2>5, <2>6
<1>14. CASE StringCall
  BY <1>14, <1>q DEF StringCall, DS_Version, DS_SpeechToText, DS_ErrorCodeToErrorMessage, DS_IntermediateDecode,
                     DS_FreeString, TypeOK, IdleHoldsNothing, ErrorCodes,
                     modelVars, scorerVars, streamVars
<1>15. CASE UNCHANGED vars
  BY <1>15, <1>q DEF vars, TypeOK, IdleHoldsNothing, modelVars, scorerVars, streamVars, stringVars
<1>16. CASE ModelCall
  BY <1>1, <1>2, <1>3, <1>4, <1>16 DEF ModelCall
<1>17. CASE ScorerCall
  BY <1>5, <1>6, <1>7, <1>8, <1>9, <1>10, <1>11, <1>17 DEF ScorerCall
<1>18. CASE StreamCall
  BY <1>12, <1>13, <1>18 DEF StreamCall
<1> QED BY <1>14, <1>15, <1>16, <1>17, <1>18 DEF Next

\* No scorer is on the heap before the first call.
LEMMA InitInv ==
  ASSUME Init
  PROVE  ApiInv
<1>1. TypeOK
  BY ApiAssumption DEF Init, TypeOK, NoDecoder, NoHotWords, Settings, ErrorCodes
<1>2. IdleHoldsNothing /\ StreamKeepsScorer
  BY DEF Init, IdleHoldsNothing, StreamKeepsScorer, NoDecoder
<1>3. \A x \in Scorers : Owners(x) = {}
  BY ApiAssumption DEF Init, Owners, Pointers, Holders, NoDecoder
<1>4. ScorerOwned
  BY <1>3, FS_EmptySet DEF Init, ScorerOwned
<1> QED BY <1>1, <1>2, <1>4 DEF ApiInv

\* The inductive invariant holds for any number of streams and scorers.
THEOREM ApiInvariant == Spec => []ApiInv
BY InitInv, InvStep, PTL DEF Spec

\* Use counts are exact: no scorer is deleted while in use, none is leaked.
THEOREM ScorersOwned == Spec => []ScorerOwned
<1>1. ApiInv => ScorerOwned
  BY DEF ApiInv
<1> QED BY <1>1, ApiInvariant, PTL

\* A stream keeps the scorer it was created with.
THEOREM StreamsKeepScorer == Spec => []StreamKeepsScorer
<1>1. ApiInv => StreamKeepsScorer
  BY DEF ApiInv
<1> QED BY <1>1, ApiInvariant, PTL

\* The types hold in every reachable state; the use counts do not underflow.
THEOREM TypeCorrect == Spec => []TypeOK
<1>1. ApiInv => TypeOK
  BY DEF ApiInv
<1> QED BY <1>1, ApiInvariant, PTL

\* A call that fails changes nothing.
THEOREM FailedCallsChangeNothing == Spec => ErrorsChangeNothing
<1>1. ASSUME ApiInv, [Next]_vars
      PROVE  [err' # "DS_ERR_OK" => UNCHANGED <<modelVars, scorerVars, streamVars>>]_vars
  <2> SUFFICES ASSUME Next, err' # "DS_ERR_OK"
               PROVE  UNCHANGED <<modelVars, scorerVars, streamVars>>
    BY <1>1
  <2>1. CASE ModelCall
    BY <2>1 DEF ModelCall, DS_CreateModel_Fails, DS_CreateModel, DS_FreeModel,
                DS_SetModelBeamWidth
  <2>2. CASE ScorerCall
    <3>1. ASSUME NEW word \in Words, DS_EraseHotWord(word)
          PROVE  UNCHANGED <<modelVars, scorerVars, streamVars>>
      <4>1. hot_words[word] = Null
        BY <3>1 DEF DS_EraseHotWord
      <4>2. hot_words' = hot_words
        BY <1>1, <3>1, <4>1 DEF DS_EraseHotWord, ApiInv, TypeOK
      <4> QED BY <3>1, <4>2 DEF DS_EraseHotWord, modelVars
    <3>2. ASSUME NEW word \in Words, NEW boost \in Boosts, DS_AddHotWord(word, boost)
          PROVE  UNCHANGED <<modelVars, scorerVars, streamVars>>
      BY <3>2 DEF DS_AddHotWord, modelVars
    <3> QED BY <2>2, <3>1, <3>2 DEF ScorerCall, SCORER_NOT_ENABLED,
              DS_EnableExternalScorer_Fails, DS_EnableExternalScorer,
              DS_DisableExternalScorer, DS_SetScorerAlphaBeta, DS_ClearHotWords
  <2>3. CASE StreamCall
    BY <2>3 DEF StreamCall, DS_CreateStream, DS_FreeStream, DS_FinishStream, DeleteStream
  <2>4. CASE StringCall
    BY <2>4 DEF StringCall, DS_Version, DS_SpeechToText, DS_ErrorCodeToErrorMessage, DS_IntermediateDecode,
                DS_FreeString
  <2> QED BY <2>1, <2>2, <2>3, <2>4 DEF Next
<1> QED BY <1>1, ApiInvariant, PTL DEF Spec, ErrorsChangeNothing

\* alpha and beta only reach the streams on the model's scorer.
THEOREM WeightsStayWithScorer == Spec => WeightsReachOwnScorer
<1>1. ASSUME ApiInv, [Next]_vars, NEW s \in Streams, NEW x \in Scorers,
             decoder[s].ext_scorer = x, stage[s] # "none", stage'[s] # "none",
             weights'[x] # weights[x]
      PROVE  x = scorer
  <2> USE DEF ApiInv
  <2>1. ASSUME NEW w \in Weights, DS_SetScorerAlphaBeta(w)
        PROVE  x = scorer
    BY <1>1, <2>1 DEF DS_SetScorerAlphaBeta, TypeOK
  <2>2. refs[x] # 0 /\ lm[x] # Null
    BY <1>1, PointerOf, PointedLives
  <2>3. ASSUME decoder'[s] = decoder[s]
        PROVE  refs'[x] # 0
    BY <1>1, <2>3, InvStep, PointedNext
  <2>4. ASSUME NEW r, Recount(r), decoder'[s] = decoder[s]
        PROVE  x = scorer
    <3>1. r[x] # 0
      BY <2>3, <2>4 DEF Recount
    <3> QED BY <1>1, <2>4, <3>1 DEF Recount
  <2>5. CASE ModelCall
    BY <1>1, <2>4, <2>5 DEF ModelCall, DS_CreateModel_Fails, DS_CreateModel, DS_FreeModel,
                            DS_SetModelBeamWidth, scorerVars
  <2>6. ASSUME NEW path \in Paths, NEW y \in Scorers, DS_EnableExternalScorer(path, y)
        PROVE  x = scorer
    <3>1. decoder'[s] = decoder[s] /\ y # x
      BY <2>2, <2>6 DEF DS_EnableExternalScorer, streamVars
    <3>2. weights'[x] = weights[x]
      BY <2>3, <2>6, <3>1 DEF DS_EnableExternalScorer
    <3> QED BY <1>1, <3>2
  <2>7. CASE DS_DisableExternalScorer
    BY <2>4, <2>7 DEF DS_DisableExternalScorer, streamVars
  <2>8. CASE ScorerCall
    BY <1>1, <2>1, <2>6, <2>7, <2>8
       DEF ScorerCall, SCORER_NOT_ENABLED, DS_EnableExternalScorer_Fails, DS_AddHotWord,
           DS_EraseHotWord, DS_ClearHotWords, scorerVars
  <2>9. ASSUME NEW t \in Streams, DS_CreateStream(t)
        PROVE  x = scorer
    <3>1. t # s
      BY <1>1, <2>9 DEF DS_CreateStream
    <3>2. decoder'[s] = decoder[s]
      BY <2>9, <3>1 DEF DS_CreateStream, TypeOK
    <3> QED BY <2>4, <2>9, <3>2 DEF DS_CreateStream
  <2>10. ASSUME NEW t \in Streams, DeleteStream(t)
         PROVE  x = scorer
    <3>1. t # s
      BY <1>1, <2>10 DEF DeleteStream, TypeOK
    <3>2. decoder'[s] = decoder[s]
      BY <2>10, <3>1 DEF DeleteStream, TypeOK
    <3> QED BY <2>4, <2>10, <3>2 DEF DeleteStream
  <2>11. CASE StreamCall
    BY <2>9, <2>10, <2>11 DEF StreamCall, DS_FreeStream, DS_FinishStream
  <2>12. CASE StringCall
    BY <1>1, <2>12 DEF StringCall, DS_Version, DS_SpeechToText, DS_ErrorCodeToErrorMessage,
                       DS_IntermediateDecode, DS_FreeString, scorerVars
  <2>13. CASE UNCHANGED vars
    BY <1>1, <2>13 DEF vars, scorerVars
  <2> QED BY <1>1, <2>5, <2>8, <2>11, <2>12, <2>13 DEF Next
<1>2. ASSUME ApiInv, [Next]_vars
      PROVE  [\A s \in Streams :
                LET x == decoder[s].ext_scorer IN
                /\ stage[s] # "none" /\ stage'[s] # "none"
                /\ x # Null /\ weights'[x] # weights[x]
                => x = scorer]_vars
  <2>1. \A s \in Streams : decoder[s].ext_scorer \in Scorers \cup {Null}
    BY <1>2 DEF ApiInv, TypeOK, Settings
  <2> QED BY <1>1, <1>2, <2>1
<1> QED BY <1>2, ApiInvariant, PTL DEF Spec, WeightsReachOwnScorer

=============================================================================
