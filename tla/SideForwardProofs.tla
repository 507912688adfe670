------------------------- MODULE SideForwardProofs -------------------------
(***************************************************************************)
(* Proofs about SideForward, for any finite set of ranks, any number of    *)
(* layers and all plans and configurations that the code accepts.          *)
(*                                                                         *)
(* IInv is inductive.  Its parts say which places in a layer the ranks may *)
(* have at once (Stages), that they select the same way (SameSelection),   *)
(* that a selection under way keeps what has to be kept (Selections), and  *)
(* what the buffers of past, present and future layers hold (Buffers).     *)
(***************************************************************************)
EXTENDS SideForward, SharedFacts

Selecting == {"score", "choose", "cast"}
Computing == {"attend", "project", "mlp"}
First     == IF Deviation THEN "kv_deviation" ELSE "sparse_q"

\* What Sparse-Q has to compute in every layer.
Near ==
  {p \in Span : \/ \E g \in plan.gaps : p \in (g - conf.radius)..(g + conf.radius)
                \/ plan.gaps = {} /\ p >= plan.stop - conf.tail}

\* S is of A and has all that has to be kept.
Keeps(S, A) ==
  /\ S \subseteq A /\ plan.gaps \subseteq S
  /\ conf.strategy = "sparse_q" => Near \subseteq S

Stages ==
  /\ \A k \in Ranks : (pc[k] = "done") = (layer[k] = NumLayers)
  /\ \A k \in Ranks : pc[k] \in Selecting => Check(layer[k])
  /\ \A j, k \in Ranks :
       /\ layer[j] = layer[k]
       /\ pc[j] \in {"embed", "mlp", "done"} => pc[k] = pc[j]
       /\ pc[j] = "score" => pc[k] \in {"layer", "score"}
       /\ pc[j] \in {"choose", "cast"} => pc[k] \in {"choose", "cast"}
       /\ pc[j] \in {"attend", "project"} =>
            \/ pc[k] \in {"attend", "project"}
            \/ pc[k] = "layer" /\ ~Check(layer[k])

SameSelection ==
  /\ \A k \in Ranks : pc[k] \in Selecting =>
       /\ by[k] \in {"kv_deviation", "sparse_q"}
       /\ conf.strategy # "compare" => by[k] = First
  /\ \A j, k \in Ranks :
       /\ active[j] = active[k] /\ chosen[j] = chosen[k]
       /\ by[j] # by[k] => \/ pc[j] = "score" /\ pc[k] = "layer"
                           \/ pc[k] = "score" /\ pc[j] = "layer"
       /\ pc[j] = "score" /\ pc[k] = "layer" => by[j] = First

Selections ==
  /\ pc[0] = "cast" =>
       /\ Keeps(sent, active[0])
       /\ Cardinality(sent) = Count(active[0], by[0], layer[0])
  /\ \A k \in Ranks :
       /\ pc[k] = "cast" => size[k] = Count(active[k], by[k], layer[k])
       /\ \/ conf.strategy = "compare" /\ pc[k] \in Selecting /\ by[k] = "sparse_q"
          \/ conf.strategy = "sparse_q" /\ pc[k] \in Computing /\ Check(layer[k])
          => Keeps(chosen[k], active[k])

\* Layers that are done, the one each rank is in, and those to come.
PastRows ==
  \A k \in Ranks, l \in Layers : l < layer[k] =>
    /\ Keeps(keys[k][l], Span) /\ active[k] \subseteq keys[k][l]
    /\ values[k][l] = keys[k][l] /\ keys[k][l] = keys[0][l]
    /\ l > 0 => keys[k][l] \subseteq keys[k][l - 1]

PresentRows ==
  \A k \in Ranks : pc[k] # "done" =>
    /\ pc[k] \in {"embed", "layer"} =>
         keys[k][layer[k]] = {} /\ values[k][layer[k]] = {}
    /\ pc[k] \in Selecting =>
         /\ keys[k][layer[k]] = IF Deviation THEN {} ELSE active[k]
         /\ values[k][layer[k]] = {}
    /\ pc[k] \in Computing =>
         keys[k][layer[k]] = active[k] /\ values[k][layer[k]] = active[k]

FutureRows ==
  \A k \in Ranks, l \in Layers : l > layer[k] => keys[k][l] = {} /\ values[k][l] = {}

Buffers ==
  /\ \A k \in Ranks : Keeps(active[k], Span)
  /\ PastRows /\ PresentRows /\ FutureRows

IInv ==
  TypeOK /\ Stages /\ SameSelection /\ Selections /\ Buffers /\ MaskCurrent

-----------------------------------------------------------------------------
(* The span and the ratios                                                 *)

LEMMA SpanFinite ==
  ASSUME plan \in Plans
  PROVE  /\ Loadable(plan) /\ Span \subseteq Int /\ IsFiniteSet(Span)
         /\ Cardinality(Span) \in Nat
         /\ \A A \in SUBSET Span :
              /\ IsFiniteSet(A) /\ Cardinality(A) \in 0..Cardinality(Span)
<1>1. Loadable(plan)
  BY PlansAssumption
<1>2. Span \subseteq Int /\ IsFiniteSet(Span)
  BY <1>1, FS_Interval DEF Loadable, Span
<1>3. Cardinality(Span) \in Nat
  BY <1>2, FS_CardinalityType
<1>4. ASSUME NEW A \in SUBSET Span
      PROVE  IsFiniteSet(A) /\ Cardinality(A) \in 0..Cardinality(Span)
  <2>1. IsFiniteSet(A) /\ Cardinality(A) <= Cardinality(Span)
    BY <1>2, FS_Subset
  <2>2. Cardinality(A) \in Nat
    BY <2>1, FS_CardinalityType
  <2> QED BY <2>1, <2>2, <1>3
<1> QED BY <1>1, <1>2, <1>3, <1>4

\* A check layer has a ratio.
LEMMA RatioType ==
  ASSUME conf \in Configs, NEW l \in Layers, Check(l)
  PROVE  Ratio(l) \in Nat
<1> DEFINE n == Len(conf.checks)
           T == {i \in 1..n : conf.checks[i] = l}
           IsFirst(i) == conf.checks[i] = l /\ \A j \in 1..(i - 1) : conf.checks[j] # l
<1>1. /\ n \in Nat \ {0} /\ DOMAIN conf.checks = 1..n
      /\ conf.ratios \in Seq(0..Whole) /\ Len(conf.ratios) \in {1, n}
  BY ConfigAssumption DEF Valid
<1>2. T # {} /\ T \subseteq Nat
  BY <1>1 DEF Check
<1>3. PICK m \in T : \A j \in T : m <= j
  BY <1>2, LeastElement
<1>4. m \in 1..n /\ IsFirst(m)
  BY <1>1, <1>3
<1>5. (CHOOSE i \in DOMAIN conf.checks : IsFirst(i)) \in 1..n
  BY <1>1, <1>4
<1>6. ASSUME NEW i \in 1..n
      PROVE  conf.ratios[Lower(Len(conf.ratios), i)] \in Nat
  <2>1. \A j \in 1..Len(conf.ratios) : conf.ratios[j] \in 0..Whole
    BY <1>1, NumberAssumption
  <2>2. Lower(Len(conf.ratios), i) \in 1..Len(conf.ratios)
    <3> DEFINE q == Len(conf.ratios)
    <3>1. q \in {1, n} /\ n \in Nat \ {0}
      BY <1>1
    <3> HIDE DEF n, q
    <3>2. Lower(q, i) \in 1..q
      BY <3>1 DEF Lower
    <3> QED BY <3>2 DEF q
  <2> QED BY <2>1, <2>2, NumberAssumption
<1> QED BY <1>5, <1>6 DEF Ratio

-----------------------------------------------------------------------------
(* The selection                                                           *)

\* The room that every rank makes for a selection is what rank 0's has, whatever
\* tokens it takes, and never more than there are.
LEMMA CountOfSelection ==
  ASSUME conf \in Configs, plan \in Plans, NEW A \in SUBSET Span, NEW how,
         NEW l \in Layers, Check(l)
  PROVE  /\ Base(A, how) \subseteq A
         /\ Count(A, how, l) \in 0..Cardinality(A)
         /\ \A T \in SUBSET (A \ Base(A, how)) :
              Cardinality(T) = TopK(A, how, l) =>
                Cardinality(Base(A, how) \cup T) = Count(A, how, l)
<1> DEFINE B == Base(A, how)
           C == A \ B
           cached == Cardinality(A \ plan.gaps)
           taken == (cached * Ratio(l)) \div Whole
<1>1. B \subseteq A
  BY DEF Base, Forced
<1>2. /\ IsFiniteSet(A) /\ IsFiniteSet(B) /\ IsFiniteSet(C)
      /\ IsFiniteSet(A \ plan.gaps)
  BY <1>1, SpanFinite, FS_Subset
<1>3. /\ Cardinality(A) = Cardinality(B) + Cardinality(C)
      /\ Cardinality(B) \in Nat /\ Cardinality(C) \in Nat
  <2>1. B \cup C = A /\ B \cap C = {}
    BY <1>1
  <2> HIDE DEF B, C
  <2> QED BY <1>2, <2>1, DisjointUnion
<1>4. cached \in Nat /\ Ratio(l) \in Nat /\ Whole \in Nat \ {0}
  BY <1>2, FS_CardinalityType, RatioType, NumberAssumption
<1>5. taken \in Nat
  <2> HIDE DEF cached
  <2>1. cached * Ratio(l) \in Nat
    BY <1>4
  <2> QED BY <2>1, <1>4
<1>6. TopK(A, how, l) \in 0..Cardinality(C)
  <2> HIDE DEF cached, taken, C
  <2>1. TopK(A, how, l) = IF cached = 0 \/ Cardinality(C) = 0 THEN 0
                          ELSE Lower(Higher(taken, 1), Cardinality(C))
    BY DEF TopK, cached, taken, C
  <2> QED BY <2>1, <1>3, <1>5 DEF Lower, Higher
<1>7. Count(A, how, l) = Cardinality(B) + TopK(A, how, l)
  BY DEF Count
<1>8. ASSUME NEW T \in SUBSET C, Cardinality(T) = TopK(A, how, l)
      PROVE  Cardinality(B \cup T) = Count(A, how, l)
  <2>1. IsFiniteSet(T) /\ B \cap T = {}
    BY <1>2, FS_Subset
  <2> HIDE DEF B, C
  <2> QED BY <1>2, <1>7, <1>8, <2>1, DisjointUnion
<1>9. Count(A, how, l) \in 0..Cardinality(A)
  <2> HIDE DEF B, C
  <2> QED BY <1>3, <1>6, <1>7
<1> QED BY <1>1, <1>8, <1>9

\* Two active tokens are no further apart in the active ones than in the prompt.
LEMMA IndexDistance ==
  ASSUME NEW A, A \subseteq Int, IsFiniteSet(A), NEW a \in A, NEW b \in A, a <= b
  PROVE  /\ Index(A, a) \in Nat /\ Index(A, b) \in Nat
         /\ Index(A, b) - Index(A, a) \in 0..(b - a)
<1> DEFINE L == {x \in A : x < a}
           M == {x \in A : a <= x /\ x < b}
           H == {x \in A : x < b}
<1>1. a \in Int /\ b \in Int /\ \A x \in A : x \in Int
  OBVIOUS
<1>2. IsFiniteSet(L) /\ IsFiniteSet(M)
  BY FS_Subset
<1>3. \A x \in A : (x \in H <=> x \in L \/ x \in M) /\ ~(x \in L /\ x \in M)
  BY <1>1
<1>4. L \cap M = {} /\ H = L \cup M
  BY <1>3
<1>5. \A x \in M : x \in a..(b - 1)
  BY <1>1
<1>6. IsFiniteSet(a..(b - 1)) /\ Cardinality(a..(b - 1)) = b - a
  <2>1. b - 1 \in Int
    BY <1>1
  <2>2. /\ IsFiniteSet(a..(b - 1))
        /\ Cardinality(a..(b - 1)) = IF a > b - 1 THEN 0 ELSE (b - 1) - a + 1
    BY <1>1, <2>1, FS_Interval
  <2> QED BY <1>1, <2>2
<1>7. Cardinality(M) <= b - a
  BY <1>5, <1>6, FS_Subset
<1>8. Index(A, a) = Cardinality(L) /\ Index(A, b) = Cardinality(H)
  BY DEF Index
<1> HIDE DEF L, M, H
<1>9. /\ Cardinality(H) = Cardinality(L) + Cardinality(M)
      /\ Cardinality(L) \in Nat /\ Cardinality(M) \in Nat
  BY <1>2, <1>4, DisjointUnion
<1> QED BY <1>1, <1>7, <1>8, <1>9

LEMMA IndexFromEnd ==
  ASSUME NEW stop \in Int, NEW A, A \subseteq Int, \A x \in A : x < stop, IsFiniteSet(A),
         NEW a \in A
  PROVE  /\ Index(A, a) \in Nat /\ Cardinality(A) \in Nat
         /\ Cardinality(A) - Index(A, a) <= stop - a
<1> DEFINE L == {x \in A : x < a}
           M == {x \in A : a <= x}
<1>1. a \in Int /\ \A x \in A : x \in Int
  OBVIOUS
<1>2. IsFiniteSet(L) /\ IsFiniteSet(M)
  BY FS_Subset
<1>3. \A x \in A : (x \in L \/ x \in M) /\ ~(x \in L /\ x \in M)
  BY <1>1
<1>4. L \cap M = {} /\ A = L \cup M
  BY <1>3
<1>5. \A x \in M : x \in a..(stop - 1)
  BY <1>1
<1>6. IsFiniteSet(a..(stop - 1)) /\ Cardinality(a..(stop - 1)) = stop - a
  BY <1>1, FS_Interval
<1>7. Cardinality(M) <= stop - a
  BY <1>5, <1>6, FS_Subset
<1>8. Index(A, a) = Cardinality(L)
  BY DEF Index
<1> HIDE DEF L, M
<1>9. /\ Cardinality(A) = Cardinality(L) + Cardinality(M)
      /\ Cardinality(L) \in Nat /\ Cardinality(M) \in Nat
  BY <1>2, <1>4, DisjointUnion
<1> QED BY <1>1, <1>7, <1>8, <1>9

\* What Sparse-Q has to compute is kept among active tokens that have it, although
\* the window around a gap is laid over the active ones.
LEMMA NearIsForced ==
  ASSUME conf \in Configs, plan \in Plans, conf.strategy = "sparse_q",
         NEW A, Keeps(A, Span)
  PROVE  Near \subseteq Base(A, "sparse_q")
<1>1. Valid(conf) /\ Loadable(plan) /\ Span \subseteq Int
  BY ConfigAssumption, SpanFinite
<1>2. A \subseteq Span /\ A \subseteq Int /\ IsFiniteSet(A) /\ plan.gaps \subseteq A
  BY <1>1, SpanFinite DEF Keeps
<1> SUFFICES ASSUME NEW p \in Near
             PROVE  p \in Forced(A)
  BY DEF Base
<1>3. p \in A
  BY DEF Keeps
<1>4. A \cap plan.gaps = plan.gaps
  BY <1>2
<1>5. CASE plan.gaps = {}
  <2>1. p >= plan.stop - conf.tail
    BY <1>5 DEF Near
  <2>2. plan.stop \in Int /\ \A x \in A : x < plan.stop
    BY <1>1, <1>2 DEF Loadable, Span
  <2>3. /\ Index(A, p) \in Nat /\ Cardinality(A) \in Nat
        /\ Cardinality(A) - Index(A, p) <= plan.stop - p
    BY <1>2, <1>3, <2>2, IndexFromEnd
  <2>4. conf.tail \in Nat /\ p \in Int
    BY <1>1, <1>2, <1>3 DEF Valid
  <2>5. Index(A, p) >= Cardinality(A) - conf.tail
    BY <2>1, <2>2, <2>3, <2>4
  <2> QED BY <1>3, <1>4, <1>5, <2>5 DEF Forced
<1>6. CASE plan.gaps # {}
  <2>1. PICK g \in plan.gaps : p \in (g - conf.radius)..(g + conf.radius)
    BY <1>6 DEF Near
  <2>2. conf.radius \in Nat /\ p \in Int /\ g \in Int /\ g \in A
    BY <1>1, <1>2, <1>3 DEF Valid
  <2>3. Index(A, p) - Index(A, g) \in (-conf.radius)..conf.radius
    <3>1. CASE p <= g
      <4>1. /\ Index(A, p) \in Nat /\ Index(A, g) \in Nat
            /\ Index(A, g) - Index(A, p) \in 0..(g - p)
        BY <1>2, <1>3, <2>2, <3>1, IndexDistance
      <4> QED BY <2>1, <2>2, <3>1, <4>1
    <3>2. CASE g <= p
      <4>1. /\ Index(A, p) \in Nat /\ Index(A, g) \in Nat
            /\ Index(A, p) - Index(A, g) \in 0..(p - g)
        BY <1>2, <1>3, <2>2, <3>2, IndexDistance
      <4> QED BY <2>1, <2>2, <3>2, <4>1
    <3> QED BY <2>2, <3>1, <3>2
  <2> QED BY <1>3, <1>4, <1>6, <2>3 DEF Forced
<1> QED BY <1>5, <1>6

-----------------------------------------------------------------------------
(* Places and types                                                        *)

LEMMA LayerInside ==
  ASSUME TypeOK, Stages, NEW k \in Ranks, pc[k] # "done"
  PROVE  layer[k] \in Layers /\ layer[k] + 1 \in 0..NumLayers
BY NumberAssumption DEF TypeOK, Stages, Layers

LEMMA RowsType ==
  ASSUME NEW X, NEW f \in [Layers -> SUBSET X], NEW l, NEW A \in SUBSET X
  PROVE  [f EXCEPT ![l] = @ \cup A] \in [Layers -> SUBSET X]
<1> DEFINE g == [f EXCEPT ![l] = @ \cup A]
<1>1. g = [m \in Layers |-> IF m = l THEN f[l] \cup A ELSE f[m]]
  OBVIOUS
<1>2. ASSUME NEW m \in Layers
      PROVE  (IF m = l THEN f[l] \cup A ELSE f[m]) \in SUBSET X
  <2>1. f[m] \subseteq X
    OBVIOUS
  <2> QED BY <2>1
<1> HIDE DEF g
<1>3. g \in [Layers -> SUBSET X]
  BY <1>1, <1>2
<1> QED BY <1>3 DEF g

LEMMA TypeStep == TypeOK /\ Stages /\ [Next]_vars => TypeOK'
<1> SUFFICES ASSUME TypeOK, Stages, [Next]_vars
             PROVE  TypeOK'
  OBVIOUS
<1> USE DEF TypeOK, Span, Waiting, selectionVars, bufferVars
<1>0. 0 \in Ranks
  BY RanksAssumption
<1>1. CASE Embed
  BY <1>1 DEF Embed
<1>2. ASSUME NEW k \in Ranks, Plain(k)
      PROVE  TypeOK'
  BY <1>2, LayerInside DEF Plain, Write
<1>3. ASSUME NEW k \in Ranks, Score(k)
      PROVE  TypeOK'
  <2>1. layer[k] \in Layers
    BY <1>3, LayerInside DEF Score
  <2>2. CASE Deviation
    BY <1>3, <2>1, <2>2 DEF Score
  <2>3. CASE ~Deviation
    <3>1. [keys[k] EXCEPT ![layer[k]] = @ \cup active[k]] \in [Layers -> SUBSET Span]
      BY RowsType
    <3>2. keys' = [keys EXCEPT ![k] = [keys[k] EXCEPT ![layer[k]] = @ \cup active[k]]]
      BY <1>3, <2>3 DEF Score, Write
    <3>3. keys' \in [Ranks -> [Layers -> SUBSET Span]]
      BY <3>1, <3>2
    <3>4. values' = values
      <4>1. values' = [values EXCEPT ![k] = [values[k] EXCEPT ![layer[k]] = values[k][layer[k]]]]
        BY <1>3, <2>3 DEF Score, Write
      <4> QED BY <2>1, <4>1
    <3> QED BY <1>3, <3>3, <3>4 DEF Score
  <2> QED BY <2>2, <2>3
<1>4. CASE ReduceScores
  BY <1>4 DEF ReduceScores
<1>5. ASSUME NEW k \in Ranks, Choose(k)
      PROVE  TypeOK'
  <2> DEFINE A == active[k]
             n == Count(A, by[k], layer[k])
  <2>1. pc[k] = "choose" /\ layer[k] \in Layers /\ Check(layer[k])
    BY <1>5, LayerInside DEF Choose, Stages, Selecting
  <2>2. A \in SUBSET Span
    OBVIOUS
  <2>3. Base(A, by[k]) \subseteq A /\ n \in 0..Cardinality(A)
    BY <2>1, <2>2, CountOfSelection
  <2>4. Cardinality(A) \in 0..Cardinality(Span) /\ Cardinality(Span) \in Nat
    BY <2>2, SpanFinite
  <2>5. n \in 0..Cardinality(Span)
    BY <2>3, <2>4
  <2>6. size' \in [Ranks -> 0..Cardinality(Span)]
    BY <1>5, <2>5 DEF Choose
  <2>7. sent' \subseteq Span
    BY <1>5, <2>2, <2>3 DEF Choose
  <2> QED BY <1>5, <2>6, <2>7 DEF Choose
<1>6. CASE CompareNext
  BY <1>6 DEF CompareNext, CompareOnCopy
<1>7. CASE PruneBefore
  <2> DEFINE S == [k \in Ranks |->
                     IF conf.strategy = "compare" THEN chosen[k] ELSE sent]
  <2>1. S \in [Ranks -> SUBSET Span]
    OBVIOUS
  <2>2. /\ active' = S
        /\ keys' = [k \in Ranks |-> [keys[k] EXCEPT ![layer[k]] = @ \cup S[k]]]
        /\ values' = [k \in Ranks |-> [values[k] EXCEPT ![layer[k]] = @ \cup S[k]]]
    BY <1>7 DEF PruneBefore, Retained
  <2> HIDE DEF S
  <2>3. /\ keys' \in [Ranks -> [Layers -> SUBSET Span]]
        /\ values' \in [Ranks -> [Layers -> SUBSET Span]]
    <3>1. ASSUME NEW k \in Ranks
          PROVE  /\ [keys[k] EXCEPT ![layer[k]] = @ \cup S[k]] \in [Layers -> SUBSET Span]
                 /\ [values[k] EXCEPT ![layer[k]] = @ \cup S[k]] \in [Layers -> SUBSET Span]
      BY <2>1, RowsType
    <3> QED BY <2>2, <3>1
  <2>4. mask' \in [Ranks -> (SUBSET Span) \cup {None}]
    BY <1>7 DEF PruneBefore, MaskReset
  <2> QED BY <1>7, <2>1, <2>2, <2>3, <2>4 DEF PruneBefore
<1>8. CASE KeepSelection
  <2>1. /\ keys' \in [Ranks -> [Layers -> SUBSET Span]]
        /\ values' \in [Ranks -> [Layers -> SUBSET Span]]
    <3>1. ASSUME NEW k \in Ranks
          PROVE  /\ [keys[k] EXCEPT ![layer[k]] = @ \cup active[k]]
                      \in [Layers -> SUBSET Span]
                 /\ [values[k] EXCEPT ![layer[k]] = @ \cup active[k]]
                      \in [Layers -> SUBSET Span]
      BY RowsType
    <3> QED BY <1>8, <3>1 DEF KeepSelection
  <2> QED BY <1>8, <2>1 DEF KeepSelection
<1>9. ASSUME NEW k \in Ranks, Attend(k)
      PROVE  TypeOK'
  BY <1>9 DEF Attend
<1>10. CASE ReduceAttention
  BY <1>10 DEF ReduceAttention
<1>11. CASE ReduceMlp
  <2>1. layer' \in [Ranks -> 0..NumLayers]
    BY <1>11, LayerInside DEF ReduceMlp, All
  <2>2. mask' \in [Ranks -> (SUBSET Span) \cup {None}]
    BY <1>11 DEF ReduceMlp, MaskReset
  <2>3. active' \in [Ranks -> SUBSET Span] /\ pruned' \in [Ranks -> BOOLEAN]
    BY <1>11 DEF ReduceMlp, Retained
  <2> QED BY <1>11, <2>1, <2>2, <2>3 DEF ReduceMlp
<1>12. CASE UNCHANGED vars
  BY <1>12 DEF vars
<1> QED
  BY <1>1, <1>2, <1>3, <1>4, <1>5, <1>6, <1>7, <1>8, <1>9, <1>10, <1>11, <1>12
  DEF Next, Collective, Local, Finished

\* Ranks meet in a collective only when all have come, and part ways only between
\* two of them.
LEMMA StagesStep == TypeOK /\ Stages /\ [Next]_vars => Stages'
<1> SUFFICES ASSUME TypeOK, Stages, [Next]_vars
             PROVE  Stages'
  OBVIOUS
<1> USE DEF Stages, Selecting, Waiting, Check, All
<1>1. 0 \in Ranks /\ pc \in [Ranks -> Waiting \cup {"layer", "choose", "attend", "done"}]
      /\ layer \in [Ranks -> 0..NumLayers] /\ NumLayers \in Nat \ {0}
  BY RanksAssumption, NumberAssumption DEF TypeOK
<1>2. CASE Embed
  BY <1>1, <1>2 DEF Embed
<1>3. ASSUME NEW k \in Ranks, Plain(k)
      PROVE  Stages'
  <2>1. \A j \in Ranks : Check(layer[j])' <=> Check(layer[j])
    BY <1>3 DEF Plain
  <2>2. /\ \A j \in Ranks : pc'[j] = IF j = k THEN "attend" ELSE pc[j]
        /\ layer' = layer /\ pc[k] = "layer" /\ ~Check(layer[k])
    BY <1>1, <1>3 DEF Plain
  <2> HIDE DEF Check
  <2>3. \A j \in Ranks : /\ (pc'[j] = "done") = (layer'[j] = NumLayers)
                         /\ pc'[j] \in Selecting => Check(layer[j])'
    BY <2>1, <2>2
  <2>4. ASSUME NEW i \in Ranks, NEW j \in Ranks
        PROVE  /\ layer'[i] = layer'[j]
               /\ pc'[i] \in {"embed", "mlp", "done"} => pc'[j] = pc'[i]
               /\ pc'[i] = "score" => pc'[j] \in {"layer", "score"}
               /\ pc'[i] \in {"choose", "cast"} => pc'[j] \in {"choose", "cast"}
               /\ pc'[i] \in {"attend", "project"} =>
                    \/ pc'[j] \in {"attend", "project"}
                    \/ pc'[j] = "layer" /\ ~Check(layer[j])'
    BY <1>1, <2>1, <2>2
  <2> QED BY <2>3, <2>4
<1>4. ASSUME NEW k \in Ranks, Score(k)
      PROVE  Stages'
  <2>1. \A j \in Ranks : Check(layer[j])' <=> Check(layer[j])
    BY <1>4 DEF Score
  <2>2. /\ \A j \in Ranks : pc'[j] = IF j = k THEN "score" ELSE pc[j]
        /\ layer' = layer /\ pc[k] = "layer" /\ Check(layer[k])
    BY <1>1, <1>4 DEF Score
  <2> HIDE DEF Check
  <2>3. \A j \in Ranks : /\ (pc'[j] = "done") = (layer'[j] = NumLayers)
                         /\ pc'[j] \in Selecting => Check(layer[j])'
    BY <2>1, <2>2
  <2>4. ASSUME NEW i \in Ranks, NEW j \in Ranks
        PROVE  /\ layer'[i] = layer'[j]
               /\ pc'[i] \in {"embed", "mlp", "done"} => pc'[j] = pc'[i]
               /\ pc'[i] = "score" => pc'[j] \in {"layer", "score"}
               /\ pc'[i] \in {"choose", "cast"} => pc'[j] \in {"choose", "cast"}
               /\ pc'[i] \in {"attend", "project"} =>
                    \/ pc'[j] \in {"attend", "project"}
                    \/ pc'[j] = "layer" /\ ~Check(layer[j])'
    BY <1>1, <2>1, <2>2
  <2> QED BY <2>3, <2>4
<1>5. CASE ReduceScores
  BY <1>1, <1>5 DEF ReduceScores
<1>6. ASSUME NEW k \in Ranks, Choose(k)
      PROVE  Stages'
  BY <1>1, <1>6 DEF Choose
<1>7. CASE CompareNext
  BY <1>1, <1>7 DEF CompareNext
<1>8. CASE PruneBefore
  BY <1>1, <1>8 DEF PruneBefore
<1>9. CASE KeepSelection
  BY <1>1, <1>9 DEF KeepSelection
<1>10. ASSUME NEW k \in Ranks, Attend(k)
       PROVE  Stages'
  BY <1>1, <1>10 DEF Attend
<1>11. CASE ReduceAttention
  BY <1>1, <1>11 DEF ReduceAttention
<1>12. CASE ReduceMlp
  BY <1>1, <1>12 DEF ReduceMlp, Layers
<1>13. CASE UNCHANGED vars
  BY <1>13 DEF vars
<1> QED
  BY <1>2, <1>3, <1>4, <1>5, <1>6, <1>7, <1>8, <1>9, <1>10, <1>11, <1>12, <1>13
  DEF Next, Collective, Local, Finished

-----------------------------------------------------------------------------
(* Selections                                                              *)

LEMMA Given == [Next]_vars => conf' = conf /\ plan' = plan
BY DEF Next, Collective, Local, Finished, vars, Embed, Plain, Score, ReduceScores,
       Choose, CompareNext, PruneBefore, KeepSelection, Attend, ReduceAttention, ReduceMlp

LEMMA SameSelectionStep ==
  TypeOK /\ Stages /\ SameSelection /\ [Next]_vars => SameSelection'
<1> SUFFICES ASSUME TypeOK, Stages, SameSelection, [Next]_vars
             PROVE  SameSelection'
  OBVIOUS
<1> USE DEF SameSelection, Selecting, Waiting, All
<1>1. /\ 0 \in Ranks /\ First' = First /\ conf' = conf
      /\ pc \in [Ranks -> Waiting \cup {"layer", "choose", "attend", "done"}]
      /\ by \in [Ranks -> {"kv_deviation", "sparse_q", None}]
  BY RanksAssumption, Given DEF TypeOK, First, Deviation
<1>2. CASE Embed
  BY <1>1, <1>2 DEF Embed, selectionVars
<1>3. ASSUME NEW k \in Ranks, Plain(k)
      PROVE  SameSelection'
  BY <1>1, <1>3 DEF Plain, selectionVars, Stages
<1>4. ASSUME NEW k \in Ranks, Score(k)
      PROVE  SameSelection'
  <2>1. /\ First \in {"kv_deviation", "sparse_q"} /\ pc[k] = "layer"
        /\ \A j \in Ranks : pc'[j] = IF j = k THEN "score" ELSE pc[j]
        /\ \A j \in Ranks : by'[j] = IF j = k THEN First ELSE by[j]
        /\ active' = active /\ chosen' = chosen
    BY <1>1, <1>4 DEF Score, First
  <2>2. \A j \in Ranks : pc[j] \in {"layer", "score"}
    <3>1. Check(layer[k])
      BY <1>4 DEF Score
    <3> QED BY <1>1, <2>1, <3>1 DEF Stages
  <2>3. ASSUME NEW i \in Ranks, NEW j \in Ranks, by'[i] # by'[j]
        PROVE  \/ pc'[i] = "score" /\ pc'[j] = "layer"
               \/ pc'[j] = "score" /\ pc'[i] = "layer"
    BY <1>1, <2>1, <2>2, <2>3
  <2> QED BY <1>1, <2>1, <2>2, <2>3
<1>5. CASE ReduceScores
  BY <1>1, <1>5 DEF ReduceScores, selectionVars
<1>6. ASSUME NEW k \in Ranks, Choose(k)
      PROVE  SameSelection'
  BY <1>1, <1>6 DEF Choose, Stages
<1>7. CASE CompareNext
  BY <1>1, <1>7 DEF CompareNext
<1>8. CASE PruneBefore
  BY <1>1, <1>8 DEF PruneBefore, Retained, selectionVars
<1>9. CASE KeepSelection
  BY <1>1, <1>9 DEF KeepSelection
<1>10. ASSUME NEW k \in Ranks, Attend(k)
       PROVE  SameSelection'
  BY <1>1, <1>10 DEF Attend, selectionVars
<1>11. CASE ReduceAttention
  BY <1>1, <1>11 DEF ReduceAttention, selectionVars
<1>12. CASE ReduceMlp
  BY <1>1, <1>12 DEF ReduceMlp, Retained, selectionVars
<1>13. CASE UNCHANGED vars
  BY <1>1, <1>13 DEF vars, selectionVars
<1> QED
  BY <1>2, <1>3, <1>4, <1>5, <1>6, <1>7, <1>8, <1>9, <1>10, <1>11, <1>12, <1>13
  DEF Next, Collective, Local, Finished

\* The plan and the configuration do not change, nor what is said of them.
LEMMA Frames ==
  ASSUME [Next]_vars
  PROVE  /\ conf' = conf /\ plan' = plan /\ Span' = Span
         /\ Keeps(sent, active[0])' <=> Keeps(sent', active'[0])
         /\ Count(active[0], by[0], layer[0])' = Count(active'[0], by'[0], layer'[0])
         /\ \A k \in Ranks :
              /\ Check(layer[k])' <=> Check(layer'[k])
              /\ Count(active[k], by[k], layer[k])' = Count(active'[k], by'[k], layer'[k])
              /\ Keeps(chosen[k], active[k])' <=> Keeps(chosen'[k], active'[k])
              /\ Keeps(active[k], Span)' <=> Keeps(active'[k], Span)
              /\ \A l \in Layers : Keeps(keys[k][l], Span)' <=> Keeps(keys'[k][l], Span)
<1>1. conf' = conf /\ plan' = plan
  BY Given
<1> QED BY <1>1 DEF Span, Keeps, Near, Check, Count, Base, Forced, TopK, Ratio, Index

LEMMA SelectionsStep ==
  TypeOK /\ Stages /\ SameSelection /\ Selections /\ Buffers /\ [Next]_vars => Selections'
<1> SUFFICES ASSUME TypeOK, Stages, SameSelection, Selections, Buffers, [Next]_vars
             PROVE  Selections'
  OBVIOUS
<1> USE Frames DEF Selections, Selecting, Computing, Waiting, All
<1>1. /\ 0 \in Ranks /\ conf' = conf /\ plan' = plan
      /\ pc \in [Ranks -> Waiting \cup {"layer", "choose", "attend", "done"}]
      /\ by \in [Ranks -> {"kv_deviation", "sparse_q", None}]
      /\ \A k \in Ranks : active[k] = active[0] /\ layer[k] = layer[0]
  BY RanksAssumption, Given DEF TypeOK, SameSelection, Stages
<1>2. CASE Embed
  BY <1>1, <1>2 DEF Embed, selectionVars
<1>3. ASSUME NEW k \in Ranks, Plain(k)
      PROVE  Selections'
  <2>1. /\ \A j \in Ranks : pc'[j] = IF j = k THEN "attend" ELSE pc[j]
        /\ ~Check(layer[k]) /\ UNCHANGED <<layer, active, selectionVars>>
    BY <1>1, <1>3 DEF Plain
  <2> QED BY <1>1, <2>1 DEF selectionVars
<1>4. ASSUME NEW k \in Ranks, Score(k)
      PROVE  Selections'
  <2>1. /\ \A j \in Ranks : pc'[j] = IF j = k THEN "score" ELSE pc[j]
        /\ \A j \in Ranks : by'[j] = IF j = k THEN First ELSE by[j]
        /\ UNCHANGED <<layer, active, chosen, sent, size>>
    BY <1>1, <1>4 DEF Score, First
  <2>2. conf.strategy = "compare" => First = "kv_deviation"
    BY DEF First, Deviation
  <2> QED BY <1>1, <2>1, <2>2
<1>5. CASE ReduceScores
  BY <1>1, <1>5 DEF ReduceScores, selectionVars
<1>6. ASSUME NEW k \in Ranks, Choose(k)
      PROVE  Selections'
  <2> DEFINE A == active[k]
             n == Count(A, by[k], layer[k])
  <2>1. /\ pc[k] = "choose" /\ A \in SUBSET Span /\ layer[k] \in Layers
        /\ Check(layer[k]) /\ conf \in Configs /\ plan \in Plans /\ Keeps(A, Span)
    BY <1>6, LayerInside DEF Choose, Stages, TypeOK, Buffers
  <2>2. /\ \A j \in Ranks : pc'[j] = IF j = k THEN "cast" ELSE pc[j]
        /\ \A j \in Ranks : size'[j] = IF j = k THEN n ELSE size[j]
        /\ UNCHANGED <<layer, active, by, chosen>>
    BY <1>6 DEF Choose, TypeOK
  <2>3. CASE k = 0
    <3>1. PICK T \in SUBSET (A \ Base(A, by[k])) :
             /\ Cardinality(T) = TopK(A, by[k], layer[k])
             /\ sent' = Base(A, by[k]) \cup T
      BY <1>6, <2>3 DEF Choose
    <3>2. Base(A, by[k]) \subseteq A /\ Cardinality(sent') = n
      <4>1. /\ Base(A, by[k]) \subseteq A
            /\ \A U \in SUBSET (A \ Base(A, by[k])) :
                 Cardinality(U) = TopK(A, by[k], layer[k]) =>
                   Cardinality(Base(A, by[k]) \cup U) = Count(A, by[k], layer[k])
        <5> HIDE Frames DEF A
        <5> QED BY <2>1, CountOfSelection
      <4> QED BY <3>1, <4>1
    <3>3. plan.gaps \subseteq Base(A, by[k])
      BY <2>1 DEF Keeps, Base
    <3>4. conf.strategy = "sparse_q" => Near \subseteq Base(A, by[k])
      <4>1. conf.strategy = "sparse_q" => by[k] = "sparse_q"
        BY <2>1 DEF SameSelection, First, Deviation
      <4> QED BY <2>1, <4>1, NearIsForced
    <3>5. Keeps(sent', A)
      BY <3>1, <3>2, <3>3, <3>4 DEF Keeps
    <3> HIDE DEF n, A
    <3>6. Keeps(sent, active[0])' /\ Cardinality(sent') = Count(active[0], by[0], layer[0])'
      BY <2>2, <2>3, <3>2, <3>5 DEF n, A
    <3>7. ASSUME NEW j \in Ranks
          PROVE  /\ pc'[j] = "cast" => size'[j] = Count(active[j], by[j], layer[j])'
                 /\ \/ conf'.strategy = "compare" /\ pc'[j] \in Selecting /\ by'[j] = "sparse_q"
                    \/ /\ conf'.strategy = "sparse_q" /\ pc'[j] \in Computing
                       /\ Check(layer[j])'
                    => Keeps(chosen[j], active[j])'
      BY <1>1, <2>1, <2>2 DEF n, A
    <3> QED BY <3>6, <3>7
  <2>4. CASE k # 0
    <3>1. sent' = sent
      BY <1>6, <2>4 DEF Choose
    <3> QED BY <1>1, <2>1, <2>2, <2>4, <3>1
  <2> QED BY <2>3, <2>4
<1>7. CASE CompareNext
  BY <1>1, <1>7 DEF CompareNext
<1>8. CASE PruneBefore
  BY <1>1, <1>8 DEF PruneBefore, Deviation, selectionVars
<1>9. CASE KeepSelection
  BY <1>1, <1>9 DEF KeepSelection
<1>10. ASSUME NEW k \in Ranks, Attend(k)
       PROVE  Selections'
  BY <1>1, <1>10 DEF Attend, selectionVars
<1>11. CASE ReduceAttention
  BY <1>1, <1>11 DEF ReduceAttention, selectionVars
<1>12. CASE ReduceMlp
  BY <1>1, <1>12 DEF ReduceMlp, selectionVars
<1>13. CASE UNCHANGED vars
  BY <1>1, <1>13 DEF vars, selectionVars
<1> QED
  BY <1>2, <1>3, <1>4, <1>5, <1>6, <1>7, <1>8, <1>9, <1>10, <1>11, <1>12, <1>13
  DEF Next, Collective, Local, Finished

-----------------------------------------------------------------------------
(* Buffers                                                                 *)

LEMMA Places ==
  ASSUME TypeOK, Stages, SameSelection, [Next]_vars
  PROVE  /\ 0 \in Ranks /\ conf' = conf /\ plan' = plan /\ Deviation' = Deviation
         /\ pc \in [Ranks -> Waiting \cup {"layer", "choose", "attend", "done"}]
         /\ \A k \in Ranks : active[k] = active[0] /\ layer[k] = layer[0]
         /\ \A k \in Ranks : layer[k] \in 0..NumLayers
         /\ NumLayers \in Nat \ {0} /\ Layers = 0..(NumLayers - 1)
BY RanksAssumption, NumberAssumption, Given
DEF TypeOK, SameSelection, Stages, Deviation, Layers

\* A step within a layer leaves the rows of the others.
LEMMA OtherRows ==
  ASSUME TypeOK, Stages, SameSelection, Buffers, [Next]_vars, layer' = layer,
         \A k \in Ranks : active'[k] \subseteq active[k],
         \A k \in Ranks, l \in Layers : l # layer[k] =>
           keys'[k][l] = keys[k][l] /\ values'[k][l] = values[k][l]
  PROVE  PastRows' /\ FutureRows'
<1>1. \A k \in Ranks : layer[k] = layer[0]
  BY Places
<1>2. ASSUME NEW k \in Ranks, NEW l \in Layers, l < layer[k]
      PROVE  l # layer[k] /\ (l > 0 => l - 1 \in Layers /\ l - 1 < layer[k])
  BY <1>2, Places
<1>3. ASSUME NEW k \in Ranks, NEW l \in Layers, l < layer[k]
      PROVE  keys'[k][l] = keys[k][l] /\ values'[k][l] = values[k][l]
  BY <1>2, <1>3
<1>4. PastRows'
  BY <1>1, <1>2, <1>3, Places, Frames DEF Buffers, PastRows
<1>5. ASSUME NEW k \in Ranks, NEW l \in Layers, l > layer[k]
      PROVE  l # layer[k]
  BY <1>5, Places
<1>6. FutureRows'
  BY <1>5 DEF Buffers, FutureRows
<1> QED BY <1>4, <1>6

\* Steps that neither compute nor move on.
LEMMA BuffersFrame ==
  ASSUME TypeOK, Stages, SameSelection, Buffers, [Next]_vars,
         UNCHANGED <<layer, active, keys, values>>,
         \A k \in Ranks :
           /\ pc'[k] # "done" => pc[k] # "done"
           /\ pc'[k] \in {"embed", "layer"} => pc[k] \in {"embed", "layer"}
           /\ pc'[k] \in Selecting => pc[k] \in Selecting
           /\ pc'[k] \in Computing => pc[k] \in Computing
  PROVE  Buffers'
<1>1. PastRows' /\ FutureRows'
  BY OtherRows
<1>2. PresentRows'
  BY Places DEF Buffers, PresentRows
<1> QED BY <1>1, <1>2, Frames DEF Buffers

\* One rank computes: the others' rows stay as they are.
LEMMA PresentFrame ==
  ASSUME TypeOK, Stages, SameSelection, Buffers, [Next]_vars,
         layer' = layer, active' = active, NEW k \in Ranks, pc'[k] \in {"attend", "score"},
         \A j \in Ranks : j # k /\ pc'[j] # "done" =>
           /\ pc'[j] = pc[j] /\ keys'[j][layer[j]] = keys[j][layer[j]]
           /\ values'[j][layer[j]] = values[j][layer[j]],
         pc'[k] = "attend" =>
           keys'[k][layer[k]] = active[k] /\ values'[k][layer[k]] = active[k],
         pc'[k] = "score" =>
           /\ keys'[k][layer[k]] = IF Deviation THEN {} ELSE active[k]
           /\ values'[k][layer[k]] = {}
  PROVE  PresentRows'
<1>1. Deviation' = Deviation
  BY Places
<1> SUFFICES ASSUME NEW j \in Ranks, pc'[j] # "done"
             PROVE  /\ pc'[j] \in {"embed", "layer"} =>
                         keys'[j][layer[j]] = {} /\ values'[j][layer[j]] = {}
                    /\ pc'[j] \in Selecting =>
                         /\ keys'[j][layer[j]] = IF Deviation THEN {} ELSE active[j]
                         /\ values'[j][layer[j]] = {}
                    /\ pc'[j] \in Computing =>
                         keys'[j][layer[j]] = active[j] /\ values'[j][layer[j]] = active[j]
  BY <1>1 DEF PresentRows
<1>2. CASE j = k
  BY <1>2 DEF Selecting, Computing
<1>3. CASE j # k
  BY <1>3 DEF Buffers, PresentRows
<1> QED BY <1>2, <1>3

LEMMA BuffersStep ==
  TypeOK /\ Stages /\ SameSelection /\ Selections /\ Buffers /\ [Next]_vars => Buffers'
<1> SUFFICES ASSUME TypeOK, Stages, SameSelection, Selections, Buffers, [Next]_vars
             PROVE  Buffers'
  OBVIOUS
<1> USE DEF Selecting, Computing, All
<1>1. 0 \in Ranks /\ \A k \in Ranks : active[k] = active[0]
  BY Places
<1>2. CASE Embed
  BY <1>2, BuffersFrame DEF Embed, bufferVars
<1>3. ASSUME NEW k \in Ranks, Plain(k)
      PROVE  Buffers'
  <2>1. /\ pc[k] = "layer" /\ \A j \in Ranks : pc'[j] = IF j = k THEN "attend" ELSE pc[j]
        /\ layer' = layer /\ active' = active /\ layer[k] \in Layers
    BY <1>3, Places, LayerInside DEF Plain
  <2>2. \A j \in Ranks, l \in Layers :
          /\ keys'[j][l] = IF j = k /\ l = layer[k] THEN keys[j][l] \cup active[k]
                           ELSE keys[j][l]
          /\ values'[j][l] = IF j = k /\ l = layer[k] THEN values[j][l] \cup active[k]
                             ELSE values[j][l]
    BY <1>3, <2>1 DEF Plain, Write, TypeOK
  <2>3. ASSUME NEW j \in Ranks, NEW l \in Layers, l # layer[j]
        PROVE  keys'[j][l] = keys[j][l] /\ values'[j][l] = values[j][l]
    <3>1. ~(j = k /\ l = layer[k])
      BY <2>3
    <3> QED BY <2>2, <3>1
  <2>4. PastRows' /\ FutureRows'
    BY <2>1, <2>3, OtherRows
  <2>5. ASSUME NEW j \in Ranks, j # k, pc'[j] # "done"
        PROVE  /\ pc'[j] = pc[j] /\ keys'[j][layer[j]] = keys[j][layer[j]]
               /\ values'[j][layer[j]] = values[j][layer[j]]
    BY <2>1, <2>2, <2>5, LayerInside
  <2>6. keys'[k][layer[k]] = active[k] /\ values'[k][layer[k]] = active[k]
    <3>1. keys[k][layer[k]] = {} /\ values[k][layer[k]] = {}
      BY <2>1 DEF Buffers, PresentRows
    <3>2. /\ keys'[k][layer[k]] = keys[k][layer[k]] \cup active[k]
          /\ values'[k][layer[k]] = values[k][layer[k]] \cup active[k]
      BY <2>1, <2>2
    <3> QED BY <3>1, <3>2
  <2>7. PresentRows'
    BY <2>1, <2>5, <2>6, PresentFrame
  <2> QED BY <2>1, <2>4, <2>7, Frames DEF Buffers
<1>4. ASSUME NEW k \in Ranks, Score(k)
      PROVE  Buffers'
  <2>1. /\ pc[k] = "layer" /\ \A j \in Ranks : pc'[j] = IF j = k THEN "score" ELSE pc[j]
        /\ layer' = layer /\ active' = active /\ layer[k] \in Layers
    BY <1>4, Places, LayerInside DEF Score
  <2>2. \A j \in Ranks, l \in Layers :
          /\ keys'[j][l] = IF j = k /\ l = layer[k] /\ ~Deviation
                           THEN keys[j][l] \cup active[k] ELSE keys[j][l]
          /\ values'[j][l] = values[j][l]
    <3>1. CASE Deviation
      BY <1>4, <3>1 DEF Score, bufferVars
    <3>2. CASE ~Deviation
      <4>1. Write(k, active[k], {})
        BY <1>4, <3>2 DEF Score
      <4>2. keys \in [Ranks -> [Layers -> SUBSET Span]] /\ values \in [Ranks -> [Layers -> SUBSET Span]]
        BY DEF TypeOK
      <4>3. ASSUME NEW j \in Ranks, NEW l \in Layers
            PROVE  keys'[j][l] = IF j = k /\ l = layer[k] THEN keys[j][l] \cup active[k]
                                 ELSE keys[j][l]
        BY <2>1, <4>1, <4>2 DEF Write
      <4>4. ASSUME NEW j \in Ranks, NEW l \in Layers
            PROVE  values'[j][l] = values[j][l]
        BY <2>1, <4>1, <4>2 DEF Write
      <4> QED BY <3>2, <4>3, <4>4
    <3> QED BY <3>1, <3>2
  <2>3. ASSUME NEW j \in Ranks, NEW l \in Layers, l # layer[j]
        PROVE  keys'[j][l] = keys[j][l] /\ values'[j][l] = values[j][l]
    <3>1. ~(j = k /\ l = layer[k])
      BY <2>3
    <3> QED BY <2>2, <3>1
  <2>4. PastRows' /\ FutureRows'
    BY <2>1, <2>3, OtherRows
  <2>5. ASSUME NEW j \in Ranks, j # k, pc'[j] # "done"
        PROVE  /\ pc'[j] = pc[j] /\ keys'[j][layer[j]] = keys[j][layer[j]]
               /\ values'[j][layer[j]] = values[j][layer[j]]
    BY <2>1, <2>2, <2>5, LayerInside
  <2>6. /\ keys'[k][layer[k]] = IF Deviation THEN {} ELSE active[k]
        /\ values'[k][layer[k]] = {}
    <3>1. keys[k][layer[k]] = {} /\ values[k][layer[k]] = {}
      BY <2>1 DEF Buffers, PresentRows
    <3>2. /\ keys'[k][layer[k]] = IF Deviation THEN keys[k][layer[k]]
                                  ELSE keys[k][layer[k]] \cup active[k]
          /\ values'[k][layer[k]] = values[k][layer[k]]
      BY <2>1, <2>2
    <3> QED BY <3>1, <3>2
  <2>7. PresentRows'
    BY <2>1, <2>5, <2>6, PresentFrame
  <2> QED BY <2>1, <2>4, <2>7, Frames DEF Buffers
<1>5. CASE ReduceScores
  BY <1>5, BuffersFrame DEF ReduceScores, bufferVars
<1>6. ASSUME NEW k \in Ranks, Choose(k)
      PROVE  Buffers'
  BY <1>6, Places, BuffersFrame DEF Choose, bufferVars
<1>7. CASE CompareNext
  BY <1>7, BuffersFrame DEF CompareNext, CompareOnCopy, bufferVars
<1>8. CASE PruneBefore
  <2> DEFINE S == [k \in Ranks |->
                     IF conf.strategy = "compare" THEN chosen[k] ELSE sent]
  <2>1. /\ \A k \in Ranks : pc[k] = "cast" /\ pc'[k] = "attend" /\ layer[k] \in Layers
        /\ layer' = layer /\ Deviation
    BY <1>8, LayerInside DEF PruneBefore
  <2>2. \A k \in Ranks : Keeps(S[k], active[k])
    BY <1>1, <1>8, <2>1 DEF Selections, PruneBefore, SameSelection
  <2>3. /\ active' = S
        /\ keys' = [k \in Ranks |-> [keys[k] EXCEPT ![layer[k]] = @ \cup S[k]]]
        /\ values' = [k \in Ranks |-> [values[k] EXCEPT ![layer[k]] = @ \cup S[k]]]
    BY <1>8 DEF PruneBefore, Retained
  <2> HIDE DEF S
  <2>4. \A j \in Ranks, l \in Layers :
          /\ keys'[j][l] = IF l = layer[j] THEN keys[j][l] \cup S[j] ELSE keys[j][l]
          /\ values'[j][l] = IF l = layer[j] THEN values[j][l] \cup S[j] ELSE values[j][l]
    BY <2>3 DEF TypeOK
  <2>5. PastRows' /\ FutureRows'
    BY <2>1, <2>2, <2>3, <2>4, OtherRows DEF Keeps
  <2>6. ASSUME NEW j \in Ranks
        PROVE  keys'[j][layer[j]] = S[j] /\ values'[j][layer[j]] = S[j]
    <3>1. keys[j][layer[j]] = {} /\ values[j][layer[j]] = {}
      BY <2>1 DEF Buffers, PresentRows
    <3>2. layer[j] \in Layers
      BY <2>1
    <3>3. /\ keys'[j][layer[j]] = keys[j][layer[j]] \cup S[j]
          /\ values'[j][layer[j]] = values[j][layer[j]] \cup S[j]
      BY <2>4, <3>2
    <3> QED BY <3>1, <3>3
  <2>7. \A k \in Ranks : Keeps(active'[k], Span)
    BY <2>2, <2>3 DEF Buffers, Keeps
  <2>8. PresentRows'
    BY <2>1, <2>3, <2>6 DEF PresentRows
  <2> QED BY <2>5, <2>7, <2>8, Frames DEF Buffers
<1>9. CASE KeepSelection
  <2>1. /\ \A k \in Ranks : pc[k] = "cast" /\ pc'[k] = "attend" /\ layer[k] \in Layers
        /\ layer' = layer /\ active' = active /\ ~Deviation
    BY <1>9, LayerInside DEF KeepSelection, Deviation
  <2>2. \A j \in Ranks, l \in Layers :
          /\ keys'[j][l] = IF l = layer[j] THEN keys[j][l] \cup active[j] ELSE keys[j][l]
          /\ values'[j][l] = IF l = layer[j] THEN values[j][l] \cup active[j]
                             ELSE values[j][l]
    BY <1>9 DEF KeepSelection, TypeOK
  <2>3. PastRows' /\ FutureRows'
    BY <2>1, <2>2, OtherRows
  <2>4. ASSUME NEW j \in Ranks
        PROVE  keys'[j][layer[j]] = active[j] /\ values'[j][layer[j]] = active[j]
    <3>1. keys[j][layer[j]] = active[j] /\ values[j][layer[j]] = {}
      BY <2>1 DEF Buffers, PresentRows
    <3> QED BY <2>1, <2>2, <3>1
  <2>5. PresentRows'
    BY <2>1, <2>4 DEF PresentRows
  <2> QED BY <2>1, <2>3, <2>5, Frames DEF Buffers
<1>10. ASSUME NEW k \in Ranks, Attend(k)
       PROVE  Buffers'
  BY <1>10, Places, BuffersFrame DEF Attend, bufferVars
<1>11. CASE ReduceAttention
  BY <1>11, BuffersFrame DEF ReduceAttention, bufferVars
<1>12. CASE ReduceMlp
  <2>1. ASSUME NEW k \in Ranks
        PROVE  /\ pc[k] = "mlp" /\ layer[k] = layer[0] /\ layer[0] \in Layers
               /\ layer'[k] = layer[0] + 1 /\ pc'[k] \in {"layer", "done"}
               /\ pc'[k] # "done" => layer[0] + 1 \in Layers
    BY <1>1, <1>12, Places, LayerInside DEF ReduceMlp
  <2>2. keys' = keys /\ values' = values
    BY <1>12 DEF ReduceMlp, bufferVars
  <2>3. ASSUME NEW k \in Ranks
        PROVE  active'[k] \subseteq active[k] /\ Keeps(active'[k], Span)
    <3>1. CASE Check(layer[0]) /\ conf.strategy = "sparse_q"
      <4>1. active'[k] = chosen[k]
        BY <1>12, <3>1 DEF ReduceMlp, Retained
      <4>2. Keeps(chosen[k], active[k])
        BY <2>1, <3>1 DEF Selections
      <4> QED BY <4>1, <4>2 DEF Keeps, Buffers
    <3>2. CASE ~(Check(layer[0]) /\ conf.strategy = "sparse_q")
      BY <1>12, <3>2 DEF ReduceMlp, Buffers
    <3> QED BY <3>1, <3>2
  <2>4. ASSUME NEW k \in Ranks
        PROVE  keys[k][layer[0]] = active[k] /\ values[k][layer[0]] = active[k]
    BY <2>1 DEF Buffers, PresentRows
  <2>5. ASSUME NEW k \in Ranks, NEW l \in Layers, l < layer'[k]
        PROVE  /\ Keeps(keys[k][l], Span) /\ active'[k] \subseteq keys[k][l]
               /\ values[k][l] = keys[k][l] /\ keys[k][l] = keys[0][l]
               /\ l > 0 => keys[k][l] \subseteq keys[k][l - 1]
    <3>1. CASE l = layer[0]
      <4>1. /\ keys[k][l] = active[k] /\ values[k][l] = active[k]
            /\ keys[0][l] = active[k] /\ Keeps(active[k], Span)
        BY <1>1, <2>4, <3>1 DEF Buffers
      <4>2. l > 0 => active[k] \subseteq keys[k][l - 1]
        <5>1. l > 0 => l - 1 \in Layers /\ l - 1 < layer[k]
          BY <2>1, <3>1, Places
        <5> QED BY <5>1 DEF Buffers, PastRows
      <4> QED BY <2>3, <4>1, <4>2
    <3>2. CASE l # layer[0]
      <4>1. l < layer[k]
        BY <2>1, <2>5, <3>2, Places
      <4> QED BY <2>3, <4>1 DEF Buffers, PastRows
    <3> QED BY <3>1, <3>2
  <2>6. PastRows'
    BY <2>2, <2>5, Frames DEF PastRows
  <2>7. ASSUME NEW k \in Ranks, NEW l \in Layers, l >= layer'[k]
        PROVE  keys[k][l] = {} /\ values[k][l] = {}
    <3>1. l > layer[k]
      BY <2>1, <2>7, Places
    <3> QED BY <3>1 DEF Buffers, FutureRows
  <2>8. FutureRows'
    BY <2>1, <2>2, <2>7, Places DEF FutureRows
  <2>9. ASSUME NEW k \in Ranks, pc'[k] # "done"
        PROVE  keys[k][layer'[k]] = {} /\ values[k][layer'[k]] = {}
    <3>1. layer'[k] \in Layers /\ layer'[k] >= layer'[k]
      BY <2>1, <2>9, Places
    <3> QED BY <2>7, <3>1
  <2>10. PresentRows'
    BY <2>1, <2>2, <2>9 DEF PresentRows
  <2> QED BY <2>3, <2>6, <2>8, <2>10, Frames DEF Buffers
<1>13. CASE UNCHANGED vars
  BY <1>13, BuffersFrame DEF vars, bufferVars
<1> QED
  BY <1>2, <1>3, <1>4, <1>5, <1>6, <1>7, <1>8, <1>9, <1>10, <1>11, <1>12, <1>13
  DEF Next, Collective, Local, Finished

-----------------------------------------------------------------------------
(* The invariant and what follows from it                                  *)

\* A mask lives only as long as the active tokens it was made for.
LEMMA MaskStep ==
  TypeOK /\ Stages /\ SameSelection /\ MaskCurrent /\ [Next]_vars => MaskCurrent'
<1> SUFFICES ASSUME TypeOK, Stages, SameSelection, MaskCurrent, [Next]_vars
             PROVE  MaskCurrent'
  OBVIOUS
<1> USE DEF MaskCurrent
<1>1. CASE UNCHANGED <<active, mask>>
  BY <1>1
<1>2. CASE mask' = MaskReset
  BY <1>2 DEF MaskReset
<1>3. ASSUME NEW k \in Ranks, Attend(k)
      PROVE  MaskCurrent'
  <2>1. active' = active /\ (mask' = mask \/ mask' = [mask EXCEPT ![k] = active[k]])
    BY <1>3 DEF Attend
  <2>2. ASSUME NEW j \in Ranks
        PROVE  mask'[j] = mask[j] \/ mask'[j] = active[j]
    BY <2>1 DEF TypeOK
  <2> QED BY <2>1, <2>2
<1> QED
  BY <1>1, <1>2, <1>3
  DEF Next, Collective, Local, Finished, vars, Embed, Plain, Score, ReduceScores, Choose,
      CompareNext, PruneBefore, KeepSelection, ReduceAttention, ReduceMlp

LEMMA InitInv == Init => IInv
<1> SUFFICES ASSUME Init
             PROVE  IInv
  OBVIOUS
<1> USE DEF Init
<1>1. /\ 0 \in Ranks /\ NumLayers \in Nat \ {0} /\ 0 \in Layers
      /\ Loadable(plan) /\ Cardinality(Span) \in Nat
  BY RanksAssumption, NumberAssumption, SpanFinite DEF Layers
<1>2. TypeOK
  <2>1. mask \in [Ranks -> (SUBSET Span) \cup {None}]
    OBVIOUS
  <2>2. /\ keys \in [Ranks -> [Layers -> SUBSET Span]]
        /\ values \in [Ranks -> [Layers -> SUBSET Span]]
    OBVIOUS
  <2> QED BY <1>1, <2>1, <2>2 DEF TypeOK, Waiting
<1>3. Stages
  BY <1>1 DEF Stages, Selecting
<1>4. SameSelection
  BY DEF SameSelection, Selecting
<1>5. Selections
  BY <1>1 DEF Selections, Selecting, Computing
<1>6. Buffers
  <2>1. Keeps(Span, Span)
    BY <1>1 DEF Keeps, Near, Loadable, Span
  <2>2. \A k \in Ranks, l \in Layers : keys[k][l] = {} /\ values[k][l] = {}
    OBVIOUS
  <2>3. \A k \in Ranks, l \in Layers : ~(l < layer[k])
    BY DEF Layers
  <2> QED
    BY <1>1, <2>1, <2>2, <2>3
    DEF Buffers, PastRows, PresentRows, FutureRows, Selecting, Computing
<1>7. MaskCurrent
  BY DEF MaskCurrent
<1> QED BY <1>2, <1>3, <1>4, <1>5, <1>6, <1>7 DEF IInv

LEMMA StepInv == IInv /\ [Next]_vars => IInv'
BY TypeStep, StagesStep, SameSelectionStep, SelectionsStep, BuffersStep, MaskStep DEF IInv

\* The inductive invariant of the side forward.
THEOREM InvariantHolds == Spec => []IInv
<1>1. Spec => Init /\ [][Next]_vars
  BY DEF Spec
<1> QED BY <1>1, InitInv, StepInv, PTL

\* The side executor keeps its types on any number of ranks and layers.
THEOREM TypeIsOK == Spec => []TypeOK
<1>1. IInv => TypeOK
  BY DEF IInv
<1> QED BY <1>1, InvariantHolds, PTL

LEMMA CommittedRows ==
  ASSUME IInv, NEW k \in Ranks, NEW l \in Committed(k)
  PROVE  /\ l \in Layers /\ Keeps(keys[k][l], Span)
         /\ values[k][l] = keys[k][l] /\ keys[k][l] = keys[0][l]
         /\ l > 0 => keys[k][l] \subseteq keys[k][l - 1]
BY DEF IInv, Buffers, PastRows, Committed

\* Every gap is computed, key and value, in every layer on every rank, whatever the
\* scores are and however many check layers prune (ascend.py:456-460, 757-796).
THEOREM GapsAreRecomputed == Spec => []GapsRecomputed
<1>1. IInv => GapsRecomputed
  BY CommittedRows DEF GapsRecomputed, Keeps
<1> QED BY <1>1, InvariantHolds, PTL

\* Sparse-Q computes all that is near a gap, or the tail, in every layer, although it
\* lays its window over the active tokens (ascend.py:651-676, 695-709).
THEOREM ForcedAreRecomputed == Spec => []ForcedRecomputed
<1>1. IInv => ForcedRecomputed
  BY CommittedRows DEF ForcedRecomputed, Keeps, Near
<1> QED BY <1>1, InvariantHolds, PTL

\* A layer computes the same tokens on all ranks, keys and values, and only tokens
\* of the layer before (ascend.py:571-580, 612-618).
THEOREM TokensAreSame == Spec => []SameTokens
<1>1. IInv => SameTokens
  BY CommittedRows DEF SameTokens
<1> QED BY <1>1, InvariantHolds, PTL

\* Ranks that wait in a collective wait in the same one, and a broadcast has the
\* size that the others made room for (ascend.py:770-796).
THEOREM RanksAgree == Spec => []CollectivesAgree
<1>1. ASSUME IInv
      PROVE  CollectivesAgree
  <2>1. 0 \in Ranks
    BY RanksAssumption
  <2>2. ASSUME NEW j \in Ranks, NEW k \in Ranks, {pc[j], pc[k]} \subseteq Waiting
        PROVE  pc[j] = pc[k] /\ layer[j] = layer[k] /\ active[j] = active[k]
    <3>1. pc[j] \in Waiting /\ pc[k] \in Waiting
      BY <2>2
    <3>2. pc[j] = pc[k]
      BY <1>1, <3>1 DEF IInv, Stages, Waiting
    <3> QED BY <1>1, <3>2 DEF IInv, Stages, SameSelection
  <2>3. ASSUME NEW j \in Ranks, NEW k \in Ranks, {pc[j], pc[k]} \subseteq Waiting
        PROVE  by[j] = by[k]
    BY <1>1, <2>2, <2>3 DEF IInv, SameSelection, Selecting, Waiting
  <2>4. ASSUME NEW k \in Ranks, {pc[0], pc[k]} = {"cast"}
        PROVE  size[k] = Cardinality(sent)
    <3>1. pc[0] = "cast" /\ pc[k] = "cast"
      BY <2>4
    <3>2. active[k] = active[0] /\ layer[k] = layer[0] /\ by[k] = by[0]
      BY <1>1, <2>1, <3>1 DEF IInv, Stages, SameSelection, Selecting
    <3>3. size[k] = Count(active[k], by[k], layer[k])
      BY <1>1, <3>1 DEF IInv, Selections
    <3>4. Cardinality(sent) = Count(active[0], by[0], layer[0])
      BY <1>1, <3>1 DEF IInv, Selections
    <3> QED BY <3>2, <3>3, <3>4
  <2> QED BY <2>2, <2>3, <2>4 DEF CollectivesAgree
<1> QED BY <1>1, InvariantHolds, PTL

\* A cached attention mask has the rows of the tokens that are computed now
\* (ascend.py:580, 618, 807-812).
THEOREM MaskIsCurrent == Spec => []MaskCurrent
<1>1. IInv => MaskCurrent
  BY DEF IInv
<1> QED BY <1>1, InvariantHolds, PTL

=============================================================================
