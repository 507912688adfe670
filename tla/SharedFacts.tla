------------------------------ MODULE SharedFacts ----------------------------
(***************************************************************************)
(* Facts about finite sets, numbers and sequences that the proofs share.   *)
(***************************************************************************)
EXTENDS Integers, SequencesExt, FiniteSetTheorems, SequenceTheorems,
        WellFoundedInduction, TLAPS

\* A nonempty set of natural numbers has a least one: the strict subset ordering
\* is well-founded, and an initial segment stands for its end.
LEMMA LeastElement ==
  ASSUME NEW T, T \subseteq Nat, T # {}
  PROVE  \E m \in T : \A j \in T : m <= j
<1> DEFINE F == {0..n : n \in T}
           R == StrictSubsetOrdering(Nat)
<1>1. \A n \in Nat : 0..n \in FiniteSubsetsOf(Nat)
  BY FS_Interval DEF FiniteSubsetsOf
<1>2. F \subseteq FiniteSubsetsOf(Nat) /\ F # {}
  BY <1>1
<1>3. IsWellFoundedOn(R, FiniteSubsetsOf(Nat))
  BY FS_StrictSubsetOrderingWellFounded
<1> HIDE DEF F, R
<1>4. PICK x \in F : \A y \in F : ~(<<y, x>> \in R)
  BY <1>2, <1>3, WFMin
<1>5. PICK m \in T : x = 0..m
  BY <1>4 DEF F
<1>6. ASSUME NEW j \in T, j < m
      PROVE  FALSE
  <2>1. 0..j \in F
    BY DEF F
  <2>2. j \in Nat /\ m \in Nat
    OBVIOUS
  <2>3. 0..j \subseteq 0..m /\ m \in 0..m /\ m \notin 0..j
    BY <1>6, <2>2
  <2>4. <<0..j, x>> \in R
    BY <2>2, <2>3, <1>5 DEF R, StrictSubsetOrdering
  <2> QED BY <1>4, <2>1, <2>4
<1> QED BY <1>6

LEMMA DisjointUnion ==
  ASSUME NEW A, NEW B, IsFiniteSet(A), IsFiniteSet(B), A \cap B = {}
  PROVE  /\ IsFiniteSet(A \cup B)
         /\ Cardinality(A \cup B) = Cardinality(A) + Cardinality(B)
         /\ Cardinality(A) \in Nat /\ Cardinality(B) \in Nat
<1>1. Cardinality(A) \in Nat /\ Cardinality(B) \in Nat
  BY FS_CardinalityType
<1>2. Cardinality(A \cap B) = 0
  BY FS_EmptySet
<1>3. /\ IsFiniteSet(A \cup B)
      /\ Cardinality(A \cup B)
           = Cardinality(A) + Cardinality(B) - Cardinality(A \cap B)
  BY FS_Union
<1> QED BY <1>1, <1>2, <1>3

\* What RemoveAt leaves: the sequence closed up over one place.
LEMMA RemoveAtShifts ==
  ASSUME NEW S, NEW q \in Seq(S), NEW p \in 1..Len(q)
  PROVE  /\ RemoveAt(q, p) \in Seq(S) /\ Len(RemoveAt(q, p)) = Len(q) - 1
         /\ \A i \in 1..(Len(q) - 1) :
              RemoveAt(q, p)[i] = IF i < p THEN q[i] ELSE q[i + 1]
<1> DEFINE n == Len(q)
           L == SubSeq(q, 1, p - 1)
           R == SubSeq(q, p + 1, n)
<1>1. n \in Nat /\ p \in 1..n /\ p \in Nat
  OBVIOUS
<1>2. /\ L \in Seq(S) /\ Len(L) = p - 1
      /\ \A i \in 1..(p - 1) : L[i] = q[i]
  BY <1>1, SubSeqProperties
<1>3. /\ R \in Seq(S) /\ Len(R) = n - p
      /\ \A i \in 1..(n - p) : R[i] = q[p + i]
  BY <1>1, SubSeqProperties
<1>4. RemoveAt(q, p) = L \o R
  BY DEF RemoveAt
<1> HIDE DEF L, R, n
<1>5. /\ L \o R \in Seq(S) /\ Len(L \o R) = Len(L) + Len(R)
      /\ \A i \in 1..(Len(L) + Len(R)) :
           (L \o R)[i] = IF i <= Len(L) THEN L[i] ELSE R[i - Len(L)]
  BY <1>2, <1>3, ConcatProperties
<1>6. Len(L) + Len(R) = n - 1
  BY <1>1, <1>2, <1>3
<1>7. ASSUME NEW i \in 1..(n - 1)
      PROVE  (L \o R)[i] = IF i < p THEN q[i] ELSE q[i + 1]
  <2>1. CASE i < p
    BY <1>1, <1>2, <1>5, <1>6, <2>1
  <2>2. CASE ~(i < p)
    <3>1. i - (p - 1) \in 1..(n - p) /\ ~(i <= p - 1)
      BY <1>1, <2>2
    <3>2. (L \o R)[i] = R[i - (p - 1)]
      BY <1>1, <1>2, <1>5, <1>6, <3>1
    <3>3. R[i - (p - 1)] = q[p + (i - (p - 1))] /\ p + (i - (p - 1)) = i + 1
      BY <1>1, <1>3, <3>1
    <3> QED BY <2>2, <3>2, <3>3
  <2> QED BY <2>1, <2>2
<1> QED BY <1>4, <1>5, <1>6, <1>7 DEF n


\* A finite nonempty set of natural numbers has a greatest one: the one with the
\* fewest above it.
LEMMA GreatestElement ==
  ASSUME NEW T, T \subseteq Nat, T # {}, IsFiniteSet(T)
  PROVE  \E m \in T : \A j \in T : j <= m
<1> DEFINE Above(n) == {x \in T : n < x}
           F == {Above(n) : n \in T}
           R == StrictSubsetOrdering(Nat)
<1>1. \A n \in T : Above(n) \in FiniteSubsetsOf(Nat)
  <2>1. ASSUME NEW n \in T
        PROVE  IsFiniteSet(Above(n)) /\ Above(n) \subseteq Nat
    <3>1. Above(n) \subseteq T
      OBVIOUS
    <3> HIDE DEF Above
    <3> QED BY <3>1, FS_Subset
  <2> HIDE DEF Above
  <2> QED BY <2>1 DEF FiniteSubsetsOf
<1>2. F \subseteq FiniteSubsetsOf(Nat) /\ F # {}
  <2> HIDE DEF Above
  <2> QED BY <1>1
<1>3. IsWellFoundedOn(R, FiniteSubsetsOf(Nat))
  BY FS_StrictSubsetOrderingWellFounded
<1> HIDE DEF F, R
<1>4. PICK x \in F : \A y \in F : ~(<<y, x>> \in R)
  BY <1>2, <1>3, WFMin
<1>5. PICK m \in T : x = Above(m)
  BY <1>4 DEF F
<1>6. ASSUME NEW j \in T, m < j
      PROVE  FALSE
  <2>1. Above(j) \in F
    BY DEF F
  <2>2. j \in Nat /\ m \in Nat
    OBVIOUS
  <2>3. Above(j) \subseteq Above(m)
    <3>1. \A k \in T : j < k => m < k
      BY <1>6, <2>2
    <3> QED BY <3>1
  <2>4. j \in Above(m) /\ j \notin Above(j) /\ Above(m) \subseteq Nat
    <3>1. ~(j < j)
      BY <2>2
    <3> QED BY <1>6, <3>1
  <2> HIDE DEF Above
  <2>5. <<Above(j), x>> \in R
    BY <2>3, <2>4, <1>5 DEF R, StrictSubsetOrdering
  <2> QED BY <1>4, <2>1, <2>5
<1>7. \A j \in T : j <= m
  BY <1>6
<1> QED BY <1>7

=============================================================================
