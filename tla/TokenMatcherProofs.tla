------------------------- MODULE TokenMatcherProofs -------------------------
(***************************************************************************)
(* Proofs about TokenMatcher, for any records, prompts, chunk size, base   *)
(* and modulus: nothing is assumed of the hash, which may be constant.     *)
(*                                                                         *)
(* IndexesAgree is inductive once buckets are known to be sequences of     *)
(* records.  MatchGreedy and PlanAccepted follow from it in every state.   *)
(* The hash of a window computed from weights is the hash computed token   *)
(* by token, because after each token the two differ by a multiple of the  *)
(* modulus once the second is moved by the weight of that token.  So a     *)
(* window is looked up under the key its copies are stored under, and the  *)
(* visits of the windows keep Greedy, which says of the first e tokens     *)
(* what MatchGreedy says of all.                                           *)
(*                                                                         *)
(* The model's loops are recursive functions over numbers.  That such a    *)
(* function exists is RecursionHasSolution; what it computes is shown for  *)
(* one number from the number before it (UpTo).                            *)
(***************************************************************************)
EXTENDS TokenMatcher, SharedFacts

MInv == buckets \in [Keys -> Seq(Records)] /\ IndexesAgree

-----------------------------------------------------------------------------
(* Recursion and induction over numbers                                    *)

\* What holds at zero and is passed on from each number to the next holds up to N.
LEMMA UpTo ==
  ASSUME NEW N \in Nat, NEW T, 0 \in T, \A k \in 1..N : k - 1 \in T => k \in T
  PROVE  0..N \subseteq T
<1> DEFINE Bad == {k \in 0..N : k \notin T}
<1> SUFFICES ASSUME Bad # {}
             PROVE  FALSE
  OBVIOUS
<1>1. PICK k \in Bad : \A j \in Bad : k <= j
  <2>1. Bad \subseteq Nat
    OBVIOUS
  <2> QED BY <2>1, LeastElement
<1>2. k \in 1..N /\ k - 1 \in 0..N /\ ~(k <= k - 1)
  BY <1>1
<1>3. k - 1 \in T
  BY <1>1, <1>2
<1> QED BY <1>1, <1>2, <1>3

\* A recursive function on 0..N exists whose value at each number is a given function
\* of the number and of the value before it.
LEMMA RecursionHasSolution ==
  ASSUME NEW V, NEW a \in V, NEW N \in Nat, NEW F \in [1..N -> [V -> V]]
  PROVE  \E f \in [0..N -> V] : f[0] = a /\ \A k \in 1..N : f[k] = F[k][f[k - 1]]
<1> DEFINE Solves(f, n) == /\ f \in [0..n -> V] /\ f[0] = a
                           /\ \A k \in 1..n : f[k] = F[k][f[k - 1]]
           T == {n \in 0..N : \E f : Solves(f, n)}
<1>1. 0 \in T
  <2> DEFINE f == [m \in 0..0 |-> a]
  <2>1. f \in [0..0 -> V] /\ f[0] = a /\ 1..0 = {} /\ 0 \in 0..N
    OBVIOUS
  <2> QED BY <2>1
<1>2. ASSUME NEW n \in 1..N, n - 1 \in T
      PROVE  n \in T
  <2>1. PICK g : Solves(g, n - 1)
    BY <1>2
  <2>2. /\ n \in Nat /\ n \in 0..n /\ 0 \in 0..(n - 1) /\ n - 1 \in 0..(n - 1) /\ n # 0
        /\ 0..n = 0..(n - 1) \cup {n} /\ n \notin 0..(n - 1) /\ n \in 0..N
        /\ \A k \in 1..n : k \in 1..(n - 1) \/ k = n
        /\ \A k \in 1..(n - 1) : k \in 0..(n - 1) /\ k - 1 \in 0..(n - 1) /\ k # n
    OBVIOUS
  <2> DEFINE last == F[n][g[n - 1]]
             f    == [m \in 0..n |-> IF m = n THEN last ELSE g[m]]
  <2>3. last \in V
    BY <2>1, <2>2
  <2> HIDE DEF last
  <2>4. f \in [0..n -> V] /\ f[n] = last /\ \A m \in 0..(n - 1) : f[m] = g[m]
    BY <2>1, <2>2, <2>3
  <2> HIDE DEF f
  <2>5. f[0] = a
    BY <2>1, <2>2, <2>4
  <2>6. ASSUME NEW k \in 1..n
        PROVE  f[k] = F[k][f[k - 1]]
    <3>1. CASE k = n
      BY <2>2, <2>4, <3>1 DEF last
    <3>2. CASE k \in 1..(n - 1)
      BY <2>1, <2>2, <2>4, <3>2
    <3> QED BY <2>2, <3>1, <3>2
  <2>7. Solves(f, n)
    BY <2>4, <2>5, <2>6
  <2> QED BY <2>2, <2>7
<1> HIDE DEF T
<1>3. 0..N \subseteq T
  BY <1>1, <1>2, UpTo
<1>4. N \in T
  BY <1>3
<1> QED BY <1>4 DEF T

-----------------------------------------------------------------------------
(* A bucket without an identity                                            *)

\* One step of the recursion in Without.
Kept(f, bucket, id, n) ==
  IF n = 0 THEN <<>>
  ELSE IF Id(bucket[n]) = id THEN f[n - 1]
  ELSE Append(f[n - 1], bucket[n])

\* Append keeps what is there and adds one place.
LEMMA Appended ==
  ASSUME NEW S, NEW s \in Seq(S), NEW r \in S
  PROVE  /\ Append(s, r) \in Seq(S) /\ DOMAIN Append(s, r) = DOMAIN s \cup {Len(s) + 1}
         /\ \A i \in DOMAIN s : Append(s, r)[i] = s[i] /\ i # Len(s) + 1
         /\ Append(s, r)[Len(s) + 1] = r
<1>1. /\ Append(s, r) \in Seq(S) /\ Len(Append(s, r)) = Len(s) + 1 /\ Len(s) \in Nat
      /\ DOMAIN s = 1..Len(s) /\ Append(s, r)[Len(s) + 1] = r
      /\ \A i \in 1..Len(s) : Append(s, r)[i] = s[i]
  OBVIOUS
<1>2. DOMAIN Append(s, r) = 1..Len(Append(s, r))
  BY <1>1
<1> QED BY <1>1, <1>2

\* The recursion in Without has a solution.
LEMMA KeptExists ==
  ASSUME NEW bucket \in Seq(Records), NEW id
  PROVE  \E f \in [0..Len(bucket) -> Seq(Records)] :
           \A m \in 0..Len(bucket) : f[m] = Kept(f, bucket, id, m)
<1> DEFINE V == Seq(Records)
           N == Len(bucket)
           none == <<>>
           Next1(v, k) == IF Id(bucket[k]) = id THEN v ELSE Append(v, bucket[k])
           F == [k \in 1..N |-> [v \in V |-> Next1(v, k)]]
<1>1. N \in Nat /\ none \in V
  OBVIOUS
<1>2. F \in [1..N -> [V -> V]]
  <2>1. ASSUME NEW k \in 1..N, NEW v \in V
        PROVE  Next1(v, k) \in V
    <3>1. bucket[k] \in Records
      OBVIOUS
    <3>2. Append(v, bucket[k]) \in V
      BY <3>1, Appended
    <3> QED BY <3>2
  <2> HIDE DEF Next1, V
  <2> QED BY <2>1
<1>3. PICK f \in [0..N -> V] : f[0] = none /\ \A k \in 1..N : f[k] = F[k][f[k - 1]]
  <2> HIDE DEF F, V, N, none
  <2> QED BY <1>1, <1>2, RecursionHasSolution
<1>4. ASSUME NEW m \in 0..N
      PROVE  f[m] = Kept(f, bucket, id, m)
  <2>1. CASE m = 0
    BY <1>3, <2>1 DEF Kept
  <2>2. CASE m # 0
    <3>1. m \in 1..N /\ m - 1 \in 0..N
      BY <1>1, <2>2
    <3>2. f[m - 1] \in V
      BY <1>3, <3>1
    <3>3. f[m] = Next1(f[m - 1], m)
      <4> HIDE DEF V, Next1, N
      <4> QED BY <1>3, <3>1, <3>2
    <3> QED BY <2>2, <3>3 DEF Kept
  <2> QED BY <2>1, <2>2
<1> QED BY <1>3, <1>4

\* Without drops the records of an identity and no others.
LEMMA WithoutFacts ==
  ASSUME NEW bucket \in Seq(Records), NEW id
  PROVE  /\ Without(bucket, id) \in Seq(Records)
         /\ ToSet(Without(bucket, id)) = {r \in ToSet(bucket) : Id(r) # id}
         /\ IsInjective(bucket) => IsInjective(Without(bucket, id))
<1> DEFINE N == Len(bucket)
           kept == CHOOSE f : f = [n \in 0..N |-> IF n = 0 THEN <<>>
                                                  ELSE IF Id(bucket[n]) = id THEN f[n - 1]
                                                  ELSE Append(f[n - 1], bucket[n])]
<1>1. N \in Nat /\ N \in 0..N /\ \A i \in 1..N : bucket[i] \in Records
  OBVIOUS
<1>2. PICK g \in [0..N -> Seq(Records)] : \A m \in 0..N : g[m] = Kept(g, bucket, id, m)
  BY KeptExists
<1>3. g = [n \in 0..N |-> IF n = 0 THEN <<>>
                          ELSE IF Id(bucket[n]) = id THEN g[n - 1]
                          ELSE Append(g[n - 1], bucket[n])]
  BY <1>2 DEF Kept
<1>4. kept = [n \in 0..N |-> IF n = 0 THEN <<>>
                             ELSE IF Id(bucket[n]) = id THEN kept[n - 1]
                             ELSE Append(kept[n - 1], bucket[n])]
  BY <1>3
<1>5. Without(bucket, id) = kept[N]
  BY DEF Without
<1> HIDE DEF kept
<1>6. \A n \in 0..N : kept[n] = Kept(kept, bucket, id, n)
  BY <1>4 DEF Kept
<1> DEFINE Right(n) == /\ kept[n] \in Seq(Records)
                       /\ ToSet(kept[n]) = {bucket[i] : i \in {j \in 1..n : Id(bucket[j]) # id}}
                       /\ IsInjective(bucket) => IsInjective(kept[n])
           T == {n \in 0..N : ~Right(n)}
<1>7. T = {}
  <2> SUFFICES ASSUME T # {}
               PROVE  FALSE
    OBVIOUS
  <2>1. PICK n \in T : \A j \in T : n <= j
    <3>1. T \subseteq Nat
      BY <1>1
    <3> QED BY <3>1, LeastElement
  <2>2. CASE n = 0
    <3>1. kept[0] = <<>> /\ 1..0 = {}
      BY <1>1, <1>6 DEF Kept
    <3>2. <<>> \in Seq(Records) /\ DOMAIN <<>> = {}
      OBVIOUS
    <3>3. Right(0)
      BY <3>1, <3>2 DEF ToSet, IsInjective
    <3> QED BY <2>1, <2>2, <3>3
  <2>3. CASE n # 0
    <3>1. n \in 1..N /\ n \in Nat /\ n - 1 \in 0..N /\ ~(n <= n - 1)
      BY <1>1, <2>1, <2>3
    <3>2. n - 1 \notin T
      BY <2>1, <3>1
    <3> DEFINE old == kept[n - 1]
               new == kept[n]
    <3>3. Right(n - 1)
      BY <3>1, <3>2
    <3>4. 1..n = (1..(n - 1)) \cup {n}
      BY <3>1
    <3>5. CASE Id(bucket[n]) = id
      <4>1. kept[n] = kept[n - 1]
        BY <1>6, <2>1, <2>3, <3>5 DEF Kept
      <4>2. {j \in 1..n : Id(bucket[j]) # id} = {j \in 1..(n - 1) : Id(bucket[j]) # id}
        BY <3>4, <3>5
      <4> QED BY <2>1, <3>3, <4>1, <4>2
    <3>6. CASE Id(bucket[n]) # id
      <4>1. new = Append(old, bucket[n])
        BY <1>6, <2>1, <2>3, <3>6 DEF Kept
      <4>2. bucket[n] \in Records /\ old \in Seq(Records) /\ Len(old) \in Nat
        BY <1>1, <3>1, <3>3
      <4>3. /\ new \in Seq(Records) /\ DOMAIN new = DOMAIN old \cup {Len(old) + 1}
            /\ \A i \in DOMAIN old : new[i] = old[i] /\ i # Len(old) + 1
            /\ new[Len(old) + 1] = bucket[n]
        <5> HIDE DEF old, new
        <5> QED BY <4>1, <4>2, Appended
      <4>4. ToSet(new) = ToSet(old) \cup {bucket[n]}
        BY <4>3 DEF ToSet
      <4>5. {j \in 1..n : Id(bucket[j]) # id} = {j \in 1..(n - 1) : Id(bucket[j]) # id} \cup {n}
        BY <3>4, <3>6
      <4>6. ToSet(new) = {bucket[i] : i \in {j \in 1..n : Id(bucket[j]) # id}}
        BY <3>3, <4>4, <4>5
      <4>7. ASSUME IsInjective(bucket)
            PROVE  IsInjective(new)
        <5>1. bucket[n] \notin ToSet(old)
          <6> SUFFICES ASSUME NEW i \in 1..(n - 1), bucket[i] = bucket[n]
                       PROVE  FALSE
            BY <3>3
          <6>1. i \in DOMAIN bucket /\ n \in DOMAIN bucket /\ i # n
            BY <1>1, <3>1
          <6> QED BY <4>7, <6>1 DEF IsInjective
        <5>2. IsInjective(old)
          BY <3>3, <4>7
        <5> HIDE DEF old, new
        <5>3. ASSUME NEW a \in DOMAIN new, NEW b \in DOMAIN new, new[a] = new[b]
              PROVE  a = b
          BY <4>3, <5>1, <5>2, <5>3 DEF IsInjective, ToSet
        <5> QED BY <5>3 DEF IsInjective
      <4> QED BY <2>1, <4>3, <4>6, <4>7
    <3> QED BY <3>5, <3>6
  <2> QED BY <2>2, <2>3
<1>8. Right(N)
  BY <1>1, <1>7
<1>9. ToSet(bucket) = {bucket[i] : i \in 1..N}
  BY DEF ToSet
<1>10. {bucket[i] : i \in {j \in 1..N : Id(bucket[j]) # id}} = {r \in ToSet(bucket) : Id(r) # id}
  BY <1>9
<1> QED BY <1>5, <1>8, <1>10

-----------------------------------------------------------------------------
(* The indexes                                                             *)

\* Records of one identity have one key.
LEMMA Identities ==
  ASSUME NEW x \in Records, NEW y \in Records
  PROVE  Key(x) \in Keys /\ (Id(x) = Id(y) => Key(x) = Key(y))
BY DEF Id, Key, Keys

\* A record goes to the end of its bucket.
LEMMA AppendFacts ==
  ASSUME NEW s \in Seq(Records), NEW r \in Records, r \notin ToSet(s)
  PROVE  /\ Append(s, r) \in Seq(Records) /\ ToSet(Append(s, r)) = ToSet(s) \cup {r}
         /\ IsInjective(s) => IsInjective(Append(s, r))
<1>1. /\ Append(s, r) \in Seq(Records) /\ DOMAIN Append(s, r) = DOMAIN s \cup {Len(s) + 1}
      /\ \A i \in DOMAIN s : Append(s, r)[i] = s[i] /\ i # Len(s) + 1
      /\ Append(s, r)[Len(s) + 1] = r
  BY Appended
<1>2. ToSet(Append(s, r)) = ToSet(s) \cup {r}
  BY <1>1 DEF ToSet
<1>3. ASSUME IsInjective(s), NEW a \in DOMAIN Append(s, r), NEW b \in DOMAIN Append(s, r),
             Append(s, r)[a] = Append(s, r)[b]
      PROVE  a = b
  BY <1>1, <1>3 DEF IsInjective, ToSet
<1> QED BY <1>1, <1>2, <1>3 DEF IsInjective

\* Registering, with or without replacing, keeps the invariant.
LEMMA RegisterKeeps ==
  ASSUME MInv, NEW r \in Records, Register(r)
  PROVE  MInv'
<1> DEFINE rest == Without(buckets[Key(r)], Id(r))
<1>1. /\ byId' = {x \in byId : Id(x) # Id(r)} \cup {r}
      /\ buckets' = [buckets EXCEPT ![Key(r)] = Append(rest, r)]
      /\ hashes' = hashes \cup {Key(r)}
  BY DEF Register
<1>2. /\ byId \subseteq Records /\ \A x, y \in byId : Id(x) = Id(y) => x = y
      /\ buckets \in [Keys -> Seq(Records)]
      /\ \A k \in Keys : /\ ToSet(buckets[k]) = {x \in byId : Key(x) = k}
                         /\ IsInjective(buckets[k])
      /\ hashes = {Key(x) : x \in byId}
  BY DEF MInv, IndexesAgree
<1>3. Key(r) \in Keys /\ \A x \in byId : Id(x) = Id(r) => Key(x) = Key(r)
  BY <1>2, Identities
<1>4. /\ rest \in Seq(Records) /\ IsInjective(rest)
      /\ ToSet(rest) = {x \in ToSet(buckets[Key(r)]) : Id(x) # Id(r)}
  BY <1>2, <1>3, WithoutFacts
<1> HIDE DEF rest
<1>5. r \notin ToSet(rest)
  BY <1>4
<1>6. /\ Append(rest, r) \in Seq(Records) /\ IsInjective(Append(rest, r))
      /\ ToSet(Append(rest, r)) = ToSet(rest) \cup {r}
  BY <1>4, <1>5, AppendFacts
<1>7. /\ buckets' \in [Keys -> Seq(Records)] /\ buckets'[Key(r)] = Append(rest, r)
      /\ \A k \in Keys : k # Key(r) => buckets'[k] = buckets[k]
  BY <1>1, <1>2, <1>3, <1>6
<1>8. byId' \subseteq Records /\ \A x, y \in byId' : Id(x) = Id(y) => x = y
  BY <1>1, <1>2
<1>9. ASSUME NEW k \in Keys
      PROVE  ToSet(buckets'[k]) = {x \in byId' : Key(x) = k} /\ IsInjective(buckets'[k])
  <2>1. CASE k = Key(r)
    <3>1. ToSet(rest) = {x \in byId : Key(x) = k /\ Id(x) # Id(r)}
      BY <1>2, <1>3, <1>4, <2>1
    <3>2. {x \in byId' : Key(x) = k} = {x \in byId : Key(x) = k /\ Id(x) # Id(r)} \cup {r}
      BY <1>1, <2>1
    <3> QED BY <1>6, <1>7, <2>1, <3>1, <3>2
  <2>2. CASE k # Key(r)
    <3>1. {x \in byId' : Key(x) = k} = {x \in byId : Key(x) = k}
      BY <1>1, <1>3, <2>2
    <3> QED BY <1>2, <1>7, <2>2, <3>1
  <2> QED BY <2>1, <2>2
<1>10. hashes' = {Key(x) : x \in byId'}
  BY <1>1, <1>2, <1>3
<1> QED BY <1>7, <1>8, <1>9, <1>10 DEF MInv, IndexesAgree

\* So does dropping a record, also when others share its hash.
LEMMA UnregisterKeeps ==
  ASSUME MInv, NEW r \in Records, Unregister(r)
  PROVE  MInv'
<1> DEFINE rest == Without(buckets[Key(r)], Id(r))
<1>1. /\ r \in byId /\ byId' = byId \ {r}
      /\ buckets' = [buckets EXCEPT ![Key(r)] = rest]
      /\ hashes' = IF buckets'[Key(r)] = <<>> THEN hashes \ {Key(r)} ELSE hashes
  BY DEF Unregister
<1>2. /\ byId \subseteq Records /\ \A x, y \in byId : Id(x) = Id(y) => x = y
      /\ buckets \in [Keys -> Seq(Records)]
      /\ \A k \in Keys : /\ ToSet(buckets[k]) = {x \in byId : Key(x) = k}
                         /\ IsInjective(buckets[k])
      /\ hashes = {Key(x) : x \in byId}
  BY DEF MInv, IndexesAgree
<1>3. Key(r) \in Keys
  BY Identities
<1>4. /\ rest \in Seq(Records) /\ IsInjective(rest)
      /\ ToSet(rest) = {x \in ToSet(buckets[Key(r)]) : Id(x) # Id(r)}
  BY <1>2, <1>3, WithoutFacts
<1> HIDE DEF rest
<1>5. /\ buckets' \in [Keys -> Seq(Records)] /\ buckets'[Key(r)] = rest
      /\ \A k \in Keys : k # Key(r) => buckets'[k] = buckets[k]
  BY <1>1, <1>2, <1>3, <1>4
<1>6. byId' \subseteq Records /\ \A x, y \in byId' : Id(x) = Id(y) => x = y
  BY <1>1, <1>2
<1>7. \A k \in Keys : ToSet(buckets'[k]) = {x \in byId' : Key(x) = k} /\ IsInjective(buckets'[k])
  <2> SUFFICES ASSUME NEW k \in Keys
               PROVE  /\ ToSet(buckets'[k]) = {x \in byId' : Key(x) = k}
                      /\ IsInjective(buckets'[k])
    OBVIOUS
  <2>1. CASE k = Key(r)
    <3>1. ToSet(rest) = {x \in byId : Key(x) = k /\ Id(x) # Id(r)}
      BY <1>2, <1>3, <1>4, <2>1
    <3>2. {x \in byId' : Key(x) = k} = {x \in byId : Key(x) = k /\ Id(x) # Id(r)}
      BY <1>1, <1>2
    <3> QED BY <1>4, <1>5, <2>1, <3>1, <3>2
  <2>2. CASE k # Key(r)
    <3>1. {x \in byId' : Key(x) = k} = {x \in byId : Key(x) = k}
      BY <1>1, <2>2
    <3> QED BY <1>2, <1>5, <2>2, <3>1
  <2> QED BY <2>1, <2>2
<1>8. hashes' = {Key(x) : x \in byId'}
  <2>1. rest = <<>> <=> {x \in byId' : Key(x) = Key(r)} = {}
    <3>1. rest = <<>> <=> ToSet(rest) = {}
      <4>1. rest = <<>> => ToSet(rest) = {}
        BY DEF ToSet
      <4>2. ASSUME rest # <<>>
            PROVE  ToSet(rest) # {}
        <5>1. 1 \in DOMAIN rest
          BY <1>4, <4>2
        <5> QED BY <5>1 DEF ToSet
      <4> QED BY <4>1, <4>2
    <3> QED BY <1>3, <1>5, <1>7, <3>1
  <2>2. CASE rest = <<>>
    BY <1>1, <1>2, <1>5, <2>1, <2>2
  <2>3. CASE rest # <<>>
    <3>1. PICK y \in byId' : Key(y) = Key(r)
      BY <2>1, <2>3
    <3> QED BY <1>1, <1>2, <1>5, <2>3, <3>1
  <2> QED BY <2>2, <2>3
<1> QED BY <1>5, <1>6, <1>7, <1>8 DEF MInv, IndexesAgree

-----------------------------------------------------------------------------
(* Numbers modulo Modulus                                                  *)

\* Numbers with the same remainder.
Same(a, b) == \E q \in Int : a = b + (q * Modulus)

\* A remainder is in range and differs by a multiple of the modulus.
LEMMA Remainder ==
  ASSUME NEW a \in Int
  PROVE  a % Modulus \in 0..(Modulus - 1) /\ \E q \in Int : a % Modulus = a + (q * Modulus)
<1>1. Modulus \in Nat \ {0}
  BY NumberAssumption
<1>2. a % Modulus \in 0..(Modulus - 1) /\ a = (a \div Modulus) * Modulus + (a % Modulus)
  BY <1>1
<1>3. a \div Modulus \in Int /\ a % Modulus \in Int /\ Modulus \in Int
  BY <1>1
<1>4. \A d, m, r \in Int : a = d * m + r => r = a + ((0 - d) * m)
  OBVIOUS
<1>5. 0 - (a \div Modulus) \in Int
  BY <1>3
<1> QED BY <1>2, <1>3, <1>4, <1>5

\* There is one remainder in range.
LEMMA SameRemainder ==
  ASSUME NEW a \in 0..(Modulus - 1), NEW b \in 0..(Modulus - 1), Same(a, b)
  PROVE  a = b
<1>1. Modulus \in Nat \ {0}
  BY NumberAssumption
<1>2. PICK q \in Int : a = b + (q * Modulus)
  BY DEF Same
<1> QED BY <1>1, <1>2

\* One step of the two hashes: a sum that is the hash so far, moved by the base and a
\* weight, is the next hash moved by that weight once the next token is added.
LEMMA HashStep ==
  ASSUME NEW s \in Int, NEW h \in Int, NEW t \in Int, NEW w \in Int,
         Same(s, (h * Base) * w)
  PROVE  Same((s + (t * w)) % Modulus, (((h * Base) + t) % Modulus) * w)
<1>1. Modulus \in Int /\ Base \in Int
  BY NumberAssumption
<1> DEFINE hb == h * Base
<1>2. hb \in Int /\ hb * w \in Int /\ t * w \in Int
  BY <1>1
<1> HIDE DEF hb
<1>3. PICK q \in Int : s = (hb * w) + (q * Modulus)
  BY DEF Same, hb
<1>4. PICK u \in Int : (s + (t * w)) % Modulus = (s + (t * w)) + (u * Modulus)
  BY <1>2, Remainder
<1>5. PICK v \in Int : (hb + t) % Modulus = (hb + t) + (v * Modulus)
  BY <1>2, Remainder
<1>6. \A m, x, y \in Int :
        ((hb * w) + (q * m) + (t * w)) + (u * m)
          = ((hb + t) + (v * m)) * w + ((q + u - (v * w)) * m)
  BY <1>2
<1>7. q + u - (v * w) \in Int
  OBVIOUS
<1>8. (s + (t * w)) % Modulus = ((hb + t) % Modulus) * w + ((q + u - (v * w)) * Modulus)
  BY <1>1, <1>3, <1>4, <1>5, <1>6
<1> QED BY <1>7, <1>8 DEF Same, hb

\* Weights may be replaced by ones with the same remainder.
LEMMA SameWeight ==
  ASSUME NEW s \in Int, NEW h \in Int, NEW w \in Int, Same(s, h * ((w * Base) % Modulus))
  PROVE  Same(s, (h * Base) * w)
<1>1. Modulus \in Int /\ Base \in Int /\ w * Base \in Int
  BY NumberAssumption
<1>2. PICK q \in Int : s = h * ((w * Base) % Modulus) + (q * Modulus)
  BY DEF Same
<1>3. PICK u \in Int : (w * Base) % Modulus = (w * Base) + (u * Modulus)
  BY <1>1, Remainder
<1>4. \A m, b \in Int : h * ((w * b) + (u * m)) + (q * m) = ((h * b) * w) + (((h * u) + q) * m)
  OBVIOUS
<1>5. (h * u) + q \in Int
  OBVIOUS
<1>6. s = ((h * Base) * w) + (((h * u) + q) * Modulus)
  BY <1>1, <1>2, <1>3, <1>4
<1> QED BY <1>5, <1>6 DEF Same

-----------------------------------------------------------------------------
(* The rolling hash of a window is the hash of its tokens                  *)

Remainders == 0..(Modulus - 1)

\* The parameters are positive numbers.
LEMMA Parameters ==
  Chunk \in Nat /\ Chunk >= 1 /\ Base \in Nat /\ Modulus \in Nat /\ Modulus >= 1
<1>1. {Chunk, Base, Modulus} \subseteq Nat \ {0}
  BY NumberAssumption
<1> QED BY <1>1

\* Remainders are natural numbers.
LEMMA RemaindersAreNumbers ==
  0 \in Remainders /\ \A v \in Remainders : v \in Nat /\ v \in Int
BY Parameters DEF Remainders

\* Reduced numbers and the values of tokens are remainders.
LEMMA Reduced ==
  /\ \A a \in Int : a % Modulus \in Remainders
  /\ \A t \in Nat : TokenValue(t) \in Remainders
<1>1. \A a \in Int : a % Modulus \in Remainders
  BY Remainder DEF Remainders
<1>2. \A t \in Nat : TokenValue(t) \in Remainders
  BY <1>1 DEF TokenValue
<1> QED BY <1>1, <1>2

\* RecursionHasSolution, for functions that compute remainders.
LEMMA RemainderRecursion ==
  ASSUME NEW N \in Nat, NEW F \in [1..N -> [Remainders -> Remainders]], NEW z \in Remainders
  PROVE  \E g \in [0..N -> Remainders] : g[0] = z /\ \A k \in 1..N : g[k] = F[k][g[k - 1]]
BY RecursionHasSolution

\* The hash of a sequence, token by token.
LEMMA ContentHashFacts ==
  ASSUME NEW w \in Seq(Nat)
  PROVE  \E h \in [0..Len(w) -> Remainders] :
           /\ h[0] = 0
           /\ \A k \in 1..Len(w) : h[k] = ((h[k - 1] * Base) + TokenValue(w[k])) % Modulus
           /\ ContentHash(w) = h[Len(w)]
<1> DEFINE N == Len(w)
           value == CHOOSE f : f = [n \in 0..N |->
                      IF n = 0 THEN 0 ELSE (f[n - 1] * Base + TokenValue(w[n])) % Modulus]
           F == [k \in 1..N |-> [v \in Remainders |->
                   ((v * Base) + TokenValue(w[k])) % Modulus]]
<1>1. N \in Nat /\ N \in 0..N /\ \A i \in 1..N : w[i] \in Nat
  OBVIOUS
<1>2. F \in [1..N -> [Remainders -> Remainders]]
  <2>1. ASSUME NEW v \in Remainders, NEW k \in 1..N
        PROVE  ((v * Base) + TokenValue(w[k])) % Modulus \in Remainders
    <3>1. TokenValue(w[k]) \in Remainders
      BY <1>1, Reduced
    <3>2. (v * Base) + TokenValue(w[k]) \in Int
      BY <3>1, Parameters, RemaindersAreNumbers
    <3> QED BY <3>2, Reduced
  <2> QED BY <2>1
<1>3. PICK g \in [0..N -> Remainders] :
        g[0] = 0 /\ \A k \in 1..N : g[k] = F[k][g[k - 1]]
  <2>1. 0 \in Remainders
    BY RemaindersAreNumbers
  <2> HIDE DEF F, N
  <2> QED BY <1>1, <1>2, <2>1, RemainderRecursion
<1>4. \A k \in 1..N : g[k] = ((g[k - 1] * Base) + TokenValue(w[k])) % Modulus
  <2> SUFFICES ASSUME NEW k \in 1..N
               PROVE  g[k] = ((g[k - 1] * Base) + TokenValue(w[k])) % Modulus
    OBVIOUS
  <2>1. k - 1 \in 0..N
    BY <1>1
  <2> QED BY <1>3, <2>1
<1>5. g = [n \in 0..N |-> IF n = 0 THEN 0 ELSE (g[n - 1] * Base + TokenValue(w[n])) % Modulus]
  <2>1. \A n \in 0..N : n # 0 => n \in 1..N
    OBVIOUS
  <2> QED BY <1>3, <1>4, <2>1
<1>6. value = [n \in 0..N |->
                 IF n = 0 THEN 0 ELSE (value[n - 1] * Base + TokenValue(w[n])) % Modulus]
  BY <1>5
<1>7. ContentHash(w) = value[N]
  BY DEF ContentHash
<1> HIDE DEF value
<1> DEFINE Right(k) == value[k] = g[k]
           T == {k \in 0..N : Right(k)}
<1>8. 0 \in T
  BY <1>1, <1>3, <1>6
<1>9. ASSUME NEW k \in 1..N, k - 1 \in T
      PROVE  k \in T
  <2>1. k \in 0..N /\ k # 0
    BY <1>1
  <2> QED BY <1>4, <1>6, <1>9, <2>1
<1>10. N \in T
  <2> HIDE DEF T
  <2>1. 0..N \subseteq T
    BY <1>1, <1>8, <1>9, UpTo
  <2> QED BY <1>1, <2>1
<1> QED BY <1>3, <1>4, <1>7, <1>10

\* The powers of the base, each from the one before it.
LEMMA PowerFacts ==
  /\ \A n \in 0..(Chunk - 1) : Power[n] \in Remainders
  /\ Power[0] = 1 % Modulus
  /\ \A n \in 1..(Chunk - 1) : Power[n] = (Power[n - 1] * Base) % Modulus
<1> DEFINE N == Chunk - 1
           F == [k \in 1..N |-> [v \in Remainders |-> (v * Base) % Modulus]]
<1>1. N \in Nat /\ 1 % Modulus \in Remainders
  <2>1. N \in Nat
    BY Parameters
  <2> QED BY <2>1, Reduced
<1>2. F \in [1..N -> [Remainders -> Remainders]]
  <2>1. ASSUME NEW v \in Remainders
        PROVE  (v * Base) % Modulus \in Remainders
    <3>1. v * Base \in Int
      BY Parameters, RemaindersAreNumbers
    <3> QED BY <3>1, Reduced
  <2> QED BY <2>1
<1>3. PICK g \in [0..N -> Remainders] :
        g[0] = 1 % Modulus /\ \A k \in 1..N : g[k] = F[k][g[k - 1]]
  <2> HIDE DEF F, N
  <2> QED BY <1>1, <1>2, RemainderRecursion
<1>4. \A k \in 1..N : g[k] = (g[k - 1] * Base) % Modulus
  <2> SUFFICES ASSUME NEW k \in 1..N
               PROVE  g[k] = (g[k - 1] * Base) % Modulus
    OBVIOUS
  <2>1. k - 1 \in 0..N
    BY <1>1
  <2> QED BY <1>3, <2>1
<1>5. g = [n \in 0..(Chunk - 1) |-> IF n = 0 THEN 1 % Modulus ELSE (g[n - 1] * Base) % Modulus]
  <2>1. \A n \in 0..N : n # 0 => n \in 1..N
    BY <1>1
  <2> QED BY <1>3, <1>4, <2>1
<1>6. Power = [n \in 0..(Chunk - 1) |->
                 IF n = 0 THEN 1 % Modulus ELSE (Power[n - 1] * Base) % Modulus]
  BY <1>5 DEF Power
<1> DEFINE T == {k \in 0..N : Power[k] = g[k]}
<1>7. 0 \in T
  BY <1>1, <1>3, <1>6
<1>8. ASSUME NEW k \in 1..N, k - 1 \in T
      PROVE  k \in T
  <2>1. k \in 0..N /\ k # 0
    BY <1>1
  <2> QED BY <1>4, <1>6, <1>8, <2>1
<1>9. 0..N \subseteq T
  <2> HIDE DEF T, N
  <2> QED BY <1>1, <1>7, <1>8, UpTo
<1>10. \A n \in 1..(Chunk - 1) : n \in 0..N /\ n - 1 \in 0..N
  BY <1>1
<1>11. \A n \in 0..N : Power[n] = g[n]
  BY <1>9
<1> QED BY <1>1, <1>3, <1>4, <1>10, <1>11

\* The hash of a window, as a weighted sum of its tokens.
LEMMA RollingFacts ==
  ASSUME NEW w \in Seq(Nat), NEW s \in 0..(Len(w) - Chunk)
  PROVE  \E r \in [0..Chunk -> Remainders] :
           /\ r[0] = 0
           /\ \A k \in 1..Chunk :
                r[k] = (r[k - 1] + (TokenValue(w[s + k]) * Power[Chunk - k])) % Modulus
           /\ RollingHashValues(w)[s] = r[Chunk]
<1> DEFINE N == Chunk
           sum == CHOOSE f : f = [i \in 0..Chunk |->
                    IF i = 0 THEN 0
                    ELSE (f[i - 1] + TokenValue(w[s + i]) * WindowPowers[i]) % Modulus]
           F == [k \in 1..N |-> [v \in Remainders |->
                   (v + (TokenValue(w[s + k]) * Power[Chunk - k])) % Modulus]]
<1>1. N \in Nat /\ N \in 0..N /\ Len(w) \in Nat
  BY Parameters
<1>2. ASSUME NEW k \in 1..N
      PROVE  TokenValue(w[s + k]) \in Int /\ Power[Chunk - k] \in Int
  <2>1. s + k \in 1..Len(w) /\ Chunk - k \in 0..(Chunk - 1)
    BY <1>1
  <2>2. w[s + k] \in Nat
    BY <2>1
  <2>3. TokenValue(w[s + k]) \in Remainders /\ Power[Chunk - k] \in Remainders
    BY <2>1, <2>2, Reduced, PowerFacts
  <2> QED BY <2>3, RemaindersAreNumbers
<1>3. F \in [1..N -> [Remainders -> Remainders]]
  <2>1. ASSUME NEW v \in Remainders, NEW k \in 1..N
        PROVE  (v + (TokenValue(w[s + k]) * Power[Chunk - k])) % Modulus \in Remainders
    <3>1. v \in Int /\ TokenValue(w[s + k]) \in Int /\ Power[Chunk - k] \in Int
      BY <1>2, RemaindersAreNumbers
    <3>2. v + (TokenValue(w[s + k]) * Power[Chunk - k]) \in Int
      BY <3>1
    <3> QED BY <3>2, Reduced
  <2> QED BY <2>1
<1>4. PICK g \in [0..N -> Remainders] :
        g[0] = 0 /\ \A k \in 1..N : g[k] = F[k][g[k - 1]]
  <2>1. 0 \in Remainders
    BY RemaindersAreNumbers
  <2> HIDE DEF F, N
  <2> QED BY <1>1, <1>3, <2>1, RemainderRecursion
<1>5. \A k \in 1..N : g[k] = (g[k - 1] + (TokenValue(w[s + k]) * Power[Chunk - k])) % Modulus
  <2> SUFFICES ASSUME NEW k \in 1..N
               PROVE  g[k] = (g[k - 1] + (TokenValue(w[s + k]) * Power[Chunk - k])) % Modulus
    OBVIOUS
  <2>1. k - 1 \in 0..N
    BY <1>1
  <2> QED BY <1>4, <2>1
<1>6. g = [i \in 0..Chunk |->
             IF i = 0 THEN 0
             ELSE (g[i - 1] + TokenValue(w[s + i]) * WindowPowers[i]) % Modulus]
  <2>1. \A n \in 0..N : n # 0 => n \in 1..N
    BY <1>1
  <2>2. \A i \in 1..N : WindowPowers[i] = Power[Chunk - i]
    BY DEF WindowPowers
  <2> QED BY <1>4, <1>5, <2>1, <2>2
<1>7. sum = [i \in 0..Chunk |->
               IF i = 0 THEN 0
               ELSE (sum[i - 1] + TokenValue(w[s + i]) * WindowPowers[i]) % Modulus]
  BY <1>6
<1>8. RollingHashValues(w)[s] = sum[Chunk]
  BY DEF RollingHashValues
<1> HIDE DEF sum
<1> DEFINE T == {k \in 0..N : sum[k] = g[k]}
<1>9. 0 \in T
  BY <1>1, <1>4, <1>7
<1>10. ASSUME NEW k \in 1..N, k - 1 \in T
       PROVE  k \in T
  <2>1. k \in 0..N /\ k # 0 /\ WindowPowers[k] = Power[Chunk - k]
    BY <1>1 DEF WindowPowers
  <2> QED BY <1>5, <1>7, <1>10, <2>1
<1>11. 0..N \subseteq T
  <2> HIDE DEF T, N
  <2> QED BY <1>1, <1>9, <1>10, UpTo
<1> QED BY <1>1, <1>4, <1>5, <1>8, <1>11

\* The tokens of a window.
LEMMA WindowFacts ==
  ASSUME NEW w \in Seq(Nat), NEW s \in 0..(Len(w) - Chunk)
  PROVE  /\ Window(w, s) \in Seq(Nat) /\ Len(Window(w, s)) = Chunk
         /\ \A k \in 1..Chunk : Window(w, s)[k] = w[s + k]
<1>1. Chunk \in Nat /\ Chunk >= 1 /\ Len(w) \in Nat
  BY Parameters
<1>2. s + 1 \in Int /\ s + Chunk \in Int /\ \A i \in (s + 1)..(s + Chunk) : i \in 1..Len(w)
  BY <1>1
<1> DEFINE m == s + 1
           n == s + Chunk
<1>3. /\ SubSeq(w, m, n) \in Seq(Nat)
      /\ Len(SubSeq(w, m, n)) = IF m <= n THEN n - m + 1 ELSE 0
      /\ \A i \in 1..(n - m + 1) : SubSeq(w, m, n)[i] = w[m + i - 1]
  <2>1. m \in Int /\ n \in Int /\ \A i \in m..n : w[i] \in Nat
    BY <1>2
  <2> HIDE DEF m, n
  <2> QED BY <2>1, SubSeqProperties
<1>4. m <= n /\ n - m + 1 = Chunk /\ \A i \in 1..Chunk : m + i - 1 = s + i
  BY <1>1
<1> QED BY <1>3, <1>4 DEF Window

\* The weighted sum of a window is the hash of its tokens, for any base, modulus and
\* chunk size: what is stored under a content hash is looked up under the same number
\* (hashing.py:18-53).
THEOREM RollingIsContentHash ==
  ASSUME NEW w \in Seq(Nat), NEW s \in 0..(Len(w) - Chunk)
  PROVE  RollingHashValues(w)[s] = ContentHash(Window(w, s))
<1>1. /\ Chunk \in Nat /\ Chunk >= 1 /\ Remainders \subseteq Nat
      /\ Window(w, s) \in Seq(Nat) /\ Len(Window(w, s)) = Chunk
      /\ \A k \in 1..Chunk : Window(w, s)[k] = w[s + k]
  BY Parameters, RemaindersAreNumbers, WindowFacts
<1>2. PICK h \in [0..Chunk -> Remainders] :
        /\ h[0] = 0
        /\ \A k \in 1..Chunk : h[k] = ((h[k - 1] * Base) + TokenValue(Window(w, s)[k])) % Modulus
        /\ ContentHash(Window(w, s)) = h[Chunk]
  BY <1>1, ContentHashFacts
<1>3. PICK r \in [0..Chunk -> Remainders] :
        /\ r[0] = 0
        /\ \A k \in 1..Chunk :
             r[k] = (r[k - 1] + (TokenValue(w[s + k]) * Power[Chunk - k])) % Modulus
        /\ RollingHashValues(w)[s] = r[Chunk]
  BY RollingFacts
<1> DEFINE T == {k \in 0..Chunk : k = 0 \/ Same(r[k], h[k] * Power[Chunk - k])}
<1>4. 0 \in T
  BY <1>1
<1>5. ASSUME NEW k \in 1..Chunk, k - 1 \in T
      PROVE  k \in T
  <2> DEFINE t == TokenValue(w[s + k])
             p == Power[Chunk - k]
             hp == h[k - 1]
             rp == r[k - 1]
  <2>1. /\ k \in 0..Chunk /\ k - 1 \in 0..Chunk /\ Chunk - k \in 0..(Chunk - 1)
        /\ s + k \in 1..Len(w)
    BY <1>1
  <2>2. t \in Int /\ p \in Int /\ hp \in Int /\ rp \in Int
    <3>1. w[s + k] \in Nat
      BY <2>1
    <3>2. t \in Remainders /\ p \in Remainders
      BY <2>1, <3>1, Reduced, PowerFacts
    <3>3. hp \in Remainders /\ rp \in Remainders
      BY <1>2, <1>3, <2>1
    <3> HIDE DEF t, p, hp, rp
    <3> QED BY <3>2, <3>3, RemaindersAreNumbers
  <2>3. r[k] = (rp + (t * p)) % Modulus /\ h[k] = ((hp * Base) + t) % Modulus
    BY <1>1, <1>2, <1>3
  <2>4. Same(rp, (hp * Base) * p)
    <3>1. CASE k = 1
      <4>1. rp = 0 /\ hp = 0
        BY <1>2, <1>3, <3>1
      <4>2. Base \in Int /\ Modulus \in Int
        BY Parameters
      <4>3. \A b, m, x \in Int : 0 = ((0 * b) * x) + (0 * m)
        OBVIOUS
      <4> HIDE DEF hp, rp, p
      <4>4. rp = ((hp * Base) * p) + (0 * Modulus)
        BY <2>2, <4>1, <4>2, <4>3
      <4> QED BY <4>4 DEF Same
    <3>2. CASE k # 1
      <4>1. Same(rp, hp * Power[Chunk - (k - 1)])
        BY <1>5, <3>2, <2>1
      <4>2. Chunk - (k - 1) \in 1..(Chunk - 1) /\ (Chunk - (k - 1)) - 1 = Chunk - k
        BY <1>1, <2>1, <3>2
      <4>3. Power[Chunk - (k - 1)] = (p * Base) % Modulus
        BY <4>2, PowerFacts
      <4> HIDE DEF hp, rp, p
      <4> QED BY <2>2, <4>1, <4>3, SameWeight
    <3> QED BY <3>1, <3>2
  <2>5. Same((rp + (t * p)) % Modulus, (((hp * Base) + t) % Modulus) * p)
    <3> HIDE DEF hp, rp, p, t
    <3> QED BY <2>2, <2>4, HashStep
  <2> QED BY <2>1, <2>3, <2>5
<1>6. 0..Chunk \subseteq T
  <2> HIDE DEF T
  <2> QED BY <1>1, <1>4, <1>5, UpTo
<1>7. Same(r[Chunk], h[Chunk] * (1 % Modulus))
  <2>1. Chunk \in T /\ Chunk # 0 /\ Chunk - Chunk = 0
    BY <1>1, <1>6
  <2> QED BY <2>1, PowerFacts
<1>8. r[Chunk] \in Remainders /\ h[Chunk] \in Remainders
  BY <1>1
<1>9. Same(r[Chunk], h[Chunk])
  <2> DEFINE x == r[Chunk]
             y == h[Chunk]
  <2>1. x \in Int /\ y \in Int /\ Modulus \in Int
    <3>1. x \in Remainders /\ y \in Remainders
      BY <1>8
    <3> HIDE DEF x, y
    <3> QED BY <3>1, Parameters, RemaindersAreNumbers
  <2> HIDE DEF x, y
  <2>2. PICK q \in Int : x = (y * (1 % Modulus)) + (q * Modulus)
    BY <1>7 DEF Same, x, y
  <2>3. PICK u \in Int : 1 % Modulus = 1 + (u * Modulus)
    BY Remainder
  <2>4. \A m \in Int : (y * (1 + (u * m))) + (q * m) = y + (((y * u) + q) * m)
    BY <2>1
  <2>5. x = y + (((y * u) + q) * Modulus) /\ (y * u) + q \in Int
    <3>1. x = (y * (1 + (u * Modulus))) + (q * Modulus)
      BY <2>2, <2>3
    <3> QED BY <2>1, <2>4, <3>1
  <2> QED BY <2>5 DEF Same, x, y
<1>10. r[Chunk] = h[Chunk]
  BY <1>8, <1>9, SameRemainder DEF Remainders
<1> QED BY <1>2, <1>3, <1>10

-----------------------------------------------------------------------------
(* One visit                                                               *)

Segments == [record : Records, at : Nat]

Suffix(tokens, offset) == SubSeq(tokens, offset + 1, Len(tokens))

\* What the visit of the window at s makes of the matches before it.
Step(scope, tokens, offset, q, s) ==
  LET key == <<scope, ContentHash(Window(tokens, s))>> IN
  IF key \notin hashes THEN q ELSE Visit(q, buckets[key], Window(tokens, s), s, offset)

\* The tokens of a suffix.
LEMMA SuffixFacts ==
  ASSUME NEW tokens \in Seq(Nat), NEW offset \in 0..Len(tokens)
  PROVE  /\ Suffix(tokens, offset) \in Seq(Nat)
         /\ Len(Suffix(tokens, offset)) = Len(tokens) - offset
         /\ Len(tokens) - offset \in Nat
         /\ \A i \in 1..(Len(tokens) - offset) : Suffix(tokens, offset)[i] = tokens[offset + i]
<1>1. Len(tokens) \in Nat /\ offset \in Nat /\ offset <= Len(tokens)
  OBVIOUS
<1> DEFINE m == offset + 1
           n == Len(tokens)
<1>2. m \in Int /\ n \in Int /\ \A i \in m..n : tokens[i] \in Nat
  BY <1>1
<1>3. /\ SubSeq(tokens, m, n) \in Seq(Nat)
      /\ Len(SubSeq(tokens, m, n)) = IF m <= n THEN n - m + 1 ELSE 0
      /\ \A i \in 1..(n - m + 1) : SubSeq(tokens, m, n)[i] = tokens[m + i - 1]
  <2> HIDE DEF m, n
  <2> QED BY <1>2, SubSeqProperties
<1>4. /\ (IF m <= n THEN n - m + 1 ELSE 0) = n - offset /\ n - m + 1 = n - offset
      /\ \A i \in 1..(n - offset) : m + i - 1 = offset + i
  BY <1>1
<1> DEFINE w == SubSeq(tokens, m, n)
<1>5. /\ w \in Seq(Nat) /\ Len(w) = n - offset
      /\ \A i \in 1..(n - offset) : w[i] = tokens[offset + i]
  BY <1>3, <1>4
<1>6. Suffix(tokens, offset) = w
  BY DEF Suffix
<1> HIDE DEF w
<1> QED BY <1>1, <1>5, <1>6

\* The windows of a suffix are windows of the whole.
LEMMA SuffixWindows ==
  ASSUME NEW tokens \in Seq(Nat), NEW offset \in 0..Len(tokens),
         NEW s \in 0..((Len(tokens) - offset) - Chunk)
  PROVE  /\ offset + s \in 0..(Len(tokens) - Chunk)
         /\ Window(Suffix(tokens, offset), s) = Window(tokens, offset + s)
<1> DEFINE w == Suffix(tokens, offset)
<1>1. /\ w \in Seq(Nat) /\ Len(w) = Len(tokens) - offset /\ Len(tokens) \in Nat
      /\ \A i \in 1..(Len(tokens) - offset) : w[i] = tokens[offset + i]
  BY SuffixFacts
<1> HIDE DEF w
<1>2. s \in 0..(Len(w) - Chunk)
  BY <1>1
<1>3. offset + s \in 0..(Len(tokens) - Chunk)
  BY <1>1, Parameters
<1>4. /\ Window(w, s) \in Seq(Nat) /\ Len(Window(w, s)) = Chunk
      /\ \A k \in 1..Chunk : Window(w, s)[k] = w[s + k]
  BY <1>1, <1>2, WindowFacts
<1>5. /\ Window(tokens, offset + s) \in Seq(Nat) /\ Len(Window(tokens, offset + s)) = Chunk
      /\ \A k \in 1..Chunk : Window(tokens, offset + s)[k] = tokens[(offset + s) + k]
  BY <1>3, WindowFacts
<1>6. \A k \in 1..Chunk : w[s + k] = tokens[(offset + s) + k]
  <2> SUFFICES ASSUME NEW k \in 1..Chunk
               PROVE  w[s + k] = tokens[(offset + s) + k]
    OBVIOUS
  <2>1. s + k \in 1..(Len(tokens) - offset) /\ offset + (s + k) = (offset + s) + k
    BY <1>1, Parameters
  <2> QED BY <1>1, <2>1
<1>7. Window(w, s) = Window(tokens, offset + s)
  <2> DEFINE a == Window(w, s)
             b == Window(tokens, offset + s)
  <2>1. a \in Seq(Nat) /\ b \in Seq(Nat) /\ Len(a) = Chunk /\ Len(b) = Chunk
        /\ \A k \in 1..Chunk : a[k] = b[k]
    BY <1>4, <1>5, <1>6
  <2> HIDE DEF a, b
  <2>2. a = b
    BY <2>1
  <2> QED BY <2>2 DEF a, b
<1> QED BY <1>3, <1>7 DEF w

\* Min picks the least of a nonempty set of numbers.
LEMMA MinIsIn ==
  ASSUME NEW S, S \subseteq Nat, S # {}
  PROVE  Min(S) \in S /\ \A y \in S : Min(S) <= y
<1>1. \E m \in S : \A y \in S : m <= y
  BY LeastElement
<1> QED BY <1>1 DEF Min

\* A visit keeps the matches, or adds a copy of the window that starts where it may.
LEMMA VisitFacts ==
  ASSUME NEW bucket \in Seq(Records), NEW q \in Seq(Segments), NEW s \in Nat,
         NEW offset \in Nat, NEW window
  PROVE  \/ /\ Visit(q, bucket, window, s, offset) = q
            /\ \/ s < NextAllowed(q, offset)
               \/ \A r \in ToSet(bucket) : r.tokens # window
         \/ \E r \in ToSet(bucket) :
              /\ r \in Records /\ r.tokens = window
              /\ ~(s < NextAllowed(q, offset))
              /\ Visit(q, bucket, window, s, offset) = Append(q, Segment(r, s))
<1> DEFINE copies == Exact(bucket, window)
           first == bucket[Min(copies)]
<1>1. copies = {} => \A r \in ToSet(bucket) : r.tokens # window
  BY DEF Exact, ToSet
<1>2. ASSUME copies # {}
      PROVE  first \in ToSet(bucket) /\ first \in Records /\ first.tokens = window
  <2>1. copies \subseteq DOMAIN bucket /\ DOMAIN bucket \subseteq Nat
    BY DEF Exact
  <2>2. Min(copies) \in copies
    <3> HIDE DEF copies
    <3> QED BY <1>2, <2>1, MinIsIn
  <2>3. Min(copies) \in DOMAIN bucket /\ first.tokens = window
    BY <2>2 DEF Exact
  <2> DEFINE i == Min(copies)
  <2> HIDE DEF copies, i
  <2>4. bucket[i] \in ToSet(bucket) /\ bucket[i] \in Records
    BY <2>3 DEF ToSet, i
  <2> QED BY <2>3, <2>4 DEF i
<1>3. Visit(q, bucket, window, s, offset) =
        IF s < NextAllowed(q, offset) \/ copies = {} THEN q ELSE Append(q, Segment(first, s))
  BY DEF Visit
<1> HIDE DEF copies, first
<1> QED BY <1>1, <1>2, <1>3

\* The fields of a segment.
LEMMA SegmentIsSegment ==
  ASSUME NEW r \in Records, NEW s \in Nat
  PROVE  Segment(r, s) \in Segments /\ Segment(r, s).record = r /\ Segment(r, s).at = s
BY DEF Segment, Segments

\* The bucket of a known hash has the records that have it.
LEMMA KnownBuckets ==
  ASSUME MInv, NEW key \in hashes
  PROVE  /\ buckets[key] \in Seq(Records)
         /\ ToSet(buckets[key]) = {r \in byId : Key(r) = key}
<1>1. /\ byId \subseteq Records /\ buckets \in [Keys -> Seq(Records)]
      /\ \A k \in Keys : ToSet(buckets[k]) = {r \in byId : Key(r) = k}
      /\ hashes = {Key(r) : r \in byId}
  BY DEF MInv, IndexesAgree
<1>2. key \in Keys
  BY <1>1 DEF Keys
<1> QED BY <1>1, <1>2

\* A visit makes a sequence of segments of one.
LEMMA StepType ==
  ASSUME MInv, NEW scope, NEW tokens, NEW offset \in Nat, NEW q \in Seq(Segments), NEW s \in Nat
  PROVE  Step(scope, tokens, offset, q, s) \in Seq(Segments)
<1> DEFINE key == <<scope, ContentHash(Window(tokens, s))>>
           window == Window(tokens, s)
<1>1. Step(scope, tokens, offset, q, s) =
        IF key \notin hashes THEN q ELSE Visit(q, buckets[key], window, s, offset)
  BY DEF Step
<1> HIDE DEF key, window
<1>2. ASSUME key \in hashes
      PROVE  Visit(q, buckets[key], window, s, offset) \in Seq(Segments)
  <2> DEFINE bucket == buckets[key]
  <2>1. bucket \in Seq(Records)
    BY <1>2, KnownBuckets
  <2> HIDE DEF bucket
  <2>2. \/ Visit(q, bucket, window, s, offset) = q
        \/ \E r \in Records : Visit(q, bucket, window, s, offset) = Append(q, Segment(r, s))
    BY <2>1, VisitFacts
  <2>3. \A r \in Records : Append(q, Segment(r, s)) \in Seq(Segments)
    BY SegmentIsSegment, Appended
  <2>4. Visit(q, bucket, window, s, offset) \in Seq(Segments)
    BY <2>2, <2>3
  <2> QED BY <2>4 DEF bucket
<1> QED BY <1>1, <1>2

-----------------------------------------------------------------------------
(* The search, visit by visit                                              *)

\* RecursionHasSolution, for functions that compute sequences of segments.
LEMMA SegmentRecursion ==
  ASSUME NEW N \in Nat, NEW F \in [1..N -> [Seq(Segments) -> Seq(Segments)]]
  PROVE  \E f \in [0..N -> Seq(Segments)] :
           f[0] = <<>> /\ \A k \in 1..N : f[k] = F[k][f[k - 1]]
<1> DEFINE V == Seq(Segments)
           a == <<>>
<1>1. a \in V
  OBVIOUS
<1>2. F \in [1..N -> [V -> V]]
  OBVIOUS
<1> HIDE DEF V, a
<1>3. \E f \in [0..N -> V] : f[0] = a /\ \A k \in 1..N : f[k] = F[k][f[k - 1]]
  BY <1>1, <1>2, RecursionHasSolution
<1> QED BY <1>3 DEF V, a

\* A search is a sequence of visits, one for each window of the suffix.
LEMMA MatchVisits ==
  ASSUME MInv, NEW scope, NEW tokens \in Seq(Nat), NEW offset \in 0..Len(tokens)
  PROVE  \E f \in [0..(Len(tokens) - offset) -> Seq(Segments)] :
           /\ \A n \in 0..(Len(tokens) - offset) :
                f[n] = IF n < Chunk THEN <<>>
                       ELSE Step(scope, tokens, offset, f[n - 1], offset + (n - Chunk))
           /\ Match(scope, tokens, offset) = f[Len(tokens) - offset]
<1> DEFINE N == Len(tokens) - offset
           w == SubSeq(tokens, offset + 1, Len(tokens))
           KeyAt(s) == <<scope, RollingHashValues(w)[s]>>
           Body(f, n) == IF n < Chunk THEN <<>>
                         ELSE IF KeyAt(n - Chunk) \notin hashes THEN f[n - 1]
                         ELSE Visit(f[n - 1], buckets[KeyAt(n - Chunk)], Window(w, n - Chunk),
                                    offset + n - Chunk, offset)
           found == CHOOSE f : f = [n \in 0..Len(w) |-> Body(f, n)]
           Visited(q, n) == IF n < Chunk THEN <<>>
                            ELSE Step(scope, tokens, offset, q, offset + (n - Chunk))
           F == [n \in 1..N |-> [q \in Seq(Segments) |-> Visited(q, n)]]
<1>1. /\ w \in Seq(Nat) /\ Len(w) = N /\ N \in Nat /\ offset \in Nat /\ Len(tokens) \in Nat
      /\ Chunk \in Nat /\ Chunk >= 1
  BY SuffixFacts, Parameters DEF Suffix
<1>2. Match(scope, tokens, offset) = found[Len(w)]
  BY DEF Match
<1> HIDE DEF found
<1>3. ASSUME NEW n \in 0..N, ~(n < Chunk)
      PROVE  /\ n \in 1..N /\ n - 1 \in 0..N /\ n - Chunk \in 0..(N - Chunk)
             /\ offset + (n - Chunk) \in Nat /\ offset + n - Chunk = offset + (n - Chunk)
             /\ Window(w, n - Chunk) = Window(tokens, offset + (n - Chunk))
             /\ KeyAt(n - Chunk) = <<scope, ContentHash(Window(tokens, offset + (n - Chunk)))>>
  <2> DEFINE s == n - Chunk
  <2>1. /\ n \in 1..N /\ n - 1 \in 0..N /\ s \in 0..(N - Chunk)
        /\ offset + s \in Nat /\ offset + n - Chunk = offset + s
    BY <1>1, <1>3
  <2>2. Window(w, s) = Window(tokens, offset + s)
    BY <2>1, SuffixWindows DEF Suffix
  <2>3. RollingHashValues(w)[s] = ContentHash(Window(w, s))
    BY <1>1, <2>1, RollingIsContentHash
  <2> QED BY <2>1, <2>2, <2>3
<1> HIDE DEF w
<1>4. F \in [1..N -> [Seq(Segments) -> Seq(Segments)]]
  <2>1. ASSUME NEW n \in 1..N, NEW q \in Seq(Segments)
        PROVE  Visited(q, n) \in Seq(Segments)
    <3>1. CASE n < Chunk
      BY <3>1
    <3>2. CASE ~(n < Chunk)
      <4>1. n \in 0..N
        BY <1>1
      <4>2. offset + (n - Chunk) \in Nat
        BY <1>3, <3>2, <4>1
      <4> QED BY <1>1, <3>2, <4>2, StepType
    <3> QED BY <3>1, <3>2
  <2> HIDE DEF Visited
  <2> QED BY <2>1
<1>5. PICK g \in [0..N -> Seq(Segments)] :
        g[0] = <<>> /\ \A k \in 1..N : g[k] = F[k][g[k - 1]]
  <2> HIDE DEF F, N
  <2> QED BY <1>1, <1>4, SegmentRecursion
<1>6. \A k \in 1..N : g[k] = Visited(g[k - 1], k)
  <2> SUFFICES ASSUME NEW k \in 1..N
               PROVE  g[k] = Visited(g[k - 1], k)
    OBVIOUS
  <2>1. k - 1 \in 0..N
    BY <1>1
  <2>2. g[k - 1] \in Seq(Segments)
    BY <1>5, <2>1
  <2> HIDE DEF Visited
  <2> QED BY <1>5, <2>2
<1>7. \A n \in 0..N : g[n] = Visited(g[n - 1], n)
  <2> SUFFICES ASSUME NEW n \in 0..N
               PROVE  g[n] = Visited(g[n - 1], n)
    OBVIOUS
  <2>1. CASE n = 0
    BY <1>1, <1>5, <2>1
  <2>2. CASE n # 0
    <3>1. n \in 1..N
      BY <1>1, <2>2
    <3> HIDE DEF Visited
    <3> QED BY <1>6, <3>1
  <2> QED BY <2>1, <2>2
<1>8. ASSUME NEW f, NEW n \in 0..N
      PROVE  Body(f, n) = Visited(f[n - 1], n)
  <2>1. CASE n < Chunk
    BY <2>1
  <2>2. CASE ~(n < Chunk)
    BY <1>3, <2>2 DEF Step
  <2> QED BY <2>1, <2>2
<1>9. found = [n \in 0..N |-> Body(found, n)]
  <2>1. g = [n \in 0..N |-> Body(g, n)]
    <3>1. \A n \in 0..N : g[n] = Body(g, n)
      <4> HIDE DEF Body, Visited
      <4> QED BY <1>7, <1>8
    <3> HIDE DEF Body
    <3> QED BY <1>5, <3>1
  <2> HIDE DEF Body
  <2> QED BY <1>1, <2>1 DEF found
<1> DEFINE T == {n \in 0..N : found[n] = g[n]}
<1>10. \A n \in 0..N : found[n] = Visited(found[n - 1], n)
  <2> HIDE DEF Body, Visited
  <2> QED BY <1>8, <1>9
<1>11. 0 \in T
  BY <1>1, <1>7, <1>10
<1>12. ASSUME NEW k \in 1..N, k - 1 \in T
       PROVE  k \in T
  <2>1. k \in 0..N
    BY <1>1
  <2> HIDE DEF Visited
  <2> QED BY <1>7, <1>10, <1>12, <2>1
<1>13. 0..N \subseteq T
  <2> HIDE DEF T, N
  <2> QED BY <1>1, <1>11, <1>12, UpTo
<1>14. found[N] = g[N]
  <2>1. N \in 0..N
    BY <1>1
  <2>2. N \in T
    BY <1>13, <2>1
  <2> QED BY <2>2
<1> QED BY <1>1, <1>2, <1>5, <1>7, <1>14

-----------------------------------------------------------------------------
(* What has been found before the place e                                  *)

\* Copies of their records, in order and apart; whatever is stored is there or
\* overlaps an earlier match.
Greedy(scope, tokens, offset, e, q) ==
  /\ q \in Seq(Segments)
  /\ \A i \in DOMAIN q :
       /\ q[i].record \in byId /\ q[i].record.scope = scope
       /\ q[i].record.tokens = Window(tokens, q[i].at)
       /\ offset <= q[i].at /\ q[i].at + Chunk <= e
  /\ \A i, j \in DOMAIN q : i < j => q[i].at + Chunk <= q[j].at
  /\ \A s \in offset..(e - Chunk) : \A r \in byId :
       r.scope = scope /\ r.tokens = Window(tokens, s) =>
         \E i \in DOMAIN q : q[i].at <= s /\ s < q[i].at + Chunk

\* The matches are before the place where the next may start, and something ends there.
LEMMA NextAllowedFacts ==
  ASSUME NEW scope, NEW tokens, NEW offset \in Nat, NEW e \in Nat, NEW q,
         Greedy(scope, tokens, offset, e, q)
  PROVE  /\ \A i \in DOMAIN q : q[i].at + Chunk <= NextAllowed(q, offset)
         /\ \A s \in Nat : offset <= s /\ e - Chunk <= s /\ s < NextAllowed(q, offset) =>
              \E i \in DOMAIN q : q[i].at <= s /\ s < q[i].at + Chunk
<1>1. /\ q \in Seq(Segments) /\ Len(q) \in Nat /\ DOMAIN q = 1..Len(q)
      /\ \A i \in DOMAIN q : q[i].at \in Nat /\ q[i].at + Chunk <= e
      /\ \A i, j \in DOMAIN q : i < j => q[i].at + Chunk <= q[j].at
      /\ Chunk \in Nat /\ Chunk >= 1
  <2>1. q \in Seq(Segments)
    BY DEF Greedy
  <2>2. \A i \in DOMAIN q : q[i] \in Segments
    BY <2>1
  <2> QED BY <2>1, <2>2, Parameters DEF Greedy, Segments
<1>2. CASE q = <<>>
  BY <1>1, <1>2 DEF NextAllowed
<1>3. CASE q # <<>>
  <2> DEFINE l == Len(q)
  <2>1. NextAllowed(q, offset) = q[l].at + Chunk
    BY <1>3 DEF NextAllowed, Last
  <2>2. l \in DOMAIN q
    <3>1. l # 0
      BY <1>1, <1>3
    <3> QED BY <1>1, <3>1
  <2>3. ASSUME NEW i \in DOMAIN q
        PROVE  q[i].at + Chunk <= q[l].at + Chunk
    <3>1. CASE i = l
      BY <1>1, <3>1
    <3>2. CASE i # l
      <4>1. i < l
        BY <1>1, <3>2
      <4> HIDE DEF l
      <4>2. q[i].at + Chunk <= q[l].at
        BY <1>1, <2>2, <4>1
      <4> QED BY <1>1, <2>2, <4>2
    <3> QED BY <3>1, <3>2
  <2>4. ASSUME NEW s \in Nat, e - Chunk <= s
        PROVE  q[l].at <= s
    <3> HIDE DEF l
    <3> QED BY <1>1, <2>2, <2>4
  <2> QED BY <2>1, <2>2, <2>3, <2>4
<1> QED BY <1>2, <1>3

\* A visit carries Greedy on by one token.
LEMMA GreedyStep ==
  ASSUME MInv, NEW scope, NEW tokens \in Seq(Nat), NEW offset \in 0..Len(tokens),
         NEW s \in offset..(Len(tokens) - Chunk), NEW q,
         Greedy(scope, tokens, offset, s + Chunk - 1, q)
  PROVE  Greedy(scope, tokens, offset, s + Chunk, Step(scope, tokens, offset, q, s))
<1> DEFINE e == s + Chunk - 1
           window == Window(tokens, s)
           key == <<scope, ContentHash(window)>>
           bucket == buckets[key]
           new == Step(scope, tokens, offset, q, s)
<1> SUFFICES Greedy(scope, tokens, offset, s + Chunk, new)
  OBVIOUS
<1>1. /\ Chunk \in Nat /\ Chunk >= 1 /\ offset \in Nat /\ s \in Nat /\ offset <= s
      /\ e \in Nat /\ e - Chunk = s - 1 /\ s + Chunk - Chunk = s /\ e < s + Chunk
  BY Parameters
<1>2. /\ q \in Seq(Segments)
      /\ \A i \in DOMAIN q :
           /\ q[i].record \in byId /\ q[i].record.scope = scope
           /\ q[i].record.tokens = Window(tokens, q[i].at)
           /\ offset <= q[i].at /\ q[i].at + Chunk <= e
      /\ \A i, j \in DOMAIN q : i < j => q[i].at + Chunk <= q[j].at
      /\ \A t \in offset..(e - Chunk) : \A r \in byId :
           r.scope = scope /\ r.tokens = Window(tokens, t) =>
             \E i \in DOMAIN q : q[i].at <= t /\ t < q[i].at + Chunk
  BY DEF Greedy
<1>3. /\ \A i \in DOMAIN q : q[i].at + Chunk <= NextAllowed(q, offset)
      /\ s < NextAllowed(q, offset) =>
           \E i \in DOMAIN q : q[i].at <= s /\ s < q[i].at + Chunk
  <2>1. e - Chunk <= s
    BY <1>1
  <2> HIDE DEF e
  <2> QED BY <1>1, <2>1, NextAllowedFacts DEF e
<1>4. \A t \in offset..s : t \in offset..(e - Chunk) \/ t = s
  BY <1>1
<1>5. \A i \in DOMAIN q : q[i].at \in Nat
  <2>1. \A i \in DOMAIN q : q[i] \in Segments
    BY <1>2
  <2> QED BY <2>1 DEF Segments
<1>6. ASSUME new = q,
             \/ s < NextAllowed(q, offset)
             \/ \A r \in byId : ~(r.scope = scope /\ r.tokens = window)
      PROVE  Greedy(scope, tokens, offset, s + Chunk, new)
  <2>1. \A i \in DOMAIN q : q[i].at + Chunk <= s + Chunk
    BY <1>1, <1>2, <1>5
  <2>2. ASSUME NEW t \in offset..s, NEW r \in byId,
               r.scope = scope, r.tokens = Window(tokens, t)
        PROVE  \E i \in DOMAIN q : q[i].at <= t /\ t < q[i].at + Chunk
    <3>1. CASE t \in offset..(e - Chunk)
      <4> HIDE DEF e
      <4> QED BY <1>2, <2>2, <3>1
    <3>2. CASE t = s
      BY <1>3, <1>6, <2>2, <3>2
    <3> QED BY <1>1, <1>4, <3>1, <3>2
  <2>3. \A t \in offset..s : \A r \in byId :
          r.scope = scope /\ r.tokens = Window(tokens, t) =>
            \E i \in DOMAIN q : q[i].at <= t /\ t < q[i].at + Chunk
    BY <2>2
  <2>4. \A i \in DOMAIN q :
          /\ q[i].record \in byId /\ q[i].record.scope = scope
          /\ q[i].record.tokens = Window(tokens, q[i].at)
          /\ offset <= q[i].at /\ q[i].at + Chunk <= s + Chunk
    BY <1>2, <2>1
  <2>5. Greedy(scope, tokens, offset, s + Chunk, q)
    <3> DEFINE top == s + Chunk
    <3>1. top - Chunk = s
      BY <1>1
    <3>2. /\ \A t \in offset..(top - Chunk) : \A r \in byId :
               r.scope = scope /\ r.tokens = Window(tokens, t) =>
                 \E i \in DOMAIN q : q[i].at <= t /\ t < q[i].at + Chunk
          /\ \A i \in DOMAIN q :
               /\ q[i].record \in byId /\ q[i].record.scope = scope
               /\ q[i].record.tokens = Window(tokens, q[i].at)
               /\ offset <= q[i].at /\ q[i].at + Chunk <= top
      <4> HIDE DEF top
      <4>1. \A t \in offset..(top - Chunk) : \A r \in byId :
               r.scope = scope /\ r.tokens = Window(tokens, t) =>
                 \E i \in DOMAIN q : q[i].at <= t /\ t < q[i].at + Chunk
        BY <2>3, <3>1
      <4> QED BY <2>4, <4>1 DEF top
    <3>3. /\ q \in Seq(Segments)
          /\ \A i, j \in DOMAIN q : i < j => q[i].at + Chunk <= q[j].at
      BY <1>2
    <3> HIDE DEF top
    <3>4. Greedy(scope, tokens, offset, top, q)
      BY <3>2, <3>3 DEF Greedy
    <3> QED BY <3>4 DEF top
  <2> HIDE DEF new
  <2> QED BY <1>6, <2>5
<1>7. CASE key \notin hashes
  <2>1. new = q
    BY <1>7 DEF Step
  <2>2. ASSUME NEW r \in byId, r.scope = scope, r.tokens = window
        PROVE  FALSE
    <3>1. Key(r) \in hashes
      BY DEF MInv, IndexesAgree
    <3>2. Key(r) = key
      BY <2>2 DEF Key
    <3> QED BY <1>7, <3>1, <3>2
  <2> HIDE DEF new
  <2> QED BY <1>6, <2>1, <2>2
<1>8. CASE key \in hashes
  <2>1. new = Visit(q, bucket, window, s, offset)
    BY <1>8 DEF Step
  <2>2. bucket \in Seq(Records) /\ ToSet(bucket) = {r \in byId : Key(r) = key}
    BY <1>8, KnownBuckets
  <2> HIDE DEF new, bucket
  <2>3. \/ /\ new = q
           /\ \/ s < NextAllowed(q, offset)
              \/ \A r \in ToSet(bucket) : r.tokens # window
        \/ \E r \in ToSet(bucket) :
             /\ r \in Records /\ r.tokens = window
             /\ ~(s < NextAllowed(q, offset))
             /\ new = Append(q, Segment(r, s))
    <3>1. \/ /\ Visit(q, bucket, window, s, offset) = q
             /\ \/ s < NextAllowed(q, offset)
                \/ \A r \in ToSet(bucket) : r.tokens # window
          \/ \E r \in ToSet(bucket) :
               /\ r \in Records /\ r.tokens = window
               /\ ~(s < NextAllowed(q, offset))
               /\ Visit(q, bucket, window, s, offset) = Append(q, Segment(r, s))
      <4>1. bucket \in Seq(Records) /\ q \in Seq(Segments) /\ s \in Nat /\ offset \in Nat
        BY <1>1, <1>2, <2>2
      <4> HIDE DEF window
      <4> QED BY <4>1, VisitFacts
    <3> QED BY <2>1, <3>1
  <2>4. CASE /\ new = q
             /\ \/ s < NextAllowed(q, offset)
                \/ \A r \in ToSet(bucket) : r.tokens # window
    <3>1. \A r \in byId : r.scope = scope /\ r.tokens = window => r \in ToSet(bucket)
      BY <2>2 DEF Key
    <3> QED BY <1>6, <2>4, <3>1
  <2>5. ASSUME NEW r \in ToSet(bucket), r \in Records, r.tokens = window,
               ~(s < NextAllowed(q, offset)), new = Append(q, Segment(r, s))
        PROVE  Greedy(scope, tokens, offset, s + Chunk, new)
    <3> DEFINE m == Segment(r, s)
               l == Len(q) + 1
    <3>1. m \in Segments /\ m.record = r /\ m.at = s
      BY <1>1, <2>5, SegmentIsSegment
    <3>2. r \in byId /\ r.scope = scope
      BY <2>2 DEF Key
    <3> HIDE DEF m
    <3>3. /\ new \in Seq(Segments) /\ DOMAIN new = DOMAIN q \cup {l}
          /\ \A i \in DOMAIN q : new[i] = q[i] /\ i # l
          /\ new[l] = m
      BY <1>2, <2>5, <3>1, Appended DEF m
    <3>4. \A i \in DOMAIN q : i \in Nat /\ i < l
      <4>1. Len(q) \in Nat /\ DOMAIN q = 1..Len(q)
        BY <1>2, LenProperties
      <4> QED BY <4>1
    <3>5. l \in Nat
      BY <1>2
    <3> HIDE DEF l
    <3>6. \A i \in DOMAIN q : q[i].at + Chunk <= s
      <4> SUFFICES ASSUME NEW i \in DOMAIN q
                   PROVE  q[i].at + Chunk <= s
        OBVIOUS
      <4>1. q[i].at + Chunk <= NextAllowed(q, offset) /\ q[i].at + Chunk \in Nat
        BY <1>1, <1>3, <1>5
      <4>2. NextAllowed(q, offset) \in Nat
        <5>1. q = <<>> \/ Len(q) \in DOMAIN q
          <6>1. DOMAIN q = 1..Len(q) /\ Len(q) \in Nat
            BY <1>2, LenProperties
          <6>2. Len(q) # 0
            BY <6>1
          <6> QED BY <6>1, <6>2
        <5> QED BY <1>1, <1>5, <5>1 DEF NextAllowed, Last
      <4> QED BY <1>1, <2>5, <4>1, <4>2
    <3>7. \A i \in DOMAIN new :
            /\ new[i].record \in byId /\ new[i].record.scope = scope
            /\ new[i].record.tokens = Window(tokens, new[i].at)
            /\ offset <= new[i].at /\ new[i].at + Chunk <= s + Chunk
      <4> SUFFICES ASSUME NEW i \in DOMAIN new
                   PROVE  /\ new[i].record \in byId /\ new[i].record.scope = scope
                          /\ new[i].record.tokens = Window(tokens, new[i].at)
                          /\ offset <= new[i].at /\ new[i].at + Chunk <= s + Chunk
        OBVIOUS
      <4>1. CASE i = l
        BY <1>1, <2>5, <3>1, <3>2, <3>3, <4>1
      <4>2. CASE i \in DOMAIN q
        <5>1. new[i] = q[i]
          BY <3>3, <4>2
        <5>2. q[i].at + Chunk <= s + Chunk
          BY <1>1, <1>5, <3>6, <4>2
        <5> QED BY <1>2, <4>2, <5>1, <5>2
      <4> QED BY <3>3, <4>1, <4>2
    <3>8. \A i, j \in DOMAIN new : i < j => new[i].at + Chunk <= new[j].at
      <4> SUFFICES ASSUME NEW i \in DOMAIN new, NEW j \in DOMAIN new, i < j
                   PROVE  new[i].at + Chunk <= new[j].at
        OBVIOUS
      <4>1. i \in DOMAIN q
        BY <3>3, <3>4, <3>5
      <4>2. CASE j = l
        BY <3>1, <3>3, <3>6, <4>1, <4>2
      <4>3. CASE j \in DOMAIN q
        BY <1>2, <3>3, <4>1, <4>3
      <4> QED BY <3>3, <4>2, <4>3
    <3>9. ASSUME NEW t \in offset..s, NEW x \in byId,
                 x.scope = scope, x.tokens = Window(tokens, t)
          PROVE  \E i \in DOMAIN new : new[i].at <= t /\ t < new[i].at + Chunk
      <4>1. CASE t \in offset..(e - Chunk)
        <5>1. PICK i \in DOMAIN q : q[i].at <= t /\ t < q[i].at + Chunk
          <6> HIDE DEF e
          <6> QED BY <1>2, <3>9, <4>1
        <5> QED BY <3>3, <5>1
      <4>2. CASE t = s
        <5>1. l \in DOMAIN new /\ new[l].at = s
          BY <3>1, <3>3
        <5>2. s <= s /\ s < s + Chunk
          BY <1>1
        <5> QED BY <4>2, <5>1, <5>2
      <4> QED BY <1>1, <1>4, <4>1, <4>2
    <3>10. \A t \in offset..s : \A x \in byId :
             x.scope = scope /\ x.tokens = Window(tokens, t) =>
               \E i \in DOMAIN new : new[i].at <= t /\ t < new[i].at + Chunk
      BY <3>9
    <3> DEFINE top == s + Chunk
    <3>11. /\ \A t \in offset..(top - Chunk) : \A x \in byId :
                x.scope = scope /\ x.tokens = Window(tokens, t) =>
                  \E i \in DOMAIN new : new[i].at <= t /\ t < new[i].at + Chunk
           /\ \A i \in DOMAIN new :
                /\ new[i].record \in byId /\ new[i].record.scope = scope
                /\ new[i].record.tokens = Window(tokens, new[i].at)
                /\ offset <= new[i].at /\ new[i].at + Chunk <= top
           /\ new \in Seq(Segments)
      <4>1. top - Chunk = s
        BY <1>1
      <4> HIDE DEF top
      <4>2. \A t \in offset..(top - Chunk) : \A x \in byId :
                x.scope = scope /\ x.tokens = Window(tokens, t) =>
                  \E i \in DOMAIN new : new[i].at <= t /\ t < new[i].at + Chunk
        BY <3>10, <4>1
      <4> QED BY <3>3, <3>7, <4>2 DEF top
    <3> HIDE DEF top
    <3>12. Greedy(scope, tokens, offset, top, new)
      BY <3>8, <3>11 DEF Greedy
    <3> QED BY <3>12 DEF top
  <2> QED BY <2>3, <2>4, <2>5
<1> QED BY <1>7, <1>8

\* Where no window fits, nothing need be found.
LEMMA NothingBefore ==
  ASSUME NEW scope, NEW tokens, NEW offset \in Nat, NEW e \in Nat, e - Chunk < offset
  PROVE  Greedy(scope, tokens, offset, e, <<>>)
<1>1. <<>> \in Seq(Segments) /\ DOMAIN <<>> = {}
  OBVIOUS
<1>2. e - Chunk \in Int
  BY Parameters
<1>3. offset..(e - Chunk) = {}
  BY <1>2
<1> QED BY <1>1, <1>3 DEF Greedy

\* What a search returns is Greedy for the whole sequence.
LEMMA MatchIsGreedy ==
  ASSUME MInv, NEW scope, NEW tokens \in Seq(Nat), NEW offset \in 0..Len(tokens)
  PROVE  Greedy(scope, tokens, offset, Len(tokens), Match(scope, tokens, offset))
<1> DEFINE N == Len(tokens) - offset
<1>1. N \in Nat /\ offset \in Nat /\ Len(tokens) \in Nat /\ Chunk \in Nat /\ Chunk >= 1
  BY Parameters
<1>2. PICK f \in [0..N -> Seq(Segments)] :
        /\ \A n \in 0..N :
             f[n] = IF n < Chunk THEN <<>>
                    ELSE Step(scope, tokens, offset, f[n - 1], offset + (n - Chunk))
        /\ Match(scope, tokens, offset) = f[N]
  BY MatchVisits
<1> DEFINE Right(n) == Greedy(scope, tokens, offset, offset + n, f[n])
           T == {n \in 0..N : Right(n)}
<1>3. ASSUME NEW n \in 0..N, n < Chunk
      PROVE  n \in T
  <2>1. f[n] = <<>>
    BY <1>2, <1>3
  <2> DEFINE e == offset + n
  <2>2. e \in Nat /\ e - Chunk < offset
    BY <1>1, <1>3
  <2> HIDE DEF e
  <2>3. Greedy(scope, tokens, offset, e, <<>>)
    BY <1>1, <2>2, NothingBefore
  <2> QED BY <2>1, <2>3 DEF e
<1>4. 0 \in T
  BY <1>1, <1>3
<1>5. ASSUME NEW k \in 1..N, k - 1 \in T
      PROVE  k \in T
  <2>1. k \in 0..N
    BY <1>1
  <2>2. CASE k < Chunk
    BY <1>3, <2>1, <2>2
  <2>3. CASE ~(k < Chunk)
    <3> DEFINE s == offset + (k - Chunk)
               q == f[k - 1]
    <3>1. /\ s \in offset..(Len(tokens) - Chunk) /\ s + Chunk = offset + k
          /\ s + Chunk - 1 = offset + (k - 1)
      BY <1>1, <2>3
    <3>2. f[k] = Step(scope, tokens, offset, q, s)
      BY <1>2, <2>1, <2>3
    <3>3. Greedy(scope, tokens, offset, s + Chunk - 1, q)
      BY <1>5, <3>1
    <3> HIDE DEF s, q
    <3>4. Greedy(scope, tokens, offset, s + Chunk, f[k])
      BY <3>1, <3>2, <3>3, GreedyStep
    <3> QED BY <2>1, <3>1, <3>4
  <2> QED BY <2>2, <2>3
<1>6. N \in T
  <2> HIDE DEF T
  <2>1. 0..N \subseteq T
    <3> HIDE DEF N
    <3> QED BY <1>1, <1>4, <1>5, UpTo
  <2>2. N \in 0..N
    BY <1>1
  <2> QED BY <2>1, <2>2
<1>7. offset + N = Len(tokens)
  BY <1>1
<1>8. Greedy(scope, tokens, offset, offset + N, f[N])
  BY <1>6
<1> QED BY <1>2, <1>7, <1>8

-----------------------------------------------------------------------------
(* A search of the suffix finds the same                                   *)

\* What has been moved has its length, and each segment further on.
LEMMA MovedFacts ==
  ASSUME NEW q \in Seq(Segments), NEW offset \in Nat
  PROVE  /\ Moved(q, offset) \in Seq(Segments) /\ Len(Moved(q, offset)) = Len(q)
         /\ \A i \in 1..Len(q) :
              /\ Moved(q, offset)[i] = Segment(q[i].record, q[i].at + offset)
              /\ q[i].record \in Records /\ q[i].at \in Nat
<1>1. Len(q) \in Nat /\ DOMAIN q = 1..Len(q)
  BY LenProperties
<1>2. \A i \in 1..Len(q) : q[i].record \in Records /\ q[i].at \in Nat
  <2>1. \A i \in 1..Len(q) : q[i] \in Segments
    BY <1>1
  <2> QED BY <2>1 DEF Segments
<1>3. \A i \in 1..Len(q) : Segment(q[i].record, q[i].at + offset) \in Segments
  <2> SUFFICES ASSUME NEW i \in 1..Len(q)
               PROVE  Segment(q[i].record, q[i].at + offset) \in Segments
    OBVIOUS
  <2>1. q[i].at + offset \in Nat
    BY <1>2
  <2> QED BY <1>2, <2>1, SegmentIsSegment
<1>4. Moved(q, offset) = [i \in 1..Len(q) |-> Segment(q[i].record, q[i].at + offset)]
  BY <1>1 DEF Moved
<1> DEFINE n == Len(q)
           m == Moved(q, offset)
<1>5. m \in [1..n -> Segments]
  BY <1>3, <1>4
<1>6. m \in Seq(Segments) /\ Len(m) = n
  <2> HIDE DEF m, n
  <2>1. n \in Nat
    BY <1>1 DEF n
  <2> QED BY <1>5, <2>1
<1>7. \A i \in 1..n : m[i] = Segment(q[i].record, q[i].at + offset)
  BY <1>4
<1> QED BY <1>2, <1>6, <1>7

\* Appending and moving commute.
LEMMA MovedAppend ==
  ASSUME NEW q \in Seq(Segments), NEW offset \in Nat, NEW r \in Records, NEW s \in Nat
  PROVE  Moved(Append(q, Segment(r, s)), offset) = Append(Moved(q, offset), Segment(r, s + offset))
<1> DEFINE l == Len(q) + 1
           m == Segment(r, s)
           a == Append(q, m)
           left == Moved(a, offset)
           old == Moved(q, offset)
           right == Append(old, Segment(r, s + offset))
<1>1. m \in Segments /\ m.record = r /\ m.at = s
  BY SegmentIsSegment
<1>2. Segment(r, s + offset) \in Segments
  <2>1. s + offset \in Nat
    OBVIOUS
  <2> QED BY <2>1, SegmentIsSegment
<1> HIDE DEF m
<1>3. /\ a \in Seq(Segments) /\ Len(a) = l /\ Len(q) \in Nat /\ a[l] = m
      /\ \A i \in 1..Len(q) : a[i] = q[i]
  BY <1>1
<1> HIDE DEF a
<1>4. /\ left \in Seq(Segments) /\ Len(left) = l
      /\ \A i \in 1..l : left[i] = Segment(a[i].record, a[i].at + offset)
  BY <1>3, MovedFacts
<1>5. /\ old \in Seq(Segments) /\ Len(old) = Len(q)
      /\ \A i \in 1..Len(q) : old[i] = Segment(q[i].record, q[i].at + offset)
  BY MovedFacts
<1> HIDE DEF left, old
<1>6. /\ right \in Seq(Segments) /\ Len(right) = l /\ right[l] = Segment(r, s + offset)
      /\ \A i \in 1..Len(q) : right[i] = old[i]
  <2> DEFINE x == Segment(r, s + offset)
  <2>1. x \in Segments
    BY <1>2
  <2> HIDE DEF x
  <2>2. /\ Append(old, x) \in Seq(Segments) /\ Len(Append(old, x)) = Len(old) + 1
        /\ Append(old, x)[Len(old) + 1] = x
        /\ \A i \in 1..Len(old) : Append(old, x)[i] = old[i]
    BY <1>5, <2>1
  <2> QED BY <1>5, <2>2 DEF x
<1> HIDE DEF right
<1>7. \A i \in 1..l : left[i] = right[i]
  <2> SUFFICES ASSUME NEW i \in 1..l
               PROVE  left[i] = right[i]
    OBVIOUS
  <2>1. CASE i = l
    BY <1>1, <1>3, <1>4, <1>6, <2>1
  <2>2. CASE i # l
    <3>1. i \in 1..Len(q)
      BY <1>3, <2>2
    <3> QED BY <1>3, <1>4, <1>5, <1>6, <3>1
  <2> QED BY <2>1, <2>2
<1>8. left = right
  BY <1>4, <1>6, <1>7, SeqEqual
<1> QED BY <1>8 DEF left, right, a, m, old

\* A visit of a window of the suffix is the visit of the window of the whole, moved.
LEMMA StepMoves ==
  ASSUME MInv, NEW scope, NEW tokens \in Seq(Nat), NEW offset \in 0..Len(tokens),
         NEW s \in 0..((Len(tokens) - offset) - Chunk), NEW q \in Seq(Segments)
  PROVE  Step(scope, tokens, offset, Moved(q, offset), offset + s)
           = Moved(Step(scope, Suffix(tokens, offset), 0, q, 0 + s), offset)
<1> DEFINE window == Window(tokens, offset + s)
           key == <<scope, ContentHash(window)>>
           bucket == buckets[key]
           copies == Exact(bucket, window)
           first == bucket[Min(copies)]
           old == Moved(q, offset)
<1>1. offset \in Nat /\ s \in Nat /\ offset + s \in Nat /\ 0 + s = s /\ Chunk \in Nat
      /\ s + offset = offset + s /\ Len(tokens) \in Nat
  BY Parameters
<1>2. Window(Suffix(tokens, offset), 0 + s) = window
  BY <1>1, SuffixWindows
<1>3. offset + s < NextAllowed(old, offset) <=> s < NextAllowed(q, 0)
  <2>1. /\ old \in Seq(Segments) /\ Len(old) = Len(q) /\ Len(q) \in Nat
        /\ \A i \in 1..Len(q) : old[i] = Segment(q[i].record, q[i].at + offset)
                                /\ q[i].at \in Nat
    BY <1>1, MovedFacts
  <2>2. CASE q = <<>>
    <3>1. old = <<>>
      BY <2>1, <2>2
    <3> QED BY <1>1, <2>2, <3>1 DEF NextAllowed
  <2>3. CASE q # <<>>
    <3> DEFINE l == Len(q)
    <3>1. l \in 1..Len(q) /\ old # <<>>
      BY <2>1, <2>3
    <3> HIDE DEF old
    <3>2. NextAllowed(old, offset) = old[l].at + Chunk /\ NextAllowed(q, 0) = q[l].at + Chunk
      BY <2>1, <2>3, <3>1 DEF NextAllowed, Last
    <3>3. old[l].at = q[l].at + offset /\ q[l].at \in Nat
      <4>1. old[l] = Segment(q[l].record, q[l].at + offset) /\ q[l].at \in Nat
        BY <2>1, <3>1
      <4> QED BY <4>1 DEF Segment
    <3> HIDE DEF l
    <3> QED BY <1>1, <3>2, <3>3
  <2> QED BY <2>2, <2>3
<1>4. Step(scope, tokens, offset, old, offset + s) =
        IF key \notin hashes THEN old
        ELSE IF offset + s < NextAllowed(old, offset) \/ copies = {} THEN old
        ELSE Append(old, Segment(first, offset + s))
  BY DEF Step, Visit
<1>5. Step(scope, Suffix(tokens, offset), 0, q, 0 + s) =
        IF key \notin hashes THEN q
        ELSE IF s < NextAllowed(q, 0) \/ copies = {} THEN q
        ELSE Append(q, Segment(first, s))
  BY <1>1, <1>2 DEF Step, Visit
<1>6. ASSUME key \in hashes, copies # {}
      PROVE  first \in Records
  <2>1. bucket \in Seq(Records)
    BY <1>6, KnownBuckets
  <2>2. copies \subseteq DOMAIN bucket /\ DOMAIN bucket \subseteq Nat
    <3> HIDE DEF bucket
    <3> QED BY <2>1 DEF Exact
  <2>3. Min(copies) \in copies
    <3> HIDE DEF copies
    <3> QED BY <1>6, <2>2, MinIsIn
  <2> DEFINE i == Min(copies)
  <2>4. i \in DOMAIN bucket
    BY <2>2, <2>3
  <2> HIDE DEF bucket, i
  <2>5. bucket[i] \in Records
    BY <2>1, <2>4
  <2> QED BY <2>5 DEF i
<1> HIDE DEF key, copies, first
<1>7. CASE key \notin hashes \/ s < NextAllowed(q, 0) \/ copies = {}
  BY <1>3, <1>4, <1>5, <1>7
<1>8. CASE ~(key \notin hashes \/ s < NextAllowed(q, 0) \/ copies = {})
  <2>1. first \in Records
    BY <1>6, <1>8
  <2>2. Moved(Append(q, Segment(first, s)), offset) = Append(old, Segment(first, s + offset))
    BY <1>1, <2>1, MovedAppend
  <2> QED BY <1>1, <1>3, <1>4, <1>5, <1>8, <2>2
<1> QED BY <1>7, <1>8

\* The search of the suffix, moved back, is the search of the whole.
LEMMA SuffixSearch ==
  ASSUME MInv, NEW scope, NEW tokens \in Seq(Nat), NEW offset \in 0..Len(tokens)
  PROVE  LookupMatch(scope, tokens, offset) = Match(scope, tokens, offset)
<1> DEFINE N == Len(tokens) - offset
           w == Suffix(tokens, offset)
<1>1. /\ N \in Nat /\ offset \in Nat /\ Len(tokens) \in Nat /\ Chunk \in Nat /\ Chunk >= 1
      /\ w \in Seq(Nat) /\ Len(w) = N /\ Len(w) - 0 = N /\ 0 \in 0..Len(w)
  BY Parameters, SuffixFacts
<1>2. LookupMatch(scope, tokens, offset) = Moved(Match(scope, w, 0), offset)
  BY DEF LookupMatch, Suffix
<1>3. PICK f \in [0..N -> Seq(Segments)] :
        /\ \A n \in 0..N :
             f[n] = IF n < Chunk THEN <<>>
                    ELSE Step(scope, tokens, offset, f[n - 1], offset + (n - Chunk))
        /\ Match(scope, tokens, offset) = f[N]
  BY MatchVisits
<1>4. PICK g \in [0..N -> Seq(Segments)] :
        /\ \A n \in 0..N :
             g[n] = IF n < Chunk THEN <<>>
                    ELSE Step(scope, w, 0, g[n - 1], 0 + (n - Chunk))
        /\ Match(scope, w, 0) = g[N]
  <2> HIDE DEF w, N
  <2>1. \E g \in [0..(Len(w) - 0) -> Seq(Segments)] :
          /\ \A n \in 0..(Len(w) - 0) :
               g[n] = IF n < Chunk THEN <<>>
                      ELSE Step(scope, w, 0, g[n - 1], 0 + (n - Chunk))
          /\ Match(scope, w, 0) = g[Len(w) - 0]
    BY <1>1, MatchVisits
  <2> QED BY <1>1, <2>1
<1> DEFINE T == {n \in 0..N : f[n] = Moved(g[n], offset)}
<1>5. ASSUME NEW n \in 0..N, n < Chunk
      PROVE  n \in T
  <2>1. f[n] = <<>> /\ g[n] = <<>>
    BY <1>3, <1>4, <1>5
  <2>2. Moved(<<>>, offset) = <<>>
    BY DEF Moved
  <2> QED BY <2>1, <2>2
<1>6. 0 \in T
  BY <1>1, <1>5
<1>7. ASSUME NEW k \in 1..N, k - 1 \in T
      PROVE  k \in T
  <2>1. k \in 0..N /\ k - 1 \in 0..N
    BY <1>1
  <2>2. CASE k < Chunk
    BY <1>5, <2>1, <2>2
  <2>3. CASE ~(k < Chunk)
    <3> DEFINE s == k - Chunk
               q == g[k - 1]
    <3>1. s \in 0..(N - Chunk)
      BY <1>1, <2>3
    <3>2. q \in Seq(Segments) /\ f[k - 1] = Moved(q, offset)
      BY <1>4, <1>7, <2>1
    <3>3. /\ f[k] = Step(scope, tokens, offset, f[k - 1], offset + s)
          /\ g[k] = Step(scope, w, 0, q, 0 + s)
      BY <1>3, <1>4, <2>1, <2>3
    <3> HIDE DEF s, q
    <3>4. Step(scope, tokens, offset, Moved(q, offset), offset + s)
            = Moved(Step(scope, w, 0, q, 0 + s), offset)
      BY <3>1, <3>2, StepMoves
    <3> QED BY <2>1, <3>2, <3>3, <3>4
  <2> QED BY <2>2, <2>3
<1>8. N \in T
  <2> HIDE DEF T
  <2>1. 0..N \subseteq T
    <3> HIDE DEF N
    <3> QED BY <1>1, <1>6, <1>7, UpTo
  <2>2. N \in 0..N
    BY <1>1
  <2> QED BY <2>1, <2>2
<1> QED BY <1>2, <1>3, <1>4, <1>8

\* MatchGreedy holds wherever the indexes agree.
LEMMA SearchesAreGreedy ==
  ASSUME MInv
  PROVE  MatchGreedy
<1> SUFFICES ASSUME NEW scope \in Scopes, NEW p \in Prompts, NEW offset \in 0..Len(p)
             PROVE  LET found  == ToSet(Match(scope, p, offset))
                        Free(s) == \A m \in found : m.at < s => m.at + Chunk <= s
                    IN /\ LookupMatch(scope, p, offset) = Match(scope, p, offset)
                       /\ \A s \in offset..(Len(p) - Chunk) :
                            LET stored == {r \in byId : r.scope = scope /\ r.tokens = Window(p, s)}
                                here   == {m \in found : m.at = s}
                            IN /\ \A m \in here : m.record \in stored /\ Free(s)
                               /\ stored # {} /\ Free(s) => here # {}
  BY DEF MatchGreedy
<1> DEFINE q == Match(scope, p, offset)
           found == ToSet(q)
           Free(s) == \A m \in found : m.at < s => m.at + Chunk <= s
<1>1. p \in Seq(Nat)
  BY PromptAssumption
<1>2. Greedy(scope, p, offset, Len(p), q)
  BY <1>1, MatchIsGreedy
<1>3. LookupMatch(scope, p, offset) = q
  BY <1>1, SuffixSearch
<1> HIDE DEF q
<1>4. /\ q \in Seq(Segments) /\ Len(q) \in Nat /\ DOMAIN q = 1..Len(q)
      /\ \A i \in DOMAIN q :
           q[i].record \in byId /\ q[i].record.scope = scope
           /\ q[i].record.tokens = Window(p, q[i].at)
      /\ \A i, j \in DOMAIN q : i < j => q[i].at + Chunk <= q[j].at
      /\ \A s \in offset..(Len(p) - Chunk) : \A r \in byId :
           r.scope = scope /\ r.tokens = Window(p, s) =>
             \E i \in DOMAIN q : q[i].at <= s /\ s < q[i].at + Chunk
  BY <1>2 DEF Greedy
<1>5. /\ found = {q[i] : i \in DOMAIN q} /\ Chunk \in Nat /\ Chunk >= 1
      /\ \A i \in DOMAIN q : q[i].at \in Nat
  <2>1. \A i \in DOMAIN q : q[i] \in Segments
    BY <1>4
  <2> QED BY <2>1, Parameters DEF ToSet, Segments
<1> HIDE DEF found
<1> SUFFICES ASSUME NEW s \in offset..(Len(p) - Chunk)
             PROVE  LET stored == {r \in byId : r.scope = scope /\ r.tokens = Window(p, s)}
                        here   == {m \in found : m.at = s}
                    IN /\ \A m \in here : m.record \in stored /\ Free(s)
                       /\ stored # {} /\ Free(s) => here # {}
  BY <1>3 DEF found, q
<1> DEFINE stored == {r \in byId : r.scope = scope /\ r.tokens = Window(p, s)}
           here   == {m \in found : m.at = s}
<1>6. s \in Nat
  <2>1. Len(p) \in Nat
    BY <1>1
  <2> QED BY <1>5, <2>1
<1>7. ASSUME NEW m \in here
      PROVE  m.record \in stored /\ Free(s)
  <2>1. PICK j \in DOMAIN q : m = q[j] /\ q[j].at = s
    BY <1>5
  <2>2. m.record \in stored
    BY <1>4, <2>1
  <2>3. ASSUME NEW x \in found, x.at < s
        PROVE  x.at + Chunk <= s
    <3>1. PICK i \in DOMAIN q : x = q[i]
      BY <1>5
    <3>2. i < j
      <4>1. ~(j < i)
        <5> SUFFICES ASSUME j < i
                     PROVE  FALSE
          OBVIOUS
        <5>1. s + Chunk <= q[i].at
          BY <1>4, <2>1
        <5> QED BY <1>5, <1>6, <2>3, <3>1, <5>1
      <4>2. i # j
        BY <1>6, <2>1, <2>3, <3>1
      <4> QED BY <1>4, <4>1, <4>2
    <3> QED BY <1>4, <2>1, <3>1, <3>2
  <2> QED BY <2>2, <2>3
<1>8. ASSUME NEW r \in stored, Free(s)
      PROVE  here # {}
  <2>1. PICK i \in DOMAIN q : q[i].at <= s /\ s < q[i].at + Chunk
    BY <1>4
  <2>2. q[i] \in found /\ q[i].at \in Nat
    BY <1>5
  <2>3. q[i].at = s
    <3>1. ~(q[i].at < s)
      <4> SUFFICES ASSUME q[i].at < s
                   PROVE  FALSE
        OBVIOUS
      <4>1. q[i].at + Chunk <= s
        BY <1>8, <2>2
      <4> QED BY <1>5, <1>6, <2>1, <2>2, <4>1
    <3> QED BY <1>6, <2>1, <2>2, <3>1
  <2> QED BY <2>2, <2>3
<1> QED BY <1>7, <1>8

-----------------------------------------------------------------------------
(* Plans                                                                   *)

\* A function on a finite set has finitely many values.
LEMMA FiniteImage ==
  ASSUME NEW f, IsFiniteSet(DOMAIN f)
  PROVE  IsFiniteSet({f[x] : x \in DOMAIN f})
<1> DEFINE S == DOMAIN f
           T == {f[x] : x \in S}
           g == [x \in S |-> f[x]]
<1>1. g \in Surjection(S, T)
  BY DEF Surjection
<1>2. IsFiniteSet(S)
  OBVIOUS
<1> HIDE DEF g, S, T
<1>3. IsFiniteSet(T)
  BY <1>1, <1>2, FS_Surjection
<1> QED BY <1>3 DEF S, T

Sorted(q) == IsInjective(q) /\ \A i, j \in DOMAIN q : i < j => q[i].at <= q[j].at

\* Finitely many segments can be sorted: the last is one that starts last.
LEMMA OrderedExists ==
  ASSUME NEW S, IsFiniteSet(S), \A x \in S : x.at \in Nat
  PROVE  Ordered(S) \in [1..Cardinality(S) -> S] /\ Sorted(Ordered(S))
<1> DEFINE N == Cardinality(S)
           Can(R) == \E q \in [1..Cardinality(R) -> R] : Sorted(q)
           T == {n \in 0..N : \A R \in SUBSET S : Cardinality(R) = n => Can(R)}
<1>1. N \in Nat
  BY FS_CardinalityType
<1>2. \A R \in SUBSET S : IsFiniteSet(R) /\ Cardinality(R) \in Nat
  <2> SUFFICES ASSUME NEW R \in SUBSET S
               PROVE  IsFiniteSet(R) /\ Cardinality(R) \in Nat
    OBVIOUS
  <2>1. IsFiniteSet(R)
    BY FS_Subset
  <2> QED BY <2>1, FS_CardinalityType
<1>3. 0 \in T
  <2>1. ASSUME NEW R \in SUBSET S, Cardinality(R) = 0
        PROVE  Can(R)
    <3> DEFINE q == [i \in 1..0 |-> i]
    <3>1. 1..0 = {} /\ q \in [1..0 -> R] /\ DOMAIN q = {}
      OBVIOUS
    <3>2. Sorted(q)
      <4> HIDE DEF q
      <4> QED BY <3>1 DEF Sorted, IsInjective
    <3> HIDE DEF q
    <3> QED BY <2>1, <3>1, <3>2
  <2>2. 0 \in 0..N
    BY <1>1
  <2> HIDE DEF Can
  <2> QED BY <2>1, <2>2
<1>4. ASSUME NEW k \in 1..N, k - 1 \in T
      PROVE  k \in T
  <2>1. k \in 0..N /\ k \in Nat /\ k - 1 \in Nat /\ k # 0
    BY <1>1
  <2>2. ASSUME NEW R \in SUBSET S, Cardinality(R) = k
        PROVE  Can(R)
    <3> DEFINE starts == {x.at : x \in R}
    <3>1. R # {} /\ IsFiniteSet(R)
      <4>1. Cardinality({}) = 0
        BY FS_EmptySet
      <4> QED BY <1>2, <2>1, <2>2, <4>1
    <3>2. IsFiniteSet(starts)
      <4> DEFINE f == [x \in R |-> x.at]
      <4>1. starts = {f[x] : x \in R} /\ DOMAIN f = R
        OBVIOUS
      <4> HIDE DEF f, starts
      <4> QED BY <3>1, <4>1, FiniteImage
    <3>3. starts \subseteq Nat /\ starts # {}
      BY <3>1
    <3>4. PICK top \in starts : \A t \in starts : t <= top
      <4> HIDE DEF starts
      <4> QED BY <3>2, <3>3, GreatestElement
    <3>5. PICK m \in R : m.at = top
      BY <3>4
    <3>6. \A x \in R : x.at <= m.at
      BY <3>4, <3>5
    <3>7. R \ {m} \in SUBSET S /\ Cardinality(R \ {m}) = k - 1
      BY <2>2, <3>1, <3>5, FS_RemoveElement
    <3>8. Can(R \ {m})
      <4> HIDE DEF Can
      <4> QED BY <1>4, <3>7
    <3>9. PICK q \in [1..(k - 1) -> R \ {m}] : Sorted(q)
      BY <3>7, <3>8
    <3> DEFINE p == [i \in 1..k |-> IF i = k THEN m ELSE q[i]]
    <3>10. \A i \in 1..k : i \in 1..(k - 1) \/ i = k
      BY <2>1
    <3>11. /\ \A i \in 1..(k - 1) : i \in 1..k /\ i # k /\ i < k
           /\ k \in 1..k
      BY <2>1
    <3>12. p \in [1..k -> R]
      BY <3>5, <3>9, <3>10
    <3>13. p[k] = m /\ \A i \in 1..(k - 1) : p[i] = q[i] /\ q[i] \in R /\ q[i] # m
      BY <3>9, <3>11
    <3> HIDE DEF p
    <3>14. IsInjective(p)
      <4>1. ASSUME NEW i \in 1..k, NEW j \in 1..k, p[i] = p[j]
            PROVE  i = j
        <5>1. CASE i = k \/ j = k
          BY <3>10, <3>13, <4>1, <5>1
        <5>2. CASE i \in 1..(k - 1) /\ j \in 1..(k - 1)
          BY <3>9, <3>13, <4>1, <5>2 DEF Sorted, IsInjective
        <5> QED BY <3>10, <5>1, <5>2
      <4>2. DOMAIN p = 1..k
        BY <3>12
      <4> QED BY <4>1, <4>2 DEF IsInjective
    <3>15. ASSUME NEW i \in 1..k, NEW j \in 1..k, i < j
           PROVE  p[i].at <= p[j].at
      <4>1. i \in 1..(k - 1)
        BY <2>1, <3>15
      <4>2. CASE j = k
        BY <3>6, <3>13, <4>1, <4>2
      <4>3. CASE j \in 1..(k - 1)
        BY <3>9, <3>13, <3>15, <4>1, <4>3 DEF Sorted
      <4> QED BY <3>10, <4>2, <4>3
    <3>16. Sorted(p)
      <4>1. DOMAIN p = 1..k
        BY <3>12
      <4> QED BY <3>14, <3>15, <4>1 DEF Sorted
    <3> QED BY <2>2, <3>12, <3>16
  <2> HIDE DEF Can
  <2> QED BY <2>1, <2>2
<1>5. N \in T
  <2> HIDE DEF T
  <2>1. 0..N \subseteq T
    <3> HIDE DEF N
    <3> QED BY <1>1, <1>3, <1>4, UpTo
  <2>2. N \in 0..N
    BY <1>1
  <2> QED BY <2>1, <2>2
<1>6. Can(S)
  <2> HIDE DEF Can
  <2> QED BY <1>5
<1> QED BY <1>6 DEF Ordered, Sorted

\* A plan of ordered segments that are apart and in the span is accepted.
LEMMA AcceptedIntro ==
  ASSUME NEW q \in Seq(Segments), NEW apc \in Nat, NEW stop \in Nat, apc <= stop, NEW plan,
         plan = [apc |-> apc, segments |-> q, hits |-> HitTokens(q), stop |-> stop],
         \A i \in DOMAIN q : apc <= q[i].at /\ q[i].at + Chunk <= stop,
         \A i, j \in DOMAIN q : i < j => q[i].at + Chunk <= q[j].at
  PROVE  Accepted(plan)
<1>1. plan.segments = q /\ plan.apc = apc /\ plan.stop = stop /\ plan.hits = HitTokens(q)
  OBVIOUS
<1>2. DOMAIN q = 1..Len(q) /\ Len(q) \in Nat
  BY LenProperties
<1>3. \A i \in DOMAIN q : q[i].at \in Nat
  <2>1. \A i \in DOMAIN q : q[i] \in Segments
    OBVIOUS
  <2> QED BY <2>1 DEF Segments
<1>4. ASSUME NEW i \in DOMAIN q
      PROVE  /\ q[i].at >= (IF i = 1 THEN apc ELSE q[i - 1].at + Chunk)
             /\ q[i].at + Chunk <= stop
  <2>1. CASE i = 1
    BY <1>3, <2>1
  <2>2. CASE i # 1
    <3>1. i - 1 \in DOMAIN q /\ i - 1 < i
      BY <1>2, <2>2
    <3>2. q[i - 1].at + Chunk <= q[i].at
      BY <3>1
    <3>3. q[i - 1].at + Chunk \in Nat /\ q[i].at \in Nat
      BY <1>3, <3>1, Parameters
    <3> QED BY <2>2, <3>2, <3>3
  <2> QED BY <2>1, <2>2
<1>5. apc >= 0 /\ stop >= apc
  OBVIOUS
<1> HIDE DEF HitTokens
<1> QED BY <1>1, <1>4, <1>5 DEF Accepted

\* Some of the segments found, once sorted, are still apart and in the span.
LEMMA SomeOfTheSegments ==
  ASSUME NEW scope, NEW tokens, NEW apc \in Nat, NEW e \in Nat, apc <= e, NEW q,
         Greedy(scope, tokens, apc, e, q), NEW S \in SUBSET ToSet(q)
  PROVE  /\ Ordered(S) \in Seq(Segments)
         /\ \A i \in DOMAIN Ordered(S) :
              Ordered(S)[i].at \in Nat /\ apc <= Ordered(S)[i].at /\ Ordered(S)[i].at + Chunk <= e
         /\ \A i, j \in DOMAIN Ordered(S) :
              i < j => Ordered(S)[i].at + Chunk <= Ordered(S)[j].at
<1>1. /\ q \in Seq(Segments) /\ Len(q) \in Nat /\ DOMAIN q = 1..Len(q)
      /\ \A i \in DOMAIN q : apc <= q[i].at /\ q[i].at + Chunk <= e
      /\ \A i, j \in DOMAIN q : i < j => q[i].at + Chunk <= q[j].at
  BY DEF Greedy
<1>2. \A i \in DOMAIN q : q[i] \in Segments /\ q[i].at \in Nat
  <2>1. \A i \in DOMAIN q : q[i] \in Segments
    BY <1>1
  <2> QED BY <2>1 DEF Segments
<1>3. \A x \in S : \E i \in DOMAIN q : x = q[i]
  BY DEF ToSet
<1>4. /\ S \subseteq Segments
      /\ \A x \in S : x.at \in Nat /\ apc <= x.at /\ x.at + Chunk <= e
  BY <1>1, <1>2, <1>3
<1>5. \A x, y \in S : x # y => x.at + Chunk <= y.at \/ y.at + Chunk <= x.at
  <2> SUFFICES ASSUME NEW x \in S, NEW y \in S, x # y
               PROVE  x.at + Chunk <= y.at \/ y.at + Chunk <= x.at
    OBVIOUS
  <2>1. PICK i \in DOMAIN q : x = q[i]
    BY <1>3
  <2>2. PICK j \in DOMAIN q : y = q[j]
    BY <1>3
  <2>3. i < j \/ j < i
    BY <1>1, <2>1, <2>2
  <2> QED BY <1>1, <2>1, <2>2, <2>3
<1>6. IsFiniteSet(S)
  <2>1. IsFiniteSet(DOMAIN q)
    BY <1>1, FS_Interval
  <2>2. IsFiniteSet({q[i] : i \in DOMAIN q})
    BY <2>1, FiniteImage
  <2>3. S \subseteq {q[i] : i \in DOMAIN q}
    BY DEF ToSet
  <2> QED BY <2>2, <2>3, FS_Subset
<1> DEFINE o == Ordered(S)
           n == Cardinality(S)
<1>7. o \in [1..n -> S] /\ Sorted(o) /\ n \in Nat
  BY <1>4, <1>6, OrderedExists, FS_CardinalityType
<1> HIDE DEF o, n
<1>8. DOMAIN o = 1..n /\ \A i \in 1..n : o[i] \in S
  BY <1>7
<1>9. o \in Seq(Segments)
  <2>1. o \in [1..n -> Segments]
    BY <1>4, <1>7
  <2> QED BY <1>7, <2>1
<1>10. \A i \in DOMAIN o : o[i].at \in Nat /\ apc <= o[i].at /\ o[i].at + Chunk <= e
  BY <1>4, <1>8
<1>11. ASSUME NEW i \in DOMAIN o, NEW j \in DOMAIN o, i < j
       PROVE  o[i].at + Chunk <= o[j].at
  <2>1. o[i].at <= o[j].at /\ o[i] # o[j]
    <3>1. i # j
      BY <1>7, <1>8, <1>11
    <3> QED BY <1>7, <1>11, <3>1 DEF Sorted, IsInjective
  <2>2. o[i].at + Chunk <= o[j].at \/ o[j].at + Chunk <= o[i].at
    BY <1>5, <1>8, <2>1
  <2>3. o[i].at \in Nat /\ o[j].at \in Nat
    BY <1>10
  <2> QED BY <2>1, <2>2, <2>3, Parameters
<1> QED BY <1>9, <1>10, <1>11 DEF o

\* PlanAccepted holds wherever the indexes agree.
LEMMA PlansAccepted ==
  ASSUME MInv
  PROVE  PlanAccepted
<1> SUFFICES ASSUME NEW scope \in Scopes, NEW p \in Prompts, NEW apc \in 0..(Len(p) - 1),
                    NEW S \in SUBSET ToSet(LookupMatch(scope, Searched(p), apc))
             PROVE  LET plan == PlanOf(apc, S) IN
                    /\ Accepted(plan) /\ Accepted(Extended(plan, p))
                    /\ {plan.stop, Extended(plan, p).stop} \subseteq apc..(Len(p) - 1)
  BY DEF PlanAccepted
<1> DEFINE e == Len(p) - 1
           tokens == Searched(p)
           o == Ordered(S)
           plan == PlanOf(apc, S)
           more == Extended(plan, p)
           stop == IF o = <<>> THEN apc ELSE Last(o).at + Chunk
<1>1. p \in Seq(Nat) /\ Len(p) \in Nat /\ e \in Nat /\ apc \in Nat /\ apc <= e
  BY PromptAssumption
<1>2. tokens \in Seq(Nat) /\ Len(tokens) = e
  <2>1. 1 \in Int /\ e \in Int /\ \A i \in 1..e : p[i] \in Nat
    BY <1>1
  <2>2. /\ SubSeq(p, 1, e) \in Seq(Nat)
        /\ Len(SubSeq(p, 1, e)) = IF 1 <= e THEN e - 1 + 1 ELSE 0
    <3> DEFINE one == 1
    <3>1. one \in Int /\ \A i \in one..e : p[i] \in Nat
      BY <2>1
    <3> HIDE DEF one, e
    <3>2. /\ SubSeq(p, one, e) \in Seq(Nat)
          /\ Len(SubSeq(p, one, e)) = IF one <= e THEN e - one + 1 ELSE 0
      BY <2>1, <3>1, SubSeqProperties
    <3> QED BY <3>2 DEF one
  <2>3. (IF 1 <= e THEN e - 1 + 1 ELSE 0) = e
    <3> HIDE DEF e
    <3> QED BY <1>1
  <2> QED BY <2>2, <2>3 DEF Searched
<1>3. LookupMatch(scope, tokens, apc) = Match(scope, tokens, apc)
  <2> HIDE DEF tokens
  <2> QED BY <1>1, <1>2, SuffixSearch
<1>4. Greedy(scope, tokens, apc, e, Match(scope, tokens, apc))
  <2> HIDE DEF tokens
  <2> QED BY <1>1, <1>2, MatchIsGreedy
<1>5. S \in SUBSET ToSet(Match(scope, tokens, apc))
  BY <1>3
<1> HIDE DEF tokens, e
<1>6. /\ o \in Seq(Segments)
      /\ \A i \in DOMAIN o : o[i].at \in Nat /\ apc <= o[i].at /\ o[i].at + Chunk <= e
      /\ \A i, j \in DOMAIN o : i < j => o[i].at + Chunk <= o[j].at
  BY <1>1, <1>4, <1>5, SomeOfTheSegments
<1> HIDE DEF o
<1>7. /\ stop \in Nat /\ apc <= stop /\ stop <= e
      /\ \A i \in DOMAIN o : o[i].at + Chunk <= stop
  <2>1. CASE o = <<>>
    BY <1>1, <2>1
  <2>2. CASE o # <<>>
    <3> DEFINE l == Len(o)
    <3>1. l \in DOMAIN o /\ DOMAIN o = 1..l /\ l \in Nat
      <4>1. DOMAIN o = 1..l /\ l \in Nat
        BY <1>6, LenProperties
      <4>2. l # 0
        BY <1>6, <2>2
      <4> QED BY <4>1, <4>2
    <3>2. stop = o[l].at + Chunk
      BY <2>2 DEF Last
    <3> HIDE DEF l, stop
    <3>3. stop \in Nat /\ apc <= stop /\ stop <= e
      BY <1>1, <1>6, <3>1, <3>2, Parameters
    <3>4. ASSUME NEW i \in DOMAIN o
          PROVE  o[i].at + Chunk <= stop
      <4>1. CASE i = l
        BY <3>2, <3>3, <4>1
      <4>2. CASE i # l
        <5>1. i < l
          BY <3>1, <4>2
        <5>2. o[i].at + Chunk <= o[l].at /\ o[i].at \in Nat /\ o[l].at \in Nat
          BY <1>6, <3>1, <5>1
        <5> QED BY <3>2, <5>2, Parameters
      <4> QED BY <4>1, <4>2
    <3> QED BY <3>3, <3>4
  <2> QED BY <2>1, <2>2
<1>8. plan = [apc |-> apc, segments |-> o, hits |-> HitTokens(o), stop |-> stop]
  BY DEF PlanOf, o
<1> HIDE DEF plan, stop
<1>9. Accepted(plan) /\ plan.stop = stop
  <2>1. Accepted(plan)
    BY <1>1, <1>6, <1>7, <1>8, AcceptedIntro
  <2> QED BY <1>8, <2>1
<1>10. Accepted(more) /\ more.stop \in apc..e
  <2>1. CASE o = <<>>
    <3>1. more = plan
      BY <1>8, <2>1 DEF Extended
    <3> QED BY <1>1, <1>7, <1>9, <3>1
  <2>2. CASE o # <<>>
    <3>1. more = [apc |-> apc, segments |-> o, hits |-> HitTokens(o), stop |-> e]
      BY <1>8, <2>2 DEF Extended, e
    <3> HIDE DEF more
    <3>2. Accepted(more)
      BY <1>1, <1>6, <3>1, AcceptedIntro
    <3> QED BY <1>1, <3>1, <3>2
  <2> QED BY <2>1, <2>2
<1>11. stop \in apc..e
  BY <1>1, <1>7
<1> QED BY <1>9, <1>10, <1>11 DEF plan, e

-----------------------------------------------------------------------------
(* The theorems                                                            *)

\* The invariant: buckets are sequences of records, and the indexes agree.
THEOREM IndexInvariant == Spec => []MInv
<1>1. Init => MInv
  <2> SUFFICES ASSUME Init
               PROVE  MInv
    OBVIOUS
  <2>1. <<>> \in Seq(Records) /\ DOMAIN <<>> = {}
    OBVIOUS
  <2> QED BY <2>1 DEF Init, MInv, IndexesAgree, ToSet, IsInjective
<1>2. MInv /\ [Next]_vars => MInv'
  <2> SUFFICES ASSUME MInv, [Next]_vars
               PROVE  MInv'
    OBVIOUS
  <2>1. ASSUME NEW r \in Records, Register(r) \/ Unregister(r)
        PROVE  MInv'
    BY <2>1, RegisterKeeps, UnregisterKeeps
  <2>2. CASE UNCHANGED vars
    BY <2>2 DEF vars, MInv, IndexesAgree
  <2> QED BY <2>1, <2>2 DEF Next
<1> QED BY <1>1, <1>2, PTL DEF Spec

\* The three indexes have the same records after any registrations, replacements and
\* removals, whatever collides (matcher.py:53-78).
THEOREM IndexesAlwaysAgree == Spec => []IndexesAgree
<1>1. MInv => IndexesAgree
  BY DEF MInv
<1> QED BY <1>1, IndexInvariant, PTL

\* A search finds exact copies, apart and in order, and misses what is stored only
\* where it overlaps an earlier match; a search of the suffix finds the same.  Hashes
\* do not show (matcher.py:80-125, hashing.py:18-53, ipc.py:219-236).
THEOREM SearchesStayGreedy == Spec => []MatchGreedy
<1>1. MInv => MatchGreedy
  BY SearchesAreGreedy
<1> QED BY <1>1, IndexInvariant, PTL

\* Whatever the ranks have in common of what was found makes a plan that
\* BlendPlan accepts and that leaves the last token of the prompt (types.py:83-117,
\* connector.py:639-673).
THEOREM PlansStayAccepted == Spec => []PlanAccepted
<1>1. MInv => PlanAccepted
  BY PlansAccepted
<1> QED BY <1>1, IndexInvariant, PTL

=============================================================================
