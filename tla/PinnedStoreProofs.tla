------------------------- MODULE PinnedStoreProofs -------------------------
(***************************************************************************)
(* Proofs about PinnedStore, for any number of segments, layers, requests, *)
(* plan positions and any memory limit.                                    *)
(*                                                                         *)
(* IInv is inductive.  An action changes an entry in one of two ways: it   *)
(* removes entries that nothing pins (RemovalKeepsIInv), or it edits the   *)
(* entry it is called for.  Eviction below the limit removes nothing       *)
(* (NoVictims), so release and pin only move pins.                         *)
(***************************************************************************)
EXTENDS PinnedStore, SharedFacts

-----------------------------------------------------------------------------
(* Finite sets                                                             *)

LEMMA PairsFinite == IsFiniteSet(Pairs) /\ IsFiniteSet(Pins)
<1>1. IsFiniteSet(Pairs)
  BY SegAssumption, LayerAssumption, FS_Product DEF Pairs
<1>2. IsFiniteSet(Seg \X Target)
  BY SegAssumption, TargetAssumption, FS_Product
<1> DEFINE f == [p \in Pins |-> <<p[1], <<p[2], p[3]>>>>]
<1>3. IsFiniteSet(Req \X (Seg \X Target))
  BY <1>2, ReqAssumption, FS_Product
<1>4. f \in [Pins -> Req \X (Seg \X Target)]
  BY DEF Pins
<1>5. ASSUME NEW p \in Pins, NEW q \in Pins, f[p] = f[q]
      PROVE  p = q
  BY <1>5 DEF Pins
<1> HIDE DEF f
<1>6. f \in Injection(Pins, Req \X (Seg \X Target))
  BY <1>4, <1>5 DEF Injection, IsInjective
<1>7. IsFiniteSet(Pins)
  BY <1>3, <1>6, FS_Injection
<1> QED BY <1>1, <1>7

LEMMA OutsideCardinality ==
  ASSUME NEW R, NEW S, IsFiniteSet(R)
  PROVE  /\ IsFiniteSet(Of(R, S)) /\ IsFiniteSet(Outside(R, S))
         /\ Cardinality(Of(R, S)) \in Nat
         /\ Cardinality(Outside(R, S)) = Cardinality(R) - Cardinality(Of(R, S))
<1>1. /\ Of(R, S) \subseteq R /\ Outside(R, S) \subseteq R
      /\ Of(R, S) \cup Outside(R, S) = R
      /\ Of(R, S) \cap Outside(R, S) = {}
  BY DEF Of, Outside
<1>2. IsFiniteSet(Of(R, S)) /\ IsFiniteSet(Outside(R, S))
  BY <1>1, FS_Subset
<1>3. /\ Cardinality(R) = Cardinality(Of(R, S)) + Cardinality(Outside(R, S))
      /\ Cardinality(Of(R, S)) \in Nat /\ Cardinality(Outside(R, S)) \in Nat
  BY <1>1, <1>2, DisjointUnion
<1> QED BY <1>2, <1>3

-----------------------------------------------------------------------------
(* The state between steps                                                 *)

LEMMA FiniteState ==
  ASSUME TypeOK
  PROVE  /\ IsFiniteSet(stored) /\ IsFiniteSet(requestPins)
         /\ \A S : Size(S) \in Nat
<1>1. stored \subseteq Pairs /\ requestPins \subseteq Pins
  BY DEF TypeOK, Pairs
<1>2. IsFiniteSet(stored) /\ IsFiniteSet(requestPins)
  BY <1>1, PairsFinite, FS_Subset
<1> QED BY <1>2, OutsideCardinality DEF Size

\* Only committed entries without readers are evicted, never the excluded one.
LEMMA VictimsAreFree ==
  ASSUME NEW required, NEW exclude, NEW count
  PROVE  /\ Victims(required, exclude, count) \subseteq (live \cap committed) \ exclude
         /\ \A s \in Victims(required, exclude, count) : count[s] = 0
BY DEF Victims

\* Within the limit nothing is evicted.
LEMMA NoVictims ==
  ASSUME TypeOK, MemoryBound, NEW exclude, NEW count
  PROVE  Victims(0, exclude, count) = {}
<1> SUFFICES ASSUME NEW s \in Victims(0, exclude, count)
             PROVE  FALSE
  OBVIOUS
<1>1. PICK S : bytes - Size(S) + 0 > MaxUnits
  BY DEF Victims
<1>2. Size(S) \in Nat /\ bytes \in Nat /\ bytes <= MaxUnits
  BY FiniteState DEF TypeOK, MemoryBound
<1> QED BY <1>1, <1>2, MaxAssumption

\* An entry whose counter is zero has no reader.
LEMMA UncountedIsUnpinned ==
  ASSUME TypeOK, PinAccounting, NEW s \in Seg, pinCount[s] = 0
  PROVE  PinsOn(requestPins, s) = {}
<1>1. PinsOn(requestPins, s) \subseteq requestPins
  BY DEF PinsOn
<1>2. IsFiniteSet(PinsOn(requestPins, s))
  BY <1>1, FiniteState, FS_Subset
<1>3. Cardinality(PinsOn(requestPins, s)) = 0
  BY DEF PinAccounting
<1> QED BY <1>2, <1>3, FS_EmptySet

\* Removing entries that nothing pins, while the other failed entries keep a
\* reservation, keeps the invariant.
LEMMA RemovalKeepsIInv ==
  ASSUME IInv,
         NEW gone \in SUBSET live, NEW left \in SUBSET reserved,
         NEW marked \in SUBSET live,
         \A s \in gone : pinCount[s] = 0,
         \A s \in marked : s \notin committed,
         \A s \in marked \ gone : Of(left, {s}) # {},
         RemoveEntries(gone, left, marked),
         pinCount' = Unpin(gone),
         requestPins' = requestPins
  PROVE  IInv'
<1> USE DEF IInv
<1>1. /\ live' = live \ gone
      /\ stored' = Outside(stored, gone)
      /\ reserved' = Outside(left, gone)
      /\ committed' = committed \ gone
      /\ failed' = marked \ gone
      /\ index' = index \ gone
      /\ bytes' = bytes - Size(gone)
      /\ older' \subseteq older
      /\ \A p \in older' : p[1] \notin gone /\ p[2] \notin gone
  BY DEF RemoveEntries
<1>2. \A s \in gone : PinsOn(requestPins, s) = {}
  BY UncountedIsUnpinned DEF TypeOK
<1>3. pinCount' = pinCount
  BY DEF Unpin, TypeOK
<1>4. bytes' = Cardinality(stored') /\ bytes' \in Nat /\ bytes' <= bytes
  <2>1. Cardinality(stored') = Cardinality(stored) - Size(gone)
    BY <1>1, FiniteState, OutsideCardinality DEF Size
  <2>2. Cardinality(stored') \in Nat
    BY <1>1, FiniteState, OutsideCardinality, FS_CardinalityType
  <2>3. Size(gone) \in Nat /\ bytes \in Nat
    BY FiniteState DEF TypeOK
  <2> QED BY <1>1, <2>1, <2>2, <2>3 DEF MemoryBound
<1>5. TypeOK'
  BY <1>1, <1>3, <1>4 DEF TypeOK, Outside
<1>6. PinnedReadable'
  <2> SUFFICES ASSUME NEW p \in requestPins
               PROVE  /\ p[2] \in live' \cap committed'
                      /\ \A l \in Layer : <<p[2], l>> \in stored'
    BY DEF PinnedReadable
  <2>1. p[2] \notin gone
    BY <1>2 DEF PinsOn
  <2> QED BY <1>1, <2>1 DEF PinnedReadable, Outside
<1>7. PinAccounting'
  BY <1>3 DEF PinAccounting
<1>8. MemoryBound'
  BY <1>4, MaxAssumption DEF MemoryBound, TypeOK
<1>9. IndexExact'
  BY <1>1 DEF IndexExact, Outside
<1>10. FailedInFlight'
  BY <1>1 DEF FailedInFlight, Outside, Of
<1>11. Bookkeeping'
  BY <1>1, <1>2, <1>3 DEF Bookkeeping, Outside
<1> QED BY <1>5, <1>6, <1>7, <1>8, <1>9, <1>10, <1>11

-----------------------------------------------------------------------------
(* One lemma for each group of actions                                     *)

\* The entry s, failed now, goes exactly when nothing is in flight for it.
LEMMA DiscardFacts ==
  ASSUME IInv, NEW s \in live, NEW left \in SUBSET reserved,
         NEW marked \in SUBSET live,
         \A x \in marked : x \notin committed,
         \A x \in marked \ {s} : Of(left, {x}) # {}
  PROVE  /\ Discardable(s, left, marked) \subseteq live
         /\ \A x \in Discardable(s, left, marked) : pinCount[x] = 0
         /\ \A x \in marked \ Discardable(s, left, marked) : Of(left, {x}) # {}
<1>1. CASE s \in marked
  <2>1. PinsOn(requestPins, s) = {}
    BY <1>1 DEF PinsOn, PinnedReadable, IInv
  <2>2. pinCount[s] = 0
    <3>1. s \in Seg
      BY DEF IInv, TypeOK
    <3> QED BY <2>1, <3>1, FS_EmptySet DEF PinAccounting, IInv
  <2> QED BY <1>1, <2>2 DEF Discardable
<1>2. CASE s \notin marked
  BY <1>2 DEF Discardable
<1> QED BY <1>1, <1>2

\* Giving up a reservation of s leaves those of the others alone.
LEMMA OtherReservations ==
  ASSUME NEW s, NEW l, NEW x, x # s, Of(reserved, {x}) # {}
  PROVE  Of(reserved \ {<<s, l>>}, {x}) # {}
<1>1. PICK p \in reserved : p[1] = x
  BY DEF Of
<1>2. p # <<s, l>>
  BY <1>1
<1> QED BY <1>1, <1>2 DEF Of

LEMMA InitIInv == Init => IInv
<1> SUFFICES ASSUME Init PROVE IInv
  OBVIOUS
<1>1. \A s \in Seg : PinsOn(requestPins, s) = {}
  BY DEF Init, PinsOn
<1> USE DEF Init
<1>2. TypeOK
  BY DEF TypeOK
<1>3. PinAccounting
  BY <1>1, FS_EmptySet DEF PinAccounting
<1>4. MemoryBound
  BY FS_EmptySet, MaxAssumption DEF MemoryBound
<1>5. PinnedReadable /\ IndexExact /\ FailedInFlight /\ Bookkeeping
  BY DEF PinnedReadable, IndexExact, FailedInFlight, Bookkeeping
<1> QED BY <1>2, <1>3, <1>4, <1>5 DEF IInv

\* The actions that only reorder the entries or change a reservation.
LEMMA BeginPutKeepsIInv ==
  ASSUME IInv, NEW s \in Seg, BeginPut(s)
  PROVE  IInv'
<1> USE DEF IInv
<1>1. /\ live' = live \cup {s} /\ older' \subseteq live' \X live'
      /\ UNCHANGED <<stored, reserved, committed, failed, pinCount,
                     requestPins, bytes, index>>
  BY DEF BeginPut, TouchOne
<1>2. TypeOK'
  BY <1>1 DEF TypeOK
<1>3. PinnedReadable' /\ PinAccounting' /\ MemoryBound' /\ FailedInFlight'
  BY <1>1 DEF PinnedReadable, PinAccounting, MemoryBound, FailedInFlight
<1>4. IndexExact'
  <2>1. PICK l : l \in Layer
    BY LayerAssumption
  <2>2. s \notin live => <<s, l>> \notin stored
    BY DEF TypeOK
  <2> QED BY <1>1, <2>1, <2>2 DEF IndexExact
<1>5. Bookkeeping'
  BY <1>1 DEF Bookkeeping
<1> QED BY <1>2, <1>3, <1>4, <1>5

LEMMA ReorderKeepsIInv ==
  ASSUME IInv, older' \subseteq live \X live,
         UNCHANGED <<live, stored, reserved, committed, failed, pinCount,
                     requestPins, bytes, index>>
  PROVE  IInv'
BY DEF IInv, TypeOK, PinnedReadable, PinAccounting, MemoryBound, IndexExact,
       FailedInFlight, Bookkeeping

LEMMA ReserveKeepsIInv ==
  ASSUME IInv, NEW s \in Seg, NEW l \in Layer, ReserveLayer(s, l)
  PROVE  IInv'
<1> USE DEF IInv
<1>1. /\ s \in live \ failed /\ <<s, l>> \notin stored
      /\ reserved' = reserved \cup {<<s, l>>}
      /\ UNCHANGED <<live, older, stored, committed, failed, pinCount,
                     requestPins, bytes, index>>
  BY DEF ReserveLayer
<1>2. TypeOK'
  BY <1>1 DEF TypeOK
<1>3. PinnedReadable' /\ PinAccounting' /\ MemoryBound' /\ IndexExact'
  BY <1>1 DEF PinnedReadable, PinAccounting, MemoryBound, IndexExact
<1>4. FailedInFlight' /\ Bookkeeping'
  BY <1>1 DEF FailedInFlight, Bookkeeping, Of
<1> QED BY <1>2, <1>3, <1>4

LEMMA PutIgnoredKeepsIInv ==
  ASSUME IInv, NEW s \in Seg, NEW l \in Layer, PutIgnored(s, l)
  PROVE  IInv'
<1> USE DEF IInv
<1>1. /\ s \in committed /\ reserved' = reserved \ {<<s, l>>}
      /\ UNCHANGED <<live, older, stored, committed, failed, pinCount,
                     requestPins, bytes, index>>
  BY DEF PutIgnored
<1>2. TypeOK'
  BY <1>1 DEF TypeOK
<1>3. PinnedReadable' /\ PinAccounting' /\ MemoryBound' /\ IndexExact'
  BY <1>1 DEF PinnedReadable, PinAccounting, MemoryBound, IndexExact
<1>4. FailedInFlight'
  BY <1>1, OtherReservations DEF FailedInFlight
<1>5. Bookkeeping'
  BY <1>1 DEF Bookkeeping
<1> QED BY <1>2, <1>3, <1>4, <1>5

\* The actions that fail an entry.
LEMMA CancelKeepsIInv ==
  ASSUME IInv, NEW s \in Seg, NEW l \in Layer, CancelLayer(s, l)
  PROVE  IInv'
<1> DEFINE left   == reserved \ {<<s, l>>}
           marked == IF s \in committed THEN failed ELSE failed \cup {s}
<1>1. s \in live /\ left \subseteq reserved /\ marked \subseteq live
  BY DEF CancelLayer, IInv, TypeOK
<1>2. \A x \in marked : x \notin committed
  BY DEF IInv, FailedInFlight
<1>3. \A x \in marked \ {s} : Of(left, {x}) # {}
  BY OtherReservations DEF IInv, FailedInFlight
<1>4. /\ RemoveEntries(Discardable(s, left, marked), left, marked)
      /\ pinCount' = Unpin(Discardable(s, left, marked))
      /\ requestPins' = requestPins
  BY DEF CancelLayer
<1> HIDE DEF left, marked
<1>5. /\ Discardable(s, left, marked) \subseteq live
      /\ \A x \in Discardable(s, left, marked) : pinCount[x] = 0
      /\ \A x \in marked \ Discardable(s, left, marked) : Of(left, {x}) # {}
  BY <1>1, <1>2, <1>3, DiscardFacts
<1> QED BY <1>1, <1>2, <1>4, <1>5, RemovalKeepsIInv

LEMMA PutRejectedKeepsIInv ==
  ASSUME IInv, NEW s \in Seg, NEW l \in Layer, PutRejected(s, l)
  PROVE  IInv'
<1> DEFINE left == reserved \ {<<s, l>>}
<1>1. s \in live /\ left \subseteq reserved /\ failed \subseteq live
  BY DEF PutRejected, IInv, TypeOK
<1>2. \A x \in failed : x \notin committed
  BY DEF IInv, FailedInFlight
<1>3. \A x \in failed \ {s} : Of(left, {x}) # {}
  BY OtherReservations DEF IInv, FailedInFlight
<1>4. /\ RemoveEntries(Discardable(s, left, failed), left, failed)
      /\ pinCount' = Unpin(Discardable(s, left, failed))
      /\ requestPins' = requestPins
  BY DEF PutRejected
<1> HIDE DEF left
<1>5. /\ Discardable(s, left, failed) \subseteq live
      /\ \A x \in Discardable(s, left, failed) : pinCount[x] = 0
      /\ \A x \in failed \ Discardable(s, left, failed) : Of(left, {x}) # {}
  BY <1>1, <1>2, <1>3, DiscardFacts
<1> QED BY <1>1, <1>2, <1>4, <1>5, RemovalKeepsIInv

LEMMA PutOverCapKeepsIInv ==
  ASSUME IInv, NEW s \in Seg, NEW l \in Layer, PutOverCap(s, l)
  PROVE  IInv'
<1> DEFINE left   == reserved \ {<<s, l>>}
           marked == failed \cup {s}
           gone   == EvictedFor(s, l) \cup Discardable(s, left, marked)
<1>1. s \in live /\ left \subseteq reserved /\ marked \subseteq live
  BY DEF PutOverCap, IInv, TypeOK
<1>2. \A x \in marked : x \notin committed
  BY DEF IInv, FailedInFlight, PutOverCap
<1>3. \A x \in marked \ {s} : Of(left, {x}) # {}
  BY OtherReservations DEF IInv, FailedInFlight
<1>4. RemoveEntries(gone, left, marked) /\ pinCount' = Unpin(gone) /\ requestPins' = requestPins
  BY DEF PutOverCap
<1> HIDE DEF left, marked
<1>5. /\ Discardable(s, left, marked) \subseteq live
      /\ \A x \in Discardable(s, left, marked) : pinCount[x] = 0
      /\ \A x \in marked \ Discardable(s, left, marked) : Of(left, {x}) # {}
  BY <1>1, <1>2, <1>3, DiscardFacts
<1>6. EvictedFor(s, l) \subseteq live /\ \A x \in EvictedFor(s, l) : pinCount[x] = 0
  BY VictimsAreFree DEF EvictedFor
<1>7. /\ gone \subseteq live
      /\ \A x \in gone : pinCount[x] = 0
      /\ \A x \in marked \ gone : Of(left, {x}) # {}
  BY <1>5, <1>6
<1> HIDE DEF gone
<1> QED BY <1>1, <1>2, <1>4, <1>7, RemovalKeepsIInv

LEMMA AbortKeepsIInv ==
  ASSUME IInv, NEW s \in Seg, AbortPut(s)
  PROVE  IInv'
<1> DEFINE marked == failed \cup {s}
<1>1. s \in live /\ marked \subseteq live
  BY DEF AbortPut, IInv, TypeOK
<1>2. \A x \in marked : x \notin committed
  BY DEF IInv, FailedInFlight, AbortPut
<1>3. \A x \in marked \ {s} : Of(reserved, {x}) # {}
  BY DEF IInv, FailedInFlight
<1>4. /\ RemoveEntries(Discardable(s, reserved, marked), reserved, marked)
      /\ pinCount' = Unpin(Discardable(s, reserved, marked))
      /\ requestPins' = requestPins
  BY DEF AbortPut
<1> HIDE DEF marked
<1>5. /\ Discardable(s, reserved, marked) \subseteq live
      /\ \A x \in Discardable(s, reserved, marked) : pinCount[x] = 0
      /\ \A x \in marked \ Discardable(s, reserved, marked) :
           Of(reserved, {x}) # {}
  BY <1>1, <1>2, <1>3, DiscardFacts
<1> QED BY <1>1, <1>2, <1>4, <1>5, RemovalKeepsIInv

-----------------------------------------------------------------------------
(* Storing a layer                                                         *)

LEMMA PutStoredKeepsIInv ==
  ASSUME IInv, NEW s \in Seg, NEW l \in Layer, PutStored(s, l)
  PROVE  IInv'
<1> USE DEF IInv
<1> DEFINE gone  == EvictedFor(s, l)
           fresh == IF Completes(s, l) THEN {s} ELSE {}
<1>1. /\ s \in live /\ s \notin failed /\ s \notin committed
      /\ live' = live \ gone
      /\ stored' = Outside(stored, gone) \cup {<<s, l>>}
      /\ reserved' = Outside(reserved, gone) \ {<<s, l>>}
      /\ committed' = (committed \ gone) \cup fresh
      /\ failed' = failed \ gone
      /\ index' = (index \ gone) \cup fresh
      /\ pinCount' = Unpin(gone)
      /\ bytes' = bytes - Size(gone) + Growth(s, l)
      /\ requestPins' = requestPins
      /\ bytes - Size(gone) + Growth(s, l) <= MaxUnits
  BY DEF PutStored, Fits
<1>2. older' \subseteq live' \X live'
  BY DEF PutStored, TouchOne
<1>3. /\ gone \subseteq live \cap committed /\ s \notin gone
      /\ \A x \in gone : pinCount[x] = 0
  BY <1>1, VictimsAreFree DEF EvictedFor
<1>4. fresh \subseteq {s} /\ (s \in fresh <=> Completes(s, l))
  OBVIOUS
<1> HIDE DEF gone, fresh
<1>5. \A x \in gone : PinsOn(requestPins, x) = {}
  BY <1>3, UncountedIsUnpinned DEF TypeOK
<1>6. pinCount' = pinCount
  BY <1>1, <1>3 DEF Unpin, TypeOK
<1>7. bytes' = Cardinality(stored') /\ bytes' \in Nat
  <2>1. /\ IsFiniteSet(Outside(stored, gone))
        /\ Cardinality(Outside(stored, gone)) = Cardinality(stored) - Size(gone)
    BY FiniteState, OutsideCardinality DEF Size
  <2>2. Cardinality(Outside(stored, gone)) \in Nat
    BY <2>1, FS_CardinalityType
  <2>3. Cardinality(stored') = IF <<s, l>> \in Outside(stored, gone)
                               THEN Cardinality(Outside(stored, gone))
                               ELSE Cardinality(Outside(stored, gone)) + 1
    BY <1>1, <2>1, FS_AddElement
  <2>4. <<s, l>> \in Outside(stored, gone) <=> <<s, l>> \in stored
    BY <1>3 DEF Outside
  <2>5. bytes' = Cardinality(Outside(stored, gone)) + Growth(s, l)
    BY <1>1, <2>1 DEF MemoryBound
  <2> QED BY <2>2, <2>3, <2>4, <2>5 DEF Growth
<1>8. TypeOK'
  BY <1>1, <1>2, <1>3, <1>4, <1>6, <1>7 DEF TypeOK, Outside
<1>9. PinnedReadable'
  <2> SUFFICES ASSUME NEW p \in requestPins
               PROVE  /\ p[2] \in live' \cap committed'
                      /\ \A k \in Layer : <<p[2], k>> \in stored'
    BY <1>1 DEF PinnedReadable
  <2>1. p[2] \notin gone
    BY <1>5 DEF PinsOn
  <2> QED BY <1>1, <2>1 DEF PinnedReadable, Outside
<1>10. PinAccounting' /\ MemoryBound'
  BY <1>1, <1>6, <1>7 DEF PinAccounting, MemoryBound
<1>11. IndexExact'
  <2>1. \A x \in live \ gone : x # s =>
          \A k \in Layer : <<x, k>> \in stored' <=> <<x, k>> \in stored
    BY <1>1 DEF Outside
  <2>2. \A k \in Layer : <<s, k>> \in stored' <=> <<s, k>> \in stored \cup {<<s, l>>}
    BY <1>1, <1>3 DEF Outside
  <2> QED BY <1>1, <1>3, <1>4, <2>1, <2>2 DEF IndexExact, Completes
<1>12. FailedInFlight'
  <2> SUFFICES ASSUME NEW x \in failed'
               PROVE  x \notin committed' /\ Of(reserved', {x}) # {}
    BY DEF FailedInFlight
  <2>1. x \in failed /\ x \notin gone /\ x # s
    BY <1>1
  <2>2. PICK p \in reserved : p[1] = x
    BY <2>1 DEF FailedInFlight, Of
  <2>3. p \in reserved' /\ p \in Of(reserved', {x})
    BY <1>1, <2>1, <2>2 DEF Outside, Of
  <2> QED BY <1>1, <1>4, <2>1, <2>3 DEF FailedInFlight
<1>13. Bookkeeping'
  BY <1>1, <1>3, <1>6 DEF Bookkeeping, Outside
<1> QED BY <1>8, <1>9, <1>10, <1>11, <1>12, <1>13

-----------------------------------------------------------------------------
(* Pins                                                                    *)

\* Without the pins of r, the counters are the releases' result.
LEMMA ReleasedCounts ==
  ASSUME IInv, NEW r \in Req
  PROVE  /\ Released(r) \in [Seg -> Nat]
         /\ \A s \in Seg :
              /\ Released(r)[s]
                   = Cardinality(PinsOn(requestPins \ PinsOf(requestPins, r), s))
              /\ s \notin live => Released(r)[s] = 0
<1> USE DEF IInv
<1> SUFFICES ASSUME NEW s \in Seg
             PROVE  /\ Released(r)[s] \in Nat
                    /\ Released(r)[s]
                         = Cardinality(PinsOn(requestPins \ PinsOf(requestPins, r), s))
                    /\ s \notin live => Released(r)[s] = 0
  BY DEF Released
<1> DEFINE A == PinsOn(PinsOf(requestPins, r), s)
           B == PinsOn(requestPins \ PinsOf(requestPins, r), s)
<1>1. /\ A \subseteq requestPins /\ B \subseteq requestPins
      /\ A \cap B = {} /\ A \cup B = PinsOn(requestPins, s)
  BY DEF PinsOn, PinsOf
<1>2. IsFiniteSet(A) /\ IsFiniteSet(B)
  BY <1>1, FiniteState, FS_Subset
<1>3. Released(r)[s] = IF s \in live /\ pinCount[s] > Cardinality(A)
                       THEN pinCount[s] - Cardinality(A) ELSE 0
  BY DEF Released
<1> HIDE DEF A, B
<1>4. /\ pinCount[s] = Cardinality(A) + Cardinality(B)
      /\ Cardinality(A) \in Nat /\ Cardinality(B) \in Nat
  BY <1>1, <1>2, DisjointUnion DEF PinAccounting
<1>5. s \notin live => pinCount[s] = 0
  BY DEF Bookkeeping
<1>6. Released(r)[s] = Cardinality(B)
  BY <1>3, <1>4, <1>5
<1> QED BY <1>3, <1>4, <1>6 DEF B

LEMMA ReleaseKeepsIInv ==
  ASSUME IInv, NEW r \in Req, Release(r)
  PROVE  IInv'
<1> USE DEF IInv
<1>1. Victims(0, {}, Released(r)) = {}
  BY NoVictims
<1>2. /\ RemoveEntries({}, reserved, failed)
      /\ requestPins' = requestPins \ PinsOf(requestPins, r)
      /\ pinCount' = [s \in Seg |-> Released(r)[s]]
  BY <1>1 DEF Release
<1>3. Size({}) = 0
  BY FS_EmptySet DEF Size, Of
<1>4. UNCHANGED <<live, stored, reserved, committed, failed, index, bytes>>
  BY <1>2, <1>3 DEF RemoveEntries, Outside, TypeOK
<1>5. older' \subseteq older /\ requestPins' \subseteq requestPins
  BY <1>2 DEF RemoveEntries
<1>6. pinCount' \in [Seg -> Nat] /\ PinAccounting'
  BY <1>2, ReleasedCounts DEF PinAccounting
<1>7. TypeOK'
  BY <1>4, <1>5, <1>6 DEF TypeOK
<1>8. PinnedReadable' /\ MemoryBound' /\ IndexExact' /\ FailedInFlight'
  BY <1>4, <1>5 DEF PinnedReadable, MemoryBound, IndexExact, FailedInFlight
<1>9. Bookkeeping'
  BY <1>2, <1>4, ReleasedCounts DEF Bookkeeping
<1> QED BY <1>6, <1>7, <1>8, <1>9

LEMMA PinKeepsIInv ==
  ASSUME IInv, NEW r \in Req, NEW plan \in Plans, Pin(r, plan)
  PROVE  IInv'
<1> USE DEF IInv
<1> DEFINE taken == Contract!PinsFor(r, plan, committed)
           rest  == requestPins \ PinsOf(requestPins, r)
<1>1. Victims(0, {}, Released(r)) = {} /\ Size({}) = 0
  BY NoVictims, FS_EmptySet DEF Size, Of
<1>2. /\ UNCHANGED <<live, stored, reserved, committed, failed, index, bytes>>
      /\ requestPins' = rest \cup taken
      /\ pinCount' = [s \in Seg |->
                        Released(r)[s] + Cardinality(PinsOn(taken, s))]
  <2>1. committed \ {} = committed
    OBVIOUS
  <2>2. /\ live' = live \ {} /\ committed' = committed \ {}
        /\ failed' = failed \ {} /\ index' = index \ {}
        /\ stored' = Outside(stored, {}) /\ reserved' = Outside(reserved, {})
        /\ bytes' = bytes - Size({})
    BY <1>1 DEF Pin
  <2>3. requestPins' = rest \cup taken
    BY <1>1, <2>1 DEF Pin
  <2>4. pinCount' = [s \in Seg |->
                       Released(r)[s] + Cardinality(PinsOn(taken, s))]
    BY <1>1, <2>1 DEF Pin
  <2>5. /\ Outside(stored, {}) = stored /\ Outside(reserved, {}) = reserved
        /\ bytes - Size({}) = bytes
    BY <1>1 DEF Outside, TypeOK
  <2> QED BY <2>2, <2>3, <2>4, <2>5
<1>3. older' \subseteq live' \X live'
  BY DEF Pin, TouchPlan
<1>4. taken \subseteq Pins /\ \A p \in taken : p[1] = r /\ p[2] \in committed
  BY DEF Contract!PinsFor, Pins
<1> HIDE DEF taken
<1>5. IsFiniteSet(taken)
  BY <1>4, PairsFinite, FS_Subset
<1>6. ASSUME NEW s \in Seg
      PROVE  /\ pinCount'[s] = Cardinality(PinsOn(requestPins', s))
             /\ pinCount'[s] \in Nat
  <2>1. /\ PinsOn(requestPins', s) = PinsOn(rest, s) \cup PinsOn(taken, s)
        /\ PinsOn(rest, s) \cap PinsOn(taken, s) = {}
    BY <1>2, <1>4 DEF PinsOn, PinsOf
  <2>2. PinsOn(rest, s) \subseteq requestPins /\ PinsOn(taken, s) \subseteq taken
    BY DEF PinsOn
  <2>3. IsFiniteSet(PinsOn(rest, s)) /\ IsFiniteSet(PinsOn(taken, s))
    BY <1>5, <2>2, FiniteState, FS_Subset
  <2>4. Released(r)[s] = Cardinality(PinsOn(rest, s))
    BY ReleasedCounts
  <2>5. pinCount'[s] = Cardinality(PinsOn(rest, s)) + Cardinality(PinsOn(taken, s))
    BY <1>2, <2>4
  <2> HIDE DEF rest
  <2>6. /\ Cardinality(PinsOn(rest, s) \cup PinsOn(taken, s))
             = Cardinality(PinsOn(rest, s)) + Cardinality(PinsOn(taken, s))
        /\ Cardinality(PinsOn(rest, s)) \in Nat
        /\ Cardinality(PinsOn(taken, s)) \in Nat
    BY <2>1, <2>3, DisjointUnion
  <2> QED BY <2>1, <2>5, <2>6
<1>7. TypeOK'
  <2>1. pinCount' \in [Seg -> Nat]
    BY <1>2, <1>6
  <2> QED BY <1>2, <1>3, <1>4, <2>1 DEF TypeOK
<1>8. PinnedReadable'
  BY <1>2, <1>4 DEF PinnedReadable, IndexExact
<1>9. PinAccounting'
  BY <1>6 DEF PinAccounting
<1>10. MemoryBound' /\ IndexExact' /\ FailedInFlight'
  BY <1>2 DEF MemoryBound, IndexExact, FailedInFlight
<1>11. Bookkeeping'
  <2> SUFFICES ASSUME NEW s \in Seg \ live
               PROVE  pinCount'[s] = 0
    BY <1>2 DEF Bookkeeping
  <2>1. PinsOn(taken, s) = {}
    BY <1>4 DEF PinsOn, TypeOK
  <2>2. Released(r)[s] = 0 /\ Cardinality(PinsOn(taken, s)) = 0
    BY <2>1, ReleasedCounts, FS_EmptySet
  <2> QED BY <1>2, <2>2
<1> QED BY <1>7, <1>8, <1>9, <1>10, <1>11

LEMMA ClearKeepsIInv == ASSUME IInv, Clear PROVE IInv'
<1> USE DEF Clear
<1>1. \A s \in Seg : PinsOn(requestPins', s) = {}
  BY DEF PinsOn
<1>2. TypeOK'
  BY DEF TypeOK, IInv
<1>3. PinAccounting'
  BY <1>1, FS_EmptySet DEF PinAccounting
<1>4. MemoryBound'
  BY FS_EmptySet, MaxAssumption DEF MemoryBound
<1>5. PinnedReadable' /\ IndexExact' /\ FailedInFlight' /\ Bookkeeping'
  BY DEF PinnedReadable, IndexExact, FailedInFlight, Bookkeeping, IInv, TypeOK
<1> QED BY <1>2, <1>3, <1>4, <1>5 DEF IInv

-----------------------------------------------------------------------------
(* The invariant                                                           *)

LEMMA NextKeepsIInv == IInv /\ [Next]_vars => IInv'
<1> SUFFICES ASSUME IInv, [Next]_vars PROVE IInv'
  OBVIOUS
<1>1. CASE UNCHANGED vars
  BY <1>1 DEF vars, IInv, TypeOK, PinnedReadable, PinAccounting, MemoryBound,
              IndexExact, FailedInFlight, Bookkeeping
<1>2. ASSUME NEW s \in Seg, BeginPut(s) PROVE IInv'
  BY <1>2, BeginPutKeepsIInv
<1>3. ASSUME NEW s \in Seg, AbortPut(s) PROVE IInv'
  BY <1>3, AbortKeepsIInv
<1>4. ASSUME NEW s \in Seg, NEW l \in Layer, ReserveLayer(s, l) PROVE IInv'
  BY <1>4, ReserveKeepsIInv
<1>5. ASSUME NEW s \in Seg, NEW l \in Layer, CancelLayer(s, l) PROVE IInv'
  BY <1>5, CancelKeepsIInv
<1>6. ASSUME NEW s \in Seg, NEW l \in Layer, PutLayerHost(s, l) PROVE IInv'
  BY <1>6, PutRejectedKeepsIInv, PutIgnoredKeepsIInv, PutOverCapKeepsIInv,
     PutStoredKeepsIInv DEF PutLayerHost
<1>7. ASSUME NEW plan \in Plans, Validate(plan) PROVE IInv'
  BY <1>7, ReorderKeepsIInv DEF Validate, TouchPlan
<1>8. ASSUME NEW r \in Req, NEW plan \in Plans, Pin(r, plan) PROVE IInv'
  BY <1>8, PinKeepsIInv
<1>9. ASSUME NEW r \in Req, Release(r) PROVE IInv'
  BY <1>9, ReleaseKeepsIInv
<1>10. ASSUME NEW r \in Req, NEW s \in Seg, NEW l \in Layer, GetLayer(r, s, l)
       PROVE  IInv'
  BY <1>10, ReorderKeepsIInv DEF GetLayer, TouchOne
<1>11. ASSUME Clear PROVE IInv'
  BY <1>11, ClearKeepsIInv
<1> QED BY <1>1, <1>2, <1>3, <1>4, <1>5, <1>6, <1>7, <1>8, <1>9, <1>10, <1>11
        DEF Next

\* IInv holds in every reachable state: the parts below are its conjuncts.
THEOREM StoreInvariant == Spec => []IInv
BY InitIInv, NextKeepsIInv, PTL DEF Spec

\* A removed entry leaves no layer, reservation, mark or order behind
\* (storage.py:277-280).
THEOREM StoreTypeOK == Spec => []TypeOK
<1>1. IInv => TypeOK
  BY DEF IInv
<1> QED BY <1>1, StoreInvariant, PTL

\* No interleaving of writers, readers and evictions takes a pinned segment
\* from its reader (storage.py:221-263, 282-294).
THEOREM StorePinnedReadable == Spec => []PinnedReadable
<1>1. IInv => PinnedReadable
  BY DEF IInv
<1> QED BY <1>1, StoreInvariant, PTL

\* pin_count is the number of pins (storage.py:221-247).
THEOREM StorePinAccounting == Spec => []PinAccounting
<1>1. IInv => PinAccounting
  BY DEF IInv
<1> QED BY <1>1, StoreInvariant, PTL

\* _bytes is exact and within max_bytes (storage.py:161-183, 277-294).
THEOREM StoreMemoryBound == Spec => []MemoryBound
<1>1. IInv => MemoryBound
  BY DEF IInv
<1> QED BY <1>1, StoreInvariant, PTL

\* The matcher knows exactly the complete entries (storage.py:185-188, 277-280).
THEOREM StoreIndexExact == Spec => []IndexExact
<1>1. IInv => IndexExact
  BY DEF IInv
<1> QED BY <1>1, StoreInvariant, PTL

\* A failed entry has a transfer in flight (storage.py:120-129, 192-199).
THEOREM StoreFailedInFlight == Spec => []FailedInFlight
<1>1. IInv => FailedInFlight
  BY DEF IInv
<1> QED BY <1>1, StoreInvariant, PTL

-----------------------------------------------------------------------------
(* The store implements StoreContract                                      *)

LEMMA ContractInitStep == Init => Contract!ContractInit
BY DEF Init, Contract!ContractInit

\* Entries without a count can go without the contract noticing a reader.
LEMMA FreeSetsUnpinned ==
  ASSUME IInv, NEW gone \in SUBSET committed, \A s \in gone : pinCount[s] = 0
  PROVE  gone \in SUBSET (index \ Contract!PinnedBy(requestPins))
<1> SUFFICES ASSUME NEW s \in gone
             PROVE  s \in index /\ s \notin Contract!PinnedBy(requestPins)
  OBVIOUS
<1>1. s \in Seg /\ s \in index
  BY DEF IInv, TypeOK, IndexExact
<1>2. PinsOn(requestPins, s) = {}
  BY <1>1, UncountedIsUnpinned DEF IInv
<1>3. ASSUME NEW r, NEW t, <<r, s, t>> \in requestPins PROVE FALSE
  <2>1. <<r, s, t>>[2] = s
    OBVIOUS
  <2>2. <<r, s, t>> \in PinsOn(requestPins, s)
    BY <1>3, <2>1 DEF PinsOn
  <2> QED BY <1>2, <2>2
<1> QED BY <1>1, <1>3 DEF Contract!PinnedBy

LEMMA ContractEvict ==
  ASSUME IInv, NEW gone \in SUBSET committed, \A s \in gone : pinCount[s] = 0,
         index' = index \ gone, requestPins' = requestPins
  PROVE  Contract!Evict
BY FreeSetsUnpinned DEF Contract!Evict

\* Failing an entry never removes a committed one.
LEMMA DiscardInvisible ==
  ASSUME IInv, NEW s \in Seg, NEW left, NEW marked, s \notin committed
  PROVE  index \ Discardable(s, left, marked) = index
BY DEF Discardable, IInv, IndexExact

LEMMA ContractPutStored ==
  ASSUME IInv, NEW s \in Seg, NEW l \in Layer, PutStored(s, l)
  PROVE  Contract!ContractNext
<1> DEFINE gone == EvictedFor(s, l)
<1>1. /\ s \notin committed /\ s \in live /\ requestPins' = requestPins
      /\ index' = (index \ gone) \cup IF Completes(s, l) THEN {s} ELSE {}
  BY DEF PutStored
<1>2. gone \in SUBSET committed /\ \A x \in gone : pinCount[x] = 0
  BY VictimsAreFree DEF EvictedFor
<1> HIDE DEF gone
<1>3. CASE Completes(s, l)
  <2>1. index' = (index \ gone) \cup {s} /\ s \notin index
    BY <1>1, <1>3 DEF IInv, IndexExact
  <2>2. Contract!Publish(s)
    BY <1>1, <1>2, <2>1, FreeSetsUnpinned DEF Contract!Publish
  <2> QED BY <2>2 DEF Contract!ContractNext
<1>4. CASE ~Completes(s, l)
  <2>1. index' = index \ gone
    BY <1>1, <1>4
  <2> QED BY <1>1, <1>2, <2>1, ContractEvict DEF Contract!ContractNext
<1> QED BY <1>3, <1>4

LEMMA ContractFail ==
  ASSUME IInv, NEW s \in Seg, NEW l \in Layer,
         CancelLayer(s, l) \/ PutRejected(s, l) \/ PutOverCap(s, l) \/ AbortPut(s)
  PROVE  Contract!ContractNext
<1> USE DEF IInv
<1>1. CASE PutOverCap(s, l)
  <2> DEFINE gone == EvictedFor(s, l)
  <2>1. gone \in SUBSET committed /\ \A x \in gone : pinCount[x] = 0
    BY VictimsAreFree DEF EvictedFor
  <2>2. /\ s \notin committed /\ requestPins' = requestPins
        /\ index' = index \ (gone \cup Discardable(s, reserved \ {<<s, l>>},
                                                   failed \cup {s}))
    BY <1>1 DEF PutOverCap, RemoveEntries
  <2>3. index' = index \ gone
    BY <2>2, DiscardInvisible
  <2> HIDE DEF gone
  <2> QED BY <2>1, <2>2, <2>3, ContractEvict DEF Contract!ContractNext
<1>2. CASE ~PutOverCap(s, l)
  <2>1. requestPins' = requestPins /\ index' = index
    <3>1. CASE CancelLayer(s, l)
      <4>1. s \in committed => s \notin failed
        BY DEF FailedInFlight
      <4> QED BY <3>1, <4>1, DiscardInvisible DEF CancelLayer, RemoveEntries, Discardable
    <3>2. CASE PutRejected(s, l)
      <4>1. s \notin committed
        BY <3>2 DEF PutRejected, FailedInFlight
      <4> QED BY <3>2, <4>1, DiscardInvisible DEF PutRejected, RemoveEntries
    <3>3. CASE AbortPut(s)
      BY <3>3, DiscardInvisible DEF AbortPut, RemoveEntries
    <3> QED BY <1>2, <3>1, <3>2, <3>3
  <2>2. index' = index \ {} /\ {} \in SUBSET committed
    BY <2>1
  <2> QED BY <2>1, <2>2, ContractEvict DEF Contract!ContractNext
<1> QED BY <1>1, <1>2

LEMMA ContractPins ==
  ASSUME IInv, NEW r \in Req
  PROVE  /\ Release(r) => Contract!Release(r)
         /\ \A plan \in Plans : Pin(r, plan) => Contract!Pin(r, plan)
<1> DEFINE rest == requestPins \ PinsOf(requestPins, r)
<1>1. Victims(0, {}, Released(r)) = {}
  BY NoVictims DEF IInv
<1>2. rest = Contract!WithoutReq(requestPins, r)
  BY DEF PinsOf, Contract!WithoutReq
<1>3. index = committed /\ committed \ {} = committed /\ index \ {} = index
  BY DEF IInv, IndexExact
<1>4. {} \in SUBSET (index \ Contract!PinnedBy(Contract!WithoutReq(requestPins, r)))
  OBVIOUS
<1>5. ASSUME Release(r) PROVE Contract!Release(r)
  <2>1. index' = index \ {} /\ requestPins' = rest
    BY <1>1, <1>5 DEF Release, RemoveEntries
  <2> QED BY <1>2, <1>4, <2>1 DEF Contract!Release
<1>6. ASSUME NEW plan \in Plans, Pin(r, plan) PROVE Contract!Pin(r, plan)
  <2>1. /\ index' = index \ {}
        /\ requestPins' = rest \cup Contract!PinsFor(r, plan, committed \ {})
    BY <1>1, <1>6 DEF Pin
  <2>2. requestPins' = rest \cup Contract!PinsFor(r, plan, index \ {})
    BY <1>3, <2>1
  <2> QED BY <1>2, <1>4, <2>1, <2>2 DEF Contract!Pin
<1> QED BY <1>5, <1>6

LEMMA ContractStep ==
  IInv /\ [Next]_vars => [Contract!ContractNext]_(Contract!contractVars)
<1> SUFFICES ASSUME IInv, [Next]_vars
             PROVE  [Contract!ContractNext]_(Contract!contractVars)
  OBVIOUS
<1>1. CASE UNCHANGED <<index, requestPins>>
  BY <1>1 DEF Contract!contractVars
<1>2. ASSUME NEW s \in Seg, BeginPut(s) \/ AbortPut(s)
      PROVE  Contract!ContractNext \/ UNCHANGED <<index, requestPins>>
  <2>1. PICK l : l \in Layer
    BY LayerAssumption
  <2> QED BY <1>2, <2>1, ContractFail DEF BeginPut
<1>3. ASSUME NEW s \in Seg, NEW l \in Layer,
             ReserveLayer(s, l) \/ CancelLayer(s, l) \/ PutLayerHost(s, l)
      PROVE  Contract!ContractNext \/ UNCHANGED <<index, requestPins>>
  BY <1>3, ContractFail, ContractPutStored
     DEF ReserveLayer, PutLayerHost, PutIgnored
<1>4. ASSUME NEW plan \in Plans, Validate(plan)
      PROVE  UNCHANGED <<index, requestPins>>
  BY <1>4 DEF Validate
<1>5. ASSUME NEW r \in Req, NEW plan \in Plans, Pin(r, plan)
      PROVE  Contract!ContractNext
  BY <1>5, ContractPins DEF Contract!ContractNext, Plans
<1>6. ASSUME NEW r \in Req, Release(r) PROVE Contract!ContractNext
  BY <1>6, ContractPins DEF Contract!ContractNext
<1>7. ASSUME NEW r \in Req, NEW s \in Seg, NEW l \in Layer, GetLayer(r, s, l)
      PROVE  UNCHANGED <<index, requestPins>>
  BY <1>7 DEF GetLayer
<1>8. ASSUME Clear PROVE Contract!ContractNext
  <2>1. index' = {} /\ requestPins' = {}
    BY <1>8 DEF Clear, IInv, IndexExact, TypeOK
  <2> QED BY <2>1 DEF Contract!ContractNext, Contract!Clear
<1> QED BY <1>1, <1>2, <1>3, <1>4, <1>5, <1>6, <1>7, <1>8
        DEF Next, vars, Contract!contractVars

\* The lock-protected store, with its reservations, failures, counters and
\* eviction order, is the store its readers were promised (storage.py:3-5).
THEOREM StoreImplementsContract == Spec => ImplementsContract
<1>1. Init => Contract!ContractInit
  BY ContractInitStep
<1>2. IInv /\ [Next]_vars => [Contract!ContractNext]_(Contract!contractVars)
  BY ContractStep
<1> QED BY <1>1, <1>2, StoreInvariant, PTL
        DEF Spec, ImplementsContract, Contract!ContractSpec


-----------------------------------------------------------------------------
(* The order of eviction                                                   *)

\* R is a strict total order of S: the order of an OrderedDict with the keys S.
StrictOrder(R, S) ==
  /\ R \subseteq S \X S
  /\ \A x \in S : <<x, x>> \notin R
  /\ \A x, y \in S : x # y => <<x, y>> \in R \/ <<y, x>> \in R
  /\ \A x, y, z \in S : <<x, y>> \in R /\ <<y, z>> \in R => <<x, z>> \in R

Ordered == StrictOrder(older, live)

LEMMA OrderRemoved ==
  ASSUME NEW S, NEW R, StrictOrder(R, S), NEW gone
  PROVE  StrictOrder({p \in R : p[1] \notin gone /\ p[2] \notin gone}, S \ gone)
BY DEF StrictOrder

LEMMA OrderTouched ==
  ASSUME NEW S, NEW U, NEW R, StrictOrder(R, U), NEW s \in S, S \ {s} \subseteq U
  PROVE  StrictOrder(TouchOne(s, S, R), S)
BY DEF StrictOrder, TouchOne

\* _touch on the segments of a plan in turn: the last occurrences decide.
LEMMA OrderPlanned ==
  ASSUME NEW S, NEW U, NEW R, StrictOrder(R, U), S \subseteq U,
         NEW plan, DOMAIN plan \subseteq Target
  PROVE  StrictOrder(TouchPlan(plan, S, R), S)
<1> DEFINE N == Named(plan, S)
           Q == TouchPlan(plan, S, R)
           Later(x, y) == LaterIn(plan, x, y)
<1>1. /\ N \subseteq S
      /\ \A x \in N : \E t \in DOMAIN plan : plan[t] = x
  BY DEF Named
<1>2. DOMAIN plan \subseteq Nat
  BY TargetAssumption
<1>3. \A x \in N : ~Later(x, x)
  BY <1>2 DEF LaterIn
<1>4. ASSUME NEW x, NEW y \in N, NEW z, Later(x, y), Later(y, z)
      PROVE  Later(x, z)
  <2>1. PICK t \in DOMAIN plan : plan[t] = y /\ \A i \in DOMAIN plan : plan[i] = x => i < t
    BY <1>4 DEF LaterIn
  <2>2. PICK u \in DOMAIN plan : plan[u] = z /\ \A i \in DOMAIN plan : plan[i] = y => i < u
    BY <1>4 DEF LaterIn
  <2>3. t < u
    BY <2>1, <2>2
  <2>4. \A i \in DOMAIN plan : i < t => i < u
    BY <1>2, <2>3
  <2> QED BY <2>1, <2>2, <2>4 DEF LaterIn
<1>5. ASSUME NEW x \in N, NEW y \in N, x # y
      PROVE  Later(x, y) \/ Later(y, x)
  <2> DEFINE T == {t \in DOMAIN plan : plan[t] \in {x, y}}
  <2>1. T \subseteq Target /\ T # {} /\ T \subseteq Nat
    BY <1>1, <1>2
  <2>2. IsFiniteSet(T)
    BY <2>1, TargetAssumption, FS_Subset
  <2> HIDE DEF T
  <2>3. PICK m \in T : \A j \in T : j <= m
    BY <2>1, <2>2, GreatestElement
  <2>4. m \in DOMAIN plan /\ plan[m] \in {x, y}
    BY DEF T
  <2>5. ASSUME NEW i \in DOMAIN plan, plan[i] \in {x, y}, plan[i] # plan[m]
        PROVE  i < m
    <3>1. i \in T /\ i # m
      BY <2>5 DEF T
    <3>2. i <= m
      BY <2>3, <3>1
    <3>3. i \in Nat /\ m \in Nat
      BY <2>1, <2>3, <3>1
    <3> QED BY <3>1, <3>2, <3>3
  <2> QED BY <1>5, <2>4, <2>5 DEF LaterIn
<1>6. \A x, y \in S : <<x, y>> \in Q <=>
        \/ <<x, y>> \in R /\ x \notin N /\ y \notin N
        \/ x \notin N /\ y \in N
        \/ x \in N /\ y \in N /\ Later(x, y)
  BY DEF TouchPlan
<1>7. Q \subseteq S \X S
  BY DEF TouchPlan
<1> HIDE DEF N, Q, Later
<1>8. \A x \in S : <<x, x>> \notin Q
  BY <1>3, <1>6 DEF StrictOrder
<1>9. \A x, y \in S : x # y => <<x, y>> \in Q \/ <<y, x>> \in Q
  BY <1>5, <1>6 DEF StrictOrder
<1>10. ASSUME NEW x \in S, NEW y \in S, NEW z \in S, <<x, y>> \in Q, <<y, z>> \in Q
       PROVE  <<x, z>> \in Q
  <2>1. CASE y \in N
    BY <1>4, <1>6, <1>10, <2>1
  <2>2. CASE y \notin N
    BY <1>6, <1>10, <2>2 DEF StrictOrder
  <2> QED BY <2>1, <2>2
<1> QED BY <1>7, <1>8, <1>9, <1>10 DEF StrictOrder, Q

LEMMA OrderedStep == Ordered /\ [Next]_vars => Ordered'
<1> SUFFICES ASSUME Ordered, [Next]_vars
             PROVE  StrictOrder(older', live')
  BY DEF Ordered
<1> USE DEF Ordered
<1>1. ASSUME NEW gone, NEW left, NEW marked, RemoveEntries(gone, left, marked)
      PROVE  StrictOrder(older', live')
  BY <1>1, OrderRemoved DEF RemoveEntries
<1>2. ASSUME NEW s \in Seg, BeginPut(s)
      PROVE  StrictOrder(older', live')
  <2>1. live' = live \cup {s} /\ older' = TouchOne(s, live', older)
    BY <1>2 DEF BeginPut
  <2>2. s \in live' /\ live' \ {s} \subseteq live
    BY <2>1
  <2> QED BY <2>1, <2>2, OrderTouched
<1>3. ASSUME NEW s, NEW l, PutStored(s, l)
      PROVE  StrictOrder(older', live')
  <2>1. s \in live /\ live' = live \ EvictedFor(s, l) /\ older' = TouchOne(s, live', older)
    BY <1>3 DEF PutStored
  <2>2. s \in live'
    BY <2>1, VictimsAreFree DEF EvictedFor
  <2> QED BY <2>1, <2>2, OrderTouched
<1>4. ASSUME NEW s, NEW l, CancelLayer(s, l) \/ AbortPut(s) \/ PutLayerHost(s, l)
      PROVE  StrictOrder(older', live')
  BY <1>1, <1>3, <1>4 DEF CancelLayer, AbortPut, PutLayerHost, PutRejected, PutIgnored, PutOverCap
<1>5. \A plan, S : DOMAIN Contract!Within(plan, S) \subseteq DOMAIN plan
  BY DEF Contract!Within
<1>6. \A plan \in Plans : DOMAIN plan \subseteq Target
  BY DEF Plans, Contract!Plans
<1>7. ASSUME NEW plan \in Plans, Validate(plan)
      PROVE  StrictOrder(older', live')
  <2> DEFINE kept == Contract!Within(plan, committed)
  <2>1. live' = live /\ older' = TouchPlan(kept, live, older)
    BY <1>7 DEF Validate
  <2>2. DOMAIN kept \subseteq Target
    BY <1>5, <1>6
  <2> HIDE DEF kept
  <2> QED BY <2>1, <2>2, OrderPlanned
<1>8. ASSUME NEW r, NEW plan \in Plans, Pin(r, plan)
      PROVE  StrictOrder(older', live')
  <2> DEFINE gone == Victims(0, {}, Released(r))
             kept == Contract!Within(plan, committed \ gone)
  <2>1. live' = live \ gone /\ older' = TouchPlan(kept, live', older)
    BY <1>8 DEF Pin
  <2>2. DOMAIN kept \subseteq Target
    BY <1>5, <1>6
  <2> HIDE DEF kept, gone
  <2> QED BY <2>1, <2>2, OrderPlanned
<1>9. ASSUME NEW r, Release(r)
      PROVE  StrictOrder(older', live')
  BY <1>1, <1>9 DEF Release
<1>10. ASSUME NEW r, NEW s, NEW l, GetLayer(r, s, l)
       PROVE  StrictOrder(older', live')
  BY <1>10, OrderTouched DEF GetLayer
<1>11. ASSUME Clear
       PROVE  StrictOrder(older', live')
  BY <1>11 DEF Clear, StrictOrder
<1>12. ASSUME UNCHANGED <<older, live>>
       PROVE  StrictOrder(older', live')
  BY <1>12
<1>13. (\E s \in Seg, l \in Layer : ReserveLayer(s, l)) => UNCHANGED <<older, live>>
  BY DEF ReserveLayer
<1> QED BY <1>2, <1>4, <1>7, <1>8, <1>9, <1>10, <1>11, <1>12, <1>13 DEF Next, vars

\* The recorded order is the order of an OrderedDict: each entry once, and nothing
\* that is not an entry, whatever is touched, evicted or removed (storage.py:274-294).
THEOREM StoreIsOrdered == Spec => []Ordered
<1>1. Init => Ordered
  BY DEF Init, Ordered, StrictOrder
<1> QED BY <1>1, OrderedStep, PTL DEF Spec

\* Memory is monotone in the entries.
LEMMA SizeGrows ==
  ASSUME TypeOK, NEW A, NEW B, A \subseteq B
  PROVE  Size(A) \in Nat /\ Size(B) \in Nat /\ Size(A) <= Size(B)
<1>1. Of(stored, A) \subseteq Of(stored, B)
  BY DEF Of
<1>2. IsFiniteSet(Of(stored, B))
  BY FiniteState, OutsideCardinality
<1>3. Size(A) <= Size(B)
  BY <1>1, <1>2, FS_Subset DEF Size
<1> QED BY <1>3, FiniteState

\* An unpinned entry older than a victim is a victim too.
LEMMA OlderIsVictim ==
  ASSUME TypeOK, Ordered, NEW required \in Nat, NEW exclude,
         NEW v \in Victims(required, exclude, pinCount),
         NEW x \in committed \ exclude, <<x, v>> \in older, pinCount[x] = 0
  PROVE  x \in Victims(required, exclude, pinCount)
<1> DEFINE eligible == {s \in (live \cap committed) \ exclude : pinCount[s] = 0}
           before(s) == {y \in eligible : <<y, s>> \in older}
<1>1. v \in eligible /\ bytes - Size(before(v)) + required > MaxUnits
  BY DEF Victims
<1>2. x \in eligible
  BY DEF TypeOK
<1>3. before(x) \subseteq before(v)
  BY <1>1, <1>2 DEF Ordered, StrictOrder
<1>4. bytes - Size(before(x)) + required > MaxUnits
  <2> HIDE DEF before, eligible
  <2>1. Size(before(x)) \in Nat /\ Size(before(v)) \in Nat /\ Size(before(x)) <= Size(before(v))
    BY <1>3, SizeGrows
  <2> QED BY <1>1, <2>1, MaxAssumption DEF TypeOK
<1> QED BY <1>2, <1>4 DEF Victims

\* An entry goes while an older one stays only if the older one is pinned.
LEMMA EvictionStep ==
  ASSUME IInv, Ordered, [Next]_vars, NEW v \in committed \ committed',
         NEW x \in committed \cap committed', <<x, v>> \in older
  PROVE  x \in Contract!PinnedBy(requestPins)
<1>1. committed \subseteq live /\ live \subseteq Seg /\ \A s \in failed : s \notin committed
  BY DEF IInv, TypeOK, FailedInFlight
<1>2. \A r : Victims(0, {}, Released(r)) = {}
  BY NoVictims DEF IInv
<1>3. \A s, left, marked : Discardable(s, left, marked) \subseteq marked \cap {s}
  BY DEF Discardable
<1>4. ASSUME NEW gone, NEW left, NEW marked, RemoveEntries(gone, left, marked)
      PROVE  v \in gone /\ x \notin gone
  BY <1>4 DEF RemoveEntries
<1>5. PICK s \in Seg, l \in Layer :
        /\ s \notin committed /\ v \in EvictedFor(s, l) /\ x \notin EvictedFor(s, l)
  <2>1. ASSUME NEW s \in Seg, NEW l \in Layer, PutLayerHost(s, l)
        PROVE  s \notin committed /\ v \in EvictedFor(s, l) /\ x \notin EvictedFor(s, l)
    <3>1. CASE PutRejected(s, l)
      BY <1>1, <1>3, <1>4, <3>1 DEF PutRejected
    <3>2. CASE PutIgnored(s, l)
      BY <3>2 DEF PutIgnored
    <3>3. CASE PutOverCap(s, l)
      BY <1>3, <1>4, <3>3 DEF PutOverCap
    <3>4. CASE PutStored(s, l)
      <4>1. /\ s \notin committed /\ s \notin EvictedFor(s, l)
            /\ \/ committed' = (committed \ EvictedFor(s, l)) \cup {s}
               \/ committed' = committed \ EvictedFor(s, l)
        BY <3>4, VictimsAreFree DEF PutStored, EvictedFor
      <4> QED BY <4>1
    <3> QED BY <2>1, <3>1, <3>2, <3>3, <3>4 DEF PutLayerHost
  <2>2. ASSUME NEW s \in Seg, AbortPut(s) \/ \E l \in Layer : CancelLayer(s, l)
        PROVE  FALSE
    <3>1. CASE AbortPut(s)
      <4>1. /\ s \notin committed
            /\ RemoveEntries(Discardable(s, reserved, failed \cup {s}), reserved, failed \cup {s})
        BY <3>1 DEF AbortPut
      <4>2. v \in Discardable(s, reserved, failed \cup {s})
        BY <1>4, <4>1
      <4> QED BY <1>3, <4>1, <4>2
    <3>2. ASSUME NEW l \in Layer, CancelLayer(s, l)
          PROVE  FALSE
      <4> DEFINE marked == IF s \in committed THEN failed ELSE failed \cup {s}
                 left   == reserved \ {<<s, l>>}
      <4>1. RemoveEntries(Discardable(s, left, marked), left, marked)
        BY <3>2 DEF CancelLayer
      <4>2. s \notin committed \/ s \notin marked
        BY <1>1
      <4> HIDE DEF marked, left
      <4>3. v \in Discardable(s, left, marked)
        BY <1>4, <4>1
      <4>4. v = s /\ s \in marked
        BY <1>3, <4>3
      <4> QED BY <4>2, <4>4
    <3> QED BY <2>2, <3>1, <3>2
  <2>3. ASSUME NEW r, Release(r) \/ \E plan \in Plans : Pin(r, plan)
        PROVE  FALSE
    <3>1. CASE Release(r)
      BY <1>2, <1>4, <3>1 DEF Release
    <3>2. ASSUME NEW plan \in Plans, Pin(r, plan)
          PROVE  FALSE
      BY <1>2, <3>2 DEF Pin
    <3> QED BY <2>3, <3>1, <3>2
  <2>4. ~Clear
    BY DEF Clear
  <2>5. committed' # committed
    OBVIOUS
  <2>6. \E s \in Seg, l \in Layer : PutLayerHost(s, l)
    BY <2>2, <2>3, <2>4, <2>5 DEF Next, vars, BeginPut, ReserveLayer, Validate, GetLayer
  <2> QED BY <2>1, <2>6
<1>6. Growth(s, l) > 0 /\ EvictedFor(s, l) = Victims(Growth(s, l), {s}, pinCount)
  BY <1>5 DEF EvictedFor
<1>7. Growth(s, l) \in Nat
  BY DEF Growth
<1>8. pinCount[x] # 0
  <2>1. x \in committed \ {s}
    BY <1>5
  <2> QED BY <1>5, <1>6, <1>7, <2>1, OlderIsVictim DEF IInv
<1>9. PinsOn(requestPins, x) # {}
  <2>1. pinCount[x] = Cardinality(PinsOn(requestPins, x))
    BY <1>1 DEF IInv, PinAccounting
  <2> QED BY <1>8, <2>1, FS_EmptySet
<1>10. PICK p \in requestPins : p[2] = x
  BY <1>9 DEF PinsOn
<1>11. p \in Req \X Seg \X Target
  BY DEF IInv, TypeOK, Pins
<1>12. p = <<p[1], x, p[3]>> /\ p[1] \in Req /\ p[3] \in Target
  BY <1>10, <1>11
<1> QED BY <1>1, <1>10, <1>12 DEF Contract!PinnedBy

\* Eviction is least recently used first, up to the entries that requests pin
\* (storage.py:282-294).
THEOREM StoreEvictionIsLru == Spec => EvictionIsLru
<1>1. IInv /\ Ordered /\ [Next]_vars =>
        [\A v \in committed \ committed', x \in committed \cap committed' :
           <<x, v>> \in older => x \in Contract!PinnedBy(requestPins)]_vars
  BY EvictionStep
<1> QED BY <1>1, StoreInvariant, StoreIsOrdered, PTL DEF Spec, EvictionIsLru

=============================================================================
