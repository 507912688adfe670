--------------------------- MODULE StoreContract ---------------------------
(***************************************************************************)
(* What one rank's KV store promises its readers, without saying how.      *)
(*                                                                         *)
(* A store is a set of visible segments and a set of pins.  A segment is   *)
(* published whole or not at all; a visible segment may disappear at any   *)
(* time, but never while a request pins it; and one request's pins are     *)
(* replaced as a unit, by the visible part of what it asked for.           *)
(*                                                                         *)
(* storage.py:3-5: "The store publishes a fingerprint only after every KV  *)
(* layer for a chunk has been committed.  Readers pin entries for the      *)
(* lifetime of a request so eviction cannot invalidate an in-flight blend  *)
(* plan."  PinnedStore implements this module; TPLookup is built on it.    *)
(***************************************************************************)

EXTENDS PlanPins

VARIABLES
  visible,  \* segments a lookup can find and a pinning reader can read
  pins      \* triples <<request, segment, target>>

contractVars == <<visible, pins>>

ContractInit == visible = {} /\ pins = {}

-----------------------------------------------------------------------------
\* A segment becomes visible; older, unpinned ones may go to make room.
Publish(s) ==
  /\ s \notin visible
  /\ \E gone \in SUBSET (visible \ PinnedBy(pins)) :
       visible' = (visible \ gone) \cup {s}
  /\ pins' = pins

\* Unpinned segments go.
Evict ==
  /\ \E gone \in SUBSET (visible \ PinnedBy(pins)) : visible' = visible \ gone
  /\ pins' = pins

\* The pins of r become the visible part of plan; the release of its former
\* pins may let segments go first.
Pin(r, plan) ==
  \E gone \in SUBSET (visible \ PinnedBy(WithoutReq(pins, r))) :
    /\ visible' = visible \ gone
    /\ pins' = WithoutReq(pins, r) \cup PinsFor(r, plan, visible \ gone)

Release(r) ==
  \E gone \in SUBSET (visible \ PinnedBy(WithoutReq(pins, r))) :
    /\ visible' = visible \ gone
    /\ pins' = WithoutReq(pins, r)

\* The owner empties the store, whatever is pinned.
Clear == visible' = {} /\ pins' = {}

ContractNext ==
  \/ \E s \in Seg : Publish(s)
  \/ Evict
  \/ \E r \in Req : Release(r) \/ \E plan \in Plans : Pin(r, plan)
  \/ Clear

ContractSpec == ContractInit /\ [][ContractNext]_contractVars

=============================================================================
