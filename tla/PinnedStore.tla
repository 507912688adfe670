---------------------------- MODULE PinnedStore ----------------------------
(***************************************************************************)
(* LocalPinnedCPUStore (cacheblend_vllm/storage.py): the KV store of one   *)
(* tensor-parallel rank.                                                   *)
(*                                                                         *)
(* Every public method runs under one reentrant lock, so each is one       *)
(* atomic action here.  Callers are the save pool (reserve, put, cancel,   *)
(* abort), the lookup server thread (validate, pin, release) and the       *)
(* model-runner thread (begin_put, get_layer, release); any of them may    *)
(* call at any time, so the actions carry only the code's own conditions.  *)
(*                                                                         *)
(* Data is abstracted to identities.  A segment stands for a SegmentId;    *)
(* <<s, l>> in stored means entry s holds a tensor for layer l.  Every     *)
(* layer of every chunk on a rank has the same shape and type, so one      *)
(* tensor is one unit of memory and the size of an entry is the number of  *)
(* its stored layers.                                                      *)
(***************************************************************************)
EXTENDS Integers, FiniteSets

CONSTANTS
  Seg,       \* segment identities
  Layer,     \* the layers of every segment (range(num_layers))
  Req,       \* request identifiers
  Target,    \* positions in a prompt; they order a plan's segments
  MaxUnits   \* max_bytes, in layer tensors

ASSUME SegAssumption    == IsFiniteSet(Seg)
ASSUME LayerAssumption  == IsFiniteSet(Layer) /\ Layer # {}
ASSUME ReqAssumption    == IsFiniteSet(Req)
ASSUME TargetAssumption == Target \subseteq Nat /\ IsFiniteSet(Target)
ASSUME MaxAssumption    == MaxUnits \in Nat \ {0}

VARIABLES
  live,         \* keys of _entries
  older,        \* order of _entries: <<x, y>> when x comes before y
  stored,       \* <<s, l>>: _entries[s].layers has l
  reserved,     \* <<s, l>>: _entries[s].reserved_layers has l
  committed,    \* entries with committed set
  failed,       \* entries with failed set
  pinCount,     \* _entries[s].pin_count, 0 where there is no entry
  requestPins,  \* _request_pins as triples <<request, segment, target>>
  bytes,        \* _bytes
  index         \* keys of matcher._by_id: what a lookup can find

vars == <<live, older, stored, reserved, committed, failed, pinCount,
          requestPins, bytes, index>>

Contract == INSTANCE StoreContract WITH visible <- index, pins <- requestPins

Plans == Contract!Plans

-----------------------------------------------------------------------------
Pairs == Seg \X Layer
Pins  == Req \X Seg \X Target

\* The part of a relation on segments and layers that lies in S, or outside.
Of(R, S)      == {p \in R : p[1] \in S}
Outside(R, S) == {p \in R : p[1] \notin S}

\* Memory held by the entries of S.
Size(S) == Cardinality(Of(stored, S))

PinsOn(P, s) == {p \in P : p[2] = s}
PinsOf(P, r) == {p \in P : p[1] = r}

\* _touch on each segment of the plan in turn: those of S it names become the
\* most recent entries, in the order of their last occurrence.
Named(plan, S) == {plan[t] : t \in DOMAIN plan} \cap S

LaterIn(plan, x, y) ==
  \E t \in DOMAIN plan :
    plan[t] = y /\ \A u \in DOMAIN plan : plan[u] = x => u < t

TouchPlan(plan, S, order) ==
  LET N == Named(plan, S) IN
  {p \in S \X S :
     \/ p \in order /\ p[1] \notin N /\ p[2] \notin N
     \/ p[1] \notin N /\ p[2] \in N
     \/ p[1] \in N /\ p[2] \in N /\ LaterIn(plan, p[1], p[2])}

\* _touch on one entry of S.
TouchOne(s, S, order) ==
  {p \in S \X S :
     \/ p \in order /\ p[1] # s /\ p[2] # s
     \/ p[1] # s /\ p[2] = s}

\* Faulty variants of Victims: one forgets the readers, one takes the newest.
VictimsIgnoringPins(required, exclude, count) ==
  LET eligible == (live \cap committed) \ exclude
      before(s) == {x \in eligible : <<x, s>> \in older}
  IN {s \in eligible : bytes - Size(before(s)) + required > MaxUnits}

VictimsNewestFirst(required, exclude, count) ==
  LET eligible == {s \in (live \cap committed) \ exclude : count[s] = 0}
      after(s) == {x \in eligible : <<s, x>> \in older}
  IN {s \in eligible : bytes - Size(after(s)) + required > MaxUnits}

\* _evict_unlocked: walk the entries from the oldest, skip the excluded, the
\* pinned and the uncommitted, and remove until the memory suffices.
Victims(required, exclude, count) ==
  LET eligible == {s \in (live \cap committed) \ exclude : count[s] = 0}
      before(s) == {x \in eligible : <<x, s>> \in older}
  IN {s \in eligible : bytes - Size(before(s)) + required > MaxUnits}

\* Faulty variant of RemoveEntries: the reservations stay.
RemoveEntriesOnly(gone, left, marked) ==
  /\ live' = live \ gone
  /\ older' = {p \in older : p[1] \notin gone /\ p[2] \notin gone}
  /\ stored' = Outside(stored, gone)
  /\ reserved' = reserved
  /\ committed' = committed \ gone
  /\ failed' = marked \ gone
  /\ index' = index \ gone
  /\ bytes' = bytes - Size(gone)

\* _remove_unlocked on every entry of gone; the survivors keep the
\* reservations `left` and the failure marks `marked`.
RemoveEntries(gone, left, marked) ==
  /\ live' = live \ gone
  /\ older' = {p \in older : p[1] \notin gone /\ p[2] \notin gone}
  /\ stored' = Outside(stored, gone)
  /\ reserved' = Outside(left, gone)
  /\ committed' = committed \ gone
  /\ failed' = marked \ gone
  /\ index' = index \ gone
  /\ bytes' = bytes - Size(gone)

\* An entry marked failed goes once no transfer and no reader holds it.
Discardable(s, left, marked) ==
  IF s \in marked /\ Of(left, {s}) = {} /\ pinCount[s] = 0 THEN {s} ELSE {}

Unpin(gone) == [s \in Seg |-> IF s \in gone THEN 0 ELSE pinCount[s]]

Init ==
  /\ live = {} /\ older = {} /\ stored = {} /\ reserved = {}
  /\ committed = {} /\ failed = {} /\ index = {}
  /\ pinCount = [s \in Seg |-> 0]
  /\ requestPins = {} /\ bytes = 0

-----------------------------------------------------------------------------
\* begin_put: create an entry, or touch the one there is.
BeginPut(s) ==
  /\ live' = live \cup {s}
  /\ older' = TouchOne(s, live', older)
  /\ UNCHANGED <<stored, reserved, committed, failed, pinCount, requestPins,
                 bytes, index>>

\* reserve_layer, when it returns True.
ReserveLayer(s, l) ==
  /\ s \in live \ failed
  /\ <<s, l>> \notin stored \cup reserved
  /\ reserved' = reserved \cup {<<s, l>>}
  /\ UNCHANGED <<live, older, stored, committed, failed, pinCount,
                 requestPins, bytes, index>>

\* cancel_layer
CancelLayer(s, l) ==
  LET left   == reserved \ {<<s, l>>}
      marked == IF s \in committed THEN failed ELSE failed \cup {s}
      gone   == Discardable(s, left, marked)
  IN /\ s \in live
     /\ RemoveEntries(gone, left, marked)
     /\ pinCount' = Unpin(gone)
     /\ UNCHANGED requestPins

\* Faulty variant of PutRejected: the reservation is given up, the entry kept.
PutRejectedKeepsEntry(s, l) ==
  /\ s \in live \cap failed
  /\ reserved' = reserved \ {<<s, l>>}
  /\ UNCHANGED <<live, older, stored, committed, failed, pinCount,
                 requestPins, bytes, index>>

\* put_layer_host on an entry that has already failed.
PutRejected(s, l) ==
  LET left == reserved \ {<<s, l>>}
      gone == Discardable(s, left, failed)
  IN /\ s \in live \cap failed
     /\ RemoveEntries(gone, left, failed)
     /\ pinCount' = Unpin(gone)
     /\ UNCHANGED requestPins

\* put_layer_host on a committed entry: it is immutable.
PutIgnored(s, l) ==
  /\ s \in (live \cap committed) \ failed
  /\ reserved' = reserved \ {<<s, l>>}
  /\ UNCHANGED <<live, older, stored, committed, failed, pinCount,
                 requestPins, bytes, index>>

\* Faulty variant of Growth: the tensor that is replaced is counted twice.
GrowthOfReplacement(s, l) == 1

\* What storing <<s, l>> adds to the memory, and what is evicted for it.
Growth(s, l) == IF <<s, l>> \in stored THEN 0 ELSE 1

EvictedFor(s, l) ==
  IF Growth(s, l) > 0 THEN Victims(Growth(s, l), {s}, pinCount) ELSE {}

Fits(s, l) == bytes - Size(EvictedFor(s, l)) + Growth(s, l) <= MaxUnits

\* put_layer_host, the hard limit: evicting was not enough, the entry fails.
PutOverCap(s, l) ==
  LET left   == reserved \ {<<s, l>>}
      marked == failed \cup {s}
      gone   == EvictedFor(s, l) \cup Discardable(s, left, marked)
  IN /\ s \in live \ (failed \cup committed)
     /\ ~Fits(s, l)
     /\ RemoveEntries(gone, left, marked)
     /\ pinCount' = Unpin(gone)
     /\ UNCHANGED requestPins

\* Storing <<s, l>> makes the entry whole.  Faulty variant: the number of
\* layers is off by one.
CompletesEarly(s, l) ==
  Cardinality(Of(stored, {s})) + 2 >= Cardinality(Layer)

Completes(s, l) == \A k \in Layer : <<s, k>> \in stored \cup {<<s, l>>}

\* put_layer_host, the layer is stored; the last one commits the entry and
\* registers its fingerprint.
PutStored(s, l) ==
  LET gone  == EvictedFor(s, l)
      fresh == IF Completes(s, l) THEN {s} ELSE {}
  IN /\ s \in live \ (failed \cup committed)
     /\ Fits(s, l)
     /\ live' = live \ gone
     /\ older' = TouchOne(s, live', older)
     /\ stored' = Outside(stored, gone) \cup {<<s, l>>}
     /\ reserved' = Outside(reserved, gone) \ {<<s, l>>}
     /\ committed' = (committed \ gone) \cup fresh
     /\ failed' = failed \ gone
     /\ index' = (index \ gone) \cup fresh
     /\ pinCount' = Unpin(gone)
     /\ bytes' = bytes - Size(gone) + Growth(s, l)
     /\ UNCHANGED requestPins

PutLayerHost(s, l) ==
  PutRejected(s, l) \/ PutIgnored(s, l) \/ PutOverCap(s, l) \/ PutStored(s, l)

\* abort_put: reservations stay until their transfers report.
AbortPut(s) ==
  LET marked == failed \cup {s}
      gone   == Discardable(s, reserved, marked)
  IN /\ s \in live \ committed
     /\ RemoveEntries(gone, reserved, marked)
     /\ pinCount' = Unpin(gone)
     /\ UNCHANGED requestPins

\* validate: the committed segments of a plan are touched and returned.
Validate(plan) ==
  /\ older' = TouchPlan(Contract!Within(plan, committed), live, older)
  /\ UNCHANGED <<live, stored, reserved, committed, failed, pinCount,
                 requestPins, bytes, index>>

\* Faulty variant of Released: one decrement for a request, not for each pin.
ReleasedOnce(r) ==
  [s \in Seg |->
     LET n == IF PinsOn(PinsOf(requestPins, r), s) = {} THEN 0 ELSE 1 IN
     IF s \in live /\ pinCount[s] > n THEN pinCount[s] - n ELSE 0]

\* The entries' counters once the pins of r are given back.
Released(r) ==
  [s \in Seg |->
     LET n == Cardinality(PinsOn(PinsOf(requestPins, r), s)) IN
     IF s \in live /\ pinCount[s] > n THEN pinCount[s] - n ELSE 0]

\* release: give the pins back, then evict down to the limit.
Release(r) ==
  LET gone == Victims(0, {}, Released(r))
  IN /\ RemoveEntries(gone, reserved, failed)
     /\ pinCount' = [s \in Seg |-> IF s \in gone THEN 0 ELSE Released(r)[s]]
     /\ requestPins' = requestPins \ PinsOf(requestPins, r)

\* pin: release what r held, then pin the committed part of the plan.
Pin(r, plan) ==
  LET gone  == Victims(0, {}, Released(r))
      taken == Contract!PinsFor(r, plan, committed \ gone)
      kept  == Contract!Within(plan, committed \ gone)
  IN /\ live' = live \ gone
     /\ older' = TouchPlan(kept, live', older)
     /\ stored' = Outside(stored, gone)
     /\ reserved' = Outside(reserved, gone)
     /\ committed' = committed \ gone
     /\ failed' = failed \ gone
     /\ index' = index \ gone
     /\ bytes' = bytes - Size(gone)
     /\ requestPins' = (requestPins \ PinsOf(requestPins, r)) \cup taken
     /\ pinCount' = [s \in Seg |->
                       (IF s \in gone THEN 0 ELSE Released(r)[s])
                         + Cardinality(PinsOn(taken, s))]

\* get_layer, when it returns a tensor.
GetLayer(r, s, l) ==
  /\ \E t \in Target : <<r, s, t>> \in requestPins
  /\ s \in live \cap committed
  /\ <<s, l>> \in stored
  /\ older' = TouchOne(s, live, older)
  /\ UNCHANGED <<live, stored, reserved, committed, failed, pinCount,
                 requestPins, bytes, index>>

Clear ==
  /\ live' = {} /\ older' = {} /\ stored' = {} /\ reserved' = {}
  /\ committed' = {} /\ failed' = {} /\ index' = index \ live
  /\ pinCount' = [s \in Seg |-> 0]
  /\ requestPins' = {} /\ bytes' = 0

Next ==
  \/ \E s \in Seg : BeginPut(s) \/ AbortPut(s)
  \/ \E s \in Seg, l \in Layer :
       ReserveLayer(s, l) \/ CancelLayer(s, l) \/ PutLayerHost(s, l)
  \/ \E plan \in Plans : Validate(plan)
  \/ \E r \in Req, plan \in Plans : Pin(r, plan)
  \/ \E r \in Req : Release(r)
  \/ \E r \in Req, s \in Seg, l \in Layer : GetLayer(r, s, l)
  \/ Clear

Spec == Init /\ [][Next]_vars

-----------------------------------------------------------------------------
\* Every part of an entry's state belongs to an entry that is there: a removed
\* entry leaves nothing behind that a later entry of the same name would find.
TypeOK ==
  /\ live \subseteq Seg
  /\ older \subseteq live \X live
  /\ stored \subseteq live \X Layer
  /\ reserved \subseteq live \X Layer
  /\ committed \subseteq live
  /\ failed \subseteq live
  /\ pinCount \in [Seg -> Nat]
  /\ requestPins \subseteq Pins
  /\ bytes \in Nat
  /\ index \subseteq Seg

\* What a request has pinned stays committed with all its layers, whatever is
\* evicted, aborted, cancelled or stored meanwhile: get_layer on a pinned
\* segment never reaches one of its KeyErrors (storage.py:251-261).
PinnedReadable ==
  \A p \in requestPins :
    /\ p[2] \in live \cap committed
    /\ \A l \in Layer : <<p[2], l>> \in stored

\* An entry counts exactly the places where requests pin it, so max(0, ...) in
\* release never hides a lost or doubled release (storage.py:221-247).
PinAccounting ==
  \A s \in Seg : pinCount[s] = Cardinality(PinsOn(requestPins, s))

\* The byte counter is what the entries hold, through replacement, rejection
\* and eviction, and never passes the configured limit (storage.py:161-183).
MemoryBound == bytes = Cardinality(stored) /\ bytes <= MaxUnits

\* Lookups see exactly the entries that hold every layer: a fingerprint is
\* neither published early nor left behind (storage.py:185-188, 277-280).
IndexExact ==
  /\ index = committed
  /\ committed = {s \in live : \A l \in Layer : <<s, l>> \in stored}

\* A failed entry is there only until its last transfer has reported; it is
\* never committed (storage.py:120-129, 151-155, 169-176, 192-199).
FailedInFlight ==
  \A s \in failed : s \notin committed /\ Of(reserved, {s}) # {}

\* Eviction is least recently used first: an entry that goes while an older one
\* stays means that some request pins the older one (storage.py:282-294).
EvictionIsLru ==
  [][\A v \in committed \ committed', x \in committed \cap committed' :
       <<x, v>> \in older => x \in Contract!PinnedBy(requestPins)]_vars

\* The store keeps the contract its readers rely on.
ImplementsContract == Contract!ContractSpec

\* A layer is never both stored and awaited, and a removed entry has no count.
Bookkeeping ==
  /\ stored \cap reserved = {}
  /\ \A s \in Seg \ live : pinCount[s] = 0

\* The inductive invariant of PinnedStoreProofs.
IInv ==
  /\ TypeOK
  /\ PinnedReadable
  /\ PinAccounting
  /\ MemoryBound
  /\ IndexExact
  /\ FailedInFlight
  /\ Bookkeeping

=============================================================================
