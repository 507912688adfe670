-------------------------- MODULE WritebackProofs --------------------------
(***************************************************************************)
(* Proofs about Writeback, for any prompts, layers, store limit, number of *)
(* batches in flight, workers and faults: a reserved layer has one writer, *)
(* and a step without faults ends with complete entries only, among them   *)
(* every chunk that it was asked to save and that the store did not refuse *)
(* or evict.                                                               *)
(*                                                                         *)
(* WInv is inductive.  Beside the store's own invariant, its parts say who *)
(* holds each reservation (Owned, Once), that a new entry has a layer stored or *)
(* reserved as soon as the runner has passed it (Progress), that there is  *)
(* nothing under way between steps (Quiescent), and that a segment that a  *)
(* request has named is either lost or there (Kept).                       *)
(***************************************************************************)
EXTENDS Writeback, PinnedStoreProofs, SharedFacts

Member(s, q) == \E i \in 1..Len(q) : q[i] = s

Distinct(q) == \A i, j \in 1..Len(q) : q[i] = q[j] => i = j

\* The runner's steps with a request.
InTurn == {"begin", "reserve", "publish"}

WTypes ==
  /\ pc \in {"idle", "begin", "reserve", "publish", "raise", "stopped", "wait",
             "finish", "abort"}
  /\ todo \in Seq(Req \X Nat)
  /\ \A i \in 1..Len(todo) : todo[i][2] <= Len(Chunks[todo[i][1]])
  /\ layer \in Layer /\ chunk \in Nat \ {0}
  /\ pc \in InTurn => turn \in 1..Len(todo)
  /\ pending \in Seq(Seg) /\ segments \in [Req -> Seq(Seg)]
  /\ pool \in Seq(Batches) /\ faults \in Nat /\ stream \in BOOLEAN

\* Batch b will store layer l of s; so will the runner.
Holds(b, s, l) == b.layer = l /\ ~b.aborting /\ Member(s, b.rest)

RunnerHolds(s, l) ==
  /\ layer = l
  /\ \/ pc = "reserve" /\ Member(s, pending)
     \/ pc = "publish" /\ \E i \in 1..Len(pending) : chunk <= i /\ pending[i] = s

\* Whoever holds a reservation holds it alone; without faults all are held.
Owned ==
  \A s \in Seg, l \in Layer :
    /\ RunnerHolds(s, l) => <<s, l>> \in reserved
    /\ \A i \in 1..Len(pool) : Holds(pool[i], s, l) =>
         /\ <<s, l>> \in reserved /\ ~RunnerHolds(s, l)
         /\ \A j \in 1..Len(pool) : Holds(pool[j], s, l) => i = j
    /\ faults = 0 /\ <<s, l>> \in reserved =>
         RunnerHolds(s, l) \/ \E i \in 1..Len(pool) : Holds(pool[i], s, l)

\* No batch has a chunk twice, and none is aborted without a fault.
Once ==
  /\ \A i \in 1..Len(pool) : IF pool[i].aborting THEN faults > 0 ELSE Distinct(pool[i].rest)
  /\ pc \in {"reserve", "publish"} => Distinct(pending)
  /\ pc \in {"raise", "stopped"} => faults > 0
  /\ pc \in {"idle", "begin", "wait", "finish"} => pending = <<>>

\* Chunk c of the request at position t of the step names s.
Names(t, c, s) ==
  /\ t \in 1..Len(todo) /\ c \in 1..todo[t][2] /\ c <= Len(segments[todo[t][1]])
  /\ segments[todo[t][1]][c] = s

\* The runner has passed layer l of that chunk.
Passed(t, c, l) ==
  \/ pc = "wait" \/ l < layer
  \/ l = layer /\ (t < turn \/ (t = turn /\ (pc = "publish" \/ (pc = "reserve" /\ c < chunk))))

Progress ==
  faults = 0 /\ pc \in InTurn \cup {"wait"} =>
    \A s \in live \ (committed \cup failed) :
      \E t, c \in Nat : /\ Names(t, c, s)
                        /\ \A l \in Layer : Passed(t, c, l) => <<s, l>> \in stored \cup reserved

Quiescent ==
  pc \in {"idle", "finish", "abort"} =>
    pool = <<>> /\ (faults = 0 => live = committed /\ reserved = {})

\* While no publication failed, a failed entry was refused.
Kept ==
  faults = 0 =>
    /\ failed \subseteq lost
    /\ \A r \in Req : \A i \in 1..Len(segments[r]) :
         segments[r][i] \in lost \cup (live \ failed)

\* After its first layer, a request of the step has all its usable chunks named.
Begun ==
  /\ pc = "begin" => chunk = 1
  /\ pc \in InTurn => \A t \in 1..Len(todo) :
       1 < layer \/ t < turn \/ (t = turn /\ pc # "begin") =>
         todo[t][2] <= Len(segments[todo[t][1]])

WInv ==
  /\ IInv /\ WTypes /\ Owned /\ Once
  /\ Progress /\ Quiescent /\ Kept /\ Begun

-----------------------------------------------------------------------------
(* What the store's calls do                                               *)

\* A committed entry has no reservations.
LEMMA CommittedUnreserved ==
  ASSUME IInv, NEW gone, gone \subseteq committed
  PROVE  Outside(reserved, gone) = reserved
<1>1. \A p \in reserved : p[1] \in live /\ p[2] \in Layer /\ p = <<p[1], p[2]>>
  BY DEF IInv, TypeOK
<1>2. \A p \in reserved : p[1] \notin committed
  BY <1>1 DEF IInv, IndexExact, Bookkeeping
<1> QED BY <1>2 DEF Outside

\* Storing takes back the one reservation it is called with; entries that are still to
\* be completed lose nothing.
LEMMA PutEffects ==
  ASSUME IInv, NEW s \in Seg, NEW l \in Layer, PutLayerHost(s, l)
  PROVE  /\ reserved' = reserved \ {<<s, l>>}
         /\ failed' \subseteq failed \cup Taken
         /\ \A x \in live' \ (committed' \cup failed') :
              /\ x \in live \ (committed \cup failed)
              /\ \A k \in Layer : <<x, k>> \in stored \cup reserved =>
                                    <<x, k>> \in stored' \cup reserved'
<1> DEFINE left == reserved \ {<<s, l>>}
<1>1. EvictedFor(s, l) \subseteq committed \ {s}
  BY VictimsAreFree DEF EvictedFor
<1>2. \A gone : gone \subseteq committed => Outside(reserved, gone) = reserved
  BY CommittedUnreserved
<1>3. \A marked : Outside(left, Discardable(s, left, marked)) = left
  BY DEF Discardable, Outside, Of
<1>4. ASSUME NEW gone, NEW marked, RemoveEntries(gone, left, marked),
             failed \subseteq marked, s \in marked, marked \subseteq failed \cup {s},
             Outside(left, gone) = left, s \in live
      PROVE  /\ reserved' = left /\ failed' \subseteq failed \cup Taken
             /\ \A x \in live' \ (committed' \cup failed') :
                  /\ x \in live \ (committed \cup failed)
                  /\ \A k \in Layer : <<x, k>> \in stored \cup reserved =>
                                        <<x, k>> \in stored' \cup reserved'
  <2>1. /\ reserved' = left /\ failed' = marked \ gone /\ live' = live \ gone
        /\ committed' = committed \ gone /\ stored' = Outside(stored, gone)
    BY <1>4 DEF RemoveEntries
  <2>2. failed' \subseteq failed \cup Taken
    BY <1>4, <2>1 DEF Taken
  <2>3. ASSUME NEW x \in live' \ (committed' \cup failed')
        PROVE  x \in live \ (committed \cup failed) /\ x # s /\ x \notin gone
    BY <1>4, <2>1
  <2>4. ASSUME NEW x \in live' \ (committed' \cup failed'), NEW k \in Layer,
               <<x, k>> \in stored \cup reserved
        PROVE  <<x, k>> \in stored' \cup reserved'
    BY <2>1, <2>3, <2>4 DEF Outside
  <2> QED BY <2>1, <2>2, <2>3, <2>4
<1>5. CASE PutRejected(s, l)
  <2>1. /\ s \in live /\ s \in failed
        /\ RemoveEntries(Discardable(s, left, failed), left, failed)
    BY <1>5 DEF PutRejected
  <2> QED BY <1>3, <1>4, <2>1
<1>6. CASE PutIgnored(s, l)
  BY <1>6 DEF PutIgnored
<1>7. CASE PutOverCap(s, l)
  <2> DEFINE marked == failed \cup {s}
             gone   == EvictedFor(s, l) \cup Discardable(s, left, marked)
  <2>1. s \in live /\ RemoveEntries(gone, left, marked)
    BY <1>7 DEF PutOverCap
  <2>2. Outside(left, EvictedFor(s, l)) = left
    BY <1>1, <1>2 DEF Outside
  <2>3. Outside(left, gone) = left
    BY <1>3, <2>2 DEF Outside
  <2> HIDE DEF gone
  <2> QED BY <1>4, <2>1, <2>3
<1>8. CASE PutStored(s, l)
  <2> DEFINE gone == EvictedFor(s, l)
  <2>1. /\ reserved' = Outside(reserved, gone) \ {<<s, l>>} /\ failed' = failed \ gone
        /\ live' = live \ gone /\ committed \ gone \subseteq committed'
        /\ stored' = Outside(stored, gone) \cup {<<s, l>>}
    BY <1>8 DEF PutStored
  <2>2. Outside(reserved, gone) = reserved
    BY <1>1, <1>2
  <2> QED BY <2>1, <2>2 DEF Outside
<1> QED BY <1>5, <1>6, <1>7, <1>8 DEF PutLayerHost

LEMMA AbortEffects ==
  ASSUME IInv, NEW s, AbortOne(s)
  PROVE  /\ reserved' = reserved
         /\ s \in live \ committed \/ UNCHANGED vars
<1>1. CASE AbortPut(s)
  BY <1>1 DEF AbortPut, RemoveEntries, Discardable, Outside, Of
<1>2. CASE s \notin live \ committed /\ UNCHANGED vars
  BY <1>2 DEF vars
<1> QED BY <1>1, <1>2 DEF AbortOne

\* Readers neither complete nor remove anything.
LEMMA ReaderEffects ==
  ASSUME IInv, NEW r \in Req, Release(r) \/ \E plan \in Plans : Pin(r, plan)
  PROVE  UNCHANGED <<live, stored, reserved, committed, failed, index>>
<1>1. Victims(0, {}, Released(r)) = {}
  BY NoVictims DEF IInv
<1>2. Outside(stored, {}) = stored /\ Outside(reserved, {}) = reserved
  BY DEF Outside
<1>3. CASE Release(r)
  BY <1>1, <1>2, <1>3 DEF Release, RemoveEntries
<1>4. ASSUME NEW plan \in Plans, Pin(r, plan)
      PROVE  UNCHANGED <<live, stored, reserved, committed, failed, index>>
  BY <1>1, <1>2, <1>4 DEF Pin
<1> QED BY <1>3, <1>4

-----------------------------------------------------------------------------
(* Types, and the store's own invariant                                    *)

LEMMA ChunkType ==
  ASSUME NEW r \in Req, NEW c \in 1..Len(Chunks[r])
  PROVE  Chunks[r][c] \in Seg
BY ChunksAssumption

LEMMA LayerNumbers == Layer = 1..NumLayers /\ NumLayers \in Nat \ {0} /\ 1 \in Layer
BY LayersAssumption

LEMMA TailType ==
  ASSUME NEW S, NEW q \in Seq(S), q # <<>>
  PROVE  /\ Tail(q) \in Seq(S) /\ Len(Tail(q)) = Len(q) - 1 /\ Len(q) \in Nat \ {0}
         /\ Head(q) \in S /\ Head(q) = q[1]
         /\ \A i \in 1..(Len(q) - 1) : Tail(q)[i] = q[i + 1]
BY HeadTailProperties, EmptySeq, LenProperties

LEMMA AppendType ==
  ASSUME NEW S, NEW q \in Seq(S), NEW e \in S
  PROVE  /\ Append(q, e) \in Seq(S) /\ Len(Append(q, e)) = Len(q) + 1 /\ Len(q) \in Nat
         /\ Append(q, e)[Len(q) + 1] = e
         /\ \A i \in 1..Len(q) : Append(q, e)[i] = q[i]
BY AppendProperties

\* The runner's place after a turn: in a turn of the same step, or at its end.
LEMMA NextTurnType ==
  ASSUME WTypes, pc \in InTurn, NextTurn
  PROVE  /\ pc' \in {"begin", "wait"} /\ layer' \in Layer /\ chunk' = 1 /\ pending' = <<>>
         /\ pc' = "begin" => turn' \in 1..Len(todo)
<1>1. Len(todo) \in Nat /\ turn \in 1..Len(todo) /\ layer \in 1..NumLayers
  BY LayerNumbers DEF WTypes
<1>2. CASE turn < Len(todo)
  BY <1>1, <1>2 DEF NextTurn, WTypes
<1>3. CASE ~(turn < Len(todo)) /\ layer < NumLayers
  <2>1. layer + 1 \in Layer /\ 1 \in 1..Len(todo)
    BY <1>1, <1>3, LayerNumbers
  <2> QED BY <1>3, <2>1 DEF NextTurn
<1>4. CASE ~(turn < Len(todo)) /\ ~(layer < NumLayers)
  BY <1>4 DEF NextTurn, WTypes
<1> QED BY <1>2, <1>3, <1>4

\* The steps of the runner through the layers.
LEMMA TurnTypes ==
  ASSUME IInv, WTypes, Begin \/ Reserve \/ Skip \/ Enqueue \/ CopyInline \/ PublishInline
  PROVE  WTypes' /\ [Next]_vars
<1>1. /\ pc \in InTurn /\ turn \in 1..Len(todo) /\ Request \in Req /\ Usable \in Nat
      /\ Usable <= Len(Chunks[Request]) /\ Len(Chunks[Request]) \in Nat
      /\ todo' = todo /\ faults' = faults /\ stream' = stream
  <2>1. pc \in InTurn /\ turn \in 1..Len(todo)
    BY DEF Begin, Reserve, Skip, Enqueue, CopyInline, PublishInline, InTurn, WTypes
  <2>2. todo[turn] \in Req \X Nat
    BY <2>1 DEF WTypes
  <2>3. Request \in Req /\ Usable \in Nat /\ Usable <= Len(Chunks[Request])
    BY <2>1, <2>2 DEF Request, Usable, WTypes
  <2>4. Len(Chunks[Request]) \in Nat
    BY <2>3, ChunksAssumption
  <2>5. todo' = todo /\ faults' = faults /\ stream' = stream
    BY DEF Begin, Reserve, Skip, Enqueue, CopyInline, PublishInline, stepVars, history
  <2> QED BY <2>1, <2>3, <2>4, <2>5
<1>2. CASE Begin
  <2> DEFINE n == Len(segments[Request])
             s == Chunks[Request][n + 1]
  <2>1. n \in Nat /\ segments[Request] \in Seq(Seg)
    BY <1>1 DEF WTypes
  <2>2. CASE n < Usable
    <3>1. s \in Seg
      <4>1. n + 1 \in 1..Len(Chunks[Request])
        BY <1>1, <2>1, <2>2
      <4> QED BY <1>1, <4>1, ChunkType
    <3>2. /\ BeginPut(s) /\ segments' = [segments EXCEPT ![Request] = Append(@, s)]
          /\ UNCHANGED <<pc, stepVars, chunk, pending, poolVars>>
      BY <1>2, <2>2 DEF Begin
    <3> HIDE DEF s
    <3>3. Append(segments[Request], s) \in Seq(Seg)
      BY <2>1, <3>1, AppendType
    <3>4. segments' \in [Req -> Seq(Seg)]
      BY <1>1, <3>2, <3>3 DEF WTypes
    <3> QED BY <1>1, <3>1, <3>2, <3>4 DEF WTypes, Next, stepVars, poolVars
  <2>3. CASE ~(n < Usable)
    BY <1>1, <1>2, <2>3 DEF Begin, WTypes, stepVars, poolVars, InTurn
  <2> QED BY <2>2, <2>3
<1>3. CASE Reserve
  <2> DEFINE s == segments[Request][chunk]
  <2>1. /\ chunk' \in Nat \ {0} /\ UNCHANGED <<pc, stepVars, segments, poolVars>>
        /\ \/ ReserveLayer(s, layer) /\ pending' = Append(pending, s)
           \/ UNCHANGED <<vars, pending>>
    BY <1>3 DEF Reserve, WTypes
  <2>2. layer \in Layer /\ pending \in Seq(Seg)
    BY DEF WTypes
  <2>3. ReserveLayer(s, layer) => s \in Seg
    BY DEF ReserveLayer, IInv, TypeOK
  <2> HIDE DEF s
  <2>4. pending' \in Seq(Seg)
    BY <2>1, <2>2, <2>3, AppendType
  <2>5. [Next]_vars
    BY <2>1, <2>2, <2>3 DEF Next
  <2> QED BY <1>1, <2>1, <2>4, <2>5 DEF WTypes, stepVars, poolVars
<1>4. CASE Skip
  <2>1. NextTurn /\ UNCHANGED <<vars, segments, poolVars>>
    BY <1>4 DEF Skip
  <2>2. <<>> \in Seq(Seg)
    OBVIOUS
  <2>3. /\ pc' \in {"begin", "wait"} /\ layer' \in Layer /\ chunk' = 1 /\ pending' = <<>>
        /\ pc' = "begin" => turn' \in 1..Len(todo)
    BY <1>1, <2>1, NextTurnType
  <2> QED BY <1>1, <2>1, <2>2, <2>3 DEF WTypes, poolVars, InTurn
<1>5. CASE Enqueue
  <2> DEFINE b == [layer |-> layer, all |-> pending, rest |-> pending,
                   copied |-> FALSE, aborting |-> FALSE]
  <2>1. NextTurn /\ pool' = Append(pool, b) /\ UNCHANGED <<vars, segments>>
    BY <1>5 DEF Enqueue
  <2>2. b \in Batches /\ <<>> \in Seq(Seg)
    BY DEF Batches, WTypes
  <2> HIDE DEF b
  <2>3. pool' \in Seq(Batches)
    BY <2>1, <2>2, AppendType DEF WTypes
  <2>4. /\ pc' \in {"begin", "wait"} /\ layer' \in Layer /\ chunk' = 1 /\ pending' = <<>>
        /\ pc' = "begin" => turn' \in 1..Len(todo)
    BY <1>1, <2>1, NextTurnType
  <2> QED BY <1>1, <2>1, <2>2, <2>3, <2>4 DEF WTypes, InTurn
<1>6. CASE CopyInline
  BY <1>1, <1>6 DEF CopyInline, WTypes, stepVars, poolVars, InTurn
<1>7. CASE PublishInline
  <2>1. CASE chunk <= Len(pending)
    <3> DEFINE s == pending[chunk]
    <3>1. chunk \in 1..Len(pending) /\ s \in Seg /\ layer \in Layer
      BY <2>1 DEF WTypes
    <3>2. /\ PutLayerHost(s, layer) \/ UNCHANGED vars
          /\ chunk' = chunk + 1 /\ UNCHANGED <<pc, stepVars, pending, segments, poolVars>>
      BY <1>7, <2>1 DEF PublishInline
    <3> HIDE DEF s
    <3>3. [Next]_vars
      BY <3>1, <3>2 DEF Next
    <3> QED BY <1>1, <3>2, <3>3 DEF WTypes, stepVars, poolVars
  <2>2. CASE ~(chunk <= Len(pending))
    <3>1. NextTurn /\ UNCHANGED <<vars, segments, poolVars>>
      BY <1>7, <2>2 DEF PublishInline
    <3>2. <<>> \in Seq(Seg)
      OBVIOUS
    <3>3. /\ pc' \in {"begin", "wait"} /\ layer' \in Layer /\ chunk' = 1 /\ pending' = <<>>
          /\ pc' = "begin" => turn' \in 1..Len(todo)
      BY <1>1, <3>1, NextTurnType
    <3> QED BY <1>1, <3>1, <3>2, <3>3 DEF WTypes, poolVars, InTurn
  <2> QED BY <2>1, <2>2
<1> QED BY <1>2, <1>3, <1>4, <1>5, <1>6, <1>7

LEMMA AbortNext ==
  ASSUME NEW s \in Seg, AbortOne(s)
  PROVE  [Next]_vars
BY DEF AbortOne, Next

LEMMA StartTypes ==
  ASSUME WTypes, StartStep
  PROVE  /\ WTypes' /\ UNCHANGED vars
         /\ pc = "idle" /\ pc' = "begin" /\ layer' = 1 /\ turn' = 1 /\ chunk' = 1
         /\ UNCHANGED <<pending, segments, pool, faults, lost, stream>>
<1>1. PICK order \in {o \in SetToSeqs(Req) \cup {<<r>> : r \in Req} : o # <<>>},
           n \in [Req -> UNION {0..Len(Chunks[r]) : r \in Req}] :
        /\ \A r \in Req : n[r] <= Len(Chunks[r])
        /\ todo' = [i \in DOMAIN order |-> <<order[i], n[order[i]]>>]
  BY DEF StartStep
<1>2. order \in Seq(Req) /\ Len(order) \in Nat \ {0} /\ DOMAIN order = 1..Len(order)
  <2>1. Cardinality(Req) \in Nat
    BY ReqAssumption, FS_CardinalityType
  <2>2. CASE order \in SetToSeqs(Req)
    <3>1. order \in [1..Cardinality(Req) -> Req]
      BY <2>2 DEF SetToSeqs
    <3> QED BY <2>1, <3>1, SeqDef
  <2>3. order \in Seq(Req)
    <3>1. \A r \in Req : <<r>> \in Seq(Req)
      OBVIOUS
    <3> QED BY <2>2, <3>1
  <2> QED BY <2>3, EmptySeq, LenProperties
<1>3. \A r \in Req : n[r] \in Nat
  BY <1>1
<1>4. /\ todo' \in Seq(Req \X Nat) /\ Len(todo') = Len(order)
      /\ \A i \in 1..Len(order) : todo'[i] = <<order[i], n[order[i]]>>
      /\ \A i \in 1..Len(order) : order[i] \in Req
  <2>1. todo' = [i \in 1..Len(order) |-> <<order[i], n[order[i]]>>]
    BY <1>1, <1>2
  <2>2. \A i \in 1..Len(order) : <<order[i], n[order[i]]>> \in Req \X Nat
    BY <1>2, <1>3
  <2> QED BY <1>2, <2>1, <2>2
<1>5. ASSUME NEW i \in 1..Len(todo')
      PROVE  todo'[i][2] <= Len(Chunks[todo'[i][1]])
  <2>1. i \in 1..Len(order)
    BY <1>4
  <2>2. todo'[i] = <<order[i], n[order[i]]>> /\ order[i] \in Req
    BY <1>4, <2>1
  <2>3. todo'[i][1] = order[i] /\ todo'[i][2] = n[order[i]]
    BY <2>2
  <2> QED BY <1>1, <2>2, <2>3
<1>6. /\ pc = "idle" /\ pc' = "begin" /\ layer' = 1 /\ turn' = 1 /\ chunk' = 1
      /\ UNCHANGED <<vars, pending, segments, pool, faults, lost, stream>>
  BY DEF StartStep, poolVars, history
<1>7. 1 \in 1..Len(todo') /\ 1 \in Layer
  BY <1>2, <1>4, LayerNumbers
<1> QED BY <1>4, <1>5, <1>6, <1>7 DEF WTypes

\* The steps of the runner outside the turns, of readers, and no step.
LEMMA QuietTypes ==
  ASSUME IInv, WTypes,
         \/ AbortRaised \/ WaitForSave \/ FinishAbort \/ EndStep \/ Raise \/ Reader
         \/ (\E r \in Req : FinishRequest(r)) \/ UNCHANGED wvars
  PROVE  WTypes' /\ [Next]_vars
<1>1. CASE AbortRaised \/ FinishAbort
  <2>1. /\ pc' \in {"raise", "abort", "finish", "stopped"}
        /\ UNCHANGED <<stepVars, chunk, segments, poolVars, history>>
    BY <1>1 DEF AbortRaised, FinishAbort
  <2>2. \/ UNCHANGED <<vars, pending>>
        \/ pending # <<>> /\ AbortOne(Head(pending)) /\ pending' = Tail(pending)
    BY <1>1 DEF AbortRaised, FinishAbort
  <2>3. pending' \in Seq(Seg) /\ [Next]_vars
    <3>1. CASE UNCHANGED <<vars, pending>>
      BY <3>1 DEF WTypes
    <3>2. CASE pending # <<>> /\ AbortOne(Head(pending)) /\ pending' = Tail(pending)
      <4>1. Head(pending) \in Seg /\ Tail(pending) \in Seq(Seg)
        BY <3>2, TailType DEF WTypes
      <4> QED BY <3>2, <4>1, AbortNext
    <3> QED BY <2>2, <3>1, <3>2
  <2> QED BY <2>1, <2>3 DEF WTypes, stepVars, poolVars, history, InTurn
<1>2. CASE WaitForSave \/ Raise
  <2>1. /\ pc' \in {"finish", "raise"} /\ faults' \in Nat
        /\ UNCHANGED <<vars, stepVars, chunk, pending, segments, poolVars>>
    BY <1>2 DEF WaitForSave, Raise, history, WTypes
  <2> QED BY <2>1 DEF WTypes, stepVars, poolVars, InTurn
<1>3. CASE EndStep
  <2>1. /\ pc' = "idle" /\ todo' = <<>> /\ layer' = 1
        /\ UNCHANGED <<vars, turn, stream, chunk, pending, segments, poolVars, history>>
    BY <1>3 DEF EndStep
  <2>2. <<>> \in Seq(Req \X Nat) /\ Len(<<>>) = 0 /\ 1..0 = {}
    OBVIOUS
  <2>3. todo' \in Seq(Req \X Nat) /\ 1..Len(todo') = {}
    BY <2>1, <2>2
  <2> QED BY <2>1, <2>3, LayerNumbers DEF WTypes, poolVars, history, InTurn
<1>4. ASSUME NEW r \in Req, FinishRequest(r)
      PROVE  WTypes' /\ [Next]_vars
  <2>1. /\ Release(r) /\ pending' = segments[r] /\ pc' = "abort"
        /\ segments' = [segments EXCEPT ![r] = <<>>]
        /\ UNCHANGED <<stepVars, chunk, poolVars, history>>
    BY <1>4 DEF FinishRequest
  <2>2. segments' \in [Req -> Seq(Seg)] /\ pending' \in Seq(Seg)
    BY <2>1 DEF WTypes
  <2>3. [Next]_vars
    BY <2>1 DEF Next
  <2> QED BY <2>1, <2>2, <2>3 DEF WTypes, stepVars, poolVars, history, InTurn
<1>5. CASE Reader
  <2>1. UNCHANGED <<runnerVars, poolVars, history>> /\ [Next]_vars
    BY <1>5 DEF Reader, Next
  <2> QED BY <2>1 DEF WTypes, runnerVars, stepVars, poolVars, history
<1>6. CASE UNCHANGED wvars
  BY <1>6 DEF wvars, WTypes, runnerVars, stepVars, poolVars, history
<1> QED BY <1>1, <1>2, <1>3, <1>4, <1>5, <1>6

\* The stream and the pool.
LEMMA PoolTypes ==
  ASSUME IInv, WTypes, NEW i \in Nat,
         Copy(i) \/ Publish(i) \/ PublishFails(i) \/ AbortBatch(i) \/ Done(i)
  PROVE  WTypes' /\ [Next]_vars
<1>1. /\ i \in 1..Len(pool) /\ pool[i] \in Batches /\ pool \in Seq(Batches)
      /\ pool[i].rest \in Seq(Seg) /\ pool[i].layer \in Layer
  <2>1. i \in 1..Len(pool)
    BY DEF Copy, Publish, PublishFails, AbortBatch, Done, Active, WTypes
  <2>2. pool \in Seq(Batches) /\ pool[i] \in Batches
    BY <2>1 DEF WTypes
  <2> QED BY <2>1, <2>2 DEF Batches
<1>2. \A b \in Batches : [pool EXCEPT ![i] = b] \in Seq(Batches)
  BY <1>1
<1>3. runnerVars' = runnerVars /\ faults' \in Nat
  BY DEF Copy, Publish, PublishFails, AbortBatch, Done, history, WTypes
<1>4. pool[i].rest # <<>> =>
        /\ Head(pool[i].rest) \in Seg /\ Tail(pool[i].rest) \in Seq(Seg)
        /\ [pool[i] EXCEPT !.rest = Tail(@)] \in Batches
  <2> SUFFICES ASSUME pool[i].rest # <<>>
               PROVE  /\ Head(pool[i].rest) \in Seg /\ Tail(pool[i].rest) \in Seq(Seg)
                      /\ [pool[i] EXCEPT !.rest = Tail(@)] \in Batches
    OBVIOUS
  <2>1. Head(pool[i].rest) \in Seg /\ Tail(pool[i].rest) \in Seq(Seg)
    BY <1>1, TailType
  <2> QED BY <1>1, <2>1 DEF Batches
<1>5. pool' \in Seq(Batches)
  <2>1. CASE Copy(i)
    <3>1. [pool[i] EXCEPT !.copied = TRUE] \in Batches
      BY <1>1 DEF Batches
    <3>2. pool' = [pool EXCEPT ![i] = [pool[i] EXCEPT !.copied = TRUE]]
      BY <2>1, <1>1 DEF Copy
    <3> QED BY <1>2, <3>1, <3>2
  <2>2. CASE Publish(i) \/ AbortBatch(i)
    <3>1. /\ pool[i].rest # <<>>
          /\ pool' = [pool EXCEPT ![i] = [pool[i] EXCEPT !.rest = Tail(@)]]
      BY <2>2, <1>1 DEF Publish, AbortBatch, Rest
    <3> QED BY <1>2, <1>4, <3>1
  <2>3. CASE PublishFails(i)
    <3> DEFINE b == [pool[i] EXCEPT !.aborting = TRUE, !.copied = TRUE, !.rest = pool[i].all]
    <3>1. b \in Batches
      BY <1>1 DEF Batches
    <3>2. pool' = [pool EXCEPT ![i] = b]
      BY <2>3, <1>1 DEF PublishFails
    <3> QED BY <1>2, <3>1, <3>2
  <2>4. CASE Done(i)
    BY <2>4, <1>1, RemoveAtShifts DEF Done
  <2> QED BY <2>1, <2>2, <2>3, <2>4
<1>6. [Next]_vars
  <2>1. CASE Publish(i)
    <3>1. \/ PutLayerHost(Head(pool[i].rest), pool[i].layer) \/ UNCHANGED vars
      BY <2>1 DEF Publish
    <3>2. Head(pool[i].rest) \in Seg
      BY <1>4, <2>1 DEF Publish
    <3> QED BY <1>1, <3>1, <3>2 DEF Next
  <2>2. CASE AbortBatch(i)
    <3>1. AbortOne(Head(pool[i].rest)) /\ Head(pool[i].rest) \in Seg
      BY <1>4, <2>2 DEF AbortBatch
    <3> QED BY <3>1, AbortNext
  <2>3. CASE Copy(i) \/ PublishFails(i) \/ Done(i)
    BY <2>3 DEF Copy, PublishFails, Done
  <2> QED BY <2>1, <2>2, <2>3
<1> QED BY <1>3, <1>5, <1>6 DEF WTypes, runnerVars, stepVars

\* Every step of the pipeline is a step of the store, or leaves it alone.
LEMMA StoreStep ==
  ASSUME IInv, WTypes, [WNext]_wvars
  PROVE  WTypes' /\ [Next]_vars
<1>1. \A i \in 1..MaxInflight : i \in Nat
  BY WorkersAssumption
<1>2. \A i \in 1..MaxInflight :
        Copy(i) \/ Publish(i) \/ PublishFails(i) \/ AbortBatch(i) \/ Done(i) =>
          WTypes' /\ [Next]_vars
  BY <1>1, PoolTypes
<1>3. StartStep => WTypes' /\ [Next]_vars
  BY StartTypes
<1> QED BY <1>2, <1>3, TurnTypes, QuietTypes DEF WNext, Runner, Pool

LEMMA TypesStep == IInv /\ WTypes /\ [WNext]_wvars => IInv' /\ WTypes'
BY StoreStep, NextKeepsIInv

-----------------------------------------------------------------------------
(* Who holds a reservation                                                 *)

\* The holders of what is given up go with it; without faults, the others stay.
LEMMA OwnedMoves ==
  ASSUME Owned, Len(pool') = Len(pool), NEW R, reserved' = reserved \ R,
         faults' = 0 => faults = 0,
         \A s \in Seg, l \in Layer :
           /\ RunnerHolds(s, l)' => RunnerHolds(s, l) /\ <<s, l>> \notin R
           /\ \A i \in 1..Len(pool) :
                Holds(pool'[i], s, l) => Holds(pool[i], s, l) /\ <<s, l>> \notin R
           /\ faults' = 0 /\ <<s, l>> \notin R =>
                /\ RunnerHolds(s, l) => RunnerHolds(s, l)'
                /\ \A i \in 1..Len(pool) : Holds(pool[i], s, l) => Holds(pool'[i], s, l)
  PROVE  Owned'
<1> SUFFICES ASSUME NEW s \in Seg, NEW l \in Layer
             PROVE  /\ RunnerHolds(s, l)' => <<s, l>> \in reserved'
                    /\ \A i \in 1..Len(pool) : Holds(pool'[i], s, l) =>
                         /\ <<s, l>> \in reserved' /\ ~RunnerHolds(s, l)'
                         /\ \A j \in 1..Len(pool) : Holds(pool'[j], s, l) => i = j
                    /\ faults' = 0 /\ <<s, l>> \in reserved' =>
                         \/ RunnerHolds(s, l)'
                         \/ \E i \in 1..Len(pool) : Holds(pool'[i], s, l)
  BY DEF Owned
<1>1. /\ RunnerHolds(s, l) => <<s, l>> \in reserved
      /\ \A i \in 1..Len(pool) : Holds(pool[i], s, l) =>
           /\ <<s, l>> \in reserved /\ ~RunnerHolds(s, l)
           /\ \A j \in 1..Len(pool) : Holds(pool[j], s, l) => i = j
      /\ faults = 0 /\ <<s, l>> \in reserved =>
           RunnerHolds(s, l) \/ \E i \in 1..Len(pool) : Holds(pool[i], s, l)
  BY DEF Owned
<1>2. RunnerHolds(s, l)' => <<s, l>> \in reserved'
  BY <1>1
<1>3. ASSUME NEW i \in 1..Len(pool), Holds(pool'[i], s, l)
      PROVE  /\ <<s, l>> \in reserved' /\ ~RunnerHolds(s, l)'
             /\ \A j \in 1..Len(pool) : Holds(pool'[j], s, l) => i = j
  BY <1>1, <1>3
<1>4. ASSUME faults' = 0, <<s, l>> \in reserved'
      PROVE  \/ RunnerHolds(s, l)'
             \/ \E i \in 1..Len(pool) : Holds(pool'[i], s, l)
  <2>1. <<s, l>> \notin R /\ <<s, l>> \in reserved /\ faults = 0
    BY <1>4
  <2> QED BY <1>1, <1>4, <2>1
<1> QED BY <1>2, <1>3, <1>4

\* One batch changes: what it gives up was its own.
LEMMA OwnedBatch ==
  ASSUME WTypes, Owned, NEW i \in 1..Len(pool), NEW b, pool' = [pool EXCEPT ![i] = b],
         UNCHANGED runnerVars, NEW R, reserved' = reserved \ R, faults' = 0 => faults = 0,
         \A s \in Seg, l \in Layer :
           /\ <<s, l>> \in R => Holds(pool[i], s, l) /\ ~Holds(b, s, l)
           /\ Holds(b, s, l) => Holds(pool[i], s, l)
           /\ faults' = 0 /\ Holds(pool[i], s, l) /\ <<s, l>> \notin R => Holds(b, s, l)
  PROVE  Owned'
<1>1. /\ Len(pool') = Len(pool) /\ pool'[i] = b
      /\ \A j \in 1..Len(pool) : j # i => pool'[j] = pool[j]
  BY DEF WTypes
<1>2. ASSUME NEW s \in Seg, NEW l \in Layer
      PROVE  /\ RunnerHolds(s, l)' <=> RunnerHolds(s, l)
             /\ <<s, l>> \in R => ~RunnerHolds(s, l)
             /\ \A j \in 1..Len(pool) : Holds(pool'[j], s, l) =>
                  Holds(pool[j], s, l) /\ <<s, l>> \notin R
             /\ faults' = 0 /\ <<s, l>> \notin R =>
                  \A j \in 1..Len(pool) : Holds(pool[j], s, l) => Holds(pool'[j], s, l)
  <2>1. RunnerHolds(s, l)' <=> RunnerHolds(s, l)
    BY DEF RunnerHolds, runnerVars, stepVars
  <2>2. <<s, l>> \in R => ~RunnerHolds(s, l)
    BY DEF Owned
  <2>3. ASSUME NEW j \in 1..Len(pool), Holds(pool'[j], s, l)
        PROVE  Holds(pool[j], s, l) /\ <<s, l>> \notin R
    BY <1>1, <2>3 DEF Owned
  <2>4. ASSUME NEW j \in 1..Len(pool), faults' = 0, <<s, l>> \notin R, Holds(pool[j], s, l)
        PROVE  Holds(pool'[j], s, l)
    BY <1>1, <2>4
  <2> QED BY <2>1, <2>2, <2>3, <2>4
<1> QED BY <1>1, <1>2, OwnedMoves

\* The first chunk of a batch, and the rest without it.
LEMMA FirstOfBatch ==
  ASSUME NEW q \in Seq(Seg), q # <<>>
  PROVE  /\ Head(q) \in Seg /\ Member(Head(q), q)
         /\ \A s : Member(s, q) <=> s = Head(q) \/ Member(s, Tail(q))
         /\ Distinct(q) => Distinct(Tail(q)) /\ ~Member(Head(q), Tail(q))
<1> DEFINE t == Tail(q)
<1>2. /\ t \in Seq(Seg) /\ Len(t) = Len(q) - 1 /\ Len(q) \in Nat \ {0}
      /\ Head(q) \in Seg /\ Head(q) = q[1]
      /\ \A i \in 1..(Len(q) - 1) : t[i] = q[i + 1]
  BY TailType
<1>3. /\ \A i \in 1..(Len(q) - 1) : i + 1 \in 1..Len(q) /\ i + 1 # 1
      /\ \A i \in 1..Len(q) : i = 1 \/ (i - 1 \in 1..(Len(q) - 1) /\ (i - 1) + 1 = i)
      /\ 1 \in 1..Len(q)
      /\ \A i, j \in 1..(Len(q) - 1) : i + 1 = j + 1 => i = j
  BY <1>2
<1> HIDE DEF t
<1>4. Member(Head(q), q)
  BY <1>2, <1>3 DEF Member
<1>5. ASSUME NEW s
      PROVE  Member(s, q) <=> s = Head(q) \/ Member(s, t)
  <2>1. ASSUME NEW i \in 1..(Len(q) - 1), t[i] = s
        PROVE  Member(s, q)
    BY <1>2, <1>3, <2>1 DEF Member
  <2>2. ASSUME NEW i \in 1..Len(q), q[i] = s, s # Head(q)
        PROVE  Member(s, t)
    <3>1. i - 1 \in 1..(Len(q) - 1) /\ (i - 1) + 1 = i
      BY <1>2, <1>3, <2>2
    <3>2. t[i - 1] = s
      BY <1>2, <2>2, <3>1
    <3> QED BY <1>2, <3>1, <3>2 DEF Member
  <2> QED BY <1>2, <1>4, <2>1, <2>2 DEF Member
<1>6. ASSUME Distinct(q)
      PROVE  Distinct(t) /\ ~Member(Head(q), t)
  <2>1. Distinct(t)
    BY <1>2, <1>3, <1>6 DEF Distinct
  <2>2. ASSUME NEW i \in 1..(Len(q) - 1), t[i] = Head(q)
        PROVE  FALSE
    <3>1. q[i + 1] = q[1] /\ i + 1 \in 1..Len(q) /\ i + 1 # 1 /\ 1 \in 1..Len(q)
      BY <1>2, <1>3, <2>2
    <3> QED BY <1>6, <3>1 DEF Distinct
  <2> QED BY <1>2, <2>1, <2>2 DEF Member
<1> QED BY <1>2, <1>4, <1>5, <1>6 DEF t

\* The stream and the pool: a batch gives up each chunk with its reservation.
LEMMA OwnedPool ==
  ASSUME IInv, WTypes, Owned, Once, NEW i \in Nat,
         Copy(i) \/ Publish(i) \/ PublishFails(i) \/ AbortBatch(i) \/ Done(i)
  PROVE  Owned' /\ Once'
<1>1. /\ i \in 1..Len(pool) /\ pool \in Seq(Batches) /\ pool[i] \in Batches
      /\ UNCHANGED runnerVars
  <2>1. i \in 1..Len(pool) /\ UNCHANGED runnerVars
    BY DEF Copy, Publish, PublishFails, AbortBatch, Done, Active, WTypes
  <2> QED BY <2>1 DEF WTypes
<1>2. ASSUME NEW b, pool' = [pool EXCEPT ![i] = b], faults' = 0 => faults = 0,
             faults \in Nat, faults' \in Nat, IF b.aborting THEN faults' > 0 ELSE Distinct(b.rest)
      PROVE  Once'
  <2>1. /\ Len(pool') = Len(pool) /\ pool'[i] = b
        /\ \A j \in 1..Len(pool) : j # i => pool'[j] = pool[j]
    BY <1>1, <1>2
  <2>2. faults > 0 => faults' > 0
    BY <1>2
  <2> QED BY <1>1, <1>2, <2>1, <2>2 DEF Once, runnerVars, stepVars
<1>3. faults \in Nat
  BY DEF WTypes
<1>4. IF pool[i].aborting THEN faults > 0 ELSE Distinct(pool[i].rest)
  BY <1>1 DEF Once
<1>5. CASE Copy(i)
  <2> DEFINE b == [pool[i] EXCEPT !.copied = TRUE]
  <2>1. pool' = [pool EXCEPT ![i] = b] /\ reserved' = reserved \ {} /\ faults' = faults
    BY <1>1, <1>5 DEF Copy, vars, history
  <2>2. b.layer = pool[i].layer /\ b.aborting = pool[i].aborting /\ b.rest = pool[i].rest
    BY <1>1 DEF Batches
  <2>3. \A s, l : Holds(b, s, l) <=> Holds(pool[i], s, l)
    BY <2>2 DEF Holds
  <2>4. Owned'
    <3> HIDE DEF b
    <3> DEFINE R == {}
    <3>1. reserved' = reserved \ R /\ \A x : x \notin R
      BY <2>1
    <3> HIDE DEF R
    <3> QED BY <1>1, <2>1, <2>3, <3>1, OwnedBatch
  <2> HIDE DEF b
  <2>5. Once'
    BY <1>2, <1>3, <1>4, <2>1, <2>2
  <2> QED BY <2>4, <2>5
<1>6. CASE Publish(i) \/ AbortBatch(i)
  <2> DEFINE b == [pool[i] EXCEPT !.rest = Tail(@)]
             s == Head(pool[i].rest)
             R == IF pool[i].aborting THEN {} ELSE {<<s, pool[i].layer>>}
  <2>1. pool[i].rest # <<>> /\ pool' = [pool EXCEPT ![i] = b] /\ faults' = faults
    BY <1>1, <1>6 DEF Publish, AbortBatch, Rest, history
  <2>2. /\ s \in Seg /\ b.layer = pool[i].layer /\ b.aborting = pool[i].aborting
        /\ \A x : Member(x, pool[i].rest) <=> x = s \/ Member(x, b.rest)
        /\ Distinct(pool[i].rest) => Distinct(b.rest) /\ ~Member(s, b.rest)
    <3>1. /\ b.layer = pool[i].layer /\ b.aborting = pool[i].aborting
          /\ b.rest = Tail(pool[i].rest) /\ pool[i].rest \in Seq(Seg)
      BY <1>1 DEF Batches
    <3> HIDE DEF b
    <3>2. pool[i].rest # <<>>
      BY <2>1
    <3> QED BY <3>1, <3>2, FirstOfBatch
  <2>3. pool[i].layer \in Layer
    BY <1>1 DEF Batches
  <2>4. reserved' = reserved \ R
    <3>1. CASE pool[i].aborting
      <4>1. AbortOne(s)
        BY <1>6, <3>1 DEF Publish, AbortBatch
      <4> QED BY <3>1, <4>1, AbortEffects
    <3>2. CASE ~pool[i].aborting
      <4>1. PutLayerHost(s, pool[i].layer) \/ (s \notin live /\ UNCHANGED vars)
        BY <1>6, <3>2 DEF Publish, AbortBatch
      <4>2. Holds(pool[i], s, pool[i].layer)
        BY <2>2, <3>2 DEF Holds
      <4>3. <<s, pool[i].layer>> \in reserved
        BY <1>1, <2>2, <2>3, <4>2 DEF Owned
      <4>4. s \in live
        BY <4>3 DEF IInv, TypeOK
      <4>5. PutLayerHost(s, pool[i].layer)
        BY <4>1, <4>4
      <4> QED BY <2>2, <2>3, <3>2, <4>5, PutEffects
    <3> QED BY <3>1, <3>2
  <2> HIDE DEF b, s
  <2>5. ASSUME NEW x \in Seg, NEW l \in Layer
        PROVE  /\ <<x, l>> \in R => Holds(pool[i], x, l) /\ ~Holds(b, x, l)
               /\ Holds(b, x, l) => Holds(pool[i], x, l)
               /\ Holds(pool[i], x, l) /\ <<x, l>> \notin R => Holds(b, x, l)
    BY <1>4, <2>2 DEF Holds
  <2> HIDE DEF R
  <2>6. Owned'
    BY <1>1, <2>1, <2>4, <2>5, OwnedBatch
  <2>7. Once'
    BY <1>2, <1>3, <1>4, <2>1, <2>2
  <2> QED BY <2>6, <2>7
<1>7. CASE PublishFails(i)
  <2> DEFINE b == [pool[i] EXCEPT !.aborting = TRUE, !.copied = TRUE, !.rest = pool[i].all]
  <2>1. pool' = [pool EXCEPT ![i] = b] /\ reserved' = reserved /\ faults' = faults + 1
    BY <1>1, <1>7 DEF PublishFails, vars
  <2>2. b.aborting
    BY <1>1 DEF Batches
  <2> HIDE DEF b
  <2>3. faults' > 0 /\ faults' # 0 /\ faults' \in Nat
    BY <1>3, <2>1
  <2>4. Owned'
    <3> DEFINE R == {}
    <3>1. reserved' = reserved \ R /\ \A x : x \notin R
      BY <2>1
    <3>2. \A x, l : ~Holds(b, x, l)
      BY <2>2 DEF Holds
    <3> HIDE DEF R
    <3> QED BY <1>1, <2>1, <2>3, <3>1, <3>2, OwnedBatch
  <2>5. Once'
    BY <1>2, <1>3, <2>1, <2>2, <2>3
  <2> QED BY <2>4, <2>5
<1>8. CASE Done(i)
  <2>1. /\ pool' = RemoveAt(pool, i) /\ pool[i].rest = <<>>
        /\ reserved' = reserved /\ faults' = faults
    BY <1>8 DEF Done, vars, history
  <2> DEFINE n == Len(pool)
             At(j) == IF j < i THEN j ELSE j + 1
  <2>2. /\ n \in Nat /\ Len(pool') = n - 1
        /\ \A j \in 1..(n - 1) : pool'[j] = IF j < i THEN pool[j] ELSE pool[j + 1]
    <3>1. /\ Len(RemoveAt(pool, i)) = Len(pool) - 1
          /\ \A j \in 1..(Len(pool) - 1) :
               RemoveAt(pool, i)[j] = IF j < i THEN pool[j] ELSE pool[j + 1]
      BY <1>1, RemoveAtShifts
    <3> QED BY <1>1, <2>1, <3>1
  <2>3. /\ \A j \in 1..(n - 1) : At(j) \in 1..n /\ At(j) # i
        /\ \A j, k \in 1..(n - 1) : At(j) = At(k) => j = k
    BY <1>1, <2>2
  <2>4. ASSUME NEW j \in 1..n, j # i
        PROVE  \E k \in 1..(n - 1) : At(k) = j
    <3>1. CASE j < i
      <4>1. j \in 1..(n - 1) /\ At(j) = j
        BY <1>1, <2>2, <3>1
      <4> QED BY <4>1
    <3>2. CASE ~(j < i)
      <4>1. j - 1 \in 1..(n - 1) /\ At(j - 1) = j
        BY <1>1, <2>2, <2>4, <3>2
      <4> QED BY <4>1
    <3> QED BY <3>1, <3>2
  <2>5. \A j \in 1..(n - 1) : pool'[j] = pool[At(j)]
    BY <2>2
  <2>6. \A s, l : ~Holds(pool[i], s, l)
    BY <2>1 DEF Holds, Member
  <2> HIDE DEF At
  <2>7. ASSUME NEW s \in Seg, NEW l \in Layer
        PROVE  /\ RunnerHolds(s, l)' <=> RunnerHolds(s, l)
               /\ \A j \in 1..(n - 1) : Holds(pool'[j], s, l) <=> Holds(pool[At(j)], s, l)
               /\ (\E j \in 1..n : Holds(pool[j], s, l)) =>
                    \E j \in 1..(n - 1) : Holds(pool'[j], s, l)
    BY <1>1, <2>4, <2>5, <2>6 DEF RunnerHolds, runnerVars, stepVars
  <2>8. Owned'
    <3> SUFFICES ASSUME NEW s \in Seg, NEW l \in Layer
                 PROVE  /\ RunnerHolds(s, l)' => <<s, l>> \in reserved'
                        /\ \A j \in 1..(n - 1) : Holds(pool'[j], s, l) =>
                             /\ <<s, l>> \in reserved' /\ ~RunnerHolds(s, l)'
                             /\ \A k \in 1..(n - 1) : Holds(pool'[k], s, l) => j = k
                        /\ faults' = 0 /\ <<s, l>> \in reserved' =>
                             \/ RunnerHolds(s, l)'
                             \/ \E j \in 1..(n - 1) : Holds(pool'[j], s, l)
      BY <2>2 DEF Owned
    <3>1. ASSUME NEW j \in 1..(n - 1), Holds(pool'[j], s, l)
          PROVE  /\ <<s, l>> \in reserved' /\ ~RunnerHolds(s, l)'
                 /\ \A k \in 1..(n - 1) : Holds(pool'[k], s, l) => j = k
      <4>1. At(j) \in 1..n /\ Holds(pool[At(j)], s, l)
        BY <2>3, <2>7, <3>1
      <4>2. <<s, l>> \in reserved' /\ ~RunnerHolds(s, l)'
        BY <2>1, <2>7, <4>1 DEF Owned
      <4>3. ASSUME NEW k \in 1..(n - 1), Holds(pool'[k], s, l)
            PROVE  j = k
        <5>1. At(k) \in 1..n /\ Holds(pool[At(k)], s, l)
          BY <2>3, <2>7, <4>3
        <5>2. At(j) = At(k)
          BY <4>1, <5>1 DEF Owned
        <5> QED BY <2>3, <5>2
      <4> QED BY <4>2, <4>3
    <3>2. RunnerHolds(s, l)' => <<s, l>> \in reserved'
      BY <2>1, <2>7 DEF Owned
    <3>3. faults' = 0 /\ <<s, l>> \in reserved' =>
            RunnerHolds(s, l)' \/ \E j \in 1..(n - 1) : Holds(pool'[j], s, l)
      BY <2>1, <2>7 DEF Owned
    <3> QED BY <3>1, <3>2, <3>3
  <2>9. Once'
    BY <1>1, <2>1, <2>2, <2>3, <2>5 DEF Once, runnerVars, stepVars
  <2> QED BY <2>8, <2>9
<1> QED BY <1>5, <1>6, <1>7, <1>8

\* Only the runner's place changes; what it gives up was its own.
LEMMA OwnedRunner ==
  ASSUME Owned, UNCHANGED pool, NEW R, reserved' = reserved \ R, faults' = 0 => faults = 0,
         \A s \in Seg, l \in Layer :
           /\ <<s, l>> \in R => RunnerHolds(s, l) /\ ~RunnerHolds(s, l)'
           /\ RunnerHolds(s, l)' => RunnerHolds(s, l)
           /\ faults' = 0 /\ <<s, l>> \notin R /\ RunnerHolds(s, l) => RunnerHolds(s, l)'
  PROVE  Owned'
<1>1. ASSUME NEW s \in Seg, NEW l \in Layer, NEW i \in 1..Len(pool), Holds(pool[i], s, l)
      PROVE  <<s, l>> \notin R
  BY <1>1 DEF Owned
<1> QED BY <1>1, OwnedMoves

LEMMA OwnedStill ==
  ASSUME Owned, UNCHANGED <<pool, reserved>>, faults' = 0 => faults = 0,
         \A s \in Seg, l \in Layer :
           /\ RunnerHolds(s, l)' => RunnerHolds(s, l)
           /\ faults' = 0 /\ RunnerHolds(s, l) => RunnerHolds(s, l)'
  PROVE  Owned'
<1> DEFINE R == {}
<1>1. reserved' = reserved \ R /\ \A x : x \notin R
  OBVIOUS
<1> HIDE DEF R
<1> QED BY <1>1, OwnedRunner

\* The runner's steps through the layers.
LEMMA OwnedTurn ==
  ASSUME IInv, WTypes, Owned, Once,
         Begin \/ Reserve \/ Skip \/ Enqueue \/ CopyInline \/ PublishInline
  PROVE  Owned' /\ Once'
<1>1. /\ faults' = faults /\ layer \in Layer /\ pending \in Seq(Seg) /\ Len(pending) \in Nat
      /\ pc' \notin {"raise", "stopped"} /\ pc \in InTurn
  <2>1. layer \in Layer /\ pending \in Seq(Seg) /\ Len(pending) \in Nat
    BY LenProperties DEF WTypes
  <2>2. faults' = faults
    BY DEF Begin, Reserve, Skip, Enqueue, CopyInline, PublishInline, history
  <2>3. pc \in InTurn
    BY DEF Begin, Reserve, Skip, Enqueue, CopyInline, PublishInline, InTurn
  <2>4. pc' = pc \/ pc' \in {"begin", "reserve", "publish", "wait"}
    BY DEF Begin, Reserve, Skip, Enqueue, CopyInline, PublishInline, NextTurn
  <2> QED BY <2>1, <2>2, <2>3, <2>4 DEF InTurn
<1>2. \A i \in 1..Len(pool) : IF pool[i].aborting THEN faults > 0 ELSE Distinct(pool[i].rest)
  BY DEF Once
<1>3. Len(<<>>) = 0 /\ 1..0 = {} /\ Distinct(<<>>) /\ \A s : ~Member(s, <<>>)
  BY DEF Distinct, Member
<1>4. CASE Begin
  <2>1. /\ pc = "begin" /\ pc' \in {"begin", "reserve"} /\ pending = <<>>
        /\ UNCHANGED <<stepVars, chunk, pending, pool>>
    BY <1>4 DEF Begin, poolVars, Once
  <2>2. reserved' = reserved
    BY <1>4 DEF Begin, BeginPut, vars
  <2>3. \A s, l : ~RunnerHolds(s, l) /\ ~RunnerHolds(s, l)'
    BY <1>3, <2>1 DEF RunnerHolds
  <2>4. Once'
    BY <1>1, <1>2, <1>3, <2>1 DEF Once
  <2> QED BY <1>1, <2>1, <2>2, <2>3, <2>4, OwnedStill
<1>5. CASE Reserve
  <2> DEFINE s == segments[Request][chunk]
  <2>1. pc = "reserve" /\ UNCHANGED <<pc, layer, pool>> /\ Distinct(pending)
    BY <1>5 DEF Reserve, stepVars, poolVars, Once
  <2>2. CASE UNCHANGED <<vars, pending>>
    <3>1. \A x, l : RunnerHolds(x, l)' <=> RunnerHolds(x, l)
      BY <2>1, <2>2 DEF RunnerHolds
    <3>2. Owned'
      BY <1>1, <2>1, <2>2, <3>1, OwnedStill DEF vars
    <3>3. Once'
      BY <1>1, <1>2, <2>1, <2>2 DEF Once
    <3> QED BY <3>2, <3>3
  <2>3. CASE ReserveLayer(s, layer) /\ pending' = Append(pending, s)
    <3>1. /\ s \in Seg /\ <<s, layer>> \notin reserved
          /\ reserved' = reserved \cup {<<s, layer>>}
      BY <2>3 DEF ReserveLayer, IInv, TypeOK
    <3> HIDE DEF s
    <3>2. /\ Append(pending, s) \in Seq(Seg) /\ Len(Append(pending, s)) = Len(pending) + 1
          /\ Append(pending, s)[Len(pending) + 1] = s
          /\ \A i \in 1..Len(pending) : Append(pending, s)[i] = pending[i]
      BY <1>1, <3>1, AppendType
    <3>3. /\ 1..(Len(pending) + 1) = 1..Len(pending) \cup {Len(pending) + 1}
          /\ Len(pending) + 1 \notin 1..Len(pending)
      BY <1>1
    <3>4. \A x : Member(x, pending') <=> Member(x, pending) \/ x = s
      BY <2>3, <3>2, <3>3 DEF Member
    <3>5. ~RunnerHolds(s, layer) /\ \A i \in 1..Len(pool) : ~Holds(pool[i], s, layer)
      BY <1>1, <3>1 DEF Owned
    <3>6. ~Member(s, pending)
      BY <2>1, <3>5 DEF RunnerHolds
    <3>7. Distinct(pending')
      BY <2>1, <2>3, <3>2, <3>3, <3>6 DEF Distinct, Member
    <3>8. \A x, l : RunnerHolds(x, l)' <=> RunnerHolds(x, l) \/ (x = s /\ l = layer)
      BY <2>1, <3>4 DEF RunnerHolds
    <3>9. Owned'
      <4> SUFFICES ASSUME NEW x \in Seg, NEW l \in Layer
                   PROVE  /\ RunnerHolds(x, l)' => <<x, l>> \in reserved'
                          /\ \A i \in 1..Len(pool) : Holds(pool[i], x, l) =>
                               /\ <<x, l>> \in reserved' /\ ~RunnerHolds(x, l)'
                               /\ \A j \in 1..Len(pool) : Holds(pool[j], x, l) => i = j
                          /\ faults = 0 /\ <<x, l>> \in reserved' =>
                               \/ RunnerHolds(x, l)'
                               \/ \E i \in 1..Len(pool) : Holds(pool[i], x, l)
        BY <1>1, <2>1 DEF Owned
      <4>1. CASE x = s /\ l = layer
        BY <3>1, <3>5, <3>8, <4>1
      <4>2. CASE ~(x = s /\ l = layer)
        <5>1. <<x, l>> \in reserved' <=> <<x, l>> \in reserved
          BY <3>1, <4>2
        <5> QED BY <3>8, <4>2, <5>1 DEF Owned
      <4> QED BY <4>1, <4>2
    <3>10. Once'
      BY <1>1, <1>2, <2>1, <3>7 DEF Once
    <3> QED BY <3>9, <3>10
  <2> QED BY <1>5, <2>2, <2>3 DEF Reserve
<1>6. CASE Skip
  <2>1. /\ pc = "reserve" /\ pending = <<>> /\ pc' \in {"begin", "wait"} /\ pending' = <<>>
        /\ UNCHANGED <<reserved, pool>>
    BY <1>6 DEF Skip, NextTurn, vars, poolVars
  <2>2. \A s, l : ~RunnerHolds(s, l) /\ ~RunnerHolds(s, l)'
    BY <1>3, <2>1 DEF RunnerHolds
  <2>3. Once'
    BY <1>1, <1>2, <2>1 DEF Once
  <2> QED BY <1>1, <2>1, <2>2, <2>3, OwnedStill
<1>7. CASE Enqueue
  <2> DEFINE b == [layer |-> layer, all |-> pending, rest |-> pending,
                   copied |-> FALSE, aborting |-> FALSE]
             n == Len(pool)
  <2>1. /\ pc = "reserve" /\ pc' \in {"begin", "wait"} /\ pending' = <<>>
        /\ pool' = Append(pool, b) /\ reserved' = reserved /\ Distinct(pending)
    BY <1>7 DEF Enqueue, NextTurn, vars, Once
  <2>2. b \in Batches /\ pool \in Seq(Batches)
    BY <1>1 DEF Batches, WTypes
  <2>3. b.layer = layer /\ b.rest = pending /\ b.aborting = FALSE
    OBVIOUS
  <2> HIDE DEF b
  <2>4. /\ n \in Nat /\ Len(pool') = n + 1 /\ pool'[n + 1] = b
        /\ \A i \in 1..n : pool'[i] = pool[i]
    BY <2>1, <2>2, AppendType
  <2>5. 1..(n + 1) = 1..n \cup {n + 1} /\ n + 1 \notin 1..n
    BY <2>4
  <2> HIDE DEF n
  <2>6. \A s, l : /\ Holds(b, s, l) <=> RunnerHolds(s, l)
                  /\ ~RunnerHolds(s, l)'
    BY <2>1, <2>3 DEF Holds, RunnerHolds
  <2>7. Owned'
    <3> SUFFICES ASSUME NEW s \in Seg, NEW l \in Layer
                 PROVE  /\ RunnerHolds(s, l)' => <<s, l>> \in reserved'
                        /\ \A i \in 1..(n + 1) : Holds(pool'[i], s, l) =>
                             /\ <<s, l>> \in reserved' /\ ~RunnerHolds(s, l)'
                             /\ \A j \in 1..(n + 1) : Holds(pool'[j], s, l) => i = j
                        /\ faults' = 0 /\ <<s, l>> \in reserved' =>
                             \/ RunnerHolds(s, l)'
                             \/ \E i \in 1..(n + 1) : Holds(pool'[i], s, l)
      BY <2>4 DEF Owned
    <3>1. /\ RunnerHolds(s, l) => <<s, l>> \in reserved
          /\ \A i \in 1..n : Holds(pool[i], s, l) =>
               /\ <<s, l>> \in reserved /\ ~RunnerHolds(s, l)
               /\ \A j \in 1..n : Holds(pool[j], s, l) => i = j
          /\ faults = 0 /\ <<s, l>> \in reserved =>
               RunnerHolds(s, l) \/ \E i \in 1..n : Holds(pool[i], s, l)
      BY DEF Owned, n
    <3> QED BY <1>1, <2>1, <2>4, <2>5, <2>6, <3>1
  <2>8. Once'
    BY <1>1, <1>2, <2>1, <2>3, <2>4, <2>5 DEF Once, n
  <2> QED BY <2>7, <2>8
<1>8. CASE CopyInline
  <2>1. /\ pc = "reserve" /\ pc' = "publish" /\ chunk' = 1 /\ UNCHANGED <<layer, pending, pool>>
        /\ reserved' = reserved
    BY <1>8 DEF CopyInline, stepVars, poolVars, vars
  <2>2. \A s, l : RunnerHolds(s, l)' <=> RunnerHolds(s, l)
    BY <2>1 DEF RunnerHolds, Member
  <2>3. Once'
    BY <1>1, <1>2, <2>1 DEF Once
  <2> QED BY <1>1, <2>1, <2>2, <2>3, OwnedStill
<1>9. CASE PublishInline /\ chunk <= Len(pending)
  <2> DEFINE s == pending[chunk]
             R == {<<s, layer>>}
  <2>1. /\ pc = "publish" /\ chunk \in 1..Len(pending) /\ s \in Seg
        /\ chunk' = chunk + 1 /\ UNCHANGED <<pc, layer, pending, pool>>
        /\ PutLayerHost(s, layer) \/ (s \notin live /\ UNCHANGED vars)
        /\ Distinct(pending)
    BY <1>1, <1>9 DEF PublishInline, stepVars, poolVars, WTypes, Once
  <2>2. RunnerHolds(s, layer)
    BY <2>1 DEF RunnerHolds
  <2>3. <<s, layer>> \in reserved
    BY <1>1, <2>1, <2>2 DEF Owned
  <2>4. s \in live
    BY <2>3 DEF IInv, TypeOK
  <2>5. reserved' = reserved \ R
    BY <1>1, <2>1, <2>4, PutEffects
  <2> HIDE DEF s
  <2>6. \A i \in 1..Len(pending) : pending[i] = s <=> i = chunk
    BY <2>1 DEF Distinct, s
  <2>7. ASSUME NEW x \in Seg, NEW l \in Layer
        PROVE  RunnerHolds(x, l)' <=> RunnerHolds(x, l) /\ <<x, l>> # <<s, layer>>
    <3>1. \A i \in 1..Len(pending) : chunk + 1 <= i <=> chunk <= i /\ i # chunk
      BY <2>1
    <3> QED BY <2>1, <2>6, <3>1 DEF RunnerHolds
  <2>8. Owned'
    <3>1. \A x, l : <<x, l>> \in R <=> x = s /\ l = layer
      OBVIOUS
    <3> HIDE DEF R
    <3> QED BY <1>1, <2>1, <2>2, <2>5, <2>7, <3>1, OwnedRunner
  <2>9. Once'
    BY <1>1, <1>2, <2>1 DEF Once
  <2> QED BY <2>8, <2>9
<1>10. CASE PublishInline /\ ~(chunk <= Len(pending))
  <2>1. /\ pc = "publish" /\ pc' \in {"begin", "wait"} /\ pending' = <<>>
        /\ UNCHANGED <<reserved, pool>>
    BY <1>10 DEF PublishInline, NextTurn, vars, poolVars
  <2>2. \A i \in 1..Len(pending) : ~(chunk <= i)
    BY <1>1, <1>10 DEF WTypes
  <2>3. \A s, l : ~RunnerHolds(s, l) /\ ~RunnerHolds(s, l)'
    BY <2>1, <2>2 DEF RunnerHolds
  <2>4. Once'
    BY <1>1, <1>2, <2>1 DEF Once
  <2> QED BY <1>1, <2>1, <2>3, <2>4, OwnedStill
<1> QED BY <1>4, <1>5, <1>6, <1>7, <1>8, <1>9, <1>10


\* The other steps, and those of readers.
LEMMA OwnedQuiet ==
  ASSUME IInv, WTypes, Owned, Once,
         \/ StartStep \/ AbortRaised \/ WaitForSave \/ FinishAbort \/ EndStep \/ Raise \/ Reader
         \/ (\E r \in Req : FinishRequest(r)) \/ UNCHANGED wvars
  PROVE  Owned' /\ Once'
<1>1. /\ \A i \in 1..Len(pool) : IF pool[i].aborting THEN faults > 0 ELSE Distinct(pool[i].rest)
      /\ pool \in Seq(Batches) /\ faults \in Nat
  BY DEF Once, WTypes
<1>2. ASSUME UNCHANGED <<pool, reserved, faults>>,
             pc \notin {"reserve", "publish"}, pc' \notin {"reserve", "publish"},
             pc' \in {"raise", "stopped"} => faults > 0,
             pc' \in {"idle", "begin", "wait", "finish"} => pending' = <<>>
      PROVE  Owned' /\ Once'
  <2>1. \A s, l : ~RunnerHolds(s, l) /\ ~RunnerHolds(s, l)'
    BY <1>2 DEF RunnerHolds
  <2>2. Once'
    BY <1>1, <1>2 DEF Once
  <2> QED BY <1>2, <2>1, <2>2, OwnedStill
<1>3. CASE StartStep
  <2>1. /\ pc = "idle" /\ pc' = "begin" /\ UNCHANGED <<pending, pool, faults, reserved>>
    BY <1>3, StartTypes DEF vars
  <2>2. pending = <<>>
    BY <2>1 DEF Once
  <2> QED BY <1>2, <2>1, <2>2
<1>4. CASE AbortRaised \/ FinishAbort
  <2>1. UNCHANGED <<pool, faults>>
    BY <1>4 DEF AbortRaised, FinishAbort, poolVars, history
  <2>2. reserved' = reserved
    BY <1>4, AbortEffects DEF AbortRaised, FinishAbort, vars
  <2>3. \/ pc = "raise" /\ pc' \in {"raise", "stopped"}
        \/ pc = "abort" /\ pc' = "abort"
        \/ pc = "abort" /\ pc' = "finish" /\ pending' = <<>>
    BY <1>4 DEF AbortRaised, FinishAbort
  <2>4. pc = "raise" => faults > 0
    BY DEF Once
  <2> QED BY <1>2, <2>1, <2>2, <2>3, <2>4
<1>5. CASE WaitForSave \/ EndStep
  <2>1. /\ \/ pc = "wait" /\ pc' = "finish"
           \/ pc = "finish" /\ pc' = "idle"
        /\ UNCHANGED <<pending, pool, faults, reserved>>
    BY <1>5 DEF WaitForSave, EndStep, poolVars, history, vars
  <2>2. pending = <<>>
    BY <2>1 DEF Once
  <2> QED BY <1>2, <2>1, <2>2
<1>6. ASSUME NEW r \in Req, FinishRequest(r)
      PROVE  Owned' /\ Once'
  <2>1. pc = "finish" /\ pc' = "abort" /\ UNCHANGED <<pool, faults>>
    BY <1>6 DEF FinishRequest, poolVars, history
  <2>2. reserved' = reserved
    BY <1>6, ReaderEffects DEF FinishRequest
  <2> QED BY <1>2, <2>1, <2>2
<1>7. CASE Raise
  <2>1. /\ pc' = "raise" /\ faults' = faults + 1 /\ UNCHANGED <<pool, reserved>>
    BY <1>7 DEF Raise, poolVars, vars
  <2>2. faults' > 0 /\ faults' # 0
    BY <1>1, <2>1
  <2>3. \A s, l : ~RunnerHolds(s, l)'
    BY <2>1 DEF RunnerHolds
  <2>4. Once'
    BY <1>1, <2>1, <2>2 DEF Once
  <2> QED BY <2>1, <2>2, <2>3, <2>4, OwnedStill
<1>8. CASE Reader \/ UNCHANGED wvars
  <2>1. UNCHANGED <<runnerVars, poolVars, history>>
    BY <1>8 DEF Reader, wvars
  <2>2. reserved' = reserved
    BY <1>8, ReaderEffects DEF Reader, wvars, vars
  <2>3. /\ \A s, l : RunnerHolds(s, l)' <=> RunnerHolds(s, l)
        /\ UNCHANGED <<pool, faults, pc, pending>>
    BY <2>1 DEF RunnerHolds, runnerVars, stepVars, poolVars, history
  <2>4. Owned'
    BY <2>2, <2>3, OwnedStill
  <2>5. Once'
    BY <2>3 DEF Once
  <2> QED BY <2>4, <2>5
<1> QED BY <1>3, <1>4, <1>5, <1>6, <1>7, <1>8

LEMMA OwnedStep == IInv /\ WTypes /\ Owned /\ Once /\ [WNext]_wvars => Owned' /\ Once'
<1>1. \A i \in 1..MaxInflight : i \in Nat
  BY WorkersAssumption
<1> SUFFICES ASSUME IInv, WTypes, Owned, Once, [WNext]_wvars
             PROVE  Owned' /\ Once'
  OBVIOUS
<1>2. Pool => Owned' /\ Once'
  BY <1>1, OwnedPool DEF Pool
<1>3. Runner => Owned' /\ Once'
  BY OwnedTurn, OwnedQuiet DEF Runner
<1> QED BY <1>2, <1>3, OwnedQuiet DEF WNext

-----------------------------------------------------------------------------
(* What a step has named                                                   *)

LEMMA BegunTurn ==
  ASSUME WTypes, Begun, pc \in {"reserve", "publish"}, NextTurn, UNCHANGED <<todo, segments>>
  PROVE  Begun'
<1>1. Len(todo) \in Nat /\ turn \in 1..Len(todo) /\ layer \in Nat \ {0}
  BY LayerNumbers DEF WTypes, InTurn
<1>2. \A t \in 1..Len(todo) : t <= turn => todo[t][2] <= Len(segments[todo[t][1]])
  BY <1>1 DEF Begun, InTurn
<1>3. CASE turn < Len(todo)
  <2>1. turn' = turn + 1 /\ pc' = "begin" /\ layer' = layer /\ chunk' = 1
    BY <1>3 DEF NextTurn
  <2>2. \A t \in 1..Len(todo) : 1 < layer => todo[t][2] <= Len(segments[todo[t][1]])
    BY DEF Begun, InTurn
  <2>3. \A t \in 1..Len(todo) : t < turn' => t <= turn
    BY <1>1, <2>1
  <2> QED BY <1>2, <2>1, <2>2, <2>3 DEF Begun
<1>4. CASE ~(turn < Len(todo))
  <2>1. chunk' = 1
    BY DEF NextTurn
  <2>2. \A t \in 1..Len(todo) : t <= turn
    BY <1>1, <1>4
  <2> QED BY <1>2, <2>1, <2>2 DEF Begun
<1> QED BY <1>3, <1>4

\* A new entry of the request at hand.
LEMMA BegunMore ==
  ASSUME WTypes, Begin, Len(segments[Request]) < Usable
  PROVE  /\ Request \in Req /\ Chunks[Request][Len(segments[Request]) + 1] \in Seg
         /\ Len(segments[Request]) \in Nat /\ Usable \in Nat
         /\ \A r \in Req :
              IF r = Request
              THEN /\ Len(segments'[r]) = Len(segments[r]) + 1
                   /\ segments'[r][Len(segments[r]) + 1]
                        = Chunks[Request][Len(segments[Request]) + 1]
                   /\ \A i \in 1..Len(segments[r]) : segments'[r][i] = segments[r][i]
              ELSE segments'[r] = segments[r]
<1> DEFINE n == Len(segments[Request])
           s == Chunks[Request][n + 1]
<1>1. todo[turn] \in Req \X Nat /\ turn \in 1..Len(todo)
  BY DEF Begin, InTurn, WTypes
<1>2. Request \in Req /\ Usable \in Nat /\ Usable <= Len(Chunks[Request])
  BY <1>1 DEF Request, Usable, WTypes
<1>3. segments[Request] \in Seq(Seg) /\ n \in Nat
  BY <1>2 DEF WTypes
<1>4. Len(Chunks[Request]) \in Nat
  BY <1>2, ChunksAssumption
<1>5. n + 1 \in 1..Len(Chunks[Request])
  BY <1>2, <1>3, <1>4
<1>6. s \in Seg
  BY <1>2, <1>5, ChunkType
<1>7. segments' = [segments EXCEPT ![Request] = Append(segments[Request], s)]
  BY DEF Begin
<1> HIDE DEF s
<1>8. /\ segments'[Request] = Append(segments[Request], s)
      /\ \A r \in Req : r # Request => segments'[r] = segments[r]
  BY <1>2, <1>7 DEF WTypes
<1>9. /\ Len(Append(segments[Request], s)) = n + 1
      /\ Append(segments[Request], s)[n + 1] = s
      /\ \A i \in 1..n : Append(segments[Request], s)[i] = segments[Request][i]
  BY <1>3, <1>6, AppendType
<1> QED BY <1>2, <1>3, <1>6, <1>8, <1>9 DEF s

LEMMA BegunStep == WTypes /\ Begun /\ [WNext]_wvars => Begun'
<1> SUFFICES ASSUME WTypes, Begun, [WNext]_wvars
             PROVE  Begun'
  OBVIOUS
<1>1. CASE StartStep
  <2>1. pc' = "begin" /\ layer' = 1 /\ turn' = 1 /\ chunk' = 1
    BY <1>1 DEF StartStep
  <2>2. \A t \in 1..Len(todo') : ~(t < turn')
    BY <2>1
  <2> QED BY <2>1, <2>2 DEF Begun
<1>2. CASE Begin /\ Len(segments[Request]) < Usable
  <2>1. UNCHANGED <<pc, layer, turn, todo, chunk>>
    BY <1>2 DEF Begin, stepVars
  <2>2. ASSUME NEW t \in 1..Len(todo), todo[t][2] <= Len(segments[todo[t][1]])
        PROVE  todo[t][2] <= Len(segments'[todo[t][1]])
    <3>1. todo[t] \in Req \X Nat
      BY DEF WTypes
    <3>2. todo[t][1] \in Req /\ todo[t][2] \in Nat
      BY <3>1
    <3>3. Len(segments[todo[t][1]]) \in Nat
      BY <3>2 DEF WTypes
    <3>4. \/ Len(segments'[todo[t][1]]) = Len(segments[todo[t][1]])
          \/ Len(segments'[todo[t][1]]) = Len(segments[todo[t][1]]) + 1
      BY <1>2, <3>2, BegunMore
    <3> QED BY <2>2, <3>2, <3>3, <3>4
  <2> QED BY <2>1, <2>2 DEF Begun
<1>3. CASE Begin /\ ~(Len(segments[Request]) < Usable)
  <2>1. pc = "begin" /\ pc' = "reserve" /\ UNCHANGED <<layer, turn, todo, segments>>
    BY <1>3 DEF Begin, stepVars
  <2>2. todo[turn] \in Req \X Nat
    BY <2>1 DEF WTypes, InTurn
  <2>3. Usable <= Len(segments[Request])
    <3>1. Request \in Req /\ Usable \in Nat
      BY <2>2 DEF Request, Usable
    <3>2. Len(segments[Request]) \in Nat
      BY <3>1 DEF WTypes
    <3> QED BY <1>3, <3>1, <3>2
  <2> QED BY <2>1, <2>3 DEF Begun, InTurn, Request, Usable
<1>4. CASE Reserve \/ CopyInline \/ (PublishInline /\ chunk <= Len(pending))
  <2>1. /\ pc \in {"reserve", "publish"} /\ pc' \in {"reserve", "publish"}
        /\ UNCHANGED <<layer, turn, todo, segments>>
    BY <1>4 DEF Reserve, CopyInline, PublishInline, stepVars
  <2> QED BY <2>1 DEF Begun, InTurn
<1>5. CASE Skip \/ Enqueue \/ (PublishInline /\ ~(chunk <= Len(pending)))
  <2>1. pc \in {"reserve", "publish"} /\ NextTurn /\ UNCHANGED <<todo, segments>>
    BY <1>5 DEF Skip, Enqueue, PublishInline
  <2> QED BY <2>1, BegunTurn
<1>6. CASE \/ AbortRaised \/ WaitForSave \/ FinishAbort \/ EndStep \/ Raise
           \/ \E r \in Req : FinishRequest(r)
  <2>1. pc' \notin InTurn
    BY <1>6 DEF AbortRaised, WaitForSave, FinishAbort, EndStep, Raise, FinishRequest, InTurn
  <2> QED BY <2>1 DEF Begun, InTurn
<1>7. CASE Pool \/ Reader \/ UNCHANGED wvars
  <2>1. UNCHANGED runnerVars
    BY <1>7 DEF Pool, Copy, Publish, PublishFails, AbortBatch, Done, Reader, wvars
  <2> QED BY <2>1 DEF Begun, runnerVars, stepVars
<1> QED BY <1>1, <1>2, <1>3, <1>4, <1>5, <1>6, <1>7 DEF WNext, Runner

-----------------------------------------------------------------------------
(* What a step without faults leaves of an entry                           *)

Puts == \E s \in Seg, l \in Layer : PutLayerHost(s, l) /\ lost' = lost \cup Taken

Same == UNCHANGED <<live, stored, reserved, committed, failed, lost>>

\* Without a fault the store changes by the runner's steps and by puts only:
\* nothing that could still be completed is aborted.
LEMMA StepKinds ==
  ASSUME IInv, WTypes, Owned, Once, Quiescent, [WNext]_wvars, faults' = 0
  PROVE  /\ faults = 0
         /\ Begin \/ Reserve \/ Puts \/ Same
         /\ Begin \/ segments' = segments \/ \E r \in Req : FinishRequest(r)
<1>1. faults = 0
  <2>1. faults \in Nat
    BY DEF WTypes
  <2>2. faults' = faults \/ faults' = faults + 1
    BY DEF WNext, Runner, Pool, StartStep, Begin, Reserve, Skip, Enqueue, CopyInline,
           PublishInline, AbortRaised, WaitForSave, FinishAbort, EndStep, Raise,
           FinishRequest, Copy, Publish, PublishFails, AbortBatch, Done, Reader, history, wvars
  <2> QED BY <2>1, <2>2
<1>2. CASE StartStep \/ Skip \/ Enqueue \/ CopyInline \/ WaitForSave \/ EndStep \/ UNCHANGED wvars
  BY <1>2 DEF StartStep, Skip, Enqueue, CopyInline, WaitForSave, EndStep, wvars, vars,
              history, runnerVars, Same
<1>3. CASE PublishInline
  <2>1. segments' = segments
    BY <1>3 DEF PublishInline
  <2>2. CASE chunk <= Len(pending)
    <3> DEFINE s == pending[chunk]
    <3>1. s \in Seg /\ layer \in Layer
      BY <2>2 DEF WTypes
    <3>2. lost' = lost \cup Taken /\ (PutLayerHost(s, layer) \/ UNCHANGED vars)
      BY <1>3, <2>2 DEF PublishInline
    <3> HIDE DEF s
    <3>3. UNCHANGED vars => Taken = {}
      BY DEF Taken, vars
    <3> QED BY <1>1, <2>1, <3>1, <3>2, <3>3 DEF Puts, Same, vars
  <2>3. CASE ~(chunk <= Len(pending))
    BY <1>1, <1>3, <2>1, <2>3 DEF PublishInline, Same, vars
  <2> QED BY <2>2, <2>3
<1>4. ASSUME NEW i \in 1..MaxInflight, Publish(i)
      PROVE  segments' = segments /\ (Puts \/ Same)
  <2> DEFINE s == Head(pool[i].rest)
             l == pool[i].layer
  <2>1. i \in 1..Len(pool) /\ pool[i].rest # <<>>
    BY <1>4 DEF Publish, Active, WTypes
  <2>2. pool[i] \in Batches
    BY <2>1 DEF WTypes
  <2>3. s \in Seg /\ l \in Layer
    BY <2>1, <2>2, TailType DEF Batches
  <2>4. lost' = lost \cup Taken /\ (PutLayerHost(s, l) \/ UNCHANGED vars) /\ segments' = segments
    BY <1>4 DEF Publish, runnerVars
  <2> HIDE DEF s, l
  <2>5. UNCHANGED vars => Taken = {}
    BY DEF Taken, vars
  <2> QED BY <2>3, <2>4, <2>5 DEF Puts, Same, vars
<1>5. ASSUME NEW i \in 1..MaxInflight, Copy(i) \/ PublishFails(i) \/ Done(i)
      PROVE  segments' = segments /\ Same
  BY <1>1, <1>5 DEF Copy, PublishFails, Done, Same, vars, runnerVars, history
<1>6. ASSUME NEW i \in 1..MaxInflight
      PROVE  ~AbortBatch(i)
  BY <1>1 DEF AbortBatch, Active, WTypes, Once
<1>7. ~AbortRaised /\ ~Raise
  BY <1>1 DEF AbortRaised, Raise, Once
<1>8. CASE FinishAbort
  <2>1. segments' = segments /\ lost' = lost
    BY <1>8 DEF FinishAbort, history
  <2>2. live \ committed = {}
    BY <1>1, <1>8 DEF FinishAbort, Quiescent
  <2>3. UNCHANGED vars
    BY <1>8, <2>2, AbortEffects DEF FinishAbort
  <2> QED BY <1>1, <2>1, <2>3 DEF Same, vars
<1>9. ASSUME NEW r \in Req, FinishRequest(r)
      PROVE  Same
  BY <1>9, ReaderEffects DEF FinishRequest, Same, history
<1>10. CASE Reader
  <2>1. UNCHANGED <<live, stored, reserved, committed, failed>>
    BY <1>10, ReaderEffects DEF Reader
  <2> QED BY <1>1, <1>10, <2>1 DEF Reader, Same, runnerVars, history
<1>11. CASE Begin \/ Reserve
  BY <1>1, <1>11 DEF Reserve
<1> QED BY <1>1, <1>2, <1>3, <1>4, <1>5, <1>6, <1>7, <1>8, <1>9, <1>10, <1>11
        DEF WNext, Runner, Pool

LEMMA KeptStep ==
  IInv /\ WTypes /\ Owned /\ Once /\ Quiescent /\ Kept /\ [WNext]_wvars => Kept'
<1> SUFFICES ASSUME IInv, WTypes, Owned, Once, Quiescent, Kept, [WNext]_wvars, faults' = 0
             PROVE  /\ failed' \subseteq lost'
                    /\ \A r \in Req : \A i \in 1..Len(segments'[r]) :
                         segments'[r][i] \in lost' \cup (live' \ failed')
  BY DEF Kept
<1>1. /\ faults = 0
      /\ Begin \/ Reserve \/ Puts \/ Same
      /\ Begin \/ segments' = segments \/ \E r \in Req : FinishRequest(r)
  BY StepKinds
<1>2. /\ failed \subseteq lost /\ failed \subseteq live
      /\ \A r \in Req : \A i \in 1..Len(segments[r]) :
           segments[r][i] \in lost \cup (live \ failed)
  BY <1>1 DEF Kept, IInv, TypeOK
<1>3. CASE Begin /\ Len(segments[Request]) < Usable
  <2> DEFINE s == Chunks[Request][Len(segments[Request]) + 1]
  <2>1. /\ live' = live \cup {s} /\ failed' = failed
        /\ lost' = IF s \in live THEN lost ELSE lost \ {s}
    BY <1>3 DEF Begin, BeginPut
  <2>2. failed' \subseteq lost'
    BY <1>2, <2>1
  <2>3. /\ s \in lost' \cup (live' \ failed')
        /\ \A x \in lost \cup (live \ failed) : x \in lost' \cup (live' \ failed')
    BY <1>2, <2>1
  <2> HIDE DEF s
  <2>4. ASSUME NEW r \in Req, NEW i \in 1..Len(segments'[r])
        PROVE  segments'[r][i] \in lost' \cup (live' \ failed')
    <3>1. CASE r = Request
      <4>1. /\ Len(segments'[r]) = Len(segments[r]) + 1 /\ Len(segments[r]) \in Nat
            /\ segments'[r][Len(segments[r]) + 1] = s
            /\ \A j \in 1..Len(segments[r]) : segments'[r][j] = segments[r][j]
        BY <1>3, <3>1, BegunMore DEF s
      <4>2. i \in 1..Len(segments[r]) \/ i = Len(segments[r]) + 1
        BY <4>1
      <4> QED BY <1>2, <2>3, <4>1, <4>2
    <3>2. CASE r # Request
      <4>1. segments'[r] = segments[r]
        BY <1>3, <3>2, BegunMore
      <4> QED BY <1>2, <2>3, <4>1
    <3> QED BY <3>1, <3>2
  <2> QED BY <2>2, <2>4
<1>4. CASE Begin /\ ~(Len(segments[Request]) < Usable)
  BY <1>2, <1>4 DEF Begin, vars
<1>5. ASSUME segments' = segments \/ \E r \in Req : FinishRequest(r),
             failed' \subseteq lost', lost \cup (live \ failed) \subseteq lost' \cup (live' \ failed')
      PROVE  \A r \in Req : \A i \in 1..Len(segments'[r]) :
               segments'[r][i] \in lost' \cup (live' \ failed')
  <2>1. CASE segments' = segments
    BY <1>2, <1>5, <2>1
  <2>2. ASSUME NEW q \in Req, FinishRequest(q), NEW r \in Req, NEW i \in 1..Len(segments'[r])
        PROVE  segments'[r][i] \in lost' \cup (live' \ failed')
    <3>1. segments' = [segments EXCEPT ![q] = <<>>] /\ segments \in [Req -> Seq(Seg)]
      BY <2>2 DEF FinishRequest, WTypes
    <3>2. CASE r = q
      <4>1. segments'[r] = <<>> /\ 1..0 = {} /\ Len(<<>>) = 0
        BY <3>1, <3>2
      <4> QED BY <2>2, <4>1
    <3>3. CASE r # q
      <4>1. segments'[r] = segments[r]
        BY <3>1, <3>3
      <4> QED BY <1>2, <1>5, <2>2, <4>1
    <3> QED BY <3>2, <3>3
  <2> QED BY <1>5, <2>1, <2>2
<1>6. CASE Reserve
  <2>1. UNCHANGED <<live, failed, lost, segments>>
    BY <1>6 DEF Reserve, ReserveLayer, vars, history
  <2> QED BY <1>2, <2>1
<1>7. CASE ~Begin /\ Same
  <2>1. UNCHANGED <<live, failed, lost>>
    BY <1>7 DEF Same
  <2> QED BY <1>1, <1>2, <1>5, <1>7, <2>1
<1>8. CASE ~Begin /\ Puts
  <2>1. PICK s \in Seg, l \in Layer : PutLayerHost(s, l) /\ lost' = lost \cup Taken
    BY <1>8 DEF Puts
  <2>2. failed' \subseteq failed \cup Taken
    BY <2>1, PutEffects
  <2>3. lost \cup (live \ failed) \subseteq lost' \cup (live' \ failed')
    BY <2>1 DEF Taken
  <2> QED BY <1>1, <1>2, <1>5, <1>8, <2>1, <2>2, <2>3
<1> QED BY <1>1, <1>3, <1>4, <1>6, <1>7, <1>8

\* When the step is waited for, a new entry has all its layers.
LEMMA QuiescentStep ==
  IInv /\ WTypes /\ Owned /\ Once /\ Progress /\ Quiescent /\ [WNext]_wvars => Quiescent'
<1> SUFFICES ASSUME IInv, WTypes, Owned, Once, Progress, Quiescent, [WNext]_wvars,
                    pc' \in {"idle", "finish", "abort"}
             PROVE  pool' = <<>> /\ (faults' = 0 => live' = committed' /\ reserved' = {})
  BY DEF Quiescent
<1>1. CASE WaitForSave
  <2>1. pc = "wait" /\ pool = <<>> /\ pool' = pool /\ faults' = faults
        /\ UNCHANGED <<live, committed, reserved>>
    BY <1>1 DEF WaitForSave, poolVars, history, vars
  <2>2. ASSUME faults = 0
        PROVE  live = committed /\ reserved = {}
    <3>1. \A p \in reserved : p[1] \in Seg /\ p[2] \in Layer /\ p = <<p[1], p[2]>>
      BY DEF IInv, TypeOK
    <3>2. \A s \in Seg, l \in Layer : <<s, l>> \notin reserved
      <4>1. 1..Len(pool) = {}
        BY <2>1
      <4> QED BY <2>1, <2>2, <4>1 DEF Owned, RunnerHolds
    <3>3. reserved = {}
      BY <3>1, <3>2
    <3>4. failed = {}
      BY <3>3 DEF IInv, FailedInFlight, Of
    <3>5. \A s \in live \ committed : \A l \in Layer : <<s, l>> \in stored
      BY <2>1, <2>2, <3>3, <3>4 DEF Progress, Passed
    <3> QED BY <3>3, <3>5 DEF IInv, TypeOK, IndexExact
  <2> QED BY <2>1, <2>2
<1>2. CASE ~WaitForSave
  <2>1. pc \in {"idle", "finish", "abort"}
    BY <1>2 DEF WNext, Runner, Pool, StartStep, Begin, Reserve, Skip, Enqueue, CopyInline,
           PublishInline, NextTurn, AbortRaised, FinishAbort, EndStep, Raise, FinishRequest,
           Copy, Publish, PublishFails, AbortBatch, Done, Reader, runnerVars, wvars
  <2>2. pool = <<>> /\ (faults = 0 => live = committed /\ reserved = {})
    BY <2>1 DEF Quiescent
  <2>3. ~Pool
    BY <2>2 DEF Pool, Copy, Publish, PublishFails, AbortBatch, Done, Active
  <2>4. pool' = pool
    BY <1>2, <2>1, <2>3 DEF WNext, Runner, StartStep, Begin, Reserve, Skip, Enqueue,
           CopyInline, PublishInline, AbortRaised, FinishAbort, EndStep, Raise,
           FinishRequest, Reader, poolVars, wvars
  <2>5. ASSUME faults' = 0
        PROVE  live' = committed' /\ reserved' = {}
    <3>1. faults = 0 /\ (Begin \/ Reserve \/ Puts \/ Same)
      BY <2>5, StepKinds
    <3>2. ~Begin /\ ~Reserve
      BY <2>1 DEF Begin, Reserve
    <3>3. CASE Puts
      <4>1. PICK s \in Seg, l \in Layer : PutLayerHost(s, l)
        BY <3>3 DEF Puts
      <4>2. s \in live
        BY <4>1 DEF PutLayerHost, PutRejected, PutIgnored, PutOverCap, PutStored
      <4>3. reserved' = {}
        BY <2>2, <3>1, <4>1, PutEffects
      <4>4. IInv'
        BY <2>5, TypesStep
      <4>5. failed' = {}
        BY <4>3, <4>4 DEF IInv, FailedInFlight, Of
      <4>6. live' \ (committed' \cup failed') \subseteq live \ (committed \cup failed)
        BY <4>1, PutEffects
      <4> QED BY <2>2, <3>1, <4>3, <4>4, <4>5, <4>6 DEF IInv, TypeOK
    <3>4. CASE Same
      BY <2>2, <3>1, <3>4 DEF Same
    <3> QED BY <3>1, <3>2, <3>3, <3>4
  <2> QED BY <2>2, <2>4, <2>5
<1> QED BY <1>1, <1>2


\* What the runner has passed after a turn, it had passed in that turn.
LEMMA PassedTurn ==
  ASSUME WTypes, pc \in {"reserve", "publish"}, pc = "reserve" => chunk > Usable,
         NextTurn, todo' = todo,
         NEW t \in 1..Len(todo), NEW c \in 1..todo[t][2], NEW l \in Layer, Passed(t, c, l)'
  PROVE  Passed(t, c, l)
<1>1. /\ Len(todo) \in Nat /\ turn \in 1..Len(todo) /\ layer \in 1..NumLayers
      /\ l \in 1..NumLayers /\ NumLayers \in Nat /\ chunk \in Nat
  BY LayerNumbers DEF WTypes, InTurn
<1>2. todo[t] \in Req \X Nat
  BY DEF WTypes
<1>3. c \in Nat /\ c <= todo[t][2] /\ todo[t][2] \in Nat
  BY <1>2
<1>4. t <= turn /\ l = layer => Passed(t, c, l)
  <2>1. t = turn /\ pc = "reserve" => c < chunk
    BY <1>1, <1>3 DEF Usable
  <2>2. t <= turn => t < turn \/ t = turn
    BY <1>1
  <2> QED BY <2>1, <2>2 DEF Passed
<1>5. l < layer => Passed(t, c, l)
  BY DEF Passed
<1>6. CASE turn < Len(todo)
  <2>1. turn' = turn + 1 /\ pc' = "begin" /\ layer' = layer
    BY <1>6 DEF NextTurn
  <2>2. l < layer \/ (l = layer /\ t < turn + 1)
    BY <2>1 DEF Passed
  <2>3. t < turn + 1 => t <= turn
    BY <1>1
  <2> QED BY <1>4, <1>5, <2>2, <2>3
<1>7. CASE ~(turn < Len(todo))
  <2>1. t <= turn
    BY <1>1, <1>7
  <2>2. CASE layer < NumLayers
    <3>1. turn' = 1 /\ pc' = "begin" /\ layer' = layer + 1
      BY <1>7, <2>2 DEF NextTurn
    <3>2. l < layer + 1 \/ t < 1
      BY <3>1 DEF Passed
    <3>3. l < layer \/ l = layer
      BY <1>1, <3>2
    <3> QED BY <1>4, <1>5, <2>1, <3>3
  <2>3. CASE ~(layer < NumLayers)
    <3>1. l < layer \/ l = layer
      BY <1>1, <2>3
    <3> QED BY <1>4, <1>5, <2>1, <3>1
  <2> QED BY <2>2, <2>3
<1> QED BY <1>6, <1>7

\* What makes progress goes on: its chunk is still named, and what the runner has
\* passed now it had passed, or has just dealt with.
LEMMA ProgressKept ==
  ASSUME Progress, faults = 0, pc \in InTurn \cup {"wait"}, todo' = todo,
         \A r \in Req, c \in Nat : c <= Len(segments[r]) =>
           c <= Len(segments'[r]) /\ segments'[r][c] = segments[r][c],
         \A t \in 1..Len(todo) : todo[t][1] \in Req,
         NEW s \in live \ (committed \cup failed),
         \A l \in Layer : <<s, l>> \in stored \cup reserved => <<s, l>> \in stored' \cup reserved',
         \A t, c \in Nat : \A l \in Layer :
           Names(t, c, s) /\ Passed(t, c, l)' => Passed(t, c, l) \/ <<s, l>> \in stored' \cup reserved'
  PROVE  \E t, c \in Nat : /\ Names(t, c, s)'
                           /\ \A l \in Layer : Passed(t, c, l)' => <<s, l>> \in stored' \cup reserved'
<1>1. PICK t \in Nat, c \in Nat :
        /\ Names(t, c, s)
        /\ \A l \in Layer : Passed(t, c, l) => <<s, l>> \in stored \cup reserved
  BY DEF Progress
<1>2. Names(t, c, s)'
  BY <1>1 DEF Names
<1>3. \A l \in Layer : Passed(t, c, l)' => <<s, l>> \in stored' \cup reserved'
  BY <1>1
<1> QED BY <1>2, <1>3

LEMMA ProgressStep ==
  /\ IInv /\ WTypes /\ Owned /\ Once /\ Progress /\ Quiescent /\ Begun
  /\ [WNext]_wvars
  => Progress'
<1> DEFINE Goes(s) ==
      \E t, c \in Nat : /\ Names(t, c, s)'
                        /\ \A l \in Layer : Passed(t, c, l)' => <<s, l>> \in stored' \cup reserved'
<1> SUFFICES ASSUME IInv, WTypes, Owned, Once, Progress, Quiescent, Begun, [WNext]_wvars,
                    faults' = 0, pc' \in InTurn \cup {"wait"},
                    NEW s \in live' \ (committed' \cup failed')
             PROVE  Goes(s)
  BY DEF Progress
<1>1. /\ faults = 0
      /\ Begin \/ Reserve \/ Puts \/ Same
      /\ Begin \/ segments' = segments \/ \E r \in Req : FinishRequest(r)
  BY StepKinds
<1>2. ~StartStep
  <2>1. StartStep => UNCHANGED vars /\ live = committed
    BY <1>1 DEF StartStep, Quiescent
  <2> QED BY <2>1 DEF vars
<1>3. pc \in InTurn \cup {"wait"}
  BY <1>2 DEF WNext, Runner, Pool, Begin, Reserve, Skip, Enqueue, CopyInline,
         PublishInline, NextTurn, AbortRaised, WaitForSave, FinishAbort, EndStep, Raise,
         FinishRequest, Copy, Publish, PublishFails, AbortBatch, Done, Reader, runnerVars,
         wvars, InTurn
<1>4. /\ todo \in Seq(Req \X Nat) /\ \A t \in 1..Len(todo) : todo[t] \in Req \X Nat
      /\ \A t \in 1..Len(todo) : todo[t][1] \in Req /\ todo[t][2] \in Nat
      /\ layer \in Layer /\ chunk \in Nat
  BY DEF WTypes
<1>5. CASE Begin /\ Len(segments[Request]) < Usable
  <2> DEFINE n == Len(segments[Request])
             e == Chunks[Request][n + 1]
  <2>1. /\ live' = live \cup {e}
        /\ UNCHANGED <<stored, reserved, committed, failed>>
        /\ pc = "begin" /\ UNCHANGED <<pc, todo, layer, turn, chunk>>
    BY <1>5 DEF Begin, BeginPut, stepVars
  <2>2. /\ Request \in Req /\ n \in Nat /\ Usable \in Nat
        /\ \A r \in Req :
              IF r = Request
              THEN /\ Len(segments'[r]) = Len(segments[r]) + 1
                   /\ segments'[r][Len(segments[r]) + 1] = e
                   /\ \A i \in 1..Len(segments[r]) : segments'[r][i] = segments[r][i]
              ELSE segments'[r] = segments[r]
    BY <1>5, BegunMore
  <2> HIDE DEF e
  <2>3. CASE s \in live
    <3>1. s \in live \ (committed \cup failed)
      BY <2>1, <2>3
    <3>2. PICK t \in Nat, c \in Nat :
            /\ Names(t, c, s)
            /\ \A l \in Layer : Passed(t, c, l) => <<s, l>> \in stored \cup reserved
      BY <1>1, <1>3, <3>1 DEF Progress
    <3>3. Names(t, c, s)'
      <4>1. /\ t \in 1..Len(todo) /\ c \in 1..todo[t][2] /\ c <= Len(segments[todo[t][1]])
            /\ segments[todo[t][1]][c] = s
        BY <3>2 DEF Names
      <4>2. todo[t][1] \in Req /\ c \in 1..Len(segments[todo[t][1]])
            /\ Len(segments[todo[t][1]]) \in Nat
        BY <1>4, <4>1 DEF WTypes
      <4>3. c <= Len(segments'[todo[t][1]]) /\ segments'[todo[t][1]][c] = s
        BY <2>2, <4>1, <4>2
      <4> QED BY <2>1, <4>1, <4>3 DEF Names
    <3>4. \A l \in Layer : Passed(t, c, l)' => Passed(t, c, l)
      BY <2>1 DEF Passed
    <3> QED BY <2>1, <3>2, <3>3, <3>4
  <2>4. CASE s \notin live
    <3>1. s = e /\ turn \in 1..Len(todo) /\ turn \in Nat
      BY <2>1, <2>4 DEF WTypes, InTurn
    <3>2. n + 1 \in 1..Usable /\ n + 1 \in Nat
      BY <1>5, <2>2
    <3>3. PICK t \in Nat, c \in Nat : t = turn /\ c = n + 1
      BY <3>1, <3>2
    <3>4. Names(t, c, s)'
      BY <2>1, <2>2, <3>1, <3>2, <3>3 DEF Names, Request, Usable
    <3>5. layer = 1
      <4>1. ~(Usable <= n)
        BY <1>5, <2>2
      <4>2. ~(1 < layer)
        BY <2>1, <3>1, <4>1 DEF Begun, InTurn, Request, Usable
      <4> QED BY <1>4, <4>2, LayerNumbers
    <3>6. \A l \in Layer : ~(l < layer) /\ ~(turn < turn)
      BY <3>1, <3>5, LayerNumbers
    <3>7. \A l \in Layer : ~Passed(t, c, l)'
      BY <2>1, <3>3, <3>6 DEF Passed
    <3> QED BY <3>4, <3>7
  <2> QED BY <2>3, <2>4
<1>6. ASSUME todo' = todo, segments' = segments, s \in live \ (committed \cup failed),
             \A l \in Layer : <<s, l>> \in stored \cup reserved => <<s, l>> \in stored' \cup reserved',
             \A t, c \in Nat : \A l \in Layer :
               Names(t, c, s) /\ Passed(t, c, l)' => Passed(t, c, l) \/ <<s, l>> \in stored' \cup reserved'
      PROVE  Goes(s)
  BY <1>1, <1>3, <1>4, <1>6, ProgressKept
<1>7. CASE Begin /\ ~(Len(segments[Request]) < Usable)
  <2>1. /\ UNCHANGED <<vars, segments, todo, layer, turn, chunk>>
        /\ pc = "begin" /\ pc' = "reserve"
    BY <1>7 DEF Begin, stepVars
  <2>2. chunk = 1
    BY <2>1 DEF Begun
  <2>3. ASSUME NEW t \in Nat, NEW c \in Nat, NEW l \in Layer, Names(t, c, s), Passed(t, c, l)'
        PROVE  Passed(t, c, l)
    <3>1. c \in 1..todo[t][2]
      BY <2>3 DEF Names
    <3>2. ~(c < 1)
      BY <3>1
    <3> QED BY <2>1, <2>2, <2>3, <3>2 DEF Passed
  <2> QED BY <1>6, <2>1, <2>3 DEF vars
<1>8. CASE Reserve
  <2> DEFINE e == segments[Request][chunk]
  <2>1. /\ pc = "reserve" /\ UNCHANGED <<pc, todo, layer, turn, segments>> /\ chunk' = chunk + 1
        /\ UNCHANGED <<live, stored, committed, failed>>
        /\ reserved \subseteq reserved'
        /\ \/ <<e, layer>> \in reserved'
           \/ e \notin live \ failed
           \/ <<e, layer>> \in stored \cup reserved
    BY <1>8 DEF Reserve, ReserveLayer, stepVars, vars
  <2>2. ASSUME NEW t \in Nat, NEW c \in Nat, NEW l \in Layer, Names(t, c, s), Passed(t, c, l)'
        PROVE  Passed(t, c, l) \/ <<s, l>> \in stored' \cup reserved'
    <3>1. c < chunk + 1 => c < chunk \/ c = chunk
      BY <1>4, <2>2
    <3>2. CASE l = layer /\ t = turn /\ c = chunk
      <4>1. e = s
        BY <2>2, <3>2 DEF Names, Request
      <4> QED BY <2>1, <3>2, <4>1
    <3>3. CASE ~(l = layer /\ t = turn /\ c = chunk)
      BY <2>1, <2>2, <3>1, <3>3 DEF Passed
    <3> QED BY <3>2, <3>3
  <2> QED BY <1>6, <2>1, <2>2
<1>9. ASSUME ~Begin, ~Reserve
      PROVE  /\ s \in live \ (committed \cup failed)
             /\ \A l \in Layer : <<s, l>> \in stored \cup reserved => <<s, l>> \in stored' \cup reserved'
  <2>1. CASE Same
    BY <2>1 DEF Same
  <2>2. CASE Puts
    <3>1. PICK x \in Seg, l \in Layer : PutLayerHost(x, l)
      BY <2>2 DEF Puts
    <3> QED BY <3>1, PutEffects
  <2> QED BY <1>1, <1>9, <2>1, <2>2
<1>10. CASE ~Begin /\ ~Reserve
  <2>1. segments' = segments
    <3>1. \A r \in Req : ~FinishRequest(r)
      BY DEF FinishRequest, InTurn
    <3> QED BY <1>1, <1>10, <3>1
  <2>2. todo' = todo
    BY <1>2 DEF WNext, Runner, Pool, Begin, Reserve, Skip, Enqueue, CopyInline,
           PublishInline, AbortRaised, WaitForSave, FinishAbort, EndStep, Raise,
           FinishRequest, Copy, Publish, PublishFails, AbortBatch, Done, Reader, runnerVars,
           stepVars, wvars, InTurn
  <2>3. ASSUME NEW t \in Nat, NEW c \in Nat, NEW l \in Layer, Names(t, c, s), Passed(t, c, l)'
        PROVE  Passed(t, c, l)
    <3>1. t \in 1..Len(todo) /\ c \in 1..todo[t][2]
      BY <2>3 DEF Names
    <3>2. CASE Skip \/ Enqueue \/ (PublishInline /\ ~(chunk <= Len(pending)))
      <4>1. /\ NextTurn /\ pc \in {"reserve", "publish"}
            /\ pc = "reserve" => chunk > Usable
        BY <3>2 DEF Skip, Enqueue, PublishInline
      <4> QED BY <2>2, <2>3, <3>1, <4>1, PassedTurn
    <3>3. CASE CopyInline
      <4>1. pc = "reserve" /\ pc' = "publish" /\ chunk > Usable /\ UNCHANGED <<layer, turn>>
        BY <3>3 DEF CopyInline, stepVars
      <4>2. t = turn => c < chunk
        <5>1. todo[t][2] \in Nat
          BY <1>4, <3>1
        <5> QED BY <1>4, <3>1, <4>1, <5>1 DEF Usable
      <4> QED BY <2>3, <4>1, <4>2 DEF Passed
    <3>4. CASE PublishInline /\ chunk <= Len(pending)
      <4>1. pc = "publish" /\ UNCHANGED <<pc, layer, turn>>
        BY <3>4 DEF PublishInline, stepVars
      <4> QED BY <2>3, <4>1 DEF Passed
    <3>5. CASE ~(Skip \/ Enqueue \/ CopyInline \/ PublishInline)
      <4>1. UNCHANGED runnerVars
        BY <1>2, <1>10, <3>5 DEF WNext, Runner, Pool, AbortRaised, WaitForSave, FinishAbort,
           EndStep, Raise, FinishRequest, Copy, Publish, PublishFails, AbortBatch, Done,
           Reader, wvars, InTurn
      <4> QED BY <2>3, <4>1 DEF Passed, runnerVars, stepVars
    <3> QED BY <3>2, <3>3, <3>4, <3>5
  <2> QED BY <1>6, <1>9, <1>10, <2>1, <2>2, <2>3
<1> QED BY <1>5, <1>7, <1>8, <1>10

-----------------------------------------------------------------------------
LEMMA InitWInv == WInit => WInv
<1> SUFFICES ASSUME WInit
             PROVE  WInv
  OBVIOUS
<1>1. IInv
  BY InitIInv DEF WInit
<1>2. /\ <<>> \in Seq(Req \X Nat) /\ <<>> \in Seq(Seg) /\ <<>> \in Seq(Batches)
      /\ Len(<<>>) = 0 /\ 1..0 = {}
  OBVIOUS
<1>3. \A r \in Req : segments[r] = <<>>
  BY DEF WInit
<1>4. WTypes
  <2>1. segments \in [Req -> Seq(Seg)]
    BY <1>2 DEF WInit
  <2> QED BY <1>2, <2>1, LayerNumbers DEF WInit, WTypes, InTurn
<1>5. reserved = {} /\ live = {} /\ committed = {} /\ failed = {}
  BY DEF WInit, Init
<1>6. Owned /\ Once
  BY <1>2, <1>5 DEF WInit, Owned, Once, RunnerHolds
<1>7. Progress /\ Quiescent /\ Begun
  BY <1>5 DEF WInit, Progress, Quiescent, Begun, InTurn
<1>8. Kept
  BY <1>2, <1>3, <1>5 DEF Kept
<1> QED BY <1>1, <1>4, <1>6, <1>7, <1>8 DEF WInv

\* WInv holds in every state.
THEOREM InvariantHolds == WSpec => []WInv
<1>1. WInv /\ [WNext]_wvars => WInv'
  BY TypesStep, OwnedStep, BegunStep, KeptStep, QuiescentStep, ProgressStep DEF WInv
<1> QED BY <1>1, InitWInv, PTL DEF WSpec

LEMMA MemberOf ==
  ASSUME NEW q \in Seq(Seg), NEW s
  PROVE  s \in ToSet(q) <=> Member(s, q)
BY LenProperties DEF ToSet, Member

LEMMA WritersAreHolders ==
  ASSUME WTypes, NEW s \in Seg, NEW l \in Layer
  PROVE  Writers(s, l) = Cardinality({i \in 1..Len(pool) : Holds(pool[i], s, l)})
                           + (IF RunnerHolds(s, l) THEN 1 ELSE 0)
<1>1. pool \in Seq(Batches) /\ pending \in Seq(Seg) /\ chunk \in Nat
  BY DEF WTypes
<1>2. DOMAIN pool = 1..Len(pool)
  BY <1>1, LenProperties
<1>3. ASSUME NEW i \in 1..Len(pool)
      PROVE  pool[i].layer = l /\ ~pool[i].aborting /\ s \in ToSet(pool[i].rest)
               <=> Holds(pool[i], s, l)
  <2>1. pool[i] \in Batches
    BY <1>1
  <2>2. pool[i].rest \in Seq(Seg)
    BY <2>1 DEF Batches
  <2> QED BY <2>2, MemberOf DEF Holds
<1>4. s \in ToSet(pending) <=> Member(s, pending)
  BY <1>1, MemberOf
<1>5. s \in ToSet(SubSeq(pending, chunk, Len(pending)))
        <=> \E i \in 1..Len(pending) : chunk <= i /\ pending[i] = s
  <2> DEFINE n == Len(pending)
             q == SubSeq(pending, chunk, n)
  <2>1. n \in Nat /\ chunk \in Nat \ {0}
    BY <1>1, LenProperties DEF WTypes
  <2>2. \A i \in chunk..n : pending[i] \in Seg
    BY <1>1, <2>1
  <2>3. /\ q \in Seq(Seg) /\ Len(q) = IF chunk <= n THEN n - chunk + 1 ELSE 0
        /\ \A i \in 1..(n - chunk + 1) : q[i] = pending[chunk + i - 1]
    BY <2>1, <2>2, SubSeqProperties
  <2>4. s \in ToSet(q) <=> Member(s, q)
    BY <2>3, MemberOf
  <2> HIDE DEF q
  <2>5. ASSUME NEW i \in 1..Len(q), q[i] = s
        PROVE  \E k \in 1..n : chunk <= k /\ pending[k] = s
    <3>1. /\ i \in 1..(n - chunk + 1) /\ chunk + i - 1 \in 1..n
          /\ chunk <= chunk + i - 1
      BY <2>1, <2>3
    <3> QED BY <2>3, <2>5, <3>1
  <2>6. ASSUME NEW k \in 1..n, chunk <= k, pending[k] = s
        PROVE  Member(s, q)
    <3>1. /\ k - chunk + 1 \in 1..(n - chunk + 1) /\ Len(q) = n - chunk + 1
          /\ chunk + (k - chunk + 1) - 1 = k
      BY <2>1, <2>3, <2>6
    <3>2. q[k - chunk + 1] = s
      BY <2>3, <2>6, <3>1
    <3> QED BY <3>1, <3>2 DEF Member
  <2> QED BY <2>4, <2>5, <2>6 DEF Member, q
<1>6. {i \in DOMAIN pool : pool[i].layer = l /\ ~pool[i].aborting /\ s \in ToSet(pool[i].rest)}
        = {i \in 1..Len(pool) : Holds(pool[i], s, l)}
  BY <1>2, <1>3
<1>7. (/\ layer = l
       /\ \/ pc = "reserve" /\ s \in ToSet(pending)
          \/ pc = "publish" /\ s \in ToSet(SubSeq(pending, chunk, Len(pending))))
        <=> RunnerHolds(s, l)
  BY <1>4, <1>5 DEF RunnerHolds
<1> QED BY <1>6, <1>7 DEF Writers

\* A reserved layer has one writer, and only a failed batch leaves one without,
\* whatever the prompts share (storage.py:107-136; connector.py:308-331, 471-502).
THEOREM ReservationIsOwned == WSpec => []ReservationOwned
<1>1. ASSUME WTypes, Owned, NEW s \in Seg, NEW l \in Layer
      PROVE  /\ Writers(s, l) <= IF <<s, l>> \in reserved THEN 1 ELSE 0
             /\ faults = 0 /\ <<s, l>> \in reserved => Writers(s, l) = 1
  <2> DEFINE H == {i \in 1..Len(pool) : Holds(pool[i], s, l)}
  <2>1. Writers(s, l) = Cardinality(H) + (IF RunnerHolds(s, l) THEN 1 ELSE 0)
    BY <1>1, WritersAreHolders
  <2>2. /\ RunnerHolds(s, l) => <<s, l>> \in reserved
        /\ \A i \in H : <<s, l>> \in reserved /\ ~RunnerHolds(s, l) /\ \A j \in H : i = j
        /\ faults = 0 /\ <<s, l>> \in reserved => RunnerHolds(s, l) \/ H # {}
    BY <1>1 DEF Owned
  <2> HIDE DEF H
  <2>3. CASE H = {}
    <3>1. Cardinality(H) = 0
      BY <2>3, FS_EmptySet
    <3> QED BY <2>1, <2>2, <2>3, <3>1
  <2>4. CASE H # {}
    <3>1. PICK i \in H : H = {i}
      BY <2>2, <2>4
    <3>2. Cardinality(H) = 1
      BY <3>1, FS_Singleton
    <3>3. <<s, l>> \in reserved /\ ~RunnerHolds(s, l)
      BY <2>2, <3>1
    <3> QED BY <2>1, <3>2, <3>3
  <2> QED BY <2>3, <2>4
<1>2. WInv => ReservationOwned
  BY <1>1 DEF WInv, ReservationOwned
<1> QED BY <1>2, InvariantHolds, PTL

\* While no publication failed, nothing half-written is left when a step ends
\* (connector.py:504-534, 552-557).
THEOREM StepsSettle == WSpec => []Settled
<1>1. WInv => Settled
  BY DEF WInv, Quiescent, Settled, EntriesDiscarded
<1> QED BY <1>1, InvariantHolds, PTL

\* Every chunk that a step was asked to save can be found when it ends, unless the
\* store refused or evicted it (connector.py:308-382, 504-557).
THEOREM AllAreSaved == WSpec => []AllSaved
<1>1. ASSUME WInv, pc = "idle", faults = 0, NEW r \in Req
      PROVE  ToSet(segments[r]) \ lost \subseteq index
  <2>1. live = committed /\ committed = index /\ segments[r] \in Seq(Seg)
    BY <1>1 DEF WInv, WTypes, Quiescent, IInv, IndexExact
  <2>2. \A s \in ToSet(segments[r]) : Member(s, segments[r])
    BY <2>1, MemberOf
  <2>3. \A i \in 1..Len(segments[r]) : segments[r][i] \in lost \cup live
    BY <1>1 DEF WInv, Kept
  <2> QED BY <2>1, <2>2, <2>3 DEF Member
<1>2. WInv => AllSaved
  BY <1>1 DEF AllSaved
<1> QED BY <1>2, InvariantHolds, PTL

\* The pipeline uses the store as the store's own specification allows: all that is
\* proved of the store holds while chunks are saved (storage.py:3-5).
THEOREM StoreIsKept == WSpec => Spec
<1>1. WInit => Init
  BY DEF WInit
<1>2. WInv /\ [WNext]_wvars => [Next]_vars
  BY StoreStep DEF WInv
<1> QED BY <1>1, <1>2, InvariantHolds, PTL DEF WSpec, Spec

=============================================================================
