------------------------ MODULE DeviceStreamsProofs ------------------------
(***************************************************************************)
(* Proofs that DeviceStreams has no races, loads only prefixes that are    *)
(* computed, and implements SerialBlend, for any number of requests,       *)
(* layers, steps and side forwards that raise, with and without a load     *)
(* stream.                                                                 *)
(*                                                                         *)
(* DInv, the invariant of the first, has one idea: of any two operations   *)
(* in different queues that touch the same memory, one is behind an event  *)
(* of the other (Ordered).  Such an order survives as operations are done; *)
(* what is left to show is that new operations come with the events they   *)
(* need.  For the loader that is what its events stand for (LoaderEvents), *)
(* for the store that its queue is empty when a step ends and behind the   *)
(* forward's layer otherwise (StoreBehind).                                *)
(*                                                                         *)
(* RInv, the invariant of the refinement, looks ahead: it says what each   *)
(* operation in a queue, and the next one of the runner, will find when    *)
(* its place comes, in terms of memory now and of the operations before    *)
(* it.  By DInv, nothing of another stream comes between.                  *)
(*                                                                         *)
(* LoadsLate, on top of both, is why a load's prefix is computed.          *)
(***************************************************************************)
EXTENDS DeviceStreams, FiniteSetTheorems, SequenceTheorems, TLAPS

\* What is asked of operations: a stream to wait for, and the memory of their stream.
Events == [stream : Streams, after : Nat]

Kinds(s) == CASE s = "serving" -> {"fill", "blend", "scatter", "forward"}
              [] s = "load"    -> {"fill"}
              [] s = "store"   -> {"gather", "copy"}

Shaped(o, s) == o.do \in Kinds(s) /\ o.layer \in Layers /\ o.wait \in Events

Row(q) == q \in Seq({q[i] : i \in DOMAIN q})

Done(s) == given[s] - Len(queue[s])

DTypes ==
  /\ pc \in {"idle", "load", "layer", "forward", "wait"}
  /\ layer \in Layers /\ save \subseteq Slots /\ loadStream \in BOOLEAN
  /\ given \in [Streams -> Nat]
  /\ DOMAIN queue = Streams
  /\ \A s \in Streams : /\ Row(queue[s]) /\ Len(queue[s]) <= given[s]
                        /\ \A i \in 1..Len(queue[s]) : Shaped(queue[s][i], s)
  /\ loaded \in [Buffers -> Events] /\ reuse \in [Buffers -> Events]

\* The operation at place i of s is not done before the one at place k of t: it, or
\* one before it, waits for an event after that one.
Behind(s, i, t, k) ==
  \E j \in 1..i : queue[s][j].wait.stream = t /\ queue[s][j].wait.after >= Done(t) + k

\* Two operations touch the same memory, and one writes it.
Meet(o, p) == Writes(o) \cap Uses(p) # {} \/ Writes(p) \cap Uses(o) # {}

\* The load and the store stream have no memory in common.
Ordered ==
  \A t \in {"load", "store"} :
    \A i \in 1..Len(queue["serving"]), k \in 1..Len(queue[t]) :
      Meet(queue["serving"][i], queue[t][k]) =>
        Behind("serving", i, t, k) \/ Behind(t, k, "serving", i)

\* While a side forward is at a layer, the event of the layer's buffer is after all
\* loads, and the event of the other buffer after all that serving does with it.
LoaderEvents ==
  /\ ~loadStream => queue["load"] = <<>>
  /\ pc = "layer" /\ loadStream =>
       LET b == layer % 2
           x == (layer + 1) % 2
       IN /\ loaded[b].stream = "load" /\ loaded[b].after >= given["load"]
          /\ \A i \in 1..Len(queue["serving"]) :
               queue["serving"][i].layer % 2 = x =>
                 /\ reuse[x].stream = "serving"
                 /\ reuse[x].after >= Done("serving") + i

\* What the store stream has left is of earlier layers of this step's forward.
StoreBehind ==
  /\ pc \in {"idle", "load", "layer"} => queue["store"] = <<>>
  /\ pc = "forward" => \A i \in 1..Len(queue["store"]) : queue["store"][i].layer < layer

DInv == DTypes /\ Ordered /\ LoaderEvents /\ StoreBehind


-----------------------------------------------------------------------------
(* Queues and memory                                                       *)

\* Length, head and tail of a row.
LEMMA RowFacts ==
  ASSUME NEW q, Row(q)
  PROVE  /\ Len(q) \in Nat /\ DOMAIN q = 1..Len(q)
         /\ q = <<>> <=> Len(q) = 0
         /\ q # <<>> => /\ Row(Tail(q)) /\ Len(Tail(q)) = Len(q) - 1 /\ Head(q) = q[1]
                        /\ \A i \in 1..(Len(q) - 1) : Tail(q)[i] = q[i + 1]
<1> DEFINE S == {q[i] : i \in DOMAIN q}
<1>1. q \in Seq(S)
  BY DEF Row
<1> HIDE DEF S
<1>2. Len(q) \in Nat /\ DOMAIN q = 1..Len(q) /\ (q = <<>> <=> Len(q) = 0)
  BY <1>1
<1>3. ASSUME q # <<>>
      PROVE  /\ Row(Tail(q)) /\ Len(Tail(q)) = Len(q) - 1 /\ Head(q) = q[1]
             /\ \A i \in 1..(Len(q) - 1) : Tail(q)[i] = q[i + 1]
  <2>1. /\ Tail(q) \in Seq(S) /\ Len(Tail(q)) = Len(q) - 1 /\ Head(q) = q[1]
        /\ \A i \in 1..(Len(q) - 1) : Tail(q)[i] = q[i + 1]
    BY <1>1, <1>3
  <2> DEFINE r == Tail(q)
  <2>2. r \in Seq(S)
    BY <2>1
  <2> HIDE DEF r
  <2>3. Row(r)
    BY <2>2 DEF Row
  <2> QED BY <2>1, <2>3 DEF r
<1> QED BY <1>2, <1>3

\* A sequence is a row.
LEMMA RowOf ==
  ASSUME NEW S, NEW q \in Seq(S)
  PROVE  Row(q)
BY DEF Row

\* Two rows, one behind the other.
LEMMA RowJoin ==
  ASSUME NEW q, NEW r, Row(q), Row(r)
  PROVE  /\ Row(q \o r) /\ Len(q \o r) = Len(q) + Len(r)
         /\ \A i \in 1..Len(q) : (q \o r)[i] = q[i]
         /\ \A i \in 1..(Len(q) + Len(r)) :
              i > Len(q) => i - Len(q) \in 1..Len(r) /\ (q \o r)[i] = r[i - Len(q)]
<1> DEFINE S == {q[i] : i \in DOMAIN q} \cup {r[i] : i \in DOMAIN r}
<1>1. q \in Seq(S) /\ r \in Seq(S)
  BY DEF Row
<1> HIDE DEF S
<1>2. q \o r \in Seq(S) /\ Len(q) \in Nat /\ Len(r) \in Nat
  BY <1>1
<1>3. Row(q \o r)
  BY <1>2, RowOf
<1> QED BY <1>1, <1>2, <1>3

\* Where operations of two streams can meet.
LEMMA LoadMeets ==
  ASSUME NEW o, NEW p, Shaped(o, "serving"), Shaped(p, "load"), Meet(o, p)
  PROVE  o.do \in {"fill", "blend", "scatter"} /\ o.layer % 2 = p.layer % 2
<1>1. p.do = "fill" /\ o.do \in {"fill", "blend", "scatter", "forward"}
  BY DEF Shaped, Kinds
<1>2. Writes(p) = {<<"staging", p.layer % 2>>} /\ Uses(p) = {<<"staging", p.layer % 2>>}
  BY <1>1 DEF Writes, Uses
<1>3. CASE o.do = "forward"
  <2>1. \A x \in Uses(o) \cup Writes(o) : x[1] = "pages"
    BY <1>3 DEF Writes, Uses
  <2>2. \A x \in Uses(p) \cup Writes(p) : x[1] = "staging"
    BY <1>2
  <2> QED BY <2>1, <2>2 DEF Meet
<1>4. CASE o.do = "scatter"
  <2>1. /\ Writes(o) = {<<"pages", o.slot, o.layer>>}
        /\ Uses(o) = {<<"pages", o.slot, o.layer>>, <<"staging", o.layer % 2>>}
    BY <1>4 DEF Writes, Uses
  <2> QED BY <1>2, <1>4, <2>1 DEF Meet
<1>5. CASE o.do \in {"fill", "blend"}
  <2>1. Writes(o) = {<<"staging", o.layer % 2>>} /\ Uses(o) = {<<"staging", o.layer % 2>>}
    BY <1>5 DEF Writes, Uses
  <2> QED BY <1>2, <1>5, <2>1 DEF Meet
<1> QED BY <1>1, <1>3, <1>4, <1>5

\* Only gathers meet the serving stream, where it writes pages of their layer.
LEMMA StoreMeets ==
  ASSUME NEW o, NEW p, Shaped(o, "serving"), Shaped(p, "store"), Meet(o, p)
  PROVE  p.do = "gather" /\ o.layer = p.layer /\ o.do \in {"scatter", "forward"}
<1>1. p.do \in {"gather", "copy"} /\ o.do \in {"fill", "blend", "scatter", "forward"}
  BY DEF Shaped, Kinds
<1>2. CASE p.do = "copy"
  <2>1. \A x \in Uses(p) \cup Writes(p) : x[1] \in {"host", "stored"}
    BY <1>2 DEF Writes, Uses
  <2>2. \A x \in Uses(o) \cup Writes(o) : x[1] \in {"pages", "staging"}
    BY <1>1 DEF Writes, Uses
  <2> QED BY <2>1, <2>2 DEF Meet
<1>3. CASE p.do = "gather"
  <2>1. /\ Writes(p) = {<<"stored", p.slot>>}
        /\ Uses(p) = {<<"stored", p.slot>>, <<"pages", p.slot, p.layer>>}
    BY <1>3 DEF Writes, Uses
  <2>2. CASE o.do \in {"fill", "blend"}
    <3>1. Writes(o) = {<<"staging", o.layer % 2>>} /\ Uses(o) = {<<"staging", o.layer % 2>>}
      BY <2>2 DEF Writes, Uses
    <3> QED BY <2>1, <3>1 DEF Meet
  <2>3. CASE o.do = "scatter"
    <3>1. /\ Writes(o) = {<<"pages", o.slot, o.layer>>}
          /\ Uses(o) = {<<"pages", o.slot, o.layer>>, <<"staging", o.layer % 2>>}
      BY <2>3 DEF Writes, Uses
    <3> QED BY <1>3, <2>1, <2>3, <3>1 DEF Meet
  <2>4. CASE o.do = "forward"
    <3>1. \A x \in Uses(o) \cup Writes(o) : x[1] = "pages" /\ x[3] = o.layer
      BY <2>4 DEF Writes, Uses
    <3>2. \A x \in Uses(p) \cup Writes(p) : x[1] = "pages" => x[3] = p.layer
      BY <2>1
    <3> QED BY <1>3, <2>4, <3>1, <3>2 DEF Meet
  <2> QED BY <1>1, <2>2, <2>3, <2>4
<1> QED BY <1>1, <1>2, <1>3

\* Loads and the store's operations share no memory.
LEMMA LoadAndStoreApart ==
  ASSUME NEW o, NEW p, Shaped(o, "load"), Shaped(p, "store")
  PROVE  Writes(o) \cap Uses(p) = {} /\ Writes(p) \cap Uses(o) = {}
<1>1. o.do = "fill" /\ p.do \in {"gather", "copy"}
  BY DEF Shaped, Kinds
<1>2. \A x \in Uses(o) \cup Writes(o) : x[1] = "staging"
  BY <1>1 DEF Writes, Uses
<1>3. \A x \in Uses(p) \cup Writes(p) : x[1] \in {"host", "stored", "pages"}
  BY <1>1 DEF Writes, Uses
<1> QED BY <1>2, <1>3


-----------------------------------------------------------------------------
(* Operations done and given                                               *)

\* What is known of each queue.
LEMMA QueueTypes ==
  ASSUME DTypes, NEW s \in Streams
  PROVE  /\ Row(queue[s]) /\ Len(queue[s]) \in Nat /\ given[s] \in Nat
         /\ Done(s) \in Nat /\ Done(s) + Len(queue[s]) = given[s]
         /\ \A i \in 1..Len(queue[s]) :
              /\ Shaped(queue[s][i], s) /\ queue[s][i].layer \in Nat
              /\ queue[s][i].wait \in Events
              /\ queue[s][i].wait.stream \in Streams /\ queue[s][i].wait.after \in Nat
<1>1. Row(queue[s]) /\ given[s] \in Nat /\ Len(queue[s]) <= given[s]
  BY DEF DTypes
<1>2. Len(queue[s]) \in Nat
  BY <1>1, RowFacts
<1>3. Done(s) \in Nat /\ Done(s) + Len(queue[s]) = given[s]
  BY <1>1, <1>2 DEF Done
<1>4. ASSUME NEW i \in 1..Len(queue[s])
      PROVE  /\ Shaped(queue[s][i], s) /\ queue[s][i].layer \in Nat
             /\ queue[s][i].wait \in Events
             /\ queue[s][i].wait.stream \in Streams /\ queue[s][i].wait.after \in Nat
  <2>1. Shaped(queue[s][i], s)
    BY DEF DTypes
  <2>2. queue[s][i].layer \in Nat
    BY <2>1, LayersAssumption DEF Shaped, Layers
  <2>3. queue[s][i].wait \in Events
    BY <2>1 DEF Shaped
  <2> QED BY <2>1, <2>2, <2>3 DEF Events
<1> QED BY <1>1, <1>2, <1>3, <1>4

\* An operation that is done leaves the order of the others.
LEMMA RunOrder ==
  ASSUME DTypes, Ordered, NEW s \in Streams, Ready(s),
         queue' = [queue EXCEPT ![s] = Tail(queue[s])], given' = given
  PROVE  /\ DOMAIN queue' = Streams
         /\ \A t \in Streams :
              /\ Row(queue'[t])
              /\ Len(queue'[t]) = Len(queue[t]) - (IF t = s THEN 1 ELSE 0)
              /\ Done(t)' = Done(t) + (IF t = s THEN 1 ELSE 0)
              /\ \A i \in 1..Len(queue'[t]) :
                   /\ i + (IF t = s THEN 1 ELSE 0) \in 1..Len(queue[t])
                   /\ queue'[t][i] = queue[t][i + (IF t = s THEN 1 ELSE 0)]
         /\ Ordered'
<1> DEFINE moved(t) == IF t = s THEN 1 ELSE 0
<1>1. queue[s] # <<>> /\ Happened(Head(queue[s]).wait) /\ DOMAIN queue = Streams
  BY DEF Ready, DTypes
<1>2. queue'[s] = Tail(queue[s]) /\ \A t \in Streams : t # s => queue'[t] = queue[t]
  BY <1>1
<1>3. DOMAIN queue' = Streams
  BY <1>1
<1>4. ASSUME NEW t \in Streams
      PROVE  /\ Row(queue'[t]) /\ Len(queue'[t]) = Len(queue[t]) - moved(t)
             /\ Done(t)' = Done(t) + moved(t)
             /\ \A i \in 1..Len(queue'[t]) :
                  /\ i + moved(t) \in 1..Len(queue[t])
                  /\ queue'[t][i] = queue[t][i + moved(t)]
  <2>1. Row(queue[t]) /\ Len(queue[t]) \in Nat /\ given[t] \in Nat
    BY QueueTypes
  <2>2. CASE t = s
    <3>1. /\ Row(queue'[t]) /\ Len(queue'[t]) = Len(queue[t]) - 1
          /\ \A i \in 1..(Len(queue[t]) - 1) : queue'[t][i] = queue[t][i + 1]
      BY <1>1, <1>2, <2>1, <2>2, RowFacts
    <3> QED BY <2>1, <2>2, <3>1 DEF Done
  <2>3. CASE t # s
    <3>1. queue'[t] = queue[t]
      BY <1>2, <2>3
    <3> QED BY <2>1, <2>3, <3>1 DEF Done
  <2> QED BY <2>2, <2>3
<1>5. ASSUME NEW t \in Streams, NEW u \in Streams,
             NEW i \in 1..Len(queue'[t]), NEW k \in 1..Len(queue'[u]),
             Behind(t, i + moved(t), u, k + moved(u))
      PROVE  Behind(t, i, u, k)'
  <2>0. /\ i + moved(t) \in 1..Len(queue[t]) /\ k + moved(u) \in 1..Len(queue[u])
        /\ Len(queue[t]) \in Nat /\ Len(queue[u]) \in Nat /\ Done(u) \in Nat
        /\ Len(queue'[t]) \in Nat /\ Len(queue'[u]) \in Nat
    BY <1>4, QueueTypes, RowFacts
  <2>1. PICK j \in 1..(i + moved(t)) :
          queue[t][j].wait.stream = u /\ queue[t][j].wait.after >= Done(u) + (k + moved(u))
    BY <1>5 DEF Behind
  <2>2. j \in 1..Len(queue[t])
    BY <2>0
  <2>3. queue[t][j].wait.after \in Nat
    BY <2>2, QueueTypes
  <2>4. CASE t = s /\ j = 1
    <3>1. Head(queue[t]) = queue[t][j]
      BY <1>1, <2>4, QueueTypes, RowFacts
    <3>2. Done(u) >= queue[t][j].wait.after
      BY <1>1, <2>1, <2>4, <3>1 DEF Happened, Done
    <3>3. k + moved(u) >= 1 /\ k + moved(u) \in Nat
      BY <2>0
    <3> QED BY <2>0, <2>1, <2>3, <3>2, <3>3
  <2>5. CASE ~(t = s /\ j = 1)
    <3>1. j - moved(t) \in 1..i /\ (j - moved(t)) + moved(t) = j
      BY <2>0, <2>5
    <3>2. j - moved(t) \in 1..Len(queue'[t])
      BY <2>0, <3>1
    <3>3. queue'[t][j - moved(t)] = queue[t][j]
      BY <1>4, <3>1, <3>2
    <3>4. Done(u)' + k = Done(u) + (k + moved(u))
      <4>1. Done(u)' = Done(u) + moved(u)
        BY <1>4
      <4>2. moved(u) \in Nat /\ k \in Nat /\ Done(u) \in Nat
        BY <2>0
      <4> HIDE DEF moved
      <4> QED BY <4>1, <4>2
    <3>5. queue'[t][j - moved(t)].wait.stream = u /\ queue'[t][j - moved(t)].wait.after >= Done(u)' + k
      BY <2>1, <3>3, <3>4
    <3> QED BY <3>1, <3>5 DEF Behind
  <2> QED BY <2>4, <2>5
<1>6. Ordered'
  <2> SUFFICES ASSUME NEW t \in {"load", "store"}, NEW i \in 1..Len(queue'["serving"]),
                      NEW k \in 1..Len(queue'[t]), Meet(queue["serving"][i], queue[t][k])'
               PROVE  Behind("serving", i, t, k)' \/ Behind(t, k, "serving", i)'
    BY DEF Ordered
  <2>1. "serving" \in Streams /\ t \in Streams
    BY DEF Streams
  <2>2. /\ i + moved("serving") \in 1..Len(queue["serving"])
        /\ queue'["serving"][i] = queue["serving"][i + moved("serving")]
        /\ k + moved(t) \in 1..Len(queue[t]) /\ queue'[t][k] = queue[t][k + moved(t)]
    BY <1>4, <2>1
  <2>3. Meet(queue["serving"][i + moved("serving")], queue[t][k + moved(t)])
    BY <2>2 DEF Meet, Writes, Uses
  <2>4. \/ Behind("serving", i + moved("serving"), t, k + moved(t))
        \/ Behind(t, k + moved(t), "serving", i + moved("serving"))
    BY <2>2, <2>3 DEF Ordered
  <2> QED BY <1>5, <2>1, <2>4
<1> QED BY <1>3, <1>4, <1>6


\* The queues have what they had, and perhaps more behind it.
Longer ==
  \A s \in Streams :
    /\ Row(queue'[s]) /\ Len(queue'[s]) \in Nat /\ Len(queue'[s]) >= Len(queue[s])
    /\ Len(queue'[s]) <= given'[s]
    /\ Done(s)' = Done(s) /\ Done(s) + Len(queue'[s]) = given'[s]
    /\ \A i \in 1..Len(queue'[s]) : Shaped(queue'[s][i], s)
    /\ \A i \in 1..Len(queue[s]) : queue'[s][i] = queue[s][i]

\* What is given comes behind what is there.
LEMMA GiveQueues ==
  ASSUME DTypes, NEW serving, NEW load, NEW store, Give(serving, load, store),
         Row(serving), Row(load), Row(store),
         \A i \in 1..Len(serving) : Shaped(serving[i], "serving"),
         \A i \in 1..Len(load) : Shaped(load[i], "load"),
         \A i \in 1..Len(store) : Shaped(store[i], "store")
  PROVE  /\ DOMAIN queue' = Streams /\ given' \in [Streams -> Nat]
         /\ queue'["serving"] = queue["serving"] \o serving
         /\ queue'["load"] = queue["load"] \o load
         /\ queue'["store"] = queue["store"] \o store
         /\ given'["serving"] = given["serving"] + Len(serving)
         /\ given'["load"] = given["load"] + Len(load)
         /\ given'["store"] = given["store"] + Len(store)
         /\ Longer
<1> DEFINE more(s) == CASE s = "serving" -> serving [] s = "load" -> load [] s = "store" -> store
<1>1. /\ queue' = [s \in Streams |-> queue[s] \o more(s)]
      /\ given' = [s \in Streams |-> given[s] + Len(more(s))]
  <2> DEFINE f == [s \in Streams |-> more(s)]
  <2>1. /\ queue' = [s \in Streams |-> queue[s] \o f[s]]
        /\ given' = [s \in Streams |-> given[s] + Len(f[s])]
    BY DEF Give
  <2>2. \A s \in Streams : f[s] = more(s)
    OBVIOUS
  <2> HIDE DEF f, more
  <2> QED BY <2>1, <2>2
<1>2. \A s \in Streams : s \in {"serving", "load", "store"}
  BY DEF Streams
<1>3. more("serving") = serving /\ more("load") = load /\ more("store") = store
  OBVIOUS
<1>4. \A s \in Streams : Row(more(s)) /\ \A i \in 1..Len(more(s)) : Shaped(more(s)[i], s)
  BY <1>2, <1>3
<1> HIDE DEF more
<1>5. ASSUME NEW s \in Streams
      PROVE  /\ queue'[s] = queue[s] \o more(s) /\ given'[s] = given[s] + Len(more(s))
             /\ given'[s] \in Nat
             /\ Row(queue'[s]) /\ Len(queue'[s]) \in Nat /\ Len(queue'[s]) >= Len(queue[s])
             /\ Len(queue'[s]) <= given'[s]
             /\ Done(s)' = Done(s) /\ Done(s) + Len(queue'[s]) = given'[s]
             /\ \A i \in 1..Len(queue'[s]) : Shaped(queue'[s][i], s)
             /\ \A i \in 1..Len(queue[s]) : queue'[s][i] = queue[s][i]
  <2>1. queue'[s] = queue[s] \o more(s) /\ given'[s] = given[s] + Len(more(s))
    BY <1>1
  <2>2. /\ Row(queue[s]) /\ Len(queue[s]) \in Nat /\ given[s] \in Nat
        /\ Done(s) + Len(queue[s]) = given[s] /\ Done(s) \in Nat
        /\ \A i \in 1..Len(queue[s]) : Shaped(queue[s][i], s)
    BY QueueTypes
  <2>3. Row(more(s)) /\ Len(more(s)) \in Nat /\ \A i \in 1..Len(more(s)) : Shaped(more(s)[i], s)
    BY <1>4, RowFacts
  <2>4. /\ Row(queue'[s]) /\ Len(queue'[s]) = Len(queue[s]) + Len(more(s))
        /\ \A i \in 1..Len(queue[s]) : queue'[s][i] = queue[s][i]
        /\ \A i \in 1..Len(queue'[s]) :
             i > Len(queue[s]) => /\ i - Len(queue[s]) \in 1..Len(more(s))
                                  /\ queue'[s][i] = more(s)[i - Len(queue[s])]
    BY <2>1, <2>2, <2>3, RowJoin
  <2>5. \A i \in 1..Len(queue'[s]) : i \in 1..Len(queue[s]) \/ i > Len(queue[s])
    BY <2>2, <2>3, <2>4
  <2>6. \A i \in 1..Len(queue'[s]) : Shaped(queue'[s][i], s)
    BY <2>2, <2>3, <2>4, <2>5
  <2>7. /\ Len(queue'[s]) \in Nat /\ Len(queue'[s]) >= Len(queue[s]) /\ given'[s] \in Nat
        /\ Len(queue'[s]) <= given'[s] /\ given'[s] - Len(queue'[s]) = Done(s)
        /\ Done(s) + Len(queue'[s]) = given'[s]
    BY <2>1, <2>2, <2>3, <2>4
  <2>8. Done(s)' = Done(s)
    BY <2>7 DEF Done
  <2> QED BY <2>1, <2>4, <2>6, <2>7, <2>8
<1>6. DOMAIN queue' = Streams /\ given' \in [Streams -> Nat]
  BY <1>1, <1>5
<1>7. {"serving", "load", "store"} \subseteq Streams
  BY DEF Streams
<1> QED BY <1>3, <1>5, <1>6, <1>7 DEF Longer

\* Given operations keep the order if what is new in it is ordered.
LEMMA GiveOrder ==
  ASSUME DTypes, Ordered, Longer,
         \A i \in 1..Len(queue'["serving"]), k \in 1..Len(queue'["load"]) :
           /\ i > Len(queue["serving"]) \/ k > Len(queue["load"])
           /\ queue'["serving"][i].do # "forward"
           /\ queue'["serving"][i].layer % 2 = queue'["load"][k].layer % 2
           => (Behind("serving", i, "load", k) \/ Behind("load", k, "serving", i))',
         \A i \in 1..Len(queue'["serving"]), k \in 1..Len(queue'["store"]) :
           /\ i > Len(queue["serving"]) \/ k > Len(queue["store"])
           /\ queue'["serving"][i].layer = queue'["store"][k].layer
           => (Behind("serving", i, "store", k) \/ Behind("store", k, "serving", i))'
  PROVE  Ordered'
<1> SUFFICES ASSUME NEW t \in {"load", "store"}, NEW i \in 1..Len(queue'["serving"]),
                    NEW k \in 1..Len(queue'[t]), Meet(queue["serving"][i], queue[t][k])'
             PROVE  (Behind("serving", i, t, k) \/ Behind(t, k, "serving", i))'
  BY DEF Ordered
<1>1. "serving" \in Streams /\ t \in Streams
  BY DEF Streams
<1> DEFINE o == queue'["serving"][i]
           p == queue'[t][k]
<1>2. Shaped(o, "serving") /\ Shaped(p, t)
  BY <1>1 DEF Longer
<1>3. Meet(o, p)
  BY DEF Meet, Writes, Uses
<1>4. /\ Len(queue["serving"]) \in Nat /\ Len(queue[t]) \in Nat
      /\ Len(queue'["serving"]) \in Nat /\ Len(queue'[t]) \in Nat
  BY <1>1, QueueTypes, RowFacts
<1>5. CASE i > Len(queue["serving"]) \/ k > Len(queue[t])
  <2>1. CASE t = "load"
    <3>1. o.do # "forward" /\ o.layer % 2 = p.layer % 2
      BY <1>2, <1>3, <2>1, LoadMeets
    <3> QED BY <1>5, <2>1, <3>1
  <2>2. CASE t = "store"
    <3>1. o.layer = p.layer
      BY <1>2, <1>3, <2>2, StoreMeets
    <3> QED BY <1>5, <2>2, <3>1
  <2> QED BY <2>1, <2>2
<1>6. CASE ~(i > Len(queue["serving"]) \/ k > Len(queue[t]))
  <2>1. i \in 1..Len(queue["serving"]) /\ k \in 1..Len(queue[t])
    BY <1>4, <1>6
  <2>2. o = queue["serving"][i] /\ p = queue[t][k]
    BY <1>1, <2>1 DEF Longer
  <2>3. Behind("serving", i, t, k) \/ Behind(t, k, "serving", i)
    BY <1>3, <2>1, <2>2 DEF Ordered
  <2>4. ASSUME NEW a \in Streams, NEW b \in Streams, NEW m \in 1..Len(queue[a]), NEW n \in Nat,
               Behind(a, m, b, n)
        PROVE  Behind(a, m, b, n)'
    <3>1. PICK j \in 1..m : queue[a][j].wait.stream = b /\ queue[a][j].wait.after >= Done(b) + n
      BY <2>4 DEF Behind
    <3>2. j \in 1..Len(queue[a])
      BY <2>4, QueueTypes
    <3>3. queue'[a][j] = queue[a][j] /\ Done(b)' = Done(b)
      BY <3>2 DEF Longer
    <3>4. queue'[a][j].wait.stream = b /\ queue'[a][j].wait.after >= Done(b)' + n
      BY <3>1, <3>3
    <3> QED BY <3>4 DEF Behind
  <2> QED BY <1>1, <1>4, <2>1, <2>3, <2>4
<1> QED BY <1>5, <1>6


-----------------------------------------------------------------------------
(* The loader                                                              *)

\* There are two buffers, taken in turns.
LEMMA Parity ==
  ASSUME NEW n \in Nat
  PROVE  n % 2 \in Buffers /\ (n + 1) % 2 \in Buffers /\ (n + 1) % 2 # n % 2
         /\ (n + 2) % 2 = n % 2
BY DEF Buffers

\* Events made by the code are events.
LEMMA EventTypes ==
  /\ NoEvent \in Events
  /\ \A s \in Streams, n \in Nat :
       Event(s, n) \in Events /\ Event(s, n).stream = s /\ Event(s, n).after = n
<1>1. "serving" \in Streams /\ 0 \in Nat
  BY DEF Streams
<1> QED BY <1>1 DEF Event, NoEvent, Events

\* Rows of one operation and of none.
LEMMA OneOperation ==
  ASSUME NEW o
  PROVE  Row(<<o>>) /\ Len(<<o>>) = 1 /\ <<o>>[1] = o /\ Row(<<>>) /\ Len(<<>>) = 0
<1>1. <<o>> \in Seq({o}) /\ <<>> \in Seq({o})
  OBVIOUS
<1> QED BY <1>1, RowOf

\* What a turn of the side forward gives, from its first operation to all of it, is
\* ordered with what the streams have.
LEMMA WorkOrder ==
  ASSUME DInv, pc = "layer", NEW work, NEW ahead, GiveWork(work, ahead),
         Row(work), \A i \in 1..Len(work) : work[i].do \in {"blend", "scatter"}
                                            /\ work[i].layer = layer /\ work[i].wait \in Events,
         work # <<>> => work[1].wait = loaded[layer % 2],
         Row(ahead), Len(ahead) \in {0, 1},
         \A i \in 1..Len(ahead) :
           ahead[i].do = "fill" /\ layer + 1 \in Layers /\ ahead[i].layer = layer + 1
           /\ ahead[i].wait = IF loadStream THEN reuse[(layer + 1) % 2] ELSE NoEvent
  PROVE  /\ DOMAIN queue' = Streams /\ given' \in [Streams -> Nat]
         /\ \A s \in Streams :
              /\ Row(queue'[s]) /\ Len(queue'[s]) \in Nat /\ Len(queue'[s]) <= given'[s]
              /\ Done(s)' + Len(queue'[s]) = given'[s]
              /\ \A i \in 1..Len(queue'[s]) : Shaped(queue'[s][i], s)
         /\ Ordered' /\ queue'["store"] = <<>>
         /\ ~loadStream => queue'["load"] = <<>>
         /\ loadStream => /\ given'["load"] = given["load"] + Len(ahead)
                          /\ given'["serving"] = given["serving"] + Len(work)
<1>1. layer \in Layers /\ layer \in Nat
  BY LayersAssumption DEF DInv, DTypes, Layers
<1>2. \A i \in 1..Len(work) : Shaped(work[i], "serving")
  BY <1>1 DEF Shaped, Kinds
<1>3. \A i \in 1..Len(ahead) : /\ Shaped(ahead[i], "load") /\ Shaped(ahead[i], "serving")
                               /\ ahead[i].layer % 2 = (layer + 1) % 2
  <2>1. reuse[(layer + 1) % 2] \in Events /\ NoEvent \in Events
    BY <1>1, Parity, EventTypes DEF DInv, DTypes
  <2> QED BY <2>1 DEF Shaped, Kinds
<1>4. queue["store"] = <<>> /\ DTypes /\ Ordered /\ "store" \in Streams /\ "load" \in Streams
      /\ "serving" \in Streams
  BY DEF DInv, StoreBehind, Streams
<1>5. Row(<<>>) /\ Len(<<>>) = 0 /\ 1..Len(<<>>) = {} /\ <<>> \o <<>> = <<>>
  <2>1. Row(<<>>) /\ Len(<<>>) = 0
    BY OneOperation
  <2>2. 1..Len(<<>>) = {}
    BY <2>1
  <2>3. <<>> \o <<>> = <<>>
    OBVIOUS
  <2> QED BY <2>1, <2>2, <2>3
<1>6. CASE ~loadStream
  <2>1. Give(ahead \o work, <<>>, <<>>) /\ queue["load"] = <<>>
    BY <1>6 DEF GiveWork, DInv, LoaderEvents
  <2>2. Row(ahead \o work) /\ \A i \in 1..Len(ahead \o work) : Shaped((ahead \o work)[i], "serving")
    <3>1. Len(ahead) \in Nat /\ Len(work) \in Nat
      BY RowFacts
    <3>2. \A i \in 1..(Len(ahead) + Len(work)) : i \in 1..Len(ahead) \/ i > Len(ahead)
      BY <3>1
    <3> QED BY <1>2, <1>3, <3>2, RowJoin
  <2>3. /\ DOMAIN queue' = Streams /\ given' \in [Streams -> Nat]
        /\ queue'["load"] = <<>> /\ queue'["store"] = <<>>
        /\ Longer
    <3> DEFINE w == ahead \o work
               e == <<>>
    <3>1. /\ Give(w, e, e) /\ Row(w) /\ Row(e) /\ 1..Len(e) = {}
          /\ \A i \in 1..Len(w) : Shaped(w[i], "serving")
      BY <1>5, <2>1, <2>2
    <3> HIDE DEF w, e
    <3>2. /\ queue'["load"] = queue["load"] \o e /\ queue'["store"] = queue["store"] \o e
          /\ DOMAIN queue' = Streams /\ given' \in [Streams -> Nat]
          /\ Longer
      BY <1>4, <3>1, GiveQueues
    <3>3. queue'["load"] = <<>> /\ queue'["store"] = <<>>
      BY <1>4, <1>5, <2>1, <3>2 DEF e
    <3> QED BY <3>2, <3>3
  <2>4. 1..Len(queue'["load"]) = {} /\ 1..Len(queue'["store"]) = {}
    BY <1>5, <2>3
  <2>5. Ordered'
    BY <1>4, <2>3, <2>4, GiveOrder
  <2> QED BY <1>6, <2>3, <2>5 DEF Longer
<1>7. CASE loadStream
  <2>1. Give(work, ahead, <<>>)
    BY <1>7 DEF GiveWork
  <2>2. /\ DOMAIN queue' = Streams /\ given' \in [Streams -> Nat]
        /\ queue'["serving"] = queue["serving"] \o work
        /\ queue'["load"] = queue["load"] \o ahead
        /\ queue'["store"] = queue["store"] \o <<>>
        /\ given'["serving"] = given["serving"] + Len(work)
        /\ given'["load"] = given["load"] + Len(ahead)
        /\ Longer
    <3> DEFINE e == <<>>
    <3>1. /\ Give(work, ahead, e) /\ Row(e) /\ 1..Len(e) = {}
          /\ Row(work) /\ Row(ahead)
          /\ \A i \in 1..Len(work) : Shaped(work[i], "serving")
          /\ \A i \in 1..Len(ahead) : Shaped(ahead[i], "load")
      BY <1>2, <1>3, <1>5, <2>1
    <3>2. queue["store"] \o e = queue["store"] \o <<>>
      OBVIOUS
    <3> HIDE DEF e
    <3>3. /\ DOMAIN queue' = Streams /\ given' \in [Streams -> Nat]
          /\ queue'["serving"] = queue["serving"] \o work
          /\ queue'["load"] = queue["load"] \o ahead
          /\ queue'["store"] = queue["store"] \o e
          /\ given'["serving"] = given["serving"] + Len(work)
          /\ given'["load"] = given["load"] + Len(ahead)
          /\ Longer
      BY <1>4, <3>1, GiveQueues
    <3> QED BY <3>2, <3>3
  <2>3. queue'["store"] = <<>> /\ 1..Len(queue'["store"]) = {}
    BY <1>4, <1>5, <2>2
  <2>4. /\ Row(queue["serving"]) /\ Row(queue["load"])
        /\ Len(queue["serving"]) \in Nat /\ Len(queue["load"]) \in Nat
        /\ Done("serving") \in Nat /\ Done("load") \in Nat
        /\ given["serving"] = Done("serving") + Len(queue["serving"])
        /\ given["load"] = Done("load") + Len(queue["load"])
        /\ Len(work) \in Nat /\ Len(ahead) \in Nat
    BY <1>4, QueueTypes, RowFacts
  <2>5. /\ Len(queue'["serving"]) = Len(queue["serving"]) + Len(work)
        /\ \A i \in 1..Len(queue'["serving"]) :
             i > Len(queue["serving"]) => /\ i - Len(queue["serving"]) \in 1..Len(work)
                                          /\ queue'["serving"][i] = work[i - Len(queue["serving"])]
    <3>1. queue'["serving"] = queue["serving"] \o work
      BY <2>2
    <3> DEFINE q == queue["serving"]
    <3>2. /\ Len(q \o work) = Len(q) + Len(work)
          /\ \A j \in 1..(Len(q) + Len(work)) :
               j > Len(q) => j - Len(q) \in 1..Len(work) /\ (q \o work)[j] = work[j - Len(q)]
      <4>1. Row(q) /\ Row(work)
        BY <2>4
      <4> HIDE DEF q
      <4> QED BY <4>1, RowJoin
    <3> QED BY <3>1, <3>2
  <2>6. /\ Len(queue'["load"]) = Len(queue["load"]) + Len(ahead)
        /\ \A k \in 1..Len(queue'["load"]) :
             k > Len(queue["load"]) => /\ k - Len(queue["load"]) \in 1..Len(ahead)
                                       /\ queue'["load"][k] = ahead[k - Len(queue["load"])]
    <3>1. queue'["load"] = queue["load"] \o ahead
      BY <2>2
    <3> DEFINE q == queue["load"]
    <3>2. /\ Len(q \o ahead) = Len(q) + Len(ahead)
          /\ \A j \in 1..(Len(q) + Len(ahead)) :
               j > Len(q) => j - Len(q) \in 1..Len(ahead) /\ (q \o ahead)[j] = ahead[j - Len(q)]
      <4>1. Row(q) /\ Row(ahead)
        BY <2>4
      <4> HIDE DEF q
      <4> QED BY <4>1, RowJoin
    <3> QED BY <3>1, <3>2
  <2>7. /\ loaded[layer % 2].stream = "load" /\ loaded[layer % 2].after >= given["load"]
        /\ loaded[layer % 2].after \in Nat
        /\ \A i \in 1..Len(queue["serving"]) :
             queue["serving"][i].layer % 2 = (layer + 1) % 2 =>
               /\ reuse[(layer + 1) % 2].stream = "serving"
               /\ reuse[(layer + 1) % 2].after >= Done("serving") + i
    <3>1. loaded[layer % 2] \in Events
      BY <1>1, Parity DEF DInv, DTypes
    <3> QED BY <1>7, <3>1 DEF DInv, LoaderEvents, Events
  <2>8. ASSUME NEW i \in 1..Len(queue'["serving"]), NEW k \in 1..Len(queue'["load"]),
               i > Len(queue["serving"]) \/ k > Len(queue["load"]),
               queue'["serving"][i].layer % 2 = queue'["load"][k].layer % 2
        PROVE  (Behind("serving", i, "load", k) \/ Behind("load", k, "serving", i))'
    <3>0. i \in Nat /\ k \in Nat /\ i >= 1 /\ k >= 1
      BY <2>2, <1>4
    <3>1. CASE k > Len(queue["load"])
      <4>1. /\ k - Len(queue["load"]) \in 1..Len(ahead)
            /\ queue'["load"][k] = ahead[k - Len(queue["load"])]
        BY <2>6, <3>1
      <4>2. /\ queue'["load"][k].layer % 2 = (layer + 1) % 2
            /\ queue'["load"][k].wait = reuse[(layer + 1) % 2]
        BY <1>3, <1>7, <4>1
      <4>3. ~(i > Len(queue["serving"]))
        <5> SUFFICES ASSUME i > Len(queue["serving"])
                     PROVE  FALSE
          OBVIOUS
        <5>1. queue'["serving"][i].layer = layer
          BY <2>5
        <5> QED BY <1>1, <2>8, <4>2, <5>1, Parity
      <4>4. i \in 1..Len(queue["serving"])
        BY <2>4, <3>0, <4>3
      <4>5. queue'["serving"][i] = queue["serving"][i]
        BY <1>4, <2>2, <4>4
      <4>6. reuse[(layer + 1) % 2].stream = "serving" /\ reuse[(layer + 1) % 2].after >= Done("serving")' + i
        BY <1>4, <2>2, <2>7, <2>8, <4>2, <4>4, <4>5 DEF Longer
      <4>7. k \in 1..k
        BY <3>0
      <4>8. Behind("load", k, "serving", i)'
        BY <4>2, <4>6, <4>7 DEF Behind
      <4> QED BY <4>8
    <3>2. CASE ~(k > Len(queue["load"]))
      <4>1. i > Len(queue["serving"])
        BY <2>8, <3>2
      <4> DEFINE j == Len(queue["serving"]) + 1
      <4>2. j \in 1..i /\ j \in 1..Len(queue'["serving"]) /\ j > Len(queue["serving"])
            /\ j - Len(queue["serving"]) = 1
        <5>1. j \in Nat /\ j >= 1 /\ j <= i /\ j > Len(queue["serving"])
              /\ j - Len(queue["serving"]) = 1
          BY <2>4, <3>0, <4>1
        <5>2. i <= Len(queue'["serving"]) /\ Len(queue'["serving"]) \in Nat
          BY <1>4, <2>2
        <5> HIDE DEF j
        <5> QED BY <3>0, <5>1, <5>2
      <4>3. queue'["serving"][j] = work[1] /\ work # <<>>
        <5>1. 1 \in 1..Len(work)
          BY <2>5, <4>2
        <5>2. work # <<>>
          BY <1>5, <5>1
        <5> QED BY <2>5, <4>2, <5>2
      <4>4. queue'["serving"][j].wait.stream = "load"
            /\ queue'["serving"][j].wait.after >= given["load"]
            /\ queue'["serving"][j].wait.after \in Nat
        BY <2>7, <4>3
      <4>5. given["load"] >= Done("load")' + k
        BY <1>4, <2>2, <2>4, <3>0, <3>2 DEF Longer
      <4>6. queue'["serving"][j].wait.after >= Done("load")' + k
        <5>1. Done("load")' \in Nat
          BY <1>4, <2>2, <2>4 DEF Longer
        <5>2. given["load"] \in Nat
          BY <1>4, QueueTypes
        <5> HIDE DEF j
        <5> QED BY <3>0, <4>4, <4>5, <5>1, <5>2
      <4>7. Behind("serving", i, "load", k)'
        BY <4>2, <4>4, <4>6 DEF Behind
      <4> QED BY <4>7
    <3> QED BY <3>1, <3>2
  <2>9. Ordered'
    BY <1>4, <2>2, <2>3, <2>8, GiveOrder
  <2> QED BY <1>7, <2>2, <2>3, <2>9 DEF Longer
<1> QED BY <1>6, <1>7

\* What run may have enqueued for a layer, when it ends or raises.
LEMMA TurnShapes ==
  ASSUME DInv, NEW work \in {<<>>, <<BlendOp>>, Work}
  PROVE  /\ Row(work) /\ Len(work) \in Nat
         /\ \A i \in 1..Len(work) : work[i].do \in {"blend", "scatter"}
                                    /\ work[i].layer = layer /\ work[i].wait \in Events
         /\ work # <<>> => work[1].wait = loaded[layer % 2]
         /\ Row(Ahead) /\ Len(Ahead) \in {0, 1}
         /\ \A i \in 1..Len(Ahead) :
              Ahead[i].do = "fill" /\ layer + 1 \in Layers /\ Ahead[i].layer = layer + 1
              /\ Ahead[i].wait = IF loadStream THEN reuse[(layer + 1) % 2] ELSE NoEvent
<1>1. layer \in Layers /\ layer \in Nat /\ Last \in Nat /\ layer <= Last
  BY LayersAssumption DEF DInv, DTypes, Layers, Last
<1>2. loaded[layer % 2] \in Events /\ NoEvent \in Events
  BY <1>1, Parity, EventTypes DEF DInv, DTypes
<1>3. /\ BlendOp.do = "blend" /\ BlendOp.layer = layer /\ BlendOp.wait = loaded[layer % 2]
      /\ Op("scatter", turn, layer, NoEvent).do = "scatter"
      /\ Op("scatter", turn, layer, NoEvent).layer = layer
      /\ Op("scatter", turn, layer, NoEvent).wait = NoEvent
  BY DEF BlendOp, Op
<1>4. /\ Row(work)
      /\ \A i \in 1..Len(work) : work[i].do \in {"blend", "scatter"}
                                 /\ work[i].layer = layer /\ work[i].wait \in Events
      /\ work # <<>> => work[1].wait = loaded[layer % 2]
  <2>1. CASE work = <<>>
    <3>1. Row(work) /\ Len(work) = 0
      BY <2>1, OneOperation
    <3> QED BY <2>1, <3>1
  <2>2. CASE work = <<BlendOp>>
    <3>1. Row(work) /\ Len(work) = 1 /\ work[1] = BlendOp
      BY <2>2, OneOperation
    <3> QED BY <1>2, <1>3, <3>1
  <2>3. CASE work = Work
    <3> DEFINE o == BlendOp
               p == Op("scatter", turn, layer, NoEvent)
    <3>1. work = <<o, p>>
      BY <2>3 DEF Work
    <3>2. o.do = "blend" /\ o.layer = layer /\ o.wait = loaded[layer % 2]
          /\ p.do = "scatter" /\ p.layer = layer /\ p.wait = NoEvent
      BY <1>3
    <3> HIDE DEF o, p
    <3>3. work \in Seq({o, p}) /\ Len(work) = 2 /\ work[1] = o /\ work[2] = p
      BY <3>1
    <3>4. \A i \in 1..Len(work) : i = 1 \/ i = 2
      BY <3>3
    <3> QED BY <1>2, <3>2, <3>3, <3>4, RowOf
  <2> QED BY <2>1, <2>2, <2>3
<1>5. /\ Row(Ahead) /\ Len(Ahead) \in {0, 1}
      /\ \A i \in 1..Len(Ahead) :
           Ahead[i].do = "fill" /\ layer + 1 \in Layers /\ Ahead[i].layer = layer + 1
           /\ Ahead[i].wait = IF loadStream THEN reuse[(layer + 1) % 2] ELSE NoEvent
  <2>1. CASE layer < Last
    <3>1. Ahead = <<Fill(turn, layer + 1)>>
      BY <2>1 DEF Ahead
    <3>2. /\ Fill(turn, layer + 1).do = "fill" /\ Fill(turn, layer + 1).layer = layer + 1
          /\ Fill(turn, layer + 1).wait = IF loadStream THEN reuse[(layer + 1) % 2] ELSE NoEvent
      BY DEF Fill, Op
    <3>3. layer + 1 \in Layers
      BY <1>1, <2>1, LayersAssumption DEF Layers, Last
    <3>4. Row(Ahead) /\ Len(Ahead) = 1 /\ Ahead[1] = Fill(turn, layer + 1)
      BY <3>1, OneOperation
    <3> QED BY <3>2, <3>3, <3>4
  <2>2. CASE ~(layer < Last)
    <3>1. Ahead = <<>>
      BY <2>2 DEF Ahead
    <3>2. Row(Ahead) /\ Len(Ahead) = 0
      BY <3>1, OneOperation
    <3> QED BY <3>2
  <2> QED BY <2>1, <2>2
<1>6. Len(work) \in Nat
  BY <1>4, RowFacts
<1> QED BY <1>4, <1>5, <1>6

\* One turn of run's loop keeps the order.
LEMMA TurnOrder ==
  ASSUME DInv, pc = "layer", NEW work \in {<<>>, <<BlendOp>>, Work}, GiveWork(work, Ahead)
  PROVE  /\ DOMAIN queue' = Streams /\ given' \in [Streams -> Nat]
         /\ \A s \in Streams :
              /\ Row(queue'[s]) /\ Len(queue'[s]) \in Nat /\ Len(queue'[s]) <= given'[s]
              /\ Done(s)' + Len(queue'[s]) = given'[s]
              /\ \A i \in 1..Len(queue'[s]) : Shaped(queue'[s][i], s)
         /\ Ordered' /\ queue'["store"] = <<>>
         /\ ~loadStream => queue'["load"] = <<>>
         /\ loadStream => /\ given'["load"] = given["load"] + Len(Ahead)
                          /\ given'["serving"] = given["serving"] + Len(work)
<1> DEFINE ahead == Ahead
<1>1. /\ Row(ahead) /\ Len(ahead) \in {0, 1} /\ GiveWork(work, ahead)
      /\ \A i \in 1..Len(ahead) :
           ahead[i].do = "fill" /\ layer + 1 \in Layers /\ ahead[i].layer = layer + 1
           /\ ahead[i].wait = IF loadStream THEN reuse[(layer + 1) % 2] ELSE NoEvent
  BY TurnShapes
<1> HIDE DEF ahead
<1>2. /\ DOMAIN queue' = Streams /\ given' \in [Streams -> Nat]
      /\ \A s \in Streams :
           /\ Row(queue'[s]) /\ Len(queue'[s]) \in Nat /\ Len(queue'[s]) <= given'[s]
           /\ Done(s)' + Len(queue'[s]) = given'[s]
           /\ \A i \in 1..Len(queue'[s]) : Shaped(queue'[s][i], s)
      /\ Ordered' /\ queue'["store"] = <<>>
      /\ ~loadStream => queue'["load"] = <<>>
      /\ loadStream => /\ given'["load"] = given["load"] + Len(ahead)
                       /\ given'["serving"] = given["serving"] + Len(work)
  <2>1. /\ Row(work)
        /\ \A i \in 1..Len(work) : work[i].do \in {"blend", "scatter"}
                                   /\ work[i].layer = layer /\ work[i].wait \in Events
        /\ work # <<>> => work[1].wait = loaded[layer % 2]
    BY TurnShapes
  <2> QED BY <1>1, <2>1, WorkOrder
<1> QED BY <1>2 DEF ahead

\* A layer of the side forward.
LEMMA LayerKeeps ==
  ASSUME DInv, Layer
  PROVE  DInv'
<1>1. layer \in Layers /\ layer \in Nat /\ Last \in Nat /\ pc = "layer"
  BY LayersAssumption DEF DInv, DTypes, Layers, Last, Layer
<1>2. /\ DOMAIN queue' = Streams /\ given' \in [Streams -> Nat]
      /\ \A s \in Streams :
           /\ Row(queue'[s]) /\ Len(queue'[s]) \in Nat /\ Len(queue'[s]) <= given'[s]
           /\ Done(s)' + Len(queue'[s]) = given'[s]
           /\ \A i \in 1..Len(queue'[s]) : Shaped(queue'[s][i], s)
      /\ Ordered' /\ queue'["store"] = <<>>
      /\ ~loadStream => queue'["load"] = <<>>
      /\ loadStream => /\ given'["load"] = given["load"] + Len(Ahead)
                       /\ given'["serving"] = given["serving"] + Len(Work)
  BY <1>1, TurnOrder DEF Layer
<1>3. given["load"] \in Nat /\ given["serving"] \in Nat /\ given'["serving"] \in Nat
      /\ "load" \in Streams /\ "serving" \in Streams
  BY <1>2 DEF DInv, DTypes, Streams
<1>4. loadStream' = loadStream /\ loadStream \in BOOLEAN
      /\ save' = save /\ save \subseteq Slots
  BY DEF Layer, DInv, DTypes
<1>5. /\ layer < Last => layer' = layer + 1 /\ pc' = "layer"
      /\ ~(layer < Last) => layer' = 0 /\ pc' = "load"
  BY <1>1 DEF Layer, EndRun
<1>6. layer' \in Layers /\ pc' \in {"layer", "load"}
  BY <1>1, <1>5, LayersAssumption DEF Layers, Last
<1>7. loaded' \in [Buffers -> Events] /\ reuse' \in [Buffers -> Events]
  <2>1. CASE loadStream
    <3>1. /\ Event("load", given["load"] + 1) \in Events /\ NoEvent \in Events
          /\ Event("serving", given["serving"] + 2) \in Events
      BY <1>3, EventTypes
    <3>2. /\ loaded' = [x \in Buffers |-> IF x # layer % 2 /\ layer < Last
                          THEN Event("load", given["load"] + 1) ELSE NoEvent]
          /\ reuse' = [x \in Buffers |-> IF x = layer % 2
                         THEN Event("serving", given["serving"] + 2) ELSE NoEvent]
      BY <2>1 DEF Layer
    <3> QED BY <3>1, <3>2
  <2>2. CASE ~loadStream
    BY <2>2 DEF Layer, DInv, DTypes
  <2> QED BY <2>1, <2>2
<1>8. DTypes'
  BY <1>2, <1>4, <1>6, <1>7 DEF DTypes
<1>9. StoreBehind'
  BY <1>2, <1>6 DEF StoreBehind
<1>10. ASSUME pc' = "layer", loadStream
       PROVE  LET b == layer' % 2
                  x == (layer' + 1) % 2
              IN /\ loaded'[b].stream = "load" /\ loaded'[b].after >= given'["load"]
                 /\ \A i \in 1..Len(queue'["serving"]) :
                      queue'["serving"][i].layer % 2 = x =>
                        /\ reuse'[x].stream = "serving"
                        /\ reuse'[x].after >= Done("serving")' + i
  <2>1. layer < Last /\ layer' = layer + 1
    BY <1>5, <1>10
  <2>2. layer' % 2 \in Buffers /\ layer' % 2 # layer % 2 /\ (layer' + 1) % 2 = layer % 2
        /\ layer % 2 \in Buffers
    <3>1. layer' + 1 = layer + 2
      BY <1>1, <2>1
    <3> QED BY <1>1, <2>1, <3>1, Parity
  <2>3. loaded'[layer' % 2] = Event("load", given["load"] + 1)
    BY <1>10, <2>1, <2>2 DEF Layer
  <2>4. reuse'[layer % 2] = Event("serving", given["serving"] + 2)
    BY <1>10, <2>2 DEF Layer
  <2>5. given'["load"] = given["load"] + 1 /\ given'["serving"] = given["serving"] + 2
    <3>1. Len(Ahead) = 1
      BY <2>1 DEF Ahead
    <3>2. Len(Work) = 2
      BY DEF Work
    <3> QED BY <1>2, <1>10, <3>1, <3>2
  <2>6. loaded'[layer' % 2].stream = "load" /\ loaded'[layer' % 2].after >= given'["load"]
    BY <1>3, <2>3, <2>5, EventTypes
  <2>7. /\ reuse'[layer % 2].stream = "serving"
        /\ reuse'[layer % 2].after = given'["serving"]
    BY <1>3, <2>4, <2>5, EventTypes
  <2>8. ASSUME NEW i \in 1..Len(queue'["serving"])
        PROVE  given'["serving"] >= Done("serving")' + i
    <3>1. Done("serving")' + Len(queue'["serving"]) = given'["serving"]
          /\ Len(queue'["serving"]) \in Nat /\ given'["serving"] \in Nat
      BY <1>2, <1>3
    <3>2. Done("serving")' \in Int
      BY <1>3, <3>1 DEF Done
    <3> QED BY <2>8, <3>1, <3>2
  <2> QED BY <2>2, <2>6, <2>7, <2>8
<1>11. LoaderEvents'
  BY <1>2, <1>4, <1>10 DEF LoaderEvents
<1> QED BY <1>2, <1>8, <1>9, <1>11 DEF DInv

\* An exception in the side forward.
LEMMA LayerFailsKeeps ==
  ASSUME DInv, LayerFails
  PROVE  DInv'
<1>1. pc = "layer" /\ pc' = "load" /\ layer' = 0 /\ 0 \in Layers
      /\ save' = save /\ loadStream' = loadStream /\ loaded' = loaded /\ reuse' = reuse
  BY LayersAssumption DEF LayerFails, EndRun, loaderVars, Layers
<1>2. CASE UNCHANGED streamVars
  <2>1. queue' = queue /\ given' = given
    BY <1>2 DEF streamVars
  <2>2. DTypes' /\ Ordered'
    <3>1. DTypes'
      BY <1>1, <2>1 DEF DInv, DTypes
    <3>2. Ordered'
      BY <2>1 DEF DInv, Ordered, Behind, Done
    <3> QED BY <3>1, <3>2
  <2>3. LoaderEvents' /\ StoreBehind'
    BY <1>1, <2>1 DEF DInv, LoaderEvents, StoreBehind
  <2> QED BY <2>2, <2>3 DEF DInv
<1>3. ASSUME NEW work \in {<<>>, <<BlendOp>>}, GiveWork(work, Ahead)
      PROVE  DInv'
  <2>1. /\ DOMAIN queue' = Streams /\ given' \in [Streams -> Nat]
        /\ \A s \in Streams :
             /\ Row(queue'[s]) /\ Len(queue'[s]) <= given'[s]
             /\ \A i \in 1..Len(queue'[s]) : Shaped(queue'[s][i], s)
        /\ Ordered' /\ queue'["store"] = <<>>
        /\ ~loadStream => queue'["load"] = <<>>
    <3>1. work \in {<<>>, <<BlendOp>>, Work}
      OBVIOUS
    <3> QED BY <1>1, <1>3, <3>1, TurnOrder
  <2>2. DTypes'
    BY <1>1, <2>1 DEF DInv, DTypes
  <2>3. LoaderEvents' /\ StoreBehind'
    BY <1>1, <2>1 DEF DInv, LoaderEvents, StoreBehind
  <2> QED BY <2>1, <2>2, <2>3 DEF DInv
<1> QED BY <1>2, <1>3 DEF LayerFails

\* A new side forward: its input waits for the serving stream.
LEMMA BeginKeeps ==
  ASSUME DInv, Begin
  PROVE  DInv'
<1>1. /\ pc = "load" /\ pc' = "layer" /\ layer' = 0 /\ 0 \in Layers
      /\ save' = save /\ loadStream' = loadStream /\ queue["serving"] = <<>>
      /\ queue["store"] = <<>> /\ DTypes /\ Ordered /\ LoaderEvents
  BY LayersAssumption DEF Begin, BeginWith, Layers, DInv, StoreBehind
<1>2. given["load"] \in Nat /\ "load" \in Streams /\ "serving" \in Streams /\ "store" \in Streams
      /\ loadStream \in BOOLEAN
  BY <1>1 DEF DTypes, Streams
<1> DEFINE o == Op("fill", turn, 0, NoEvent)
           e == <<>>
           f == <<o>>
<1>3. /\ Shaped(o, "load") /\ Shaped(o, "serving")
  BY <1>1, EventTypes DEF Shaped, Kinds, Op
<1>4. /\ Row(f) /\ Len(f) = 1 /\ f[1] = o /\ Row(e) /\ 1..Len(e) = {}
      /\ \A i \in 1..Len(f) : Shaped(f[i], "load") /\ Shaped(f[i], "serving")
  <2>1. Row(f) /\ Len(f) = 1 /\ f[1] = o /\ Row(e) /\ Len(e) = 0
    BY OneOperation
  <2> HIDE DEF f, e
  <2> QED BY <1>3, <2>1
<1>5. IF loadStream THEN Give(e, f, e) ELSE Give(f, e, e)
  BY DEF Begin, BeginWith
<1>6. e \o e = e /\ (queue["load"] = <<>> => queue["load"] = e) /\ queue["store"] = e
      /\ queue["serving"] = e
  BY <1>1
<1>7. /\ loaded' = [b \in Buffers |-> IF b = 0 /\ loadStream
                                  THEN Event("load", given["load"] + 1) ELSE NoEvent]
      /\ reuse' = [b \in Buffers |-> NoEvent]
  BY DEF Begin, BeginWith
<1> HIDE DEF o, e, f
<1>8. /\ DOMAIN queue' = Streams /\ given' \in [Streams -> Nat]
      /\ queue'["serving"] = queue["serving"] \o (IF loadStream THEN e ELSE f)
      /\ queue'["load"] = queue["load"] \o (IF loadStream THEN f ELSE e)
      /\ queue'["store"] = queue["store"] \o e
      /\ given'["load"] = given["load"] + Len(IF loadStream THEN f ELSE e)
      /\ Longer
  <2>1. CASE loadStream
    <3>1. Give(e, f, e)
      BY <1>5, <2>1
    <3> QED BY <1>1, <1>4, <2>1, <3>1, GiveQueues
  <2>2. CASE ~loadStream
    <3>1. Give(f, e, e)
      BY <1>5, <2>2
    <3> QED BY <1>1, <1>4, <2>2, <3>1, GiveQueues
  <2> QED BY <1>2, <2>1, <2>2
<1>9. loaded' \in [Buffers -> Events] /\ reuse' \in [Buffers -> Events]
  BY <1>2, <1>7, EventTypes
<1>10. DTypes'
  BY <1>1, <1>2, <1>8, <1>9 DEF DTypes, Longer
<1>11. queue'["store"] = e
  BY <1>6, <1>8
<1>12. StoreBehind'
  BY <1>1, <1>11 DEF StoreBehind, e
<1>13. loadStream => queue'["serving"] = e
  BY <1>6, <1>8
<1>14. ~loadStream => queue'["load"] = e
  BY <1>1, <1>6, <1>8 DEF LoaderEvents
<1>15. Ordered'
  <2>1. 1..Len(queue'["store"]) = {} /\ (1..Len(queue'["serving"]) = {} \/ 1..Len(queue'["load"]) = {})
    BY <1>2, <1>4, <1>11, <1>13, <1>14
  <2> QED BY <1>1, <1>8, <2>1, GiveOrder
<1>16. ASSUME loadStream
       PROVE  /\ loaded'[0 % 2].stream = "load" /\ loaded'[0 % 2].after >= given'["load"]
              /\ 1..Len(queue'["serving"]) = {}
  <2>1. loaded'[0 % 2] = Event("load", given["load"] + 1)
    BY <1>7, <1>16 DEF Buffers
  <2>2. given'["load"] = given["load"] + 1
    BY <1>4, <1>8, <1>16
  <2> QED BY <1>2, <1>4, <1>13, <1>16, <2>1, <2>2, EventTypes
<1>17. LoaderEvents'
  <2>1. (~loadStream => queue["load"] = <<>>)'
    BY <1>1, <1>14 DEF e
  <2> QED BY <1>1, <1>16, <2>1 DEF LoaderEvents
<1> QED BY <1>10, <1>12, <1>15, <1>17 DEF DInv

-----------------------------------------------------------------------------
(* The forward                                                             *)

\* Gathers and copies are a row, behind the event.
LEMMA GathersFacts ==
  ASSUME DTypes, NEW wait \in Events
  PROVE  /\ Row(Gathers(wait)) /\ Len(Gathers(wait)) \in Nat
         /\ \A k \in 1..Len(Gathers(wait)) :
              Shaped(Gathers(wait)[k], "store") /\ Gathers(wait)[k].layer = layer
         /\ Len(Gathers(wait)) > 0 => Gathers(wait)[1].wait = wait
<1> DEFINE n == 2 * Cardinality(save)
           q == Gathers(wait)
           S == {q[i] : i \in DOMAIN q}
<1>1. n \in Nat
  <2>1. IsFiniteSet(Slots)
    BY SlotsAssumption, FS_Interval DEF Slots
  <2>2. IsFiniteSet(save)
    BY <2>1, FS_Subset DEF DTypes
  <2>3. Cardinality(save) \in Nat
    BY <2>2, FS_CardinalityType
  <2> QED BY <2>3
<1>2. /\ DOMAIN q = 1..n
      /\ \A k \in 1..n : /\ q[k].do \in {"gather", "copy"} /\ q[k].layer = layer
                         /\ q[k].wait = IF k = 1 THEN wait ELSE NoEvent
  BY DEF Gathers, Op
<1>3. q = [k \in 1..n |-> q[k]]
  BY DEF Gathers
<1> HIDE DEF n, q
<1>4. q \in Seq(S)
  <2>1. q \in [1..n -> S]
    BY <1>2, <1>3
  <2> QED BY <1>1, <2>1, SeqDef
<1>5. Row(q)
  BY <1>4 DEF Row
<1>6. Len(q) \in Nat /\ 1..Len(q) = 1..n
  BY <1>2, <1>5, RowFacts
<1>7. NoEvent \in Events /\ layer \in Layers
  BY EventTypes DEF DTypes
<1>8. \A k \in 1..Len(q) : Shaped(q[k], "store") /\ q[k].layer = layer
  BY <1>2, <1>6, <1>7 DEF Shaped, Kinds
<1>9. Len(q) > 0 => q[1].wait = wait
  <2>1. Len(q) > 0 => 1 \in 1..Len(q)
    BY <1>6
  <2> QED BY <1>2, <1>6, <2>1
<1> QED BY <1>5, <1>6, <1>8, <1>9 DEF q

\* A layer of the forward: what the store stream gets for it waits for all that the
\* serving stream has been given.
LEMMA ForwardKeeps ==
  ASSUME DInv, Forward
  PROVE  DInv'
<1>1. /\ pc = "forward" /\ layer \in Layers /\ layer \in Nat /\ Last \in Nat
      /\ save' = save /\ loadStream' = loadStream /\ loaded' = loaded /\ reuse' = reuse
      /\ layer < Last => layer' = layer + 1 /\ pc' = "forward"
      /\ ~(layer < Last) => layer' = 0 /\ pc' = "wait"
      /\ DTypes /\ Ordered /\ LoaderEvents
  BY LayersAssumption DEF Forward, ForwardWith, DInv, DTypes, Layers, Last, loaderVars
<1>2. layer' \in Layers /\ pc' \in {"forward", "wait"}
  BY <1>1, LayersAssumption DEF Layers, Last
<1>3. /\ "serving" \in Streams /\ "load" \in Streams /\ "store" \in Streams
      /\ given["serving"] \in Nat
      /\ \A i \in 1..Len(queue["store"]) : queue["store"][i].layer < layer
                                           /\ queue["store"][i].layer \in Nat
  BY <1>1, QueueTypes DEF Streams, DInv, StoreBehind
<1> DEFINE wait == Event("serving", given["serving"] + 1)
           f == <<ForwardOp>>
           e == <<>>
           g == Gathers(wait)
<1>4. wait \in Events /\ wait.stream = "serving" /\ wait.after = given["serving"] + 1
  BY <1>3, EventTypes
<1>5. /\ Row(g) /\ Len(g) \in Nat
      /\ Len(g) > 0 => g[1].wait = wait
      /\ \A k \in 1..Len(g) : Shaped(g[k], "store") /\ g[k].layer = layer
  BY <1>1, <1>4, GathersFacts
<1>6. /\ Row(f) /\ Len(f) = 1 /\ f[1].layer = layer /\ f[1].do = "forward" /\ Row(e)
      /\ 1..Len(e) = {} /\ Len(e) = 0
      /\ \A i \in 1..Len(f) : Shaped(f[i], "serving")
  <2>1. Row(f) /\ Len(f) = 1 /\ f[1] = ForwardOp /\ Row(e) /\ Len(e) = 0
    BY OneOperation
  <2>2. /\ ForwardOp.layer = layer /\ ForwardOp.do = "forward"
        /\ Shaped(ForwardOp, "serving")
    BY <1>1, EventTypes DEF ForwardOp, Shaped, Kinds
  <2> HIDE DEF f, e
  <2> QED BY <2>1, <2>2
<1>7. Give(f, e, g)
  BY DEF Forward, ForwardWith
<1>8. e \o e = e /\ (queue["load"] = <<>> => queue["load"] = e)
  OBVIOUS
<1> HIDE DEF wait, f, e, g
<1>9. /\ DOMAIN queue' = Streams /\ given' \in [Streams -> Nat]
      /\ queue'["serving"] = queue["serving"] \o f
      /\ queue'["load"] = queue["load"] \o e
      /\ queue'["store"] = queue["store"] \o g
      /\ given'["serving"] = given["serving"] + Len(f)
      /\ Longer
  <2>1. /\ DTypes /\ Row(f) /\ Row(e) /\ Row(g)
        /\ \A i \in 1..Len(f) : Shaped(f[i], "serving")
        /\ \A i \in 1..Len(e) : Shaped(e[i], "load")
        /\ \A i \in 1..Len(g) : Shaped(g[i], "store")
    BY <1>1, <1>5, <1>6
  <2>2. /\ DOMAIN queue' = Streams /\ given' \in [Streams -> Nat]
        /\ queue'["serving"] = queue["serving"] \o f
        /\ queue'["load"] = queue["load"] \o e
        /\ queue'["store"] = queue["store"] \o g
        /\ given'["serving"] = given["serving"] + Len(f)
    BY <1>7, <2>1, GiveQueues
  <2>3. Longer
    BY <1>7, <2>1, GiveQueues
  <2> QED BY <2>2, <2>3
<1>10. DTypes'
  BY <1>1, <1>2, <1>9 DEF DTypes, Longer
<1>11. /\ Row(queue["serving"]) /\ Row(queue["load"]) /\ Row(queue["store"])
       /\ Len(queue["serving"]) \in Nat /\ Len(queue["load"]) \in Nat
       /\ Len(queue["store"]) \in Nat /\ Done("serving") \in Nat
  BY <1>1, <1>3, QueueTypes
<1>12. /\ Len(queue'["serving"]) = Len(queue["serving"]) + 1
       /\ Len(queue'["load"]) = Len(queue["load"])
       /\ Len(queue'["store"]) = Len(queue["store"]) + Len(g)
  <2>1. /\ Len(queue["serving"] \o f) = Len(queue["serving"]) + Len(f)
        /\ Len(queue["load"] \o e) = Len(queue["load"]) + Len(e)
        /\ Len(queue["store"] \o g) = Len(queue["store"]) + Len(g)
    BY <1>5, <1>6, <1>11, RowJoin
  <2> QED BY <1>6, <1>9, <1>11, <2>1
<1>13. ASSUME NEW i \in 1..Len(queue'["serving"]), i > Len(queue["serving"])
       PROVE  queue'["serving"][i].do = "forward" /\ queue'["serving"][i].layer = layer
  <2>1. \A j \in 1..(Len(queue["serving"]) + Len(f)) :
          j > Len(queue["serving"]) => /\ j - Len(queue["serving"]) \in 1..Len(f)
                                       /\ (queue["serving"] \o f)[j] = f[j - Len(queue["serving"])]
    BY <1>6, <1>11, RowJoin
  <2>2. i \in 1..(Len(queue["serving"]) + Len(f))
    BY <1>6, <1>12
  <2>3. i - Len(queue["serving"]) = 1
    BY <1>11, <1>12, <1>13
  <2> QED BY <1>6, <1>9, <1>13, <2>1, <2>2, <2>3
<1>14. ASSUME NEW k \in 1..Len(queue'["store"]), k > Len(queue["store"])
       PROVE  /\ k - Len(queue["store"]) \in 1..Len(g)
              /\ queue'["store"][k] = g[k - Len(queue["store"])]
  <2>1. \A j \in 1..(Len(queue["store"]) + Len(g)) :
          j > Len(queue["store"]) => /\ j - Len(queue["store"]) \in 1..Len(g)
                                     /\ (queue["store"] \o g)[j] = g[j - Len(queue["store"])]
    BY <1>5, <1>11, RowJoin
  <2> QED BY <1>9, <1>12, <1>14, <2>1
<1>15. ASSUME NEW i \in 1..Len(queue'["serving"]), NEW k \in 1..Len(queue'["store"]),
              k > Len(queue["store"])
       PROVE  Behind("store", k, "serving", i)'
  <2> DEFINE j == Len(queue["store"]) + 1
  <2>0. /\ Len(queue'["store"]) \in Nat /\ Len(queue'["serving"]) \in Nat
        /\ k \in Nat /\ i \in Nat /\ k <= Len(queue'["store"]) /\ i <= Len(queue'["serving"])
    BY <1>3, <1>9
  <2>1. /\ j \in 1..k /\ j \in 1..Len(queue'["store"]) /\ j > Len(queue["store"])
        /\ j - Len(queue["store"]) = 1
    BY <1>11, <1>15, <2>0
  <2>2. 1 \in 1..Len(g) /\ queue'["store"][j] = g[1]
    <3> HIDE DEF j
    <3> QED BY <1>14, <2>1
  <2> HIDE DEF j
  <2>3. queue'["store"][j].wait = wait
    BY <1>5, <2>2
  <2>4. Done("serving")' + Len(queue'["serving"]) = given["serving"] + 1
        /\ Done("serving")' \in Nat
    BY <1>3, <1>6, <1>9, <1>11 DEF Longer
  <2>5. queue'["store"][j].wait.stream = "serving"
        /\ queue'["store"][j].wait.after >= Done("serving")' + i
    BY <1>3, <1>4, <2>0, <2>3, <2>4
  <2> QED BY <2>1, <2>5 DEF Behind
<1>16. \A k \in 1..Len(queue'["store"]) : k > Len(queue["store"]) \/ k \in 1..Len(queue["store"])
  BY <1>5, <1>11, <1>12
<1>17. Ordered'
  <2>1. ASSUME NEW i \in 1..Len(queue'["serving"]), NEW k \in 1..Len(queue'["load"]),
               i > Len(queue["serving"]) \/ k > Len(queue["load"]),
               queue'["serving"][i].do # "forward"
        PROVE  (Behind("serving", i, "load", k) \/ Behind("load", k, "serving", i))'
    <3>1. ~(k > Len(queue["load"]))
      BY <1>11, <1>12
    <3> QED BY <1>13, <2>1, <3>1
  <2>2. ASSUME NEW i \in 1..Len(queue'["serving"]), NEW k \in 1..Len(queue'["store"]),
               i > Len(queue["serving"]) \/ k > Len(queue["store"]),
               queue'["serving"][i].layer = queue'["store"][k].layer
        PROVE  (Behind("serving", i, "store", k) \/ Behind("store", k, "serving", i))'
    <3>1. CASE k > Len(queue["store"])
      BY <1>15, <3>1
    <3>2. CASE ~(k > Len(queue["store"]))
      <4>1. k \in 1..Len(queue["store"])
        BY <1>16, <3>2
      <4>2. queue'["store"][k].layer < layer /\ queue'["store"][k].layer \in Nat
        BY <1>3, <1>9, <4>1
      <4>3. queue'["serving"][i].layer = layer
        BY <1>13, <2>2, <3>2
      <4> QED BY <1>1, <2>2, <4>2, <4>3
    <3> QED BY <3>1, <3>2
  <2> QED BY <1>1, <1>9, <2>1, <2>2, GiveOrder
<1>18. StoreBehind'
  <2>1. ASSUME pc' = "forward", NEW k \in 1..Len(queue'["store"])
        PROVE  queue'["store"][k].layer < layer'
    <3>1. layer' = layer + 1
      BY <1>1, <2>1
    <3>2. CASE k > Len(queue["store"])
      <4>1. /\ k - Len(queue["store"]) \in 1..Len(g)
            /\ queue'["store"][k] = g[k - Len(queue["store"])]
        BY <1>14, <3>2
      <4>2. queue'["store"][k].layer = layer
        BY <1>5, <4>1
      <4> QED BY <1>1, <3>1, <4>2
    <3>3. CASE ~(k > Len(queue["store"]))
      <4>1. k \in 1..Len(queue["store"])
        BY <1>16, <3>3
      <4>2. queue'["store"][k].layer < layer /\ queue'["store"][k].layer \in Nat
        BY <1>3, <1>9, <4>1
      <4> QED BY <1>1, <3>1, <4>2
    <3> QED BY <3>2, <3>3
  <2>2. ~(pc' \in {"idle", "load", "layer"})
    BY <1>2
  <2> QED BY <2>1, <2>2 DEF StoreBehind
<1>19. LoaderEvents'
  <2>1. ~loadStream => queue'["load"] = e
    BY <1>1, <1>8, <1>9 DEF LoaderEvents
  <2> QED BY <1>1, <1>2, <2>1 DEF LoaderEvents, e
<1> QED BY <1>10, <1>17, <1>18, <1>19 DEF DInv

-----------------------------------------------------------------------------
(* The steps of the streams, and the others                                *)

\* A stream does an operation.
LEMMA RunKeeps ==
  ASSUME DInv, NEW s \in Streams, Run(s)
  PROVE  DInv'
<1>1. /\ DTypes /\ Ordered /\ LoaderEvents /\ StoreBehind /\ Ready(s)
      /\ queue' = [queue EXCEPT ![s] = Tail(queue[s])] /\ given' = given
      /\ pc' = pc /\ layer' = layer /\ save' = save /\ loadStream' = loadStream
      /\ loaded' = loaded /\ reuse' = reuse
  BY DEF Run, DInv, runnerVars, loaderVars
<1> DEFINE moved(t) == IF t = s THEN 1 ELSE 0
<1>2. /\ DOMAIN queue' = Streams /\ Ordered'
      /\ \A t \in Streams :
           /\ Row(queue'[t]) /\ Len(queue'[t]) = Len(queue[t]) - moved(t)
           /\ Done(t)' = Done(t) + moved(t)
           /\ \A i \in 1..Len(queue'[t]) :
                i + moved(t) \in 1..Len(queue[t]) /\ queue'[t][i] = queue[t][i + moved(t)]
  BY <1>1, RunOrder
<1>3. \A t \in Streams : moved(t) \in {0, 1}
  OBVIOUS
<1> HIDE DEF moved
<1>4. DTypes'
  <2>1. ASSUME NEW t \in Streams
        PROVE  /\ Row(queue'[t]) /\ Len(queue'[t]) <= given'[t]
               /\ \A i \in 1..Len(queue'[t]) : Shaped(queue'[t][i], t)
    <3>1. Len(queue[t]) \in Nat /\ given[t] \in Nat /\ Len(queue[t]) <= given[t]
          /\ \A i \in 1..Len(queue[t]) : Shaped(queue[t][i], t)
      BY <1>1, QueueTypes DEF DTypes
    <3>2. Len(queue'[t]) <= given'[t]
      BY <1>1, <1>2, <1>3, <3>1
    <3> QED BY <1>2, <3>1, <3>2
  <2> QED BY <1>1, <1>2, <2>1 DEF DTypes
<1>5. ASSUME NEW t \in Streams, queue[t] = <<>>
      PROVE  queue'[t] = <<>> /\ t # s
  <2>1. t # s
    BY <1>1, <1>5 DEF Ready
  <2> QED BY <1>1, <1>5, <2>1 DEF DTypes
<1>6. "load" \in Streams /\ "store" \in Streams /\ "serving" \in Streams
  BY DEF Streams
<1>7. StoreBehind'
  BY <1>1, <1>2, <1>5, <1>6 DEF StoreBehind
<1>8. LoaderEvents'
  <2>1. (~loadStream => queue["load"] = <<>>)'
    BY <1>1, <1>5, <1>6 DEF LoaderEvents
  <2>2. ASSUME pc = "layer", loadStream, NEW i \in 1..Len(queue'["serving"]),
               queue'["serving"][i].layer % 2 = (layer + 1) % 2
        PROVE  /\ reuse[(layer + 1) % 2].stream = "serving"
               /\ reuse[(layer + 1) % 2].after >= Done("serving")' + i
    <3>1. /\ i + moved("serving") \in 1..Len(queue["serving"])
          /\ queue'["serving"][i] = queue["serving"][i + moved("serving")]
          /\ Done("serving")' = Done("serving") + moved("serving")
      BY <1>2, <1>6
    <3>2. /\ reuse[(layer + 1) % 2].stream = "serving"
          /\ reuse[(layer + 1) % 2].after >= Done("serving") + (i + moved("serving"))
      BY <1>1, <2>2, <3>1 DEF LoaderEvents
    <3>3. Done("serving") \in Nat /\ i \in Nat /\ moved("serving") \in Nat
      <4>1. Done("serving") \in Nat
        BY <1>1, <1>6, QueueTypes
      <4>2. i \in Nat
        OBVIOUS
      <4>3. moved("serving") \in Nat
        BY <1>3, <1>6
      <4> QED BY <4>1, <4>2, <4>3
    <3>4. Done("serving") + (i + moved("serving")) = Done("serving")' + i
      <4>1. \A a, b, c \in Nat : a + (b + c) = (a + c) + b
        OBVIOUS
      <4> QED BY <3>1, <3>3, <4>1
    <3> QED BY <3>2, <3>4
  <2> QED BY <1>1, <2>1, <2>2 DEF LoaderEvents
<1> QED BY <1>2, <1>4, <1>7, <1>8 DEF DInv

\* The streams and the loader as they were.
LEMMA StillKeeps ==
  ASSUME DInv, UNCHANGED <<queue, given, loadStream, loaded, reuse>>,
         layer' \in Layers, save' \subseteq Slots,
         \/ pc' \in {"idle", "load"} /\ queue["store"] = <<>>
         \/ pc' = "forward" /\ queue["store"] = <<>>
         \/ UNCHANGED <<pc, layer>>
  PROVE  DInv'
<1>1. DTypes'
  BY DEF DInv, DTypes
<1>2. Ordered'
  BY DEF DInv, Ordered, Behind, Done
<1>3. LoaderEvents'
  BY DEF DInv, LoaderEvents, Done
<1>4. StoreBehind'
  <2>1. 1..Len(<<>>) = {}
    BY OneOperation
  <2> QED BY <2>1 DEF DInv, StoreBehind
<1> QED BY <1>1, <1>2, <1>3, <1>4 DEF DInv

\* Every step keeps the invariant.
LEMMA DInvStep ==
  ASSUME DInv, [Next]_vars
  PROVE  DInv'
<1>1. layer \in Layers /\ 0 \in Layers /\ save \subseteq Slots
      /\ (pc \in {"idle", "load", "layer"} => queue["store"] = <<>>)
  BY LayersAssumption DEF DInv, DTypes, StoreBehind, Layers
<1>2. ASSUME NEW P \in SUBSET Slots, NEW S \in SUBSET Slots, StartStep(P, S)
      PROVE  DInv'
  <2>1. /\ UNCHANGED <<queue, given, loadStream, loaded, reuse>>
        /\ pc = "idle" /\ pc' = "load" /\ layer' = layer /\ save' \subseteq Slots
    BY <1>2 DEF StartStep, streamVars, loaderVars
  <2> QED BY <1>1, <2>1, StillKeeps
<1>3. CASE NoPlan
  <2>1. UNCHANGED <<queue, given, loadStream, loaded, reuse>> /\ UNCHANGED <<pc, layer>> /\ save' = save
    BY <1>3 DEF NoPlan, streamVars, loaderVars
  <2> QED BY <1>1, <2>1, StillKeeps
<1>4. CASE EndLoad
  <2>1. /\ UNCHANGED <<queue, given, loadStream, loaded, reuse>>
        /\ pc = "load" /\ pc' = "forward" /\ layer' = 0 /\ save' = save
    BY <1>4 DEF EndLoad, streamVars, loaderVars
  <2> QED BY <1>1, <2>1, StillKeeps
<1>5. CASE WaitForSave
  <2>1. /\ UNCHANGED <<queue, given, loadStream, loaded, reuse>>
        /\ pc' = "idle" /\ queue["store"] = <<>> /\ layer' = layer /\ save' = save
    BY <1>5 DEF WaitForSave, streamVars, loaderVars
  <2> QED BY <1>1, <2>1, StillKeeps
<1>6. ASSUME NEW b \in batches, Publish(b)
      PROVE  DInv'
  <2>1. UNCHANGED <<queue, given, loadStream, loaded, reuse>> /\ UNCHANGED <<pc, layer>> /\ save' = save
    BY <1>6 DEF Publish, streamVars, loaderVars, runnerVars
  <2> QED BY <1>1, <2>1, StillKeeps
<1>7. CASE UNCHANGED vars
  <2>1. UNCHANGED <<queue, given, loadStream, loaded, reuse>> /\ UNCHANGED <<pc, layer>> /\ save' = save
    BY <1>7 DEF vars, streamVars, loaderVars, runnerVars
  <2> QED BY <1>1, <2>1, StillKeeps
<1>8. CASE Quiet
  BY <1>7, <1>8 DEF Quiet
<1> QED BY <1>2, <1>3, <1>4, <1>5, <1>6, <1>7, <1>8, BeginKeeps, LayerKeeps,
           LayerFailsKeeps, ForwardKeeps, RunKeeps DEF Next, Runner

\* The initial states satisfy the invariant.
LEMMA DInvStart ==
  ASSUME Init
  PROVE  DInv
<1> DEFINE e == <<>>
<1>1. Row(e) /\ Len(e) = 0 /\ 1..Len(e) = {}
  <2>1. Row(e) /\ Len(e) = 0
    BY OneOperation
  <2> QED BY <2>1
<1> HIDE DEF e
<1>2. /\ queue = [s \in Streams |-> e] /\ given = [s \in Streams |-> 0]
      /\ pc = "idle" /\ layer = 0 /\ save = {} /\ loadStream \in BOOLEAN
      /\ loaded = [b \in Buffers |-> NoEvent] /\ reuse = [b \in Buffers |-> NoEvent]
      /\ 0 \in Layers /\ NoEvent \in Events
  BY LayersAssumption, EventTypes DEF Init, Layers, e
<1>3. DTypes
  BY <1>1, <1>2 DEF DTypes
<1>4. "load" \in Streams /\ "store" \in Streams /\ "serving" \in Streams
  BY DEF Streams
<1>5. Ordered
  BY <1>1, <1>2, <1>4 DEF Ordered
<1>6. LoaderEvents /\ StoreBehind
  BY <1>2, <1>4 DEF LoaderEvents, StoreBehind, e
<1> QED BY <1>3, <1>5, <1>6 DEF DInv

\* At any time, of two operations in different queues that use the same memory, one is
\* behind an event of the other; the rest of DInv is why (ascend.py, connector.py).
THEOREM InvariantHolds == Spec => []DInv
<1>1. Init => DInv
  BY DInvStart
<1>2. DInv /\ [Next]_vars => DInv'
  BY DInvStep
<1> QED BY <1>1, <1>2, PTL DEF Spec

\* An order between operations keeps both from being next in line with their events
\* done, so that no two streams use the same memory at once when one of them writes.
LEMMA OrderKeepsApart ==
  ASSUME DInv
  PROVE  Apart
<1> SUFFICES ASSUME NEW s \in Streams, NEW t \in Streams, s # t, Ready(s), Ready(t)
             PROVE  Writes(Head(queue[s])) \cap Uses(Head(queue[t])) = {}
  BY DEF Apart
<1> DEFINE o == Head(queue[s])
           p == Head(queue[t])
<1>1. ASSUME NEW u \in Streams, Ready(u)
      PROVE  /\ Head(queue[u]) = queue[u][1] /\ 1 \in 1..Len(queue[u])
             /\ Shaped(queue[u][1], u) /\ Happened(queue[u][1].wait)
             /\ queue[u][1].wait.after \in Nat /\ Done(u) \in Nat
  <2>1. queue[u] # <<>> /\ Happened(Head(queue[u]).wait) /\ DTypes
    BY <1>1 DEF Ready, DInv
  <2>2. Row(queue[u]) /\ Len(queue[u]) \in Nat /\ Len(queue[u]) # 0 /\ Head(queue[u]) = queue[u][1]
    BY <2>1, QueueTypes, RowFacts
  <2> QED BY <2>1, <2>2, QueueTypes
<1>2. ASSUME NEW a \in Streams, NEW b \in Streams, Ready(a), Ready(b)
      PROVE  ~Behind(a, 1, b, 1)
  <2> SUFFICES ASSUME Behind(a, 1, b, 1)
               PROVE  FALSE
    OBVIOUS
  <2>1. queue[a][1].wait.stream = b /\ queue[a][1].wait.after >= Done(b) + 1
    BY DEF Behind
  <2>2. Done(b) >= queue[a][1].wait.after
    BY <1>1, <1>2, <2>1 DEF Happened, Done
  <2>3. queue[a][1].wait.after \in Nat /\ Done(b) \in Nat
    BY <1>1, <1>2
  <2> QED BY <2>1, <2>2, <2>3
<1>3. ASSUME NEW u \in {"load", "store"}, Ready("serving"), Ready(u)
      PROVE  ~Meet(Head(queue["serving"]), Head(queue[u]))
  <2>1. "serving" \in Streams /\ u \in Streams
    BY DEF Streams
  <2>2. /\ 1 \in 1..Len(queue["serving"]) /\ Head(queue["serving"]) = queue["serving"][1]
        /\ 1 \in 1..Len(queue[u]) /\ Head(queue[u]) = queue[u][1]
    BY <1>1, <1>3, <2>1
  <2>3. ~Behind("serving", 1, u, 1) /\ ~Behind(u, 1, "serving", 1)
    BY <1>2, <1>3, <2>1
  <2> QED BY <2>2, <2>3 DEF DInv, Ordered
<1>4. ASSUME Ready("load"), Ready("store")
      PROVE  ~Meet(Head(queue["load"]), Head(queue["store"]))
  <2>1. /\ Shaped(Head(queue["load"]), "load") /\ Shaped(Head(queue["store"]), "store")
    BY <1>1, <1>4 DEF Streams
  <2> QED BY <2>1, LoadAndStoreApart DEF Meet
<1>5. /\ s \in {"serving", "load", "store"} /\ t \in {"serving", "load", "store"}
  BY DEF Streams
<1>6. ~Meet(o, p)
  <2>1. CASE s = "serving"
    BY <1>3, <1>5, <2>1
  <2>2. CASE t = "serving"
    <3>1. ~Meet(p, o)
      BY <1>3, <1>5, <2>2
    <3> QED BY <3>1 DEF Meet
  <2>3. CASE s = "load" /\ t = "store"
    BY <1>4, <2>3
  <2>4. CASE s = "store" /\ t = "load"
    <3>1. ~Meet(p, o)
      BY <1>4, <2>4
    <3> QED BY <3>1 DEF Meet
  <2> QED BY <1>5, <2>1, <2>2, <2>3, <2>4
<1> QED BY <1>6 DEF Meet

-----------------------------------------------------------------------------
(* Refinement: what the queues do to the pages                             *)

Serving == queue["serving"]
Ends    == {"full", "void"}

Scatters(o, i, l, n) == o.do = "scatter" /\ o.slot = i /\ o.layer = l /\ o.step = n
Completes(o, l, n)   == o.do = "forward" /\ o.layer = l /\ o.step = n

\* What the pages of a request and a layer will have been through in step n when the
\* serving stream comes to place k: blended, not blended, completed or not completed.
Blended(k, i, l, n) ==
  \/ pages[i][l] = <<n, "blend">>
  \/ \E j \in 1..(k - 1) : Scatters(Serving[j], i, l, n)

Fresh(k, i, l, n) ==
  /\ pages[i][l][1] < n
  /\ \A j \in 1..(k - 1) : ~Scatters(Serving[j], i, l, n)

Complete(k, i, l, n) ==
  \/ pages[i][l][1] = n /\ pages[i][l][2] \in Ends
  \/ \E j \in 1..(k - 1) : Completes(Serving[j], l, n)

Open(k, i, l, n) ==
  /\ ~(pages[i][l][1] = n /\ pages[i][l][2] \in Ends)
  /\ \A j \in 1..(k - 1) : ~Completes(Serving[j], l, n)

\* What a scatter and a layer of the forward find at place k.
ScatterAt(k, n, i, l) ==
  /\ \A j \in 1..(k - 1) : Serving[j].do # "forward"
  /\ \A m \in Layers : m < l => Blended(k, i, m, n)
  /\ Fresh(k, i, l, n)

ForwardAt(k, n, l, P, V) ==
  \A i \in Slots, m \in Layers :
    /\ m < l => Complete(k, i, m, n)
    /\ m >= l => Open(k, i, m, n)
    /\ m >= l /\ i \in P \ V => Blended(k, i, m, n)
    /\ m >= l /\ i \notin P => Fresh(k, i, m, n)

\* Types of what DInv does not speak of.
Contents == (0..MaxSteps) \X {"full", "void", "blend"}

STypes ==
  /\ step \in 0..MaxSteps /\ (pc # "idle" => step # 0)
  /\ plan \subseteq Slots /\ failed \subseteq Slots /\ turn \in 1..(NumSlots + 1)
  /\ pc = "layer" => turn \in plan
  /\ DOMAIN staging = Buffers
  /\ pages \in [Slots -> [Layers -> Contents]]
  /\ stored \in [Slots -> (Layers \X Contents) \cup {None}]
  /\ host \in [Slots -> [Layers -> Contents \cup {None}]]
  /\ \A k \in 1..Len(Serving) :
       /\ Serving[k].do # "forward" => Serving[k].slot \in Slots
       /\ Serving[k].step \in 1..step

\* Steps are done in order.
StepOrder ==
  \A k \in 1..Len(Serving) :
    /\ \A i \in Slots, l \in Layers : pages[i][l][1] <= Serving[k].step
    /\ \A j \in 1..k : Serving[j].step <= Serving[k].step

OldPages == \A i \in Slots, l \in Layers : pages[i][l][1] <= step

\* What operations that write pages find, those in the queue and those to come.
Pending ==
  \A k \in 1..Len(Serving) :
    LET o == Serving[k] IN
    /\ o.do = "scatter" => ScatterAt(k, o.step, o.slot, o.layer)
    /\ o.do = "forward" => ForwardAt(k, o.step, o.layer, o.plan, o.void)

Coming ==
  LET k == Len(Serving) + 1 IN
  /\ pc \in {"load", "layer"} =>
       \A i \in Slots, m \in Layers :
         /\ Open(k, i, m, step)
         /\ i < turn /\ i \in plan \ failed => Blended(k, i, m, step)
         /\ i \notin plan \/ i > turn \/ (i = turn /\ pc = "load") => Fresh(k, i, m, step)
  /\ pc = "layer" =>
       /\ \A j \in 1..Len(Serving) : Serving[j].do # "forward"
       /\ \A m \in Layers : IF m < layer THEN Blended(k, turn, m, step)
                                         ELSE Fresh(k, turn, m, step)
  /\ pc = "forward" => ForwardAt(k, step, layer, plan, failed)
  /\ pc = "wait" => \A i \in Slots, m \in Layers : Complete(k, i, m, step)

-----------------------------------------------------------------------------
(* The loader's buffers                                                    *)

Fills(o, i, l)  == o.do = "fill" /\ o.slot = i /\ o.layer = l
Touches(o, b)   == o.do \in {"fill", "blend", "scatter"} /\ o.layer % 2 = b
Holds(i, l, how) == staging[l % 2] = <<i, l, how>>

\* A blend at place k, with the event w, finds its layer loaded.
SupplyAt(k, i, l, w) ==
  IF loadStream
  THEN /\ w.stream = "load" /\ w.after >= 1 /\ w.after <= given["load"]
       /\ \A j \in 1..(k - 1) : Serving[j].wait.stream = "load" => Serving[j].wait.after < w.after
       /\ IF w.after > Done("load") THEN Fills(queue["load"][w.after - Done("load")], i, l)
          ELSE /\ \A j \in 1..(k - 1) : ~Touches(Serving[j], l % 2)
               /\ Holds(i, l, "loaded")
  ELSE \/ /\ \A j \in 1..(k - 1) : ~Touches(Serving[j], l % 2)
          /\ Holds(i, l, "loaded")
       \/ \E j \in 1..(k - 1) :
            /\ Fills(Serving[j], i, l)
            /\ \A h \in (j + 1)..(k - 1) : ~Touches(Serving[h], l % 2)

Supplied ==
  /\ \A k \in 1..Len(Serving) :
       LET o == Serving[k] IN
       /\ o.do = "fill" => ~loadStream
       /\ o.do # "blend" => o.wait = NoEvent
       /\ o.wait.stream # "store"
       /\ o.do = "blend" => SupplyAt(k, o.slot, o.layer, o.wait)
       /\ o.do = "scatter" =>
            IF k = 1 THEN Holds(o.slot, o.layer, "blended")
            ELSE /\ Serving[k - 1].do = "blend" /\ Serving[k - 1].slot = o.slot
                 /\ Serving[k - 1].layer = o.layer
  /\ \A b \in Buffers : loaded[b].stream # "store" /\ (~loadStream => loaded[b] = NoEvent)
  /\ pc = "layer" => SupplyAt(Len(Serving) + 1, turn, layer, loaded[layer % 2])

-----------------------------------------------------------------------------
(* What is saved                                                           *)

Final(i, l) == pages[i][l][1] = step /\ pages[i][l][2] \in Ends

\* A copy finds what its gather brought, a batch what its copy brought.
Saved ==
  /\ \A m \in 1..Len(queue["store"]) :
       LET o == queue["store"][m] IN
       /\ o.slot \in Slots
       /\ o.do = "copy" =>
            IF m = 1 THEN Final(o.slot, o.layer) /\ stored[o.slot] = <<o.layer, pages[o.slot][o.layer]>>
            ELSE LET p == queue["store"][m - 1] IN
                 p.do = "gather" /\ p.slot = o.slot /\ p.layer = o.layer
  /\ \A b \in batches :
       /\ b.slot \in Slots /\ b.layer \in Layers /\ pc \in {"forward", "wait"}
       /\ pc = "forward" => b.layer < layer
       /\ b.copied.stream = "store" /\ b.copied.after \in 1..given["store"]
       /\ IF b.copied.after > Done("store")
          THEN LET o == queue["store"][b.copied.after - Done("store")] IN
               o.do = "copy" /\ o.slot = b.slot /\ o.layer = b.layer
          ELSE Final(b.slot, b.layer) /\ host[b.slot][b.layer] = pages[b.slot][b.layer]

RInv == STypes /\ StepOrder /\ OldPages /\ Pending /\ Coming /\ Supplied /\ Saved


-----------------------------------------------------------------------------
(* A stream does an operation                                              *)

\* The first operation of a queue is done, and nothing else is.
LEMMA RunFacts ==
  ASSUME DInv, NEW s \in Streams, Run(s)
  PROVE  /\ Len(queue[s]) \in Nat /\ 1 \in 1..Len(queue[s]) /\ Head(queue[s]) = queue[s][1]
         /\ Happened(queue[s][1].wait) /\ Shaped(queue[s][1], s)
         /\ Len(queue'[s]) = Len(queue[s]) - 1
         /\ Done(s) \in Nat /\ Done(s)' = Done(s) + 1
         /\ \A i \in 1..(Len(queue[s]) - 1) : queue'[s][i] = queue[s][i + 1]
         /\ \A t \in Streams : t # s => queue'[t] = queue[t] /\ Done(t)' = Done(t)
         /\ UNCHANGED <<pc, step, plan, save, failed, turn, layer, loadStream, loaded, given,
                        batches, published>>
<1>1. /\ DTypes /\ Ready(s) /\ queue' = [queue EXCEPT ![s] = Tail(queue[s])] /\ given' = given
      /\ UNCHANGED <<pc, step, plan, save, failed, turn, layer, loadStream, loaded, given,
                     batches, published>>
  BY DEF Run, DInv, runnerVars, loaderVars, poolVars
<1>2. queue[s] # <<>> /\ Happened(Head(queue[s]).wait) /\ DOMAIN queue = Streams
  BY <1>1 DEF Ready, DTypes
<1>3. Row(queue[s]) /\ Len(queue[s]) \in Nat /\ Done(s) \in Nat
  BY <1>1, QueueTypes
<1>4. /\ Len(queue[s]) # 0 /\ Head(queue[s]) = queue[s][1]
      /\ Len(Tail(queue[s])) = Len(queue[s]) - 1
      /\ \A i \in 1..(Len(queue[s]) - 1) : Tail(queue[s])[i] = queue[s][i + 1]
  BY <1>2, <1>3, RowFacts
<1>5. 1 \in 1..Len(queue[s])
  BY <1>3, <1>4
<1>6. Shaped(queue[s][1], s)
  BY <1>1, <1>5, QueueTypes
<1>7. queue'[s] = Tail(queue[s]) /\ \A t \in Streams : t # s => queue'[t] = queue[t]
  BY <1>1, <1>2
<1>8. \A t \in Streams : t # s => Done(t)' = Done(t)
  BY <1>1, <1>7 DEF Done
<1>9. Done(s)' = Done(s) + 1
  <2>1. given[s] \in Nat
    BY <1>1, QueueTypes
  <2>2. given'[s] = given[s] /\ Len(queue'[s]) = Len(queue[s]) - 1
    BY <1>1, <1>4, <1>7
  <2>3. given[s] - (Len(queue[s]) - 1) = (given[s] - Len(queue[s])) + 1
    BY <1>3, <2>1
  <2> QED BY <2>2, <2>3 DEF Done
<1> QED BY <1>1, <1>2, <1>3, <1>4, <1>5, <1>6, <1>7, <1>8, <1>9

\* What is ready is not behind anything in a queue.
LEMMA ReadyFirst ==
  ASSUME DInv, NEW s \in Streams, NEW t \in Streams, NEW k \in 1..Len(queue[t]),
         1 \in 1..Len(queue[s]), Happened(queue[s][1].wait)
  PROVE  ~Behind(s, 1, t, k)
<1> SUFFICES ASSUME Behind(s, 1, t, k)
             PROVE  FALSE
  OBVIOUS
<1>1. DTypes
  BY DEF DInv
<1>2. Done(t) \in Nat /\ Len(queue[t]) \in Nat /\ queue[s][1].wait.after \in Nat
  BY <1>1, QueueTypes
<1>3. PICK j \in 1..1 : queue[s][j].wait.stream = t /\ queue[s][j].wait.after >= Done(t) + k
  BY DEF Behind
<1>4. queue[s][1].wait.stream = t /\ queue[s][1].wait.after >= Done(t) + k
  <2>1. j = 1
    OBVIOUS
  <2> QED BY <1>3, <2>1
<1>5. Done(t) >= queue[s][1].wait.after
  BY <1>4 DEF Happened, Done
<1> QED BY <1>2, <1>4, <1>5

\* The same, of the serving stream.
LEMMA ServingRuns ==
  ASSUME DInv, Run("serving")
  PROVE  /\ Len(Serving) \in Nat /\ 1 \in 1..Len(Serving) /\ Head(Serving) = Serving[1]
         /\ Len(Serving') = Len(Serving) - 1 /\ Happened(Serving[1].wait)
         /\ Shaped(Serving[1], "serving")
         /\ \A i \in 1..(Len(Serving) - 1) : Serving'[i] = Serving[i + 1]
         /\ queue'["load"] = queue["load"] /\ queue'["store"] = queue["store"]
         /\ Done("load")' = Done("load") /\ Done("store")' = Done("store")
         /\ UNCHANGED <<pc, step, plan, save, failed, turn, layer, loadStream, loaded, given,
                        batches, published>>
<1>1. "serving" \in Streams /\ "load" \in Streams /\ "store" \in Streams
  BY DEF Streams
<1> QED BY <1>1, RunFacts DEF Serving

\* What the first operation of the serving stream does to the pages.
Rewrites(i, l) ==
  LET o == Serving[1] IN
  \/ pages'[i][l] = pages[i][l] /\ ~Scatters(o, i, l, o.step) /\ ~Completes(o, l, o.step)
  \/ /\ Scatters(o, i, l, o.step) /\ pages[i][l][1] < o.step /\ ~Completes(o, l, o.step)
     /\ pages'[i][l] = <<o.step, "blend">>
  \/ /\ Completes(o, l, o.step) /\ ~Scatters(o, i, l, o.step)
     /\ pages'[i][l][1] = o.step /\ pages'[i][l][2] \in Ends

\* It writes pages that its operation is for, and no others.
LEMMA ServingRewrites ==
  ASSUME DInv, RInv, Run("serving")
  PROVE  /\ \A i \in Slots, l \in Layers : Rewrites(i, l)
         /\ pages' \in [Slots -> [Layers -> Contents]]
         /\ stored' = stored /\ host' = host
<1> DEFINE o == Serving[1]
<1>1. /\ 1 \in 1..Len(Serving) /\ Head(Serving) = o /\ Shaped(o, "serving")
  BY ServingRuns
<1>2. /\ o.do \in {"fill", "blend", "scatter", "forward"} /\ o.layer \in Layers
      /\ o.step \in 1..step /\ step \in 0..MaxSteps /\ o.step \in 1..MaxSteps
      /\ o.do # "forward" => o.slot \in Slots
      /\ pages \in [Slots -> [Layers -> Contents]]
  <2>1. /\ o.step \in 1..step /\ step \in 0..MaxSteps /\ (o.do # "forward" => o.slot \in Slots)
        /\ pages \in [Slots -> [Layers -> Contents]]
    BY <1>1 DEF RInv, STypes
  <2> QED BY <1>1, <2>1, BoundAssumption DEF Shaped, Kinds
<1>3. \/ o.do = "fill" /\ DoFill(o)
      \/ o.do = "blend" /\ DoBlend(o)
      \/ o.do = "scatter" /\ DoScatter(o)
      \/ o.do = "forward" /\ DoForward(o)
      \/ o.do = "gather" /\ DoGather(o)
      \/ o.do = "copy" /\ DoCopy(o)
  BY <1>1 DEF Run, Serving
<1> HIDE DEF o
<1>4. CASE o.do \in {"fill", "blend"}
  <2>1. pages' = pages /\ stored' = stored /\ host' = host
    BY <1>3, <1>4 DEF DoFill, DoBlend
  <2>2. \A i \in Slots, l \in Layers : ~Scatters(o, i, l, o.step) /\ ~Completes(o, l, o.step)
    BY <1>4 DEF Scatters, Completes
  <2> QED BY <1>2, <2>1, <2>2 DEF Rewrites, o
<1>5. CASE o.do = "scatter"
  <2>1. Holds(o.slot, o.layer, "blended")
    BY <1>1, <1>5 DEF RInv, Supplied, o
  <2>2. /\ pages' = [pages EXCEPT ![o.slot][o.layer] = <<o.step, "blend">>]
        /\ stored' = stored /\ host' = host
    BY <1>3, <1>5, <2>1 DEF DoScatter, Holds
  <2>3. pages[o.slot][o.layer][1] < o.step
    BY <1>1, <1>5 DEF RInv, Pending, ScatterAt, Fresh, o
  <2>4. <<o.step, "blend">> \in Contents
    BY <1>2 DEF Contents
  <2>5. pages' \in [Slots -> [Layers -> Contents]]
    BY <1>2, <1>5, <2>2, <2>4
  <2>6. ASSUME NEW i \in Slots, NEW l \in Layers
        PROVE  Rewrites(i, l)
    <3>1. ~Completes(o, l, o.step)
      BY <1>5 DEF Completes
    <3>2. CASE i = o.slot /\ l = o.layer
      <4>1. pages'[i][l] = <<o.step, "blend">> /\ Scatters(o, i, l, o.step)
        BY <1>2, <1>5, <2>2, <3>2 DEF Scatters
      <4> QED BY <2>3, <3>1, <3>2, <4>1 DEF Rewrites, o
    <3>3. CASE ~(i = o.slot /\ l = o.layer)
      <4>1. pages'[i][l] = pages[i][l] /\ ~Scatters(o, i, l, o.step)
        BY <1>2, <1>5, <2>2, <3>3 DEF Scatters
      <4> QED BY <3>1, <4>1 DEF Rewrites, o
    <3> QED BY <3>2, <3>3
  <2> QED BY <2>2, <2>5, <2>6
<1>6. CASE o.do = "forward"
  <2>1. /\ pages' = [i \in Slots |-> [pages[i] EXCEPT ![o.layer] = <<o.step, Completed(i, o)>>]]
        /\ stored' = stored /\ host' = host
    BY <1>3, <1>6 DEF DoForward
  <2>2. ASSUME NEW i \in Slots
        PROVE  Completed(i, o) \in Ends
    <3>1. ForwardAt(1, o.step, o.layer, o.plan, o.void)
      BY <1>1, <1>6 DEF RInv, Pending, o
    <3>2. o.layer >= o.layer
      BY <1>2 DEF Layers
    <3>3. i \in o.plan \ o.void => Blended(1, i, o.layer, o.step)
      BY <1>2, <3>1, <3>2 DEF ForwardAt
    <3>4. i \in o.plan \ o.void => pages[i][o.layer] = <<o.step, "blend">>
      BY <3>3 DEF Blended
    <3> QED BY <3>4 DEF Completed, Ends
  <2>3. ASSUME NEW i \in Slots
        PROVE  <<o.step, Completed(i, o)>> \in Contents
    BY <1>2, <2>2 DEF Contents, Ends
  <2>4. pages' \in [Slots -> [Layers -> Contents]]
    BY <1>2, <2>1, <2>3
  <2>5. ASSUME NEW i \in Slots, NEW l \in Layers
        PROVE  Rewrites(i, l)
    <3>1. ~Scatters(o, i, l, o.step)
      BY <1>6 DEF Scatters
    <3>2. CASE l = o.layer
      <4>1. pages'[i][l] = <<o.step, Completed(i, o)>> /\ Completes(o, l, o.step)
        BY <1>2, <1>6, <2>1, <3>2 DEF Completes
      <4> QED BY <2>2, <3>1, <4>1 DEF Rewrites, o
    <3>3. CASE l # o.layer
      <4>1. pages'[i][l] = pages[i][l] /\ ~Completes(o, l, o.step)
        BY <1>2, <1>6, <2>1, <3>3 DEF Completes
      <4> QED BY <3>1, <4>1 DEF Rewrites, o
    <3> QED BY <3>2, <3>3
  <2> QED BY <2>1, <2>4, <2>5
<1> QED BY <1>2, <1>4, <1>5, <1>6


\* What the operations at later places find stays true as the first one is done.
LEMMA Shift ==
  ASSUME DInv, RInv, Run("serving"), NEW k \in 2..(Len(Serving) + 1),
         NEW i \in Slots, NEW l \in Layers, NEW n \in Nat, Serving[1].step <= n
  PROVE  /\ Open(k, i, l, n) => Open(k - 1, i, l, n)'
         /\ Complete(k, i, l, n) => Complete(k - 1, i, l, n)'
         /\ Blended(k, i, l, n) /\ ~Completes(Serving[1], l, n) => Blended(k - 1, i, l, n)'
         /\ Fresh(k, i, l, n) /\ ~Completes(Serving[1], l, n) => Fresh(k - 1, i, l, n)'
<1> DEFINE o == Serving[1]
           now == pages[i][l][1]
<1>1. /\ 1 \in 1..Len(Serving) /\ Len(Serving) \in Nat
      /\ \A j \in 1..(Len(Serving) - 1) : Serving'[j] = Serving[j + 1]
  BY ServingRuns
<1>2. Rewrites(i, l)
  BY ServingRewrites
<1>3. /\ o.step \in Nat /\ now \in Nat /\ now <= o.step /\ pages[i][l] \in Contents
  <2>1. o.step \in 1..step /\ step \in Nat /\ pages[i][l] \in Contents /\ now <= o.step
    BY <1>1, BoundAssumption DEF RInv, STypes, StepOrder
  <2> QED BY <2>1, BoundAssumption DEF Contents
<1>4. \A j \in 1..((k - 1) - 1) : j + 1 \in 1..(k - 1) /\ Serving'[j] = Serving[j + 1]
  <2> TAKE j \in 1..((k - 1) - 1)
  <2>1. j + 1 \in 1..(k - 1) /\ j \in 1..(Len(Serving) - 1)
    BY <1>1
  <2> QED BY <1>1, <2>1
<1>5. \A j \in 1..(k - 1) : j = 1 \/ (j - 1 \in 1..((k - 1) - 1) /\ Serving'[j - 1] = Serving[j])
  <2> TAKE j \in 1..(k - 1)
  <2>1. j = 1 \/ (j - 1 \in 1..((k - 1) - 1) /\ (j - 1) + 1 = j)
    OBVIOUS
  <2> QED BY <1>4, <2>1
<1>6. 1 \in 1..(k - 1)
  OBVIOUS
<1>7. ASSUME Open(k, i, l, n)
      PROVE  Open(k - 1, i, l, n)'
  <2>1. ~Completes(o, l, n) /\ \A j \in 1..((k - 1) - 1) : ~Completes(Serving'[j], l, n)
    BY <1>4, <1>6, <1>7 DEF Open
  <2>2. ~(pages'[i][l][1] = n /\ pages'[i][l][2] \in Ends)
    <3>1. CASE pages'[i][l] = pages[i][l]
      BY <1>7, <3>1 DEF Open
    <3>2. CASE pages'[i][l] = <<o.step, "blend">>
      BY <3>2 DEF Ends
    <3>3. CASE Completes(o, l, o.step) /\ pages'[i][l][1] = o.step
      BY <2>1, <3>3
    <3> QED BY <1>2, <3>1, <3>2, <3>3 DEF Rewrites
  <2> QED BY <2>1, <2>2 DEF Open, Completes
<1>8. ASSUME Complete(k, i, l, n)
      PROVE  Complete(k - 1, i, l, n)'
  <2>1. CASE pages[i][l][1] = n /\ pages[i][l][2] \in Ends
    <3>1. o.step = n
      BY <1>3, <2>1
    <3>2. pages'[i][l][1] = n /\ pages'[i][l][2] \in Ends
      <4>1. CASE pages'[i][l] = pages[i][l]
        BY <2>1, <4>1
      <4>2. CASE pages[i][l][1] < o.step
        BY <1>3, <2>1, <3>1, <4>2
      <4> QED BY <1>2, <3>1, <4>1, <4>2 DEF Rewrites
    <3> QED BY <3>2 DEF Complete
  <2>2. ASSUME NEW j \in 1..(k - 1), Completes(Serving[j], l, n)
        PROVE  Complete(k - 1, i, l, n)'
    <3>1. CASE j = 1
      <4>1. Completes(o, l, o.step) /\ o.step = n
        BY <2>2, <3>1 DEF Completes
      <4>2. pages'[i][l][1] = n /\ pages'[i][l][2] \in Ends
        BY <1>2, <4>1 DEF Rewrites
      <4> QED BY <4>2 DEF Complete
    <3>2. CASE j # 1
      <4>1. j - 1 \in 1..((k - 1) - 1) /\ Completes(Serving'[j - 1], l, n)
        BY <1>5, <2>2, <3>2
      <4> QED BY <4>1 DEF Complete, Completes
    <3> QED BY <3>1, <3>2
  <2> QED BY <1>8, <2>1, <2>2 DEF Complete
<1>9. ASSUME Blended(k, i, l, n), ~Completes(Serving[1], l, n)
      PROVE  Blended(k - 1, i, l, n)'
  <2>1. CASE pages[i][l] = <<n, "blend">>
    <3>1. o.step = n /\ now = n
      BY <1>3, <2>1
    <3>2. pages'[i][l] = pages[i][l]
      <4>1. CASE pages[i][l][1] < o.step
        BY <1>3, <3>1, <4>1
      <4>2. CASE Completes(o, l, o.step)
        BY <1>9, <3>1, <4>2
      <4> QED BY <1>2, <4>1, <4>2 DEF Rewrites
    <3> QED BY <2>1, <3>2 DEF Blended
  <2>2. ASSUME NEW j \in 1..(k - 1), Scatters(Serving[j], i, l, n)
        PROVE  Blended(k - 1, i, l, n)'
    <3>1. CASE j = 1
      <4>1. Scatters(o, i, l, o.step) /\ o.step = n
        BY <2>2, <3>1 DEF Scatters
      <4>2. pages'[i][l] = <<n, "blend">>
        BY <1>2, <4>1 DEF Rewrites
      <4> QED BY <4>2 DEF Blended
    <3>2. CASE j # 1
      <4>1. j - 1 \in 1..((k - 1) - 1) /\ Scatters(Serving'[j - 1], i, l, n)
        BY <1>5, <2>2, <3>2
      <4> QED BY <4>1 DEF Blended, Scatters
    <3> QED BY <3>1, <3>2
  <2> QED BY <1>9, <2>1, <2>2 DEF Blended
<1>10. ASSUME Fresh(k, i, l, n), ~Completes(Serving[1], l, n)
       PROVE  Fresh(k - 1, i, l, n)'
  <2>1. ~Scatters(o, i, l, n) /\ \A j \in 1..((k - 1) - 1) : ~Scatters(Serving'[j], i, l, n)
    BY <1>4, <1>6, <1>10 DEF Fresh
  <2>2. pages'[i][l][1] < n
    <3>1. CASE pages'[i][l] = pages[i][l]
      BY <1>10, <3>1 DEF Fresh
    <3>2. CASE o.step = n
      BY <1>2, <1>10, <2>1, <3>1, <3>2 DEF Rewrites
    <3>3. CASE o.step # n /\ pages'[i][l] # pages[i][l]
      <4>1. o.step < n
        BY <1>3, <3>3
      <4>2. pages'[i][l][1] = o.step
        BY <1>2, <3>3 DEF Rewrites
      <4> QED BY <4>1, <4>2
    <3> QED BY <3>1, <3>2, <3>3
  <2> QED BY <2>1, <2>2 DEF Fresh, Scatters
<1> QED BY <1>7, <1>8, <1>9, <1>10


\* What a scatter or a layer of the forward finds, one place further on.
LEMMA ShiftAt ==
  ASSUME DInv, RInv, Run("serving"), NEW k \in 2..(Len(Serving) + 1),
         NEW n \in Nat, Serving[1].step <= n
  PROVE  /\ \A i \in Slots, l \in Layers : ScatterAt(k, n, i, l) => ScatterAt(k - 1, n, i, l)'
         /\ \A l \in Layers : \A P, V : ForwardAt(k, n, l, P, V) => ForwardAt(k - 1, n, l, P, V)'
<1>1. /\ 1 \in 1..Len(Serving) /\ Len(Serving) \in Nat /\ 1 \in 1..(k - 1)
      /\ \A j \in 1..(Len(Serving) - 1) : Serving'[j] = Serving[j + 1]
  BY ServingRuns
<1>2. ASSUME NEW i \in Slots, NEW l \in Layers, ScatterAt(k, n, i, l)
      PROVE  ScatterAt(k - 1, n, i, l)'
  <2>1. ASSUME NEW m \in Layers
        PROVE  ~Completes(Serving[1], m, n)
    BY <1>1, <1>2 DEF ScatterAt, Completes
  <2>2. ASSUME NEW j \in 1..((k - 1) - 1)
        PROVE  Serving'[j].do # "forward"
    <3>1. j + 1 \in 1..(k - 1) /\ j \in 1..(Len(Serving) - 1)
      BY <1>1
    <3> QED BY <1>1, <1>2, <3>1 DEF ScatterAt
  <2>3. Fresh(k - 1, i, l, n)'
    BY <1>2, <2>1, Shift DEF ScatterAt
  <2>4. ASSUME NEW m \in Layers, m < l
        PROVE  Blended(k - 1, i, m, n)'
    BY <1>2, <2>1, <2>4, Shift DEF ScatterAt
  <2> QED BY <2>2, <2>3, <2>4 DEF ScatterAt
<1>3. ASSUME NEW l \in Layers, NEW P, NEW V, ForwardAt(k, n, l, P, V)
      PROVE  ForwardAt(k - 1, n, l, P, V)'
  <2> SUFFICES ASSUME NEW i \in Slots, NEW m \in Layers
               PROVE  /\ m < l => Complete(k - 1, i, m, n)'
                      /\ m >= l => Open(k - 1, i, m, n)'
                      /\ m >= l /\ i \in P \ V => Blended(k - 1, i, m, n)'
                      /\ m >= l /\ i \notin P => Fresh(k - 1, i, m, n)'
    BY DEF ForwardAt
  <2>1. m >= l => Open(k, i, m, n) /\ ~Completes(Serving[1], m, n)
    BY <1>1, <1>3 DEF ForwardAt, Open
  <2>2. /\ m < l => Complete(k, i, m, n)
        /\ m >= l /\ i \in P \ V => Blended(k, i, m, n)
        /\ m >= l /\ i \notin P => Fresh(k, i, m, n)
    BY <1>3 DEF ForwardAt
  <2> QED BY <2>1, <2>2, Shift
<1> QED BY <1>2, <1>3

\* The serving stream's steps keep what is said of pages.
LEMMA ServingKeepsPages ==
  ASSUME DInv, RInv, Run("serving")
  PROVE  STypes' /\ StepOrder' /\ OldPages' /\ Pending' /\ Coming'
<1>1. /\ 1 \in 1..Len(Serving) /\ Len(Serving) \in Nat /\ Len(Serving') = Len(Serving) - 1
      /\ \A j \in 1..(Len(Serving) - 1) : Serving'[j] = Serving[j + 1]
      /\ UNCHANGED <<pc, step, plan, save, failed, turn, layer>>
  BY ServingRuns
<1>2. /\ \A i \in Slots, l \in Layers : Rewrites(i, l)
      /\ pages' \in [Slots -> [Layers -> Contents]] /\ stored' = stored /\ host' = host
  BY ServingRewrites
<1>3. \A j \in 1..Len(Serving') : j + 1 \in 1..Len(Serving) /\ Serving'[j] = Serving[j + 1]
  BY <1>1
<1>4. STypes /\ StepOrder /\ OldPages /\ Pending /\ Coming
  BY DEF RInv
<1>5. \A j \in 1..Len(Serving) : Serving[j].step \in Nat /\ Serving[j].step \in 1..step /\ step \in Nat
  BY <1>4, BoundAssumption DEF STypes
<1>6. DOMAIN staging' = DOMAIN staging
  BY DEF Run, DoFill, DoBlend, DoScatter, DoForward, DoGather, DoCopy
<1>7. STypes'
  BY <1>1, <1>2, <1>3, <1>4, <1>6 DEF STypes
<1>8. ASSUME NEW i \in Slots, NEW l \in Layers
      PROVE  /\ pages'[i][l][1] \in {pages[i][l][1], Serving[1].step}
             /\ pages[i][l][1] \in Nat
  <2>1. pages[i][l] \in Contents
    BY <1>4 DEF STypes
  <2>2. pages[i][l][1] \in Nat
    BY <2>1, BoundAssumption DEF Contents
  <2>3. Rewrites(i, l)
    BY <1>2
  <2> QED BY <2>2, <2>3 DEF Rewrites
<1>9. StepOrder'
  <2> SUFFICES ASSUME NEW k \in 1..Len(Serving')
               PROVE  /\ \A i \in Slots, l \in Layers : pages'[i][l][1] <= Serving'[k].step
                      /\ \A j \in 1..k : Serving'[j].step <= Serving'[k].step
    BY DEF StepOrder
  <2>1. k + 1 \in 1..Len(Serving) /\ Serving'[k] = Serving[k + 1]
    BY <1>3
  <2>2. ASSUME NEW i \in Slots, NEW l \in Layers
        PROVE  pages'[i][l][1] <= Serving'[k].step
    <3>1. pages[i][l][1] <= Serving[k + 1].step /\ Serving[1].step <= Serving[k + 1].step
      BY <1>4, <2>1 DEF StepOrder
    <3> QED BY <1>8, <2>1, <3>1
  <2>3. ASSUME NEW j \in 1..k
        PROVE  Serving'[j].step <= Serving'[k].step
    <3>1. j \in 1..Len(Serving') /\ j + 1 \in 1..(k + 1)
      BY <1>1
    <3>2. Serving'[j] = Serving[j + 1] /\ Serving[j + 1].step <= Serving[k + 1].step
      BY <1>3, <1>4, <2>1, <3>1 DEF StepOrder
    <3> QED BY <2>1, <3>2
  <2> QED BY <2>2, <2>3
<1>10. OldPages'
  <2> SUFFICES ASSUME NEW i \in Slots, NEW l \in Layers
               PROVE  pages'[i][l][1] <= step
    BY <1>1 DEF OldPages
  <2>1. pages[i][l][1] <= step /\ Serving[1].step <= step
    BY <1>1, <1>4, <1>5 DEF OldPages
  <2> QED BY <1>8, <2>1
<1>11. Pending'
  <2> SUFFICES ASSUME NEW k \in 1..Len(Serving'), NEW o, o = Serving'[k]
               PROVE  /\ o.do = "scatter" => ScatterAt(k, o.step, o.slot, o.layer)'
                      /\ o.do = "forward" => ForwardAt(k, o.step, o.layer, o.plan, o.void)'
    BY DEF Pending
  <2>1. /\ k + 1 \in 2..(Len(Serving) + 1) /\ (k + 1) - 1 = k
        /\ k + 1 \in 1..Len(Serving) /\ Serving[k + 1] = o /\ 1 \in 1..(k + 1)
    BY <1>1, <1>3
  <2>2. o.step \in Nat /\ Serving[1].step <= o.step /\ o.layer \in Layers
        /\ (o.do # "forward" => o.slot \in Slots)
    <3>1. Shaped(queue["serving"][k + 1], "serving")
      BY <2>1 DEF DInv, DTypes, Streams, Serving
    <3> QED BY <1>4, <1>5, <2>1, <3>1 DEF StepOrder, STypes, Shaped, Serving
  <2>3. /\ o.do = "scatter" => ScatterAt(k + 1, o.step, o.slot, o.layer)
        /\ o.do = "forward" => ForwardAt(k + 1, o.step, o.layer, o.plan, o.void)
    BY <1>4, <2>1 DEF Pending
  <2>4. o.do = "scatter" => ScatterAt((k + 1) - 1, o.step, o.slot, o.layer)'
    BY <2>1, <2>2, <2>3, ShiftAt
  <2>5. o.do = "forward" => ForwardAt((k + 1) - 1, o.step, o.layer, o.plan, o.void)'
    BY <2>1, <2>2, <2>3, ShiftAt
  <2> QED BY <2>1, <2>4, <2>5
<1>12. Coming'
  <2>1. PICK k : k = Len(Serving) + 1
    OBVIOUS
  <2>2. PICK n, t : n = step /\ t = turn
    OBVIOUS
  <2>3. /\ k \in 2..(Len(Serving) + 1) /\ Len(Serving') + 1 = k - 1 /\ 1 \in 1..(k - 1)
        /\ n \in Nat /\ Serving[1].step <= n /\ step' = n /\ turn' = t
    BY <1>1, <1>5, <2>1, <2>2
  <2>4. \A i \in Slots, l \in Layers : Open(k, i, l, n) => ~Completes(Serving[1], l, n)
    BY <2>3 DEF Open
  <2>5. ASSUME pc \in {"load", "layer"}, NEW i \in Slots, NEW m \in Layers
        PROVE  /\ Open(k - 1, i, m, n)'
               /\ i < turn /\ i \in plan \ failed => Blended(k - 1, i, m, n)'
               /\ i \notin plan \/ i > turn \/ (i = turn /\ pc = "load") => Fresh(k - 1, i, m, n)'
               /\ Blended(k, i, m, n) => Blended(k - 1, i, m, n)'
               /\ Fresh(k, i, m, n) => Fresh(k - 1, i, m, n)'
    <3>1. /\ Open(k, i, m, n)
          /\ i < turn /\ i \in plan \ failed => Blended(k, i, m, n)
          /\ i \notin plan \/ i > turn \/ (i = turn /\ pc = "load") => Fresh(k, i, m, n)
      BY <1>4, <2>1, <2>2, <2>5 DEF Coming
    <3> QED BY <2>3, <2>4, <3>1, Shift
  <2>6. ASSUME pc = "layer"
        PROVE  /\ \A j \in 1..Len(Serving') : Serving'[j].do # "forward"
               /\ \A m \in Layers : IF m < layer THEN Blended(k - 1, t, m, n)'
                                                 ELSE Fresh(k - 1, t, m, n)'
    <3>1. t \in Slots
      BY <1>4, <2>2, <2>6 DEF STypes
    <3>2. /\ \A j \in 1..Len(Serving) : Serving[j].do # "forward"
          /\ \A m \in Layers : IF m < layer THEN Blended(k, t, m, n) ELSE Fresh(k, t, m, n)
      BY <1>4, <2>1, <2>2, <2>6 DEF Coming
    <3> QED BY <1>3, <2>5, <2>6, <3>1, <3>2
  <2>7. PICK l, P, V : l = layer /\ P = plan /\ V = failed
    OBVIOUS
  <2>8. pc = "forward" => ForwardAt(k - 1, n, l, P, V)'
    <3>1. pc = "forward" => ForwardAt(k, n, l, P, V)
      BY <1>4, <2>1, <2>2, <2>7 DEF Coming
    <3>2. l \in Layers
      BY <2>7 DEF DInv, DTypes
    <3> QED BY <2>3, <3>1, <3>2, ShiftAt
  <2>9. ASSUME pc = "wait", NEW i \in Slots, NEW m \in Layers
        PROVE  Complete(k - 1, i, m, n)'
    <3>1. Complete(k, i, m, n)
      BY <1>4, <2>1, <2>2, <2>9 DEF Coming
    <3> QED BY <2>3, <3>1, Shift
  <2> QED BY <1>1, <2>3, <2>5, <2>6, <2>7, <2>8, <2>9 DEF Coming
<1> QED BY <1>7, <1>9, <1>10, <1>11, <1>12


\* The buffer of a layer.
LEMMA LayerParity ==
  ASSUME NEW l \in Layers
  PROVE  l \in Nat /\ l % 2 \in Buffers
BY LayersAssumption, Parity DEF Layers

\* What the first operation of the serving stream does to the buffers.
LEMMA ServingBuffers ==
  ASSUME DInv, RInv, Run("serving")
  PROVE  /\ \A b \in Buffers : ~Touches(Serving[1], b) => staging'[b] = staging[b]
         /\ \A i, l : Fills(Serving[1], i, l) => Holds(i, l, "loaded")'
         /\ \A o : o = Serving[1] /\ o.do = "blend" => Holds(o.slot, o.layer, "blended")'
         /\ Serving[1].do = "scatter" => staging' = staging
<1>1. PICK o : o = Serving[1]
  OBVIOUS
<1>2. /\ 1 \in 1..Len(Serving) /\ Head(Serving) = o /\ Shaped(o, "serving") /\ Happened(o.wait)
      /\ RInv /\ DOMAIN staging = Buffers
  BY <1>1, ServingRuns DEF RInv, STypes
<1>3. o.do \in {"fill", "blend", "scatter", "forward"} /\ o.layer % 2 \in Buffers
  BY <1>2, LayerParity DEF Shaped, Kinds
<1>4. \/ o.do = "fill" /\ DoFill(o)
      \/ o.do = "blend" /\ DoBlend(o)
      \/ o.do = "scatter" /\ DoScatter(o)
      \/ o.do = "forward" /\ DoForward(o)
      \/ o.do = "gather" /\ DoGather(o)
      \/ o.do = "copy" /\ DoCopy(o)
  BY <1>1, <1>2 DEF Run, Serving
<1>5. ASSUME NEW b \in Buffers, ~Touches(o, b)
      PROVE  staging'[b] = staging[b]
  BY <1>2, <1>3, <1>4, <1>5 DEF Touches, DoFill, DoBlend, DoScatter, DoForward
<1>6. ASSUME NEW i, NEW l, Fills(o, i, l)
      PROVE  Holds(i, l, "loaded")'
  BY <1>2, <1>3, <1>4, <1>6 DEF Fills, Holds, DoFill
<1>7. ASSUME o.do = "blend"
      PROVE  Holds(o.slot, o.layer, "blended")'
  <2>1. SupplyAt(1, o.slot, o.layer, o.wait)
    BY <1>1, <1>2, <1>7 DEF RInv, Supplied
  <2>2. CASE loadStream
    <3>1. o.wait.stream = "load" /\ o.wait.after \in Nat
      BY <1>2, <2>1, <2>2 DEF SupplyAt, Shaped, Events
    <3>2. Done("load") >= o.wait.after
      BY <1>2, <3>1 DEF Happened, Done
    <3>3. Done("load") \in Nat
      BY QueueTypes DEF DInv, Streams
    <3>4. Holds(o.slot, o.layer, "loaded")
      BY <2>1, <2>2, <3>1, <3>2, <3>3 DEF SupplyAt
    <3> QED BY <1>2, <1>3, <1>4, <1>7, <3>4 DEF Holds, DoBlend
  <2>3. CASE ~loadStream
    <3>1. Holds(o.slot, o.layer, "loaded")
      BY <2>1, <2>3 DEF SupplyAt
    <3> QED BY <1>2, <1>3, <1>4, <1>7, <3>1 DEF Holds, DoBlend
  <2> QED BY <2>2, <2>3
<1>8. ASSUME o.do = "scatter"
      PROVE  staging' = staging
  BY <1>4, <1>8 DEF DoScatter
<1> QED BY <1>1, <1>5, <1>6, <1>7, <1>8

\* A blend's layer is on its way, or there, when a serving operation is done.
LEMMA SupplyShift ==
  ASSUME DInv, RInv, Run("serving"), NEW k \in 2..(Len(Serving) + 1),
         NEW i, NEW l \in Layers, NEW w, SupplyAt(k, i, l, w)
  PROVE  SupplyAt(k - 1, i, l, w)'
<1> DEFINE b == l % 2
<1>1. /\ Len(Serving) \in Nat /\ 1 \in 1..(k - 1) /\ b \in Buffers
      /\ \A j \in 1..(Len(Serving) - 1) : Serving'[j] = Serving[j + 1]
      /\ queue'["load"] = queue["load"] /\ Done("load")' = Done("load")
      /\ loadStream' = loadStream /\ given' = given
  BY ServingRuns, LayerParity
<1>2. /\ ~Touches(Serving[1], b) => staging'[b] = staging[b]
      /\ Fills(Serving[1], i, l) => Holds(i, l, "loaded")'
  BY <1>1, ServingBuffers
<1> HIDE DEF b
<1>3. \A j \in 1..((k - 1) - 1) : j + 1 \in 1..(k - 1) /\ Serving'[j] = Serving[j + 1]
  <2> TAKE j \in 1..((k - 1) - 1)
  <2>1. j + 1 \in 1..(k - 1) /\ j \in 1..(Len(Serving) - 1)
    BY <1>1
  <2> QED BY <1>1, <2>1
<1>4. ASSUME \A j \in 1..(k - 1) : ~Touches(Serving[j], b), Holds(i, l, "loaded")
      PROVE  /\ \A j \in 1..((k - 1) - 1) : ~Touches(Serving'[j], b)
             /\ Holds(i, l, "loaded")'
  <2>1. ~Touches(Serving[1], b)
    BY <1>1, <1>4
  <2> QED BY <1>2, <1>3, <1>4, <2>1 DEF Holds, b
<1>5. CASE loadStream
  <2>1. /\ w.stream = "load" /\ w.after >= 1 /\ w.after <= given["load"]
        /\ \A j \in 1..(k - 1) : Serving[j].wait.stream = "load" => Serving[j].wait.after < w.after
        /\ IF w.after > Done("load") THEN Fills(queue["load"][w.after - Done("load")], i, l)
           ELSE /\ \A j \in 1..(k - 1) : ~Touches(Serving[j], b)
                /\ Holds(i, l, "loaded")
    BY <1>5 DEF SupplyAt, b
  <2>2. \A j \in 1..((k - 1) - 1) :
          Serving'[j].wait.stream = "load" => Serving'[j].wait.after < w.after
    BY <1>3, <2>1
  <2>3. IF w.after > Done("load")' THEN Fills(queue'["load"][w.after - Done("load")'], i, l)
        ELSE /\ \A j \in 1..((k - 1) - 1) : ~Touches(Serving'[j], b)
             /\ Holds(i, l, "loaded")'
    BY <1>1, <1>4, <2>1
  <2> QED BY <1>1, <1>5, <2>1, <2>2, <2>3 DEF SupplyAt, Fills, Touches, b
<1>6. CASE ~loadStream
  <2>1. CASE (\A j \in 1..(k - 1) : ~Touches(Serving[j], b)) /\ Holds(i, l, "loaded")
    <3>1. (\A j \in 1..((k - 1) - 1) : ~Touches(Serving'[j], b)) /\ Holds(i, l, "loaded")'
      BY <1>4, <2>1
    <3> QED BY <1>1, <1>6, <3>1 DEF SupplyAt, Touches, b
  <2>2. ASSUME NEW j \in 1..(k - 1), Fills(Serving[j], i, l),
               \A h \in (j + 1)..(k - 1) : ~Touches(Serving[h], b)
        PROVE  SupplyAt(k - 1, i, l, w)'
    <3>1. \A h \in j..((k - 1) - 1) : h + 1 \in (j + 1)..(k - 1) /\ h \in 1..((k - 1) - 1)
      OBVIOUS
    <3>2. \A h \in j..((k - 1) - 1) : ~Touches(Serving'[h], b)
      BY <1>3, <2>2, <3>1
    <3>3. CASE j = 1
      <4>1. Holds(i, l, "loaded")'
        BY <1>2, <2>2, <3>3
      <4>2. \A h \in 1..((k - 1) - 1) : ~Touches(Serving'[h], b)
        BY <3>2, <3>3
      <4> QED BY <1>1, <1>6, <4>1, <4>2 DEF SupplyAt, Touches, b
    <3>4. CASE j # 1
      <4>1. j - 1 \in 1..((k - 1) - 1) /\ (j - 1) + 1 = j
        BY <3>4
      <4>2. Fills(Serving'[j - 1], i, l)
        BY <1>3, <2>2, <4>1
      <4>3. \A h \in ((j - 1) + 1)..((k - 1) - 1) : ~Touches(Serving'[h], b)
        BY <3>2, <4>1
      <4> QED BY <1>1, <1>6, <4>1, <4>2, <4>3 DEF SupplyAt, Fills, Touches, b
    <3> QED BY <3>3, <3>4
  <2> QED BY <1>6, <2>1, <2>2 DEF SupplyAt, b
<1> QED BY <1>5, <1>6


\* The serving stream's steps keep what is said of the loader.
LEMMA ServingKeepsSupply ==
  ASSUME DInv, RInv, Run("serving")
  PROVE  Supplied'
<1>1. /\ 1 \in 1..Len(Serving) /\ Len(Serving) \in Nat /\ Len(Serving') = Len(Serving) - 1
      /\ \A j \in 1..(Len(Serving) - 1) : Serving'[j] = Serving[j + 1]
      /\ UNCHANGED <<pc, turn, layer, loadStream, loaded>>
  BY ServingRuns
<1>2. Supplied
  BY DEF RInv
<1>3. ASSUME NEW k \in 1..Len(Serving'), NEW o, o = Serving'[k]
      PROVE  /\ o.do = "fill" => ~loadStream'
             /\ o.do # "blend" => o.wait = NoEvent
             /\ o.wait.stream # "store"
             /\ o.do = "blend" => SupplyAt(k, o.slot, o.layer, o.wait)'
             /\ o.do = "scatter" =>
                  IF k = 1 THEN Holds(o.slot, o.layer, "blended")'
                  ELSE /\ Serving'[k - 1].do = "blend" /\ Serving'[k - 1].slot = o.slot
                       /\ Serving'[k - 1].layer = o.layer
  <2>1. /\ k + 1 \in 2..(Len(Serving) + 1) /\ (k + 1) - 1 = k
        /\ k + 1 \in 1..Len(Serving) /\ Serving[k + 1] = o /\ k + 1 # 1
    BY <1>1, <1>3
  <2>2. /\ o.do = "fill" => ~loadStream
        /\ o.do # "blend" => o.wait = NoEvent
        /\ o.wait.stream # "store"
        /\ o.do = "blend" => SupplyAt(k + 1, o.slot, o.layer, o.wait)
        /\ o.do = "scatter" => /\ Serving[k].do = "blend" /\ Serving[k].slot = o.slot
                               /\ Serving[k].layer = o.layer
    BY <1>2, <2>1 DEF Supplied
  <2>3. o.layer \in Layers
    BY <2>1 DEF DInv, DTypes, Streams, Shaped, Serving
  <2>4. o.do = "blend" => SupplyAt((k + 1) - 1, o.slot, o.layer, o.wait)'
    BY <2>1, <2>2, <2>3, SupplyShift
  <2>5. o.do = "scatter" /\ k = 1 => Holds(o.slot, o.layer, "blended")'
    BY <2>2, ServingBuffers
  <2>6. ASSUME o.do = "scatter", k # 1
        PROVE  /\ Serving'[k - 1].do = "blend" /\ Serving'[k - 1].slot = o.slot
               /\ Serving'[k - 1].layer = o.layer
    <3>1. k - 1 \in 1..(Len(Serving) - 1) /\ (k - 1) + 1 = k
      BY <1>1, <2>6
    <3>2. Serving'[k - 1] = Serving[k]
      BY <1>1, <3>1
    <3> QED BY <2>2, <2>6, <3>2
  <2> QED BY <1>1, <2>1, <2>2, <2>4, <2>5, <2>6
<1>4. \A b \in Buffers : loaded'[b].stream # "store" /\ (~loadStream' => loaded'[b] = NoEvent)
  BY <1>1, <1>2 DEF Supplied
<1>5. PICK k, i, l, w : k = Len(Serving) + 1 /\ i = turn /\ l = layer /\ w = loaded[layer % 2]
  OBVIOUS
<1>6. pc = "layer" => SupplyAt(k - 1, i, l, w)'
  <2>1. pc = "layer" => SupplyAt(k, i, l, w)
    BY <1>2, <1>5 DEF Supplied
  <2>2. l \in Layers /\ k \in 2..(Len(Serving) + 1)
    BY <1>1, <1>5 DEF DInv, DTypes
  <2> QED BY <2>1, <2>2, SupplyShift
<1>7. (pc = "layer" => SupplyAt(Len(Serving) + 1, turn, layer, loaded[layer % 2]))'
  <2>1. Len(Serving') + 1 = k - 1 /\ turn' = i /\ layer' = l /\ loaded'[layer' % 2] = w /\ pc' = pc
    BY <1>1, <1>5
  <2> QED BY <1>6, <2>1
<1> QED BY <1>3, <1>4, <1>7 DEF Supplied

\* What is final is not written again in its step.
LEMMA FinalStays ==
  ASSUME DInv, RInv, Run("serving"), NEW i \in Slots, NEW l \in Layers, Final(i, l)
  PROVE  pages'[i][l] = pages[i][l] /\ Final(i, l)'
<1> DEFINE o == Serving[1]
<1>1. 1 \in 1..Len(Serving) /\ step' = step
  BY ServingRuns
<1>2. /\ o.step \in 1..step /\ step \in Nat /\ pages[i][l][1] <= o.step
      /\ o.do = "forward" => ForwardAt(1, o.step, o.layer, o.plan, o.void)
      /\ o.layer \in Layers
  <2>1. Shaped(o, "serving")
    BY ServingRuns
  <2> QED BY <1>1, <2>1, BoundAssumption DEF RInv, STypes, StepOrder, Pending, Shaped
<1>3. o.step = step /\ pages[i][l][1] = step
  BY <1>2 DEF Final
<1>4. ~Completes(o, l, o.step)
  <2>1. ASSUME o.do = "forward", o.layer = l
        PROVE  FALSE
    <3>1. l >= o.layer
      BY <1>2, <2>1, LayerParity
    <3>2. Open(1, i, l, o.step)
      BY <1>2, <2>1, <3>1 DEF ForwardAt
    <3> QED BY <1>3, <3>2 DEF Open, Final
  <2> QED BY <2>1 DEF Completes
<1>5. Rewrites(i, l)
  BY ServingRewrites
<1>6. pages'[i][l] = pages[i][l]
  <2>1. ~(pages[i][l][1] < o.step)
    BY <1>2, <1>3
  <2> QED BY <1>4, <1>5, <2>1 DEF Rewrites
<1> QED BY <1>1, <1>6 DEF Final

\* The serving stream's steps keep what is said of the store.
LEMMA ServingKeepsSaved ==
  ASSUME DInv, RInv, Run("serving")
  PROVE  Saved'
<1>1. /\ queue'["store"] = queue["store"] /\ Done("store")' = Done("store")
      /\ UNCHANGED <<pc, layer, batches, given, stored, host>>
  BY ServingRuns, ServingRewrites
<1>2. Saved
  BY DEF RInv
<1>3. \A m \in 1..Len(queue["store"]) : queue["store"][m].layer \in Layers
  BY DEF DInv, DTypes, Streams, Shaped
<1>4. ASSUME NEW m \in 1..Len(queue'["store"]), NEW o, o = queue'["store"][m]
      PROVE  /\ o.slot \in Slots
             /\ o.do = "copy" =>
                  IF m = 1 THEN Final(o.slot, o.layer)' /\ stored'[o.slot] = <<o.layer, pages'[o.slot][o.layer]>>
                  ELSE LET p == queue'["store"][m - 1] IN
                       p.do = "gather" /\ p.slot = o.slot /\ p.layer = o.layer
  <2>1. /\ m \in 1..Len(queue["store"]) /\ o = queue["store"][m] /\ o.layer \in Layers
    BY <1>1, <1>3, <1>4
  <2>2. /\ o.slot \in Slots
        /\ o.do = "copy" =>
             IF m = 1 THEN Final(o.slot, o.layer) /\ stored[o.slot] = <<o.layer, pages[o.slot][o.layer]>>
             ELSE LET p == queue["store"][m - 1] IN
                  p.do = "gather" /\ p.slot = o.slot /\ p.layer = o.layer
    BY <1>2, <2>1 DEF Saved
  <2>3. CASE o.do = "copy" /\ m = 1
    <3>1. pages'[o.slot][o.layer] = pages[o.slot][o.layer] /\ Final(o.slot, o.layer)'
      BY <2>1, <2>2, <2>3, FinalStays
    <3> QED BY <1>1, <2>2, <2>3, <3>1
  <2>4. CASE ~(o.do = "copy" /\ m = 1)
    BY <1>1, <2>2, <2>4
  <2> QED BY <2>3, <2>4
<1>5. ASSUME NEW b \in batches
      PROVE  /\ b.slot \in Slots /\ b.layer \in Layers /\ pc' \in {"forward", "wait"}
             /\ pc' = "forward" => b.layer < layer'
             /\ b.copied.stream = "store" /\ b.copied.after \in 1..given'["store"]
             /\ IF b.copied.after > Done("store")'
                THEN LET o == queue'["store"][b.copied.after - Done("store")'] IN
                     o.do = "copy" /\ o.slot = b.slot /\ o.layer = b.layer
                ELSE Final(b.slot, b.layer)' /\ host'[b.slot][b.layer] = pages'[b.slot][b.layer]
  <2>1. /\ b.slot \in Slots /\ b.layer \in Layers /\ pc \in {"forward", "wait"}
        /\ pc = "forward" => b.layer < layer
        /\ b.copied.stream = "store" /\ b.copied.after \in 1..given["store"]
        /\ IF b.copied.after > Done("store")
           THEN LET o == queue["store"][b.copied.after - Done("store")] IN
                o.do = "copy" /\ o.slot = b.slot /\ o.layer = b.layer
           ELSE Final(b.slot, b.layer) /\ host[b.slot][b.layer] = pages[b.slot][b.layer]
    BY <1>2 DEF Saved
  <2>2. Final(b.slot, b.layer) =>
          pages'[b.slot][b.layer] = pages[b.slot][b.layer] /\ Final(b.slot, b.layer)'
    BY <2>1, FinalStays
  <2> QED BY <1>1, <2>1, <2>2
<1> QED BY <1>1, <1>4, <1>5 DEF Saved


\* Nothing changes for pages that stay under a queue that stays.
LEMMA PlacesStill ==
  ASSUME RInv, UNCHANGED <<Serving, pages>>
  PROVE  StepOrder' /\ Pending'
<1>1. StepOrder'
  BY DEF RInv, StepOrder
<1>2. \A k, n, i, l : ScatterAt(k, n, i, l) => ScatterAt(k, n, i, l)'
  BY DEF ScatterAt, Blended, Fresh
<1>3. \A k, n, l, P, V : ForwardAt(k, n, l, P, V) => ForwardAt(k, n, l, P, V)'
  BY DEF ForwardAt, Blended, Fresh, Open, Complete
<1>4. ASSUME NEW k \in 1..Len(Serving'), NEW o, o = Serving'[k]
      PROVE  /\ o.do = "scatter" => ScatterAt(k, o.step, o.slot, o.layer)'
             /\ o.do = "forward" => ForwardAt(k, o.step, o.layer, o.plan, o.void)'
  <2>1. /\ o.do = "scatter" => ScatterAt(k, o.step, o.slot, o.layer)
        /\ o.do = "forward" => ForwardAt(k, o.step, o.layer, o.plan, o.void)
    BY <1>4 DEF RInv, Pending
  <2> QED BY <1>2, <1>3, <2>1
<1>5. Pending'
  BY <1>4 DEF Pending
<1> QED BY <1>1, <1>5

\* Nothing changes for the pages when the serving stream and the runner rest.
LEMMA PagesStill ==
  ASSUME RInv, UNCHANGED <<Serving, pages, pc, step, plan, failed, turn, layer>>
  PROVE  StepOrder' /\ OldPages' /\ Pending' /\ Coming'
<1>1. StepOrder' /\ Pending'
  BY PlacesStill
<1>2. OldPages'
  BY DEF RInv, OldPages
<1>3. Coming'
  BY DEF RInv, Coming, ForwardAt, Blended, Fresh, Open, Complete
<1> QED BY <1>1, <1>2, <1>3

\* When a load is ready, what is left in the serving stream for its buffer waits for it
\* or for a later one.
LEMMA LoadTouches ==
  ASSUME DInv, Run("load"), NEW j \in 1..Len(Serving),
         Touches(Serving[j], queue["load"][1].layer % 2)
  PROVE  \E h \in 1..j : /\ Serving[h].wait.stream = "load"
                         /\ Serving[h].wait.after >= Done("load") + 1
<1>1. /\ 1 \in 1..Len(queue["load"]) /\ Happened(queue["load"][1].wait)
      /\ Shaped(queue["load"][1], "load") /\ "load" \in Streams /\ "serving" \in Streams
  <2>1. "load" \in Streams /\ "serving" \in Streams
    BY DEF Streams
  <2> QED BY <2>1, RunFacts
<1>2. j \in 1..Len(queue["serving"])
  BY DEF Serving
<1>3. Meet(queue["serving"][j], queue["load"][1])
  <2>1. queue["load"][1].do = "fill"
    BY <1>1 DEF Shaped, Kinds
  <2> DEFINE x == <<"staging", queue["load"][1].layer % 2>>
  <2>2. x \in Writes(queue["load"][1])
    BY <2>1 DEF Writes
  <2>3. x \in Uses(queue["serving"][j])
    <3>1. CASE Serving[j].do \in {"fill", "blend"}
      BY <3>1 DEF Touches, Uses, Writes, Serving
    <3>2. CASE Serving[j].do = "scatter"
      BY <3>2 DEF Touches, Uses, Serving
    <3> QED BY <3>1, <3>2 DEF Touches
  <2> QED BY <2>2, <2>3 DEF Meet
<1>4. ~Behind("load", 1, "serving", j)
  BY <1>1, <1>2, ReadyFirst
<1>5. Behind("serving", j, "load", 1)
  BY <1>1, <1>2, <1>3, <1>4 DEF DInv, Ordered
<1> QED BY <1>5 DEF Behind, Serving

\* A load fills the buffer that its layer has, for the blend that waits for it.
LEMMA LoadBuffers ==
  ASSUME DInv, RInv, Run("load")
  PROVE  /\ loadStream /\ given["load"] >= Done("load") + 1
         /\ \A b \in Buffers : b # queue["load"][1].layer % 2 => staging'[b] = staging[b]
         /\ \A i, l : Fills(queue["load"][1], i, l) => Holds(i, l, "loaded")'
         /\ DOMAIN staging' = Buffers
         /\ pages' = pages /\ stored' = stored /\ host' = host
<1>1. /\ 1 \in 1..Len(queue["load"]) /\ Head(queue["load"]) = queue["load"][1]
      /\ Shaped(queue["load"][1], "load") /\ "load" \in Streams
  <2>1. "load" \in Streams
    BY DEF Streams
  <2> QED BY <2>1, RunFacts
<1>2. queue["load"][1].do = "fill" /\ queue["load"][1].layer % 2 \in Buffers
  BY <1>1, LayerParity DEF Shaped, Kinds
<1>3. DoFill(queue["load"][1])
  BY <1>1, <1>2 DEF Run
<1>4. DOMAIN staging = Buffers
  BY DEF RInv, STypes
<1>5. loadStream
  <2>1. Len(<<>>) = 0
    BY OneOperation
  <2>2. queue["load"] # <<>>
    BY <1>1, <2>1
  <2> QED BY <2>2 DEF DInv, LoaderEvents
<1>6. given["load"] >= Done("load") + 1
  <2>1. /\ Len(queue["load"]) \in Nat /\ Done("load") \in Nat
        /\ Done("load") + Len(queue["load"]) = given["load"]
    BY <1>1, QueueTypes DEF DInv
  <2> QED BY <1>1, <2>1
<1> QED BY <1>2, <1>3, <1>4, <1>5, <1>6 DEF DoFill, Fills, Holds

\* A blend's layer is on its way, or there, when a load is done.
LEMMA LoadShift ==
  ASSUME DInv, RInv, Run("load"), NEW k \in 1..(Len(Serving) + 1), NEW i, NEW l \in Layers, NEW w,
         w.after \in Nat, SupplyAt(k, i, l, w),
         \/ /\ k \in 1..Len(Serving) /\ Serving[k].do = "blend" /\ Serving[k].layer = l
            /\ Serving[k].wait = w
         \/ w.after >= given["load"]
  PROVE  SupplyAt(k, i, l, w)'
<1> DEFINE b == l % 2
           p == queue["load"][1]
           d == Done("load")
<1>1. "load" \in Streams /\ "serving" \in Streams
  BY DEF Streams
<1>2. /\ Len(queue["load"]) \in Nat /\ Len(queue["load"]) >= 1 /\ d \in Nat
      /\ Done("load")' = d + 1
      /\ \A j \in 1..(Len(queue["load"]) - 1) : queue'["load"][j] = queue["load"][j + 1]
      /\ Serving' = Serving /\ given' = given /\ loadStream' = loadStream
      /\ d + Len(queue["load"]) = given["load"]
  BY <1>1, RunFacts, QueueTypes DEF Serving, DInv
<1>3. /\ loadStream /\ given["load"] >= d + 1 /\ b \in Buffers
      /\ b # p.layer % 2 => staging'[b] = staging[b]
      /\ Fills(p, i, l) => Holds(i, l, "loaded")'
  BY LoadBuffers, LayerParity
<1>4. Len(Serving) \in Nat
  BY <1>1, QueueTypes DEF Serving, DInv
<1> HIDE DEF d, b
<1>5. /\ w.stream = "load" /\ w.after >= 1 /\ w.after <= given["load"]
      /\ \A j \in 1..(k - 1) : Serving[j].wait.stream = "load" => Serving[j].wait.after < w.after
      /\ IF w.after > d THEN Fills(queue["load"][w.after - d], i, l)
         ELSE /\ \A j \in 1..(k - 1) : ~Touches(Serving[j], b)
              /\ Holds(i, l, "loaded")
  BY <1>3 DEF SupplyAt, b, d
<1>6. \A j \in 1..Len(Serving) : Serving[j].wait.after \in Nat
  BY <1>1, QueueTypes DEF Serving, DInv
<1>7. ASSUME w.after <= d + 1, NEW j \in 1..(k - 1)
      PROVE  ~Touches(Serving[j], p.layer % 2)
  <2> SUFFICES ASSUME Touches(Serving[j], p.layer % 2)
               PROVE  FALSE
    OBVIOUS
  <2>1. j \in 1..Len(Serving)
    BY <1>4
  <2>2. PICK h \in 1..j : Serving[h].wait.stream = "load" /\ Serving[h].wait.after >= d + 1
    BY <2>1, LoadTouches DEF d
  <2>3. h \in 1..(k - 1) /\ h \in 1..Len(Serving)
    BY <2>1
  <2>4. Serving[h].wait.after < w.after /\ Serving[h].wait.after \in Nat
    BY <1>5, <1>6, <2>2, <2>3
  <2> QED BY <1>2, <1>7, <2>2, <2>4
<1>8. CASE w.after > d + 1
  <2>1. w.after - (d + 1) \in 1..(Len(queue["load"]) - 1) /\ (w.after - (d + 1)) + 1 = w.after - d
        /\ w.after > d
    BY <1>2, <1>5, <1>8
  <2>2. Fills(queue'["load"][w.after - (d + 1)], i, l)
    BY <1>2, <1>5, <2>1
  <2>3. w.after > Done("load")' /\ Fills(queue'["load"][w.after - Done("load")'], i, l)
    BY <1>2, <1>8, <2>2
  <2> QED BY <1>2, <1>3, <1>5, <2>3 DEF SupplyAt, Fills
<1>9. CASE w.after = d + 1
  <2>1. w.after > d /\ w.after - d = 1 /\ ~(w.after > Done("load")')
    BY <1>2, <1>9
  <2>2. Fills(p, i, l)
    BY <1>5, <2>1
  <2>3. p.layer % 2 = b
    BY <2>2 DEF Fills, b
  <2>4. \A j \in 1..(k - 1) : ~Touches(Serving[j], b)
    BY <1>2, <1>7, <1>9, <2>3
  <2> QED BY <1>2, <1>3, <1>5, <2>1, <2>2, <2>4 DEF SupplyAt, Touches, b
<1>10. CASE w.after <= d
  <2>1. ~(w.after > d) /\ ~(w.after > Done("load")') /\ ~(w.after >= given["load"])
    BY <1>2, <1>3, <1>10
  <2>2. k \in 1..Len(Serving) /\ Serving[k].do = "blend" /\ Serving[k].layer = l /\ Serving[k].wait = w
    BY <2>1
  <2>3. p.layer % 2 # b
    <3> SUFFICES ASSUME p.layer % 2 = b
                 PROVE  FALSE
      OBVIOUS
    <3>1. Touches(Serving[k], p.layer % 2)
      BY <2>2 DEF Touches, b
    <3>2. PICK h \in 1..k : Serving[h].wait.stream = "load" /\ Serving[h].wait.after >= d + 1
      BY <2>2, <3>1, LoadTouches DEF d
    <3>3. CASE h = k
      BY <1>2, <1>10, <2>2, <3>2, <3>3
    <3>4. CASE h # k
      <4>1. h \in 1..(k - 1) /\ h \in 1..Len(Serving)
        BY <2>2, <3>4
      <4>2. Serving[h].wait.after < w.after /\ Serving[h].wait.after \in Nat
        BY <1>5, <1>6, <3>2, <4>1
      <4> QED BY <1>2, <1>10, <3>2, <4>2
    <3> QED BY <3>3, <3>4
  <2>4. (\A j \in 1..(k - 1) : ~Touches(Serving[j], b)) /\ Holds(i, l, "loaded")'
    BY <1>3, <1>5, <2>1, <2>3 DEF Holds, b
  <2> QED BY <1>2, <1>3, <1>5, <2>1, <2>4 DEF SupplyAt, Touches, b
<1> QED BY <1>2, <1>8, <1>9, <1>10


\* Nothing changes for the store when its stream rests and pages stay.
LEMMA SavedStill ==
  ASSUME RInv, queue'["store"] = queue["store"], Done("store")' = Done("store"),
         UNCHANGED <<pages, stored, host, step, pc, layer, given>>, batches' \subseteq batches
  PROVE  Saved'
<1>1. ASSUME NEW i, NEW l
      PROVE  Final(i, l)' <=> Final(i, l)
  BY DEF Final
<1>2. ASSUME NEW m \in 1..Len(queue'["store"]), NEW o, o = queue'["store"][m]
      PROVE  /\ o.slot \in Slots
             /\ o.do = "copy" =>
                  IF m = 1 THEN /\ Final(o.slot, o.layer)'
                                /\ stored'[o.slot] = <<o.layer, pages'[o.slot][o.layer]>>
                  ELSE LET p == queue'["store"][m - 1] IN
                       p.do = "gather" /\ p.slot = o.slot /\ p.layer = o.layer
  <2>1. m \in 1..Len(queue["store"]) /\ o = queue["store"][m]
    BY <1>2
  <2>2. /\ o.slot \in Slots
        /\ o.do = "copy" =>
             IF m = 1 THEN Final(o.slot, o.layer) /\ stored[o.slot] = <<o.layer, pages[o.slot][o.layer]>>
             ELSE LET p == queue["store"][m - 1] IN
                  p.do = "gather" /\ p.slot = o.slot /\ p.layer = o.layer
    BY <2>1 DEF RInv, Saved
  <2> QED BY <1>1, <2>2
<1>3. ASSUME NEW b \in batches'
      PROVE  /\ b.slot \in Slots /\ b.layer \in Layers /\ pc' \in {"forward", "wait"}
             /\ pc' = "forward" => b.layer < layer'
             /\ b.copied.stream = "store" /\ b.copied.after \in 1..given'["store"]
             /\ IF b.copied.after > Done("store")'
                THEN LET o == queue'["store"][b.copied.after - Done("store")'] IN
                     o.do = "copy" /\ o.slot = b.slot /\ o.layer = b.layer
                ELSE Final(b.slot, b.layer)' /\ host'[b.slot][b.layer] = pages'[b.slot][b.layer]
  <2>1. /\ b.slot \in Slots /\ b.layer \in Layers /\ pc \in {"forward", "wait"}
        /\ pc = "forward" => b.layer < layer
        /\ b.copied.stream = "store" /\ b.copied.after \in 1..given["store"]
        /\ IF b.copied.after > Done("store")
           THEN LET o == queue["store"][b.copied.after - Done("store")] IN
                o.do = "copy" /\ o.slot = b.slot /\ o.layer = b.layer
           ELSE Final(b.slot, b.layer) /\ host[b.slot][b.layer] = pages[b.slot][b.layer]
    BY DEF RInv, Saved
  <2> QED BY <1>1, <2>1
<1> QED BY <1>2, <1>3 DEF Saved

\* The load stream's steps keep the invariant.
LEMMA LoadKeeps ==
  ASSUME DInv, RInv, Run("load")
  PROVE  RInv'
<1>1. "load" \in Streams /\ "serving" \in Streams /\ "store" \in Streams
  BY DEF Streams
<1>2. /\ Serving' = Serving /\ queue'["store"] = queue["store"] /\ Done("store")' = Done("store")
      /\ UNCHANGED <<pc, step, plan, save, failed, turn, layer, loadStream, loaded, given,
                     batches, published>>
  BY <1>1, RunFacts DEF Serving
<1>3. /\ loadStream /\ given["load"] >= Done("load") + 1 /\ DOMAIN staging' = Buffers
      /\ \A b \in Buffers : b # queue["load"][1].layer % 2 => staging'[b] = staging[b]
      /\ pages' = pages /\ stored' = stored /\ host' = host
  BY LoadBuffers
<1>4. StepOrder' /\ OldPages' /\ Pending' /\ Coming'
  BY <1>2, <1>3, PagesStill
<1>5. STypes'
  BY <1>2, <1>3 DEF RInv, STypes
<1>6. Saved'
  BY <1>2, <1>3, SavedStill
<1>7. ASSUME NEW k \in 1..Len(Serving'), NEW o, o = Serving'[k]
      PROVE  /\ o.do = "fill" => ~loadStream'
             /\ o.do # "blend" => o.wait = NoEvent
             /\ o.wait.stream # "store"
             /\ o.do = "blend" => SupplyAt(k, o.slot, o.layer, o.wait)'
             /\ o.do = "scatter" =>
                  IF k = 1 THEN Holds(o.slot, o.layer, "blended")'
                  ELSE /\ Serving'[k - 1].do = "blend" /\ Serving'[k - 1].slot = o.slot
                       /\ Serving'[k - 1].layer = o.layer
  <2>1. k \in 1..Len(Serving) /\ o = Serving[k] /\ Len(Serving) \in Nat
    BY <1>1, <1>2, <1>7, QueueTypes DEF Serving, DInv
  <2>2. /\ o.do = "fill" => ~loadStream
        /\ o.do # "blend" => o.wait = NoEvent
        /\ o.wait.stream # "store"
        /\ o.do = "blend" => SupplyAt(k, o.slot, o.layer, o.wait)
        /\ o.do = "scatter" =>
             IF k = 1 THEN Holds(o.slot, o.layer, "blended")
             ELSE /\ Serving[k - 1].do = "blend" /\ Serving[k - 1].slot = o.slot
                  /\ Serving[k - 1].layer = o.layer
    BY <2>1 DEF RInv, Supplied
  <2>3. o.layer \in Layers /\ o.wait.after \in Nat
    BY <1>1, <2>1, QueueTypes DEF Shaped, Serving, DInv
  <2>4. o.do = "blend" => SupplyAt(k, o.slot, o.layer, o.wait)'
    <3>1. k \in 1..(Len(Serving) + 1)
      BY <2>1
    <3> QED BY <2>1, <2>2, <2>3, <3>1, LoadShift
  <2>5. ASSUME o.do = "scatter", k = 1
        PROVE  Holds(o.slot, o.layer, "blended")'
    <3>1. queue["load"][1].layer % 2 # o.layer % 2
      <4> SUFFICES ASSUME queue["load"][1].layer % 2 = o.layer % 2
                   PROVE  FALSE
        OBVIOUS
      <4>1. Touches(Serving[1], queue["load"][1].layer % 2)
        BY <2>1, <2>5 DEF Touches
      <4>2. PICK h \in 1..1 : Serving[h].wait.stream = "load"
        BY <2>1, <2>5, <4>1, LoadTouches
      <4>3. o.wait.stream = "load"
        BY <2>1, <2>5, <4>2
      <4> QED BY <2>2, <2>5, <4>3 DEF NoEvent, Event
    <3> QED BY <1>3, <2>2, <2>3, <2>5, <3>1, LayerParity DEF Holds
  <2> QED BY <1>2, <2>1, <2>2, <2>4, <2>5
<1>8. \A b \in Buffers : loaded'[b].stream # "store" /\ (~loadStream' => loaded'[b] = NoEvent)
  BY <1>2 DEF RInv, Supplied
<1>9. PICK k, i, l, w : k = Len(Serving) + 1 /\ i = turn /\ l = layer /\ w = loaded[layer % 2]
  OBVIOUS
<1>10. pc = "layer" => SupplyAt(k, i, l, w)'
  <2>1. pc = "layer" => SupplyAt(k, i, l, w)
    BY <1>9 DEF RInv, Supplied
  <2>2. l \in Layers /\ k \in 1..(Len(Serving) + 1) /\ Len(Serving) \in Nat
    BY <1>1, <1>9, QueueTypes DEF Serving, DInv, DTypes
  <2>3. w.after \in Nat
    <3>1. layer % 2 \in Buffers
      BY <1>9, <2>2, LayerParity
    <3> QED BY <1>9, <3>1 DEF DInv, DTypes, Events
  <2>4. pc = "layer" => w.after >= given["load"]
    BY <1>3, <1>9 DEF DInv, LoaderEvents
  <2> QED BY <2>1, <2>2, <2>3, <2>4, LoadShift
<1>11. (pc = "layer" => SupplyAt(Len(Serving) + 1, turn, layer, loaded[layer % 2]))'
  <2>1. Len(Serving') + 1 = k /\ turn' = i /\ layer' = l /\ loaded'[layer' % 2] = w /\ pc' = pc
    BY <1>2, <1>9
  <2> QED BY <1>10, <2>1
<1>12. Supplied'
  BY <1>7, <1>8, <1>11 DEF Supplied
<1> QED BY <1>4, <1>5, <1>6, <1>12 DEF RInv

-----------------------------------------------------------------------------
(* The store stream                                                        *)

\* A gather that is ready finds its pages completed in this step.
LEMMA GatherFinal ==
  ASSUME DInv, RInv, Run("store"), queue["store"][1].do = "gather"
  PROVE  Final(queue["store"][1].slot, queue["store"][1].layer)
<1>1. "store" \in Streams /\ "serving" \in Streams
  BY DEF Streams
<1>2. PICK o, i, l, n, k : /\ o = queue["store"][1] /\ i = o.slot /\ l = o.layer /\ n = step
                           /\ k = Len(Serving) + 1
  OBVIOUS
<1>3. /\ 1 \in 1..Len(queue["store"]) /\ Happened(o.wait) /\ Shaped(o, "store")
      /\ Len(Serving) \in Nat
  BY <1>1, <1>2, RunFacts, QueueTypes DEF Serving, DInv
<1>4. i \in Slots /\ l \in Layers
  BY <1>2, <1>3 DEF RInv, Saved, Shaped
<1>5. pc \in {"forward", "wait"} /\ (pc = "forward" => l < layer)
  <2>1. Len(<<>>) = 0
    BY OneOperation
  <2>2. queue["store"] # <<>>
    BY <1>3, <2>1
  <2> QED BY <1>2, <1>3, <2>2 DEF DInv, StoreBehind, DTypes
<1>6. Complete(k, i, l, n)
  <2>1. CASE pc = "forward"
    BY <1>2, <1>4, <1>5, <2>1 DEF RInv, Coming, ForwardAt
  <2>2. CASE pc = "wait"
    BY <1>2, <1>4, <2>2 DEF RInv, Coming
  <2> QED BY <1>5, <2>1, <2>2
<1>7. ASSUME NEW j \in 1..(k - 1), Completes(Serving[j], l, n)
      PROVE  FALSE
  <2>1. j \in 1..Len(queue["serving"]) /\ j \in 1..Len(Serving)
    BY <1>2, <1>3 DEF Serving
  <2>2. Meet(queue["serving"][j], queue["store"][1])
    <3> DEFINE x == <<"pages", i, l>>
    <3>1. x \in Writes(queue["serving"][j])
      BY <1>4, <1>7 DEF Completes, Writes, Serving
    <3>2. x \in Uses(queue["store"][1])
      BY <1>2 DEF Uses
    <3> QED BY <3>1, <3>2 DEF Meet
  <2>3. ~Behind("store", 1, "serving", j)
    BY <1>1, <1>2, <1>3, <2>1, ReadyFirst
  <2>4. Behind("serving", j, "store", 1)
    BY <1>3, <2>1, <2>2, <2>3 DEF DInv, Ordered
  <2>5. PICK h \in 1..j : Serving[h].wait.stream = "store"
    BY <2>4 DEF Behind, Serving
  <2>6. h \in 1..Len(Serving)
    BY <1>3, <2>1
  <2> QED BY <2>5, <2>6 DEF RInv, Supplied
<1>8. pages[i][l][1] = n /\ pages[i][l][2] \in Ends
  BY <1>6, <1>7 DEF Complete
<1> QED BY <1>2, <1>8 DEF Final

\* Nothing changes for the loader when its streams and buffers rest.
LEMMA SupplyStill ==
  ASSUME RInv, Serving' = Serving, queue'["load"] = queue["load"], Done("load")' = Done("load"),
         UNCHANGED <<loadStream, loaded, staging, given>>,
         pc' # "layer" \/ UNCHANGED <<pc, turn, layer>>
  PROVE  Supplied'
<1>1. ASSUME NEW k, NEW i, NEW l, NEW w, SupplyAt(k, i, l, w)
      PROVE  SupplyAt(k, i, l, w)'
  BY <1>1 DEF SupplyAt, Fills, Touches, Holds
<1>2. ASSUME NEW k \in 1..Len(Serving'), NEW o, o = Serving'[k]
      PROVE  /\ o.do = "fill" => ~loadStream'
             /\ o.do # "blend" => o.wait = NoEvent
             /\ o.wait.stream # "store"
             /\ o.do = "blend" => SupplyAt(k, o.slot, o.layer, o.wait)'
             /\ o.do = "scatter" =>
                  IF k = 1 THEN Holds(o.slot, o.layer, "blended")'
                  ELSE /\ Serving'[k - 1].do = "blend" /\ Serving'[k - 1].slot = o.slot
                       /\ Serving'[k - 1].layer = o.layer
  <2>1. k \in 1..Len(Serving) /\ o = Serving[k]
    BY <1>2
  <2>2. /\ o.do = "fill" => ~loadStream
        /\ o.do # "blend" => o.wait = NoEvent
        /\ o.wait.stream # "store"
        /\ o.do = "blend" => SupplyAt(k, o.slot, o.layer, o.wait)
        /\ o.do = "scatter" =>
             IF k = 1 THEN Holds(o.slot, o.layer, "blended")
             ELSE /\ Serving[k - 1].do = "blend" /\ Serving[k - 1].slot = o.slot
                  /\ Serving[k - 1].layer = o.layer
    BY <2>1 DEF RInv, Supplied
  <2>3. Holds(o.slot, o.layer, "blended") => Holds(o.slot, o.layer, "blended")'
    BY <1>2 DEF Holds
  <2> QED BY <1>1, <2>2, <2>3
<1>3. \A b \in Buffers : loaded'[b].stream # "store" /\ (~loadStream' => loaded'[b] = NoEvent)
  BY DEF RInv, Supplied
<1>4. PICK k, i, l, w : k = Len(Serving) + 1 /\ i = turn /\ l = layer /\ w = loaded[layer % 2]
  OBVIOUS
<1>5. pc = "layer" => SupplyAt(k, i, l, w)'
  BY <1>1, <1>4 DEF RInv, Supplied
<1>6. (pc = "layer" => SupplyAt(Len(Serving) + 1, turn, layer, loaded[layer % 2]))'
  <2>1. ASSUME pc' = "layer"
        PROVE  /\ Len(Serving') + 1 = k /\ turn' = i /\ layer' = l
               /\ loaded'[layer' % 2] = w /\ pc' = pc
    BY <1>4, <2>1
  <2> QED BY <1>5, <2>1
<1> QED BY <1>2, <1>3, <1>6 DEF Supplied

\* What gather and copy do to the staging and the host batches.
LEMMA StoreBuffers ==
  ASSUME DInv, RInv, Run("store"), NEW o, o = queue["store"][1]
  PROVE  /\ o.do \in {"gather", "copy"} /\ o.slot \in Slots /\ o.layer \in Layers
         /\ pages' = pages /\ staging' = staging
         /\ stored' \in [Slots -> (Layers \X Contents) \cup {None}]
         /\ host' \in [Slots -> [Layers -> Contents \cup {None}]]
         /\ o.do = "gather" => stored'[o.slot] = <<o.layer, pages[o.slot][o.layer]>>
         /\ o.do = "copy" => /\ host'[o.slot][o.layer] = pages[o.slot][o.layer]
                             /\ Final(o.slot, o.layer)
         /\ \A i \in Slots, l \in Layers :
              ~(o.do = "copy" /\ i = o.slot /\ l = o.layer) => host'[i][l] = host[i][l]
<1>1. /\ 1 \in 1..Len(queue["store"]) /\ Head(queue["store"]) = o /\ Shaped(o, "store")
  <2>1. "store" \in Streams
    BY DEF Streams
  <2> QED BY <2>1, RunFacts
<1>2. /\ o.do \in {"gather", "copy"} /\ o.slot \in Slots /\ o.layer \in Layers
      /\ pages \in [Slots -> [Layers -> Contents]]
      /\ stored \in [Slots -> (Layers \X Contents) \cup {None}]
      /\ host \in [Slots -> [Layers -> Contents \cup {None}]]
  BY <1>1 DEF Shaped, Kinds, RInv, Saved, STypes
<1>3. pages[o.slot][o.layer] \in Contents
  BY <1>2
<1>4. CASE o.do = "gather"
  <2>1. /\ stored' = [stored EXCEPT ![o.slot] = <<o.layer, pages[o.slot][o.layer]>>]
        /\ UNCHANGED <<staging, pages, host>>
    BY <1>1, <1>4 DEF Run, DoGather
  <2>2. <<o.layer, pages[o.slot][o.layer]>> \in Layers \X Contents
    BY <1>2, <1>3
  <2> QED BY <1>2, <1>4, <2>1, <2>2
<1>5. CASE o.do = "copy"
  <2>1. stored[o.slot] = <<o.layer, pages[o.slot][o.layer]>> /\ Final(o.slot, o.layer)
    BY <1>1, <1>5 DEF RInv, Saved
  <2>2. stored[o.slot] # None
    <3>1. stored[o.slot] \in Layers \X (Nat \X {"full", "void", "blend", "bad"})
      <4>1. pages[o.slot][o.layer] \in Nat \X {"full", "void", "blend", "bad"}
        BY <1>3, BoundAssumption DEF Contents
      <4> QED BY <1>2, <2>1, <4>1
    <3> QED BY <3>1, NoneAssumption
  <2>3. /\ host' = [host EXCEPT ![o.slot][o.layer] = pages[o.slot][o.layer]]
        /\ UNCHANGED <<staging, pages, stored>>
    <3>1. DoCopy(o)
      BY <1>1, <1>5 DEF Run
    <3>2. stored[o.slot][1] = o.layer /\ stored[o.slot][2] = pages[o.slot][o.layer]
      BY <2>1
    <3> QED BY <2>2, <3>1, <3>2 DEF DoCopy
  <2> QED BY <1>2, <1>3, <1>5, <2>1, <2>3
<1> QED BY <1>2, <1>4, <1>5

\* The store stream's steps keep the invariant.
LEMMA StoreKeeps ==
  ASSUME DInv, RInv, Run("store")
  PROVE  RInv'
<1>1. "load" \in Streams /\ "serving" \in Streams /\ "store" \in Streams
  BY DEF Streams
<1>2. PICK o, d : o = queue["store"][1] /\ d = Done("store")
  OBVIOUS
<1>3. /\ Serving' = Serving /\ queue'["load"] = queue["load"] /\ Done("load")' = Done("load")
      /\ UNCHANGED <<pc, step, plan, save, failed, turn, layer, loadStream, loaded, given,
                     batches, published>>
      /\ 1 \in 1..Len(queue["store"]) /\ Len(queue["store"]) \in Nat
      /\ Len(queue'["store"]) = Len(queue["store"]) - 1 /\ d \in Nat /\ Done("store")' = d + 1
      /\ \A i \in 1..(Len(queue["store"]) - 1) : queue'["store"][i] = queue["store"][i + 1]
      /\ d + Len(queue["store"]) = given["store"] /\ DTypes
  <2>1. DTypes
    BY DEF DInv
  <2>2. Done("store") + Len(queue["store"]) = given["store"]
    BY <1>1, <2>1, QueueTypes
  <2> QED BY <1>1, <1>2, <2>1, <2>2, RunFacts DEF Serving
<1>4. /\ o.do \in {"gather", "copy"} /\ o.slot \in Slots /\ o.layer \in Layers
      /\ pages' = pages /\ staging' = staging
      /\ stored' \in [Slots -> (Layers \X Contents) \cup {None}]
      /\ host' \in [Slots -> [Layers -> Contents \cup {None}]]
      /\ o.do = "gather" => stored'[o.slot] = <<o.layer, pages[o.slot][o.layer]>>
      /\ o.do = "copy" => /\ host'[o.slot][o.layer] = pages[o.slot][o.layer]
                          /\ Final(o.slot, o.layer)
      /\ \A i \in Slots, l \in Layers :
           ~(o.do = "copy" /\ i = o.slot /\ l = o.layer) => host'[i][l] = host[i][l]
  BY <1>2, StoreBuffers
<1>5. StepOrder' /\ OldPages' /\ Pending' /\ Coming'
  BY <1>3, <1>4, PagesStill
<1>6. STypes'
  BY <1>3, <1>4 DEF RInv, STypes
<1>7. Supplied'
  BY <1>3, <1>4, SupplyStill
<1>8. ASSUME NEW i, NEW l
      PROVE  Final(i, l)' <=> Final(i, l)
  BY <1>3, <1>4 DEF Final
<1>9. ASSUME NEW m \in 1..Len(queue'["store"]), NEW q, q = queue'["store"][m]
      PROVE  /\ q.slot \in Slots
             /\ q.do = "copy" =>
                  IF m = 1 THEN /\ Final(q.slot, q.layer)'
                                /\ stored'[q.slot] = <<q.layer, pages'[q.slot][q.layer]>>
                  ELSE LET p == queue'["store"][m - 1] IN
                       p.do = "gather" /\ p.slot = q.slot /\ p.layer = q.layer
  <2>1. /\ m + 1 \in 1..Len(queue["store"]) /\ q = queue["store"][m + 1] /\ m + 1 # 1
        /\ (m + 1) - 1 = m
    BY <1>3, <1>9
  <2>2. /\ q.slot \in Slots
        /\ q.do = "copy" => LET p == queue["store"][m] IN
                            p.do = "gather" /\ p.slot = q.slot /\ p.layer = q.layer
    BY <2>1 DEF RInv, Saved
  <2>3. CASE m = 1
    <3>1. q.do = "copy" => o.do = "gather" /\ o.slot = q.slot /\ o.layer = q.layer
      BY <1>2, <2>2, <2>3
    <3>2. q.do = "copy" => Final(q.slot, q.layer)
      BY <1>2, <3>1, GatherFinal
    <3> QED BY <1>4, <1>8, <2>2, <2>3, <3>1, <3>2
  <2>4. CASE m # 1
    <3>1. m - 1 \in 1..(Len(queue["store"]) - 1) /\ (m - 1) + 1 = m
      BY <1>3, <2>4
    <3>2. queue'["store"][m - 1] = queue["store"][m]
      BY <1>3, <3>1
    <3> QED BY <2>2, <2>4, <3>2
  <2> QED BY <2>3, <2>4
<1>10. ASSUME NEW b \in batches'
       PROVE  /\ b.slot \in Slots /\ b.layer \in Layers /\ pc' \in {"forward", "wait"}
              /\ pc' = "forward" => b.layer < layer'
              /\ b.copied.stream = "store" /\ b.copied.after \in 1..given'["store"]
              /\ IF b.copied.after > Done("store")'
                 THEN LET q == queue'["store"][b.copied.after - Done("store")'] IN
                      q.do = "copy" /\ q.slot = b.slot /\ q.layer = b.layer
                 ELSE Final(b.slot, b.layer)' /\ host'[b.slot][b.layer] = pages'[b.slot][b.layer]
  <2>1. /\ b.slot \in Slots /\ b.layer \in Layers /\ pc \in {"forward", "wait"}
        /\ pc = "forward" => b.layer < layer
        /\ b.copied.stream = "store" /\ b.copied.after \in 1..given["store"]
        /\ IF b.copied.after > d
           THEN LET q == queue["store"][b.copied.after - d] IN
                q.do = "copy" /\ q.slot = b.slot /\ q.layer = b.layer
           ELSE Final(b.slot, b.layer) /\ host[b.slot][b.layer] = pages[b.slot][b.layer]
    BY <1>2, <1>3 DEF RInv, Saved
  <2>2. CASE b.copied.after > d + 1
    <3>1. /\ b.copied.after - (d + 1) \in 1..(Len(queue["store"]) - 1)
          /\ (b.copied.after - (d + 1)) + 1 = b.copied.after - d
          /\ b.copied.after > d
      BY <1>3, <2>1, <2>2
    <3>2. queue'["store"][b.copied.after - (d + 1)] = queue["store"][b.copied.after - d]
      BY <1>3, <3>1
    <3> QED BY <1>3, <2>1, <2>2, <3>1, <3>2
  <2>3. CASE b.copied.after = d + 1
    <3>1. b.copied.after > d /\ b.copied.after - d = 1 /\ ~(b.copied.after > d + 1)
      BY <1>3, <2>3
    <3>2. o.do = "copy" /\ o.slot = b.slot /\ o.layer = b.layer
      BY <1>2, <2>1, <3>1
    <3> QED BY <1>3, <1>4, <1>8, <2>1, <3>1, <3>2
  <2>4. CASE b.copied.after <= d
    <3>1. ~(b.copied.after > d) /\ ~(b.copied.after > d + 1)
      BY <1>3, <2>1, <2>4
    <3>2. host'[b.slot][b.layer] = pages[b.slot][b.layer]
      <4>1. CASE o.do = "copy" /\ b.slot = o.slot /\ b.layer = o.layer
        BY <1>4, <4>1
      <4>2. CASE ~(o.do = "copy" /\ b.slot = o.slot /\ b.layer = o.layer)
        BY <1>4, <2>1, <3>1, <4>2
      <4> QED BY <4>1, <4>2
    <3> QED BY <1>3, <1>4, <1>8, <2>1, <3>1, <3>2
  <2>5. \/ b.copied.after > d + 1 \/ b.copied.after = d + 1 \/ b.copied.after <= d
    BY <1>3, <2>1
  <2> QED BY <2>2, <2>3, <2>4, <2>5
<1>11. Saved'
  BY <1>9, <1>10 DEF Saved
<1> QED BY <1>5, <1>6, <1>7, <1>11 DEF RInv

-----------------------------------------------------------------------------
(* The runner gives operations                                             *)

\* What is true of the operation at place k of the serving stream.
FoundAt(k) ==
  LET o == Serving[k] IN
  /\ o.do # "forward" => o.slot \in Slots
  /\ o.step \in 1..step
  /\ \A i \in Slots, l \in Layers : pages[i][l][1] <= o.step
  /\ \A j \in 1..k : Serving[j].step <= o.step
  /\ o.do = "scatter" => ScatterAt(k, o.step, o.slot, o.layer)
  /\ o.do = "forward" => ForwardAt(k, o.step, o.layer, o.plan, o.void)
  /\ o.do = "fill" => ~loadStream
  /\ o.do # "blend" => o.wait = NoEvent
  /\ o.wait.stream # "store"
  /\ o.do = "blend" => SupplyAt(k, o.slot, o.layer, o.wait)
  /\ o.do = "scatter" =>
       IF k = 1 THEN Holds(o.slot, o.layer, "blended")
       ELSE /\ Serving[k - 1].do = "blend" /\ Serving[k - 1].slot = o.slot
            /\ Serving[k - 1].layer = o.layer

\* The queues grow and the memory stays.
Grows == Longer /\ UNCHANGED <<pages, staging, stored, host, loadStream>>

\* Queues that grow, in the terms of this part.
LEMMA GrowsFacts ==
  ASSUME DInv, Grows
  PROVE  /\ Len(Serving) \in Nat /\ Len(Serving') \in Nat /\ Len(Serving') >= Len(Serving)
         /\ Len(queue["load"]) \in Nat /\ Done("load") \in Nat /\ Done("load")' = Done("load")
         /\ Done("load") + Len(queue["load"]) = given["load"]
         /\ given["load"] \in Nat /\ given'["load"] \in Nat /\ given'["load"] >= given["load"]
         /\ \A j \in 1..Len(Serving) : Serving'[j] = Serving[j]
         /\ \A j \in 1..Len(queue["load"]) : queue'["load"][j] = queue["load"][j]
         /\ \A j \in 1..Len(Serving) : Serving[j].wait.after \in Nat /\ Serving[j].layer \in Layers
<1>1. "serving" \in Streams /\ "load" \in Streams /\ DTypes
  BY DEF Streams, DInv
<1>2. /\ Len(queue["serving"]) \in Nat /\ Len(queue["load"]) \in Nat /\ Done("load") \in Nat
      /\ Done("load") + Len(queue["load"]) = given["load"] /\ given["load"] \in Nat
      /\ \A j \in 1..Len(queue["serving"]) : /\ queue["serving"][j].wait.after \in Nat
                                             /\ Shaped(queue["serving"][j], "serving")
  BY <1>1, QueueTypes
<1>3. /\ Len(queue'["serving"]) \in Nat /\ Len(queue'["serving"]) >= Len(queue["serving"])
      /\ \A j \in 1..Len(queue["serving"]) : queue'["serving"][j] = queue["serving"][j]
      /\ Done("load")' = Done("load") /\ Len(queue'["load"]) \in Nat
      /\ Len(queue'["load"]) >= Len(queue["load"])
      /\ Done("load") + Len(queue'["load"]) = given'["load"]
      /\ \A j \in 1..Len(queue["load"]) : queue'["load"][j] = queue["load"][j]
  BY <1>1 DEF Grows, Longer
<1>4. given'["load"] >= given["load"] /\ given'["load"] \in Nat
  BY <1>2, <1>3
<1> QED BY <1>2, <1>3, <1>4 DEF Serving, Shaped

\* What the operations that come find, after more of them.
LEMMA Grown ==
  ASSUME DInv, Grows, NEW k \in 1..(Len(Serving) + 1), NEW g \in k..(Len(Serving') + 1),
         g = k \/ k = Len(Serving) + 1,
         NEW i \in Slots, NEW l \in Layers, NEW n
  PROVE  /\ Blended(k, i, l, n) => Blended(g, i, l, n)'
         /\ Complete(k, i, l, n) => Complete(g, i, l, n)'
         /\ Fresh(k, i, l, n) /\ (\A j \in k..(g - 1) : ~Scatters(Serving'[j], i, l, n))
              => Fresh(g, i, l, n)'
         /\ Open(k, i, l, n) /\ (\A j \in k..(g - 1) : ~Completes(Serving'[j], l, n))
              => Open(g, i, l, n)'
         /\ (\E j \in 1..(g - 1) : Scatters(Serving'[j], i, l, n)) => Blended(g, i, l, n)'
         /\ (\E j \in 1..(g - 1) : Completes(Serving'[j], l, n)) => Complete(g, i, l, n)'
<1>1. /\ Len(Serving) \in Nat /\ Len(Serving') \in Nat /\ pages' = pages
      /\ \A j \in 1..Len(Serving) : Serving'[j] = Serving[j]
  BY GrowsFacts DEF Grows
<1>2. \A j \in 1..(k - 1) : j \in 1..(g - 1) /\ Serving'[j] = Serving[j]
  <2> TAKE j \in 1..(k - 1)
  <2>1. j \in 1..Len(Serving) /\ j \in 1..(g - 1)
    BY <1>1
  <2> QED BY <1>1, <2>1
<1>3. \A j \in 1..(g - 1) : j \in 1..(k - 1) \/ j \in k..(g - 1)
  BY <1>1
<1>4. Blended(k, i, l, n) => Blended(g, i, l, n)'
  BY <1>1, <1>2 DEF Blended, Scatters
<1>5. Complete(k, i, l, n) => Complete(g, i, l, n)'
  BY <1>1, <1>2 DEF Complete, Completes
<1>6. ASSUME Fresh(k, i, l, n), \A j \in k..(g - 1) : ~Scatters(Serving'[j], i, l, n)
      PROVE  Fresh(g, i, l, n)'
  <2>1. \A j \in 1..(g - 1) : ~Scatters(Serving'[j], i, l, n)
    BY <1>2, <1>3, <1>6 DEF Fresh
  <2> QED BY <1>1, <1>6, <2>1 DEF Fresh, Scatters
<1>7. ASSUME Open(k, i, l, n), \A j \in k..(g - 1) : ~Completes(Serving'[j], l, n)
      PROVE  Open(g, i, l, n)'
  <2>1. \A j \in 1..(g - 1) : ~Completes(Serving'[j], l, n)
    BY <1>2, <1>3, <1>7 DEF Open
  <2> QED BY <1>1, <1>7, <2>1 DEF Open, Completes
<1>8. (\E j \in 1..(g - 1) : Scatters(Serving'[j], i, l, n)) => Blended(g, i, l, n)'
  BY DEF Blended, Scatters
<1>9. (\E j \in 1..(g - 1) : Completes(Serving'[j], l, n)) => Complete(g, i, l, n)'
  BY DEF Complete, Completes
<1> QED BY <1>4, <1>5, <1>6, <1>7, <1>8, <1>9

\* A blend at an old place, or at the end, still finds its layer.
LEMMA SupplyGrown ==
  ASSUME DInv, Grows, NEW k \in 1..(Len(Serving) + 1), NEW g \in k..(Len(Serving') + 1),
         NEW i, NEW l \in Layers, NEW w, w.after \in Nat, SupplyAt(k, i, l, w),
         \A j \in k..(g - 1) : /\ ~Touches(Serving'[j], l % 2)
                               /\ Serving'[j].wait.stream # "load"
  PROVE  SupplyAt(g, i, l, w)'
<1>1. /\ Len(Serving) \in Nat /\ Len(Serving') \in Nat /\ staging' = staging
      /\ loadStream' = loadStream
      /\ \A j \in 1..Len(Serving) : Serving'[j] = Serving[j]
      /\ Len(queue["load"]) \in Nat /\ Done("load") \in Nat /\ Done("load")' = Done("load")
      /\ Done("load") + Len(queue["load"]) = given["load"]
      /\ given["load"] \in Nat /\ given'["load"] \in Nat /\ given'["load"] >= given["load"]
      /\ \A j \in 1..Len(queue["load"]) : queue'["load"][j] = queue["load"][j]
  BY GrowsFacts DEF Grows
<1>2. \A j \in 1..(k - 1) : j \in 1..(g - 1) /\ Serving'[j] = Serving[j]
  <2> TAKE j \in 1..(k - 1)
  <2>1. j \in 1..Len(Serving) /\ j \in 1..(g - 1)
    BY <1>1
  <2> QED BY <1>1, <2>1
<1>3. \A j \in 1..(g - 1) : j \in 1..(k - 1) \/ j \in k..(g - 1)
  BY <1>1
<1>4. PICK b : b = l % 2
  OBVIOUS
<1>5. ASSUME \A j \in 1..(k - 1) : ~Touches(Serving[j], b), Holds(i, l, "loaded")
      PROVE  (\A j \in 1..(g - 1) : ~Touches(Serving'[j], b)) /\ Holds(i, l, "loaded")'
  BY <1>1, <1>2, <1>3, <1>4, <1>5 DEF Holds
<1>6. CASE loadStream
  <2>1. /\ w.stream = "load" /\ w.after >= 1 /\ w.after <= given["load"]
        /\ \A j \in 1..(k - 1) : Serving[j].wait.stream = "load" => Serving[j].wait.after < w.after
        /\ IF w.after > Done("load") THEN Fills(queue["load"][w.after - Done("load")], i, l)
           ELSE /\ \A j \in 1..(k - 1) : ~Touches(Serving[j], b)
                /\ Holds(i, l, "loaded")
    BY <1>4, <1>6 DEF SupplyAt
  <2>2. \A j \in 1..(g - 1) : Serving'[j].wait.stream = "load" => Serving'[j].wait.after < w.after
    BY <1>2, <1>3, <2>1
  <2>3. w.after <= given'["load"]
    BY <1>1, <2>1
  <2>4. w.after > Done("load") => queue'["load"][w.after - Done("load")] = queue["load"][w.after - Done("load")]
    <3>1. w.after > Done("load") => w.after - Done("load") \in 1..Len(queue["load"])
      <4>1. PICK d, m : d = Done("load") /\ m = Len(queue["load"])
        OBVIOUS
      <4>2. d \in Nat /\ m \in Nat /\ w.after <= d + m /\ w.after \in Nat
        BY <1>1, <2>1, <4>1
      <4> QED BY <4>1, <4>2
    <3> QED BY <1>1, <3>1
  <2>5. IF w.after > Done("load")' THEN Fills(queue'["load"][w.after - Done("load")'], i, l)
        ELSE /\ \A j \in 1..(g - 1) : ~Touches(Serving'[j], b)
             /\ Holds(i, l, "loaded")'
    BY <1>1, <1>5, <2>1, <2>4
  <2> QED BY <1>1, <1>4, <1>6, <2>1, <2>2, <2>3, <2>5 DEF SupplyAt, Fills, Touches
<1>7. CASE ~loadStream
  <2>1. CASE (\A j \in 1..(k - 1) : ~Touches(Serving[j], b)) /\ Holds(i, l, "loaded")
    <3>1. (\A j \in 1..(g - 1) : ~Touches(Serving'[j], b)) /\ Holds(i, l, "loaded")'
      BY <1>5, <2>1
    <3> QED BY <1>1, <1>4, <1>7, <3>1 DEF SupplyAt, Touches
  <2>2. ASSUME NEW j \in 1..(k - 1), Fills(Serving[j], i, l),
               \A h \in (j + 1)..(k - 1) : ~Touches(Serving[h], b)
        PROVE  SupplyAt(g, i, l, w)'
    <3>1. j \in 1..(g - 1) /\ Fills(Serving'[j], i, l)
      BY <1>2, <2>2
    <3>2. \A h \in (j + 1)..(g - 1) : h \in 1..(g - 1) /\ (h \in 1..(k - 1) => h \in (j + 1)..(k - 1))
      BY <1>1
    <3>3. \A h \in (j + 1)..(g - 1) : ~Touches(Serving'[h], b)
      BY <1>2, <1>3, <1>4, <2>2, <3>2
    <3> QED BY <1>1, <1>4, <1>7, <3>1, <3>3 DEF SupplyAt, Fills, Touches
  <2> QED BY <1>4, <1>7, <2>1, <2>2 DEF SupplyAt
<1> QED BY <1>6, <1>7

\* What is in the queue finds what it found.
LEMMA FoundStays ==
  ASSUME DInv, RInv, Grows, step' = step, NEW k \in 1..Len(Serving)
  PROVE  FoundAt(k)'
<1>1. /\ Len(Serving) \in Nat /\ Len(Serving') \in Nat /\ Len(Serving') >= Len(Serving)
      /\ pages' = pages /\ staging' = staging /\ loadStream' = loadStream
      /\ \A j \in 1..Len(Serving) : /\ Serving'[j] = Serving[j] /\ Serving[j].wait.after \in Nat
                                    /\ Serving[j].layer \in Layers
  BY GrowsFacts DEF Grows
<1>2. PICK o : o = Serving[k]
  OBVIOUS
<1>3. /\ o = Serving'[k] /\ o.wait.after \in Nat /\ o.layer \in Layers
      /\ o.do # "forward" => o.slot \in Slots
      /\ o.step \in 1..step
      /\ \A i \in Slots, l \in Layers : pages[i][l][1] <= o.step
      /\ \A j \in 1..k : Serving[j].step <= o.step
      /\ o.do = "scatter" => ScatterAt(k, o.step, o.slot, o.layer)
      /\ o.do = "forward" => ForwardAt(k, o.step, o.layer, o.plan, o.void)
  BY <1>1, <1>2 DEF RInv, STypes, StepOrder, Pending
<1>4. /\ o.do = "fill" => ~loadStream
      /\ o.do # "blend" => o.wait = NoEvent
      /\ o.wait.stream # "store"
      /\ o.do = "blend" => SupplyAt(k, o.slot, o.layer, o.wait)
      /\ o.do = "scatter" =>
           IF k = 1 THEN Holds(o.slot, o.layer, "blended")
           ELSE /\ Serving[k - 1].do = "blend" /\ Serving[k - 1].slot = o.slot
                /\ Serving[k - 1].layer = o.layer
  BY <1>2 DEF RInv, Supplied
<1>5. \A j \in 1..k : j \in 1..Len(Serving) /\ Serving'[j] = Serving[j]
  <2>1. \A j \in 1..k : j \in 1..Len(Serving)
    BY <1>1
  <2> QED BY <1>1, <2>1
<1>6. /\ k \in 1..(Len(Serving) + 1) /\ k \in k..(Len(Serving') + 1)
      /\ \A j \in k..(k - 1) : FALSE
  BY <1>1
<1>7. ASSUME NEW i \in Slots, NEW m \in Layers
      PROVE  /\ Blended(k, i, m, o.step) => Blended(k, i, m, o.step)'
             /\ Complete(k, i, m, o.step) => Complete(k, i, m, o.step)'
             /\ Fresh(k, i, m, o.step) => Fresh(k, i, m, o.step)'
             /\ Open(k, i, m, o.step) => Open(k, i, m, o.step)'
  BY <1>6, Grown
<1>8. ASSUME o.do = "scatter"
      PROVE  ScatterAt(k, o.step, o.slot, o.layer)'
  <2>1. \A j \in 1..(k - 1) : j \in 1..k
    BY <1>1
  <2>2. \A j \in 1..(k - 1) : Serving'[j].do # "forward"
    BY <1>3, <1>5, <1>8, <2>1 DEF ScatterAt
  <2> QED BY <1>3, <1>7, <1>8, <2>2 DEF ScatterAt
<1>9. ASSUME o.do = "forward"
      PROVE  ForwardAt(k, o.step, o.layer, o.plan, o.void)'
  <2> SUFFICES ASSUME NEW i \in Slots, NEW m \in Layers
               PROVE  /\ m < o.layer => Complete(k, i, m, o.step)'
                      /\ m >= o.layer => Open(k, i, m, o.step)'
                      /\ m >= o.layer /\ i \in o.plan \ o.void => Blended(k, i, m, o.step)'
                      /\ m >= o.layer /\ i \notin o.plan => Fresh(k, i, m, o.step)'
    BY DEF ForwardAt
  <2> QED BY <1>3, <1>7, <1>9 DEF ForwardAt
<1>10. ASSUME o.do = "blend"
       PROVE  SupplyAt(k, o.slot, o.layer, o.wait)'
  BY <1>3, <1>4, <1>6, <1>10, SupplyGrown
<1>11. ASSUME o.do = "scatter"
       PROVE  IF k = 1 THEN Holds(o.slot, o.layer, "blended")'
              ELSE /\ Serving'[k - 1].do = "blend" /\ Serving'[k - 1].slot = o.slot
                   /\ Serving'[k - 1].layer = o.layer
  <2>1. CASE k = 1
    BY <1>1, <1>4, <1>11, <2>1 DEF Holds
  <2>2. CASE k # 1
    <3>1. k - 1 \in 1..k
      BY <1>1, <2>2
    <3> QED BY <1>4, <1>5, <1>11, <2>2, <3>1
  <2> QED BY <2>1, <2>2
<1> QED BY <1>1, <1>3, <1>4, <1>5, <1>8, <1>9, <1>10, <1>11 DEF FoundAt

\* It is enough that the operations given find what they should, and those to come.
LEMMA Extended ==
  ASSUME DInv, RInv, Grows, step' = step, pc # "idle",
         \A k \in (Len(Serving) + 1)..Len(Serving') : FoundAt(k)',
         plan' \subseteq Slots, failed' \subseteq Slots, turn' \in 1..(NumSlots + 1),
         pc' = "layer" => turn' \in plan', Coming', Saved',
         \A b \in Buffers : loaded'[b].stream # "store" /\ (~loadStream => loaded'[b] = NoEvent),
         (pc = "layer" => SupplyAt(Len(Serving) + 1, turn, layer, loaded[layer % 2]))'
  PROVE  RInv'
<1>1. /\ Len(Serving) \in Nat /\ Len(Serving') \in Nat
      /\ UNCHANGED <<pages, staging, stored, host, loadStream>>
  BY GrowsFacts DEF Grows
<1>2. ASSUME NEW k \in 1..Len(Serving')
      PROVE  FoundAt(k)'
  <2>1. k \in 1..Len(Serving) \/ k \in (Len(Serving) + 1)..Len(Serving')
    BY <1>1
  <2> QED BY <2>1, FoundStays
<1>3. STypes'
  <2>1. ASSUME NEW k \in 1..Len(Serving')
        PROVE  /\ Serving'[k].do # "forward" => Serving'[k].slot \in Slots
               /\ Serving'[k].step \in 1..step'
    BY <1>2 DEF FoundAt
  <2> QED BY <1>1, <2>1 DEF RInv, STypes
<1>4. StepOrder'
  <2>1. ASSUME NEW k \in 1..Len(Serving')
        PROVE  /\ \A i \in Slots, l \in Layers : pages'[i][l][1] <= Serving'[k].step
               /\ \A j \in 1..k : Serving'[j].step <= Serving'[k].step
    BY <1>2 DEF FoundAt
  <2> QED BY <2>1 DEF StepOrder
<1>5. OldPages'
  BY <1>1 DEF RInv, OldPages
<1>6. Pending'
  <2> SUFFICES ASSUME NEW k \in 1..Len(Serving'), NEW o, o = Serving'[k]
               PROVE  /\ o.do = "scatter" => ScatterAt(k, o.step, o.slot, o.layer)'
                      /\ o.do = "forward" => ForwardAt(k, o.step, o.layer, o.plan, o.void)'
    BY DEF Pending
  <2>1. FoundAt(k)'
    BY <1>2
  <2> QED BY <2>1 DEF FoundAt
<1>7. Supplied'
  <2>1. ASSUME NEW k \in 1..Len(Serving'), NEW o, o = Serving'[k]
        PROVE  /\ o.do = "fill" => ~loadStream'
               /\ o.do # "blend" => o.wait = NoEvent
               /\ o.wait.stream # "store"
               /\ o.do = "blend" => SupplyAt(k, o.slot, o.layer, o.wait)'
               /\ o.do = "scatter" =>
                    IF k = 1 THEN Holds(o.slot, o.layer, "blended")'
                    ELSE /\ Serving'[k - 1].do = "blend" /\ Serving'[k - 1].slot = o.slot
                         /\ Serving'[k - 1].layer = o.layer
    <3>1. FoundAt(k)'
      BY <1>2
    <3> QED BY <2>1, <3>1 DEF FoundAt
  <2>2. \A b \in Buffers : loaded'[b].stream # "store" /\ (~loadStream' => loaded'[b] = NoEvent)
    BY <1>1
  <2> QED BY <2>1, <2>2 DEF Supplied
<1> QED BY <1>3, <1>4, <1>5, <1>6, <1>7 DEF RInv

\* Between two forwards there is nothing to save.
LEMMA NothingSaved ==
  ASSUME DInv, RInv, pc \in {"idle", "load", "layer"}
  PROVE  batches = {} /\ queue["store"] = <<>>
<1>1. queue["store"] = <<>>
  BY DEF DInv, StoreBehind
<1>2. ASSUME NEW b \in batches
      PROVE  FALSE
  BY <1>2 DEF RInv, Saved
<1> QED BY <1>1, <1>2

\* An empty store queue and no batches are saved as they should be.
LEMMA SavedEmpty ==
  ASSUME queue'["store"] = <<>>, batches' = {}
  PROVE  Saved'
<1>1. 1..Len(<<>>) = {}
  <2>1. Len(<<>>) = 0
    BY OneOperation
  <2> QED BY <2>1
<1>2. 1..Len(queue'["store"]) = {}
  BY <1>1
<1> QED BY <1>2 DEF Saved

\* Publishing takes a batch away.
LEMMA PublishKeepsR ==
  ASSUME DInv, RInv, UNCHANGED <<runnerVars, loaderVars, streamVars, memoryVars>>,
         batches' \subseteq batches
  PROVE  RInv'
<1>1. /\ UNCHANGED <<pc, step, plan, save, failed, turn, layer, faults, loadStream, loaded, reuse,
                     queue, given, staging, pages, stored, host>>
  BY DEF runnerVars, loaderVars, streamVars, memoryVars
<1>2. Serving' = Serving /\ Done("load")' = Done("load") /\ Done("store")' = Done("store")
  BY <1>1 DEF Serving, Done
<1>3. StepOrder' /\ OldPages' /\ Pending' /\ Coming'
  BY <1>1, <1>2, PagesStill
<1>4. Supplied'
  BY <1>1, <1>2, SupplyStill
<1>5. Saved'
  BY <1>1, <1>2, SavedStill
<1>6. STypes'
  BY <1>1, <1>2 DEF RInv, STypes
<1> QED BY <1>3, <1>4, <1>5, <1>6 DEF RInv

\* Queues and memory as they were grow, too.
LEMMA StillGrows ==
  ASSUME DInv, UNCHANGED <<queue, given, pages, staging, stored, host, loadStream>>
  PROVE  Grows /\ Serving' = Serving
<1>1. ASSUME NEW s \in Streams
      PROVE  /\ Row(queue'[s]) /\ Len(queue'[s]) \in Nat /\ Len(queue'[s]) >= Len(queue[s])
             /\ Len(queue'[s]) <= given'[s]
             /\ Done(s)' = Done(s) /\ Done(s) + Len(queue'[s]) = given'[s]
             /\ \A i \in 1..Len(queue'[s]) : Shaped(queue'[s][i], s)
             /\ \A i \in 1..Len(queue[s]) : queue'[s][i] = queue[s][i]
  <2>1. /\ Row(queue[s]) /\ Len(queue[s]) \in Nat
        /\ Len(queue[s]) <= given[s] /\ Done(s) + Len(queue[s]) = given[s]
        /\ \A i \in 1..Len(queue[s]) : Shaped(queue[s][i], s)
    BY QueueTypes DEF DInv, DTypes
  <2>2. Done(s)' = Done(s)
    BY DEF Done
  <2> QED BY <2>1, <2>2
<1> QED BY <1>1 DEF Grows, Longer, Serving

\* A request without a plan is passed over.
LEMMA NoPlanKeepsR ==
  ASSUME DInv, RInv, NoPlan
  PROVE  RInv'
<1>1. /\ pc = "load" /\ turn \in Slots \ plan /\ turn' = turn + 1
      /\ UNCHANGED <<pc, step, plan, save, failed, layer, loadStream, loaded, queue, given,
                     staging, pages, stored, host, batches>>
  BY DEF NoPlan, loaderVars, streamVars, memoryVars, poolVars
<1>2. Grows /\ Serving' = Serving
  BY <1>1, StillGrows
<1>3. Len(Serving) \in Nat /\ plan \subseteq Slots /\ failed \subseteq Slots /\ turn \in 1..NumSlots
  BY <1>1, <1>2, GrowsFacts, SlotsAssumption DEF RInv, STypes, Slots
<1>4. Saved'
  BY <1>1, NothingSaved, SavedEmpty
<1>5. PICK k, n, t : k = Len(Serving) + 1 /\ n = step /\ t = turn
  OBVIOUS
<1>6. ASSUME NEW i \in Slots, NEW m \in Layers
      PROVE  /\ Open(k, i, m, n)'
             /\ i < t + 1 /\ i \in plan \ failed => Blended(k, i, m, n)'
             /\ i \notin plan \/ i > t + 1 \/ i = t + 1 => Fresh(k, i, m, n)'
  <2>1. /\ Open(k, i, m, n)
        /\ i < t /\ i \in plan \ failed => Blended(k, i, m, n)
        /\ i \notin plan \/ i > t \/ i = t => Fresh(k, i, m, n)
    BY <1>1, <1>5 DEF RInv, Coming
  <2>2. /\ Open(k, i, m, n) => Open(k, i, m, n)'
        /\ Blended(k, i, m, n) => Blended(k, i, m, n)'
        /\ Fresh(k, i, m, n) => Fresh(k, i, m, n)'
    <3>1. k \in 1..(Len(Serving) + 1) /\ k \in k..(Len(Serving') + 1) /\ \A j \in k..(k - 1) : FALSE
      BY <1>2, <1>3, <1>5
    <3> QED BY <1>2, <3>1, Grown
  <2>3. i \in Nat /\ t \in Nat /\ (i < t + 1 => i < t \/ i = t) /\ (i > t + 1 => i > t)
        /\ (i = t + 1 => i > t)
    BY <1>3, <1>5 DEF Slots
  <2>4. i = t => i \notin plan
    BY <1>1, <1>5
  <2> QED BY <2>1, <2>2, <2>3, <2>4
<1>7. Coming'
  <2>1. Len(Serving') + 1 = k /\ step' = n /\ turn' = t + 1 /\ pc' = "load"
    BY <1>1, <1>2, <1>5
  <2> QED BY <1>1, <1>6, <2>1 DEF Coming
<1>8. \A g \in (Len(Serving) + 1)..Len(Serving') : FALSE
  BY <1>2, <1>3
<1>9. turn' \in 1..(NumSlots + 1) /\ pc' = "load"
  BY <1>1, <1>3, SlotsAssumption
<1>10. \A b \in Buffers : loaded'[b].stream # "store" /\ (~loadStream => loaded'[b] = NoEvent)
  BY <1>1 DEF RInv, Supplied
<1> QED BY <1>1, <1>2, <1>3, <1>4, <1>7, <1>8, <1>9, <1>10, Extended

\* All requests have had their turn: the forward finds what it should.
LEMMA EndLoadKeepsR ==
  ASSUME DInv, RInv, EndLoad
  PROVE  RInv'
<1>1. /\ pc = "load" /\ turn \notin Slots /\ pc' = "forward" /\ layer' = 0
      /\ UNCHANGED <<step, plan, save, failed, turn, loadStream, loaded, queue, given,
                     staging, pages, stored, host, batches>>
  BY DEF EndLoad, loaderVars, streamVars, memoryVars, poolVars
<1>2. Grows /\ Serving' = Serving
  BY <1>1, StillGrows
<1>3. Len(Serving) \in Nat /\ plan \subseteq Slots /\ failed \subseteq Slots /\ turn \in 1..(NumSlots + 1)
      /\ turn = NumSlots + 1
  BY <1>1, <1>2, GrowsFacts, SlotsAssumption DEF RInv, STypes, Slots
<1>4. Saved'
  BY <1>1, NothingSaved, SavedEmpty
<1>5. PICK k, n, P, V : k = Len(Serving) + 1 /\ n = step /\ P = plan /\ V = failed
  OBVIOUS
<1>6. ForwardAt(k, n, 0, P, V)'
  <2> SUFFICES ASSUME NEW i \in Slots, NEW m \in Layers
               PROVE  /\ ~(m < 0)
                      /\ Open(k, i, m, n)'
                      /\ i \in P \ V => Blended(k, i, m, n)'
                      /\ i \notin P => Fresh(k, i, m, n)'
    BY DEF ForwardAt
  <2>1. i < turn
    BY <1>3, SlotsAssumption DEF Slots
  <2>2. /\ Open(k, i, m, n)
        /\ i \in P \ V => Blended(k, i, m, n)
        /\ i \notin P => Fresh(k, i, m, n)
    BY <1>1, <1>5, <2>1 DEF RInv, Coming
  <2>3. /\ Open(k, i, m, n) => Open(k, i, m, n)'
        /\ Blended(k, i, m, n) => Blended(k, i, m, n)'
        /\ Fresh(k, i, m, n) => Fresh(k, i, m, n)'
    <3>1. k \in 1..(Len(Serving) + 1) /\ k \in k..(Len(Serving') + 1) /\ \A j \in k..(k - 1) : FALSE
      BY <1>2, <1>3, <1>5
    <3> QED BY <1>2, <3>1, Grown
  <2>4. m \in Nat
    BY LayerParity
  <2> QED BY <2>2, <2>3, <2>4
<1>7. Coming'
  <2>1. Len(Serving') + 1 = k /\ step' = n /\ plan' = P /\ failed' = V /\ layer' = 0 /\ pc' = "forward"
    BY <1>1, <1>2, <1>5
  <2> QED BY <1>6, <2>1 DEF Coming
<1>8. \A g \in (Len(Serving) + 1)..Len(Serving') : FALSE
  BY <1>2, <1>3
<1>9. \A b \in Buffers : loaded'[b].stream # "store" /\ (~loadStream => loaded'[b] = NoEvent)
  BY <1>1 DEF RInv, Supplied
<1> QED BY <1>1, <1>2, <1>3, <1>4, <1>7, <1>8, <1>9, Extended

\* A new step: pages of earlier steps are open and fresh.
LEMMA StartStepKeepsR ==
  ASSUME DInv, RInv, NEW P \in SUBSET Slots, NEW S \in SUBSET Slots, StartStep(P, S)
  PROVE  RInv'
<1>1. /\ pc = "idle" /\ step < MaxSteps /\ pc' = "load" /\ step' = step + 1
      /\ plan' = P /\ failed' = {} /\ turn' = 1
      /\ UNCHANGED <<layer, loadStream, loaded, queue, given, staging, pages, stored, host, batches>>
  BY DEF StartStep, loaderVars, streamVars, memoryVars, poolVars
<1>2. /\ Serving' = Serving /\ Done("load")' = Done("load")
  BY <1>1 DEF Serving, Done
<1>3. /\ step \in Nat /\ step + 1 \in 0..MaxSteps /\ 1 \in 1..(NumSlots + 1)
      /\ \A i \in Slots, l \in Layers : pages[i][l][1] \in Nat /\ pages[i][l][1] <= step
      /\ \A k \in 1..Len(Serving) : Serving[k].step \in 1..step
  <2>1. step \in Nat /\ step + 1 \in 0..MaxSteps /\ 1 \in 1..(NumSlots + 1)
    BY <1>1, BoundAssumption, SlotsAssumption DEF RInv, STypes
  <2>2. \A i \in Slots, l \in Layers : pages[i][l][1] \in Nat /\ pages[i][l][1] <= step
    <3> TAKE i \in Slots, l \in Layers
    <3>1. pages[i][l] \in Contents /\ pages[i][l][1] <= step
      BY DEF RInv, STypes, OldPages
    <3> QED BY <3>1, BoundAssumption DEF Contents
  <2> QED BY <2>1, <2>2 DEF RInv, STypes
<1>4. StepOrder' /\ Pending'
  BY <1>1, <1>2, PlacesStill
<1>5. OldPages'
  <2>1. ASSUME NEW i \in Slots, NEW l \in Layers
        PROVE  pages'[i][l][1] <= step + 1
    <3>1. pages[i][l][1] \in Nat /\ pages[i][l][1] <= step
      BY <1>3
    <3> QED BY <1>1, <1>3, <3>1
  <2> QED BY <1>1, <2>1 DEF OldPages
<1>6. STypes'
  <2>1. \A k \in 1..Len(Serving') : Serving'[k].step \in 1..step'
    BY <1>1, <1>2, <1>3
  <2>2. \A k \in 1..Len(Serving') : Serving'[k].do # "forward" => Serving'[k].slot \in Slots
    BY <1>2 DEF RInv, STypes
  <2> QED BY <1>1, <1>3, <2>1, <2>2 DEF RInv, STypes
<1>7. Supplied'
  BY <1>1, <1>2, SupplyStill
<1>8. Saved'
  BY <1>1, NothingSaved, SavedEmpty
<1>9. PICK k, n : k = Len(Serving) + 1 /\ n = step + 1
  OBVIOUS
<1>10. ASSUME NEW i \in Slots, NEW m \in Layers
       PROVE  Open(k, i, m, n)' /\ Fresh(k, i, m, n)' /\ ~(i < 1)
  <2>1. pages[i][m][1] \in Nat /\ pages[i][m][1] < n
    BY <1>3, <1>9
  <2>2. Len(Serving) \in Nat
    BY QueueTypes DEF DInv, Streams, Serving
  <2>3. ASSUME NEW j \in 1..(k - 1)
        PROVE  Serving[j].step # n
    <3>1. j \in 1..Len(Serving)
      BY <1>9, <2>2
    <3>2. Serving[j].step \in 1..step
      BY <1>3, <3>1
    <3> QED BY <1>3, <1>9, <3>2
  <2>4. Open(k, i, m, n)'
    BY <1>1, <1>2, <2>1, <2>3 DEF Open, Completes
  <2>5. Fresh(k, i, m, n)'
    BY <1>1, <1>2, <2>1, <2>3 DEF Fresh, Scatters
  <2> QED BY <2>4, <2>5, SlotsAssumption DEF Slots
<1>11. Coming'
  <2>1. Len(Serving') + 1 = k /\ step' = n /\ turn' = 1 /\ pc' = "load"
    BY <1>1, <1>2, <1>9
  <2> QED BY <1>10, <2>1 DEF Coming
<1> QED BY <1>4, <1>5, <1>6, <1>7, <1>8, <1>11 DEF RInv

\* The end of a step.
LEMMA WaitForSaveKeepsR ==
  ASSUME DInv, RInv, WaitForSave
  PROVE  RInv'
<1>1. /\ pc' = "idle" /\ queue["store"] = <<>> /\ batches = {}
      /\ stored' = [i \in Slots |-> None]
      /\ UNCHANGED <<step, plan, failed, turn, loadStream, loaded, queue, given, staging, pages,
                     host, batches>>
  BY DEF WaitForSave, loaderVars, streamVars, poolVars
<1>2. /\ Serving' = Serving /\ Done("load")' = Done("load")
  BY <1>1 DEF Serving, Done
<1>3. StepOrder' /\ Pending'
  BY <1>1, <1>2, PlacesStill
<1>4. OldPages'
  BY <1>1 DEF RInv, OldPages
<1>5. STypes'
  BY <1>1, <1>2 DEF RInv, STypes
<1>6. Supplied'
  BY <1>1, <1>2, SupplyStill
<1>7. Saved'
  BY <1>1, SavedEmpty
<1>8. Coming'
  BY <1>1 DEF Coming
<1> QED BY <1>3, <1>4, <1>5, <1>6, <1>7, <1>8 DEF RInv

\* What the beginning of a side forward gives.
LEMMA BeginGives ==
  ASSUME DInv, Begin, NEW o, o = Op("fill", turn, 0, NoEvent)
  PROVE  /\ Longer /\ Len(Serving) = 0 /\ queue'["store"] = <<>>
         /\ loadStream => /\ Len(Serving') = 0 /\ given'["load"] = given["load"] + 1
                          /\ queue'["load"][Len(queue["load"]) + 1] = o
         /\ ~loadStream => Len(Serving') = 1 /\ Serving'[1] = o
<1>1. /\ 0 \in Layers /\ queue["serving"] = <<>> /\ queue["store"] = <<>> /\ DTypes
  BY LayersAssumption DEF Begin, BeginWith, Layers, DInv, StoreBehind
<1>2. "load" \in Streams /\ "serving" \in Streams /\ "store" \in Streams
  BY DEF Streams
<1> DEFINE e == <<>>
           f == <<o>>
<1>3. Shaped(o, "load") /\ Shaped(o, "serving")
  BY <1>1, EventTypes DEF Shaped, Kinds, Op
<1>4. /\ Row(f) /\ Len(f) = 1 /\ f[1] = o /\ Row(e) /\ 1..Len(e) = {} /\ Len(e) = 0
      /\ \A i \in 1..Len(f) : Shaped(f[i], "load") /\ Shaped(f[i], "serving")
  <2>1. Row(f) /\ Len(f) = 1 /\ f[1] = o /\ Row(e) /\ Len(e) = 0
    BY OneOperation
  <2> HIDE DEF f, e
  <2> QED BY <1>3, <2>1
<1>5. IF loadStream THEN Give(e, f, e) ELSE Give(f, e, e)
  BY DEF Begin, BeginWith
<1>6. e \o e = e /\ queue["store"] = e /\ queue["serving"] = e
  BY <1>1
<1>7. Row(queue["load"]) /\ Len(queue["load"]) \in Nat
  BY <1>1, <1>2, QueueTypes
<1> HIDE DEF e, f
<1>8. CASE loadStream
  <2>1. Give(e, f, e)
    BY <1>5, <1>8
  <2>2. /\ queue'["serving"] = queue["serving"] \o e /\ queue'["load"] = queue["load"] \o f
        /\ queue'["store"] = queue["store"] \o e
        /\ given'["load"] = given["load"] + Len(f) /\ Longer
    BY <1>1, <1>4, <2>1, GiveQueues
  <2>3. queue'["serving"] = e /\ queue'["store"] = e
    BY <1>6, <2>2
  <2>4. queue'["load"][Len(queue["load"]) + 1] = o
    <3>1. PICK x, q : x = Len(queue["load"]) + 1 /\ q = queue["load"]
      OBVIOUS
    <3>2. /\ x \in 1..(Len(q) + Len(f)) /\ x > Len(q) /\ x - Len(q) = 1
      BY <1>4, <1>7, <3>1
    <3>3. (q \o f)[x] = f[x - Len(q)]
      <4>1. Row(q) /\ Row(f)
        BY <1>4, <1>7, <3>1
      <4>2. \A j \in 1..(Len(q) + Len(f)) : j > Len(q) => (q \o f)[j] = f[j - Len(q)]
        BY <4>1, RowJoin
      <4> QED BY <3>2, <4>2
    <3> QED BY <1>4, <2>2, <3>1, <3>2, <3>3
  <2> QED BY <1>4, <1>6, <1>8, <2>2, <2>3, <2>4 DEF Serving, e
<1>9. CASE ~loadStream
  <2>1. Give(f, e, e)
    BY <1>5, <1>9
  <2>2. /\ queue'["serving"] = queue["serving"] \o f /\ queue'["store"] = queue["store"] \o e
        /\ Longer
    BY <1>1, <1>4, <2>1, GiveQueues
  <2>3. e \o f = f
    BY DEF e, f
  <2>4. queue'["serving"] = f /\ queue'["store"] = e
    BY <1>6, <2>2, <2>3
  <2> QED BY <1>4, <1>6, <1>9, <2>2, <2>4 DEF Serving, e
<1> QED BY <1>8, <1>9

\* The first load of a side forward.
LEMMA BeginKeepsR ==
  ASSUME DInv, RInv, Begin
  PROVE  RInv'
<1>1. /\ pc = "load" /\ turn \in plan /\ pc' = "layer" /\ layer' = 0
      /\ UNCHANGED <<step, plan, failed, turn, loadStream, staging, pages, stored, host, batches>>
      /\ loaded' = [b \in Buffers |-> IF b = 0 /\ loadStream
                                      THEN Event("load", given["load"] + 1) ELSE NoEvent]
  BY DEF Begin, BeginWith, memoryVars, poolVars
<1>2. PICK o, t, n : o = Op("fill", turn, 0, NoEvent) /\ t = turn /\ n = step
  OBVIOUS
<1>3. /\ Longer /\ Len(Serving) = 0 /\ queue'["store"] = <<>>
      /\ loadStream => /\ Len(Serving') = 0 /\ given'["load"] = given["load"] + 1
                       /\ queue'["load"][Len(queue["load"]) + 1] = o
      /\ ~loadStream => Len(Serving') = 1 /\ Serving'[1] = o
  BY <1>2, BeginGives
<1>4. Grows /\ loadStream \in BOOLEAN /\ plan \subseteq Slots /\ failed \subseteq Slots
      /\ turn \in 1..(NumSlots + 1) /\ t \in Slots
  BY <1>1, <1>2, <1>3 DEF Grows, RInv, STypes, DInv, DTypes
<1>5. Saved'
  BY <1>1, <1>3, NothingSaved, SavedEmpty
<1>6. /\ o.do = "fill" /\ o.slot = t /\ o.layer = 0 /\ o.step = n /\ o.wait = NoEvent
      /\ NoEvent.stream = "serving"
  BY <1>2 DEF Op, NoEvent, Event
<1>7. n \in 1..n /\ \A i \in Slots, l \in Layers : pages[i][l][1] <= n
  <2>1. n \in Nat /\ n # 0
    BY <1>1, <1>2, BoundAssumption DEF RInv, STypes
  <2> QED BY <1>2, <2>1 DEF RInv, OldPages
<1>8. ASSUME NEW g \in (Len(Serving) + 1)..Len(Serving')
      PROVE  FoundAt(g)'
  <2>1. ~loadStream /\ g = 1 /\ Serving'[g] = o
    <3>1. PICK x : x = Len(Serving')
      OBVIOUS
    <3>2. x = 0 \/ (x = 1 /\ ~loadStream)
      BY <1>3, <1>4, <3>1
    <3>3. g \in 1..x
      BY <1>3, <3>1
    <3>4. g = 1 /\ x = 1
      BY <3>2, <3>3
    <3> QED BY <1>3, <3>2, <3>4
  <2>2. \A j \in 1..g : Serving'[j].step <= n
    BY <1>6, <1>7, <2>1
  <2> QED BY <1>1, <1>2, <1>4, <1>6, <1>7, <2>1, <2>2 DEF FoundAt
<1>9. PICK k, g : k = Len(Serving) + 1 /\ g = Len(Serving') + 1
  OBVIOUS
<1>10. /\ k = 1 /\ g \in k..(Len(Serving') + 1)
       /\ \A j \in k..(g - 1) : j = 1 /\ Serving'[j] = o /\ ~loadStream
  BY <1>3, <1>4, <1>9
<1>11. ASSUME NEW i \in Slots, NEW m \in Layers
       PROVE  /\ Open(g, i, m, n)'
              /\ i < t /\ i \in plan \ failed => Blended(g, i, m, n)'
              /\ i \notin plan \/ i > t \/ i = t => Fresh(g, i, m, n)'
  <2>1. /\ Open(k, i, m, n)
        /\ i < t /\ i \in plan \ failed => Blended(k, i, m, n)
        /\ i \notin plan \/ i > t \/ i = t => Fresh(k, i, m, n)
    BY <1>1, <1>2, <1>9 DEF RInv, Coming
  <2>2. \A j \in k..(g - 1) : /\ ~Scatters(Serving'[j], i, m, n)
                              /\ ~Completes(Serving'[j], m, n)
    BY <1>6, <1>10 DEF Scatters, Completes
  <2>3. /\ Open(k, i, m, n) => Open(g, i, m, n)'
        /\ Blended(k, i, m, n) => Blended(g, i, m, n)'
        /\ Fresh(k, i, m, n) => Fresh(g, i, m, n)'
    <3>1. k \in 1..(Len(Serving) + 1)
      BY <1>3, <1>10
    <3> QED BY <1>4, <1>9, <1>10, <2>2, <3>1, Grown
  <2> QED BY <2>1, <2>3
<1>12. Coming'
  <2>1. Len(Serving') + 1 = g /\ step' = n /\ turn' = t /\ pc' = "layer" /\ layer' = 0
        /\ plan' = plan /\ failed' = failed
    BY <1>1, <1>2, <1>9
  <2>2. \A j \in 1..Len(Serving') : Serving'[j].do # "forward"
    <3>1. \A j \in k..(g - 1) : j = 1 /\ Serving'[j] = o
      BY <1>10
    <3>2. Len(Serving') \in Nat
      BY <1>4, GrowsFacts
    <3>3. g - 1 = Len(Serving') /\ k = 1
      BY <1>9, <1>10, <3>2
    <3> QED BY <1>6, <3>1, <3>3
  <2>3. \A m \in Layers : ~(m < 0) /\ Fresh(g, t, m, n)'
    BY <1>4, <1>11, LayerParity
  <2> QED BY <1>11, <2>1, <2>2, <2>3 DEF Coming
<1>13. \A b \in Buffers : loaded'[b].stream # "store" /\ (~loadStream => loaded'[b] = NoEvent)
  BY <1>1 DEF Event, NoEvent
<1>14. PICK w : w = loaded'[0]
  OBVIOUS
<1>15. SupplyAt(g, t, 0, w)'
  <2>1. CASE loadStream
    <3>1. w.stream = "load" /\ w.after = given["load"] + 1
      BY <1>1, <1>14, <2>1 DEF Buffers, Event
    <3>2. /\ given["load"] \in Nat /\ Len(queue["load"]) \in Nat /\ Done("load") \in Nat
          /\ Done("load") + Len(queue["load"]) = given["load"] /\ Done("load")' = Done("load")
      BY <1>4, GrowsFacts
    <3>3. /\ w.after > Done("load") /\ w.after - Done("load") = Len(queue["load"]) + 1
          /\ w.after >= 1 /\ w.after <= given'["load"]
      BY <1>3, <2>1, <3>1, <3>2
    <3>4. \A j \in 1..(g - 1) : FALSE
      BY <1>3, <1>9, <2>1
    <3>5. Fills(queue'["load"][w.after - Done("load")], t, 0)
      BY <1>3, <1>6, <2>1, <3>3 DEF Fills
    <3> QED BY <1>4, <2>1, <3>1, <3>2, <3>3, <3>4, <3>5 DEF SupplyAt, Fills, Grows
  <2>2. CASE ~loadStream
    <3>0. Len(Serving') = 1 /\ Serving'[1] = o
      BY <1>3, <2>2
    <3>1. 1 \in 1..(g - 1) /\ Fills(Serving'[1], t, 0) /\ \A h \in (1 + 1)..(g - 1) : FALSE
      BY <1>6, <1>9, <3>0 DEF Fills
    <3> QED BY <1>4, <2>2, <3>1 DEF SupplyAt, Fills, Grows
  <2> QED BY <1>4, <2>1, <2>2
<1>16. (pc = "layer" => SupplyAt(Len(Serving) + 1, turn, layer, loaded[layer % 2]))'
  <2>1. Len(Serving') + 1 = g /\ turn' = t /\ layer' = 0 /\ loaded'[0 % 2] = w
    BY <1>1, <1>2, <1>9, <1>14
  <2> QED BY <1>15, <2>1
<1>17. plan' \subseteq Slots /\ failed' \subseteq Slots /\ turn' \in 1..(NumSlots + 1)
       /\ (pc' = "layer" => turn' \in plan') /\ step' = step /\ pc # "idle"
  BY <1>1, <1>4
<1> QED BY <1>4, <1>5, <1>8, <1>12, <1>13, <1>16, <1>17, Extended

\* What a turn of the side forward gives, and where.
LEMMA WorkGives ==
  ASSUME DInv, pc = "layer", NEW work \in {<<>>, <<BlendOp>>, Work}, GiveWork(work, Ahead),
         NEW x, x = IF loadStream THEN 0 ELSE Len(Ahead)
  PROVE  /\ Longer /\ queue'["store"] = <<>> /\ Len(work) \in Nat /\ Len(Ahead) \in {0, 1}
         /\ Len(Serving) \in Nat /\ Len(queue["load"]) \in Nat
         /\ Len(Serving') = Len(Serving) + x + Len(work)
         /\ x = 1 => Serving'[Len(Serving) + 1] = Ahead[1]
         /\ \A j \in 1..Len(work) : Serving'[Len(Serving) + x + j] = work[j]
         /\ loadStream => /\ given'["load"] = given["load"] + Len(Ahead)
                          /\ Len(Ahead) = 1 => queue'["load"][Len(queue["load"]) + 1] = Ahead[1]
<1>1. layer \in Layers /\ queue["store"] = <<>> /\ DTypes
  BY DEF DInv, DTypes, StoreBehind
<1>2. "load" \in Streams /\ "serving" \in Streams /\ "store" \in Streams
  BY DEF Streams
<1>3. /\ Row(work) /\ Len(work) \in Nat /\ Row(Ahead) /\ Len(Ahead) \in {0, 1}
      /\ \A i \in 1..Len(work) : work[i].do \in {"blend", "scatter"}
                                 /\ work[i].layer = layer /\ work[i].wait \in Events
      /\ \A i \in 1..Len(Ahead) :
           Ahead[i].do = "fill" /\ layer + 1 \in Layers /\ Ahead[i].layer = layer + 1
           /\ Ahead[i].wait = IF loadStream THEN reuse[(layer + 1) % 2] ELSE NoEvent
  BY TurnShapes
<1>4. \A i \in 1..Len(work) : Shaped(work[i], "serving")
  BY <1>1, <1>3 DEF Shaped, Kinds
<1>5. \A i \in 1..Len(Ahead) : Shaped(Ahead[i], "load") /\ Shaped(Ahead[i], "serving")
  <2>1. reuse[(layer + 1) % 2] \in Events /\ NoEvent \in Events
    <3>1. layer \in Nat
      BY <1>1, LayerParity
    <3> QED BY <1>1, <3>1, Parity, EventTypes DEF DTypes
  <2> QED BY <1>3, <2>1 DEF Shaped, Kinds
<1> DEFINE e == <<>>
           a == Ahead
<1>6. Row(e) /\ Len(e) = 0 /\ 1..Len(e) = {} /\ e \o e = e /\ queue["store"] = e
  <2>1. Row(<<>>) /\ Len(<<>>) = 0
    BY OneOperation
  <2>2. 1..Len(<<>>) = {} /\ <<>> \o <<>> = <<>>
    BY <2>1
  <2> QED BY <1>1, <2>1, <2>2
<1>7. /\ Row(a) /\ Len(a) \in {0, 1} /\ Len(a) \in Nat
      /\ \A i \in 1..Len(a) : Shaped(a[i], "load") /\ Shaped(a[i], "serving")
      /\ a = Ahead /\ x = IF loadStream THEN 0 ELSE Len(a)
      /\ IF loadStream THEN Give(work, a, e) ELSE Give(a \o work, e, e)
  BY <1>3, <1>5 DEF GiveWork
<1> HIDE DEF e, a
<1>8. /\ Row(queue["serving"]) /\ Len(queue["serving"]) \in Nat
      /\ Row(queue["load"]) /\ Len(queue["load"]) \in Nat
  BY <1>1, <1>2, QueueTypes
<1>9. PICK q, r : q = queue["serving"] /\ r = queue["load"]
  OBVIOUS
<1>10. CASE loadStream
  <2>1. /\ queue'["serving"] = q \o work /\ queue'["load"] = r \o a
        /\ queue'["store"] = queue["store"] \o e
        /\ given'["load"] = given["load"] + Len(a) /\ Longer
    <3>1. Give(work, a, e)
      BY <1>7, <1>10
    <3> QED BY <1>1, <1>3, <1>4, <1>6, <1>7, <1>9, <3>1, GiveQueues
  <2>2. Len(q \o work) = Len(q) + Len(work)
    BY <1>3, <1>8, <1>9, RowJoin
  <2>3. ASSUME NEW j \in 1..Len(work)
        PROVE  (q \o work)[Len(q) + j] = work[j]
    <3>1. PICK p : p = Len(q) + j
      OBVIOUS
    <3>2. p \in 1..(Len(q) + Len(work)) /\ p > Len(q) /\ p - Len(q) = j
      BY <1>3, <1>8, <1>9, <3>1
    <3>3. (q \o work)[p] = work[p - Len(q)]
      BY <1>3, <1>8, <1>9, <3>2, RowJoin
    <3> QED BY <3>1, <3>2, <3>3
  <2>4. Len(a) = 1 => (r \o a)[Len(r) + 1] = a[1]
    <3>1. PICK p : p = Len(r) + 1
      OBVIOUS
    <3>2. Len(a) = 1 => p \in 1..(Len(r) + Len(a)) /\ p > Len(r) /\ p - Len(r) = 1
      BY <1>7, <1>8, <1>9, <3>1
    <3>3. Len(a) = 1 => (r \o a)[p] = a[p - Len(r)]
      BY <1>7, <1>8, <1>9, <3>2, RowJoin
    <3> QED BY <3>1, <3>2, <3>3
  <2>5. x = 0 /\ x # 1 /\ Len(q) + x = Len(q)
    BY <1>7, <1>8, <1>9, <1>10
  <2>6. queue'["store"] = <<>>
    BY <1>6, <2>1 DEF e
  <2>7. Serving = q /\ Serving' = q \o work
    BY <1>9, <2>1 DEF Serving
  <2> QED BY <1>3, <1>7, <1>8, <1>9, <1>10, <2>1, <2>2, <2>3, <2>4, <2>5, <2>6, <2>7
<1>11. CASE ~loadStream
  <2>1. Row(a \o work) /\ Len(a \o work) = Len(a) + Len(work) /\ Len(a) + Len(work) \in Nat
        /\ \A i \in 1..Len(a \o work) : Shaped((a \o work)[i], "serving")
    <3>1. \A i \in 1..(Len(a) + Len(work)) : i \in 1..Len(a) \/ i > Len(a)
      BY <1>3, <1>7
    <3> QED BY <1>3, <1>4, <1>7, <3>1, RowJoin
  <2>2. PICK v : v = a \o work
    OBVIOUS
  <2> DEFINE n == Len(a)
             m == Len(work)
  <2>0. n \in Nat /\ m \in Nat /\ n \in {0, 1}
    BY <1>3, <1>7
  <2>11. /\ Row(v) /\ Len(v) = n + m /\ Len(v) \in Nat
         /\ \A i \in 1..Len(v) : Shaped(v[i], "serving")
    BY <2>1, <2>2
  <2>12. /\ \A i \in 1..n : v[i] = a[i]
         /\ \A i \in 1..(n + m) : i > n => v[i] = work[i - n]
    BY <1>3, <1>7, <2>2, RowJoin
  <2> HIDE DEF n, m
  <2>3. /\ queue'["serving"] = q \o v /\ queue'["store"] = queue["store"] \o e /\ Longer
    <3>1. Give(v, e, e)
      BY <1>7, <1>11, <2>2
    <3> QED BY <1>1, <1>6, <1>9, <2>11, <3>1, GiveQueues
  <2>4. Len(q \o v) = Len(q) + Len(v) /\ Len(q) \in Nat /\ Row(q)
    BY <1>8, <1>9, <2>11, RowJoin
  <2>5. ASSUME NEW j \in 1..Len(v)
        PROVE  (q \o v)[Len(q) + j] = v[j]
    <3>1. PICK p : p = Len(q) + j
      OBVIOUS
    <3>2. p \in 1..(Len(q) + Len(v)) /\ p > Len(q) /\ p - Len(q) = j
      BY <2>4, <2>11, <3>1
    <3>3. (q \o v)[p] = v[p - Len(q)]
      BY <2>4, <2>11, <3>2, RowJoin
    <3> QED BY <3>1, <3>2, <3>3
  <2>6. ASSUME NEW j \in 1..Len(work)
        PROVE  (q \o v)[(Len(q) + Len(a)) + j] = work[j]
    <3>1. PICK p : p = Len(a) + j
      OBVIOUS
    <3>2. /\ p \in 1..(n + m) /\ p > n /\ p - n = j /\ p \in 1..Len(v)
          /\ Len(q) + p = (Len(q) + n) + j
      BY <2>0, <2>4, <2>11, <3>1 DEF n, m
    <3>3. v[p] = work[j]
      BY <2>12, <3>2
    <3> QED BY <2>5, <3>2, <3>3 DEF n
  <2>7. Len(a) = 1 => (q \o v)[Len(q) + 1] = a[1]
    <3>1. n = 1 => 1 \in 1..n /\ 1 \in 1..Len(v)
      BY <2>0, <2>11
    <3>2. n = 1 => v[1] = a[1]
      BY <2>12, <3>1
    <3> QED BY <2>5, <3>1, <3>2 DEF n
  <2>8. x = Len(a) /\ Len(q) + Len(v) = Len(q) + x + Len(work)
    <3>1. x = n
      BY <1>7, <1>11 DEF n
    <3>2. Len(q) + Len(v) = Len(q) + x + m
      BY <2>0, <2>4, <2>11, <3>1
    <3> QED BY <3>1, <3>2 DEF n, m
  <2>9. queue'["store"] = <<>>
    BY <1>6, <2>3 DEF e
  <2>10. Serving = q /\ Serving' = q \o v
    BY <1>9, <2>3 DEF Serving
  <2> QED BY <1>3, <1>7, <1>8, <1>9, <1>11, <2>3, <2>4, <2>6, <2>7, <2>8, <2>9, <2>10
<1>12. loadStream \in BOOLEAN
  BY <1>1 DEF DTypes
<1> QED BY <1>10, <1>11, <1>12

\* What one turn gives, by its parts.
LEMMA WorkParts ==
  ASSUME NEW work \in {<<>>, <<BlendOp>>, Work}
  PROVE  /\ Len(work) \in {0, 1, 2} /\ (work = Work => Len(work) = 2)
         /\ Len(work) \in {1, 2} => work[1] = BlendOp
         /\ Len(work) = 2 => work = Work /\ work[2] = Op("scatter", turn, layer, NoEvent)
         /\ Len(Ahead) = IF layer < Last THEN 1 ELSE 0
         /\ Len(Ahead) = 1 => Ahead[1] = Fill(turn, layer + 1)
<1>1. /\ Len(Work) = 2 /\ Work[1] = BlendOp /\ Work[2] = Op("scatter", turn, layer, NoEvent)
  <2> DEFINE o == BlendOp
             p == Op("scatter", turn, layer, NoEvent)
  <2>1. Work = <<o, p>>
    BY DEF Work
  <2> HIDE DEF o, p
  <2>2. Len(<<o, p>>) = 2 /\ <<o, p>>[1] = o /\ <<o, p>>[2] = p
    OBVIOUS
  <2> QED BY <2>1, <2>2 DEF o, p
<1>2. Len(<<>>) = 0 /\ Len(<<BlendOp>>) = 1 /\ <<BlendOp>>[1] = BlendOp
  BY OneOperation
<1>3. CASE layer < Last
  <2>1. Ahead = <<Fill(turn, layer + 1)>>
    BY <1>3 DEF Ahead
  <2>2. Len(Ahead) = 1 /\ Ahead[1] = Fill(turn, layer + 1)
    BY <2>1, OneOperation
  <2> QED BY <1>1, <1>2, <1>3, <2>2
<1>4. CASE ~(layer < Last)
  <2>1. Ahead = <<>>
    BY <1>4 DEF Ahead
  <2> QED BY <1>1, <1>2, <1>4, <2>1
<1> QED BY <1>3, <1>4

\* What is given in a turn finds what it should.
LEMMA WorkFound ==
  ASSUME DInv, RInv, pc = "layer", NEW work \in {<<>>, <<BlendOp>>, Work}, GiveWork(work, Ahead),
         UNCHANGED <<pages, staging, stored, host, loadStream, step>>
  PROVE  /\ Grows /\ queue'["store"] = <<>>
         /\ \A k \in (Len(Serving) + 1)..Len(Serving') :
              /\ FoundAt(k)'
              /\ \/ Serving'[k].do \in {"fill", "blend"}
                 \/ /\ work = Work /\ k = Len(Serving')
                    /\ Serving'[k] = Op("scatter", turn, layer, NoEvent)
<1>1. PICK x, n, t, l, w, z : /\ x = IF loadStream THEN 0 ELSE Len(Ahead)
                              /\ n = step /\ t = turn /\ l = layer /\ w = loaded[layer % 2]
                              /\ z = Len(Serving)
  OBVIOUS
<1>2. /\ Longer /\ queue'["store"] = <<>> /\ Len(work) \in Nat /\ Len(Ahead) \in {0, 1}
      /\ z \in Nat
      /\ Len(Serving') = z + x + Len(work)
      /\ x = 1 => Serving'[z + 1] = Ahead[1]
      /\ \A j \in 1..Len(work) : Serving'[z + x + j] = work[j]
  <2>1. /\ Longer /\ queue'["store"] = <<>> /\ Len(work) \in Nat /\ Len(Ahead) \in {0, 1}
        /\ Len(Serving) \in Nat
        /\ Len(Serving') = Len(Serving) + x + Len(work)
        /\ x = 1 => Serving'[Len(Serving) + 1] = Ahead[1]
        /\ \A j \in 1..Len(work) : Serving'[Len(Serving) + x + j] = work[j]
    BY <1>1, WorkGives
  <2> QED BY <1>1, <2>1
<1>3. Grows
  BY <1>2 DEF Grows
<1>4. /\ Len(work) \in {0, 1, 2} /\ (work = Work => Len(work) = 2)
      /\ Len(work) \in {1, 2} => work[1] = BlendOp
      /\ Len(work) = 2 => work = Work /\ work[2] = Op("scatter", turn, layer, NoEvent)
      /\ Len(Ahead) = IF layer < Last THEN 1 ELSE 0
      /\ Len(Ahead) = 1 => Ahead[1] = Fill(turn, layer + 1)
  BY WorkParts
<1>5. /\ l \in Layers /\ l \in Nat /\ l % 2 \in Buffers /\ w \in Events
      /\ (l + 1) % 2 # l % 2 /\ t \in Slots /\ n \in Nat /\ n \in 1..n
      /\ \A i \in Slots, m \in Layers : pages[i][m][1] <= n
  <2>1. l \in Layers /\ t \in Slots /\ n \in Nat /\ n # 0
    BY <1>1, BoundAssumption DEF DInv, DTypes, RInv, STypes
  <2>2. l \in Nat /\ l % 2 \in Buffers /\ (l + 1) % 2 # l % 2
    BY <2>1, LayerParity, Parity
  <2> QED BY <1>1, <2>1, <2>2 DEF DInv, DTypes, RInv, OldPages
<1>6. PICK f, b, c : /\ f = Fill(turn, layer + 1) /\ b = BlendOp
                     /\ c = Op("scatter", turn, layer, NoEvent)
  OBVIOUS
<1>7. /\ f.do = "fill" /\ f.slot = t /\ f.layer = l + 1 /\ f.step = n
      /\ ~loadStream => f.wait = NoEvent
      /\ b.do = "blend" /\ b.slot = t /\ b.layer = l /\ b.step = n /\ b.wait = w
      /\ c.do = "scatter" /\ c.slot = t /\ c.layer = l /\ c.step = n /\ c.wait = NoEvent
      /\ NoEvent.stream = "serving"
  BY <1>1, <1>6 DEF Fill, BlendOp, Op, NoEvent, Event
<1>8. /\ x \in {0, 1} /\ (x = 1 => ~loadStream /\ Serving'[z + 1] = f)
      /\ Len(work) \in {1, 2} => Serving'[z + x + 1] = b
      /\ Len(work) = 2 => Serving'[z + x + 2] = c /\ work = Work
      /\ Len(Serving') = z + x + Len(work)
  <2>1. x \in {0, 1} /\ (x = 1 => ~loadStream /\ Serving'[z + 1] = f)
    BY <1>1, <1>2, <1>4, <1>6
  <2>2. ASSUME Len(work) \in {1, 2}
        PROVE  Serving'[z + x + 1] = b
    <3>1. 1 \in 1..Len(work)
      BY <2>2
    <3> QED BY <1>2, <1>4, <1>6, <2>2, <3>1
  <2>3. ASSUME Len(work) = 2
        PROVE  Serving'[z + x + 2] = c /\ work = Work
    <3>1. 2 \in 1..Len(work)
      BY <2>3
    <3> QED BY <1>2, <1>4, <1>6, <2>3, <3>1
  <2> QED BY <1>2, <2>1, <2>2, <2>3
<1>9. ASSUME NEW k \in (z + 1)..Len(Serving')
      PROVE  \/ k = z + 1 /\ x = 1 /\ Serving'[k] = f
             \/ k = z + x + 1 /\ Len(work) \in {1, 2} /\ Serving'[k] = b
             \/ /\ k = z + x + 2 /\ Len(work) = 2 /\ Serving'[k] = c /\ k = Len(Serving')
                /\ work = Work
  <2>1. PICK y : y = Len(work)
    OBVIOUS
  <2>2. y \in {0, 1, 2} /\ k \in (z + 1)..(z + x + y)
    BY <1>4, <1>8, <1>9, <2>1
  <2>3. \/ k = z + 1 /\ x = 1
        \/ k = z + x + 1 /\ y \in {1, 2}
        \/ k = z + x + 2 /\ y = 2 /\ k = z + x + y
    BY <1>2, <1>8, <2>2
  <2> QED BY <1>8, <2>1, <2>3
<1>10. /\ \A j \in 1..z : /\ Serving'[j] = Serving[j] /\ Serving[j].step <= n
                          /\ Serving[j].do # "forward"
       /\ SupplyAt(z + 1, t, l, w) /\ w.stream # "store"
  <2>1. \A j \in 1..z : /\ Serving'[j] = Serving[j] /\ Serving[j].step <= n
    BY <1>1, <1>3, <1>5, GrowsFacts DEF RInv, STypes
  <2>2. \A j \in 1..z : Serving[j].do # "forward"
    BY <1>1 DEF RInv, Coming
  <2>3. SupplyAt(z + 1, t, l, w) /\ w.stream # "store"
    BY <1>1, <1>5 DEF RInv, Supplied
  <2> QED BY <2>1, <2>2, <2>3
<1>11. ASSUME NEW k \in 1..Len(Serving')
       PROVE  Serving'[k].step <= n /\ Serving'[k].do # "forward" /\ k \in Nat
  <2>1. k \in 1..z \/ k \in (z + 1)..Len(Serving')
    BY <1>2
  <2>2. CASE k \in 1..z
    BY <1>10, <2>2
  <2>3. CASE k \in (z + 1)..Len(Serving')
    BY <1>5, <1>7, <1>9, <2>3
  <2> QED BY <2>1, <2>2, <2>3
<1>12. /\ Len(Serving') \in Nat
       /\ \A k \in (z + 1)..Len(Serving') : \A j \in 1..k : j \in 1..Len(Serving')
  <2>1. Len(Serving') \in Nat
    BY <1>3, GrowsFacts
  <2> QED BY <1>2, <2>1
<1>13. ASSUME NEW k \in (z + 1)..Len(Serving'), k = z + 1, x = 1, Serving'[k] = f
       PROVE  FoundAt(k)'
  <2>1. \A j \in 1..k : Serving'[j].step <= n
    BY <1>11, <1>12, <1>13
  <2>2. /\ Serving'[k].do = "fill" /\ Serving'[k].slot = t /\ Serving'[k].step = n
        /\ Serving'[k].wait = NoEvent /\ ~loadStream
    BY <1>7, <1>8, <1>13
  <2> QED BY <1>1, <1>5, <1>7, <2>1, <2>2 DEF FoundAt
<1>14. ASSUME NEW k \in (z + 1)..Len(Serving'), k = z + x + 1, Serving'[k] = b
       PROVE  FoundAt(k)'
  <2>1. \A j \in 1..k : Serving'[j].step <= n
    BY <1>11, <1>12, <1>14
  <2>2. SupplyAt(k, t, l, w)'
    <3>1. /\ z + 1 \in 1..(z + 1) /\ k \in (z + 1)..(Len(Serving') + 1)
      BY <1>2, <1>8, <1>12
    <3>2. ASSUME NEW j \in (z + 1)..(k - 1)
          PROVE  ~Touches(Serving'[j], l % 2) /\ Serving'[j].wait.stream # "load"
      <4>1. j = z + 1 /\ x = 1
        BY <1>2, <1>8, <1>14, <3>2
      <4>2. Serving'[j] = f /\ f.wait = NoEvent
        BY <1>7, <1>8, <4>1
      <4> QED BY <1>5, <1>7, <4>2 DEF Touches
    <3>3. w.after \in Nat
      BY <1>5 DEF Events
    <3> QED BY <1>1, <1>3, <1>5, <1>10, <3>1, <3>2, <3>3, SupplyGrown
  <2>3. /\ Serving'[k].do = "blend" /\ Serving'[k].slot = t /\ Serving'[k].step = n
        /\ Serving'[k].layer = l /\ Serving'[k].wait = w
    BY <1>7, <1>14
  <2> QED BY <1>1, <1>5, <1>10, <2>1, <2>2, <2>3 DEF FoundAt
<1>15. ASSUME NEW k \in (z + 1)..Len(Serving'), k = z + x + 2, Len(work) = 2, Serving'[k] = c
       PROVE  FoundAt(k)'
  <2>1. \A j \in 1..k : Serving'[j].step <= n
    BY <1>11, <1>12, <1>15
  <2>2. k # 1 /\ k - 1 = z + x + 1 /\ Serving'[k - 1] = b
    BY <1>2, <1>8, <1>15
  <2>3. ScatterAt(k, n, t, l)'
    <3>1. \A j \in 1..(k - 1) : Serving'[j].do # "forward"
      <4>1. \A j \in 1..(k - 1) : j \in 1..Len(Serving')
        BY <1>2, <1>12
      <4> QED BY <1>11, <4>1
    <3>2. \A m \in Layers : IF m < l THEN Blended(z + 1, t, m, n) ELSE Fresh(z + 1, t, m, n)
      BY <1>1 DEF RInv, Coming
    <3>3. ASSUME NEW m \in Layers
          PROVE  /\ Blended(z + 1, t, m, n) => Blended(k, t, m, n)'
                 /\ Fresh(z + 1, t, m, n) => Fresh(k, t, m, n)'
      <4>1. z + 1 \in 1..(Len(Serving) + 1) /\ k \in (z + 1)..(Len(Serving') + 1)
        BY <1>1, <1>2, <1>12
      <4>2. ASSUME NEW j \in (z + 1)..(k - 1)
            PROVE  ~Scatters(Serving'[j], t, m, n)
        <5>1. j \in (z + 1)..Len(Serving') /\ j # z + x + 2
          BY <1>2, <1>8, <1>12, <1>15
        <5>2. Serving'[j] \in {f, b}
          BY <1>9, <5>1
        <5> QED BY <1>7, <5>2 DEF Scatters
      <4> QED BY <1>1, <1>3, <1>5, <4>1, <4>2, Grown
    <3>4. ~(l < l)
      BY <1>5
    <3> QED BY <1>5, <3>1, <3>2, <3>3, <3>4 DEF ScatterAt
  <2>4. /\ Serving'[k].do = "scatter" /\ Serving'[k].slot = t /\ Serving'[k].step = n
        /\ Serving'[k].layer = l /\ Serving'[k].wait = NoEvent
        /\ Serving'[k - 1].do = "blend" /\ Serving'[k - 1].slot = t /\ Serving'[k - 1].layer = l
    BY <1>7, <1>15, <2>2
  <2> QED BY <1>1, <1>5, <1>7, <2>1, <2>2, <2>3, <2>4 DEF FoundAt
<1>16. ASSUME NEW k \in (z + 1)..Len(Serving')
       PROVE  /\ FoundAt(k)'
              /\ \/ Serving'[k].do \in {"fill", "blend"}
                 \/ work = Work /\ k = Len(Serving') /\ Serving'[k] = c
  <2>1. CASE k = z + 1 /\ x = 1 /\ Serving'[k] = f
    BY <1>7, <1>13, <2>1
  <2>2. CASE k = z + x + 1 /\ Serving'[k] = b
    BY <1>7, <1>14, <2>2
  <2>3. CASE /\ k = z + x + 2 /\ Len(work) = 2 /\ Serving'[k] = c /\ k = Len(Serving')
             /\ work = Work
    BY <1>15, <2>3
  <2> QED BY <1>9, <2>1, <2>2, <2>3
<1> QED BY <1>1, <1>2, <1>3, <1>6, <1>16

\* A side forward that raises: its request is void from now on.
LEMMA LayerFailsKeepsR ==
  ASSUME DInv, RInv, LayerFails
  PROVE  RInv'
<1>1. /\ pc = "layer" /\ pc' = "load" /\ turn' = turn + 1 /\ failed' = failed \cup {turn}
      /\ UNCHANGED <<step, plan, loadStream, loaded, staging, pages, stored, host, batches>>
  BY DEF LayerFails, EndRun, loaderVars, memoryVars, poolVars
<1>2. batches = {} /\ queue["store"] = <<>>
  BY <1>1, NothingSaved
<1>3. /\ Grows /\ queue'["store"] = <<>>
      /\ \A k \in (Len(Serving) + 1)..Len(Serving') :
           FoundAt(k)' /\ Serving'[k].do \in {"fill", "blend"}
  <2>1. CASE UNCHANGED streamVars
    <3>1. queue' = queue /\ given' = given
      BY <2>1 DEF streamVars
    <3>2. Grows /\ Serving' = Serving
      BY <1>1, <3>1, StillGrows
    <3>3. \A k \in (Len(Serving) + 1)..Len(Serving') : FALSE
      BY <3>2, GrowsFacts
    <3> QED BY <1>2, <3>1, <3>2, <3>3
  <2>2. ASSUME NEW work \in {<<>>, <<BlendOp>>}, GiveWork(work, Ahead)
        PROVE  /\ Grows /\ queue'["store"] = <<>>
               /\ \A k \in (Len(Serving) + 1)..Len(Serving') :
                    FoundAt(k)' /\ Serving'[k].do \in {"fill", "blend"}
    <3>1. work \in {<<>>, <<BlendOp>>, Work}
      OBVIOUS
    <3>2. work # Work
      <4>1. Len(<<>>) = 0 /\ Len(<<BlendOp>>) = 1
        BY OneOperation
      <4>2. work = Work => Len(work) = 2
        BY <3>1, WorkParts
      <4> QED BY <4>1, <4>2
    <3>3. /\ Grows /\ queue'["store"] = <<>>
          /\ \A k \in (Len(Serving) + 1)..Len(Serving') :
               /\ FoundAt(k)'
               /\ \/ Serving'[k].do \in {"fill", "blend"}
                  \/ /\ work = Work /\ k = Len(Serving')
                     /\ Serving'[k] = Op("scatter", turn, layer, NoEvent)
      BY <1>1, <2>2, <3>1, WorkFound
    <3> QED BY <3>2, <3>3
  <2> QED BY <2>1, <2>2 DEF LayerFails
<1>4. Saved'
  BY <1>1, <1>2, <1>3, SavedEmpty
<1>5. /\ plan \subseteq Slots /\ failed \subseteq Slots /\ turn \in Slots /\ turn \in Nat
      /\ turn \in 1..NumSlots /\ Len(Serving) \in Nat /\ Len(Serving') \in Nat
      /\ Len(Serving') >= Len(Serving)
  BY <1>1, <1>3, GrowsFacts, SlotsAssumption DEF RInv, STypes, Slots
<1>6. PICK k, g, n, t : /\ k = Len(Serving) + 1 /\ g = Len(Serving') + 1 /\ n = step /\ t = turn
  OBVIOUS
<1>7. ASSUME NEW i \in Slots, NEW m \in Layers
      PROVE  /\ Open(g, i, m, n)'
             /\ i < t + 1 /\ i \in plan \ (failed \cup {t}) => Blended(g, i, m, n)'
             /\ i \notin plan \/ i > t + 1 \/ i = t + 1 => Fresh(g, i, m, n)'
  <2>1. /\ Open(k, i, m, n)
        /\ i < t /\ i \in plan \ failed => Blended(k, i, m, n)
        /\ i \notin plan \/ i > t => Fresh(k, i, m, n)
    BY <1>1, <1>6 DEF RInv, Coming
  <2>2. ASSUME NEW j \in k..(g - 1)
        PROVE  ~Scatters(Serving'[j], i, m, n) /\ ~Completes(Serving'[j], m, n)
    <3>1. j \in (Len(Serving) + 1)..Len(Serving')
      BY <1>5, <1>6
    <3> QED BY <1>3, <3>1 DEF Scatters, Completes
  <2>3. /\ Open(k, i, m, n) => Open(g, i, m, n)'
        /\ Blended(k, i, m, n) => Blended(g, i, m, n)'
        /\ Fresh(k, i, m, n) => Fresh(g, i, m, n)'
    <3>1. k \in 1..(Len(Serving) + 1) /\ g \in k..(Len(Serving') + 1) /\ k = Len(Serving) + 1
      BY <1>5, <1>6
    <3> QED BY <1>3, <2>2, <3>1, Grown
  <2>4. i \in Nat /\ (i < t + 1 => i < t \/ i = t) /\ (i > t + 1 => i > t) /\ (i = t + 1 => i > t)
    BY <1>5, <1>6 DEF Slots
  <2> QED BY <2>1, <2>3, <2>4
<1>8. Coming'
  <2>1. /\ Len(Serving') + 1 = g /\ step' = n /\ turn' = t + 1 /\ pc' = "load"
        /\ plan' = plan /\ failed' = failed \cup {t}
    BY <1>1, <1>6
  <2> QED BY <1>7, <2>1 DEF Coming
<1>9. plan' \subseteq Slots /\ failed' \subseteq Slots /\ turn' \in 1..(NumSlots + 1)
      /\ pc' # "layer" /\ step' = step /\ pc # "idle"
  BY <1>1, <1>5, SlotsAssumption
<1>10. \A b \in Buffers : loaded'[b].stream # "store" /\ (~loadStream => loaded'[b] = NoEvent)
  BY <1>1 DEF RInv, Supplied
<1> QED BY <1>3, <1>4, <1>8, <1>9, <1>10, Extended

\* A layer of the side forward: its blend finds it loaded, and it is fresh before.
LEMMA LayerKeepsR ==
  ASSUME DInv, RInv, Layer
  PROVE  RInv'
<1>1. /\ pc = "layer" /\ GiveWork(Work, Ahead)
      /\ UNCHANGED <<step, plan, failed, loadStream, staging, pages, stored, host, batches>>
      /\ layer < Last => layer' = layer + 1 /\ pc' = pc /\ turn' = turn
      /\ ~(layer < Last) => pc' = "load" /\ turn' = turn + 1 /\ layer' = 0
  BY DEF Layer, EndRun, memoryVars, poolVars
<1>2. PICK x, n, t, l, z, q : /\ x = IF loadStream THEN 0 ELSE Len(Ahead)
                              /\ n = step /\ t = turn /\ l = layer /\ z = Len(Serving)
                              /\ q = Len(queue["load"])
  OBVIOUS
<1>3. PICK f, b, c : /\ f = Fill(turn, layer + 1) /\ b = BlendOp
                     /\ c = Op("scatter", turn, layer, NoEvent)
  OBVIOUS
<1>4. Work \in {<<>>, <<BlendOp>>, Work}
  OBVIOUS
<1>5. /\ Grows /\ queue'["store"] = <<>>
      /\ \A k \in (z + 1)..Len(Serving') :
           /\ FoundAt(k)'
           /\ Serving'[k].do \in {"fill", "blend"} \/ (k = Len(Serving') /\ Serving'[k] = c)
  BY <1>1, <1>2, <1>3, <1>4, WorkFound
<1>6. /\ Len(Work) = 2 /\ Work[1] = b /\ Work[2] = c
      /\ Len(Ahead) = IF l < Last THEN 1 ELSE 0
      /\ Len(Ahead) = 1 => Ahead[1] = f
  BY <1>2, <1>3, <1>4, WorkParts
<1>7. /\ z \in Nat /\ q \in Nat /\ Len(Serving') = z + x + 2
      /\ x = 1 => Serving'[z + 1] = f
      /\ Serving'[z + x + 1] = b /\ Serving'[z + x + 2] = c
      /\ loadStream /\ l < Last => given'["load"] = given["load"] + 1 /\ queue'["load"][q + 1] = f
  <2>1. /\ Len(Serving) \in Nat /\ Len(queue["load"]) \in Nat
        /\ Len(Serving') = Len(Serving) + x + Len(Work)
        /\ x = 1 => Serving'[Len(Serving) + 1] = Ahead[1]
        /\ \A j \in 1..Len(Work) : Serving'[Len(Serving) + x + j] = Work[j]
        /\ loadStream => /\ given'["load"] = given["load"] + Len(Ahead)
                         /\ Len(Ahead) = 1 => queue'["load"][Len(queue["load"]) + 1] = Ahead[1]
    BY <1>1, <1>2, <1>4, WorkGives
  <2>2. 1 \in 1..Len(Work) /\ 2 \in 1..Len(Work)
    BY <1>6
  <2>3. Serving'[z + x + 1] = Work[1] /\ Serving'[z + x + 2] = Work[2]
    BY <1>2, <2>1, <2>2
  <2>4. x = 1 => Len(Ahead) = 1
    BY <1>2, <1>6
  <2> QED BY <1>2, <1>6, <2>1, <2>3, <2>4
<1>8. /\ l \in Layers /\ l \in Nat /\ Last \in Nat /\ l <= Last /\ t \in plan /\ t \in Slots /\ t \in Nat
      /\ plan \subseteq Slots /\ failed \subseteq Slots /\ t \in 1..NumSlots /\ n \in Nat
      /\ \A m \in Layers : m \in Nat /\ m <= Last
      /\ x \in {0, 1} /\ loadStream \in BOOLEAN
  <2>1. /\ l \in Layers /\ t \in plan /\ plan \subseteq Slots /\ failed \subseteq Slots /\ n \in Nat
        /\ loadStream \in BOOLEAN
    BY <1>1, <1>2, BoundAssumption DEF DInv, DTypes, RInv, STypes
  <2>2. \A m \in Layers : m \in Nat /\ m <= Last
    BY LayersAssumption DEF Layers, Last
  <2>3. Last \in Nat /\ x \in {0, 1}
    BY <1>2, <1>6, LayersAssumption DEF Last
  <2> QED BY <2>1, <2>2, <2>3, SlotsAssumption DEF Slots
<1>9. /\ f.do = "fill" /\ f.slot = t /\ f.layer = l + 1 /\ f.step = n
      /\ ~loadStream => f.wait = NoEvent
      /\ b.do = "blend" /\ b.slot = t /\ b.layer = l /\ b.wait = loaded[l % 2]
      /\ c.do = "scatter" /\ c.slot = t /\ c.layer = l /\ c.step = n /\ c.wait = NoEvent
      /\ NoEvent.stream = "serving"
  BY <1>2, <1>3 DEF Fill, BlendOp, Op, NoEvent, Event
<1>10. PICK k, g : k = z + 1 /\ g = z + x + 3
  OBVIOUS
<1>11. /\ k \in 1..(Len(Serving) + 1) /\ g \in k..(Len(Serving') + 1) /\ k = Len(Serving) + 1
       /\ g = Len(Serving') + 1 /\ g - 1 = z + x + 2 /\ z + x + 2 \in 1..(g - 1)
       /\ g - 1 = Len(Serving')
  BY <1>2, <1>7, <1>8, <1>10
<1>12. \A j \in k..(g - 1) : Serving'[j].do \in {"fill", "blend"} \/ Serving'[j] = c
  BY <1>5, <1>10, <1>11
<1>13. ASSUME NEW i \in Slots, NEW m \in Layers
       PROVE  /\ Open(k, i, m, n) => Open(g, i, m, n)'
              /\ Blended(k, i, m, n) => Blended(g, i, m, n)'
              /\ Fresh(k, i, m, n) /\ ~(i = t /\ m = l) => Fresh(g, i, m, n)'
              /\ Blended(g, t, l, n)'
  <2>1. ASSUME NEW j \in k..(g - 1)
        PROVE  /\ ~Completes(Serving'[j], m, n)
               /\ ~(i = t /\ m = l) => ~Scatters(Serving'[j], i, m, n)
    BY <1>9, <1>12 DEF Completes, Scatters
  <2>2. Scatters(Serving'[z + x + 2], t, l, n)
    BY <1>7, <1>9 DEF Scatters
  <2>3. Blended(g, t, l, n)'
    BY <1>5, <1>8, <1>11, <2>2, Grown
  <2> QED BY <1>5, <1>11, <2>1, <2>3, Grown
<1>14. ASSUME NEW i \in Slots, NEW m \in Layers
       PROVE  /\ Open(g, i, m, n)'
              /\ i < t /\ i \in plan \ failed => Blended(g, i, m, n)'
              /\ i \notin plan \/ i > t => Fresh(g, i, m, n)'
              /\ m <= l => Blended(g, t, m, n)'
              /\ m > l => Fresh(g, t, m, n)'
  <2>1. /\ Open(k, i, m, n)
        /\ i < t /\ i \in plan \ failed => Blended(k, i, m, n)
        /\ i \notin plan \/ i > t => Fresh(k, i, m, n)
        /\ IF m < l THEN Blended(k, t, m, n) ELSE Fresh(k, t, m, n)
    BY <1>1, <1>2, <1>10 DEF RInv, Coming
  <2>2. i \in Nat /\ (i > t => i # t)
    BY <1>8 DEF Slots
  <2>3. (m <= l => m < l \/ m = l) /\ (m > l => ~(m < l) /\ m # l)
    BY <1>8
  <2>4. /\ Blended(k, t, m, n) => Blended(g, t, m, n)'
        /\ Fresh(k, t, m, n) /\ m # l => Fresh(g, t, m, n)'
        /\ Blended(g, t, l, n)'
    BY <1>8, <1>13
  <2>5. i \notin plan => i # t
    BY <1>8
  <2> QED BY <1>13, <2>1, <2>2, <2>3, <2>4, <2>5
<1>15. Coming'
  <2>1. Len(Serving') + 1 = g /\ step' = n /\ plan' = plan /\ failed' = failed
    BY <1>1, <1>2, <1>11
  <2>2. ASSUME NEW j \in 1..Len(Serving')
        PROVE  Serving'[j].do # "forward"
    <3>1. j \in 1..z \/ j \in k..(g - 1)
      BY <1>7, <1>8, <1>10, <1>11
    <3>2. CASE j \in 1..z
      <4>1. Serving'[j] = Serving[j]
        BY <1>2, <1>5, <3>2, GrowsFacts
      <4> QED BY <1>1, <1>2, <3>2, <4>1 DEF RInv, Coming
    <3>3. CASE j \in k..(g - 1)
      BY <1>9, <1>12, <3>3
    <3> QED BY <3>1, <3>2, <3>3
  <2>3. CASE l < Last
    <3>1. layer' = l + 1 /\ pc' = "layer" /\ turn' = t
      BY <1>1, <1>2, <2>3
    <3>2. \A m \in Layers : IF m < l + 1 THEN Blended(g, t, m, n)' ELSE Fresh(g, t, m, n)'
      <4> TAKE m \in Layers
      <4>1. (m < l + 1 => m <= l) /\ (~(m < l + 1) => m > l)
        BY <1>8
      <4> QED BY <1>8, <1>14, <4>1
    <3> QED BY <1>14, <2>1, <2>2, <3>1, <3>2 DEF Coming
  <2>4. CASE ~(l < Last)
    <3>1. pc' = "load" /\ turn' = t + 1 /\ l = Last
      BY <1>1, <1>2, <1>8, <2>4
    <3>2. ASSUME NEW i \in Slots, NEW m \in Layers
          PROVE  /\ Open(g, i, m, n)'
                 /\ i < t + 1 /\ i \in plan \ failed => Blended(g, i, m, n)'
                 /\ i \notin plan \/ i > t + 1 \/ i = t + 1 => Fresh(g, i, m, n)'
      <4>1. i \in Nat /\ (i < t + 1 => i < t \/ i = t) /\ (i > t + 1 => i > t) /\ (i = t + 1 => i > t)
        BY <1>8 DEF Slots
      <4>2. m <= l
        BY <1>8, <3>1
      <4> QED BY <1>14, <4>1, <4>2
    <3> QED BY <2>1, <3>1, <3>2 DEF Coming
  <2> QED BY <2>3, <2>4
<1>16. Saved'
  BY <1>1, <1>5, NothingSaved, SavedEmpty
<1>17. \A y \in Buffers : loaded'[y].stream # "store" /\ (~loadStream => loaded'[y] = NoEvent)
  <2>1. CASE loadStream
    <3>1. loaded' = [y \in Buffers |-> IF y # layer % 2 /\ layer < Last
                       THEN Event("load", given["load"] + 1) ELSE NoEvent]
      BY <2>1 DEF Layer
    <3> QED BY <2>1, <3>1 DEF Event, NoEvent
  <2>2. CASE ~loadStream
    BY <2>2 DEF Layer, RInv, Supplied
  <2> QED BY <1>8, <2>1, <2>2
<1>18. ASSUME l < Last, NEW w, w = loaded'[(l + 1) % 2]
       PROVE  SupplyAt(g, t, l + 1, w)'
  <2>1. l + 1 \in Layers /\ (l + 1) % 2 # l % 2 /\ (l + 1) % 2 \in Buffers
    BY <1>8, <1>18, LayersAssumption, Parity DEF Layers, Last
  <2>3. CASE loadStream
    <3>1. w.stream = "load" /\ w.after = given["load"] + 1
      <4>1. loaded' = [y \in Buffers |-> IF y # layer % 2 /\ layer < Last
                         THEN Event("load", given["load"] + 1) ELSE NoEvent]
        BY <2>3 DEF Layer
      <4> QED BY <1>2, <1>18, <2>1, <4>1 DEF Event
    <3>2. /\ given["load"] \in Nat /\ Done("load") \in Nat
          /\ Done("load") + q = given["load"] /\ Done("load")' = Done("load")
      BY <1>2, <1>5, GrowsFacts
    <3>3. /\ w.after > Done("load") /\ w.after - Done("load") = q + 1
          /\ w.after >= 1 /\ w.after <= given'["load"]
      <4>1. given'["load"] = given["load"] + 1
        BY <1>7, <1>18, <2>3
      <4>2. PICK d, u : d = Done("load") /\ u = given["load"]
        OBVIOUS
      <4>3. d \in Nat /\ u \in Nat /\ q \in Nat /\ d + q = u /\ w.after = u + 1
        BY <1>7, <3>1, <3>2, <4>2
      <4>4. w.after > d /\ w.after - d = q + 1 /\ w.after >= 1 /\ w.after <= u + 1
        BY <4>3
      <4> QED BY <4>1, <4>2, <4>4
    <3>4. Fills(queue'["load"][w.after - Done("load")], t, l + 1)
      BY <1>7, <1>9, <1>18, <2>3, <3>3 DEF Fills
    <3>5. ASSUME NEW j \in 1..(g - 1), Serving'[j].wait.stream = "load"
          PROVE  Serving'[j].wait.after < w.after
      <4>1. FoundAt(j)'
        <5>1. j \in 1..z \/ j \in (z + 1)..Len(Serving')
          BY <1>7, <1>8, <1>11
        <5> QED BY <1>1, <1>2, <1>5, <5>1, FoundStays
      <4>2. Serving'[j].do = "blend"
        BY <1>9, <3>5, <4>1 DEF FoundAt
      <4>3. CASE j \in 1..z
        <5>1. Serving'[j] = Serving[j] /\ Serving[j].wait.after \in Nat
          BY <1>2, <1>5, <4>3, GrowsFacts
        <5>2. SupplyAt(j, Serving[j].slot, Serving[j].layer, Serving[j].wait)
          BY <1>2, <4>2, <4>3, <5>1 DEF RInv, Supplied
        <5>3. Serving[j].wait.after <= given["load"]
          BY <2>3, <5>2 DEF SupplyAt
        <5> QED BY <3>1, <3>2, <5>1, <5>3
      <4>4. CASE j \in (z + 1)..Len(Serving')
        <5>1. PICK i, m, v : i = t /\ m = l /\ v = loaded[l % 2]
          OBVIOUS
        <5>2. Serving'[j].wait = v
          <6>1. j = z + x + 1
            <7>1. j # z + x + 2
              BY <1>7, <1>9, <4>2
            <7>2. j = z + 1 => x # 1
              BY <1>7, <1>9, <4>2
            <7> QED BY <1>7, <1>8, <4>4, <7>1, <7>2
          <6> QED BY <1>7, <1>9, <5>1, <6>1
        <5>3. SupplyAt(z + 1, i, m, v)
          BY <1>1, <1>2, <5>1 DEF RInv, Supplied
        <5>4. v.after <= given["load"] /\ v.after \in Nat
          <6>1. v \in Events
            BY <1>8, <5>1, LayerParity DEF DInv, DTypes
          <6> QED BY <2>3, <5>3, <6>1 DEF SupplyAt, Events
        <5> QED BY <3>1, <3>2, <5>2, <5>4
      <4>5. j \in 1..z \/ j \in (z + 1)..Len(Serving')
        BY <1>7, <1>8, <1>11
      <4> QED BY <4>3, <4>4, <4>5
    <3>6. SupplyAt(g, t, l + 1, w)'
      BY <1>5, <2>3, <3>1, <3>2, <3>3, <3>4, <3>5 DEF SupplyAt, Fills, Grows
    <3> QED BY <3>6
  <2>4. CASE ~loadStream
    <3>1. x = 1 /\ z + 1 \in 1..(g - 1) /\ Serving'[z + 1] = f
      BY <1>2, <1>6, <1>7, <1>11, <1>18, <2>4
    <3>2. Fills(Serving'[z + 1], t, l + 1)
      BY <1>9, <3>1 DEF Fills
    <3>3. ASSUME NEW h \in ((z + 1) + 1)..(g - 1)
          PROVE  ~Touches(Serving'[h], (l + 1) % 2)
      <4>1. h = z + x + 1 \/ h = z + x + 2
        BY <1>7, <1>11, <3>1
      <4>2. Serving'[h].layer = l
        BY <1>7, <1>9, <4>1
      <4> QED BY <2>1, <4>2 DEF Touches
    <3>4. SupplyAt(g, t, l + 1, w)'
      BY <1>5, <2>4, <3>1, <3>2, <3>3 DEF SupplyAt, Fills, Touches, Grows
    <3> QED BY <3>4
  <2> QED BY <1>8, <2>3, <2>4
<1>19. (pc = "layer" => SupplyAt(Len(Serving) + 1, turn, layer, loaded[layer % 2]))'
  <2>1. ASSUME pc' = "layer"
        PROVE  SupplyAt(Len(Serving) + 1, turn, layer, loaded[layer % 2])'
    <3>1. l < Last /\ layer' = l + 1 /\ turn' = t
      BY <1>1, <1>2, <2>1
    <3>2. PICK w : w = loaded'[(l + 1) % 2]
      OBVIOUS
    <3>3. SupplyAt(g, t, l + 1, w)'
      BY <1>18, <3>1, <3>2
    <3>4. Len(Serving') + 1 = g /\ loaded'[layer' % 2] = w
      BY <1>11, <3>1, <3>2
    <3> QED BY <3>1, <3>3, <3>4
  <2> QED BY <2>1
<1>20. /\ plan' \subseteq Slots /\ failed' \subseteq Slots /\ turn' \in 1..(NumSlots + 1)
       /\ pc' = "layer" => turn' \in plan'
       /\ step' = step /\ pc # "idle"
  <2>1. turn' \in {t, t + 1} /\ (pc' = "layer" => turn' = t)
    BY <1>1, <1>2
  <2>2. t \in 1..(NumSlots + 1) /\ t + 1 \in 1..(NumSlots + 1)
    BY <1>8, SlotsAssumption
  <2> QED BY <1>1, <1>8, <2>1, <2>2
<1> QED BY <1>2, <1>5, <1>15, <1>16, <1>17, <1>19, <1>20, Extended

-----------------------------------------------------------------------------
(* The forward: what is given to the store                                 *)

\* The requests that save have the places from 1 on, one each.
LEMMA SavePlaces ==
  ASSUME DTypes
  PROVE  /\ Cardinality(save) \in Nat
         /\ \A i \in save : Place(i) \in 1..Cardinality(save)
         /\ \A i, j \in save : Place(i) = Place(j) => i = j
         /\ \A p \in 1..Cardinality(save) : \E i \in save : Place(i) = p
<1> DEFINE c == Cardinality(save)
           U(i) == {j \in save : j <= i}
<1>1. IsFiniteSet(save) /\ c \in Nat /\ save \subseteq Int
  <2>1. IsFiniteSet(Slots) /\ Slots \subseteq Int
    BY SlotsAssumption, FS_Interval DEF Slots
  <2>2. save \subseteq Slots
    BY DEF DTypes
  <2>3. IsFiniteSet(save)
    BY <2>1, <2>2, FS_Subset
  <2> QED BY <2>1, <2>2, <2>3, FS_CardinalityType
<1>2. ASSUME NEW i \in save
      PROVE  /\ U(i) \in SUBSET save /\ i \in U(i) /\ IsFiniteSet(U(i))
             /\ Cardinality(U(i)) \in 1..c
  <2>1. U(i) \in SUBSET save /\ i \in U(i)
    BY <1>1
  <2>2. IsFiniteSet(U(i)) /\ Cardinality(U(i)) <= c
    BY <1>1, <2>1, FS_Subset
  <2>3. Cardinality(U(i)) \in Nat /\ Cardinality(U(i)) # 0
    BY <2>1, <2>2, FS_CardinalityType, FS_EmptySet
  <2> HIDE DEF U, c
  <2> QED BY <1>1, <2>1, <2>2, <2>3
<1>3. ASSUME NEW i \in save, NEW j \in save, i < j
      PROVE  Cardinality(U(i)) # Cardinality(U(j))
  <2>1. U(i) \in SUBSET U(j) /\ j \in U(j) /\ j \notin U(i)
    <3>1. i \in Int /\ j \in Int /\ j <= j /\ ~(j <= i)
      BY <1>1, <1>3
    <3>2. \A k \in save : k <= i => k <= j
      BY <1>1, <1>3, <3>1
    <3> QED BY <3>1, <3>2
  <2>2. IsFiniteSet(U(j))
    BY <1>2
  <2> HIDE DEF U
  <2>3. Cardinality(U(j)) = Cardinality(U(i)) => U(j) = U(i)
    BY <2>1, <2>2, FS_Subset
  <2> QED BY <2>1, <2>3
<1>4. ASSUME NEW i \in save, NEW j \in save, Cardinality(U(i)) = Cardinality(U(j))
      PROVE  i = j
  <2>1. ~(i < j) /\ ~(j < i)
    BY <1>3, <1>4
  <2> QED BY <1>1, <2>1
<1> DEFINE f == [i \in save |-> Cardinality(U(i))]
<1>5. f \in Injection(save, 1..c)
  <2> HIDE DEF U, c
  <2>1. f \in [save -> 1..c] /\ \A i, j \in save : f[i] = f[j] => i = j
    BY <1>2, <1>4
  <2> HIDE DEF f
  <2> QED BY <2>1 DEF Injection, IsInjective
<1>6. f \in Surjection(save, 1..c)
  <2> HIDE DEF f
  <2>1. IsFiniteSet(1..c) /\ Cardinality(1..c) = c
    BY <1>1, FS_Interval
  <2> QED BY <1>5, <2>1, FS_Injection
<1>7. \A p \in 1..c : \E i \in save : Cardinality(U(i)) = p
  <2> HIDE DEF U, c
  <2> QED BY <1>6 DEF Surjection
<1>8. \A i : Place(i) = Cardinality(U(i))
  BY DEF Place
<1> HIDE DEF U
<1> QED BY <1>1, <1>2, <1>4, <1>7, <1>8

\* Of each request that saves there is a gather, and the copy comes next to it.
LEMMA GathersPlaces ==
  ASSUME DTypes, NEW wait \in Events
  PROVE  /\ Len(Gathers(wait)) = 2 * Cardinality(save)
         /\ \A k \in 1..Len(Gathers(wait)) :
              /\ Gathers(wait)[k].slot \in Slots
              /\ Gathers(wait)[k].do = "copy" =>
                   /\ k - 1 \in 1..Len(Gathers(wait)) /\ Gathers(wait)[k - 1].do = "gather"
                   /\ Gathers(wait)[k - 1].slot = Gathers(wait)[k].slot
         /\ \A i \in save : /\ 2 * Place(i) \in 1..Len(Gathers(wait))
                            /\ Gathers(wait)[2 * Place(i)].do = "copy"
                            /\ Gathers(wait)[2 * Place(i)].slot = i
<1> DEFINE c == Cardinality(save)
           q == Gathers(wait)
           Who(p) == CHOOSE i \in save : Place(i) = p
<1>1. /\ c \in Nat
      /\ \A i \in save : Place(i) \in 1..c
      /\ \A i, j \in save : Place(i) = Place(j) => i = j
      /\ \A p \in 1..c : \E i \in save : Place(i) = p
      /\ save \subseteq Slots
  BY SavePlaces DEF DTypes
<1>2. /\ DOMAIN q = 1..(2 * c)
      /\ \A k \in 1..(2 * c) : /\ q[k].do = IF k % 2 = 1 THEN "gather" ELSE "copy"
                               /\ q[k].slot = Who((k + 1) \div 2)
  BY DEF Gathers, Op
<1>3. Row(q) /\ Len(q) \in Nat
  BY GathersFacts
<1> HIDE DEF c, q
<1>4. 2 * c \in Nat
  BY <1>1
<1>5. Len(q) = 2 * c
  <2>1. 1..Len(q) = 1..(2 * c)
    BY <1>2, <1>3, RowFacts
  <2> QED BY <1>3, <1>4, <2>1
<1>6. \A p \in 1..c : Who(p) \in save /\ Place(Who(p)) = p
  BY <1>1
<1>7. \A i \in save : Who(Place(i)) = i
  <2> TAKE i \in save
  <2>1. Who(Place(i)) \in save /\ Place(Who(Place(i))) = Place(i)
    BY <1>1, <1>6
  <2> QED BY <1>1, <2>1
<1> HIDE DEF Who
<1>8. ASSUME NEW k \in 1..(2 * c)
      PROVE  /\ q[k].slot \in Slots
             /\ q[k].do = "copy" =>
                  k - 1 \in 1..(2 * c) /\ q[k - 1].do = "gather" /\ q[k - 1].slot = q[k].slot
  <2>1. (k + 1) \div 2 \in 1..c
    BY <1>1
  <2>2. k % 2 # 1 => k - 1 \in 1..(2 * c) /\ (k - 1) % 2 = 1 /\ ((k - 1) + 1) \div 2 = (k + 1) \div 2
    BY <1>1
  <2>3. q[k].slot \in Slots
    BY <1>1, <1>2, <1>6, <2>1
  <2>4. ASSUME q[k].do = "copy"
        PROVE  k - 1 \in 1..(2 * c) /\ q[k - 1].do = "gather" /\ q[k - 1].slot = q[k].slot
    <3>1. k % 2 # 1
      BY <1>2, <2>4
    <3>2. PICK h : h = k - 1
      OBVIOUS
    <3>3. h \in 1..(2 * c) /\ h % 2 = 1 /\ (h + 1) \div 2 = (k + 1) \div 2
      BY <2>2, <3>1, <3>2
    <3>4. q[h].do = "gather" /\ q[h].slot = q[k].slot
      BY <1>2, <3>3
    <3> QED BY <3>2, <3>3, <3>4
  <2> QED BY <2>3, <2>4
<1>9. ASSUME NEW i \in save
      PROVE  2 * Place(i) \in 1..(2 * c) /\ q[2 * Place(i)].do = "copy" /\ q[2 * Place(i)].slot = i
  <2>1. PICK p : p = Place(i)
    OBVIOUS
  <2>2. p \in 1..c
    BY <1>1, <2>1
  <2>3. 2 * p \in 1..(2 * c) /\ (2 * p) % 2 = 0 /\ (2 * p + 1) \div 2 = p
    BY <1>1, <2>2
  <2>4. Who(p) = i
    BY <1>7, <2>1
  <2> QED BY <1>2, <2>1, <2>3, <2>4
<1> QED BY <1>5, <1>8, <1>9 DEF c, q

\* What a layer of the forward gives the streams.
LEMMA ForwardGives ==
  ASSUME DInv, Forward, NEW wait, wait = Event("serving", given["serving"] + 1)
  PROVE  /\ Grows
         /\ Len(Serving) \in Nat
         /\ Len(Serving') = Len(Serving) + 1 /\ Serving'[Len(Serving) + 1] = ForwardOp
         /\ Len(queue["store"]) \in Nat /\ Cardinality(save) \in Nat /\ Done("store") \in Nat
         /\ Done("store") + Len(queue["store"]) = given["store"]
         /\ Done("store")' = Done("store") /\ given'["load"] = given["load"]
         /\ Len(queue'["store"]) = Len(queue["store"]) + 2 * Cardinality(save)
         /\ given'["store"] = given["store"] + 2 * Cardinality(save)
         /\ \A m \in 1..Len(queue["store"]) : queue'["store"][m] = queue["store"][m]
         /\ \A k \in 1..Len(Gathers(wait)) :
              queue'["store"][Len(queue["store"]) + k] = Gathers(wait)[k]
<1> DEFINE f == <<ForwardOp>>
           e == <<>>
           g == Gathers(wait)
<1>1. /\ "serving" \in Streams /\ "load" \in Streams /\ "store" \in Streams
      /\ DTypes /\ layer \in Layers /\ given["serving"] \in Nat
      /\ UNCHANGED <<loadStream, staging, pages, stored, host>>
      /\ Give(f, e, g)
  BY DEF Streams, DInv, DTypes, Forward, ForwardWith, loaderVars, memoryVars
<1>2. wait \in Events
  BY <1>1, EventTypes
<1>3. /\ Row(g) /\ Len(g) \in Nat
      /\ \A k \in 1..Len(g) : Shaped(g[k], "store")
      /\ Len(g) = 2 * Cardinality(save) /\ Cardinality(save) \in Nat
  BY <1>1, <1>2, GathersFacts, GathersPlaces, SavePlaces
<1>4. /\ Row(f) /\ Len(f) = 1 /\ f[1] = ForwardOp /\ Row(e) /\ Len(e) = 0
      /\ \A i \in 1..Len(f) : Shaped(f[i], "serving")
      /\ \A i \in 1..Len(e) : Shaped(e[i], "load")
  <2>1. Row(f) /\ Len(f) = 1 /\ f[1] = ForwardOp /\ Row(e) /\ Len(e) = 0
    BY OneOperation
  <2>2. Shaped(ForwardOp, "serving")
    BY <1>1, EventTypes DEF ForwardOp, Shaped, Kinds
  <2> HIDE DEF f, e
  <2> QED BY <2>1, <2>2
<1> HIDE DEF f, e, g
<1>5. /\ queue'["serving"] = queue["serving"] \o f
      /\ queue'["store"] = queue["store"] \o g
      /\ Longer /\ given'["load"] = given["load"]
  <2>1. /\ queue'["serving"] = queue["serving"] \o f
        /\ queue'["store"] = queue["store"] \o g
        /\ Longer /\ given'["load"] = given["load"] + Len(e)
    BY <1>1, <1>3, <1>4, GiveQueues
  <2>2. given["load"] \in Nat
    BY <1>1, QueueTypes
  <2> QED BY <1>4, <2>1, <2>2
<1>6. /\ Row(queue["serving"]) /\ Row(queue["store"])
      /\ Len(queue["serving"]) \in Nat /\ Len(queue["store"]) \in Nat
      /\ Done("store") \in Nat /\ Done("store") + Len(queue["store"]) = given["store"]
  BY <1>1, QueueTypes
<1>7. /\ Len(queue'["serving"]) = Len(queue["serving"]) + Len(f)
      /\ \A j \in 1..(Len(queue["serving"]) + Len(f)) :
           j > Len(queue["serving"]) => queue'["serving"][j] = f[j - Len(queue["serving"])]
  <2>1. /\ Len(queue["serving"] \o f) = Len(queue["serving"]) + Len(f)
        /\ \A j \in 1..(Len(queue["serving"]) + Len(f)) :
             j > Len(queue["serving"]) => (queue["serving"] \o f)[j] = f[j - Len(queue["serving"])]
    <3>1. Row(f) /\ Row(queue["serving"])
      BY <1>4, <1>6
    <3> QED BY <3>1, RowJoin
  <2> QED BY <1>5, <2>1
<1>8. /\ Len(queue'["store"]) = Len(queue["store"]) + Len(g)
      /\ \A j \in 1..(Len(queue["store"]) + Len(g)) :
           j > Len(queue["store"]) => queue'["store"][j] = g[j - Len(queue["store"])]
  <2>1. /\ Len(queue["store"] \o g) = Len(queue["store"]) + Len(g)
        /\ \A j \in 1..(Len(queue["store"]) + Len(g)) :
             j > Len(queue["store"]) => (queue["store"] \o g)[j] = g[j - Len(queue["store"])]
    BY <1>3, <1>6, RowJoin
  <2> QED BY <1>5, <2>1
<1>9. Len(Serving') = Len(Serving) + 1 /\ Serving'[Len(Serving) + 1] = ForwardOp
  <2>1. PICK z : z = Len(queue["serving"])
    OBVIOUS
  <2>2. z \in Nat /\ z + 1 \in 1..(z + Len(f)) /\ z + 1 > z /\ (z + 1) - z = 1
    BY <1>4, <1>6, <2>1
  <2> QED BY <1>4, <1>7, <2>1, <2>2 DEF Serving
<1>10. ASSUME NEW k \in 1..Len(g)
       PROVE  queue'["store"][Len(queue["store"]) + k] = g[k]
  <2>1. PICK z : z = Len(queue["store"])
    OBVIOUS
  <2>2. z + k \in 1..(z + Len(g)) /\ z + k > z /\ (z + k) - z = k
    BY <1>3, <1>6, <2>1
  <2> QED BY <1>8, <2>1, <2>2
<1>11. /\ Done("store")' = Done("store")
       /\ Done("store") + Len(queue'["store"]) = given'["store"]
       /\ \A m \in 1..Len(queue["store"]) : queue'["store"][m] = queue["store"][m]
  BY <1>1, <1>5 DEF Longer
<1>12. given'["store"] = given["store"] + 2 * Cardinality(save)
  BY <1>3, <1>6, <1>8, <1>11
<1>13. Grows
  BY <1>1, <1>5 DEF Grows
<1> QED BY <1>3, <1>5, <1>6, <1>8, <1>9, <1>10, <1>11, <1>12, <1>13 DEF Serving, g

\* What the store gets for a layer of the forward, copies behind their gathers and
\* batches behind their copies.
LEMMA ForwardSaves ==
  ASSUME DInv, RInv, Forward
  PROVE  Saved'
<1>1. PICK wait : wait = Event("serving", given["serving"] + 1)
  OBVIOUS
<1>2. /\ pc = "forward" /\ layer \in Layers /\ layer \in Nat /\ DTypes /\ save \subseteq Slots
      /\ UNCHANGED <<step, pages, stored, host>>
      /\ batches' = batches \cup {[slot |-> i, layer |-> layer, copied |-> BatchEvent(i)] : i \in save}
      /\ pc' \in {"forward", "wait"} /\ (pc' = "forward" => layer' = layer + 1)
  BY LayersAssumption DEF Forward, ForwardWith, DInv, DTypes, Layers, memoryVars
<1>3. PICK y, d, c, u : y = Len(queue["store"]) /\ d = Done("store") /\ c = Cardinality(save)
                        /\ u = given["store"]
  OBVIOUS
<1>4. /\ y \in Nat /\ c \in Nat /\ d \in Nat /\ d + y = u /\ Done("store")' = d
      /\ Len(queue'["store"]) = y + 2 * c /\ given'["store"] = u + 2 * c
      /\ \A m \in 1..y : queue'["store"][m] = queue["store"][m]
      /\ \A k \in 1..Len(Gathers(wait)) : queue'["store"][y + k] = Gathers(wait)[k]
  BY <1>1, <1>2, <1>3, ForwardGives
<1>5. wait \in Events
  <2>1. given["serving"] \in Nat
    BY <1>2 DEF DTypes, Streams
  <2> QED BY <1>1, <2>1, EventTypes DEF Streams
<1> DEFINE g == Gathers(wait)
<1>6. /\ Len(g) = 2 * c
      /\ \A k \in 1..Len(g) :
           /\ g[k].slot \in Slots /\ g[k].layer = layer
           /\ g[k].do = "copy" => k - 1 \in 1..Len(g) /\ g[k - 1].do = "gather" /\ g[k - 1].slot = g[k].slot
      /\ \A i \in save : 2 * Place(i) \in 1..Len(g) /\ g[2 * Place(i)].do = "copy" /\ g[2 * Place(i)].slot = i
  BY <1>2, <1>3, <1>5, GathersPlaces, GathersFacts
<1> HIDE DEF g
<1>7. \A i, l : Final(i, l)' <=> Final(i, l)
  BY <1>2 DEF Final
<1>8. ASSUME NEW m \in 1..Len(queue'["store"]), NEW o, o = queue'["store"][m]
      PROVE  /\ o.slot \in Slots
             /\ o.do = "copy" =>
                  IF m = 1 THEN /\ Final(o.slot, o.layer)'
                                /\ stored'[o.slot] = <<o.layer, pages'[o.slot][o.layer]>>
                  ELSE LET p == queue'["store"][m - 1] IN
                       p.do = "gather" /\ p.slot = o.slot /\ p.layer = o.layer
  <2>1. CASE m \in 1..y
    <3>1. m \in 1..Len(queue["store"]) /\ o = queue["store"][m]
      BY <1>3, <1>4, <1>8, <2>1
    <3>2. /\ o.slot \in Slots
          /\ o.do = "copy" =>
               IF m = 1 THEN Final(o.slot, o.layer) /\ stored[o.slot] = <<o.layer, pages[o.slot][o.layer]>>
               ELSE LET p == queue["store"][m - 1] IN
                    p.do = "gather" /\ p.slot = o.slot /\ p.layer = o.layer
      BY <3>1 DEF RInv, Saved
    <3>3. m # 1 => queue'["store"][m - 1] = queue["store"][m - 1]
      <4>1. m # 1 => m - 1 \in 1..y
        BY <1>4, <2>1
      <4> QED BY <1>4, <4>1
    <3> QED BY <1>2, <1>7, <3>2, <3>3
  <2>2. CASE m \notin 1..y
    <3>1. PICK k : k = m - y
      OBVIOUS
    <3>2. k \in 1..Len(g) /\ m = y + k
      <4>1. m \in 1..(y + 2 * c)
        BY <1>4
      <4>2. m \in Nat /\ m > y /\ m <= y + 2 * c
        BY <1>4, <2>2, <4>1
      <4>3. k \in 1..(2 * c) /\ m = y + k
        BY <1>4, <3>1, <4>2
      <4> QED BY <1>6, <4>3
    <3>3. o = g[k]
      BY <1>4, <1>8, <3>2 DEF g
    <3>4. ASSUME o.do = "copy"
          PROVE  /\ m # 1 /\ queue'["store"][m - 1].do = "gather"
                 /\ queue'["store"][m - 1].slot = o.slot /\ queue'["store"][m - 1].layer = o.layer
      <4>1. k - 1 \in 1..Len(g) /\ g[k - 1].do = "gather" /\ g[k - 1].slot = o.slot
        BY <1>6, <3>2, <3>3, <3>4
      <4>2. m - 1 = y + (k - 1) /\ m # 1
        BY <1>4, <1>6, <3>2, <4>1
      <4>3. queue'["store"][m - 1] = g[k - 1]
        BY <1>4, <4>1, <4>2 DEF g
      <4> QED BY <1>6, <3>2, <3>3, <4>1, <4>2, <4>3
    <3> QED BY <1>6, <3>2, <3>3, <3>4
  <2> QED BY <2>1, <2>2
<1>9. ASSUME NEW b \in batches'
      PROVE  /\ b.slot \in Slots /\ b.layer \in Layers
             /\ pc' = "forward" => b.layer < layer'
             /\ b.copied.stream = "store" /\ b.copied.after \in 1..given'["store"]
             /\ IF b.copied.after > d
                THEN LET o == queue'["store"][b.copied.after - d] IN
                     o.do = "copy" /\ o.slot = b.slot /\ o.layer = b.layer
                ELSE Final(b.slot, b.layer)' /\ host'[b.slot][b.layer] = pages'[b.slot][b.layer]
  <2>1. CASE b \in batches
    <3>1. /\ b.slot \in Slots /\ b.layer \in Layers /\ b.layer < layer
          /\ b.copied.stream = "store" /\ b.copied.after \in 1..u
          /\ IF b.copied.after > d
             THEN LET o == queue["store"][b.copied.after - d] IN
                  o.do = "copy" /\ o.slot = b.slot /\ o.layer = b.layer
             ELSE Final(b.slot, b.layer) /\ host[b.slot][b.layer] = pages[b.slot][b.layer]
      BY <1>2, <1>3, <2>1 DEF RInv, Saved
    <3>2. b.copied.after \in 1..given'["store"] /\ (b.copied.after > d => b.copied.after - d \in 1..y)
      <4>1. PICK a : a = b.copied.after
        OBVIOUS
      <4>2. a \in 1..u
        BY <3>1, <4>1
      <4>3. a \in 1..(u + 2 * c) /\ (a > d => a - d \in 1..y)
        BY <1>4, <4>2
      <4> QED BY <1>4, <4>1, <4>3
    <3>3. pc' = "forward" => b.layer < layer'
      <4>1. b.layer \in Nat
        BY <3>1, LayerParity
      <4>2. b.layer < layer + 1
        BY <1>2, <3>1, <4>1
      <4> QED BY <1>2, <4>2
    <3>4. b.copied.after > d => queue'["store"][b.copied.after - d] = queue["store"][b.copied.after - d]
      BY <1>4, <3>2
    <3> QED BY <1>2, <1>7, <3>1, <3>2, <3>3, <3>4
  <2>2. ASSUME NEW i \in save, b = [slot |-> i, layer |-> layer, copied |-> BatchEvent(i)]
        PROVE  /\ b.slot \in Slots /\ b.layer \in Layers
               /\ pc' = "forward" => b.layer < layer'
               /\ b.copied.stream = "store" /\ b.copied.after \in 1..given'["store"]
               /\ b.copied.after > d
               /\ LET o == queue'["store"][b.copied.after - d] IN
                  o.do = "copy" /\ o.slot = b.slot /\ o.layer = b.layer
    <3>1. PICK k : k = 2 * Place(i)
      OBVIOUS
    <3>2. /\ b.slot = i /\ b.layer = layer /\ b.copied.stream = "store" /\ b.copied.after = u + k
      BY <1>3, <2>2, <3>1 DEF BatchEvent, Event
    <3>3. k \in 1..Len(g) /\ g[k].do = "copy" /\ g[k].slot = i /\ g[k].layer = layer
      BY <1>6, <3>1
    <3>4. u + k \in 1..(u + 2 * c) /\ u + k > d /\ (u + k) - d = y + k
      BY <1>4, <1>6, <3>3
    <3>5. queue'["store"][y + k] = g[k]
      BY <1>4, <3>3 DEF g
    <3>6. pc' = "forward" => layer < layer'
      BY <1>2
    <3> QED BY <1>2, <1>4, <3>2, <3>3, <3>4, <3>5, <3>6
  <2>3. b \in batches \/ \E i \in save : b = [slot |-> i, layer |-> layer, copied |-> BatchEvent(i)]
    BY <1>2
  <2> QED BY <2>1, <2>2, <2>3
<1> QED BY <1>2, <1>4, <1>8, <1>9 DEF Saved

\* A layer of the forward: it is completed after it, and the later ones are open.
LEMMA ForwardKeepsR ==
  ASSUME DInv, RInv, Forward
  PROVE  RInv'
<1>1. /\ pc = "forward" /\ layer \in Layers /\ layer \in Nat /\ Last \in Nat /\ layer <= Last
      /\ UNCHANGED <<step, plan, save, failed, turn, loadStream, loaded, pages>>
      /\ layer < Last => layer' = layer + 1 /\ pc' = "forward"
      /\ ~(layer < Last) => layer' = 0 /\ pc' = "wait"
      /\ \A m \in Layers : m \in Nat /\ m <= Last
  BY LayersAssumption DEF Forward, ForwardWith, DInv, DTypes, Layers, Last, loaderVars, memoryVars
<1>2. PICK z, n, l, P, V, o : /\ z = Len(Serving) /\ n = step /\ l = layer /\ P = plan /\ V = failed
                              /\ o = ForwardOp
  OBVIOUS
<1>3. Grows /\ z \in Nat /\ Len(Serving') = z + 1 /\ Serving'[z + 1] = o
  <2>1. PICK wait : wait = Event("serving", given["serving"] + 1)
    OBVIOUS
  <2> QED BY <1>2, <2>1, ForwardGives
<1>4. /\ o.do = "forward" /\ o.layer = l /\ o.step = n /\ o.plan = P /\ o.void = V
      /\ o.wait = NoEvent /\ NoEvent.stream = "serving"
  BY <1>2 DEF ForwardOp, NoEvent, Event
<1>5. PICK k, g : k = z + 1 /\ g = z + 2
  OBVIOUS
<1>6. /\ k \in 1..(Len(Serving) + 1) /\ k = Len(Serving) + 1 /\ k \in k..(Len(Serving') + 1)
      /\ g \in k..(Len(Serving') + 1) /\ g = Len(Serving') + 1 /\ k \in 1..(g - 1)
      /\ \A j \in k..(k - 1) : FALSE
      /\ \A j \in k..(g - 1) : Serving'[j] = o
  BY <1>2, <1>3, <1>5
<1>7. ASSUME NEW i \in Slots, NEW m \in Layers
      PROVE  /\ m < l => Complete(k, i, m, n)
             /\ m >= l => Open(k, i, m, n)
             /\ m >= l /\ i \in P \ V => Blended(k, i, m, n)
             /\ m >= l /\ i \notin P => Fresh(k, i, m, n)
  <2>1. ForwardAt(k, n, l, P, V)
    BY <1>1, <1>2, <1>6 DEF RInv, Coming
  <2> QED BY <2>1 DEF ForwardAt
<1>8. ASSUME NEW i \in Slots, NEW m \in Layers
      PROVE  /\ m < l => Complete(k, i, m, n)'
             /\ m >= l => Open(k, i, m, n)'
             /\ m >= l /\ i \in P \ V => Blended(k, i, m, n)'
             /\ m >= l /\ i \notin P => Fresh(k, i, m, n)'
  <2>1. /\ Complete(k, i, m, n) => Complete(k, i, m, n)'
        /\ Open(k, i, m, n) => Open(k, i, m, n)'
        /\ Blended(k, i, m, n) => Blended(k, i, m, n)'
        /\ Fresh(k, i, m, n) => Fresh(k, i, m, n)'
    BY <1>3, <1>6, Grown
  <2> QED BY <1>7, <2>1
<1>9. ASSUME NEW i \in Slots, NEW m \in Layers
      PROVE  /\ m <= l => Complete(g, i, m, n)'
             /\ m > l => Open(g, i, m, n)'
             /\ m > l /\ i \in P \ V => Blended(g, i, m, n)'
             /\ m > l /\ i \notin P => Fresh(g, i, m, n)'
  <2>1. (m <= l => m < l \/ m = l) /\ (m > l => m >= l /\ m # l)
    BY <1>1, <1>2
  <2>2. m = l => Completes(Serving'[k], m, n)
    BY <1>4, <1>6 DEF Completes
  <2>3. \A j \in k..(g - 1) : ~Scatters(Serving'[j], i, m, n)
    BY <1>4, <1>6 DEF Scatters
  <2>4. m # l => \A j \in k..(g - 1) : ~Completes(Serving'[j], m, n)
    BY <1>4, <1>6 DEF Completes
  <2>5. /\ Complete(k, i, m, n) => Complete(g, i, m, n)'
        /\ Open(k, i, m, n) /\ m # l => Open(g, i, m, n)'
        /\ Blended(k, i, m, n) => Blended(g, i, m, n)'
        /\ Fresh(k, i, m, n) => Fresh(g, i, m, n)'
        /\ m = l => Complete(g, i, m, n)'
    BY <1>3, <1>6, <2>2, <2>3, <2>4, Grown
  <2> QED BY <1>7, <2>1, <2>5
<1>10. FoundAt(k)'
  <2>1. n \in 1..n /\ n \in Nat /\ step' = n
    <3>1. step \in 0..MaxSteps /\ step # 0
      BY <1>1 DEF RInv, STypes
    <3> QED BY <1>1, <1>2, <3>1, BoundAssumption
  <2>2. \A i \in Slots, m \in Layers : pages'[i][m][1] <= n
    BY <1>1, <1>2 DEF RInv, OldPages
  <2>3. ASSUME NEW j \in 1..k
        PROVE  Serving'[j].step <= n
    <3>1. CASE j \in 1..z
      <4>1. Serving'[j] = Serving[j]
        BY <1>2, <1>3, <3>1, GrowsFacts
      <4>2. Serving[j].step \in 1..n
        BY <1>2, <3>1 DEF RInv, STypes
      <4> QED BY <2>1, <4>1, <4>2
    <3>2. CASE j \notin 1..z
      <4>1. j = k
        BY <1>3, <1>5, <3>2
      <4> QED BY <1>3, <1>4, <1>5, <2>1, <4>1
    <3> QED BY <3>1, <3>2
  <2>4. ForwardAt(k, n, l, P, V)'
    BY <1>8 DEF ForwardAt
  <2>5. Serving'[k] = o
    BY <1>3, <1>5
  <2> QED BY <1>4, <2>1, <2>2, <2>3, <2>4, <2>5 DEF FoundAt
<1>11. \A h \in (Len(Serving) + 1)..Len(Serving') : FoundAt(h)'
  <2>1. \A h \in (Len(Serving) + 1)..Len(Serving') : h = k
    BY <1>2, <1>3, <1>5
  <2> QED BY <1>10, <2>1
<1>12. Coming'
  <2>1. Len(Serving') + 1 = g /\ step' = n /\ plan' = P /\ failed' = V
    BY <1>1, <1>2, <1>6
  <2>2. CASE l < Last
    <3>1. layer' = l + 1 /\ pc' = "forward"
      BY <1>1, <1>2, <2>2
    <3>2. ForwardAt(g, n, l + 1, P, V)'
      <4> SUFFICES ASSUME NEW i \in Slots, NEW m \in Layers
                   PROVE  /\ m < l + 1 => Complete(g, i, m, n)'
                          /\ m >= l + 1 => Open(g, i, m, n)'
                          /\ m >= l + 1 /\ i \in P \ V => Blended(g, i, m, n)'
                          /\ m >= l + 1 /\ i \notin P => Fresh(g, i, m, n)'
        BY DEF ForwardAt
      <4>1. (m < l + 1 => m <= l) /\ (m >= l + 1 => m > l)
        BY <1>1, <1>2
      <4> QED BY <1>9, <4>1
    <3> QED BY <2>1, <3>1, <3>2 DEF Coming
  <2>3. CASE ~(l < Last)
    <3>1. pc' = "wait" /\ \A m \in Layers : m <= l
      BY <1>1, <1>2, <2>3
    <3>2. \A i \in Slots, m \in Layers : Complete(g, i, m, n)'
      BY <1>9, <3>1
    <3> QED BY <2>1, <3>1, <3>2 DEF Coming
  <2> QED BY <2>2, <2>3
<1>13. Saved'
  BY ForwardSaves
<1>14. /\ \A b \in Buffers : loaded'[b].stream # "store" /\ (~loadStream => loaded'[b] = NoEvent)
       /\ plan' \subseteq Slots /\ failed' \subseteq Slots /\ turn' \in 1..(NumSlots + 1)
       /\ pc' # "layer" /\ pc # "idle"
  BY <1>1 DEF RInv, Supplied, STypes
<1> QED BY <1>1, <1>3, <1>11, <1>12, <1>13, <1>14, Extended

-----------------------------------------------------------------------------
(* The invariant                                                           *)

\* Every step keeps what the queues find.
LEMMA RInvStep ==
  ASSUME DInv, RInv, [Next]_vars
  PROVE  RInv'
<1>1. ASSUME NEW P \in SUBSET Slots, NEW S \in SUBSET Slots, StartStep(P, S)
      PROVE  RInv'
  BY <1>1, StartStepKeepsR
<1>2. ASSUME NEW s \in Streams, Run(s)
      PROVE  RInv'
  <2>1. CASE s = "serving"
    BY <1>2, <2>1, ServingKeepsPages, ServingKeepsSupply, ServingKeepsSaved DEF RInv
  <2>2. CASE s = "load"
    BY <1>2, <2>2, LoadKeeps
  <2>3. CASE s = "store"
    BY <1>2, <2>3, StoreKeeps
  <2> QED BY <2>1, <2>2, <2>3 DEF Streams
<1>3. ASSUME NEW b \in batches, Publish(b)
      PROVE  RInv'
  <2>1. UNCHANGED <<runnerVars, loaderVars, streamVars, memoryVars>> /\ batches' \subseteq batches
    BY <1>3 DEF Publish
  <2> QED BY <2>1, PublishKeepsR
<1>4. CASE UNCHANGED vars
  <2>1. UNCHANGED <<runnerVars, loaderVars, streamVars, memoryVars>> /\ batches' \subseteq batches
    BY <1>4 DEF vars, poolVars
  <2> QED BY <2>1, PublishKeepsR
<1>5. CASE Quiet
  BY <1>4, <1>5 DEF Quiet
<1> QED BY <1>1, <1>2, <1>3, <1>4, <1>5, NoPlanKeepsR, BeginKeepsR, LayerKeepsR,
           LayerFailsKeepsR, EndLoadKeepsR, ForwardKeepsR, WaitForSaveKeepsR DEF Next, Runner

\* The initial states satisfy it.
LEMMA RInvStart ==
  ASSUME Init
  PROVE  RInv
<1> DEFINE e == <<>>
<1>1. 1..Len(e) = {}
  <2>1. Len(e) = 0
    BY OneOperation
  <2> QED BY <2>1
<1> HIDE DEF e
<1>2. Serving = e /\ queue["store"] = e
  BY DEF Init, Serving, Streams, e
<1>3. /\ pc = "idle" /\ step = 0 /\ plan = {} /\ failed = {} /\ turn = 1 /\ batches = {}
      /\ staging = [b \in Buffers |-> None]
      /\ pages = [i \in Slots |-> [l \in Layers |-> <<0, "full">>]]
      /\ stored = [i \in Slots |-> None]
      /\ host = [i \in Slots |-> [l \in Layers |-> None]]
      /\ loaded = [b \in Buffers |-> NoEvent]
  BY DEF Init
<1>4. <<0, "full">> \in Contents /\ 0 \in 0..MaxSteps /\ 1 \in 1..(NumSlots + 1)
  BY BoundAssumption, SlotsAssumption DEF Contents
<1>5. STypes
  BY <1>1, <1>2, <1>3, <1>4 DEF STypes
<1>6. StepOrder /\ Pending
  BY <1>1, <1>2 DEF StepOrder, Pending
<1>7. OldPages /\ Coming
  BY <1>3 DEF OldPages, Coming
<1>8. Supplied
  BY <1>1, <1>2, <1>3 DEF Supplied, NoEvent, Event
<1>9. Saved
  BY <1>1, <1>2, <1>3 DEF Saved
<1> QED BY <1>5, <1>6, <1>7, <1>8, <1>9 DEF RInv

\* At any time, an operation that writes pages finds them blended, fresh or completed as
\* it should when its place in the queue comes, a blend finds its layer loaded, and a
\* copy and a batch what was gathered for them (ascend.py, connector.py).
THEOREM QueuesFindWhatTheyNeed == Spec => [](DInv /\ RInv)
<1>1. Init => DInv /\ RInv
  BY DInvStart, RInvStart
<1>2. DInv /\ RInv /\ [Next]_vars => DInv' /\ RInv'
  BY DInvStep, RInvStep
<1> QED BY <1>1, <1>2, PTL DEF Spec

-----------------------------------------------------------------------------
(* The prefixes that loads gather                                          *)

\* A load in the queue is of this step or an earlier one, and what is left of the
\* forward is not of a step before it.
LoadsLate ==
  \A k \in 1..Len(queue["load"]) :
    /\ queue["load"][k].step \in 0..step
    /\ \A j \in 1..Len(Serving) :
         Serving[j].do = "forward" => Serving[j].step >= queue["load"][k].step

\* Queues that grow by loads of this step, and by what is of no earlier forward.
LEMMA LateGrows ==
  ASSUME DInv, LoadsLate, Grows, step' = step, step \in Nat,
         \A k \in 1..Len(queue'["load"]) :
           k > Len(queue["load"]) => queue'["load"][k].step = step,
         \A j \in 1..Len(Serving') : Serving'[j].do = "forward" =>
           Serving'[j].step = step \/ (j <= Len(Serving) /\ Len(queue'["load"]) = Len(queue["load"]))
  PROVE  LoadsLate'
<1>1. /\ Len(Serving) \in Nat /\ Len(queue["load"]) \in Nat
      /\ \A j \in 1..Len(Serving) : Serving'[j] = Serving[j]
      /\ \A k \in 1..Len(queue["load"]) : queue'["load"][k] = queue["load"][k]
  BY GrowsFacts
<1>2. ASSUME NEW k \in 1..Len(queue'["load"])
      PROVE  queue'["load"][k].step \in 0..step
  <2>1. CASE k > Len(queue["load"])
    BY <2>1
  <2>2. CASE ~(k > Len(queue["load"]))
    <3>1. k \in 1..Len(queue["load"])
      BY <1>1, <2>2
    <3> QED BY <1>1, <3>1 DEF LoadsLate
  <2> QED BY <2>1, <2>2
<1>3. ASSUME NEW k \in 1..Len(queue'["load"]), NEW j \in 1..Len(Serving'),
             Serving'[j].do = "forward"
      PROVE  Serving'[j].step >= queue'["load"][k].step
  <2>1. CASE Serving'[j].step = step
    BY <1>2, <2>1
  <2>2. CASE j <= Len(Serving) /\ Len(queue'["load"]) = Len(queue["load"])
    <3>1. j \in 1..Len(Serving) /\ k \in 1..Len(queue["load"])
      BY <1>1, <2>2
    <3> QED BY <1>1, <1>3, <3>1 DEF LoadsLate
  <2> QED BY <1>3, <2>1, <2>2
<1> QED BY <1>2, <1>3 DEF LoadsLate

\* An operation that is done leaves fewer of them.
LEMMA LateRuns ==
  ASSUME DInv, LoadsLate, NEW s \in Streams, Run(s)
  PROVE  LoadsLate'
<1>1. "serving" \in Streams /\ "load" \in Streams
  BY DEF Streams
<1>2. UNCHANGED step
  BY RunFacts
<1>3. ASSUME NEW t \in Streams, NEW k \in 1..Len(queue'[t])
      PROVE  \E m \in 1..Len(queue[t]) : queue'[t][k] = queue[t][m]
  <2>1. CASE t = s
    <3>1. /\ Len(queue[t]) \in Nat /\ Len(queue'[t]) = Len(queue[t]) - 1
          /\ \A i \in 1..(Len(queue[t]) - 1) : queue'[t][i] = queue[t][i + 1]
      BY <2>1, RunFacts
    <3>2. k + 1 \in 1..Len(queue[t]) /\ k \in 1..(Len(queue[t]) - 1)
      BY <3>1
    <3> QED BY <3>1, <3>2
  <2>2. CASE t # s
    <3>1. queue'[t] = queue[t]
      BY <2>2, RunFacts
    <3> QED BY <3>1
  <2> QED BY <2>1, <2>2
<1>4. ASSUME NEW k \in 1..Len(queue'["load"])
      PROVE  /\ queue'["load"][k].step \in 0..step
             /\ \A j \in 1..Len(queue'["serving"]) : queue'["serving"][j].do = "forward" =>
                  queue'["serving"][j].step >= queue'["load"][k].step
  <2>1. PICK m \in 1..Len(queue["load"]) : queue'["load"][k] = queue["load"][m]
    BY <1>1, <1>3
  <2>2. ASSUME NEW j \in 1..Len(queue'["serving"]), queue'["serving"][j].do = "forward"
        PROVE  queue'["serving"][j].step >= queue'["load"][k].step
    <3>1. PICK n \in 1..Len(queue["serving"]) : queue'["serving"][j] = queue["serving"][n]
      BY <1>1, <1>3
    <3> QED BY <2>1, <2>2, <3>1 DEF LoadsLate, Serving
  <2> QED BY <2>1, <2>2 DEF LoadsLate
<1> QED BY <1>2, <1>4 DEF LoadsLate, Serving

\* A new side forward starts with an empty serving stream.
LEMMA LateBegins ==
  ASSUME DInv, DInv', RInv, LoadsLate, Begin
  PROVE  LoadsLate'
<1>1. UNCHANGED <<step, loadStream, staging, pages, stored, host>> /\ step \in Nat
  BY BoundAssumption DEF Begin, BeginWith, memoryVars, RInv, STypes
<1>2. PICK o : o = Op("fill", turn, 0, NoEvent)
  OBVIOUS
<1>3. /\ Longer /\ Len(Serving) = 0
      /\ loadStream => /\ Len(Serving') = 0 /\ given'["load"] = given["load"] + 1
                       /\ queue'["load"][Len(queue["load"]) + 1] = o
      /\ ~loadStream => Len(Serving') = 1 /\ Serving'[1] = o
  BY <1>2, BeginGives
<1>4. o.step = step /\ o.do = "fill"
  BY <1>2 DEF Op
<1>5. Grows /\ loadStream \in BOOLEAN
  BY <1>1, <1>3 DEF Grows, DInv, DTypes
<1>6. CASE loadStream
  <2>1. Len(queue'["load"]) = Len(queue["load"]) + 1 /\ Len(queue["load"]) \in Nat
    <3>1. "load" \in Streams
      BY DEF Streams
    <3>2. /\ Done("load") + Len(queue'["load"]) = given'["load"] /\ Len(queue'["load"]) \in Nat
      BY <1>3, <3>1 DEF Longer
    <3> QED BY <1>3, <1>5, <1>6, <3>2, GrowsFacts
  <2>2. \A k \in 1..Len(queue'["load"]) :
          k > Len(queue["load"]) => queue'["load"][k].step = step
    <3> SUFFICES ASSUME NEW k \in 1..Len(queue'["load"]), k > Len(queue["load"])
                 PROVE  queue'["load"][k].step = step
      OBVIOUS
    <3>1. k = Len(queue["load"]) + 1
      BY <2>1
    <3> QED BY <1>3, <1>4, <1>6, <3>1
  <2> QED BY <1>1, <1>3, <1>5, <1>6, <2>2, LateGrows
<1>7. CASE ~loadStream
  <2>1. queue'["load"] = <<>>
    BY <1>1, <1>7 DEF DInv, LoaderEvents
  <2>2. Len(queue'["load"]) = 0
    BY <2>1, OneOperation
  <2> QED BY <2>2 DEF LoadsLate
<1> QED BY <1>6, <1>7

\* While a request is blended, no forward is left.
LEMMA LateTurns ==
  ASSUME DInv, DInv', RInv, LoadsLate, pc = "layer",
         NEW work \in {<<>>, <<BlendOp>>, Work}, GiveWork(work, Ahead),
         UNCHANGED <<pages, staging, stored, host, loadStream, step>>
  PROVE  LoadsLate'
<1>1. step \in Nat
  BY BoundAssumption DEF RInv, STypes
<1>2. /\ Grows
      /\ \A k \in (Len(Serving) + 1)..Len(Serving') :
           Serving'[k].do \in {"fill", "blend"} \/ Serving'[k] = Op("scatter", turn, layer, NoEvent)
  BY WorkFound
<1>3. Op("scatter", turn, layer, NoEvent).do = "scatter"
  BY DEF Op
<1>4. \A j \in 1..Len(Serving') : Serving'[j].do # "forward"
  <2> TAKE j \in 1..Len(Serving')
  <2>1. /\ Len(Serving) \in Nat /\ Len(Serving') \in Nat
        /\ \A i \in 1..Len(Serving) : Serving'[i] = Serving[i]
    BY <1>2, GrowsFacts
  <2>2. j \in 1..Len(Serving) \/ j \in (Len(Serving) + 1)..Len(Serving')
    BY <2>1
  <2>3. \A i \in 1..Len(Serving) : Serving[i].do # "forward"
    BY DEF RInv, Coming
  <2> QED BY <1>2, <1>3, <2>1, <2>2, <2>3
<1>5. CASE loadStream
  <2>1. /\ Len(Ahead) \in {0, 1} /\ Len(queue["load"]) \in Nat
        /\ given'["load"] = given["load"] + Len(Ahead)
        /\ Len(Ahead) = 1 => queue'["load"][Len(queue["load"]) + 1] = Ahead[1]
    <3>1. PICK x : x = IF loadStream THEN 0 ELSE Len(Ahead)
      OBVIOUS
    <3> QED BY <1>5, <3>1, WorkGives
  <2>2. Len(queue'["load"]) = Len(queue["load"]) + Len(Ahead)
    <3>1. PICK a, q, z, d : /\ a = Len(Ahead) /\ q = Len(queue["load"])
                            /\ z = Len(queue'["load"]) /\ d = Done("load")
      OBVIOUS
    <3>2. "load" \in Streams
      BY DEF Streams
    <3>3. d + z = given'["load"] /\ z \in Nat
      BY <1>2, <3>1, <3>2 DEF Grows, Longer
    <3>4. d \in Nat /\ q \in Nat /\ d + q = given["load"] /\ a \in {0, 1}
      BY <1>2, <2>1, <3>1, GrowsFacts
    <3>5. given'["load"] = given["load"] + a
      BY <2>1, <3>1
    <3>6. z = q + a
      BY <3>3, <3>4, <3>5
    <3> QED BY <3>1, <3>6
  <2>3. Len(Ahead) = 1 => Ahead[1].step = step
    <3>1. Len(Ahead) = 1 => Ahead[1] = Fill(turn, layer + 1)
      BY WorkParts
    <3> QED BY <3>1 DEF Fill, Op
  <2>4. ASSUME NEW k \in 1..Len(queue'["load"]), k > Len(queue["load"])
        PROVE  queue'["load"][k].step = step
    <3>0. PICK a, q : a = Len(Ahead) /\ q = Len(queue["load"])
      OBVIOUS
    <3>1. Len(Ahead) = 1 /\ k = Len(queue["load"]) + 1
      <4>1. k \in 1..(q + a) /\ k > q /\ a \in {0, 1} /\ q \in Nat
        BY <2>1, <2>2, <2>4, <3>0
      <4>2. a = 1 /\ k = q + 1
        BY <4>1
      <4> QED BY <3>0, <4>2
    <3> QED BY <2>1, <2>3, <3>1
  <2> QED BY <1>1, <1>2, <1>4, <2>4, LateGrows
<1>6. CASE ~loadStream
  <2>1. Len(queue'["load"]) = 0
    BY <1>6, OneOperation DEF DInv, LoaderEvents
  <2> QED BY <2>1 DEF LoadsLate
<1> QED BY <1>5, <1>6 DEF DInv, DTypes

\* A layer of the forward is of this step.
LEMMA LateForwards ==
  ASSUME DInv, RInv, LoadsLate, Forward
  PROVE  LoadsLate'
<1>1. step' = step /\ step \in Nat
  BY BoundAssumption DEF Forward, ForwardWith, RInv, STypes
<1>2. PICK wait : wait = Event("serving", given["serving"] + 1)
  OBVIOUS
<1>3. /\ Grows /\ Len(Serving) \in Nat /\ given'["load"] = given["load"]
      /\ Len(Serving') = Len(Serving) + 1 /\ Serving'[Len(Serving) + 1] = ForwardOp
  BY <1>2, ForwardGives
<1>4. Len(queue'["load"]) = Len(queue["load"]) /\ Len(queue["load"]) \in Nat
  <2>1. "load" \in Streams
    BY DEF Streams
  <2>2. Done("load") + Len(queue'["load"]) = given'["load"] /\ Len(queue'["load"]) \in Nat
    BY <1>3, <2>1 DEF Grows, Longer
  <2> QED BY <1>3, <2>2, GrowsFacts
<1>5. ForwardOp.step = step
  BY DEF ForwardOp
<1>6. ASSUME NEW j \in 1..Len(Serving')
      PROVE  Serving'[j].step = step \/ j <= Len(Serving)
  <2>1. j <= Len(Serving) \/ j = Len(Serving) + 1
    BY <1>3
  <2> QED BY <1>3, <1>5, <2>1
<1> QED BY <1>1, <1>3, <1>4, <1>6, LateGrows

LEMMA LateStep ==
  ASSUME DInv, DInv', RInv, LoadsLate, [Next]_vars
  PROVE  LoadsLate'
<1>0. step \in Nat
  BY BoundAssumption DEF RInv, STypes
<1>1. CASE queue' = queue /\ step' \in Nat /\ step' >= step
  <2>1. \A k \in 1..Len(queue["load"]) :
          queue["load"][k].step \in 0..step => queue["load"][k].step \in 0..step'
    BY <1>0, <1>1
  <2> QED BY <1>1, <2>1 DEF LoadsLate, Serving
<1>2. ASSUME NEW P \in SUBSET Slots, NEW S \in SUBSET Slots, StartStep(P, S)
      PROVE  LoadsLate'
  <2>1. queue' = queue /\ step' = step + 1
    BY <1>2 DEF StartStep, streamVars
  <2> QED BY <1>0, <1>1, <2>1
<1>3. CASE NoPlan \/ EndLoad \/ WaitForSave \/ Quiet \/ UNCHANGED vars
  <2>1. queue' = queue /\ step' = step
    BY <1>3 DEF NoPlan, EndLoad, WaitForSave, Quiet, vars, runnerVars, streamVars
  <2> QED BY <1>0, <1>1, <2>1
<1>4. ASSUME NEW b \in batches, Publish(b)
      PROVE  LoadsLate'
  <2>1. queue' = queue /\ step' = step
    BY <1>4 DEF Publish, runnerVars, streamVars
  <2> QED BY <1>0, <1>1, <2>1
<1>5. CASE Layer
  <2>1. /\ pc = "layer" /\ GiveWork(Work, Ahead)
        /\ UNCHANGED <<pages, staging, stored, host, loadStream, step>>
    BY <1>5 DEF Layer, memoryVars
  <2>2. Work \in {<<>>, <<BlendOp>>, Work}
    OBVIOUS
  <2> QED BY <2>1, <2>2, LateTurns
<1>6. CASE LayerFails
  <2>1. /\ pc = "layer" /\ UNCHANGED <<pages, staging, stored, host, loadStream, step>>
        /\ UNCHANGED streamVars \/ GiveWork(<<>>, Ahead) \/ GiveWork(<<BlendOp>>, Ahead)
    BY <1>6 DEF LayerFails, memoryVars, loaderVars
  <2>2. CASE UNCHANGED streamVars
    BY <1>0, <1>1, <2>1, <2>2 DEF streamVars
  <2>3. ASSUME NEW work \in {<<>>, <<BlendOp>>}, GiveWork(work, Ahead)
        PROVE  LoadsLate'
    <3>1. work \in {<<>>, <<BlendOp>>, Work}
      OBVIOUS
    <3> QED BY <2>1, <2>3, <3>1, LateTurns
  <2> QED BY <2>1, <2>2, <2>3
<1> QED BY <1>2, <1>3, <1>4, <1>5, <1>6, LateBegins, LateForwards, LateRuns DEF Next, Runner

\* No two streams work on the same memory at once when one of them writes, and when a
\* load runs, every layer of the forwards of earlier steps is done, so that the pages of
\* a native prefix are computed: for any number of requests, layers, steps and
\* exceptions, with and without a load stream (ARCHITECTURE.md:66-68, 93-94;
\* ascend.py:232-247, 372-396, 443; connector.py:394-425, 504-530).
THEOREM StreamsDoNotRace == Spec => []NoRace
<1>1. Init => LoadsLate
  <2> SUFFICES ASSUME Init
               PROVE  LoadsLate
    OBVIOUS
  <2>1. queue["load"] = <<>>
    BY DEF Init, Streams
  <2>2. Len(queue["load"]) = 0
    BY <2>1, OneOperation
  <2> QED BY <2>2 DEF LoadsLate
<1>2. (DInv /\ RInv) /\ (DInv /\ RInv)' /\ LoadsLate /\ [Next]_vars => LoadsLate'
  BY LateStep
<1>3. DInv /\ LoadsLate => Computed
  <2> SUFFICES ASSUME DInv, LoadsLate, Ready("load"), NEW i \in DOMAIN queue["serving"],
                      queue["serving"][i].do = "forward"
               PROVE  queue["serving"][i].step >= Head(queue["load"]).step
    BY DEF Computed
  <2>1. "load" \in Streams /\ "serving" \in Streams /\ DTypes
    BY DEF Streams, DInv
  <2>2. /\ Row(queue["load"]) /\ Row(queue["serving"]) /\ queue["load"] # <<>>
    BY <2>1, QueueTypes DEF Ready
  <2>3. /\ 1 \in 1..Len(queue["load"]) /\ Head(queue["load"]) = queue["load"][1]
        /\ i \in 1..Len(queue["serving"])
    <3>1. Len(queue["load"]) \in Nat /\ Len(queue["load"]) # 0
      BY <2>2, RowFacts
    <3> QED BY <2>2, <3>1, RowFacts
  <2> QED BY <2>3 DEF LoadsLate, Serving
<1>4. DInv /\ LoadsLate => NoRace
  BY <1>3, OrderKeepsApart DEF NoRace
<1> QED BY <1>1, <1>2, <1>4, QueuesFindWhatTheyNeed, PTL DEF Spec

-----------------------------------------------------------------------------
(* The steps of the refinement                                             *)

\* The commit of a blended layer is the serial one's.
LEMMA ScatterIsBlend ==
  ASSUME DInv, RInv, Run("serving"), NEW o, o = Serving[1], o.do = "scatter"
  PROVE  Serial!Blend(o.step, o.slot, o.layer)
<1>1. 1 \in 1..Len(Serving) /\ Head(queue["serving"]) = o /\ o.layer \in Layers
  BY ServingRuns DEF Serving, Shaped
<1>2. /\ ScatterAt(1, o.step, o.slot, o.layer) /\ o.slot \in Slots
      /\ Holds(o.slot, o.layer, "blended")
  BY <1>1 DEF RInv, Pending, Supplied, STypes
<1>3. pages[o.slot][o.layer][1] < o.step
  BY <1>2 DEF ScatterAt, Fresh
<1>4. ASSUME NEW k \in 0..(o.layer - 1)
      PROVE  pages[o.slot][k] = <<o.step, "blend">>
  <2>1. k \in Layers /\ k < o.layer
    BY <1>1, LayersAssumption DEF Layers
  <2>2. Blended(1, o.slot, k, o.step)
    BY <1>2, <2>1 DEF ScatterAt
  <2>3. 1..(1 - 1) = {}
    OBVIOUS
  <2> QED BY <2>2, <2>3 DEF Blended
<1>5. pages' = [pages EXCEPT ![o.slot][o.layer] = <<o.step, "blend">>]
  <2>1. DoScatter(o)
    BY <1>1 DEF Run
  <2>2. staging[o.layer % 2] = <<o.slot, o.layer, "blended">>
    BY <1>2 DEF Holds
  <2> QED BY <2>1, <2>2 DEF DoScatter
<1>6. published' = published
  BY ServingRuns
<1> QED BY <1>3, <1>4, <1>5, <1>6 DEF Serial!Blend

\* A layer of the forward is the serial one's.
LEMMA ForwardIsForward ==
  ASSUME DInv, RInv, Run("serving"), NEW o, o = Serving[1], o.do = "forward"
  PROVE  Serial!Forward(o.step, o.layer, o.void \cap Slots)
<1>1. /\ 1 \in 1..Len(Serving) /\ Head(queue["serving"]) = o /\ o.layer \in Layers
      /\ pages \in [Slots -> [Layers -> Contents]]
  BY ServingRuns DEF Serving, Shaped, RInv, STypes
<1>2. PICK n, l, V : n = o.step /\ l = o.layer /\ V = o.void \cap Slots
  OBVIOUS
<1>3. ASSUME NEW i \in Slots, NEW m \in Layers
      PROVE  /\ m < l => pages[i][m][1] = n /\ pages[i][m][2] \in Ends
             /\ m >= l => ~(pages[i][m][1] = n /\ pages[i][m][2] \in Ends)
             /\ m >= l /\ i \in o.plan \ o.void => pages[i][m] = <<n, "blend">>
             /\ m >= l /\ i \notin o.plan => pages[i][m][1] < n
  <2>1. ForwardAt(1, n, l, o.plan, o.void)
    BY <1>1, <1>2 DEF RInv, Pending
  <2>2. 1..(1 - 1) = {}
    OBVIOUS
  <2>3. /\ m < l => Complete(1, i, m, n)
        /\ m >= l => Open(1, i, m, n)
        /\ m >= l /\ i \in o.plan \ o.void => Blended(1, i, m, n)
        /\ m >= l /\ i \notin o.plan => Fresh(1, i, m, n)
    BY <2>1 DEF ForwardAt
  <2> QED BY <2>2, <2>3 DEF Complete, Open, Blended, Fresh
<1>4. l \in Layers /\ l \in Nat
      /\ (\A m \in 0..(l - 1) : m \in Layers /\ m < l)
      /\ (\A m \in l..(NumLayers - 1) : m \in Layers /\ m >= l)
  BY <1>1, <1>2, LayersAssumption DEF Layers
<1>5. \A i \in Slots, m \in 0..(l - 1) : pages[i][m] \in {<<n, "full">>, <<n, "void">>}
  <2> TAKE i \in Slots, m \in 0..(l - 1)
  <2>1. m \in Layers /\ pages[i][m][1] = n /\ pages[i][m][2] \in Ends
    BY <1>3, <1>4
  <2>2. pages[i][m] \in Contents
    BY <1>1, <2>1
  <2> QED BY <2>1, <2>2 DEF Contents, Ends
<1>6. \A i \in Slots : pages[i][l] \notin {<<n, "full">>, <<n, "void">>}
  <2> TAKE i \in Slots
  <2>1. ~(pages[i][l][1] = n /\ pages[i][l][2] \in Ends)
    BY <1>3, <1>4
  <2> QED BY <2>1 DEF Ends
<1>7. ASSUME NEW i \in Slots \ V
      PROVE  \/ \A m \in l..(NumLayers - 1) : pages[i][m] = <<n, "blend">>
             \/ \A m \in l..(NumLayers - 1) : pages[i][m][1] < n
  <2>1. i \in Slots /\ i \notin o.void
    BY <1>2
  <2>2. CASE i \in o.plan
    BY <1>3, <1>4, <2>1, <2>2
  <2>3. CASE i \notin o.plan
    BY <1>3, <1>4, <2>1, <2>3
  <2> QED BY <2>2, <2>3
<1>8. pages' = [i \in Slots |-> [pages[i] EXCEPT ![l] = <<n, IF i \in V THEN "void" ELSE "full">>]]
  <2>1. pages' = [i \in Slots |-> [pages[i] EXCEPT ![l] = <<n, Completed(i, o)>>]]
    BY <1>1, <1>2 DEF Run, DoForward
  <2>2. ASSUME NEW i \in Slots
        PROVE  Completed(i, o) = IF i \in V THEN "void" ELSE "full"
    <3>1. i \in o.plan \ o.void => pages[i][l] = <<n, "blend">>
      <4>1. l >= l
        BY <1>4
      <4> QED BY <1>3, <1>4, <4>1
    <3> QED BY <1>2, <3>1 DEF Completed
  <2> QED BY <2>1, <2>2
<1>9. published' = published
  BY ServingRuns
<1>10. Serial!Forward(n, l, V)
  BY <1>5, <1>6, <1>7, <1>8, <1>9 DEF Serial!Forward
<1> QED BY <1>2, <1>10

\* What the save pool publishes is the serial save of a completed layer.
LEMMA PublishIsSave ==
  ASSUME DInv, RInv, NEW b \in batches, Publish(b)
  PROVE  Serial!Save(b.slot, b.layer)
<1>1. b.copied.stream = "store" /\ Done("store") >= b.copied.after
  BY DEF Publish, Happened, Done, RInv, Saved
<1>2. Done("store") \in Nat /\ b.copied.after \in Nat
  <2>1. Done("store") \in Nat
    BY QueueTypes DEF DInv, Streams
  <2>2. b.copied.after \in 1..given["store"]
    BY DEF RInv, Saved
  <2> QED BY <2>1, <2>2
<1>3. Final(b.slot, b.layer) /\ host[b.slot][b.layer] = pages[b.slot][b.layer]
  <2>1. ~(b.copied.after > Done("store"))
    BY <1>1, <1>2
  <2> QED BY <2>1 DEF RInv, Saved
<1>4. pages' = pages
      /\ published' = published \cup {<<b.slot, b.layer, host[b.slot][b.layer]>>}
  BY DEF Publish, memoryVars
<1> QED BY <1>3, <1>4 DEF Serial!Save, Final, Ends

\* Every step is one of the serial specification, or none of its business.
LEMMA StepIsSerial ==
  ASSUME DInv, RInv, [Next]_vars
  PROVE  [Serial!SerialNext]_<<pages, published>>
<1>1. ASSUME NEW s \in Streams, Run(s)
      PROVE  [Serial!SerialNext]_<<pages, published>>
  <2>1. PICK o : o = queue[s][1]
    OBVIOUS
  <2>2. /\ Head(queue[s]) = o /\ Shaped(o, s) /\ published' = published
    BY <1>1, <2>1, RunFacts
  <2>3. CASE o.do \in {"scatter", "forward"}
    <3>1. s = "serving" /\ o = Serving[1]
      BY <2>1, <2>2, <2>3 DEF Streams, Shaped, Kinds, Serving
    <3>2. 1 \in 1..Len(Serving) /\ o.layer \in Serial!Layers /\ Run("serving")
      BY <1>1, <2>2, <3>1, ServingRuns DEF Shaped, Layers, Serial!Layers
    <3>3. o.step \in 1..MaxSteps /\ (o.do = "scatter" => o.slot \in Slots)
      <4>1. o.step \in 1..step /\ step \in 0..MaxSteps /\ (o.do # "forward" => o.slot \in Slots)
        BY <3>1, <3>2 DEF RInv, STypes
      <4> QED BY <4>1, BoundAssumption
    <3>4. CASE o.do = "scatter"
      <4>1. Serial!Blend(o.step, o.slot, o.layer)
        BY <3>1, <3>2, <3>4, ScatterIsBlend
      <4> QED BY <3>2, <3>3, <3>4, <4>1 DEF Serial!SerialNext
    <3>5. CASE o.do = "forward"
      <4>1. Serial!Forward(o.step, o.layer, o.void \cap Slots)
        BY <3>1, <3>2, <3>5, ForwardIsForward
      <4>2. (o.void \cap Slots) \in SUBSET Slots
        OBVIOUS
      <4> QED BY <3>2, <3>3, <4>1, <4>2 DEF Serial!SerialNext
    <3> QED BY <2>3, <3>4, <3>5
  <2>4. CASE o.do \notin {"scatter", "forward"}
    <3>1. pages' = pages
      BY <1>1, <2>2, <2>4 DEF Run, DoFill, DoBlend, DoGather, DoCopy
    <3> QED BY <2>2, <3>1
  <2> QED BY <2>3, <2>4
<1>2. ASSUME NEW b \in batches, Publish(b)
      PROVE  [Serial!SerialNext]_<<pages, published>>
  <2>1. b.slot \in Slots /\ b.layer \in Serial!Layers
    BY DEF RInv, Saved, Layers, Serial!Layers
  <2>2. Serial!Save(b.slot, b.layer)
    BY <1>2, PublishIsSave
  <2> QED BY <2>1, <2>2 DEF Serial!SerialNext
<1>3. CASE Runner
  <2>1. pages' = pages /\ published' = published
    BY <1>3 DEF Runner, StartStep, NoPlan, Begin, BeginWith, Layer, LayerFails, EndLoad,
                Forward, ForwardWith, WaitForSave, memoryVars, poolVars
  <2> QED BY <2>1
<1>4. CASE Quiet \/ UNCHANGED vars
  <2>1. pages' = pages /\ published' = published
    BY <1>4 DEF Quiet, vars, memoryVars, poolVars
  <2> QED BY <2>1
<1> QED BY <1>1, <1>2, <1>3, <1>4 DEF Next

\* The streams, their staging buffers and their events do for the paged KV and for what
\* is saved what one stream without staging would: whatever the order in which streams
\* and save pool run, each layer of a plan is blended before vLLM's forward uses it, and
\* a batch is published with what its own pages held after the forward of its own step
\* (ascend.py:237-244, 372-396; connector.py:394-425, 504-530).
THEOREM StreamsImplementSerial == Spec => ImplementsSerial
<1>1. Init => Serial!SerialInit
  BY DEF Init, Serial!SerialInit, Layers, Serial!Layers
<1>2. DInv /\ RInv /\ [Next]_vars => [Serial!SerialNext]_<<pages, published>>
  BY StepIsSerial
<1> QED BY <1>1, <1>2, QueuesFindWhatTheyNeed, PTL DEF Spec, ImplementsSerial, Serial!SerialSpec

=============================================================================
