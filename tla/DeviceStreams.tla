--------------------------- MODULE DeviceStreams ---------------------------
(***************************************************************************)
(* The device work of one worker: the model runner's thread enqueues on    *)
(* the serving, load and store streams (ascend.py, connector.py), which    *)
(* run asynchronously, each in its order.                                  *)
(*                                                                         *)
(* In a step the runner blends the requests that have a plan, one after    *)
(* the other (start_load_kv); vLLM's forward follows, layer by layer, with *)
(* save_kv_layer in each; wait_for_save ends the step.  A stream waits for *)
(* an event of another one: the event is the number of operations that     *)
(* stream had been given when it was recorded, and it has happened when    *)
(* they are done.  An operation carries the event it waits for.            *)
(*                                                                         *)
(* Memory is followed, not arithmetic: what request and layer the two      *)
(* staging buffers hold, the step and quality of each layer's pages, what  *)
(* the store's staging and the host batches hold.  A loader's buffers go   *)
(* back to the caching allocator, which gives them to the next loader at   *)
(* once.  PyTorch waits for the serving stream when a list becomes a       *)
(* device tensor (executor's run); its other waits there are left out.     *)
(***************************************************************************)
EXTENDS Integers, Sequences, FiniteSets

CONSTANTS
  NumSlots,   \* requests of a step
  NumLayers,  \* layers of the model
  MaxSteps,   \* bound on the steps
  MaxFaults,  \* bound on side forwards that raise
  None        \* nothing there

ASSUME SlotsAssumption  == NumSlots \in Nat \ {0}
ASSUME LayersAssumption == NumLayers \in Nat \ {0}
ASSUME BoundAssumption  == MaxSteps \in Nat /\ MaxFaults \in Nat

VARIABLES
  \* the model runner
  pc,         \* "idle", "load", "layer", "forward" or "wait"
  step,       \* steps begun
  plan,       \* slots with a plan
  save,       \* slots whose request saves
  failed,     \* slots whose side forward raised
  turn,       \* the slot of start_load_kv's loop
  layer,      \* the layer of the side forward or of the forward
  faults,     \* side forwards that raised
  \* the loader
  loadStream, \* there is a load stream (event_pipeline)
  loaded,     \* _events: by buffer, the event after its layer's load
  reuse,      \* _reuse_events: by buffer, the event after its layer's scatter
  \* the streams
  queue,      \* operations not yet done, by stream
  given,      \* operations given so far, by stream
  \* memory
  staging,    \* the loader's buffers: <<slot, layer, state>>
  pages,      \* paged KV by slot and layer: <<step, quality>>
  stored,     \* _store_staging_by_request: <<layer, what its pages held>>
  host,       \* host batches by slot and layer: what they hold
  \* the save pool
  batches,    \* batches to publish: slot, layer and event
  published   \* what was published: <<slot, layer, what it held>>

runnerVars == <<pc, step, plan, save, failed, turn, layer, faults>>
loaderVars == <<loadStream, loaded, reuse>>
streamVars == <<queue, given>>
memoryVars == <<staging, pages, stored, host>>
poolVars   == <<batches, published>>
vars == <<runnerVars, loaderVars, streamVars, memoryVars, poolVars>>

-----------------------------------------------------------------------------
Slots   == 1..NumSlots
Streams == {"serving", "load", "store"}
Layers  == 0..(NumLayers - 1)
Buffers == {0, 1}
Last    == NumLayers - 1

\* What the staging of the store holds is something.
ASSUME NoneAssumption ==
  None \notin Layers \X (Nat \X {"full", "void", "blend", "bad"})

Event(s, n)  == [stream |-> s, after |-> n]
NoEvent      == Event("serving", 0)
Happened(e)  == given[e.stream] - Len(queue[e.stream]) >= e.after

Op(do, i, l, wait) == [do |-> do, slot |-> i, layer |-> l, step |-> step, wait |-> wait]

\* One layer of vLLM's forward, with the requests that were to be blended.
ForwardOp == [do |-> "forward", layer |-> layer, step |-> step, wait |-> NoEvent,
              plan |-> plan, void |-> failed]

\* The stream that loads.
Loading == IF loadStream THEN "load" ELSE "serving"

\* Operations for the three streams, behind what they have.
Give(serving, load, store) ==
  LET more == [s \in Streams |->
                 CASE s = "serving" -> serving [] s = "load" -> load [] s = "store" -> store]
  IN /\ queue' = [s \in Streams |-> queue[s] \o more[s]]
     /\ given' = [s \in Streams |-> given[s] + Len(more[s])]

Init ==
  /\ pc = "idle" /\ step = 0 /\ plan = {} /\ save = {} /\ failed = {}
  /\ turn = 1 /\ layer = 0 /\ faults = 0
  /\ loadStream \in BOOLEAN
  /\ loaded = [b \in Buffers |-> NoEvent] /\ reuse = [b \in Buffers |-> NoEvent]
  /\ queue = [s \in Streams |-> <<>>] /\ given = [s \in Streams |-> 0]
  /\ staging = [b \in Buffers |-> None]
  /\ pages = [i \in Slots |-> [l \in Layers |-> <<0, "full">>]]
  /\ stored = [i \in Slots |-> None]
  /\ host = [i \in Slots |-> [l \in Layers |-> None]]
  /\ batches = {} /\ published = {}

-----------------------------------------------------------------------------
(* start_load_kv                                                           *)

StartStep(P, S) ==
  /\ pc = "idle" /\ step < MaxSteps
  /\ pc' = "load" /\ step' = step + 1
  /\ plan' = P /\ save' = S /\ failed' = {} /\ turn' = 1
  /\ UNCHANGED <<layer, faults, loaderVars, streamVars, memoryVars, poolVars>>

\* A request without a plan.
NoPlan ==
  /\ pc = "load" /\ turn \in Slots \ plan
  /\ turn' = turn + 1
  /\ UNCHANGED <<pc, step, plan, save, failed, layer, faults, loaderVars, streamVars,
                 memoryVars, poolVars>>

\* The load of layer l of request i, as an operation of the loading stream.
\* Faulty variant: the buffer's former layer is not waited for.
FillUnordered(i, l) == Op("fill", i, l, NoEvent)

Fill(i, l) == Op("fill", i, l, IF loadStream THEN reuse[l % 2] ELSE NoEvent)

\* prefetch(0) of a new loader, whose buffers are memory of the one before.
BeginWith(drained) ==
  /\ pc = "load" /\ turn \in plan /\ drained
  /\ pc' = "layer" /\ layer' = 0
  /\ LET fill == <<Op("fill", turn, 0, NoEvent)>> IN
     IF loadStream THEN Give(<<>>, fill, <<>>) ELSE Give(fill, <<>>, <<>>)
  /\ loaded' = [b \in Buffers |-> IF b = 0 /\ loadStream
                                  THEN Event("load", given["load"] + 1) ELSE NoEvent]
  /\ reuse' = [b \in Buffers |-> NoEvent]
  /\ UNCHANGED <<step, plan, save, failed, turn, faults, loadStream, memoryVars, poolVars>>

\* Faulty variant: the token list is sent without waiting for the device.
BeginUnsynchronized == BeginWith(TRUE)

\* run, up to the first layer: making input_ids waits for the serving stream.
Begin == BeginWith(queue["serving"] = <<>>)

\* The next request, after the last layer or an exception.
EndRun ==
  /\ pc' = "load" /\ turn' = turn + 1 /\ layer' = 0

\* What one turn of run's loop gives the serving stream, in the end, and the
\* loading one: get, prefetch of the next layer, _compute_layer, commit.
BlendOp == Op("blend", turn, layer, loaded[layer % 2])
Work    == <<BlendOp, Op("scatter", turn, layer, NoEvent)>>
Ahead   == IF layer < Last THEN <<Fill(turn, layer + 1)>> ELSE <<>>

GiveWork(work, ahead) ==
  IF loadStream THEN Give(work, ahead, <<>>) ELSE Give(ahead \o work, <<>>, <<>>)

\* The events of prefetch and commit, by buffer.
Layer ==
  /\ pc = "layer"
  /\ GiveWork(Work, Ahead)
  /\ IF loadStream
     THEN LET b == layer % 2 IN
          /\ loaded' = [x \in Buffers |-> IF x # b /\ layer < Last
                          THEN Event("load", given["load"] + 1) ELSE NoEvent]
          /\ reuse' = [x \in Buffers |-> IF x = b
                          THEN Event("serving", given["serving"] + 2) ELSE NoEvent]
     ELSE UNCHANGED <<loaded, reuse>>
  /\ IF layer < Last THEN layer' = layer + 1 /\ UNCHANGED <<pc, turn>> ELSE EndRun
  /\ UNCHANGED <<step, plan, save, failed, faults, loadStream, memoryVars, poolVars>>

\* An exception in prefetch or _compute_layer, which start_load_kv reports: the
\* load of the next layer, and a part of the computation, may have been enqueued.
LayerFails ==
  /\ pc = "layer" /\ faults < MaxFaults
  /\ UNCHANGED streamVars \/ GiveWork(<<>>, Ahead) \/ GiveWork(<<BlendOp>>, Ahead)
  /\ failed' = failed \cup {turn} /\ faults' = faults + 1
  /\ EndRun
  /\ UNCHANGED <<step, plan, save, loaderVars, memoryVars, poolVars>>

EndLoad ==
  /\ pc = "load" /\ turn \notin Slots
  /\ pc' = "forward" /\ layer' = 0
  /\ UNCHANGED <<step, plan, save, failed, turn, faults, loaderVars, streamVars,
                 memoryVars, poolVars>>

-----------------------------------------------------------------------------
(* The forward, save_kv_layer and wait_for_save                            *)

\* The place of slot i among the requests that save.
Place(i) == Cardinality({j \in save : j <= i})

\* The requests that save, in order: gather and copy of each, behind the event.
Gathers(wait) ==
  [k \in 1..(2 * Cardinality(save)) |->
     Op(IF k % 2 = 1 THEN "gather" ELSE "copy",
        CHOOSE i \in save : Place(i) = (k + 1) \div 2, layer,
        IF k = 1 THEN wait ELSE NoEvent)]

\* The event of slot i's batch: its copy is done.
BatchEvent(i) == Event("store", given["store"] + 2 * Place(i))

\* One layer of the forward, and _enqueue_store_batch for each request: the store
\* stream waits for what the serving stream has been given.
ForwardWith(wait) ==
  /\ pc = "forward"
  /\ Give(<<ForwardOp>>, <<>>, Gathers(wait))
  /\ batches' = batches \cup
       {[slot |-> i, layer |-> layer, copied |-> BatchEvent(i)] : i \in save}
  /\ IF layer < Last THEN layer' = layer + 1 /\ UNCHANGED pc
                     ELSE layer' = 0 /\ pc' = "wait"
  /\ UNCHANGED <<step, plan, save, failed, turn, faults, loaderVars, memoryVars, published>>

\* Faulty variant: the store stream does not wait.
ForwardUnordered == ForwardWith(NoEvent)

Forward == ForwardWith(Event("serving", given["serving"] + 1))

\* wait_for_save: the store stream is drained, then every future has its result.
\* Faulty variant: the futures of the last layer are left.
WaitForSome ==
  /\ pc = "wait" /\ \A b \in batches : b.layer = Last
  /\ pc' = "idle"
  /\ stored' = [i \in Slots |-> None]
  /\ UNCHANGED <<step, plan, save, failed, turn, layer, faults, loaderVars, streamVars,
                 staging, pages, host, poolVars>>

\* Staging retired for staging of another size (connector.py:403-407) is kept until
\* then, so nothing uses its memory again: it is left out.
WaitForSave ==
  /\ pc = "wait" /\ queue["store"] = <<>> /\ batches = {}
  /\ pc' = "idle"
  /\ stored' = [i \in Slots |-> None]
  /\ UNCHANGED <<step, plan, save, failed, turn, layer, faults, loaderVars, streamVars,
                 staging, pages, host, poolVars>>

\* A thread of the save pool, after the event of its batch.
Publish(b) ==
  /\ Happened(b.copied)
  /\ batches' = batches \ {b}
  /\ published' = published \cup {<<b.slot, b.layer, host[b.slot][b.layer]>>}
  /\ UNCHANGED <<runnerVars, loaderVars, streamVars, memoryVars>>

-----------------------------------------------------------------------------
(* The streams                                                             *)

Ready(s) == queue[s] # <<>> /\ Happened(Head(queue[s]).wait)

\* prefetch's load: prefix, zeroed gaps and relocated segments.
DoFill(o) ==
  /\ staging' = [staging EXCEPT ![o.layer % 2] = <<o.slot, o.layer, "loaded">>]
  /\ UNCHANGED <<pages, stored, host>>

\* _compute_layer overwrites its active tokens in the buffer.
DoBlend(o) ==
  /\ staging' = [staging EXCEPT ![o.layer % 2] =
       IF @ = <<o.slot, o.layer, "loaded">> THEN <<o.slot, o.layer, "blended">>
       ELSE <<o.slot, o.layer, "bad">>]
  /\ UNCHANGED <<pages, stored, host>>

\* commit.
DoScatter(o) ==
  /\ pages' = [pages EXCEPT ![o.slot][o.layer] =
       <<o.step, IF staging[o.layer % 2] = <<o.slot, o.layer, "blended">>
                 THEN "blend" ELSE "bad">>]
  /\ UNCHANGED <<staging, stored, host>>

\* vLLM computes what is left of a layer, in the step's requests.
Completed(i, o) ==
  IF i \in o.void THEN "void"
  ELSE IF i \in o.plan /\ pages[i][o.layer] # <<o.step, "blend">> THEN "bad"
  ELSE "full"

DoForward(o) ==
  /\ pages' = [i \in Slots |-> [pages[i] EXCEPT ![o.layer] = <<o.step, Completed(i, o)>>]]
  /\ UNCHANGED <<staging, stored, host>>

DoGather(o) ==
  /\ stored' = [stored EXCEPT ![o.slot] = <<o.layer, pages[o.slot][o.layer]>>]
  /\ UNCHANGED <<staging, pages, host>>

DoCopy(o) ==
  /\ host' = [host EXCEPT ![o.slot][o.layer] =
       IF stored[o.slot] # None /\ stored[o.slot][1] = o.layer THEN stored[o.slot][2] ELSE None]
  /\ UNCHANGED <<staging, pages, stored>>

\* A stream does its next operation.
Run(s) ==
  /\ Ready(s)
  /\ queue' = [queue EXCEPT ![s] = Tail(@)]
  /\ LET o == Head(queue[s]) IN
     \/ o.do = "fill" /\ DoFill(o)
     \/ o.do = "blend" /\ DoBlend(o)
     \/ o.do = "scatter" /\ DoScatter(o)
     \/ o.do = "forward" /\ DoForward(o)
     \/ o.do = "gather" /\ DoGather(o)
     \/ o.do = "copy" /\ DoCopy(o)
  /\ UNCHANGED <<runnerVars, loaderVars, given, poolVars>>

Runner ==
  \/ \E P \in SUBSET Slots, S \in SUBSET Slots : StartStep(P, S)
  \/ NoPlan \/ Begin \/ Layer \/ LayerFails \/ EndLoad \/ Forward \/ WaitForSave

\* vLLM starts no more steps.
Quiet ==
  /\ pc = "idle" /\ step = MaxSteps /\ \A s \in Streams : queue[s] = <<>>
  /\ UNCHANGED vars

Next ==
  \/ Runner \/ Quiet
  \/ \E s \in Streams : Run(s)
  \/ \E b \in batches : Publish(b)

Spec == Init /\ [][Next]_vars

-----------------------------------------------------------------------------
\* The memory an operation writes, and all it uses.  The pages of a native prefix,
\* which a fill gathers too, are of earlier steps: see Computed.
Writes(o) ==
  CASE o.do \in {"fill", "blend"} -> {<<"staging", o.layer % 2>>}
    [] o.do = "scatter" -> {<<"pages", o.slot, o.layer>>}
    [] o.do = "forward" -> {<<"pages", i, o.layer>> : i \in Slots}
    [] o.do = "gather"  -> {<<"stored", o.slot>>}
    [] o.do = "copy"    -> {<<"host", o.slot, o.layer>>}

Uses(o) == Writes(o) \cup
  CASE o.do = "scatter" -> {<<"staging", o.layer % 2>>}
    [] o.do = "gather"  -> {<<"pages", o.slot, o.layer>>}
    [] o.do = "copy"    -> {<<"stored", o.slot>>}
    [] OTHER            -> {}

\* Two streams never work on the same memory at once when one of them writes.
Apart ==
  \A s, t \in Streams :
    s # t /\ Ready(s) /\ Ready(t) => Writes(Head(queue[s])) \cap Uses(Head(queue[t])) = {}

\* A load gathers the native prefix of its request, which another request may have
\* computed in an earlier step: no layer of that step's forward is still to run.
Computed ==
  Ready("load") => \A i \in DOMAIN queue["serving"] :
    queue["serving"][i].do = "forward" =>
      queue["serving"][i].step >= Head(queue["load"]).step

\* The events that order the streams are enough, within a request, from one request
\* to the next and from step to step: no two streams work on the same memory, and a
\* load reads a native prefix only when its forward is done, though only the wait in
\* making input_ids orders the two (ascend.py:443).  ARCHITECTURE.md:66-68 for the
\* buffers, 93-94 for the pages (ascend.py:232-247, 372-396; connector.py:394-425,
\* 504-530).
NoRace == Apart /\ Computed

\* The streams do what one stream without staging would: each layer of a plan is
\* blended before vLLM's forward uses it, and a batch is published with what its
\* own pages held after the forward of its own step.
Serial == INSTANCE SerialBlend
ImplementsSerial == Serial!SerialSpec

=============================================================================
