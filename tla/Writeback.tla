----------------------------- MODULE Writeback -----------------------------
(***************************************************************************)
(* Saving prompt chunks on one rank (connector.py, save_kv_layer to        *)
(* get_finished): the model runner's thread, the Store stream and the save *)
(* pool, over the store of PinnedStore, while the lookup server pins and   *)
(* releases segments for readers.                                          *)
(*                                                                         *)
(* In a step the runner walks the layers, and in each layer the requests   *)
(* of the step: it creates the entries of new chunks, reserves the layer   *)
(* of each chunk, and enqueues one batch with those it could reserve.  The *)
(* stream copies batches in order; the pool's threads publish each copied  *)
(* batch, chunk by chunk.  The step ends when every batch is published.    *)
(* One call into the store is one action, as the store's lock makes it.    *)
(*                                                                         *)
(* Outside: vLLM chooses the requests of a step and how many chunks of     *)
(* each are computed.  A device or copy error is a fault; one that leaves  *)
(* save_kv_layer stops the engine.  Without an NPU there is no stream and  *)
(* no pool: the runner copies and publishes each batch itself.             *)
(***************************************************************************)
EXTENDS PinnedStore, Sequences, SequencesExt

CONSTANTS
  NumLayers,    \* layers are walked in order
  Chunks,       \* the segments of each request's chunks, in prompt order
  MaxInflight,  \* max_inflight_store_batches
  Workers,      \* store_workers
  MaxFaults     \* bound on failed publications

ASSUME LayersAssumption  == NumLayers \in Nat \ {0} /\ Layer = 1..NumLayers
ASSUME ChunksAssumption  == Chunks \in [Req -> Seq(Seg)]
ASSUME WorkersAssumption == MaxInflight \in Nat \ {0} /\ Workers \in Nat \ {0}
ASSUME FaultsAssumption  == MaxFaults \in Nat

VARIABLES
  pc,        \* where the runner is in the step
  todo,      \* requests of the step: <<request, usable chunks>>
  layer,     \* the layer the model has just computed
  turn,      \* position in todo
  chunk,     \* position in the request's chunks; while the runner publishes,
             \* in pending
  pending,   \* segments whose layer is reserved for the next batch; while a
             \* finished request or an exception is cleaned up, what is still
             \* to be aborted
  segments,  \* _save_segments
  pool,      \* batches not yet published, in the order they were submitted
  slots,     \* _save_slots
  faults,    \* publications that failed
  lost,      \* history: segments that the store refused or evicted since they
             \* were last begun
  stream     \* there is a Store stream

stepVars   == <<todo, layer, turn, stream>>
runnerVars == <<pc, stepVars, chunk, pending, segments>>
poolVars   == <<pool, slots>>
history    == <<faults, lost>>
wvars      == <<vars, runnerVars, poolVars, history>>

Batches == [layer : Layer, all : Seq(Seg), rest : Seq(Seg), copied : BOOLEAN,
            aborting : BOOLEAN]

Request == todo[turn][1]
Usable  == todo[turn][2]

WInit ==
  /\ Init
  /\ pc = "idle" /\ todo = <<>> /\ layer = 1 /\ turn = 1 /\ chunk = 1
  /\ pending = <<>> /\ segments = [r \in Req |-> <<>>]
  /\ pool = <<>> /\ slots = MaxInflight /\ faults = 0 /\ lost = {}
  /\ stream \in BOOLEAN

-----------------------------------------------------------------------------
(* The model runner                                                        *)

\* Entries that this call into the store refused or evicted.
Taken == {s \in live \ failed : s \notin live' \ failed'}

\* A step with requests in some order, each with so many chunks computed.
StartStep ==
  /\ pc = "idle"
  /\ \E order \in {o \in SetToSeqs(Req) \cup {<<r>> : r \in Req} : o # <<>>},
        n \in [Req -> UNION {0..Len(Chunks[r]) : r \in Req}] :
       /\ \A r \in Req : n[r] <= Len(Chunks[r])
       /\ todo' = [i \in DOMAIN order |-> <<order[i], n[order[i]]>>]
  /\ pc' = "begin" /\ layer' = 1 /\ turn' = 1 /\ chunk' = 1
  /\ UNCHANGED <<vars, stream, pending, segments, poolVars, history>>

\* _request_save_segments: an entry for each chunk not named before.
Begin ==
  /\ pc = "begin"
  /\ LET n == Len(segments[Request]) IN
     IF n < Usable
     THEN LET s == Chunks[Request][n + 1] IN
          /\ BeginPut(s)
          /\ segments' = [segments EXCEPT ![Request] = Append(@, s)]
          /\ lost' = IF s \in live THEN lost ELSE lost \ {s}
          /\ UNCHANGED pc
     ELSE /\ pc' = "reserve"
          /\ UNCHANGED <<vars, segments, lost>>
  /\ UNCHANGED <<stepVars, chunk, pending, poolVars, faults>>

\* Faulty variant of Reserve: the answer of reserve_layer is not looked at.
ReserveUnchecked ==
  /\ pc = "reserve" /\ chunk <= Usable
  /\ LET s == segments[Request][chunk] IN
     /\ ReserveLayer(s, layer) \/ UNCHANGED vars
     /\ pending' = Append(pending, s)
  /\ chunk' = chunk + 1
  /\ UNCHANGED <<pc, stepVars, segments, poolVars, history>>

\* reserve_layer for the next chunk; those that cannot be reserved are skipped.
Reserve ==
  /\ pc = "reserve" /\ chunk <= Usable
  /\ LET s == segments[Request][chunk] IN
     \/ /\ ReserveLayer(s, layer)
        /\ pending' = Append(pending, s)
     \/ /\ s \notin live \ failed \/ <<s, layer>> \in stored \cup reserved
        /\ UNCHANGED <<vars, pending>>
  /\ chunk' = chunk + 1
  /\ UNCHANGED <<pc, stepVars, segments, poolVars, history>>

\* The next request of this layer, the next layer, or the end of the forward.
NextTurn ==
  /\ chunk' = 1 /\ pending' = <<>>
  /\ IF turn < Len(todo)
     THEN turn' = turn + 1 /\ pc' = "begin" /\ UNCHANGED layer
     ELSE /\ turn' = 1
          /\ IF layer < NumLayers
             THEN layer' = layer + 1 /\ pc' = "begin"
             ELSE pc' = "wait" /\ UNCHANGED layer

\* Nothing of this request is to be saved in this layer.
Skip ==
  /\ pc = "reserve" /\ chunk > Usable /\ pending = <<>>
  /\ NextTurn
  /\ UNCHANGED <<vars, todo, stream, segments, poolVars, history>>

\* _enqueue_store_batch: it waits for a slot, then queues gather and copy on the
\* Store stream and the publication on the pool.
Enqueue ==
  /\ pc = "reserve" /\ chunk > Usable /\ pending # <<>> /\ stream
  /\ slots > 0
  /\ slots' = slots - 1
  /\ pool' = Append(pool, [layer |-> layer, all |-> pending, rest |-> pending,
                           copied |-> FALSE, aborting |-> FALSE])
  /\ NextTurn
  /\ UNCHANGED <<vars, todo, stream, segments, history>>

\* Without a stream the runner gathers and copies itself ...
CopyInline ==
  /\ pc = "reserve" /\ chunk > Usable /\ pending # <<>> /\ ~stream
  /\ pc' = "publish" /\ chunk' = 1
  /\ UNCHANGED <<vars, stepVars, pending, segments, poolVars, history>>

\* ... and publishes chunk by chunk; an entry that is gone takes nothing.
PublishInline ==
  /\ pc = "publish"
  /\ IF chunk <= Len(pending)
     THEN /\ LET s == pending[chunk] IN
             PutLayerHost(s, layer) \/ (s \notin live /\ UNCHANGED vars)
          /\ lost' = lost \cup Taken
          /\ chunk' = chunk + 1
          /\ UNCHANGED <<pc, stepVars, pending>>
     ELSE NextTurn /\ UNCHANGED <<vars, todo, stream, lost>>
  /\ UNCHANGED <<segments, poolVars, faults>>

\* Gather, copy, submission or an inline put raises ...
Raise ==
  /\ \/ pc = "reserve" /\ chunk > Usable /\ pending # <<>> /\ (stream => slots > 0)
     \/ pc = "publish" /\ chunk <= Len(pending)
  /\ faults < MaxFaults
  /\ faults' = faults + 1
  /\ pc' = "raise"
  /\ UNCHANGED <<vars, stepVars, chunk, pending, segments, poolVars, lost>>

AbortOne(s) == AbortPut(s) \/ (s \notin live \ committed /\ UNCHANGED vars)

\* ... the chunks of the batch are aborted, and the engine stops.
AbortRaised ==
  /\ pc = "raise"
  /\ IF pending = <<>> THEN pc' = "stopped" /\ UNCHANGED <<vars, pending>>
     ELSE /\ AbortOne(Head(pending))
          /\ pending' = Tail(pending) /\ UNCHANGED pc
  /\ UNCHANGED <<stepVars, chunk, segments, poolVars, history>>

\* wait_for_save: the stream is drained and every future has its result.
\* Faulty variant: the stream only.
WaitForStream ==
  /\ pc = "wait" /\ \A i \in DOMAIN pool : pool[i].copied
  /\ pc' = "finish"
  /\ UNCHANGED <<vars, stepVars, chunk, pending, segments, poolVars, history>>

WaitForSave ==
  /\ pc = "wait" /\ pool = <<>>
  /\ pc' = "finish"
  /\ UNCHANGED <<vars, stepVars, chunk, pending, segments, poolVars, history>>

\* get_finished: a finished request's pins are released ...
FinishRequest(r) ==
  /\ pc = "finish"
  /\ Release(r)
  /\ pending' = segments[r] /\ segments' = [segments EXCEPT ![r] = <<>>]
  /\ pc' = "abort"
  /\ UNCHANGED <<stepVars, chunk, poolVars, history>>

\* ... and what it began is aborted, unless it is committed.
FinishAbort ==
  /\ pc = "abort"
  /\ IF pending = <<>> THEN pc' = "finish" /\ UNCHANGED <<vars, pending>>
     ELSE /\ AbortOne(Head(pending))
          /\ pending' = Tail(pending) /\ UNCHANGED pc
  /\ UNCHANGED <<stepVars, chunk, segments, poolVars, history>>

EndStep ==
  /\ pc = "finish"
  /\ pc' = "idle" /\ todo' = <<>> /\ layer' = 1
  /\ UNCHANGED <<vars, turn, stream, chunk, pending, segments, poolVars, history>>

-----------------------------------------------------------------------------
(* The Store stream and the save pool                                      *)

\* The stream copies the oldest batch that is not copied.
Copy(i) ==
  /\ i \in DOMAIN pool /\ ~pool[i].copied
  /\ \A j \in 1..(i - 1) : pool[j].copied
  /\ pool' = [pool EXCEPT ![i].copied = TRUE]
  /\ UNCHANGED <<vars, runnerVars, slots, history>>

\* The pool's threads work on the first batches.
Active(i) == i \in DOMAIN pool /\ i <= Workers

Rest(i) == pool' = [pool EXCEPT ![i].rest = Tail(@)]

\* _publish_host_batch, one chunk.
Publish(i) ==
  /\ Active(i) /\ pool[i].copied /\ ~pool[i].aborting /\ pool[i].rest # <<>>
  /\ LET s == Head(pool[i].rest) IN
     PutLayerHost(s, pool[i].layer) \/ (s \notin live /\ UNCHANGED vars)
  /\ lost' = lost \cup Taken
  /\ Rest(i)
  /\ UNCHANGED <<runnerVars, slots, faults>>

\* The event or a put raises: every chunk of the batch is aborted.
PublishFails(i) ==
  /\ Active(i) /\ ~pool[i].aborting /\ faults < MaxFaults
  /\ \A j \in 1..(i - 1) : pool[j].copied
  /\ pool' = [pool EXCEPT ![i] = [@ EXCEPT !.aborting = TRUE, !.copied = TRUE,
                                           !.rest = pool[i].all]]
  /\ faults' = faults + 1
  /\ UNCHANGED <<vars, runnerVars, slots, lost>>

AbortBatch(i) ==
  /\ Active(i) /\ pool[i].aborting /\ pool[i].rest # <<>>
  /\ AbortOne(Head(pool[i].rest))
  /\ Rest(i)
  /\ UNCHANGED <<runnerVars, slots, history>>

\* _save_done.  Faulty variant: the slot is kept.
DoneKeepsSlot(i) ==
  /\ Active(i) /\ pool[i].copied /\ pool[i].rest = <<>>
  /\ pool' = RemoveAt(pool, i)
  /\ UNCHANGED <<vars, runnerVars, slots, history>>

Done(i) ==
  /\ Active(i) /\ pool[i].copied /\ pool[i].rest = <<>>
  /\ pool' = RemoveAt(pool, i)
  /\ slots' = slots + 1
  /\ UNCHANGED <<vars, runnerVars, history>>

-----------------------------------------------------------------------------
\* The lookup server, for readers of this rank.
Reader ==
  /\ \/ \E r \in Req, plan \in Plans : Pin(r, plan)
     \/ \E r \in Req : Release(r)
  /\ UNCHANGED <<runnerVars, poolVars, history>>

Runner ==
  \/ Begin \/ Reserve \/ Skip \/ Enqueue \/ CopyInline \/ PublishInline
  \/ AbortRaised \/ WaitForSave \/ FinishAbort \/ EndStep

Pool ==
  \E i \in 1..MaxInflight :
    Copy(i) \/ Publish(i) \/ PublishFails(i) \/ AbortBatch(i) \/ Done(i)

WNext ==
  \/ StartStep
  \/ Runner \/ Raise
  \/ \E r \in Req : FinishRequest(r)
  \/ Pool
  \/ Reader

\* The threads run on; a step need not start.  The set of finished requests is
\* finite, so that get_finished returns: strong fairness of EndStep.
WFairness ==
  /\ WF_wvars(Runner) /\ SF_wvars(EndStep)
  /\ \A i \in 1..MaxInflight :
       WF_wvars(Copy(i)) /\ WF_wvars(Publish(i) \/ AbortBatch(i) \/ Done(i))

WSpec == WInit /\ [][WNext]_wvars /\ WFairness

-----------------------------------------------------------------------------
\* Who will store the reserved layer l of s.
Writers(s, l) ==
  Cardinality({i \in DOMAIN pool :
                 pool[i].layer = l /\ ~pool[i].aborting /\ s \in ToSet(pool[i].rest)})
  + (IF /\ layer = l
        /\ \/ pc = "reserve" /\ s \in ToSet(pending)
           \/ pc = "publish" /\ s \in ToSet(SubSeq(pending, chunk, Len(pending)))
     THEN 1 ELSE 0)

\* A reserved layer has one writer, who will store it or give it back: a second
\* request or batch that meets the same chunk never writes it too, and a writer
\* never finds its reservation taken.  Only a failed batch leaves a reservation
\* without a writer (storage.py:107-136; connector.py:308-331, 471-502).
ReservationOwned ==
  \A s \in Seg, l \in Layer :
    /\ Writers(s, l) <= IF <<s, l>> \in reserved THEN 1 ELSE 0
    /\ faults = 0 /\ <<s, l>> \in reserved => Writers(s, l) = 1

\* ARCHITECTURE.md:90: "An incomplete or failed entry is discarded as a unit".
\* Between steps every entry is complete.
EntriesDiscarded == pc = "idle" => live = committed /\ reserved = {}

\* While no publication failed, what a step could not store is gone when it ends,
\* with its reservations: refusals, evictions, readers and finished requests
\* leave nothing half-written (connector.py:504-534, 552-557).
Settled == faults = 0 => EntriesDiscarded

\* A chunk that a step was asked to save can be found when the step ends, unless
\* the store itself refused or evicted it, whoever else was saving the same chunk
\* or finishing (ARCHITECTURE.md:64-66; connector.py:308-382, 504-557).
AllSaved ==
  pc = "idle" /\ faults = 0 =>
    \A r \in Req : ToSet(segments[r]) \ lost \subseteq index

\* A step ends: the runner's wait for a slot and for the futures is always
\* served by the pool (connector.py:394, 504-517).
StepEnds == pc # "idle" ~> pc \in {"idle", "stopped"}

=============================================================================
