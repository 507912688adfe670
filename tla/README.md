# A TLA+ model of CacheBlend for vLLM

This directory holds TLA+ modules for the concurrent core of `cacheblend_vllm`,
configurations that check them with TLC on small instances, and proofs checked
by TLAPS. Paths such as `storage.py:221` are relative to `src/cacheblend_vllm/`.

## The system

CacheBlend is a vLLM connector. It stores the KV of prompt chunks on the CPU,
finds stored chunks at any position of a later prompt, and rebuilds that
prompt's KV from them by a side forward, recomputing only some tokens.

One scheduler process talks to one worker process per tensor-parallel rank:

```
 scheduler process                               worker process (one per rank)
 ---------------------------------------         -----------------------------------
 vLLM scheduler thread                           model-runner thread
   get_num_new_matched_tokens   submit             start_load_kv  -> side forward
   build_connector_meta      ------------+         save_kv_layer  -> Store stream
   request_finished                      |         wait_for_save, get_finished
 lookup pool (1 thread)  <---------------+       save pool (store_workers threads)
   MATCH, VALIDATE, PREFETCH, CANCEL --ZeroMQ--> lookup server thread (REP)
                                                 LocalPinnedCPUStore (one RLock)
```

### Inventory

| Component | State | Operations | Used by | What is hard |
|---|---|---|---|---|
| Pinned CPU store (`storage.py`) | ordered entries with layers, reservations, flags and counters; pins of requests; byte counter; index of fingerprints | `begin_put`, `reserve_layer`, `cancel_layer`, `put_layer(_host)`, `abort_put`, `match`, `validate`, `pin`, `release`, `get_layer`, `clear` | save pool, lookup server and model runner, from three kinds of threads | eviction against readers, refusal against the limit, failure of an entry with transfers under way |
| Token-range matcher, hashing (`matcher.py`, `hashing.py`) | records by scope and hash, by identity | `register`, `unregister`, `match` | store | rolling hash modulo 2^64, collisions, overlapping matches |
| Tensor-parallel lookup (`ipc.py`, pool in `connector.py`) | one REQ socket per rank; futures; cancelled ids | `lookup_and_prefetch`, `cancel`, `reset`, `_handle` | scheduler thread, through the pool | several ranks whose stores change meanwhile; cancellation of running lookups; timeouts with late messages |
| Scheduler-side planning (`connector.py`, `types.py`) | `_plans`, `_load_requests`, `_request_objects`, `_scheduler_requests` | `get_num_new_matched_tokens`, `update_state_after_alloc`, `build_connector_meta`, `_cleanup_scheduler_request`, `passes_gate` | vLLM's scheduler | plans that outlive the prefix hit they were made for; preemption; chunked prefill; load errors |
| Write-back (`connector.py`) | `_save_segments`, futures, slots, staging tensors | `save_kv_layer`, `_enqueue_store_batch`, `_publish_after_event`, `wait_for_save`, `get_finished` | vLLM's model runner | requests that share chunks, faults in the middle of a batch, waiting for slots and futures |
| Paged blend loader (`ascend.py`, `kv_layout.py`) | two staging buffers, events | `prefetch`, `get`, `commit` | side executor | two streams over two buffers |
| Qwen3 side executor, selection (`ascend.py`) | active tokens, gap mask | `run`, `_compute_layer`, `_select`, `_sparse_q_scores` | `start_load_kv` | gaps must stay selected; ranks must agree on the size of a selection |
| Registry, plugin, configuration, compatibility, tracing | constants | validation | start-up | nothing concurrent; not modelled |
| Benchmarks, scripts, examples | | | | tooling; not modelled |

What makes each component correct:

* **Store**: what a request has pinned can be read in every layer until it is
  released; counters equal pins; memory is exact and bounded; a chunk is
  visible exactly while complete; a failed entry goes with its last transfer;
  eviction is least recently used.
* **Lookup**: a plan is pinned whole on every rank or not used; every lookup
  gets an answer; no pin outlives its request.
* **Write-back**: a reserved layer has exactly one writer; nothing incomplete is
  left between steps; what was to be saved is found unless the store refused or
  evicted it; a step ends.
* **Planning**: the tokens claimed as external are exactly those the side
  forward produces; pages of the native prefix are never overwritten; nothing
  is saved that has not been computed.
* **Matcher**: the indexes agree; matches are exact, disjoint and leftmost, and
  what ranks keep of them makes a plan that its constructor accepts.
* **Loader and Store stream**: streams that work at once never share memory; the
  pages, and what is saved of them, are those of a worker that does one thing
  after the other.
* **Executor and selection**: every gap is recomputed in every layer; key and
  value of a token come from the same source; all ranks compute the same tokens
  and meet in the same collectives.

## Modules

| Module | Contents |
|---|---|
| `PlanPins` | plans (positions to segments) and pins as pure operators |
| `StoreContract` | what one rank's store promises, over two variables |
| `PinnedStore` | `LocalPinnedCPUStore`; implements `StoreContract` |
| `TPLookup` | lookup, pinning and cancellation over several ranks, each rank's store being one that keeps `StoreContract` |
| `Writeback` | saving, over the complete store of `PinnedStore` |
| `SchedulerPlan` | plans, step metadata, loads and saved chunks, with vLLM's scheduler as the environment |
| `SerialBlend` | what a worker's pages and publications promise, without streams |
| `DeviceStreams` | the serving, load and store streams, their events and memory; implements `SerialBlend` |
| `SideForward` | the Qwen3 side executor on the ranks of a group: tokens, buffers, collectives |
| `TokenMatcher` | hashes, the matcher's indexes and search, and the plan made of a match |
| `PinnedStoreProofs`, `TPLookupProofs`, `WritebackProofs`, `SchedulerPlanProofs`, `DeviceStreamsProofs`, `SideForwardProofs`, `TokenMatcherProofs` | theorems about the modules they extend, with their proofs |
| `SharedFacts` | lemmas that several of them use |
| `MCPinnedStore`, `MCTPLookup`, `MCWriteback`, `MCSchedulerPlan`, `MCSideForward`, `MCTokenMatcher` | constants and symmetry for TLC |

### `PinnedStore`

Each public method runs under one reentrant lock and is one action. An entry is
spread over several variables: `live` (it exists), `older` (the order of the
`OrderedDict`, as a relation), `stored`, `reserved`, `committed`, `failed`,
`pinCount`. `requestPins` is `_request_pins`, `bytes` is `_bytes`, `index` is
the matcher's key set. One tensor is one unit of memory: all chunks have the
same length and all layers the same shape. `put_layer_host` is the disjunction
of its four outcomes (`PutRejected`, `PutIgnored`, `PutOverCap`, `PutStored`).
Eviction is not a loop but the set it removes (`Victims`): an eligible entry
goes exactly when removing the eligible entries before it was not enough. A
method that returns without a state change (an unknown entry, a refused
reservation) is a stuttering step.

`match` is the matcher's answer followed by `validate`, under different locks;
the answer may be out of date, so `Validate` takes any plan.

### `StoreContract`

Two variables: the visible segments and the pins. A reader of the store needs
no more: publication is atomic, an unpinned segment may go at any time, a pinned
one never, and a request's pins are replaced as a unit. `PinnedStore` implements
it with `visible <- index`, `pins <- requestPins`.

### `TPLookup`

The scheduler (`Submit`, `Poll`, `Finish`), the thread of the lookup pool
(`Start` to `GotCancel`, one action for each answer it acts on), the servers
(`Serve`), the stores (`Publish`, `Evict`) and the side forwards (`StartBlend`,
`EndBlend`, `ReportFinished`). `wire[k]` is a set of messages: ZeroMQ orders
messages of one connection only, and a socket that is reset gives up its
connection; a message of a closed connection has `live = FALSE`, may still be
served, and its answer goes nowhere. `Timeout` resets the whole group that
`_request_all` asked and chooses which messages are lost. `MATCH` may return any
visible part of the prompt's segments, since the matcher's answer is validated
later under another lock. The gate's arithmetic is left out: a lookup may be
accepted or rejected.

### `Writeback`

The model runner is a small program (`pc`, `layer`, `turn`, `chunk`) that walks
layers and requests; the store's actions are those of `PinnedStore`, one call at
a time. `pool` holds the batches from their submission to the end of their
future; the Store stream copies them in order, the first `Workers` of them are
worked on. A reader pins and releases at any time.

`stream` is chosen at the start. Without an NPU there is no Store stream: the
runner gathers, copies and publishes each batch itself (`CopyInline`,
`PublishInline`). An exception there, or while a batch is enqueued (`Raise`),
aborts the batch's chunks and leaves `save_kv_layer`, which stops the engine.
`lost` is a history variable: what the store refused or evicted since it was
last begun. `AllSaved` says of everything else that a step was asked to save
that a lookup finds it once the step has ended.

### `SchedulerPlan`

The module follows one token's page through a step. A page is
`<<request, position, allocation>>`: allocation 0 stands for pages of vLLM's
prefix cache (APC), which other requests read, allocation *e* for pages the
request got after *e* - 1 preemptions. `kv` gives each page a quality: `empty`,
`exact` (APC or vLLM's forward), `blend` (the side forward) or `bad` (half
written, or computed from bad context). What a chunk contains does not matter,
only whether the pages it was copied from held KV.

A step has three phases. While `mode = "schedule"`, vLLM asks the connector
(`AskShort`, `Submit`, `Poll` are the three ways through
`get_num_new_matched_tokens`; a plan for a lookup that raised, `LookupRaises`, is
made in `Poll`, for the prefix hit of that call), admits requests (`Admit` allocates and calls
`update_state_after_alloc`), continues running ones, preempts and finishes.
`BuildMeta` is `build_connector_meta`. While `mode = "work"`, `Load`,
`LoadFails` or `LoadNothing` is one turn of the loop in `start_load_kv`, and
`Forward` is vLLM's forward with `save_kv_layer` and the report of failed
blocks. The lookup is seen as `TPLookup` leaves it: an accepted plan is
pinned, any other is empty. `LookupDone` and `LookupRaises` may happen in any phase.

`Apc`, `Preempt`, `Continue`, `Table`, `Forwarded` and `ComputedAfter` are vLLM:
it asks each time with the prefix hit it has then (`Apc` changes the hit while
a request waits), frees all pages of a preempted request and starts it again,
and moves `num_computed_tokens` back to the first page reported as failed.

Whether the span is extended for Sparse-Q (`SparseQ`) and which failure policy
holds (`Policies`) are constants with several values, tried in the same run.
`moves` counts the changes of prefix hits, so that a property can be stated for
hits that stay (`moves = 0`), where the code keeps its word, next to the runs
that show how it breaks otherwise.

`Gathered` is the gather of an NPU (`kv_layout.py:27-87`): a list of slots becomes
a block table, and the device reads the table from an offset on. `GatherExact`
compares what it reads with the slots, for every set of chunks that may be
pending.

`mode = "stopped"` is an exception that leaves the connector: the `fail` policy,
or a plan without segments in `PagedBlendLoader.__init__`, where `torch.cat` of
nothing raises outside the `try` (`ascend.py:199`).

### `DeviceStreams` and `SerialBlend`

The runner's thread enqueues; the streams run later, each in its order. `queue`
has the operations of each stream; an event is a position in a stream, `given`
counts what a stream was given, and an operation carries the event it waits for
(`wait_event`, `wait_stream`). `Begin` and `Layer` are one turn of the loop in
`run` (get, prefetch of the next layer, computation, commit), `Forward` is one
layer of vLLM's forward with the batches of `save_kv_layer`, `WaitForSave` ends the
step, `Publish` is a thread of the save pool.

Memory is followed, not arithmetic: `staging` says which request and layer a
buffer holds and how far it is, `pages` in which step and by whom a layer was
written, `stored` and `host` what was gathered and copied. Whatever arrives out
of order leaves `"bad"` in one of them, which `SerialBlend` has no word for.
A new loader's buffers are the memory of the one before: the caching allocator
gives it back at once, and the new loader knows none of the events of the old
one. What keeps its load stream off is that PyTorch waits for the serving stream
when `run` makes `input_ids` of a list. Without that wait (the variant
`BeginUnsynchronized`) the run finds a race.

That wait also orders a load after the forwards of earlier steps, which may have
computed the native prefix that the load gathers (`ascend.py:232-247`). The prefix's
pages are not among the slots' own pages here, so `Uses` does not name them;
`Computed`, the second part of `NoRace`, says it of the steps: when a load is next in
line, no forward of an earlier step is left.

`SerialBlend` knows pages and publications only: a layer is blended once per step
and in order, the forward takes each layer after all that was to be blended in
it, and a saved layer is what its pages hold, completed in the same step.

### `SideForward`

Tokens are their positions. `active[k]` is what rank *k* has hidden states of;
`keys` and `values` are the positions of each layer's buffer that were
overwritten with fresh ones. A check layer scores (`Score`), reduces the scores,
selects (`Choose`) and broadcasts; `kv_deviation` prunes before the check
layer's attention, `sparse_q` after its MLP, `compare` selects both ways and goes
on as `kv_deviation`. Scores are open: top-k may return any set of its size, so
the properties hold for every model and prompt. A collective is one step of all
ranks that have come to the same point; a rank that comes to another one, or
to none, blocks the model as it blocks the group. The module is not recursive and
takes its configuration from `Configs`, restricted by `Valid`
(`CacheBlendConfig.validate`).

### `TokenMatcher`

`byId`, `buckets` and `hashes` are the three indexes; `Register` and `Unregister`
change them, each under the matcher's lock. Hashes wrap around at `Modulus`; a
chunk's is computed by a loop, a window's by a product of vectors, as in the
code. `Match` is the search: windows with a known hash are visited from left to
right, each verified against the tokens of the records in its bucket (`Visit`).
Its loops are recursive functions on the number of tokens done. `MatchGreedy`
states the result without hashes. Tokens are any natural numbers, prompts are
not empty. `LookupMatch`, `PlanOf` and `Extended` are the way to
a plan; `Accepted` is `BlendPlan.__post_init__`.

## Runs

| Run | Instance | Shows |
|---|---|---|
| `pinned_store` | 3 segments, 2 layers, 2 requests, 2 positions, 4 units of memory | the store's invariants, eviction order, refinement of `StoreContract` |
| `lookup` | 2 requests, 1 shared segment, 2 ranks, no timeouts | pins on all ranks or none, cancellation in every order, liveness |
| `lookup_timeouts` | 1 request, 2 segments, 2 ranks, 2 timeouts | plans stay pinned and lookups end although messages are late or lost |
| `lookup_lost_cancel` | as before, 1 timeout | *violation*: a lost `CANCEL` keeps pins for ever |
| `writeback` | 2 requests that share a chunk, 2 chunks, 2 layers, 2 units, 2 slots, 2 workers, 1 fault, with and without a stream | reservations, complete entries between steps, nothing lost but what was refused or evicted, end of a step |
| `writeback_fault` | as before, 3 units, 1 fault | *violation*: a fault leaves an entry that never goes |
| `plans` | 1 request of 7 tokens, with and without Sparse-Q's span, both policies, 2 changes of hits, 1 preemption, 1 failure | slot mappings, gathers, claims and first loads are right in all of it; while hits stay, APC pages and computed tokens are right too, and saved chunks are computed until a load fails |
| `plans_resumed` | 1 request of 5 tokens, 1 preemption, policy `recompute` | *violation*: a used plan is loaded again without its pins, and chunks of the failed load are saved |
| `plans_growth` | 1 request of 5 tokens, moving hits | *violation*: a longer hit lets the side forward overwrite APC pages |
| `device_streams` | 2 steps, 2 requests, 3 layers, with and without a load stream, 1 side forward that raises | no races on staging, pages and host batches; loads after earlier steps' forwards; refinement of `SerialBlend` |
| `side_forward` | 2 ranks, 3 layers, spans of 5 tokens with every set of gaps, 14 configurations | gaps and forced tokens, the same tokens in keys, values and ranks, the cached mask, the end of the side forward |
| `matcher` | 9 chunks of 2 tokens, hashes of 2 bits, prompts of 1, 3 and 7 tokens | indexes agree under collisions, search equals its definition, plans are accepted |

Why these bounds are enough for the interesting cases:

* `pinned_store`: 4 units are two whole entries of three, so commits evict, are
  refused and fail half-way; two positions let one segment occur twice in a
  plan; two requests can pin the same segment.
* `lookup`: two requests compete for the one pool thread, one finished while the
  other's lookup runs; the stores of the two ranks differ. `lookup_timeouts`
  has two segments, so that ranks can agree on a part of a plan; two timeouts
  are enough for a lookup and for the cancellation after it to fail.
* `writeback`: with 2 units one entry fits, so layers are refused, entries
  fail with reservations, and readers' pins keep memory. The two requests share
  a chunk and save in any order, so one finds the other's reservations.
* `plans`: chunks and blocks of two tokens and prompts of 5 or 7 tokens, so
  that the last block is partial, a plan has up to three segments with or
  without gaps, the prefix hit is zero, one or more blocks, and a prompt may be
  prefilled in up to seven pieces. Segments may start at odd tokens, so that they
  cross blocks and chunks. One request is enough: requests share nothing in this
  module but the step (their pages differ, and APC pages are only read), and
  what they share in the store is in `Writeback` and `TPLookup`.

`CHECK_DEADLOCK FALSE` is used in the runs with timeouts: after a lost
cancellation everything may stay pinned and all requests be finished, and
nothing is left to happen. It is used in `plans` and `plans_growth`
because the engine may stop by an exception there. The end of a side forward and of the
last step are self-loops (`Finished`, `Quiet`), so that deadlock is checked in
`side_forward` and `device_streams`.

* `device_streams`: three layers use a buffer twice; two requests hand the
  loader's memory on, and two steps hand on the pages and the Store's staging.
* `side_forward`: five tokens have gaps at the ends, inside, in pairs and none;
  ratios are 0, a quarter, a half and three quarters; two check layers come in
  both orders of layers, the first and the last layer among them; the native
  prefix is empty or not.
* `matcher`: two of the four chunks collide, and with the same source position
  have the same identity; a prompt has room for three chunks, or for two with
  gaps, and the last token; every prompt of 7 tokens with a fixed first and last
  token is searched from every offset, so that from the second one on it is free.

## Fairness

`TPLookup`: weak fairness of the pool's thread, of each rank's server and of
each worker's end of a side forward and report of finished requests. They are
threads that run whenever they have work. Nothing is assumed of requests, of
the stores or of timeouts.

`Writeback`: weak fairness of the runner's steps, of the stream and of each pool
thread; strong fairness of `EndStep`, because `get_finished` walks a finite set
of finished requests and returns. Whether a step starts is left to vLLM. Every
step ends, by the runner going idle or by the engine stopping.

`SideForward`: weak fairness of each rank's own work and of the collectives: a
rank is a thread that runs on, and a collective returns when all have come.

`SchedulerPlan`, `DeviceStreams` and `TokenMatcher` state safety only.

## Proofs

The theorems hold for all values of the constants that the named assumptions of
the modules allow; TLC evaluates those assumptions in every run. Of the
assumptions, two kinds are about the model and not about the code: `None` differs
from everything it stands in for (`NoneAssumption`), and `SchedulerPlan` tries at
least one value of its switches (`SwitchAssumption`). Each proof module has an
inductive invariant, with each part next to its reason, and its properties as
corollaries.

| Module | Proved | The invariant, and why it needs its parts |
|---|---|---|
| `PinnedStoreProofs` | `TypeOK`, `PinnedReadable`, `PinAccounting`, `MemoryBound`, `IndexExact`, `FailedInFlight`, `EvictionIsLru`, `ImplementsContract` | `IInv`, and `Ordered` beside it |
| `TPLookupProofs` | `TypeOK`, `PlanPinned`, `RankContracts`; without timeouts `PinsHaveOwner` and `CancellationReleases` | `IInv`, and `OInv` without timeouts |
| `WritebackProofs` | `ReservationOwned`, `Settled`, `AllSaved`; `WSpec => Spec` | `WInv`, on top of the store's `IInv` |
| `SchedulerPlanProofs` | `TypeOK`, `SlotsCurrent`, `ClaimsLoaded`, `FirstLoadPinned`, `SharedWhileStable`, `ComputedFilled`, `SavedUntilFailure`, `GatherExact` | `SInv` |
| `DeviceStreamsProofs` | `NoRace`, `ImplementsSerial` | `DInv`, with `RInv` and `LoadsLate` on top |
| `SideForwardProofs` | `TypeOK`, `GapsRecomputed`, `ForcedRecomputed`, `SameTokens`, `CollectivesAgree`, `MaskCurrent` | `IInv` |
| `TokenMatcherProofs` | `IndexesAgree`, `MatchGreedy`, `PlanAccepted`; `RollingIsContentHash` | `MInv`; the others follow from it in each state |
| `SharedFacts` | lemmas of several modules: a set of numbers has a least and, when it is bounded, a greatest element; what `RemoveAt` does to a sequence | |

**`PinnedStoreProofs`.** `IInv` is the conjunction of the checked invariants and
`Bookkeeping` (a stored layer is not reserved; a removed entry has no count).
None of the parts is inductive alone: that a pinned entry is not evicted needs
that its counter is not zero (`PinAccounting`), that a committed entry is not
removed by a failure needs that it is not failed (`FailedInFlight`), and that
`PutStored` may count a layer as new needs that the counter is exact
(`MemoryBound`). `StoreImplementsContract` maps each action to `Publish`,
`Evict`, `Pin`, `Release`, `Clear` or a stutter; the invariant gives that what
goes was not pinned. `StoreEvictionIsLru` needs that `older` is a strict total order of
the entries (`StoreIsOrdered`), as the keys of an `OrderedDict` are: were two entries
not comparable, `Victims` could skip one.

**`TPLookupProofs`.** The danger is a late message: a `PREFETCH` or `CANCEL`
that is served after its socket was reset could replace or drop the pins of a
plan. `Late` says that such a message can only be for a request that has no plan
and no lookup that could still give it one (`Spoiled`): the thread sends a
`PREFETCH` once, and after a timeout goes to `undo` and answers with nothing. This
is why `PlanPinned` needs no bound on the timeouts. `Exchange` says that a live
message is the one the thread waits for, `Turns` that a request is in one place
of the pool only, `Results` who may have a plan, and `Held` what is pinned at
each point of a lookup. A timeout may lose a `CANCEL`, so `PinsHaveOwner` and
`CancellationReleases` are stated for `MaxTimeouts = 0`, where they are true (run
`lookup_lost_cancel` shows them false otherwise). `RankContracts` shows that each
server uses its store as `StoreContract` says.

**`WritebackProofs`.** `StoreIsKept` comes first in importance: each step of the
pipeline is a step of `PinnedStore` or leaves it alone, so the store's
theorems hold while chunks are saved. `Owned` names who will store or give
back each reservation, the runner or one batch, once; `Progress` says that an
entry which is not complete has, for every layer the runner has passed, the
layer or its reservation; `Kept` that what a request has named is there unless
it is in `lost`; `Begun` that all of a request's chunks have been named after its
first layer. When the futures are done (`Quiescent`) no reservation is left, so
by `Progress` every entry has all its layers.

**`SchedulerPlanProofs`.** `Placed` says which page is at each position of a
request's table, `Tables` that the connector's table, with what the step adds,
is vLLM's; this is `SlotsCurrent` before the metadata are built. `Stepping` and
`Handed` follow a claim from `update_state_after_alloc` to the worker. `Known`
says that a plan not yet loaded is pinned and, while no prefix moves, made for
the present prefix. Then an empty plan ends at that prefix and nothing is claimed of
it (`Claimed`, for the second part of `ClaimsLoaded`). `Filled` is `ComputedFilled` in the middle of a step: a computed
token has KV, or is about to be loaded, or is on a page reported as failed
(`Reported`). `GatherExact` follows from `Placed` and `Handed` and no other
invariant: when a chunk is whole blocks, blocks begin every `BlockSize` places of the
list of slots (`StartsFacts`, with `NthFacts` on ranks in a set of numbers), the slots
of a block stay together (`BlocksOfChunks`), and so the table has the expected length
and gives each slot back (`GatherOfBlocks`); a prefix hit is whole blocks too, so no
block is partly the cache's.

**`DeviceStreamsProofs`.** `Apart`, the first part of `NoRace`, speaks of the
heads of two streams. `Ordered` says more: of any two operations in different
streams that use the same memory, one is behind an event of the other. An order like that survives when
operations are done, and excludes a race of the heads. New operations need the
right events: those of the loader's buffers are after all that the other stream
does with them (`LoaderEvents`, only while a side forward is at a layer; at its
start the serving stream is empty, at its end nothing else is loaded), and the
store stream has only earlier layers (`StoreBehind`).

That `DeviceStreams` implements `SerialBlend` is `StreamsImplementSerial`. A serial step
happens when the serving stream does a scatter or a layer of the forward, long
after the runner enqueued it, so the invariant `RInv` is about the future: `Blended`,
`Fresh`, `Complete` and `Open` say of a page what will have become of it when the
queue has come to a given place. `Pending` says this of the operations in the queue
(a scatter finds earlier layers blended and its own not; a layer of the forward finds
earlier layers completed and what is left blended or untouched), `Coming` of what the
runner enqueues next, `Supplied` that a blend finds its layer loaded (the load is
done and nothing touches its buffer before, or it is at the place of the load queue
that the blend's event names), `Saved` that a copy finds what its gather
brought and a batch what its copy brought. For each action there is a lemma that it
keeps `RInv`; those of the runner share `Extended`: what is in a queue that only
grows finds what it found. A load or a gather that overtakes another stream is excluded by
`Ordered`, so `RInv` needs `DInv`. Scatter, forward and publication are then `Blend`,
`Forward` and `Save`, and everything else stutters.

`Computed`, the second part of `NoRace`, follows from `LoadsLate`: no forward in
the serving stream is of an earlier step than a load in the load stream. A new side forward begins with an empty
serving stream, and by `Coming` no forward is left while it goes on; a new layer of the
forward is of the present step, and no load is of a later one.

**`SideForwardProofs`.** Ranks are at most one collective apart (`Stages`), and
select the same way (`SameSelection`). `Selections` says that a selection under way
keeps the gaps and, for Sparse-Q, all that is near one; `Buffers` says this of the
layers done, and what the present layer's buffer has. Scores stay open: nothing is
assumed of top-k but its size.

**`TokenMatcherProofs`.** Nothing is assumed of the hash, so records may collide in
every way. What `Without` leaves of a bucket is defined by recursion over the bucket; a
recursive function exists, and has the property wanted, because there is no
least length at which it fails. Most of the work is that replacing a record
leaves each bucket without repetitions and forgets a hash only with its last
record.

`SearchesStayGreedy` is about a state in which the indexes agree, and has three
parts. A window's weighted sum is the hash of its tokens (`RollingIsContentHash`):
after each token the sum so far is, modulo `Modulus`, the hash so far times the power
of the base that its tokens still lack. So a window that
is stored has a known hash, and `Exact` finds it in its bucket among whatever
collides with it. Each visit then keeps `Greedy` of the matches so far (`GreedyStep`):
they are exact, apart and in order, and nothing stored before this place is missed
without an overlap. Last, a search of the suffix makes the same visits, moved by the
offset (`SuffixSearch`). `PlansStayAccepted` needs of the matches only that
two of them never overlap: any subset then has an `Ordered` enumeration, whose
neighbours are a chunk apart and whose last element ends before the prompt does
(`SomeOfTheSegments`).

The recursive functions of the module are shown to exist by `RecursionHasSolution`, and
statements about each of their values by `UpTo`: what holds at zero and passes from
each number to the next holds up to any bound, because there is no least number at which
it fails. This takes the place of the library's induction theorems, by sets in
place of operators.

### Only model-checked

Liveness (`LookupEnds`, `FinishedUnpins`, `StepEnds`, `SideForwardEnds`): it needs
fairness, hence ENABLED, which is out of the prover's reach. Every safety property of a
passing run is a theorem.

## What the code does and its documents do not say

* `docs/ARCHITECTURE.md:90-91` promises that a failed entry is discarded as a
  unit. A publication that raises (`connector.py:495`) marks its entries failed
  and leaves their reservations; the entry never goes, its bytes stay counted and
  its chunk can never be stored again. Run `writeback_fault`; `Settled` says that
  nothing but such a fault leaves an entry incomplete.
* `docs/ARCHITECTURE.md:113-114` promises that cancellation releases pins on
  every rank. A `CANCEL` that times out is only logged (`ipc.py:288`). Run
  `lookup_lost_cancel`; without timeouts it holds, by `PinsHaveOwner`.
* `docs/ARCHITECTURE.md:96-97` says that APC pages are never overwritten by the
  side executor. A plan keeps the prefix hit of the call that submitted its
  lookup; when vLLM asks again with a longer hit, only the claim shrinks
  (`connector.py:587`), and `commit` still scatters from the old hit, into
  shared pages. Run `plans_growth`.
  When the hit has become shorter instead, the claim grows
  (`connector.py:621`), but the side forward starts at the old hit; the tokens
  between the two hits count as computed and their pages are empty. (With
  moving hits and prompts of 7 tokens, `ComputedFilled` fails too.)
* `docs/ARCHITECTURE.md:110-113` says that lookup failures degrade to a local miss and
  that a load which fails raises under the policy `fail` only. An empty plan is kept as
  any other, with the prefix hit of its making as its end. Asked again with a shorter
  hit, the connector claims the tokens between the two (`connector.py:587`); the worker
  then builds a loader of no segments, whose constructor raises (`ascend.py:199`)
  outside the `try` of `start_load_kv`. The engine stops, under `recompute` too.
  `SchedulerPlan` has this (`LoadNothing`): `ClaimsLoaded` shows that no empty plan is
  claimed while hits stay, and fails with one change of a hit when its premise
  `moves = 0` is dropped.
* `docs/ARCHITECTURE.md:105-106` says that only chunks known to be computed are
  stored. Under `recompute`, a load that fails is reported after the forward,
  while `save_end` counts its tokens as computed: what the failed pages hold is
  saved and published. No device needs to fail for that: `_plans` keeps a plan
  after its pins were released, so that a request that is preempted afterwards
  is given the same plan again, and `get_layer` raises. Under `fail` the engine
  stops there. Run `plans_resumed`.

## Assumptions and what is left out

* vLLM steps synchronously: a request is not finished by the scheduler while its
  side forward runs.
* Request ids are not reused.
* A server answers or the client times out; error answers (`"ok": False`) are not
  modelled. `close` and shutdown are not modelled, except the store's `clear`.
* An exception that leaves `save_kv_layer` stops the engine.
* The end of a future and its callback (`_save_done`) are one step.
* Every request is cacheable; requests that are not get no plan and save
  nothing. `save_decode_cache` is off and a request has only its prompt's tokens.
* A page that a request got from APC is full; APC never has a prompt's last token.
* Except in `TokenMatcher`, an identity of a chunk stands for its tokens: that
  `begin_put` raises on a collision is not modelled, nor that other ranks
  validate by identity.
* Staging retired by `save_kv_layer` for another size (`connector.py:403-407`) is kept to
  the end of the step, so no memory of it is used twice; it is left out.
* What counts as a use of an entry is part of the model's order `older`; `EvictionIsLru`
  checks the walk over it, not that every use is one.
* Streams and events behave as documented for PyTorch; a tensor made of a list
  on the device waits for the current stream; pinned host memory is not given
  away while a copy uses it. The waits of other conversions are left out, which
  only adds behaviours.
* Key rotation, attention, norms and projections are not modelled, nor are the
  rounding of `cached_count * ratio` in floating point and ties of scores.
* `tp_global_selection` is on. With it off, ranks select different tokens and
  the group's reductions no longer fit together.
* No rank fails alone in the side forward: what the collective library does to
  the others is its own.
* A request does not get, in one step, a native prefix that another request
  computes in that step.
* Chunks are whole blocks where `GatherExact` is stated; the configuration does not
  enforce it.

### Not modelled

* Registry, plugin, adapters (`registry.py`, `plugin.py`, `models.py`): a dictionary
  filled at start-up under one lock.
* Reading the configuration, `compat.py`, `trace.py`: no state that outlives a
  call, or output only. Of `config.py`, `validate` is in `SideForward`.
* `passes_gate`: four comparisons with configured thresholds; `TPLookup` accepts
  or rejects any plan.
* `TokenRangeMatcher.validate`: it has no caller.
* Benchmarks, scripts and examples.

## Plan

Done: every component of the inventory that keeps state is modelled and checked,
and every safety property that a passing run checks is proved, the three refinements
among them. Liveness stays with TLC. What could follow are the parts under *Not
modelled* and the conditions that the configuration does not enforce, in the
first place chunks that are not whole blocks.
