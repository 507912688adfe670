--------------------------- MODULE SchedulerPlan ---------------------------
(***************************************************************************)
(* Plans from the scheduler to the worker and back (connector.py): what    *)
(* the connector claims as external tokens, the metadata it builds for a   *)
(* step, the side forward's load, the chunks that are saved, and what it   *)
(* reports of failed loads.                                                *)
(*                                                                         *)
(* Outside: vLLM.  It asks the connector about a waiting request, each     *)
(* time with the length of the prefix that its own cache (APC) then has;   *)
(* it allocates pages, schedules tokens, preempts (all pages are freed and *)
(* the request waits again) and finishes requests.  After a step it moves  *)
(* num_computed_tokens on, back to the first page reported as failed.      *)
(*                                                                         *)
(* A page is the slot of one token, <<request, position, allocation>>;     *)
(* blocks of BlockSize pages are allocated together.  Allocation 0 stands  *)
(* for what APC owns and other requests read.  Data is abstracted to its   *)
(* quality.  The lookup is TPLookup's: an accepted plan is pinned.  The    *)
(* save of a step is Writeback's.  Every request is cacheable.             *)
(***************************************************************************)
EXTENDS Integers, Sequences, FiniteSets

CONSTANTS
  Req,             \* request identifiers
  Length,          \* tokens of each prompt
  Chunk,           \* chunk_size
  BlockSize,       \* tokens in a block of vLLM's cache
  SparseQ,         \* whether selection_strategy is sparse_q or compare: the
                   \* values to look at
  Policies,        \* the values of kv_load_failure_policy to look at
  MaxMoves,        \* bound on the changes of APC while requests wait
  MaxPreemptions,  \* bound on the preemptions of each request
  MaxFailures,     \* bound on device errors in side forwards
  None             \* nothing there

ASSUME ReqAssumption    == IsFiniteSet(Req)
ASSUME LengthAssumption == Length \in Nat \ {0} /\ Chunk \in Nat \ {0}
                           /\ BlockSize \in Nat \ {0}
ASSUME SwitchAssumption == /\ SparseQ \subseteq BOOLEAN /\ SparseQ # {}
                           /\ Policies \subseteq {"recompute", "fail"}
ASSUME BoundAssumption  == {MaxMoves, MaxPreemptions, MaxFailures} \subseteq Nat

VARIABLES
  \* vLLM
  status,     \* waiting, running or finished
  native,     \* what APC has of each prompt, in tokens
  moves,      \* changes of APC so far
  blocks,     \* the pages of each request
  computed,   \* num_computed_tokens
  epoch,      \* allocation number of each request: 1 before any preemption
  scheduled,  \* what the step does for a request, or None
  preempted,  \* preempted_req_ids of the step
  \* the scheduler's side of the connector
  future,     \* _lookup_futures: the APC length and the result, or None
  plans,      \* _plans
  loads,      \* _load_requests
  tracked,    \* block_ids in _scheduler_requests, or None
  \* the step
  mode,       \* "schedule", "work", or "stopped" by an exception
  meta,       \* the connector's metadata, by request
  toLoad,     \* requests whose plan start_load_kv has not come to
  \* the worker
  kv,         \* quality of what each page holds
  pinned,     \* requests whose plan is pinned in the store
  saved,      \* <<request, chunk, usable>>
  errors,     \* _load_errors
  failures    \* device errors so far

vllmVars == <<status, native, moves, blocks, computed, epoch, scheduled, preempted>>
planVars == <<future, plans, loads, tracked>>
stepVars == <<mode, meta, toLoad>>
dataVars == <<kv, pinned, saved, errors, failures>>
vars == <<vllmVars, planVars, stepVars, dataVars>>

-----------------------------------------------------------------------------
RoundUp(n) == ((n + BlockSize - 1) \div BlockSize) * BlockSize

Positions == 0..(RoundUp(Length) - 1)
Pages     == Req \X Positions \X (0..(MaxPreemptions + 1))

\* What APC can have of a prompt: whole blocks, never the last token.
Natives == {n \in 0..(Length - 1) : n % BlockSize = 0}

Least(S) == CHOOSE x \in S : \A y \in S : x <= y
Lower(a, b) == IF a <= b THEN a ELSE b

\* A plan: hits are the starts of its segments, stop is allocation_end.
Plan(apc, stop, hits) == [apc |-> apc, stop |-> stop, hits |-> hits]
Empty(apc) == Plan(apc, apc, {})

\* What a lookup can find after the first apc tokens: disjoint chunks before
\* the last token (BlendPlan.__post_init__, tokens[:-1]).
HitSets(apc) ==
  {H \in SUBSET (apc..(Length - 1 - Chunk)) :
     \A x \in H, y \in H : x < y => x + Chunk <= y}

\* from_segments, extended to the trailing question by Sparse-Q.
PlanFor(apc, H, sparse) ==
  IF H = {} THEN Empty(apc)
  ELSE Plan(apc,
            IF sparse THEN Length - 1
            ELSE (CHOOSE x \in H : \A y \in H : y <= x) + Chunk,
            H)

PlanSet ==
  UNION {{PlanFor(apc, H, b) : H \in HitSets(apc), b \in SparseQ} : apc \in Natives}

\* Positions the side forward writes.
Span(plan) == plan.apc..(plan.stop - 1)

\* What a lookup in flight, a scheduled request and its metadata consist of.
Futures   == [apc : Natives, result : PlanSet \cup {None}, raised : BOOLEAN]
Schedules == [how : {"new", "running", "resumed"}, tokens : Nat, pages : Seq(Pages),
              external : Nat]
Metas     == [plan : PlanSet \cup {None}, slots : Seq(Pages), saveEnd : Nat]

ASSUME NoneAssumption ==
  None \notin PlanSet /\ None \notin Futures /\ None \notin Schedules /\ None \notin Metas

Usable(page) == kv[page] \in {"exact", "blend"}

\* Pages that hold something of the first n tokens for attention.
Sound(table, n) == \A i \in 1..n : Usable(table[i])

Init ==
  /\ status = [r \in Req |-> "waiting"]
  /\ native \in [Req -> Natives] /\ moves = 0
  /\ blocks = [r \in Req |-> <<>>] /\ computed = [r \in Req |-> 0]
  /\ epoch = [r \in Req |-> 1] /\ scheduled = [r \in Req |-> None]
  /\ preempted = {}
  /\ future = [r \in Req |-> None] /\ plans = [r \in Req |-> None]
  /\ loads = {} /\ tracked = [r \in Req |-> None]
  /\ mode = "schedule" /\ meta = [r \in Req |-> None] /\ toLoad = {}
  /\ kv = [p \in Pages |-> IF p[3] = 0 THEN "exact" ELSE "empty"]
  /\ pinned = {} /\ saved = {} /\ errors = {} /\ failures = 0

-----------------------------------------------------------------------------
(* vLLM between steps                                                      *)

Apc(r, n) ==
  /\ moves < MaxMoves /\ status[r] = "waiting" /\ n # native[r]
  /\ native' = [native EXCEPT ![r] = n]
  /\ moves' = moves + 1
  /\ UNCHANGED <<status, blocks, computed, epoch, scheduled, preempted,
                 planVars, stepVars, dataVars>>

Preempt(r) ==
  /\ mode = "schedule" /\ status[r] = "running" /\ scheduled[r] = None
  /\ epoch[r] <= MaxPreemptions
  /\ status' = [status EXCEPT ![r] = "waiting"]
  /\ blocks' = [blocks EXCEPT ![r] = <<>>]
  /\ computed' = [computed EXCEPT ![r] = 0]
  /\ epoch' = [epoch EXCEPT ![r] = @ + 1]
  /\ preempted' = preempted \cup {r}
  /\ UNCHANGED <<native, moves, scheduled, planVars, stepVars, dataVars>>

\* request_finished: everything the connector keeps of the request goes.
Finish(r) ==
  /\ mode = "schedule" /\ status[r] # "finished" /\ scheduled[r] = None
  /\ status' = [status EXCEPT ![r] = "finished"]
  /\ blocks' = [blocks EXCEPT ![r] = <<>>]
  /\ future' = [future EXCEPT ![r] = None]
  /\ plans' = [plans EXCEPT ![r] = None]
  /\ loads' = loads \ {r}
  /\ tracked' = [tracked EXCEPT ![r] = None]
  /\ pinned' = pinned \ {r}
  /\ UNCHANGED <<native, moves, computed, epoch, scheduled, preempted, stepVars,
                 kv, saved, errors, failures>>

-----------------------------------------------------------------------------
(* get_num_new_matched_tokens                                              *)

Asks(r) == mode = "schedule" /\ status[r] = "waiting" /\ preempted = {}

\* Too little is left after the APC prefix: no lookup.
AskShort(r) ==
  /\ Asks(r) /\ plans[r] = None /\ future[r] = None
  /\ Length - native[r] <= Chunk
  /\ plans' = [plans EXCEPT ![r] = Empty(native[r])]
  /\ UNCHANGED <<vllmVars, future, loads, tracked, stepVars, dataVars>>

Submit(r) ==
  /\ Asks(r) /\ plans[r] = None /\ future[r] = None
  /\ Length - native[r] > Chunk
  /\ future' = [future EXCEPT ![r] = [apc |-> native[r], result |-> None,
                                              raised |-> FALSE]]
  /\ UNCHANGED <<vllmVars, plans, loads, tracked, stepVars, dataVars>>

\* The lookup pool, at any time: an accepted plan is pinned; a lookup that finds
\* nothing or whose plan is rejected has an empty one.
LookupDone(r) ==
  /\ future[r] # None /\ future[r].result = None
  /\ \E H \in HitSets(future[r].apc), sparse \in SparseQ :
       /\ future' = [future EXCEPT ![r].result = PlanFor(future[r].apc, H, sparse)]
       /\ pinned' = IF H = {} THEN pinned ELSE pinned \cup {r}
  /\ UNCHANGED <<vllmVars, plans, loads, tracked, stepVars, kv, saved, errors,
                 failures>>

\* A lookup that raises leaves the plan to who asks for it.
LookupRaises(r) ==
  /\ future[r] # None /\ future[r].result = None
  /\ future' = [future EXCEPT ![r].result = Empty(future[r].apc), ![r].raised = TRUE]
  /\ UNCHANGED <<vllmVars, plans, loads, tracked, stepVars, dataVars>>

\* The plan of a lookup that raised is empty, and for the present prefix.
Poll(r) ==
  /\ Asks(r) /\ future[r] # None /\ future[r].result # None
  /\ plans' = [plans EXCEPT ![r] =
       IF future[r].raised THEN Empty(native[r]) ELSE future[r].result]
  /\ future' = [future EXCEPT ![r] = None]
  /\ UNCHANGED <<vllmVars, loads, tracked, stepVars, dataVars>>

\* The answer for a recorded plan.  Faulty variant: the native prefix is counted too.
ExternalWhole(r) == plans[r].stop

External(r) == IF plans[r].stop > native[r] THEN plans[r].stop - native[r] ELSE 0

\* Pages of an admitted request: those APC has, and new ones.
Table(r, n) ==
  [i \in 1..n |-> <<r, i - 1, IF i <= native[r] THEN 0 ELSE epoch[r]>>]

\* vLLM takes the answer, allocates, and calls update_state_after_alloc.
Admit(r, tokens) ==
  /\ Asks(r) /\ plans[r] # None
  /\ LET start == native[r] + External(r) IN
     /\ tokens \in 1..(Length - start)
     /\ blocks' = [blocks EXCEPT ![r] = Table(r, RoundUp(start + tokens))]
     /\ computed' = [computed EXCEPT ![r] = start]
     /\ scheduled' = [scheduled EXCEPT ![r] =
          [how |-> IF epoch[r] = 1 THEN "new" ELSE "resumed",
           tokens |-> tokens, pages |-> Table(r, RoundUp(start + tokens)),
           external |-> External(r)]]
  /\ status' = [status EXCEPT ![r] = "running"]
  /\ loads' = IF External(r) > 0 THEN loads \cup {r} ELSE loads
  /\ UNCHANGED <<native, moves, epoch, preempted, future, plans, tracked, stepVars, dataVars>>

\* A running request gets pages for further tokens.
Continue(r, tokens) ==
  /\ mode = "schedule" /\ status[r] = "running" /\ scheduled[r] = None
  /\ tokens \in 1..(Length - computed[r])
  /\ LET have  == Len(blocks[r])
         fresh == [i \in 1..(RoundUp(computed[r] + tokens) - have) |->
                     <<r, have + i - 1, epoch[r]>>]
     IN /\ blocks' = [blocks EXCEPT ![r] = @ \o fresh]
        /\ scheduled' = [scheduled EXCEPT ![r] =
             [how |-> "running", tokens |-> tokens, pages |-> fresh, external |-> 0]]
  /\ UNCHANGED <<status, native, moves, computed, epoch, preempted, planVars, stepVars, dataVars>>

-----------------------------------------------------------------------------
(* build_connector_meta                                                    *)

Step == {r \in Req : scheduled[r] # None}

\* _SchedulerRequestState.block_ids after this step's allocations.
\* Faulty variant: the new pages of a running request are not added.
TrackedWithoutGrowth(r) ==
  LET old == IF r \in preempted THEN <<>> ELSE tracked[r] IN
  IF r \notin Step THEN IF tracked[r] = None THEN None ELSE old
  ELSE IF scheduled[r].how = "running" THEN old ELSE scheduled[r].pages

Tracked(r) ==
  LET old == IF tracked[r] # None /\ r \in preempted THEN <<>> ELSE tracked[r] IN
  IF r \notin Step THEN old
  ELSE IF scheduled[r].how = "running" THEN old \o scheduled[r].pages
       ELSE scheduled[r].pages

\* _save_end.  Faulty variant: up to the capacity of the pages.
SaveEndCapacity(r, capacity) == Lower(Length, capacity)

SaveEnd(r, capacity) ==
  Lower(computed[r] + scheduled[r].tokens, Lower(Length, capacity))

\* Requests of the step that get their plan.  Faulty variants: a resumed
\* request does not get it again; a plan is sent at each step.
EmittedFirstTime == {r \in Step \cap loads : scheduled[r].how # "resumed"}
EmittedAgain     == {r \in Step : plans[r].hits # {}}

Emitted == Step \cap loads

BuildMeta ==
  /\ mode = "schedule"
  /\ mode' = "work"
  /\ tracked' = [r \in Req |-> Tracked(r)]
  /\ meta' = [r \in Req |->
       IF r \notin Step THEN None
       ELSE LET slots == SubSeq(Tracked(r), 1, Lower(Length, Len(Tracked(r)))) IN
            [plan |-> IF r \in Emitted THEN plans[r] ELSE None,
             slots |-> slots, saveEnd |-> SaveEnd(r, Len(slots))]]
  /\ toLoad' = Emitted
  /\ loads' = loads \ Emitted
  /\ preempted' = {}
  /\ UNCHANGED <<status, native, moves, blocks, computed, epoch, scheduled, future,
                 plans, dataVars>>

-----------------------------------------------------------------------------
(* start_load_kv                                                           *)

\* Pages the loader scatters to.  Faulty variant: from the start of the buffer.
ScatteredFromStart(r) == {meta[r].slots[i + 1] : i \in 0..(meta[r].plan.stop - 1)}

Scattered(r) == {meta[r].slots[i + 1] : i \in Span(meta[r].plan)}

WriteKv(S, quality) == kv' = [p \in Pages |-> IF p \in S THEN quality ELSE kv[p]]

\* _record_load_error.  Faulty variants: the first block is forgotten; numbers
\* of slots are reported, not divided by block_size.
FailedPagesShort(r) ==
  {meta[r].slots[i + 1] : i \in (meta[r].plan.apc + BlockSize)..(meta[r].plan.stop - 1)}

FailedSlots(r) == {<<r, i * BlockSize, epoch[r]>> : i \in Span(meta[r].plan)}

FailedPages(r) == {meta[r].slots[i + 1] : i \in Span(meta[r].plan)}

\* A loader for no segments cannot be built: torch.cat raises, outside the try.
LoadNothing(r) ==
  /\ mode = "work" /\ r \in toLoad /\ meta[r].plan.hits = {}
  /\ mode' = "stopped"
  /\ UNCHANGED <<vllmVars, planVars, meta, toLoad, dataVars>>

Load(r) ==
  /\ mode = "work" /\ r \in toLoad /\ meta[r].plan.hits # {} /\ r \in pinned
  /\ WriteKv(Scattered(r),
             IF Sound(meta[r].slots, meta[r].plan.apc) THEN "blend" ELSE "bad")
  /\ toLoad' = toLoad \ {r}
  /\ pinned' = pinned \ {r}
  /\ UNCHANGED <<vllmVars, planVars, mode, meta, saved, errors, failures>>

\* The side forward raises: get_layer when the plan is not pinned, before
\* anything is written; the device at any layer.
LoadFails(r) ==
  /\ mode = "work" /\ r \in toLoad /\ meta[r].plan.hits # {}
  /\ \/ r \notin pinned /\ UNCHANGED <<kv, failures>>
     \/ /\ r \in pinned /\ failures < MaxFailures
        /\ failures' = failures + 1
        /\ WriteKv(Scattered(r), "bad") \/ UNCHANGED kv
  /\ errors' = errors \cup FailedPages(r)
  /\ \E policy \in Policies :
       mode' = IF policy = "recompute" THEN mode ELSE "stopped"
  /\ toLoad' = toLoad \ {r}
  /\ pinned' = pinned \ {r}
  /\ UNCHANGED <<vllmVars, planVars, meta, saved>>

-----------------------------------------------------------------------------
(* The forward, save_kv_layer, and the end of the step                     *)

\* The page of r's token i is computed in this step.
Computes(r, i) ==
  r \in Step /\ i \in computed[r]..(computed[r] + scheduled[r].tokens - 1)

Forwarded ==
  [p \in Pages |->
     IF Computes(p[1], p[2]) /\ p = blocks[p[1]][p[2] + 1]
     THEN IF Sound(blocks[p[1]], computed[p[1]]) THEN "exact" ELSE "bad"
     ELSE kv[p]]

\* The element of S with n before it.
Nth(S, n) == CHOOSE x \in S : Cardinality({y \in S : y < x}) = n

\* The slots of some chunks, one chunk after the other: what save_kv_layer gathers.
PendingSlots(r, D) ==
  [i \in 1..(Chunk * Cardinality(D)) |->
     meta[r].slots[Chunk * Nth(D, (i - 1) \div Chunk) + ((i - 1) % Chunk) + 1]]

BlockOf(page)  == <<page[1], page[2] \div BlockSize, page[3]>>
OffsetOf(page) == page[2] % BlockSize

\* The block table that stands for a list of slots: a block begins at the first slot
\* and wherever an offset is 0.  Faulty variant: blocks that follow the first one.
TableOfRun(slots) ==
  LET first == BlockOf(slots[1]) IN
  [n \in 1..((OffsetOf(slots[1]) + Len(slots) + BlockSize - 1) \div BlockSize) |->
     <<first[1], first[2] + n - 1, first[3]>>]

TableOf(slots) ==
  LET starts == {i \in DOMAIN slots : i = 1 \/ OffsetOf(slots[i]) = 0} IN
  [n \in 1..Cardinality(starts) |-> BlockOf(slots[Nth(starts, n - 1)])]

\* _gather_ascend_separate: the device's gather reads the table from an offset on; a
\* table of another length than expected is not used, but the slots themselves.
Gathered(slots) ==
  LET table == TableOf(slots)
      from  == OffsetOf(slots[1])
  IN IF Len(table) # (from + Len(slots) + BlockSize - 1) \div BlockSize THEN slots
     ELSE [i \in DOMAIN slots |->
             LET at == from + i - 1
                 b  == table[(at \div BlockSize) + 1]
             IN <<b[1], b[2] * BlockSize + (at % BlockSize), b[3]>>]

\* Whole chunks before save_end that are not stored yet, with what they hold.
SavedNow(r) ==
  {<<r, c, \A i \in (c * Chunk)..(c * Chunk + Chunk - 1) :
             Forwarded[meta[r].slots[i + 1]] \in {"exact", "blend"}>> :
     c \in {d \in 0..(meta[r].saveEnd \div Chunk - 1) :
              \A x \in saved : x[1] = r => x[2] # d}}

\* vLLM: num_computed_tokens, back to the first page reported as failed.
ComputedAfter(r) ==
  LET failed == {i \in 0..(Len(blocks[r]) - 1) : blocks[r][i + 1] \in errors} IN
  IF r \notin Step THEN computed[r]
  ELSE IF failed = {} THEN computed[r] + scheduled[r].tokens ELSE Least(failed)

Forward ==
  /\ mode = "work" /\ toLoad = {}
  /\ mode' = "schedule"
  /\ kv' = Forwarded
  /\ saved' = saved \cup UNION {SavedNow(r) : r \in Step}
  /\ computed' = [r \in Req |-> ComputedAfter(r)]
  /\ errors' = {}
  /\ scheduled' = [r \in Req |-> None] /\ meta' = [r \in Req |-> None]
  /\ UNCHANGED <<status, native, moves, blocks, epoch, preempted, planVars, toLoad,
                 pinned, failures>>

Next ==
  \/ \E r \in Req :
       \/ \E n \in Natives : Apc(r, n)
       \/ Preempt(r) \/ Finish(r)
       \/ AskShort(r) \/ Submit(r) \/ LookupDone(r) \/ LookupRaises(r) \/ Poll(r)
       \/ \E tokens \in 1..Length : Admit(r, tokens) \/ Continue(r, tokens)
       \/ LoadNothing(r) \/ Load(r) \/ LoadFails(r)
  \/ BuildMeta
  \/ Forward

Spec == Init /\ [][Next]_vars

-----------------------------------------------------------------------------
TypeOK ==
  /\ status \in [Req -> {"waiting", "running", "finished"}]
  /\ native \in [Req -> Natives] /\ moves \in 0..MaxMoves
  /\ blocks \in [Req -> Seq(Pages)]
  /\ computed \in [Req -> 0..Length] /\ epoch \in [Req -> 1..(MaxPreemptions + 1)]
  /\ scheduled \in [Req -> Schedules \cup {None}]
  /\ \A r \in Step : computed[r] + scheduled[r].tokens \in 1..Len(blocks[r])
  /\ future \in [Req -> Futures \cup {None}]
  /\ plans \in [Req -> PlanSet \cup {None}]
  /\ preempted \cup loads \cup toLoad \cup pinned \subseteq Req
  /\ tracked \in [Req -> Seq(Pages) \cup {None}]
  /\ meta \in [Req -> Metas \cup {None}]
  /\ mode \in {"schedule", "work", "stopped"}
  /\ kv \in [Pages -> {"empty", "exact", "blend", "bad"}]
  /\ saved \subseteq Req \X Nat \X BOOLEAN
  /\ errors \subseteq Pages /\ failures \in 0..MaxFailures

\* The worker gathers, scatters and saves through the pages that vLLM gives the
\* request in this step, across growth, preemption and resumption: a stale
\* block table would write into pages of another request (connector.py:779-866).
SlotsCurrent ==
  mode = "work" => \A r \in Step :
    meta[r] # None /\ meta[r].slots = SubSeq(blocks[r], 1, Lower(Length, Len(blocks[r])))

\* Where chunks are whole blocks, the device's gather reads just the pages of the
\* chunks that are pending, whichever were refused or saved before and so leave
\* holes among them (connector.py:311-335, kv_layout.py:27-87).
GatherExact ==
  mode = "work" /\ Chunk % BlockSize = 0 => \A r \in Step :
    \A D \in (SUBSET (0..(meta[r].saveEnd \div Chunk - 1))) \ {{}} :
      Gathered(PendingSlots(r, D)) = PendingSlots(r, D)

\* Tokens that vLLM counts as external are loaded in the same step, and nothing
\* is loaded twice; while prefix hits stay, a lookup without a result claims no
\* tokens (connector.py:585-621, 726-737, 796-799, 845-866).
ClaimsLoaded ==
  mode = "work" => \A r \in Step :
    /\ meta[r].plan # None <=> scheduled[r].external > 0
    /\ moves = 0 /\ meta[r].plan # None => meta[r].plan.hits # {}

\* ARCHITECTURE.md:96-97: "APC pages are gathered as attention context but never
\* overwritten by the side executor."  ascend.py:386 says so of commit.
SharedUntouched == \A p \in Pages : p[3] = 0 => kv[p] = "exact"

\* It is so while prefix hits stay as the lookups found them, through chunked
\* prefill, preemption and failed loads.
SharedWhileStable == moves = 0 => SharedUntouched

\* Between steps, every token that vLLM counts as computed has KV in its page:
\* from APC, the forward or a side forward; a failed load is taken back.  A hit
\* that moved since the lookup may leave a hole or overwrite
\* (connector.py:559-568, 587, 621; ascend.py:386).
ComputedFilled ==
  mode = "schedule" /\ moves = 0 => \A r \in Req :
    status[r] = "running" /\ scheduled[r] = None => Sound(blocks[r], computed[r])

\* ARCHITECTURE.md:22-23: entries "remain pinned until the side forward completes
\* or the request is cancelled".  The plan that a request loads before its first
\* preemption is pinned, however often vLLM asked and however its hit moved; a
\* plan without segments has nothing to pin.
FirstLoadPinned ==
  mode = "work" => \A r \in toLoad :
    epoch[r] = 1 /\ meta[r].plan.hits # {} => r \in pinned

\* ARCHITECTURE.md:105-106: "Only chunks that are known computed after the current
\* scheduler step are stored; uncomputed capacity in the final block is never
\* published": what is saved comes from pages that hold KV (connector.py:758-770).
SavedComputed == \A x \in saved : x[3]

\* It is so until a load fails (by the device, or because a preempted request
\* loads its plan again without its pins) or a prefix hit moves.
SavedUntilFailure ==
  \A x \in saved : epoch[x[1]] = 1 /\ failures = 0 /\ moves = 0 => x[3]

=============================================================================
