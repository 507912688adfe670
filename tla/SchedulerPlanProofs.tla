------------------------ MODULE SchedulerPlanProofs ------------------------
(***************************************************************************)
(* Proofs about SchedulerPlan, for any requests, prompt length, chunk and  *)
(* block size, selection strategies, policies, and numbers of preemptions, *)
(* failures and changes of the prefix cache.                               *)
(*                                                                         *)
(* SInv is inductive.  Its parts say where a request's pages come from     *)
(* (Placed), that the connector's table of them is vLLM's (Tables), what   *)
(* the claims of a step and its metadata are (Stepping, Handed), which     *)
(* plans are pinned and for which prefix (Known), which pages a failed     *)
(* load reports (Reported), and which tokens have KV (Filled).  The last   *)
(* section is about the gather of chunks to store, and starts with facts   *)
(* about division and ranks in sets of numbers.                            *)
(***************************************************************************)
EXTENDS SchedulerPlan, SharedFacts

\* A page of a running request is one that the prefix cache had when the request
\* was admitted, or belongs to its latest allocation.
Placed ==
  \A r \in Req :
    /\ status[r] # "running" => blocks[r] = <<>>
    /\ status[r] = "running" => native[r] <= Len(blocks[r]) /\ computed[r] <= Len(blocks[r])
    /\ \A i \in 1..Len(blocks[r]) :
         blocks[r][i] = <<r, i - 1, IF i <= native[r] THEN 0 ELSE epoch[r]>>

\* What is claimed in a step is loaded in the step.
Stepping ==
  /\ mode # "schedule" => preempted = {} /\ loads = {}
  /\ mode = "schedule" => toLoad = {} /\ errors = {}
  /\ loads \cup toLoad \subseteq Step
  /\ \A r \in Step :
       /\ status[r] = "running" /\ scheduled[r].tokens # 0
       /\ computed[r] + scheduled[r].tokens <= Length
       /\ mode = "schedule" => (r \in loads <=> scheduled[r].external > 0)
       /\ r \in loads \cup toLoad => plans[r] # None /\ computed[r] = plans[r].stop

\* The connector's table, with what the step adds to it, is vLLM's.
Tables ==
  \A r \in Req : status[r] = "running" =>
    /\ r \notin preempted
    /\ IF mode = "schedule" /\ r \in Step
       THEN blocks[r] = IF scheduled[r].how = "running"
                        THEN tracked[r] \o scheduled[r].pages ELSE scheduled[r].pages
       ELSE blocks[r] = tracked[r]

\* The metadata of a step.
Handed ==
  mode # "schedule" => \A r \in Step :
    /\ meta[r] # None
    /\ meta[r].slots = SubSeq(blocks[r], 1, Lower(Length, Len(blocks[r])))
    /\ meta[r].saveEnd = SaveEnd(r, Lower(Length, Len(blocks[r])))
    /\ scheduled[r].external > 0 => meta[r].plan = plans[r]
    /\ meta[r].plan # None <=> scheduled[r].external > 0
    /\ r \in toLoad => scheduled[r].external > 0

\* A plan that is found and not loaded yet is pinned, until the first preemption; it
\* is for the present prefix as long as no prefix moves.
Known ==
  \A r \in Req :
    /\ future[r] # None =>
         /\ plans[r] = None /\ status[r] = "waiting"
         /\ future[r].result # None /\ future[r].result.hits # {} => r \in pinned
    /\ status[r] = "running" => plans[r] # None
    /\ /\ epoch[r] = 1 /\ plans[r] # None /\ plans[r].hits # {}
       /\ status[r] = "waiting" \/ r \in loads \cup toLoad
       => r \in pinned
    /\ moves = 0 =>
         /\ plans[r] # None => plans[r].apc = native[r]
         /\ future[r] # None =>
              /\ future[r].apc = native[r]
              /\ future[r].result # None => future[r].result.apc = native[r]

\* The pages of a failed load, which only the device or a preemption can cause.
Reported ==
  \A e \in errors :
    /\ e[1] \in Step /\ e[2] < computed[e[1]]
    /\ moves = 0 => native[e[1]] <= e[2]
    /\ failures = 0 => epoch[e[1]] # 1

\* What is computed has KV, or is about to be loaded, or is taken back.
Filled ==
  moves = 0 =>
    /\ SharedUntouched
    /\ \A r \in Req : status[r] = "running" =>
         /\ native[r] <= computed[r]
         /\ \A i \in 1..computed[r] :
              \/ Usable(blocks[r][i])
              \/ native[r] < i /\ r \in loads \cup toLoad
              \/ blocks[r][i] \in errors

SInv ==
  /\ TypeOK /\ Placed /\ Stepping /\ Tables /\ Handed
  /\ Known /\ Reported /\ Filled /\ SavedUntilFailure

-----------------------------------------------------------------------------
(* Numbers, plans and pages                                                *)

LEMMA Rounding ==
  ASSUME NEW n \in Nat
  PROVE  /\ RoundUp(n) \in Nat /\ n <= RoundUp(n)
         /\ \A m \in Nat : n <= m => RoundUp(n) <= RoundUp(m)
<1>1. ASSUME NEW k \in Nat
      PROVE  /\ (k + BlockSize - 1) \div BlockSize \in Nat
             /\ k <= ((k + BlockSize - 1) \div BlockSize) * BlockSize
  BY LengthAssumption
<1>2. RoundUp(n) \in Nat /\ n <= RoundUp(n)
  BY <1>1, LengthAssumption DEF RoundUp
<1>3. ASSUME NEW m \in Nat, n <= m
      PROVE  RoundUp(n) <= RoundUp(m)
  <2>1. (n + BlockSize - 1) \div BlockSize <= (m + BlockSize - 1) \div BlockSize
    BY <1>3, LengthAssumption
  <2> QED BY <1>1, <2>1, LengthAssumption DEF RoundUp
<1> QED BY <1>2, <1>3

LEMMA PlanForType ==
  ASSUME NEW apc \in Natives, NEW H \in HitSets(apc), NEW sparse \in SparseQ
  PROVE  /\ PlanFor(apc, H, sparse) \in PlanSet
         /\ PlanFor(apc, H, sparse).apc = apc
         /\ PlanFor(apc, H, sparse).hits = H
         /\ PlanFor(apc, H, sparse).stop \in apc..(Length - 1)
<1>1. apc \in 0..(Length - 1) /\ Length \in Nat \ {0} /\ Chunk \in Nat \ {0}
  BY LengthAssumption DEF Natives
<1>2. PlanFor(apc, H, sparse) \in PlanSet
  BY DEF PlanSet
<1>3. CASE H = {}
  BY <1>1, <1>2, <1>3 DEF PlanFor, Empty, Plan
<1>4. CASE H # {}
  <2> DEFINE last == CHOOSE x \in H : \A y \in H : y <= x
  <2>1. H \subseteq apc..(Length - 1 - Chunk) /\ H \subseteq Nat
    BY <1>1 DEF HitSets
  <2>2. IsFiniteSet(H)
    <3>1. IsFiniteSet(apc..(Length - 1 - Chunk))
      BY <1>1, FS_Interval
    <3> QED BY <2>1, <3>1, FS_Subset
  <2>3. \E x \in H : \A y \in H : y <= x
    BY <1>4, <2>1, <2>2, GreatestElement
  <2>4. last \in H
    BY <2>3
  <2> HIDE DEF last
  <2>5. last + Chunk \in apc..(Length - 1)
    BY <1>1, <2>1, <2>4
  <2>6. PlanFor(apc, H, sparse) = Plan(apc, IF sparse THEN Length - 1 ELSE last + Chunk, H)
    BY <1>4 DEF PlanFor, last
  <2>7. (IF sparse THEN Length - 1 ELSE last + Chunk) \in apc..(Length - 1)
    BY <1>1, <2>5
  <2> QED BY <1>2, <2>6, <2>7 DEF Plan
<1> QED BY <1>3, <1>4

LEMMA PlanType ==
  ASSUME NEW plan \in PlanSet
  PROVE  /\ plan.apc \in 0..(Length - 1) /\ plan.stop \in plan.apc..(Length - 1)
         /\ plan.stop \in Nat /\ plan.apc \in Nat /\ plan.apc \in Natives
<1>0. PICK apc \in Natives : \E H \in HitSets(apc), b \in SparseQ : plan = PlanFor(apc, H, b)
  BY DEF PlanSet
<1>1. PICK H \in HitSets(apc), b \in SparseQ : plan = PlanFor(apc, H, b)
  BY <1>0
<1>2. plan.apc = apc /\ plan.stop \in apc..(Length - 1)
  BY <1>1, PlanForType
<1>3. apc \in 0..(Length - 1)
  BY DEF Natives
<1> QED BY <1>2, <1>3, LengthAssumption

LEMMA EmptyType ==
  ASSUME NEW apc \in Natives
  PROVE  Empty(apc) \in PlanSet /\ Empty(apc).apc = apc /\ Empty(apc).hits = {}
<1>1. {} \in HitSets(apc)
  BY DEF HitSets
<1>2. PICK b \in SparseQ : TRUE
  BY SwitchAssumption
<1>3. PlanFor(apc, {}, b) = Empty(apc)
  BY DEF PlanFor
<1> QED BY <1>1, <1>2, <1>3, PlanForType

\* What a state's types say of one request.
LEMMA RequestTypes ==
  ASSUME TypeOK, NEW r \in Req
  PROVE  /\ blocks[r] \in Seq(Pages) /\ Len(blocks[r]) \in Nat
         /\ native[r] \in Nat /\ native[r] \in Natives /\ native[r] < Length
         /\ computed[r] \in Nat /\ computed[r] <= Length
         /\ epoch[r] \in 1..(MaxPreemptions + 1) /\ epoch[r] \in Nat
         /\ r \in Step => /\ scheduled[r] \in Schedules /\ scheduled[r].tokens \in Nat
                          /\ scheduled[r].pages \in Seq(Pages)
                          /\ computed[r] + scheduled[r].tokens <= Len(blocks[r])
         /\ plans[r] # None => plans[r] \in PlanSet
         /\ future[r] # None => /\ future[r] \in Futures /\ future[r].apc \in Natives
                                /\ future[r].result # None => future[r].result \in PlanSet
<1>1. blocks[r] \in Seq(Pages) /\ Len(blocks[r]) \in Nat
  BY DEF TypeOK
<1>2. native[r] \in Nat /\ native[r] \in Natives /\ native[r] < Length
  BY LengthAssumption DEF TypeOK, Natives
<1>3. computed[r] \in Nat /\ computed[r] <= Length
  BY LengthAssumption DEF TypeOK
<1>4. epoch[r] \in 1..(MaxPreemptions + 1) /\ epoch[r] \in Nat
  BY BoundAssumption DEF TypeOK
<1>5. ASSUME r \in Step
      PROVE  /\ scheduled[r] \in Schedules /\ scheduled[r].tokens \in Nat
             /\ scheduled[r].pages \in Seq(Pages)
             /\ computed[r] + scheduled[r].tokens <= Len(blocks[r])
  <2>1. scheduled[r] \in Schedules
    BY <1>5 DEF TypeOK, Step
  <2>2. computed[r] + scheduled[r].tokens \in 1..Len(blocks[r])
    BY <1>5 DEF TypeOK
  <2> QED BY <1>1, <2>1, <2>2 DEF Schedules
<1>6. plans[r] # None => plans[r] \in PlanSet
  BY DEF TypeOK
<1>7. future[r] # None => /\ future[r] \in Futures /\ future[r].apc \in Natives
                          /\ future[r].result # None => future[r].result \in PlanSet
  BY DEF TypeOK, Futures
<1> QED BY <1>1, <1>2, <1>3, <1>4, <1>5, <1>6, <1>7


-----------------------------------------------------------------------------
(* Lookups                                                                 *)

\* Steps that change lookups, plans and pins only.
LEMMA LookupFrame ==
  ASSUME SInv, UNCHANGED <<vllmVars, loads, tracked, stepVars, kv, saved, errors, failures>>,
         plans' \in [Req -> PlanSet \cup {None}], future' \in [Req -> Futures \cup {None}],
         pinned' \subseteq Req,
         \A r \in Req : plans[r] # None => plans'[r] = plans[r],
         Known'
  PROVE  SInv'
<1>1. UNCHANGED <<status, native, moves, blocks, computed, epoch, scheduled, preempted, loads,
                  tracked, mode, meta, toLoad, kv, saved, errors, failures, Step>>
  BY DEF vllmVars, stepVars, Step
<1>2. TypeOK'
  BY <1>1 DEF SInv, TypeOK
<1>3. Placed' /\ Tables' /\ Reported'
  BY <1>1 DEF SInv, Placed, Tables, Reported
<1>4. \A r \in Step : r \in Req
  BY DEF Step
<1>5. Stepping'
  BY <1>1, <1>4 DEF SInv, Stepping
<1>6. Handed'
  <2>1. ASSUME NEW r \in Step
        PROVE  plans'[r] = plans[r] /\ (SaveEnd(r, Lower(Length, Len(blocks[r]))))' =
                                          SaveEnd(r, Lower(Length, Len(blocks[r])))
    <3>1. r \in Req /\ plans[r] # None
      BY <1>4 DEF SInv, Known, Stepping
    <3> QED BY <1>1, <3>1 DEF SaveEnd
  <2> QED BY <1>1, <2>1 DEF SInv, Handed
<1>7. Filled' /\ SavedUntilFailure'
  BY <1>1 DEF SInv, Filled, SharedUntouched, Usable, SavedUntilFailure
<1> QED BY <1>2, <1>3, <1>5, <1>6, <1>7 DEF SInv

LEMMA ApcKeeps ==
  ASSUME SInv, NEW r \in Req, NEW n \in Natives, Apc(r, n)
  PROVE  SInv'
<1>1. /\ status[r] = "waiting" /\ native' = [native EXCEPT ![r] = n]
      /\ moves' = moves + 1 /\ moves < MaxMoves
      /\ UNCHANGED <<status, blocks, computed, epoch, scheduled, preempted,
                     planVars, stepVars, dataVars>>
  BY DEF Apc
<1>2. moves' # 0 /\ moves' \in 0..MaxMoves
  BY <1>1, BoundAssumption DEF SInv, TypeOK
<1>3. UNCHANGED <<status, blocks, computed, epoch, scheduled, preempted, future, plans, loads,
                  tracked, mode, meta, toLoad, kv, pinned, saved, errors, failures, Step>>
  BY <1>1 DEF planVars, stepVars, dataVars, Step
<1>4. native' \in [Req -> Natives] /\ \A q \in Req : q # r => native'[q] = native[q]
  BY <1>1 DEF SInv, TypeOK
<1>5. TypeOK'
  BY <1>2, <1>3, <1>4 DEF SInv, TypeOK
<1>6. Placed'
  <2>1. blocks[r] = <<>> /\ 1..Len(blocks[r]) = {}
    <3>1. blocks[r] = <<>>
      BY <1>1 DEF SInv, Placed
    <3>2. Len(<<>>) = 0 /\ 1..0 = {}
      OBVIOUS
    <3> QED BY <3>1, <3>2
  <2> QED BY <1>1, <1>3, <1>4, <2>1 DEF SInv, Placed
<1>7. Stepping' /\ Tables' /\ Handed' /\ Reported'
  BY <1>2, <1>3 DEF SInv, Stepping, Tables, Handed, SaveEnd, Reported
<1>8. Known' /\ Filled' /\ SavedUntilFailure'
  BY <1>2, <1>3 DEF SInv, Known, Filled, SavedUntilFailure
<1> QED BY <1>5, <1>6, <1>7, <1>8 DEF SInv

LEMMA AskShortKeeps ==
  ASSUME SInv, NEW r \in Req, AskShort(r)
  PROVE  SInv'
<1>1. /\ status[r] = "waiting" /\ plans[r] = None /\ future[r] = None
      /\ plans' = [plans EXCEPT ![r] = Empty(native[r])]
      /\ UNCHANGED <<vllmVars, future, loads, tracked, stepVars, dataVars>>
  BY DEF AskShort, Asks
<1>2. Empty(native[r]) \in PlanSet /\ Empty(native[r]).apc = native[r] /\ Empty(native[r]).hits = {}
  BY EmptyType, RequestTypes DEF SInv
<1>3. /\ plans' \in [Req -> PlanSet \cup {None}] /\ plans'[r] = Empty(native[r])
      /\ \A q \in Req : q # r => plans'[q] = plans[q]
  BY <1>1, <1>2 DEF SInv, TypeOK
<1>4. UNCHANGED <<status, native, moves, epoch, future, loads, toLoad, pinned>>
  BY <1>1 DEF vllmVars, stepVars, dataVars
<1>5. Known'
  BY <1>1, <1>2, <1>3, <1>4 DEF SInv, Known
<1>6. /\ future' \in [Req -> Futures \cup {None}] /\ pinned' \subseteq Req
      /\ \A q \in Req : plans[q] # None => plans'[q] = plans[q]
  BY <1>1, <1>3, <1>4 DEF SInv, TypeOK
<1> QED BY <1>1, <1>3, <1>5, <1>6, LookupFrame DEF dataVars

LEMMA SubmitKeeps ==
  ASSUME SInv, NEW r \in Req, Submit(r)
  PROVE  SInv'
<1> DEFINE f == [apc |-> native[r], result |-> None, raised |-> FALSE]
<1>1. /\ status[r] = "waiting" /\ plans[r] = None /\ future' = [future EXCEPT ![r] = f]
      /\ UNCHANGED <<vllmVars, plans, loads, tracked, stepVars, dataVars>>
  BY DEF Submit, Asks
<1>2. f \in Futures /\ f.apc = native[r] /\ f.result = None
  BY RequestTypes DEF SInv, Futures
<1> HIDE DEF f
<1>3. /\ future' \in [Req -> Futures \cup {None}] /\ future'[r] = f
      /\ \A q \in Req : q # r => future'[q] = future[q]
  BY <1>1, <1>2 DEF SInv, TypeOK
<1>4. UNCHANGED <<status, native, moves, epoch, plans, loads, toLoad, pinned>>
  BY <1>1 DEF vllmVars, stepVars, dataVars
<1>5. Known'
  BY <1>1, <1>2, <1>3, <1>4 DEF SInv, Known
<1>6. plans' \in [Req -> PlanSet \cup {None}] /\ pinned' \subseteq Req
  BY <1>4 DEF SInv, TypeOK
<1> QED BY <1>1, <1>3, <1>4, <1>5, <1>6, LookupFrame DEF dataVars

LEMMA LookupDoneKeeps ==
  ASSUME SInv, NEW r \in Req, LookupDone(r)
  PROVE  SInv'
<1>1. /\ future[r] # None /\ future[r].result = None
      /\ UNCHANGED <<vllmVars, plans, loads, tracked, stepVars, kv, saved, errors, failures>>
  BY DEF LookupDone
<1>2. PICK H \in HitSets(future[r].apc), sparse \in SparseQ :
        /\ future' = [future EXCEPT ![r].result = PlanFor(future[r].apc, H, sparse)]
        /\ pinned' = IF H = {} THEN pinned ELSE pinned \cup {r}
  BY DEF LookupDone
<1> DEFINE p == PlanFor(future[r].apc, H, sparse)
           f == [future[r] EXCEPT !.result = p]
<1>3. future[r] \in Futures /\ future[r].apc \in Natives
  BY <1>1, RequestTypes DEF SInv
<1>4. p \in PlanSet /\ p.apc = future[r].apc /\ p.hits = H
  BY <1>3, PlanForType
<1> HIDE DEF p
<1>5. f \in Futures /\ f.apc = future[r].apc /\ f.result = p
  BY <1>3, <1>4 DEF Futures
<1>6. future' = [future EXCEPT ![r] = f]
  BY <1>2 DEF p
<1> HIDE DEF f
<1>7. /\ future' \in [Req -> Futures \cup {None}] /\ future'[r] = f
      /\ \A q \in Req : q # r => future'[q] = future[q]
  BY <1>5, <1>6 DEF SInv, TypeOK
<1>8. UNCHANGED <<status, native, moves, epoch, plans, loads, toLoad>>
  BY <1>1 DEF vllmVars, stepVars
<1>9. pinned \subseteq pinned' /\ pinned' \subseteq Req /\ (p.hits # {} => r \in pinned')
  BY <1>2, <1>4 DEF SInv, TypeOK
<1>10. Known'
  BY <1>1, <1>4, <1>5, <1>7, <1>8, <1>9 DEF SInv, Known
<1>11. plans' \in [Req -> PlanSet \cup {None}]
  BY <1>8 DEF SInv, TypeOK
<1> QED BY <1>1, <1>7, <1>8, <1>9, <1>10, <1>11, LookupFrame

LEMMA LookupRaisesKeeps ==
  ASSUME SInv, NEW r \in Req, LookupRaises(r)
  PROVE  SInv'
<1> DEFINE p == Empty(future[r].apc)
           f == [future[r] EXCEPT !.result = p, !.raised = TRUE]
<1>1. /\ future[r] # None /\ future[r].result = None
      /\ future' = [future EXCEPT ![r].result = p, ![r].raised = TRUE]
      /\ UNCHANGED <<vllmVars, plans, loads, tracked, stepVars, dataVars>>
  BY DEF LookupRaises
<1>2. future[r] \in Futures /\ future[r].apc \in Natives
  BY <1>1, RequestTypes DEF SInv
<1>3. p \in PlanSet /\ p.apc = future[r].apc /\ p.hits = {}
  BY <1>2, EmptyType
<1> HIDE DEF p
<1>4. f \in Futures /\ f.apc = future[r].apc /\ f.result = p
  BY <1>2, <1>3 DEF Futures
<1>5. future \in [Req -> Futures \cup {None}]
  BY DEF SInv, TypeOK
<1>6. future' = [future EXCEPT ![r] = f]
  BY <1>1, <1>5
<1> HIDE DEF f
<1>7. /\ future' \in [Req -> Futures \cup {None}] /\ future'[r] = f
      /\ \A q \in Req : q # r => future'[q] = future[q]
  BY <1>4, <1>5, <1>6
<1>8. UNCHANGED <<status, native, moves, epoch, plans, loads, toLoad, pinned>>
  BY <1>1 DEF vllmVars, stepVars, dataVars
<1>9. Known'
  BY <1>1, <1>3, <1>4, <1>7, <1>8 DEF SInv, Known
<1>10. plans' \in [Req -> PlanSet \cup {None}] /\ pinned' \subseteq Req
  BY <1>8 DEF SInv, TypeOK
<1> QED BY <1>1, <1>7, <1>8, <1>9, <1>10, LookupFrame DEF dataVars

LEMMA PollKeeps ==
  ASSUME SInv, NEW r \in Req, Poll(r)
  PROVE  SInv'
<1> DEFINE p == IF future[r].raised THEN Empty(native[r]) ELSE future[r].result
<1>0. future[r] # None /\ future[r].result # None
  BY DEF Poll
<1>1. /\ status[r] = "waiting" /\ future[r] # None
      /\ plans' = [plans EXCEPT ![r] = p] /\ future' = [future EXCEPT ![r] = None]
      /\ UNCHANGED <<vllmVars, loads, tracked, stepVars, dataVars>>
  BY DEF Poll, Asks
<1>2. p \in PlanSet /\ (p = future[r].result \/ (p.apc = native[r] /\ p.hits = {}))
  <2>1. /\ Empty(native[r]) \in PlanSet /\ Empty(native[r]).apc = native[r]
        /\ Empty(native[r]).hits = {}
    BY RequestTypes, EmptyType DEF SInv
  <2>2. future[r].result \in PlanSet
    BY <1>0, RequestTypes DEF SInv
  <2>3. p = Empty(native[r]) \/ p = future[r].result
    BY Zenon
  <2> HIDE DEF p
  <2> QED BY <2>1, <2>2, <2>3
<1>3. plans[r] = None /\ (p.hits # {} => r \in pinned) /\ (moves = 0 => p.apc = native[r])
  <2> HIDE DEF p
  <2> QED BY <1>0, <1>2 DEF SInv, Known
<1> HIDE DEF p
<1>4. /\ plans' \in [Req -> PlanSet \cup {None}] /\ plans'[r] = p
      /\ future' \in [Req -> Futures \cup {None}] /\ future'[r] = None
      /\ \A q \in Req : q # r => plans'[q] = plans[q] /\ future'[q] = future[q]
  BY <1>1, <1>2 DEF SInv, TypeOK
<1>5. UNCHANGED <<status, native, moves, epoch, loads, toLoad, pinned>>
  BY <1>1 DEF vllmVars, stepVars, dataVars
<1>6. Known'
  BY <1>3, <1>4, <1>5, <1>1 DEF SInv, Known
<1>7. pinned' \subseteq Req /\ \A q \in Req : plans[q] # None => plans'[q] = plans[q]
  BY <1>3, <1>4, <1>5 DEF SInv, TypeOK
<1> QED BY <1>1, <1>4, <1>6, <1>7, LookupFrame DEF dataVars


-----------------------------------------------------------------------------
(* vLLM's scheduler                                                        *)

LEMMA NoPages ==
  /\ <<>> \in Seq(Pages) /\ Len(<<>>) = 0 /\ 1..0 = {}
  OBVIOUS

LEMMA PreemptKeeps ==
  ASSUME SInv, NEW r \in Req, Preempt(r)
  PROVE  SInv'
<1>1. /\ mode = "schedule" /\ status[r] = "running" /\ scheduled[r] = None
      /\ epoch[r] <= MaxPreemptions
      /\ status' = [status EXCEPT ![r] = "waiting"]
      /\ blocks' = [blocks EXCEPT ![r] = <<>>]
      /\ computed' = [computed EXCEPT ![r] = 0]
      /\ epoch' = [epoch EXCEPT ![r] = epoch[r] + 1]
      /\ preempted' = preempted \cup {r}
      /\ UNCHANGED <<native, moves, scheduled, future, plans, loads, tracked, mode, meta,
                     toLoad, kv, pinned, saved, errors, failures, Step>>
  BY DEF Preempt, planVars, stepVars, dataVars, Step
<1>2. epoch[r] + 1 \in 1..(MaxPreemptions + 1) /\ epoch[r] + 1 # 1
  BY <1>1, RequestTypes, BoundAssumption DEF SInv
<1>3. /\ status'[r] = "waiting" /\ blocks'[r] = <<>> /\ epoch'[r] # 1
      /\ \A q \in Req : q # r => /\ status'[q] = status[q] /\ blocks'[q] = blocks[q]
                                 /\ computed'[q] = computed[q] /\ epoch'[q] = epoch[q]
  BY <1>1, <1>2 DEF SInv, TypeOK
<1>4. Step \subseteq Req /\ r \notin Step
  BY <1>1 DEF Step
<1>5. TypeOK'
  <2>1. /\ status' \in [Req -> {"waiting", "running", "finished"}]
        /\ blocks' \in [Req -> Seq(Pages)]
        /\ computed' \in [Req -> 0..Length]
        /\ epoch' \in [Req -> 1..(MaxPreemptions + 1)]
        /\ preempted' \subseteq Req
    BY <1>1, <1>2, LengthAssumption DEF SInv, TypeOK
  <2>2. \A q \in Step' : computed'[q] + scheduled'[q].tokens \in 1..Len(blocks'[q])
    BY <1>1, <1>3, <1>4 DEF SInv, TypeOK
  <2> QED BY <1>1, <2>1, <2>2 DEF SInv, TypeOK
<1>6. Placed'
  BY <1>1, <1>3, NoPages DEF SInv, Placed
<1>7. Stepping'
  BY <1>1, <1>3, <1>4 DEF SInv, Stepping
<1>8. Tables'
  BY <1>1, <1>3 DEF SInv, Tables
<1>9. Handed' /\ Reported'
  BY <1>1 DEF SInv, Handed, Stepping, Reported
<1>10. Known'
  BY <1>1, <1>3, <1>4 DEF SInv, Known, Stepping
<1>11. Filled'
  BY <1>1, <1>3 DEF SInv, Filled, SharedUntouched, Usable
<1>12. SavedUntilFailure'
  <2>1. \A x \in saved : x[1] \in Req
    BY DEF SInv, TypeOK
  <2> QED BY <1>1, <1>3, <2>1 DEF SInv, SavedUntilFailure
<1> QED BY <1>5, <1>6, <1>7, <1>8, <1>9, <1>10, <1>11, <1>12 DEF SInv

LEMMA FinishKeeps ==
  ASSUME SInv, NEW r \in Req, Finish(r)
  PROVE  SInv'
<1>1. /\ mode = "schedule" /\ scheduled[r] = None
      /\ status' = [status EXCEPT ![r] = "finished"]
      /\ blocks' = [blocks EXCEPT ![r] = <<>>]
      /\ future' = [future EXCEPT ![r] = None]
      /\ plans' = [plans EXCEPT ![r] = None]
      /\ loads' = loads \ {r}
      /\ tracked' = [tracked EXCEPT ![r] = None]
      /\ pinned' = pinned \ {r}
      /\ UNCHANGED <<native, moves, computed, epoch, scheduled, preempted, mode, meta,
                     toLoad, kv, saved, errors, failures, Step>>
  BY DEF Finish, stepVars, Step
<1>2. /\ status'[r] = "finished" /\ blocks'[r] = <<>> /\ plans'[r] = None /\ future'[r] = None
      /\ \A q \in Req : q # r =>
           /\ status'[q] = status[q] /\ blocks'[q] = blocks[q] /\ plans'[q] = plans[q]
           /\ future'[q] = future[q] /\ tracked'[q] = tracked[q]
  BY <1>1 DEF SInv, TypeOK
<1>3. Step \subseteq Req /\ r \notin Step
  BY <1>1 DEF Step
<1>4. TypeOK'
  <2>1. /\ status' \in [Req -> {"waiting", "running", "finished"}]
        /\ blocks' \in [Req -> Seq(Pages)]
        /\ plans' \in [Req -> PlanSet \cup {None}]
        /\ future' \in [Req -> Futures \cup {None}]
        /\ tracked' \in [Req -> Seq(Pages) \cup {None}]
        /\ preempted' \cup loads' \cup toLoad' \cup pinned' \subseteq Req
    BY <1>1 DEF SInv, TypeOK
  <2>2. \A q \in Step' : computed'[q] + scheduled'[q].tokens \in 1..Len(blocks'[q])
    BY <1>1, <1>2, <1>3 DEF SInv, TypeOK
  <2> QED BY <1>1, <2>1, <2>2 DEF SInv, TypeOK
<1>5. Placed'
  BY <1>1, <1>2, NoPages DEF SInv, Placed
<1>6. Stepping'
  BY <1>1, <1>2, <1>3 DEF SInv, Stepping
<1>7. Tables'
  BY <1>1, <1>2 DEF SInv, Tables
<1>8. Handed' /\ Reported'
  BY <1>1 DEF SInv, Handed, Stepping, Reported
<1>9. Known'
  BY <1>1, <1>2 DEF SInv, Known
<1>10. Filled'
  BY <1>1, <1>2 DEF SInv, Filled, SharedUntouched, Usable
<1>11. SavedUntilFailure'
  BY <1>1 DEF SInv, SavedUntilFailure
<1> QED BY <1>4, <1>5, <1>6, <1>7, <1>8, <1>9, <1>10, <1>11 DEF SInv


LEMMA PageType ==
  ASSUME TypeOK, NEW r \in Req, NEW i \in Nat, i < RoundUp(Length), NEW e \in {0, epoch[r]}
  PROVE  <<r, i, e>> \in Pages
<1>1. RoundUp(Length) \in Nat
  BY Rounding, LengthAssumption
<1>2. i \in Positions
  BY <1>1 DEF Positions
<1>3. e \in 0..(MaxPreemptions + 1)
  BY RequestTypes, BoundAssumption
<1> QED BY <1>2, <1>3 DEF Pages

LEMMA TableType ==
  ASSUME TypeOK, NEW r \in Req, NEW n \in Nat, n <= RoundUp(Length)
  PROVE  /\ Table(r, n) \in Seq(Pages) /\ Len(Table(r, n)) = n
         /\ \A i \in 1..n :
              Table(r, n)[i] = <<r, i - 1, IF i <= native[r] THEN 0 ELSE epoch[r]>>
<1>1. \A i \in 1..n : <<r, i - 1, IF i <= native[r] THEN 0 ELSE epoch[r]>> \in Pages
  <2> SUFFICES ASSUME NEW i \in 1..n
               PROVE  <<r, i - 1, IF i <= native[r] THEN 0 ELSE epoch[r]>> \in Pages
    OBVIOUS
  <2>1. i - 1 \in Nat /\ i - 1 < RoundUp(Length)
    BY Rounding, LengthAssumption
  <2> QED BY <2>1, PageType
<1> QED BY <1>1 DEF Table

LEMMA AdmitKeeps ==
  ASSUME SInv, NEW r \in Req, NEW tokens \in 1..Length, Admit(r, tokens)
  PROVE  SInv'
<1> DEFINE start == native[r] + External(r)
           n     == RoundUp(start + tokens)
           s     == [how |-> IF epoch[r] = 1 THEN "new" ELSE "resumed",
                     tokens |-> tokens, pages |-> Table(r, n), external |-> External(r)]
<1>1. /\ mode = "schedule" /\ status[r] = "waiting" /\ preempted = {} /\ plans[r] # None
      /\ tokens \in 1..(Length - start)
      /\ blocks' = [blocks EXCEPT ![r] = Table(r, n)]
      /\ computed' = [computed EXCEPT ![r] = start]
      /\ scheduled' = [scheduled EXCEPT ![r] = s]
      /\ status' = [status EXCEPT ![r] = "running"]
      /\ loads' = IF External(r) > 0 THEN loads \cup {r} ELSE loads
      /\ UNCHANGED <<native, moves, epoch, preempted, future, plans, tracked, mode, meta,
                     toLoad, kv, pinned, saved, errors, failures>>
  BY DEF Admit, Asks, stepVars, dataVars
<1>2. /\ plans[r].stop \in Nat /\ plans[r].stop < Length
      /\ native[r] \in Nat /\ native[r] < Length /\ Length \in Nat
  BY <1>1, RequestTypes, PlanType, LengthAssumption DEF SInv
<1>3. /\ External(r) \in Nat /\ start \in Nat /\ native[r] <= start /\ start < Length
      /\ External(r) > 0 => start = plans[r].stop
      /\ ~(External(r) > 0) => start = native[r]
  BY <1>2 DEF External
<1>4. tokens \in Nat /\ tokens # 0 /\ start + tokens \in Nat /\ start + tokens <= Length
  BY <1>1, <1>2, <1>3
<1>5. n \in Nat /\ start + tokens <= n /\ n <= RoundUp(Length)
  BY <1>2, <1>4, Rounding
<1>6. /\ Table(r, n) \in Seq(Pages) /\ Len(Table(r, n)) = n
      /\ \A i \in 1..n : Table(r, n)[i] = <<r, i - 1, IF i <= native[r] THEN 0 ELSE epoch[r]>>
  BY <1>5, TableType DEF SInv
<1>7. s \in Schedules /\ s.tokens = tokens /\ s.external = External(r)
      /\ s.pages = Table(r, n) /\ s.how # "running"
  BY <1>3, <1>4, <1>6 DEF Schedules
<1> HIDE DEF s, n, start
<1>8. s # None
  BY <1>7, NoneAssumption
<1>9. /\ status'[r] = "running" /\ blocks'[r] = Table(r, n) /\ computed'[r] = start
      /\ scheduled'[r] = s
      /\ \A q \in Req : q # r =>
           /\ status'[q] = status[q] /\ blocks'[q] = blocks[q] /\ computed'[q] = computed[q]
           /\ scheduled'[q] = scheduled[q]
  BY <1>1 DEF SInv, TypeOK
<1>10. Step' = Step \cup {r} /\ Step \subseteq Req /\ r \notin Step /\ r \notin loads
  BY <1>1, <1>8, <1>9 DEF Step, SInv, Stepping
<1>11. TypeOK'
  <2>1. /\ status' \in [Req -> {"waiting", "running", "finished"}]
        /\ blocks' \in [Req -> Seq(Pages)]
        /\ computed' \in [Req -> 0..Length]
        /\ scheduled' \in [Req -> Schedules \cup {None}]
        /\ loads' \subseteq Req
    BY <1>1, <1>2, <1>3, <1>6, <1>7 DEF SInv, TypeOK
  <2>2. start + tokens \in 1..Len(Table(r, n))
    BY <1>3, <1>4, <1>5, <1>6
  <2>3. \A q \in Step' : computed'[q] + scheduled'[q].tokens \in 1..Len(blocks'[q])
    BY <1>7, <1>9, <1>10, <2>2 DEF SInv, TypeOK
  <2> QED BY <1>1, <2>1, <2>3 DEF SInv, TypeOK
<1>12. Placed'
  <2>1. native[r] <= n /\ start <= n
    BY <1>2, <1>3, <1>4, <1>5
  <2> QED BY <1>1, <1>6, <1>9, <2>1 DEF SInv, Placed
<1>13. Stepping'
  BY <1>1, <1>3, <1>4, <1>7, <1>9, <1>10 DEF SInv, Stepping
<1>14. Tables'
  BY <1>1, <1>7, <1>9, <1>10 DEF SInv, Tables
<1>15. Handed' /\ Reported'
  BY <1>1 DEF SInv, Handed, Stepping, Reported
<1>16. Known'
  BY <1>1, <1>9 DEF SInv, Known
<1>17. Filled'
  <2> SUFFICES ASSUME moves = 0
               PROVE  Filled'
    BY <1>1 DEF Filled
  <2>1. SharedUntouched
    BY DEF SInv, Filled
  <2>2. ASSUME NEW i \in 1..start
        PROVE  Usable(Table(r, n)[i]) \/ (native[r] < i /\ r \in loads')
    <3>1. CASE i <= native[r]
      <4>1. i - 1 \in Nat /\ i - 1 < RoundUp(Length) /\ i \in 1..n
        BY <1>2, <1>3, <1>4, <1>5, <3>1, Rounding
      <4>2. Table(r, n)[i] = <<r, i - 1, 0>>
        BY <1>6, <3>1, <4>1
      <4>3. <<r, i - 1, 0>> \in Pages
        BY <4>1, PageType DEF SInv
      <4> QED BY <2>1, <4>2, <4>3 DEF SharedUntouched, Usable
    <3>2. CASE ~(i <= native[r])
      <4>1. native[r] < i /\ External(r) > 0
        BY <1>2, <1>3, <2>2, <3>2
      <4> QED BY <1>1, <4>1
    <3> QED BY <3>1, <3>2
  <2>3. kv' = kv
    BY <1>1
  <2>4. ASSUME NEW q \in Req, status'[q] = "running"
        PROVE  /\ native'[q] <= computed'[q]
               /\ \A i \in 1..computed'[q] :
                    \/ kv'[blocks'[q][i]] \in {"exact", "blend"}
                    \/ native'[q] < i /\ q \in loads' \cup toLoad'
                    \/ blocks'[q][i] \in errors'
    <3>1. CASE q = r
      BY <1>1, <1>3, <1>9, <2>2, <2>3, <3>1 DEF Usable
    <3>2. CASE q # r
      <4>1. /\ status[q] = "running" /\ computed'[q] = computed[q] /\ blocks'[q] = blocks[q]
            /\ (q \in loads' <=> q \in loads)
        BY <1>1, <1>9, <2>4, <3>2
      <4> QED BY <1>1, <2>3, <4>1 DEF SInv, Filled, Usable
    <3> QED BY <3>1, <3>2
  <2> QED BY <1>1, <2>1, <2>4 DEF Filled, SharedUntouched, Usable
<1>18. SavedUntilFailure'
  BY <1>1 DEF SInv, SavedUntilFailure
<1> QED BY <1>11, <1>12, <1>13, <1>14, <1>15, <1>16, <1>17, <1>18 DEF SInv

LEMMA GrowthType ==
  ASSUME TypeOK, NEW r \in Req, NEW have \in Nat, NEW n \in Nat, n <= RoundUp(Length)
  PROVE  LET fresh == [i \in 1..(n - have) |-> <<r, have + i - 1, epoch[r]>>] IN
         /\ fresh \in Seq(Pages) /\ n <= have + Len(fresh)
         /\ \A i \in 1..Len(fresh) : fresh[i] = <<r, have + i - 1, epoch[r]>>
<1>1. PICK k \in Nat : 1..(n - have) = 1..k /\ n <= have + k /\ (k = 0 \/ k = n - have)
  <2>1. CASE n <= have
    <3>1. 1..(n - have) = 1..0
      BY <2>1
    <3> QED BY <2>1, <3>1
  <2>2. CASE have < n
    BY <2>2
  <2> QED BY <2>1, <2>2
<1>2. ASSUME NEW i \in 1..k
      PROVE  <<r, have + i - 1, epoch[r]>> \in Pages
  <2>1. have + i - 1 \in Nat /\ have + i - 1 < RoundUp(Length)
    BY <1>1, Rounding, LengthAssumption
  <2> QED BY <2>1, PageType
<1> DEFINE page(i) == <<r, have + i - 1, epoch[r]>>
           fresh   == [i \in 1..k |-> page(i)]
<1>3. \A i \in 1..k : page(i) \in Pages
  BY <1>2
<1> HIDE DEF page
<1>4. /\ fresh \in Seq(Pages) /\ Len(fresh) = k
      /\ \A i \in 1..Len(fresh) : fresh[i] = page(i)
  BY <1>3
<1> QED BY <1>1, <1>4 DEF page

LEMMA ContinueKeeps ==
  ASSUME SInv, NEW r \in Req, NEW tokens \in 1..Length, Continue(r, tokens)
  PROVE  SInv'
<1> DEFINE have  == Len(blocks[r])
           n     == RoundUp(computed[r] + tokens)
           fresh == [i \in 1..(n - have) |-> <<r, have + i - 1, epoch[r]>>]
           s     == [how |-> "running", tokens |-> tokens, pages |-> fresh, external |-> 0]
<1>1. /\ mode = "schedule" /\ status[r] = "running" /\ scheduled[r] = None
      /\ tokens \in 1..(Length - computed[r])
      /\ blocks' = [blocks EXCEPT ![r] = blocks[r] \o fresh]
      /\ scheduled' = [scheduled EXCEPT ![r] = s]
      /\ UNCHANGED <<status, native, moves, computed, epoch, preempted, future, plans, loads,
                     tracked, mode, meta, toLoad, kv, pinned, saved, errors, failures>>
  BY DEF Continue, planVars, stepVars, dataVars
<1>2. /\ blocks[r] \in Seq(Pages) /\ have \in Nat /\ computed[r] \in Nat /\ native[r] \in Nat
      /\ Length \in Nat
  BY RequestTypes, LengthAssumption DEF SInv
<1>3. tokens \in Nat /\ tokens # 0 /\ computed[r] + tokens \in Nat /\ computed[r] + tokens <= Length
  BY <1>1, <1>2
<1>4. n \in Nat /\ computed[r] + tokens <= n /\ n <= RoundUp(Length)
  BY <1>2, <1>3, Rounding
<1>5. /\ fresh \in Seq(Pages) /\ n <= have + Len(fresh)
      /\ \A i \in 1..Len(fresh) : fresh[i] = <<r, have + i - 1, epoch[r]>>
  BY <1>2, <1>4, GrowthType DEF SInv
<1>6. s \in Schedules /\ s.tokens = tokens /\ s.external = 0 /\ s.pages = fresh /\ s.how = "running"
  BY <1>3, <1>5 DEF Schedules
<1> HIDE DEF s, n, fresh
<1>7. s # None
  BY <1>6, NoneAssumption
<1> DEFINE t == blocks[r] \o fresh
<1>8. /\ t \in Seq(Pages) /\ Len(t) = have + Len(fresh) /\ have <= Len(t)
      /\ \A i \in 1..have : t[i] = blocks[r][i]
      /\ \A i \in 1..Len(t) : have < i => t[i] = fresh[i - have] /\ i - have \in 1..Len(fresh)
  BY <1>2, <1>5
<1>9. t = blocks[r] \o fresh
  OBVIOUS
<1> HIDE DEF t
<1>10. /\ blocks'[r] = t /\ scheduled'[r] = s
       /\ \A q \in Req : q # r => blocks'[q] = blocks[q] /\ scheduled'[q] = scheduled[q]
  BY <1>1, <1>9 DEF SInv, TypeOK
<1>11. Step' = Step \cup {r} /\ Step \subseteq Req /\ r \notin Step /\ r \notin loads
  BY <1>1, <1>7, <1>10 DEF Step, SInv, Stepping
<1>12. TypeOK'
  <2>1. blocks' \in [Req -> Seq(Pages)] /\ scheduled' \in [Req -> Schedules \cup {None}]
    BY <1>1, <1>6, <1>8, <1>9 DEF SInv, TypeOK
  <2>2. computed[r] + tokens \in 1..Len(t)
    BY <1>2, <1>3, <1>4, <1>5, <1>8
  <2>3. \A q \in Step' : computed'[q] + scheduled'[q].tokens \in 1..Len(blocks'[q])
    BY <1>1, <1>6, <1>10, <1>11, <2>2 DEF SInv, TypeOK
  <2> QED BY <1>1, <2>1, <2>3 DEF SInv, TypeOK
<1>13. Placed'
  <2>1. native[r] <= have /\ computed[r] <= have
    BY <1>1 DEF SInv, Placed
  <2>2. ASSUME NEW i \in 1..Len(t)
        PROVE  t[i] = <<r, i - 1, IF i <= native[r] THEN 0 ELSE epoch[r]>>
    <3>1. CASE i <= have
      <4>1. i \in 1..have
        BY <1>2, <1>8, <3>1
      <4> QED BY <1>8, <4>1 DEF SInv, Placed
    <3>2. CASE have < i
      <4>1. t[i] = <<r, have + (i - have) - 1, epoch[r]>>
        BY <1>5, <1>8, <3>2
      <4>2. have + (i - have) - 1 = i - 1 /\ ~(i <= native[r])
        BY <1>2, <1>8, <2>1, <3>2
      <4> QED BY <4>1, <4>2
    <3> QED BY <1>2, <1>8, <3>1, <3>2
  <2>3. native[r] <= Len(t) /\ computed[r] <= Len(t)
    BY <1>2, <1>5, <1>8, <2>1
  <2>4. ASSUME NEW q \in Req
        PROVE  /\ status[q] # "running" => blocks'[q] = <<>>
               /\ status[q] = "running" =>
                    native[q] <= Len(blocks'[q]) /\ computed[q] <= Len(blocks'[q])
               /\ \A i \in 1..Len(blocks'[q]) :
                    blocks'[q][i] = <<q, i - 1, IF i <= native[q] THEN 0 ELSE epoch[q]>>
    <3>1. CASE q = r
      BY <1>1, <1>10, <2>2, <2>3, <3>1
    <3>2. CASE q # r
      BY <1>10, <3>2 DEF SInv, Placed
    <3> QED BY <3>1, <3>2
  <2> QED BY <1>1, <2>4 DEF Placed
<1>14. Stepping'
  BY <1>1, <1>3, <1>6, <1>10, <1>11 DEF SInv, Stepping
<1>15. Tables'
  <2>1. r \notin preempted /\ blocks[r] = tracked[r]
    BY <1>1, <1>11 DEF SInv, Tables
  <2> QED BY <1>1, <1>6, <1>9, <1>10, <1>11, <2>1 DEF SInv, Tables
<1>16. Handed' /\ Reported'
  BY <1>1 DEF SInv, Handed, Stepping, Reported
<1>17. Known'
  BY <1>1 DEF SInv, Known
<1>18. Filled'
  <2>1. \A i \in 1..computed[r] : t[i] = blocks[r][i]
    <3>1. computed[r] <= have
      BY <1>1 DEF SInv, Placed
    <3> QED BY <1>2, <1>8, <3>1
  <2>2. \A q \in Req : \A i \in 1..computed[q] : status[q] = "running" => blocks'[q][i] = blocks[q][i]
    BY <1>10, <2>1
  <2>3. kv' = kv /\ native' = native /\ computed' = computed
    BY <1>1
  <2>4. ASSUME moves = 0, NEW q \in Req, status[q] = "running"
        PROVE  /\ native[q] <= computed[q]
               /\ \A i \in 1..computed[q] :
                    \/ kv[blocks'[q][i]] \in {"exact", "blend"}
                    \/ native[q] < i /\ q \in loads \cup toLoad
                    \/ blocks'[q][i] \in errors
    BY <2>2, <2>4 DEF SInv, Filled, Usable
  <2>5. moves = 0 => SharedUntouched /\ SharedUntouched'
    BY <2>3 DEF SInv, Filled, SharedUntouched
  <2> QED BY <1>1, <2>4, <2>5 DEF Filled, Usable
<1>19. SavedUntilFailure'
  BY <1>1 DEF SInv, SavedUntilFailure
<1> QED BY <1>12, <1>13, <1>14, <1>15, <1>16, <1>17, <1>18, <1>19 DEF SInv

LEMMA BuildMetaKeeps ==
  ASSUME SInv, BuildMeta
  PROVE  SInv'
<1> DEFINE slots(q) == SubSeq(blocks[q], 1, Lower(Length, Len(blocks[q])))
           record(q) == [plan |-> IF q \in Emitted THEN plans[q] ELSE None,
                         slots |-> slots(q), saveEnd |-> SaveEnd(q, Lower(Length, Len(blocks[q])))]
<1>1. /\ mode = "schedule" /\ mode' = "work"
      /\ tracked' = [q \in Req |-> Tracked(q)]
      /\ toLoad' = Emitted /\ loads' = loads \ Emitted /\ preempted' = {}
      /\ UNCHANGED <<status, native, moves, blocks, computed, epoch, scheduled, future, plans,
                     kv, pinned, saved, errors, failures, Step>>
  BY DEF BuildMeta, dataVars, Step
<1>2. Step \subseteq Req /\ loads \subseteq Step /\ toLoad = {} /\ errors = {} /\ Emitted = loads
  BY <1>1 DEF Step, SInv, Stepping, Emitted
<1>3. ASSUME NEW q \in Step
      PROVE  Tracked(q) = blocks[q]
  BY <1>1, <1>2 DEF SInv, Tables, Stepping, Tracked
<1>4. ASSUME NEW q \in Req, status[q] = "running"
      PROVE  Tracked(q) = blocks[q]
  <2>1. CASE q \in Step
    BY <1>3, <2>1
  <2>2. CASE q \notin Step
    BY <1>1, <1>4, <2>2 DEF SInv, Tables, Tracked
  <2> QED BY <2>1, <2>2
<1>5. ASSUME NEW q \in Req
      PROVE  /\ blocks[q] \in Seq(Pages) /\ Len(blocks[q]) \in Nat
             /\ Lower(Length, Len(blocks[q])) \in Nat
             /\ Lower(Length, Len(blocks[q])) <= Len(blocks[q])
             /\ slots(q) \in Seq(Pages) /\ Len(slots(q)) = Lower(Length, Len(blocks[q]))
  <2>1. blocks[q] \in Seq(Pages) /\ Len(blocks[q]) \in Nat
    BY RequestTypes DEF SInv
  <2>2. Lower(Length, Len(blocks[q])) \in Nat /\ Lower(Length, Len(blocks[q])) <= Len(blocks[q])
    BY <2>1, LengthAssumption DEF Lower
  <2> QED BY <2>1, <2>2
<1>6. meta' = [q \in Req |-> IF q \notin Step THEN None ELSE record(q)]
  <2>1. \A q \in Step : Tracked(q) = blocks[q] /\ Len(slots(q)) = Lower(Length, Len(blocks[q]))
    BY <1>2, <1>3, <1>5
  <2> QED BY <2>1, <1>2 DEF BuildMeta
<1>7. ASSUME NEW q \in Step
      PROVE  /\ record(q) \in Metas /\ record(q).slots = slots(q)
             /\ record(q).saveEnd = SaveEnd(q, Lower(Length, Len(blocks[q])))
             /\ record(q).plan = IF q \in Emitted THEN plans[q] ELSE None
  <2>1. q \in Req
    BY <1>2
  <2>2. (IF q \in Emitted THEN plans[q] ELSE None) \in PlanSet \cup {None}
    BY <2>1 DEF SInv, TypeOK
  <2>3. SaveEnd(q, Lower(Length, Len(blocks[q]))) \in Nat
    <3>1. Lower(Length, Len(blocks[q])) \in Nat /\ computed[q] + scheduled[q].tokens \in Nat
      BY <1>5, <2>1, RequestTypes DEF SInv
    <3> QED BY <3>1, LengthAssumption DEF SaveEnd, Lower
  <2> QED BY <1>5, <2>1, <2>2, <2>3 DEF Metas
<1>8. \A q \in Step : record(q) # None
  BY <1>7, NoneAssumption
<1>9. \A q \in Step : meta'[q] = record(q)
  BY <1>2, <1>6
<1>10. meta' \in [Req -> Metas \cup {None}]
  BY <1>6, <1>7
<1> HIDE DEF slots, record
<1>11. tracked' \in [Req -> Seq(Pages) \cup {None}]
  <2> SUFFICES ASSUME NEW q \in Req
               PROVE  Tracked(q) \in Seq(Pages) \cup {None}
    BY <1>1
  <2>1. CASE q \in Step
    BY <1>3, <1>5, <2>1
  <2>2. CASE q \notin Step
    BY <2>2, NoPages DEF Tracked, SInv, TypeOK
  <2> QED BY <2>1, <2>2
<1>12. TypeOK'
  <2>1. preempted' \cup loads' \cup toLoad' \cup pinned' \subseteq Req
    BY <1>1, <1>2 DEF SInv, TypeOK
  <2> QED BY <1>1, <1>10, <1>11, <2>1 DEF SInv, TypeOK
<1>13. Placed' /\ Reported' /\ SavedUntilFailure'
  BY <1>1 DEF SInv, Placed, Reported, SavedUntilFailure
<1>14. Stepping'
  BY <1>1, <1>2 DEF SInv, Stepping
<1>15. Tables'
  BY <1>1, <1>4 DEF SInv, Tables
<1>16. Handed'
  <2>1. ASSUME NEW q \in Step
        PROVE  /\ meta'[q] # None /\ meta'[q].slots = slots(q)
               /\ meta'[q].saveEnd = SaveEnd(q, Lower(Length, Len(blocks[q])))
               /\ scheduled[q].external > 0 => meta'[q].plan = plans[q]
               /\ meta'[q].plan # None <=> scheduled[q].external > 0
               /\ q \in toLoad' => scheduled[q].external > 0
    <3>1. (q \in Emitted <=> scheduled[q].external > 0) /\ (q \in Emitted => plans[q] # None)
      BY <1>1, <1>2 DEF SInv, Stepping
    <3> QED BY <1>1, <1>7, <1>8, <1>9, <3>1
  <2>2. \A q : (SaveEnd(q, Lower(Length, Len(blocks[q]))))' = SaveEnd(q, Lower(Length, Len(blocks[q])))
    BY <1>1 DEF SaveEnd
  <2> QED BY <1>1, <2>1, <2>2 DEF Handed, slots
<1>17. Known'
  BY <1>1, <1>2 DEF SInv, Known
<1>18. Filled'
  BY <1>1, <1>2 DEF SInv, Filled, SharedUntouched, Usable
<1> QED BY <1>12, <1>13, <1>14, <1>15, <1>16, <1>17, <1>18 DEF SInv


-----------------------------------------------------------------------------
(* Loads                                                                   *)

\* A plan is loaded into the pages of its request from its prefix on, and no others.
LEMMA LoadPages ==
  ASSUME SInv, mode = "work", NEW r \in toLoad
  PROVE  /\ r \in Req /\ r \in Step /\ status[r] = "running" /\ plans[r] # None
         /\ meta[r].plan = plans[r] /\ plans[r] \in PlanSet
         /\ FailedPages(r) = Scattered(r) /\ Scattered(r) \subseteq Pages
         /\ \A p \in Scattered(r) :
              /\ p[1] = r /\ p[2] < computed[r]
              /\ moves = 0 => native[r] <= p[2] /\ p[3] # 0
         /\ moves = 0 =>
              /\ plans[r].apc = native[r]
              /\ \A i \in 1..computed[r] : native[r] < i => blocks[r][i] \in Scattered(r)
              /\ \A i \in 1..native[r] : meta[r].slots[i] = blocks[r][i]
<1>1. /\ r \in Req /\ r \in Step /\ status[r] = "running" /\ plans[r] # None
      /\ computed[r] = plans[r].stop
  BY DEF SInv, Stepping, Step
<1>2. /\ meta[r].plan = plans[r]
      /\ meta[r].slots = SubSeq(blocks[r], 1, Lower(Length, Len(blocks[r])))
  BY <1>1 DEF SInv, Handed
<1>3. plans[r] \in PlanSet /\ plans[r].apc \in Nat /\ plans[r].stop \in Nat
  BY <1>1, RequestTypes, PlanType DEF SInv
<1>4. /\ blocks[r] \in Seq(Pages) /\ Len(blocks[r]) \in Nat /\ native[r] \in Nat
      /\ computed[r] \in Nat /\ computed[r] <= Length /\ native[r] < Length
      /\ Length \in Nat /\ epoch[r] \in 1..(MaxPreemptions + 1) /\ epoch[r] # 0
  BY <1>1, RequestTypes, LengthAssumption DEF SInv
<1>5. computed[r] <= Len(blocks[r]) /\ native[r] <= Len(blocks[r])
  BY <1>1 DEF SInv, Placed
<1>6. ASSUME NEW i \in Nat, i < computed[r] \/ i < native[r]
      PROVE  /\ i + 1 \in 1..Len(blocks[r]) /\ meta[r].slots[i + 1] = blocks[r][i + 1]
             /\ blocks[r][i + 1] \in Pages
             /\ blocks[r][i + 1] = <<r, i, IF i + 1 <= native[r] THEN 0 ELSE epoch[r]>>
  <2>1. i + 1 \in 1..Len(blocks[r]) /\ i + 1 \in 1..Lower(Length, Len(blocks[r]))
    BY <1>4, <1>5, <1>6 DEF Lower
  <2>2. Lower(Length, Len(blocks[r])) <= Len(blocks[r]) /\ Lower(Length, Len(blocks[r])) \in Nat
    BY <1>4 DEF Lower
  <2>3. meta[r].slots[i + 1] = blocks[r][i + 1]
    BY <1>2, <1>4, <2>1, <2>2
  <2>4. blocks[r][i + 1] = <<r, (i + 1) - 1, IF i + 1 <= native[r] THEN 0 ELSE epoch[r]>>
    BY <1>1, <2>1 DEF SInv, Placed
  <2>5. (i + 1) - 1 = i
    OBVIOUS
  <2>6. blocks[r][i + 1] \in Pages
    BY <1>4, <2>1
  <2> QED BY <2>1, <2>3, <2>4, <2>5, <2>6
<1>7. /\ Span(plans[r]) = plans[r].apc..(computed[r] - 1)
      /\ \A i \in Span(plans[r]) : i \in Nat /\ i < computed[r] /\ plans[r].apc <= i
  BY <1>1, <1>3, <1>4 DEF Span
<1>8. moves = 0 => plans[r].apc = native[r]
  BY <1>1 DEF SInv, Known
<1>9. FailedPages(r) = Scattered(r)
  BY DEF FailedPages, Scattered
<1>10. ASSUME NEW p \in Scattered(r)
       PROVE  /\ p \in Pages /\ p[1] = r /\ p[2] < computed[r]
              /\ moves = 0 => native[r] <= p[2] /\ p[3] # 0
  <2>1. PICK i \in Span(plans[r]) : p = meta[r].slots[i + 1]
    BY <1>2 DEF Scattered
  <2>2. i \in Nat /\ i < computed[r] /\ plans[r].apc <= i
    BY <1>7
  <2>3. p \in Pages /\ p = <<r, i, IF i + 1 <= native[r] THEN 0 ELSE epoch[r]>>
    BY <1>6, <2>1, <2>2
  <2>4. moves = 0 => native[r] <= i /\ ~(i + 1 <= native[r])
    BY <1>4, <1>8, <2>2
  <2> QED BY <1>4, <2>2, <2>3, <2>4
<1>11. ASSUME moves = 0, NEW j \in 1..computed[r], native[r] < j
       PROVE  blocks[r][j] \in Scattered(r)
  <2>1. j - 1 \in Nat /\ j - 1 < computed[r] /\ native[r] <= j - 1 /\ (j - 1) + 1 = j
    BY <1>4, <1>11
  <2>2. j - 1 \in Span(plans[r])
    BY <1>4, <1>7, <1>8, <1>11, <2>1
  <2>3. meta[r].slots[(j - 1) + 1] = blocks[r][(j - 1) + 1]
    BY <1>6, <2>1
  <2> QED BY <1>2, <2>1, <2>2, <2>3 DEF Scattered
<1>12. ASSUME NEW j \in 1..native[r]
       PROVE  meta[r].slots[j] = blocks[r][j]
  <2>1. j - 1 \in Nat /\ j - 1 < native[r] /\ (j - 1) + 1 = j
    BY <1>4
  <2> QED BY <1>6, <2>1
<1> QED BY <1>1, <1>2, <1>3, <1>8, <1>9, <1>10, <1>11, <1>12

\* The prefix of a running request has its KV.
LEMMA PrefixFilled ==
  ASSUME SInv, moves = 0, NEW r \in Req, status[r] = "running"
  PROVE  /\ native[r] <= Len(blocks[r])
         /\ \A i \in 1..native[r] :
              /\ blocks[r][i] \in Pages /\ blocks[r][i][1] = r /\ blocks[r][i][3] = 0
              /\ kv[blocks[r][i]] = "exact"
<1>1. native[r] \in Nat /\ Len(blocks[r]) \in Nat /\ blocks[r] \in Seq(Pages)
  BY RequestTypes DEF SInv
<1>2. native[r] <= Len(blocks[r])
  BY DEF SInv, Placed
<1>3. ASSUME NEW i \in 1..native[r]
      PROVE  /\ blocks[r][i] \in Pages /\ blocks[r][i][1] = r /\ blocks[r][i][3] = 0
             /\ kv[blocks[r][i]] = "exact"
  <2>1. i \in 1..Len(blocks[r])
    BY <1>1, <1>2
  <2>2. blocks[r][i] = <<r, i - 1, 0>>
    BY <1>1, <2>1 DEF SInv, Placed
  <2>3. blocks[r][i] \in Pages
    BY <1>1, <2>1
  <2> QED BY <2>2, <2>3 DEF SInv, Filled, SharedUntouched
<1> QED BY <1>2, <1>3

\* The end of a load, whether or not it failed.
LEMMA LoadFrame ==
  ASSUME SInv, mode = "work", NEW r \in toLoad, mode' \in {"work", "stopped"},
         toLoad' = toLoad \ {r}, pinned' = pinned \ {r},
         UNCHANGED <<vllmVars, planVars, meta, saved>>,
         failures' \in 0..MaxFailures, failures' = 0 => failures = 0,
         errors \subseteq errors', errors' \subseteq Pages,
         kv' \in [Pages -> {"empty", "exact", "blend", "bad"}],
         \A p \in Pages : p \notin Scattered(r) => kv'[p] = kv[p],
         moves = 0 => \A p \in Scattered(r) : kv'[p] = "blend" \/ p \in errors',
         Reported'
  PROVE  SInv'
<1>1. UNCHANGED <<status, native, moves, blocks, computed, epoch, scheduled, preempted, future,
                  plans, loads, tracked, meta, saved, Step>>
  BY DEF vllmVars, planVars, Step
<1>2. r \in Req /\ status[r] = "running" /\ plans[r] # None /\ Scattered(r) \subseteq Pages
  BY LoadPages
<1>3. loads = {}
  BY DEF SInv, Stepping
<1>4. TypeOK'
  <2>1. preempted' \cup loads' \cup toLoad' \cup pinned' \subseteq Req
    BY <1>1 DEF SInv, TypeOK
  <2> QED BY <1>1, <2>1 DEF SInv, TypeOK
<1>5. Placed' /\ Tables' /\ SavedUntilFailure'
  BY <1>1 DEF SInv, Placed, Tables, SavedUntilFailure
<1>6. Stepping'
  BY <1>1 DEF SInv, Stepping
<1>7. Handed'
  <2>1. \A q : (SaveEnd(q, Lower(Length, Len(blocks[q]))))' = SaveEnd(q, Lower(Length, Len(blocks[q])))
    BY <1>1 DEF SaveEnd
  <2> QED BY <1>1, <2>1 DEF SInv, Handed
<1>8. Known'
  BY <1>1, <1>2, <1>3 DEF SInv, Known
<1>9. Filled'
  <2> SUFFICES ASSUME moves = 0
               PROVE  Filled'
    BY <1>1 DEF Filled
  <2>1. \A p \in Pages : p[3] = 0 => kv'[p] = "exact"
    <3>1. \A p \in Scattered(r) : p[3] # 0
      BY LoadPages
    <3> QED BY <3>1 DEF SInv, Filled, SharedUntouched
  <2>2. ASSUME NEW q \in Req, status[q] = "running"
        PROVE  /\ native[q] <= computed[q]
               /\ \A i \in 1..computed[q] :
                    \/ kv'[blocks[q][i]] \in {"exact", "blend"}
                    \/ native[q] < i /\ q \in loads' \cup toLoad'
                    \/ blocks[q][i] \in errors'
    <3>0. native[q] <= computed[q]
      BY <2>2 DEF SInv, Filled
    <3>1. CASE q = r
      <4> SUFFICES ASSUME NEW i \in 1..computed[r]
                   PROVE  kv'[blocks[r][i]] \in {"exact", "blend"} \/ blocks[r][i] \in errors'
        BY <3>0, <3>1
      <4>1. CASE native[r] < i
        <5>1. blocks[r][i] \in Scattered(r)
          BY <4>1, LoadPages
        <5> QED BY <5>1
      <4>2. CASE ~(native[r] < i)
        <5>1. i \in 1..native[r]
          BY <1>2, <4>2, RequestTypes DEF SInv
        <5> QED BY <1>2, <2>1, <5>1, PrefixFilled
      <4> QED BY <4>1, <4>2
    <3>2. CASE q # r
      <4> SUFFICES ASSUME NEW i \in 1..computed[q]
                   PROVE  \/ kv'[blocks[q][i]] \in {"exact", "blend"}
                          \/ native[q] < i /\ q \in loads' \cup toLoad'
                          \/ blocks[q][i] \in errors'
        BY <3>0
      <4>1. i \in 1..Len(blocks[q]) /\ blocks[q] \in Seq(Pages)
        <5>1. computed[q] \in Nat /\ Len(blocks[q]) \in Nat /\ blocks[q] \in Seq(Pages)
          BY RequestTypes DEF SInv
        <5>2. computed[q] <= Len(blocks[q])
          BY <2>2 DEF SInv, Placed
        <5> QED BY <5>1, <5>2
      <4>2. blocks[q][i] \in Pages /\ blocks[q][i][1] = q
        BY <4>1 DEF SInv, Placed
      <4>3. blocks[q][i] \notin Scattered(r)
        BY <3>2, <4>2, LoadPages
      <4>4. kv'[blocks[q][i]] = kv[blocks[q][i]]
        BY <4>2, <4>3
      <4>5. \/ kv[blocks[q][i]] \in {"exact", "blend"}
            \/ native[q] < i /\ q \in loads \cup toLoad
            \/ blocks[q][i] \in errors
        BY <2>2 DEF SInv, Filled, Usable
      <4> QED BY <1>1, <3>2, <4>4, <4>5
    <3> QED BY <3>1, <3>2
  <2> QED BY <1>1, <2>1, <2>2 DEF Filled, SharedUntouched, Usable
<1> QED BY <1>4, <1>5, <1>6, <1>7, <1>8, <1>9 DEF SInv


LEMMA LoadNothingKeeps ==
  ASSUME SInv, NEW r \in Req, LoadNothing(r)
  PROVE  SInv'
<1>1. /\ mode = "work" /\ mode' = "stopped"
      /\ UNCHANGED <<status, native, moves, blocks, computed, epoch, scheduled, preempted, future,
                     plans, loads, tracked, meta, toLoad, kv, pinned, saved, errors, failures, Step>>
  BY DEF LoadNothing, vllmVars, planVars, dataVars, Step
<1>2. TypeOK' /\ Placed' /\ Stepping' /\ Tables'
  BY <1>1 DEF SInv, TypeOK, Placed, Stepping, Tables
<1>3. Handed' /\ Known' /\ Reported'
  BY <1>1 DEF SInv, Handed, SaveEnd, Known, Reported
<1>4. Filled' /\ SavedUntilFailure'
  BY <1>1 DEF SInv, Filled, SharedUntouched, Usable, SavedUntilFailure
<1> QED BY <1>2, <1>3, <1>4 DEF SInv

LEMMA LoadKeeps ==
  ASSUME SInv, NEW r \in Req, Load(r)
  PROVE  SInv'
<1> DEFINE v == IF Sound(meta[r].slots, meta[r].plan.apc) THEN "blend" ELSE "bad"
<1>1. /\ mode = "work" /\ r \in toLoad
      /\ kv' = [p \in Pages |-> IF p \in Scattered(r) THEN v ELSE kv[p]]
      /\ toLoad' = toLoad \ {r} /\ pinned' = pinned \ {r}
      /\ UNCHANGED <<vllmVars, planVars, mode, meta, saved, errors, failures>>
  BY DEF Load, WriteKv
<1>2. v \in {"blend", "bad"}
  OBVIOUS
<1>3. moves = 0 => v = "blend"
  <2> SUFFICES ASSUME moves = 0
               PROVE  Sound(meta[r].slots, meta[r].plan.apc)
    OBVIOUS
  <2>1. /\ status[r] = "running" /\ meta[r].plan.apc = native[r]
        /\ \A i \in 1..native[r] : meta[r].slots[i] = blocks[r][i]
    BY <1>1, LoadPages
  <2>2. \A i \in 1..native[r] : kv[blocks[r][i]] = "exact"
    BY <2>1, PrefixFilled
  <2> QED BY <2>1, <2>2 DEF Sound, Usable
<1> HIDE DEF v
<1>4. /\ kv' \in [Pages -> {"empty", "exact", "blend", "bad"}]
      /\ \A p \in Pages : p \notin Scattered(r) => kv'[p] = kv[p]
      /\ \A p \in Scattered(r) : kv'[p] = v
  <2>1. Scattered(r) \subseteq Pages
    BY <1>1, LoadPages
  <2> QED BY <1>1, <1>2, <2>1 DEF SInv, TypeOK
<1>5. errors \subseteq Pages /\ failures \in 0..MaxFailures
  BY DEF SInv, TypeOK
<1>6. Reported'
  BY <1>1 DEF SInv, Reported, vllmVars, Step
<1> QED BY <1>1, <1>3, <1>4, <1>5, <1>6, LoadFrame

LEMMA LoadFailsKeeps ==
  ASSUME SInv, NEW r \in Req, LoadFails(r)
  PROVE  SInv'
<1>1. /\ mode = "work" /\ r \in toLoad /\ meta[r].plan.hits # {}
      /\ errors' = errors \cup FailedPages(r)
      /\ toLoad' = toLoad \ {r} /\ pinned' = pinned \ {r}
      /\ UNCHANGED <<vllmVars, planVars, meta, saved>>
  BY DEF LoadFails
<1>2. mode' \in {"work", "stopped"}
  BY <1>1 DEF LoadFails
<1>3. \/ r \notin pinned /\ kv' = kv /\ failures' = failures
      \/ /\ failures < MaxFailures /\ failures' = failures + 1
         /\ \/ kv' = [p \in Pages |-> IF p \in Scattered(r) THEN "bad" ELSE kv[p]]
            \/ kv' = kv
  BY DEF LoadFails, WriteKv
<1>4. failures \in Nat /\ failures <= MaxFailures /\ MaxFailures \in Nat
  BY BoundAssumption DEF SInv, TypeOK
<1>5. /\ failures' \in 0..MaxFailures /\ (failures' = 0 => failures = 0)
      /\ failures' = 0 => r \notin pinned
  BY <1>3, <1>4
<1>6. /\ r \in Step /\ FailedPages(r) = Scattered(r) /\ Scattered(r) \subseteq Pages
      /\ plans[r] # None /\ plans[r].hits # {}
      /\ \A p \in Scattered(r) :
           /\ p[1] = r /\ p[2] < computed[r]
           /\ moves = 0 => native[r] <= p[2]
  BY <1>1, LoadPages
<1>7. /\ kv' \in [Pages -> {"empty", "exact", "blend", "bad"}]
      /\ \A p \in Pages : p \notin Scattered(r) => kv'[p] = kv[p]
  BY <1>3 DEF SInv, TypeOK
<1>8. errors \subseteq errors' /\ errors' \subseteq Pages
  BY <1>1, <1>6 DEF SInv, TypeOK
<1>9. Reported'
  <2>1. UNCHANGED <<native, moves, computed, epoch, Step>>
    BY <1>1 DEF vllmVars, Step
  <2>2. failures' = 0 => epoch[r] # 1
    BY <1>1, <1>5, <1>6 DEF SInv, Known
  <2>3. ASSUME NEW e \in errors'
        PROVE  /\ e[1] \in Step /\ e[2] < computed[e[1]]
               /\ moves = 0 => native[e[1]] <= e[2]
               /\ failures' = 0 => epoch[e[1]] # 1
    <3>1. CASE e \in errors
      BY <1>5, <3>1 DEF SInv, Reported
    <3>2. CASE e \in Scattered(r)
      BY <1>6, <2>2, <3>2
    <3> QED BY <1>1, <1>6, <3>1, <3>2
  <2> QED BY <2>1, <2>3 DEF Reported
<1>10. \A p \in Scattered(r) : p \in errors'
  BY <1>1, <1>6
<1> QED BY <1>1, <1>2, <1>5, <1>7, <1>8, <1>9, <1>10, LoadFrame


-----------------------------------------------------------------------------
(* The forward                                                             *)

\* How far vLLM takes a request after the step.
LEMMA Progress ==
  ASSUME SInv, mode = "work", NEW r \in Req, status[r] = "running"
  PROVE  /\ ComputedAfter(r) \in Nat /\ ComputedAfter(r) <= Length
         /\ ComputedAfter(r) <= Len(blocks[r])
         /\ r \notin Step => ComputedAfter(r) = computed[r]
         /\ r \in Step => \/ /\ ComputedAfter(r) = computed[r] + scheduled[r].tokens
                             /\ \A i \in 1..Len(blocks[r]) : blocks[r][i] \notin errors
                          \/ /\ ComputedAfter(r) < computed[r]
                             /\ moves = 0 => native[r] <= ComputedAfter(r)
                             /\ \A i \in 1..ComputedAfter(r) : blocks[r][i] \notin errors
                             /\ ~(epoch[r] = 1 /\ failures = 0)
<1> DEFINE failed == {i \in 0..(Len(blocks[r]) - 1) : blocks[r][i + 1] \in errors}
<1>1. /\ blocks[r] \in Seq(Pages) /\ Len(blocks[r]) \in Nat /\ native[r] \in Nat
      /\ computed[r] \in Nat /\ computed[r] <= Length /\ Length \in Nat
  BY RequestTypes, LengthAssumption DEF SInv
<1>2. computed[r] <= Len(blocks[r])
  BY DEF SInv, Placed
<1>3. CASE r \notin Step
  BY <1>1, <1>2, <1>3 DEF ComputedAfter
<1>4. CASE r \in Step /\ failed = {}
  <2>1. ComputedAfter(r) = computed[r] + scheduled[r].tokens
    BY <1>4 DEF ComputedAfter
  <2>2. /\ scheduled[r].tokens \in Nat /\ computed[r] + scheduled[r].tokens <= Length
        /\ computed[r] + scheduled[r].tokens <= Len(blocks[r])
    BY <1>4, RequestTypes DEF SInv, Stepping
  <2>3. ASSUME NEW i \in 1..Len(blocks[r])
        PROVE  blocks[r][i] \notin errors
    <3>1. i - 1 \in 0..(Len(blocks[r]) - 1) /\ (i - 1) + 1 = i
      BY <1>1
    <3> QED BY <1>4, <3>1
  <2> QED BY <1>1, <1>4, <2>1, <2>2, <2>3
<1>5. CASE r \in Step /\ failed # {}
  <2>1. failed \subseteq Nat
    BY <1>1
  <2>2. PICK x \in failed : \A y \in failed : x <= y
    BY <1>5, <2>1, LeastElement
  <2>3. Least(failed) \in failed /\ \A y \in failed : Least(failed) <= y
    BY <2>2 DEF Least
  <2> DEFINE m == Least(failed)
  <2>4. ComputedAfter(r) = m
    BY <1>5 DEF ComputedAfter
  <2>5. m \in 0..(Len(blocks[r]) - 1) /\ blocks[r][m + 1] \in errors
    BY <2>3
  <2>6. m \in Nat /\ m + 1 \in 1..Len(blocks[r])
    BY <1>1, <2>5
  <2>7. blocks[r][m + 1][1] = r /\ blocks[r][m + 1][2] = m
    <3>1. blocks[r][m + 1] = <<r, (m + 1) - 1, IF m + 1 <= native[r] THEN 0 ELSE epoch[r]>>
      BY <2>6 DEF SInv, Placed
    <3> HIDE DEF m
    <3>2. (m + 1) - 1 = m
      BY <2>6
    <3> QED BY <3>1, <3>2
  <2>8. /\ m < computed[r] /\ (moves = 0 => native[r] <= m)
        /\ ~(epoch[r] = 1 /\ failures = 0)
    BY <2>5, <2>7 DEF SInv, Reported
  <2>9. ASSUME NEW i \in 1..m
        PROVE  blocks[r][i] \notin errors
    <3>1. i - 1 \in 0..(Len(blocks[r]) - 1) /\ (i - 1) + 1 = i /\ ~(m <= i - 1)
      BY <1>1, <2>5, <2>6
    <3>2. i - 1 \notin failed
      BY <2>3, <3>1
    <3> QED BY <3>1, <3>2
  <2> QED BY <1>1, <1>2, <1>5, <2>4, <2>6, <2>8, <2>9
<1> QED BY <1>3, <1>4, <1>5

\* What the forward leaves in the pages of a request.
LEMMA ForwardFills ==
  ASSUME SInv, mode = "work", toLoad = {}, moves = 0, NEW r \in Req, status[r] = "running"
  PROVE  /\ \A i \in 1..computed[r] :
              blocks[r][i] \notin errors => Forwarded[blocks[r][i]] \in {"exact", "blend"}
         /\ r \in Step /\ (\A i \in 1..computed[r] : blocks[r][i] \notin errors) =>
              \A i \in 1..(computed[r] + scheduled[r].tokens) :
                Forwarded[blocks[r][i]] \in {"exact", "blend"}
<1>1. /\ blocks[r] \in Seq(Pages) /\ Len(blocks[r]) \in Nat /\ computed[r] \in Nat
      /\ r \in Step => /\ scheduled[r].tokens \in Nat
                       /\ computed[r] + scheduled[r].tokens <= Len(blocks[r])
  BY RequestTypes DEF SInv
<1>2. computed[r] <= Len(blocks[r]) /\ loads = {}
  BY DEF SInv, Placed, Stepping
<1>3. ASSUME NEW i \in 1..Len(blocks[r])
      PROVE  /\ blocks[r][i] \in Pages /\ blocks[r][i][1] = r /\ blocks[r][i][2] = i - 1
             /\ blocks[r][(i - 1) + 1] = blocks[r][i]
  <2>1. blocks[r][i] = <<r, i - 1, IF i <= native[r] THEN 0 ELSE epoch[r]>>
    BY DEF SInv, Placed
  <2>2. (i - 1) + 1 = i
    BY <1>1
  <2> QED BY <1>1, <2>1, <2>2
<1>4. ASSUME NEW i \in 1..computed[r], blocks[r][i] \notin errors
      PROVE  Usable(blocks[r][i]) /\ Forwarded[blocks[r][i]] = kv[blocks[r][i]]
  <2>1. i \in 1..Len(blocks[r]) /\ ~(computed[r] <= i - 1)
    BY <1>1, <1>2
  <2>2. ~Computes(r, i - 1)
    BY <1>1, <2>1 DEF Computes
  <2>3. Usable(blocks[r][i])
    BY <1>2, <1>4 DEF SInv, Filled
  <2> QED BY <1>3, <2>1, <2>2, <2>3 DEF Forwarded
<1>5. ASSUME r \in Step, \A i \in 1..computed[r] : blocks[r][i] \notin errors,
             NEW i \in 1..(computed[r] + scheduled[r].tokens)
      PROVE  Forwarded[blocks[r][i]] \in {"exact", "blend"}
  <2>1. CASE i <= computed[r]
    <3>1. i \in 1..computed[r]
      BY <1>1, <1>5, <2>1
    <3> QED BY <1>4, <1>5, <3>1 DEF Usable
  <2>2. CASE computed[r] < i
    <3>1. i \in 1..Len(blocks[r]) /\ i - 1 \in computed[r]..(computed[r] + scheduled[r].tokens - 1)
      BY <1>1, <1>5, <2>2
    <3>2. Computes(r, i - 1)
      BY <1>5, <3>1 DEF Computes
    <3>3. Sound(blocks[r], computed[r])
      BY <1>4, <1>5 DEF Sound
    <3> QED BY <1>3, <3>1, <3>2, <3>3 DEF Forwarded
  <2> QED BY <1>1, <1>5, <2>1, <2>2
<1>6. \A i \in 1..computed[r] :
        blocks[r][i] \notin errors => Forwarded[blocks[r][i]] \in {"exact", "blend"}
  BY <1>4 DEF Usable
<1> QED BY <1>5, <1>6


\* A chunk before save_end lies in pages that the step computed.
LEMMA ChunkBounds ==
  ASSUME NEW n \in Nat, NEW c \in 0..(n \div Chunk - 1),
         NEW i \in (c * Chunk)..(c * Chunk + Chunk - 1)
  PROVE  c \in Nat /\ i \in Nat /\ i < n
<1>1. Chunk \in Nat \ {0} /\ n \div Chunk \in Nat /\ (n \div Chunk) * Chunk <= n
  BY LengthAssumption
<1>2. c \in Nat /\ c + 1 <= n \div Chunk
  BY <1>1
<1>3. (c + 1) * Chunk <= (n \div Chunk) * Chunk
  BY <1>1, <1>2
<1>4. (c + 1) * Chunk = c * Chunk + Chunk /\ c * Chunk \in Nat
  BY <1>1, <1>2
<1> QED BY <1>1, <1>2, <1>3, <1>4

\* Unless a load failed, a request was preempted or a prefix moved, what a step saves
\* is in pages with KV.
LEMMA SavesFilled ==
  ASSUME SInv, mode = "work", toLoad = {}, NEW r \in Step, NEW x \in SavedNow(r)
  PROVE  /\ x \in Req \X Nat \X BOOLEAN /\ x[1] = r
         /\ epoch[r] = 1 /\ failures = 0 /\ moves = 0 => x[3]
<1>1. r \in Req /\ status[r] = "running"
  BY DEF Step, SInv, Stepping
<1>2. /\ meta[r] # None
      /\ meta[r].slots = SubSeq(blocks[r], 1, Lower(Length, Len(blocks[r])))
      /\ meta[r].saveEnd = SaveEnd(r, Lower(Length, Len(blocks[r])))
  BY DEF SInv, Handed
<1>3. meta[r].saveEnd \in Nat
  BY <1>1, <1>2 DEF SInv, TypeOK, Metas
<1> DEFINE held(c) == \A i \in (c * Chunk)..(c * Chunk + Chunk - 1) :
                        Forwarded[meta[r].slots[i + 1]] \in {"exact", "blend"}
<1>4. PICK c \in 0..(meta[r].saveEnd \div Chunk - 1) : x = <<r, c, held(c)>>
  BY DEF SavedNow
<1>5. c \in Nat
  BY <1>3, LengthAssumption
<1>6. held(c) \in BOOLEAN
  OBVIOUS
<1>7. ASSUME epoch[r] = 1, failures = 0, moves = 0
      PROVE  held(c)
  <2> SUFFICES ASSUME NEW i \in (c * Chunk)..(c * Chunk + Chunk - 1)
               PROVE  Forwarded[meta[r].slots[i + 1]] \in {"exact", "blend"}
    OBVIOUS
  <2>1. i \in Nat /\ i < meta[r].saveEnd
    BY <1>3, ChunkBounds
  <2>2. /\ blocks[r] \in Seq(Pages) /\ Len(blocks[r]) \in Nat /\ computed[r] \in Nat
        /\ scheduled[r].tokens \in Nat /\ Length \in Nat
    BY <1>1, RequestTypes, LengthAssumption DEF SInv
  <2>3. /\ meta[r].saveEnd <= computed[r] + scheduled[r].tokens
        /\ meta[r].saveEnd <= Lower(Length, Len(blocks[r]))
        /\ Lower(Length, Len(blocks[r])) \in Nat
        /\ Lower(Length, Len(blocks[r])) <= Len(blocks[r])
    BY <1>2, <2>2 DEF SaveEnd, Lower
  <2>4. meta[r].slots[i + 1] = blocks[r][i + 1]
    BY <1>2, <1>3, <2>1, <2>2, <2>3
  <2>5. \A j \in 1..computed[r] : blocks[r][j] \notin errors
    <3>1. ComputedAfter(r) = computed[r] + scheduled[r].tokens =>
            \A j \in 1..Len(blocks[r]) : blocks[r][j] \notin errors
      <4>1. ~(computed[r] + scheduled[r].tokens < computed[r])
        BY <2>2
      <4> QED BY <1>1, <4>1, Progress
    <3>2. \A j \in 1..Len(blocks[r]) : blocks[r][j] \notin errors
      BY <1>1, <1>7, <3>1, Progress
    <3>3. computed[r] <= Len(blocks[r])
      BY <1>1 DEF SInv, Placed
    <3> QED BY <2>2, <3>2, <3>3
  <2>6. i + 1 \in 1..(computed[r] + scheduled[r].tokens)
    BY <1>3, <2>1, <2>2, <2>3
  <2>7. \A j \in 1..(computed[r] + scheduled[r].tokens) :
          Forwarded[blocks[r][j]] \in {"exact", "blend"}
    BY <1>1, <1>7, <2>5, ForwardFills
  <2> QED BY <2>4, <2>6, <2>7
<1> HIDE DEF held
<1> QED BY <1>1, <1>4, <1>5, <1>6, <1>7

\* The forward writes into no page of the prefix cache, as long as no prefix moves.
LEMMA ForwardSpares ==
  ASSUME SInv, mode = "work", moves = 0, NEW p \in Pages, p[3] = 0
  PROVE  Forwarded[p] = kv[p]
<1> SUFFICES ASSUME Computes(p[1], p[2]), p = blocks[p[1]][p[2] + 1]
             PROVE  FALSE
  BY DEF Forwarded
<1> DEFINE r == p[1]
           i == p[2]
<1>1. r \in Step /\ r \in Req /\ status[r] = "running"
  BY DEF Computes, Step, SInv, Stepping
<1>2. /\ computed[r] \in Nat /\ scheduled[r].tokens \in Nat /\ native[r] \in Nat
      /\ Len(blocks[r]) \in Nat /\ computed[r] + scheduled[r].tokens <= Len(blocks[r])
      /\ epoch[r] \in 1..(MaxPreemptions + 1)
  BY <1>1, RequestTypes DEF SInv
<1>3. native[r] <= computed[r]
  BY <1>1 DEF SInv, Filled
<1>4. i \in computed[r]..(computed[r] + scheduled[r].tokens - 1)
  BY DEF Computes
<1> HIDE DEF i
<1>5. i + 1 \in 1..Len(blocks[r]) /\ ~(i + 1 <= native[r])
  <2>1. i \in Nat /\ computed[r] <= i /\ i + 1 <= computed[r] + scheduled[r].tokens
    BY <1>2, <1>4
  <2> QED BY <1>2, <1>3, <2>1
<1>6. blocks[r][i + 1] = <<r, (i + 1) - 1, epoch[r]>>
  BY <1>1, <1>5 DEF SInv, Placed
<1>7. p[3] = epoch[r]
  BY <1>6 DEF i
<1> QED BY <1>2, <1>7

LEMMA ForwardKeeps ==
  ASSUME SInv, Forward
  PROVE  SInv'
<1>1. /\ mode = "work" /\ toLoad = {} /\ mode' = "schedule" /\ kv' = Forwarded
      /\ saved' = saved \cup UNION {SavedNow(r) : r \in Step}
      /\ computed' = [r \in Req |-> ComputedAfter(r)]
      /\ errors' = {}
      /\ scheduled' = [r \in Req |-> None] /\ meta' = [r \in Req |-> None]
      /\ UNCHANGED <<status, native, moves, blocks, epoch, preempted, future, plans, loads,
                     tracked, toLoad, pinned, failures>>
  BY DEF Forward, planVars
<1>2. Step' = {} /\ loads = {} /\ preempted = {} /\ Step \subseteq Req
  BY <1>1 DEF Step, SInv, Stepping
<1>3. \A r \in Req : r \notin Step => ComputedAfter(r) = computed[r]
  BY DEF ComputedAfter
<1>4. \A r \in Step : status[r] = "running"
  BY DEF SInv, Stepping
<1>5. ASSUME NEW r \in Req
      PROVE  /\ computed'[r] = ComputedAfter(r) /\ ComputedAfter(r) \in 0..Length
             /\ status[r] = "running" => ComputedAfter(r) <= Len(blocks[r])
  <2>1. CASE status[r] = "running"
    BY <1>1, <2>1, Progress, LengthAssumption
  <2>2. CASE status[r] # "running"
    BY <1>1, <1>3, <1>4, <2>2 DEF SInv, TypeOK
  <2> QED BY <2>1, <2>2
<1>6. TypeOK'
  <2>1. computed' \in [Req -> 0..Length]
    BY <1>1, <1>5
  <2>2. kv' \in [Pages -> {"empty", "exact", "blend", "bad"}]
    BY <1>1 DEF Forwarded, SInv, TypeOK
  <2>3. saved' \subseteq Req \X Nat \X BOOLEAN
    <3>1. \A r \in Step : SavedNow(r) \subseteq Req \X Nat \X BOOLEAN
      BY <1>1, SavesFilled
    <3> QED BY <1>1, <3>1 DEF SInv, TypeOK
  <2>4. /\ scheduled' \in [Req -> Schedules \cup {None}] /\ meta' \in [Req -> Metas \cup {None}]
        /\ errors' \subseteq Pages /\ mode' \in {"schedule", "work", "stopped"}
    BY <1>1
  <2>5. /\ status' \in [Req -> {"waiting", "running", "finished"}]
        /\ native' \in [Req -> Natives] /\ moves' \in 0..MaxMoves
        /\ blocks' \in [Req -> Seq(Pages)] /\ epoch' \in [Req -> 1..(MaxPreemptions + 1)]
        /\ future' \in [Req -> Futures \cup {None}] /\ plans' \in [Req -> PlanSet \cup {None}]
        /\ preempted' \cup loads' \cup toLoad' \cup pinned' \subseteq Req
        /\ tracked' \in [Req -> Seq(Pages) \cup {None}] /\ failures' \in 0..MaxFailures
    BY <1>1 DEF SInv, TypeOK
  <2> QED BY <1>2, <2>1, <2>2, <2>3, <2>4, <2>5 DEF TypeOK
<1>7. Placed'
  BY <1>1, <1>5 DEF SInv, Placed
<1>8. Stepping'
  BY <1>1, <1>2 DEF Stepping
<1>9. Tables'
  BY <1>1, <1>2 DEF SInv, Tables
<1>10. Handed' /\ Reported'
  BY <1>1 DEF Handed, Reported
<1>11. Known'
  BY <1>1 DEF SInv, Known
<1>12. Filled'
  <2> SUFFICES ASSUME moves = 0
               PROVE  Filled'
    BY <1>1 DEF Filled
  <2>1. \A p \in Pages : p[3] = 0 => kv'[p] = "exact"
    BY <1>1, ForwardSpares DEF SInv, Filled, SharedUntouched
  <2>2. ASSUME NEW r \in Req, status[r] = "running"
        PROVE  /\ native[r] <= computed'[r]
               /\ \A i \in 1..computed'[r] : kv'[blocks[r][i]] \in {"exact", "blend"}
    <3>1. /\ native[r] <= computed[r] /\ native[r] \in Nat /\ computed[r] \in Nat
          /\ r \in Step => scheduled[r].tokens \in Nat
      BY <2>2, RequestTypes DEF SInv, Filled
    <3>2. computed[r] <= Len(blocks[r]) /\ Len(blocks[r]) \in Nat
      BY <2>2, RequestTypes DEF SInv, Placed
    <3>3. CASE r \notin Step
      <4>1. \A i \in 1..computed[r] : blocks[r][i] \notin errors
        <5> SUFFICES ASSUME NEW i \in 1..computed[r]
                     PROVE  blocks[r][i] \notin errors
          OBVIOUS
        <5>1. i \in 1..Len(blocks[r])
          BY <3>1, <3>2
        <5>2. blocks[r][i][1] = r
          BY <5>1 DEF SInv, Placed
        <5> QED BY <3>3, <5>2 DEF SInv, Reported
      <4> QED BY <1>1, <1>3, <1>5, <2>2, <3>1, <3>3, <4>1, ForwardFills
    <3>4. CASE r \in Step /\ ComputedAfter(r) = computed[r] + scheduled[r].tokens
      <4>1. ~(computed[r] + scheduled[r].tokens < computed[r]) /\ native[r] <= computed[r] + scheduled[r].tokens
        BY <3>1, <3>4
      <4>2. \A i \in 1..Len(blocks[r]) : blocks[r][i] \notin errors
        BY <1>1, <2>2, <3>4, <4>1, Progress
      <4>3. \A i \in 1..computed[r] : blocks[r][i] \notin errors
        BY <3>1, <3>2, <4>2
      <4> QED BY <1>1, <1>5, <2>2, <3>4, <4>1, <4>3, ForwardFills
    <3>5. CASE r \in Step /\ ComputedAfter(r) # computed[r] + scheduled[r].tokens
      <4>1. /\ ComputedAfter(r) < computed[r] /\ native[r] <= ComputedAfter(r)
            /\ \A i \in 1..ComputedAfter(r) : blocks[r][i] \notin errors
            /\ ComputedAfter(r) \in Nat
        BY <1>1, <2>2, <3>5, Progress
      <4>2. \A i \in 1..ComputedAfter(r) : i \in 1..computed[r]
        BY <3>1, <4>1
      <4> QED BY <1>1, <1>5, <2>2, <4>1, <4>2, ForwardFills
    <3> QED BY <3>3, <3>4, <3>5
  <2> QED BY <1>1, <2>1, <2>2 DEF Filled, SharedUntouched, Usable
<1>13. SavedUntilFailure'
  <2>1. ASSUME NEW x \in saved', epoch[x[1]] = 1, failures = 0, moves = 0
        PROVE  x[3]
    <3>1. CASE x \in saved
      BY <2>1, <3>1 DEF SInv, SavedUntilFailure
    <3>2. CASE \E r \in Step : x \in SavedNow(r)
      BY <1>1, <2>1, <3>2, SavesFilled
    <3> QED BY <1>1, <3>1, <3>2
  <2> QED BY <1>1, <2>1 DEF SavedUntilFailure
<1> QED BY <1>6, <1>7, <1>8, <1>9, <1>10, <1>11, <1>12, <1>13 DEF SInv



-----------------------------------------------------------------------------
(* The specification                                                       *)

LEMMA InitHolds == Init => SInv
<1> SUFFICES ASSUME Init
             PROVE  SInv
  OBVIOUS
<1>1. /\ status = [r \in Req |-> "waiting"]
      /\ native \in [Req -> Natives] /\ moves = 0
      /\ blocks = [r \in Req |-> <<>>] /\ computed = [r \in Req |-> 0]
      /\ epoch = [r \in Req |-> 1] /\ scheduled = [r \in Req |-> None]
      /\ preempted = {}
      /\ future = [r \in Req |-> None] /\ plans = [r \in Req |-> None]
      /\ loads = {} /\ tracked = [r \in Req |-> None]
      /\ mode = "schedule" /\ meta = [r \in Req |-> None] /\ toLoad = {}
      /\ kv = [p \in Pages |-> IF p[3] = 0 THEN "exact" ELSE "empty"]
      /\ pinned = {} /\ saved = {} /\ errors = {} /\ failures = 0
  BY DEF Init
<1>2. Step = {} /\ \A r \in Req : status[r] = "waiting" /\ blocks[r] = <<>>
  BY <1>1 DEF Step
<1>3. TypeOK
  <2>1. 0 \in 0..MaxMoves /\ 0 \in 0..MaxFailures /\ 0 \in 0..Length /\ 1 \in 1..(MaxPreemptions + 1)
    BY BoundAssumption, LengthAssumption
  <2> QED BY <1>1, <1>2, <2>1, NoPages DEF TypeOK
<1>4. Placed /\ Stepping
  BY <1>1, <1>2, NoPages DEF Placed, Stepping
<1>5. Tables /\ Handed /\ Known /\ Reported
  BY <1>1, <1>2 DEF Tables, Handed, Known, Reported
<1>6. Filled /\ SavedUntilFailure
  BY <1>1, <1>2 DEF Filled, SharedUntouched, SavedUntilFailure
<1> QED BY <1>3, <1>4, <1>5, <1>6 DEF SInv

LEMMA NextKeeps ==
  ASSUME SInv, [Next]_vars
  PROVE  SInv'
<1>1. CASE UNCHANGED vars
  <2>1. UNCHANGED <<status, native, moves, blocks, computed, epoch, scheduled, preempted, future,
                    plans, loads, tracked, mode, meta, toLoad, kv, pinned, saved, errors, failures,
                    Step>>
    BY <1>1 DEF vars, vllmVars, planVars, stepVars, dataVars, Step
  <2>2. TypeOK' /\ Placed' /\ Stepping' /\ Tables'
    BY <2>1 DEF SInv, TypeOK, Placed, Stepping, Tables
  <2>3. Handed' /\ Known' /\ Reported'
    BY <2>1 DEF SInv, Handed, SaveEnd, Known, Reported
  <2>4. Filled' /\ SavedUntilFailure'
    BY <2>1 DEF SInv, Filled, SharedUntouched, Usable, SavedUntilFailure
  <2> QED BY <2>2, <2>3, <2>4 DEF SInv
<1>2. CASE BuildMeta
  BY <1>2, BuildMetaKeeps
<1>3. CASE Forward
  BY <1>3, ForwardKeeps
<1>4. ASSUME NEW r \in Req, NEW n \in Natives, Apc(r, n)
      PROVE  SInv'
  BY <1>4, ApcKeeps
<1>5. ASSUME NEW r \in Req, Preempt(r) \/ Finish(r)
      PROVE  SInv'
  BY <1>5, PreemptKeeps, FinishKeeps
<1>6. ASSUME NEW r \in Req,
             AskShort(r) \/ Submit(r) \/ LookupDone(r) \/ LookupRaises(r) \/ Poll(r)
      PROVE  SInv'
  BY <1>6, AskShortKeeps, SubmitKeeps, LookupDoneKeeps, LookupRaisesKeeps, PollKeeps
<1>7. ASSUME NEW r \in Req, NEW tokens \in 1..Length, Admit(r, tokens) \/ Continue(r, tokens)
      PROVE  SInv'
  BY <1>7, AdmitKeeps, ContinueKeeps
<1>8. ASSUME NEW r \in Req, LoadNothing(r) \/ Load(r) \/ LoadFails(r)
      PROVE  SInv'
  BY <1>8, LoadNothingKeeps, LoadKeeps, LoadFailsKeeps
<1> QED BY <1>1, <1>2, <1>3, <1>4, <1>5, <1>6, <1>7, <1>8 DEF Next

\* The inductive invariant holds in every reachable state.
THEOREM InvariantHolds == Spec => []SInv
<1>1. Init => SInv
  BY InitHolds
<1>2. SInv /\ [Next]_vars => SInv'
  BY NextKeeps
<1> QED BY <1>1, <1>2, PTL DEF Spec

\* Every record that the connector keeps has the type its reader expects, and the
\* tokens of a step fit the pages of the request (connector.py:85-160).
THEOREM TypeIsOK == Spec => []TypeOK
<1>1. SInv => TypeOK
  BY DEF SInv
<1> QED BY <1>1, InvariantHolds, PTL

\* The pages in a step's metadata are those of vLLM's table, for any growth,
\* preemption and resumption before it (connector.py:779-866).
THEOREM SlotsAreCurrent == Spec => []SlotsCurrent
<1>1. SInv => SlotsCurrent
  BY DEF SInv, Handed, SlotsCurrent
<1> QED BY <1>1, InvariantHolds, PTL

\* As long as no prefix moves, what is claimed in a step has something to load.
Claimed ==
  moves = 0 => \A r \in Step : scheduled[r].external > 0 => plans[r].hits # {}

LEMMA EmptyClaimsNothing ==
  ASSUME NEW plan \in PlanSet, plan.hits = {}
  PROVE  plan.stop = plan.apc
<1>1. PICK apc \in Natives : \E H \in HitSets(apc), b \in SparseQ : plan = PlanFor(apc, H, b)
  BY DEF PlanSet
<1>2. PICK H \in HitSets(apc), b \in SparseQ : plan = PlanFor(apc, H, b)
  BY <1>1
<1>3. H = {}
  BY <1>2, PlanForType
<1>4. plan = Empty(apc)
  BY <1>2, <1>3 DEF PlanFor
<1> QED BY <1>4 DEF Empty, Plan

LEMMA AdmitClaims ==
  ASSUME SInv, Claimed, NEW r \in Req, NEW tokens \in 1..Length, Admit(r, tokens)
  PROVE  Claimed'
<1> DEFINE s == [how |-> IF epoch[r] = 1 THEN "new" ELSE "resumed", tokens |-> tokens,
                 pages |-> Table(r, RoundUp(native[r] + External(r) + tokens)),
                 external |-> External(r)]
<1>1. /\ plans[r] # None /\ scheduled' = [scheduled EXCEPT ![r] = s]
      /\ UNCHANGED <<moves, plans>>
  BY DEF Admit
<1>2. s.external = External(r)
  OBVIOUS
<1> HIDE DEF s
<1>3. scheduled'[r] = s /\ \A q \in Req : q # r => scheduled'[q] = scheduled[q]
  BY <1>1 DEF SInv, TypeOK
<1>4. ASSUME moves = 0, External(r) > 0
      PROVE  plans[r].hits # {}
  <2>1. plans[r] \in PlanSet /\ plans[r].apc = native[r] /\ native[r] \in Nat
    BY <1>1, <1>4, RequestTypes DEF SInv, Known
  <2>2. plans[r].stop # plans[r].apc
    BY <1>4, <2>1, PlanType DEF External
  <2> QED BY <2>1, <2>2, EmptyClaimsNothing
<1> QED BY <1>1, <1>2, <1>3, <1>4 DEF Claimed, Step

LEMMA ClaimsKeep ==
  ASSUME SInv, Claimed, [Next]_vars
  PROVE  Claimed'
<1>1. CASE moves' # 0
  BY <1>1 DEF Claimed
<1>2. CASE moves' = 0 /\ UNCHANGED <<moves, scheduled>>
           /\ \A q \in Req : plans'[q] = plans[q] \/ q \notin Step
  BY <1>2 DEF Claimed, Step
<1>3. ASSUME NEW r \in Req, NEW n \in Natives, Apc(r, n)
      PROVE  moves' # 0
  <2>1. moves \in Nat
    BY BoundAssumption DEF SInv, TypeOK
  <2> QED BY <1>3, <2>1 DEF Apc
<1>4. ASSUME NEW r \in Req,
             \/ Preempt(r) \/ LookupDone(r) \/ LookupRaises(r) \/ Submit(r)
             \/ LoadNothing(r) \/ Load(r) \/ LoadFails(r)
      PROVE  UNCHANGED <<moves, scheduled, plans>>
  BY <1>4 DEF Preempt, LookupDone, LookupRaises, Submit, LoadNothing, Load, LoadFails,
              vllmVars, planVars
<1>5. ASSUME NEW r \in Req, Finish(r) \/ AskShort(r) \/ Poll(r)
      PROVE  /\ UNCHANGED <<moves, scheduled>>
             /\ \A q \in Req : plans'[q] = plans[q] \/ q \notin Step
  <2>1. UNCHANGED <<moves, scheduled>> /\ r \notin Step
    BY <1>5 DEF Finish, AskShort, Poll, Asks, Step, vllmVars, SInv, Stepping
  <2>2. \A q \in Req : q # r => plans'[q] = plans[q]
    BY <1>5 DEF Finish, AskShort, Poll, SInv, TypeOK
  <2> QED BY <2>1, <2>2
<1>6. ASSUME NEW r \in Req, NEW tokens \in 1..Length, Continue(r, tokens)
      PROVE  Claimed'
  <2> DEFINE fresh == [i \in 1..(RoundUp(computed[r] + tokens) - Len(blocks[r])) |->
                         <<r, Len(blocks[r]) + i - 1, epoch[r]>>]
             s == [how |-> "running", tokens |-> tokens, pages |-> fresh, external |-> 0]
  <2>1. UNCHANGED <<moves, plans>> /\ scheduled' = [scheduled EXCEPT ![r] = s]
    BY <1>6 DEF Continue, planVars
  <2>2. ~(s.external > 0)
    OBVIOUS
  <2> HIDE DEF s
  <2>3. scheduled'[r] = s /\ \A q \in Req : q # r => scheduled'[q] = scheduled[q]
    BY <2>1 DEF SInv, TypeOK
  <2> QED BY <2>1, <2>2, <2>3 DEF Claimed, Step
<1>7. CASE BuildMeta
  BY <1>7 DEF BuildMeta, Claimed, Step
<1>8. CASE Forward
  BY <1>8 DEF Forward, Claimed, Step
<1>9. CASE UNCHANGED vars
  BY <1>9 DEF vars, vllmVars, planVars, Claimed, Step
<1> QED
  BY <1>1, <1>2, <1>3, <1>4, <1>5, <1>6, <1>7, <1>8, <1>9, AdmitClaims DEF Next

\* What vLLM counts as external is loaded in the same step, and as long as no prefix
\* moves it comes of a lookup that found something (connector.py:585-621, 726-737,
\* 796-799, 845-866).
THEOREM ClaimsAreLoaded == Spec => []ClaimsLoaded
<1>1. Init => Claimed
  BY DEF Init, Claimed, Step
<1>2. SInv /\ Claimed /\ [Next]_vars => Claimed'
  BY ClaimsKeep
<1>3. SInv /\ Claimed => ClaimsLoaded
  BY DEF SInv, Handed, Claimed, ClaimsLoaded
<1> QED BY <1>1, <1>2, <1>3, InvariantHolds, PTL DEF Spec

\* A plan that is loaded before its request is preempted is pinned
\* (connector.py:226-262, 559-640).
THEOREM FirstLoadIsPinned == Spec => []FirstLoadPinned
<1>1. SInv => FirstLoadPinned
  <2> SUFFICES ASSUME SInv, mode = "work", NEW r \in toLoad, epoch[r] = 1, meta[r].plan.hits # {}
               PROVE  r \in pinned
    BY DEF FirstLoadPinned
  <2>1. r \in Req /\ plans[r] # None /\ meta[r].plan = plans[r]
    BY LoadPages
  <2> QED BY <2>1 DEF SInv, Known
<1> QED BY <1>1, InvariantHolds, PTL

\* As long as no prefix moves while its request waits, neither a side forward nor the
\* forward writes into pages of the prefix cache (ascend.py:386, connector.py:559-568).
THEOREM SharedIsStable == Spec => []SharedWhileStable
<1>1. SInv => SharedWhileStable
  BY DEF SInv, Filled, SharedWhileStable
<1> QED BY <1>1, InvariantHolds, PTL

\* As long as no prefix moves, every computed token has KV between steps, failed
\* loads included (connector.py:559-568, 587, 621).
THEOREM ComputedIsFilled == Spec => []ComputedFilled
<1>1. SInv => ComputedFilled
  <2> SUFFICES ASSUME SInv, mode = "schedule", moves = 0, NEW r \in Req,
                      status[r] = "running", scheduled[r] = None, NEW i \in 1..computed[r]
               PROVE  Usable(blocks[r][i])
    BY DEF ComputedFilled, Sound
  <2>1. errors = {} /\ toLoad = {} /\ r \notin loads
    BY DEF SInv, Stepping, Step
  <2> QED BY <2>1 DEF SInv, Filled
<1> QED BY <1>1, InvariantHolds, PTL

\* What is saved comes from pages that hold KV, until a load fails, the request is
\* preempted or a prefix moves (connector.py:758-770).
THEOREM SavesAreFilled == Spec => []SavedUntilFailure
<1>1. SInv => SavedUntilFailure
  BY DEF SInv
<1> QED BY <1>1, InvariantHolds, PTL

-----------------------------------------------------------------------------
(* The gather                                                              *)

LEMMA Division ==
  ASSUME NEW a \in Nat, NEW b \in Nat \ {0}
  PROVE  a \div b \in Nat /\ a % b \in 0..(b - 1) /\ a = b * (a \div b) + (a % b)
OBVIOUS

LEMMA DivisionIs ==
  ASSUME NEW b \in Nat \ {0}, NEW q \in Nat, NEW e \in 0..(b - 1)
  PROVE  (b * q + e) \div b = q /\ (b * q + e) % b = e
OBVIOUS

\* The elements of a finite set of numbers have the ranks 0, 1, ... each once.
LEMMA NthFacts ==
  ASSUME NEW S, S \subseteq Nat, IsFiniteSet(S)
  PROVE  /\ Cardinality(S) \in Nat
         /\ \A n \in 0..(Cardinality(S) - 1) : Nth(S, n) \in S
         /\ \A x \in S : Nth(S, Cardinality({y \in S : y < x})) = x
<1> DEFINE rank(x) == Cardinality({y \in S : y < x})
           T == 0..(Cardinality(S) - 1)
           f == [x \in S |-> rank(x)]
<1>1. Cardinality(S) \in Nat
  BY FS_CardinalityType
<1>2. ASSUME NEW x \in S
      PROVE  /\ IsFiniteSet({y \in S : y < x}) /\ rank(x) \in T
             /\ \A z \in S : x < z => rank(x) < rank(z)
  <2> DEFINE below(z) == {y \in S : y < z}
  <2>1. \A z : IsFiniteSet(below(z)) /\ Cardinality(below(z)) \in Nat
    <3> TAKE z
    <3>1. below(z) \in SUBSET S
      OBVIOUS
    <3>2. IsFiniteSet(below(z))
      BY <3>1, FS_Subset
    <3> HIDE DEF below
    <3> QED BY <3>2, FS_CardinalityType
  <2> DEFINE A == below(x) \cup {x}
  <2>2. x \notin below(x) /\ A \subseteq S
    <3>1. x \in Nat
      BY <1>2
    <3>2. ~(x < x)
      BY <3>1
    <3> QED BY <3>2
  <2>3. \A z \in S : x < z => A \subseteq below(z)
    <3> SUFFICES ASSUME NEW z \in S, x < z, NEW y \in A
                 PROVE  y \in S /\ y < z
      OBVIOUS
    <3>1. x \in Nat /\ y \in Nat /\ z \in Nat /\ y \in S
      BY <1>2
    <3>2. y < x \/ y = x
      OBVIOUS
    <3> QED BY <3>1, <3>2
  <2> HIDE DEF below
  <2>4. IsFiniteSet(A) /\ Cardinality(A) = Cardinality(below(x)) + 1
    BY <2>1, <2>2, FS_AddElement
  <2> HIDE DEF A
  <2>5. Cardinality(A) <= Cardinality(S)
    BY <2>2, FS_Subset
  <2>6. \A z \in S : x < z => Cardinality(A) <= Cardinality(below(z))
    BY <2>1, <2>3, FS_Subset
  <2>7. /\ IsFiniteSet(below(x)) /\ Cardinality(below(x)) \in T
        /\ \A z \in S : x < z => Cardinality(below(x)) < Cardinality(below(z))
    BY <1>1, <2>1, <2>4, <2>5, <2>6
  <2> QED BY <2>7 DEF below
<1> HIDE DEF rank
<1>3. \A x, z \in S : rank(x) = rank(z) => x = z
  <2> SUFFICES ASSUME NEW x \in S, NEW z \in S, rank(x) = rank(z)
               PROVE  x = z
    OBVIOUS
  <2>1. rank(x) \in Nat /\ x \in Nat /\ z \in Nat
    <3>1. T \subseteq Nat
      BY <1>1
    <3>2. rank(x) \in T
      BY <1>2
    <3> QED BY <3>1, <3>2
  <2>2. ~(rank(x) < rank(x))
    BY <2>1
  <2>3. ~(x < z) /\ ~(z < x)
    BY <1>2, <2>2
  <2> QED BY <2>1, <2>3
<1>4. f \in Injection(S, T)
  <2> HIDE DEF T
  <2>1. f \in [S -> T]
    BY <1>2
  <2>2. \A x, z \in S : f[x] = f[z] => x = z
    BY <1>3
  <2> HIDE DEF f
  <2> QED BY <2>1, <2>2 DEF Injection, IsInjective
<1>5. IsFiniteSet(T) /\ Cardinality(T) = Cardinality(S)
  <2>1. 0 \in Int /\ Cardinality(S) - 1 \in Int
    BY <1>1
  <2> QED BY <1>1, <2>1, FS_Interval
<1>6. f \in Surjection(S, T)
  <2> HIDE DEF f, T
  <2> QED BY <1>4, <1>5, FS_Injection
<1>7. \A n \in T : \E x \in S : rank(x) = n
  BY <1>6 DEF Surjection
<1>8. \A n : Nth(S, n) = CHOOSE x \in S : rank(x) = n
  BY DEF Nth, rank
<1>9. \A n \in T : Nth(S, n) \in S
  BY <1>7, <1>8
<1>10. \A x \in S : Nth(S, rank(x)) = x
  BY <1>3, <1>8
<1> QED BY <1>1, <1>9, <1>10 DEF rank

\* The places where blocks begin, when they begin every BlockSize places.
LEMMA StartsFacts ==
  ASSUME NEW m \in Nat, NEW S, S = {i \in 1..(BlockSize * m) : (i - 1) % BlockSize = 0}
  PROVE  /\ IsFiniteSet(S) /\ Cardinality(S) = m
         /\ \A n \in 0..(m - 1) : Nth(S, n) = BlockSize * n + 1
<1> DEFINE B == BlockSize
           Upto(n) == {i \in 1..(B * n) : (i - 1) % B = 0}
<1>1. B \in Nat \ {0}
  BY LengthAssumption
<1> HIDE DEF B
<1>2. ASSUME NEW n \in Nat
      PROVE  IsFiniteSet(Upto(n)) /\ Cardinality(Upto(n)) = n
  <2> DEFINE f == [k \in 0..(n - 1) |-> B * k + 1]
  <2>1. ASSUME NEW k \in 0..(n - 1)
        PROVE  B * k + 1 \in Upto(n)
    <3>1. k \in Nat /\ k + 1 <= n /\ B * k \in Nat
      BY <1>1
    <3>2. (B * k + 0) % B = 0
      BY <1>1, <3>1, DivisionIs
    <3>3. B * k + B <= B * n
      BY <1>1, <3>1
    <3> QED BY <1>1, <3>1, <3>2, <3>3
  <2>2. \A j, k \in 0..(n - 1) : B * j + 1 = B * k + 1 => j = k
    BY <1>1
  <2>3. ASSUME NEW i \in Upto(n)
        PROVE  \E k \in 0..(n - 1) : B * k + 1 = i
    <3> DEFINE k == (i - 1) \div B
    <3>1. i - 1 \in Nat /\ (i - 1) % B = 0 /\ i - 1 < B * n
      BY <1>1
    <3>2. k \in Nat /\ i - 1 = B * k
      BY <1>1, <3>1, Division
    <3> HIDE DEF k
    <3>3. k < n
      BY <1>1, <3>1, <3>2
    <3>4. k \in 0..(n - 1) /\ B * k + 1 = i
      BY <3>2, <3>3
    <3> QED BY <3>4
  <2> HIDE DEF Upto
  <2>4. f \in Bijection(0..(n - 1), Upto(n))
    BY <2>1, <2>2, <2>3 DEF Bijection, Injection, IsInjective, Surjection
  <2>5. IsFiniteSet(0..(n - 1)) /\ Cardinality(0..(n - 1)) = n
    <3>1. 0 \in Int /\ n - 1 \in Int
      OBVIOUS
    <3> QED BY <3>1, FS_Interval
  <2> QED BY <2>4, <2>5, FS_Bijection DEF ExistsBijection
<1>3. S = Upto(m)
  BY DEF B
<1>4. ASSUME NEW n \in 0..(m - 1)
      PROVE  B * n + 1 \in S /\ {y \in S : y < B * n + 1} = Upto(n)
  <2>1. n \in Nat /\ n + 1 <= m /\ B * n \in Nat /\ B * m \in Nat
    BY <1>1
  <2>2. B * n + B <= B * m
    BY <1>1, <2>1
  <2>3. (B * n + 0) % B = 0
    BY <1>1, <2>1, DivisionIs
  <2>4. B * n + 1 \in 1..(B * m) /\ (B * n + 1) - 1 = B * n + 0
    BY <1>1, <2>1, <2>2
  <2>5. B * n + 1 \in S
    BY <1>3, <2>3, <2>4
  <2>6. ASSUME NEW y
        PROVE  y \in S /\ y < B * n + 1 <=> y \in Upto(n)
    <3>1. y \in 1..(B * m) /\ y < B * n + 1 <=> y \in 1..(B * n)
      BY <1>1, <2>1, <2>2
    <3> QED BY <1>3, <3>1
  <2> QED BY <2>5, <2>6
<1>5. S \subseteq Nat
  BY <1>1, <1>3
<1> HIDE DEF Upto
<1>6. ASSUME NEW n \in 0..(m - 1)
      PROVE  Nth(S, n) = B * n + 1
  <2>1. Cardinality({y \in S : y < B * n + 1}) = n
    <3>1. n \in Nat
      OBVIOUS
    <3> QED BY <1>2, <1>4, <3>1
  <2>2. \A x \in S : Nth(S, Cardinality({y \in S : y < x})) = x
    BY <1>2, <1>3, <1>5, NthFacts
  <2> QED BY <1>4, <2>1, <2>2
<1> QED BY <1>2, <1>3, <1>6 DEF B


\* A list of slots that is m whole blocks, the slots of each one in order.
InBlocks(q, m, r, pos, own) ==
  /\ pos \in [1..(BlockSize * m) -> Nat]
  /\ q = [i \in 1..(BlockSize * m) |-> <<r, pos[i], own[i]>>]
  /\ \A i \in 1..(BlockSize * m) :
       /\ pos[i] % BlockSize = (i - 1) % BlockSize
       /\ pos[i] \div BlockSize = pos[BlockSize * ((i - 1) \div BlockSize) + 1] \div BlockSize
       /\ own[i] = own[BlockSize * ((i - 1) \div BlockSize) + 1]

\* Such a list is found again through the table of its blocks.
LEMMA GatherOfBlocks ==
  ASSUME NEW m \in Nat \ {0}, NEW q, NEW r, NEW own, NEW pos, InBlocks(q, m, r, pos, own)
  PROVE  Gathered(q) = q
<1> USE DEF InBlocks
<1> DEFINE B == BlockSize
           I == 1..(B * m)
           starts == {i \in DOMAIN q : i = 1 \/ OffsetOf(q[i]) = 0}
           first(i) == B * ((i - 1) \div B) + 1
<1>1. B \in Nat \ {0} /\ B * m \in Nat /\ 1 <= B * m /\ B * (m - 1) + B = B * m
  BY LengthAssumption
<1>2. /\ DOMAIN q = I /\ 1 \in I /\ Len(q) = B * m
      /\ \A i \in I : q[i] = <<r, pos[i], own[i]>> /\ pos[i] \in Nat
  <2>1. DOMAIN q = I
    OBVIOUS
  <2>2. \A i \in I : q[i] = <<r, pos[i], own[i]>> /\ pos[i] \in Nat
    OBVIOUS
  <2> HIDE DEF B
  <2>3. Len(q) = B * m
    BY <1>1 DEF B
  <2>4. 1 \in I
    BY <1>1
  <2> QED BY <2>1, <2>2, <2>3, <2>4
<1> HIDE DEF B
<1>3. \A i \in I : OffsetOf(q[i]) = (i - 1) % B
  BY <1>2 DEF OffsetOf, B
<1>4. OffsetOf(q[1]) = 0
  <2>1. 0 % B = 0
    BY <1>1
  <2> QED BY <1>2, <1>3, <2>1
<1>5. starts = {i \in 1..(BlockSize * m) : (i - 1) % BlockSize = 0}
  BY <1>2, <1>3, <1>4 DEF B
<1> HIDE DEF starts
<1>6. /\ Cardinality(starts) = m
      /\ \A n \in 0..(m - 1) : Nth(starts, n) = B * n + 1
  BY <1>5, StartsFacts DEF B
<1> DEFINE table == [n \in 1..m |-> BlockOf(q[Nth(starts, n - 1)])]
<1>7. TableOf(q) = table
  BY <1>6 DEF TableOf, starts
<1>8. Len(table) = m
  OBVIOUS
<1>9. ASSUME NEW i \in I
      PROVE  /\ ((i - 1) \div B) + 1 \in 1..m
             /\ table[((i - 1) \div B) + 1] = BlockOf(q[first(i)])
             /\ first(i) \in I
  <2> DEFINE n == (i - 1) \div B
  <2>1. i - 1 \in Nat /\ i - 1 < B * m
    BY <1>1
  <2>2. n \in Nat /\ (i - 1) % B \in 0..(B - 1) /\ i - 1 = B * n + ((i - 1) % B)
    BY <1>1, <2>1, Division
  <2>3. n < m
    BY <1>1, <2>1, <2>2
  <2>4. n \in 0..(m - 1) /\ n + 1 \in 1..m /\ (n + 1) - 1 = n
    BY <2>2, <2>3
  <2>5. B * n + 1 \in I
    BY <1>1, <2>1, <2>2
  <2> HIDE DEF n
  <2>6. table[n + 1] = BlockOf(q[B * n + 1])
    BY <1>6, <2>4
  <2> QED BY <2>4, <2>5, <2>6 DEF n
<1>10. ASSUME NEW i \in I
       PROVE  BlockOf(q[first(i)]) = <<r, pos[i] \div B, own[i]>>
  <2>1. q[first(i)] = <<r, pos[first(i)], own[first(i)]>>
    BY <1>2, <1>9
  <2> QED BY <2>1 DEF BlockOf, B
<1>11. (0 + Len(q) + B - 1) \div B = m
  <2>1. B - 1 \in 0..(B - 1) /\ 0 + Len(q) + B - 1 = B * m + (B - 1)
    BY <1>1, <1>2
  <2> QED BY <1>1, <2>1, DivisionIs
<1> DEFINE block(i) == table[((0 + i - 1) \div B) + 1]
<1>12. Gathered(q) = [i \in DOMAIN q |->
          <<block(i)[1], block(i)[2] * B + ((0 + i - 1) % B), block(i)[3]>>]
  <2> HIDE DEF table
  <2> QED BY <1>4, <1>7, <1>8, <1>11 DEF Gathered, B
<1>13. ASSUME NEW i \in I
       PROVE  <<block(i)[1], block(i)[2] * B + ((0 + i - 1) % B), block(i)[3]>> = q[i]
  <2>1. 0 + i - 1 = i - 1
    BY <1>1
  <2>2. block(i) = <<r, pos[i] \div B, own[i]>>
    BY <1>9, <1>10, <2>1
  <2>3. pos[i] \in Nat /\ pos[i] % B = (i - 1) % B
    BY <1>2 DEF B
  <2>4. pos[i] \div B \in Nat /\ pos[i] = B * (pos[i] \div B) + (pos[i] % B)
    BY <1>1, <2>3, Division
  <2>5. (pos[i] \div B) * B + ((0 + i - 1) % B) = pos[i]
    BY <1>1, <2>1, <2>3, <2>4
  <2>6. q[i] = <<r, pos[i], own[i]>>
    BY <1>2
  <2> HIDE DEF block
  <2>7. block(i)[1] = r /\ block(i)[2] = pos[i] \div B /\ block(i)[3] = own[i]
    BY <2>2
  <2> QED BY <2>5, <2>6, <2>7
<1> QED BY <1>2, <1>12, <1>13


LEMMA TimesTimes ==
  ASSUME NEW a \in Nat, NEW b \in Nat, NEW c \in Nat
  PROVE  (a * b) * c = a * (b * c) /\ a * (b + c) = a * b + a * c /\ a * b \in Nat
OBVIOUS

\* A whole number of blocks in each chunk: where a place among the slots of some
\* chunks lies in its chunk, and where its block begins.
LEMMA BlocksOfChunks ==
  ASSUME NEW d \in Nat \ {0}, Chunk = BlockSize * d, NEW i \in Nat, NEW c, c \in Nat
  PROVE  /\ BlockSize * (i \div BlockSize) \in Nat
         /\ (BlockSize * (i \div BlockSize)) \div Chunk = i \div Chunk
         /\ (Chunk * c + (i % Chunk)) % BlockSize = i % BlockSize
         /\ (Chunk * c + (i % Chunk)) \div BlockSize =
              (Chunk * c + ((BlockSize * (i \div BlockSize)) % Chunk)) \div BlockSize
<1> DEFINE B == BlockSize
           k == i \div Chunk
           e == i % Chunk
           e1 == e \div B
           e2 == e % B
<1>1. B \in Nat \ {0} /\ Chunk \in Nat \ {0} /\ Chunk = B * d
  BY LengthAssumption
<1>2. k \in Nat /\ e \in 0..(Chunk - 1) /\ e \in Nat /\ i = Chunk * k + e
  <2>1. k \in Nat /\ e \in 0..(Chunk - 1) /\ i = Chunk * k + e
    BY <1>1, Division
  <2> HIDE DEF k, e
  <2> QED BY <1>1, <2>1
<1> HIDE DEF B, k, e
<1>3. e1 \in Nat /\ e2 \in 0..(B - 1) /\ e = B * e1 + e2
  BY <1>1, <1>2, Division
<1> HIDE DEF e1, e2
<1>4. d * k + e1 \in Nat /\ d * c + e1 \in Nat /\ B * e1 \in Nat
  BY <1>1, <1>2, <1>3
<1>5. i = B * (d * k + e1) + e2 /\ Chunk * c + e = B * (d * c + e1) + e2
  <2>1. Chunk * k = B * (d * k) /\ Chunk * c = B * (d * c)
    <3>1. (B * d) * k = B * (d * k) /\ (B * d) * c = B * (d * c)
      BY <1>1, <1>2, TimesTimes
    <3> QED BY <1>1, <3>1
  <2>2. /\ B * (d * k + e1) = B * (d * k) + B * e1
        /\ B * (d * c + e1) = B * (d * c) + B * e1
    BY <1>1, <1>2, <1>3, TimesTimes
  <2>3. B * (d * k) \in Nat /\ B * (d * c) \in Nat /\ e2 \in Nat
    BY <1>1, <1>2, <1>3
  <2> QED BY <1>2, <1>3, <1>4, <2>1, <2>2, <2>3
<1>6. i \div B = d * k + e1 /\ i % B = e2
  BY <1>1, <1>3, <1>4, <1>5, DivisionIs
<1>7. (Chunk * c + e) \div B = d * c + e1 /\ (Chunk * c + e) % B = e2
  BY <1>1, <1>3, <1>4, <1>5, DivisionIs
<1>8. B * (d * k + e1) = Chunk * k + B * e1
  BY <1>1, <1>2, <1>3
<1>9. B * e1 \in 0..(Chunk - 1)
  BY <1>1, <1>2, <1>3, <1>4
<1>10. (B * (d * k + e1)) \div Chunk = k /\ (B * (d * k + e1)) % Chunk = B * e1
  <2> DEFINE z == B * e1
  <2>1. z \in 0..(Chunk - 1) /\ B * (d * k + e1) = Chunk * k + z
    BY <1>8, <1>9
  <2> HIDE DEF z
  <2>2. (Chunk * k + z) \div Chunk = k /\ (Chunk * k + z) % Chunk = z
    BY <1>1, <1>2, <2>1, DivisionIs
  <2> QED BY <2>1, <2>2 DEF z
<1>11. (Chunk * c + B * e1) \div B = d * c + e1
  <2>1. Chunk * c + B * e1 = B * (d * c + e1) + 0 /\ 0 \in 0..(B - 1)
    <3>1. Chunk * c = B * (d * c)
      BY <1>1, TimesTimes
    <3>2. B * (d * c + e1) = B * (d * c) + B * e1
      BY <1>1, <1>3, TimesTimes
    <3>3. B * (d * c + e1) \in Nat
      BY <1>1, <1>4
    <3> QED BY <1>1, <3>1, <3>2, <3>3
  <2> QED BY <1>1, <1>4, <2>1, DivisionIs
<1>12. B * (d * k + e1) \in Nat
  BY <1>1, <1>4
<1> QED BY <1>6, <1>7, <1>10, <1>11, <1>12 DEF B, k, e

\* The slots of the chunks to store are whole blocks of pages of their request.
LEMMA PendingPages ==
  ASSUME SInv, mode = "work", Chunk % BlockSize = 0, NEW r \in Step,
         NEW D \in SUBSET (0..(meta[r].saveEnd \div Chunk - 1)), D # {}
  PROVE  Gathered(PendingSlots(r, D)) = PendingSlots(r, D)
<1> DEFINE B == BlockSize
           K == Cardinality(D)
           I == 1..(Chunk * K)
           chunk(i) == Nth(D, (i - 1) \div Chunk)
           place(i) == Chunk * chunk(i) + ((i - 1) % Chunk)
           owner(p) == IF p < native[r] THEN 0 ELSE epoch[r]
           pos == [i \in I |-> place(i)]
           own == [i \in I |-> owner(place(i))]
           first(i) == B * ((i - 1) \div B) + 1
           limit == Lower(Length, Len(blocks[r]))
<1>1. r \in Req /\ mode # "schedule"
  BY DEF Step
<1>2. /\ Len(blocks[r]) \in Nat /\ native[r] \in Nat /\ native[r] % B = 0
      /\ limit \in Nat /\ limit <= Len(blocks[r])
  <2>1. TypeOK
    BY DEF SInv
  <2>2. Len(blocks[r]) \in Nat /\ native[r] \in Nat /\ native[r] \in Natives
    BY <1>1, <2>1, RequestTypes
  <2> QED BY <2>2, LengthAssumption DEF Natives, Lower
<1>3. /\ meta[r].slots = SubSeq(blocks[r], 1, limit)
      /\ meta[r].saveEnd \in Nat /\ meta[r].saveEnd <= limit
  <2>1. /\ meta[r].slots = SubSeq(blocks[r], 1, limit)
        /\ meta[r].saveEnd = SaveEnd(r, limit)
    BY <1>1 DEF SInv, Handed
  <2>2. computed[r] \in Nat /\ scheduled[r].tokens \in Nat
    <3>1. TypeOK
      BY DEF SInv
    <3> QED BY <1>1, <3>1, RequestTypes
  <2>3. SaveEnd(r, limit) = Lower(computed[r] + scheduled[r].tokens, limit)
    <3>1. Lower(Length, limit) = limit
      BY <1>2, LengthAssumption DEF Lower
    <3> QED BY <3>1 DEF SaveEnd
  <2> HIDE DEF limit
  <2> QED BY <1>2, <2>1, <2>2, <2>3 DEF Lower
<1>4. PICK d \in Nat \ {0} : Chunk = B * d
  <2>1. Chunk \in Nat \ {0} /\ B \in Nat \ {0}
    BY LengthAssumption
  <2>2. Chunk \div B \in Nat /\ Chunk = B * (Chunk \div B)
    BY <2>1, Division
  <2>3. Chunk \div B # 0
    BY <2>1, <2>2
  <2> QED BY <2>2, <2>3
<1>5. B \in Nat \ {0} /\ Chunk \in Nat \ {0} /\ Chunk = B * d
  BY <1>4, LengthAssumption
<1> HIDE DEF limit
<1>6. D \subseteq Nat /\ IsFiniteSet(D) /\ \A c \in D : Chunk * c + Chunk <= limit
  <2> DEFINE last == meta[r].saveEnd \div Chunk
  <2>1. last \in Nat /\ Chunk * last <= meta[r].saveEnd
    <3> DEFINE n == meta[r].saveEnd
    <3>1. n \in Nat
      BY <1>3
    <3> HIDE DEF n
    <3>2. n \div Chunk \in Nat /\ n % Chunk \in Nat /\ n = Chunk * (n \div Chunk) + (n % Chunk)
      <4>1. /\ n \div Chunk \in Nat /\ n % Chunk \in 0..(Chunk - 1)
            /\ n = Chunk * (n \div Chunk) + (n % Chunk)
        BY <1>5, <3>1, Division
      <4>2. 0..(Chunk - 1) \subseteq Nat
        BY <1>5
      <4> QED BY <4>1, <4>2
    <3>3. Chunk * (n \div Chunk) <= n
      BY <1>5, <3>1, <3>2
    <3> QED BY <3>2, <3>3 DEF n
  <2> HIDE DEF last
  <2>2. IsFiniteSet(0..(last - 1))
    <3>1. 0 \in Int /\ last - 1 \in Int
      BY <2>1
    <3> QED BY <3>1, FS_Interval
  <2>3. D \subseteq 0..(last - 1)
    BY DEF last
  <2>4. IsFiniteSet(D)
    BY <2>2, <2>3, FS_Subset
  <2>5. ASSUME NEW c \in D
        PROVE  c \in Nat /\ Chunk * c + Chunk <= limit
    <3>1. c \in Nat /\ c + 1 <= last
      BY <2>1, <2>3, <2>5
    <3>2. Chunk * c + Chunk <= Chunk * last
      BY <1>5, <2>1, <3>1
    <3>3. Chunk * c \in Nat /\ Chunk * last \in Nat
      BY <1>5, <2>1, <3>1
    <3> DEFINE x == Chunk * c
               y == Chunk * last
               z == meta[r].saveEnd
    <3>4. x \in Nat /\ y \in Nat /\ z \in Nat /\ x + Chunk <= y /\ y <= z /\ z <= limit
      BY <1>3, <2>1, <3>2, <3>3
    <3> HIDE DEF x, y, z
    <3>5. x + Chunk <= limit
      BY <1>2, <1>5, <3>4
    <3> QED BY <3>1, <3>5 DEF x
  <2> QED BY <2>4, <2>5
<1>7. K \in Nat \ {0} /\ \A n \in 0..(K - 1) : Nth(D, n) \in D
  <2>1. K \in Nat /\ K # 0
    BY <1>6, FS_CardinalityType, FS_EmptySet
  <2> QED BY <1>6, <2>1, NthFacts
<1> HIDE DEF K
<1>8. ASSUME NEW i \in I
      PROVE  /\ i - 1 \in Nat /\ chunk(i) \in D /\ chunk(i) \in Nat
             /\ (i - 1) % Chunk \in 0..(Chunk - 1)
             /\ place(i) \in Nat /\ place(i) + 1 \in 1..limit
  <2>1. i - 1 \in Nat /\ i - 1 < Chunk * K
    BY <1>5, <1>7
  <2>2. /\ (i - 1) \div Chunk \in Nat /\ (i - 1) % Chunk \in 0..(Chunk - 1)
        /\ i - 1 = Chunk * ((i - 1) \div Chunk) + ((i - 1) % Chunk)
    BY <1>5, <2>1, Division
  <2>3. (i - 1) \div Chunk < K
    BY <1>5, <1>7, <2>1, <2>2
  <2>4. chunk(i) \in D
    BY <1>7, <2>2, <2>3
  <2> DEFINE c == chunk(i)
             e == (i - 1) % Chunk
  <2>5. c \in Nat /\ Chunk * c + Chunk <= limit /\ Chunk * c \in Nat
    <3>1. c \in Nat /\ Chunk * c + Chunk <= limit
      BY <1>6, <2>4
    <3> HIDE DEF c
    <3> QED BY <1>5, <3>1
  <2>6. e \in 0..(Chunk - 1)
    BY <2>2
  <2> HIDE DEF c, e
  <2>7. Chunk * c + e \in Nat /\ (Chunk * c + e) + 1 \in 1..limit
    BY <1>2, <1>5, <2>5, <2>6
  <2> QED BY <2>1, <2>2, <2>4, <2>5, <2>7 DEF c, e
<1>9. ASSUME NEW i \in I
      PROVE  meta[r].slots[place(i) + 1] = <<r, pos[i], own[i]>>
  <2> DEFINE p == place(i)
  <2>1. p \in Nat /\ p + 1 \in 1..limit /\ pos[i] = p /\ own[i] = owner(p)
    BY <1>8
  <2> HIDE DEF p, pos, own
  <2>2. SubSeq(blocks[r], 1, limit)[p + 1] = blocks[r][p + 1]
    BY <1>2, <2>1
  <2>3. p + 1 \in 1..Len(blocks[r]) /\ (p + 1) - 1 = p /\ (p + 1 <= native[r] <=> p < native[r])
    BY <1>2, <2>1
  <2>4. blocks[r][p + 1] = <<r, (p + 1) - 1, IF p + 1 <= native[r] THEN 0 ELSE epoch[r]>>
    BY <1>1, <2>3 DEF SInv, Placed
  <2> QED BY <1>3, <2>1, <2>2, <2>3, <2>4 DEF p
<1> DEFINE m == d * K
<1>10. m \in Nat \ {0} /\ BlockSize * m = Chunk * K
  BY <1>4, <1>5, <1>7
<1>11. pos \in [I -> Nat]
  BY <1>8
<1>12. PendingSlots(r, D) = [i \in I |-> <<r, pos[i], own[i]>>]
  <2> HIDE DEF pos, own
  <2> QED BY <1>9 DEF PendingSlots, K
<1>13. ASSUME NEW i \in I
       PROVE  /\ pos[i] % B = (i - 1) % B
              /\ first(i) \in I
              /\ pos[i] \div B = pos[first(i)] \div B
              /\ own[i] = own[first(i)]
  <2> DEFINE j == first(i)
             c == chunk(i)
  <2>1. i - 1 \in Nat /\ c \in Nat
    BY <1>8
  <2> HIDE DEF c
  <2>2. /\ j - 1 \in Nat /\ j - 1 = B * ((i - 1) \div B)
        /\ (j - 1) \div Chunk = (i - 1) \div Chunk
        /\ (Chunk * c + ((i - 1) % Chunk)) % B = (i - 1) % B
        /\ (Chunk * c + ((i - 1) % Chunk)) \div B = (Chunk * c + ((j - 1) % Chunk)) \div B
    <3>1. B * ((i - 1) \div B) \in Nat
      BY <1>4, <2>1, BlocksOfChunks
    <3>2. j - 1 = B * ((i - 1) \div B)
      BY <3>1
    <3> QED BY <1>4, <2>1, <3>1, <3>2, BlocksOfChunks
  <2>3. j \in I
    <3>1. (i - 1) % B \in 0..(B - 1) /\ i - 1 = (j - 1) + ((i - 1) % B)
      BY <1>5, <2>1, <2>2, Division
    <3> HIDE DEF j
    <3>2. j - 1 <= i - 1
      BY <1>5, <2>1, <2>2, <3>1
    <3>3. Chunk * K \in Nat /\ i - 1 < Chunk * K /\ i - 1 \in Nat
      BY <1>5, <1>7, <2>1
    <3>4. j \in Int /\ (j - 1) + 1 = j
      BY <1>5, <2>1, Division DEF j
    <3> QED BY <2>2, <3>2, <3>3, <3>4
  <2>4. chunk(j) = c
    BY <2>2 DEF c
  <2>5. pos[i] = place(i) /\ pos[j] = place(j) /\ own[i] = owner(place(i)) /\ own[j] = owner(place(j))
    BY <2>3
  <2>6. place(i) % B = (i - 1) % B /\ place(i) \div B = place(j) \div B
    BY <2>2, <2>4 DEF c
  <2>7. place(i) \in Nat /\ place(j) \in Nat
    BY <1>8, <2>3
  <2>8. \A x, y \in Nat : x \div B = y \div B => (x < native[r] <=> y < native[r])
    <3> SUFFICES ASSUME NEW x \in Nat, NEW y \in Nat, x \div B = y \div B, x < native[r]
                 PROVE  y < native[r]
      OBVIOUS
    <3> DEFINE n == x \div B
               u == native[r] \div B
    <3>1. /\ n \in Nat /\ x % B \in 0..(B - 1) /\ x = B * n + (x % B)
          /\ y % B \in 0..(B - 1) /\ y = B * n + (y % B)
      BY <1>5, Division
    <3>2. u \in Nat /\ native[r] = B * u
      <4>1. native[r] \in Nat /\ native[r] % B = 0
        BY <1>2
      <4>2. u \in Nat /\ native[r] = B * u + 0
        BY <1>5, <4>1, Division
      <4>3. B * u + 0 = B * u
        BY <1>5, <4>2
      <4> QED BY <4>2, <4>3
    <3> HIDE DEF n, u
    <3>3. n < u
      BY <1>5, <3>1, <3>2
    <3>4. B * n + B <= B * u
      BY <1>5, <3>1, <3>2, <3>3
    <3> QED BY <1>5, <3>1, <3>2, <3>4
  <2>9. owner(place(i)) = owner(place(j))
    BY <2>6, <2>7, <2>8
  <2> HIDE DEF place, owner, pos, own
  <2> QED BY <2>3, <2>5, <2>6, <2>9
<1> HIDE DEF pos, own, m
<1>14. 1..(BlockSize * m) = I
  BY <1>10
<1> DEFINE q == PendingSlots(r, D)
<1>15. InBlocks(q, m, r, pos, own)
  BY <1>11, <1>12, <1>13, <1>14 DEF InBlocks
<1>16. m \in Nat \ {0}
  BY <1>10
<1> HIDE DEF q
<1>17. Gathered(q) = q
  BY <1>15, <1>16, GatherOfBlocks
<1> QED BY <1>17 DEF q

\* With whole blocks in a chunk, the gather through a table of blocks reads the slots
\* of the chunks to store, whatever chunks are stored already and wherever the table
\* goes over from the prefix cache's blocks to the request's own
\* (ascend.py:620-700, connector.py:317-328).
THEOREM GatherIsExact == Spec => []GatherExact
<1>1. SInv => GatherExact
  <2> SUFFICES ASSUME SInv, mode = "work", Chunk % BlockSize = 0, NEW r \in Step,
                      NEW D \in (SUBSET (0..(meta[r].saveEnd \div Chunk - 1))) \ {{}}
               PROVE  Gathered(PendingSlots(r, D)) = PendingSlots(r, D)
    BY DEF GatherExact
  <2>1. D \in SUBSET (0..(meta[r].saveEnd \div Chunk - 1)) /\ D # {}
    OBVIOUS
  <2> QED BY <2>1, PendingPages
<1> QED BY <1>1, InvariantHolds, PTL

=============================================================================
