---------------------------- MODULE SideForward ----------------------------
(***************************************************************************)
(* The Qwen3 side executor (ascend.py, run to _attention) on the ranks of  *)
(* one tensor-parallel group: which tokens each layer computes, what the   *)
(* layer's buffer then holds, and the collectives that the ranks meet in.  *)
(*                                                                         *)
(* Tokens are absolute positions, apc to stop - 1; the positions before    *)
(* are the native prefix.  A layer's buffer starts with the relocated      *)
(* cache, and zeros in the gaps; keys and values are the positions that    *)
(* were overwritten by what this forward computed.  Scores are left open:  *)
(* top-k may return any set of its size.  A collective is one step of all  *)
(* ranks, which have to have come to the same one.  With one rank the code *)
(* skips it, which is the same.  tp_global_selection is on, as by default. *)
(***************************************************************************)
EXTENDS Integers, Sequences, FiniteSets

CONSTANTS
  Ranks,       \* 0 to a number
  NumLayers,   \* decoder layers
  Plans,       \* plans to look at: [apc, stop, gaps]
  Configs,     \* configurations to look at: [strategy, checks, ratios, radius,
               \* tail, caching]: the check layers in their order, the recompute
               \* ratios in parts of Whole, overflow_blocks * block_size,
               \* tail_query_tokens and cache_attention_mask
  Whole,       \* what a ratio of one is
  None         \* nothing there

\* CacheBlendConfig.validate.
Valid(c) ==
  /\ c.strategy \in {"kv_deviation", "sparse_q", "compare"}
  /\ c.checks \in Seq(0..(NumLayers - 1)) \ {<<>>}
  /\ c.ratios \in Seq(0..Whole) /\ Len(c.ratios) \in {1, Len(c.checks)}
  /\ c.strategy # "kv_deviation" => Len(c.checks) = 1 /\ c.tail > 0
  /\ c.radius \in Nat /\ c.tail \in Nat /\ c.caching \in BOOLEAN

\* Gaps lie in the span, and something is cached.
Loadable(p) ==
  /\ p.apc \in Nat /\ p.stop \in Nat /\ p.apc < p.stop
  /\ p.gaps \subseteq p.apc..(p.stop - 1) /\ p.gaps # p.apc..(p.stop - 1)

ASSUME RanksAssumption  == IsFiniteSet(Ranks) /\ 0 \in Ranks
ASSUME NumberAssumption == NumLayers \in Nat \ {0} /\ Whole \in Nat \ {0}
ASSUME ConfigAssumption == \A c \in Configs : Valid(c)
ASSUME PlansAssumption  == \A p \in Plans : Loadable(p)

VARIABLES
  conf,     \* the configuration
  plan,     \* the request's plan
  pc,       \* where each rank is in a layer
  layer,    \* the layer each rank is in
  active,   \* the positions whose hidden states each rank has
  pruned,   \* important_indices is set
  mask,     \* attention_mask: the positions of its rows, or None
  by,       \* the selection under way: "kv_deviation" or "sparse_q"
  chosen,   \* the selection to prune with
  sent,     \* rank 0: the selection it broadcasts
  size,     \* the number of tokens each rank expects in the broadcast
  keys,     \* positions of each layer's buffer with a fresh key
  values    \* and with a fresh value

selectionVars == <<by, chosen, sent, size>>
bufferVars    == <<keys, values>>
vars == <<conf, plan, pc, layer, active, pruned, mask, selectionVars, bufferVars>>

-----------------------------------------------------------------------------
Layers == 0..(NumLayers - 1)
Span   == plan.apc..(plan.stop - 1)
Lower(a, b)  == IF a <= b THEN a ELSE b
Higher(a, b) == IF a >= b THEN a ELSE b

Check(l)  == \E i \in DOMAIN conf.checks : conf.checks[i] = l
Deviation == conf.strategy \in {"kv_deviation", "compare"}

\* A position's index among the active ones.
Index(A, p) == Cardinality({x \in A : x < p})

\* What Sparse-Q keeps whatever its score: the tail of a reused suffix, or what
\* is near a gap.  Faulty variant: only what follows a gap.
ForcedAfter(A) ==
  LET gaps == A \cap plan.gaps IN
  IF gaps = {} THEN {p \in A : Index(A, p) >= Cardinality(A) - conf.tail}
  ELSE {p \in A : \E g \in gaps : Index(A, p) - Index(A, g) \in 0..conf.radius}

Forced(A) ==
  LET gaps == A \cap plan.gaps IN
  IF gaps = {} THEN {p \in A : Index(A, p) >= Cardinality(A) - conf.tail}
  ELSE {p \in A : \E g \in gaps :
          Index(A, p) - Index(A, g) \in (-conf.radius)..conf.radius}

\* Kept before the scores are looked at.  Faulty variant: nothing is.
BaseNone(A, how) == {}

Base(A, how) ==
  (A \cap plan.gaps) \cup (IF how = "sparse_q" THEN Forced(A) ELSE {})

\* recompute_ratios for a check layer.
Ratio(l) ==
  LET first == CHOOSE i \in DOMAIN conf.checks :
                 conf.checks[i] = l /\ \A j \in 1..(i - 1) : conf.checks[j] # l
  IN conf.ratios[Lower(Len(conf.ratios), first)]

\* _select: tokens taken by score.  Faulty variant: at most the cached ones, forced
\* or not.
TopKOfCached(A, how, l) ==
  LET cached == Cardinality(A \ plan.gaps) IN
  IF cached = 0 THEN 0 ELSE Lower(Higher((cached * Ratio(l)) \div Whole, 1), cached)

TopK(A, how, l) ==
  LET cached    == Cardinality(A \ plan.gaps)
      available == Cardinality(A \ Base(A, how))
  IN IF cached = 0 \/ available = 0 THEN 0
     ELSE Lower(Higher((cached * Ratio(l)) \div Whole, 1), available)

\* selected_count.  Faulty variant: forced tokens are not counted.
CountGapsOnly(A, how, l) == Cardinality(A \cap plan.gaps) + TopK(A, how, l)

Count(A, how, l) == Cardinality(Base(A, how)) + TopK(A, how, l)

-----------------------------------------------------------------------------
Init ==
  /\ conf \in Configs /\ plan \in Plans
  /\ pc = [k \in Ranks |-> "embed"] /\ layer = [k \in Ranks |-> 0]
  /\ active = [k \in Ranks |-> Span] /\ pruned = [k \in Ranks |-> FALSE]
  /\ mask = [k \in Ranks |-> None]
  /\ by = [k \in Ranks |-> None] /\ chosen = [k \in Ranks |-> {}]
  /\ sent = {} /\ size = [k \in Ranks |-> 0]
  /\ keys = [k \in Ranks |-> [l \in Layers |-> {}]]
  /\ values = [k \in Ranks |-> [l \in Layers |-> {}]]

All(point) == \A k \in Ranks : pc[k] = point

\* The embedding is split by vocabulary: an all-reduce.
Embed ==
  /\ All("embed")
  /\ pc' = [k \in Ranks |-> "layer"]
  /\ UNCHANGED <<conf, plan, layer, active, pruned, mask, selectionVars, bufferVars>>

Write(k, A, B) ==
  /\ keys' = [keys EXCEPT ![k][layer[k]] = @ \cup A]
  /\ values' = [values EXCEPT ![k][layer[k]] = @ \cup B]

\* A layer that selects nothing computes all that is active.
Plain(k) ==
  /\ pc[k] = "layer" /\ ~Check(layer[k])
  /\ Write(k, active[k], active[k])
  /\ pc' = [pc EXCEPT ![k] = "attend"]
  /\ UNCHANGED <<conf, plan, layer, active, pruned, mask, selectionVars>>

\* A check layer has its local scores.  Faulty variant: only rank 0 reduces them.
ScoreOnRankZero(k) ==
  /\ pc[k] = "layer" /\ Check(layer[k])
  /\ by' = [by EXCEPT ![k] = IF Deviation THEN "kv_deviation" ELSE "sparse_q"]
  /\ IF Deviation THEN UNCHANGED bufferVars ELSE Write(k, active[k], {})
  /\ pc' = [pc EXCEPT ![k] = IF k = 0 THEN "score" ELSE "choose"]
  /\ UNCHANGED <<conf, plan, layer, active, pruned, mask, chosen, sent, size>>

\* Sparse-Q scores against fresh keys, which it writes into the buffer.
Score(k) ==
  /\ pc[k] = "layer" /\ Check(layer[k])
  /\ by' = [by EXCEPT ![k] = IF Deviation THEN "kv_deviation" ELSE "sparse_q"]
  /\ IF Deviation THEN UNCHANGED bufferVars ELSE Write(k, active[k], {})
  /\ pc' = [pc EXCEPT ![k] = "score"]
  /\ UNCHANGED <<conf, plan, layer, active, pruned, mask, chosen, sent, size>>

ReduceScores ==
  /\ All("score")
  /\ pc' = [k \in Ranks |-> "choose"]
  /\ UNCHANGED <<conf, plan, layer, active, pruned, mask, selectionVars, bufferVars>>

\* _select: rank 0 takes the best, the others make room for its answer.
Choose(k) ==
  /\ pc[k] = "choose"
  /\ LET A == active[k] IN
     /\ size' = [size EXCEPT ![k] = Count(A, by[k], layer[k])]
     /\ IF k = 0
        THEN \E T \in SUBSET (A \ Base(A, by[k])) :
               /\ Cardinality(T) = TopK(A, by[k], layer[k])
               /\ sent' = Base(A, by[k]) \cup T
        ELSE UNCHANGED sent
  /\ pc' = [pc EXCEPT ![k] = "cast"]
  /\ UNCHANGED <<conf, plan, layer, active, pruned, mask, by, chosen, bufferVars>>

\* Compare goes on to the Sparse-Q selection, on a copy of the keys, and drops
\* it.  Faulty variant: it scores in the buffer, as Sparse-Q does.
CompareInPlace ==
  /\ keys' = [k \in Ranks |-> [keys[k] EXCEPT ![layer[k]] = @ \cup active[k]]]
  /\ UNCHANGED values

CompareOnCopy == UNCHANGED bufferVars

CompareNext ==
  /\ All("cast") /\ conf.strategy = "compare" /\ by[0] = "kv_deviation"
  /\ chosen' = [k \in Ranks |-> sent]
  /\ by' = [k \in Ranks |-> "sparse_q"]
  /\ CompareOnCopy
  /\ pc' = [k \in Ranks |-> "score"]
  /\ UNCHANGED <<conf, plan, layer, active, pruned, mask, sent, size>>

\* The positions a selection among A stands for: it indexes the active tokens.
\* Faulty variant: it is taken to index the span.
RetainedOfSpan(A, S) == {plan.apc + Index(A, p) : p \in S}

Retained(A, S) == S

\* What pruning leaves of a cached attention mask.  Faulty variant: all of it.
MaskKept == mask
MaskReset == [k \in Ranks |-> None]

\* K deviation prunes before the check layer's attention ...
PruneBefore ==
  /\ All("cast") /\ Deviation /\ (conf.strategy = "compare" => by[0] = "sparse_q")
  /\ LET S == [k \in Ranks |->
                 Retained(active[k], IF conf.strategy = "compare" THEN chosen[k] ELSE sent)] IN
     /\ active' = S
     /\ keys' = [k \in Ranks |-> [keys[k] EXCEPT ![layer[k]] = @ \cup S[k]]]
     /\ values' = [k \in Ranks |-> [values[k] EXCEPT ![layer[k]] = @ \cup S[k]]]
  /\ pruned' = [k \in Ranks |-> TRUE] /\ mask' = MaskReset
  /\ pc' = [k \in Ranks |-> "attend"]
  /\ UNCHANGED <<conf, plan, layer, selectionVars>>

\* ... Sparse-Q after its MLP.
KeepSelection ==
  /\ All("cast") /\ conf.strategy = "sparse_q"
  /\ chosen' = [k \in Ranks |-> sent]
  /\ keys' = [k \in Ranks |-> [keys[k] EXCEPT ![layer[k]] = @ \cup active[k]]]
  /\ values' = [k \in Ranks |-> [values[k] EXCEPT ![layer[k]] = @ \cup active[k]]]
  /\ pc' = [k \in Ranks |-> "attend"]
  /\ UNCHANGED <<conf, plan, layer, active, pruned, mask, by, sent, size>>

\* _attention, and its output projection up to the all-reduce.
Attend(k) ==
  /\ pc[k] = "attend"
  /\ mask' = IF conf.caching /\ pruned[k] /\ mask[k] = None
             THEN [mask EXCEPT ![k] = active[k]] ELSE mask
  /\ pc' = [pc EXCEPT ![k] = "project"]
  /\ UNCHANGED <<conf, plan, layer, active, pruned, selectionVars, bufferVars>>

ReduceAttention ==
  /\ All("project")
  /\ pc' = [k \in Ranks |-> "mlp"]
  /\ UNCHANGED <<conf, plan, layer, active, pruned, mask, selectionVars, bufferVars>>

\* The MLP's all-reduce; then the layer is committed.
ReduceMlp ==
  /\ All("mlp")
  /\ IF Check(layer[0]) /\ conf.strategy = "sparse_q"
     THEN /\ active' = [k \in Ranks |-> Retained(active[k], chosen[k])]
          /\ pruned' = [k \in Ranks |-> TRUE] /\ mask' = MaskReset
     ELSE UNCHANGED <<active, pruned, mask>>
  /\ layer' = [k \in Ranks |-> layer[k] + 1]
  /\ pc' = [k \in Ranks |-> IF layer[k] + 1 \in Layers THEN "layer" ELSE "done"]
  /\ UNCHANGED <<conf, plan, selectionVars, bufferVars>>

Finished == All("done") /\ UNCHANGED vars

Collective ==
  \/ Embed \/ ReduceScores \/ CompareNext \/ PruneBefore \/ KeepSelection
  \/ ReduceAttention \/ ReduceMlp

Local(k) == Plain(k) \/ Score(k) \/ Choose(k) \/ Attend(k)

Next == Collective \/ (\E k \in Ranks : Local(k)) \/ Finished

\* Each rank runs on, and a collective returns when all ranks have come.
Fairness == WF_vars(Collective) /\ \A k \in Ranks : WF_vars(Local(k))

Spec == Init /\ [][Next]_vars /\ Fairness

-----------------------------------------------------------------------------
Waiting == {"embed", "score", "cast", "project", "mlp"}

TypeOK ==
  /\ conf \in Configs /\ plan \in Plans
  /\ pc \in [Ranks -> Waiting \cup {"layer", "choose", "attend", "done"}]
  /\ layer \in [Ranks -> 0..NumLayers]
  /\ active \in [Ranks -> SUBSET Span] /\ chosen \in [Ranks -> SUBSET Span]
  /\ pruned \in [Ranks -> BOOLEAN]
  /\ mask \in [Ranks -> (SUBSET Span) \cup {None}]
  /\ by \in [Ranks -> {"kv_deviation", "sparse_q", None}]
  /\ sent \subseteq Span /\ size \in [Ranks -> 0..Cardinality(Span)]
  /\ keys \in [Ranks -> [Layers -> SUBSET Span]]
  /\ values \in [Ranks -> [Layers -> SUBSET Span]]

Committed(k) == {l \in Layers : l < layer[k]}

\* ARCHITECTURE.md:98: "Every gap token is recomputed, regardless of the configured
\* recompute ratio", in every layer and on every rank, whatever the scores are and
\* however many check layers prune (ascend.py:456-460, 757-796).
GapsRecomputed ==
  \A k \in Ranks : \A l \in Committed(k) :
    plan.gaps \subseteq keys[k][l] \cap values[k][l]

\* README.md:113: with Sparse-Q "all gaps, adjacent overflow blocks, and the tail
\* fallback continue" to the later layers: nothing within the radius of a gap is
\* taken from the cache there, and without gaps the last tokens are not
\* (ascend.py:651-676, 695-709).
ForcedRecomputed ==
  conf.strategy = "sparse_q" => \A k \in Ranks : \A l \in Committed(k) :
    {p \in Span : \/ \E g \in plan.gaps : p \in (g - conf.radius)..(g + conf.radius)
                  \/ plan.gaps = {} /\ p >= plan.stop - conf.tail} \subseteq keys[k][l]

\* A layer is computed only for tokens that the layer before was computed for, and
\* all ranks computed the same: hidden states are of the same tokens everywhere
\* (ascend.py:571-580, 612-618).  A token's key and value are both computed or both
\* cached: comparing "cannot change model output" (ascend.py:568-570), and mixed
\* tokens would.
SameTokens ==
  \A k \in Ranks : \A l \in Committed(k) :
    /\ keys[k][l] = keys[0][l] /\ values[k][l] = keys[k][l]
    /\ l > 0 => keys[k][l] \subseteq keys[k][l - 1]

\* Ranks that wait in a collective wait in the same one, of the same size: rank 0
\* sends as many tokens as the others have room for (ascend.py:770-796).
CollectivesAgree ==
  /\ \A j, k \in Ranks : {pc[j], pc[k]} \subseteq Waiting =>
       /\ pc[j] = pc[k] /\ layer[j] = layer[k]
       /\ active[j] = active[k] /\ by[j] = by[k]
  /\ \A k \in Ranks : {pc[0], pc[k]} = {"cast"} => size[k] = Cardinality(sent)

\* A cached attention mask has the rows of the tokens that are computed now
\* (ascend.py:580, 618, 807-812).
MaskCurrent == \A k \in Ranks : mask[k] # None => mask[k] = active[k]

\* The side forward ends on all ranks.
SideForwardEnds == <>All("done")

=============================================================================
