---------------------------- MODULE TokenMatcher ----------------------------
(***************************************************************************)
(* The index of stored chunks and the search for them in a prompt          *)
(* (matcher.py, hashing.py), and the way from a search to a plan (ipc.py,  *)
(* lookup_and_prefetch; connector.py, _lookup_plan; types.py, BlendPlan).  *)
(*                                                                         *)
(* A record is a chunk of tokens with its scope and its place in the       *)
(* prompt it was saved from.  Its identity has the hash of the tokens, not *)
(* the tokens: two records can share it.  Every call of the matcher holds  *)
(* its lock, so each is one step.  A search changes nothing: what it finds *)
(* is a function of the indexes.                                           *)
(***************************************************************************)
EXTENDS Integers, Sequences, FiniteSets, SequencesExt

CONSTANTS
  Records,   \* what may be registered: [scope, start, tokens]
  Prompts,   \* prompts to search
  Chunk,     \* chunk_size
  Base,      \* POLY_BASE
  Modulus    \* two to the hash's number of bits

ASSUME NumberAssumption == {Chunk, Base, Modulus} \subseteq Nat \ {0}
ASSUME RecordAssumption ==
  IsFiniteSet(Records) /\ \A r \in Records : r.start \in Nat /\ r.tokens \in [1..Chunk -> Nat]
ASSUME PromptAssumption == \A p \in Prompts : p \in Seq(Nat) /\ p # <<>>

VARIABLES
  byId,      \* _by_id: the registered records
  buckets,   \* _by_scope_hash: a sequence of records for each key
  hashes     \* _scope_hashes, as keys

vars == <<byId, buckets, hashes>>

-----------------------------------------------------------------------------
(* hashing.py                                                              *)

TokenValue(token) == (token + 1) % Modulus

ContentHash(tokens) ==
  LET value[n \in 0..Len(tokens)] ==
        IF n = 0 THEN 0 ELSE (value[n - 1] * Base + TokenValue(tokens[n])) % Modulus
  IN value[Len(tokens)]

Window(tokens, s) == SubSeq(tokens, s + 1, s + Chunk)

\* The powers of the base.
Power[n \in 0..(Chunk - 1)] == IF n = 0 THEN 1 % Modulus ELSE (Power[n - 1] * Base) % Modulus

\* What weighs the tokens of a window.  Faulty variant: in the wrong order.
PowersAscending == [i \in 1..Chunk |-> Power[i - 1]]

WindowPowers == [i \in 1..Chunk |-> Power[Chunk - i]]

\* The hashes of all full windows of a sequence, by where they start.
RollingHashValues(tokens) ==
  [s \in 0..(Len(tokens) - Chunk) |->
     LET sum[i \in 0..Chunk] ==
           IF i = 0 THEN 0
           ELSE (sum[i - 1] + TokenValue(tokens[s + i]) * WindowPowers[i]) % Modulus
     IN sum[Chunk]]

-----------------------------------------------------------------------------
(* The indexes                                                             *)

Id(r)  == <<r.scope, ContentHash(r.tokens), r.start>>
Key(r) == <<r.scope, ContentHash(r.tokens)>>
Keys   == {Key(r) : r \in Records}

Init == byId = {} /\ buckets = [k \in Keys |-> <<>>] /\ hashes = {}

\* A bucket without the record of an identity.  Faulty variant: emptied of all that
\* share the hash.
WithoutHash(bucket, id) == SelectSeq(bucket, LAMBDA c : Key(c) # <<id[1], id[2]>>)

Without(bucket, id) ==
  LET kept[n \in 0..Len(bucket)] ==
        IF n = 0 THEN <<>>
        ELSE IF Id(bucket[n]) = id THEN kept[n - 1]
        ELSE Append(kept[n - 1], bucket[n])
  IN kept[Len(bucket)]

\* A record of the same identity is replaced.  Faulty variant: it stays.
RegisterBeside(r) ==
  /\ r \notin byId
  /\ byId' = byId \cup {r}
  /\ buckets' = [buckets EXCEPT ![Key(r)] = Append(@, r)]
  /\ hashes' = hashes \cup {Key(r)}

Register(r) ==
  /\ r \notin byId
  /\ byId' = {x \in byId : Id(x) # Id(r)} \cup {r}
  /\ buckets' = [buckets EXCEPT ![Key(r)] = Append(Without(@, Id(r)), r)]
  /\ hashes' = hashes \cup {Key(r)}

Unregister(r) ==
  /\ r \in byId
  /\ byId' = byId \ {r}
  /\ buckets' = [buckets EXCEPT ![Key(r)] = Without(@, Id(r))]
  /\ hashes' = IF buckets'[Key(r)] = <<>> THEN hashes \ {Key(r)} ELSE hashes

Next == \E r \in Records : Register(r) \/ Unregister(r)

Spec == Init /\ [][Next]_vars

-----------------------------------------------------------------------------
(* The search                                                              *)

Segment(r, at) == [record |-> r, at |-> at]

\* The places in a bucket of those that a window is a copy of.  Faulty variant: all.
SameHash(bucket, window) == DOMAIN bucket

Exact(bucket, window) == {i \in DOMAIN bucket : bucket[i].tokens = window}

\* Where the next match may start.  Faulty variant: right after the last start.
NextAfterStart(found, offset) == IF found = <<>> THEN offset ELSE Last(found).at + 1

NextAllowed(found, offset) == IF found = <<>> THEN offset ELSE Last(found).at + Chunk

\* What a visit of a window adds to the matches before it: its first exact copy.
Visit(found, bucket, window, s, offset) ==
  LET copies == Exact(bucket, window) IN
  IF s < NextAllowed(found, offset) \/ copies = {} THEN found
  ELSE Append(found, Segment(bucket[Min(copies)], s))

\* The windows with a known hash are visited from left to right: found[n] is what
\* has been found in the first n tokens of the suffix.
Match(scope, tokens, offset) ==
  LET suffix  == SubSeq(tokens, offset + 1, Len(tokens))
      rolling == RollingHashValues(suffix)
      KeyAt(s) == <<scope, rolling[s]>>
      found[n \in 0..Len(suffix)] ==
        IF n < Chunk THEN <<>>
        ELSE IF KeyAt(n - Chunk) \notin hashes THEN found[n - 1]
        ELSE Visit(found[n - 1], buckets[KeyAt(n - Chunk)], Window(suffix, n - Chunk),
                   offset + n - Chunk, offset)
  IN found[Len(suffix)]

-----------------------------------------------------------------------------
(* From a search to a plan                                                 *)

\* Only the suffix is sent, and the segments found in it are moved back.  Faulty
\* variant: they are not.
MovedNot(found, offset) == found

Moved(found, offset) ==
  [i \in DOMAIN found |-> Segment(found[i].record, found[i].at + offset)]

LookupMatch(scope, tokens, offset) ==
  Moved(Match(scope, SubSeq(tokens, offset + 1, Len(tokens)), 0), offset)

HitTokens(segments) == Chunk * Len(segments)

\* Sorted by where they start.
Ordered(S) ==
  CHOOSE q \in [1..Cardinality(S) -> S] :
    IsInjective(q) /\ \A i, j \in DOMAIN q : i < j => q[i].at <= q[j].at

\* BlendPlan.from_segments, of what the ranks have in common.  Faulty variant: the
\* span has the length of the hits.
PlanOfHits(apc, S) ==
  LET ordered == Ordered(S) IN
  [apc |-> apc, segments |-> ordered, hits |-> HitTokens(ordered),
   stop |-> apc + HitTokens(ordered)]

PlanOf(apc, S) ==
  LET ordered == Ordered(S) IN
  [apc |-> apc, segments |-> ordered, hits |-> HitTokens(ordered),
   stop |-> IF ordered = <<>> THEN apc ELSE Last(ordered).at + Chunk]

\* Sparse-Q has the trailing question in the span.
Extended(plan, prompt) ==
  IF plan.segments = <<>> THEN plan ELSE [plan EXCEPT !.stop = Len(prompt) - 1]

\* BlendPlan.__post_init__, which raises on anything else.
Accepted(plan) ==
  /\ plan.apc >= 0 /\ plan.stop >= plan.apc
  /\ \A i \in DOMAIN plan.segments :
       /\ plan.segments[i].at >=
            (IF i = 1 THEN plan.apc ELSE plan.segments[i - 1].at + Chunk)
       /\ plan.segments[i].at + Chunk <= plan.stop
  /\ HitTokens(plan.segments) = plan.hits

-----------------------------------------------------------------------------
Scopes == {r.scope : r \in Records}

\* What a prompt is searched for: all but its last token.
Searched(prompt) == SubSeq(prompt, 1, Len(prompt) - 1)

\* The three indexes have the same records: one for each identity, in its bucket
\* once; a hash is known as long as something has it, and replacing or dropping one
\* record of colliding ones leaves the others (matcher.py:53-78).
IndexesAgree ==
  /\ byId \subseteq Records /\ \A x, y \in byId : Id(x) = Id(y) => x = y
  /\ \A k \in Keys : /\ ToSet(buckets[k]) = {r \in byId : Key(r) = k}
                     /\ IsInjective(buckets[k])
  /\ hashes = {Key(r) : r \in byId}

\* ARCHITECTURE.md:87-88, for every prompt and offset, in terms of tokens alone: a
\* segment is a copy of its record and starts where no earlier one reaches, and
\* what is stored is missed only where it overlaps an earlier match.  Hashes, and
\* collisions of them, do not show (matcher.py:80-125, hashing.py:18-53), and sending
\* only the suffix after the native prefix finds the same at the same places
\* (ipc.py:219-236).
MatchGreedy ==
  \A scope \in Scopes, p \in Prompts : \A offset \in 0..Len(p) :
    LET found  == ToSet(Match(scope, p, offset))
        Free(s) == \A m \in found : m.at < s => m.at + Chunk <= s
    IN /\ LookupMatch(scope, p, offset) = Match(scope, p, offset)
       /\ \A s \in offset..(Len(p) - Chunk) :
            LET stored == {r \in byId : r.scope = scope /\ r.tokens = Window(p, s)}
                here   == {m \in found : m.at = s}
            IN /\ \A m \in here : m.record \in stored /\ Free(s)
               /\ stored # {} /\ Free(s) => here # {}

\* Whichever of the segments found all ranks have, the plan made of them is accepted
\* and does not reach the last token of the prompt, with and without the trailing
\* question (types.py:83-117, connector.py:639-673).
PlanAccepted ==
  \A scope \in Scopes, p \in Prompts : \A apc \in 0..(Len(p) - 1) :
    \A S \in SUBSET ToSet(LookupMatch(scope, Searched(p), apc)) :
      LET plan == PlanOf(apc, S) IN
      /\ Accepted(plan) /\ Accepted(Extended(plan, p))
      /\ {plan.stop, Extended(plan, p).stop} \subseteq apc..(Len(p) - 1)

=============================================================================
