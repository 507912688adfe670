------------------------------ MODULE TPLookup ------------------------------
(***************************************************************************)
(* Lookup and pinning across tensor-parallel ranks (ipc.py, and the lookup *)
(* pool of connector.py).                                                  *)
(*                                                                         *)
(* The scheduler runs lookups and cancellations one at a time, in order,   *)
(* on a pool with one thread.  A lookup asks rank First for a match, the   *)
(* other ranks to validate it, and all ranks to pin what is common; any    *)
(* rank that pins less undoes the whole.  Every rank answers on a          *)
(* single-threaded REP socket, over a store that changes meanwhile and     *)
(* keeps StoreContract.                                                    *)
(*                                                                         *)
(* A REQ socket that times out is closed and replaced.  What was sent on   *)
(* the closed one is lost or still served, with nobody to read the answer; *)
(* ZeroMQ orders messages within a connection only, so it may be served    *)
(* after messages of the new one.                                          *)
(*                                                                         *)
(* Outside: vLLM submits, polls, runs and finishes requests.  A request is *)
(* not finished while its side forward runs (vLLM's step is synchronous).  *)
(***************************************************************************)
EXTENDS PlanPins, Sequences, SequencesExt, FiniteSets, Integers

CONSTANTS
  Rank,         \* tensor-parallel ranks
  First,        \* rank 0, which matches
  Prompt,       \* the segments of each request's prompt, were all of them stored
  MaxTimeouts,  \* bound on RPC timeouts
  None          \* no request; no reply

ASSUME RankAssumption    == IsFiniteSet(Rank) /\ First \in Rank
ASSUME PromptAssumption  == Prompt \in [Req -> Plans]
ASSUME TimeoutAssumption == MaxTimeouts \in Nat
ASSUME NoneAssumption    == None \notin Req /\ None \notin Plans

VARIABLES
  queue,       \* jobs waiting in _lookup_pool: <<"lookup" or "cancel", request>>
  current,     \* the request the pool's thread works for, or None
  step,        \* what that thread waits for
  found,       \* the segments its lookup has so far
  marked,      \* _cancelled_lookup_ids
  phase,       \* each request's progress
  plan,        \* each request's plan: the future's result, then _plans
  wire,        \* messages sent to each rank and not yet served
  reply,       \* the answer that waits in each client's socket, or None
  visible,     \* each rank's store: discoverable segments
  pins,        \* each rank's store: <<request, segment, target>>
  blending,    \* ranks on which the request's side forward still runs
  reported,    \* ranks whose get_finished has seen the request
  timeouts     \* timeouts so far

schedulerVars == <<queue, marked, phase, plan>>
threadVars    == <<current, step, found, timeouts>>
storeVars     == <<visible, pins>>
workerVars    == <<blending, reported>>
vars == <<schedulerVars, threadVars, wire, reply, storeVars, workerVars>>

Store(k) == INSTANCE StoreContract WITH visible <- visible[k], pins <- pins[k]

NoPlan == [t \in {} |-> None]
Others == Rank \ {First}

Steps == {"idle", "match", "validate", "prefetch", "gate", "undo", "retract",
          "cancel"}
Phases == {"new", "waiting", "answered", "planned", "plain", "blending",
           "running", "finished"}

\* A message is live while its connection is: then its answer is received.
Messages == [op : {"MATCH", "VALIDATE", "PREFETCH", "CANCEL"}, req : Req,
             plan : Plans, live : BOOLEAN]

Message(op, r, p) == [op |-> op, req |-> r, plan |-> p, live |-> TRUE]

\* The ranks whose answers the thread waits for.
Asked == CASE step = "match"    -> {First}
           [] step = "validate" -> Others
           [] step \in {"prefetch", "undo", "retract", "cancel"} -> Rank
           [] OTHER             -> {}

AllAnswered == \A k \in Asked : reply[k] # None

\* _request_all: one message to every rank of K; their sockets are free.
Ask(K, m) ==
  /\ wire' = [k \in Rank |-> IF k \in K THEN wire[k] \cup {m} ELSE wire[k]]
  /\ reply' = [k \in Rank |-> IF k \in Asked \cup K THEN None ELSE reply[k]]

AskNobody ==
  /\ reply' = [k \in Rank |-> IF k \in Asked THEN None ELSE reply[k]]
  /\ UNCHANGED wire

\* The part of p that every answer contains.
Common(p) == [t \in {u \in DOMAIN p : \A k \in Asked : u \in DOMAIN reply[k]}
                |-> p[t]]

Init ==
  /\ queue = <<>> /\ current = None /\ step = "idle" /\ found = NoPlan
  /\ marked = {} /\ timeouts = 0
  /\ phase = [r \in Req |-> "new"] /\ plan = [r \in Req |-> NoPlan]
  /\ wire = [k \in Rank |-> {}] /\ reply = [k \in Rank |-> None]
  /\ visible = [k \in Rank |-> {}] /\ pins = [k \in Rank |-> {}]
  /\ blending = [r \in Req |-> {}] /\ reported = [r \in Req |-> {}]

-----------------------------------------------------------------------------
(* The scheduler                                                           *)

\* get_num_new_matched_tokens, first call: short prompts are not looked up.
Submit(r) ==
  /\ phase[r] = "new"
  /\ marked' = marked \ {r}
  /\ \/ /\ phase' = [phase EXCEPT ![r] = "waiting"]
        /\ queue' = Append(queue, <<"lookup", r>>)
     \/ /\ phase' = [phase EXCEPT ![r] = "plain"]
        /\ UNCHANGED queue
  /\ UNCHANGED <<plan, threadVars, wire, reply, storeVars, workerVars>>

\* get_num_new_matched_tokens, once the future is done.
Poll(r) ==
  /\ phase[r] = "answered"
  /\ marked' = marked \ {r}
  /\ phase' = [phase EXCEPT ![r] =
                 IF plan[r] = NoPlan THEN "plain" ELSE "planned"]
  /\ UNCHANGED <<queue, plan, threadVars, wire, reply, storeVars, workerVars>>

\* _cleanup_scheduler_request: a lookup that has not started is cancelled, one
\* that has is marked; a cancellation is queued behind it in any case.
\* Faulty variant: no cancellation.
FinishWithoutCancel(r) ==
  /\ phase[r] \in {"waiting", "answered", "planned", "plain", "running"}
  /\ queue' = RemoveFirst(queue, <<"lookup", r>>)
  /\ marked' = IF phase[r] \in {"waiting", "answered"}
                   /\ \A i \in 1..Len(queue) : queue[i] # <<"lookup", r>>
               THEN marked \cup {r} ELSE marked
  /\ phase' = [phase EXCEPT ![r] = "finished"]
  /\ plan' = [plan EXCEPT ![r] = NoPlan]
  /\ UNCHANGED <<threadVars, wire, reply, storeVars, workerVars>>

Finish(r) ==
  /\ phase[r] \in {"waiting", "answered", "planned", "plain", "running"}
  /\ queue' = Append(RemoveFirst(queue, <<"lookup", r>>),
                     <<"cancel", r>>)
  /\ marked' = IF phase[r] \in {"waiting", "answered"}
                   /\ \A i \in 1..Len(queue) : queue[i] # <<"lookup", r>>
               THEN marked \cup {r} ELSE marked
  /\ phase' = [phase EXCEPT ![r] = "finished"]
  /\ plan' = [plan EXCEPT ![r] = NoPlan]
  /\ UNCHANGED <<threadVars, wire, reply, storeVars, workerVars>>

-----------------------------------------------------------------------------
(* The pool's thread                                                       *)

Goto(s, p) == step' = s /\ found' = p

\* The future gets its result; nobody reads it if the request is finished.
Answer(p) ==
  /\ phase' = IF phase[current] = "waiting"
              THEN [phase EXCEPT ![current] = "answered"] ELSE phase
  /\ plan' = IF phase[current] = "waiting"
             THEN [plan EXCEPT ![current] = p] ELSE plan
  /\ Goto("idle", NoPlan)
  /\ current' = None

\* Faulty variant of Start: the thread takes a job while it has one.
StartBeforeIdle ==
  /\ queue # <<>>
  /\ LET r == Head(queue)[2] IN
     /\ current' = r
     /\ IF Head(queue)[1] = "lookup"
        THEN Ask({First}, Message("MATCH", r, NoPlan)) /\ Goto("match", NoPlan)
        ELSE Ask(Rank, Message("CANCEL", r, NoPlan)) /\ Goto("cancel", NoPlan)
  /\ queue' = Tail(queue)
  /\ UNCHANGED <<marked, phase, plan, timeouts, storeVars, workerVars>>

Start ==
  /\ step = "idle" /\ queue # <<>>
  /\ LET r == Head(queue)[2] IN
     /\ current' = r
     /\ IF Head(queue)[1] = "lookup"
        THEN Ask({First}, Message("MATCH", r, NoPlan)) /\ Goto("match", NoPlan)
        ELSE Ask(Rank, Message("CANCEL", r, NoPlan)) /\ Goto("cancel", NoPlan)
  /\ queue' = Tail(queue)
  /\ UNCHANGED <<marked, phase, plan, timeouts, storeVars, workerVars>>

\* lookup_and_prefetch, the candidates are there.
GotMatch ==
  /\ step = "match" /\ AllAnswered
  /\ LET candidates == reply[First] IN
     IF candidates = NoPlan
     THEN AskNobody /\ Goto("gate", NoPlan)
     ELSE /\ Ask(Others, Message("VALIDATE", current, candidates))
          /\ Goto("validate", candidates)
  /\ UNCHANGED <<current, timeouts, schedulerVars, storeVars, workerVars>>

GotValidate ==
  /\ step = "validate" /\ AllAnswered
  /\ IF Common(found) = NoPlan
     THEN AskNobody /\ Goto("gate", NoPlan)
     ELSE /\ Ask(Rank, Message("PREFETCH", current, Common(found)))
          /\ Goto("prefetch", Common(found))
  /\ UNCHANGED <<current, timeouts, schedulerVars, storeVars, workerVars>>

\* A rank that pinned less than the others undoes the pins of all.
\* Faulty variant: the answers are not compared.
GotPrefetchLenient ==
  /\ step = "prefetch" /\ AllAnswered
  /\ AskNobody /\ Goto("gate", found)
  /\ UNCHANGED <<current, timeouts, schedulerVars, storeVars, workerVars>>

GotPrefetch ==
  /\ step = "prefetch" /\ AllAnswered
  /\ IF Common(found) = found
     THEN AskNobody /\ Goto("gate", found)
     ELSE /\ Ask(Rank, Message("CANCEL", current, NoPlan))
          /\ Goto("undo", NoPlan)
  /\ UNCHANGED <<current, timeouts, schedulerVars, storeVars, workerVars>>

\* The pins of a partial match are released: the lookup returns no segments.
\* Faulty variant: it is tried again.
GotUndoAgain ==
  /\ step = "undo" /\ AllAnswered
  /\ Ask({First}, Message("MATCH", current, NoPlan)) /\ Goto("match", NoPlan)
  /\ UNCHANGED <<current, timeouts, schedulerVars, storeVars, workerVars>>

GotUndo ==
  /\ step = "undo" /\ AllAnswered
  /\ AskNobody /\ Goto("gate", NoPlan)
  /\ UNCHANGED <<current, timeouts, schedulerVars, storeVars, workerVars>>

\* _lookup_plan after the lookup: the marker first, then the cost gate.
Cancelled ==
  /\ step = "gate" /\ current \in marked
  /\ Answer(NoPlan)
  /\ UNCHANGED <<queue, marked, timeouts, wire, reply, storeVars, workerVars>>

Accept ==
  /\ step = "gate" /\ current \notin marked
  /\ Answer(found)
  /\ UNCHANGED <<queue, marked, timeouts, wire, reply, storeVars, workerVars>>

\* Faulty variant of Reject: the rejected plan's pins are kept.
RejectKeepingPins ==
  /\ step = "gate" /\ current \notin marked
  /\ Answer(NoPlan)
  /\ UNCHANGED <<queue, marked, timeouts, wire, reply, storeVars, workerVars>>

Reject ==
  /\ step = "gate" /\ current \notin marked
  /\ Ask(Rank, Message("CANCEL", current, NoPlan))
  /\ Goto("retract", NoPlan)
  /\ UNCHANGED <<current, timeouts, schedulerVars, storeVars, workerVars>>

\* The rejected or failed lookup's pins are released.
GotRetract ==
  /\ step = "retract" /\ AllAnswered
  /\ Answer(NoPlan) /\ AskNobody
  /\ UNCHANGED <<queue, marked, timeouts, storeVars, workerVars>>

\* _cancel_lookup
GotCancel ==
  /\ step = "cancel" /\ AllAnswered
  /\ AskNobody /\ Goto("idle", NoPlan)
  /\ current' = None /\ marked' = marked \ {current}
  /\ UNCHANGED <<queue, phase, plan, timeouts, storeVars, workerVars>>

\* The sockets of the group are replaced: in the ranks of `lost`, what was sent
\* on them is gone; elsewhere it is served later, without a reader.
Dropped(k, lost) ==
  {m \in wire[k] : k \notin Asked \/ ~m.live}
    \cup IF k \in lost THEN {}
         ELSE {[m EXCEPT !.live = FALSE] : m \in {n \in wire[k] : k \in Asked /\ n.live}}

ResetGroup(lost, K, m) ==
  /\ wire' = [k \in Rank |-> Dropped(k, lost) \cup IF k \in K THEN {m} ELSE {}]
  /\ reply' = [k \in Rank |-> IF k \in Asked THEN None ELSE reply[k]]

\* Faulty variant of Timeout: a PREFETCH without an answer is taken as done.
TimeoutTaken ==
  /\ step = "prefetch" /\ ~AllAnswered /\ timeouts < MaxTimeouts
  /\ timeouts' = timeouts + 1
  /\ \E lost \in SUBSET Asked : ResetGroup(lost, {}, None)
  /\ Goto("gate", found)
  /\ UNCHANGED <<current, schedulerVars, storeVars, workerVars>>

\* A receive times out.  Before PREFETCH the exception ends the lookup; a failed
\* PREFETCH is cancelled first; a failed CANCEL is only logged.
Timeout ==
  /\ ~AllAnswered /\ timeouts < MaxTimeouts
  /\ timeouts' = timeouts + 1
  /\ \E lost \in SUBSET Asked :
       LET cancel == Message("CANCEL", current, NoPlan) IN
       IF step = "prefetch" THEN ResetGroup(lost, Rank, cancel)
                            ELSE ResetGroup(lost, {}, cancel)
  /\ \/ /\ step \in {"match", "validate", "retract"}
        /\ Answer(NoPlan) /\ UNCHANGED marked
     \/ /\ step = "prefetch"
        /\ Goto("retract", NoPlan) /\ UNCHANGED <<current, phase, plan, marked>>
     \/ /\ step = "undo"
        /\ Goto("gate", NoPlan) /\ UNCHANGED <<current, phase, plan, marked>>
     \/ /\ step = "cancel"
        /\ Goto("idle", NoPlan) /\ current' = None
        /\ marked' = marked \ {current} /\ UNCHANGED <<phase, plan>>
  /\ UNCHANGED <<queue, storeVars, workerVars>>

-----------------------------------------------------------------------------
(* The ranks                                                               *)

SetPins(k, P) == pins' = [pins EXCEPT ![k] = P]

\* What PREFETCH pins.  Faulty variant: without validating again.
PrefetchedUnchecked(k, m) ==
  WithoutReq(pins[k], m.req) \cup PinsFor(m.req, m.plan, Seg)

Prefetched(k, m) ==
  WithoutReq(pins[k], m.req) \cup PinsFor(m.req, m.plan, visible[k])

\* _handle serves one message; only a live connection carries the answer.
\* match reads the index and validates later, so it may miss segments.
Serve(k, m) ==
  /\ m \in wire[k]
  /\ wire' = [wire EXCEPT ![k] = @ \ {m}]
  /\ \E result \in
       CASE m.op = "MATCH"  -> {Within(Prompt[m.req], S) : S \in SUBSET visible[k]}
         [] m.op = "CANCEL" -> {NoPlan}
         [] OTHER           -> {Within(m.plan, visible[k])} :
       reply' = IF m.live THEN [reply EXCEPT ![k] = result] ELSE reply
  /\ CASE m.op = "PREFETCH" -> SetPins(k, Prefetched(k, m))
       [] m.op = "CANCEL" -> SetPins(k, WithoutReq(pins[k], m.req))
       [] OTHER -> UNCHANGED pins
  /\ UNCHANGED <<visible, threadVars, schedulerVars, workerVars>>

\* The store of rank k changes under the lookups.
Publish(k, s) ==
  /\ s \notin visible[k]
  /\ visible' = [visible EXCEPT ![k] = @ \cup {s}]
  /\ UNCHANGED <<pins, wire, reply, threadVars, schedulerVars, workerVars>>

Evict(k, s) ==
  /\ s \in visible[k] \ PinnedBy(pins[k])
  /\ visible' = [visible EXCEPT ![k] = @ \ {s}]
  /\ UNCHANGED <<pins, wire, reply, threadVars, schedulerVars, workerVars>>

-----------------------------------------------------------------------------
(* The side forward on the workers (start_load_kv)                         *)

StartBlend(r) ==
  /\ phase[r] = "planned"
  /\ phase' = [phase EXCEPT ![r] = "blending"]
  /\ blending' = [blending EXCEPT ![r] = Rank]
  /\ UNCHANGED <<queue, marked, plan, threadVars, wire, reply, storeVars, reported>>

\* The finally block of start_load_kv on rank k, whatever the forward did.
EndBlend(r, k) ==
  /\ k \in blending[r]
  /\ blending' = [blending EXCEPT ![r] = @ \ {k}]
  /\ phase' = IF blending[r] = {k} THEN [phase EXCEPT ![r] = "running"] ELSE phase
  /\ SetPins(k, WithoutReq(pins[k], r))
  /\ UNCHANGED <<queue, marked, plan, threadVars, wire, reply, visible, reported>>

\* get_finished on rank k.
ReportFinished(r, k) ==
  /\ phase[r] = "finished" /\ k \notin reported[r]
  /\ reported' = [reported EXCEPT ![r] = @ \cup {k}]
  /\ SetPins(k, WithoutReq(pins[k], r))
  /\ UNCHANGED <<schedulerVars, threadVars, wire, reply, visible, blending>>

-----------------------------------------------------------------------------
Thread ==
  \/ Start \/ GotMatch \/ GotValidate \/ GotPrefetch \/ GotUndo
  \/ Cancelled \/ Accept \/ Reject \/ GotRetract \/ GotCancel

Server(k) == \E m \in wire[k] : Serve(k, m)

Next ==
  \/ \E r \in Req : Submit(r) \/ Poll(r) \/ Finish(r) \/ StartBlend(r)
  \/ Thread
  \/ Timeout
  \/ \E k \in Rank : Server(k)
  \/ \E k \in Rank, s \in Seg : Publish(k, s) \/ Evict(k, s)
  \/ \E r \in Req, k \in Rank : EndBlend(r, k) \/ ReportFinished(r, k)

\* The threads run on: the pool's, every rank's server and model runner.
Fairness ==
  /\ WF_vars(Thread)
  /\ \A k \in Rank : WF_vars(Server(k))
  /\ \A r \in Req, k \in Rank : WF_vars(EndBlend(r, k)) /\ WF_vars(ReportFinished(r, k))

Spec == Init /\ [][Next]_vars /\ Fairness

-----------------------------------------------------------------------------
TypeOK ==
  /\ queue \in Seq({"lookup", "cancel"} \X Req)
  /\ current \in Req \cup {None} /\ step \in Steps /\ found \in Plans
  /\ (current = None) = (step = "idle")
  /\ marked \subseteq Req /\ timeouts \in 0..MaxTimeouts
  /\ phase \in [Req -> Phases] /\ plan \in [Req -> Plans]
  /\ wire \in [Rank -> SUBSET Messages]
  /\ \A k \in Rank : Cardinality({m \in wire[k] : m.live}) <= 1
  /\ reply \in [Rank -> Plans \cup {None}]
  /\ visible \in [Rank -> SUBSET Seg]
  /\ pins \in [Rank -> SUBSET (Req \X Seg \X Target)]
  /\ blending \in [Req -> SUBSET Rank] /\ reported \in [Req -> SUBSET Rank]

\* The plan a request got is pinned on every rank, whole and readable, from the
\* end of the lookup to the end of that rank's side forward: a hit on some of
\* the ranks only is never used, and no late message, timeout or other request
\* takes a pin away (ipc.py:211-280, storage.py:4).
PlanPinned ==
  \A r \in Req, k \in Rank :
    phase[r] \in {"answered", "planned"} \/ k \in blending[r] =>
      /\ PinsFor(r, plan[r], Seg) \subseteq pins[k]
      /\ \A t \in DOMAIN plan[r] : plan[r][t] \in visible[k]

\* A cancellation of r that will still be made, or is on its way to rank k.
CancelAhead(r, k) ==
  \/ \E i \in 1..Len(queue) : queue[i] = <<"cancel", r>>
  \/ current = r /\ step \in {"cancel", "undo", "retract"} /\ reply[k] = None

\* Nothing stays pinned that nobody will use or release: a pin belongs to a
\* lookup under way, to a plan that waits for its side forward or runs it, or to
\* a cancellation ahead (connector.py:647-688, 884-906).
PinsHaveOwner ==
  \A r \in Req, k \in Rank :
    (\E p \in pins[k] : p[1] = r) =>
      \/ current = r /\ step \in {"prefetch", "gate"}
      \/ phase[r] \in {"answered", "planned"} \/ k \in blending[r]
      \/ CancelAhead(r, k)

\* What ARCHITECTURE.md:113-114 says: "Cancellation releases pins on every TP
\* rank, including the race where a lookup finishes after its request is
\* removed."  Once the pool is done with a finished request and every worker has
\* reported it, no rank has it pinned.  PinsHaveOwner implies it.
CancellationReleases ==
  \A r \in Req :
    /\ phase[r] = "finished" /\ reported[r] = Rank
    /\ current # r /\ \A i \in 1..Len(queue) : queue[i][2] # r
    => \A k \in Rank : \A p \in pins[k] : p[1] # r

\* Each rank's store is used, and changes, as its contract says.
RankContracts ==
  [][\A k \in Rank : [Store(k)!ContractNext]_(Store(k)!contractVars)]_storeVars

\* The pool's thread always gets to the end of a lookup, through timeouts and
\* undone matches: a request never waits for ever (connector.py:588-624).
LookupEnds == \A r \in Req : phase[r] = "waiting" ~> phase[r] # "waiting"

\* The pins of a finished request are released on every rank.
FinishedUnpins ==
  \A r \in Req : phase[r] = "finished" ~>
                   [](\A k \in Rank : \A p \in pins[k] : p[1] # r)

=============================================================================
