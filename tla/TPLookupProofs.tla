--------------------------- MODULE TPLookupProofs ---------------------------
(***************************************************************************)
(* Proofs about TPLookup, for any ranks, requests, prompts and number of   *)
(* timeouts: whatever is lost, late or evicted, a plan that a request got  *)
(* is pinned on every rank.                                                *)
(*                                                                         *)
(* IInv is inductive.  Its parts say whose turn it is in the pool (Turns), *)
(* what a request has as its plan (Results), that a live message is the    *)
(* one the thread waits for (Exchange), that a late message can only be    *)
(* for a request that will never have a plan (Late), and what is pinned    *)
(* at each point of a lookup (Held).                                       *)
(***************************************************************************)
EXTENDS TPLookup, SharedFacts

Job == {"lookup", "cancel"} \X Req

In(q, job) == \E i \in 1..Len(q) : q[i] = job

\* No lookup is queued twice.
Distinct(q) ==
  \A i, j \in 1..Len(q) : q[i] = q[j] /\ q[i][1] = "lookup" => i = j

Queued(op, r) == In(queue, <<op, r>>)

LookingUp(r) == current = r /\ step \notin {"idle", "cancel"}

Turns ==
  /\ Distinct(queue)
  /\ \A r \in Req :
       /\ Queued("lookup", r) => phase[r] = "waiting" /\ ~LookingUp(r)
       /\ Queued("cancel", r) => phase[r] = "finished"
       /\ current = r /\ step = "cancel" => phase[r] = "finished"
       /\ LookingUp(r) => phase[r] \in {"waiting", "finished"}

Results ==
  \A r \in Req :
    /\ phase[r] \in {"new", "waiting", "plain", "finished"} => plan[r] = NoPlan
    /\ blending[r] # {} => phase[r] = "blending"

\* What the thread sends in each step.
Op == CASE step = "match"    -> "MATCH"
        [] step = "validate" -> "VALIDATE"
        [] step = "prefetch" -> "PREFETCH"
        [] OTHER             -> "CANCEL"

Exchange ==
  /\ step \in {"match", "undo", "retract", "cancel"} => found = NoPlan
  /\ \A k \in Rank : \A m \in wire[k] : m.live =>
       m = Message(Op, current, found) /\ k \in Asked /\ reply[k] = None

\* r has no plan, and no lookup that could still give it one.
Spoiled(r) ==
  /\ plan[r] = NoPlan /\ phase[r] # "new" /\ ~Queued("lookup", r)
  /\ current = r => found = NoPlan /\ step \in {"undo", "gate", "retract", "cancel"}

Late ==
  \A k \in Rank : \A m \in wire[k] :
    ~m.live /\ m.op \in {"PREFETCH", "CANCEL"} => Spoiled(m.req)

\* Rank k has p pinned for r.
Has(k, r, p) == \A t \in DOMAIN p : <<r, p[t], t>> \in pins[k]

PlanHeld(k, r) ==
  phase[r] \in {"answered", "planned"} \/ k \in blending[r] => Has(k, r, plan[r])

LookupHeld(k, r) ==
  current = r /\ phase[r] = "waiting" =>
    /\ step = "gate" => Has(k, r, found)
    /\ step = "prefetch" /\ reply[k] # None =>
         \A t \in DOMAIN found \cap DOMAIN reply[k] : <<r, found[t], t>> \in pins[k]

Held ==
  /\ \A k \in Rank : \A p \in pins[k] : p[2] \in visible[k]
  /\ \A r \in Req, k \in Rank : PlanHeld(k, r) /\ LookupHeld(k, r)

IInv == TypeOK /\ Turns /\ Results /\ Exchange /\ Late /\ Held

\* Without timeouts, who will release a pin, told apart from who uses it.
Marked ==
  \A r \in Req :
    /\ r \in marked => Queued("cancel", r) \/ (current = r /\ step = "cancel")
    /\ LookingUp(r) /\ phase[r] = "finished" => Queued("cancel", r)

\* There is somebody to use or release what r has pinned on rank k.
Owner(r, k) ==
  \/ current = r /\ (step = "prefetch" \/ (step = "gate" /\ found # NoPlan))
  \/ phase[r] \in {"answered", "planned"} /\ plan[r] # NoPlan
  \/ k \in blending[r]
  \/ CancelAhead(r, k)

Owned ==
  \A r \in Req, k \in Rank : (\E p \in pins[k] : p[1] = r) => Owner(r, k)

NoneLate ==
  /\ timeouts = 0 /\ \A k \in Rank : \A m \in wire[k] : m.live
  /\ step \in {"validate", "prefetch"} => found # NoPlan

OInv == IInv /\ Marked /\ Owned /\ NoneLate

-----------------------------------------------------------------------------
(* The queue                                                               *)

\* What RemoveFirst leaves: the sequence as it is, or closed up over one place
\* that had the element.
LEMMA RemoveFirstShifts ==
  ASSUME NEW S, NEW q \in Seq(S), NEW e
  PROVE  \/ (\A i \in 1..Len(q) : q[i] # e) /\ RemoveFirst(q, e) = q
         \/ \E m \in 1..Len(q) :
              /\ q[m] = e /\ RemoveFirst(q, e) \in Seq(S)
              /\ Len(RemoveFirst(q, e)) = Len(q) - 1
              /\ \A i \in 1..(Len(q) - 1) :
                   RemoveFirst(q, e)[i] = IF i < m THEN q[i] ELSE q[i + 1]
<1>1. CASE \A i \in 1..Len(q) : q[i] # e
  BY <1>1 DEF RemoveFirst
<1>2. CASE \E i \in 1..Len(q) : q[i] = e
  <2> DEFINE I == {i \in 1..Len(q) : q[i] = e}
             n == Len(q)
  <2>1. n \in Nat /\ I \subseteq Nat /\ I # {}
    BY <1>2
  <2>2. PICK m \in I : \A i \in I : m <= i
    BY <2>1, LeastElement
  <2>3. SelectInSeq(q, LAMBDA v : v = e) \in I
    <3>1. SelectInSeq(q, LAMBDA v : v = e) = CHOOSE x \in I : \A y \in I : x <= y
      BY <2>1 DEF SelectInSeq, Min
    <3> QED BY <2>2, <3>1
  <2>4. PICK p \in I : RemoveFirst(q, e) = RemoveAt(q, p)
    BY <1>2, <2>3 DEF RemoveFirst
  <2>5. p \in 1..n /\ q[p] = e
    BY <2>4
  <2> QED BY <2>4, <2>5, RemoveAtShifts
<1> QED BY <1>1, <1>2

LEMMA RemoveJob ==
  ASSUME NEW q \in Seq(Job), Distinct(q), NEW r \in Req,
         NEW d, d = RemoveFirst(q, <<"lookup", r>>)
  PROVE  /\ d \in Seq(Job) /\ Distinct(d) /\ ~In(d, <<"lookup", r>>)
         /\ \A job \in Job : job # <<"lookup", r>> => (In(d, job) <=> In(q, job))
<1> DEFINE e == <<"lookup", r>>
           n == Len(q)
<1>1. n \in Nat /\ e[1] = "lookup"
  OBVIOUS
<1>2. CASE (\A i \in 1..n : q[i] # e) /\ RemoveFirst(q, e) = q
  BY <1>2 DEF In
<1>3. ASSUME NEW m \in 1..n, q[m] = e, RemoveFirst(q, e) \in Seq(Job),
             Len(RemoveFirst(q, e)) = n - 1,
             \A i \in 1..(n - 1) :
               RemoveFirst(q, e)[i] = IF i < m THEN q[i] ELSE q[i + 1]
      PROVE  /\ d \in Seq(Job) /\ Distinct(d) /\ ~In(d, e)
             /\ \A job \in Job : job # e => (In(d, job) <=> In(q, job))
  <2> DEFINE From(i) == IF i < m THEN i ELSE i + 1
  <2>1. /\ d \in Seq(Job) /\ Len(d) = n - 1
        /\ \A i \in 1..(n - 1) : From(i) \in 1..n /\ d[i] = q[From(i)] /\ From(i) # m
    <3>1. d \in Seq(Job) /\ Len(d) = n - 1
      BY <1>3
    <3>2. ASSUME NEW i \in 1..(n - 1)
          PROVE  From(i) \in 1..n /\ From(i) # m
      BY <1>1
    <3>3. ASSUME NEW i \in 1..(n - 1)
          PROVE  d[i] = q[From(i)]
      <4>1. d[i] = IF i < m THEN q[i] ELSE q[i + 1]
        BY <1>3
      <4> QED BY <4>1
    <3> QED BY <3>1, <3>2, <3>3
  <2>2. \A i, j \in 1..(n - 1) : From(i) = From(j) => i = j
    BY <1>1
  <2>3. ASSUME NEW i \in 1..n, i # m
        PROVE  \E j \in 1..(n - 1) : From(j) = i
    <3>1. CASE i < m
      <4>1. i \in 1..(n - 1) /\ From(i) = i
        BY <1>1, <3>1
      <4> QED BY <4>1
    <3>2. CASE ~(i < m)
      <4>1. i - 1 \in 1..(n - 1) /\ From(i - 1) = i
        BY <1>1, <2>3, <3>2
      <4> QED BY <4>1
    <3> QED BY <3>1, <3>2
  <2> HIDE DEF From, n, e
  <2>4. Distinct(d)
    <3> SUFFICES ASSUME NEW i \in 1..(n - 1), NEW j \in 1..(n - 1),
                        d[i] = d[j], d[i][1] = "lookup"
                 PROVE  i = j
      BY <2>1 DEF Distinct
    <3>1. q[From(i)] = q[From(j)] /\ q[From(i)][1] = "lookup"
      BY <2>1
    <3>2. From(i) = From(j)
      BY <2>1, <3>1 DEF Distinct, n
    <3> QED BY <2>2, <3>2
  <2>5. ~In(d, e)
    <3> SUFFICES ASSUME NEW i \in 1..Len(d), d[i] = e
                 PROVE  FALSE
      BY DEF In
    <3>1. q[From(i)] = q[m] /\ q[m][1] = "lookup"
      BY <1>1, <1>3, <2>1
    <3> QED BY <2>1, <3>1 DEF Distinct, n
  <2>6. ASSUME NEW job \in Job, job # e
        PROVE  In(d, job) <=> In(q, job)
    <3>1. In(d, job) => In(q, job)
      BY <2>1 DEF In, n
    <3>2. ASSUME NEW i \in 1..n, q[i] = job
          PROVE  In(d, job)
      <4>1. i # m
        BY <1>3, <2>6, <3>2
      <4>2. PICK j \in 1..(n - 1) : From(j) = i
        BY <2>3, <4>1
      <4> QED BY <2>1, <3>2, <4>2 DEF In
    <3> QED BY <3>1, <3>2 DEF In, n
  <2> QED BY <2>1, <2>4, <2>5, <2>6
<1> HIDE DEF e, n
<1>4. \/ (\A i \in 1..n : q[i] # e) /\ RemoveFirst(q, e) = q
      \/ \E m \in 1..n :
           /\ q[m] = e /\ RemoveFirst(q, e) \in Seq(Job)
           /\ Len(RemoveFirst(q, e)) = n - 1
           /\ \A i \in 1..(n - 1) :
                RemoveFirst(q, e)[i] = IF i < m THEN q[i] ELSE q[i + 1]
  BY RemoveFirstShifts DEF n
<1> QED BY <1>2, <1>3, <1>4 DEF e

LEMMA AppendJob ==
  ASSUME NEW q \in Seq(Job), NEW e \in Job
  PROVE  /\ Append(q, e) \in Seq(Job)
         /\ \A job \in Job : In(Append(q, e), job) <=> In(q, job) \/ job = e
         /\ Distinct(q) /\ (e[1] = "lookup" => ~In(q, e)) => Distinct(Append(q, e))
<1> DEFINE n == Len(q)
           a == Append(q, e)
<1>1. /\ n \in Nat /\ a \in Seq(Job) /\ Len(a) = n + 1
      /\ a[n + 1] = e /\ \A i \in 1..n : a[i] = q[i]
  BY AppendProperties
<1>2. 1..(n + 1) = 1..n \cup {n + 1} /\ n + 1 \notin 1..n
  BY <1>1
<1> HIDE DEF a, n
<1>3. \A job \in Job : In(a, job) <=> In(q, job) \/ job = e
  BY <1>1, <1>2 DEF In, n
<1>4. ASSUME Distinct(q), e[1] = "lookup" => ~In(q, e)
      PROVE  Distinct(a)
  <2> SUFFICES ASSUME NEW i \in 1..(n + 1), NEW j \in 1..(n + 1),
                      a[i] = a[j], a[i][1] = "lookup"
               PROVE  i = j
    BY <1>1 DEF Distinct
  <2>1. CASE i = n + 1 \/ j = n + 1
    BY <1>1, <1>2, <1>4, <2>1 DEF In, n
  <2>2. CASE i # n + 1 /\ j # n + 1
    <3>1. i \in 1..n /\ j \in 1..n
      BY <1>2, <2>2
    <3> QED BY <1>1, <1>4, <3>1 DEF Distinct, n
  <2> QED BY <2>1, <2>2
<1> QED BY <1>1, <1>3, <1>4 DEF a

LEMMA TailJob ==
  ASSUME NEW q \in Seq(Job), q # <<>>
  PROVE  /\ Head(q) \in Job /\ In(q, Head(q)) /\ Tail(q) \in Seq(Job)
         /\ \A job \in Job : In(q, job) <=> In(Tail(q), job) \/ job = Head(q)
         /\ Distinct(q) => /\ Distinct(Tail(q))
                           /\ Head(q)[1] = "lookup" => ~In(Tail(q), Head(q))
<1> DEFINE n == Len(q)
           t == Tail(q)
<1>1. /\ n \in Nat \ {0} /\ t \in Seq(Job) /\ Len(t) = n - 1
      /\ Head(q) = q[1] /\ Head(q) \in Job
      /\ \A i \in 1..(n - 1) : t[i] = q[i + 1]
  BY HeadTailProperties, EmptySeq, LenProperties
<1>2. /\ \A i \in 1..(n - 1) : i + 1 \in 1..n /\ i + 1 # 1
      /\ \A i \in 1..n : i = 1 \/ (i - 1 \in 1..(n - 1) /\ (i - 1) + 1 = i)
      /\ 1 \in 1..n
      /\ \A i, j \in 1..(n - 1) : i + 1 = j + 1 => i = j
  BY <1>1
<1> HIDE DEF t, n
<1>3. In(q, Head(q))
  BY <1>1, <1>2 DEF In, n
<1>4. ASSUME NEW job \in Job
      PROVE  In(q, job) <=> In(t, job) \/ job = Head(q)
  <2>1. In(t, job) => In(q, job)
    BY <1>1, <1>2 DEF In, n
  <2>2. ASSUME NEW i \in 1..n, q[i] = job, i # 1
        PROVE  In(t, job)
    <3>1. i - 1 \in 1..(n - 1) /\ (i - 1) + 1 = i
      BY <1>2, <2>2
    <3>2. t[i - 1] = job
      BY <1>1, <2>2, <3>1
    <3> QED BY <1>1, <3>1, <3>2 DEF In
  <2> QED BY <1>1, <1>3, <2>1, <2>2 DEF In, n
<1>5. ASSUME Distinct(q)
      PROVE  Distinct(t) /\ (Head(q)[1] = "lookup" => ~In(t, Head(q)))
  <2>1. Distinct(t)
    BY <1>1, <1>2, <1>5 DEF Distinct, n
  <2>2. ASSUME NEW i \in 1..(n - 1), t[i] = Head(q), Head(q)[1] = "lookup"
        PROVE  FALSE
    BY <1>1, <1>2, <1>5, <2>2 DEF Distinct, n
  <2> QED BY <1>1, <2>1, <2>2 DEF In
<1> QED BY <1>1, <1>3, <1>4, <1>5 DEF t

-----------------------------------------------------------------------------
(* Plans and messages                                                      *)

LEMMA PlanType ==
  ASSUME NEW p \in Plans
  PROVE  /\ DOMAIN p \subseteq Target /\ \A t \in DOMAIN p : p[t] \in Seg
         /\ \A S : /\ Within(p, S) \in Plans /\ DOMAIN Within(p, S) \subseteq DOMAIN p
                   /\ \A t \in DOMAIN p : t \in DOMAIN Within(p, S) <=> p[t] \in S
         /\ Common(p) \in Plans
         /\ Common(p) = p => \A k \in Asked : DOMAIN p \subseteq DOMAIN reply[k]
<1>1. PICK T \in SUBSET Target : p \in [T -> Seg]
  BY DEF Plans
<1>2. \A U \in SUBSET T : [t \in U |-> p[t]] \in Plans
  <2> SUFFICES ASSUME NEW U \in SUBSET T
               PROVE  [t \in U |-> p[t]] \in Plans
    OBVIOUS
  <2>1. [t \in U |-> p[t]] \in [U -> Seg] /\ U \in SUBSET Target
    BY <1>1
  <2> QED BY <2>1 DEF Plans
<1>3. ASSUME NEW S
      PROVE  /\ Within(p, S) \in Plans /\ DOMAIN Within(p, S) \subseteq DOMAIN p
             /\ \A t \in DOMAIN p : t \in DOMAIN Within(p, S) <=> p[t] \in S
  BY <1>1, <1>2 DEF Within
<1>4. Common(p) \in Plans
  BY <1>1, <1>2 DEF Common
<1>5. Common(p) = p => \A k \in Asked : DOMAIN p \subseteq DOMAIN reply[k]
  <2>1. DOMAIN Common(p) = {u \in DOMAIN p : \A k \in Asked : u \in DOMAIN reply[k]}
    BY DEF Common
  <2> QED BY <2>1
<1> QED BY <1>1, <1>3, <1>4, <1>5

LEMMA NoPlanType ==
  NoPlan \in Plans /\ DOMAIN NoPlan = {} /\ \A k, r : Has(k, r, NoPlan)
<1>1. NoPlan \in [{} -> Seg] /\ {} \in SUBSET Target
  BY DEF NoPlan
<1> QED BY <1>1 DEF Plans, NoPlan, Has

LEMMA MessageType ==
  ASSUME NEW op \in {"MATCH", "VALIDATE", "PREFETCH", "CANCEL"}, NEW r \in Req,
         NEW p \in Plans
  PROVE  /\ Message(op, r, p) \in Messages /\ Message(op, r, p).live
         /\ Message(op, r, p).op = op /\ Message(op, r, p).req = r
         /\ Message(op, r, p).plan = p
BY DEF Message, Messages

\* Once all have answered, nothing the thread could receive is on its way.
LEMMA NothingLive ==
  ASSUME Exchange, AllAnswered, NEW k \in Rank, NEW m \in wire[k]
  PROVE  ~m.live
BY DEF Exchange, AllAnswered

LEMMA AskStep ==
  ASSUME TypeOK, Exchange, AllAnswered, NEW K \in SUBSET Rank, NEW op, NEW r, NEW p,
         Ask(K, Message(op, r, p)), Asked' = K, Op' = op, current' = r, found' = p,
         step' \in {"match", "undo", "retract", "cancel"} => p = NoPlan
  PROVE  Exchange'
<1>1. ASSUME NEW k \in Rank, NEW m \in wire'[k], m.live
      PROVE  m = Message(op, r, p) /\ k \in K /\ reply'[k] = None
  <2>1. m \notin wire[k]
    BY <1>1, NothingLive
  <2>2. k \in K /\ m = Message(op, r, p)
    BY <2>1 DEF Ask, TypeOK
  <2> QED BY <2>2 DEF Ask, TypeOK
<1> QED BY <1>1 DEF Exchange, Message

LEMMA QuietStep ==
  ASSUME Exchange, AllAnswered, wire' = wire, found' = NoPlan \/ step' = "gate"
  PROVE  Exchange'
BY NothingLive DEF Exchange

LEMMA ExchangeStep == TypeOK /\ Exchange /\ [Next]_vars => Exchange'
<1> SUFFICES ASSUME TypeOK, Exchange, [Next]_vars
             PROVE  Exchange'
  OBVIOUS
<1>1. CASE UNCHANGED <<threadVars, wire, reply>>
  BY <1>1 DEF Exchange, threadVars, Asked, Op
<1>2. First \in Rank /\ Others \subseteq Rank
  BY RankAssumption DEF Others
<1>3. CASE Start
  <2>1. AllAnswered
    BY <1>3 DEF Start, AllAnswered, Asked
  <2>2. CASE Head(queue)[1] = "lookup"
    <3>1. /\ Ask({First}, Message("MATCH", Head(queue)[2], NoPlan))
          /\ step' = "match" /\ found' = NoPlan /\ current' = Head(queue)[2]
      BY <1>3, <2>2 DEF Start, Goto
    <3>2. Asked' = {First} /\ Op' = "MATCH"
      BY <3>1 DEF Asked, Op
    <3> QED BY <1>2, <2>1, <3>1, <3>2, AskStep
  <2>3. CASE Head(queue)[1] # "lookup"
    <3>1. /\ Ask(Rank, Message("CANCEL", Head(queue)[2], NoPlan))
          /\ step' = "cancel" /\ found' = NoPlan /\ current' = Head(queue)[2]
      BY <1>3, <2>3 DEF Start, Goto
    <3>2. Asked' = Rank /\ Op' = "CANCEL"
      BY <3>1 DEF Asked, Op
    <3> QED BY <1>2, <2>1, <3>1, <3>2, AskStep
  <2> QED BY <2>2, <2>3
<1>4. CASE GotMatch
  <2>1. CASE reply[First] = NoPlan
    BY <1>4, <2>1, QuietStep DEF GotMatch, AskNobody, Goto
  <2>2. CASE reply[First] # NoPlan
    <3>1. /\ Ask(Others, Message("VALIDATE", current, reply[First]))
          /\ step' = "validate" /\ found' = reply[First] /\ current' = current
      BY <1>4, <2>2 DEF GotMatch, Goto
    <3>2. Asked' = Others /\ Op' = "VALIDATE"
      BY <3>1 DEF Asked, Op, Others
    <3>3. AllAnswered
      BY <1>4 DEF GotMatch
    <3> QED BY <1>2, <3>1, <3>2, <3>3, AskStep
  <2> QED BY <2>1, <2>2
<1>5. CASE GotValidate
  <2>1. CASE Common(found) = NoPlan
    BY <1>5, <2>1, QuietStep DEF GotValidate, AskNobody, Goto
  <2>2. CASE Common(found) # NoPlan
    <3>1. /\ Ask(Rank, Message("PREFETCH", current, Common(found)))
          /\ step' = "prefetch" /\ found' = Common(found) /\ current' = current
      BY <1>5, <2>2 DEF GotValidate, Goto
    <3>2. Asked' = Rank /\ Op' = "PREFETCH"
      BY <3>1 DEF Asked, Op
    <3>3. AllAnswered
      BY <1>5 DEF GotValidate
    <3> QED BY <1>2, <3>1, <3>2, <3>3, AskStep
  <2> QED BY <2>1, <2>2
<1>6. CASE GotPrefetch
  <2>1. CASE Common(found) = found
    BY <1>6, <2>1, QuietStep DEF GotPrefetch, AskNobody, Goto
  <2>2. CASE Common(found) # found
    <3>1. /\ Ask(Rank, Message("CANCEL", current, NoPlan))
          /\ step' = "undo" /\ found' = NoPlan /\ current' = current
      BY <1>6, <2>2 DEF GotPrefetch, Goto
    <3>2. Asked' = Rank /\ Op' = "CANCEL"
      BY <3>1 DEF Asked, Op
    <3>3. AllAnswered
      BY <1>6 DEF GotPrefetch
    <3> QED BY <1>2, <3>1, <3>2, <3>3, AskStep
  <2> QED BY <2>1, <2>2
<1>7. CASE GotUndo
  BY <1>7, QuietStep DEF GotUndo, AskNobody, Goto
<1>8. CASE Cancelled \/ Accept
  <2>1. AllAnswered
    BY <1>8 DEF Cancelled, Accept, AllAnswered, Asked
  <2> QED BY <1>8, <2>1, QuietStep DEF Cancelled, Accept, Answer, Goto
<1>9. CASE Reject
  <2>1. AllAnswered
    BY <1>9 DEF Reject, AllAnswered, Asked
  <2>2. /\ Ask(Rank, Message("CANCEL", current, NoPlan))
        /\ step' = "retract" /\ found' = NoPlan /\ current' = current
    BY <1>9 DEF Reject, Goto
  <2>3. Asked' = Rank /\ Op' = "CANCEL"
    BY <2>2 DEF Asked, Op
  <2> QED BY <2>1, <2>2, <2>3, AskStep
<1>10. CASE GotRetract
  BY <1>10, QuietStep DEF GotRetract, AskNobody, Answer, Goto
<1>11. CASE GotCancel
  BY <1>11, QuietStep DEF GotCancel, AskNobody, Goto
<1>12. CASE Timeout
  <2> DEFINE cancel == Message("CANCEL", current, NoPlan)
  <2>1. PICK lost \in SUBSET Asked :
          IF step = "prefetch" THEN ResetGroup(lost, Rank, cancel)
                               ELSE ResetGroup(lost, {}, cancel)
    BY <1>12 DEF Timeout
  <2>2. found' = NoPlan
    BY <1>12 DEF Timeout, Answer, Goto
  <2>3. ASSUME NEW k \in Rank, NEW m \in Dropped(k, lost)
        PROVE  ~m.live
    <3>1. CASE m \in wire[k] /\ (k \notin Asked \/ ~m.live)
      BY <3>1 DEF Exchange
    <3>2. CASE ~(m \in wire[k] /\ (k \notin Asked \/ ~m.live))
      <4>1. PICK n \in wire[k] : m = [n EXCEPT !.live = FALSE]
        BY <2>3, <3>2 DEF Dropped
      <4>2. n \in Messages
        BY DEF TypeOK
      <4> QED BY <4>1, <4>2 DEF Messages
    <3> QED BY <3>1, <3>2
  <2>4. CASE step = "prefetch"
    <3>1. step' = "retract" /\ current' = current
      BY <1>12, <2>4 DEF Timeout, Goto
    <3>2. Asked' = Rank /\ Op' = "CANCEL" /\ Asked = Rank
      BY <2>4, <3>1 DEF Asked, Op
    <3>3. \A k \in Rank : wire'[k] = Dropped(k, lost) \cup {cancel} /\ reply'[k] = None
      BY <2>1, <2>4, <3>2 DEF ResetGroup
    <3>4. cancel = Message(Op', current', found')
      BY <2>2, <3>1, <3>2
    <3> HIDE DEF cancel
    <3>5. \A k \in Rank : \A m \in wire'[k] : m.live => m = cancel
      BY <2>3, <3>3
    <3> QED BY <2>2, <3>2, <3>3, <3>4, <3>5 DEF Exchange, Message
  <2>5. CASE step # "prefetch"
    <3>1. \A k \in Rank : wire'[k] = Dropped(k, lost)
      BY <2>1, <2>5 DEF ResetGroup
    <3> QED BY <2>2, <2>3, <3>1 DEF Exchange
  <2> QED BY <2>4, <2>5
<1>13. ASSUME NEW k \in Rank, NEW m \in wire[k], Serve(k, m)
       PROVE  Exchange'
  <2>1. /\ wire' = [wire EXCEPT ![k] = wire[k] \ {m}] /\ UNCHANGED threadVars
        /\ \A j \in Rank : reply'[j] = reply[j] \/ (j = k /\ m.live)
    BY <1>13 DEF Serve, TypeOK
  <2>2. Asked' = Asked /\ Op' = Op /\ current' = current /\ found' = found
    BY <2>1 DEF Asked, Op, threadVars
  <2>3. \A j \in Rank : wire'[j] \subseteq wire[j] /\ (j = k => m \notin wire'[j])
    BY <2>1 DEF TypeOK
  <2>4. ASSUME NEW j \in Rank, NEW n \in wire'[j], n.live
        PROVE  n = Message(Op, current, found) /\ j \in Asked /\ reply'[j] = None
    <3>1. n = Message(Op, current, found) /\ j \in Asked /\ reply[j] = None
      BY <2>3, <2>4 DEF Exchange
    <3>2. ~(j = k /\ m.live)
      BY <2>3, <2>4, <3>1 DEF Exchange
    <3> QED BY <2>1, <3>1, <3>2
  <2> QED BY <2>1, <2>2, <2>4 DEF Exchange, Message, threadVars
<1> QED
  BY <1>1, <1>3, <1>4, <1>5, <1>6, <1>7, <1>8, <1>9, <1>10, <1>11, <1>12, <1>13
  DEF Next, Thread, Server, Submit, Poll, Finish, StartBlend, EndBlend, ReportFinished,
      Publish, Evict, vars

-----------------------------------------------------------------------------
(* Types                                                                   *)

\* At most one live message waits for a rank.
LEMMA OneLive ==
  ASSUME Exchange, NEW k \in Rank
  PROVE  Cardinality({m \in wire[k] : m.live}) <= 1
<1> DEFINE L == {m \in wire[k] : m.live}
<1>1. L \subseteq {Message(Op, current, found)}
  BY DEF Exchange
<1>2. /\ IsFiniteSet({Message(Op, current, found)})
      /\ Cardinality({Message(Op, current, found)}) = 1
  BY FS_Singleton
<1>3. Cardinality(L) <= 1
  BY <1>1, <1>2, FS_Subset
<1> QED BY <1>3

\* The types of the variables, without what Exchange says more exactly.
Types ==
  /\ queue \in Seq(Job) /\ marked \subseteq Req /\ timeouts \in 0..MaxTimeouts
  /\ current \in Req \cup {None} /\ step \in Steps /\ found \in Plans
  /\ (current = None) = (step = "idle")
  /\ phase \in [Req -> Phases] /\ plan \in [Req -> Plans]
  /\ wire \in [Rank -> SUBSET Messages] /\ reply \in [Rank -> Plans \cup {None}]
  /\ visible \in [Rank -> SUBSET Seg]
  /\ pins \in [Rank -> SUBSET (Req \X Seg \X Target)]
  /\ blending \in [Req -> SUBSET Rank] /\ reported \in [Req -> SUBSET Rank]

LEMMA TypesSuffice == TypeOK /\ Exchange <=> Types /\ Exchange
BY OneLive DEF TypeOK, Types, Job

LEMMA AskType ==
  ASSUME Types, NEW K, NEW m \in Messages, Ask(K, m)
  PROVE  wire' \in [Rank -> SUBSET Messages] /\ reply' \in [Rank -> Plans \cup {None}]
<1>1. reply' \in [Rank -> Plans \cup {None}]
  BY DEF Ask, Types
<1>2. wire' \in [Rank -> SUBSET Messages]
  BY DEF Ask, Types
<1> QED BY <1>1, <1>2

LEMMA AskNobodyType ==
  ASSUME Types, AskNobody
  PROVE  wire' \in [Rank -> SUBSET Messages] /\ reply' \in [Rank -> Plans \cup {None}]
BY DEF AskNobody, Types

LEMMA AnswerType ==
  ASSUME Types, NEW p \in Plans, Answer(p)
  PROVE  /\ phase' \in [Req -> Phases] /\ plan' \in [Req -> Plans]
         /\ current' = None /\ step' = "idle" /\ found' \in Plans
BY NoPlanType DEF Answer, Goto, Types, Phases

LEMMA PinTypes ==
  ASSUME Types, NEW k \in Rank, NEW P \in SUBSET (Req \X Seg \X Target), SetPins(k, P)
  PROVE  pins' \in [Rank -> SUBSET (Req \X Seg \X Target)]
BY DEF Types, SetPins

LEMMA PinSets ==
  ASSUME Types, NEW k \in Rank, NEW r \in Req, NEW p, NEW S
  PROVE  /\ WithoutReq(pins[k], r) \in SUBSET (Req \X Seg \X Target)
         /\ PinsFor(r, p, S) \in SUBSET (Req \X Seg \X Target)
<1>1. pins[k] \in SUBSET (Req \X Seg \X Target)
  BY DEF Types
<1> QED BY <1>1 DEF WithoutReq, PinsFor

LEMMA TypesStep == Types /\ Exchange /\ [Next]_vars => Types'
<1> SUFFICES ASSUME Types, Exchange, [Next]_vars
             PROVE  Types'
  OBVIOUS
<1>1. /\ First \in Rank /\ Others \subseteq Rank /\ None \notin Req
      /\ NoPlan \in Plans /\ MaxTimeouts \in Nat
  BY RankAssumption, NoneAssumption, NoPlanType, TimeoutAssumption DEF Others
<1>2. /\ \A r \in Req : <<"lookup", r>> \in Job /\ <<"cancel", r>> \in Job
      /\ \A job \in Job : job[2] \in Req
  BY DEF Job
<1>3. ASSUME NEW r \in Req, Submit(r)
      PROVE  Types'
  <2>1. queue' \in Seq(Job)
    <3>1. Append(queue, <<"lookup", r>>) \in Seq(Job)
      BY <1>2, AppendJob DEF Types
    <3> QED BY <1>3, <3>1 DEF Submit, Types
  <2> QED
    BY <1>3, <2>1 DEF Submit, Types, Phases, threadVars, storeVars, workerVars
<1>4. ASSUME NEW r \in Req, Poll(r)
      PROVE  Types'
  BY <1>4 DEF Poll, Types, Phases, threadVars, storeVars, workerVars
<1>5. ASSUME NEW r \in Req, Finish(r)
      PROVE  Types'
  <2>1. RemoveFirst(queue, <<"lookup", r>>) \in Seq(Job)
    BY RemoveFirstShifts DEF Types
  <2>2. queue' \in Seq(Job)
    BY <1>2, <1>5, <2>1, AppendJob DEF Finish
  <2>3. phase' \in [Req -> Phases] /\ plan' \in [Req -> Plans] /\ marked' \subseteq Req
    BY <1>1, <1>5 DEF Finish, Types, Phases
  <2> QED BY <1>5, <2>2, <2>3 DEF Finish, Types, threadVars, storeVars, workerVars
<1>6. ASSUME NEW r \in Req, StartBlend(r)
      PROVE  Types'
  BY <1>6 DEF StartBlend, Types, Phases, threadVars, storeVars
<1>7. CASE Start
  <2>1. Head(queue)[2] \in Req /\ queue' \in Seq(Job)
    BY <1>2, <1>7, TailJob DEF Start, Types
  <2>2. /\ current' = Head(queue)[2] /\ step' \in {"match", "cancel"} /\ found' = NoPlan
        /\ wire' \in [Rank -> SUBSET Messages] /\ reply' \in [Rank -> Plans \cup {None}]
    BY <1>1, <1>7, <2>1, AskType, MessageType DEF Start, Goto
  <2> QED
    BY <1>1, <1>7, <2>1, <2>2 DEF Start, Types, Steps, storeVars, workerVars
<1>8. CASE GotMatch
  <2>1. step = "match" /\ current \in Req /\ reply[First] \in Plans
    BY <1>1, <1>8 DEF GotMatch, AllAnswered, Asked, Types
  <2>2. /\ step' \in {"gate", "validate"} /\ found' \in Plans
        /\ wire' \in [Rank -> SUBSET Messages] /\ reply' \in [Rank -> Plans \cup {None}]
    BY <1>1, <1>8, <2>1, AskType, AskNobodyType, MessageType DEF GotMatch, Goto
  <2> QED
    BY <1>1, <1>8, <2>1, <2>2 DEF GotMatch, Types, Steps, schedulerVars, storeVars, workerVars
<1>9. CASE GotValidate
  <2>1. step = "validate" /\ current \in Req /\ Common(found) \in Plans
    BY <1>1, <1>9, PlanType DEF GotValidate, Types
  <2>2. /\ step' \in {"gate", "prefetch"} /\ found' \in Plans
        /\ wire' \in [Rank -> SUBSET Messages] /\ reply' \in [Rank -> Plans \cup {None}]
    BY <1>1, <1>9, <2>1, AskType, AskNobodyType, MessageType DEF GotValidate, Goto
  <2> QED
    BY <1>1, <1>9, <2>1, <2>2
    DEF GotValidate, Types, Steps, schedulerVars, storeVars, workerVars
<1>10. CASE GotPrefetch
  <2>1. step = "prefetch" /\ current \in Req /\ found \in Plans
    BY <1>1, <1>10 DEF GotPrefetch, Types
  <2>2. /\ step' \in {"gate", "undo"} /\ found' \in Plans
        /\ wire' \in [Rank -> SUBSET Messages] /\ reply' \in [Rank -> Plans \cup {None}]
    BY <1>1, <1>10, <2>1, AskType, AskNobodyType, MessageType DEF GotPrefetch, Goto
  <2> QED
    BY <1>1, <1>10, <2>1, <2>2
    DEF GotPrefetch, Types, Steps, schedulerVars, storeVars, workerVars
<1>11. CASE GotUndo
  BY <1>1, <1>11, AskNobodyType
  DEF GotUndo, Goto, Types, Steps, schedulerVars, storeVars, workerVars
<1>12. CASE Cancelled \/ Accept
  <2>1. \E p \in Plans : Answer(p)
    BY <1>1, <1>12 DEF Cancelled, Accept, Types
  <2> QED
    BY <1>1, <1>12, <2>1, AnswerType
    DEF Cancelled, Accept, Types, Steps, storeVars, workerVars
<1>13. CASE Reject
  <2>1. current \in Req
    BY <1>1, <1>13 DEF Reject, Types
  <2>2. /\ step' = "retract" /\ found' \in Plans
        /\ wire' \in [Rank -> SUBSET Messages] /\ reply' \in [Rank -> Plans \cup {None}]
    BY <1>1, <1>13, <2>1, AskType, MessageType DEF Reject, Goto
  <2> QED
    BY <1>1, <1>13, <2>1, <2>2 DEF Reject, Types, Steps, schedulerVars, storeVars, workerVars
<1>14. CASE GotRetract
  <2>1. Answer(NoPlan) /\ AskNobody
    BY <1>14 DEF GotRetract
  <2> QED
    BY <1>1, <1>14, <2>1, AnswerType, AskNobodyType
    DEF GotRetract, Types, Steps, storeVars, workerVars
<1>15. CASE GotCancel
  BY <1>1, <1>15, AskNobodyType
  DEF GotCancel, Goto, Types, Steps, storeVars, workerVars
<1>16. CASE Timeout
  <2>1. current \in Req /\ timeouts' \in 0..MaxTimeouts
    BY <1>1, <1>16 DEF Timeout, AllAnswered, Asked, Types
  <2>2. PICK lost, K : ResetGroup(lost, K, Message("CANCEL", current, NoPlan))
    BY <1>16 DEF Timeout
  <2>3. Message("CANCEL", current, NoPlan) \in Messages
    BY <1>1, <2>1, MessageType
  <2>4. ASSUME NEW k \in Rank
        PROVE  Dropped(k, lost) \subseteq Messages
    <3>1. \A n \in Messages : [n EXCEPT !.live = FALSE] \in Messages
      BY DEF Messages
    <3>2. wire[k] \subseteq Messages
      BY DEF Types
    <3> QED BY <3>1, <3>2 DEF Dropped
  <2>5. wire' \in [Rank -> SUBSET Messages] /\ reply' \in [Rank -> Plans \cup {None}]
    BY <2>2, <2>3, <2>4 DEF ResetGroup, Types
  <2>6. /\ phase' \in [Req -> Phases] /\ plan' \in [Req -> Plans] /\ found' \in Plans
        /\ marked' \subseteq Req
        /\ \/ current' = None /\ step' = "idle"
           \/ current' = current /\ step' \in {"retract", "gate"}
    BY <1>1, <1>16, AnswerType DEF Timeout, Goto, Types
  <2> QED
    BY <1>1, <1>16, <2>1, <2>5, <2>6 DEF Timeout, Types, Steps, storeVars, workerVars
<1>17. ASSUME NEW k \in Rank, NEW m \in wire[k], Serve(k, m)
       PROVE  Types'
  <2>1. m \in Messages /\ m.req \in Req /\ m.plan \in Plans
    BY DEF Types, Messages
  <2>2. wire' \in [Rank -> SUBSET Messages]
    BY <1>17 DEF Serve, Types
  <2>3. reply' \in [Rank -> Plans \cup {None}]
    <3>1. Prompt[m.req] \in Plans
      BY <2>1, PromptAssumption
    <3>2. \A S : Within(Prompt[m.req], S) \in Plans /\ Within(m.plan, S) \in Plans
      BY <2>1, <3>1, PlanType
    <3>3. PICK result \in Plans : reply' = IF m.live THEN [reply EXCEPT ![k] = result] ELSE reply
      BY <1>1, <1>17, <3>2 DEF Serve
    <3> QED BY <3>3 DEF Types
  <2>4. pins' \in [Rank -> SUBSET (Req \X Seg \X Target)]
    <3>1. \/ \E P \in SUBSET (Req \X Seg \X Target) : SetPins(k, P)
          \/ UNCHANGED pins
      BY <1>17, <2>1, PinSets DEF Serve, Prefetched
    <3> QED BY <3>1, PinTypes DEF Types
  <2> QED
    BY <1>17, <2>2, <2>3, <2>4
    DEF Serve, Types, threadVars, schedulerVars, workerVars
<1>18. ASSUME NEW k \in Rank, NEW s \in Seg, Publish(k, s) \/ Evict(k, s)
       PROVE  Types'
  <2>1. visible' \in [Rank -> SUBSET Seg]
    BY <1>18 DEF Publish, Evict, Types
  <2> QED
    BY <1>18, <2>1 DEF Publish, Evict, Types, threadVars, schedulerVars, workerVars
<1>19. ASSUME NEW r \in Req, NEW k \in Rank, EndBlend(r, k) \/ ReportFinished(r, k)
       PROVE  Types'
  <2>1. pins' \in [Rank -> SUBSET (Req \X Seg \X Target)]
    BY <1>19, PinSets, PinTypes DEF EndBlend, ReportFinished
  <2>2. phase' \in [Req -> Phases] /\ blending' \in [Req -> SUBSET Rank]
        /\ reported' \in [Req -> SUBSET Rank]
    BY <1>19 DEF EndBlend, ReportFinished, Types, Phases, schedulerVars
  <2> QED
    BY <1>19, <2>1, <2>2 DEF EndBlend, ReportFinished, Types, threadVars, schedulerVars
<1>20. CASE UNCHANGED vars
  BY <1>20 DEF vars, Types, threadVars, schedulerVars, storeVars, workerVars
<1> QED
  BY <1>3, <1>4, <1>5, <1>6, <1>7, <1>8, <1>9, <1>10, <1>11, <1>12, <1>13, <1>14, <1>15,
     <1>16, <1>17, <1>18, <1>19, <1>20
  DEF Next, Thread, Server

-----------------------------------------------------------------------------
(* Turns and results                                                       *)

\* The end of a lookup, with or without a plan.
LEMMA AnswerTurns ==
  ASSUME Types, Turns, Results, NEW p, Answer(p), queue' = queue,
         UNCHANGED workerVars, step \notin {"idle", "cancel"}
  PROVE  Turns' /\ Results'
<1>1. /\ current \in Req /\ LookingUp(current) /\ phase[current] \in {"waiting", "finished"}
      /\ ~Queued("lookup", current)
  BY DEF Types, Turns, LookingUp
<1>2. /\ current' = None /\ None \notin Req /\ step' = "idle"
      /\ \A r \in Req : Queued("lookup", r)' = Queued("lookup", r)
      /\ \A r \in Req : Queued("cancel", r)' = Queued("cancel", r)
  BY NoneAssumption DEF Answer, Goto, Queued
<1>3. \A r \in Req :
        /\ phase'[r] = IF r = current /\ phase[r] = "waiting" THEN "answered" ELSE phase[r]
        /\ phase'[r] # "answered" => plan'[r] = plan[r]
        /\ blending'[r] = blending[r]
  BY <1>1 DEF Answer, Types, workerVars
<1>4. ASSUME NEW r \in Req
      PROVE  /\ Queued("lookup", r)' => phase'[r] = "waiting" /\ ~LookingUp(r)'
             /\ Queued("cancel", r)' => phase'[r] = "finished"
             /\ current' = r /\ step' = "cancel" => phase'[r] = "finished"
             /\ LookingUp(r)' => phase'[r] \in {"waiting", "finished"}
  BY <1>1, <1>2, <1>3 DEF Turns, LookingUp
<1>5. ASSUME NEW r \in Req
      PROVE  /\ phase'[r] \in {"new", "waiting", "plain", "finished"} => plan'[r] = NoPlan
             /\ blending'[r] # {} => phase'[r] = "blending"
  BY <1>1, <1>3 DEF Results
<1> QED BY <1>4, <1>5 DEF Turns, Results

\* The thread goes on with its lookup.
LEMMA GoOnTurns ==
  ASSUME Types, Turns, Results, UNCHANGED <<current, schedulerVars, workerVars>>,
         step \notin {"idle", "cancel"}, step' \notin {"idle", "cancel"}
  PROVE  Turns' /\ Results'
BY DEF Turns, Results, LookingUp, Queued, schedulerVars, workerVars

\* The thread ends a cancellation.
LEMMA RestTurns ==
  ASSUME Types, Turns, Results, UNCHANGED <<queue, phase, plan, workerVars>>,
         current' = None, step' = "idle"
  PROVE  Turns' /\ Results'
BY NoneAssumption DEF Turns, Results, LookingUp, Queued, workerVars

LEMMA TurnsStep == Types /\ Turns /\ Results /\ [Next]_vars => Turns' /\ Results'
<1> SUFFICES ASSUME Types, Turns, Results, [Next]_vars
             PROVE  Turns' /\ Results'
  OBVIOUS
<1>1. None \notin Req /\ queue \in Seq(Job) /\ Distinct(queue)
  BY NoneAssumption DEF Types, Turns
<1>2. \A r \in Req : <<"lookup", r>> \in Job /\ <<"cancel", r>> \in Job
  BY DEF Job
<1>3. CASE UNCHANGED <<schedulerVars, threadVars, workerVars>>
  BY <1>3 DEF Turns, Results, LookingUp, Queued, schedulerVars, threadVars, workerVars
<1>4. ASSUME NEW r \in Req, Submit(r)
      PROVE  Turns' /\ Results'
  <2>1. /\ phase[r] = "new" /\ plan' = plan /\ blending' = blending
        /\ current' = current /\ step' = step
        /\ \A q \in Req \ {r} : phase'[q] = phase[q]
    BY <1>4 DEF Submit, Types, workerVars, threadVars
  <2>2. /\ ~Queued("lookup", r) /\ ~Queued("cancel", r)
        /\ current # r \/ step = "idle"
        /\ ~LookingUp(r)
    BY <2>1 DEF Turns, LookingUp
  <2>3. CASE phase'[r] = "waiting" /\ queue' = Append(queue, <<"lookup", r>>)
    <3>1. /\ Distinct(queue')
          /\ \A op \in {"lookup", "cancel"}, q \in Req :
               Queued(op, q)' <=> Queued(op, q) \/ (op = "lookup" /\ q = r)
      <4>1. /\ \A job \in Job : In(queue', job) <=> In(queue, job) \/ job = <<"lookup", r>>
            /\ ~In(queue, <<"lookup", r>>) => Distinct(queue')
        BY <1>1, <1>2, <2>3, AppendJob
      <4>2. ~In(queue, <<"lookup", r>>)
        BY <2>1 DEF Turns, Queued
      <4>3. ASSUME NEW op \in {"lookup", "cancel"}, NEW q \in Req
            PROVE  Queued(op, q)' <=> Queued(op, q) \/ (op = "lookup" /\ q = r)
        <5>1. <<op, q>> \in Job /\ (<<op, q>> = <<"lookup", r>> <=> op = "lookup" /\ q = r)
          BY DEF Job
        <5> QED BY <4>1, <5>1 DEF Queued
      <4> QED BY <4>1, <4>2, <4>3
    <3> QED BY <2>1, <2>2, <2>3, <3>1 DEF Turns, Results, LookingUp
  <2>4. CASE phase'[r] = "plain" /\ queue' = queue
    BY <2>1, <2>2, <2>4 DEF Turns, Results, LookingUp, Queued
  <2> QED BY <1>4, <2>3, <2>4 DEF Submit, Types
<1>5. ASSUME NEW r \in Req, Poll(r) \/ StartBlend(r)
      PROVE  Turns' /\ Results'
  <2>1. /\ phase[r] \in {"answered", "planned"} /\ plan' = plan /\ queue' = queue
        /\ current' = current /\ step' = step
        /\ \A q \in Req \ {r} : phase'[q] = phase[q] /\ blending'[q] = blending[q]
        /\ \/ phase'[r] = (IF plan[r] = NoPlan THEN "plain" ELSE "planned")
              /\ blending'[r] = blending[r]
           \/ phase'[r] = "blending"
    BY <1>5 DEF Poll, StartBlend, Types, workerVars, threadVars
  <2>2. \A op, q : Queued(op, q)' = Queued(op, q)
    BY <2>1 DEF Queued
  <2> QED BY <2>1, <2>2 DEF Turns, Results, LookingUp
<1>6. ASSUME NEW r \in Req, Finish(r)
      PROVE  Turns' /\ Results'
  <2>1. /\ phase[r] \in {"waiting", "answered", "planned", "plain", "running"}
        /\ current' = current /\ step' = step /\ blending' = blending
        /\ phase'[r] = "finished" /\ plan'[r] = NoPlan
        /\ \A q \in Req \ {r} : phase'[q] = phase[q] /\ plan'[q] = plan[q]
    BY <1>6 DEF Finish, Types, workerVars, threadVars
  <2> DEFINE d == RemoveFirst(queue, <<"lookup", r>>)
  <2>2. /\ d \in Seq(Job) /\ Distinct(d) /\ ~In(d, <<"lookup", r>>)
        /\ \A job \in Job : job # <<"lookup", r>> => (In(d, job) <=> In(queue, job))
    BY <1>1, RemoveJob
  <2>3. queue' = Append(d, <<"cancel", r>>)
    BY <1>6 DEF Finish
  <2> HIDE DEF d
  <2>4. /\ Distinct(queue')
        /\ \A job \in Job : In(queue', job) <=> In(d, job) \/ job = <<"cancel", r>>
    BY <1>2, <2>2, <2>3, AppendJob
  <2>5. ASSUME NEW q \in Req
        PROVE  /\ Queued("lookup", q)' => Queued("lookup", q) /\ q # r
               /\ Queued("cancel", q)' => Queued("cancel", q) \/ q = r
    BY <1>2, <2>2, <2>4 DEF Queued
  <2> QED BY <2>1, <2>4, <2>5 DEF Turns, Results, LookingUp
<1>7. CASE Start
  <2> DEFINE r == Head(queue)[2]
             e == Head(queue)
  <2>1. step = "idle" /\ queue # <<>> /\ queue' = Tail(queue) /\ current' = r
        /\ UNCHANGED <<phase, plan, blending>>
    BY <1>7 DEF Start, workerVars
  <2>2. /\ e \in Job /\ In(queue, e) /\ r \in Req
        /\ \A job \in Job : In(queue, job) <=> In(queue', job) \/ job = e
        /\ Distinct(queue') /\ (e[1] = "lookup" => ~In(queue', e))
    BY <1>1, <2>1, TailJob DEF Job
  <2>3. \/ e = <<"lookup", r>> /\ step' = "match"
        \/ e = <<"cancel", r>> /\ step' = "cancel"
    <3>1. e = <<e[1], r>> /\ e[1] \in {"lookup", "cancel"}
      BY <2>2 DEF Job
    <3>2. step' = IF e[1] = "lookup" THEN "match" ELSE "cancel"
      BY <1>7 DEF Start, Goto
    <3>3. CASE e[1] = "lookup"
      <4>1. e = <<"lookup", r>>
        BY <3>1, <3>3
      <4> QED BY <3>2, <3>3, <4>1
    <3>4. CASE e[1] = "cancel"
      <4>1. e = <<"cancel", r>>
        BY <3>1, <3>4
      <4> QED BY <3>2, <3>4, <4>1
    <3> QED BY <3>1, <3>3, <3>4
  <2> HIDE DEF e, r
  <2>4. ASSUME NEW q \in Req, NEW op \in {"lookup", "cancel"}
        PROVE  Queued(op, q)' => Queued(op, q) /\ (e = <<"lookup", r>> => ~(op = "lookup" /\ q = r))
    <3>1. <<op, q>> \in Job
      BY DEF Job
    <3>2. Queued(op, q)' => Queued(op, q)
      BY <2>2, <3>1 DEF Queued
    <3>3. e = <<"lookup", r>> /\ op = "lookup" /\ q = r => ~Queued(op, q)'
      BY <2>2 DEF Queued
    <3> QED BY <3>2, <3>3
  <2>5. phase[r] = IF step' = "match" THEN "waiting" ELSE "finished"
    BY <2>2, <2>3 DEF Turns, Queued
  <2> QED BY <2>1, <2>2, <2>3, <2>4, <2>5 DEF Turns, Results, LookingUp
<1>8. CASE GotMatch \/ GotValidate \/ GotPrefetch \/ GotUndo \/ Reject
  <2>1. step \notin {"idle", "cancel"} /\ UNCHANGED <<current, schedulerVars, workerVars>>
    BY <1>8 DEF GotMatch, GotValidate, GotPrefetch, GotUndo, Reject
  <2>2. step' \notin {"idle", "cancel"}
    BY <1>8 DEF GotMatch, GotValidate, GotPrefetch, GotUndo, Reject, Goto
  <2> QED BY <2>1, <2>2, GoOnTurns
<1>9. CASE Cancelled \/ Accept \/ GotRetract
  BY <1>9, AnswerTurns DEF Cancelled, Accept, GotRetract
<1>10. CASE GotCancel
  BY <1>10, RestTurns DEF GotCancel, Goto
<1>11. CASE Timeout
  <2>1. queue' = queue /\ UNCHANGED workerVars
    BY <1>11 DEF Timeout
  <2>2. \/ step \in {"match", "validate", "retract"} /\ Answer(NoPlan)
        \/ /\ step \in {"prefetch", "undo"} /\ step' \in {"retract", "gate"}
           /\ UNCHANGED <<current, schedulerVars>>
        \/ step' = "idle" /\ current' = None /\ UNCHANGED <<phase, plan>>
    BY <1>11 DEF Timeout, Goto, schedulerVars
  <2> QED BY <2>1, <2>2, AnswerTurns, GoOnTurns, RestTurns
<1>12. ASSUME NEW r \in Req, NEW k \in Rank, EndBlend(r, k)
       PROVE  Turns' /\ Results'
  <2>1. /\ blending[r] # {} /\ phase[r] = "blending" /\ plan' = plan /\ queue' = queue
        /\ current' = current /\ step' = step
        /\ \A q \in Req \ {r} : phase'[q] = phase[q] /\ blending'[q] = blending[q]
        /\ \/ phase'[r] = "running" /\ blending'[r] = {}
           \/ phase'[r] = "blending"
    BY <1>12 DEF EndBlend, Types, threadVars, Results
  <2>2. \A op, q : Queued(op, q)' = Queued(op, q)
    BY <2>1 DEF Queued
  <2> QED BY <2>1, <2>2 DEF Turns, Results, LookingUp
<1> QED
  BY <1>3, <1>4, <1>5, <1>6, <1>7, <1>8, <1>9, <1>10, <1>11, <1>12
  DEF Next, Thread, Server, Serve, Publish, Evict, ReportFinished, vars, workerVars,
      Turns, Results, LookingUp, Queued, schedulerVars, threadVars

-----------------------------------------------------------------------------
(* Late messages                                                           *)

LEMMA AnswerSpoiled ==
  ASSUME Types, Answer(NoPlan), queue' = queue, NEW r \in Req, Spoiled(r)
  PROVE  Spoiled(r)'
<1>1. /\ current' = None /\ None \notin Req /\ Queued("lookup", r)' = Queued("lookup", r)
      /\ plan'[r] = NoPlan /\ phase'[r] # "new"
  BY NoneAssumption DEF Answer, Goto, Types, Spoiled, Queued
<1> QED BY <1>1 DEF Spoiled

\* A request that is spoiled never gets a plan.
LEMMA SpoiledStays ==
  ASSUME Types, Turns, Results, [Next]_vars, NEW r \in Req, Spoiled(r)
  PROVE  Spoiled(r)'
<1>1. /\ plan[r] = NoPlan /\ phase[r] # "new" /\ ~Queued("lookup", r)
      /\ current = r => found = NoPlan /\ step \in {"undo", "gate", "retract", "cancel"}
      /\ None \notin Req /\ queue \in Seq(Job) /\ Distinct(queue)
      /\ <<"lookup", r>> \in Job /\ \A q \in Req : <<"cancel", q>> \in Job
  BY NoneAssumption DEF Spoiled, Types, Turns, Job
<1>2. CASE UNCHANGED <<schedulerVars, threadVars>>
  BY <1>1, <1>2 DEF Spoiled, Queued, schedulerVars, threadVars
<1>3. ASSUME NEW q \in Req, Submit(q)
      PROVE  Spoiled(r)'
  <2>1. q # r /\ phase'[r] = phase[r] /\ plan' = plan /\ UNCHANGED threadVars
    BY <1>1, <1>3 DEF Submit, Types
  <2>2. CASE queue' = queue
    BY <1>1, <2>1, <2>2 DEF Spoiled, Queued, threadVars
  <2>3. CASE queue' = Append(queue, <<"lookup", q>>)
    <3>1. ~Queued("lookup", r)'
      <4>1. <<"lookup", q>> \in Job /\ <<"lookup", q>> # <<"lookup", r>>
        BY <2>1 DEF Job
      <4> QED BY <1>1, <2>3, <4>1, AppendJob DEF Queued
    <3> QED BY <1>1, <2>1, <3>1 DEF Spoiled, threadVars
  <2> QED BY <1>3, <2>2, <2>3 DEF Submit
<1>4. ASSUME NEW q \in Req, Poll(q) \/ StartBlend(q)
      PROVE  Spoiled(r)'
  BY <1>1, <1>4 DEF Poll, StartBlend, Spoiled, Queued, Types, threadVars
<1>5. ASSUME NEW q \in Req, Finish(q)
      PROVE  Spoiled(r)'
  <2>1. plan'[r] = NoPlan /\ phase'[r] # "new" /\ UNCHANGED threadVars
    BY <1>1, <1>5 DEF Finish, Types
  <2> DEFINE d == RemoveFirst(queue, <<"lookup", q>>)
  <2>2. /\ d \in Seq(Job) /\ ~In(d, <<"lookup", q>>)
        /\ \A job \in Job : job # <<"lookup", q>> => (In(d, job) <=> In(queue, job))
    BY <1>1, RemoveJob
  <2>3. queue' = Append(d, <<"cancel", q>>)
    BY <1>5 DEF Finish
  <2> HIDE DEF d
  <2>4. ~In(d, <<"lookup", r>>)
    BY <1>1, <2>2 DEF Queued
  <2>5. ~Queued("lookup", r)'
    BY <1>1, <2>2, <2>3, <2>4, AppendJob DEF Queued
  <2> QED BY <1>1, <2>1, <2>5 DEF Spoiled, threadVars
<1>6. CASE Start
  <2> DEFINE e == Head(queue)
  <2>1. step = "idle" /\ queue # <<>> /\ queue' = Tail(queue) /\ current' = e[2]
        /\ UNCHANGED <<phase, plan>> /\ found' = NoPlan
        /\ step' = IF e[1] = "lookup" THEN "match" ELSE "cancel"
    BY <1>6 DEF Start, Goto
  <2>2. /\ e \in Job /\ In(queue, e)
        /\ \A job \in Job : In(queue, job) <=> In(queue', job) \/ job = e
    BY <1>1, <2>1, TailJob
  <2> HIDE DEF e
  <2>3. ~Queued("lookup", r)' /\ e # <<"lookup", r>>
    BY <1>1, <2>2 DEF Queued
  <2>4. e = <<e[1], e[2]>> /\ e[1] \in {"lookup", "cancel"}
    BY <2>2 DEF Job
  <2>5. current' = r => step' = "cancel"
    BY <2>1, <2>3, <2>4
  <2> QED BY <1>1, <2>1, <2>3, <2>5 DEF Spoiled
<1>7. CASE GotMatch \/ GotValidate \/ GotPrefetch
  <2>1. current # r
    BY <1>1, <1>7 DEF GotMatch, GotValidate, GotPrefetch
  <2> QED
    BY <1>1, <1>7, <2>1
    DEF GotMatch, GotValidate, GotPrefetch, Spoiled, Queued, schedulerVars
<1>8. CASE GotUndo \/ Reject
  BY <1>1, <1>8 DEF GotUndo, Reject, Goto, Spoiled, Queued, schedulerVars
<1>9. CASE Cancelled \/ GotRetract
  BY <1>9, AnswerSpoiled DEF Cancelled, GotRetract
<1>10. CASE Accept
  <2>1. CASE current = r
    BY <1>1, <1>10, <2>1, AnswerSpoiled DEF Accept
  <2>2. CASE current # r
    <3>1. plan'[r] = plan[r] /\ phase'[r] = phase[r] /\ current' = None /\ queue' = queue
      BY <1>10, <2>2 DEF Accept, Answer, Goto, Types
    <3> QED BY <1>1, <3>1 DEF Spoiled, Queued
  <2> QED BY <2>1, <2>2
<1>11. CASE GotCancel
  BY <1>1, <1>11 DEF GotCancel, Goto, Spoiled, Queued
<1>12. CASE Timeout
  <2>1. queue' = queue
    BY <1>12 DEF Timeout
  <2>2. \/ Answer(NoPlan)
        \/ /\ step' \in {"retract", "gate"} /\ found' = NoPlan
           /\ UNCHANGED <<current, phase, plan>>
        \/ step' = "idle" /\ current' = None /\ UNCHANGED <<phase, plan>>
    BY <1>12 DEF Timeout, Goto
  <2> QED BY <1>1, <2>1, <2>2, AnswerSpoiled DEF Spoiled, Queued
<1>13. ASSUME NEW q \in Req, NEW k \in Rank, EndBlend(q, k)
       PROVE  Spoiled(r)'
  <2>1. phase'[r] # "new" /\ UNCHANGED <<queue, plan, threadVars>>
    BY <1>1, <1>13 DEF EndBlend, Types
  <2> QED BY <1>1, <2>1 DEF Spoiled, Queued, threadVars
<1> QED
  BY <1>2, <1>3, <1>4, <1>5, <1>6, <1>7, <1>8, <1>9, <1>10, <1>11, <1>12, <1>13
  DEF Next, Thread, Server, Serve, Publish, Evict, ReportFinished, vars, schedulerVars,
      threadVars

\* The lookup or cancellation whose PREFETCH or CANCEL times out gives no plan.
LEMMA TimeoutSpoils ==
  ASSUME Types, Turns, Results, Timeout, NEW r \in Req, current = r,
         step \in {"prefetch", "undo", "retract", "cancel"}
  PROVE  Spoiled(r)'
<1>1. /\ None \notin Req /\ queue' = queue
      /\ phase[r] \in {"waiting", "finished"} /\ ~Queued("lookup", r)
      /\ plan[r] = NoPlan
  BY NoneAssumption DEF Timeout, Types, Turns, Results, LookingUp
<1>2. \/ step = "retract" /\ Answer(NoPlan)
      \/ /\ step' \in {"retract", "gate"} /\ found' = NoPlan
         /\ UNCHANGED <<current, phase, plan>>
      \/ step' = "idle" /\ current' = None /\ UNCHANGED <<phase, plan>>
  BY DEF Timeout, Goto
<1>3. plan'[r] = NoPlan /\ phase'[r] # "new" /\ (current' = r \/ current' = None)
  BY <1>1, <1>2 DEF Answer, Goto, Types
<1> QED BY <1>1, <1>2, <1>3 DEF Spoiled, Queued, Answer, Goto

\* A message becomes late only by a timeout.
LEMMA LateComes ==
  ASSUME Types, Exchange, [Next]_vars, NEW k \in Rank, NEW m \in wire'[k], ~m.live
  PROVE  \/ m \in wire[k]
         \/ /\ Timeout /\ current \in Req /\ m.op = Op /\ m.req = current
            /\ k \in Asked
<1>1. \A op, r, p : Message(op, r, p).live
  BY DEF Message
<1>2. ASSUME NEW K, NEW op, NEW r, NEW p, Ask(K, Message(op, r, p))
      PROVE  m \in wire[k]
  BY <1>1, <1>2 DEF Ask
<1>3. CASE wire' = wire
  BY <1>3
<1>4. CASE Timeout
  <2>1. PICK lost, K : ResetGroup(lost, K, Message("CANCEL", current, NoPlan))
    BY <1>4 DEF Timeout
  <2>2. m \in Dropped(k, lost)
    BY <1>1, <2>1 DEF ResetGroup
  <2>3. CASE m \notin wire[k]
    <3>1. PICK n \in wire[k] : k \in Asked /\ n.live /\ m = [n EXCEPT !.live = FALSE]
      BY <2>2, <2>3 DEF Dropped
    <3>2. n \in Messages /\ n = Message(Op, current, found)
      BY <3>1 DEF Types, Exchange
    <3>3. n.op = Op /\ n.req = current
      BY <3>2 DEF Message
    <3>4. m.op = n.op /\ m.req = n.req /\ n.req \in Req
      BY <3>1, <3>2 DEF Messages
    <3> QED BY <1>4, <3>1, <3>3, <3>4
  <2> QED BY <2>3
<1>5. ASSUME NEW j \in Rank, NEW n \in wire[j], Serve(j, n)
      PROVE  m \in wire[k]
  BY <1>5 DEF Serve, Types
<1>6. CASE Start
  BY <1>2, <1>6 DEF Start
<1>7. CASE GotMatch \/ GotValidate \/ GotPrefetch \/ Reject
  BY <1>2, <1>7 DEF GotMatch, GotValidate, GotPrefetch, Reject, AskNobody
<1> QED
  BY <1>3, <1>4, <1>5, <1>6, <1>7
  DEF Next, Thread, Server, vars, Submit, Poll, Finish, StartBlend, EndBlend,
      ReportFinished, Publish, Evict, GotUndo, Cancelled, Accept, GotRetract, GotCancel,
      AskNobody

LEMMA LateStep ==
  Types /\ Turns /\ Results /\ Exchange /\ Late /\ [Next]_vars => Late'
<1> SUFFICES ASSUME Types, Turns, Results, Exchange, Late, [Next]_vars,
                    NEW k \in Rank, NEW m \in wire'[k],
                    ~m.live, m.op \in {"PREFETCH", "CANCEL"}
             PROVE  \E r \in Req : m.req = r /\ Spoiled(r)'
  BY DEF Late
<1>1. CASE m \in wire[k]
  <2>1. Spoiled(m.req) /\ m.req \in Req
    BY <1>1 DEF Late, Types, Messages
  <2>2. PICK r \in Req : r = m.req
    BY <2>1
  <2> QED BY <2>1, <2>2, SpoiledStays
<1>2. CASE m \notin wire[k]
  <2>1. /\ Timeout /\ current \in Req /\ m.op = Op /\ m.req = current /\ k \in Asked
    BY <1>2, LateComes
  <2>2. step \in {"prefetch", "undo", "retract", "cancel"}
    BY <2>1 DEF Op, Asked
  <2>3. PICK r \in Req : r = current
    BY <2>1
  <2> QED BY <2>1, <2>2, <2>3, TimeoutSpoils
<1> QED BY <1>1, <1>2

-----------------------------------------------------------------------------
(* Pins                                                                    *)

\* Steps that leave the stores alone.
LEMMA HeldQuiet ==
  ASSUME Held, UNCHANGED storeVars,
         \A r \in Req, k \in Rank : PlanHeld(k, r)' /\ LookupHeld(k, r)'
  PROVE  Held'
BY DEF Held, storeVars

LEMMA HasQuiet ==
  ASSUME UNCHANGED storeVars, NEW k, NEW r, NEW p
  PROVE  (\A t \in DOMAIN p : <<r, p[t], t>> \in pins'[k]) <=> Has(k, r, p)
BY DEF Has, storeVars

\* The end of a lookup: its plan is what the thread has found, or nothing.
LEMMA HeldAnswer ==
  ASSUME Types, Turns, Held, NEW p, p = NoPlan \/ (p = found /\ step = "gate"),
         Answer(p), UNCHANGED <<storeVars, workerVars>>, step \notin {"idle", "cancel"}
  PROVE  Held'
<1>1. current' = None /\ None \notin Req /\ current \in Req
  BY NoneAssumption DEF Answer, Goto, Types
<1>2. ASSUME NEW r \in Req, NEW k \in Rank
      PROVE  PlanHeld(k, r)'
  <2>1. CASE r = current /\ phase[r] = "waiting"
    <3>1. plan'[r] = p
      BY <1>1, <2>1 DEF Answer, Types
    <3>2. Has(k, r, p)
      BY <2>1, NoPlanType DEF Held, LookupHeld
    <3> QED BY <3>1, <3>2, HasQuiet DEF PlanHeld, Has
  <2>2. CASE ~(r = current /\ phase[r] = "waiting")
    <3>1. plan'[r] = plan[r] /\ phase'[r] = phase[r] /\ blending' = blending
      BY <1>1, <2>2 DEF Answer, Types, workerVars
    <3>2. PlanHeld(k, r)
      BY DEF Held
    <3> QED BY <3>1, <3>2, HasQuiet DEF PlanHeld, Has
  <2> QED BY <2>1, <2>2
<1>3. \A r \in Req, k \in Rank : LookupHeld(k, r)'
  BY <1>1 DEF LookupHeld
<1> QED BY <1>2, <1>3, HeldQuiet

\* The thread goes on, without pins to rely on or with those it has just got.
LEMMA HeldGoOn ==
  ASSUME Held, UNCHANGED <<phase, plan, blending, storeVars>>,
         \/ current' = None /\ None \notin Req
         \/ found' = NoPlan
         \/ step' \notin {"gate", "prefetch"}
         \/ step' = "prefetch" /\ \A k \in Rank : reply'[k] = None
         \/ /\ step' = "gate" /\ found' = found /\ current' = current
            /\ \A r \in Req, k \in Rank :
                 current = r /\ phase[r] = "waiting" => Has(k, r, found)
  PROVE  Held'
<1>1. \A r \in Req, k \in Rank : PlanHeld(k, r)'
  BY HasQuiet DEF Held, PlanHeld, Has
<1>2. ASSUME NEW r \in Req, NEW k \in Rank
      PROVE  LookupHeld(k, r)'
  <2>1. CASE found' = NoPlan
    BY <2>1, NoPlanType DEF LookupHeld, Has
  <2>2. CASE /\ step' = "gate" /\ found' = found /\ current' = current
             /\ current = r /\ phase[r] = "waiting" => Has(k, r, found)
    BY <2>2, HasQuiet DEF LookupHeld, Has
  <2>3. CASE \/ current' = None /\ None \notin Req
             \/ step' \notin {"gate", "prefetch"}
             \/ step' = "prefetch" /\ reply'[k] = None
    BY <2>3 DEF LookupHeld
  <2> QED BY <2>1, <2>2, <2>3
<1> QED BY <1>1, <1>2, HeldQuiet

\* Pins of q on rank j are lost or replaced: others keep theirs.
LEMMA HeldLoss ==
  ASSUME Types, Held, NEW j \in Rank, NEW q \in Req, NEW X,
         X \subseteq Req \X Seg \X Target,
         pins' = [pins EXCEPT ![j] = WithoutReq(pins[j], q) \cup X],
         \A p \in X : p[2] \in visible[j],
         UNCHANGED <<visible, plan, current, step, found>>,
         \A r \in Req : r # q => phase'[r] = phase[r] /\ blending'[r] = blending[r],
         \A k \in Rank : reply'[k] = reply[k] \/ (k = j /\ current = q),
         \A k \in Rank : k # j =>
           (PlanHeld(k, q) => PlanHeld(k, q)') /\ (LookupHeld(k, q) => LookupHeld(k, q)'),
         PlanHeld(j, q)' /\ LookupHeld(j, q)'
  PROVE  Held'
<1>1. pins'[j] = WithoutReq(pins[j], q) \cup X /\ \A k \in Rank \ {j} : pins'[k] = pins[k]
  BY DEF Types
<1>2. \A k \in Rank : \A p \in pins'[k] : p[2] \in visible'[k]
  BY <1>1 DEF Held, WithoutReq
<1>3. ASSUME NEW r \in Req, NEW k \in Rank, r # q, NEW s, NEW t, <<r, s, t>> \in pins[k]
      PROVE  <<r, s, t>> \in pins'[k]
  BY <1>1, <1>3 DEF WithoutReq
<1>4. ASSUME NEW r \in Req, NEW k \in Rank
      PROVE  PlanHeld(k, r)' /\ LookupHeld(k, r)'
  <2>1. PlanHeld(k, r) /\ LookupHeld(k, r)
    BY DEF Held
  <2>2. CASE r # q
    <3>1. /\ phase'[r] = phase[r] /\ blending'[r] = blending[r]
          /\ current = r => reply'[k] = reply[k]
      BY <2>2
    <3>2. PlanHeld(k, r)'
      BY <1>3, <2>1, <2>2, <3>1 DEF PlanHeld, Has
    <3>3. LookupHeld(k, r)'
      BY <1>3, <2>1, <2>2, <3>1 DEF LookupHeld, Has
    <3> QED BY <3>2, <3>3
  <2>3. CASE r = q
    BY <2>1, <2>3
  <2> QED BY <2>2, <2>3
<1> QED BY <1>2, <1>4 DEF Held

LEMMA HeldServe ==
  ASSUME TypeOK, Types, Turns, Results, Exchange, Late, Held,
         NEW k \in Rank, NEW m \in wire[k], Serve(k, m)
  PROVE  Held'
<1>1. /\ m \in Messages /\ m.req \in Req /\ m.plan \in Plans
      /\ UNCHANGED <<visible, phase, plan, blending, current, step, found>>
      /\ \A j \in Rank : reply'[j] = reply[j] \/ (j = k /\ m.live)
  BY DEF Serve, Types, Messages, threadVars, schedulerVars, workerVars
<1>2. m.live => m = Message(Op, current, found) /\ k \in Asked
  BY DEF Exchange
<1>3. m.live => m.op = Op /\ m.req = current /\ m.plan = found
  BY <1>2 DEF Message
<1>4. CASE m.op \in {"MATCH", "VALIDATE"}
  <2>1. UNCHANGED pins
    BY <1>4 DEF Serve
  <2>2. m.live => step \in {"match", "validate"}
    BY <1>3, <1>4 DEF Op
  <2>3. \A r \in Req, j \in Rank : PlanHeld(j, r)'
    BY <1>1, <2>1 DEF Held, PlanHeld, Has
  <2>4. \A r \in Req, j \in Rank : LookupHeld(j, r)'
    BY <1>1, <2>1, <2>2 DEF Held, LookupHeld, Has
  <2> QED BY <1>1, <2>1, <2>3, <2>4, HeldQuiet DEF storeVars
<1>5. CASE m.op \in {"PREFETCH", "CANCEL"}
  <2> DEFINE X == IF m.op = "PREFETCH" THEN PinsFor(m.req, m.plan, visible[k]) ELSE {}
  <2>1. pins' = [pins EXCEPT ![k] = WithoutReq(pins[k], m.req) \cup X]
    BY <1>5 DEF Serve, SetPins, Prefetched
  <2>2. X \subseteq Req \X Seg \X Target /\ \A p \in X : p[2] \in visible[k]
    BY <1>1 DEF PinsFor
  <2>3. \A j \in Rank : j # k => pins'[j] = pins[j]
    BY <2>1 DEF Types
  <2>4. ASSUME ~m.live
        PROVE  \A j \in Rank : PlanHeld(j, m.req)' /\ LookupHeld(j, m.req)'
    <3>1. Spoiled(m.req)
      BY <1>5, <2>4 DEF Late
    <3>2. \A t : t \notin DOMAIN NoPlan
      BY NoPlanType
    <3> QED BY <1>1, <3>1, <3>2 DEF Spoiled, PlanHeld, LookupHeld, Has
  <2>5. ASSUME m.live
        PROVE  \A j \in Rank : /\ PlanHeld(j, m.req)'
                               /\ j # k /\ LookupHeld(j, m.req) => LookupHeld(j, m.req)'
    <3>1. step \notin {"idle", "match", "validate", "gate"}
      BY <1>2, <1>3, <1>5, <2>5 DEF Op, Asked
    <3>2. phase[m.req] \in {"waiting", "finished"}
      BY <1>1, <1>3, <2>5, <3>1 DEF Turns, LookingUp
    <3>3. blending[m.req] = {}
      BY <1>1, <3>2 DEF Results
    <3>4. \A j \in Rank : PlanHeld(j, m.req)'
      BY <1>1, <3>2, <3>3 DEF PlanHeld
    <3>5. \A j \in Rank : j # k /\ LookupHeld(j, m.req) => LookupHeld(j, m.req)'
      BY <1>1, <2>3 DEF LookupHeld, Has
    <3> QED BY <3>4, <3>5
  <2>6. ASSUME m.live
        PROVE  LookupHeld(k, m.req)'
    <3>1. CASE m.op = "CANCEL"
      <4>1. step \in {"undo", "retract", "cancel"}
        BY <1>2, <1>3, <2>6, <3>1 DEF Op, Asked
      <4> QED BY <1>1, <4>1 DEF LookupHeld
    <3>2. CASE m.op = "PREFETCH"
      <4>1. step = "prefetch" /\ m.plan = found /\ found \in Plans
        BY <1>1, <1>3, <2>6, <3>2 DEF Op, Types
      <4>2. reply'[k] = Within(found, visible[k])
        BY <2>6, <3>2, <4>1 DEF Serve, Types
      <4>3. ASSUME NEW t \in DOMAIN found \cap DOMAIN reply'[k]
            PROVE  <<m.req, found[t], t>> \in pins'[k]
        <5>1. found[t] \in visible[k] /\ found[t] \in Seg /\ t \in Target
          BY <4>1, <4>2, PlanType
        <5>2. <<m.req, found[t], t>> \in X
          BY <1>1, <3>2, <4>1, <5>1 DEF PinsFor
        <5> QED BY <2>1, <5>2 DEF Types
      <4> QED BY <1>1, <4>1, <4>3 DEF LookupHeld
    <3> QED BY <1>5, <3>1, <3>2
  <2> HIDE DEF X
  <2>7. \A j \in Rank : reply'[j] = reply[j] \/ (j = k /\ current = m.req)
    BY <1>1, <1>3
  <2>8. /\ PlanHeld(k, m.req)' /\ LookupHeld(k, m.req)'
        /\ \A j \in Rank : j # k =>
             /\ PlanHeld(j, m.req) => PlanHeld(j, m.req)'
             /\ LookupHeld(j, m.req) => LookupHeld(j, m.req)'
    BY <2>4, <2>5, <2>6
  <2> QED BY <1>1, <2>1, <2>2, <2>7, <2>8, HeldLoss
<1> QED BY <1>1, <1>4, <1>5 DEF Messages

LEMMA HeldStep ==
  TypeOK /\ Types /\ Turns /\ Results /\ Exchange /\ Late /\ Held /\ [Next]_vars => Held'
<1> SUFFICES ASSUME TypeOK, Types, Turns, Results, Exchange, Late, Held, [Next]_vars
             PROVE  Held'
  OBVIOUS
<1>1. None \notin Req /\ \A r \in Req : current = r => step # "idle"
  BY NoneAssumption DEF Types
<1>2. ASSUME NEW r \in Req, Submit(r) \/ Poll(r) \/ Finish(r) \/ StartBlend(r)
      PROVE  Held'
  <2>1. /\ UNCHANGED <<storeVars, threadVars, reply>>
        /\ \A q \in Req \ {r} : /\ phase'[q] = phase[q] /\ plan'[q] = plan[q]
                                /\ blending'[q] = blending[q]
    BY <1>2 DEF Submit, Poll, Finish, StartBlend, Types, workerVars
  <2>2. \A k \in Rank : PlanHeld(k, r) /\ LookupHeld(k, r)
    BY DEF Held
  <2>3. ASSUME NEW k \in Rank
        PROVE  PlanHeld(k, r)'
    <3>1. CASE Submit(r) \/ Finish(r)
      <4>1. phase'[r] \in {"waiting", "plain", "finished"} /\ blending'[r] = blending[r]
            /\ phase[r] # "blending"
        BY <3>1 DEF Submit, Finish, Types, workerVars
      <4> QED BY <4>1 DEF PlanHeld, Results
    <3>2. CASE Poll(r) \/ StartBlend(r)
      <4>1. phase[r] \in {"answered", "planned"} /\ plan' = plan
        BY <3>2 DEF Poll, StartBlend
      <4> QED BY <2>1, <2>2, <4>1, HasQuiet DEF PlanHeld, Has
    <3> QED BY <1>2, <3>1, <3>2
  <2>4. current = r /\ phase'[r] = "waiting" => step \notin {"gate", "prefetch"}
    BY <1>1, <1>2 DEF Submit, Poll, Finish, StartBlend, Turns, LookingUp, Types
  <2>5. \A k \in Rank : LookupHeld(k, r)'
    BY <2>1, <2>4 DEF LookupHeld, threadVars
  <2>6. ASSUME NEW q \in Req \ {r}, NEW k \in Rank
        PROVE  PlanHeld(k, q)' /\ LookupHeld(k, q)'
    <3>1. PlanHeld(k, q) /\ LookupHeld(k, q)
      BY DEF Held
    <3>2. PlanHeld(k, q)'
      BY <2>1, <3>1, HasQuiet DEF PlanHeld, Has
    <3>3. LookupHeld(k, q)'
      BY <2>1, <3>1, HasQuiet DEF LookupHeld, Has, threadVars, storeVars
    <3> QED BY <3>2, <3>3
  <2> QED BY <2>1, <2>3, <2>5, <2>6, HeldQuiet
<1>3. CASE Start
  <2>1. UNCHANGED <<phase, plan, blending, storeVars>> /\ found' = NoPlan
    BY <1>3 DEF Start, Goto, workerVars
  <2> QED BY <2>1, HeldGoOn
<1>4. CASE GotMatch \/ GotUndo \/ Reject \/ GotCancel
  <2>1. UNCHANGED <<phase, plan, blending, storeVars>>
    BY <1>4 DEF GotMatch, GotUndo, Reject, GotCancel, schedulerVars, workerVars
  <2>2. found' = NoPlan \/ step' \notin {"gate", "prefetch"}
    BY <1>4 DEF GotMatch, GotUndo, Reject, GotCancel, Goto
  <2> QED BY <2>1, <2>2, HeldGoOn
<1>5. CASE GotValidate
  <2>1. UNCHANGED <<phase, plan, blending, storeVars>>
    BY <1>5 DEF GotValidate, schedulerVars, workerVars
  <2>2. found' = NoPlan \/ (step' = "prefetch" /\ \A k \in Rank : reply'[k] = None)
    BY <1>5 DEF GotValidate, Goto, Ask
  <2> QED BY <2>1, <2>2, HeldGoOn
<1>6. CASE GotPrefetch
  <2>1. UNCHANGED <<phase, plan, blending, storeVars>>
    BY <1>6 DEF GotPrefetch, schedulerVars, workerVars
  <2>2. CASE Common(found) = found
    <3>1. step = "prefetch" /\ step' = "gate" /\ found' = found /\ current' = current
          /\ \A k \in Rank : k \in Asked /\ reply[k] # None
      BY <1>6, <2>2 DEF GotPrefetch, Goto, AllAnswered, Asked
    <3>2. \A k \in Rank : DOMAIN found \subseteq DOMAIN reply[k]
      BY <2>2, <3>1, PlanType DEF Types
    <3>3. ASSUME NEW r \in Req, NEW k \in Rank, current = r, phase[r] = "waiting"
          PROVE  Has(k, r, found)
      BY <3>1, <3>2, <3>3 DEF Held, LookupHeld, Has
    <3> QED BY <2>1, <3>1, <3>3, HeldGoOn
  <2>3. CASE Common(found) # found
    <3>1. found' = NoPlan
      BY <1>6, <2>3 DEF GotPrefetch, Goto
    <3> QED BY <2>1, <3>1, HeldGoOn
  <2> QED BY <2>2, <2>3
<1>7. CASE Cancelled \/ Accept \/ GotRetract
  BY <1>7, HeldAnswer DEF Cancelled, Accept, GotRetract
<1>8. CASE Timeout
  <2>1. UNCHANGED <<storeVars, workerVars>>
    BY <1>8 DEF Timeout
  <2>2. \/ step \in {"match", "validate", "retract"} /\ Answer(NoPlan)
        \/ found' = NoPlan /\ UNCHANGED <<phase, plan>>
    BY <1>8 DEF Timeout, Goto
  <2> QED BY <2>1, <2>2, HeldAnswer, HeldGoOn DEF workerVars
<1>9. ASSUME NEW k \in Rank, NEW s \in Seg, Publish(k, s) \/ Evict(k, s)
      PROVE  Held'
  <2>1. UNCHANGED <<pins, reply, threadVars, phase, plan, blending>>
    BY <1>9 DEF Publish, Evict, schedulerVars, workerVars
  <2>2. \A r \in Req, j \in Rank : PlanHeld(j, r)' /\ LookupHeld(j, r)'
    BY <2>1 DEF Held, PlanHeld, LookupHeld, Has, threadVars
  <2>3. \A j \in Rank : \A p \in pins[j] : p[2] \in visible'[j]
    <3>1. CASE Publish(k, s)
      BY <3>1 DEF Publish, Held, Types
    <3>2. CASE Evict(k, s)
      <4>1. ASSUME NEW p \in pins[k]
            PROVE  p[2] # s
        <5>1. p \in Req \X Seg \X Target
          BY DEF Types
        <5>2. PICK r \in Req, t \in Target : p = <<r, p[2], t>>
          BY <5>1
        <5> QED BY <3>2, <5>2 DEF Evict, PinnedBy
      <4> QED BY <3>2, <4>1 DEF Evict, Held, Types
    <3> QED BY <1>9, <3>1, <3>2
  <2> QED BY <2>1, <2>2, <2>3 DEF Held
<1>10. ASSUME NEW r \in Req, NEW k \in Rank, EndBlend(r, k) \/ ReportFinished(r, k)
       PROVE  Held'
  <2>1. /\ pins' = [pins EXCEPT ![k] = WithoutReq(pins[k], r) \cup {}]
        /\ UNCHANGED <<visible, reply, plan, current, step, found>>
        /\ \A q \in Req : q # r => phase'[q] = phase[q] /\ blending'[q] = blending[q]
    BY <1>10 DEF EndBlend, ReportFinished, SetPins, Types, threadVars, schedulerVars
  <2>2. /\ phase'[r] \in {"blending", "running", "finished"} /\ k \notin blending'[r]
        /\ blending'[r] \subseteq blending[r]
    BY <1>10 DEF EndBlend, ReportFinished, Types, Results, schedulerVars
  <2>3. \A j \in Rank : LookupHeld(j, r)'
    BY <2>2 DEF LookupHeld
  <2>4. PlanHeld(k, r)'
    BY <2>2 DEF PlanHeld
  <2>5. ASSUME NEW j \in Rank, j # k, PlanHeld(j, r)
        PROVE  PlanHeld(j, r)'
    <3>1. pins'[j] = pins[j]
      BY <2>1, <2>5 DEF Types
    <3> QED BY <2>1, <2>2, <2>5, <3>1 DEF PlanHeld, Has
  <2> DEFINE X == {}
  <2>6. /\ pins' = [pins EXCEPT ![k] = WithoutReq(pins[k], r) \cup X]
        /\ X \subseteq Req \X Seg \X Target /\ \A p \in X : p[2] \in visible[k]
        /\ \A j \in Rank : reply'[j] = reply[j] \/ (j = k /\ current = r)
    BY <2>1
  <2> HIDE DEF X
  <2> QED BY <2>1, <2>3, <2>4, <2>5, <2>6, HeldLoss
<1>11. CASE UNCHANGED vars
  <2>1. UNCHANGED <<storeVars, threadVars, reply, phase, plan, blending>>
    BY <1>11 DEF vars, schedulerVars, workerVars
  <2>2. \A r \in Req, k \in Rank : PlanHeld(k, r)' /\ LookupHeld(k, r)'
    BY <2>1 DEF Held, PlanHeld, LookupHeld, Has, threadVars, storeVars
  <2> QED BY <2>1, <2>2, HeldQuiet
<1> QED
  BY <1>2, <1>3, <1>4, <1>5, <1>6, <1>7, <1>8, <1>9, <1>10, <1>11, HeldServe
  DEF Next, Thread, Server

-----------------------------------------------------------------------------
(* The invariant and what follows from it                                  *)

LEMMA InitInv == Init => IInv
<1> SUFFICES ASSUME Init
             PROVE  IInv
  OBVIOUS
<1> USE DEF Init
<1>1. /\ NoPlan \in Plans /\ MaxTimeouts \in Nat /\ Len(queue) = 0
      /\ 1..Len(queue) = {} /\ queue \in Seq(Job)
  BY NoPlanType, TimeoutAssumption
<1>2. Types
  BY <1>1 DEF Types, Steps, Phases
<1>3. Turns
  BY <1>1, NoneAssumption DEF Turns, Distinct, Queued, In, LookingUp
<1>4. Results
  BY DEF Results
<1>5. Exchange /\ Late
  BY DEF Exchange, Late
<1>6. Held
  BY DEF Held, PlanHeld, LookupHeld
<1> QED BY <1>2, <1>3, <1>4, <1>5, <1>6, TypesSuffice DEF IInv

LEMMA StepInv == IInv /\ [Next]_vars => IInv'
<1> SUFFICES ASSUME IInv, [Next]_vars
             PROVE  IInv'
  OBVIOUS
<1>1. TypeOK /\ Types /\ Turns /\ Results /\ Exchange /\ Late /\ Held
  BY TypesSuffice DEF IInv
<1>2. Exchange' /\ Types' /\ Turns' /\ Results' /\ Late' /\ Held'
  BY <1>1, ExchangeStep, TypesStep, TurnsStep, LateStep, HeldStep
<1>3. (TypeOK /\ Exchange <=> Types /\ Exchange)'
  BY TypesSuffice, PTL
<1> QED BY <1>2, <1>3 DEF IInv

\* The inductive invariant of the lookup across ranks.
THEOREM InvariantHolds == Spec => []IInv
<1>1. Spec => Init /\ [][Next]_vars
  BY DEF Spec
<1> QED BY <1>1, InitInv, StepInv, PTL

\* The lookup keeps its types; at most one live message waits for a rank.
THEOREM TypeIsOK == Spec => []TypeOK
<1>1. IInv => TypeOK
  BY DEF IInv
<1> QED BY <1>1, InvariantHolds, PTL

\* The plan a request got is pinned on every rank, whole and readable, from the end of
\* the lookup to the end of that rank's side forward, whatever times out, is lost or
\* comes late (ipc.py:211-280, storage.py:4).
THEOREM PlanIsPinned == Spec => []PlanPinned
<1>1. ASSUME IInv
      PROVE  PlanPinned
  <2> SUFFICES ASSUME NEW r \in Req, NEW k \in Rank,
                      phase[r] \in {"answered", "planned"} \/ k \in blending[r]
               PROVE  /\ PinsFor(r, plan[r], Seg) \subseteq pins[k]
                      /\ \A t \in DOMAIN plan[r] : plan[r][t] \in visible[k]
    BY DEF PlanPinned
  <2>1. Has(k, r, plan[r])
    BY <1>1 DEF IInv, Held, PlanHeld
  <2>2. ASSUME NEW t \in DOMAIN plan[r]
        PROVE  plan[r][t] \in visible[k]
    <3>1. <<r, plan[r][t], t>> \in pins[k]
      BY <2>1 DEF Has
    <3> QED BY <1>1, <3>1 DEF IInv, Held
  <2>3. PinsFor(r, plan[r], Seg) \subseteq pins[k]
    BY <2>1 DEF PinsFor, Has
  <2> QED BY <2>2, <2>3
<1> QED BY <1>1, InvariantHolds, PTL

-----------------------------------------------------------------------------
(* Without timeouts, every pin has somebody who uses or releases it        *)

\* What a finished request and a started job do to the queue.
LEMMA FinishQueues ==
  ASSUME Types, Turns, NEW q \in Req, Finish(q), NEW r \in Req
  PROVE  Queued("cancel", r)' <=> Queued("cancel", r) \/ r = q
<1> DEFINE d == RemoveFirst(queue, <<"lookup", q>>)
<1>1. /\ d \in Seq(Job) /\ Distinct(d) /\ ~In(d, <<"lookup", q>>)
      /\ \A job \in Job : job # <<"lookup", q>> => (In(d, job) <=> In(queue, job))
  BY RemoveJob DEF Types, Turns
<1>2. queue' = Append(d, <<"cancel", q>>)
  BY DEF Finish
<1>3. <<"cancel", q>> \in Job /\ <<"cancel", r>> \in Job
  BY DEF Job
<1> HIDE DEF d
<1> QED BY <1>1, <1>2, <1>3, AppendJob DEF Queued

LEMMA StartTakes ==
  ASSUME Types, Turns, Start
  PROVE  \E e \in Job :
           /\ In(queue, e) /\ current' = e[2] /\ UNCHANGED <<marked, phase>>
           /\ step' = IF e[1] = "lookup" THEN "match" ELSE "cancel"
           /\ \A job \in Job : In(queue, job) <=> In(queue', job) \/ job = e
<1> DEFINE e == Head(queue)
<1>1. /\ e \in Job /\ In(queue, e)
      /\ \A job \in Job : In(queue, job) <=> In(queue', job) \/ job = e
  BY TailJob DEF Start, Types, Turns
<1>2. /\ current' = e[2] /\ UNCHANGED <<marked, phase>>
      /\ step' = IF e[1] = "lookup" THEN "match" ELSE "cancel"
  BY DEF Start, Goto
<1> QED BY <1>1, <1>2

LEMMA MarkedStep ==
  ASSUME MaxTimeouts = 0, Types, Turns, Results, NoneLate, Marked, [Next]_vars
  PROVE  Marked'
<1>1. None \notin Req /\ ~Timeout
  BY NoneAssumption DEF NoneLate, Timeout
<1> DEFINE Stays(r) ==
      /\ r \in marked' => Queued("cancel", r)' \/ (current' = r /\ step' = "cancel")
      /\ LookingUp(r)' /\ phase'[r] = "finished" => Queued("cancel", r)'
<1> SUFFICES ASSUME NEW r \in Req
             PROVE  Stays(r)
  BY DEF Marked
<1>2. /\ r \in marked => Queued("cancel", r) \/ (current = r /\ step = "cancel")
      /\ LookingUp(r) /\ phase[r] = "finished" => Queued("cancel", r)
      /\ Queued("lookup", r) => phase[r] = "waiting"
  BY DEF Marked, Turns
<1>3. ASSUME NEW q \in Req, Submit(q)
      PROVE  Stays(r)
  <2>1. Queued("cancel", r) => Queued("cancel", r)'
    <3>1. queue' = Append(queue, <<"lookup", q>>) \/ queue' = queue
      BY <1>3 DEF Submit
    <3>2. <<"lookup", q>> \in Job /\ <<"cancel", r>> \in Job
      BY DEF Job
    <3>3. In(queue, <<"cancel", r>>) => In(Append(queue, <<"lookup", q>>), <<"cancel", r>>)
      BY <3>2, AppendJob DEF Types
    <3> QED BY <3>1, <3>3 DEF Queued
  <2>2. /\ r \in marked' => r \in marked
        /\ phase'[r] = "finished" => phase[r] = "finished"
        /\ UNCHANGED <<current, step>>
    BY <1>3 DEF Submit, Types, threadVars
  <2> QED BY <1>2, <2>1, <2>2 DEF LookingUp
<1>4. ASSUME NEW q \in Req, Poll(q) \/ StartBlend(q)
      PROVE  Stays(r)
  <2>1. /\ r \in marked' => r \in marked
        /\ phase'[r] = "finished" => phase[r] = "finished"
        /\ UNCHANGED <<queue, current, step>>
    BY <1>4 DEF Poll, StartBlend, Types, threadVars
  <2> QED BY <1>2, <2>1 DEF LookingUp, Queued
<1>5. ASSUME NEW q \in Req, Finish(q)
      PROVE  Stays(r)
  <2>1. Queued("cancel", r)' <=> Queued("cancel", r) \/ r = q
    BY <1>5, FinishQueues
  <2>2. /\ r \in marked' => r \in marked \/ r = q
        /\ phase'[r] = "finished" => phase[r] = "finished" \/ r = q
        /\ UNCHANGED <<current, step>>
    BY <1>5 DEF Finish, Types, threadVars
  <2> QED BY <1>2, <2>1, <2>2 DEF LookingUp
<1>6. CASE Start
  <2>1. PICK e \in Job : /\ In(queue, e) /\ current' = e[2] /\ UNCHANGED <<marked, phase>>
                         /\ step' = IF e[1] = "lookup" THEN "match" ELSE "cancel"
                         /\ \A job \in Job : In(queue, job) <=> In(queue', job) \/ job = e
    BY <1>6, StartTakes
  <2>2. e = <<e[1], e[2]>> /\ e[1] \in {"lookup", "cancel"} /\ <<"cancel", r>> \in Job
    BY DEF Job
  <2>3. Queued("cancel", r) => Queued("cancel", r)' \/ (current' = r /\ step' = "cancel")
    BY <2>1, <2>2 DEF Queued
  <2>4. LookingUp(r)' => phase[r] = "waiting"
    <3>1. LookingUp(r)' => e = <<"lookup", r>>
      BY <2>1, <2>2 DEF LookingUp
    <3> QED BY <1>2, <2>1, <3>1 DEF Queued
  <2>5. step = "idle"
    BY <1>6 DEF Start
  <2> QED BY <1>2, <2>1, <2>3, <2>4, <2>5
<1>7. CASE GotMatch \/ GotValidate \/ GotPrefetch \/ GotUndo \/ Reject
  <2>1. /\ UNCHANGED <<queue, marked, phase, current>>
        /\ step \notin {"idle", "cancel"}
    BY <1>7 DEF GotMatch, GotValidate, GotPrefetch, GotUndo, Reject, schedulerVars
  <2> QED BY <1>2, <2>1 DEF LookingUp, Queued
<1>8. CASE Cancelled \/ Accept \/ GotRetract \/ GotCancel
  <2>1. /\ UNCHANGED queue /\ current' = None
        /\ r \in marked' => r \in marked /\ (step = "cancel" => current # r)
    BY <1>8 DEF Cancelled, Accept, GotRetract, GotCancel, Answer, Goto
  <2> QED BY <1>1, <1>2, <2>1 DEF LookingUp, Queued
<1>9. ASSUME NEW q \in Req, NEW k \in Rank, EndBlend(q, k)
      PROVE  Stays(r)
  <2>1. /\ phase'[r] = "finished" => phase[r] = "finished"
        /\ UNCHANGED <<queue, marked, current, step>>
    BY <1>9 DEF EndBlend, Types, threadVars
  <2> QED BY <1>2, <2>1 DEF LookingUp, Queued
<1>10. CASE UNCHANGED <<queue, marked, phase, current, step>>
  BY <1>2, <1>10 DEF LookingUp, Queued
<1> QED
  BY <1>1, <1>3, <1>4, <1>5, <1>6, <1>7, <1>8, <1>9, <1>10
  DEF Next, Thread, Server, Serve, Publish, Evict, ReportFinished, vars, schedulerVars,
      threadVars

LEMMA NoneLateStep ==
  ASSUME MaxTimeouts = 0, Types, Exchange, NoneLate, [Next]_vars
  PROVE  NoneLate'
<1>1. ~Timeout
  BY DEF NoneLate, Timeout
<1>2. \A k \in Rank : \A m \in wire'[k] : m.live
  BY <1>1, LateComes DEF NoneLate
<1>3. timeouts' = timeouts
  BY <1>1
  DEF Next, Thread, Start, GotMatch, GotValidate, GotPrefetch, GotUndo, Cancelled, Accept,
      Reject, GotRetract, GotCancel, Submit, Poll, Finish, StartBlend, EndBlend,
      ReportFinished, Publish, Evict, Server, Serve, vars, threadVars
<1>4. ASSUME step' \in {"validate", "prefetch"}
      PROVE  found' # NoPlan
  <2>1. \/ GotMatch \/ GotValidate \/ UNCHANGED <<step, found>>
    BY <1>1, <1>4
    DEF Next, Thread, Start, GotPrefetch, GotUndo, Cancelled, Accept, Reject, GotRetract,
        GotCancel, Answer, Goto, Submit, Poll, Finish, StartBlend, EndBlend,
        ReportFinished, Publish, Evict, Server, Serve, vars, threadVars
  <2> QED BY <1>4, <2>1 DEF GotMatch, GotValidate, Goto, NoneLate
<1> QED BY <1>2, <1>3, <1>4 DEF NoneLate

\* The thread's own steps hand the pins of its lookup on, or see them released.
LEMMA OwnerThread ==
  ASSUME Types, Turns, Results, NoneLate, Marked, Thread,
         NEW r \in Req, NEW k \in Rank, Owner(r, k)
  PROVE  Owner(r, k)'
<1>1. None \notin Req /\ First \in Rank /\ (current = None) = (step = "idle")
  BY NoneAssumption, RankAssumption DEF Types
<1>2. LookingUp(r) => phase[r] \in {"waiting", "finished"}
  BY DEF Turns
<1>3. blending' = blending
  BY DEF Thread, Start, GotMatch, GotValidate, GotPrefetch, GotUndo, Cancelled, Accept,
         Reject, GotRetract, GotCancel, workerVars
<1>4. CASE Start
  <2>1. PICK e \in Job : /\ In(queue, e) /\ current' = e[2] /\ UNCHANGED <<marked, phase>>
                         /\ step' = IF e[1] = "lookup" THEN "match" ELSE "cancel"
                         /\ \A job \in Job : In(queue, job) <=> In(queue', job) \/ job = e
    BY <1>4, StartTakes
  <2>2. e = <<e[1], e[2]>> /\ e[1] \in {"lookup", "cancel"} /\ <<"cancel", r>> \in Job
    BY DEF Job
  <2>3. step = "idle" /\ plan' = plan /\ (step' = "cancel" => reply'[k] = None)
    BY <1>4 DEF Start, Ask, Goto
  <2>4. Queued("cancel", r) => Queued("cancel", r)' \/ (current' = r /\ step' = "cancel")
    BY <2>1, <2>2 DEF Queued
  <2> QED
    BY <1>1, <1>3, <2>1, <2>3, <2>4 DEF Owner, CancelAhead, Queued, In
<1>5. CASE GotMatch \/ GotValidate
  BY <1>3, <1>5 DEF GotMatch, GotValidate, Owner, CancelAhead, schedulerVars
<1>6. CASE GotPrefetch
  <2>1. UNCHANGED <<queue, phase, plan, current>> /\ step = "prefetch" /\ found # NoPlan
    BY <1>6 DEF GotPrefetch, schedulerVars, NoneLate
  <2>2. \/ step' = "gate" /\ found' = found
        \/ step' = "undo" /\ reply'[k] = None
    BY <1>6 DEF GotPrefetch, Goto, Ask
  <2> QED BY <1>3, <2>1, <2>2 DEF Owner, CancelAhead
<1>7. CASE GotUndo \/ GotRetract \/ GotCancel
  <2>1. reply[k] # None /\ step \in {"undo", "retract", "cancel"} /\ queue' = queue
    BY <1>7 DEF GotUndo, GotRetract, GotCancel, AllAnswered, Asked, schedulerVars
  <2>2. /\ phase[r] \in {"answered", "planned"} =>
             phase'[r] = phase[r] /\ plan'[r] = plan[r]
    BY <1>1, <1>2, <1>7, <2>1
    DEF GotUndo, GotRetract, GotCancel, Answer, Types, schedulerVars, LookingUp
  <2> QED BY <1>3, <2>1, <2>2 DEF Owner, CancelAhead
<1>8. CASE Cancelled \/ Accept
  <2>1. step = "gate" /\ queue' = queue
    BY <1>8 DEF Cancelled, Accept
  <2>2. CASE current # r
    <3>1. phase'[r] = phase[r] /\ plan'[r] = plan[r]
      BY <1>8, <2>2 DEF Cancelled, Accept, Answer, Types
    <3> QED BY <1>3, <2>1, <2>2, <3>1 DEF Owner, CancelAhead
  <2>3. CASE current = r /\ (Cancelled \/ phase[r] = "finished")
    <3>1. Queued("cancel", r)
      BY <2>1, <2>3 DEF Marked, Cancelled, LookingUp
    <3> QED BY <2>1, <3>1 DEF Owner, CancelAhead, Queued, In
  <2>4. CASE current = r /\ Accept /\ phase[r] = "waiting"
    <3>1. phase'[r] = "answered" /\ plan'[r] = found
      BY <2>4 DEF Accept, Answer, Types
    <3> QED BY <1>3, <2>1, <2>4, <3>1 DEF Owner, CancelAhead
  <2> QED BY <1>2, <1>8, <2>1, <2>2, <2>3, <2>4 DEF LookingUp
<1>9. CASE Reject
  <2>1. /\ UNCHANGED <<queue, phase, plan, current>> /\ step = "gate"
        /\ step' = "retract" /\ reply'[k] = None
    BY <1>9 DEF Reject, Ask, Goto, schedulerVars
  <2> QED BY <1>3, <2>1 DEF Owner, CancelAhead
<1> QED BY <1>4, <1>5, <1>6, <1>7, <1>8, <1>9 DEF Thread

\* Steps that take no pins keep the owners of all.
LEMMA OwnedQuiet ==
  ASSUME Owned, UNCHANGED pins,
         \A r \in Req, k \in Rank : Owner(r, k) => Owner(r, k)'
  PROVE  Owned'
BY DEF Owned

LEMMA OwnedServe ==
  ASSUME Types, Exchange, NoneLate, Owned, NEW k \in Rank, NEW m \in wire[k], Serve(k, m)
  PROVE  Owned'
<1>1. /\ m = Message(Op, current, found) /\ k \in Asked
      /\ m.op = Op /\ m.req = current
  BY DEF Exchange, NoneLate, Message
<1>2. /\ UNCHANGED <<visible, queue, phase, plan, blending, current, step, found>>
      /\ \A j \in Rank : j # k => reply'[j] = reply[j] /\ pins'[j] = pins[j]
  BY DEF Serve, SetPins, Types, threadVars, schedulerVars, workerVars
<1>3. ASSUME NEW r \in Req, NEW j \in Rank, Owner(r, j), j # k \/ current # r
      PROVE  Owner(r, j)'
  BY <1>2, <1>3 DEF Owner, CancelAhead
<1>4. CASE step \in {"match", "validate"}
  <2>1. pins' = pins
    BY <1>1, <1>4 DEF Serve, Op
  <2>2. \A r \in Req, j \in Rank : Owner(r, j) => Owner(r, j)'
    BY <1>2, <1>4 DEF Owner, CancelAhead
  <2> QED BY <2>1, <2>2, OwnedQuiet
<1>5. CASE step = "prefetch"
  <2>1. ASSUME NEW r \in Req, NEW j \in Rank, current = r
        PROVE  Owner(r, j)'
    BY <1>2, <1>5, <2>1 DEF Owner
  <2>2. ASSUME NEW r \in Req, NEW j \in Rank, NEW p \in pins'[j], p[1] = r, current # r
        PROVE  p \in pins[j]
    BY <1>1, <1>2, <1>5, <2>2
    DEF Serve, SetPins, Prefetched, Op, Types, WithoutReq, PinsFor
  <2> QED BY <1>3, <2>1, <2>2 DEF Owned
<1>6. CASE step \in {"undo", "retract", "cancel"}
  <2>1. m.op = "CANCEL"
    BY <1>1, <1>6 DEF Op
  <2>2. pins'[k] = WithoutReq(pins[k], current)
    BY <1>1, <2>1 DEF Serve, SetPins, Types
  <2>3. ASSUME NEW r \in Req, NEW j \in Rank, NEW p \in pins'[j], p[1] = r
        PROVE  p \in pins[j] /\ (j # k \/ current # r)
    BY <1>2, <2>2, <2>3 DEF WithoutReq
  <2> QED BY <1>3, <2>3 DEF Owned
<1> QED BY <1>1, <1>4, <1>5, <1>6 DEF Asked

LEMMA OwnedStep ==
  ASSUME MaxTimeouts = 0, Types, Turns, Results, Exchange, NoneLate, Marked, Owned,
         [Next]_vars
  PROVE  Owned'
<1>1. ~Timeout
  BY DEF NoneLate, Timeout
<1>2. ASSUME NEW q \in Req, Submit(q) \/ Poll(q) \/ StartBlend(q)
      PROVE  Owned'
  <2>1. UNCHANGED <<pins, current, step, found, reply, plan>>
    BY <1>2 DEF Submit, Poll, StartBlend, threadVars, storeVars
  <2>2. ASSUME NEW r \in Req, Queued("cancel", r)
        PROVE  Queued("cancel", r)'
    <3>1. queue' = Append(queue, <<"lookup", q>>) \/ queue' = queue
      BY <1>2 DEF Submit, Poll, StartBlend
    <3>2. <<"lookup", q>> \in Job /\ <<"cancel", r>> \in Job
      BY DEF Job
    <3>3. In(Append(queue, <<"lookup", q>>), <<"cancel", r>>)
      BY <2>2, <3>2, AppendJob DEF Types, Queued
    <3> QED BY <2>2, <3>1, <3>3 DEF Queued
  <2>3. ASSUME NEW r \in Req, NEW k \in Rank
        PROVE  /\ k \in blending[r] => k \in blending'[r]
               /\ phase[r] \in {"answered", "planned"} /\ plan[r] # NoPlan =>
                    phase'[r] \in {"answered", "planned"} \/ k \in blending'[r]
    BY <1>2 DEF Submit, Poll, StartBlend, Types, workerVars
  <2>4. \A r \in Req, k \in Rank : Owner(r, k) => Owner(r, k)'
    BY <2>1, <2>2, <2>3 DEF Owner, CancelAhead, Queued, In
  <2> QED BY <2>1, <2>4, OwnedQuiet
<1>3. ASSUME NEW q \in Req, Finish(q)
      PROVE  Owned'
  <2>1. UNCHANGED <<pins, current, step, found, reply, blending>>
    BY <1>3 DEF Finish, threadVars, storeVars, workerVars
  <2>2. \A r \in Req : Queued("cancel", r)' <=> Queued("cancel", r) \/ r = q
    BY <1>3, FinishQueues
  <2>3. \A r \in Req : r # q => phase'[r] = phase[r] /\ plan'[r] = plan[r]
    BY <1>3 DEF Finish, Types
  <2>4. \A r \in Req, k \in Rank : Owner(r, k) => Owner(r, k)'
    BY <2>1, <2>2, <2>3 DEF Owner, CancelAhead, Queued, In
  <2> QED BY <2>1, <2>4, OwnedQuiet
<1>4. CASE Thread
  <2>1. pins' = pins
    BY <1>4
    DEF Thread, Start, GotMatch, GotValidate, GotPrefetch, GotUndo, Cancelled, Accept,
        Reject, GotRetract, GotCancel, storeVars
  <2> QED BY <1>4, <2>1, OwnerThread, OwnedQuiet
<1>5. ASSUME NEW k \in Rank, NEW s \in Seg, Publish(k, s) \/ Evict(k, s)
      PROVE  Owned'
  BY <1>5
  DEF Publish, Evict, Owned, Owner, CancelAhead, threadVars, schedulerVars, workerVars
<1>6. ASSUME NEW q \in Req, NEW j \in Rank, EndBlend(q, j) \/ ReportFinished(q, j)
      PROVE  Owned'
  <2>1. /\ UNCHANGED <<queue, plan, current, step, found, reply>>
        /\ pins' = [pins EXCEPT ![j] = WithoutReq(pins[j], q)]
    BY <1>6 DEF EndBlend, ReportFinished, SetPins, threadVars, schedulerVars
  <2>2. ASSUME NEW r \in Req, NEW k \in Rank, r # q \/ k # j, Owner(r, k)
        PROVE  Owner(r, k)'
    <3>1. /\ k \in blending[r] => k \in blending'[r]
          /\ phase[r] \in {"answered", "planned"} => phase'[r] = phase[r]
      BY <1>6, <2>2 DEF EndBlend, ReportFinished, Types, Results, schedulerVars
    <3> QED BY <2>1, <2>2, <3>1 DEF Owner, CancelAhead
  <2>3. ASSUME NEW r \in Req, NEW k \in Rank, NEW p \in pins'[k], p[1] = r
        PROVE  p \in pins[k] /\ (r # q \/ k # j)
    BY <2>1, <2>3 DEF Types, WithoutReq
  <2> QED BY <2>2, <2>3 DEF Owned
<1>7. CASE UNCHANGED vars
  BY <1>7
  DEF Owned, Owner, CancelAhead, vars, threadVars, schedulerVars, workerVars, storeVars
<1> QED BY <1>1, <1>2, <1>3, <1>4, <1>5, <1>6, <1>7, OwnedServe DEF Next, Server

LEMMA OwnersInv == MaxTimeouts = 0 => (Init => OInv) /\ (OInv /\ [Next]_vars => OInv')
<1> SUFFICES ASSUME MaxTimeouts = 0
             PROVE  (Init => OInv) /\ (OInv /\ [Next]_vars => OInv')
  OBVIOUS
<1>1. ASSUME Init
      PROVE  OInv
  <2>1. IInv
    BY <1>1, InitInv
  <2>2. Marked /\ Owned /\ NoneLate
    BY <1>1, NoneAssumption DEF Init, Marked, LookingUp, Owned, NoneLate
  <2> QED BY <2>1, <2>2 DEF OInv
<1>2. ASSUME OInv, [Next]_vars
      PROVE  OInv'
  <2>1. IInv /\ Marked /\ Owned /\ NoneLate
    BY <1>2 DEF OInv
  <2>2. Types /\ Turns /\ Results /\ Exchange
    BY <2>1, TypesSuffice DEF IInv
  <2>3. IInv'
    BY <1>2, <2>1, StepInv
  <2>4. Marked' /\ Owned' /\ NoneLate'
    BY <1>2, <2>1, <2>2, MarkedStep, OwnedStep, NoneLateStep
  <2> QED BY <2>3, <2>4 DEF OInv
<1> QED BY <1>1, <1>2

\* Without timeouts, nothing stays pinned that nobody will use or release
\* (connector.py:647-688, 884-906).
THEOREM PinsAreOwned == MaxTimeouts = 0 => (Spec => []PinsHaveOwner)
<1> SUFFICES ASSUME MaxTimeouts = 0
             PROVE  Spec => []PinsHaveOwner
  OBVIOUS
<1>1. (Init => OInv) /\ (OInv /\ [Next]_vars => OInv')
  BY OwnersInv
<1>2. OInv => PinsHaveOwner
  BY DEF OInv, Owned, Owner, PinsHaveOwner
<1> QED BY <1>1, <1>2, PTL DEF Spec

\* What ARCHITECTURE.md:113-114 says of a cancellation is true as long as no RPC times
\* out: once the pool is done with a finished request and every worker has reported
\* it, no rank has it pinned.
THEOREM CancellationWithoutTimeouts == MaxTimeouts = 0 => (Spec => []CancellationReleases)
<1> SUFFICES ASSUME MaxTimeouts = 0
             PROVE  Spec => []CancellationReleases
  OBVIOUS
<1>1. (Init => OInv) /\ (OInv /\ [Next]_vars => OInv')
  BY OwnersInv
<1>2. ASSUME OInv
      PROVE  CancellationReleases
  <2> SUFFICES ASSUME NEW r \in Req, NEW k \in Rank, NEW p \in pins[k], p[1] = r,
                      phase[r] = "finished", current # r,
                      \A i \in 1..Len(queue) : queue[i][2] # r
               PROVE  FALSE
    BY DEF CancellationReleases
  <2>1. Owner(r, k) /\ blending[r] = {}
    BY <1>2 DEF OInv, Owned, IInv, Results
  <2>2. ~CancelAhead(r, k)
    BY DEF CancelAhead
  <2> QED BY <2>1, <2>2 DEF Owner
<1> QED BY <1>1, <1>2, PTL DEF Spec

-----------------------------------------------------------------------------
(* The stores keep their contract                                          *)

LEMMA ContractRelease ==
  ASSUME NEW k \in Rank, NEW r \in Req,
         visible'[k] = visible[k], pins'[k] = WithoutReq(pins[k], r)
  PROVE  Store(k)!ContractNext
<1>1. Store(k)!WithoutReq(pins[k], r) = WithoutReq(pins[k], r)
  BY DEF WithoutReq, Store!WithoutReq
<1>2. visible[k] = visible[k] \ {}
  OBVIOUS
<1>3. Store(k)!Release(r)
  BY <1>1, <1>2 DEF Store!Release
<1> QED BY <1>3 DEF Store!ContractNext

LEMMA ContractPin ==
  ASSUME NEW k \in Rank, NEW r \in Req, NEW p \in Plans, visible'[k] = visible[k],
         pins'[k] = WithoutReq(pins[k], r) \cup PinsFor(r, p, visible[k])
  PROVE  Store(k)!ContractNext
<1>1. /\ Store(k)!WithoutReq(pins[k], r) = WithoutReq(pins[k], r)
      /\ \A S : Store(k)!PinsFor(r, p, S) = PinsFor(r, p, S)
      /\ p \in Store(k)!Plans
  BY DEF WithoutReq, Store!WithoutReq, PinsFor, Store!PinsFor, Plans, Store!Plans
<1>2. visible[k] = visible[k] \ {}
  OBVIOUS
<1>3. Store(k)!Pin(r, p)
  BY <1>1, <1>2 DEF Store!Pin
<1> QED BY <1>1, <1>3 DEF Store!ContractNext

LEMMA ContractEvict ==
  ASSUME NEW k \in Rank, NEW s \in visible[k] \ PinnedBy(pins[k]),
         visible'[k] = visible[k] \ {s}, pins'[k] = pins[k]
  PROVE  Store(k)!ContractNext
<1>1. Store(k)!PinnedBy(pins[k]) = PinnedBy(pins[k])
  BY DEF PinnedBy, Store!PinnedBy
<1>2. {s} \in SUBSET (visible[k] \ PinnedBy(pins[k]))
  OBVIOUS
<1>3. Store(k)!Evict
  BY <1>1, <1>2 DEF Store!Evict
<1> QED BY <1>3 DEF Store!ContractNext

LEMMA ContractPublish ==
  ASSUME NEW k \in Rank, NEW s \in Seg, s \notin visible[k],
         visible'[k] = visible[k] \cup {s}, pins'[k] = pins[k]
  PROVE  Store(k)!ContractNext
<1>1. /\ {} \in SUBSET (visible[k] \ Store(k)!PinnedBy(pins[k]))
      /\ visible'[k] = (visible[k] \ {}) \cup {s}
  OBVIOUS
<1>2. Store(k)!Publish(s)
  BY <1>1 DEF Store!Publish
<1> QED BY <1>2 DEF Store!ContractNext

LEMMA ContractStep ==
  ASSUME Types, [Next]_vars, NEW k \in Rank
  PROVE  [Store(k)!ContractNext]_(Store(k)!contractVars)
<1>1. CASE visible'[k] = visible[k] /\ pins'[k] = pins[k]
  BY <1>1 DEF Store!contractVars
<1>2. ASSUME NEW j \in Rank, NEW m \in wire[j], Serve(j, m)
      PROVE  \/ Store(k)!ContractNext
             \/ visible'[k] = visible[k] /\ pins'[k] = pins[k]
  <2>1. m.req \in Req /\ m.plan \in Plans /\ visible' = visible
    BY <1>2 DEF Types, Messages, Serve
  <2>2. CASE j = k /\ m.op = "PREFETCH"
    <3>1. pins'[k] = WithoutReq(pins[k], m.req) \cup PinsFor(m.req, m.plan, visible[k])
      BY <1>2, <2>2 DEF Serve, SetPins, Prefetched, Types
    <3> QED BY <2>1, <3>1, ContractPin
  <2>3. CASE j = k /\ m.op = "CANCEL"
    BY <1>2, <2>1, <2>3, ContractRelease DEF Serve, SetPins, Types
  <2>4. CASE j # k \/ m.op \notin {"PREFETCH", "CANCEL"}
    BY <1>2, <2>1, <2>4 DEF Serve, SetPins, Types
  <2> QED BY <2>2, <2>3, <2>4
<1>3. ASSUME NEW j \in Rank, NEW s \in Seg, Publish(j, s) \/ Evict(j, s)
      PROVE  \/ Store(k)!ContractNext
             \/ visible'[k] = visible[k] /\ pins'[k] = pins[k]
  <2>1. CASE j # k
    BY <1>3, <2>1 DEF Publish, Evict, Types
  <2>2. CASE j = k
    BY <1>3, <2>2, ContractPublish, ContractEvict DEF Publish, Evict, Types
  <2> QED BY <2>1, <2>2
<1>4. ASSUME NEW r \in Req, NEW j \in Rank, EndBlend(r, j) \/ ReportFinished(r, j)
      PROVE  \/ Store(k)!ContractNext
             \/ visible'[k] = visible[k] /\ pins'[k] = pins[k]
  <2>1. visible' = visible /\ pins' = [pins EXCEPT ![j] = WithoutReq(pins[j], r)]
    BY <1>4 DEF EndBlend, ReportFinished, SetPins
  <2> QED BY <2>1, ContractRelease DEF Types
<1> QED
  BY <1>1, <1>2, <1>3, <1>4
  DEF Next, Thread, Server, Start, GotMatch, GotValidate, GotPrefetch, GotUndo, Cancelled,
      Accept, Reject, GotRetract, GotCancel, Timeout, Submit, Poll, Finish, StartBlend,
      vars, storeVars

\* Every rank's store is used, and changes, only as its contract says
\* (storage.py:253-353, ipc.py:85-125).
THEOREM StoresKeepContract == Spec => RankContracts
<1>1. ASSUME IInv, [Next]_vars
      PROVE  \A k \in Rank : [Store(k)!ContractNext]_(Store(k)!contractVars)
  BY <1>1, TypesSuffice, ContractStep DEF IInv
<1>2. IInv /\ [Next]_vars =>
        [\A k \in Rank : [Store(k)!ContractNext]_(Store(k)!contractVars)]_storeVars
  BY <1>1
<1>3. Spec => [][Next]_vars
  BY DEF Spec
<1> QED BY <1>2, <1>3, InvariantHolds, PTL DEF RankContracts

=============================================================================
