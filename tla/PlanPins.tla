------------------------------ MODULE PlanPins ------------------------------
(***************************************************************************)
(* Plans and pins, as the stores, the lookup and the scheduler exchange    *)
(* them: a plan places segments at positions of a prompt (the tuple of     *)
(* BlendSegment of types.py), a pin is one such placement held by a        *)
(* request in one rank's store (storage.py, _request_pins).                *)
(***************************************************************************)

CONSTANTS
  Seg,      \* segment identities
  Req,      \* request identifiers
  Target    \* positions of a prompt where a segment can be placed

\* A lookup's segments: at most one for each target position.
Plans == UNION {[T -> Seg] : T \in SUBSET Target}

\* The segments some pin in P keeps in the store.
PinnedBy(P) == {s \in Seg : \E r \in Req, t \in Target : <<r, s, t>> \in P}

\* The pins in P of requests other than r.
WithoutReq(P, r) == {p \in P : p[1] # r}

\* The pins that request r takes for the part of plan that lies in S.
PinsFor(r, plan, S) ==
  {p \in {r} \X Seg \X Target :
     p[3] \in DOMAIN plan /\ plan[p[3]] = p[2] /\ p[2] \in S}

\* The part of plan that lies in S.
Within(plan, S) == [t \in {u \in DOMAIN plan : plan[u] \in S} |-> plan[t]]

=============================================================================
