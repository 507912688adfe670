---------------------------- MODULE SerialBlend ----------------------------
(***************************************************************************)
(* What the worker promises of the paged KV in each step, with no streams  *)
(* and no staging: a request's pages are blended layer by layer, vLLM's    *)
(* forward completes each layer after all that was to be blended in it,    *)
(* and what is saved is a layer completed in the same step.                *)
(*                                                                         *)
(* The pages of a request and a layer hold <<step, quality>>: "blend"      *)
(* after the side forward, "full" after the forward, "void" when the side  *)
(* forward failed and vLLM discards them.                                  *)
(***************************************************************************)
EXTENDS Integers

CONSTANTS
  Slots,      \* where requests are placed in a step
  NumLayers,  \* layers of the model
  MaxSteps    \* bound on the steps

VARIABLES
  pages,      \* <<step, quality>> by slot and layer
  published   \* <<slot, layer, what was saved>>

Layers == 0..(NumLayers - 1)

SerialInit ==
  /\ pages = [i \in Slots |-> [l \in Layers |-> <<0, "full">>]]
  /\ published = {}

\* The side forward's commit: earlier layers have been blended in this step, and
\* this one not.
Blend(n, i, l) ==
  /\ pages[i][l][1] < n
  /\ \A k \in 0..(l - 1) : pages[i][k] = <<n, "blend">>
  /\ pages' = [pages EXCEPT ![i][l] = <<n, "blend">>]
  /\ UNCHANGED published

\* One layer of the forward, for requests blended in all layers that are left or
\* in none.  The requests of V failed.
Forward(n, l, V) ==
  /\ \A i \in Slots, k \in 0..(l - 1) : pages[i][k] \in {<<n, "full">>, <<n, "void">>}
  /\ \A i \in Slots : pages[i][l] \notin {<<n, "full">>, <<n, "void">>}
  /\ \A i \in Slots \ V :
       \/ \A k \in l..(NumLayers - 1) : pages[i][k] = <<n, "blend">>
       \/ \A k \in l..(NumLayers - 1) : pages[i][k][1] < n
  /\ pages' = [i \in Slots |-> [pages[i] EXCEPT ![l] =
                 <<n, IF i \in V THEN "void" ELSE "full">>]]
  /\ UNCHANGED published

\* A saved layer is what its pages hold, completed, when it becomes visible.
Save(i, l) ==
  /\ pages[i][l][2] \in {"full", "void"}
  /\ published' = published \cup {<<i, l, pages[i][l]>>}
  /\ UNCHANGED pages

SerialNext ==
  \E l \in Layers :
    \/ \E n \in 1..MaxSteps :
         \/ \E i \in Slots : Blend(n, i, l)
         \/ \E V \in SUBSET Slots : Forward(n, l, V)
    \/ \E i \in Slots : Save(i, l)

SerialSpec == SerialInit /\ [][SerialNext]_<<pages, published>>

=============================================================================
