--------------------------- MODULE MCPinnedStore ---------------------------
(***************************************************************************)
(* PinnedStore for TLC: symmetric segments, layers and requests.  Target   *)
(* is ordered and is not symmetric.                                        *)
(***************************************************************************)
EXTENDS PinnedStore, TLC

Symmetry == Permutations(Seg) \cup Permutations(Layer) \cup Permutations(Req)

=============================================================================
