---------------------------- MODULE MCWriteback ----------------------------
(***************************************************************************)
(* Writeback for TLC: the first request's prompt holds every segment, the  *)
(* second one's shares the first segment with it.                          *)
(***************************************************************************)
EXTENDS Writeback

CONSTANTS r1, r2, s1, s2

MCLayers == 1..2
MCChunks == r1 :> <<s1, s2>> @@ r2 :> <<s1>>

=============================================================================
