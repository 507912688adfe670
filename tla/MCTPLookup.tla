----------------------------- MODULE MCTPLookup -----------------------------
(***************************************************************************)
(* TPLookup for TLC.  Every prompt contains every segment, in one order,   *)
(* so that concurrent requests pin the same entries.                       *)
(***************************************************************************)
EXTENDS TPLookup

CONSTANTS s1, s2

MCPrompt == [r \in Req |-> [t \in {0, 1} |-> IF t = 0 THEN s1 ELSE s2]]

\* One segment in every prompt.
MCShortPrompt == [r \in Req |-> [t \in {0} |-> s1]]

=============================================================================
