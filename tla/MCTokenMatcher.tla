--------------------------- MODULE MCTokenMatcher ---------------------------
(***************************************************************************)
(* TokenMatcher for TLC: chunks of two tokens of an alphabet of two, with  *)
(* hashes of two bits: the chunks 00 and 11 collide, and with the same     *)
(* start they have the same identity.                                      *)
(***************************************************************************)
EXTENDS TokenMatcher

Strings(n) == [1..n -> {0, 1}]

Record(scope, start, tokens) == [scope |-> scope, start |-> start, tokens |-> tokens]

\* Every chunk from two places of a prompt, and one chunk of another model.
MCRecords ==
  {Record("m", start, t) : start \in {0, 2}, t \in Strings(2)}
  \cup {Record("n", 0, <<0, 1>>)}

\* Each prompt is searched from every offset.  The long ones have room for three
\* chunks, or for two and gaps; their first and last tokens are fixed.
MCPrompts == Strings(1) \cup Strings(3) \cup {p \in Strings(7) : p[1] = 0 /\ p[7] = 0}

=============================================================================
