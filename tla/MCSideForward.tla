--------------------------- MODULE MCSideForward ---------------------------
(***************************************************************************)
(* SideForward for TLC: three layers, spans of up to five tokens with any  *)
(* gaps, and configurations with one or two check layers.                  *)
(***************************************************************************)
EXTENDS SideForward

MCRanks == {0, 1}

MCPlans ==
  UNION {{[apc |-> a, stop |-> a + 5, gaps |-> G] :
            G \in (SUBSET (a..(a + 4))) \ {a..(a + 4)}} : a \in {0, 1}}

MCConfigs ==
  {[strategy |-> "kv_deviation", checks |-> c, ratios |-> r, radius |-> 1, tail |-> 0,
    caching |-> m] : c \in {<<1>>}, r \in {<<0>>, <<2>>}, m \in BOOLEAN}
  \cup
  {[strategy |-> "kv_deviation", checks |-> c, ratios |-> r, radius |-> 1, tail |-> 0,
    caching |-> TRUE] : c \in {<<0, 2>>, <<2, 1>>}, r \in {<<2>>, <<3, 1>>}}
  \cup
  {[strategy |-> s, checks |-> <<1>>, ratios |-> <<2>>, radius |-> d, tail |-> t,
    caching |-> TRUE] : s \in {"sparse_q", "compare"}, d \in {0, 1}, t \in {2}}

=============================================================================
