----------------------------- MODULE MCPagerUI -----------------------------
(* One pager for TLC; two versions, and two marks, tell new from old.       *)
EXTENDS PagerUI, TLC

CONSTANTS v1, v2, k1, k2

Swaps == Permutations({v1, v2}) \cup Permutations({k1, k2})
=============================================================================
