---------------------------- MODULE MCPagerLink ----------------------------
(* Two pagers for TLC; the constants are in the configurations. *)
EXTENDS PagerLink, TLC

CONSTANTS p1, p2

Swaps == Permutations({p1, p2})
=============================================================================
