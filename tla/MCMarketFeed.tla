---------------------------- MODULE MCMarketFeed ----------------------------
(* One security over two days, two sources, a restart and a page's request. *)
EXTENDS MarketFeed, TLC
Symmetry == Permutations(Sources)
=============================================================================
