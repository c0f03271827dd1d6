---------------------------- MODULE MCMarketData ----------------------------
(***************************************************************************)
(* Instances of MarketDataPipeline for TLC: see the .cfg files.            *)
(***************************************************************************)
EXTENDS MarketDataPipeline, TLC

Symmetry == Permutations(Jobs) \cup Permutations(Workers)
=============================================================================
