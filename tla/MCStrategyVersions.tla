------------------------- MODULE MCStrategyVersions -------------------------
(***************************************************************************)
(* Instances of StrategyVersions for TLC: see the .cfg files.              *)
(***************************************************************************)
EXTENDS StrategyVersions, TLC

Symmetry == Permutations(Requests) \cup Permutations(Slugs) \cup Permutations(Claims)
=============================================================================
