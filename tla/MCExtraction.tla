---------------------------- MODULE MCExtraction ----------------------------
(***************************************************************************)
(* Instances of ExtractionPipeline for TLC: see the .cfg files.  Documents *)
(* and workers are interchangeable, so the safety runs use their symmetry. *)
(***************************************************************************)
EXTENDS ExtractionPipeline, TLC

Symmetry == Permutations(Jobs) \cup Permutations(Workers) \cup Permutations(Slots)
=============================================================================
