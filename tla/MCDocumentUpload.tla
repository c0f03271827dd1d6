-------------------------- MODULE MCDocumentUpload --------------------------
(***************************************************************************)
(* Instances of DocumentUpload for TLC: see the .cfg files.                *)
(***************************************************************************)
EXTENDS DocumentUpload, TLC

Symmetry == Permutations(Requests) \cup Permutations(Contents)
=============================================================================
