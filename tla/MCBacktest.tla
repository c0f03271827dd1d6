----------------------------- MODULE MCBacktest -----------------------------
(***************************************************************************)
(* Instances of BacktestPipeline for TLC: see the .cfg files.              *)
(***************************************************************************)
EXTENDS BacktestPipeline
=============================================================================
