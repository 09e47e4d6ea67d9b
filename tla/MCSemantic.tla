----------------------------- MODULE MCSemantic -----------------------------
(* Semantic for TLC: three executions of workflow 02 for one run.           *)
EXTENDS Semantic
=============================================================================
