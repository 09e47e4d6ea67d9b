---------------------------- MODULE MCReconcile ----------------------------
(* Reconcile for TLC: two bills, and two requests.                          *)
EXTENDS Reconcile, TLC

CONSTANTS r1, r2

\* A run each.
Two == r1 :> "A" @@ r2 :> "B"
=============================================================================
