---------------------------- MODULE MCIdempotency ---------------------------
(* Idempotency for TLC: three repeats of one call, two bodies.              *)
EXTENDS Idempotency
=============================================================================
