---------------------------- MODULE MCTransport ----------------------------
(* Transport for TLC: two threads that share the token cache.               *)
EXTENDS Transport
=============================================================================
