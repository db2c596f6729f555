----------------------------- MODULE MCListener -----------------------------
(* Listener with two brokers.                                              *)
EXTENDS Listener
=============================================================================
