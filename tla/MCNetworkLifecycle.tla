------------------------ MODULE MCNetworkLifecycle -------------------------
(* NetworkLifecycle on small instances: one or two addresses of the home   *)
(* network, as model values.                                               *)
EXTENDS NetworkLifecycle
=============================================================================
