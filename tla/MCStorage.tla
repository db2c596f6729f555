----------------------------- MODULE MCStorage -----------------------------
(* Storage with few provisionings, power failures and failed calls.        *)
EXTENDS Storage
=============================================================================
