---------------------------- MODULE MCCapSensor ----------------------------
(* CapSensor with a short pool and a short update delay.                   *)
EXTENDS CapSensor
=============================================================================
