---------------------------- MODULE Connectivity ----------------------------
(***************************************************************************)
(* What the lamp's WiFi is to those outside, whatever tasks, flags and SDK *)
(* calls it takes: off, an access point or a station.  It changes from one *)
(* to the other only through a stop, it provisions only as a working       *)
(* access point, and provisioning is over before the access point goes.    *)
(***************************************************************************)
VARIABLES
    air,          \* "off", "ap" or "sta": what is on the air
    working,      \* the lamp uses it
    provisioning  \* it waits for credentials

vars == <<air, working, provisioning>>

Init == air = "off" /\ working = FALSE /\ provisioning = FALSE

(* A stop may have been refused: then only the same mode can start again.  *)
Start(mode) ==
    /\ ~working
    /\ air \in {"off", mode}
    /\ air' = mode
    /\ working' = TRUE
    /\ UNCHANGED provisioning

Stop ==
    /\ working /\ ~provisioning
    /\ air' \in {air, "off"}
    /\ working' = FALSE
    /\ UNCHANGED provisioning

BeginProvisioning ==
    /\ working /\ air = "ap" /\ ~provisioning
    /\ provisioning' = TRUE
    /\ UNCHANGED <<air, working>>

EndProvisioning ==
    /\ provisioning
    /\ provisioning' = FALSE
    /\ UNCHANGED <<air, working>>

Next ==
    \/ \E mode \in {"ap", "sta"} : Start(mode)
    \/ Stop
    \/ BeginProvisioning
    \/ EndProvisioning

Spec == Init /\ [][Next]_vars
=============================================================================
