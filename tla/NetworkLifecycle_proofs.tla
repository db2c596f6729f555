---------------------- MODULE NetworkLifecycle_proofs ----------------------
(***************************************************************************)
(* Proofs about NetworkLifecycle, for every set of addresses, every bound  *)
(* and either boot: the types, provisioning within the access point, the   *)
(* sockets of a serving lamp, and that it implements Connectivity.         *)
(***************************************************************************)
EXTENDS NetworkLifecycle, TLAPS

(* The invariant of the WiFi's mode.                                       *)

(* The radio sends in the mode that the WiFi manager was initialized for.  *)
RadioInMode ==
    radio \in {"ap", "sta"} => is_initialized /\ current_mode = radio

(* WiFi that counts as working is on the air, until a shutdown stops it.   *)
WorkingOnAir ==
    network_task_working /\ netPc # "delete" => radio \in {"ap", "sta"}

(* Where a shutdown is, and what it has done by then.                      *)
ShutdownPhases ==
    /\ netPc \in {"close", "stop", "delete"} => network_task_working
    /\ netPc \in {"boot", "ap"} => ~network_task_working
    /\ netPc \in {"stop", "delete"} => ~is_provisioning
    /\ netPc = "delete" => radio = "stopped"

(* A phone's event that may still lead to provisioning is of an access     *)
(* point that is up: those from before are dropped with START_STA.         *)
PhoneHasAp ==
    /\ "AP_STA_CONNECTED" \in netNotification
    /\ \/ network_task_working /\ netPc # "delete"
       \/ netPc \in {"delay", "sta"}
    => radio = "ap"

WifiInv ==
    /\ RadioInMode
    /\ WorkingOnAir
    /\ ShutdownPhases
    /\ PhoneHasAp
    /\ ProvisioningOnlyOnAp

(* The invariant of a lamp that nobody pressed and no call failed for: it  *)
(* has only been a station.                                                *)
Quiet == presses = 0 /\ faults = 0

OnlyStation ==
    /\ buttonPc = "idle"
    /\ netPc \in {"boot", "wait", "delay", "sta", "ops", "held"}
    /\ netNotification \subseteq {"START_STA"}
    /\ radio \in {"off", "sta"}
    /\ link # "down" => radio = "sta"
    /\ ~is_provisioning

(* The sockets are opened one after the other, for a link that is up.      *)
SocketsFollowLink ==
    /\ handlerPc \in {"gotIp", "listener"} =>
           link = "up" /\ ~sta_connected /\ ip_info # NoIp
    /\ handlerPc = "listener" => discoverySocket # NoIp
    /\ sta_connected =>
           /\ link = "up"
           /\ discoverySocket # NoIp /\ listenerSocket # NoIp

QuietInv == Quiet => OnlyStation /\ SocketsFollowLink

(* What the handler binds the servers to is an address.                    *)
AddressGiven == handlerPc \in {"gotIp", "listener"} => ip_info \in Ip

IInv == TypeOK /\ AddressGiven /\ WifiInv /\ QuietInv

-----------------------------------------------------------------------------
(* What steps have in common.                                              *)

(* A bound is used up by one at a time, and not beyond its end.            *)
LEMMA StepCounts ==
    ASSUME [Next]_vars
    PROVE  /\ \/ presses' = presses
              \/ presses < MaxPresses /\ presses' = presses + 1
           /\ \/ drops' = drops
              \/ drops < MaxDrops /\ drops' = drops + 1
           /\ NoFault \/ Fault
<1> USE DEF mainVars, netVars, flagVars, managerVars, socketVars, sdkVars,
    Fault, NoFault
<1>1. CASE UNCHANGED vars
    BY <1>1 DEF vars
<1>2. CASE Boot
    BY <1>2 DEF Boot, BootLoad, BootNotify
<1>3. CASE Button
    BY <1>3 DEF Button, PressReset, ResetDelayOver, PressDiscovery, Press
<1>4. CASE NetworkTask
    BY <1>4
    DEF NetworkTask, BootDelayOver, WaitTimeout, ServeShutdown,
        ServeApStaConnected, ServeApStaDisconnected, ServeStartSta,
        CloseServers, StopRadio, DeleteEventLoop, StartAp, StaDelayOver,
        StartSta, InitSucceeds, InitFails, ServeClients, HeldTurnEnds,
        RestartStation, NothingToDo, ProvisionPacket
<1>5. CASE Handler
    BY <1>5
    DEF Handler, LinkAnswers, HandlerGoesOn, ApStaConnected, ApStaDisconnected,
        StaStart, GotIp, StaDisconnected, ConnectAccepted, ConnectRefused,
        RetryConnection, StartRetriesOver, NoRetry, DisconnectedDelayOver,
        GotIpDelayOver, InitListener
<1> QED  BY <1>1, <1>2, <1>3, <1>4, <1>5 DEF Next

(* Nobody takes an event but the network task, which takes all of them.    *)
LEMMA StepNotifies ==
    ASSUME [Next]_vars
    PROVE  \/ netNotification' \in {netNotification, {}}
           \/ \E e \in NetEvent : Notify(e)
<1> USE DEF mainVars, netVars, flagVars, managerVars, socketVars, sdkVars,
    NetEvent
<1>1. CASE UNCHANGED vars
    BY <1>1 DEF vars
<1>2. CASE Boot
    BY <1>2 DEF Boot, BootLoad, BootNotify
<1>3. CASE Button
    BY <1>3 DEF Button, PressReset, ResetDelayOver, PressDiscovery, Press
<1>4. CASE NetworkTask
    BY <1>4
    DEF NetworkTask, BootDelayOver, WaitTimeout, ServeShutdown,
        ServeApStaConnected, ServeApStaDisconnected, ServeStartSta,
        CloseServers, StopRadio, DeleteEventLoop, StartAp, StaDelayOver,
        StartSta, InitSucceeds, InitFails, ServeClients, HeldTurnEnds,
        RestartStation, NothingToDo, ProvisionPacket, Served
<1>5. CASE Handler
    BY <1>5
    DEF Handler, LinkAnswers, HandlerGoesOn, ApStaConnected, ApStaDisconnected,
        StaStart, GotIp, StaDisconnected, ConnectAccepted, ConnectRefused,
        RetryConnection, StartRetriesOver, NoRetry, DisconnectedDelayOver,
        GotIpDelayOver, InitListener
<1> QED  BY <1>1, <1>2, <1>3, <1>4, <1>5 DEF Next

-----------------------------------------------------------------------------
(* Types.                                                                  *)

LEMMA InitType == Init => TypeOK
<1> SUFFICES ASSUME Init PROVE TypeOK
    OBVIOUS
<1>1. FlagsOK
    BY Zenon DEF Init, FlagsOK
<1>2. StatesOK
    BY DEF Init, StatesOK, NetPc, HandlerPc, Link, NetEvent
<1>3. BoundsOK
    BY BoundAssumption DEF Init, BoundsOK
<1> QED  BY <1>1, <1>2, <1>3 DEF TypeOK

(* A flag is left alone, set or cleared.                                   *)
LEMMA FlagsMove ==
    ASSUME [Next]_vars
    PROVE  /\ \/ UNCHANGED is_provisioning
              \/ is_provisioning' = TRUE \/ is_provisioning' = FALSE
           /\ UNCHANGED credentials_ok \/ credentials_ok' = TRUE
           /\ \/ UNCHANGED ap_credentials_available
              \/ ap_credentials_available' = TRUE
              \/ ap_credentials_available' = stored
           /\ \/ UNCHANGED network_task_working
              \/ network_task_working' = TRUE \/ network_task_working' = FALSE
           /\ \/ UNCHANGED sta_connected
              \/ sta_connected' = TRUE \/ sta_connected' = FALSE
           /\ \/ UNCHANGED cap_sensor_active
              \/ cap_sensor_active' = TRUE \/ cap_sensor_active' = FALSE
           /\ \/ UNCHANGED is_initialized
              \/ is_initialized' = TRUE \/ is_initialized' = FALSE
           /\ \/ UNCHANGED eventLoop
              \/ eventLoop' = TRUE \/ eventLoop' = FALSE
           /\ \/ UNCHANGED apStation
              \/ apStation' = TRUE \/ apStation' = FALSE
           /\ \/ UNCHANGED provisionSocket
              \/ provisionSocket' = TRUE \/ provisionSocket' = FALSE
           /\ UNCHANGED stored
<1> USE DEF mainVars, netVars, flagVars, managerVars, socketVars, sdkVars
<1>1. CASE UNCHANGED vars
    BY <1>1 DEF vars
<1>2. CASE Boot
    BY <1>2 DEF Boot, BootLoad, BootNotify
<1>3. CASE Button
    BY <1>3 DEF Button, PressReset, ResetDelayOver, PressDiscovery, Press
<1>4. CASE NetworkTask
  <2>1. CASE BootDelayOver \/ WaitTimeout \/ StaDelayOver \/ ServeStartSta
      BY <2>1 DEF BootDelayOver, WaitTimeout, StaDelayOver, ServeStartSta
  <2>2. CASE \E e \in {"SHUTDOWN", "START_AP"} : ServeShutdown(e)
      BY <2>2 DEF ServeShutdown
  <2>3. CASE ServeApStaConnected
      BY <2>3 DEF ServeApStaConnected
  <2>4. CASE ServeApStaDisconnected
      BY <2>4 DEF ServeApStaDisconnected, EndProvisioning
  <2>5. CASE CloseServers
      BY <2>5 DEF CloseServers, EndProvisioning
  <2>6. CASE StopRadio
      BY <2>6 DEF StopRadio, ShutdownDone
  <2>7. CASE DeleteEventLoop
      BY <2>7 DEF DeleteEventLoop, ShutdownDone
  <2>8. CASE StartAp
      BY <2>8 DEF StartAp, InitSucceeds, InitFails
  <2>9. CASE StartSta
      BY <2>9 DEF StartSta, InitSucceeds, InitFails
  <2>10. CASE ServeClients \/ HeldTurnEnds \/ RestartStation \/ NothingToDo
      BY <2>10 DEF ServeClients, HeldTurnEnds, RestartStation, NothingToDo
  <2>11. CASE ProvisionPacket
      BY <2>11 DEF ProvisionPacket, EndProvisioning
  <2> QED
      BY <1>4, <2>1, <2>2, <2>3, <2>4, <2>5, <2>6, <2>7, <2>8, <2>9, <2>10,
          <2>11, Zenon DEF NetworkTask
<1>5. CASE Handler
    BY <1>5
    DEF Handler, LinkAnswers, HandlerGoesOn, ApStaConnected, ApStaDisconnected,
        StaStart, GotIp, StaDisconnected, ConnectAccepted, ConnectRefused,
        RetryConnection, StartRetriesOver, NoRetry, DisconnectedDelayOver,
        GotIpDelayOver, InitListener, NotConnected, SensorOn
<1> QED  BY <1>1, <1>2, <1>3, <1>4, <1>5, Zenon DEF Next

(* A flag that stays, or becomes TRUE or FALSE, is still a flag.           *)
LEMMA FlagType ==
    \A v, w : v \in BOOLEAN /\ (w = v \/ w = TRUE \/ w = FALSE)
                  => w \in BOOLEAN
BY Zenon

(* So every step keeps the types of the flags.                             *)
LEMMA FlagsStep == FlagsOK /\ [Next]_vars => FlagsOK'
<1> SUFFICES ASSUME FlagsOK, [Next]_vars PROVE FlagsOK'
    OBVIOUS
<1>1. /\ is_provisioning' \in BOOLEAN
      /\ credentials_ok' \in BOOLEAN
      /\ ap_credentials_available' \in BOOLEAN
    BY FlagsMove, FlagType, Zenon DEF FlagsOK
<1>2. /\ network_task_working' \in BOOLEAN
      /\ sta_connected' \in BOOLEAN
      /\ cap_sensor_active' \in BOOLEAN
    BY FlagsMove, FlagType, Zenon DEF FlagsOK
<1>3. /\ is_initialized' \in BOOLEAN
      /\ provisionSocket' \in BOOLEAN
      /\ eventLoop' \in BOOLEAN
      /\ apStation' \in BOOLEAN
      /\ stored' \in BOOLEAN
    BY FlagsMove, FlagType, Zenon DEF FlagsOK
<1> QED  BY <1>1, <1>2, <1>3 DEF FlagsOK

(* Presses, drops and faults stop at their bounds.                         *)
LEMMA BoundsStep == BoundsOK /\ [Next]_vars => BoundsOK'
BY StepCounts, BoundAssumption DEF BoundsOK, Fault, NoFault

(* The network task is only ever notified of its own events.               *)
LEMMA NotificationType ==
    ASSUME netNotification \subseteq NetEvent, [Next]_vars
    PROVE  netNotification' \subseteq NetEvent
BY StepNotifies DEF Notify

(* Every step keeps it: only the address that was given is taken.          *)
LEMMA AddressStep == AddressGiven /\ [Next]_vars => AddressGiven'
<1> USE DEF AddressGiven, mainVars, netVars, flagVars, managerVars, socketVars,
    sdkVars
<1>1. ASSUME AddressGiven, UNCHANGED vars PROVE AddressGiven'
    BY <1>1 DEF vars
<1>2. ASSUME AddressGiven, Boot \/ Button PROVE AddressGiven'
    BY <1>2
    DEF Boot, BootLoad, BootNotify, Button, PressReset, ResetDelayOver,
        PressDiscovery
<1>3. ASSUME AddressGiven, NetworkTask PROVE AddressGiven'
    BY <1>3
    DEF NetworkTask, BootDelayOver, WaitTimeout, ServeShutdown,
        ServeApStaConnected, ServeApStaDisconnected, ServeStartSta,
        CloseServers, StopRadio, DeleteEventLoop, StartAp, StaDelayOver,
        StartSta, ServeClients, HeldTurnEnds, RestartStation, NothingToDo,
        ProvisionPacket
<1>4. ASSUME AddressGiven, Handler PROVE AddressGiven'
    BY <1>4
    DEF Handler, LinkAnswers, HandlerGoesOn, ApStaConnected, ApStaDisconnected,
        StaStart, GotIp, StaDisconnected, DisconnectedDelayOver,
        GotIpDelayOver, InitListener
<1> QED  BY <1>1, <1>2, <1>3, <1>4 DEF Next

(* An address is bound only after it was given.                            *)
LEMMA StatesStep == StatesOK /\ AddressGiven /\ [Next]_vars => StatesOK'
<1> SUFFICES ASSUME StatesOK, AddressGiven, [Next]_vars PROVE StatesOK'
    OBVIOUS
<1> USE DEF StatesOK, mainVars, netVars, flagVars, managerVars, socketVars,
    sdkVars
<1>1. netNotification' \subseteq NetEvent
    BY NotificationType
<1> USE <1>1
<1>2. CASE UNCHANGED vars
    BY <1>2 DEF vars
<1>3. CASE Boot
    BY <1>3 DEF Boot, BootLoad, BootNotify
<1>4. CASE Button
    BY <1>4 DEF Button, PressReset, ResetDelayOver, PressDiscovery, Press
<1>5. CASE NetworkTask
  <2> USE DEF NetPc
  <2>1. CASE BootDelayOver \/ WaitTimeout \/ StaDelayOver \/ ServeStartSta
      BY <2>1 DEF BootDelayOver, WaitTimeout, StaDelayOver, ServeStartSta
  <2>2. CASE \E e \in {"SHUTDOWN", "START_AP"} : ServeShutdown(e)
      BY <2>2 DEF ServeShutdown, AfterShutdown
  <2>3. CASE ServeApStaConnected \/ ServeApStaDisconnected
      BY <2>3 DEF ServeApStaConnected, ServeApStaDisconnected
  <2>4. CASE CloseServers
      BY <2>4 DEF CloseServers
  <2>5. CASE StopRadio
      BY <2>5 DEF StopRadio, ShutdownDone, AfterShutdown
  <2>6. CASE DeleteEventLoop
      BY <2>6 DEF DeleteEventLoop, ShutdownDone, AfterShutdown, Link
  <2>7. CASE StartAp
      BY <2>7 DEF StartAp, InitSucceeds, InitFails
  <2>8. CASE StartSta
      BY <2>8 DEF StartSta, InitSucceeds, InitFails, Link
  <2>9. CASE ServeClients \/ HeldTurnEnds \/ RestartStation \/ NothingToDo
      BY <2>9 DEF ServeClients, HeldTurnEnds, RestartStation, NothingToDo
  <2>10. CASE ProvisionPacket
      BY <2>10 DEF ProvisionPacket
  <2> QED
      BY <1>5, <2>1, <2>2, <2>3, <2>4, <2>5, <2>6, <2>7, <2>8, <2>9, <2>10
      DEF NetworkTask
<1>6. CASE Handler
  <2> USE DEF HandlerPc, Link
  <2>1. CASE ApStaConnected \/ ApStaDisconnected
      BY <2>1 DEF ApStaConnected, ApStaDisconnected
  <2>2. CASE StaStart
      BY <2>2 DEF StaStart, ConnectAccepted, ConnectRefused
  <2>3. CASE StaDisconnected
    <3>1. connection_retries' \in 0 .. 2 /\ link' \in Link
        BY <2>3
        DEF StaDisconnected, ConnectAccepted, ConnectRefused, RetryConnection,
            StartRetriesOver, NoRetry, MaxRetries
    <3> QED  BY <2>3, <3>1 DEF StaDisconnected
  <2>4. CASE \E a \in Ip : GotIp(a)
      BY <2>4 DEF GotIp
  <2>5. CASE DisconnectedDelayOver
      BY <2>5 DEF DisconnectedDelayOver
  <2>6. CASE GotIpDelayOver
      BY <2>6 DEF GotIpDelayOver, AddressGiven
  <2>7. CASE InitListener
      BY <2>7 DEF InitListener, AddressGiven
  <2> QED
      BY <1>6, <2>1, <2>2, <2>3, <2>4, <2>5, <2>6, <2>7
      DEF Handler, LinkAnswers, HandlerGoesOn
<1> QED  BY <1>2, <1>3, <1>4, <1>5, <1>6 DEF Next

-----------------------------------------------------------------------------
(* The WiFi's mode.                                                        *)

LEMMA WifiInit == Init => WifiInv
BY DEF Init, WifiInv, RadioInMode, WorkingOnAir, ShutdownPhases, PhoneHasAp,
    ProvisioningOnlyOnAp

(* Every step of every task keeps the invariant of the mode.               *)
LEMMA WifiStep == WifiInv /\ [Next]_vars => WifiInv'
<1> SUFFICES ASSUME WifiInv, [Next]_vars PROVE WifiInv'
    OBVIOUS
<1> USE DEF WifiInv, RadioInMode, WorkingOnAir, ShutdownPhases, PhoneHasAp,
    ProvisioningOnlyOnAp, mainVars, netVars, flagVars, managerVars, socketVars,
    sdkVars
<1>1. CASE UNCHANGED vars
    BY <1>1 DEF vars
<1>2. CASE Boot \/ Button
    BY <1>2
    DEF Boot, BootLoad, BootNotify, Button, PressReset, ResetDelayOver,
        PressDiscovery, Press, Notify
<1>3. CASE NetworkTask
  <2>1. CASE BootDelayOver \/ WaitTimeout \/ StaDelayOver \/ ServeStartSta
      BY <2>1
      DEF BootDelayOver, WaitTimeout, StaDelayOver, ServeStartSta, Served
  <2>2. CASE \E e \in {"SHUTDOWN", "START_AP"} : ServeShutdown(e)
      BY <2>2 DEF ServeShutdown, AfterShutdown, Served
  <2>3. CASE ServeApStaConnected \/ ServeApStaDisconnected
    <3>1. CASE ServeApStaConnected
      <4>1. \/ UNCHANGED <<is_provisioning, provisionSocket>>
            \/ is_provisioning' /\ provisionSocket' /\ network_task_working
          BY <3>1 DEF ServeApStaConnected, MayProvision
      <4> QED  BY <3>1, <4>1 DEF ServeApStaConnected, Served
    <3>2. CASE ServeApStaDisconnected
      BY <3>2 DEF ServeApStaDisconnected, EndProvisioning, Served
    <3> QED  BY <2>3, <3>1, <3>2
  <2>4. CASE CloseServers
      BY <2>4 DEF CloseServers, EndProvisioning
  <2>5. CASE StopRadio
      BY <2>5 DEF StopRadio, ShutdownDone, AfterShutdown
  <2>6. CASE DeleteEventLoop
      BY <2>6 DEF DeleteEventLoop, ShutdownDone, AfterShutdown
  <2>7. CASE StartAp
      BY <2>7 DEF StartAp, InitSucceeds, InitFails
  <2>8. CASE StartSta
      BY <2>8 DEF StartSta, InitSucceeds, InitFails, CanInit
  <2>9. CASE ServeClients \/ HeldTurnEnds \/ RestartStation \/ NothingToDo
      BY <2>9
      DEF ServeClients, HeldTurnEnds, RestartStation, NothingToDo, Notify
  <2>10. CASE ProvisionPacket
      BY <2>10 DEF ProvisionPacket, EndProvisioning, Notify
  <2> QED
      BY <1>3, <2>1, <2>2, <2>3, <2>4, <2>5, <2>6, <2>7, <2>8, <2>9, <2>10
      DEF NetworkTask
<1>4. CASE Handler
    BY <1>4
    DEF Handler, LinkAnswers, HandlerGoesOn, ApStaConnected, ApStaDisconnected,
        StaStart, GotIp, StaDisconnected, DisconnectedDelayOver,
        GotIpDelayOver, InitListener, Notify
<1> QED  BY <1>1, <1>2, <1>3, <1>4 DEF Next

-----------------------------------------------------------------------------
(* The servers' sockets.                                                   *)

LEMMA QuietInit == Init => QuietInv
BY DEF Init, QuietInv, Quiet, OnlyStation, SocketsFollowLink

(* Presses and faults are never taken back.                                *)
LEMMA QuietStep ==
    ASSUME BoundsOK, [Next]_vars, Quiet'
    PROVE  Quiet /\ ~Press /\ ~Fault
<1>1. presses \in Nat /\ faults \in Nat
    BY BoundAssumption DEF BoundsOK
<1>2. presses' # presses + 1 /\ faults' # faults + 1
    BY <1>1 DEF Quiet
<1> QED
    BY <1>2, StepCounts DEF Quiet, Press, Fault, NoFault

(* Without a press or a fault the lamp stays a station.                    *)
LEMMA StationStep ==
    ASSUME OnlyStation, SocketsFollowLink, [Next]_vars, ~Press, ~Fault
    PROVE  OnlyStation'
<1> USE DEF OnlyStation, mainVars, netVars, flagVars, managerVars, socketVars,
    sdkVars
<1>1. CASE UNCHANGED vars
    BY <1>1 DEF vars
<1>2. CASE \/ BootLoad \/ BootNotify \/ PressReset \/ ResetDelayOver
           \/ PressDiscovery
  <2>1. CASE BootLoad
      BY <2>1 DEF BootLoad
  <2>2. CASE BootNotify
      BY <2>2 DEF BootNotify, Notify
  <2>3. CASE PressReset
      BY <2>3 DEF PressReset
  <2>4. CASE ResetDelayOver
      BY <2>4 DEF ResetDelayOver, Notify
  <2>5. CASE PressDiscovery
      BY <2>5 DEF PressDiscovery, Notify
  <2> QED  BY <1>2, <2>1, <2>2, <2>3, <2>4, <2>5
<1>3. CASE NetworkTask
  <2>1. CASE BootDelayOver \/ WaitTimeout \/ StaDelayOver \/ ServeStartSta
    <3>1. CASE BootDelayOver
        BY <3>1 DEF BootDelayOver
    <3>2. CASE WaitTimeout
        BY <3>2 DEF WaitTimeout
    <3>3. CASE StaDelayOver
        BY <3>3 DEF StaDelayOver
    <3>4. CASE ServeStartSta
        BY <3>4 DEF ServeStartSta, Served
    <3> QED  BY <2>1, <3>1, <3>2, <3>3, <3>4
  <2>2. CASE \E e \in {"SHUTDOWN", "START_AP"} : ServeShutdown(e)
      BY <2>2 DEF ServeShutdown, Served
  <2>3. CASE ServeApStaConnected \/ ServeApStaDisconnected
      BY <2>3 DEF ServeApStaConnected, ServeApStaDisconnected, Served
  <2>4. CASE CloseServers \/ StopRadio \/ DeleteEventLoop \/ StartAp
      BY <2>4 DEF CloseServers, StopRadio, DeleteEventLoop, StartAp
  <2>5. CASE StartSta
      BY <2>5 DEF StartSta, InitSucceeds, InitFails
  <2>6. CASE RestartStation \/ NothingToDo
    <3>1. CASE RestartStation
        BY <3>1 DEF RestartStation, Notify
    <3>2. CASE NothingToDo
        BY <3>2 DEF NothingToDo
    <3> QED  BY <2>6, <3>1, <3>2
  <2>7. CASE ServeClients \/ HeldTurnEnds
    <3>1. CASE ServeClients
        BY <3>1 DEF ServeClients, Notify, SocketsFollowLink, Serving
    <3>2. CASE HeldTurnEnds
        BY <3>2 DEF HeldTurnEnds
    <3> QED  BY <2>7, <3>1, <3>2
  <2>8. CASE ProvisionPacket
      BY <2>8 DEF ProvisionPacket, Provisions
  <2> QED
      BY <1>3, <2>1, <2>2, <2>3, <2>4, <2>5, <2>6, <2>7, <2>8 DEF NetworkTask
<1>4. CASE Handler
  <2>1. CASE ApStaConnected \/ ApStaDisconnected
      BY <2>1 DEF ApStaConnected, ApStaDisconnected
  <2>2. CASE StaStart
      BY <2>2 DEF StaStart, ConnectAccepted, ConnectRefused
  <2>3. CASE StaDisconnected
      BY <2>3
      DEF StaDisconnected, ConnectAccepted, ConnectRefused, RetryConnection,
          StartRetriesOver, NoRetry
  <2>4. CASE \E a \in Ip : GotIp(a)
      BY <2>4 DEF GotIp
  <2>5. CASE DisconnectedDelayOver \/ GotIpDelayOver \/ InitListener
    <3>1. CASE DisconnectedDelayOver
        BY <3>1 DEF DisconnectedDelayOver
    <3>2. CASE GotIpDelayOver
        BY <3>2 DEF GotIpDelayOver
    <3>3. CASE InitListener
        BY <3>3 DEF InitListener
    <3> QED  BY <2>5, <3>1, <3>2, <3>3
  <2> QED
      BY <1>4, <2>1, <2>2, <2>3, <2>4, <2>5
      DEF Handler, LinkAnswers, HandlerGoesOn
<1> QED  BY <1>1, <1>2, <1>3, <1>4 DEF Next, Boot, Button

(* And its sockets are opened before they are served.                      *)
LEMMA SocketsStep ==
    ASSUME OnlyStation, SocketsFollowLink, AddressGiven, [Next]_vars, ~Press,
           ~Fault
    PROVE  SocketsFollowLink'
<1> USE DEF SocketsFollowLink, mainVars, netVars, flagVars, managerVars,
    socketVars, sdkVars
<1>1. CASE UNCHANGED vars
    BY <1>1 DEF vars
<1>2. CASE Boot \/ Button
    BY <1>2
    DEF Boot, BootLoad, BootNotify, Button, PressReset, ResetDelayOver,
        PressDiscovery
<1>3. CASE NetworkTask
  <2>1. CASE BootDelayOver \/ WaitTimeout \/ StaDelayOver \/ ServeStartSta
      BY <2>1
      DEF BootDelayOver, WaitTimeout, StaDelayOver, ServeStartSta, Served
  <2>2. CASE \E e \in {"SHUTDOWN", "START_AP"} : ServeShutdown(e)
      BY <2>2 DEF ServeShutdown, Served
  <2>3. CASE ServeApStaConnected \/ ServeApStaDisconnected
      BY <2>3 DEF ServeApStaConnected, ServeApStaDisconnected, Served
  <2>4. CASE CloseServers \/ StopRadio \/ DeleteEventLoop \/ StartAp
      BY <2>4
      DEF CloseServers, StopRadio, DeleteEventLoop, StartAp, OnlyStation
  <2>5. CASE StartSta
      BY <2>5 DEF StartSta, InitSucceeds, InitFails, OnlyStation
  <2>6. CASE \/ RestartStation \/ NothingToDo \/ ServeClients \/ HeldTurnEnds
             \/ ProvisionPacket
    <3>1. CASE RestartStation
        BY <3>1 DEF RestartStation, Notify
    <3>2. CASE NothingToDo
        BY <3>2 DEF NothingToDo
    <3>3. CASE ServeClients \/ HeldTurnEnds
        BY <3>3 DEF ServeClients, HeldTurnEnds, Notify
    <3>4. CASE ProvisionPacket
        BY <3>4 DEF ProvisionPacket, Notify
    <3> QED  BY <2>6, <3>1, <3>2, <3>3, <3>4
  <2> QED  BY <1>3, <2>1, <2>2, <2>3, <2>4, <2>5, <2>6 DEF NetworkTask
<1>4. CASE Handler
  <2>1. CASE ApStaConnected \/ ApStaDisconnected
      BY <2>1 DEF ApStaConnected, ApStaDisconnected
  <2>2. CASE StaStart
      BY <2>2 DEF StaStart, Takes, ConnectAccepted, ConnectRefused
  <2>3. CASE StaDisconnected
      BY <2>3 DEF StaDisconnected, Takes, NotConnected
  <2>4. CASE \E a \in Ip : GotIp(a)
      BY <2>4, IpAssumption DEF GotIp, Takes
  <2>5. CASE DisconnectedDelayOver
      BY <2>5 DEF DisconnectedDelayOver
  <2>6. CASE GotIpDelayOver \/ InitListener
      BY <2>6, IpAssumption DEF GotIpDelayOver, InitListener, AddressGiven
  <2> QED
      BY <1>4, <2>1, <2>2, <2>3, <2>4, <2>5, <2>6
      DEF Handler, LinkAnswers, HandlerGoesOn
<1> QED  BY <1>1, <1>2, <1>3, <1>4 DEF Next, Boot, Button

-----------------------------------------------------------------------------
(* The inductive invariant.                                                *)

LEMMA InitIInv == Init => IInv
<1>1. Init => AddressGiven
    BY DEF Init, AddressGiven
<1> QED  BY <1>1, InitType, WifiInit, QuietInit DEF IInv

(* Every step keeps the inductive invariant.                               *)
LEMMA StepIInv == IInv /\ [Next]_vars => IInv'
<1> SUFFICES ASSUME IInv, [Next]_vars PROVE IInv'
    OBVIOUS
<1>1. TypeOK'
    BY FlagsStep, StatesStep, BoundsStep DEF IInv, TypeOK
<1>2. QuietInv'
  <2> SUFFICES ASSUME Quiet' PROVE OnlyStation' /\ SocketsFollowLink'
      BY DEF QuietInv
  <2>1. Quiet /\ ~Press /\ ~Fault
      BY QuietStep DEF IInv, TypeOK
  <2> QED
      BY <2>1, StationStep, SocketsStep DEF IInv, QuietInv
<1> QED  BY <1>1, <1>2, AddressStep, WifiStep DEF IInv

(* It holds in every reachable state.                                      *)
LEMMA Inductive == Spec => []IInv
BY InitIInv, StepIInv, PTL DEF Spec

-----------------------------------------------------------------------------
(* Theorems.                                                               *)

(* Every flag, state and socket of the WiFi's tasks keeps its type.        *)
THEOREM TypeCorrect == Spec => []TypeOK
<1>1. IInv => TypeOK
    BY DEF IInv
<1> QED  BY <1>1, Inductive, PTL

(* Provisioning stays within the life of the lamp's own access point, and  *)
(* its socket is open exactly then.                                        *)
THEOREM ProvisioningOnlyOnApHolds == Spec => []ProvisioningOnlyOnAp
<1>1. IInv => ProvisioningOnlyOnAp
    BY DEF IInv, WifiInv
<1> QED  BY <1>1, Inductive, PTL

(* Until a press or a fault, the servers that the network task listens on  *)
(* are open, however often the link was lost and came back.                *)
THEOREM ServingHasSocketsHolds == Spec => []ServingHasSockets
<1>1. IInv => ServingHasSockets
    BY DEF IInv, QuietInv, Quiet, SocketsFollowLink, ServingHasSockets, Serving
<1> QED  BY <1>1, Inductive, PTL

-----------------------------------------------------------------------------
(* The refinement of Connectivity.                                         *)

(* What Wifi substitutes for air and working.                              *)
Air == IF is_initialized /\ radio = current_mode THEN radio ELSE "off"
Working == network_task_working /\ netPc # "delete"

(* On the air is what the radio sends: by RadioInMode the manager agrees.  *)
AirOf(r) == IF r \in {"ap", "sta"} THEN r ELSE "off"

(* The air of Connectivity, by what the radio does.                        *)
LEMMA AirIsRadio ==
    /\ TypeOK /\ RadioInMode => Air = AirOf(radio)
    /\ (TypeOK /\ RadioInMode)' => Air' = AirOf(radio')
BY DEF TypeOK, StatesOK, RadioInMode, Air, AirOf

(* Every step is one of Connectivity, or changes nothing it sees.          *)
LEMMA StepRefines ==
    TypeOK /\ WifiInv /\ (TypeOK /\ WifiInv)' /\ [Next]_vars
        => [Wifi!Next]_(Wifi!vars)
<1> SUFFICES ASSUME TypeOK, WifiInv, (TypeOK /\ WifiInv)', [Next]_vars
             PROVE  \/ UNCHANGED <<Air, Working, is_provisioning>>
                    \/ Wifi!Next
    BY DEF Wifi!vars, Air, Working
<1>1. Air = AirOf(radio) /\ Air' = AirOf(radio')
    BY AirIsRadio DEF WifiInv
<1> DEFINE SameRadio == UNCHANGED <<radio, network_task_working>>
           NoDelete == netPc # "delete" /\ netPc' # "delete"
<1> USE DEF mainVars, netVars, flagVars, managerVars, socketVars, sdkVars
<1>2. ASSUME SameRadio, UNCHANGED is_provisioning,
             netPc = "delete" <=> netPc' = "delete"
      PROVE  UNCHANGED <<Air, Working, is_provisioning>>
    BY <1>1, <1>2 DEF Working
<1>3. CASE UNCHANGED vars
    BY <1>2, <1>3 DEF vars
<1>4. CASE Boot \/ Button \/ Handler
  <2>1. SameRadio /\ UNCHANGED <<is_provisioning, netPc>>
    BY <1>4
    DEF Boot, BootLoad, BootNotify, Button, PressReset, ResetDelayOver,
        PressDiscovery, Handler, LinkAnswers, HandlerGoesOn, ApStaConnected,
        ApStaDisconnected, StaStart, GotIp, StaDisconnected,
        DisconnectedDelayOver, GotIpDelayOver, InitListener
  <2> QED  BY <1>2, <2>1
<1>5. CASE \/ BootDelayOver \/ WaitTimeout \/ StaDelayOver \/ ServeStartSta
           \/ \E e \in {"SHUTDOWN", "START_AP"} : ServeShutdown(e)
           \/ ServeClients \/ HeldTurnEnds \/ RestartStation \/ NothingToDo
  <2>1. SameRadio /\ UNCHANGED is_provisioning /\ NoDelete
    BY <1>5
    DEF BootDelayOver, WaitTimeout, StaDelayOver, ServeStartSta, ServeShutdown,
        Served, AfterShutdown, ServeClients, HeldTurnEnds, RestartStation,
        NothingToDo
  <2> QED  BY <1>2, <2>1
<1>6. CASE ServeApStaConnected
  <2>1. SameRadio /\ NoDelete
      BY <1>6 DEF ServeApStaConnected, Served
  <2>2. UNCHANGED <<Air, Working>>
      BY <1>1, <2>1 DEF Working
  <2>3. CASE UNCHANGED is_provisioning
      BY <2>2, <2>3
  <2>4. CASE MayProvision /\ is_provisioning' = TRUE
    <3>1. radio = "ap"
        BY <1>6, <2>1, <2>4
        DEF ServeApStaConnected, Served, MayProvision, WifiInv, PhoneHasAp
    <3>2. Wifi!BeginProvisioning
        BY <1>1, <2>1, <2>2, <2>4, <3>1
        DEF Wifi!BeginProvisioning, MayProvision, Air, AirOf, Working
    <3> QED  BY <3>2 DEF Wifi!Next
  <2> QED  BY <1>6, <2>3, <2>4 DEF ServeApStaConnected
<1>7. CASE ServeApStaDisconnected \/ CloseServers \/ ProvisionPacket
  <2>1. /\ SameRadio /\ NoDelete
        /\ is_provisioning' = FALSE
      BY <1>7
      DEF ServeApStaDisconnected, CloseServers, ProvisionPacket, Served,
          EndProvisioning
  <2>2. UNCHANGED <<Air, Working>>
      BY <1>1, <2>1 DEF Working
  <2>3. CASE is_provisioning
    <3> Wifi!EndProvisioning
        BY <2>1, <2>2, <2>3 DEF Wifi!EndProvisioning, Air, Working
    <3> QED  BY DEF Wifi!Next
  <2>4. CASE ~is_provisioning
      BY <2>1, <2>2, <2>4 DEF TypeOK, FlagsOK
  <2> QED  BY <2>3, <2>4
<1>8. CASE StopRadio
  <2>1. /\ netPc = "stop" /\ network_task_working /\ ~is_provisioning
        /\ UNCHANGED is_provisioning
      BY <1>8 DEF StopRadio, WifiInv, ShutdownPhases
  <2>2. Working /\ Working' = FALSE
      BY <1>8, <2>1 DEF StopRadio, ShutdownDone, Working
  <2>3. Air' \in {Air, "off"}
      BY <1>8, <1>1 DEF StopRadio, AirOf
  <2> Wifi!Stop
      BY <2>1, <2>2, <2>3 DEF Wifi!Stop, Air, Working
  <2> QED  BY DEF Wifi!Next
<1>9. CASE DeleteEventLoop
  <2>1. /\ radio = "stopped" /\ radio' \in {"stopped", "off"}
        /\ UNCHANGED is_provisioning
      BY <1>9 DEF DeleteEventLoop, WifiInv, ShutdownPhases
  <2>2. Working = FALSE /\ Working' = FALSE
      BY <1>9 DEF DeleteEventLoop, ShutdownDone, Working
  <2> QED  BY <1>1, <2>1, <2>2 DEF AirOf
<1>10. CASE StartAp
  <2>1. network_task_working = FALSE /\ UNCHANGED is_provisioning /\ NoDelete
      BY <1>10 DEF StartAp, TypeOK, FlagsOK, WifiInv, ShutdownPhases
  <2>2. CASE InitFails("ap")
      BY <1>2, <2>1, <2>2 DEF InitFails
  <2>3. CASE InitSucceeds("ap")
    <3>1. Air' = "ap" /\ Air \in {"off", "ap"}
      BY <1>1, <2>3 DEF InitSucceeds, CanInit, AirOf, WifiInv, RadioInMode
    <3>2. ~Working /\ Working' = TRUE
      BY <2>1, <2>3 DEF Working, InitSucceeds
    <3> Wifi!Start("ap")
      BY <2>1, <3>1, <3>2 DEF Wifi!Start, Air, Working
    <3> QED  BY DEF Wifi!Next
  <2> QED  BY <1>10, <2>2, <2>3 DEF StartAp
<1>11. CASE StartSta
  <2>1. UNCHANGED is_provisioning /\ NoDelete
      BY <1>11 DEF StartSta
  <2>2. CASE InitFails("sta") \/ SameRadio
      BY <1>2, <2>1, <2>2 DEF InitFails
  <2>3. CASE InitSucceeds("sta")
    <3>1. Air' = "sta" /\ Air \in {"off", "sta"}
      BY <1>1, <2>3 DEF InitSucceeds, CanInit, AirOf, WifiInv, RadioInMode
    <3>2. CASE network_task_working
      <4>1. Air = "sta"
        BY <1>1, <2>1, <3>1, <3>2 DEF AirOf, WifiInv, WorkingOnAir
      <4> QED
          BY <2>1, <2>3, <3>1, <3>2, <4>1
          DEF Working, InitSucceeds, TypeOK, FlagsOK
    <3>3. CASE ~network_task_working
      <4>1. ~Working /\ Working' = TRUE
          BY <2>1, <2>3, <3>3 DEF Working, InitSucceeds
      <4> Wifi!Start("sta")
        BY <2>1, <3>1, <4>1 DEF Wifi!Start, Air, Working
      <4> QED  BY DEF Wifi!Next
    <3> QED  BY <3>2, <3>3
  <2> QED  BY <1>11, <2>2, <2>3 DEF StartSta
<1> QED
    BY <1>3, <1>4, <1>5, <1>6, <1>7, <1>8, <1>9, <1>10, <1>11
    DEF Next, NetworkTask

(* Tasks, handler and WiFi manager implement Connectivity: every step is   *)
(* a start, a stop, a beginning or an end of provisioning, or none of it.  *)
THEOREM LifecycleImplementsConnectivity == Spec => ImplementsConnectivity
<1>1. Init => Wifi!Init
    BY DEF Init, Wifi!Init
<1>2. IInv /\ IInv' /\ [Next]_vars => [Wifi!Next]_(Wifi!vars)
    BY StepRefines DEF IInv
<1> QED
    BY <1>1, <1>2, Inductive, PTL DEF Spec, ImplementsConnectivity, Wifi!Spec
=============================================================================
