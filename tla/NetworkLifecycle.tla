-------------------------- MODULE NetworkLifecycle --------------------------
(***************************************************************************)
(* The life of the lamp's WiFi: the network task, the WiFi event handler,  *)
(* the button task and the boot sequence of main/vetta_main.c, with        *)
(* wifi_manager.c and the sockets of wifi_provision.c, discovery.c and     *)
(* listener.c, over the SDK as these files use it.                         *)
(*                                                                         *)
(* Scheduling.  The SDK's event task (the handler) and the button task     *)
(* preempt the network task; a step ends where a task blocks or where what *)
(* it has read can change before it is used.                               *)
(*                                                                         *)
(* Abstractions.  Delays have no length.  LED events are left out (see     *)
(* LedAnimation).  Stored credentials are complete or absent (see          *)
(* Storage).  Packets are what their handling comes to.  An SDK event      *)
(* happens when the handler takes it: in between nothing reads the link.   *)
(***************************************************************************)
EXTENDS Naturals

CONSTANTS
    Ip,          \* addresses the home network may give to the lamp
    QuickBoot,   \* app_main reads the flash within the network's first delay
    NoIp,        \* not an address: a closed descriptor
    MaxPresses,  \* bound on button presses
    MaxDrops,    \* bound on losses of the home network, and failed joins
    MaxFaults    \* bound on SDK calls that fail for no reason of the lamp's

ASSUME IpAssumption == NoIp \notin Ip
ASSUME BoundAssumption ==
    /\ QuickBoot \in BOOLEAN
    /\ MaxPresses \in Nat /\ MaxDrops \in Nat /\ MaxFaults \in Nat

VARIABLES
    \* vetta_main.c
    bootPc,                    \* app_main: "load" or "notify" or "done"
    buttonPc,                  \* "idle", or "delay" in the reset handler
    netNotification,           \* network events not yet taken
    netPc,                     \* see NetPc
    serving,                   \* the event for which WiFi is shut down
    handlerPc,                 \* see HandlerPc
    is_provisioning,
    credentials_ok,
    ap_credentials_available,
    connection_retries,
    network_task_working,
    sta_connected,
    cap_sensor_active,
    \* wifi_manager.c
    is_initialized,
    current_mode,
    \* sockets: the address each is bound to
    provisionSocket,           \* wifi_provision.c, any address: open or not
    discoverySocket,           \* discovery.c server_socket
    listenerSocket,            \* listener.c server_socket
    boundUdp, boundTcp,        \* addresses lwIP has bound to the two ports
    ip_info,                   \* address of the last GOT_IP
    \* the SDK and the world
    eventLoop,                 \* the default event loop exists
    radio,                     \* "off", "ap", "sta", or "stopped" (not deinit)
    apStation,                 \* a phone is associated to the lamp
    link,                      \* the lamp as a station: see Link
    stored,                    \* complete credentials were in flash at boot
    presses, drops, faults     \* what is used up of the bounds

mainVars == <<bootPc, buttonPc, presses>>
netVars == <<netNotification, netPc, serving>>
flagVars == <<is_provisioning, credentials_ok, ap_credentials_available,
              connection_retries, network_task_working, sta_connected,
              cap_sensor_active>>
managerVars == <<is_initialized, current_mode>>
socketVars == <<provisionSocket, discoverySocket, listenerSocket, boundUdp,
                boundTcp, ip_info>>
sdkVars == <<eventLoop, radio, apStation, link>>
vars == <<mainVars, netVars, handlerPc, flagVars, managerVars, socketVars,
          sdkVars, stored, drops, faults>>

-----------------------------------------------------------------------------
NetEvent == {"SHUTDOWN", "START_AP", "AP_STA_CONNECTED",
             "AP_STA_DISCONNECTED", "START_STA"}

(* boot: the first delay; wait: xTaskNotifyWait; close, stop, delete: the  *)
(* parts of shutdown_wifi; ap: before init_wifi_ap; delay: the second left *)
(* to the sensor; sta: before init_wifi_sta; ops: below the wait; held: in *)
(* SSL_accept or SSL_read, which wait for a broker (see Listener).         *)
NetPc == {"boot", "wait", "close", "stop", "delete", "ap", "delay", "sta",
          "ops", "held"}

(* disconnected, gotIp: in the handler's delays; listener: between         *)
(* init_discovery_server and init_listener_server.                         *)
HandlerPc == {"idle", "disconnected", "gotIp", "listener"}

(* starting: STA_START is on its way; joining: esp_wifi_connect was        *)
(* accepted; up: an address was given.                                     *)
Link == {"down", "starting", "joining", "up"}

FlagsOK ==
    /\ is_provisioning \in BOOLEAN
    /\ credentials_ok \in BOOLEAN
    /\ ap_credentials_available \in BOOLEAN
    /\ network_task_working \in BOOLEAN
    /\ sta_connected \in BOOLEAN
    /\ cap_sensor_active \in BOOLEAN
    /\ is_initialized \in BOOLEAN
    /\ provisionSocket \in BOOLEAN
    /\ eventLoop \in BOOLEAN
    /\ apStation \in BOOLEAN
    /\ stored \in BOOLEAN

StatesOK ==
    /\ bootPc \in {"load", "notify", "done"}
    /\ buttonPc \in {"idle", "delay"}
    /\ netNotification \subseteq NetEvent
    /\ netPc \in NetPc
    /\ serving \in {"SHUTDOWN", "START_AP"}
    /\ handlerPc \in HandlerPc
    /\ connection_retries \in 0 .. 2
    /\ current_mode \in {"ap", "sta"}
    /\ discoverySocket \in Ip \cup {NoIp}
    /\ listenerSocket \in Ip \cup {NoIp}
    /\ boundUdp \subseteq Ip
    /\ boundTcp \subseteq Ip
    /\ ip_info \in Ip \cup {NoIp}
    /\ radio \in {"off", "ap", "sta", "stopped"}
    /\ link \in Link

BoundsOK ==
    /\ presses \in 0 .. MaxPresses
    /\ drops \in 0 .. MaxDrops
    /\ faults \in 0 .. MaxFaults

TypeOK == FlagsOK /\ StatesOK /\ BoundsOK

(* The state when app_main has created the network task.                   *)
Init ==
    /\ bootPc = "load"
    /\ buttonPc = "idle"
    /\ netNotification = {}
    /\ netPc = "boot"
    /\ serving = "SHUTDOWN"
    /\ handlerPc = "idle"
    /\ is_provisioning = FALSE
    /\ credentials_ok = FALSE
    /\ ap_credentials_available = FALSE
    /\ connection_retries = 0
    /\ network_task_working = FALSE
    /\ sta_connected = FALSE
    /\ cap_sensor_active = TRUE
    /\ is_initialized = FALSE
    /\ current_mode = "sta"
    /\ provisionSocket = FALSE
    /\ discoverySocket = NoIp
    /\ listenerSocket = NoIp
    /\ boundUdp = {}
    /\ boundTcp = {}
    /\ ip_info = NoIp
    /\ eventLoop = FALSE
    /\ radio = "off"
    /\ apStation = FALSE
    /\ link = "down"
    /\ stored \in BOOLEAN
    /\ presses = 0
    /\ drops = 0
    /\ faults = 0

Notify(e) == netNotification' = netNotification \cup {e}

(* A call into the SDK fails although nothing is wrong with its arguments. *)
Fault == faults < MaxFaults /\ faults' = faults + 1
NoFault == UNCHANGED faults

-----------------------------------------------------------------------------
(* app_main, after it has created the tasks.                               *)

BootLoad ==
    /\ bootPc = "load"
    /\ bootPc' = IF stored THEN "notify" ELSE "done"
    /\ ap_credentials_available' = stored
    /\ UNCHANGED <<buttonPc, presses, netVars, handlerPc, is_provisioning,
                   credentials_ok, connection_retries, network_task_working,
                   sta_connected, cap_sensor_active, managerVars, socketVars,
                   sdkVars, stored, drops, faults>>

BootNotify ==
    /\ bootPc = "notify"
    /\ bootPc' = "done"
    /\ Notify("START_STA")
    /\ UNCHANGED <<buttonPc, presses, netPc, serving, handlerPc, flagVars,
                   managerVars, socketVars, sdkVars, stored, drops, faults>>

-----------------------------------------------------------------------------
(* The button task.                                                        *)

Press ==
    /\ buttonPc = "idle"
    /\ presses < MaxPresses
    /\ presses' = presses + 1

PressReset ==
    /\ Press
    /\ buttonPc' = "delay"
    /\ UNCHANGED <<bootPc, netVars, handlerPc, flagVars, managerVars,
                   socketVars, sdkVars, stored, drops, faults>>

ResetDelayOver ==
    /\ buttonPc = "delay"
    /\ buttonPc' = "idle"
    /\ Notify("SHUTDOWN")
    /\ UNCHANGED <<bootPc, presses, netPc, serving, handlerPc, flagVars,
                   managerVars, socketVars, sdkVars, stored, drops, faults>>

MayStartAp == ~is_provisioning /\ (~credentials_ok \/ ~ap_credentials_available)

PressDiscovery ==
    /\ Press
    /\ MayStartAp
    /\ Notify("START_AP")
    /\ UNCHANGED <<bootPc, buttonPc, netPc, serving, handlerPc, flagVars,
                   managerVars, socketVars, sdkVars, stored, drops, faults>>

-----------------------------------------------------------------------------
(* The network task: taking an event.  One event of the value is served,   *)
(* in the order of the else-if chain; the other bits are dropped.          *)

(* Mutants: a SHUTDOWN looked for after the access point's events; the     *)
(* two access point events the other way round.                            *)
RankShutdownLate == [START_AP |-> 1, AP_STA_CONNECTED |-> 2,
                     AP_STA_DISCONNECTED |-> 3, SHUTDOWN |-> 4, START_STA |-> 5]
RankDisconnectedFirst == [SHUTDOWN |-> 1, START_AP |-> 2,
                          AP_STA_DISCONNECTED |-> 3, AP_STA_CONNECTED |-> 4,
                          START_STA |-> 5]

Rank == [SHUTDOWN |-> 1, START_AP |-> 2, AP_STA_CONNECTED |-> 3,
         AP_STA_DISCONNECTED |-> 4, START_STA |-> 5]

Served(e) ==
    /\ netPc = "wait"
    /\ e \in netNotification
    /\ \A f \in netNotification : Rank[e] <= Rank[f]
    /\ netNotification' = {}

BootDelayOver ==
    /\ netPc = "boot"
    /\ QuickBoot => bootPc = "done"
    /\ netPc' = "wait"
    /\ UNCHANGED <<mainVars, netNotification, serving, handlerPc, flagVars,
                   managerVars, socketVars, sdkVars, stored, drops, faults>>

WaitTimeout ==
    /\ netPc = "wait"
    /\ netNotification = {}
    /\ netPc' = "ops"
    /\ UNCHANGED <<mainVars, netNotification, serving, handlerPc, flagVars,
                   managerVars, socketVars, sdkVars, stored, drops, faults>>

(* shutdown_wifi does nothing but when the task is working.                *)
AfterShutdown(e) == IF e = "START_AP" THEN "ap" ELSE "ops"

ServeShutdown(e) ==
    /\ Served(e)
    /\ serving' = e
    /\ netPc' = IF network_task_working THEN "close" ELSE AfterShutdown(e)
    /\ UNCHANGED <<mainVars, handlerPc, flagVars, managerVars, socketVars,
                   sdkVars, stored, drops, faults>>

(* Mutant: whether or not the network task is working.                     *)
MayProvisionAnyway == ~is_provisioning
MayProvision == ~is_provisioning /\ network_task_working

ServeApStaConnected ==
    /\ Served("AP_STA_CONNECTED")
    /\ netPc' = "ops"
    /\ IF MayProvision
       THEN \/ is_provisioning' = TRUE /\ provisionSocket' = TRUE /\ NoFault
            \/ Fault /\ UNCHANGED <<is_provisioning, provisionSocket>>
       ELSE NoFault /\ UNCHANGED <<is_provisioning, provisionSocket>>
    /\ UNCHANGED <<mainVars, serving, handlerPc, credentials_ok,
                   ap_credentials_available, connection_retries,
                   network_task_working, sta_connected, cap_sensor_active,
                   managerVars, discoverySocket,
                   listenerSocket, boundUdp, boundTcp, ip_info, sdkVars,
                   stored, drops>>

(* deinit_wifi_provision when provisioning, and the flag.                  *)
EndProvisioning ==
    /\ provisionSocket' = (provisionSocket /\ ~is_provisioning)
    /\ is_provisioning' = FALSE

ServeApStaDisconnected ==
    /\ Served("AP_STA_DISCONNECTED")
    /\ netPc' = "ops"
    /\ EndProvisioning
    /\ UNCHANGED <<mainVars, serving, handlerPc, credentials_ok,
                   ap_credentials_available, connection_retries,
                   network_task_working, sta_connected, cap_sensor_active,
                   managerVars, discoverySocket,
                   listenerSocket, boundUdp, boundTcp, ip_info, sdkVars,
                   stored, drops, faults>>

ServeStartSta ==
    /\ Served("START_STA")
    /\ netPc' = "delay"
    /\ cap_sensor_active' = FALSE
    /\ UNCHANGED <<mainVars, serving, handlerPc, is_provisioning,
                   credentials_ok, ap_credentials_available,
                   connection_retries, network_task_working, sta_connected,
                   managerVars, socketVars, sdkVars,
                   stored, drops, faults>>

-----------------------------------------------------------------------------
(* The network task: shutdown_wifi and deinit_wifi.                        *)

(* Provisioning ends, and the servers close if sta_connected is set.       *)
CloseServers ==
    /\ netPc = "close"
    /\ netPc' = "stop"
    /\ EndProvisioning
    /\ IF sta_connected
       THEN /\ boundUdp' = boundUdp \ {discoverySocket}
            /\ boundTcp' = boundTcp \ {listenerSocket}
            /\ discoverySocket' = NoIp
            /\ listenerSocket' = NoIp
       ELSE UNCHANGED <<boundUdp, boundTcp, discoverySocket, listenerSocket>>
    /\ UNCHANGED <<mainVars, netNotification, serving, handlerPc,
                   credentials_ok, ap_credentials_available,
                   connection_retries, network_task_working, sta_connected,
                   cap_sensor_active, managerVars, ip_info,
                   sdkVars, stored, drops, faults>>

(* Mutant: the flag is left to the next start.                             *)
ShutdownDoneStillWorking ==
    /\ UNCHANGED network_task_working
    /\ netPc' = AfterShutdown(serving)

(* Whatever deinit_wifi returns, the task no longer counts as working.     *)
ShutdownDone ==
    /\ network_task_working' = FALSE
    /\ netPc' = AfterShutdown(serving)

(* sta_connected = 0, and deinit_wifi up to esp_wifi_stop.                 *)
StopRadio ==
    /\ netPc = "stop"
    /\ sta_connected' = FALSE
    /\ \/ /\ is_initialized
          /\ radio' = "stopped"
          /\ netPc' = "delete"
          /\ NoFault
          /\ UNCHANGED network_task_working
       \/ /\ IF is_initialized THEN Fault ELSE NoFault
          /\ ShutdownDone
          /\ UNCHANGED radio
    /\ UNCHANGED <<mainVars, netNotification, serving, handlerPc,
                   is_provisioning, credentials_ok, ap_credentials_available,
                   connection_retries, cap_sensor_active,
                   managerVars, socketVars, eventLoop, apStation, link,
                   stored, drops>>

(* The handler is unregistered, the event loop deleted and the driver      *)
(* deinitialized; the loop's mutex makes this wait for a running handler.  *)
DeleteEventLoop ==
    /\ netPc = "delete"
    /\ handlerPc = "idle"
    /\ ShutdownDone
    /\ \/ /\ eventLoop
          /\ eventLoop' = FALSE
          /\ radio' = "off"
          /\ apStation' = FALSE
          /\ link' = "down"
          /\ is_initialized' = FALSE
          /\ NoFault
       \/ \* esp_event_handler_unregister or esp_event_loop_delete_default
          /\ IF eventLoop THEN Fault ELSE NoFault
          /\ UNCHANGED <<sdkVars, is_initialized>>
       \/ \* esp_wifi_deinit
          /\ eventLoop /\ Fault
          /\ eventLoop' = FALSE
          /\ apStation' = FALSE
          /\ link' = "down"
          /\ UNCHANGED <<radio, is_initialized>>
    /\ UNCHANGED <<mainVars, netNotification, serving, handlerPc,
                   is_provisioning, credentials_ok, ap_credentials_available,
                   connection_retries, sta_connected, cap_sensor_active,
                   current_mode, socketVars, stored, drops>>

-----------------------------------------------------------------------------
(* The network task: init_wifi_ap and init_wifi_sta.                       *)

(* init_wifi passes: everything is there already, or nothing is.  The      *)
(* configuration that follows needs the driver in mode m.                  *)
CanInit(m) == IF is_initialized THEN current_mode = m ELSE ~eventLoop

InitSucceeds(m) ==
    /\ CanInit(m)
    /\ eventLoop' = (eventLoop \/ ~is_initialized)
    /\ current_mode' = m
    /\ is_initialized' = TRUE
    /\ radio' = m
    /\ network_task_working' = TRUE
    /\ NoFault

(* The event loop is there, or cannot be created; or it is created, and a  *)
(* call that fails after it leaves it behind.                              *)
InitFails(m) ==
    /\ IF CanInit(m) THEN Fault ELSE NoFault
    /\ \/ UNCHANGED <<eventLoop, current_mode>>
       \/ /\ ~is_initialized /\ ~eventLoop
          /\ eventLoop' = TRUE
          /\ current_mode' \in {current_mode, m}
    /\ UNCHANGED <<is_initialized, radio, network_task_working>>

StartAp ==
    /\ netPc = "ap"
    /\ \/ InitSucceeds("ap") /\ netPc' = "wait"
       \/ InitFails("ap") /\ netPc' = "ops"
    /\ UNCHANGED <<mainVars, netNotification, serving, handlerPc,
                   is_provisioning, credentials_ok, ap_credentials_available,
                   connection_retries, sta_connected, cap_sensor_active,
                   socketVars, apStation, link, stored,
                   drops>>

StaDelayOver ==
    /\ netPc = "delay"
    /\ netPc' = "sta"
    /\ UNCHANGED <<mainVars, netNotification, serving, handlerPc, flagVars,
                   managerVars, socketVars, sdkVars, stored, drops, faults>>

(* parse_sta_credentials takes what is available: neither flash nor a      *)
(* packet gives an empty or a longer string.  esp_wifi_start raises        *)
(* STA_START unless the station was started before.                        *)
StartSta ==
    /\ netPc = "sta"
    /\ netPc' = "ops"
    /\ \/ /\ ap_credentials_available
          /\ InitSucceeds("sta")
          /\ link' = IF radio = "sta" THEN link ELSE "starting"
       \/ /\ ap_credentials_available
          /\ InitFails("sta")
          /\ UNCHANGED link
       \/ /\ ~ap_credentials_available
          /\ NoFault
          /\ UNCHANGED <<managerVars, eventLoop, radio, link,
                         network_task_working>>
    /\ UNCHANGED <<mainVars, netNotification, serving, handlerPc,
                   is_provisioning, credentials_ok, ap_credentials_available,
                   connection_retries, sta_connected, cap_sensor_active,
                   socketVars, apStation, stored, drops>>

-----------------------------------------------------------------------------
(* The network task: below the wait.                                       *)

Serving == sta_connected /\ network_task_working

(* discovery_listen and listener_listen.  A closed descriptor in an fd_set *)
(* is a timeout or an error, whatever FD_SET(-1) happened to do.  A broker *)
(* may hold the turn.                                                      *)
ServeClients ==
    /\ netPc = "ops"
    /\ Serving
    /\ \/ netPc' \in {"wait", "held"} /\ NoFault /\ UNCHANGED netNotification
       \/ /\ netPc' = "wait"
          /\ Notify("SHUTDOWN")
          /\ IF NoIp \in {discoverySocket, listenerSocket} THEN NoFault ELSE Fault
    /\ UNCHANGED <<mainVars, serving, handlerPc, flagVars, managerVars,
                   socketVars, sdkVars, stored, drops>>

(* The broker sends what it was waited for, or goes.                       *)
HeldTurnEnds ==
    /\ netPc = "held"
    /\ netPc' = "wait"
    /\ \/ NoFault /\ UNCHANGED netNotification
       \/ Fault /\ Notify("SHUTDOWN")
    /\ UNCHANGED <<mainVars, serving, handlerPc, flagVars, managerVars,
                   socketVars, sdkVars, stored, drops>>

(* Mutant: only after a connection that was accepted.                      *)
WantStationOnceOk ==
    ~Serving /\ ap_credentials_available /\ ~network_task_working /\ credentials_ok
WantStation == ~Serving /\ ap_credentials_available /\ ~network_task_working

RestartStation ==
    /\ netPc = "ops"
    /\ WantStation
    /\ netPc' = "wait"
    /\ Notify("START_STA")
    /\ UNCHANGED <<mainVars, serving, handlerPc, flagVars, managerVars,
                   socketVars, sdkVars, stored, drops, faults>>

Provisions == ~Serving /\ is_provisioning /\ network_task_working

NothingToDo ==
    /\ netPc = "ops"
    /\ ~Serving /\ ~WantStation
    /\ netPc' = "wait"   \* with Provisions: provision_listen timed out
    /\ UNCHANGED <<mainVars, netNotification, serving, handlerPc, flagVars,
                   managerVars, socketVars, sdkVars, stored, drops, faults>>

(* provision_listen took a packet.  Stored completely, its credentials are *)
(* available; a bad or unstored one may still have replaced those in RAM   *)
(* (see Storage), by others that a station can be started with.            *)
ProvisionPacket ==
    /\ netPc = "ops"
    /\ Provisions
    /\ netPc' = "wait"
    /\ ap_credentials_available' \in {ap_credentials_available, TRUE}
    /\ EndProvisioning
    /\ Notify("SHUTDOWN")
    /\ UNCHANGED <<mainVars, serving, handlerPc, credentials_ok,
                   connection_retries, network_task_working, sta_connected,
                   cap_sensor_active, managerVars, discoverySocket,
                   listenerSocket, boundUdp, boundTcp, ip_info, sdkVars,
                   stored, drops, faults>>

-----------------------------------------------------------------------------
(* wifi_event_handler, in the SDK's event task.                            *)

(* An event reaches the handler: it is free, and the event loop exists.    *)
Takes == handlerPc = "idle" /\ eventLoop

(* (No phone is that quick: app_main has read the flash by then.)          *)
ApStaConnected ==
    /\ Takes
    /\ bootPc # "load"
    /\ radio = "ap"
    /\ ~apStation
    /\ apStation' = TRUE
    /\ Notify("AP_STA_CONNECTED")
    /\ UNCHANGED <<mainVars, netPc, serving, handlerPc, flagVars, managerVars,
                   socketVars, eventLoop, radio, link, stored, drops, faults>>

ApStaDisconnected ==
    /\ Takes
    /\ radio \in {"ap", "stopped"}
    /\ apStation
    /\ apStation' = FALSE
    /\ Notify("AP_STA_DISCONNECTED")
    /\ UNCHANGED <<mainVars, netPc, serving, handlerPc, flagVars, managerVars,
                   socketVars, eventLoop, radio, link, stored, drops, faults>>

(* esp_wifi_connect: accepted, or refused because the station is stopped   *)
(* or for a reason of its own.                                             *)
ConnectAccepted == radio = "sta" /\ link' = "joining" /\ NoFault
ConnectRefused ==
    /\ link' = "down"
    /\ IF radio = "sta" THEN Fault ELSE NoFault

StaStart ==
    /\ Takes
    /\ link = "starting"
    /\ \/ ConnectAccepted /\ credentials_ok' = TRUE
       \/ ConnectRefused /\ UNCHANGED credentials_ok
    /\ UNCHANGED <<mainVars, netVars, handlerPc, is_provisioning,
                   ap_credentials_available, connection_retries,
                   network_task_working, sta_connected, cap_sensor_active,
                   managerVars, socketVars, eventLoop,
                   radio, apStation, stored, drops>>

MaxRetries == 2  \* MAX_CONNECTION_RETRIES

(* Mutant: one retry too many.                                             *)
RetryConnectionOnceMore ==
    /\ ap_credentials_available
    /\ connection_retries <= MaxRetries
    /\ connection_retries' = connection_retries + 1
    /\ \/ ConnectAccepted /\ credentials_ok' = TRUE
       \/ ConnectRefused /\ UNCHANGED credentials_ok

RetryConnection ==
    /\ ap_credentials_available
    /\ connection_retries < MaxRetries
    /\ connection_retries' = connection_retries + 1
    /\ \/ ConnectAccepted /\ credentials_ok' = TRUE
       \/ ConnectRefused /\ UNCHANGED credentials_ok

StartRetriesOver ==
    /\ ap_credentials_available
    /\ connection_retries = MaxRetries
    /\ credentials_ok
    /\ connection_retries' = 0
    /\ ConnectAccepted \/ ConnectRefused
    /\ UNCHANGED credentials_ok

NoRetry ==
    /\ ~ap_credentials_available
    /\ link' = "down"
    /\ NoFault
    /\ UNCHANGED <<connection_retries, credentials_ok>>

(* Mutant: a lost link still counts as connected.                          *)
StillConnected == UNCHANGED sta_connected
NotConnected == sta_connected' = FALSE

(* Stopping the driver drops a link too, which uses up no bound.           *)
StaDisconnected ==
    /\ Takes
    /\ link \in {"joining", "up"}
    /\ IF radio = "stopped" THEN UNCHANGED drops
       ELSE drops < MaxDrops /\ drops' = drops + 1
    /\ handlerPc' = "disconnected"
    /\ NotConnected
    /\ RetryConnection \/ StartRetriesOver \/ NoRetry
    /\ UNCHANGED <<mainVars, netVars, is_provisioning,
                   ap_credentials_available, network_task_working,
                   cap_sensor_active, managerVars,
                   socketVars, eventLoop, radio, apStation, stored>>

(* The sensor, off since START_STA, is on again.  Mutant: only once the    *)
(* servers run.                                                            *)
SensorOnWhenConnected == cap_sensor_active' = (cap_sensor_active \/ sta_connected)
SensorOn == cap_sensor_active' = TRUE

DisconnectedDelayOver ==
    /\ handlerPc = "disconnected"
    /\ handlerPc' = "idle"
    /\ SensorOn
    /\ UNCHANGED <<mainVars, netVars, is_provisioning, credentials_ok,
                   ap_credentials_available, connection_retries,
                   network_task_working, sta_connected,
                   managerVars, socketVars, sdkVars, stored, drops, faults>>

GotIp(a) ==
    /\ Takes
    /\ link = "joining"
    /\ radio = "sta"
    /\ link' = "up"
    /\ ip_info' = a
    /\ connection_retries' = 0
    /\ handlerPc' = "gotIp"
    /\ UNCHANGED <<mainVars, netVars, is_provisioning, credentials_ok,
                   ap_credentials_available, network_task_working,
                   sta_connected, cap_sensor_active,
                   managerVars, provisionSocket, discoverySocket,
                   listenerSocket, boundUdp, boundTcp, eventLoop, radio,
                   apStation, stored, drops, faults>>

(* The delay is over, and init_discovery_server: a new socket replaces the *)
(* old one, open or not, and can be bound only to an address that is free. *)
GotIpDelayOver ==
    /\ handlerPc = "gotIp"
    /\ SensorOn
    /\ \/ /\ ip_info \notin boundUdp
          /\ discoverySocket' = ip_info
          /\ boundUdp' = boundUdp \cup {ip_info}
          /\ handlerPc' = "listener"
          /\ NoFault
       \/ /\ IF ip_info \in boundUdp THEN NoFault ELSE Fault
          /\ discoverySocket' = NoIp
          /\ handlerPc' = "idle"
          /\ UNCHANGED boundUdp
    /\ UNCHANGED <<mainVars, netVars, is_provisioning, credentials_ok,
                   ap_credentials_available, connection_retries,
                   network_task_working, sta_connected,
                   managerVars, provisionSocket, listenerSocket, boundTcp,
                   ip_info, sdkVars, stored, drops>>

(* init_listener_server; without a TLS context it leaves its socket alone. *)
InitListener ==
    /\ handlerPc = "listener"
    /\ handlerPc' = "idle"
    /\ \/ /\ ip_info \notin boundTcp
          /\ listenerSocket' = ip_info
          /\ boundTcp' = boundTcp \cup {ip_info}
          /\ sta_connected' = TRUE
          /\ NoFault
       \/ /\ IF ip_info \in boundTcp THEN NoFault ELSE Fault
          /\ listenerSocket' \in {listenerSocket, NoIp}
          /\ UNCHANGED <<boundTcp, sta_connected>>
    /\ UNCHANGED <<mainVars, netVars, is_provisioning, credentials_ok,
                   ap_credentials_available, connection_retries,
                   network_task_working, cap_sensor_active,
                   managerVars, provisionSocket, discoverySocket, boundUdp,
                   ip_info, sdkVars, stored, drops>>

-----------------------------------------------------------------------------
Boot == BootLoad \/ BootNotify
Button == PressReset \/ ResetDelayOver \/ PressDiscovery
NetworkTask ==
    \/ BootDelayOver
    \/ WaitTimeout
    \/ \E e \in {"SHUTDOWN", "START_AP"} : ServeShutdown(e)
    \/ ServeApStaConnected
    \/ ServeApStaDisconnected
    \/ ServeStartSta
    \/ CloseServers
    \/ StopRadio
    \/ DeleteEventLoop
    \/ StartAp
    \/ StaDelayOver
    \/ StartSta
    \/ ServeClients
    \/ HeldTurnEnds
    \/ RestartStation
    \/ NothingToDo
    \/ ProvisionPacket
LinkAnswers == (\E a \in Ip : GotIp(a)) \/ StaDisconnected
HandlerGoesOn == DisconnectedDelayOver \/ GotIpDelayOver \/ InitListener
Handler ==
    \/ ApStaConnected
    \/ ApStaDisconnected
    \/ StaStart
    \/ LinkAnswers
    \/ HandlerGoesOn

Next == Boot \/ Button \/ NetworkTask \/ Handler

Spec == Init /\ [][Next]_vars

(* Tasks are never starved (the task watchdog would reset the lamp) and    *)
(* delays end: weak fairness of every task, but not of the network task    *)
(* while a broker holds it.  The SDK raises STA_START and answers a join.  *)
(* Nobody owes the lamp a press, a phone or a packet.                      *)
Fairness ==
    /\ WF_vars(Boot)
    /\ WF_vars(ResetDelayOver)
    /\ WF_vars(NetworkTask /\ netPc # "held")
    /\ WF_vars(StaStart)
    /\ WF_vars(LinkAnswers)
    /\ WF_vars(HandlerGoesOn)

FairSpec == Spec /\ Fairness

-----------------------------------------------------------------------------
(* Properties.                                                             *)

(* Provisioning happens only on the lamp's own access point, with its      *)
(* socket open, and is over before WiFi goes down or becomes a station; no *)
(* socket is ever left open without anybody listening.                     *)
ProvisioningOnlyOnAp ==
    (is_provisioning \/ provisionSocket) =>
        /\ is_provisioning /\ provisionSocket
        /\ network_task_working
        /\ is_initialized /\ current_mode = "ap" /\ radio = "ap"

(* From outside: WiFi is on the air in the manager's mode, or off; it is   *)
(* used until it is being stopped.                                         *)
Wifi == INSTANCE Connectivity WITH
    air <- IF is_initialized /\ radio = current_mode THEN radio ELSE "off",
    working <- network_task_working /\ netPc # "delete",
    provisioning <- is_provisioning

(* Tasks, handler and WiFi manager together implement Connectivity: WiFi   *)
(* that counts as working is initialized and on the air in its mode, and   *)
(* no refused call, late event or press in the middle of a shutdown turns  *)
(* one mode into the other or takes the access point from a provisioning.  *)
ImplementsConnectivity == Wifi!Spec

(* A broker that says nothing more, in its handshake or its record.        *)
HeldForGood == <>[](netPc = "held")

(* A posted SHUTDOWN is never shadowed or lost: WiFi stops working, unless *)
(* a broker holds the network task for good.                               *)
ShutdownHappens ==
    ("SHUTDOWN" \in netNotification ~> ~network_task_working) \/ HeldForGood

(* vetta_main.c:575, "AP CREDENTIALS SET, Starting STATION since it's not  *)
(* running": with credentials available and no SDK call failing, WiFi      *)
(* comes back after every shutdown, whatever packets were refused.         *)
WifiComesBack ==
    (ap_credentials_available /\ ~network_task_working) ~> network_task_working

(* Nor is the touch sensor, which is off while the station starts, ever    *)
(* left off: the end of that start switches it on again, whatever that end *)
(* is, unless an access point was asked for meanwhile and stays.  (With a  *)
(* slow boot it may be: the START_STA of app_main can then reach a station *)
(* that is up.)                                                            *)
SensorComesBack == []<>(cap_sensor_active \/ radio = "ap")

(* A phone that joins the lamp's access point gets to provision it, unless *)
(* it leaves or the access point goes first: the coalescing of the access  *)
(* point's events never loses a phone.  (A GOT_IP that crosses the stop of *)
(* the station leaves servers open, whose broker may hold the task still.) *)
PhoneGetsProvisioning ==
    \/ (apStation /\ radio = "ap")
           ~> (is_provisioning \/ ~apStation \/ radio # "ap")
    \/ HeldForGood

(* The servers the network task listens on are open, whatever losses of    *)
(* the home network and new addresses came before.  (A shutdown that       *)
(* crosses a GOT_IP may leave the flag set and its sockets to be replaced, *)
(* so this is claimed until a press or a fault.)                           *)
ServingHasSockets ==
    (Serving /\ presses = 0 /\ faults = 0) =>
        NoIp \notin {discoverySocket, listenerSocket}

(* vetta_main.c:362-363: "Connection was successfull once.  Retrying until *)
(* credentials are available": a station does not stay off the network.    *)
RetriesForever ==
    (credentials_ok /\ ap_credentials_available /\ radio = "sta" /\ link = "down")
        ~> (link # "down" \/ radio # "sta")

(* vetta_main.c:355: "Reconnection attempt": when an attempt has brought   *)
(* the link up again, the lamp is connected again.                         *)
UpIsConnected == (link = "up" /\ radio = "sta") ~> (sta_connected \/ link # "up")
=============================================================================
