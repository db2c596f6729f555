------------------------------ MODULE Listener ------------------------------
(***************************************************************************)
(* The serving lamp: the network task's turns between the discovery        *)
(* responder and the listener with its one client (the second half of      *)
(* network_task in main/vetta_main.c, components/network/listener.c and    *)
(* discovery.c), against brokers that ask, connect, command and leave in   *)
(* any of the ways a TLS connection can end.                               *)
(*                                                                         *)
(* Abstractions.  Connecting, losing and regaining the WiFi are            *)
(* NetworkLifecycle's; here the link comes and goes, and whatever makes it *)
(* posts the shutdown.  A command is what reading it comes to (the bits:   *)
(* Codec; the LED: LedAnimation).  TLS and lwIP are external: an orderly   *)
(* end is read as an error, a bare FIN as 0, and what is written to a      *)
(* vanished peer makes the stack give the connection up in the end.        *)
(* Timeouts have no length; SO_RCVTIMEO, half a millisecond, is none to    *)
(* lwIP, so that SSL_accept and SSL_read wait for as long as the broker    *)
(* sends nothing, or only a part of a record.                              *)
(***************************************************************************)
EXTENDS Naturals, Sequences

CONSTANTS
    Brokers,    \* one connection each at a time
    None,       \* client_socket is -1
    PingSteps,  \* LISTENER_PING_STEPS
    MaxFaults   \* bound on failing calls and lost links

ASSUME NoneAssumption == None \notin Brokers
ASSUME BoundAssumption == PingSteps \in Nat /\ MaxFaults \in Nat

VARIABLES
    serving,        \* sta_connected && network_task_working
    shutdown,       \* WIFI_SHUTDOWN_EVENT in the notification value
    netPc,          \* "top", "listen", "accept", "read", "record" or "ping":
                    \* network task about to do its turn, or that part of it
    client,         \* client_socket: the broker, or None
    session,        \* ssl_session: "null", "open", or "failed" its handshake
    timeout_count,  \* select timeouts since the last ping
    is_managed,     \* as discovery advertises
    queue,          \* brokers in the backlog of server_socket
    conn,           \* state of each broker's connection
    inbox,          \* what it has sent and the lamp not read
    probed,         \* something was written to the vanished client
    heard,          \* history: the last acknowledgement said "free", "managed"
    faults

lampVars == <<netPc, client, session, timeout_count, is_managed>>
peerVars == <<queue, conn, inbox, probed>>
vars == <<serving, shutdown, lampVars, peerVars, heard, faults>>

-----------------------------------------------------------------------------
(* "ended": close_notify or any other end that is read as an error.        *)
Conn == {"none", "up", "fin", "ended", "vanished"}
(* "hello" is all that SSL_accept waits for, good or not, and "part" the   *)
(* beginning of a record.                                                  *)
Inbox == {"nothing", "hello", "part", "command", "wrong"}

(* listen(server_socket, 1).                                               *)
Backlog == 1

Init ==
    /\ serving = TRUE
    /\ shutdown = FALSE
    /\ netPc = "top"
    /\ client = None
    /\ session = "null"
    /\ timeout_count = 0
    /\ is_managed = FALSE
    /\ queue = <<>>
    /\ conn = [b \in Brokers |-> "none"]
    /\ inbox = [b \in Brokers |-> "nothing"]
    /\ probed = FALSE
    /\ heard = "nothing"
    /\ faults = 0

Fault == faults < MaxFaults /\ faults' = faults + 1
NoFault == UNCHANGED faults

Forget(b) ==
    /\ conn' = [conn EXCEPT ![b] = "none"]
    /\ inbox' = [inbox EXCEPT ![b] = "nothing"]

(* close_client_socket.                                                    *)
CloseClient ==
    /\ client' = None
    /\ session' = "null"
    /\ probed' = FALSE
    /\ IF client = None THEN UNCHANGED <<conn, inbox>> ELSE Forget(client)

KeepClient == UNCHANGED <<client, session, probed, conn, inbox>>

(* The turn ends with a listener_event_t: NO_ACTION leaves is_managed at   *)
(* the 0 it was given, CLIENT_STALE sets it, FAIL posts a shutdown.        *)
NoAction == netPc' = "top" /\ UNCHANGED <<is_managed, shutdown>>
ClientStale == netPc' = "top" /\ is_managed' = TRUE /\ UNCHANGED shutdown
ResultFail == netPc' = "top" /\ shutdown' = TRUE /\ UNCHANGED is_managed

-----------------------------------------------------------------------------
(* The top of the turn: the notification first.                            *)
ServeShutdown ==
    /\ netPc = "top" /\ shutdown
    /\ shutdown' = FALSE
    /\ IF serving
       THEN /\ serving' = FALSE
            /\ queue' = <<>>
            /\ client' = None
            /\ session' = "null"
            /\ probed' = FALSE
            /\ conn' = [b \in Brokers |-> "none"]
            /\ inbox' = [b \in Brokers |-> "nothing"]
       ELSE UNCHANGED <<serving, peerVars, client, session>>
    /\ UNCHANGED <<netPc, timeout_count, is_managed, heard, faults>>

Serves == netPc = "top" /\ ~shutdown /\ serving

(* After discovery, is_managed is cleared and the listener called.         *)
ManagedKept == UNCHANGED is_managed  \* mutant: is_managed is not cleared
ManagedCleared == is_managed' = FALSE
GoOnListening ==
    /\ netPc' = "listen"
    /\ ManagedCleared
    /\ UNCHANGED <<serving, shutdown, client, session, timeout_count,
                   peerVars, faults>>

(* Nothing received, or a request that is not answered.                    *)
DiscoveryTimeout == Serves /\ GoOnListening /\ UNCHANGED heard

DiscoveryAnswer ==
    /\ Serves /\ GoOnListening
    /\ heard' = IF is_managed THEN "managed" ELSE "free"

(* select, recvfrom or the answer failed: the listener's turn is skipped.  *)
DiscoveryFails ==
    /\ Serves /\ Fault
    /\ ResultFail
    /\ UNCHANGED <<serving, client, session, timeout_count, peerVars, heard>>

-----------------------------------------------------------------------------
(* listener_listen without a client.                                       *)
Idle == netPc = "listen" /\ client = None

SelectTimeoutAlways ==  \* mutant: the server socket is not in the set
    /\ Idle
    /\ NoAction
    /\ UNCHANGED <<serving, client, session, timeout_count, peerVars, heard,
                   faults>>
SelectTimeout ==
    /\ Idle /\ queue = <<>>
    /\ NoAction
    /\ UNCHANGED <<serving, client, session, timeout_count, peerVars, heard,
                   faults>>

SelectFails ==
    /\ Idle /\ Fault
    /\ ResultFail
    /\ UNCHANGED <<serving, client, session, timeout_count, peerVars, heard>>

Accept ==
    /\ Idle /\ queue # <<>>
    /\ client' = Head(queue)
    /\ queue' = Tail(queue)
    /\ session' = "open"
    /\ netPc' = "accept"
    /\ UNCHANGED <<serving, shutdown, timeout_count, is_managed, conn, inbox,
                   probed, heard, faults>>

(* accept fails, or SSL_new, which closes the accepted socket.             *)
AcceptFails ==
    /\ Idle /\ queue # <<>> /\ Fault
    /\ NoAction
    /\ \/ UNCHANGED <<queue, conn, inbox>>
       \/ queue' = Tail(queue) /\ Forget(Head(queue))
    /\ UNCHANGED <<serving, client, session, timeout_count, probed, heard>>

(* SSL_accept: 1, 0 or less.  A negative result is taken for success.      *)
HandshakeDone ==
    /\ netPc = "accept" /\ inbox[client] = "hello"
    /\ inbox' = [inbox EXCEPT ![client] = "nothing"]
    /\ netPc' = "read"
    /\ UNCHANGED <<serving, shutdown, client, session, timeout_count,
                   is_managed, queue, conn, probed, heard, faults>>

(* What the broker said may be refused; one that says nothing, be it there *)
(* or not, is waited for.                                                  *)
MayFailIfSaid == inbox[client] = "hello"  \* mutant: an end is not noticed
MayFail == inbox[client] = "hello" \/ conn[client] \in {"fin", "ended"}

ReleaseSocket ==  \* mutant: ssl_session is not set to NULL
    /\ client' = None
    /\ probed' = FALSE
    /\ Forget(client)
    /\ UNCHANGED session
Release == CloseClient

HandshakeFails ==
    /\ netPc = "accept" /\ MayFail
    /\ Release
    /\ NoAction
    /\ UNCHANGED <<serving, timeout_count, queue, heard, faults>>

HandshakeError ==
    /\ netPc = "accept" /\ MayFail
    /\ session' = "failed"
    /\ inbox' = [inbox EXCEPT ![client] = "nothing"]
    /\ netPc' = "read"
    /\ UNCHANGED <<serving, shutdown, client, timeout_count, is_managed,
                   queue, conn, probed, heard, faults>>

-----------------------------------------------------------------------------
(* listener_listen with a client.                                          *)
Reading ==
    /\ client # None
    /\ netPc = "read" \/ netPc = "listen"

Readable ==
    inbox[client] # "nothing" \/ conn[client] \in {"fin", "ended"}

(* send_ping; a peer that has left answers with a reset.                   *)
Written ==
    /\ session = "open"
    /\ conn[client] # "ended"
    /\ probed' = (probed \/ conn[client] = "vanished")
    /\ \/ UNCHANGED conn
       \/ conn[client] = "fin" /\ conn' = [conn EXCEPT ![client] = "ended"]
    /\ UNCHANGED <<client, session, inbox>>

WriteFails == session = "failed" \/ conn[client] = "ended"

PingOverdue == timeout_count > PingSteps  \* mutant: > for >=
PingDue == timeout_count >= PingSteps

CountTimeout ==
    /\ Reading /\ ~Readable /\ ~PingDue
    /\ timeout_count' = timeout_count + 1
    /\ KeepClient
    /\ ClientStale
    /\ UNCHANGED <<serving, queue, heard, faults>>

(* A failing ping closes the client, and the lamp is managed for one more  *)
(* turn.                                                                   *)
Ping ==
    /\ Reading /\ ~Readable /\ PingDue
    /\ \/ Written /\ NoFault
       \/ WriteFails /\ CloseClient /\ NoFault
       \/ CloseClient /\ Fault
    /\ timeout_count' = 0
    /\ ClientStale
    /\ UNCHANGED <<serving, queue, heard>>

ClientSelectFails ==
    /\ Reading /\ Fault
    /\ CloseClient
    /\ ResultFail
    /\ UNCHANGED <<serving, timeout_count, queue, heard>>

(* SSL_read waits for the rest of the record.                              *)
ReadPart ==
    /\ Reading /\ inbox[client] = "part"
    /\ conn[client] \in {"up", "vanished"}
    /\ netPc' = "record"
    /\ UNCHANGED <<serving, shutdown, client, session, timeout_count,
                   is_managed, peerVars, heard, faults>>

Selected == (Reading /\ Readable) \/ netPc = "record"

(* A command goes to the LED task.                                         *)
ReadCommand ==
    /\ Selected /\ session = "open" /\ inbox[client] = "command"
    /\ inbox' = [inbox EXCEPT ![client] = "nothing"]
    /\ netPc' = "ping"
    /\ is_managed' = TRUE
    /\ UNCHANGED <<serving, shutdown, client, session, timeout_count, queue,
                   conn, probed, heard, faults>>

(* Another packet, an unknown state, or SSL_read < 0, which a session that *)
(* failed its handshake returns for what is not a part.                    *)
IsBad ==
    \/ session = "failed" /\ inbox[client] # "part"
    \/ inbox[client] = "wrong"
    \/ inbox[client] = "nothing" /\ conn[client] = "ended"
    \/ inbox[client] = "part" /\ conn[client] \in {"fin", "ended"}

ReadBadKept ==  \* mutant: the client is not closed
    /\ Selected /\ IsBad
    /\ KeepClient
    /\ NoAction
    /\ UNCHANGED <<serving, timeout_count, queue, heard, faults>>
ReadBad ==
    /\ Selected /\ IsBad
    /\ CloseClient
    /\ NoAction
    /\ UNCHANGED <<serving, timeout_count, queue, heard, faults>>

(* SSL_read = 0: the client is kept.                                       *)
IsEnd ==
    /\ session = "open" /\ inbox[client] \in {"nothing", "part"}
    /\ conn[client] = "fin"

ReadEndUnmanaged ==  \* mutant: RESULT_NO_ACTION instead of CLIENT_STALE
    /\ Selected /\ IsEnd
    /\ KeepClient
    /\ NoAction
    /\ UNCHANGED <<serving, timeout_count, queue, heard, faults>>
ReadEnd ==
    /\ Selected /\ IsEnd
    /\ KeepClient
    /\ ClientStale
    /\ UNCHANGED <<serving, timeout_count, queue, heard, faults>>

(* send_state_ping; if it fails the WiFi is shut down.                     *)
StatePing ==
    /\ netPc = "ping"
    /\ netPc' = "top"
    /\ \/ Written /\ NoFault /\ UNCHANGED shutdown
       \/ WriteFails /\ KeepClient /\ NoFault /\ shutdown' = TRUE
       \/ KeepClient /\ Fault /\ shutdown' = TRUE
    /\ UNCHANGED <<serving, timeout_count, is_managed, queue, heard>>

NetworkStep ==
    \/ ServeShutdown
    \/ DiscoveryTimeout \/ DiscoveryAnswer \/ DiscoveryFails
    \/ SelectTimeout \/ SelectFails \/ Accept \/ AcceptFails
    \/ HandshakeDone \/ HandshakeFails \/ HandshakeError
    \/ CountTimeout \/ Ping \/ ClientSelectFails
    \/ ReadPart \/ ReadCommand \/ ReadBad \/ ReadEnd \/ StatePing

-----------------------------------------------------------------------------
(* The brokers.                                                            *)
Connect(b) ==
    /\ serving
    /\ conn[b] = "none" /\ Len(queue) < Backlog
    /\ conn' = [conn EXCEPT ![b] = "up"]
    /\ queue' = Append(queue, b)
    /\ UNCHANGED <<serving, shutdown, lampVars, inbox, probed, heard, faults>>

(* Its side of the handshake, then its packets, whole or in two parts.     *)
(* Nothing obliges it to send the one, or the rest of the other.           *)
Send(b) ==
    /\ conn[b] = "up" /\ client = b
    /\ \/ /\ netPc = "accept" /\ inbox[b] = "nothing"
          /\ inbox' = [inbox EXCEPT ![b] = "hello"]
       \/ /\ netPc # "accept" /\ inbox[b] \in {"nothing", "part"}
          /\ \E packet \in {"part", "command", "wrong"} :
                 inbox' = [inbox EXCEPT ![b] = packet]
    /\ UNCHANGED <<serving, shutdown, lampVars, queue, conn, probed, heard,
                   faults>>

(* What was sent before an end may still be read, or is dropped by it.     *)
Leave(b) ==
    /\ conn[b] = "up"
    /\ \/ /\ \E end \in {"fin", "ended", "vanished"} :
                 conn' = [conn EXCEPT ![b] = end]
          /\ UNCHANGED inbox
       \/ /\ conn' = [conn EXCEPT ![b] = "ended"]
          /\ inbox' = [inbox EXCEPT ![b] = "nothing"]
    /\ UNCHANGED <<serving, shutdown, lampVars, queue, probed, heard, faults>>

(* The stack has repeated for long enough what it was given to write: a    *)
(* ping, or the lamp's side of a handshake that had begun.                 *)
GiveUp ==
    /\ client # None /\ conn[client] = "vanished"
    /\ probed \/ netPc = "accept"
    /\ conn' = [conn EXCEPT ![client] = "ended"]
    /\ UNCHANGED <<serving, shutdown, lampVars, queue, inbox, probed, heard,
                   faults>>

(* STA_DISCONNECTED closes nothing.                                        *)
LinkLost ==
    /\ serving /\ Fault
    /\ serving' = FALSE
    /\ conn' = [b \in Brokers |->
                   IF conn[b] = "up" THEN "vanished" ELSE conn[b]]
    /\ UNCHANGED <<shutdown, lampVars, queue, inbox, probed, heard>>

(* GOT_IP opens new servers: the old backlog is nobody's, the client stays. *)
Reconnect ==
    /\ ~serving
    /\ serving' = TRUE
    /\ queue' = <<>>
    /\ conn' = [b \in Brokers |-> IF b = client THEN conn[b] ELSE "none"]
    /\ inbox' = [b \in Brokers |-> IF b = client THEN inbox[b] ELSE "nothing"]
    /\ UNCHANGED <<shutdown, lampVars, probed, heard, faults>>

(* Whatever else ends the WiFi: a press, the end of the retries.           *)
PostShutdown ==
    /\ ~shutdown
    /\ shutdown' = TRUE
    /\ UNCHANGED <<serving, lampVars, peerVars, heard, faults>>

Next ==
    \/ NetworkStep
    \/ \E b \in Brokers : Connect(b) \/ Send(b) \/ Leave(b)
    \/ GiveUp \/ LinkLost \/ Reconnect \/ PostShutdown

(* The scheduler runs the network task, unless it waits for a broker, and  *)
(* the stack gives a ping up.  A broker owes nothing: not its side of the  *)
(* handshake, nor the rest of its record, nor the end of its connection.   *)
Spec ==
    /\ Init /\ [][Next]_vars
    /\ WF_vars(NetworkStep)
    /\ WF_vars(GiveUp /\ probed)

-----------------------------------------------------------------------------
TypeOK ==
    /\ serving \in BOOLEAN /\ shutdown \in BOOLEAN
    /\ netPc \in {"top", "listen", "accept", "read", "record", "ping"}
    /\ client \in Brokers \cup {None}
    /\ session \in {"null", "open", "failed"}
    /\ timeout_count \in 0 .. PingSteps
    /\ is_managed \in BOOLEAN
    /\ queue \in Seq(Brokers) /\ Len(queue) <= Backlog
    /\ conn \in [Brokers -> Conn]
    /\ inbox \in [Brokers -> Inbox]
    /\ probed \in BOOLEAN
    /\ heard \in {"nothing", "free", "managed"}
    /\ faults \in 0 .. MaxFaults

(* client_socket and ssl_session come and go together, over every way a    *)
(* client is refused or lost: no session leaks, none is used without one.  *)
SessionWithClient == client = None <=> session = "null"

(* A broker is told that the lamp is free only when it has no client,      *)
(* although is_managed is set by the turn before.                          *)
FreeIsFree == [][heard # "free" /\ heard' = "free" => client = None]_vars

(* A lamp that has lost its client does not go on saying that it is        *)
(* managed, for all the late CLIENT_STALE results.                         *)
ManagedClears ==
    (client = None /\ is_managed) ~> (client # None \/ ~is_managed \/ ~serving)

(* The task waits for a broker that is silent, or gone.                    *)
Held ==
    /\ client # None /\ conn[client] \in {"up", "vanished"}
    /\ \/ netPc = "accept" /\ inbox[client] = "nothing"
       \/ netPc = "record" /\ inbox[client] = "part"

(* A client that ended its connection or vanished loses the lamp: pings    *)
(* find the one that says nothing.  (Not one that leaves with a bare FIN;  *)
(* and one that vanishes in its handshake or in the middle of a record may *)
(* hold the lamp for good.)                                                *)
DeadClientReleased ==
    \/ \A b \in Brokers :
           (client = b /\ conn[b] \in {"ended", "vanished"})
               ~> (client # b \/ ~serving)
    \/ <>[]Held

(* However the last client went, the next in the backlog is accepted.      *)
FreeLampAccepts ==
    (client = None /\ queue # <<>>)
        ~> (client # None \/ queue = <<>> \/ ~serving)

(* Every posted shutdown is served, whatever the clients do, but for one   *)
(* thing: a broker that from some time on holds the task for good, silent  *)
(* in its handshake or in the middle of a record.                          *)
ShutdownServed == (shutdown ~> ~shutdown) \/ <>[]Held
=============================================================================
