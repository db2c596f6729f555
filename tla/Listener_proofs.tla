-------------------------- MODULE Listener_proofs --------------------------
(***************************************************************************)
(* Proofs about Listener, for any number of brokers, faults and timeouts   *)
(* between two pings: the types, that client and session come and go       *)
(* together, and that discovery never offers a lamp that is taken.         *)
(***************************************************************************)
EXTENDS Listener, TLAPS

(* Past listen, a turn is about a client.                                  *)
ClientAtWork == netPc \in {"accept", "read", "record", "ping"} => client # None

(* A turn that ends with a client has set is_managed; discovery, at the    *)
(* top of the next one, relies on it.                                      *)
TaskManaged == netPc \in {"top", "ping"} /\ client # None => is_managed

(* The inductive invariant.                                                *)
IInv == TypeOK /\ SessionWithClient /\ ClientAtWork /\ TaskManaged

-----------------------------------------------------------------------------
(* A flag that stays, or becomes TRUE or FALSE, is still a flag.           *)
LEMMA FlagType ==
    \A v, w : v \in BOOLEAN /\ (w = v \/ w = TRUE \/ w = FALSE)
                  => w \in BOOLEAN
BY Zenon
(* So is what is true if one of two things is.                             *)
LEMMA OrType == \A v, w : (v \/ w) \in BOOLEAN
BY Zenon

(* probed is set by a write to a vanished client, and cleared with it.     *)
LEMMA ProbedMove ==
    ASSUME [Next]_vars
    PROVE  \/ UNCHANGED probed \/ probed' = FALSE
           \/ probed' = (probed \/ conn[client] = "vanished")
<1> USE DEF lampVars, peerVars
<1>1. CASE ServeShutdown
    BY <1>1, Zenon DEF ServeShutdown, peerVars
<1>2. CASE DiscoveryTimeout \/ DiscoveryAnswer \/ DiscoveryFails
    BY <1>2, Zenon
    DEF DiscoveryTimeout, DiscoveryAnswer, GoOnListening, DiscoveryFails,
        peerVars
<1>3. CASE SelectTimeout \/ SelectFails
    BY <1>3, Zenon DEF SelectTimeout, SelectFails
<1>4. CASE Accept \/ AcceptFails
    BY <1>4, Zenon DEF Accept, AcceptFails
<1>5. CASE HandshakeDone \/ HandshakeFails \/ HandshakeError
    BY <1>5, Zenon
    DEF HandshakeDone, HandshakeFails, HandshakeError, Release, CloseClient
<1>6. CASE \/ CountTimeout \/ ClientSelectFails
           \/ ReadPart \/ ReadCommand \/ ReadBad \/ ReadEnd
    BY <1>6, Zenon
    DEF CountTimeout, ClientSelectFails, ReadPart, ReadCommand, ReadBad,
        ReadEnd,
        KeepClient, CloseClient
<1>7. CASE Ping
    BY <1>7, Zenon DEF Ping, Written, CloseClient
<1>8. CASE StatePing
    BY <1>8, Zenon DEF StatePing, Written, KeepClient
<1>9. CASE \E b \in Brokers : Connect(b) \/ Send(b) \/ Leave(b)
    BY <1>9, Zenon DEF Connect, Send, Leave
<1>10. CASE GiveUp \/ LinkLost \/ Reconnect \/ PostShutdown
    BY <1>10, Zenon DEF GiveUp, LinkLost, Reconnect, PostShutdown
<1>11. CASE UNCHANGED vars
    BY <1>11, Zenon DEF vars
<1> QED
    BY <1>1, <1>2, <1>3, <1>4, <1>5, <1>6, <1>7, <1>8, <1>9, <1>10, <1>11,
        Zenon DEF Next, NetworkStep

(* No step does anything else to the other flags.                          *)
LEMMA FlagsMove ==
    ASSUME [Next]_vars
    PROVE  /\ UNCHANGED serving \/ serving' = TRUE \/ serving' = FALSE
           /\ UNCHANGED shutdown \/ shutdown' = TRUE \/ shutdown' = FALSE
           /\ UNCHANGED is_managed \/ is_managed' = TRUE \/ is_managed' = FALSE
<1> USE DEF lampVars, peerVars, NoAction, ClientStale, ResultFail
<1>1. CASE ServeShutdown
    BY <1>1 DEF ServeShutdown
<1>2. CASE DiscoveryTimeout \/ DiscoveryAnswer \/ DiscoveryFails
    BY <1>2
    DEF DiscoveryTimeout, DiscoveryAnswer, GoOnListening, ManagedCleared,
        DiscoveryFails
<1>3. CASE SelectTimeout \/ SelectFails
    BY <1>3 DEF SelectTimeout, SelectFails
<1>4. CASE Accept \/ AcceptFails
    BY <1>4 DEF Accept, AcceptFails
<1>5. CASE HandshakeDone \/ HandshakeFails \/ HandshakeError
    BY <1>5 DEF HandshakeDone, HandshakeFails, HandshakeError
<1>6. CASE \/ CountTimeout \/ ClientSelectFails
           \/ ReadPart \/ ReadCommand \/ ReadBad \/ ReadEnd
    BY <1>6
    DEF CountTimeout, ClientSelectFails, ReadPart, ReadCommand, ReadBad,
        ReadEnd
<1>7. CASE Ping
    BY <1>7 DEF Ping
<1>8. CASE StatePing
    BY <1>8 DEF StatePing
<1>9. CASE \E b \in Brokers : Connect(b) \/ Send(b) \/ Leave(b)
    BY <1>9 DEF Connect, Send, Leave
<1>10. CASE GiveUp \/ LinkLost \/ Reconnect \/ PostShutdown
    BY <1>10 DEF GiveUp, LinkLost, Reconnect, PostShutdown
<1>11. CASE UNCHANGED vars
    BY <1>11 DEF vars
<1> QED
    BY <1>1, <1>2, <1>3, <1>4, <1>5, <1>6, <1>7, <1>8, <1>9, <1>10, <1>11,
        Zenon DEF Next, NetworkStep

(* So the flags keep their type.                                           *)
LEMMA FlagsStep ==
    ASSUME TypeOK, [Next]_vars
    PROVE  /\ serving' \in BOOLEAN /\ shutdown' \in BOOLEAN
           /\ is_managed' \in BOOLEAN /\ probed' \in BOOLEAN
<1>1. probed' \in BOOLEAN
    BY ProbedMove, FlagType, OrType, Zenon DEF TypeOK
<1> QED  BY <1>1, FlagsMove, FlagType, Zenon DEF TypeOK

(* The backlog: emptied, or a broker taken from it or added to it.         *)
LEMMA QueueMove ==
    ASSUME [Next]_vars
    PROVE  \/ UNCHANGED queue \/ queue' = <<>>
           \/ queue # <<>> /\ queue' = Tail(queue)
           \/ \E b \in Brokers :
                  Len(queue) < Backlog /\ queue' = Append(queue, b)
<1> USE DEF lampVars, peerVars
<1>1. CASE ServeShutdown
    BY <1>1 DEF ServeShutdown
<1>2. CASE DiscoveryTimeout \/ DiscoveryAnswer \/ DiscoveryFails
    BY <1>2
    DEF DiscoveryTimeout, DiscoveryAnswer, GoOnListening, DiscoveryFails
<1>3. CASE SelectTimeout \/ SelectFails
    BY <1>3 DEF SelectTimeout, SelectFails
<1>4. CASE Accept \/ AcceptFails
    BY <1>4 DEF Accept, AcceptFails, Idle
<1>5. CASE HandshakeDone \/ HandshakeFails \/ HandshakeError
    BY <1>5 DEF HandshakeDone, HandshakeFails, HandshakeError
<1>6. CASE \/ CountTimeout \/ ClientSelectFails
           \/ ReadPart \/ ReadCommand \/ ReadBad \/ ReadEnd
    BY <1>6
    DEF CountTimeout, ClientSelectFails, ReadPart, ReadCommand, ReadBad,
        ReadEnd
<1>7. CASE Ping
    BY <1>7 DEF Ping
<1>8. CASE StatePing
    BY <1>8 DEF StatePing
<1>9. CASE \E b \in Brokers : Connect(b) \/ Send(b) \/ Leave(b)
    BY <1>9 DEF Connect, Send, Leave
<1>10. CASE GiveUp \/ LinkLost \/ Reconnect \/ PostShutdown
    BY <1>10 DEF GiveUp, LinkLost, Reconnect, PostShutdown
<1>11. CASE UNCHANGED vars
    BY <1>11 DEF vars
<1> QED
    BY <1>1, <1>2, <1>3, <1>4, <1>5, <1>6, <1>7, <1>8, <1>9, <1>10, <1>11,
        Zenon DEF Next, NetworkStep

(* So the backlog is never longer than listen() was told.                  *)
LEMMA QueueStep ==
    ASSUME TypeOK, [Next]_vars
    PROVE  queue' \in Seq(Brokers) /\ Len(queue') <= Backlog
<1> USE DEF Backlog, TypeOK
<1>1. CASE UNCHANGED queue
    BY <1>1
<1>2. CASE queue' = <<>>
  <2>1. <<>> \in Seq(Brokers) /\ Len(<<>>) = 0
      OBVIOUS
  <2> QED  BY <1>2, <2>1
<1>3. CASE queue # <<>> /\ queue' = Tail(queue)
    BY <1>3
<1>4. CASE \E b \in Brokers :
              Len(queue) < Backlog /\ queue' = Append(queue, b)
  <2>1. PICK b \in Brokers : Len(queue) < Backlog /\ queue' = Append(queue, b)
      BY <1>4
  <2>2. queue \in Seq(Brokers) /\ Len(queue) \in Nat
      BY DEF TypeOK
  <2>3. queue' \in Seq(Brokers) /\ Len(queue') = Len(queue) + 1
      BY <2>1, <2>2
  <2> QED  BY <2>1, <2>2, <2>3
<1> QED  BY <1>2, <1>1, <1>3, <1>4, QueueMove

-----------------------------------------------------------------------------
(* The client, its session and is_managed, as each action leaves them.     *)
LEMMA ClientStep ==
    ASSUME TypeOK, SessionWithClient, ClientAtWork, TaskManaged, [Next]_vars
    PROVE  /\ client' \in Brokers \cup {None}
           /\ session' \in {"null", "open", "failed"}
           /\ SessionWithClient' /\ ClientAtWork' /\ TaskManaged'
<1> USE NoneAssumption
DEF lampVars, peerVars, SessionWithClient, ClientAtWork, TaskManaged, NoAction,
    ClientStale, ResultFail, CloseClient, KeepClient
<1>1. /\ client \in Brokers \cup {None}
      /\ session \in {"null", "open", "failed"}
      /\ queue \in Seq(Brokers)
    BY DEF TypeOK
<1>2. CASE ServeShutdown
    BY <1>1, <1>2 DEF ServeShutdown
<1>3. CASE DiscoveryTimeout \/ DiscoveryAnswer
    BY <1>1, <1>3
    DEF DiscoveryTimeout, DiscoveryAnswer, GoOnListening, ManagedCleared
<1>4. CASE DiscoveryFails
    BY <1>1, <1>4 DEF DiscoveryFails, Serves
<1>5. CASE SelectTimeout \/ SelectFails
    BY <1>1, <1>5 DEF SelectTimeout, SelectFails, Idle
<1>6. CASE Accept
    BY <1>1, <1>6 DEF Accept
<1>7. CASE AcceptFails
    BY <1>1, <1>7 DEF AcceptFails, Idle
<1>8. CASE HandshakeDone
    BY <1>1, <1>8 DEF HandshakeDone
<1>9. CASE HandshakeFails
    BY <1>1, <1>9 DEF HandshakeFails, Release
<1>10. CASE HandshakeError
    BY <1>1, <1>10 DEF HandshakeError
<1>11. CASE CountTimeout
    BY <1>1, <1>11 DEF CountTimeout
<1>12. CASE ClientSelectFails
    BY <1>1, <1>12 DEF ClientSelectFails
<1>13. CASE ReadPart \/ ReadCommand
    BY <1>1, <1>13 DEF ReadPart, ReadCommand, Selected, Reading
<1>14. CASE ReadBad
    BY <1>1, <1>14 DEF ReadBad
<1>15. CASE ReadEnd
    BY <1>1, <1>15 DEF ReadEnd
<1>16. CASE Ping
    BY <1>1, <1>16 DEF Ping, Written
<1>17. CASE StatePing
    BY <1>1, <1>17 DEF StatePing, Written
<1>18. CASE \E b \in Brokers : Connect(b) \/ Send(b) \/ Leave(b)
    BY <1>1, <1>18 DEF Connect, Send, Leave
<1>19. CASE GiveUp \/ LinkLost \/ Reconnect \/ PostShutdown
    BY <1>1, <1>19 DEF GiveUp, LinkLost, Reconnect, PostShutdown
<1>20. CASE UNCHANGED vars
    BY <1>1, <1>20 DEF vars
<1> QED
    BY <1>2, <1>3, <1>4, <1>5, <1>6, <1>7, <1>8, <1>9, <1>10, <1>11, <1>12,
        <1>13, <1>14, <1>15, <1>16, <1>17, <1>18, <1>19, <1>20, Zenon
    DEF Next, NetworkStep

-----------------------------------------------------------------------------
(* The place in the code, the counters and the last answer.                *)
LEMMA PlaceStep ==
    ASSUME TypeOK, [Next]_vars
    PROVE  /\ netPc' \in {"top", "listen", "accept", "read", "record", "ping"}
           /\ timeout_count' \in 0 .. PingSteps
           /\ heard' \in {"nothing", "free", "managed"}
           /\ faults' \in 0 .. MaxFaults
<1> USE BoundAssumption
DEF lampVars, NoAction, ClientStale, ResultFail, Fault, NoFault
<1>1. /\ netPc \in {"top", "listen", "accept", "read", "record", "ping"}
      /\ timeout_count \in 0 .. PingSteps
      /\ heard \in {"nothing", "free", "managed"}
      /\ faults \in 0 .. MaxFaults
    BY DEF TypeOK
<1>2. CASE ServeShutdown
    BY <1>1, <1>2 DEF ServeShutdown
<1>3. CASE DiscoveryTimeout \/ DiscoveryAnswer \/ DiscoveryFails
    BY <1>1, <1>3
    DEF DiscoveryTimeout, DiscoveryAnswer, GoOnListening, DiscoveryFails
<1>4. CASE SelectTimeout \/ SelectFails
    BY <1>1, <1>4 DEF SelectTimeout, SelectFails
<1>5. CASE Accept \/ AcceptFails
    BY <1>1, <1>5 DEF Accept, AcceptFails
<1>6. CASE HandshakeDone \/ HandshakeFails \/ HandshakeError
    BY <1>1, <1>6 DEF HandshakeDone, HandshakeFails, HandshakeError
<1>7. CASE CountTimeout
    BY <1>1, <1>7 DEF CountTimeout, PingDue
<1>8. CASE ClientSelectFails \/ ReadPart \/ ReadCommand \/ ReadBad \/ ReadEnd
    BY <1>1, <1>8
    DEF ClientSelectFails, ReadPart, ReadCommand, ReadBad, ReadEnd
<1>9. CASE Ping
    BY <1>1, <1>9 DEF Ping
<1>10. CASE StatePing
    BY <1>1, <1>10 DEF StatePing
<1>11. CASE \E b \in Brokers : Connect(b) \/ Send(b) \/ Leave(b)
    BY <1>1, <1>11 DEF Connect, Send, Leave
<1>12. CASE GiveUp \/ LinkLost \/ Reconnect \/ PostShutdown
    BY <1>1, <1>12 DEF GiveUp, LinkLost, Reconnect, PostShutdown
<1>13. CASE UNCHANGED vars
    BY <1>1, <1>13 DEF vars
<1> QED
    BY <1>2, <1>3, <1>4, <1>5, <1>6, <1>7, <1>8, <1>9, <1>10, <1>11, <1>12,
        <1>13, Zenon DEF Next, NetworkStep

(* The brokers' ends of their connections.                                 *)
LEMMA ConnStep ==
    ASSUME TypeOK, [Next]_vars
    PROVE  conn' \in [Brokers -> Conn] /\ inbox' \in [Brokers -> Inbox]
<1> USE DEF lampVars, peerVars, CloseClient, KeepClient, Forget
<1>1. /\ conn \in [Brokers -> Conn] /\ inbox \in [Brokers -> Inbox]
      /\ {"none", "up", "fin", "ended", "vanished"} \subseteq Conn
      /\ {"nothing", "hello", "part", "command", "wrong"} \subseteq Inbox
    BY DEF TypeOK, Conn, Inbox
<1>2. CASE ServeShutdown
    BY <1>1, <1>2 DEF ServeShutdown
<1>3. CASE DiscoveryTimeout \/ DiscoveryAnswer \/ DiscoveryFails
    BY <1>1, <1>3
    DEF DiscoveryTimeout, DiscoveryAnswer, GoOnListening, DiscoveryFails
<1>4. CASE SelectTimeout \/ SelectFails
    BY <1>1, <1>4 DEF SelectTimeout, SelectFails
<1>5. CASE Accept \/ AcceptFails
    BY <1>1, <1>5 DEF Accept, AcceptFails
<1>6. CASE HandshakeDone \/ HandshakeFails \/ HandshakeError
    BY <1>1, <1>6 DEF HandshakeDone, HandshakeFails, HandshakeError, Release
<1>7. CASE \/ CountTimeout \/ ClientSelectFails
           \/ ReadPart \/ ReadCommand \/ ReadBad \/ ReadEnd
    BY <1>1, <1>7
    DEF CountTimeout, ClientSelectFails, ReadPart, ReadCommand, ReadBad,
        ReadEnd
<1>8. CASE Ping
    BY <1>1, <1>8 DEF Ping, Written
<1>9. CASE StatePing
    BY <1>1, <1>9 DEF StatePing, Written
<1>10. CASE \E b \in Brokers : Connect(b) \/ Send(b) \/ Leave(b)
    BY <1>1, <1>10 DEF Connect, Send, Leave
<1>11. CASE GiveUp \/ LinkLost \/ Reconnect \/ PostShutdown
    BY <1>1, <1>11 DEF GiveUp, LinkLost, Reconnect, PostShutdown
<1>12. CASE UNCHANGED vars
    BY <1>1, <1>12 DEF vars
<1> QED
    BY <1>2, <1>3, <1>4, <1>5, <1>6, <1>7, <1>8, <1>9, <1>10, <1>11, <1>12,
        Zenon DEF Next, NetworkStep

-----------------------------------------------------------------------------
(* The lamp that begins to serve has no client, and says it is free.       *)
LEMMA InitIInv == Init => IInv
<1> SUFFICES ASSUME Init
             PROVE  IInv
    OBVIOUS
<1>1. /\ serving \in BOOLEAN /\ shutdown \in BOOLEAN
      /\ is_managed \in BOOLEAN /\ probed \in BOOLEAN
    BY Zenon DEF Init
<1>2. /\ netPc = "top" /\ heard = "nothing"
      /\ client = None /\ session = "null"
      /\ timeout_count \in 0 .. PingSteps /\ faults \in 0 .. MaxFaults
    BY BoundAssumption DEF Init
<1>3. queue \in Seq(Brokers) /\ Len(queue) <= Backlog
    BY DEF Init, Backlog
<1>4. conn \in [Brokers -> Conn] /\ inbox \in [Brokers -> Inbox]
    BY DEF Init, Conn, Inbox
<1> QED
    BY <1>1, <1>2, <1>3, <1>4
    DEF IInv, TypeOK, SessionWithClient, ClientAtWork, TaskManaged

(* Every step keeps the invariant.                                         *)
LEMMA StepIInv == IInv /\ [Next]_vars => IInv'
<1> SUFFICES ASSUME IInv, [Next]_vars
             PROVE  IInv'
    OBVIOUS
<1>1. TypeOK'
    BY FlagsStep, QueueStep, ClientStep, PlaceStep, ConnStep DEF IInv, TypeOK
<1> QED  BY <1>1, ClientStep DEF IInv

(* The invariant holds of every state of the serving lamp.                 *)
LEMMA Invariance == Spec => []IInv
BY InitIInv, StepIInv, PTL DEF Spec

(* Only an answer to a discovery request tells a broker anything.          *)
LEMMA HeardMove ==
    ASSUME [Next]_vars
    PROVE  UNCHANGED heard \/ DiscoveryAnswer
<1>1. CASE NetworkStep
    BY <1>1
    DEF NetworkStep, ServeShutdown, DiscoveryTimeout, DiscoveryFails,
        SelectTimeout, SelectFails, Accept, AcceptFails, HandshakeDone,
        HandshakeFails, HandshakeError, CountTimeout, Ping, ClientSelectFails,
        ReadPart, ReadCommand, ReadBad, ReadEnd, StatePing
<1>2. CASE \E b \in Brokers : Connect(b) \/ Send(b) \/ Leave(b)
    BY <1>2 DEF Connect, Send, Leave
<1>3. CASE GiveUp \/ LinkLost \/ Reconnect \/ PostShutdown
    BY <1>3 DEF GiveUp, LinkLost, Reconnect, PostShutdown
<1>4. CASE UNCHANGED vars
    BY <1>4 DEF vars
<1> QED  BY <1>1, <1>2, <1>3, <1>4, Zenon DEF Next

-----------------------------------------------------------------------------
(* Type correctness: the backlog holds what listen() was told, and the     *)
(* timeouts between two pings stay within LISTENER_PING_STEPS.             *)
THEOREM TypeCorrect == Spec => []TypeOK
<1>1. IInv => TypeOK
    BY DEF IInv
<1> QED  BY <1>1, Invariance, PTL

(* Whatever way a client is refused, dropped or lost, client_socket and    *)
(* ssl_session come and go together (listener.c).                          *)
THEOREM SessionWithClientHolds == Spec => []SessionWithClient
<1>1. IInv => SessionWithClient
    BY DEF IInv
<1> QED  BY <1>1, Invariance, PTL

(* A broker is told that the lamp is free only when it has no client:      *)
(* every turn that ends with one has set is_managed (network_task).        *)
THEOREM FreeIsFreeHolds == Spec => FreeIsFree
<1>1. IInv /\ [Next]_vars
          => [heard # "free" /\ heard' = "free" => client = None]_vars
  <2> SUFFICES ASSUME IInv, [Next]_vars, heard # "free", heard' = "free"
               PROVE  client = None
      OBVIOUS
  <2>1. DiscoveryAnswer
      BY HeardMove
  <2>2. netPc = "top" /\ ~is_managed
      BY <2>1 DEF DiscoveryAnswer, Serves
  <2> QED  BY <2>2 DEF IInv, TaskManaged
<1> QED  BY <1>1, Invariance, PTL DEF Spec, FreeIsFree
=============================================================================
