--------------------------- MODULE SessionLifeProofs ---------------------------
(***************************************************************************)
(* Proofs about SessionLife for any number of sockets, handles and starts:  *)
(* nothing is left when the receiver does not run, what the threads use     *)
(* exists, a thread takes at most one datagram of another socket, a failure *)
(* is reported, and ReceiverStopped is the last event but for commands.     *)
(***************************************************************************)
EXTENDS SessionLife, TLAPS

(* The probe is down: it can be started or destroyed. *)
Down ==
    /\ running_ = FALSE /\ audio_packet_ = FALSE
    /\ \A s \in Sockets : socket_handle[s] = 0 /\ thread[s] = "none"

(* Where a call of the probe is. *)
CallInv ==
    /\ upc \in {"flag", "clear", "wsa"} => k = 1
    /\ upc \in {"wsa", "bind", "spawn"} => then = "start"
    /\ running_ = TRUE => upc \in {"idle", "flag", "spawn", "done"}
    /\ upc \in {"wsa", "failed"} => Down
    /\ (upc = "done" /\ then = "return") => Down

(* Handles and the sockets they stand for. *)
SocketInv ==
    /\ open \cap foreign = {}
    /\ \A h \in open : \E s \in Sockets : socket_handle[s] = h
    /\ \A s \in Sockets :
          (socket_handle[s] # 0 /\ ~(upc = "zero" /\ s = k)) => socket_handle[s] \in open
    /\ \A s, t \in Sockets :
          (socket_handle[s] # 0 /\ socket_handle[s] = socket_handle[t]) => s = t
    /\ upc = "zero" => socket_handle[k] \notin open
    /\ upc \in {"close", "zero"} => \A s \in Sockets : s < k => socket_handle[s] = 0
    /\ upc \in {"join", "clear"} => \A s \in Sockets : socket_handle[s] = 0
    /\ upc = "bind" => \A s \in Sockets : s >= k => socket_handle[s] = 0

(* The threads live from spawn to join, within the life of the callback. *)
ThreadInv ==
    /\ \A s \in Sockets : thread[s] # "none" => audio_packet_ = TRUE
    /\ upc \in {"bind", "spawn"} => audio_packet_ = TRUE
    /\ upc \in {"bind", "clear"} => \A s \in Sockets : thread[s] = "none"
    /\ upc = "join" => \A s \in Sockets : s < k => thread[s] = "none"
    /\ upc = "spawn" => \A s \in Sockets : s >= k => thread[s] = "none"

(* A thread receives from its own socket while the probe runs; when it has  *)
(* taken a datagram from another, it sees that the probe does not run.      *)
StolenInv ==
    /\ \A s \in Sockets :
          (running_ = TRUE /\ thread[s] = "recv") => arg[s] = socket_handle[s]
    /\ \A s \in Sockets :
          stolen[s] # 0 =>
              stolen[s] = 1 /\ running_ = FALSE /\ thread[s] \notin {"none", "read", "recv"}

ProbeInv == CallInv /\ SocketInv /\ ThreadInv /\ StolenInv

(* The host is in a call of the probe, or the probe is as it left it. *)
HostInv ==
    /\ upc # "idle" <=> hpc \in {"probe", "failProbe", "stopProbe", "destroyProbe"}
    /\ hpc = "probe" => then \in {"start", "fail"}
    /\ hpc \in {"failProbe", "stopProbe", "destroyProbe"} => then = "return"
    /\ hpc \in {"fail", "error", "destroyProbe", "destroyed"} => Down
    /\ (hpc = "idle" /\ running = FALSE) => Down

(* What is up at each step of the host. *)
PartInv ==
    /\ server # "off" => \/ hpc \in {"advertise", "started", "failServer", "stopServer"}
                         \/ hpc = "idle" /\ running = TRUE
    /\ client # "none" => server # "off"
    /\ discovery = TRUE => hpc = "started" \/ (hpc = "idle" /\ running = TRUE)
    /\ hpc \in {"probe", "server", "advertise", "started", "fail", "failServer",
                "failProbe"} => running = TRUE
    /\ hpc \in {"error", "stopServer", "stopProbe", "destroyProbe", "destroyed"} =>
          running = FALSE
    /\ alive = FALSE => hpc \in {"destroyProbe", "destroyed"}

(* What is reported. *)
ReportInv ==
    /\ (hpc = "idle" /\ running = TRUE) => cause = "none"
    /\ hpc \in {"probe", "server", "advertise", "started"} => cause = "none"
    /\ hpc \in {"stopServer", "stopProbe"} => cause = "none"
    /\ hpc \in {"fail", "error", "failServer", "failProbe"} => cause # "none"
    /\ (hpc = "idle" /\ cause # "none") => last_error = cause \/ byCommand = TRUE
    /\ Stopped => event \in {"ReceiverStopped", "command"}

(* The inductive invariant. *)
IInv == TypeOK /\ ProbeInv /\ HostInv /\ PartInv /\ ReportInv

-----------------------------------------------------------------------------
(* Facts about sockets and handles *)

LEMMA SocketFacts ==
    /\ Sockets \subseteq Nat /\ 1 \in Sockets /\ SocketCount \in Sockets
    /\ \A s \in Sockets : 1 <= s /\ s <= SocketCount
    /\ \A s \in Sockets : s # SocketCount => s + 1 \in Sockets
    /\ 0 \notin Handles
BY SocketCountAssumption, HandlesAssumption DEF Sockets

-----------------------------------------------------------------------------
(* The types *)

LEMMA ProbeCallTyped ==
    ASSUME ProbeTypeOK, ProbeCall
    PROVE ProbeTypeOK'
<1> USE SocketFacts DEF ProbeTypeOK, callVars, socketVars, threadVars
<1>1. CASE StopFlag
  BY <1>1 DEF StopFlag, Onward, FreeHandles
<1>2. CASE CloseSocket
  BY <1>2 DEF CloseSocket, Onward, FreeHandles
<1>3. CASE ZeroHandle
  BY <1>3 DEF ZeroHandle, Onward, FreeHandles
<1>4. CASE NothingToClose
  BY <1>4 DEF NothingToClose, Onward, FreeHandles
<1>5. CASE JoinThread
  BY <1>5 DEF JoinThread, Onward, FreeHandles
<1>6. CASE ClearCallback
  BY <1>6 DEF ClearCallback, Onward, FreeHandles
<1>7. CASE WsaFails
  BY <1>7 DEF WsaFails, Onward, FreeHandles
<1>8. CASE SetCallbacks
  BY <1>8 DEF SetCallbacks, Onward, FreeHandles
<1>9. CASE bind_socket
  BY <1>9 DEF bind_socket, Onward, FreeHandles
<1>10. CASE BindFails
  BY <1>10 DEF BindFails, Onward, FreeHandles
<1>11. CASE SpawnThread
  BY <1>11 DEF SpawnThread, Onward, FreeHandles
<1> QED BY <1>1, <1>2, <1>3, <1>4, <1>5, <1>6, <1>7, <1>8, <1>9, <1>10, <1>11 DEF ProbeCall

-----------------------------------------------------------------------------
(* The probe's own invariant *)

(* A step of start() or stop() keeps it. *)
LEMMA ProbeCallKeeps ==
    ASSUME ProbeTypeOK, ProbeInv, ProbeCall
    PROVE ProbeInv'
<1> USE SocketFacts DEF ProbeTypeOK, ProbeInv, CallInv, SocketInv, ThreadInv, StolenInv,
                        Down, callVars, socketVars, threadVars
<1>1. CASE StopFlag
  BY <1>1 DEF StopFlag, Onward, FreeHandles
<1>2. CASE CloseSocket
  BY <1>2 DEF CloseSocket, Onward, FreeHandles
<1>3. CASE ZeroHandle
  BY <1>3 DEF ZeroHandle, Onward, FreeHandles
<1>4. CASE NothingToClose
  BY <1>4 DEF NothingToClose, Onward, FreeHandles
<1>5. CASE JoinThread
  BY <1>5 DEF JoinThread, Onward, FreeHandles
<1>6. CASE ClearCallback
  BY <1>6 DEF ClearCallback, Onward, FreeHandles
<1>7. CASE WsaFails
  BY <1>7 DEF WsaFails, Onward, FreeHandles
<1>8. CASE SetCallbacks
  BY <1>8 DEF SetCallbacks, Onward, FreeHandles
<1>9. CASE bind_socket
  BY <1>9 DEF bind_socket, Onward, FreeHandles
<1>10. CASE BindFails
  BY <1>10 DEF BindFails, Onward, FreeHandles
<1>11. CASE SpawnThread
  BY <1>11 DEF SpawnThread, Onward, FreeHandles
<1> QED BY <1>1, <1>2, <1>3, <1>4, <1>5, <1>6, <1>7, <1>8, <1>9, <1>10, <1>11 DEF ProbeCall

(* A call that is going on leaves a probe down that was down. *)
LEMMA ProbeCallDown ==
    ASSUME ProbeTypeOK, ProbeInv, ProbeCall, then = "return"
    PROVE /\ then' = "return" /\ upc' # "idle" /\ upc # "done"
          /\ Down => Down'
<1> USE SocketFacts DEF ProbeTypeOK, ProbeInv, CallInv, SocketInv, ThreadInv,
                        Down, callVars, socketVars, threadVars
<1>1. CASE StopFlag
  BY <1>1 DEF StopFlag, Onward, FreeHandles
<1>2. CASE CloseSocket
  BY <1>2 DEF CloseSocket, Onward, FreeHandles
<1>3. CASE ZeroHandle
  BY <1>3 DEF ZeroHandle, Onward, FreeHandles
<1>4. CASE NothingToClose
  BY <1>4 DEF NothingToClose, Onward, FreeHandles
<1>5. CASE JoinThread
  BY <1>5 DEF JoinThread, Onward, FreeHandles
<1>6. CASE ClearCallback
  BY <1>6 DEF ClearCallback, Onward, FreeHandles
<1>7. CASE WsaFails
  BY <1>7 DEF WsaFails, Onward, FreeHandles
<1>8. CASE SetCallbacks
  BY <1>8 DEF SetCallbacks, Onward, FreeHandles
<1>9. CASE bind_socket
  BY <1>9 DEF bind_socket, Onward, FreeHandles
<1>10. CASE BindFails
  BY <1>10 DEF BindFails, Onward, FreeHandles
<1>11. CASE SpawnThread
  BY <1>11 DEF SpawnThread, Onward, FreeHandles
<1> QED BY <1>1, <1>2, <1>3, <1>4, <1>5, <1>6, <1>7, <1>8, <1>9, <1>10, <1>11 DEF ProbeCall

(* A thread of the probe moves: what its steps have in common.  It receives *)
(* from the handle it has read, and sees whether the probe runs.            *)
ThreadMoves(s) ==
    /\ thread[s] # "none"
    /\ \E w \in {"check", "read", "recv", "packet", "decode", "log", "ended"} :
          /\ thread' = [thread EXCEPT ![s] = w]
          /\ w = "read" => running_ = TRUE /\ thread[s] = "check"
          /\ w = "recv" => arg'[s] = socket_handle[s] /\ thread[s] = "read"
    /\ \/ stolen' = stolen
       \/ /\ thread[s] = "recv" /\ arg[s] \in foreign
          /\ thread'[s] \in {"log", "packet"}
          /\ stolen' = [stolen EXCEPT ![s] = stolen[s] + 1]
    /\ \E h \in Handles \cup {0} : arg' \in {arg, [arg EXCEPT ![s] = h]}
    /\ UNCHANGED <<running_, socketVars, audio_packet_, callVars>>

LEMMA ThreadStepMoves ==
    ASSUME TypeOK, NEW s \in Sockets, ThreadStep(s)
    PROVE ThreadMoves(s)
<1> USE SocketFacts DEF TypeOK, ProbeTypeOK, ThreadMoves, Goes
<1>1. CASE CheckRunning(s)
  BY <1>1 DEF CheckRunning
<1>2. CASE ReadHandle(s)
  BY <1>2 DEF ReadHandle
<1>3. CASE ReceiveFails(s)
  BY <1>3 DEF ReceiveFails
<1>4. CASE ReceiveDatagram(s)
  BY <1>4 DEF ReceiveDatagram
<1>5. CASE LogDatagram(s)
  BY <1>5 DEF LogDatagram
<1> QED BY <1>1, <1>2, <1>3, <1>4, <1>5 DEF ThreadStep, Receives

LEMMA PacketMoves ==
    ASSUME TypeOK, PacketLocks \/ PacketUnlocks
    PROVE ThreadMoves(data_)
BY SocketFacts DEF TypeOK, ProbeTypeOK, ThreadMoves, Goes, PacketLocks, PacketUnlocks, data_

LEMMA ThreadMovesKeeps ==
    ASSUME ProbeTypeOK, ProbeInv, NEW s \in Sockets, ThreadMoves(s)
    PROVE ProbeTypeOK' /\ ProbeInv'
<1> USE SocketFacts DEF ProbeTypeOK, ThreadMoves, callVars, socketVars
<1>1. ProbeTypeOK'
  OBVIOUS
<1>2. ~Down
  BY DEF Down
<1>3. CallInv'
  BY <1>2 DEF ProbeInv, CallInv
<1>4. SocketInv'
  BY DEF ProbeInv, SocketInv
<1>5. ThreadInv'
  BY DEF ProbeInv, ThreadInv
<1>6. StolenInv'
  BY DEF ProbeInv, CallInv, SocketInv, StolenInv
<1> QED BY <1>1, <1>3, <1>4, <1>5, <1>6 DEF ProbeInv

(* Another socket is opened or closed. *)
LEMMA OthersKeep ==
    ASSUME ProbeTypeOK, ProbeInv, OtherOpens \/ OtherCloses
    PROVE ProbeTypeOK' /\ ProbeInv' /\ (Down => Down')
BY SocketFacts DEF ProbeTypeOK, ProbeInv, CallInv, SocketInv, ThreadInv, StolenInv, Down,
   OtherOpens, OtherCloses, FreeHandles, callVars, socketVars, threadVars

(* The probe is called, or its call has returned. *)
LEMMA CallsKeep ==
    ASSUME ProbeTypeOK, ProbeInv, UNCHANGED <<running_, socketVars, threadVars, audio_packet_>>,
           \/ UNCHANGED callVars
           \/ upc = "idle" /\ upc' = "flag" /\ then' \in {"start", "return"} /\ k' = 1
           \/ upc \in {"done", "failed"} /\ upc' = "idle" /\ UNCHANGED <<k, then>>
    PROVE ProbeTypeOK' /\ ProbeInv' /\ (Down <=> Down')
BY SocketFacts DEF ProbeTypeOK, ProbeInv, CallInv, SocketInv, ThreadInv, StolenInv, Down,
   callVars, socketVars, threadVars

-----------------------------------------------------------------------------
(* The session around the probe *)

LEMMA InitIInv == Init => IInv
<1> SUFFICES ASSUME Init PROVE IInv
  OBVIOUS
<1> USE SocketFacts DEF Init, ProbeInit
<1>1. TypeOK
  <2>1. /\ socket_handle \in [Sockets -> Handles \cup {0}]
        /\ arg \in [Sockets -> Handles \cup {0}] /\ stolen \in [Sockets -> Nat]
        /\ thread \in [Sockets -> {"none", "check", "read", "recv", "packet", "decode",
                                   "log", "ended"}]
    OBVIOUS
  <2>2. ProbeTypeOK
    BY <2>1 DEF ProbeTypeOK
  <2>3. starts \in 0..MaxStarts
    BY MaxStartsAssumption
  <2> QED BY <2>2, <2>3, Zenon DEF TypeOK
<1>2. ProbeInv
  BY DEF ProbeInv, CallInv, SocketInv, ThreadInv, StolenInv
<1>3. HostInv /\ PartInv /\ ReportInv
  BY DEF HostInv, PartInv, ReportInv, Stopped, Down
<1> QED BY <1>1, <1>2, <1>3 DEF IInv

(* The steps that call the probe or return from it. *)
CallOrReturn ==
    \/ Start \/ ProbeStarted \/ ProbeFailed \/ ServerFails \/ ServerStopped
    \/ FailProbeStopped \/ StopEnds \/ Destroy \/ Destroyed

(* The steps that leave the probe alone. *)
Beside ==
    \/ StartAgain \/ ServerStarts \/ DiscoveryStarts \/ DiscoveryFails \/ Started
    \/ FailStarts \/ FailEnds \/ Stop
    \/ ClientConnects \/ ClientLocks \/ ClientUnlocks \/ ClientEnds
    \/ CommandStarts \/ CommandSent \/ CommandFails \/ CommandReports

ThreadOf(s) == ThreadStep(s) \/ (s = data_ /\ (PacketLocks \/ PacketUnlocks))

LEMMA NextCases ==
    ASSUME Next
    PROVE \/ CallOrReturn \/ Beside \/ ProbeStep \/ Others
          \/ \E s \in Sockets : ThreadOf(s)
BY SocketFacts DEF Next, Host, Command, CallOrReturn, Beside, ThreadOf, data_

(* What a call or a return does to the probe. *)
LEMMA CallOrReturnCalls ==
    ASSUME IInv, CallOrReturn
    PROVE /\ UNCHANGED <<running_, socketVars, threadVars, audio_packet_>>
          /\ \/ UNCHANGED callVars
             \/ upc = "idle" /\ upc' = "flag" /\ then' \in {"start", "return"} /\ k' = 1
             \/ upc \in {"done", "failed"} /\ upc' = "idle" /\ UNCHANGED <<k, then>>
BY DEF IInv, HostInv, CallOrReturn, Start, ProbeStarted, ProbeFailed, ServerFails,
   ServerStopped, FailProbeStopped, StopEnds, Destroy, Destroyed, Returned, CallProbeStop

LEMMA NextProbe ==
    ASSUME IInv, Next
    PROVE ProbeTypeOK' /\ ProbeInv'
<1>0. TypeOK /\ ProbeTypeOK /\ ProbeInv
  BY DEF IInv, TypeOK
<1>1. CASE CallOrReturn
  BY <1>0, <1>1, CallOrReturnCalls, CallsKeep
<1>2. CASE Beside
  <2>1. UNCHANGED probeVars
    BY <1>2 DEF Beside, StartAgain, ServerStarts, DiscoveryStarts, DiscoveryFails, Started,
       FailStarts, FailEnds, Stop, ClientConnects, ClientLocks, ClientUnlocks, ClientEnds,
       CommandStarts, CommandSent, CommandFails, CommandReports
  <2> QED BY <1>0, <2>1, CallsKeep DEF probeVars
<1>3. CASE ProbeStep
  BY <1>0, <1>3, ProbeCallTyped, ProbeCallKeeps DEF ProbeStep
<1>4. CASE Others
  BY <1>0, <1>4, OthersKeep DEF Others
<1>5. ASSUME NEW s \in Sockets, ThreadOf(s) PROVE ProbeTypeOK' /\ ProbeInv'
  BY <1>0, <1>5, ThreadStepMoves, PacketMoves, ThreadMovesKeeps DEF ThreadOf
<1> QED BY <1>1, <1>2, <1>3, <1>4, <1>5, NextCases

(* The session's variables that no step of the probe or its threads touches. *)
kept == <<running, reportVars, partVars, hostVars>>

LEMMA ThreadsKeep ==
    ASSUME IInv, ProbeStep \/ Others \/ \E s \in Sockets : ThreadOf(s)
    PROVE /\ UNCHANGED kept
          /\ mutex' \in {"free", "client", "packet"}
          /\ event' = event \/ (event' = "other" /\ ~Down)
<1> USE DEF kept, sharedVars
<1>1. CASE ProbeStep
  BY <1>1 DEF ProbeStep, IInv, TypeOK
<1>2. CASE Others
  BY <1>2 DEF Others, IInv, TypeOK
<1>3. ASSUME NEW s \in Sockets, ThreadOf(s)
      PROVE /\ UNCHANGED kept
            /\ mutex' \in {"free", "client", "packet"}
            /\ event' = event \/ (event' = "other" /\ ~Down)
  BY <1>3, SocketFacts DEF ThreadOf, ThreadStep, LogDatagram, PacketLocks, PacketUnlocks, IInv,
     TypeOK, Down, data_
<1> QED BY <1>1, <1>2, <1>3

LEMMA NextTyped ==
    ASSUME IInv, Next
    PROVE TypeOK'
<1>0. ProbeTypeOK'
  BY NextProbe
<1>1. starts' \in 0..MaxStarts
  <2>1. starts' = starts \/ (starts < MaxStarts /\ starts' = starts + 1)
    <3>1. CASE CallOrReturn
      BY <3>1 DEF CallOrReturn, Start, ProbeStarted, ProbeFailed, ServerFails,
         ServerStopped, FailProbeStopped, StopEnds, Destroy, Destroyed
    <3>2. CASE Beside
      BY <3>2 DEF Beside, StartAgain, ServerStarts, DiscoveryStarts, DiscoveryFails, Started,
         FailStarts, FailEnds, Stop, ClientConnects, ClientLocks, ClientUnlocks, ClientEnds,
         CommandStarts, CommandSent, CommandFails, CommandReports, hostVars
    <3>3. CASE ProbeStep \/ Others \/ \E s \in Sockets : ThreadOf(s)
      BY <3>3, ThreadsKeep DEF kept, hostVars
    <3> QED BY <3>1, <3>2, <3>3, NextCases
  <2>2. starts \in 0..MaxStarts
    BY DEF IInv, TypeOK
  <2> QED BY <2>1, <2>2, MaxStartsAssumption
<1> USE DEF IInv, TypeOK, reportVars, partVars, sharedVars, hostVars
<1>2. CASE CallOrReturn
  <2>1. CASE Start
    BY <1>0, <1>1, <2>1 DEF Start
  <2>2. CASE ProbeStarted
    BY <1>0, <1>1, <2>2 DEF ProbeStarted
  <2>3. CASE ProbeFailed
    BY <1>0, <1>1, <2>3 DEF ProbeFailed
  <2>4. CASE ServerFails
    BY <1>0, <1>1, <2>4 DEF ServerFails
  <2>5. CASE ServerStopped
    BY <1>0, <1>1, <2>5 DEF ServerStopped
  <2>6. CASE FailProbeStopped
    BY <1>0, <1>1, <2>6 DEF FailProbeStopped
  <2>7. CASE StopEnds
    BY <1>0, <1>1, <2>7 DEF StopEnds
  <2>8. CASE Destroy
    <3>1. alive' \in BOOLEAN /\ hpc' = "destroyProbe"
      BY <2>8 DEF Destroy
    <3>2. UNCHANGED <<running, reportVars, partVars, sharedVars, cause>>
      BY <2>8 DEF Destroy
    <3> QED BY <1>0, <1>1, <3>1, <3>2
  <2>9. CASE Destroyed
    BY <1>0, <1>1, <2>9 DEF Destroyed
  <2> QED BY <1>2, <2>1, <2>2, <2>3, <2>4, <2>5, <2>6, <2>7, <2>8, <2>9, Zenon DEF CallOrReturn
<1>3. CASE Beside
  <2>1. CASE StartAgain
    BY <1>0, <1>1, <2>1 DEF StartAgain
  <2>2. CASE ServerStarts
    BY <1>0, <1>1, <2>2 DEF ServerStarts
  <2>3. CASE DiscoveryStarts
    BY <1>0, <1>1, <2>3 DEF DiscoveryStarts
  <2>4. CASE DiscoveryFails
    BY <1>0, <1>1, <2>4 DEF DiscoveryFails
  <2>5. CASE Started
    BY <1>0, <1>1, <2>5 DEF Started
  <2>6. CASE FailStarts
    <3>1. running' \in BOOLEAN /\ hpc' = "error"
      BY <2>6 DEF FailStarts
    <3>2. UNCHANGED <<reportVars, partVars, sharedVars, cause, alive>>
      BY <2>6 DEF FailStarts
    <3> QED BY <1>0, <1>1, <3>1, <3>2
  <2>7. CASE FailEnds
    BY <1>0, <1>1, <2>7 DEF FailEnds, ReportInv
  <2>8. CASE Stop
    <3>1. /\ running' \in BOOLEAN /\ discovery' \in BOOLEAN
          /\ server' = "stopping" /\ hpc' = "stopServer"
      BY <2>8 DEF Stop
    <3>2. UNCHANGED <<reportVars, client, sharedVars, cause, alive>>
      BY <2>8 DEF Stop
    <3> QED BY <1>0, <1>1, <3>1, <3>2
  <2>9. CASE ClientConnects
    BY <1>0, <1>1, <2>9 DEF ClientConnects
  <2>10. CASE ClientLocks
    BY <1>0, <1>1, <2>10 DEF ClientLocks
  <2>11. CASE ClientUnlocks
    <3>1. /\ last_error' = "ProtocolError" \/ last_error' = last_error
          /\ byCommand' = FALSE \/ byCommand' = byCommand
          /\ event' = "other" \/ event' = event
          /\ mutex' = "free" /\ client' = "loop"
      BY <2>11 DEF ClientUnlocks
    <3>2. UNCHANGED <<running, cmd, server, discovery, hostVars>>
      BY <2>11 DEF ClientUnlocks
    <3>3. byCommand' \in BOOLEAN
      BY <3>1
    <3> QED BY <1>0, <1>1, <3>1, <3>2, <3>3
  <2>12. CASE ClientEnds
    BY <1>0, <1>1, <2>12 DEF ClientEnds
  <2>13. CASE CommandStarts
    BY <1>0, <1>1, <2>13 DEF CommandStarts
  <2>14. CASE CommandSent
    BY <1>0, <1>1, <2>14 DEF CommandSent
  <2>15. CASE CommandFails
    <3>1. last_error' = "ProtocolError" /\ byCommand' \in BOOLEAN /\ cmd' = "failed"
      BY <2>15 DEF CommandFails
    <3>2. UNCHANGED <<running, partVars, sharedVars, hpc, cause, alive>>
      BY <2>15 DEF CommandFails
    <3> QED BY <1>0, <1>1, <3>1, <3>2
  <2>16. CASE CommandReports
    BY <1>0, <1>1, <2>16 DEF CommandReports
  <2> QED BY <1>3, <2>1, <2>2, <2>3, <2>4, <2>5, <2>6, <2>7, <2>8, <2>9, <2>10, <2>11, <2>12,
     <2>13, <2>14, <2>15, <2>16, Zenon DEF Beside
<1>4. CASE ProbeStep \/ Others \/ \E s \in Sockets : ThreadOf(s)
  BY <1>0, <1>1, <1>4, ThreadsKeep DEF kept
<1> QED BY <1>2, <1>3, <1>4, NextCases

LEMMA NextHost ==
    ASSUME IInv, Next
    PROVE HostInv'
<1>0. TypeOK /\ ProbeTypeOK /\ ProbeInv
  BY DEF IInv, TypeOK
<1>1. CASE CallOrReturn
  <2>1. Down <=> Down'
    BY <1>0, <1>1, CallOrReturnCalls, CallsKeep
  <2> QED BY <1>0, <1>1, <2>1 DEF IInv, TypeOK, HostInv, PartInv, ProbeInv, CallInv, CallOrReturn,
     Start, ProbeStarted, ProbeFailed, ServerFails, ServerStopped, FailProbeStopped,
     StopEnds, Destroy, Destroyed, Returned, CallProbeStop, callVars
<1>2. CASE Beside
  <2>1. UNCHANGED probeVars
    BY <1>2 DEF Beside, StartAgain, ServerStarts, DiscoveryStarts, DiscoveryFails, Started,
       FailStarts, FailEnds, Stop, ClientConnects, ClientLocks, ClientUnlocks, ClientEnds,
       CommandStarts, CommandSent, CommandFails, CommandReports
  <2>2. (Down <=> Down') /\ upc' = upc /\ then' = then
    BY <1>0, <2>1, CallsKeep DEF probeVars, callVars
  <2> QED BY <1>2, <2>2 DEF IInv, TypeOK, HostInv, PartInv, Beside, StartAgain, ServerStarts,
     DiscoveryStarts, DiscoveryFails, Started, FailStarts, FailEnds, Stop, ClientConnects,
     ClientLocks, ClientUnlocks, ClientEnds, CommandStarts, CommandSent, CommandFails,
     CommandReports, hostVars
<1>3. CASE ProbeStep
  <2>1. hpc' = hpc /\ running' = running /\ ProbeCall
    BY <1>3 DEF ProbeStep, hostVars
  <2>2. upc # "idle" /\ upc' # "idle"
    BY <2>1, <1>0 DEF ProbeCall, StopFlag, CloseSocket, ZeroHandle, NothingToClose, JoinThread,
       ClearCallback, WsaFails, SetCallbacks, bind_socket, BindFails, SpawnThread, Onward
  <2>3. then' = then \/ (then = "start" /\ then' = "fail")
    BY <2>1, <1>0 DEF ProbeCall, StopFlag, CloseSocket, ZeroHandle, NothingToClose, JoinThread,
       ClearCallback, WsaFails, SetCallbacks, bind_socket, BindFails, SpawnThread, ProbeInv, CallInv
  <2>4. hpc = "destroyProbe" => Down'
    BY <2>1, <1>0, ProbeCallDown DEF IInv, HostInv
  <2> QED BY <2>1, <2>2, <2>3, <2>4 DEF IInv, HostInv
<1>4. CASE Others
  <2>1. (Down => Down') /\ upc' = upc /\ then' = then /\ hpc' = hpc /\ running' = running
    BY <1>0, <1>4, OthersKeep DEF Others, OtherOpens, OtherCloses, callVars, hostVars
  <2> QED BY <2>1 DEF IInv, HostInv
<1>5. ASSUME NEW s \in Sockets, ThreadOf(s) PROVE HostInv'
  <2>1. ThreadMoves(s)
    BY <1>0, <1>5, ThreadStepMoves, PacketMoves DEF ThreadOf
  <2>2. ~Down /\ upc' = upc /\ then' = then
    BY <2>1 DEF ThreadMoves, Down, callVars
  <2>3. hpc' = hpc /\ running' = running
    BY <1>5, ThreadsKeep DEF kept, hostVars
  <2> QED BY <2>2, <2>3 DEF IInv, HostInv
<1> QED BY <1>1, <1>2, <1>3, <1>4, <1>5, NextCases

LEMMA NextPart ==
    ASSUME IInv, Next
    PROVE PartInv' /\ ReportInv'
<1>0. TypeOK /\ starts \in Nat
  BY MaxStartsAssumption DEF IInv, TypeOK
<1> USE DEF Stopped
<1>1. CASE CallOrReturn
  BY <1>0, <1>1 DEF IInv, TypeOK, HostInv, PartInv, ReportInv, CallOrReturn,
     Start, ProbeStarted, ProbeFailed, ServerFails, ServerStopped, FailProbeStopped,
     StopEnds, Destroy, Destroyed, reportVars, partVars, sharedVars
<1>2. CASE Beside
  BY <1>0, <1>2 DEF IInv, TypeOK, HostInv, PartInv, ReportInv, Beside, StartAgain, ServerStarts,
     DiscoveryStarts, DiscoveryFails, Started, FailStarts, FailEnds, Stop, ClientConnects,
     ClientLocks, ClientUnlocks, ClientEnds, CommandStarts, CommandSent, CommandFails,
     CommandReports, reportVars, partVars, sharedVars, hostVars
<1>3. CASE ProbeStep \/ Others \/ \E s \in Sockets : ThreadOf(s)
  <2>1. Stopped => Down
    BY <1>0 DEF IInv, TypeOK, HostInv
  <2> QED BY <1>0, <1>3, <2>1, ThreadsKeep DEF IInv, TypeOK, PartInv, ReportInv, kept,
     reportVars, partVars, hostVars
<1> QED BY <1>1, <1>2, <1>3, NextCases

LEMMA NextIInv == IInv /\ [Next]_vars => IInv'
<1>1. IInv /\ Next => IInv'
  BY NextTyped, NextProbe, NextHost, NextPart DEF IInv
<1>2. IInv /\ UNCHANGED vars => IInv'
  <2> SUFFICES ASSUME IInv, UNCHANGED vars PROVE IInv'
    OBVIOUS
  <2>1. ProbeTypeOK' /\ ProbeInv' /\ (Down <=> Down')
    BY CallsKeep DEF IInv, TypeOK, vars, probeVars
  <2> QED BY <2>1 DEF IInv, TypeOK, HostInv, PartInv, ReportInv, Stopped, vars, probeVars,
     callVars, reportVars, partVars, sharedVars, hostVars
<1> QED BY <1>1, <1>2

THEOREM Invariance == Spec => []IInv
<1> QED BY InitIInv, NextIInv, PTL DEF Spec

-----------------------------------------------------------------------------
(* What follows from it *)

(* Every variable has its type. *)
THEOREM TypeCorrect == Spec => []TypeOK
<1>1. IInv => TypeOK
  BY DEF IInv
<1> QED BY <1>1, Invariance, PTL

(* Whatever failed, and after any number of starts and stops, a receiver    *)
(* that does not run has no receiving thread, socket, callback, client,     *)
(* server or advertisement.                                                 *)
THEOREM NothingIsLeft == Spec => []NothingOutlivesStop
<1>1. IInv => NothingOutlivesStop
  <2> SUFFICES ASSUME IInv, hpc \in {"idle", "destroyed"}, ~running
               PROVE NothingOutlivesStop
    BY DEF NothingOutlivesStop
  <2>1. running = FALSE
    BY DEF IInv, TypeOK
  <2>2. Down
    BY <2>1 DEF IInv, HostInv
  <2>3. open = {}
    BY <2>2, SocketFacts DEF IInv, TypeOK, ProbeTypeOK, ProbeInv, SocketInv, Down
  <2>4. client = "none" /\ server = "off" /\ ~discovery
    BY <2>1 DEF IInv, TypeOK, PartInv
  <2> QED BY <2>2, <2>3, <2>4 DEF NothingOutlivesStop, Threads, Down
<1> QED BY <1>1, Invariance, PTL

(* The packet callback and the decryptor exist while a thread is in them. *)
THEOREM NothingUsedAfter == Spec => []UsedWhileThere
<1>1. IInv => UsedWhileThere
  BY SocketFacts DEF IInv, TypeOK, ProbeTypeOK, ProbeInv, ThreadInv, HostInv, PartInv, Down,
     UsedWhileThere, data_
<1> QED BY <1>1, Invariance, PTL

(* Every open socket of the probe is still known by its handle. *)
THEOREM SocketsKnown == Spec => []NoSocketLost
<1>1. IInv => NoSocketLost
  BY DEF IInv, ProbeInv, SocketInv, NoSocketLost
<1> QED BY <1>1, Invariance, PTL

(* A thread whose handle was closed under it takes at most one datagram of  *)
(* another socket.                                                          *)
THEOREM StealsOnce == Spec => []AtMostOneStolen
<1>1. IInv => AtMostOneStolen
  BY DEF IInv, TypeOK, ProbeTypeOK, ProbeInv, StolenInv, AtMostOneStolen
<1> QED BY <1>1, Invariance, PTL

(* last_error tells why the last start() failed, unless a command of the    *)
(* host has failed since.                                                   *)
THEOREM FailuresReported == Spec => []FailureReported
<1>1. IInv => FailureReported
  BY DEF IInv, ReportInv, FailureReported
<1> QED BY <1>1, Invariance, PTL

(* When stop() has returned, no thread or client sends an event after       *)
(* ReceiverStopped until the host calls start() again; only a command that  *)
(* the host sends itself is reported.                                       *)
THEOREM StoppedLast == Spec => []StoppedIsLastWord
<1>1. IInv => StoppedIsLastWord
  BY DEF IInv, ReportInv, StoppedIsLastWord
<1> QED BY <1>1, Invariance, PTL
=============================================================================
