------------------------------ MODULE TcpServer ------------------------------
(***************************************************************************)
(* The RTSP listener (src/net/tcp_server.cpp) together with the parts of   *)
(* Session that decide when its threads end: Session::start() and stop(),  *)
(* and the receive loop of handle_client (src/session/session.cpp).        *)
(*                                                                         *)
(*   host    - one thread calling Session::start() and stop() in turn;     *)
(*   accept  - accept_loop(), which registers each connection and starts   *)
(*             its thread under client_mutex_;                             *)
(*   client  - one thread per connection: recv and handle requests while   *)
(*             Session::running, then close the socket and, in a second    *)
(*             critical section, unregister it;                            *)
(*   peer    - the remote end, free to connect, send and leave, or not.    *)
(*                                                                         *)
(* A connection is a member of Clients and connects once.  A socket handle *)
(* is a number the operating system hands out, one that an earlier         *)
(* connection has closed included, as WinSock does.  The vector            *)
(* client_sockets_ is a set: every use of it is insensitive to order and   *)
(* multiplicity (erase removes all equal values).  What a request does is  *)
(* left to the modules about the control session.                          *)
(***************************************************************************)
EXTENDS Naturals, FiniteSets

CONSTANTS
    Clients,        \* connections that may be made
    Handles,        \* socket handles
    NoHandle        \* not a handle: the connection has not been accepted

ASSUME HandleAssumption == NoHandle \notin Handles

VARIABLES
    running,            \* Session::Impl::running
    running_,           \* TcpServer::running_
    listening,          \* the listen socket is open
    hpc,                \* where the host is
    caller,             \* who called TcpServer::stop(): "stop" or "start"
    apc,                \* where the accept thread is
    cpc,                \* where each connection's thread is
    sock,               \* handle of each connection, once accepted
    shut,               \* connections shutdown() has been applied to
    peer,               \* state of the remote end
    client_sockets_,    \* registered handles
    client_threads_,    \* threads nobody has taken over for joining
    joining,            \* threads stop() has swapped out and joins
    clashed             \* history: a connection was given, since start(), a
                        \* handle that its last owner had yet to unregister

vars == <<running, running_, listening, hpc, caller, apc, cpc, sock, shut, peer,
          client_sockets_, client_threads_, joining, clashed>>

flagVars == <<running, running_, listening>>
hostVars == <<hpc, caller, joining>>
connVars == <<sock, shut, client_sockets_, clashed>>

(* The thread of a connection exists. *)
Alive(c) == cpc[c] \in {"check", "recv", "finish", "erase"}

(* The process holds the connection's socket open. *)
Open(c) == cpc[c] \in {"accepted", "check", "recv", "finish"}

(* Handles the operating system may give to a new connection. *)
FreeHandles == Handles \ {sock[c] : c \in {d \in Clients : Open(d)}}

StopPc == {"flag", "close", "sweep", "joinAccept", "swap", "joinClients"}
HostPc == {"stopped", "starting", "advertising", "up"} \cup StopPc

Init ==
    /\ running = FALSE
    /\ running_ = FALSE
    /\ listening = FALSE
    /\ hpc = "stopped"
    /\ caller = "stop"
    /\ apc = "none"
    /\ cpc = [c \in Clients |-> "none"]
    /\ sock = [c \in Clients |-> NoHandle]
    /\ shut = {}
    /\ peer = [c \in Clients |-> "away"]
    /\ client_sockets_ = {}
    /\ client_threads_ = {}
    /\ joining = {}
    /\ clashed = FALSE

-----------------------------------------------------------------------------
(* Session::start(): the flag first, then the server, then discovery. *)

SessionStart ==
    /\ hpc = "stopped"
    /\ running' = TRUE
    /\ hpc' = "starting"
    /\ clashed' = FALSE
    /\ UNCHANGED <<running_, listening, caller, joining, apc, cpc, peer,
                   sock, shut, client_sockets_, client_threads_>>

(* An invalid configuration, or a UDP or TCP port that cannot be bound. *)
ServerStartFails ==
    /\ hpc = "starting"
    /\ running' = FALSE
    /\ hpc' = "stopped"
    /\ UNCHANGED <<running_, listening, caller, joining, apc, cpc, peer,
                   connVars, client_threads_>>

(* TcpServer::start.  Its leading stop() finds nothing to stop: see         *)
(* StoppedIsQuiet.                                                          *)
ServerStarts ==
    /\ hpc = "starting"
    /\ listening' = TRUE
    /\ running_' = TRUE
    /\ apc' = "loop"
    /\ hpc' = "advertising"
    /\ UNCHANGED <<running, caller, joining, cpc, peer, connVars,
                   client_threads_>>

DiscoveryStarts ==
    /\ hpc = "advertising"
    /\ hpc' = "up"
    /\ UNCHANGED <<flagVars, caller, joining, apc, cpc, peer, connVars,
                   client_threads_>>

(* The error path calls TcpServer::stop() while running is still true. *)
DiscoveryFails ==
    /\ hpc = "advertising"
    /\ hpc' = "flag"
    /\ caller' = "start"
    /\ UNCHANGED <<flagVars, joining, apc, cpc, peer, connVars,
                   client_threads_>>

(* Mutant: Session::stop() clears running only after the threads are joined. *)
SessionStopLate ==
    /\ hpc = "up"
    /\ hpc' = "flag"
    /\ caller' = "stop"
    /\ UNCHANGED <<flagVars, joining, apc, cpc, peer, connVars,
                   client_threads_>>

(* Session::stop() clears running before anything else. *)
SessionStop ==
    /\ hpc = "up"
    /\ running' = FALSE
    /\ hpc' = "flag"
    /\ caller' = "stop"
    /\ UNCHANGED <<running_, listening, joining, apc, cpc, peer, connVars,
                   client_threads_>>

-----------------------------------------------------------------------------
(* TcpServer::stop() *)

StopFlag ==
    /\ hpc = "flag"
    /\ running_' = FALSE
    /\ hpc' = "close"
    /\ UNCHANGED <<running, listening, caller, joining, apc, cpc, peer,
                   connVars, client_threads_>>

(* Closing the listen socket also resets the connections nobody accepted. *)
StopClose ==
    /\ hpc = "close"
    /\ listening' = FALSE
    /\ peer' = [c \in Clients |-> IF peer[c] = "queued" THEN "gone" ELSE peer[c]]
    /\ hpc' = "sweep"
    /\ UNCHANGED <<running, running_, caller, joining, apc, cpc, connVars,
                   client_threads_>>

(* Mutant: the connections are not shut down. *)
StopNoSweep ==
    /\ hpc = "sweep"
    /\ hpc' = "joinAccept"
    /\ UNCHANGED <<flagVars, caller, joining, apc, cpc, peer, connVars,
                   client_threads_>>

(* shutdown() of every registered handle hits whoever holds it now. *)
StopSweep ==
    /\ hpc = "sweep"
    /\ shut' = shut \cup
                 {c \in Clients : Open(c) /\ sock[c] \in client_sockets_}
    /\ hpc' = "joinAccept"
    /\ UNCHANGED <<flagVars, caller, joining, apc, cpc, peer, sock,
                   client_sockets_, client_threads_, clashed>>

(* Mutant: the accept thread is not joined before the swap. *)
StopJoinAcceptLate ==
    /\ hpc = "joinAccept"
    /\ hpc' = "swap"
    /\ UNCHANGED <<flagVars, caller, joining, apc, cpc, peer, connVars,
                   client_threads_>>

StopJoinAccept ==
    /\ hpc = "joinAccept" /\ apc = "exited"
    /\ apc' = "none"
    /\ hpc' = "swap"
    /\ UNCHANGED <<flagVars, caller, joining, cpc, peer, connVars,
                   client_threads_>>

StopSwap ==
    /\ hpc = "swap"
    /\ joining' = client_threads_
    /\ client_threads_' = {}
    /\ hpc' = "joinClients"
    /\ UNCHANGED <<flagVars, caller, apc, cpc, peer, connVars>>

(* All joined: start()'s error path clears running now. *)
StopJoinClients ==
    /\ hpc = "joinClients" /\ \A c \in joining : cpc[c] = "done"
    /\ joining' = {}
    /\ running' = FALSE
    /\ hpc' = "stopped"
    /\ UNCHANGED <<running_, listening, caller, apc, cpc, peer, connVars,
                   client_threads_>>

HostCall == ServerStartFails \/ ServerStarts \/ DiscoveryStarts
            \/ DiscoveryFails \/ StopFlag \/ StopClose \/ StopSweep
            \/ StopJoinAccept \/ StopSwap \/ StopJoinClients

-----------------------------------------------------------------------------
(* accept_loop() *)

AcceptCheck ==
    /\ apc = "loop"
    /\ apc' = IF running_ THEN "accept" ELSE "exited"
    /\ UNCHANGED <<flagVars, hostVars, cpc, peer, connVars, client_threads_>>

AcceptPeer(c) ==
    /\ apc = "accept" /\ listening /\ peer[c] = "queued"
    /\ \E h \in FreeHandles :
          /\ sock' = [sock EXCEPT ![c] = h]
          /\ clashed' = (clashed \/ \E d \in Clients :
                                        cpc[d] = "erase" /\ sock[d] = h)
    /\ peer' = [peer EXCEPT ![c] = "open"]
    /\ cpc' = [cpc EXCEPT ![c] = "accepted"]
    /\ apc' = "register"
    /\ UNCHANGED <<flagVars, hostVars, shut, client_sockets_, client_threads_>>

(* accept() fails: always once the listen socket is closed, and now and     *)
(* then by itself; the loop ends if running_ has been cleared.              *)
AcceptFails ==
    /\ apc = "accept"
    /\ apc' = IF running_ THEN "loop" ELSE "exited"
    /\ UNCHANGED <<flagVars, hostVars, cpc, peer, connVars, client_threads_>>

(* One critical section records the handle and starts the thread. *)
Register(c) ==
    /\ apc = "register" /\ cpc[c] = "accepted"
    /\ client_sockets_' = client_sockets_ \cup {sock[c]}
    /\ client_threads_' = client_threads_ \cup {c}
    /\ cpc' = [cpc EXCEPT ![c] = "check"]
    /\ apc' = "loop"
    /\ UNCHANGED <<flagVars, hostVars, sock, shut, peer, clashed>>

-----------------------------------------------------------------------------
(* A client thread: handle_client, then the tail of the thread's lambda. *)

ClientCheck(c) ==
    /\ cpc[c] = "check"
    /\ cpc' = [cpc EXCEPT ![c] = IF running THEN "recv" ELSE "finish"]
    /\ UNCHANGED <<flagVars, hostVars, apc, peer, connVars, client_threads_>>

(* recv() returns data, the requests in it are answered. *)
ClientRequest(c) ==
    /\ cpc[c] = "recv" /\ peer[c] = "open" /\ c \notin shut
    /\ cpc' = [cpc EXCEPT ![c] = "check"]
    /\ UNCHANGED <<flagVars, hostVars, apc, peer, connVars, client_threads_>>

(* Mutant: only errors end the loop, not the 0 of an orderly close. *)
ClientEofNegative(c) ==
    /\ cpc[c] = "recv" /\ (c \in shut \/ peer[c] = "gone")
    /\ cpc' = [cpc EXCEPT ![c] = IF c \in shut THEN "finish" ELSE "check"]
    /\ UNCHANGED <<flagVars, hostVars, apc, peer, connVars, client_threads_>>

(* recv() returns 0 or an error. *)
ClientEof(c) ==
    /\ cpc[c] = "recv" /\ (c \in shut \/ peer[c] = "gone")
    /\ cpc' = [cpc EXCEPT ![c] = "finish"]
    /\ UNCHANGED <<flagVars, hostVars, apc, peer, connVars, client_threads_>>

(* shutdown() and closesocket(): from here on the handle is free. *)
ClientClose(c) ==
    /\ cpc[c] = "finish"
    /\ cpc' = [cpc EXCEPT ![c] = "erase"]
    /\ shut' = shut \cup {c}
    /\ peer' = [peer EXCEPT ![c] = "gone"]
    /\ UNCHANGED <<flagVars, hostVars, apc, sock, client_sockets_,
                   client_threads_, clashed>>

(* Every entry equal to the handle is removed. *)
ClientErase(c) ==
    /\ cpc[c] = "erase"
    /\ client_sockets_' = client_sockets_ \ {sock[c]}
    /\ cpc' = [cpc EXCEPT ![c] = "done"]
    /\ UNCHANGED <<flagVars, hostVars, apc, peer, sock, shut, client_threads_,
                   clashed>>

ClientThread(c) ==
    ClientCheck(c) \/ ClientEof(c) \/ ClientClose(c) \/ ClientErase(c)

-----------------------------------------------------------------------------
(* The remote ends. *)

PeerConnects(c) ==
    /\ peer[c] = "away" /\ listening
    /\ peer' = [peer EXCEPT ![c] = "queued"]
    /\ UNCHANGED <<flagVars, hostVars, apc, cpc, connVars, client_threads_>>

PeerLeaves(c) ==
    /\ peer[c] = "open"
    /\ peer' = [peer EXCEPT ![c] = "gone"]
    /\ UNCHANGED <<flagVars, hostVars, apc, cpc, connVars, client_threads_>>

Host == SessionStart \/ SessionStop \/ HostCall

Acceptor == AcceptCheck \/ AcceptFails
            \/ (\E c \in Clients : AcceptPeer(c) \/ Register(c))

Next ==
    \/ Host
    \/ Acceptor
    \/ \E c \in Clients : ClientThread(c) \/ ClientRequest(c)
    \/ \E c \in Clients : PeerConnects(c) \/ PeerLeaves(c)

Spec == Init /\ [][Next]_vars

(* The host's calls, the accept thread and the client threads run whenever  *)
(* they can.  The peers owe nothing: they may stay connected and silent.    *)
Fairness ==
    /\ WF_vars(HostCall)
    /\ WF_vars(AcceptCheck \/ (AcceptFails /\ ~listening)
               \/ \E c \in Clients : Register(c))
    /\ \A c \in Clients : WF_vars(ClientThread(c))

FairSpec == Spec /\ Fairness

-----------------------------------------------------------------------------
(* Properties *)

TypeOK ==
    /\ running \in BOOLEAN
    /\ running_ \in BOOLEAN
    /\ listening \in BOOLEAN
    /\ hpc \in HostPc
    /\ caller \in {"start", "stop"}
    /\ apc \in {"none", "loop", "accept", "register", "exited"}
    /\ cpc \in [Clients -> {"none", "accepted", "check", "recv", "finish",
                            "erase", "done"}]
    /\ sock \in [Clients -> Handles \cup {NoHandle}]
    /\ shut \subseteq Clients
    /\ peer \in [Clients -> {"away", "queued", "open", "gone"}]
    /\ client_sockets_ \subseteq Handles
    /\ client_threads_ \subseteq Clients
    /\ joining \subseteq Clients
    /\ clashed \in BOOLEAN

(* When stop() has returned, or start() has failed, nothing is left: no     *)
(* listener, no accept thread, no connection's thread, no open socket, no   *)
(* registered handle, whatever connected or left meanwhile.                 *)
StoppedIsQuiet ==
    hpc = "stopped" =>
        /\ ~running /\ ~running_ /\ ~listening
        /\ apc = "none"
        /\ \A c \in Clients : ~Alive(c) /\ ~Open(c)
        /\ client_sockets_ = {}
        /\ client_threads_ = {} /\ joining = {}

(* Unless a handle was given out again before its last owner unregistered   *)
(* it, once Session::stop() has swept the registered connections no client  *)
(* thread is left waiting for its peer, a connection accepted before the    *)
(* sweep and registered after it included: it sees running cleared before   *)
(* it ever receives.                                                        *)
SweptUnblocks ==
    (~clashed /\ caller = "stop"
        /\ hpc \in {"joinAccept", "swap", "joinClients"})
      => \A c \in Clients : cpc[c] = "recv" => c \in shut

(* stop() returns, even if every peer stays connected and silent. *)
StopReturns == (hpc = "flag" /\ caller = "stop") ~> hpc = "stopped"

(* stop() returns, even if every peer stays connected and silent, unless a  *)
(* handle was given out again before its last owner unregistered it.        *)
StopReturnsUnlessClashed ==
    (hpc = "flag" /\ caller = "stop") ~> (hpc = "stopped" \/ clashed)

(* start() returns, successful or not, unless a peer stays connected for    *)
(* ever to a socket that no shutdown() reached.  The failing start() calls  *)
(* TcpServer::stop() with running still true, so a connection registered    *)
(* after the sweep goes on to recv(), which has no time-out: the code does  *)
(* depend on such a peer.  It depends on no other.                          *)
StartReturns ==
    (\A c \in Clients : []<>(peer[c] # "open" \/ c \in shut)) =>
        (hpc = "starting" ~> hpc \in {"up", "stopped"})
=============================================================================
