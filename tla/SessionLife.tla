------------------------------ MODULE SessionLife ------------------------------
(***************************************************************************)
(* The life of a Session (src/session/session.cpp): one thread of the host  *)
(* calls start() and stop() and destroys the Session when it is stopped.    *)
(* start() brings up the UDP probe (module UdpProbe), the server and the    *)
(* advertisement, and takes down what is up when one of them fails.         *)
(*                                                                         *)
(* The server is one thread of a connection here (its own life is module    *)
(* TcpServer), the advertisement is up or not (module DnssdAdvertiser).     *)
(* The thread of the connection and the one of the audio data socket use    *)
(* the decryptor with Session::Impl::mutex held; set_error takes it too.    *)
(* Another thread of the host sends commands (play(), pause(), ...), whether*)
(* the receiver runs or not; what a command does is module DacpClient.      *)
(***************************************************************************)
EXTENDS UdpProbe

CONSTANT MaxStarts      \* bound: calls of start()

ASSUME MaxStartsAssumption == MaxStarts \in Nat

VARIABLES
    running,        \* Session::Impl::running
    last_error,
    byCommand,      \* was last_error set by a command?
    cmd,            \* where send_control_command is
    mutex,          \* who holds it: "free", "client" or "packet"
    server,         \* "off", "on", or "stopping"
    discovery,      \* is the receiver advertised?
    client,         \* the thread of the connection
    hpc,            \* where the host is
    cause,          \* why the last start() failed, "none" if it did not
    alive,          \* the decryptor is not destroyed
    event,          \* the last event that the host was sent: "ReceiverStopped", one
                    \* of a "command", or an "other"
    starts

reportVars == <<last_error, byCommand, cmd>>
partVars == <<server, discovery, client>>
sharedVars == <<mutex, event>>
hostVars == <<hpc, cause, starts, alive>>
vars == <<probeVars, running, reportVars, partVars, sharedVars, hostVars>>

Init ==
    /\ ProbeInit
    /\ running = FALSE /\ last_error = "None" /\ byCommand = FALSE /\ cmd = "idle"
    /\ mutex = "free" /\ server = "off" /\ discovery = FALSE /\ client = "none"
    /\ hpc = "idle" /\ cause = "none" /\ alive = TRUE /\ event = "none" /\ starts = 0

-----------------------------------------------------------------------------
(* start() *)

(* exchange, the check of the configuration, and the call of the probe. *)
Start ==
    /\ hpc = "idle" /\ ~running /\ starts < MaxStarts
    /\ running' = TRUE /\ starts' = starts + 1
    /\ \/ hpc' = "fail" /\ cause' = "InvalidConfig" /\ UNCHANGED callVars
       \/ /\ hpc' = "probe" /\ cause' = "none"
          /\ upc' = "flag" /\ then' = "start" /\ k' = 1
    /\ UNCHANGED <<running_, socketVars, threadVars, audio_packet_, reportVars, partVars,
                   sharedVars, alive>>

(* A receiver that runs is left as it is. *)
StartAgain ==
    /\ hpc = "idle" /\ running /\ starts < MaxStarts
    /\ starts' = starts + 1 /\ cause' = "none"
    /\ UNCHANGED <<probeVars, running, reportVars, partVars, sharedVars, hpc, alive>>

Returned(result) == upc = result /\ upc' = "idle" /\ UNCHANGED <<k, then>>
CallProbeStop == upc' = "flag" /\ then' = "return" /\ k' = 1

ProbeStarted ==
    /\ hpc = "probe" /\ Returned("done") /\ hpc' = "server"
    /\ UNCHANGED <<running_, socketVars, threadVars, audio_packet_, running, reportVars,
                   partVars, sharedVars, cause, starts, alive>>

ProbeFailed ==
    /\ hpc = "probe" /\ Returned("failed") /\ hpc' = "fail" /\ cause' = "NetworkError"
    /\ UNCHANGED <<running_, socketVars, threadVars, audio_packet_, running, reportVars,
                   partVars, sharedVars, starts, alive>>

ServerStarts ==
    /\ hpc = "server" /\ server' = "on" /\ hpc' = "advertise"
    /\ UNCHANGED <<probeVars, running, reportVars, discovery, client, sharedVars, cause,
                   starts, alive>>

(* Mutant: the UDP sockets are left open. *)
ServerFailsLeaking ==
    /\ hpc = "server" /\ hpc' = "fail" /\ cause' = "NetworkError"
    /\ UNCHANGED <<probeVars, running, reportVars, partVars, sharedVars, starts, alive>>

ServerFails ==
    /\ hpc = "server" /\ hpc' = "failProbe" /\ cause' = "NetworkError"
    /\ CallProbeStop
    /\ UNCHANGED <<running_, socketVars, threadVars, audio_packet_, running, reportVars,
                   partVars, sharedVars, starts, alive>>

(* With enable_discovery or without. *)
DiscoveryStarts ==
    /\ hpc = "advertise" /\ hpc' = "started"
    /\ discovery' \in BOOLEAN
    /\ UNCHANGED <<probeVars, running, reportVars, server, client, sharedVars, cause,
                   starts, alive>>

DiscoveryFails ==
    /\ hpc = "advertise" /\ hpc' = "failServer" /\ cause' = "DiscoveryError"
    /\ server' = "stopping"
    /\ UNCHANGED <<probeVars, running, reportVars, discovery, client, sharedVars, starts, alive>>

(* set_error(None) and ReceiverStarted *)
Started ==
    /\ hpc = "started" /\ mutex = "free"
    /\ last_error' = "None" /\ byCommand' = FALSE
    /\ event' = "other" /\ hpc' = "idle"
    /\ UNCHANGED <<probeVars, running, cmd, partVars, mutex, cause, starts, alive>>

-----------------------------------------------------------------------------
(* The ways out of start(), and stop() *)

(* TcpServer::stop() returns when the thread has ended. *)
ServerStopped ==
    /\ hpc \in {"failServer", "stopServer"} /\ client = "none"
    /\ server' = "off"
    /\ hpc' = IF hpc = "failServer" THEN "failProbe" ELSE "stopProbe"
    /\ CallProbeStop
    /\ UNCHANGED <<running_, socketVars, threadVars, audio_packet_, running, reportVars,
                   discovery, client, sharedVars, cause, starts, alive>>

FailProbeStopped ==
    /\ hpc = "failProbe" /\ Returned("done") /\ hpc' = "fail"
    /\ UNCHANGED <<running_, socketVars, threadVars, audio_packet_, running, reportVars,
                   partVars, sharedVars, cause, starts, alive>>

(* Mutant: the failing path does not call set_error. *)
FailSilently ==
    /\ hpc = "fail" /\ running' = FALSE /\ hpc' = "idle"
    /\ UNCHANGED <<probeVars, reportVars, partVars, sharedVars, cause, starts, alive>>

(* running.store(false), and then set_error. *)
FailStarts ==
    /\ hpc = "fail" /\ running' = FALSE /\ hpc' = "error"
    /\ UNCHANGED <<probeVars, reportVars, partVars, sharedVars, cause, starts, alive>>

FailEnds ==
    /\ hpc = "error" /\ mutex = "free"
    /\ last_error' = cause /\ byCommand' = FALSE /\ hpc' = "idle"
    /\ UNCHANGED <<probeVars, running, cmd, partVars, sharedVars, cause, starts, alive>>

(* Session::stop(): running, discovery.stop(), and the server. *)
Stop ==
    /\ hpc = "idle" /\ running
    /\ running' = FALSE /\ discovery' = FALSE /\ server' = "stopping"
    /\ hpc' = "stopServer"
    /\ UNCHANGED <<probeVars, reportVars, client, sharedVars, cause, starts, alive>>

(* Mutant: ReceiverStopped is sent before the probe is stopped. *)
StopEndsEarly ==
    /\ hpc = "stopProbe"
    /\ \/ upc = "flag" /\ event' = "ReceiverStopped" /\ UNCHANGED <<callVars, hpc>>
       \/ Returned("done") /\ hpc' = "idle" /\ UNCHANGED event
    /\ UNCHANGED <<running_, socketVars, threadVars, audio_packet_, running, reportVars,
                   partVars, mutex, cause, starts, alive>>

StopEnds ==
    /\ hpc = "stopProbe" /\ Returned("done")
    /\ event' = "ReceiverStopped" /\ hpc' = "idle"
    /\ UNCHANGED <<running_, socketVars, threadVars, audio_packet_, running, reportVars,
                   partVars, mutex, cause, starts, alive>>

(* ~Session of a receiver that does not run and is sending no command: the  *)
(* decryptor is destroyed before the probe, whose destructor calls stop()   *)
(* once more.                                                               *)
Destroy ==
    /\ hpc = "idle" /\ ~running /\ cmd = "idle"
    /\ alive' = FALSE /\ hpc' = "destroyProbe" /\ CallProbeStop
    /\ UNCHANGED <<running_, socketVars, threadVars, audio_packet_, running, reportVars,
                   partVars, sharedVars, cause, starts>>

Destroyed ==
    /\ hpc = "destroyProbe" /\ Returned("done") /\ hpc' = "destroyed"
    /\ UNCHANGED <<running_, socketVars, threadVars, audio_packet_, running, reportVars,
                   partVars, sharedVars, cause, starts, alive>>

(* A step of UdpProbe::start() or stop(), in the thread of the host. *)
ProbeStep ==
    ProbeCall /\ UNCHANGED <<running, reportVars, partVars, sharedVars, hostVars>>

Host ==
    \/ ProbeStep \/ ProbeStarted \/ ProbeFailed \/ ServerStarts \/ ServerFails
    \/ DiscoveryStarts \/ DiscoveryFails \/ Started \/ ServerStopped \/ FailProbeStopped
    \/ FailStarts \/ FailEnds \/ StopEnds \/ Destroyed

-----------------------------------------------------------------------------
(* send_control_command, in another thread of the host: nothing in it asks  *)
(* whether the receiver runs.                                               *)

(* The copy of dacp_remote, with the mutex held. *)
CommandStarts ==
    /\ cmd = "idle" /\ mutex = "free" /\ alive /\ cmd' = "sending"
    /\ UNCHANGED <<probeVars, running, last_error, byCommand, partVars, sharedVars, hostVars>>

CommandSent ==
    /\ cmd = "sending" /\ cmd' = "idle" /\ event' = "command"
    /\ UNCHANGED <<probeVars, running, last_error, byCommand, partVars, mutex, hostVars>>

(* set_error, and then StreamError *)
CommandFails ==
    /\ cmd = "sending" /\ mutex = "free" /\ cmd' = "failed"
    /\ last_error' = "ProtocolError" /\ byCommand' = TRUE
    /\ UNCHANGED <<probeVars, running, partVars, sharedVars, hostVars>>

CommandReports ==
    /\ cmd = "failed" /\ cmd' = "idle" /\ event' = "command"
    /\ UNCHANGED <<probeVars, running, last_error, byCommand, partVars, mutex, hostVars>>

Command == CommandStarts \/ CommandSent \/ CommandFails \/ CommandReports

-----------------------------------------------------------------------------
(* The thread of a connection *)

ClientConnects ==
    /\ server = "on" /\ client = "none" /\ client' = "loop" /\ event' = "other"
    /\ UNCHANGED <<probeVars, running, reportVars, server, discovery, mutex,
                   hostVars>>

(* A request: a callback that locks, or one that reports an error. *)
ClientLocks ==
    /\ client = "loop" /\ mutex = "free"
    /\ mutex' = "client" /\ client' = "locked"
    /\ UNCHANGED <<probeVars, running, reportVars, server, discovery, event,
                   hostVars>>

ClientUnlocks ==
    /\ client = "locked" /\ mutex' = "free" /\ client' = "loop"
    /\ \/ last_error' = "ProtocolError" /\ byCommand' = FALSE /\ event' = "other"
       \/ event' \in {event, "other"} /\ UNCHANGED <<last_error, byCommand>>
    /\ UNCHANGED <<probeVars, running, cmd, server, discovery, hostVars>>

(* The peer leaves, or stop() is seen, or the socket is shut down. *)
ClientEnds ==
    /\ client = "loop" /\ client' = "none" /\ event' = "other"
    /\ UNCHANGED <<probeVars, running, reportVars, server, discovery, mutex,
                   hostVars>>

-----------------------------------------------------------------------------
(* The thread of the audio data, and the others *)

PacketLocks ==
    /\ thread[data_] = "packet" /\ mutex = "free"
    /\ mutex' = "packet" /\ Goes(data_, "decode")
    /\ UNCHANGED <<running_, socketVars, arg, stolen, audio_packet_, callVars, running,
                   reportVars, partVars, event, hostVars>>

(* Mutant: a return that leaves the mutex locked. *)
PacketUnlocksNot ==
    /\ thread[data_] = "decode" /\ Goes(data_, "log")
    /\ UNCHANGED <<running_, socketVars, arg, stolen, audio_packet_, callVars, running,
                   reportVars, partVars, sharedVars, hostVars>>

(* handle_packet, and mark_playback_started_locked for a decoded frame. *)
PacketUnlocks ==
    /\ thread[data_] = "decode" /\ mutex' = "free" /\ Goes(data_, "log")
    /\ event' \in {event, "other"}
    /\ UNCHANGED <<running_, socketVars, arg, stolen, audio_packet_, callVars, running,
                   reportVars, partVars, hostVars>>

(* log_, for some of the datagrams. *)
LogDatagram(s) ==
    /\ thread[s] = "log" /\ Goes(s, "check")
    /\ event' \in {event, "other"}
    /\ UNCHANGED <<running_, socketVars, arg, stolen, audio_packet_, callVars, running,
                   reportVars, partVars, mutex, hostVars>>

ThreadStep(s) ==
    \/ /\ CheckRunning(s) \/ ReadHandle(s) \/ Receives(s)
       /\ UNCHANGED <<running, reportVars, partVars, sharedVars, hostVars>>
    \/ LogDatagram(s)

Others ==
    /\ OtherOpens \/ OtherCloses
    /\ UNCHANGED <<running, reportVars, partVars, sharedVars, hostVars>>

Next ==
    \/ Start \/ StartAgain \/ Stop \/ Destroy \/ Host \/ Command
    \/ ClientConnects \/ ClientLocks \/ ClientUnlocks \/ ClientEnds
    \/ PacketLocks \/ PacketUnlocks \/ \E s \in Sockets : ThreadStep(s)
    \/ Others

(* Calls go on, and nobody waits for ever for a mutex that is free again    *)
(* and again.  recvfrom returns within its 500 ms when the socket is one of *)
(* the probe, and at once when there is none; from another socket it need   *)
(* not return until that one is closed.  Nothing makes a connection end.    *)
Fairness ==
    /\ WF_vars(ProbeStep) /\ SF_vars(Host)
    /\ \A s \in Sockets : SF_vars(arg[s] \notin foreign /\ ThreadStep(s))
    /\ SF_vars(PacketLocks) /\ WF_vars(PacketUnlocks)
    /\ WF_vars(ClientUnlocks)

Spec == Init /\ [][Next]_vars /\ Fairness

-----------------------------------------------------------------------------
(* Properties *)

TypeOK ==
    /\ ProbeTypeOK
    /\ running \in BOOLEAN /\ discovery \in BOOLEAN
    /\ last_error \in {"None", "InvalidConfig", "NetworkError", "DiscoveryError", "ProtocolError"}
    /\ mutex \in {"free", "client", "packet"} /\ server \in {"off", "on", "stopping"}
    /\ client \in {"none", "loop", "locked"}
    /\ hpc \in {"idle", "probe", "server", "advertise", "started", "fail", "error",
                "failServer", "failProbe", "stopServer", "stopProbe", "destroyProbe", "destroyed"}
    /\ cause \in {"none", "InvalidConfig", "NetworkError", "DiscoveryError"}
    /\ byCommand \in BOOLEAN /\ cmd \in {"idle", "sending", "failed"}
    /\ alive \in BOOLEAN
    /\ event \in {"none", "ReceiverStopped", "other", "command"}
    /\ starts \in 0..MaxStarts

Threads == {s \in Sockets : thread[s] # "none"}

(* When no call is in progress and the receiver does not run, whichever     *)
(* part failed and after however many starts and stops, nothing that        *)
(* start() brings up is left: no receiving thread, no connection, no open   *)
(* socket, no advertisement and no callback.  (The thread of PcmOutput      *)
(* belongs to the decryptor and lives as long as the Session.)              *)
NothingOutlivesStop ==
    (hpc \in {"idle", "destroyed"} /\ ~running) =>
        /\ Threads = {} /\ open = {} /\ ~audio_packet_
        /\ client = "none" /\ server = "off" /\ ~discovery

(* The callback and the decryptor are used only while they exist: stop()    *)
(* clears the one when the thread is joined, and a Session that is stopped  *)
(* is destroyed without anyone in the other.                                *)
UsedWhileThere ==
    /\ thread[data_] \in {"packet", "decode"} => audio_packet_ /\ alive
    /\ client = "locked" => alive

(* Every socket of the probe that is open can still be closed: its handle   *)
(* is known, also after a bind that failed, and no two are the same.        *)
NoSocketLost ==
    /\ open \subseteq {socket_handle[s] : s \in Sockets}
    /\ \A s, t \in Sockets : (socket_handle[s] # 0 /\ socket_handle[s] = socket_handle[t]) => s = t

(* A thread may use its handle when it belongs to another socket already,   *)
(* but takes at most one datagram from there: the flag is cleared before    *)
(* the sockets are closed.                                                  *)
AtMostOneStolen == \A s \in Sockets : stolen[s] <= 1

(* When start() has failed, last_error tells which part it was, whatever a  *)
(* client that had already connected reported in between, until a command   *)
(* fails that the host has sent itself.                                     *)
FailureReported == (hpc = "idle" /\ cause # "none") => (last_error = cause \/ byCommand)

(* stop() has returned, and start() was not called since. *)
Stopped ==
    /\ hpc \in {"idle", "destroyProbe", "destroyed"} /\ ~running
    /\ starts > 0 /\ cause = "none"

(* When stop() has returned, ReceiverStopped is the last the host hears of  *)
(* clients, playback and datagrams until it starts again: only a command    *)
(* that it sends itself is still reported.                                  *)
StoppedIsLastWord == Stopped => event \in {"ReceiverStopped", "command"}

(* Each call returns, although stop() joins threads that wait for the mutex *)
(* or for a datagram, if the connection ends when the server is stopped     *)
(* (module TcpServer tells when it does) and no thread that received from   *)
(* another socket is left there for ever.                                   *)
CallsReturn ==
    (/\ []<>(server # "stopping" \/ client = "none")
     /\ \A s \in Sockets : []<>(thread[s] # "recv" \/ arg[s] \notin foreign))
    => (hpc \notin {"idle", "destroyed"} ~> hpc \in {"idle", "destroyed"})
=============================================================================
