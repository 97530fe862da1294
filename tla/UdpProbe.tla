-------------------------------- MODULE UdpProbe --------------------------------
(***************************************************************************)
(* The UDP sockets of a receiver (src/rtp/rtp_receiver.cpp): audio data,    *)
(* control and timing, each with a thread that receives from it.  start()   *)
(* and stop() run in the thread that calls them, one step for each access   *)
(* to what the threads share; socket_handle is a plain variable, written by *)
(* stop() while the threads read it.                                        *)
(*                                                                         *)
(* A handle that is closed may be given to another socket of the process,   *)
(* such as the one of a DACP discovery: these are the foreign handles.      *)
(***************************************************************************)
EXTENDS Integers, FiniteSets

CONSTANTS
    Handles,        \* socket handles of the process
    SocketCount     \* 3 in the code: data_, control_, timing_, in this order

ASSUME HandlesAssumption == Handles \subseteq Nat \ {0}
ASSUME SocketCountAssumption == SocketCount \in Nat \ {0}

VARIABLES
    running_,       \* UdpProbe::running_
    socket_handle,  \* of each SocketState, 0 for none
    open,           \* handles of the probe that are open
    foreign,        \* handles of other sockets that are open
    thread,         \* where each thread is
    arg,            \* the handle that a thread passes to recvfrom
    stolen,         \* datagrams of other sockets that a thread took
    audio_packet_,  \* is the callback set?
    upc,            \* where start() or stop() is: "idle" outside of both
    k,              \* the socket it is at
    then            \* what follows stop(): "start", "fail" or "return"

callVars == <<upc, k, then>>
socketVars == <<socket_handle, open, foreign>>
threadVars == <<thread, arg, stolen>>
probeVars == <<running_, socketVars, threadVars, audio_packet_, callVars>>

Sockets == 1..SocketCount
data_ == 1

FreeHandles == Handles \ (open \cup foreign)

ProbeInit ==
    /\ running_ = FALSE
    /\ socket_handle = [s \in Sockets |-> 0] /\ open = {} /\ foreign = {}
    /\ thread = [s \in Sockets |-> "none"] /\ arg = [s \in Sockets |-> 0]
    /\ stolen = [s \in Sockets |-> 0]
    /\ audio_packet_ = FALSE
    /\ upc = "idle" /\ k = 1 /\ then = "return"

(* The next socket, or the step after the last. *)
Onward(here, next) ==
    /\ upc' = IF k = SocketCount THEN next ELSE here
    /\ k' = IF k = SocketCount THEN 1 ELSE k + 1

-----------------------------------------------------------------------------
(* stop() *)

(* Mutant: the flag is cleared when the sockets are closed. *)
StopFlagLate ==
    /\ upc = "flag" /\ upc' = "close"
    /\ UNCHANGED <<running_, k, then, socketVars, threadVars, audio_packet_>>

(* Mutant: the callback is cleared before the threads are joined. *)
StopFlagClears ==
    /\ upc = "flag" /\ upc' = "close"
    /\ running_' = FALSE /\ audio_packet_' = FALSE
    /\ UNCHANGED <<k, then, socketVars, threadVars>>

StopFlag ==
    /\ upc = "flag" /\ upc' = "close"
    /\ running_' = FALSE
    /\ UNCHANGED <<k, then, socketVars, threadVars, audio_packet_>>

(* close_socket: closesocket, and then the handle is set to 0. *)
CloseSocket ==
    /\ upc = "close" /\ socket_handle[k] # 0
    /\ open' = open \ {socket_handle[k]}
    /\ upc' = "zero"
    /\ UNCHANGED <<running_, k, then, socket_handle, foreign, threadVars, audio_packet_>>

ZeroHandle ==
    /\ upc = "zero"
    /\ socket_handle' = [socket_handle EXCEPT ![k] = 0]
    /\ Onward("close", "join")
    /\ UNCHANGED <<running_, then, open, foreign, threadVars, audio_packet_>>

NothingToClose ==
    /\ upc = "close" /\ socket_handle[k] = 0
    /\ Onward("close", "join")
    /\ UNCHANGED <<running_, then, socketVars, threadVars, audio_packet_>>

JoinThread ==
    /\ upc = "join" /\ thread[k] \in {"none", "ended"}
    /\ thread' = [thread EXCEPT ![k] = "none"]
    /\ stolen' = [stolen EXCEPT ![k] = 0]
    /\ Onward("join", "clear")
    /\ UNCHANGED <<running_, then, socketVars, arg, audio_packet_>>

ClearCallback ==
    /\ upc = "clear"
    /\ audio_packet_' = FALSE
    /\ upc' = CASE then = "start" -> "wsa" [] then = "fail" -> "failed" [] OTHER -> "done"
    /\ UNCHANGED <<running_, k, then, socketVars, threadVars>>

-----------------------------------------------------------------------------
(* start(), behind the stop() it begins with *)

WsaFails ==
    /\ upc = "wsa" /\ upc' = "failed"
    /\ UNCHANGED <<running_, k, then, socketVars, threadVars, audio_packet_>>

SetCallbacks ==
    /\ upc = "wsa" /\ upc' = "bind"
    /\ audio_packet_' = TRUE
    /\ UNCHANGED <<running_, k, then, socketVars, threadVars>>

bind_socket ==
    /\ upc = "bind"
    /\ \E h \in FreeHandles :
           /\ socket_handle' = [socket_handle EXCEPT ![k] = h]
           /\ open' = open \cup {h}
    /\ Onward("bind", "spawn")
    /\ running_' = (k = SocketCount)
    /\ UNCHANGED <<then, foreign, threadVars, audio_packet_>>

(* socket() or bind() fails; a socket that could not be bound is closed.    *)
BindFails ==
    /\ upc = "bind" /\ upc' = "flag"
    /\ k' = 1 /\ then' = "fail"
    /\ UNCHANGED <<running_, socketVars, threadVars, audio_packet_>>

SpawnThread ==
    /\ upc = "spawn"
    /\ thread' = [thread EXCEPT ![k] = "log"]       \* "listening on"
    /\ Onward("spawn", "done")
    /\ UNCHANGED <<running_, then, socketVars, arg, stolen, audio_packet_>>

ProbeCall ==
    \/ StopFlag \/ CloseSocket \/ ZeroHandle \/ NothingToClose \/ JoinThread
    \/ ClearCallback \/ WsaFails \/ SetCallbacks \/ bind_socket \/ BindFails \/ SpawnThread

-----------------------------------------------------------------------------
(* receive_loop *)

Goes(s, where) == thread' = [thread EXCEPT ![s] = where]

CheckRunning(s) ==
    /\ thread[s] = "check"
    /\ Goes(s, IF running_ THEN "read" ELSE "ended")
    /\ UNCHANGED <<running_, socketVars, arg, stolen, audio_packet_, callVars>>

ReadHandle(s) ==
    /\ thread[s] = "read" /\ Goes(s, "recv")
    /\ arg' = [arg EXCEPT ![s] = socket_handle[s]]
    /\ UNCHANGED <<running_, socketVars, stolen, audio_packet_, callVars>>

(* Nothing within the 500 ms that bind_socket sets for the probe's own      *)
(* sockets, or the handle is not that of a socket.  Another socket has no   *)
(* such limit: there the call waits for a datagram, or until it is closed.  *)
ReceiveFails(s) ==
    /\ thread[s] = "recv" /\ arg[s] \notin foreign /\ Goes(s, "check")
    /\ arg' = [arg EXCEPT ![s] = 0]
    /\ UNCHANGED <<running_, socketVars, stolen, audio_packet_, callVars>>

(* A datagram of the socket that the handle is now. *)
ReceiveDatagram(s) ==
    /\ thread[s] = "recv" /\ arg[s] \in open \cup foreign
    /\ stolen' = [stolen EXCEPT ![s] = IF arg[s] \in foreign THEN @ + 1 ELSE @]
    /\ arg' = [arg EXCEPT ![s] = 0]
    /\ \/ Goes(s, "log")                                    \* no RTP packet
       \/ s = data_ /\ audio_packet_ /\ Goes(s, "packet")   \* audio_packet_(packet)
    /\ UNCHANGED <<running_, socketVars, audio_packet_, callVars>>

Receives(s) == ReceiveFails(s) \/ ReceiveDatagram(s)

(* Other sockets of the process come and go; one at a time. *)
OtherOpens ==
    /\ foreign = {}
    /\ \E h \in FreeHandles : foreign' = {h}
    /\ UNCHANGED <<running_, socket_handle, open, threadVars, audio_packet_, callVars>>

OtherCloses ==
    /\ foreign # {} /\ foreign' = {}
    /\ UNCHANGED <<running_, socket_handle, open, threadVars, audio_packet_, callVars>>

-----------------------------------------------------------------------------

(* The types of the probe's variables, for TypeOK of SessionLife. *)
ProbeTypeOK ==
    /\ running_ \in BOOLEAN /\ open \subseteq Handles /\ foreign \subseteq Handles
    /\ socket_handle \in [Sockets -> Handles \cup {0}] /\ arg \in [Sockets -> Handles \cup {0}]
    /\ thread \in [Sockets -> {"none", "check", "read", "recv", "packet", "decode", "log", "ended"}]
    /\ stolen \in [Sockets -> Nat] /\ audio_packet_ \in BOOLEAN
    /\ upc \in {"idle", "flag", "close", "zero", "join", "clear", "wsa", "bind", "spawn",
                "done", "failed"}
    /\ k \in Sockets /\ then \in {"start", "fail", "return"}
=============================================================================
