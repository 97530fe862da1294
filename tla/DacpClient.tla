------------------------------ MODULE DacpClient ------------------------------
(***************************************************************************)
(* Remote control of the sender: the address that every RTSP request       *)
(* leaves in Session::Impl::dacp_remote (handle_client in                  *)
(* src/session/session.cpp), and the commands pause(), resume(), seek()... *)
(* that host threads send with it (send_control_command, and               *)
(* src/net/dacp_client.cpp with its process-wide cache of addresses).      *)
(*                                                                         *)
(* A command copies dacp_remote under Session::mutex and works from the    *)
(* copy for up to seconds: cache, multicast discovery with a fallback,     *)
(* connection, answer.  Requests, other commands and the senders' services *)
(* move on meanwhile.                                                      *)
(*                                                                         *)
(* A sender stands for its DACP-ID, its Active-Remote token and its        *)
(* address.  Its control service listens on one port at a time; a service  *)
(* accepts its own token only.                                             *)
(***************************************************************************)
EXTENDS Naturals

CONSTANTS
    Clients,        \* senders
    NoClient,       \* not a sender: an empty field
    Callers,        \* host threads that send commands
    Headers,        \* what requests carry of {"DACP-ID", "Active-Remote"}
    MaxMoves,       \* bound: restarts of services on another port
    MaxFaults       \* bound: faults (lost, refused or late messages,
                    \* no socket)

ASSUME NoClientAssumption == NoClient \notin Clients
ASSUME HeadersAssumption == Headers \subseteq SUBSET {"DACP-ID", "Active-Remote"}
ASSUME BoundsAssumption == MaxMoves \in Nat /\ MaxFaults \in Nat

VARIABLES
    dacp_remote,    \* Session::Impl::dacp_remote
    g_dacp_cache,   \* the cache: key -> target
    cpc,            \* per caller: where its command is
    remote,         \* per caller: its copy of dacp_remote
    target,         \* per caller: the address it uses
    result,         \* per caller: what its last command returned
    port,           \* per sender: the port of its service (external)
    moves, faults   \* bounds used up

callerVars == <<cpc, remote, target, result>>
networkVars == <<port, moves, faults>>
vars == <<dacp_remote, g_dacp_cache, callerVars, networkVars>>

(* Port 1 is 3689, the port tried without discovery; 0 is an empty port. *)
DefaultPort == 1
Ports == 1..(MaxMoves + 1)
MaybeClient == Clients \cup {NoClient}

(* DacpRemoteInfo; all of it is the key of the cache. *)
Remotes == [dacp_id : MaybeClient, active_remote : MaybeClient,
            fallback_host : MaybeClient]
NoRemote == [dacp_id |-> NoClient, active_remote |-> NoClient,
             fallback_host |-> NoClient]

NoTarget == [host |-> NoClient, port |-> 0]
Targets == [host : Clients, port : Ports]

Init ==
    /\ dacp_remote = NoRemote
    /\ g_dacp_cache = [key \in Remotes |-> NoTarget]
    /\ cpc = [h \in Callers |-> "idle"]
    /\ remote = [h \in Callers |-> NoRemote]
    /\ target = [h \in Callers |-> NoTarget]
    /\ result = [h \in Callers |-> "none"]
    /\ port = [c \in Clients |-> DefaultPort]
    /\ moves = 0
    /\ faults = 0

-----------------------------------------------------------------------------
(* Senders *)

(* A request of sender c, with or without either header: the headers it has *)
(* and the address of the connection overwrite what was noted before.       *)
NoteRemote(c, headers) ==
    /\ dacp_remote' =
         [dacp_id |-> IF "DACP-ID" \in headers THEN c ELSE dacp_remote.dacp_id,
          active_remote |-> IF "Active-Remote" \in headers
                            THEN c ELSE dacp_remote.active_remote,
          fallback_host |-> c]
    /\ UNCHANGED <<g_dacp_cache, callerVars, networkVars>>

(* The service of sender c restarts on another port. *)
ServiceMoves(c) ==
    /\ moves < MaxMoves
    /\ moves' = moves + 1
    /\ port' = [port EXCEPT ![c] = moves + 2]
    /\ UNCHANGED <<dacp_remote, g_dacp_cache, callerVars, faults>>

(* Either the network is at fault now, or why: a reason for the same step.  *)
Fault(why) ==
    \/ why /\ UNCHANGED faults
    \/ ~why /\ faults < MaxFaults /\ faults' = faults + 1

-----------------------------------------------------------------------------
(* Commands *)

Goto(h, where) == cpc' = [cpc EXCEPT ![h] = where]

(* The command returns r and its locals are gone. *)
Return(h, r) ==
    /\ Goto(h, "idle")
    /\ result' = [result EXCEPT ![h] = r]
    /\ remote' = [remote EXCEPT ![h] = NoRemote]
    /\ target' = [target EXCEPT ![h] = NoTarget]

(* send_control_command copies dacp_remote; without a token it gives up. *)
Call(h) ==
    /\ cpc[h] = "idle"
    /\ IF dacp_remote.active_remote = NoClient
       THEN Return(h, "failed")
       ELSE /\ Goto(h, "lookup")
            /\ remote' = [remote EXCEPT ![h] = dacp_remote]
            /\ UNCHANGED <<target, result>>
    /\ UNCHANGED <<dacp_remote, g_dacp_cache, networkVars>>

Lookup(h) ==
    /\ cpc[h] = "lookup"
    /\ target' = [target EXCEPT ![h] = g_dacp_cache[remote[h]]]
    /\ Goto(h, IF g_dacp_cache[remote[h]] = NoTarget THEN "discover"
                                                     ELSE "connect")
    /\ UNCHANGED <<dacp_remote, g_dacp_cache, remote, result, networkVars>>

(* A service that carries the DACP-ID answers in time. *)
Discovered(h) ==
    /\ cpc[h] = "discover"
    /\ remote[h].dacp_id # NoClient
    /\ target' = [target EXCEPT ![h] =
                     [host |-> remote[h].dacp_id, port |-> port[remote[h].dacp_id]]]
    /\ Goto(h, "connect")
    /\ UNCHANGED <<dacp_remote, g_dacp_cache, remote, result, networkVars>>

(* None does within 600 ms, certainly if there is no DACP-ID to look for:   *)
(* the address of the last connection, which every request sets, is tried.  *)
DiscoveryTimesOut(h) ==
    /\ cpc[h] = "discover"
    /\ Fault(remote[h].dacp_id = NoClient)
    /\ target' = [target EXCEPT ![h] =
                     [host |-> remote[h].fallback_host, port |-> DefaultPort]]
    /\ Goto(h, "connect")
    /\ UNCHANGED <<dacp_remote, g_dacp_cache, remote, result, port, moves>>

(* There is no socket to discover with: the command fails at once. *)
DiscoveryFails(h) ==
    /\ cpc[h] = "discover"
    /\ Fault(FALSE)
    /\ Return(h, "failed")
    /\ UNCHANGED <<dacp_remote, g_dacp_cache, port, moves>>

Listening(t) == port[t.host] = t.port

Connected(h) ==
    /\ cpc[h] = "connect"
    /\ Listening(target[h])
    /\ Goto(h, "answer")
    /\ UNCHANGED <<dacp_remote, g_dacp_cache, remote, target, result,
                   networkVars>>

(* Mutant: a dead address stays in the cache. *)
ConnectFailsKeeping(h) ==
    /\ cpc[h] = "connect"
    /\ Fault(~Listening(target[h]))
    /\ Return(h, "failed")
    /\ UNCHANGED <<dacp_remote, g_dacp_cache, port, moves>>

(* The address is dropped from the cache, if it was there. *)
ConnectFails(h) ==
    /\ cpc[h] = "connect"
    /\ Fault(~Listening(target[h]))
    /\ g_dacp_cache' = [g_dacp_cache EXCEPT ![remote[h]] = NoTarget]
    /\ Return(h, "failed")
    /\ UNCHANGED <<dacp_remote, port, moves>>

(* A 2xx answer: the address is cached, whatever the cache holds by now. *)
Accepted(h) ==
    /\ cpc[h] = "answer"
    /\ target[h].host = remote[h].active_remote
    /\ g_dacp_cache' = [g_dacp_cache EXCEPT ![remote[h]] = target[h]]
    /\ Return(h, "ok")
    /\ UNCHANGED <<dacp_remote, networkVars>>

(* Mutant: the address is cached before the status is looked at. *)
RefusedCached(h) ==
    /\ cpc[h] = "answer"
    /\ Fault(target[h].host # remote[h].active_remote)
    /\ g_dacp_cache' = [g_dacp_cache EXCEPT ![remote[h]] = target[h]]
    /\ Return(h, "failed")
    /\ UNCHANGED <<dacp_remote, port, moves>>

(* Sending fails, there is no answer, or its status is not 2xx, as it is    *)
(* from a service that does not know the token.  The cache stays.           *)
Refused(h) ==
    /\ cpc[h] = "answer"
    /\ Fault(target[h].host # remote[h].active_remote)
    /\ Return(h, "failed")
    /\ UNCHANGED <<dacp_remote, g_dacp_cache, port, moves>>

Command(h) ==
    \/ Call(h) \/ Lookup(h) \/ Discovered(h) \/ DiscoveryTimesOut(h)
    \/ DiscoveryFails(h) \/ Connected(h) \/ ConnectFails(h) \/ Accepted(h) \/ Refused(h)

Next ==
    \/ \E c \in Clients :
         \/ \E headers \in Headers : NoteRemote(c, headers)
         \/ ServiceMoves(c)
    \/ \E h \in Callers : Command(h)

Spec == Init /\ [][Next]_vars

(* Hosts repeat their commands, a command in progress goes on, and senders  *)
(* go on to send requests with both headers.                                *)
Retrying ==
    /\ \A h \in Callers : WF_vars(Command(h))
    /\ \A c \in Clients : WF_vars(NoteRemote(c, {"DACP-ID", "Active-Remote"}))

RetrySpec == Spec /\ Retrying

-----------------------------------------------------------------------------
(* Properties *)

(* The types, and that a command never connects without an address and      *)
(* never goes out without a token.                                          *)
TypeOK ==
    /\ dacp_remote \in Remotes
    /\ dacp_remote.active_remote # NoClient =>
           dacp_remote.fallback_host # NoClient
    /\ g_dacp_cache \in [Remotes -> Targets \cup {NoTarget}]
    /\ cpc \in [Callers -> {"idle", "lookup", "discover", "connect", "answer"}]
    /\ remote \in [Callers -> Remotes]
    /\ target \in [Callers -> Targets \cup {NoTarget}]
    /\ \A h \in Callers :
         /\ cpc[h] # "idle" => /\ remote[h].active_remote # NoClient
                               /\ remote[h].fallback_host # NoClient
         /\ cpc[h] \in {"connect", "answer"} => target[h] # NoTarget
    /\ result \in [Callers -> {"none", "ok", "failed"}]
    /\ port \in [Clients -> Ports]
    /\ moves \in 0..MaxMoves
    /\ faults \in 0..MaxFaults

(* Whatever commands of several threads race for the cache, an address in   *)
(* it is one where the owner of the key's token has accepted a command.     *)
CacheVerified ==
    \A key \in Remotes :
        g_dacp_cache[key] # NoTarget =>
            g_dacp_cache[key].host = key.active_remote

(* Once the sender's service has stopped moving and the network is well,    *)
(* retried commands succeed: a stale address, even one that another thread  *)
(* puts back, does not stay in the cache.                                   *)
Recovers == \A h \in Callers : <>[](result[h] = "ok")

(* "Ask the connected AirPlay sender" (airplayc.h:160): a command reaches   *)
(* the sender whose token it carries.  A request without the headers, of    *)
(* another connection, replaces the address and leaves the token, so a      *)
(* command that falls back to the address reaches another sender.           *)
TokenReachesOwner ==
    \A h \in Callers :
        cpc[h] = "answer" => target[h].host = remote[h].active_remote
=============================================================================
