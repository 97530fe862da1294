---------------------------- MODULE DnssdAdvertiser ----------------------------
(***************************************************************************)
(* The discovery advertiser of src/discovery/dnssd_advertiser.cpp: start() *)
(* registers the RAOP and the AirPlay service with Windows DNS-SD and, if  *)
(* either fails, withdraws what it registered and falls back to a UDP mDNS *)
(* responder with a worker thread of its own; stop() ends whichever is in  *)
(* use.                                                                    *)
(*                                                                         *)
(* Three parties run: the thread that calls start() and stop(), the worker *)
(* of the UDP responder, and Windows, which completes a deregistration in  *)
(* a callback of its own thread, at any time, perhaps after the 1500 ms    *)
(* that deregister_service() waits.  The receiving socket is closed under  *)
(* the worker, and its handle may be given to another socket.              *)
(*                                                                         *)
(* What the records say is left out; on the air there is either an         *)
(* announcement (TTL > 0) or a goodbye (TTL 0).                            *)
(***************************************************************************)
EXTENDS Naturals, Sequences

CONSTANTS
    MaxStarts,      \* bound: calls of start()
    EventsCreated   \* does CreateEventW always succeed?

ASSUME MaxStartsAssumption == MaxStarts \in Nat
ASSUME EventsCreatedAssumption == EventsCreated \in BOOLEAN

VARIABLES
    apc,            \* where the caller is
    service,        \* the service that it registers, or the slot it deregisters
    named,          \* does the device name contain "_raop"?
    then,           \* what follows stop(): "return", "register", "fallback"
    instance_,      \* raop_instance_, airplay_instance_: an index, 0 for null
    registrations,  \* every service that DnsServiceRegister accepted
    running_,       \* DnssdAdvertiser::running_
    udp_running,    \* UdpMdnsAdvertiser::running_
    udp_rx_,        \* does it hold a handle?
    handle,         \* what that handle is: "own" socket, "closed", or "foreign"
    worker_,        \* where the worker is, "none" if there is no thread
    aired,          \* the last mDNS message sent: none, announce, goodbye
    starts          \* bound used up

callerVars == <<apc, service, named, then, starts>>
dnsVars == <<instance_, registrations>>
udpVars == <<udp_running, udp_rx_, handle, worker_, aired>>
vars == <<callerVars, dnsVars, running_, udpVars>>

Services == {"raop", "airplay"}

(* A registration with Windows, the slot its instance was put into, whether *)
(* Windows still has it, and the DnsCompletion of its withdrawal: has it an *)
(* event, is the event set, the status, what became of its memory ("none"   *)
(* before there is one), and where the callback is.                         *)
Registrations == [of : Services, slot : Services, live : BOOLEAN,
                  event : BOOLEAN, set : BOOLEAN, status : {"success", "error"},
                  memory : {"none", "live", "deleted", "leaked"},
                  callback : {"none", "never", "pending", "signalling", "returned"}]

Init ==
    /\ apc = "idle"
    /\ service = "raop"
    /\ named = FALSE
    /\ then = "return"
    /\ instance_ = [s \in Services |-> 0]
    /\ registrations = <<>>
    /\ running_ = FALSE
    /\ udp_running = FALSE
    /\ udp_rx_ = FALSE
    /\ handle = "closed"
    /\ worker_ = "none"
    /\ aired = "none"
    /\ starts = 0

-----------------------------------------------------------------------------
(* start() and stop() *)

Goto(where) == apc' = where /\ UNCHANGED <<service, named, then, starts>>

(* Both services are handled in turn, RAOP first. *)
GotoService(where, s) ==
    apc' = where /\ service' = s /\ UNCHANGED <<named, then, starts>>

(* stop() is called, and `next` is what its caller does afterwards. *)
CallStop(next) == apc' = "stop" /\ then' = next /\ UNCHANGED service

Stop ==
    /\ apc = "idle"
    /\ CallStop("return")
    /\ UNCHANGED <<named, starts, dnsVars, running_, udpVars>>

(* start() begins with stop(). *)
Start ==
    /\ apc = "idle"
    /\ starts < MaxStarts
    /\ starts' = starts + 1
    /\ named' \in BOOLEAN
    /\ CallStop("register")
    /\ UNCHANGED <<dnsVars, running_, udpVars>>

(* When the receiving socket is dealt with: if there is a worker, it is     *)
(* joined next.                                                             *)
AfterUdpRx ==
    IF worker_ # "none" THEN Goto("join") ELSE GotoService("deregister", "raop")

(* Mutant: the worker is joined without being told to end. *)
StopUdpSilently ==
    /\ apc = "stop"
    /\ IF udp_rx_ THEN Goto("close") ELSE AfterUdpRx
    /\ UNCHANGED <<dnsVars, running_, udpVars>>

(* UdpMdnsAdvertiser::stop() tells the worker to end... *)
StopUdp ==
    /\ apc = "stop"
    /\ udp_running' = FALSE
    /\ IF udp_rx_ THEN Goto("close") ELSE AfterUdpRx
    /\ UNCHANGED <<dnsVars, running_, udp_rx_, handle, worker_, aired>>

(* ... and closes the receiving socket under it. *)
CloseUdpRx ==
    /\ apc = "close"
    /\ handle' = "closed"
    /\ Goto("invalid")
    /\ UNCHANGED <<dnsVars, running_, udp_running, udp_rx_, worker_, aired>>

InvalidUdpRx ==
    /\ apc = "invalid"
    /\ udp_rx_' = FALSE
    /\ AfterUdpRx
    /\ UNCHANGED <<dnsVars, running_, udp_running, handle, worker_, aired>>

(* The worker has ended: it is joined, the goodbye goes out, and the        *)
(* sending socket is closed.                                                *)
JoinWorker ==
    /\ apc = "join"
    /\ worker_ = "ended"
    /\ worker_' = "none"
    /\ aired' = "goodbye"
    /\ GotoService("deregister", "raop")
    /\ UNCHANGED <<dnsVars, running_, udp_running, udp_rx_, handle>>

(* deregister_service() is done with the slot at hand. *)
Deregistered ==
    IF service = "raop" THEN GotoService("deregister", "airplay")
                        ELSE Goto("stopped")

(* The registration that the slot at hand points at. *)
Mine == instance_[service]

(* The withdrawal is asked for, with an event to wait for or without one;   *)
(* it fails at once and never calls back, or is pending.                    *)
Asked(r, event, callback) ==
    [r EXCEPT !.event = event, !.memory = "live", !.callback = callback]

(* A completion is made and DnsServiceDeRegister called. *)
CallDeregister ==
    /\ \E event \in IF EventsCreated THEN {TRUE} ELSE BOOLEAN,
          callback \in {"never", "pending"} :
         registrations' = [registrations EXCEPT ![Mine] = Asked(@, event, callback)]
    /\ Goto("wait")

(* deregister_service() does nothing for a slot without an instance. *)
Deregister ==
    /\ apc = "deregister"
    /\ IF Mine # 0 THEN CallDeregister
                   ELSE Deregistered /\ UNCHANGED registrations
    /\ UNCHANGED <<instance_, running_, udpVars>>

(* The completion is deleted, or leaked with the event pointer cleared...   *)
Released(r, memory) ==
    [r EXCEPT !.memory = memory, !.event = (r.event /\ memory = "deleted")]

(* ... and the instance is freed in either case, whether Windows has        *)
(* withdrawn the service or not.                                            *)
Release(memory) ==
    /\ registrations' = [registrations EXCEPT ![Mine] = Released(@, memory)]
    /\ instance_' = [instance_ EXCEPT ![service] = 0]
    /\ Deregistered
    /\ UNCHANGED <<running_, udpVars>>

(* Mutant: the completion is deleted after the time-out as well. *)
WaitTimesOutDeleting ==
    /\ apc = "wait"
    /\ registrations[Mine].event /\ registrations[Mine].callback # "never"
    /\ Release("deleted")

(* 1500 ms are over: the completion is leaked.  (The event may have been    *)
(* set just too late.)                                                      *)
WaitTimesOut ==
    /\ apc = "wait"
    /\ registrations[Mine].event /\ registrations[Mine].callback # "never"
    /\ Release("leaked")

(* The event is set, or there is nothing to wait for or with. *)
WaitOver ==
    /\ apc = "wait"
    /\ \/ registrations[Mine].event /\ registrations[Mine].set
       \/ registrations[Mine].callback = "never"
       \/ ~registrations[Mine].event
    /\ Release("deleted")

(* stop() is at its end.  start() goes on to register, or under Wine to the *)
(* UDP responder at once; a failed registration goes on to it, too.         *)
Stopped ==
    /\ apc = "stopped"
    /\ running_' = FALSE
    /\ \/ then = "return" /\ Goto("idle")
       \/ then = "register" /\ GotoService("register", "raop")
       \/ then \in {"register", "fallback"} /\ Goto("fallback")
    /\ UNCHANGED <<dnsVars, udpVars>>

(* The slot is chosen by instance.find(L"_raop"): the AirPlay instance of a *)
(* device with such a name is put over the RAOP one, which nobody withdraws.*)
Slot == IF service = "raop" \/ named THEN "raop" ELSE "airplay"

(* DnsServiceRegister accepts the service.  (Windows may fail to register   *)
(* it later; register_complete drops that status.)                          *)
Register ==
    /\ apc = "register"
    /\ registrations' = Append(registrations,
           [of |-> service, slot |-> Slot, live |-> TRUE, event |-> FALSE, set |-> FALSE,
            status |-> "success", memory |-> "none", callback |-> "none"])
    /\ instance_' = [instance_ EXCEPT ![Slot] = Len(registrations) + 1]
    /\ IF service = "raop"
       THEN GotoService("register", "airplay") /\ UNCHANGED running_
       ELSE Goto("idle") /\ running_' = TRUE
    /\ UNCHANGED udpVars

(* Mutant: the fallback starts without withdrawing what is registered. *)
RegisterFailsKeeping ==
    /\ apc = "register"
    /\ Goto("fallback")
    /\ UNCHANGED <<dnsVars, running_, udpVars>>

(* Registration fails: everything is stopped before the fallback. *)
RegisterFails ==
    /\ apc = "register"
    /\ CallStop("fallback")
    /\ UNCHANGED <<named, starts, dnsVars, running_, udpVars>>

(* Mutant: start() does not note that the fallback is in use. *)
FallbackStartsUnnoted ==
    /\ apc = "fallback"
    /\ udp_running' = TRUE
    /\ udp_rx_' \in BOOLEAN /\ handle' = IF udp_rx_' THEN "own" ELSE "closed"
    /\ worker_' = "check"
    /\ Goto("idle")
    /\ UNCHANGED <<dnsVars, running_, aired>>

(* UdpMdnsAdvertiser::start(), whose own stop() finds nothing to stop: the  *)
(* worker starts even if the receiving socket cannot be bound.              *)
FallbackStarts ==
    /\ apc = "fallback"
    /\ udp_running' = TRUE
    /\ udp_rx_' \in BOOLEAN /\ handle' = IF udp_rx_' THEN "own" ELSE "closed"
    /\ worker_' = "check"
    /\ running_' = TRUE
    /\ Goto("idle")
    /\ UNCHANGED <<dnsVars, aired>>

(* The address is invalid or there is no sending socket: start() fails. *)
FallbackFails ==
    /\ apc = "fallback"
    /\ Goto("idle")
    /\ UNCHANGED <<dnsVars, running_, udpVars>>

Caller ==
    \/ StopUdp \/ CloseUdpRx \/ InvalidUdpRx \/ JoinWorker
    \/ Deregister \/ WaitTimesOut \/ WaitOver \/ Stopped \/ Register \/ RegisterFails \/ FallbackStarts \/ FallbackFails

-----------------------------------------------------------------------------
(* The worker of the UDP responder *)

WorkerStep(from, to) ==
    /\ worker_ = from
    /\ worker_' = to
    /\ UNCHANGED <<callerVars, dnsVars, running_, udp_running, udp_rx_, handle>>

WorkerCheck ==
    /\ WorkerStep("check", IF udp_running THEN "announce" ELSE "ended")
    /\ UNCHANGED aired

(* The announcement is sent if it is due. *)
WorkerAnnounce ==
    /\ WorkerStep("announce", "test")
    /\ aired' \in {aired, "announce"}

(* Without a socket the worker sleeps. *)
WorkerTest ==
    /\ WorkerStep("test", IF udp_rx_ THEN "select" ELSE "check")
    /\ UNCHANGED aired

(* select() fails or times out after 250 ms, or whatever socket the handle  *)
(* is has something to read.                                                *)
WorkerSelect ==
    /\ \/ WorkerStep("select", "check")
       \/ handle # "closed" /\ WorkerStep("select", "ready")
    /\ UNCHANGED aired

(* FD_ISSET and recvfrom read udp_rx_ again. *)
WorkerReread ==
    /\ WorkerStep("ready", IF udp_rx_ THEN "recv" ELSE "check")
    /\ UNCHANGED aired

(* recvfrom on the closed handle fails. *)
WorkerFails ==
    /\ handle = "closed"
    /\ WorkerStep("recv", "check")
    /\ UNCHANGED aired

(* A datagram, which is there if the socket is the worker's own; a matching *)
(* query is answered.                                                       *)
WorkerReceives ==
    /\ handle # "closed"
    /\ WorkerStep("recv", "check")
    /\ aired' \in {aired, "announce"}

Worker ==
    \/ WorkerCheck \/ WorkerAnnounce \/ WorkerTest \/ WorkerSelect
    \/ WorkerReread \/ WorkerFails \/ WorkerReceives

(* recvfrom has no time-out: on the socket of somebody else it waits for a  *)
(* datagram, or until that socket is closed.                                *)
Blocked == worker_ = "recv" /\ handle = "foreign"

(* The handle that was closed is given to another socket, and closed there. *)
OtherOpens ==
    /\ handle = "closed" /\ handle' = "foreign"
    /\ UNCHANGED <<callerVars, dnsVars, running_, udp_running, udp_rx_, worker_, aired>>

OtherCloses ==
    /\ handle = "foreign" /\ handle' = "closed"
    /\ UNCHANGED <<callerVars, dnsVars, running_, udp_running, udp_rx_, worker_, aired>>

-----------------------------------------------------------------------------
(* Windows *)

(* The callback has written the status; Windows has withdrawn the service   *)
(* if it says so.                                                           *)
Written(r, status) ==
    [r EXCEPT !.status = status, !.callback = "signalling",
              !.live = (r.live /\ status = "error")]

(* The callback has read the event, which it set if there was one. *)
Signalled(r) == [r EXCEPT !.set = r.event, !.callback = "returned"]

(* service_complete() writes into the completion... *)
CallbackWrites(i) ==
    /\ registrations[i].callback = "pending"
    /\ \E status \in {"success", "error"} :
           registrations' = [registrations EXCEPT ![i] = Written(@, status)]
    /\ UNCHANGED <<callerVars, instance_, running_, udpVars>>

(* ... and reads the event from it, which it sets if there is one. *)
CallbackSignals(i) ==
    /\ registrations[i].callback = "signalling"
    /\ registrations' = [registrations EXCEPT ![i] = Signalled(@)]
    /\ UNCHANGED <<callerVars, instance_, running_, udpVars>>

Next ==
    \/ Start \/ Stop \/ Caller \/ Worker \/ OtherOpens \/ OtherCloses
    \/ \E i \in DOMAIN registrations : CallbackWrites(i) \/ CallbackSignals(i)

Spec == Init /\ [][Next]_vars

(* Threads run, but for a worker that waits on the socket of somebody else; *)
(* closing that one frees it.  Windows need never call back.                *)
FairSpec == Spec /\ WF_vars(Caller) /\ SF_vars(~Blocked /\ Worker)

-----------------------------------------------------------------------------
(* Properties *)

(* The types, and that a slot that is waited for points at a registration   *)
(* whose completion exists.                                                 *)
TypeOK ==
    /\ apc \in {"idle", "stop", "close", "invalid", "join", "deregister", "wait", "stopped",
               "register", "fallback"}
    /\ service \in Services
    /\ named \in BOOLEAN
    /\ then \in {"return", "register", "fallback"}
    /\ registrations \in Seq(Registrations)
    /\ instance_ \in [Services -> 0..Len(registrations)]
    /\ apc = "wait" => Mine # 0 /\ registrations[Mine].memory = "live"
    /\ running_ \in BOOLEAN
    /\ udp_running \in BOOLEAN
    /\ udp_rx_ \in BOOLEAN
    /\ handle \in {"own", "closed", "foreign"}
    /\ worker_ \in {"none", "check", "announce", "test", "select", "ready", "recv", "ended"}
    /\ aired \in {"none", "announce", "goodbye"}
    /\ starts \in 0..MaxStarts

(* Windows would not withdraw it: the call or its callback said so, or      *)
(* nobody waited (any longer) for the callback.                             *)
GivenUp(r) ==
    /\ r.memory \in {"deleted", "leaked"}
    /\ r.callback = "never" \/ r.status = "error" \/ ~r.event

(* The AirPlay instance was put over this one. *)
Overwritten(i) ==
    /\ i + 1 \in DOMAIN registrations
    /\ registrations[i].of = "raop"
    /\ registrations[i + 1].of = "airplay" /\ registrations[i + 1].slot = "raop"

(* What Windows still has, it was asked to withdraw and would not; or it is *)
(* the RAOP service of a device with "_raop" in its name.                   *)
AllWithdrawn ==
    \A i \in DOMAIN registrations :
        registrations[i].live => GivenUp(registrations[i]) \/ Overwritten(i)

(* The receiver does not advertise itself in two ways at once: while the    *)
(* UDP responder has a worker, each DNS-SD service that was ever registered *)
(* is withdrawn, whichever step of a start failed, but for those that       *)
(* Windows would not withdraw and the one that was overwritten.             *)
OneWay == worker_ # "none" => AllWithdrawn

(* Both services of the last start are registered and not withdrawn. *)
BothRegistered ==
    LET n == Len(registrations) IN
        /\ n >= 2
        /\ registrations[n - 1].of = "raop" /\ registrations[n].of = "airplay"
        /\ registrations[n - 1].memory = "none" /\ registrations[n].memory = "none"

(* When start() or stop() has returned: a running advertiser has both       *)
(* services registered or its responder running; one that does not run has  *)
(* withdrawn each service, as OneWay says, it has no worker, and the last   *)
(* message on the air is not an announcement.                               *)
RunsOrSilent ==
    apc = "idle" =>
        IF running_ THEN BothRegistered \/ udp_running
                    ELSE AllWithdrawn /\ worker_ = "none" /\ aired # "announce"

(* "Late callback may still use the completion pointer.  Leak this tiny     *)
(* context instead of risking a use-after-free": a completion is not        *)
(* deleted while a callback that uses it is still to come or under way.     *)
CompletionOutlivesCallback ==
    \A i \in DOMAIN registrations :
        registrations[i].memory = "deleted" =>
            registrations[i].callback \in {"never", "returned"}

(* start() and stop() return, though Windows may never call back, if the    *)
(* worker is not left on the socket of somebody else for ever.              *)
Returns == []<>~Blocked => ((apc # "idle") ~> (apc = "idle"))
=============================================================================
