------------------------- MODULE DnssdAdvertiserProofs -------------------------
(***************************************************************************)
(* Proofs about DnssdAdvertiser for any number of starts: its types, that   *)
(* what it has registered with Windows is withdrawn before its responder    *)
(* runs and when it is stopped, as far as Windows lets it, and that no      *)
(* completion is deleted under its callback as long as events can be        *)
(* created.                                                                 *)
(***************************************************************************)
EXTENDS DnssdAdvertiser, TLAPS

NoneHeld == \A s \in Services : instance_[s] = 0

(* What the slots hold at each step of the caller. *)
HeldInv ==
    /\ (apc \in {"deregister", "wait"} /\ service = "airplay") => instance_["raop"] = 0
    /\ apc \in {"stopped", "fallback"} => NoneHeld
    /\ (apc = "register" /\ service = "raop") => NoneHeld
    /\ (apc = "register" /\ service = "airplay") =>
          /\ Len(registrations) # 0 /\ instance_["raop"] = Len(registrations)
          /\ instance_["airplay"] = 0
          /\ registrations[Len(registrations)].of = "raop"
          /\ registrations[Len(registrations)].memory = "none"
    /\ (apc = "idle" /\ running_ = TRUE) => BothRegistered \/ udp_running = TRUE
    /\ (apc = "idle" /\ running_ = FALSE) => NoneHeld
    /\ worker_ # "none" => NoneHeld

(* The worker lives from the fallback to the join, and is the only one to   *)
(* announce.                                                                *)
WorkerInv ==
    /\ worker_ # "none" => apc \in {"idle", "stop", "close", "invalid", "join"}
    /\ (worker_ # "none" /\ apc = "idle") => running_ = TRUE
    /\ worker_ = "none" => aired # "announce"
    /\ apc \in {"register", "fallback"} => running_ = FALSE

(* A registration and its completion: the event is set by the callback when *)
(* it no longer uses the completion, and a service that Windows still has   *)
(* when the completion is released was given up.                            *)
Sound(r) ==
    /\ r.memory = "none" => r.callback = "none"
    /\ r.set = TRUE => r.callback = "returned"
    /\ (r.callback \in {"signalling", "returned"} /\ r.status = "success") => r.live = FALSE
    /\ (r.live = TRUE /\ r.memory \in {"deleted", "leaked"}) =>
          (r.callback = "never" \/ r.status = "error" \/ r.event = FALSE)

(* A service that was not asked back is in its slot, or was overwritten     *)
(* there; and the caller waits for one whose completion exists.             *)
Placed(i) ==
    /\ registrations[i].memory = "none" =>
          instance_[registrations[i].slot] = i \/ Overwritten(i)
    /\ registrations[i].memory = "live" => apc = "wait" /\ Mine = i

RegInv == \A i \in DOMAIN registrations : Sound(registrations[i]) /\ Placed(i)

(* A slot points at a registration that was put there and not released. *)
SlotInv ==
    \A s \in Services : instance_[s] # 0 =>
        /\ registrations[instance_[s]].slot = s
        /\ registrations[instance_[s]].memory \in {"none", "live"}

(* The inductive invariant. *)
IInv == TypeOK /\ HeldInv /\ WorkerInv /\ RegInv /\ SlotInv

-----------------------------------------------------------------------------
(* What the steps do to a registration *)

LEMMA AskedFacts ==
    ASSUME NEW r \in Registrations, NEW e \in BOOLEAN, NEW b \in {"never", "pending"}
    PROVE /\ Asked(r, e, b) \in Registrations
          /\ Asked(r, e, b).of = r.of /\ Asked(r, e, b).slot = r.slot
          /\ Asked(r, e, b).memory = "live" /\ Asked(r, e, b).event = e
          /\ Asked(r, e, b).callback = b /\ Asked(r, e, b).set = r.set
          /\ (Sound(r) /\ r.memory = "none") => Sound(Asked(r, e, b))
BY DEF Registrations, Asked, Sound

LEMMA ReleasedFacts ==
    ASSUME NEW r \in Registrations, NEW m \in {"deleted", "leaked"}
    PROVE /\ Released(r, m) \in Registrations
          /\ Released(r, m).of = r.of /\ Released(r, m).slot = r.slot
          /\ Released(r, m).memory = m /\ Released(r, m).callback = r.callback
          /\ Released(r, m).set = r.set
          /\ (/\ Sound(r) /\ r.memory = "live"
              /\ m = "deleted" => \/ r.set = TRUE \/ r.callback = "never" \/ r.event = FALSE)
             => Sound(Released(r, m))
<1> DEFINE e == r.event /\ m = "deleted"
<1>1. e \in BOOLEAN /\ (m = "leaked" => e = FALSE) /\ (m = "deleted" => e = r.event)
  <2>1. r.event \in BOOLEAN
    BY DEF Registrations
  <2> QED BY <2>1
<1> HIDE DEF e
<1>2. Released(r, m) = [r EXCEPT !.memory = m, !.event = e]
  BY DEF Released, e
<1> QED BY <1>1, <1>2 DEF Registrations, Sound

LEMMA WrittenFacts ==
    ASSUME NEW r \in Registrations, NEW t \in {"success", "error"}
    PROVE /\ Written(r, t) \in Registrations
          /\ Written(r, t).of = r.of /\ Written(r, t).slot = r.slot
          /\ Written(r, t).memory = r.memory /\ Written(r, t).event = r.event
          /\ Written(r, t).callback = "signalling" /\ Written(r, t).set = r.set
          /\ (Sound(r) /\ r.callback = "pending") => Sound(Written(r, t))
<1> DEFINE l == r.live /\ t = "error"
<1>1. l \in BOOLEAN /\ (t = "success" => l = FALSE)
  OBVIOUS
<1> HIDE DEF l
<1>2. Written(r, t) = [r EXCEPT !.status = t, !.callback = "signalling", !.live = l]
  BY DEF Written, l
<1> QED BY <1>1, <1>2 DEF Registrations, Sound

LEMMA SignalledFacts ==
    ASSUME NEW r \in Registrations
    PROVE /\ Signalled(r) \in Registrations
          /\ Signalled(r).of = r.of /\ Signalled(r).slot = r.slot
          /\ Signalled(r).memory = r.memory /\ Signalled(r).event = r.event
          /\ Signalled(r).callback = "returned"
          /\ (Sound(r) /\ r.callback = "signalling") => Sound(Signalled(r))
BY DEF Registrations, Signalled, Sound

(* One registration is replaced by another of the same service and slot.    *)
Replaced(i, new) ==
    /\ i \in DOMAIN registrations /\ new \in Registrations
    /\ new.of = registrations[i].of /\ new.slot = registrations[i].slot
    /\ registrations' = [registrations EXCEPT ![i] = new]

LEMMA ReplacedFacts ==
    ASSUME TypeOK, NEW i, NEW new, Replaced(i, new)
    PROVE /\ registrations' \in Seq(Registrations)
          /\ DOMAIN registrations' = DOMAIN registrations
          /\ Len(registrations') = Len(registrations)
          /\ registrations'[i] = new
          /\ \A j \in DOMAIN registrations : j # i => registrations'[j] = registrations[j]
          /\ \A j \in DOMAIN registrations :
                /\ registrations'[j].of = registrations[j].of
                /\ registrations'[j].slot = registrations[j].slot
          /\ \A j \in DOMAIN registrations : Overwritten(j) => Overwritten(j)'
<1>0. registrations \in Seq(Registrations)
  BY DEF TypeOK
<1>1. /\ registrations' \in Seq(Registrations)
      /\ DOMAIN registrations' = DOMAIN registrations
      /\ Len(registrations') = Len(registrations)
  BY <1>0 DEF Replaced
<1>2. registrations'[i] = new
  BY <1>0 DEF Replaced
<1>3. \A j \in DOMAIN registrations : j # i => registrations'[j] = registrations[j]
  BY <1>0 DEF Replaced
<1>4. \A j \in DOMAIN registrations :
                /\ registrations'[j].of = registrations[j].of
                /\ registrations'[j].slot = registrations[j].slot
  BY <1>2, <1>3 DEF Replaced
<1>5. \A j \in DOMAIN registrations : Overwritten(j) => Overwritten(j)'
  BY <1>1, <1>4, Zenon DEF Overwritten
<1> QED BY <1>1, <1>2, <1>3, <1>4, <1>5

(* The slot that is at hand points at a registration. *)
LEMMA MineThere ==
    ASSUME TypeOK, Mine # 0
    PROVE Mine \in DOMAIN registrations /\ registrations[Mine] \in Registrations
BY DEF TypeOK, Mine

(* A registration is appended. *)
LEMMA AppendFacts ==
    ASSUME NEW S, NEW s \in Seq(S), NEW e \in S
    PROVE /\ Append(s, e) \in Seq(S)
          /\ Len(Append(s, e)) = Len(s) + 1
          /\ DOMAIN Append(s, e) = 1..(Len(s) + 1)
          /\ \A i \in DOMAIN s : i \in 1..(Len(s) + 1) /\ Append(s, e)[i] = s[i]
          /\ \A i \in 1..(Len(s) + 1) : i = Len(s) + 1 \/ i \in DOMAIN s
          /\ Append(s, e)[Len(s) + 1] = e
OBVIOUS

New == [of |-> service, slot |-> Slot, live |-> TRUE, event |-> FALSE, set |-> FALSE,
        status |-> "success", memory |-> "none", callback |-> "none"]

LEMMA NewFacts ==
    ASSUME TypeOK
    PROVE /\ New \in Registrations /\ Sound(New) /\ New.memory = "none"
          /\ New.of = service /\ New.slot = Slot /\ Slot \in Services
BY DEF TypeOK, New, Registrations, Sound, Slot, Services

-----------------------------------------------------------------------------
(* How the steps touch what is registered *)

(* The steps that leave it alone. *)
Quiet ==
    /\ UNCHANGED dnsVars
    /\ (apc = "wait" \/ apc' = "wait") => (apc' = apc /\ service' = service)

Nothing ==
    \/ Start \/ Stop \/ StopUdp \/ CloseUdpRx \/ InvalidUdpRx \/ JoinWorker
    \/ Stopped \/ RegisterFails \/ FallbackStarts \/ FallbackFails
    \/ Worker \/ OtherOpens \/ OtherCloses \/ (Deregister /\ Mine = 0)

LEMMA NextCases ==
    ASSUME Next
    PROVE \/ Nothing \/ Register \/ (Deregister /\ Mine # 0)
          \/ WaitTimesOut \/ WaitOver
          \/ \E i \in DOMAIN registrations : CallbackWrites(i) \/ CallbackSignals(i)
BY DEF Next, Caller, Nothing

LEMMA NothingIsQuiet ==
    ASSUME TypeOK, Nothing
    PROVE Quiet
<1> USE DEF Quiet, dnsVars, Goto, GotoService, CallStop, AfterUdpRx, Deregistered, callerVars
<1>1. CASE Start \/ Stop \/ StopUdp \/ CloseUdpRx \/ InvalidUdpRx \/ JoinWorker
  BY <1>1 DEF Start, Stop, StopUdp, CloseUdpRx, InvalidUdpRx, JoinWorker
<1>2. CASE Stopped \/ RegisterFails \/ FallbackStarts \/ FallbackFails \/ (Deregister /\ Mine = 0)
  BY <1>2 DEF Stopped, RegisterFails, FallbackStarts, FallbackFails, Deregister
<1>3. CASE Worker \/ OtherOpens \/ OtherCloses
  BY <1>3 DEF Worker, WorkerCheck, WorkerAnnounce, WorkerTest, WorkerSelect, WorkerReread,
     WorkerFails, WorkerReceives, WorkerStep, OtherOpens, OtherCloses
<1> QED BY <1>1, <1>2, <1>3 DEF Nothing

(* The part of the type invariant that speaks of registrations. *)
DnsTyped ==
    /\ registrations \in Seq(Registrations)
    /\ instance_ \in [Services -> 0..Len(registrations)]
    /\ apc = "wait" => Mine # 0 /\ registrations[Mine].memory = "live"

LEMMA QuietKeeps ==
    ASSUME TypeOK, RegInv, SlotInv, Quiet
    PROVE DnsTyped' /\ RegInv' /\ SlotInv'
<1>1. registrations' = registrations /\ instance_' = instance_
  BY DEF Quiet, dnsVars
<1>2. DnsTyped'
  BY <1>1 DEF TypeOK, DnsTyped, Quiet, Mine
<1>3. RegInv'
  BY <1>1 DEF TypeOK, RegInv, Placed, Overwritten, Quiet, Mine
<1>4. SlotInv'
  BY <1>1 DEF SlotInv
<1> QED BY <1>2, <1>3, <1>4

LEMMA RegisterKeeps ==
    ASSUME IInv, Register
    PROVE DnsTyped' /\ RegInv' /\ SlotInv'
<1>0. TypeOK /\ registrations \in Seq(Registrations) /\ Len(registrations) \in Nat
  BY DEF IInv, TypeOK
<1>n. PICK n \in Nat : n = Len(registrations)
  BY <1>0
<1>1. registrations' = Append(registrations, New)
  BY DEF Register, New
<1>2. New \in Registrations /\ Sound(New) /\ New.of = service /\ New.slot = Slot /\ Slot \in Services
  BY <1>0, NewFacts
<1>3. /\ registrations' \in Seq(Registrations) /\ Len(registrations') = n + 1
      /\ DOMAIN registrations' = 1..(n + 1) /\ DOMAIN registrations = 1..n
      /\ \A i \in 1..n : i \in 1..(n + 1) /\ registrations'[i] = registrations[i]
      /\ \A i \in 1..(n + 1) : i = n + 1 \/ i \in 1..n
      /\ registrations'[n + 1] = New
  BY <1>0, <1>n, <1>1, <1>2, AppendFacts
<1>4. apc = "register" /\ apc' # "wait" /\ instance_' = [instance_ EXCEPT ![Slot] = n + 1]
  BY <1>n DEF Register, GotoService, Goto
<1>5. instance_ \in [Services -> 0..n]
  BY <1>n DEF IInv, TypeOK
<1>6. DnsTyped'
  BY <1>0, <1>2, <1>3, <1>4, <1>5 DEF DnsTyped
<1>7. \A i \in 1..n : Overwritten(i) => Overwritten(i)'
  BY <1>0, <1>3 DEF Overwritten
<1>8. Sound(registrations'[n + 1]) /\ Placed(n + 1)'
  BY <1>0, <1>2, <1>3, <1>4, <1>5, NewFacts DEF Placed
<1>9. ASSUME NEW i \in 1..n PROVE Sound(registrations'[i]) /\ Placed(i)'
  <2>1. Sound(registrations[i]) /\ Placed(i) /\ registrations'[i] = registrations[i]
    BY <1>3 DEF IInv, RegInv
  <2>0. registrations[i] \in Registrations /\ registrations[i].slot \in Services
    <3>1. registrations[i] \in Registrations
      BY <1>0, <1>3
    <3> QED BY <3>1 DEF Registrations
  <2>2. registrations[i].memory # "live"
    BY <1>4, <2>1 DEF Placed
  <2>3. CASE service = "raop"
    <3>1. instance_[registrations[i].slot] = 0
      BY <1>4, <2>0, <2>3 DEF IInv, HeldInv, NoneHeld
    <3> QED BY <1>7, <2>1, <2>2, <3>1 DEF Placed
  <2>4. CASE service = "airplay"
    <3>1. instance_["raop"] = n /\ instance_["airplay"] = 0 /\ registrations[n].of = "raop"
      BY <1>n, <1>4, <2>4 DEF IInv, HeldInv
    <3>2. registrations[i].slot \in Services
      BY <2>0
    <3>3. CASE instance_[registrations[i].slot] = i /\ i = n /\ Slot = "raop"
      <4>1. Overwritten(n)'
        BY <1>0, <1>2, <1>3, <2>4, <3>1, <3>3 DEF Overwritten
      <4> QED BY <2>1, <2>2, <3>3, <4>1 DEF Placed
    <3>4. CASE instance_[registrations[i].slot] = i /\ i = n /\ Slot = "airplay"
      <4>1. registrations[i].slot = "raop"
        BY <3>1, <3>2, <3>4 DEF Services
      <4>2. instance_'["raop"] = n
        BY <1>4, <1>5, <3>1, <3>4 DEF Services
      <4> QED BY <2>1, <2>2, <3>4, <4>1, <4>2 DEF Placed
    <3>5. CASE instance_[registrations[i].slot] # i
      BY <1>7, <2>1, <2>2, <3>5 DEF Placed
    <3> QED BY <1>2, <3>1, <3>2, <3>3, <3>4, <3>5 DEF Services
  <2> QED BY <2>3, <2>4 DEF IInv, TypeOK, Services
<1>10. SlotInv'
  BY <1>0, <1>2, <1>3, <1>4, <1>5, NewFacts DEF IInv, SlotInv
<1> QED BY <1>3, <1>6, <1>8, <1>9, <1>10 DEF RegInv

LEMMA DeregisterKeeps ==
    ASSUME IInv, Deregister, Mine # 0
    PROVE /\ DnsTyped' /\ RegInv' /\ SlotInv'
          /\ apc' = "wait" /\ UNCHANGED <<service, instance_>>
<1>0. TypeOK /\ Mine \in DOMAIN registrations /\ registrations[Mine] \in Registrations
  BY MineThere DEF IInv
<1>n. PICK i \in DOMAIN registrations : i = Mine
  BY <1>0
<1>1. apc = "deregister" /\ apc' = "wait" /\ service' = service /\ instance_' = instance_
  BY DEF Deregister, CallDeregister, Goto
<1>2. PICK e \in BOOLEAN, b \in {"never", "pending"} :
         registrations' = [registrations EXCEPT ![Mine] = Asked(registrations[Mine], e, b)]
  <2>1. PICK e \in IF EventsCreated THEN {TRUE} ELSE BOOLEAN, b \in {"never", "pending"} :
         registrations' = [registrations EXCEPT ![Mine] = Asked(registrations[Mine], e, b)]
    BY Zenon DEF Deregister, CallDeregister
  <2>2. e \in BOOLEAN
    BY EventsCreatedAssumption
  <2> QED BY <2>1, <2>2
<1>3. PICK new : new = Asked(registrations[i], e, b)
  OBVIOUS
<1>4. Sound(registrations[i]) /\ registrations[i].memory # "live"
  BY <1>1 DEF IInv, RegInv, Placed
<1>5. registrations[i].memory = "none"
  BY <1>n, <1>0, <1>4 DEF IInv, SlotInv, TypeOK, Mine
<1>6. Sound(new) /\ new.memory = "live" /\ Replaced(i, new)
  BY <1>n, <1>0, <1>2, <1>3, <1>4, <1>5, AskedFacts DEF Replaced
<1>7. DnsTyped'
  BY <1>n, <1>0, <1>1, <1>6, ReplacedFacts DEF DnsTyped, TypeOK, Mine
<1>8. ASSUME NEW j \in DOMAIN registrations PROVE Sound(registrations'[j]) /\ Placed(j)'
  <2>1. CASE j = i
    BY <1>n, <1>0, <1>1, <1>6, <2>1, ReplacedFacts DEF Placed, Mine
  <2>2. CASE j # i
    BY <1>0, <1>1, <1>6, <2>2, ReplacedFacts DEF IInv, RegInv, Placed
  <2> QED BY <2>1, <2>2
<1>9. RegInv'
  BY <1>0, <1>6, <1>8, ReplacedFacts DEF RegInv
<1>10. SlotInv'
  <2>1. \A j \in DOMAIN registrations :
           /\ registrations'[j].slot = registrations[j].slot
           /\ registrations'[j].memory = IF j = i THEN "live" ELSE registrations[j].memory
    BY <1>0, <1>6, ReplacedFacts
  <2>2. \A s \in Services : instance_[s] # 0 => instance_[s] \in DOMAIN registrations
    BY <1>0 DEF TypeOK
  <2> QED BY <1>1, <2>1, <2>2 DEF IInv, SlotInv
<1> QED BY <1>1, <1>7, <1>9, <1>10

LEMMA ReleaseKeeps ==
    ASSUME IInv, WaitTimesOut \/ WaitOver
    PROVE /\ DnsTyped' /\ RegInv' /\ SlotInv' /\ apc' \in {"deregister", "stopped"}
          /\ instance_' = [instance_ EXCEPT ![service] = 0] /\ apc = "wait"
          /\ apc' = "deregister" => service = "raop" /\ service' = "airplay"
          /\ apc' = "stopped" => service = "airplay"
<1>0. TypeOK /\ apc = "wait" /\ Mine # 0
  BY DEF IInv, TypeOK, WaitTimesOut, WaitOver
<1>a. Mine \in DOMAIN registrations /\ registrations[Mine] \in Registrations
      /\ registrations[Mine].memory = "live"
  BY <1>0, MineThere DEF TypeOK
<1>n. PICK i \in DOMAIN registrations : i = Mine
  BY <1>a
<1>1. PICK m \in {"deleted", "leaked"} : Release(m) /\ (m = "deleted" => WaitOver)
  BY DEF WaitTimesOut, WaitOver
<1>2. /\ registrations' = [registrations EXCEPT ![Mine] = Released(registrations[Mine], m)]
      /\ instance_' = [instance_ EXCEPT ![service] = 0]
  BY <1>1, Zenon DEF Release
<1>3. /\ apc' = "deregister" => service = "raop" /\ service' = "airplay"
      /\ apc' = "stopped" => service = "airplay"
      /\ apc' \in {"deregister", "stopped"}
  <2>1. IF service = "raop" THEN apc' = "deregister" /\ service' = "airplay"
                            ELSE apc' = "stopped"
    BY <1>1, Zenon DEF Release, Deregistered, GotoService, Goto
  <2>2. service \in {"raop", "airplay"}
    BY <1>0 DEF TypeOK, Services
  <2> QED BY <2>1, <2>2
<1>4. PICK new : new = Released(registrations[i], m)
  OBVIOUS
<1>5. m = "deleted" => \/ registrations[i].set = TRUE \/ registrations[i].callback = "never"
                       \/ registrations[i].event = FALSE
  <2>1. registrations[i].set \in BOOLEAN /\ registrations[i].event \in BOOLEAN
    BY <1>n, <1>a DEF Registrations
  <2> QED BY <1>1, <1>n, <2>1 DEF WaitOver
<1>6. Sound(new) /\ new.memory = m /\ Replaced(i, new)
  <2>1. Sound(registrations[i])
    BY DEF IInv, RegInv
  <2> QED BY <1>n, <1>a, <1>2, <1>4, <1>5, <2>1, ReleasedFacts DEF Replaced
<1>7. DnsTyped'
  BY <1>0, <1>2, <1>3, <1>6, ReplacedFacts DEF DnsTyped, TypeOK
<1>8. ASSUME NEW j \in DOMAIN registrations PROVE Sound(registrations'[j]) /\ Placed(j)'
  <2>1. CASE j = i
    BY <1>0, <1>6, <2>1, ReplacedFacts DEF Placed
  <2>2. CASE j # i
    <3>1. Sound(registrations[j]) /\ Placed(j) /\ registrations'[j] = registrations[j]
      BY <1>0, <1>6, <2>2, ReplacedFacts DEF IInv, RegInv
    <3>2. registrations[j].memory # "live"
      BY <1>n, <2>2, <3>1 DEF Placed
    <3>3. registrations[j] \in Registrations /\ registrations[j].slot \in Services
      <4>1. registrations[j] \in Registrations
        BY <1>0 DEF TypeOK
      <4> QED BY <4>1 DEF Registrations
    <3>4. instance_[registrations[j].slot] = j => instance_'[registrations[j].slot] = j
      BY <1>0, <1>n, <1>2, <2>2, <3>3 DEF Mine, TypeOK
    <3>5. Overwritten(j) => Overwritten(j)'
      BY <1>0, <1>6, ReplacedFacts
    <3> QED BY <3>1, <3>2, <3>4, <3>5 DEF Placed
  <2> QED BY <2>1, <2>2
<1>9. RegInv'
  BY <1>0, <1>6, <1>8, ReplacedFacts DEF RegInv
<1>10. SlotInv'
  <2>1. \A j \in DOMAIN registrations :
           /\ registrations'[j].slot = registrations[j].slot
           /\ j # i => registrations'[j].memory = registrations[j].memory
    BY <1>0, <1>6, ReplacedFacts
  <2>2. \A s \in Services :
           /\ instance_[s] # 0 => instance_[s] \in DOMAIN registrations
           /\ instance_'[s] = IF s = service THEN 0 ELSE instance_[s]
    BY <1>0, <1>2 DEF TypeOK
  <2>3. \A s \in Services : (s # service /\ instance_[s] # 0) => instance_[s] # i
    BY <1>0, <1>n DEF IInv, SlotInv, TypeOK, Mine
  <2>4. ASSUME NEW s \in Services, instance_'[s] # 0
        PROVE /\ registrations'[instance_'[s]].slot = s
              /\ registrations'[instance_'[s]].memory \in {"none", "live"}
    <3>1. s # service /\ instance_'[s] = instance_[s] /\ instance_[s] # 0
      BY <2>2, <2>4, Zenon
    <3>2. instance_[s] \in DOMAIN registrations /\ instance_[s] # i
      BY <2>2, <2>3, <3>1
    <3> QED BY <2>1, <3>1, <3>2 DEF IInv, SlotInv
  <2> QED BY <2>4 DEF SlotInv
<1> QED BY <1>0, <1>2, <1>3, <1>7, <1>9, <1>10

LEMMA CallbackKeeps ==
    ASSUME IInv, NEW i \in DOMAIN registrations, CallbackWrites(i) \/ CallbackSignals(i)
    PROVE /\ DnsTyped' /\ RegInv' /\ SlotInv'
          /\ UNCHANGED <<callerVars, instance_, running_, udpVars>>
          /\ DOMAIN registrations' = DOMAIN registrations
          /\ Len(registrations') = Len(registrations)
          /\ \A j \in DOMAIN registrations : /\ registrations'[j].of = registrations[j].of
                                             /\ registrations'[j].memory = registrations[j].memory
<1>0. TypeOK /\ registrations[i] \in Registrations /\ Sound(registrations[i])
  BY DEF IInv, TypeOK, RegInv
<1>1. UNCHANGED <<callerVars, instance_, running_, udpVars>>
  BY Zenon DEF CallbackWrites, CallbackSignals
<1>2. PICK new : /\ Replaced(i, new) /\ Sound(new) /\ new.memory = registrations[i].memory
  <2>1. CASE CallbackWrites(i)
    <3>1. PICK t \in {"success", "error"} :
             registrations' = [registrations EXCEPT ![i] = Written(registrations[i], t)]
      BY <2>1, Zenon DEF CallbackWrites
    <3>2. registrations[i].callback = "pending"
      BY <2>1, Zenon DEF CallbackWrites
    <3>3. /\ Written(registrations[i], t) \in Registrations
          /\ Written(registrations[i], t).of = registrations[i].of
          /\ Written(registrations[i], t).slot = registrations[i].slot
          /\ Written(registrations[i], t).memory = registrations[i].memory
          /\ Sound(Written(registrations[i], t))
      BY <1>0, <3>2, WrittenFacts
    <3> QED BY <3>1, <3>3, Zenon DEF Replaced
  <2>2. CASE CallbackSignals(i)
    <3>1. /\ registrations' = [registrations EXCEPT ![i] = Signalled(registrations[i])]
          /\ registrations[i].callback = "signalling"
      BY <2>2, Zenon DEF CallbackSignals
    <3> QED BY <1>0, <3>1, SignalledFacts DEF Replaced
  <2> QED BY <2>1, <2>2
<1>3. /\ DOMAIN registrations' = DOMAIN registrations
      /\ Len(registrations') = Len(registrations)
      /\ \A j \in DOMAIN registrations : /\ registrations'[j].of = registrations[j].of
                                         /\ registrations'[j].memory = registrations[j].memory
                                         /\ registrations'[j].slot = registrations[j].slot
  BY <1>0, <1>2, ReplacedFacts
<1>4. apc' = apc /\ service' = service /\ instance_' = instance_
  BY <1>1 DEF callerVars
<1>5. DnsTyped'
  <2>1. registrations' \in Seq(Registrations)
    BY <1>0, <1>2, ReplacedFacts
  <2>2. apc = "wait" => Mine \in DOMAIN registrations
    BY <1>0, MineThere DEF TypeOK
  <2> QED BY <1>0, <1>3, <1>4, <2>1, <2>2 DEF DnsTyped, TypeOK, Mine
<1>6. ASSUME NEW j \in DOMAIN registrations PROVE Sound(registrations'[j]) /\ Placed(j)'
  <2>1. Sound(registrations'[j])
    BY <1>0, <1>2, ReplacedFacts DEF IInv, RegInv
  <2>2. Placed(j)
    BY DEF IInv, RegInv
  <2>3. Overwritten(j) => Overwritten(j)'
    BY <1>0, <1>2, ReplacedFacts
  <2> QED BY <1>3, <1>4, <2>1, <2>2, <2>3 DEF Placed, Mine
<1>7. SlotInv'
  <2>1. \A s \in Services : instance_[s] # 0 => instance_[s] \in DOMAIN registrations
    BY <1>0 DEF TypeOK
  <2> QED BY <1>3, <1>4, <2>1 DEF IInv, SlotInv
<1> QED BY <1>1, <1>3, <1>5, <1>6, <1>7 DEF RegInv

LEMMA NextDns ==
    ASSUME IInv, Next
    PROVE DnsTyped' /\ RegInv' /\ SlotInv'
<1>0. TypeOK /\ RegInv /\ SlotInv
  BY DEF IInv
<1>1. CASE Nothing
  BY <1>0, <1>1, NothingIsQuiet, QuietKeeps
<1>2. CASE Register
  BY <1>2, RegisterKeeps
<1>3. CASE Deregister /\ Mine # 0
  BY <1>3, DeregisterKeeps
<1>4. CASE WaitTimesOut \/ WaitOver
  BY <1>4, ReleaseKeeps
<1>5. ASSUME NEW i \in DOMAIN registrations, CallbackWrites(i) \/ CallbackSignals(i)
      PROVE DnsTyped' /\ RegInv' /\ SlotInv'
  BY <1>5, CallbackKeeps
<1> QED BY <1>1, <1>2, <1>3, <1>4, <1>5, NextCases

-----------------------------------------------------------------------------
(* The caller and the worker *)

LEMMA InitIInv == Init => IInv
<1> SUFFICES ASSUME Init PROVE IInv
  OBVIOUS
<1>1. registrations \in Seq(Registrations) /\ DOMAIN registrations = {} /\ Len(registrations) = 0
  BY DEF Init
<1>2. starts \in 0..MaxStarts
  BY MaxStartsAssumption DEF Init
<1>3. instance_ \in [Services -> 0..Len(registrations)] /\ NoneHeld
  BY <1>1 DEF Init, NoneHeld
<1>4. TypeOK
  BY <1>1, <1>2, <1>3, Zenon DEF Init, TypeOK, Services
<1>5. HeldInv /\ WorkerInv
  BY <1>3, Zenon DEF Init, HeldInv, WorkerInv
<1>6. RegInv /\ SlotInv
  BY <1>1, <1>3, Zenon DEF RegInv, SlotInv, NoneHeld
<1> QED BY <1>4, <1>5, <1>6 DEF IInv

(* The rest of the type invariant. *)
ControlTyped ==
    /\ apc \in {"idle", "stop", "close", "invalid", "join", "deregister", "wait", "stopped",
               "register", "fallback"}
    /\ service \in Services
    /\ named \in BOOLEAN
    /\ then \in {"return", "register", "fallback"}
    /\ running_ \in BOOLEAN
    /\ udp_running \in BOOLEAN
    /\ udp_rx_ \in BOOLEAN
    /\ handle \in {"own", "closed", "foreign"}
    /\ worker_ \in {"none", "check", "announce", "test", "select", "ready", "recv", "ended"}
    /\ aired \in {"none", "announce", "goodbye"}

LEMMA NextControl ==
    ASSUME TypeOK, Next
    PROVE ControlTyped' /\ starts' \in 0..MaxStarts
<1>1. starts' \in 0..MaxStarts
  <2>1. CASE Start
    BY <2>1, MaxStartsAssumption DEF Start, TypeOK
  <2>2. CASE ~Start
    BY <2>2 DEF TypeOK, Next, Stop, Caller, StopUdp, CloseUdpRx, InvalidUdpRx, AfterUdpRx,
       JoinWorker, Deregister, CallDeregister, Deregistered, WaitTimesOut, WaitOver, Release,
       Stopped, Register, RegisterFails, FallbackStarts, FallbackFails, Goto, GotoService,
       CallStop, Worker, WorkerCheck, WorkerAnnounce, WorkerTest, WorkerSelect, WorkerReread,
       WorkerFails, WorkerReceives, WorkerStep, OtherOpens, OtherCloses, CallbackWrites,
       CallbackSignals, callerVars
  <2> QED BY <2>1, <2>2
<1>2. ControlTyped
  BY Zenon DEF TypeOK, ControlTyped
<1>3. ControlTyped'
  <2> USE <1>2 DEF ControlTyped, Services, Goto, GotoService, CallStop, callerVars, udpVars
  <2>1. CASE Start \/ Stop
    BY <2>1, Zenon DEF Start, Stop
  <2>2. CASE StopUdp \/ CloseUdpRx \/ InvalidUdpRx \/ JoinWorker
    BY <2>2, Zenon DEF StopUdp, CloseUdpRx, InvalidUdpRx, JoinWorker, AfterUdpRx
  <2>3. CASE Deregister
    BY <2>3, Zenon DEF Deregister, CallDeregister, Deregistered
  <2>4. CASE WaitTimesOut \/ WaitOver
    <3>1. Deregistered /\ UNCHANGED <<running_, udpVars>>
      BY <2>4, Zenon DEF WaitTimesOut, WaitOver, Release
    <3> QED BY <3>1, Zenon DEF Deregistered
  <2>5. CASE Stopped
    BY <2>5, Zenon DEF Stopped
  <2>6. CASE Register
    BY <2>6, Zenon DEF Register
  <2>7. CASE RegisterFails
    BY <2>7, Zenon DEF RegisterFails
  <2>8. CASE FallbackStarts
    <3>1. handle' \in {"own", "closed", "foreign"}
      BY <2>8 DEF FallbackStarts
    <3> QED BY <2>8, <3>1, Zenon DEF FallbackStarts
  <2>9. CASE FallbackFails
    BY <2>9, Zenon DEF FallbackFails
  <2>10. CASE Worker
    <3>1. UNCHANGED <<callerVars, running_, udp_running, udp_rx_, handle>>
      BY <2>10, Zenon DEF Worker, WorkerCheck, WorkerAnnounce, WorkerTest, WorkerSelect,
         WorkerReread, WorkerFails, WorkerReceives, WorkerStep
    <3>2. /\ worker_' \in {"none", "check", "announce", "test", "select", "ready", "recv", "ended"}
          /\ aired' \in {aired, "announce"}
      BY <2>10 DEF Worker, WorkerCheck, WorkerAnnounce, WorkerTest, WorkerSelect,
         WorkerReread, WorkerFails, WorkerReceives, WorkerStep
    <3>3. aired' \in {"none", "announce", "goodbye"}
      BY <3>2
    <3> QED BY <3>1, <3>2, <3>3, Zenon
  <2>11. CASE OtherOpens \/ OtherCloses
    BY <2>11, Zenon DEF OtherOpens, OtherCloses
  <2>12. CASE \E i \in DOMAIN registrations : CallbackWrites(i) \/ CallbackSignals(i)
    <3>1. UNCHANGED <<callerVars, running_, udpVars>>
      BY <2>12, Zenon DEF CallbackWrites, CallbackSignals
    <3> QED BY <3>1
  <2> QED BY <2>1, <2>2, <2>3, <2>4, <2>5, <2>6, <2>7, <2>8, <2>9, <2>10, <2>11, <2>12 DEF Next, Caller
<1> QED BY <1>1, <1>3

LEMMA NextTyped ==
    ASSUME IInv, Next
    PROVE TypeOK'
<1>1. TypeOK
  BY DEF IInv
<1>2. DnsTyped' /\ ControlTyped' /\ starts' \in 0..MaxStarts
  BY <1>1, NextDns, NextControl
<1> QED BY <1>2, Zenon DEF TypeOK, DnsTyped, ControlTyped

(* What the slots hold when nothing is done to what is registered. *)
LEMMA QuietHolds ==
    ASSUME UNCHANGED dnsVars
    PROVE /\ NoneHeld' <=> NoneHeld
          /\ BothRegistered' <=> BothRegistered
          /\ instance_' = instance_ /\ registrations' = registrations
BY DEF dnsVars, NoneHeld, BothRegistered

LEMMA NothingKeeps ==
    ASSUME IInv, Nothing
    PROVE HeldInv' /\ WorkerInv'
<1>0. TypeOK /\ HeldInv /\ WorkerInv
  BY DEF IInv
<1>1. Quiet
  BY <1>0, NothingIsQuiet
<1>2. /\ NoneHeld' <=> NoneHeld
      /\ BothRegistered' <=> BothRegistered
      /\ instance_' = instance_ /\ registrations' = registrations
  BY <1>1, QuietHolds DEF Quiet
<1> USE <1>0, <1>2 DEF HeldInv, WorkerInv
<1>3. CASE Start \/ Stop
  BY <1>3 DEF Start, Stop, CallStop, udpVars
<1>4. CASE StopUdp
  BY <1>4 DEF StopUdp, AfterUdpRx, Goto, GotoService
<1>5. CASE CloseUdpRx
  BY <1>5 DEF CloseUdpRx, Goto
<1>6. CASE InvalidUdpRx
  BY <1>6 DEF InvalidUdpRx, AfterUdpRx, Goto, GotoService
<1>7. CASE JoinWorker
  BY <1>7 DEF JoinWorker, GotoService
<1>8. CASE Stopped
  BY <1>8 DEF Stopped, Goto, GotoService, udpVars
<1>9. CASE RegisterFails
  BY <1>9 DEF RegisterFails, CallStop, udpVars
<1>10. CASE FallbackStarts
  BY <1>10 DEF FallbackStarts, Goto
<1>11. CASE FallbackFails
  BY <1>11 DEF FallbackFails, Goto, udpVars
<1>12. CASE Worker
  <2>1. /\ UNCHANGED <<apc, service, running_, udp_running>>
        /\ worker_ # "none" /\ worker_' # "none"
    BY <1>12 DEF Worker, WorkerCheck, WorkerAnnounce, WorkerTest, WorkerSelect, WorkerReread,
       WorkerFails, WorkerReceives, WorkerStep, callerVars
  <2> QED BY <2>1
<1>13. CASE OtherOpens \/ OtherCloses
  BY <1>13 DEF OtherOpens, OtherCloses, callerVars
<1>14. CASE Deregister /\ Mine = 0
  <2>1. /\ Deregistered /\ UNCHANGED <<running_, udpVars>>
        /\ apc = "deregister" /\ instance_[service] = 0
    BY <1>14 DEF Deregister, Mine
  <2>2. apc' = "stopped" => NoneHeld
    BY <2>1 DEF TypeOK, Deregistered, GotoService, Goto, NoneHeld, Services
  <2> QED BY <2>1, <2>2 DEF Deregistered, GotoService, Goto, udpVars
<1> QED BY <1>3, <1>4, <1>5, <1>6, <1>7, <1>8, <1>9, <1>10, <1>11, <1>12, <1>13, <1>14
  DEF Nothing

LEMMA NextHeld ==
    ASSUME IInv, Next
    PROVE HeldInv' /\ WorkerInv'
<1>0. TypeOK /\ HeldInv /\ WorkerInv
  BY DEF IInv
<1>2. CASE Register
  <2>0. registrations \in Seq(Registrations) /\ instance_ \in [Services -> 0..Len(registrations)]
    BY <1>0 DEF TypeOK
  <2>n. PICK n \in Nat : n = Len(registrations)
    BY <2>0
  <2>1. /\ registrations' = Append(registrations, New) /\ apc = "register"
        /\ instance_' = [instance_ EXCEPT ![Slot] = n + 1] /\ UNCHANGED udpVars
        /\ IF service = "raop" THEN apc' = "register" /\ service' = "airplay" /\ running_' = running_
                               ELSE apc' = "idle" /\ running_' = TRUE
    BY <1>2, <2>n DEF Register, New, GotoService, Goto
  <2>2. /\ New \in Registrations /\ New.memory = "none"
        /\ New.of = service /\ Slot \in Services /\ (service = "raop" => Slot = "raop")
    BY <1>0, NewFacts DEF Slot
  <2>3. /\ Len(registrations') = n + 1 /\ registrations'[n + 1] = New
        /\ n # 0 => registrations'[n] = registrations[n]
    BY <2>0, <2>n, <2>1, <2>2, AppendFacts
  <2>4. worker_ = "none" /\ worker_' = "none" /\ WorkerInv'
    BY <1>0, <2>1 DEF WorkerInv, udpVars
  <2>5. CASE service = "raop"
    <3>1. instance_'["raop"] = n + 1 /\ instance_'["airplay"] = 0
      BY <1>0, <2>0, <2>1, <2>2, <2>5 DEF HeldInv, NoneHeld, Services
    <3> QED BY <1>0, <2>1, <2>2, <2>3, <2>4, <2>5, <3>1 DEF HeldInv
  <2>6. CASE service = "airplay"
    <3>1. n # 0 /\ registrations[n].of = "raop" /\ registrations[n].memory = "none"
      BY <1>0, <2>n, <2>1, <2>6 DEF HeldInv
    <3>2. BothRegistered'
      BY <2>2, <2>3, <2>6, <3>1 DEF BothRegistered
    <3> QED BY <2>1, <2>4, <2>6, <3>2 DEF HeldInv
  <2> QED BY <1>0, <2>5, <2>6 DEF TypeOK, Services
<1>3. CASE Deregister /\ Mine # 0
  <2>1. /\ apc = "deregister" /\ apc' = "wait" /\ service' = service /\ instance_' = instance_
        /\ UNCHANGED <<running_, udpVars>>
    BY <1>3, DeregisterKeeps DEF Deregister
  <2> QED BY <1>0, <2>1 DEF HeldInv, WorkerInv, udpVars
<1>4. CASE WaitTimesOut \/ WaitOver
  <2>1. UNCHANGED <<running_, udpVars>>
    BY <1>4, Zenon DEF WaitTimesOut, WaitOver, Release
  <2>2. /\ apc' \in {"deregister", "stopped"} /\ apc = "wait"
        /\ instance_' = [instance_ EXCEPT ![service] = 0]
        /\ apc' = "deregister" => service = "raop" /\ service' = "airplay"
        /\ apc' = "stopped" => service = "airplay"
    BY <1>4, ReleaseKeeps
  <2>3. instance_'["raop"] = 0 /\ (apc' = "stopped" => NoneHeld')
    BY <1>0, <2>2 DEF TypeOK, HeldInv, NoneHeld, Services
  <2> QED BY <1>0, <2>1, <2>2, <2>3 DEF HeldInv, WorkerInv, udpVars
<1>5. ASSUME NEW i \in DOMAIN registrations, CallbackWrites(i) \/ CallbackSignals(i)
      PROVE HeldInv' /\ WorkerInv'
  <2>1. /\ UNCHANGED <<callerVars, instance_, running_, udpVars>>
        /\ DOMAIN registrations' = DOMAIN registrations
        /\ Len(registrations') = Len(registrations)
        /\ \A j \in DOMAIN registrations : /\ registrations'[j].of = registrations[j].of
                                           /\ registrations'[j].memory = registrations[j].memory
    BY <1>5, CallbackKeeps
  <2>2. UNCHANGED <<apc, service, instance_, running_, udp_running, worker_, aired>>
    BY <2>1 DEF callerVars, udpVars
  <2>3. DOMAIN registrations = 1..Len(registrations) /\ Len(registrations) \in Nat
    BY <1>0 DEF TypeOK
  <2>4. (NoneHeld' <=> NoneHeld) /\ (BothRegistered => BothRegistered')
    BY <2>1, <2>2, <2>3 DEF NoneHeld, BothRegistered
  <2>5. (Len(registrations) # 0) =>
          /\ registrations'[Len(registrations)].of = registrations[Len(registrations)].of
          /\ registrations'[Len(registrations)].memory = registrations[Len(registrations)].memory
    BY <2>1, <2>3
  <2> QED BY <1>0, <2>1, <2>2, <2>4, <2>5 DEF HeldInv, WorkerInv
<1> QED BY <1>2, <1>3, <1>4, <1>5, NothingKeeps, NextCases

LEMMA NextIInv == IInv /\ [Next]_vars => IInv'
<1>1. IInv /\ Next => IInv'
  BY NextTyped, NextDns, NextHeld DEF IInv
<1>2. IInv /\ UNCHANGED vars => IInv'
  <2> SUFFICES ASSUME IInv, UNCHANGED vars PROVE IInv'
    OBVIOUS
  <2>1. Quiet /\ UNCHANGED dnsVars
    BY DEF vars, Quiet, callerVars
  <2>2. DnsTyped' /\ RegInv' /\ SlotInv'
    BY <2>1, QuietKeeps DEF IInv
  <2>3. TypeOK'
    BY <2>2 DEF IInv, TypeOK, DnsTyped, vars, callerVars, udpVars
  <2>4. HeldInv' /\ WorkerInv'
    BY <2>1, QuietHolds DEF IInv, HeldInv, WorkerInv, vars, callerVars, udpVars
  <2> QED BY <2>2, <2>3, <2>4 DEF IInv
<1> QED BY <1>1, <1>2

THEOREM Invariance == Spec => []IInv
<1> QED BY InitIInv, NextIInv, PTL DEF Spec

-----------------------------------------------------------------------------
(* What follows from it *)

(* Every variable has its type, and a slot that is waited for points at a   *)
(* registration whose completion exists.                                    *)
THEOREM TypeCorrect == Spec => []TypeOK
<1>1. IInv => TypeOK
  BY DEF IInv
<1> QED BY <1>1, Invariance, PTL

(* When no slot is held, all that was registered is withdrawn, given up, or *)
(* overwritten.                                                             *)
LEMMA NoneHeldWithdrawn ==
    ASSUME IInv, NoneHeld, apc # "wait"
    PROVE AllWithdrawn
<1> SUFFICES ASSUME NEW i \in DOMAIN registrations, registrations[i].live
             PROVE GivenUp(registrations[i]) \/ Overwritten(i)
  BY DEF AllWithdrawn
<1>1. registrations[i] \in Registrations /\ Sound(registrations[i]) /\ Placed(i) /\ i # 0
  BY DEF IInv, TypeOK, RegInv
<1>2. registrations[i].live = TRUE /\ registrations[i].slot \in Services
      /\ registrations[i].event \in BOOLEAN
      /\ registrations[i].memory \in {"none", "live", "deleted", "leaked"}
  BY <1>1 DEF Registrations
<1>3. CASE registrations[i].memory \in {"none", "live"}
  BY <1>1, <1>2, <1>3 DEF Placed, NoneHeld
<1>4. CASE registrations[i].memory \in {"deleted", "leaked"}
  BY <1>1, <1>2, <1>4 DEF Sound, GivenUp
<1> QED BY <1>2, <1>3, <1>4

(* However often the advertiser is started and whichever step fails, its    *)
(* own responder runs only when each service it registered with Windows is  *)
(* withdrawn, but for what Windows would not withdraw and what was          *)
(* overwritten.                                                             *)
THEOREM OneWayOnly == Spec => []OneWay
<1>1. IInv => OneWay
  BY NoneHeldWithdrawn DEF IInv, HeldInv, WorkerInv, OneWay
<1> QED BY <1>1, Invariance, PTL

(* When start() or stop() has returned, the receiver is advertised if       *)
(* running_ says so, and otherwise all it registered is withdrawn, as above,*)
(* and the last message on the air is not an announcement.                  *)
THEOREM RunsOrSilentAlways == Spec => []RunsOrSilent
<1>1. IInv => RunsOrSilent
  <2> SUFFICES ASSUME IInv, apc = "idle"
               PROVE IF running_ THEN BothRegistered \/ udp_running
                     ELSE AllWithdrawn /\ worker_ = "none" /\ aired # "announce"
    BY DEF RunsOrSilent
  <2>1. CASE running_ = TRUE
    BY <2>1 DEF IInv, HeldInv
  <2>2. CASE running_ = FALSE
    BY <2>2, NoneHeldWithdrawn DEF IInv, HeldInv, WorkerInv
  <2> QED BY <2>1, <2>2 DEF IInv, TypeOK
<1> QED BY <1>1, Invariance, PTL

-----------------------------------------------------------------------------
(* Completions and their callbacks *)

(* The caller waits with an event if there is one. *)
WaitsWithEvent == apc = "wait" => registrations[Mine].event = TRUE

SafeInv == IInv /\ WaitsWithEvent /\ CompletionOutlivesCallback

LEMMA InitSafe == Init => SafeInv
<1> SUFFICES ASSUME Init PROVE SafeInv
  OBVIOUS
<1>1. DOMAIN registrations = {} /\ apc = "idle"
  BY DEF Init
<1> QED
  BY <1>1, InitIInv DEF SafeInv, WaitsWithEvent, CompletionOutlivesCallback

LEMMA NextSafe ==
    ASSUME EventsCreated, SafeInv, Next
    PROVE WaitsWithEvent' /\ CompletionOutlivesCallback'
<1>0. IInv /\ TypeOK /\ registrations \in Seq(Registrations)
  BY DEF SafeInv, IInv, TypeOK
<1>1. CASE Nothing
  <2>1. Quiet /\ registrations' = registrations /\ instance_' = instance_
    BY <1>0, <1>1, NothingIsQuiet DEF Quiet, dnsVars
  <2> QED BY <2>1 DEF Quiet, SafeInv, WaitsWithEvent, CompletionOutlivesCallback, Mine
<1>2. CASE Register
  <2>1. registrations' = Append(registrations, New) /\ apc' # "wait"
    BY <1>2 DEF Register, New, GotoService, Goto
  <2>2. New \in Registrations /\ New.memory = "none"
    BY <1>0, NewFacts
  <2>3. \A i \in DOMAIN registrations' :
           registrations'[i] = New \/ (i \in DOMAIN registrations /\ registrations'[i] = registrations[i])
    BY <1>0, <2>1, <2>2, AppendFacts
  <2> QED BY <2>1, <2>2, <2>3 DEF SafeInv, WaitsWithEvent, CompletionOutlivesCallback
<1>3. CASE Deregister /\ Mine # 0
  <2>0. Mine \in DOMAIN registrations /\ registrations[Mine] \in Registrations
    BY <1>0, <1>3, MineThere
  <2>n. PICK i \in DOMAIN registrations : i = Mine
    BY <2>0
  <2>1. PICK b \in {"never", "pending"} :
         registrations' = [registrations EXCEPT ![Mine] = Asked(registrations[Mine], TRUE, b)]
    BY <1>3, Zenon DEF Deregister, CallDeregister
  <2>2. Mine' = Mine
    BY <1>0, <1>3, DeregisterKeeps DEF Mine
  <2>3. PICK new : new = Asked(registrations[i], TRUE, b)
    OBVIOUS
  <2>4. Replaced(i, new) /\ new.memory = "live" /\ new.event = TRUE
    BY <2>0, <2>n, <2>1, <2>3, AskedFacts DEF Replaced
  <2> QED BY <1>0, <2>n, <2>2, <2>4, ReplacedFacts
          DEF SafeInv, WaitsWithEvent, CompletionOutlivesCallback
<1>4. CASE WaitTimesOut \/ WaitOver
  <2>0. apc = "wait" /\ Mine # 0 /\ apc' # "wait"
    BY <1>0, <1>4, ReleaseKeeps DEF TypeOK
  <2>a. Mine \in DOMAIN registrations /\ registrations[Mine] \in Registrations
    BY <1>0, <2>0, MineThere
  <2>n. PICK i \in DOMAIN registrations : i = Mine
    BY <2>a
  <2>1. PICK m \in {"deleted", "leaked"} : Release(m) /\ (m = "deleted" => WaitOver)
    BY <1>4 DEF WaitTimesOut, WaitOver
  <2>2. registrations' = [registrations EXCEPT ![Mine] = Released(registrations[Mine], m)]
    BY <2>1, Zenon DEF Release
  <2>3. PICK new : new = Released(registrations[i], m)
    OBVIOUS
  <2>4. Replaced(i, new) /\ new.memory = m /\ new.callback = registrations[i].callback
    BY <2>n, <2>a, <2>2, <2>3, ReleasedFacts DEF Replaced
  <2>5. m = "deleted" => registrations[i].callback \in {"never", "returned"}
    <3>1. Sound(registrations[i]) /\ registrations[i].event = TRUE
      BY <1>0, <2>0, <2>n DEF IInv, RegInv, SafeInv, WaitsWithEvent
    <3>2. registrations[i].set \in BOOLEAN
      BY <2>n, <2>a DEF Registrations
    <3> QED BY <2>1, <2>n, <3>1, <3>2 DEF WaitOver, Sound
  <2> QED BY <1>0, <2>0, <2>4, <2>5, ReplacedFacts
          DEF SafeInv, WaitsWithEvent, CompletionOutlivesCallback
<1>5. ASSUME NEW i \in DOMAIN registrations, CallbackWrites(i) \/ CallbackSignals(i)
      PROVE WaitsWithEvent' /\ CompletionOutlivesCallback'
  <2>0. registrations[i] \in Registrations /\ apc' = apc /\ Mine' = Mine
    BY <1>0, <1>5, CallbackKeeps DEF callerVars, Mine
  <2>1. PICK new : /\ Replaced(i, new) /\ new.event = registrations[i].event
                   /\ new.memory = registrations[i].memory
                   /\ registrations[i].memory # "deleted" \/ new.callback = "returned"
    <3>1. CASE CallbackWrites(i)
      <4>1. PICK t \in {"success", "error"} :
               registrations' = [registrations EXCEPT ![i] = Written(registrations[i], t)]
        BY <3>1, Zenon DEF CallbackWrites
      <4>2. registrations[i].callback = "pending"
        BY <3>1, Zenon DEF CallbackWrites
      <4>3. registrations[i].memory # "deleted"
        BY <4>2 DEF SafeInv, CompletionOutlivesCallback
      <4>4. PICK new : new = Written(registrations[i], t)
        OBVIOUS
      <4>5. Replaced(i, new) /\ new.event = registrations[i].event
            /\ new.memory = registrations[i].memory
        BY <2>0, <4>1, <4>4, WrittenFacts DEF Replaced
      <4> QED BY <4>3, <4>5
    <3>2. CASE CallbackSignals(i)
      <4>1. registrations' = [registrations EXCEPT ![i] = Signalled(registrations[i])]
        BY <3>2, Zenon DEF CallbackSignals
      <4> QED BY <2>0, <4>1, SignalledFacts DEF Replaced
    <3> QED BY <1>5, <3>1, <3>2
  <2>2. apc = "wait" => Mine \in DOMAIN registrations
    BY <1>0, MineThere DEF TypeOK
  <2> QED BY <1>0, <2>0, <2>1, <2>2, ReplacedFacts
          DEF SafeInv, WaitsWithEvent, CompletionOutlivesCallback
<1> QED
  BY <1>1, <1>2, <1>3, <1>4, <1>5, NextCases

(* If events can be created, no completion is deleted while a callback that *)
(* uses it is still to come or under way, however late Windows calls back:  *)
(* the callback signals as the last thing it does, and after the time-out   *)
(* the completion is leaked.                                                *)
THEOREM NoUseAfterFree ==
    ASSUME EventsCreated
    PROVE Spec => []CompletionOutlivesCallback
<1>1. SafeInv /\ [Next]_vars => SafeInv'
  <2>1. SafeInv /\ Next => SafeInv'
    BY NextSafe, NextIInv DEF SafeInv
  <2>2. SafeInv /\ UNCHANGED vars => SafeInv'
    BY NextIInv, Zenon DEF SafeInv, WaitsWithEvent, CompletionOutlivesCallback, Mine, vars,
       callerVars, dnsVars
  <2> QED BY <2>1, <2>2
<1>2. SafeInv => CompletionOutlivesCallback
  BY DEF SafeInv
<1> QED BY InitSafe, <1>1, <1>2, PTL DEF Spec
=============================================================================
