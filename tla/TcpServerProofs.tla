--------------------------- MODULE TcpServerProofs ---------------------------
(***************************************************************************)
(* Proofs about TcpServer for every set of connections and handles: its    *)
(* type invariant, that nothing is left when it has stopped, and that no   *)
(* thread is left blocked in recv() after the sweep of Session::stop()     *)
(* unless a handle was given out before its last owner unregistered it.    *)
(***************************************************************************)
EXTENDS TcpServer, TLAPS

(* What the flags say about the host's position. *)
FlagInv ==
    /\ hpc \notin {"advertising", "up", "flag"} => ~running_
    /\ hpc \notin {"advertising", "up", "flag", "close"} => ~listening
    /\ hpc = "stopped" => ~running
    /\ (hpc \in StopPc /\ caller = "stop") => ~running

(* The accept thread exists only between its start and its join. *)
AcceptInv ==
    /\ hpc \in {"stopped", "starting", "swap", "joinClients"} => apc = "none"
    /\ \A c \in Clients : cpc[c] = "accepted" => apc = "register"
    /\ \A c, d \in Clients :
          (cpc[c] = "accepted" /\ cpc[d] = "accepted") => c = d
    /\ \A c \in Clients : peer[c] \in {"away", "queued"} => cpc[c] = "none"
    /\ \A c \in Clients : cpc[c] # "none" => sock[c] \in Handles

(* Every client thread is in somebody's hands for joining. *)
ThreadInv ==
    /\ \A c \in Clients : Alive(c) => c \in client_threads_ \cup joining
    /\ hpc \in {"stopped", "starting", "joinClients"} => client_threads_ = {}
    /\ hpc # "joinClients" => joining = {}

(* A registered handle belongs to a thread that will unregister it. *)
SocketInv ==
    \A h \in client_sockets_ : \E c \in Clients : Alive(c) /\ sock[c] = h

(* Nobody else has the handle of a connection that is accepted and not yet  *)
(* unregistered, unless handles have clashed.                               *)
InUse(c) == Open(c) \/ Alive(c)
HandleInv ==
    ~clashed =>
        \A c, d \in Clients :
            (c # d /\ InUse(c) /\ InUse(d)) => sock[c] # sock[d]

(* So stop() can reach every connection that has a thread: its handle stays *)
(* registered until its own thread unregisters it.                          *)
Tracked ==
    ~clashed => \A c \in Clients : Alive(c) => sock[c] \in client_sockets_

(* The inductive invariant. *)
IInv ==
    /\ TypeOK
    /\ FlagInv
    /\ AcceptInv
    /\ ThreadInv
    /\ SocketInv
    /\ HandleInv
    /\ Tracked
    /\ SweptUnblocks

-----------------------------------------------------------------------------

(* The invariant holds before the first start(). *)
LEMMA InitIInv == Init => IInv
BY DEF Init, IInv, TypeOK, FlagInv, AcceptInv, ThreadInv, SocketInv, HandleInv,
   Tracked, SweptUnblocks, HostPc, StopPc, InUse, Alive, Open

(* Each step of host, accept thread, client threads and peers preserves it. *)
LEMMA NextIInv == IInv /\ [Next]_vars => IInv'
<1> SUFFICES ASSUME IInv, [Next]_vars PROVE IInv'
  OBVIOUS
<1> USE DEF IInv, flagVars, hostVars, connVars
<1>1. CASE SessionStart
  <2> USE <1>1 DEF SessionStart
  <2>1. TypeOK'
    BY DEF TypeOK, HostPc, StopPc
  <2>2. FlagInv'
    BY DEF TypeOK, FlagInv, HostPc, StopPc
  <2>3. AcceptInv'
    BY DEF TypeOK, AcceptInv
  <2>4. ThreadInv'
    BY DEF TypeOK, ThreadInv, AcceptInv, Alive
  <2>5. SocketInv'
    BY DEF TypeOK, SocketInv, AcceptInv, Alive
  <2>0. \A c \in Clients : ~Alive(c) /\ cpc[c] # "accepted" /\ cpc'[c] = cpc[c]
    BY DEF AcceptInv, ThreadInv
  <2>6. HandleInv'
    BY <2>0 DEF HandleInv, InUse, Alive, Open
  <2>7. Tracked'
    BY <2>0 DEF Tracked, Alive
  <2>8. SweptUnblocks'
    BY DEF TypeOK, SweptUnblocks, FlagInv, Tracked, StopPc, Alive, Open
  <2> QED BY <2>1, <2>2, <2>3, <2>4, <2>5, <2>6, <2>7, <2>8
<1>2. CASE ServerStartFails
  <2> USE <1>2 DEF ServerStartFails
  <2>1. TypeOK'
    BY DEF TypeOK, HostPc, StopPc
  <2>2. FlagInv'
    BY DEF TypeOK, FlagInv, HostPc, StopPc
  <2>3. AcceptInv'
    BY DEF TypeOK, AcceptInv
  <2>4. ThreadInv'
    BY DEF TypeOK, ThreadInv, AcceptInv, Alive
  <2>5. SocketInv'
    BY DEF TypeOK, SocketInv, AcceptInv, Alive
  <2>6. HandleInv'
    BY DEF TypeOK, HandleInv, InUse, Alive, Open
  <2>7. Tracked'
    BY DEF TypeOK, Tracked, HandleInv, AcceptInv, InUse, Alive
  <2>8. SweptUnblocks'
    BY DEF TypeOK, SweptUnblocks, FlagInv, Tracked, StopPc, Alive, Open
  <2> QED BY <2>1, <2>2, <2>3, <2>4, <2>5, <2>6, <2>7, <2>8
<1>3. CASE ServerStarts
  <2> USE <1>3 DEF ServerStarts
  <2>1. TypeOK'
    BY DEF TypeOK, HostPc, StopPc
  <2>2. FlagInv'
    BY DEF TypeOK, FlagInv, HostPc, StopPc
  <2>3. AcceptInv'
    BY DEF TypeOK, AcceptInv
  <2>4. ThreadInv'
    BY DEF TypeOK, ThreadInv, AcceptInv, Alive
  <2>5. SocketInv'
    BY DEF TypeOK, SocketInv, AcceptInv, Alive
  <2>6. HandleInv'
    BY DEF TypeOK, HandleInv, InUse, Alive, Open
  <2>7. Tracked'
    BY DEF TypeOK, Tracked, HandleInv, AcceptInv, InUse, Alive
  <2>8. SweptUnblocks'
    BY DEF TypeOK, SweptUnblocks, FlagInv, Tracked, StopPc, Alive, Open
  <2> QED BY <2>1, <2>2, <2>3, <2>4, <2>5, <2>6, <2>7, <2>8
<1>4. CASE DiscoveryStarts
  <2> USE <1>4 DEF DiscoveryStarts
  <2>1. TypeOK'
    BY DEF TypeOK, HostPc, StopPc
  <2>2. FlagInv'
    BY DEF TypeOK, FlagInv, HostPc, StopPc
  <2>3. AcceptInv'
    BY DEF TypeOK, AcceptInv
  <2>4. ThreadInv'
    BY DEF TypeOK, ThreadInv, AcceptInv, Alive
  <2>5. SocketInv'
    BY DEF TypeOK, SocketInv, AcceptInv, Alive
  <2>6. HandleInv'
    BY DEF TypeOK, HandleInv, InUse, Alive, Open
  <2>7. Tracked'
    BY DEF TypeOK, Tracked, HandleInv, AcceptInv, InUse, Alive
  <2>8. SweptUnblocks'
    BY DEF TypeOK, SweptUnblocks, FlagInv, Tracked, StopPc, Alive, Open
  <2> QED BY <2>1, <2>2, <2>3, <2>4, <2>5, <2>6, <2>7, <2>8
<1>5. CASE DiscoveryFails
  <2> USE <1>5 DEF DiscoveryFails
  <2>1. TypeOK'
    BY DEF TypeOK, HostPc, StopPc
  <2>2. FlagInv'
    BY DEF TypeOK, FlagInv, HostPc, StopPc
  <2>3. AcceptInv'
    BY DEF TypeOK, AcceptInv
  <2>4. ThreadInv'
    BY DEF TypeOK, ThreadInv, AcceptInv, Alive
  <2>5. SocketInv'
    BY DEF TypeOK, SocketInv, AcceptInv, Alive
  <2>6. HandleInv'
    BY DEF TypeOK, HandleInv, InUse, Alive, Open
  <2>7. Tracked'
    BY DEF TypeOK, Tracked, HandleInv, AcceptInv, InUse, Alive
  <2>8. SweptUnblocks'
    BY DEF TypeOK, SweptUnblocks, FlagInv, Tracked, StopPc, Alive, Open
  <2> QED BY <2>1, <2>2, <2>3, <2>4, <2>5, <2>6, <2>7, <2>8
<1>6. CASE SessionStop
  <2> USE <1>6 DEF SessionStop
  <2>1. TypeOK'
    BY DEF TypeOK, HostPc, StopPc
  <2>2. FlagInv'
    BY DEF TypeOK, FlagInv, HostPc, StopPc
  <2>3. AcceptInv'
    BY DEF TypeOK, AcceptInv
  <2>4. ThreadInv'
    BY DEF TypeOK, ThreadInv, AcceptInv, Alive
  <2>5. SocketInv'
    BY DEF TypeOK, SocketInv, AcceptInv, Alive
  <2>6. HandleInv'
    BY DEF TypeOK, HandleInv, InUse, Alive, Open
  <2>7. Tracked'
    BY DEF TypeOK, Tracked, HandleInv, AcceptInv, InUse, Alive
  <2>8. SweptUnblocks'
    BY DEF TypeOK, SweptUnblocks, FlagInv, Tracked, StopPc, Alive, Open
  <2> QED BY <2>1, <2>2, <2>3, <2>4, <2>5, <2>6, <2>7, <2>8
<1>7. CASE StopFlag
  <2> USE <1>7 DEF StopFlag
  <2>1. TypeOK'
    BY DEF TypeOK, HostPc, StopPc
  <2>2. FlagInv'
    BY DEF TypeOK, FlagInv, HostPc, StopPc
  <2>3. AcceptInv'
    BY DEF TypeOK, AcceptInv
  <2>4. ThreadInv'
    BY DEF TypeOK, ThreadInv, AcceptInv, Alive
  <2>5. SocketInv'
    BY DEF TypeOK, SocketInv, AcceptInv, Alive
  <2>6. HandleInv'
    BY DEF TypeOK, HandleInv, InUse, Alive, Open
  <2>7. Tracked'
    BY DEF TypeOK, Tracked, HandleInv, AcceptInv, InUse, Alive
  <2>8. SweptUnblocks'
    BY DEF TypeOK, SweptUnblocks, FlagInv, Tracked, StopPc, Alive, Open
  <2> QED BY <2>1, <2>2, <2>3, <2>4, <2>5, <2>6, <2>7, <2>8
<1>8. CASE StopClose
  <2> USE <1>8 DEF StopClose
  <2>1. TypeOK'
    BY DEF TypeOK, HostPc, StopPc
  <2>2. FlagInv'
    BY DEF TypeOK, FlagInv, HostPc, StopPc
  <2>3. AcceptInv'
    BY DEF TypeOK, AcceptInv
  <2>4. ThreadInv'
    BY DEF TypeOK, ThreadInv, AcceptInv, Alive
  <2>5. SocketInv'
    BY DEF TypeOK, SocketInv, AcceptInv, Alive
  <2>6. HandleInv'
    BY DEF TypeOK, HandleInv, InUse, Alive, Open
  <2>7. Tracked'
    BY DEF TypeOK, Tracked, HandleInv, AcceptInv, InUse, Alive
  <2>8. SweptUnblocks'
    BY DEF TypeOK, SweptUnblocks, FlagInv, Tracked, StopPc, Alive, Open
  <2> QED BY <2>1, <2>2, <2>3, <2>4, <2>5, <2>6, <2>7, <2>8
<1>9. CASE StopSweep
  <2> USE <1>9 DEF StopSweep
  <2>1. TypeOK'
    BY DEF TypeOK, HostPc, StopPc
  <2>2. FlagInv'
    BY DEF TypeOK, FlagInv, HostPc, StopPc
  <2>3. AcceptInv'
    BY DEF TypeOK, AcceptInv
  <2>4. ThreadInv'
    BY DEF TypeOK, ThreadInv, AcceptInv, Alive
  <2>5. SocketInv'
    BY DEF TypeOK, SocketInv, AcceptInv, Alive
  <2>6. HandleInv'
    BY DEF TypeOK, HandleInv, InUse, Alive, Open
  <2>7. Tracked'
    BY DEF TypeOK, Tracked, HandleInv, AcceptInv, InUse, Alive
  <2>8. SweptUnblocks'
    BY DEF TypeOK, SweptUnblocks, FlagInv, Tracked, StopPc, Alive, Open
  <2> QED BY <2>1, <2>2, <2>3, <2>4, <2>5, <2>6, <2>7, <2>8
<1>10. CASE StopJoinAccept
  <2> USE <1>10 DEF StopJoinAccept
  <2>1. TypeOK'
    BY DEF TypeOK, HostPc, StopPc
  <2>2. FlagInv'
    BY DEF TypeOK, FlagInv, HostPc, StopPc
  <2>3. AcceptInv'
    BY DEF TypeOK, AcceptInv
  <2>4. ThreadInv'
    BY DEF TypeOK, ThreadInv, AcceptInv, Alive
  <2>5. SocketInv'
    BY DEF TypeOK, SocketInv, AcceptInv, Alive
  <2>6. HandleInv'
    BY DEF TypeOK, HandleInv, InUse, Alive, Open
  <2>7. Tracked'
    BY DEF TypeOK, Tracked, HandleInv, AcceptInv, InUse, Alive
  <2>8. SweptUnblocks'
    BY DEF TypeOK, SweptUnblocks, FlagInv, Tracked, StopPc, Alive, Open
  <2> QED BY <2>1, <2>2, <2>3, <2>4, <2>5, <2>6, <2>7, <2>8
<1>11. CASE StopSwap
  <2> USE <1>11 DEF StopSwap
  <2>1. TypeOK'
    BY DEF TypeOK, HostPc, StopPc
  <2>2. FlagInv'
    BY DEF TypeOK, FlagInv, HostPc, StopPc
  <2>3. AcceptInv'
    BY DEF TypeOK, AcceptInv
  <2>4. ThreadInv'
    BY DEF TypeOK, ThreadInv, AcceptInv, Alive
  <2>5. SocketInv'
    BY DEF TypeOK, SocketInv, AcceptInv, Alive
  <2>6. HandleInv'
    BY DEF TypeOK, HandleInv, InUse, Alive, Open
  <2>7. Tracked'
    BY DEF TypeOK, Tracked, HandleInv, AcceptInv, InUse, Alive
  <2>8. SweptUnblocks'
    BY DEF TypeOK, SweptUnblocks, FlagInv, Tracked, StopPc, Alive, Open
  <2> QED BY <2>1, <2>2, <2>3, <2>4, <2>5, <2>6, <2>7, <2>8
<1>12. CASE StopJoinClients
  <2> USE <1>12 DEF StopJoinClients
  <2>1. TypeOK'
    BY DEF TypeOK, HostPc, StopPc
  <2>2. FlagInv'
    BY DEF TypeOK, FlagInv, HostPc, StopPc
  <2>3. AcceptInv'
    BY DEF TypeOK, AcceptInv
  <2>4. ThreadInv'
    BY DEF TypeOK, ThreadInv, AcceptInv, Alive
  <2>5. SocketInv'
    BY DEF TypeOK, SocketInv, AcceptInv, Alive
  <2>6. HandleInv'
    BY DEF TypeOK, HandleInv, InUse, Alive, Open
  <2>7. Tracked'
    BY DEF TypeOK, Tracked, HandleInv, AcceptInv, InUse, Alive
  <2>8. SweptUnblocks'
    BY DEF TypeOK, SweptUnblocks, FlagInv, Tracked, StopPc, Alive, Open
  <2> QED BY <2>1, <2>2, <2>3, <2>4, <2>5, <2>6, <2>7, <2>8
<1>13. CASE AcceptCheck
  <2> USE <1>13 DEF AcceptCheck
  <2>1. TypeOK'
    BY DEF TypeOK, HostPc, StopPc
  <2>2. FlagInv'
    BY DEF TypeOK, FlagInv, HostPc, StopPc
  <2>3. AcceptInv'
    BY DEF TypeOK, AcceptInv
  <2>4. ThreadInv'
    BY DEF TypeOK, ThreadInv, AcceptInv, Alive
  <2>5. SocketInv'
    BY DEF TypeOK, SocketInv, AcceptInv, Alive
  <2>6. HandleInv'
    BY DEF TypeOK, HandleInv, InUse, Alive, Open
  <2>7. Tracked'
    BY DEF TypeOK, Tracked, HandleInv, AcceptInv, InUse, Alive
  <2>8. SweptUnblocks'
    BY DEF TypeOK, SweptUnblocks, FlagInv, Tracked, StopPc, Alive, Open
  <2> QED BY <2>1, <2>2, <2>3, <2>4, <2>5, <2>6, <2>7, <2>8
<1>14. CASE AcceptFails
  <2> USE <1>14 DEF AcceptFails
  <2>1. TypeOK'
    BY DEF TypeOK, HostPc, StopPc
  <2>2. FlagInv'
    BY DEF TypeOK, FlagInv, HostPc, StopPc
  <2>3. AcceptInv'
    BY DEF TypeOK, AcceptInv
  <2>4. ThreadInv'
    BY DEF TypeOK, ThreadInv, AcceptInv, Alive
  <2>5. SocketInv'
    BY DEF TypeOK, SocketInv, AcceptInv, Alive
  <2>6. HandleInv'
    BY DEF TypeOK, HandleInv, InUse, Alive, Open
  <2>7. Tracked'
    BY DEF TypeOK, Tracked, HandleInv, AcceptInv, InUse, Alive
  <2>8. SweptUnblocks'
    BY DEF TypeOK, SweptUnblocks, FlagInv, Tracked, StopPc, Alive, Open
  <2> QED BY <2>1, <2>2, <2>3, <2>4, <2>5, <2>6, <2>7, <2>8
<1>15. ASSUME NEW c \in Clients, AcceptPeer(c) PROVE IInv'
  <2> USE <1>15 DEF AcceptPeer
  <2>1. TypeOK'
    BY DEF TypeOK, HostPc, StopPc, FreeHandles
  <2>2. FlagInv'
    BY DEF TypeOK, FlagInv, HostPc, StopPc
  <2>3. AcceptInv'
    BY DEF TypeOK, AcceptInv, FreeHandles
  <2>4. ThreadInv'
    BY DEF TypeOK, ThreadInv, AcceptInv, Alive
  <2>5. SocketInv'
    BY DEF TypeOK, SocketInv, AcceptInv, Alive
  <2>6. HandleInv'
    <3>1. PICK h \in FreeHandles :
             /\ sock' = [sock EXCEPT ![c] = h]
             /\ clashed' = (clashed \/ \E d \in Clients :
                                          cpc[d] = "erase" /\ sock[d] = h)
      OBVIOUS
    <3>2. \A d \in Clients : (InUse(d) /\ ~clashed') => sock[d] # h
      BY <3>1 DEF FreeHandles, InUse, Alive, Open
    <3>3. \A d \in Clients : d # c => (InUse(d)' <=> InUse(d)) /\ sock'[d] = sock[d]
      BY <3>1 DEF TypeOK, InUse, Alive, Open
    <3>4. sock'[c] = h /\ (~clashed' => ~clashed)
      BY <3>1 DEF TypeOK
    <3> QED BY <3>2, <3>3, <3>4 DEF HandleInv
  <2>7. Tracked'
    BY DEF TypeOK, Tracked, HandleInv, AcceptInv, InUse, Alive
  <2>8. SweptUnblocks'
    BY DEF TypeOK, SweptUnblocks, FlagInv, Tracked, StopPc, Alive, Open
  <2> QED BY <2>1, <2>2, <2>3, <2>4, <2>5, <2>6, <2>7, <2>8
<1>16. ASSUME NEW c \in Clients, Register(c) PROVE IInv'
  <2> USE <1>16 DEF Register
  <2>1. TypeOK'
    BY DEF TypeOK, AcceptInv, HostPc, StopPc
  <2>2. FlagInv'
    BY DEF TypeOK, FlagInv, HostPc, StopPc
  <2>3. AcceptInv'
    BY DEF TypeOK, AcceptInv
  <2>4. ThreadInv'
    BY DEF TypeOK, ThreadInv, AcceptInv, Alive
  <2>5. SocketInv'
    BY DEF TypeOK, SocketInv, AcceptInv, Alive
  <2>6. HandleInv'
    BY DEF TypeOK, HandleInv, InUse, Alive, Open
  <2>7. Tracked'
    BY DEF TypeOK, Tracked, HandleInv, AcceptInv, InUse, Alive
  <2>8. SweptUnblocks'
    BY DEF TypeOK, SweptUnblocks, FlagInv, Tracked, StopPc, Alive, Open
  <2> QED BY <2>1, <2>2, <2>3, <2>4, <2>5, <2>6, <2>7, <2>8
<1>17. ASSUME NEW c \in Clients, ClientCheck(c) PROVE IInv'
  <2> USE <1>17 DEF ClientCheck
  <2>1. TypeOK'
    BY DEF TypeOK, HostPc, StopPc
  <2>2. FlagInv'
    BY DEF TypeOK, FlagInv, HostPc, StopPc
  <2>3. AcceptInv'
    BY DEF TypeOK, AcceptInv
  <2>4. ThreadInv'
    BY DEF TypeOK, ThreadInv, AcceptInv, Alive
  <2>5. SocketInv'
    BY DEF TypeOK, SocketInv, AcceptInv, Alive
  <2>6. HandleInv'
    BY DEF TypeOK, HandleInv, InUse, Alive, Open
  <2>7. Tracked'
    BY DEF TypeOK, Tracked, HandleInv, AcceptInv, InUse, Alive
  <2>8. SweptUnblocks'
    BY DEF TypeOK, SweptUnblocks, FlagInv, Tracked, StopPc, Alive, Open
  <2> QED BY <2>1, <2>2, <2>3, <2>4, <2>5, <2>6, <2>7, <2>8
<1>18. ASSUME NEW c \in Clients, ClientRequest(c) PROVE IInv'
  <2> USE <1>18 DEF ClientRequest
  <2>1. TypeOK'
    BY DEF TypeOK, HostPc, StopPc
  <2>2. FlagInv'
    BY DEF TypeOK, FlagInv, HostPc, StopPc
  <2>3. AcceptInv'
    BY DEF TypeOK, AcceptInv
  <2>4. ThreadInv'
    BY DEF TypeOK, ThreadInv, AcceptInv, Alive
  <2>5. SocketInv'
    BY DEF TypeOK, SocketInv, AcceptInv, Alive
  <2>6. HandleInv'
    BY DEF TypeOK, HandleInv, InUse, Alive, Open
  <2>7. Tracked'
    BY DEF TypeOK, Tracked, HandleInv, AcceptInv, InUse, Alive
  <2>8. SweptUnblocks'
    BY DEF TypeOK, SweptUnblocks, FlagInv, Tracked, StopPc, Alive, Open
  <2> QED BY <2>1, <2>2, <2>3, <2>4, <2>5, <2>6, <2>7, <2>8
<1>19. ASSUME NEW c \in Clients, ClientEof(c) PROVE IInv'
  <2> USE <1>19 DEF ClientEof
  <2>1. TypeOK'
    BY DEF TypeOK, HostPc, StopPc
  <2>2. FlagInv'
    BY DEF TypeOK, FlagInv, HostPc, StopPc
  <2>3. AcceptInv'
    BY DEF TypeOK, AcceptInv
  <2>4. ThreadInv'
    BY DEF TypeOK, ThreadInv, AcceptInv, Alive
  <2>5. SocketInv'
    BY DEF TypeOK, SocketInv, AcceptInv, Alive
  <2>6. HandleInv'
    BY DEF TypeOK, HandleInv, InUse, Alive, Open
  <2>7. Tracked'
    BY DEF TypeOK, Tracked, HandleInv, AcceptInv, InUse, Alive
  <2>8. SweptUnblocks'
    BY DEF TypeOK, SweptUnblocks, FlagInv, Tracked, StopPc, Alive, Open
  <2> QED BY <2>1, <2>2, <2>3, <2>4, <2>5, <2>6, <2>7, <2>8
<1>20. ASSUME NEW c \in Clients, ClientClose(c) PROVE IInv'
  <2> USE <1>20 DEF ClientClose
  <2>1. TypeOK'
    BY DEF TypeOK, HostPc, StopPc
  <2>2. FlagInv'
    BY DEF TypeOK, FlagInv, HostPc, StopPc
  <2>3. AcceptInv'
    BY DEF TypeOK, AcceptInv
  <2>4. ThreadInv'
    BY DEF TypeOK, ThreadInv, AcceptInv, Alive
  <2>5. SocketInv'
    BY DEF TypeOK, SocketInv, AcceptInv, Alive
  <2>6. HandleInv'
    BY DEF TypeOK, HandleInv, InUse, Alive, Open
  <2>7. Tracked'
    BY DEF TypeOK, Tracked, HandleInv, AcceptInv, InUse, Alive
  <2>8. SweptUnblocks'
    BY DEF TypeOK, SweptUnblocks, FlagInv, Tracked, StopPc, Alive, Open
  <2> QED BY <2>1, <2>2, <2>3, <2>4, <2>5, <2>6, <2>7, <2>8
<1>21. ASSUME NEW c \in Clients, ClientErase(c) PROVE IInv'
  <2> USE <1>21 DEF ClientErase
  <2>1. TypeOK'
    BY DEF TypeOK, HostPc, StopPc
  <2>2. FlagInv'
    BY DEF TypeOK, FlagInv, HostPc, StopPc
  <2>3. AcceptInv'
    BY DEF TypeOK, AcceptInv
  <2>4. ThreadInv'
    BY DEF TypeOK, ThreadInv, AcceptInv, Alive
  <2>5. SocketInv'
    BY DEF TypeOK, SocketInv, AcceptInv, Alive
  <2>6. HandleInv'
    BY DEF TypeOK, HandleInv, InUse, Alive, Open
  <2>7. Tracked'
    BY DEF TypeOK, Tracked, HandleInv, AcceptInv, InUse, Alive
  <2>8. SweptUnblocks'
    BY DEF TypeOK, SweptUnblocks, FlagInv, Tracked, StopPc, Alive, Open
  <2> QED BY <2>1, <2>2, <2>3, <2>4, <2>5, <2>6, <2>7, <2>8
<1>22. ASSUME NEW c \in Clients, PeerConnects(c) PROVE IInv'
  <2> USE <1>22 DEF PeerConnects
  <2>1. TypeOK'
    BY DEF TypeOK, HostPc, StopPc
  <2>2. FlagInv'
    BY DEF TypeOK, FlagInv, HostPc, StopPc
  <2>3. AcceptInv'
    BY DEF TypeOK, AcceptInv
  <2>4. ThreadInv'
    BY DEF TypeOK, ThreadInv, AcceptInv, Alive
  <2>5. SocketInv'
    BY DEF TypeOK, SocketInv, AcceptInv, Alive
  <2>6. HandleInv'
    BY DEF TypeOK, HandleInv, InUse, Alive, Open
  <2>7. Tracked'
    BY DEF TypeOK, Tracked, HandleInv, AcceptInv, InUse, Alive
  <2>8. SweptUnblocks'
    BY DEF TypeOK, SweptUnblocks, FlagInv, Tracked, StopPc, Alive, Open
  <2> QED BY <2>1, <2>2, <2>3, <2>4, <2>5, <2>6, <2>7, <2>8
<1>23. ASSUME NEW c \in Clients, PeerLeaves(c) PROVE IInv'
  <2> USE <1>23 DEF PeerLeaves
  <2>1. TypeOK'
    BY DEF TypeOK, HostPc, StopPc
  <2>2. FlagInv'
    BY DEF TypeOK, FlagInv, HostPc, StopPc
  <2>3. AcceptInv'
    BY DEF TypeOK, AcceptInv
  <2>4. ThreadInv'
    BY DEF TypeOK, ThreadInv, AcceptInv, Alive
  <2>5. SocketInv'
    BY DEF TypeOK, SocketInv, AcceptInv, Alive
  <2>6. HandleInv'
    BY DEF TypeOK, HandleInv, InUse, Alive, Open
  <2>7. Tracked'
    BY DEF TypeOK, Tracked, HandleInv, AcceptInv, InUse, Alive
  <2>8. SweptUnblocks'
    BY DEF TypeOK, SweptUnblocks, FlagInv, Tracked, StopPc, Alive, Open
  <2> QED BY <2>1, <2>2, <2>3, <2>4, <2>5, <2>6, <2>7, <2>8
<1>24. CASE UNCHANGED vars
  BY <1>24 DEF vars, TypeOK, FlagInv, AcceptInv, ThreadInv, SocketInv, HandleInv,
     Tracked, SweptUnblocks, InUse, Alive, Open
<1> QED
  BY <1>1, <1>2, <1>3, <1>4, <1>5, <1>6, <1>7, <1>8, <1>9, <1>10, <1>11, <1>12, <1>13, <1>14, <1>15, <1>16, <1>17, <1>18, <1>19, <1>20, <1>21, <1>22, <1>23, <1>24
     DEF Next, Host, HostCall, Acceptor, ClientThread

LEMMA Invariance == Spec => []IInv
BY InitIInv, NextIInv, PTL DEF Spec

(* Type correctness of the server. *)
THEOREM TypeCorrect == Spec => []TypeOK
BY Invariance, PTL DEF IInv

(* When stop() has returned or start() has failed nothing is left, whether  *)
(* or not handles are reused.                                               *)
THEOREM QuietWhenStopped == Spec => []StoppedIsQuiet
<1>1. IInv => StoppedIsQuiet
  <2> SUFFICES ASSUME IInv, hpc = "stopped" PROVE StoppedIsQuiet
    BY DEF StoppedIsQuiet
  <2>1. ~running /\ ~running_ /\ ~listening
    BY DEF IInv, FlagInv
  <2>2. apc = "none" /\ client_threads_ = {} /\ joining = {}
    BY DEF IInv, AcceptInv, ThreadInv
  <2>3. \A c \in Clients : ~Alive(c) /\ cpc[c] # "accepted"
    BY <2>2 DEF IInv, AcceptInv, ThreadInv
  <2>4. \A c \in Clients : ~Open(c)
    BY <2>3 DEF Alive, Open
  <2>5. client_sockets_ = {}
    BY <2>3 DEF IInv, SocketInv
  <2> QED BY <2>1, <2>2, <2>3, <2>4, <2>5 DEF StoppedIsQuiet
<1> QED BY <1>1, Invariance, PTL

(* Unless handles have clashed, the sweep of Session::stop() unblocks every *)
(* client thread, for any number of connections.                            *)
THEOREM SweepUnblocks == Spec => []SweptUnblocks
BY Invariance, PTL DEF IInv
=============================================================================
