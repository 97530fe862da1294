--------------------------- MODULE PcmOutputProofs ---------------------------
(***************************************************************************)
(* Proofs about PcmOutput for every queue capacity and every number of     *)
(* frames: its type invariant, the order of the queue, the bound on stale  *)
(* frames, the conservation of the statistics, the persistence of the held *)
(* frame, and that it implements InOrderAudio.                             *)
(***************************************************************************)
EXTENDS PcmOutput, TLAPS

(* What each session's reset leaves behind: queued frames are all newer     *)
(* than the reset, and the one older frame the worker may hold is still     *)
(* unaccepted only while no older frame has been accepted.                  *)
StaleInv ==
    /\ resetMark + Len(output_queue_) <= produced
    /\ late <= 1
    /\ (wpc \in {"check", "calling"} /\ frame <= resetMark) => late = 0

(* Between clearing the queue and zeroing the counters nothing is pushed. *)
ConfigureInv == ppc = "configure" => output_queue_ = << >>

(* The worker is told to stop only by the destructor of a stopped session. *)
PhaseInv == output_running_ <=> phase \in {"stopped", "live"}

(* The inductive invariant. *)
IInv ==
    /\ TypeOK
    /\ QueueIsNewestSuffix
    /\ StaleInv
    /\ ConfigureInv
    /\ PhaseInv
    /\ StatsConserved

-----------------------------------------------------------------------------

(* Pushing frame n + 1 onto the newest of n frames leaves the newest of     *)
(* n + 1, and the length grows by one less the frame dropped.               *)
LEMMA PushNewest ==
    ASSUME NEW q \in Seq(Nat), NEW n \in Nat, Newest(q, n)
    PROVE  LET r == PushDroppingOldest(q, n + 1)
               d == IF Len(q) >= kMaxQueuedPcmFrames THEN 1 ELSE 0
           IN  /\ r \in Seq(Nat)
               /\ Newest(r, n + 1)
               /\ Len(r) = Len(q) + 1 - d
<1> USE CapacityAssumption
<1>1. CASE Len(q) >= kMaxQueuedPcmFrames
  <2> DEFINE r == Append(Tail(q), n + 1)
  <2>1. Len(q) = kMaxQueuedPcmFrames /\ Len(q) \in Nat \ {0}
    BY <1>1 DEF Newest
  <2>2. /\ Tail(q) \in Seq(Nat) /\ Len(Tail(q)) = Len(q) - 1
        /\ \A i \in 1..(Len(q) - 1) : Tail(q)[i] = q[i + 1]
    BY <2>1
  <2>3. /\ r \in Seq(Nat) /\ Len(r) = Len(q) /\ r[Len(q)] = n + 1
        /\ \A i \in 1..(Len(q) - 1) : r[i] = q[i + 1]
    BY <2>1, <2>2
  <2>4. \A i \in 1..(Len(q) - 1) : q[i + 1] = n - Len(q) + (i + 1)
    BY <2>1 DEF Newest
  <2> HIDE DEF r
  <2>5. ASSUME NEW i \in 1..Len(r) PROVE r[i] = n + 1 - Len(r) + i
    BY <2>1, <2>3, <2>4
  <2>6. Newest(r, n + 1)
    BY <2>1, <2>3, <2>5 DEF Newest
  <2> QED BY <1>1, <2>3, <2>6 DEF PushDroppingOldest, r
<1>2. CASE ~(Len(q) >= kMaxQueuedPcmFrames)
  <2> DEFINE r == Append(q, n + 1)
  <2>1. /\ r \in Seq(Nat) /\ Len(r) = Len(q) + 1 /\ r[Len(q) + 1] = n + 1
        /\ \A i \in 1..Len(q) : r[i] = q[i]
    OBVIOUS
  <2>2. \A i \in 1..Len(q) : q[i] = n - Len(q) + i
    BY DEF Newest
  <2> HIDE DEF r
  <2>3. ASSUME NEW i \in 1..Len(r) PROVE r[i] = n + 1 - Len(r) + i
    <3>1. Len(q) \in Nat
      OBVIOUS
    <3>2. CASE i = Len(q) + 1
      BY <2>1, <3>1, <3>2
    <3>3. CASE i \in 1..Len(q)
      BY <2>1, <2>2, <3>1, <3>3
    <3> QED BY <2>1, <3>1, <3>2, <3>3
  <2>4. Newest(r, n + 1)
    BY <1>2, <2>1, <2>3 DEF Newest
  <2> QED BY <1>2, <2>1, <2>4 DEF PushDroppingOldest, r
<1> QED BY <1>1, <1>2

(* The invariant holds when the session has been constructed. *)
LEMMA InitIInv == Init => IInv
<1> SUFFICES ASSUME Init PROVE IInv
  OBVIOUS
<1> USE CapacityAssumption DEF Init
<1>1. TypeOK
  BY DEF TypeOK, ZeroStats, WorkerPc, ProducerPc, Phase
<1>2. QueueIsNewestSuffix
  BY DEF QueueIsNewestSuffix, Newest, Holding
<1>3. StaleInv /\ ConfigureInv /\ PhaseInv
  BY DEF StaleInv, ConfigureInv, PhaseInv
<1>4. StatsConserved
  BY DEF StatsConserved, StatsBalance, ZeroStats, Holding
<1> QED BY <1>1, <1>2, <1>3, <1>4 DEF IInv

(* Each step of each thread preserves the inductive invariant. *)
LEMMA NextIInv == IInv /\ [Next]_vars => IInv'
<1> SUFFICES ASSUME IInv, [Next]_vars PROVE IInv'
  OBVIOUS
<1> USE CapacityAssumption DEF IInv, producerVars, historyVars
<1>1. CASE EnqueuePush
  <2> USE <1>1 DEF EnqueuePush
  <2> DEFINE n == Len(output_queue_)
             d == IF n >= kMaxQueuedPcmFrames THEN 1 ELSE 0
  <2>0. /\ dropped' = d /\ d \in 0..1
        /\ output_queue_' \in Seq(Nat)
        /\ Len(output_queue_') = n + 1 - d
        /\ Newest(output_queue_', produced + 1)
    <3>1. /\ output_queue_ \in Seq(Nat) /\ produced \in Nat
          /\ Newest(output_queue_, produced)
      BY DEF TypeOK, QueueIsNewestSuffix
    <3>2. /\ output_queue_' = PushDroppingOldest(output_queue_, produced + 1)
          /\ dropped' = d
      OBVIOUS
    <3>3. d \in 0..1
      OBVIOUS
    <3> QED BY ONLY <3>1, <3>2, <3>3, PushNewest
  <2>1. TypeOK'
    BY <2>0 DEF TypeOK, WorkerPc, ProducerPc, Phase
  <2>2. QueueIsNewestSuffix'
    <3>1. /\ Holding => frame <= produced + 1 - (n + 1 - d)
          /\ wpc \in {"check", "calling"} => lastAccepted < frame
          /\ lastAccepted <= produced + 1 - (n + 1 - d)
      BY DEF TypeOK, QueueIsNewestSuffix, Newest, Holding
    <3>2. /\ Len(output_queue_') = n + 1 - d /\ produced' = produced + 1
          /\ frame' = frame /\ wpc' = wpc /\ lastAccepted' = lastAccepted
      BY <2>0
    <3>3. Newest(output_queue_', produced')
      BY <2>0, <3>2, Zenon
    <3>4. produced' - Len(output_queue_') = produced + 1 - (n + 1 - d)
      <4>1. n \in Nat /\ d \in Nat /\ produced \in Nat
        BY DEF TypeOK
      <4> HIDE DEF d, n
      <4> QED BY ONLY <3>2, <4>1
    <3> HIDE DEF d, n
    <3>5. /\ Holding' => frame' <= produced' - Len(output_queue_')
          /\ wpc' \in {"check", "calling"} => lastAccepted' < frame'
      BY ONLY <3>1, <3>2, <3>4, Zenon DEF Holding
    <3>6. lastAccepted' <= produced' - Len(output_queue_')
      BY ONLY <3>1, <3>2, <3>4, Zenon
    <3> QED BY ONLY <3>3, <3>5, <3>6, Zenon DEF QueueIsNewestSuffix
  <2>3. StaleInv'
    BY <2>0 DEF TypeOK, StaleInv
  <2>4. ConfigureInv' /\ PhaseInv'
    BY <2>0 DEF TypeOK, ConfigureInv, PhaseInv
  <2>5. StatsConserved'
    <3>1. SUFFICES ASSUME output_running_ PROVE StatsBalance'
      BY Zenon DEF StatsConserved
    <3>2. StatsBalance
      BY <3>1, Zenon DEF StatsConserved
    <3>3. stats.queued + 1 + carried = stats.drops + d + stats.delivered
            + (n + 1 - d) + (IF Holding THEN 1 ELSE 0)
      <4> DEFINE held == IF Holding THEN 1 ELSE 0
                 queued == stats.queued
                 drops == stats.drops
                 delivered == stats.delivered
      <4>1. /\ queued \in Nat /\ drops \in Nat /\ delivered \in Nat
            /\ carried \in Nat /\ held \in Nat /\ n \in Nat /\ d \in Nat
        BY DEF TypeOK
      <4>2. queued + carried = drops + delivered + n + held
        BY <3>2, <4>1 DEF StatsBalance, Holding
      <4>3. SUFFICES queued + 1 + carried
                       = drops + d + delivered + (n + 1 - d) + held
        OBVIOUS
      <4> HIDE DEF held, queued, drops, delivered, n, d
      <4> QED BY ONLY <4>1, <4>2
    <3>4. /\ Len(output_queue_') = n + 1 - d /\ dropped' = d
          /\ ppc' = "pushed" /\ UNCHANGED <<wpc, stats, carried>>
      BY <2>0
    <3> QED BY ONLY <3>3, <3>4, Zenon DEF StatsBalance, Holding
  <2> QED BY <2>1, <2>2, <2>3, <2>4, <2>5
<1>2. CASE EnqueueCount
  <2> USE <1>2 DEF EnqueueCount
  <2>1. TypeOK'
    <3>1. stats.queued + 1 \in Nat /\ stats.drops + dropped \in Nat
      BY DEF TypeOK
    <3>2. stats' \in [queued : Nat, drops : Nat, delivered : Nat]
      BY <3>1 DEF TypeOK
    <3> QED BY <3>2 DEF TypeOK, WorkerPc, ProducerPc, Phase
  <2>2. QueueIsNewestSuffix'
    BY DEF TypeOK, QueueIsNewestSuffix, Newest, Holding
  <2>3. StaleInv'
    BY DEF TypeOK, StaleInv
  <2>4. ConfigureInv' /\ PhaseInv'
    BY DEF TypeOK, ConfigureInv, PhaseInv
  <2>5. StatsConserved'
    BY DEF TypeOK, StatsConserved, StatsBalance, Holding
  <2> QED BY <2>1, <2>2, <2>3, <2>4, <2>5
<1>3. CASE EnqueueNotify
  <2> USE <1>3 DEF EnqueueNotify, Woken
  <2>1. TypeOK'
    BY DEF TypeOK, WorkerPc, ProducerPc, Phase
  <2>2. QueueIsNewestSuffix'
    BY DEF TypeOK, QueueIsNewestSuffix, Newest, Holding
  <2>3. StaleInv'
    BY DEF TypeOK, StaleInv
  <2>4. ConfigureInv' /\ PhaseInv'
    BY DEF TypeOK, ConfigureInv, PhaseInv
  <2>5. StatsConserved'
    BY DEF TypeOK, StatsConserved, StatsBalance, Holding
  <2> QED BY <2>1, <2>2, <2>3, <2>4, <2>5
<1>4. CASE ResetStats
  <2> USE <1>4 DEF ResetStats
  <2>1. TypeOK'
    BY DEF ZeroStats, TypeOK, WorkerPc, ProducerPc, Phase
  <2>2. QueueIsNewestSuffix'
    BY DEF TypeOK, QueueIsNewestSuffix, Newest, Holding
  <2>3. StaleInv'
    BY DEF TypeOK, StaleInv
  <2>4. ConfigureInv' /\ PhaseInv'
    BY DEF TypeOK, ConfigureInv, PhaseInv
  <2>5. StatsConserved'
    BY DEF TypeOK, ZeroStats, StatsConserved, StatsBalance, Holding
  <2> QED BY <2>1, <2>2, <2>3, <2>4, <2>5
<1>5. CASE ResetClear
  <2> USE <1>5 DEF ResetClear
  <2>1. TypeOK'
    BY DEF TypeOK, WorkerPc, ProducerPc, Phase
  <2>2. QueueIsNewestSuffix'
    BY DEF TypeOK, QueueIsNewestSuffix, Newest, Holding
  <2>3. StaleInv'
    BY DEF TypeOK, StaleInv
  <2>4. ConfigureInv' /\ PhaseInv'
    BY DEF TypeOK, ConfigureInv, PhaseInv
  <2>5. StatsConserved'
    BY DEF TypeOK, StatsConserved, StatsBalance, Holding
  <2> QED BY <2>1, <2>2, <2>3, <2>4, <2>5
<1>6. CASE ConfigureStats
  <2> USE <1>6 DEF ConfigureStats
  <2>1. TypeOK'
    BY DEF ZeroStats, TypeOK, WorkerPc, ProducerPc, Phase, Holding
  <2>2. QueueIsNewestSuffix'
    BY DEF TypeOK, QueueIsNewestSuffix, Newest, Holding
  <2>3. StaleInv'
    BY DEF TypeOK, StaleInv
  <2>4. ConfigureInv' /\ PhaseInv'
    BY DEF TypeOK, ConfigureInv, PhaseInv
  <2>5. StatsConserved'
    BY DEF TypeOK, ZeroStats, StatsConserved, StatsBalance, Holding, ConfigureInv
  <2> QED BY <2>1, <2>2, <2>3, <2>4, <2>5
<1>7. CASE WorkerBlock
  <2> USE <1>7 DEF WorkerBlock
  <2>1. TypeOK'
    BY DEF TypeOK, WorkerPc, ProducerPc, Phase
  <2>2. QueueIsNewestSuffix'
    BY DEF TypeOK, QueueIsNewestSuffix, Newest, Holding
  <2>3. StaleInv'
    BY DEF TypeOK, StaleInv
  <2>4. ConfigureInv' /\ PhaseInv'
    BY DEF TypeOK, ConfigureInv, PhaseInv
  <2>5. StatsConserved'
    BY DEF TypeOK, StatsConserved, StatsBalance, Holding
  <2> QED BY <2>1, <2>2, <2>3, <2>4, <2>5
<1>8. CASE WorkerSpurious
  <2> USE <1>8 DEF WorkerSpurious
  <2>1. TypeOK'
    BY DEF TypeOK, WorkerPc, ProducerPc, Phase
  <2>2. QueueIsNewestSuffix'
    BY DEF TypeOK, QueueIsNewestSuffix, Newest, Holding
  <2>3. StaleInv'
    BY DEF TypeOK, StaleInv
  <2>4. ConfigureInv' /\ PhaseInv'
    BY DEF TypeOK, ConfigureInv, PhaseInv
  <2>5. StatsConserved'
    BY DEF TypeOK, StatsConserved, StatsBalance, Holding
  <2> QED BY <2>1, <2>2, <2>3, <2>4, <2>5
<1>9. CASE WorkerExit
  <2> USE <1>9 DEF WorkerExit
  <2>1. TypeOK'
    BY DEF TypeOK, WorkerPc, ProducerPc, Phase
  <2>2. QueueIsNewestSuffix'
    BY DEF TypeOK, QueueIsNewestSuffix, Newest, Holding
  <2>3. StaleInv'
    BY DEF TypeOK, StaleInv
  <2>4. ConfigureInv' /\ PhaseInv'
    BY DEF TypeOK, ConfigureInv, PhaseInv
  <2>5. StatsConserved'
    BY DEF TypeOK, StatsConserved, StatsBalance, Holding
  <2> QED BY <2>1, <2>2, <2>3, <2>4, <2>5
<1>10. CASE WorkerPop
  <2> USE <1>10 DEF WorkerPop
  <2>0. /\ Len(output_queue_) \in Nat \ {0}
        /\ frame' = output_queue_[1]
        /\ frame' \in Nat
        /\ output_queue_' \in Seq(Nat)
        /\ Len(output_queue_') = Len(output_queue_) - 1
        /\ \A i \in 1..Len(output_queue_') :
              output_queue_'[i] = output_queue_[i + 1]
    BY DEF TypeOK
  <2>1. TypeOK'
    BY <2>0 DEF TypeOK, WorkerPc, ProducerPc, Phase
  <2>2. QueueIsNewestSuffix'
    BY <2>0, SMTT(30) DEF TypeOK, QueueIsNewestSuffix, Newest, Holding
  <2>3. StaleInv'
    BY <2>0 DEF TypeOK, StaleInv, QueueIsNewestSuffix, Newest
  <2>4. ConfigureInv' /\ PhaseInv'
    BY <2>0 DEF TypeOK, ConfigureInv, PhaseInv
  <2>5. StatsConserved'
    BY <2>0 DEF TypeOK, StatsConserved, StatsBalance, Holding
  <2> QED BY <2>1, <2>2, <2>3, <2>4, <2>5
<1>11. CASE WorkerCheck
  <2> USE <1>11 DEF WorkerCheck
  <2>1. TypeOK'
    BY DEF TypeOK, WorkerPc, ProducerPc, Phase
  <2>2. QueueIsNewestSuffix'
    BY DEF TypeOK, QueueIsNewestSuffix, Newest, Holding
  <2>3. StaleInv'
    BY DEF TypeOK, StaleInv
  <2>4. ConfigureInv' /\ PhaseInv'
    BY DEF TypeOK, ConfigureInv, PhaseInv
  <2>5. StatsConserved'
    <3>1. CASE output_running_
      BY <3>1 DEF TypeOK, StatsConserved, StatsBalance, Holding
    <3>2. CASE ~output_running_
      BY <3>2, Zenon DEF StatsConserved
    <3> QED BY <3>1, <3>2
  <2> QED BY <2>1, <2>2, <2>3, <2>4, <2>5
<1>12. CASE HostAccept
  <2> USE <1>12 DEF HostAccept
  <2>1. TypeOK'
    BY DEF TypeOK, WorkerPc, ProducerPc, Phase
  <2>2. QueueIsNewestSuffix'
    BY DEF TypeOK, QueueIsNewestSuffix, Newest, Holding
  <2>3. StaleInv'
    BY DEF TypeOK, StaleInv
  <2>4. ConfigureInv' /\ PhaseInv'
    BY DEF TypeOK, ConfigureInv, PhaseInv
  <2>5. StatsConserved'
    BY DEF TypeOK, StatsConserved, StatsBalance, Holding
  <2> QED BY <2>1, <2>2, <2>3, <2>4, <2>5
<1>13. CASE HostRefuse
  <2> USE <1>13 DEF HostRefuse
  <2>1. TypeOK'
    BY DEF TypeOK, WorkerPc, ProducerPc, Phase
  <2>2. QueueIsNewestSuffix'
    BY DEF TypeOK, QueueIsNewestSuffix, Newest, Holding
  <2>3. StaleInv'
    BY DEF TypeOK, StaleInv
  <2>4. ConfigureInv' /\ PhaseInv'
    BY DEF TypeOK, ConfigureInv, PhaseInv
  <2>5. StatsConserved'
    BY DEF TypeOK, StatsConserved, StatsBalance, Holding
  <2> QED BY <2>1, <2>2, <2>3, <2>4, <2>5
<1>14. CASE WorkerCount
  <2> USE <1>14 DEF WorkerCount
  <2>1. TypeOK'
    BY SMTT(30) DEF TypeOK, WorkerPc, ProducerPc, Phase
  <2>2. QueueIsNewestSuffix'
    BY DEF TypeOK, QueueIsNewestSuffix, Newest, Holding
  <2>3. StaleInv'
    BY DEF TypeOK, StaleInv
  <2>4. ConfigureInv' /\ PhaseInv'
    BY DEF TypeOK, ConfigureInv, PhaseInv
  <2>5. StatsConserved'
    <3>1. CASE output_running_
      <4>1. /\ stats'.queued = stats.queued /\ stats'.drops = stats.drops
            /\ stats'.delivered = stats.delivered + 1
        BY <3>1 DEF TypeOK
      <4>2. SUFFICES ASSUME ppc \in {"idle", "pushed", "notify"}
                   PROVE  StatsBalance'
        BY Zenon DEF StatsConserved
      <4>3. StatsBalance
        BY <3>1, <4>2, Zenon DEF StatsConserved
      <4>4. /\ stats.queued \in Nat /\ stats.drops \in Nat
            /\ stats.delivered \in Nat /\ carried \in Nat /\ dropped \in Nat
            /\ Len(output_queue_) \in Nat
        BY DEF TypeOK
      <4>5. /\ wpc = "count" /\ wpc' = "wait"
            /\ UNCHANGED <<output_queue_, carried, ppc, dropped>>
        OBVIOUS
      <4>6. PICK q \in Nat, d \in Nat, v \in Nat, l \in Nat, k \in Nat,
                 u \in Nat, w \in Nat :
              /\ q = stats.queued /\ d = stats.drops /\ v = stats.delivered
              /\ l = Len(output_queue_) /\ k = carried
              /\ u = IF ppc = "pushed" THEN 1 ELSE 0
              /\ w = IF ppc = "pushed" THEN dropped ELSE 0
        BY ONLY <4>4
      <4>7. q + u + k = d + w + v + l + 1
        BY ONLY <4>3, <4>5, <4>6 DEF StatsBalance, Holding
      <4>8. q + u + k = d + w + (v + 1) + l + 0
        BY ONLY <4>7
      <4>9. ~Holding'
        BY ONLY <4>5 DEF Holding
      <4>10. /\ stats'.queued = q /\ stats'.drops = d
             /\ stats'.delivered = v + 1 /\ Len(output_queue_') = l
             /\ carried' = k /\ u = (IF ppc' = "pushed" THEN 1 ELSE 0)
             /\ w = (IF ppc' = "pushed" THEN dropped' ELSE 0)
        BY ONLY <4>1, <4>5, <4>6
      <4> QED BY ONLY <4>8, <4>9, <4>10 DEF StatsBalance
    <3>2. CASE ~output_running_
      BY <3>2, Zenon DEF StatsConserved
    <3> QED BY <3>1, <3>2
  <2> QED BY <2>1, <2>2, <2>3, <2>4, <2>5
<1>15. CASE SessionStart
  <2> USE <1>15 DEF SessionStart
  <2>1. TypeOK'
    BY DEF TypeOK, WorkerPc, ProducerPc, Phase
  <2>2. QueueIsNewestSuffix'
    BY DEF TypeOK, QueueIsNewestSuffix, Newest, Holding
  <2>3. StaleInv'
    BY DEF TypeOK, StaleInv
  <2>4. ConfigureInv' /\ PhaseInv'
    BY DEF TypeOK, ConfigureInv, PhaseInv
  <2>5. StatsConserved'
    BY DEF TypeOK, StatsConserved, StatsBalance, Holding
  <2> QED BY <2>1, <2>2, <2>3, <2>4, <2>5
<1>16. CASE SessionStop
  <2> USE <1>16 DEF SessionStop
  <2>1. TypeOK'
    BY DEF TypeOK, WorkerPc, ProducerPc, Phase
  <2>2. QueueIsNewestSuffix'
    BY DEF TypeOK, QueueIsNewestSuffix, Newest, Holding
  <2>3. StaleInv'
    BY DEF TypeOK, StaleInv
  <2>4. ConfigureInv' /\ PhaseInv'
    BY DEF TypeOK, ConfigureInv, PhaseInv
  <2>5. StatsConserved'
    BY DEF TypeOK, StatsConserved, StatsBalance, Holding
  <2> QED BY <2>1, <2>2, <2>3, <2>4, <2>5
<1>17. CASE StopFlag
  <2> USE <1>17 DEF StopFlag
  <2>1. TypeOK'
    BY DEF TypeOK, WorkerPc, ProducerPc, Phase
  <2>2. QueueIsNewestSuffix'
    BY DEF TypeOK, QueueIsNewestSuffix, Newest, Holding
  <2>3. StaleInv'
    BY DEF TypeOK, StaleInv
  <2>4. ConfigureInv' /\ PhaseInv'
    BY DEF TypeOK, ConfigureInv, PhaseInv
  <2>5. StatsConserved'
    BY Zenon DEF StatsConserved
  <2> QED BY <2>1, <2>2, <2>3, <2>4, <2>5
<1>18. CASE StopNotify
  <2> USE <1>18 DEF StopNotify, Woken
  <2>1. TypeOK'
    BY DEF TypeOK, WorkerPc, ProducerPc, Phase
  <2>2. QueueIsNewestSuffix'
    BY DEF TypeOK, QueueIsNewestSuffix, Newest, Holding
  <2>3. StaleInv'
    BY DEF TypeOK, StaleInv
  <2>4. ConfigureInv' /\ PhaseInv'
    BY DEF TypeOK, ConfigureInv, PhaseInv
  <2>5. StatsConserved'
    BY DEF TypeOK, StatsConserved, StatsBalance, Holding
  <2> QED BY <2>1, <2>2, <2>3, <2>4, <2>5
<1>19. CASE StopJoin
  <2> USE <1>19 DEF StopJoin
  <2>1. TypeOK'
    BY DEF TypeOK, WorkerPc, ProducerPc, Phase
  <2>2. QueueIsNewestSuffix'
    BY DEF TypeOK, QueueIsNewestSuffix, Newest, Holding
  <2>3. StaleInv'
    BY DEF TypeOK, StaleInv
  <2>4. ConfigureInv' /\ PhaseInv'
    BY DEF TypeOK, ConfigureInv, PhaseInv
  <2>5. StatsConserved'
    <3>1. ~output_running_
      BY DEF PhaseInv
    <3> QED BY <3>1, Zenon DEF StatsConserved
  <2> QED BY <2>1, <2>2, <2>3, <2>4, <2>5
<1>20. CASE UNCHANGED vars
  BY <1>20 DEF vars, TypeOK, QueueIsNewestSuffix, StaleInv, ConfigureInv,
     PhaseInv, StatsConserved, StatsBalance, Holding
<1> QED
  BY <1>1, <1>2, <1>3, <1>4, <1>5, <1>6, <1>7, <1>8, <1>9, <1>10, <1>11,
     <1>12, <1>13, <1>14, <1>15, <1>16, <1>17, <1>18, <1>19, <1>20
     DEF Next, Producer, Worker, WorkerOwn, HostReturns, Destructor

LEMMA Invariance == Spec => []IInv
BY InitIInv, NextIInv, PTL DEF Spec

(* Type correctness of the queue, the worker and the statistics. *)
THEOREM TypeCorrect == Spec => []TypeOK
BY Invariance, PTL DEF IInv

(* For every capacity the queue holds the newest frames in order, and no    *)
(* frame is replayed or overtaken.                                          *)
THEOREM QueueOrdered == Spec => []QueueIsNewestSuffix
BY Invariance, PTL DEF IInv

(* The statistics account for every frame. *)
THEOREM Conservation == Spec => []StatsConserved
BY Invariance, PTL DEF IInv

(* At most one frame of the previous session is accepted after a reset. *)
THEOREM StaleBounded == Spec => []StaleFramesBounded
<1>1. IInv => StaleFramesBounded
  BY DEF IInv, StaleInv, StaleFramesBounded
<1> QED BY <1>1, Invariance, PTL

-----------------------------------------------------------------------------

(* The steps that the abstract specification does not see. *)
LEMMA Stutters ==
    ASSUME IInv, [Next]_vars, ~EnqueuePush, ~ResetClear, ~HostAccept
    PROVE  UNCHANGED <<produced, lastAccepted, resetMark, late>>
BY DEF Next, Producer, Worker, WorkerOwn, HostReturns, Destructor, vars,
   producerVars, historyVars, EnqueueCount, EnqueueNotify,
   ResetStats, ConfigureStats, WorkerBlock, WorkerSpurious, WorkerExit,
   WorkerPop, WorkerCheck, HostRefuse, WorkerCount, SessionStart, SessionStop,
   StopFlag, StopNotify, StopJoin

(* A push produces, clearing the queue resets, an accepting callback        *)
(* accepts a frame in order, and every other step stutters.                 *)
LEMMA StepSimulation == IInv /\ [Next]_vars => [Promise!Next]_(Promise!vars)
<1> SUFFICES ASSUME IInv, [Next]_vars PROVE [Promise!Next]_(Promise!vars)
  OBVIOUS
<1>1. CASE EnqueuePush
  <2>1. Promise!Produce
    BY <1>1 DEF EnqueuePush, Promise!Produce, historyVars
  <2> QED BY <2>1 DEF Promise!Next
<1>2. CASE ResetClear
  <2>1. Promise!Reset
    BY <1>2 DEF ResetClear, Promise!Reset
  <2> QED BY <2>1 DEF Promise!Next
<1>3. CASE HostAccept
  <2>1. /\ frame \in (lastAccepted + 1)..produced
        /\ frame <= resetMark => late = 0
        /\ late \in Nat /\ resetMark \in Nat
    BY <1>3 DEF HostAccept, IInv, TypeOK, QueueIsNewestSuffix, Newest, StaleInv, Holding
  <2>2. /\ lastAccepted' = frame
        /\ late' = IF frame <= resetMark THEN late + 1 ELSE late
        /\ UNCHANGED <<produced, resetMark>>
    BY <1>3 DEF HostAccept, producerVars
  <2>3. \/ frame > resetMark /\ (late > 0)' = (late > 0)
        \/ frame <= resetMark /\ ~(late > 0) /\ (late > 0)' = TRUE
    BY <2>1, <2>2
  <2>4. Promise!Accept
    BY <2>1, <2>2, <2>3 DEF Promise!Accept
  <2> QED BY <2>4 DEF Promise!Next
<1>4. CASE ~EnqueuePush /\ ~ResetClear /\ ~HostAccept
  BY <1>4, Stutters DEF Promise!vars
<1> QED BY <1>1, <1>2, <1>3, <1>4

(* The output queue and its worker implement InOrderAudio: whatever the     *)
(* interleaving, the host accepts frames at most once and in order, and at  *)
(* most one late frame after a reset.                                       *)
THEOREM ImplementsInOrderAudio == Spec => InOrder
<1>1. Init => Promise!Init
  BY DEF Init, Promise!Init
<1> QED BY <1>1, Invariance, StepSimulation, PTL DEF Spec, InOrder, Promise!Spec

(* While the stream runs, the worker lets go of a frame it has taken off    *)
(* the queue only when the host has accepted it.                            *)
THEOREM FrameHeld == Spec => HeldUntilAccepted
<1>1. ASSUME PhaseInv, [Next]_vars, wpc \in {"check", "calling"},
             wpc' \notin {"check", "calling"}
      PROVE  lastAccepted' = frame \/ phase # "live"
  BY <1>1 DEF PhaseInv, Next, Producer, Worker, WorkerOwn, HostReturns,
     Destructor, vars, producerVars, historyVars, EnqueuePush, EnqueueCount,
     EnqueueNotify, Woken, ResetStats, ResetClear, ConfigureStats, WorkerBlock,
     WorkerSpurious, WorkerExit, WorkerPop, WorkerCheck, HostAccept, HostRefuse,
     WorkerCount, SessionStart, SessionStop, StopFlag, StopNotify,
     StopJoin
<1>2. PhaseInv /\ [Next]_vars =>
        [(wpc \in {"check", "calling"} /\ wpc' \notin {"check", "calling"})
            => (lastAccepted' = frame \/ phase # "live")]_vars
  BY <1>1
<1>3. IInv => PhaseInv
  BY DEF IInv
<1> QED BY <1>2, <1>3, Invariance, PTL DEF Spec, HeldUntilAccepted
=============================================================================
