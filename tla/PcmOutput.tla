------------------------------ MODULE PcmOutput ------------------------------
(***************************************************************************)
(* The PCM output of RaopAudioDecryptor (src/audio/raop_audio_decryptor):  *)
(* a bounded queue of decoded frames that a producer fills and an output   *)
(* thread drains by offering each frame to the host's audio callback until *)
(* the host accepts it.                                                    *)
(*                                                                         *)
(* Three threads meet here.                                                *)
(*   producer - whichever library thread holds Session::mutex: the UDP     *)
(*              thread inside enqueue_pcm, or an RTSP client thread inside *)
(*              reset() followed by configure_crypto().  Session::mutex    *)
(*              serialises them, so one program counter ppc describes all. *)
(*   worker   - output_loop(), which never takes Session::mutex.           *)
(*   host     - calls Session::start() and stop(), destroys the session,   *)
(*              and answers the callback.                                  *)
(* output_mutex_ and stats_mutex_ are different locks, so every critical   *)
(* section of either is a step of its own and the others interleave.       *)
(* output_running_ is a plain bool that the worker also reads without a    *)
(* lock (lines 323 and 331); the reads sit next to an opaque callback and  *)
(* mutex operations, so a build reloads it each time and a read sees the   *)
(* value before or after the one write that races with it.                 *)
(*                                                                         *)
(* A frame is the number of its production: its samples do not matter to   *)
(* the properties.  The retry counter of the statistics is left out.       *)
(***************************************************************************)
EXTENDS Integers, Sequences

CONSTANTS
    kMaxQueuedPcmFrames,    \* capacity of the queue (256 in the code)
    MaxFrames               \* bound: number of frames the decoder produces

ASSUME CapacityAssumption == kMaxQueuedPcmFrames \in Nat \ {0}
ASSUME MaxFramesAssumption == MaxFrames \in Nat

VARIABLES
    output_queue_,      \* frames waiting, oldest first
    output_running_,    \* worker keep-going flag
    wpc,                \* where the worker is
    frame,              \* the frame the worker holds (last held one if none)
    ppc,                \* where the producer is
    dropped,            \* local of enqueue_pcm: frames this push dropped
    stats,              \* audio_frames_queued, audio_queue_drops, ..._delivered
    phase,              \* where the host is in the life of the session
    produced,           \* history: frames produced so far
    lastAccepted,       \* history: last frame the host accepted
    resetMark,          \* history: frames produced before the last reset()
    late,               \* history: frames up to resetMark accepted after it
    carried             \* history: frame held when the statistics were zeroed

producerVars == <<ppc, dropped, produced>>
historyVars == <<lastAccepted, resetMark, late, carried>>
vars == <<output_queue_, output_running_, wpc, frame, ppc, dropped, stats,
          phase, produced, lastAccepted, resetMark, late, carried>>

WorkerPc == {"wait", "blocked", "check", "calling", "count", "exited"}
ProducerPc == {"idle", "pushed", "notify", "clear", "configure"}
Phase == {"stopped", "live", "flagged", "notified", "destroyed"}

ZeroStats == [queued |-> 0, drops |-> 0, delivered |-> 0]

(* The worker has taken a frame off the queue and not yet accounted for it. *)
Holding == wpc \in {"check", "calling", "count"}

(***************************************************************************)
(* Construction: Impl's constructor installs the audio callback, which     *)
(* starts the worker.  The session has not been started yet.               *)
(***************************************************************************)
Init ==
    /\ output_queue_ = << >>
    /\ output_running_ = TRUE
    /\ wpc = "wait"
    /\ frame = 0
    /\ ppc = "idle"
    /\ dropped = 0
    /\ stats = ZeroStats
    /\ phase = "stopped"
    /\ produced = 0
    /\ lastAccepted = 0
    /\ resetMark = 0
    /\ late = 0
    /\ carried = 0

-----------------------------------------------------------------------------
(* The producer: enqueue_pcm. *)

(* Mutant: the capacity test is off by one. *)
PushOffByOne(q, f) ==
    Append(IF Len(q) > kMaxQueuedPcmFrames THEN Tail(q) ELSE q, f)

(* The queue after pushing f, the oldest frame making room when it is full. *)
PushDroppingOldest(q, f) ==
    Append(IF Len(q) >= kMaxQueuedPcmFrames THEN Tail(q) ELSE q, f)

EnqueuePush ==
    /\ ppc = "idle" /\ phase = "live" /\ produced < MaxFrames
    /\ output_queue_' = PushDroppingOldest(output_queue_, produced + 1)
    /\ dropped' = IF Len(output_queue_) >= kMaxQueuedPcmFrames THEN 1 ELSE 0
    /\ produced' = produced + 1
    /\ ppc' = "pushed"
    /\ UNCHANGED <<output_running_, wpc, frame, stats, phase, historyVars>>

(* Mutant: a push that dropped a frame counts the drop only. *)
EnqueueCountEither ==
    /\ ppc = "pushed"
    /\ stats' = IF dropped = 1 THEN [stats EXCEPT !.drops = @ + 1]
                              ELSE [stats EXCEPT !.queued = @ + 1]
    /\ ppc' = "notify"
    /\ UNCHANGED <<output_queue_, output_running_, wpc, frame, dropped,
                   produced, phase, historyVars>>

EnqueueCount ==
    /\ ppc = "pushed"
    /\ stats' = [stats EXCEPT !.queued = @ + 1,
                              !.drops = @ + dropped]
    /\ ppc' = "notify"
    /\ UNCHANGED <<output_queue_, output_running_, wpc, frame, dropped,
                   produced, phase, historyVars>>

(* output_cv_.notify_one() and notify_all(): the worker is the only waiter. *)
Woken == IF wpc = "blocked" THEN "wait" ELSE wpc

(* Mutant: notify_one() is forgotten. *)
EnqueueNoNotify ==
    /\ ppc = "notify"
    /\ ppc' = "idle"
    /\ UNCHANGED <<output_queue_, output_running_, wpc, frame, dropped, stats,
                   produced, phase, historyVars>>

EnqueueNotify ==
    /\ ppc = "notify"
    /\ wpc' = Woken
    /\ ppc' = "idle"
    /\ UNCHANGED <<output_queue_, output_running_, frame, dropped, stats,
                   produced, phase, historyVars>>

(* The producer: reset() and then configure_crypto(), from a sender's SETUP. *)

ResetStats ==
    /\ ppc = "idle" /\ phase = "live"
    /\ stats' = ZeroStats
    /\ ppc' = "clear"
    /\ UNCHANGED <<output_queue_, output_running_, wpc, frame, dropped,
                   produced, phase, historyVars>>

(* Mutant: reset() does not clear the queue. *)
ResetKeepsQueue ==
    /\ ppc = "clear"
    /\ resetMark' = produced
    /\ late' = 0
    /\ ppc' = "configure"
    /\ UNCHANGED <<output_queue_, output_running_, wpc, frame, dropped, stats,
                   produced, phase, lastAccepted, carried>>

ResetClear ==
    /\ ppc = "clear"
    /\ output_queue_' = << >>
    /\ resetMark' = produced
    /\ late' = 0
    /\ ppc' = "configure"
    /\ UNCHANGED <<output_running_, wpc, frame, dropped, stats, produced,
                   phase, lastAccepted, carried>>

ConfigureStats ==
    /\ ppc = "configure"
    /\ stats' = ZeroStats
    /\ carried' = IF Holding THEN 1 ELSE 0
    /\ ppc' = "idle"
    /\ UNCHANGED <<output_queue_, output_running_, wpc, frame, dropped,
                   produced, phase, lastAccepted, resetMark, late>>

Producer ==
    \/ EnqueuePush \/ EnqueueCount \/ EnqueueNotify
    \/ ResetStats \/ ResetClear \/ ConfigureStats

-----------------------------------------------------------------------------
(* The worker: output_loop. *)

WorkerBlock ==
    /\ wpc = "wait" /\ output_running_ /\ output_queue_ = << >>
    /\ wpc' = "blocked"
    /\ UNCHANGED <<output_queue_, output_running_, frame, stats,
                   producerVars, phase, historyVars>>

(* A condition variable may wake its waiter without a notification. *)
WorkerSpurious ==
    /\ wpc = "blocked"
    /\ wpc' = "wait"
    /\ UNCHANGED <<output_queue_, output_running_, frame, stats,
                   producerVars, phase, historyVars>>

WorkerExit ==
    /\ wpc = "wait" /\ ~output_running_ /\ output_queue_ = << >>
    /\ wpc' = "exited"
    /\ UNCHANGED <<output_queue_, output_running_, frame, stats,
                   producerVars, phase, historyVars>>

WorkerPop ==
    /\ wpc = "wait" /\ output_queue_ # << >>
    /\ frame' = Head(output_queue_)
    /\ output_queue_' = Tail(output_queue_)
    /\ wpc' = "check"
    /\ UNCHANGED <<output_running_, stats, producerVars, phase, historyVars>>

(* Mutant: the retry loop does not look at output_running_. *)
WorkerCheckNever ==
    /\ wpc = "check"
    /\ wpc' = "calling"
    /\ UNCHANGED <<output_queue_, output_running_, frame, stats,
                   producerVars, phase, historyVars>>

WorkerCheck ==
    /\ wpc = "check"
    /\ wpc' = IF output_running_ THEN "calling" ELSE "count"
    /\ UNCHANGED <<output_queue_, output_running_, frame, stats,
                   producerVars, phase, historyVars>>

(* The callback returns true ... *)
HostAccept ==
    /\ wpc = "calling"
    /\ wpc' = "count"
    /\ lastAccepted' = frame
    /\ late' = IF frame <= resetMark THEN late + 1 ELSE late
    /\ UNCHANGED <<output_queue_, output_running_, frame, stats,
                   producerVars, phase, resetMark, carried>>

(* Mutant: a refused frame is not retried. *)
HostRefuseGivesUp ==
    /\ wpc = "calling"
    /\ wpc' = "count"
    /\ UNCHANGED <<output_queue_, output_running_, frame, stats,
                   producerVars, phase, historyVars>>

(* Mutant: a refused frame goes back to the end of the queue. *)
HostRefuseRequeues ==
    /\ wpc = "calling"
    /\ wpc' = "wait"
    /\ output_queue_' = Append(output_queue_, frame)
    /\ UNCHANGED <<output_running_, frame, stats,
                   producerVars, phase, historyVars>>

(* ... or false: the worker sleeps and goes round its retry loop. *)
HostRefuse ==
    /\ wpc = "calling"
    /\ wpc' = "check"
    /\ UNCHANGED <<output_queue_, output_running_, frame, stats,
                   producerVars, phase, historyVars>>

WorkerCount ==
    /\ wpc = "count"
    /\ stats' = IF output_running_ THEN [stats EXCEPT !.delivered = @ + 1]
                                   ELSE stats
    /\ wpc' = "wait"
    /\ UNCHANGED <<output_queue_, output_running_, frame,
                   producerVars, phase, historyVars>>

HostReturns == HostAccept \/ HostRefuse

WorkerOwn == WorkerBlock \/ WorkerExit \/ WorkerPop \/ WorkerCheck \/ WorkerCount

Worker == WorkerOwn \/ HostReturns \/ WorkerSpurious

-----------------------------------------------------------------------------
(* The host. *)

(* Session::start() and stop().  stop() joins the client and UDP threads, so *)
(* it returns with no producer under way; it does not touch the worker.      *)
SessionStart ==
    /\ phase = "stopped"
    /\ phase' = "live"
    /\ UNCHANGED <<output_queue_, output_running_, wpc, frame, stats,
                   producerVars, historyVars>>

SessionStop ==
    /\ phase = "live" /\ ppc = "idle"
    /\ phase' = "stopped"
    /\ UNCHANGED <<output_queue_, output_running_, wpc, frame, stats,
                   producerVars, historyVars>>

(* ~RaopAudioDecryptor, run when the host destroys a stopped session:       *)
(* stop_output_worker clears the flag, notifies, joins, clears the queue.   *)
StopFlag ==
    /\ phase = "stopped"
    /\ output_running_' = FALSE
    /\ phase' = "flagged"
    /\ UNCHANGED <<output_queue_, wpc, frame, stats, producerVars,
                   historyVars>>

StopNotify ==
    /\ phase = "flagged"
    /\ wpc' = Woken
    /\ phase' = "notified"
    /\ UNCHANGED <<output_queue_, output_running_, frame, stats, producerVars,
                   historyVars>>

StopJoin ==
    /\ phase = "notified" /\ wpc = "exited"
    /\ output_queue_' = << >>
    /\ phase' = "destroyed"
    /\ UNCHANGED <<output_running_, wpc, frame, stats, producerVars,
                   historyVars>>

Destructor == StopFlag \/ StopNotify \/ StopJoin

Next == Producer \/ Worker \/ SessionStart \/ SessionStop \/ Destructor

Spec == Init /\ [][Next]_vars

(* Threads that have work keep running, a callback returns, a producer that *)
(* has entered enqueue_pcm or reset() leaves it, and so does the destructor *)
(* once it has been entered.  Nothing obliges senders or the host to act.   *)
Fairness ==
    /\ WF_vars(WorkerOwn)
    /\ WF_vars(HostReturns)
    /\ WF_vars(EnqueueCount \/ EnqueueNotify \/ ResetClear \/ ConfigureStats)
    /\ WF_vars(StopNotify \/ StopJoin)

FairSpec == Spec /\ Fairness

-----------------------------------------------------------------------------
(* Properties *)

TypeOK ==
    /\ output_queue_ \in Seq(Nat)
    /\ output_running_ \in BOOLEAN
    /\ wpc \in WorkerPc
    /\ frame \in Nat
    /\ ppc \in ProducerPc
    /\ dropped \in 0..1
    /\ stats \in [queued : Nat, drops : Nat, delivered : Nat]
    /\ phase \in Phase
    /\ produced \in Nat
    /\ lastAccepted \in Nat
    /\ resetMark \in Nat
    /\ late \in Nat
    /\ carried \in 0..1

(* q holds the newest of the frames 1..n, in order, within the capacity. *)
Newest(q, n) ==
    /\ Len(q) <= kMaxQueuedPcmFrames
    /\ Len(q) <= n
    /\ \A i \in 1..Len(q) : q[i] = n - Len(q) + i

(* The queue is bounded and always holds the newest frames in their order,  *)
(* without a gap: overflow sheds from the old end only, and the frame the   *)
(* worker holds is older than every queued one and, until it is accepted,   *)
(* newer than every accepted one, so no frame is replayed or overtaken.     *)
QueueIsNewestSuffix ==
    /\ Newest(output_queue_, produced)
    /\ Holding => frame <= produced - Len(output_queue_)
    /\ wpc \in {"check", "calling"} => lastAccepted < frame
    /\ lastAccepted <= produced - Len(output_queue_)

(* The equation between the counters, the queue and the worker's hands. *)
StatsBalance ==
    LET uncounted == IF ppc = "pushed" THEN 1 ELSE 0
        undropped == IF ppc = "pushed" THEN dropped ELSE 0
        held      == IF Holding THEN 1 ELSE 0
    IN  stats.queued + uncounted + carried =
          stats.drops + undropped + stats.delivered + Len(output_queue_) + held

(* The statistics account for every frame although the queue and the        *)
(* counters are guarded by different mutexes: frames queued are dropped,    *)
(* delivered, still waiting or in the worker's hands.  A frame pushed and   *)
(* not yet counted, and one the worker held when configure_crypto zeroed    *)
(* the counters, are the only exceptions.                                   *)
StatsConserved ==
    (output_running_ /\ ppc \in {"idle", "pushed", "notify"}) => StatsBalance

(* After reset() has cleared the queue, at most the one frame the worker    *)
(* was holding reaches the host from the previous session.                  *)
StaleFramesBounded == late <= 1

(* "the same frame is retried until accepted or the stream stops"           *)
(* (airplayc.h:77-78), its first half: while the stream runs, the worker    *)
(* lets go of a frame it has taken off the queue only when the host has     *)
(* accepted it.                                                             *)
HeldUntilAccepted ==
    [][(wpc \in {"check", "calling"} /\ wpc' \notin {"check", "calling"})
        => (lastAccepted' = frame \/ phase # "live")]_vars

(* The output implements the abstract promise to the host. *)
Promise == INSTANCE InOrderAudio WITH late <- (late > 0)
InOrder == Promise!Spec

(* A frame that is queued or held. *)
InFlight(id) ==
    \/ \E i \in 1..Len(output_queue_) : output_queue_[i] = id
    \/ wpc \in {"check", "calling"} /\ frame = id

(* No frame is stuck: if the host does not refuse forever the frame that it *)
(* is offered again and again, each frame that is queued or held leaves,    *)
(* accepted, shed or discarded.  A wake-up lost between push and wait would *)
(* break this.                                                              *)
FramesSettle ==
    SF_vars(HostAccept) =>
        \A id \in 1..MaxFrames : InFlight(id) ~> ~InFlight(id)

(* Destroying the session terminates even if the host refuses every frame.  *)
DestructorReturns == phase = "flagged" ~> phase = "destroyed"

(* The second half of that sentence: when the stream has stopped, that is,  *)
(* Session::stop() has returned, the worker starts no further callback.     *)
(* stop() leaves the worker running, so it does.                            *)
NoCallbackAfterStop ==
    [][(wpc' = "calling" /\ wpc # "calling") => phase = "live"]_vars
=============================================================================
