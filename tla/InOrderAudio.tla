---------------------------- MODULE InOrderAudio ----------------------------
(***************************************************************************)
(* What the audio output of the receiver promises the host that supplied   *)
(* the audio callback (AudioCallback in include/airplayc/airplayc.h).      *)
(* Decoded frames are numbered in the order in which they are produced.    *)
(* The host accepts each frame at most once and in order of production;    *)
(* frames may be skipped, never replayed.  After a new sender has set up   *)
(* its session, at most one frame of the previous session may still be     *)
(* accepted: the one the output thread was offering at that moment.        *)
(***************************************************************************)
EXTENDS Naturals

VARIABLES
    produced,       \* number of frames decoded so far
    lastAccepted,   \* number of the last frame the host accepted, 0 if none
    resetMark,      \* frames up to this one belong to an earlier session
    late            \* a frame of an earlier session was accepted since the reset

vars == <<produced, lastAccepted, resetMark, late>>

Init ==
    /\ produced = 0
    /\ lastAccepted = 0
    /\ resetMark = 0
    /\ late = FALSE

(* A packet of the current session has been decoded. *)
Produce ==
    /\ produced' = produced + 1
    /\ UNCHANGED <<lastAccepted, resetMark, late>>

(* A sender sets up a new session: what was decoded before is obsolete. *)
Reset ==
    /\ resetMark' = produced
    /\ late' = FALSE
    /\ UNCHANGED <<produced, lastAccepted>>

(* The host accepts a frame newer than every frame it accepted before. *)
Accept ==
    \E id \in (lastAccepted + 1)..produced :
        /\ lastAccepted' = id
        /\ \/ id > resetMark /\ late' = late
           \/ id <= resetMark /\ ~late /\ late' = TRUE
        /\ UNCHANGED <<produced, resetMark>>

Next == Produce \/ Reset \/ Accept

Spec == Init /\ [][Next]_vars
=============================================================================
