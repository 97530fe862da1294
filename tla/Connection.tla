------------------------------- MODULE Connection -------------------------------
(***************************************************************************)
(* One connection: the framing of the requests that arrive (RtspFraming)    *)
(* and the control session that handles them (ControlSession), as the       *)
(* thread of handle_client runs the two (src/session/session.cpp).          *)
(***************************************************************************)
EXTENDS RtspFraming, ControlSession

(* What the parsers of the bodies give: a volume or none, and three RTP     *)
(* times of type uint64_t or none.                                          *)
Contents(c) ==
    c.kind = "text" =>
        /\ c.volume \in Seq(Int) /\ Len(c.volume) \in {0, 1}
        /\ c.progress \in Seq(0..(Word - 1)) /\ Len(c.progress) \in {0, 3}
ASSUME ContentsAssumption == \A r \in Requests : Contents(r.content)

vars == <<framingVars, controlVars>>

Init == FramingInit /\ ControlInit

HandleRequest == Take /\ handle(Parsed)
SendRequest == Send /\ UNCHANGED controlVars
ReceiveSome == Receive /\ UNCHANGED controlVars
WaitForMore == Wait /\ UNCHANGED controlVars
Leave == ConnectionEnds /\ UNCHANGED controlVars

Next == HandleRequest \/ SendRequest \/ ReceiveSome \/ WaitForMore \/ Leave

Spec == Init /\ [][Next]_vars

-----------------------------------------------------------------------------
(* Properties *)

(* A sender whose heads are in order and tell the length of the bodies. *)
WellFormed(r) == r.line = "ok" /\ r.content_length = r.body /\ r.body + 2 < SizeWord
Faithful == \A n \in DOMAIN sent : WellFormed(sent[n])

(* However the requests of such a sender are cut into chunks, they are      *)
(* handled one by one, whole and in order, and when the thread waits for    *)
(* more there is none left that had wholly arrived.                         *)
ServedInOrder ==
    Faithful =>
        /\ handled = SubSeq(sent, 1, Len(handled))
        /\ from = IF handled = <<>> THEN 0 ELSE ends[Len(handled)]
        /\ pc = "recv" => \A n \in DOMAIN sent : ends[n] <= to => n <= Len(handled)

-----------------------------------------------------------------------------
(* The state of the control session, told from the requests it handled *)

IsFpSetup(r) == r.route = "POST /fp-setup" /\ FpSetupAccepted(r.content)
IsFpHandshake(r) == r.route = "POST /fp-setup" /\ FpHandshakeAccepted(r.content)

(* Of the last request handled that was accepted. *)
AcceptedMode ==
    LET found == {n \in DOMAIN handled : IsFpSetup(handled[n])}
    IN IF found = {} THEN 0 ELSE handled[Max(found)].content.mode
AcceptedMessage ==
    LET found == {n \in DOMAIN handled : IsFpHandshake(handled[n])}
    IN IF found = {} THEN "none" ELSE handled[Max(found)].content.message

(* When keys are handed on, they come with the mode and the key message of  *)
(* the last fp-setup requests that were accepted on this connection: one    *)
(* that was refused in between changes neither.                             *)
KeysUseHandshake ==
    [][told'.crypto # told.crypto =>
         told'.crypto = CryptoInfo(AcceptedMode, AcceptedMessage)]_vars

(* What the host is told is right whatever the requests before.  A classic  *)
(* SETUP hands on the stream as it was announced last: a port of an earlier *)
(* SETUP does not stay behind.  RTP times are divided by a sample rate that *)
(* is never 0, and positions and durations are those of times in order, or  *)
(* 0.  The volume that GET_PARAMETER answers is the one the host was told   *)
(* last by this connection, by whichever of the three requests, and is one  *)
(* it can apply.  (Each connection keeps a volume of its own: what another  *)
(* one told the host is not answered here.)                                 *)
ReportsRight ==
    /\ announced_stream_ # Nothing => announced_stream_.client_control_port = 0
    /\ stream_sample_rate_ # 0
    /\ told.progress # Nothing =>
           LET t == told.progress.times
           IN /\ told.progress.position <= (IF t[2] >= t[1] THEN t[2] - t[1] ELSE 0)
              /\ t[2] <= t[3] => told.progress.position <= told.progress.duration
    /\ current_volume_db_ = told.volume
    /\ told.volume # initial_volume_db => told.volume \in -3000..0
=============================================================================
