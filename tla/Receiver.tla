------------------------------- MODULE Receiver -------------------------------
(***************************************************************************)
(* What the requests of connected senders and the RTP packets do to the    *)
(* session: the request handlers of ControlSession (src/raop/raop_control),*)
(* one instance per connection; the callbacks by which Session::Impl       *)
(* applies them to the one RaopAudioDecryptor and to its playback state    *)
(* (src/session/session.cpp); and the packet path of the decryptor up to   *)
(* the decoded frame (src/audio).                                          *)
(*                                                                         *)
(* Every connection has a thread, and one more thread receives packets.    *)
(* A handler touches shared state in at most one callback, which holds     *)
(* Session::mutex, as the packet callback does; so one handler is one      *)
(* action.  The remote-control address that every request also leaves is   *)
(* the subject of module DacpClient.                                       *)
(*                                                                         *)
(* Keys and streams are named by the serial number of the ANNOUNCE or      *)
(* SETUP that installed them; 0 is "none".  A packet carries the number of *)
(* the key its sender used.  Session's copies session_crypto and           *)
(* audio_stream are never read and are left out; so are the counters, and  *)
(* what volume, progress, metadata and artwork requests tell the host.     *)
(***************************************************************************)
EXTENDS Integers

CONSTANTS
    Clients,        \* senders
    NoClient,       \* not a sender
    MaxSetups       \* bound: successful set-ups of keys or streams

ASSUME NoClientAssumption == NoClient \notin Clients
ASSUME MaxSetupsAssumption == MaxSetups \in Nat

VARIABLES
    connected,          \* senders with a connection
    key_message,        \* senders whose FairPlay handshake has been stored
    announced,          \* senders with have_announced_stream_
    playback_active_,   \* senders whose ControlSession saw RECORD
    crypto_,            \* decryptor: current session keys, 0 if !have_crypto_
    aes_key_,           \* decryptor: unwrapped FairPlay key, or 0
    direct_stream_key_, \* decryptor: group key, or 0
    stream_,            \* decryptor: current stream, NoStream if !have_stream_
    alac_decoder_,      \* decryptor: is the ALAC decoder configured?
    playback_active,    \* Session::Impl::playback_active
    last_error,         \* Session::Impl::last_error
    keyed,              \* history: senders that set up keys on this connection
    serial,             \* history: number of the last set-up
    owner,              \* history: the sender of each set-up
    exclusive,          \* history: has one sender at a time been connected?
    orderly,            \* history: has each stream come from a keyed sender?
    tidy                \* history: has each RECORD been torn down before its
                        \* sender left, and each packet come during a RECORD?

clientVars == <<connected, key_message, announced, playback_active_, keyed>>
decryptorVars == <<crypto_, aes_key_, direct_stream_key_, stream_,
                   alac_decoder_, serial, owner>>
conductVars == <<exclusive, orderly, tidy>>
vars == <<clientVars, decryptorVars, playback_active, conductVars, last_error>>

NoStream == [id |-> 0, shk |-> FALSE]

Init ==
    /\ connected = {} /\ keyed = {}
    /\ key_message = {} /\ announced = {} /\ playback_active_ = {}
    /\ crypto_ = 0 /\ aes_key_ = 0 /\ direct_stream_key_ = 0
    /\ stream_ = NoStream
    /\ alac_decoder_ = FALSE
    /\ serial = 0
    /\ owner = [n \in 1..MaxSetups |-> NoClient]
    /\ exclusive = TRUE /\ orderly = TRUE /\ tidy = TRUE
    /\ playback_active = FALSE
    /\ last_error = "None"

-----------------------------------------------------------------------------
(* Connections *)

(* handle_client starts with a fresh ControlSession. *)
Connect(c) ==
    /\ c \notin connected
    /\ connected' = connected \cup {c}
    /\ exclusive' = (exclusive /\ connected = {})
    /\ UNCHANGED <<key_message, announced, playback_active_, keyed,
                   decryptorVars, playback_active, orderly, tidy, last_error>>

(* The connection ends and its ControlSession with it.  Nothing that is     *)
(* shared notices: keys, stream and playback_active stay.                   *)
Disconnect(c) ==
    /\ c \in connected
    /\ connected' = connected \ {c}
    /\ key_message' = key_message \ {c}
    /\ announced' = announced \ {c}
    /\ playback_active_' = playback_active_ \ {c}
    /\ keyed' = keyed \ {c}
    /\ tidy' = (tidy /\ c \notin playback_active_)
    /\ UNCHANGED <<decryptorVars, playback_active, exclusive, orderly, last_error>>

-----------------------------------------------------------------------------
(* What Session's callbacks do. *)

(* Number the set-up that sender c makes (history and bound). *)
Number(c) ==
    /\ serial < MaxSetups
    /\ serial' = serial + 1
    /\ owner' = [owner EXCEPT ![serial + 1] = c]

(* Mutant: a group key leaves an unwrapped key of the session before.       *)
InstallKeysKeeping(c, group, fairplay) ==
    /\ Number(c)
    /\ crypto_' = serial + 1
    /\ direct_stream_key_' = IF group THEN serial + 1 ELSE 0
    /\ aes_key_' = IF fairplay THEN serial + 1 ELSE aes_key_
    /\ stream_' = NoStream
    /\ UNCHANGED alac_decoder_

(* Mutant: keys are configured without the reset() before. *)
InstallKeysNoReset(c, group, fairplay) ==
    /\ Number(c)
    /\ crypto_' = serial + 1
    /\ direct_stream_key_' = IF group THEN serial + 1 ELSE 0
    /\ aes_key_' = IF fairplay THEN serial + 1 ELSE 0
    /\ UNCHANGED <<stream_, alac_decoder_>>

(* on_session_crypto: reset() and then configure_crypto().  A group key is  *)
(* used as it is; otherwise the FairPlay key is unwrapped if that succeeds. *)
(* The ALAC decoder survives reset().                                       *)
InstallKeys(c, group, fairplay) ==
    /\ Number(c)
    /\ crypto_' = serial + 1
    /\ direct_stream_key_' = IF group THEN serial + 1 ELSE 0
    /\ aes_key_' = IF fairplay THEN serial + 1 ELSE 0
    /\ stream_' = NoStream
    /\ UNCHANGED alac_decoder_

(* on_audio_stream: configure_stream(), which configures the ALAC decoder   *)
(* for an ALAC stream; if that fails the decoder stays as it was.           *)
InstallStream(c, alac, shk) ==
    /\ Number(c)
    /\ stream_' = [id |-> serial + 1, shk |-> shk]
    /\ \/ alac /\ alac_decoder_' = TRUE
       \/ UNCHANGED alac_decoder_
    /\ UNCHANGED <<crypto_, aes_key_, direct_stream_key_>>

(* The host is sent PlaybackStarted or PlaybackStopped, in the same critical *)
(* section, if this changes the flag.                                       *)
mark_playback_started == playback_active' = TRUE
mark_playback_stopped == playback_active' = FALSE

-----------------------------------------------------------------------------
(* ControlSession::handle, one action per method with an effect. *)

(* POST /fp-setup with a handshake: stored for the unwrapping. *)
HandleFpSetup(c) ==
    /\ c \in connected
    /\ key_message' = key_message \cup {c}
    /\ UNCHANGED <<connected, announced, playback_active_, keyed,
                   decryptorVars, playback_active, conductVars, last_error>>

(* The FairPlay key can be unwrapped only after the handshake, and the      *)
(* unwrapping may fail on what the request carries.                         *)
Unwraps(c) == IF c \in key_message THEN BOOLEAN ELSE {FALSE}

(* ANNOUNCE: keys now, the announced stream with the SETUP that follows. *)
HandleAnnounce(c) ==
    /\ c \in connected
    /\ announced' = announced \cup {c}
    /\ keyed' = keyed \cup {c}
    /\ \E fairplay \in Unwraps(c) : InstallKeys(c, FALSE, fairplay)
    /\ UNCHANGED <<connected, key_message, playback_active_, playback_active,
                   conductVars, last_error>>

(* SETUP whose property list holds session keys: a group key, or keys to    *)
(* unwrap.                                                                  *)
HandleSetupSession(c) ==
    /\ c \in connected
    /\ keyed' = keyed \cup {c}
    /\ \/ InstallKeys(c, TRUE, FALSE)
       \/ \E fairplay \in Unwraps(c) : InstallKeys(c, FALSE, fairplay)
    /\ UNCHANGED <<connected, key_message, announced, playback_active_,
                   playback_active, conductVars, last_error>>

(* SETUP whose property list describes a stream, with its own key or not. *)
HandleSetupStream(c) ==
    /\ c \in connected
    /\ \E alac, shk \in BOOLEAN : InstallStream(c, alac, shk)
    /\ orderly' = (orderly /\ c \in keyed)
    /\ UNCHANGED <<clientVars, playback_active, exclusive, tidy, last_error>>

(* SETUP with a Transport header: the announced ALAC stream of this sender. *)
HandleSetupClassic(c) ==
    /\ c \in connected
    /\ c \in announced
    /\ InstallStream(c, TRUE, FALSE)
    /\ UNCHANGED <<clientVars, playback_active, conductVars, last_error>>

(* Mutant: RECORD leaves the marking to the first packet. *)
HandleRecordSilent(c) ==
    /\ c \in connected
    /\ playback_active_' = playback_active_ \cup {c}
    /\ UNCHANGED <<connected, key_message, announced, keyed, decryptorVars,
                   playback_active, conductVars, last_error>>

HandleRecord(c) ==
    /\ c \in connected
    /\ IF c \in playback_active_ THEN UNCHANGED playback_active
                                 ELSE mark_playback_started
    /\ playback_active_' = playback_active_ \cup {c}
    /\ UNCHANGED <<connected, key_message, announced, keyed, decryptorVars,
                   conductVars, last_error>>

(* Mutant: TEARDOWN ends the playback of the connection only. *)
HandleTeardownSilent(c) ==
    /\ c \in connected
    /\ playback_active_' = playback_active_ \ {c}
    /\ UNCHANGED <<connected, key_message, announced, keyed, decryptorVars,
                   playback_active, conductVars, last_error>>

HandleTeardown(c) ==
    /\ c \in connected
    /\ mark_playback_stopped
    /\ playback_active_' = playback_active_ \ {c}
    /\ UNCHANGED <<connected, key_message, announced, keyed, decryptorVars,
                   conductVars, last_error>>

(* A malformed fp-setup, ANNOUNCE or stream SETUP, a pairing request or an  *)
(* unknown method: the error is reported and nothing else changes.  (All    *)
(* other requests, a malformed session SETUP included, change none of this  *)
(* state.)                                                                  *)
HandleRefused(c) ==
    /\ c \in connected
    /\ last_error' = "ProtocolError"
    /\ UNCHANGED <<clientVars, decryptorVars, playback_active, conductVars>>

Handle(c) ==
    \/ HandleFpSetup(c) \/ HandleAnnounce(c) \/ HandleSetupSession(c)
    \/ HandleSetupStream(c) \/ HandleSetupClassic(c)
    \/ HandleRecord(c) \/ HandleTeardown(c) \/ HandleRefused(c)

-----------------------------------------------------------------------------
(* Packets *)

(* The key that the authenticated cipher uses: the stream's own key first.  *)
stream_key == IF stream_.shk THEN stream_.id ELSE direct_stream_key_

(* A packet encrypted under key k can yield a decoded ALAC frame: ChaCha20- *)
(* Poly1305 accepts its own key only; AES-CBC accepts anything, and what    *)
(* comes out under a wrong key may or may not pass for an ALAC frame.       *)
Decodes(k) ==
    /\ crypto_ # 0 /\ stream_ # NoStream
    /\ IF stream_key # 0 THEN k = stream_key ELSE aes_key_ # 0
    /\ alac_decoder_

(* A packet that decodes marks the playback as started.  Every other packet *)
(* only changes counters.                                                   *)
PacketDecoded ==
    /\ \E k \in 1..serial : Decodes(k)
    /\ mark_playback_started
    /\ tidy' = (tidy /\ playback_active_ # {})
    /\ UNCHANGED <<clientVars, decryptorVars, exclusive, orderly, last_error>>

Next ==
    \/ \E c \in Clients : Connect(c) \/ Disconnect(c) \/ Handle(c)
    \/ PacketDecoded

Spec == Init /\ [][Next]_vars

-----------------------------------------------------------------------------
(* Properties *)

(* The types, and that a ControlSession keeps state only while its          *)
(* connection lasts.                                                        *)
TypeOK ==
    /\ connected \subseteq Clients
    /\ key_message \subseteq connected
    /\ announced \subseteq connected
    /\ playback_active_ \subseteq connected
    /\ keyed \subseteq connected
    /\ serial \in 0..MaxSetups
    /\ owner \in [1..MaxSetups -> Clients \cup {NoClient}]
    /\ crypto_ \in 0..serial
    /\ aes_key_ \in 0..serial
    /\ direct_stream_key_ \in 0..serial
    /\ stream_ \in [id : 0..serial, shk : BOOLEAN]
    /\ alac_decoder_ \in BOOLEAN
    /\ playback_active \in BOOLEAN
    /\ exclusive \in BOOLEAN /\ orderly \in BOOLEAN /\ tidy \in BOOLEAN
    /\ last_error \in {"None", "ProtocolError"}

(* A set-up of keys leaves nothing of earlier ones: the keys in force are   *)
(* of one set-up and one kind, and a stream in force came after them.  Two  *)
(* senders at once can still be mixed, one's stream with the other's keys;  *)
(* if they set up keys before streams, this happens to a sender only whose  *)
(* own keys another sender has replaced in between.                         *)
SetupsMatch ==
    /\ aes_key_ \in {0, crypto_}
    /\ direct_stream_key_ \in {0, crypto_}
    /\ aes_key_ = 0 \/ direct_stream_key_ = 0
    /\ stream_ # NoStream => stream_.id > crypto_
    /\ (orderly /\ stream_ # NoStream) =>
           /\ crypto_ # 0
           /\ \/ owner[stream_.id] = owner[crypto_]
              \/ \E n \in 1..(crypto_ - 1) : owner[n] = owner[stream_.id]

(* As long as senders have connected one at a time and set up keys before   *)
(* streams, what the authenticated cipher lets through is encrypted by the  *)
(* sender whose keys and stream are both in force: a late packet of the     *)
(* sender before it is never played.                                        *)
AudioFromOneSender ==
    (exclusive /\ orderly) =>
        \A k \in 1..serial :
            (Decodes(k) /\ stream_key # 0) =>
                /\ owner[k] = owner[stream_.id]
                /\ owner[k] = owner[crypto_]

(* As long as senders have connected one at a time, a sender that has sent  *)
(* RECORD and not TEARDOWN since is playing as far as the host knows.  (Of  *)
(* two senders at once, one's TEARDOWN also ends the other's playback.)     *)
RecordAnnounced ==
    exclusive => (playback_active_ # {} => playback_active)

(* The other way round, for any senders: as long as none has left without   *)
(* the TEARDOWN of its RECORD and no packet has come late, the host does    *)
(* not take the receiver for playing when no sender's RECORD stands.  The   *)
(* next RECORD is then reported.                                            *)
PlaybackEnds == tidy => (playback_active => playback_active_ # {})
=============================================================================
