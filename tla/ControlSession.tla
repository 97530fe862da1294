----------------------------- MODULE ControlSession -----------------------------
(***************************************************************************)
(* ControlSession of src/raop/raop_control.cpp: what each request of a      *)
(* connection makes of the session's own state, what it tells the host      *)
(* through the callbacks, and the status it answers with.                   *)
(*                                                                         *)
(* A request is its route (method, and path of a POST or GET), the type in  *)
(* its Content-Type header, its Transport header and its content: what the  *)
(* parsers find in its body.  Volumes are in hundredths of a dB, numbers in *)
(* property lists in hundredths, times in samples; what may be missing is a *)
(* sequence of one or none.  The bodies of replies and the traces are left  *)
(* out.                                                                     *)
(***************************************************************************)
EXTENDS Integers, Sequences, FiniteSetsExt

CONSTANTS
    Word,               \* 2^64, for differences of RTP times
    initial_volume_db   \* of the configuration, which nothing checks

ASSUME VolumeAssumption == initial_volume_db \in Int
ASSUME ControlWordAssumption == Word \in Nat \ {0}

VARIABLES
    last_fp_setup_mode_,
    last_fp_setup_key_message_,     \* the message, "none" before
    announced_stream_,              \* NoStreamInfo if !have_announced_stream_
    playback_active_,
    current_volume_db_,
    stream_sample_rate_,
    told,                           \* the last of what each callback was given
    status                          \* of the last reply

controlVars == <<last_fp_setup_mode_, last_fp_setup_key_message_, announced_stream_,
                 playback_active_, current_volume_db_, stream_sample_rate_, told, status>>

Nothing == [kind |-> "nothing"]

(* AudioStreamInfo and SessionCryptoInfo, as far as the properties tell. *)
StreamInfo(format, rate, type, port) ==
    [kind |-> "stream", audio_format |-> format, sample_rate |-> rate,
     payload_type |-> type, client_control_port |-> port]
CryptoInfo(mode, message) ==
    [kind |-> "crypto", fairplay_setup_mode |-> mode, fairplay_key_message |-> message]

ControlInit ==
    /\ last_fp_setup_mode_ = 0 /\ last_fp_setup_key_message_ = "none"
    /\ announced_stream_ = Nothing /\ playback_active_ = FALSE
    /\ current_volume_db_ = initial_volume_db /\ stream_sample_rate_ = 44100
    /\ told = [volume |-> initial_volume_db, progress |-> Nothing, crypto |-> Nothing,
               stream |-> Nothing, started |-> 0, paused |-> 0, stopped |-> 0, errors |-> 0,
               metadata |-> 0, cover_art |-> 0]
    /\ status = 0

fpVars == <<last_fp_setup_mode_, last_fp_setup_key_message_>>
streamVars == <<announced_stream_, stream_sample_rate_>>

Reply(code) == status' = code
TellError == told' = [told EXCEPT !.errors = @ + 1]

-----------------------------------------------------------------------------
(* Volume *)

clamp(v) == IF v < -3000 THEN -3000 ELSE IF v > 0 THEN 0 ELSE v

(* The volume after set_current_volume, which ignores what is not finite.   *)
set_current_volume(v, old) == IF v = <<>> THEN old ELSE clamp(v[1])

(* plist_number_to_volume_db: dB, or a fraction, or a percentage. *)
Decibels == -3000..0
Fractions == 1..100
Percentages == 101..10000
FractionVolume(n) == (n - 100) * 30
PercentageVolume(n) == ((n - 10000) * 30) \div 100
plist_number_to_volume_db(n) ==
    IF n \in Decibels THEN <<n>>
    ELSE IF n \in Fractions THEN <<FractionVolume(n)>>
    ELSE IF n \in Percentages THEN <<PercentageVolume(n)>>
    ELSE <<>>

(* find_volume_in_plist: the first number that is a volume, in the order in *)
(* which the search meets the keys that look like one.                      *)
find_volume_in_plist(numbers) ==
    LET good == {n \in DOMAIN numbers : plist_number_to_volume_db(numbers[n]) # <<>>}
    IN IF good = {} THEN <<>> ELSE plist_number_to_volume_db(numbers[Min(good)])

parse_binary_plist_volume(content) ==
    IF content.kind = "numbers" THEN find_volume_in_plist(content.numbers) ELSE <<>>

-----------------------------------------------------------------------------
(* Progress *)

position(start, current) == IF current >= start THEN (current - start) % Word ELSE 0
duration(start, end) == IF end >= start THEN (end - start) % Word ELSE 0

(* parse_progress_parameter for three numbers; rate is never 0. *)
Progress(t, rate) ==
    [kind |-> "progress", times |-> t, rate |-> rate,
     position |-> IF rate = 0 THEN 0 ELSE position(t[1], t[2]),
     duration |-> IF rate = 0 THEN 0 ELSE duration(t[1], t[3])]

-----------------------------------------------------------------------------
(* Set-up *)

(* parse_announce_sdp: both keys are there, decode, and are not empty. *)
parse_announce_sdp(content) ==
    content.kind = "sdp" /\ content.fpaeskey = "bytes" /\ content.aesiv = "bytes"

(* The stream that an ANNOUNCE describes; fmtp replaces what is not 0. *)
AnnouncedStream(content) ==
    LET or(n, default) == IF n = 0 THEN default ELSE n
    IN StreamInfo(262144, or(content.rate, 44100), or(content.payload, 96), 0)

HandleAnnounce(r) ==
    /\ r.route = "ANNOUNCE"
    /\ IF r.type = "sdp" /\ parse_announce_sdp(r.content)
       THEN /\ announced_stream_' = AnnouncedStream(r.content)
            /\ stream_sample_rate_' = AnnouncedStream(r.content).sample_rate
            /\ told' = [told EXCEPT !.crypto = CryptoInfo(last_fp_setup_mode_,
                                                          last_fp_setup_key_message_)]
       ELSE IF r.type = "sdp" THEN TellError /\ UNCHANGED streamVars
       ELSE UNCHANGED <<told, streamVars>>
    /\ Reply(200)
    /\ UNCHANGED <<fpVars, playback_active_, current_volume_db_>>

looks_like_stream_setup_request(r) == r.type = "plist" /\ r.content.kind = "stream"

(* parse_audio_stream_info fails without a stream, or a format or type. *)
parse_audio_stream_info(content) ==
    content.streams /\ (content.format # 0 \/ content.payload # 0)

HandleSetupStream(r) ==
    /\ r.route = "SETUP" /\ looks_like_stream_setup_request(r)
    /\ IF parse_audio_stream_info(r.content)
       THEN /\ stream_sample_rate_' = IF r.content.rate # 0 THEN r.content.rate
                                      ELSE stream_sample_rate_
            /\ told' = [told EXCEPT !.stream = StreamInfo(r.content.format, r.content.rate,
                                                   r.content.payload, r.content.port % 65536)]
       ELSE TellError /\ UNCHANGED stream_sample_rate_
    /\ Reply(200)
    /\ UNCHANGED <<fpVars, announced_stream_, playback_active_, current_volume_db_>>

(* parse_transport_port: the port that is named, unless it is too large. *)
parse_transport_port(transport, port) ==
    IF transport[1] \in 0..65535 THEN transport[1] ELSE port

HandleSetupClassic(r) ==
    /\ r.route = "SETUP" /\ ~looks_like_stream_setup_request(r)
    /\ announced_stream_ # Nothing /\ r.transport # <<>>
    /\ told' = [told EXCEPT !.stream =
           [announced_stream_ EXCEPT !.client_control_port =
                parse_transport_port(r.transport, @)]]
    /\ Reply(200)
    /\ UNCHANGED <<fpVars, streamVars, playback_active_, current_volume_db_>>

(* parse_session_crypto_info: some key or IV has to be there. *)
parse_session_crypto_info(content) ==
    content.kind = "keys" /\ (content.eiv \/ content.ekey \/ content.group)

HandleSetupSession(r) ==
    /\ r.route = "SETUP" /\ ~looks_like_stream_setup_request(r)
    /\ ~(announced_stream_ # Nothing /\ r.transport # <<>>)
    /\ told' = IF r.type = "plist" /\ parse_session_crypto_info(r.content)
               THEN [told EXCEPT !.crypto = CryptoInfo(last_fp_setup_mode_,
                                                       last_fp_setup_key_message_)]
               ELSE told
    /\ Reply(200)
    /\ UNCHANGED <<fpVars, streamVars, playback_active_, current_volume_db_>>

-----------------------------------------------------------------------------
(* fp-setup *)

FpSetupAccepted(c) ==
    c.kind = "fp" /\ c.bytes = 16 /\ (c.version = 2 \/ (c.version = 3 /\ c.mode < 4))
FpHandshakeAccepted(c) == c.kind = "fp" /\ c.bytes = 164 /\ c.version \in {2, 3}

(* Mutant: the mode is kept before it is looked at. *)
KeepsModeEarly(c) == c.kind = "fp" /\ c.bytes = 16

KeepsMode(c) == FpSetupAccepted(c)

handle_fp_setup(r) ==
    /\ r.route = "POST /fp-setup"
    /\ last_fp_setup_mode_' = IF KeepsMode(r.content) THEN r.content.mode
                              ELSE last_fp_setup_mode_
    /\ last_fp_setup_key_message_' = IF FpHandshakeAccepted(r.content) THEN r.content.message
                                     ELSE last_fp_setup_key_message_
    /\ IF FpSetupAccepted(r.content) \/ FpHandshakeAccepted(r.content)
       THEN Reply(200) /\ UNCHANGED told
       ELSE Reply(400) /\ TellError
    /\ UNCHANGED <<streamVars, playback_active_, current_volume_db_>>

-----------------------------------------------------------------------------
(* Playback and parameters *)

HandleRecord(r) ==
    /\ r.route = "RECORD"
    /\ playback_active_' = TRUE
    /\ told' = IF playback_active_ THEN told ELSE [told EXCEPT !.started = @ + 1]
    /\ Reply(200)
    /\ UNCHANGED <<fpVars, streamVars, current_volume_db_>>

HandleTeardown(r) ==
    /\ r.route = "TEARDOWN"
    /\ playback_active_' = FALSE
    /\ told' = [told EXCEPT !.stopped = @ + 1]
    /\ Reply(200)
    /\ UNCHANGED <<fpVars, streamVars, current_volume_db_>>

HandleParameterText(r) ==
    /\ r.route = "SET_PARAMETER" /\ r.type = "text"
    /\ LET volume == IF r.content.kind = "text" THEN r.content.volume ELSE <<>>
           times == IF r.content.kind = "text" THEN r.content.progress ELSE <<>>
       IN /\ current_volume_db_' = set_current_volume(volume, current_volume_db_)
          /\ told' = [told EXCEPT !.volume = set_current_volume(volume, @),
                        !.progress = IF times = <<>> THEN @
                                     ELSE Progress(times, stream_sample_rate_)]
    /\ Reply(200)
    /\ UNCHANGED <<fpVars, streamVars, playback_active_>>

(* Mutant: the host is not told of a volume that came in a property list. *)
HandleParameterPlistSilent(r) ==
    /\ \/ r.route = "SET_PARAMETER" /\ r.type = "plist"
       \/ r.route = "POST /command"
    /\ current_volume_db_' =
           set_current_volume(parse_binary_plist_volume(r.content), current_volume_db_)
    /\ Reply(200)
    /\ UNCHANGED <<fpVars, streamVars, playback_active_, told>>

HandleParameterPlist(r) ==
    /\ \/ r.route = "SET_PARAMETER" /\ r.type = "plist"
       \/ r.route = "POST /command"
    /\ LET volume == parse_binary_plist_volume(r.content)
       IN /\ current_volume_db_' = set_current_volume(volume, current_volume_db_)
          /\ told' = [told EXCEPT !.volume = set_current_volume(volume, @)]
    /\ Reply(200)
    /\ UNCHANGED <<fpVars, streamVars, playback_active_>>

HandleParameterMedia(r) ==
    /\ r.route = "SET_PARAMETER" /\ r.type \notin {"text", "plist"}
    /\ told' = IF r.type = "dmap" /\ r.content.kind = "dmap"
               THEN [told EXCEPT !.metadata = @ + 1]
               ELSE IF r.type = "image" /\ r.content.kind # "nothing"
               THEN [told EXCEPT !.cover_art = @ + 1]
               ELSE told
    /\ Reply(200)
    /\ UNCHANGED <<fpVars, streamVars, playback_active_, current_volume_db_>>

(* OPTIONS, GET /info, POST /feedback, POST /audioMode, GET_PARAMETER and   *)
(* FLUSH only answer, PAUSE also tells the host; pairing and the rest are   *)
(* refused.                                                                 *)
AnsweredOnly ==
    {"OPTIONS", "GET /info", "POST /feedback", "POST /audioMode", "GET_PARAMETER",
     "FLUSH"}
HandleOther(r) ==
    /\ \/ r.route \in AnsweredOnly /\ Reply(200) /\ UNCHANGED told
       \/ r.route = "PAUSE" /\ Reply(200) /\ told' = [told EXCEPT !.paused = @ + 1]
       \/ r.route \in {"POST /pair-setup", "other"} /\ Reply(501) /\ TellError
    /\ UNCHANGED <<fpVars, streamVars, playback_active_, current_volume_db_>>

handle(r) ==
    \/ HandleAnnounce(r) \/ HandleSetupStream(r) \/ HandleSetupClassic(r)
    \/ HandleSetupSession(r) \/ handle_fp_setup(r) \/ HandleRecord(r) \/ HandleTeardown(r)
    \/ HandleParameterText(r) \/ HandleParameterPlist(r) \/ HandleParameterMedia(r)
    \/ HandleOther(r)
=============================================================================
