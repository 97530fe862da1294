------------------------------- MODULE AudioPath -------------------------------
(***************************************************************************)
(* An RTP datagram from the socket to the decoded frame: parse_header       *)
(* (src/rtp), RaopAudioDecryptor (src/audio/raop_audio_decryptor.cpp) with  *)
(* the payload layouts of payload_crypto.cpp, the calls of module           *)
(* CryptoCalls they make, and the ALAC decoder.  Everything here happens    *)
(* under Session::mutex, one datagram or set-up at a time; module Receiver  *)
(* has the senders and the order of their set-ups, PcmOutput the queue that *)
(* decoded frames go to.                                                    *)
(*                                                                         *)
(* Sizes are in bytes and keep the numbers of the code.  A value the code   *)
(* narrows to uint32_t is taken modulo Word.                                *)
(***************************************************************************)
EXTENDS CryptoCalls

CONSTANTS
    Word,           \* 2^32
    DatagramBytes,  \* sizes of received datagrams
    CsrcCounts,     \* CSRC counts in their headers
    SampleRates,    \* sample_rate of a stream set-up (uint64_t)
    FrameSizes,     \* samples_per_frame of a stream set-up (uint64_t)
    PayloadTypes,   \* payload_type of a stream set-up (uint64_t)
    Formats,        \* audio_format of a stream set-up, by the bit it sets
    MaxPackets      \* bound: datagrams counted since the last set-up of keys

ASSUME WordAssumption == Word \in Nat \ {0}
ASSUME BoundAssumption == MaxPackets \in Nat
ASSUME SizesAssumption ==
    /\ DatagramBytes \subseteq Nat /\ CsrcCounts \subseteq 0..15
    /\ SampleRates \subseteq Nat /\ FrameSizes \subseteq Nat /\ PayloadTypes \subseteq Nat
    /\ Formats \subseteq 2..31

VARIABLES
    crypto_,        \* have_crypto_ and the size of crypto_.eiv
    aes_key_,       \* is there an unwrapped FairPlay key?
    direct_stream_key_,     \* is there a group key?
    stream_,        \* current stream, NoStream if !have_stream_
    on_audio_,      \* has the host given an audio callback?
    alac_decoder_,  \* configuration of the decoder, NoDecoder before the first
    last_error_,    \* source of the error kept, "" if none
    waiting_for_key_logged_,
    stats_,         \* the counters
    packet,         \* the datagram being decrypted, NoPacket between datagrams
    queued          \* history: the last frame given to enqueue_pcm

decryptorVars == <<crypto_, aes_key_, direct_stream_key_, stream_,
                   on_audio_, alac_decoder_, last_error_, waiting_for_key_logged_,
                   stats_, queued>>
vars == <<cryptoVars, decryptorVars, packet>>

NoCrypto == [have |-> FALSE, eiv |-> 0]
NoStream == [have |-> FALSE, format |-> 0, alac |-> FALSE, rate |-> 0, spf |-> 0, pt |-> 0,
             shk |-> 0]
NoDecoder == [rate |-> 0, spf |-> 0]
NoPacket == [bytes |-> 0, offset |-> 0, pt |-> 0]
NoFrame == [frames |-> 0, room |-> 0]
Counters == {"packets_seen", "packets_decrypted", "alac_like_frames", "alac_frames_decoded",
             "alac_decode_failures", "audio_frames_queued", "aac_eld_like_frames",
             "unknown_frames", "decrypt_failures"}
ZeroStats == [c \in Counters |-> 0]

Init ==
    /\ CryptoInit
    /\ crypto_ = NoCrypto /\ aes_key_ = FALSE /\ direct_stream_key_ = FALSE
    /\ stream_ = NoStream /\ alac_decoder_ = NoDecoder
    /\ last_error_ = "" /\ waiting_for_key_logged_ = FALSE
    /\ stats_ = ZeroStats /\ packet = NoPacket /\ queued = NoFrame
    /\ on_audio_ \in BOOLEAN

Idle == pc = "idle" /\ packet = NoPacket /\ test = NoTest

-----------------------------------------------------------------------------
(* Set-ups *)

(* reset() and configure_crypto(), as Session's callback calls them.  A     *)
(* group key of 32 bytes is taken as it is.  Otherwise the FairPlay key is  *)
(* unwrapped, for which unwrap_fairplay_key wants an IV of 16 bytes.        *)
configure_crypto(group, fairplay, eiv) ==
    /\ Idle
    /\ fairplay => (~group /\ eiv = 16)
    /\ crypto_' = [have |-> TRUE, eiv |-> eiv]
    /\ direct_stream_key_' = group
    /\ aes_key_' = fairplay
    /\ stream_' = NoStream
    /\ last_error_' = IF group \/ fairplay THEN "" ELSE "unwrap"
    /\ waiting_for_key_logged_' = FALSE
    /\ stats_' = ZeroStats
    /\ UNCHANGED <<cryptoVars, on_audio_, alac_decoder_, packet, queued>>

(* describe_airplay_format for the formats that set one bit. *)
describe_airplay_format(bit) ==
    LET row(c, r, b, n) == [codec |-> c, rate |-> r, bits |-> b, channels |-> n]
    IN CASE bit \in 2..17 ->
              row("PCM",
                  <<8000, 16000, 24000, 32000, 44100, 44100, 48000, 48000>>[bit \div 2],
                  IF bit \in {12, 13, 16, 17} THEN 24 ELSE 16, 1 + (bit % 2))
         [] bit \in 18..21 -> row("ALAC", IF bit < 20 THEN 44100 ELSE 48000,
                                  IF bit % 2 = 0 THEN 16 ELSE 24, 2)
         [] bit \in 22..23 -> row("AAC-LC", IF bit = 22 THEN 44100 ELSE 48000, 0, 2)
         [] bit \in 24..25 -> row("AAC-ELD", IF bit = 24 THEN 44100 ELSE 48000, 0, 2)
         [] bit \in 26..27 -> row("AAC-ELD", IF bit = 26 THEN 16000 ELSE 24000, 0, 1)
         [] bit \in 28..30 -> row("OPUS", <<16000, 24000, 48000>>[bit - 27], 0, 1)
         [] bit = 31       -> row("AAC-ELD", 44100, 0, 1)

(* configure_stream decodes one format: 262144 with compression type 2. *)
IsAlac(format, ct) == format = 18 /\ ct = 2

decoder_config(s) ==
    [rate |-> IF s.rate = 0 THEN 44100 ELSE s.rate % Word,
     spf |-> IF s.spf = 0 THEN 352 ELSE s.spf % Word]

(* AlacDecoder::configure: the decoder is replaced once the new one has     *)
(* been initialised; until then the old one stays.                          *)
Configures(config, done) ==
    IF done THEN config.spf # 0 /\ alac_decoder_' = config
            ELSE UNCHANGED alac_decoder_

(* Mutant: an error already kept hides that the decoder was not configured. *)
configure_stream_latched(s, done) ==
    /\ Idle
    /\ stream_' = s
    /\ IF s.alac
       THEN /\ Configures(decoder_config(s), done)
            /\ last_error_' = IF done \/ last_error_ # "" THEN last_error_ ELSE "alac"
       ELSE UNCHANGED <<alac_decoder_, last_error_>>
    /\ UNCHANGED <<cryptoVars, crypto_, aes_key_, direct_stream_key_,
                   on_audio_, waiting_for_key_logged_, stats_, packet, queued>>

configure_stream(s, done) ==
    /\ Idle
    /\ stream_' = s
    /\ IF s.alac
       THEN /\ Configures(decoder_config(s), done)
            /\ last_error_' = IF done THEN last_error_ ELSE "alac"
       ELSE UNCHANGED <<alac_decoder_, last_error_>>
    /\ UNCHANGED <<cryptoVars, crypto_, aes_key_, direct_stream_key_,
                   on_audio_, waiting_for_key_logged_, stats_, packet, queued>>

SetUpCrypto ==
    \E group, fairplay \in BOOLEAN, eiv \in {0, 16} :
        configure_crypto(group, fairplay, eiv)

SetUpStream ==
    \E format \in Formats, ct \in {2, 8}, rate \in SampleRates,
       spf \in FrameSizes, pt \in PayloadTypes, shk \in {0, 32}, done \in BOOLEAN :
        configure_stream([have |-> TRUE, format |-> format, alac |-> IsAlac(format, ct),
                          rate |-> rate, spf |-> spf, pt |-> pt, shk |-> shk], done)

-----------------------------------------------------------------------------
(* Datagrams *)

(* parse_header: the version, then a header of 12 bytes and 4 per CSRC. *)
payload_offset(csrc_count) == 12 + 4 * csrc_count
parse_header(bytes, version, csrc_count) ==
    bytes >= 12 /\ version = 2 /\ bytes >= payload_offset(csrc_count)

PayloadBytes(p) == p.bytes - p.offset

(* payload_bounds: ciphertext, a nonce of 8 bytes and a tag of 16. *)
TrailerBytes == 24

(* Mutant: the nonce is taken for ciphertext. *)
airplay2_bounds_tag(p) ==
    [ciphertext |-> p.offset, bytes |-> PayloadBytes(p) - 16,
     nonce |-> p.bytes - TrailerBytes, tag |-> p.bytes - 16]

airplay2_bounds(p) ==
    [ciphertext |-> p.offset, bytes |-> PayloadBytes(p) - TrailerBytes,
     nonce |-> p.bytes - TrailerBytes, tag |-> p.bytes - 16]
airplay2_call(p) ==
    LET b == airplay2_bounds(p)
    IN [fn |-> "chacha20_poly1305_decrypt", key |-> 32, iv |-> 4 + (b.tag - b.nonce),
        tag |-> p.bytes - b.tag, input |-> b.bytes, null |-> FALSE]

(* The whole blocks of a payload are encrypted, the rest is in the clear. *)
encrypted_bytes(p) == (PayloadBytes(p) \div 16) * 16
raop_call(p) ==
    [fn |-> "aes_128_cbc_decrypt", key |-> 16, iv |-> crypto_.eiv, tag |-> 0,
     input |-> encrypted_bytes(p), null |-> FALSE]

key_ready == aes_key_ \/ stream_.shk = 32 \/ direct_stream_key_
have_stream_key == stream_.shk = 32 \/ direct_stream_key_
Wanted(p) == crypto_.have /\ stream_.have /\ p.pt = stream_.pt % 256

Count(s, counter) == [s EXCEPT ![counter] = @ + 1]
KeepError(source) == last_error_' = IF last_error_ = "" THEN source ELSE last_error_

(* handle_packet up to the decryption.  What has no room for its layout     *)
(* fails without a call.                                                    *)
handle_packet(p) ==
    LET failed == Count(Count(stats_, "packets_seen"), "decrypt_failures")
        Fail == /\ stats_' = failed /\ KeepError("layout")
                /\ UNCHANGED <<cryptoVars, packet, waiting_for_key_logged_>>
        Decrypt(c) == /\ Begin(c) /\ packet' = p
                      /\ stats_' = Count(stats_, "packets_seen")
                      /\ UNCHANGED <<test, last_error_, waiting_for_key_logged_>>
        Skip == /\ stats_' = Count(stats_, "packets_seen")
                /\ waiting_for_key_logged_' = (waiting_for_key_logged_ \/ Wanted(p))
                /\ UNCHANGED <<cryptoVars, packet, last_error_>>
        HaveKey == have_stream_key \/ (aes_key_ /\ crypto_.eiv = 16)
    IN /\ \/ /\ Wanted(p) /\ have_stream_key
             /\ IF PayloadBytes(p) < TrailerBytes THEN Fail
                ELSE Decrypt(airplay2_call(p))
          \/ /\ Wanted(p) /\ ~have_stream_key /\ HaveKey
             /\ IF encrypted_bytes(p) = 0 THEN Fail ELSE Decrypt(raop_call(p))
          \/ ~(Wanted(p) /\ HaveKey) /\ Skip
       /\ UNCHANGED <<crypto_, aes_key_, direct_stream_key_, stream_,
                      on_audio_, alac_decoder_, queued>>

(* A datagram that is no RTP packet is dropped without a trace. *)
ReceivePacket ==
    /\ Idle
    /\ stats_.packets_seen < MaxPackets
    /\ \E bytes \in DatagramBytes, csrc \in CsrcCounts, pt \in {0, 96} :
          /\ parse_header(bytes, 2, csrc)
          /\ handle_packet([bytes |-> bytes, offset |-> payload_offset(csrc), pt |-> pt])

(* The tail of the AES layout is appended to what was decrypted. *)
PlaintextBytes ==
    output.bytes + IF call.fn = "aes_128_cbc_decrypt"
                   THEN PayloadBytes(packet) - encrypted_bytes(packet) ELSE 0

(* AlacDecoder::decode_frame: frames the decoder produced, 0 for a failure. *)
decode_frame(frames) ==
    IF alac_decoder_ # NoDecoder /\ frames \in 1..alac_decoder_.spf
    THEN /\ stats_' = Count(Count(Count(Count(stats_, "packets_decrypted"),
                "alac_like_frames"), "alac_frames_decoded"), "audio_frames_queued")
         /\ queued' = [frames |-> frames, room |-> alac_decoder_.spf]
         /\ UNCHANGED last_error_
    ELSE /\ stats_' = Count(Count(Count(stats_, "packets_decrypted"),
                "alac_like_frames"), "alac_decode_failures")
         /\ KeepError("decode")
         /\ UNCHANGED queued

(* An ALAC frame is decoded only for a host that takes audio. *)
handle_alac_frame ==
    \/ /\ on_audio_
       /\ \E frames \in {0, 1, alac_decoder_.spf, alac_decoder_.spf + 1} :
              decode_frame(frames)
    \/ /\ ~on_audio_
       /\ stats_' = Count(Count(stats_, "packets_decrypted"), "alac_like_frames")
       /\ UNCHANGED <<last_error_, queued>>

(* Mutant: an empty frame is not counted as unknown. *)
handle_empty_frame_uncounted(marker) ==
    \/ PlaintextBytes > 0 /\ marker = "alac" /\ handle_alac_frame
    \/ /\ PlaintextBytes = 0 \/ marker # "alac"
       /\ stats_' = Count(stats_, "packets_decrypted")
       /\ UNCHANGED <<last_error_, queued>>

(* handle_decrypted_frame: the first byte tells the codec. *)
handle_decrypted_frame(marker) ==
    \/ PlaintextBytes > 0 /\ marker = "alac" /\ handle_alac_frame
    \/ /\ PlaintextBytes > 0 /\ marker = "aac_eld"
       /\ stats_' = Count(Count(stats_, "packets_decrypted"), "aac_eld_like_frames")
       /\ UNCHANGED <<last_error_, queued>>
    \/ /\ PlaintextBytes = 0 \/ marker = "unknown"
       /\ stats_' = Count(Count(stats_, "packets_decrypted"), "unknown_frames")
       /\ UNCHANGED <<last_error_, queued>>

PacketReturns ==
    /\ packet # NoPacket /\ pc = "returned"
    /\ Return /\ packet' = NoPacket
    /\ IF ok
       THEN \E marker \in {"alac", "aac_eld", "unknown"} : handle_decrypted_frame(marker)
       ELSE /\ stats_' = Count(stats_, "decrypt_failures")
            /\ KeepError("decrypt")
            /\ UNCHANGED queued
    /\ UNCHANGED <<test, crypto_, aes_key_,
                   direct_stream_key_, stream_, on_audio_, alac_decoder_,
                   waiting_for_key_logged_>>

(* A self test runs on its own, before there is a session. *)
SelfTests ==
    /\ stats_ = ZeroStats /\ ~crypto_.have /\ ~stream_.have
    /\ TestStep
    /\ UNCHANGED <<decryptorVars, packet>>

Provider == ProviderStep /\ UNCHANGED <<decryptorVars, packet>>

Next ==
    \/ SetUpCrypto \/ SetUpStream
    \/ ReceivePacket \/ PacketReturns
    \/ Provider \/ SelfTests

Spec == Init /\ [][Next]_vars

-----------------------------------------------------------------------------
(* Properties *)

(* From the datagram to the frame in the queue, whatever the sizes: when    *)
(* key_ready() says there is a key, handle_packet finds one with its IV; no *)
(* call is refused for its arguments, as the layouts leave sizes that the   *)
(* ciphers accept; the plaintext has the bytes of the payload, less nonce   *)
(* and tag; and the frame is copied from within the decoder's buffer.       *)
WholeFrames ==
    /\ key_ready => (have_stream_key \/ (aes_key_ /\ crypto_.eiv = 16))
    /\ packet # NoPacket => ~Refused(call)
    /\ (packet # NoPacket /\ pc = "returned" /\ ok) =>
           PlaintextBytes = PayloadBytes(packet)
                            - IF call.fn \in chacha THEN TrailerBytes ELSE 0
    /\ queued.frames <= queued.room

(* The decoder is configured for the stream in force, if that is one it     *)
(* decodes, unless last_error_ says that it could not be; and such a stream *)
(* is listed as the 16-bit stereo that the decoder takes it for.            *)
DecoderFollowsStream ==
    stream_.alac =>
        /\ last_error_ # "alac" => alac_decoder_ = decoder_config(stream_)
        /\ describe_airplay_format(stream_.format) =
               [codec |-> "ALAC", rate |-> decoder_config(NoStream).rate,
                bits |-> 16, channels |-> 2]

(* Between datagrams every decrypted packet is counted as one kind of       *)
(* frame; every ALAC frame as decoded and queued or as failed if the host   *)
(* takes audio, and as neither if it does not; and while the counters show  *)
(* a failure last_error_ explains one, although set-ups zero the counters   *)
(* and clear the error at any time in between.                              *)
CountersAddUp ==
    /\ packet = NoPacket =>
           /\ stats_.packets_seen >= stats_.packets_decrypted + stats_.decrypt_failures
           /\ stats_.packets_decrypted = stats_.alac_like_frames
                  + stats_.aac_eld_like_frames + stats_.unknown_frames
           /\ stats_.alac_frames_decoded + stats_.alac_decode_failures =
                  IF on_audio_ THEN stats_.alac_like_frames ELSE 0
           /\ stats_.audio_frames_queued = stats_.alac_frames_decoded
    /\ (stats_.decrypt_failures > 0 \/ stats_.alac_decode_failures > 0)
           => last_error_ # ""
=============================================================================
