---------------------------- MODULE AudioPathProofs ----------------------------
(***************************************************************************)
(* Proofs about CryptoCalls and AudioPath for any sizes of datagrams and    *)
(* any numbers in a set-up: a call of crypto.cpp is all or nothing, a       *)
(* payload becomes a whole frame within the decoder's buffer, the decoder   *)
(* follows the stream, and the counters add up.                             *)
(***************************************************************************)
EXTENDS AudioPath, TLAPS

CallPcs == SetUp \cup {"idle", "crypt", "data", "finish", "destroy", "close", "returned"}

Calls == [fn : Functions \cup {"none"}, key : Nat, iv : Nat, tag : Nat, input : Nat,
          null : BOOLEAN]

CallTypeOK ==
    /\ call \in Calls
    /\ pc \in CallPcs
    /\ handles \subseteq {"alg", "key", "hash"}
    /\ output \in [bytes : Nat, data : {"zero", "right", "other"}]
    /\ ok \in BOOLEAN

Tests == [name : DOMAIN self_tests \cup {"none"}, step : Nat,
          verdict : {"none", "passed", "failed"}, right : Nat]
TestTypeOK == test \in Tests

DecryptorTypeOK ==
    /\ crypto_ \in [have : BOOLEAN, eiv : {0, 16}]
    /\ aes_key_ \in BOOLEAN /\ direct_stream_key_ \in BOOLEAN /\ on_audio_ \in BOOLEAN
    /\ stream_ \in [have : BOOLEAN, format : Nat, alac : BOOLEAN, rate : Nat,
                    spf : Nat, pt : Nat, shk : Nat]
    /\ alac_decoder_ \in [rate : Nat, spf : Nat]
    /\ stats_ \in [Counters -> Nat]
    /\ packet \in [bytes : Nat, offset : Nat, pt : Nat]
    /\ queued \in [frames : Nat, room : Nat]

(* The bytes that a call that succeeds leaves. *)
ResultBytes == IF call.fn \in DOMAIN digest_bytes THEN digest_bytes[call.fn] ELSE call.input

(* Which worker makes a provider call, which handles it holds there, and    *)
(* what the caller's buffer holds.                                          *)
WorkerInv ==
    /\ pc # "idle" => call.fn \in Functions
    /\ pc = "chain" => call.fn \in aes_128_no_padding
    /\ pc \in {"key", "crypt"} => call.fn \in aes_128_no_padding \cup chacha
    /\ pc \in {"hash_length", "hash", "data", "finish"} => call.fn \in DOMAIN digest_bytes
HandleInv ==
    /\ pc \in {"idle", "open", "returned"} => handles = {}
    /\ pc \in (SetUp \ {"open"}) \cup {"close"} => handles = {"alg"}
    /\ pc = "crypt" => handles = {"alg", "key"}
    /\ pc \in {"data", "finish"} => handles = {"alg", "hash"}
    /\ pc = "destroy" => handles \in {{"alg", "key"}, {"alg", "hash"}}
BufferInv ==
    /\ pc \in SetUp \cup {"data"} => output = Empty
    /\ pc \in {"crypt", "finish"} => output.bytes = ResultBytes
    /\ (pc \in {"destroy", "close", "returned"} /\ ok = TRUE) =>
           output.bytes = ResultBytes /\ output.data # "zero"
    /\ (pc = "returned" /\ ok = FALSE) => output.bytes = 0

(* A self test is at a vector it has, all before it came out right, until   *)
(* it has its verdict.                                                      *)
TestInv ==
    /\ test.name = "none" => test = NoTest
    /\ (test.name # "none" /\ test.verdict = "none") =>
           test.step \in 1..Len(self_tests[test.name]) /\ test.step = test.right + 1
    /\ test.verdict # "none" => pc = "idle"
    /\ test.verdict = "passed" => test.right = Len(self_tests[test.name])

(* The call made for a datagram. *)
PacketInv ==
    packet # NoPacket =>
        /\ pc # "idle" /\ test = NoTest /\ ~Refused(call)
        /\ \/ call.fn = "chacha20_poly1305_decrypt"
              /\ call.input = PayloadBytes(packet) - TrailerBytes
           \/ call.fn = "aes_128_cbc_decrypt" /\ call.input = encrypted_bytes(packet)

KeyInv == aes_key_ = TRUE => crypto_.eiv = 16
StreamInv ==
    stream_.alac = TRUE =>
        /\ stream_.format = 18
        /\ last_error_ # "alac" => alac_decoder_ = decoder_config(stream_)

(* The counters add up while a number of datagrams are not yet decided. *)
AddsUp(s, undecided) ==
    /\ s["packets_seen"] >= s["packets_decrypted"] + s["decrypt_failures"] + undecided
    /\ s["packets_decrypted"] = s["alac_like_frames"] + s["aac_eld_like_frames"]
                                + s["unknown_frames"]
    /\ s["alac_frames_decoded"] + s["alac_decode_failures"] =
           IF on_audio_ = TRUE THEN s["alac_like_frames"] ELSE 0
    /\ s["audio_frames_queued"] = s["alac_frames_decoded"]
Failures(s) == s["decrypt_failures"] > 0 \/ s["alac_decode_failures"] > 0

StatsInv ==
    /\ AddsUp(stats_, IF packet # NoPacket THEN 1 ELSE 0)
    /\ Failures(stats_) => last_error_ # ""
FrameInv == queued.frames <= queued.room

CallInv == CallTypeOK /\ WorkerInv /\ HandleInv /\ BufferInv
DecryptorInv == DecryptorTypeOK /\ PacketInv /\ KeyInv /\ StreamInv /\ StatsInv
                /\ FrameInv

(* The inductive invariant. *)
IInv == CallInv /\ TestTypeOK /\ TestInv /\ DecryptorInv

-----------------------------------------------------------------------------
(* The operators *)

LEMMA StepsFollow ==
    /\ \A fn \in chacha :
          /\ StepAfter(fn, "open") = "object_length"
          /\ StepAfter(fn, "object_length") = "key"
          /\ StepAfter(fn, "key") = "crypt"
    /\ \A fn \in aes_128_no_padding :
          /\ StepAfter(fn, "open") = "chain"
          /\ StepAfter(fn, "chain") = "object_length"
          /\ StepAfter(fn, "object_length") = "key"
          /\ StepAfter(fn, "key") = "crypt"
    /\ \A fn \in DOMAIN digest_bytes :
          /\ StepAfter(fn, "open") = "object_length"
          /\ StepAfter(fn, "object_length") = "hash_length"
          /\ StepAfter(fn, "hash_length") = "hash"
          /\ StepAfter(fn, "hash") = "data"
BY DEF StepAfter, Steps, ChachaSteps, AesSteps, DigestSteps, chacha, aes_128_no_padding, digest_bytes

LEMMA TestsThere ==
    ASSUME NEW name \in DOMAIN self_tests
    PROVE /\ Len(self_tests[name]) \in Nat \ {0}
          /\ \A i \in 1..Len(self_tests[name]) : self_tests[name][i] \in Functions
<1>0. name \in {"chacha", "cbc", "ecb", "hash_hmac"}
  BY DEF self_tests
<1>1. /\ self_tests["chacha"] = chacha20_poly1305_self_test
      /\ self_tests["cbc"] = aes_128_cbc_self_test
      /\ self_tests["ecb"] = aes_128_ecb_self_test
      /\ self_tests["hash_hmac"] = hash_hmac_self_test
  BY DEF self_tests
<1>2. CASE name = "chacha"
  <2>1. Len(chacha20_poly1305_self_test) = 1 /\ chacha20_poly1305_self_test[1] \in Functions
    BY DEF chacha20_poly1305_self_test, Functions, chacha
  <2> QED BY <1>1, <1>2, <2>1
<1>3. CASE name = "cbc"
  <2>1. /\ Len(aes_128_cbc_self_test) = 2
        /\ aes_128_cbc_self_test[1] \in Functions /\ aes_128_cbc_self_test[2] \in Functions
    BY DEF aes_128_cbc_self_test, Functions, aes_128_no_padding
  <2>2. \A i \in 1..2 : i = 1 \/ i = 2
    OBVIOUS
  <2>3. 2 \in Nat \ {0}
    OBVIOUS
  <2> QED BY <1>1, <1>3, <2>1, <2>2, <2>3, Zenon
<1>4. CASE name = "ecb"
  <2>1. /\ Len(aes_128_ecb_self_test) = 2
        /\ aes_128_ecb_self_test[1] \in Functions /\ aes_128_ecb_self_test[2] \in Functions
    BY DEF aes_128_ecb_self_test, Functions, aes_128_no_padding
  <2>2. \A i \in 1..2 : i = 1 \/ i = 2
    OBVIOUS
  <2>3. 2 \in Nat \ {0}
    OBVIOUS
  <2> QED BY <1>1, <1>4, <2>1, <2>2, <2>3, Zenon
<1>5. CASE name = "hash_hmac"
  <2>1. {"sha1", "sha256", "sha512", "hmac_sha1", "hmac_sha256", "hmac_sha512"}
           \subseteq Functions
    BY DEF Functions, digest_bytes
  <2> DEFINE t == hash_hmac_self_test
  <2>2. /\ Len(t) = 6 /\ t[1] = "sha1" /\ t[2] = "sha256" /\ t[3] = "sha512"
        /\ t[4] = "hmac_sha1" /\ t[5] = "hmac_sha256" /\ t[6] = "hmac_sha512"
    BY DEF hash_hmac_self_test
  <2>3. \A i \in 1..6 : t[i] \in Functions
    <3>1. \A i \in 1..6 : i = 1 \/ i = 2 \/ i = 3 \/ i = 4 \/ i = 5 \/ i = 6
      OBVIOUS
    <3> QED BY <2>1, <2>2, <3>1, Zenon
  <2> QED BY <1>1, <1>5, <2>2, <2>3, SMTT(30)
<1> QED BY <1>0, <1>2, <1>3, <1>4, <1>5

LEMMA CountCounts ==
    ASSUME NEW s \in [Counters -> Nat], NEW c \in Counters
    PROVE /\ Count(s, c) \in [Counters -> Nat]
          /\ Count(s, c)[c] = s[c] + 1
          /\ \A d \in Counters : d # c => Count(s, c)[d] = s[d]
BY DEF Count

LEMMA ZeroAddsUp == AddsUp(ZeroStats, 0) /\ ~Failures(ZeroStats)
<1>1. \A c \in Counters : ZeroStats[c] = 0
  BY DEF ZeroStats
<1>2. /\ ZeroStats["packets_seen"] = 0 /\ ZeroStats["packets_decrypted"] = 0
      /\ ZeroStats["alac_like_frames"] = 0 /\ ZeroStats["alac_frames_decoded"] = 0
      /\ ZeroStats["alac_decode_failures"] = 0 /\ ZeroStats["audio_frames_queued"] = 0
      /\ ZeroStats["aac_eld_like_frames"] = 0 /\ ZeroStats["unknown_frames"] = 0
      /\ ZeroStats["decrypt_failures"] = 0
  BY <1>1 DEF Counters
<1> QED BY <1>2 DEF AddsUp, Failures

(* What a datagram counts: seen with or without a call that decides later,  *)
(* failed, decrypted as a frame of some kind.                               *)
LEMMA SeenAddsUp ==
    ASSUME NEW s \in [Counters -> Nat], AddsUp(s, 0)
    PROVE /\ Count(s, "packets_seen") \in [Counters -> Nat]
          /\ AddsUp(Count(s, "packets_seen"), 1) /\ AddsUp(Count(s, "packets_seen"), 0)
          /\ Failures(Count(s, "packets_seen")) => Failures(s)
BY DEF AddsUp, Failures, Count, Counters

LEMMA FailedAddsUp ==
    ASSUME NEW s \in [Counters -> Nat], AddsUp(s, 1)
    PROVE /\ Count(s, "decrypt_failures") \in [Counters -> Nat]
          /\ AddsUp(Count(s, "decrypt_failures"), 0)
BY DEF AddsUp, Count, Counters

LEMMA OtherFrameAddsUp ==
    ASSUME NEW s \in [Counters -> Nat], AddsUp(s, 1),
           NEW kind \in {"aac_eld_like_frames", "unknown_frames"}
    PROVE LET t == Count(Count(s, "packets_decrypted"), kind)
          IN /\ t \in [Counters -> Nat] /\ AddsUp(t, 0)
             /\ Failures(t) => Failures(s)
<1> DEFINE a == Count(s, "packets_decrypted")
           t == Count(a, kind)
<1>1. /\ a \in [Counters -> Nat] /\ a["packets_decrypted"] = s["packets_decrypted"] + 1
      /\ \A d \in Counters : d # "packets_decrypted" => a[d] = s[d]
  BY CountCounts DEF Counters
<1> HIDE DEF a
<1>2. /\ t \in [Counters -> Nat] /\ t[kind] = a[kind] + 1
      /\ \A d \in Counters : d # kind => t[d] = a[d]
  <2>1. kind \in Counters
    BY DEF Counters
  <2> QED BY <1>1, <2>1, CountCounts
<1> HIDE DEF t
<1>3. AddsUp(t, 0) /\ (Failures(t) => Failures(s))
  BY <1>1, <1>2 DEF AddsUp, Failures, Counters
<1> QED BY <1>2, <1>3 DEF t, a

LEMMA AlacFrameAddsUp ==
    ASSUME NEW s \in [Counters -> Nat], AddsUp(s, 1), on_audio_ = TRUE
    PROVE LET a == Count(Count(s, "packets_decrypted"), "alac_like_frames")
              d == Count(Count(a, "alac_frames_decoded"), "audio_frames_queued")
              f == Count(a, "alac_decode_failures")
          IN /\ d \in [Counters -> Nat] /\ AddsUp(d, 0) /\ (Failures(d) => Failures(s))
             /\ f \in [Counters -> Nat] /\ AddsUp(f, 0)
<1> DEFINE p == Count(s, "packets_decrypted")
           a == Count(p, "alac_like_frames")
           b == Count(a, "alac_frames_decoded")
           d == Count(b, "audio_frames_queued")
           f == Count(a, "alac_decode_failures")
<1>1. /\ p \in [Counters -> Nat] /\ p["packets_decrypted"] = s["packets_decrypted"] + 1
      /\ \A c \in Counters : c # "packets_decrypted" => p[c] = s[c]
  BY CountCounts DEF Counters
<1> HIDE DEF p
<1>2. /\ a \in [Counters -> Nat] /\ a["alac_like_frames"] = p["alac_like_frames"] + 1
      /\ \A c \in Counters : c # "alac_like_frames" => a[c] = p[c]
  BY <1>1, CountCounts DEF Counters
<1> HIDE DEF a
<1>3. /\ b \in [Counters -> Nat] /\ b["alac_frames_decoded"] = a["alac_frames_decoded"] + 1
      /\ \A c \in Counters : c # "alac_frames_decoded" => b[c] = a[c]
  BY <1>2, CountCounts DEF Counters
<1> HIDE DEF b
<1>4. /\ d \in [Counters -> Nat] /\ d["audio_frames_queued"] = b["audio_frames_queued"] + 1
      /\ \A c \in Counters : c # "audio_frames_queued" => d[c] = b[c]
  BY <1>3, CountCounts DEF Counters
<1>5. /\ f \in [Counters -> Nat] /\ f["alac_decode_failures"] = a["alac_decode_failures"] + 1
      /\ \A c \in Counters : c # "alac_decode_failures" => f[c] = a[c]
  BY <1>2, CountCounts DEF Counters
<1> HIDE DEF d, f
<1>6. AddsUp(d, 0) /\ (Failures(d) => Failures(s))
  BY <1>1, <1>2, <1>3, <1>4 DEF AddsUp, Failures, Counters
<1>7. AddsUp(f, 0)
  BY <1>1, <1>2, <1>5 DEF AddsUp, Counters
<1> QED BY <1>4, <1>5, <1>6, <1>7 DEF p, a, b, d, f

LEMMA UnheardFrameAddsUp ==
    ASSUME NEW s \in [Counters -> Nat], AddsUp(s, 1), on_audio_ = FALSE
    PROVE LET a == Count(Count(s, "packets_decrypted"), "alac_like_frames")
          IN /\ a \in [Counters -> Nat] /\ AddsUp(a, 0) /\ (Failures(a) => Failures(s))
<1> DEFINE p == Count(s, "packets_decrypted")
           a == Count(p, "alac_like_frames")
<1>1. /\ p \in [Counters -> Nat] /\ p["packets_decrypted"] = s["packets_decrypted"] + 1
      /\ \A c \in Counters : c # "packets_decrypted" => p[c] = s[c]
  BY CountCounts DEF Counters
<1> HIDE DEF p
<1>2. /\ a \in [Counters -> Nat] /\ a["alac_like_frames"] = p["alac_like_frames"] + 1
      /\ \A c \in Counters : c # "alac_like_frames" => a[c] = p[c]
  BY <1>1, CountCounts DEF Counters
<1> HIDE DEF a
<1>3. AddsUp(a, 0) /\ (Failures(a) => Failures(s))
  BY <1>1, <1>2 DEF AddsUp, Failures, Counters
<1> QED BY <1>2, <1>3 DEF p, a

-----------------------------------------------------------------------------
(* One call *)

(* A call that begins, refused or not. *)
LEMMA BeginCall ==
    ASSUME CallInv, NEW c \in Calls, c.fn \in Functions, Begin(c)
    PROVE CallInv' /\ call' = c /\ pc' # "idle"
<1> USE DEF CallInv
<1>1. /\ pc = "idle" /\ call' = c /\ output' = Empty /\ handles' = handles
      /\ ok' \in BOOLEAN /\ ((pc' = "returned" /\ ok' = FALSE) \/ pc' = "open")
  BY DEF Begin
<1>2. CallTypeOK'
  BY <1>1 DEF CallTypeOK, CallPcs, SetUp, Empty
<1>3. WorkerInv'
  BY <1>1 DEF WorkerInv
<1>4. HandleInv'
  BY <1>1 DEF HandleInv, SetUp
<1>5. BufferInv'
  BY <1>1 DEF BufferInv, SetUp, Empty
<1> QED BY <1>1, <1>2, <1>3, <1>4, <1>5

LEMMA SetUpSucceedsCall ==
    ASSUME CallInv, SetUpSucceeds
    PROVE CallInv'
<1> USE DEF CallInv
<1>1. /\ pc \in SetUp /\ call' = call /\ ok' = ok
      /\ call.fn \in Functions /\ output = Empty
  BY DEF SetUpSucceeds, WorkerInv, BufferInv, SetUp
<1>2. /\ pc' = StepAfter(call.fn, pc) /\ handles' = handles \cup Gains(pc)
      /\ output' = IF pc = "key" THEN [bytes |-> call.input, data |-> "zero"] ELSE output
  BY DEF SetUpSucceeds
<1>3. /\ pc = "open" => pc' \in {"chain", "object_length"}
      /\ pc = "chain" => pc' = "object_length"
      /\ pc = "object_length" => pc' \in {"key", "hash_length"}
      /\ pc = "hash_length" => pc' = "hash"
      /\ pc = "key" => pc' = "crypt"
      /\ pc = "hash" => pc' = "data"
      /\ pc' = "chain" => call.fn \in aes_128_no_padding
      /\ pc' = "key" => call.fn \in aes_128_no_padding \cup chacha
      /\ pc' = "hash_length" => call.fn \in DOMAIN digest_bytes
  <2>1. pc \in {"open", "chain", "object_length", "hash_length", "key", "hash"}
    BY <1>1 DEF SetUp
  <2>2. CASE call.fn \in chacha
    <3>1. pc \in {"open", "object_length", "key"}
      BY <2>1, <2>2 DEF WorkerInv, chacha, aes_128_no_padding, digest_bytes
    <3> QED BY <1>2, <2>2, <3>1, StepsFollow
  <2>3. CASE call.fn \in aes_128_no_padding
    <3>1. pc \in {"open", "chain", "object_length", "key"}
      BY <2>1, <2>3 DEF WorkerInv, aes_128_no_padding, digest_bytes
    <3> QED BY <1>2, <2>3, <3>1, StepsFollow
  <2>4. CASE call.fn \in DOMAIN digest_bytes
    <3>1. pc \in {"open", "object_length", "hash_length", "hash"}
      BY <2>1, <2>4 DEF WorkerInv, chacha, aes_128_no_padding, digest_bytes
    <3> QED BY <1>2, <2>4, <3>1, StepsFollow
  <2> QED BY <1>1, <2>2, <2>3, <2>4 DEF Functions
<1>4. pc' \in CallPcs
  BY <1>1, <1>3 DEF CallPcs, SetUp
<1>5. /\ pc = "open" => Gains(pc) = {"alg"}
      /\ pc = "key" => Gains(pc) = {"key"}
      /\ pc = "hash" => Gains(pc) = {"hash"}
      /\ pc \notin {"open", "key", "hash"} => Gains(pc) = {}
  BY DEF Gains
<1>6. WorkerInv'
  BY <1>1, <1>3 DEF WorkerInv, SetUp
<1>7. HandleInv'
  BY <1>1, <1>2, <1>3, <1>5 DEF HandleInv, SetUp
<1>8. BufferInv'
  BY <1>1, <1>2, <1>3, <1>6 DEF BufferInv, SetUp, Empty, ResultBytes, WorkerInv,
     aes_128_no_padding, chacha, digest_bytes
<1>9. CallTypeOK'
  <2>1. handles' \subseteq {"alg", "key", "hash"}
    BY <1>2, <1>5, <1>1 DEF CallTypeOK, SetUp
  <2>2. output' \in [bytes : Nat, data : {"zero", "right", "other"}]
    BY <1>2 DEF CallTypeOK, Calls
  <2> QED BY <1>1, <1>4, <2>1, <2>2 DEF CallTypeOK
<1> QED BY <1>6, <1>7, <1>8, <1>9

LEMMA SetUpFailsCall ==
    ASSUME CallInv, SetUpFails
    PROVE CallInv'
<1> USE DEF CallInv
<1>1. /\ pc \in SetUp /\ call' = call /\ ok' = FALSE /\ pc' = "returned" /\ output' = output
      /\ handles' = handles \ {"alg"} /\ call.fn \in Functions /\ output = Empty
  BY DEF SetUpFails, WorkerInv, BufferInv, SetUp
<1>2. WorkerInv'
  BY <1>1 DEF WorkerInv
<1>3. HandleInv'
  BY <1>1 DEF HandleInv, SetUp
<1>4. BufferInv'
  BY <1>1 DEF BufferInv, SetUp, Empty
<1>5. CallTypeOK'
  BY <1>1 DEF CallTypeOK, CallPcs
<1> QED BY <1>2, <1>3, <1>4, <1>5

LEMMA DigestBytes == \A fn \in DOMAIN digest_bytes : digest_bytes[fn] \in Nat
BY DEF digest_bytes

LEMMA HashDataCall ==
    ASSUME CallInv, HashData
    PROVE CallInv'
<1> USE DEF CallInv
<1>1. /\ pc = "data" /\ call' = call /\ handles' = handles
      /\ call.fn \in Functions /\ call.fn \in DOMAIN digest_bytes
      /\ handles = {"alg", "hash"} /\ output = Empty
  BY DEF HashData, WorkerInv, BufferInv, HandleInv
<1>2. \/ /\ ok' = TRUE /\ pc' = "finish"
         /\ output' = [bytes |-> digest_bytes[call.fn], data |-> "zero"]
      \/ ok' = FALSE /\ pc' = "destroy" /\ output' = output
  <2>1. ok' = TRUE \/ ok' = FALSE
    BY DEF HashData
  <2>2. CASE ok' = TRUE
    BY <2>2 DEF HashData
  <2>3. CASE ok' = FALSE
    BY <2>3 DEF HashData
  <2> QED BY <2>1, <2>2, <2>3
<1>3. WorkerInv'
  BY <1>1, <1>2 DEF WorkerInv
<1>4. HandleInv'
  BY <1>1, <1>2 DEF HandleInv, SetUp
<1>5. BufferInv'
  BY <1>1, <1>2 DEF BufferInv, SetUp, ResultBytes
<1>6. CallTypeOK'
  <2>1. digest_bytes[call.fn] \in Nat
    BY <1>1, DigestBytes
  <2>2. output' \in [bytes : Nat, data : {"zero", "right", "other"}]
    BY <1>2, <2>1 DEF CallTypeOK
  <2> QED BY <1>1, <1>2, <2>2 DEF CallTypeOK, CallPcs, SetUp
<1> QED BY <1>3, <1>4, <1>5, <1>6

LEMMA CryptCall ==
    ASSUME CallInv, Crypt
    PROVE CallInv'
<1> USE DEF CallInv
<1>1. /\ pc \in {"crypt", "finish"} /\ call' = call /\ handles' = handles
      /\ pc' = "destroy" /\ ok' \in BOOLEAN
      /\ call.fn \in Functions /\ handles \in {{"alg", "key"}, {"alg", "hash"}}
      /\ output.bytes = ResultBytes
  BY DEF Crypt, WorkerInv, BufferInv, HandleInv
<1>2. PICK d \in {"zero", "right", "other"} :
         output' = [output EXCEPT !.data = d] /\ (ok' = TRUE => d # "zero")
  <2>1. CASE ok' = TRUE
    <3>1. Produces(call.fn) \subseteq {"right", "other"}
      BY DEF Produces
    <3> QED BY <2>1, <3>1 DEF Crypt
  <2>2. CASE ok' = FALSE
    BY <2>2 DEF Crypt
  <2> QED BY <1>1, <2>1, <2>2
<1>3. /\ output' \in [bytes : Nat, data : {"zero", "right", "other"}]
      /\ output'.bytes = output.bytes /\ output'.data = d
  BY <1>2 DEF CallTypeOK
<1>4. WorkerInv'
  BY <1>1 DEF WorkerInv
<1>5. HandleInv'
  BY <1>1 DEF HandleInv, SetUp
<1>6. BufferInv'
  BY <1>1, <1>2, <1>3 DEF BufferInv, SetUp, ResultBytes
<1>7. CallTypeOK'
  BY <1>1, <1>3 DEF CallTypeOK, CallPcs, SetUp
<1> QED BY <1>4, <1>5, <1>6, <1>7

LEMMA DestroyCall ==
    ASSUME CallInv, Destroy
    PROVE CallInv'
<1> USE DEF CallInv
<1>1. /\ pc = "destroy" /\ call' = call /\ ok' = ok /\ output' = output /\ pc' = "close"
      /\ handles' = handles \ {"key", "hash"} /\ call.fn \in Functions
  BY DEF Destroy, WorkerInv
<1>2. WorkerInv'
  BY <1>1 DEF WorkerInv
<1>3. HandleInv'
  BY <1>1 DEF HandleInv, SetUp
<1>4. BufferInv'
  BY <1>1 DEF BufferInv, SetUp, ResultBytes
<1>5. CallTypeOK'
  BY <1>1 DEF CallTypeOK, CallPcs, SetUp
<1> QED BY <1>2, <1>3, <1>4, <1>5

LEMMA CloseCall ==
    ASSUME CallInv, Close
    PROVE CallInv'
<1> USE DEF CallInv
<1>1. /\ pc = "close" /\ call' = call /\ ok' = ok /\ pc' = "returned"
      /\ handles' = handles \ {"alg"} /\ call.fn \in Functions
  BY DEF Close, WorkerInv
<1>2. (ok = TRUE /\ output' = output) \/ (ok = FALSE /\ output' = Empty)
  <2>1. ok = TRUE \/ ok = FALSE
    BY DEF CallTypeOK
  <2>2. CASE ok = TRUE
    BY <2>2 DEF Close
  <2>3. CASE ok = FALSE
    BY <2>3 DEF Close
  <2> QED BY <2>1, <2>2, <2>3
<1>3. WorkerInv'
  BY <1>1 DEF WorkerInv
<1>4. HandleInv'
  BY <1>1 DEF HandleInv, SetUp
<1>5. BufferInv'
  BY <1>1, <1>2 DEF BufferInv, SetUp, ResultBytes, Empty
<1>6. CallTypeOK'
  BY <1>1, <1>2 DEF CallTypeOK, CallPcs, SetUp, Empty
<1> QED BY <1>3, <1>4, <1>5, <1>6

LEMMA ReturnCall ==
    ASSUME CallInv, pc = "returned", Return
    PROVE CallInv'
<1> USE DEF CallInv
<1>1. /\ pc' = "idle" /\ call' = NoCall /\ output' = Empty /\ ok' = FALSE
      /\ handles' = handles /\ handles = {}
  BY DEF Return, HandleInv
<1>2. CallTypeOK'
  BY <1>1 DEF CallTypeOK, CallPcs, Calls, NoCall, Empty
<1>3. WorkerInv'
  BY <1>1 DEF WorkerInv
<1>4. HandleInv'
  BY <1>1 DEF HandleInv, SetUp
<1>5. BufferInv'
  BY <1>1 DEF BufferInv, SetUp
<1> QED BY <1>2, <1>3, <1>4, <1>5

LEMMA ProviderCall ==
    ASSUME CallInv, ProviderStep
    PROVE CallInv' /\ test' = test /\ call' = call /\ pc # "idle" /\ pc' # "idle"
<1>1. CallInv'
  BY SetUpSucceedsCall, SetUpFailsCall, HashDataCall, CryptCall, DestroyCall, CloseCall
  DEF ProviderStep
<1>2. test' = test /\ call' = call /\ pc # "idle"
  BY DEF ProviderStep, SetUpSucceeds, SetUpFails, HashData, Crypt, Destroy, Close, SetUp
<1>3. pc' # "idle"
  <2>1. CASE SetUpSucceeds
    <3>1. pc \in SetUp /\ handles' = handles \cup Gains(pc)
      BY <2>1 DEF SetUpSucceeds
    <3>2. handles' # {}
      BY <3>1 DEF CallInv, HandleInv, SetUp, Gains
    <3> QED BY <1>1, <3>2 DEF CallInv, HandleInv
  <2>2. CASE ~SetUpSucceeds
    BY <2>2 DEF ProviderStep, SetUpFails, HashData, Crypt, Destroy, Close
  <2> QED BY <2>1, <2>2
<1> QED BY <1>1, <1>2, <1>3

-----------------------------------------------------------------------------
(* The self tests *)

(* The calls of the known-answer vectors have arguments of the right types. *)
LEMMA VectorCalls ==
    ASSUME NEW fn \in Functions
    PROVE VectorCall(fn) \in Calls /\ VectorCall(fn).fn = fn
BY DEF VectorCall, Calls

LEMMA VectorRight ==
    ASSUME NEW t \in Tests, NEW v \in {"passed", "none"}, NEW u,
           u = [t EXCEPT !.verdict = v, !.step = @ + 1, !.right = @ + 1]
    PROVE /\ u \in Tests /\ u.name = t.name /\ u.verdict = v
          /\ u.step = t.step + 1 /\ u.right = t.right + 1
<1>1. u = [name |-> t.name, step |-> t.step + 1, verdict |-> v, right |-> t.right + 1]
  BY DEF Tests
<1>2. /\ t.name \in DOMAIN self_tests \cup {"none"}
      /\ t.step + 1 \in Nat /\ t.right + 1 \in Nat
  BY DEF Tests
<1>3. u \in Tests
  BY <1>1, <1>2 DEF Tests
<1>4. u.name = t.name /\ u.verdict = v
  BY <1>1
<1>5. u.step = t.step + 1 /\ u.right = t.right + 1
  BY <1>1
<1> QED BY <1>3, <1>4, <1>5

LEMMA TestStepTest ==
    ASSUME CallInv, TestTypeOK, TestInv, TestStep
    PROVE CallInv' /\ TestTypeOK' /\ TestInv'
<1>1. ASSUME NEW name \in DOMAIN self_tests, TestStarts(name)
      PROVE CallInv' /\ TestTypeOK' /\ TestInv'
  <2>1. /\ Len(self_tests[name]) \in Nat \ {0}
        /\ self_tests[name][1] \in Functions
    BY TestsThere
  <2>2. CallInv' /\ pc' # "idle"
    BY <1>1, <2>1, VectorCalls, BeginCall DEF TestStarts
  <2>3. test' = [name |-> name, step |-> 1, verdict |-> "none", right |-> 0]
    BY <1>1 DEF TestStarts
  <2>4. name # "none"
    BY DEF self_tests
  <2>5. TestTypeOK'
    BY <2>3 DEF TestTypeOK, Tests
  <2>6. TestInv'
    BY <2>1, <2>3, <2>4 DEF TestInv
  <2> QED BY <2>2, <2>5, <2>6
<1>2. CASE TestReturn
  <2> DEFINE n == Len(self_tests[test.name])
  <2>1. test.name \in DOMAIN self_tests /\ pc = "returned" /\ pc' = "idle"
    BY <1>2 DEF TestReturn, TestTypeOK, Tests, Return
  <2>2. n \in Nat \ {0}
    BY <2>1, TestsThere
  <2>3. test.verdict = "none" /\ test.step \in 1..n /\ test.step = test.right + 1
    BY <1>2, <2>1 DEF TestReturn, TestInv
  <2>4. test' \in {[test EXCEPT !.verdict = "failed"],
                   [test EXCEPT !.verdict = IF test.step = n THEN "passed" ELSE "none",
                                !.step = @ + 1, !.right = @ + 1]}
    BY <1>2 DEF TestReturn
  <2>5. CallInv'
    BY <1>2, <2>1, ReturnCall DEF TestReturn
  <2> HIDE DEF n
  <2>6. /\ TestTypeOK' /\ test'.name = test.name
        /\ \/ test'.verdict = "failed"
           \/ /\ test'.verdict = IF test.step = n THEN "passed" ELSE "none"
              /\ test'.step = test.step + 1 /\ test'.right = test.right + 1
    <3>1. CASE test' = [test EXCEPT !.verdict = "failed"]
      <4>1. test' = [name |-> test.name, step |-> test.step, verdict |-> "failed",
                     right |-> test.right]
        BY <3>1, SMTT(30) DEF TestTypeOK, Tests
      <4>2. test.name \in DOMAIN self_tests /\ test.step \in Nat /\ test.right \in Nat
        BY <2>1, SMTT(30) DEF TestTypeOK, Tests
      <4> QED BY <4>1, <4>2 DEF TestTypeOK, Tests
    <3>2. ASSUME NEW v \in {"passed", "none"},
                 test' = [test EXCEPT !.verdict = v, !.step = @ + 1, !.right = @ + 1]
          PROVE /\ TestTypeOK' /\ test'.name = test.name /\ test'.verdict = v
                /\ test'.step = test.step + 1 /\ test'.right = test.right + 1
      BY <3>2, VectorRight DEF TestTypeOK
    <3>3. CASE test.step = n
      BY <2>4, <3>1, <3>2, <3>3
    <3>4. CASE test.step # n
      BY <2>4, <3>1, <3>2, <3>4
    <3> QED BY <3>3, <3>4
  <2>7. TestInv'
    <3>1. /\ test'.verdict = "passed" => test'.right = n
          /\ test'.verdict = "none" => test'.step \in 1..n /\ test'.step = test'.right + 1
      BY <2>2, <2>3, <2>6 DEF TestTypeOK, Tests
    <3> QED BY <1>2, <2>1, <2>6, <3>1 DEF TestInv, TestReturn, n
  <2> QED BY <2>5, <2>6, <2>7
<1>3. CASE TestContinues
  <2>1. test.name \in DOMAIN self_tests /\ test.step \in 1..Len(self_tests[test.name])
    BY <1>3 DEF TestContinues, TestTypeOK, Tests, TestInv
  <2>2. self_tests[test.name][test.step] \in Functions
    BY <2>1, TestsThere
  <2>3. CallInv' /\ pc' # "idle"
    BY <1>3, <2>2, VectorCalls, BeginCall DEF TestContinues
  <2>4. test' = test /\ test.verdict = "none"
    BY <1>3 DEF TestContinues
  <2>5. TestTypeOK' /\ TestInv'
    BY <2>4 DEF TestTypeOK, TestInv
  <2> QED BY <2>3, <2>5
<1>4. CASE TestEnds
  <2>1. test' = NoTest /\ UNCHANGED <<call, pc, handles, output, ok>>
    BY <1>4 DEF TestEnds
  <2>2. CallInv'
    BY <2>1 DEF CallInv, CallTypeOK, WorkerInv, HandleInv, BufferInv, ResultBytes
  <2>3. TestTypeOK' /\ TestInv'
    <3>1. /\ test'.name = "none" /\ test'.step = 0 /\ test'.verdict = "none"
          /\ test'.right = 0
      BY <2>1 DEF NoTest
    <3>2. TestTypeOK'
      BY <2>1 DEF TestTypeOK, Tests, NoTest
    <3>3. TestInv'
      BY <2>1, <3>1, Zenon DEF TestInv
    <3> QED BY <3>2, <3>3
  <2> QED BY <2>2, <2>3
<1> QED BY <1>1, <1>2, <1>3, <1>4 DEF TestStep

-----------------------------------------------------------------------------
(* The decryptor *)

LEMMA CryptoUnchanged ==
    ASSUME CallInv, TestTypeOK, TestInv, UNCHANGED cryptoVars
    PROVE CallInv' /\ TestTypeOK' /\ TestInv'
BY DEF cryptoVars, CallInv, CallTypeOK, WorkerInv, HandleInv, BufferInv, ResultBytes,
       TestTypeOK, TestInv

LEMMA InitInv == Init => IInv
<1> SUFFICES ASSUME Init PROVE IInv
  OBVIOUS
<1>1. CallTypeOK
  BY DEF Init, CryptoInit, CallTypeOK, CallPcs, Calls, NoCall, Empty
<1>2. WorkerInv /\ HandleInv /\ BufferInv
  BY DEF Init, CryptoInit, WorkerInv, HandleInv, BufferInv, SetUp
<1>3. test = NoTest
  BY DEF Init, CryptoInit
<1>4. TestTypeOK
  BY <1>3 DEF TestTypeOK, Tests, NoTest
<1>5. TestInv
  <2>1. NoTest.name = "none" /\ NoTest.verdict = "none"
    BY DEF NoTest
  <2> QED BY <1>3, <2>1, Zenon DEF TestInv
<1>6. DecryptorTypeOK
  <2>1. crypto_ \in [have : BOOLEAN, eiv : {0, 16}]
    BY DEF Init, NoCrypto
  <2>2. stream_ \in [have : BOOLEAN, format : Nat, alac : BOOLEAN, rate : Nat,
                    spf : Nat, pt : Nat, shk : Nat]
    BY DEF Init, NoStream
  <2>3. alac_decoder_ \in [rate : Nat, spf : Nat]
    BY DEF Init, NoDecoder
  <2>4. stats_ \in [Counters -> Nat]
    BY DEF Init, ZeroStats
  <2>5. packet \in [bytes : Nat, offset : Nat, pt : Nat]
    BY DEF Init, NoPacket
  <2>6. queued \in [frames : Nat, room : Nat]
    BY DEF Init, NoFrame
  <2> QED BY <2>1, <2>2, <2>3, <2>4, <2>5, <2>6 DEF Init, DecryptorTypeOK
<1>7. PacketInv /\ KeyInv
  BY DEF Init, PacketInv, KeyInv
<1>8. StreamInv
  BY DEF Init, StreamInv, NoStream
<1>9. StatsInv
  <2>1. stats_ = ZeroStats /\ packet = NoPacket
    BY DEF Init
  <2> QED BY <2>1, ZeroAddsUp, Zenon DEF StatsInv
<1>10. FrameInv
  <2>1. queued.frames = 0 /\ queued.room = 0
    BY DEF Init, NoFrame
  <2> QED BY <2>1 DEF FrameInv
<1> QED BY <1>10, <1>1, <1>2, <1>4, <1>5, <1>6, <1>7, <1>8, <1>9 DEF IInv, CallInv, DecryptorInv

LEMMA ConfigTyped ==
    ASSUME NEW s, s.rate \in Nat, s.spf \in Nat
    PROVE decoder_config(s) \in [rate : Nat, spf : Nat]
<1>1. s.rate % Word \in Nat /\ s.spf % Word \in Nat
  BY WordAssumption
<1> QED BY <1>1 DEF decoder_config

LEMMA SetUpCryptoInv ==
    ASSUME IInv, SetUpCrypto
    PROVE IInv'
<1> USE DEF IInv, DecryptorInv
<1>1. PICK group \in BOOLEAN, fairplay \in BOOLEAN, eiv \in {0, 16} :
         configure_crypto(group, fairplay, eiv)
  BY DEF SetUpCrypto
<1>2. CallInv' /\ TestTypeOK' /\ TestInv'
  BY <1>1, CryptoUnchanged DEF configure_crypto
<1>3. /\ packet = NoPacket /\ packet' = packet /\ queued' = queued
      /\ alac_decoder_' = alac_decoder_ /\ stream_' = NoStream /\ stats_' = ZeroStats
      /\ crypto_' = [have |-> TRUE, eiv |-> eiv]
      /\ aes_key_' = fairplay /\ direct_stream_key_' = group
      /\ (fairplay = TRUE => eiv = 16) /\ on_audio_' = on_audio_
  BY <1>1 DEF configure_crypto, Idle
<1>4. DecryptorTypeOK'
  <2>1. crypto_' \in [have : BOOLEAN, eiv : {0, 16}]
    BY <1>3
  <2>2. stream_' \in [have : BOOLEAN, format : Nat, alac : BOOLEAN, rate : Nat,
                     spf : Nat, pt : Nat, shk : Nat]
    BY <1>3 DEF NoStream
  <2>3. stats_' \in [Counters -> Nat]
    BY <1>3 DEF ZeroStats
  <2> QED BY <1>3, <2>1, <2>2, <2>3 DEF DecryptorTypeOK
<1>5. PacketInv' /\ KeyInv'
  BY <1>3 DEF PacketInv, KeyInv
<1>6. StreamInv'
  BY <1>3 DEF StreamInv, NoStream
<1>7. StatsInv'
  <2>1. AddsUp(stats_', IF packet' # NoPacket THEN 1 ELSE 0) /\ ~Failures(stats_')
    BY <1>3, ZeroAddsUp
  <2> QED BY <1>3, <2>1 DEF StatsInv, AddsUp, Failures
<1>8. FrameInv'
  BY <1>3 DEF FrameInv
<1> QED BY <1>2, <1>4, <1>5, <1>6, <1>7, <1>8

LEMMA SetUpStreamInv ==
    ASSUME IInv, SetUpStream
    PROVE IInv'
<1> USE DEF IInv, DecryptorInv
<1>1. PICK format \in Formats, ct \in {2, 8}, rate \in SampleRates, spf \in FrameSizes,
           pt \in PayloadTypes, shk \in {0, 32}, done \in BOOLEAN :
         configure_stream([have |-> TRUE, format |-> format, alac |-> IsAlac(format, ct),
                           rate |-> rate, spf |-> spf, pt |-> pt, shk |-> shk], done)
  BY DEF SetUpStream
<1> DEFINE s == [have |-> TRUE, format |-> format, alac |-> IsAlac(format, ct),
                 rate |-> rate, spf |-> spf, pt |-> pt, shk |-> shk]
<1>2. CallInv' /\ TestTypeOK' /\ TestInv'
  BY <1>1, CryptoUnchanged DEF configure_stream
<1>3. /\ packet' = packet /\ queued' = queued /\ stats_' = stats_ /\ crypto_' = crypto_
      /\ aes_key_' = aes_key_ /\ direct_stream_key_' = direct_stream_key_
      /\ stream_' = s /\ packet = NoPacket /\ on_audio_' = on_audio_
  BY <1>1 DEF configure_stream, Idle
<1>4. /\ s \in [have : BOOLEAN, format : Nat, alac : BOOLEAN, rate : Nat,
                spf : Nat, pt : Nat, shk : Nat]
      /\ s.alac = TRUE => s.format = 18
  <2>1. format \in Nat /\ rate \in Nat /\ spf \in Nat /\ pt \in Nat /\ shk \in Nat
    BY SizesAssumption
  <2> QED BY <2>1 DEF IsAlac
<1>5. /\ alac_decoder_' = alac_decoder_ \/ alac_decoder_' = decoder_config(s)
      /\ (s.alac = TRUE /\ last_error_' # "alac") => alac_decoder_' = decoder_config(s)
      /\ last_error_ # "" => last_error_' # ""
  <2> HIDE DEF s
  <2>1. configure_stream(s, done)
    BY <1>1 DEF s
  <2>2. CASE s.alac = TRUE
    <3>1. /\ Configures(decoder_config(s), done)
          /\ last_error_' = IF done THEN last_error_ ELSE "alac"
      BY <2>1, <2>2 DEF configure_stream
    <3>2. CASE done = TRUE
      BY <3>1, <3>2 DEF Configures
    <3>3. CASE done = FALSE
      BY <3>1, <3>3 DEF Configures
    <3> QED BY <3>2, <3>3
  <2>3. CASE s.alac = FALSE
    BY <2>1, <2>3 DEF configure_stream
  <2> QED BY <1>4, <2>2, <2>3
<1> HIDE DEF s
<1>6. DecryptorTypeOK'
  <2>1. decoder_config(s) \in [rate : Nat, spf : Nat]
    BY <1>4, ConfigTyped
  <2>2. alac_decoder_' \in [rate : Nat, spf : Nat]
    BY <1>5, <2>1 DEF DecryptorTypeOK
  <2>3. stream_' \in [have : BOOLEAN, format : Nat, alac : BOOLEAN, rate : Nat,
                     spf : Nat, pt : Nat, shk : Nat]
    BY <1>3, <1>4
  <2> QED BY <1>3, <2>2, <2>3 DEF DecryptorTypeOK
<1>7. PacketInv' /\ KeyInv'
  BY <1>3 DEF PacketInv, KeyInv
<1>8. StreamInv'
  <2>1. decoder_config(stream_)' = decoder_config(s)
    BY <1>3 DEF decoder_config
  <2> QED BY <1>3, <1>4, <1>5, <2>1 DEF StreamInv
<1>9. StatsInv'
  BY <1>3, <1>5 DEF StatsInv, AddsUp, Failures
<1>10. FrameInv'
  BY <1>3 DEF FrameInv
<1> QED BY <1>10, <1>2, <1>6, <1>7, <1>8, <1>9

(* The call made for a payload that has room for its layout is not refused. *)
LEMMA Airplay2Call ==
    ASSUME NEW p \in [bytes : Nat, offset : Nat, pt : Nat], PayloadBytes(p) >= TrailerBytes
    PROVE /\ airplay2_call(p) \in Calls /\ ~Refused(airplay2_call(p))
          /\ airplay2_call(p).fn = "chacha20_poly1305_decrypt"
          /\ airplay2_call(p).input = PayloadBytes(p) - TrailerBytes
<1> DEFINE c == airplay2_call(p)
<1>1. c = [fn |-> "chacha20_poly1305_decrypt", key |-> 32, iv |-> 12, tag |-> 16,
           input |-> PayloadBytes(p) - TrailerBytes, null |-> FALSE]
  <2>1. /\ airplay2_bounds(p).tag = p.bytes - 16 /\ airplay2_bounds(p).nonce = p.bytes - 24
        /\ airplay2_bounds(p).bytes = PayloadBytes(p) - TrailerBytes
    BY DEF airplay2_bounds, TrailerBytes
  <2>2. 4 + ((p.bytes - 16) - (p.bytes - 24)) = 12 /\ p.bytes - (p.bytes - 16) = 16
    OBVIOUS
  <2> QED BY <2>1, <2>2, Zenon DEF airplay2_call
<1>2. PayloadBytes(p) - TrailerBytes \in Nat
  BY DEF PayloadBytes, TrailerBytes
<1> HIDE DEF c
<1>3. c \in Calls
  BY <1>1, <1>2 DEF Calls, Functions, chacha
<1>4. ~Refused(c)
  BY <1>1 DEF Refused, ChachaRefuses, aes_128_no_padding, chacha, digest_bytes
<1> QED BY <1>1, <1>3, <1>4 DEF c

LEMMA RaopCall ==
    ASSUME NEW p \in [bytes : Nat, offset : Nat, pt : Nat], PayloadBytes(p) >= 0,
           crypto_.eiv = 16
    PROVE /\ raop_call(p) \in Calls /\ ~Refused(raop_call(p))
          /\ raop_call(p).fn = "aes_128_cbc_decrypt"
          /\ raop_call(p).input = encrypted_bytes(p)
<1> DEFINE c == raop_call(p)
<1>1. c = [fn |-> "aes_128_cbc_decrypt", key |-> 16, iv |-> 16, tag |-> 0,
           input |-> encrypted_bytes(p), null |-> FALSE]
  BY DEF raop_call
<1>2. encrypted_bytes(p) \in Nat /\ encrypted_bytes(p) % 16 = 0
  <2>1. PayloadBytes(p) \in Nat
    BY DEF PayloadBytes
  <2>2. PICK n \in Nat : n = PayloadBytes(p) \div 16
    BY <2>1
  <2> QED BY <2>2 DEF encrypted_bytes
<1> HIDE DEF c
<1>3. c \in Calls
  BY <1>1, <1>2 DEF Calls, Functions, aes_128_no_padding
<1>4. ~Refused(c)
  BY <1>1, <1>2 DEF Refused, AesRefuses, aes_128_no_padding, chacha, digest_bytes, chaining_cbc
<1> QED BY <1>1, <1>3, <1>4 DEF c

(* What the types and StreamInv need of a step that leaves the set-ups. *)
SetUpsKept ==
    UNCHANGED <<crypto_, aes_key_, direct_stream_key_, stream_, on_audio_,
                alac_decoder_>>

LEMMA KeptInv ==
    ASSUME DecryptorInv, SetUpsKept, last_error_' # "alac" => last_error_ # "alac"
    PROVE KeyInv' /\ StreamInv'
<1>1. decoder_config(stream_)' = decoder_config(stream_)
  BY DEF SetUpsKept, decoder_config
<1> QED BY <1>1 DEF SetUpsKept, DecryptorInv, KeyInv, StreamInv

LEMMA ReceivePacketInv ==
    ASSUME IInv, ReceivePacket
    PROVE IInv'
<1> USE DEF IInv, DecryptorInv
<1>1. PICK bytes \in DatagramBytes, csrc \in CsrcCounts, pt \in {0, 96} :
         /\ parse_header(bytes, 2, csrc)
         /\ handle_packet([bytes |-> bytes, offset |-> payload_offset(csrc), pt |-> pt])
  BY DEF ReceivePacket
<1> DEFINE p == [bytes |-> bytes, offset |-> payload_offset(csrc), pt |-> pt]
           seen == Count(stats_, "packets_seen")
<1>2. p \in [bytes : Nat, offset : Nat, pt : Nat] /\ PayloadBytes(p) >= 0
  <2>1. bytes \in Nat /\ csrc \in Nat
    BY SizesAssumption
  <2> QED BY <1>1, <2>1 DEF parse_header, payload_offset, PayloadBytes
<1>3. /\ packet = NoPacket /\ pc = "idle" /\ test = NoTest
      /\ stats_ \in [Counters -> Nat] /\ AddsUp(stats_, 0)
      /\ Failures(stats_) => last_error_ # ""
  BY DEF ReceivePacket, Idle, DecryptorTypeOK, StatsInv
<1>4. /\ seen \in [Counters -> Nat] /\ AddsUp(seen, 1) /\ AddsUp(seen, 0)
      /\ Failures(seen) => Failures(stats_)
  BY <1>3, SeenAddsUp
<1> HIDE DEF p, seen
<1>5. SetUpsKept /\ queued' = queued
  BY <1>1 DEF handle_packet, SetUpsKept
<1>6. ASSUME stats_' = Count(seen, "decrypt_failures"), KeepError("layout"),
             UNCHANGED <<cryptoVars, packet>>
      PROVE IInv'
  <2>1. CallInv' /\ TestTypeOK' /\ TestInv'
    BY <1>6, CryptoUnchanged
  <2>2. stats_' \in [Counters -> Nat] /\ AddsUp(stats_', 0)
    BY <1>4, <1>6, FailedAddsUp
  <2>3. last_error_' # "" /\ (last_error_' # "alac" => last_error_ # "alac")
    BY <1>6 DEF KeepError
  <2>4. KeyInv' /\ StreamInv'
    BY <1>5, <2>3, KeptInv
  <2>5. DecryptorTypeOK'
    BY <1>5, <1>6, <2>2 DEF DecryptorTypeOK, SetUpsKept
  <2>6. PacketInv' /\ FrameInv'
    BY <1>3, <1>5, <1>6 DEF PacketInv, FrameInv
  <2>7. StatsInv'
    BY <1>3, <1>5, <1>6, <2>2, <2>3 DEF StatsInv, AddsUp, Failures, SetUpsKept
  <2> QED BY <2>1, <2>4, <2>5, <2>6, <2>7
<1>7. ASSUME NEW c \in Calls, Begin(c), packet' = p, stats_' = seen,
             UNCHANGED <<test, last_error_>>, ~Refused(c),
             \/ /\ c.fn = "chacha20_poly1305_decrypt"
                /\ c.input = PayloadBytes(p) - TrailerBytes
             \/ c.fn = "aes_128_cbc_decrypt" /\ c.input = encrypted_bytes(p)
      PROVE IInv'
  <2>1. c.fn \in Functions
    BY <1>7 DEF Functions, chacha, aes_128_no_padding
  <2>2. CallInv' /\ call' = c /\ pc' # "idle"
    BY <1>7, <2>1, BeginCall
  <2>3. TestTypeOK' /\ TestInv'
    <3>1. test' = NoTest /\ test' = test
      BY <1>3, <1>7
    <3>2. NoTest.name = "none" /\ NoTest.verdict = "none"
      BY DEF NoTest
    <3> QED BY <3>1, <3>2, Zenon DEF TestTypeOK, TestInv
  <2>4. KeyInv' /\ StreamInv'
    BY <1>5, <1>7, KeptInv
  <2>5. DecryptorTypeOK'
    BY <1>2, <1>4, <1>5, <1>7 DEF DecryptorTypeOK, SetUpsKept
  <2>6. PacketInv' /\ FrameInv'
    <3>1. ~Refused(call)'
      BY <1>7, <2>2 DEF Refused, AesRefuses, ChachaRefuses, DigestRefuses
    <3>2. \/ call'.fn = "chacha20_poly1305_decrypt"
             /\ call'.input = PayloadBytes(packet') - TrailerBytes
          \/ call'.fn = "aes_128_cbc_decrypt" /\ call'.input = encrypted_bytes(packet')
      BY <1>7, <2>2
    <3> QED BY <1>3, <1>5, <1>7, <2>2, <3>1, <3>2 DEF PacketInv, FrameInv, PayloadBytes,
               encrypted_bytes
  <2>7. StatsInv'
    BY <1>3, <1>4, <1>5, <1>7 DEF StatsInv, AddsUp, Failures, SetUpsKept
  <2> QED BY <2>2, <2>3, <2>4, <2>5, <2>6, <2>7
<1>8. ASSUME stats_' = seen, UNCHANGED <<cryptoVars, packet, last_error_>>
      PROVE IInv'
  <2>1. CallInv' /\ TestTypeOK' /\ TestInv'
    BY <1>8, CryptoUnchanged
  <2>2. KeyInv' /\ StreamInv'
    BY <1>5, <1>8, KeptInv
  <2>3. DecryptorTypeOK'
    BY <1>4, <1>5, <1>8 DEF DecryptorTypeOK, SetUpsKept
  <2>4. PacketInv' /\ FrameInv'
    BY <1>3, <1>5, <1>8 DEF PacketInv, FrameInv
  <2>5. StatsInv'
    BY <1>3, <1>4, <1>5, <1>8 DEF StatsInv, AddsUp, Failures, SetUpsKept
  <2> QED BY <2>1, <2>2, <2>3, <2>4, <2>5
<1>9. \/ /\ stats_' = Count(seen, "decrypt_failures") /\ KeepError("layout")
         /\ UNCHANGED <<cryptoVars, packet>>
      \/ /\ PayloadBytes(p) >= TrailerBytes /\ Begin(airplay2_call(p)) /\ packet' = p
         /\ stats_' = seen /\ UNCHANGED <<test, last_error_>>
      \/ /\ aes_key_ = TRUE /\ Begin(raop_call(p)) /\ packet' = p
         /\ stats_' = seen /\ UNCHANGED <<test, last_error_>>
      \/ stats_' = seen /\ UNCHANGED <<cryptoVars, packet, last_error_>>
  <2>1. handle_packet(p)
    BY <1>1 DEF p
  <2>2. PayloadBytes(p) \in Int
    BY <1>2 DEF PayloadBytes
  <2> QED BY <2>1, <2>2 DEF handle_packet, seen, TrailerBytes
<1>10. CASE PayloadBytes(p) >= TrailerBytes /\ Begin(airplay2_call(p)) /\ packet' = p
            /\ stats_' = seen /\ UNCHANGED <<test, last_error_>>
  BY <1>2, <1>7, <1>10, Airplay2Call
<1>11. CASE aes_key_ = TRUE /\ Begin(raop_call(p)) /\ packet' = p
            /\ stats_' = seen /\ UNCHANGED <<test, last_error_>>
  <2>1. crypto_.eiv = 16
    BY <1>11 DEF KeyInv
  <2> QED BY <1>2, <1>7, <1>11, <2>1, RaopCall
<1> QED BY <1>6, <1>8, <1>9, <1>10, <1>11

LEMMA PacketReturnsInv ==
    ASSUME IInv, PacketReturns
    PROVE IInv'
<1> USE DEF IInv, DecryptorInv
<1>1. /\ packet # NoPacket /\ packet' = NoPacket /\ pc = "returned" /\ Return
      /\ SetUpsKept /\ test' = test
  BY DEF PacketReturns, SetUpsKept
<1>2. /\ stats_ \in [Counters -> Nat] /\ AddsUp(stats_, 1)
      /\ Failures(stats_) => last_error_ # "" /\ test = NoTest
  BY <1>1 DEF DecryptorTypeOK, StatsInv, PacketInv
<1>3. CallInv'
  BY <1>1, ReturnCall
<1>4. TestTypeOK' /\ TestInv'
  <2>1. NoTest.name = "none" /\ NoTest.verdict = "none"
    BY DEF NoTest
  <2> QED BY <1>1, <1>2, <2>1, Zenon DEF TestTypeOK, TestInv
(* Whatever the datagram came to, it was counted, a new failure left an     *)
(* error behind, and a queued frame fits.                                   *)
<1> DEFINE Counted == /\ stats_' \in [Counters -> Nat] /\ AddsUp(stats_', 0)
                      /\ Failures(stats_') => last_error_' # ""
                      /\ last_error_' # "alac" => last_error_ # "alac"
                      /\ queued' \in [frames : Nat, room : Nat] /\ FrameInv'
<1>5. Counted
  <2>0. /\ queued \in [frames : Nat, room : Nat] /\ FrameInv
        /\ alac_decoder_.spf \in Nat
    BY DEF DecryptorTypeOK
  <2>1. CASE ok = FALSE
    <3>1. /\ stats_' = Count(stats_, "decrypt_failures") /\ KeepError("decrypt")
          /\ queued' = queued
      BY <2>1 DEF PacketReturns
    <3>2. stats_' \in [Counters -> Nat] /\ AddsUp(stats_', 0)
      BY <1>2, <3>1, FailedAddsUp
    <3>3. last_error_' # "" /\ (last_error_' # "alac" => last_error_ # "alac")
      BY <3>1 DEF KeepError
    <3> QED BY <2>0, <3>1, <3>2, <3>3 DEF FrameInv
  <2>2. ASSUME NEW frames \in {0, 1, alac_decoder_.spf, alac_decoder_.spf + 1},
               decode_frame(frames), on_audio_ = TRUE
        PROVE Counted
    <3> DEFINE a == Count(Count(stats_, "packets_decrypted"), "alac_like_frames")
               d == Count(Count(a, "alac_frames_decoded"), "audio_frames_queued")
               f == Count(a, "alac_decode_failures")
    <3>1. /\ d \in [Counters -> Nat] /\ AddsUp(d, 0) /\ (Failures(d) => Failures(stats_))
          /\ f \in [Counters -> Nat] /\ AddsUp(f, 0)
      BY <1>2, <2>2, AlacFrameAddsUp
    <3>2. CASE alac_decoder_ # NoDecoder /\ frames \in 1..alac_decoder_.spf
      <4>1. /\ stats_' = d /\ last_error_' = last_error_
            /\ queued' = [frames |-> frames, room |-> alac_decoder_.spf]
        BY <2>2, <3>2 DEF decode_frame
      <4> HIDE DEF d
      <4>2. queued' \in [frames : Nat, room : Nat] /\ queued'.frames <= queued'.room
        BY <2>0, <3>2, <4>1
      <4> QED BY <1>2, <3>1, <4>1, <4>2 DEF FrameInv
    <3>3. CASE ~(alac_decoder_ # NoDecoder /\ frames \in 1..alac_decoder_.spf)
      <4>1. stats_' = f /\ KeepError("decode") /\ queued' = queued
        BY <2>2, <3>3 DEF decode_frame
      <4> HIDE DEF f
      <4>2. last_error_' # "" /\ (last_error_' # "alac" => last_error_ # "alac")
        BY <4>1 DEF KeepError
      <4> QED BY <2>0, <3>1, <4>1, <4>2 DEF FrameInv
    <3> QED BY <3>2, <3>3
  <2>3. ASSUME NEW kind \in {"aac_eld_like_frames", "unknown_frames"},
               stats_' = Count(Count(stats_, "packets_decrypted"), kind),
               UNCHANGED <<last_error_, queued>>
        PROVE Counted
    <3>1. /\ stats_' \in [Counters -> Nat] /\ AddsUp(stats_', 0)
          /\ Failures(stats_') => Failures(stats_)
      BY <1>2, <2>3, OtherFrameAddsUp
    <3> QED BY <1>2, <2>0, <2>3, <3>1 DEF FrameInv
  <2>4. ASSUME on_audio_ = FALSE,
               stats_' = Count(Count(stats_, "packets_decrypted"), "alac_like_frames"),
               UNCHANGED <<last_error_, queued>>
        PROVE Counted
    <3>1. /\ stats_' \in [Counters -> Nat] /\ AddsUp(stats_', 0)
          /\ Failures(stats_') => Failures(stats_)
      BY <1>2, <2>4, UnheardFrameAddsUp
    <3> QED BY <1>2, <2>0, <2>4, <3>1 DEF FrameInv
  <2>5. ASSUME handle_alac_frame PROVE Counted
    <3>1. on_audio_ \in BOOLEAN
      BY DEF DecryptorTypeOK
    <3> QED BY <2>2, <2>4, <2>5, <3>1 DEF handle_alac_frame
  <2>6. CASE ok = TRUE
    <3>1. PICK marker \in {"alac", "aac_eld", "unknown"} : handle_decrypted_frame(marker)
      BY <2>6 DEF PacketReturns
    <3> QED BY <2>3, <2>5, <3>1 DEF handle_decrypted_frame
  <2> QED BY <2>1, <2>6 DEF CallInv, CallTypeOK
<1> HIDE DEF Counted
<1>6. KeyInv' /\ StreamInv'
  BY <1>1, <1>5, KeptInv DEF Counted
<1>7. DecryptorTypeOK'
  <2>1. NoPacket \in [bytes : Nat, offset : Nat, pt : Nat]
    BY DEF NoPacket
  <2> QED BY <1>1, <1>5, <2>1 DEF Counted, DecryptorTypeOK, SetUpsKept
<1>8. PacketInv'
  BY <1>1 DEF PacketInv
<1>9. StatsInv'
  BY <1>1, <1>5 DEF Counted, StatsInv, AddsUp, Failures, SetUpsKept
<1> QED BY <1>3, <1>4, <1>5, <1>6, <1>7, <1>8, <1>9 DEF Counted

LEMMA DecryptorUnchanged ==
    ASSUME DecryptorTypeOK, KeyInv, StreamInv, StatsInv, FrameInv,
           UNCHANGED <<decryptorVars, packet>>
    PROVE DecryptorTypeOK' /\ KeyInv' /\ StreamInv' /\ StatsInv' /\ FrameInv'
<1>1. /\ SetUpsKept /\ stats_' = stats_ /\ packet' = packet /\ queued' = queued
      /\ last_error_' = last_error_
  BY DEF decryptorVars, SetUpsKept
<1>2. DecryptorTypeOK'
  BY <1>1 DEF DecryptorTypeOK, SetUpsKept
<1>3. KeyInv' /\ StreamInv'
  <2>1. decoder_config(stream_)' = decoder_config(stream_)
    BY <1>1 DEF SetUpsKept, decoder_config
  <2> QED BY <1>1, <2>1 DEF SetUpsKept, KeyInv, StreamInv
<1>4. StatsInv'
  BY <1>1 DEF StatsInv, AddsUp, Failures, SetUpsKept
<1>5. FrameInv'
  BY <1>1 DEF FrameInv
<1> QED BY <1>2, <1>3, <1>4, <1>5

LEMMA ProviderInv ==
    ASSUME IInv, Provider
    PROVE IInv'
<1> USE DEF IInv, DecryptorInv
<1>1. CallInv' /\ test' = test /\ call' = call /\ pc # "idle" /\ pc' # "idle"
  BY ProviderCall DEF Provider
<1>2. DecryptorTypeOK' /\ KeyInv' /\ StreamInv' /\ StatsInv' /\ FrameInv' /\ packet' = packet
  BY DecryptorUnchanged DEF Provider
<1>3. TestTypeOK' /\ TestInv'
  BY <1>1, Zenon DEF TestTypeOK, TestInv
<1>4. PacketInv'
  BY <1>1, <1>2 DEF PacketInv, Refused, AesRefuses, ChachaRefuses, DigestRefuses,
     PayloadBytes, encrypted_bytes
<1> QED BY <1>1, <1>2, <1>3, <1>4

LEMMA SelfTestsInv ==
    ASSUME IInv, SelfTests
    PROVE IInv'
<1> USE DEF IInv, DecryptorInv
<1>1. CallInv' /\ TestTypeOK' /\ TestInv'
  BY TestStepTest DEF SelfTests
<1>2. DecryptorTypeOK' /\ KeyInv' /\ StreamInv' /\ StatsInv' /\ FrameInv' /\ packet' = packet
  BY DecryptorUnchanged DEF SelfTests
<1>3. packet = NoPacket
  <2>1. pc = "idle" \/ test.name # "none"
    BY DEF SelfTests, TestStep, TestStarts, Begin, TestReturn, TestContinues, TestEnds
  <2>2. NoTest.name = "none"
    BY DEF NoTest
  <2> QED BY <2>1, <2>2 DEF PacketInv
<1>4. PacketInv'
  BY <1>2, <1>3 DEF PacketInv
<1> QED BY <1>1, <1>2, <1>4

(* The invariant is inductive. *)
THEOREM Inductive == Spec => []IInv
<1>1. IInv /\ [Next]_vars => IInv'
  <2> SUFFICES ASSUME IInv, [Next]_vars PROVE IInv'
    OBVIOUS
  <2>1. CASE UNCHANGED vars
    <3>1. UNCHANGED cryptoVars /\ UNCHANGED <<decryptorVars, packet>>
      BY <2>1 DEF vars
    <3>2. CallInv' /\ TestTypeOK' /\ TestInv'
      BY <3>1, CryptoUnchanged DEF IInv
    <3>3. DecryptorTypeOK' /\ KeyInv' /\ StreamInv' /\ StatsInv' /\ FrameInv'
      BY <3>1, DecryptorUnchanged DEF IInv, DecryptorInv
    <3>4. PacketInv'
      BY <3>1 DEF IInv, DecryptorInv, PacketInv, Refused, AesRefuses, ChachaRefuses,
         DigestRefuses, PayloadBytes, encrypted_bytes, cryptoVars
    <3> QED BY <3>2, <3>3, <3>4 DEF IInv, DecryptorInv
  <2> QED BY <2>1, SetUpCryptoInv, SetUpStreamInv, ReceivePacketInv, PacketReturnsInv,
             ProviderInv, SelfTestsInv DEF Next
<1> QED BY <1>1, InitInv, PTL DEF Spec

-----------------------------------------------------------------------------
(* The properties *)

(* A call of crypto.cpp is all or nothing, whichever provider call fails,   *)
(* for any sizes of its arguments; a self test passes only when each of its *)
(* vectors came out right.                                                  *)
THEOREM CallsAreAllOrNothing == Spec => []AllOrNothing
<1>1. IInv => AllOrNothing
  <2> SUFFICES ASSUME IInv PROVE AllOrNothing
    OBVIOUS
  <2> USE DEF IInv, CallInv
  <2>1. handles \cap {"key", "hash"} # {} => "alg" \in handles
    BY DEF HandleInv, CallTypeOK, CallPcs, SetUp
  <2>2. pc \in {"idle", "returned"} => handles = {}
    BY DEF HandleInv
  <2>3. pc = "returned" =>
           IF ok THEN /\ output.bytes = IF call.fn \in DOMAIN digest_bytes
                                        THEN digest_bytes[call.fn] ELSE call.input
                      /\ output.data # "zero"
                 ELSE output.bytes = 0
    <3>1. CASE ok = TRUE
      BY <3>1 DEF BufferInv, ResultBytes
    <3>2. CASE ok = FALSE
      BY <3>2 DEF BufferInv
    <3> QED BY <3>1, <3>2 DEF CallTypeOK
  <2>4. test.verdict = "passed" => test.right = Len(self_tests[test.name])
    BY DEF TestInv
  <2> QED BY <2>1, <2>2, <2>3, <2>4 DEF AllOrNothing
<1> QED BY <1>1, Inductive, PTL

(* For any sizes of datagram, header and frame: a key that is ready comes   *)
(* with its IV, the ciphers accept what the layouts leave, no byte of the   *)
(* payload is lost, and the frame lies within the decoder's buffer.         *)
THEOREM FramesAreWhole == Spec => []WholeFrames
<1>1. IInv => WholeFrames
  <2> SUFFICES ASSUME IInv PROVE WholeFrames
    OBVIOUS
  <2> USE DEF IInv, DecryptorInv
  <2>1. key_ready => (have_stream_key \/ (aes_key_ /\ crypto_.eiv = 16))
    BY DEF key_ready, have_stream_key, KeyInv
  <2>2. packet # NoPacket => ~Refused(call)
    BY DEF PacketInv
  <2>3. ASSUME packet # NoPacket, pc = "returned", ok = TRUE
        PROVE PlaintextBytes = PayloadBytes(packet)
                               - IF call.fn \in chacha THEN TrailerBytes ELSE 0
    <3>1. output.bytes = ResultBytes
      BY <2>3 DEF CallInv, BufferInv
    <3>2. /\ packet.bytes \in Nat /\ packet.offset \in Nat
      BY DEF DecryptorTypeOK
    <3>3. PICK n \in Int : n = PayloadBytes(packet)
      BY <3>2 DEF PayloadBytes
    <3>4. PICK e \in Int : e = encrypted_bytes(packet)
      BY <3>3 DEF encrypted_bytes
    <3>5. CASE call.fn = "chacha20_poly1305_decrypt"
      <4>1. call.input = n - 24 /\ ResultBytes = call.input
        BY <2>3, <3>3, <3>5 DEF PacketInv, ResultBytes, digest_bytes, TrailerBytes
      <4> QED BY <3>1, <3>3, <3>5, <4>1 DEF PlaintextBytes, chacha, TrailerBytes
    <3>6. CASE call.fn = "aes_128_cbc_decrypt"
      <4>1. call.input = e /\ ResultBytes = call.input
        BY <2>3, <3>4, <3>6 DEF PacketInv, ResultBytes, digest_bytes
      <4> QED BY <3>1, <3>3, <3>4, <3>6, <4>1 DEF PlaintextBytes, chacha
    <3> QED BY <2>3, <3>5, <3>6 DEF PacketInv
  <2>4. queued.frames <= queued.room
    BY DEF FrameInv
  <2>5. ok \in BOOLEAN
    BY DEF CallInv, CallTypeOK
  <2> QED BY <2>1, <2>2, <2>3, <2>4, <2>5 DEF WholeFrames
<1> QED BY <1>1, Inductive, PTL

(* The decoder has the configuration of the stream in force, or last_error_ *)
(* says why not, for any rate and frame size, also those a uint32_t cannot  *)
(* hold; the one format it is configured for is 16-bit stereo ALAC.         *)
THEOREM DecoderFollows == Spec => []DecoderFollowsStream
<1>1. IInv => DecoderFollowsStream
  <2> SUFFICES ASSUME IInv PROVE DecoderFollowsStream
    OBVIOUS
  <2>1. stream_.alac \in BOOLEAN
    BY DEF IInv, DecryptorInv, DecryptorTypeOK
  <2>2. decoder_config(NoStream).rate = 44100
    BY DEF decoder_config, NoStream
  <2>3. describe_airplay_format(18) = [codec |-> "ALAC", rate |-> 44100,
                                       bits |-> 16, channels |-> 2]
    BY DEF describe_airplay_format
  <2>4. stream_.alac = TRUE =>
           /\ stream_.format = 18
           /\ last_error_ # "alac" => alac_decoder_ = decoder_config(stream_)
    BY DEF IInv, DecryptorInv, StreamInv
  <2>5. CASE stream_.alac = TRUE
    BY <2>2, <2>3, <2>4, <2>5 DEF DecoderFollowsStream
  <2>6. CASE stream_.alac = FALSE
    BY <2>6 DEF DecoderFollowsStream
  <2> QED BY <2>1, <2>5, <2>6
<1> QED BY <1>1, Inductive, PTL

(* The counters add up between any two datagrams, and a failure they show   *)
(* has left an error, however many datagrams and set-ups came before.       *)
THEOREM CountersAreRight == Spec => []CountersAddUp
<1>1. IInv => CountersAddUp
  <2> SUFFICES ASSUME IInv PROVE CountersAddUp
    OBVIOUS
  <2>1. /\ stats_ \in [Counters -> Nat]
        /\ packet = NoPacket => AddsUp(stats_, 0)
    BY DEF IInv, DecryptorInv, DecryptorTypeOK, StatsInv
  <2>2. \A c \in Counters : stats_[c] \in Nat
    BY <2>1
  <2>3. on_audio_ \in BOOLEAN
    BY DEF IInv, DecryptorInv, DecryptorTypeOK
  <2>4. packet = NoPacket =>
           /\ stats_.packets_seen >= stats_.packets_decrypted + stats_.decrypt_failures
           /\ stats_.packets_decrypted = stats_.alac_like_frames
                  + stats_.aac_eld_like_frames + stats_.unknown_frames
           /\ stats_.alac_frames_decoded + stats_.alac_decode_failures =
                  IF on_audio_ THEN stats_.alac_like_frames ELSE 0
           /\ stats_.audio_frames_queued = stats_.alac_frames_decoded
    BY <2>1, <2>2, <2>3 DEF AddsUp, Counters
  <2>5. (stats_.decrypt_failures > 0 \/ stats_.alac_decode_failures > 0)
           => last_error_ # ""
    BY DEF IInv, DecryptorInv, StatsInv, Failures
  <2> QED BY <2>4, <2>5 DEF CountersAddUp
<1> QED BY <1>1, Inductive, PTL
=============================================================================
