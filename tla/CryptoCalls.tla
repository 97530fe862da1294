------------------------------ MODULE CryptoCalls ------------------------------
(***************************************************************************)
(* One call of src/crypto/crypto.cpp at a time: the argument checks, the    *)
(* provider calls in the order the code makes them, any of which may fail,  *)
(* the handles held in between, and the caller's output buffer.  AES, the   *)
(* authenticated cipher and the digests share the actions: a worker is the  *)
(* table of its steps.  The self tests are callers with known answers.      *)
(*                                                                         *)
(* Sizes are in bytes; of contents the model only knows whether a buffer    *)
(* holds what a right key gives ("right"), something else ("other") or the  *)
(* zeroes it was allocated with ("zero").                                   *)
(***************************************************************************)
EXTENDS Integers, Sequences

VARIABLES
    call,       \* the function that runs and the sizes of its arguments
    pc,         \* the provider call to make next, "idle" or "returned"
    handles,    \* provider handles that the call holds
    output,     \* the caller's buffer
    ok,         \* status of the last provider call, then the result
    test        \* the self test that runs

cryptoVars == <<call, pc, handles, output, ok, test>>

Empty == [bytes |-> 0, data |-> "zero"]
NoCall == [fn |-> "none", key |-> 0, iv |-> 0, tag |-> 0, input |-> 0,
           null |-> FALSE]
NoTest == [name |-> "none", step |-> 0, verdict |-> "none", right |-> 0]

-----------------------------------------------------------------------------
(* The functions of crypto.h and their workers *)

aes_128_no_padding ==
    {"aes_128_cbc_decrypt", "aes_128_cbc_encrypt",
     "aes_128_ecb_decrypt", "aes_128_ecb_encrypt"}
chaining_cbc == {"aes_128_cbc_decrypt", "aes_128_cbc_encrypt"}
digest_bytes ==
    [sha1 |-> 20, sha256 |-> 32, sha512 |-> 64,
     hmac_sha1 |-> 20, hmac_sha256 |-> 32, hmac_sha512 |-> 64]
hmac == {"hmac_sha1", "hmac_sha256", "hmac_sha512"}
chacha == {"chacha20_poly1305_decrypt"}
Functions == aes_128_no_padding \cup chacha \cup DOMAIN digest_bytes

(* What the checks in front of the provider calls refuse.  The nonce of the *)
(* authenticated cipher is passed as iv.                                    *)
AesRefuses(c) ==
    c.key # 16 \/ (c.fn \in chaining_cbc /\ c.iv # 16) \/ c.input % 16 # 0
ChachaRefuses(c) == c.key # 32 \/ c.iv # 12 \/ c.tag # 16
DigestRefuses(c) == c.fn \in hmac /\ c.key = 0
Refused(c) ==
    \/ c.input # 0 /\ c.null
    \/ c.fn \in aes_128_no_padding /\ AesRefuses(c)
    \/ c.fn \in chacha /\ ChachaRefuses(c)
    \/ c.fn \in DOMAIN digest_bytes /\ DigestRefuses(c)

(* The provider calls up to the one that produces the output, in order. *)
AesSteps == <<"open", "chain", "object_length", "key", "crypt">>
ChachaSteps == <<"open", "object_length", "key", "crypt">>
DigestSteps ==
    <<"open", "object_length", "hash_length", "hash", "data", "finish">>
Steps(fn) == IF fn \in chacha THEN ChachaSteps
             ELSE IF fn \in aes_128_no_padding THEN AesSteps
             ELSE DigestSteps
StepAfter(fn, s) ==
    LET i == CHOOSE j \in DOMAIN Steps(fn) : Steps(fn)[j] = s
    IN Steps(fn)[i + 1]

SetUp == {"open", "chain", "object_length", "hash_length", "key", "hash"}
Gains(s) == IF s = "open" THEN {"alg"} ELSE {s} \cap {"key", "hash"}

-----------------------------------------------------------------------------
(* One call *)

Begin(c) ==
    /\ pc = "idle"
    /\ call' = c
    /\ output' = Empty
    /\ ok' = ~Refused(c)
    /\ pc' = IF Refused(c) THEN "returned" ELSE "open"
    /\ UNCHANGED handles

SetUpSucceeds ==
    /\ pc \in SetUp
    /\ handles' = handles \cup Gains(pc)
    /\ output' = IF pc = "key" THEN [bytes |-> call.input, data |-> "zero"]
                 ELSE output
    /\ pc' = StepAfter(call.fn, pc)
    /\ UNCHANGED <<call, ok, test>>

(* Mutant: a failure after the provider was opened leaves it open. *)
SetUpFailsLeaking ==
    /\ pc \in SetUp
    /\ ok' = FALSE
    /\ pc' = "returned"
    /\ UNCHANGED <<call, handles, output, test>>

SetUpFails ==
    /\ pc \in SetUp
    /\ handles' = handles \ {"alg"}
    /\ ok' = FALSE
    /\ pc' = "returned"
    /\ UNCHANGED <<call, output, test>>

(* BCryptHashData; the digest is allocated between it and BCryptFinishHash. *)
HashData ==
    /\ pc = "data"
    /\ ok' \in BOOLEAN
    /\ output' = IF ok' THEN [bytes |-> digest_bytes[call.fn], data |-> "zero"]
                 ELSE output
    /\ pc' = IF ok' THEN "finish" ELSE "destroy"
    /\ UNCHANGED <<call, handles, test>>

(* The authenticated cipher succeeds only on what its key, the nonce and    *)
(* the tag protect; AES and the digests take anything.                      *)
Produces(fn) == IF fn \in chacha THEN {"right"} ELSE {"right", "other"}

(* The call that fills the buffer. *)
Crypt ==
    /\ pc \in {"crypt", "finish"}
    /\ ok' \in BOOLEAN
    /\ \E d \in IF ok' THEN Produces(call.fn) ELSE {"zero"} :
           output' = [output EXCEPT !.data = d]
    /\ pc' = "destroy"
    /\ UNCHANGED <<call, handles, test>>

Destroy ==
    /\ pc = "destroy"
    /\ handles' = handles \ {"key", "hash"}
    /\ pc' = "close"
    /\ UNCHANGED <<call, output, ok, test>>

Close ==
    /\ pc = "close"
    /\ handles' = handles \ {"alg"}
    /\ output' = IF ok THEN output ELSE Empty
    /\ pc' = "returned"
    /\ UNCHANGED <<call, ok, test>>

ProviderStep ==
    SetUpSucceeds \/ SetUpFails \/ HashData \/ Crypt \/ Destroy \/ Close

-----------------------------------------------------------------------------
(* Callers *)

(* The caller has taken the result. *)
Return ==
    /\ pc' = "idle" /\ call' = NoCall /\ output' = Empty /\ ok' = FALSE
    /\ UNCHANGED handles

chacha20_poly1305_self_test == <<"chacha20_poly1305_decrypt">>
aes_128_cbc_self_test == <<"aes_128_cbc_decrypt", "aes_128_cbc_encrypt">>
aes_128_ecb_self_test == <<"aes_128_ecb_encrypt", "aes_128_ecb_decrypt">>
hash_hmac_self_test ==
    <<"sha1", "sha256", "sha512", "hmac_sha1", "hmac_sha256", "hmac_sha512">>
self_tests ==
    [chacha |-> chacha20_poly1305_self_test, cbc |-> aes_128_cbc_self_test,
     ecb |-> aes_128_ecb_self_test, hash_hmac |-> hash_hmac_self_test]

(* The arguments of the known-answer vectors, by function. *)
VectorCall(fn) ==
    [fn |-> fn, null |-> FALSE,
     key |-> IF fn \in chacha THEN 32
             ELSE IF fn \in aes_128_no_padding THEN 16
             ELSE IF fn \in hmac THEN 3 ELSE 0,
     iv |-> IF fn \in chacha THEN 12 ELSE IF fn \in chaining_cbc THEN 16 ELSE 0,
     tag |-> IF fn \in chacha THEN 16 ELSE 0,
     input |-> IF fn \in chacha THEN 114
               ELSE IF fn \in chaining_cbc THEN 64
               ELSE IF fn \in aes_128_no_padding THEN 16
               ELSE IF fn \in hmac THEN 43 ELSE 3]

TestStarts(name) ==
    /\ test.name = "none"
    /\ Begin(VectorCall(self_tests[name][1]))
    /\ test' = [name |-> name, step |-> 1, verdict |-> "none", right |-> 0]

(* A self test compares what a call produced with the vector; the first     *)
(* failure or mismatch ends it.                                             *)
TestReturn ==
    /\ test.name # "none" /\ pc = "returned"
    /\ test' =
        IF ~ok \/ output.data # "right" THEN [test EXCEPT !.verdict = "failed"]
        ELSE [test EXCEPT !.verdict =
                 IF test.step = Len(self_tests[test.name]) THEN "passed" ELSE "none",
                          !.step = @ + 1, !.right = @ + 1]
    /\ Return

TestContinues ==
    /\ test.name # "none" /\ test.verdict = "none" /\ pc = "idle"
    /\ Begin(VectorCall(self_tests[test.name][test.step]))
    /\ UNCHANGED test

TestEnds ==
    /\ test.verdict # "none"
    /\ pc = "idle"
    /\ test' = NoTest
    /\ UNCHANGED <<call, pc, handles, output, ok>>

TestStep ==
    \/ \E name \in DOMAIN self_tests : TestStarts(name)
    \/ TestReturn \/ TestContinues \/ TestEnds

CryptoInit ==
    /\ call = NoCall /\ pc = "idle" /\ handles = {} /\ output = Empty
    /\ ok = FALSE /\ test = NoTest

-----------------------------------------------------------------------------
(* Properties *)

(* However many of the provider calls succeed before one fails, a function  *)
(* of crypto.cpp returns with every handle released, keys and hashes before *)
(* the provider they belong to.  A failed call leaves the caller's buffer   *)
(* empty, never the zeroes that were allocated for the provider to fill;    *)
(* one that succeeds leaves as many bytes as went in, or one digest.  A     *)
(* self test passes only if each of its vectors came out right.             *)
AllOrNothing ==
    /\ handles \cap {"key", "hash"} # {} => "alg" \in handles
    /\ pc \in {"idle", "returned"} => handles = {}
    /\ pc = "returned" =>
           IF ok THEN /\ output.bytes = IF call.fn \in DOMAIN digest_bytes
                                        THEN digest_bytes[call.fn] ELSE call.input
                      /\ output.data # "zero"
                 ELSE output.bytes = 0
    /\ test.verdict = "passed" => test.right = Len(self_tests[test.name])
=============================================================================
