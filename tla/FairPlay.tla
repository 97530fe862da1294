-------------------------------- MODULE FairPlay --------------------------------
(***************************************************************************)
(* The unwrapping of a FairPlay audio key (src/crypto/fairplay.cpp and      *)
(* fairplay_v3.cpp): what of the two FPLY messages is accepted and which    *)
(* bytes are taken from them, and then the flow of those bytes through      *)
(* message_decrypt, session_key, key_schedule and block_decrypt.            *)
(*                                                                         *)
(* The tables hold no secret of the control flow, so a byte is modelled by  *)
(* the set of input bytes it was computed from: 0..127 for the core of the  *)
(* key message, 128..143 for the tail seed of the ekey, 144..159 for its    *)
(* token.  XOR, an S-box and a mixing table unite the sets of their         *)
(* arguments; sap_hash behind its filling, garble routine included, is one  *)
(* such table, and so is the digest of module ModifiedMd5.                  *)
(***************************************************************************)
EXTENDS Integers, FiniteSets

CONSTANTS
    EkeySizes,      \* sizes of the ekey
    PayloadSizes,   \* payload_size fields
    WrappedSizes,   \* wrapped_key_size fields
    MessageSizes    \* sizes of the key message

ASSUME MessagesAssumption ==
    EkeySizes \cup PayloadSizes \cup WrappedSizes \cup MessageSizes \subseteq Nat

VARIABLES
    stage,      \* the routine that runs
    ekey,       \* the ekey message: its size and the fields that are read
    message,    \* the key message likewise, and its mode byte
    step,       \* block and round of that routine
    b,          \* its 16-byte working block
    out,        \* output of message_decrypt, by position
    boxes,      \* S-boxes that message_decrypt used for this block
    key,        \* session key, then the AES key
    sched       \* round keys

flowVars == <<step, b, out, boxes, key, sched>>
fairplayVars == <<stage, ekey, message, flowVars>>

Lanes == 0..15
Nothing == [j \in Lanes |-> {}]
Unwritten == {-1}

-----------------------------------------------------------------------------
(* The messages *)

(* A slice is the offsets first .. first + size - 1 of a message. *)
Slice(first, size) == [first |-> first, size |-> size]

WrappedFits(e) ==
    e.wrapped_key_size <= e.payload_size /\ 36 + e.wrapped_key_size <= e.size

(* parse_fairplay_ekey: what makes the envelope valid, and its slices. *)
EkeyValid(e) ==
    /\ e.size >= 12 /\ e.fply
    /\ e.size = 12 + e.payload_size
    /\ e.payload_size >= 40
    /\ WrappedFits(e)
Token == Slice(16, 16)
WrappedKey(e) == Slice(36, e.wrapped_key_size)
EkeyTail(e) == Slice(36 + e.wrapped_key_size, e.size - (36 + e.wrapped_key_size))

(* parse_fairplay_key_message *)
MessageValid(k) ==
    /\ k.size >= 12 /\ k.fply
    /\ k.size = 12 + k.payload_size
    /\ k.payload_size # 0

(* extract_fairplay_active_unwrap_input *)
InputValid(e, k) ==
    EkeyValid(e) /\ MessageValid(k) /\ k.size = 164 /\ EkeyTail(e).size = 20
TailSeed(e) == Slice(EkeyTail(e).first + 4, EkeyTail(e).size - 4)
Core == Slice(16, 128)

(* unwrap_fairplay_key and unwrap_fairplay_active_input.  (The IV is that   *)
(* of module AudioPath.)                                                    *)
UnwrapAccepts(e, k) == InputValid(e, k) /\ k.setup_mode <= 3

FairPlayInit ==
    /\ stage = "parse"
    /\ ekey \in [size : EkeySizes, fply : BOOLEAN, payload_size : PayloadSizes,
                 wrapped_key_size : WrappedSizes]
    /\ message \in [size : MessageSizes, fply : {TRUE}, payload_size : PayloadSizes,
                    setup_mode : 0..4]
    /\ step = [block |-> 0, round |-> 0] /\ b = Nothing /\ boxes = {}
    /\ out = [p \in 0..127 |-> Unwritten]
    /\ key = Nothing /\ sched = [n \in 0..10 |-> Nothing]

(* No key is to be unwrapped. *)
FairPlayIdle ==
    /\ stage = "idle" /\ ekey = <<>> /\ message = <<>> /\ step = <<>> /\ b = <<>>
    /\ out = <<>> /\ boxes = {} /\ key = <<>> /\ sched = <<>>

Parse ==
    /\ stage = "parse"
    /\ stage' = IF UnwrapAccepts(ekey, message) THEN "message" ELSE "refused"
    /\ UNCHANGED <<ekey, message, flowVars>>

-----------------------------------------------------------------------------
(* message_decrypt *)

kLaneSrc(d) == <<0, 13, 10, 7, 4, 1, 14, 11, 8, 5, 2, 15, 12, 9, 6, 3>>[d + 1]
shuffle_lanes(x) == [d \in Lanes |-> x[kLaneSrc(d)]]

(* The groups of four bytes that the mixing tables turn into a word. *)
MixWords(x) ==
    [d \in Lanes |-> UNION {x[4 * (d \div 4) + n] : n \in 0..3}]

(* Mutant: the blocks of mode 3 are read in the order of the others. *)
ReadsAtForward(mode, i) == 16 * (i + 1)

(* Where block i is read from, in the message, and written to. *)
ReadsAt(mode, i) == IF mode = 3 THEN 128 - 16 * i ELSE 16 * (i + 1)
WritesAt(mode, i) == IF mode = 3 THEN 112 - 16 * i ELSE 16 * i

(* msg_src for the offsets of the core. *)
msg_src(off) == {off - 16}

(* The ciphertext block before, or the IV of the mode. *)
Previous(mode, i) ==
    [j \in Lanes |-> IF WritesAt(mode, i) = 0 THEN {}
                     ELSE {WritesAt(mode, i) - 16 + j}]

msg_sbox(idx) == (97 * idx) % 144

Load ==
    [j \in Lanes |-> msg_src(ReadsAt(message.setup_mode, step.block) + j)]

(* One of nine rounds; the block is loaded before the first. *)
MessageRound ==
    /\ stage = "message" /\ step.round < 9
    /\ LET x == IF step.round = 0 THEN Load ELSE b
       IN b' = MixWords(shuffle_lanes(x))
    /\ boxes' = boxes \cup {msg_sbox(128 - 16 * step.round + d) : d \in Lanes}
    /\ step' = [step EXCEPT !.round = @ + 1]
    /\ UNCHANGED <<stage, ekey, message, out, key, sched>>

MessageWrite ==
    /\ stage = "message" /\ step.round = 9
    /\ LET at == WritesAt(message.setup_mode, step.block)
           x == shuffle_lanes(b)
           prev == Previous(message.setup_mode, step.block)
       IN out' = [p \in 0..127 |-> IF p \in at..(at + 15)
                                   THEN x[p - at] \cup prev[p - at] ELSE out[p]]
    /\ boxes' = {}
    /\ step' = [block |-> (step.block + 1) % 8, round |-> 0]
    /\ stage' = IF step.block = 7 THEN "session" ELSE "message"
    /\ UNCHANGED <<ekey, message, b, key, sched>>

-----------------------------------------------------------------------------
(* session_key: five blocks of 64 bytes through the digest and sap_hash *)

(* What byte p of the 320 is: two constants around the decrypted message    *)
(* and a part of the default, of 17, 128, 128 and 47 bytes.                 *)
SapByte(p) == IF p \in 17..144 THEN out[p - 17] ELSE {}

(* sap_hash fills its buffer with the words of the block, bytes reversed. *)
SapFill(i) == ((i % 64) - (i % 4)) + (3 - (i % 4))
sap_hash(base) == UNION {SapByte(base + SapFill(i)) : i \in 0..209}

SessionRound ==
    /\ stage = "session"
    /\ key' = [j \in Lanes |-> sap_hash(64 * step.round) \cup UNION {key[n] : n \in Lanes}]
    /\ step' = [step EXCEPT !.round = (@ + 1) % 5]
    /\ stage' = IF step.round = 4 THEN "schedule" ELSE "session"
    /\ UNCHANGED <<ekey, message, b, out, boxes, sched>>

-----------------------------------------------------------------------------
(* key_schedule and block_decrypt *)

ScheduleRound ==
    /\ stage = "schedule"
    /\ LET x == IF step.round = 0 THEN key ELSE b
           w(n) == [j \in 0..3 |-> x[4 * n + j]]
           w0 == [j \in 0..3 |-> w(0)[j] \cup x[12 + ((j + 1) % 4)]]
           w1 == [j \in 0..3 |-> w(1)[j] \cup w0[j]]
           w2 == [j \in 0..3 |-> w(2)[j] \cup w1[j]]
           w3 == [j \in 0..3 |-> w(3)[j] \cup w2[j]]
           word(d) == <<w0, w1, w2, w3>>[d \div 4 + 1]
       IN /\ sched' = [sched EXCEPT ![step.round] = x]
          /\ b' = [d \in Lanes |-> word(d)[d % 4]]
    /\ step' = [step EXCEPT !.round = (@ + 1) % 11]
    /\ stage' = IF step.round = 10 THEN "block" ELSE "schedule"
    /\ UNCHANGED <<ekey, message, out, boxes, key>>

AddRoundKey(x, n) == [d \in Lanes |-> x[d] \cup sched[n][d]]

BlockRound ==
    /\ stage = "block" /\ step.round < 10
    /\ b' = IF step.round = 0
            THEN shuffle_lanes(AddRoundKey([d \in Lanes |-> {128 + d}], 10))
            ELSE shuffle_lanes(MixWords(AddRoundKey(b, 10 - step.round)))
    /\ step' = [step EXCEPT !.round = @ + 1]
    /\ UNCHANGED <<stage, ekey, message, out, boxes, key, sched>>

(* The last round key, and xor_16 with the token. *)
BlockEnds ==
    /\ stage = "block" /\ step.round = 10
    /\ LET tokenless_key == AddRoundKey(b, 0)
       IN key' = [d \in Lanes |-> tokenless_key[d] \cup {144 + d}]
    /\ stage' = "done"
    /\ UNCHANGED <<ekey, message, step, b, out, boxes, sched>>

FairPlayNext ==
    \/ Parse \/ MessageRound \/ MessageWrite \/ SessionRound
    \/ ScheduleRound \/ BlockRound \/ BlockEnds

-----------------------------------------------------------------------------
(* Properties *)

(* Whatever sizes the two messages claim, every slice taken from a message  *)
(* that was accepted lies inside it, and the slices used have the sizes     *)
(* that the cipher needs.                                                   *)
SlicesInside ==
    LET inside(s, size) == s.size >= 0 /\ s.first + s.size <= size
    IN /\ (stage # "idle" /\ EkeyValid(ekey)) =>
              /\ inside(Token, ekey.size)
              /\ inside(WrappedKey(ekey), ekey.size)
              /\ inside(EkeyTail(ekey), ekey.size)
       /\ stage \notin {"idle", "parse", "refused"} =>
              /\ inside(Core, message.size)
              /\ TailSeed(ekey).size = 16
              /\ inside(TailSeed(ekey), ekey.size)

(* The key comes from all of its inputs.  In every mode, mode 3 with its    *)
(* blocks back to front included, message_decrypt is CBC: each byte of the  *)
(* output comes from all of the ciphertext block at its place and from one  *)
(* byte of the block before, and no S-box serves two lanes or two rounds of *)
(* a block.  Every byte of the key then depends on every byte of the core   *)
(* and of the tail seed, and on its byte of the token.                      *)
KeyDerived ==
    /\ stage \notin {"idle", "parse", "refused", "message"} =>
           \A p \in 0..127 :
               out[p] = ((p - (p % 16))..(p - (p % 16) + 15))
                        \cup (IF p < 16 THEN {} ELSE {p - 16})
    /\ (stage = "message" /\ step.round > 0) => Cardinality(boxes) = 16 * step.round
    /\ stage = "done" => \A j \in Lanes : key[j] = 0..143 \cup {144 + j}
=============================================================================
