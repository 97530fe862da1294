---------------------------- MODULE PeerInputProofs ----------------------------
(***************************************************************************)
(* Proofs about what peers send: the readers of bytes of module Readers,    *)
(* for documents and packets of any length and content and messages of any  *)
(* size, and the cache of module DacpClient, for any number of senders and  *)
(* host threads, any headers, any number of moves and faults.               *)
(*                                                                         *)
(* The invariant of the readers has a part for each of them.  FairPlayInv   *)
(* says which input bytes each byte of the state of message_decrypt,        *)
(* session_key, key_schedule and block_decrypt comes from at each round: a  *)
(* table shows that two rounds of shuffling and mixing reach all lanes.     *)
(* PlistInv bounds the stack and says that the frames hold numbers, so that *)
(* what the next object is read from is a number as well.  DnsInv bounds    *)
(* the turns of query_matches by its jumps and its position.                *)
(*                                                                         *)
(* Of DacpClient, TypeOK is inductive, and CacheVerified is given TypeOK,   *)
(* because an address enters the cache in Accepted only.                    *)
(***************************************************************************)
EXTENDS Readers, DacpClient, FiniteSetTheorems, SequenceTheorems, TLAPS

-----------------------------------------------------------------------------
(* FairPlay: tables *)

LEMMA LaneTable ==
    /\ kLaneSrc(0) = 0 /\ kLaneSrc(1) = 13 /\ kLaneSrc(2) = 10 /\ kLaneSrc(3) = 7
    /\ kLaneSrc(4) = 4 /\ kLaneSrc(5) = 1 /\ kLaneSrc(6) = 14 /\ kLaneSrc(7) = 11
    /\ kLaneSrc(8) = 8 /\ kLaneSrc(9) = 5 /\ kLaneSrc(10) = 2 /\ kLaneSrc(11) = 15
    /\ kLaneSrc(12) = 12 /\ kLaneSrc(13) = 9 /\ kLaneSrc(14) = 6 /\ kLaneSrc(15) = 3
BY DEF kLaneSrc

LEMMA LanesAreLanes == \A d \in Lanes : kLaneSrc(d) \in Lanes
<1> SUFFICES ASSUME NEW d \in Lanes PROVE kLaneSrc(d) \in Lanes
  OBVIOUS
<1>1. \/ d = 0 \/ d = 1 \/ d = 2 \/ d = 3 \/ d = 4 \/ d = 5 \/ d = 6 \/ d = 7
      \/ d = 8 \/ d = 9 \/ d = 10 \/ d = 11 \/ d = 12 \/ d = 13 \/ d = 14 \/ d = 15
  BY DEF Lanes
<1> QED BY <1>1, LaneTable DEF Lanes

(* The lanes that end up in the word of lane d. *)
Word4(d) == {kLaneSrc(4 * (d \div 4) + n) : n \in 0..3}

LEMMA Words ==
    /\ \A d \in 0..3 : Word4(d) = {0, 13, 10, 7}
    /\ \A d \in 4..7 : Word4(d) = {4, 1, 14, 11}
    /\ \A d \in 8..11 : Word4(d) = {8, 5, 2, 15}
    /\ \A d \in 12..15 : Word4(d) = {12, 9, 6, 3}
<1>1. ASSUME NEW d \in 0..3 PROVE Word4(d) = {0, 13, 10, 7}
  <2>1. 4 * (d \div 4) = 0
    OBVIOUS
  <2>2. Word4(d) = {kLaneSrc(0), kLaneSrc(1), kLaneSrc(2), kLaneSrc(3)}
    BY <2>1 DEF Word4
  <2> QED BY <2>2, LaneTable
<1>2. ASSUME NEW d \in 4..7 PROVE Word4(d) = {4, 1, 14, 11}
  <2>1. 4 * (d \div 4) = 4
    OBVIOUS
  <2>2. Word4(d) = {kLaneSrc(4), kLaneSrc(5), kLaneSrc(6), kLaneSrc(7)}
    BY <2>1 DEF Word4
  <2> QED BY <2>2, LaneTable
<1>3. ASSUME NEW d \in 8..11 PROVE Word4(d) = {8, 5, 2, 15}
  <2>1. 4 * (d \div 4) = 8
    OBVIOUS
  <2>2. Word4(d) = {kLaneSrc(8), kLaneSrc(9), kLaneSrc(10), kLaneSrc(11)}
    BY <2>1 DEF Word4
  <2> QED BY <2>2, LaneTable
<1>4. ASSUME NEW d \in 12..15 PROVE Word4(d) = {12, 9, 6, 3}
  <2>1. 4 * (d \div 4) = 12
    OBVIOUS
  <2>2. Word4(d) = {kLaneSrc(12), kLaneSrc(13), kLaneSrc(14), kLaneSrc(15)}
    BY <2>1 DEF Word4
  <2> QED BY <2>2, LaneTable
<1> QED BY <1>1, <1>2, <1>3, <1>4

(* Two rounds of shuffling and mixing reach every lane from every other. *)
LEMMA TwoRoundsMix ==
    ASSUME NEW d \in Lanes, NEW x \in Lanes
    PROVE \E y \in Word4(d) : y \in Lanes /\ x \in Word4(y)
<1>1. \/ x \in {0, 13, 10, 7} \/ x \in {4, 1, 14, 11} \/ x \in {8, 5, 2, 15}
      \/ x \in {12, 9, 6, 3}
  BY DEF Lanes
<1>2. \/ d \in 0..3 \/ d \in 4..7 \/ d \in 8..11 \/ d \in 12..15
  BY DEF Lanes
<1>3. \E y \in Word4(d) : y \in 0..3
  BY <1>2, Words
<1>4. \E y \in Word4(d) : y \in 4..7
  BY <1>2, Words
<1>5. \E y \in Word4(d) : y \in 8..11
  BY <1>2, Words
<1>6. \E y \in Word4(d) : y \in 12..15
  BY <1>2, Words
<1>7. \A y : (y \in 0..3 \/ y \in 4..7 \/ y \in 8..11 \/ y \in 12..15) => y \in Lanes
  BY DEF Lanes
<1> QED BY <1>1, <1>3, <1>4, <1>5, <1>6, <1>7, Words, Zenon

(* Every S-box that message_decrypt may take is another one. *)
LEMMA SboxInjective ==
    ASSUME NEW i \in 0..143, NEW j \in 0..143, msg_sbox(i) = msg_sbox(j)
    PROVE i = j
<1>1. \A n \in 0..143 : (49 * ((97 * n) % 144)) % 144 = n
  OBVIOUS
<1> QED BY <1>1 DEF msg_sbox

(* So the S-boxes of r rounds are 16 * r different ones. *)
LEMMA SboxCount ==
    ASSUME NEW r \in 0..9
    PROVE Cardinality({msg_sbox(i) : i \in (144 - 16 * r)..143}) = 16 * r
<1> DEFINE S == {msg_sbox(i) : i \in (144 - 16 * r)..143}
           f == [k \in 1..(16 * r) |-> msg_sbox(143 - 16 * r + k)]
<1>1. \A k \in 1..(16 * r) :
         /\ 143 - 16 * r + k \in (144 - 16 * r)..143
         /\ 143 - 16 * r + k \in 0..143
  OBVIOUS
<1>2. f \in [1..(16 * r) -> S]
  BY <1>1
<1>3. ASSUME NEW j \in 1..(16 * r), NEW k \in 1..(16 * r), f[j] = f[k]
      PROVE j = k
  <2>1. PICK u \in 0..143 : u = 143 - 16 * r + j
    OBVIOUS
  <2>2. PICK v \in 0..143 : v = 143 - 16 * r + k
    OBVIOUS
  <2>3. msg_sbox(u) = msg_sbox(v)
    BY <1>3, <2>1, <2>2, SMTT(30)
  <2>4. u = v
    BY <2>3, SboxInjective
  <2> QED BY <2>1, <2>2, <2>4
<1>4. ASSUME NEW t \in S PROVE \E k \in 1..(16 * r) : f[k] = t
  <2>1. PICK i \in (144 - 16 * r)..143 : t = msg_sbox(i)
    OBVIOUS
  <2>2. i - (143 - 16 * r) \in 1..(16 * r) /\ 143 - 16 * r + (i - (143 - 16 * r)) = i
    OBVIOUS
  <2> HIDE DEF S
  <2>3. f[i - (143 - 16 * r)] = t
    BY <2>1, <2>2
  <2> QED BY <2>2, <2>3
<1> HIDE DEF f, S
<1>5. f \in Bijection(1..(16 * r), S)
  BY <1>2, <1>3, <1>4 DEF Bijection, Injection, IsInjective, Surjection
<1>6. ExistsBijection(1..(16 * r), S)
  BY <1>5 DEF ExistsBijection
<1>7. 16 * r \in Nat
  OBVIOUS
<1>8. Cardinality(S) = 16 * r
  BY <1>6, <1>7, FS_CountingElements
<1> QED BY <1>8 DEF S

(* A round of message_decrypt gathers a word of lanes in each lane. *)
LEMMA MixShuffle ==
    ASSUME NEW x, NEW d \in Lanes
    PROVE MixWords(shuffle_lanes(x))[d] = UNION {x[y] : y \in Word4(d)}
<1>1. \A n \in 0..3 : 4 * (d \div 4) + n \in Lanes
  BY DEF Lanes
<1>2. MixWords(shuffle_lanes(x))[d]
        = UNION {shuffle_lanes(x)[4 * (d \div 4) + n] : n \in 0..3}
  BY DEF MixWords
<1>3. \A n \in 0..3 : shuffle_lanes(x)[4 * (d \div 4) + n] = x[kLaneSrc(4 * (d \div 4) + n)]
  BY <1>1 DEF shuffle_lanes
<1>4. {shuffle_lanes(x)[4 * (d \div 4) + n] : n \in 0..3} = {x[y] : y \in Word4(d)}
  BY <1>3, Zenon DEF Word4
<1> QED BY <1>2, <1>4

(* A round of block_decrypt gathers a word and then shuffles. *)
LEMMA ShuffleMix ==
    ASSUME NEW x, NEW d \in Lanes
    PROVE shuffle_lanes(MixWords(x))[d]
            = UNION {x[4 * (kLaneSrc(d) \div 4) + n] : n \in 0..3}
BY LanesAreLanes DEF shuffle_lanes, MixWords

LEMMA WordsOfLanes == \A d \in Lanes : Word4(d) \subseteq Lanes /\ Word4(d) # {}
<1>1. \A d \in Lanes : d \in 0..3 \/ d \in 4..7 \/ d \in 8..11 \/ d \in 12..15
  BY DEF Lanes
<1> QED BY <1>1, Words DEF Lanes

-----------------------------------------------------------------------------
(* FairPlay: the inductive invariant *)

(* The fields of the two messages, and that what goes on was accepted. *)
MessagesOK ==
    stage # "idle" =>
        /\ stage \in {"parse", "refused", "message", "session", "schedule", "block", "done"}
        /\ ekey \in [size : Nat, fply : BOOLEAN, payload_size : Nat, wrapped_key_size : Nat]
        /\ message \in [size : Nat, fply : {TRUE}, payload_size : Nat, setup_mode : 0..4]
        /\ step \in [block : 0..7, round : 0..10]
        /\ stage \notin {"parse", "refused"} => UnwrapAccepts(ekey, message)

(* Where the block in hand goes, and which bytes of the output are there. *)
Place == WritesAt(message.setup_mode, step.block)
Decrypted(p) ==
    IF message.setup_mode = 3 THEN p >= 128 - 16 * step.block ELSE p < 16 * step.block

(* What byte p of the output comes from. *)
Plain(p) == ((p - (p % 16))..(p - (p % 16) + 15)) \cup (IF p < 16 THEN {} ELSE {p - 16})

(* In message_decrypt a lane holds the block's bytes of its word after one  *)
(* round and all of them after two.                                         *)
MessageFlow ==
    stage = "message" =>
        /\ step.round <= 9
        /\ step.round = 1 => \A d \in Lanes : b[d] = {Place + x : x \in Word4(d)}
        /\ step.round >= 2 => \A d \in Lanes : b[d] = Place..(Place + 15)
        /\ \A p \in 0..127 : Decrypted(p) => out[p] = Plain(p)
        /\ boxes = {msg_sbox(n) : n \in (144 - 16 * step.round)..143}

(* Behind it the output is complete. *)
OutputDone ==
    stage \in {"session", "schedule", "block", "done"} =>
        \A p \in 0..127 : out[p] = Plain(p)

(* A byte of the session key comes from the blocks hashed so far. *)
SessionFlow ==
    stage = "session" =>
        /\ step.round <= 4
        /\ \A j \in Lanes : key[j] = UNION {SapByte(p) : p \in 0..(64 * step.round - 1)}

(* The round keys come from the whole core. *)
ScheduleFlow ==
    stage = "schedule" =>
        /\ step.round = 0 => \A j \in Lanes : key[j] = 0..127
        /\ step.round > 0 => \A j \in Lanes : b[j] = 0..127
        /\ \A n \in 0..10 : n < step.round => \A d \in Lanes : sched[n][d] = 0..127

(* In block_decrypt the tail seed spreads as the message did. *)
BlockFlow ==
    stage = "block" =>
        /\ \A n \in 0..10, d \in Lanes : sched[n][d] = 0..127
        /\ step.round = 1 => \A d \in Lanes : b[d] = 0..127 \cup {128 + kLaneSrc(d)}
        /\ step.round = 2 =>
               \A d \in Lanes : b[d] = 0..127 \cup {128 + x : x \in Word4(kLaneSrc(d))}
        /\ step.round >= 3 => \A d \in Lanes : b[d] = 0..143

KeyDone == stage = "done" => \A j \in Lanes : key[j] = 0..143 \cup {144 + j}

(* Nothing has been computed when the messages are parsed, and no key while *)
(* the message is decrypted.                                                *)
NothingYet ==
    /\ stage = "parse" => step = [block |-> 0, round |-> 0] /\ boxes = {}
    /\ stage \in {"parse", "message"} => \A j \in Lanes : key[j] = {}
    /\ stage # "idle" => DOMAIN sched = 0..10

FairPlayInv ==
    /\ MessagesOK /\ NothingYet /\ MessageFlow /\ OutputDone /\ SessionFlow
    /\ ScheduleFlow /\ BlockFlow /\ KeyDone

LEMMA StepTyped ==
    ASSUME FairPlayInv, stage # "idle"
    PROVE /\ step \in [block : 0..7, round : 0..10] /\ step.block \in 0..7
          /\ step.round \in 0..10 /\ message.setup_mode \in 0..4
BY DEF FairPlayInv, MessagesOK

LEMMA FairPlayInitInv ==
    ASSUME FairPlayInit \/ FairPlayIdle PROVE FairPlayInv
<1>1. ASSUME FairPlayIdle PROVE FairPlayInv
  BY <1>1 DEF FairPlayIdle, FairPlayInv, MessagesOK, NothingYet, MessageFlow, OutputDone,
      SessionFlow, ScheduleFlow, BlockFlow, KeyDone
<1>2. ASSUME FairPlayInit PROVE FairPlayInv
  <2>1. /\ ekey \in [size : Nat, fply : BOOLEAN, payload_size : Nat, wrapped_key_size : Nat]
        /\ message \in [size : Nat, fply : {TRUE}, payload_size : Nat, setup_mode : 0..4]
    BY <1>2, MessagesAssumption DEF FairPlayInit
  <2>2. step = [block |-> 0, round |-> 0] /\ step \in [block : 0..7, round : 0..10]
    BY <1>2 DEF FairPlayInit
  <2>3. \A j \in Lanes : key[j] = {}
    BY <1>2 DEF FairPlayInit, Nothing
  <2>4. DOMAIN sched = 0..10 /\ stage = "parse" /\ boxes = {}
    BY <1>2 DEF FairPlayInit
  <2> QED BY <2>1, <2>2, <2>3, <2>4 DEF FairPlayInv, MessagesOK, NothingYet, MessageFlow,
      OutputDone, SessionFlow, ScheduleFlow, BlockFlow, KeyDone
<1> QED BY <1>1, <1>2

LEMMA ParseStep ==
    ASSUME FairPlayInv, Parse PROVE FairPlayInv'
<1>1. stage = "parse" /\ UNCHANGED <<ekey, message, step, b, out, boxes, key, sched>>
  BY DEF Parse, flowVars
<1>2. CASE ~UnwrapAccepts(ekey, message)
  <2>1. stage' = "refused"
    BY <1>2 DEF Parse
  <2> QED BY <1>1, <2>1 DEF FairPlayInv, MessagesOK, NothingYet, MessageFlow, OutputDone,
      SessionFlow, ScheduleFlow, BlockFlow, KeyDone
<1>3. CASE UnwrapAccepts(ekey, message)
  <2>1. stage' = "message"
    BY <1>3 DEF Parse
  <2>2. MessagesOK'
    BY <1>1, <1>3, <2>1 DEF FairPlayInv, MessagesOK, UnwrapAccepts
  <2>3. step' = [block |-> 0, round |-> 0] /\ boxes' = {}
    BY <1>1 DEF FairPlayInv, NothingYet
  <2>4. \A p \in 0..127 : ~Decrypted(p)'
    BY <2>3 DEF Decrypted
  <2>5. {msg_sbox(n) : n \in (144 - 16 * 0)..143} = {}
    OBVIOUS
  <2>6. MessageFlow'
    BY <2>3, <2>4, <2>5 DEF MessageFlow
  <2> QED BY <1>1, <2>1, <2>2, <2>6 DEF FairPlayInv, NothingYet, OutputDone,
      SessionFlow, ScheduleFlow, BlockFlow, KeyDone
<1> QED BY <1>2, <1>3

(* The block that is loaded is the one at its place. *)
LEMMA Loaded ==
    ASSUME FairPlayInv, stage = "message", NEW j \in Lanes
    PROVE Load[j] = {Place + j} /\ Place \in 0..112 /\ Place % 16 = 0
<1>1. PICK mode \in 0..4 : mode = message.setup_mode
  BY StepTyped
<1>2. PICK blk \in 0..7 : blk = step.block
  BY StepTyped
<1>3. (ReadsAt(mode, blk) + j) - 16 = WritesAt(mode, blk) + j
  BY DEF ReadsAt, WritesAt, Lanes
<1>4. WritesAt(mode, blk) \in 0..112 /\ WritesAt(mode, blk) % 16 = 0
  BY DEF WritesAt
<1>5. Load[j] = msg_src(ReadsAt(mode, blk) + j)
  BY <1>1, <1>2, Zenon DEF Load
<1>6. Load[j] = {(ReadsAt(mode, blk) + j) - 16}
  BY <1>5 DEF msg_src
<1> QED BY <1>1, <1>2, <1>3, <1>4, <1>6 DEF Place

LEMMA MessageRoundStep ==
    ASSUME FairPlayInv, MessageRound PROVE FairPlayInv'
<1>1. stage = "message" /\ UNCHANGED <<stage, ekey, message, out, key, sched>>
  BY DEF MessageRound
<1>2. PICK r \in 0..8 : r = step.round
  BY <1>1 DEF FairPlayInv, MessagesOK, MessageRound
<1>3. step' = [block |-> step.block, round |-> r + 1] /\ step' \in [block : 0..7, round : 0..10]
  BY <1>1, <1>2 DEF FairPlayInv, MessagesOK, MessageRound
<1>4. MessagesOK'
  BY <1>1, <1>3 DEF FairPlayInv, MessagesOK
<1>5. Place' = Place /\ \A p : Decrypted(p)' = Decrypted(p)
  BY <1>1, <1>3 DEF Place, Decrypted
<1>6. r = 0 => \A d \in Lanes : b'[d] = {Place + x : x \in Word4(d)}
  <2> SUFFICES ASSUME r = 0, NEW d \in Lanes PROVE b'[d] = {Place + x : x \in Word4(d)}
    OBVIOUS
  <2>1. b' = MixWords(shuffle_lanes(Load))
    BY <1>2 DEF MessageRound
  <2>2. b'[d] = UNION {Load[y] : y \in Word4(d)}
    BY <2>1, MixShuffle
  <2>3. \A y \in Word4(d) : Load[y] = {Place + y}
    BY <1>1, Loaded, WordsOfLanes
  <2> QED BY <2>2, <2>3
<1>7. r = 1 => \A d \in Lanes : b'[d] = Place..(Place + 15)
  <2> SUFFICES ASSUME r = 1, NEW d \in Lanes PROVE b'[d] = Place..(Place + 15)
    OBVIOUS
  <2>1. b' = MixWords(shuffle_lanes(b))
    BY <1>2 DEF MessageRound
  <2>2. b'[d] = UNION {b[y] : y \in Word4(d)}
    BY <2>1, MixShuffle
  <2>3. \A y \in Word4(d) : y \in Lanes /\ b[y] = {Place + x : x \in Word4(y)}
    BY <1>1, <1>2, WordsOfLanes DEF FairPlayInv, MessageFlow
  <2>4. PICK place \in Nat : place = Place
    BY <1>1, Loaded DEF Lanes
  <2>5. ASSUME NEW v \in b'[d] PROVE v \in place..(place + 15)
    <3>1. PICK y \in Word4(d) : v \in b[y]
      BY <2>2
    <3>2. PICK x \in Word4(y) : v = place + x
      BY <2>3, <2>4, <3>1
    <3>3. x \in Lanes
      BY <2>3, WordsOfLanes
    <3> QED BY <3>2, <3>3 DEF Lanes
  <2>6. ASSUME NEW v \in place..(place + 15) PROVE v \in b'[d]
    <3>1. v - place \in Lanes /\ v = place + (v - place)
      BY DEF Lanes
    <3>2. PICK y \in Word4(d) : v - place \in Word4(y)
      BY <3>1, TwoRoundsMix
    <3>3. v \in b[y]
      BY <2>3, <2>4, <3>1, <3>2
    <3> QED BY <2>2, <3>3
  <2> QED BY <2>4, <2>5, <2>6
<1>8. r >= 2 => \A d \in Lanes : b'[d] = Place..(Place + 15)
  <2> SUFFICES ASSUME r >= 2, NEW d \in Lanes PROVE b'[d] = Place..(Place + 15)
    OBVIOUS
  <2>1. b' = MixWords(shuffle_lanes(b))
    BY <1>2 DEF MessageRound
  <2>2. b'[d] = UNION {b[y] : y \in Word4(d)}
    BY <2>1, MixShuffle
  <2>3. PICK whole : whole = Place..(Place + 15)
    OBVIOUS
  <2>4. \A y \in Word4(d) : b[y] = whole
    BY <1>1, <1>2, <2>3, WordsOfLanes DEF FairPlayInv, MessageFlow
  <2>5. b'[d] = whole
    BY <2>2, <2>4, WordsOfLanes, Zenon
  <2> QED BY <2>3, <2>5
<1>9. boxes' = {msg_sbox(n) : n \in (144 - 16 * (r + 1))..143}
  <2>1. PICK S : S = (144 - 16 * r)..143
    OBVIOUS
  <2>2. PICK T : T = (128 - 16 * r)..(143 - 16 * r)
    OBVIOUS
  <2>3. boxes = {msg_sbox(n) : n \in S}
    BY <1>1, <1>2, <2>1 DEF FairPlayInv, MessageFlow
  <2>4. {msg_sbox(128 - 16 * r + d) : d \in Lanes} = {msg_sbox(n) : n \in T}
    <3>1. \A d \in Lanes : 128 - 16 * r + d \in T
      BY <2>2 DEF Lanes
    <3>2. \A n \in T : n - (128 - 16 * r) \in Lanes /\ 128 - 16 * r + (n - (128 - 16 * r)) = n
      BY <2>2 DEF Lanes
    <3> QED BY <3>1, <3>2
  <2>5. boxes' = boxes \cup {msg_sbox(n) : n \in T}
    BY <1>2, <2>4 DEF MessageRound
  <2>6. boxes' = {msg_sbox(n) : n \in S \cup T}
    BY <2>3, <2>5, Zenon
  <2>7. (144 - 16 * (r + 1))..143 = S \cup T
    BY <2>1, <2>2
  <2> QED BY <2>6, <2>7
<1>10. MessageFlow'
  <2>1. step'.round = r + 1 /\ r + 1 <= 9 /\ r + 1 \in Nat
    BY <1>3
  <2>2. \A p \in 0..127 : Decrypted(p) => out[p] = Plain(p)
    BY <1>1 DEF FairPlayInv, MessageFlow
  <2>3. /\ r + 1 = 1 => \A d \in Lanes : b'[d] = {Place + x : x \in Word4(d)}
        /\ r + 1 >= 2 => \A d \in Lanes : b'[d] = Place..(Place + 15)
    BY <1>6, <1>7, <1>8
  <2>4. /\ step'.round = 1 => \A d \in Lanes : b'[d] = {Place' + x : x \in Word4(d)}
        /\ step'.round >= 2 => \A d \in Lanes : b'[d] = Place'..(Place' + 15)
    BY <1>5, <2>1, <2>3
  <2>5. \A p \in 0..127 : Decrypted(p)' => out'[p] = Plain(p)
    BY <1>1, <1>5, <2>2
  <2>6. boxes' = {msg_sbox(n) : n \in (144 - 16 * step'.round)..143}
    BY <1>9, <2>1
  <2> QED BY <2>1, <2>4, <2>5, <2>6 DEF MessageFlow
<1> QED BY <1>1, <1>4, <1>10 DEF FairPlayInv, NothingYet, OutputDone, SessionFlow,
    ScheduleFlow, BlockFlow, KeyDone

(* A block that is written is the plaintext at its place. *)
LEMMA MessageWriteStep ==
    ASSUME FairPlayInv, MessageWrite PROVE FairPlayInv'
<1>1. /\ stage = "message" /\ step.round = 9 /\ boxes' = {}
      /\ UNCHANGED <<ekey, message, b, key, sched>>
  BY DEF MessageWrite
<1>2. PICK mode \in 0..4 : mode = message.setup_mode
  BY <1>1, StepTyped
<1>3. PICK blk \in 0..7 : blk = step.block
  BY <1>1, StepTyped, SMTT(30)
<1>4. PICK at \in 0..112 : at = Place /\ at = WritesAt(mode, blk) /\ at % 16 = 0
  BY <1>1, <1>2, <1>3, Loaded DEF Place, Lanes
<1>5. ASSUME NEW p \in at..(at + 15) PROVE out'[p] = Plain(p)
  <2>1. /\ p \in 0..127 /\ p - at \in Lanes /\ p - (p % 16) = at
        /\ (at - 16) + (p - at) = p - 16 /\ (at = 0 <=> p < 16)
    BY <1>4 DEF Lanes
  <2>2. out'[p] = shuffle_lanes(b)[p - at] \cup Previous(mode, blk)[p - at]
    BY <1>2, <1>3, <1>4, <2>1, Zenon DEF MessageWrite, Place
  <2>3. shuffle_lanes(b)[p - at] = b[kLaneSrc(p - at)]
    BY <2>1 DEF shuffle_lanes
  <2>4. b[kLaneSrc(p - at)] = at..(at + 15)
    BY <1>1, <1>4, <2>1, LanesAreLanes DEF FairPlayInv, MessageFlow
  <2>5. Previous(mode, blk)[p - at] = IF at = 0 THEN {} ELSE {(at - 16) + (p - at)}
    BY <1>4, <2>1, Zenon DEF Previous
  <2>6. Previous(mode, blk)[p - at] = IF p < 16 THEN {} ELSE {p - 16}
    BY <2>1, <2>5
  <2>7. Plain(p) = (at..(at + 15)) \cup (IF p < 16 THEN {} ELSE {p - 16})
    BY <2>1 DEF Plain
  <2> QED BY <2>2, <2>3, <2>4, <2>6, <2>7
<1>6. ASSUME NEW p \in 0..127, p \notin at..(at + 15) PROVE out'[p] = out[p]
  BY <1>2, <1>3, <1>4, <1>6, Zenon DEF MessageWrite, Place
<1>7. \A p \in 0..127 : Decrypted(p) => out[p] = Plain(p)
  BY <1>1 DEF FairPlayInv, MessageFlow
<1>8. \A p \in 0..127 :
         /\ (mode = 3 /\ p >= 128 - 16 * (blk + 1)) => (Decrypted(p) \/ p \in at..(at + 15))
         /\ (mode # 3 /\ p < 16 * (blk + 1)) => (Decrypted(p) \/ p \in at..(at + 15))
  <2>1. /\ mode = 3 => at = 112 - 16 * blk
        /\ mode # 3 => at = 16 * blk
    BY <1>4 DEF WritesAt
  <2>2. \A p \in 0..127 : /\ (mode = 3 /\ p >= 128 - 16 * blk) => Decrypted(p)
                          /\ (mode # 3 /\ p < 16 * blk) => Decrypted(p)
    BY <1>2, <1>3 DEF Decrypted
  <2> QED BY <2>1, <2>2
<1>9. \A p \in 0..127 :
         /\ (mode = 3 /\ p >= 128 - 16 * (blk + 1)) => out'[p] = Plain(p)
         /\ (mode # 3 /\ p < 16 * (blk + 1)) => out'[p] = Plain(p)
  <2>1. \A p \in 0..127 : (Decrypted(p) \/ p \in at..(at + 15)) => out'[p] = Plain(p)
    BY <1>5, <1>6, <1>7, SMTT(30)
  <2> QED BY <1>8, <2>1
<1>10. step' = [block |-> (blk + 1) % 8, round |-> 0] /\ step' \in [block : 0..7, round : 0..10]
  BY <1>3 DEF MessageWrite
<1>11. CASE blk = 7
  <2>1. stage' = "session"
    BY <1>3, <1>11 DEF MessageWrite
  <2>2. MessagesOK'
    BY <1>1, <1>10, <2>1 DEF FairPlayInv, MessagesOK, UnwrapAccepts
  <2>3. \A p \in 0..127 : out'[p] = Plain(p)
    BY <1>9, <1>11
  <2>4. SessionFlow'
    <3>1. \A j \in Lanes : key'[j] = {}
      BY <1>1 DEF FairPlayInv, NothingYet
    <3>2. UNION {SapByte(p)' : p \in 0..(64 * 0 - 1)} = {}
      OBVIOUS
    <3> QED BY <1>10, <3>1, <3>2 DEF SessionFlow
  <2> QED BY <1>1, <2>1, <2>2, <2>3, <2>4 DEF FairPlayInv, NothingYet, MessageFlow,
      OutputDone, ScheduleFlow, BlockFlow, KeyDone
<1>12. CASE blk # 7
  <2>1. stage' = "message"
    BY <1>3, <1>12 DEF MessageWrite
  <2>2. MessagesOK'
    BY <1>1, <1>10, <2>1 DEF FairPlayInv, MessagesOK, UnwrapAccepts
  <2>3. step'.block = blk + 1 /\ step'.round = 0 /\ message'.setup_mode = mode
    BY <1>1, <1>2, <1>10, <1>12
  <2>4. \A p \in 0..127 : Decrypted(p)' => out'[p] = Plain(p)
    BY <1>9, <2>3 DEF Decrypted
  <2>5. {msg_sbox(n) : n \in (144 - 16 * 0)..143} = {}
    OBVIOUS
  <2>6. MessageFlow'
    BY <1>1, <2>3, <2>4, <2>5, SMTT(30) DEF MessageFlow
  <2> QED BY <1>1, <2>1, <2>2, <2>6, SMTT(30) DEF FairPlayInv, NothingYet, OutputDone, SessionFlow,
      ScheduleFlow, BlockFlow, KeyDone
<1> QED BY <1>11, <1>12

(* sap_hash takes every byte of its block. *)
LEMMA SapFillAll ==
    /\ \A n \in 0..209 : SapFill(n) \in 0..63
    /\ \A q \in 0..63 : \E n \in 0..209 : SapFill(n) = q
<1>1. \A n \in 0..209 : SapFill(n) \in 0..63
  BY DEF SapFill
<1>2. ASSUME NEW q \in 0..63 PROVE \E n \in 0..209 : SapFill(n) = q
  <2>1. (q - (q % 4)) + (3 - (q % 4)) \in 0..63
    OBVIOUS
  <2>2. PICK n \in 0..63 : n = (q - (q % 4)) + (3 - (q % 4))
    BY <2>1
  <2>3. n % 64 = n /\ n % 4 = 3 - (q % 4)
    BY <2>2
  <2> QED BY <2>2, <2>3 DEF SapFill
<1> QED BY <1>1, <1>2

(* Complete, the message gives all of the core. *)
LEMMA SapAll ==
    ASSUME \A p \in 0..127 : out[p] = Plain(p)
    PROVE UNION {SapByte(p) : p \in 0..319} = 0..127
<1>1. \A p \in 0..319 : \A v \in SapByte(p) : v \in 0..127
  <2> SUFFICES ASSUME NEW p \in 0..319, NEW v \in SapByte(p) PROVE v \in 0..127
    OBVIOUS
  <2>1. p \in 17..144 /\ v \in out[p - 17]
    BY DEF SapByte
  <2>2. PICK q \in 0..127 : q = p - 17
    BY <2>1
  <2>3. v \in Plain(q)
    BY <2>1, <2>2
  <2> QED BY <2>3 DEF Plain
<1>2. \A v \in 0..127 : v + 17 \in 0..319 /\ v \in SapByte(v + 17)
  <2> SUFFICES ASSUME NEW v \in 0..127 PROVE v \in SapByte(v + 17)
    OBVIOUS
  <2>1. v + 17 \in 17..144 /\ (v + 17) - 17 = v
    OBVIOUS
  <2>2. SapByte(v + 17) = out[v]
    BY <2>1 DEF SapByte
  <2>3. v \in Plain(v)
    BY DEF Plain
  <2> QED BY <2>2, <2>3
<1> QED BY <1>1, <1>2

LEMMA SessionRoundStep ==
    ASSUME FairPlayInv, SessionRound PROVE FairPlayInv'
<1>1. stage = "session" /\ UNCHANGED <<ekey, message, b, out, boxes, sched>>
  BY DEF SessionRound
<1>2. PICK r \in 0..4 : r = step.round
  BY <1>1 DEF FairPlayInv, MessagesOK, SessionFlow
<1>3. step' = [block |-> step.block, round |-> (r + 1) % 5] /\ step' \in [block : 0..7, round : 0..10]
  BY <1>1, <1>2 DEF FairPlayInv, MessagesOK, SessionRound
<1>4. \A p : SapByte(p)' = SapByte(p)
  BY <1>1 DEF SapByte
<1>5. ASSUME NEW j \in Lanes PROVE key'[j] = UNION {SapByte(p) : p \in 0..(64 * (r + 1) - 1)}
  <2>1. PICK S : S = 0..(64 * r - 1)
    OBVIOUS
  <2>2. PICK T : T = (64 * r)..(64 * r + 63)
    OBVIOUS
  <2>3. \A n \in Lanes : key[n] = UNION {SapByte(p) : p \in S}
    BY <1>1, <1>2, <2>1 DEF FairPlayInv, SessionFlow
  <2>4. Lanes # {}
    BY DEF Lanes
  <2>5. UNION {key[n] : n \in Lanes} = UNION {SapByte(p) : p \in S}
    BY <2>3, <2>4, Zenon
  <2>6. sap_hash(64 * r) = UNION {SapByte(p) : p \in T}
    <3>1. \A n \in 0..209 : 64 * r + SapFill(n) \in T
      <4>1. \A q \in 0..63 : 64 * r + q \in T
        BY <2>2
      <4> QED BY <4>1, SapFillAll
    <3>2. \A t \in T : \E n \in 0..209 : t = 64 * r + SapFill(n)
      <4> SUFFICES ASSUME NEW t \in T PROVE \E n \in 0..209 : t = 64 * r + SapFill(n)
        OBVIOUS
      <4>1. t - 64 * r \in 0..63 /\ t = 64 * r + (t - 64 * r)
        BY <2>2
      <4> QED BY <4>1, SapFillAll
    <3> QED BY <3>1, <3>2 DEF sap_hash
  <2>7. key'[j] = sap_hash(64 * r) \cup UNION {key[n] : n \in Lanes}
    BY <1>2 DEF SessionRound
  <2>8. key'[j] = UNION {SapByte(p) : p \in S \cup T}
    BY <2>5, <2>6, <2>7
  <2>9. 0..(64 * (r + 1) - 1) = S \cup T
    BY <2>1, <2>2
  <2> QED BY <2>8, <2>9
<1>6. \A p \in 0..127 : out[p] = Plain(p)
  BY <1>1 DEF FairPlayInv, OutputDone
<1>7. CASE r = 4
  <2>1. stage' = "schedule" /\ step'.round = 0
    BY <1>2, <1>3, <1>7 DEF SessionRound
  <2>2. MessagesOK'
    BY <1>1, <1>3, <2>1 DEF FairPlayInv, MessagesOK
  <2>3. 64 * (r + 1) - 1 = 319
    BY <1>7
  <2>4. \A j \in Lanes : key'[j] = 0..127
    BY <1>5, <1>6, <2>3, SapAll
  <2>5. ScheduleFlow'
    BY <2>1, <2>4 DEF ScheduleFlow
  <2> QED BY <1>1, <1>6, <2>1, <2>2, <2>5 DEF FairPlayInv, NothingYet, MessageFlow,
      OutputDone, SessionFlow, BlockFlow, KeyDone
<1>8. CASE r # 4
  <2>1. stage' = "session" /\ step'.round = r + 1 /\ r + 1 <= 4
    BY <1>2, <1>3, <1>8 DEF SessionRound
  <2>2. MessagesOK'
    BY <1>1, <1>3, <2>1 DEF FairPlayInv, MessagesOK
  <2>3. \A j \in Lanes : key'[j] = UNION {SapByte(p)' : p \in 0..(64 * step'.round - 1)}
    BY <1>4, <1>5, <2>1
  <2>4. SessionFlow'
    BY <2>1, <2>3 DEF SessionFlow
  <2> QED BY <1>1, <1>6, <2>1, <2>2, <2>4 DEF FairPlayInv, NothingYet, MessageFlow,
      OutputDone, ScheduleFlow, BlockFlow, KeyDone
<1> QED BY <1>7, <1>8

LEMMA ScheduleRoundStep ==
    ASSUME FairPlayInv, ScheduleRound PROVE FairPlayInv'
<1>1. /\ stage = "schedule" /\ UNCHANGED <<ekey, message, out, boxes, key>>
      /\ step' = [step EXCEPT !.round = (@ + 1) % 11]
      /\ stage' = IF step.round = 10 THEN "block" ELSE "schedule"
  BY Zenon DEF ScheduleRound
<1>2. PICK r \in 0..10 : r = step.round
  BY <1>1, StepTyped
<1>3. step' = [block |-> step.block, round |-> (r + 1) % 11] /\ step' \in [block : 0..7, round : 0..10]
  BY <1>1, <1>2, StepTyped
<1>4. PICK all : all = 0..127
  OBVIOUS
<1> DEFINE x == IF step.round = 0 THEN key ELSE b
           w(n) == [j \in 0..3 |-> x[4 * n + j]]
           w0 == [j \in 0..3 |-> w(0)[j] \cup x[12 + ((j + 1) % 4)]]
           w1 == [j \in 0..3 |-> w(1)[j] \cup w0[j]]
           w2 == [j \in 0..3 |-> w(2)[j] \cup w1[j]]
           w3 == [j \in 0..3 |-> w(3)[j] \cup w2[j]]
           word(d) == <<w0, w1, w2, w3>>[d \div 4 + 1]
<1>5. /\ sched' = [sched EXCEPT ![step.round] = x]
      /\ b' = [d \in Lanes |-> word(d)[d % 4]]
  BY Zenon DEF ScheduleRound
<1>6. \A j \in Lanes : x[j] = all
  BY <1>1, <1>2, <1>4 DEF FairPlayInv, ScheduleFlow
<1> HIDE DEF x
<1>7. \A n \in 0..3, j \in 0..3 : w(n)[j] = all
  BY <1>6 DEF Lanes
<1>8. \A j \in 0..3 : x[12 + ((j + 1) % 4)] = all
  BY <1>6 DEF Lanes
<1> HIDE DEF w
<1>9. \A j \in 0..3 : w0[j] = all
  BY <1>7, <1>8
<1> HIDE DEF w0
<1>10. \A j \in 0..3 : w1[j] = all
  BY <1>7, <1>9
<1> HIDE DEF w1
<1>11. \A j \in 0..3 : w2[j] = all
  BY <1>7, <1>10
<1> HIDE DEF w2
<1>12. \A j \in 0..3 : w3[j] = all
  BY <1>7, <1>11
<1> HIDE DEF w3
<1>13. ASSUME NEW d \in Lanes PROVE b'[d] = all
  <2>1. PICK q \in 0..3 : q = d \div 4
    BY DEF Lanes
  <2>2. PICK m \in 0..3 : m = d % 4
    BY DEF Lanes
  <2>3. b'[d] = <<w0, w1, w2, w3>>[q + 1][m]
    BY <1>5, <2>1, <2>2
  <2> QED BY <2>3, <1>9, <1>10, <1>11, <1>12
<1> HIDE DEF word
<1>14. /\ DOMAIN sched' = 0..10
       /\ \A d \in Lanes : sched'[r][d] = all
       /\ \A n \in 0..10 : n # r => sched'[n] = sched[n]
  BY <1>1, <1>2, <1>5, <1>6 DEF FairPlayInv, NothingYet
<1>15. \A n \in 0..10 : n < r + 1 => \A d \in Lanes : sched'[n][d] = all
  <2>1. \A n \in 0..10 : n < r => \A d \in Lanes : sched[n][d] = all
    BY <1>1, <1>2, <1>4 DEF FairPlayInv, ScheduleFlow
  <2> QED BY <1>14, <2>1
<1>16. CASE r = 10
  <2>1. stage' = "block" /\ step'.round = 0
    BY <1>1, <1>2, <1>3, <1>16
  <2>2. MessagesOK'
    BY <1>1, <1>3, <2>1 DEF FairPlayInv, MessagesOK
  <2>3. \A n \in 0..10, d \in Lanes : sched'[n][d] = 0..127
    BY <1>4, <1>15, <1>16
  <2>4. BlockFlow'
    BY <2>1, <2>3 DEF BlockFlow
  <2> QED BY <1>1, <1>14, <2>1, <2>2, <2>4 DEF FairPlayInv, NothingYet, MessageFlow,
      OutputDone, SessionFlow, ScheduleFlow, KeyDone
<1>17. CASE r # 10
  <2>1. stage' = "schedule" /\ step'.round = r + 1 /\ r + 1 > 0
    BY <1>1, <1>2, <1>3, <1>17
  <2>2. MessagesOK'
    BY <1>1, <1>3, <2>1 DEF FairPlayInv, MessagesOK
  <2>3. ScheduleFlow'
    BY <1>2, <1>4, <1>13, <1>15, <2>1 DEF ScheduleFlow
  <2> QED BY <1>1, <1>14, <2>1, <2>2, <2>3 DEF FairPlayInv, NothingYet, MessageFlow,
      OutputDone, SessionFlow, BlockFlow, KeyDone
<1> QED BY <1>16, <1>17

(* The lanes of the word at lane d, before the shuffling. *)
LEMMA WordLanes ==
    ASSUME NEW d \in Lanes
    PROVE /\ \A n \in 0..3 : 4 * (d \div 4) + n \in Lanes
          /\ \A y \in Word4(d) : \E n \in 0..3 : y = kLaneSrc(4 * (d \div 4) + n)
          /\ \A n \in 0..3 : kLaneSrc(4 * (d \div 4) + n) \in Word4(d)
BY DEF Lanes, Word4

LEMMA BlockRoundStep ==
    ASSUME FairPlayInv, BlockRound PROVE FairPlayInv'
<1>1. stage = "block" /\ UNCHANGED <<stage, ekey, message, out, boxes, key, sched>>
  BY DEF BlockRound
<1>2. PICK r \in 0..9 : r = step.round
  BY <1>1 DEF FairPlayInv, MessagesOK, BlockRound
<1>3. step' = [block |-> step.block, round |-> r + 1] /\ step' \in [block : 0..7, round : 0..10]
  BY <1>1, <1>2 DEF FairPlayInv, MessagesOK, BlockRound
<1>4. MessagesOK'
  BY <1>1, <1>3 DEF FairPlayInv, MessagesOK
<1>5. PICK core : core = 0..127
  OBVIOUS
<1>6. \A n \in 0..10, d \in Lanes : sched[n][d] = core
  BY <1>1, <1>5 DEF FairPlayInv, BlockFlow
<1>7. \A y : \A n \in 0..10, d \in Lanes : AddRoundKey(y, n)[d] = y[d] \cup core
  BY <1>6 DEF AddRoundKey
<1>8. ASSUME r = 0, NEW d \in Lanes PROVE b'[d] = core \cup {128 + kLaneSrc(d)}
  <2>1. b'[d] = AddRoundKey([e \in Lanes |-> {128 + e}], 10)[kLaneSrc(d)]
    BY <1>2, <1>8 DEF BlockRound, shuffle_lanes
  <2>2. kLaneSrc(d) \in Lanes /\ 10 \in 0..10
    BY LanesAreLanes
  <2>3. b'[d] = [e \in Lanes |-> {128 + e}][kLaneSrc(d)] \cup core
    BY <1>7, <2>1, <2>2
  <2> QED BY <2>2, <2>3
<1>9. ASSUME r > 0, NEW d \in Lanes
      PROVE b'[d] = core \cup UNION {b[4 * (kLaneSrc(d) \div 4) + n] : n \in 0..3}
  <2>1. 10 - r \in 0..10 /\ kLaneSrc(d) \in Lanes /\ 0 \in 0..3
    BY <1>9, LanesAreLanes
  <2>2. b'[d] = UNION {AddRoundKey(b, 10 - r)[4 * (kLaneSrc(d) \div 4) + n] : n \in 0..3}
    BY <1>2, <1>9, ShuffleMix DEF BlockRound
  <2>3. \A n \in 0..3 : AddRoundKey(b, 10 - r)[4 * (kLaneSrc(d) \div 4) + n]
                           = b[4 * (kLaneSrc(d) \div 4) + n] \cup core
    BY <1>7, <2>1, WordLanes
  <2> QED BY <2>1, <2>2, <2>3
<1>10. ASSUME r = 1, NEW d \in Lanes
       PROVE b'[d] = core \cup {128 + y : y \in Word4(kLaneSrc(d))}
  <2>1. kLaneSrc(d) \in Lanes
    BY LanesAreLanes
  <2>2. \A n \in 0..3 : b[4 * (kLaneSrc(d) \div 4) + n]
                           = core \cup {128 + kLaneSrc(4 * (kLaneSrc(d) \div 4) + n)}
    BY <1>1, <1>2, <1>5, <1>10, <2>1, WordLanes DEF FairPlayInv, BlockFlow
  <2>3. {128 + y : y \in Word4(kLaneSrc(d))}
          = {128 + kLaneSrc(4 * (kLaneSrc(d) \div 4) + n) : n \in 0..3}
    BY Zenon DEF Word4
  <2> QED BY <1>9, <1>10, <2>2, <2>3
<1>11. ASSUME r = 2, NEW d \in Lanes PROVE b'[d] = 0..143
  <2>1. kLaneSrc(d) \in Lanes
    BY LanesAreLanes
  <2>2. \A y \in Lanes : b[y] = core \cup {128 + x : x \in Word4(kLaneSrc(y))}
    BY <1>1, <1>2, <1>5, <1>11 DEF FairPlayInv, BlockFlow
  <2>3. b'[d] = core \cup UNION {b[4 * (kLaneSrc(d) \div 4) + n] : n \in 0..3}
    BY <1>9, <1>11
  <2>4. ASSUME NEW v \in b'[d] PROVE v \in 0..143
    <3>1. v \in core \/ \E n \in 0..3 : v \in b[4 * (kLaneSrc(d) \div 4) + n]
      BY <2>3
    <3>2. v \in core \/ \E y \in Lanes : v \in {128 + x : x \in Word4(kLaneSrc(y))}
      BY <2>1, <2>2, <3>1, WordLanes
    <3>3. v \in core \/ \E x \in Lanes : v = 128 + x
      BY <3>2, LanesAreLanes, WordsOfLanes
    <3> QED BY <1>5, <3>3 DEF Lanes
  <2>5. ASSUME NEW v \in 0..143 PROVE v \in b'[d]
    <3>1. CASE v \in 0..127
      BY <1>5, <2>3, <3>1
    <3>2. CASE v \notin 0..127
      <4>1. PICK x \in Lanes : v = 128 + x
        <5>1. v - 128 \in Lanes /\ v = 128 + (v - 128)
          BY <3>2 DEF Lanes
        <5> QED BY <5>1
      <4>2. PICK y \in Word4(kLaneSrc(d)) : x \in Word4(y)
        BY <2>1, TwoRoundsMix
      <4>3. PICK n \in 0..3 : y = kLaneSrc(4 * (kLaneSrc(d) \div 4) + n)
        BY <2>1, WordLanes
      <4>4. v \in b[4 * (kLaneSrc(d) \div 4) + n]
        BY <2>1, <2>2, <4>1, <4>2, <4>3, WordLanes
      <4> QED BY <2>3, <4>4
    <3> QED BY <3>1, <3>2
  <2> QED BY <2>4, <2>5
<1>12. ASSUME r >= 3, NEW d \in Lanes PROVE b'[d] = 0..143
  <2>1. kLaneSrc(d) \in Lanes
    BY LanesAreLanes
  <2>2. PICK whole : whole = 0..143
    OBVIOUS
  <2>3. \A n \in 0..3 : b[4 * (kLaneSrc(d) \div 4) + n] = whole
    BY <1>1, <1>2, <1>12, <2>1, <2>2, WordLanes DEF FairPlayInv, BlockFlow
  <2>4. b'[d] = core \cup whole
    BY <1>9, <1>12, <2>3
  <2> QED BY <1>5, <2>2, <2>4
<1>13. BlockFlow'
  <2>1. step'.round = r + 1
    BY <1>3
  <2>2. \A n \in 0..10, d \in Lanes : sched'[n][d] = 0..127
    BY <1>1, <1>5, <1>6
  <2>3. r + 1 = 1 => \A d \in Lanes : b'[d] = 0..127 \cup {128 + kLaneSrc(d)}
    BY <1>5, <1>8
  <2>4. r + 1 = 2 => \A d \in Lanes : b'[d] = 0..127 \cup {128 + x : x \in Word4(kLaneSrc(d))}
    BY <1>5, <1>10
  <2>5. r + 1 >= 3 => \A d \in Lanes : b'[d] = 0..143
    BY <1>11, <1>12
  <2> QED BY <2>1, <2>2, <2>3, <2>4, <2>5 DEF BlockFlow
<1> QED BY <1>1, <1>4, <1>13 DEF FairPlayInv, NothingYet, MessageFlow, OutputDone,
    SessionFlow, ScheduleFlow, KeyDone

LEMMA BlockEndsStep ==
    ASSUME FairPlayInv, BlockEnds PROVE FairPlayInv'
<1>1. /\ stage = "block" /\ step.round = 10 /\ stage' = "done"
      /\ UNCHANGED <<ekey, message, step, b, out, boxes, sched>>
  BY DEF BlockEnds
<1>2. MessagesOK'
  BY <1>1 DEF FairPlayInv, MessagesOK, UnwrapAccepts
<1>3. ASSUME NEW j \in Lanes PROVE key'[j] = 0..143 \cup {144 + j}
  <2>1. b[j] = 0..143 /\ sched[0][j] = 0..127
    BY <1>1 DEF FairPlayInv, BlockFlow
  <2>2. key'[j] = (b[j] \cup sched[0][j]) \cup {144 + j}
    BY DEF BlockEnds, AddRoundKey
  <2> QED BY <2>1, <2>2
<1> QED BY <1>1, <1>2, <1>3 DEF FairPlayInv, NothingYet, MessageFlow, OutputDone,
    SessionFlow, ScheduleFlow, BlockFlow, KeyDone

LEMMA FairPlayStep ==
    ASSUME FairPlayInv, FairPlayNext PROVE FairPlayInv'
BY ParseStep, MessageRoundStep, MessageWriteStep, SessionRoundStep, ScheduleRoundStep,
   BlockRoundStep, BlockEndsStep DEF FairPlayNext

(* The two properties follow. *)
LEMMA FairPlayInvImplies ==
    ASSUME FairPlayInv PROVE SlicesInside /\ KeyDerived
<1>1. SlicesInside
  <2>1. ASSUME stage # "idle", EkeyValid(ekey)
        PROVE /\ Token.size >= 0 /\ Token.first + Token.size <= ekey.size
              /\ WrappedKey(ekey).size >= 0
              /\ WrappedKey(ekey).first + WrappedKey(ekey).size <= ekey.size
              /\ EkeyTail(ekey).size >= 0
              /\ EkeyTail(ekey).first + EkeyTail(ekey).size <= ekey.size
    BY <2>1 DEF FairPlayInv, MessagesOK, EkeyValid, WrappedFits, Token, WrappedKey, EkeyTail, Slice
  <2>2. ASSUME stage \notin {"idle", "parse", "refused"}
        PROVE /\ Core.size >= 0 /\ Core.first + Core.size <= message.size
              /\ TailSeed(ekey).size = 16 /\ TailSeed(ekey).size >= 0
              /\ TailSeed(ekey).first + TailSeed(ekey).size <= ekey.size
    <3>1. EkeyValid(ekey) /\ message.size = 164 /\ EkeyTail(ekey).size = 20
      BY <2>2 DEF FairPlayInv, MessagesOK, UnwrapAccepts, InputValid
    <3>2. ekey.size \in Nat /\ ekey.wrapped_key_size \in Nat
      BY <2>2 DEF FairPlayInv, MessagesOK
    <3>3. PICK size \in Nat, wrapped \in Nat :
             ekey.size = size /\ ekey.wrapped_key_size = wrapped
      BY <3>2
    <3>4. size - (36 + wrapped) = 20
      BY <3>1, <3>3 DEF EkeyTail, Slice
    <3>5. TailSeed(ekey).size = 16 /\ TailSeed(ekey).first = (36 + wrapped) + 4
      BY <3>3, <3>4 DEF EkeyTail, TailSeed, Slice
    <3> QED BY <3>1, <3>3, <3>4, <3>5 DEF Core, Slice
  <2> QED BY <2>1, <2>2 DEF SlicesInside
<1>2. stage \notin {"idle", "parse", "refused", "message"} =>
           \A p \in 0..127 : out[p] = Plain(p)
  BY DEF FairPlayInv, MessagesOK, OutputDone
<1>3. (stage = "message" /\ step.round > 0) => Cardinality(boxes) = 16 * step.round
  <2> SUFFICES ASSUME stage = "message", step.round > 0
               PROVE Cardinality(boxes) = 16 * step.round
    OBVIOUS
  <2>1. PICK r \in 0..9 : r = step.round
    BY DEF FairPlayInv, MessagesOK, MessageFlow
  <2>2. boxes = {msg_sbox(i) : i \in (144 - 16 * r)..143}
    BY <2>1 DEF FairPlayInv, MessageFlow
  <2> QED BY <2>1, <2>2, SboxCount
<1>4. stage = "done" => \A j \in Lanes : key[j] = 0..143 \cup {144 + j}
  BY DEF FairPlayInv, KeyDone
<1> QED BY <1>1, <1>2, <1>3, <1>4, Zenon DEF KeyDerived, Plain

-----------------------------------------------------------------------------
(* Property lists: what the readers compute from a document of bytes *)

LEMMA WordIsNat == Word \in Nat /\ Word > 0 /\ WordBytes \in 1..8
BY WordBytesAssumption DEF Word

Octets == 0..255

LEMMA OctetRange ==
    \A v \in Octets : v \in 0..255 /\ v \in Nat /\ v \div 16 \in 0..15 /\ v % 16 \in 0..15
BY DEF Octets

LEMMA SizeIsNat == ASSUME data \in Seq(Octets) PROVE Size \in Nat
BY DEF Size

LEMMA ByteInside ==
    ASSUME data \in Seq(Octets), NEW k \in Nat, k < Size PROVE At(k) \in Octets
<1>1. k + 1 \in 1..Len(data)
  BY DEF Size
<1>2. data[k + 1] \in Octets
  BY <1>1, ElementOfSeq
<1> QED BY <1>2 DEF At

LEMMA HornerIsNat ==
    ASSUME NEW v0 \in Nat, NEW v1 \in Nat, NEW v2 \in Nat, NEW v3 \in Nat,
           NEW v4 \in Nat, NEW v5 \in Nat, NEW v6 \in Nat, NEW v7 \in Nat
    PROVE v0 + 256 * (v1 + 256 * (v2 + 256 * (v3 + 256 * (v4
           + 256 * (v5 + 256 * (v6 + 256 * v7)))))) \in Nat
OBVIOUS

(* read_be stays inside of the document, and its value is a number. *)
LEMMA ReadBeNat ==
    ASSUME data \in Seq(Octets), NEW offset \in Nat, NEW bytes \in Nat
    PROVE read_be(offset, bytes) \in Nat
<1> DEFINE n == IF offset + bytes <= Size THEN bytes
                ELSE IF offset < Size THEN Size - offset ELSE 0
           byte(k) == IF k < n /\ k < WordBytes THEN At(offset + n - 1 - k) ELSE 0
<1>1. n \in Nat /\ (n = 0 \/ offset + n <= Size)
  BY SizeIsNat
<1>2. \A k \in Nat : byte(k) \in Nat
  <2> SUFFICES ASSUME NEW k \in Nat PROVE byte(k) \in Nat
    OBVIOUS
  <2>1. PICK m \in Nat : m = n /\ (m = 0 \/ offset + m <= Size)
    BY <1>1
  <2>2. CASE k < m
    <3>1. offset + m - 1 - k \in Nat /\ offset + m - 1 - k < Size
      BY <2>1, <2>2, SizeIsNat
    <3>2. At(offset + m - 1 - k) \in Octets
      BY <3>1, ByteInside
    <3>3. At(offset + m - 1 - k) \in Nat
      BY <3>2, OctetRange
    <3> HIDE DEF n
    <3>4. At(offset + n - 1 - k) \in Nat
      BY <2>1, <3>3, Zenon
    <3> QED BY <3>4
  <2>3. CASE ~(k < m)
    <3> HIDE DEF n
    <3> QED BY <2>1, <2>3
  <2> QED BY <2>2, <2>3
<1>3. read_be(offset, bytes)
        = byte(0) + 256 * (byte(1) + 256 * (byte(2) + 256 * (byte(3) + 256 * (byte(4)
          + 256 * (byte(5) + 256 * (byte(6) + 256 * byte(7)))))))
  BY DEF read_be
<1> HIDE DEF byte, n
<1>4. /\ byte(0) \in Nat /\ byte(1) \in Nat /\ byte(2) \in Nat /\ byte(3) \in Nat
      /\ byte(4) \in Nat /\ byte(5) \in Nat /\ byte(6) \in Nat /\ byte(7) \in Nat
  BY <1>2
<1>5. PICK v0 \in Nat, v1 \in Nat, v2 \in Nat, v3 \in Nat, v4 \in Nat, v5 \in Nat,
           v6 \in Nat, v7 \in Nat :
         /\ v0 = byte(0) /\ v1 = byte(1) /\ v2 = byte(2) /\ v3 = byte(3)
         /\ v4 = byte(4) /\ v5 = byte(5) /\ v6 = byte(6) /\ v7 = byte(7)
  BY <1>4, Zenon
<1>6. read_be(offset, bytes)
        = v0 + 256 * (v1 + 256 * (v2 + 256 * (v3 + 256 * (v4
          + 256 * (v5 + 256 * (v6 + 256 * v7))))))
  BY <1>3, <1>5
<1> QED BY <1>6, HornerIsNat

LEMMA PowerIsNat == \A n \in 0..15 : PowerOfTwo(n) \in Nat
BY DEF PowerOfTwo

(* The fields of the trailer are numbers. *)
LEMMA TrailerNat ==
    ASSUME data \in Seq(Octets), IsPlist
    PROVE /\ offset_int_size \in Nat /\ object_ref_size \in Nat
          /\ object_count \in Nat /\ top_object \in Nat /\ offset_table \in Nat
<1>1. PICK w \in 1..8 : w = WordBytes
  BY WordIsNat
<1>2. PICK size \in Nat : size = Size /\ size >= 16 + 3 * w
  BY <1>1, SizeIsNat DEF IsPlist
<1>3. PICK t \in Nat : t = trailer /\ t + 8 <= size
  BY <1>1, <1>2 DEF trailer
<1>4. offset_int_size \in Nat /\ object_ref_size \in Nat
  <2>1. t + 6 \in Nat /\ t + 6 < Size /\ t + 7 \in Nat /\ t + 7 < Size
    BY <1>2, <1>3
  <2>2. At(t + 6) \in Nat /\ At(t + 7) \in Nat
    BY <2>1, ByteInside, OctetRange
  <2> QED BY <1>3, <2>2 DEF offset_int_size, object_ref_size
<1>5. t + 8 \in Nat /\ t + 8 + w \in Nat /\ t + 8 + 2 * w \in Nat /\ w \in Nat
  BY <1>1
<1>6. /\ read_be(t + 8, w) \in Nat /\ read_be(t + 8 + w, w) \in Nat
      /\ read_be(t + 8 + 2 * w, w) \in Nat
  BY <1>5, ReadBeNat
<1> QED BY <1>1, <1>3, <1>4, <1>6 DEF object_count, top_object, offset_table

LEMMA ProductIsNat == \A k, l \in Nat : k * l \in Nat
OBVIOUS

(* An object that is found starts inside of the document. *)
LEMMA ObjectInside ==
    ASSUME data \in Seq(Octets), IsPlist, NEW object \in Nat,
           object_offset(object) # None
    PROVE object_offset(object) \in Nat /\ object_offset(object) < Size
<1>1. PICK start : start = read_be(offset_table + object * offset_int_size, offset_int_size)
  OBVIOUS
<1>2. offset_table + object * offset_int_size \in Nat
  BY TrailerNat, ProductIsNat
<1>3. start \in Nat
  BY <1>1, <1>2, ReadBeNat, TrailerNat
<1>4. object_offset(object) = IF object < object_count /\ start < Size THEN start ELSE None
  BY <1>1 DEF object_offset
<1> QED BY <1>3, <1>4

LEMMA NibblesInside ==
    ASSUME data \in Seq(Octets), NEW start \in Nat, start < Size
    PROVE high(start) \in 0..15 /\ low(start) \in 0..15
<1>1. At(start) \in Octets
  BY ByteInside
<1> QED BY <1>1, OctetRange DEF high, low

(* A count that is read lies inside of the document. *)
LEMMA CountInside ==
    ASSUME data \in Seq(Octets), NEW start \in Nat, start < Size, read_count(start).ok
    PROVE /\ read_count(start).count \in Nat
          /\ read_count(start).offset \in Nat /\ read_count(start).offset <= Size
<1>1. PICK l \in 0..15 : l = low(start)
  BY NibblesInside
<1>2. PICK size \in Nat : size = Size
  BY SizeIsNat
<1>3. CASE l < 15
  <2>1. read_count(start) = [ok |-> TRUE, count |-> low(start), offset |-> start + 1]
    BY <1>1, <1>3 DEF read_count
  <2> QED BY <1>1, <1>2, <2>1
<1>4. CASE ~(l < 15)
  <2> DEFINE bytes == PowerOfTwo(At(start + 1) % 16)
  <2>1. read_count(start) = IF \/ start + 1 >= Size
                               \/ At(start + 1) \div 16 # 1
                               \/ start + 2 + bytes > Size
                            THEN BadCount
                            ELSE [ok |-> TRUE, count |-> read_be(start + 2, bytes),
                                  offset |-> start + 2 + bytes]
    BY <1>1, <1>4, Zenon DEF read_count
  <2> HIDE DEF bytes
  <2>2. ~BadCount.ok
    BY DEF BadCount
  <2>3. /\ ~(start + 1 >= Size) /\ ~(start + 2 + bytes > Size)
        /\ read_count(start) = [ok |-> TRUE, count |-> read_be(start + 2, bytes),
                                offset |-> start + 2 + bytes]
    BY <2>1, <2>2, Zenon
  <2>4. bytes \in Nat
    <3>1. start + 1 \in Nat /\ start + 1 < Size
      BY <1>2, <2>3
    <3>2. At(start + 1) % 16 \in 0..15
      BY <3>1, ByteInside, OctetRange
    <3> QED BY <3>2, PowerIsNat DEF bytes
  <2>5. start + 2 \in Nat
    OBVIOUS
  <2>6. read_be(start + 2, bytes) \in Nat
    BY <2>4, <2>5, ReadBeNat
  <2> QED BY <1>2, <2>3, <2>4, <2>6
<1> QED BY <1>3, <1>4

(* Bytes that lie inside of the document, or whose end wraps. *)
Inside(r) == r.first + r.bytes <= Size \/ r.first + r.bytes >= Word

LEMMA SmallRemainder ==
    ASSUME NEW w \in Nat, w > 0, NEW k \in Nat, k < w PROVE k % w = k
OBVIOUS

(* The check of the code, sums that wrap included. *)
LEMMA FitsInside ==
    ASSUME data \in Seq(Octets), NEW first \in Nat, NEW bytes \in Nat,
           Fits(first, bytes) \/ Fits(first, bytes % Word)
    PROVE first + bytes <= Size \/ first + bytes >= Word
<1> SUFFICES ASSUME ~(first + bytes >= Word) PROVE first + bytes <= Size
  OBVIOUS
<1>1. first + bytes \in Nat /\ first + bytes < Word /\ bytes < Word
  BY WordIsNat
<1>2. bytes % Word = bytes /\ (first + bytes) % Word = first + bytes
  BY <1>1, WordIsNat, SmallRemainder
<1> QED BY <1>2 DEF Fits

LEMMA CountedInside ==
    ASSUME data \in Seq(Octets), NEW start \in Nat, start < Size, NEW unit \in {1, 2},
           Counted(start, unit).first # None
    PROVE /\ Counted(start, unit) \in [first : Nat, bytes : Nat]
          /\ Counted(start, unit).first <= Size /\ Inside(Counted(start, unit))
<1> DEFINE c == read_count(start)
<1>1. Counted(start, unit) = IF c.ok /\ Fits(c.offset, (c.count * unit) % Word)
                             THEN Extent(c.offset, c.count * unit) ELSE Extent(None, 0)
  BY Zenon DEF Counted
<1>2. Extent(None, 0).first = None
  BY DEF Extent
<1>3. /\ c.ok /\ Fits(c.offset, (c.count * unit) % Word)
      /\ Counted(start, unit) = Extent(c.offset, c.count * unit)
  BY <1>1, <1>2, Zenon
<1>4. c.count \in Nat /\ c.offset \in Nat /\ c.offset <= Size
  BY <1>3, CountInside
<1> HIDE DEF c
<1>5. c.count * unit \in Nat
  BY <1>4
<1>6. c.offset + c.count * unit <= Size \/ c.offset + c.count * unit >= Word
  BY <1>3, <1>4, <1>5, FitsInside
<1> QED BY <1>3, <1>4, <1>5, <1>6 DEF Extent, Inside

LEMMA SizedInside ==
    ASSUME data \in Seq(Octets), NEW start \in Nat, start < Size,
           Sized(start).first # None
    PROVE /\ Sized(start) \in [first : Nat, bytes : Nat]
          /\ Sized(start).first <= Size /\ Inside(Sized(start))
<1>1. PICK bytes \in Nat : bytes = PowerOfTwo(low(start))
  BY NibblesInside, PowerIsNat
<1>2. Sized(start) = IF start + 1 + bytes <= Size THEN Extent(start + 1, bytes)
                     ELSE Extent(None, 0)
  BY <1>1 DEF Sized
<1>3. start + 1 + bytes <= Size /\ Sized(start) = Extent(start + 1, bytes)
  BY <1>2 DEF Extent
<1> QED BY <1>3, SizeIsNat DEF Extent, Inside

LEMMA AtomInside ==
    ASSUME data \in Seq(Octets), NEW start \in Nat, start < Size,
           AtomRange(start).first # None
    PROVE /\ AtomRange(start) \in [first : Nat, bytes : Nat]
          /\ AtomRange(start).first <= Size /\ Inside(AtomRange(start))
<1>1. \/ AtomRange(start) = Counted(start, 1) \/ AtomRange(start) = Counted(start, 2)
      \/ AtomRange(start) = Sized(start)
  BY DEF AtomRange
<1>2. CASE AtomRange(start) = Counted(start, 1)
  BY <1>2, CountedInside
<1>3. CASE AtomRange(start) = Counted(start, 2)
  BY <1>3, CountedInside
<1>4. CASE AtomRange(start) = Sized(start)
  BY <1>4, SizedInside
<1> QED BY <1>1, <1>2, <1>3, <1>4

LEMMA NothingTaken ==
    ASSUME data \in Seq(Octets) PROVE Inside(Extent(0, 0))
BY SizeIsNat DEF Inside, Extent

(* What the parser takes for an atom. *)
LEMMA TakenInside ==
    ASSUME data \in Seq(Octets), NEW start \in Nat, start < Size
    PROVE Inside(Taken(start, AtomValue(start)))
<1> DEFINE r == AtomRange(start)
           v == AtomValue(start)
           text == IF r.first + r.bytes <= Size THEN Bytes(r)
                   ELSE [n \in 1..(Size - r.first) |-> At(r.first + n - 1)]
<1>1. Taken(start, v) = IF v = Failed \/ v.type \in {"null", "boolean"} THEN Extent(0, 0)
                        ELSE IF v.type = "string" /\ high(start) = 5
                        THEN Extent(r.first, Len(v.text)) ELSE r
  BY Zenon DEF Taken
<1>2. CASE r.first = None
  <2>1. v = Failed \/ v = [type |-> "null"] \/ v = [type |-> "boolean", boolean |-> At(start) = 9]
    BY <1>2, Zenon DEF AtomValue
  <2>2. v = Failed \/ v.type \in {"null", "boolean"}
    BY <2>1
  <2>3. Taken(start, v) = Extent(0, 0)
    BY <1>1, <2>2, Zenon
  <2> QED BY <2>3, NothingTaken
<1>3. CASE r.first # None /\ high(start) = 5
  <2>1. /\ r \in [first : Nat, bytes : Nat] /\ r.first <= Size /\ Inside(r)
    BY <1>3, AtomInside
  <2>2. At(start) # 0 /\ At(start) \notin {8, 9}
    <3>1. At(start) \in Octets
      BY ByteInside
    <3> QED BY <1>3, <3>1, OctetRange DEF high
  <2>3. v = [type |-> "string", text |-> text]
    <3>1. high(start) # 1 /\ high(start) # 2 /\ high(start) \in {1, 2, 4, 5, 6}
      BY <1>3
    <3> QED BY <1>3, <2>2, <3>1, Zenon DEF AtomValue
  <2>4. r.first + Len(text) <= Size
    <3>1. PICK size \in Nat : size = Size
      BY SizeIsNat
    <3>2. PICK first \in Nat, bytes \in Nat : r.first = first /\ r.bytes = bytes
      BY <2>1
    <3>3. CASE first + bytes <= size
      <4>1. text = [n \in 1..bytes |-> At(first + n - 1)]
        BY <3>1, <3>2, <3>3 DEF Bytes
      <4> HIDE DEF text
      <4>2. Len(text) = bytes
        BY <4>1
      <4> QED BY <3>1, <3>2, <3>3, <4>2
    <3>4. CASE ~(first + bytes <= size)
      <4>1. PICK m \in Nat : m = size - first
        BY <2>1, <3>1, <3>2
      <4>2. text = [n \in 1..m |-> At(first + n - 1)]
        BY <3>1, <3>2, <3>4, <4>1
      <4> HIDE DEF text
      <4>3. Len(text) = m
        BY <4>2
      <4> QED BY <3>1, <3>2, <4>1, <4>3
    <3> QED BY <3>3, <3>4
  <2>5. v.type = "string" /\ v.text = text
    BY <2>3
  <2>6. Taken(start, v) \in {Extent(0, 0), Extent(r.first, Len(text))}
    BY <1>1, <1>3, <2>5, Zenon
  <2>7. Inside(Extent(r.first, Len(text)))
    BY <2>4 DEF Extent, Inside
  <2> QED BY <2>6, <2>7, NothingTaken
<1>4. CASE r.first # None /\ high(start) # 5
  <2>1. Inside(r)
    BY <1>4, AtomInside
  <2>2. Taken(start, v) \in {Extent(0, 0), r}
    BY <1>1, <1>4, Zenon
  <2> QED BY <2>1, <2>2, NothingTaken
<1> QED BY <1>2, <1>3, <1>4

(* What it takes for a container. *)
LEMMA ContainerInside ==
    ASSUME data \in Seq(Octets), IsPlist, NEW start \in Nat, start < Size, NEW limit,
           ContainerFits(start, limit)
    PROVE /\ Frame(start).refs \in Nat /\ Frame(start).count \in Nat
          /\ Inside(Extent(Frame(start).refs,
                     Frame(start).count * object_ref_size * RefsPerEntry(start)))
<1>1. PICK c : c = read_count(start)
  OBVIOUS
<1>2. /\ c.ok /\ Fits(c.offset, c.count * object_ref_size * RefsPerEntry(start))
      /\ Frame(start).refs = c.offset /\ Frame(start).count = c.count
  BY <1>1 DEF ContainerFits, Frame
<1>3. c.count \in Nat /\ c.offset \in Nat
  BY <1>1, <1>2, CountInside
<1>4. PICK bytes \in Nat : bytes = c.count * object_ref_size * RefsPerEntry(start)
  <2>1. RefsPerEntry(start) \in Nat
    BY DEF RefsPerEntry
  <2>2. c.count * object_ref_size \in Nat
    BY <1>3, TrailerNat, ProductIsNat
  <2> QED BY <2>1, <2>2, ProductIsNat
<1>5. c.offset + bytes <= Size \/ c.offset + bytes >= Word
  BY <1>2, <1>3, <1>4, FitsInside
<1> QED BY <1>2, <1>3, <1>4, <1>5 DEF Inside, Extent

-----------------------------------------------------------------------------
(* Property lists: the inductive invariant *)

(* Frames whose values come from V. *)
Frames(V) == [dict : BOOLEAN, refs : Nat, count : Nat, n : Nat, values : Seq(V)]

PlistInv ==
    /\ data \in Seq(Octets)
    /\ visit \in Int
    /\ (visit >= 0 \/ frames # <<>>) => IsPlist
    /\ \E V : frames \in Seq(Frames(V))
    /\ Len(frames) <= 17 /\ (reader = "describer" => Len(frames) <= 9)
    /\ Inside(lastRead)

LEMMA PlistInitInv ==
    ASSUME PlistInit \/ PlistIdle PROVE PlistInv
<1>1. data \in Seq(Octets)
  <2>1. PlistInit => data \in Seq(Octets)
    BY DocumentsAssumption, Zenon DEF PlistInit, Octets
  <2>2. PlistIdle => data \in Seq(Octets)
    BY EmptySeq, Zenon DEF PlistIdle
  <2> QED BY <2>1, <2>2
<1>2. /\ visit \in Int /\ ~(visit >= 0) /\ frames = <<>> /\ Len(frames) = 0
      /\ lastRead = Extent(0, 0)
  BY DEF PlistInit, PlistIdle, Start, None
<1>3. frames \in Seq(Frames({}))
  BY <1>2
<1> QED BY <1>1, <1>2, <1>3, NothingTaken DEF PlistInv

(* A frame on top, another value in it, and the frame gone. *)
LEMMA Pushed ==
    ASSUME NEW V, NEW f \in Frames(V), NEW old \in Seq(Frames(V))
    PROVE <<f>> \o old \in Seq(Frames(V)) /\ Len(<<f>> \o old) = Len(old) + 1
<1>1. <<f>> \in Seq(Frames(V)) /\ Len(<<f>>) = 1
  OBVIOUS
<1> QED BY <1>1, ConcatProperties

LEMMA MoreValues ==
    ASSUME NEW V, NEW old \in Seq(Frames(V)), NEW v
    PROVE old \in Seq(Frames(V \cup {v}))
<1>1. \A f \in Frames(V) : f \in Frames(V \cup {v})
  <2> SUFFICES ASSUME NEW f \in Frames(V) PROVE f \in Frames(V \cup {v})
    OBVIOUS
  <2>1. f.values \in Seq(V \cup {v})
    <3>1. f.values \in Seq(V)
      BY DEF Frames
    <3> QED BY <3>1
  <2> QED BY <2>1 DEF Frames
<1>2. Frames(V) \subseteq Frames(V \cup {v})
  BY <1>1, Zenon
<1> QED BY <1>2, SeqMonotonic, Zenon

LEMMA ValueAppended ==
    ASSUME NEW V, NEW old \in Seq(Frames(V)), old # <<>>, NEW v
    PROVE /\ [old EXCEPT ![1].values = Append(@, v)] \in Seq(Frames(V \cup {v}))
          /\ Len([old EXCEPT ![1].values = Append(@, v)]) = Len(old)
<1>1. old \in Seq(Frames(V \cup {v})) /\ 1 \in 1..Len(old)
  <2>1. old \in Seq(Frames(V \cup {v}))
    BY MoreValues
  <2>2. Len(old) \in Nat \ {0}
    BY EmptySeq, Zenon
  <2> QED BY <2>1, <2>2
<1>2. old[1] \in Frames(V \cup {v})
  BY <1>1, ElementOfSeq, Zenon
<1>3. Append(old[1].values, v) \in Seq(V \cup {v})
  BY <1>2 DEF Frames
<1>4. [old[1] EXCEPT !.values = Append(@, v)] \in Frames(V \cup {v})
  BY <1>2, <1>3 DEF Frames
<1>5. PICK g \in Frames(V \cup {v}) : g = [old[1] EXCEPT !.values = Append(@, v)]
  BY <1>4
<1>6. [old EXCEPT ![1] = g] \in Seq(Frames(V \cup {v})) /\ Len([old EXCEPT ![1] = g]) = Len(old)
  BY <1>1, ExceptSeq
<1> QED BY <1>5, <1>6, Zenon

LEMMA ChildCounted ==
    ASSUME NEW V, NEW old \in Seq(Frames(V)), old # <<>>
    PROVE /\ [old EXCEPT ![1].n = @ + 1] \in Seq(Frames(V))
          /\ Len([old EXCEPT ![1].n = @ + 1]) = Len(old)
<1>1. 1 \in 1..Len(old)
  <2>1. Len(old) \in Nat \ {0}
    BY EmptySeq, Zenon
  <2> QED BY <2>1
<1>2. PICK f \in Frames(V) : f = old[1]
  BY <1>1, ElementOfSeq, Zenon
<1>3. PICK g \in Frames(V) : g = [f EXCEPT !.n = @ + 1]
  <2>1. PICK m \in Nat : m = f.n + 1
    BY DEF Frames
  <2>2. [f EXCEPT !.n = m] \in Frames(V)
    BY DEF Frames
  <2> QED BY <2>1, <2>2, Zenon
<1>4. [old EXCEPT ![1] = g] \in Seq(Frames(V)) /\ Len([old EXCEPT ![1] = g]) = Len(old)
  BY <1>1, ExceptSeq
<1> QED BY <1>2, <1>3, <1>4, Zenon

(* A value that is returned makes the stack no higher. *)
LEMMA GivesFrames ==
    ASSUME NEW V, frames \in Seq(Frames(V)), NEW v, Gives(v)
    PROVE /\ \E W : frames' \in Seq(Frames(W))
          /\ Len(frames') <= Len(frames) /\ (frames' # <<>> => frames # <<>>)
<1>1. \/ frames' = <<>>
      \/ frames # <<>> /\ frames' = [frames EXCEPT ![1].values = Append(@, v)]
  BY Zenon DEF Gives
<1>2. CASE frames' = <<>>
  <2>1. Len(frames) \in Nat /\ Len(frames') = 0
    BY <1>2
  <2>2. frames' \in Seq(Frames(V))
    BY <1>2, EmptySeq, Zenon
  <2> QED BY <1>2, <2>1, <2>2
<1>3. CASE frames # <<>> /\ frames' = [frames EXCEPT ![1].values = Append(@, v)]
  <2>1. frames' \in Seq(Frames(V \cup {v})) /\ Len(frames') = Len(frames)
    BY <1>3, ValueAppended, Zenon
  <2>2. Len(frames) \in Nat
    OBVIOUS
  <2> QED BY <1>3, <2>1, <2>2
<1> QED BY <1>1, <1>2, <1>3

(* The frame of a container that fits, on top of the others. *)
LEMMA PushFrames ==
    ASSUME NEW V, frames \in Seq(Frames(V)), data \in Seq(Octets), IsPlist,
           NEW start \in Nat, start < Size, NEW limit, ContainerFits(start, limit),
           Push(start)
    PROVE frames' \in Seq(Frames(V)) /\ Len(frames') = Len(frames) + 1
<1>1. Frame(start).refs \in Nat /\ Frame(start).count \in Nat
  BY ContainerInside
<1>2. PICK c : c = read_count(start)
  OBVIOUS
<1>3. Frame(start) = [dict |-> high(start) = 13, refs |-> c.offset, count |-> c.count,
                      n |-> 0, values |-> <<>>]
  BY <1>2 DEF Frame
<1>4. c.offset \in Nat /\ c.count \in Nat
  BY <1>1, <1>3
<1>5. PICK dict \in BOOLEAN : dict = (high(start) = 13)
  OBVIOUS
<1>6. <<>> \in Seq(V)
  BY EmptySeq, Zenon
<1>7. Frame(start) \in Frames(V)
  BY <1>3, <1>4, <1>5, <1>6 DEF Frames
<1> QED BY <1>7, Pushed DEF Push

LEMMA EnterStep ==
    ASSUME PlistInv, Enter PROVE PlistInv'
<1>1. /\ UNCHANGED <<data, reader, frames, lastRead>>
      /\ (visit' = top_object /\ IsPlist) \/ visit' = None
  BY Zenon DEF Enter
<1>2. visit' \in Int /\ (visit' >= 0 => IsPlist)
  BY <1>1, TrailerNat DEF PlistInv, None
<1>3. IsPlist' = IsPlist /\ Inside(lastRead)' = Inside(lastRead)
  BY <1>1 DEF IsPlist, Inside, Size
<1> QED BY <1>1, <1>2, <1>3 DEF PlistInv

LEMMA DescribeObjectStep ==
    ASSUME PlistInv, DescribeObject PROVE PlistInv'
<1>1. /\ UNCHANGED <<data, reader, lastRead>> /\ visit' = None /\ visit >= 0
      /\ reader = "describer"
  BY DEF DescribeObject
<1>2. IsPlist' = IsPlist /\ Inside(lastRead)' = Inside(lastRead)
  BY <1>1 DEF IsPlist, Inside, Size
<1>3. IsPlist /\ visit \in Nat /\ data \in Seq(Octets)
  BY <1>1 DEF PlistInv
<1>4. PICK V : frames \in Seq(Frames(V))
  BY DEF PlistInv
<1>5. PICK start : start = object_offset(visit)
  OBVIOUS
<1>6. \/ frames' = frames
      \/ /\ ~(Len(frames) > DepthLimit) /\ start # None /\ ContainerFits(start, CountLimit)
         /\ Push(start)
  BY <1>5, Zenon DEF DescribeObject
<1>7. CASE frames' = frames
  BY <1>1, <1>2, <1>3, <1>7 DEF PlistInv, None
<1>8. CASE /\ ~(Len(frames) > DepthLimit) /\ start # None /\ ContainerFits(start, CountLimit)
           /\ Push(start)
  <2>1. start \in Nat /\ start < Size
    BY <1>3, <1>5, <1>8, ObjectInside
  <2>2. frames' \in Seq(Frames(V)) /\ Len(frames') = Len(frames) + 1
    BY <1>3, <1>4, <1>8, <2>1, PushFrames
  <2>3. Len(frames) \in Nat /\ Len(frames) <= 8
    BY <1>1, <1>4, <1>8 DEF DepthLimit
  <2> QED BY <1>1, <1>2, <1>3, <2>2, <2>3 DEF PlistInv, None
<1> QED BY <1>6, <1>7, <1>8

LEMMA ParseObjectStep ==
    ASSUME PlistInv, ParseObject PROVE PlistInv'
<1>1. /\ UNCHANGED <<data, reader>> /\ visit' = None /\ visit >= 0 /\ reader = "parser"
  BY DEF ParseObject
<1>2. /\ IsPlist' = IsPlist /\ \A r : Inside(r)' = Inside(r)
  BY <1>1 DEF IsPlist, Inside, Size
<1>3. IsPlist /\ visit \in Nat /\ data \in Seq(Octets)
  BY <1>1 DEF PlistInv
<1>4. PICK V : frames \in Seq(Frames(V))
  BY DEF PlistInv
<1>5. PICK start : start = object_offset(visit)
  OBVIOUS
<1>6. start # None => start \in Nat /\ start < Size
  BY <1>3, <1>5, ObjectInside
<1>7. \/ (\E v : Gives(v)) /\ lastRead' = Extent(0, 0)
      \/ /\ start # None /\ \E v : Gives(v)
         /\ lastRead' = Taken(start, AtomValue(start))
      \/ /\ Len(frames) <= DepthLimit /\ start # None /\ ContainerFits(start, CountLimit)
         /\ Push(start)
         /\ lastRead' = Extent(Frame(start).refs,
                               Frame(start).count * object_ref_size * RefsPerEntry(start))
  BY <1>5, Zenon DEF ParseObject
<1>8. Inside(lastRead')
  BY <1>3, <1>6, <1>7, NothingTaken, TakenInside, ContainerInside
<1>9. CASE \E v : Gives(v)
  <2>1. /\ \E W : frames' \in Seq(Frames(W))
        /\ Len(frames') <= Len(frames)
    BY <1>4, <1>9, GivesFrames
  <2>2. Len(frames') \in Nat /\ Len(frames) \in Nat
    BY <1>4, <2>1
  <2>3. Len(frames') <= 17
    BY <2>1, <2>2 DEF PlistInv
  <2> QED BY <1>1, <1>2, <1>3, <1>8, <2>1, <2>3 DEF PlistInv, None
<1>10. CASE /\ Len(frames) <= DepthLimit /\ start # None /\ ContainerFits(start, CountLimit)
            /\ Push(start)
  <2>1. frames' \in Seq(Frames(V)) /\ Len(frames') = Len(frames) + 1
    BY <1>3, <1>4, <1>6, <1>10, PushFrames
  <2>2. Len(frames) \in Nat /\ Len(frames) <= 16
    BY <1>1, <1>4, <1>10 DEF DepthLimit
  <2> QED BY <1>1, <1>2, <1>3, <1>8, <2>1, <2>2 DEF PlistInv, None
<1> QED BY <1>7, <1>9, <1>10

LEMMA NextChildStep ==
    ASSUME PlistInv, NextChild PROVE PlistInv'
<1>1. /\ UNCHANGED <<data, reader, lastRead>> /\ frames # <<>>
      /\ visit' = NextRef(frames[1]) /\ frames' = [frames EXCEPT ![1].n = @ + 1]
  BY DEF NextChild
<1>2. IsPlist' = IsPlist /\ Inside(lastRead)' = Inside(lastRead) /\ IsPlist
      /\ data \in Seq(Octets)
  BY <1>1 DEF IsPlist, Inside, Size, PlistInv
<1>3. PICK V : frames \in Seq(Frames(V))
  BY DEF PlistInv
<1>4. frames' \in Seq(Frames(V)) /\ Len(frames') = Len(frames)
  BY <1>1, <1>3, ChildCounted
<1>5. NextRef(frames[1]) \in Nat
  <2>1. 1 \in 1..Len(frames)
    BY <1>1, <1>3
  <2>2. frames[1] \in Frames(V)
    BY <1>3, <2>1, ElementOfSeq
  <2>3. PICK refs \in Nat, count \in Nat, n \in Nat :
           frames[1].refs = refs /\ frames[1].count = count /\ frames[1].n = n
    BY <2>2 DEF Frames
  <2>4. \A index \in Nat : read_ref(index, frames[1]) \in Nat
    <3> SUFFICES ASSUME NEW index \in Nat PROVE read_ref(index, frames[1]) \in Nat
      OBVIOUS
    <3>1. object_ref_size \in Nat
      BY <1>2, TrailerNat
    <3>2. PICK offset \in Nat : offset = refs + index * object_ref_size
      BY <3>1, ProductIsNat
    <3>3. read_be(offset, object_ref_size) \in Nat
      BY <1>2, <3>1, ReadBeNat
    <3> QED BY <2>3, <3>2, <3>3 DEF read_ref
  <2>5. n \div 2 \in Nat /\ count + n \div 2 \in Nat /\ count + n \in Nat
    OBVIOUS
  <2> QED BY <2>3, <2>4, <2>5 DEF NextRef
<1> QED BY <1>1, <1>2, <1>3, <1>4, <1>5 DEF PlistInv

LEMMA EndContainerStep ==
    ASSUME PlistInv, EndContainer PROVE PlistInv'
<1>1. /\ UNCHANGED <<data, reader, visit, lastRead>> /\ frames # <<>> /\ visit = None
      /\ \/ frames' = Tail(frames) \/ frames' = <<>>
         \/ /\ Tail(frames) # <<>>
            /\ \E v : frames' = [Tail(frames) EXCEPT ![1].values = Append(@, v)]
  BY Zenon DEF EndContainer
<1>2. IsPlist' = IsPlist /\ Inside(lastRead)' = Inside(lastRead) /\ IsPlist
  BY <1>1 DEF IsPlist, Inside, Size, PlistInv
<1>3. PICK V : frames \in Seq(Frames(V))
  BY DEF PlistInv
<1>4. Tail(frames) \in Seq(Frames(V)) /\ Len(Tail(frames)) = Len(frames) - 1
      /\ Len(frames) \in Nat
  BY <1>1, <1>3, HeadTailProperties
<1>5. (\E W : frames' \in Seq(Frames(W))) /\ Len(frames') <= Len(frames)
  <2>1. CASE frames' = Tail(frames)
    BY <1>4, <2>1
  <2>2. CASE frames' = <<>>
    <3>1. frames' \in Seq(Frames(V))
      BY <2>2, EmptySeq, Zenon
    <3> QED BY <1>4, <2>2, <3>1
  <2>3. ASSUME NEW v, Tail(frames) # <<>>,
               frames' = [Tail(frames) EXCEPT ![1].values = Append(@, v)]
        PROVE (\E W : frames' \in Seq(Frames(W))) /\ Len(frames') <= Len(frames)
    <3>1. frames' \in Seq(Frames(V \cup {v})) /\ Len(frames') = Len(Tail(frames))
      BY <1>4, <2>3, ValueAppended
    <3> QED BY <1>4, <3>1
  <2> QED BY <1>1, <2>1, <2>2, <2>3
<1>6. Len(frames') \in Nat
  BY <1>5
<1> QED BY <1>1, <1>2, <1>4, <1>5, <1>6 DEF PlistInv

LEMMA ReaderEndsStep ==
    ASSUME PlistInv, ReaderEnds PROVE PlistInv'
<1>1. /\ UNCHANGED <<data, frames, lastRead>> /\ frames = <<>> /\ visit' \in {None, Start}
  BY DEF ReaderEnds
<1>2. Inside(lastRead)' = Inside(lastRead) /\ Len(frames) = 0
  BY <1>1 DEF Inside, Size
<1> QED BY <1>1, <1>2 DEF PlistInv, None, Start

LEMMA PlistStep ==
    ASSUME PlistInv, PlistNext PROVE PlistInv'
BY EnterStep, DescribeObjectStep, ParseObjectStep, NextChildStep, EndContainerStep,
   ReaderEndsStep DEF PlistNext

LEMMA PlistInvImplies ==
    ASSUME PlistInv PROVE ReadsInside /\ NestingBounded
BY DEF PlistInv, Inside, ReadsInside, NestingBounded

-----------------------------------------------------------------------------
(* DNS packets *)

Cursors ==
    [status : {"reading", "ok", "failed"}, offset : Nat, pos : Nat, jumped : BOOLEAN,
     turns : Nat, jumps : Nat, name : Seq(Octets), touched : Int]

(* In query_matches, a turn that is no jump goes on in the packet, and there *)
(* are eight jumps at most: so the turns are bounded by the position and the *)
(* jumps together.                                                           *)
QueryProgress(c) ==
    PacketSize >= 12 => /\ c.jumps <= 8 /\ c.pos <= PacketSize
                        /\ c.turns <= c.jumps * PacketSize + c.pos

(* What both readers of names keep. *)
CursorOK(c) == c \in Cursors /\ c.touched < PacketSize

DnsInv ==
    /\ packet \in Seq(Octets)
    /\ CursorOK(cur)
    /\ rec.start \in Nat /\ rec.rdlen \in Nat
    /\ task = "query_matches" => QueryProgress(cur) /\ (PacketSize < 12 => cur.turns = 0)
    /\ task = "parse_mdns_packet" => cur.turns <= 128

LEMMA PacketSizeIsNat == ASSUME packet \in Seq(Octets) PROVE PacketSize \in Nat
BY DEF PacketSize

LEMMA PacketByte ==
    ASSUME packet \in Seq(Octets), NEW k \in Nat, k < PacketSize
    PROVE ByteAt(k) \in Octets /\ ByteAt(k) \in Nat
<1>1. k + 1 \in 1..Len(packet)
  BY DEF PacketSize
<1>2. packet[k + 1] \in Octets
  BY <1>1, ElementOfSeq
<1> QED BY <1>2, OctetRange DEF ByteAt

LEMMA PacketWord ==
    ASSUME packet \in Seq(Octets), NEW k \in Nat, k + 1 < PacketSize
    PROVE U16At(k) \in Nat
<1>1. k + 1 \in Nat /\ k < PacketSize
  BY PacketSizeIsNat
<1>2. ByteAt(k) \in Nat /\ ByteAt(k + 1) \in Nat
  BY <1>1, PacketByte
<1> QED BY <1>2 DEF U16At

(* The reader at the start of a name. *)
LEMMA ReadingOK ==
    ASSUME packet \in Seq(Octets), NEW k \in Nat
    PROVE /\ CursorOK(Reading(k)) /\ Reading(k).turns = 0
          /\ (k <= PacketSize => QueryProgress(Reading(k)))
<1>1. <<>> \in Seq(Octets)
  BY EmptySeq, Zenon
<1>2. Reading(k) \in Cursors
  BY <1>1 DEF Reading, Cursors
<1>3. Reading(k).touched = -1 /\ Reading(k).turns = 0 /\ Reading(k).jumps = 0 /\ Reading(k).pos = k
  BY DEF Reading
<1> QED BY <1>2, <1>3, PacketSizeIsNat DEF CursorOK, QueryProgress

(* One turn: the end of a name, a pointer, a label, or a failure. *)
LEMMA FailOK ==
    ASSUME NEW c, CursorOK(c)
    PROVE CursorOK(Fail(c)) /\ Fail(c).turns = c.turns /\ (QueryProgress(c) => QueryProgress(Fail(c)))
BY DEF CursorOK, Cursors, Fail, QueryProgress

LEMMA EndNameOK ==
    ASSUME NEW c, CursorOK(c), c.pos < PacketSize
    PROVE CursorOK(EndName(c)) /\ EndName(c).turns = c.turns
          /\ (QueryProgress(c) => QueryProgress(EndName(c)))
<1>1. EndName(c) \in Cursors
  <2>1. PICK off \in Nat : off = IF c.jumped THEN c.offset ELSE c.pos + 1
    BY DEF CursorOK, Cursors
  <2>2. EndName(c) = [c EXCEPT !.status = "ok", !.offset = off, !.touched = c.pos]
    BY <2>1, Zenon DEF EndName
  <2>3. EndName(c) = [status |-> "ok", offset |-> off, pos |-> c.pos, jumped |-> c.jumped,
                      turns |-> c.turns, jumps |-> c.jumps, name |-> c.name, touched |-> c.pos]
    BY <2>2 DEF CursorOK, Cursors
  <2> QED BY <2>3 DEF CursorOK, Cursors
<1>2. /\ EndName(c).touched = c.pos /\ EndName(c).turns = c.turns
      /\ EndName(c).pos = c.pos /\ EndName(c).jumps = c.jumps
  BY DEF CursorOK, Cursors, EndName
<1> QED BY <1>1, <1>2 DEF CursorOK, QueryProgress

LEMMA JumpOK ==
    ASSUME packet \in Seq(Octets), NEW c, CursorOK(c), c.pos + 1 < PacketSize
    PROVE /\ CursorOK(Jump(c)) /\ Jump(c).turns = c.turns + 1 /\ Jump(c).jumps = c.jumps + 1
          /\ Jump(c).pos = 256 * (ByteAt(c.pos) % 64) + ByteAt(c.pos + 1)
<1>1. c \in Cursors /\ c.pos \in Nat /\ c.pos + 1 \in Nat /\ c.pos < PacketSize
  BY PacketSizeIsNat DEF CursorOK, Cursors
<1>2. ByteAt(c.pos) \in Nat /\ ByteAt(c.pos + 1) \in Nat
  BY <1>1, PacketByte
<1>3. PICK to \in Nat : to = 256 * (ByteAt(c.pos) % 64) + ByteAt(c.pos + 1)
  BY <1>2
<1>4. Jump(c) = [c EXCEPT !.offset = IF c.jumped THEN @ ELSE c.pos + 2, !.jumped = TRUE,
                          !.pos = to, !.jumps = @ + 1, !.turns = @ + 1, !.touched = c.pos + 1]
  BY <1>3, Zenon DEF Jump
<1>5. Jump(c) \in Cursors
  <2>1. PICK off \in Nat : off = IF c.jumped THEN c.offset ELSE c.pos + 2
    BY <1>1 DEF Cursors
  <2>2. Jump(c) = [status |-> c.status, offset |-> off, pos |-> to, jumped |-> TRUE,
                   turns |-> c.turns + 1, jumps |-> c.jumps + 1, name |-> c.name,
                   touched |-> c.pos + 1]
    BY <1>1, <1>4, <2>1 DEF Cursors
  <2> QED BY <1>1, <2>2 DEF Cursors
<1>6. /\ Jump(c).touched = c.pos + 1 /\ Jump(c).turns = c.turns + 1
      /\ Jump(c).jumps = c.jumps + 1 /\ Jump(c).pos = to
  BY <1>1, <1>4 DEF Cursors
<1> QED BY <1>3, <1>5, <1>6 DEF CursorOK

LEMMA TakeLabelOK ==
    ASSUME packet \in Seq(Octets), NEW c, CursorOK(c), c.pos < PacketSize,
           c.pos + 1 + ByteAt(c.pos) <= PacketSize
    PROVE /\ CursorOK(TakeLabel(c)) /\ TakeLabel(c).turns = c.turns + 1
          /\ TakeLabel(c).jumps = c.jumps
          /\ TakeLabel(c).pos = c.pos + 1 + ByteAt(c.pos)
<1>1. c \in Cursors /\ c.pos \in Nat /\ c.name \in Seq(Octets)
  BY DEF CursorOK, Cursors
<1>2. PICK len \in Nat : len = ByteAt(c.pos)
  BY <1>1, PacketByte
<1>3. PICK label : label = SubSeq(packet, c.pos + 2, c.pos + 1 + ByteAt(c.pos))
  OBVIOUS
<1>4. label \in Seq(Octets)
  <2>1. c.pos + 2 \in Int /\ c.pos + 1 + len \in Int
    BY <1>1
  <2>2. \A k \in (c.pos + 2)..(c.pos + 1 + len) : k \in 1..Len(packet)
    BY <1>1, <1>2 DEF PacketSize
  <2>3. \A k \in (c.pos + 2)..(c.pos + 1 + len) : packet[k] \in Octets
    BY <2>2, ElementOfSeq
  <2>4. SubSeq(packet, c.pos + 2, c.pos + 1 + len) \in Seq(Octets)
    BY <2>1, <2>3, SubSeqProperties
  <2> QED BY <1>2, <1>3, <2>4
<1>5. PICK name \in Seq(Octets) : name = Dotted(c.name, label)
  <2>1. <<46>> \in Seq(Octets)
    BY DEF Octets
  <2>2. c.name \o <<46>> \in Seq(Octets)
    BY <1>1, <2>1, ConcatProperties
  <2>3. c.name \o <<46>> \o label \in Seq(Octets)
    BY <1>4, <2>2, ConcatProperties
  <2> QED BY <1>4, <2>3 DEF Dotted
<1>6. TakeLabel(c) = [c EXCEPT !.name = name, !.pos = c.pos + 1 + len, !.turns = @ + 1,
                               !.touched = c.pos + len]
  BY <1>2, <1>3, <1>5, Zenon DEF TakeLabel
<1>7. TakeLabel(c) \in Cursors
  <2>1. TakeLabel(c) = [status |-> c.status, offset |-> c.offset, pos |-> c.pos + 1 + len,
                        jumped |-> c.jumped, turns |-> c.turns + 1, jumps |-> c.jumps,
                        name |-> name, touched |-> c.pos + len]
    BY <1>1, <1>6 DEF Cursors
  <2> QED BY <1>1, <2>1 DEF Cursors
<1>8. /\ TakeLabel(c).touched = c.pos + len /\ TakeLabel(c).turns = c.turns + 1
      /\ TakeLabel(c).jumps = c.jumps /\ TakeLabel(c).pos = c.pos + 1 + len
  BY <1>1, <1>6 DEF Cursors
<1> QED BY <1>1, <1>2, <1>7, <1>8, PacketSizeIsNat DEF CursorOK

LEMMA DnsInitInv ==
    ASSUME DnsInit \/ DnsIdle PROVE DnsInv
<1>1. ASSUME NEW p \in Seq(Octets), NEW t, Begin(p, t) PROVE DnsInv
  <2>1. packet \in Seq(Octets) /\ cur = Reading(12) /\ rec = NoRecord
    BY <1>1, Zenon DEF Begin
  <2>2. CursorOK(cur) /\ cur.turns = 0 /\ (12 <= PacketSize => QueryProgress(cur))
    BY <2>1, ReadingOK
  <2>3. rec.start \in Nat /\ rec.rdlen \in Nat
    BY <2>1 DEF NoRecord
  <2> QED BY <2>1, <2>2, <2>3, PacketSizeIsNat DEF DnsInv, QueryProgress
<1>2. ASSUME DnsInit PROVE DnsInv
  <2>1. PICK all : all = Seq(Octets)
    OBVIOUS
  <2>2. Queries(advert) \cup Responses(advert) \cup Odd \cup {build_query(kDacpServiceType)} \subseteq all
    <3>1. advert \in Adverts
      BY <1>2 DEF DnsInit
    <3>2. Seq(0..255) = all
      BY <2>1 DEF Octets
    <3>3. /\ \A a \in Adverts : Queries(a) \cup Responses(a) \subseteq all
          /\ Odd \cup {build_query(kDacpServiceType)} \subseteq all
      BY <3>2, PacketsAssumption
    <3> QED BY <3>1, <3>3, Zenon
  <2>3. \E p \in all, t \in {"query_matches", "parse_mdns_packet"} : Begin(p, t)
    BY <1>2, <2>2, Zenon DEF DnsInit
  <2> QED BY <1>1, <2>1, <2>3, Zenon
<1>3. ASSUME DnsIdle PROVE DnsInv
  <2>1. packet = <<>> /\ cur = Reading(12) /\ rec = NoRecord /\ task = "idle"
    BY <1>3 DEF DnsIdle
  <2>2. packet \in Seq(Octets)
    BY <2>1, EmptySeq, Zenon
  <2>3. CursorOK(cur)
    BY <2>1, <2>2, ReadingOK
  <2> QED BY <2>1, <2>2, <2>3 DEF DnsInv, NoRecord
<1> QED BY <1>2, <1>3

(* read_name: eight jumps, each within the packet. *)
LEMMA ReadNameOK ==
    ASSUME packet \in Seq(Octets), NEW c, CursorOK(c), QueryProgress(c), PacketSize >= 12
    PROVE CursorOK(read_name(c)) /\ QueryProgress(read_name(c))
<1>1. PICK len : len = ByteAt(c.pos)
  OBVIOUS
<1>2. \/ read_name(c) = Fail(c)
      \/ read_name(c) = EndName(c) /\ ~(c.pos >= PacketSize)
      \/ /\ read_name(c) = Jump(c) /\ ~(c.pos >= PacketSize) /\ ~(c.pos + 1 >= PacketSize)
         /\ ~(c.jumps + 1 > 8)
         /\ ~(256 * (len % 64) + ByteAt(c.pos + 1) >= PacketSize)
      \/ /\ read_name(c) = TakeLabel(c) /\ ~(c.pos >= PacketSize)
         /\ ~(c.pos + 1 + len > PacketSize)
  BY <1>1, Zenon DEF read_name
<1>3. PICK size \in Nat : size = PacketSize /\ size >= 12
  BY PacketSizeIsNat
<1>4. PICK pos \in Nat, turns \in Nat, jumps \in Nat :
         c.pos = pos /\ c.turns = turns /\ c.jumps = jumps
  BY DEF CursorOK, Cursors
<1>5. jumps <= 8 /\ pos <= size /\ turns <= jumps * size + pos
  BY <1>3, <1>4 DEF QueryProgress
<1>6. CASE read_name(c) = Fail(c)
  BY <1>6, FailOK
<1>7. CASE read_name(c) = EndName(c) /\ ~(c.pos >= PacketSize)
  BY <1>3, <1>4, <1>7, EndNameOK
<1>8. CASE /\ read_name(c) = Jump(c) /\ ~(c.pos >= PacketSize) /\ ~(c.pos + 1 >= PacketSize)
           /\ ~(c.jumps + 1 > 8)
           /\ ~(256 * (len % 64) + ByteAt(c.pos + 1) >= PacketSize)
  <2>1. /\ CursorOK(Jump(c)) /\ Jump(c).turns = turns + 1 /\ Jump(c).jumps = jumps + 1
        /\ Jump(c).pos = 256 * (len % 64) + ByteAt(c.pos + 1)
    BY <1>1, <1>3, <1>4, <1>8, JumpOK
  <2>2. PICK to \in Nat : to = Jump(c).pos
    BY <2>1 DEF CursorOK, Cursors
  <2>3. to < size /\ jumps + 1 <= 8 /\ pos + 1 < size
    BY <1>3, <1>4, <1>8, <2>1, <2>2
  <2>4. PICK m \in Nat : m = jumps * size
    BY ProductIsNat
  <2>5. (jumps + 1) * size = m + size
    BY <2>4
  <2>6. turns + 1 <= (jumps + 1) * size + to
    BY <1>5, <2>3, <2>4, <2>5
  <2>7. QueryProgress(Jump(c))
    BY <1>3, <2>1, <2>2, <2>3, <2>6 DEF QueryProgress
  <2> QED BY <1>8, <2>1, <2>7
<1>9. CASE /\ read_name(c) = TakeLabel(c) /\ ~(c.pos >= PacketSize)
           /\ ~(c.pos + 1 + len > PacketSize)
  <2>1. c.pos \in Nat /\ c.pos < PacketSize
    BY <1>3, <1>4, <1>9
  <2>2. PICK l \in Nat : l = len
    BY <1>1, <2>1, PacketByte
  <2>3. c.pos + 1 + ByteAt(c.pos) <= PacketSize
    BY <1>1, <1>3, <1>4, <1>9, <2>2
  <2>4. /\ CursorOK(TakeLabel(c)) /\ TakeLabel(c).turns = turns + 1
        /\ TakeLabel(c).jumps = jumps /\ TakeLabel(c).pos = pos + 1 + l
    BY <1>1, <1>4, <2>1, <2>2, <2>3, TakeLabelOK
  <2>5. PICK m \in Nat : m = jumps * size
    BY ProductIsNat
  <2>6. turns + 1 <= m + (pos + 1 + l) /\ pos + 1 + l <= size
    BY <1>1, <1>3, <1>4, <1>5, <2>2, <2>3, <2>5
  <2>7. QueryProgress(TakeLabel(c))
    BY <1>3, <1>5, <2>4, <2>5, <2>6 DEF QueryProgress
  <2> QED BY <1>9, <2>4, <2>7
<1> QED BY <1>2, <1>6, <1>7, <1>8, <1>9

(* read_name_at: 128 turns. *)
LEMMA ReadNameAtOK ==
    ASSUME packet \in Seq(Octets), NEW c, CursorOK(c), c.turns <= 128
    PROVE CursorOK(read_name_at(c)) /\ read_name_at(c).turns <= 128
<1>1. PICK len : len = ByteAt(c.pos)
  OBVIOUS
<1>2. \/ read_name_at(c) = Fail(c)
      \/ read_name_at(c) = EndName(c) /\ ~(c.pos >= PacketSize)
      \/ /\ read_name_at(c) = Jump(c) /\ c.turns # 128 /\ ~(c.pos + 1 >= PacketSize)
      \/ /\ read_name_at(c) = TakeLabel(c) /\ c.turns # 128 /\ ~(c.pos >= PacketSize)
         /\ ~(c.pos + 1 + len > PacketSize)
  <2>1. PICK limit : limit = 128
    OBVIOUS
  <2>2. read_name_at(c) =
          IF c.turns = limit \/ c.pos >= PacketSize THEN Fail(c)
          ELSE IF len = 0 THEN EndName(c)
          ELSE IF len >= 192 THEN IF c.pos + 1 >= PacketSize THEN Fail(c) ELSE Jump(c)
          ELSE IF c.pos + 1 + len > PacketSize THEN Fail(c)
          ELSE TakeLabel(c)
    BY <1>1, <2>1 DEF read_name_at
  <2> QED BY <2>1, <2>2
<1>3. PICK size \in Nat : size = PacketSize
  BY PacketSizeIsNat
<1>4. PICK pos \in Nat, turns \in Nat : c.pos = pos /\ c.turns = turns
  BY DEF CursorOK, Cursors
<1>5. CASE read_name_at(c) = Fail(c)
  BY <1>5, FailOK
<1>6. CASE read_name_at(c) = EndName(c) /\ ~(c.pos >= PacketSize)
  BY <1>3, <1>4, <1>6, EndNameOK
<1>7. CASE read_name_at(c) = Jump(c) /\ c.turns # 128 /\ ~(c.pos + 1 >= PacketSize)
  BY <1>3, <1>4, <1>7, JumpOK
<1>8. CASE /\ read_name_at(c) = TakeLabel(c) /\ c.turns # 128 /\ ~(c.pos >= PacketSize)
           /\ ~(c.pos + 1 + len > PacketSize)
  <2>1. c.pos \in Nat /\ c.pos < PacketSize
    BY <1>3, <1>4, <1>8
  <2>2. PICK l \in Nat : l = len
    BY <1>1, <2>1, PacketByte
  <2>3. c.pos + 1 + ByteAt(c.pos) <= PacketSize
    BY <1>1, <1>3, <1>4, <1>8, <2>2
  <2>4. CursorOK(TakeLabel(c)) /\ TakeLabel(c).turns = c.turns + 1
    BY <2>1, <2>3, TakeLabelOK
  <2> QED BY <1>4, <1>8, <2>4
<1> QED BY <1>2, <1>5, <1>6, <1>7, <1>8

(* A step that goes on at offset k, or leaves the reader as it is. *)
LEMMA DnsGoesOn ==
    ASSUME DnsInv, packet' = packet, rec'.start \in Nat, rec'.rdlen \in Nat,
           NEW k \in Nat, cur' = Reading(k),
           task' = "query_matches" => (PacketSize >= 12 => k <= PacketSize)
    PROVE DnsInv'
<1>1. packet \in Seq(Octets) /\ PacketSize' = PacketSize
  BY DEF DnsInv, PacketSize
<1>2. /\ CursorOK(Reading(k)) /\ Reading(k).turns = 0
      /\ (k <= PacketSize => QueryProgress(Reading(k)))
  BY <1>1, ReadingOK
<1>3. CursorOK(cur)' /\ cur'.turns = 0
  BY <1>1, <1>2 DEF CursorOK
<1>4. task' = "query_matches" => QueryProgress(cur)'
  BY <1>1, <1>2 DEF QueryProgress
<1> QED BY <1>1, <1>3, <1>4 DEF DnsInv

LEMMA DnsStays ==
    ASSUME DnsInv, UNCHANGED <<packet, cur, rec>>, task' = task \/ task' = "done"
    PROVE DnsInv'
<1>1. PacketSize' = PacketSize
  BY DEF PacketSize
<1>2. CursorOK(cur)' = CursorOK(cur) /\ QueryProgress(cur)' = QueryProgress(cur)
  BY <1>1 DEF CursorOK, QueryProgress
<1> QED BY <1>1, <1>2 DEF DnsInv

LEMMA ReadNameStep ==
    ASSUME DnsInv, ReadName PROVE DnsInv'
<1>1. /\ UNCHANGED <<packet, task, rec>> /\ PacketSize >= 12
      /\ task \in {"query_matches", "parse_mdns_packet"}
      /\ cur' = IF task = "query_matches" THEN read_name(cur) ELSE read_name_at(cur)
  BY DEF ReadName
<1>2. PacketSize' = PacketSize /\ packet \in Seq(Octets) /\ CursorOK(cur)
  BY <1>1 DEF PacketSize, DnsInv
<1>3. CASE task = "query_matches"
  <2>1. CursorOK(read_name(cur)) /\ QueryProgress(read_name(cur))
    BY <1>1, <1>2, <1>3, ReadNameOK DEF DnsInv
  <2>2. CursorOK(cur)' /\ QueryProgress(cur)'
    BY <1>1, <1>2, <1>3, <2>1 DEF CursorOK, QueryProgress
  <2>3. ~(PacketSize < 12)
    BY <1>1, <1>2, PacketSizeIsNat
  <2> QED BY <1>1, <1>2, <1>3, <2>2, <2>3 DEF DnsInv
<1>4. CASE task = "parse_mdns_packet"
  <2>1. CursorOK(read_name_at(cur)) /\ read_name_at(cur).turns <= 128
    BY <1>2, <1>4, ReadNameAtOK DEF DnsInv
  <2>2. CursorOK(cur)' /\ cur'.turns <= 128
    BY <1>1, <1>2, <1>4, <2>1 DEF CursorOK
  <2> QED BY <1>1, <1>2, <1>4, <2>2 DEF DnsInv
<1> QED BY <1>1, <1>3, <1>4

LEMMA DnsStep ==
    ASSUME DnsInv, DnsNext PROVE DnsInv'
<1>1. packet \in Seq(Octets) /\ cur.offset \in Nat /\ PacketSize \in Nat
  BY PacketSizeIsNat DEF DnsInv, CursorOK, Cursors
<1>2. CASE EndQuery \/ GiveUp
  BY <1>2, DnsStays DEF EndQuery, GiveUp, Ends
<1>3. CASE AskedQuestion
  <2>1. /\ packet' = packet /\ rec' = rec /\ cur.offset + 4 <= PacketSize
        /\ \/ task' = "done" /\ cur' = cur
           \/ cur' = Reading(cur.offset + 4) /\ task' = task
    BY <1>3, Zenon DEF AskedQuestion, Ends
  <2>2. CASE task' = "done" /\ cur' = cur
    BY <2>1, <2>2, DnsStays
  <2>3. CASE cur' = Reading(cur.offset + 4)
    <3>1. cur.offset + 4 \in Nat
      BY <1>1
    <3>2. rec'.start \in Nat /\ rec'.rdlen \in Nat
      BY <2>1 DEF DnsInv
    <3> QED BY <2>1, <2>3, <3>1, <3>2, DnsGoesOn
  <2> QED BY <2>1, <2>2, <2>3
<1>4. CASE SkipQuestion
  <2>1. /\ packet' = packet /\ rec' = rec /\ cur' = Reading(cur.offset + 4)
        /\ task' = "parse_mdns_packet"
    BY <1>4, Zenon DEF SkipQuestion
  <2>2. cur.offset + 4 \in Nat /\ rec'.start \in Nat /\ rec'.rdlen \in Nat
    BY <1>1, <2>1 DEF DnsInv
  <2> QED BY <2>1, <2>2, DnsGoesOn
<1>5. CASE ReadRecord
  <2>1. PICK start \in Nat : start = cur.offset + 10
    BY <1>1
  <2>2. PICK rdlen : rdlen = U16At(cur.offset + 8)
    OBVIOUS
  <2>3. /\ packet' = packet /\ task' = "parse_mdns_packet" /\ start <= PacketSize
        /\ rec'.start = start /\ rec'.rdlen = rdlen
        /\ \/ cur' = Reading(start) \/ cur' = Reading(start + 6)
           \/ cur' = Reading(start + rdlen)
    BY <1>5, <2>1, <2>2 DEF ReadRecord
  <2>4. rdlen \in Nat
    <3>1. cur.offset + 8 \in Nat /\ (cur.offset + 8) + 1 < PacketSize
      BY <1>1, <2>1, <2>3
    <3> QED BY <1>1, <2>2, <3>1, PacketWord
  <2>5. PICK k \in Nat : cur' = Reading(k)
    <3>1. start + 6 \in Nat /\ start + rdlen \in Nat
      BY <2>4
    <3> QED BY <2>3, <3>1, Zenon
  <2> QED BY <2>3, <2>4, <2>5, DnsGoesOn
<1>6. CASE TakeName
  <2>1. /\ packet' = packet /\ rec' = rec /\ cur' = Reading(rec.start + rec.rdlen)
        /\ task' = "parse_mdns_packet"
    BY <1>6, Zenon DEF TakeName
  <2>2. rec.start + rec.rdlen \in Nat /\ rec'.start \in Nat /\ rec'.rdlen \in Nat
    BY <2>1 DEF DnsInv
  <2> QED BY <2>1, <2>2, DnsGoesOn
<1> QED BY <1>2, <1>3, <1>4, <1>5, <1>6, ReadNameStep DEF DnsNext

LEMMA DnsInvImplies ==
    ASSUME DnsInv PROVE NamesInside /\ NamesEnd
<1>1. PICK size \in Nat : size = PacketSize
  BY PacketSizeIsNat DEF DnsInv
<1>2. ASSUME task = "query_matches" PROVE cur.turns <= 9 * PacketSize
  <2>1. PICK pos \in Nat, turns \in Nat, jumps \in Nat :
           cur.pos = pos /\ cur.turns = turns /\ cur.jumps = jumps
    BY DEF DnsInv, CursorOK, Cursors
  <2>2. CASE size >= 12
    <3>1. jumps \in 0..8 /\ pos <= size /\ turns <= jumps * size + pos
      BY <1>1, <1>2, <2>1, <2>2 DEF DnsInv, QueryProgress
    <3>2. jumps * size <= 8 * size
      BY <3>1
    <3>3. PICK m \in Nat : m = jumps * size
      BY ProductIsNat
    <3> QED BY <1>1, <2>1, <3>1, <3>2, <3>3
  <2>3. CASE size < 12
    BY <1>1, <1>2, <2>1, <2>3 DEF DnsInv
  <2> QED BY <2>2, <2>3
<1> QED BY <1>2 DEF DnsInv, CursorOK, NamesInside, NamesEnd

-----------------------------------------------------------------------------
(* The readers together *)

ReadersInv == FairPlayInv /\ PlistInv /\ DnsInv

(* A reader that does not move keeps its part of the invariant. *)
LEMMA OthersStay ==
    /\ FairPlayInv /\ UNCHANGED fairplayVars => FairPlayInv'
    /\ PlistInv /\ UNCHANGED plistVars => PlistInv'
    /\ DnsInv /\ UNCHANGED dnsVars => DnsInv'
<1>1. ASSUME FairPlayInv, UNCHANGED fairplayVars PROVE FairPlayInv'
  <2>1. UNCHANGED <<stage, ekey, message, step, b, out, boxes, key, sched>>
    BY <1>1 DEF fairplayVars, flowVars
  <2>2. MessagesOK'
    BY <1>1, <2>1 DEF FairPlayInv, MessagesOK
  <2>3. NothingYet'
    BY <1>1, <2>1 DEF FairPlayInv, NothingYet
  <2>4. MessageFlow'
    <3> SUFFICES ASSUME stage = "message"
                 PROVE /\ step'.round <= 9
                       /\ step'.round = 1 => \A d \in Lanes : b'[d] = {Place' + x : x \in Word4(d)}
                       /\ step'.round >= 2 => \A d \in Lanes : b'[d] = Place'..(Place' + 15)
                       /\ \A p \in 0..127 : Decrypted(p)' => out'[p] = Plain(p)
                       /\ boxes' = {msg_sbox(n) : n \in (144 - 16 * step'.round)..143}
      BY <2>1 DEF MessageFlow
    <3>1. Place' = Place /\ \A p : Decrypted(p)' = Decrypted(p)
      BY <2>1 DEF Place, Decrypted
    <3>2. /\ step.round <= 9
          /\ step.round = 1 => \A d \in Lanes : b[d] = {Place + x : x \in Word4(d)}
          /\ step.round >= 2 => \A d \in Lanes : b[d] = Place..(Place + 15)
          /\ \A p \in 0..127 : Decrypted(p) => out[p] = Plain(p)
          /\ boxes = {msg_sbox(n) : n \in (144 - 16 * step.round)..143}
      BY <1>1 DEF FairPlayInv, MessageFlow
    <3>3. /\ step'.round <= 9
          /\ step'.round = 1 => \A d \in Lanes : b'[d] = {Place' + x : x \in Word4(d)}
      BY <2>1, <3>1, <3>2
    <3>4. step'.round >= 2 => \A d \in Lanes : b'[d] = Place'..(Place' + 15)
      BY <2>1, <3>1, <3>2
    <3>5. \A p \in 0..127 : Decrypted(p)' => out'[p] = Plain(p)
      BY <2>1, <3>1, <3>2
    <3>6. boxes' = {msg_sbox(n) : n \in (144 - 16 * step'.round)..143}
      BY <2>1, <3>2
    <3> QED BY <3>3, <3>4, <3>5, <3>6
  <2>5. OutputDone'
    BY <1>1, <2>1 DEF FairPlayInv, OutputDone
  <2>6. SessionFlow'
    <3>1. \A p : SapByte(p)' = SapByte(p)
      BY <2>1 DEF SapByte
    <3> QED BY <1>1, <2>1, <3>1 DEF FairPlayInv, SessionFlow
  <2>7. ScheduleFlow'
    BY <1>1, <2>1 DEF FairPlayInv, ScheduleFlow
  <2>8. BlockFlow'
    BY <1>1, <2>1 DEF FairPlayInv, BlockFlow
  <2>9. KeyDone'
    BY <1>1, <2>1 DEF FairPlayInv, KeyDone
  <2> QED BY <2>2, <2>3, <2>4, <2>5, <2>6, <2>7, <2>8, <2>9 DEF FairPlayInv
<1>2. ASSUME PlistInv, UNCHANGED plistVars PROVE PlistInv'
  <2>1. UNCHANGED <<data, reader, visit, frames, lastRead>>
    BY <1>2 DEF plistVars
  <2>2. IsPlist' = IsPlist /\ Inside(lastRead)' = Inside(lastRead)
    BY <2>1 DEF IsPlist, Inside, Size
  <2> QED BY <1>2, <2>1, <2>2 DEF PlistInv
<1>3. ASSUME DnsInv, UNCHANGED dnsVars PROVE DnsInv'
  BY <1>3, DnsStays DEF dnsVars
<1> QED BY <1>1, <1>2, <1>3

(* From every start, whatever the bytes, the readers keep their invariant.  *)
THEOREM ReadersKeepInv == ReadersSpec => []ReadersInv
<1>1. ASSUME ReadersInit PROVE ReadersInv
  BY <1>1, FairPlayInitInv, PlistInitInv, DnsInitInv DEF ReadersInit, ReadersIdle, ReadersInv
<1>2. ASSUME ReadersInv, [ReadersNext]_readersVars PROVE ReadersInv'
  <2>1. CASE FairPlayNext /\ UNCHANGED <<plistVars, dnsVars>>
    BY <1>2, <2>1, FairPlayStep, OthersStay DEF ReadersInv
  <2>2. CASE PlistNext /\ UNCHANGED <<fairplayVars, dnsVars>>
    BY <1>2, <2>2, PlistStep, OthersStay DEF ReadersInv
  <2>3. CASE DnsNext /\ UNCHANGED <<fairplayVars, plistVars>>
    BY <1>2, <2>3, DnsStep, OthersStay DEF ReadersInv
  <2>4. CASE UNCHANGED readersVars
    BY <1>2, <2>4, OthersStay DEF ReadersInv, readersVars
  <2> QED BY <1>2, <2>1, <2>2, <2>3, <2>4 DEF ReadersNext
<1> QED BY <1>1, <1>2, PTL DEF ReadersSpec

(* No bytes of any length, with any sizes, counts, offsets and pointers in  *)
(* them, make parse_fairplay_ekey, parse_binary_plist, read_name or         *)
(* read_name_at look outside of what they were given (a sum that wraps      *)
(* aside), recurse deeper than 17 containers or follow a name without end.  *)
THEOREM ReadersInside == ReadersSpec => []ReadersStayInside
<1>1. ReadersInv => ReadersStayInside
  BY FairPlayInvImplies, PlistInvImplies, DnsInvImplies DEF ReadersInv, ReadersStayInside
<1> QED BY <1>1, ReadersKeepInv, PTL

(* In every mode of message_decrypt, every byte of the key that FairPlay    *)
(* unwraps comes from every byte of the core and of the tail seed, and from *)
(* its own byte of the token; no S-box serves a block twice.                *)
THEOREM KeyComesFromAll == ReadersSpec => []KeyDerived
<1>1. ReadersInv => KeyDerived
  BY FairPlayInvImplies DEF ReadersInv
<1> QED BY <1>1, ReadersKeepInv, PTL

-----------------------------------------------------------------------------
(* The DACP client *)

(* Nothing about a sender confuses it with "no sender". *)
LEMMA Absent ==
    /\ NoTarget \notin Targets
    /\ NoRemote \in Remotes
    /\ \A t \in Targets \cup {NoTarget} :
          t # NoTarget => t \in Targets /\ t.host \in Clients
    /\ DefaultPort \in Ports
BY NoClientAssumption, BoundsAssumption
DEF NoTarget, Targets, NoRemote, Remotes, MaybeClient, DefaultPort, Ports

(* A fault keeps its counter within the bound. *)
LEMMA FaultType ==
    ASSUME TypeOK, NEW why, Fault(why)
    PROVE  faults' \in 0..MaxFaults
BY BoundsAssumption DEF TypeOK, Fault

(* What Return does keeps the types of the callers' variables. *)
LEMMA ReturnType ==
    ASSUME TypeOK, NEW h \in Callers, NEW r \in {"ok", "failed"}, Return(h, r)
    PROVE  /\ cpc' \in [Callers -> {"idle", "lookup", "discover", "connect",
                                    "answer"}]
           /\ remote' \in [Callers -> Remotes]
           /\ target' \in [Callers -> Targets \cup {NoTarget}]
           /\ \A g \in Callers :
                /\ cpc'[g] # "idle" => /\ remote'[g].active_remote # NoClient
                                       /\ remote'[g].fallback_host # NoClient
                /\ cpc'[g] \in {"connect", "answer"} => target'[g] # NoTarget
           /\ result' \in [Callers -> {"none", "ok", "failed"}]
BY Absent DEF TypeOK, Return, Goto

(* Every step keeps the types. *)
LEMMA TypeStep ==
    ASSUME TypeOK, [Next]_vars
    PROVE  TypeOK'
<1>1. ASSUME NEW c \in Clients, NEW headers, NoteRemote(c, headers)
      PROVE  TypeOK'
  <2>1. dacp_remote' \in Remotes
    BY <1>1 DEF TypeOK, NoteRemote, Remotes, MaybeClient
  <2>2. dacp_remote'.fallback_host # NoClient
    BY <1>1, NoClientAssumption DEF NoteRemote
  <2> QED
    BY <1>1, <2>1, <2>2 DEF TypeOK, NoteRemote, callerVars, networkVars
<1>2. ASSUME NEW c \in Clients, ServiceMoves(c)
      PROVE  TypeOK'
  <2>1. moves + 2 \in Ports /\ moves + 1 \in 0..MaxMoves
    BY <1>2, BoundsAssumption DEF TypeOK, ServiceMoves, Ports
  <2>2. port' \in [Clients -> Ports] /\ moves' \in 0..MaxMoves
    BY <1>2, <2>1 DEF TypeOK, ServiceMoves
  <2> QED
    BY <1>2, <2>2 DEF TypeOK, ServiceMoves, callerVars
<1>3. ASSUME NEW h \in Callers, Call(h)
      PROVE  TypeOK'
  <2>1. CASE dacp_remote.active_remote = NoClient
    BY <1>3, <2>1, ReturnType DEF TypeOK, Call, networkVars
  <2>2. CASE dacp_remote.active_remote # NoClient
    BY <1>3, <2>2 DEF TypeOK, Call, Goto, networkVars
  <2> QED
    BY <2>1, <2>2
<1>4. ASSUME NEW h \in Callers, Lookup(h)
      PROVE  TypeOK'
  <2>1. g_dacp_cache[remote[h]] \in Targets \cup {NoTarget}
    BY DEF TypeOK
  <2> QED
    BY <1>4, <2>1 DEF TypeOK, Lookup, Goto, networkVars
<1>5. ASSUME NEW h \in Callers, Discovered(h) \/ DiscoveryTimesOut(h)
      PROVE  TypeOK'
  <2>1. PICK u \in Targets : target' = [target EXCEPT ![h] = u]
    <3>1. CASE Discovered(h)
      <4>1. remote[h].dacp_id \in Clients
        BY <3>1 DEF TypeOK, Discovered, Remotes, MaybeClient
      <4> QED
        BY <3>1, <4>1 DEF TypeOK, Discovered, Targets
    <3>2. CASE DiscoveryTimesOut(h)
      <4>1. remote[h].fallback_host \in Clients
        BY <3>2 DEF TypeOK, DiscoveryTimesOut, Remotes, MaybeClient
      <4> QED
        BY <3>2, <4>1, Absent DEF DiscoveryTimesOut, Targets
    <3> QED
      BY <1>5, <3>1, <3>2
  <2>2. faults' \in 0..MaxFaults
    BY <1>5, FaultType DEF Discovered, DiscoveryTimesOut, TypeOK, networkVars
  <2>3. u # NoTarget
    BY Absent
  <2>4. /\ UNCHANGED <<dacp_remote, g_dacp_cache, remote, result, port, moves>>
        /\ cpc[h] = "discover" /\ Goto(h, "connect")
    BY <1>5 DEF Discovered, DiscoveryTimesOut, networkVars
  <2> QED
    BY <2>1, <2>2, <2>3, <2>4 DEF TypeOK, Goto
<1>6. ASSUME NEW h \in Callers, Connected(h)
      PROVE  TypeOK'
  BY <1>6 DEF TypeOK, Connected, Goto, networkVars
<1>7. ASSUME NEW h \in Callers,
             ConnectFails(h) \/ Refused(h) \/ DiscoveryFails(h)
      PROVE  TypeOK'
  <2>1. g_dacp_cache' \in [Remotes -> Targets \cup {NoTarget}]
    BY <1>7 DEF TypeOK, ConnectFails, Refused, DiscoveryFails
  <2>2. faults' \in 0..MaxFaults /\ Return(h, "failed")
    BY <1>7, FaultType DEF ConnectFails, Refused, DiscoveryFails
  <2>3. UNCHANGED <<dacp_remote, port, moves>>
    BY <1>7 DEF ConnectFails, Refused, DiscoveryFails
  <2> QED
    BY <2>1, <2>2, <2>3, ReturnType DEF TypeOK
<1>8. ASSUME NEW h \in Callers, Accepted(h)
      PROVE  TypeOK'
  <2>1. g_dacp_cache' \in [Remotes -> Targets \cup {NoTarget}]
    BY <1>8 DEF TypeOK, Accepted
  <2> QED
    BY <1>8, <2>1, ReturnType DEF TypeOK, Accepted, networkVars
<1>9. CASE UNCHANGED vars
  BY <1>9 DEF TypeOK, vars, callerVars, networkVars
<1> QED
  BY <1>1, <1>2, <1>3, <1>4, <1>5, <1>6, <1>7, <1>8, <1>9 DEF Next, Command

(* The types, for any number of senders and callers; no command connects    *)
(* without an address or goes out without a token.                          *)
THEOREM TypeCorrect == Spec => []TypeOK
<1>1. ASSUME Init PROVE TypeOK
  <2>1. 0 \in 0..MaxMoves /\ 0 \in 0..MaxFaults
    BY BoundsAssumption
  <2> QED
    BY <1>1, <2>1, Absent DEF Init, TypeOK, NoRemote
<1>2. TypeOK /\ [Next]_vars => TypeOK'
  BY TypeStep
<1> QED
  BY <1>1, <1>2, PTL DEF Spec

(* Every step keeps the cache verified. *)
LEMMA CacheStep ==
    ASSUME TypeOK, CacheVerified, [Next]_vars
    PROVE  CacheVerified'
<1>1. ASSUME NEW h \in Callers, Accepted(h)
      PROVE  CacheVerified'
  BY <1>1 DEF TypeOK, CacheVerified, Accepted
<1>2. ASSUME NEW h \in Callers, ConnectFails(h)
      PROVE  CacheVerified'
  BY <1>2 DEF TypeOK, CacheVerified, ConnectFails
<1>3. ASSUME UNCHANGED g_dacp_cache
      PROVE  CacheVerified'
  BY <1>3 DEF CacheVerified
<1> QED
  BY <1>1, <1>2, <1>3
  DEF Next, Command, NoteRemote, ServiceMoves, Call, Lookup, Discovered,
      DiscoveryTimesOut, DiscoveryFails, Connected, Refused, vars

(* However many threads race for the cache, an address in it is one where   *)
(* the owner of the key's token accepted a command.                         *)
THEOREM CacheIsVerified == Spec => []CacheVerified
<1>1. Init => CacheVerified
  BY DEF Init, CacheVerified
<1>2. TypeOK /\ CacheVerified /\ [Next]_vars => CacheVerified'
  BY CacheStep
<1> QED
  BY <1>1, <1>2, TypeCorrect, PTL DEF Spec
=============================================================================
