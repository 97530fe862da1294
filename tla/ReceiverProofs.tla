---------------------------- MODULE ReceiverProofs ----------------------------
(***************************************************************************)
(* Proofs about module Receiver, for any number of senders and set-ups.    *)
(*                                                                         *)
(* The types and PlaybackEnds are inductive.  SetupsMatch is with what a   *)
(* missing stream looks like and with an older set-up of each sender that  *)
(* has keys (Keys).  AudioFromOneSender                                    *)
(* and RecordAnnounced speak of senders that connect one at a time; they   *)
(* follow from OneSender, which says what is then known of the owners of   *)
(* the keys and of the stream.                                             *)
(***************************************************************************)
EXTENDS Receiver, TLAPS

-----------------------------------------------------------------------------
(* Types *)

(* A numbered set-up keeps the types of its history variables. *)
LEMMA NumberType ==
    ASSUME TypeOK, NEW c \in Clients, Number(c)
    PROVE  /\ serial' = serial + 1
           /\ serial' \in 0..MaxSetups
           /\ serial + 1 \in 1..MaxSetups
           /\ owner' \in [1..MaxSetups -> Clients \cup {NoClient}]
           /\ owner'[serial + 1] = c
           /\ \A n \in 1..serial : owner'[n] = owner[n]
BY MaxSetupsAssumption DEF TypeOK, Number

(* Installing keys keeps the types of what it changes. *)
LEMMA InstallKeysType ==
    ASSUME TypeOK, NEW c \in Clients, NEW group, NEW fairplay,
           InstallKeys(c, group, fairplay)
    PROVE  /\ serial' \in 0..MaxSetups
           /\ owner' \in [1..MaxSetups -> Clients \cup {NoClient}]
           /\ crypto_' \in 0..serial'
           /\ aes_key_' \in 0..serial'
           /\ direct_stream_key_' \in 0..serial'
           /\ stream_' \in [id : 0..serial', shk : BOOLEAN]
           /\ alac_decoder_' \in BOOLEAN
<1>1. Number(c)
  BY DEF InstallKeys
<1>2. /\ serial' = serial + 1
      /\ serial' \in 0..MaxSetups
      /\ owner' \in [1..MaxSetups -> Clients \cup {NoClient}]
  BY <1>1, NumberType
<1>3. serial \in Nat
  BY MaxSetupsAssumption DEF TypeOK
<1>4. serial + 1 \in 0..(serial + 1) /\ 0 \in 0..(serial + 1)
  BY <1>3
<1>5. /\ crypto_' \in 0..serial'
      /\ aes_key_' \in 0..serial'
      /\ direct_stream_key_' \in 0..serial'
  BY <1>2, <1>4 DEF InstallKeys
<1>6. stream_' \in [id : 0..serial', shk : BOOLEAN]
  BY <1>2, <1>4 DEF InstallKeys, NoStream
<1>7. alac_decoder_' \in BOOLEAN
  BY DEF InstallKeys, TypeOK
<1> QED
  BY <1>2, <1>5, <1>6, <1>7

(* Installing a stream keeps the types of what it changes. *)
LEMMA InstallStreamType ==
    ASSUME TypeOK, NEW c \in Clients, NEW alac \in BOOLEAN,
           NEW shk \in BOOLEAN, InstallStream(c, alac, shk)
    PROVE  /\ serial' \in 0..MaxSetups
           /\ owner' \in [1..MaxSetups -> Clients \cup {NoClient}]
           /\ crypto_' \in 0..serial'
           /\ aes_key_' \in 0..serial'
           /\ direct_stream_key_' \in 0..serial'
           /\ stream_' \in [id : 0..serial', shk : BOOLEAN]
           /\ alac_decoder_' \in BOOLEAN
<1>1. Number(c)
  BY DEF InstallStream
<1>2. /\ serial' = serial + 1
      /\ serial' \in 0..MaxSetups
      /\ owner' \in [1..MaxSetups -> Clients \cup {NoClient}]
  BY <1>1, NumberType
<1>3. serial \in Nat
  BY MaxSetupsAssumption DEF TypeOK
<1>4. /\ serial + 1 \in 0..(serial + 1)
      /\ crypto_ \in 0..(serial + 1)
      /\ aes_key_ \in 0..(serial + 1)
      /\ direct_stream_key_ \in 0..(serial + 1)
  BY <1>3 DEF TypeOK
<1>5. /\ crypto_' \in 0..serial'
      /\ aes_key_' \in 0..serial'
      /\ direct_stream_key_' \in 0..serial'
  BY <1>2, <1>4 DEF InstallStream
<1>6. stream_' \in [id : 0..serial', shk : BOOLEAN]
  BY <1>2, <1>4 DEF InstallStream
<1>7. alac_decoder_' \in BOOLEAN
  BY DEF InstallStream, TypeOK
<1> QED
  BY <1>2, <1>5, <1>6, <1>7

(* Every step keeps the types. *)
LEMMA TypeStep ==
    ASSUME TypeOK, [Next]_vars
    PROVE  TypeOK'
<1>1. ASSUME NEW c \in Clients, Connect(c) \/ Disconnect(c)
      PROVE  TypeOK'
  BY <1>1 DEF TypeOK, Connect, Disconnect, decryptorVars, conductVars
<1>2. ASSUME NEW c \in Clients, HandleFpSetup(c)
      PROVE  TypeOK'
  BY <1>2 DEF TypeOK, HandleFpSetup, decryptorVars, conductVars
<1>3. ASSUME NEW c \in Clients, HandleAnnounce(c)
      PROVE  TypeOK'
  <2>1. PICK fairplay : InstallKeys(c, FALSE, fairplay)
    BY <1>3 DEF HandleAnnounce
  <2> QED
    BY <1>3, <2>1, InstallKeysType DEF TypeOK, HandleAnnounce, conductVars
<1>4. ASSUME NEW c \in Clients, HandleSetupSession(c)
      PROVE  TypeOK'
  <2>1. PICK group, fairplay : InstallKeys(c, group, fairplay)
    BY <1>4 DEF HandleSetupSession
  <2> QED
    BY <1>4, <2>1, InstallKeysType DEF TypeOK, HandleSetupSession, conductVars
<1>5. ASSUME NEW c \in Clients, HandleSetupStream(c) \/ HandleSetupClassic(c)
      PROVE  TypeOK'
  <2>1. PICK alac \in BOOLEAN, shk \in BOOLEAN : InstallStream(c, alac, shk)
    BY <1>5 DEF HandleSetupStream, HandleSetupClassic
  <2> QED
    BY <1>5, <2>1, InstallStreamType
    DEF TypeOK, HandleSetupStream, HandleSetupClassic, clientVars, conductVars
<1>6. ASSUME NEW c \in Clients, HandleRecord(c) \/ HandleTeardown(c)
      PROVE  TypeOK'
  <2>1. playback_active' \in BOOLEAN
    <3>1. playback_active' \in {playback_active, TRUE, FALSE}
      BY <1>6, Zenon DEF HandleRecord, HandleTeardown, mark_playback_started,
                         mark_playback_stopped, conductVars
    <3> QED
      BY <3>1, Zenon DEF TypeOK
  <2>2. UNCHANGED <<connected, key_message, announced, keyed, decryptorVars,
                    conductVars, last_error>>
    BY <1>6 DEF HandleRecord, HandleTeardown
  <2>3. playback_active_' \subseteq connected
    BY <1>6 DEF TypeOK, HandleRecord, HandleTeardown
  <2> QED
    BY <2>1, <2>2, <2>3 DEF TypeOK, decryptorVars, conductVars
<1>7. ASSUME NEW c \in Clients, HandleRefused(c)
      PROVE  TypeOK'
  BY <1>7 DEF TypeOK, HandleRefused, clientVars, decryptorVars, conductVars
<1>8. CASE PacketDecoded
  BY <1>8 DEF TypeOK, PacketDecoded, mark_playback_started, clientVars,
              decryptorVars, conductVars
<1>9. CASE UNCHANGED vars
  BY <1>9 DEF TypeOK, vars, clientVars, decryptorVars, conductVars
<1> QED
  BY <1>1, <1>2, <1>3, <1>4, <1>5, <1>6, <1>7, <1>8, <1>9 DEF Next, Handle

(* The types of the receiver's state, for every set of senders; and no      *)
(* ControlSession state outlives its connection.                            *)
THEOREM TypeCorrect == Spec => []TypeOK
<1>1. ASSUME Init PROVE TypeOK
  <2>1. 0 \in 0..MaxSetups /\ 0 \in 0..0
    BY MaxSetupsAssumption
  <2>2. NoStream \in [id : 0..0, shk : BOOLEAN]
    BY <2>1 DEF NoStream
  <2>3. [n \in 1..MaxSetups |-> NoClient]
           \in [1..MaxSetups -> Clients \cup {NoClient}]
    OBVIOUS
  <2> QED
    BY <1>1, <2>1, <2>2, <2>3, Zenon DEF Init, TypeOK
<1>2. TypeOK /\ [Next]_vars => TypeOK'
  BY TypeStep
<1> QED
  BY <1>1, <1>2, PTL DEF Spec

-----------------------------------------------------------------------------
(* Playback *)

(* Every step keeps PlaybackEnds. *)
LEMMA PlaybackStep ==
    ASSUME TypeOK, PlaybackEnds, [Next]_vars
    PROVE  PlaybackEnds'
<1>1. ASSUME NEW c \in Clients, Disconnect(c)
      PROVE  PlaybackEnds'
  <2>1. /\ tidy' => tidy /\ c \notin playback_active_
        /\ playback_active_' = playback_active_ \ {c} /\ UNCHANGED playback_active
    BY <1>1, Zenon DEF Disconnect
  <2> QED
    BY <2>1 DEF PlaybackEnds
<1>2. ASSUME NEW c \in Clients, HandleRecord(c)
      PROVE  PlaybackEnds'
  BY <1>2 DEF PlaybackEnds, HandleRecord
<1>3. ASSUME NEW c \in Clients, HandleTeardown(c)
      PROVE  PlaybackEnds'
  BY <1>3 DEF PlaybackEnds, HandleTeardown, mark_playback_stopped
<1>4. CASE PacketDecoded
  <2>1. tidy' => playback_active_ # {}
    BY <1>4, Zenon DEF PacketDecoded
  <2>2. UNCHANGED playback_active_
    BY <1>4 DEF PacketDecoded, clientVars
  <2> QED
    BY <2>1, <2>2 DEF PlaybackEnds
<1>5. ASSUME UNCHANGED <<playback_active, playback_active_, tidy>>
      PROVE  PlaybackEnds'
  BY <1>5 DEF PlaybackEnds
<1> QED
  BY <1>1, <1>2, <1>3, <1>4, <1>5
  DEF Next, Handle, Connect, HandleFpSetup, HandleAnnounce, HandleSetupSession,
      HandleSetupStream, HandleSetupClassic, HandleRefused, vars, clientVars, conductVars

(* For any number of senders that tear down what they recorded and whose    *)
(* packets do not come late, the host does not take the receiver for        *)
(* playing when no RECORD stands.                                           *)
THEOREM PlaybackEndsAlways == Spec => []PlaybackEnds
<1>1. Init => PlaybackEnds
  BY DEF Init, PlaybackEnds
<1>2. TypeOK /\ PlaybackEnds /\ [Next]_vars => PlaybackEnds'
  BY PlaybackStep
<1> QED
  BY <1>1, <1>2, TypeCorrect, PTL DEF Spec

-----------------------------------------------------------------------------
(* Keys and streams *)

(* A sender with keys on its connection made a set-up no younger than the   *)
(* keys in force.                                                           *)
OlderKeys ==
    /\ announced \subseteq keyed
    /\ \A c \in keyed : crypto_ # 0 /\ \E n \in 1..crypto_ : owner[n] = c

(* SetupsMatch, and that an absent stream has no key. *)
Keys == SetupsMatch /\ (stream_.id = 0 => stream_ = NoStream) /\ OlderKeys

(* A set-up of keys. *)
LEMMA KeysInstalled ==
    ASSUME TypeOK, Keys, NEW c \in Clients, NEW group, NEW fairplay,
           InstallKeys(c, group, fairplay), ~(group /\ fairplay),
           keyed' = keyed \cup {c}, announced' \subseteq announced \cup {c}
    PROVE  Keys'
<1>1. /\ crypto_' = serial + 1 /\ serial + 1 # 0 /\ owner'[serial + 1] = c
      /\ \A n \in 1..serial : owner'[n] = owner[n]
      /\ serial \in Nat /\ crypto_ \in 0..serial
  BY NumberType, MaxSetupsAssumption DEF InstallKeys, TypeOK
<1>2. OlderKeys'
  <2>1. ASSUME NEW d \in keyed PROVE \E n \in 1..(serial + 1) : owner'[n] = d
    <3>1. PICK n \in 1..crypto_ : owner[n] = d
      BY DEF Keys, OlderKeys
    <3>2. n \in 1..serial /\ n \in 1..(serial + 1)
      BY <1>1
    <3> QED BY <1>1, <3>1, <3>2
  <2>2. serial + 1 \in 1..(serial + 1)
    BY <1>1
  <2>3. \A d \in keyed' : \E n \in 1..crypto_' : owner'[n] = d
    BY <1>1, <2>1, <2>2
  <2> QED BY <1>1, <2>3 DEF Keys, OlderKeys
<1>3. stream_' = NoStream /\ stream_'.id = 0
  BY DEF InstallKeys, NoStream
<1>4. SetupsMatch'
  BY <1>1, <1>3 DEF SetupsMatch, InstallKeys
<1> QED BY <1>2, <1>3, <1>4 DEF Keys

(* A set-up of a stream, of a sender with keys if senders are orderly. *)
LEMMA StreamInstalled ==
    ASSUME TypeOK, Keys, NEW c \in Clients, NEW alac, NEW shk,
           InstallStream(c, alac, shk), orderly' => c \in keyed,
           UNCHANGED <<announced, keyed>>
    PROVE  Keys'
<1>1. /\ stream_'.id = serial + 1 /\ owner'[serial + 1] = c
      /\ UNCHANGED <<crypto_, aes_key_, direct_stream_key_>>
      /\ \A n \in 1..serial : owner'[n] = owner[n]
  BY NumberType DEF InstallStream
<1>2. serial \in Nat /\ crypto_ \in 0..serial /\ serial + 1 > crypto_ /\ serial + 1 # 0
  BY MaxSetupsAssumption DEF TypeOK
<1>3. \A n \in 1..crypto_ : owner'[n] = owner[n]
  BY <1>1, <1>2
<1>4. OlderKeys'
  BY <1>1, <1>3 DEF Keys, OlderKeys
<1>5. ASSUME orderly'
      PROVE  /\ crypto_' # 0
             /\ \/ owner'[stream_'.id] = owner'[crypto_']
                \/ \E n \in 1..(crypto_' - 1) : owner'[n] = owner'[stream_'.id]
  <2>1. PICK n \in 1..crypto_ : owner'[n] = c
    BY <1>1, <1>3, <1>5 DEF Keys, OlderKeys
  <2>2. crypto_ # 0
    BY <1>5 DEF Keys, OlderKeys
  <2>3. n = crypto_ \/ n \in 1..(crypto_ - 1)
    BY <1>2
  <2> QED BY <1>1, <2>1, <2>2, <2>3
<1>6. SetupsMatch'
  BY <1>1, <1>2, <1>5 DEF Keys, SetupsMatch
<1> QED BY <1>1, <1>2, <1>4, <1>6 DEF Keys

(* Every step keeps the keys current and the stream younger than them. *)
LEMMA KeysStep ==
    ASSUME TypeOK, Keys, [Next]_vars
    PROVE  Keys'
<1>1. ASSUME NEW c \in Clients, HandleAnnounce(c) \/ HandleSetupSession(c)
      PROVE  Keys'
  <2>1. PICK group, fairplay : InstallKeys(c, group, fairplay) /\ ~(group /\ fairplay)
    BY <1>1 DEF HandleAnnounce, HandleSetupSession
  <2>2. keyed' = keyed \cup {c} /\ announced' \subseteq announced \cup {c}
    BY <1>1 DEF HandleAnnounce, HandleSetupSession
  <2> QED BY <2>1, <2>2, KeysInstalled
<1>2. ASSUME NEW c \in Clients, HandleSetupStream(c) \/ HandleSetupClassic(c)
      PROVE  Keys'
  <2>1. PICK alac, shk : InstallStream(c, alac, shk)
    BY <1>2 DEF HandleSetupStream, HandleSetupClassic
  <2>2. UNCHANGED <<announced, keyed>>
    BY <1>2 DEF HandleSetupStream, HandleSetupClassic, clientVars
  <2>3. orderly' => c \in keyed
    <3>1. CASE HandleSetupStream(c)
      BY <3>1, Zenon DEF HandleSetupStream
    <3>2. CASE HandleSetupClassic(c)
      BY <3>2 DEF HandleSetupClassic, Keys, OlderKeys
    <3> QED BY <1>2, <3>1, <3>2
  <2> QED BY <2>1, <2>2, <2>3, StreamInstalled
<1>3. ASSUME UNCHANGED <<decryptorVars, orderly>>, announced' \subseteq keyed',
             keyed' \subseteq keyed
      PROVE  Keys'
  BY <1>3 DEF Keys, SetupsMatch, OlderKeys, decryptorVars
<1>4. ASSUME NEW c \in Clients, Disconnect(c)
      PROVE  Keys'
  BY <1>3, <1>4 DEF Disconnect, Keys, OlderKeys
<1>5. ASSUME UNCHANGED <<decryptorVars, orderly, announced, keyed>>
      PROVE  Keys'
  BY <1>3, <1>5 DEF Keys, OlderKeys
<1> QED
  BY <1>1, <1>2, <1>4, <1>5
  DEF Next, Handle, Connect, HandleFpSetup, HandleRecord, HandleTeardown,
      HandleRefused, PacketDecoded, vars, clientVars, conductVars

(* Whatever the senders' set-ups interleave to, the keys in force are of    *)
(* one set-up, the stream in force came after it, and a sender that sets up *)
(* keys first is combined with another's only if those came in between.     *)
THEOREM KeysAndStream == Spec => [](SetupsMatch)
<1>1. Init => Keys
  BY DEF Init, Keys, SetupsMatch, OlderKeys
<1>2. TypeOK /\ Keys /\ [Next]_vars => Keys'
  BY KeysStep
<1>3. Keys => SetupsMatch
  BY DEF Keys
<1> QED
  BY <1>1, <1>2, <1>3, TypeCorrect, PTL DEF Spec

-----------------------------------------------------------------------------
(* One sender at a time *)

(* While exclusive, no two senders are connected and RECORD is announced;   *)
(* if they have been orderly too, the keys in force are those of a sender   *)
(* that has set up keys, and the stream in force has the owner of the keys. *)
OneSender ==
    /\ exclusive =>
         /\ \A c, d \in connected : c = d
         /\ playback_active_ # {} => playback_active
    /\ (exclusive /\ orderly) =>
         /\ announced \subseteq keyed
         /\ \A c \in keyed : crypto_ # 0 /\ owner[crypto_] = c
         /\ stream_.id # 0 => crypto_ # 0 /\ owner[stream_.id] = owner[crypto_]

(* Every step keeps OneSender. *)
LEMMA OneSenderStep ==
    ASSUME TypeOK, OneSender, [Next]_vars
    PROVE  OneSender'
<1>1. ASSUME NEW c \in Clients, Connect(c) \/ Disconnect(c)
      PROVE  OneSender'
  <2>1. CASE Connect(c)
    <3>1. exclusive' => exclusive /\ connected = {}
      BY <2>1, Zenon DEF Connect
    <3>2. /\ connected' = connected \cup {c}
          /\ UNCHANGED <<announced, playback_active_, keyed, crypto_, stream_,
                         owner, playback_active, orderly>>
      BY <2>1 DEF Connect, decryptorVars
    <3> QED
      BY <3>1, <3>2 DEF OneSender
  <2>2. CASE Disconnect(c)
    BY <2>2 DEF OneSender, Disconnect, decryptorVars, conductVars
  <2> QED
    BY <1>1, <2>1, <2>2
<1>2. ASSUME NEW c \in Clients, c \in connected, NEW group, NEW fairplay,
             InstallKeys(c, group, fairplay), keyed' = keyed \cup {c},
             announced' \subseteq announced \cup {c},
             UNCHANGED <<connected, playback_active_, playback_active, conductVars>>
      PROVE  OneSender'
  <2>1. crypto_' = serial + 1 /\ serial + 1 # 0 /\ owner'[crypto_'] = c
    BY <1>2, NumberType, MaxSetupsAssumption DEF InstallKeys, TypeOK
  <2>2. stream_'.id = 0
    BY <1>2 DEF InstallKeys, NoStream
  <2> QED
    BY <1>2, <2>1, <2>2 DEF OneSender, TypeOK, conductVars
<1>3. ASSUME NEW c \in Clients, c \in connected, NEW alac, NEW shk,
             InstallStream(c, alac, shk), (exclusive' /\ orderly') => c \in keyed,
             orderly' => orderly,
             UNCHANGED <<clientVars, playback_active, exclusive>>
      PROVE  OneSender'
  <2>1. stream_'.id = serial + 1 /\ owner'[serial + 1] = c
        /\ crypto_' = crypto_
    BY <1>3, NumberType DEF InstallStream
  <2>2. crypto_ # 0 => owner'[crypto_] = owner[crypto_]
    <3>1. crypto_ # 0 => crypto_ \in 1..serial
      BY MaxSetupsAssumption DEF TypeOK
    <3> QED
      BY <1>3, <3>1, NumberType DEF InstallStream
  <2> QED
    BY <1>3, <2>1, <2>2 DEF OneSender, clientVars, conductVars
<1>4. ASSUME NEW c \in Clients, HandleAnnounce(c)
      PROVE  OneSender'
  BY <1>2, <1>4 DEF HandleAnnounce
<1>5. ASSUME NEW c \in Clients, HandleSetupSession(c)
      PROVE  OneSender'
  BY <1>2, <1>5 DEF HandleSetupSession
<1>6. ASSUME NEW c \in Clients, HandleSetupStream(c) \/ HandleSetupClassic(c)
      PROVE  OneSender'
  <2>1. PICK alac, shk : InstallStream(c, alac, shk)
    BY <1>6 DEF HandleSetupStream, HandleSetupClassic
  <2>2. c \in connected /\ UNCHANGED <<clientVars, playback_active, exclusive>>
    BY <1>6 DEF HandleSetupStream, HandleSetupClassic, conductVars
  <2>3. (orderly' => orderly) /\ (orderly' => c \in keyed \/ c \in announced)
    <3>1. CASE HandleSetupStream(c)
      BY <3>1, Zenon DEF HandleSetupStream
    <3>2. CASE HandleSetupClassic(c)
      BY <3>2 DEF HandleSetupClassic, conductVars
    <3> QED
      BY <1>6, <3>1, <3>2
  <2>4. (exclusive' /\ orderly') => c \in keyed
    BY <2>2, <2>3 DEF OneSender
  <2> QED
    BY <1>3, <2>1, <2>2, <2>3, <2>4
<1>7. ASSUME NEW c \in Clients, HandleRecord(c) \/ HandleTeardown(c)
      PROVE  OneSender'
  <2>1. /\ c \in connected
        /\ UNCHANGED <<connected, announced, keyed, crypto_, stream_, owner,
                       exclusive, orderly>>
    BY <1>7 DEF HandleRecord, HandleTeardown, decryptorVars, conductVars
  <2>2. exclusive => (playback_active_' # {} => playback_active')
    <3>1. CASE HandleRecord(c)
      <4>1. c \in playback_active_ => UNCHANGED playback_active
        BY <3>1 DEF HandleRecord
      <4>2. c \notin playback_active_ => playback_active' = TRUE
        BY <3>1, Zenon DEF HandleRecord, mark_playback_started
      <4> QED
        BY <4>1, <4>2 DEF OneSender
    <3>2. CASE HandleTeardown(c)
      BY <2>1, <3>2 DEF HandleTeardown, TypeOK, OneSender
    <3> QED
      BY <1>7, <3>1, <3>2
  <2> QED
    BY <2>1, <2>2 DEF OneSender
<1>8. ASSUME NEW c \in Clients, HandleFpSetup(c) \/ HandleRefused(c)
      PROVE  OneSender'
  BY <1>8 DEF OneSender, HandleFpSetup, HandleRefused, clientVars,
              decryptorVars, conductVars
<1>9. CASE PacketDecoded
  BY <1>9 DEF OneSender, PacketDecoded, mark_playback_started, clientVars,
              decryptorVars, conductVars
<1>10. CASE UNCHANGED vars
  BY <1>10 DEF OneSender, vars, clientVars, decryptorVars, conductVars
<1> QED
  BY <1>1, <1>4, <1>5, <1>6, <1>7, <1>8, <1>9, <1>10 DEF Next, Handle

(* OneSender holds throughout. *)
LEMMA OneSenderAlways == Spec => []OneSender
<1>1. Init => OneSender
  BY DEF Init, OneSender, NoStream
<1>2. TypeOK /\ OneSender /\ [Next]_vars => OneSender'
  BY OneSenderStep
<1> QED
  BY <1>1, <1>2, TypeCorrect, PTL DEF Spec

(* With one orderly sender at a time, however many there are, authenticated *)
(* audio is of the sender whose keys and stream are in force.               *)
THEOREM OneSenderHeard == Spec => []AudioFromOneSender
<1>1. TypeOK /\ Keys /\ OneSender => AudioFromOneSender
  <2> SUFFICES ASSUME TypeOK, Keys, OneSender, exclusive, orderly,
                      NEW k \in 1..serial, Decodes(k), stream_key # 0
               PROVE  owner[k] = owner[stream_.id] /\ owner[k] = owner[crypto_]
    BY DEF AudioFromOneSender
  <2>1. k = stream_key /\ stream_.id # 0
    BY DEF Decodes, Keys
  <2>2. owner[stream_.id] = owner[crypto_]
    BY <2>1 DEF OneSender
  <2>3. CASE stream_.shk
    BY <2>1, <2>2, <2>3 DEF stream_key
  <2>4. CASE ~stream_.shk
    BY <2>1, <2>2, <2>4 DEF stream_key, Keys, SetupsMatch
  <2> QED
    BY <2>3, <2>4
<1>2. Init => Keys
  BY DEF Init, Keys, SetupsMatch, OlderKeys
<1>3. TypeOK /\ Keys /\ [Next]_vars => Keys'
  BY KeysStep
<1> QED
  BY <1>1, <1>2, <1>3, TypeCorrect, OneSenderAlways, PTL DEF Spec

(* With one sender at a time, a sender whose RECORD stands is announced. *)
THEOREM RecordsAnnounced == Spec => []RecordAnnounced
<1>1. OneSender => RecordAnnounced
  BY DEF OneSender, RecordAnnounced
<1> QED
  BY <1>1, OneSenderAlways, PTL
=============================================================================
