-------------------------------- MODULE Readers --------------------------------
(***************************************************************************)
(* The readers of bytes that peers send, side by side: the FairPlay         *)
(* messages, property lists and DNS packets.  They share nothing; each      *)
(* initial state is a job of one of them at most, and the others are idle.  *)
(***************************************************************************)
EXTENDS FairPlay, BinaryPlist, DnsPacket

readersVars == <<fairplayVars, plistVars, dnsVars>>

ReadersIdle == FairPlayIdle /\ PlistIdle /\ DnsIdle

ReadersInit ==
    \/ ReadersIdle
    \/ FairPlayInit /\ PlistIdle /\ DnsIdle
    \/ FairPlayIdle /\ PlistInit /\ DnsIdle
    \/ FairPlayIdle /\ PlistIdle /\ DnsInit

ReadersNext ==
    \/ FairPlayNext /\ UNCHANGED <<plistVars, dnsVars>>
    \/ PlistNext /\ UNCHANGED <<fairplayVars, dnsVars>>
    \/ DnsNext /\ UNCHANGED <<fairplayVars, plistVars>>

ReadersSpec == ReadersInit /\ [][ReadersNext]_readersVars

-----------------------------------------------------------------------------
(* Properties *)

(* No reader of bytes from the network reads outside of what it was given   *)
(* or goes on without end, whatever sizes, counts, offsets and pointers     *)
(* are claimed there: FairPlay envelopes, property lists, DNS names.        *)
ReadersStayInside ==
    /\ SlicesInside
    /\ ReadsInside /\ NestingBounded
    /\ NamesInside /\ NamesEnd

(* What one part writes another reads, and agrees with: the answer to SETUP *)
(* and the plist parser and describer, the announcement and the mDNS parser *)
(* of the DACP client, the questions and the responder that matches them.   *)
WrittenIsRead == RoundTrip /\ DescriberAgrees /\ AdvertRead /\ OwnNamesAnswered
=============================================================================
