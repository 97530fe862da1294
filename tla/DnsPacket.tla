------------------------------- MODULE DnsPacket -------------------------------
(***************************************************************************)
(* mDNS packets, byte by byte: the ones that the UDP advertiser builds and  *)
(* the queries it answers (src/discovery/dnssd_advertiser.cpp), and the     *)
(* responses that the DACP client reads (src/net/dacp_client.cpp).  The two *)
(* files have a reader of compressed names each; one turn of its loop is    *)
(* one step.  A name is the sequence of its characters, 46 is the dot.      *)
(***************************************************************************)
EXTENDS Integers, Sequences, SequencesExt

CONSTANTS
    Adverts,        \* what is advertised: records raop, airplay, host, port, txt, ips
    Odd             \* other packets that arrive

VARIABLES
    packet,     \* the packet that is read
    task,       \* "query_matches", "parse_mdns_packet" or "done"
    cur,        \* the reader of names
    goal,       \* what the name is: "question", "owner", "ptr", "srv"
    left,       \* questions and records still to read
    rec,        \* the record whose owner was read
    records,    \* MdnsRecords
    answer,     \* what query_matches returned, for which advert
    advert

dnsVars == <<packet, task, cur, goal, left, rec, records, answer, advert>>

-----------------------------------------------------------------------------
(* Building packets *)

u16(v) == <<(v \div 256) % 256, v % 256>>
u32(v) == <<0, 0>> \o u16(v)            \* times to live are small

Labels(name) ==
    LET dots == {k \in 1..Len(name) : name[k] = 46}
        ends == SetToSortSeq(dots \cup {0, Len(name) + 1}, <)
    IN [k \in 1..(Len(ends) - 1) |-> SubSeq(name, ends[k] + 1, ends[k + 1] - 1)]

ShortLabel(l) == SubSeq(l, 1, IF Len(l) > 63 THEN 63 ELSE Len(l))

put_name(name) ==
    LET used == SelectSeq(Labels(name), LAMBDA l : l # <<>>)
    IN FlattenSeq([k \in 1..Len(used) |->
           <<Len(ShortLabel(used[k]))>> \o ShortLabel(used[k])]) \o <<0>>

(* encode_dns_name: empty labels inside of the name and long ones are kept. *)
encode_dns_name(name) ==
    LET n == IF name # <<>> /\ Last(name) = 46 THEN Front(name) ELSE name
        labels == IF Last(Labels(n)) = <<>> THEN Front(Labels(n)) ELSE Labels(n)
    IN FlattenSeq([k \in 1..Len(labels) |-> <<Len(labels[k]) % 256>> \o labels[k]]) \o <<0>>

(* add_record_header and the rdata whose length is patched in. *)
Record(owner, rtype, klass, ttl, rdata) ==
    owner \o u16(rtype) \o u16(klass) \o u32(ttl) \o u16(Len(rdata)) \o rdata

encode_txt(txt) ==
    LET chunks(item) ==
            [k \in 1..(IF item = <<>> THEN 1 ELSE (Len(item) + 254) \div 255) |->
                SubSeq(item, 255 * (k - 1) + 1,
                       IF 255 * k < Len(item) THEN 255 * k ELSE Len(item))]
        encoded(item) == FlattenSeq([k \in 1..Len(chunks(item)) |->
                                        <<Len(chunks(item)[k])>> \o chunks(item)[k]])
    IN IF txt = <<>> THEN <<0>>
       ELSE FlattenSeq([k \in 1..Len(txt) |-> encoded(txt[k])])

add_ptr_record(stype, instance, ttl) == Record(put_name(stype), 12, 1, ttl, put_name(instance))
add_srv_record(instance, host, port, ttl) ==
    Record(put_name(instance), 33, 32769, ttl, u16(0) \o u16(0) \o u16(port) \o put_name(host))
add_txt_record(instance, txt, ttl) == Record(put_name(instance), 16, 32769, ttl, encode_txt(txt))
add_a_record(host, ip, ttl) == Record(put_name(host), 1, 32769, ttl, ip)

Header(questions, answers) ==
    u16(0) \o u16(IF answers = 0 THEN 0 ELSE 33792) \o u16(questions)
    \o u16(answers) \o u16(0) \o u16(0)

kRaopServiceType == <<95, 114, 46, 116, 46, 108>>       \* "_r.t.l", shortened
kAirPlayServiceType == <<95, 97, 46, 116, 46, 108>>
kDacpServiceType == <<95, 100, 46, 116, 46, 108>>

build_response_packet(a, ttl) ==
    Header(0, (6 + Len(a.ips)) % 65536)
    \o add_ptr_record(kRaopServiceType, a.raop, ttl)
    \o add_ptr_record(kAirPlayServiceType, a.airplay, ttl)
    \o add_srv_record(a.raop, a.host, a.port, ttl) \o add_txt_record(a.raop, a.txt, ttl)
    \o add_srv_record(a.airplay, a.host, a.port, ttl) \o add_txt_record(a.airplay, a.txt, ttl)
    \o FlattenSeq([k \in 1..Len(a.ips) |-> add_a_record(a.host, a.ips[k], ttl)])

(* The same answers as a responder that compresses names sends them: the    *)
(* owner of the PTR record is spelt out, all that follows points to it.     *)
Compressed(a) ==
    LET owner == put_name(kRaopServiceType)
        instance == 12 + Len(owner) + 10        \* where the rdata of the PTR is
        srv == instance + Len(put_name(a.raop))
        host == srv + 2 + 10 + 6
    IN Header(0, 3) \o Record(owner, 12, 1, 120, put_name(a.raop))
       \o Record(<<192, instance>>, 33, 32769, 120, u16(0) \o u16(0) \o u16(a.port) \o put_name(a.host))
       \o Record(<<192, host>>, 1, 32769, 120, a.ips[1])

Question(name, qtype) == Header(1, 0) \o encode_dns_name(name) \o u16(qtype) \o u16(32769)
build_query(name) == Question(name, 12)

-----------------------------------------------------------------------------
(* One turn of the loop that reads a name *)

PacketSize == Len(packet)
ByteAt(offset) == packet[offset + 1]
U16At(offset) == 256 * ByteAt(offset) + ByteAt(offset + 1)

Reading(offset) ==
    [status |-> "reading", offset |-> offset, pos |-> offset, jumped |-> FALSE,
     turns |-> 0, jumps |-> 0, name |-> <<>>, touched |-> -1]

Dotted(name, label) == IF name = <<>> THEN label ELSE name \o <<46>> \o label

Fail(c) == [c EXCEPT !.status = "failed"]

(* Mutant: the packet is read on from where the last pointer led. *)
EndNameThere(c) == [c EXCEPT !.status = "ok", !.offset = c.pos + 1, !.touched = c.pos]

EndName(c) ==
    [c EXCEPT !.status = "ok", !.offset = IF c.jumped THEN @ ELSE c.pos + 1,
              !.touched = c.pos]
Jump(c) ==
    [c EXCEPT !.offset = IF c.jumped THEN @ ELSE c.pos + 2, !.jumped = TRUE,
              !.pos = 256 * (ByteAt(c.pos) % 64) + ByteAt(c.pos + 1),
              !.jumps = @ + 1, !.turns = @ + 1, !.touched = c.pos + 1]
TakeLabel(c) ==
    [c EXCEPT !.name = Dotted(@, SubSeq(packet, c.pos + 2, c.pos + 1 + ByteAt(c.pos))),
              !.pos = @ + 1 + ByteAt(c.pos), !.turns = @ + 1,
              !.touched = c.pos + ByteAt(c.pos)]

(* Mutant: jumps are not counted. *)
read_name_jumping(c) ==
    LET len == ByteAt(c.pos)
    IN IF c.pos >= PacketSize THEN Fail(c)
       ELSE IF len = 0 THEN EndName(c)
       ELSE IF len >= 192
       THEN IF c.pos + 1 >= PacketSize \/ 256 * (len % 64) + ByteAt(c.pos + 1) >= PacketSize
            THEN Fail(c) ELSE Jump(c)
       ELSE IF len >= 64 \/ c.pos + 1 + len > PacketSize THEN Fail(c)
       ELSE TakeLabel(c)

(* read_name of dnssd_advertiser.cpp *)
read_name(c) ==
    LET len == ByteAt(c.pos)
    IN IF c.pos >= PacketSize THEN Fail(c)
       ELSE IF len = 0 THEN EndName(c)
       ELSE IF len >= 192
       THEN IF \/ c.pos + 1 >= PacketSize \/ c.jumps + 1 > 8
               \/ 256 * (len % 64) + ByteAt(c.pos + 1) >= PacketSize
            THEN Fail(c) ELSE Jump(c)
       ELSE IF len >= 64 \/ c.pos + 1 + len > PacketSize THEN Fail(c)
       ELSE TakeLabel(c)

(* read_name_at of dacp_client.cpp *)
read_name_at(c) ==
    LET len == ByteAt(c.pos)
    IN IF c.turns = 128 \/ c.pos >= PacketSize THEN Fail(c)
       ELSE IF len = 0 THEN EndName(c)
       ELSE IF len >= 192 THEN IF c.pos + 1 >= PacketSize THEN Fail(c) ELSE Jump(c)
       ELSE IF c.pos + 1 + len > PacketSize THEN Fail(c)
       ELSE TakeLabel(c)

ReadName ==
    /\ task \in {"query_matches", "parse_mdns_packet"} /\ PacketSize >= 12 /\ left > 0 /\ cur.status = "reading"
    /\ cur' = IF task = "query_matches" THEN read_name(cur) ELSE read_name_at(cur)
    /\ UNCHANGED <<packet, task, goal, left, rec, records, answer, advert>>

-----------------------------------------------------------------------------
(* query_matches *)

Lower(name) == [k \in 1..Len(name) |-> IF name[k] \in 65..90 THEN name[k] + 32 ELSE name[k]]

Matches(a, name, qtype) ==
    LET n == Lower(name)
    IN \/ n \in {kRaopServiceType, kAirPlayServiceType} /\ qtype \in {12, 255}
       \/ n \in {Lower(a.raop), Lower(a.airplay)} /\ qtype \in {16, 33, 255}
       \/ n = Lower(a.host) /\ qtype \in {1, 255}

Ends == task' = "done" /\ UNCHANGED <<cur, goal, left>>

EndQuery ==
    /\ task = "query_matches"
    /\ \/ PacketSize < 12 \/ left = 0 \/ cur.status = "failed"
       \/ cur.status = "ok" /\ cur.offset + 4 > PacketSize
    /\ answer' = FALSE /\ Ends
    /\ UNCHANGED <<packet, rec, records, advert>>

AskedQuestion ==
    /\ task = "query_matches" /\ PacketSize >= 12 /\ left > 0
    /\ cur.status = "ok" /\ cur.offset + 4 <= PacketSize
    /\ IF Matches(advert, cur.name, U16At(cur.offset))
       THEN answer' = TRUE /\ Ends
       ELSE /\ cur' = Reading(cur.offset + 4) /\ left' = left - 1
            /\ UNCHANGED <<task, goal, answer>>
    /\ UNCHANGED <<packet, rec, records, advert>>

-----------------------------------------------------------------------------
(* parse_mdns_packet *)

NoRecords == [ptrs |-> <<>>, srv_by_name |-> <<>>, a_by_name |-> <<>>]
NoRecord == [name |-> <<>>, type |-> 0, rdlen |-> 0, start |-> 0]
Put(map, name, v) ==
    [n \in DOMAIN map \cup {name} |-> IF n = name THEN v ELSE map[n]]

Questions == U16At(4)
RecordCount == (U16At(6) + U16At(8) + U16At(10)) % 65536

GiveUp ==
    /\ task = "parse_mdns_packet"
    /\ \/ PacketSize < 12 \/ (left = 0 /\ goal = "owner")
       \/ cur.status = "failed" /\ goal \in {"question", "owner"}
       \/ cur.status = "ok" /\ goal = "question" /\ cur.offset + 4 > PacketSize
       \/ /\ cur.status = "ok" /\ goal = "owner"
          /\ \/ cur.offset + 10 > PacketSize
             \/ /\ cur.offset + 10 <= PacketSize
                /\ cur.offset + 10 + U16At(cur.offset + 8) > PacketSize
    /\ Ends
    /\ UNCHANGED <<packet, rec, records, answer, advert>>

SkipQuestion ==
    /\ task = "parse_mdns_packet" /\ PacketSize >= 12 /\ goal = "question"
    /\ cur.status = "ok" /\ cur.offset + 4 <= PacketSize
    /\ cur' = Reading(cur.offset + 4)
    /\ IF left = 1 THEN goal' = "owner" /\ left' = RecordCount
       ELSE goal' = goal /\ left' = left - 1
    /\ UNCHANGED <<packet, task, rec, records, answer, advert>>

(* The header of a record, and an A record whole. *)
ReadRecord ==
    /\ task = "parse_mdns_packet" /\ PacketSize >= 12 /\ goal = "owner" /\ left > 0
    /\ cur.status = "ok" /\ cur.offset + 10 <= PacketSize
    /\ LET rtype == U16At(cur.offset)
           rdlen == U16At(cur.offset + 8)
           start == cur.offset + 10
       IN /\ start + rdlen <= PacketSize
          /\ rec' = [name |-> cur.name, type |-> rtype, rdlen |-> rdlen, start |-> start]
          /\ records' = IF rtype = 1 /\ rdlen = 4
                        THEN [records EXCEPT !.a_by_name =
                                 Put(@, cur.name, SubSeq(packet, start + 1, start + 4))]
                        ELSE records
          /\ \/ rtype = 12 /\ goal' = "ptr" /\ cur' = Reading(start) /\ left' = left
             \/ /\ rtype = 33 /\ rdlen >= 6
                /\ goal' = "srv" /\ cur' = Reading(start + 6) /\ left' = left
             \/ /\ rtype # 12 /\ ~(rtype = 33 /\ rdlen >= 6)
                /\ goal' = goal /\ cur' = Reading(start + rdlen) /\ left' = left - 1
    /\ UNCHANGED <<packet, task, answer, advert>>

(* The name in the rdata of a PTR or an SRV record was read, or not. *)
TakeName ==
    /\ task = "parse_mdns_packet" /\ goal \in {"ptr", "srv"} /\ cur.status # "reading"
    /\ records' = IF cur.status # "ok" THEN records
                  ELSE IF goal = "ptr" THEN [records EXCEPT !.ptrs = Append(@, cur.name)]
                  ELSE [records EXCEPT !.srv_by_name =
                           Put(@, rec.name, <<cur.name, U16At(rec.start + 4)>>)]
    /\ goal' = "owner" /\ left' = left - 1
    /\ cur' = Reading(rec.start + rec.rdlen)
    /\ UNCHANGED <<packet, task, rec, answer, advert>>

(* contains_id: the id appears in the name, colons, dashes and case aside. *)
contains_id(name, id) ==
    LET compact(s) == SelectSeq(Lower(s), LAMBDA x : x \notin {58, 45})
    IN /\ compact(id) # <<>>
       /\ \E k \in 0..(Len(compact(name)) - Len(compact(id))) :
              SubSeq(compact(name), k + 1, k + Len(compact(id))) = compact(id)

(* target_from_records: the host and port of the first service of this id   *)
(* that has an SRV record, NoService when there is none or they are empty.   *)
NoService == <<<<>>, 0>>
target_from_records(r, id) ==
    LET of_id == SelectSeq(r.ptrs, LAMBDA s : contains_id(s, id) /\ s \in DOMAIN r.srv_by_name)
        srv == r.srv_by_name[of_id[1]]
        host == IF srv[1] \in DOMAIN r.a_by_name THEN r.a_by_name[srv[1]] ELSE srv[1]
    IN IF of_id = <<>> \/ host = <<>> \/ srv[2] = 0 THEN NoService ELSE <<host, srv[2]>>

-----------------------------------------------------------------------------
Upper(name) == [k \in 1..Len(name) |-> IF name[k] \in 97..122 THEN name[k] - 32 ELSE name[k]]

Queries(a) ==
    {build_query(kRaopServiceType), build_query(kAirPlayServiceType),
     Question(a.raop, 33), Question(Upper(a.raop), 16), Question(a.airplay, 16), Question(a.host, 1)}

Responses(a) == {build_response_packet(a, 120), build_response_packet(a, 0), Compressed(a)}

Begin(p, t) ==
    /\ packet = p /\ task = t
    /\ cur = Reading(12)
    /\ IF t = "query_matches" \/ (Len(p) >= 12 /\ Questions > 0)
       THEN goal = "question" /\ left = IF Len(p) >= 12 THEN Questions ELSE 0
       ELSE goal = "owner" /\ left = IF Len(p) >= 12 THEN RecordCount ELSE 0
    /\ rec = NoRecord /\ records = NoRecords /\ answer = FALSE

ASSUME PacketsAssumption ==
    /\ \A a \in Adverts : Queries(a) \cup Responses(a) \subseteq Seq(0..255)
    /\ Odd \cup {build_query(kDacpServiceType)} \subseteq Seq(0..255)

DnsInit ==
    /\ advert \in Adverts
    /\ \/ \E p \in Queries(advert) \cup Odd \cup {build_query(kDacpServiceType)} :
              Begin(p, "query_matches")
       \/ \E p \in Responses(advert) \cup Odd : Begin(p, "parse_mdns_packet")

(* No packet has arrived. *)
DnsIdle ==
    /\ packet = <<>> /\ task = "idle" /\ cur = Reading(12) /\ goal = "owner" /\ left = 0
    /\ rec = NoRecord /\ records = NoRecords /\ answer = FALSE
    /\ advert = <<>>

DnsNext ==
    \/ ReadName \/ EndQuery \/ AskedQuestion
    \/ GiveUp \/ SkipQuestion \/ ReadRecord \/ TakeName

-----------------------------------------------------------------------------
(* Properties *)

(* No name, however it is compressed or cut off, makes a reader look behind *)
(* the packet.                                                              *)
NamesInside == task # "idle" => cur.touched < PacketSize

(* Names that point to themselves are given up: a reader takes no more      *)
(* turns than eight jumps through the packet, or 128, allow.                *)
NamesEnd ==
    /\ task = "query_matches" => cur.turns <= 9 * PacketSize
    /\ task = "parse_mdns_packet" => cur.turns <= 128

Known(a) == \A n \in {a.raop, a.airplay, a.host} :
    \A k \in 1..Len(Labels(n)) : Len(Labels(n)[k]) \in 1..63

(* What the advertiser sends, and what a responder that compresses names    *)
(* sends in its place, the DACP client's parser takes apart into the same   *)
(* services, ports and addresses.                                           *)
AdvertRead ==
    (task = "done" /\ Known(advert) /\ packet \in Responses(advert)) =>
        LET service == <<advert.host, advert.port>>
            whole == packet # Compressed(advert)
        IN /\ records.ptrs = IF whole THEN <<advert.raop, advert.airplay>> ELSE <<advert.raop>>
           /\ records.srv_by_name = [n \in ToSet(records.ptrs) |-> service]
           /\ advert.ips # <<>> =>
                  /\ records.a_by_name[advert.host] \in {advert.ips[k] : k \in DOMAIN advert.ips}
                  /\ target_from_records(records, advert.raop)
                         = <<records.a_by_name[advert.host], advert.port>>

(* The responder answers a question for each of the names it advertises, in *)
(* whatever case, and no question for another service.                      *)
OwnNamesAnswered ==
    (task = "done" /\ Known(advert)) =>
        /\ packet \in Queries(advert) => answer
        /\ packet = build_query(kDacpServiceType) => ~answer
=============================================================================
