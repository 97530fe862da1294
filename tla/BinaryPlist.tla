------------------------------ MODULE BinaryPlist ------------------------------
(***************************************************************************)
(* Binary property lists (src/plist/plist.cpp) and the one that the control *)
(* session writes (src/raop/raop_control.cpp).  A document is a sequence of *)
(* bytes.  It is described, as request_trace does, and then parsed; the     *)
(* recursion of describe_object and parse_object is the stack frames, whose *)
(* height is their depth.                                                   *)
(*                                                                         *)
(* size_t and uint64_t have WordBytes bytes here, 8 in the code: a trailer  *)
(* is 8 + 3 * WordBytes bytes, and sums wrap at Word.                       *)
(***************************************************************************)
EXTENDS Integers, Sequences, SequencesExt

CONSTANTS
    WordBytes,      \* bytes of size_t and of the trailer's fields
    Documents,      \* other documents that are read
    PortNumbers,    \* ports that the writer may be given
    NameLengths     \* lengths of a string that is written

ASSUME WordBytesAssumption == WordBytes \in 1..8 /\ 256 ^ WordBytes \in Nat \ {0}

VARIABLES
    data,       \* the document
    reader,     \* "describer", then "parser", then "done"
    visit,      \* the object to visit next, Start before the first, None when
                \* the top frame goes on
    frames,     \* containers that are being read, innermost first
    lines,      \* what the describer said of the leaves
    limited,    \* the describer met a limit of its own
    parsed,     \* what the parser returned: a value, Failed or Undefined
    lastRead    \* bytes that the parser took for the last object

plistVars == <<data, reader, visit, frames, lines, limited, parsed, lastRead>>

Word == 256 ^ WordBytes
None == -1
Start == -2
Failed == [type |-> "failed"]
Undefined == [type |-> "undefined"]    \* a range whose end wrapped
NoValue == [type |-> "none"]

-----------------------------------------------------------------------------
(* The bytes of a document; offsets start at 0 *)

Size == Len(data)
At(offset) == data[offset + 1]

(* read_be: as many of the bytes as there are; the last WordBytes of them,  *)
(* eight at most, stay in the value that is shifted.                        *)
read_be(offset, bytes) ==
    LET n == IF offset + bytes <= Size THEN bytes
             ELSE IF offset < Size THEN Size - offset ELSE 0
        byte(k) == IF k < n /\ k < WordBytes THEN At(offset + n - 1 - k) ELSE 0
    IN byte(0) + 256 * (byte(1) + 256 * (byte(2) + 256 * (byte(3) + 256 * (byte(4)
       + 256 * (byte(5) + 256 * (byte(6) + 256 * byte(7)))))))

Fits(offset, bytes) == (offset + bytes) % Word <= Size

trailer == Size - (8 + 3 * WordBytes)
offset_int_size == At(trailer + 6)
object_ref_size == At(trailer + 7)
object_count == read_be(trailer + 8, WordBytes)
top_object == read_be(trailer + 8 + WordBytes, WordBytes)
offset_table == read_be(trailer + 8 + 2 * WordBytes, WordBytes)

Magic == <<98, 112, 108, 105, 115, 116, 48, 48>>
IsPlist == Size >= 16 + 3 * WordBytes /\ SubSeq(data, 1, 8) = Magic

TrailerValid ==
    /\ offset_int_size # 0 /\ object_ref_size # 0
    /\ object_count <= 4096 /\ offset_table < Size
    /\ \A n \in 0..(object_count - 1) :
           offset_table + n * offset_int_size + offset_int_size <= Size

(* object_offset, None for an object that is not in the table or that       *)
(* starts outside of the document.                                          *)
object_offset(object) ==
    LET start == read_be(offset_table + object * offset_int_size, offset_int_size)
    IN IF object < object_count /\ start < Size THEN start ELSE None

high(start) == At(start) \div 16
low(start) == At(start) % 16

(* 1 << n for the four bits of a length. *)
PowerOfTwo(n) ==
    <<1, 2, 4, 8, 16, 32, 64, 128, 256, 512, 1024, 2048, 4096, 8192, 16384, 32768>>[n + 1]

(* read_count: the count of the object at start and the offset behind it. *)
BadCount == [ok |-> FALSE, count |-> 0, offset |-> 0]
read_count(start) ==
    LET bytes == PowerOfTwo(At(start + 1) % 16)
    IN IF low(start) < 15 THEN [ok |-> TRUE, count |-> low(start), offset |-> start + 1]
       ELSE IF \/ start + 1 >= Size
               \/ At(start + 1) \div 16 # 1
               \/ start + 2 + bytes > Size
            THEN BadCount
       ELSE [ok |-> TRUE, count |-> read_be(start + 2, bytes), offset |-> start + 2 + bytes]

-----------------------------------------------------------------------------
(* Atoms *)

Extent(first, bytes) == [first |-> first, bytes |-> bytes]
Bytes(r) == [n \in 1..r.bytes |-> At(r.first + n - 1)]

(* The bytes behind a marker that are the atom, Extent(None, 0) where the    *)
(* atom is refused.  Unit is 2 for UTF-16.                                  *)
Counted(start, unit) ==
    LET c == read_count(start)
    IN IF c.ok /\ Fits(c.offset, (c.count * unit) % Word)
       THEN Extent(c.offset, c.count * unit) ELSE Extent(None, 0)
Sized(start) ==
    LET bytes == PowerOfTwo(low(start))
    IN IF start + 1 + bytes <= Size THEN Extent(start + 1, bytes) ELSE Extent(None, 0)

AtomRange(start) ==
    IF high(start) \in {4, 5} THEN Counted(start, 1)
    ELSE IF high(start) = 6 THEN Counted(start, 2)
    ELSE Sized(start)

(* The value of an atom.  substr stops at the end of the document; for data *)
(* and UTF-16 a range that leaves it is undefined.                          *)
AtomValue(start) ==
    LET r == AtomRange(start)
        whole == r.first + r.bytes <= Size
        rest == [n \in 1..(Size - r.first) |-> At(r.first + n - 1)]
        ascii(s) == [n \in 1..(Len(s) \div 2) |-> IF s[2 * n] = 0 THEN 63 ELSE s[2 * n]]
    IN IF At(start) = 0 THEN [type |-> "null"]
       ELSE IF At(start) \in {8, 9} THEN [type |-> "boolean", boolean |-> At(start) = 9]
       ELSE IF high(start) \notin {1, 2, 4, 5, 6} \/ r.first = None THEN Failed
       ELSE IF high(start) = 1 THEN [type |-> "integer", integer |-> read_be(r.first, r.bytes)]
       ELSE IF high(start) = 2
       THEN IF r.bytes \in {4, 8} THEN [type |-> "real", raw |-> Bytes(r)] ELSE Failed
       ELSE IF high(start) = 5
       THEN [type |-> "string", text |-> IF whole THEN Bytes(r) ELSE rest]
       ELSE IF ~whole THEN Undefined
       ELSE IF high(start) = 4 THEN [type |-> "data", data |-> Bytes(r)]
       ELSE [type |-> "string", text |-> ascii(Bytes(r))]

(* atom_to_string: what it finds.  Of data it shows 48 bytes at most. *)
AtomLine(start) ==
    LET r == AtomRange(start)
        shown == IF high(start) = 4 /\ r.bytes > 48 THEN 48 ELSE r.bytes
    IN IF high(start) \notin {1, 4, 5, 6} THEN "atom"
       ELSE IF r.first = None THEN "bad"
       ELSE IF high(start) \in {4, 6} /\ r.first + shown > Size THEN "undefined"
       ELSE "atom"

-----------------------------------------------------------------------------
(* Containers *)

RefsPerEntry(start) == IF high(start) = 13 THEN 2 ELSE 1

ContainerFits(start, limit) ==
    LET c == read_count(start)
    IN /\ c.ok /\ c.count <= limit
       /\ Fits(c.offset, c.count * object_ref_size * RefsPerEntry(start))

IsContainer(start) == high(start) \in {10, 13}

(* A frame: the references of a container, in the order they are visited    *)
(* (key, value, key, value ... in a dictionary), and the values read.       *)
Frame(start) ==
    LET c == read_count(start)
    IN [dict |-> high(start) = 13, refs |-> c.offset, count |-> c.count,
        n |-> 0, values |-> <<>>]

Visits(f) == IF f.dict /\ reader = "parser" THEN 2 * f.count ELSE f.count

read_ref(index, f) == read_be(f.refs + index * object_ref_size, object_ref_size)

NextRef(f) ==
    IF ~f.dict THEN read_ref(f.n, f)
    ELSE IF reader = "describer" THEN read_ref(f.count + f.n, f)
    ELSE IF f.n % 2 = 0 THEN read_ref(f.n \div 2, f)
    ELSE read_ref(f.count + f.n \div 2, f)

(* The value of a frame: emplace keeps the first entry of a key. *)
Closed(f) ==
    LET key(n) == f.values[2 * n - 1]
        N == 1..(Len(f.values) \div 2)
        first == {n \in N : \A k \in N : key(k) = key(n) => n <= k}
    IN IF f.dict THEN [type |-> "dictionary",
                       dict |-> {<<key(n).text, f.values[2 * n]>> : n \in first}]
       ELSE [type |-> "array", array |-> f.values]

-----------------------------------------------------------------------------
(* The writer *)

append_bplist_length(marker, length) ==
    IF length < 15 THEN <<marker + length>>
    ELSE IF length <= 255 THEN <<marker + 15, 16, length>>
    ELSE <<marker + 15, 17, length \div 256, length % 256>>

append_u16_be(value) == <<value \div 256, value % 256>>
append_u64_be(value) ==
    [n \in 1..WordBytes |-> (value \div 256 ^ (WordBytes - n)) % 256]

bplist_ascii(text) == append_bplist_length(80, Len(text)) \o text
bplist_uint(value) == <<17>> \o append_u16_be(value)

(* A document of these objects, its offsets of two bytes. *)
Document(objects, refBytes, count, top) ==
    LET offset[n \in 1..(Len(objects) + 1)] ==
            IF n = 1 THEN 8 ELSE offset[n - 1] + Len(objects[n - 1])
        table == FlattenSeq([n \in 1..Len(objects) |-> append_u16_be(offset[n])])
    IN Magic \o FlattenSeq(objects) \o table \o <<0, 0, 0, 0, 0, 0, 2, refBytes>>
       \o append_u64_be(count) \o append_u64_be(top)
       \o append_u64_be(offset[Len(objects) + 1])

(* Names, by their length. *)
Name(c, n) == [k \in 1..n |-> c]
streams == Name(115, 7)
dataPort == Name(100, 8)
controlPort == Name(99, 11)
type == Name(116, 4)

stream_setup_response_body(data_port, control_port) ==
    Document(<<<<209, 1, 2>>, bplist_ascii(streams), <<161, 3>>,
               <<211, 4, 5, 6, 7, 8, 9>>, bplist_ascii(dataPort),
               bplist_ascii(controlPort), bplist_ascii(type), bplist_uint(data_port),
               bplist_uint(control_port), bplist_uint(96)>>, 1, 10, 0)

(* A document that is one string. *)
OneString(n) == Document(<<bplist_ascii(Name(65, n))>>, 1, 1, 0)

-----------------------------------------------------------------------------
(* Steps *)

Written ==
    {stream_setup_response_body(d, c) : d, c \in PortNumbers}
    \cup {OneString(n) : n \in NameLengths}
ASSUME DocumentsAssumption == Documents \cup Written \subseteq Seq(0..255)

PlistInit ==
    /\ data \in Documents \cup Written
    /\ reader = "describer" /\ visit = Start /\ frames = <<>> /\ lines = <<>>
    /\ limited = FALSE /\ parsed = NoValue /\ lastRead = Extent(0, 0)

(* No document is to be read. *)
PlistIdle ==
    /\ data = <<>> /\ reader = "idle" /\ visit = None /\ frames = <<>> /\ lines = <<>>
    /\ limited = FALSE /\ parsed = NoValue /\ lastRead = Extent(0, 0)

CountLimit == IF reader = "parser" THEN 4096 ELSE 128

DepthLimit == IF reader = "parser" THEN 16 ELSE 8

(* describe() and parse() up to the first object. *)
Enter ==
    /\ visit = Start
    /\ IF IsPlist /\ TrailerValid
       THEN visit' = top_object /\ UNCHANGED <<lines, parsed>>
       ELSE /\ visit' = None
            /\ lines' = IF reader = "describer" THEN <<"invalid">> ELSE lines
            /\ parsed' = IF reader = "parser" THEN Failed ELSE parsed
    /\ UNCHANGED <<data, reader, frames, limited, lastRead>>

Push(start) == frames' = <<Frame(start)>> \o frames

(* The parser's value v goes to the frame around it. *)
Gives(v) ==
    IF \/ v \in {Failed, Undefined}
       \/ frames # <<>> /\ frames[1].dict /\ frames[1].n % 2 = 1 /\ v.type # "string"
    THEN frames' = <<>> /\ parsed' = IF v = Undefined THEN v ELSE Failed
    ELSE IF frames = <<>> THEN frames' = <<>> /\ parsed' = v
    ELSE frames' = [frames EXCEPT ![1].values = Append(@, v)] /\ parsed' = parsed

DescribeObject ==
    /\ reader = "describer" /\ visit >= 0
    /\ visit' = None
    /\ LET start == object_offset(visit)
           deep == Len(frames) > DepthLimit
           many == start # None /\ IsContainer(start) /\ read_count(start).count > CountLimit
           line == IF deep \/ start = None THEN "bad"
                   ELSE IF IsContainer(start) THEN "bad" ELSE AtomLine(start)
       IN /\ limited' = (limited \/ deep \/ many)
          /\ IF ~deep /\ start # None /\ IsContainer(start) /\ ContainerFits(start, CountLimit)
             THEN Push(start) /\ lines' = lines
             ELSE lines' = Append(lines, line) /\ frames' = frames
    /\ UNCHANGED <<data, reader, parsed, lastRead>>

(* What an object that is no container gives, and the bytes it takes. *)
Taken(start, v) ==
    LET r == AtomRange(start)
    IN IF v = Failed \/ v.type \in {"null", "boolean"} THEN Extent(0, 0)
       ELSE IF v.type = "string" /\ high(start) = 5 THEN Extent(r.first, Len(v.text))
       ELSE r

ParseObject ==
    /\ reader = "parser" /\ visit >= 0
    /\ visit' = None
    /\ LET start == object_offset(visit)
           f == Frame(start)
       IN \/ /\ Len(frames) > DepthLimit \/ start = None
             /\ Gives(Failed) /\ lastRead' = Extent(0, 0)
          \/ /\ Len(frames) <= DepthLimit /\ start # None /\ ~IsContainer(start)
             /\ Gives(AtomValue(start)) /\ lastRead' = Taken(start, AtomValue(start))
          \/ /\ Len(frames) <= DepthLimit /\ start # None /\ IsContainer(start)
             /\ IF ContainerFits(start, CountLimit)
                THEN /\ Push(start) /\ parsed' = parsed
                     /\ lastRead' = Extent(f.refs, f.count * object_ref_size * RefsPerEntry(start))
                ELSE Gives(Failed) /\ lastRead' = Extent(0, 0)
    /\ UNCHANGED <<data, reader, lines, limited>>

(* The loop over the children of the innermost container. *)
NextChild ==
    /\ visit = None /\ frames # <<>> /\ frames[1].n < Visits(frames[1])
    /\ visit' = NextRef(frames[1])
    /\ frames' = [frames EXCEPT ![1].n = @ + 1]
    /\ UNCHANGED <<data, reader, lines, limited, parsed, lastRead>>

EndContainer ==
    /\ visit = None /\ frames # <<>> /\ frames[1].n = Visits(frames[1])
    /\ LET rest == Tail(frames)
           v == Closed(frames[1])
       IN IF reader = "describer" THEN frames' = rest /\ UNCHANGED parsed
          ELSE IF rest = <<>> THEN frames' = rest /\ parsed' = v
          ELSE IF rest[1].dict /\ rest[1].n % 2 = 1
          THEN frames' = <<>> /\ parsed' = Failed
          ELSE frames' = [rest EXCEPT ![1].values = Append(@, v)] /\ UNCHANGED parsed
    /\ UNCHANGED <<data, reader, visit, lines, limited, lastRead>>

(* The description is complete, or the parser has returned. *)
ReaderEnds ==
    /\ visit = None /\ frames = <<>> /\ reader \in {"describer", "parser"}
    /\ reader' = IF reader = "describer" THEN "parser" ELSE "done"
    /\ visit' = IF reader = "describer" THEN Start ELSE None
    /\ UNCHANGED <<data, frames, lines, limited, parsed, lastRead>>

PlistNext ==
    \/ Enter \/ DescribeObject \/ ParseObject \/ NextChild \/ EndContainer \/ ReaderEnds

-----------------------------------------------------------------------------
(* Properties *)

(* What stream_setup_response_body writes, parse_binary_plist reads back:   *)
(* one stream with the two ports and type 96; and so is a string of any     *)
(* length that bplist_ascii writes.                                         *)
RoundTrip ==
    reader = "done" =>
        LET port(n) == [type |-> "integer", integer |-> n]
            stream(d, c) == [type |-> "dictionary",
                             dict |-> {<<dataPort, port(d)>>, <<controlPort, port(c)>>,
                                       <<type, port(96)>>}]
            body(d, c) == [type |-> "dictionary",
                           dict |-> {<<streams, [type |-> "array", array |-> <<stream(d, c)>>]>>}]
        IN /\ \A d, c \in PortNumbers : data = stream_setup_response_body(d, c) => parsed = body(d, c)
           /\ \A n \in NameLengths :
                  data = OneString(n) => parsed = [type |-> "string", text |-> Name(65, n)]

(* The bytes taken for an object are bytes of the document, whatever its    *)
(* counts and offsets say, as long as the sum of the two does not wrap.     *)
ReadsInside ==
    LET end == lastRead.first + lastRead.bytes
    IN end <= Size \/ end >= Word

(* Containers that contain themselves, directly or not, are cut off: the    *)
(* recursion of both readers is bounded and so is their stack.              *)
NestingBounded == Len(frames) <= 17

(* The trace is no worse than the parser: a document that is parsed was     *)
(* described without a complaint, unless the describer met its own limits.  *)
DescriberAgrees ==
    (reader = "done" /\ parsed \notin {NoValue, Failed, Undefined} /\ ~limited) =>
        \A n \in DOMAIN lines : lines[n] # "bad" /\ lines[n] # "invalid"
=============================================================================
