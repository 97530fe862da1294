------------------------------ MODULE RtspFraming ------------------------------
(***************************************************************************)
(* The framing of requests: try_parse_request (src/rtsp/rtsp_message.cpp)   *)
(* and the loop of handle_client around it (src/session/session.cpp).       *)
(*                                                                         *)
(* What the sender sends is a sequence of cells: a head (the lines of a     *)
(* request before its blank line), the blank line, and the cells of the     *)
(* body.  recv delivers any number of cells.  A head says how long its body *)
(* is; it need not be so.  What a body leaves in front of the next head     *)
(* becomes part of its first line, which loses its method, or, if it has a  *)
(* line break in it, the first line itself, which has no version.           *)
(***************************************************************************)
EXTENDS Integers, Sequences

CONSTANTS
    Requests,       \* requests that a sender may send
    MaxRequests,    \* bound: requests sent on the connection
    MaxHandled,     \* bound: requests handled
    SizeWord        \* 2^64, where the end of a request wraps

ASSUME FramingAssumption == SizeWord \in Nat \ {0}
ASSUME RequestsAssumption ==
    \A r \in Requests :
        /\ r = [line |-> r.line, route |-> r.route, type |-> r.type, content |-> r.content,
                transport |-> r.transport, body |-> r.body,
                content_length |-> r.content_length, breaks |-> r.breaks]
        /\ r.body \in Nat /\ r.content_length \in Nat /\ r.breaks \in BOOLEAN

VARIABLES
    sent,       \* requests of the sender, in order
    stream,     \* their cells
    ends,       \* history: where in stream each of them ends
    from,       \* cells erased from the front of buffer
    to,         \* cells received: buffer is the cells from + 1 .. to
    pc,         \* handle_client: "recv", "parse" or "closed"
    handled     \* requests given to the control session

framingVars == <<sent, stream, ends, from, to, pc, handled>>

HeadCell(r) == [cell |-> "head", request |-> r]
BlankLine == [cell |-> "blank"]
BodyCell(r) == [cell |-> "body", breaks |-> r.breaks]

Cells(r) == <<HeadCell(r), BlankLine>> \o [n \in 1..r.body |-> BodyCell(r)]

-----------------------------------------------------------------------------
(* try_parse_request of the cells from + 1 .. end *)

header_end(start, end) ==
    {n \in (start + 1)..end : stream[n] = BlankLine /\
         \A k \in (start + 1)..(n - 1) : stream[k] # BlankLine}

(* The head that the lines before cell n hold, if it is the last of them,   *)
(* and what the first of these lines is: that of the head, that of the head *)
(* behind the rest of a body, or a line of that rest.                       *)
HasHead(start, n) == n > start + 1 /\ stream[n - 1].cell = "head"
MethodOf(start, n) ==
    IF n = start + 2 THEN stream[n - 1].request.line
    ELSE IF \/ stream[n - 1].request.line = "bad"
            \/ \E k \in (start + 1)..(n - 2) : stream[k].breaks
         THEN "bad" ELSE "garbled"

total(start, n, length) == (n - start + length) % SizeWord

Waits == [ok |-> FALSE]
NoContent == [kind |-> "nothing"]
(* A body that ends within the sender's content holds none of it. *)
Content(r, length) == IF length >= r.body THEN r.content ELSE NoContent

try_parse_request(start, end) ==
    IF header_end(start, end) = {} THEN Waits
    ELSE LET n == CHOOSE x \in header_end(start, end) : TRUE
             r == stream[n - 1].request
             consumed == total(start, n, r.content_length)
         IN IF \/ ~HasHead(start, n) \/ MethodOf(start, n) = "bad"
               \/ end - start < consumed
            THEN Waits
            ELSE [ok |-> TRUE, consumed |-> consumed,
                  request |-> [r EXCEPT
                      !.route = IF MethodOf(start, n) = "garbled" THEN "other" ELSE @,
                      !.content = Content(r, r.content_length)]]

Parses == try_parse_request(from, to).ok
Parsed == try_parse_request(from, to).request

-----------------------------------------------------------------------------
FramingInit ==
    /\ sent = <<>> /\ stream = <<>> /\ ends = <<>>
    /\ from = 0 /\ to = 0 /\ pc = "recv" /\ handled = <<>>

(* The sender sends a request, whatever became of the ones before. *)
Send ==
    /\ Len(sent) < MaxRequests
    /\ \E r \in Requests :
          /\ sent' = Append(sent, r)
          /\ stream' = stream \o Cells(r)
    /\ ends' = Append(ends, Len(stream'))
    /\ UNCHANGED <<from, to, pc, handled>>

(* recv gives some of the cells that are on their way. *)
Receive ==
    /\ pc = "recv" /\ to < Len(stream)
    /\ to' \in (to + 1)..Len(stream)
    /\ pc' = "parse"
    /\ UNCHANGED <<sent, stream, ends, from, handled>>

(* recv fails, or stop() is seen. *)
ConnectionEnds ==
    /\ pc = "recv" /\ pc' = "closed"
    /\ UNCHANGED <<sent, stream, ends, from, to, handled>>

(* Mutant: one request is taken of what recv gave. *)
TakeOne ==
    /\ pc = "parse" /\ Parses /\ Len(handled) < MaxHandled
    /\ from' = from + try_parse_request(from, to).consumed
    /\ handled' = Append(handled, Parsed)
    /\ pc' = "recv"
    /\ UNCHANGED <<sent, stream, ends, to>>

(* The inner loop takes a request, up to the call of control.handle. *)
Take ==
    /\ pc = "parse" /\ Parses /\ Len(handled) < MaxHandled
    /\ from' = from + try_parse_request(from, to).consumed
    /\ handled' = Append(handled, Parsed)
    /\ UNCHANGED <<sent, stream, ends, to, pc>>

(* The inner loop ends, whatever try_parse_request said it consumed. *)
Wait ==
    /\ pc = "parse" /\ ~Parses
    /\ pc' = "recv"
    /\ UNCHANGED <<sent, stream, ends, from, to, handled>>
=============================================================================
