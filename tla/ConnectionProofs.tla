---------------------------- MODULE ConnectionProofs ----------------------------
(***************************************************************************)
(* Proofs about Connection for any set of requests, any lengths of bodies   *)
(* and any way of cutting them into chunks: a sender that keeps to the      *)
(* protocol is served in order, what the host is told is right, and keys    *)
(* come with the handshake that was accepted.                               *)
(***************************************************************************)
EXTENDS Connection, SequenceTheorems, TLAPS

(* Where request n of the sender ends in the stream. *)
End(n) == IF n = 0 THEN 0 ELSE ends[n]

StreamCells == {HeadCell(r) : r \in Requests} \cup {BlankLine}
                 \cup {BodyCell(r) : r \in Requests}

(* What try_parse_request gives: a request of the sender, which may have    *)
(* lost its method or its content.                                          *)
ParsedRequests ==
    [line : {r.line : r \in Requests}, route : {r.route : r \in Requests} \cup {"other"},
     type : {r.type : r \in Requests}, content : {r.content : r \in Requests} \cup {NoContent},
     transport : {r.transport : r \in Requests}, body : Nat, content_length : Nat,
     breaks : BOOLEAN]

FramingTypeOK ==
    /\ sent \in Seq(Requests) /\ stream \in Seq(StreamCells) /\ ends \in Seq(Nat)
    /\ from \in Nat /\ to \in Nat /\ from <= to /\ to <= Len(stream)
    /\ pc \in {"recv", "parse", "closed"}
    /\ handled \in Seq(ParsedRequests)

(* Each request of the sender lies in the stream, behind the one before. *)
StreamInv ==
    /\ Len(ends) = Len(sent)
    /\ Len(stream) = End(Len(sent))
    /\ \A n \in 1..Len(sent) :
          /\ ends[n] = End(n - 1) + 2 + sent[n].body
          /\ stream[End(n - 1) + 1] = HeadCell(sent[n])
          /\ stream[End(n - 1) + 2] = BlankLine
          /\ ends[n] <= Len(stream)
    /\ \A m, n \in 1..Len(sent) : m <= n => ends[m] <= ends[n]

(* Of a sender that keeps to the protocol, a number of requests was handled *)
(* and the buffer starts with the next.                                     *)
OrderInv ==
    Faithful =>
        /\ Len(handled) <= Len(sent)
        /\ \A n \in 1..Len(handled) : handled[n] = sent[n]
        /\ from = End(Len(handled))
        /\ pc = "recv" => \A n \in 1..Len(sent) : ends[n] <= to => n <= Len(handled)

-----------------------------------------------------------------------------
(* Parsing *)

LEMMA HeaderEndUnique ==
    ASSUME NEW start \in Nat, NEW end \in Nat,
           NEW m \in header_end(start, end), NEW n \in header_end(start, end)
    PROVE m = n
<1>1. /\ m \in (start + 1)..end /\ stream[m] = BlankLine
      /\ \A k \in (start + 1)..(m - 1) : stream[k] # BlankLine
  BY DEF header_end
<1>2. /\ n \in (start + 1)..end /\ stream[n] = BlankLine
      /\ \A k \in (start + 1)..(n - 1) : stream[k] # BlankLine
  BY DEF header_end
<1>3. ~(m < n)
  BY <1>1, <1>2
<1>4. ~(n < m)
  BY <1>1, <1>2
<1> QED BY <1>1, <1>2, <1>3, <1>4

(* A head among the cells is that of a request. *)
LEMMA HeadsAreRequests ==
    ASSUME NEW c \in StreamCells, c.cell = "head"
    PROVE c.request \in Requests
<1>1. c # BlankLine /\ \A q \in Requests : c # BodyCell(q)
  BY DEF BlankLine, BodyCell
<1>2. PICK r \in Requests : c = HeadCell(r)
  BY <1>1 DEF StreamCells
<1> QED BY <1>2 DEF HeadCell

(* What the parser makes of the head of a request r that ends at cell n. *)
LEMMA ParsesHead ==
    ASSUME FramingTypeOK, NEW n \in header_end(from, to)
    PROVE LET r == stream[n - 1].request
              takes == /\ HasHead(from, n) /\ MethodOf(from, n) # "bad"
                       /\ ~(to - from < total(from, n, r.content_length))
          IN /\ Parses = takes
             /\ takes => /\ try_parse_request(from, to).consumed
                                = total(from, n, r.content_length)
                         /\ Parsed = [r EXCEPT
                                !.route = IF MethodOf(from, n) = "garbled" THEN "other" ELSE @,
                                !.content = Content(r, r.content_length)]
<1> DEFINE r == stream[n - 1].request
           x == CHOOSE y \in header_end(from, to) : TRUE
<1>1. x = n
  <2>1. x \in header_end(from, to)
    OBVIOUS
  <2> QED BY <2>1, HeaderEndUnique DEF FramingTypeOK
<1>2. header_end(from, to) # {}
  OBVIOUS
<1> DEFINE takes == /\ HasHead(from, n) /\ MethodOf(from, n) # "bad"
                    /\ ~(to - from < total(from, n, r.content_length))
           result == [ok |-> TRUE, consumed |-> total(from, n, r.content_length),
                      request |-> [r EXCEPT
                           !.route = IF MethodOf(from, n) = "garbled" THEN "other" ELSE @,
                           !.content = Content(r, r.content_length)]]
<1>3. try_parse_request(from, to) = IF takes THEN result ELSE Waits
  BY <1>1, <1>2, Zenon DEF try_parse_request
<1>4. /\ result.ok = TRUE /\ result.consumed = total(from, n, r.content_length)
      /\ result.request = [r EXCEPT
                           !.route = IF MethodOf(from, n) = "garbled" THEN "other" ELSE @,
                           !.content = Content(r, r.content_length)]
  OBVIOUS
<1>5. Waits.ok = FALSE
  BY DEF Waits
<1> HIDE DEF result, takes
<1>6. CASE takes
  BY <1>3, <1>4, <1>6 DEF Parses, Parsed, takes
<1>7. CASE ~takes
  BY <1>3, <1>5, <1>7 DEF Parses, takes
<1> QED BY <1>6, <1>7

LEMMA RequestChanged ==
    ASSUME NEW r \in Requests, NEW route, NEW content
    PROVE [r EXCEPT !.route = route, !.content = content] =
              [line |-> r.line, route |-> route, type |-> r.type, content |-> content,
               transport |-> r.transport, body |-> r.body,
               content_length |-> r.content_length, breaks |-> r.breaks]
<1>1. r = [line |-> r.line, route |-> r.route, type |-> r.type, content |-> r.content,
           transport |-> r.transport, body |-> r.body,
           content_length |-> r.content_length, breaks |-> r.breaks]
  BY RequestsAssumption
<1> DEFINE Fields == {"line", "route", "type", "content", "transport", "body",
                      "content_length", "breaks"}
           u == [r EXCEPT !.route = route, !.content = content]
           v == [line |-> r.line, route |-> route, type |-> r.type, content |-> content,
                 transport |-> r.transport, body |-> r.body,
                 content_length |-> r.content_length, breaks |-> r.breaks]
<1>2. DOMAIN r = Fields
  BY <1>1
<1>3. u = [f \in Fields |-> IF f = "content" THEN content
                            ELSE IF f = "route" THEN route ELSE r[f]]
  BY <1>2, Zenon
<1>4. v = [f \in Fields |-> IF f = "content" THEN content
                            ELSE IF f = "route" THEN route ELSE r[f]]
  OBVIOUS
<1> QED BY <1>3, <1>4

(* What is taken off the buffer, and what is handled. *)
LEMMA TakeFacts ==
    ASSUME FramingTypeOK, Parses
    PROVE \E n \in header_end(from, to), r \in Requests :
             /\ n \in Nat /\ n >= from + 2 /\ n <= to /\ stream[n - 1] = HeadCell(r)
             /\ HasHead(from, n) /\ MethodOf(from, n) # "bad"
             /\ Parsed = [line |-> r.line,
                          route |-> IF MethodOf(from, n) = "garbled" THEN "other" ELSE r.route,
                          type |-> r.type, content |-> Content(r, r.content_length),
                          transport |-> r.transport, body |-> r.body,
                          content_length |-> r.content_length, breaks |-> r.breaks]
             /\ try_parse_request(from, to).consumed = total(from, n, r.content_length)
             /\ total(from, n, r.content_length) \in Nat
             /\ total(from, n, r.content_length) <= to - from
<1>1. header_end(from, to) # {}
  <2>1. Waits.ok = FALSE
    BY DEF Waits
  <2> QED BY <2>1 DEF Parses, try_parse_request
<1>2. PICK n \in header_end(from, to) : TRUE
  BY <1>1
<1> DEFINE r == stream[n - 1].request
<1>3. /\ HasHead(from, n) /\ MethodOf(from, n) # "bad"
      /\ ~(to - from < total(from, n, r.content_length))
      /\ try_parse_request(from, to).consumed = total(from, n, r.content_length)
      /\ Parsed = [r EXCEPT
                      !.route = IF MethodOf(from, n) = "garbled" THEN "other" ELSE @,
                      !.content = Content(r, r.content_length)]
  BY ParsesHead
<1>4. /\ from \in Nat /\ to \in Nat /\ n \in (from + 1)..to
  BY DEF FramingTypeOK, header_end
<1>5. n > from + 1 /\ stream[n - 1].cell = "head"
  BY <1>3 DEF HasHead
<1>6. stream[n - 1] \in StreamCells
  <2>1. n - 1 \in 1..Len(stream)
    BY <1>4, <1>5 DEF FramingTypeOK
  <2> QED BY <2>1 DEF FramingTypeOK
<1>7. r \in Requests
  BY <1>5, <1>6, HeadsAreRequests
<1>8. stream[n - 1] = HeadCell(r)
  <2>1. stream[n - 1] # BlankLine /\ \A q \in Requests : stream[n - 1] # BodyCell(q)
    BY <1>5 DEF BlankLine, BodyCell
  <2>2. PICK q \in Requests : stream[n - 1] = HeadCell(q)
    BY <1>6, <2>1 DEF StreamCells
  <2> QED BY <2>2 DEF HeadCell
<1> HIDE DEF r
<1>9. Parsed = [line |-> r.line,
                route |-> IF MethodOf(from, n) = "garbled" THEN "other" ELSE r.route,
                type |-> r.type, content |-> Content(r, r.content_length),
                transport |-> r.transport, body |-> r.body,
                content_length |-> r.content_length, breaks |-> r.breaks]
  BY <1>3, <1>7, RequestChanged
<1>10. /\ total(from, n, r.content_length) \in Nat
       /\ total(from, n, r.content_length) <= to - from
  <2>1. PICK l \in Nat : l = r.content_length
    BY <1>7, RequestsAssumption
  <2>2. total(from, n, l) \in Nat
    <3>1. PICK k \in Nat : k = n - from + l
      BY <1>4, <2>1
    <3>2. k % SizeWord \in Nat
      BY FramingAssumption
    <3> QED BY <3>1, <3>2 DEF total
  <2> QED BY <1>3, <1>4, <2>1, <2>2 DEF r
<1>11. n \in Nat /\ n >= from + 2 /\ n <= to
  BY <1>4, <1>5
<1>12. try_parse_request(from, to).consumed = total(from, n, r.content_length)
  BY <1>3 DEF r
<1> QED BY <1>3, <1>7, <1>8, <1>9, <1>10, <1>11, <1>12, Zenon

(* What is parsed has the type of a request. *)
LEMMA ParsedTyped ==
    ASSUME FramingTypeOK, Parses
    PROVE Parsed \in ParsedRequests
<1>1. PICK n \in header_end(from, to), r \in Requests :
         Parsed = [line |-> r.line,
                   route |-> IF MethodOf(from, n) = "garbled" THEN "other" ELSE r.route,
                   type |-> r.type, content |-> Content(r, r.content_length),
                   transport |-> r.transport, body |-> r.body,
                   content_length |-> r.content_length, breaks |-> r.breaks]
  BY TakeFacts
<1>2. r.body \in Nat /\ r.content_length \in Nat /\ r.breaks \in BOOLEAN
  BY RequestsAssumption
<1>3. Content(r, r.content_length) \in {q.content : q \in Requests} \cup {NoContent}
  BY DEF Content
<1>4. (IF MethodOf(from, n) = "garbled" THEN "other" ELSE r.route)
         \in {q.route : q \in Requests} \cup {"other"}
  OBVIOUS
<1> QED BY <1>1, <1>2, <1>3, <1>4 DEF ParsedRequests

(* The next request of a sender that keeps to the protocol, as soon as its  *)
(* blank line is there.                                                     *)
LEMMA NextRequest ==
    ASSUME FramingTypeOK, StreamInv, NEW k \in Nat, k < Len(sent), from = End(k),
           WellFormed(sent[k + 1]), header_end(from, to) # {} \/ to >= from + 2
    PROVE /\ header_end(from, to) = {from + 2}
          /\ stream[from + 1] = HeadCell(sent[k + 1])
          /\ HasHead(from, from + 2) /\ MethodOf(from, from + 2) = "ok"
          /\ total(from, from + 2, sent[k + 1].content_length) = 2 + sent[k + 1].body
          /\ ends[k + 1] = from + 2 + sent[k + 1].body
<1> DEFINE r == sent[k + 1]
<1>1. /\ from \in Nat /\ to \in Nat /\ Len(sent) \in Nat
  BY DEF FramingTypeOK
<1>2. k + 1 \in 1..Len(sent) /\ (k + 1) - 1 = k
  BY <1>1
<1>3. /\ stream[from + 1] = HeadCell(r) /\ stream[from + 2] = BlankLine
      /\ ends[k + 1] = from + 2 + r.body
  BY <1>2 DEF StreamInv
<1>4. stream[from + 1] # BlankLine
  BY <1>3 DEF HeadCell, BlankLine
<1>5. \A n \in header_end(from, to) : n = from + 2
  <2> SUFFICES ASSUME NEW n \in header_end(from, to) PROVE n = from + 2
    OBVIOUS
  <2>1. /\ n \in (from + 1)..to /\ stream[n] = BlankLine
        /\ \A j \in (from + 1)..(n - 1) : stream[j] # BlankLine
    BY DEF header_end
  <2>2. n # from + 1
    BY <1>4, <2>1
  <2>3. ~(n > from + 2)
    <3>1. n > from + 2 => from + 2 \in (from + 1)..(n - 1)
      BY <1>1, <2>1
    <3> QED BY <1>3, <2>1, <3>1
  <2> QED BY <1>1, <2>1, <2>2, <2>3
<1>6. to >= from + 2 => from + 2 \in header_end(from, to)
  <2>1. \A j \in (from + 1)..((from + 2) - 1) : j = from + 1
    BY <1>1
  <2>2. to >= from + 2 => from + 2 \in (from + 1)..to
    BY <1>1
  <2> QED BY <1>3, <1>4, <2>1, <2>2 DEF header_end
<1>7. header_end(from, to) = {from + 2}
  BY <1>5, <1>6
<1>8. HasHead(from, from + 2) /\ MethodOf(from, from + 2) = "ok"
  <2>1. (from + 2) - 1 = from + 1 /\ from + 2 > from + 1 /\ ~(from + 2 > from + 2)
    BY <1>1
  <2>2. stream[from + 1].cell = "head" /\ stream[from + 1].request = r
    BY <1>3 DEF HeadCell
  <2>3. r.line = "ok"
    BY DEF WellFormed
  <2> HIDE DEF r
  <2>4. HasHead(from, from + 2)
    BY <2>1, <2>2 DEF HasHead
  <2>5. MethodOf(from, from + 2) = "ok"
    BY <2>1, <2>2, <2>3 DEF MethodOf
  <2> QED BY <2>4, <2>5
<1>9. total(from, from + 2, r.content_length) = 2 + r.body
  <2>1. r \in Requests
    BY <1>2 DEF FramingTypeOK
  <2>2. PICK b \in Nat : b = r.body
    BY <2>1, RequestsAssumption
  <2>3. r.content_length = b /\ b + 2 < SizeWord
    BY <2>2 DEF WellFormed
  <2>4. (from + 2) - from + b = 2 + b
    BY <1>1
  <2>5. (2 + b) % SizeWord = 2 + b
    BY <2>3, FramingAssumption
  <2> QED BY <2>2, <2>3, <2>4, <2>5 DEF total
<1> QED BY <1>3, <1>7, <1>8, <1>9

-----------------------------------------------------------------------------
(* The framing *)

LEMMA Concatenation ==
    ASSUME NEW S, NEW s \in Seq(S), NEW t \in Seq(S)
    PROVE /\ s \o t \in Seq(S) /\ Len(s \o t) = Len(s) + Len(t)
          /\ \A i \in 1..Len(s) : (s \o t)[i] = s[i]
          /\ \A j \in 1..Len(t) : (s \o t)[Len(s) + j] = t[j]
<1>1. Len(s) \in Nat /\ Len(t) \in Nat
  OBVIOUS
<1>2. /\ s \o t \in Seq(S) /\ Len(s \o t) = Len(s) + Len(t)
      /\ \A i \in 1..Len(s) + Len(t) :
            (s \o t)[i] = IF i <= Len(s) THEN s[i] ELSE t[i - Len(s)]
  BY ConcatProperties
<1>3. \A i \in 1..Len(s) : (s \o t)[i] = s[i]
  <2>1. \A i \in 1..Len(s) : i \in 1..Len(s) + Len(t) /\ i <= Len(s)
    BY <1>1
  <2> QED BY <1>2, <2>1
<1>4. \A j \in 1..Len(t) : (s \o t)[Len(s) + j] = t[j]
  <2>1. \A j \in 1..Len(t) : /\ Len(s) + j \in 1..Len(s) + Len(t) /\ ~(Len(s) + j <= Len(s))
                             /\ (Len(s) + j) - Len(s) = j
    BY <1>1
  <2> QED BY <1>2, <2>1
<1> QED BY <1>2, <1>3, <1>4

LEMMA CellsOfRequest ==
    ASSUME NEW r \in Requests
    PROVE /\ Cells(r) \in Seq(StreamCells) /\ Len(Cells(r)) = 2 + r.body
          /\ Cells(r)[1] = HeadCell(r) /\ Cells(r)[2] = BlankLine
<1> DEFINE front == <<HeadCell(r), BlankLine>>
           body == [n \in 1..r.body |-> BodyCell(r)]
<1>1. r.body \in Nat
  BY RequestsAssumption
<1>2. HeadCell(r) \in StreamCells /\ BlankLine \in StreamCells /\ BodyCell(r) \in StreamCells
  BY DEF StreamCells
<1>3. body \in Seq(StreamCells) /\ Len(body) = r.body
  BY <1>1, <1>2
<1>4. /\ front \in Seq(StreamCells) /\ Len(front) = 2
      /\ front[1] = HeadCell(r) /\ front[2] = BlankLine
  BY <1>2
<1>5. Cells(r) = front \o body
  BY DEF Cells
<1> HIDE DEF front, body
<1>6. /\ front \o body \in Seq(StreamCells) /\ Len(front \o body) = Len(front) + Len(body)
      /\ \A i \in 1..Len(front) : (front \o body)[i] = front[i]
  BY <1>3, <1>4, Concatenation, ZenonT(30)
<1>7. /\ Cells(r) \in Seq(StreamCells) /\ Len(Cells(r)) = Len(front) + Len(body)
      /\ \A i \in 1..Len(front) : Cells(r)[i] = front[i]
  BY <1>5, <1>6
<1> QED BY <1>1, <1>3, <1>4, <1>7

LEMMA SendFraming ==
    ASSUME FramingTypeOK, StreamInv, OrderInv, Send
    PROVE FramingTypeOK' /\ StreamInv' /\ OrderInv'
<1>1. PICK r \in Requests : sent' = Append(sent, r) /\ stream' = stream \o Cells(r)
  BY DEF Send
<1>2. /\ ends' = Append(ends, Len(stream'))
      /\ from' = from /\ to' = to /\ pc' = pc /\ handled' = handled
  BY DEF Send
<1>3. r.body \in Nat
  BY RequestsAssumption
<1> DEFINE k == Len(sent)
           l == Len(stream)
           c == Cells(r)
<1>4. /\ c \in Seq(StreamCells) /\ Len(c) = 2 + r.body
      /\ c[1] = HeadCell(r) /\ c[2] = BlankLine
  BY CellsOfRequest
<1>5. /\ sent \in Seq(Requests) /\ stream \in Seq(StreamCells) /\ ends \in Seq(Nat)
      /\ k \in Nat /\ l \in Nat /\ Len(ends) = k /\ l = End(k)
  BY DEF FramingTypeOK, StreamInv
<1> HIDE DEF c
<1>6. /\ stream' \in Seq(StreamCells) /\ Len(stream') = l + 2 + r.body
      /\ stream'[l + 1] = HeadCell(r) /\ stream'[l + 2] = BlankLine
      /\ \A i \in 1..l : stream'[i] = stream[i]
  <2>1. /\ stream' \in Seq(StreamCells) /\ Len(stream') = l + Len(c)
        /\ \A i \in 1..l : stream'[i] = stream[i]
        /\ \A j \in 1..Len(c) : stream'[l + j] = c[j]
    <3>0. stream \in Seq(StreamCells) /\ c \in Seq(StreamCells)
      BY <1>4, <1>5
    <3>1. /\ stream \o c \in Seq(StreamCells) /\ Len(stream \o c) = Len(stream) + Len(c)
          /\ \A i \in 1..Len(stream) : (stream \o c)[i] = stream[i]
          /\ \A j \in 1..Len(c) : (stream \o c)[Len(stream) + j] = c[j]
      <4>1. stream \o c \in Seq(StreamCells) /\ Len(stream \o c) = Len(stream) + Len(c)
        BY <3>0, Concatenation, Zenon
      <4>2. \A i \in 1..Len(stream) : (stream \o c)[i] = stream[i]
        BY <3>0, Concatenation, Zenon
      <4>3. ASSUME NEW j \in 1..Len(c) PROVE (stream \o c)[Len(stream) + j] = c[j]
        BY <3>0, Concatenation, SMT
      <4> QED BY <4>1, <4>2, <4>3
    <3>2. stream' = stream \o c
      BY <1>1 DEF c
    <3> QED BY <3>1, <3>2
  <2>2. 1 \in 1..Len(c) /\ 2 \in 1..Len(c) /\ l + Len(c) = l + 2 + r.body
    <3>1. PICK b \in Nat, i \in Nat : b = r.body /\ i = l
      BY <1>3, <1>5
    <3>2. 1 \in 1..(2 + b) /\ 2 \in 1..(2 + b) /\ i + (2 + b) = i + 2 + b
      OBVIOUS
    <3> QED BY <1>4, <3>1, <3>2, Zenon
  <2> QED BY <1>4, <2>1, <2>2
<1>7. /\ sent' \in Seq(Requests) /\ Len(sent') = k + 1 /\ sent'[k + 1] = r
      /\ \A i \in 1..k : sent'[i] = sent[i]
  BY <1>1, <1>5
<1>8. /\ ends' \in Seq(Nat) /\ Len(ends') = k + 1 /\ ends'[k + 1] = l + 2 + r.body
      /\ \A i \in 1..k : ends'[i] = ends[i]
  <2>1. Len(stream') \in Nat
    BY <1>3, <1>5, <1>6
  <2> QED BY <1>2, <1>5, <1>6, <2>1
<1>9. FramingTypeOK'
  BY <1>2, <1>3, <1>5, <1>6, <1>7, <1>8 DEF FramingTypeOK
<1>10. \A n \in 0..k : End(n)' = End(n) /\ End(n) \in Nat /\ End(n) <= l
  <2> SUFFICES ASSUME NEW n \in 0..k
               PROVE End(n)' = End(n) /\ End(n) \in Nat /\ End(n) <= l
    OBVIOUS
  <2>1. CASE n = 0
    BY <1>5, <2>1 DEF End
  <2>2. CASE n # 0
    <3>1. n \in 1..k
      BY <1>5, <2>2
    <3>2. End(n) = ends[n] /\ End(n)' = ends'[n] /\ ends[n] \in Nat
      BY <1>5, <2>2, <3>1 DEF End
    <3>3. ends[n] <= l
      BY <1>5, <3>1 DEF StreamInv
    <3> QED BY <1>8, <3>1, <3>2, <3>3
  <2> QED BY <2>1, <2>2
<1>11. StreamInv'
  <2>1. Len(ends') = Len(sent') /\ Len(stream') = End(Len(sent))'
    BY <1>5, <1>6, <1>7, <1>8 DEF End
  <2>2. \A n \in 1..(k + 1) :
           /\ ends'[n] = End(n - 1)' + 2 + sent'[n].body
           /\ stream'[End(n - 1)' + 1] = HeadCell(sent'[n])
           /\ stream'[End(n - 1)' + 2] = BlankLine
           /\ ends'[n] <= Len(stream')
    <3> SUFFICES ASSUME NEW n \in 1..(k + 1)
                 PROVE /\ ends'[n] = End(n - 1)' + 2 + sent'[n].body
                       /\ stream'[End(n - 1)' + 1] = HeadCell(sent'[n])
                       /\ stream'[End(n - 1)' + 2] = BlankLine
                       /\ ends'[n] <= Len(stream')
      OBVIOUS
    <3>1. n - 1 \in 0..k /\ End(n - 1)' = End(n - 1)
      BY <1>5, <1>10
    <3>2. CASE n = k + 1
      <4>1. n - 1 = k
        BY <1>5, <3>2
      <4> QED BY <1>3, <1>5, <1>6, <1>7, <1>8, <3>1, <3>2, <4>1
    <3>3. CASE n \in 1..k
      <4>1. /\ ends[n] = End(n - 1) + 2 + sent[n].body /\ ends[n] <= l
            /\ stream[End(n - 1) + 1] = HeadCell(sent[n])
            /\ stream[End(n - 1) + 2] = BlankLine
        BY <3>3 DEF StreamInv
      <4>2. sent[n].body \in Nat
        BY <1>5, <3>3, RequestsAssumption
      <4>3. PICK e \in Nat : e = End(n - 1)
        BY <1>10, <3>1
      <4>4. e + 1 \in 1..l /\ e + 2 \in 1..l
        BY <1>5, <4>1, <4>2, <4>3, SMTT(30)
      <4>5. ends[n] \in Nat
        BY <1>5, <3>3, SMTT(30)
      <4>6. ends'[n] <= Len(stream')
        <5>1. \A x, y, b \in Nat : x <= y => x <= y + 2 + b
          OBVIOUS
        <5>2. ends[n] <= l + 2 + r.body
          BY <1>3, <1>5, <4>1, <4>5, <5>1
        <5> QED BY <1>6, <1>8, <3>3, <5>2
      <4>7. stream'[e + 1] = stream[e + 1] /\ stream'[e + 2] = stream[e + 2]
        BY <1>6, <4>4
      <4>8. sent'[n] = sent[n] /\ ends'[n] = ends[n]
        BY <1>7, <1>8, <3>3
      <4> QED BY <3>1, <4>1, <4>3, <4>6, <4>7, <4>8
    <3> QED BY <1>5, <3>2, <3>3
  <2>3. \A m, n \in 1..(k + 1) : m <= n => ends'[m] <= ends'[n]
    <3> SUFFICES ASSUME NEW m \in 1..(k + 1), NEW n \in 1..(k + 1), m <= n
                 PROVE ends'[m] <= ends'[n]
      OBVIOUS
    <3>1. CASE n \in 1..k
      <4>1. m \in 1..k
        BY <1>5, <3>1
      <4> QED BY <1>8, <3>1, <4>1 DEF StreamInv
    <3>2. CASE n = k + 1
      BY <1>6, <1>8, <2>2, <3>2
    <3> QED BY <1>5, <3>1, <3>2
  <2> QED BY <1>7, <2>1, <2>2, <2>3 DEF StreamInv
<1>12. OrderInv'
  <2> SUFFICES ASSUME Faithful' PROVE
         /\ Len(handled') <= Len(sent')
         /\ \A n \in 1..Len(handled') : handled'[n] = sent'[n]
         /\ from' = End(Len(handled))'
         /\ pc' = "recv" => \A n \in 1..Len(sent') : ends'[n] <= to' => n <= Len(handled')
    BY DEF OrderInv
  <2>1. Faithful
    <3>1. \A n \in 1..k : WellFormed(sent'[n])
      BY <1>7 DEF Faithful
    <3> QED BY <1>5, <1>7, <3>1 DEF Faithful
  <2>2. /\ Len(handled) <= k /\ Len(handled) \in Nat
        /\ \A n \in 1..Len(handled) : handled[n] = sent[n]
        /\ from = End(Len(handled))
        /\ pc = "recv" => \A n \in 1..k : ends[n] <= to => n <= Len(handled)
    BY <2>1 DEF OrderInv, FramingTypeOK
  <2>3. Len(handled') <= Len(sent') /\ \A n \in 1..Len(handled') : handled'[n] = sent'[n]
    BY <1>2, <1>5, <1>7, <2>2
  <2>4. from' = End(Len(handled))'
    BY <1>2, <1>5, <1>10, <2>2 DEF End
  <2>5. ASSUME pc' = "recv", NEW n \in 1..(k + 1), ends'[n] <= to'
        PROVE n <= Len(handled')
    <3>1. n # k + 1
      BY <1>2, <1>3, <1>5, <1>8, <2>5 DEF FramingTypeOK
    <3>2. n \in 1..k /\ ends[n] <= to
      BY <1>2, <1>5, <1>8, <2>5, <3>1
    <3> QED BY <1>2, <2>2, <2>5, <3>2
  <2> QED BY <1>7, <2>3, <2>4, <2>5
<1> QED BY <1>9, <1>11, <1>12

(* A step that leaves the sender's side alone leaves the stream. *)
LEMMA StreamKept ==
    ASSUME StreamInv, UNCHANGED <<sent, stream, ends>>
    PROVE StreamInv' /\ (Faithful' = Faithful) /\ \A n : End(n)' = End(n)
<1>1. \A n : End(n)' = End(n)
  BY DEF End
<1>2. StreamInv'
  BY <1>1 DEF StreamInv, End
<1>3. Faithful' = Faithful
  BY DEF Faithful, WellFormed
<1> QED BY <1>1, <1>2, <1>3

LEMMA ReceiveFraming ==
    ASSUME FramingTypeOK, StreamInv, OrderInv, Receive
    PROVE FramingTypeOK' /\ StreamInv' /\ OrderInv'
<1>1. /\ UNCHANGED <<sent, stream, ends>> /\ from' = from /\ handled' = handled
      /\ to' \in (to + 1)..Len(stream) /\ pc' = "parse"
  BY DEF Receive
<1>2. StreamInv' /\ (Faithful' = Faithful) /\ \A n : End(n)' = End(n)
  BY <1>1, StreamKept
<1>3. to' \in Nat /\ from' <= to' /\ to' <= Len(stream')
  BY <1>1 DEF FramingTypeOK
<1>4. FramingTypeOK'
  BY <1>1, <1>3 DEF FramingTypeOK
<1>5. OrderInv'
  BY <1>1, <1>2 DEF OrderInv
<1> QED BY <1>2, <1>4, <1>5

LEMMA EndsFraming ==
    ASSUME FramingTypeOK, StreamInv, OrderInv, ConnectionEnds
    PROVE FramingTypeOK' /\ StreamInv' /\ OrderInv'
<1>1. /\ UNCHANGED <<sent, stream, ends>> /\ from' = from /\ to' = to /\ handled' = handled
      /\ pc' = "closed"
  BY DEF ConnectionEnds
<1>2. StreamInv' /\ (Faithful' = Faithful) /\ \A n : End(n)' = End(n)
  BY <1>1, StreamKept
<1>3. FramingTypeOK'
  BY <1>1 DEF FramingTypeOK
<1>4. OrderInv'
  BY <1>1, <1>2 DEF OrderInv
<1> QED BY <1>2, <1>3, <1>4

(* When nothing parses, no request that has wholly arrived is left. *)
LEMMA WaitFraming ==
    ASSUME FramingTypeOK, StreamInv, OrderInv, Wait
    PROVE FramingTypeOK' /\ StreamInv' /\ OrderInv'
<1>1. /\ UNCHANGED <<sent, stream, ends>> /\ from' = from /\ to' = to /\ handled' = handled
      /\ pc' = "recv" /\ ~Parses
  BY DEF Wait
<1>2. StreamInv' /\ (Faithful' = Faithful) /\ \A n : End(n)' = End(n)
  BY <1>1, StreamKept
<1>3. FramingTypeOK'
  BY <1>1 DEF FramingTypeOK
<1>4. ASSUME Faithful, NEW n \in 1..Len(sent), ends[n] <= to, ~(n <= Len(handled))
      PROVE FALSE
  <2> DEFINE k == Len(handled)
  <2>1. /\ k \in Nat /\ from = End(k) /\ k < Len(sent) /\ k + 1 \in 1..Len(sent) /\ k + 1 <= n
    BY <1>4 DEF FramingTypeOK, OrderInv
  <2>2. WellFormed(sent[k + 1]) /\ sent[k + 1] \in Requests
    BY <1>4, <2>1 DEF Faithful, FramingTypeOK
  <2>3. PICK b \in Nat : b = sent[k + 1].body
    BY <2>2, RequestsAssumption
  <2>4. ends[k + 1] = from + 2 + b /\ ends[k + 1] <= to
    <3>1. ends[k + 1] = End((k + 1) - 1) + 2 + b /\ ends[k + 1] <= ends[n]
      BY <2>1, <2>3 DEF StreamInv
    <3>2. (k + 1) - 1 = k
      BY <2>1
    <3>3. ends[k + 1] \in Nat /\ ends[n] \in Nat /\ to \in Nat
      <4>1. ends \in Seq(Nat) /\ Len(ends) = Len(sent) /\ to \in Nat
        BY DEF FramingTypeOK, StreamInv
      <4> QED BY <2>1, <4>1
    <3> QED BY <1>4, <2>1, <3>1, <3>2, <3>3
  <2>5. from \in Nat /\ to \in Nat
    BY DEF FramingTypeOK
  <2>6. to >= from + 2 /\ ~(to - from < 2 + b)
    BY <2>4, <2>5
  <2> HIDE DEF k
  <2>7. /\ header_end(from, to) = {from + 2} /\ stream[from + 1] = HeadCell(sent[k + 1])
        /\ HasHead(from, from + 2) /\ MethodOf(from, from + 2) = "ok"
        /\ total(from, from + 2, sent[k + 1].content_length) = 2 + b
    BY <2>1, <2>2, <2>3, <2>6, NextRequest
  <2>8. stream[(from + 2) - 1].request = sent[k + 1]
    <3>1. (from + 2) - 1 = from + 1
      BY <2>5
    <3> QED BY <2>7, <3>1 DEF HeadCell
  <2>9. from + 2 \in header_end(from, to)
    BY <2>7
  <2>10. Parses
    BY <2>6, <2>7, <2>8, <2>9, ParsesHead, Zenon
  <2> QED BY <1>1, <2>10
<1>5. OrderInv'
  BY <1>1, <1>2, <1>4 DEF OrderInv
<1> QED BY <1>2, <1>3, <1>5

LEMMA TakeFraming ==
    ASSUME FramingTypeOK, StreamInv, OrderInv, Take
    PROVE FramingTypeOK' /\ StreamInv' /\ OrderInv'
<1>1. /\ UNCHANGED <<sent, stream, ends>> /\ to' = to /\ pc' = pc /\ pc = "parse" /\ Parses
      /\ from' = from + try_parse_request(from, to).consumed
      /\ handled' = Append(handled, Parsed)
  BY DEF Take
<1>2. StreamInv' /\ (Faithful' = Faithful) /\ \A n : End(n)' = End(n)
  BY <1>1, StreamKept
<1>3. PICK n \in header_end(from, to), r \in Requests :
         /\ n \in Nat /\ n >= from + 2 /\ n <= to /\ stream[n - 1] = HeadCell(r)
         /\ Parsed = [line |-> r.line,
                      route |-> IF MethodOf(from, n) = "garbled" THEN "other" ELSE r.route,
                      type |-> r.type, content |-> Content(r, r.content_length),
                      transport |-> r.transport, body |-> r.body,
                      content_length |-> r.content_length, breaks |-> r.breaks]
         /\ try_parse_request(from, to).consumed = total(from, n, r.content_length)
         /\ total(from, n, r.content_length) \in Nat
         /\ total(from, n, r.content_length) <= to - from
  BY <1>1, TakeFacts
<1>4. handled \in Seq(ParsedRequests) /\ Parsed \in ParsedRequests
  BY <1>1, ParsedTyped DEF FramingTypeOK
<1>5. /\ handled' \in Seq(ParsedRequests) /\ Len(handled') = Len(handled) + 1
      /\ handled'[Len(handled) + 1] = Parsed
      /\ \A i \in 1..Len(handled) : handled'[i] = handled[i]
  BY <1>1, <1>4
<1>6. from' \in Nat /\ from' <= to
  <2>1. PICK t \in Nat : t = total(from, n, r.content_length)
    BY <1>3
  <2>2. from \in Nat /\ to \in Nat /\ t <= to - from
    BY <1>3, <2>1 DEF FramingTypeOK
  <2>3. from + t \in Nat /\ from + t <= to
    BY <2>2
  <2> QED BY <1>1, <1>3, <2>1, <2>3
<1>7. FramingTypeOK'
  BY <1>1, <1>5, <1>6 DEF FramingTypeOK
<1>8. ASSUME Faithful
      PROVE /\ Len(handled') <= Len(sent)
            /\ \A i \in 1..Len(handled') : handled'[i] = sent[i]
            /\ from' = End(Len(handled'))
  <2> DEFINE k == Len(handled)
  <2>1. /\ k \in Nat /\ from = End(k) /\ k <= Len(sent) /\ Len(sent) \in Nat
        /\ \A i \in 1..k : handled[i] = sent[i]
    BY <1>8 DEF FramingTypeOK, OrderInv
  <2>2. k < Len(sent)
    <3>1. CASE k = Len(sent)
      <4>1. from = Len(stream) /\ from \in Nat /\ to \in Nat /\ to <= Len(stream)
        BY <2>1, <3>1 DEF StreamInv, FramingTypeOK
      <4> QED BY <1>3, <4>1
    <3> QED BY <2>1, <3>1
  <2>3. k + 1 \in 1..Len(sent)
    BY <2>1, <2>2
  <2>4. WellFormed(sent[k + 1]) /\ sent[k + 1] \in Requests
    BY <1>8, <2>3 DEF Faithful, FramingTypeOK
  <2> HIDE DEF k
  <2>5. /\ header_end(from, to) = {from + 2} /\ stream[from + 1] = HeadCell(sent[k + 1])
        /\ MethodOf(from, from + 2) = "ok"
        /\ total(from, from + 2, sent[k + 1].content_length) = 2 + sent[k + 1].body
        /\ ends[k + 1] = from + 2 + sent[k + 1].body
    BY <1>3, <2>1, <2>2, <2>4, NextRequest
  <2>6. n = from + 2 /\ n - 1 = from + 1
    BY <2>5 DEF FramingTypeOK
  <2>7. r = sent[k + 1]
    BY <1>3, <2>5, <2>6 DEF HeadCell
  <2>8. Parsed = r
    <3>1. Content(r, r.content_length) = r.content
      BY <2>4, <2>7, RequestsAssumption DEF Content, WellFormed
    <3>2. r = [line |-> r.line, route |-> r.route, type |-> r.type, content |-> r.content,
               transport |-> r.transport, body |-> r.body,
               content_length |-> r.content_length, breaks |-> r.breaks]
      BY RequestsAssumption
    <3>3. MethodOf(from, n) # "garbled"
      BY <2>5, <2>6
    <3> QED BY <1>3, <3>1, <3>2, <3>3
  <2>9. from' = ends[k + 1]
    <3>1. PICK b \in Nat : b = r.body
      BY RequestsAssumption
    <3>2. from \in Nat /\ from + (2 + b) = from + 2 + b
      BY DEF FramingTypeOK
    <3> QED BY <1>1, <1>3, <2>5, <2>6, <2>7, <3>1, <3>2
  <2>10. Len(handled') = k + 1 /\ End(k + 1) = ends[k + 1]
    BY <1>5, <2>1 DEF k, End
  <2>11. \A i \in 1..(k + 1) : handled'[i] = sent[i]
    <3>1. \A i \in 1..(k + 1) : i = k + 1 \/ i \in 1..k
      BY <2>1
    <3> QED BY <1>5, <2>1, <2>7, <2>8, <3>1 DEF k
  <2>12. k + 1 <= Len(sent)
    BY <2>3
  <2> QED BY <2>9, <2>10, <2>11, <2>12
<1>9. OrderInv'
  BY <1>1, <1>2, <1>8 DEF OrderInv
<1> QED BY <1>2, <1>7, <1>9

-----------------------------------------------------------------------------
(* The handshake *)

FpSetups == {n \in 1..Len(handled) : IsFpSetup(handled[n])}
FpHandshakes == {n \in 1..Len(handled) : IsFpHandshake(handled[n])}
IsLast(S, m) == m \in S /\ \A n \in S : n <= m

(* The mode and the message kept are those of the last that was accepted. *)
HandshakeInv ==
    /\ \/ FpSetups = {} /\ last_fp_setup_mode_ = 0
       \/ \E m \in FpSetups : /\ IsLast(FpSetups, m)
                               /\ last_fp_setup_mode_ = handled[m].content.mode
    /\ \/ FpHandshakes = {} /\ last_fp_setup_key_message_ = "none"
       \/ \E m \in FpHandshakes : /\ IsLast(FpHandshakes, m)
                                   /\ last_fp_setup_key_message_ = handled[m].content.message

LEMMA LastIsMax ==
    ASSUME NEW S \in SUBSET Nat, NEW m, IsLast(S, m)
    PROVE Max(S) = m
<1>1. m \in S /\ m \in Nat /\ \A y \in S : m >= y
  BY DEF IsLast
<1>2. Max(S) \in S /\ \A y \in S : Max(S) >= y
  BY <1>1 DEF Max
<1>3. Max(S) \in Nat /\ Max(S) >= m /\ m >= Max(S)
  BY <1>1, <1>2
<1> QED BY <1>1, <1>3

LEMMA KeptIsAccepted ==
    ASSUME FramingTypeOK, HandshakeInv
    PROVE last_fp_setup_mode_ = AcceptedMode /\ last_fp_setup_key_message_ = AcceptedMessage
<1>1. DOMAIN handled = 1..Len(handled)
  BY DEF FramingTypeOK
<1>2. FpSetups \in SUBSET Nat /\ FpHandshakes \in SUBSET Nat
  BY DEF FpSetups, FpHandshakes
<1>3. AcceptedMode = IF FpSetups = {} THEN 0 ELSE handled[Max(FpSetups)].content.mode
  BY <1>1 DEF AcceptedMode, FpSetups
<1>4. AcceptedMessage = IF FpHandshakes = {} THEN "none"
                        ELSE handled[Max(FpHandshakes)].content.message
  BY <1>1 DEF AcceptedMessage, FpHandshakes
<1>5. last_fp_setup_mode_ = AcceptedMode
  <2>1. CASE FpSetups = {} /\ last_fp_setup_mode_ = 0
    BY <1>3, <2>1
  <2>2. ASSUME NEW m \in FpSetups, IsLast(FpSetups, m),
               last_fp_setup_mode_ = handled[m].content.mode
        PROVE last_fp_setup_mode_ = AcceptedMode
    <3>1. Max(FpSetups) = m /\ FpSetups # {}
      BY <1>2, <2>2, LastIsMax
    <3> QED BY <1>3, <2>2, <3>1
  <2> QED BY <2>1, <2>2 DEF HandshakeInv
<1>6. last_fp_setup_key_message_ = AcceptedMessage
  <2>1. CASE FpHandshakes = {} /\ last_fp_setup_key_message_ = "none"
    BY <1>4, <2>1
  <2>2. ASSUME NEW m \in FpHandshakes, IsLast(FpHandshakes, m),
               last_fp_setup_key_message_ = handled[m].content.message
        PROVE last_fp_setup_key_message_ = AcceptedMessage
    <3>1. Max(FpHandshakes) = m /\ FpHandshakes # {}
      BY <1>2, <2>2, LastIsMax
    <3> QED BY <1>4, <2>2, <3>1
  <2> QED BY <2>1, <2>2 DEF HandshakeInv
<1> QED BY <1>5, <1>6

(* What the handlers keep of the handshake. *)
LEMMA HandlersKeep ==
    ASSUME NEW r, handle(r)
    PROVE /\ last_fp_setup_mode_' = IF IsFpSetup(r) THEN r.content.mode
                                    ELSE last_fp_setup_mode_
          /\ last_fp_setup_key_message_' = IF IsFpHandshake(r) THEN r.content.message
                                           ELSE last_fp_setup_key_message_
<1>1. CASE handle_fp_setup(r)
  BY <1>1 DEF handle_fp_setup, KeepsMode, IsFpSetup, IsFpHandshake
<1>2. ASSUME UNCHANGED fpVars, r.route # "POST /fp-setup"
      PROVE /\ last_fp_setup_mode_' = IF IsFpSetup(r) THEN r.content.mode
                                      ELSE last_fp_setup_mode_
            /\ last_fp_setup_key_message_' = IF IsFpHandshake(r) THEN r.content.message
                                             ELSE last_fp_setup_key_message_
  BY <1>2 DEF fpVars, IsFpSetup, IsFpHandshake
<1>3. CASE HandleAnnounce(r)
  BY <1>2, <1>3 DEF HandleAnnounce
<1>4. CASE HandleSetupStream(r)
  BY <1>2, <1>4 DEF HandleSetupStream
<1>5. CASE HandleSetupClassic(r)
  BY <1>2, <1>5 DEF HandleSetupClassic
<1>6. CASE HandleSetupSession(r)
  BY <1>2, <1>6 DEF HandleSetupSession
<1>7. CASE HandleRecord(r)
  BY <1>2, <1>7 DEF HandleRecord
<1>8. CASE HandleTeardown(r)
  BY <1>2, <1>8 DEF HandleTeardown
<1>9. CASE HandleParameterText(r)
  BY <1>2, <1>9 DEF HandleParameterText
<1>10. CASE HandleParameterPlist(r)
  BY <1>2, <1>10 DEF HandleParameterPlist
<1>11. CASE HandleParameterMedia(r)
  BY <1>2, <1>11 DEF HandleParameterMedia
<1>12. CASE HandleOther(r)
  BY <1>2, <1>12 DEF HandleOther, AnsweredOnly
<1> QED BY <1>1, <1>3, <1>4, <1>5, <1>6, <1>7, <1>8, <1>9, <1>10, <1>11, <1>12 DEF handle

LEMMA TakeHandshake ==
    ASSUME FramingTypeOK, HandshakeInv, Take, handle(Parsed)
    PROVE HandshakeInv'
<1> DEFINE k == Len(handled)
           r == Parsed
<1>1. handled' = Append(handled, r) /\ Parses
  BY DEF Take
<1>2. handled \in Seq(ParsedRequests) /\ r \in ParsedRequests /\ k \in Nat
  BY <1>1, ParsedTyped DEF FramingTypeOK
<1> HIDE DEF r
<1>3. /\ Len(handled') = k + 1 /\ handled'[k + 1] = r
      /\ \A i \in 1..k : handled'[i] = handled[i]
  BY <1>1, <1>2
<1>4. /\ last_fp_setup_mode_' = IF IsFpSetup(r) THEN r.content.mode
                                ELSE last_fp_setup_mode_
      /\ last_fp_setup_key_message_' = IF IsFpHandshake(r) THEN r.content.message
                                       ELSE last_fp_setup_key_message_
  BY HandlersKeep DEF r
<1>5. \A i \in 1..(k + 1) : i = k + 1 \/ i \in 1..k
  BY <1>2
<1>6. k + 1 \in 1..(k + 1) /\ \A i \in 1..k : i \in 1..(k + 1) /\ i # k + 1 /\ i <= k + 1
  BY <1>2
<1>7. FpSetups' = FpSetups \cup (IF IsFpSetup(r) THEN {k + 1} ELSE {})
  <2>1. FpSetups' = {n \in 1..(k + 1) : IsFpSetup(handled'[n])}
    BY <1>3 DEF FpSetups, IsFpSetup, FpSetupAccepted
  <2> QED BY <1>3, <1>5, <1>6, <2>1 DEF FpSetups
<1>8. FpHandshakes' = FpHandshakes \cup (IF IsFpHandshake(r) THEN {k + 1} ELSE {})
  <2>1. FpHandshakes' = {n \in 1..(k + 1) : IsFpHandshake(handled'[n])}
    BY <1>3 DEF FpHandshakes, IsFpHandshake, FpHandshakeAccepted
  <2> QED BY <1>3, <1>5, <1>6, <2>1 DEF FpHandshakes
<1>9. \/ FpSetups' = {} /\ last_fp_setup_mode_' = 0
      \/ \E m \in FpSetups' : /\ IsLast(FpSetups', m)
                               /\ last_fp_setup_mode_' = handled'[m].content.mode
  <2>1. CASE IsFpSetup(r)
    <3>1. k + 1 \in FpSetups' /\ IsLast(FpSetups', k + 1)
      BY <1>2, <1>6, <1>7, <2>1 DEF IsLast, FpSetups
    <3> QED BY <1>3, <1>4, <2>1, <3>1
  <2>2. CASE ~IsFpSetup(r)
    <3>1. FpSetups' = FpSetups /\ last_fp_setup_mode_' = last_fp_setup_mode_
      BY <1>4, <1>7, <2>2
    <3>2. \A m \in FpSetups : handled'[m] = handled[m]
      BY <1>3 DEF FpSetups
    <3> QED BY <3>1, <3>2 DEF HandshakeInv
  <2> QED BY <2>1, <2>2
<1>10. \/ FpHandshakes' = {} /\ last_fp_setup_key_message_' = "none"
       \/ \E m \in FpHandshakes' :
             /\ IsLast(FpHandshakes', m)
             /\ last_fp_setup_key_message_' = handled'[m].content.message
  <2>1. CASE IsFpHandshake(r)
    <3>1. k + 1 \in FpHandshakes' /\ IsLast(FpHandshakes', k + 1)
      BY <1>2, <1>6, <1>8, <2>1 DEF IsLast, FpHandshakes
    <3> QED BY <1>3, <1>4, <2>1, <3>1
  <2>2. CASE ~IsFpHandshake(r)
    <3>1. /\ FpHandshakes' = FpHandshakes
          /\ last_fp_setup_key_message_' = last_fp_setup_key_message_
      BY <1>4, <1>8, <2>2
    <3>2. \A m \in FpHandshakes : handled'[m] = handled[m]
      BY <1>3 DEF FpHandshakes
    <3> QED BY <3>1, <3>2 DEF HandshakeInv
  <2> QED BY <2>1, <2>2
<1> QED BY <1>9, <1>10 DEF HandshakeInv, IsLast

-----------------------------------------------------------------------------
(* The reports *)

ToldFields == {"volume", "progress", "crypto", "stream", "started", "paused", "stopped",
               "errors", "metadata", "cover_art"}

ProgressRight(p) ==
    /\ p.position <= (IF p.times[2] >= p.times[1] THEN p.times[2] - p.times[1] ELSE 0)
    /\ p.times[2] <= p.times[3] => p.position <= p.duration
VolumeRight(v) == v # initial_volume_db => v \in -3000..0

ReportInv ==
    /\ DOMAIN told = ToldFields
    /\ announced_stream_ # Nothing => announced_stream_.client_control_port = 0
    /\ stream_sample_rate_ # 0
    /\ told["progress"] # Nothing => ProgressRight(told["progress"])
    /\ current_volume_db_ = told["volume"]
    /\ VolumeRight(told["volume"])

(* A callback changes what it was given last, and nothing else. *)
LEMMA ToldChanged ==
    ASSUME NEW t, DOMAIN t = ToldFields, NEW f \in ToldFields, NEW v
    PROVE /\ DOMAIN [t EXCEPT ![f] = v] = ToldFields
          /\ [t EXCEPT ![f] = v][f] = v
          /\ \A g \in ToldFields : g # f => [t EXCEPT ![f] = v][g] = t[g]
OBVIOUS

(* The keys of a session are handed on with what fp-setup left. *)
KeysTold ==
    told'["crypto"] \in {told["crypto"],
                         CryptoInfo(last_fp_setup_mode_, last_fp_setup_key_message_)}

(* A request that tells the host neither a volume nor progress. *)
Elsewhere ==
    /\ DOMAIN told' = ToldFields /\ KeysTold
    /\ told'["volume"] = told["volume"] /\ told'["progress"] = told["progress"]
    /\ current_volume_db_' = current_volume_db_

LEMMA ElsewhereTold ==
    ASSUME DOMAIN told = ToldFields, NEW f \in ToldFields \ {"volume", "progress"}, NEW v,
           f = "crypto" => v = CryptoInfo(last_fp_setup_mode_, last_fp_setup_key_message_),
           told' = [told EXCEPT ![f] = v], current_volume_db_' = current_volume_db_
    PROVE Elsewhere
<1>1. KeysTold
  BY ToldChanged DEF KeysTold, ToldFields
<1> QED BY <1>1, ToldChanged DEF Elsewhere, ToldFields

LEMMA NothingTold ==
    ASSUME DOMAIN told = ToldFields, told' = told, current_volume_db_' = current_volume_db_
    PROVE Elsewhere
BY DEF Elsewhere, KeysTold

LEMMA ErrorTold ==
    ASSUME DOMAIN told = ToldFields, TellError, current_volume_db_' = current_volume_db_
    PROVE Elsewhere
<1>1. told' = [told EXCEPT !["errors"] = told["errors"] + 1]
  BY DEF TellError
<1>2. "errors" \in ToldFields \ {"volume", "progress"} /\ "errors" # "crypto"
  BY DEF ToldFields
<1> QED BY <1>1, <1>2, ElsewhereTold

LEMMA ElsewhereReports ==
    ASSUME ReportInv, Elsewhere, stream_sample_rate_' # 0,
           announced_stream_' # Nothing => announced_stream_'.client_control_port = 0
    PROVE ReportInv'
BY DEF ReportInv, Elsewhere, ProgressRight, VolumeRight

LEMMA VolumeSet ==
    ASSUME NEW old, VolumeRight(old), NEW v,
           v = <<>> \/ \E n \in Int : v = <<n>>
    PROVE VolumeRight(set_current_volume(v, old))
<1>1. CASE v = <<>>
  BY <1>1 DEF set_current_volume
<1>2. ASSUME NEW n \in Int, v = <<n>>
      PROVE VolumeRight(set_current_volume(v, old))
  <2>1. v[1] = n /\ v # <<>>
    BY <1>2
  <2>2. clamp(n) \in -3000..0
    BY DEF clamp
  <2> QED BY <2>1, <2>2 DEF set_current_volume, VolumeRight
<1> QED BY <1>1, <1>2

LEMMA PlistVolume ==
    ASSUME NEW c
    PROVE LET v == parse_binary_plist_volume(c)
          IN v = <<>> \/ \E n \in Int : v = <<n>>
<1>1. ASSUME NEW n
      PROVE \/ plist_number_to_volume_db(n) = <<>>
            \/ \E i \in Int : plist_number_to_volume_db(n) = <<i>>
  <2>1. n \in Decibels => n \in Int
    BY DEF Decibels
  <2>2. n \in Fractions => FractionVolume(n) \in Int
    BY DEF Fractions, FractionVolume
  <2>3. n \in Percentages => PercentageVolume(n) \in Int
    BY DEF Percentages, PercentageVolume
  <2> QED BY <2>1, <2>2, <2>3, Zenon DEF plist_number_to_volume_db
<1>2. CASE c.kind = "numbers"
  <2>1. \/ parse_binary_plist_volume(c) = <<>>
        \/ \E n : parse_binary_plist_volume(c) = plist_number_to_volume_db(n)
    BY <1>2, Zenon DEF parse_binary_plist_volume, find_volume_in_plist
  <2> QED BY <1>1, <2>1, Zenon
<1>3. CASE c.kind # "numbers"
  BY <1>3, Zenon DEF parse_binary_plist_volume
<1> QED BY <1>2, <1>3

LEMMA ProgressIsRight ==
    ASSUME NEW t \in Seq(0..(Word - 1)), Len(t) = 3, NEW rate, rate # 0
    PROVE ProgressRight(Progress(t, rate))
<1>1. /\ t[1] \in 0..(Word - 1) /\ t[2] \in 0..(Word - 1) /\ t[3] \in 0..(Word - 1)
  <2>1. \A i \in 1..3 : t[i] \in 0..(Word - 1)
    BY ElementOfSeq
  <2> QED BY <2>1
<1>2. PICK a \in Nat, b \in Nat, e \in Nat :
         t[1] = a /\ t[2] = b /\ t[3] = e /\ a < Word /\ b < Word /\ e < Word
  BY <1>1, ControlWordAssumption
<1>3. \A x \in Nat : x < Word => x % Word = x
  BY ControlWordAssumption
<1>4. position(a, b) = IF b >= a THEN b - a ELSE 0
  <2>1. b >= a => b - a \in Nat /\ b - a < Word
    BY <1>2, ControlWordAssumption
  <2> QED BY <1>3, <2>1 DEF position
<1>5. duration(a, e) = IF e >= a THEN e - a ELSE 0
  <2>1. e >= a => e - a \in Nat /\ e - a < Word
    BY <1>2, ControlWordAssumption
  <2> QED BY <1>3, <2>1 DEF duration
<1>6. /\ Progress(t, rate).times = t
      /\ Progress(t, rate).position = position(a, b)
      /\ Progress(t, rate).duration = duration(a, e)
  BY <1>2 DEF Progress
<1>7. position(a, b) <= (IF b >= a THEN b - a ELSE 0)
  BY <1>4
<1>8. b <= e => position(a, b) <= duration(a, e)
  BY <1>4, <1>5
<1> QED BY <1>2, <1>6, <1>7, <1>8 DEF ProgressRight

(* What a request that is handled tells the host is right. *)
LEMMA HandlersReport ==
    ASSUME ReportInv, NEW r, Contents(r.content), handle(r)
    PROVE ReportInv' /\ KeysTold
<1> DEFINE Other == ToldFields \ {"volume", "progress"}
           Crypto == CryptoInfo(last_fp_setup_mode_, last_fp_setup_key_message_)
<1>1. /\ DOMAIN told = ToldFields /\ stream_sample_rate_ # 0
      /\ announced_stream_ # Nothing => announced_stream_.client_control_port = 0
      /\ current_volume_db_ = told["volume"] /\ VolumeRight(told["volume"])
      /\ told["progress"] # Nothing => ProgressRight(told["progress"])
  BY DEF ReportInv
<1>2. /\ \A f \in {"stream", "started", "paused", "stopped", "errors", "metadata",
                   "cover_art"} : f \in Other /\ f # "crypto"
      /\ "crypto" \in Other
  BY DEF ToldFields
<1>3. ASSUME Elsewhere, UNCHANGED streamVars
      PROVE ReportInv' /\ KeysTold
  BY <1>1, <1>3, ElsewhereReports DEF Elsewhere, streamVars
<1>4. CASE HandleAnnounce(r)
  <2>1. current_volume_db_' = current_volume_db_
    BY <1>4 DEF HandleAnnounce
  <2>2. CASE r.type = "sdp" /\ parse_announce_sdp(r.content)
    <3>1. /\ announced_stream_' = AnnouncedStream(r.content)
          /\ stream_sample_rate_' = AnnouncedStream(r.content).sample_rate
          /\ told' = [told EXCEPT !["crypto"] = Crypto]
      BY <1>4, <2>2 DEF HandleAnnounce
    <3>2. /\ AnnouncedStream(r.content).sample_rate # 0
          /\ AnnouncedStream(r.content).client_control_port = 0
      BY DEF AnnouncedStream, StreamInfo
    <3>3. Elsewhere
      BY <1>1, <1>2, <2>1, <3>1, ElsewhereTold
    <3> QED BY <3>1, <3>2, <3>3, ElsewhereReports DEF Elsewhere
  <2>3. CASE ~(r.type = "sdp" /\ parse_announce_sdp(r.content))
    <3>1. (TellError \/ told' = told) /\ UNCHANGED streamVars
      BY <1>4, <2>3, Zenon DEF HandleAnnounce, streamVars
    <3> QED BY <1>1, <1>3, <2>1, <3>1, NothingTold, ErrorTold
  <2> QED BY <2>2, <2>3
<1>5. CASE HandleSetupStream(r)
  <2>1. current_volume_db_' = current_volume_db_ /\ announced_stream_' = announced_stream_
    BY <1>5 DEF HandleSetupStream
  <2>2. stream_sample_rate_' # 0
    BY <1>1, <1>5, SMT DEF HandleSetupStream
  <2>3. Elsewhere
    <3>1. CASE parse_audio_stream_info(r.content)
      <4>1. PICK v : told' = [told EXCEPT !["stream"] = v]
        BY <1>5, <3>1, SMT DEF HandleSetupStream
      <4> QED BY <1>1, <1>2, <2>1, <4>1, ElsewhereTold
    <3>2. CASE ~parse_audio_stream_info(r.content)
      BY <1>1, <1>5, <2>1, <3>2, ErrorTold DEF HandleSetupStream
    <3> QED BY <3>1, <3>2
  <2> QED BY <1>1, <2>1, <2>2, <2>3, ElsewhereReports DEF Elsewhere
<1>6. CASE HandleSetupClassic(r)
  <2>1. PICK v : told' = [told EXCEPT !["stream"] = v]
    BY <1>6, Zenon DEF HandleSetupClassic
  <2>2. current_volume_db_' = current_volume_db_ /\ UNCHANGED streamVars
    BY <1>6 DEF HandleSetupClassic, streamVars
  <2>3. Elsewhere
    BY <1>1, <1>2, <2>1, <2>2, ElsewhereTold
  <2> QED BY <1>3, <2>2, <2>3
<1>7. CASE HandleSetupSession(r)
  <2>1. told' = told \/ told' = [told EXCEPT !["crypto"] = Crypto]
    BY <1>7, Zenon DEF HandleSetupSession
  <2>2. current_volume_db_' = current_volume_db_ /\ UNCHANGED streamVars
    BY <1>7 DEF HandleSetupSession, streamVars
  <2>3. Elsewhere
    BY <1>1, <1>2, <2>1, <2>2, ElsewhereTold, NothingTold
  <2> QED BY <1>3, <2>2, <2>3
<1>8. CASE handle_fp_setup(r)
  <2>1. TellError \/ told' = told
    BY <1>8, Zenon DEF handle_fp_setup
  <2>2. current_volume_db_' = current_volume_db_ /\ UNCHANGED streamVars
    BY <1>8 DEF handle_fp_setup, streamVars
  <2> QED BY <1>1, <1>3, <2>1, <2>2, ErrorTold, NothingTold
<1>9. CASE HandleRecord(r) \/ HandleTeardown(r)
  <2>1. \/ told' = told
        \/ told' = [told EXCEPT !["started"] = told["started"] + 1]
        \/ told' = [told EXCEPT !["stopped"] = told["stopped"] + 1]
    BY <1>9 DEF HandleRecord, HandleTeardown
  <2>2. current_volume_db_' = current_volume_db_ /\ UNCHANGED streamVars
    BY <1>9 DEF HandleRecord, HandleTeardown, streamVars
  <2>3. Elsewhere
    BY <1>1, <1>2, <2>1, <2>2, ElsewhereTold, NothingTold
  <2> QED BY <1>3, <2>2, <2>3
<1>10. CASE HandleParameterText(r)
  <2> DEFINE volume == IF r.content.kind = "text" THEN r.content.volume ELSE <<>>
             times == IF r.content.kind = "text" THEN r.content.progress ELSE <<>>
             progress == IF times = <<>> THEN told["progress"]
                         ELSE Progress(times, stream_sample_rate_)
             level == set_current_volume(volume, told["volume"])
             t1 == [told EXCEPT !["volume"] = level]
  <2>1. UNCHANGED streamVars
    BY <1>10 DEF HandleParameterText, streamVars
  <2>2. /\ current_volume_db_' = set_current_volume(volume, current_volume_db_)
        /\ told' = [t1 EXCEPT !["progress"] = progress]
    <3>1. /\ current_volume_db_' = set_current_volume(volume, current_volume_db_)
          /\ told' = [told EXCEPT !["volume"] = level, !["progress"] = progress]
      BY <1>10, Zenon DEF HandleParameterText
    <3> QED BY <3>1, Zenon
  <2>3. volume = <<>> \/ \E n \in Int : volume = <<n>>
    <3>1. CASE r.content.kind = "text"
      <4>1. volume \in Seq(Int) /\ Len(volume) \in {0, 1}
        BY <3>1 DEF Contents
      <4> HIDE DEF volume
      <4>2. Len(volume) = 0 => volume = <<>>
        BY <4>1
      <4>3. Len(volume) = 1 => volume[1] \in Int /\ volume = <<volume[1]>>
        BY <4>1
      <4> QED BY <4>1, <4>2, <4>3
    <3>2. CASE r.content.kind # "text"
      BY <3>2
    <3> QED BY <3>1, <3>2
  <2>4. progress # Nothing => ProgressRight(progress)
    <3>1. CASE times = <<>>
      BY <1>1, <3>1, Zenon
    <3>2. CASE times # <<>>
      <4>1. times \in Seq(0..(Word - 1)) /\ Len(times) \in {0, 3}
        BY <3>2 DEF Contents
      <4> HIDE DEF times
      <4>2. Len(times) = 3
        BY <3>2, <4>1
      <4>3. ProgressRight(Progress(times, stream_sample_rate_))
        BY <1>1, <4>1, <4>2, ProgressIsRight
      <4> QED BY <3>2, <4>3, Zenon
    <3> QED BY <3>1, <3>2
  <2>5. VolumeRight(level)
    <3> HIDE DEF volume
    <3> QED BY <1>1, <2>3, VolumeSet
  <2> HIDE DEF volume, progress, level
  <2>6. /\ DOMAIN t1 = ToldFields /\ t1["volume"] = level /\ t1["crypto"] = told["crypto"]
    BY <1>1, ToldChanged DEF ToldFields
  <2> HIDE DEF t1
  <2>7. /\ DOMAIN told' = ToldFields /\ told'["progress"] = progress
        /\ told'["volume"] = level /\ told'["crypto"] = told["crypto"]
    BY <2>2, <2>6, ToldChanged DEF ToldFields
  <2>8. current_volume_db_' = level
    BY <1>1, <2>2 DEF level
  <2> QED BY <1>1, <2>1, <2>4, <2>5, <2>7, <2>8
          DEF ReportInv, KeysTold, streamVars, ProgressRight, VolumeRight
<1>11. CASE HandleParameterPlist(r)
  <2> DEFINE volume == parse_binary_plist_volume(r.content)
             level == set_current_volume(volume, told["volume"])
  <2>1. UNCHANGED streamVars
    BY <1>11 DEF HandleParameterPlist, streamVars
  <2>2. /\ current_volume_db_' = set_current_volume(volume, current_volume_db_)
        /\ told' = [told EXCEPT !["volume"] = level]
    BY <1>11 DEF HandleParameterPlist
  <2>3. VolumeRight(level)
    <3>1. volume = <<>> \/ \E n \in Int : volume = <<n>>
      BY PlistVolume
    <3> HIDE DEF volume
    <3> QED BY <1>1, <3>1, VolumeSet
  <2>4. current_volume_db_' = level
    BY <1>1, <2>2
  <2> HIDE DEF level
  <2>5. /\ DOMAIN told' = ToldFields /\ told'["progress"] = told["progress"]
        /\ told'["volume"] = level /\ told'["crypto"] = told["crypto"]
    BY <1>1, <2>2, ToldChanged DEF ToldFields
  <2> QED BY <1>1, <2>1, <2>3, <2>4, <2>5
          DEF ReportInv, KeysTold, streamVars, ProgressRight, VolumeRight
<1>12. CASE HandleParameterMedia(r)
  <2>1. \/ told' = told
        \/ told' = [told EXCEPT !["metadata"] = told["metadata"] + 1]
        \/ told' = [told EXCEPT !["cover_art"] = told["cover_art"] + 1]
    BY <1>12, Zenon DEF HandleParameterMedia
  <2>2. current_volume_db_' = current_volume_db_ /\ UNCHANGED streamVars
    BY <1>12 DEF HandleParameterMedia, streamVars
  <2>3. Elsewhere
    BY <1>1, <1>2, <2>1, <2>2, ElsewhereTold, NothingTold
  <2> QED BY <1>3, <2>2, <2>3
<1>13. CASE HandleOther(r)
  <2>1. \/ told' = told \/ TellError
        \/ told' = [told EXCEPT !["paused"] = told["paused"] + 1]
    BY <1>13 DEF HandleOther
  <2>2. current_volume_db_' = current_volume_db_ /\ UNCHANGED streamVars
    BY <1>13 DEF HandleOther, streamVars
  <2>3. Elsewhere
    BY <1>1, <1>2, <2>1, <2>2, ElsewhereTold, NothingTold, ErrorTold
  <2> QED BY <1>3, <2>2, <2>3
<1> QED BY <1>4, <1>5, <1>6, <1>7, <1>8, <1>9, <1>10, <1>11, <1>12, <1>13 DEF handle

-----------------------------------------------------------------------------
(* The inductive invariant *)

IInv == FramingTypeOK /\ StreamInv /\ OrderInv /\ HandshakeInv /\ ReportInv

LEMMA InitIInv ==
    ASSUME Init
    PROVE IInv
<1>1. /\ sent = <<>> /\ stream = <<>> /\ ends = <<>> /\ handled = <<>>
      /\ from = 0 /\ to = 0 /\ pc = "recv"
  BY DEF Init, FramingInit
<1>2. FramingTypeOK
  BY <1>1 DEF FramingTypeOK
<1>3. StreamInv /\ OrderInv
  BY <1>1 DEF StreamInv, OrderInv, End
<1>4. FpSetups = {} /\ FpHandshakes = {}
  BY <1>1 DEF FpSetups, FpHandshakes
<1>5. last_fp_setup_mode_ = 0 /\ last_fp_setup_key_message_ = "none"
  BY DEF Init, ControlInit
<1>6. HandshakeInv
  BY <1>4, <1>5, Zenon DEF HandshakeInv
<1>7. /\ announced_stream_ = Nothing /\ stream_sample_rate_ = 44100
      /\ current_volume_db_ = initial_volume_db
      /\ DOMAIN told = ToldFields /\ told["progress"] = Nothing
      /\ told["volume"] = initial_volume_db
  BY DEF Init, ControlInit, ToldFields
<1>8. ReportInv
  BY <1>7 DEF ReportInv, VolumeRight
<1> QED BY <1>2, <1>3, <1>6, <1>8 DEF IInv

(* A step that handles no request leaves the control session alone. *)
LEMMA ControlKept ==
    ASSUME HandshakeInv, ReportInv, UNCHANGED controlVars, handled' = handled
    PROVE HandshakeInv' /\ ReportInv'
<1>1. FpSetups' = FpSetups /\ FpHandshakes' = FpHandshakes
  BY DEF FpSetups, FpHandshakes
<1>2. HandshakeInv'
  BY <1>1 DEF HandshakeInv, controlVars
<1>3. ReportInv'
  BY DEF ReportInv, controlVars, ProgressRight, VolumeRight
<1> QED BY <1>2, <1>3

(* Handling a request. *)
LEMMA RequestReports ==
    ASSUME FramingTypeOK, ReportInv, HandleRequest
    PROVE ReportInv' /\ KeysTold
<1>1. Parses /\ handle(Parsed)
  BY DEF HandleRequest, Take
<1>2. Parsed.content \in {r.content : r \in Requests} \cup {NoContent}
  BY <1>1, ParsedTyped DEF ParsedRequests
<1>3. Contents(Parsed.content)
  <2>1. Contents(NoContent)
    BY DEF Contents, NoContent
  <2> QED BY <1>2, <2>1, ContentsAssumption
<1> QED BY <1>1, <1>3, HandlersReport

LEMMA NextIInv ==
    ASSUME IInv, [Next]_vars
    PROVE IInv'
<1>1. FramingTypeOK /\ StreamInv /\ OrderInv /\ HandshakeInv /\ ReportInv
  BY DEF IInv
<1>2. CASE HandleRequest
  <2>1. FramingTypeOK' /\ StreamInv' /\ OrderInv'
    BY <1>1, <1>2, TakeFraming DEF HandleRequest
  <2>2. HandshakeInv'
    BY <1>1, <1>2, TakeHandshake DEF HandleRequest
  <2>3. ReportInv'
    BY <1>1, <1>2, RequestReports
  <2> QED BY <2>1, <2>2, <2>3 DEF IInv
<1>3. CASE SendRequest
  <2>1. FramingTypeOK' /\ StreamInv' /\ OrderInv'
    BY <1>1, <1>3, SendFraming DEF SendRequest
  <2>2. HandshakeInv' /\ ReportInv'
    BY <1>1, <1>3, ControlKept DEF SendRequest, Send
  <2> QED BY <2>1, <2>2 DEF IInv
<1>4. CASE ReceiveSome
  <2>1. FramingTypeOK' /\ StreamInv' /\ OrderInv'
    BY <1>1, <1>4, ReceiveFraming DEF ReceiveSome
  <2>2. HandshakeInv' /\ ReportInv'
    BY <1>1, <1>4, ControlKept DEF ReceiveSome, Receive
  <2> QED BY <2>1, <2>2 DEF IInv
<1>5. CASE WaitForMore
  <2>1. FramingTypeOK' /\ StreamInv' /\ OrderInv'
    BY <1>1, <1>5, WaitFraming DEF WaitForMore
  <2>2. HandshakeInv' /\ ReportInv'
    BY <1>1, <1>5, ControlKept DEF WaitForMore, Wait
  <2> QED BY <2>1, <2>2 DEF IInv
<1>6. CASE Leave
  <2>1. FramingTypeOK' /\ StreamInv' /\ OrderInv'
    BY <1>1, <1>6, EndsFraming DEF Leave
  <2>2. HandshakeInv' /\ ReportInv'
    BY <1>1, <1>6, ControlKept DEF Leave, ConnectionEnds
  <2> QED BY <2>1, <2>2 DEF IInv
<1>7. CASE UNCHANGED vars
  <2>1. UNCHANGED framingVars /\ UNCHANGED controlVars
    BY <1>7 DEF vars
  <2>2. UNCHANGED <<sent, stream, ends>> /\ UNCHANGED <<from, to, pc, handled>>
    BY <2>1 DEF framingVars
  <2>3. FramingTypeOK'
    BY <1>1, <2>2 DEF FramingTypeOK
  <2>4. StreamInv' /\ (Faithful' = Faithful) /\ \A n : End(n)' = End(n)
    BY <1>1, <2>2, StreamKept
  <2>5. OrderInv'
    BY <1>1, <2>2, <2>4 DEF OrderInv
  <2>6. HandshakeInv' /\ ReportInv'
    BY <1>1, <2>1, <2>2, ControlKept
  <2> QED BY <2>3, <2>4, <2>5, <2>6 DEF IInv
<1> QED BY <1>2, <1>3, <1>4, <1>5, <1>6, <1>7 DEF Next

(* The cells of the stream lie where the requests put them, the requests    *)
(* handled are the first of those sent when the sender keeps to the         *)
(* protocol, fp-setup's mode and message are those accepted last, and what  *)
(* the host was told is right, in every state of a connection.              *)
THEOREM Inductive == Spec => []IInv
<1>1. Init => IInv
  BY InitIInv
<1>2. IInv /\ [Next]_vars => IInv'
  BY NextIInv
<1> QED BY <1>1, <1>2, PTL DEF Spec

-----------------------------------------------------------------------------
(* The properties *)

(* However recv cuts the requests of a sender that keeps to the protocol,   *)
(* handle_client hands them to the control session one by one, whole and in *)
(* order, and does not wait in recv for more while one that has arrived is  *)
(* unhandled.                                                               *)
THEOREM RequestsAreServedInOrder == Spec => []ServedInOrder
<1>1. ASSUME IInv
      PROVE ServedInOrder
  <2> SUFFICES ASSUME Faithful
               PROVE /\ handled = SubSeq(sent, 1, Len(handled))
                     /\ from = IF handled = <<>> THEN 0 ELSE ends[Len(handled)]
                     /\ pc = "recv" => \A n \in DOMAIN sent : ends[n] <= to
                                                           => n <= Len(handled)
    BY DEF ServedInOrder
  <2>1. /\ Len(handled) <= Len(sent)
        /\ \A n \in 1..Len(handled) : handled[n] = sent[n]
        /\ from = End(Len(handled))
        /\ pc = "recv" => \A n \in 1..Len(sent) : ends[n] <= to => n <= Len(handled)
    BY <1>1 DEF IInv, OrderInv
  <2>2. sent \in Seq(Requests) /\ handled \in Seq(ParsedRequests)
    BY <1>1 DEF IInv, FramingTypeOK
  <2>3. handled = SubSeq(sent, 1, Len(handled))
    <3>1. PICK k \in Nat : k = Len(handled)
      BY <2>2
    <3>2. handled = [n \in 1..k |-> handled[n]]
      BY <2>2, <3>1
    <3>3. SubSeq(sent, 1, k) = [n \in 1..k |-> sent[n]]
      <4>1. /\ SubSeq(sent, 1, k) \in Seq(Requests) /\ Len(SubSeq(sent, 1, k)) = k
            /\ \A n \in 1..k : SubSeq(sent, 1, k)[n] = sent[n]
        BY <2>1, <2>2, <3>1
      <4>2. SubSeq(sent, 1, k) = [n \in 1..k |-> SubSeq(sent, 1, k)[n]]
        BY <4>1
      <4> QED BY <4>1, <4>2
    <3> QED BY <2>1, <3>1, <3>2, <3>3
  <2>4. (handled = <<>>) <=> (Len(handled) = 0)
    BY <2>2
  <2>5. DOMAIN sent = 1..Len(sent)
    BY <2>2
  <2> QED BY <2>1, <2>3, <2>4, <2>5 DEF End
<1> QED BY <1>1, Inductive, PTL

(* Whatever requests came before, the stream announced keeps no port of an  *)
(* earlier SETUP, RTP times are divided by a rate that is not 0, positions  *)
(* do not pass durations when the times are in order, and the volume that   *)
(* GET_PARAMETER answers is the one the host was told last, in range.       *)
THEOREM ReportsAreRight == Spec => []ReportsRight
<1>1. ASSUME IInv
      PROVE ReportsRight
  BY <1>1 DEF IInv, ReportInv, ReportsRight, ProgressRight, VolumeRight
<1> QED BY <1>1, Inductive, PTL

(* The keys of an ANNOUNCE or a SETUP are handed on with the mode and the   *)
(* key message of the fp-setup requests accepted last on this connection.   *)
THEOREM KeysComeWithHandshake == Spec => KeysUseHandshake
<1> DEFINE A == told'.crypto # told.crypto =>
                   told'.crypto = CryptoInfo(AcceptedMode, AcceptedMessage)
<1>1. ASSUME IInv, [Next]_vars
      PROVE [A]_vars
  <2>1. FramingTypeOK /\ HandshakeInv /\ ReportInv
    BY <1>1 DEF IInv
  <2>2. CASE HandleRequest
    <3>1. KeysTold
      BY <2>1, <2>2, RequestReports
    <3>2. last_fp_setup_mode_ = AcceptedMode /\ last_fp_setup_key_message_ = AcceptedMessage
      BY <2>1, KeptIsAccepted
    <3> QED BY <3>1, <3>2, Zenon DEF KeysTold
  <2>3. CASE ~HandleRequest
    <3>1. told' = told
      BY <1>1, <2>3 DEF Next, SendRequest, ReceiveSome, WaitForMore, Leave, vars, controlVars
    <3> QED BY <3>1
  <2> QED BY <2>2, <2>3
<1> QED BY <1>1, Inductive, PTL DEF Spec, KeysUseHandshake
=============================================================================
