----------------------------- MODULE HttpParser -----------------------------
(***************************************************************************)
(* The incremental HTTP parser of src/src/api.c: bytes of pipelined        *)
(* requests arrive in pieces of any size, the front-end appends them to    *)
(* the connection's buffer and tries to take one complete request from its *)
(* head (api_http_parser_try, api_chunked_decode).                         *)
(*                                                                         *)
(* A wire is a sequence of symbols: "r" and "n" are CR and LF, a request   *)
(* line, a header line or a chunk size is one symbol, a body is of any     *)
(* symbols.  Sizes count symbols.                                          *)
(***************************************************************************)
EXTENDS Integers, Sequences, FiniteSetsExt

CONSTANTS
    Messages,    \* what a client may send: records of a wire, the request it
                 \* stands for and the status it is refused with, 0 if it is not
    Count,       \* bound: messages a client pipelines
    MaxRequest,  \* FG_API_MAX_REQUEST_BYTES
    MaxHeader    \* FG_API_MAX_HEADER_BYTES

\* What the constants of every instance satisfy.
HttpParserAssumption == {Count, MaxRequest, MaxHeader} \subseteq Nat \ {0}

VARIABLES
    sent,    \* the client's messages
    wire,    \* their bytes that have not been received
    buf,     \* parser->input
    busy,    \* a response is outstanding (generating, response_complete)
    served,  \* requests dispatched, oldest first
    status,  \* HTTP status of the refusal that ends the connection, 0 for none
    closing, \* the connection closes after the response
    eof      \* conn->peer_closed

vars == <<sent, wire, buf, busy, served, status, closing, eof>>

CRLF == <<"r", "n">>
\* What a chunk size and a Content-Length line say.
Sizes == [s \in {"0", "1", "2", "99"} |->
             CASE s = "0" -> 0 [] s = "1" -> 1 [] s = "2" -> 2 [] OTHER -> 99]
Lengths == [s \in {"len0", "len2", "len9"} |-> CASE s = "len0" -> 0 [] s = "len2" -> 2 [] OTHER -> 9]

\* Where m first starts in s at or after position i, 0 if nowhere.
FindFrom(s, m, i) ==
    LET at == {k \in i..(Len(s) - Len(m) + 1) : SubSeq(s, k, k + Len(m) - 1) = m}
    IN  IF at = {} THEN 0 ELSE Min(at)
Slice(s, i, j) == SubSeq(s, i, Min({j, Len(s)}))
-----------------------------------------------------------------------------
(* The parser.  Its answer is incomplete, failed with a status, or complete *)
(* with a request and the number of symbols it occupies.                    *)

Incomplete == [state |-> "incomplete", status |-> 0, req |-> <<>>, keep |-> TRUE, consumed |-> 0]
Refuse(code) == [Incomplete EXCEPT !.state = "failed", !.status = code]
Complete(req, keep, n) ==
    [state |-> "complete", status |-> 0, req |-> req, keep |-> keep, consumed |-> n]

\* The end of the trailer section that starts at i: a blank line at once, or
\* after some trailers; 0 until it is there.
TrailerEnd(s, i) ==
    IF i + 1 <= Len(s) /\ SubSeq(s, i, i + 1) = CRLF THEN i + 2
    ELSE LET end == FindFrom(s, CRLF \o CRLF, i) IN IF end = 0 THEN 0 ELSE end + 4

\* All of a chunk's data, and the CRLF after it, is buffered.
ChunkArrived(s, i, size) == Len(s) >= i + size + 1

\* api_chunked_decode from position i, with what is decoded so far.
RECURSIVE ChunkedDecode(_, _, _, _)
ChunkedDecode(req, keep, s, i) ==
    LET eol  == FindFrom(s, CRLF, i)
        size == IF eol > i /\ s[i] \in DOMAIN Sizes THEN Sizes[s[i]] ELSE -1
        body == eol + 2
        end  == TrailerEnd(s, body)
    IN  CASE eol = 0 -> Incomplete
          [] eol > 0 /\ size = -1 -> Refuse(400)
          [] eol > 0 /\ size > MaxRequest -> Refuse(413)
          [] eol > 0 /\ size = 0 ->
               IF end = 0 THEN Incomplete ELSE Complete(req, keep, end - 1)
          [] OTHER ->
               IF ~ChunkArrived(s, body, size) THEN Incomplete
               ELSE IF Slice(s, body + size, body + size + 1) # CRLF THEN Refuse(400)
               ELSE ChunkedDecode([req EXCEPT !.body = @ \o Slice(s, body, body + size - 1)],
                                  keep, s, body + size + 2)

\* The request line and headers of the symbols before `end': refused in the
\* order of the lines, then for what the lines say together.
HeaderStatus(s, end) ==
    LET L == {s[k] : k \in {k \in 2..(end - 1) : s[k] \notin {"r", "n"}}}
        bad(c) == CASE c = "junk" -> 400 [] c = "lenx" -> 400 [] c = "gzip" -> 400
                    [] c \in DOMAIN Lengths -> IF Lengths[c] > MaxRequest THEN 413 ELSE 0
                    [] OTHER -> 0
        wrong == {k \in 2..(end - 1) : bad(s[k]) # 0}
        post  == s[1] = "POST"
        sized == \E c \in DOMAIN Lengths : c \in L
    IN  CASE s[1] \notin {"GET", "POST"} -> 400
          [] s[1] \in {"GET", "POST"} /\ wrong # {} -> bad(s[Min(wrong)])
          [] OTHER -> IF "chunked" \in L /\ sized THEN 400
                      ELSE IF post /\ ~sized /\ "chunked" \notin L THEN 411
                      ELSE IF post /\ "json" \notin L THEN 415 ELSE 0

\* Content-Length: the last one counts.
ContentLength(s, end) ==
    LET at == {k \in 2..(end - 1) : s[k] \in DOMAIN Lengths}
    IN  IF at = {} THEN 0 ELSE Lengths[s[Max(at)]]

\* What the cap on requests is compared with.
TotalSize(s, header, length) == header + length

\* Mutant: a request is complete once its headers are.
BodyArrivedEarly(s, n) == TRUE

BodyArrived(s, n) == Len(s) >= n

\* api_http_parser_try.
TryBody(s, header, length, keep) ==
    IF TotalSize(s, header, length) > MaxRequest THEN Refuse(413)
    ELSE IF ~BodyArrived(s, header + length) THEN Incomplete
    ELSE Complete([method |-> s[1], body |-> Slice(s, header + 1, header + length)], keep,
                  header + length)
TryHeader(s, end, code) ==
    LET Has(c) == \E k \in 2..(end - 1) : s[k] = c
    IN  IF code # 0 THEN Refuse(code)
        ELSE IF Has("chunked")
             THEN ChunkedDecode([method |-> s[1], body |-> <<>>], ~Has("close"), s, end + 4)
        ELSE TryBody(s, end + 3, ContentLength(s, end), ~Has("close"))
TryFrom(s, end) ==
    IF Len(s) < 4 THEN Incomplete
    ELSE IF end = 0 THEN IF Len(s) >= MaxRequest \/ Len(s) >= MaxHeader THEN Refuse(413) ELSE Incomplete
    ELSE TryHeader(s, end, HeaderStatus(s, end))
Try(s) == TryFrom(s, FindFrom(s, CRLF \o CRLF, 1))
-----------------------------------------------------------------------------
RECURSIVE Wires(_)
Wires(ms) == IF ms = <<>> THEN <<>> ELSE Head(ms).wire \o Wires(Tail(ms))

Init ==
    /\ sent \in UNION {[1..n -> Messages] : n \in 1..Count}
    /\ wire = Wires(sent)
    /\ buf = <<>> /\ served = <<>>
    /\ busy = FALSE /\ closing = FALSE /\ eof = FALSE
    /\ status = 0

\* api_http_parser_consume.
Consume(s, n) == SubSeq(s, n + 1, Len(s))

\* api_frontend_read_available: n symbols have arrived, the buffer takes what it
\* has room for; then, if no response is outstanding, one request is tried.
\* Nothing left to read is the end of the client's stream.
Read(n) ==
    /\ status = 0 /\ ~eof
    /\ n > 0 \/ wire = <<>>
    /\ \E took \in {Min({n, MaxRequest - Len(buf)})} :
       \E b \in {buf \o SubSeq(wire, 1, took)} :
       \E t \in {IF busy THEN Incomplete ELSE Try(b)} :
           /\ wire' = SubSeq(wire, took + 1, Len(wire))
           /\ eof' = (n = 0)
           /\ buf' = IF t.state = "complete" THEN Consume(b, t.consumed) ELSE b
           /\ served' = IF t.state = "complete" THEN Append(served, t.req) ELSE served
           /\ busy' = (busy \/ t.state = "complete")
           /\ status' = t.status
           /\ closing' = (closing \/ n = 0 \/ ~t.keep)
    /\ UNCHANGED sent

\* The response is flushed: the connection is reset for the next request, or
\* closed.
Answered ==
    /\ busy
    /\ busy' = FALSE
    /\ eof' = (eof \/ closing)
    /\ UNCHANGED <<sent, wire, buf, served, status, closing>>

Over == ~busy /\ (eof \/ status # 0) /\ UNCHANGED vars

Next == (\E n \in 0..Len(wire) : Read(n)) \/ Answered \/ Over

Spec == Init /\ [][Next]_vars
-----------------------------------------------------------------------------
(* Properties. *)

\* The buffer stays within the request cap, and only an open connection waits.
TypeOK ==
    /\ Len(buf) <= MaxRequest
    /\ Len(served) <= Len(sent) /\ status \in {0, 400, 411, 413, 415}
    /\ {busy, closing, eof} \subseteq BOOLEAN

\* However the bytes are cut and pipelined, the requests dispatched are the
\* client's messages in order with their exact bodies (api_http_parser_try,
\* api_chunked_decode, api_http_parser_consume).
ServedExact ==
    \A i \in 1..Len(served) : sent[i].status = 0 /\ served[i] = sent[i].req

\* A refusal carries the status of the message it refuses, which is the first
\* the server has not served, and no valid message is refused.
RefusedExact ==
    status # 0 => /\ Len(served) < Len(sent)
                  /\ sent[Len(served) + 1].status = status

\* docs/API_CONCURRENCY.md: headers are capped (FG_API_MAX_HEADER_BYTES).
HeaderCapped ==
    \A i \in 1..Len(served) : FindFrom(sent[i].wire, CRLF \o CRLF, 1) + 3 <= MaxHeader

\* docs/API_CONCURRENCY.md: requests are capped (FG_API_MAX_REQUEST_BYTES): one
\* that fills the buffer is refused, never left waiting for room.
FullIsRefused == Len(buf) = MaxRequest /\ ~busy /\ status = 0 => Try(buf).state # "incomplete"

\* What is dispatched or refused is what was sent, in order, however it is cut.
ParserExact ==
    /\ TypeOK
    /\ ServedExact
    /\ RefusedExact
=============================================================================
