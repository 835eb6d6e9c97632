------------------------------ MODULE HttpResponse ------------------------------
(***************************************************************************)
(* A response on its way from the server to parse_html: the bytes arrive   *)
(* in pieces of any size, http_read_event_process takes what is there and  *)
(* calls http_process_response, which runs the head automaton and then the *)
(* body decoder on the same growing buffer (http_client.c).                *)
(***************************************************************************)
EXTENDS HttpHtml, FiniteSets

CONSTANTS
    Responses,      \* what servers send, see Response
    Number          \* [byte run -> Nat]: the numbers that stand in Content-Length fields

\* A response as the server means it: a body of pieces, each with the digits of its size, sent as
\* chunks or one after the other
Response == [code: STRING, fields: Seq([key: STRING, value: Seq(STRING)]), chunked: BOOLEAN,
             pieces: Seq([size: Seq(STRING), data: Seq(STRING)])]

CRLF == <<CR, LF>>
HeadOf(r) ==
    <<"HTTP/1.1", SP, r.code, SP, "OK", CR, LF>> \o
    FlattenSeq([i \in DOMAIN r.fields |->
                  <<r.fields[i].key, COLON, SP>> \o r.fields[i].value \o CRLF]) \o CRLF
ChunkOf(p) == p.size \o CRLF \o p.data \o CRLF
PieceOf(r, p) == IF r.chunked THEN ChunkOf(p) ELSE p.data
BodyOf(r) ==
    FlattenSeq([i \in DOMAIN r.pieces |-> PieceOf(r, r.pieces[i])]) \o
    (IF r.chunked THEN <<"0", CR, LF, CR, LF>> ELSE <<>>)
Stream(r) == HeadOf(r) \o BodyOf(r)

\* How many bytes of r come before piece k, and the offsets inside its size line: after its first
\* digit and before its LF
Before(r, k) ==
    Len(HeadOf(r)) + Len(FlattenSeq([i \in 1..(k - 1) |-> PieceOf(r, r.pieces[i])]))
SizeOffsets(r) ==
    IF r.chunked THEN UNION {(Before(r, k) + 1)..(Before(r, k) + Len(r.pieces[k].size) + 1) :
                               k \in DOMAIN r.pieces}
                 ELSE {}

\* What a browser would show of r
HasField(r, key, value) == [key |-> key, value |-> value] \in {r.fields[i] : i \in DOMAIN r.fields}
Content(r) == FlattenSeq([i \in DOMAIN r.pieces |-> r.pieces[i].data])
Page(r) == IF HasField(r, "Content-Encoding", <<"gzip">>) THEN Inflated(Content(r)) ELSE Content(r)

\* The number a size line stands for: after its first j bytes, and as a whole
SizeUpto(size) ==
    LET value[j \in Nat] ==
          IF j = 0 THEN 0
          ELSE IF size[j] \in {SP, "TAB"} THEN value[j - 1]
          ELSE 16 * value[j - 1] + Digit(size[j])
    IN  value
SizeIn(size) == SizeUpto(size)[Len(size)]

\* The value of a field after its last space
LastWord(value) ==
    LET spaces == {i \in DOMAIN value : value[i] = SP}
    IN  SubSeq(value, 1 + (IF spaces = {} THEN 0 ELSE Max(spaces)), Len(value))

\* A value without its leading spaces, and whether it has no others
Trimmed(value) ==
    LET spaces == {i \in DOMAIN value : \A j \in 1..i : value[j] = SP}
    IN  SubSeq(value, 1 + (IF spaces = {} THEN 0 ELSE Max(spaces)), Len(value))
OneWord(value) == \A i \in DOMAIN value : value[i] = SP => \A j \in 1..i : value[j] = SP

\* The head of r has the form of a head and says what the body is like
HeadFits(r) ==
    /\ r.code \notin {SP, COLON, CR, LF}
    /\ \A i \in DOMAIN r.fields :
         LET f == r.fields[i] IN
         /\ f.key \notin {SP, COLON, CR, LF} /\ \A j \in DOMAIN f.value : f.value[j] \notin {CR, LF}
         /\ f.key \in {"Content-Length", "Transfer-Encoding", "Content-Encoding"} =>
              f.value = LastWord(f.value)
         /\ f.key = "Content-Length" => Atoi(Number, f.value) = Len(Content(r))
    /\ r.chunked <=> HasField(r, "Transfer-Encoding", <<"chunked">>)

\* Every chunk is announced by its size in hexadecimal, and only the last one is empty
SizesFit(r) ==
    \A k \in DOMAIN r.pieces :
       LET p == r.pieces[k] IN
       /\ \A j \in DOMAIN p.size : p.size[j] \notin {CR, LF}
       /\ p.data # <<>> /\ Len(p.data) = SizeIn(p.size)

ASSUME ResponseAssumption ==
    /\ \A x \in DOMAIN Number : Number[x] \in Nat
    /\ \A r \in Responses :
         /\ r \in Response /\ HeadFits(r) /\ (r.chunked => SizesFit(r))
         /\ Len(Stream(r)) < Word

VARIABLES
    sent,           \* the response of this client's server
    b,              \* client->recv: the bytes from start to last
    end,            \* its size
    pos,            \* b->pos, as an offset
    status,         \* client->status
    head, html,     \* client->head and client->html, new ones when they are NULL
    outcome,        \* "reading", or how the client's handler was called
    split,          \* history: a read ended inside the size line of a chunk
    reset           \* history: a renegotiation set the status back

vars == <<sent, b, end, pos, status, head, html, outcome, split, reset>>

Init ==
    /\ sent \in Responses
    /\ b = <<>> /\ end = BASE_RANGE /\ pos = 0
    /\ status = "HTTP_REQ_DONE" /\ head = NewHead /\ html = NewHtml
    /\ outcome = "reading" /\ split = FALSE /\ reset = FALSE

-----------------------------------------------------------------------------
\* What http_process_response returns, given what the two parsers did
Processed(h, m) ==
    [hc |-> h.hc, mc |-> m.mc, pos |-> m.pos, failed |-> m.rc = "error",
     status |-> IF m.mc.done /\ m.rc # "error" THEN "HTTP_HTML_DONE"
                ELSE IF h.hc.status = "HEAD_DONE" /\ head.status # "HEAD_DONE" THEN "HTTP_HEAD_DONE"
                ELSE status]

\* The body, in the same call when the head is complete
ProcessBody(buf, h) ==
    Processed(h, IF h.rc = "parsed" THEN http_parse_html(buf, h.pos, html, h.hc)
                 ELSE [mc |-> html, pos |-> h.pos, rc |-> h.rc])

http_process_response(buf) ==
    ProcessBody(buf, IF status = "HTTP_REQ_DONE" THEN http_parse_head(buf, pos, head, Number)
                     ELSE [hc |-> head, pos |-> pos, rc |-> "parsed"])

\* The client after http_process_response; parse_html takes the page that is in mc->html (as a pointer,
\* without its length), or gives up the client
Respond(r, pending_eof) ==
    /\ pos' = r.pos /\ head' = r.hc /\ html' = r.mc /\ status' = r.status
    /\ outcome' = IF ~r.failed /\ r.status = "HTTP_HTML_DONE" THEN "parsed"
                  ELSE IF r.failed \/ pending_eof THEN "failed" ELSE "reading"

\* A read event: n more bytes are there, and perhaps the server has closed (rev->pending_eof)
http_read_event_process(n, pending_eof) ==
    LET last == Len(b) + n
    IN  /\ outcome = "reading" /\ last <= Len(Stream(sent))
        /\ pending_eof => last = Len(Stream(sent))
        /\ b' = SubSeq(Stream(sent), 1, last) /\ end' = Grown(end, last)
        /\ Respond(http_process_response(b'), pending_eof)
        /\ split' = (split \/ last \in SizeOffsets(sent))
        /\ UNCHANGED <<sent, reset>>

\* rev->timedout, or recv fails
ReadFails ==
    /\ outcome = "reading" /\ outcome' = "failed"
    /\ UNCHANGED <<sent, b, end, pos, status, head, html, split, reset>>

\* After a TLS renegotiation http_write_event_process runs "trans end" once more
Renegotiated ==
    /\ outcome = "reading" /\ ~reset
    /\ status' = "HTTP_REQ_DONE" /\ reset' = TRUE
    /\ UNCHANGED <<sent, b, end, pos, head, html, outcome, split>>

Next ==
    \/ \E n \in 0..(Len(Stream(sent)) - Len(b)), eof \in BOOLEAN : http_read_event_process(n, eof)
    \/ ReadFails
    \/ Renegotiated

Spec == Init /\ [][Next]_vars

-----------------------------------------------------------------------------
\* The buffer always has room for the next recv, and the offsets lie in it
TypeOK ==
    /\ sent \in Responses
    /\ Len(b) < end
    /\ status \in {"HTTP_REQ_DONE", "HTTP_HEAD_DONE", "HTTP_HTML_DONE"}
    /\ head.status \in HeadStatus /\ html.status \in {"LEN_DONE", "LEN_HALF"}
    /\ \A seg \in {head.kv_queue[i].value : i \in DOMAIN head.kv_queue} : seg.off + seg.len <= Len(b)
    /\ outcome \in {"reading", "parsed", "failed"} /\ {split, reset} \subseteq BOOLEAN

\* However a head is cut into reads, the head cache is what one read of the same bytes would have
\* left: nothing the parser needs lives only in the local variables of one call.
HeadCutAnywhere ==
    outcome = "reading" /\ status = "HTTP_REQ_DONE" =>
        head = http_parse_head(b, 0, NewHead, Number).hc

\* When the head is done each field of the response is in kv_queue, in order, under its key and with its
\* value without leading spaces, unless a space stands inside the value (see ValuesAsDescribed).
FieldsRecorded ==
    head.status = "HEAD_DONE" =>
        /\ Len(head.kv_queue) = Len(sent.fields)
        /\ \A i \in DOMAIN sent.fields :
             LET f == sent.fields[i] IN
             /\ Bytes(b, head.kv_queue[i].key) = <<f.key>>
             /\ OneWord(f.value) => Bytes(b, head.kv_queue[i].value) = Trimmed(f.value)

\* The bytes of the page in mc->html are those the server sent, unless a read ended inside the size line
\* of a chunk: the digits before the cut are then forgotten.  (gumbo_parse is given only a pointer to
\* them; whether a NUL follows is the matter of BuffersHold.)
PageExact == outcome = "parsed" /\ ~split => html.html.text = Page(sent)

\* A response that has arrived completely has been handed over: the client never waits for more
\* bytes of a page that is there, whatever the cuts outside size lines.
CompleteIsParsed ==
    /\ outcome = "reading" /\ Len(b) = Len(Stream(sent)) /\ ~split /\ ~reset
    /\ sent.code = "200"
    => ~sent.chunked /\ head.content_len = 0

\* Both buffers hold what is written to them: the receive buffer has room for the next recv, and an
\* inflated page is followed by a NUL inside its buffer, also when it fills a buffer exactly; a page
\* that came plain fills its buffer and has none.  Behind a cut in a size line a chunk has whatever size
\* the bytes there stand for.
BuffersHold ==
    /\ TypeOK
    /\ outcome = "parsed" /\ ~split =>
        IF head.gzip_flag THEN html.html.nul /\ Len(html.html.text) < html.html.end
                          ELSE Len(html.html.text) = html.html.end

\* A second pass over a finished head, after a renegotiation, never completes the page, and a read
\* changes the status only in the ways EventLoop's ParseOutcomes has.
AsEventLoopAssumes ==
    [][/\ reset /\ head.status = "HEAD_DONE" /\ status = "HTTP_REQ_DONE" =>
            status' = status /\ outcome' # "parsed"
       /\ status # status' /\ ~(reset' /\ ~reset) =>
            \/ status = "HTTP_REQ_DONE" /\ head.status # "HEAD_DONE"
            \/ status = "HTTP_HEAD_DONE" /\ status' = "HTTP_HTML_DONE"]_vars

-----------------------------------------------------------------------------
\* What the comment on chunked bodies describes is decoded: the page is the concatenation of the
\* chunks (http_parse_html).
ChunksAsDescribed == outcome = "parsed" => html.html.text = Page(sent)

\* What the comment in the case of a space in a value describes is recorded: the value without the
\* spaces at its head (http_parse_head).
ValuesAsDescribed ==
    head.status = "HEAD_DONE" =>
        \A i \in DOMAIN sent.fields :
           Bytes(b, head.kv_queue[i].value) = Trimmed(sent.fields[i].value)
===============================================================================
