------------------------------- MODULE HttpHtml -------------------------------
(***************************************************************************)
(* http_parse_html, inflate_gzip and the growing buffers of http_client.c: *)
(* the body of a response, chunked or of a known length, as far as it has  *)
(* arrived.  b is what was received, without the head's abstraction: every *)
(* element is a byte.  uint32_t wraps at Word (2^32 in the code).          *)
(***************************************************************************)
EXTENDS Naturals, Sequences, SequencesExt, HttpHead

CONSTANTS Word, BASE_RANGE, Expansion    \* Expansion: plain bytes that a compressed byte yields

ASSUME HtmlAssumption == Word \in Nat /\ Word >= 16 /\ BASE_RANGE \in Nat \ {0} /\ Expansion \in Nat

Lower == <<"0", "1", "2", "3", "4", "5", "6", "7", "8", "9", "a", "b", "c", "d", "e", "f">>
Upper == <<"0", "1", "2", "3", "4", "5", "6", "7", "8", "9", "A", "B", "C", "D", "E", "F">>

\* The value of a digit; another byte is logged and counts as 0
Digit(c) ==
    IF \E i \in 1..16 : c \in {Lower[i], Upper[i]}
      THEN (CHOOSE i \in 1..16 : c \in {Lower[i], Upper[i]}) - 1 ELSE 0

NULL_BUF == [text |-> <<>>, end |-> 0, nul |-> FALSE]

\* html_cache_s: done is mc->chunks # NULL
NewHtml == [status |-> "LEN_DONE", chunk_sum |-> 0, chunk_queue |-> <<>>, chunks |-> <<>>,
            done |-> FALSE, html |-> NULL_BUF]

\* Mutant of SkipChunk: the CRLF after the data is not skipped
SkipData(chunk_len) == chunk_len % Word

\* b->pos += chunk_len + 2, in 32 bits
SkipChunk(chunk_len) == (chunk_len + 2) % Word

\* mc in another status, and with one more chunk at the end of chunk_queue
In(mc, status) == [mc EXCEPT !.status = status]
Queued(mc, seg) == [mc EXCEPT !.chunk_queue = Append(@, seg), !.chunk_sum = (@ + seg.len) % Word]

\* The end of a size line: the last chunk, or a chunk that may not have arrived yet
SizeLine(s, pos) ==
    IF s.chunk_len = 0
      THEN [s EXCEPT !.pos = pos, !.mc = In(@, "LEN_DONE"), !.rc = "done"]
      ELSE [s EXCEPT !.pos = pos + SkipChunk(s.chunk_len), !.chunk_len = 0,
                     !.mc = Queued(In(@, "LEN_DONE"), [off |-> pos, len |-> s.chunk_len])]

\* The byte c at offset s.pos
ChunkByte(s, c) ==
    LET Skip == [s EXCEPT !.pos = @ + 1]
    IN  CASE c \in {SP, "TAB"} -> Skip
          [] c = CR -> IF s.mc.status = "LEN_DONE" THEN [Skip EXCEPT !.mc = In(@, "LEN_HALF")]
                                                   ELSE [Skip EXCEPT !.rc = "error"]
          [] c = LF -> IF s.mc.status = "LEN_HALF" THEN SizeLine(s, s.pos + 1) ELSE Skip
          [] OTHER -> [Skip EXCEPT !.chunk_len = (@ * 16 + Digit(c)) % Word]

\* The byte at offset i, unless it belongs to a chunk or the call has returned
ChunkStep(b, s, i) == IF s.rc = "more" /\ s.pos <= i THEN ChunkByte(s, b[i + 1]) ELSE s

\* chunk_len == 0: the data of all chunks in one buffer
Collected(b, s) ==
    IF s.rc # "done" THEN s
    ELSE [s EXCEPT !.mc = [@ EXCEPT !.done = TRUE,
            !.chunks = FlattenSeq([k \in DOMAIN s.mc.chunk_queue |->
                                     Bytes(b, s.mc.chunk_queue[k])])]]

\* The loops over a chunked body from state s on: their state after the first i bytes of b
ChunkRun(b, s) ==
    LET run[i \in Nat] == IF i <= s.pos THEN s ELSE ChunkStep(b, run[i - 1], i - 1) IN run

\* chunk_len is a local variable: a call begins with 0
ParseChunks(b, pos, mc) ==
    Collected(b, ChunkRun(b, [mc |-> mc, pos |-> pos, chunk_len |-> 0, rc |-> "more"])[Len(b)])

\* Mutant of ParseLength: a byte more than the page is waited for
ParseLengthLate(b, pos, mc, content_len) ==
    [mc |-> IF content_len # 0 /\ Len(b) > pos + content_len
              THEN [mc EXCEPT !.done = TRUE, !.chunk_sum = content_len,
                              !.chunks = SubSeq(b, pos + 1, pos + content_len)]
              ELSE mc,
     pos |-> pos, chunk_len |-> 0, rc |-> "more"]

\* A body of known length; without one nothing ever completes it
ParseLength(b, pos, mc, content_len) ==
    [mc |-> IF content_len # 0 /\ Len(b) >= pos + content_len
              THEN [mc EXCEPT !.done = TRUE, !.chunk_sum = content_len,
                              !.chunks = SubSeq(b, pos + 1, pos + content_len)]
              ELSE mc,
     pos |-> pos, chunk_len |-> 0, rc |-> "more"]

-----------------------------------------------------------------------------
resize_temp_buf(range) == IF range <= 32 * BASE_RANGE THEN 2 * range ELSE range + BASE_RANGE

\* Mutant of Full: a buffer that is exactly full is not resized
Overfull(end, n) == n > end

\* No room is left behind n bytes
Full(end, n) == n >= end

\* The size of a buffer that is resized whenever it is full, until n bytes leave room.  A resize adds
\* a byte at least, so n + 1 are enough.
Grown(end, n) ==
    LET size[k \in Nat] ==
          IF k = 0 THEN end
          ELSE LET e == size[k - 1] IN IF Full(e, n) THEN resize_temp_buf(e) ELSE e
    IN  size[n + 1]

\* The inflate library: a compressed byte stands for Expansion plain ones.  An input that ends too
\* early is no error to inflate_gzip; one that is not compressed is.
Inflated(chunks) ==
    FlattenSeq([k \in DOMAIN chunks |-> [j \in 1..Expansion |-> chunks[k]]])
Compressed(chunks) == \A k \in DOMAIN chunks : chunks[k] # "bad"

\* The plain text in mc->html: inflated, and then followed by a NUL, or copied as it is
MakeHtml(mc, gzip_flag) ==
    IF gzip_flag
      THEN LET text == Inflated(mc.chunks)
           IN  [text |-> text, end |-> Grown(BASE_RANGE, Len(text)), nul |-> TRUE]
      ELSE [text |-> mc.chunks, end |-> mc.chunk_sum, nul |-> FALSE]

\* mc->chunks is set: the body becomes the page, unless it does not inflate
Paged(s, gzip_flag) ==
    IF s.rc = "error" \/ ~s.mc.done THEN s
    ELSE IF gzip_flag /\ ~Compressed(s.mc.chunks) THEN [s EXCEPT !.rc = "error"]
    ELSE [s EXCEPT !.mc.html = MakeHtml(s.mc, gzip_flag)]

\* A call of http_parse_html
http_parse_html(b, pos, mc, hc) ==
    Paged(IF hc.chunk_flag THEN ParseChunks(b, pos, mc) ELSE ParseLength(b, pos, mc, hc.content_len),
          hc.gzip_flag)
===============================================================================
