------------------------------- MODULE HttpHead -------------------------------
(***************************************************************************)
(* http_parse_head of http_client.c: an automaton that is fed the bytes of *)
(* the receive buffer as they come and keeps its state, with offsets into  *)
(* the buffer, in the head cache between two calls.                        *)
(*                                                                         *)
(* Of a head the automaton tells apart only spaces, colons, CR and LF; a   *)
(* run of other bytes is one element of the sequence and has no length, so *)
(* the status code, every key and every value fit the 1024 bytes of kbuf   *)
(* and vbuf into which the code copies them.  The version and the reason   *)
(* phrase are recorded by the code and never read: left out.               *)
(***************************************************************************)
EXTENDS Naturals, Sequences, SequencesExt

SP == "SP"
COLON == "COLON"
CR == "CR"
LF == "LF"

HeadStatus == {"VSR_START", "VSR_VER", "VSR_STAT", "VSR_REAS", "LINE_DONE", "LINE_HALF",
               "KEY_DONE", "HEAD_HALF", "HEAD_DONE"}

\* A piece of the buffer: an offset and a length
NoSegment == [off |-> 0, len |-> 0]
Bytes(b, seg) == SubSeq(b, seg.off + 1, seg.off + seg.len)

\* head_cache_s; content_len, gzip_flag and chunk_flag are set at the end
NewHead == [status |-> "VSR_START", start |-> 0, code |-> NoSegment, kv_queue |-> <<>>,
            content_len |-> 0, gzip_flag |-> FALSE, chunk_flag |-> FALSE]

\* Mutant of Value: the value of a field whose colon came in an earlier read is lost
ValueOfThisRead(q, kv, seg) ==
    IF kv THEN [q EXCEPT ![Len(q)].value = seg] ELSE q

\* case '\r' in KEY_DONE: kv, or the last of kv_queue when kv is NULL since this call began
Value(q, kv, seg) == [q EXCEPT ![Len(q)].value = seg]

\* A line end where none may be
Refused(status, c) ==
    \/ c = CR /\ status \notin {"KEY_DONE", "LINE_DONE", "VSR_STAT"}
    \/ c = LF /\ status \notin {"LINE_HALF", "VSR_REAS", "HEAD_HALF"}

\* The states of the loop: the head cache, b->pos, whether kv is set, and what the call will return.
\* b->pos moves on, and the head cache becomes hc
Moved(s, hc) == [s EXCEPT !.pos = @ + 1, !.hc = hc]

\* The head cache in another status, and with a new start behind the current byte
Go(s, status) == [s.hc EXCEPT !.status = status]
New(s, status) == [s.hc EXCEPT !.status = status, !.start = s.pos + 1]

\* The bytes since hc->start
Piece(s) == [off |-> s.hc.start, len |-> s.pos - s.hc.start]

\* One byte
HeadByte(s, c) ==
    LET In(status) == s.hc.status = status
    IN  CASE c = SP /\ In("VSR_START") -> Moved(s, New(s, "VSR_VER"))
          [] c = SP /\ In("VSR_VER")   -> Moved(s, [New(s, "VSR_STAT") EXCEPT !.code = Piece(s)])
          [] c = SP /\ In("KEY_DONE")  -> Moved(s, New(s, "KEY_DONE"))
          [] c = COLON /\ In("LINE_DONE") ->
               [Moved(s, [New(s, "KEY_DONE") EXCEPT
                           !.kv_queue = Append(@, [key |-> Piece(s), value |-> NoSegment])])
                EXCEPT !.kv = TRUE]
          [] c = CR /\ In("KEY_DONE")  ->
               [Moved(s, [Go(s, "LINE_HALF") EXCEPT !.kv_queue = Value(@, s.kv, Piece(s))])
                EXCEPT !.kv = FALSE]
          [] c = CR /\ In("LINE_DONE") -> Moved(s, Go(s, "HEAD_HALF"))
          [] c = CR /\ In("VSR_STAT")  -> Moved(s, New(s, "VSR_REAS"))
          [] c = LF /\ In("LINE_HALF") -> Moved(s, New(s, "LINE_DONE"))
          [] c = LF /\ In("VSR_REAS")  -> Moved(s, New(s, "LINE_DONE"))
          [] c = LF /\ In("HEAD_HALF") -> [Moved(s, Go(s, "HEAD_DONE")) EXCEPT !.rc = "parsed"]
          [] Refused(s.hc.status, c)   -> [Moved(s, s.hc) EXCEPT !.rc = "error"]
          [] OTHER -> Moved(s, s.hc)

\* The body of the loop, until the call returns
HeadStep(s, c) == IF s.rc = "more" THEN HeadByte(s, c) ELSE s

\* atoi of a value
Atoi(number, value) ==
    IF value # <<>> /\ value[1] \in DOMAIN number THEN number[value[1]] ELSE 0

\* parsed: the fields the client looks at, copied to kbuf and vbuf (which they fit) and compared; of two
\* lengths the later one counts
Fields(b, hc, number) ==
    LET q == hc.kv_queue
        Has(key, value) == \E i \in DOMAIN q : Bytes(b, q[i].key) = <<key>> /\ Bytes(b, q[i].value) = <<value>>
        Lengths == {i \in DOMAIN q : Bytes(b, q[i].key) = <<"Content-Length">>}
    IN  [hc EXCEPT !.content_len = IF Lengths = {} THEN @ ELSE Atoi(number, Bytes(b, q[Max(Lengths)].value)),
                   !.chunk_flag = @ \/ Has("Transfer-Encoding", "chunked"),
                   !.gzip_flag = @ \/ Has("Content-Encoding", "gzip")]

\* parsed: the code is copied to kbuf; only a page with status 200 is looked at further
Checked(b, s, number) ==
    IF s.rc # "parsed" THEN s
    ELSE IF Bytes(b, s.hc.code) = <<"200">> THEN [s EXCEPT !.hc = Fields(b, @, number)]
    ELSE [s EXCEPT !.rc = "error"]

\* The loop from state s on: its state after the first i bytes of b
HeadRun(b, s) ==
    LET run[i \in Nat] == IF i <= s.pos THEN s ELSE HeadStep(run[i - 1], b[i]) IN run

\* Mutant of http_parse_head: a head that is done already is reported again
HeadAgain(b, pos, hc, number) ==
    Checked(b, HeadRun(b, [hc |-> hc, pos |-> pos, kv |-> FALSE,
                           rc |-> IF hc.status = "HEAD_DONE" THEN "parsed" ELSE "more"])[Len(b)],
            number)

\* A call of http_parse_head: the bytes of b from pos on
http_parse_head(b, pos, hc, number) ==
    Checked(b, HeadRun(b, [hc |-> hc, pos |-> pos, kv |-> FALSE, rc |-> "more"])[Len(b)], number)
===============================================================================
