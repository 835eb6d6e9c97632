------------------------------- MODULE Transport -------------------------------
(***************************************************************************)
(* The receiving side of one connection, one system call or SSL_read per   *)
(* step: unix_recv and ssl_recv (connection.c) under the receive loop of   *)
(* http_read_event_process (http_client.c), while the network delivers and *)
(* closes between any two of them.  The socket is edge-triggered: what the *)
(* loop leaves behind is reported again only if something new happens.     *)
(*                                                                         *)
(* A byte is its position in the response.  The SSL library and the kernel *)
(* are external: TLS decodes whole records of Record bytes, and may have   *)
(* to write (a renegotiation) before it can go on reading.                 *)
(***************************************************************************)
EXTENDS Integers, FiniteSetsExt

CONSTANTS Total, Record, BASE_RANGE

ASSUME TransportAssumption ==
    Total \in Nat /\ Record \in Nat \ {0} /\ BASE_RANGE \in Nat \ {0}

\* What ssl_handle_recv returns; EAGAIN is -EAGAIN
OK == 0
ERROR == -1
DONE == -4
EAGAIN == -11

VARIABLES
    tls,            \* c->recv is ssl_recv
    sent,           \* bytes the server has sent
    closed,         \* "no", "notify" (the TLS alert), "fin" or "rst"
    taken,          \* bytes read from the socket, by recv() or by the SSL library
    edge,           \* the kernel will report EPOLLIN (with EPOLLRDHUP after a FIN or RST)
    send,           \* does the library have to send?  "no"; "blocked": the socket is full; "free":
                    \* no more, and EPOLLOUT is due if it is registered; "reported"
    borrowed,       \* the write event is registered for ssl_write_handler
    pending_eof,
    pc,             \* "idle", "loop" (before c->recv), "ssl" (in ssl_recv) or "parse"
    outcome,        \* "reading", or how the client's handler was called
    buf, last, end, \* client->recv: bytes by offset (as far as bytes come), b->last and b->end as offsets
    ssl_last,       \* c->ssl->last
    p, size, bytes  \* of the running ssl_recv: where the next byte goes, the room, the bytes so far

vars == <<tls, sent, closed, taken, edge, send, borrowed, pending_eof, pc, outcome, buf, last, end,
          ssl_last, p, size, bytes>>
network == <<tls, sent, closed>>
locals == <<p, size, bytes>>

Init ==
    /\ tls \in BOOLEAN /\ sent = 0 /\ closed = "no" /\ taken = 0
    /\ edge = FALSE /\ send = "no" /\ borrowed = FALSE /\ pending_eof = FALSE
    /\ pc = "idle" /\ outcome = "reading"
    /\ buf = [k \in 0..(Total - 1) |-> 0] /\ last = 0 /\ end = BASE_RANGE
    /\ ssl_last = OK /\ p = 0 /\ size = 0 /\ bytes = 0

-----------------------------------------------------------------------------
(* The server, the network and the kernel *)

Environment ==
    /\ outcome = "reading"
    /\ UNCHANGED <<tls, taken, pending_eof, pc, outcome, buf, last, end, ssl_last, locals>>

Arrive(n) ==
    /\ closed = "no" /\ sent + n <= Total
    /\ sent' = sent + n /\ edge' = TRUE
    /\ UNCHANGED <<closed, send, borrowed>> /\ Environment

Close(how) ==
    /\ \/ closed = "no" /\ (how = "notify" => tls)
       \/ closed = "notify" /\ how # "notify"
    /\ closed' = how /\ edge' = TRUE
    /\ UNCHANGED <<sent, send, borrowed>> /\ Environment

\* The peer starts a renegotiation, and the answer does not fit into the socket
Renegotiate ==
    /\ tls /\ send = "no" /\ sent < Total /\ send' = "blocked"
    /\ UNCHANGED <<sent, closed, edge, borrowed>> /\ Environment

\* The socket takes data again
Writable ==
    /\ send = "blocked" /\ send' = "free"
    /\ UNCHANGED <<sent, closed, edge, borrowed>> /\ Environment

-----------------------------------------------------------------------------
(* The event loop calls the read handler *)

\* event_process: the EPOLLIN half of an entry
Report ==
    /\ pc = "idle" /\ outcome = "reading" /\ edge
    /\ edge' = FALSE /\ pending_eof' = (pending_eof \/ closed \in {"fin", "rst"}) /\ pc' = "loop"
    /\ UNCHANGED <<network, taken, send, borrowed, outcome, buf, last, end, ssl_last, locals>>

\* ssl_write_handler: the EPOLLOUT edge leads to the read handler too
ReportOut ==
    /\ pc = "idle" /\ outcome = "reading" /\ borrowed /\ send = "free"
    /\ send' = "reported" /\ pc' = "loop"
    /\ UNCHANGED <<network, taken, edge, borrowed, pending_eof, outcome, buf, last, end, ssl_last,
                   locals>>

\* Mutant of Resized: the buffer is not resized
NotResized == end

\* The size a full buffer gets; realloc() keeps what is in it
resize_temp_buf(range) == IF range <= 32 * BASE_RANGE THEN 2 * range ELSE range + BASE_RANGE

\* The receive loop resizes a full buffer before it reads on
Resized == IF last = end THEN resize_temp_buf(end) ELSE end

\* n bytes of the stream, from position from on, are written at offset at
Copy(at, from, n) == [k \in DOMAIN buf |-> IF k \in at..(at + n - 1) THEN from + k - at + 1 ELSE buf[k]]

Leave(to) == pc' = to /\ UNCHANGED <<buf, last, taken>>
Fails == outcome' = "failed" /\ pc' = "idle" /\ UNCHANGED <<buf, last, taken>>

\* Mutant of Interrupted: EINTR counts as EAGAIN
InterruptedLeaves == Leave("parse") /\ UNCHANGED outcome

\* recv() was interrupted: unix_recv calls it again
Interrupted == Leave("loop") /\ UNCHANGED outcome

unix_recv ==
    LET avail == sent - taken
        n     == Min({avail, Resized - last})
    IN  /\ pc = "loop" /\ ~tls /\ end' = Resized
        /\ \/ Interrupted
           \/ /\ avail > 0
              /\ buf' = Copy(last, taken, n) /\ last' = last + n /\ taken' = taken + n
              /\ UNCHANGED <<pc, outcome>>
           \/ avail = 0 /\ closed \in {"no", "fin"} /\ Leave("parse") /\ UNCHANGED outcome
           \/ avail = 0 /\ closed = "rst" /\ Fails
        /\ UNCHANGED <<network, edge, send, borrowed, pending_eof, ssl_last, locals>>

-----------------------------------------------------------------------------
\* ssl_recv, up to its loop: an error or the end of the stream that came after bytes is returned now
SslBegin ==
    /\ pc = "loop" /\ tls /\ end' = Resized
    /\ CASE ssl_last = ERROR -> Fails /\ UNCHANGED locals
         [] ssl_last = DONE -> Leave("parse") /\ UNCHANGED <<outcome, locals>>
         [] OTHER -> /\ Leave("ssl") /\ UNCHANGED outcome
                     /\ p' = last /\ size' = Resized - last /\ bytes' = 0
    /\ UNCHANGED <<network, edge, send, borrowed, pending_eof, ssl_last>>

\* The position up to which the bytes in the buffer of this connection reach
Delivered == last + (IF pc = "ssl" THEN bytes ELSE 0)

\* The next whole record, when it is there
RecordEnd == Min({taken + Record, Total})
Decodable == IF taken > Delivered THEN taken ELSE IF sent >= RecordEnd THEN RecordEnd ELSE taken

\* Mutant of Advance: the next SSL_read writes over the bytes of the last one
AdvanceSize(n) == size' = size - n /\ UNCHANGED p

Advance(n) == size' = size - n /\ p' = p + n

\* SSL_read returns n > 0 bytes: ssl_handle_recv gives a borrowed write handler back
SslData ==
    LET n == Min({Decodable - Delivered, size})
    IN  /\ send # "blocked" /\ Decodable > Delivered
        /\ buf' = Copy(p, Delivered, n) /\ taken' = Decodable /\ bytes' = bytes + n
        /\ Advance(n) /\ ssl_last' = OK /\ borrowed' = FALSE /\ send' = "no"
        /\ IF size = n THEN pc' = "loop" /\ last' = last + bytes + n ELSE UNCHANGED <<pc, last>>
        /\ UNCHANGED outcome

\* What ssl_handle_recv makes of an SSL_read without bytes.  A FIN or RST without the alert is an
\* error only if the library queues one.
SslNothing ==
    CASE send = "blocked" -> {EAGAIN}
      [] send # "blocked" /\ Decodable > Delivered -> {}
      [] OTHER -> IF closed = "no" THEN {EAGAIN} ELSE IF closed = "notify" THEN {DONE} ELSE {DONE, ERROR}

\* Mutant of SslEnds: the end of the stream is returned at once, and the bytes with it are lost
SslEndsAtOnce(r) == IF r = ERROR THEN Fails ELSE Leave("parse") /\ UNCHANGED outcome

\* ssl_recv returns: bytes if there are any, else what r says
SslEnds(r) ==
    IF bytes > 0 THEN pc' = "loop" /\ last' = last + bytes /\ UNCHANGED <<outcome, buf, taken>>
    ELSE IF r = ERROR THEN Fails ELSE Leave("parse") /\ UNCHANGED outcome

\* WANT_WRITE: the write event is registered, its handler borrowed
SslStops(r) ==
    /\ r \in SslNothing /\ ssl_last' = r
    /\ borrowed' = (borrowed \/ send = "blocked")
    /\ send' = (IF send = "blocked" THEN send ELSE "no")
    /\ SslEnds(r) /\ UNCHANGED locals

ssl_recv ==
    /\ pc = "ssl"
    /\ SslData \/ \E r \in {EAGAIN, DONE, ERROR} : SslStops(r)
    /\ UNCHANGED <<network, edge, pending_eof, end>>

-----------------------------------------------------------------------------
\* "server closed socket or html receive done"
Finished == last = Total \/ pending_eof

\* The rest of http_read_event_process: parse what is there
Parse ==
    /\ pc = "parse" /\ pc' = "idle"
    /\ outcome' = IF Finished THEN "done" ELSE "reading"
    /\ UNCHANGED <<network, taken, edge, send, borrowed, pending_eof, buf, last, end, ssl_last, locals>>

HandlerStep == unix_recv \/ SslBegin \/ ssl_recv \/ Parse

Next ==
    \/ \E n \in 1..Total : Arrive(n)
    \/ \E how \in {"notify", "fin", "rst"} : Close(how)
    \/ Renegotiate \/ Writable
    \/ Report \/ ReportOut \/ HandlerStep

\* The worker's thread runs, epoll reports what is ready, and the peer takes what it asked for
Fairness == WF_vars(Report) /\ WF_vars(ReportOut) /\ WF_vars(HandlerStep) /\ WF_vars(Writable)

Spec == Init /\ [][Next]_vars /\ Fairness

-----------------------------------------------------------------------------
\* Offsets stay inside the buffer and the stream
TypeOK ==
    /\ tls \in BOOLEAN /\ edge \in BOOLEAN /\ borrowed \in BOOLEAN /\ pending_eof \in BOOLEAN
    /\ sent \in 0..Total /\ taken \in 0..sent /\ last \in 0..taken
    /\ end \in Nat \ {0} /\ last <= end
    /\ p \in Nat /\ size \in Nat /\ bytes \in Nat /\ p + size <= end
    /\ closed \in {"no", "notify", "fin", "rst"} /\ send \in {"no", "blocked", "free", "reported"}
    /\ ssl_last \in {OK, ERROR, DONE, EAGAIN}
    /\ pc \in {"idle", "loop", "ssl", "parse"} /\ outcome \in {"reading", "done", "failed"}

\* The buffer holds the response from its first byte on, without a gap and in order, however records,
\* reads and the room in the buffer are cut, and although ssl_recv fills it in several SSL_reads;
\* no read is offered room past its end.
InOrder == TypeOK /\ \A k \in 0..(last - 1) : buf[k] = k + 1

\* Readable: a recv() or SSL_read would return bytes now
Readable == IF tls THEN Decodable > last ELSE sent > taken

\* Edge-triggered: when the handler has returned, bytes it could still read will be reported, by an
\* edge that is due or by the write event of a renegotiation that is not finished; and so will a FIN
\* or RST that came anywhere in the receive loop (recv() = 0 alone, rev->eof, ends nothing).
NothingStranded ==
    pc = "idle" /\ outcome = "reading" =>
        /\ Readable => edge \/ (borrowed /\ send \in {"blocked", "free"})
        /\ closed \in {"fin", "rst"} => edge

\* A client that ends with the connection has all whole records or bytes the server had sent: the
\* end of the stream does not swallow bytes that came with it, unless the library could not read on.
NoneLostAtEnd == outcome = "done" /\ send = "no" => ~Readable

\* Once the whole page has been sent the client is ended, with the page or by an error.
PageArrives == sent = Total ~> outcome # "reading"
===============================================================================
